------------------------------- MODULE LedgerRules -------------------------------
\* What the Conway ledger asks of a transaction on a chain, in the ledger's own terms
\* (the rules UTXOW, UTXO and GOV of cardano-ledger, which the validators name): the
\* failures of a transaction, for what the validators report to be held against.
\* `chain` has the shape of a validation context that holds everything.
EXTENDS PhaseTwo, NativeScriptTrees

Failure(condition, name) == IF condition THEN {name} ELSE {}

\* ---- UTXOW: witnesses ----

\* The script purposes of the body. Policies are a map, read in its order; the vote
\* procedures are taken in the order the library gives them.
Rank(set, e) == Cardinality({x \in set : x < e})
Purposes(tx, chain) ==
  {<<"spend", Rank(tx.inputs, r), chain.utxo[r].owner>> : r \in tx.inputs}
  \cup {<<"reward", Rank(tx.withdrawals, a), a>> : a \in tx.withdrawals}
  \cup {<<"mint", Rank(Range(tx.mint), p), p>> : p \in Range(tx.mint)}
  \cup {<<"cert", i - 1, tx.certs[i].cred>> :
          i \in {j \in DOMAIN tx.certs : tx.certs[j].kind \notin PoolOwnKinds /\ ~Unwitnessed(tx.certs[j])}}
  \cup {<<"propose", i - 1, tx.proposals[i].policy>> :
          i \in {j \in DOMAIN tx.proposals : tx.proposals[j].kind \in GuardedKinds}}
  \cup {<<"vote", i - 1, tx.votes[i].cred>> : i \in {j \in DOMAIN tx.votes : tx.votes[j].role # "pool"}}
Needed(tx, chain) == {p \in Purposes(tx, chain) : p[3] \in Scripts}
NeededScripts(tx, chain) == {p[3] : p \in Needed(tx, chain)}
Referenced(tx, chain) == {chain.utxo[r].script : r \in tx.inputs \cup tx.references}
PlutusNeeded(tx, chain) ==
  {p \in Needed(tx, chain) : IsPlutus(p[3]) /\ p[3] \in tx.scripts \cup Referenced(tx, chain)}
Signers(tx) == {v.key : v \in tx.vkeys}
\* A policy, of tokens or of the guardrails, is a script and nobody's key.
KeysNeeded(tx, chain) ==
  Keys \cap ({chain.utxo[r].owner : r \in tx.inputs \cup tx.collateral}
             \cup {p[3] : p \in {q \in Purposes(tx, chain) : q[1] \notin {"mint", "propose"}}}
             \cup (UNION {IF c.kind \in PoolOwnKinds THEN CertSigners(c) ELSE {} : c \in Range(tx.certs)})
             \cup {v.cred : v \in Range(tx.votes)} \cup tx.signers)
DatumsOf(outputs) == {o.datum : o \in {p \in outputs : ~p.inline}} \ {None}
\* An input whose script is nowhere to be found asks for no datum.
PlutusInputs(tx, chain) ==
  {chain.utxo[r] : r \in {q \in tx.inputs :
     IsPlutus(chain.utxo[q].owner) /\ chain.utxo[q].owner \in tx.scripts \cup Referenced(tx, chain)}}
AllowedDatums(tx, chain) ==
  DatumsOf(Range(tx.outputs) \cup Range(tx.collateralReturn) \cup {chain.utxo[r] : r \in tx.references})
UtxowFailures(tx, chain) ==
  Failure(~(KeysNeeded(tx, chain) \subseteq Signers(tx)), "MissingVKey")
  \cup Failure(\E v \in tx.vkeys : ~v.valid, "InvalidWitness")
  \cup Failure(\E r \in tx.inputs \cup tx.collateral : chain.utxo[r].owner = None, "MissingBootstrap")
  \cup Failure(\E s \in NeededScripts(tx, chain) \cap (tx.scripts \cup Referenced(tx, chain)) :
                 IsNative(s) /\ ~Holds(Tree[s], Signers(tx), Interval(tx)), "ScriptFails")
  \cup Failure(~(NeededScripts(tx, chain) \subseteq tx.scripts \cup Referenced(tx, chain)), "MissingScript")
  \cup Failure(~(tx.scripts \subseteq NeededScripts(tx, chain) \cup Referenced(tx, chain)), "ExtraneousScript")
  \cup Failure(tx.scripts \cap Referenced(tx, chain) # {}, "ScriptGivenTwice")
  \cup Failure(~(DatumsOf(PlutusInputs(tx, chain)) \subseteq tx.datums), "MissingDatum")
  \cup Failure(\E o \in PlutusInputs(tx, chain) :
                 o.datum = None /\ ~o.inline /\ Language[o.owner] # "v3", "NoDatumHash")
  \cup Failure(~(tx.datums \subseteq DatumsOf(PlutusInputs(tx, chain)) \cup AllowedDatums(tx, chain)),
               "ExtraneousDatum")
  \cup Failure({<<p[1], p[2]>> : p \in PlutusNeeded(tx, chain)} # tx.redeemers, "Redeemers")
  \cup Failure(tx.scriptDataHash # ScriptDataHash({Language[p[3]] : p \in PlutusNeeded(tx, chain)},
                                                  tx.redeemers, tx.datums), "ScriptDataHash")
  \cup Failure(tx.auxiliaryHash # tx.auxiliary, "Auxiliary")

\* ---- UTXO: the body and the UTxOs ----

\* The reference scripts of every UTxO spent or referenced, one as often as it occurs.
ScriptBytes(tx, chain) ==
  Total([r \in tx.inputs \cup tx.references |-> RefSize[chain.utxo[r].script]])
LeastFee(tx, chain) ==
  Params.feeA * tx.size + Params.feeB + Params.refPrice * ScriptBytes(tx, chain) + Params.price * TotalUnits(tx)
AllOutputs(tx) == Range(tx.outputs) \cup Range(tx.collateralReturn)
CollateralCoin(tx, chain) == Balance(tx, chain, "coin")
CollateralFails(tx, chain) ==
  \/ tx.collateral = {}
  \/ \E r \in tx.collateral : chain.utxo[r].owner \in Scripts
  \/ Balance(tx, chain, "assets") # 0
  \/ 100 * CollateralCoin(tx, chain) < Params.percentage * tx.fee
  \/ tx.totalCollateral \notin {Absent, CollateralCoin(tx, chain)}
UtxoFailures(tx, chain) ==
  Failure((tx.start # NoBound /\ chain.slot < tx.start) \/ (tx.ttl # NoBound /\ tx.ttl <= chain.slot), "Validity")
  \cup Failure(tx.inputs = {}, "NoInput")
  \cup Failure(\E r \in Named(tx) : chain.utxo[r].spent, "BadInputs")
  \cup Failure(tx.references \cap tx.inputs # {}, "Overlap")
  \cup Failure(tx.fee < LeastFee(tx, chain), "Fee")
  \cup Failure(tx.redeemers # {} /\ CollateralFails(tx, chain), "Collateral")
  \cup Failure(Cardinality(tx.collateral) > Params.maxCollateral, "TooManyCollateral")
  \cup Failure(\E o \in AllOutputs(tx) : o.coin < Params.minCoin, "OutputTooSmall")
  \cup Failure(\E o \in Range(tx.outputs) : o.size > Params.maxValueSize, "OutputTooBig")
  \cup Failure(\E o \in Range(tx.outputs) : o.net \notin {Network, "untold"}, "Network")
  \cup Failure(\E o \in Range(tx.collateralReturn) : o.size > Params.maxValueSize, "ReturnTooBig")
  \cup Failure(\E o \in Range(tx.collateralReturn) : o.net \notin {Network, "untold"}, "ReturnNetwork")
  \cup Failure(tx.withdrawals # {} /\ tx.withdrawalNet # Network, "Network")
  \cup Failure(tx.net \notin {Network, "untold"}, "Network")
  \cup Failure(tx.size > Params.maxSize, "TxSize")
  \cup Failure(ScriptBytes(tx, chain) > Params.maxRefs, "RefScripts")
  \cup Failure(TotalUnits(tx) > Params.maxUnits, "Units")

\* ---- GOV, after the certificates ----

Kinds(tx, kind) == {c \in Range(tx.certs) : c.kind = kind}
IsLast(i, own) == i \in own /\ \A j \in own : j <= i
\* Who speaks for a member once the certificates are applied: the last hot key it
\* authorised, unless it resigns.
SpeaksFor(tx, m, hot) ==
  LET own == {i \in DOMAIN tx.certs : tx.certs[i].kind \in CommitteeKinds /\ tx.certs[i].cred = m.cold} IN
  \/ own = {} /\ ~m.resigned /\ m.hot = hot
  \/ \E i \in own : IsLast(i, own) /\ tx.certs[i].kind = "CommitteeHotAuth" /\ tx.certs[i].hot = hot
IsDRep(tx, chain, cred) ==
  LET own == {i \in DOMAIN tx.certs :
        tx.certs[i].kind \in {"DRepRegistration", "DRepDeregistration"} /\ tx.certs[i].cred = cred} IN
  \/ own = {} /\ cred \in chain.dreps
  \/ \E i \in own : IsLast(i, own) /\ tx.certs[i].kind = "DRepRegistration"
VoterExists(tx, chain, v) ==
  CASE v.role = "drep" -> IsDRep(tx, chain, v.cred)
    [] v.role = "pool" -> v.cred \in chain.pools \/ \E c \in Kinds(tx, "PoolRegistration") : c.pool = v.cred
    [] v.role = "committee" -> \E m \in chain.committee : SpeaksFor(tx, m, v.cred)
\* The accounts that are registered once the certificates are applied.
Registering == {"StakeRegistration", "StakeRegistrationAndDelegation",
                "StakeVoteRegistrationAndDelegation", "VoteRegistrationAndDelegation"}
IsAccount(tx, chain, a) ==
  LET own == {i \in DOMAIN tx.certs :
        tx.certs[i].kind \in Registering \cup {"StakeDeregistration"} /\ tx.certs[i].cred = a} IN
  \/ own = {} /\ a \in chain.accounts
  \/ \E i \in own : IsLast(i, own) /\ tx.certs[i].kind \in Registering
GovFailures(tx, chain) ==
  LET votedOn == (UNION {v.actions : v \in Range(tx.votes)}) \cap DOMAIN chain.actions
      votes == {p \in Range(tx.votes) \X votedOn : p[2] \in p[1].actions}
      treasury == {p \in Proposals(tx) : p.kind = "TreasuryWithdrawalsAction"}
  IN Failure(\E v \in Range(tx.votes) : ~VoterExists(tx, chain, v), "Voter")
     \cup Failure(\E v \in Range(tx.votes) : ~(v.actions \subseteq DOMAIN chain.actions), "UnknownAction")
     \cup Failure(\E a \in votedOn : ~chain.actions[a].active, "ExpiredAction")
     \cup Failure(\E p \in votes :
            LET action == chain.actions[p[2]] IN
            \/ p[1].role = "pool" /\ action.kind \in {"NewConstitutionAction", "TreasuryWithdrawalsAction"}
            \/ p[1].role = "pool" /\ action.kind = "ParameterChangeAction" /\ ~action.security
            \/ p[1].role = "committee" /\ action.kind \in {"NoConfidenceAction", "UpdateCommitteeAction"},
            "DisallowedVoter")
     \cup Failure(\E p \in Proposals(tx) : ~IsAccount(tx, chain, p.account), "ReturnAccount")
     \cup Failure(\E p \in treasury : \E a \in p.targets : ~IsAccount(tx, chain, a), "TreasuryAccount")
     \cup Failure(\E p \in treasury : p.targets = {} \/ p.amount = 0, "ZeroTreasury")
     \cup Failure(\E p \in Proposals(tx) : p.kind \in GuardedKinds /\ p.policy # chain.constitution[1], "Guardrail")
     \cup Failure(\E p \in Proposals(tx) : p.net # Network, "Network")
     \cup Failure(\E p \in treasury : p.targetNet # Network /\ p.targets # {}, "Network")
     \cup Failure(\E p \in Proposals(tx) : p.kind = "UpdateCommitteeAction" /\ p.add \cap p.remove # {},
                  "CommitteeConflict")
     \cup Failure(~(PreviousActions(tx) \subseteq DOMAIN chain.actions), "Lineage")

\* ---- the scripts ----

\* Every script needed runs in a context its language admits, to success, within the
\* units its redeemer declares.
ScriptFailures(tx, chain) ==
  LET languages == {Language[p[3]] : p \in PlutusNeeded(tx, chain)}
      legacy == languages \cap {"v1", "v2"} # {}
  IN Failure(\E p \in PlutusNeeded(tx, chain) : p[3] \notin Succeeds, "ScriptFails")
     \cup Failure(languages # {} /\ tx.units < Cost, "Units")
     \cup Failure("v1" \in languages /\ \E o \in Range(tx.outputs) : o.inline, "Context")
     \cup Failure(legacy /\ (tx.votes # <<>> \/ tx.proposals # <<>> \/ tx.donation), "Context")
     \cup Failure(legacy /\ \E c \in Range(tx.certs) : c.kind \notin PoolOwnKinds \cup
                    {"StakeRegistration", "StakeDeregistration", "StakeDelegation"}, "Context")
     \cup Failure(languages # {} /\ \E o \in Range(tx.outputs) : o.address = "byron", "Context")
     \cup Failure(\E p \in PlutusNeeded(tx, chain) : BuilderRefuses(tx, chain, p[3]), "Context")

LedgerFailures(tx, chain) ==
  IF ~(Named(tx) \subseteq DOMAIN chain.utxo) THEN {"BadInputs"}
  ELSE UtxowFailures(tx, chain) \cup UtxoFailures(tx, chain) \cup GovFailures(tx, chain)
       \cup ScriptFailures(tx, chain)
=============================================================================
