------------------------------- MODULE Witnesses -------------------------------
\* src/src/validators/phase_1/validation/witness.rs: the witnesses a transaction
\* provides, those its parts require, and the errors of the difference.
EXTENDS Transaction

\* ---- provided (collect_provided_witnesses, collect_scripts_from_inputs) ----

ScriptRefs(refs, ctx) == {ctx.utxo[r].script : r \in Known(refs, ctx)} \ {None}
\* A script reference of a spent or referenced UTxO offers its script; one that does
\* not decode refuses the whole validation.
Offered(tx, ctx) == ScriptRefs(tx.inputs \cup tx.references, ctx) \ {Garbled}
RefGarbled(tx, ctx) == Garbled \in ScriptRefs(tx.inputs \cup tx.references, ctx)
Sources(tx, ctx) == tx.scripts \cup Offered(tx, ctx)
\* The sources are one map by hash and the UTxOs are read last: a script both in the
\* witness set and offered counts as offered.
FromWitnessSet(tx, ctx) == tx.scripts \ Offered(tx, ctx)
\* Native scripts that are there to be evaluated, and those that are only there.
Examined(tx, ctx) == {s \in Sources(tx, ctx) : IsNative(s)} \ Deep
Unexamined(tx, ctx) == Offered(tx, ctx) \cap Deep
ProvidedKeys(tx) == {v.key : v \in tx.vkeys}

\* ---- required (collect_required_witnesses) ----

Requires(tag, index, script, datum) == [tag |-> tag, index |-> index, script |-> script, datum |-> datum]
DatumHash(output) == IF output.inline THEN None ELSE output.datum

InputScripts(tx, ctx) ==
  {Requires("spend", SortedIndex(tx.inputs, r), ctx.utxo[r].owner, DatumHash(ctx.utxo[r])) :
     r \in Known(tx.inputs, ctx)}
WithdrawalScripts(tx) == {Requires("reward", SortedIndex(tx.withdrawals, a), a, None) : a \in tx.withdrawals}
\* Certificates, proposals, votes and policies are indexed as the transaction lists them.
CertScripts(tx) == {Requires("cert", i - 1, tx.certs[i].cred, None) :
  i \in {j \in DOMAIN tx.certs : tx.certs[j].kind \notin PoolOwnKinds}}
ProposalScripts(tx) == {Requires("propose", i - 1, tx.proposals[i].policy, None) :
  i \in {j \in DOMAIN tx.proposals : tx.proposals[j].kind \in GuardedKinds}}
VoteScripts(tx) == {Requires("vote", i - 1, tx.votes[i].cred, None) :
  i \in {j \in DOMAIN tx.votes : tx.votes[j].role # "pool"}}
MintScripts(tx) == {Requires("mint", i - 1, tx.mint[i], None) : i \in DOMAIN tx.mint}

Required(tx, ctx) ==
  {q \in InputScripts(tx, ctx) \cup WithdrawalScripts(tx) \cup CertScripts(tx)
       \cup ProposalScripts(tx) \cup VoteScripts(tx) \cup MintScripts(tx) : q.script \in Scripts}
RequiredNative(tx, ctx) == {q \in Required(tx, ctx) : IsNative(q.script) /\ q.script \in Sources(tx, ctx)}
RequiredPlutus(tx, ctx) == {q \in Required(tx, ctx) : IsPlutus(q.script) /\ q.script \in Sources(tx, ctx)}
RequiredUnknown(tx, ctx) == {q \in Required(tx, ctx) : q.script \notin Sources(tx, ctx)}
RequiredDatums(tx, ctx) == {q.datum : q \in RequiredPlutus(tx, ctx)} \ {None}

\* Slip: a collateral input is not spent, so nobody signs for it.
Owners_NoCollateral(tx, ctx) == {ctx.utxo[r].owner : r \in Known(tx.inputs, ctx)}
Owners(tx, ctx) == {ctx.utxo[r].owner : r \in Known(tx.inputs \cup tx.collateral, ctx)}
CertSigners(c) == CASE c.kind = "PoolRegistration" -> {c.pool} \cup c.owners
                    [] c.kind = "PoolRetirement" -> {c.pool}
                    [] OTHER -> {c.cred}
RequiredKeys(tx, ctx) ==
  Keys \cap (Owners(tx, ctx) \cup tx.withdrawals \cup (UNION {CertSigners(c) : c \in Range(tx.certs)})
             \cup {v.cred : v \in Range(tx.votes)} \cup tx.signers)
\* Whoever a native script names may sign, whether or not it needs the signature.
Candidates(tx, ctx) ==
  UNION {KeyHashes(FlatForm[s]) : s \in {q.script : q \in RequiredNative(tx, ctx)} \cap Examined(tx, ctx)}

\* ---- the judgement (collect_invalid_native_scripts, validate) ----

Interval(tx) == [start |-> tx.start, end |-> tx.ttl]
InvalidNative(tx, ctx) ==
  {s \in {q.script : q \in RequiredNative(tx, ctx)} \cap Examined(tx, ctx) :
     ~Evaluate(FlatForm[s], ProvidedKeys(tx), Interval(tx))}

\* The languages whose cost model enters the hash; one the context has no model of
\* refuses the validation. NoHash where there is nothing to hash.
UsedVersions(tx, ctx) == {Language[q.script] : q \in RequiredPlutus(tx, ctx)}
NoHash == <<>>
ScriptDataHash(versions, redeemers, datums) ==
  IF versions = {} /\ redeemers = {} /\ datums = {} THEN NoHash ELSE <<versions, redeemers, datums>>
ExpectedHash(tx, ctx) == ScriptDataHash(UsedVersions(tx, ctx), tx.redeemers, tx.datums)

WitnessesRefuse(tx, ctx) == RefGarbled(tx, ctx) \/ ~(UsedVersions(tx, ctx) \subseteq ctx.costModels)

Errors(name, set) == {<<name, e>> : e \in set}
\* Slip: a datum is extraneous unless an input requires it.
ExtraneousDatums_NotOfOutputs(tx, ctx) == tx.datums \ RequiredDatums(tx, ctx)
OutputDatums(tx) == {DatumHash(o) : o \in Range(tx.outputs)}
ExtraneousDatums(tx, ctx) == tx.datums \ (RequiredDatums(tx, ctx) \cup OutputDatums(tx))
WitnessErrors(tx, ctx) ==
  Errors("MissingVKeyWitnesses", RequiredKeys(tx, ctx) \ ProvidedKeys(tx))
  \cup Errors("InvalidSignature", {v.key : v \in {w \in tx.vkeys : ~w.valid}})
  \cup Errors("NativeScriptIsUnsuccessful", InvalidNative(tx, ctx))
  \cup Errors("MissingScriptWitnesses", {q.script : q \in RequiredUnknown(tx, ctx)})
  \cup Errors("MissingRedeemer", {<<q.tag, q.index>> : q \in RequiredPlutus(tx, ctx)} \ tx.redeemers)
  \cup Errors("MissingDatum", RequiredDatums(tx, ctx) \ tx.datums)
  \cup Errors("ExtraneousScriptWitnesses",
              FromWitnessSet(tx, ctx) \ {q.script : q \in Required(tx, ctx)})
  \cup Errors("ExtraneousDatumWitnesses", ExtraneousDatums(tx, ctx))
  \cup Errors("ExtraneousSignature", ProvidedKeys(tx) \ (RequiredKeys(tx, ctx) \cup Candidates(tx, ctx)))
  \cup (IF tx.scriptDataHash = ExpectedHash(tx, ctx) THEN {} ELSE {<<"ScriptDataHashMismatch", None>>})
WitnessWarnings(tx, ctx) ==
  Errors("NativeScriptNotExamined", {q.script : q \in RequiredNative(tx, ctx)} \cap Unexamined(tx, ctx))
=============================================================================
