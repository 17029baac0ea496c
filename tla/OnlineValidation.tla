---------------------------- MODULE OnlineValidation ----------------------------
\* src/ts/chain/transactionValidation.ts, validateTransactionOnline: what a
\* transaction needs is fetched from Koios or Blockfrost (koiosClient.ts,
\* blockfrostClient.ts), in stages, while the chain moves on; the context put
\* together from the answers is what the transaction is validated in. With it,
\* validateTransaction called with a context the caller has made.
EXTENDS PhaseTwo

CONSTANTS
  Ledger,   \* the chain, for the calls with a context
  Given,    \* those calls, in families: [transactions, contexts]
  Fetches   \* calls that fetch one: [tx, provider, chains], `chains` what the chain is in turn

\* A UTxO of a chain, and a vote: those who vote have credentials, a pool a key.
UtxoOutput == [owner : Nat, coin : Nat, assets : Nat, datum : Nat, inline : BOOLEAN, script : Nat,
               deep : BOOLEAN, spent : BOOLEAN]
IsVote(v) ==
  /\ v.role \in {"drep", "pool", "committee"} /\ v.cred \in (Keys \cup Scripts) \ Predefined
  /\ v.role = "pool" => v.cred \in Keys
Tags == {"spend", "mint", "cert", "reward", "vote", "propose"}
ASSUME FetchesTyped ==
  \A f \in Fetches :
    /\ f.provider \in {"koios", "blockfrost"}
    /\ Len(f.chains) \in Nat \ {0} /\ DOMAIN f.chains = 1..Len(f.chains)
    /\ \A i \in DOMAIN f.chains : f.chains[i].utxo \in [DOMAIN f.chains[i].utxo -> UtxoOutput]
    /\ \A v \in Range(f.tx.votes) : IsVote(v)
    /\ \A d \in f.tx.redeemers : d[1] \in Tags
\* No block is rolled back while a call fetches: what is spent stays so.
ASSUME SpentStaysSpent ==
  \A f \in Fetches : \A i, j \in DOMAIN f.chains :
    i <= j => \A r \in DOMAIN f.chains[i].utxo \cap DOMAIN f.chains[j].utxo :
      f.chains[i].utxo[r].spent => f.chains[j].utxo[r].spent


\* What a caller validates: a transaction that was decoded, so that no script in it is too
\* deep for the library, in a context that shows a part of the chain at its slot. A
\* member's hot key is its own: of two members with one key the context's first is looked at.
CertificateOf == [kind : StakeKinds \cup PoolKinds \cup DRepKinds \cup CommitteeKinds, cred : Nat, deposit : BOOLEAN,
                pool : Nat, owners : SUBSET Nat, drep : Nat, hot : Nat]
IsTransaction(t) ==
  /\ \A set \in {t.inputs, t.collateral, t.references, t.withdrawals} : set \subseteq Nat /\ IsFiniteSet(set)
  /\ t.certs \in Seq(CertificateOf) /\ t.mint \in Seq(Nat)
  /\ DOMAIN t.votes = 1..Len(t.votes) /\ \A v \in Range(t.votes) : IsVote(v)
  /\ DOMAIN t.proposals = 1..Len(t.proposals)
  /\ \A p \in Range(t.proposals) : p.amount \in Nat /\ IsFiniteSet(p.targets)
  /\ t.scripts \subseteq Scripts \ Deep /\ None \notin t.datums /\ t.redeemers \subseteq Tags \X Nat
  /\ {t.fee, t.size, t.units} \subseteq Nat /\ t.totalCollateral \in Nat \cup {Absent}
  /\ Len(t.collateralReturn) <= 1 /\ DOMAIN t.collateralReturn = 1..Len(t.collateralReturn)
  /\ \A o \in Range(t.collateralReturn) : o.coin \in Nat /\ o.assets \in Nat
IsPartOf(ctx, chain) ==
  /\ DOMAIN ctx.utxo \subseteq DOMAIN chain.utxo /\ DOMAIN ctx.actions \subseteq DOMAIN chain.actions
  /\ \A r \in DOMAIN ctx.utxo : ctx.utxo[r] = chain.utxo[r]
  /\ \A a \in DOMAIN ctx.actions : ctx.actions[a] = chain.actions[a]
  /\ ctx.accounts \subseteq chain.accounts /\ ctx.pools \subseteq chain.pools /\ ctx.dreps \subseteq chain.dreps
  /\ ctx.committee \subseteq chain.committee /\ ctx.slot = chain.slot
  /\ ctx.constitution # NoConstitution => ctx.constitution = chain.constitution
ASSUME GivenTyped ==
  /\ Ledger.utxo \in [DOMAIN Ledger.utxo -> UtxoOutput]
  /\ \A m, n \in Ledger.committee : m.hot = n.hot /\ m.hot # None => m = n
  /\ \A family \in Given : /\ \A t \in family.transactions : IsTransaction(t)
                          /\ \A ctx \in family.contexts : IsPartOf(ctx, Ledger)

\* ---- validator.rs, validate_transaction: the validators in turn, each given the whole
\* transaction and the whole context, their results appended; the first that cannot be built
\* refuses the call with all that was found before it. The certificates are
\* CertificateChecks' and the value equation in full is Balance's. ----
Refused(tx, ctx) == WitnessesRefuse(tx, ctx) \/ PhaseTwoRefuses(tx, ctx)
PhaseOneErrors(tx, ctx) ==
  FeeErrors(tx, ctx) \cup WitnessErrors(tx, ctx) \cup CollateralErrors(tx, ctx) \cup AuxiliaryErrors(tx)
  \cup OutputErrors(tx) \cup LimitErrors(tx, ctx) \cup NetworkErrors(tx) \cup GovernanceErrors(tx, ctx)
Refusal == [refused |-> TRUE, errors |-> {}, warnings |-> {}]
Validated(tx, ctx) ==
  IF Refused(tx, ctx) THEN Refusal
  ELSE [refused |-> FALSE,
        errors |-> PhaseOneErrors(tx, ctx) \cup PhaseTwoErrors(tx, ctx),
        warnings |-> FeeWarnings(tx, ctx) \cup WitnessWarnings(tx, ctx) \cup CollateralWarnings(tx)
                     \cup PhaseTwoWarnings(tx, ctx)]
Names(errors) == {e[1] : e \in errors}

VARIABLES
  tx,       \* the transaction
  chains,   \* the chain now and what it becomes
  now,      \* which of them it is
  provider, \* "koios", "blockfrost" or "caller"
  stage,    \* what is being asked for
  pending,  \* the requests of the stage that have no answer yet
  fetched,  \* the context so far
  unread,   \* the UTxOs with a script whose bytes are still to come
  atTip,    \* the chain when its slot was read
  calm,     \* nothing moved, failed or was left out so far
  result    \* <<>>, or <<what the call returned>>: a Refusal when its promise was rejected

vars == <<tx, chains, now, provider, stage, pending, fetched, unread, atTip, calm, result>>
call == <<tx, chains, provider>>

Chain == chains[now]
Refs == NecessaryUtxos(tx)
Blank == [utxo |-> <<>>, accounts |-> {}, pools |-> {}, dreps |-> {}, actions |-> <<>>, committee |-> {},
          slot |-> 0, constitution |-> NoConstitution, costModels |-> {}]

\* The stages, each started once the one before is over.
\* Slip: the UTxOs are asked for before the tip.
Stages_UtxosFirst == <<"utxos", "scripts", "together", "accounts", "pools", "dreps", "validate">>
Stages == <<"together", "utxos", "scripts", "accounts", "pools", "dreps", "validate">>
\* What is asked for in a stage: at first, of seven requests, the five whose answers
\* the validators modelled here look at. Koios takes 40 UTxOs in a request,
\* Blockfrost each transaction's.
Requests(s) ==
  CASE s = "together" -> {"tip", "params", "committee", "actions", "constitution"}
    [] s = "utxos" -> IF Refs = {} THEN {} ELSE IF provider = "koios" THEN {Refs} ELSE {{r} : r \in Refs}
    [] s = "scripts" -> IF unread = {} THEN {} ELSE {unread}
    [] s = "accounts" -> NecessaryAccounts(tx)
    [] s = "pools" -> {NecessaryPools(tx)} \ {{}}
    [] s = "dreps" -> {NecessaryDReps(tx) \ ({None} \cup Predefined)} \ {{}}
    [] s = "validate" -> {}

Init ==
  /\ \/ \E family \in Given : \E t \in family.transactions, context \in family.contexts :
          /\ tx = t /\ chains = <<Ledger>> /\ fetched = context
          /\ provider = "caller" /\ stage = "validate" /\ pending = {}
     \/ \E f \in Fetches :
          /\ tx = f.tx /\ chains = f.chains /\ fetched = Blank
          /\ provider = f.provider /\ stage = Stages[1] /\ pending = Requests(Stages[1])
  /\ now = 1 /\ unread = {} /\ atTip = 1 /\ calm = TRUE /\ result = <<>>

\* The answer to r is in: once the stage has them all, the next is under way.
StageDone(r) == pending' = pending \ {r} /\ UNCHANGED <<call, now, stage, result>>
NextStage ==
  /\ pending = {} /\ result = <<>>
  /\ \E i \in 2..Len(Stages) : Stages[i - 1] = stage /\ stage' = Stages[i]
  /\ pending' = Requests(stage')
  /\ UNCHANGED <<call, now, fetched, unread, atTip, calm, result>>

\* ---- Promise.all of the first requests ----

Answer(r, context) ==
  /\ stage = "together" /\ r \in pending /\ StageDone(r)
  /\ fetched' = context
  /\ UNCHANGED <<unread, calm>>
TipAnswered == Answer("tip", [fetched EXCEPT !.slot = Chain.slot]) /\ atTip' = now
ParamsAnswered == Answer("params", [fetched EXCEPT !.costModels = Chain.costModels]) /\ UNCHANGED atTip
\* Blockfrost has no committee and no constitution to give.
CommitteeAnswered ==
  /\ Answer("committee", [fetched EXCEPT !.committee = IF provider = "koios" THEN Chain.committee ELSE {}])
  /\ UNCHANGED atTip
ActionsAnswered ==
  /\ Answer("actions",
       [fetched EXCEPT !.actions = Restrict(Chain.actions, NecessaryActions(tx) \cap DOMAIN Chain.actions)])
  /\ UNCHANGED atTip
\* Whatever came, a constitution goes into the context; without one it asks for no
\* guardrails script.
ConstitutionAnswered ==
  /\ Answer("constitution", [fetched EXCEPT !.constitution =
       IF provider = "koios" THEN Chain.constitution ELSE Constitution(None)])
  /\ UNCHANGED atTip
\* Three of them are caught: the failure stands for an empty answer.
Caught == {"committee", "actions", "constitution"}
Emptied(r) ==
  CASE r = "committee" -> [fetched EXCEPT !.committee = {}]
    [] r = "actions" -> [fetched EXCEPT !.actions = <<>>]
    [] r = "constitution" -> [fetched EXCEPT !.constitution = Constitution(None)]
RequestCaught ==
  /\ stage = "together"
  /\ \E r \in pending \cap Caught : StageDone(r) /\ fetched' = Emptied(r)
  /\ calm' = FALSE /\ UNCHANGED <<unread, atTip>>

\* Any other request that fails rejects the whole call; those of accounts do not.
RequestRejected ==
  /\ pending # {} /\ stage # "accounts"
  /\ stage = "together" => ~(pending \subseteq Caught)
  /\ result' = <<Refusal>> /\ pending' = {} /\ calm' = FALSE
  /\ UNCHANGED <<call, now, stage, fetched, unread, atTip>>

\* ---- UTxOs and their scripts ----

\* formatScriptRefForLib takes the bytes of a native script for a script reference
\* when they begin like one: those of a key, of an "all" and of an "any".
Formatted(script) == IF IsNative(script) /\ Tree[script].kind \in {"key", "all", "any"} THEN Garbled ELSE script
WithScript(refs) == {r \in Known(refs, Chain) : Chain.utxo[r].script # None}
NativeRefs(refs) == {r \in WithScript(refs) : IsNative(Chain.utxo[r].script)}
\* Koios gives the bytes of a script, those of a native one or not; Blockfrost never
\* gives those of a native one, and a script that cannot be looked up is left out.
ScriptGiven(r, raw, dropped) ==
  CASE r \in dropped -> None
    [] r \notin dropped /\ r \in NativeRefs(Refs) /\ raw -> Formatted(Chain.utxo[r].script)
    [] OTHER -> Chain.utxo[r].script
UtxosAnswered ==
  /\ stage = "utxos"
  /\ \E refs \in pending, raw \in BOOLEAN, dropped \in SUBSET WithScript(Refs) :
       /\ raw => provider = "koios" /\ NativeRefs(refs) # {}
       /\ dropped \subseteq refs /\ (dropped # {} => provider = "blockfrost")
       /\ StageDone(refs)
       /\ fetched' = [fetched EXCEPT !.utxo =
            [r \in Known(refs, Chain) \cup DOMAIN @ |->
               IF r \in Known(refs, Chain) THEN [Chain.utxo[r] EXCEPT !.script = ScriptGiven(r, raw, dropped)]
               ELSE @[r]]]
       /\ unread' = unread \cup IF raw THEN {} ELSE NativeRefs(refs) \ dropped
       /\ calm' = (calm /\ dropped = {} /\ ~raw)
       /\ UNCHANGED atTip
\* The transaction that made the UTxO has the script, unless it cannot be had or read.
ScriptsAnswered ==
  /\ stage = "scripts"
  /\ \E refs \in pending, lost \in SUBSET unread :
       /\ StageDone(refs)
       /\ fetched' = [fetched EXCEPT !.utxo =
            [r \in DOMAIN @ |-> IF r \in lost THEN [@[r] EXCEPT !.script = None] ELSE @[r]]]
       /\ calm' = (calm /\ lost = {})
  /\ unread' = {} /\ UNCHANGED atTip

\* ---- accounts, pools, DReps ----

\* One account after the other; one whose request fails is taken for unregistered.
\* Slip: it is given the benefit of the doubt.
Unanswered_Registered(account) == {account}
Unanswered(account) == {}
AccountAnswered ==
  /\ stage = "accounts" /\ pending # {}
  /\ LET account == Min(pending) IN
     /\ StageDone(account)
     /\ \/ fetched' = [fetched EXCEPT !.accounts = @ \cup ({account} \cap Chain.accounts)] /\ UNCHANGED calm
        \/ fetched' = [fetched EXCEPT !.accounts = @ \cup Unanswered(account)] /\ calm' = FALSE
  /\ UNCHANGED <<unread, atTip>>
\* A pool about to retire is not registered to Koios; to Blockfrost's client a pool is
\* when its certificates of registration, changes included, outnumber the others.
RegisteredPools == IF provider = "koios" THEN Chain.pools \ Chain.retiring ELSE Chain.renewed
PoolsAnswered ==
  /\ stage = "pools"
  /\ \E ids \in pending : StageDone(ids) /\ fetched' = [fetched EXCEPT !.pools = ids \cap RegisteredPools]
  /\ UNCHANGED <<unread, atTip, calm>>
DRepsAnswered ==
  /\ stage = "dreps"
  /\ \E ids \in pending : StageDone(ids) /\ fetched' = [fetched EXCEPT !.dreps = ids \cap Chain.dreps]
  /\ UNCHANGED <<unread, atTip, calm>>

\* ---- the validation ----

\* Only the seats the transaction's certificates and votes name are kept.
Named_Seats(members) ==
  {m \in members : m.cold \in NecessaryCold(tx) \/ m.hot \in NecessaryHot(tx) \ {None}}
Context == IF provider = "caller" THEN fetched ELSE [fetched EXCEPT !.committee = Named_Seats(@)]
Validate ==
  /\ stage = "validate" /\ result = <<>>
  /\ result' = <<Validated(tx, Context)>>
  /\ UNCHANGED <<call, now, stage, pending, fetched, unread, atTip, calm>>

\* A block is added, at any time before the call is over.
ChainMoves ==
  /\ now < Len(chains) /\ result = <<>>
  /\ now' = now + 1 /\ calm' = FALSE
  /\ UNCHANGED <<call, stage, pending, fetched, unread, atTip, result>>

Next ==
  \/ NextStage \/ TipAnswered \/ ParamsAnswered \/ CommitteeAnswered \/ ActionsAnswered
  \/ ConstitutionAnswered \/ RequestCaught \/ RequestRejected \/ UtxosAnswered \/ ScriptsAnswered
  \/ AccountAnswered \/ PoolsAnswered \/ DRepsAnswered \/ Validate \/ ChainMoves

Spec == Init /\ [][Next]_vars

\* ---- what a fetch is worth ----

Verdict == result[1]
\* Nothing was reported, nor left unexamined.
Accepts(v) == /\ ~v.refused /\ v.errors = {}
              /\ Names(v.warnings) \cap {"NativeScriptNotExamined", "ScriptContextNotExamined"} = {}
Fetched == provider # "caller" /\ result # <<>>
Misjudged == NecessaryPools(tx) \cap ((RegisteredPools \ Chain.pools) \cup (Chain.pools \ RegisteredPools))
\* Blockfrost's verdict may differ by the names of what it has no answer to.
Told(verdict, whole) ==
  IF provider = "koios" THEN verdict = whole
  ELSE /\ verdict.refused = whole.refused /\ verdict.warnings = whole.warnings
       /\ Names((verdict.errors \ whole.errors) \cup (whole.errors \ verdict.errors)) \subseteq
            {"VoterDoNotExist", "InvalidCommitteeVote", "InvalidConstitutionPolicyHash"}
\* On a chain that stands still, with every request answered, what Koios gives is
\* enough: the verdict is the one the whole chain would lead to, unless a pool's state
\* is misjudged. From Blockfrost, only the committee and the guardrails are missing
\* (get_necessary_data_list, fetchValidationData).
QuietFetch == (Fetched /\ calm /\ Misjudged = {}) => Told(Verdict, Validated(tx, Chain))

\* A UTxO fetched as unspent was so when the slot of the context was read, or was not
\* yet there: what is read later never makes an older UTxO unspent.
UnspentAtTip ==
  (Fetched /\ ~Verdict.refused) =>
    \A r \in {q \in DOMAIN fetched.utxo : ~fetched.utxo[q].spent} \cap DOMAIN chains[atTip].utxo :
      ~chains[atTip].utxo[r].spent

\* What the whole chain would have shown that the answers may hide.
HidesLittle(whole) ==
  LET lost == {r \in DOMAIN fetched.utxo : fetched.utxo[r].script # Chain.utxo[r].script}
  IN whole.refused \/ Names(whole.errors) \subseteq
       (IF fetched.constitution = Chain.constitution THEN {} ELSE {"InvalidConstitutionPolicyHash"})
       \cup (IF lost = {} THEN {} ELSE {"FeeTooSmallUTxO", "RefScriptsSizeTooBig", "BuildTxContextError"})
       \cup (IF fetched.committee = Chain.committee \/ NecessaryHot(tx) \cap HotInTx(tx) = {} THEN {}
             ELSE {"InvalidCommitteeVote"})
       \cup (IF Misjudged = {} THEN {} ELSE {"VoterDoNotExist"})
\* A request whose failure is caught, or a script left out, makes errors and hides few:
\* what is accepted on its answers is accepted on the chain, but for a proposal without a
\* policy where the constitution has guardrails; what a reference script weighs in the
\* fee and against the limit on them, and that the contexts of Plutus V1 have none; and
\* the resignation of who votes with a key the transaction itself authorises. One more
\* is hidden without any failure: that a voting pool has retired.
CaughtFailuresHideLittle ==
  Fetched /\ now = 1 /\ Accepts(Verdict) => HidesLittle(Validated(tx, Chain))
=============================================================================
