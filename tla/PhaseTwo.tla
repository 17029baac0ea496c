-------------------------------- MODULE PhaseTwo --------------------------------
\* src/src/validators/phase_2: the scripts run, each redeemer on its own
\* (validation.rs, eval_redeemer.rs, context_guard.rs). The lookup of a redeemer's
\* script, the context its language admits and the run itself are uplc's: they are
\* here as the code in phase_2 relies on them.
EXTENDS BodyChecks

CONSTANTS
  Succeeds,  \* the Plutus scripts that end in success
  Cost       \* the units a run takes

Named(tx) == NecessaryUtxos(tx)

\* A UTxO that nests past what is read keeps phase 2 from looking at any redeemer.
NotExamined(tx, ctx) == {r \in Known(Named(tx), ctx) : ctx.utxo[r].script \in Deep \/ ctx.utxo[r].deep}
\* One the context does not hold, or whose script does not decode, refuses the
\* validation, phase 1's errors with it.
Missed(tx, ctx) == Named(tx) \ DOMAIN ctx.utxo
PhaseTwoRefuses(tx, ctx) ==
  /\ NotExamined(tx, ctx) = {}
  /\ Missed(tx, ctx) # {} \/ Garbled \in ScriptRefs(Named(tx), ctx)

\* ---- uplc (external) ----

\* The item a redeemer points at by its index, if there is one: sets are in the ledger's
\* order, certificates, proposals and votes as they are listed.
NthOfSet(set, n) == {e \in set : SortedIndex(set, e) = n}
NthListed(list, n) == {list[i] : i \in DOMAIN list \cap {n + 1}}
Pointed(tx, ctx, tag, n) ==
  CASE tag = "spend" -> {ctx.utxo[r].owner : r \in NthOfSet(tx.inputs, n)}
    [] tag = "reward" -> NthOfSet(tx.withdrawals, n)
    [] tag = "mint" -> NthOfSet(Range(tx.mint), n)
    [] tag = "cert" -> {c.cred : c \in {d \in NthListed(tx.certs, n) : d.kind \notin PoolOwnKinds /\ ~Unwitnessed(d)}}
    [] tag = "propose" -> {p.policy : p \in {q \in NthListed(tx.proposals, n) : q.kind \in GuardedKinds}}
    [] tag = "vote" -> {v.cred : v \in NthListed(tx.votes, n)}
\* find_script: the purpose's script, when it is a Plutus script that is there, and
\* its datum where its language wants one.
HasDatum(tx, output, script) ==
  \/ output.inline \/ DatumHash(output) \in tx.datums
  \/ Language[script] = "v3" /\ output.datum = None
FindScript(tx, ctx, redeemer) ==
  {s \in Pointed(tx, ctx, redeemer[1], redeemer[2]) :
     /\ IsPlutus(s)
     /\ s \in tx.scripts \cup ScriptRefs(Named(tx), ctx)
     /\ redeemer[1] = "spend" => \A r \in NthOfSet(tx.inputs, redeemer[2]) : HasDatum(tx, ctx.utxo[r], s)}
\* TxInfo: what the builder itself refuses.
BuilderRefuses(tx, ctx, script) ==
  LET resolved == {ctx.utxo[r] : r \in tx.inputs \cup tx.references} IN
  CASE Language[script] = "v1" ->
         tx.references # {} \/ \E o \in resolved : o.inline \/ o.script # None \/ o.owner = None
    [] Language[script] = "v2" -> \E o \in resolved : o.owner = None
    [] OTHER -> FALSE

\* ---- context_guard.rs ----

\* Withdrawal keys are looked at before the script is; then what no language's context
\* holds; then what the script's own does not.
WithdrawalRefusal(tx) == tx.odd = "withdrawal"
TransactionRefusal(tx) ==
  tx.odd # "nothing" \/ \E o \in Range(tx.outputs) : o.address \in {"byron", "unreadable"}
ConwayOnly == (StakeKinds \cup DRepKinds \cup CommitteeKinds)
              \ {"StakeRegistration", "StakeDeregistration", "StakeDelegation"}
\* Slip: the Conway certificates are left to the builder.
LanguageRefusal_NoCertificates(tx, language) ==
  \/ language = "v1" /\ \E o \in Range(tx.outputs) : o.inline
  \/ language \in {"v1", "v2"} /\ (tx.votes # <<>> \/ tx.proposals # <<>> \/ tx.donation)
LanguageRefusal(tx, language) ==
  \/ language = "v1" /\ \E o \in Range(tx.outputs) : o.inline
  \/ /\ language \in {"v1", "v2"}
     /\ \/ \E c \in Range(tx.certs) : c.kind \in ConwayOnly
        \/ tx.votes # <<>> \/ tx.proposals # <<>> \/ tx.donation

\* ---- eval_redeemer, eval_all_redeemers ----

\* The first thing that stops the redeemer, or the end of its run.
RedeemerError(tx, ctx, redeemer) ==
  LET found == FindScript(tx, ctx, redeemer)
      languages == {Language[s] : s \in found}
  IN
  IF WithdrawalRefusal(tx) THEN "UnreadableTransactionField"
  ELSE IF TransactionRefusal(tx) THEN "ContextRefused"
  ELSE IF found = {} THEN "ScriptLookupError"
  ELSE IF \E l \in languages : LanguageRefusal(tx, l) THEN "ContextRefused"
  ELSE IF ~(languages \subseteq ctx.costModels) THEN "CostModelNotFound"
  ELSE IF \E s \in found : BuilderRefuses(tx, ctx, s) THEN "BuildTxContextError"
  ELSE IF ~(found \subseteq Succeeds) THEN "MachineError"
  ELSE "none"
Ran(error) == error \in {"none", "MachineError"}
\* Only a run has a cost to hold against the redeemer's units.
BudgetErrors(tx, error) == When(Ran(error) /\ tx.units < Cost, "NoEnoughBudget")
PhaseTwoErrors(tx, ctx) ==
  IF NotExamined(tx, ctx) # {} THEN {}
  ELSE UNION {LET error == RedeemerError(tx, ctx, r)
              IN Errors(error, IF error = "none" THEN {} ELSE {r}) \cup BudgetErrors(tx, error) :
                r \in tx.redeemers}
PhaseTwoWarnings(tx, ctx) ==
  IF NotExamined(tx, ctx) # {} THEN Errors("ScriptContextNotExamined", NotExamined(tx, ctx) \X tx.redeemers)
  ELSE When(tx.units > Cost /\ \E r \in tx.redeemers : Ran(RedeemerError(tx, ctx, r)), "BudgetIsBiggerThanExpected")
=============================================================================
