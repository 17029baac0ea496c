------------------------------- MODULE BodyChecks -------------------------------
\* The validators of src/src/validators/phase_1/validation that judge a transaction's
\* body by itself and by what it names of the chain: collateral.rs, fee.rs, output.rs,
\* transaction_limits.rs, network.rs, auxiliary_data.rs and governance.rs.
EXTENDS Witnesses

CONSTANTS
  Params,    \* the protocol parameters: [feeA, feeB, price, refPrice, percentage, maxCollateral,
             \*   maxSize, maxUnits, maxRefs, maxValueSize, minCoin]
  RefSize,   \* the bytes of a reference script
  Network    \* the network of the context

ASSUME ParamsTyped == /\ \A p \in DOMAIN Params : Params[p] \in Nat
                      /\ "percentage" \in DOMAIN Params /\ "minCoin" \in DOMAIN Params

Absent == -1
When(condition, error) == IF condition THEN {<<error, None>>} ELSE {}
Total(amounts) == FoldFunction(LAMBDA a, b : a + b, 0, amounts)

\* Every redeemer of a transaction declares the same execution units here.
TotalUnits(tx) == tx.units * Cardinality(tx.redeemers)

\* ---- fee.rs ----

\* The UTxOs named as inputs or as reference inputs, each once.
\* Slip: one named as both is paid for twice.
RefBytes_EachTwice(tx, ctx) ==
  Total([r \in Known(tx.inputs, ctx) |-> RefSize[ctx.utxo[r].script]])
  + Total([r \in Known(tx.references, ctx) |-> RefSize[ctx.utxo[r].script]])
RefBytes(tx, ctx) ==
  Total([r \in Known(tx.inputs \cup tx.references, ctx) |-> RefSize[ctx.utxo[r].script]])
MinFee(tx, ctx) == Params.feeA * tx.size + Params.feeB + Params.refPrice * RefBytes(tx, ctx)
                   + Params.price * TotalUnits(tx)
FeeErrors(tx, ctx) == When(tx.fee < MinFee(tx, ctx), "FeeTooSmallUTxO")
\* A fee more than a tenth above the minimum is worth a warning.
FeeWarnings(tx, ctx) ==
  When(tx.fee > MinFee(tx, ctx) + MinFee(tx, ctx) \div 10, "FeeIsBiggerThanMinFee")

\* ---- collateral.rs ----

NeedCollateral(tx) == tx.redeemers # {}
\* `part` of an output is its "coin" or its other "assets".
CollateralTotal(tx, ctx, part) == Total([r \in Known(tx.collateral, ctx) |-> ctx.utxo[r][part]])
HasReturn(tx) == tx.collateralReturn # <<>>
\* The inputs less the return; there is none without collateral inputs.
HasCollateral(tx) == tx.collateral # {}
Balance(tx, ctx, part) ==
  CollateralTotal(tx, ctx, part) - (IF HasReturn(tx) THEN tx.collateralReturn[1][part] ELSE 0)
\* The least collateral that passes is the share of the fee, rounded up.
\* Slip: it is rounded down.
MinCollateral_RoundedDown(tx) ==
  IF NeedCollateral(tx) THEN (tx.fee * Params.percentage) \div 100 ELSE 0
MinCollateral(tx) ==
  IF NeedCollateral(tx) THEN (tx.fee * Params.percentage + 99) \div 100 ELSE 0
CollateralAmount(tx, ctx) ==
  IF tx.totalCollateral # Absent
  THEN When(tx.totalCollateral < MinCollateral(tx), "InsufficientCollateral")
       \cup When(HasCollateral(tx) /\ Balance(tx, ctx, "coin") # tx.totalCollateral, "IncorrectTotalCollateralField")
  ELSE When(HasCollateral(tx) /\ Balance(tx, ctx, "coin") < MinCollateral(tx), "InsufficientCollateral")
CollateralErrors(tx, ctx) ==
  When(Cardinality(tx.collateral) > Params.maxCollateral, "TooManyCollateralInputs")
  \cup When(NeedCollateral(tx) /\ ~HasCollateral(tx), "NoCollateralInputs")
  \cup CollateralAmount(tx, ctx)
  \cup (IF HasReturn(tx)
        THEN When(HasCollateral(tx) /\ Balance(tx, ctx, "assets") # 0, "CalculatedCollateralContainsNonAdaAssets")
             \cup When(tx.collateralReturn[1].coin < Params.minCoin, "CollateralReturnTooSmall")
        ELSE Errors("CollateralInputContainsNonAdaAssets",
                    {r \in Known(tx.collateral, ctx) : ctx.utxo[r].assets # 0}))
  \cup Errors("CollateralIsLockedByScript", {r \in Known(tx.collateral, ctx) : ctx.utxo[r].owner \in Scripts})
CollateralWarnings(tx) ==
  When(~NeedCollateral(tx) /\ (HasCollateral(tx) \/ tx.totalCollateral # Absent), "CollateralIsUnnecessary")
  \cup When(tx.totalCollateral = Absent /\ HasReturn(tx), "TotalCollateralIsNotDeclared")

\* ---- transaction_limits.rs ----

\* A UTxO the context does not hold counts as spent.
Spent(refs, ctx) == {r \in refs : r \in DOMAIN ctx.utxo => ctx.utxo[r].spent}
\* The interval is half-open: the ttl slot is outside it.
Outside(tx, slot) == \/ tx.start # NoBound /\ slot < tx.start
                     \/ tx.ttl # NoBound /\ slot >= tx.ttl
LimitErrors(tx, ctx) ==
  When(tx.inputs = {}, "InputSetEmptyUTxO")
  \cup When(tx.size > Params.maxSize, "MaxTxSizeUTxO")
  \cup When(TotalUnits(tx) > Params.maxUnits, "ExUnitsTooBigUTxO")
  \cup When(RefBytes(tx, ctx) > Params.maxRefs, "RefScriptsSizeTooBig")
  \cup When(Outside(tx, ctx.slot), "OutsideValidityIntervalUTxO")
  \cup Errors("BadInputsUTxO", Spent(tx.inputs \cup tx.collateral \cup tx.references, ctx))
  \cup Errors("ReferenceInputOverlapsWithInput", tx.references \cap tx.inputs)

\* ---- output.rs, network.rs, auxiliary_data.rs ----

OutputErrors(tx) ==
  Errors("OutputsValueTooBig", {i \in DOMAIN tx.outputs : tx.outputs[i].size > Params.maxValueSize})
  \cup Errors("OutputTooSmallUTxO", {i \in DOMAIN tx.outputs : tx.outputs[i].coin < Params.minCoin})
\* The network of an address that does not tell is nobody's error.
ForeignTargets(tx) ==
  {i \in DOMAIN tx.proposals : tx.proposals[i].kind = "TreasuryWithdrawalsAction"
                               /\ tx.proposals[i].targetNet # Network /\ tx.proposals[i].targets # {}}
NetworkErrors(tx) ==
  When(\E o \in Range(tx.outputs) : o.net \notin {Network, "untold"}, "WrongNetwork")
  \cup When(tx.withdrawals # {} /\ tx.withdrawalNet # Network, "WrongNetworkWithdrawal")
  \cup When(tx.net \notin {Network, "untold"}, "WrongNetworkInTxBody")
  \cup Errors("ProposalProcedureNetworkIdMismatch",
              {i \in DOMAIN tx.proposals : tx.proposals[i].net # Network})
  \cup Errors("TreasuryWithdrawalsNetworkIdMismatch", ForeignTargets(tx))
\* The hash of auxiliary data is the data itself here; without data nothing is checked.
AuxiliaryErrors(tx) ==
  When(tx.auxiliary # None /\ tx.auxiliaryHash = None, "AuxiliaryDataHashMissing")
  \cup When(tx.auxiliary # None /\ tx.auxiliaryHash \notin {None, tx.auxiliary}, "AuxiliaryDataHashMismatch")

\* ---- governance.rs: votes ----

\* A hot key authorised by the transaction itself votes in it.
\* Slip: only the committee of the context does.
HotInTx_Unread(tx) == {}
HotInTx(tx) == {c.hot : c \in {d \in Certs(tx) : d.kind = "CommitteeHotAuth"}}
Seated(hot, ctx) == {m \in ctx.committee : m.hot = hot}
Exists(tx, v, ctx) ==
  CASE v.role = "drep" -> v.cred \in ctx.dreps
    [] v.role = "pool" -> v.cred \in ctx.pools
    [] v.role = "committee" -> v.cred \in HotInTx(tx) \/ Seated(v.cred, ctx) # {}
Resigned(v, ctx) == v.role = "committee" /\ \E m \in Seated(v.cred, ctx) : m.resigned

\* The matrix of voters and actions: a pool votes on a parameter change only when a
\* parameter of the security group changes.
\* Slip: a pool votes on every parameter change.
Disallowed_NoSecurityGroup(v, action) ==
  \/ v.role = "pool" /\ action.kind \in {"NewConstitutionAction", "TreasuryWithdrawalsAction"}
  \/ v.role = "committee" /\ action.kind \in {"NoConfidenceAction", "UpdateCommitteeAction"}
Disallowed(v, action) ==
  \/ /\ v.role = "pool"
     /\ \/ action.kind \in {"NewConstitutionAction", "TreasuryWithdrawalsAction"}
        \/ action.kind = "ParameterChangeAction" /\ ~action.security
  \/ v.role = "committee" /\ action.kind \in {"NoConfidenceAction", "UpdateCommitteeAction"}

VoteErrors(tx, ctx) ==
  LET on == {p \in Range(tx.votes) \X NecessaryActions(tx) : p[2] \in p[1].actions}
      known == {p \in on : p[2] \in DOMAIN ctx.actions}
  IN Errors("VoterDoNotExist", {v.cred : v \in {w \in Range(tx.votes) : ~Exists(tx, w, ctx)}})
     \cup Errors("InvalidCommitteeVote", {v.cred : v \in {w \in Range(tx.votes) : Resigned(w, ctx)}})
     \cup Errors("GovActionsDoNotExist", {p[2] : p \in on \ known})
     \cup Errors("VotingOnExpiredGovAction", {p[2] : p \in {q \in known : ~ctx.actions[q[2]].active}})
     \cup Errors("DisallowedVoters", {p[2] : p \in {q \in known : Disallowed(q[1], ctx.actions[q[2]])}})

\* ---- governance.rs: proposals ----

\* The guardrails script: checked when the caller gave a constitution, and then a
\* constitution without one asks for none.
Constitution(guardrail) == <<guardrail>>
NoConstitution == <<>>
WrongGuardrail(p, ctx) ==
  ctx.constitution # NoConstitution /\ p.kind \in GuardedKinds /\ p.policy # ctx.constitution[1]
ProposalErrors(tx, ctx) ==
  LET treasury == {p \in Proposals(tx) : p.kind = "TreasuryWithdrawalsAction"}
      committee == {p \in Proposals(tx) : p.kind = "UpdateCommitteeAction"}
  IN Errors("ProposalReturnAccountDoesNotExist", {p.account : p \in Proposals(tx)} \ ctx.accounts)
     \cup Errors("InvalidConstitutionPolicyHash", {p.policy : p \in {q \in Proposals(tx) : WrongGuardrail(q, ctx)}})
     \cup When(\E p \in treasury : p.amount * Cardinality(p.targets) = 0, "ZeroTreasuryWithdrawals")
     \cup Errors("TreasuryWithdrawalReturnAccountsDoNotExist", (UNION {p.targets : p \in treasury}) \ ctx.accounts)
     \cup Errors("ConflictingCommitteeUpdate", UNION {p.add \cap p.remove : p \in committee})
     \cup Errors("GovActionsDoNotExist", PreviousActions(tx) \ DOMAIN ctx.actions)

GovernanceErrors(tx, ctx) == VoteErrors(tx, ctx) \cup ProposalErrors(tx, ctx)
=============================================================================
