-------------------------- MODULE CertificateChecks -------------------------
(***************************************************************************)
(* The walk over the certificates of a transaction by                      *)
(* RegistrationValidator (validation/registration.rs), and the deposits,   *)
(* refunds and withdrawals BalanceValidator (validation/balance.rs) takes  *)
(* from the same certificates, against a context the caller supplies.  One *)
(* action per kind of certificate: both validators judge it, then          *)
(* update_state folds it in.                                               *)
(***************************************************************************)
EXTENDS Integers

CONSTANTS
  Accounts, Pools, DReps, Cold,
  None,       \* Option::None, of an amount, of a delegation, of a predefined DRep
  Scripts,    \* accounts with a script credential
  KeyDeposit, PoolDeposit, DRepDeposit, MaxRetirement

Entities == Accounts \cup Pools \cup DReps

ASSUME ParametersAssumption ==
  /\ Accounts \cap Pools = {} /\ Accounts \cap DReps = {} /\ Pools \cap DReps = {}
  /\ None \notin Entities /\ None \notin Int
  /\ KeyDeposit \in Nat /\ PoolDeposit \in Nat /\ DRepDeposit \in Nat
  /\ MaxRetirement \in Nat /\ Scripts \subseteq Accounts

VARIABLES
  context,     \* ValidationInputContext: what is known of each entity
  committee,   \* and of each cold credential: "unknown", "active" or "resigned"
  withdrawals, \* the amount withdrawn from each account, or None
  slot,        \* the slot the caller gives for the moment of the validation
  registrations, deregistrations, retirements, resignations, hotAuths, \* RegistrationState
  deposits, refunds, \* totals of OutputsDecomposition and InputsDecomposition
  errors, warnings   \* the kinds reported

checks == <<context, committee, withdrawals, slot, registrations, deregistrations, retirements,
            resignations, hotAuths, deposits, refunds, errors, warnings>>

Given == <<context, committee, withdrawals, slot>>

Flag(condition, kind) == IF condition THEN {kind} ELSE {}
Report(es, ws) == errors' = errors \cup es /\ warnings' = warnings \cup ws

-----------------------------------------------------------------------------
(* RegistrationState *)

Initial == {e \in Entities : context[e].registered}

\* Slip: an entity once registered stays so.
Registered_Ever(e) == e \in Initial \cup registrations

\* "Validated against the state as the ledger would observe it at that point".
Registered(e) == e \in (Initial \cup registrations) \ deregistrations

\* Slips of update_state: an earlier deregistration is kept; an earlier registration is.
Enrol_StillStruck(e) == registrations' = registrations \cup {e} /\ UNCHANGED deregistrations
Strike_StillEnrolled(e) == UNCHANGED registrations /\ deregistrations' = deregistrations \cup {e}

\* update_state.
Enrol(e) == registrations' = registrations \cup {e} /\ deregistrations' = deregistrations \ {e}
Strike(e) == registrations' = registrations \ {e} /\ deregistrations' = deregistrations \cup {e}
SameState == UNCHANGED <<registrations, deregistrations, retirements, resignations, hotAuths>>
SameAmounts == UNCHANGED <<deposits, refunds>>

-----------------------------------------------------------------------------
(* What certificates have in common *)

DelegationErrors(pool, drep) ==
  Flag(pool # None /\ ~Registered(pool), "StakePoolNotRegistered")
    \cup Flag(drep # None /\ ~Registered(drep), "DelegateeDRepNotRegistered")
DelegationWarnings(pool) ==
  Flag(pool # None /\ Registered(pool) /\ pool \in retirements, "DelegationToRetiringPool")

Duplicate(e) == Flag(e \in registrations, "DuplicateRegistrationInTx")

\* validate_refunds: a refund that is there is compared with what the context says was paid.
RefundErrors(e, amount, kind) == Flag(amount # None /\ context[e].payed \notin {None, amount}, kind)
RefundWarnings(e, amount, kind) == Flag(amount # None /\ context[e].payed = None, kind)

-----------------------------------------------------------------------------
(* The certificates *)

\* validate_withdrawals_balance: against the accounts before any certificate.
WithdrawalErrors(a) ==
  IF context[a].registered
  THEN Flag(context[a].balance \notin {None, withdrawals[a]}, "WrongRequestedWithdrawalAmount")
         \cup Flag(~context[a].delegated /\ a \notin Scripts, "WithdrawalNotAllowedBecauseNotDelegatedToDRep")
  ELSE {"RewardAccountNotExisting"}

CheckWithdrawals ==
  /\ Report(UNION {WithdrawalErrors(a) : a \in {b \in Accounts : withdrawals[b] # None}}, {})
  /\ SameState /\ SameAmounts /\ UNCHANGED Given

\* The four certificates that register an account; only the first may leave its deposit implicit.
RegisterAccount(a, pool, drep, coin) ==
  /\ coin = None => pool = None /\ drep = None
  /\ Report(Flag(Registered(a), "StakeAlreadyRegistered") \cup DelegationErrors(pool, drep)
              \cup Flag(coin \notin {None, KeyDeposit}, "StakeRegistrationWrongDeposit"),
            Duplicate(a) \cup DelegationWarnings(pool))
  /\ deposits' = deposits + IF coin = None THEN KeyDeposit ELSE coin
  /\ Enrol(a) /\ UNCHANGED <<refunds, retirements, resignations, hotAuths, Given>>

\* Slip: what the transaction withdraws is still there.
Remaining_BeforeWithdrawals(a) == IF context[a].balance = None THEN 0 ELSE context[a].balance

\* "An account withdrawn in the same tx is already emptied"; an unknown balance passes.
Remaining(a) == LET taken == IF withdrawals[a] = None THEN 0 ELSE withdrawals[a] IN
                IF context[a].balance = None \/ context[a].balance <= taken THEN 0 ELSE context[a].balance - taken

\* An implicit refund is what was paid, or the parameter for an account the
\* context does not have; for one whose deposit is not known there is none.
Refunded(a, coin) == IF coin # None THEN coin ELSE IF context[a].present THEN context[a].payed ELSE KeyDeposit

DeregisterAccount(a, coin) ==
  LET refund == Refunded(a, coin) IN
  /\ Report((IF Registered(a) THEN Flag(Remaining(a) > 0, "StakeNonZeroAccountBalance") ELSE {"StakeNotRegistered"})
              \cup RefundErrors(a, refund, "StakeDeregistrationWrongRefund"),
            RefundWarnings(a, refund, "CannotCheckStakeDeregistrationRefund"))
  /\ refunds' = refunds + IF refund = None THEN 0 ELSE refund
  /\ Strike(a) /\ UNCHANGED <<deposits, retirements, resignations, hotAuths, Given>>

\* The three certificates that delegate an account.
Delegate(a, pool, drep) ==
  /\ pool # None \/ drep # None
  /\ Report(Flag(~Registered(a), "StakeNotRegistered") \cup DelegationErrors(pool, drep), DelegationWarnings(pool))
  /\ SameState /\ SameAmounts /\ UNCHANGED Given

\* Slip: every registration of a pool is taken to pay a deposit.
PoolPays_Always(p) == TRUE

\* A pool that is on chain changes its parameters for free.
PoolPays(p) == ~context[p].registered

RegisterPool(p, cheap) ==
  /\ Report(Flag(cheap, "StakePoolCostTooLow"),
            Duplicate(p) \cup Flag(Registered(p) /\ p \notin retirements, "PoolAlreadyRegistered"))
  /\ deposits' = deposits + IF PoolPays(p) THEN PoolDeposit ELSE 0
  /\ registrations' = registrations \cup {p} /\ retirements' = retirements \ {p}
  /\ UNCHANGED <<refunds, deregistrations, resignations, hotAuths, Given>>

\* "Standard epoch length in slots (5 days)", on whatever network and from slot 0 on.
SlotsPerEpoch == 432000
CurrentEpoch == slot \div SlotsPerEpoch

RetirePool(p, target) ==
  /\ Report(Flag(~Registered(p), "StakePoolNotRegistered")
              \cup Flag(target < CurrentEpoch + 1 \/ target > CurrentEpoch + MaxRetirement, "WrongRetirementEpoch"), {})
  /\ retirements' = retirements \cup {p}
  /\ SameAmounts /\ UNCHANGED <<registrations, deregistrations, resignations, hotAuths, Given>>

RegisterDRep(d, coin) ==
  /\ Report(Flag(coin # DRepDeposit, "DRepIncorrectDeposit"), Duplicate(d) \cup Flag(Registered(d), "DRepAlreadyRegistered"))
  /\ deposits' = deposits + coin
  /\ Enrol(d) /\ UNCHANGED <<refunds, retirements, resignations, hotAuths, Given>>

DeregisterDRep(d, coin) ==
  /\ Report(RefundErrors(d, coin, "DRepDeregistrationWrongRefund"),
            Flag(~Registered(d), "DRepNotRegistered") \cup RefundWarnings(d, coin, "CannotCheckDRepDeregistrationRefund"))
  /\ refunds' = refunds + coin
  /\ Strike(d) /\ UNCHANGED <<deposits, retirements, resignations, hotAuths, Given>>

UpdateDRep(d) ==
  /\ Report({}, Flag(~Registered(d), "DRepNotRegistered"))
  /\ SameState /\ SameAmounts /\ UNCHANGED Given

CommitteeErrors(c) == Flag(committee[c] = "resigned", "CommitteeHasPreviouslyResigned")
                        \cup Flag(committee[c] = "unknown", "CommitteeIsUnknown")

AuthorizeHot(c) ==
  /\ Report(CommitteeErrors(c) \cup Flag(c \in resignations, "CommitteeHasPreviouslyResigned"),
            Flag(c \in hotAuths, "DuplicateCommitteeHotRegistrationInTx"))
  /\ hotAuths' = hotAuths \cup {c}
  /\ SameAmounts /\ UNCHANGED <<registrations, deregistrations, retirements, resignations, Given>>

Resign(c) ==
  /\ Report(CommitteeErrors(c), Flag(c \in resignations, "DuplicateCommitteeColdResignationInTx"))
  /\ resignations' = resignations \cup {c}
  /\ SameAmounts /\ UNCHANGED <<registrations, deregistrations, retirements, hotAuths, Given>>

\* Genesis key delegation and instantaneous rewards.
Obsolete == Report({"CertificateIsNotSupported"}, {}) /\ SameState /\ SameAmounts /\ UNCHANGED Given

-----------------------------------------------------------------------------

\* Both validators start from nothing but the context.
StartOfWalk ==
  /\ registrations = {} /\ deregistrations = {} /\ retirements = {} /\ resignations = {} /\ hotAuths = {}
  /\ deposits = 0 /\ refunds = 0 /\ errors = {} /\ warnings = {}
=============================================================================
