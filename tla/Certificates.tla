---------------------------- MODULE Certificates ----------------------------
(***************************************************************************)
(* A transaction's certificates judged by the validators                   *)
(* (CertificateChecks) and taken by the chain (CertLedger), one by one.    *)
(***************************************************************************)
EXTENDS CertificateChecks

CONSTANTS
  Coins,        \* amounts written in certificates and withdrawals
  Epochs,       \* retirement epochs written in certificates
  MaxCerts,     \* bound: certificates in the transaction
  Moments,      \* <<slot, epoch>>: slots of a network and the epochs its chain is in then
  AccountContexts, PoolContexts, DRepContexts \* what a context may say of each of them

VARIABLES
  held, rewards, voting, seated, resigned, pot, epoch, rejected, \* the chain's
  index,        \* certificates taken; -1 before the withdrawals are
  misjudged     \* history: of a retirement's epoch, the chain and the validator have thought differently

Chain == INSTANCE CertLedger
vars == <<checks, Chain!ledger, index, misjudged>>

\* A context says of what is not registered no more than that. Deposits were
\* paid under the present parameters.
Truthful(k, deposit) ==
  /\ k.present \in BOOLEAN /\ k.registered \in BOOLEAN /\ k.delegated \in BOOLEAN
  /\ k.payed \in {None, deposit} /\ k.balance \in Nat \cup {None}
  /\ k.registered => k.present
  /\ ~k.registered => k.payed = None /\ k.balance = None /\ ~k.delegated
ASSUME CertificatesAssumption ==
  /\ Coins \subseteq Nat /\ Epochs \subseteq Nat /\ MaxCerts \in Nat /\ Moments \subseteq Nat \X Nat
  /\ \A k \in AccountContexts : Truthful(k, KeyDeposit)
  /\ \A k \in PoolContexts : Truthful(k, PoolDeposit)
  /\ \A k \in DRepContexts : Truthful(k, DRepDeposit)

-----------------------------------------------------------------------------

ContextsFor(e) == IF e \in Accounts THEN AccountContexts ELSE IF e \in Pools THEN PoolContexts ELSE DRepContexts
DepositOf(e) == IF e \in Accounts THEN KeyDeposit ELSE IF e \in Pools THEN PoolDeposit ELSE DRepDeposit

\* The context is true, as far as it goes.
Init ==
  /\ context \in [Entities -> AccountContexts \cup PoolContexts \cup DRepContexts]
  /\ \A e \in Entities : context[e] \in ContextsFor(e)
  /\ committee \in [Cold -> {"unknown", "active", "resigned"}]
  /\ withdrawals \in [Accounts -> Coins \cup {None}]
  /\ \E m \in Moments : slot = m[1] /\ epoch = m[2]
  /\ StartOfWalk
  /\ held = [e \in Entities |-> IF context[e].registered THEN DepositOf(e) ELSE Chain!NotHeld]
  /\ rewards \in [Accounts -> Coins \cup {0}]
  /\ \A a \in Accounts : ~context[a].registered => rewards[a] = 0
  /\ \A a \in Accounts : context[a].balance # None => rewards[a] = context[a].balance
  /\ voting = {a \in Accounts : context[a].delegated \/ a \in Scripts}
  /\ seated = {c \in Cold : committee[c] # "unknown"} /\ resigned = {c \in Cold : committee[c] = "resigned"}
  /\ pot = 0 /\ rejected = FALSE /\ index = -1 /\ misjudged = FALSE

Withdrawals ==
  /\ index = -1 /\ index' = 0 /\ UNCHANGED misjudged
  /\ CheckWithdrawals /\ Chain!Withdraw(withdrawals)

Certificate(mistake) == index \in 0..MaxCerts-1 /\ index' = index + 1 /\ misjudged' = (misjudged \/ mistake)

\* The validator and the chain disagree on whether a pool may retire in the epoch.
Disputed(target) == (target \in CurrentEpoch + 1 .. CurrentEpoch + MaxRetirement) # Chain!MayRetireIn(target)

AccountCertificate == Certificate(FALSE) /\ \E a \in Accounts :
  \/ \E pool \in Pools \cup {None}, drep \in DReps \cup {None}, coin \in Coins \cup {None} :
       RegisterAccount(a, pool, drep, coin) /\ Chain!RegisterAccount(a, pool, drep, coin)
  \/ \E coin \in Coins \cup {None} : DeregisterAccount(a, coin) /\ Chain!DeregisterAccount(a, coin)
  \/ \E pool \in Pools \cup {None}, drep \in DReps \cup {None} : Delegate(a, pool, drep) /\ Chain!Delegate(a, pool, drep)

PoolCertificate == \E p \in Pools :
  \/ \E cheap \in BOOLEAN : Certificate(FALSE) /\ RegisterPool(p, cheap) /\ Chain!RegisterPool(p, cheap)
  \/ \E target \in Epochs : Certificate(Disputed(target)) /\ RetirePool(p, target) /\ Chain!RetirePool(p, target)

DRepCertificate == Certificate(FALSE) /\ \E d \in DReps :
  \/ \E coin \in Coins : RegisterDRep(d, coin) /\ Chain!RegisterDRep(d, coin)
  \/ \E coin \in Coins : DeregisterDRep(d, coin) /\ Chain!DeregisterDRep(d, coin)
  \/ UpdateDRep(d) /\ Chain!UpdateDRep(d)

CommitteeCertificate == Certificate(FALSE) /\ \E c \in Cold :
  \/ AuthorizeHot(c) /\ Chain!AuthorizeHot(c)
  \/ Resign(c) /\ Chain!Resign(c)

ObsoleteCertificate == Certificate(FALSE) /\ Obsolete /\ Chain!Obsolete

Next == Withdrawals \/ AccountCertificate \/ PoolCertificate \/ DRepCertificate \/ CommitteeCertificate \/ ObsoleteCertificate

Spec == Init /\ [][Next]_vars

-----------------------------------------------------------------------------
(* Properties *)

\* The totals and sets the validators keep, nothing both registered and
\* deregistered, and the chain's deposits and rewards.
ChecksTypeOK ==
  /\ registrations \subseteq Entities /\ deregistrations \subseteq Accounts \cup DReps
  /\ registrations \cap deregistrations = {}
  /\ retirements \subseteq Pools /\ resignations \subseteq Cold /\ hotAuths \subseteq Cold
  /\ deposits \in Nat /\ refunds \in Nat
ChainTypeOK ==
  /\ held \in [Entities -> Nat \cup {Chain!NotHeld}] /\ rewards \in [Accounts -> Nat]
  /\ pot \in Int /\ rejected \in BOOLEAN /\ <<slot, epoch>> \in Moments
TypeOK == ChecksTypeOK /\ ChainTypeOK /\ index \in -1..MaxCerts /\ misjudged \in BOOLEAN

\* RegistrationValidator.validate: "each cert is validated against the state as
\* the ledger would observe it at that point (after all preceding certs in this tx have been applied)".
ObservesLedger ==
  ~rejected => /\ \A e \in Entities : Registered(e) <=> Chain!Holds(e)
               /\ resigned = {c \in Cold : committee[c] = "resigned"} \cup resignations

Clean == errors = {} /\ warnings = {}
\* The context gives the balance of every registered account, and the deposit of every account it has.
BalancesKnown == \A a \in Accounts : context[a].registered => context[a].balance # None
DepositsKnown == \A a \in Accounts : context[a].present => context[a].payed # None

\* A transaction without an error or a warning is one the chain accepts, if no
\* balance it depends on is left out of the context, and unless it retires a
\* pool in an epoch that is to come by the validator's count and not by the chain's.
CleanIsAccepted == Clean /\ BalancesKnown /\ ~misjudged => ~rejected

\* An error is reported only of a transaction the chain rejects, whatever the
\* context leaves out: of all the kinds, only that of a retirement's epoch may
\* be wrong, and only where the two counts disagree about that epoch.
NoFalseAlarm == errors \ Flag(misjudged, "WrongRetirementEpoch") # {} => rejected

\* The deposits and refunds in the balance equation of a clean transaction are
\* what the chain takes and gives back, if it accepts it.
DepositsBalance == Clean /\ DepositsKnown /\ ~rejected => deposits - refunds = pot

\* What the proofs add (Certificates_proofs): the context and the withdrawals
\* are what they were, deposits held are those of the parameters, and
\* the chain's rewards are the context's less what was withdrawn.
ContextRight ==
  /\ \A e \in Entities : Truthful(context[e], DepositOf(e)) /\ held[e] \in {Chain!NotHeld, DepositOf(e)}
  /\ \A a \in Accounts : withdrawals[a] \in Nat \cup {None}
  /\ voting = {a \in Accounts : context[a].delegated \/ a \in Scripts}
  /\ seated = {c \in Cold : committee[c] # "unknown"} /\ \A c \in Cold : committee[c] \in {"unknown", "active", "resigned"}
Withdrawn(a) == index # -1 /\ withdrawals[a] # None
RewardsRight ==
  ~rejected => \A a \in Accounts :
    /\ Withdrawn(a) => rewards[a] = 0 /\ context[a].registered /\ context[a].balance \in {None, withdrawals[a]}
    /\ ~Withdrawn(a) /\ context[a].balance # None => rewards[a] = context[a].balance
    /\ ~context[a].registered => rewards[a] = 0
StartRight == index = -1 => StartOfWalk /\ pot = 0 /\ ~rejected /\ ~misjudged

\* The inductive invariant of the proofs.
CertInv == /\ TypeOK /\ ContextRight /\ RewardsRight /\ StartRight
           /\ ObservesLedger /\ CleanIsAccepted /\ NoFalseAlarm /\ DepositsBalance

\* "If we don't know what the account paid, we can't verify the refund - the
\* validator emits a warning" (balance_deposit_tests.rs).
UnknownRefundWarned ==
  \A a \in deregistrations \cap Accounts :
    errors = {} /\ context[a].payed = None => "CannotCheckStakeDeregistrationRefund" \in warnings

\* "Wrong retirement epoch - Pool retirement epoch is invalid (too early or too
\* late)" (WHAT-IS-COVERED.md): a transaction of which this is reported is one the chain refuses.
RetirementsMistimed == "WrongRetirementEpoch" \in errors => rejected
=============================================================================
