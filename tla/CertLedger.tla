----------------------------- MODULE CertLedger -----------------------------
(***************************************************************************)
(* What the chain does with the withdrawals and the certificates of one    *)
(* transaction, in order: the reference the validators of                  *)
(* src/validators/phase_1 predict.  A transaction with an illegal step is  *)
(* rejected as a whole.                                                    *)
(***************************************************************************)
EXTENDS Integers

CONSTANTS
  Accounts, Pools, DReps, \* what certificates register
  Cold,                   \* cold credentials of the committee
  None,                   \* no delegation, or an amount left implicit
  KeyDeposit, PoolDeposit, DRepDeposit, \* protocol parameters
  MaxRetirement           \* how many epochs ahead a pool may retire

Entities == Accounts \cup Pools \cup DReps
NotHeld == -1

VARIABLES
  held,      \* the deposit held for each registered entity
  rewards,   \* the balance of each account
  voting,    \* accounts that have delegated to a DRep, or need not to withdraw
  seated, resigned, \* committee members, and those of them that have resigned
  pot,       \* what the transaction has added to the deposits held
  epoch,     \* the epoch the chain is in, by the eras of its network; one transaction does not move it
  rejected   \* it has taken an illegal step

ledger == <<held, rewards, voting, seated, resigned, pot, epoch, rejected>>

Holds(e) == held[e] # NotHeld

\* A step is taken if legal, and rejects the transaction otherwise.
Reject == rejected' = TRUE /\ UNCHANGED <<held, rewards, voting, seated, resigned, pot, epoch>>
Step(legal, effect) ==
  IF legal /\ ~rejected THEN effect /\ UNCHANGED <<voting, seated, epoch, rejected>> ELSE Reject

Deposit(e, amount) == held' = [held EXCEPT ![e] = amount] /\ pot' = pot + amount
Refund(e) == held' = [held EXCEPT ![e] = NotHeld] /\ pot' = pot - held[e]

CanDelegate(pool, drep) == (pool = None \/ Holds(pool)) /\ (drep = None \/ Holds(drep))

-----------------------------------------------------------------------------

\* Withdrawals come before the certificates; each takes all of the rewards.
Withdraw(amounts) ==
  Step(\A a \in Accounts : amounts[a] = None \/ (Holds(a) /\ amounts[a] = rewards[a] /\ a \in voting),
       /\ rewards' = [a \in Accounts |-> IF amounts[a] = None THEN rewards[a] ELSE 0]
       /\ UNCHANGED <<held, resigned, pot>>)

RegisterAccount(a, pool, drep, coin) ==
  Step(~Holds(a) /\ coin \in {None, KeyDeposit} /\ CanDelegate(pool, drep),
       Deposit(a, KeyDeposit) /\ UNCHANGED <<rewards, resigned>>)

DeregisterAccount(a, coin) ==
  Step(Holds(a) /\ rewards[a] = 0 /\ coin \in {None, held[a]}, Refund(a) /\ UNCHANGED <<rewards, resigned>>)

Delegate(a, pool, drep) ==
  Step(Holds(a) /\ CanDelegate(pool, drep), UNCHANGED <<held, rewards, resigned, pot>>)

\* A registered pool changes its parameters, for no deposit.
RegisterPool(p, cheap) ==
  Step(~cheap, /\ IF Holds(p) THEN UNCHANGED <<held, pot>> ELSE Deposit(p, PoolDeposit)
               /\ UNCHANGED <<rewards, resigned>>)

\* A pool retires in one of the epochs to come.
MayRetireIn(target) == target > epoch /\ target <= epoch + MaxRetirement

RetirePool(p, target) ==
  Step(Holds(p) /\ MayRetireIn(target),
       UNCHANGED <<held, rewards, resigned, pot>>)

RegisterDRep(d, coin) ==
  Step(~Holds(d) /\ coin = DRepDeposit, Deposit(d, coin) /\ UNCHANGED <<rewards, resigned>>)

DeregisterDRep(d, coin) == Step(Holds(d) /\ coin = held[d], Refund(d) /\ UNCHANGED <<rewards, resigned>>)

UpdateDRep(d) == Step(Holds(d), UNCHANGED <<held, rewards, resigned, pot>>)

AuthorizeHot(c) == Step(c \in seated \ resigned, UNCHANGED <<held, rewards, resigned, pot>>)

Resign(c) == Step(c \in seated \ resigned, resigned' = resigned \cup {c} /\ UNCHANGED <<held, rewards, pot>>)

\* Genesis key delegation and instantaneous rewards are gone from the ledger.
Obsolete == Reject
=============================================================================
