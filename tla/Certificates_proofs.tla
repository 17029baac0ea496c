------------------------ MODULE Certificates_proofs -------------------------
(***************************************************************************)
(* Proofs about Certificates: the validators' walk observes the chain, for *)
(* every set of entities, every context that tells the truth and every     *)
(* sequence of certificates.                                               *)
(***************************************************************************)
EXTENDS Certificates, TLAPS

\* Every walk begins in the invariant.
LEMMA InitInv == Init => CertInv
<1> SUFFICES ASSUME Init PROVE CertInv OBVIOUS
<1> USE ParametersAssumption, CertificatesAssumption DEF Entities
<1>1. StartOfWalk /\ pot = 0 /\ rejected = FALSE /\ index = -1 /\ misjudged = FALSE /\ <<slot, epoch>> \in Moments
  BY DEF Init
<1>2. \A e \in Entities : Truthful(context[e], DepositOf(e))
  BY DEF Init, ContextsFor, DepositOf
<1>3. \A e \in Entities : DepositOf(e) \in Nat
  BY DEF DepositOf
<1>4. held = [e \in Entities |-> IF context[e].registered THEN DepositOf(e) ELSE Chain!NotHeld]
  BY DEF Init
<1>5. /\ rewards \in [Accounts -> Nat]
      /\ \A a \in Accounts : ~context[a].registered => rewards[a] = 0
      /\ \A a \in Accounts : context[a].balance # None => rewards[a] = context[a].balance
  <2>1. Coins \cup {0} \subseteq Nat
    OBVIOUS
  <2>2. rewards \in [Accounts -> Coins \cup {0}]
    BY DEF Init
  <2>3. rewards \in [Accounts -> Nat]
    BY <2>1, <2>2
  <2>4. QED BY <2>3 DEF Init
<1>6. TypeOK
  <2>1. held \in [Entities -> Nat \cup {Chain!NotHeld}]
    BY <1>3, <1>4
  <2>2. index \in -1..MaxCerts
    <3>1. index = -1
      BY <1>1
    <3>2. QED BY <3>1
  <2>3. rejected \in BOOLEAN /\ misjudged \in BOOLEAN
    BY <1>1
  <2>4. QED BY <1>1, <1>5, <2>1, <2>2, <2>3 DEF TypeOK, ChecksTypeOK, ChainTypeOK, StartOfWalk
<1>7. ContextRight
  <2>1. \A e \in Entities : held[e] \in {Chain!NotHeld, DepositOf(e)}
    BY <1>4
  <2>2. \A a \in Accounts : withdrawals[a] \in Nat \cup {None}
    BY DEF Init
  <2>3. QED BY <1>2, <2>1, <2>2 DEF ContextRight, Init
<1>8. RewardsRight
  <2>1. \A a \in Accounts : ~Withdrawn(a)
    BY <1>1 DEF Withdrawn
  <2>2. QED BY <1>5, <2>1 DEF RewardsRight
<1>9. StartRight
  BY <1>1 DEF StartRight
<1>10. ObservesLedger
  <2>1. \A e \in Entities : Registered(e) <=> context[e].registered
    BY <1>1 DEF Registered, Initial, StartOfWalk
  <2>2. \A e \in Entities : Chain!Holds(e) <=> context[e].registered
    BY <1>3, <1>4 DEF Chain!Holds, Chain!NotHeld
  <2>3. resigned = {c \in Cold : committee[c] = "resigned"} \cup resignations
    BY <1>1 DEF Init, StartOfWalk
  <2>4. QED BY <2>1, <2>2, <2>3 DEF ObservesLedger
<1>11. CleanIsAccepted /\ NoFalseAlarm /\ DepositsBalance
  BY <1>1 DEF CleanIsAccepted, NoFalseAlarm, DepositsBalance, StartOfWalk
<1>12. QED BY <1>6, <1>7, <1>8, <1>9, <1>10, <1>11 DEF CertInv

-----------------------------------------------------------------------------
(* What a certificate preserves, whichever it is *)

\* A step the chain does not take, with what the validators make of it.
LEMMA RejectedStep ==
  ASSUME CertInv, NEW mistake \in BOOLEAN, Certificate(mistake), NEW es, NEW ws, Report(es, ws), UNCHANGED Given,
         ChecksTypeOK', rejected' = TRUE, UNCHANGED <<held, rewards, voting, seated, resigned, pot, epoch>>,
         BalancesKnown /\ ~rejected /\ ~mistake => es \cup ws # {}
  PROVE  CertInv'
<1> USE CertificatesAssumption DEF CertInv
<1>1. index' # -1 /\ index' \in -1..MaxCerts /\ misjudged' \in BOOLEAN
  BY DEF Certificate, TypeOK
<1>2. TypeOK'
  BY <1>1 DEF TypeOK, ChainTypeOK, Given
<1>3. ContextRight'
  BY DEF ContextRight, Given
<1>4. RewardsRight' /\ ObservesLedger' /\ NoFalseAlarm'
  BY DEF RewardsRight, ObservesLedger, NoFalseAlarm
<1>5. StartRight'
  BY <1>1 DEF StartRight
<1>6. ~(Clean /\ BalancesKnown /\ ~misjudged)'
  <2>1. SUFFICES ASSUME Clean', BalancesKnown', ~misjudged' PROVE FALSE
    OBVIOUS
  <2>2. Clean /\ es \cup ws = {}
    BY <2>1 DEF Clean, Report
  <2>3. BalancesKnown
    BY <2>1 DEF BalancesKnown, Given
  <2>4. ~misjudged /\ ~mistake
    BY <2>1 DEF Certificate
  <2>5. rejected
    BY <2>2, <2>3, <2>4
  <2>6. QED BY <2>2, <2>3, <2>4, <2>5 DEF CleanIsAccepted
<1>7. CleanIsAccepted' /\ DepositsBalance'
  BY <1>6 DEF CleanIsAccepted, DepositsBalance
<1>8. QED BY <1>2, <1>3, <1>4, <1>5, <1>7

\* A step the chain takes and the validators find no error in, unless it is in an epoch.
LEMMA AcceptedStep ==
  ASSUME CertInv, NEW mistake \in BOOLEAN, Certificate(mistake), NEW es, NEW ws, Report(es, ws), UNCHANGED Given,
         es \subseteq Flag(mistake, "WrongRetirementEpoch"), ChecksTypeOK',
         ~rejected, rejected' = FALSE, UNCHANGED <<rewards, voting, seated, epoch>>,
         held' \in [Entities -> Nat \cup {Chain!NotHeld}], pot' \in Int,
         \A e \in Entities : held'[e] \in {Chain!NotHeld, DepositOf(e)},
         ObservesLedger', DepositsBalance'
  PROVE  CertInv'
<1> USE CertificatesAssumption DEF CertInv
<1>1. index # -1 /\ index' # -1 /\ index' \in -1..MaxCerts /\ misjudged' \in BOOLEAN
  BY DEF Certificate, TypeOK
<1>2. rejected' \in BOOLEAN
  OBVIOUS
<1>3. TypeOK'
  BY <1>1, <1>2 DEF TypeOK, ChainTypeOK, Given
<1>4. ContextRight'
  BY DEF ContextRight, Given
<1>5. RewardsRight'
  BY <1>1 DEF RewardsRight, Withdrawn, Given
<1>6. StartRight'
  BY <1>1 DEF StartRight
<1>7. errors' \subseteq Flag(misjudged', "WrongRetirementEpoch")
  <2>1. errors \subseteq Flag(misjudged, "WrongRetirementEpoch")
    BY DEF NoFalseAlarm
  <2>2. misjudged \/ mistake <=> misjudged'
    BY DEF Certificate
  <2>3. QED BY <2>1, <2>2 DEF Report, Flag
<1>8. CleanIsAccepted' /\ NoFalseAlarm'
  BY <1>7 DEF CleanIsAccepted, NoFalseAlarm
<1>9. QED BY <1>3, <1>4, <1>5, <1>6, <1>8

\* A transaction clean after a certificate was clean before it.
LEMMA CleanBefore ==
  ASSUME NEW es, NEW ws, Report(es, ws), UNCHANGED Given
  PROVE  /\ Clean' => Clean /\ es = {} /\ ws = {}
         /\ BalancesKnown' <=> BalancesKnown
         /\ DepositsKnown' <=> DepositsKnown
  BY DEF Report, Clean, BalancesKnown, DepositsKnown, Given

\* One that changes neither the deposits nor who is registered or resigned.
LEMMA QuietStep ==
  ASSUME CertInv, NEW mistake \in BOOLEAN, Certificate(mistake), NEW es, NEW ws, Report(es, ws), UNCHANGED Given,
         es \subseteq Flag(mistake, "WrongRetirementEpoch"), ChecksTypeOK',
         ~rejected, UNCHANGED <<held, pot, rewards, resigned, voting, seated, epoch, rejected>>,
         UNCHANGED <<registrations, deregistrations, resignations, deposits, refunds, context, committee>>
  PROVE  CertInv'
<1>1. /\ rejected' = FALSE /\ pot' \in Int /\ held' \in [Entities -> Nat \cup {Chain!NotHeld}]
      /\ \A e \in Entities : held'[e] \in {Chain!NotHeld, DepositOf(e)}
  BY DEF CertInv, TypeOK, ChainTypeOK, ContextRight
<1>2. ObservesLedger'
  BY DEF CertInv, ObservesLedger, Registered, Initial, Chain!Holds
<1>3. DepositsBalance'
  BY CleanBefore DEF CertInv, DepositsBalance
<1>4. QED BY <1>1, <1>2, <1>3, AcceptedStep

-----------------------------------------------------------------------------
(* The certificates of accounts *)

\* The deposit of each kind of entity is a natural number, and None is no amount.
LEMMA Parameters == /\ \A e \in Entities : DepositOf(e) \in Nat
                    /\ \A a \in Accounts : DepositOf(a) = KeyDeposit
                    /\ \A p \in Pools : DepositOf(p) = PoolDeposit
                    /\ \A d \in DReps : DepositOf(d) = DRepDeposit
                    /\ None \notin Int
  BY ParametersAssumption DEF DepositOf, Entities

\* A certificate that registers an account keeps the invariant.
LEMMA RegisterAccountStep ==
  ASSUME CertInv, Certificate(FALSE), NEW a \in Accounts, NEW pool \in Pools \cup {None}, NEW drep \in DReps \cup {None},
         NEW coin \in Coins \cup {None},
         RegisterAccount(a, pool, drep, coin), Chain!RegisterAccount(a, pool, drep, coin)
  PROVE  CertInv'
<1> DEFINE es == Flag(Registered(a), "StakeAlreadyRegistered") \cup DelegationErrors(pool, drep)
                   \cup Flag(coin \notin {None, KeyDeposit}, "StakeRegistrationWrongDeposit")
           ws == Duplicate(a) \cup DelegationWarnings(pool)
           legal == ~Chain!Holds(a) /\ coin \in {None, KeyDeposit} /\ Chain!CanDelegate(pool, drep)
<1> USE Parameters, CertificatesAssumption DEF CertInv
<1>1. Report(es, ws) /\ UNCHANGED Given
  BY DEF RegisterAccount
<1>2. ChecksTypeOK'
  <2>1. (IF coin = None THEN KeyDeposit ELSE coin) \in Nat
    BY ParametersAssumption
  <2>2. deposits' \in Nat
    BY <2>1 DEF RegisterAccount, TypeOK, ChecksTypeOK
  <2>3. QED BY <2>2 DEF RegisterAccount, Enrol, TypeOK, ChecksTypeOK, Entities
<1>3. ~rejected => (legal <=> es = {})
  <2>1. SUFFICES ASSUME ~rejected PROVE legal <=> es = {}
    OBVIOUS
  <2>2. \A e \in {a, pool, drep} \ {None} : Registered(e) <=> Chain!Holds(e)
    BY <2>1 DEF ObservesLedger, Entities
  <2>3. Registered(a) <=> Chain!Holds(a)
    BY <2>2, ParametersAssumption DEF Entities
  <2>4. DelegationErrors(pool, drep) = {} <=> Chain!CanDelegate(pool, drep)
    BY <2>2 DEF DelegationErrors, Chain!CanDelegate, Flag
  <2>5. QED BY <2>3, <2>4 DEF Flag
<1>4. CASE ~(legal /\ ~rejected)
  <2>1. rejected' = TRUE /\ UNCHANGED <<held, rewards, voting, seated, resigned, pot, epoch>>
    BY <1>4 DEF Chain!RegisterAccount, Chain!Step, Chain!Reject
  <2>2. QED BY <1>1, <1>2, <1>3, <1>4, <2>1, RejectedStep
<1>5. CASE legal /\ ~rejected
  <2>1. /\ held' = [held EXCEPT ![a] = KeyDeposit] /\ pot' = pot + KeyDeposit
        /\ UNCHANGED <<rewards, resigned, voting, seated, epoch, rejected>>
    BY <1>5 DEF Chain!RegisterAccount, Chain!Step, Chain!Deposit
  <2>2. held' \in [Entities -> Nat \cup {Chain!NotHeld}] /\ pot' \in Int
    BY <2>1 DEF TypeOK, ChainTypeOK, Entities
  <2>3. \A e \in Entities : held'[e] \in {Chain!NotHeld, DepositOf(e)}
    BY <2>1 DEF TypeOK, ChainTypeOK, ContextRight
  <2>4. ObservesLedger'
    <3>1. ASSUME NEW e \in Entities PROVE Registered(e)' <=> Chain!Holds(e)'
      BY <1>5, <2>1 DEF ObservesLedger, Registered, Initial, Chain!Holds, Chain!NotHeld, RegisterAccount, Enrol, Given,
                        TypeOK, ChainTypeOK, Entities
    <3>2. QED BY <1>5, <2>1, <3>1 DEF ObservesLedger, RegisterAccount, Given
  <2>5. DepositsBalance'
    <3>1. deposits' = deposits + KeyDeposit /\ refunds' = refunds
      BY <1>5 DEF RegisterAccount
    <3>2. deposits - refunds = pot => deposits' - refunds' = pot'
      BY <2>1, <3>1, ParametersAssumption DEF TypeOK, ChecksTypeOK, ChainTypeOK
    <3>3. QED BY <1>1, <1>5, <3>2, CleanBefore DEF DepositsBalance
  <2>6. rejected' = FALSE
    BY <1>5, <2>1 DEF TypeOK, ChainTypeOK
  <2>7. QED BY <1>1, <1>2, <1>3, <1>5, <2>1, <2>2, <2>3, <2>4, <2>5, <2>6, AcceptedStep
<1>6. QED BY <1>4, <1>5

\* So does one that deregisters it, whatever it says of its refund and whatever is known of the balance.
LEMMA DeregisterAccountStep ==
  ASSUME CertInv, Certificate(FALSE), NEW a \in Accounts, NEW coin \in Coins \cup {None},
         DeregisterAccount(a, coin), Chain!DeregisterAccount(a, coin)
  PROVE  CertInv'
<1> DEFINE refund == Refunded(a, coin)
           es == (IF Registered(a) THEN Flag(Remaining(a) > 0, "StakeNonZeroAccountBalance") ELSE {"StakeNotRegistered"})
                   \cup RefundErrors(a, refund, "StakeDeregistrationWrongRefund")
           ws == RefundWarnings(a, refund, "CannotCheckStakeDeregistrationRefund")
           legal == Chain!Holds(a) /\ rewards[a] = 0 /\ coin \in {None, held[a]}
<1> USE Parameters, CertificatesAssumption DEF CertInv
<1>1. Report(es, ws) /\ UNCHANGED Given
  BY DEF DeregisterAccount
<1>2. /\ KeyDeposit \in Nat /\ a \in Entities /\ index # -1
      /\ Truthful(context[a], KeyDeposit) /\ held[a] \in {Chain!NotHeld, KeyDeposit}
      /\ withdrawals[a] \in Nat \cup {None} /\ rewards[a] \in Nat
  BY ParametersAssumption DEF ContextRight, Entities, Certificate, TypeOK, ChainTypeOK
<1>3. context[a].payed \in {None, KeyDeposit} /\ (~context[a].present => context[a].payed = None)
  BY <1>2 DEF Truthful
<1>4. refund \in Nat \cup {None}
  BY <1>2, <1>3 DEF Refunded
<1>5. ChecksTypeOK'
  <2>1. (IF refund = None THEN 0 ELSE refund) \in Nat
    BY <1>4
  <2>2. refunds' \in Nat
    BY <2>1 DEF DeregisterAccount, TypeOK, ChecksTypeOK
  <2>3. QED BY <2>2 DEF DeregisterAccount, Strike, TypeOK, ChecksTypeOK, Entities
<1>6. ~rejected => (Registered(a) <=> Chain!Holds(a))
  BY <1>2 DEF ObservesLedger
<1>7. ~rejected /\ legal => es = {}
  <2>1. SUFFICES ASSUME ~rejected, legal PROVE es = {}
    OBVIOUS
  <2>2. Remaining(a) = 0
    <3>1. CASE withdrawals[a] # None
      BY <1>2, <2>1, <3>1 DEF RewardsRight, Withdrawn, Remaining
    <3>2. CASE withdrawals[a] = None
      BY <1>2, <2>1, <3>2 DEF RewardsRight, Withdrawn, Remaining
    <3>3. QED BY <3>1, <3>2
  <2>3. held[a] = KeyDeposit
    BY <1>2, <2>1 DEF Chain!Holds
  <2>4. RefundErrors(a, refund, "StakeDeregistrationWrongRefund") = {}
    BY <1>3, <2>1, <2>3 DEF RefundErrors, Refunded, Flag
  <2>5. QED BY <1>6, <2>1, <2>2, <2>4 DEF Flag
<1>8. ~rejected /\ ~legal /\ BalancesKnown => es \cup ws # {}
  <2>1. SUFFICES ASSUME ~rejected, ~legal, BalancesKnown, Registered(a), Chain!Holds(a) PROVE es \cup ws # {}
    BY <1>6
  <2>2. held[a] = KeyDeposit
    BY <1>2, <2>1 DEF Chain!Holds
  <2>3. CASE rewards[a] # 0
    <3>1. ~Withdrawn(a) /\ context[a].registered
      BY <2>1, <2>3 DEF RewardsRight
    <3>2. withdrawals[a] = None /\ context[a].balance = rewards[a]
      BY <1>2, <2>1, <3>1 DEF RewardsRight, Withdrawn, BalancesKnown
    <3>3. Remaining(a) > 0
      BY <1>2, <2>3, <3>2 DEF Remaining
    <3>4. QED BY <2>1, <3>3 DEF Flag
  <2>4. CASE coin \notin {None, KeyDeposit}
    BY <1>3, <2>4 DEF RefundErrors, RefundWarnings, Refunded, Flag
  <2>5. QED BY <2>1, <2>2, <2>3, <2>4
<1>9. CASE ~(legal /\ ~rejected)
  <2>1. rejected' = TRUE /\ UNCHANGED <<held, rewards, voting, seated, resigned, pot, epoch>>
    BY <1>9 DEF Chain!DeregisterAccount, Chain!Step, Chain!Reject
  <2>2. QED BY <1>1, <1>5, <1>8, <1>9, <2>1, RejectedStep
<1>10. CASE legal /\ ~rejected
  <2>1. /\ held' = [held EXCEPT ![a] = Chain!NotHeld] /\ pot' = pot - held[a] /\ held[a] = KeyDeposit
        /\ UNCHANGED <<rewards, resigned, voting, seated, epoch, rejected>>
    BY <1>2, <1>10 DEF Chain!DeregisterAccount, Chain!Step, Chain!Refund, Chain!Holds
  <2>2. held' \in [Entities -> Nat \cup {Chain!NotHeld}] /\ pot' \in Int
    BY <1>2, <2>1 DEF TypeOK, ChainTypeOK
  <2>3. \A e \in Entities : held'[e] \in {Chain!NotHeld, DepositOf(e)}
    BY <2>1 DEF TypeOK, ChainTypeOK, ContextRight
  <2>4. ObservesLedger'
    <3>1. ASSUME NEW e \in Entities PROVE Registered(e)' <=> Chain!Holds(e)'
      BY <1>10, <2>1 DEF ObservesLedger, Registered, Initial, Chain!Holds, Chain!NotHeld, DeregisterAccount, Strike, Given,
                         TypeOK, ChainTypeOK
    <3>2. QED BY <1>10, <2>1, <3>1 DEF ObservesLedger, DeregisterAccount, Given
  <2>5. DepositsBalance'
    <3>1. DepositsKnown => refund = KeyDeposit
      BY <1>3, <1>10, <2>1 DEF Refunded, DepositsKnown
    <3>2. DepositsKnown => deposits' = deposits /\ refunds' = refunds + KeyDeposit
      BY <1>2, <3>1 DEF DeregisterAccount
    <3>3. DepositsKnown /\ deposits - refunds = pot => deposits' - refunds' = pot'
      BY <1>2, <2>1, <3>2 DEF TypeOK, ChecksTypeOK, ChainTypeOK
    <3>4. QED BY <1>1, <1>10, <3>3, CleanBefore DEF DepositsBalance
  <2>6. rejected' = FALSE
    BY <1>10, <2>1 DEF TypeOK, ChainTypeOK
  <2>7. es = {}
    BY <1>7, <1>10
  <2>8. QED BY <1>1, <1>5, <1>10, <2>1, <2>2, <2>3, <2>4, <2>5, <2>6, <2>7, AcceptedStep
<1>11. QED BY <1>9, <1>10

\* So does a delegation of an account to a pool, a DRep or both.
LEMMA DelegateStep ==
  ASSUME CertInv, Certificate(FALSE), NEW a \in Accounts, NEW pool \in Pools \cup {None}, NEW drep \in DReps \cup {None},
         Delegate(a, pool, drep), Chain!Delegate(a, pool, drep)
  PROVE  CertInv'
<1> DEFINE es == Flag(~Registered(a), "StakeNotRegistered") \cup DelegationErrors(pool, drep)
           ws == DelegationWarnings(pool)
           legal == Chain!Holds(a) /\ Chain!CanDelegate(pool, drep)
<1> USE DEF CertInv
<1>1. Report(es, ws) /\ UNCHANGED Given
  BY DEF Delegate
<1>2. ChecksTypeOK'
  BY DEF Delegate, SameState, SameAmounts, TypeOK, ChecksTypeOK
<1>3. ~rejected => (legal <=> es = {})
  <2>1. SUFFICES ASSUME ~rejected PROVE legal <=> es = {}
    OBVIOUS
  <2>2. \A e \in {a, pool, drep} \ {None} : Registered(e) <=> Chain!Holds(e)
    BY <2>1 DEF ObservesLedger, Entities
  <2>3. Registered(a) <=> Chain!Holds(a)
    BY <2>2, ParametersAssumption DEF Entities
  <2>4. DelegationErrors(pool, drep) = {} <=> Chain!CanDelegate(pool, drep)
    BY <2>2 DEF DelegationErrors, Chain!CanDelegate, Flag
  <2>5. QED BY <2>3, <2>4 DEF Flag
<1>4. CASE ~(legal /\ ~rejected)
  <2>1. rejected' = TRUE /\ UNCHANGED <<held, rewards, voting, seated, resigned, pot, epoch>>
    BY <1>4 DEF Chain!Delegate, Chain!Step, Chain!Reject
  <2>2. QED BY <1>1, <1>2, <1>3, <1>4, <2>1, RejectedStep
<1>5. CASE legal /\ ~rejected
  <2>1. UNCHANGED <<held, pot, rewards, resigned, voting, seated, epoch, rejected>>
    BY <1>5 DEF Chain!Delegate, Chain!Step
  <2>2. UNCHANGED <<registrations, deregistrations, resignations, deposits, refunds, context, committee>>
    BY <1>1 DEF Delegate, SameState, SameAmounts, Given
  <2>3. es = {}
    BY <1>3, <1>5
  <2>4. QED BY <1>1, <1>2, <1>5, <2>1, <2>2, <2>3, QuietStep
<1>6. QED BY <1>4, <1>5

-----------------------------------------------------------------------------
(* The certificates of pools *)

\* A pool registration keeps the invariant: one that warns may disagree with the chain about its deposit.
LEMMA RegisterPoolStep ==
  ASSUME CertInv, Certificate(FALSE), NEW p \in Pools, NEW cheap \in BOOLEAN,
         RegisterPool(p, cheap), Chain!RegisterPool(p, cheap)
  PROVE  CertInv'
<1> DEFINE es == Flag(cheap, "StakePoolCostTooLow")
           ws == Duplicate(p) \cup Flag(Registered(p) /\ p \notin retirements, "PoolAlreadyRegistered")
           legal == ~cheap
<1> USE Parameters, CertificatesAssumption DEF CertInv
<1>1. Report(es, ws) /\ UNCHANGED Given
  BY DEF RegisterPool
<1>2. /\ p \in Entities /\ PoolDeposit \in Nat /\ p \notin deregistrations
      /\ held[p] \in {Chain!NotHeld, PoolDeposit}
  BY ParametersAssumption DEF ContextRight, Entities, TypeOK, ChecksTypeOK
<1>3. ChecksTypeOK'
  <2>1. (IF PoolPays(p) THEN PoolDeposit ELSE 0) \in Nat
    BY <1>2
  <2>2. deposits' \in Nat
    BY <2>1 DEF RegisterPool, TypeOK, ChecksTypeOK
  <2>3. QED BY <1>2, <2>2 DEF RegisterPool, TypeOK, ChecksTypeOK
<1>4. legal <=> es = {}
  BY DEF Flag
<1>5. CASE ~(legal /\ ~rejected)
  <2>1. rejected' = TRUE /\ UNCHANGED <<held, rewards, voting, seated, resigned, pot, epoch>>
    BY <1>5 DEF Chain!RegisterPool, Chain!Step, Chain!Reject
  <2>2. QED BY <1>1, <1>3, <1>4, <1>5, <2>1, RejectedStep
<1>6. CASE legal /\ ~rejected
  <2>1. UNCHANGED <<rewards, resigned, voting, seated, epoch, rejected>>
    BY <1>6 DEF Chain!RegisterPool, Chain!Step
  <2>2. IF Chain!Holds(p) THEN UNCHANGED <<held, pot>> ELSE held' = [held EXCEPT ![p] = PoolDeposit] /\ pot' = pot + PoolDeposit
    BY <1>6 DEF Chain!RegisterPool, Chain!Step, Chain!Deposit
  <2>3. held' \in [Entities -> Nat \cup {Chain!NotHeld}] /\ pot' \in Int
    BY <1>2, <2>2 DEF TypeOK, ChainTypeOK
  <2>4. \A e \in Entities : held'[e] \in {Chain!NotHeld, DepositOf(e)}
    BY <1>2, <2>2 DEF TypeOK, ChainTypeOK, ContextRight
  <2>5. ObservesLedger'
    <3>1. ASSUME NEW e \in Entities PROVE Registered(e)' <=> Chain!Holds(e)'
      BY <1>2, <1>6, <2>2 DEF ObservesLedger, Registered, Initial, Chain!Holds, Chain!NotHeld, RegisterPool, Given,
                              TypeOK, ChainTypeOK
    <3>2. QED BY <1>6, <2>1, <3>1 DEF ObservesLedger, RegisterPool, Given
  <2>6. DepositsBalance'
    <3>1. ws = {} => (PoolPays(p) <=> ~Chain!Holds(p))
      BY <1>2, <1>6 DEF Duplicate, Flag, PoolPays, ObservesLedger, Registered, Initial
    <3>2. CASE PoolPays(p) /\ ~Chain!Holds(p)
      <4>1. deposits' = deposits + PoolDeposit /\ refunds' = refunds
        BY <3>2 DEF RegisterPool
      <4>2. deposits - refunds = pot => deposits' - refunds' = pot'
        BY <1>2, <2>2, <3>2, <4>1 DEF TypeOK, ChecksTypeOK, ChainTypeOK
      <4>3. QED BY <1>1, <1>6, <4>2, CleanBefore DEF DepositsBalance
    <3>3. CASE ~PoolPays(p) /\ Chain!Holds(p)
      <4>1. deposits' = deposits /\ refunds' = refunds
        BY <3>3 DEF RegisterPool, TypeOK, ChecksTypeOK
      <4>2. deposits - refunds = pot => deposits' - refunds' = pot'
        BY <2>2, <3>3, <4>1
      <4>3. QED BY <1>1, <1>6, <4>2, CleanBefore DEF DepositsBalance
    <3>4. CASE ws # {}
      BY <1>1, <3>4, CleanBefore DEF DepositsBalance
    <3>5. QED BY <3>1, <3>2, <3>3, <3>4
  <2>7. rejected' = FALSE
    BY <1>6, <2>1 DEF TypeOK, ChainTypeOK
  <2>8. QED BY <1>1, <1>3, <1>4, <1>6, <2>1, <2>3, <2>4, <2>5, <2>6, <2>7, AcceptedStep
<1>7. QED BY <1>5, <1>6

\* The validator's epoch is a number, whatever the slot.
LEMMA CurrentEpochType == ASSUME CertInv PROVE CurrentEpoch \in Int
<1>1. slot \in Nat
  BY CertificatesAssumption DEF CertInv, TypeOK, ChainTypeOK
<1>2. QED BY <1>1 DEF CurrentEpoch, SlotsPerEpoch

\* A pool retirement keeps the invariant: an epoch on which the counts disagree is remembered.
LEMMA RetirePoolStep ==
  ASSUME CertInv, NEW p \in Pools, NEW target \in Epochs, Certificate(Disputed(target)),
         RetirePool(p, target), Chain!RetirePool(p, target)
  PROVE  CertInv'
<1> DEFINE mistake == Disputed(target)
           es == Flag(~Registered(p), "StakePoolNotRegistered")
                   \cup Flag(target < CurrentEpoch + 1 \/ target > CurrentEpoch + MaxRetirement, "WrongRetirementEpoch")
           legal == Chain!Holds(p) /\ Chain!MayRetireIn(target)
<1> USE DEF CertInv
<1>1. Report(es, {}) /\ UNCHANGED Given /\ mistake \in BOOLEAN
  BY DEF RetirePool, Disputed
<1>2. ChecksTypeOK'
  BY DEF RetirePool, SameAmounts, TypeOK, ChecksTypeOK
<1>3. ~rejected => (Registered(p) <=> Chain!Holds(p))
  BY DEF ObservesLedger, Entities
<1>4. mistake \/ (Chain!MayRetireIn(target) <=> ~(target < CurrentEpoch + 1 \/ target > CurrentEpoch + MaxRetirement))
  <2>1. target \in Nat /\ CurrentEpoch \in Int /\ MaxRetirement \in Nat
    BY CurrentEpochType, ParametersAssumption, CertificatesAssumption
  <2>2. target \in CurrentEpoch + 1 .. CurrentEpoch + MaxRetirement
          <=> ~(target < CurrentEpoch + 1 \/ target > CurrentEpoch + MaxRetirement)
    BY <2>1
  <2>3. Chain!MayRetireIn(target) \in BOOLEAN
    BY DEF Chain!MayRetireIn
  <2>4. QED BY <2>2, <2>3 DEF Disputed
<1>5. CASE ~(legal /\ ~rejected)
  <2>1. rejected' = TRUE /\ UNCHANGED <<held, rewards, voting, seated, resigned, pot, epoch>>
    BY <1>5 DEF Chain!RetirePool, Chain!Step, Chain!Reject
  <2>2. ~rejected /\ ~mistake => es # {}
    BY <1>3, <1>4, <1>5 DEF Flag
  <2>3. QED BY <1>1, <1>2, <2>1, <2>2, RejectedStep
<1>6. CASE legal /\ ~rejected
  <2>1. UNCHANGED <<held, pot, rewards, resigned, voting, seated, epoch, rejected>>
    BY <1>6 DEF Chain!RetirePool, Chain!Step
  <2>2. UNCHANGED <<registrations, deregistrations, resignations, deposits, refunds, context, committee>>
    BY <1>1 DEF RetirePool, SameAmounts, Given
  <2>3. es \subseteq Flag(mistake, "WrongRetirementEpoch")
    BY <1>3, <1>4, <1>6 DEF Flag
  <2>4. QED BY <1>1, <1>2, <1>6, <2>1, <2>2, <2>3, QuietStep
<1>7. QED BY <1>5, <1>6

-----------------------------------------------------------------------------
(* The certificates of DReps *)

\* A DRep registration keeps the invariant.
LEMMA RegisterDRepStep ==
  ASSUME CertInv, Certificate(FALSE), NEW d \in DReps, NEW coin \in Coins, RegisterDRep(d, coin), Chain!RegisterDRep(d, coin)
  PROVE  CertInv'
<1> DEFINE es == Flag(coin # DRepDeposit, "DRepIncorrectDeposit")
           ws == Duplicate(d) \cup Flag(Registered(d), "DRepAlreadyRegistered")
           legal == ~Chain!Holds(d) /\ coin = DRepDeposit
<1> USE Parameters, CertificatesAssumption DEF CertInv
<1>1. Report(es, ws) /\ UNCHANGED Given
  BY DEF RegisterDRep
<1>2. d \in Entities /\ coin \in Nat /\ DRepDeposit \in Nat
  BY ParametersAssumption DEF Entities
<1>3. ChecksTypeOK'
  <2>1. deposits' \in Nat
    BY <1>2 DEF RegisterDRep, TypeOK, ChecksTypeOK
  <2>2. QED BY <2>1 DEF RegisterDRep, Enrol, TypeOK, ChecksTypeOK, Entities
<1>4. ~rejected => (Registered(d) <=> Chain!Holds(d))
  BY <1>2 DEF ObservesLedger
<1>5. CASE ~(legal /\ ~rejected)
  <2>1. rejected' = TRUE /\ UNCHANGED <<held, rewards, voting, seated, resigned, pot, epoch>>
    BY <1>5 DEF Chain!RegisterDRep, Chain!Step, Chain!Reject
  <2>2. ~rejected => es \cup ws # {}
    BY <1>4, <1>5 DEF Flag
  <2>3. QED BY <1>1, <1>3, <2>1, <2>2, RejectedStep
<1>6. CASE legal /\ ~rejected
  <2>1. /\ held' = [held EXCEPT ![d] = DRepDeposit] /\ pot' = pot + DRepDeposit
        /\ UNCHANGED <<rewards, resigned, voting, seated, epoch, rejected>>
    BY <1>6 DEF Chain!RegisterDRep, Chain!Step, Chain!Deposit
  <2>2. held' \in [Entities -> Nat \cup {Chain!NotHeld}] /\ pot' \in Int
    BY <1>2, <2>1 DEF TypeOK, ChainTypeOK
  <2>3. \A e \in Entities : held'[e] \in {Chain!NotHeld, DepositOf(e)}
    BY <2>1 DEF TypeOK, ChainTypeOK, ContextRight
  <2>4. ObservesLedger'
    <3>1. ASSUME NEW e \in Entities PROVE Registered(e)' <=> Chain!Holds(e)'
      BY <1>2, <1>6, <2>1 DEF ObservesLedger, Registered, Initial, Chain!Holds, Chain!NotHeld, RegisterDRep, Enrol, Given,
                              TypeOK, ChainTypeOK
    <3>2. QED BY <1>6, <2>1, <3>1 DEF ObservesLedger, RegisterDRep, Given
  <2>5. DepositsBalance'
    <3>1. deposits' = deposits + DRepDeposit /\ refunds' = refunds
      BY <1>6 DEF RegisterDRep
    <3>2. deposits - refunds = pot => deposits' - refunds' = pot'
      BY <1>2, <2>1, <3>1 DEF TypeOK, ChecksTypeOK, ChainTypeOK
    <3>3. QED BY <1>1, <1>6, <3>2, CleanBefore DEF DepositsBalance
  <2>6. rejected' = FALSE /\ es = {}
    BY <1>6, <2>1 DEF TypeOK, ChainTypeOK, Flag
  <2>7. QED BY <1>1, <1>3, <1>6, <2>1, <2>2, <2>3, <2>4, <2>5, <2>6, AcceptedStep
<1>7. QED BY <1>5, <1>6

\* A DRep deregistration keeps the invariant.
LEMMA DeregisterDRepStep ==
  ASSUME CertInv, Certificate(FALSE), NEW d \in DReps, NEW coin \in Coins, DeregisterDRep(d, coin), Chain!DeregisterDRep(d, coin)
  PROVE  CertInv'
<1> DEFINE es == RefundErrors(d, coin, "DRepDeregistrationWrongRefund")
           ws == Flag(~Registered(d), "DRepNotRegistered") \cup RefundWarnings(d, coin, "CannotCheckDRepDeregistrationRefund")
           legal == Chain!Holds(d) /\ coin = held[d]
<1> USE Parameters, CertificatesAssumption DEF CertInv
<1>1. Report(es, ws) /\ UNCHANGED Given
  BY DEF DeregisterDRep
<1>2. /\ d \in Entities /\ coin \in Nat /\ coin # None /\ DRepDeposit \in Nat
      /\ context[d].payed \in {None, DRepDeposit} /\ held[d] \in {Chain!NotHeld, DRepDeposit}
  BY ParametersAssumption DEF Entities, ContextRight, Truthful
<1>3. ChecksTypeOK'
  <2>1. refunds' \in Nat
    BY <1>2 DEF DeregisterDRep, TypeOK, ChecksTypeOK
  <2>2. QED BY <2>1 DEF DeregisterDRep, Strike, TypeOK, ChecksTypeOK, Entities
<1>4. ~rejected => (Registered(d) <=> Chain!Holds(d))
  BY <1>2 DEF ObservesLedger
<1>5. Chain!Holds(d) => held[d] = DRepDeposit
  BY <1>2 DEF Chain!Holds
<1>6. CASE ~(legal /\ ~rejected)
  <2>1. rejected' = TRUE /\ UNCHANGED <<held, rewards, voting, seated, resigned, pot, epoch>>
    BY <1>6 DEF Chain!DeregisterDRep, Chain!Step, Chain!Reject
  <2>2. ~rejected => es \cup ws # {}
    BY <1>2, <1>4, <1>5, <1>6 DEF RefundErrors, RefundWarnings, Flag
  <2>3. QED BY <1>1, <1>3, <2>1, <2>2, RejectedStep
<1>7. CASE legal /\ ~rejected
  <2>1. /\ held' = [held EXCEPT ![d] = Chain!NotHeld] /\ pot' = pot - DRepDeposit /\ coin = DRepDeposit
        /\ UNCHANGED <<rewards, resigned, voting, seated, epoch, rejected>>
    BY <1>5, <1>7 DEF Chain!DeregisterDRep, Chain!Step, Chain!Refund
  <2>2. held' \in [Entities -> Nat \cup {Chain!NotHeld}] /\ pot' \in Int
    BY <1>2, <2>1 DEF TypeOK, ChainTypeOK
  <2>3. \A e \in Entities : held'[e] \in {Chain!NotHeld, DepositOf(e)}
    BY <2>1 DEF TypeOK, ChainTypeOK, ContextRight
  <2>4. ObservesLedger'
    <3>1. ASSUME NEW e \in Entities PROVE Registered(e)' <=> Chain!Holds(e)'
      BY <1>2, <1>7, <2>1 DEF ObservesLedger, Registered, Initial, Chain!Holds, Chain!NotHeld, DeregisterDRep, Strike, Given,
                              TypeOK, ChainTypeOK
    <3>2. QED BY <1>7, <2>1, <3>1 DEF ObservesLedger, DeregisterDRep, Given
  <2>5. DepositsBalance'
    <3>1. deposits' = deposits /\ refunds' = refunds + DRepDeposit
      BY <2>1 DEF DeregisterDRep
    <3>2. deposits - refunds = pot => deposits' - refunds' = pot'
      BY <1>2, <2>1, <3>1 DEF TypeOK, ChecksTypeOK, ChainTypeOK
    <3>3. QED BY <1>1, <1>7, <3>2, CleanBefore DEF DepositsBalance
  <2>6. rejected' = FALSE
    BY <1>7, <2>1 DEF TypeOK, ChainTypeOK
  <2>7. es = {}
    BY <1>2, <2>1 DEF RefundErrors, Flag
  <2>8. QED BY <1>1, <1>3, <1>7, <2>1, <2>2, <2>3, <2>4, <2>5, <2>6, <2>7, AcceptedStep
<1>8. QED BY <1>6, <1>7

\* A DRep update keeps the invariant.
LEMMA UpdateDRepStep ==
  ASSUME CertInv, Certificate(FALSE), NEW d \in DReps, UpdateDRep(d), Chain!UpdateDRep(d)
  PROVE  CertInv'
<1> DEFINE ws == Flag(~Registered(d), "DRepNotRegistered")
           legal == Chain!Holds(d)
<1> USE DEF CertInv
<1>1. Report({}, ws) /\ UNCHANGED Given
  BY DEF UpdateDRep
<1>2. ChecksTypeOK'
  BY DEF UpdateDRep, SameState, SameAmounts, TypeOK, ChecksTypeOK
<1>3. ~rejected => (legal <=> ws = {})
  BY DEF ObservesLedger, Entities, Flag
<1>4. CASE ~(legal /\ ~rejected)
  <2>1. rejected' = TRUE /\ UNCHANGED <<held, rewards, voting, seated, resigned, pot, epoch>>
    BY <1>4 DEF Chain!UpdateDRep, Chain!Step, Chain!Reject
  <2>2. QED BY <1>1, <1>2, <1>3, <1>4, <2>1, RejectedStep
<1>5. CASE legal /\ ~rejected
  <2>1. UNCHANGED <<held, pot, rewards, resigned, voting, seated, epoch, rejected>>
    BY <1>5 DEF Chain!UpdateDRep, Chain!Step
  <2>2. UNCHANGED <<registrations, deregistrations, resignations, deposits, refunds, context, committee>>
    BY <1>1 DEF UpdateDRep, SameState, SameAmounts, Given
  <2>3. Report(Flag(FALSE, "WrongRetirementEpoch"), ws)
    BY <1>1 DEF Report, Flag
  <2>4. QED BY <1>1, <1>2, <1>5, <2>1, <2>2, <2>3, QuietStep
<1>6. QED BY <1>4, <1>5

-----------------------------------------------------------------------------
(* The certificates of the committee, and those that are gone *)

\* Who may act for the committee, seen from either side.
LEMMA CommitteeSeen ==
  ASSUME CertInv, ~rejected, NEW c \in Cold
  PROVE  c \in seated \ resigned <=> committee[c] = "active" /\ c \notin resignations
  BY DEF CertInv, ContextRight, ObservesLedger

\* Authorizing a hot key keeps the invariant.
LEMMA AuthorizeHotStep ==
  ASSUME CertInv, Certificate(FALSE), NEW c \in Cold, AuthorizeHot(c), Chain!AuthorizeHot(c)
  PROVE  CertInv'
<1> DEFINE es == CommitteeErrors(c) \cup Flag(c \in resignations, "CommitteeHasPreviouslyResigned")
           ws == Flag(c \in hotAuths, "DuplicateCommitteeHotRegistrationInTx")
           legal == c \in seated \ resigned
<1>1. Report(es, ws) /\ UNCHANGED Given
  BY DEF AuthorizeHot
<1>2. ChecksTypeOK'
  BY DEF AuthorizeHot, SameAmounts, CertInv, TypeOK, ChecksTypeOK
<1>3. ~rejected => (legal <=> es = {})
  <2>1. committee[c] \in {"unknown", "active", "resigned"}
    BY DEF CertInv, ContextRight
  <2>2. QED BY <2>1, CommitteeSeen DEF CommitteeErrors, Flag
<1>4. CASE ~(legal /\ ~rejected)
  <2>1. rejected' = TRUE /\ UNCHANGED <<held, rewards, voting, seated, resigned, pot, epoch>>
    BY <1>4 DEF Chain!AuthorizeHot, Chain!Step, Chain!Reject
  <2>2. QED BY <1>1, <1>2, <1>3, <1>4, <2>1, RejectedStep
<1>5. CASE legal /\ ~rejected
  <2>1. UNCHANGED <<held, pot, rewards, resigned, voting, seated, epoch, rejected>>
    BY <1>5 DEF Chain!AuthorizeHot, Chain!Step
  <2>2. UNCHANGED <<registrations, deregistrations, resignations, deposits, refunds, context, committee>>
    BY <1>1 DEF AuthorizeHot, SameAmounts, Given
  <2>3. es = {}
    BY <1>3, <1>5
  <2>4. QED BY <1>1, <1>2, <1>5, <2>1, <2>2, <2>3, QuietStep
<1>6. QED BY <1>4, <1>5

\* Resigning a cold key keeps the invariant.
LEMMA ResignStep ==
  ASSUME CertInv, Certificate(FALSE), NEW c \in Cold, Resign(c), Chain!Resign(c)
  PROVE  CertInv'
<1> DEFINE es == CommitteeErrors(c)
           ws == Flag(c \in resignations, "DuplicateCommitteeColdResignationInTx")
           legal == c \in seated \ resigned
<1>1. Report(es, ws) /\ UNCHANGED Given
  BY DEF Resign
<1>2. ChecksTypeOK'
  BY DEF Resign, SameAmounts, CertInv, TypeOK, ChecksTypeOK
<1>3. ~rejected => (legal <=> es \cup ws = {})
  <2>1. committee[c] \in {"unknown", "active", "resigned"}
    BY DEF CertInv, ContextRight
  <2>2. QED BY <2>1, CommitteeSeen DEF CommitteeErrors, Flag
<1>4. CASE ~(legal /\ ~rejected)
  <2>1. rejected' = TRUE /\ UNCHANGED <<held, rewards, voting, seated, resigned, pot, epoch>>
    BY <1>4 DEF Chain!Resign, Chain!Step, Chain!Reject
  <2>2. QED BY <1>1, <1>2, <1>3, <1>4, <2>1, RejectedStep
<1>5. CASE legal /\ ~rejected
  <2>1. resigned' = resigned \cup {c} /\ UNCHANGED <<held, pot, rewards, voting, seated, epoch, rejected>>
    BY <1>5 DEF Chain!Resign, Chain!Step
  <2>2. /\ resignations' = resignations \cup {c}
        /\ UNCHANGED <<registrations, deregistrations, deposits, refunds, context, committee>>
    BY <1>1 DEF Resign, SameAmounts, Given
  <2>3. ObservesLedger'
    BY <1>5, <2>1, <2>2 DEF CertInv, ObservesLedger, Registered, Initial, Chain!Holds
  <2>4. DepositsBalance'
    BY <1>1, <2>1, <2>2, CleanBefore DEF CertInv, DepositsBalance
  <2>5. /\ rejected' = FALSE /\ pot' \in Int /\ held' \in [Entities -> Nat \cup {Chain!NotHeld}]
        /\ \A e \in Entities : held'[e] \in {Chain!NotHeld, DepositOf(e)}
    BY <1>5, <2>1 DEF CertInv, TypeOK, ChainTypeOK, ContextRight
  <2>6. es = {}
    BY <1>3, <1>5
  <2>7. QED BY <1>1, <1>2, <1>5, <2>1, <2>3, <2>4, <2>5, <2>6, AcceptedStep
<1>6. QED BY <1>4, <1>5

\* A certificate the ledger no longer has keeps the invariant.
LEMMA ObsoleteStep ==
  ASSUME CertInv, Certificate(FALSE), Obsolete, Chain!Obsolete
  PROVE  CertInv'
<1>1. Report({"CertificateIsNotSupported"}, {}) /\ UNCHANGED Given
  BY DEF Obsolete
<1>2. ChecksTypeOK'
  BY DEF Obsolete, SameState, SameAmounts, CertInv, TypeOK, ChecksTypeOK
<1>3. rejected' = TRUE /\ UNCHANGED <<held, rewards, voting, seated, resigned, pot, epoch>>
  BY DEF Chain!Obsolete, Chain!Reject
<1>4. QED BY <1>1, <1>2, <1>3, RejectedStep

-----------------------------------------------------------------------------
(* The withdrawals, before any certificate *)

\* The withdrawals keep the invariant: they find what the context says, if it says it.
LEMMA WithdrawalsStep ==
  ASSUME CertInv, Withdrawals
  PROVE  CertInv'
<1> DEFINE taken == {b \in Accounts : withdrawals[b] # None}
           es == UNION {WithdrawalErrors(a) : a \in taken}
           legal == \A a \in Accounts : withdrawals[a] = None \/ (Chain!Holds(a) /\ withdrawals[a] = rewards[a] /\ a \in voting)
           emptied == [a \in Accounts |-> IF withdrawals[a] = None THEN rewards[a] ELSE 0]
<1> USE Parameters, CertificatesAssumption DEF CertInv
<1>1. /\ Report(es, {}) /\ UNCHANGED Given
      /\ UNCHANGED <<registrations, deregistrations, retirements, resignations, hotAuths, deposits, refunds>>
  BY DEF Withdrawals, CheckWithdrawals, SameState, SameAmounts
<1>2. index = -1 /\ index' = 0 /\ StartOfWalk /\ pot = 0 /\ ~rejected
  BY DEF Withdrawals, StartRight
<1>3. \/ legal /\ rejected' = FALSE /\ rewards' = emptied
         /\ UNCHANGED <<held, voting, seated, resigned, pot, epoch>>
      \/ ~legal /\ rejected' = TRUE /\ UNCHANGED <<held, rewards, voting, seated, resigned, pot, epoch>>
  BY <1>2 DEF Withdrawals, Chain!Withdraw, Chain!Step, Chain!Reject
<1>4. \A a \in Accounts : /\ Chain!Holds(a) <=> context[a].registered
                          /\ context[a].balance # None => rewards[a] = context[a].balance
                          /\ a \in voting <=> context[a].delegated \/ a \in Scripts
                          /\ a \in Entities
  <2>1. TAKE a \in Accounts
  <2>2. Registered(a) <=> context[a].registered
    BY <1>2 DEF Registered, Initial, StartOfWalk, Entities
  <2>3. Chain!Holds(a) <=> context[a].registered
    BY <1>2, <2>2 DEF ObservesLedger, Entities
  <2>4. QED BY <1>2, <2>3 DEF RewardsRight, Withdrawn, ContextRight, Entities
<1>5. legal => es = {}
  <2>1. SUFFICES ASSUME legal, NEW a \in taken PROVE WithdrawalErrors(a) = {}
    OBVIOUS
  <2>2. QED BY <1>4, <2>1 DEF WithdrawalErrors, Flag
<1>6. es = {} /\ BalancesKnown => legal
  <2>1. SUFFICES ASSUME es = {}, BalancesKnown, NEW a \in taken
                 PROVE  Chain!Holds(a) /\ withdrawals[a] = rewards[a] /\ a \in voting
    OBVIOUS
  <2>2. WithdrawalErrors(a) = {}
    BY <2>1
  <2>3. context[a].registered /\ context[a].balance \in {None, withdrawals[a]} /\ (context[a].delegated \/ a \in Scripts)
    BY <2>2 DEF WithdrawalErrors, Flag
  <2>4. QED BY <1>4, <2>1, <2>3 DEF BalancesKnown
<1>7. TypeOK'
  <2>1. rewards' \in [Accounts -> Nat]
    BY <1>3 DEF TypeOK, ChainTypeOK
  <2>2. index' \in -1..MaxCerts
    <3>1. 0 \in -1..MaxCerts
      OBVIOUS
    <3>2. QED BY <1>2, <3>1
  <2>3. ChecksTypeOK'
    BY <1>1 DEF TypeOK, ChecksTypeOK
  <2>4. ChainTypeOK'
    <3>1. rejected' \in BOOLEAN
      BY <1>3
    <3>2. <<slot, epoch>>' \in Moments
      BY <1>1, <1>3 DEF TypeOK, ChainTypeOK, Given
    <3>3. QED BY <1>3, <2>1, <3>1, <3>2 DEF TypeOK, ChainTypeOK
  <2>5. misjudged' \in BOOLEAN
    BY DEF Withdrawals, TypeOK
  <2>6. QED BY <2>2, <2>3, <2>4, <2>5 DEF TypeOK
<1>8. ContextRight'
  BY <1>1, <1>3 DEF ContextRight, Given
<1>9. RewardsRight'
  <2>1. SUFFICES ASSUME ~rejected', NEW a \in Accounts
                 PROVE  /\ Withdrawn(a)' => /\ rewards'[a] = 0 /\ context'[a].registered
                                            /\ context'[a].balance \in {None, withdrawals'[a]}
                        /\ ~Withdrawn(a)' /\ context'[a].balance # None => rewards'[a] = context'[a].balance
                        /\ ~context'[a].registered => rewards'[a] = 0
    BY DEF RewardsRight
  <2>2. legal /\ rewards' = emptied
    BY <1>3, <2>1
  <2>3. context' = context /\ withdrawals' = withdrawals /\ index' # -1
    BY <1>1, <1>2 DEF Given
  <2>4. ~context[a].registered => rewards[a] = 0
    BY <1>2 DEF RewardsRight
  <2>5. CASE withdrawals[a] = None
    BY <1>4, <2>2, <2>3, <2>4, <2>5 DEF Withdrawn
  <2>6. CASE withdrawals[a] # None
    BY <1>4, <2>2, <2>3, <2>4, <2>6 DEF Withdrawn
  <2>7. QED BY <2>5, <2>6
<1>10. StartRight'
  BY <1>2 DEF StartRight
<1>11. ObservesLedger'
  <2>1. ASSUME NEW e \in Entities PROVE Registered(e)' <=> Chain!Holds(e)'
    BY <1>1, <1>2, <1>3 DEF ObservesLedger, Registered, Initial, Chain!Holds, Given
  <2>2. QED BY <1>1, <1>2, <1>3, <2>1 DEF ObservesLedger, Given
<1>12. CleanIsAccepted'
  <2>1. Clean' => es = {}
    BY <1>1 DEF Report, Clean
  <2>2. BalancesKnown' => BalancesKnown
    BY <1>1 DEF BalancesKnown, Given
  <2>3. QED BY <1>3, <1>6, <2>1, <2>2 DEF CleanIsAccepted
<1>13. NoFalseAlarm'
  BY <1>1, <1>2, <1>3, <1>5 DEF NoFalseAlarm, Report, StartOfWalk
<1>14. DepositsBalance'
  <2>1. deposits' = 0 /\ refunds' = 0 /\ pot' = 0
    BY <1>1, <1>2, <1>3 DEF StartOfWalk
  <2>2. QED BY <2>1 DEF DepositsBalance
<1>15. QED BY <1>7, <1>8, <1>9, <1>10, <1>11, <1>12, <1>13, <1>14

-----------------------------------------------------------------------------
(* Every step, and the theorems *)

\* CertInv is inductive.
LEMMA NextInv == CertInv /\ [Next]_vars => CertInv'
<1> SUFFICES ASSUME CertInv, [Next]_vars PROVE CertInv'
  OBVIOUS
<1>1. CASE Withdrawals
  BY <1>1, WithdrawalsStep
<1>2. CASE AccountCertificate
  BY <1>2, RegisterAccountStep, DeregisterAccountStep, DelegateStep DEF AccountCertificate
<1>3. CASE PoolCertificate
  BY <1>3, RegisterPoolStep, RetirePoolStep DEF PoolCertificate
<1>4. CASE DRepCertificate
  BY <1>4, RegisterDRepStep, DeregisterDRepStep, UpdateDRepStep DEF DRepCertificate
<1>5. CASE CommitteeCertificate
  BY <1>5, AuthorizeHotStep, ResignStep DEF CommitteeCertificate
<1>6. CASE ObsoleteCertificate
  BY <1>6, ObsoleteStep DEF ObsoleteCertificate
<1>7. CASE UNCHANGED vars
  <2>1. UNCHANGED <<checks, held, rewards, voting, seated, resigned, pot, epoch, rejected, index, misjudged>>
    BY <1>7 DEF vars, Chain!ledger
  <2>2. (TypeOK /\ ContextRight /\ RewardsRight /\ StartRight)'
    BY <2>1 DEF CertInv, TypeOK, ChecksTypeOK, ChainTypeOK, ContextRight, RewardsRight, Withdrawn, StartRight, StartOfWalk,
                checks
  <2>3. (ObservesLedger /\ CleanIsAccepted /\ NoFalseAlarm /\ DepositsBalance)'
    BY <2>1 DEF CertInv, ObservesLedger, Registered, Initial, Chain!Holds, CleanIsAccepted, NoFalseAlarm, DepositsBalance,
                Clean, BalancesKnown, DepositsKnown, checks
  <2>4. QED BY <2>2, <2>3 DEF CertInv
<1>8. QED BY <1>1, <1>2, <1>3, <1>4, <1>5, <1>6, <1>7 DEF Next

\* Whatever the certificates, the walk, the context and the chain stay related as CertInv says.
THEOREM CertInvariance == Spec => []CertInv
<1>1. QED BY InitInv, NextInv, PTL DEF Spec

\* The totals are natural numbers, and the walk's sets hold what certificates name.
THEOREM TypeCorrect == Spec => []TypeOK
<1>1. CertInv => TypeOK
  BY DEF CertInv
<1>2. QED BY <1>1, CertInvariance, PTL

\* Each certificate is validated against the state the ledger would observe at that point.
THEOREM WalkObservesLedger == Spec => []ObservesLedger
<1>1. CertInv => ObservesLedger
  BY DEF CertInv
<1>2. QED BY <1>1, CertInvariance, PTL

\* What the validators pass without a word, the chain accepts, where the balances are known.
THEOREM CleanTransactionsAreAccepted == Spec => []CleanIsAccepted
<1>1. CertInv => CleanIsAccepted
  BY DEF CertInv
<1>2. QED BY <1>1, CertInvariance, PTL

\* What they report as an error, the chain rejects.
THEOREM ErrorsAreJustified == Spec => []NoFalseAlarm
<1>1. CertInv => NoFalseAlarm
  BY DEF CertInv
<1>2. QED BY <1>1, CertInvariance, PTL

\* The deposits and refunds they put in the balance equation are the chain's.
THEOREM DepositsAddUp == Spec => []DepositsBalance
<1>1. CertInv => DepositsBalance
  BY DEF CertInv
<1>2. QED BY <1>1, CertInvariance, PTL
=============================================================================
