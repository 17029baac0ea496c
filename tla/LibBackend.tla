----------------------------- MODULE LibBackend -----------------------------
(***************************************************************************)
(* What a LibBackend promises the caller of callRaw, whatever runs the     *)
(* wasm (ts/backend.ts, interface LibBackend and LibCallOptions; the error *)
(* classes of ts/errors.ts): a call is answered only by running its        *)
(* function, is settled once, and an outcome that says the call never ran  *)
(* is only given to a call that never ran, as far as the backend can tell: *)
(* of a call whose worker it gave up unheard it cannot.                    *)
(***************************************************************************)
EXTENDS TLAPS

CONSTANTS Calls      \* the calls a host makes

VARIABLES status,    \* status[c]: "new", "pending", or the outcome of c
          ran,       \* the calls whose function has been entered in some wasm instance
          lost,      \* the calls of which the backend can no longer tell whether they ran
          signalled, \* the calls whose AbortSignal has fired
          closed     \* the backend has been disposed of

vars == <<status, ran, lost, signalled, closed>>

\* Outcomes that come out of the wasm: its value, its exception, or a value
\* that structured clone could not carry (LibResultNotTransferableError).
Answers == {"value", "error", "clone"}

\* Outcomes that say the call never ran: dropped at its deadline, aborted,
\* or arguments refused (budget, fn name, structured clone).
NeverRan == {"notStarted", "aborted", "refused"}

\* Refusals that say nothing about whether the call ran.
GaveUp == {"abandoned", "unavailable"}

Outcomes == Answers \cup NeverRan \cup GaveUp

Pending == {c \in Calls : status[c] = "pending"}

\* The calls that have run, as far as the backend can tell.
KnownToRun == ran \ lost

Init == /\ status = [c \in Calls |-> "new"]
        /\ ran = {}
        /\ lost = {}
        /\ signalled = {}
        /\ closed = FALSE

Submit(c) == /\ status[c] = "new"
             /\ ~closed
             /\ status' = [status EXCEPT ![c] = "pending"]
             /\ UNCHANGED <<ran, lost, signalled, closed>>

\* A call turned away at the door: the backend is closed or has nothing to serve
\* it with, the call is over budget or unknown, or its signal has fired.
TurnAway(c) == /\ status[c] = "new"
               /\ \/ status' = [status EXCEPT ![c] = "unavailable"] /\ UNCHANGED signalled
                  \/ status' = [status EXCEPT ![c] = "refused"] /\ UNCHANGED signalled
                  \/ status' = [status EXCEPT ![c] = "aborted"] /\ signalled' = signalled \cup {c}
               /\ UNCHANGED <<ran, lost, closed>>

\* The signal fires: a call that has not been dispatched may be withdrawn.
Signal(c) == /\ signalled' = signalled \cup {c}
             /\ \/ UNCHANGED status
                \/ /\ c \in Pending \ KnownToRun
                   /\ status' = [status EXCEPT ![c] = "aborted"]
             /\ UNCHANGED <<ran, lost, closed>>

\* The function is entered: at most once per call, but a lost call may be entered again, which `ran` does not count.
Run(c) == /\ c \in Pending \ ran
          /\ ran' = ran \cup {c}
          /\ UNCHANGED <<status, lost, signalled, closed>>

\* The worker is given up that has, or may have, run the call; the call stays pending.
LoseSight(c) == /\ c \in Pending
                /\ lost' = lost \cup {c}
                /\ UNCHANGED <<status, ran, signalled, closed>>

Answer(c) == /\ c \in Pending
             /\ \E o \in Answers : status' = [status EXCEPT ![c] = o]
             /\ ran' = ran \cup {c}
             /\ UNCHANGED <<lost, signalled, closed>>

\* Some calls are given up, each for a reason that is true of it.
GiveUp == \E S \in SUBSET Pending :
          \E why \in [S -> NeverRan \cup GaveUp] :
            /\ \A c \in S : /\ why[c] \in NeverRan => c \notin KnownToRun
                            /\ why[c] = "aborted" => c \in signalled
            /\ status' = [c \in Calls |-> IF c \in S THEN why[c] ELSE status[c]]
            /\ UNCHANGED <<ran, lost, signalled, closed>>

\* dispose(): every outstanding call is rejected, there and then.
Close == /\ ~closed
         /\ closed' = TRUE
         /\ status' = [c \in Calls |-> IF c \in Pending THEN "unavailable" ELSE status[c]]
         /\ UNCHANGED <<ran, lost, signalled>>

Next == \/ \E c \in Calls : Submit(c) \/ TurnAway(c) \/ Signal(c) \/ Run(c) \/ LoseSight(c) \/ Answer(c)
        \/ GiveUp
        \/ Close

Spec == Init /\ [][Next]_vars

TypeOK == /\ status \in [Calls -> {"new", "pending"} \cup Outcomes]
          /\ ran \subseteq Calls
          /\ lost \subseteq Calls
          /\ signalled \subseteq Calls
          /\ closed \in BOOLEAN

-----------------------------------------------------------------------------
(* An outcome is final, and tells the truth about whether the call ran, of  *)
(* every call the backend has not lost sight of.                            *)
Truthful == \A c \in Calls : /\ status[c] \in Answers => c \in ran
                             /\ status[c] \in NeverRan => c \notin KnownToRun

(* A call that has settled is never settled again, nor runs afterwards.     *)
SettledOnce == [][\A c \in Calls : status[c] \in Outcomes =>
                     /\ status'[c] = status[c]
                     /\ c \in ran' => c \in ran]_vars

(* Once the backend is closed nothing is outstanding.                       *)
ClosedIsQuiet == closed => Pending = {}

-----------------------------------------------------------------------------
(* Proofs: what the contract promises follows from its steps.               *)

\* Truthful with what makes it inductive: no call that is yet to be made has run.
ContractInv == TypeOK /\ Truthful /\ ClosedIsQuiet /\ \A c \in Calls : status[c] = "new" => c \notin ran

LEMMA ContractStep ==
  ASSUME ContractInv, [Next]_vars
  PROVE  ContractInv'
<1> USE DEF ContractInv, TypeOK, Truthful, ClosedIsQuiet, Pending, KnownToRun, Outcomes, Answers, NeverRan, GaveUp
<1>1. ASSUME NEW c \in Calls, Submit(c) PROVE ContractInv'
  BY <1>1 DEF Submit
<1>2. ASSUME NEW c \in Calls, TurnAway(c) PROVE ContractInv'
  BY <1>2 DEF TurnAway
<1>3. ASSUME NEW c \in Calls, Signal(c) PROVE ContractInv'
  BY <1>3 DEF Signal
<1>4. ASSUME NEW c \in Calls, Run(c) PROVE ContractInv'
  BY <1>4 DEF Run
<1>5. ASSUME NEW c \in Calls, LoseSight(c) PROVE ContractInv'
  BY <1>5 DEF LoseSight
<1>6. ASSUME NEW c \in Calls, Answer(c) PROVE ContractInv'
  BY <1>6 DEF Answer
<1>7. CASE GiveUp
  BY <1>7 DEF GiveUp
<1>8. CASE Close
  BY <1>8 DEF Close
<1>9. CASE UNCHANGED vars
  BY <1>9 DEF vars
<1> QED  BY <1>1, <1>2, <1>3, <1>4, <1>5, <1>6, <1>7, <1>8, <1>9 DEF Next

LEMMA ContractInvariance == Spec => []ContractInv
<1>1. Init => ContractInv
  BY DEF Init, ContractInv, TypeOK, Truthful, ClosedIsQuiet, Pending, KnownToRun, Outcomes, Answers, NeverRan, GaveUp
<1> QED  BY <1>1, ContractStep, PTL DEF Spec

\* An outcome tells the truth about whether the call ran, of every backend that keeps the contract
\* and every call it has not lost sight of.
THEOREM OutcomesAreTrue == Spec => []Truthful
<1>1. ContractInv => Truthful
  BY DEF ContractInv
<1> QED  BY <1>1, ContractInvariance, PTL

\* A settled call is not settled again and does not run afterwards.
THEOREM OutcomesAreFinal == Spec => SettledOnce
<1>1. ContractInv /\ [Next]_vars => [\A c \in Calls : status[c] \in Outcomes =>
                                        /\ status'[c] = status[c]
                                        /\ c \in ran' => c \in ran]_vars
  <2> SUFFICES ASSUME ContractInv, Next, NEW d \in Calls, status[d] \in Outcomes
               PROVE  status'[d] = status[d] /\ (d \in ran' => d \in ran)
    OBVIOUS
  <2> USE DEF ContractInv, TypeOK, Pending, Outcomes, Answers, NeverRan, GaveUp
  <2>1. ASSUME NEW c \in Calls, Submit(c) \/ TurnAway(c) PROVE status'[d] = status[d] /\ (d \in ran' => d \in ran)
    BY <2>1 DEF Submit, TurnAway
  <2>2. ASSUME NEW c \in Calls, Signal(c) \/ Run(c) \/ LoseSight(c) \/ Answer(c) PROVE status'[d] = status[d] /\ (d \in ran' => d \in ran)
    BY <2>2 DEF Signal, Run, LoseSight, Answer
  <2>3. CASE GiveUp \/ Close
    BY <2>3 DEF GiveUp, Close
  <2> QED  BY <2>1, <2>2, <2>3 DEF Next
<1> QED  BY <1>1, ContractInvariance, PTL DEF Spec, SettledOnce

\* Disposing of a backend leaves no call outstanding.
THEOREM ClosedBackendsAreQuiet == Spec => []ClosedIsQuiet
<1>1. ContractInv => ClosedIsQuiet
  BY DEF ContractInv
<1> QED  BY <1>1, ContractInvariance, PTL
=============================================================================
