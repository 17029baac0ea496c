---------------------- MODULE InProcessBackend_proofs ----------------------
(***************************************************************************)
(* Proofs about InProcessBackend, for any calls and backends: that it      *)
(* implements the contract of LibBackend, and that neither a trap nor a    *)
(* load that failed is carried over to a call made later.                  *)
(***************************************************************************)
EXTENDS InProcessBackend, SequenceTheorems, TLAPS

\* Only a call that was answered has run.
RanIsAnswered == \A c \in ran : state[c] \in Answers

\* A call remembers no more failed loads than there have been.
BornBefore == \A c \in Calls : born[c] <= failed

\* Without a backend of the host's there is the default one, every call that got
\* past its door was made on it, and it knows of the trap.
OneBackend ==
  made \cap HostBackends = {} =>
    /\ configured = None /\ made \subseteq {default}
    /\ \A c \in Calls : state[c] \in Pending \cup Answers => on[c] = default /\ default \in Backends
    /\ instance = "poisoned" => default \in Backends /\ poisoned[default]
    /\ \A c \in late : state[c] \notin {"new"} \cup Pending \cup Answers

\* The ways a resumed call goes on, and the ways a call is made.
LoadFailed(c) == /\ state[c] = "failed" /\ state' = [state EXCEPT ![c] = "loadError"]
                 /\ UNCHANGED <<ran, poisoned, instance>>
GivenBack(c) == /\ state[c] = "loaded" /\ Withdrawn(c) /\ state' = [state EXCEPT ![c] = "aborted"]
                /\ UNCHANGED <<ran, poisoned, instance>>
Entered(c) == state[c] = "loaded" /\ ~Withdrawn(c) /\ ran' = ran \cup {c}
Returns(c) == Entered(c) /\ (\E o \in Answers : state' = [state EXCEPT ![c] = o]) /\ UNCHANGED <<poisoned, instance>>
Traps(c) == /\ Entered(c) /\ state' = [state EXCEPT ![c] = "error"]
            /\ poisoned' = [poisoned EXCEPT ![on[c]] = TRUE] /\ instance' = "poisoned"
TurnedAway(c, b) == /\ \E o \in {"unavailable", "refused", "aborted"} :
                         state' = [state EXCEPT ![c] = o] /\ (o = "aborted" => c \in signalled)
                    /\ UNCHANGED <<module, awaiting, tasks>>
LetIn(c, b) == /\ ~poisoned[b] /\ state' = [state EXCEPT ![c] = Found]
               /\ \/ awaiting' = Append(awaiting, c) /\ module' = "pending" /\ UNCHANGED tasks
                  \/ tasks' = Append(tasks, c) /\ UNCHANGED <<module, awaiting>>

\* The inductive invariant.
IPInv == TypeOK /\ RanIsAnswered /\ BornBefore /\ NoStaleFailure /\ OneBackend

USE DEF Answers, Pending, Outcomes

-----------------------------------------------------------------------------
(* The actions, case by case. *)

LEMMA ResumeCases ==
  ASSUME TypeOK, Resume
  PROVE  \E c \in Calls : /\ tasks' \in Seq(Calls)
                          /\ LoadFailed(c) \/ GivenBack(c) \/ Returns(c) \/ Traps(c)
                          /\ UNCHANGED <<configured, default, made, module, awaiting, on, signalled, late, failed, born>>
<1>1. Head(tasks) \in Calls /\ tasks' \in Seq(Calls)
  BY HeadTailProperties DEF Resume, TypeOK
<1>2. LoadFailed(Head(tasks)) \/ GivenBack(Head(tasks)) \/ Returns(Head(tasks)) \/ Traps(Head(tasks))
  BY DEF Resume, LoadFailed, GivenBack, Entered, Returns, Traps
<1> QED  BY <1>1, <1>2 DEF Resume

LEMMA CallRawCases ==
  ASSUME NEW c \in Calls, CallRaw(c)
  PROVE  /\ state[c] = "new"
         /\ \E b \in Backends : /\ GetBackend(b) /\ on' = [on EXCEPT ![c] = b]
                                /\ TurnedAway(c, b) \/ LetIn(c, b)
         /\ late' = IF instance = "poisoned" THEN late \cup {c} ELSE late
         /\ born' = [born EXCEPT ![c] = failed]
         /\ UNCHANGED <<configured, poisoned, signalled, instance, ran, failed>>
<1>1. PICK b \in Backends :
        /\ GetBackend(b) /\ on' = [on EXCEPT ![c] = b]
        /\ \/ /\ state' = [state EXCEPT ![c] = "unavailable"] /\ UNCHANGED <<module, awaiting, tasks>>
           \/ /\ state' = [state EXCEPT ![c] = "refused"] /\ UNCHANGED <<module, awaiting, tasks>>
           \/ /\ c \in signalled
              /\ state' = [state EXCEPT ![c] = "aborted"] /\ UNCHANGED <<module, awaiting, tasks>>
           \/ /\ ~poisoned[b] /\ state' = [state EXCEPT ![c] = Found]
              /\ IF Found = "awaiting"
                 THEN awaiting' = Append(awaiting, c) /\ module' = "pending" /\ UNCHANGED tasks
                 ELSE tasks' = Append(tasks, c) /\ UNCHANGED <<module, awaiting>>
  BY DEF CallRaw, Refuses
<1>2. TurnedAway(c, b) \/ LetIn(c, b)
  BY <1>1 DEF TurnedAway, LetIn
<1> QED  BY <1>1, <1>2 DEF CallRaw

\* A load that settles hands over the calls that wait for it.
LEMMA SettlesCases ==
  ASSUME LoadSettles
  PROVE  \E as \in {"loaded", "failed"} :
           /\ Settles(as)
           /\ as = "loaded" => module' = "loaded" /\ failed' = failed
           /\ as = "failed" => module' = "none" /\ failed < MaxFailed /\ failed' = failed + 1
BY DEF LoadSettles, Forgotten

-----------------------------------------------------------------------------
(* Type correctness. *)

LEMMA TypeInit == ASSUME InProcessAssumption, Init PROVE TypeOK
BY DEF Init, TypeOK, InProcessAssumption

LEMMA TypeStep == ASSUME InProcessAssumption, TypeOK, [Next]_vars PROVE TypeOK'
<1> USE DEF TypeOK, InProcessAssumption
<1>1. ASSUME NEW b \in Backends, Create(b) PROVE TypeOK'
  BY <1>1 DEF Create
<1>2. ASSUME NEW b \in Backends, Configure(b) PROVE TypeOK'
  BY <1>2 DEF Configure
<1>3. CASE ResetConfig
  BY <1>3 DEF ResetConfig, DefaultAfterReset
<1>4. CASE LoadSettles
  <2>1. PICK as \in {"loaded", "failed"} :
          /\ Settles(as)
          /\ as = "loaded" => module' = "loaded" /\ failed' = failed
          /\ as = "failed" => module' = "none" /\ failed < MaxFailed /\ failed' = failed + 1
    BY <1>4, SettlesCases
  <2>2. tasks' \in Seq(Calls) /\ awaiting' \in Seq(Calls)
    BY <2>1, ConcatProperties DEF Settles
  <2>3. state' \in [Calls -> {"new"} \cup Pending \cup Outcomes]
    BY <2>1 DEF Settles
  <2>4. module' \in {"none", "pending", "loaded"}
    BY <2>1
  <2>5. failed' \in 0..MaxFailed
    <3>1. failed' = failed \/ (failed < MaxFailed /\ failed' = failed + 1)
      BY <2>1
    <3> QED  BY <3>1
  <2> QED  BY <1>4, <2>2, <2>3, <2>4, <2>5 DEF LoadSettles
<1>5. CASE Resume
  <2>1. PICK c \in Calls : /\ tasks' \in Seq(Calls)
                           /\ LoadFailed(c) \/ GivenBack(c) \/ Returns(c) \/ Traps(c)
                           /\ UNCHANGED <<configured, default, made, module, awaiting, on, signalled, late, failed, born>>
    BY <1>5, ResumeCases
  <2>2. state' \in [Calls -> {"new"} \cup Pending \cup Outcomes] /\ ran' \subseteq Calls
    <3>1. CASE LoadFailed(c)
      BY <3>1 DEF LoadFailed
    <3>2. CASE GivenBack(c)
      BY <3>2 DEF GivenBack
    <3>3. CASE Returns(c)
      BY <3>3 DEF Returns, Entered
    <3>4. CASE Traps(c)
      BY <3>4 DEF Traps, Entered
    <3> QED  BY <2>1, <3>1, <3>2, <3>3, <3>4
  <2>3. poisoned' \in [Backends -> BOOLEAN] /\ instance' \in {"sound", "poisoned"}
    BY <2>1 DEF LoadFailed, GivenBack, Returns, Traps
  <2>4. tasks' \in Seq(Calls)
    BY <2>1
  <2> QED  BY <1>5, <2>2, <2>3, <2>4 DEF Resume
<1>6. CASE Warm
  BY <1>6 DEF Warm
<1>7. ASSUME NEW c \in Calls, CallRaw(c) PROVE TypeOK'
  <2>1. PICK b \in Backends : GetBackend(b) /\ on' = [on EXCEPT ![c] = b] /\ (TurnedAway(c, b) \/ LetIn(c, b))
    BY <1>7, CallRawCases
  <2>2. default' \in Backends \cup {None} /\ made' \subseteq Backends
    BY <2>1 DEF GetBackend
  <2>3. state' \in [Calls -> {"new"} \cup Pending \cup Outcomes]
    BY <2>1 DEF Found, TurnedAway, LetIn
  <2>4. module' \in {"none", "pending", "loaded"} /\ awaiting' \in Seq(Calls) /\ tasks' \in Seq(Calls)
    <3>1. Append(awaiting, c) \in Seq(Calls) /\ Append(tasks, c) \in Seq(Calls)
      BY AppendProperties
    <3> QED  BY <2>1, <3>1 DEF TurnedAway, LetIn
  <2>5. late' \subseteq Calls /\ born' \in [Calls -> 0..MaxFailed]
    <3>1. late' = (IF instance = "poisoned" THEN late \cup {c} ELSE late) /\ born' = [born EXCEPT ![c] = failed]
      BY <1>7, CallRawCases
    <3> QED  BY <3>1
  <2>6. on' \in [Calls -> Backends \cup {None}]
    BY <2>1
  <2>7. UNCHANGED <<configured, poisoned, signalled, instance, ran, failed>>
    BY <1>7, CallRawCases
  <2> QED  BY <2>2, <2>3, <2>4, <2>5, <2>6, <2>7
<1>8. ASSUME NEW c \in Calls, Abort(c) PROVE TypeOK'
  BY <1>8 DEF Abort
<1>9. CASE UNCHANGED vars
  BY <1>9 DEF vars
<1> QED  BY <1>1, <1>2, <1>3, <1>4, <1>5, <1>6, <1>7, <1>8, <1>9 DEF Next

-----------------------------------------------------------------------------
(* The inductive invariant. *)

LEMMA InvInit == ASSUME InProcessAssumption, Init PROVE IPInv
BY TypeInit DEF Init, IPInv, RanIsAnswered, BornBefore, NoStaleFailure, OneBackend

LEMMA AnsweredStep == ASSUME TypeOK, RanIsAnswered, [Next]_vars PROVE RanIsAnswered'
<1> USE DEF RanIsAnswered
<1>1. CASE LoadSettles
  BY <1>1, SettlesCases DEF Settles, LoadSettles, TypeOK
<1>2. CASE Resume
  <2>1. PICK c \in Calls : /\ LoadFailed(c) \/ GivenBack(c) \/ Returns(c) \/ Traps(c)
    BY <1>2, ResumeCases
  <2>2. ASSUME LoadFailed(c) \/ GivenBack(c) PROVE RanIsAnswered'
    <3>1. c \notin ran /\ ran' = ran
      BY <2>2 DEF LoadFailed, GivenBack
    <3>2. \A d \in Calls \ {c} : state'[d] = state[d]
      BY <2>2 DEF LoadFailed, GivenBack, TypeOK
    <3> QED  BY <3>1, <3>2 DEF TypeOK
  <2>3. ASSUME Returns(c) \/ Traps(c) PROVE RanIsAnswered'
    <3>1. ran' = ran \cup {c} /\ \E o \in Answers : state' = [state EXCEPT ![c] = o]
      BY <2>3 DEF Returns, Traps, Entered
    <3>2. state'[c] \in Answers /\ \A d \in Calls \ {c} : state'[d] = state[d]
      BY <3>1 DEF TypeOK
    <3> QED  BY <3>1, <3>2 DEF TypeOK
  <2> QED  BY <2>1, <2>2, <2>3
<1>3. ASSUME NEW c \in Calls, CallRaw(c) PROVE RanIsAnswered'
  <2>1. state[c] = "new" /\ ran' = ran
    BY <1>3, CallRawCases
  <2>2. \E o : state' = [state EXCEPT ![c] = o]
    <3>1. PICK b \in Backends : TurnedAway(c, b) \/ LetIn(c, b)
      BY <1>3, CallRawCases
    <3> QED  BY <3>1 DEF TurnedAway, LetIn
  <2>3. \A d \in Calls \ {c} : state'[d] = state[d]
    BY <2>2 DEF TypeOK
  <2> QED  BY <2>1, <2>3 DEF TypeOK
<1> QED
  BY <1>1, <1>2, <1>3 DEF Next, Create, Configure, ResetConfig, Warm, Abort, vars

LEMMA LoadsStep ==
  ASSUME TypeOK, BornBefore, NoStaleFailure, [Next]_vars PROVE BornBefore' /\ NoStaleFailure'
<1> USE DEF BornBefore, NoStaleFailure
<1>1. CASE LoadSettles
  <2>1. PICK as \in {"loaded", "failed"} :
          /\ Settles(as) /\ born' = born
          /\ as = "loaded" => failed' = failed
          /\ as = "failed" => failed' = failed + 1
    BY <1>1, SettlesCases DEF LoadSettles
  <2>2. failed \in Nat /\ failed' \in Nat /\ failed' >= failed /\ \A c \in Calls : born[c] \in Nat
    <3>1. failed \in Nat /\ \A c \in Calls : born[c] \in Nat
      BY DEF TypeOK
    <3>2. failed' = failed \/ failed' = failed + 1
      BY <2>1
    <3> QED  BY <3>1, <3>2
  <2>3. BornBefore'
    BY <2>1, <2>2
  <2>4. ASSUME NEW c \in Calls, state'[c] \in {"failed", "loadError"} PROVE failed' > born'[c]
    <3>1. CASE state[c] = "awaiting"
      <4>1. as = "failed"
        BY <2>1, <2>4, <3>1 DEF Settles
      <4> QED  BY <2>1, <2>2, <4>1
    <3>2. CASE state[c] # "awaiting"
      BY <2>1, <2>2, <2>4, <3>2 DEF Settles
    <3> QED  BY <3>1, <3>2
  <2> QED  BY <2>3, <2>4
<1>2. CASE Resume
  <2>1. PICK c \in Calls : /\ LoadFailed(c) \/ GivenBack(c) \/ Returns(c) \/ Traps(c)
                           /\ UNCHANGED <<failed, born>>
    BY <1>2, ResumeCases
  <2>2. state[c] = "failed" \/ state'[c] \notin {"failed", "loadError"}
    BY <2>1 DEF LoadFailed, GivenBack, Returns, Traps, Entered, TypeOK
  <2>3. \A d \in Calls \ {c} : state'[d] = state[d]
    BY <2>1 DEF LoadFailed, GivenBack, Returns, Traps, TypeOK
  <2> QED  BY <2>1, <2>2, <2>3
<1>3. ASSUME NEW c \in Calls, CallRaw(c) PROVE BornBefore' /\ NoStaleFailure'
  <2>1. /\ state'[c] \notin {"failed", "loadError"} /\ \A d \in Calls \ {c} : state'[d] = state[d]
        /\ failed' = failed /\ born' = [born EXCEPT ![c] = failed]
    BY <1>3, CallRawCases DEF TurnedAway, LetIn, Found, TypeOK
  <2> QED  BY <2>1 DEF TypeOK
<1> QED
  BY <1>1, <1>2, <1>3 DEF Next, Create, Configure, ResetConfig, Warm, Abort, vars

LEMMA OneBackendStep ==
  ASSUME InProcessAssumption, TypeOK, OneBackend, [Next]_vars PROVE OneBackend'
<1> SUFFICES ASSUME made' \cap HostBackends = {}
             PROVE  /\ configured' = None /\ made' \subseteq {default'}
                    /\ \A c \in Calls : state'[c] \in Pending \cup Answers => on'[c] = default' /\ default' \in Backends
                    /\ instance' = "poisoned" => default' \in Backends /\ poisoned'[default']
                    /\ \A c \in late' : state'[c] \notin {"new"} \cup Pending \cup Answers
  BY DEF OneBackend
<1>1. made \subseteq made'
  BY DEF Next, Create, Configure, ResetConfig, LoadSettles, Resume, Warm, CallRaw, GetBackend, Abort, vars
<1>2. /\ configured = None /\ made \subseteq {default}
      /\ \A c \in Calls : state[c] \in Pending \cup Answers => on[c] = default /\ default \in Backends
      /\ instance = "poisoned" => default \in Backends /\ poisoned[default]
      /\ \A c \in late : state[c] \notin {"new"} \cup Pending \cup Answers
  BY <1>1 DEF OneBackend
<1>3. ASSUME NEW b \in Backends, Create(b) PROVE FALSE
  BY <1>3 DEF Create
<1>4. ASSUME NEW b \in Backends, Configure(b) PROVE FALSE
  BY <1>2, <1>4 DEF Configure
<1>5. CASE LoadSettles
  <2>1. /\ \A c \in Calls : state[c] = "awaiting" => state'[c] \in Pending
        /\ \A c \in Calls : state[c] # "awaiting" => state'[c] = state[c]
    BY <1>5, SettlesCases DEF Settles
  <2>2. UNCHANGED <<configured, default, made, poisoned, on, instance, late>>
    BY <1>5 DEF LoadSettles
  <2> QED  BY <1>2, <2>1, <2>2 DEF TypeOK
<1>6. CASE Resume
  <2>1. PICK c \in Calls : /\ LoadFailed(c) \/ GivenBack(c) \/ Returns(c) \/ Traps(c)
                           /\ UNCHANGED <<configured, default, made, on, late>>
    BY <1>6, ResumeCases
  <2>2. state[c] \in Pending /\ \A d \in Calls \ {c} : state'[d] = state[d]
    BY <2>1 DEF LoadFailed, GivenBack, Returns, Traps, Entered, TypeOK
  <2>3. on[c] = default /\ default \in Backends /\ c \notin late
    BY <1>2, <2>2
  <2>4. instance' = "poisoned" => default' \in Backends /\ poisoned'[default']
    <3>1. CASE Traps(c)
      BY <2>1, <2>3, <3>1 DEF Traps, TypeOK
    <3>2. CASE ~Traps(c)
      BY <1>2, <2>1, <3>2 DEF LoadFailed, GivenBack, Returns
    <3> QED  BY <3>1, <3>2
  <2> QED  BY <1>2, <2>1, <2>2, <2>3, <2>4 DEF TypeOK
<1>7. ASSUME NEW c \in Calls, CallRaw(c)
      PROVE  /\ configured' = None /\ made' \subseteq {default'}
             /\ \A d \in Calls : state'[d] \in Pending \cup Answers => on'[d] = default' /\ default' \in Backends
             /\ instance' = "poisoned" => default' \in Backends /\ poisoned'[default']
             /\ \A d \in late' : state'[d] \notin {"new"} \cup Pending \cup Answers
  <2>1. PICK b \in Backends : GetBackend(b) /\ on' = [on EXCEPT ![c] = b] /\ (TurnedAway(c, b) \/ LetIn(c, b))
    BY <1>7, CallRawCases
  <2>2. /\ state[c] = "new" /\ UNCHANGED <<configured, poisoned, instance>>
        /\ late' = IF instance = "poisoned" THEN late \cup {c} ELSE late
    BY <1>7, CallRawCases
  <2>3. b = default' /\ made' \subseteq {default'} /\ (default = None \/ default' = default)
    BY <1>2, <2>1, <2>2 DEF GetBackend, TypeOK, InProcessAssumption
  <2>4. \A d \in Calls \ {c} : state'[d] = state[d] /\ on'[d] = on[d]
    BY <2>1 DEF TurnedAway, LetIn, TypeOK
  <2>5. on'[c] = default'
    BY <2>1, <2>3 DEF TypeOK
  <2>6. \A d \in Calls \ {c} : state[d] \in Pending \cup Answers => on'[d] = default'
    <3>1. CASE default = None
      BY <1>2, <2>4, <3>1
    <3> QED  BY <1>2, <2>3, <2>4, <3>1
  <2>7. instance = "poisoned" => default' = default /\ poisoned[default] /\ default \in Backends
    BY <1>2, <2>3 DEF InProcessAssumption
  <2>8. instance = "poisoned" => state'[c] \notin {"new"} \cup Pending \cup Answers
    BY <2>1, <2>3, <2>7 DEF TurnedAway, LetIn, TypeOK
  <2>9. c \notin late
    BY <1>2, <2>2
  <2> QED  BY <1>2, <2>2, <2>3, <2>4, <2>5, <2>6, <2>7, <2>8, <2>9 DEF TypeOK
<1>8. CASE ResetConfig
  BY <1>2, <1>8 DEF ResetConfig, DefaultAfterReset
<1>9. CASE Warm
  BY <1>2, <1>9 DEF Warm
<1>10. ASSUME NEW c \in Calls, Abort(c)
       PROVE  UNCHANGED <<configured, default, made, poisoned, state, on, instance, late>>
  BY <1>10 DEF Abort
<1>11. CASE UNCHANGED vars
  BY <1>2, <1>11 DEF vars
<1> QED  BY <1>2, <1>3, <1>4, <1>5, <1>6, <1>7, <1>8, <1>9, <1>10, <1>11 DEF Next

LEMMA InvStep == ASSUME InProcessAssumption, IPInv, [Next]_vars PROVE IPInv'
BY TypeStep, AnsweredStep, LoadsStep, OneBackendStep DEF IPInv

-----------------------------------------------------------------------------
(* What follows for every call. *)

\* createInProcessBackend keeps its invariant, with the types of its state.
THEOREM InProcessInvariance == ASSUME InProcessAssumption PROVE Spec => [](TypeOK /\ IPInv)
<1>1. Init => IPInv
  BY InvInit
<1>2. IPInv /\ [Next]_vars => IPInv'
  BY InvStep
<1>3. IPInv => TypeOK /\ IPInv
  BY DEF IPInv
<1> QED  BY <1>1, <1>2, <1>3, PTL DEF Spec

\* A trap refuses every later call of the default backend.
THEOREM TrapsAreRemembered == ASSUME InProcessAssumption PROVE Spec => []LateNeverRuns
<1>1. IPInv => LateNeverRuns
  BY DEF IPInv, TypeOK, OneBackend, RanIsAnswered, LateNeverRuns
<1> QED  BY <1>1, InProcessInvariance, PTL

\* A call fails to load only by a load that failed after it was made.
THEOREM RejectionsAreNotCached == ASSUME InProcessAssumption PROVE Spec => []NoStaleFailure
<1>1. IPInv => NoStaleFailure
  BY DEF IPInv
<1> QED  BY <1>1, InProcessInvariance, PTL

\* A call whose signal fired before it was entered is not entered.
THEOREM WithdrawnCallsStayOut == ASSUME InProcessAssumption PROVE Spec => WithdrawnNeverRuns
<1>1. ASSUME IPInv, [Next]_vars PROVE [\A c \in ran' \ ran : c \notin signalled]_vars
  <2>1. CASE Resume
    <3>1. PICK c \in Calls : LoadFailed(c) \/ GivenBack(c) \/ Returns(c) \/ Traps(c)
      BY <1>1, <2>1, ResumeCases DEF IPInv
    <3> QED  BY <3>1 DEF LoadFailed, GivenBack, Returns, Traps, Entered, Withdrawn
  <2>2. CASE ~Resume
    <3>1. ran' = ran
      BY <1>1, <2>2 DEF Next, Create, Configure, ResetConfig, LoadSettles, Warm, CallRaw, Abort, vars
    <3> QED  BY <3>1
  <2> QED  BY <2>1, <2>2
<1> QED  BY <1>1, InProcessInvariance, PTL DEF Spec, WithdrawnNeverRuns

-----------------------------------------------------------------------------
(* The contract of callRaw. *)

\* What the host sees of a call.
Seen == [c \in Calls |-> IF state[c] \in Pending THEN "pending"
                         ELSE IF state[c] = "loadError" THEN "unavailable" ELSE state[c]]

\* The steps of the contract that settle one call.
LEMMA OneAnswered ==
  ASSUME NEW c \in Calls, NEW o \in Answers, Seen[c] = "pending",
         Seen' = [Seen EXCEPT ![c] = o], ran' = ran \cup {c}, UNCHANGED signalled
  PROVE  Contract!Next
<1>1. Contract!Answer(c)
  BY DEF Seen, Contract!Answer, Contract!Answers, Contract!Pending
<1> QED  BY <1>1 DEF Contract!Next

LEMMA OneGivenUp ==
  ASSUME NEW c \in Calls, NEW o \in {"aborted", "unavailable"}, Seen[c] = "pending", c \notin ran,
         o = "aborted" => c \in signalled,
         Seen' = [d \in Calls |-> IF d = c THEN o ELSE Seen[d]], UNCHANGED <<ran, signalled>>
  PROVE  Contract!Next
<1> DEFINE why == [d \in {c} |-> o]
<1>1. /\ {c} \in SUBSET Contract!Pending
      /\ why \in [{c} -> Contract!NeverRan \cup Contract!GaveUp] /\ why[c] = o
  BY DEF Seen, Contract!Pending, Contract!NeverRan, Contract!GaveUp
<1>2. Seen' = [d \in Calls |-> IF d \in {c} THEN why[d] ELSE Seen[d]]
  OBVIOUS
<1>k. \A d \in Contract!KnownToRun : d \in ran
  BY DEF Contract!KnownToRun
<1>3. \E S \in SUBSET Contract!Pending : \E w \in [S -> Contract!NeverRan \cup Contract!GaveUp] :
        /\ \A d \in S : (w[d] \in Contract!NeverRan => d \notin Contract!KnownToRun) /\ (w[d] = "aborted" => d \in signalled)
        /\ Seen' = [d \in Calls |-> IF d \in S THEN w[d] ELSE Seen[d]]
        /\ UNCHANGED <<ran, signalled>>
  <2> USE <1>1, <1>k
  <2> HIDE DEF why, Seen
  <2> WITNESS {c} \in SUBSET Contract!Pending
  <2> WITNESS why \in [{c} -> Contract!NeverRan \cup Contract!GaveUp]
  <2> QED  BY <1>1, <1>2, <1>k
<1>4. Contract!GiveUp
  BY <1>3 DEF Seen, Contract!GiveUp
<1> QED  BY <1>4 DEF Contract!Next

\* Every step of the backend is a step of the contract, or one the host does not see.
LEMMA StepKeepsContract ==
  ASSUME InProcessAssumption, IPInv, [Next]_vars PROVE [Contract!Next]_(Contract!vars)
<1> USE DEF Contract!Answers, Contract!NeverRan, Contract!GaveUp, Contract!Outcomes, Contract!Pending, Contract!KnownToRun
<1> SUFFICES [Contract!Next]_<<Seen, ran, {}, signalled, FALSE>>
  BY DEF Contract!vars, Seen
<1>1. \A c \in Calls : state[c] \in {"new"} \cup Pending \cup Outcomes
  BY DEF IPInv, TypeOK
<1>2. \A c \in Calls : state[c] \in Pending => c \notin ran
  BY DEF IPInv, RanIsAnswered
<1>3. CASE LoadSettles
  <2>1. Seen' = Seen
    BY <1>3, SettlesCases DEF Settles, Seen
  <2> QED  BY <1>3, <2>1 DEF LoadSettles
<1>4. CASE Resume
  <2>1. PICK c \in Calls : /\ LoadFailed(c) \/ GivenBack(c) \/ Returns(c) \/ Traps(c)
                           /\ UNCHANGED signalled
    BY <1>4, ResumeCases DEF IPInv
  <2>2. state[c] \in Pending /\ Seen[c] = "pending" /\ c \notin ran
    BY <1>2, <2>1 DEF LoadFailed, GivenBack, Returns, Traps, Entered, Seen
  <2>3. CASE LoadFailed(c)
    <3>1. Seen' = [d \in Calls |-> IF d = c THEN "unavailable" ELSE Seen[d]] /\ ran' = ran
      BY <1>1, <2>2, <2>3 DEF LoadFailed, Seen, IPInv, TypeOK
    <3> QED  BY <2>1, <2>2, <3>1, OneGivenUp
  <2>4. CASE GivenBack(c)
    <3>1. Seen' = [d \in Calls |-> IF d = c THEN "aborted" ELSE Seen[d]] /\ ran' = ran /\ c \in signalled
      BY <1>1, <2>2, <2>4 DEF GivenBack, Withdrawn, Seen, IPInv, TypeOK
    <3> QED  BY <2>1, <2>2, <3>1, OneGivenUp
  <2>5. CASE Returns(c)
    <3>1. PICK o \in Answers : state' = [state EXCEPT ![c] = o]
      BY <2>5 DEF Returns
    <3>2. Seen' = [Seen EXCEPT ![c] = o] /\ ran' = ran \cup {c}
      BY <1>1, <2>2, <2>5, <3>1 DEF Returns, Entered, Seen, IPInv, TypeOK
    <3> QED  BY <2>1, <2>2, <3>2, OneAnswered
  <2>6. CASE Traps(c)
    <3>1. Seen' = [Seen EXCEPT ![c] = "error"] /\ ran' = ran \cup {c}
      BY <1>1, <2>2, <2>6 DEF Traps, Entered, Seen, IPInv, TypeOK
    <3> QED  BY <2>1, <2>2, <3>1, OneAnswered
  <2> QED  BY <2>1, <2>3, <2>4, <2>5, <2>6
<1>5. ASSUME NEW c \in Calls, CallRaw(c) PROVE Contract!Next
  <2>1. PICK b \in Backends : TurnedAway(c, b) \/ LetIn(c, b)
    BY <1>5, CallRawCases
  <2>2. state[c] = "new" /\ UNCHANGED <<signalled, ran>>
    BY <1>5, CallRawCases
  <2>3. CASE TurnedAway(c, b)
    <3>1. PICK o \in {"unavailable", "refused", "aborted"} :
            state' = [state EXCEPT ![c] = o] /\ (o = "aborted" => c \in signalled)
      BY <2>3 DEF TurnedAway
    <3>2. Seen' = [Seen EXCEPT ![c] = o] /\ Seen[c] = "new"
      BY <1>1, <2>2, <3>1 DEF Seen, IPInv, TypeOK
    <3> QED  BY <2>2, <3>1, <3>2 DEF Seen, Contract!Next, Contract!TurnAway
  <2>4. CASE LetIn(c, b)
    <3>1. Seen' = [Seen EXCEPT ![c] = "pending"] /\ Seen[c] = "new"
      BY <1>1, <2>2, <2>4 DEF LetIn, Found, Seen, IPInv, TypeOK
    <3> QED  BY <2>2, <3>1 DEF Seen, Contract!Next, Contract!Submit
  <2> QED  BY <2>1, <2>3, <2>4
<1>6. ASSUME NEW c \in Calls, Abort(c) PROVE Contract!Next
  <2>1. Seen' = Seen /\ ran' = ran /\ signalled' = signalled \cup {c}
    BY <1>6 DEF Abort, Seen
  <2> QED  BY <2>1 DEF Seen, Contract!Next, Contract!Signal
<1>7. ASSUME UNCHANGED <<state, ran, signalled>> PROVE UNCHANGED <<Seen, ran, signalled, FALSE>>
  BY <1>7 DEF Seen
<1> QED
  BY <1>3, <1>4, <1>5, <1>6, <1>7 DEF Next, Create, Configure, ResetConfig, Warm, vars

\* The in-process backend keeps the contract of LibBackend.
THEOREM InProcessKeepsContract == ASSUME InProcessAssumption PROVE Spec => KeepsContract
<1>1. Init => Contract!Init
  BY DEF Init, Contract!Init
<1>2. IPInv /\ [Next]_vars => [Contract!Next]_(Contract!vars)
  BY StepKeepsContract
<1> QED  BY <1>1, <1>2, InProcessInvariance, PTL DEF Spec, KeepsContract, Contract!Spec
=============================================================================
