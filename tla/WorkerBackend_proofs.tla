------------------------ MODULE WorkerBackend_proofs ------------------------
(***************************************************************************)
(* Proofs about WorkerBackend, for any number of calls, functions and      *)
(* deadlines and any faults: type correctness, the inductive invariant     *)
(* behind Accounting, WorkConserving and WorkerServesOne; and from it what *)
(* the backend owes its callers: the order calls are served in, their      *)
(* deadlines, the reference that keeps the process alive, that a waiting   *)
(* call has not run, and the contract of callRaw.                          *)
(***************************************************************************)
EXTENDS MCWorkerFailures, SequenceTheorems, TLAPS

USE DEF Calls, NoCall, Off, Infinity

-----------------------------------------------------------------------------
(* Sequences: what a queue holds after each operation on it. *)

Elems(q) == {q[i] : i \in 1..Len(q)}
Distinct(q) == \A i, j \in 1..Len(q) : q[i] = q[j] => i = j

\* Shifting the head off leaves the others, and not the head.
LEMMA TailElems ==
  ASSUME NEW S, NEW q \in Seq(S), q # <<>>
  PROVE  /\ Tail(q) \in Seq(S) /\ Head(q) \in S /\ Head(q) = q[1] /\ Len(q) \in Nat \ {0}
         /\ Len(Tail(q)) = Len(q) - 1
         /\ \A i \in 1..Len(Tail(q)) : Tail(q)[i] = q[i + 1]
         /\ Elems(q) = Elems(Tail(q)) \cup {Head(q)}
         /\ Distinct(q) => Distinct(Tail(q)) /\ Head(q) \notin Elems(Tail(q))
<1>1. /\ Tail(q) \in Seq(S) /\ Head(q) \in S /\ Head(q) = q[1] /\ Len(q) \in Nat \ {0}
      /\ Len(Tail(q)) = Len(q) - 1
      /\ \A i \in 1..Len(Tail(q)) : Tail(q)[i] = q[i + 1]
  BY HeadTailProperties, EmptySeq
<1>2. Elems(q) \subseteq Elems(Tail(q)) \cup {Head(q)}
  <2>1. SUFFICES ASSUME NEW i \in 1..Len(q), i # 1 PROVE q[i] \in Elems(Tail(q))
    BY <1>1 DEF Elems
  <2>2. i - 1 \in 1..Len(Tail(q)) /\ Tail(q)[i - 1] = q[i]
    BY <1>1, <2>1
  <2> QED  BY <2>2 DEF Elems
<1>3. Elems(Tail(q)) \cup {Head(q)} \subseteq Elems(q)
  <2>1. \A i \in 1..Len(Tail(q)) : i + 1 \in 1..Len(q)
    BY <1>1
  <2> QED  BY <1>1, <2>1 DEF Elems
<1>4. Distinct(q) => Distinct(Tail(q)) /\ Head(q) \notin Elems(Tail(q))
  <2>1. \A i \in 1..Len(Tail(q)) : i + 1 \in 1..Len(q) /\ i + 1 # 1
    BY <1>1
  <2> QED  BY <1>1, <2>1 DEF Elems, Distinct
<1> QED  BY <1>1, <1>2, <1>3, <1>4

\* A queue holds elements of its type.
LEMMA ElemsType ==
  ASSUME NEW S, NEW q \in Seq(S)
  PROVE  Elems(q) \subseteq S
<1>1. \A i \in 1..Len(q) : q[i] \in S
  BY ElementOfSeq
<1> QED  BY <1>1 DEF Elems

\* Pushing at the end, and putting back at the head.
LEMMA AppendElems ==
  ASSUME NEW S, NEW q \in Seq(S), NEW e \in S
  PROVE  /\ Append(q, e) \in Seq(S) /\ Append(q, e) # <<>>
         /\ Len(Append(q, e)) = Len(q) + 1
         /\ Append(q, e)[Len(q) + 1] = e
         /\ \A i \in 1..Len(q) : Append(q, e)[i] = q[i]
         /\ Elems(Append(q, e)) = Elems(q) \cup {e}
         /\ Distinct(q) /\ e \notin Elems(q) => Distinct(Append(q, e))
<1>1. /\ Append(q, e) \in Seq(S) /\ Len(Append(q, e)) = Len(q) + 1 /\ Len(q) \in Nat
      /\ Append(q, e)[Len(q) + 1] = e
      /\ \A i \in 1..Len(q) : Append(q, e)[i] = q[i]
  BY AppendProperties, LenProperties
<1>2. Append(q, e) # <<>>
  BY <1>1, EmptySeq
<1>3. \A i \in 1..Len(Append(q, e)) : i \in 1..Len(q) \/ i = Len(q) + 1
  BY <1>1
<1> QED  BY <1>1, <1>2, <1>3 DEF Elems, Distinct

\* Putting a call back at the head (unshift of loadFailed).
LEMMA ConsSeq ==
  ASSUME NEW S, NEW q \in Seq(S), NEW e \in S, NEW r, r = <<e>> \o q
  PROVE  /\ r \in Seq(S) /\ Len(r) = Len(q) + 1 /\ Len(q) \in Nat
         /\ 1 \in 1..Len(r) /\ r[1] = e
         /\ \A i \in 1..Len(r) : i = 1 \/ (i - 1 \in 1..Len(q) /\ r[i] = q[i - 1])
         /\ \A i \in 1..Len(q) : i + 1 \in 1..Len(r) /\ r[i + 1] = q[i]
<1>1. <<e>> \in Seq(S) /\ Len(<<e>>) = 1 /\ <<e>>[1] = e /\ Len(q) \in Nat
  BY LenProperties
<1>2. /\ r \in Seq(S) /\ Len(r) = Len(q) + 1
      /\ \A i \in 1..Len(q) + 1 : r[i] = IF i <= 1 THEN e ELSE q[i - 1]
  BY <1>1, ConcatProperties
<1> QED  BY <1>1, <1>2

LEMMA ConsElems ==
  ASSUME NEW S, NEW q \in Seq(S), NEW e \in S
  PROVE  /\ <<e>> \o q \in Seq(S)
         /\ Elems(<<e>> \o q) = Elems(q) \cup {e}
         /\ Distinct(q) /\ e \notin Elems(q) => Distinct(<<e>> \o q)
<1> DEFINE r == <<e>> \o q
<1>1. /\ r \in Seq(S) /\ Len(r) = Len(q) + 1 /\ Len(q) \in Nat
      /\ 1 \in 1..Len(r) /\ r[1] = e
      /\ \A i \in 1..Len(r) : i = 1 \/ (i - 1 \in 1..Len(q) /\ r[i] = q[i - 1])
      /\ \A i \in 1..Len(q) : i + 1 \in 1..Len(r) /\ r[i + 1] = q[i]
  BY ConsSeq
<1> HIDE DEF r
<1>2. \A i \in 1..Len(q) : q[i] \in Elems(r)
  BY <1>1 DEF Elems
<1>3. \A i \in 1..Len(r) : r[i] = e \/ r[i] \in Elems(q)
  BY <1>1 DEF Elems
<1>4. Elems(r) = Elems(q) \cup {e}
  <2>1. Elems(r) \subseteq Elems(q) \cup {e}
    BY <1>3 DEF Elems
  <2>2. e \in Elems(r)
    BY <1>1 DEF Elems
  <2>3. Elems(q) \subseteq Elems(r)
    BY <1>2 DEF Elems
  <2> QED  BY <2>1, <2>2, <2>3
<1>5. ASSUME Distinct(q), e \notin Elems(q) PROVE Distinct(r)
  <2>1. SUFFICES ASSUME NEW i \in 1..Len(r), NEW j \in 1..Len(r), r[i] = r[j] PROVE i = j
    BY DEF Distinct
  <2>2. CASE i = 1 \/ j = 1
    BY <1>1, <1>5, <2>1, <2>2 DEF Elems
  <2>3. CASE i # 1 /\ j # 1
    <3>1. i - 1 \in 1..Len(q) /\ j - 1 \in 1..Len(q) /\ q[i - 1] = q[j - 1]
      BY <1>1, <2>1, <2>3
    <3>2. i - 1 = j - 1
      BY <1>5, <3>1 DEF Distinct
    <3> QED  BY <3>2
  <2> QED  BY <2>2, <2>3
<1> QED  BY <1>1, <1>4, <1>5 DEF r

\* Splicing one call out.
LEMMA SpliceSeq ==
  ASSUME queue \in Seq(Calls), NEW i \in 1..Len(queue)
  PROVE  /\ Splice(i) \in Seq(Calls) /\ Len(Splice(i)) = Len(queue) - 1 /\ Len(queue) \in Nat
         /\ \A k \in 1..Len(queue) - 1 : Splice(i)[k] = IF k < i THEN queue[k] ELSE queue[k + 1]
<1> DEFINE q == queue
           a == SubSeq(q, 1, i - 1)
           b == SubSeq(q, i + 1, Len(q))
           r == a \o b
<1>1. Len(q) \in Nat /\ \A k \in 1..Len(q) : q[k] \in Calls
  BY LenProperties, ElementOfSeq
<1>2. /\ a \in Seq(Calls) /\ Len(a) = i - 1
      /\ \A k \in 1..i - 1 : a[k] = q[k]
  BY <1>1, SubSeqProperties, 1 \in Int, i - 1 \in Int
<1>3. /\ b \in Seq(Calls) /\ Len(b) = Len(q) - i
      /\ \A k \in 1..Len(q) - i : b[k] = q[i + k]
  <2>1. \A k \in (i + 1)..Len(q) : q[k] \in Calls
    BY <1>1
  <2>2. /\ b \in Seq(Calls) /\ Len(b) = IF i + 1 <= Len(q) THEN Len(q) - (i + 1) + 1 ELSE 0
        /\ \A k \in 1..Len(q) - (i + 1) + 1 : b[k] = q[(i + 1) + k - 1]
    BY <1>1, <2>1, SubSeqProperties, i + 1 \in Int
  <2> QED  BY <2>2, <1>1
<1>4. /\ r \in Seq(Calls) /\ Len(r) = Len(q) - 1
      /\ \A k \in 1..Len(q) - 1 : r[k] = IF k < i THEN q[k] ELSE q[k + 1]
  <2>1. /\ r \in Seq(Calls) /\ Len(r) = Len(a) + Len(b)
        /\ \A k \in 1..Len(a) + Len(b) : r[k] = IF k <= Len(a) THEN a[k] ELSE b[k - Len(a)]
    BY <1>2, <1>3, ConcatProperties
  <2> HIDE DEF a, b, r, q
  <2>2. Len(r) = Len(q) - 1
    BY <2>1, <1>1, <1>2, <1>3
  <2>3. ASSUME NEW k \in 1..Len(q) - 1 PROVE r[k] = IF k < i THEN q[k] ELSE q[k + 1]
    <3>1. r[k] = IF k <= i - 1 THEN a[k] ELSE b[k - (i - 1)]
      BY <2>1, <1>1, <1>2, <1>3
    <3>2. CASE k < i
      BY <3>1, <3>2, <1>1, <1>2
    <3>3. CASE k >= i
      <4>1. k - (i - 1) \in 1..Len(q) - i /\ i + (k - (i - 1)) = k + 1
        BY <3>3, <1>1
      <4>2. r[k] = b[k - (i - 1)]
        BY <3>1, <3>3, <1>1
      <4>3. b[k - (i - 1)] = q[k + 1]
        BY <4>1, <1>3
      <4> QED  BY <3>3, <4>2, <4>3, <1>1
    <3> QED  BY <3>2, <3>3, <1>1
  <2> QED  BY <2>1, <2>2, <2>3
<1> QED  BY <1>1, <1>4 DEF Splice

LEMMA SpliceElems ==
  ASSUME queue \in Seq(Calls), NEW i \in 1..Len(queue)
  PROVE  /\ Splice(i) \in Seq(Calls)
         /\ Elems(Splice(i)) \subseteq Elems(queue)
         /\ Distinct(queue) => /\ Elems(Splice(i)) = Elems(queue) \ {queue[i]}
                               /\ Distinct(Splice(i))
<1> DEFINE q == queue
           r == Splice(i)
<1>1. /\ r \in Seq(Calls) /\ Len(r) = Len(q) - 1 /\ Len(q) \in Nat
      /\ \A k \in 1..Len(q) - 1 : r[k] = IF k < i THEN q[k] ELSE q[k + 1]
  BY SpliceSeq
<1> HIDE DEF r
<1>2. Elems(r) \subseteq Elems(q)
  <2>1. SUFFICES ASSUME NEW k \in 1..Len(r) PROVE r[k] \in Elems(q)
    BY DEF Elems
  <2>2. r[k] = IF k < i THEN q[k] ELSE q[k + 1]
    BY <1>1
  <2>3. k \in 1..Len(q) /\ k + 1 \in 1..Len(q)
    BY <1>1
  <2> QED  BY <2>2, <2>3 DEF Elems
<1>3. ASSUME Distinct(q) PROVE Elems(r) = Elems(q) \ {q[i]} /\ Distinct(r)
  <2>1. \A k \in 1..Len(q) : k # i => q[k] \in Elems(r)
    <3>1. TAKE k \in 1..Len(q)
    <3>2. CASE k < i
      BY <3>2, <1>1 DEF Elems
    <3>3. CASE k > i
      <4>1. k - 1 \in 1..Len(r) /\ r[k - 1] = q[k]
        BY <3>3, <1>1
      <4> QED  BY <4>1 DEF Elems
    <3> QED  BY <3>2, <3>3, <1>1
  <2>2. q[i] \notin Elems(r)
    BY <1>1, <1>3 DEF Elems, Distinct
  <2>3. Distinct(r)
    BY <1>1, <1>3 DEF Distinct
  <2> QED  BY <2>1, <2>2, <2>3, <1>2 DEF Elems
<1> QED  BY <1>1, <1>2, <1>3 DEF r

-----------------------------------------------------------------------------
(* Type correctness. *)

\* Every way a handler rewrites the queue leaves a queue of calls.
LEMMA QueueType ==
  ASSUME TypeOK
  PROVE  /\ \A i \in 1..Len(queue) : queue[i] \in Calls /\ Splice(i) \in Seq(Calls)
         /\ \A c \in Calls : Without(c) \in Seq(Calls) /\ Append(queue, c) \in Seq(Calls)
         /\ queue # <<>> => Head(queue) \in Calls /\ Tail(queue) \in Seq(Calls)
         /\ Requeued \in Seq(Calls)
<1>1. queue \in Seq(Calls) /\ inFlight \in Calls \cup {NoCall}
  BY DEF TypeOK, SchedulerTypes
<1>2. \A i \in 1..Len(queue) : queue[i] \in Calls /\ Splice(i) \in Seq(Calls)
  BY <1>1, SpliceElems, ElementOfSeq
<1>3. \A c \in Calls : Without(c) \in Seq(Calls)
  <2>1. TAKE c \in Calls
  <2>2. CASE c \in Queued
    <3>1. (CHOOSE i \in 1..Len(queue) : queue[i] = c) \in 1..Len(queue)
      BY <2>2 DEF Queued
    <3> QED  BY <2>2, <3>1, <1>2 DEF Without
  <2> QED  BY <2>2, <1>1 DEF Without
<1>4. Requeued \in Seq(Calls)
  BY <1>1, ConsElems DEF Requeued
<1> QED  BY <1>1, <1>2, <1>3, <1>4, TailElems, AppendElems

\* Messages and requests, taken from the head or posted at the end, keep the types of wire and inbox.
LEMMA WireType ==
  ASSUME TypeOK
  PROVE  /\ wire # <<>> => Head(wire) \in Message /\ Tail(wire) \in Seq(Message)
         /\ inbox # <<>> => Head(inbox) \in Calls /\ Tail(inbox) \in Seq(Calls)
         /\ \A m \in Message : Append(wire, m) \in Seq(Message)
         /\ \A c \in Calls : Append(inbox, c) \in Seq(Calls)
  BY TailElems, AppendElems DEF TypeOK, ProcTypes

\* What the worker posts is a message.
LEMMA PostedType ==
  ASSUME TypeOK, NEW type \in Answers \cup {"fatal", "loaded", "loadError", "died"}, NEW c \in Calls \cup {NoCall},
         Posted(type, c)
  PROVE  wire' \in Seq(Message)
<1>1. [gen |-> gen, type |-> type, call |-> c] \in Message
  BY DEF TypeOK, WorkerTypes, Message
<1> QED  BY <1>1, WireType DEF Posted

\* ensureWorker without a worker leaves the failure count and the cooldown in their types.
LEMMA NoWorkerType ==
  ASSUME TypeOK, NoWorker
  PROVE  failures' \in Nat /\ failureKind' \in {"start", "crash"} /\ forced' \in BOOLEAN /\ coolLeft' \in Nat \cup {Infinity}
<1>1. failures \in Nat /\ RetryAfter \in Nat \cup {Infinity}
  BY ConstantsAssumption DEF TypeOK, WorkerTypes
<1>2. (IF Tripped THEN 0 ELSE failures) + 1 \in Nat
  BY <1>1
<1>3. CASE UNCHANGED failureVars
  BY <1>3 DEF TypeOK, WorkerTypes, failureVars
<1>4. CASE failures' = (IF Tripped THEN 0 ELSE failures) + 1 /\ forced' = FALSE /\ failureKind' = "start" /\ coolLeft' = RetryAfter
  BY <1>1, <1>2, <1>4
<1> QED  BY <1>3, <1>4 DEF NoWorker

\* The reset that coolingDown() makes keeps the failure count a count.
LEMMA CooldownOverType ==
  ASSUME TypeOK, CooldownOver
  PROVE  failures' \in Nat /\ forced' \in BOOLEAN
<1>1. failures \in Nat /\ forced \in BOOLEAN
  BY DEF TypeOK, WorkerTypes
<1>2. CASE Tripped /\ coolLeft = 0
  <2>1. failures' = 0 /\ forced' = FALSE
    BY <1>2 DEF CooldownOver
  <2> QED  BY <2>1
<1>3. CASE ~(Tripped /\ coolLeft = 0)
  BY <1>1, <1>3 DEF CooldownOver
<1> QED  BY <1>2, <1>3

\* What a started call has waited is a number.
LEMMA DeadlineTypes ==
  ASSUME TypeOK
  PROVE  \A c \in Calls : Started(c) \in [Calls -> Int]
<1>1. Budgets \cup {Infinity} \subseteq Int
  BY ConstantsAssumption
<1>2. \A c \in Calls : budget[c] \in Int /\ left[c] \in Int
  BY <1>1 DEF TypeOK, CallTypes
<1> QED  BY <1>2 DEF TypeOK, CallTypes, Started

\* An answer that is due is the one of the call in flight.
LEMMA HeadAnswered ==
  ASSUME TypeOK, OneCallAtWorker, WorkerShape, wire # <<>>, Current(Head(wire)), IsAnswer(Head(wire))
  PROVE  1 \in Answered /\ Head(wire).call = inFlight /\ inFlight \in Calls /\ inbox = <<>>
<1>1. Head(wire) = wire[1] /\ Len(wire) \in Nat \ {0}
  BY TailElems DEF TypeOK, ProcTypes
<1>2. 1 \in Answered
  BY <1>1 DEF Current, Answered
<1>3. inFlight \in Calls \cup {NoCall} /\ Answered # {}
  BY <1>2 DEF TypeOK, SchedulerTypes
<1> QED  BY <1>1, <1>2, <1>3 DEF OneCallAtWorker

\* Every action keeps the types.
LEMMA TypeStep ==
  ASSUME TypeOK, HandlerShape, OneCallAtWorker, WorkerShape, [Next]_vars
  PROVE  TypeOK'
<1> USE DEF vars, queueVars, workerVars, failureVars, callVars, procVars, records
<1>q. \A i \in 1..Len(queue) : queue[i] \in Calls /\ Splice(i) \in Seq(Calls)
  BY QueueType
<1>t. queue # <<>> => Head(queue) \in Calls /\ Tail(queue) \in Seq(Calls)
  BY QueueType
<1>a. \A c \in Calls : Without(c) \in Seq(Calls) /\ Append(queue, c) \in Seq(Calls)
  BY QueueType
<1>r. Requeued \in Seq(Calls)
  BY QueueType
<1>e. <<>> \in Seq(Calls) /\ <<>> \in Seq(Message)
  BY EmptySeq
<1>w. wire # <<>> => Head(wire) \in Message /\ Tail(wire) \in Seq(Message)
  BY WireType
<1>i. inbox # <<>> => Head(inbox) \in Calls /\ Tail(inbox) \in Seq(Calls)
  BY WireType
<1>b. \A c \in Calls : Append(inbox, c) \in Seq(Calls)
  BY WireType
<1>k. RetryAfter \in Nat \cup {Infinity} /\ LoadTimeout \in Nat \cup {Infinity} /\ MaxCalls \in Nat
  BY ConstantsAssumption
<1>1. CASE Tick
  BY <1>1 DEF TypeOK, SchedulerTypes, WorkerTypes, CallTypes, ProcTypes, Tick, Countdown
<1>2. CASE DropOutOfTime
  BY <1>2, <1>q DEF TypeOK, SchedulerTypes, WorkerTypes, CallTypes, ProcTypes, DropOutOfTime, Settle, Stopped, Outcomes
<1>3. CASE DropDone
  BY <1>3 DEF TypeOK, SchedulerTypes, WorkerTypes, CallTypes, ProcTypes, DropDone, SyncRef
<1>4. CASE PumpTake
  <2>1. SchedulerTypes'
    BY <1>4, <1>t DEF PumpTake, TypeOK, SchedulerTypes
  <2>2. WorkerTypes'
    BY <1>4 DEF PumpTake, TypeOK, WorkerTypes
  <2>3. CallTypes'
    BY <1>4, <1>t DEF PumpTake, Settle, Stopped, Outcomes, TypeOK, CallTypes
  <2>4. ProcTypes'
    BY <1>4 DEF PumpTake, TypeOK, ProcTypes
  <2> QED  BY <2>1, <2>2, <2>3, <2>4 DEF TypeOK
<1>5. CASE PumpSpawn
  <2>1. SchedulerTypes'
    BY <1>5 DEF PumpSpawn, Spawn, TypeOK, SchedulerTypes
  <2>2. WorkerTypes'
    BY <1>5, <1>k, CooldownOverType DEF PumpSpawn, Spawn, TypeOK, WorkerTypes
  <2>3. CallTypes'
    BY <1>5 DEF PumpSpawn, Spawn, Paused, TypeOK, CallTypes
  <2>4. ProcTypes'
    BY <1>5, <1>e DEF PumpSpawn, Spawn, TypeOK, ProcTypes
  <2> QED  BY <2>1, <2>2, <2>3, <2>4 DEF TypeOK
<1>6. CASE PumpWithoutWorker
  <2>1. SchedulerTypes'
    BY <1>6 DEF PumpWithoutWorker, TypeOK, SchedulerTypes
  <2>2. WorkerTypes'
    BY <1>6, NoWorkerType DEF PumpWithoutWorker, TypeOK, WorkerTypes
  <2>3. CallTypes'
    BY <1>6 DEF PumpWithoutWorker, Settle, Stopped, Outstanding, Outcomes, HandlerShape, TypeOK, CallTypes
  <2>4. ProcTypes'
    BY <1>6 DEF PumpWithoutWorker, TypeOK, ProcTypes
  <2> QED  BY <2>1, <2>2, <2>3, <2>4 DEF TypeOK
<1>7. CASE PumpPost
  <2>1. SchedulerTypes'
    BY <1>7 DEF PumpPost, TypeOK, SchedulerTypes
  <2>2. WorkerTypes'
    BY <1>7 DEF PumpPost, TypeOK, WorkerTypes
  <2>3. CallTypes'
    <3>1. next \in Calls
      BY <1>7 DEF PumpPost, HandlerShape, TypeOK, SchedulerTypes
    <3>2. waited' \in [Calls -> Int]
      BY <1>7, <3>1, DeadlineTypes DEF PumpPost, TypeOK, CallTypes
    <3>3. ticking' \in [Calls -> BOOLEAN]
      BY <1>7, <3>1 DEF PumpPost, Stopped, Running, TypeOK, CallTypes
    <3> QED  BY <1>7, <3>2, <3>3 DEF PumpPost, TypeOK, CallTypes
  <2>4. ProcTypes'
    BY <1>7, <1>b DEF PumpPost, HandlerShape, SchedulerTypes, TypeOK, ProcTypes
  <2> QED  BY <2>1, <2>2, <2>3, <2>4 DEF TypeOK
<1>8. CASE PumpRefuseArgs
  BY <1>8 DEF TypeOK, SchedulerTypes, WorkerTypes, CallTypes, ProcTypes, PumpRefuseArgs, Settle, Stopped, Outcomes, HandlerShape
<1>9. CASE PumpPostThrows
  <2>1. SchedulerTypes'
    BY <1>9, <1>e, <1>k DEF TypeOK, SchedulerTypes, PumpPostThrows, RecordFailure, DiscardWorker
  <2>2. WorkerTypes'
    BY <1>9, <1>e, <1>k DEF TypeOK, SchedulerTypes, WorkerTypes, PumpPostThrows, RecordFailure, DiscardWorker
  <2>3. CallTypes'
    BY <1>9, <1>e, <1>k DEF TypeOK, SchedulerTypes, CallTypes, PumpPostThrows, Settle, Stopped, Outcomes, HandlerShape
  <2>4. ProcTypes'
    BY <1>9, <1>e, <1>k DEF TypeOK, SchedulerTypes, ProcTypes, PumpPostThrows, DiscardWorker, Undelivered
  <2> QED  BY <2>1, <2>2, <2>3, <2>4 DEF TypeOK
<1>10. CASE PumpDone
  <2>1. SchedulerTypes'
    BY <1>10 DEF PumpDone, TypeOK, SchedulerTypes
  <2>2. WorkerTypes'
    BY <1>10 DEF PumpDone, SyncRef, TypeOK, WorkerTypes
  <2>3. CallTypes'
    BY <1>10 DEF PumpDone, Running, TypeOK, CallTypes
  <2>4. ProcTypes'
    BY <1>10 DEF PumpDone, TypeOK, ProcTypes
  <2> QED  BY <2>1, <2>2, <2>3, <2>4 DEF TypeOK
<1>11. CASE WaitersSpawn
  <2>1. SchedulerTypes'
    BY <1>11 DEF WaitersSpawn, Spawn, TypeOK, SchedulerTypes
  <2>2. WorkerTypes'
    BY <1>11, <1>k, CooldownOverType DEF WaitersSpawn, Spawn, TypeOK, WorkerTypes
  <2>3. CallTypes'
    BY <1>11 DEF WaitersSpawn, Spawn, Paused, TypeOK, CallTypes
  <2>4. ProcTypes'
    BY <1>11, <1>e DEF WaitersSpawn, Spawn, TypeOK, ProcTypes
  <2> QED  BY <2>1, <2>2, <2>3, <2>4 DEF TypeOK
<1>12. CASE WaitersWithoutWorker
  <2>1. SchedulerTypes'
    BY <1>12 DEF WaitersWithoutWorker, TypeOK, SchedulerTypes
  <2>2. WorkerTypes'
    BY <1>12, NoWorkerType DEF WaitersWithoutWorker, TypeOK, WorkerTypes
  <2>3. CallTypes'
    BY <1>12 DEF WaitersWithoutWorker, TypeOK, CallTypes
  <2>4. ProcTypes'
    BY <1>12 DEF WaitersWithoutWorker, TypeOK, ProcTypes
  <2> QED  BY <2>1, <2>2, <2>3, <2>4 DEF TypeOK
<1>13. ASSUME NEW f \in Fns, NEW b \in Budgets, CallRaw(f, b) PROVE TypeOK'
  <2>1. SchedulerTypes'
    BY <1>13, <1>a, <1>k DEF CallRaw, CallTypes, TypeOK, SchedulerTypes
  <2>2. WorkerTypes'
    BY <1>13 DEF CallRaw, TypeOK, WorkerTypes
  <2>3. CallTypes'
    BY <1>13, <1>k, ConstantsAssumption DEF CallRaw, Outstanding, TypeOK, CallTypes
  <2>4. ProcTypes'
    BY <1>13 DEF CallRaw, TypeOK, ProcTypes
  <2> QED  BY <2>1, <2>2, <2>3, <2>4 DEF TypeOK
<1>14. CASE CallRawTurnedAway
  <2>1. SchedulerTypes'
    BY <1>14 DEF CallRawTurnedAway, TypeOK, SchedulerTypes
  <2>2. WorkerTypes'
    BY <1>14 DEF CallRawTurnedAway, TypeOK, WorkerTypes
  <2>3. CallTypes'
    <3>1. submitted + 1 \in Calls /\ submitted' = submitted + 1
      BY <1>14, <1>k DEF CallRawTurnedAway, TypeOK, CallTypes
    <3>2. phase' \in [Calls -> {"new"} \cup Outstanding \cup Outcomes]
      BY <1>14, <3>1 DEF CallRawTurnedAway, Outcomes, TypeOK, CallTypes
    <3>3. aborted' \subseteq Calls
      BY <1>14, <3>1 DEF CallRawTurnedAway, TypeOK, CallTypes
    <3> QED  BY <1>14, <1>k, <3>1, <3>2, <3>3 DEF CallRawTurnedAway, TypeOK, CallTypes
  <2>4. ProcTypes'
    BY <1>14 DEF CallRawTurnedAway, TypeOK, ProcTypes
  <2> QED  BY <2>1, <2>2, <2>3, <2>4 DEF TypeOK
<1>15. ASSUME NEW c \in Calls, Abort(c) PROVE TypeOK'
  <2>1. SchedulerTypes'
    BY <1>15, <1>a DEF Abort, TypeOK, SchedulerTypes
  <2>2. WorkerTypes'
    BY <1>15 DEF Abort, SyncRef, TypeOK, WorkerTypes
  <2>3. CallTypes'
    BY <1>15 DEF Abort, Settle, Stopped, Outcomes, TypeOK, CallTypes
  <2>4. ProcTypes'
    BY <1>15 DEF Abort, TypeOK, ProcTypes
  <2> QED  BY <2>1, <2>2, <2>3, <2>4 DEF TypeOK
<1>16. ASSUME NEW w \in Warmers, Warm(w) PROVE TypeOK'
  BY <1>16 DEF TypeOK, SchedulerTypes, WorkerTypes, CallTypes, ProcTypes, Warm, SyncRef
<1>17. CASE Dispose
  BY <1>17, <1>e DEF TypeOK, SchedulerTypes, WorkerTypes, CallTypes, ProcTypes, Dispose, DiscardWorker, Undelivered, Outcomes
<1>18. CASE LoadTimedOut
  <2>1. SchedulerTypes'
    BY <1>18, <1>e, <1>r, <1>k DEF TypeOK, SchedulerTypes, LoadTimedOut, LoadFailed, RecordFailure, DiscardWorker
  <2>2. WorkerTypes'
    BY <1>18, <1>e, <1>r, <1>k DEF TypeOK, SchedulerTypes, WorkerTypes, LoadTimedOut, LoadFailed, RecordFailure, DiscardWorker
  <2>3. CallTypes'
    BY <1>18, <1>e, <1>r, <1>k DEF TypeOK, SchedulerTypes, CallTypes, LoadTimedOut, LoadFailed
  <2>4. ProcTypes'
    BY <1>18, <1>e, <1>r, <1>k DEF TypeOK, SchedulerTypes, ProcTypes, LoadTimedOut, LoadFailed, DiscardWorker, Undelivered
  <2> QED  BY <2>1, <2>2, <2>3, <2>4 DEF TypeOK
<1>19. ASSUME NEW c \in Calls, ExpireRunning(c) PROVE TypeOK'
  <2>1. SchedulerTypes'
    BY <1>19, <1>e DEF TypeOK, SchedulerTypes, ExpireRunning, DiscardWorker
  <2>2. WorkerTypes'
    BY <1>19, <1>e DEF TypeOK, SchedulerTypes, WorkerTypes, ExpireRunning, DiscardWorker, NotAFailure
  <2>3. CallTypes'
    BY <1>19, <1>e DEF TypeOK, SchedulerTypes, CallTypes, ExpireRunning, Settle, Stopped, Outcomes
  <2>4. ProcTypes'
    BY <1>19, <1>e DEF TypeOK, SchedulerTypes, ProcTypes, ExpireRunning, DiscardWorker, Undelivered
  <2> QED  BY <2>1, <2>2, <2>3, <2>4 DEF TypeOK
<1>20. ASSUME NEW c \in Calls, ExpireQueued(c) PROVE TypeOK'
  BY <1>20, <1>a DEF TypeOK, SchedulerTypes, WorkerTypes, CallTypes, ProcTypes, ExpireQueued, SyncRef, Settle, Stopped, Outcomes
<1>21. CASE ReceiveLoaded
  <2>1. SchedulerTypes'
    BY <1>21 DEF ReceiveLoaded, ModuleLoaded, TypeOK, SchedulerTypes
  <2>2. WorkerTypes'
    BY <1>21 DEF ReceiveLoaded, ModuleLoaded, SyncRef, TypeOK, WorkerTypes
  <2>3. CallTypes'
    BY <1>21, DeadlineTypes DEF ReceiveLoaded, ModuleLoaded, Resumed, SchedulerTypes, TypeOK, CallTypes
  <2>4. ProcTypes'
    BY <1>21, <1>w DEF ReceiveLoaded, ModuleLoaded, TypeOK, ProcTypes
  <2> QED  BY <2>1, <2>2, <2>3, <2>4 DEF TypeOK
<1>22. CASE ReceiveLoadError
  <2>1. SchedulerTypes'
    BY <1>22, <1>w, <1>r, <1>e, <1>k DEF TypeOK, SchedulerTypes, ReceiveLoadError, LoadFailed, RecordFailure, DiscardWorker
  <2>2. WorkerTypes'
    BY <1>22, <1>w, <1>r, <1>e, <1>k DEF TypeOK, SchedulerTypes, WorkerTypes, ReceiveLoadError, LoadFailed, RecordFailure, DiscardWorker
  <2>3. CallTypes'
    BY <1>22, <1>w, <1>r, <1>e, <1>k DEF TypeOK, SchedulerTypes, CallTypes, ReceiveLoadError, LoadFailed
  <2>4. ProcTypes'
    BY <1>22, <1>w, <1>r, <1>e, <1>k DEF TypeOK, SchedulerTypes, ProcTypes, ReceiveLoadError, LoadFailed, DiscardWorker, Undelivered
  <2> QED  BY <2>1, <2>2, <2>3, <2>4 DEF TypeOK
<1>23. CASE ReceiveCrash
  <2>1. SchedulerTypes'
    BY <1>23 DEF ReceiveCrash, DiscardWorker, TypeOK, SchedulerTypes
  <2>2. WorkerTypes'
    BY <1>23, <1>k DEF ReceiveCrash, DiscardWorker, RecordFailure, TypeOK, WorkerTypes
  <2>3. CallTypes'
    BY <1>23 DEF ReceiveCrash, DiscardWorker, Settle, Stopped, Outcomes, TypeOK, CallTypes
  <2>4. ProcTypes'
    BY <1>23, <1>w, <1>e DEF ReceiveCrash, DiscardWorker, Undelivered, TypeOK, ProcTypes
  <2> QED  BY <2>1, <2>2, <2>3, <2>4 DEF TypeOK
<1>24. CASE ReceiveFirstAnswer
  <2>1. SchedulerTypes'
    BY <1>24 DEF ReceiveFirstAnswer, ModuleLoaded, TypeOK, SchedulerTypes
  <2>2. WorkerTypes'
    BY <1>24 DEF ReceiveFirstAnswer, ModuleLoaded, SyncRef, TypeOK, WorkerTypes
  <2>3. CallTypes'
    BY <1>24, DeadlineTypes DEF ReceiveFirstAnswer, ModuleLoaded, Resumed, SchedulerTypes, TypeOK, CallTypes
  <2>4. ProcTypes'
    BY <1>24 DEF ReceiveFirstAnswer, ModuleLoaded, TypeOK, ProcTypes
  <2> QED  BY <2>1, <2>2, <2>3, <2>4 DEF TypeOK
<1>25. CASE ReceiveAnswer
  <2>1. SchedulerTypes'
    BY <1>25 DEF ReceiveAnswer, DiscardWorker, NotAFailure, TypeOK, SchedulerTypes
  <2>2. WorkerTypes'
    <3>1. ranHere' \subseteq Fns \cup {"unset"}
      <4>1. CASE Poisons(Head(wire))
        BY <1>25, <4>1 DEF ReceiveAnswer, DiscardWorker
      <4>2. CASE ~Poisons(Head(wire))
        <5>1. inFlight \in Calls
          BY <1>25, HeadAnswered DEF ReceiveAnswer
        <5> QED  BY <1>25, <4>2, <5>1 DEF ReceiveAnswer, TypeOK, WorkerTypes, CallTypes
      <4> QED  BY <4>1, <4>2
    <3>2. UNCHANGED <<failures, failureKind, forced, coolLeft>>
      BY <1>25 DEF ReceiveAnswer, NotAFailure
    <3>3. worker' \in {"none", "ready", worker} /\ gen' \in Nat /\ loadLeft' \in {Off, loadLeft} /\ refd' \in {"unset", refd}
      BY <1>25 DEF ReceiveAnswer, DiscardWorker, TypeOK, WorkerTypes
    <3> QED  BY <3>1, <3>2, <3>3 DEF TypeOK, WorkerTypes
  <2>3. CallTypes'
    BY <1>25 DEF ReceiveAnswer, DiscardWorker, NotAFailure, IsAnswer, Settle, Stopped, Outcomes, Answers, TypeOK, CallTypes
  <2>4. ProcTypes'
    BY <1>25, <1>w, <1>e DEF ReceiveAnswer, DiscardWorker, NotAFailure, Undelivered, TypeOK, ProcTypes
  <2> QED  BY <2>1, <2>2, <2>3, <2>4 DEF TypeOK
<1>26. CASE IgnoreMessage
  BY <1>26, <1>w DEF TypeOK, SchedulerTypes, WorkerTypes, CallTypes, ProcTypes, IgnoreMessage
<1>27. CASE WorkerLoads
  <2>1. SchedulerTypes'
    BY <1>27 DEF WorkerLoads, HostUnchanged, TypeOK, SchedulerTypes
  <2>2. WorkerTypes'
    BY <1>27 DEF WorkerLoads, HostUnchanged, TypeOK, WorkerTypes
  <2>3. CallTypes'
    BY <1>27 DEF WorkerLoads, HostUnchanged, TypeOK, CallTypes
  <2>4. ProcTypes'
    BY <1>27, PostedType DEF WorkerLoads, HostUnchanged, TypeOK, ProcTypes
  <2> QED  BY <2>1, <2>2, <2>3, <2>4 DEF TypeOK
<1>28. CASE WorkerStarts
  BY <1>28, <1>i DEF TypeOK, SchedulerTypes, WorkerTypes, CallTypes, ProcTypes, WorkerStarts, HostUnchanged
<1>29. CASE WorkerAnswers
  <2>1. SchedulerTypes'
    BY <1>29 DEF WorkerAnswers, HostUnchanged, TypeOK, SchedulerTypes
  <2>2. WorkerTypes'
    BY <1>29 DEF WorkerAnswers, HostUnchanged, TypeOK, WorkerTypes
  <2>3. CallTypes'
    BY <1>29 DEF WorkerAnswers, HostUnchanged, TypeOK, CallTypes
  <2>4. ProcTypes'
    BY <1>29, PostedType, <1>i DEF WorkerAnswers, HostUnchanged, WorkerShape, Answers, TypeOK, ProcTypes
  <2> QED  BY <2>1, <2>2, <2>3, <2>4 DEF TypeOK
<1>30. CASE WorkerCrashes
  <2>1. SchedulerTypes'
    BY <1>30 DEF WorkerCrashes, HostUnchanged, TypeOK, SchedulerTypes
  <2>2. WorkerTypes'
    BY <1>30 DEF WorkerCrashes, HostUnchanged, TypeOK, WorkerTypes
  <2>3. CallTypes'
    BY <1>30 DEF WorkerCrashes, HostUnchanged, TypeOK, CallTypes
  <2>4. ProcTypes'
    BY <1>30, PostedType DEF WorkerCrashes, HostUnchanged, TypeOK, ProcTypes
  <2> QED  BY <2>1, <2>2, <2>3, <2>4 DEF TypeOK
<1>31. CASE FallbackBuilt
  BY <1>31 DEF TypeOK, SchedulerTypes, WorkerTypes, CallTypes, ProcTypes, FallbackBuilt
<1>32. CASE FallbackFails
  BY <1>32 DEF TypeOK, SchedulerTypes, WorkerTypes, CallTypes, ProcTypes, FallbackFails, Outcomes
<1>33. ASSUME NEW c \in Calls, FallbackProgress(c) PROVE TypeOK'
  <2>1. SchedulerTypes'
    BY <1>33 DEF FallbackProgress, TypeOK, SchedulerTypes
  <2>2. WorkerTypes'
    BY <1>33 DEF FallbackProgress, TypeOK, WorkerTypes
  <2>3. CallTypes'
    BY <1>33 DEF FallbackProgress, Outstanding, Outcomes, Answers, TypeOK, CallTypes
  <2>4. ProcTypes'
    BY <1>33 DEF FallbackProgress, TypeOK, ProcTypes
  <2> QED  BY <2>1, <2>2, <2>3, <2>4 DEF TypeOK
<1>34. ASSUME NEW w \in Warmers, WarmPrepared(w) PROVE TypeOK'
  BY <1>34 DEF TypeOK, SchedulerTypes, WorkerTypes, CallTypes, ProcTypes, WarmPrepared
<1>35. CASE UNCHANGED vars
  BY <1>35 DEF TypeOK, SchedulerTypes, WorkerTypes, CallTypes, ProcTypes, vars
<1> QED
  BY <1>1, <1>2, <1>3, <1>4, <1>5, <1>6, <1>7, <1>8, <1>9, <1>10, <1>11, <1>12, <1>13, <1>14, <1>15, <1>16, <1>17, <1>18, <1>19, <1>20, <1>21, <1>22, <1>23, <1>24, <1>25, <1>26, <1>27, <1>28, <1>29, <1>30, <1>31, <1>32, <1>33, <1>34, <1>35 DEF Next, Handler, Host, Timers, Receive, Worker, Fallback

-----------------------------------------------------------------------------
(* Accounting and clocks. *)

\* Accounting, of the values of the variables it relates.
Places(ph, q, f, n, s) ==
  /\ \A c \in Calls : ph[c] = "held" <=> c \in Elems(q) \/ c = f \/ c = n
  /\ \A c \in Calls : ph[c] = "new" <=> c > s
  /\ Distinct(q)
  /\ f \notin Elems(q) /\ n \notin Elems(q)
  /\ f = n => n = NoCall

\* Accounting, of the set of calls each place holds.
LEMMA AccountingPlaces ==
  /\ Accounting <=> Places(phase, queue, inFlight, next, submitted)
  /\ Accounting' <=> Places(phase', queue', inFlight', next', submitted')
  /\ Queued = Elems(queue)
<1>1. Queued = Elems(queue) /\ Queued' = Elems(queue')
  BY DEF Queued, Elems
<1>2. /\ Distinct(queue) <=> \A i, j \in 1..Len(queue) : queue[i] = queue[j] => i = j
      /\ Distinct(queue') <=> \A i, j \in 1..Len(queue') : queue'[i] = queue'[j] => i = j
  BY DEF Distinct
<1> QED  BY <1>1, <1>2 DEF Accounting, Places

\* A call out of the queue, wherever it is.
LEMMA WithoutElems ==
  ASSUME queue \in Seq(Calls), Distinct(queue), NEW c \in Calls
  PROVE  Elems(Without(c)) = Elems(queue) \ {c} /\ Distinct(Without(c))
<1> DEFINE i == CHOOSE j \in 1..Len(queue) : queue[j] = c
<1>1. CASE c \in Elems(queue)
  <2>1. i \in 1..Len(queue) /\ queue[i] = c
    BY <1>1 DEF Elems
  <2> HIDE DEF i
  <2>2. Elems(Splice(i)) = Elems(queue) \ {c} /\ Distinct(Splice(i))
    BY <2>1, SpliceElems
  <2>3. Without(c) = Splice(i)
    BY <1>1, AccountingPlaces DEF Without, i
  <2> QED  BY <2>2, <2>3
<1>2. CASE c \notin Elems(queue)
  BY <1>2, AccountingPlaces DEF Without
<1> QED  BY <1>1, <1>2

\* The queue with the call in flight back at its head.
LEMMA RequeuedElems ==
  ASSUME TypeOK, Places(phase, queue, inFlight, next, submitted), next = NoCall
  PROVE  Places(phase, Requeued, NoCall, NoCall, submitted)
<1>1. queue \in Seq(Calls) /\ inFlight \in Calls \cup {NoCall} /\ NoCall \notin Calls
  BY DEF TypeOK, SchedulerTypes
<1>2. CASE inFlight = NoCall
  BY <1>2 DEF Requeued, Places
<1>3. CASE inFlight # NoCall
  <2>1. inFlight \in Calls /\ queue \in Seq(Calls)
    BY <1>1, <1>3
  <2>2. Distinct(queue) /\ inFlight \notin Elems(queue)
    BY DEF Places
  <2>3. Elems(<<inFlight>> \o queue) = Elems(queue) \cup {inFlight} /\ Distinct(<<inFlight>> \o queue)
    <3> HIDE DEF Calls
    <3> QED  BY <2>1, <2>2, ConsElems
  <2>5. Requeued = <<inFlight>> \o queue
    BY <1>3 DEF Requeued
  <2>4. NoCall \notin Elems(queue)
    BY <1>1, ElemsType
  <2> QED  BY <1>1, <1>3, <2>3, <2>4, <2>5 DEF Places
<1> QED  BY <1>2, <1>3

\* Every step keeps each held call in exactly one place.
LEMMA AccountingStep ==
  ASSUME TypeOK, Accounting, ClocksHeld, HandlerShape, [Next]_vars
  PROVE  Accounting'
<1> USE DEF vars, queueVars, workerVars, failureVars, callVars, procVars, records
<1>h. Places(phase, queue, inFlight, next, submitted) /\ Queued = Elems(queue)
  BY AccountingPlaces
<1>t. /\ queue \in Seq(Calls) /\ Distinct(queue) /\ submitted \in Nat /\ MaxCalls \in Nat
      /\ inFlight \in Calls \cup {NoCall} /\ next \in Calls \cup {NoCall}
      /\ DOMAIN phase = Calls /\ phase = [c \in Calls |-> phase[c]]
  BY <1>h, ConstantsAssumption DEF TypeOK, SchedulerTypes, CallTypes, Places
<1>e. Elems(queue) \subseteq Calls /\ NoCall \notin Calls /\ NoCall \notin Elems(queue)
  BY <1>t, ElemsType
<1>n. pc = "idle" \/ pc = "pump" \/ pc = "answer" => next = NoCall
  BY DEF HandlerShape
<1>s. pc = "start" => next \in Calls /\ inFlight = NoCall
  BY <1>t DEF HandlerShape
<1>g. SUFFICES Places(phase', queue', inFlight', next', submitted')
  BY AccountingPlaces
<1>1. CASE UNCHANGED <<phase, queue, inFlight, next, submitted>>
  BY <1>1, <1>h
<1>2. CASE DropOutOfTime
  <2>1. PICK i \in 1..Len(queue) : queue' = Splice(i) /\ phase' = [phase EXCEPT ![queue[i]] = "notStarted"]
    BY <1>2 DEF DropOutOfTime, Settle
  <2>2. Elems(queue') = Elems(queue) \ {queue[i]} /\ Distinct(queue') /\ queue[i] \in Elems(queue)
    BY <1>t, <2>1, SpliceElems DEF Elems
  <2>3. UNCHANGED <<inFlight, next, submitted>>
    BY <1>2 DEF DropOutOfTime
  <2> QED  BY <1>h, <1>t, <1>e, <2>1, <2>2, <2>3 DEF Places
<1>3. CASE PumpTake
  <2>1. /\ Elems(queue) = Elems(queue') \cup {Head(queue)} /\ Head(queue) \in Calls
        /\ Distinct(queue') /\ Head(queue) \notin Elems(queue')
    BY <1>3, <1>t, TailElems DEF PumpTake
  <2>2. /\ inFlight = NoCall /\ next = NoCall /\ UNCHANGED <<inFlight, submitted>>
        /\ \/ phase' = [phase EXCEPT ![Head(queue)] = "notStarted"] /\ next' = next
           \/ phase' = phase /\ next' = Head(queue)
    BY <1>3, <1>n DEF PumpTake, Settle
  <2> QED  BY <1>h, <1>t, <1>e, <2>1, <2>2 DEF Places
<1>4. CASE PumpWithoutWorker \/ PumpRefuseArgs \/ PumpPostThrows
  <2>1. /\ pc = "start" /\ next' = NoCall /\ UNCHANGED <<queue, inFlight, submitted>>
        /\ \E o \in {"handed", "unavailable", "refused"} : phase' = [phase EXCEPT ![next] = o]
    BY <1>4 DEF PumpWithoutWorker, PumpRefuseArgs, PumpPostThrows, Settle
  <2> QED  BY <1>h, <1>t, <1>e, <1>s, <2>1 DEF Places
<1>5. CASE PumpPost
  <2>1. pc = "start" /\ inFlight' = next /\ next' = NoCall /\ UNCHANGED <<queue, phase, submitted>>
    BY <1>5 DEF PumpPost
  <2> QED  BY <1>h, <1>t, <1>e, <1>s, <2>1 DEF Places
<1>6. ASSUME NEW f \in Fns, NEW b \in Budgets, CallRaw(f, b) PROVE Places(phase', queue', inFlight', next', submitted')
  <2>1. /\ submitted + 1 \in Calls /\ submitted' = submitted + 1 /\ queue' = Append(queue, submitted + 1)
        /\ phase' = [phase EXCEPT ![submitted + 1] = "held"] /\ pc = "idle" /\ UNCHANGED <<inFlight, next>>
    BY <1>6, <1>t DEF CallRaw
  <2>2. phase[submitted + 1] = "new"
    BY <1>h, <1>t, <2>1 DEF Places
  <2>3. submitted + 1 \notin Elems(queue) /\ inFlight # submitted + 1
    BY <1>h, <2>1, <2>2 DEF Places
  <2>4. Elems(queue') = Elems(queue) \cup {submitted + 1} /\ Distinct(queue')
    BY <1>t, <2>1, <2>3, AppendElems
  <2>5. \A c \in Calls : phase'[c] = "new" <=> c > submitted'
    BY <1>h, <1>t, <2>1 DEF Places
  <2> QED  BY <1>h, <1>t, <1>e, <1>n, <2>1, <2>3, <2>4, <2>5 DEF Places
<1>7. CASE CallRawTurnedAway
  <2>1. /\ submitted + 1 \in Calls /\ submitted' = submitted + 1 /\ pc = "idle" /\ UNCHANGED <<queue, inFlight, next>>
        /\ \E o \in {"unavailable", "refused", "aborted"} : phase' = [phase EXCEPT ![submitted + 1] = o]
    BY <1>7, <1>t DEF CallRawTurnedAway
  <2>2. phase[submitted + 1] = "new"
    BY <1>h, <1>t, <2>1 DEF Places
  <2>3. \A c \in Calls : phase'[c] = "new" <=> c > submitted'
    BY <1>h, <1>t, <2>1 DEF Places
  <2> QED  BY <1>h, <1>t, <1>e, <2>1, <2>2, <2>3 DEF Places
<1>8. ASSUME NEW c \in Calls, Abort(c) PROVE Places(phase', queue', inFlight', next', submitted')
  <2>1. UNCHANGED <<inFlight, next, submitted>>
    BY <1>8 DEF Abort
  <2>2. CASE Droppable(c)
    <3>1. queue' = Without(c) /\ phase' = [phase EXCEPT ![c] = "aborted"] /\ c \in Elems(queue)
      BY <1>8, <1>h, <2>2 DEF Abort, Droppable, Settle
    <3> QED  BY <1>h, <1>t, <1>e, <2>1, <3>1, WithoutElems DEF Places
  <2>3. CASE ~Droppable(c)
    BY <1>8, <1>h, <2>1, <2>3 DEF Abort
  <2> QED  BY <2>2, <2>3
<1>9. CASE Dispose
  <2>1. /\ pc = "idle" /\ queue' = <<>> /\ inFlight' = NoCall /\ UNCHANGED <<next, submitted>>
        /\ phase' = [c \in Calls |-> IF c \in Elems(queue) \cup ({inFlight} \ {NoCall}) THEN "unavailable" ELSE phase[c]]
    BY <1>9, <1>h DEF Dispose, Rejected
  <2>2. Elems(<<>>) = {} /\ Distinct(<<>>)
    BY DEF Elems, Distinct
  <2> QED  BY <1>h, <1>t, <1>e, <1>n, <2>1, <2>2 DEF Places
<1>10. CASE LoadTimedOut \/ ReceiveLoadError
  <2>1. queue' = Requeued /\ inFlight' = NoCall /\ UNCHANGED <<phase, next, submitted>> /\ next = NoCall
    BY <1>10, <1>n DEF LoadTimedOut, ReceiveLoadError, LoadFailed
  <2> QED  BY <1>h, <2>1, RequeuedElems
<1>11. ASSUME NEW c \in Calls, ExpireRunning(c) PROVE Places(phase', queue', inFlight', next', submitted')
  <2>1. /\ pc = "idle" /\ inFlight = c /\ inFlight' = NoCall /\ UNCHANGED <<queue, next, submitted>>
        /\ phase' = [phase EXCEPT ![c] = "abandoned"]
    BY <1>11 DEF ExpireRunning, Settle
  <2> QED  BY <1>h, <1>t, <1>e, <1>n, <2>1 DEF Places
<1>12. ASSUME NEW c \in Calls, ExpireQueued(c) PROVE Places(phase', queue', inFlight', next', submitted')
  <2>1. /\ pc = "idle" /\ inFlight # c /\ ticking[c] /\ queue' = Without(c) /\ UNCHANGED <<inFlight, next, submitted>>
        /\ phase' = [phase EXCEPT ![c] = "notStarted"]
    BY <1>12 DEF ExpireQueued, Settle
  <2>2. phase[c] = "held"
    BY <2>1 DEF ClocksHeld
  <2> QED  BY <1>h, <1>t, <1>e, <1>n, <2>1, <2>2, WithoutElems DEF Places
<1>13. CASE ReceiveCrash
  <2>1. /\ pc = "idle" /\ inFlight' = NoCall /\ UNCHANGED <<queue, next, submitted>>
        /\ IF inFlight = NoCall THEN phase' = phase ELSE phase' = [phase EXCEPT ![inFlight] = "unavailable"]
    BY <1>13 DEF ReceiveCrash, Settle
  <2> QED  BY <1>h, <1>t, <1>e, <1>n, <2>1 DEF Places
<1>14. CASE ReceiveAnswer
  <2>1. /\ pc \in {"idle", "answer"} /\ inFlight' = NoCall /\ UNCHANGED <<queue, next, submitted>>
        /\ \E o \in Answers : phase' = [phase EXCEPT ![inFlight] = o]
    BY <1>14 DEF ReceiveAnswer, IsAnswer, Settle, Answers
  <2> QED  BY <1>h, <1>t, <1>e, <1>n, <2>1 DEF Places, Answers
<1>15. CASE FallbackFails
  <2>1. /\ UNCHANGED <<queue, inFlight, next, submitted>>
        /\ phase' = [c \in Calls |-> IF phase[c] = "handed" THEN "fallbackError" ELSE phase[c]]
    BY <1>15 DEF FallbackFails
  <2> QED  BY <1>h, <1>t, <2>1 DEF Places
<1>16. ASSUME NEW c \in Calls, FallbackProgress(c) PROVE Places(phase', queue', inFlight', next', submitted')
  <2>1. /\ UNCHANGED <<queue, inFlight, next, submitted>> /\ phase[c] \in {"handed", "onFallback"}
        /\ \E o \in {"undefined", "onFallback", "value", "error", "aborted"} : phase' = [phase EXCEPT ![c] = o]
    BY <1>16 DEF FallbackProgress
  <2> QED  BY <1>h, <1>t, <2>1 DEF Places
<1>17. CASE Tick
  BY <1>1, <1>17 DEF Tick
<1>18. CASE DropDone \/ PumpSpawn \/ PumpDone \/ WaitersSpawn \/ WaitersWithoutWorker
  BY <1>1, <1>18 DEF DropDone, PumpSpawn, PumpDone, WaitersSpawn, WaitersWithoutWorker, Spawn
<1>19. ASSUME NEW w \in Warmers, Warm(w) \/ WarmPrepared(w) PROVE Places(phase', queue', inFlight', next', submitted')
  BY <1>1, <1>19 DEF Warm, WarmPrepared
<1>20. CASE ReceiveLoaded \/ ReceiveFirstAnswer \/ IgnoreMessage
  BY <1>1, <1>20 DEF ReceiveLoaded, ReceiveFirstAnswer, IgnoreMessage, ModuleLoaded
<1>21. CASE Worker \/ FallbackBuilt
  BY <1>1, <1>21 DEF Worker, WorkerLoads, WorkerStarts, WorkerAnswers, WorkerCrashes, HostUnchanged, FallbackBuilt
<1>22. CASE UNCHANGED vars
  BY <1>1, <1>22
<1> QED
  BY <1>2, <1>3, <1>4, <1>5, <1>6, <1>7, <1>8, <1>9, <1>10, <1>11, <1>12, <1>13, <1>14, <1>15, <1>16, <1>17, <1>18, <1>19, <1>20, <1>21, <1>22
     DEF Next, Handler, Host, Timers, Receive, Fallback

\* No step leaves a clock running on a call that is not held.
LEMMA ClocksStep ==
  ASSUME TypeOK, Accounting, ClocksHeld, HandlerShape, [Next]_vars
  PROVE  ClocksHeld'
<1> USE DEF vars, queueVars, workerVars, failureVars, callVars, procVars, records
<1>h. /\ \A c \in Calls : phase[c] = "held" <=> c \in Elems(queue) \/ c = inFlight \/ c = next
      /\ \A c \in Calls : phase[c] = "new" <=> c > submitted
      /\ Queued = Elems(queue)
  BY AccountingPlaces DEF Places
<1>t. /\ queue \in Seq(Calls) /\ submitted \in Nat /\ MaxCalls \in Nat
      /\ inFlight \in Calls \cup {NoCall} /\ next \in Calls \cup {NoCall} /\ NoCall \notin Calls
      /\ DOMAIN phase = Calls /\ DOMAIN ticking = Calls
      /\ phase = [c \in Calls |-> phase[c]] /\ ticking = [c \in Calls |-> ticking[c]]
  BY ConstantsAssumption DEF TypeOK, SchedulerTypes, CallTypes
<1>n. pc = "idle" => next = NoCall
  BY DEF HandlerShape
<1>s. pc = "start" => next \in Calls
  BY <1>t DEF HandlerShape
<1>1. CASE UNCHANGED <<phase, ticking>>
  BY <1>1 DEF ClocksHeld
<1>2. ASSUME NEW d, NEW o, phase' = [phase EXCEPT ![d] = o], ticking' = [ticking EXCEPT ![d] = FALSE] PROVE ClocksHeld'
  BY <1>t, <1>2 DEF ClocksHeld
<1>3. ASSUME phase' = phase, \A c \in Calls : ticking'[c] => ticking[c] \/ phase[c] = "held" PROVE ClocksHeld'
  BY <1>3 DEF ClocksHeld
<1>4. CASE DropOutOfTime
  <2>1. \E d \in Calls : phase' = [phase EXCEPT ![d] = "notStarted"] /\ ticking' = [ticking EXCEPT ![d] = FALSE]
    BY <1>4, <1>t, ElementOfSeq DEF DropOutOfTime, Settle, Stopped
  <2> QED  BY <1>2, <2>1
<1>5. CASE PumpTake
  <2>1. CASE UNCHANGED <<phase, ticking>>
    BY <1>1, <2>1
  <2>2. CASE Settle(Head(queue), "notStarted")
    BY <1>2, <2>2 DEF Settle, Stopped
  <2> QED  BY <1>5, <2>1, <2>2 DEF PumpTake
<1>6. CASE PumpWithoutWorker \/ PumpRefuseArgs \/ PumpPostThrows
  <2>1. \E o \in {"handed", "unavailable", "refused"} : phase' = [phase EXCEPT ![next] = o] /\ ticking' = [ticking EXCEPT ![next] = FALSE]
    BY <1>6 DEF PumpWithoutWorker, PumpRefuseArgs, PumpPostThrows, Settle, Stopped
  <2> QED  BY <1>2, <2>1
<1>7. CASE PumpPost
  <2>1. phase[next] = "held" /\ phase' = phase
    BY <1>7, <1>s, <1>h DEF PumpPost
  <2>2. \A c \in Calls : ticking'[c] => ticking[c] \/ c = next
    BY <1>7, <1>t DEF PumpPost, Stopped, Running
  <2> QED  BY <1>3, <2>1, <2>2
<1>8. CASE PumpSpawn \/ WaitersSpawn
  <2>1. phase' = phase /\ ticking' = Paused
    BY <1>8 DEF PumpSpawn, WaitersSpawn, Spawn
  <2> QED  BY <1>3, <2>1 DEF Paused
<1>9. CASE PumpDone
  <2>1. phase' = phase /\ (ticking' = ticking \/ (submitted \in Queued /\ ticking' = Running(ticking, submitted)))
    BY <1>9 DEF PumpDone
  <2>2. \A c \in Calls : ticking'[c] => ticking[c] \/ c \in Elems(queue)
    BY <1>t, <1>h, <2>1 DEF Running
  <2> QED  BY <1>3, <1>h, <2>1, <2>2
<1>10. ASSUME NEW f \in Fns, NEW b \in Budgets, CallRaw(f, b) PROVE ClocksHeld'
  <2>1. phase' = [phase EXCEPT ![submitted + 1] = "held"] /\ ticking' = ticking
    BY <1>10 DEF CallRaw
  <2> QED  BY <1>t, <2>1 DEF ClocksHeld
<1>11. CASE CallRawTurnedAway
  <2>1. /\ submitted + 1 \in Calls /\ ticking' = ticking
        /\ \E o \in {"unavailable", "refused", "aborted"} : phase' = [phase EXCEPT ![submitted + 1] = o]
    BY <1>11, <1>t DEF CallRawTurnedAway
  <2>2. ~ticking[submitted + 1]
    BY <1>h, <1>t, <2>1 DEF ClocksHeld
  <2> QED  BY <1>t, <2>1, <2>2 DEF ClocksHeld
<1>12. ASSUME NEW c \in Calls, Abort(c) \/ ExpireRunning(c) \/ ExpireQueued(c) PROVE ClocksHeld'
  <2>1. UNCHANGED <<phase, ticking>> \/ \E o \in {"aborted", "abandoned", "notStarted"} : Settle(c, o)
    BY <1>12 DEF Abort, ExpireRunning, ExpireQueued
  <2> QED  BY <1>1, <1>2, <2>1 DEF Settle, Stopped
<1>13. CASE Dispose
  <2>1. /\ phase' = [c \in Calls |-> IF c \in Rejected THEN "unavailable" ELSE phase[c]]
        /\ ticking' = [c \in Calls |-> ticking[c] /\ c \notin Rejected]
    BY <1>13 DEF Dispose
  <2> QED  BY <2>1 DEF ClocksHeld
<1>14. CASE ReceiveLoaded \/ ReceiveFirstAnswer
  <2>1. phase' = phase /\ ticking' = Resumed
    BY <1>14 DEF ReceiveLoaded, ReceiveFirstAnswer, ModuleLoaded
  <2>2. \A c \in Calls : ticking'[c] => ticking[c] \/ c \in Elems(queue) \/ c = inFlight
    BY <1>h, <2>1 DEF Resumed
  <2> QED  BY <1>3, <1>h, <2>1, <2>2
<1>15. CASE ReceiveCrash
  <2>1. UNCHANGED <<phase, ticking>> \/ Settle(inFlight, "unavailable")
    BY <1>15 DEF ReceiveCrash
  <2> QED  BY <1>1, <1>2, <2>1 DEF Settle, Stopped
<1>16. CASE ReceiveAnswer
  <2>1. \E o : Settle(inFlight, o)
    BY <1>16 DEF ReceiveAnswer
  <2> QED  BY <1>2, <2>1 DEF Settle, Stopped
<1>17. CASE FallbackFails
  <2>1. ticking' = ticking /\ phase' = [c \in Calls |-> IF phase[c] = "handed" THEN "fallbackError" ELSE phase[c]]
    BY <1>17 DEF FallbackFails
  <2> QED  BY <2>1 DEF ClocksHeld
<1>18. ASSUME NEW c \in Calls, FallbackProgress(c) PROVE ClocksHeld'
  <2>1. /\ phase[c] \in {"handed", "onFallback"} /\ ticking' = ticking
        /\ \E o : phase' = [phase EXCEPT ![c] = o]
    BY <1>18 DEF FallbackProgress
  <2> QED  BY <1>t, <2>1 DEF ClocksHeld
<1>19. CASE Tick \/ DropDone \/ WaitersWithoutWorker \/ LoadTimedOut \/ ReceiveLoadError \/ IgnoreMessage \/ Worker \/ FallbackBuilt
  BY <1>1, <1>19 DEF Tick, DropDone, WaitersWithoutWorker, LoadTimedOut, ReceiveLoadError, LoadFailed, IgnoreMessage,
     Worker, WorkerLoads, WorkerStarts, WorkerAnswers, WorkerCrashes, HostUnchanged, FallbackBuilt
<1>20. ASSUME NEW w \in Warmers, Warm(w) \/ WarmPrepared(w) PROVE ClocksHeld'
  BY <1>1, <1>20 DEF Warm, WarmPrepared
<1>21. CASE UNCHANGED vars
  BY <1>1, <1>21
<1> QED
  BY <1>4, <1>5, <1>6, <1>7, <1>8, <1>9, <1>10, <1>11, <1>12, <1>13, <1>14, <1>15, <1>16, <1>17, <1>18, <1>19, <1>20, <1>21
     DEF Next, Handler, Host, Timers, Receive, Fallback

-----------------------------------------------------------------------------
(* The shape of handlers, and that a free worker leaves nobody queued. *)

\* Every step keeps what handlers rely on, and ends a handler only when the
\* queue is empty or a call is in flight.
LEMMA ShapeStep ==
  ASSUME IInv, [Next]_vars
  PROVE  HandlerShape' /\ WorkConserving'
<1> USE DEF vars, queueVars, workerVars, failureVars, callVars, procVars, records
<1>i. /\ TypeOK /\ HandlerShape /\ WorkConserving /\ OneCallAtWorker /\ WorkerShape
  BY DEF IInv
<1>t. /\ queue \in Seq(Calls) /\ inFlight \in Calls \cup {NoCall} /\ NoCall \notin Calls
  BY <1>i DEF TypeOK, SchedulerTypes
<1>w. /\ worker = "none" => inFlight = NoCall /\ loadLeft = Off /\ proc = "none"
      /\ proc = "none" => worker = "none"
      /\ disposed => worker = "none" /\ queue = <<>> /\ pc = "idle"
  BY <1>i DEF WorkerShape, HandlerShape
<1>n. pc \notin {"start", "drop"} => next = NoCall
  BY <1>i DEF HandlerShape
<1>a. UNCHANGED <<gen, wire>> => Answered' = Answered
  BY DEF Answered
<1>1. CASE UNCHANGED <<pc, next, queue, inFlight, worker, disposed>> /\ pc # "answer"
  BY <1>1, <1>i DEF HandlerShape, WorkConserving
<1>2. CASE UNCHANGED <<pc, next, queue, inFlight, worker, disposed, gen, wire>>
  BY <1>2, <1>a, <1>i DEF HandlerShape, WorkConserving
<1>3. ASSUME pc' = "pump", next' = NoCall, ~disposed' PROVE HandlerShape' /\ WorkConserving'
  BY <1>3 DEF HandlerShape, WorkConserving
<1>4. CASE DropOutOfTime
  <2>1. queue # <<>> /\ UNCHANGED <<pc, next, inFlight, worker, disposed>> /\ pc = "drop"
    BY <1>4, EmptySeq DEF DropOutOfTime
  <2> QED  BY <2>1, <1>i DEF HandlerShape, WorkConserving
<1>5. CASE DropDone
  <2>1. /\ UNCHANGED <<next, queue, inFlight, worker, disposed>> /\ pc = "drop"
        /\ pc' = IF next = NoCall THEN "idle" ELSE "start"
    BY <1>5 DEF DropDone
  <2> QED  BY <2>1, <1>i DEF HandlerShape, WorkConserving
<1>6. CASE PumpTake
  <2>1. /\ pc = "pump" /\ ~disposed /\ inFlight = NoCall /\ UNCHANGED <<inFlight, worker, disposed>>
        /\ (pc' = pc /\ next' = next) \/ (pc' = "start" /\ next' = Head(queue))
    BY <1>6 DEF PumpTake
  <2>2. Head(queue) \in Calls
    BY <1>6, <1>t, TailElems DEF PumpTake
  <2> QED  BY <2>1, <2>2, <1>t, <1>n DEF HandlerShape, WorkConserving
<1>7. CASE PumpSpawn
  <2>1. /\ pc = "start" /\ pc' = "drop" /\ worker' = "loading" /\ UNCHANGED <<next, queue, inFlight, disposed>>
    BY <1>7 DEF PumpSpawn, Spawn
  <2> QED  BY <2>1, <1>i DEF HandlerShape, WorkConserving
<1>8. CASE PumpWithoutWorker \/ PumpPost \/ PumpRefuseArgs \/ PumpPostThrows
  <2>1. pc = "start" /\ pc' = "pump" /\ next' = NoCall /\ disposed' = disposed
    BY <1>8 DEF PumpWithoutWorker, PumpPost, PumpRefuseArgs, PumpPostThrows
  <2> QED  BY <2>1, <1>3, <1>w
<1>9. CASE PumpDone
  <2>1. /\ pc = "pump" /\ UNCHANGED <<next, queue, inFlight, worker, disposed>>
        /\ inFlight # NoCall \/ queue = <<>>
        /\ pc' = "idle" \/ (pc' = "waiters" /\ worker = "none")
    BY <1>9, <1>w DEF PumpDone, PumpOver, WaitersStranded
  <2> QED  BY <2>1, <1>w, <1>n DEF HandlerShape, WorkConserving
<1>10. CASE WaitersSpawn
  <2>1. pc = "waiters" /\ pc' = "drop" /\ worker' = "loading" /\ UNCHANGED <<next, queue, inFlight, disposed>>
    BY <1>10 DEF WaitersSpawn, Spawn
  <2> QED  BY <2>1, <1>w, <1>n, <1>i DEF HandlerShape, WorkConserving
<1>11. CASE WaitersWithoutWorker
  <2>1. pc = "waiters" /\ pc' = "idle" /\ UNCHANGED <<next, queue, inFlight, worker, disposed>>
    BY <1>11 DEF WaitersWithoutWorker
  <2> QED  BY <2>1, <1>w, <1>n, <1>i DEF HandlerShape, WorkConserving
<1>12. ASSUME NEW f \in Fns, NEW b \in Budgets, CallRaw(f, b) PROVE HandlerShape' /\ WorkConserving'
  <2>1. pc = "idle" /\ pc' = "pump" /\ ~disposed /\ UNCHANGED <<next, disposed>>
    BY <1>12 DEF CallRaw
  <2> QED  BY <2>1, <1>3, <1>n
<1>13. CASE CallRawTurnedAway
  BY <1>2, <1>13 DEF CallRawTurnedAway
<1>14. ASSUME NEW c \in Calls, Abort(c) \/ ExpireQueued(c) PROVE HandlerShape' /\ WorkConserving'
  <2>1. pc = "idle" /\ UNCHANGED <<pc, next, inFlight, worker, disposed>> /\ queue' \in {queue, Without(c)}
    BY <1>14 DEF Abort, ExpireQueued
  <2>2. queue = <<>> => Without(c) = <<>>
    BY EmptySeq DEF Without, Queued
  <2> QED  BY <2>1, <2>2, <1>i DEF HandlerShape, WorkConserving
<1>15. ASSUME NEW w \in Warmers, Warm(w) PROVE HandlerShape' /\ WorkConserving'
  <2>1. /\ pc = "idle" /\ UNCHANGED <<next, queue, inFlight, worker, disposed>>
        /\ pc' = "idle" \/ (pc' = "waiters" /\ worker = "none" /\ ~disposed)
    BY <1>15 DEF Warm
  <2> QED  BY <2>1, <1>w, <1>n, <1>i DEF HandlerShape, WorkConserving
<1>16. CASE Dispose
  <2>1. pc = "idle" /\ pc' = "idle" /\ queue' = <<>> /\ worker' = "none" /\ next' = next
    BY <1>16 DEF Dispose, DiscardWorker
  <2> QED  BY <2>1, <1>n DEF HandlerShape, WorkConserving
<1>17. CASE LoadTimedOut \/ ReceiveLoadError
  <2>1. pc = "idle" /\ pc' = "pump" /\ ~disposed /\ UNCHANGED <<next, disposed>>
    BY <1>17, <1>w DEF LoadTimedOut, ReceiveLoadError, LoadFailed, Current
  <2> QED  BY <2>1, <1>3, <1>n
<1>18. ASSUME NEW c \in Calls, ExpireRunning(c) PROVE HandlerShape' /\ WorkConserving'
  <2>1. pc = "idle" /\ pc' = "pump" /\ ~disposed /\ UNCHANGED <<next, disposed>>
    BY <1>18, <1>w, <1>t DEF ExpireRunning
  <2> QED  BY <2>1, <1>3, <1>n
<1>19. CASE ReceiveLoaded
  <2>1. /\ pc = "idle" /\ UNCHANGED <<pc, next, queue, inFlight, disposed>> /\ worker = "loading" /\ worker' = "ready"
    BY <1>19 DEF ReceiveLoaded, ModuleLoaded
  <2> QED  BY <2>1, <1>n, <1>i DEF HandlerShape, WorkConserving
<1>20. CASE ReceiveCrash \/ ReceiveAnswer
  <2>1. pc \in {"idle", "answer"} /\ pc' = "pump" /\ ~disposed /\ UNCHANGED <<next, disposed>>
    BY <1>20 DEF ReceiveCrash, ReceiveAnswer, Current
  <2> QED  BY <2>1, <1>3, <1>n
<1>21. CASE ReceiveFirstAnswer
  <2>1. /\ pc = "idle" /\ pc' = "answer" /\ ~disposed /\ worker' = "ready" /\ UNCHANGED <<next, disposed, gen, wire>>
    BY <1>21 DEF ReceiveFirstAnswer, ModuleLoaded, Current
  <2>2. 1 \in Answered
    BY <1>21, <1>i, HeadAnswered DEF ReceiveFirstAnswer
  <2> QED  BY <2>1, <2>2, <1>a, <1>n DEF HandlerShape, WorkConserving
<1>22. CASE IgnoreMessage
  <2>1. /\ pc \in {"idle", "answer"} /\ pc' = "idle" /\ UNCHANGED <<next, queue, inFlight, worker, disposed>>
    BY <1>22 DEF IgnoreMessage
  <2>2. pc = "answer" => inFlight # NoCall /\ ~disposed
    BY <1>i, <1>w DEF HandlerShape, OneCallAtWorker
  <2> QED  BY <2>1, <2>2, <1>n, <1>i DEF HandlerShape, WorkConserving
<1>23. CASE Worker \/ FallbackBuilt \/ FallbackFails
  BY <1>1, <1>23 DEF Worker, WorkerLoads, WorkerStarts, WorkerAnswers, WorkerCrashes, HostUnchanged, FallbackBuilt, FallbackFails
<1>24. ASSUME NEW c \in Calls, FallbackProgress(c) PROVE HandlerShape' /\ WorkConserving'
  BY <1>2, <1>24 DEF FallbackProgress
<1>25. ASSUME NEW w \in Warmers, WarmPrepared(w) PROVE HandlerShape' /\ WorkConserving'
  BY <1>2, <1>25 DEF WarmPrepared
<1>26. CASE Tick \/ UNCHANGED vars
  BY <1>2, <1>26 DEF Tick
<1> QED
  BY <1>4, <1>5, <1>6, <1>7, <1>8, <1>9, <1>10, <1>11, <1>12, <1>13, <1>14, <1>15, <1>16, <1>17, <1>18, <1>19, <1>20, <1>21,
     <1>22, <1>23, <1>24, <1>25, <1>26
     DEF Next, Handler, Host, Timers, Receive, Fallback

-----------------------------------------------------------------------------
(* One call at a time at the worker, and none at a poisoned instance. *)

\* A message read off the wire.
LEMMA AnsweredTail ==
  ASSUME wire \in Seq(Message), wire # <<>>, wire' = Tail(wire), gen' = gen
  PROVE  /\ Len(wire') = Len(wire) - 1 /\ Len(wire) \in Nat \ {0}
         /\ \A i \in 1..Len(wire') : wire'[i] = wire[i + 1] /\ i + 1 \in 1..Len(wire)
         /\ \A i \in Answered' : i \in 1..Len(wire') /\ i + 1 \in Answered
         /\ \A i \in Answered : i # 1 => i - 1 \in Answered' /\ wire'[i - 1] = wire[i]
<1>1. /\ Len(wire') = Len(wire) - 1 /\ Len(wire) \in Nat \ {0}
      /\ \A i \in 1..Len(wire') : wire'[i] = wire[i + 1]
  BY TailElems
<1>2. \A i \in 1..Len(wire') : i + 1 \in 1..Len(wire)
  BY <1>1
<1>3. \A i \in 1..Len(wire) : i # 1 => i - 1 \in 1..Len(wire') /\ wire'[i - 1] = wire[i]
  BY <1>1
<1> QED  BY <1>1, <1>2, <1>3 DEF Answered, IsAnswer

\* A message posted.
LEMMA AnsweredAppend ==
  ASSUME wire \in Seq(Message), NEW m \in Message, wire' = Append(wire, m), gen' = gen
  PROVE  /\ Len(wire') = Len(wire) + 1 /\ Len(wire) \in Nat /\ wire'[Len(wire) + 1] = m
         /\ \A i \in 1..Len(wire) : wire'[i] = wire[i]
         /\ \A i \in 1..Len(wire') : i \in 1..Len(wire) \/ i = Len(wire) + 1
         /\ Answered' = Answered \cup (IF m.gen = gen /\ IsAnswer(m) THEN {Len(wire) + 1} ELSE {})
         /\ \A i \in Answered : wire'[i] = wire[i]
<1>1. /\ Len(wire') = Len(wire) + 1 /\ Len(wire) \in Nat /\ wire'[Len(wire) + 1] = m
      /\ \A i \in 1..Len(wire) : wire'[i] = wire[i]
  BY AppendElems, LenProperties
<1>2. /\ \A i \in 1..Len(wire') : i \in 1..Len(wire) \/ i = Len(wire) + 1
      /\ \A i \in 1..Len(wire) : i \in 1..Len(wire')
      /\ Len(wire) + 1 \in 1..Len(wire')
  BY <1>1
<1> QED  BY <1>1, <1>2 DEF Answered, IsAnswer

\* A worker replaced: nothing on the wire is from the one to come.
LEMMA Discarded ==
  ASSUME TypeOK, WorkerShape, gen' = gen + 1, wire' \in {wire, <<>>} \/ (wire # <<>> /\ wire' = Tail(wire)),
         worker' = "none", proc' = "none", inbox' = <<>>, loadLeft' = Off, inFlight' = NoCall
  PROVE  OneCallAtWorker' /\ WorkerShape'
<1>1. gen \in Nat /\ wire \in Seq(Message)
  BY DEF TypeOK, WorkerTypes, ProcTypes
<1>2. \A i \in 1..Len(wire) : wire[i].gen <= gen /\ wire[i].gen \in Nat
  <2>1. \A i \in 1..Len(wire) : wire[i] \in Message
    BY <1>1, ElementOfSeq
  <2> QED  BY <2>1 DEF WorkerShape, Message
<1>3. \A i \in 1..Len(wire') : wire'[i].gen <= gen /\ wire'[i].gen \in Nat
  <2>1. CASE wire' = wire
    BY <1>2, <2>1
  <2>2. CASE wire # <<>> /\ wire' = Tail(wire)
    <3>1. /\ Len(wire') = Len(wire) - 1 /\ Len(wire) \in Nat \ {0}
          /\ \A i \in 1..Len(wire') : wire'[i] = wire[i + 1]
      BY <1>1, <2>2, TailElems
    <3>2. \A i \in 1..Len(wire') : i + 1 \in 1..Len(wire)
      BY <3>1
    <3> QED  BY <1>2, <3>1, <3>2
  <2>3. CASE wire' = <<>>
    BY <2>3
  <2> QED  BY <2>1, <2>2, <2>3
<1>4. \A i \in 1..Len(wire') : wire'[i].gen < gen' /\ wire'[i].gen <= gen' /\ wire'[i].gen # gen'
  BY <1>1, <1>3
<1>5. Answered' = {}
  BY <1>4 DEF Answered
<1> QED  BY <1>4, <1>5 DEF OneCallAtWorker, WorkerShape

\* A message that answers nothing, read off the wire of a worker that stays.
LEMMA ReadOther ==
  ASSUME TypeOK, OneCallAtWorker, WorkerShape, wire # <<>>, wire' = Tail(wire), \A i \in Answered : i # 1,
         worker' = worker \/ (worker # "none" /\ worker' # "none"),
         loadLeft' \in {Off, loadLeft}, loadLeft' # Off => worker' = worker, UNCHANGED <<gen, inbox, inFlight, proc>>
  PROVE  OneCallAtWorker' /\ WorkerShape'
<1>1. wire \in Seq(Message)
  BY DEF TypeOK, ProcTypes
<1>2. /\ \A i \in 1..Len(wire') : wire'[i] = wire[i + 1] /\ i + 1 \in 1..Len(wire)
      /\ \A i \in Answered' : i \in 1..Len(wire') /\ i + 1 \in Answered
      /\ \A i \in Answered : i - 1 \in Answered' /\ wire'[i - 1] = wire[i]
  BY <1>1, AnsweredTail
<1>3. Answered = {} => Answered' = {}
  BY <1>2
<1>4. Answered # {} => Answered' # {}
  BY <1>2
<1>5. ASSUME NEW i \in Answered' PROVE wire'[i].call = inFlight' /\ \A j \in Answered' : i = j
  <2>1. wire'[i] = wire[i + 1] /\ i + 1 \in Answered /\ i \in Int
    BY <1>2
  <2>2. ASSUME NEW j \in Answered' PROVE i = j
    <3>1. j + 1 \in Answered /\ j \in Int
      BY <1>2
    <3>2. i + 1 = j + 1
      BY <2>1, <3>1 DEF OneCallAtWorker
    <3> QED  BY <2>1, <3>1, <3>2
  <2> QED  BY <2>1, <2>2 DEF OneCallAtWorker
<1>6. OneCallAtWorker'
  BY <1>3, <1>4, <1>5 DEF OneCallAtWorker
<1>7. \A i \in 1..Len(wire') : wire'[i].gen <= gen' /\ (worker' = "none" => wire'[i].gen < gen')
  BY <1>2 DEF WorkerShape
<1>8. proc' = "poisoned" => \E i \in Answered' : wire'[i].type = "fatal"
  BY <1>2 DEF WorkerShape
<1> QED  BY <1>6, <1>7, <1>8 DEF WorkerShape

\* Every step keeps at most the one call at the worker, and none at a poisoned one.
LEMMA WorkerStep ==
  ASSUME IInv, [Next]_vars
  PROVE  OneCallAtWorker' /\ WorkerShape'
<1> USE DEF vars, queueVars, workerVars, failureVars, callVars, procVars, records
<1>i. TypeOK /\ HandlerShape /\ OneCallAtWorker /\ WorkerShape
  BY DEF IInv
<1>t. /\ inFlight \in Calls \cup {NoCall} /\ next \in Calls \cup {NoCall} /\ NoCall \notin Calls
      /\ gen \in Nat /\ wire \in Seq(Message) /\ loadLeft \in Nat \cup {Off}
  BY <1>i DEF TypeOK, SchedulerTypes, WorkerTypes, ProcTypes
<1>u. Undelivered(wire) \in {wire, <<>>} /\ Undelivered(Tail(wire)) \in {Tail(wire), <<>>}
  BY DEF Undelivered
<1>n. worker = "none" => inFlight = NoCall /\ inbox = <<>> /\ proc = "none" /\ Answered = {}
  BY <1>i, <1>t DEF WorkerShape, OneCallAtWorker
<1>1. CASE UNCHANGED <<gen, wire, inbox, inFlight, proc, worker, loadLeft>>
  <2>1. Answered' = Answered
    BY <1>1 DEF Answered
  <2> QED  BY <1>1, <1>i, <2>1 DEF OneCallAtWorker, WorkerShape
<1>2. CASE Tick
  <2>1. Answered' = Answered /\ UNCHANGED <<gen, wire, inbox, inFlight, proc, worker>>
    BY <1>2 DEF Answered, Tick
  <2>2. loadLeft' # Off => loadLeft # Off
    BY <1>2, <1>t DEF Tick, Countdown
  <2> QED  BY <1>i, <2>1, <2>2 DEF OneCallAtWorker, WorkerShape
<1>3. CASE DropOutOfTime \/ DropDone \/ PumpTake \/ PumpWithoutWorker \/ PumpRefuseArgs \/ PumpDone \/ WaitersWithoutWorker
           \/ CallRawTurnedAway \/ FallbackBuilt \/ FallbackFails \/ UNCHANGED vars
  BY <1>1, <1>3 DEF DropOutOfTime, DropDone, PumpTake, PumpWithoutWorker, PumpRefuseArgs, PumpDone, WaitersWithoutWorker,
     CallRawTurnedAway, FallbackBuilt, FallbackFails
<1>4. ASSUME NEW f \in Fns, NEW b \in Budgets, CallRaw(f, b) PROVE OneCallAtWorker' /\ WorkerShape'
  BY <1>1, <1>4 DEF CallRaw
<1>5. ASSUME NEW c \in Calls, Abort(c) \/ ExpireQueued(c) \/ FallbackProgress(c) PROVE OneCallAtWorker' /\ WorkerShape'
  BY <1>1, <1>5 DEF Abort, ExpireQueued, FallbackProgress
<1>6. ASSUME NEW w \in Warmers, Warm(w) \/ WarmPrepared(w) PROVE OneCallAtWorker' /\ WorkerShape'
  BY <1>1, <1>6 DEF Warm, WarmPrepared
<1>7. CASE PumpSpawn \/ WaitersSpawn
  <2>1. /\ worker = "none" /\ worker' = "loading" /\ proc' = "loading" /\ inbox' = <<>> /\ UNCHANGED <<gen, wire, inFlight>>
    BY <1>7, <1>i DEF PumpSpawn, WaitersSpawn, Spawn, HandlerShape
  <2>2. Answered' = Answered
    BY <2>1 DEF Answered
  <2> QED  BY <1>i, <1>n, <2>1, <2>2 DEF OneCallAtWorker, WorkerShape
<1>8. CASE PumpPost
  <2>1. /\ pc = "start" /\ worker # "none" /\ inFlight' = next /\ inbox' = Append(inbox, next)
        /\ UNCHANGED <<gen, wire, proc, worker, loadLeft>>
    BY <1>8 DEF PumpPost
  <2>2. next \in Calls /\ inFlight = NoCall
    BY <1>i, <1>t, <2>1 DEF HandlerShape
  <2>3. inbox = <<>> /\ Answered = {}
    BY <1>i, <2>2 DEF OneCallAtWorker
  <2>4. inbox' = <<next>> /\ inbox' # <<>>
    BY <2>1, <2>3
  <2>5. Answered' = Answered
    BY <2>1 DEF Answered
  <2>6. proc # "poisoned"
    BY <1>i, <2>3 DEF WorkerShape
  <2> QED  BY <1>i, <1>t, <2>1, <2>2, <2>3, <2>4, <2>5, <2>6 DEF OneCallAtWorker, WorkerShape
<1>9. CASE PumpPostThrows
  <2>1. inFlight' = NoCall
    BY <1>9, <1>i DEF PumpPostThrows, HandlerShape
  <2>2. wire' \in {wire, <<>>}
    BY <1>9, <1>u DEF PumpPostThrows
  <2>3. DiscardWorker
    BY <1>9 DEF PumpPostThrows
  <2> QED  BY <1>i, <2>1, <2>2, <2>3, Discarded DEF DiscardWorker
<1>10. CASE Dispose \/ LoadTimedOut \/ \E c \in Calls : ExpireRunning(c)
  <2>1. wire' \in {wire, <<>>} /\ DiscardWorker /\ inFlight' = NoCall
    BY <1>10, <1>u DEF Dispose, LoadTimedOut, LoadFailed, ExpireRunning
  <2> QED  BY <1>i, <2>1, Discarded DEF DiscardWorker
<1>11. CASE ReceiveLoadError \/ ReceiveCrash
  <2>1. wire # <<>> /\ wire' \in {Tail(wire), <<>>} /\ DiscardWorker /\ inFlight' = NoCall
    BY <1>11, <1>u DEF ReceiveLoadError, LoadFailed, ReceiveCrash
  <2> QED  BY <1>i, <2>1, Discarded DEF DiscardWorker
<1>12. CASE ReceiveLoaded
  <2>1. /\ wire # <<>> /\ wire' = Tail(wire) /\ Head(wire).type = "loaded" /\ worker = "loading" /\ worker' = "ready" /\ loadLeft' = Off
        /\ UNCHANGED <<gen, inbox, inFlight, proc>>
    BY <1>12 DEF ReceiveLoaded, ModuleLoaded
  <2>2. 1 \notin Answered
    <3>1. wire[1].type = "loaded"
      BY <1>t, <2>1, TailElems
    <3> QED  BY <3>1 DEF Answered, IsAnswer, Answers
  <2>3. \A i \in Answered : i # 1
    BY <2>2
  <2> QED  BY <1>i, <2>1, <2>3, ReadOther
<1>13. CASE ReceiveFirstAnswer
  <2>1. worker = "loading" /\ worker' = "ready" /\ loadLeft' = Off /\ UNCHANGED <<gen, wire, inbox, inFlight, proc>>
    BY <1>13 DEF ReceiveFirstAnswer, ModuleLoaded
  <2>2. Answered' = Answered
    BY <2>1 DEF Answered
  <2> QED  BY <1>i, <2>1, <2>2 DEF OneCallAtWorker, WorkerShape
<1>14. CASE ReceiveAnswer
  <2>1. wire # <<>> /\ worker = "ready" /\ inFlight' = NoCall /\ Current(Head(wire)) /\ IsAnswer(Head(wire))
    BY <1>14 DEF ReceiveAnswer
  <2>2. 1 \in Answered /\ inbox = <<>> /\ Head(wire) = wire[1]
    BY <1>i, <1>t, <2>1, HeadAnswered, TailElems
  <2>3. CASE Poisons(Head(wire))
    <3>1. DiscardWorker /\ wire' \in {Tail(wire), <<>>}
      BY <1>14, <1>u, <2>3 DEF ReceiveAnswer
    <3> QED  BY <1>i, <2>1, <3>1, Discarded DEF DiscardWorker
  <2>4. CASE ~Poisons(Head(wire))
    <3>1. wire' = Tail(wire) /\ UNCHANGED <<worker, gen, loadLeft, proc, inbox>>
      BY <1>14, <2>4 DEF ReceiveAnswer
    <3>2. \A i \in Answered : i = 1
      BY <1>i, <2>2 DEF OneCallAtWorker
    <3>3. Answered' = {}
      <4>1. SUFFICES ASSUME NEW i \in Answered' PROVE FALSE
        OBVIOUS
      <4>2. i \in 1..Len(wire') /\ i + 1 \in Answered
        BY <1>t, <2>1, <3>1, AnsweredTail
      <4> QED  BY <3>2, <4>2
    <3>4. proc # "poisoned"
      BY <1>i, <2>2, <2>4, <3>2 DEF WorkerShape, Poisons
    <3> QED  BY <1>i, <1>t, <2>1, <2>2, <3>1, <3>3, <3>4, AnsweredTail DEF OneCallAtWorker, WorkerShape
  <2> QED  BY <2>3, <2>4
<1>15. CASE IgnoreMessage
  <2>1. /\ wire # <<>> /\ wire' = Tail(wire) /\ Unwanted(Head(wire))
        /\ UNCHANGED <<gen, inbox, inFlight, proc, worker, loadLeft>>
    BY <1>15 DEF IgnoreMessage
  <2>2. 1 \notin Answered
    <3>1. SUFFICES ASSUME 1 \in Answered PROVE FALSE
      OBVIOUS
    <3>2. Head(wire) = wire[1]
      BY <1>t, <2>1, TailElems
    <3>3. wire[1].gen = gen /\ IsAnswer(wire[1]) /\ wire[1].call = inFlight
      BY <1>i, <3>1 DEF Answered, OneCallAtWorker
    <3>4. disposed
      BY <2>1, <3>2, <3>3 DEF Unwanted, Current
    <3> QED  BY <1>i, <1>n, <3>1, <3>4 DEF HandlerShape
  <2>3. \A i \in Answered : i # 1
    BY <2>2
  <2> QED  BY <1>i, <2>1, <2>3, ReadOther
<1>16. CASE WorkerLoads \/ WorkerCrashes
  <2>1. /\ proc # "none" /\ proc' \in {"ready", "broken", "dead", "stillborn"} /\ UNCHANGED <<inbox, gen, inFlight, worker, loadLeft>>
        /\ wire' = wire \/ \E type \in {"loaded", "loadError", "died"} : Posted(type, NoCall)
    BY <1>16 DEF WorkerLoads, WorkerCrashes, HostUnchanged
  <2>2. CASE wire' = wire
    <3>1. Answered' = Answered
      BY <2>1, <2>2 DEF Answered
    <3> QED  BY <1>i, <2>1, <2>2, <3>1 DEF OneCallAtWorker, WorkerShape
  <2>3. ASSUME NEW type \in {"loaded", "loadError", "died"}, Posted(type, NoCall) PROVE OneCallAtWorker' /\ WorkerShape'
    <3> DEFINE m == [gen |-> gen, type |-> type, call |-> NoCall]
    <3>1. m \in Message /\ wire' = Append(wire, m) /\ m.gen = gen /\ ~IsAnswer(m)
      BY <1>t, <2>3 DEF Posted, Message, IsAnswer, Answers
    <3> HIDE DEF m
    <3>2. /\ Answered' = Answered /\ \A i \in Answered : wire'[i] = wire[i]
          /\ \A i \in 1..Len(wire') : wire'[i].gen = gen \/ (i \in 1..Len(wire) /\ wire'[i] = wire[i])
      BY <1>t, <2>1, <3>1, AnsweredAppend
    <3> QED  BY <1>i, <1>t, <2>1, <3>2 DEF OneCallAtWorker, WorkerShape
  <2> QED  BY <2>1, <2>2, <2>3
<1>17. CASE WorkerStarts
  <2>1. /\ inbox # <<>> /\ proc # "none" /\ proc' = "running" /\ UNCHANGED <<inbox, wire, gen, inFlight, worker, loadLeft>>
    BY <1>17 DEF WorkerStarts, HostUnchanged
  <2>2. Answered' = Answered
    BY <2>1 DEF Answered
  <2> QED  BY <1>i, <2>1, <2>2 DEF OneCallAtWorker, WorkerShape
<1>18. CASE WorkerAnswers
  <2>1. /\ inbox # <<>> /\ proc # "none" /\ inbox' = Tail(inbox) /\ UNCHANGED <<gen, inFlight, worker, loadLeft>>
        /\ proc' \in {"ready", "poisoned", "broken"}
    BY <1>18, <1>i DEF WorkerAnswers, HostUnchanged, WorkerShape
  <2>2. PICK type \in Answers \cup {"fatal"} : Posted(type, Head(inbox)) /\ (proc' = "poisoned" => type = "fatal")
    <3>1. CASE \E type \in {"value", "error"} : proc' = "ready" /\ Posted(type, Head(inbox))
      BY <3>1 DEF Answers
    <3>2. CASE proc' = "ready" /\ Posted("clone", Head(inbox))
      BY <3>2 DEF Answers
    <3>3. CASE Posted("fatal", Head(inbox))
      BY <3>3
    <3> QED  BY <1>18, <3>1, <3>2, <3>3 DEF WorkerAnswers
  <2>3. inbox = <<inFlight>> /\ Answered = {} /\ inFlight \in Calls /\ worker # "none"
    BY <1>i, <1>t, <2>1 DEF OneCallAtWorker
  <2>4. inbox' = <<>> /\ Head(inbox) = inFlight
    BY <2>1, <2>3
  <2> DEFINE m == [gen |-> gen, type |-> type, call |-> inFlight]
  <2>5. m \in Message /\ wire' = Append(wire, m) /\ m.gen = gen /\ IsAnswer(m) /\ m.call = inFlight /\ m.type = type
    BY <1>t, <2>2, <2>3, <2>4 DEF Posted, Message, IsAnswer
  <2> HIDE DEF m
  <2>6. /\ Answered' = {Len(wire) + 1} /\ wire'[Len(wire) + 1] = m
        /\ \A i \in 1..Len(wire') : wire'[i].gen = gen \/ (i \in 1..Len(wire) /\ wire'[i] = wire[i])
    BY <1>t, <2>1, <2>3, <2>5, AnsweredAppend
  <2> QED  BY <1>i, <1>t, <2>1, <2>2, <2>3, <2>4, <2>5, <2>6 DEF OneCallAtWorker, WorkerShape
<1> QED
  BY <1>2, <1>3, <1>4, <1>5, <1>6, <1>7, <1>8, <1>9, <1>10, <1>11, <1>12, <1>13, <1>14, <1>15, <1>16, <1>17, <1>18
     DEF Next, Handler, Host, Timers, Receive, Worker, Fallback

-----------------------------------------------------------------------------
(* The theorems. *)

\* A backend just created satisfies the invariant.
LEMMA InitInv ==
  ASSUME Init
  PROVE  IInv
<1>1. Queued = {} /\ Answered = {} /\ NoCall \notin Calls /\ MaxCalls \in Nat
  BY ConstantsAssumption DEF Init, Queued, Answered
<1>2. SchedulerTypes
  BY EmptySeq DEF Init, SchedulerTypes
<1>3. WorkerTypes
  BY DEF Init, WorkerTypes
<1>4. CallTypes
  BY <1>1 DEF Init, CallTypes
<1>5. ProcTypes
  BY DEF Init, ProcTypes
<1>6. Accounting /\ ClocksHeld /\ WorkConserving
  BY <1>1 DEF Init, Accounting, ClocksHeld, WorkConserving
<1>7. OneCallAtWorker /\ HandlerShape /\ WorkerShape
  BY <1>1 DEF Init, OneCallAtWorker, HandlerShape, WorkerShape
<1> QED  BY <1>2, <1>3, <1>4, <1>5, <1>6, <1>7 DEF IInv, TypeOK

\* The inductive invariant, for any instance of the constants.
THEOREM Invariance == Spec => []IInv
<1>1. IInv /\ [Next]_vars => IInv'
  BY TypeStep, AccountingStep, ClocksStep, ShapeStep, WorkerStep DEF IInv
<1> QED  BY <1>1, InitInv, PTL DEF Spec

\* Every variable keeps its type.
THEOREM TypeCorrectness == Spec => []TypeOK
<1>1. IInv => TypeOK
  BY DEF IInv
<1> QED  BY <1>1, Invariance, PTL

\* No call is lost, held twice, or held after it has settled (settle, pump,
\* loadFailed, dropQueued, dispose of workerBackend.ts).
THEOREM CallsAccountedFor == Spec => []Accounting
<1>1. IInv => Accounting
  BY DEF IInv
<1> QED  BY <1>1, Invariance, PTL

\* When no handler runs, a call waits only behind one that is with the worker.
THEOREM NobodyWaitsForNothing == Spec => []WorkConserving
<1>1. IInv => WorkConserving
  BY DEF IInv
<1> QED  BY <1>1, Invariance, PTL

\* The worker is given one call at a time, what it answers is the call in flight, and a wasm
\* instance that has trapped is never asked anything again.
THEOREM OneCallAtATime == Spec => []WorkerServesOne
<1>1. IInv => WorkerServesOne
  BY DEF IInv, WorkerShape, PoisonNeverServes, WorkerServesOne
<1> QED  BY <1>1, Invariance, PTL

-----------------------------------------------------------------------------
(* Calls are served in the order they were made. *)

Increasing(q) == \A i, j \in 1..Len(q) : i < j => q[i] < q[j]

\* Order, of the values of the variables it relates: a queue, the call in flight, the one shifted.
InOrder(q, f, n) == Increasing(q) /\ \A c \in Elems(q) : f < c /\ n < c

\* Shifting the head off leaves a queue in order, behind that head.
LEMMA TailOrder ==
  ASSUME queue \in Seq(Calls), queue # <<>>, Increasing(queue)
  PROVE  Increasing(Tail(queue)) /\ \A c \in Elems(Tail(queue)) : Head(queue) < c
<1>1. /\ Head(queue) = queue[1] /\ Len(queue) \in Nat \ {0} /\ Len(Tail(queue)) = Len(queue) - 1
      /\ \A i \in 1..Len(Tail(queue)) : Tail(queue)[i] = queue[i + 1]
  BY TailElems
<1>2. \A i \in 1..Len(Tail(queue)) : i + 1 \in 1..Len(queue) /\ 1 < i + 1 /\ 1 \in 1..Len(queue)
  BY <1>1
<1>3. \A i, j \in 1..Len(Tail(queue)) : i < j => i + 1 < j + 1
  BY <1>1
<1> QED  BY <1>1, <1>2, <1>3 DEF Increasing, Elems

\* Splicing a call out, at its index or wherever it is, leaves the others in order.
LEMMA SpliceOrder ==
  ASSUME queue \in Seq(Calls), Increasing(queue)
  PROVE  /\ \A i \in 1..Len(queue) : Increasing(Splice(i)) /\ Elems(Splice(i)) \subseteq Elems(queue)
         /\ \A c \in Calls : Increasing(Without(c)) /\ Elems(Without(c)) \subseteq Elems(queue)
<1>1. ASSUME NEW i \in 1..Len(queue) PROVE Increasing(Splice(i)) /\ Elems(Splice(i)) \subseteq Elems(queue)
  <2>1. /\ Len(Splice(i)) = Len(queue) - 1 /\ Len(queue) \in Nat
        /\ \A k \in 1..Len(queue) - 1 : Splice(i)[k] = IF k < i THEN queue[k] ELSE queue[k + 1]
    BY SpliceSeq
  <2>2. ASSUME NEW k \in 1..Len(Splice(i)), NEW m \in 1..Len(Splice(i)), k < m PROVE Splice(i)[k] < Splice(i)[m]
    <3>1. /\ k \in 1..Len(queue) /\ k + 1 \in 1..Len(queue) /\ m \in 1..Len(queue) /\ m + 1 \in 1..Len(queue)
          /\ k < m + 1 /\ k + 1 < m + 1 /\ (k < i \/ ~(m < i))
      BY <2>1, <2>2
    <3>2. queue[k] < queue[m] /\ queue[k] < queue[m + 1] /\ queue[k + 1] < queue[m + 1]
      BY <2>2, <3>1 DEF Increasing
    <3> QED  BY <2>1, <3>1, <3>2
  <2> QED  BY <2>1, <2>2, SpliceElems DEF Increasing
<1>2. ASSUME NEW c \in Calls PROVE Increasing(Without(c)) /\ Elems(Without(c)) \subseteq Elems(queue)
  <2>1. CASE c \in Queued
    <3>1. (CHOOSE i \in 1..Len(queue) : queue[i] = c) \in 1..Len(queue)
      BY <2>1 DEF Queued
    <3> QED  BY <1>1, <2>1, <3>1 DEF Without
  <2> QED  BY <2>1 DEF Without
<1> QED  BY <1>1, <1>2

\* Pushing the newest call at the end, and putting back the one in flight, which is older than all of them.
LEMMA PushOrder ==
  ASSUME queue \in Seq(Calls), NEW c \in Calls, Increasing(queue)
  PROVE  /\ (\A d \in Elems(queue) : d < c) => Increasing(Append(queue, c))
         /\ (\A d \in Elems(queue) : c < d) => Increasing(<<c>> \o queue)
<1>1. ASSUME \A d \in Elems(queue) : d < c PROVE Increasing(Append(queue, c))
  <2>1. /\ Len(Append(queue, c)) = Len(queue) + 1 /\ Len(queue) \in Nat
        /\ Append(queue, c)[Len(queue) + 1] = c
        /\ \A i \in 1..Len(queue) : Append(queue, c)[i] = queue[i]
    BY AppendElems, LenProperties
  <2>2. \A i, j \in 1..Len(queue) + 1 : i < j => i \in 1..Len(queue) /\ (j \in 1..Len(queue) \/ j = Len(queue) + 1)
    BY <2>1
  <2> QED  BY <1>1, <2>1, <2>2 DEF Increasing, Elems
<1>2. ASSUME \A d \in Elems(queue) : c < d PROVE Increasing(<<c>> \o queue)
  <2> DEFINE r == <<c>> \o queue
  <2>1. r[1] = c /\ \A i \in 1..Len(r) : i = 1 \/ (i - 1 \in 1..Len(queue) /\ r[i] = queue[i - 1])
    BY ConsSeq
  <2> HIDE DEF r
  <2>2. ASSUME NEW i \in 1..Len(r), NEW j \in 1..Len(r), i < j PROVE r[i] < r[j]
    <3>1. j - 1 \in 1..Len(queue) /\ r[j] = queue[j - 1]
      BY <2>1, <2>2
    <3>2. CASE i = 1
      BY <1>2, <2>1, <3>1, <3>2 DEF Elems
    <3>3. CASE i - 1 \in 1..Len(queue) /\ r[i] = queue[i - 1]
      <4>1. i - 1 < j - 1
        BY <2>2
      <4> QED  BY <3>1, <3>3, <4>1 DEF Increasing
    <3> QED  BY <2>1, <3>2, <3>3
  <2> QED  BY <2>2 DEF Increasing, r
<1> QED  BY <1>1, <1>2

\* Every step keeps the order.
LEMMA OrderStep ==
  ASSUME IInv, ServedInOrder, [Next]_vars
  PROVE  ServedInOrder'
<1> USE DEF vars, queueVars, workerVars, failureVars, callVars, procVars, records
<1>h. InOrder(queue, inFlight, next) /\ Queued = Elems(queue) /\ Queued' = Elems(queue')
  BY DEF ServedInOrder, InOrder, Increasing, Queued, Elems
<1>p. Places(phase, queue, inFlight, next, submitted)
  BY AccountingPlaces DEF IInv
<1>t. /\ queue \in Seq(Calls) /\ submitted \in Nat /\ MaxCalls \in Nat
      /\ inFlight \in Calls \cup {NoCall} /\ next \in Calls \cup {NoCall}
  BY ConstantsAssumption DEF IInv, TypeOK, SchedulerTypes, CallTypes
<1>e. Elems(queue) \subseteq Calls /\ \A c \in Elems(queue) : NoCall < c
  BY <1>t, ElemsType
<1>g. SUFFICES InOrder(queue', inFlight', next')
  BY <1>h DEF ServedInOrder, InOrder, Increasing
<1>1. ASSUME queue' = queue, inFlight' \in {inFlight, next, NoCall}, next' \in {next, NoCall} PROVE InOrder(queue', inFlight', next')
  BY <1>1, <1>h, <1>e DEF InOrder
<1>2. ASSUME NEW i \in 1..Len(queue), queue' = Splice(i), UNCHANGED <<inFlight, next>> PROVE InOrder(queue', inFlight', next')
  BY <1>2, <1>h, <1>t, SpliceOrder DEF InOrder
<1>3. ASSUME NEW c \in Calls, queue' \in {queue, Without(c)}, UNCHANGED <<inFlight, next>> PROVE InOrder(queue', inFlight', next')
  BY <1>3, <1>h, <1>t, SpliceOrder DEF InOrder
<1>4. CASE DropOutOfTime
  BY <1>2, <1>4 DEF DropOutOfTime
<1>5. CASE PumpTake
  <2>1. queue # <<>> /\ queue' = Tail(queue) /\ inFlight' = NoCall /\ next' \in {next, Head(queue)}
    BY <1>5 DEF PumpTake
  <2>2. Increasing(queue') /\ \A c \in Elems(queue') : Head(queue) < c
    BY <2>1, <1>h, <1>t, TailOrder DEF InOrder
  <2>3. Elems(queue') \subseteq Elems(queue)
    BY <2>1, <1>t, TailElems
  <2> QED  BY <2>1, <2>2, <2>3, <1>h, <1>e DEF InOrder
<1>6. ASSUME NEW f \in Fns, NEW b \in Budgets, CallRaw(f, b) PROVE InOrder(queue', inFlight', next')
  <2>1. queue' = Append(queue, submitted + 1) /\ submitted + 1 \in Calls /\ UNCHANGED <<inFlight, next>>
    BY <1>6, <1>t DEF CallRaw
  <2>2. \A d \in Calls : d \in Elems(queue) \/ d = inFlight \/ d = next => ~(d > submitted)
    BY <1>p DEF Places
  <2>3. \A d \in Calls : d \in Elems(queue) \/ d = inFlight \/ d = next => d < submitted + 1
    BY <2>2, <1>t
  <2>4. Increasing(queue')
    BY <2>1, <2>3, <1>h, <1>t, <1>e, PushOrder DEF InOrder
  <2>6. Elems(queue') = Elems(queue) \cup {submitted + 1}
    BY <2>1, <1>t, AppendElems
  <2>5. inFlight < submitted + 1 /\ next < submitted + 1
    BY <2>3, <1>t
  <2> QED  BY <2>1, <2>4, <2>5, <2>6, <1>h DEF InOrder
<1>7. ASSUME NEW c \in Calls, Abort(c) \/ ExpireQueued(c) PROVE InOrder(queue', inFlight', next')
  BY <1>3, <1>7 DEF Abort, ExpireQueued
<1>8. CASE Dispose
  <2>1. queue' = <<>>
    BY <1>8 DEF Dispose
  <2> QED  BY <2>1 DEF InOrder, Increasing, Elems
<1>9. CASE LoadTimedOut \/ ReceiveLoadError
  <2>1. queue' = Requeued /\ inFlight' = NoCall /\ next' = NoCall
    BY <1>9 DEF LoadTimedOut, ReceiveLoadError, LoadFailed, IInv, HandlerShape
  <2>2. CASE inFlight = NoCall
    BY <2>1, <2>2, <1>h, <1>e DEF Requeued, InOrder
  <2>3. CASE inFlight # NoCall
    <3>1. inFlight \in Calls /\ queue' = <<inFlight>> \o queue
      BY <2>1, <2>3, <1>t DEF Requeued
    <3>2. Increasing(queue')
      BY <3>1, <1>h, <1>t, PushOrder DEF InOrder
    <3>3. Elems(queue') = Elems(queue) \cup {inFlight}
      <4> HIDE DEF Calls
      <4> QED  BY <3>1, <1>t, ConsElems
    <3>4. NoCall < inFlight
      BY <3>1, <1>t
    <3> QED  BY <2>1, <3>2, <3>3, <3>4, <1>e DEF InOrder
  <2> QED  BY <2>2, <2>3
<1>10. CASE PumpWithoutWorker \/ PumpPost \/ PumpRefuseArgs \/ PumpPostThrows
  <2>1. queue' = queue /\ inFlight' \in {inFlight, next} /\ next' = NoCall
    BY <1>10 DEF PumpWithoutWorker, PumpPost, PumpRefuseArgs, PumpPostThrows
  <2> QED  BY <2>1, <1>1
<1>11. CASE ReceiveCrash \/ ReceiveAnswer \/ \E c \in Calls : ExpireRunning(c)
  <2>1. queue' = queue /\ inFlight' = NoCall /\ next' = next
    BY <1>11 DEF ReceiveCrash, ReceiveAnswer, ExpireRunning
  <2> QED  BY <2>1, <1>1
<1>12. CASE Tick \/ DropDone \/ PumpSpawn \/ PumpDone \/ WaitersSpawn \/ WaitersWithoutWorker \/ CallRawTurnedAway \/ UNCHANGED vars
  <2>1. UNCHANGED <<queue, inFlight, next>>
    BY <1>12 DEF Tick, DropDone, PumpSpawn, PumpDone, WaitersSpawn, WaitersWithoutWorker, Spawn, CallRawTurnedAway
  <2> QED  BY <2>1, <1>1
<1>13. CASE ReceiveLoaded \/ ReceiveFirstAnswer \/ IgnoreMessage \/ Worker
  <2>1. UNCHANGED <<queue, inFlight, next>>
    BY <1>13 DEF ReceiveLoaded, ReceiveFirstAnswer, ModuleLoaded, IgnoreMessage, Worker, WorkerLoads, WorkerStarts, WorkerAnswers,
       WorkerCrashes, HostUnchanged
  <2> QED  BY <2>1, <1>1
<1>14. CASE Fallback \/ \E w \in Warmers : Warm(w)
  <2>1. UNCHANGED <<queue, inFlight, next>>
    BY <1>14 DEF Fallback, FallbackBuilt, FallbackFails, FallbackProgress, WarmPrepared, Warm
  <2> QED  BY <2>1, <1>1
<1> QED
  BY <1>4, <1>5, <1>6, <1>7, <1>8, <1>9, <1>10, <1>11, <1>12, <1>13, <1>14 DEF Next, Handler, Host, Timers, Receive

\* Calls are served in the order they were made (queue.push, shift, unshift and splice of workerBackend.ts).
THEOREM ServedAsMade == Spec => []ServedInOrder
<1>1. Init => ServedInOrder
  BY DEF Init, ServedInOrder, Queued
<1>2. IInv /\ ServedInOrder /\ [Next]_vars => ServedInOrder'
  BY OrderStep
<1> QED  BY <1>1, <1>2, Invariance, PTL DEF Spec

-----------------------------------------------------------------------------
(* Deadlines: which clocks run. *)

\* A clock runs of a call with a deadline; on a loaded worker, of every such call queued or in
\* flight but one callRaw has just pushed; on a loading worker, of none of them.
Clocks(tk, b, w, q, f, a, s) ==
  \A c \in Calls :
    /\ tk[c] => b[c] # Infinity
    /\ w = "ready" /\ (c \in Elems(q) \/ c = f) /\ b[c] # Infinity => tk[c] \/ (a = "clock" /\ c = s /\ c \in Elems(q))
    /\ w = "loading" /\ (c \in Elems(q) \/ c = f) => ~tk[c]

\* What only callRaw leaves for the end of pump(), and that a module still loading has posted nothing.
AfterShape == pc \in {"idle", "waiters", "answer"} \/ (pc = "drop" /\ next = NoCall) => after = "idle"
LoadingIsSilent == proc = "loading" => worker = "loading" /\ \A i \in 1..Len(wire) : wire[i].gen # gen

ClockInv == Clocks(ticking, budget, worker, queue, inFlight, after, submitted) /\ AfterShape /\ LoadingIsSilent

\* Every step keeps what is left for the end of pump() in its handler.
LEMMA AfterStep ==
  ASSUME IInv, AfterShape, [Next]_vars
  PROVE  AfterShape'
<1> USE DEF vars, queueVars, workerVars, failureVars, callVars, procVars, records
<1>i. HandlerShape
  BY DEF IInv
<1>1. CASE UNCHANGED <<pc, next, after>> \/ pc' \in {"pump", "start"} \/ after' = "idle"
  BY <1>1 DEF AfterShape
<1>2. CASE DropOutOfTime \/ DropDone \/ PumpTake \/ PumpWithoutWorker \/ PumpPost \/ PumpRefuseArgs \/ PumpPostThrows \/ PumpDone
  <2>1. CASE DropDone
    BY <1>1, <2>1 DEF DropDone, AfterShape
  <2>2. CASE DropOutOfTime \/ PumpTake
    BY <1>1, <2>2 DEF DropOutOfTime, PumpTake, AfterShape
  <2>3. CASE PumpWithoutWorker \/ PumpPost \/ PumpRefuseArgs \/ PumpPostThrows \/ PumpDone
    BY <1>1, <2>3 DEF PumpWithoutWorker, PumpPost, PumpRefuseArgs, PumpPostThrows, PumpDone
  <2> QED  BY <1>2, <2>1, <2>2, <2>3
<1>3. CASE PumpSpawn \/ WaitersSpawn \/ WaitersWithoutWorker
  <2>1. after' = after /\ UNCHANGED next
    BY <1>3 DEF PumpSpawn, WaitersSpawn, WaitersWithoutWorker, Spawn
  <2>2. CASE PumpSpawn
    BY <2>1, <2>2, <1>i DEF PumpSpawn, Spawn, AfterShape, HandlerShape
  <2>3. CASE WaitersSpawn \/ WaitersWithoutWorker
    <3>1. pc = "waiters"
      BY <2>3 DEF WaitersSpawn, WaitersWithoutWorker
    <3> QED  BY <2>1, <3>1 DEF AfterShape
  <2> QED  BY <1>3, <2>2, <2>3
<1>4. ASSUME pc \in {"idle", "answer"}, after' = after PROVE AfterShape'
  BY <1>4 DEF AfterShape
<1>5. CASE Host
  <2>1. ASSUME NEW f \in Fns, NEW b \in Budgets, CallRaw(f, b) PROVE AfterShape'
    BY <1>1, <2>1 DEF CallRaw
  <2>2. ASSUME CallRawTurnedAway \/ (\E c \in Calls : Abort(c)) \/ (\E w \in Warmers : Warm(w)) \/ Dispose PROVE AfterShape'
    <3>1. pc = "idle" /\ after' = after
      BY <2>2 DEF CallRawTurnedAway, Abort, Warm, Dispose
    <3> QED  BY <1>4, <3>1
  <2> QED  BY <1>5, <2>1, <2>2 DEF Host
<1>6. CASE Timers
  <2>1. CASE LoadTimedOut
    BY <1>1, <2>1 DEF LoadTimedOut, LoadFailed
  <2>2. ASSUME NEW c \in Calls, ExpireRunning(c) \/ ExpireQueued(c) PROVE AfterShape'
    <3>1. pc = "idle" /\ after' = after
      BY <2>2 DEF ExpireRunning, ExpireQueued
    <3> QED  BY <1>4, <3>1
  <2> QED  BY <1>6, <2>1, <2>2 DEF Timers
<1>7. CASE Receive
  <2>1. CASE ReceiveLoadError
    BY <1>1, <2>1 DEF ReceiveLoadError, LoadFailed
  <2>2. CASE ReceiveLoaded \/ ReceiveCrash \/ ReceiveFirstAnswer \/ ReceiveAnswer \/ IgnoreMessage
    <3>1. pc \in {"idle", "answer"} /\ after' = after
      BY <2>2 DEF ReceiveLoaded, ReceiveCrash, ReceiveFirstAnswer, ModuleLoaded, ReceiveAnswer, IgnoreMessage
    <3> QED  BY <1>4, <3>1
  <2> QED  BY <1>7, <2>1, <2>2 DEF Receive
<1>8. CASE Worker \/ Fallback \/ Tick \/ UNCHANGED vars
  <2>1. UNCHANGED <<pc, next, after>>
    BY <1>8 DEF Worker, WorkerLoads, WorkerStarts, WorkerAnswers, WorkerCrashes, HostUnchanged, Fallback, FallbackBuilt, FallbackFails,
       FallbackProgress, WarmPrepared, Tick
  <2> QED  BY <1>1, <2>1
<1> QED  BY <1>2, <1>3, <1>5, <1>6, <1>7, <1>8 DEF Next, Handler

\* A worker whose module is still loading has posted nothing.
LEMMA SilentStep ==
  ASSUME IInv, LoadingIsSilent, [Next]_vars
  PROVE  LoadingIsSilent'
<1> USE DEF vars, queueVars, workerVars, failureVars, callVars, procVars, records
<1>t. wire \in Seq(Message) /\ gen \in Nat
  BY DEF IInv, TypeOK, ProcTypes, WorkerTypes
<1>s. /\ WorkerShape /\ HandlerShape
      /\ \A i \in 1..Len(wire) : wire[i] \in Message
  BY <1>t, ElementOfSeq DEF IInv
<1>1. CASE proc' # "loading"
  BY <1>1 DEF LoadingIsSilent
<1>2. CASE UNCHANGED <<proc, worker, wire, gen>>
  BY <1>2 DEF LoadingIsSilent
<1>3. CASE PumpSpawn \/ WaitersSpawn
  <2>1. worker = "none" /\ worker' = "loading" /\ UNCHANGED <<wire, gen>>
    BY <1>3, <1>s DEF PumpSpawn, WaitersSpawn, Spawn, HandlerShape
  <2>2. \A i \in 1..Len(wire) : wire[i].gen # gen
    BY <1>s, <1>t, <2>1 DEF WorkerShape, Message
  <2> QED  BY <2>1, <2>2 DEF LoadingIsSilent
<1>4. CASE DropOutOfTime \/ DropDone \/ PumpTake \/ PumpWithoutWorker \/ PumpPost \/ PumpRefuseArgs \/ PumpDone \/ WaitersWithoutWorker
  BY <1>2, <1>4 DEF DropOutOfTime, DropDone, PumpTake, PumpWithoutWorker, PumpPost, PumpRefuseArgs, PumpDone, WaitersWithoutWorker
<1>5. CASE PumpPostThrows \/ Dispose \/ LoadTimedOut \/ ReceiveLoadError \/ ReceiveCrash \/ \E c \in Calls : ExpireRunning(c)
  <2>1. DiscardWorker
    BY <1>5 DEF PumpPostThrows, Dispose, LoadTimedOut, ReceiveLoadError, LoadFailed, ReceiveCrash, ExpireRunning
  <2> QED  BY <1>1, <2>1 DEF DiscardWorker
<1>6. CASE CallRawTurnedAway \/ (\E f \in Fns, b \in Budgets : CallRaw(f, b)) \/ (\E c \in Calls : Abort(c) \/ ExpireQueued(c))
           \/ (\E w \in Warmers : Warm(w))
  BY <1>2, <1>6 DEF CallRawTurnedAway, CallRaw, Abort, ExpireQueued, Warm
<1>7. CASE ReceiveLoaded \/ ReceiveFirstAnswer
  <2>1. wire # <<>> /\ Current(Head(wire)) /\ proc' = proc
    BY <1>7 DEF ReceiveLoaded, ReceiveFirstAnswer, ModuleLoaded
  <2>2. 1 \in 1..Len(wire) /\ wire[1].gen = gen
    BY <1>t, <2>1, TailElems DEF Current
  <2> QED  BY <1>1, <2>1, <2>2 DEF LoadingIsSilent
<1>8. CASE ReceiveAnswer \/ IgnoreMessage
  <2>1. (wire # <<>> /\ UNCHANGED <<proc, worker, gen>> /\ wire' = Tail(wire)) \/ DiscardWorker
    BY <1>8 DEF ReceiveAnswer, IgnoreMessage
  <2>2. CASE DiscardWorker
    BY <1>1, <2>2 DEF DiscardWorker
  <2>3. CASE wire # <<>> /\ UNCHANGED <<proc, worker, gen>> /\ wire' = Tail(wire)
    <3>1. \A i \in 1..Len(wire') : wire'[i] = wire[i + 1] /\ i + 1 \in 1..Len(wire)
      BY <1>t, <2>3, AnsweredTail
    <3> QED  BY <2>3, <3>1 DEF LoadingIsSilent
  <2> QED  BY <2>1, <2>2, <2>3
<1>9. CASE Worker
  <2>1. proc' = proc \/ proc' # "loading"
    BY <1>9 DEF Worker, WorkerLoads, WorkerStarts, WorkerAnswers, WorkerCrashes
  <2>2. ASSUME proc = "loading", proc' = "loading" PROVE FALSE
    BY <1>9, <2>2 DEF Worker, WorkerLoads, WorkerStarts, WorkerAnswers, WorkerCrashes
  <2> QED  BY <1>1, <2>1, <2>2
<1>10. CASE Fallback \/ Tick \/ UNCHANGED vars
  BY <1>2, <1>10 DEF Fallback, FallbackBuilt, FallbackFails, FallbackProgress, WarmPrepared, Tick
<1> QED
  BY <1>3, <1>4, <1>5, <1>6, <1>7, <1>8, <1>9, <1>10 DEF Next, Handler, Host, Timers, Receive

\* Every step keeps the clocks right.
LEMMA ClocksRightStep ==
  ASSUME IInv, ClockInv, [Next]_vars
  PROVE  Clocks(ticking', budget', worker', queue', inFlight', after', submitted')
<1> USE DEF vars, queueVars, workerVars, failureVars, callVars, procVars, records
<1> DEFINE Kept == Clocks(ticking', budget', worker', queue', inFlight', after', submitted')
<1>h. Clocks(ticking, budget, worker, queue, inFlight, after, submitted) /\ Queued = Elems(queue)
  BY AccountingPlaces DEF ClockInv
<1>p. Places(phase, queue, inFlight, next, submitted) /\ ClocksHeld
  BY AccountingPlaces DEF IInv
<1>t. /\ queue \in Seq(Calls) /\ submitted \in Nat /\ MaxCalls \in Nat
      /\ inFlight \in Calls \cup {NoCall} /\ next \in Calls \cup {NoCall} /\ NoCall \notin Calls
      /\ ticking \in [Calls -> BOOLEAN] /\ DOMAIN budget = Calls
  BY ConstantsAssumption DEF IInv, TypeOK, SchedulerTypes, CallTypes
<1>a. pc = "idle" => after = "idle"
  BY DEF ClockInv, AfterShape
<1>s. HandlerShape /\ WorkerShape
  BY DEF IInv
<1>1. ASSUME UNCHANGED <<ticking, budget, worker, queue, inFlight, after>>, submitted' = submitted \/ after = "idle" PROVE Kept
  BY <1>1, <1>h DEF Clocks
<1>3. CASE Tick \/ DropDone \/ WaitersWithoutWorker \/ CallRawTurnedAway \/ UNCHANGED vars
  BY <1>1, <1>3, <1>a DEF Tick, DropDone, WaitersWithoutWorker, CallRawTurnedAway
<1>4. CASE DropOutOfTime
  <2>1. PICK i \in 1..Len(queue) : queue' = Splice(i) /\ ticking' = [ticking EXCEPT ![queue[i]] = FALSE]
    BY <1>4 DEF DropOutOfTime, Settle, Stopped
  <2>2. Elems(queue') \subseteq Elems(queue)
    BY <1>t, <2>1, SpliceElems
  <2>3. UNCHANGED <<budget, worker, inFlight, after, submitted>> /\ worker = "loading"
    BY <1>4, <1>s DEF DropOutOfTime, HandlerShape
  <2>4. \A c \in Calls : ticking'[c] => ticking[c]
    BY <1>t, <2>1
  <2> QED  BY <2>2, <2>3, <2>4, <1>h DEF Clocks
<1>5. CASE PumpTake
  <2>1. /\ queue # <<>> /\ queue' = Tail(queue) /\ inFlight = NoCall /\ UNCHANGED <<budget, worker, inFlight, after, submitted>>
        /\ ticking' = ticking \/ ticking' = [ticking EXCEPT ![Head(queue)] = FALSE]
    BY <1>5 DEF PumpTake, Settle, Stopped
  <2>2. Elems(queue) = Elems(queue') \cup {Head(queue)} /\ Head(queue) \notin Elems(queue')
    BY <1>t, <1>p, <2>1, TailElems DEF Places
  <2>3. \A c \in Calls : (ticking'[c] => ticking[c]) /\ (c # Head(queue) => ticking'[c] = ticking[c])
    BY <1>t, <2>1
  <2> QED  BY <2>1, <2>2, <2>3, <1>h, <1>t DEF Clocks
<1>6. CASE PumpSpawn \/ WaitersSpawn
  <2>1. worker' = "loading" /\ ticking' = Paused /\ UNCHANGED <<budget, queue, inFlight, after, submitted>> /\ inFlight = NoCall
    BY <1>6, <1>s DEF PumpSpawn, WaitersSpawn, Spawn, HandlerShape, WorkerShape
  <2>2. \A c \in Calls : (ticking'[c] => ticking[c]) /\ (c \in Elems(queue) => ~ticking'[c])
    BY <2>1, <1>h DEF Paused
  <2> QED  BY <2>1, <2>2, <1>h, <1>t DEF Clocks
<1>7. CASE PumpWithoutWorker \/ PumpRefuseArgs \/ PumpPostThrows
  <2>1. /\ pc = "start" /\ ticking' = [ticking EXCEPT ![next] = FALSE] /\ worker' \in {worker, "none"}
        /\ UNCHANGED <<budget, queue, inFlight, after, submitted>>
    BY <1>7 DEF PumpWithoutWorker, PumpRefuseArgs, PumpPostThrows, Settle, Stopped, DiscardWorker
  <2>2. next \notin Elems(queue) /\ inFlight = NoCall
    BY <2>1, <1>p, <1>s DEF HandlerShape, Places
  <2>3. \A c \in Calls : (ticking'[c] => ticking[c]) /\ (c # next => ticking'[c] = ticking[c])
    BY <1>t, <2>1
  <2> QED  BY <2>1, <2>2, <2>3, <1>h, <1>t DEF Clocks
<1>8. CASE PumpPost
  <2>1. /\ pc = "start" /\ inFlight' = next /\ worker # "none" /\ UNCHANGED <<budget, worker, queue, after, submitted>>
        /\ ticking' = IF worker = "loading" THEN [ticking EXCEPT ![next] = FALSE] ELSE [ticking EXCEPT ![next] = budget[next] # Infinity]
    BY <1>8 DEF PumpPost, Stopped, Running
  <2>2. next \notin Elems(queue) /\ next \in Calls
    BY <2>1, <1>p, <1>s, <1>t DEF HandlerShape, Places
  <2>3. \A c \in Calls : c # next => ticking'[c] = ticking[c]
    BY <1>t, <2>1
  <2>4. ticking'[next] = (worker # "loading" /\ budget[next] # Infinity)
    BY <1>t, <2>1, <2>2
  <2> QED  BY <2>1, <2>2, <2>3, <2>4, <1>h, <1>t DEF Clocks
<1>9. CASE PumpDone
  <2>1. /\ UNCHANGED <<budget, worker, queue, inFlight, submitted>> /\ after' = "idle"
        /\ ticking' = IF after = "clock" /\ worker # "loading" /\ submitted \in Elems(queue)
                      THEN [ticking EXCEPT ![submitted] = budget[submitted] # Infinity] ELSE ticking
    BY <1>9, <1>h DEF PumpDone, Running
  <2>2. CASE after = "clock" /\ worker # "loading" /\ submitted \in Elems(queue)
    <3>1. submitted \in Calls
      BY <2>2, <1>t, ElemsType
    <3>2. \A c \in Calls : ticking'[c] = IF c = submitted THEN budget[submitted] # Infinity ELSE ticking[c]
      BY <1>t, <2>1, <2>2, <3>1
    <3> QED  BY <2>1, <2>2, <3>2, <1>h DEF Clocks
  <2>3. CASE ~(after = "clock" /\ worker # "loading" /\ submitted \in Elems(queue))
    BY <2>1, <2>3, <1>h DEF Clocks
  <2> QED  BY <2>2, <2>3
<1>10. ASSUME NEW f \in Fns, NEW b \in Budgets, CallRaw(f, b) PROVE Kept
  <2> DEFINE n == submitted + 1
  <2>1. /\ n \in Calls /\ queue' = Append(queue, n) /\ submitted' = n /\ after' = "clock" /\ pc = "idle"
        /\ budget' = [budget EXCEPT ![n] = b] /\ UNCHANGED <<ticking, worker, inFlight>>
    BY <1>10, <1>t DEF CallRaw
  <2> HIDE DEF n
  <2>2. Elems(queue') = Elems(queue) \cup {n}
    BY <2>1, <1>t, AppendElems
  <2>3. phase[n] = "new"
    <3>1. n > submitted
      BY <1>t DEF n
    <3> QED  BY <2>1, <3>1, <1>p DEF Places
  <2>4. ~ticking[n] /\ n # inFlight
    BY <2>1, <2>3, <1>p DEF ClocksHeld, Places
  <2>5. \A c \in Calls : c # n => budget'[c] = budget[c]
    BY <2>1, <1>t
  <2> QED  BY <2>1, <2>2, <2>4, <2>5, <1>a, <1>h DEF Clocks
<1>11. ASSUME NEW c \in Calls, Abort(c) \/ ExpireQueued(c) PROVE Kept
  <2>1. /\ pc = "idle" /\ UNCHANGED <<budget, worker, inFlight, after, submitted>>
        /\ \/ UNCHANGED <<queue, ticking>>
           \/ queue' = Without(c) /\ ticking' = [ticking EXCEPT ![c] = FALSE] /\ c # inFlight
    <3>1. CASE ExpireQueued(c)
      BY <3>1 DEF ExpireQueued, Settle, Stopped
    <3>2. CASE Abort(c) /\ ~Droppable(c)
      BY <3>2 DEF Abort
    <3>3. CASE Abort(c) /\ Droppable(c)
      <4>1. c # inFlight
        BY <3>3, <1>h, <1>p DEF Droppable, Places
      <4> QED  BY <3>3, <4>1 DEF Abort, Settle, Stopped
    <3> QED  BY <1>11, <3>1, <3>2, <3>3
  <2>2. CASE UNCHANGED <<queue, ticking>>
    BY <1>1, <2>1, <2>2
  <2>3. CASE queue' = Without(c) /\ ticking' = [ticking EXCEPT ![c] = FALSE] /\ c # inFlight
    <3>1. Elems(queue') = Elems(queue) \ {c}
      BY <2>3, <1>t, <1>p, WithoutElems DEF Places
    <3>2. \A d \in Calls : (ticking'[d] => ticking[d]) /\ (d # c => ticking'[d] = ticking[d])
      BY <1>t, <2>3
    <3> QED  BY <2>1, <2>3, <3>1, <3>2, <1>a, <1>h DEF Clocks
  <2> QED  BY <2>1, <2>2, <2>3
<1>12. CASE Dispose \/ LoadTimedOut \/ ReceiveLoadError \/ ReceiveCrash \/ \E c \in Calls : ExpireRunning(c)
  <2>1. worker' = "none" /\ UNCHANGED budget
    BY <1>12 DEF Dispose, LoadTimedOut, ReceiveLoadError, LoadFailed, ReceiveCrash, ExpireRunning, DiscardWorker
  <2>2. \A c \in Calls : ticking'[c] => ticking[c]
    <3>1. CASE Dispose
      BY <3>1 DEF Dispose
    <3>2. CASE LoadTimedOut \/ ReceiveLoadError
      BY <3>2 DEF LoadTimedOut, ReceiveLoadError, LoadFailed
    <3>3. CASE ReceiveCrash
      BY <3>3, <1>t DEF ReceiveCrash, Settle, Stopped
    <3>4. ASSUME NEW c \in Calls, ExpireRunning(c) PROVE \A d \in Calls : ticking'[d] => ticking[d]
      BY <3>4, <1>t DEF ExpireRunning, Settle, Stopped
    <3> QED  BY <1>12, <3>1, <3>2, <3>3, <3>4
  <2> QED  BY <2>1, <2>2, <1>h DEF Clocks
<1>13. CASE ReceiveAnswer
  <2>1. /\ inFlight' = NoCall /\ ticking' = [ticking EXCEPT ![inFlight] = FALSE] /\ worker' \in {worker, "none"}
        /\ UNCHANGED <<budget, queue, after, submitted>>
    BY <1>13 DEF ReceiveAnswer, Settle, Stopped, DiscardWorker
  <2>2. inFlight \notin Elems(queue)
    BY <1>p DEF Places
  <2>3. \A d \in Calls : (ticking'[d] => ticking[d]) /\ (d # inFlight => ticking'[d] = ticking[d])
    BY <1>t, <2>1
  <2> QED  BY <2>1, <2>2, <2>3, <1>h, <1>t DEF Clocks
<1>14. CASE ReceiveLoaded \/ ReceiveFirstAnswer
  <2>1. worker' = "ready" /\ ticking' = Resumed /\ UNCHANGED <<budget, queue, inFlight, after, submitted>>
    BY <1>14 DEF ReceiveLoaded, ReceiveFirstAnswer, ModuleLoaded
  <2> QED  BY <2>1, <1>h DEF Clocks, Resumed
<1>15. CASE IgnoreMessage \/ Worker
  <2>1. UNCHANGED <<ticking, budget, worker, queue, inFlight, after, submitted>>
    BY <1>15 DEF IgnoreMessage, Worker, WorkerLoads, WorkerStarts, WorkerAnswers, WorkerCrashes, HostUnchanged
  <2> QED  BY <1>1, <2>1
<1>16. CASE Fallback \/ \E w \in Warmers : Warm(w)
  <2>1. UNCHANGED <<ticking, budget, worker, queue, inFlight, after, submitted>>
    BY <1>16 DEF Fallback, FallbackBuilt, FallbackFails, FallbackProgress, WarmPrepared, Warm
  <2> QED  BY <1>1, <2>1
<1> QED
  BY <1>3, <1>4, <1>5, <1>6, <1>7, <1>8, <1>9, <1>10, <1>11, <1>12, <1>13, <1>14, <1>15, <1>16
     DEF Next, Handler, Host, Timers, Receive

\* Deadlines run of the calls queued or in flight on a loaded worker, and of no other.
LEMMA ClockInvariance == Spec => []ClockInv
<1>1. Init => ClockInv
  BY EmptySeq DEF Init, ClockInv, Clocks, AfterShape, LoadingIsSilent, Elems
<1>2. IInv /\ ClockInv /\ [Next]_vars => ClockInv'
  BY ClocksRightStep, AfterStep, SilentStep DEF ClockInv
<1> QED  BY <1>1, <1>2, Invariance, PTL DEF Spec

\* Call deadlines stand still while the module loads and run otherwise (ensureWorker, moduleLoaded,
\* pump, runClock and pauseClock of workerBackend.ts).
THEOREM ClocksKeepTime == Spec => []ClockDiscipline
<1>1. ASSUME IInv, ClockInv PROVE ClockDiscipline
  <2>1. SUFFICES ASSUME pc = "idle", NEW c \in Calls
                 PROVE  /\ ticking[c] <=> c \in Queued \cup {inFlight} /\ budget[c] # Infinity /\ worker # "loading"
                        /\ ticking[c] => proc # "loading"
    BY DEF ClockDiscipline
  <2>2. Queued = Elems(queue) /\ (ticking[c] => c \in Elems(queue) \/ c = inFlight \/ c = next) /\ NoCall \notin Calls
    BY <1>1, AccountingPlaces DEF IInv, ClocksHeld, Places
  <2>3. next = NoCall /\ after = "idle"
    BY <1>1, <2>1 DEF IInv, HandlerShape, ClockInv, AfterShape
  <2>4. c \in Elems(queue) \/ c = inFlight => worker \in {"loading", "ready"}
    <3>1. c \in Elems(queue) => queue # <<>>
      BY DEF Elems
    <3>2. c \in Elems(queue) \/ c = inFlight => inFlight # NoCall
      BY <1>1, <2>1, <2>2, <3>1 DEF IInv, WorkConserving
    <3> QED  BY <1>1, <3>2 DEF IInv, WorkerShape, TypeOK, WorkerTypes
  <2>5. /\ ticking[c] => budget[c] # Infinity
        /\ worker = "ready" /\ (c \in Elems(queue) \/ c = inFlight) /\ budget[c] # Infinity => ticking[c]
        /\ worker = "loading" /\ (c \in Elems(queue) \/ c = inFlight) => ~ticking[c]
    BY <1>1, <2>3 DEF ClockInv, Clocks
  <2>6. proc = "loading" => worker = "loading"
    BY <1>1 DEF ClockInv, LoadingIsSilent
  <2> QED  BY <2>2, <2>3, <2>4, <2>5, <2>6
<1> QED  BY <1>1, Invariance, ClockInvariance, PTL

-----------------------------------------------------------------------------
(* Deadlines: the margin to start a call. *)

\* minTurnMs: some time is always asked for, and no less on a worker that has not run the function.
LEMMA MinTurnOrder ==
  ASSUME NEW b \in Nat \ {0}
  PROVE  /\ MinTurn(b, TRUE) \in Nat \ {0} /\ MinTurn(b, FALSE) \in Nat \ {0}
         /\ MinTurn(b, TRUE) <= MinTurn(b, FALSE)
<1> DEFINE cold == Larger(COLD_TURN_FLOOR, Smaller(COLD_TURN, b \div ColdShare))
<1>1. MIN_TURN \in Nat \ {0} /\ COLD_TURN \in Nat /\ COLD_TURN_FLOOR \in Nat /\ MIN_TURN <= COLD_TURN_FLOOR /\ ColdShare \in Nat \ {0}
  BY ConstantsAssumption
<1>2. b \div ColdShare \in Int
  BY <1>1
<1>3. cold \in Int /\ MIN_TURN <= cold
  <2> DEFINE d == b \div ColdShare
  <2>1. d \in Int
    BY <1>2
  <2> HIDE DEF d
  <2> QED  BY <1>1, <2>1 DEF Larger, Smaller, d
<1>4. MinTurn(b, TRUE) = Smaller(MIN_TURN, b) /\ MinTurn(b, FALSE) = Smaller(cold, b)
  BY DEF MinTurn
<1> DEFINE hot == MinTurn(b, TRUE)
           any == MinTurn(b, FALSE)
<1>5. hot = (IF MIN_TURN < b THEN MIN_TURN ELSE b) /\ any = (IF cold < b THEN cold ELSE b)
  BY <1>4 DEF Smaller
<1> HIDE DEF cold, hot, any
<1>6. hot \in Nat \ {0} /\ any \in Nat \ {0} /\ hot <= any
  BY <1>1, <1>3, <1>5
<1> QED  BY <1>6 DEF hot, any

\* A deadline is a positive number.
LEMMA BudgetType ==
  ASSUME TypeOK, NEW c \in Calls, budget[c] # Infinity
  PROVE  budget[c] \in Nat \ {0} /\ left[c] \in Int
<1>1. budget[c] \in Budgets \cup {Infinity} /\ left[c] \in Nat \cup {Infinity}
  BY DEF TypeOK, CallTypes
<1>2. Budgets \subseteq (Nat \ {0}) \cup {Infinity}
  BY ConstantsAssumption
<1>3. budget[c] \in Nat \ {0}
  BY <1>1, <1>2
<1>4. left[c] \in Int
  BY <1>1
<1> QED  BY <1>3, <1>4

\* A call out of time on a worker that has run its function is out of time on any.
LEMMA OutOfTimeAnywhere ==
  ASSUME TypeOK, NEW c \in Calls, budget[c] # Infinity, left[c] < MinTurn(budget[c], TRUE), NEW w \in BOOLEAN
  PROVE  OutOfTime(c, w)
<1> DEFINE hot == MinTurn(budget[c], TRUE)
           any == MinTurn(budget[c], FALSE)
<1>b. budget[c] \in Nat \ {0} /\ left[c] \in Int
  BY BudgetType
<1>m. hot \in Nat \ {0} /\ any \in Nat \ {0} /\ hot <= any
  BY <1>b, MinTurnOrder
<1>1. left[c] < hot
  OBVIOUS
<1> HIDE DEF hot, any
<1>2. left[c] < hot /\ left[c] < any
  BY <1>1, <1>b, <1>m
<1>3. w = TRUE \/ w = FALSE
  OBVIOUS
<1> QED  BY <1>2, <1>3 DEF OutOfTime, hot, any

\* A call that is not out of time has its margin left when markStarted notes what it waited.
LEMMA StartedInTime ==
  ASSUME TypeOK, NEW c \in Calls, NEW w \in BOOLEAN, budget[c] # Infinity, ~OutOfTime(c, w)
  PROVE  budget[c] - Started(c)[c] >= MinTurn(budget[c], w)
<1> DEFINE m == MinTurn(budget[c], w)
<1>1. budget[c] \in Nat \ {0} /\ left[c] \in Int
  BY BudgetType
<1>2. m \in Nat
  <2>1. w = TRUE \/ w = FALSE
    OBVIOUS
  <2>2. CASE w = TRUE
    BY <1>1, <2>2, MinTurnOrder
  <2>3. CASE w = FALSE
    BY <1>1, <2>3, MinTurnOrder
  <2> QED  BY <2>1, <2>2, <2>3
<1>3. ~(left[c] < m)
  BY DEF OutOfTime
<1>4. Started(c)[c] = budget[c] - left[c]
  BY DEF Started, TypeOK, CallTypes
<1> HIDE DEF m
<1>5. budget[c] - Started(c)[c] >= m
  BY <1>1, <1>2, <1>3, <1>4
<1> QED  BY <1>5 DEF m

\* The call shifted off the queue, and one waiting at a loading worker, have their margin left.
ShiftedInTime == next # NoCall => ~OutOfTime(next, RanHere(next))
LoadingInTime == inFlight # NoCall /\ worker = "loading" => ~OutOfTime(inFlight, RanHere(inFlight))
MarginInv == ShiftedInTime /\ LoadingInTime /\ MarginKept

\* Every step keeps the margins.
LEMMA MarginStep ==
  ASSUME IInv, ClockInv, MarginInv, [Next]_vars
  PROVE  MarginInv'
<1> USE DEF vars, queueVars, workerVars, failureVars, callVars, procVars, records
<1>t. /\ TypeOK /\ HandlerShape /\ WorkerShape /\ NoCall \notin Calls
      /\ inFlight \in Calls \cup {NoCall} /\ next \in Calls \cup {NoCall}
      /\ DOMAIN fn = Calls /\ DOMAIN budget = Calls /\ DOMAIN left = Calls /\ left = [c \in Calls |-> left[c]]
  BY DEF IInv, TypeOK, SchedulerTypes, CallTypes
<1>n. pc \notin {"start", "drop"} => next = NoCall
  BY <1>t DEF HandlerShape
<1>1. ASSUME inFlight' = NoCall, next' = NoCall PROVE MarginInv'
  BY <1>1 DEF MarginInv, ShiftedInTime, LoadingInTime, MarginKept
<1>2. ASSUME UNCHANGED <<fn, budget, left, waited, ranHere, inFlight>>, worker' \in {worker, "none"}, next' \in {next, NoCall} PROVE MarginInv'
  BY <1>2 DEF MarginInv, ShiftedInTime, LoadingInTime, MarginKept, OutOfTime, RanHere
<1>3. CASE Tick
  <2>1. /\ next' = NoCall /\ UNCHANGED <<fn, budget, waited, ranHere, inFlight, worker>>
        /\ left' = [c \in Calls |-> IF ticking[c] THEN Countdown(left[c]) ELSE left[c]]
    BY <1>3, <1>n DEF Tick
  <2>2. inFlight # NoCall /\ worker = "loading" => left'[inFlight] = left[inFlight]
    BY <1>t, <2>1 DEF ClockInv, Clocks
  <2> QED  BY <2>1, <2>2 DEF MarginInv, ShiftedInTime, LoadingInTime, MarginKept, OutOfTime, RanHere
<1>4. CASE DropOutOfTime \/ DropDone \/ PumpWithoutWorker \/ PumpRefuseArgs \/ PumpDone \/ WaitersWithoutWorker \/ CallRawTurnedAway
           \/ UNCHANGED vars
  <2>1. UNCHANGED <<fn, budget, left, waited, ranHere, inFlight, worker>> /\ next' \in {next, NoCall}
    BY <1>4 DEF DropOutOfTime, DropDone, PumpWithoutWorker, PumpRefuseArgs, PumpDone, WaitersWithoutWorker, CallRawTurnedAway
  <2> QED  BY <1>2, <2>1
<1>5. CASE PumpTake
  <2>1. /\ inFlight' = NoCall /\ UNCHANGED <<fn, budget, left, ranHere>>
        /\ next' = next \/ (next' = Head(queue) /\ ~OutOfTime(next', RanHere(next')))
    BY <1>5 DEF PumpTake
  <2>2. next = NoCall
    BY <1>5, <1>n DEF PumpTake
  <2> QED  BY <2>1, <2>2 DEF MarginInv, ShiftedInTime, LoadingInTime, MarginKept, OutOfTime, RanHere
<1>6. CASE PumpSpawn \/ WaitersSpawn
  <2>1. UNCHANGED <<fn, budget, left, ranHere, next, inFlight>> /\ inFlight = NoCall
    BY <1>6, <1>t DEF PumpSpawn, WaitersSpawn, Spawn, HandlerShape, WorkerShape
  <2> QED  BY <2>1 DEF MarginInv, ShiftedInTime, LoadingInTime, MarginKept, OutOfTime, RanHere
<1>7. CASE PumpPost
  <2>1. /\ pc = "start" /\ inFlight' = next /\ next' = NoCall /\ UNCHANGED <<fn, budget, left, ranHere, worker>>
        /\ worker = "ready" => waited' = Started(next)
    BY <1>7, <1>t DEF PumpPost, TypeOK, WorkerTypes
  <2>2. next \in Calls /\ ~OutOfTime(next, RanHere(next))
    BY <2>1, <1>t DEF HandlerShape, MarginInv, ShiftedInTime
  <2>3. RanHere(next) \in BOOLEAN
    BY DEF RanHere
  <2>4. budget[next] # Infinity => budget[next] - Started(next)[next] >= MinTurn(budget[next], RanHere(next))
    BY <1>t, <2>2, <2>3, StartedInTime
  <2> QED  BY <2>1, <2>2, <2>4 DEF MarginInv, ShiftedInTime, LoadingInTime, MarginKept, OutOfTime, RanHere
<1>8. ASSUME NEW f \in Fns, NEW b \in Budgets, CallRaw(f, b) PROVE MarginInv'
  <2> DEFINE n == submitted + 1
  <2>1. /\ pc = "idle" /\ UNCHANGED <<inFlight, next, worker, ranHere, waited>>
        /\ fn' = [fn EXCEPT ![n] = f] /\ budget' = [budget EXCEPT ![n] = b] /\ left' = [left EXCEPT ![n] = b]
    BY <1>8 DEF CallRaw
  <2>2. n \in Nat /\ n > submitted /\ n <= MaxCalls /\ MaxCalls \in Nat /\ submitted \in Nat
    BY <1>8, <1>t, ConstantsAssumption DEF CallRaw, TypeOK, CallTypes
  <2>3. inFlight # n
    <3>1. Places(phase, queue, inFlight, next, submitted)
      BY AccountingPlaces DEF IInv
    <3>2. n \in Calls /\ n > submitted
      BY <2>2
    <3> HIDE DEF n
    <3>3. phase[n] = "new"
      BY <3>1, <3>2 DEF Places
    <3>4. n = inFlight => phase[n] = "held"
      BY <3>1, <3>2 DEF Places
    <3> QED  BY <3>3, <3>4
  <2> HIDE DEF n
  <2>4. inFlight # NoCall => fn'[inFlight] = fn[inFlight] /\ budget'[inFlight] = budget[inFlight] /\ left'[inFlight] = left[inFlight]
    BY <1>t, <2>1, <2>3
  <2> QED  BY <1>n, <2>1, <2>4 DEF MarginInv, ShiftedInTime, LoadingInTime, MarginKept, OutOfTime, RanHere
<1>9. ASSUME NEW c \in Calls, Abort(c) \/ ExpireQueued(c) PROVE MarginInv'
  <2>1. UNCHANGED <<fn, budget, left, waited, ranHere, inFlight, worker, next>>
    BY <1>9 DEF Abort, ExpireQueued
  <2> QED  BY <1>2, <2>1
<1>10. CASE PumpPostThrows \/ Dispose \/ LoadTimedOut \/ ReceiveLoadError \/ ReceiveCrash \/ ReceiveAnswer \/ \E c \in Calls : ExpireRunning(c)
  <2>1. inFlight' = NoCall /\ next' = NoCall
    <3>1. CASE PumpPostThrows
      BY <3>1, <1>t DEF PumpPostThrows, HandlerShape
    <3>2. CASE Dispose \/ LoadTimedOut \/ ReceiveLoadError \/ ReceiveCrash \/ ReceiveAnswer \/ \E c \in Calls : ExpireRunning(c)
      BY <3>2, <1>n DEF Dispose, LoadTimedOut, ReceiveLoadError, LoadFailed, ReceiveCrash, ReceiveAnswer, ExpireRunning
    <3> QED  BY <1>10, <3>1, <3>2
  <2> QED  BY <1>1, <2>1
<1>11. CASE ReceiveLoaded \/ ReceiveFirstAnswer
  <2>1. /\ worker = "loading" /\ worker' = "ready" /\ next' = NoCall /\ UNCHANGED <<fn, budget, left, ranHere, inFlight>>
        /\ waited' = IF inFlight = NoCall THEN waited ELSE Started(inFlight)
    BY <1>11, <1>n DEF ReceiveLoaded, ReceiveFirstAnswer, ModuleLoaded
  <2>2. inFlight # NoCall /\ budget[inFlight] # Infinity =>
          budget[inFlight] - Started(inFlight)[inFlight] >= MinTurn(budget[inFlight], RanHere(inFlight))
    <3>1. RanHere(inFlight) \in BOOLEAN
      BY DEF RanHere
    <3> QED  BY <1>t, <2>1, <3>1, StartedInTime DEF MarginInv, LoadingInTime
  <2> QED  BY <2>1, <2>2 DEF MarginInv, ShiftedInTime, LoadingInTime, MarginKept, RanHere
<1>12. CASE IgnoreMessage \/ Worker
  <2>1. UNCHANGED <<fn, budget, left, waited, ranHere, inFlight, worker, next>>
    BY <1>12 DEF IgnoreMessage, Worker, WorkerLoads, WorkerStarts, WorkerAnswers, WorkerCrashes, HostUnchanged
  <2> QED  BY <1>2, <2>1
<1>13. CASE Fallback \/ \E w \in Warmers : Warm(w)
  <2>1. UNCHANGED <<fn, budget, left, waited, ranHere, inFlight, worker, next>>
    BY <1>13 DEF Fallback, FallbackBuilt, FallbackFails, FallbackProgress, WarmPrepared, Warm
  <2> QED  BY <1>2, <2>1
<1> QED
  BY <1>3, <1>4, <1>5, <1>6, <1>7, <1>8, <1>9, <1>10, <1>11, <1>12, <1>13
     DEF Next, Handler, Host, Timers, Receive

\* No call is on a loaded worker that had less than its margin left when it started: less than
\* minTurnMs, which asks for more of a worker that has not run the function (pump, dropOutOfTime).
THEOREM StartedWithMargin == Spec => []MarginKept
<1>1. Init => MarginInv
  BY DEF Init, MarginInv, ShiftedInTime, LoadingInTime, MarginKept
<1>2. IInv /\ ClockInv /\ MarginInv /\ [Next]_vars => MarginInv'
  BY MarginStep
<1>3. MarginInv => MarginKept
  BY DEF MarginInv
<1> QED  BY <1>1, <1>2, <1>3, Invariance, ClockInvariance, PTL DEF Spec

\* A call is settled as never started only with less than its margin left.
LEMMA DropStep ==
  ASSUME IInv, ClockInv, [Next]_vars, NEW c \in Calls, phase[c] = "held", phase'[c] = "notStarted"
  PROVE  OutOfTime(c, RanHere(c))
<1> USE DEF vars, queueVars, workerVars, failureVars, callVars, procVars, records
<1>t. /\ TypeOK /\ queue \in Seq(Calls) /\ DOMAIN phase = Calls /\ phase = [d \in Calls |-> phase[d]]
  BY DEF IInv, TypeOK, SchedulerTypes, CallTypes
<1>1. ASSUME NEW d, NEW o, phase' = [phase EXCEPT ![d] = o] PROVE d = c /\ o = "notStarted"
  BY <1>1, <1>t
<1>2. CASE DropOutOfTime
  <2>1. PICK i \in 1..Len(queue) : TooLate(i) /\ Settle(queue[i], "notStarted")
    BY <1>2 DEF DropOutOfTime
  <2>2. queue[i] = c
    BY <1>1, <2>1 DEF Settle
  <2>3. RanHere(c) \in BOOLEAN /\ (RanHere(c) => RunsAhead(i))
    <3>1. RanHere(c) \in BOOLEAN
      BY DEF RanHere
    <3>2. RanHere(c) => fn[queue[i]] \in ranHere
      BY <2>2 DEF RanHere
    <3> QED  BY <3>1, <3>2 DEF RunsAhead
  <2>4. OutOfTime(c, RunsAhead(i))
    BY <2>1, <2>2 DEF TooLate
  <2>5. CASE RunsAhead(i)
    <3>1. budget[c] # Infinity /\ left[c] < MinTurn(budget[c], TRUE)
      BY <2>4, <2>5 DEF OutOfTime
    <3> QED  BY <1>t, <2>3, <3>1, OutOfTimeAnywhere
  <2>6. CASE ~RunsAhead(i)
    BY <2>3, <2>4, <2>6 DEF OutOfTime, MinTurn
  <2> QED  BY <2>5, <2>6
<1>3. CASE PumpTake
  BY <1>1, <1>3 DEF PumpTake, Settle, RanHere
<1>4. ASSUME NEW d \in Calls, ExpireQueued(d) PROVE OutOfTime(c, RanHere(c))
  <2>1. d = c /\ ticking[c] /\ left[c] = 0
    BY <1>1, <1>4 DEF ExpireQueued, Settle
  <2>2. budget[c] # Infinity
    BY <2>1 DEF ClockInv, Clocks
  <2>3. budget[c] \in Nat \ {0}
    BY <1>t, <2>2, BudgetType
  <2>4. left[c] < MinTurn(budget[c], TRUE)
    <3> DEFINE hot == MinTurn(budget[c], TRUE)
    <3>1. hot \in Nat \ {0}
      BY <2>3, MinTurnOrder
    <3> HIDE DEF hot
    <3>2. left[c] < hot
      BY <2>1, <3>1
    <3> QED  BY <3>2 DEF hot
  <2>5. RanHere(c) \in BOOLEAN
    BY DEF RanHere
  <2> QED  BY <1>t, <2>2, <2>4, <2>5, OutOfTimeAnywhere
<1>5. CASE PumpWithoutWorker \/ PumpRefuseArgs \/ PumpPostThrows
  <2>1. PICK o \in {"handed", "unavailable", "refused"} : phase' = [phase EXCEPT ![next] = o]
    BY <1>5 DEF PumpWithoutWorker, PumpRefuseArgs, PumpPostThrows, Settle
  <2> QED  BY <1>1, <2>1
<1>6. CASE CallRawTurnedAway \/ \E f \in Fns, b \in Budgets : CallRaw(f, b)
  <2>1. \E o \in {"held", "unavailable", "refused", "aborted"} : phase' = [phase EXCEPT ![submitted + 1] = o]
    BY <1>6 DEF CallRawTurnedAway, CallRaw
  <2> QED  BY <1>1, <2>1
<1>7. ASSUME NEW d \in Calls, Abort(d) \/ ExpireRunning(d) \/ FallbackProgress(d) PROVE OutOfTime(c, RanHere(c))
  <2>1. CASE Abort(d) \/ ExpireRunning(d)
    BY <1>1, <2>1 DEF Abort, ExpireRunning, Settle
  <2>2. CASE FallbackProgress(d)
    <3>1. \E o \in {"undefined", "onFallback", "value", "error", "aborted"} : phase' = [phase EXCEPT ![d] = o]
      BY <2>2 DEF FallbackProgress
    <3> QED  BY <1>1, <3>1
  <2> QED  BY <1>7, <2>1, <2>2
<1>8. CASE Dispose \/ FallbackFails
  <2>1. CASE Dispose
    <3>1. phase' = [d \in Calls |-> IF d \in Rejected THEN "unavailable" ELSE phase[d]]
      BY <2>1 DEF Dispose
    <3>2. phase'[c] = "unavailable" \/ phase'[c] = phase[c]
      BY <3>1
    <3> QED  BY <3>2
  <2>2. CASE FallbackFails
    <3>1. phase' = [d \in Calls |-> IF phase[d] = "handed" THEN "fallbackError" ELSE phase[d]]
      BY <2>2 DEF FallbackFails
    <3>2. phase'[c] = "fallbackError" \/ phase'[c] = phase[c]
      BY <3>1
    <3> QED  BY <3>2
  <2> QED  BY <1>8, <2>1, <2>2
<1>9. CASE ReceiveCrash
  <2>1. phase' = phase \/ phase' = [phase EXCEPT ![inFlight] = "unavailable"]
    BY <1>9 DEF ReceiveCrash, Settle
  <2> QED  BY <1>1, <2>1
<1>10. CASE ReceiveAnswer
  <2>1. \E o \in Answers : phase' = [phase EXCEPT ![inFlight] = o]
    BY <1>10 DEF ReceiveAnswer, IsAnswer, Answers, Settle
  <2> QED  BY <1>1, <2>1 DEF Answers
<1>11. CASE phase' = phase
  BY <1>11
<1>12. CASE Tick \/ DropDone \/ PumpSpawn \/ PumpPost \/ PumpDone \/ WaitersSpawn \/ WaitersWithoutWorker \/ LoadTimedOut \/ UNCHANGED vars
  BY <1>11, <1>12 DEF Tick, DropDone, PumpSpawn, PumpPost, PumpDone, WaitersSpawn, WaitersWithoutWorker, Spawn, LoadTimedOut, LoadFailed
<1>13. CASE ReceiveLoaded \/ ReceiveLoadError \/ ReceiveFirstAnswer \/ IgnoreMessage \/ Worker
  BY <1>11, <1>13 DEF ReceiveLoaded, ReceiveLoadError, LoadFailed, ReceiveFirstAnswer, ModuleLoaded, IgnoreMessage, Worker, WorkerLoads,
     WorkerStarts, WorkerAnswers, WorkerCrashes, HostUnchanged
<1>14. CASE FallbackBuilt \/ \E w \in Warmers : Warm(w) \/ WarmPrepared(w)
  BY <1>11, <1>14 DEF FallbackBuilt, Warm, WarmPrepared
<1> QED
  BY <1>2, <1>3, <1>4, <1>5, <1>6, <1>7, <1>8, <1>9, <1>10, <1>12, <1>13, <1>14
     DEF Next, Handler, Host, Timers, Receive, Fallback

\* "Never started" is said only of a call with less than its margin left, wherever it waited (pump,
\* dropOutOfTime, and the timer of runClock).
THEOREM DroppedForALackOfTime == Spec => DroppedOnlyLate
<1>1. ASSUME IInv, ClockInv, [Next]_vars
      PROVE  [\A c \in Calls : phase[c] = "held" /\ phase'[c] = "notStarted" => OutOfTime(c, fn[c] \in ranHere)]_vars
  BY <1>1, DropStep DEF RanHere
<1> QED  BY <1>1, Invariance, ClockInvariance, PTL DEF Spec, DroppedOnlyLate

-----------------------------------------------------------------------------
(* The reference that keeps the process alive. *)

\* The reference, of the values it depends on: it is right when no handler runs, and while an answer is handled.
Referenced(p, wk, q, f, wr, r) ==
  p \in {"idle", "answer"} /\ wk # "none" => r = IF f # NoCall \/ q # <<>> \/ (\E w \in Warmers : wr[w] = "waiting") THEN "ref" ELSE "unref"

RefInv == Referenced(pc, worker, queue, inFlight, warm, refd)

\* Every step that ends a handler with something else to wait for calls syncRef.
LEMMA RefStep ==
  ASSUME IInv, RefInv, [Next]_vars
  PROVE  RefInv'
<1> USE DEF vars, queueVars, workerVars, failureVars, callVars, procVars, records
<1>t. warm \in [Warmers -> {"new", "waiting", "preparing", "resolved", "rejected"}] /\ HandlerShape
  BY DEF IInv, TypeOK, SchedulerTypes
<1>1. CASE SyncRef
  BY <1>1 DEF SyncRef, Busy, Waiting, RefInv, Referenced
<1>2. CASE pc' \notin {"idle", "answer"} \/ worker' = "none"
  BY <1>2 DEF RefInv, Referenced
<1>3. ASSUME UNCHANGED <<worker, queue, inFlight, refd>>, pc \in {"idle", "answer"},
             \A w \in Warmers : warm'[w] = "waiting" <=> warm[w] = "waiting"
      PROVE  RefInv'
  BY <1>3 DEF RefInv, Referenced
<1>4. CASE Handler
  <2>1. CASE DropDone \/ PumpDone
    BY <1>1, <2>1 DEF DropDone, PumpDone
  <2>2. CASE WaitersWithoutWorker
    <3>1. worker' = "none"
      BY <2>2, <1>t DEF WaitersWithoutWorker, HandlerShape
    <3> QED  BY <1>2, <3>1
  <2>3. CASE DropOutOfTime \/ PumpTake
    BY <1>2, <2>3 DEF DropOutOfTime, PumpTake
  <2>4. CASE PumpSpawn \/ WaitersSpawn
    BY <1>2, <2>4 DEF PumpSpawn, WaitersSpawn, Spawn
  <2>5. CASE PumpWithoutWorker \/ PumpPost \/ PumpRefuseArgs \/ PumpPostThrows
    BY <1>2, <2>5 DEF PumpWithoutWorker, PumpPost, PumpRefuseArgs, PumpPostThrows
  <2> QED  BY <1>4, <2>1, <2>2, <2>3, <2>4, <2>5 DEF Handler
<1>5. ASSUME NEW f \in Fns, NEW b \in Budgets, CallRaw(f, b) PROVE RefInv'
  BY <1>2, <1>5 DEF CallRaw
<1>6. CASE CallRawTurnedAway \/ IgnoreMessage \/ Worker \/ Tick
  <2>1. UNCHANGED <<worker, queue, inFlight, refd, warm>> /\ pc \in {"idle", "answer"}
    BY <1>6 DEF CallRawTurnedAway, IgnoreMessage, Worker, WorkerLoads, WorkerStarts, WorkerAnswers, WorkerCrashes, HostUnchanged, Tick
  <2> QED  BY <1>3, <2>1
<1>7. ASSUME NEW c \in Calls, Abort(c) PROVE RefInv'
  <2>1. CASE Droppable(c)
    BY <1>1, <1>7, <2>1 DEF Abort
  <2>2. CASE ~Droppable(c)
    BY <1>3, <1>7, <2>2 DEF Abort
  <2> QED  BY <2>1, <2>2
<1>8. ASSUME NEW w \in Warmers, Warm(w) PROVE RefInv'
  <2>1. CASE warm'[w] = "waiting"
    BY <1>1, <1>8, <2>1 DEF Warm
  <2>2. CASE warm'[w] # "waiting"
    <3>1. UNCHANGED <<worker, queue, inFlight, refd>> /\ pc = "idle" /\ warm[w] = "new"
      BY <1>8, <2>2 DEF Warm
    <3>2. \E o : warm' = [warm EXCEPT ![w] = o]
      BY <1>8 DEF Warm
    <3>3. \A v \in Warmers : warm'[v] = "waiting" <=> warm[v] = "waiting"
      BY <1>t, <2>2, <3>1, <3>2
    <3> QED  BY <1>3, <3>1, <3>3
  <2> QED  BY <2>1, <2>2
<1>9. CASE Dispose \/ LoadTimedOut \/ ReceiveLoadError \/ ReceiveCrash \/ \E c \in Calls : ExpireRunning(c)
  <2>1. worker' = "none"
    BY <1>9 DEF Dispose, LoadTimedOut, ReceiveLoadError, LoadFailed, ReceiveCrash, ExpireRunning, DiscardWorker
  <2> QED  BY <1>2, <2>1
<1>10. CASE ReceiveLoaded \/ ReceiveFirstAnswer \/ \E c \in Calls : ExpireQueued(c)
  BY <1>1, <1>10 DEF ReceiveLoaded, ReceiveFirstAnswer, ModuleLoaded, ExpireQueued
<1>11. CASE ReceiveAnswer
  BY <1>2, <1>11 DEF ReceiveAnswer
<1>12. CASE Fallback
  <2>1. UNCHANGED <<worker, queue, inFlight, refd>> /\ pc = "idle"
    BY <1>12 DEF Fallback, FallbackBuilt, FallbackFails, FallbackProgress, WarmPrepared
  <2>2. \A w \in Warmers : warm'[w] = "waiting" <=> warm[w] = "waiting"
    BY <1>12, <1>t DEF Fallback, FallbackBuilt, FallbackFails, FallbackProgress, WarmPrepared
  <2> QED  BY <1>3, <2>1, <2>2
<1>13. CASE UNCHANGED vars
  BY <1>13 DEF RefInv, Referenced
<1> QED
  BY <1>4, <1>5, <1>6, <1>7, <1>8, <1>9, <1>10, <1>11, <1>12, <1>13 DEF Next, Host, Timers, Receive

\* The worker holds the process open exactly while a call or a warm() waits (syncRef of workerBackend.ts).
THEOREM ReferencedWhileNeeded == Spec => []RefdWhileBusy
<1>1. Init => RefInv
  BY DEF Init, RefInv, Referenced
<1>2. IInv /\ RefInv /\ [Next]_vars => RefInv'
  BY RefStep
<1>3. ASSUME IInv, RefInv PROVE RefdWhileBusy
  <2>1. Queued = {} <=> queue = <<>>
    <3>1. queue \in Seq(Calls)
      BY <1>3 DEF IInv, TypeOK, SchedulerTypes
    <3>2. queue # <<>> => Head(queue) \in Elems(queue)
      BY <3>1, TailElems
    <3>3. Queued = Elems(queue)
      BY AccountingPlaces
    <3> QED  BY <3>2, <3>3 DEF Queued
  <2> QED  BY <1>3, <2>1 DEF RefdWhileBusy, RefInv, Referenced, Waiting
<1> QED  BY <1>1, <1>2, <1>3, Invariance, PTL DEF Spec

-----------------------------------------------------------------------------
(* A call that waits has not run. *)

\* What the wire tells of the present worker's module: that it failed to load, before some
\* message or at all, and that the first thing said is that it loaded.
TroubleBefore(i) == \E j \in 1..Len(wire) : j < i /\ wire[j].gen = gen /\ wire[j].type = "loadError"
LoadTrouble == \E j \in 1..Len(wire) : wire[j].gen = gen /\ wire[j].type = "loadError"
LoadedFirst == \E i \in 1..Len(wire) : wire[i].gen = gen /\ wire[i].type = "loaded" /\ \A j \in 1..(i - 1) : wire[j].gen # gen

\* The present worker's module has loaded, whatever became of it since; and what the call in flight ran on.
HasLoaded == proc \in {"ready", "running", "poisoned", "dead"}
InFlightRan == inFlight # NoCall /\ runs[inFlight] # 0 /\ inFlight \notin overtaken

OnlySettledRan ==
  \A c \in Calls \ overtaken : runs[c] # 0 => (phase[c] = "held" /\ c = inFlight) \/ phase[c] \in Answers \cup {"abandoned", "unavailable"}
ToldOfLoad == /\ LoadTrouble => proc \in {"broken", "stillborn"}
              /\ proc = "broken" => LoadTrouble
              /\ "silentLoad" \notin Faults /\ worker = "loading" /\ HasLoaded => LoadedFirst
              /\ \A i \in Answered : runs[inFlight] # 0 \/ TroubleBefore(i)
RequestShape == /\ proc = "running" => runs[inFlight] # 0
                /\ InFlightRan => HasLoaded
                /\ inbox # <<>> /\ proc \notin {"running", "dead"} => runs[inFlight] = 0 \/ inFlight \in overtaken
RunInv == OnlySettledRan /\ ToldOfLoad /\ RequestShape

\* A message read off the wire.
LEMMA TroubleTail ==
  ASSUME wire \in Seq(Message), wire # <<>>, wire' = Tail(wire), gen' = gen
  PROVE  /\ LoadTrouble' => LoadTrouble
         /\ wire[1].gen = gen /\ wire[1].type = "loadError" => LoadTrouble
         /\ LoadedFirst /\ wire[1].gen = gen => wire[1].type = "loaded"
         /\ ~(wire[1].gen = gen /\ wire[1].type = "loadError") =>
              (LoadTrouble => LoadTrouble') /\ \A i \in Answered' : TroubleBefore(i + 1) => TroubleBefore(i)'
         /\ wire[1].gen # gen /\ LoadedFirst => LoadedFirst'
<1>1. /\ Len(wire') = Len(wire) - 1 /\ Len(wire) \in Nat \ {0}
      /\ \A i \in 1..Len(wire') : wire'[i] = wire[i + 1] /\ i + 1 \in 1..Len(wire)
      /\ \A i \in Answered' : i \in 1..Len(wire')
  BY AnsweredTail
<1>2. \A i \in 1..Len(wire) : i = 1 \/ (i - 1 \in 1..Len(wire') /\ wire'[i - 1] = wire[i])
  BY <1>1
<1>3. LoadTrouble' => LoadTrouble
  BY <1>1 DEF LoadTrouble
<1>4. wire[1].gen = gen /\ wire[1].type = "loadError" => LoadTrouble
  BY <1>1 DEF LoadTrouble
<1>5. ASSUME LoadedFirst, wire[1].gen = gen PROVE wire[1].type = "loaded"
  <2>1. PICK i \in 1..Len(wire) : wire[i].type = "loaded" /\ \A j \in 1..(i - 1) : wire[j].gen # gen
    BY <1>5 DEF LoadedFirst
  <2>2. i # 1 => 1 \in 1..(i - 1)
    BY <1>1
  <2> QED  BY <1>5, <2>1, <2>2
<1>6. ASSUME ~(wire[1].gen = gen /\ wire[1].type = "loadError"), LoadTrouble PROVE LoadTrouble'
  <2>1. PICK j \in 1..Len(wire) : wire[j].gen = gen /\ wire[j].type = "loadError"
    BY <1>6 DEF LoadTrouble
  <2>2. j - 1 \in 1..Len(wire') /\ wire'[j - 1] = wire[j]
    BY <1>2, <1>6, <2>1
  <2> QED  BY <2>1, <2>2 DEF LoadTrouble
<1>7. ASSUME ~(wire[1].gen = gen /\ wire[1].type = "loadError"), NEW i \in Answered', TroubleBefore(i + 1) PROVE TroubleBefore(i)'
  <2>1. PICK j \in 1..Len(wire) : j < i + 1 /\ wire[j].gen = gen /\ wire[j].type = "loadError"
    BY <1>7 DEF TroubleBefore
  <2>2. j # 1 /\ j - 1 < i
    BY <1>1, <1>7, <2>1
  <2>3. j - 1 \in 1..Len(wire') /\ wire'[j - 1] = wire[j]
    BY <1>2, <2>2
  <2> QED  BY <2>1, <2>2, <2>3 DEF TroubleBefore
<1>8. ASSUME wire[1].gen # gen, LoadedFirst PROVE LoadedFirst'
  <2>1. PICK i \in 1..Len(wire) : wire[i].gen = gen /\ wire[i].type = "loaded" /\ \A j \in 1..(i - 1) : wire[j].gen # gen
    BY <1>8 DEF LoadedFirst
  <2>2. i - 1 \in 1..Len(wire') /\ wire'[i - 1] = wire[i]
    BY <1>2, <1>8, <2>1
  <2>3. ASSUME NEW j \in 1..(i - 1 - 1) PROVE wire'[j].gen # gen
    <3>1. j \in 1..Len(wire') /\ j + 1 \in 1..(i - 1)
      BY <2>2
    <3> QED  BY <1>1, <2>1, <3>1
  <2> QED  BY <2>1, <2>2, <2>3 DEF LoadedFirst
<1> QED  BY <1>3, <1>4, <1>5, <1>6, <1>7, <1>8

\* A message posted.
LEMMA TroubleAppend ==
  ASSUME wire \in Seq(Message), NEW m \in Message, wire' = Append(wire, m), gen' = gen
  PROVE  /\ LoadTrouble => LoadTrouble' /\ \A k \in {Len(wire) + 1} : TroubleBefore(k)'
         /\ LoadTrouble' => LoadTrouble \/ (m.gen = gen /\ m.type = "loadError")
         /\ m.gen = gen /\ m.type = "loadError" => LoadTrouble'
         /\ LoadedFirst => LoadedFirst'
         /\ m.gen = gen /\ m.type = "loaded" /\ (\A i \in 1..Len(wire) : wire[i].gen # gen) => LoadedFirst'
         /\ \A i \in Answered : TroubleBefore(i) => TroubleBefore(i)'
<1> DEFINE n == Len(wire) + 1
<1>1. /\ Len(wire') = n /\ n \in Nat \ {0} /\ Len(wire) \in Nat /\ wire'[n] = m
      /\ \A i \in 1..Len(wire) : wire'[i] = wire[i]
      /\ \A i \in 1..Len(wire') : i \in 1..Len(wire) \/ i = n
  BY AnsweredAppend
<1>2. n \in 1..Len(wire') /\ \A i \in 1..Len(wire) : i \in 1..Len(wire') /\ i \in 1..(n - 1)
  BY <1>1
<1>3. \A i \in 1..n : \A j \in 1..(i - 1) : j \in 1..Len(wire) /\ wire'[j] = wire[j]
  BY <1>1
<1>4. ASSUME LoadTrouble PROVE LoadTrouble' /\ \A k \in {n} : TroubleBefore(k)'
  <2>1. PICK j \in 1..Len(wire) : wire[j].gen = gen /\ wire[j].type = "loadError"
    BY <1>4 DEF LoadTrouble
  <2>2. j \in 1..Len(wire') /\ wire'[j] = wire[j] /\ j < n
    BY <1>1, <1>2
  <2> HIDE DEF n
  <2> QED  BY <2>1, <2>2 DEF LoadTrouble, TroubleBefore
<1>5. LoadTrouble' => LoadTrouble \/ (m.gen = gen /\ m.type = "loadError")
  <2> HIDE DEF n
  <2> QED  BY <1>1 DEF LoadTrouble
<1>6. m.gen = gen /\ m.type = "loadError" => LoadTrouble'
  <2> HIDE DEF n
  <2> QED  BY <1>1, <1>2 DEF LoadTrouble
<1>7. ASSUME LoadedFirst PROVE LoadedFirst'
  <2>1. PICK i \in 1..Len(wire) : wire[i].gen = gen /\ wire[i].type = "loaded" /\ \A j \in 1..(i - 1) : wire[j].gen # gen
    BY <1>7 DEF LoadedFirst
  <2>2. i \in 1..Len(wire') /\ wire'[i] = wire[i] /\ i \in 1..n
    BY <1>1, <1>2
  <2>3. \A j \in 1..(i - 1) : wire'[j].gen # gen
    <3> HIDE DEF n
    <3> QED  BY <1>3, <2>1, <2>2
  <2> QED  BY <2>1, <2>2, <2>3 DEF LoadedFirst
<1>8. ASSUME m.gen = gen, m.type = "loaded", \A i \in 1..Len(wire) : wire[i].gen # gen PROVE LoadedFirst'
  <2> HIDE DEF n
  <2>1. \A j \in 1..(n - 1) : wire'[j].gen # gen
    BY <1>1, <1>2, <1>3, <1>8
  <2> QED  BY <1>1, <1>2, <1>8, <2>1 DEF LoadedFirst
<1>9. ASSUME NEW i \in Answered, TroubleBefore(i) PROVE TroubleBefore(i)'
  <2> HIDE DEF n
  <2> QED  BY <1>1, <1>2, <1>9 DEF TroubleBefore
<1> QED  BY <1>4, <1>5, <1>6, <1>7, <1>8, <1>9

\* Every step keeps that only the call in flight and settled ones have run.
LEMMA SettledRanStep ==
  ASSUME IInv, LoadingIsSilent, RunInv, [Next]_vars
  PROVE  OnlySettledRan'
<1> USE DEF vars, queueVars, workerVars, failureVars, callVars, procVars, records
<1>p. Places(phase, queue, inFlight, next, submitted)
  BY AccountingPlaces DEF IInv
<1>t. /\ TypeOK /\ HandlerShape /\ OneCallAtWorker /\ WorkerShape /\ NoCall \notin Calls /\ OnlySettledRan
      /\ inFlight \in Calls \cup {NoCall} /\ next \in Calls \cup {NoCall} /\ wire \in Seq(Message)
      /\ phase = [d \in Calls |-> phase[d]] /\ runs = [d \in Calls |-> runs[d]] /\ \A d \in Calls : runs[d] \in Nat
  BY DEF IInv, TypeOK, SchedulerTypes, CallTypes, ProcTypes, RunInv
<1>r. \A c \in Calls : phase[c] \notin {"held"} \cup Answers \cup {"abandoned", "unavailable"} => runs[c] = 0 \/ c \in overtaken
  BY <1>t DEF OnlySettledRan
<1>q. \A c \in Calls : c # inFlight /\ phase[c] = "held" => runs[c] = 0 \/ c \in overtaken
  BY <1>t DEF OnlySettledRan, Answers
<1>1. ASSUME UNCHANGED <<phase, runs, overtaken>>, inFlight' = inFlight \/ inFlight = NoCall PROVE OnlySettledRan'
  BY <1>1, <1>t DEF OnlySettledRan
<1>2. ASSUME NEW c \in Calls, NEW o, phase' = [phase EXCEPT ![c] = o], UNCHANGED records,
             runs[c] = 0 \/ c \in overtaken \/ o \in Answers \cup {"abandoned", "unavailable"}, inFlight' = inFlight \/ c = inFlight
      PROVE  OnlySettledRan'
  <2>1. phase'[c] = o /\ \A d \in Calls : d # c => phase'[d] = phase[d]
    BY <1>2, <1>t
  <2>2. ASSUME NEW d \in Calls \ overtaken, runs[d] # 0
        PROVE  (phase'[d] = "held" /\ d = inFlight') \/ phase'[d] \in Answers \cup {"abandoned", "unavailable"}
    <3>1. CASE d = c
      BY <1>2, <2>1, <2>2, <3>1
    <3>2. CASE d # c
      <4>1. (phase[d] = "held" /\ d = inFlight) \/ phase[d] \in Answers \cup {"abandoned", "unavailable"}
        BY <1>t, <2>2 DEF OnlySettledRan
      <4>2. phase'[d] = phase[d] /\ (d = inFlight => inFlight' = inFlight)
        BY <1>2, <2>1, <3>2
      <4> QED  BY <4>1, <4>2
    <3> QED  BY <3>1, <3>2
  <2>3. UNCHANGED <<runs, overtaken>>
    BY <1>2
  <2> QED  BY <2>2, <2>3 DEF OnlySettledRan
<1>3. CASE DropOutOfTime
  <2>1. PICK i \in 1..Len(queue) : phase' = [phase EXCEPT ![queue[i]] = "notStarted"]
    BY <1>3 DEF DropOutOfTime, Settle
  <2>2. queue[i] \in Calls /\ queue[i] \in Elems(queue)
    BY <1>t, QueueType DEF Elems
  <2>3. runs[queue[i]] = 0 \/ queue[i] \in overtaken
    BY <2>2, <1>p, <1>q DEF Places
  <2>4. UNCHANGED <<inFlight, records>>
    BY <1>3 DEF DropOutOfTime
  <2> QED  BY <1>2, <2>1, <2>2, <2>3, <2>4
<1>4. CASE PumpTake
  <2>1. queue # <<>> /\ UNCHANGED <<inFlight, records>> /\ (phase' = phase \/ phase' = [phase EXCEPT ![Head(queue)] = "notStarted"])
    BY <1>4 DEF PumpTake, Settle
  <2>2. Head(queue) \in Elems(queue) /\ Head(queue) \in Calls
    BY <1>t, <2>1, TailElems, QueueType DEF TypeOK, SchedulerTypes
  <2>3. runs[Head(queue)] = 0 \/ Head(queue) \in overtaken
    BY <2>2, <1>p, <1>q DEF Places
  <2> QED  BY <1>1, <1>2, <2>1, <2>2, <2>3
<1>5. CASE PumpWithoutWorker \/ PumpRefuseArgs \/ PumpPostThrows
  <2>1. /\ pc = "start" /\ UNCHANGED <<inFlight, records>>
        /\ \E o \in {"handed", "unavailable", "refused"} : phase' = [phase EXCEPT ![next] = o]
    BY <1>5 DEF PumpWithoutWorker, PumpRefuseArgs, PumpPostThrows, Settle
  <2>2. next \in Calls /\ inFlight = NoCall
    BY <2>1, <1>t DEF HandlerShape
  <2>3. runs[next] = 0 \/ next \in overtaken
    BY <2>2, <1>t, <1>p, <1>q DEF Places
  <2> QED  BY <1>2, <2>1, <2>2, <2>3
<1>6. CASE PumpPost
  <2>1. pc = "start" /\ UNCHANGED <<phase, records>>
    BY <1>6 DEF PumpPost
  <2>2. inFlight = NoCall
    BY <2>1, <1>t DEF HandlerShape
  <2> QED  BY <1>1, <2>1, <2>2
<1>7. CASE CallRawTurnedAway \/ \E f \in Fns, b \in Budgets : CallRaw(f, b)
  <2>1. /\ UNCHANGED <<inFlight, records>> /\ submitted < MaxCalls
        /\ \E o \in {"held", "unavailable", "refused", "aborted"} : phase' = [phase EXCEPT ![submitted + 1] = o]
    BY <1>7 DEF CallRawTurnedAway, CallRaw
  <2>n. submitted \in Nat /\ MaxCalls \in Nat
    BY <1>t, ConstantsAssumption DEF TypeOK, CallTypes
  <2>2. submitted + 1 \in Calls /\ submitted + 1 > submitted
    BY <2>1, <2>n DEF Calls
  <2>3. phase[submitted + 1] = "new"
    BY <2>2, <1>p DEF Places
  <2>4. runs[submitted + 1] = 0 \/ submitted + 1 \in overtaken
    BY <2>2, <2>3, <1>r DEF Answers
  <2> QED  BY <1>2, <2>1, <2>2, <2>4
<1>8. ASSUME NEW c \in Calls, Abort(c) PROVE OnlySettledRan'
  <2>1. UNCHANGED <<inFlight, records>> /\ (phase' = phase \/ (c \in Queued /\ phase' = [phase EXCEPT ![c] = "aborted"]))
    BY <1>8 DEF Abort, Settle, Droppable
  <2>2. c \in Queued => runs[c] = 0 \/ c \in overtaken
    BY <1>p, <1>q, AccountingPlaces DEF Places
  <2> QED  BY <1>1, <1>2, <2>1, <2>2
<1>9. ASSUME NEW c \in Calls, ExpireQueued(c) PROVE OnlySettledRan'
  <2>1. inFlight # c /\ ticking[c] /\ UNCHANGED <<inFlight, records>> /\ phase' = [phase EXCEPT ![c] = "notStarted"]
    BY <1>9 DEF ExpireQueued, Settle
  <2>2. runs[c] = 0 \/ c \in overtaken
    BY <2>1, <1>q DEF IInv, ClocksHeld
  <2> QED  BY <1>2, <2>1, <2>2
<1>10. ASSUME NEW c \in Calls, ExpireRunning(c) PROVE OnlySettledRan'
  <2>1. inFlight = c /\ UNCHANGED records /\ phase' = [phase EXCEPT ![c] = "abandoned"]
    BY <1>10 DEF ExpireRunning, Settle
  <2> QED  BY <1>2, <2>1
<1>11. CASE ReceiveCrash
  <2>1. UNCHANGED records /\ (IF inFlight = NoCall THEN phase' = phase ELSE phase' = [phase EXCEPT ![inFlight] = "unavailable"])
    BY <1>11 DEF ReceiveCrash, Settle
  <2> QED  BY <1>1, <1>2, <1>t, <2>1
<1>12. CASE ReceiveAnswer
  <2>1. /\ wire # <<>> /\ Current(Head(wire)) /\ IsAnswer(Head(wire)) /\ UNCHANGED records
        /\ \E o \in Answers : phase' = [phase EXCEPT ![inFlight] = o]
    BY <1>12 DEF ReceiveAnswer, Settle, IsAnswer, Answers
  <2>2. inFlight \in Calls
    BY <1>t, <2>1, HeadAnswered DEF IInv
  <2> QED  BY <1>2, <2>1, <2>2
<1>13. CASE Dispose
  <2>1. /\ UNCHANGED records
        /\ phase' = [d \in Calls |-> IF d \in Rejected THEN "unavailable" ELSE phase[d]]
    BY <1>13 DEF Dispose
  <2>2. \A d \in Calls : d = inFlight => phase'[d] = "unavailable"
    BY <2>1, <1>t DEF Rejected
  <2> QED  BY <1>t, <2>1, <2>2 DEF OnlySettledRan
<1>14. CASE LoadTimedOut \/ ReceiveLoadError
  <2>1. /\ UNCHANGED <<phase, runs>> /\ inFlight' = NoCall
        /\ overtaken' = IF Unheard /\ inFlight # NoCall THEN overtaken \cup {inFlight} ELSE overtaken
    BY <1>14 DEF LoadTimedOut, ReceiveLoadError, LoadFailed
  <2>2. worker = "loading" \/ proc \in {"broken", "stillborn"}
    <3>1. CASE LoadTimedOut
      BY <3>1, <1>t DEF LoadTimedOut, WorkerShape, Off
    <3>2. CASE ReceiveLoadError
      <4>1. /\ wire # <<>> /\ Current(Head(wire))
            /\ Head(wire).type = "loadError" \/ worker = "loading"
        BY <3>2 DEF ReceiveLoadError, DiedLoading
      <4>2. Head(wire) = wire[1] /\ wire[1].gen = gen /\ 1 \in 1..Len(wire)
        BY <1>t, <4>1, TailElems DEF Current
      <4>3. wire[1].type = "loadError" => LoadTrouble
        BY <4>2 DEF LoadTrouble
      <4> QED  BY <4>1, <4>2, <4>3 DEF RunInv, ToldOfLoad
    <3> QED  BY <1>14, <3>1, <3>2
  <2>3. InFlightRan => Unheard
    BY <1>t, <2>2 DEF RunInv, RequestShape, HasLoaded, Unheard
  <2>4. \A c \in Calls : c = inFlight /\ runs[c] # 0 => c \in overtaken'
    BY <1>t, <2>1, <2>3 DEF InFlightRan
  <2>5. overtaken \subseteq overtaken'
    BY <2>1
  <2>6. ASSUME NEW c \in Calls \ overtaken', runs'[c] # 0
        PROVE  phase'[c] \in Answers \cup {"abandoned", "unavailable"}
    BY <1>t, <2>1, <2>4, <2>5, <2>6 DEF OnlySettledRan
  <2> QED  BY <2>6 DEF OnlySettledRan
<1>15. CASE WorkerStarts
  <2>1. inbox # <<>> /\ UNCHANGED <<phase, inFlight, overtaken>> /\ runs' = [runs EXCEPT ![Head(inbox)] = @ + 1]
    BY <1>15 DEF WorkerStarts, HostUnchanged
  <2>2. inbox = <<inFlight>> /\ inFlight \in Calls
    BY <1>t, <2>1 DEF OneCallAtWorker
  <2>3. Head(inbox) = inFlight /\ phase[inFlight] = "held"
    BY <2>2, <1>p DEF Places
  <2>4. \A d \in Calls : d # inFlight => runs'[d] = runs[d]
    BY <2>1, <2>3, <1>t
  <2> QED  BY <2>1, <2>3, <2>4, <1>t DEF OnlySettledRan
<1>16. ASSUME NEW c \in Calls, FallbackProgress(c) PROVE OnlySettledRan'
  <2>1. (runs[c] = 0 \/ c \in overtaken) /\ c # inFlight /\ UNCHANGED <<inFlight, overtaken>>
    BY <1>16, <1>p, <1>r DEF FallbackProgress, Answers, Places
  <2>2. CASE runs' = runs /\ \E o \in {"undefined", "onFallback", "aborted"} : phase' = [phase EXCEPT ![c] = o]
    BY <1>2, <2>1, <2>2
  <2>3. CASE runs' = [runs EXCEPT ![c] = @ + 1] /\ \E o \in {"value", "error"} : phase' = [phase EXCEPT ![c] = o]
    <3>1. /\ phase'[c] \in Answers /\ \A d \in Calls : d # c => phase'[d] = phase[d] /\ runs'[d] = runs[d]
      BY <2>3, <1>t DEF Answers
    <3> QED  BY <2>1, <3>1, <1>t DEF OnlySettledRan
  <2> QED  BY <1>16, <2>2, <2>3 DEF FallbackProgress
<1>17. CASE FallbackFails
  <2>1. /\ UNCHANGED <<records, inFlight>>
        /\ phase' = [d \in Calls |-> IF phase[d] = "handed" THEN "fallbackError" ELSE phase[d]]
    BY <1>17 DEF FallbackFails
  <2>2. \A d \in Calls : phase[d] = "handed" => runs[d] = 0 \/ d \in overtaken
    BY <1>r DEF Answers
  <2> QED  BY <2>1, <2>2, <1>t DEF OnlySettledRan
<1>18. CASE Tick \/ DropDone \/ PumpSpawn \/ PumpDone \/ WaitersSpawn \/ WaitersWithoutWorker \/ UNCHANGED vars
  <2>1. UNCHANGED <<phase, records, inFlight>>
    BY <1>18 DEF Tick, DropDone, PumpSpawn, PumpDone, WaitersSpawn, WaitersWithoutWorker, Spawn
  <2> QED  BY <1>1, <2>1
<1>19. CASE ReceiveLoaded \/ ReceiveFirstAnswer \/ IgnoreMessage \/ WorkerLoads \/ WorkerAnswers \/ WorkerCrashes
  <2>1. UNCHANGED <<phase, records, inFlight>>
    BY <1>19 DEF ReceiveLoaded, ReceiveFirstAnswer, ModuleLoaded, IgnoreMessage, WorkerLoads, WorkerAnswers, WorkerCrashes, HostUnchanged
  <2> QED  BY <1>1, <2>1
<1>20. CASE FallbackBuilt \/ \E w \in Warmers : Warm(w) \/ WarmPrepared(w)
  <2>1. UNCHANGED <<phase, records, inFlight>>
    BY <1>20 DEF FallbackBuilt, Warm, WarmPrepared
  <2> QED  BY <1>1, <2>1
<1> QED
  BY <1>3, <1>4, <1>5, <1>6, <1>7, <1>8, <1>9, <1>10, <1>11, <1>12, <1>13, <1>14, <1>15, <1>16, <1>17, <1>18, <1>19, <1>20
     DEF Next, Handler, Host, Timers, Receive, Worker, Fallback

\* Every step keeps what the worker has been asked, and that only a loaded one has run the call in flight.
LEMMA RequestStep ==
  ASSUME IInv, LoadingIsSilent, RunInv, [Next]_vars
  PROVE  RequestShape'
<1> USE DEF vars, queueVars, workerVars, failureVars, callVars, procVars, records
<1>p. Places(phase, queue, inFlight, next, submitted)
  BY AccountingPlaces DEF IInv
<1>w. OneCallAtWorker' /\ WorkerShape'
  BY WorkerStep
<1>t. /\ TypeOK /\ HandlerShape /\ OneCallAtWorker /\ WorkerShape /\ NoCall \notin Calls /\ OnlySettledRan /\ RequestShape
      /\ inFlight \in Calls \cup {NoCall} /\ runs = [d \in Calls |-> runs[d]] /\ \A d \in Calls : runs[d] \in Nat
  BY DEF IInv, TypeOK, SchedulerTypes, ProcTypes, RunInv
<1>1. ASSUME UNCHANGED <<proc, inbox, inFlight, overtaken>>, inFlight # NoCall => runs'[inFlight] = runs[inFlight] PROVE RequestShape'
  <2>1. inFlight = NoCall => inbox = <<>> /\ proc # "running"
    BY <1>t DEF OneCallAtWorker, WorkerShape
  <2> QED  BY <1>1, <1>t, <2>1 DEF RequestShape, InFlightRan, HasLoaded
<1>2. ASSUME inbox' = <<>>, proc' # "running", InFlightRan' => HasLoaded' PROVE RequestShape'
  BY <1>2 DEF RequestShape
<1>z. inFlight' = NoCall => ~InFlightRan'
  BY DEF InFlightRan
<1>3. CASE Tick \/ DropOutOfTime \/ DropDone \/ PumpTake \/ PumpWithoutWorker \/ PumpRefuseArgs \/ PumpDone \/ WaitersWithoutWorker
           \/ CallRawTurnedAway \/ UNCHANGED vars
  <2>1. UNCHANGED <<proc, inbox, inFlight, records>>
    BY <1>3 DEF Tick, DropOutOfTime, DropDone, PumpTake, PumpWithoutWorker, PumpRefuseArgs, PumpDone, WaitersWithoutWorker, CallRawTurnedAway
  <2> QED  BY <1>1, <2>1
<1>4. CASE PumpSpawn \/ WaitersSpawn
  <2>1. worker = "none" /\ inFlight' = inFlight /\ inbox' = <<>> /\ proc' = "loading"
    BY <1>4, <1>t DEF PumpSpawn, WaitersSpawn, Spawn, HandlerShape
  <2>2. inFlight' = NoCall
    BY <2>1, <1>t DEF WorkerShape
  <2> QED  BY <1>2, <1>z, <2>1, <2>2
<1>5. CASE PumpPost
  <2>1. pc = "start" /\ inFlight' = next /\ UNCHANGED <<proc, records>>
    BY <1>5 DEF PumpPost
  <2>2. next \in Calls /\ inFlight = NoCall
    BY <2>1, <1>t DEF HandlerShape, TypeOK, SchedulerTypes
  <2>3. runs[next] = 0 \/ next \in overtaken
    BY <2>2, <1>t, <1>p DEF OnlySettledRan, Places, Answers
  <2>4. proc # "running"
    BY <2>2, <1>t DEF OneCallAtWorker, WorkerShape
  <2> QED  BY <2>1, <2>3, <2>4, <1>t DEF RequestShape, InFlightRan
<1>6. CASE PumpPostThrows \/ Dispose \/ LoadTimedOut \/ ReceiveLoadError \/ ReceiveCrash \/ \E c \in Calls : ExpireRunning(c)
  <2>1. DiscardWorker
    BY <1>6 DEF PumpPostThrows, Dispose, LoadTimedOut, ReceiveLoadError, LoadFailed, ReceiveCrash, ExpireRunning
  <2>2. inFlight' = NoCall
    BY <1>6, <1>t DEF PumpPostThrows, HandlerShape, Dispose, LoadTimedOut, ReceiveLoadError, LoadFailed, ReceiveCrash, ExpireRunning
  <2> QED  BY <1>2, <1>z, <2>1, <2>2 DEF DiscardWorker
<1>7. CASE ReceiveAnswer
  <2>1. /\ wire # <<>> /\ Current(Head(wire)) /\ IsAnswer(Head(wire))
        /\ inFlight' = NoCall
        /\ DiscardWorker \/ UNCHANGED <<proc, inbox>>
    BY <1>7 DEF ReceiveAnswer
  <2>2. inbox = <<>> /\ proc # "running"
    BY <2>1, <1>t, HeadAnswered DEF WorkerShape
  <2> QED  BY <1>2, <1>z, <2>1, <2>2 DEF DiscardWorker
<1>8. CASE ReceiveLoaded \/ ReceiveFirstAnswer
  <2>1. UNCHANGED <<proc, inbox, inFlight, records>>
    BY <1>8 DEF ReceiveLoaded, ReceiveFirstAnswer, ModuleLoaded
  <2> QED  BY <1>1, <2>1
<1>9. CASE IgnoreMessage \/ \E f \in Fns, b \in Budgets : CallRaw(f, b)
  <2>1. UNCHANGED <<proc, inbox, inFlight, records>>
    BY <1>9 DEF IgnoreMessage, CallRaw
  <2> QED  BY <1>1, <2>1
<1>10. ASSUME NEW c \in Calls, Abort(c) \/ ExpireQueued(c) PROVE RequestShape'
  <2>1. UNCHANGED <<proc, inbox, inFlight, records>>
    BY <1>10 DEF Abort, ExpireQueued
  <2> QED  BY <1>1, <2>1
<1>11. CASE WorkerLoads
  <2>1. proc = "loading" /\ proc' \in {"ready", "broken"} /\ UNCHANGED <<inbox, inFlight, records>>
    BY <1>11 DEF WorkerLoads, HostUnchanged
  <2>2. ~InFlightRan /\ (inbox # <<>> => runs[inFlight] = 0 \/ inFlight \in overtaken)
    BY <2>1, <1>t DEF RequestShape, HasLoaded
  <2> QED  BY <2>1, <2>2 DEF RequestShape, InFlightRan
<1>12. CASE WorkerStarts
  <2>1. /\ proc' = "running" /\ inbox # <<>> /\ runs' = [runs EXCEPT ![Head(inbox)] = @ + 1]
        /\ UNCHANGED <<inbox, inFlight, overtaken>>
    BY <1>12 DEF WorkerStarts, HostUnchanged
  <2>2. inbox = <<inFlight>> /\ inFlight \in Calls
    BY <2>1, <1>t DEF OneCallAtWorker
  <2>3. runs'[inFlight] = runs[inFlight] + 1 /\ runs[inFlight] \in Nat
    BY <2>1, <2>2, <1>t
  <2> QED  BY <2>1, <2>3 DEF RequestShape, HasLoaded
<1>13. CASE WorkerAnswers
  <2>1. /\ inbox' = Tail(inbox) /\ UNCHANGED <<inFlight, records>>
        /\ (proc = "running" /\ proc' \in {"ready", "poisoned"}) \/ (proc = "broken" /\ proc' = proc)
    BY <1>13 DEF WorkerAnswers, HostUnchanged
  <2>2. inbox # <<>>
    BY <1>13, <1>t DEF WorkerAnswers, WorkerShape
  <2>3. inbox' = <<>>
    <3>1. inbox = <<inFlight>>
      BY <2>2, <1>t DEF OneCallAtWorker
    <3> QED  BY <2>1, <3>1
  <2>4. InFlightRan' => HasLoaded'
    BY <2>1, <1>t DEF RequestShape, InFlightRan, HasLoaded
  <2> QED  BY <1>2, <2>1, <2>3, <2>4
<1>14. CASE WorkerCrashes
  <2>1. /\ UNCHANGED <<inbox, inFlight, records>> /\ proc' \in {"dead", "stillborn"} /\ (HasLoaded => HasLoaded')
        /\ proc' = "stillborn" => proc \notin {"running", "dead"}
    BY <1>14 DEF WorkerCrashes, HostUnchanged, HasLoaded
  <2> QED  BY <2>1, <1>t DEF RequestShape, InFlightRan
<1>15. ASSUME NEW c \in Calls, FallbackProgress(c) PROVE RequestShape'
  <2>1. /\ UNCHANGED <<proc, inbox, inFlight, overtaken>> /\ phase[c] # "held"
        /\ runs' = runs \/ runs' = [runs EXCEPT ![c] = @ + 1]
    BY <1>15 DEF FallbackProgress
  <2>2. c # inFlight
    BY <2>1, <1>p DEF Places
  <2>3. inFlight # NoCall => runs'[inFlight] = runs[inFlight]
    BY <2>1, <2>2, <1>t
  <2> QED  BY <1>1, <2>1, <2>3
<1>16. CASE FallbackBuilt \/ FallbackFails \/ \E w \in Warmers : Warm(w) \/ WarmPrepared(w)
  <2>1. UNCHANGED <<proc, inbox, inFlight, records>>
    BY <1>16 DEF FallbackBuilt, FallbackFails, Warm, WarmPrepared
  <2> QED  BY <1>1, <2>1
<1> QED
  BY <1>3, <1>4, <1>5, <1>6, <1>7, <1>8, <1>9, <1>10, <1>11, <1>12, <1>13, <1>14, <1>15, <1>16
     DEF Next, Handler, Host, Timers, Receive, Worker, Fallback

\* Every step keeps what the wire tells of the module's load.
LEMMA ToldStep ==
  ASSUME IInv, LoadingIsSilent, RunInv, [Next]_vars
  PROVE  ToldOfLoad'
<1> USE DEF vars, queueVars, workerVars, failureVars, callVars, procVars, records
<1>p. Places(phase, queue, inFlight, next, submitted)
  BY AccountingPlaces DEF IInv
<1>w. OneCallAtWorker' /\ WorkerShape'
  BY WorkerStep
<1>v. wire' \in Seq(Message) /\ gen' \in Nat /\ \A k \in 1..Len(wire') : wire'[k].gen \in Nat
  <2>1. TypeOK'
    BY TypeStep DEF IInv
  <2>2. wire' \in Seq(Message) /\ gen' \in Nat
    BY <2>1 DEF TypeOK, WorkerTypes, ProcTypes
  <2>3. \A k \in 1..Len(wire') : wire'[k] \in Message
    BY <2>2
  <2> QED  BY <2>2, <2>3 DEF Message
<1>t. /\ TypeOK /\ HandlerShape /\ OneCallAtWorker /\ WorkerShape /\ NoCall \notin Calls
      /\ OnlySettledRan /\ RequestShape /\ ToldOfLoad
      /\ inFlight \in Calls \cup {NoCall} /\ wire \in Seq(Message) /\ gen \in Nat
      /\ runs = [d \in Calls |-> runs[d]] /\ \A d \in Calls : runs[d] \in Nat
  BY DEF IInv, TypeOK, SchedulerTypes, WorkerTypes, ProcTypes, RunInv
<1>a. inFlight' = NoCall => Answered' = {}
  BY <1>w DEF OneCallAtWorker
<1>b. \A i \in Answered : inFlight # NoCall
  BY <1>t DEF OneCallAtWorker
<1>1. ASSUME UNCHANGED <<proc, wire, gen, inFlight>>, worker' = worker \/ worker' # "loading",
             inFlight # NoCall => runs'[inFlight] = runs[inFlight]
      PROVE  ToldOfLoad'
  <2>1. Answered' = Answered /\ (LoadTrouble' <=> LoadTrouble) /\ (LoadedFirst' <=> LoadedFirst)
    BY <1>1 DEF Answered, LoadTrouble, LoadedFirst
  <2>2. \A i \in Answered : TroubleBefore(i)' <=> TroubleBefore(i)
    BY <1>1 DEF TroubleBefore
  <2>3. HasLoaded' => HasLoaded
    BY <1>1 DEF HasLoaded
  <2> QED  BY <1>1, <1>b, <1>t, <2>1, <2>2, <2>3 DEF ToldOfLoad
<1>2. ASSUME inFlight' = NoCall, proc' \in {"none", "loading"}, \A k \in 1..Len(wire') : wire'[k].gen # gen' PROVE ToldOfLoad'
  <2>1. ~LoadTrouble'
    BY <1>2 DEF LoadTrouble
  <2> QED  BY <1>2, <1>a, <2>1 DEF ToldOfLoad, HasLoaded
<1>3. CASE Tick \/ DropOutOfTime \/ DropDone \/ PumpTake \/ PumpWithoutWorker \/ PumpRefuseArgs \/ PumpDone \/ WaitersWithoutWorker
           \/ CallRawTurnedAway \/ UNCHANGED vars
  <2>1. UNCHANGED <<proc, wire, gen, inFlight, worker, runs>>
    BY <1>3 DEF Tick, DropOutOfTime, DropDone, PumpTake, PumpWithoutWorker, PumpRefuseArgs, PumpDone, WaitersWithoutWorker, CallRawTurnedAway
  <2> QED  BY <1>1, <2>1
<1>4. CASE PumpSpawn \/ WaitersSpawn
  <2>1. worker = "none" /\ proc' = "loading" /\ inFlight' = inFlight /\ inFlight = NoCall /\ UNCHANGED <<wire, gen>>
    BY <1>4, <1>t DEF PumpSpawn, WaitersSpawn, Spawn, HandlerShape, WorkerShape
  <2>2. \A k \in 1..Len(wire) : wire[k].gen # gen
    BY <2>1, <1>t DEF WorkerShape
  <2> QED  BY <1>2, <2>1, <2>2
<1>5. CASE PumpPost
  <2>1. pc = "start" /\ inFlight' = next /\ inbox' = Append(inbox, next) /\ UNCHANGED <<proc, records, wire, gen, worker>>
    BY <1>5 DEF PumpPost
  <2>2. next \in Calls /\ inFlight = NoCall
    BY <2>1, <1>t DEF HandlerShape, TypeOK, SchedulerTypes
  <2>3. HasLoaded' => HasLoaded
    BY <2>1 DEF HasLoaded
  <2>4. Answered = {}
    BY <2>2, <1>t DEF OneCallAtWorker
  <2>5. Answered' = Answered /\ (LoadTrouble' <=> LoadTrouble) /\ (LoadedFirst' <=> LoadedFirst)
    BY <2>1 DEF Answered, LoadTrouble, LoadedFirst
  <2> QED  BY <2>1, <2>3, <2>4, <2>5, <1>t DEF ToldOfLoad
<1>6. CASE PumpPostThrows \/ Dispose \/ LoadTimedOut \/ ReceiveLoadError \/ ReceiveCrash \/ \E c \in Calls : ExpireRunning(c)
  <2>1. DiscardWorker
    BY <1>6 DEF PumpPostThrows, Dispose, LoadTimedOut, ReceiveLoadError, LoadFailed, ReceiveCrash, ExpireRunning
  <2>2. inFlight' = NoCall
    <3>1. CASE PumpPostThrows
      BY <3>1, <1>t DEF PumpPostThrows, HandlerShape
    <3>2. CASE Dispose \/ LoadTimedOut \/ ReceiveLoadError \/ ReceiveCrash \/ \E c \in Calls : ExpireRunning(c)
      BY <3>2 DEF Dispose, LoadTimedOut, ReceiveLoadError, LoadFailed, ReceiveCrash, ExpireRunning
    <3> QED  BY <1>6, <3>1, <3>2
  <2>3. worker' = "none" /\ proc' = "none"
    BY <2>1 DEF DiscardWorker
  <2>4. \A k \in 1..Len(wire') : wire'[k].gen # gen'
    BY <1>w, <1>v, <2>3 DEF WorkerShape
  <2> QED  BY <1>2, <2>2, <2>3, <2>4
<1>7. CASE ReceiveAnswer
  <2>1. wire # <<>> /\ Current(Head(wire)) /\ IsAnswer(Head(wire)) /\ worker = "ready" /\ inFlight' = NoCall
    BY <1>7 DEF ReceiveAnswer
  <2>2. CASE Poisons(Head(wire))
    <3>1. DiscardWorker
      BY <1>7, <2>2 DEF ReceiveAnswer
    <3>2. worker' = "none" /\ proc' = "none"
      BY <3>1 DEF DiscardWorker
    <3>3. \A k \in 1..Len(wire') : wire'[k].gen # gen'
      BY <1>w, <1>v, <3>2 DEF WorkerShape
    <3> QED  BY <1>2, <2>1, <3>2, <3>3
  <2>3. CASE ~Poisons(Head(wire))
    <3>1. wire' = Tail(wire) /\ UNCHANGED <<worker, gen, proc>>
      BY <1>7, <2>3 DEF ReceiveAnswer
    <3>2. wire[1].type # "loadError"
      BY <1>t, <2>1, TailElems DEF IsAnswer, Answers
    <3>3. LoadTrouble' <=> LoadTrouble
      BY <1>t, <2>1, <3>1, <3>2, TroubleTail
    <3>4. HasLoaded' => HasLoaded
      BY <2>1, <3>1 DEF HasLoaded
    <3> QED  BY <1>a, <1>t, <2>1, <3>1, <3>3, <3>4 DEF ToldOfLoad
  <2> QED  BY <2>2, <2>3
<1>8. CASE ReceiveLoaded
  <2>1. /\ wire # <<>> /\ wire' = Tail(wire) /\ Head(wire).type = "loaded" /\ worker' = "ready"
        /\ UNCHANGED <<gen, inFlight, proc, runs>>
    BY <1>8 DEF ReceiveLoaded, ModuleLoaded
  <2>2. wire[1].type # "loadError"
    BY <1>t, <2>1, TailElems
  <2>3. (LoadTrouble' <=> LoadTrouble) /\ \A i \in Answered' : TroubleBefore(i + 1) => TroubleBefore(i)'
    BY <1>t, <2>1, <2>2, TroubleTail
  <2>4. HasLoaded' => HasLoaded
    BY <2>1 DEF HasLoaded
  <2>5. \A i \in Answered' : i + 1 \in Answered
    BY <1>t, <2>1, AnsweredTail
  <2> QED  BY <1>t, <2>1, <2>3, <2>4, <2>5 DEF ToldOfLoad
<1>9. CASE ReceiveFirstAnswer
  <2>1. worker' = "ready" /\ UNCHANGED <<proc, wire, gen, inFlight, runs>>
    BY <1>9 DEF ReceiveFirstAnswer, ModuleLoaded
  <2> QED  BY <1>1, <2>1
<1>10. CASE IgnoreMessage
  <2>1. wire # <<>> /\ wire' = Tail(wire) /\ Unwanted(Head(wire)) /\ UNCHANGED <<gen, inFlight, proc, worker, runs>>
    BY <1>10 DEF IgnoreMessage
  <2>2. Head(wire) = wire[1] /\ 1 \in 1..Len(wire)
    BY <1>t, <2>1, TailElems
  <2>3. wire[1].gen # gen
    <3>1. ASSUME wire[1].gen = gen PROVE FALSE
      <4>1. worker # "none"
        BY <1>t, <2>2, <3>1 DEF WorkerShape
      <4>2. Current(wire[1])
        BY <1>t, <3>1, <4>1 DEF Current, HandlerShape
      <4>3. IsAnswer(wire[1]) /\ wire[1].call # inFlight
        BY <2>1, <2>2, <4>2 DEF Unwanted
      <4> QED  BY <1>t, <2>1, <2>2, <4>2, <4>3, HeadAnswered
    <3> QED  BY <3>1
  <2>4. /\ LoadTrouble' <=> LoadTrouble
        /\ LoadedFirst => LoadedFirst'
        /\ \A i \in Answered' : TroubleBefore(i + 1) => TroubleBefore(i)'
    BY <1>t, <2>1, <2>3, TroubleTail
  <2>5. \A i \in Answered' : i + 1 \in Answered
    BY <1>t, <2>1, AnsweredTail
  <2>6. HasLoaded' => HasLoaded
    BY <2>1 DEF HasLoaded
  <2> QED  BY <1>t, <2>1, <2>4, <2>5, <2>6 DEF ToldOfLoad
<1>11. ASSUME NEW f \in Fns, NEW b \in Budgets, CallRaw(f, b) PROVE ToldOfLoad'
  <2>1. UNCHANGED <<proc, wire, gen, inFlight, worker, runs>>
    BY <1>11 DEF CallRaw
  <2> QED  BY <1>1, <2>1
<1>12. ASSUME NEW c \in Calls, Abort(c) \/ ExpireQueued(c) PROVE ToldOfLoad'
  <2>1. UNCHANGED <<proc, wire, gen, inFlight, worker, runs>>
    BY <1>12 DEF Abort, ExpireQueued
  <2> QED  BY <1>1, <2>1
<1>13. ASSUME NEW c \in Calls, FallbackProgress(c) PROVE ToldOfLoad'
  <2>1. /\ UNCHANGED <<proc, wire, gen, inFlight, worker>> /\ phase[c] # "held"
        /\ runs' = runs \/ runs' = [runs EXCEPT ![c] = @ + 1]
    BY <1>13 DEF FallbackProgress
  <2>2. c # inFlight
    BY <2>1, <1>p DEF Places
  <2>3. inFlight # NoCall => runs'[inFlight] = runs[inFlight]
    BY <2>1, <2>2, <1>t
  <2> QED  BY <1>1, <2>1, <2>3
<1>14. CASE FallbackBuilt \/ FallbackFails \/ \E w \in Warmers : Warm(w) \/ WarmPrepared(w)
  <2>1. UNCHANGED <<proc, wire, gen, inFlight, worker, runs>>
    BY <1>14 DEF FallbackBuilt, FallbackFails, Warm, WarmPrepared
  <2> QED  BY <1>1, <2>1
<1>15. ASSUME NEW type \in Answers \cup {"fatal", "loaded", "loadError", "died"}, NEW c \in Calls \cup {NoCall},
              Posted(type, c), UNCHANGED <<gen, inFlight, worker>>,
              inFlight # NoCall => runs'[inFlight] = runs[inFlight], HasLoaded' => HasLoaded, proc' = "broken" => proc = "broken",
              proc \in {"broken", "stillborn"} => proc' \in {"broken", "stillborn"},
              type # "loadError", type \in Answers \cup {"fatal"} => runs[inFlight] # 0 \/ LoadTrouble
       PROVE  ToldOfLoad'
  <2> DEFINE m == [gen |-> gen, type |-> type, call |-> c]
  <2>1. m \in Message /\ wire' = Append(wire, m) /\ m.gen = gen /\ m.type = type
    BY <1>t, <1>15 DEF Posted, Message
  <2> HIDE DEF m
  <2>2. /\ LoadTrouble => LoadTrouble' /\ \A k \in {Len(wire) + 1} : TroubleBefore(k)'
        /\ LoadTrouble' => LoadTrouble
        /\ LoadedFirst => LoadedFirst'
        /\ \A i \in Answered : TroubleBefore(i) => TroubleBefore(i)'
    BY <1>t, <1>15, <2>1, TroubleAppend
  <2>3. Answered' = Answered \cup (IF IsAnswer(m) THEN {Len(wire) + 1} ELSE {})
    BY <1>t, <1>15, <2>1, AnsweredAppend
  <2>4. IsAnswer(m) <=> type \in Answers \cup {"fatal"}
    BY <2>1 DEF IsAnswer
  <2>5. ASSUME NEW i \in Answered' PROVE runs'[inFlight'] # 0 \/ TroubleBefore(i)'
    <3>1. inFlight' # NoCall
      BY <1>a
    <3>2. runs'[inFlight'] = runs[inFlight]
      BY <1>15, <3>1
    <3>3. CASE i \in Answered
      BY <1>t, <2>2, <3>2, <3>3 DEF ToldOfLoad
    <3>4. CASE i = Len(wire) + 1 /\ IsAnswer(m)
      BY <1>15, <2>2, <2>4, <3>2, <3>4
    <3> QED  BY <2>3, <3>3, <3>4
  <2> QED  BY <1>t, <1>15, <2>2, <2>5 DEF ToldOfLoad
<1>16. CASE WorkerLoads
  <2>1. /\ proc = "loading" /\ worker = "loading" /\ UNCHANGED <<gen, inFlight, worker, runs>>
        /\ \A i \in 1..Len(wire) : wire[i].gen # gen
        /\ \/ proc' = "ready" /\ Posted("loaded", NoCall)
           \/ proc' = "ready" /\ "silentLoad" \in Faults /\ wire' = wire
           \/ proc' = "broken" /\ Posted("loadError", NoCall)
    BY <1>16 DEF WorkerLoads, HostUnchanged, LoadingIsSilent
  <2>2. Answered = {} /\ ~LoadTrouble /\ ~LoadedFirst
    BY <2>1 DEF Answered, LoadTrouble, LoadedFirst
  <2>3. CASE proc' = "ready" /\ "silentLoad" \in Faults /\ wire' = wire
    <3>1. Answered' = {} /\ ~LoadTrouble'
      BY <2>1, <2>2, <2>3 DEF Answered, LoadTrouble
    <3> QED  BY <2>3, <3>1 DEF ToldOfLoad
  <2>4. ASSUME NEW type \in {"loaded", "loadError"}, Posted(type, NoCall), proc' = IF type = "loaded" THEN "ready" ELSE "broken"
        PROVE  ToldOfLoad'
    <3> DEFINE m == [gen |-> gen, type |-> type, call |-> NoCall]
    <3>1. m \in Message /\ wire' = Append(wire, m) /\ m.gen = gen /\ m.type = type /\ ~IsAnswer(m)
      BY <1>t, <2>4 DEF Posted, Message, IsAnswer, Answers
    <3> HIDE DEF m
    <3>2. Answered' = {}
      BY <1>t, <2>1, <2>2, <3>1, AnsweredAppend
    <3>3. CASE type = "loaded"
      <4>1. ~LoadTrouble' /\ LoadedFirst'
        BY <1>t, <2>1, <2>2, <3>1, <3>3, TroubleAppend
      <4> QED  BY <2>4, <3>2, <3>3, <4>1 DEF ToldOfLoad
    <3>4. CASE type = "loadError"
      <4>1. LoadTrouble'
        BY <1>t, <2>1, <2>2, <3>1, <3>4, TroubleAppend
      <4>2. ~HasLoaded'
        BY <2>4, <3>4 DEF HasLoaded
      <4> QED  BY <2>4, <3>2, <3>4, <4>1, <4>2 DEF ToldOfLoad
    <3> QED  BY <3>3, <3>4
  <2> QED  BY <2>1, <2>3, <2>4
<1>17. CASE WorkerStarts
  <2>1. /\ proc \in {"ready", "poisoned"} /\ proc' = "running" /\ inbox # <<>> /\ UNCHANGED <<wire, gen, inFlight, worker>>
    BY <1>17 DEF WorkerStarts, HostUnchanged
  <2>2. Answered = {}
    BY <1>t, <2>1 DEF OneCallAtWorker
  <2>3. Answered' = Answered /\ (LoadTrouble' <=> LoadTrouble) /\ (LoadedFirst' <=> LoadedFirst)
    BY <2>1 DEF Answered, LoadTrouble, LoadedFirst
  <2>4. HasLoaded
    BY <2>1 DEF HasLoaded
  <2> QED  BY <1>t, <2>1, <2>2, <2>3, <2>4 DEF ToldOfLoad
<1>18. CASE WorkerAnswers
  <2>1. inbox # <<>> /\ UNCHANGED <<gen, inFlight, worker, runs>>
    BY <1>18, <1>t DEF WorkerAnswers, HostUnchanged, WorkerShape
  <2>2. inbox = <<inFlight>> /\ inFlight \in Calls /\ Head(inbox) = inFlight
    BY <1>t, <2>1 DEF OneCallAtWorker
  <2>3. CASE proc = "running"
    <3>1. proc' \in {"ready", "poisoned"} /\ \E type \in Answers \cup {"fatal"} : Posted(type, inFlight)
      BY <1>18, <2>2, <2>3 DEF WorkerAnswers, Answers
    <3>2. runs[inFlight] # 0 /\ HasLoaded
      BY <1>t, <2>3 DEF RequestShape, HasLoaded
    <3>3. \A type \in Answers \cup {"fatal"} : type # "loadError" /\ type \in Answers \cup {"fatal", "loaded", "loadError", "died"}
      BY DEF Answers
    <3> QED  BY <1>15, <2>1, <2>2, <2>3, <3>1, <3>2, <3>3
  <2>4. CASE proc = "broken"
    <3>1. proc' = proc /\ Posted("fatal", inFlight)
      BY <1>18, <2>2, <2>4 DEF WorkerAnswers
    <3>2. LoadTrouble
      BY <1>t, <2>4 DEF ToldOfLoad
    <3>3. HasLoaded' => HasLoaded
      BY <2>1, <3>1 DEF HasLoaded
    <3> QED  BY <1>15, <2>1, <2>2, <2>4, <3>1, <3>2, <3>3
  <2> QED  BY <1>18, <2>3, <2>4 DEF WorkerAnswers
<1>19. CASE WorkerCrashes
  <2>1. /\ proc' = (IF proc \in {"loading", "broken"} THEN "stillborn" ELSE "dead") /\ proc \notin {"none", "dead", "stillborn"}
        /\ UNCHANGED <<gen, inFlight, worker, runs>> /\ (Posted("died", NoCall) \/ wire' = wire)
    BY <1>19 DEF WorkerCrashes, HostUnchanged
  <2>2. HasLoaded' => HasLoaded
    BY <2>1, <1>t DEF HasLoaded, TypeOK, ProcTypes
  <2>3. CASE Posted("died", NoCall)
    BY <1>15, <2>1, <2>2, <2>3 DEF Answers
  <2>4. CASE wire' = wire
    <3>1. Answered' = Answered /\ (LoadTrouble' <=> LoadTrouble) /\ (LoadedFirst' <=> LoadedFirst)
      BY <2>1, <2>4 DEF Answered, LoadTrouble, LoadedFirst
    <3>2. \A i \in Answered : TroubleBefore(i)' <=> TroubleBefore(i)
      BY <2>1, <2>4 DEF TroubleBefore
    <3> QED  BY <1>t, <2>1, <2>2, <3>1, <3>2 DEF ToldOfLoad
  <2> QED  BY <2>1, <2>3, <2>4
<1> QED
  BY <1>3, <1>4, <1>5, <1>6, <1>7, <1>8, <1>9, <1>10, <1>11, <1>12, <1>13, <1>14, <1>16, <1>17, <1>18, <1>19
     DEF Next, Handler, Host, Timers, Receive, Worker, Fallback

\* The invariant of calls that run, with those it rests on.
LEMMA RunInvariance == Spec => []RunInv
<1>1. ASSUME Init PROVE RunInv
  <2>1. wire = <<>> /\ Answered = {}
    BY <1>1 DEF Init, Answered
  <2> QED  BY <1>1, <2>1 DEF Init, RunInv, OnlySettledRan, ToldOfLoad, RequestShape, LoadTrouble, HasLoaded, InFlightRan
<1>2. IInv /\ ClockInv /\ RunInv /\ [Next]_vars => RunInv'
  BY SettledRanStep, RequestStep, ToldStep DEF RunInv, ClockInv
<1> QED  BY <1>1, <1>2, Invariance, ClockInvariance, PTL DEF Spec

\* A call that waits, or is reported as never run, has not run, with the load timer and silent workers at
\* their worst: save one put back, unheard, by loadFailed of workerBackend.ts.
THEOREM WaitingCallsNeverRan == Spec => []WaitingNeverRan
<1>1. ASSUME IInv, RunInv PROVE WaitingNeverRan
  <2>1. \A c \in Calls \ overtaken : runs[c] # 0 => (phase[c] = "held" /\ c = inFlight) \/ phase[c] \in Answers \cup {"abandoned", "unavailable"}
    BY <1>1 DEF RunInv, OnlySettledRan
  <2>2. \A c \in Queued : c \in Calls /\ phase[c] = "held" /\ c # inFlight
    <3>1. queue \in Seq(Calls)
      BY <1>1 DEF IInv, TypeOK, SchedulerTypes
    <3>2. Queued = Elems(queue) /\ Elems(queue) \subseteq Calls
      BY <3>1, AccountingPlaces, ElemsType
    <3>3. Places(phase, queue, inFlight, next, submitted)
      BY <1>1, AccountingPlaces DEF IInv
    <3> QED  BY <3>2, <3>3 DEF Places
  <2> QED  BY <2>1, <2>2 DEF WaitingNeverRan, Answers
<1> QED  BY <1>1, RunInvariance, Invariance, PTL

\* Of a worker that tells when it has loaded no call is lost track of but by the load timer: not by its
\* errors, which come after (workerFailed of workerBackend.ts).
THEOREM OnlyTheTimerOvertakes ==
  ASSUME "silentLoad" \notin Faults
  PROVE  Spec => OnlyTimerOvertakes
<1>1. ASSUME IInv, RunInv, ReceiveLoadError PROVE overtaken' = overtaken
  <2>1. /\ wire # <<>> /\ Current(Head(wire)) /\ Head(wire).type # "loaded"
        /\ overtaken' = IF Unheard /\ inFlight # NoCall THEN overtaken \cup {inFlight} ELSE overtaken
    BY <1>1 DEF ReceiveLoadError, DiedLoading, LoadFailed
  <2>2. Head(wire) = wire[1] /\ wire[1].gen = gen
    BY <1>1, <2>1, TailElems DEF Current, IInv, TypeOK, ProcTypes
  <2>3. ~LoadedFirst
    <3>1. \A i \in 1..Len(wire) : i = 1 \/ 1 \in 1..(i - 1)
      OBVIOUS
    <3> QED  BY <2>1, <2>2, <3>1 DEF LoadedFirst
  <2> QED  BY <1>1, <2>1, <2>3 DEF RunInv, ToldOfLoad, Unheard, HasLoaded
<1>2. ASSUME Next, ~LoadTimedOut, ~ReceiveLoadError PROVE overtaken' = overtaken
  <2> USE DEF queueVars, workerVars, failureVars, callVars, procVars, records
  <2>1. CASE Handler
    BY <2>1 DEF Handler, DropOutOfTime, DropDone, PumpTake, PumpSpawn, PumpWithoutWorker, PumpPost, PumpRefuseArgs, PumpPostThrows,
       PumpDone, WaitersSpawn, WaitersWithoutWorker, Spawn
  <2>2. CASE Host
    BY <2>2 DEF Host, CallRaw, CallRawTurnedAway, Abort, Warm, Dispose
  <2>3. CASE Timers \/ Tick
    BY <1>2, <2>3 DEF Timers, ExpireRunning, ExpireQueued, Tick
  <2>4. CASE Receive
    BY <1>2, <2>4 DEF Receive, ReceiveLoaded, ReceiveCrash, ReceiveFirstAnswer, ModuleLoaded, ReceiveAnswer, IgnoreMessage
  <2>5. CASE Worker \/ Fallback
    BY <2>5 DEF Worker, WorkerLoads, WorkerStarts, WorkerAnswers, WorkerCrashes, HostUnchanged, Fallback, FallbackBuilt, FallbackFails,
       FallbackProgress, WarmPrepared
  <2> QED  BY <1>2, <2>1, <2>2, <2>3, <2>4, <2>5 DEF Next
<1>3. IInv /\ RunInv /\ [Next]_vars => [overtaken' # overtaken => LoadTimedOut]_vars
  BY <1>1, <1>2
<1> QED  BY <1>3, RunInvariance, Invariance, PTL DEF Spec, OnlyTimerOvertakes

-----------------------------------------------------------------------------
(* The contract of callRaw. *)

\* What the host sees of a call, and which calls have run.
View(p) == IF p \in Outstanding THEN "pending" ELSE IF p = "fallbackError" THEN "unavailable" ELSE p
Seen == [c \in Calls |-> View(phase[c])]
Ran == {c \in Calls : runs[c] > 0}

\* The fallback serves no call once the backend is disposed of.
FallInv == \A c \in Calls : phase[c] # "undefined" /\ (phase[c] \in {"handed", "onFallback"} => ~disposed)

\* The host disposes of the backend only when no call is with the fallback: dispose() does not wait for one.
NoneOnFallback == Dispose => \A c \in Calls : phase[c] \notin {"handed", "onFallback"}
FallbackOutlivesCalls == [][NoneOnFallback]_vars

\* Every step keeps the fallback to a backend in use.
LEMMA FallStep ==
  ASSUME IInv, FallInv, [Next]_vars, [NoneOnFallback]_vars
  PROVE  FallInv'
<1> USE DEF vars, queueVars, workerVars, failureVars, callVars, procVars, records
<1>t. phase = [d \in Calls |-> phase[d]]
  BY DEF IInv, TypeOK, CallTypes
<1>1. ASSUME disposed' = disposed,
             \A d \in Calls : \/ phase'[d] = phase[d]
                              \/ phase'[d] # "undefined" /\ (phase'[d] \in {"handed", "onFallback"} => ~disposed)
      PROVE  FallInv'
  BY <1>1 DEF FallInv
<1>0. ASSUME NEW c, NEW o, phase' = [phase EXCEPT ![c] = o] PROVE \A d \in Calls : phase'[d] = phase[d] \/ phase'[d] = o
  BY <1>0, <1>t
<1>s. ASSUME disposed' = disposed, phase' = phase PROVE FallInv'
  BY <1>s DEF FallInv
<1>o. ASSUME disposed' = disposed,
             \A d \in Calls : phase'[d] = phase[d] \/ phase'[d] \notin {"undefined", "handed", "onFallback"}
      PROVE  FallInv'
  BY <1>o DEF FallInv
<1>2. CASE Dispose
  <2>1. phase' = [c \in Calls |-> IF c \in Rejected THEN "unavailable" ELSE phase[c]] /\ disposed' # disposed
    BY <1>2 DEF Dispose
  <2>2. \A c \in Calls : phase[c] \notin {"handed", "onFallback"}
    BY <1>2, <2>1 DEF NoneOnFallback
  <2> QED  BY <2>1, <2>2 DEF FallInv
<1>3. CASE FallbackFails
  <2>1. disposed' = disposed /\ phase' = [c \in Calls |-> IF phase[c] = "handed" THEN "fallbackError" ELSE phase[c]]
    BY <1>3 DEF FallbackFails
  <2> QED  BY <2>1 DEF FallInv
<1>4. ASSUME NEW c \in Calls, FallbackProgress(c) PROVE FallInv'
  <2>1. ~disposed
    BY <1>4 DEF FallbackProgress, FallInv
  <2>2. disposed' = disposed /\ \E o \in {"onFallback", "value", "error", "aborted"} : phase' = [phase EXCEPT ![c] = o]
    BY <1>4, <2>1 DEF FallbackProgress
  <2>3. PICK o \in {"onFallback", "value", "error", "aborted"} : phase' = [phase EXCEPT ![c] = o]
    BY <2>2
  <2> QED  BY <1>0, <1>1, <2>1, <2>2, <2>3
<1>5. CASE PumpWithoutWorker
  <2>1. \/ phase' = [phase EXCEPT ![next] = "handed"]
        \/ phase' = [phase EXCEPT ![next] = "unavailable"]
    BY <1>5 DEF PumpWithoutWorker, Settle
  <2>2. disposed' = disposed /\ ~disposed
    BY <1>5 DEF PumpWithoutWorker, IInv, HandlerShape
  <2>3. CASE phase' = [phase EXCEPT ![next] = "handed"]
    <3>1. \A d \in Calls : phase'[d] = phase[d] \/ phase'[d] = "handed"
      BY <1>0, <2>3
    <3> QED  BY <1>1, <2>2, <2>3, <3>1
  <2>4. CASE phase' = [phase EXCEPT ![next] = "unavailable"]
    <3>1. \A d \in Calls : phase'[d] = phase[d] \/ phase'[d] = "unavailable"
      BY <1>0, <2>4
    <3> QED  BY <1>o, <2>2, <3>1
  <2> QED  BY <2>1, <2>3, <2>4
<1>6. CASE DropOutOfTime \/ PumpTake \/ PumpRefuseArgs \/ PumpPostThrows
  <2>1. disposed' = disposed /\ (phase' = phase \/ \E c, o : phase' = [phase EXCEPT ![c] = o] /\ o \in {"notStarted", "refused", "unavailable"})
    BY <1>6 DEF DropOutOfTime, PumpTake, PumpRefuseArgs, PumpPostThrows, Settle
  <2>2. \A d \in Calls : phase'[d] = phase[d] \/ phase'[d] \in {"notStarted", "refused", "unavailable"}
    BY <1>0, <2>1
  <2>3. \A d \in Calls : phase'[d] = phase[d] \/ phase'[d] \notin {"undefined", "handed", "onFallback"}
    BY <2>2
  <2> QED  BY <1>o, <2>1, <2>3
<1>7. CASE CallRawTurnedAway \/ \E f \in Fns, b \in Budgets : CallRaw(f, b)
  <2>1. disposed' = disposed /\ \E c, o : phase' = [phase EXCEPT ![c] = o] /\ o \in {"held", "refused", "unavailable", "aborted"}
    BY <1>7 DEF CallRawTurnedAway, CallRaw
  <2>2. \A d \in Calls : phase'[d] = phase[d] \/ phase'[d] \in {"held", "refused", "unavailable", "aborted"}
    BY <1>0, <2>1
  <2>3. \A d \in Calls : phase'[d] = phase[d] \/ phase'[d] \notin {"undefined", "handed", "onFallback"}
    BY <2>2
  <2> QED  BY <1>o, <2>1, <2>3
<1>8. ASSUME NEW d \in Calls, Abort(d) \/ ExpireRunning(d) \/ ExpireQueued(d) PROVE FallInv'
  <2>1. disposed' = disposed /\ (phase' = phase \/ \E c, o : phase' = [phase EXCEPT ![c] = o] /\ o \in {"aborted", "abandoned", "notStarted"})
    BY <1>8 DEF Abort, ExpireRunning, ExpireQueued, Settle
  <2>2. \A e \in Calls : phase'[e] = phase[e] \/ phase'[e] \in {"aborted", "abandoned", "notStarted"}
    BY <1>0, <2>1
  <2>3. \A e \in Calls : phase'[e] = phase[e] \/ phase'[e] \notin {"undefined", "handed", "onFallback"}
    BY <2>2
  <2> QED  BY <1>o, <2>1, <2>3
<1>9. CASE ReceiveCrash \/ ReceiveAnswer
  <2>1. disposed' = disposed /\ (phase' = phase \/ \E c, o : phase' = [phase EXCEPT ![c] = o] /\ o \in Answers \cup {"unavailable"})
    BY <1>9 DEF ReceiveCrash, ReceiveAnswer, IsAnswer, Answers, Settle
  <2>2. \A d \in Calls : phase'[d] = phase[d] \/ phase'[d] \in Answers \cup {"unavailable"}
    BY <1>0, <2>1
  <2>3. \A d \in Calls : phase'[d] = phase[d] \/ phase'[d] \notin {"undefined", "handed", "onFallback"}
    BY <2>2 DEF Answers
  <2> QED  BY <1>o, <2>1, <2>3
<1>10. CASE Tick \/ DropDone \/ PumpSpawn \/ PumpPost \/ PumpDone \/ WaitersSpawn \/ WaitersWithoutWorker \/ LoadTimedOut \/ UNCHANGED vars
  BY <1>s, <1>10 DEF Tick, DropDone, PumpSpawn, PumpPost, PumpDone, WaitersSpawn, WaitersWithoutWorker, Spawn, LoadTimedOut, LoadFailed
<1>11. CASE ReceiveLoaded \/ ReceiveLoadError \/ ReceiveFirstAnswer \/ IgnoreMessage \/ Worker
  BY <1>s, <1>11 DEF ReceiveLoaded, ReceiveLoadError, LoadFailed, ReceiveFirstAnswer, ModuleLoaded, IgnoreMessage, Worker, WorkerLoads,
     WorkerStarts, WorkerAnswers, WorkerCrashes, HostUnchanged
<1>12. CASE FallbackBuilt \/ \E w \in Warmers : Warm(w) \/ WarmPrepared(w)
  BY <1>s, <1>12 DEF FallbackBuilt, Warm, WarmPrepared
<1> QED
  BY <1>2, <1>3, <1>4, <1>5, <1>6, <1>7, <1>8, <1>9, <1>10, <1>11, <1>12 DEF Next, Handler, Host, Timers, Receive, Fallback

LEMMA FallInvariance == Spec /\ FallbackOutlivesCalls => []FallInv
<1>1. Init => FallInv
  BY DEF Init, FallInv
<1>2. IInv /\ FallInv /\ [Next]_vars /\ [NoneOnFallback]_vars => FallInv'
  BY FallStep
<1> QED  BY <1>1, <1>2, Invariance, PTL DEF Spec, FallbackOutlivesCalls

\* A call resolves to what its function returned, on a host that disposes of the backend only when no call is
\* with the fallback (runOnFallback of workerBackend.ts).
THEOREM NothingResolvesUndefined == Spec /\ FallbackOutlivesCalls => []NeverResolvesUndefined
<1>1. FallInv => NeverResolvesUndefined
  BY DEF FallInv, NeverResolvesUndefined
<1> QED  BY <1>1, FallInvariance, PTL

\* The steps of the contract: one call settled as answered, one given up, and none that shows.
LEMMA SeenOne ==
  ASSUME TypeOK, NEW c \in Calls, NEW o, phase' = [phase EXCEPT ![c] = o]
  PROVE  Seen' = [Seen EXCEPT ![c] = View(o)] /\ Seen' = [d \in Calls |-> IF d = c THEN View(o) ELSE Seen[d]]
<1>1. phase'[c] = o /\ \A d \in Calls : d # c => phase'[d] = phase[d]
  BY DEF TypeOK, CallTypes
<1>2. View(phase'[c]) = View(o) /\ \A d \in Calls : d # c => View(phase'[d]) = View(phase[d])
  BY <1>1
<1>3. Seen' = [d \in Calls |-> View(phase'[d])]
  BY DEF Seen, View
<1>4. Seen' = [d \in Calls |-> IF d = c THEN View(o) ELSE Seen[d]]
  BY <1>2, <1>3 DEF Seen
<1> QED  BY <1>4 DEF Seen

LEMMA OfOneCall ==
  ASSUME NEW c \in Calls,
         Contract!Submit(c) \/ Contract!TurnAway(c) \/ Contract!Signal(c) \/ Contract!Run(c) \/ Contract!LoseSight(c) \/ Contract!Answer(c)
  PROVE  Contract!Next
BY DEF Contract!Next

LEMMA CallAnswered ==
  ASSUME NEW c \in Calls, NEW o \in Answers, Seen[c] = "pending",
         Seen' = [Seen EXCEPT ![c] = o], Ran' = Ran \cup {c}, UNCHANGED <<overtaken, aborted, disposed>>
  PROVE  Contract!Next
<1>1. Contract!Answer(c)
  BY DEF Seen, View, Ran, Answers, Contract!Answer, Contract!Answers, Contract!Pending
<1> QED  BY <1>1 DEF Contract!Next

LEMMA CallGivenUp ==
  ASSUME NEW c \in Calls, NEW o \in {"notStarted", "aborted", "refused", "abandoned", "unavailable"}, Seen[c] = "pending",
         o \in {"notStarted", "aborted", "refused"} => runs[c] = 0 \/ c \in overtaken, o = "aborted" => c \in aborted,
         Seen' = [d \in Calls |-> IF d = c THEN o ELSE Seen[d]], UNCHANGED <<Ran, overtaken, aborted, disposed>>
  PROVE  Contract!Next
<1> DEFINE why == [d \in {c} |-> o]
<1>0. o \in Contract!NeverRan => c \notin Ran \ overtaken
  BY DEF Contract!NeverRan, Ran
<1>1. /\ {c} \in SUBSET {d \in Calls : Seen[d] = "pending"}
      /\ why \in [{c} -> Contract!NeverRan \cup Contract!GaveUp] /\ why[c] = o
  BY DEF Contract!NeverRan, Contract!GaveUp
<1>2. Seen' = [d \in Calls |-> IF d \in {c} THEN why[d] ELSE Seen[d]]
  OBVIOUS
<1>3. \E S \in SUBSET {d \in Calls : Seen[d] = "pending"} : \E w \in [S -> Contract!NeverRan \cup Contract!GaveUp] :
        /\ \A d \in S : (w[d] \in Contract!NeverRan => d \notin Ran \ overtaken) /\ (w[d] = "aborted" => d \in aborted)
        /\ Seen' = [d \in Calls |-> IF d \in S THEN w[d] ELSE Seen[d]]
        /\ UNCHANGED <<Ran, overtaken, aborted, disposed>>
  <2> USE <1>1
  <2> HIDE DEF why, Seen, Ran
  <2> WITNESS {c} \in SUBSET {d \in Calls : Seen[d] = "pending"}
  <2> WITNESS why \in [{c} -> Contract!NeverRan \cup Contract!GaveUp]
  <2> QED  BY <1>0, <1>1, <1>2
<1>4. Contract!GiveUp
  BY <1>3 DEF Seen, View, Ran, Contract!GiveUp, Contract!Pending, Contract!KnownToRun
<1> QED  BY <1>4 DEF Contract!Next

\* One call settled, of the values it had.
LEMMA CallSettled ==
  ASSUME TypeOK, NEW c \in Calls, NEW o \in {"notStarted", "aborted", "refused", "abandoned", "unavailable"},
         phase[c] \in Outstanding, phase' = [phase EXCEPT ![c] = o],
         o \in {"notStarted", "aborted", "refused"} => runs[c] = 0 \/ c \in overtaken, o = "aborted" => c \in aborted,
         UNCHANGED <<runs, overtaken, aborted, disposed>>
  PROVE  Contract!Next
<1>1. View(o) = o /\ Seen[c] = "pending"
  BY DEF View, Seen, Outstanding
<1>2. Seen' = [d \in Calls |-> IF d = c THEN o ELSE Seen[d]]
  <2>1. Seen' = [d \in Calls |-> IF d = c THEN View(o) ELSE Seen[d]]
    BY SeenOne
  <2> HIDE DEF Seen, View
  <2> QED  BY <1>1, <2>1
<1>3. UNCHANGED <<Ran, overtaken, aborted, disposed>>
  BY DEF Ran
<1> QED  BY <1>1, <1>2, <1>3, CallGivenUp

\* Every step of the backend is a step of the contract, or one the host does not see.
LEMMA StepKeepsContract ==
  ASSUME IInv, LoadingIsSilent, RunInv, FallInv, [Next]_vars, [NoneOnFallback]_vars
  PROVE  [Contract!Next]_(Contract!vars)
<1> USE DEF vars, queueVars, workerVars, failureVars, callVars, procVars, records
<1>g. SUFFICES Contract!Next \/ UNCHANGED <<Seen, Ran, overtaken, aborted, disposed>>
  BY DEF Contract!vars, Seen, View, Ran
<1>p. Places(phase, queue, inFlight, next, submitted)
  BY AccountingPlaces DEF IInv
<1>t. /\ TypeOK /\ HandlerShape /\ OneCallAtWorker /\ WorkerShape /\ NoCall \notin Calls
      /\ OnlySettledRan /\ RequestShape /\ ToldOfLoad
      /\ inFlight \in Calls \cup {NoCall} /\ next \in Calls \cup {NoCall} /\ wire \in Seq(Message) /\ queue \in Seq(Calls)
      /\ phase = [d \in Calls |-> phase[d]]
      /\ runs = [d \in Calls |-> runs[d]] /\ \A d \in Calls : runs[d] \in Nat
  <2>1. /\ TypeOK /\ HandlerShape /\ OneCallAtWorker /\ WorkerShape
        /\ OnlySettledRan /\ RequestShape /\ ToldOfLoad
    BY DEF IInv, RunInv
  <2>2. NoCall \notin Calls
    BY DEF NoCall, Calls
  <2>3. SchedulerTypes /\ CallTypes /\ ProcTypes
    BY <2>1 DEF TypeOK
  <2>4. inFlight \in Calls \cup {NoCall} /\ next \in Calls \cup {NoCall} /\ queue \in Seq(Calls)
    BY <2>3 DEF SchedulerTypes
  <2>5. wire \in Seq(Message)
    BY <2>3 DEF ProcTypes
  <2>6. phase = [d \in Calls |-> phase[d]]
    BY <2>3 DEF CallTypes
  <2>7. runs = [d \in Calls |-> runs[d]] /\ \A d \in Calls : runs[d] \in Nat
    BY <2>3 DEF ProcTypes, CallTypes
  <2> QED  BY <2>1, <2>2, <2>4, <2>5, <2>6, <2>7
<1>n. submitted \in Nat /\ MaxCalls \in Nat
  BY <1>t, ConstantsAssumption DEF TypeOK, CallTypes, SchedulerTypes
<1>r. \A c \in Calls : phase[c] \notin {"held"} \cup Answers \cup {"abandoned", "unavailable"} => runs[c] = 0 \/ c \in overtaken
  BY <1>t DEF OnlySettledRan
<1>q. \A c \in Calls : c # inFlight /\ phase[c] = "held" => runs[c] = 0 \/ c \in overtaken
  BY <1>t DEF OnlySettledRan, Answers
<1>1. ASSUME UNCHANGED <<phase, runs, overtaken, aborted, disposed>> PROVE UNCHANGED <<Seen, Ran, overtaken, aborted, disposed>>
  BY <1>1 DEF Seen, View, Ran
<1>2. ASSUME NEW c \in Calls, phase[c] \in Outstanding, phase' = [phase EXCEPT ![c] = "handed"] \/ phase' = [phase EXCEPT ![c] = "onFallback"],
             UNCHANGED <<runs, overtaken, aborted, disposed>>
      PROVE  UNCHANGED <<Seen, Ran, overtaken, aborted, disposed>>
  <2>1. Seen' = [d \in Calls |-> IF d = c THEN "pending" ELSE Seen[d]]
    BY <1>2, <1>t, SeenOne DEF View, Outstanding
  <2>2. Seen[c] = "pending"
    BY <1>2 DEF Seen, View
  <2>3. Seen' = Seen
    BY <2>1, <2>2 DEF Seen
  <2> QED  BY <1>2, <2>3 DEF Ran
<1>3. CASE DropOutOfTime
  <2>1. PICK i \in 1..Len(queue) : phase' = [phase EXCEPT ![queue[i]] = "notStarted"]
    BY <1>3 DEF DropOutOfTime, Settle
  <2>2. queue[i] \in Calls /\ queue[i] \in Elems(queue)
    BY <1>t, QueueType DEF Elems
  <2>3. (runs[queue[i]] = 0 \/ queue[i] \in overtaken) /\ phase[queue[i]] \in Outstanding
    BY <2>2, <1>p, <1>q DEF Places, Outstanding
  <2>4. UNCHANGED <<runs, overtaken, aborted, disposed>>
    BY <1>3 DEF DropOutOfTime
  <2> QED  BY <1>t, <2>1, <2>2, <2>3, <2>4, CallSettled
<1>4. CASE PumpTake
  <2>1. /\ queue # <<>> /\ UNCHANGED <<runs, overtaken, aborted, disposed>>
        /\ phase' = phase \/ phase' = [phase EXCEPT ![Head(queue)] = "notStarted"]
    BY <1>4 DEF PumpTake, Settle
  <2>2. Head(queue) \in Elems(queue) /\ Head(queue) \in Calls
    BY <1>t, <2>1, TailElems, QueueType
  <2>3. (runs[Head(queue)] = 0 \/ Head(queue) \in overtaken) /\ phase[Head(queue)] \in Outstanding
    BY <2>2, <1>p, <1>q DEF Places, Outstanding
  <2> QED  BY <1>1, <1>t, <2>1, <2>2, <2>3, CallSettled
<1>5. CASE PumpWithoutWorker \/ PumpRefuseArgs \/ PumpPostThrows
  <2>1. /\ pc = "start" /\ UNCHANGED <<runs, overtaken, aborted, disposed>>
        /\ \/ phase' = [phase EXCEPT ![next] = "handed"]
           \/ \E o \in {"unavailable", "refused"} : phase' = [phase EXCEPT ![next] = o]
    BY <1>5 DEF PumpWithoutWorker, PumpRefuseArgs, PumpPostThrows, Settle
  <2>2. next \in Calls /\ inFlight = NoCall
    BY <2>1, <1>t DEF HandlerShape
  <2>3. (runs[next] = 0 \/ next \in overtaken) /\ phase[next] \in Outstanding
    BY <2>2, <1>t, <1>p, <1>q DEF Places, Outstanding
  <2> QED  BY <1>2, <1>t, <2>1, <2>2, <2>3, CallSettled
<1>6. ASSUME NEW f \in Fns, NEW b \in Budgets, CallRaw(f, b) PROVE Contract!Next
  <2>0. PICK n \in Calls : n = submitted + 1
    BY <1>6, <1>n DEF CallRaw, Calls
  <2>1. /\ ~disposed /\ UNCHANGED <<runs, overtaken, aborted, disposed>> /\ submitted < MaxCalls /\ phase' = [phase EXCEPT ![n] = "held"]
    BY <1>6, <2>0 DEF CallRaw
  <2>2. n > submitted
    BY <2>0, <1>n DEF Calls
  <2>3. phase[n] = "new" /\ Seen[n] = "new"
    BY <2>2, <1>p DEF Places, Seen, View, Outstanding
  <2>4. Seen' = [Seen EXCEPT ![n] = "pending"]
    BY <1>t, <2>1, <2>2, SeenOne DEF View, Outstanding
  <2>5. Ran' = Ran
    BY <2>1 DEF Ran
  <2>6. Contract!Submit(n)
    BY <2>1, <2>3, <2>4, <2>5 DEF Contract!Submit, Seen, View, Ran
  <2> QED  BY <2>6, OfOneCall
<1>7. CASE CallRawTurnedAway
  <2>0. PICK n \in Calls : n = submitted + 1
    BY <1>7, <1>n DEF CallRawTurnedAway, Calls
  <2>1. PICK o \in {"unavailable", "refused", "aborted"} :
          /\ phase' = [phase EXCEPT ![n] = o] /\ UNCHANGED <<runs, overtaken, disposed>> /\ submitted < MaxCalls
          /\ aborted' = IF o = "aborted" THEN aborted \cup {n} ELSE aborted
    BY <1>7, <2>0 DEF CallRawTurnedAway
  <2>2. n > submitted
    BY <2>0, <1>n DEF Calls
  <2>3. phase[n] = "new" /\ Seen[n] = "new"
    BY <2>2, <1>p DEF Places, Seen, View, Outstanding
  <2>4. Seen' = [Seen EXCEPT ![n] = o]
    BY <1>t, <2>1, <2>2, SeenOne DEF View, Outstanding
  <2>5. Ran' = Ran
    BY <2>1 DEF Ran
  <2>6. Contract!TurnAway(n)
    BY <2>1, <2>3, <2>4, <2>5 DEF Contract!TurnAway, Seen, View, Ran
  <2> QED  BY <2>6, OfOneCall
<1>8. ASSUME NEW c \in Calls, Abort(c) PROVE Contract!Next
  <2>1. /\ aborted' = aborted \cup {c} /\ UNCHANGED <<runs, overtaken, disposed>>
        /\ phase' = phase \/ (c \in Queued /\ phase' = [phase EXCEPT ![c] = "aborted"])
    BY <1>8 DEF Abort, Settle, Droppable
  <2>2. Ran' = Ran
    BY <2>1 DEF Ran
  <2>3. Seen' = Seen \/ (c \in {d \in Calls : Seen[d] = "pending"} \ (Ran \ overtaken) /\ Seen' = [Seen EXCEPT ![c] = "aborted"])
    <3>1. CASE phase' = phase
      BY <3>1 DEF Seen, View
    <3>2. CASE c \in Queued /\ phase' = [phase EXCEPT ![c] = "aborted"]
      <4>1. phase[c] = "held" /\ (runs[c] = 0 \/ c \in overtaken)
        BY <3>2, <1>p, <1>q, AccountingPlaces DEF Places
      <4>2. Seen' = [Seen EXCEPT ![c] = "aborted"]
        BY <1>t, <3>2, SeenOne DEF View, Outstanding
      <4> QED  BY <4>1, <4>2 DEF Seen, View, Outstanding, Ran
    <3> QED  BY <2>1, <3>1, <3>2
  <2>4. Contract!Signal(c)
    BY <2>1, <2>2, <2>3 DEF Contract!Signal, Contract!Pending, Contract!KnownToRun, Seen, View, Ran
  <2> QED  BY <2>4, OfOneCall
<1>9. ASSUME NEW c \in Calls, ExpireQueued(c) PROVE Contract!Next
  <2>1. inFlight # c /\ ticking[c] /\ UNCHANGED <<runs, overtaken, aborted, disposed>> /\ phase' = [phase EXCEPT ![c] = "notStarted"]
    BY <1>9 DEF ExpireQueued, Settle
  <2>2. phase[c] = "held"
    BY <2>1 DEF IInv, ClocksHeld
  <2>3. (runs[c] = 0 \/ c \in overtaken) /\ phase[c] \in Outstanding
    BY <2>1, <2>2, <1>q DEF Outstanding
  <2> QED  BY <1>t, <2>1, <2>3, CallSettled
<1>10. ASSUME NEW c \in Calls, ExpireRunning(c) PROVE Contract!Next
  <2>1. ticking[c] /\ UNCHANGED <<runs, overtaken, aborted, disposed>> /\ phase' = [phase EXCEPT ![c] = "abandoned"]
    BY <1>10 DEF ExpireRunning, Settle
  <2>2. phase[c] \in Outstanding
    BY <2>1 DEF IInv, ClocksHeld, Outstanding
  <2> QED  BY <1>t, <2>1, <2>2, CallSettled
<1>11. CASE ReceiveCrash
  <2>1. /\ UNCHANGED <<runs, overtaken, aborted, disposed>>
        /\ IF inFlight = NoCall THEN phase' = phase ELSE phase' = [phase EXCEPT ![inFlight] = "unavailable"]
    BY <1>11 DEF ReceiveCrash, Settle
  <2>2. inFlight # NoCall => phase[inFlight] \in Outstanding
    BY <1>t, <1>p DEF Places, Outstanding
  <2> QED  BY <1>1, <1>t, <2>1, <2>2, CallSettled
<1>12. CASE ReceiveAnswer
  <2>1. /\ wire # <<>> /\ Current(Head(wire)) /\ IsAnswer(Head(wire)) /\ UNCHANGED <<runs, overtaken, aborted, disposed>>
        /\ \E o \in Answers : phase' = [phase EXCEPT ![inFlight] = o]
    BY <1>12 DEF ReceiveAnswer, Settle, IsAnswer, Answers
  <2>2. inFlight \in Calls /\ 1 \in Answered
    BY <1>t, <2>1, HeadAnswered
  <2>3. ~TroubleBefore(1)
    BY DEF TroubleBefore
  <2>4. runs[inFlight] > 0
    BY <1>t, <2>2, <2>3 DEF ToldOfLoad
  <2>5. PICK o \in Answers : phase' = [phase EXCEPT ![inFlight] = o]
    BY <2>1
  <2>6. View(o) = o
    BY DEF View, Answers, Outstanding
  <2>7. Seen' = [Seen EXCEPT ![inFlight] = o]
    BY <1>t, <2>2, <2>5, <2>6, SeenOne
  <2>8. Ran' = Ran \cup {inFlight}
    BY <2>1, <2>2, <2>4 DEF Ran
  <2>9. Seen[inFlight] = "pending"
    BY <1>p, <2>2 DEF Places, Seen, View, Outstanding
  <2> QED  BY <2>1, <2>2, <2>7, <2>8, <2>9, CallAnswered
<1>13. CASE Dispose
  <2>1. /\ pc = "idle" /\ ~disposed /\ disposed' = TRUE /\ UNCHANGED <<runs, overtaken, aborted>>
        /\ phase' = [d \in Calls |-> IF d \in Rejected THEN "unavailable" ELSE phase[d]]
    BY <1>13 DEF Dispose
  <2>2. \A d \in Calls : d \in Rejected <=> phase[d] = "held"
    <3>1. next = NoCall /\ Queued = Elems(queue)
      BY <1>t, <2>1, AccountingPlaces DEF HandlerShape
    <3> QED  BY <1>p, <1>t, <3>1 DEF Rejected, Places
  <2>3. \A d \in Calls : phase[d] \in Outstanding => phase[d] = "held"
    BY <1>13, <2>1 DEF NoneOnFallback, Outstanding
  <2>4. \A d \in Calls : View(phase'[d]) = IF Seen[d] = "pending" THEN "unavailable" ELSE Seen[d]
    <3>1. ASSUME NEW d \in Calls, phase[d] = "held" PROVE View(phase'[d]) = "unavailable" /\ Seen[d] = "pending"
      BY <2>1, <2>2, <3>1 DEF View, Seen, Outstanding
    <3>2. ASSUME NEW d \in Calls, phase[d] # "held" PROVE View(phase'[d]) = Seen[d] /\ Seen[d] # "pending"
      <4>1. phase'[d] = phase[d] /\ phase[d] \notin Outstanding /\ phase[d] # "pending"
        BY <1>t, <2>1, <2>2, <2>3, <3>2 DEF TypeOK, CallTypes, Outcomes, Answers, Outstanding
      <4> QED  BY <4>1 DEF View, Seen
    <3> QED  BY <3>1, <3>2
  <2>5. Seen' = [d \in Calls |-> IF Seen[d] = "pending" THEN "unavailable" ELSE Seen[d]]
    <3>1. Seen' = [d \in Calls |-> View(phase'[d])]
      BY DEF Seen, View
    <3> QED  BY <2>4, <3>1
  <2>6. Ran' = Ran
    BY <2>1 DEF Ran
  <2>7. Contract!Close
    BY <2>1, <2>5, <2>6 DEF Contract!Close, Contract!Pending, Seen, View, Ran
  <2> QED  BY <2>7 DEF Contract!Next
<1>14. CASE WorkerStarts
  <2>1. /\ inbox # <<>> /\ proc \notin {"running", "dead"} /\ runs' = [runs EXCEPT ![Head(inbox)] = @ + 1]
        /\ UNCHANGED <<phase, overtaken, aborted, disposed>>
    BY <1>14 DEF WorkerStarts, HostUnchanged
  <2>2. inbox = <<inFlight>> /\ inFlight \in Calls
    BY <1>t, <2>1 DEF OneCallAtWorker
  <2>3. Head(inbox) = inFlight /\ phase[inFlight] = "held"
    BY <1>t, <2>1, <2>2, <1>p DEF Places
  <2>4. runs'[inFlight] = runs[inFlight] + 1 /\ runs[inFlight] \in Nat /\ \A d \in Calls : d # inFlight => runs'[d] = runs[d]
    BY <1>t, <2>1, <2>2, <2>3
  <2>5. Ran' = Ran \cup {inFlight}
    BY <2>2, <2>3, <2>4 DEF Ran
  <2>6. Seen' = Seen /\ Seen[inFlight] = "pending"
    BY <2>1, <2>2, <2>3 DEF Seen, View, Outstanding
  <2>c. PICK c \in Calls : c = inFlight
    BY <2>2
  <2>7. c \notin Ran => Contract!Run(c)
    BY <2>c, <2>1, <2>2, <2>5, <2>6 DEF Contract!Run, Contract!Pending, Seen, View, Ran
  <2>8. c \in Ran => UNCHANGED <<Seen, Ran, overtaken, aborted, disposed>>
    BY <2>c, <2>1, <2>5, <2>6
  <2>9. CASE c \in Ran
    BY <2>8, <2>9
  <2>10. CASE c \notin Ran
    BY <2>7, <2>10, OfOneCall
  <2> QED  BY <2>9, <2>10
<1>15. ASSUME NEW c \in Calls, FallbackProgress(c) PROVE Contract!Next \/ UNCHANGED <<Seen, Ran, overtaken, aborted, disposed>>
  <2>1. /\ phase[c] \in Outstanding /\ (runs[c] = 0 \/ c \in overtaken) /\ ~disposed /\ UNCHANGED <<overtaken, aborted, disposed>>
    BY <1>15, <1>r DEF FallbackProgress, Outstanding, Answers, FallInv
  <2>2. CASE phase' = [phase EXCEPT ![c] = "onFallback"] /\ runs' = runs
    BY <1>2, <2>1, <2>2
  <2>3. CASE c \in aborted /\ phase' = [phase EXCEPT ![c] = "aborted"] /\ runs' = runs
    BY <1>t, <2>1, <2>3, CallSettled
  <2>4. ASSUME NEW o \in {"value", "error"}, phase' = [phase EXCEPT ![c] = o], runs' = [runs EXCEPT ![c] = @ + 1] PROVE Contract!Next
    <3>1. o \in Answers /\ View(o) = o /\ Seen[c] = "pending"
      BY <2>1 DEF Answers, View, Seen, Outstanding
    <3>2. Seen' = [Seen EXCEPT ![c] = o]
      BY <1>t, <2>4, <3>1, SeenOne
    <3>3. runs'[c] > 0 /\ \A d \in Calls : d # c => runs'[d] = runs[d]
      BY <1>t, <2>1, <2>4
    <3>4. Ran' = Ran \cup {c}
      BY <3>3 DEF Ran
    <3> QED  BY <2>1, <3>1, <3>2, <3>4, CallAnswered
  <2> QED  BY <1>15, <2>1, <2>2, <2>3, <2>4 DEF FallbackProgress
<1>16. CASE FallbackFails
  <2>1. /\ UNCHANGED <<runs, overtaken, aborted, disposed>>
        /\ phase' = [d \in Calls |-> IF phase[d] = "handed" THEN "fallbackError" ELSE phase[d]]
    BY <1>16 DEF FallbackFails
  <2> DEFINE S == {d \in Calls : phase[d] = "handed"}
             why == [d \in S |-> "unavailable"]
  <2>2. S \in SUBSET {d \in Calls : Seen[d] = "pending"}
    BY DEF Seen, View, Outstanding
  <2>3. why \in [S -> Contract!NeverRan \cup Contract!GaveUp] /\ \A d \in S : why[d] = "unavailable"
    BY DEF Contract!GaveUp
  <2>4. Seen' = [d \in Calls |-> IF d \in S THEN why[d] ELSE Seen[d]]
    <3>1. Seen' = [d \in Calls |-> View(phase'[d])]
      BY DEF Seen, View
    <3>2. \A d \in Calls : d \in S => View(phase'[d]) = "unavailable"
      BY <2>1 DEF View, Outstanding
    <3>3. \A d \in Calls : d \notin S => View(phase'[d]) = Seen[d]
      BY <2>1 DEF Seen
    <3> QED  BY <2>3, <3>1, <3>2, <3>3
  <2>5. Ran' = Ran
    BY <2>1 DEF Ran
  <2>6. "unavailable" \notin Contract!NeverRan
    BY DEF Contract!NeverRan
  <2>7. \E T \in SUBSET {d \in Calls : Seen[d] = "pending"} : \E w \in [T -> Contract!NeverRan \cup Contract!GaveUp] :
          /\ \A d \in T : (w[d] \in Contract!NeverRan => d \notin Ran \ overtaken) /\ (w[d] = "aborted" => d \in aborted)
          /\ Seen' = [d \in Calls |-> IF d \in T THEN w[d] ELSE Seen[d]]
          /\ UNCHANGED <<Ran, overtaken, aborted, disposed>>
    <3> USE <2>2, <2>3
    <3> HIDE DEF S, why, Seen, Ran
    <3> WITNESS S \in SUBSET {d \in Calls : Seen[d] = "pending"}
    <3> WITNESS why \in [S -> Contract!NeverRan \cup Contract!GaveUp]
    <3> QED  BY <2>1, <2>3, <2>4, <2>5, <2>6
  <2>8. Contract!GiveUp
    BY <2>7 DEF Seen, View, Ran, Contract!GiveUp, Contract!Pending, Contract!KnownToRun
  <2> QED  BY <2>8 DEF Contract!Next
<1>17. CASE Tick \/ DropDone \/ PumpSpawn \/ PumpPost \/ PumpDone \/ WaitersSpawn \/ WaitersWithoutWorker \/ UNCHANGED vars
  BY <1>1, <1>17 DEF Tick, DropDone, PumpSpawn, PumpPost, PumpDone, WaitersSpawn, WaitersWithoutWorker, Spawn
<1>18. CASE ReceiveLoaded \/ ReceiveFirstAnswer \/ IgnoreMessage \/ WorkerLoads \/ WorkerAnswers \/ WorkerCrashes
  BY <1>1, <1>18 DEF ReceiveLoaded, ReceiveFirstAnswer, ModuleLoaded, IgnoreMessage, WorkerLoads,
     WorkerAnswers, WorkerCrashes, HostUnchanged
<1>19. CASE FallbackBuilt \/ \E w \in Warmers : Warm(w) \/ WarmPrepared(w)
  BY <1>1, <1>19 DEF FallbackBuilt, Warm, WarmPrepared
<1>20. CASE LoadTimedOut \/ ReceiveLoadError
  <2>1. /\ UNCHANGED <<phase, runs, aborted, disposed>>
        /\ overtaken' = IF Unheard /\ inFlight # NoCall THEN overtaken \cup {inFlight} ELSE overtaken
    BY <1>20 DEF LoadTimedOut, ReceiveLoadError, LoadFailed
  <2>2. UNCHANGED <<Seen, Ran>>
    BY <2>1 DEF Seen, View, Ran
  <2>3. CASE inFlight # NoCall
    <3>1. PICK c \in Calls : c = inFlight
      BY <1>t, <2>3
    <3>2. Seen[c] = "pending"
      BY <3>1, <1>p DEF Places, Seen, View, Outstanding
    <3>3. overtaken' = overtaken \cup {c} => Contract!LoseSight(c)
      BY <2>1, <2>2, <3>2 DEF Contract!LoseSight, Contract!Pending, Seen, View, Ran
    <3> QED  BY <2>1, <2>2, <3>1, <3>3, OfOneCall
  <2> QED  BY <2>1, <2>2, <2>3
<1> QED
  BY <1>3, <1>4, <1>5, <1>6, <1>7, <1>8, <1>9, <1>10, <1>11, <1>12, <1>13, <1>14, <1>15, <1>16, <1>17, <1>18, <1>19, <1>20
     DEF Next, Handler, Host, Timers, Receive, Worker, Fallback

\* The worker backend keeps the contract of LibBackend, whatever its load timer and its workers do.
THEOREM WorkerBackendKeepsContract == Spec /\ FallbackOutlivesCalls => KeepsContract
<1>1. Init => Contract!Init
  BY DEF Init, Contract!Init, Outstanding
<1>2. IInv /\ ClockInv /\ RunInv /\ FallInv /\ [Next]_vars /\ [NoneOnFallback]_vars => [Contract!Next]_(Contract!vars)
  BY StepKeepsContract DEF ClockInv
<1> QED
  BY <1>1, <1>2, Invariance, ClockInvariance, RunInvariance, FallInvariance, PTL
     DEF Spec, FallbackOutlivesCalls, KeepsContract, Contract!Spec

-----------------------------------------------------------------------------
(* How often a worker is started. *)

\* What bounds the failures to start: they are counted, a full count or a load out of time bars new workers
\* until its cooldown has ended, and then the history starts over.
StartInv ==
  /\ starts \in Nat /\ starts <= failures /\ starts <= MaxFailures
  /\ Tripped /\ coolLeft = 0 => starts = 0
  /\ barred => forced /\ coolLeft # 0
  /\ worker # "none" => failures < MaxFailures /\ ~forced

\* What a step does to the worker and to the account of its failures.
AccountKept == UNCHANGED <<failures, forced, coolLeft>> /\ worker' \in {worker, "none"}
AccountCleared == worker = "loading" /\ worker' = "ready" /\ failures' = 0 /\ ~forced' /\ coolLeft' = coolLeft
WorkerFailed == worker # "none" /\ worker' = "none" /\ failures' = failures + 1 /\ coolLeft' = RetryAfter
SpawnFailed == /\ ~CoolingDown /\ worker = "none" /\ worker' = "none" /\ ~forced' /\ coolLeft' = RetryAfter
               /\ failures' = (IF Tripped THEN 0 ELSE failures) + 1
Spawned == /\ ~CoolingDown /\ worker = "none" /\ worker' = "loading" /\ coolLeft' = coolLeft
           /\ IF Tripped THEN failures' = 0 /\ ~forced' ELSE failures' = failures /\ forced' = forced
TimePassed == UNCHANGED <<failures, forced, worker>> /\ coolLeft' = Countdown(coolLeft)

LEMMA FailureKinds ==
  ASSUME IInv, [Next]_vars
  PROVE  AccountKept \/ AccountCleared \/ (WorkerFailed /\ forced' = forced) \/ (WorkerFailed /\ LoadTimedOut /\ forced')
         \/ SpawnFailed \/ Spawned \/ TimePassed
<1> USE DEF vars, queueVars, workerVars, failureVars, callVars, procVars, records
<1>t. worker \in {"none", "loading", "ready"} /\ failures \in Nat /\ forced \in BOOLEAN /\ coolLeft \in Nat \cup {Infinity}
  BY DEF IInv, TypeOK, WorkerTypes
<1>w. /\ pc = "waiters" => worker = "none"
      /\ loadLeft # Off => worker = "loading"
      /\ worker = "none" => \A i \in 1..Len(wire) : wire[i].gen < gen
      /\ wire \in Seq(Message) /\ gen \in Nat
  BY DEF IInv, HandlerShape, WorkerShape, TypeOK, ProcTypes, WorkerTypes
<1>c. wire # <<>> /\ Head(wire).gen = gen => worker # "none"
  <2>1. wire # <<>> => 1 \in 1..Len(wire) /\ Head(wire) = wire[1]
    BY <1>w, EmptySeq, HeadTailProperties
  <2> QED  BY <1>w, <2>1
<1>1. CASE PumpWithoutWorker \/ WaitersWithoutWorker
  <2>1. NoWorker /\ worker = "none" /\ worker' = worker
    BY <1>1, <1>w DEF PumpWithoutWorker, WaitersWithoutWorker
  <2> QED  BY <2>1 DEF NoWorker, AccountKept, SpawnFailed
<1>2. CASE PumpSpawn \/ WaitersSpawn
  <2>1. Spawn /\ worker = "none"
    BY <1>2, <1>w DEF PumpSpawn, WaitersSpawn
  <2>2. ~Tripped \/ coolLeft = 0
    BY <2>1 DEF Spawn, CoolingDown
  <2> QED  BY <2>1, <2>2 DEF Spawn, CooldownOver, Spawned
<1>3. CASE PumpPostThrows \/ ReceiveCrash
  <2>1. worker # "none" /\ (RecordFailure("start") \/ RecordFailure("crash")) /\ DiscardWorker /\ forced' = forced
    BY <1>3 DEF PumpPostThrows, ReceiveCrash
  <2> QED  BY <2>1 DEF RecordFailure, DiscardWorker, WorkerFailed
<1>4. CASE LoadTimedOut
  <2>1. worker # "none"
    BY <1>4, <1>w DEF LoadTimedOut, Off
  <2>2. WorkerFailed /\ forced'
    BY <1>4, <2>1 DEF LoadTimedOut, LoadFailed, RecordFailure, DiscardWorker, WorkerFailed
  <2> QED  BY <1>4, <2>2
<1>5. CASE ReceiveLoadError
  <2>1. worker # "none" /\ LoadFailed(FALSE)
    BY <1>5, <1>c DEF ReceiveLoadError, Current
  <2> QED  BY <1>t, <2>1 DEF LoadFailed, RecordFailure, DiscardWorker, WorkerFailed
<1>6. CASE ReceiveLoaded \/ ReceiveFirstAnswer
  BY <1>6 DEF ReceiveLoaded, ReceiveFirstAnswer, ModuleLoaded, AccountCleared
<1>7. CASE Tick
  BY <1>7 DEF Tick, TimePassed
<1>8. CASE Dispose \/ ReceiveAnswer \/ \E c \in Calls : ExpireRunning(c)
  BY <1>8 DEF Dispose, ReceiveAnswer, ExpireRunning, NotAFailure, DiscardWorker, AccountKept
<1>9. CASE DropOutOfTime \/ DropDone \/ PumpTake \/ PumpPost \/ PumpRefuseArgs \/ PumpDone \/ IgnoreMessage \/ UNCHANGED vars
  BY <1>9 DEF DropOutOfTime, DropDone, PumpTake, PumpPost, PumpRefuseArgs, PumpDone, IgnoreMessage, AccountKept
<1>10. CASE (\E f \in Fns, b \in Budgets : CallRaw(f, b)) \/ CallRawTurnedAway \/ (\E c \in Calls : Abort(c) \/ ExpireQueued(c))
  BY <1>10 DEF CallRaw, CallRawTurnedAway, Abort, ExpireQueued, AccountKept
<1>11. CASE Worker
  BY <1>11 DEF Worker, WorkerLoads, WorkerStarts, WorkerAnswers, WorkerCrashes, HostUnchanged, AccountKept
<1>12. CASE Fallback \/ \E w \in Warmers : Warm(w)
  BY <1>12 DEF Fallback, FallbackBuilt, FallbackFails, FallbackProgress, WarmPrepared, Warm, AccountKept
<1> QED
  BY <1>1, <1>2, <1>3, <1>4, <1>5, <1>6, <1>7, <1>8, <1>9, <1>10, <1>11, <1>12 DEF Next, Handler, Host, Timers, Receive

\* A failure to start is one of those that count, or a spawn that throws.
LEMMA FailedStarts ==
  ASSUME IInv, FailedStart
  PROVE  (WorkerFailed /\ (forced' = forced \/ LoadTimedOut)) \/ SpawnFailed
<1>w. /\ pc = "waiters" => worker = "none"
      /\ loadLeft # Off => worker = "loading"
      /\ worker = "none" => \A i \in 1..Len(wire) : wire[i].gen < gen
      /\ wire \in Seq(Message) /\ gen \in Nat /\ forced \in BOOLEAN
  BY DEF IInv, HandlerShape, WorkerShape, TypeOK, ProcTypes, WorkerTypes
<1>1. CASE SpawnThrew
  <2>1. NoWorker /\ ~CoolingDown /\ worker = "none" /\ worker' = worker
    BY <1>1, <1>w DEF SpawnThrew, PumpWithoutWorker, WaitersWithoutWorker, workerVars
  <2> QED  BY <2>1 DEF NoWorker, SpawnFailed
<1>2. CASE LoadTimedOut
  BY <1>2, <1>w DEF LoadTimedOut, LoadFailed, RecordFailure, DiscardWorker, WorkerFailed, Off
<1>3. CASE ReceiveLoadError
  <2>1. wire # <<>> => 1 \in 1..Len(wire) /\ Head(wire) = wire[1]
    BY <1>w, EmptySeq, HeadTailProperties
  <2>2. wire # <<>> /\ Head(wire).gen = gen /\ LoadFailed(FALSE)
    BY <1>3 DEF ReceiveLoadError, Current
  <2>3. worker # "none"
    BY <1>w, <2>1, <2>2
  <2> QED  BY <1>w, <2>2, <2>3 DEF LoadFailed, RecordFailure, DiscardWorker, WorkerFailed
<1>4. CASE PumpPostThrows
  BY <1>4 DEF PumpPostThrows, RecordFailure, DiscardWorker, WorkerFailed
<1> QED  BY <1>1, <1>2, <1>3, <1>4 DEF FailedStart

LEMMA StartStep ==
  ASSUME IInv, StartInv, RetryAfter # 0, [HistoryNext]_<<vars, history>>
  PROVE  StartInv'
<1>t. /\ worker \in {"none", "loading", "ready"} /\ failures \in Nat /\ forced \in BOOLEAN /\ coolLeft \in Nat \cup {Infinity}
      /\ MaxFailures \in Nat \ {0} /\ RetryAfter \in Nat \cup {Infinity}
  BY ConstantsAssumption DEF IInv, TypeOK, WorkerTypes
<1>n. [Next]_vars
  BY DEF HistoryNext
<1>1. CASE UNCHANGED <<vars, history>>
  BY <1>1 DEF vars, workerVars, failureVars, history, StartInv, Tripped
<1>2. CASE HistoryNext /\ FailedStart
  <2>1. starts' = starts + 1 /\ barred' = IF LoadTimedOut THEN TRUE ELSE IF CooldownEnds THEN FALSE ELSE barred
    BY <1>2 DEF HistoryNext
  <2>2. coolLeft' = RetryAfter /\ worker' = "none"
    BY FailedStarts, <1>2 DEF WorkerFailed, SpawnFailed
  <2>3. LoadTimedOut => forced'
    BY DEF LoadTimedOut, LoadFailed
  <2>4. ~barred
    BY FailedStarts, <1>2 DEF WorkerFailed, SpawnFailed, StartInv, CoolingDown, Tripped
  <2>5. failures' \in Nat /\ starts + 1 <= failures' /\ starts + 1 <= MaxFailures
    <3>1. CASE WorkerFailed
      BY <1>t, <3>1 DEF WorkerFailed, StartInv
    <3>2. CASE SpawnFailed
      BY <1>t, <3>2 DEF SpawnFailed, StartInv, CoolingDown, Tripped
    <3> QED  BY FailedStarts, <1>2, <3>1, <3>2
  <2>6. barred' => LoadTimedOut
    BY <2>1, <2>4
  <2> QED  BY <1>t, <2>1, <2>2, <2>3, <2>5, <2>6 DEF StartInv, Tripped
<1>3. CASE HistoryNext /\ ~FailedStart
  <2>1. /\ starts' = IF worker' = "ready" \/ CooldownEnds THEN 0 ELSE starts
        /\ barred' = IF CooldownEnds THEN FALSE ELSE barred
    BY <1>3 DEF HistoryNext, FailedStart
  <2>2. (starts' = 0 \/ starts' = starts) /\ (barred' => barred) /\ (CooldownEnds => starts' = 0 /\ ~barred')
    BY <2>1
  <2>3. CASE AccountKept
    BY <1>t, <2>2, <2>3 DEF AccountKept, StartInv, Tripped
  <2>4. CASE AccountCleared
    BY <1>t, <2>1, <2>2, <2>4 DEF AccountCleared, StartInv, Tripped
  <2>5. CASE WorkerFailed
    <3>1. ~barred /\ starts <= failures + 1 /\ ~LoadTimedOut
      BY <1>t, <1>3, <2>5 DEF WorkerFailed, StartInv, FailedStart
    <3> QED  BY <1>t, <2>2, <2>5, <3>1 DEF WorkerFailed, StartInv, Tripped
  <2>6. CASE SpawnFailed
    <3>1. ~barred
      BY <2>6 DEF SpawnFailed, StartInv, CoolingDown, Tripped
    <3>2. starts <= failures'
      BY <1>t, <2>6 DEF SpawnFailed, StartInv, CoolingDown, Tripped
    <3> QED  BY <1>t, <2>2, <2>6, <3>1, <3>2 DEF SpawnFailed, StartInv, Tripped
  <2>7. CASE Spawned
    <3>1. ~barred /\ starts <= failures' /\ failures' < MaxFailures /\ ~forced'
      BY <1>t, <2>7 DEF Spawned, StartInv, CoolingDown, Tripped
    <3> QED  BY <1>t, <2>2, <2>7, <3>1 DEF Spawned, StartInv, CoolingDown, Tripped
  <2>8. CASE TimePassed
    <3>1. coolLeft' = coolLeft \/ (coolLeft > 0 /\ coolLeft' = coolLeft - 1)
      BY <1>t, <2>8 DEF TimePassed, Countdown
    <3>2. coolLeft' = 0 /\ coolLeft # 0 /\ Tripped => CooldownEnds
      BY <1>t, <3>1 DEF CooldownEnds
    <3>3. forced => Tripped
      BY DEF Tripped
    <3> QED  BY <1>t, <2>2, <2>8, <3>1, <3>2, <3>3 DEF TimePassed, StartInv, Tripped
  <2> QED  BY FailureKinds, <1>n, <2>3, <2>4, <2>5, <2>6, <2>7, <2>8
<1> QED  BY <1>1, <1>2, <1>3

\* "After maxConsecutiveFailures in a row no worker is spawned for retryAfterMs" (README), of failures to start,
\* and none while the cooldown of a load that ran out of time lasts: provided there is a cooldown.
THEOREM StartsAreBounded ==
  ASSUME RetryAfter # 0
  PROVE  HistorySpec => []StartsBounded
<1>1. HistorySpec => Spec
  <2>1. HistoryInit => Init
    BY DEF HistoryInit
  <2>2. [HistoryNext]_<<vars, history>> => [Next]_vars
    BY DEF HistoryNext
  <2> QED  BY <2>1, <2>2, PTL DEF HistorySpec, Spec
<1>2. HistoryInit => StartInv
  BY ConstantsAssumption DEF HistoryInit, Init, StartInv, Tripped
<1>3. IInv /\ StartInv /\ [HistoryNext]_<<vars, history>> => StartInv'
  BY StartStep
<1>4. StartInv => StartsBounded
  BY DEF StartInv, StartsBounded
<1> QED  BY <1>1, <1>2, <1>3, <1>4, Invariance, PTL DEF HistorySpec

-----------------------------------------------------------------------------
(* What the contract promises, of the worker backend: its refinement, read back. *)

\* A caller is told the truth about whether its call ran, once, and a backend disposed of leaves no call pending:
\* of every call but one put back while its worker had loaded unheard, for which no outcome tells.
THEOREM CallersAreToldTheTruth ==
  Spec /\ FallbackOutlivesCalls => []Contract!Truthful /\ Contract!SettledOnce /\ []Contract!ClosedIsQuiet
BY WorkerBackendKeepsContract, Contract!OutcomesAreTrue, Contract!OutcomesAreFinal, Contract!ClosedBackendsAreQuiet, PTL DEF KeepsContract
=============================================================================
