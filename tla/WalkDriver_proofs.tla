--------------------------- MODULE WalkDriver_proofs ---------------------------
(***************************************************************************)
(* Proofs about WalkDriver, for any document and any bounds: a walk that   *)
(* asks for its steps instead of recursing takes them in the order of      *)
(* recursion, keeps within its budgets, gives back what it was charged, and*)
(* is refused exactly when recursion would go past a bound.                *)
(***************************************************************************)
EXTENDS WalkDriver, SequenceTheorems, FiniteSetTheorems, WellFoundedInduction, TLAPS

TaskType == [step : Nat, hops : Nat, driver : Nat, entered : BOOLEAN, next : Nat, charge : Nat, got : Seq(Nat), before : Nat]

\* The steps i..j in order.
Span(i, j) == [k \in 1..(j - i + 1) |-> i + k - 1]
Payload(t) == IF Nests(t) THEN 1 ELSE 0
Levels(t) == IF Nests(t) THEN journey.depth[t.step] ELSE 0

\* A task by itself, and what one that was asked for has to do with the one that asked.
TaskShape(t) ==
  /\ t \in TaskType /\ t.step \in Steps /\ t.next > t.step /\ t.next <= journey.last[t.step] + 1
  /\ ~t.entered => t.charge = 0 /\ t.next = t.step + 1 /\ t.got = <<>>
AskedBy(u, t) ==
  /\ t.entered /\ t.step < u.step /\ t.next = journey.last[u.step] + 1
  /\ u.before = t.before + t.charge /\ u.driver = t.driver + Payload(t)
  /\ exceeded = "none" => t.got = Span(t.step, u.step - 1)

\* Every task but the top one waits for the one above it.
StackShape ==
  /\ tasks \in Seq(TaskType) /\ \A n \in 1..Len(tasks) : TaskShape(tasks[n])
  /\ \A n \in 1..Len(tasks) : n < Len(tasks) => AskedBy(tasks[n + 1], tasks[n])
  /\ tasks # <<>> => tasks[1].step = 1 /\ tasks[1].before = 0 /\ tasks[1].driver = 1
ChannelShape ==
  channel = <<>> \/ \E u \in TaskType : /\ channel = <<u>> /\ TaskShape(u) /\ ~u.entered
                                       /\ tasks # <<>> /\ AskedBy(u, Running) /\ ~Nests(Running)

\* The budgets hold what the tasks on the stack were charged.
ChargesHeld ==
  /\ descent = (IF tasks = <<>> THEN 0 ELSE Running.before + Running.charge) /\ descent <= MaxDescent
  /\ openPayloads = (IF tasks = <<>> THEN 0 ELSE Running.driver - 1 + Payload(Running)) /\ openPayloads <= MaxOpenPayloads
LevelsHeld ==
  \E held \in [0..Len(tasks) -> Int] :
    /\ held[0] = MaxTotalNesting - journey.depth[0] /\ held[Len(tasks)] = nestingLeft
    /\ \A n \in 1..Len(tasks) : held[n] = held[n - 1] - Levels(tasks[n])

\* What has been walked, as long as nothing was refused.
InOrderSoFar ==
  exceeded = "none" =>
    IF tasks = <<>> THEN product = <<[i \in Steps |-> i]>>
    ELSE channel = <<>> => Running.got = IF Running.entered THEN Span(Running.step, Running.next - 1) ELSE <<>>

WalkInv ==
  /\ journey \in Walks /\ workLeft \in Nat /\ nestingLeft \in Int
  /\ StackShape /\ ChannelShape /\ (tasks = <<>> => channel = <<>>) /\ ChargesHeld /\ LevelsHeld /\ InOrderSoFar

-----------------------------------------------------------------------------
(* Documents, stacks and spans. *)

LEMMA JourneyFacts ==
  ASSUME journey \in Walks
  PROVE  /\ Steps = 1..Len(journey.last) /\ Len(journey.last) \in Nat \ {0} /\ journey.last[1] = Len(journey.last)
         /\ \A i \in Steps : i \in Nat /\ journey.last[i] \in Nat /\ journey.last[i] \in Steps /\ i <= journey.last[i]
         /\ \A i, j \in Steps : i <= j /\ j <= journey.last[i] => journey.last[j] <= journey.last[i]
         /\ \A i \in Steps : StepKind(i) \in StepKinds
         /\ \A i \in Steps : journey.depth[i] \in Nat
         /\ journey.depth[0] \in Nat
<1> DEFINE n == Len(journey.last)
<1>1. /\ n \in Nat \ {0} /\ journey.last \in [1..n -> 1..n] /\ journey.kind \in [1..n -> StepKinds] /\ journey.depth \in [0..n -> Nat]
      /\ journey.last[1] = n /\ \A i \in 1..n : journey.last[i] >= i /\ \A j \in i..journey.last[i] : journey.last[j] <= journey.last[i]
  BY WalkAssumption
<1>2. Steps = 1..n
  BY <1>1 DEF Steps
<1> HIDE DEF n
<1>0. n \in Nat \ {0} /\ journey.last \in [1..n -> 1..n]
  BY <1>1, Zenon
<1>3. \A i \in 1..n : i \in 0..n /\ i \in Nat
  BY <1>0
<1>4. \A i \in 1..n : journey.last[i] \in 1..n /\ journey.last[i] \in Nat /\ i <= journey.last[i]
  <2> TAKE i \in 1..n
  <2>1. journey.last[i] \in 1..n
    BY <1>0
  <2>2. journey.last[i] \in Nat
    BY <1>0, <2>1
  <2>3. journey.last[i] >= i
    BY <1>1, Zenon
  <2> QED  BY <1>3, <2>1, <2>2, <2>3
<1>5. \A i, j \in 1..n : i <= j /\ j <= journey.last[i] => journey.last[j] <= journey.last[i]
  <2> TAKE i, j \in 1..n
  <2> HAVE i <= j /\ j <= journey.last[i]
  <2>1. i \in Nat /\ j \in Nat /\ journey.last[i] \in Nat
    BY <1>3, <1>4
  <2>2. j \in i..journey.last[i]
    BY <2>1
  <2> QED  BY <1>1, <2>2
<1>6. \A i \in 1..n : journey.kind[i] \in StepKinds /\ journey.depth[i] \in Nat
  BY <1>1, <1>3
<1>7. journey.depth[0] \in Nat
  BY <1>1
<1> QED  BY <1>1, <1>2, <1>3, <1>4, <1>5, <1>6, <1>7 DEF n, StepKind

LEMMA ChargeFacts ==
  ASSUME journey \in Walks, NEW i \in Steps
  PROVE  Charge(i) \in Nat /\ Work(i) \in Nat
<1>1. Weights.level \in Nat /\ Weights.ruleHop \in Nat /\ Weights.rawLevel \in Nat
  BY WalkAssumption
<1>2. Weight(StepKind(i)) \in Nat
  BY <1>1 DEF Weight
<1> QED  BY <1>2 DEF Charge, Work

\* A task put on the stack, the top one exchanged, the top one dropped.
LEMMA Pushed ==
  ASSUME NEW s \in Seq(TaskType), NEW u \in TaskType
  PROVE  /\ Append(s, u) \in Seq(TaskType) /\ Append(s, u) # <<>>
         /\ Len(Append(s, u)) = Len(s) + 1 /\ Len(s) \in Nat /\ Append(s, u)[Len(s) + 1] = u
         /\ \A n \in 1..Len(s) : Append(s, u)[n] = s[n]
BY AppendProperties

LEMMA Exchanged ==
  ASSUME tasks \in Seq(TaskType), tasks # <<>>, NEW t \in TaskType
  PROVE  /\ Replaced(t) \in Seq(TaskType) /\ Replaced(t) # <<>>
         /\ Len(Replaced(t)) = Len(tasks) /\ Len(tasks) \in Nat \ {0} /\ Replaced(t)[Len(tasks)] = t
         /\ \A n \in 1..Len(tasks) : n < Len(tasks) => Replaced(t)[n] = tasks[n]
<1>1. Len(tasks) \in Nat \ {0} /\ Len(tasks) \in 1..Len(tasks)
  BY EmptySeq, LenProperties
<1>2. Replaced(t) \in Seq(TaskType) /\ Len(Replaced(t)) = Len(tasks)
  BY <1>1, ExceptSeq DEF Replaced
<1>3. \A n \in 1..Len(tasks) : Replaced(t)[n] = IF n = Len(tasks) THEN t ELSE tasks[n]
  BY <1>1, ExceptSeq DEF Replaced
<1> QED  BY <1>1, <1>2, <1>3, EmptySeq

LEMMA TopTask ==
  ASSUME StackShape, tasks # <<>>
  PROVE  Len(tasks) \in Nat \ {0} /\ Len(tasks) \in 1..Len(tasks) /\ Running \in TaskType /\ TaskShape(Running)
<1>1. Len(tasks) \in Nat \ {0} /\ Len(tasks) \in 1..Len(tasks)
  BY EmptySeq, LenProperties DEF StackShape
<1> QED  BY <1>1 DEF StackShape, Running, TaskShape

LEMMA SpanOne == ASSUME NEW i \in Nat PROVE Span(i, i) = <<i>>
BY DEF Span

LEMMA SpanFacts ==
  ASSUME NEW i \in Nat, NEW j \in Nat, i <= j
  PROVE  /\ Span(i, j) \in Seq(Nat) /\ Len(Span(i, j)) = j - i + 1
         /\ \A k \in Nat : j <= k => Span(i, j) \o Span(j + 1, k) = Span(i, k)
<1>1. \A k, m \in Nat : k <= m + 1 => Span(k, m) \in Seq(Nat) /\ Len(Span(k, m)) = m - k + 1
  <2> TAKE k, m \in Nat
  <2> HAVE k <= m + 1
  <2>1. m - k + 1 \in Nat
    OBVIOUS
  <2>2. \A x \in 1..(m - k + 1) : k + x - 1 \in Nat
    OBVIOUS
  <2> QED  BY <2>1, <2>2, IsASeq DEF Span
<1>3. ASSUME NEW k \in Nat, j <= k PROVE Span(i, j) \o Span(j + 1, k) = Span(i, k)
  <2>1. /\ Span(i, j) \in Seq(Nat) /\ Len(Span(i, j)) = j - i + 1
        /\ Span(j + 1, k) \in Seq(Nat) /\ Len(Span(j + 1, k)) = k - j
        /\ Span(i, k) \in Seq(Nat) /\ Len(Span(i, k)) = k - i + 1
    <3>1. j + 1 \in Nat /\ i <= j + 1 /\ j + 1 <= k + 1 /\ i <= k + 1 /\ k - (j + 1) + 1 = k - j
      BY <1>3
    <3> QED  BY <1>1, <3>1
  <2>2. /\ Span(i, j) \o Span(j + 1, k) \in Seq(Nat) /\ Len(Span(i, j) \o Span(j + 1, k)) = k - i + 1
        /\ \A x \in 1..(k - i + 1) : (Span(i, j) \o Span(j + 1, k))[x] = IF x <= j - i + 1 THEN Span(i, j)[x] ELSE Span(j + 1, k)[x - (j - i + 1)]
    <3> DEFINE a == Span(i, j)  b == Span(j + 1, k)
    <3>1. /\ a \o b \in Seq(Nat) /\ Len(a \o b) = Len(a) + Len(b)
          /\ \A x \in 1..Len(a) + Len(b) : (a \o b)[x] = IF x <= Len(a) THEN a[x] ELSE b[x - Len(a)]
      BY <2>1, ConcatProperties
    <3> HIDE DEF a, b
    <3>2. Len(a) = j - i + 1 /\ Len(b) = k - j /\ (j - i + 1) + (k - j) = k - i + 1
      BY <2>1 DEF a, b
    <3> QED  BY <3>1, <3>2 DEF a, b
  <2>3. ASSUME NEW x \in 1..(k - i + 1) PROVE (Span(i, j) \o Span(j + 1, k))[x] = Span(i, k)[x]
    <3>1. CASE x <= j - i + 1
      BY <1>3, <2>2, <3>1 DEF Span
    <3>2. CASE x > j - i + 1
      <4>1. x - (j - i + 1) \in 1..(k - (j + 1) + 1) /\ (j + 1) + (x - (j - i + 1)) - 1 = i + x - 1
        BY <1>3, <3>2
      <4>2. Span(j + 1, k)[x - (j - i + 1)] = (j + 1) + (x - (j - i + 1)) - 1 /\ Span(i, k)[x] = i + x - 1
        BY <4>1 DEF Span
      <4> QED  BY <1>3, <2>2, <3>2, <4>1, <4>2
    <3>3. x <= j - i + 1 \/ x > j - i + 1
      BY <1>3
    <3> QED  BY <3>1, <3>2, <3>3
  <2> QED  BY <2>1, <2>2, <2>3, SeqEqual
<1>4. Span(i, j) \in Seq(Nat) /\ Len(Span(i, j)) = j - i + 1
  <2>1. i <= j + 1
    OBVIOUS
  <2> QED  BY <1>1, <2>1
<1> QED  BY <1>3, <1>4


-----------------------------------------------------------------------------
(* The steps of a walk. *)

LEMMA WalkStarts == WalkInit => WalkInv
<1> SUFFICES ASSUME WalkInit PROVE WalkInv
  OBVIOUS
<1>1. journey \in Walks /\ descent = 0 /\ workLeft = MaxWork /\ openPayloads = 0 /\ channel = <<>>
      /\ nestingLeft = MaxTotalNesting - journey.depth[0] /\ MaxWork \in Nat /\ MaxTotalNesting \in Nat
      /\ MaxDescent \in Nat /\ MaxOpenPayloads \in Nat
  BY WalkAssumption DEF WalkInit
<1>2. nestingLeft \in Int /\ 1 \in Steps /\ journey.last[1] \in Nat /\ 1 <= journey.last[1]
  BY <1>1, JourneyFacts
<1>3. CASE tasks = <<>>
  <2>1. exceeded # "none"
    BY <1>3, <1>1 DEF WalkInit
  <2>2. LevelsHeld
    <3>1. Len(tasks) = 0
      BY <1>3, EmptySeq
    <3> DEFINE held == [n \in 0..0 |-> nestingLeft]
    <3>2. held \in [0..Len(tasks) -> Int] /\ held[0] = MaxTotalNesting - journey.depth[0] /\ held[Len(tasks)] = nestingLeft
      BY <1>1, <1>2, <3>1
    <3> HIDE DEF held
    <3> QED  BY <3>1, <3>2 DEF LevelsHeld
  <2>3. StackShape
    BY <1>3, EmptySeq DEF StackShape
  <2> QED  BY <1>1, <1>2, <1>3, <2>1, <2>2, <2>3 DEF WalkInv, ChannelShape, ChargesHeld, InOrderSoFar
<1>4. CASE tasks # <<>>
  <2> DEFINE t == Task(1, 0, 1)
  <2>1. tasks = <<t>>
    BY <1>1, <1>4 DEF WalkInit
  <2>2. t \in TaskType /\ ~t.entered /\ t.step = 1 /\ t.next = 2 /\ t.charge = 0 /\ t.before = 0 /\ t.driver = 1 /\ t.got = <<>>
    BY <1>1, EmptySeq DEF Task, TaskType
  <2> HIDE DEF t
  <2>3. Len(tasks) = 1 /\ tasks[1] = t /\ tasks \in Seq(TaskType) /\ Running = t
    BY <2>1, <2>2 DEF Running
  <2>4. TaskShape(t) /\ ~Nests(t)
    BY <1>2, <2>2 DEF TaskShape, Nests
  <2>5. StackShape
    BY <2>2, <2>3, <2>4 DEF StackShape
  <2>6. LevelsHeld
    <3> DEFINE held == [n \in 0..1 |-> nestingLeft]
    <3>1. held \in [0..Len(tasks) -> Int] /\ held[0] = MaxTotalNesting - journey.depth[0] /\ held[Len(tasks)] = nestingLeft /\ held[1] = held[0]
      BY <1>1, <1>2, <2>3
    <3>2. Levels(tasks[1]) = 0 /\ held[0] \in Int
      BY <2>3, <2>4, <1>2 DEF Levels
    <3> HIDE DEF held
    <3>3. \A n \in 1..Len(tasks) : held[n] = held[n - 1] - Levels(tasks[n])
      BY <2>3, <3>1, <3>2
    <3> QED  BY <3>1, <3>3 DEF LevelsHeld
  <2>7. ChargesHeld
    BY <1>1, <1>4, <2>2, <2>3, <2>4 DEF ChargesHeld, Payload
  <2> QED  BY <1>1, <1>2, <1>4, <2>2, <2>3, <2>5, <2>6, <2>7 DEF WalkInv, ChannelShape, InOrderSoFar
<1> QED  BY <1>3, <1>4

\* Entering a task: the top one has its charge, and the first of its results.
LEMMA EnterStep ==
  ASSUME WalkInv, Enter
  PROVE  WalkInv'
<1> DEFINE N == Len(tasks)
           i == Running.step
           t == [Running EXCEPT !.entered = TRUE, !.charge = Charge(i), !.got = <<i>>]
<1>1. /\ tasks # <<>> /\ ~Running.entered /\ exceeded = "none" /\ Met(Running) = "none" /\ tasks' = Replaced(t)
      /\ descent' = descent + Charge(i) /\ workLeft' = workLeft - Work(i)
      /\ nestingLeft' = (IF Decodes(i) THEN nestingLeft - journey.depth[i] ELSE nestingLeft)
      /\ openPayloads' = (IF Decodes(i) THEN openPayloads + 1 ELSE openPayloads)
      /\ journey' = journey /\ channel' = channel /\ exceeded' = exceeded /\ product' = product
  BY DEF Enter
<1>2. /\ journey \in Walks /\ workLeft \in Nat /\ nestingLeft \in Int /\ StackShape /\ ChannelShape /\ ChargesHeld /\ LevelsHeld
      /\ N \in Nat \ {0} /\ N \in 1..N /\ TaskShape(Running) /\ Running \in TaskType /\ tasks \in Seq(TaskType) /\ i \in Steps /\ i \in Nat
  BY <1>1, TopTask, JourneyFacts DEF WalkInv, StackShape, TaskShape
<1>3. Charge(i) \in Nat /\ Work(i) \in Nat /\ journey.depth[i] \in Nat
  BY <1>2, ChargeFacts, JourneyFacts
<1>4. channel = <<>>
  BY <1>1, <1>2 DEF ChannelShape, AskedBy
<1>5. Work(i) <= workLeft /\ descent + Charge(i) <= MaxDescent /\ (StepKind(i) = "payload" => openPayloads < MaxOpenPayloads)
  <2>1. /\ ~(Work(i) > workLeft) /\ ~(descent + Charge(i) > MaxDescent)
        /\ ~(StepKind(i) = "payload" /\ openPayloads >= MaxOpenPayloads)
    BY <1>1 DEF Met
  <2>2. descent \in Nat /\ MaxDescent \in Nat /\ openPayloads \in Int /\ MaxOpenPayloads \in Nat
    <3>1. Running.before \in Nat /\ Running.charge \in Nat /\ Running.driver \in Nat /\ Payload(Running) \in {0, 1}
      BY <1>2 DEF TaskType, Payload
    <3>2. MaxDescent \in Nat /\ MaxOpenPayloads \in Nat
      BY WalkAssumption
    <3>3. descent = Running.before + Running.charge /\ openPayloads = Running.driver - 1 + Payload(Running)
      BY <1>1, <1>2 DEF ChargesHeld
    <3> QED  BY <3>1, <3>2, <3>3
  <2> QED  BY <1>2, <1>3, <2>1, <2>2
<1>6. /\ t \in TaskType /\ t.step = i /\ t.hops = Running.hops /\ t.driver = Running.driver /\ t.entered /\ t.next = Running.next
      /\ t.charge = Charge(i) /\ t.got = <<i>> /\ t.before = Running.before
  <2>1. <<i>> \in Seq(Nat)
    BY <1>2
  <2> QED  BY <1>2, <1>3, <2>1 DEF TaskType
<1> HIDE DEF t
<1>7. /\ tasks' \in Seq(TaskType) /\ tasks' # <<>> /\ Len(tasks') = N /\ tasks'[N] = t
      /\ \A n \in 1..N : n < N => tasks'[n] = tasks[n]
  BY <1>1, <1>2, <1>6, Exchanged
<1>8. Running' = t /\ Running = tasks[N]
  BY <1>7 DEF Running
<1>9. \A n \in 1..N : n < N => (Nests(tasks[n])' <=> Nests(tasks[n]))
  BY <1>1, <1>7 DEF Nests, Decodes, StepKind
<1>10. ASSUME NEW n \in 1..N PROVE TaskShape(tasks[n])'
  <2>1. CASE n = N
    BY <1>1, <1>2, <1>6, <1>7, <2>1 DEF TaskShape, Steps
  <2>2. CASE n < N
    BY <1>1, <1>2, <1>7, <2>2 DEF StackShape, TaskShape, Steps
  <2> QED  BY <1>2, <2>1, <2>2
<1>11. ASSUME NEW n \in 1..N, n < N PROVE AskedBy(tasks[n + 1], tasks[n])'
  <2>1. n + 1 \in 1..N /\ AskedBy(tasks[n + 1], tasks[n])
    BY <1>2, <1>11 DEF StackShape
  <2>2. /\ tasks'[n] = tasks[n] /\ tasks'[n + 1].step = tasks[n + 1].step
        /\ tasks'[n + 1].before = tasks[n + 1].before /\ tasks'[n + 1].driver = tasks[n + 1].driver
    BY <1>2, <1>6, <1>7, <1>8, <1>11, <2>1
  <2>3. Payload(tasks[n])' = Payload(tasks[n])
    BY <1>9, <1>11, <2>2 DEF Payload
  <2> QED  BY <1>1, <2>1, <2>2, <2>3 DEF AskedBy, Payload, Nests, Decodes, StepKind
<1>12. StackShape'
  <2>1. tasks'[1].step = 1 /\ tasks'[1].before = 0 /\ tasks'[1].driver = 1
    <3>1. 1 \in 1..N
      BY <1>2
    <3> QED  BY <1>1, <1>2, <1>6, <1>7, <1>8, <3>1 DEF StackShape
  <2> QED  BY <1>7, <1>10, <1>11, <2>1 DEF StackShape
<1>13. Payload(Running)' = (IF Decodes(i) THEN 1 ELSE 0) /\ Levels(Running)' = (IF Decodes(i) THEN journey.depth[i] ELSE 0)
       /\ Payload(Running) = 0 /\ Levels(Running) = 0
  BY <1>1, <1>6, <1>8 DEF Payload, Levels, Nests, Decodes, StepKind
<1>14. ChargesHeld'
  <2>1. descent = Running.before /\ openPayloads = Running.driver - 1 /\ Running.driver \in Nat /\ Running.before \in Nat
    BY <1>1, <1>2, <1>13 DEF ChargesHeld, TaskShape, TaskType
  <2>2. descent' = t.before + t.charge /\ descent' <= MaxDescent
    BY <1>1, <1>5, <1>6, <2>1
  <2>3. openPayloads' = t.driver - 1 + Payload(Running)' /\ openPayloads' <= MaxOpenPayloads
    <3>1. CASE Decodes(i)
      <4>1. openPayloads < MaxOpenPayloads /\ MaxOpenPayloads \in Nat
        BY <1>5, <3>1, WalkAssumption DEF Decodes
      <4> QED  BY <1>1, <1>6, <1>13, <2>1, <3>1, <4>1
    <3>2. CASE ~Decodes(i)
      BY <1>1, <1>2, <1>6, <1>13, <2>1, <3>2 DEF ChargesHeld
    <3> QED  BY <3>1, <3>2
  <2> QED  BY <1>7, <1>8, <2>2, <2>3 DEF ChargesHeld
<1>15. LevelsHeld'
  <2>1. PICK held \in [0..N -> Int] :
          /\ held[0] = MaxTotalNesting - journey.depth[0] /\ held[N] = nestingLeft
          /\ \A n \in 1..N : held[n] = held[n - 1] - Levels(tasks[n])
    BY <1>2 DEF LevelsHeld
  <2> DEFINE now == [held EXCEPT ![N] = nestingLeft']
  <2>2. now \in [0..N -> Int] /\ now[0] = held[0] /\ now[N] = nestingLeft' /\ \A n \in 1..N : now[n - 1] = held[n - 1]
    <3>1. nestingLeft' \in Int
      BY <1>1, <1>2, <1>3
    <3> QED  BY <1>2, <3>1
  <2>3. \A n \in 1..N : n < N => now[n] = held[n] /\ Levels(tasks[n])' = Levels(tasks[n])
    BY <1>1, <1>2, <1>7 DEF Levels, Nests, Decodes, StepKind
  <2>4. now[N] = now[N - 1] - Levels(Running)'
    <3>1. held[N] = held[N - 1] - 0 /\ N - 1 \in 0..N
      BY <1>2, <1>8, <1>13, <2>1
    <3>2. held[N - 1] \in Int
      BY <2>1, <3>1
    <3> QED  BY <1>1, <1>2, <1>3, <1>13, <2>1, <2>2, <3>1, <3>2
  <2> HIDE DEF now
  <2>5. \A n \in 1..N : now[n] = now[n - 1] - Levels(tasks[n])'
    <3> TAKE n \in 1..N
    <3>1. CASE n < N
      BY <2>1, <2>2, <2>3, <3>1
    <3>2. CASE n = N
      BY <1>7, <1>8, <2>4, <3>2 DEF Running
    <3> QED  BY <1>2, <3>1, <3>2
  <2>6. Len(tasks') = N /\ now[0] = MaxTotalNesting - journey'.depth[0] /\ now[N] = nestingLeft'
    BY <1>1, <1>7, <2>1, <2>2
  <2> HIDE DEF N
  <2>7. \E h \in [0..Len(tasks') -> Int] :
          /\ h[0] = MaxTotalNesting - journey'.depth[0] /\ h[Len(tasks')] = nestingLeft'
          /\ \A n \in 1..Len(tasks') : h[n] = h[n - 1] - Levels(tasks[n])'
    <3>1. now \in [0..Len(tasks') -> Int]
      BY <2>2, <2>6
    <3> USE <3>1
    <3> WITNESS now \in [0..Len(tasks') -> Int]
    <3> QED  BY <2>5, <2>6
  <2> QED  BY <2>7 DEF LevelsHeld
<1>16. InOrderSoFar'
  <2>1. t.next = i + 1 /\ t.next - 1 = i /\ Span(i, i) = <<i>>
    <3>1. Span(i, i) = <<i>>
      BY <1>2, SpanOne
    <3> QED  BY <1>1, <1>2, <1>6, <3>1 DEF TaskShape
  <2> QED  BY <1>2, <1>6, <1>7, <1>8, <2>1 DEF InOrderSoFar
<1> QED
  BY <1>1, <1>2, <1>3, <1>4, <1>5, <1>7, <1>12, <1>14, <1>15, <1>16 DEF WalkInv, ChannelShape


\* Leaving a task, refused or complete: what it held is given back, and its results go to the
\* one that waits for it.
LEMMA LeaveStep ==
  ASSUME WalkInv, tasks # <<>>, channel = <<>>, NEW result \in Seq(Nat), Leave(result), workLeft' = workLeft,
         exceeded' = "none" => exceeded = "none" /\ result = Span(Running.step, journey.last[Running.step])
  PROVE  WalkInv'
<1> DEFINE N == Len(tasks)
           i == Running.step
<1>1. /\ descent' = GivenBack(Running) /\ journey' = journey /\ channel' = channel
      /\ nestingLeft' = (IF Nests(Running) THEN nestingLeft + journey.depth[i] ELSE nestingLeft)
      /\ openPayloads' = (IF Nests(Running) THEN openPayloads - 1 ELSE openPayloads)
  BY DEF Leave
<1>2. /\ journey \in Walks /\ workLeft \in Nat /\ nestingLeft \in Int /\ StackShape /\ ChargesHeld /\ LevelsHeld
      /\ N \in Nat \ {0} /\ N \in 1..N /\ TaskShape(Running) /\ Running \in TaskType /\ tasks \in Seq(TaskType) /\ i \in Steps /\ i \in Nat
      /\ Running = tasks[N]
  BY TopTask, JourneyFacts DEF WalkInv, StackShape, TaskShape, Running
<1>3. journey.depth[i] \in Nat /\ Running.before \in Nat /\ Running.charge \in Nat /\ Running.driver \in Nat
  BY <1>2, JourneyFacts DEF TaskType
<1>4. descent' = Running.before /\ openPayloads' = Running.driver - 1
  <2>1. descent = Running.before + Running.charge /\ openPayloads = Running.driver - 1 + Payload(Running)
    BY <1>2 DEF ChargesHeld
  <2>2. descent' = Running.before
    BY <1>1, <1>3, <2>1 DEF GivenBack
  <2>3. openPayloads' = Running.driver - 1
    BY <1>1, <1>3, <2>1 DEF Payload
  <2> QED  BY <2>2, <2>3
<1>5. \E held \in [0..N - 1 -> Int] :
        /\ held[0] = MaxTotalNesting - journey.depth[0] /\ held[N - 1] = nestingLeft'
        /\ \A n \in 1..N - 1 : held[n] = held[n - 1] - Levels(tasks[n])
  <2>1. PICK held \in [0..N -> Int] :
          /\ held[0] = MaxTotalNesting - journey.depth[0] /\ held[N] = nestingLeft
          /\ \A n \in 1..N : held[n] = held[n - 1] - Levels(tasks[n])
    BY <1>2 DEF LevelsHeld
  <2>2. held[N - 1] = nestingLeft'
    <3>1. nestingLeft = held[N - 1] - Levels(Running) /\ N - 1 \in 0..N
      BY <1>2, <2>1
    <3>2. held[N - 1] \in Int
      BY <2>1, <3>1
    <3> QED  BY <1>1, <1>3, <3>1, <3>2 DEF Levels
  <2> DEFINE below == [n \in 0..N - 1 |-> held[n]]
  <2>3. below \in [0..N - 1 -> Int] /\ below[0] = held[0] /\ below[N - 1] = held[N - 1]
    BY <1>2
  <2>4. \A n \in 1..N - 1 : n \in 1..N /\ below[n] = held[n] /\ below[n - 1] = held[n - 1]
    BY <1>2
  <2> HIDE DEF below
  <2>5. \A n \in 1..N - 1 : below[n] = below[n - 1] - Levels(tasks[n])
    BY <2>1, <2>4
  <2> QED  BY <2>1, <2>2, <2>3, <2>5
<1>6. nestingLeft' \in Int /\ workLeft' \in Nat /\ journey' \in Walks
  BY <1>1, <1>2, <1>3
<1>7. CASE N = 1
  <2>1. tasks' = <<>> /\ product' = <<result>>
    BY <1>7 DEF Leave
  <2>2. i = 1 /\ Running.before = 0 /\ Running.driver = 1
    BY <1>2, <1>7 DEF StackShape
  <2>3. ChargesHeld'
    BY <1>4, <2>1, <2>2, WalkAssumption DEF ChargesHeld
  <2>4. LevelsHeld'
    <3>1. Len(tasks') = N - 1 /\ Len(tasks') = 0
      BY <1>7, <2>1, EmptySeq
    <3>2. \E held \in [0..Len(tasks') -> Int] :
            /\ held[0] = MaxTotalNesting - journey.depth[0] /\ held[Len(tasks')] = nestingLeft'
      BY <1>5, <3>1
    <3>3. 1..Len(tasks') = {}
      <4>1. 1..0 = {}
        OBVIOUS
      <4> QED  BY <3>1, <4>1
    <3> QED  BY <1>1, <3>2, <3>3 DEF LevelsHeld
  <2>5. InOrderSoFar'
    <3>1. ASSUME exceeded' = "none" PROVE result = [n \in Steps |-> n]
      <4>1. result = Span(1, journey.last[1]) /\ Steps = 1..Len(journey.last) /\ journey.last[1] = Len(journey.last) /\ Len(journey.last) \in Nat
        BY <1>2, <2>2, <3>1, JourneyFacts
      <4> QED  BY <4>1 DEF Span
    <3> QED  BY <1>1, <2>1, <3>1 DEF InOrderSoFar, Steps
  <2>6. StackShape'
    BY <2>1, EmptySeq DEF StackShape
  <2> QED  BY <1>1, <1>6, <2>1, <2>3, <2>4, <2>5, <2>6 DEF WalkInv, ChannelShape
<1>8. CASE N # 1
  <2> DEFINE t == [tasks[N - 1] EXCEPT !.got = @ \o result]
  <2>1. /\ N - 1 \in Nat \ {0} /\ N - 1 \in 1..N /\ N - 1 < N /\ (N - 1) + 1 = N /\ tasks[N - 1] \in TaskType /\ TaskShape(tasks[N - 1])
        /\ AskedBy(tasks[N], tasks[N - 1]) /\ tasks[N - 1].got \in Seq(Nat)
    <3>1. N - 1 \in Nat \ {0} /\ N - 1 \in 1..N /\ N - 1 < N /\ (N - 1) + 1 = N
      <4>1. N \in Nat \ {0}
        BY <1>2
      <4> HIDE DEF N
      <4> QED  BY <1>8, <4>1
    <3>2. TaskShape(tasks[N - 1]) /\ AskedBy(tasks[N], tasks[N - 1])
      BY <1>2, <3>1 DEF StackShape
    <3> QED  BY <3>1, <3>2 DEF TaskShape, TaskType
  <2>2. /\ t \in TaskType /\ t.step = tasks[N - 1].step /\ t.driver = tasks[N - 1].driver
        /\ t.entered = tasks[N - 1].entered /\ t.next = tasks[N - 1].next /\ t.charge = tasks[N - 1].charge
        /\ t.before = tasks[N - 1].before /\ t.got = tasks[N - 1].got \o result
    <3>1. tasks[N - 1].got \o result \in Seq(Nat)
      BY <2>1, ConcatProperties
    <3> QED  BY <2>1, <3>1 DEF TaskType
  <2>3. tasks' = [n \in 1..N - 1 |-> IF n = N - 1 THEN t ELSE tasks[n]] /\ product' = product
    BY <1>8 DEF Leave
  <2> HIDE DEF t
  <2>4. /\ tasks' \in Seq(TaskType) /\ Len(tasks') = N - 1 /\ tasks' # <<>> /\ tasks'[N - 1] = t
        /\ \A n \in 1..N - 1 : n < N - 1 => tasks'[n] = tasks[n]
    <3>1. \A n \in 1..N - 1 : n \in 1..N /\ tasks[n] \in TaskType
      BY <1>2, ElementOfSeq
    <3>2. \A n \in 1..N - 1 : (IF n = N - 1 THEN t ELSE tasks[n]) \in TaskType
      BY <2>2, <3>1
    <3>3. tasks' \in Seq(TaskType) /\ Len(tasks') = N - 1
      <4> DEFINE m == N - 1
      <4>1. m \in Nat /\ tasks' = [n \in 1..m |-> IF n = m THEN t ELSE tasks[n]]
            /\ \A n \in 1..m : (IF n = m THEN t ELSE tasks[n]) \in TaskType
        BY <2>1, <2>3, <3>2
      <4> HIDE DEF m
      <4>2. tasks' \in Seq(TaskType) /\ Len(tasks') = m
        BY <4>1, IsASeq
      <4> QED  BY <4>2 DEF m
    <3>4. tasks'[N - 1] = t /\ \A n \in 1..N - 1 : n < N - 1 => tasks'[n] = tasks[n]
      <4>1. N - 1 \in 1..N - 1
        BY <2>1
      <4>2. \A n \in 1..N - 1 : n < N - 1 => n # N - 1
        <5> DEFINE m == N - 1
        <5>1. m \in Nat
          BY <2>1
        <5> HIDE DEF m
        <5>2. \A n \in 1..m : n < m => n # m
          BY <5>1
        <5> QED  BY <5>2 DEF m
      <4> QED  BY <2>3, <4>1, <4>2
    <3>5. tasks' # <<>>
      BY <2>1, <3>3, EmptySeq
    <3> QED  BY <3>3, <3>4, <3>5
  <2>5. Running' = t
    BY <2>4 DEF Running
  <2>6. TaskShape(Running)' /\ Payload(Running)' = Payload(tasks[N - 1]) /\ Levels(Running)' = Levels(tasks[N - 1])
    <3>1. tasks[N - 1].entered
      BY <2>1 DEF AskedBy
    <3>2. TaskShape(t)
      BY <2>1, <2>2, <3>1 DEF TaskShape
    <3>3. TaskShape(Running)'
      BY <1>1, <2>5, <3>2 DEF TaskShape, Steps
    <3> QED  BY <1>1, <2>2, <2>5, <3>3 DEF Payload, Levels, Nests, Decodes, StepKind
  <2>13. \A n \in 1..N - 1 : n = N - 1 \/ n < N - 1
    <3> DEFINE m == N - 1
    <3>1. m \in Nat
      BY <2>1
    <3> HIDE DEF m
    <3>2. \A n \in 1..m : n = m \/ n < m
      BY <3>1
    <3> QED  BY <3>2 DEF m
  <2>7. ASSUME NEW n \in 1..N - 1 PROVE TaskShape(tasks[n])'
    <3>1. CASE n = N - 1
      BY <2>4, <2>5, <2>6, <3>1
    <3>2. CASE n < N - 1
      <4>1. TaskShape(tasks[n]) /\ tasks'[n] = tasks[n]
        BY <1>2, <2>1, <2>4, <3>2 DEF StackShape
      <4> QED  BY <1>1, <4>1 DEF TaskShape, Steps
    <3> QED  BY <2>13, <3>1, <3>2
  <2>8. ASSUME NEW n \in 1..N - 1, n < N - 1 PROVE AskedBy(tasks[n + 1], tasks[n])'
    <3>1. n + 1 \in 1..N - 1 /\ n \in 1..N /\ n < N
      BY <2>1, <2>8
    <3>2. AskedBy(tasks[n + 1], tasks[n]) /\ tasks'[n] = tasks[n]
      BY <1>2, <2>4, <2>8, <3>1 DEF StackShape
    <3>3. /\ tasks'[n + 1].step = tasks[n + 1].step
          /\ tasks'[n + 1].before = tasks[n + 1].before /\ tasks'[n + 1].driver = tasks[n + 1].driver
      <4>1. CASE n + 1 = N - 1
        BY <2>2, <2>4, <4>1
      <4>2. CASE n + 1 < N - 1
        BY <2>4, <3>1, <4>2
      <4> QED  BY <2>13, <3>1, <4>1, <4>2
    <3>4. Payload(tasks[n])' = Payload(tasks[n])
      BY <1>1, <3>2 DEF Payload, Nests, Decodes, StepKind
    <3>5. /\ tasks[n].entered /\ tasks[n].step < tasks[n + 1].step /\ tasks[n].next = journey.last[tasks[n + 1].step] + 1
          /\ tasks[n + 1].before = tasks[n].before + tasks[n].charge /\ tasks[n + 1].driver = tasks[n].driver + Payload(tasks[n])
          /\ exceeded = "none" => tasks[n].got = Span(tasks[n].step, tasks[n + 1].step - 1)
      BY <3>2 DEF AskedBy
    <3> QED  BY <1>1, <3>2, <3>3, <3>4, <3>5 DEF AskedBy
  <2>9. StackShape'
    <3>1. tasks'[1].step = 1 /\ tasks'[1].before = 0 /\ tasks'[1].driver = 1
      <4>1. 1 \in 1..N - 1 /\ tasks[1].step = 1 /\ tasks[1].before = 0 /\ tasks[1].driver = 1
        BY <1>2, <2>1 DEF StackShape
      <4>2. CASE N - 1 = 1
        BY <2>2, <2>4, <4>1, <4>2
      <4>3. CASE 1 < N - 1
        BY <2>4, <4>1, <4>3
      <4> QED  BY <2>13, <4>1, <4>2, <4>3
    <3> QED  BY <2>4, <2>7, <2>8, <3>1 DEF StackShape
  <2>10. ChargesHeld'
    <3>1. /\ tasks[N].before = tasks[N - 1].before + tasks[N - 1].charge
          /\ tasks[N].driver = tasks[N - 1].driver + Payload(tasks[N - 1])
      BY <2>1 DEF AskedBy
    <3>2. tasks[N - 1].driver \in Nat /\ Payload(tasks[N - 1]) \in {0, 1}
      BY <2>1 DEF TaskType, Payload
    <3>3. descent' = t.before + t.charge /\ openPayloads' = t.driver - 1 + Payload(Running)'
      BY <1>2, <1>4, <2>2, <2>6, <3>1, <3>2
    <3>4. descent' <= MaxDescent /\ openPayloads' <= MaxOpenPayloads
      <4>1. Payload(Running) \in {0, 1} /\ descent = Running.before + Running.charge /\ openPayloads = Running.driver - 1 + Payload(Running)
            /\ descent <= MaxDescent /\ openPayloads <= MaxOpenPayloads
        BY <1>2 DEF ChargesHeld, Payload
      <4>2. MaxDescent \in Nat /\ MaxOpenPayloads \in Nat
        BY WalkAssumption
      <4>3. Running.before \in Nat /\ Running.charge \in Nat /\ Running.driver \in Nat
        BY <1>2 DEF TaskType
      <4> QED  BY <1>4, <4>1, <4>2, <4>3
    <3> QED  BY <2>4, <2>5, <3>3, <3>4 DEF ChargesHeld
  <2>11. LevelsHeld'
    <3>1. \A n \in 1..N - 1 : Levels(tasks[n])' = Levels(tasks[n])
      <4> TAKE n \in 1..N - 1
      <4>1. tasks'[n].entered = tasks[n].entered /\ tasks'[n].step = tasks[n].step
        <5>1. CASE n = N - 1
          BY <2>2, <2>4, <5>1
        <5>2. CASE n < N - 1
          BY <2>4, <5>2
        <5> QED  BY <2>13, <5>1, <5>2
      <4> QED  BY <1>1, <4>1 DEF Levels, Nests, Decodes, StepKind
    <3>2. PICK held \in [0..N - 1 -> Int] :
            /\ held[0] = MaxTotalNesting - journey.depth[0] /\ held[N - 1] = nestingLeft'
            /\ \A n \in 1..N - 1 : held[n] = held[n - 1] - Levels(tasks[n])
      BY <1>5
    <3>3. Len(tasks') = N - 1 /\ journey' = journey
      BY <1>1, <2>4
    <3>4. \E h \in [0..Len(tasks') -> Int] :
            /\ h[0] = MaxTotalNesting - journey'.depth[0] /\ h[Len(tasks')] = nestingLeft'
            /\ \A n \in 1..Len(tasks') : h[n] = h[n - 1] - Levels(tasks[n])'
      <4> HIDE DEF N
      <4>1. held \in [0..Len(tasks') -> Int]
        BY <3>2, <3>3
      <4> USE <4>1
      <4> WITNESS held \in [0..Len(tasks') -> Int]
      <4> QED  BY <3>1, <3>2, <3>3
    <3> QED  BY <3>4 DEF LevelsHeld
  <2>12. InOrderSoFar'
    <3>1. ASSUME exceeded' = "none" PROVE t.entered /\ t.got = Span(t.step, t.next - 1)
      <4> DEFINE p == tasks[N - 1]
      <4>1. p.entered /\ p.step < i /\ p.next = journey.last[i] + 1 /\ p.got = Span(p.step, i - 1) /\ result = Span(i, journey.last[i])
        <5>1. exceeded = "none"
          BY <1>2, <3>1
        <5>2. AskedBy(Running, p) /\ Running.step = i
          BY <1>2, <2>1
        <5>3. p.entered /\ p.step < i /\ p.next = journey.last[i] + 1 /\ p.got = Span(p.step, i - 1)
          BY <5>1, <5>2 DEF AskedBy
        <5> QED  BY <1>2, <3>1, <5>3
      <4>2. p.step \in Nat /\ journey.last[i] \in Nat /\ i <= journey.last[i]
        BY <1>2, <2>1, JourneyFacts DEF TaskType
      <4> HIDE DEF p
      <4>3. i - 1 \in Nat /\ p.step <= i - 1 /\ i - 1 <= journey.last[i] /\ (i - 1) + 1 = i /\ p.next - 1 = journey.last[i]
        <5>1. i \in Nat /\ p.step < i /\ p.next = journey.last[i] + 1
          BY <1>2, <4>1
        <5> HIDE DEF i
        <5> QED  BY <4>2, <5>1
      <4>4. Span(p.step, i - 1) \o Span((i - 1) + 1, journey.last[i]) = Span(p.step, journey.last[i])
        BY <4>2, <4>3, SpanFacts
      <4>5. p.got \o result = Span(p.step, p.next - 1)
        BY <4>1, <4>3, <4>4
      <4> QED  BY <2>2, <4>1, <4>5 DEF p
    <3> QED  BY <2>4, <2>5, <3>1 DEF InOrderSoFar
  <2> QED  BY <1>1, <1>6, <2>4, <2>9, <2>10, <2>11, <2>12 DEF WalkInv, ChannelShape
<1> QED  BY <1>7, <1>8

LEMMA RefuseStep == ASSUME WalkInv, Refuse PROVE WalkInv'
<1>1. channel = <<>> /\ tasks # <<>> /\ workLeft' = workLeft /\ Leave(<<>>) /\ exceeded' # "none"
  BY DEF Refuse, WalkInv, ChannelShape, AskedBy
<1>2. <<>> \in Seq(Nat)
  BY EmptySeq
<1> HIDE DEF Leave
<1> QED  BY <1>1, <1>2, LeaveStep

LEMMA CompleteStep == ASSUME WalkInv, Complete PROVE WalkInv'
<1> DEFINE i == Running.step
<1>1. /\ channel = <<>> /\ tasks # <<>> /\ Running.entered /\ workLeft' = workLeft /\ exceeded' = exceeded /\ Leave(Running.got)
      /\ Running.next > journey.last[i] \/ exceeded # "none"
  BY DEF Complete
<1>2. Running \in TaskType /\ TaskShape(Running) /\ i \in Steps /\ journey.last[i] \in Nat
  BY <1>1, TopTask, JourneyFacts DEF WalkInv, TaskShape
<1>3. Running.got \in Seq(Nat) /\ Running.next \in Nat
  BY <1>2 DEF TaskType
<1>4. ASSUME exceeded' = "none" PROVE Running.got = Span(i, journey.last[i])
  <2>1. Running.next - 1 = journey.last[i]
    BY <1>1, <1>2, <1>3, <1>4 DEF TaskShape
  <2> QED  BY <1>1, <1>4, <2>1 DEF WalkInv, InOrderSoFar
<1> QED  BY <1>1, <1>3, <1>4, LeaveStep

\* The top task goes on with the next step below it, and what it asked for comes next.
LEMMA AskFacts ==
  ASSUME WalkInv, Asks, NEW hops \in Nat, NEW driver \in Nat
  PROVE  LET t == [Running EXCEPT !.next = journey.last[Running.next] + 1]
             u == Task(Running.next, hops, driver) IN
         /\ t \in TaskType /\ TaskShape(t) /\ t.step = Running.step /\ t.driver = Running.driver /\ t.entered
         /\ t.charge = Running.charge /\ t.before = Running.before /\ t.got = Running.got
         /\ u \in TaskType /\ TaskShape(u) /\ ~u.entered /\ u.got = <<>> /\ u.charge = 0
         /\ u.driver = driver /\ u.before = t.before + t.charge /\ t.step < u.step /\ t.next = journey.last[u.step] + 1
         /\ exceeded = "none" => t.got = Span(t.step, u.step - 1)
<1> DEFINE i == Running.step
           j == Running.next
           t == [Running EXCEPT !.next = journey.last[j] + 1]
           u == Task(j, hops, driver)
<1>1. tasks # <<>> /\ Running.entered /\ channel = <<>> /\ j <= journey.last[i] /\ journey \in Walks
  BY DEF Asks, WalkInv
<1>2. Running \in TaskType /\ TaskShape(Running) /\ i \in Steps /\ i \in Nat /\ j \in Nat /\ i < j
  BY <1>1, TopTask DEF WalkInv, TaskShape, TaskType
<1>3. /\ journey.last[i] \in Nat /\ j \in Steps /\ journey.last[j] \in Nat /\ j <= journey.last[j] /\ journey.last[j] <= journey.last[i]
  <2>1. journey.last[i] \in Nat /\ journey.last[i] <= Len(journey.last) /\ Len(journey.last) \in Nat /\ Steps = 1..Len(journey.last)
    BY <1>1, <1>2, JourneyFacts
  <2>2. j \in Steps
    BY <1>1, <1>2, <2>1
  <2> QED  BY <1>1, <1>2, <2>1, <2>2, JourneyFacts
<1>4. /\ t \in TaskType /\ t.step = i /\ t.driver = Running.driver /\ t.entered /\ t.charge = Running.charge
      /\ t.before = Running.before /\ t.got = Running.got /\ t.next = journey.last[j] + 1
  <2>1. journey.last[j] + 1 \in Nat
    BY <1>3
  <2>2. t \in TaskType
    BY <1>2, <2>1 DEF TaskType
  <2> QED  BY <1>1, <1>2, <2>2 DEF TaskType
<1>5. descent = Running.before + Running.charge /\ descent \in Nat
  BY <1>1, <1>2 DEF WalkInv, ChargesHeld, TaskType
<1>6. /\ u \in TaskType /\ u.step = j /\ ~u.entered /\ u.got = <<>> /\ u.charge = 0 /\ u.driver = driver /\ u.before = descent
      /\ u.next = j + 1
  BY <1>2, <1>5, EmptySeq DEF Task, TaskType
<1>7. exceeded = "none" => Running.got = Span(i, j - 1)
  BY <1>1 DEF WalkInv, InOrderSoFar
<1> HIDE DEF t, u
<1>8. TaskShape(t)
  BY <1>2, <1>3, <1>4 DEF TaskShape
<1>9. TaskShape(u)
  <2>1. u.next > u.step /\ u.next <= journey.last[u.step] + 1
    BY <1>2, <1>3, <1>6
  <2> QED  BY <1>3, <1>6, <2>1 DEF TaskShape
<1> QED  BY <1>2, <1>4, <1>5, <1>6, <1>7, <1>8, <1>9 DEF t, u

\* The stack with only the top task's next step changed keeps its shape.
LEMMA AskedShape ==
  ASSUME WalkInv, tasks # <<>>, NEW t \in TaskType, TaskShape(t), t.step = Running.step, t.driver = Running.driver,
         t.before = Running.before, t.charge = Running.charge, t.entered = Running.entered
  PROVE  LET s == Replaced(t) IN
         /\ s \in Seq(TaskType) /\ s # <<>> /\ Len(s) = Len(tasks) /\ s[Len(s)] = t
         /\ \A n \in 1..Len(s) : TaskShape(s[n]) /\ Levels(s[n]) = Levels(tasks[n])
         /\ \A n \in 1..Len(s) : n < Len(s) => AskedBy(s[n + 1], s[n])
         /\ s[1].step = 1 /\ s[1].before = 0 /\ s[1].driver = 1
<1> DEFINE N == Len(tasks)
           s == Replaced(t)
<1>1. /\ StackShape /\ N \in Nat \ {0} /\ N \in 1..N /\ TaskShape(Running) /\ tasks \in Seq(TaskType) /\ Running = tasks[N]
  BY TopTask DEF WalkInv, StackShape, Running
<1>2. s \in Seq(TaskType) /\ s # <<>> /\ Len(s) = N /\ s[N] = t /\ \A n \in 1..N : n < N => s[n] = tasks[n]
  BY <1>1, Exchanged
<1> HIDE DEF s
<1>3. Levels(t) = Levels(Running) /\ Payload(t) = Payload(Running)
  BY DEF Levels, Payload, Nests
<1>4. ASSUME NEW n \in 1..N PROVE TaskShape(s[n]) /\ Levels(s[n]) = Levels(tasks[n])
  <2>1. n = N \/ n < N
    BY <1>1
  <2>2. TaskShape(tasks[n])
    BY <1>1 DEF StackShape
  <2> QED  BY <1>1, <1>2, <1>3, <2>1, <2>2
<1>5. ASSUME NEW n \in 1..N, n < N PROVE AskedBy(s[n + 1], s[n])
  <2>1. n + 1 \in 1..N /\ AskedBy(tasks[n + 1], tasks[n]) /\ s[n] = tasks[n]
    BY <1>1, <1>2, <1>5 DEF StackShape
  <2>2. n + 1 = N \/ n + 1 < N
    BY <1>1, <1>5
  <2>3. s[n + 1].step = tasks[n + 1].step /\ s[n + 1].before = tasks[n + 1].before /\ s[n + 1].driver = tasks[n + 1].driver
    BY <1>1, <1>2, <2>1, <2>2
  <2> QED  BY <2>1, <2>3 DEF AskedBy
<1>6. s[1].step = 1 /\ s[1].before = 0 /\ s[1].driver = 1
  <2>1. 1 \in 1..N /\ (1 = N \/ 1 < N)
    <3>1. N \in Nat \ {0}
      BY <1>1
    <3> HIDE DEF N
    <3> QED  BY <3>1
  <2>2. tasks[1].step = 1 /\ tasks[1].before = 0 /\ tasks[1].driver = 1
    BY <1>1 DEF StackShape
  <2> QED  BY <1>1, <1>2, <2>1, <2>2
<1> QED  BY <1>2, <1>4, <1>5, <1>6 DEF s

LEMMA RunAboveStep ==
  ASSUME WalkInv, RunAbove
  PROVE  WalkInv'
<1> DEFINE t == [Running EXCEPT !.next = journey.last[Running.next] + 1]
           u == Task(Running.next, HopsBelow(Running), Running.driver)
           N == Len(tasks)
<1>1. /\ Asks /\ tasks # <<>> /\ channel = <<>> /\ ~Decodes(Running.step) /\ channel' = <<u>> /\ tasks' = Replaced(t)
      /\ journey' = journey /\ descent' = descent /\ workLeft' = workLeft /\ nestingLeft' = nestingLeft
      /\ openPayloads' = openPayloads /\ exceeded' = exceeded /\ product' = product
  BY DEF RunAbove, Asks, Asked, budgets
<1>2. Running \in TaskType /\ Running.driver \in Nat /\ HopsBelow(Running) \in Nat /\ N \in Nat \ {0} /\ N \in 1..N
  <2>1. Running \in TaskType /\ N \in Nat \ {0} /\ N \in 1..N
    BY <1>1, TopTask DEF WalkInv
  <2> QED  BY <2>1 DEF TaskType, HopsBelow
<1>3. /\ t \in TaskType /\ TaskShape(t) /\ t.step = Running.step /\ t.driver = Running.driver /\ t.entered
      /\ t.charge = Running.charge /\ t.before = Running.before /\ t.got = Running.got
      /\ u \in TaskType /\ TaskShape(u) /\ ~u.entered
      /\ u.driver = Running.driver /\ u.before = t.before + t.charge /\ t.step < u.step /\ t.next = journey.last[u.step] + 1
      /\ exceeded = "none" => t.got = Span(t.step, u.step - 1)
  BY <1>1, <1>2, AskFacts
<1> HIDE DEF t, u
<1>4. Running.entered
  BY <1>1 DEF Asks
<1>5. /\ tasks' \in Seq(TaskType) /\ tasks' # <<>> /\ Len(tasks') = N /\ tasks'[N] = t
      /\ \A n \in 1..N : TaskShape(tasks'[n]) /\ Levels(tasks'[n]) = Levels(tasks[n])
      /\ \A n \in 1..N : n < N => AskedBy(tasks'[n + 1], tasks'[n])
      /\ tasks'[1].step = 1 /\ tasks'[1].before = 0 /\ tasks'[1].driver = 1
  BY <1>1, <1>3, <1>4, AskedShape
<1>6. Running' = t
  BY <1>5 DEF Running
<1>7. Payload(t) = 0 /\ ~Nests(t) /\ Payload(Running) = 0
  BY <1>1, <1>3 DEF Payload, Nests
<1>8. StackShape'
  BY <1>1, <1>5 DEF StackShape, TaskShape, AskedBy, Steps, Payload, Nests, Decodes, StepKind
<1>9. ChannelShape'
  <2>1. AskedBy(u, t) /\ ~Nests(t)
    BY <1>2, <1>3, <1>7 DEF AskedBy
  <2>2. PICK c \in TaskType : c = u
    BY <1>3
  <2>3. AskedBy(c, Running)' /\ ~Nests(Running)'
    BY <1>1, <1>6, <2>1, <2>2 DEF AskedBy, Payload, Nests, Decodes, StepKind
  <2>4. TaskShape(c)' /\ ~c.entered /\ channel' = <<c>>
    BY <1>1, <1>3, <2>2 DEF TaskShape, Steps
  <2> QED  BY <1>5, <2>3, <2>4 DEF ChannelShape
<1>10. ChargesHeld'
  BY <1>1, <1>3, <1>5, <1>6, <1>7 DEF WalkInv, ChargesHeld, Payload, Nests, Decodes, StepKind
<1>11. LevelsHeld'
  BY <1>1, <1>5 DEF WalkInv, LevelsHeld, Levels, Nests, Decodes, StepKind
<1>12. InOrderSoFar'
  BY <1>1, <1>5 DEF InOrderSoFar
<1> QED  BY <1>1, <1>5, <1>8, <1>9, <1>10, <1>11, <1>12 DEF WalkInv

\* A task put on top of the one that asked for it.
LEMMA PushStep ==
  ASSUME WalkInv, NEW s \in Seq(TaskType), s # <<>>, Len(s) = Len(tasks), NEW u \in TaskType,
         \A n \in 1..Len(s) : TaskShape(s[n]) /\ Levels(s[n]) = Levels(tasks[n]),
         \A n \in 1..Len(s) : n < Len(s) => AskedBy(s[n + 1], s[n]),
         s[1].step = 1 /\ s[1].before = 0 /\ s[1].driver = 1,
         TaskShape(u), ~u.entered, u.got = <<>>, AskedBy(u, s[Len(s)]),
         descent = s[Len(s)].before + s[Len(s)].charge, openPayloads = s[Len(s)].driver - 1 + Payload(s[Len(s)]),
         tasks' = Append(s, u), channel' = <<>>, UNCHANGED <<journey, budgets, product>>
  PROVE  WalkInv'
<1> DEFINE N == Len(s)
           M == N + 1
<1>1. /\ journey' = journey /\ descent' = descent /\ workLeft' = workLeft /\ nestingLeft' = nestingLeft
      /\ openPayloads' = openPayloads /\ exceeded' = exceeded /\ product' = product
  BY DEF budgets
<1>2. /\ tasks' \in Seq(TaskType) /\ tasks' # <<>> /\ Len(tasks') = M /\ N \in Nat /\ tasks'[M] = u
      /\ \A n \in 1..N : tasks'[n] = s[n]
  BY Pushed
<1>3. N \in Nat \ {0} /\ N \in 1..N /\ 1 \in 1..N /\ M \in Nat \ {0} /\ M \in 1..M /\ N < M
  <2>1. N # 0
    BY EmptySeq
  <2> HIDE DEF N
  <2> QED  BY <1>2, <2>1
<1>4. \A n \in 1..M : n = M \/ (n \in 1..N /\ n < M /\ (n = N \/ (n < N /\ n + 1 \in 1..N)))
  <2> HIDE DEF N
  <2> QED  BY <1>3
<1>5. Running' = u
  BY <1>2 DEF Running
<1>6. u.charge = 0 /\ ~Nests(u) /\ Payload(u) = 0 /\ Levels(u) = 0 /\ u.driver \in Nat /\ u.before \in Nat
  BY DEF TaskShape, Nests, Payload, Levels, TaskType
<1>7. ASSUME NEW n \in 1..M PROVE TaskShape(tasks[n])'
  <2>1. TaskShape(tasks'[n])
    BY <1>2, <1>4
  <2> QED  BY <1>1, <2>1 DEF TaskShape, Steps
<1>8. ASSUME NEW n \in 1..M, n < M PROVE AskedBy(tasks[n + 1], tasks[n])'
  <2>1. ASSUME n = N PROVE AskedBy(tasks'[n + 1], tasks'[n])
    BY <1>2, <1>3, <2>1
  <2>2. ASSUME n < N /\ n \in 1..N /\ n + 1 \in 1..N PROVE AskedBy(tasks'[n + 1], tasks'[n])
    BY <1>2, <2>2
  <2>3. n # M
    BY <1>3, <1>8
  <2>4. AskedBy(tasks'[n + 1], tasks'[n])
    BY <1>4, <2>1, <2>2, <2>3
  <2> QED  BY <1>1, <2>4 DEF AskedBy, Payload, Nests, Decodes, StepKind
<1>9. tasks'[1].step = 1 /\ tasks'[1].before = 0 /\ tasks'[1].driver = 1
  BY <1>2, <1>3
<1>10. StackShape'
  BY <1>2, <1>7, <1>8, <1>9 DEF StackShape
<1>11. ChargesHeld'
  <2>1. u.before = s[N].before + s[N].charge /\ u.driver = s[N].driver + Payload(s[N])
    BY DEF AskedBy
  <2>2. s[N].driver \in Nat /\ Payload(s[N]) \in {0, 1}
    <3>1. s[N] \in TaskType
      BY <1>3, ElementOfSeq
    <3> QED  BY <3>1 DEF TaskType, Payload
  <2>3. descent' = u.before + u.charge /\ openPayloads' = u.driver - 1 + Payload(u)
    BY <1>1, <1>6, <2>1, <2>2
  <2>4. descent' <= MaxDescent /\ openPayloads' <= MaxOpenPayloads
    BY <1>1 DEF WalkInv, ChargesHeld
  <2> QED  BY <1>1, <1>2, <1>5, <1>6, <2>3, <2>4 DEF ChargesHeld, Payload, Nests
<1>12. LevelsHeld'
  <2>1. PICK held \in [0..N -> Int] :
          /\ held[0] = MaxTotalNesting - journey.depth[0] /\ held[N] = nestingLeft
          /\ \A n \in 1..N : held[n] = held[n - 1] - Levels(tasks[n])
    BY DEF WalkInv, LevelsHeld
  <2> DEFINE now == [n \in 0..M |-> IF n = M THEN nestingLeft ELSE held[n]]
  <2>2. \A n \in 0..M : (IF n = M THEN nestingLeft ELSE held[n]) \in Int
    <3>1. \A n \in 0..M : n = M \/ n \in 0..N
      <4>1. N \in Nat
        BY <1>3
      <4> HIDE DEF N
      <4> QED  BY <4>1
    <3>2. nestingLeft \in Int
      BY DEF WalkInv
    <3> QED  BY <2>1, <3>1, <3>2
  <2>3. now \in [0..M -> Int] /\ now[0] = held[0] /\ now[M] = nestingLeft /\ now[M - 1] = held[N]
    <3>1. 0 \in 0..M /\ 0 # M /\ M \in 0..M /\ M - 1 = N /\ N \in 0..M /\ N # M
      <4>1. N \in Nat
        BY <1>3
      <4> HIDE DEF N
      <4>2. 0 \in 0..N + 1 /\ 0 # N + 1
        BY <4>1
      <4>3. N + 1 \in 0..N + 1 /\ (N + 1) - 1 = N /\ N \in 0..N + 1 /\ N # N + 1
        BY <4>1
      <4> QED  BY <4>2, <4>3
    <3> HIDE DEF M
    <3> QED  BY <2>2, <3>1
  <2>4. \A n \in 1..N : now[n] = held[n] /\ now[n - 1] = held[n - 1]
    <3>1. \A n \in 1..N : n \in 0..M /\ n # M /\ n - 1 \in 0..M /\ n - 1 # M
      <4>1. N \in Nat
        BY <1>3
      <4> HIDE DEF N
      <4>2. \A n \in 1..N : n \in 0..N + 1 /\ n # N + 1
        BY <4>1
      <4>3. \A n \in 1..N : n - 1 \in 0..N + 1 /\ n - 1 # N + 1
        BY <4>1
      <4> QED  BY <4>2, <4>3
    <3> HIDE DEF M
    <3> QED  BY <3>1
  <2> HIDE DEF now
  <2>5. ASSUME NEW n \in 1..M PROVE now[n] = now[n - 1] - Levels(tasks'[n])
    <3>1. CASE n = M
      <4>1. nestingLeft \in Int /\ Levels(tasks'[n]) = 0
        BY <1>2, <1>6, <3>1 DEF WalkInv
      <4> QED  BY <2>1, <2>3, <3>1, <4>1
    <3>2. CASE n \in 1..N
      BY <1>2, <2>1, <2>4, <3>2
    <3> QED  BY <1>4, <3>1, <3>2
  <2>6. \A n \in 1..M : Levels(tasks[n])' = Levels(tasks'[n])
    BY <1>1 DEF Levels, Nests, Decodes, StepKind
  <2>7. now[Len(tasks')] = nestingLeft' /\ now[0] = MaxTotalNesting - journey'.depth[0]
    BY <1>1, <1>2, <2>1, <2>3
  <2>8. \A n \in 1..Len(tasks') : now[n] = now[n - 1] - Levels(tasks[n])'
    BY <1>2, <2>5, <2>6
  <2>9. now \in [0..Len(tasks') -> Int]
    BY <1>2, <2>3
  <2> QED  BY <2>7, <2>8, <2>9 DEF LevelsHeld
<1>13. InOrderSoFar'
  BY <1>2, <1>5 DEF InOrderSoFar
<1> QED  BY <1>1, <1>2, <1>10, <1>11, <1>12, <1>13 DEF WalkInv, ChannelShape

LEMMA RunRootStep ==
  ASSUME WalkInv, RunRoot
  PROVE  WalkInv'
<1> DEFINE t == [Running EXCEPT !.next = journey.last[Running.next] + 1]
           h == 0
           d == Running.driver + 1
           u == Task(Running.next, h, d)
           s == Replaced(t)
           N == Len(tasks)
<1>1. /\ Asks /\ tasks # <<>> /\ channel = <<>> /\ Decodes(Running.step) /\ tasks' = Append(s, u)
      /\ channel' = <<>> /\ UNCHANGED <<journey, budgets, product>>
  BY DEF RunRoot, Asks, Asked
<1>2. Running.driver \in Nat /\ h \in Nat /\ d \in Nat /\ d = Running.driver + 1 /\ Running.entered
  BY <1>1, TopTask DEF WalkInv, TaskType, Asks
<1> HIDE DEF h, d
<1>3. /\ t \in TaskType /\ TaskShape(t) /\ t.step = Running.step /\ t.driver = Running.driver /\ t.entered
      /\ t.charge = Running.charge /\ t.before = Running.before /\ t.got = Running.got
      /\ u \in TaskType /\ TaskShape(u) /\ ~u.entered /\ u.got = <<>>
      /\ u.driver = d /\ u.before = t.before + t.charge /\ t.step < u.step /\ t.next = journey.last[u.step] + 1
      /\ exceeded = "none" => t.got = Span(t.step, u.step - 1)
  BY <1>1, <1>2, AskFacts
<1> HIDE DEF t, u
<1>4. /\ s \in Seq(TaskType) /\ s # <<>> /\ Len(s) = N /\ s[N] = t
      /\ \A n \in 1..N : TaskShape(s[n]) /\ Levels(s[n]) = Levels(tasks[n])
      /\ \A n \in 1..N : n < N => AskedBy(s[n + 1], s[n])
      /\ s[1].step = 1 /\ s[1].before = 0 /\ s[1].driver = 1
  BY <1>1, <1>2, <1>3, AskedShape
<1>5. Payload(t) = 1 /\ Payload(Running) = 1
  BY <1>1, <1>2, <1>3 DEF Payload, Nests
<1>6. AskedBy(u, t)
  BY <1>2, <1>3, <1>5 DEF AskedBy
<1>7. descent = t.before + t.charge /\ openPayloads = t.driver - 1 + Payload(t)
  BY <1>1, <1>3, <1>5 DEF WalkInv, ChargesHeld
<1> HIDE DEF s
<1> QED  BY <1>1, <1>3, <1>4, <1>6, <1>7, PushStep

LEMMA DriveStep ==
  ASSUME WalkInv, Drive
  PROVE  WalkInv'
<1>1. PICK u \in TaskType : channel = <<u>> /\ TaskShape(u) /\ ~u.entered /\ tasks # <<>> /\ AskedBy(u, Running) /\ ~Nests(Running)
  BY DEF Drive, WalkInv, ChannelShape
<1>2. tasks' = Append(tasks, u) /\ channel' = <<>> /\ UNCHANGED <<journey, budgets, product>>
  BY <1>1 DEF Drive
<1>3. tasks \in Seq(TaskType) /\ Running = tasks[Len(tasks)]
  BY DEF WalkInv, StackShape, Running
<1>4. /\ \A n \in 1..Len(tasks) : TaskShape(tasks[n])
      /\ \A n \in 1..Len(tasks) : n < Len(tasks) => AskedBy(tasks[n + 1], tasks[n])
      /\ tasks[1].step = 1 /\ tasks[1].before = 0 /\ tasks[1].driver = 1
  BY <1>1 DEF WalkInv, StackShape
<1>5. descent = Running.before + Running.charge /\ openPayloads = Running.driver - 1 + Payload(Running)
  BY <1>1 DEF WalkInv, ChargesHeld
<1>6. u.got = <<>>
  BY <1>1 DEF TaskShape
<1> QED  BY <1>1, <1>2, <1>3, <1>4, <1>5, <1>6, PushStep

-----------------------------------------------------------------------------
(* What holds of every walk. *)

\* The invariant: each task waits for the one above it, the budgets hold what the tasks on
\* the stack were charged, and the results so far are in the order of recursion (drive,
\* run_above, run_root; the guards of limits.rs).
THEOREM WalkInvariance == WalkSpec => []WalkInv
<1>1. ASSUME WalkInv, [WalkNext]_walkVars PROVE WalkInv'
  <2>1. CASE UNCHANGED walkVars
    <3>1. /\ journey' = journey /\ tasks' = tasks /\ channel' = channel /\ descent' = descent /\ workLeft' = workLeft
          /\ nestingLeft' = nestingLeft /\ openPayloads' = openPayloads /\ exceeded' = exceeded /\ product' = product
      BY <2>1 DEF walkVars
    <3>2. \A n \in 1..Len(tasks) :
            (TaskShape(tasks[n])' <=> TaskShape(tasks[n])) /\ (AskedBy(tasks[n + 1], tasks[n])' <=> AskedBy(tasks[n + 1], tasks[n]))
      BY <3>1 DEF TaskShape, AskedBy, Steps, Payload, Nests, Decodes, StepKind
    <3>3. StackShape'
      BY <1>1, <3>1, <3>2 DEF WalkInv, StackShape
    <3>4. ChannelShape'
      BY <1>1, <3>1 DEF WalkInv, ChannelShape, TaskShape, AskedBy, Running, Steps, Payload, Nests, Decodes, StepKind
    <3>5. ChargesHeld'
      BY <1>1, <3>1 DEF WalkInv, ChargesHeld, Running, Payload, Nests, Decodes, StepKind
    <3>6. LevelsHeld'
      BY <1>1, <3>1 DEF WalkInv, LevelsHeld, Levels, Nests, Decodes, StepKind
    <3>7. InOrderSoFar'
      BY <1>1, <3>1 DEF WalkInv, InOrderSoFar, Running, Steps
    <3> QED  BY <1>1, <3>1, <3>3, <3>4, <3>5, <3>6, <3>7 DEF WalkInv
  <2> QED
    BY <1>1, <2>1, EnterStep, RefuseStep, CompleteStep, RunAboveStep, RunRootStep, DriveStep DEF WalkNext
<1> QED  BY <1>1, WalkStarts, PTL DEF WalkSpec

\* However a walk ends, nothing it was charged is kept, and a walk that is not refused has
\* taken every step and puts the results together in the order of recursion (drive,
\* run_above, run_root; the guards of limits.rs).
THEOREM WalksReturn == WalkSpec => []WalkReturns
<1>1. WalkInv => WalkReturns
  <2> SUFFICES ASSUME WalkInv, tasks = <<>>
               PROVE  /\ exceeded = "none" => product = <<[n \in Steps |-> n]>>
                      /\ descent = 0 /\ openPayloads = 0 /\ nestingLeft = MaxTotalNesting - journey.depth[0]
    BY DEF WalkReturns
  <2>1. PICK held \in [0..Len(tasks) -> Int] : held[0] = MaxTotalNesting - journey.depth[0] /\ held[Len(tasks)] = nestingLeft
    BY DEF WalkInv, LevelsHeld
  <2>2. Len(tasks) = 0
    BY EmptySeq
  <2> QED  BY <2>1, <2>2 DEF WalkInv, ChargesHeld, InOrderSoFar
<1> QED  BY <1>1, WalkInvariance, PTL

-----------------------------------------------------------------------------
(* Sums over finite sets. *)

\* A set of naturals that has 0 and the successor of each of its members has them all.
LEMMA CountingUp ==
  ASSUME NEW S \in SUBSET Nat, 0 \in S, \A n \in S : n + 1 \in S
  PROVE  S = Nat
<1> DEFINE R == OpToRel(<, Nat)
<1>1. IsWellFoundedOn(R, Nat)
  BY NatLessThanWellFounded, Zenon
<1>2. \A x, y \in Nat : <<y, x>> \in R <=> y < x
  BY DEF OpToRel
<1> HIDE DEF R
<1>3. SUFFICES ASSUME Nat \ S # {} PROVE FALSE
  OBVIOUS
<1>4. PICK x \in Nat \ S : \A y \in Nat \ S : ~(<<y, x>> \in R)
  BY <1>1, <1>3, WFMin
<1>5. x # 0 /\ x - 1 \in Nat /\ x - 1 < x /\ (x - 1) + 1 = x
  BY <1>4
<1>6. x - 1 \in S
  BY <1>2, <1>4, <1>5
<1> QED
  BY <1>4, <1>5, <1>6

\* The sum over a set, from the sums over less: one member is taken, whichever it is.
Summed(f, sums, rest) ==
  IF rest = {} THEN 0 ELSE LET x == CHOOSE y \in rest : TRUE IN f[x] + sums[rest \ {x}]
Small(D, n) == {s \in SUBSET D : Cardinality(s) <= n}
Sums(f) == CHOOSE g : g = [s \in SUBSET DOMAIN f |-> Summed(f, g, s)]
SumOver(f, s) == Sums(f)[s]

\* There is one function that sums every part of a finite domain.
LEMMA SumsExist ==
  ASSUME NEW f, IsFiniteSet(DOMAIN f)
  PROVE  Sums(f) = [s \in SUBSET DOMAIN f |-> Summed(f, Sums(f), s)]
<1> DEFINE D == DOMAIN f
           S == {n \in Nat : \E g : g = [s \in Small(D, n) |-> Summed(f, g, s)]}
<1>0. \A s \in SUBSET D : IsFiniteSet(s) /\ Cardinality(s) \in Nat
  BY FS_Subset, FS_CardinalityType
<1>1. 0 \in S
  <2>1. Small(D, 0) = {{}}
    BY <1>0, FS_EmptySet DEF Small
  <2> DEFINE z == [s \in {{}} |-> 0]
  <2>2. z = [s \in Small(D, 0) |-> Summed(f, z, s)]
    BY <2>1 DEF Summed
  <2> QED
    BY <2>2
<1>2. ASSUME NEW n \in S PROVE n + 1 \in S
  <2> n \in Nat
    BY <1>2
  <2>1. PICK g : g = [s \in Small(D, n) |-> Summed(f, g, s)]
    BY <1>2
  <2> DEFINE h == [s \in Small(D, n + 1) |-> IF s \in Small(D, n) THEN g[s] ELSE Summed(f, g, s)]
  <2>2. ASSUME NEW s \in Small(D, n + 1) PROVE h[s] = Summed(f, h, s)
    <3>1. CASE s = {}
      <4>1. s \in Small(D, n)
        BY <3>1, FS_EmptySet DEF Small
      <4> QED
        BY <2>1, <3>1, <4>1 DEF Summed
    <3>2. CASE s # {}
      <4> DEFINE x == CHOOSE y \in s : TRUE
      <4>1. x \in s
        BY <3>2
      <4>2. s \in SUBSET D /\ Cardinality(s) <= n + 1
        BY DEF Small
      <4>3. Cardinality(s \ {x}) = Cardinality(s) - 1
        BY <4>1, <4>2, <1>0, FS_RemoveElement
      <4>4. s \ {x} \in Small(D, n) /\ s \ {x} \in Small(D, n + 1)
        BY <4>2, <4>3, <1>0 DEF Small
      <4>5. h[s \ {x}] = g[s \ {x}]
        BY <4>4
      <4>6. h[s] = Summed(f, g, s)
        BY <2>1
      <4> HIDE DEF h
      <4> QED
        BY <4>5, <4>6, <3>2 DEF Summed
    <3> QED
      BY <3>1, <3>2
  <2>3. h = [s \in Small(D, n + 1) |-> Summed(f, h, s)]
    <3> DEFINE k == [s \in Small(D, n + 1) |-> Summed(f, h, s)]
    <3>1. h = [s \in Small(D, n + 1) |-> h[s]]
      OBVIOUS
    <3> HIDE DEF h
    <3> QED
      BY <2>2, <3>1
  <2>4. n + 1 \in Nat
    OBVIOUS
  <2> HIDE DEF h
  <2> QED
    BY <2>3, <2>4, Zenon
<1>3. S = Nat
  BY <1>1, <1>2, CountingUp
<1>4. Small(D, Cardinality(D)) = SUBSET D
  BY <1>0, FS_Subset DEF Small
<1>5. Cardinality(D) \in S
  BY <1>0, <1>3
<1>6. \E g : g = [s \in Small(D, Cardinality(D)) |-> Summed(f, g, s)]
  BY <1>5
<1>7. \E g : g = [s \in SUBSET D |-> Summed(f, g, s)]
  BY <1>4, <1>6
<1> QED
  BY <1>7 DEF Sums

\* It does so member by member.
LEMMA SumOfParts ==
  ASSUME NEW f, IsFiniteSet(DOMAIN f), NEW s \in SUBSET DOMAIN f
  PROVE  /\ s = {} => SumOver(f, s) = 0
         /\ s # {} => \E x \in s : SumOver(f, s) = f[x] + SumOver(f, s \ {x})
<1> DEFINE g == Sums(f)
<1>1. g = [r \in SUBSET DOMAIN f |-> Summed(f, g, r)]
  BY SumsExist
<1> HIDE DEF g
<1>2. g[s] = Summed(f, g, s)
  BY <1>1
<1>3. s # {} => (CHOOSE y \in s : TRUE) \in s
  OBVIOUS
<1>4. /\ s = {} => g[s] = 0
      /\ s # {} => \E x \in s : g[s] = f[x] + g[s \ {x}]
  BY <1>2, <1>3 DEF Summed
<1> QED
  BY <1>4 DEF SumOver, g

\* Sums of numbers are numbers.
LEMMA SumIsNat ==
  ASSUME NEW D, IsFiniteSet(D), NEW f \in [D -> Nat], NEW s \in SUBSET D
  PROVE  SumOver(f, s) \in Nat
<1> DEFINE S == {n \in Nat : \A r \in Small(D, n) : SumOver(f, r) \in Nat}
<1>0. \A r \in SUBSET D : IsFiniteSet(r) /\ Cardinality(r) \in Nat
  BY FS_Subset, FS_CardinalityType
<1>1. 0 \in S
  <2>1. Small(D, 0) = {{}}
    BY <1>0, FS_EmptySet DEF Small
  <2> QED
    BY <2>1, SumOfParts
<1>2. ASSUME NEW n \in S PROVE n + 1 \in S
  <2>1. n \in Nat /\ \A r \in Small(D, n) : SumOver(f, r) \in Nat
    BY <1>2
  <2>2. ASSUME NEW r \in Small(D, n + 1) PROVE SumOver(f, r) \in Nat
    <3>1. r \in SUBSET D /\ Cardinality(r) <= n + 1
      BY DEF Small
    <3>2. CASE r = {}
      BY <3>1, <3>2, SumOfParts
    <3>3. CASE r # {}
      <4>1. PICK x \in r : SumOver(f, r) = f[x] + SumOver(f, r \ {x})
        BY <3>1, <3>3, SumOfParts
      <4>2. Cardinality(r \ {x}) = Cardinality(r) - 1
        BY <1>0, <3>1, FS_RemoveElement
      <4>3. r \ {x} \in Small(D, n)
        BY <1>0, <2>1, <3>1, <4>2 DEF Small
      <4>4. f[x] \in Nat
        BY <3>1
      <4> QED
        BY <2>1, <4>1, <4>3, <4>4
    <3> QED
      BY <3>2, <3>3
  <2> QED
    BY <2>1, <2>2
<1>3. S = Nat
  BY <1>1, <1>2, CountingUp
<1>4. s \in Small(D, Cardinality(s))
  BY <1>0 DEF Small
<1> QED
  BY <1>0, <1>3, <1>4

\* Whichever member is taken first.
LEMMA SumTakes ==
  ASSUME NEW D, IsFiniteSet(D), NEW f \in [D -> Nat], NEW s \in SUBSET D, NEW x \in s
  PROVE  SumOver(f, s) = f[x] + SumOver(f, s \ {x})
<1> DEFINE S == {n \in Nat : \A r \in Small(D, n) : \A y \in r : SumOver(f, r) = f[y] + SumOver(f, r \ {y})}
<1>0. \A r \in SUBSET D : IsFiniteSet(r) /\ Cardinality(r) \in Nat /\ SumOver(f, r) \in Nat
  BY FS_Subset, FS_CardinalityType, SumIsNat
<1>1. 0 \in S
  <2>1. Small(D, 0) = {{}}
    BY <1>0, FS_EmptySet DEF Small
  <2> QED
    BY <2>1
<1>2. ASSUME NEW n \in S PROVE n + 1 \in S
  <2>1. n \in Nat /\ \A r \in Small(D, n) : \A y \in r : SumOver(f, r) = f[y] + SumOver(f, r \ {y})
    BY <1>2
  <2>2. ASSUME NEW r \in Small(D, n + 1), NEW y \in r PROVE SumOver(f, r) = f[y] + SumOver(f, r \ {y})
    <3>1. r \in SUBSET D /\ Cardinality(r) <= n + 1
      BY DEF Small
    <3>2. PICK z \in r : SumOver(f, r) = f[z] + SumOver(f, r \ {z})
      BY <3>1, SumOfParts
    <3>3. CASE z = y
      BY <3>2, <3>3
    <3>4. CASE z # y
      <4>1. /\ Cardinality(r \ {z}) = Cardinality(r) - 1 /\ Cardinality(r \ {y}) = Cardinality(r) - 1
        BY <1>0, <3>1, FS_RemoveElement
      <4>2. r \ {z} \in Small(D, n) /\ r \ {y} \in Small(D, n)
        BY <1>0, <2>1, <3>1, <4>1 DEF Small
      <4>3. SumOver(f, r \ {z}) = f[y] + SumOver(f, (r \ {z}) \ {y})
        BY <2>1, <3>4, <4>2
      <4>4. SumOver(f, r \ {y}) = f[z] + SumOver(f, (r \ {y}) \ {z})
        BY <2>1, <3>4, <4>2
      <4>5. (r \ {z}) \ {y} = (r \ {y}) \ {z}
        OBVIOUS
      <4> DEFINE rest == (r \ {y}) \ {z}
      <4>6. rest \in SUBSET D
        BY <3>1
      <4>7. f[y] \in Nat /\ f[z] \in Nat /\ SumOver(f, rest) \in Nat
        BY <1>0, <3>1, <4>6
      <4>8. f[z] + (f[y] + SumOver(f, rest)) = f[y] + (f[z] + SumOver(f, rest))
        BY <4>7
      <4>9. SumOver(f, r) = f[z] + (f[y] + SumOver(f, rest))
        BY <3>2, <4>3, <4>5, Zenon
      <4>10. SumOver(f, r \ {y}) = f[z] + SumOver(f, rest)
        BY <4>4, Zenon
      <4> QED
        BY <4>8, <4>9, <4>10, Zenon
    <3> QED
      BY <3>3, <3>4
  <2> QED
    BY <2>1, <2>2
<1>3. S = Nat
  BY <1>1, <1>2, CountingUp
<1>4. s \in Small(D, Cardinality(s))
  BY <1>0 DEF Small
<1> QED
  BY <1>0, <1>3, <1>4

\* So what is added to a set is added to its sum.
LEMMA SumAdds ==
  ASSUME NEW D, IsFiniteSet(D), NEW f \in [D -> Nat], NEW s \in SUBSET D, NEW x \in D, x \notin s
  PROVE  SumOver(f, s \cup {x}) = SumOver(f, s) + f[x]
<1>1. (s \cup {x}) \ {x} = s /\ s \cup {x} \in SUBSET D
  OBVIOUS
<1>2. SumOver(f, s \cup {x}) = f[x] + SumOver(f, (s \cup {x}) \ {x})
  BY <1>1, SumTakes
<1>3. f[x] \in Nat /\ SumOver(f, s) \in Nat
  BY SumIsNat
<1>4. f[x] + SumOver(f, s) = SumOver(f, s) + f[x]
  BY <1>3
<1> QED
  BY <1>1, <1>2, <1>4, Zenon

\* What two functions agree on has one sum.
LEMMA SameSums ==
  ASSUME NEW f, IsFiniteSet(DOMAIN f), NEW g, IsFiniteSet(DOMAIN g),
         NEW s, s \subseteq DOMAIN f, s \subseteq DOMAIN g, \A x \in s : f[x] = g[x]
  PROVE  SumOver(f, s) = SumOver(g, s)
<1> DEFINE S == {n \in Nat : \A r \in Small(s, n) : Sums(f)[r] = Sums(g)[r]}
<1>0. IsFiniteSet(s) /\ \A r \in SUBSET s : IsFiniteSet(r) /\ Cardinality(r) \in Nat
  BY FS_Subset, FS_CardinalityType
<1>9. \A r \in SUBSET s : Sums(f)[r] = Summed(f, Sums(f), r) /\ Sums(g)[r] = Summed(g, Sums(g), r)
  <2> DEFINE a == Sums(f)
             b == Sums(g)
  <2>1. a = [q \in SUBSET DOMAIN f |-> Summed(f, a, q)] /\ b = [q \in SUBSET DOMAIN g |-> Summed(g, b, q)]
    BY SumsExist
  <2> HIDE DEF a, b
  <2>2. \A r \in SUBSET s : a[r] = Summed(f, a, r) /\ b[r] = Summed(g, b, r)
    BY <2>1
  <2> QED
    BY <2>2 DEF a, b
<1>1. 0 \in S
  <2>1. Small(s, 0) = {{}}
    BY <1>0, FS_EmptySet DEF Small
  <2>2. {} \in SUBSET s
    OBVIOUS
  <2>3. Sums(f)[{}] = 0 /\ Sums(g)[{}] = 0
    BY <1>9, <2>2 DEF Summed
  <2> QED
    BY <2>1, <2>3
<1>2. ASSUME NEW n \in S PROVE n + 1 \in S
  <2>1. n \in Nat /\ \A r \in Small(s, n) : Sums(f)[r] = Sums(g)[r]
    BY <1>2
  <2>2. ASSUME NEW r \in Small(s, n + 1) PROVE Sums(f)[r] = Sums(g)[r]
    <3>1. r \in SUBSET s /\ Cardinality(r) <= n + 1
      BY DEF Small
    <3>2. CASE r = {}
      BY <1>9, <3>1, <3>2 DEF Summed
    <3>3. CASE r # {}
      <4> DEFINE x == CHOOSE y \in r : TRUE
      <4>1. x \in r
        BY <3>3
      <4>2. Cardinality(r \ {x}) = Cardinality(r) - 1
        BY <1>0, <3>1, <4>1, FS_RemoveElement
      <4>3. r \ {x} \in Small(s, n)
        BY <1>0, <2>1, <3>1, <4>2 DEF Small
      <4>4. f[x] = g[x] /\ Sums(f)[r \ {x}] = Sums(g)[r \ {x}]
        BY <2>1, <3>1, <4>1, <4>3
      <4>5. Summed(f, Sums(f), r) = f[x] + Sums(f)[r \ {x}] /\ Summed(g, Sums(g), r) = g[x] + Sums(g)[r \ {x}]
        BY <3>3 DEF Summed
      <4> HIDE DEF x
      <4> QED
        BY <1>9, <3>1, <4>4, <4>5
    <3> QED
      BY <3>2, <3>3
  <2> QED
    BY <2>1, <2>2
<1>3. S = Nat
  BY <1>1, <1>2, CountingUp
<1>4. s \in Small(s, Cardinality(s))
  BY <1>0 DEF Small
<1> QED
  BY <1>0, <1>3, <1>4 DEF SumOver

\* A sum up to a number and on to the next.
LEMMA SumNext ==
  ASSUME NEW N \in Nat, NEW f \in [1..N -> Nat], NEW n \in Nat, n + 1 \in 1..N
  PROVE  SumOver(f, 1..(n + 1)) = SumOver(f, 1..n) + f[n + 1]
<1>1. IsFiniteSet(1..N)
  BY FS_Interval
<1>3. \A s \in SUBSET (1..N) : \A x \in 1..N : x \notin s => SumOver(f, s \cup {x}) = SumOver(f, s) + f[x]
  BY <1>1, SumAdds
<1>2. (1..n) \in SUBSET (1..N) /\ n + 1 \notin (1..n) /\ (1..(n + 1)) = (1..n) \cup {n + 1}
  OBVIOUS
<1>4. SumOver(f, (1..n) \cup {n + 1}) = SumOver(f, 1..n) + f[n + 1]
  BY <1>2, <1>3, Zenon
<1> QED
  BY <1>2, <1>4

\* More has no smaller sum.
LEMMA SumGrows ==
  ASSUME NEW N \in Nat, NEW f \in [1..N -> Nat], NEW i \in 0..N
  PROVE  SumOver(f, 1..i) <= SumOver(f, 1..N)
<1> DEFINE S == {n \in Nat : i + n <= N => SumOver(f, 1..i) <= SumOver(f, 1..(i + n))}
<1>0. IsFiniteSet(1..N)
  BY FS_Interval
<1>1. \A s \in SUBSET (1..N) : SumOver(f, s) \in Nat
  BY <1>0, SumIsNat
<1>2. 0 \in S
  <2>1. 1..i \in SUBSET (1..N) /\ i + 0 = i
    OBVIOUS
  <2>2. SumOver(f, 1..i) <= SumOver(f, 1..i)
    BY <1>1, <2>1
  <2> QED
    BY <2>1, <2>2
<1>3. ASSUME NEW n \in S PROVE n + 1 \in S
  <2>1. n \in Nat /\ (i + n <= N => SumOver(f, 1..i) <= SumOver(f, 1..(i + n)))
    BY <1>3
  <2>2. ASSUME i + (n + 1) <= N PROVE SumOver(f, 1..i) <= SumOver(f, 1..(i + (n + 1)))
    <3>1. i + n \in Nat /\ (i + n) + 1 \in 1..N /\ i + (n + 1) = (i + n) + 1 /\ i + n <= N
      BY <2>1, <2>2
    <3>2. SumOver(f, 1..((i + n) + 1)) = SumOver(f, 1..(i + n)) + f[(i + n) + 1]
      BY <3>1, SumNext, Zenon
    <3>3. (1..(i + n)) \in SUBSET (1..N) /\ (1..i) \in SUBSET (1..N) /\ f[(i + n) + 1] \in Nat
      BY <3>1
    <3>4. SumOver(f, 1..(i + n)) \in Nat /\ SumOver(f, 1..i) \in Nat
      BY <1>1, <3>3, Zenon
    <3>5. SumOver(f, 1..i) <= SumOver(f, 1..(i + n))
      BY <2>1, <3>1, Zenon
    <3>6. SumOver(f, 1..i) <= SumOver(f, 1..(i + n)) + f[(i + n) + 1]
      BY <3>3, <3>4, <3>5
    <3> QED
      BY <3>1, <3>2, <3>6, Zenon
  <2> QED
    BY <2>1, <2>2
<1>4. N - i \in S /\ i + (N - i) = N
  <2>1. S = Nat
    BY <1>2, <1>3, CountingUp
  <2>2. N - i \in Nat /\ i + (N - i) = N
    OBVIOUS
  <2> QED
    BY <2>1, <2>2
<1> QED
  BY <1>4

-----------------------------------------------------------------------------
(* Sums over the steps of a walk. *)

Charges == [j \in Steps |-> Charge(j)]
Works == [j \in Steps |-> Work(j)]
Depths == [j \in Steps |-> journey.depth[j]]

\* The steps are finitely many, and each sum over some of them is that of a function.
LEMMA StepSums ==
  ASSUME journey \in Walks
  PROVE  /\ IsFiniteSet(Steps) /\ Charges \in [Steps -> Nat] /\ Works \in [Steps -> Nat] /\ Depths \in [Steps -> Nat]
         /\ \A s \in SUBSET Steps : /\ MapThenSumSet(Charge, s) = SumOver(Charges, s)
                                    /\ MapThenSumSet(Work, s) = SumOver(Works, s)
                                    /\ MapThenSumSet(LAMBDA j : journey.depth[j], s) = SumOver(Depths, s)
<1>1. IsFiniteSet(Steps)
  BY JourneyFacts, FS_Interval
<1>2. Charges \in [Steps -> Nat] /\ Works \in [Steps -> Nat] /\ Depths \in [Steps -> Nat]
  BY JourneyFacts, ChargeFacts DEF Charges, Works, Depths
<1>3. ASSUME NEW s \in SUBSET Steps PROVE IsFiniteSet(s)
  BY <1>1, FS_Subset
<1>4. ASSUME NEW s \in SUBSET Steps PROVE MapThenSumSet(Charge, s) = SumOver(Charges, s)
  <2> DEFINE f == [j \in s |-> Charge(j)]
             one(g) == [r \in SUBSET s |-> IF r = {} THEN 0
                          ELSE LET x == CHOOSE y \in r : TRUE IN Charge(x) + g[r \ {x}]]
  <2>1. MapThenSumSet(Charge, s) = (CHOOSE g : g = one(g))[s]
    BY DEF MapThenSumSet, MapThenFoldSet
  <2>2. DOMAIN f = s /\ \A x \in s : f[x] = Charge(x) /\ Charges[x] = Charge(x)
    BY DEF Charges
  <2>3. \A g : one(g) = [r \in SUBSET DOMAIN f |-> Summed(f, g, r)]
    <3> TAKE g
    <3>1. \A r \in SUBSET s : Summed(f, g, r) = one(g)[r]
      BY DEF Summed
    <3> QED
      BY <2>2, <3>1
  <2> HIDE DEF one, f
  <2>4. (CHOOSE g : g = one(g)) = Sums(f)
    BY <2>3 DEF Sums
  <2>5. SumOver(f, s) = SumOver(Charges, s)
    BY <1>1, <1>2, <1>3, <2>2, SameSums
  <2> QED
    BY <2>1, <2>4, <2>5 DEF SumOver
<1>5. ASSUME NEW s \in SUBSET Steps PROVE MapThenSumSet(Work, s) = SumOver(Works, s)
  <2> DEFINE f == [j \in s |-> Work(j)]
             one(g) == [r \in SUBSET s |-> IF r = {} THEN 0
                          ELSE LET x == CHOOSE y \in r : TRUE IN Work(x) + g[r \ {x}]]
  <2>1. MapThenSumSet(Work, s) = (CHOOSE g : g = one(g))[s]
    BY DEF MapThenSumSet, MapThenFoldSet
  <2>2. DOMAIN f = s /\ \A x \in s : f[x] = Work(x) /\ Works[x] = Work(x)
    BY DEF Works
  <2>3. \A g : one(g) = [r \in SUBSET DOMAIN f |-> Summed(f, g, r)]
    <3> TAKE g
    <3>1. \A r \in SUBSET s : Summed(f, g, r) = one(g)[r]
      BY DEF Summed
    <3> QED
      BY <2>2, <3>1
  <2> HIDE DEF one, f
  <2>4. (CHOOSE g : g = one(g)) = Sums(f)
    BY <2>3 DEF Sums
  <2>5. SumOver(f, s) = SumOver(Works, s)
    BY <1>1, <1>2, <1>3, <2>2, SameSums
  <2> QED
    BY <2>1, <2>4, <2>5 DEF SumOver
<1>6. ASSUME NEW s \in SUBSET Steps PROVE MapThenSumSet(LAMBDA j : journey.depth[j], s) = SumOver(Depths, s)
  <2> DEFINE f == [j \in s |-> journey.depth[j]]
             one(g) == [r \in SUBSET s |-> IF r = {} THEN 0
                          ELSE LET x == CHOOSE y \in r : TRUE IN journey.depth[x] + g[r \ {x}]]
  <2>1. MapThenSumSet(LAMBDA j : journey.depth[j], s) = (CHOOSE g : g = one(g))[s]
    BY DEF MapThenSumSet, MapThenFoldSet
  <2>2. DOMAIN f = s /\ \A x \in s : f[x] = journey.depth[x] /\ Depths[x] = journey.depth[x]
    BY DEF Depths
  <2>3. \A g : one(g) = [r \in SUBSET DOMAIN f |-> Summed(f, g, r)]
    <3> TAKE g
    <3>1. \A r \in SUBSET s : Summed(f, g, r) = one(g)[r]
      BY DEF Summed
    <3> QED
      BY <2>2, <3>1
  <2> HIDE DEF one, f
  <2>4. (CHOOSE g : g = one(g)) = Sums(f)
    BY <2>3 DEF Sums
  <2>5. SumOver(f, s) = SumOver(Depths, s)
    BY <1>1, <1>2, <1>3, <2>2, SameSums
  <2> QED
    BY <2>1, <2>4, <2>5 DEF SumOver
<1> QED
  BY <1>1, <1>2, <1>4, <1>5, <1>6

-----------------------------------------------------------------------------
(* The way from the root. *)

\* The references open above a step, since the last item on the way.
RefsAbove(i) == {j \in Path(i) \ {i} : StepKind(j) = "hop" /\
   \A k \in Path(i) \ {i} : k > j => StepKind(k) \in {"hop", "argument", "plain"}}
\* A step with the one right above it.
Below(c, i) == i < c /\ c <= journey.last[i] /\ \A j \in Steps : i < j /\ j < c => journey.last[j] < c

\* What is open above a step, and how many.
LEMMA PathFacts ==
  ASSUME journey \in Walks, NEW i \in Steps
  PROVE  /\ Path(i) \subseteq Steps /\ i \in Path(i) /\ PayloadsOpen(i) \subseteq Steps /\ RefsAbove(i) \subseteq Steps
         /\ i \notin PayloadsOpen(i) /\ i \notin RefsAbove(i)
         /\ IsFiniteSet(Path(i)) /\ IsFiniteSet(PayloadsOpen(i)) /\ IsFiniteSet(RefsAbove(i))
         /\ Cardinality(PayloadsOpen(i)) \in Nat /\ Cardinality(RefsAbove(i)) \in Nat
<1>1. Steps = 1..Len(journey.last) /\ Len(journey.last) \in Nat /\ i \in Nat /\ i <= journey.last[i] /\ i <= Len(journey.last)
  BY JourneyFacts
<1>2. 1..i \subseteq Steps /\ i \in 1..i
  BY <1>1
<1>3. Path(i) \subseteq Steps /\ i \in Path(i)
  BY <1>1, <1>2 DEF Path
<1>4. PayloadsOpen(i) \subseteq Path(i) /\ RefsAbove(i) \subseteq Path(i) /\ i \notin PayloadsOpen(i) /\ i \notin RefsAbove(i)
  BY DEF PayloadsOpen, RefsAbove
<1>5. IsFiniteSet(Steps)
  BY StepSums
<1>6. IsFiniteSet(Path(i)) /\ IsFiniteSet(PayloadsOpen(i)) /\ IsFiniteSet(RefsAbove(i))
  BY <1>3, <1>4, <1>5, FS_Subset
<1> QED
  BY <1>3, <1>4, <1>6, FS_CardinalityType

\* The way to a step is the way to the one above it, and the step.
LEMMA PathBelow ==
  ASSUME journey \in Walks, NEW i \in Steps, NEW c \in Steps, Below(c, i)
  PROVE  Path(c) \ {c} = Path(i) /\ Path(c) = Path(i) \cup {c} /\ c \notin Path(i)
<1>1. /\ i < c /\ c <= journey.last[i] /\ i \in Nat /\ c \in Nat /\ c <= journey.last[c]
      /\ \A j \in Steps : i < j /\ j < c => journey.last[j] < c
  BY JourneyFacts DEF Below
<1>2. \A j \in 1..c : j \in Steps /\ j \in Nat /\ journey.last[j] \in Nat
  BY JourneyFacts
<1>3. \A j \in 1..i : i <= journey.last[j] => journey.last[i] <= journey.last[j]
  <2> TAKE j \in 1..i
  <2> HAVE i <= journey.last[j]
  <2>1. j \in Steps /\ j <= i
    BY <1>1, <1>2
  <2> QED
    BY <2>1, JourneyFacts
<1>4. journey.last[i] \in Nat
  BY JourneyFacts
<1>5. ASSUME NEW j \in 1..c PROVE c <= journey.last[j] <=> j = c \/ (j \in 1..i /\ i <= journey.last[j])
  <2>1. CASE j = c
    BY <1>1, <2>1
  <2>2. CASE i < j /\ j < c
    BY <1>1, <1>2, <2>2
  <2>3. CASE j <= i
    <3>1. j \in 1..i /\ j # c /\ journey.last[j] \in Nat
      BY <1>1, <1>2, <2>3
    <3>2. i <= journey.last[j] => c <= journey.last[j]
      BY <1>1, <1>3, <1>4, <3>1
    <3>3. c <= journey.last[j] => i <= journey.last[j]
      BY <1>1, <3>1
    <3> QED
      BY <3>1, <3>2, <3>3
  <2> QED
    BY <1>1, <1>2, <2>1, <2>2, <2>3
<1>6. 1..i \subseteq 1..c /\ c \in 1..c /\ c \notin 1..i
  BY <1>1
<1>7. Path(c) = Path(i) \cup {c}
  BY <1>5, <1>6 DEF Path
<1>8. c \notin Path(i)
  BY <1>6 DEF Path
<1> QED
  BY <1>7, <1>8

\* So one payload or one reference more may be open.
LEMMA OpenBelow ==
  ASSUME journey \in Walks, NEW i \in Steps, NEW c \in Steps, Below(c, i)
  PROVE  /\ PayloadsOpen(c) = IF StepKind(i) = "payload" THEN PayloadsOpen(i) \cup {i} ELSE PayloadsOpen(i)
         /\ RefsAbove(c) = IF StepKind(i) \in {"level", "payload", "raw"} THEN {}
                           ELSE IF StepKind(i) = "hop" THEN RefsAbove(i) \cup {i} ELSE RefsAbove(i)
<1>1. Path(c) \ {c} = Path(i) /\ i \in Path(i)
  BY PathBelow, PathFacts
<1>2. \A j \in Path(i) : j <= i /\ j \in Nat /\ i \in Nat
  BY JourneyFacts DEF Path
<1>3. PayloadsOpen(c) = {j \in Path(i) : StepKind(j) = "payload"}
  BY <1>1 DEF PayloadsOpen
<1>4. RefsAbove(c) = {j \in Path(i) : StepKind(j) = "hop" /\
         \A k \in Path(i) : k > j => StepKind(k) \in {"hop", "argument", "plain"}}
  BY <1>1 DEF RefsAbove
<1>5. StepKind(i) \in StepKinds
  BY JourneyFacts
<1>6. ASSUME StepKind(i) \in {"level", "payload", "raw"} PROVE RefsAbove(c) = {}
  <2>1. \A j \in Path(i) : j # i => i > j
    BY <1>2
  <2> QED
    BY <1>1, <1>4, <1>6, <2>1
<1>7. ASSUME StepKind(i) \in {"hop", "argument", "plain"}
      PROVE  RefsAbove(c) = IF StepKind(i) = "hop" THEN RefsAbove(i) \cup {i} ELSE RefsAbove(i)
  <2>1. \A k \in Path(i) : ~(k > i)
    BY <1>2
  <2>2. ASSUME NEW j \in Path(i), j # i
        PROVE  (\A k \in Path(i) : k > j => StepKind(k) \in {"hop", "argument", "plain"})
               <=> (\A k \in Path(i) \ {i} : k > j => StepKind(k) \in {"hop", "argument", "plain"})
    BY <1>7
  <2>3. \A j \in Path(i) : j # i => (j \in RefsAbove(c) <=> j \in RefsAbove(i))
    BY <1>4, <2>2 DEF RefsAbove
  <2>4. i \in RefsAbove(c) <=> StepKind(i) = "hop"
    BY <1>1, <1>4, <2>1
  <2>5. RefsAbove(c) \subseteq Path(i) /\ RefsAbove(i) \subseteq Path(i) \ {i}
    BY <1>4 DEF RefsAbove
  <2> HIDE <1>4
  <2> QED
    BY <2>3, <2>4, <2>5
<1>8. PayloadsOpen(c) = IF StepKind(i) = "payload" THEN PayloadsOpen(i) \cup {i} ELSE PayloadsOpen(i)
  BY <1>1, <1>3 DEF PayloadsOpen
<1> QED
  BY <1>5, <1>6, <1>7, <1>8 DEF StepKinds

\* What is open counts one more, or starts anew.
LEMMA CountsBelow ==
  ASSUME journey \in Walks, NEW i \in Steps, NEW c \in Steps, Below(c, i)
  PROVE  /\ Cardinality(PayloadsOpen(c)) = Cardinality(PayloadsOpen(i)) + (IF StepKind(i) = "payload" THEN 1 ELSE 0)
         /\ Cardinality(RefsAbove(c)) = IF StepKind(i) \in {"level", "payload", "raw"} THEN 0
                                        ELSE IF StepKind(i) = "hop" THEN Cardinality(RefsAbove(i)) + 1
                                        ELSE Cardinality(RefsAbove(i))
         /\ SumOver(Charges, Path(c) \ {c}) = SumOver(Charges, Path(i) \ {i}) + Charge(i)
         /\ SumOver(Depths, PayloadsOpen(c)) =
              SumOver(Depths, PayloadsOpen(i)) + (IF StepKind(i) = "payload" THEN journey.depth[i] ELSE 0)
<1>1. /\ i \in Path(i) /\ Path(i) \subseteq Steps /\ PayloadsOpen(i) \subseteq Steps
      /\ i \notin PayloadsOpen(i) /\ i \notin RefsAbove(i)
      /\ IsFiniteSet(PayloadsOpen(i)) /\ IsFiniteSet(RefsAbove(i))
      /\ Cardinality(PayloadsOpen(i)) \in Nat
  BY PathFacts
<1>2. Cardinality(PayloadsOpen(i) \cup {i}) = Cardinality(PayloadsOpen(i)) + 1
  BY <1>1, FS_AddElement
<1>3. Cardinality(RefsAbove(i) \cup {i}) = Cardinality(RefsAbove(i)) + 1
  BY <1>1, FS_AddElement
<1>4. Cardinality({}) = 0
  BY FS_EmptySet
<1>5. IsFiniteSet(Steps) /\ Charges \in [Steps -> Nat] /\ Depths \in [Steps -> Nat]
  BY StepSums
<1>6. SumOver(Charges, Path(i)) = Charges[i] + SumOver(Charges, Path(i) \ {i})
  BY <1>1, <1>5, SumTakes
<1>7. SumOver(Depths, PayloadsOpen(i) \cup {i}) = SumOver(Depths, PayloadsOpen(i)) + Depths[i]
  BY <1>1, <1>5, SumAdds
<1>8. Charges[i] = Charge(i) /\ Depths[i] = journey.depth[i] /\ Charge(i) \in Nat /\ journey.depth[i] \in Nat
  BY ChargeFacts, JourneyFacts DEF Charges, Depths
<1>9. SumOver(Charges, Path(i) \ {i}) \in Nat /\ SumOver(Depths, PayloadsOpen(i)) \in Nat
  <2>1. Path(i) \ {i} \in SUBSET Steps /\ PayloadsOpen(i) \in SUBSET Steps
    BY <1>1
  <2> QED
    BY <1>5, <2>1, SumIsNat
<1>10. Path(c) \ {c} = Path(i)
  BY PathBelow
<1>11. SumOver(Charges, Path(c) \ {c}) = SumOver(Charges, Path(i) \ {i}) + Charge(i)
  BY <1>6, <1>8, <1>9, <1>10
<1>15. PayloadsOpen(c) = IF StepKind(i) = "payload" THEN PayloadsOpen(i) \cup {i} ELSE PayloadsOpen(i)
  BY OpenBelow
<1>12. SumOver(Depths, PayloadsOpen(c)) =
              SumOver(Depths, PayloadsOpen(i)) + (IF StepKind(i) = "payload" THEN journey.depth[i] ELSE 0)
  <2>1. StepKind(i) = "payload" => PayloadsOpen(c) = PayloadsOpen(i) \cup {i}
    BY <1>15
  <2>2. StepKind(i) # "payload" => PayloadsOpen(c) = PayloadsOpen(i)
    BY <1>15
  <2>3. SumOver(Depths, PayloadsOpen(i)) = SumOver(Depths, PayloadsOpen(i)) + 0
    BY <1>9
  <2> QED
    BY <1>7, <1>8, <2>1, <2>2, <2>3
<1>13. Cardinality(PayloadsOpen(c)) = Cardinality(PayloadsOpen(i)) + (IF StepKind(i) = "payload" THEN 1 ELSE 0)
  <2>1. StepKind(i) = "payload" => PayloadsOpen(c) = PayloadsOpen(i) \cup {i}
    BY <1>15
  <2>2. StepKind(i) # "payload" => PayloadsOpen(c) = PayloadsOpen(i)
    BY <1>15
  <2>3. Cardinality(PayloadsOpen(i)) = Cardinality(PayloadsOpen(i)) + 0
    BY <1>1
  <2> QED
    BY <1>2, <2>1, <2>2, <2>3
<1>14. Cardinality(RefsAbove(c)) = IF StepKind(i) \in {"level", "payload", "raw"} THEN 0
                                        ELSE IF StepKind(i) = "hop" THEN Cardinality(RefsAbove(i)) + 1
                                        ELSE Cardinality(RefsAbove(i))
  BY <1>3, <1>4, OpenBelow
<1> QED
  BY <1>11, <1>12, <1>13, <1>14

\* What fits, as a walk finds it out.
Fits(i) ==
  /\ SumOver(Charges, Path(i) \ {i}) + Charge(i) <= MaxDescent
  /\ StepKind(i) = "payload" =>
       /\ Cardinality(PayloadsOpen(i)) < MaxOpenPayloads
       /\ journey.depth[0] + (SumOver(Depths, PayloadsOpen(i)) + journey.depth[i]) <= MaxTotalNesting
  /\ StepKind(i) = "hop" => Cardinality(RefsAbove(i)) < MaxRuleNesting
AllFit ==
  /\ journey.depth[0] <= MaxTotalNesting /\ SumOver(Works, 1..Len(journey.last)) <= MaxWork
  /\ \A i \in Steps : Fits(i)

LEMMA FitsAsWalked ==
  ASSUME journey \in Walks, NEW i \in Steps
  PROVE  StepFits(i) <=> Fits(i)
<1>1. i \in Path(i) /\ Path(i) \subseteq Steps /\ PayloadsOpen(i) \subseteq Steps /\ i \notin PayloadsOpen(i)
  BY PathFacts
<1>2. Path(i) \in SUBSET Steps /\ PayloadsOpen(i) \cup {i} \in SUBSET Steps /\ Path(i) \ {i} \in SUBSET Steps
  BY <1>1
<1>3. /\ MapThenSumSet(Charge, Path(i)) = SumOver(Charges, Path(i))
      /\ MapThenSumSet(LAMBDA j : journey.depth[j], PayloadsOpen(i) \cup {i}) = SumOver(Depths, PayloadsOpen(i) \cup {i})
  BY <1>2, StepSums
<1>4. IsFiniteSet(Steps) /\ Charges \in [Steps -> Nat] /\ Depths \in [Steps -> Nat]
  BY StepSums
<1>5. Charges[i] = Charge(i) /\ Depths[i] = journey.depth[i] /\ Charge(i) \in Nat /\ journey.depth[i] \in Nat
  BY ChargeFacts, JourneyFacts DEF Charges, Depths
<1>6. SumOver(Charges, Path(i)) = Charge(i) + SumOver(Charges, Path(i) \ {i})
  BY <1>1, <1>4, <1>5, SumTakes
<1>7. SumOver(Depths, PayloadsOpen(i) \cup {i}) = SumOver(Depths, PayloadsOpen(i)) + journey.depth[i]
  BY <1>1, <1>4, <1>5, SumAdds
<1>8. SumOver(Charges, Path(i) \ {i}) \in Nat
  BY <1>2, <1>4, SumIsNat
<1>9. SumOver(Charges, Path(i)) = SumOver(Charges, Path(i) \ {i}) + Charge(i)
  BY <1>5, <1>6, <1>8
<1>10. ASSUME StepKind(i) = "hop" PROVE ReferencesOpen(i) = RefsAbove(i)
  <2>1. \A j \in Path(i) \ {i} : (\A k \in Path(i) : k > j => StepKind(k) \in {"hop", "argument", "plain"})
               <=> (\A k \in Path(i) \ {i} : k > j => StepKind(k) \in {"hop", "argument", "plain"})
    BY <1>1, <1>10
  <2> QED
    BY <2>1 DEF ReferencesOpen, RefsAbove
<1> DEFINE a == MapThenSumSet(Charge, Path(i)) <= MaxDescent
           b == Cardinality(PayloadsOpen(i)) < MaxOpenPayloads
           d == journey.depth[0] + MapThenSumSet(LAMBDA j : journey.depth[j], PayloadsOpen(i) \cup {i}) <= MaxTotalNesting
           e == Cardinality(ReferencesOpen(i)) < MaxRuleNesting
<1>11. StepFits(i) <=> a /\ (StepKind(i) = "payload" => b /\ d) /\ (StepKind(i) = "hop" => e)
  BY DEF StepFits
<1>12. a <=> SumOver(Charges, Path(i) \ {i}) + Charge(i) <= MaxDescent
  BY <1>3, <1>9
<1>13. d <=> journey.depth[0] + (SumOver(Depths, PayloadsOpen(i)) + journey.depth[i]) <= MaxTotalNesting
  BY <1>3, <1>7
<1>14. StepKind(i) = "hop" => (e <=> Cardinality(RefsAbove(i)) < MaxRuleNesting)
  BY <1>10
<1> HIDE DEF a, d, e
<1> QED
  BY <1>11, <1>12, <1>13, <1>14 DEF Fits

\* And of a whole walk.
LEMMA WalkFitsAsWalked ==
  ASSUME journey \in Walks
  PROVE  WalkFits <=> AllFit
<1>1. MapThenSumSet(Work, Steps) = SumOver(Works, Steps) /\ Steps = 1..Len(journey.last)
  BY StepSums, JourneyFacts
<1>2. \A i \in Steps : StepFits(i) <=> Fits(i)
  BY FitsAsWalked
<1> QED
  BY <1>1, <1>2 DEF WalkFits, AllFit

-----------------------------------------------------------------------------
(* What a walk has charged is the sum over the way to where it is. *)

\* A task's numbers are those of the way to its step, and what it has asked for is over.
TaskExact(t) ==
  /\ \A j \in Steps : t.step < j /\ j < t.next => journey.last[j] < t.next
  /\ t.before = SumOver(Charges, Path(t.step) \ {t.step})
  /\ t.driver = Cardinality(PayloadsOpen(t.step)) + 1
  /\ t.hops = Cardinality(RefsAbove(t.step))
  /\ t.entered => t.charge = Charge(t.step)
StackExact == \A n \in 1..Len(tasks) : TaskExact(tasks[n]) /\ (n < Len(tasks) => Below(tasks[n + 1].step, tasks[n].step))
ChannelExact == channel # <<>> => TaskExact(channel[1]) /\ Below(channel[1].step, Running.step)
LevelsExact ==
  tasks # <<>> =>
    nestingLeft = MaxTotalNesting - journey.depth[0] - SumOver(Depths, PayloadsOpen(Running.step)) - Levels(Running)
\* The steps taken are the first ones, and each of them fits.
Done == IF channel # <<>> THEN channel[1].step - 1
        ELSE IF tasks = <<>> THEN Len(journey.last)
        ELSE IF Running.entered THEN Running.next - 1 ELSE Running.step - 1
Taken(n) ==
  /\ journey.depth[0] <= MaxTotalNesting /\ workLeft = MaxWork - SumOver(Works, 1..n)
  /\ \A j \in 1..n : Fits(j)
ExactInv ==
  /\ StackExact /\ ChannelExact /\ LevelsExact
  /\ exceeded # "none" => ~AllFit
  /\ exceeded = "none" => Taken(Done)

\* All of these go by the journey, which does not change.
LEMMA Steady ==
  ASSUME journey' = journey
  PROVE  /\ Steps' = Steps /\ Charges' = Charges /\ Works' = Works /\ Depths' = Depths
         /\ \A i : /\ Path(i)' = Path(i) /\ PayloadsOpen(i)' = PayloadsOpen(i) /\ RefsAbove(i)' = RefsAbove(i)
                   /\ Charge(i)' = Charge(i) /\ StepKind(i)' = StepKind(i)
         /\ \A i, c : Below(c, i)' <=> Below(c, i)
BY DEF Steps, Charges, Works, Depths, Path, PayloadsOpen, RefsAbove, Charge, Work, Below, StepKind, Decodes, Weight

\* And so does what is said of a task.
LEMMA SteadyTasks ==
  ASSUME journey' = journey
  PROVE  /\ \A t : TaskExact(t)' <=> TaskExact(t)
         /\ \A t : Levels(t)' = Levels(t)
         /\ \A i : Fits(i)' <=> Fits(i)
         /\ AllFit' <=> AllFit
         /\ workLeft' = workLeft => \A n : Taken(n)' <=> Taken(n)
<1>1. \A i : Fits(i)' <=> Fits(i)
  BY Steady DEF Fits
<1>2. \A t : TaskExact(t)' <=> TaskExact(t)
  BY Steady DEF TaskExact
<1>3. \A t : Levels(t)' = Levels(t)
  BY DEF Levels, Nests, Decodes, StepKind
<1>4. AllFit' <=> AllFit
  BY <1>1, Steady DEF AllFit
<1>5. ASSUME workLeft' = workLeft, NEW n PROVE Taken(n)' <=> Taken(n)
  BY <1>1, <1>5, Steady DEF Taken
<1> QED
  BY <1>1, <1>2, <1>3, <1>4, <1>5

\* A task is exact or not by its numbers, whatever results it has.
LEMMA SameNumbers ==
  ASSUME NEW t, NEW u, TaskExact(t), u.step = t.step, u.next = t.next, u.before = t.before, u.driver = t.driver,
         u.hops = t.hops, u.entered = t.entered, u.charge = t.charge
  PROVE  TaskExact(u) /\ Levels(u) = Levels(t)
BY DEF TaskExact, Levels, Nests

\* What a task asks for, and the task that has asked.
LEMMA AskedExact ==
  ASSUME WalkInv, ExactInv, Asks
  PROVE  LET t == [Running EXCEPT !.next = journey.last[Running.next] + 1]
             u == Task(Running.next, HopsBelow(Running), Running.driver + Payload(Running)) IN
         TaskExact(t) /\ TaskExact(u) /\ Below(u.step, Running.step) /\ u.step = Running.next
<1> DEFINE i == Running.step
           c == Running.next
           t == [Running EXCEPT !.next = journey.last[c] + 1]
           u == Task(c, HopsBelow(Running), Running.driver + Payload(Running))
<1>1. tasks # <<>> /\ Running.entered /\ channel = <<>> /\ c <= journey.last[i] /\ journey \in Walks
  BY DEF Asks, WalkInv
<1>2. /\ Running \in TaskType /\ TaskShape(Running) /\ Len(tasks) \in 1..Len(tasks)
      /\ i \in Steps /\ i \in Nat /\ c \in Nat /\ i < c /\ Running.driver \in Nat /\ Running.hops \in Nat
  BY <1>1, TopTask DEF WalkInv, TaskShape, TaskType
<1>3. TaskExact(Running)
  BY <1>2 DEF ExactInv, StackExact, Running
<1>4. /\ Steps = 1..Len(journey.last) /\ Len(journey.last) \in Nat /\ journey.last[i] \in Nat /\ journey.last[i] <= Len(journey.last)
      /\ \A j \in Steps : j \in Nat /\ journey.last[j] \in Nat /\ j <= journey.last[j]
  BY <1>1, <1>2, JourneyFacts
<1>5. c \in Steps /\ journey.last[c] \in Nat /\ c <= journey.last[c]
  BY <1>1, <1>2, <1>4
<1>6. Below(c, i)
  BY <1>1, <1>2, <1>3 DEF Below, TaskExact
<1>7. \A j \in Steps : i < j /\ j < journey.last[c] + 1 => journey.last[j] < journey.last[c] + 1
  <2> TAKE j \in Steps
  <2> HAVE i < j /\ j < journey.last[c] + 1
  <2>1. j \in Nat /\ journey.last[j] \in Nat
    BY <1>4
  <2>2. CASE j < c
    BY <1>2, <1>3, <1>5, <2>1, <2>2 DEF TaskExact
  <2>3. CASE c <= j
    <3>1. j <= journey.last[c]
      BY <1>5, <2>1
    <3>2. journey.last[j] <= journey.last[c]
      BY <1>1, <1>5, <2>3, <3>1, JourneyFacts
    <3> QED
      BY <1>5, <2>1, <3>2
  <2> QED
    BY <1>2, <2>1, <2>2, <2>3
<1>8. TaskExact(t)
  <2>1. /\ t.step = i /\ t.before = Running.before /\ t.driver = Running.driver /\ t.hops = Running.hops
        /\ t.entered = Running.entered /\ t.charge = Running.charge /\ t.next = journey.last[c] + 1
    BY <1>2 DEF TaskType
  <2> HIDE DEF t
  <2> QED
    BY <1>3, <1>7, <2>1 DEF TaskExact
<1>9. /\ Cardinality(PayloadsOpen(c)) = Cardinality(PayloadsOpen(i)) + (IF StepKind(i) = "payload" THEN 1 ELSE 0)
      /\ Cardinality(RefsAbove(c)) = (IF StepKind(i) \in {"level", "payload", "raw"} THEN 0
                                        ELSE IF StepKind(i) = "hop" THEN Cardinality(RefsAbove(i)) + 1
                                        ELSE Cardinality(RefsAbove(i)))
      /\ SumOver(Charges, Path(c) \ {c}) = SumOver(Charges, Path(i) \ {i}) + Charge(i)
  BY <1>1, <1>2, <1>5, <1>6, CountsBelow
<1>10. Payload(Running) = (IF StepKind(i) = "payload" THEN 1 ELSE 0)
  BY <1>1, <1>2, <1>4 DEF Payload, Nests, Decodes
<1>11. descent = Running.before + Running.charge
  BY <1>1 DEF WalkInv, ChargesHeld
<1>12. /\ u.step = c /\ u.before = descent /\ u.driver = Running.driver + Payload(Running) /\ u.hops = HopsBelow(Running)
       /\ ~u.entered /\ u.next = c + 1
  BY DEF Task
<1>13. HopsBelow(Running) = Cardinality(RefsAbove(c))
  BY <1>3, <1>9 DEF HopsBelow, TaskExact
<1>14. u.driver = Cardinality(PayloadsOpen(c)) + 1
  <2>1. Cardinality(PayloadsOpen(i)) \in Nat
    BY <1>1, <1>2, PathFacts
  <2>2. Running.driver = Cardinality(PayloadsOpen(i)) + 1
    BY <1>3 DEF TaskExact
  <2> QED
    BY <1>9, <1>10, <1>12, <2>1, <2>2
<1>15. u.before = SumOver(Charges, Path(c) \ {c})
  BY <1>1, <1>3, <1>9, <1>11, <1>12 DEF TaskExact
<1>16. \A j \in Steps : ~(c < j /\ j < c + 1)
  BY <1>2, <1>4
<1> HIDE DEF t, u, c
<1>17. TaskExact(u)
  BY <1>12, <1>13, <1>14, <1>15, <1>16 DEF TaskExact
<1> QED
  BY <1>6, <1>8, <1>12, <1>17 DEF t, u, c

\* The stack with the top task having asked.
LEMMA StackAsked ==
  ASSUME WalkInv, ExactInv, Asks
  PROVE  LET t == [Running EXCEPT !.next = journey.last[Running.next] + 1]
             s == Replaced(t) IN
         /\ s \in Seq(TaskType) /\ Len(s) = Len(tasks) /\ s[Len(s)] = t /\ t \in TaskType
         /\ \A n \in 1..Len(s) : TaskExact(s[n]) /\ (n < Len(s) => Below(s[n + 1].step, s[n].step))
<1> DEFINE t == [Running EXCEPT !.next = journey.last[Running.next] + 1]
           s == Replaced(t)
           N == Len(tasks)
<1>1. tasks # <<>> /\ StackShape /\ journey \in Walks
  BY DEF Asks, WalkInv
<1>2. Running \in TaskType /\ N \in Nat \ {0} /\ N \in 1..N /\ tasks \in Seq(TaskType) /\ Running = tasks[N]
  BY <1>1, TopTask DEF StackShape, Running
<1>3. 0 \in Nat /\ t \in TaskType /\ t.step = Running.step
  BY AskFacts
<1>4. TaskExact(t)
  BY AskedExact
<1> HIDE DEF t
<1>5. s \in Seq(TaskType) /\ Len(s) = N /\ s[N] = t /\ \A n \in 1..N : n < N => s[n] = tasks[n]
  BY <1>1, <1>2, <1>3, Exchanged
<1> HIDE DEF s
<1>6. \A n \in 1..N : TaskExact(tasks[n]) /\ (n < N => Below(tasks[n + 1].step, tasks[n].step))
  BY DEF ExactInv, StackExact
<1>7. \A n \in 1..N : TaskExact(s[n])
  <2> TAKE n \in 1..N
  <2>1. n = N \/ n < N
    BY <1>2
  <2> QED
    BY <1>4, <1>5, <1>6, <2>1
<1>8. \A n \in 1..N : n < N => Below(s[n + 1].step, s[n].step)
  <2> TAKE n \in 1..N
  <2> HAVE n < N
  <2>1. n + 1 \in 1..N /\ (n + 1 = N \/ n + 1 < N)
    BY <1>2
  <2>2. s[n] = tasks[n] /\ s[n + 1].step = tasks[n + 1].step
    BY <1>2, <1>3, <1>5, <2>1
  <2> QED
    BY <1>6, <2>2
<1> QED
  BY <1>3, <1>5, <1>7, <1>8 DEF s, t

\* And with what was asked for on top of it.
LEMMA StackPushed ==
  ASSUME NEW s \in Seq(TaskType), Len(s) \in Nat \ {0}, NEW u \in TaskType, TaskExact(u), Below(u.step, s[Len(s)].step),
         \A n \in 1..Len(s) : TaskExact(s[n]) /\ (n < Len(s) => Below(s[n + 1].step, s[n].step)),
         journey' = journey, tasks' = Append(s, u)
  PROVE  StackExact' /\ tasks' # <<>> /\ Running' = u
<1> DEFINE N == Len(s)
<1>1. /\ Append(s, u) \in Seq(TaskType) /\ Append(s, u) # <<>> /\ Len(Append(s, u)) = N + 1 /\ N \in Nat /\ Append(s, u)[N + 1] = u
      /\ \A n \in 1..N : Append(s, u)[n] = s[n]
  BY Pushed
<1>2. Len(tasks') = N + 1 /\ tasks'[N + 1] = u /\ \A n \in 1..N : tasks'[n] = s[n]
  BY <1>1
<1>3. ASSUME NEW n \in 1..(N + 1)
      PROVE  TaskExact(tasks'[n]) /\ (n < N + 1 => Below(tasks'[n + 1].step, tasks'[n].step))
  <2>1. CASE n = N + 1
    BY <1>2, <2>1
  <2>2. CASE n \in 1..N
    <3>1. n = N \/ (n < N /\ n + 1 \in 1..N)
      BY <2>2, <1>1
    <3> QED
      BY <1>2, <2>2, <3>1
  <2> QED
    BY <1>1, <2>1, <2>2
<1>4. StackExact'
  <2>1. \A n \in 1..Len(tasks') : TaskExact(tasks[n])' /\ (n < Len(tasks') => Below(tasks[n + 1].step, tasks[n].step)')
    BY <1>2, <1>3, Steady, SteadyTasks
  <2> QED
    BY <2>1 DEF StackExact
<1> QED
  BY <1>1, <1>2, <1>4 DEF Running

\* A walk starts with nothing charged.
LEMMA ExactStarts == WalkInit => ExactInv
<1> SUFFICES ASSUME WalkInit PROVE ExactInv
  OBVIOUS
<1>1. /\ journey \in Walks /\ workLeft = MaxWork /\ channel = <<>> /\ nestingLeft = MaxTotalNesting - journey.depth[0]
      /\ MaxWork \in Nat /\ MaxTotalNesting \in Nat
  BY WalkAssumption DEF WalkInit
<1>2. 1 \in Steps /\ journey.last[1] \in Nat /\ 1 <= journey.last[1] /\ journey.depth[0] \in Nat
  BY <1>1, JourneyFacts
<1>3. CASE tasks = <<>>
  <2>1. exceeded # "none" /\ nestingLeft < 0
    BY <1>1, <1>3 DEF WalkInit
  <2>2. ~AllFit
    BY <1>1, <1>2, <2>1 DEF AllFit
  <2>3. StackExact
    BY <1>3, EmptySeq DEF StackExact
  <2> QED
    BY <1>1, <1>3, <2>1, <2>2, <2>3 DEF ExactInv, ChannelExact, LevelsExact
<1>4. CASE tasks # <<>>
  <2> DEFINE t == Task(1, 0, 1)
  <2>1. tasks = <<t>> /\ exceeded = "none" /\ ~(nestingLeft < 0)
    BY <1>1, <1>4 DEF WalkInit
  <2>2. ~t.entered /\ t.step = 1 /\ t.next = 2 /\ t.charge = 0 /\ t.before = 0 /\ t.driver = 1 /\ t.hops = 0
    BY <1>1 DEF Task, WalkInit
  <2> HIDE DEF t
  <2>3. Len(tasks) = 1 /\ tasks[1] = t /\ Running = t
    BY <2>1 DEF Running
  <2>4. Path(1) = {1}
    BY <1>2 DEF Path
  <2>5. PayloadsOpen(1) = {} /\ RefsAbove(1) = {} /\ Path(1) \ {1} = {}
    BY <2>4 DEF PayloadsOpen, RefsAbove
  <2>6. Cardinality({}) = 0
    BY FS_EmptySet
  <2>7. SumOver(Charges, {}) = 0 /\ SumOver(Depths, {}) = 0 /\ SumOver(Works, {}) = 0
    <3>1. IsFiniteSet(Steps) /\ DOMAIN Charges = Steps /\ DOMAIN Works = Steps /\ DOMAIN Depths = Steps
      BY <1>1, StepSums
    <3>2. {} \in SUBSET Steps
      OBVIOUS
    <3> QED
      BY <3>1, <3>2, SumOfParts
  <2>8. TaskExact(t)
    <3>1. \A j \in Steps : ~(1 < j /\ j < 2)
      BY <1>1, JourneyFacts
    <3> QED
      BY <2>2, <2>5, <2>6, <2>7, <3>1 DEF TaskExact
  <2>9. StackExact
    BY <2>3, <2>8 DEF StackExact
  <2>10. LevelsExact
    <3>1. Levels(t) = 0
      BY <2>2 DEF Levels, Nests
    <3>2. nestingLeft = MaxTotalNesting - journey.depth[0] - 0 - 0
      BY <1>1, <1>2
    <3> QED
      BY <2>2, <2>3, <2>5, <2>7, <3>1, <3>2 DEF LevelsExact
  <2>11. Taken(Done)
    <3>1. Done = 0
      BY <1>1, <1>4, <2>2, <2>3 DEF Done
    <3>2. 1..0 = {}
      OBVIOUS
    <3>3. journey.depth[0] <= MaxTotalNesting
      BY <1>1, <1>2, <2>1
    <3> QED
      BY <1>1, <2>7, <3>1, <3>2, <3>3 DEF Taken
  <2> QED
    BY <1>1, <2>1, <2>9, <2>10, <2>11 DEF ExactInv, ChannelExact
<1> QED
  BY <1>3, <1>4

\* What the bounds ask of the step entered is that it fits.
LEMMA MetTells ==
  ASSUME WalkInv, ExactInv, tasks # <<>>, ~Running.entered
  PROVE  Met(Running) = "none" <=> Work(Running.step) <= workLeft /\ Fits(Running.step)
<1> DEFINE i == Running.step
<1>1. /\ journey \in Walks /\ workLeft \in Nat /\ nestingLeft \in Int /\ Running \in TaskType /\ TaskShape(Running)
      /\ i \in Steps /\ Len(tasks) \in 1..Len(tasks) /\ ChargesHeld
  BY TopTask DEF WalkInv, TaskShape
<1>2. TaskExact(Running)
  BY <1>1 DEF ExactInv, StackExact, Running
<1>3. Running.charge = 0 /\ Payload(Running) = 0 /\ Levels(Running) = 0
  BY <1>1 DEF TaskShape, Payload, Levels, Nests
<1>4. Running.before \in Nat /\ Running.driver \in Nat /\ Running.hops \in Nat
  BY <1>1 DEF TaskType
<1>5. descent = SumOver(Charges, Path(i) \ {i})
  BY <1>1, <1>2, <1>3, <1>4 DEF ChargesHeld, TaskExact
<1>6. openPayloads = Cardinality(PayloadsOpen(i)) /\ Cardinality(PayloadsOpen(i)) \in Nat
  <2>1. Cardinality(PayloadsOpen(i)) \in Nat
    BY <1>1, PathFacts
  <2>2. openPayloads = Running.driver - 1 + 0 /\ Running.driver = Cardinality(PayloadsOpen(i)) + 1
    BY <1>1, <1>2, <1>3 DEF ChargesHeld, TaskExact
  <2> QED
    BY <2>1, <2>2
<1>7. Running.hops = Cardinality(RefsAbove(i))
  BY <1>2 DEF TaskExact
<1>8. SumOver(Depths, PayloadsOpen(i)) \in Nat /\ journey.depth[0] \in Nat /\ journey.depth[i] \in Nat /\ MaxTotalNesting \in Nat
  <2>1. PayloadsOpen(i) \in SUBSET Steps
    BY <1>1, PathFacts
  <2>2. IsFiniteSet(Steps) /\ Depths \in [Steps -> Nat]
    BY <1>1, StepSums
  <2> QED
    BY <1>1, <2>1, <2>2, SumIsNat, JourneyFacts, WalkAssumption
<1>9. journey.depth[i] > nestingLeft <=> ~(journey.depth[0] + (SumOver(Depths, PayloadsOpen(i)) + journey.depth[i]) <= MaxTotalNesting)
  <2>1. nestingLeft = MaxTotalNesting - journey.depth[0] - SumOver(Depths, PayloadsOpen(i)) - 0
    BY <1>3 DEF ExactInv, LevelsExact
  <2> QED
    BY <1>8, <2>1
<1>10. Charge(i) \in Nat /\ Work(i) \in Nat /\ (StepKind(i) # "raw" => Work(i) >= 1)
  <2>1. Charge(i) \in Nat /\ Work(i) \in Nat
    BY <1>1, ChargeFacts
  <2>2. StepKind(i) # "raw" => Work(i) >= 1
    BY DEF Work
  <2> QED
    BY <2>1, <2>2
<1>11. MaxDescent \in Nat /\ MaxOpenPayloads \in Nat /\ MaxRuleNesting \in Nat /\ descent \in Nat
  <2>1. Path(i) \ {i} \in SUBSET Steps
    BY <1>1, PathFacts
  <2>2. SumOver(Charges, Path(i) \ {i}) \in Nat
    BY <1>1, <2>1, StepSums, SumIsNat
  <2> QED
    BY <1>5, <2>2, WalkAssumption
<1> DEFINE a == StepKind(i) # "raw" /\ workLeft = 0
           b == StepKind(i) = "payload" /\ openPayloads >= MaxOpenPayloads
           c == StepKind(i) = "payload" /\ journey.depth[i] > nestingLeft
           d == Work(i) > workLeft
           e == StepKind(i) = "hop" /\ Running.hops >= MaxRuleNesting
           f == descent + Charge(i) > MaxDescent
<1>12. Met(Running) = IF a THEN "work" ELSE IF b THEN "payloads" ELSE IF c THEN "levels" ELSE IF d THEN "work"
                      ELSE IF e THEN "chain" ELSE IF f THEN "descent" ELSE "none"
  BY DEF Met
<1>13. a => d
  BY <1>1, <1>10
<1>14. ~d <=> Work(i) <= workLeft
  BY <1>1, <1>10
<1>15. ~f <=> SumOver(Charges, Path(i) \ {i}) + Charge(i) <= MaxDescent
  BY <1>5, <1>10, <1>11
<1>16. ~b <=> (StepKind(i) = "payload" => Cardinality(PayloadsOpen(i)) < MaxOpenPayloads)
  BY <1>6, <1>11
<1>17. ~c <=> (StepKind(i) = "payload" => journey.depth[0] + (SumOver(Depths, PayloadsOpen(i)) + journey.depth[i]) <= MaxTotalNesting)
  BY <1>9
<1>18. ~e <=> (StepKind(i) = "hop" => Cardinality(RefsAbove(i)) < MaxRuleNesting)
  <2>1. Cardinality(RefsAbove(i)) \in Nat
    BY <1>1, PathFacts
  <2> QED
    BY <1>7, <1>11, <2>1
<1> HIDE DEF a, b, c, d, e, f
<1>19. Met(Running) = "none" <=> ~a /\ ~b /\ ~c /\ ~d /\ ~e /\ ~f
  BY <1>12
<1>20. Fits(i) <=> ~b /\ ~c /\ ~e /\ ~f
  BY <1>15, <1>16, <1>17, <1>18 DEF Fits
<1> QED
  BY <1>13, <1>14, <1>19, <1>20

\* A step that is entered is charged its own.
LEMMA EnterExact ==
  ASSUME WalkInv, ExactInv, Enter
  PROVE  ExactInv'
<1> DEFINE N == Len(tasks)
           i == Running.step
           t == [Running EXCEPT !.entered = TRUE, !.charge = Charge(i), !.got = <<i>>]
<1>1. /\ tasks # <<>> /\ ~Running.entered /\ exceeded = "none" /\ Met(Running) = "none" /\ tasks' = Replaced(t)
      /\ workLeft' = workLeft - Work(i)
      /\ nestingLeft' = (IF Decodes(i) THEN nestingLeft - journey.depth[i] ELSE nestingLeft)
      /\ journey' = journey /\ channel' = channel /\ exceeded' = exceeded
  BY DEF Enter
<1>2. /\ journey \in Walks /\ workLeft \in Nat /\ nestingLeft \in Int /\ StackShape /\ ChannelShape
      /\ N \in Nat \ {0} /\ N \in 1..N /\ TaskShape(Running) /\ Running \in TaskType /\ tasks \in Seq(TaskType) /\ i \in Steps /\ i \in Nat
      /\ Running = tasks[N]
  BY <1>1, TopTask, JourneyFacts DEF WalkInv, StackShape, TaskShape, Running
<1>3. Charge(i) \in Nat /\ Work(i) \in Nat /\ journey.depth[i] \in Nat
  BY <1>2, ChargeFacts, JourneyFacts
<1>4. channel = <<>>
  BY <1>1, <1>2 DEF ChannelShape, AskedBy
<1>5. /\ t \in TaskType /\ t.step = i /\ t.hops = Running.hops /\ t.driver = Running.driver /\ t.entered /\ t.next = Running.next
      /\ t.charge = Charge(i) /\ t.before = Running.before
  <2>1. <<i>> \in Seq(Nat)
    BY <1>2
  <2> QED  BY <1>2, <1>3, <2>1 DEF TaskType
<1> HIDE DEF t
<1>6. /\ tasks' \in Seq(TaskType) /\ tasks' # <<>> /\ Len(tasks') = N /\ tasks'[N] = t
      /\ \A n \in 1..N : n < N => tasks'[n] = tasks[n]
  BY <1>1, <1>2, <1>5, Exchanged
<1>7. Running' = t
  BY <1>6 DEF Running
<1>8. \A n \in 1..N : TaskExact(tasks[n]) /\ (n < N => Below(tasks[n + 1].step, tasks[n].step))
  BY DEF ExactInv, StackExact
<1>9. TaskExact(t)
  <2>1. TaskExact(Running)
    BY <1>2, <1>8
  <2> QED
    BY <1>5, <2>1 DEF TaskExact
<1>10. StackExact'
  <2>1. ASSUME NEW n \in 1..N
        PROVE  TaskExact(tasks'[n]) /\ (n < N => Below(tasks'[n + 1].step, tasks'[n].step))
    <3>1. n = N \/ (n < N /\ n + 1 \in 1..N /\ (n + 1 = N \/ n + 1 < N))
      BY <1>2
    <3>2. n < N => tasks'[n + 1].step = tasks[n + 1].step /\ tasks'[n] = tasks[n]
      BY <1>2, <1>5, <1>6, <3>1
    <3> QED
      BY <1>2, <1>6, <1>8, <1>9, <3>1, <3>2
  <2>2. \A n \in 1..Len(tasks') : TaskExact(tasks[n])' /\ (n < Len(tasks') => Below(tasks[n + 1].step, tasks[n].step)')
    BY <1>1, <1>6, <2>1, Steady, SteadyTasks
  <2> QED
    BY <2>2 DEF StackExact
<1>11. LevelsExact'
  <2>1. nestingLeft = MaxTotalNesting - journey.depth[0] - SumOver(Depths, PayloadsOpen(i)) - 0
    BY <1>1 DEF ExactInv, LevelsExact, Levels, Nests
  <2>2. Levels(t) = (IF Decodes(i) THEN journey.depth[i] ELSE 0)
    BY <1>5 DEF Levels, Nests
  <2>3. SumOver(Depths, PayloadsOpen(i)) \in Nat /\ journey.depth[0] \in Nat /\ MaxTotalNesting \in Nat
    <3>1. PayloadsOpen(i) \in SUBSET Steps
      BY <1>2, PathFacts
    <3>2. IsFiniteSet(Steps) /\ Depths \in [Steps -> Nat]
      BY <1>2, StepSums
    <3> QED
      BY <1>2, <3>1, <3>2, SumIsNat, JourneyFacts, WalkAssumption
  <2>4. nestingLeft' = MaxTotalNesting - journey.depth[0] - SumOver(Depths, PayloadsOpen(i)) - Levels(t)
    BY <1>1, <1>3, <2>1, <2>2, <2>3
  <2>5. SumOver(Depths, PayloadsOpen(Running.step))' = SumOver(Depths, PayloadsOpen(i)) /\ Levels(Running)' = Levels(t)
    BY <1>1, <1>5, <1>7, Steady, SteadyTasks
  <2> QED
    BY <1>1, <2>4, <2>5 DEF LevelsExact
<1>12. Taken(i - 1)
  <2>1. Done = i - 1
    BY <1>1, <1>4 DEF Done
  <2> QED
    BY <1>1, <2>1 DEF ExactInv
<1>13. Fits(i) /\ Work(i) <= workLeft
  BY <1>1, MetTells
<1>14. Done' = i
  <2>1. t.next = i + 1
    BY <1>1, <1>2, <1>5 DEF TaskShape
  <2>2. Done' = t.next - 1
    BY <1>1, <1>4, <1>5, <1>6, <1>7 DEF Done
  <2> QED
    BY <1>2, <2>1, <2>2
<1>15. SumOver(Works, 1..i) = SumOver(Works, 1..(i - 1)) + Work(i)
  <2> DEFINE M == Len(journey.last)
             k == i - 1
  <2>1. M \in Nat /\ Steps = 1..M /\ k \in Nat /\ k + 1 = i /\ k + 1 \in 1..M
    <3>1. M \in Nat /\ Steps = 1..M
      BY <1>2, JourneyFacts
    <3> QED
      BY <1>2, <3>1
  <2>2. Works \in [1..M -> Nat]
    BY <1>2, <2>1, StepSums
  <2>3. Works[i] = Work(i)
    BY <1>2 DEF Works
  <2> HIDE DEF k, M
  <2>4. SumOver(Works, 1..(k + 1)) = SumOver(Works, 1..k) + Works[k + 1]
    BY <2>1, <2>2, SumNext
  <2> QED
    BY <2>1, <2>3, <2>4 DEF k
<1>16. ASSUME NEW n, n = i PROVE Taken(n)'
  <2>1. journey.depth[0] <= MaxTotalNesting /\ workLeft = MaxWork - SumOver(Works, 1..(i - 1)) /\ \A j \in 1..(i - 1) : Fits(j)
    BY <1>12 DEF Taken
  <2>2. SumOver(Works, 1..(i - 1)) \in Nat /\ MaxWork \in Nat
    <3>1. (1..(i - 1)) \in SUBSET Steps
      BY <1>2, JourneyFacts
    <3> QED
      BY <1>2, <3>1, StepSums, SumIsNat, WalkAssumption
  <2>3. workLeft' = MaxWork - SumOver(Works, 1..i)
    BY <1>1, <1>3, <1>15, <2>1, <2>2
  <2>4. \A j \in 1..i : j = i \/ j \in 1..(i - 1)
    BY <1>2
  <2>5. \A j \in 1..n : Fits(j)
    BY <1>13, <1>16, <2>1, <2>4
  <2>6. \A j : Fits(j)' <=> Fits(j)
    BY <1>1, SteadyTasks
  <2>7. Works' = Works /\ journey' = journey
    BY <1>1, Steady
  <2>8. journey'.depth[0] <= MaxTotalNesting /\ workLeft' = MaxWork - SumOver(Works', 1..n) /\ \A j \in 1..n : Fits(j)'
    BY <1>16, <2>1, <2>3, <2>5, <2>6, <2>7
  <2> QED
    BY <2>8 DEF Taken
<1>17. Taken(Done)'
  BY <1>14, <1>16
<1> QED
  BY <1>1, <1>4, <1>10, <1>11, <1>17 DEF ExactInv, ChannelExact

\* One that is left is over, with all below it, unless the walk is refused.
LEMMA LeaveExact ==
  ASSUME WalkInv, ExactInv, tasks # <<>>, channel = <<>>, NEW result, Leave(result), workLeft' = workLeft,
         exceeded' # "none" => ~AllFit,
         exceeded' = "none" => exceeded = "none" /\ Running.entered /\ Running.next = journey.last[Running.step] + 1
  PROVE  ExactInv'
<1> DEFINE N == Len(tasks)
           i == Running.step
<1>1. /\ journey' = journey /\ channel' = <<>>
      /\ nestingLeft' = (IF Nests(Running) THEN nestingLeft + journey.depth[i] ELSE nestingLeft)
  BY DEF Leave
<1>2. /\ journey \in Walks /\ nestingLeft \in Int /\ StackShape
      /\ N \in Nat \ {0} /\ N \in 1..N /\ TaskShape(Running) /\ Running \in TaskType /\ tasks \in Seq(TaskType) /\ i \in Steps /\ i \in Nat
      /\ Running = tasks[N]
  BY TopTask, JourneyFacts DEF WalkInv, StackShape, TaskShape, Running
<1>3. \A n \in 1..N : TaskExact(tasks[n]) /\ (n < N => Below(tasks[n + 1].step, tasks[n].step))
  BY DEF ExactInv, StackExact
<1>4. exceeded' # "none" => ~AllFit'
  BY <1>1, SteadyTasks
<1>5. journey.last[i] \in Nat /\ journey.depth[i] \in Nat /\ journey.depth[0] \in Nat /\ MaxTotalNesting \in Nat
  BY <1>2, JourneyFacts, WalkAssumption
<1>6. exceeded' = "none" => Taken(journey.last[i])
  <2> HAVE exceeded' = "none"
  <2>1. Running.next - 1 = journey.last[i]
    BY <1>5
  <2>2. Done = journey.last[i]
    BY <2>1 DEF Done
  <2> QED
    BY <2>2 DEF ExactInv
<1>7. exceeded' = "none" => \A n : n = journey.last[i] => Taken(n)'
  BY <1>1, <1>6, SteadyTasks
<1>8. nestingLeft' = MaxTotalNesting - journey.depth[0] - SumOver(Depths, PayloadsOpen(i))
  <2>1. nestingLeft = MaxTotalNesting - journey.depth[0] - SumOver(Depths, PayloadsOpen(i)) - Levels(Running)
    BY DEF ExactInv, LevelsExact
  <2>2. SumOver(Depths, PayloadsOpen(i)) \in Nat
    <3>1. PayloadsOpen(i) \in SUBSET Steps
      BY <1>2, PathFacts
    <3>2. IsFiniteSet(Steps) /\ Depths \in [Steps -> Nat]
      BY <1>2, StepSums
    <3> QED
      BY <3>1, <3>2, SumIsNat
  <2> QED
    BY <1>1, <1>5, <2>1, <2>2 DEF Levels
<1>9. CASE N = 1
  <2>1. tasks' = <<>> /\ Len(tasks') = 0
    BY <1>9, EmptySeq DEF Leave
  <2>2. i = 1 /\ journey.last[i] = Len(journey.last)
    BY <1>2, <1>9, JourneyFacts DEF StackShape
  <2>3. Done' = Len(journey.last)
    BY <1>1, <2>1 DEF Done
  <2>4. exceeded' = "none" => Taken(Done)'
    BY <1>7, <2>2, <2>3
  <2>5. StackExact'
    BY <2>1 DEF StackExact
  <2> QED
    BY <1>1, <1>4, <2>1, <2>4, <2>5 DEF ExactInv, ChannelExact, LevelsExact
<1>10. CASE N # 1
  <2> DEFINE K == N - 1
             t == [tasks[K] EXCEPT !.got = @ \o result]
             p == tasks[K].step
  <2>1. /\ K \in Nat \ {0} /\ K \in 1..N /\ K < N /\ K + 1 = N /\ tasks[K] \in TaskType /\ TaskShape(tasks[K])
        /\ AskedBy(tasks[N], tasks[K]) /\ p \in Steps
    <3>1. K \in Nat \ {0} /\ K \in 1..N /\ K < N /\ K + 1 = N
      <4>1. N \in Nat \ {0}
        BY <1>2
      <4> HIDE DEF N
      <4> QED  BY <1>10, <4>1
    <3>2. TaskShape(tasks[K]) /\ AskedBy(tasks[N], tasks[K])
      BY <1>2, <3>1 DEF StackShape
    <3> QED  BY <3>1, <3>2 DEF TaskShape
  <2>2. /\ t.step = p /\ t.driver = tasks[K].driver /\ t.hops = tasks[K].hops
        /\ t.entered = tasks[K].entered /\ t.next = tasks[K].next /\ t.charge = tasks[K].charge
        /\ t.before = tasks[K].before
    BY <2>1 DEF TaskType
  <2>3. tasks' = [n \in 1..K |-> IF n = K THEN t ELSE tasks[n]]
    BY <1>10 DEF Leave
  <2> HIDE DEF t, K
  <2>4. Len(tasks') = K /\ tasks'[K] = t /\ tasks' # <<>> /\ \A n \in 1..K : n < K => tasks'[n] = tasks[n]
    <3>1. Len(tasks') = K
      BY <2>1, <2>3
    <3>2. tasks' # <<>>
      BY <2>1, <3>1, EmptySeq
    <3> QED
      BY <2>1, <2>3, <3>1, <3>2
  <2>5. Running' = t
    BY <2>4 DEF Running
  <2>6. TaskExact(t) /\ Levels(t) = Levels(tasks[K]) /\ Below(i, p)
    <3>1. TaskExact(tasks[K]) /\ Below(i, p)
      BY <1>2, <1>3, <2>1
    <3> QED
      BY <2>2, <3>1, SameNumbers
  <2>7. StackExact'
    <3>1. ASSUME NEW n \in 1..K
          PROVE  TaskExact(tasks'[n]) /\ (n < K => Below(tasks'[n + 1].step, tasks'[n].step))
      <4>1. n = K \/ (n < K /\ n + 1 \in 1..K /\ (n + 1 = K \/ n + 1 < K))
        BY <2>1
      <4>2. n \in 1..N /\ (n < K => n < N)
        BY <2>1
      <4>3. n < K => tasks'[n + 1].step = tasks[n + 1].step /\ tasks'[n] = tasks[n]
        BY <2>2, <2>4, <4>1
      <4> QED
        BY <1>3, <2>4, <2>6, <4>1, <4>2, <4>3
    <3>2. \A n \in 1..Len(tasks') : TaskExact(tasks[n])' /\ (n < Len(tasks') => Below(tasks[n + 1].step, tasks[n].step)')
      BY <1>1, <2>4, <3>1, Steady, SteadyTasks
    <3> QED
      BY <3>2 DEF StackExact
  <2>8. /\ t.entered /\ t.next = journey.last[i] + 1
    BY <1>2, <2>1, <2>2 DEF AskedBy
  <2>9. LevelsExact'
    <3>1. SumOver(Depths, PayloadsOpen(i)) = SumOver(Depths, PayloadsOpen(p)) + (IF StepKind(p) = "payload" THEN journey.depth[p] ELSE 0)
      BY <1>2, <2>1, <2>6, CountsBelow
    <3>2. Levels(t) = (IF StepKind(p) = "payload" THEN journey.depth[p] ELSE 0)
      <4>1. journey.last[p] > p
        BY <1>2, <2>1, <2>6, JourneyFacts DEF Below
      <4> QED
        BY <2>2, <2>8, <4>1 DEF Levels, Nests, Decodes
    <3>3. SumOver(Depths, PayloadsOpen(p)) \in Nat /\ journey.depth[p] \in Nat
      <4>1. PayloadsOpen(p) \in SUBSET Steps
        BY <1>2, <2>1, PathFacts
      <4>2. IsFiniteSet(Steps) /\ Depths \in [Steps -> Nat]
        BY <1>2, StepSums
      <4> QED
        BY <1>2, <2>1, <4>1, <4>2, SumIsNat, JourneyFacts
    <3>4. nestingLeft' = MaxTotalNesting - journey.depth[0] - SumOver(Depths, PayloadsOpen(p)) - Levels(t)
      BY <1>5, <1>8, <3>1, <3>2, <3>3
    <3>5. SumOver(Depths, PayloadsOpen(Running.step))' = SumOver(Depths, PayloadsOpen(p)) /\ Levels(Running)' = Levels(t)
      BY <1>1, <2>2, <2>5, Steady, SteadyTasks
    <3> QED
      BY <1>1, <3>4, <3>5 DEF LevelsExact
  <2>10. Done' = journey.last[i]
    <3>1. Done' = t.next - 1
      BY <1>1, <2>4, <2>5, <2>8 DEF Done
    <3> QED
      BY <1>5, <2>8, <3>1
  <2>11. exceeded' = "none" => Taken(Done)'
    BY <1>7, <2>10
  <2> QED
    BY <1>1, <1>4, <2>7, <2>9, <2>11 DEF ExactInv, ChannelExact
<1> QED
  BY <1>9, <1>10

\* A step that does not fit is one that makes the walk too much.
LEMMA RefuseExact == ASSUME WalkInv, ExactInv, Refuse PROVE ExactInv'
<1> DEFINE i == Running.step
<1>1. /\ channel = <<>> /\ tasks # <<>> /\ ~Running.entered /\ workLeft' = workLeft /\ Leave(<<>>)
      /\ exceeded' = (IF exceeded = "none" THEN Met(Running) ELSE exceeded) /\ (exceeded # "none" \/ Met(Running) # "none")
  BY DEF Refuse, WalkInv, ChannelShape, AskedBy
<1>2. exceeded' # "none"
  BY <1>1
<1>3. ASSUME exceeded = "none" PROVE ~AllFit
  <2>1. ~(Work(i) <= workLeft) \/ ~Fits(i)
    BY <1>1, <1>3, MetTells
  <2>2. journey \in Walks /\ i \in Steps /\ i \in Nat /\ workLeft \in Nat
    BY <1>1, TopTask, JourneyFacts DEF WalkInv, TaskShape
  <2>3. CASE ~Fits(i)
    BY <2>2, <2>3 DEF AllFit
  <2>4. CASE ~(Work(i) <= workLeft)
    <3> DEFINE M == Len(journey.last)
               k == i - 1
    <3>1. Done = k
      BY <1>1 DEF Done
    <3>2. workLeft = MaxWork - SumOver(Works, 1..k)
      BY <1>3, <3>1 DEF ExactInv, Taken
    <3>3. M \in Nat /\ Steps = 1..M /\ k \in Nat /\ k + 1 = i /\ k + 1 \in 1..M /\ i \in 0..M
      <4>1. M \in Nat /\ Steps = 1..M
        BY <2>2, JourneyFacts
      <4> QED
        BY <2>2, <4>1
    <3>4. Works \in [1..M -> Nat] /\ Works[i] = Work(i) /\ Work(i) \in Nat /\ IsFiniteSet(1..M)
      <4>1. Works \in [Steps -> Nat] /\ IsFiniteSet(Steps) /\ Work(i) \in Nat
        BY <2>2, StepSums, ChargeFacts
      <4>2. Works[i] = Work(i)
        BY <2>2 DEF Works
      <4> QED
        BY <3>3, <4>1, <4>2
    <3> HIDE DEF M, k
    <3>5. SumOver(Works, 1..(k + 1)) = SumOver(Works, 1..k) + Works[k + 1]
      BY <3>3, <3>4, SumNext
    <3>6. SumOver(Works, 1..i) <= SumOver(Works, 1..M)
      BY <3>3, <3>4, SumGrows
    <3>7. SumOver(Works, 1..k) \in Nat /\ SumOver(Works, 1..M) \in Nat /\ MaxWork \in Nat
      <4>1. (1..k) \in SUBSET (1..M) /\ (1..M) \in SUBSET (1..M)
        BY <3>3
      <4> QED
        BY <3>4, <4>1, SumIsNat, WalkAssumption
    <3>8. SumOver(Works, 1..i) = SumOver(Works, 1..k) + Work(i)
      BY <3>3, <3>4, <3>5
    <3>9. ~(SumOver(Works, 1..M) <= MaxWork)
      BY <2>2, <2>4, <3>2, <3>4, <3>6, <3>7, <3>8
    <3> QED
      BY <3>9 DEF AllFit, M
  <2> QED
    BY <2>1, <2>3, <2>4
<1>4. ~AllFit
  BY <1>3 DEF ExactInv
<1> HIDE DEF Leave
<1> QED
  BY <1>1, <1>2, <1>4, LeaveExact

\* One that completes without a refusal has asked for all that is below it.
LEMMA CompleteExact == ASSUME WalkInv, ExactInv, Complete PROVE ExactInv'
<1>1. /\ channel = <<>> /\ tasks # <<>> /\ Running.entered /\ workLeft' = workLeft /\ exceeded' = exceeded /\ Leave(Running.got)
      /\ Running.next > journey.last[Running.step] \/ exceeded # "none"
  BY DEF Complete
<1>2. Running \in TaskType /\ TaskShape(Running) /\ journey.last[Running.step] \in Nat /\ Running.next \in Nat
  BY <1>1, TopTask, JourneyFacts DEF WalkInv, TaskShape, TaskType
<1>3. exceeded' = "none" => Running.next = journey.last[Running.step] + 1
  BY <1>1, <1>2 DEF TaskShape
<1>4. exceeded' # "none" => ~AllFit
  BY <1>1 DEF ExactInv
<1>5. exceeded' = "none" => exceeded = "none" /\ Running.entered /\ Running.next = journey.last[Running.step] + 1
  BY <1>1, <1>3
<1> HIDE DEF Leave
<1> QED
  BY <1>1, <1>4, <1>5, LeaveExact

\* What is asked for comes next,
LEMMA RunAboveExact ==
  ASSUME WalkInv, ExactInv, RunAbove
  PROVE  ExactInv'
<1> DEFINE t == [Running EXCEPT !.next = journey.last[Running.next] + 1]
           u == Task(Running.next, HopsBelow(Running), Running.driver)
           w == Task(Running.next, HopsBelow(Running), Running.driver + Payload(Running))
           N == Len(tasks)
           s == Replaced(t)
<1>1. /\ Asks /\ tasks # <<>> /\ channel = <<>> /\ ~Decodes(Running.step) /\ channel' = <<u>> /\ tasks' = s
      /\ journey' = journey /\ workLeft' = workLeft /\ nestingLeft' = nestingLeft /\ exceeded' = exceeded
  BY DEF RunAbove, Asks, Asked, budgets
<1>2. Running \in TaskType /\ TaskShape(Running) /\ N \in Nat \ {0} /\ N \in 1..N /\ Running = tasks[N] /\ Running.entered
  BY <1>1, TopTask DEF WalkInv, Running, Asks
<1>3. u = w
  <2>1. Running.driver \in Nat /\ Payload(Running) = 0
    BY <1>1, <1>2 DEF TaskType, Payload, Nests
  <2>2. Running.driver + Payload(Running) = Running.driver
    BY <2>1
  <2> QED
    BY <2>2
<1>4. TaskExact(u) /\ Below(u.step, Running.step) /\ u.step = Running.next
  <2>1. TaskExact(w) /\ Below(w.step, Running.step) /\ w.step = Running.next
    BY <1>1, AskedExact
  <2> QED
    BY <1>3, <2>1
<1>5. /\ s \in Seq(TaskType) /\ Len(s) = N /\ s[N] = t /\ t \in TaskType
      /\ \A n \in 1..N : TaskExact(s[n]) /\ (n < N => Below(s[n + 1].step, s[n].step))
  BY <1>1, StackAsked
<1>6. t.step = Running.step /\ t.entered = Running.entered
  BY <1>2 DEF TaskType
<1> HIDE DEF t, u, w, s
<1>7. Len(tasks') = N /\ Running' = t /\ tasks' # <<>>
  BY <1>1, <1>2, <1>5, EmptySeq DEF Running
<1>8. StackExact'
  <2>1. \A n \in 1..Len(tasks') : TaskExact(tasks[n])' /\ (n < Len(tasks') => Below(tasks[n + 1].step, tasks[n].step)')
    BY <1>1, <1>5, <1>7, Steady, SteadyTasks
  <2> QED
    BY <2>1 DEF StackExact
<1>9. ChannelExact'
  <2>1. channel'[1] = u
    BY <1>1
  <2>2. TaskExact(channel[1])' /\ Below(channel[1].step, Running.step)'
    BY <1>1, <1>4, <1>6, <1>7, <2>1, Steady, SteadyTasks
  <2> QED
    BY <2>2 DEF ChannelExact
<1>10. LevelsExact'
  <2>1. Levels(t) = Levels(Running)
    BY <1>6 DEF Levels, Nests
  <2>2. nestingLeft = MaxTotalNesting - journey.depth[0] - SumOver(Depths, PayloadsOpen(Running.step)) - Levels(Running)
    BY <1>1 DEF ExactInv, LevelsExact
  <2>3. SumOver(Depths, PayloadsOpen(Running.step))' = SumOver(Depths, PayloadsOpen(Running.step)) /\ Levels(Running)' = Levels(Running)
    BY <1>1, <1>6, <1>7, <2>1, Steady, SteadyTasks
  <2> QED
    BY <1>1, <2>2, <2>3 DEF LevelsExact
<1>11. Done' = Done
  <2>1. channel' # <<>> /\ channel'[1] = u
    BY <1>1
  <2> QED
    BY <1>1, <1>2, <1>4, <2>1 DEF Done
<1>12. exceeded' = "none" => Taken(Done)'
  <2>1. exceeded' = "none" => \A n : n = Done => Taken(n)'
    BY <1>1, SteadyTasks DEF ExactInv
  <2> QED
    BY <1>11, <2>1
<1>13. exceeded' # "none" => ~AllFit'
  BY <1>1, SteadyTasks DEF ExactInv
<1> QED
  BY <1>8, <1>9, <1>10, <1>12, <1>13 DEF ExactInv

\* A task put on top of one that has asked for it.
LEMMA PushExact ==
  ASSUME WalkInv, ExactInv, tasks # <<>>, NEW s \in Seq(TaskType), Len(s) \in Nat \ {0}, NEW u \in TaskType,
         TaskExact(u), ~u.entered, s[Len(s)].step = Running.step, Below(u.step, Running.step), u.step \in Steps, Running.entered,
         \A n \in 1..Len(s) : TaskExact(s[n]) /\ (n < Len(s) => Below(s[n + 1].step, s[n].step)),
         journey' = journey, tasks' = Append(s, u), channel' = <<>>, workLeft' = workLeft, nestingLeft' = nestingLeft,
         exceeded' = exceeded, Done = u.step - 1
  PROVE  ExactInv'
<1> DEFINE i == Running.step
           c == u.step
<1>1. StackExact' /\ tasks' # <<>> /\ Running' = u
  BY StackPushed
<1>2. journey \in Walks /\ i \in Steps
  BY TopTask DEF WalkInv, TaskShape
<1>3. LevelsExact'
  <2>1. nestingLeft = MaxTotalNesting - journey.depth[0] - SumOver(Depths, PayloadsOpen(i)) - Levels(Running)
    BY DEF ExactInv, LevelsExact
  <2>2. SumOver(Depths, PayloadsOpen(c)) = SumOver(Depths, PayloadsOpen(i)) + (IF StepKind(i) = "payload" THEN journey.depth[i] ELSE 0)
    BY <1>2, CountsBelow
  <2>3. Levels(Running) = (IF StepKind(i) = "payload" THEN journey.depth[i] ELSE 0)
    <3>1. journey.last[i] > i
      BY <1>2, JourneyFacts DEF Below
    <3> QED
      BY <3>1 DEF Levels, Nests, Decodes
  <2>4. /\ SumOver(Depths, PayloadsOpen(i)) \in Nat /\ journey.depth[i] \in Nat /\ journey.depth[0] \in Nat
        /\ MaxTotalNesting \in Nat
    <3>1. PayloadsOpen(i) \in SUBSET Steps
      BY <1>2, PathFacts
    <3>2. IsFiniteSet(Steps) /\ Depths \in [Steps -> Nat]
      BY <1>2, StepSums
    <3> QED
      BY <1>2, <3>1, <3>2, SumIsNat, JourneyFacts, WalkAssumption
  <2>5. nestingLeft = MaxTotalNesting - journey.depth[0] - SumOver(Depths, PayloadsOpen(c)) - 0
    BY <2>1, <2>2, <2>3, <2>4
  <2>6. Levels(u) = 0
    BY DEF Levels, Nests
  <2>7. SumOver(Depths, PayloadsOpen(Running.step))' = SumOver(Depths, PayloadsOpen(c)) /\ Levels(Running)' = Levels(u)
    BY <1>1, Steady, SteadyTasks
  <2> QED
    BY <2>5, <2>6, <2>7 DEF LevelsExact
<1>4. Done' = Done
  BY <1>1 DEF Done
<1>5. exceeded' = "none" => Taken(Done)'
  <2>1. exceeded' = "none" => \A n : n = Done => Taken(n)'
    BY SteadyTasks DEF ExactInv
  <2> QED
    BY <1>4, <2>1
<1>6. exceeded' # "none" => ~AllFit'
  BY SteadyTasks DEF ExactInv
<1> QED
  BY <1>1, <1>3, <1>5, <1>6 DEF ExactInv, ChannelExact

\* the root of a payload at once,
LEMMA RunRootExact ==
  ASSUME WalkInv, ExactInv, RunRoot
  PROVE  ExactInv'
<1> DEFINE t == [Running EXCEPT !.next = journey.last[Running.next] + 1]
           h == 0
           d == Running.driver + 1
           u == Task(Running.next, h, d)
           w == Task(Running.next, HopsBelow(Running), Running.driver + Payload(Running))
           N == Len(tasks)
           s == Replaced(t)
<1>1. /\ Asks /\ tasks # <<>> /\ channel = <<>> /\ Decodes(Running.step) /\ tasks' = Append(s, u) /\ channel' = <<>>
      /\ journey' = journey /\ workLeft' = workLeft /\ nestingLeft' = nestingLeft /\ exceeded' = exceeded
  BY DEF RunRoot, Asks, Asked, budgets
<1>2. /\ Running \in TaskType /\ TaskShape(Running) /\ N \in Nat \ {0} /\ N \in 1..N /\ Running = tasks[N] /\ Running.entered
      /\ h \in Nat /\ d \in Nat
  BY <1>1, TopTask DEF WalkInv, Running, Asks, TaskType
<1>3. u = w
  <2>1. HopsBelow(Running) = 0
    BY <1>1 DEF HopsBelow, Decodes
  <2>2. Payload(Running) = 1
    BY <1>1, <1>2 DEF Payload, Nests
  <2> QED
    BY <2>1, <2>2
<1>4. TaskExact(u) /\ Below(u.step, Running.step) /\ u.step = Running.next
  <2>1. TaskExact(w) /\ Below(w.step, Running.step) /\ w.step = Running.next
    BY <1>1, AskedExact
  <2> QED
    BY <1>3, <2>1
<1>5. /\ s \in Seq(TaskType) /\ Len(s) = N /\ s[N] = t /\ t \in TaskType
      /\ \A n \in 1..N : TaskExact(s[n]) /\ (n < N => Below(s[n + 1].step, s[n].step))
  BY <1>1, StackAsked
<1>6. t.step = Running.step /\ Done = u.step - 1
  BY <1>1, <1>2, <1>4 DEF TaskType, Done
<1> HIDE DEF h, d
<1>7. u \in TaskType /\ TaskShape(u) /\ ~u.entered
  BY <1>1, <1>2, AskFacts
<1>8. u.step \in Steps
  BY <1>7 DEF TaskShape
<1> HIDE DEF t, u, w, s
<1> QED
  BY <1>1, <1>2, <1>4, <1>5, <1>6, <1>7, <1>8, PushExact

\* any other when the driver takes it.
LEMMA DriveExact ==
  ASSUME WalkInv, ExactInv, Drive
  PROVE  ExactInv'
<1>1. PICK u \in TaskType : channel = <<u>> /\ TaskShape(u) /\ ~u.entered /\ tasks # <<>> /\ AskedBy(u, Running) /\ ~Nests(Running)
  BY DEF Drive, WalkInv, ChannelShape
<1>2. /\ tasks' = Append(tasks, u) /\ channel' = <<>> /\ journey' = journey /\ workLeft' = workLeft
      /\ nestingLeft' = nestingLeft /\ exceeded' = exceeded
  BY <1>1 DEF Drive, budgets
<1>3. tasks \in Seq(TaskType) /\ Running = tasks[Len(tasks)] /\ Len(tasks) \in Nat \ {0}
  BY <1>1, TopTask DEF WalkInv, StackShape, Running
<1>4. channel # <<>> /\ channel[1] = u
  BY <1>1
<1>5. TaskExact(u) /\ Below(u.step, Running.step) /\ Done = u.step - 1
  BY <1>4 DEF ExactInv, ChannelExact, Done
<1>6. \A n \in 1..Len(tasks) : TaskExact(tasks[n]) /\ (n < Len(tasks) => Below(tasks[n + 1].step, tasks[n].step))
  BY DEF ExactInv, StackExact
<1>7. u.step \in Steps /\ Running.entered /\ tasks[Len(tasks)].step = Running.step
  BY <1>1, <1>3 DEF TaskShape, AskedBy
<1> QED
  BY <1>1, <1>2, <1>3, <1>5, <1>6, <1>7, PushExact

\* Whatever is walked, what a task was charged is the sum over the way to its step, and the
\* work done is that of the steps taken: a walk is refused exactly when it has more steps
\* than are allowed for, or one to which the way from the root holds more than a budget
\* (drive, run_above, run_root; the guards of limits.rs).
THEOREM WalksAreExact == WalkSpec => []WalkExact
<1>1. ASSUME WalkInv, ExactInv, [WalkNext]_walkVars PROVE ExactInv'
  <2>1. CASE UNCHANGED walkVars
    <3>1. /\ journey' = journey /\ tasks' = tasks /\ channel' = channel /\ workLeft' = workLeft
          /\ nestingLeft' = nestingLeft /\ exceeded' = exceeded
      BY <2>1 DEF walkVars
    <3>2. StackExact' /\ ChannelExact'
      BY <1>1, <3>1, Steady, SteadyTasks DEF ExactInv, StackExact, ChannelExact, Running
    <3>3. LevelsExact'
      BY <1>1, <3>1, Steady, SteadyTasks DEF ExactInv, LevelsExact, Running
    <3>4. Done' = Done
      BY <3>1 DEF Done, Running
    <3>5. exceeded' = "none" => Taken(Done)'
      <4>1. exceeded' = "none" => \A n : n = Done => Taken(n)'
        BY <1>1, <3>1, SteadyTasks DEF ExactInv
      <4> QED
        BY <3>4, <4>1
    <3>6. exceeded' # "none" => ~AllFit'
      BY <1>1, <3>1, SteadyTasks DEF ExactInv
    <3> QED
      BY <3>2, <3>3, <3>5, <3>6 DEF ExactInv
  <2> QED
    BY <1>1, <2>1, EnterExact, RefuseExact, CompleteExact, RunAboveExact, RunRootExact, DriveExact DEF WalkNext
<1>2. WalkInv /\ ExactInv => WalkExact
  <2> SUFFICES ASSUME WalkInv, ExactInv, tasks = <<>> PROVE exceeded = "none" <=> WalkFits
    BY DEF WalkExact
  <2>1. journey \in Walks /\ channel = <<>> /\ workLeft \in Nat
    BY DEF WalkInv
  <2>2. WalkFits <=> AllFit
    BY <2>1, WalkFitsAsWalked
  <2>3. exceeded # "none" => ~AllFit
    BY DEF ExactInv
  <2>4. ASSUME exceeded = "none" PROVE AllFit
    <3> DEFINE M == Len(journey.last)
    <3>1. M \in Nat /\ Steps = 1..M
      BY <2>1, JourneyFacts
    <3>2. Taken(M)
      <4>1. Done = M
        BY <2>1 DEF Done
      <4> QED
        BY <2>4, <4>1 DEF ExactInv
    <3>3. SumOver(Works, 1..M) \in Nat /\ MaxWork \in Nat
      <4>1. Steps \in SUBSET Steps
        OBVIOUS
      <4> QED
        BY <2>1, <3>1, <4>1, StepSums, SumIsNat, WalkAssumption
    <3>4. SumOver(Works, 1..M) <= MaxWork
      BY <2>1, <3>2, <3>3 DEF Taken
    <3> QED
      BY <3>1, <3>2, <3>4 DEF Taken, AllFit
  <2> QED
    BY <2>2, <2>3, <2>4
<1> QED
  BY <1>1, <1>2, ExactStarts, WalkInvariance, PTL DEF WalkSpec

================================================================================
