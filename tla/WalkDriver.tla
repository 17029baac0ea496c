------------------------------ MODULE WalkDriver ------------------------------
\* How a walk of a document against a schema recurses without a native stack, and what
\* bounds it. A step that would recurse asks the driver for a task above its own and is
\* suspended until that has finished (walk_driver.rs); an embedded payload has a driver of
\* its own, run by the task that met it. Each step is charged to the budgets of the walk
\* (limits.rs) when it is entered and gives back what it holds when it is left; a step that
\* does not fit refuses the whole call. The mapper (schema_mapper.rs) and the replay of its
\* decisions (cbor_cddl_map.rs, whose rows are counted in place of its work) walk alike.
\*
\* The steps of a walk are numbered in the order recursion would take them: step i has the
\* steps i+1..last[i] below it. A payload with none below does not decode.
EXTENDS Integers, Sequences, FiniteSets, FiniteSetsExt

CONSTANTS
  Walks,           \* [last, kind, depth]: depth[i] is the nesting of payload i, depth[0] the document's
  Weights,         \* DescentWeights: [level, ruleHop, rawLevel]
  MaxDescent,      \* MAX_CBOR_MAPPING_DESCENT_COST
  MaxRuleNesting,  \* MAX_CBOR_MAPPING_RULE_NESTING
  MaxWork,         \* MAX_CBOR_MAPPING_WORK
  MaxTotalNesting, \* MAX_CBOR_NESTING_DEPTH, of a document and the payloads open in it
  MaxOpenPayloads  \* MAX_EMBEDDED_DEPTH

StepKinds == {"plain", "level", "hop", "argument", "payload", "raw"}

\* What is below a step is below all that it is below.
ASSUME WalkAssumption ==
  /\ Weights \in [level : Nat, ruleHop : Nat, rawLevel : Nat]
  /\ {MaxDescent, MaxRuleNesting, MaxWork, MaxTotalNesting, MaxOpenPayloads} \subseteq Nat
  /\ \A w \in Walks : LET n == Len(w.last) IN
       /\ n \in Nat \ {0} /\ w.last \in [1..n -> 1..n] /\ w.kind \in [1..n -> StepKinds] /\ w.depth \in [0..n -> Nat]
       /\ w.last[1] = n /\ \A i \in 1..n : w.last[i] >= i /\ \A j \in i..w.last[i] : w.last[j] <= w.last[i]

VARIABLES
  journey,      \* the steps to take
  tasks,        \* the drivers' task stacks, each above the task that runs it
  channel,      \* the Spawner's channel: <<>> or the task asked for
  descent,      \* DescentBudget
  workLeft,     \* WorkBudget
  nestingLeft,  \* NestingBudget.remaining
  openPayloads,
  exceeded,     \* the bound that was met, or "none"
  product       \* <<>>, or <<the items in the order met>>

walkVars == <<journey, tasks, channel, descent, workLeft, nestingLeft, openPayloads, exceeded, product>>
budgets == <<descent, workLeft, nestingLeft, openPayloads, exceeded>>

\* A "plain" step is asked for and costs nothing; an "argument" stands for a parameter. The
\* levels of a "raw" subtree are walked on a stack of their own, charged like the others.
Weight(kind) == IF kind \in {"level", "payload"} THEN Weights.level
                ELSE IF kind \in {"hop", "argument"} THEN Weights.ruleHop
                ELSE IF kind = "raw" THEN Weights.rawLevel ELSE 0
StepKind(i) == journey.kind[i]
Decodes(i) == StepKind(i) = "payload" /\ journey.last[i] > i
Charge(i) == IF StepKind(i) = "payload" /\ ~Decodes(i) THEN 0 ELSE Weight(StepKind(i))
Work(i) == (IF StepKind(i) = "raw" THEN 0 ELSE 1) + (IF StepKind(i) = "level" \/ Decodes(i) THEN 1 ELSE 0)

\* before is the descent when the task was asked for.
Task(i, hops, driver) ==
  [step |-> i, hops |-> hops, driver |-> driver, entered |-> FALSE, next |-> i + 1,
   charge |-> 0, got |-> <<>>, before |-> descent]
Running == tasks[Len(tasks)]
Replaced(task) == [tasks EXCEPT ![Len(tasks)] = task]
Nests(task) == task.entered /\ Decodes(task.step)
\* References are counted per item.
HopsBelow(task) == IF StepKind(task.step) \in {"level", "payload", "raw"} THEN 0
                   ELSE IF StepKind(task.step) = "hop" THEN task.hops + 1 ELSE task.hops

WalkInit ==
  /\ journey \in Walks /\ descent = 0 /\ workLeft = MaxWork /\ openPayloads = 0
  /\ nestingLeft = MaxTotalNesting - journey.depth[0]
  /\ exceeded = IF nestingLeft < 0 THEN "levels" ELSE "none"
  /\ tasks = IF nestingLeft < 0 THEN <<>> ELSE <<Task(1, 0, 1)>>
  /\ channel = <<>> /\ product = <<>>

\* The first bound that entering the step would exceed.
Met(task) ==
  LET i == task.step IN
  IF StepKind(i) # "raw" /\ workLeft = 0 THEN "work"
  ELSE IF StepKind(i) = "payload" /\ openPayloads >= MaxOpenPayloads THEN "payloads"
  ELSE IF StepKind(i) = "payload" /\ journey.depth[i] > nestingLeft THEN "levels"
  ELSE IF Work(i) > workLeft THEN "work"
  ELSE IF StepKind(i) = "hop" /\ task.hops >= MaxRuleNesting THEN "chain"
  ELSE IF descent + Charge(i) > MaxDescent THEN "descent"
  ELSE "none"

\* The top task is polled for the first time.
Enter ==
  /\ tasks # <<>> /\ ~Running.entered /\ exceeded = "none" /\ Met(Running) = "none"
  /\ tasks' = Replaced([Running EXCEPT !.entered = TRUE, !.charge = Charge(Running.step), !.got = <<Running.step>>])
  /\ descent' = descent + Charge(Running.step) /\ workLeft' = workLeft - Work(Running.step)
  /\ nestingLeft' = IF Decodes(Running.step) THEN nestingLeft - journey.depth[Running.step] ELSE nestingLeft
  /\ openPayloads' = IF Decodes(Running.step) THEN openPayloads + 1 ELSE openPayloads
  /\ UNCHANGED <<journey, channel, exceeded, product>>

\* The guards are dropped with the task.
\* Slip: what a level held is not given back.
GivenBack_LevelKept(task) == IF StepKind(task.step) = "level" THEN descent ELSE descent - task.charge
GivenBack(task) == IF task.charge > descent THEN 0 ELSE descent - task.charge
Leave(result) ==
  /\ descent' = GivenBack(Running)
  /\ nestingLeft' = IF Nests(Running) THEN nestingLeft + journey.depth[Running.step] ELSE nestingLeft
  /\ openPayloads' = IF Nests(Running) THEN openPayloads - 1 ELSE openPayloads
  /\ IF Len(tasks) = 1
     THEN tasks' = <<>> /\ product' = <<result>>
     ELSE /\ tasks' = [n \in 1..Len(tasks) - 1 |->
                         IF n = Len(tasks) - 1 THEN [tasks[n] EXCEPT !.got = @ \o result] ELSE tasks[n]]
          /\ UNCHANGED product
  /\ UNCHANGED <<journey, channel>>

\* Once a bound is met no step is entered any more; the tasks below may go on asking.
Refuse ==
  /\ tasks # <<>> /\ ~Running.entered /\ (exceeded # "none" \/ Met(Running) # "none")
  /\ exceeded' = IF exceeded = "none" THEN Met(Running) ELSE exceeded
  /\ UNCHANGED workLeft /\ Leave(<<>>)
Complete ==
  /\ tasks # <<>> /\ Running.entered /\ channel = <<>>
  /\ Running.next > journey.last[Running.step] \/ exceeded # "none"
  /\ UNCHANGED <<workLeft, exceeded>> /\ Leave(Running.got)

Asks == tasks # <<>> /\ Running.entered /\ channel = <<>> /\ Running.next <= journey.last[Running.step]
\* Slip: the steps below the one asked for are asked for again.
Asked_Below == Replaced([Running EXCEPT !.next = Running.next + 1])
Asked == Replaced([Running EXCEPT !.next = journey.last[Running.next] + 1])
\* run_above: the task is asked for and its requester suspended.
RunAbove ==
  /\ Asks /\ ~Decodes(Running.step)
  /\ channel' = <<Task(Running.next, HopsBelow(Running), Running.driver)>> /\ tasks' = Asked
  /\ UNCHANGED <<journey, budgets, product>>
\* run_root: a driver starts on top of the task that has the payload.
RunRoot ==
  /\ Asks /\ Decodes(Running.step)
  /\ tasks' = Append(Asked, Task(Running.next, 0, Running.driver + 1))
  /\ UNCHANGED <<journey, channel, budgets, product>>
\* drive: what was asked for is taken and runs next.
Drive ==
  /\ channel # <<>> /\ channel' = <<>> /\ tasks' = Append(tasks, channel[1])
  /\ UNCHANGED <<journey, budgets, product>>

WalkNext == Enter \/ Refuse \/ Complete \/ RunAbove \/ RunRoot \/ Drive
WalkSpec == WalkInit /\ [][WalkNext]_walkVars

\* ---- what recursion over the steps would do ----

Steps == DOMAIN journey.last
\* The steps open when step i is entered, itself last.
Path(i) == {j \in 1..i : i <= journey.last[j]}
PayloadsOpen(i) == {j \in Path(i) \ {i} : StepKind(j) = "payload"}
ReferencesOpen(i) ==
  {j \in Path(i) \ {i} : StepKind(j) = "hop" /\ \A k \in Path(i) : k > j => StepKind(k) \in {"hop", "argument", "plain"}}
StepFits(i) ==
  /\ MapThenSumSet(Charge, Path(i)) <= MaxDescent
  /\ StepKind(i) = "payload" =>
       /\ Cardinality(PayloadsOpen(i)) < MaxOpenPayloads
       /\ journey.depth[0] + MapThenSumSet(LAMBDA j : journey.depth[j], PayloadsOpen(i) \cup {i}) <= MaxTotalNesting
  /\ StepKind(i) = "hop" => Cardinality(ReferencesOpen(i)) < MaxRuleNesting
WalkFits ==
  /\ journey.depth[0] <= MaxTotalNesting /\ MapThenSumSet(Work, Steps) <= MaxWork
  /\ \A i \in Steps : StepFits(i)

\* A walk is refused exactly when it has more steps than are allowed for, or one to which
\* the way from the root holds more than a budget: what was walked beside that way never
\* counts (drive, run_above, run_root; the guards of limits.rs).
WalkExact == tasks = <<>> => (exceeded = "none" <=> WalkFits)

\* However a walk ends, no task that was interrupted, refused or nested in a payload leaves
\* a charge behind; and one that is not refused has taken every step, the results put
\* together in the order of recursion.
WalkReturns ==
  tasks = <<>> =>
    /\ exceeded = "none" => product = <<[i \in Steps |-> i]>>
    /\ descent = 0 /\ openPayloads = 0 /\ nestingLeft = MaxTotalNesting - journey.depth[0]
===============================================================================
