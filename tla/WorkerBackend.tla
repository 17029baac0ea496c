---------------------------- MODULE WorkerBackend ----------------------------
(***************************************************************************)
(* createWorkerBackend (ts/worker/workerBackend.ts) with the worker it     *)
(* talks to (ts/worker/serve.ts) and the clocks and messages between them. *)
(*                                                                         *)
(* The host is JavaScript: a handler runs to completion.  A handler here   *)
(* is one action, or, when it ends in pump(), an action followed by the    *)
(* turns of pump's loop, during which pc # "idle" and nothing else of the  *)
(* host can run.  The worker runs beside the host; what it does while a    *)
(* handler runs is indistinguishable from doing it before or after, so it  *)
(* moves when pc = "idle" only.                                            *)
(*                                                                         *)
(* A clock is a countdown.  A timer whose countdown is over fires at any   *)
(* later time: other handlers may run first, as in an event loop.          *)
(***************************************************************************)
EXTENDS Integers, Sequences

CONSTANTS
  MaxCalls,      \* bound: calls a host makes, numbered in the order of nextId
  Warmers,       \* warm() callers
  Fns,           \* wasm functions
  Budgets,       \* deadlines a call may have; Infinity for none
  MIN_TURN,      \* margin to start a call on a worker that has run its function
  COLD_TURN, COLD_TURN_FLOOR, ColdShare, \* margin on one that has not: budget / ColdShare, within these
  LoadTimeout,   \* loadTimeoutMs; Infinity for none
  MaxFailures,   \* maxConsecutiveFailures
  RetryAfter,    \* retryAfterMs
  HasFallback,   \* transport.fallback is given
  Abortable,     \* calls made with an AbortSignal
  Disposable,    \* the host may call dispose()
  Faults         \* what may go wrong: a subset of FaultKinds

FaultKinds == {"spawnThrows", "loadError", "crash", "trap", "argsClone", "resultClone",
               "postThrows", "late", "silentLoad", "silent", "fallbackFails", "turnedAway"}

Infinity == -1   \* of a deadline: none
Off == -1        \* of the load timer: not armed
NoCall == 0
Calls == 1..MaxCalls

ASSUME ConstantsAssumption ==
  /\ MaxCalls \in Nat /\ MaxFailures \in Nat \ {0} /\ ColdShare \in Nat \ {0}
  /\ MIN_TURN \in Nat \ {0} /\ COLD_TURN \in Nat /\ COLD_TURN_FLOOR \in Nat
  /\ MIN_TURN <= COLD_TURN_FLOOR /\ COLD_TURN_FLOOR <= COLD_TURN
  /\ Budgets \subseteq (Nat \ {0}) \cup {Infinity}
  /\ LoadTimeout \in (Nat \ {0}) \cup {Infinity}
  /\ RetryAfter \in Nat \cup {Infinity}
  /\ HasFallback \in BOOLEAN /\ Disposable \in BOOLEAN
  /\ Abortable \subseteq Calls /\ Faults \subseteq FaultKinds

VARIABLES
  pc,         \* "idle", or where the running handler is: "pump", "start", "drop", "answer", "waiters"
  after,      \* what the handler does when pump returns: "idle" (nothing), "clock" (callRaw), "waiters" (loadFailed)
  next,       \* the call pump has shifted off the queue
  queue, inFlight,
  worker,     \* "none" (null), "loading" (!moduleReady) or "ready"
  gen, loadLeft, ranHere,
  refd,       \* workerRefd: "unset" (null), "ref" or "unref"
  failures, failureKind, forced, coolLeft,  \* consecutiveFailures, lastFailureKind, cooldownForced, what is left of retryAfterMs
  disposed,
  warm,       \* per warm() caller: "new", "waiting" (in readyWaiters), "preparing" (on the fallback), "resolved", "rejected"
  fallback,   \* the fallbackBackend promise: "none", "building" or "built"
  submitted,  \* callRaw calls made so far
  fn, budget, left, ticking, waited,        \* per PendingCall: fn, budgetMs, remainingMs or deadline - now, timer # null, waitedMs
  phase,      \* per call: "new", "held" (by the scheduler), "handed" (to the fallback promise), "onFallback", or its outcome
  aborted,    \* the calls whose signal has fired
  proc,       \* the current worker's thread: "none", "loading", "ready", "running", "poisoned", "broken" (load failed),
              \* "dead" (or hung) with its module loaded, "stillborn" without
  inbox,      \* ids of the requests posted to it and not answered
  wire,       \* messages posted to the host, not yet delivered
  runs,       \* history: how often each call's function was entered
  overtaken   \* history: calls put back by a failed load though their worker had loaded, of which the host had not heard

queueVars == <<queue, inFlight, next>>
workerVars == <<worker, gen, loadLeft, ranHere>>
failureVars == <<failures, failureKind, forced, coolLeft>>
callVars == <<submitted, fn, budget, left, ticking, waited, phase, aborted>>
procVars == <<proc, inbox, wire>>
records == <<runs, overtaken>>
vars == <<pc, after, queueVars, workerVars, refd, failureVars, disposed, warm, fallback, callVars, procVars, records>>

Answers == {"value", "error", "clone"}
Outcomes == Answers \cup {"notStarted", "abandoned", "aborted", "refused", "unavailable", "fallbackError", "undefined"}
Outstanding == {"held", "handed", "onFallback"}
Message == [gen : Nat, type : Answers \cup {"fatal", "loaded", "loadError", "died"}, call : Calls \cup {NoCall}]

Waiting == {w \in Warmers : warm[w] = "waiting"}
Queued == {queue[i] : i \in 1..Len(queue)}

-----------------------------------------------------------------------------
(* Deadlines. *)

Smaller(a, b) == IF a < b THEN a ELSE b
Larger(a, b) == IF a > b THEN a ELSE b

MinTurn(b, isWarm) ==
  Smaller(IF isWarm THEN MIN_TURN ELSE Larger(COLD_TURN_FLOOR, Smaller(COLD_TURN, b \div ColdShare)), b)

\* Slip: the wider margin of a function this worker has not run is forgotten.
OutOfTime_NoColdMargin(c, isWarm) == budget[c] # Infinity /\ left[c] < MinTurn(budget[c], TRUE)
OutOfTime(c, isWarm) == budget[c] # Infinity /\ left[c] < MinTurn(budget[c], isWarm)

\* Slip: the timer is never armed.
Running_Never(tk, c) == tk

\* Clocks after runClock(c), after pauseClock(c) or clearClock(c), and after runClock of a whole queue.
Running(tk, c) == [tk EXCEPT ![c] = budget[c] # Infinity]
Stopped(tk, c) == [tk EXCEPT ![c] = FALSE]
Resumed == [c \in Calls |-> ticking[c] \/ (c \in Queued \cup {inFlight} /\ budget[c] # Infinity)]
Paused == [c \in Calls |-> ticking[c] /\ c \notin Queued]

\* markStarted: how much of the deadline went on waiting.
Started(c) == IF budget[c] = Infinity THEN waited ELSE [waited EXCEPT ![c] = budget[c] - left[c]]

\* settle(c, outcome): a settled call has no clock.
Settle(c, outcome) == /\ phase' = [phase EXCEPT ![c] = outcome]
                      /\ ticking' = Stopped(ticking, c)

\* Slip: the index is taken one too far, and nothing is removed.
Splice_OneTooFar(i) == SubSeq(queue, 1, i) \o SubSeq(queue, i + 1, Len(queue))

\* splice() of one call out of the queue, at its index or wherever it is.
Splice(i) == SubSeq(queue, 1, i - 1) \o SubSeq(queue, i + 1, Len(queue))
Without(c) == IF c \in Queued THEN Splice(CHOOSE i \in 1..Len(queue) : queue[i] = c) ELSE queue

\* Slip: the absence of a deadline is counted down like a deadline.
Countdown_Endless(t) == t - 1

\* One time unit passes for every running clock.
Countdown(t) == IF t > 0 THEN t - 1 ELSE t
Tick == /\ pc = "idle"
        /\ \/ \E c \in Calls : ticking[c] /\ left[c] > 0
           \/ loadLeft > 0
           \/ coolLeft > 0
        /\ left' = [c \in Calls |-> IF ticking[c] THEN Countdown(left[c]) ELSE left[c]]
        /\ loadLeft' = Countdown(loadLeft)
        /\ coolLeft' = Countdown(coolLeft)
        /\ UNCHANGED <<pc, after, queueVars, worker, gen, ranHere, refd, failures, failureKind, forced, disposed,
                       warm, fallback, submitted, fn, budget, ticking, waited, phase, aborted, procVars, records>>

-----------------------------------------------------------------------------
(* Worker lifecycle. *)

RecordFailure(kind) == /\ failures' = failures + 1
                       /\ failureKind' = kind
                       /\ coolLeft' = RetryAfter

\* coolingDown(): its answer, and the reset it makes when the cooldown is over.
Tripped == failures >= MaxFailures \/ forced
CoolingDown == Tripped /\ coolLeft # 0
CooldownOver == IF Tripped /\ coolLeft = 0
                THEN failures' = 0 /\ forced' = FALSE
                ELSE UNCHANGED <<failures, forced>>

\* A timeout or a trap is the call's own cost: not a worker failure.
NotAFailure == UNCHANGED failureVars

FallbackApplies(kind) == HasFallback /\ kind = "start"

\* Slip: warm() callers do not count.
Busy_CallsOnly == inFlight # NoCall \/ queue # <<>>

\* syncRef(): a worker keeps the process alive while something waits on it.
Busy == inFlight # NoCall \/ queue # <<>> \/ Waiting # {}
SyncRef == refd' = IF worker' = "none" THEN "unset" ELSE IF Busy' THEN "ref" ELSE "unref"

\* Slip: the load timer of a worker that is gone stays armed.
DiscardWorker_TimerLeft == /\ worker' = "none"
                           /\ gen' = gen + 1
                           /\ ranHere' = {}
                           /\ refd' = "unset"
                           /\ proc' = "none"
                           /\ inbox' = <<>>
                           /\ UNCHANGED loadLeft
DiscardWorker == /\ worker' = "none"
                 /\ gen' = gen + 1
                 /\ loadLeft' = Off
                 /\ ranHere' = {}
                 /\ refd' = "unset"
                 /\ proc' = "none"
                 /\ inbox' = <<>>

\* What is left of the wire once the worker's listeners are off: a host whose
\* unsubscribe does not stop deliveries under way ("late") still sees them.
Undelivered(w) == IF "late" \in Faults THEN w ELSE <<>>

\* ensureWorker() spawning: a loading worker, the queue's clocks stopped.  The
\* calls out of time are dropped next (pc = "drop"), before the handler goes on.
Spawn == /\ ~CoolingDown
         /\ worker' = "loading"
         /\ refd' = "unset"
         /\ proc' = "loading"
         /\ inbox' = <<>>
         /\ loadLeft' = LoadTimeout
         /\ ticking' = Paused
         /\ CooldownOver
         /\ pc' = "drop"
         /\ UNCHANGED <<after, queueVars, gen, ranHere, failureKind, coolLeft, disposed, warm, fallback,
                        submitted, fn, budget, left, waited, phase, aborted, wire, records>>

\* ensureWorker() answering null: cooling down, or spawn() throws.
NoWorker == \/ CoolingDown /\ UNCHANGED failureVars
            \/ /\ ~CoolingDown /\ "spawnThrows" \in Faults
               /\ failures' = (IF Tripped THEN 0 ELSE failures) + 1
               /\ forced' = FALSE
               /\ failureKind' = "start"
               /\ coolLeft' = RetryAfter

\* dropOutOfTime(first), one call of its loop at a time.
First == IF next = NoCall THEN {} ELSE {fn[next]}
RunsAhead(i) == \/ fn[queue[i]] \in ranHere \cup First
                \/ \E j \in 1..(i - 1) : fn[queue[j]] = fn[queue[i]] /\ ~OutOfTime(queue[j], FALSE)
TooLate(i) == OutOfTime(queue[i], RunsAhead(i))

DropOutOfTime ==
  /\ pc = "drop"
  /\ \E i \in 1..Len(queue) :
       /\ TooLate(i)
       /\ \A j \in 1..(i - 1) : ~TooLate(j)
       /\ queue' = Splice(i)
       /\ Settle(queue[i], "notStarted")
  /\ UNCHANGED <<pc, after, inFlight, next, workerVars, refd, failureVars, disposed, warm, fallback,
                 submitted, fn, budget, left, waited, aborted, procVars, records>>

DropDone == /\ pc = "drop"
            /\ \A i \in 1..Len(queue) : ~TooLate(i)
            /\ pc' = IF next = NoCall THEN "idle" ELSE "start"
            /\ UNCHANGED <<after, queueVars, workerVars, failureVars, disposed, warm, fallback, callVars, procVars, records>>
            /\ SyncRef

-----------------------------------------------------------------------------
(* pump(): one turn of its loop after another. *)

\* Slip: every worker is taken for cold.
RanHere_Never(c) == FALSE

\* The present worker has run the call's function.
RanHere(c) == fn[c] \in ranHere

\* shift() the head of the queue; with too little left of its deadline it never runs.
PumpTake ==
  /\ pc = "pump" /\ ~disposed /\ inFlight = NoCall /\ queue # <<>>
  /\ queue' = Tail(queue)
  /\ LET c == Head(queue) IN
     \/ /\ OutOfTime(c, RanHere(c))
        /\ Settle(c, "notStarted")
        /\ UNCHANGED <<pc, next>>
     \/ /\ ~OutOfTime(c, RanHere(c))
        /\ pc' = "start"
        /\ next' = c
        /\ UNCHANGED <<phase, ticking>>
  /\ UNCHANGED <<after, inFlight, workerVars, refd, failureVars, disposed, warm, fallback,
                 submitted, fn, budget, left, waited, aborted, procVars, records>>

PumpSpawn == pc = "start" /\ worker = "none" /\ Spawn

\* No worker to be had: the call goes to the fallback (its clock stopped for good) or is refused.
PumpWithoutWorker ==
  /\ pc = "start" /\ worker = "none"
  /\ NoWorker
  /\ IF FallbackApplies(failureKind')
     THEN /\ Settle(next, "handed")
          /\ fallback' = IF fallback = "none" THEN "building" ELSE fallback
     ELSE Settle(next, "unavailable") /\ UNCHANGED fallback
  /\ pc' = "pump"
  /\ next' = NoCall
  /\ UNCHANGED <<after, queue, inFlight, workerVars, refd, disposed, warm,
                 submitted, fn, budget, left, waited, aborted, procVars, records>>

\* The call is posted; its clock runs from now, or from `loaded` on a loading worker.
PumpPost ==
  /\ pc = "start" /\ worker # "none"
  /\ inFlight' = next
  /\ inbox' = Append(inbox, next)
  /\ IF worker = "loading"
     THEN ticking' = Stopped(ticking, next) /\ UNCHANGED waited
     ELSE ticking' = Running(ticking, next) /\ waited' = Started(next)
  /\ pc' = "pump"
  /\ next' = NoCall
  /\ UNCHANGED <<after, queue, workerVars, refd, failureVars, disposed, warm, fallback,
                 submitted, fn, budget, left, phase, aborted, proc, wire, records>>

\* postMessage throws DataCloneError: the caller's arguments; the worker stays.
PumpRefuseArgs ==
  /\ pc = "start" /\ worker # "none" /\ "argsClone" \in Faults
  /\ Settle(next, "refused")
  /\ pc' = "pump"
  /\ next' = NoCall
  /\ UNCHANGED <<after, queue, inFlight, workerVars, refd, failureVars, disposed, warm, fallback,
                 submitted, fn, budget, left, waited, aborted, procVars, records>>

\* postMessage throws anything else: the worker is unusable.
PumpPostThrows ==
  /\ pc = "start" /\ worker # "none" /\ "postThrows" \in Faults
  /\ RecordFailure("start")
  /\ DiscardWorker
  /\ wire' = Undelivered(wire)
  /\ Settle(next, "unavailable")
  /\ pc' = "pump"
  /\ next' = NoCall
  /\ UNCHANGED <<after, queue, inFlight, forced, disposed, warm, fallback,
                 submitted, fn, budget, left, waited, aborted, records>>

\* Slip: an `if` for the `while`: pump takes one turn at most.
PumpOver_AtOnce == TRUE

\* The condition of the loop no longer holds.
PumpOver == disposed \/ inFlight # NoCall \/ queue = <<>>

\* Slip: nobody looks after the warm() callers of a worker that failed to load.
WaitersStranded_Never == FALSE

\* warm() callers left with nothing to wait for.
WaitersStranded == worker = "none" /\ Waiting # {}

\* The loop ends; callRaw starts the clock of a call still queued, loadFailed
\* turns to the warm() callers left without a worker.
PumpDone ==
  /\ pc = "pump" /\ PumpOver
  /\ ticking' = IF after = "clock" /\ worker # "loading" /\ submitted \in Queued
                THEN Running(ticking, submitted) ELSE ticking
  /\ pc' = IF after = "waiters" /\ WaitersStranded THEN "waiters" ELSE "idle"
  /\ after' = "idle"
  /\ UNCHANGED <<queueVars, workerVars, failureVars, disposed, warm, fallback,
                 submitted, fn, budget, left, waited, phase, aborted, procVars, records>>
  /\ SyncRef

WaitersSpawn == pc = "waiters" /\ Spawn

\* settleWaitersWithoutWorker()
WaitersWithoutWorker ==
  /\ pc = "waiters"
  /\ NoWorker
  /\ warm' = [w \in Warmers |-> IF w \notin Waiting THEN warm[w]
                                ELSE IF FallbackApplies(failureKind') THEN "preparing" ELSE "rejected"]
  /\ fallback' = IF FallbackApplies(failureKind') /\ fallback = "none" THEN "building" ELSE fallback
  /\ pc' = "idle"
  /\ UNCHANGED <<after, queueVars, workerVars, refd, disposed, callVars, procVars, records>>

Handler == \/ DropOutOfTime \/ DropDone
           \/ PumpTake \/ PumpSpawn \/ PumpWithoutWorker \/ PumpPost \/ PumpRefuseArgs \/ PumpPostThrows \/ PumpDone
           \/ WaitersSpawn \/ WaitersWithoutWorker

-----------------------------------------------------------------------------
(* The public surface. *)

CallRaw(f, b) ==
  /\ pc = "idle" /\ ~disposed /\ submitted < MaxCalls
  /\ LET c == submitted + 1 IN
     /\ submitted' = c
     /\ fn' = [fn EXCEPT ![c] = f]
     /\ budget' = [budget EXCEPT ![c] = b]
     /\ left' = [left EXCEPT ![c] = b]
     /\ phase' = [phase EXCEPT ![c] = "held"]
     /\ queue' = Append(queue, c)
  /\ pc' = "pump"
  /\ after' = "clock"
  /\ UNCHANGED <<inFlight, next, workerVars, refd, failureVars, disposed, warm, fallback,
                 ticking, waited, aborted, procVars, records>>

\* Turned away at the door: disposed of, input over budget, or the signal already fired.
CallRawTurnedAway ==
  /\ pc = "idle" /\ submitted < MaxCalls
  /\ LET c == submitted + 1 IN
     /\ submitted' = c
     /\ \/ disposed /\ phase' = [phase EXCEPT ![c] = "unavailable"] /\ UNCHANGED aborted
        \/ /\ ~disposed /\ "turnedAway" \in Faults
           /\ phase' = [phase EXCEPT ![c] = "refused"] /\ UNCHANGED aborted
        \/ /\ ~disposed /\ c \in Abortable
           /\ phase' = [phase EXCEPT ![c] = "aborted"] /\ aborted' = aborted \cup {c}
  /\ UNCHANGED <<pc, after, queueVars, workerVars, refd, failureVars, disposed, warm, fallback,
                 fn, budget, left, ticking, waited, procVars, records>>

\* dropQueued() drops a call only while it is queued.
Droppable(c) == c \in Queued

\* The call's AbortSignal fires.
Abort(c) ==
  /\ pc = "idle" /\ c \in Abortable \ aborted /\ phase[c] \in Outstanding
  /\ aborted' = aborted \cup {c}
  /\ IF Droppable(c)
     THEN queue' = Without(c) /\ Settle(c, "aborted")
     ELSE UNCHANGED <<queue, phase, ticking>>
  /\ UNCHANGED <<pc, after, inFlight, next, workerVars, failureVars, disposed, warm, fallback,
                 submitted, fn, budget, left, waited, procVars, records>>
  /\ IF Droppable(c) THEN SyncRef ELSE UNCHANGED refd

Warm(w) ==
  /\ pc = "idle" /\ warm[w] = "new"
  /\ warm' = [warm EXCEPT ![w] = IF disposed THEN "rejected" ELSE IF worker = "ready" THEN "resolved" ELSE "waiting"]
  /\ pc' = IF ~disposed /\ worker = "none" THEN "waiters" ELSE "idle"
  /\ UNCHANGED <<after, queueVars, workerVars, failureVars, disposed, fallback, callVars, procVars, records>>
  /\ IF warm'[w] = "waiting" THEN SyncRef ELSE UNCHANGED refd

\* Slip: the call in flight is forgotten.
Rejected_Queued == Queued

\* What dispose() rejects.
Rejected == Queued \cup ({inFlight} \ {NoCall})

Dispose ==
  /\ Disposable /\ pc = "idle" /\ ~disposed
  /\ disposed' = TRUE
  /\ phase' = [c \in Calls |-> IF c \in Rejected THEN "unavailable" ELSE phase[c]]
  /\ ticking' = [c \in Calls |-> ticking[c] /\ c \notin Rejected]
  /\ queue' = <<>>
  /\ inFlight' = NoCall
  /\ warm' = [w \in Warmers |-> IF w \in Waiting THEN "rejected" ELSE warm[w]]
  /\ DiscardWorker
  /\ wire' = Undelivered(wire)
  /\ UNCHANGED <<pc, after, next, failureVars, fallback, submitted, fn, budget, left, waited, aborted, records>>

-----------------------------------------------------------------------------
(* Timers. *)

\* Slip: a call put back goes to the end of the queue.
Requeued_AtTheEnd == IF inFlight = NoCall THEN queue ELSE Append(queue, inFlight)

\* The queue once the call in flight is back at its head.
Requeued == IF inFlight = NoCall THEN queue ELSE <<inFlight>> \o queue

\* The worker's module has loaded, and the host has not heard of it.
Unheard == worker = "loading" /\ proc \in {"ready", "running", "poisoned", "dead"}

\* loadFailed()
LoadFailed(timedOut) ==
  /\ RecordFailure("start")
  /\ forced' = (forced \/ timedOut)
  /\ inFlight' = NoCall
  /\ queue' = Requeued
  /\ DiscardWorker
  /\ pc' = "pump"
  /\ after' = "waiters"
  /\ overtaken' = IF Unheard /\ inFlight # NoCall THEN overtaken \cup {inFlight} ELSE overtaken
  /\ UNCHANGED <<next, disposed, warm, fallback, callVars, runs>>

LoadTimedOut == /\ pc = "idle" /\ loadLeft = 0
                /\ LoadFailed(TRUE)
                /\ wire' = Undelivered(wire)

ExpireRunning(c) ==
  /\ pc = "idle" /\ ticking[c] /\ left[c] = 0 /\ inFlight = c
  /\ inFlight' = NoCall
  /\ DiscardWorker
  /\ wire' = Undelivered(wire)
  /\ Settle(c, "abandoned")
  /\ pc' = "pump"
  /\ NotAFailure
  /\ UNCHANGED <<after, queue, next, disposed, warm, fallback,
                 submitted, fn, budget, left, waited, aborted, records>>

ExpireQueued(c) ==
  /\ pc = "idle" /\ ticking[c] /\ left[c] = 0 /\ inFlight # c
  /\ queue' = Without(c)
  /\ Settle(c, "notStarted")
  /\ UNCHANGED <<pc, after, inFlight, next, workerVars, failureVars, disposed, warm, fallback,
                 submitted, fn, budget, left, waited, aborted, procVars, records>>
  /\ SyncRef

-----------------------------------------------------------------------------
(* Messages and errors from the worker: receive() and workerFailed(). *)

\* Slip: the generation of a message is not looked at.
Current_AnyWorker(m) == ~disposed

\* A message is for the present worker: replies of one that was replaced are dropped.
Current(m) == m.gen = gen /\ ~disposed

\* moduleLoaded(): deadlines resume; the wait so far was the load, not the call.
ModuleLoaded ==
  /\ worker' = "ready"
  /\ failures' = 0
  /\ forced' = FALSE
  /\ loadLeft' = Off
  /\ waited' = IF inFlight = NoCall THEN waited ELSE Started(inFlight)
  /\ ticking' = Resumed
  /\ warm' = [w \in Warmers |-> IF w \in Waiting THEN "resolved" ELSE warm[w]]
  /\ UNCHANGED <<after, queueVars, gen, ranHere, failureKind, coolLeft, disposed, fallback,
                 submitted, fn, budget, left, phase, aborted, proc, inbox, records>>
  /\ SyncRef

ReceiveLoaded ==
  /\ pc = "idle" /\ wire # <<>> /\ Current(Head(wire))
  /\ Head(wire).type = "loaded" /\ worker = "loading"
  /\ wire' = Tail(wire)
  /\ ModuleLoaded
  /\ UNCHANGED pc

\* Slip: any death of a worker is taken for a failed load, and its call replayed.
DiedLoading_Any(m) == m.type = "died"

\* An error of the worker before its module loaded is a load failure.
DiedLoading(m) == m.type = "died" /\ worker = "loading"

ReceiveLoadError ==
  /\ pc = "idle" /\ wire # <<>> /\ Current(Head(wire))
  /\ \/ Head(wire).type = "loadError"
     \/ DiedLoading(Head(wire))
  /\ wire' = Undelivered(Tail(wire))
  /\ LoadFailed(FALSE)

\* The worker died after its module loaded: the running call is reported, nothing is replayed.
ReceiveCrash ==
  /\ pc = "idle" /\ wire # <<>> /\ Current(Head(wire))
  /\ Head(wire).type = "died" /\ worker = "ready"
  /\ wire' = Undelivered(Tail(wire))
  /\ RecordFailure("crash")
  /\ DiscardWorker
  /\ inFlight' = NoCall
  /\ IF inFlight = NoCall THEN UNCHANGED <<phase, ticking>> ELSE Settle(inFlight, "unavailable")
  /\ pc' = "pump"
  /\ UNCHANGED <<after, queue, next, forced, disposed, warm, fallback,
                 submitted, fn, budget, left, waited, aborted, records>>

IsAnswer(m) == m.type \in Answers \cup {"fatal"}

\* An answer means the module is loaded, even if `loaded` was never posted.
ReceiveFirstAnswer ==
  /\ pc = "idle" /\ wire # <<>> /\ Current(Head(wire)) /\ IsAnswer(Head(wire)) /\ worker = "loading"
  /\ ModuleLoaded
  /\ pc' = "answer"
  /\ UNCHANGED wire

\* Slip: an instance that trapped is kept.
Poisons_Never(m) == FALSE

\* A trap poisons the wasm instance: its worker goes.
Poisons(m) == m.type = "fatal"

ReceiveAnswer ==
  /\ pc \in {"idle", "answer"} /\ wire # <<>> /\ Current(Head(wire)) /\ IsAnswer(Head(wire)) /\ worker = "ready"
  /\ Head(wire).call = inFlight
  /\ inFlight' = NoCall
  /\ Settle(inFlight, IF Head(wire).type = "fatal" THEN "error" ELSE Head(wire).type)
  /\ IF Poisons(Head(wire))
     THEN DiscardWorker /\ wire' = Undelivered(Tail(wire))
     ELSE /\ ranHere' = ranHere \cup {fn[inFlight]}
          /\ wire' = Tail(wire)
          /\ UNCHANGED <<worker, gen, loadLeft, refd, proc, inbox>>
  /\ pc' = "pump"
  /\ NotAFailure
  /\ UNCHANGED <<after, queue, next, disposed, warm, fallback,
                 submitted, fn, budget, left, waited, aborted, records>>

\* A late message of a replaced worker, or an answer nobody waits for.
Unwanted(m) == ~Current(m) \/ (IsAnswer(m) /\ worker = "ready" /\ m.call # inFlight)

IgnoreMessage ==
  /\ pc \in {"idle", "answer"} /\ wire # <<>> /\ Unwanted(Head(wire))
  /\ wire' = Tail(wire)
  /\ pc' = "idle"
  /\ UNCHANGED <<after, queueVars, workerVars, refd, failureVars, disposed, warm, fallback, callVars, proc, inbox, records>>

-----------------------------------------------------------------------------
(* The worker: serveWasm. *)

Posted(type, c) == wire' = Append(wire, [gen |-> gen, type |-> type, call |-> c])

HostUnchanged == UNCHANGED <<pc, after, queueVars, workerVars, refd, failureVars, disposed, warm, fallback, callVars>>

WorkerLoads == /\ pc = "idle" /\ proc = "loading"
               /\ \/ proc' = "ready" /\ Posted("loaded", NoCall)
                  \/ proc' = "ready" /\ "silentLoad" \in Faults /\ UNCHANGED wire
                  \/ proc' = "broken" /\ "loadError" \in Faults /\ Posted("loadError", NoCall)
               /\ UNCHANGED <<inbox, records>>
               /\ HostUnchanged

\* The function is entered; a poisoned instance would serve just as well as a sound one.
WorkerStarts == /\ pc = "idle" /\ proc \in {"ready", "poisoned"} /\ inbox # <<>>
                /\ proc' = "running"
                /\ runs' = [runs EXCEPT ![Head(inbox)] = @ + 1]
                /\ UNCHANGED <<inbox, wire, overtaken>>
                /\ HostUnchanged

WorkerAnswers == /\ pc = "idle"
                 /\ \/ /\ proc = "running"
                       /\ \/ \E type \in {"value", "error"} : proc' = "ready" /\ Posted(type, Head(inbox))
                          \/ "resultClone" \in Faults /\ proc' = "ready" /\ Posted("clone", Head(inbox))
                          \/ "trap" \in Faults /\ proc' = "poisoned" /\ Posted("fatal", Head(inbox))
                    \/ proc = "broken" /\ inbox # <<>> /\ Posted("fatal", Head(inbox)) /\ UNCHANGED proc
                 /\ inbox' = Tail(inbox)
                 /\ UNCHANGED records
                 /\ HostUnchanged

\* The worker dies, or hangs for good: a hang and an exit with code 0 are not reported.
WorkerCrashes == /\ pc = "idle" /\ proc \notin {"none", "dead", "stillborn"}
                 /\ proc' = IF proc \in {"loading", "broken"} THEN "stillborn" ELSE "dead"
                 /\ \/ "crash" \in Faults /\ Posted("died", NoCall)
                    \/ "silent" \in Faults /\ UNCHANGED wire
                 /\ UNCHANGED <<inbox, records>>
                 /\ HostUnchanged

-----------------------------------------------------------------------------
(* The fallback: a promise of a LibBackend, typically the in-process one. *)

FallbackBuilt == /\ pc = "idle" /\ fallback = "building"
                 /\ fallback' = "built"
                 /\ UNCHANGED <<pc, after, queueVars, workerVars, refd, failureVars, disposed, warm, callVars, procVars, records>>

\* A factory that rejects is asked again next time; those who wait on it get its error.
FallbackFails ==
  /\ pc = "idle" /\ fallback = "building" /\ "fallbackFails" \in Faults
  /\ fallback' = "none"
  /\ phase' = [c \in Calls |-> IF phase[c] = "handed" THEN "fallbackError" ELSE phase[c]]
  /\ warm' = [w \in Warmers |-> IF warm[w] = "preparing" THEN "rejected" ELSE warm[w]]
  /\ UNCHANGED <<pc, after, queueVars, workerVars, refd, failureVars, disposed,
                 submitted, fn, budget, left, ticking, waited, aborted, procVars, records>>

FallbackProgress(c) ==
  /\ pc = "idle" /\ phase[c] \in {"handed", "onFallback"}
  /\ \/ /\ phase[c] = "handed" /\ fallback = "built"
        /\ phase' = [phase EXCEPT ![c] = IF disposed THEN "undefined" ELSE "onFallback"]
        /\ UNCHANGED runs
     \/ /\ phase[c] = "onFallback"
        /\ \/ /\ \E o \in {"value", "error"} : phase' = [phase EXCEPT ![c] = o]
              /\ runs' = [runs EXCEPT ![c] = @ + 1]
           \/ c \in aborted /\ phase' = [phase EXCEPT ![c] = "aborted"] /\ UNCHANGED runs
  /\ UNCHANGED <<pc, after, queueVars, workerVars, refd, failureVars, disposed, warm, fallback,
                 submitted, fn, budget, left, ticking, waited, aborted, procVars, overtaken>>

WarmPrepared(w) == /\ pc = "idle" /\ warm[w] = "preparing" /\ fallback = "built"
                   /\ warm' = [warm EXCEPT ![w] = "resolved"]
                   /\ UNCHANGED <<pc, after, queueVars, workerVars, refd, failureVars, disposed, fallback, callVars, procVars, records>>

-----------------------------------------------------------------------------
Init ==
  /\ pc = "idle" /\ after = "idle" /\ next = NoCall
  /\ queue = <<>> /\ inFlight = NoCall
  /\ worker = "none" /\ gen = 0 /\ loadLeft = Off /\ ranHere = {} /\ refd = "unset"
  /\ failures = 0 /\ failureKind = "start" /\ forced = FALSE /\ coolLeft = 0
  /\ disposed = FALSE
  /\ warm = [w \in Warmers |-> "new"]
  /\ fallback = "none"
  /\ submitted = 0
  /\ fn = [c \in Calls |-> "unset"] /\ budget = [c \in Calls |-> Infinity] /\ left = [c \in Calls |-> Infinity]
  /\ ticking = [c \in Calls |-> FALSE] /\ waited = [c \in Calls |-> 0]
  /\ phase = [c \in Calls |-> "new"] /\ aborted = {}
  /\ proc = "none" /\ inbox = <<>> /\ wire = <<>>
  /\ runs = [c \in Calls |-> 0] /\ overtaken = {}

Host == \/ \E f \in Fns, b \in Budgets : CallRaw(f, b)
        \/ CallRawTurnedAway
        \/ \E c \in Calls : Abort(c)
        \/ \E w \in Warmers : Warm(w)
        \/ Dispose

Timers == LoadTimedOut \/ \E c \in Calls : ExpireRunning(c) \/ ExpireQueued(c)

Receive == ReceiveLoaded \/ ReceiveLoadError \/ ReceiveCrash \/ ReceiveFirstAnswer \/ ReceiveAnswer \/ IgnoreMessage

Worker == WorkerLoads \/ WorkerStarts \/ WorkerAnswers \/ WorkerCrashes

Fallback == \/ FallbackBuilt \/ FallbackFails
            \/ \E c \in Calls : FallbackProgress(c)
            \/ \E w \in Warmers : WarmPrepared(w)

Next == Handler \/ Host \/ Timers \/ Receive \/ Worker \/ Fallback \/ Tick

Spec == Init /\ [][Next]_vars

\* The host's event loop: handlers end, time passes, timers fire.
HostFairness == /\ WF_vars(Handler)
                /\ WF_vars(Tick)
                /\ WF_vars(LoadTimedOut)
                /\ \A c \in Calls : WF_vars(ExpireRunning(c)) /\ WF_vars(ExpireQueued(c))

\* A worker that neither died nor hangs gets on with it, and its messages are delivered.
WorkerFairness == WF_vars(WorkerLoads) /\ WF_vars(WorkerStarts) /\ WF_vars(WorkerAnswers) /\ WF_vars(Receive)

FallbackFairness == WF_vars(FallbackBuilt) /\ \A c \in Calls : WF_vars(FallbackProgress(c))
                                           /\ \A w \in Warmers : WF_vars(WarmPrepared(w))

FairSpec == Spec /\ HostFairness /\ WorkerFairness /\ FallbackFairness

-----------------------------------------------------------------------------
(* Properties. *)

\* Of pump() and its queue, of the worker and its failures, of the calls, and of the worker's thread.
SchedulerTypes ==
  /\ pc \in {"idle", "pump", "start", "drop", "answer", "waiters"}
  /\ after \in {"idle", "clock", "waiters"}
  /\ next \in Calls \cup {NoCall} /\ inFlight \in Calls \cup {NoCall} /\ queue \in Seq(Calls)
  /\ disposed \in BOOLEAN
  /\ warm \in [Warmers -> {"new", "waiting", "preparing", "resolved", "rejected"}]
  /\ fallback \in {"none", "building", "built"}
WorkerTypes ==
  /\ worker \in {"none", "loading", "ready"}
  /\ gen \in Nat /\ loadLeft \in Nat \cup {Off} /\ ranHere \subseteq Fns \cup {"unset"}
  /\ refd \in {"unset", "ref", "unref"}
  /\ failures \in Nat /\ failureKind \in {"start", "crash"} /\ forced \in BOOLEAN
  /\ coolLeft \in Nat \cup {Infinity}
CallTypes ==
  /\ submitted \in 0..MaxCalls
  /\ fn \in [Calls -> Fns \cup {"unset"}] /\ budget \in [Calls -> Budgets \cup {Infinity}]
  /\ left \in [Calls -> Nat \cup {Infinity}] /\ ticking \in [Calls -> BOOLEAN] /\ waited \in [Calls -> Int]
  /\ phase \in [Calls -> {"new"} \cup Outstanding \cup Outcomes]
  /\ aborted \subseteq Calls
ProcTypes ==
  /\ proc \in {"none", "loading", "ready", "running", "poisoned", "broken", "dead", "stillborn"}
  /\ inbox \in Seq(Calls) /\ wire \in Seq(Message)
  /\ runs \in [Calls -> Nat] /\ overtaken \subseteq Calls
\* Every variable has its type: no clock, margin, timer or count leaves its range.
TypeOK == SchedulerTypes /\ WorkerTypes /\ CallTypes /\ ProcTypes

\* No call is lost or held twice: a call the scheduler holds is in exactly one
\* of its places, and those hold nothing else (queue, inFlight, pump's `next`).
Accounting ==
  /\ \A c \in Calls : phase[c] = "held" <=> c \in Queued \cup {inFlight, next}
  /\ \A c \in Calls : phase[c] = "new" <=> c > submitted
  /\ \A i, j \in 1..Len(queue) : queue[i] = queue[j] => i = j
  /\ {inFlight, next} \cap Queued = {}
  /\ inFlight = next => next = NoCall

\* Between handlers a call waits only behind another that is with the worker.
WorkConserving == pc = "idle" /\ queue # <<>> => inFlight # NoCall

\* "One call at a time is the host's job" (serve.ts): the present worker holds
\* the request of the call in flight or has answered it, and nothing else.
Answered == {i \in 1..Len(wire) : wire[i].gen = gen /\ IsAnswer(wire[i])}
OneCallAtWorker ==
  /\ inbox # <<>> => inbox = <<inFlight>> /\ Answered = {}
  /\ \A i \in Answered : wire[i].call = inFlight /\ \A j \in Answered : i = j
  /\ inFlight # NoCall <=> inbox # <<>> \/ Answered # {}
  /\ inFlight # NoCall => worker # "none"

\* "A trap poisons the wasm instance": no request ever reaches one.
PoisonNeverServes == proc = "poisoned" => inbox = <<>>
\* The host's promises to the worker, whatever it kills, replaces and hears of late.
WorkerServesOne == OneCallAtWorker /\ PoisonNeverServes

\* "Call budgets must not run before" loaded (protocol.ts), and every deadline
\* runs otherwise: of the calls queued or in flight, and of no other.
ClockDiscipline ==
  pc = "idle" => \A c \in Calls :
    /\ ticking[c] <=> c \in Queued \cup {inFlight} /\ budget[c] # Infinity /\ worker # "loading"
    /\ ticking[c] => proc # "loading"

\* A clock runs only for a call the scheduler holds: no timer fires for a settled one.
ClocksHeld == \A c \in Calls : ticking[c] => phase[c] = "held"

\* What the handlers rely on between their actions.
HandlerShape ==
  /\ next # NoCall => pc \in {"start", "drop"} /\ inFlight = NoCall
  /\ pc = "start" => next # NoCall
  /\ pc = "drop" => worker = "loading" /\ inFlight = NoCall /\ (next = NoCall => queue = <<>>)
  /\ pc = "waiters" => worker = "none" /\ queue = <<>>
  /\ pc = "answer" => worker = "ready" /\ 1 \in Answered
  /\ disposed => pc = "idle" /\ worker = "none" /\ queue = <<>>

\* What the host relies on of the worker and of the messages under way: none
\* is from a worker to come, and a poisoned instance has told of it.
WorkerShape ==
  /\ worker = "none" <=> proc = "none"
  /\ worker = "none" => inFlight = NoCall /\ inbox = <<>>
  /\ loadLeft # Off => worker = "loading"
  /\ \A i \in 1..Len(wire) : wire[i].gen <= gen /\ (worker = "none" => wire[i].gen < gen)
  /\ proc = "running" => inbox # <<>>
  /\ proc = "poisoned" => inbox = <<>> /\ \E i \in Answered : wire[i].type = "fatal"

\* The inductive invariant of the safety proof (WorkerBackend_proofs).
IInv == TypeOK /\ Accounting /\ ClocksHeld /\ WorkConserving /\ OneCallAtWorker /\ HandlerShape /\ WorkerShape

\* A call is on a loaded worker only if it had its margin left when it started.
MarginKept == inFlight # NoCall /\ worker = "ready" /\ budget[inFlight] # Infinity =>
                budget[inFlight] - waited[inFlight] >= MinTurn(budget[inFlight], fn[inFlight] \in ranHere)

\* Calls are served in the order they were made, those put back after a failed load included.
ServedInOrder == /\ \A i, j \in 1..Len(queue) : i < j => queue[i] < queue[j]
                 /\ \A c \in Queued : inFlight < c /\ next < c

\* No call that waits, is handed to the fallback, or is reported as never run has
\* run, however often it was put back: except one whose worker loaded too late to
\* be heard of before its load was given up (loadFailed).
WaitingNeverRan == \A c \in (Queued \cup {d \in Calls : phase[d] \in {"handed", "notStarted", "aborted", "refused"}}) \ overtaken :
                     runs[c] = 0

\* A worker's messages come in the order it posted them: one that says when it has loaded
\* is not taken for a failed load because of what happened after, save by the load timer.
OnlyTimerOvertakes == [][overtaken' # overtaken => LoadTimedOut]_vars

\* "A script that is done exits", and none exits with a call or a warm() still
\* waiting: the worker is ref'd exactly while something waits on it.
RefdWhileBusy == pc = "idle" /\ worker # "none" =>
                   refd = IF Queued \cup Waiting # {} \/ inFlight # NoCall THEN "ref" ELSE "unref"

\* "Resolves to EXACTLY what the function returned" (backend.ts).
NeverResolvesUndefined == \A c \in Calls : phase[c] # "undefined"

\* A call is dropped as never run only with less than its margin left.
DroppedOnlyLate == [][\A c \in Calls : phase[c] = "held" /\ phase'[c] = "notStarted" =>
                        OutOfTime(c, fn[c] \in ranHere)]_vars

\* Every call settles, and every warm(), whatever workers do: only calls without a
\* deadline may wait for ever, behind one of them whose worker died unreported.
Hopeless == inFlight # NoCall /\ proc \in {"dead", "stillborn"} /\ budget[inFlight] = Infinity
CallsSettle == \A c \in Calls : phase[c] \in Outstanding ~> phase[c] \in Outcomes \/ (budget[c] = Infinity /\ Hopeless)
WarmSettles == \A w \in Warmers : warm[w] \in {"waiting", "preparing"} ~> warm[w] \in {"resolved", "rejected"}

\* The contract of callRaw.
Contract == INSTANCE LibBackend WITH
  status <- [c \in Calls |-> IF phase[c] \in Outstanding THEN "pending"
                             ELSE IF phase[c] = "fallbackError" THEN "unavailable" ELSE phase[c]],
  ran <- {c \in Calls : runs[c] > 0},
  lost <- overtaken,
  signalled <- aborted,
  closed <- disposed
\* The worker backend implements LibBackend.
KeepsContract == Contract!Spec

=============================================================================
