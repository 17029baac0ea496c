-------------------------- MODULE InProcessBackend --------------------------
(***************************************************************************)
(* createInProcessBackend (ts/backend.ts) over the wasm module that        *)
(* ts/wasm/load.ts loads once per thread, and the choice of a backend by   *)
(* ts/configure.ts.  Everything runs in one thread: a call runs to its     *)
(* `await load()`, is queued when the load settles, and is resumed in its  *)
(* turn; host code runs in between.                                        *)
(***************************************************************************)
EXTENDS Naturals, Sequences

CONSTANTS
  Backends,   \* in-process backends that may be created
  HostBackends, \* those among them that the host creates for itself; the others are for getBackend()
  Calls,      \* the calls the host makes
  Signals,    \* calls made with an AbortSignal
  MaxFailed,  \* bound: loads that fail
  Faults      \* a subset of {"trap", "refused"}

None == "none"
ASSUME InProcessAssumption == /\ None \notin Backends /\ HostBackends \subseteq Backends
                              /\ Signals \subseteq Calls /\ MaxFailed \in Nat
                              /\ Faults \subseteq {"trap", "refused"}

VARIABLES
  configured, default, \* state.backend and state.defaultBackend of configure.ts
  made,       \* backends created so far
  poisoned,   \* per backend: its own flag
  module,     \* modulePromise of load.ts: "none" (null), "pending" or "loaded"
  awaiting,   \* calls at `await load()` of the pending load, in order
  tasks,      \* calls to be resumed, in order
  state,      \* per call: "new", "awaiting", "loaded" or "failed" (its load has settled), or its outcome
  on,         \* per call: the backend it is made on
  signalled,  \* calls whose signal has fired
  instance,   \* history: the one wasm instance is "sound" or "poisoned" by a trap
  ran,        \* history: calls whose function was entered
  late,       \* history: calls made when the instance was poisoned
  failed, born \* history: loads that have failed, in all and when each call was made

vars == <<configured, default, made, poisoned, module, awaiting, tasks, state, on, signalled, instance, ran, late, failed, born>>

Answers == {"value", "error"}
Outcomes == Answers \cup {"refused", "unavailable", "aborted", "loadError"}
Pending == {"awaiting", "loaded", "failed"}

-----------------------------------------------------------------------------
(* configure.ts *)

Create(b) == /\ b \in HostBackends \ made
             /\ made' = made \cup {b}
             /\ UNCHANGED <<configured, default, poisoned, module, awaiting, tasks, state, on, signalled, instance, ran, late, failed, born>>

Configure(b) == /\ b \in made \ {default}
                /\ configured' = b
                /\ UNCHANGED <<default, made, poisoned, module, awaiting, tasks, state, on, signalled, instance, ran, late, failed, born>>

\* Slip: the default backend is dropped with the rest.
DefaultAfterReset_Dropped == None

\* resetConfig(): the default backend is kept, it wraps the one instance this thread has.
DefaultAfterReset == default
ResetConfig == /\ configured' = None
               /\ default' = DefaultAfterReset
               /\ UNCHANGED <<made, poisoned, module, awaiting, tasks, state, on, signalled, instance, ran, late, failed, born>>

\* getBackend(): the configured backend, or the default one, created on first use.
GetBackend(b) == IF configured # None THEN b = configured /\ UNCHANGED <<default, made>>
                 ELSE IF default # None THEN b = default /\ UNCHANGED <<default, made>>
                 ELSE b \in Backends \ (made \cup HostBackends) /\ default' = b /\ made' = made \cup {b}

-----------------------------------------------------------------------------
(* callRaw and the load. *)

\* A backend that knows of a trap refuses every further call.
Refuses(b) == poisoned[b]

\* Slip: the rejected promise of a load that failed is kept.
Found_Cached == IF module = "loaded" THEN "loaded" ELSE IF failed > 0 THEN "failed" ELSE "awaiting"

\* What a call finds at `await load()`.
Found == IF module = "loaded" THEN "loaded" ELSE "awaiting"

\* callRaw up to `await load()`.
CallRaw(c) ==
  /\ state[c] = "new"
  /\ \E b \in Backends :
       /\ GetBackend(b)
       /\ on' = [on EXCEPT ![c] = b]
       /\ \/ /\ Refuses(b)
             /\ state' = [state EXCEPT ![c] = "unavailable"] /\ UNCHANGED <<module, awaiting, tasks>>
          \/ /\ ~Refuses(b) /\ "refused" \in Faults
             /\ state' = [state EXCEPT ![c] = "refused"] /\ UNCHANGED <<module, awaiting, tasks>>
          \/ /\ ~Refuses(b) /\ c \in signalled
             /\ state' = [state EXCEPT ![c] = "aborted"] /\ UNCHANGED <<module, awaiting, tasks>>
          \/ /\ ~Refuses(b) /\ c \notin signalled
             /\ state' = [state EXCEPT ![c] = Found]
             /\ IF Found = "awaiting"
                THEN awaiting' = Append(awaiting, c) /\ module' = "pending" /\ UNCHANGED tasks
                ELSE tasks' = Append(tasks, c) /\ UNCHANGED <<module, awaiting>>
  /\ late' = IF instance = "poisoned" THEN late \cup {c} ELSE late
  /\ born' = [born EXCEPT ![c] = failed]
  /\ UNCHANGED <<configured, poisoned, signalled, instance, ran, failed>>

\* The load settles; a rejection is not cached.
Settles(as) == /\ state' = [c \in Calls |-> IF state[c] = "awaiting" THEN as ELSE state[c]]
               /\ tasks' = tasks \o awaiting
               /\ awaiting' = <<>>

\* Slip: the promise is left in place.
Forgotten_Kept == "rejected"
Forgotten == "none"
LoadSettles == /\ module = "pending"
               /\ \/ module' = "loaded" /\ Settles("loaded") /\ UNCHANGED failed
                  \/ failed < MaxFailed /\ failed' = failed + 1 /\ module' = Forgotten /\ Settles("failed")
               /\ UNCHANGED <<configured, default, made, poisoned, on, signalled, instance, ran, late, born>>

\* Slips: the signal is looked at before the load only; it is there, fired or not.
Withdrawn_Never(c) == FALSE
Withdrawn_HasSignal(c) == c \in Signals

\* The signal is looked at again after the load: a call withdrawn meanwhile does not run.
Withdrawn(c) == c \in signalled

\* The rest of callRaw, once its load has settled.
Resume ==
  /\ tasks # <<>> /\ tasks' = Tail(tasks)
  /\ LET c == Head(tasks) IN
     \/ /\ state[c] = "failed" /\ state' = [state EXCEPT ![c] = "loadError"]
        /\ UNCHANGED <<ran, poisoned, instance>>
     \/ /\ state[c] = "loaded" /\ Withdrawn(c) /\ state' = [state EXCEPT ![c] = "aborted"]
        /\ UNCHANGED <<ran, poisoned, instance>>
     \/ /\ state[c] = "loaded" /\ ~Withdrawn(c)
        /\ ran' = ran \cup {c}
        /\ \/ /\ \E o \in Answers : state' = [state EXCEPT ![c] = o]
              /\ UNCHANGED <<poisoned, instance>>
           \/ /\ "trap" \in Faults /\ state' = [state EXCEPT ![c] = "error"]
              /\ poisoned' = [poisoned EXCEPT ![on[c]] = TRUE]
              /\ instance' = "poisoned"
  /\ UNCHANGED <<configured, default, made, module, awaiting, on, signalled, late, failed, born>>

\* warm(): load() without a call.
Warm == /\ module = "none" /\ module' = "pending"
        /\ UNCHANGED <<configured, default, made, poisoned, awaiting, tasks, state, on, signalled, instance, ran, late, failed, born>>

Abort(c) == /\ c \in Signals \ signalled
            /\ signalled' = signalled \cup {c}
            /\ UNCHANGED <<configured, default, made, poisoned, module, awaiting, tasks, state, on, instance, ran, late, failed, born>>

Init == /\ configured = None /\ default = None /\ made = {}
        /\ poisoned = [b \in Backends |-> FALSE]
        /\ module = "none" /\ awaiting = <<>> /\ tasks = <<>>
        /\ state = [c \in Calls |-> "new"] /\ on = [c \in Calls |-> None]
        /\ signalled = {} /\ instance = "sound" /\ ran = {} /\ late = {}
        /\ failed = 0 /\ born = [c \in Calls |-> 0]

Next == \/ \E b \in Backends : Create(b) \/ Configure(b)
        \/ ResetConfig \/ LoadSettles \/ Resume \/ Warm
        \/ \E c \in Calls : CallRaw(c) \/ Abort(c)

Spec == Init /\ [][Next]_vars

-----------------------------------------------------------------------------
\* Every variable has its type.
TypeOK ==
  /\ configured \in Backends \cup {None} /\ default \in Backends \cup {None} /\ made \subseteq Backends
  /\ poisoned \in [Backends -> BOOLEAN]
  /\ module \in {"none", "pending", "loaded"} /\ awaiting \in Seq(Calls) /\ tasks \in Seq(Calls)
  /\ state \in [Calls -> {"new"} \cup Pending \cup Outcomes] /\ on \in [Calls -> Backends \cup {None}]
  /\ signalled \subseteq Calls /\ instance \in {"sound", "poisoned"} /\ ran \subseteq Calls /\ late \subseteq Calls
  /\ failed \in 0..MaxFailed /\ born \in [Calls -> 0..MaxFailed]

\* "Every further call rejects": as long as the host makes no backend of its own,
\* no call made after a trap runs in that instance.
LateNeverRuns == made \cap HostBackends = {} => late \cap ran = {}

\* "Rejections are not cached": a call fails to load only with a load that failed since it was made.
NoStaleFailure == \A c \in Calls : state[c] \in {"failed", "loadError"} => failed > born[c]

\* "Aborts a call that has not been dispatched yet" (backend.ts): the wait for the load included.
WithdrawnNeverRuns == [][\A c \in ran' \ ran : c \notin signalled]_vars

\* "The instance is poisoned and must not be reused" (errors.ts): no call enters it after a trap.
PoisonedNotReused == [][ran' # ran => instance = "sound"]_vars

\* The contract of callRaw.
Contract == INSTANCE LibBackend WITH
  status <- [c \in Calls |-> IF state[c] \in Pending THEN "pending"
                             ELSE IF state[c] = "loadError" THEN "unavailable" ELSE state[c]],
  lost <- {},
  closed <- FALSE
\* The in-process backend implements LibBackend.
KeepsContract == Contract!Spec
=============================================================================
