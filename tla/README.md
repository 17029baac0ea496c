# cquisitor-lib in TLA+

cquisitor-lib validates Cardano transactions. A Rust library does the work and
is compiled to WebAssembly; a TypeScript package runs it, in the caller's
thread or in a worker, fetches what it needs of the chain, and presents what
it says. This directory specifies the parts of it whose correctness depends on
an order or on two pieces of code that must agree: the backends that run the
wasm (concurrency, deadlines, failures), the validators that follow a
transaction as the ledger would, the fetch of what they need from a chain that
moves, and the readers of CBOR and CDDL, which do without recursion what a
specification says recursively.

## Contents

The backends:

| module | what it is |
|---|---|
| `LibBackend` | the contract of `callRaw`, whatever runs the wasm (abstract), and what follows from it (three theorems) |
| `WorkerBackend` | `createWorkerBackend` (ts/worker/workerBackend.ts), the worker (serve.ts), the messages and the clocks between them; implements `LibBackend` |
| `WorkerBackend_proofs` | its inductive invariant, proved for every value of the constants; what it owes its callers: order, deadlines, margins, truth, the contract, the failure limit |
| `MCWorkerBackend`, `MCWorkerFailures` | small instances; the second adds a history of failures |
| `InProcessBackend` | `createInProcessBackend` (ts/backend.ts), the module cache (wasm/load.ts), `configure`/`resetConfig`/`getBackend` (configure.ts); implements `LibBackend` |
| `InProcessBackend_proofs` | its invariant, its safety and its refinement of `LibBackend` |

The transaction:

| module | what it is |
|---|---|
| `CertLedger` | what the chain does with withdrawals and certificates (the reference, not code of this repository) |
| `CertificateChecks` | `RegistrationValidator` (registration.rs) and the deposits, refunds and withdrawals of `BalanceValidator` (balance.rs) |
| `Certificates`, `MCCertificates` | the two in lockstep, and small instances |
| `Certificates_proofs` | the validators observe the ledger, proved for every context and every sequence of certificates |
| `Balance`, `Balance_proofs` | the value equation: `BalanceValidator` over the `Value` of value.rs, and the proof that it finds what the ledger finds |
| `Transaction` | the shapes the validators work on; what a transaction needs of the chain (get_necessary_data_list, helpers.rs) |
| `NativeScripts`, `NativeScriptReader` | native_script.rs: the flat form of a native script and the questions asked of it; the state machine that reads it from CBOR |
| `NativeScriptTrees` | what a native script means as it is written, a tree (the reference, not code of this repository) |
| `Witnesses`, `BodyChecks` | the other phase-1 validators |
| `PhaseTwo` | phase 2: the guard of script contexts, the redeemers, the budget |
| `LedgerRules` | what the ledger says of the same transaction (the reference, not code of this repository) |
| `OnlineValidation`, `OnlineValidation_proofs` | `validate_transaction` over the validators, and `validateTransactionOnline` over Koios and Blockfrost, with what a fetch is worth; the proof, for every chain, that it is enough and that its failures hide little |
| `Verdicts`, `Verdicts_proofs` | what a verdict is worth, held against the ledger rule by rule; the proof, for every transaction and every chain |
| `MCOnline` | the transactions, chains and scripts of the run |

CBOR and CDDL:

| module | what it is |
|---|---|
| `CborTree`, `CborDecoder` | a decoded document with its positions and oddities; the decoder, one header at a time (decoder.rs) |
| `CborDocuments`, `MCDecoder` | CBOR by RFC 8949 (the reference); the documents of the run |
| `NestingScan` | the pass over headers that every bound on nesting goes by (limits.rs) |
| `WalkDriver`, `WalkDriver_proofs` | the task stacks that stand for recursion, and the budgets a walk is charged to (walk_driver.rs, limits.rs) |
| `Preflight`, `MCPreflight` | what is refused before a library reads it (csl_preflight.rs); the typed decoders behind it (universal_decoder.rs); their documents |
| `Cddl`, `SchemaSpans` | a parsed schema and its scopes; the walk from a location to the node that describes it (validation.rs) |
| `SchemaReadings`, `MCSchemas` | what a location may be by RFC 8610 (the reference); small schemas |
| `ErrorReports`, `MCReports` | validation errors ordered, told apart and located (validation.rs); where an error may be (the reference) and small documents |
| `SchemaMapper`, `PositionMap`, `MCMapper` | `decode_cbor_against_cddl` (schema_mapper.rs); the rows of `map_cbor_to_cddl` (cbor_cddl_map.rs); schemas and items |
| `MCLibrary` | the calls of the library, one at a time: all of the above but the backends and the certificates |

## Inventory

### Components, their state and their operations

**Worker backend** (`ts/worker/workerBackend.ts`). A scheduler for one worker
that runs one call at a time. State: a queue of calls, the call in flight, the
worker with its generation, whether its module is ready, the functions it has
run, consecutive failures with a cooldown, the promise of a fallback backend,
the callers of `warm()`, and per call a deadline whose clock stops while a
worker loads. Operations: `callRaw`, `warm`, `dispose`, an abort signal, the
load timer, a deadline timer per call, and the worker's messages. Everything
funnels into `pump()`. Correct when: a call settles exactly once and tells the
truth about whether it ran; nothing waits for nothing; a reply is never taken
for another call's; a trapped instance is never used again; deadlines run when
they should and only then; a worker that keeps failing is not respawned in a
loop; the process is kept alive exactly while something waits.

**Worker side** (`ts/worker/serve.ts`, `ports.ts`). Loads the wasm, announces
it, answers requests in order, reports a trap as fatal and refuses what comes
after it.

**In-process backend** (`ts/backend.ts`, `ts/wasm/load.ts`, `ts/configure.ts`).
One wasm module per thread behind a cached promise, a poisoned flag per
backend, a default backend and a configured one. Correct when a trap ends the
use of the instance, a failed load is retried, and a withdrawn call does not run.

**Phase-1 validators** (`src/validators/phase_1`). The driver
(`validator.rs`) runs registration, balance, witness, fee, output, collateral,
limits, network, governance and auxiliary-data validators over a transaction
and a `ValidationInputContext` the caller supplies. The registration validator
keeps the sets of what the transaction has registered, deregistered, retired,
resigned and authorized; the balance validator sums deposits and refunds from
the same certificates, and the value on both sides of the body's equation.
Correct when what they find is what the ledger finds.

**Phase 2** (`phase_2`, `script_context`, `plutus`). Builds script contexts and
runs Plutus scripts in an external interpreter.

**CBOR and CDDL** (`src/cbor`). A decoder that keeps positions and oddities, a
validator's errors located in the document and in the schema, a mapper that
names data by its schema, and a map of positions between the two. All walk by
an explicit task stack (`walk_driver.rs`), under budgets of depth, references, work
and payloads (`limits.rs`) that the steps of a walk hold and give back, and
over a cache of parsed schemas (`document_cache.rs`). Correct when nothing of
the input is lost or misplaced, when what refuses a document is the document,
and when two walks of the same data agree.

**Decoders and transaction tools** (`csl_decoders`, `csl_preflight.rs`,
`native_script.rs`, `witness_inserter.rs`, ...). Mostly pure functions over
external libraries; the preflight decides which bytes those may be given.

**Chain clients** (`ts/chain`). Koios and Blockfrost over HTTP, mapped to one
validation context.

**Share links, hand-off, typed API, CDDL helpers** (`ts/share`, `ts/handoff`,
`ts/api`, `ts/cddl`, `ts/util`). Pure functions and thin wrappers.

### How they interact

A caller of the typed API goes through `getBackend()` to the in-process or the
worker backend; the worker backend talks to `serve.ts` by messages and falls
back to an in-process backend. Inside the wasm a call is sequential:
`validator.rs` runs the validators one after another over a shared, read-only
context. The validators do not see each other; they agree only in so far as
each of them agrees with the ledger. The context comes from the chain clients,
which may leave things out. The readers of CBOR and CDDL share the decoded tree
and one step budget per call; the typed decoders and the tools are entered only
past the preflight.

### What is hard

Concurrency and failure are all on the host's side: handlers interleave with
worker messages, timers, signals and `dispose()`; workers fail to spawn, to
load and to live; late replies arrive from workers that were replaced. On the
Rust side the hard part is order and agreement: every certificate is judged
against the state its predecessors leave, withdrawals come first, incomplete
contexts must neither raise false alarms nor pass for complete ones; a budget
is held across suspended tasks; and what one reader makes of a document another
must find again. `PROJECT.json` lists each hazard at its line with the
properties that cover it.

## The worker backend

### Model

A JavaScript handler runs to completion. A handler is one action or, when it
ends in `pump()`, an action followed by the turns of pump's loop (`PumpTake`,
`PumpSpawn`, `PumpPost`, ...); between those `pc # "idle"` and no other host
action can run, so the split is one of presentation and hides no interleaving.
The worker moves when `pc = "idle"`: what it does during a handler cannot be
told from doing it before or after.

| code | model |
|---|---|
| `queue`, `inFlight`, the item `pump` has shifted | `queue`, `inFlight`, `next` |
| `worker`, `moduleReady`, `ranHere`, `loadTimer`, the handle's identity | `worker`, `ranHere`, `loadLeft`, `gen` |
| `PendingCall`: `budgetMs`, `remainingMs`/`deadline`, `timer`, `waitedMs` | `budget`, `left`, `ticking`, `waited` |
| `consecutiveFailures`, `lastFailureKind`, `cooldownForced`, `retryAfterMs` | `failures`, `failureKind`, `forced`, `coolLeft` |
| `readyWaiters`, `fallbackBackend`, `workerRefd`, `disposed` | `warm`, `fallback`, `refd`, `disposed` |
| the promise of each call | `phase` |
| the worker's thread, requests posted to it, messages posted by it | `proc` (a dead or hung one is `dead` with its module loaded and `stillborn` without), `inbox`, `wire` |

Every handler is an action: `CallRaw`, `CallRawTurnedAway`, `Warm`, `Dispose`,
`Abort`, `LoadTimedOut`, `ExpireRunning`, `ExpireQueued`, `ReceiveLoaded`,
`ReceiveLoadError`, `ReceiveCrash`, `ReceiveFirstAnswer`/`ReceiveAnswer`,
`IgnoreMessage` and the fallback's. The worker: `WorkerLoads`, `WorkerStarts`,
`WorkerAnswers`, `WorkerCrashes`. `Faults` chooses what may go wrong. A clock
is a countdown; a timer whose countdown is over fires at any later moment, so
any handler may run before it, as in an event loop; the load timer, too, may fire
on a worker that has loaded and whose message has not been handled. Two variables
are history: `runs` counts entries into each call's function, and `overtaken` has the
calls that `loadFailed` put back although their worker had loaded (`Unheard`), of which the
host cannot know whether they ran.

`LibBackend` allows for these: `LoseSight` is the step by which a backend gives up a
worker that has, or may have, run a call still pending. What the contract promises of
outcomes it promises of the calls not lost (`KnownToRun`); a lost one may even run
again. The worker backend's `lost` is `overtaken`; the in-process backend loses none.

### Runs

| run | bounds | shows |
|---|---|---|
| `WB_deadlines` | 3 calls, 2 functions, deadlines 3 and 5, traps, late replies, workers that answer without having said they loaded | clocks run exactly when they should (`ClockDiscipline`), margins hold (`MarginKept`, `DroppedOnlyLate`), no call is lost (`Accounting`), replies are not confused and a trapped instance is left alone (`WorkerServesOne`) |
| `WB_surface` | 2 calls, the second with a signal (the first never waits behind another), 1 `warm()`, `dispose()`, spawns that throw, failing loads, a load timer of 1, crashes, late replies, messages that cannot be posted, 2 failures allowed, no fallback | the backend implements `LibBackend` (`KeepsContract`); a call that waits never ran (`WaitingNeverRan`), but one overtaken, by the load timer alone (`OnlyTimerOvertakes`); order of service (`ServedInOrder`), no stalled queue (`WorkConserving`), `ref`/`unref` (`RefdWhileBusy`) |
| `WB_settle` | 2 calls with or without a deadline, `warm()`, failing, crashing and hanging workers, a failing fallback | `CallsSettle`, `WarmSettles` under fairness |
| `WB_undefined` | 1 call, `dispose()` | violated: `NeverResolvesUndefined` |
| `WB_warm_stranded` | 1 call, 1 `warm()`, `postMessage` throws | violated: `WarmSettles` |
| `WB_crash_loop` | 4 calls, crashing workers | violated: `FailuresBounded` |

Three calls are one running, one whose turn is next and one behind it: margins
are predicted (`RunsAhead`) over what runs before a call, and two functions
make a turn warm or cold. Deadlines of 3 and 5 with margins of 1 (warm) and 2
(cold: half the deadline, between a floor of 2 and 3) leave units in which a
call is startable on one kind of worker and not on the other, and let a call
behind another run out of time first. Two
calls and one `warm()` caller are enough for a retry after a failed load, a
queue behind a call that dies with its worker and a `warm()` that joins a
worker a call has spawned; a limit of two failures distinguishes counting from
tripping. A load time of 1 lets a worker load in time, late, and in time but unheard.
Deadlock is not checked in any run: a backend with nothing to do is at rest.

### Fairness

`HostFairness`: the event loop ends a handler, lets time pass and fires a
timer that is due. `WorkerFairness`: a worker that neither died nor hangs loads,
starts, answers, and its messages are delivered; dying and hanging are
faults under no fairness. `FallbackFairness`: a fallback's factory settles and
it answers, in this thread. Nothing is assumed of the host (no call is ever
made, aborted or disposed of by necessity). `CallsSettle` excludes one case
by name (`Hopeless`): a call without a deadline whose worker has died
unreported, and those behind it.

### Proofs

Everything below holds for any number of calls, functions, budgets, limits and
faults, from `ConstantsAssumption` and the hypotheses named.

`WorkerBackend_proofs` proves `Spec => []IInv` and from it `TypeOK`,
`Accounting`, `WorkConserving` and `WorkerServesOne`. The inductive invariant
adds to these what a handler leaves in order between its actions
(`HandlerShape`: the turn of pump has taken a call and nothing is in flight),
what may be under way (`WorkerShape`: no message from a worker to come; a
poisoned instance has posted that it is one, which is why the host always
replaces it before posting again) and that no settled call has a clock
(`ClocksHeld`). Each part has a lemma that goes through the actions
(`TypeStep`, `AccountingStep`, `ClocksStep`, `ShapeStep`, `WorkerStep`) over
lemmas on queues: what `push`, `shift`, `unshift` and `splice` do to a sequence
without repetitions.

The rest of the module starts from `IInv`. Each theorem there has an invariant of its
own, inductive relative to `IInv`:

| theorem | of | inductive with |
|---|---|---|
| `ServedAsMade` | `ServedInOrder` | itself: `unshift` puts back the oldest, `splice` keeps the order of the rest |
| `ClocksKeepTime` | `ClockDiscipline` | `ClockInv`: the rule at every `pc`, with what the handler still has to set right; `AfterShape`, where a handler goes on once pump is done; a worker still loading has said nothing |
| `StartedWithMargin` | `MarginKept` | `MarginInv`: the margin of the call pump has shifted, and of the one that waits for a load with its clock stopped |
| `DroppedForALackOfTime` | `DroppedOnlyLate` | an action property, from `ClockInv` and `IInv` |
| `ReferencedWhileNeeded` | `RefdWhileBusy` | `RefInv`: every handler that changes who waits comes to `syncRef` before it ends |
| `WaitingCallsNeverRan` | `WaitingNeverRan` | `RunInv`: what has run and was not overtaken is settled, or the present worker has it or answers it; a load's failure is told before anything is posted to that worker |
| `OnlyTheTimerOvertakes` | `OnlyTimerOvertakes` | an action property, from `RunInv`: an error of a worker the host still believes to be loading is the first thing it said. For workers that say when they have loaded |
| `WorkerBackendKeepsContract` | `KeepsContract` | `IInv`, `ClockInv`, `RunInv`, `FallInv`: one lemma per step of the contract, the rest stutter. Under `FallbackOutlivesCalls` |
| `StartsAreBounded` | `StartsBounded` (of `MCWorkerFailures`; the crashes it leaves out are finding 3) | `StartInv`: the starts counted are failures in the account, which only a load or a cooldown clears. For `RetryAfter # 0` |
| `NothingResolvesUndefined` | no call resolves to `undefined` | `FallInv`. Under `FallbackOutlivesCalls`; `WB_undefined` shows the hypothesis is needed |
| `CallersAreToldTheTruth` | outcomes are true and final, and a closed backend is quiet | the refinement, with `LibBackend`'s own theorems read back |

No theorem assumes anything of the load timer, and only `OnlyTheTimerOvertakes` assumes
that workers are not silent about their load (one that is runs calls before anyone knows
it is there, so that its death does what the timer does). `WaitingCallsNeverRan` and the
contract are proved with both at their worst: what they except is `overtaken`, call by
call; the Findings say what may happen to one. `FallbackOutlivesCalls` is a
hypothesis about the host: it disposes of the backend only when no call is with the
fallback. Finding 1 is what happens otherwise. `RetryAfter # 0`: with no cooldown there
is nothing for the limit to wait for.

`LibBackend` states what its contract gives a caller, and proves it of any backend
that keeps it: `OutcomesAreTrue`, `OutcomesAreFinal`, `ClosedBackendsAreQuiet`
(`ContractInv`: a call that was not made has not run). The two refinements carry
them over.

Model-checked only: `CallsSettle` and `WarmSettles`, since liveness under
fairness is beyond the prover.

### Abstractions

`onEvent` observers are passive: one that calls back into the backend would
re-enter `pump()`, which is planned as a module of its own. With
`retryAfterMs = 0` `unavailable()` asks `coolingDown()` once more and may reset
the count as it builds its message; the model resets it at the next spawn.
Arguments, values and messages are abstracted to the outcome they lead to.

## The in-process backend

One thread: `CallRaw` runs a call up to `await load()`, `LoadSettles` queues
those who wait, `Resume` takes the next of them through the rest of `callRaw`.
`Create`, `Configure`, `ResetConfig` and `GetBackend` are configure.ts. `late`,
`born` and `instance` are history.

| run | bounds | shows |
|---|---|---|
| `IP_default` | 3 calls, 3 backends of which one is the host's own, one failed load | a call made after a trap never runs in the default backend's instance (`LateNeverRuns`), loads that fail are not remembered (`NoStaleFailure`), and `LibBackend` is implemented (`KeepsContract`) |
| `IP_trap_race` | 2 calls | violated: `PoisonedNotReused` |

Three calls give one that traps, one that waits beside it and one made after;
two backends for `getBackend()` would show a second default being made.

`InProcessBackend_proofs` proves the three properties of `IP_default` for any
calls and backends, and that a call withdrawn while it waits never runs
(`WithdrawnCallsStayOut`). The invariant, `IPInv`, adds to `TypeOK` and
`NoStaleFailure` that only a call that was answered has run (`RanIsAnswered`,
what the refinement needs to map a resumed call to the contract's steps), that a
call remembers no more failed loads than there have been (`BornBefore`) and that,
while the host has made no backend of its own, every call that got past its door
is on the one default backend, which knows of the trap (`OneBackend`: `LateNeverRuns`
speaks of the same threads, since a backend of the host's is not told).

## Certificates

### Model

`CertificateChecks` has one action per kind of certificate that does what both
validators do with it: `validate_certificate` against the state so far,
the certificate's deposit or refund and its check, then `update_state`. The
seventeen kinds fall into eleven actions: four register an account, three
delegate one, two are gone from the ledger. The walk's maps and sets keep
their names; which certificate registered an entity first is left out, since
the index stored is always that of an earlier certificate. A predefined DRep
is `None`. The two lists of committee members are one status per credential.
`errors` and `warnings` are the sets of kinds reported.

`CertLedger` is the ledger's view of the same steps: deposits held, rewards,
who may withdraw, committee seats and resignations, the epoch. A transaction with an
illegal step is rejected.

The validator is given a slot and works out the epoch as `slot \div 432000`
(`CurrentEpoch`); the chain has an `epoch` of its own, and a pair of `Moments` says
which slot goes with which epoch. They are the same number only on a network all of
whose epochs have had 432,000 slots: mainnet began with the epochs of Byron, preview's have
86,400. `misjudged` is history: it notes that the transaction retired a pool in an
epoch that one of the two allows and the other does not (`Disputed`). `CleanIsAccepted`
and `NoFalseAlarm` except just that, and `RetirementsMistimed` does not (finding 6).

`Certificates` runs the two in lockstep from a
context that is true but may be incomplete: an entity may be missing, an
account's balance or paid deposit unknown. It assumes (`CertificatesAssumption`,
`Truthful`) that deposits held were paid under the present parameters.

### Runs

| run | bounds | shows |
|---|---|---|
| `CERT_checks` | one account, pool, DRep and cold credential, three certificates, every shape of context, amounts 1 and 2 against deposits 2, 3 and 1, a network where the counts of epochs agree and one where they do not | `ObservesLedger`, `CleanIsAccepted`, `NoFalseAlarm`, `DepositsBalance` |
| `CERT_refund` | the same | violated: `UnknownRefundWarned` |
| `CERT_epoch` | the same | violated: `RetirementsMistimed` |

Three certificates register, deregister and register again the one entity, or
register what a delegation names before or after it; entities of a kind do not
interact, and the proofs cover any number of them. The walk stops after three
certificates, so deadlock is not checked.

### Proofs

`Certificates_proofs` proves `Spec => []CertInv` and from it the walk's type
correctness and the four properties above, for every set of entities, every
context `Truthful` allows, every pairing of slots with epochs and every number of
certificates. `CertInv` adds that
the context stays as it was and deposits are the parameters' (`ContextRight`),
that until the transaction is rejected the chain's rewards are the context's
balance less what was withdrawn (`RewardsRight`: without it a deregistration's
balance check cannot be related to the chain's), and that the withdrawals find a
fresh walk (`StartRight`). Each certificate has a lemma; `RejectedStep`,
`AcceptedStep` and `QuietStep` say once what a step the chain refuses, takes, or
takes without effect preserves.

`CleanIsAccepted` needs every balance to be known and `DepositsBalance` every
deposit: an unknown balance is passed over silently, an unknown deposit is a
finding. Both are hypotheses of the properties, by name, as is `misjudged`.

## Validation of a transaction

### Model

`OnlineValidation!Validated` is `validate_transaction` as a function of a
transaction and a context: the sets of errors and warnings of every validator,
or a refusal. Inside the wasm nothing interleaves, so a validator is an operator
and one action, `Validate`, runs them all; an operator keeps the conditions,
early exits and order of its function, and sets stand for the code's maps and
sets. What does interleave is the fetch: `OnlineValidation` asks for the context
in the stages of `fetchValidationData`, each answer, each failure that is caught
and each that is not is an action, and `ChainMoves` adds a block between any two.

| code | model |
|---|---|
| `ValidationInputContext` | a record: `utxo`, `accounts`, `pools`, `dreps`, `actions`, `committee`, `slot`, `constitution`, `costModels` |
| `WitnessValidator`, `NativeScript` checks (witness.rs, native_script.rs) | `Witnesses`, over `NativeScripts!Evaluate` |
| fee.rs, transaction_limits.rs, collateral.rs, output.rs, network.rs, auxiliary_data.rs, governance.rs | `BodyChecks` |
| eval_redeemer.rs, context_guard.rs, validation.rs of phase 2 | `PhaseTwo` |
| `get_necessary_data_list` | `Transaction` |
| koiosClient.ts, blockfrostClient.ts, transactionValidation.ts | the actions of `OnlineValidation`: what each provider gives of a script, a pool, a committee, a constitution |
| `read_script` | `NativeScriptReader`: one action per header read, per sub-script taken, per list closed |
| `BalanceValidator::new`, `validate`; `Value`, `MultiAsset` (value.rs) | `Balance`: one action per entry of the body, a UTxO or an output in two halves |

A hash is a number, and so is what it hashes; a number of `Keys` or `Scripts` is
a credential; a UTxO is the rank of its reference, so that the ledger's sorting
of inputs is kept; a script integrity hash is the triple of what goes into it. A
run of a script costs `Cost` and ends well when the script is one of `Succeeds`.
External, and modelled as the code relies on them: uplc's lookup, context and
run (`FindScript`, `BuilderRefuses`), and the ledger (`LedgerRules`: UTXOW,
UTXO, GOV and the context translation).

`Balance` keeps both sides of the equation as the code does, coins and a list of
assets from which what cancels is dropped, beside the ledger's own account
(`left`), one signed sum per unit. A mint's positive and negative halves are
those the library gives; a mint may list a unit twice.

### What it is held to

| property | shows |
|---|---|
| `AcceptedByLedger` | a transaction found valid is one the ledger accepts, rule by rule (`WitnessesAccepted`, `BodyAccepted`, scripts, governance), in whatever context it was judged |
| `ErrorsJustified` | in a context that is the chain, an error is one the ledger finds |
| `QuietFetch` | the context fetched from a chain at rest is enough: the verdict is the whole chain's |
| `UnspentAtTip` | what is taken for unspent was so at the slot the context names |
| `CaughtFailuresHideLittle` | a request whose failure is caught hides no error, but the few the property names |
| `ScriptReadBack` | the flat form stands for the script that was written |
| `ValueConserved` | the two sides are found unequal exactly when the ledger finds value lost or made, and their difference is what the ledger is left with |

These are checked by `LIBRARY_calls`, whose bounds are below. Where the code is
stricter or more lenient than the ledger the properties say so by name, each with the
file that is (`Verdicts`): `Stricter` has the errors that are nobody's failure, by what
the transaction must have for one; `Unlooked`, and the failures `BodyAccepted` names, are
what the ledger finds and the validators do not look for. Of the ledger's GOV rule
`LedgerRules` has the part that governance.rs is about; the lineage of proposals, their
expiry and their deposits are in neither, so an accepted transaction may still break those.

### What is proved of it

`OnlineValidation_proofs` proves `QuietFetch`, `UnspentAtTip` and
`CaughtFailuresHideLittle` for every chain, every transaction and every order of the
answers. In each there is a part about the validators alone and a part about the
fetch.

For the first two the validators are shown equal things. `Agree(t, a, b)` says that two
contexts show a transaction the same things, as far as `get_necessary_data_list`
names them: its UTxOs, accounts, pools, DReps and governance actions, the slot and
the cost models; `AgreeOnRest` adds the committee's seats and the constitution.
Validator by validator, whatever is looked at is a function of these, and so
`NecessaryDataIsEnough`: the two contexts lead to the same result. A validator that
consulted anything the list leaves out (the account a treasury withdrawal goes to,
say, which is how the mutant of `QuietFetch` breaks it) has no such lemma.
`RestDecidesLittle` is for Blockfrost, which has no committee and no constitution:
without them the call is refused or not all the same, its warnings are the same,
and its errors may differ by the three names the two decide on.

Then the fetch. `QuietInv` says of one that nothing disturbed that a
part of the context holds nothing but what the chain has, and that from its stage
on everything necessary of it has been fetched or is asked for by a request still
out; a stage is left only with no request out, so at `validate` the context agrees
with the chain. Pools and DReps come in one answer that replaces the part, accounts
one by one, UTxOs in one request or one per UTxO: the invariant holds for all of
them. `TipInv` keeps, of every UTxO fetched, that the chain had it so at some block
no older than the tip's.

`CaughtFailuresHideLittle` compares contexts that differ. `ShowsLess(t, c, w)` says
that `c` shows a transaction no more than `w`: the same UTxOs but for scripts that
are missing or do not decode, some of the accounts, DReps and actions, a member's
seat or none, and of pools and constitution anything. `LessShownHidesLittle`: if `c`
makes for no error and neither refuses, the errors `w` makes for are those of
`Hidden`. It is proved validator by validator, since most change their answer one
way only. The step that carries it is that a transaction accepted with less knows
every script it requires, so that `w` requires the same of it and finds the same
Plutus scripts, redeemers and datums; what a lost script can still change is what is
counted by weight and what a Plutus V1 context may not hold. `LittleInv` then says
of the fetch, whatever fails in it, that while the chain stands still the context
shows no more than the chain, and that it has every UTxO of the chain's by the time
they are judged, unless the promise was rejected.

The attempt found the property, as first stated and as TLC had passed it, false of
two cases, which it now names: a lost reference script hides that a Plutus V1
context cannot be built, and a committee that could not be fetched hides the
resignation of a member whose hot key the transaction itself authorises. Each now
has a transaction in the run, on which TLC finds the earlier statement violated.

Two assumptions, which TLC evaluates in the run: `FetchesTyped` (what a chain, a
vote and a redeemer are; a vote is cast with a credential of a key or script, never
with a predefined DRep, and a pool's with a key; a redeemer has one of six tags) and
`SpentStaysSpent` (a chain is not rolled back during a call;
after a rollback an output can be unspent again, and `UnspentAtTip` would be false).
`QuietFetch` keeps its own hypotheses: every request answered, no block added, no
pool misjudged by its provider. `HashesApart` (`Transaction`) keeps keys, scripts and
what does not decode apart.

`Verdicts_proofs` proves `AcceptedByLedger` and `ErrorsJustified`, for every
transaction and every chain. The validators and the ledger are written from different
sources and ask in different orders, so most of the proof shows that they ask the same
things; `Setting` is where they can be compared: the context is part of the chain and
has every UTxO the transaction names.

1. What is required. The validator draws up a list of requirements, each with a tag, the
   index a redeemer would have, a script and a datum; the ledger has purposes, and numbers
   them its own way. `RequiredIsNeeded` and `NeededIsRequired` take them to one another tag
   by tag. Inputs and withdrawals are ranked by both; certificates, votes and proposals are
   numbered as listed by both; minted policies are numbered as listed by the validator
   and ranked by the ledger, and by `PlacesAreRanks` places that are all ranks are all the
   ranks: where the orders differ a redeemer is called missing, and nothing wrong is let
   through. From that follow the scripts, keys,
   datums and languages that each side asks for.
2. What redeemers point to. `PointedIsNeeded` and `NeededIsPointed` do the same for the
   way back, from an index to a purpose, which phase 2 works out for itself.
3. What is summed. The collateral's value and the sizes of reference scripts are folds in
   the code's order and sums over sets in the ledger's rules; `TotalIsASum` shows that the
   order does not matter, and `RoundedUp`, `RoundedTooLow` that the code's rounding of the
   percentage decides as the ledger's multiplication does.
4. One direction. If no error is there (`AcceptedParts`), each rule of the ledger in turn
   is met (`WitnessesOfFound`, `ScriptsOfFound`, `BodyOfFound`, `GovernanceOfFound`): an
   accepted transaction has a redeemer for each requirement and none besides, so phase 2
   ran every script the ledger runs.
5. The other. Each error is taken back to the condition it is reported on
   (`WitnessNames`, `BodyNames`, ...) and from there to a failure of the ledger
   (`WitnessErrorsStand`, `BodyErrorsStand`, ...), or to one of the cases of `Stricter`.

`Called` ties it to the run of a call: with a context of the caller's, the result is that
of the validators on one transaction and one part of the chain. The attempt found the
properties, as first stated, false of transactions no family of the run had (the
family `Rare` has them now): a native script accepted for a registration that asks for
none, a policy minted twice or out of order, an address that cannot be read, a script only
a collateral input carries. It also found what had been said of governance too strong
where several members share a hot key, which no chain has: hence the last clause of
`GivenTyped`.

Its assumptions, evaluated by TLC in the run: `GivenTyped` (what a transaction is; the
contexts a caller gives are parts of the chain; a hot key is that of one seat of the
committee), `ParamsTyped` (parameters of the protocol are numbers), and
`FlatFormStands`: the flat form of a native script holds when the script does, which is
what `ScriptReadBack` says of the reader.

`Balance_proofs` proves `ValueConserved` for any units, quantities and number of
entries. `BalanceInv` says that, for what was read so far and unit by unit, the
lists account for what the ledger is left with, half-read entries included. The
step from amounts to a verdict is `SameAssets`: `MultiAsset` compares one list
with the other entry by entry and then their lengths, which decides equality only
because a list never keeps an entry of nothing; a list within another of the same
length is the other.

## CBOR and CDDL

### Model

`CborDecoder` reads a document as `decode_item` does, one header at a time over a
stack of open containers, and notes on every node its positions and how it departs
from deterministic encoding; what is cut short or spoilt leaves the tree read so
far and a path to where it ended. Every integer a head can hold is decoded, the
negatives below -2^63 as well, which are only typed otherwise (`SignedType`): the code's
`int_not_representable` is out of reach for them, and the model has no step for it. `NestingScan` is the pass over headers
(`scan_cbor_shape`) that every bound on nesting goes by. `Preflight` is the gate
before the external libraries, the typed decoders among them: what nests too deep,
what would abort them, which types an input is said to be. The schema side is
operators over a parsed schema (`Cddl`): the node a location leads to
(`SchemaSpans`), what a report says of an error (`ErrorReports`), an item decoded
by a schema (`SchemaMapper`) and the rows that lead from one to the other
(`PositionMap`). The references are written from the RFCs, not from the code:
`CborDocuments` writes the documents the decoder is given, `SchemaReadings` says
what a location may be, `MCReports` where an error is.

`WalkDriver` is how all these walk. A document is a laminar family of steps (each
has those below it), of six kinds: a step that charges nothing, one of a schema
level, a hop to a rule, a generic argument, an embedded payload (which starts a
driver of its own) and a level of raw data. A step that would recurse asks through
a channel for a task above its own and is resumed when that one has ended; the
descent, the references, the work, the open payloads and the nesting a payload
adds are charged on entry and given back on leaving, whether the step completed,
was refused or was interrupted by a refusal above it.

### What it is held to

| property | shows |
|---|---|
| `DecodedAsWritten` | a document decoded to its end shows the items it was written from, their order and spans, and exactly the oddities it was written with |
| `ErrorKeepsWhatWasRead` | an error keeps every item read whole before it, and its path leads to one that was not finished |
| `ScanMatchesDecoder` | the pass over headers measures the depth and the number of items of the tree the decoder builds, and is refused with it |
| `PreflightExact` | a document is refused exactly when a library would run out of stack or abort on it |
| `TypesAgree` | the types an input is said to decode as are those whose own decoder reads it |
| `SpanDescribesItem` | the schema node given for a location belongs to a reading of the schema that reaches it, and is the one where there is one |
| `LocatedItemIsNamed` | what is shown for a location is the item it stands for, and the JSON path leads to it |
| `ReportAccountsForErrors` | the error that leads a report is outranked by none, and no error is lost uncounted |
| `NothingDropped` | every scalar of an item is in the JSON, where it belongs, whatever the schema makes of it |
| `PositionsMatchDecoded` | the position map and the JSON agree part by part |
| `WalkExact` | a walk is refused exactly when some step's own way from the root holds more than a budget |
| `WalkReturns` | however a walk ends it keeps no charge; one not refused took every step, in the order of recursion |

### Proofs

`WalkDriver_proofs` proves `WalkReturns` and `WalkExact` for every document that is a
laminar family (`WalkAssumption`) and all bounds and weights. `WalkInv` says of any moment
of a walk that each suspended task waits for the one above it and has what was
walked below (`StackShape`, `InOrderSoFar`), that a task asked for is the next step
of the one that asks (`ChannelShape`), that a task notes what the descent was
before it so that leaving restores it (`ChargesHeld`), and that the levels of
nesting spent are those of the payloads on the stack (`LevelsHeld`).

`WalkExact` needs more: that what a task holds is the sum over the way from the root to
its step, though a task is only ever told what the one below it held. `ExactInv`,
inductive relative to `WalkInv`, says so of every task on the stacks and of the one asked
for (`TaskExact`: charges, payloads open, references since the last item), and that
neighbours on the stack are neighbours on the way (`Below`: what the lower one asked for
before is over). Then the way to a step is the way to the one above it and the step
itself (`PathBelow`), so each sum grows by one term (`CountsBelow`). As long as nothing is
refused the steps taken are the first `Done` ones, each of them fits and the work spent is
theirs; `MetTells` says that what the budgets answer on entering a step is whether it
fits. What a finite sum is, and that it may be taken in any order, is proved from the
fold's definition (`SumsExist`, `SumTakes`), by an induction stated of a set of naturals
(`CountingUp`).

The other properties of the table stay with TLC: `CborTree`, `NestingScan` and the modules
over them are recursive where documents nest.

## The run of the library's calls

`LIBRARY_calls` makes one call at a time (`MCLibrary`'s `task`: the calls share no
state), over the families of inputs below. A call ends, so deadlock is not checked.

*Transactions*, some 33,000, in families, each around one part of the rules:
`Scripted` (inputs locked by a script of every kind, given or by reference),
`Signed`, `Certified` (every kind, every sort of credential), `Purposed`
(withdrawals, policies, votes and proposals together), `Voting`, `Proposing`,
`Collateralised`, `Bounded` (each limit at its edge and one past it),
`Contextual` (what a language's context lacks) and `Rare` (what few transactions have: a
script for a registration that asks for none, a policy minted twice or out of order, an
address that cannot be read, a script that only the collateral carries). A family starts from transactions
that `Completed` makes right, and `OneOff` takes one thing from them or adds one: a
test of each rule from both sides. The last families are judged in five contexts,
four of them incomplete. Ten transactions are fetched for from both providers on
a chain that stands still and on one that moves on. Rules relate a few items each
(an input with its script, datum and redeemer; a vote with its action and voter),
so families of two or three of each exercise their interactions, and indices need
two inputs of which only one is a script's.

*Native scripts* of two subscripts a list, nested three deep (`MaxNesting`), in
three styles of encoding that alternate by level, whole, cut short or followed by
more.

*Balances* of two units and one quantity, three entries and the fee
(`MaxEntries`): enough for an amount that cancels and comes back, and for a side
that has a unit the other lacks.

*Documents* of every kind of item, nested one past `MaxNesting`, in every style,
whole, cut short, followed by another byte or with a byte spoilt; strings longer than a
chunk (`ReadChunk` = 2) are read in pieces.

*Inputs to the libraries*: addresses, witnesses and native scripts at every place
a type holds one and beside it, nested around each bound (`ReaderBound`: 10 for
the serialization library and pallas, 7 for the typed decoders; `MaxLevels` = 12 for
the walkers); key hashes of one byte (`KeyHashLength`).

*Schemas* of a few rules and the locations in them (`MaxHops` = 4 references,
`MaxReadings` = 1 reading of a path held open), and
*items* to decode by them: items nest two levels and a type is optional, repeated,
a choice, a generic, a socket, a tag, an embedded payload or a group spliced in.

*Errors* at every place of small documents with up to three entries of a map
indexed (`IndexedEntries`), payloads two deep (`MaxEmbedded`) of three items
(`MaxItems`), keys around the length that is rendered (`RenderBound` = 8,
`MaxPathKey` = 12) and locations of up to five segments (`MaxSegments`); reports of
few errors against lists of one additional and two alternatives
(`MaxAdditional`, `MaxAlternatives`, `MaxFollowed`).

*Walks* of three steps of every kind, and of four of the kinds that hold most, with
weights of 3, 2 and 1, a descent of 8, two references, six units of work, three
levels and two payloads open: each bound is met by some walk and by one just
within it.

## Findings

1. `WB_undefined`: a call handed to a fallback that is still being built
   resolves to `undefined` if the backend is disposed of meanwhile
   (workerBackend.ts:594).
2. `WB_warm_stranded`: a `postMessage` that throws discards a loading worker
   and leaves `warm()` callers waiting (workerBackend.ts:667).
3. `WB_crash_loop`: workers that load and then die never reach
   `maxConsecutiveFailures`, against README.md:188 (workerBackend.ts:484).
4. `IP_trap_race`: calls that wait for the load together run after a trap of
   one of them (backend.ts:100).
5. `CERT_refund`: an implicit refund of an account whose deposit is not known
   is neither counted nor warned of (balance.rs:478).
6. `CERT_epoch`: the current epoch is taken to be `slot / 432000`
   (registration.rs:542), which is not the chain's epoch on preview or, for its Byron
   epochs, on mainnet: retirements the chain takes are reported, and such as it
   refuses pass.

Seen while modelling, without a run of their own.

The backends: `dispose()` leaves calls on the fallback pending although
README.md:190 says it rejects what is outstanding; the comment at
workerBackend.ts:502 ("the in-flight call never ran") does not hold when the load
timer beats a `loaded` message that is already on its way, and such a call is run again
by the fallback or, where `retryAfterMs = 0`, by the next worker (`overtaken` has these
calls: `WaitingNeverRan` and the contract except them and no others); `retryAfterMs = 0` is
no cooldown at all, and the limit on failures then holds nothing back; backends of
one thread share the wasm module but not the poisoned flag.

The chain clients: a pool that Koios reports as retiring is taken for unregistered
(transactionValidation.ts:682), and Blockfrost's client calls a pool registered
when its certificates of registration, changes included, outnumber those of
retirement (blockfrostClient.ts:628).

The validation of a transaction, all of it in the model: a UTxO the context
lacks refuses the whole call, so that the `BadInputsUTxO` phase 1 found for it is
not returned; `fetchValidationData` supplies a constitution without guardrails
when it could not fetch one (transactionValidation.ts:785), which governance.rs
takes for a constitution that has none, and a proposal under guardrails is
called wrong; raw native scripts of kind key, all or any are taken for wrapped
ones (`isScriptRefFormat`) and the validation is refused; a reference script
whose fetch failed is left out of the fee and of the limit on such scripts, and a
Plutus V1 context is then built where it cannot be; a committee that could not be
fetched lets a resigned member vote with a hot key the transaction authorises; a
script both in the witness set and by reference is not called extraneous;
supplemental datums are those of outputs only; minted policies are indexed in the
order listed, so that one listed twice or out of order has its redeemer called missing; a
native script for a registration without a deposit is taken for a witness, the ledger
calls it extraneous; phase 2 finds a script that only a collateral input carries, which
the ledger does not offer; a transaction with an output whose address cannot be read has
its scripts refused a context; DReps, pools and accounts that come or go by the transaction's own
certificates are not seen by its votes and proposals, hot keys it authorizes
are; collateral is judged though no script runs; governance.rs's header lists the
guardrails check as deferred though it is made.

CBOR and CDDL: `decode_cbor_against_cddl` keeps only the last repetition of an
array's group rule with named members (`[* pair]`), against README.md:447 ("data
is never silently dropped") and schema_mapper.rs:5, and the position map then has
rows twice (the exception `RepeatsNamedGroup` of the two properties); a bignum of
magnitude 2^64 - 1 that a head would hold is not flagged; a tag-3 bignum of sixteen
bytes from 2^127 on wraps into a positive number (schema_mapper.rs, near 3148); a
`.cborseq` payload of one item is not told from that item; the occurrences folded
into a group of errors that is dropped are not counted; a lower bound above one on a
map member keyed by a type is not checked; the mapper's `uint` reads negative
integers, and floats that JSON has no number for become null; a bare parameter of a
generic is looked up before the sockets, and a type rule spliced into a map ignores
the entry's occurrence.

## Not modelled

Components with status `not_modelled` in `PROJECT.json` are pure conversions,
cryptography, generated code and declarations; the ones with control worth
checking are in the plan. Of the chain clients, paging, retries and the shape of
the answers are left out: an answer is what the chain is. Of phase 2, the
interpreter and the builder of script contexts are uplc's. The CDDL validator and
the parser of schemas are external crates: which errors there are is given.
Whether a library reads bytes as a type is given too, and so is its JSON. Of the
position map, the spans in the schema and the `match` field of pairs are left out;
of the mapper, its memory of declines, which answers what walking again would. Of
the search for a cost model nobody knows, the framing of a key that cannot be
followed: the code gives up the search, the model finds nothing there.

## What is proved and what is not

All theorems hold for every value of the constants, from the assumptions named in
the modules. `PROJECT.json` lists them: most state a property some run checks, the
rest are the inductive invariants and what no passing run states
(`WithdrawnCallsStayOut`, `StartsAreBounded`, `NothingResolvesUndefined`,
`CallersAreToldTheTruth`, `NecessaryDataIsEnough`, `RestDecidesLittle`,
`LessShownHidesLittle` and the three of `LibBackend`). Each inductive invariant was model-checked on the runs' instances
before it was proved.

Left to TLC:

- liveness (`CallsSettle`, `WarmSettles`);
- every property whose module reaches a recursive operator, which the prover does
  not accept: the reader of native scripts against their encodings (`ScriptReadBack`),
  and all of CBOR and CDDL (`CborTree`, `Cddl`, `NestingScan` and what is built on
  them) but the driver of their walks.

Induction over naturals is done by stating it of a set (`CountingUp`, from the
well-foundedness of `<`), which is enough for sums and counts; what a recursive
definition computes on a tree of data is not proved anywhere.

## Plan

1. `SchemaCache`: the most-recently-used cache of parsed documents, against the
   uncached parser.
2. Deposits paid under older parameters, in `CertLedger`.
3. Re-entrant observers of the worker backend.
