-------------------------- MODULE MCWorkerFailures --------------------------
(***************************************************************************)
(* WorkerBackend with a history of its failures, to say what the failure   *)
(* count and the cooldown of workerBackend.ts are for: a worker that keeps *)
(* failing is not spawned over and over.                                   *)
(***************************************************************************)
EXTENDS MCWorkerBackend

VARIABLES starts, \* failures to start in a row: no worker has loaded since, and no cooldown has ended
          deaths, \* workers that failed in a row, at any time: no call has been answered since, and no cooldown has ended
          barred  \* a load has run out of time and its cooldown has not ended

history == <<starts, deaths, barred>>

SpawnThrew == (PumpWithoutWorker \/ WaitersWithoutWorker) /\ ~CoolingDown
FailedStart == SpawnThrew \/ LoadTimedOut \/ ReceiveLoadError \/ PumpPostThrows
CooldownEnds == Tripped /\ coolLeft > 0 /\ coolLeft' = 0

HistoryInit == Init /\ starts = 0 /\ deaths = 0 /\ barred = FALSE

HistoryNext ==
  /\ Next
  /\ starts' = IF FailedStart THEN starts + 1 ELSE IF worker' = "ready" \/ CooldownEnds THEN 0 ELSE starts
  /\ deaths' = IF FailedStart \/ ReceiveCrash THEN deaths + 1
               ELSE IF ReceiveAnswer \/ CooldownEnds THEN 0 ELSE deaths
  /\ barred' = IF LoadTimedOut THEN TRUE ELSE IF CooldownEnds THEN FALSE ELSE barred

HistorySpec == HistoryInit /\ [][HistoryNext]_<<vars, history>>

\* "After maxConsecutiveFailures in a row no worker is spawned for retryAfterMs"
\* (README), as far as failures to start go; and "a load that runs out of time is not
\* retried at once": no worker until the cooldown ends.
StartsBounded == starts <= MaxFailures /\ (barred => worker = "none")

\* The same for all failures: "a spawn that throws, a load that errors or a
\* worker that dies counts as a failure; after maxConsecutiveFailures in a row
\* no worker is spawned for retryAfterMs" (README).
FailuresBounded == deaths <= MaxFailures
=============================================================================
