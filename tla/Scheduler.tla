------------------------------ MODULE Scheduler ------------------------------
(***************************************************************************)
(* The polling scheduler (internal/scheduler/scheduler.go) with the state  *)
(* publisher it drives (internal/publisher, wrapped by recordingPublisher  *)
(* of internal/cmd/serve.go) and the status server it reports to.          *)
(*                                                                         *)
(* Two goroutines, "poll" and "force", run cycles                          *)
(*    lock apiMu -> [pre-check] -> fetch (with retries) -> publish state,  *)
(*    tracker attributes, tracker state -> record metrics -> mark health   *)
(* while the context may be cancelled at any moment.  A step of the model  *)
(* is the code between two points where another goroutine, the API, the    *)
(* broker or the cancellation can intervene.                               *)
(*                                                                         *)
(* Vehicle data is abstracted to a version: the Bluelink backend holds     *)
(* version `world` of the car's state and a fetch returns the version held *)
(* when the answer is produced.                                            *)
(***************************************************************************)
EXTENDS StatusServer

CONSTANTS
  ConfigMaxRetries,       \* Config.MaxRetries as configured, any integer
  ForceEnabled,           \* Config.ForceEnabled
  ForceOnlyWhenPluggedIn, \* Config.ForceOnlyWhenPluggedIn
  MaxVersion              \* bound on how often the car's state changes

\* New treats a negative MaxRetries as 0.
MaxRetries == IF ConfigMaxRetries < 0 THEN 0 ELSE ConfigMaxRetries

ASSUME SchedulerAssumption ==
  /\ ConfigMaxRetries \in Int
  /\ ForceEnabled \in BOOLEAN
  /\ ForceOnlyWhenPluggedIn \in BOOLEAN
  /\ MaxVersion \in Nat \ {0}

Loops == {"poll", "force"}
NoLoop == "none"

VARIABLES
  ctxDone,      \* the root context has been cancelled
  apiMu,        \* holder of Scheduler.apiMu, or NoLoop
  pc,           \* where each loop's goroutine is
  attempt,      \* fetchWithRetry's attempt counter, per loop
  st,           \* the VehicleState a cycle is publishing, per loop
  signal,       \* poll: the ticker; force: the timer of s.after(wait)
  world,        \* version of the car's state held by the backend
  stateTopic,   \* version in the retained state document (0: none)
  attrsTopic,   \* version in the retained tracker attributes (0: none)
  trackerTopic, \* the retained tracker state "None" has been published
  lastCached,   \* history: PluggedIn of the latest cached answer received
  wakes         \* history: ForceStatus calls made since the timer last fired

brokerVars == <<stateTopic, attrsTopic, trackerTopic>>
serverVars == <<ready, consecutiveFailures, metrics>>
historyVars == <<lastCached, wakes>>
vars == <<ctxDone, apiMu, pc, attempt, st, signal, world,
          brokerVars, serverVars, historyVars>>

Versions == 0 .. MaxVersion

\* A VehicleState: which version of the car's state, and whether Latitude and
\* Longitude are known.
VehicleState == [version : Versions, gps : BOOLEAN]
NoState == [version |-> 0, gps |-> FALSE]

\* Program points.  "wait" is a loop's select, "lock" is apiMu.Lock, "failed"
\* is the error return of fetchWithRetry before the caller looks at ctx.Err.
PCs == {"wait", "lock", "precheck", "fetch", "backoff", "failed",
        "pubState", "pubAttrs", "pubTracker", "record", "mark", "done"}

CriticalPCs == PCs \ {"wait", "lock", "done"}
Publishing == {"pubState", "pubAttrs", "pubTracker", "record", "mark"}

\* Run starts pollLoop at its immediate first poll, before its ticker exists,
\* and forceLoop, if enabled, at its select with the timer armed.  Topics may
\* still hold what an earlier run of the service left retained.
Init ==
  /\ ctxDone = FALSE
  /\ apiMu = NoLoop
  /\ pc = [p \in Loops |-> IF p = "poll" THEN "lock"
                           ELSE IF ForceEnabled THEN "wait" ELSE "done"]
  /\ attempt = [p \in Loops |-> 0]
  /\ st = [p \in Loops |-> NoState]
  /\ signal = [p \in Loops |-> IF p = "force" /\ ForceEnabled THEN "idle" ELSE "off"]
  /\ world = 1
  /\ stateTopic \in 0 .. 1
  /\ attrsTopic \in 0 .. stateTopic
  /\ trackerTopic \in BOOLEAN
  /\ lastCached = "unknown"
  /\ wakes = 0
  /\ ServerInit

-----------------------------------------------------------------------------
(* The environment: cancellation, the timers, the car.                     *)

\* SIGTERM, SIGINT, or the process leaving runServe: ctx is cancelled once.
Cancel ==
  /\ ~ctxDone
  /\ ctxDone' = TRUE
  /\ UNCHANGED <<apiMu, pc, attempt, st, signal, world,
                 brokerVars, serverVars, historyVars>>

\* A ticker's channel holds one tick and further ticks are dropped; the force
\* timer fires once.
Fire(p) ==
  /\ signal[p] = "idle"
  /\ signal' = [signal EXCEPT ![p] = "fired"]
  /\ UNCHANGED <<ctxDone, apiMu, pc, attempt, st, world,
                 brokerVars, serverVars, historyVars>>

CarChanges ==
  /\ world < MaxVersion
  /\ world' = world + 1
  /\ UNCHANGED <<ctxDone, apiMu, pc, attempt, st, signal,
                 brokerVars, serverVars, historyVars>>

-----------------------------------------------------------------------------
(* The loops.                                                              *)

Goto(p, label) == pc' = [pc EXCEPT ![p] = label]

\* select: the tick (or timer) is taken.  time.After is a fresh timer each
\* round, the ticker keeps running during the cycle.
StartCycle(p) ==
  /\ pc[p] = "wait"
  /\ signal[p] = "fired"
  /\ Goto(p, "lock")
  /\ signal' = [signal EXCEPT ![p] = IF p = "poll" THEN "idle" ELSE "off"]
  /\ wakes' = IF p = "force" THEN 0 ELSE wakes
  /\ UNCHANGED <<ctxDone, apiMu, attempt, st, world,
                 brokerVars, serverVars, lastCached>>

\* Mutant: a pending tick takes precedence over ctx.Done.
ExitLoop_TickFirst(p) ==
  /\ pc[p] = "wait"
  /\ ctxDone
  /\ signal[p] # "fired"
  /\ Goto(p, "done")
  /\ signal' = [signal EXCEPT ![p] = "off"]
  /\ UNCHANGED <<ctxDone, apiMu, attempt, st, world,
                 brokerVars, serverVars, historyVars>>

\* select: ctx.Done is taken; also possible when the tick is ready as well.
ExitLoop(p) ==
  /\ pc[p] = "wait"
  /\ ctxDone
  /\ Goto(p, "done")
  /\ signal' = [signal EXCEPT ![p] = "off"]
  /\ UNCHANGED <<ctxDone, apiMu, attempt, st, world,
                 brokerVars, serverVars, historyVars>>

\* The end of poll / forceRefresh: the deferred unlock, the locals die, and the
\* loop is back at its select.  The first return creates the ticker; every
\* return of forceRefresh arms a new timer.
Release(p) ==
  /\ apiMu' = NoLoop
  /\ Goto(p, "wait")
  /\ attempt' = [attempt EXCEPT ![p] = 0]
  /\ st' = [st EXCEPT ![p] = NoState]
  /\ signal' = [signal EXCEPT ![p] = IF signal[p] = "off" THEN "idle" ELSE signal[p]]

\* A call of the fetcher begins.  With a cancelled context the HTTP client
\* refuses to send, so the call fails without reaching the API.
BeginFetch(p) ==
  /\ Goto(p, IF ctxDone THEN "failed" ELSE "fetch")
  /\ wakes' = IF p = "force" /\ ~ctxDone THEN wakes + 1 ELSE wakes

-----------------------------------------------------------------------------
(* poll and forceRefresh up to the fetch.                                  *)

Gated(p) == p = "force" /\ ForceOnlyWhenPluggedIn

\* Mutant: the cycle goes ahead without taking apiMu.
Acquire_NoLock(p) ==
  /\ pc[p] = "lock"
  /\ apiMu' = p
  /\ IF Gated(p) THEN Goto(p, IF ctxDone THEN "failed" ELSE "precheck") /\ UNCHANGED wakes
                 ELSE BeginFetch(p)
  /\ UNCHANGED <<ctxDone, attempt, st, signal, world,
                 brokerVars, serverVars, lastCached>>

Acquire(p) ==
  /\ pc[p] = "lock"
  /\ apiMu = NoLoop
  /\ apiMu' = p
  /\ IF Gated(p) THEN Goto(p, IF ctxDone THEN "failed" ELSE "precheck") /\ UNCHANGED wakes
                 ELSE BeginFetch(p)
  /\ UNCHANGED <<ctxDone, attempt, st, signal, world,
                 brokerVars, serverVars, lastCached>>

\* The one, unretried CachedStatus of the gate answers "plugged in".
PrecheckPass(p) ==
  /\ pc[p] = "precheck"
  /\ lastCached' = "plugged"
  /\ BeginFetch(p)
  /\ UNCHANGED <<ctxDone, apiMu, attempt, st, signal, world, brokerVars, serverVars>>

\* Mutant: the gate forgets to return when the car is not plugged in.
PrecheckSkip_NoReturn(p) ==
  /\ pc[p] = "precheck"
  /\ lastCached' = "unplugged"
  /\ BeginFetch(p)
  /\ UNCHANGED <<ctxDone, apiMu, attempt, st, signal, world, brokerVars, serverVars>>

\* PluggedIn is nil or false: the cycle ends without publishing what was read.
PrecheckSkip(p) ==
  /\ pc[p] = "precheck"
  /\ lastCached' = "unplugged"
  /\ Release(p)
  /\ UNCHANGED <<ctxDone, world, brokerVars, serverVars, wakes>>

\* The pre-check fails: the cycle ends and health is not told.
PrecheckError(p) ==
  /\ pc[p] = "precheck"
  /\ Release(p)
  /\ UNCHANGED <<ctxDone, world, brokerVars, serverVars, historyVars>>

-----------------------------------------------------------------------------
(* fetchWithRetry.                                                         *)

\* CachedStatus and ForceStatus: the status, then the park location, whose failure
\* only leaves the position as the status has it.
Fetched(p) ==
  \E gps \in BOOLEAN : st' = [st EXCEPT ![p] = [version |-> world, gps |-> gps]]

\* Mutant: apiMu is released before the fetched state is published.
FetchOk_EarlyUnlock(p) ==
  /\ pc[p] = "fetch"
  /\ Fetched(p)
  /\ IF p = "poll" THEN lastCached' \in {"plugged", "unplugged"} ELSE UNCHANGED lastCached
  /\ Goto(p, "pubState")
  /\ apiMu' = NoLoop
  /\ UNCHANGED <<ctxDone, attempt, signal, world, brokerVars, serverVars, wakes>>

FetchOk(p) ==
  /\ pc[p] = "fetch"
  /\ Fetched(p)
  /\ IF p = "poll" THEN lastCached' \in {"plugged", "unplugged"} ELSE UNCHANGED lastCached
  /\ Goto(p, "pubState")
  /\ UNCHANGED <<ctxDone, apiMu, attempt, signal, world, brokerVars, serverVars, wakes>>

\* Mutant: one attempt too many.
FetchError_ExtraRetry(p) ==
  /\ pc[p] = "fetch"
  /\ Goto(p, IF ~ctxDone /\ attempt[p] <= MaxRetries THEN "backoff" ELSE "failed")
  /\ UNCHANGED <<ctxDone, apiMu, attempt, st, signal, world,
                 brokerVars, serverVars, historyVars>>

FetchError(p) ==
  /\ pc[p] = "fetch"
  /\ Goto(p, IF ~ctxDone /\ attempt[p] < MaxRetries THEN "backoff" ELSE "failed")
  /\ UNCHANGED <<ctxDone, apiMu, attempt, st, signal, world,
                 brokerVars, serverVars, historyVars>>

\* Mutant: the attempt counter is not advanced.
RetryFetch_NoIncrement(p) ==
  /\ pc[p] = "backoff"
  /\ BeginFetch(p)
  /\ UNCHANGED <<ctxDone, apiMu, attempt, st, signal, world, brokerVars, serverVars, lastCached>>

\* The backoff timer fires; apiMu stayed locked.
RetryFetch(p) ==
  /\ pc[p] = "backoff"
  /\ attempt' = [attempt EXCEPT ![p] = attempt[p] + 1]
  /\ BeginFetch(p)
  /\ UNCHANGED <<ctxDone, apiMu, st, signal, world, brokerVars, serverVars, lastCached>>

BackoffCancelled(p) ==
  /\ pc[p] = "backoff"
  /\ ctxDone
  /\ Goto(p, "failed")
  /\ UNCHANGED <<ctxDone, apiMu, attempt, st, signal, world,
                 brokerVars, serverVars, historyVars>>

\* Mutant: the caller does not look at ctx.Err before blaming the API.
ReportFailure_NoCtxCheck(p) ==
  /\ pc[p] = "failed"
  /\ MarkFailure
  /\ Release(p)
  /\ UNCHANGED <<ctxDone, world, brokerVars, metrics, historyVars>>

ReportFailure(p) ==
  /\ pc[p] = "failed"
  /\ ~ctxDone
  /\ MarkFailure
  /\ Release(p)
  /\ UNCHANGED <<ctxDone, world, brokerVars, metrics, historyVars>>

\* A fetch that failed because of the shutdown is not a failure of the service.
AbandonCycle(p) ==
  /\ pc[p] = "failed"
  /\ ctxDone
  /\ Release(p)
  /\ UNCHANGED <<ctxDone, world, brokerVars, serverVars, historyVars>>

-----------------------------------------------------------------------------
(* PublishState: three QoS 1 publishes, each of which may be acknowledged, *)
(* be lost, or be delivered and still return an error (timeout,            *)
(* cancellation or a dropped connection before the PUBACK).                *)

PublishFails(p) ==
  /\ MarkFailure
  /\ Release(p)

Proceed(p, label) ==
  /\ Goto(p, label)
  /\ UNCHANGED <<apiMu, attempt, st, signal, ready, consecutiveFailures>>

\* Mutant: an error of this publish is ignored.
PublishStateDoc_IgnoreError(p) ==
  /\ pc[p] = "pubState"
  /\ stateTopic' \in {stateTopic, st[p].version}
  /\ Proceed(p, IF st[p].gps THEN "pubAttrs" ELSE "pubTracker")
  /\ UNCHANGED <<ctxDone, world, attrsTopic, trackerTopic, metrics, historyVars>>

PublishStateDoc(p) ==
  /\ pc[p] = "pubState"
  /\ \/ stateTopic' = st[p].version
        /\ Proceed(p, IF st[p].gps THEN "pubAttrs" ELSE "pubTracker")
     \/ stateTopic' \in {stateTopic, st[p].version} /\ PublishFails(p)
  /\ UNCHANGED <<ctxDone, world, attrsTopic, trackerTopic, metrics, historyVars>>

\* Mutant: an error of this publish is ignored.
PublishAttrs_IgnoreError(p) ==
  /\ pc[p] = "pubAttrs"
  /\ attrsTopic' \in {attrsTopic, st[p].version}
  /\ Proceed(p, "pubTracker")
  /\ UNCHANGED <<ctxDone, world, stateTopic, trackerTopic, metrics, historyVars>>

PublishAttrs(p) ==
  /\ pc[p] = "pubAttrs"
  /\ \/ attrsTopic' = st[p].version /\ Proceed(p, "pubTracker")
     \/ attrsTopic' \in {attrsTopic, st[p].version} /\ PublishFails(p)
  /\ UNCHANGED <<ctxDone, world, stateTopic, trackerTopic, metrics, historyVars>>

PublishTracker(p) ==
  /\ pc[p] = "pubTracker"
  /\ \/ trackerTopic' = TRUE /\ Proceed(p, "record")
     \/ trackerTopic' \in {trackerTopic, TRUE} /\ PublishFails(p)
  /\ UNCHANGED <<ctxDone, world, stateTopic, attrsTopic, metrics, historyVars>>

\* recordingPublisher: the page's snapshot follows a successful publish.
RecordMetrics(p) ==
  /\ pc[p] = "record"
  /\ SetMetrics(st[p].version)
  /\ Goto(p, "mark")
  /\ UNCHANGED <<ctxDone, apiMu, attempt, st, signal, world,
                 brokerVars, healthVars, historyVars>>

ReportSuccess(p) ==
  /\ pc[p] = "mark"
  /\ MarkSuccess
  /\ Release(p)
  /\ UNCHANGED <<ctxDone, world, brokerVars, metrics, historyVars>>

-----------------------------------------------------------------------------
Step(p) ==
  \/ StartCycle(p) \/ ExitLoop(p) \/ Acquire(p)
  \/ PrecheckPass(p) \/ PrecheckSkip(p) \/ PrecheckError(p)
  \/ FetchOk(p) \/ FetchError(p) \/ RetryFetch(p) \/ BackoffCancelled(p)
  \/ ReportFailure(p) \/ AbandonCycle(p)
  \/ PublishStateDoc(p) \/ PublishAttrs(p) \/ PublishTracker(p)
  \/ RecordMetrics(p) \/ ReportSuccess(p)

\* Run's wg.Wait has returned.
Returned == \A p \in Loops : pc[p] = "done"

Terminated == Returned /\ UNCHANGED vars

Next ==
  \/ Cancel \/ CarChanges \/ Terminated
  \/ \E p \in Loops : Fire(p) \/ Step(p)

Spec == Init /\ [][Next]_vars

\* Fairness.  A goroutine that can move moves: HTTP calls, publishes and backoff
\* timers all return in bounded time.  sync.Mutex hands over to a waiter that
\* starves, and select picks uniformly among its ready cases, so neither a lock
\* nor ctx.Done is passed over for ever.  The timers and the car owe nothing.
Fairness ==
  \A p \in Loops : WF_vars(Step(p)) /\ SF_vars(Acquire(p)) /\ SF_vars(ExitLoop(p))

FairSpec == Spec /\ Fairness

-----------------------------------------------------------------------------
(* Properties.                                                             *)

\* Every variable stays in its type.
TypeOK ==
  /\ ctxDone \in BOOLEAN
  /\ apiMu \in Loops \union {NoLoop}
  /\ pc \in [Loops -> PCs]
  /\ attempt \in [Loops -> 0 .. MaxRetries]
  /\ st \in [Loops -> VehicleState]
  /\ signal \in [Loops -> {"off", "idle", "fired"}]
  /\ world \in Versions
  /\ stateTopic \in Versions
  /\ attrsTopic \in Versions
  /\ trackerTopic \in BOOLEAN
  /\ metrics \in Versions
  /\ ready \in BOOLEAN
  /\ consecutiveFailures \in 0 .. FailureCap
  /\ lastCached \in {"unknown", "plugged", "unplugged"}
  /\ wakes \in Nat

\* apiMu's promise: a force refresh and a cached poll never overlap, neither on
\* the API nor between a fetch and the publishing of what it returned.
NeverOverlap == ~ \A p \in Loops : pc[p] \in CriticalPCs

\* PublishState under apiMu: what Home Assistant and the page show never goes
\* back to an older state of the car, whichever loop fetched it and however the
\* publishes fail.
NeverRegresses ==
  [][stateTopic' >= stateTopic /\ attrsTopic' >= attrsTopic /\ metrics' >= metrics]_vars

\* PublishState's order (state document, tracker, then the page): a failure part
\* way leaves the tracker or the page behind the state document, never ahead.
FollowersNeverAhead == attrsTopic <= stateTopic /\ metrics <= stateTopic

\* poll and forceRefresh call MarkSuccess only when every topic and the page hold
\* the snapshot of this very cycle (the attributes if its position is known).
SuccessMeansDelivered ==
  \A p \in Loops : pc[p] = "mark" =>
    /\ stateTopic = st[p].version
    /\ metrics = st[p].version
    /\ trackerTopic
    /\ st[p].gps => attrsTopic = st[p].version

\* forceRefresh's gate: while the car is being woken, retries included, the
\* latest cached answer the service received is the one that said plugged in.
WokenOnlyWhenPluggedIn ==
  ForceOnlyWhenPluggedIn /\ pc["force"] \in {"fetch", "backoff"} => lastCached = "plugged"

\* fetchWithRetry bounds how often one firing of the force timer calls
\* ForceStatus.
WakeBudget == wakes <= MaxRetries + 1

\* The ctx.Err checks of fetchWithRetry, poll and forceRefresh: once ctx is
\* cancelled no fetch counts as a failure; only a publish still may.
ShutdownIsNotFailure ==
  [][ctxDone /\ (consecutiveFailures' > consecutiveFailures \/ (ready /\ ~ready'))
       => \E p \in Loops : pc[p] \in {"pubState", "pubAttrs", "pubTracker"} /\ pc'[p] = "wait"]_vars

\* The scheduler keeps the service's contract: readiness as seen by the probe is
\* a saturating count of failures since the last success, and a success is never
\* reported for a cycle whose state document was not acknowledged.
Contract == INSTANCE ServiceContract WITH
  Threshold <- threshold,
  fails <- IF ready THEN consecutiveFailures ELSE threshold,
  shown <- stateTopic,
  fresh <- \E p \in Loops : pc[p] \in Publishing \ {"pubState"}

KeepsContract == Contract!Spec

\* Run returns after a cancellation, whatever the loops were doing.
RunReturns == ctxDone ~> Returned

\* A poll that waits for apiMu gets it and its cycle ends, although a force
\* refresh holds the mutex through all of its retries and backoffs.
PollCycleEnds == pc["poll"] = "lock" ~> pc["poll"] \in {"wait", "done"}

\* The overview's "at most once per day": one firing of the daily timer wakes the
\* car once.
WakesOncePerDay == wakes <= 1
=============================================================================
