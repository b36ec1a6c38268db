--------------------------- MODULE SchedulerProofs ---------------------------
(***************************************************************************)
(* Proofs about Scheduler, for every threshold, retry count, bound and     *)
(* setting of the force refresh.                                           *)
(*                                                                         *)
(* The invariants of interest are not inductive.  That nothing regresses   *)
(* rests on the order fetch -> publish being the order of the versions,    *)
(* which rests on apiMu being held from the fetch to the last publish      *)
(* (Ownership), on the snapshot in hand being no older than what is        *)
(* retained and no newer than the backend (Snapshots), and on where in     *)
(* PublishState a cycle is (Progress).                                     *)
(***************************************************************************)
EXTENDS Scheduler, TLAPS

\* A loop inside poll or forceRefresh holds apiMu.
Ownership == \A p \in Loops : pc[p] \in CriticalPCs => apiMu = p

\* fetchWithRetry only backs off when an attempt is left.
Attempts == \A p \in Loops : pc[p] = "backoff" => attempt[p] < MaxRetries

\* Before a force cycle's first ForceStatus no attempt has been made, and later
\* there is at most one ForceStatus per attempt.
WakeCount ==
  /\ pc["force"] \in {"wait", "lock", "precheck"} => attempt["force"] = 0
  /\ pc["force"] \in {"lock", "precheck"} => wakes = 0
  /\ pc["force"] \in {"fetch", "backoff"} => wakes <= attempt["force"] + 1
  /\ wakes <= MaxRetries + 1

\* The snapshot a cycle is publishing lies between the retained document and the
\* backend's version.
Snapshots ==
  /\ stateTopic <= world
  /\ \A p \in Loops : pc[p] \in Publishing =>
       stateTopic <= st[p].version /\ st[p].version <= world

\* What the publishes already made in a cycle have left at the broker.
Progress ==
  \A p \in Loops :
    /\ pc[p] \in Publishing \ {"pubState"} => stateTopic = st[p].version
    /\ pc[p] \in {"pubTracker", "record", "mark"} /\ st[p].gps => attrsTopic = st[p].version
    /\ pc[p] \in {"record", "mark"} => trackerTopic
    /\ pc[p] = "mark" => metrics = st[p].version

\* A ready server has not yet counted Threshold failures.
Health == ready => consecutiveFailures < threshold

IInv ==
  /\ TypeOK
  /\ Ownership
  /\ Attempts
  /\ WakeCount
  /\ Snapshots
  /\ Progress
  /\ FollowersNeverAhead
  /\ WokenOnlyWhenPluggedIn
  /\ Health

\* The constants derived by the two New functions are what the model needs.
LEMMA Constants ==
  /\ threshold \in Nat \ {0}
  /\ FailureCap \in Nat
  /\ FailureCap >= threshold
  /\ MaxRetries \in Nat
  /\ MaxVersion \in Nat \ {0}
  /\ ForceEnabled \in BOOLEAN
  /\ ForceOnlyWhenPluggedIn \in BOOLEAN
  BY StatusServerAssumption, SchedulerAssumption DEF threshold, MaxRetries

\* MarkFailure keeps the counter in range and drops readiness in time.
LEMMA MarkFailureHealth ==
  ASSUME ready \in BOOLEAN, consecutiveFailures \in 0 .. FailureCap, MarkFailure
  PROVE  /\ ready' \in BOOLEAN
         /\ consecutiveFailures' \in 0 .. FailureCap
         /\ Health'
<1>1. ready' \in BOOLEAN /\ (ready' => consecutiveFailures' < threshold)
  BY Zenon DEF MarkFailure
<1>2. consecutiveFailures' \in 0 .. FailureCap
  BY Constants DEF MarkFailure, Increment
<1> QED
  BY <1>1, <1>2 DEF Health

\* A retained boolean that is published or not only ever turns true.
LEMMA PublishFlag ==
  ASSUME trackerTopic \in BOOLEAN, trackerTopic' \in {trackerTopic, TRUE}
  PROVE  trackerTopic' \in BOOLEAN /\ (trackerTopic => trackerTopic')
  OBVIOUS

\* The initial states satisfy the strengthened invariant.
LEMMA InitIInv == Init => IInv
<1> SUFFICES ASSUME Init PROVE IInv
  OBVIOUS
<1> USE Constants DEF Init, ServerInit, Loops
<1>1. TypeOK
  <2>1. pc \in [Loops -> PCs] /\ signal \in [Loops -> {"off", "idle", "fired"}]
    BY DEF PCs
  <2>2. st \in [Loops -> VehicleState]
    BY DEF NoState, Versions, VehicleState
  <2>3. /\ ctxDone \in BOOLEAN /\ trackerTopic \in BOOLEAN /\ ready \in BOOLEAN
        /\ apiMu \in Loops \union {NoLoop}
        /\ lastCached \in {"unknown", "plugged", "unplugged"}
    BY DEF NoLoop
  <2>4. /\ attempt \in [Loops -> 0 .. MaxRetries] /\ wakes \in Nat
        /\ world \in Versions /\ stateTopic \in Versions /\ attrsTopic \in Versions
        /\ metrics \in Versions /\ consecutiveFailures \in 0 .. FailureCap
    BY DEF Versions
  <2> QED
    BY <2>1, <2>2, <2>3, <2>4 DEF TypeOK
<1>2. Ownership /\ Attempts /\ WakeCount
  BY DEF Ownership, Attempts, WakeCount, CriticalPCs, PCs
<1>3. Snapshots /\ Progress /\ FollowersNeverAhead
  BY DEF Snapshots, Progress, FollowersNeverAhead, Publishing
<1>4. WokenOnlyWhenPluggedIn /\ Health
  BY DEF WokenOnlyWhenPluggedIn, Health
<1> QED
  BY <1>1, <1>2, <1>3, <1>4 DEF IInv

\* Every step, of either loop or of the environment, preserves the strengthened
\* invariant.
LEMMA NextIInv == IInv /\ [Next]_vars => IInv'
<1> SUFFICES ASSUME IInv, [Next]_vars PROVE IInv'
  OBVIOUS
<1> USE Constants DEF IInv, TypeOK, Ownership, Attempts, WakeCount,
     Snapshots, Progress, FollowersNeverAhead, WokenOnlyWhenPluggedIn, Health,
     Loops, NoLoop, PCs, CriticalPCs, Publishing, Versions, VehicleState, NoState,
     vars, brokerVars, serverVars, healthVars, historyVars
<1>1. CASE Cancel
  BY <1>1 DEF Cancel
<1>2. CASE CarChanges
  BY <1>2 DEF CarChanges
<1>3. CASE Terminated
  BY <1>3 DEF Terminated
<1>4. CASE UNCHANGED vars
  BY <1>4
<1>5. ASSUME NEW p \in Loops, Fire(p) PROVE IInv'
  BY <1>5 DEF Fire
<1>6. ASSUME NEW p \in Loops, Step(p) PROVE IInv'
  <2>1. CASE StartCycle(p)
    <3>1. TypeOK'
      <4>1. pc' \in [Loops -> PCs]
        BY <2>1 DEF StartCycle, Goto
      <4>2. signal' \in [Loops -> {"off", "idle", "fired"}]
        BY <2>1 DEF StartCycle
      <4> QED
        BY <2>1, <4>1, <4>2 DEF StartCycle
    <3>2. Ownership' /\ Attempts' /\ WakeCount'
      BY <2>1 DEF StartCycle, Goto
    <3>3. Snapshots' /\ Progress' /\ FollowersNeverAhead' /\ WokenOnlyWhenPluggedIn' /\ Health'
      BY <2>1 DEF StartCycle, Goto
    <3> QED
      BY <3>1, <3>2, <3>3
  <2>2. CASE ExitLoop(p)
    BY <2>2 DEF ExitLoop, Goto
  <2>3. CASE Acquire(p)
    BY <2>3 DEF Acquire, Gated, BeginFetch, Goto
  <2>4. CASE PrecheckPass(p)
    BY <2>4 DEF PrecheckPass, BeginFetch, Goto
  <2>5. CASE PrecheckSkip(p)
    BY <2>5 DEF PrecheckSkip, Release, Goto
  <2>6. CASE PrecheckError(p)
    BY <2>6 DEF PrecheckError, Release, Goto
  <2>7. CASE FetchOk(p)
    BY <2>7 DEF FetchOk, Fetched, Goto
  <2>8. CASE FetchError(p)
    BY <2>8 DEF FetchError, Goto
  <2>9. CASE RetryFetch(p)
    BY <2>9 DEF RetryFetch, BeginFetch, Goto
  <2>10. CASE BackoffCancelled(p)
    BY <2>10 DEF BackoffCancelled, Goto
  <2>11. CASE ReportFailure(p)
    BY <2>11 DEF ReportFailure, MarkFailure, Increment, Release, Goto
  <2>12. CASE AbandonCycle(p)
    BY <2>12 DEF AbandonCycle, Release, Goto
  <2>13. CASE PublishStateDoc(p)
    <3>1. CASE stateTopic' \in {stateTopic, st[p].version} /\ PublishFails(p)
      <4>1. stateTopic' \in Versions
        BY <2>13, <3>1 DEF PublishStateDoc
      <4>2. /\ ready' \in BOOLEAN
            /\ consecutiveFailures' \in 0 .. FailureCap
            /\ Health'
        BY <3>1, MarkFailureHealth DEF PublishFails
      <4>3. TypeOK'
        BY <2>13, <3>1, <4>1, <4>2 DEF PublishStateDoc, PublishFails, Release, Goto
      <4>4. Ownership' /\ Attempts' /\ WakeCount' /\ WokenOnlyWhenPluggedIn'
        BY <2>13, <3>1 DEF PublishStateDoc, PublishFails, Release, Goto
      <4>5. Snapshots' /\ Progress' /\ FollowersNeverAhead'
        BY <2>13, <3>1, <4>1 DEF PublishStateDoc, PublishFails, Release, Goto
      <4> QED
        BY <4>2, <4>3, <4>4, <4>5
    <3>2. CASE stateTopic' = st[p].version /\ Proceed(p, IF st[p].gps THEN "pubAttrs" ELSE "pubTracker")
      BY <2>13, <3>2 DEF PublishStateDoc, Proceed, Goto
    <3> QED
      BY <2>13, <3>1, <3>2 DEF PublishStateDoc
  <2>14. CASE PublishAttrs(p)
    <3>1. CASE attrsTopic' \in {attrsTopic, st[p].version} /\ PublishFails(p)
      <4>1. attrsTopic' \in Versions
        BY <2>14, <3>1 DEF PublishAttrs
      <4>2. /\ ready' \in BOOLEAN
            /\ consecutiveFailures' \in 0 .. FailureCap
            /\ Health'
        BY <3>1, MarkFailureHealth DEF PublishFails
      <4>3. TypeOK'
        BY <2>14, <3>1, <4>1, <4>2 DEF PublishAttrs, PublishFails, Release, Goto
      <4>4. Ownership' /\ Attempts' /\ WakeCount' /\ WokenOnlyWhenPluggedIn'
        BY <2>14, <3>1 DEF PublishAttrs, PublishFails, Release, Goto
      <4>5. Snapshots' /\ Progress' /\ FollowersNeverAhead'
        BY <2>14, <3>1, <4>1 DEF PublishAttrs, PublishFails, Release, Goto
      <4> QED
        BY <4>2, <4>3, <4>4, <4>5
    <3>2. CASE attrsTopic' = st[p].version /\ Proceed(p, "pubTracker")
      BY <2>14, <3>2 DEF PublishAttrs, Proceed, Goto
    <3> QED
      BY <2>14, <3>1, <3>2 DEF PublishAttrs
  <2>15. CASE PublishTracker(p)
    <3>1. CASE trackerTopic' \in {trackerTopic, TRUE} /\ PublishFails(p)
      <4>1. trackerTopic' \in BOOLEAN /\ (trackerTopic => trackerTopic')
        BY <3>1, PublishFlag
      <4>2. /\ ready' \in BOOLEAN
            /\ consecutiveFailures' \in 0 .. FailureCap
            /\ Health'
        BY <3>1, MarkFailureHealth DEF PublishFails
      <4>3. TypeOK'
        BY <2>15, <3>1, <4>1, <4>2 DEF PublishTracker, PublishFails, Release, Goto
      <4>4. Ownership' /\ Attempts' /\ WakeCount' /\ WokenOnlyWhenPluggedIn'
        BY <2>15, <3>1 DEF PublishTracker, PublishFails, Release, Goto
      <4>5. Snapshots' /\ Progress' /\ FollowersNeverAhead'
        BY <2>15, <3>1, <4>1 DEF PublishTracker, PublishFails, Release, Goto
      <4> QED
        BY <4>2, <4>3, <4>4, <4>5
    <3>2. CASE trackerTopic' = TRUE /\ Proceed(p, "record")
      BY <2>15, <3>2 DEF PublishTracker, Proceed, Goto
    <3> QED
      BY <2>15, <3>1, <3>2 DEF PublishTracker
  <2>16. CASE RecordMetrics(p)
    BY <2>16 DEF RecordMetrics, SetMetrics, Goto
  <2>17. CASE ReportSuccess(p)
    BY <2>17 DEF ReportSuccess, MarkSuccess, Release, Goto
  <2> QED
    BY <1>6, <2>1, <2>2, <2>3, <2>4, <2>5, <2>6, <2>7, <2>8, <2>9, <2>10, <2>11,
       <2>12, <2>13, <2>14, <2>15, <2>16, <2>17 DEF Step
<1> QED
  BY <1>1, <1>2, <1>3, <1>4, <1>5, <1>6 DEF Next

-----------------------------------------------------------------------------
(* The theorems.                                                           *)

\* The strengthened invariant holds in every reachable state.
THEOREM Invariance == Spec => []IInv
  BY InitIInv, NextIInv, PTL DEF Spec

\* Every variable keeps its type, for all constants.
THEOREM TypeCorrect == Spec => []TypeOK
<1>1. IInv => TypeOK
  BY DEF IInv
<1> QED
  BY <1>1, Invariance, PTL

\* A force refresh and a cached poll never overlap.
THEOREM MutualExclusion == Spec => []NeverOverlap
<1>1. IInv => NeverOverlap
  BY DEF IInv, Ownership, NeverOverlap, Loops
<1> QED
  BY <1>1, Invariance, PTL

\* The tracker and the page never show a newer state than the state document.
THEOREM FollowersFollow == Spec => []FollowersNeverAhead
<1>1. IInv => FollowersNeverAhead
  BY DEF IInv
<1> QED
  BY <1>1, Invariance, PTL

\* Success is only reported for a snapshot that every topic and the page hold.
THEOREM SuccessDelivered == Spec => []SuccessMeansDelivered
<1>1. IInv => SuccessMeansDelivered
  BY DEF IInv, Progress, SuccessMeansDelivered, Publishing
<1> QED
  BY <1>1, Invariance, PTL

\* With the gate on, the car is only woken on the strength of a cached answer
\* that said plugged in and that no later answer contradicts.
THEOREM WakeSafety == Spec => []WokenOnlyWhenPluggedIn
BY Invariance, PTL DEF IInv

\* fetchWithRetry: one firing of the timer makes at most MaxRetries + 1 ForceStatus
\* calls.
THEOREM WakesBounded == Spec => []WakeBudget
<1>1. IInv => WakeBudget
  BY DEF IInv, WakeCount, WakeBudget
<1> QED
  BY <1>1, Invariance, PTL

\* One step never takes the state document, the tracker attributes or the page
\* back to an older state of the car.
LEMMA StepNeverRegresses ==
  ASSUME IInv, [Next]_vars
  PROVE  stateTopic' >= stateTopic /\ attrsTopic' >= attrsTopic /\ metrics' >= metrics
<1> USE DEF IInv, TypeOK, Versions, VehicleState, Snapshots, Progress, FollowersNeverAhead, Publishing,
        Loops, vars, brokerVars, serverVars, healthVars, historyVars
<1> DEFINE Forward == /\ stateTopic' >= stateTopic
                      /\ attrsTopic' >= attrsTopic
                      /\ metrics' >= metrics
<1>0. /\ stateTopic \in Nat /\ attrsTopic \in Nat /\ metrics \in Nat
      /\ \A p \in Loops : st[p].version \in Nat
  BY Constants
<1>1. CASE UNCHANGED <<brokerVars, metrics>>
  BY <1>0, <1>1
<1>2. ASSUME NEW p \in Loops, PublishStateDoc(p) PROVE Forward
  BY <1>0, <1>2 DEF PublishStateDoc
<1>3. ASSUME NEW p \in Loops, PublishAttrs(p) PROVE Forward
  BY <1>0, <1>3 DEF PublishAttrs
<1>4. ASSUME NEW p \in Loops, RecordMetrics(p) PROVE Forward
  BY <1>0, <1>4 DEF RecordMetrics, SetMetrics
<1>5. ASSUME NEW p \in Loops, PublishTracker(p) PROVE Forward
  BY <1>0, <1>5 DEF PublishTracker
<1>6. \/ UNCHANGED <<brokerVars, metrics>>
      \/ \E p \in Loops : \/ PublishStateDoc(p) \/ PublishAttrs(p)
                           \/ PublishTracker(p) \/ RecordMetrics(p)
  BY DEF Next, Cancel, CarChanges, Terminated, Fire, Step, StartCycle, ExitLoop, Acquire,
     PrecheckPass, PrecheckSkip, PrecheckError, FetchOk, Fetched, FetchError, RetryFetch,
     BackoffCancelled, ReportFailure, AbandonCycle, ReportSuccess
<1> QED
  BY <1>1, <1>2, <1>3, <1>4, <1>5, <1>6

\* What Home Assistant and the page show only ever moves forward.
THEOREM Monotone == Spec => NeverRegresses
<1>1. IInv /\ [Next]_vars =>
        [stateTopic' >= stateTopic /\ attrsTopic' >= attrsTopic /\ metrics' >= metrics]_vars
  BY StepNeverRegresses
<1> QED
  BY <1>1, Invariance, PTL DEF Spec, NeverRegresses

\* Once ctx is cancelled, a step that counts a failure is a failed publish.
LEMMA StepShutdown ==
  ASSUME IInv, [Next]_vars, ctxDone,
         consecutiveFailures' > consecutiveFailures \/ (ready /\ ~ready')
  PROVE  \E p \in Loops : pc[p] \in {"pubState", "pubAttrs", "pubTracker"} /\ pc'[p] = "wait"
<1>1. consecutiveFailures \in Nat /\ pc \in [Loops -> PCs]
  BY Constants DEF IInv, TypeOK
<1>2. ~ UNCHANGED healthVars
  BY <1>1 DEF healthVars
<1>3. PICK p \in Loops : \/ ReportFailure(p) \/ ReportSuccess(p)
                         \/ PublishStateDoc(p) \/ PublishAttrs(p) \/ PublishTracker(p)
  BY <1>2 DEF Next, vars, serverVars, healthVars, Cancel, CarChanges, Terminated, Fire, Step,
     StartCycle, ExitLoop, Acquire, PrecheckPass, PrecheckSkip, PrecheckError, FetchOk, Fetched,
     FetchError, RetryFetch, BackoffCancelled, AbandonCycle, RecordMetrics
<1>4. ~ ReportFailure(p)
  BY DEF ReportFailure
<1>5. ~ ReportSuccess(p)
  <2>1. ReportSuccess(p) => ready'
    BY Zenon DEF ReportSuccess, MarkSuccess
  <2>2. ReportSuccess(p) => ~ (consecutiveFailures' > consecutiveFailures)
    BY <1>1 DEF ReportSuccess, MarkSuccess
  <2> QED
    BY <2>1, <2>2, Zenon
<1>6. pc[p] \in {"pubState", "pubAttrs", "pubTracker"} /\ PublishFails(p)
  <2>1. pc[p] \in {"pubState", "pubAttrs", "pubTracker"}
    BY <1>3, <1>4, <1>5 DEF PublishStateDoc, PublishAttrs, PublishTracker
  <2>2. PublishFails(p) \/ \E label \in PCs : Proceed(p, label)
    BY <1>3, <1>4, <1>5 DEF PublishStateDoc, PublishAttrs, PublishTracker, PCs
  <2>3. \A label \in PCs : ~ Proceed(p, label)
    BY <1>2 DEF Proceed, healthVars
  <2> QED
    BY <2>1, <2>2, <2>3
<1> QED
  BY <1>1, <1>6 DEF PublishFails, Release, Goto

\* A fetch interrupted by the shutdown never counts against readiness.
THEOREM ShutdownHarmless == Spec => ShutdownIsNotFailure
<1>1. IInv /\ [Next]_vars =>
        [ctxDone /\ (consecutiveFailures' > consecutiveFailures \/ (ready /\ ~ready'))
          => \E p \in Loops : pc[p] \in {"pubState", "pubAttrs", "pubTracker"}
                             /\ pc'[p] = "wait"]_vars
  BY StepShutdown
<1> QED
  BY <1>1, Invariance, PTL DEF Spec, ShutdownIsNotFailure

-----------------------------------------------------------------------------
(* Refinement of ServiceContract.                                          *)

\* The initial states map to the contract's.
LEMMA InitContract == Init => Contract!Init
<1> SUFFICES ASSUME Init PROVE Contract!Init
  OBVIOUS
<1>1. ready = FALSE /\ stateTopic \in 0 .. MaxVersion
  BY Constants DEF Init, ServerInit
<1>2. \A p \in Loops : pc[p] \notin Publishing \ {"pubState"}
  BY DEF Init, Loops, Publishing
<1> QED
  BY <1>1, <1>2 DEF Contract!Init

\* A failure that the scheduler marks is a failure of the contract: the saturating
\* count and the readiness bit agree with server.go's counter and bit.
LEMMA MarkFailureContract ==
  ASSUME IInv, MarkFailure
  PROVE  /\ (IF ready' THEN consecutiveFailures' ELSE threshold) =
              LET f == IF ready THEN consecutiveFailures ELSE threshold
              IN  IF f < threshold THEN f + 1 ELSE threshold
         /\ ready' = ((IF ready' THEN consecutiveFailures' ELSE threshold) < threshold)
<1>1. /\ ready \in BOOLEAN /\ consecutiveFailures \in 0 .. FailureCap
      /\ ready => consecutiveFailures < threshold
  BY DEF IInv, TypeOK, Health
<1>2. ready' \in BOOLEAN /\ (ready' <=> ready /\ consecutiveFailures' < threshold)
  BY <1>1, Zenon DEF MarkFailure
<1>3. ready => consecutiveFailures' = consecutiveFailures + 1
  BY <1>1, Constants DEF MarkFailure, Increment
<1> HIDE DEF threshold
<1>4. CASE ready
  BY <1>1, <1>2, <1>3, <1>4, Constants
<1>5. CASE ~ready
  BY <1>1, <1>2, <1>5, Constants
<1> QED
  BY <1>4, <1>5

Fresh == \E p \in Loops : pc[p] \in Publishing \ {"pubState"}

\* A cycle that ends leaves no loop in the middle of publishing: the other one
\* does not hold apiMu.
LEMMA ReleaseNotFresh ==
  ASSUME IInv, NEW p \in Loops, pc[p] \in CriticalPCs, Release(p)
  PROVE  Fresh' = FALSE
  BY DEF IInv, TypeOK, Ownership, Release, Goto, Fresh, Loops, PCs, CriticalPCs, Publishing

\* A cycle that ends with MarkFailure is the contract's Fail, also when the state
\* document was delivered without an acknowledgement.
LEMMA FailContract ==
  ASSUME IInv, IInv', [Next]_vars, MarkFailure,
         NEW p \in Loops, pc[p] \in CriticalPCs, Release(p)
  PROVE  Contract!Fail
<1>1. Fresh' = FALSE
  BY ReleaseNotFresh
<1>2. stateTopic' \in stateTopic .. MaxVersion
  <2>1. stateTopic' >= stateTopic
    BY StepNeverRegresses
  <2>2. stateTopic \in Versions /\ stateTopic' \in Versions
    BY DEF IInv, TypeOK
  <2> QED
    BY <2>1, <2>2, Constants DEF Versions
<1> QED
  BY <1>1, <1>2, MarkFailureContract DEF Contract!Fail, Contract!NotOlder, Fresh

\* Every step of the scheduler is a step of the contract or changes nothing that
\* the contract shows.
LEMMA NextContract ==
  ASSUME IInv, IInv', [Next]_vars
  PROVE  [Contract!Next]_(Contract!contractVars)
<1> DEFINE Stutters == UNCHANGED <<ready, consecutiveFailures, stateTopic>> /\ Fresh' = Fresh
<1>1. Stutters => UNCHANGED Contract!contractVars
  BY DEF Contract!contractVars, Fresh
<1>2. CASE UNCHANGED vars \/ Cancel \/ CarChanges \/ Terminated \/ \E p \in Loops : Fire(p)
  BY <1>1, <1>2 DEF Cancel, CarChanges, Terminated, Fire, vars, brokerVars, serverVars, Fresh
<1>3. ASSUME NEW p \in Loops, Step(p) PROVE Contract!Next \/ Stutters
  <2> DEFINE Move == \/ StartCycle(p) \/ ExitLoop(p) \/ Acquire(p) \/ PrecheckPass(p)
                     \/ FetchOk(p) \/ FetchError(p) \/ RetryFetch(p) \/ BackoffCancelled(p)
  <2> DEFINE Quiet == PrecheckSkip(p) \/ PrecheckError(p) \/ AbandonCycle(p)
  <2>0. pc \in [Loops -> PCs]
    BY DEF IInv, TypeOK
  <2>1. CASE Move
    <3>1. UNCHANGED <<ready, consecutiveFailures, stateTopic>>
      BY <2>1 DEF StartCycle, ExitLoop, Acquire, PrecheckPass, FetchOk, Fetched, FetchError,
         RetryFetch, BackoffCancelled, brokerVars, serverVars
    <3>2. PICK label \in PCs \ (Publishing \ {"pubState"}) : Goto(p, label)
      BY <2>1 DEF StartCycle, ExitLoop, Acquire, PrecheckPass, FetchOk, Fetched, FetchError,
         RetryFetch, BackoffCancelled, BeginFetch, PCs, Publishing, Goto
    <3>3. pc[p] \notin Publishing
      BY <2>1 DEF StartCycle, ExitLoop, Acquire, PrecheckPass, FetchOk, Fetched, FetchError,
         RetryFetch, BackoffCancelled, Publishing
    <3>4. Fresh' = Fresh
      BY <2>0, <3>2, <3>3 DEF Goto, Fresh
    <3> QED
      BY <3>1, <3>4
  <2>2. CASE Quiet
    <3>1. UNCHANGED <<ready, consecutiveFailures, stateTopic>> /\ Release(p)
      BY <2>2 DEF PrecheckSkip, PrecheckError, AbandonCycle, brokerVars, serverVars
    <3>2. pc[p] \in CriticalPCs /\ pc[p] \notin Publishing
      BY <2>2 DEF PrecheckSkip, PrecheckError, AbandonCycle, CriticalPCs, PCs, Publishing
    <3>3. Fresh' = FALSE
      BY <3>1, <3>2, ReleaseNotFresh
    <3>4. Fresh = FALSE
      BY <2>0, <3>2 DEF IInv, Ownership, Fresh, Publishing, CriticalPCs, PCs
    <3> QED
      BY <3>1, <3>3, <3>4
  <2>3. CASE ReportFailure(p)
    BY <2>3, FailContract DEF ReportFailure, CriticalPCs, PCs, Contract!Next
  <2>4. CASE PublishStateDoc(p)
    <3>1. CASE PublishFails(p)
      BY <2>4, <3>1, FailContract DEF PublishStateDoc, PublishFails, CriticalPCs, PCs, Contract!Next
    <3>2. CASE stateTopic' = st[p].version
               /\ Proceed(p, IF st[p].gps THEN "pubAttrs" ELSE "pubTracker")
      <4>1. Fresh' = TRUE
        BY <2>0, <3>2 DEF Proceed, Goto, Fresh, Publishing
      <4>2. stateTopic' \in stateTopic .. MaxVersion
        BY <2>4, <3>2, Constants DEF PublishStateDoc, IInv, TypeOK, Versions, VehicleState, Snapshots, Publishing
      <4> QED
        BY <3>2, <4>1, <4>2 DEF Proceed, Contract!Next, Contract!Deliver, Contract!NotOlder, Fresh
    <3> QED
      BY <2>4, <3>1, <3>2 DEF PublishStateDoc
  <2>5. CASE PublishAttrs(p) \/ PublishTracker(p)
    <3>1. CASE PublishFails(p)
      BY <2>5, <3>1, FailContract
         DEF PublishAttrs, PublishTracker, PublishFails, CriticalPCs, PCs, Contract!Next
    <3>2. CASE Proceed(p, "pubTracker") \/ Proceed(p, "record")
      <4>1. Fresh /\ Fresh'
        BY <2>0, <2>5, <3>2 DEF PublishAttrs, PublishTracker, Proceed, Goto, Fresh, Publishing
      <4> QED
        BY <2>5, <3>2, <4>1 DEF PublishAttrs, PublishTracker, Proceed, Fresh
    <3> QED
      BY <2>5, <3>1, <3>2 DEF PublishAttrs, PublishTracker
  <2>6. CASE RecordMetrics(p)
    <3>1. Fresh /\ Fresh'
      BY <2>0, <2>6 DEF RecordMetrics, Goto, Fresh, Publishing
    <3> QED
      BY <2>6, <3>1 DEF RecordMetrics, brokerVars, healthVars, Fresh
  <2>7. CASE ReportSuccess(p)
    <3>1. Fresh
      BY <2>0, <2>7 DEF ReportSuccess, Fresh, Publishing
    <3>2. Fresh' = FALSE
      BY <2>7, ReleaseNotFresh DEF ReportSuccess, CriticalPCs, PCs
    <3>3. ready' = TRUE /\ consecutiveFailures' = 0 /\ stateTopic' = stateTopic
      BY <2>7 DEF ReportSuccess, MarkSuccess, brokerVars
    <3> QED
      BY <3>1, <3>2, <3>3 DEF Contract!Next, Contract!Succeed, Fresh
  <2> QED
    BY <1>3, <2>1, <2>2, <2>3, <2>4, <2>5, <2>6, <2>7 DEF Step
<1> QED
  BY <1>1, <1>2, <1>3 DEF Next

\* The scheduler implements the contract: readiness is the saturating count of
\* failures since the last success, success is reported only after the state
\* document was acknowledged, and the document never goes back.
THEOREM ImplementsContract == Spec => KeepsContract
<1>1. IInv /\ IInv' /\ [Next]_vars => [Contract!Next]_(Contract!contractVars)
  BY NextContract
<1> QED
  BY <1>1, InitContract, Invariance, PTL DEF Spec, KeepsContract, Contract!Spec
=============================================================================
