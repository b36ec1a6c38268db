---------------------------- MODULE StatusServer ----------------------------
(***************************************************************************)
(* The status server's shared snapshot (internal/server/server.go): the    *)
(* readiness bit behind /readyz, the consecutive-failure counter, and the  *)
(* metrics snapshot shown on the / page.  Each operation runs under        *)
(* Server.mu, so each is one step.  The scheduler is the only writer; the  *)
(* module is extended by Scheduler, whose loops call these operations.     *)
(*                                                                         *)
(* A metrics snapshot is abstracted to the version of the vehicle state it *)
(* was taken from; 0 is Metrics.Set = false (nothing published yet).       *)
(***************************************************************************)
EXTENDS Integers

CONSTANTS
  ReadyFailureThreshold, \* server.Config.ReadyFailureThreshold, any integer
  FailureCap             \* bound on consecutiveFailures (stands for MaxInt)

\* server.New treats a threshold below 1 as 1.
threshold == IF ReadyFailureThreshold < 1 THEN 1 ELSE ReadyFailureThreshold

ASSUME StatusServerAssumption ==
  /\ ReadyFailureThreshold \in Int
  /\ FailureCap \in Nat
  /\ FailureCap >= threshold

VARIABLES
  ready,               \* Server.ready
  consecutiveFailures, \* Server.consecutiveFailures, saturating at FailureCap
  metrics              \* version behind Server.metrics, 0 when not Set

healthVars == <<ready, consecutiveFailures>>

ServerInit ==
  /\ ready = FALSE
  /\ consecutiveFailures = 0
  /\ metrics = 0

MarkSuccess ==
  /\ ready' = TRUE
  /\ consecutiveFailures' = 0

Increment(n) == IF n < FailureCap THEN n + 1 ELSE n

\* Mutant: readiness is dropped one failure too late.
MarkFailure_OffByOne ==
  /\ consecutiveFailures' = Increment(consecutiveFailures)
  /\ ready' = (ready /\ consecutiveFailures' <= threshold)

MarkFailure ==
  /\ consecutiveFailures' = Increment(consecutiveFailures)
  /\ ready' = (ready /\ consecutiveFailures' < threshold)

SetMetrics(version) == metrics' = version
=============================================================================
