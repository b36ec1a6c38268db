--------------------------- MODULE ServiceContract ---------------------------
(***************************************************************************)
(* What the service promises to those who only see it from outside: Home   *)
(* Assistant, which reads the retained state document, and the readiness   *)
(* probe.  No loops, locks, retries or counters.                           *)
(*                                                                         *)
(*  - The state document never goes back to an older state of the car.     *)
(*  - Ready means: fewer than Threshold failures since the last success,   *)
(*    and no success before the state document was acknowledged.           *)
(***************************************************************************)
EXTENDS Naturals

CONSTANTS Threshold, MaxVersion

VARIABLES
  fails, \* failures since the last success, saturating at Threshold
  ready, \* what the readiness probe is told
  shown, \* version of the car's state in the retained document
  fresh  \* the document was delivered in the cycle under way

contractVars == <<fails, ready, shown, fresh>>

Init ==
  /\ fails = Threshold
  /\ ready = FALSE
  /\ shown \in 0 .. MaxVersion
  /\ fresh = FALSE

NotOlder == shown' \in shown .. MaxVersion

Deliver == NotOlder /\ fresh' = TRUE /\ UNCHANGED <<fails, ready>>

Succeed ==
  /\ fresh
  /\ fails' = 0
  /\ ready' = TRUE
  /\ fresh' = FALSE
  /\ UNCHANGED shown

\* A failed cycle may still have delivered the document.
Fail ==
  /\ NotOlder
  /\ fails' = IF fails < Threshold THEN fails + 1 ELSE Threshold
  /\ ready' = (fails' < Threshold)
  /\ fresh' = FALSE

Next == Deliver \/ Succeed \/ Fail

Spec == Init /\ [][Next]_contractVars
=============================================================================
