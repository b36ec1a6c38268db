---------------------------- MODULE ForceSchedule ----------------------------
(***************************************************************************)
(* When the daily force refresh runs: FORCE_REFRESH_AT and                 *)
(* FORCE_REFRESH_TZ as Config parses them, forceLoop and untilNextForce of *)
(* internal/scheduler/scheduler.go, against a time zone with daylight      *)
(* saving and a wall clock that may be stepped while the loop waits on a   *)
(* monotonic timer.  Times are counted in half hours; instants are UTC.    *)
(*                                                                         *)
(* Go's time package is external: a zone is its first offset and a set of  *)
(* changes, and Date is the algorithm of time.Date, which looks the offset *)
(* up as if the wall clock were UTC and corrects it once.                  *)
(***************************************************************************)
EXTENDS Integers

CONSTANTS
  Zones,   \* time zones: [first |-> offset, changes |-> {[at |-> t, offset |-> o]}]
  Settings, \* values of FORCE_REFRESH_AT: Unset (or empty), or a time of day
  Start,   \* instants at which the service may start
  StepAt,  \* instants at which the wall clock may be stepped, once
  Steps,   \* by how much
  Horizon, \* bound on the clock
  MaxBusy  \* bound on how long a refresh takes (retries and backoff included)

DayLen == 48
MaxShift == 4  \* bound on how far the clocks of one zone are changed

ASSUME ForceScheduleAssumption ==
  /\ Start \subseteq 2 * DayLen .. Horizon
  /\ Horizon \in Nat
  /\ MaxBusy \in Nat
  /\ StepAt \subseteq Nat /\ Steps \subseteq -DayLen .. DayLen

VARIABLES
  setting, \* FORCE_REFRESH_AT
  zone,  \* Config.ForceLocation
  at,    \* Config.ForceHour and ForceMinute
  now,   \* the wall clock
  due,   \* what the wall clock will show when the timer of s.after(wait) fires
  clock, \* history: "true", "stepped", and "settled" after the next refresh
  since, \* history: local day of the start, or of that refresh
  ran    \* history: local days since then on which the refresh was started

vars == <<setting, zone, at, now, due, clock, since, ran>>

C == INSTANCE Config WITH UTC <- [first |-> 0, changes |-> {}], FiveOClock <- 10

ASSUME SettingsAssumption ==
  Settings \subseteq {C!Unset} \union {C!Value(hm) : hm \in 0 .. DayLen - 1}

-----------------------------------------------------------------------------
(* Package time.                                                           *)

ChangesUpTo(z, t) == {c \in z.changes : c.at <= t}
LatestChange(z, t) ==
  CHOOSE c \in ChangesUpTo(z, t) : \A d \in ChangesUpTo(z, t) : d.at <= c.at

Offset(z, t) == IF ChangesUpTo(z, t) = {} THEN z.first ELSE LatestChange(z, t).offset

\* lookup's start and end: the same offset holds without a change in between.
SamePeriod(z, t, u) == ChangesUpTo(z, t) = ChangesUpTo(z, u)

\* time.Date(year, month, day, hour, minute, 0, 0, loc)
Date(z, day, hm) ==
  LET wall == day * DayLen + hm
      guess == Offset(z, wall)
      utc == wall - guess
  IN  IF guess = 0 \/ SamePeriod(z, wall, utc) THEN utc ELSE wall - Offset(z, utc)

LocalDay(z, t) == (t + Offset(z, t)) \div DayLen

\* The zones the schedule is right for: offsets between UTC-12 and UTC+14 that
\* differ by MaxShift at most, changes that are a day apart, and no change that
\* moves a wall-clock time to another date.  Where the clocks go back, the hour
\* that is repeated belongs to one date.  Where they go forward, the hour that is
\* skipped and the next one do; so does the one before it where the zone is west
\* of Greenwich, since time.Date then resolves a skipped time to that hour.
Offsets(z) == {z.first} \union {c.offset : c \in z.changes}
SameDay(v, w) == v \div DayLen = w \div DayLen

CivilZone(z) ==
  /\ Offsets(z) \subseteq -24 .. 28
  /\ \A o, p \in Offsets(z) : o - p <= MaxShift
  /\ \A c \in z.changes : c.at \in Int
  /\ \A c, d \in z.changes : c = d \/ c.at >= d.at + DayLen \/ d.at >= c.at + DayLen
  /\ \A c \in z.changes :
       LET old == Offset(z, c.at - 1)
           from == c.at + old          \* the wall clock at the change
           to == c.at + c.offset       \* and what it is set to
       IN  /\ to < from => SameDay(to, from - 1)
           /\ from < to => SameDay(from, 2 * to - from - 1)
           /\ from < to /\ old < 0 => SameDay(2 * from - to, from)

-----------------------------------------------------------------------------
(* The force loop.                                                         *)

\* Mutant: a refresh time equal to now counts as still to come.
UntilNextForce_NotBefore(z, hm, t) ==
  LET day == LocalDay(z, t)
      today == Date(z, day, hm)
  IN  (IF today >= t THEN today ELSE Date(z, day + 1, hm)) - t

\* Mutant: the next run is always computed for tomorrow.
UntilNextForce_Tomorrow(z, hm, t) == Date(z, LocalDay(z, t) + 1, hm) - t

UntilNextForce(z, hm, t) ==
  LET day == LocalDay(z, t)
      today == Date(z, day, hm)
  IN  (IF today > t THEN today ELSE Date(z, day + 1, hm)) - t

\* Run starts the loop if ForceEnabled; without it no timer ever fires.
Init ==
  /\ setting \in Settings
  /\ now \in Start
  /\ \E z \in Zones :
       LET force == C!ParseForceRefresh(setting, C!Value(z))
       IN /\ zone = force.zone
          /\ at = force.at
          /\ due = IF force.enabled THEN now + UntilNextForce(zone, at, now) ELSE Horizon + 1
  /\ clock = "true"
  /\ since = LocalDay(zone, now)
  /\ ran = {}

Wait ==
  /\ now < due
  /\ now < Horizon
  /\ now' = now + 1
  /\ UNCHANGED <<setting, zone, at, due, clock, since, ran>>

\* The timer fires, forceRefresh runs, and the loop computes the next wait.  A
\* timer for zero or negative time fires at once.  The history starts anew at the
\* end of the first refresh after a step of the clock.
ForceRefresh ==
  /\ due <= now
  /\ \E busy \in 0 .. MaxBusy :
       /\ now + busy <= Horizon
       /\ now' = now + busy
  /\ due' = now' + UntilNextForce(zone, at, now')
  /\ IF clock = "stepped"
     THEN clock' = "settled" /\ since' = LocalDay(zone, now') /\ ran' = {}
     ELSE ran' = ran \union {LocalDay(zone, now)} /\ UNCHANGED <<clock, since>>
  /\ UNCHANGED <<setting, zone, at>>

\* NTP, or a node that was suspended: the wall clock jumps, the time the timer has
\* left does not change.
StepClock(d) ==
  /\ clock = "true"
  /\ now \in StepAt /\ now < due
  /\ now + d \in 0 .. Horizon
  /\ now' = now + d
  /\ due' = due + d
  /\ clock' = "stepped"
  /\ UNCHANGED <<setting, zone, at, since, ran>>

\* The end of the modelled period.
AtHorizon == now = Horizon /\ now < due /\ UNCHANGED vars

Next == Wait \/ ForceRefresh \/ AtHorizon \/ \E d \in Steps : StepClock(d)

Spec == Init /\ [][Next]_vars

-----------------------------------------------------------------------------
(* Properties.                                                             *)

\* Every variable stays in its type.
TypeOK ==
  /\ setting \in Settings
  /\ zone \in Zones
  /\ at \in 0 .. DayLen - 1
  /\ now \in 0 .. Horizon
  /\ due \in 0 .. Horizon + DayLen + MaxShift
  /\ clock \in {"true", "stepped", "settled"}
  /\ since \in Int
  /\ ran \subseteq Int

\* forceLoop: the refresh runs at most once on a local calendar day, also on the
\* days on which the clocks change; a step of the clock spoils that for the one
\* refresh whose timer was running and for nothing after it.
OncePerLocalDay == [][ForceRefresh => clock = "stepped" \/ LocalDay(zone, now) \notin ran]_vars

\* ... and no local day that the service was up for passes without it, again up to
\* the first refresh after a step.
NoDayMissed == clock # "stepped" => \A d \in since + 1 .. LocalDay(zone, now) - 1 : d \in ran

\* untilNextForce: the wait is always positive, so the loop never spins, and no
\* longer than a day and the largest clock change.
WaitInRange == UntilNextForce(zone, at, now) \in 1 .. DayLen + MaxShift

\* parseForceRefresh's comment: "An empty FORCE_REFRESH_AT disables the daily
\* refresh".  Violated: getEnv replaces the empty value before it is looked at.
EmptyDisables == [][ForceRefresh => setting # C!Unset]_vars
=============================================================================
