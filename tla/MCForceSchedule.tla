--------------------------- MODULE MCForceSchedule ---------------------------
(***************************************************************************)
(* Zones for ForceSchedule, in half hours.  The clocks change on day 4     *)
(* (forward) and day 7 (back), at the hour each zone's rules prescribe.    *)
(***************************************************************************)
EXTENDS ForceSchedule

DST(std, springAt, autumnAt, gain) ==
  [first |-> std,
   changes |-> {[at |-> 4 * DayLen + springAt, offset |-> std + gain],
                [at |-> 7 * DayLen + autumnAt, offset |-> std]}]

London == DST(0, 2, 2, 2)
NewYork == DST(-10, 14, 12, 2)
Sydney == DST(20, -16, -16, 2)
LordHowe == DST(21, -17, -18, 1)
\* The clocks change at local midnight, east of Greenwich.
Beirut == DST(4, -4, -6, 2)
NoDST == [first |-> 11, changes |-> {}]

OrdinaryZones == {London, NewYork, Sydney, LordHowe, Beirut, NoDST}

\* The clocks change at local midnight, west of Greenwich.
Azores == DST(-2, 2, 2, 2)
Havana == DST(-10, 10, 10, 2)

MidnightWest == {Azores, Havana}

\* The theorems of ForceScheduleProofs are about the former and not the latter.
ASSUME ZonesAssumption ==
  /\ \A z \in OrdinaryZones : CivilZone(z)
  /\ \A z \in MidnightWest : ~CivilZone(z)

AllTimes == {C!Unset} \union {C!Value(hm) : hm \in 0 .. DayLen - 1}
Empty == {C!Unset}

\* On the day the clocks go forward, between the changes and on the day they go
\* back: seven hours and half an hour back, an hour and most of a day ahead.
StepTimes == {4 * DayLen + 1, 5 * DayLen + 20, 7 * DayLen + 30}
Jumps == {-14, -1, 2, 40}
NoSteps == {}

Starts == {3 * DayLen + 5, 6 * DayLen + 31}
=============================================================================
