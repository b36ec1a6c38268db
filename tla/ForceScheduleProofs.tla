------------------------ MODULE ForceScheduleProofs ------------------------
(***************************************************************************)
(* Proofs about the daily force refresh, for every civil time zone, every  *)
(* refresh time, start and step of the wall clock: the wait is always      *)
(* positive and at most a day and the shift of the clocks, and the refresh *)
(* runs exactly once on every local day.                                   *)
(***************************************************************************)
EXTENDS ForceSchedule, WellFoundedInduction, TLAPS

-----------------------------------------------------------------------------
(* Days.                                                                   *)

\* Division by the length of a day, in terms the provers can calculate with.
LEMMA DayBounds ==
  ASSUME NEW x \in Int
  PROVE  /\ x \div DayLen \in Int
         /\ DayLen * (x \div DayLen) <= x
         /\ x < DayLen * (x \div DayLen) + DayLen
BY DEF DayLen

\* A day is told by its bounds.
LEMMA DayUnique ==
  ASSUME NEW x \in Int, NEW d \in Int, DayLen * d <= x, x < DayLen * d + DayLen
  PROVE  x \div DayLen = d
BY DEF DayLen

\* A later wall-clock time never falls on an earlier day.
LEMMA DayMonotone ==
  ASSUME NEW x \in Int, NEW y \in Int, x <= y
  PROVE  x \div DayLen <= y \div DayLen
BY DEF DayLen

\* What lies between two wall-clock times of one day belongs to that day.
LEMMA DayConvex ==
  ASSUME NEW x \in Int, NEW y \in Int, NEW w \in Int, x <= w, w <= y, SameDay(x, y)
  PROVE  SameDay(w, x) /\ SameDay(w, y)
BY DEF DayLen, SameDay

-----------------------------------------------------------------------------
(* Offsets.                                                                *)

\* The changes up to an instant have a latest one.
LEMMA LatestExists ==
  ASSUME NEW z, CivilZone(z), NEW t \in Int, ChangesUpTo(z, t) # {}
  PROVE  /\ LatestChange(z, t) \in ChangesUpTo(z, t)
         /\ \A d \in ChangesUpTo(z, t) : d.at <= LatestChange(z, t).at
<1> DEFINE Ages == {t - c.at : c \in ChangesUpTo(z, t)}
<1>1. \A c \in ChangesUpTo(z, t) : c.at \in Int /\ c.at <= t
  BY DEF ChangesUpTo, CivilZone
<1>2. Ages \subseteq Nat /\ Ages # {}
  BY <1>1
<1> HIDE DEF Ages
<1> DEFINE Less == {ss \in Nat \X Nat : ss[1] < ss[2]}
<1>3. IsWellFoundedOn(Less, Nat)
  BY NatLessThanWellFounded DEF OpToRel
<1>4. \E a \in Ages : \A b \in Ages : a <= b
  <2> HIDE DEF Less
  <2>1. PICK a \in Ages : \A b \in Ages : ~(<<b, a>> \in Less)
    BY <1>2, <1>3, WFMin
  <2>2. \A b \in Ages : b < a => <<b, a>> \in Less
    BY <1>2 DEF Less
  <2>3. \A b \in Ages : ~(b < a)
    BY <2>1, <2>2
  <2>4. \A b \in Ages : a <= b
    BY <1>2, <2>3
  <2> QED
    BY <2>4
<1>5. \E c \in ChangesUpTo(z, t) : \A d \in ChangesUpTo(z, t) : d.at <= c.at
  <2>1. PICK a \in Ages : \A b \in Ages : a <= b
    BY <1>4
  <2>2. PICK c \in ChangesUpTo(z, t) : a = t - c.at
    BY <2>1 DEF Ages
  <2>3. \A d \in ChangesUpTo(z, t) : t - d.at \in Ages
    BY DEF Ages
  <2> QED
    BY <1>1, <2>1, <2>2, <2>3
<1> QED
  BY <1>5 DEF LatestChange

\* An offset is one of the zone's.
LEMMA OffsetType ==
  ASSUME NEW z, CivilZone(z), NEW t \in Int
  PROVE  Offset(z, t) \in Offsets(z) /\ Offset(z, t) \in -24 .. 28
<1>1. Offset(z, t) \in Offsets(z)
  BY LatestExists DEF Offset, Offsets, ChangesUpTo
<1> QED
  BY <1>1 DEF CivilZone

\* It depends on the changes so far alone.
LEMMA OffsetSame ==
  ASSUME NEW z, NEW t, NEW u, SamePeriod(z, t, u)
  PROVE  Offset(z, t) = Offset(z, u)
BY DEF Offset, LatestChange, SamePeriod

\* For a day after a change, its offset holds.
LEMMA OffsetAfter ==
  ASSUME NEW z, CivilZone(z), NEW c \in z.changes, NEW t \in Int,
         c.at <= t, t < c.at + DayLen
  PROVE  Offset(z, t) = c.offset
<1> DEFINE l == LatestChange(z, t)
<1>1. c \in ChangesUpTo(z, t) /\ c.at \in Int
  BY DEF ChangesUpTo, CivilZone
<1>2. l \in z.changes /\ l.at \in Int /\ l.at <= t /\ c.at <= l.at
  BY <1>1, LatestExists DEF ChangesUpTo, CivilZone
<1>3. l = c
  BY <1>1, <1>2 DEF CivilZone, DayLen
<1> QED
  BY <1>1, <1>3 DEF Offset

\* For a day before a change, the offset of the moment before it holds.
LEMMA OffsetBefore ==
  ASSUME NEW z, CivilZone(z), NEW c \in z.changes, NEW t \in Int,
         c.at - DayLen <= t, t < c.at
  PROVE  Offset(z, t) = Offset(z, c.at - 1)
<1>1. \A d \in z.changes : d.at \in Int /\ (d = c \/ c.at >= d.at + DayLen \/ d.at >= c.at + DayLen)
  BY DEF CivilZone
<1>2. \A d \in z.changes : d.at <= t <=> d.at <= c.at - 1
  BY <1>1 DEF DayLen
<1>3. SamePeriod(z, t, c.at - 1)
  BY <1>2 DEF SamePeriod, ChangesUpTo
<1> QED
  BY <1>3, OffsetSame

\* Between instants of different periods the clocks change.
LEMMA ChangeBetween ==
  ASSUME NEW z, CivilZone(z), NEW t \in Int, NEW u \in Int, t <= u, ~SamePeriod(z, t, u)
  PROVE  \E c \in z.changes : t < c.at /\ c.at <= u
<1>1. \A c \in z.changes : c.at \in Int
  BY DEF CivilZone
<1> QED
  BY <1>1 DEF SamePeriod, ChangesUpTo

-----------------------------------------------------------------------------
(* Local days and time.Date.                                               *)

\* A local day is a number.
LEMMA LocalDayType ==
  ASSUME NEW z, CivilZone(z), NEW t \in Int
  PROVE  LocalDay(z, t) \in Int
BY OffsetType, DayBounds DEF LocalDay

\* The local date never goes back.
LEMMA LocalDayMonotone ==
  ASSUME NEW z, CivilZone(z), NEW t \in Int, NEW u \in Int, t <= u
  PROVE  LocalDay(z, t) <= LocalDay(z, u)
<1>1. Offset(z, t) \in Int /\ Offset(z, u) \in Int
  BY OffsetType
<1>2. Offset(z, t) - Offset(z, u) <= MaxShift
  BY OffsetType DEF CivilZone
<1>3. CASE t + Offset(z, t) <= u + Offset(z, u)
  BY <1>1, <1>3, DayMonotone DEF LocalDay
<1>4. CASE ~(t + Offset(z, t) <= u + Offset(z, u))
  <2>1. u - t < MaxShift
    BY <1>1, <1>2, <1>4 DEF MaxShift
  <2>2. ~SamePeriod(z, t, u)
    BY <1>1, <1>4, OffsetSame
  <2>3. PICK c \in z.changes : t < c.at /\ c.at <= u
    BY <2>2, ChangeBetween
  <2>4. c.at \in Int
    BY DEF CivilZone
  <2>5. Offset(z, u) = c.offset
    BY <2>1, <2>3, <2>4, OffsetAfter DEF MaxShift, DayLen
  <2>6. Offset(z, t) = Offset(z, c.at - 1)
    BY <2>1, <2>3, <2>4, OffsetBefore DEF MaxShift, DayLen
  <2> DEFINE from == c.at + Offset(z, t)
             to == c.at + Offset(z, u)
  <2>7. from \in Int /\ to \in Int /\ to < from
    BY <1>1, <1>4, <2>3, <2>4
  <2>8. SameDay(to, from - 1)
    BY <2>5, <2>6, <2>7 DEF CivilZone
  <2>9. t + Offset(z, t) <= from - 1 /\ to <= u + Offset(z, u)
    BY <1>1, <2>3, <2>4
  <2>10. (t + Offset(z, t)) \div DayLen <= (from - 1) \div DayLen
    BY <1>1, <2>7, <2>9, DayMonotone
  <2>11. to \div DayLen <= (u + Offset(z, u)) \div DayLen
    BY <1>1, <2>7, <2>9, DayMonotone
  <2>12. (t + Offset(z, t)) \div DayLen \in Int /\ (u + Offset(z, u)) \div DayLen \in Int
         /\ to \div DayLen \in Int
    BY <1>1, <2>7, DayBounds
  <2> QED
    BY <2>8, <2>10, <2>11, <2>12 DEF LocalDay, SameDay
<1> QED
  BY <1>3, <1>4

\* time.Date is the wall-clock time in one of the zone's offsets.
LEMMA DateType ==
  ASSUME NEW z, CivilZone(z), NEW day \in Int, NEW hm \in 0 .. DayLen - 1
  PROVE  /\ Date(z, day, hm) \in Int
         /\ \E o \in Offsets(z) : o \in Int /\ Date(z, day, hm) = (day * DayLen + hm) - o
<1> DEFINE wall == day * DayLen + hm
<1>1. wall \in Int
  BY DEF DayLen
<1> HIDE DEF wall
<1>2. Offset(z, wall) \in Offsets(z) /\ Offset(z, wall) \in Int
  BY <1>1, OffsetType
<1>3. Offset(z, wall - Offset(z, wall)) \in Offsets(z) /\ Offset(z, wall - Offset(z, wall)) \in Int
  BY <1>1, <1>2, OffsetType
<1>4. \/ Date(z, day, hm) = wall - Offset(z, wall)
      \/ Date(z, day, hm) = wall - Offset(z, wall - Offset(z, wall))
  BY DEF Date, wall
<1>5. \E o \in Offsets(z) : o \in Int /\ Date(z, day, hm) = wall - o
  BY <1>2, <1>3, <1>4, Zenon
<1>6. Date(z, day, hm) \in Int
  BY <1>1, <1>5
<1> QED
  BY <1>5, <1>6 DEF wall

\* It falls on the day that was asked for, also when the clocks change on it.
LEMMA DateInDay ==
  ASSUME NEW z, CivilZone(z), NEW day \in Int, NEW hm \in 0 .. DayLen - 1
  PROVE  LocalDay(z, Date(z, day, hm)) = day
<1> DEFINE wall == day * DayLen + hm
           guess == Offset(z, wall)
           utc == wall - guess
<1>1. wall \in Int
  BY DEF DayLen
<1>2. \A v \in Int : SameDay(v, wall) => v \div DayLen = day
  <2>1. wall \div DayLen = day
    BY <1>1, DayUnique DEF DayLen
  <2> QED
    BY <2>1 DEF SameDay
<1>3. Date(z, day, hm) = IF guess = 0 \/ SamePeriod(z, wall, utc) THEN utc ELSE wall - Offset(z, utc)
  BY DEF Date
<1> HIDE DEF wall
<1>4. guess \in -24 .. 28 /\ utc \in Int
  BY <1>1, OffsetType
<1>5. CASE guess = 0 \/ SamePeriod(z, wall, utc)
  <2>1. Offset(z, utc) = guess
    BY <1>1, <1>4, <1>5, OffsetSame
  <2>2. Date(z, day, hm) + Offset(z, Date(z, day, hm)) = wall
    BY <1>1, <1>3, <1>4, <1>5, <2>1
  <2> QED
    BY <1>1, <1>2, <2>2 DEF LocalDay, SameDay
<1>6. CASE guess # 0 /\ ~SamePeriod(z, wall, utc)
  <2> DEFINE r == wall - Offset(z, utc)
  <2>1. Date(z, day, hm) = r
    BY <1>3, <1>6
  <2>2. Offset(z, utc) \in -24 .. 28 /\ r \in Int
    BY <1>1, <1>4, OffsetType
  <2>3. guess - Offset(z, utc) <= MaxShift /\ Offset(z, utc) - guess <= MaxShift
    BY <1>1, <1>4, OffsetType DEF CivilZone
  <2>4. SameDay(r + Offset(z, r), wall)
    <3>1. CASE guess > 0
      \* East: the guess is the offset after the change, the correction the one before.
      <4>1. utc < wall
        BY <1>1, <1>4, <3>1
      <4>2. PICK c \in z.changes : utc < c.at /\ c.at <= wall
        BY <1>1, <1>4, <1>6, <4>1, ChangeBetween DEF SamePeriod
      <4>3. c.at \in Int
        BY DEF CivilZone
      <4>4. guess = c.offset
        BY <1>1, <1>4, <4>2, <4>3, OffsetAfter DEF DayLen
      <4>5. Offset(z, utc) = Offset(z, c.at - 1)
        BY <1>1, <1>4, <4>2, <4>3, OffsetBefore DEF DayLen
      <4>6. CASE r < c.at
        <5>1. Offset(z, r) = Offset(z, c.at - 1)
          BY <1>1, <1>4, <2>2, <2>3, <4>2, <4>3, <4>6, OffsetBefore DEF DayLen, MaxShift
        <5> QED
          BY <1>1, <2>2, <4>5, <5>1 DEF SameDay
      <4>7. CASE ~(r < c.at)
        <5>1. Offset(z, r) = guess
          BY <1>1, <1>4, <2>2, <2>3, <4>2, <4>3, <4>4, <4>7, OffsetAfter DEF DayLen, MaxShift
        <5> DEFINE from == c.at + Offset(z, utc)
                   to == c.at + guess
        <5>2. from \in Int /\ to \in Int /\ from < to
          BY <1>1, <1>4, <2>2, <4>2, <4>3, <4>7
        <5>3. SameDay(from, 2 * to - from - 1)
          BY <4>4, <4>5, <5>2 DEF CivilZone
        <5>4. from <= wall /\ wall < to
          BY <1>1, <1>4, <2>2, <4>2, <4>3, <4>7
        <5>5. r + Offset(z, r) = wall + (to - from)
          <6>1. r + Offset(z, r) = wall - Offset(z, utc) + guess
            BY <5>1
          <6> HIDE DEF guess, utc
          <6> QED
            BY <1>1, <1>4, <2>2, <4>3, <6>1
        <5> HIDE DEF from, to, r, utc, guess
        <5>6. SameDay(wall, from)
          BY <1>1, <5>2, <5>3, <5>4, DayConvex
        <5>7. SameDay(wall + (to - from), from)
          BY <1>1, <5>2, <5>3, <5>4, DayConvex
        <5> QED
          BY <5>5, <5>6, <5>7 DEF SameDay
      <4> QED
        BY <4>6, <4>7
    <3>2. CASE guess < 0
      \* West: the other way round.
      <4>1. wall < utc
        BY <1>1, <1>4, <3>2
      <4>2. PICK c \in z.changes : wall < c.at /\ c.at <= utc
        BY <1>1, <1>4, <1>6, <4>1, ChangeBetween
      <4>3. c.at \in Int
        BY DEF CivilZone
      <4>4. Offset(z, utc) = c.offset
        BY <1>1, <1>4, <4>2, <4>3, OffsetAfter DEF DayLen
      <4>5. guess = Offset(z, c.at - 1)
        BY <1>1, <1>4, <4>2, <4>3, OffsetBefore DEF DayLen
      <4>6. CASE r >= c.at
        <5>1. Offset(z, r) = c.offset
          BY <1>1, <1>4, <2>2, <2>3, <4>2, <4>3, <4>6, OffsetAfter DEF DayLen, MaxShift
        <5> QED
          BY <1>1, <2>2, <4>4, <5>1 DEF SameDay
      <4>7. CASE ~(r >= c.at)
        <5>1. Offset(z, r) = guess
          BY <1>1, <1>4, <2>2, <2>3, <4>2, <4>3, <4>5, <4>7, OffsetBefore DEF DayLen, MaxShift
        <5> DEFINE from == c.at + guess
                   to == c.at + Offset(z, utc)
        <5>2. from \in Int /\ to \in Int /\ from < to
          BY <1>1, <1>4, <2>2, <4>2, <4>3, <4>7
        <5>3. SameDay(from, 2 * to - from - 1) /\ SameDay(2 * from - to, from)
          BY <3>2, <4>4, <4>5, <5>2 DEF CivilZone
        <5>4. from <= wall /\ wall < to
          BY <1>1, <1>4, <2>2, <4>2, <4>3, <4>7
        <5>5. r + Offset(z, r) = wall - (to - from)
          <6>1. r + Offset(z, r) = wall - Offset(z, utc) + guess
            BY <5>1
          <6> HIDE DEF guess, utc
          <6> QED
            BY <1>1, <1>4, <2>2, <4>3, <6>1
        <5> HIDE DEF from, to, r, utc, guess
        <5>6. SameDay(wall, from)
          BY <1>1, <5>2, <5>3, <5>4, DayConvex
        <5>7. SameDay(wall - (to - from), from)
          BY <1>1, <5>2, <5>3, <5>4, DayConvex
        <5> QED
          BY <5>5, <5>6, <5>7 DEF SameDay
      <4> QED
        BY <4>6, <4>7
    <3> QED
      BY <1>4, <1>6, <3>1, <3>2
  <2>5. r + Offset(z, r) \in Int
    BY <2>2, OffsetType
  <2> QED
    BY <1>2, <2>1, <2>4, <2>5 DEF LocalDay
<1> QED
  BY <1>5, <1>6

\* The refresh times of two days in a row are about a day apart.
LEMMA DateStep ==
  ASSUME NEW z, CivilZone(z), NEW day \in Int, NEW hm \in 0 .. DayLen - 1
  PROVE  Date(z, day + 1, hm) - Date(z, day, hm) \in DayLen - MaxShift .. DayLen + MaxShift
<1>1. PICK o \in Offsets(z) : o \in Int /\ Date(z, day, hm) = (day * DayLen + hm) - o
  BY DateType
<1>2. PICK q \in Offsets(z) : q \in Int /\ Date(z, day + 1, hm) = ((day + 1) * DayLen + hm) - q
  BY DateType
<1>3. o - q <= MaxShift /\ q - o <= MaxShift
  BY DEF CivilZone
<1> QED
  BY <1>1, <1>2, <1>3 DEF DayLen, MaxShift

\* untilNextForce: the next refresh is that of today or tomorrow, and the wait for it
\* is positive and bounded.
LEMMA NextForce ==
  ASSUME NEW z, CivilZone(z), NEW hm \in 0 .. DayLen - 1, NEW t \in Int
  PROVE  LET today == LocalDay(z, t)
             wait == UntilNextForce(z, hm, t)
             next == IF Date(z, today, hm) > t THEN today ELSE today + 1
         IN  /\ wait \in 1 .. DayLen + MaxShift
             /\ t + wait = Date(z, next, hm)
             /\ LocalDay(z, t + wait) = next
<1> DEFINE today == LocalDay(z, t)
           wait == UntilNextForce(z, hm, t)
           next == IF Date(z, today, hm) > t THEN today ELSE today + 1
<1>1. today \in Int
  BY LocalDayType
<1>2. Date(z, today, hm) \in Int /\ Date(z, today + 1, hm) \in Int
  BY <1>1, DateType
<1>3. wait = Date(z, next, hm) - t
  BY DEF UntilNextForce
<1>4. t + wait = Date(z, next, hm)
  BY <1>1, <1>2, <1>3
<1>5. LocalDay(z, t + wait) = next
  BY <1>1, <1>4, DateInDay
<1>6. CASE Date(z, today, hm) > t
  <2>1. PICK o \in Offsets(z) : o \in Int /\ Date(z, today, hm) = (today * DayLen + hm) - o
    BY <1>1, DateType
  <2>2. Offset(z, t) \in Int /\ Offset(z, t) - o <= MaxShift
    BY OffsetType DEF CivilZone
  <2>3. DayLen * today <= t + Offset(z, t)
    BY <2>2, DayBounds DEF LocalDay
  <2>4. Date(z, today, hm) - t <= DayLen + MaxShift
    <3> HIDE DEF today
    <3> QED
      BY <1>1, <2>1, <2>2, <2>3 DEF DayLen, MaxShift
  <2>5. Date(z, today, hm) - t \in 1 .. DayLen + MaxShift
    BY <1>2, <1>6, <2>4 DEF DayLen, MaxShift
  <2> QED
    BY <1>3, <1>4, <1>5, <1>6, <2>5
<1>7. CASE ~(Date(z, today, hm) > t)
  <2>1. Date(z, today + 1, hm) > t
    <3>1. LocalDay(z, Date(z, today + 1, hm)) = today + 1
      BY <1>1, DateInDay
    <3>2. ~(Date(z, today + 1, hm) <= t)
      BY <1>1, <1>2, <3>1, LocalDayMonotone
    <3> QED
      BY <1>2, <3>2
  <2>2. Date(z, today + 1, hm) - Date(z, today, hm) <= DayLen + MaxShift
    <3> HIDE DEF today
    <3>1. Date(z, today + 1, hm) - Date(z, today, hm) \in DayLen - MaxShift .. DayLen + MaxShift
      BY <1>1, DateStep
    <3> QED
      BY <1>2, <3>1 DEF DayLen, MaxShift
  <2>3. Date(z, today + 1, hm) - t \in 1 .. DayLen + MaxShift
    BY <1>2, <1>7, <2>1, <2>2 DEF DayLen, MaxShift
  <2> QED
    BY <1>3, <1>4, <1>5, <1>7, <2>3
<1> QED
  BY <1>6, <1>7

-----------------------------------------------------------------------------
(* The inductive invariant.                                                *)

\* The zones of the instance are civil, and a refresh with all its retries and
\* waits is over before the next one is due (a day and the shift of the clocks).
Civil == \A z \in Zones : CivilZone(z)
ShortRefresh == MaxBusy < DayLen - MaxShift

\* The timer is never overdue by more than the instant at which it fires, and never
\* set further ahead than untilNextForce's bound; a step moves clock and timer alike.
Timing ==
  /\ TypeOK
  /\ now <= due
  /\ due <= now + DayLen + MaxShift

\* Unless the clock was stepped under it, the timer stands for the refresh time of
\* its local day, and the refreshes so far are those of the days before that day.
Planned ==
  clock # "stepped" =>
    LET day == LocalDay(zone, due)
    IN  /\ due = Date(zone, day, at)
        /\ \A d \in since + 1 .. day - 1 : d \in ran
        /\ \A d \in ran : d < day

\* parseForceRefresh never switches the refresh off, and yields the zone and a time
\* of day.
LEMMA AlwaysEnabled ==
  ASSUME NEW s \in Settings, NEW z \in Zones
  PROVE  LET force == C!ParseForceRefresh(s, C!Value(z))
         IN  force.enabled /\ force.zone = z /\ force.at \in 0 .. DayLen - 1
<1>1. s = C!Unset \/ \E hm \in 0 .. DayLen - 1 : s = C!Value(hm)
  BY SettingsAssumption
<1>2. \A v : C!Value(v) # C!Unset /\ C!Value(v) # C!Malformed /\ C!Value(v)[2] = v
  BY DEF C!Value, C!Unset, C!Malformed
<1>3. 10 \in 0 .. DayLen - 1
  BY DEF DayLen
<1>4. PICK hm \in 0 .. DayLen - 1 : (IF s = C!Unset THEN C!Value(10) ELSE s) = C!Value(hm)
  BY <1>1, <1>2, <1>3
<1>5. C!ParseForceRefresh(s, C!Value(z)) = [err |-> FALSE, enabled |-> TRUE, at |-> hm, zone |-> z]
  BY <1>2, <1>4 DEF C!ParseForceRefresh
<1> QED
  BY <1>5

\* The constants' assumptions, in the form the steps use.
LEMMA Constants ==
  /\ \A t \in Start : t \in Int /\ t \in 0 .. Horizon
  /\ Horizon \in Int /\ MaxBusy \in Int /\ MaxBusy >= 0
  /\ \A d \in Steps : d \in Int
BY ForceScheduleAssumption DEF DayLen

\* The service starts with a timer for today or tomorrow.
LEMMA InitTiming ==
  ASSUME Civil, Init
  PROVE  Timing
<1>1. PICK z \in Zones :
        LET force == C!ParseForceRefresh(setting, C!Value(z))
        IN /\ zone = force.zone
           /\ at = force.at
           /\ due = IF force.enabled THEN now + UntilNextForce(zone, at, now) ELSE Horizon + 1
  BY DEF Init
<1>2. /\ setting \in Settings /\ now \in Start /\ clock = "true"
      /\ since = LocalDay(zone, now) /\ ran = {}
  BY DEF Init
<1>3. zone = z /\ at \in 0 .. DayLen - 1 /\ due = now + UntilNextForce(zone, at, now)
  BY <1>1, <1>2, AlwaysEnabled
<1>4. now \in Int /\ now \in 0 .. Horizon
  BY <1>2, Constants
<1>5. CivilZone(zone)
  BY <1>3 DEF Civil
<1>6. UntilNextForce(zone, at, now) \in 1 .. DayLen + MaxShift
  BY <1>3, <1>4, <1>5, NextForce
<1>7. now <= due /\ due <= now + DayLen + MaxShift /\ due \in 0 .. Horizon + DayLen + MaxShift
  BY <1>3, <1>4, <1>6, Constants DEF DayLen, MaxShift
<1>8. since \in Int /\ ran \subseteq Int
  BY <1>2, <1>4, <1>5, LocalDayType
<1> QED
  BY <1>2, <1>3, <1>4, <1>7, <1>8 DEF Timing, TypeOK

\* Every step keeps the timer within its bounds.
LEMMA StepTiming ==
  ASSUME Civil, Timing, [Next]_vars
  PROVE  Timing'
<1>1. /\ zone \in Zones /\ at \in 0 .. DayLen - 1 /\ now \in Int /\ now \in 0 .. Horizon
      /\ due \in Int /\ now <= due /\ due <= now + DayLen + MaxShift
      /\ setting \in Settings /\ since \in Int /\ ran \subseteq Int
      /\ clock \in {"true", "stepped", "settled"}
  BY DEF Timing, TypeOK
<1>2. CivilZone(zone)
  BY <1>1 DEF Civil
<1>3. CASE Wait
  <2>1. now' \in 0 .. Horizon /\ now' <= due' /\ due' <= now' + DayLen + MaxShift
        /\ due' \in 0 .. Horizon + DayLen + MaxShift
    BY <1>1, <1>3, Constants DEF Wait, DayLen, MaxShift
  <2> QED
    BY <1>1, <1>3, <2>1 DEF Wait, Timing, TypeOK
<1>4. CASE ForceRefresh
  <2>1. now' \in 0 .. Horizon /\ now' \in Int
    BY <1>1, <1>4, Constants DEF ForceRefresh
  <2>2. zone' = zone /\ at' = at /\ setting' = setting
        /\ due' = now' + UntilNextForce(zone, at, now')
    BY <1>4 DEF ForceRefresh
  <2>3. UntilNextForce(zone, at, now') \in 1 .. DayLen + MaxShift
    BY <1>1, <1>2, <2>1, NextForce
  <2>4. now' <= due' /\ due' <= now' + DayLen + MaxShift /\ due' \in 0 .. Horizon + DayLen + MaxShift
    BY <2>1, <2>2, <2>3, Constants DEF DayLen, MaxShift
  <2>5. LocalDay(zone, now') \in Int /\ LocalDay(zone, now) \in Int
    BY <1>1, <1>2, <2>1, LocalDayType
  <2>6. since' \in Int /\ ran' \subseteq Int /\ clock' \in {"true", "stepped", "settled"}
    BY <1>1, <1>4, <2>5 DEF ForceRefresh
  <2> QED
    BY <1>1, <2>1, <2>2, <2>4, <2>6 DEF Timing, TypeOK
<1>5. CASE \E d \in Steps : StepClock(d)
  <2>1. PICK d \in Steps : StepClock(d)
    BY <1>5
  <2>2. now' \in 0 .. Horizon /\ now' <= due' /\ due' <= now' + DayLen + MaxShift
        /\ due' \in 0 .. Horizon + DayLen + MaxShift
    BY <1>1, <2>1, Constants DEF StepClock, DayLen, MaxShift
  <2> QED
    BY <1>1, <2>1, <2>2 DEF StepClock, Timing, TypeOK
<1>6. CASE UNCHANGED vars
  BY <1>6 DEF vars, Timing, TypeOK
<1> QED
  BY <1>3, <1>4, <1>5, <1>6 DEF Next, AtHorizon

\* A timer just set is for the local day of now or the next, at its refresh time.
LEMMA TimerSet ==
  ASSUME NEW z, CivilZone(z), NEW hm \in 0 .. DayLen - 1, NEW t \in Int,
         NEW timer, timer = t + UntilNextForce(z, hm, t)
  PROVE  /\ LocalDay(z, timer) = IF Date(z, LocalDay(z, t), hm) > t
                                 THEN LocalDay(z, t) ELSE LocalDay(z, t) + 1
         /\ timer = Date(z, LocalDay(z, timer), hm)
         /\ LocalDay(z, t) \in Int
BY NextForce, LocalDayType

\* At the start no day is planned to be skipped and none has had its refresh.
LEMMA InitPlanned ==
  ASSUME Civil, Init
  PROVE  Planned
<1>1. PICK z \in Zones :
        LET force == C!ParseForceRefresh(setting, C!Value(z))
        IN /\ zone = force.zone
           /\ at = force.at
           /\ due = IF force.enabled THEN now + UntilNextForce(zone, at, now) ELSE Horizon + 1
  BY DEF Init
<1>2. setting \in Settings /\ now \in Start /\ since = LocalDay(zone, now) /\ ran = {}
  BY DEF Init
<1>3. zone = z /\ at \in 0 .. DayLen - 1 /\ due = now + UntilNextForce(zone, at, now)
  BY <1>1, <1>2, AlwaysEnabled
<1>4. now \in Int /\ CivilZone(zone)
  BY <1>2, <1>3, Constants DEF Civil
<1>5. /\ LocalDay(zone, due) = since \/ LocalDay(zone, due) = since + 1
      /\ due = Date(zone, LocalDay(zone, due), at)
      /\ since \in Int
  BY <1>2, <1>3, <1>4, TimerSet
<1> QED
  BY <1>2, <1>5 DEF Planned

\* Every step keeps the plan: a refresh that is due is for the day it was planned
\* for, and the next one is for the day after.
LEMMA StepPlanned ==
  ASSUME Civil, ShortRefresh, Timing, Planned, [Next]_vars
  PROVE  Planned'
<1>1. /\ zone \in Zones /\ at \in 0 .. DayLen - 1 /\ now \in Int
      /\ due \in Int /\ now <= due /\ since \in Int /\ ran \subseteq Int
  BY DEF Timing, TypeOK
<1>2. CivilZone(zone)
  BY <1>1 DEF Civil
<1>3. CASE Wait
  BY <1>3 DEF Wait, Planned
<1>4. CASE ForceRefresh
  <2>1. PICK busy \in 0 .. MaxBusy : now' = now + busy
    BY <1>4 DEF ForceRefresh
  <2>2. busy \in Int /\ 0 <= busy /\ busy <= MaxBusy
    BY <2>1, Constants
  <2>3. /\ now' \in Int /\ now = due
        /\ zone' = zone /\ at' = at
        /\ due' = now' + UntilNextForce(zone, at, now')
    BY <1>1, <1>4, <2>1, <2>2 DEF ForceRefresh
  <2>4. /\ LocalDay(zone, due') = IF Date(zone, LocalDay(zone, now'), at) > now'
                                  THEN LocalDay(zone, now') ELSE LocalDay(zone, now') + 1
        /\ due' = Date(zone, LocalDay(zone, due'), at)
        /\ LocalDay(zone, now') \in Int
    BY <1>1, <1>2, <2>3, TimerSet
  <2>5. CASE clock = "stepped"
    <3>1. since' = LocalDay(zone, now') /\ ran' = {}
      BY <1>4, <2>5 DEF ForceRefresh
    <3> QED
      BY <2>3, <2>4, <3>1 DEF Planned
  <2>6. CASE clock # "stepped"
    <3> DEFINE day == LocalDay(zone, due)
               today == LocalDay(zone, now')
    <3>1. since' = since /\ ran' = ran \union {day}
      BY <1>4, <2>3, <2>6 DEF ForceRefresh
    <3>2. /\ due = Date(zone, day, at)
          /\ \A d \in since + 1 .. day - 1 : d \in ran
          /\ \A d \in ran : d < day
      BY <2>6 DEF Planned
    <3>3. day \in Int /\ today \in Int
      BY <1>1, <1>2, <2>4, LocalDayType
    <3> HIDE DEF day, today
    <3>4. day <= today
      BY <1>1, <1>2, <2>1, <2>2, <2>3, LocalDayMonotone DEF day, today
    <3>5. now' < Date(zone, day + 1, at) /\ Date(zone, day + 1, at) \in Int
      <4>1. Date(zone, day + 1, at) \in Int
        BY <1>1, <1>2, <3>3, DateType
      <4>2. Date(zone, day + 1, at) - Date(zone, day, at) \in DayLen - MaxShift .. DayLen + MaxShift
        BY <1>1, <1>2, <3>3, DateStep
      <4>3. Date(zone, day + 1, at) >= due + (DayLen - MaxShift)
        BY <1>1, <3>2, <4>1, <4>2 DEF DayLen, MaxShift
      <4> QED
        BY <1>1, <2>1, <2>2, <2>3, <4>1, <4>3, Constants DEF ShortRefresh, DayLen, MaxShift
    <3>6. today <= day + 1
      <4>1. LocalDay(zone, now') <= LocalDay(zone, Date(zone, day + 1, at))
        BY <1>2, <2>3, <3>5, LocalDayMonotone
      <4>2. LocalDay(zone, Date(zone, day + 1, at)) = day + 1
        BY <1>1, <1>2, <3>3, DateInDay
      <4> QED
        BY <4>1, <4>2 DEF today
    <3>7. LocalDay(zone, due') = day + 1
      <4>1. LocalDay(zone, due') = IF Date(zone, today, at) > now' THEN today ELSE today + 1
        BY <2>4 DEF today
      <4>2. CASE today = day
        BY <1>1, <2>1, <2>2, <2>3, <3>2, <4>1, <4>2
      <4>3. CASE today = day + 1
        BY <2>3, <3>5, <4>1, <4>3
      <4> QED
        BY <3>3, <3>4, <3>6, <4>2, <4>3
    <3>8. \A d \in since + 1 .. day : d \in ran'
      BY <1>1, <3>1, <3>2, <3>3
    <3>9. \A d \in ran' : d < day + 1
      BY <1>1, <3>1, <3>2, <3>3
    <3>10. /\ \A d \in since' + 1 .. LocalDay(zone, due') - 1 : d \in ran'
           /\ \A d \in ran' : d < LocalDay(zone, due')
      BY <3>1, <3>3, <3>7, <3>8, <3>9
    <3> QED
      BY <2>3, <2>4, <3>10 DEF Planned
  <2> QED
    BY <2>5, <2>6
<1>5. CASE \E d \in Steps : StepClock(d)
  BY <1>5 DEF StepClock, Planned
<1>6. CASE UNCHANGED vars
  BY <1>6 DEF vars, Planned
<1> QED
  BY <1>3, <1>4, <1>5, <1>6 DEF Next, AtHorizon

-----------------------------------------------------------------------------
(* What is proved.                                                         *)

\* The timer is always within its bounds, however long a refresh takes.
THEOREM TimerBounded ==
  ASSUME Civil
  PROVE  Spec => []Timing
<1>1. Init => Timing
  BY InitTiming
<1>2. Timing /\ [Next]_vars => Timing'
  BY StepTiming
<1> QED
  BY <1>1, <1>2, PTL DEF Spec

\* Every variable of the force loop stays in its type.
THEOREM TypeCorrect ==
  ASSUME Civil
  PROVE  Spec => []TypeOK
<1>1. Timing => TypeOK
  BY DEF Timing
<1> QED
  BY <1>1, TimerBounded, PTL

\* untilNextForce: whenever it is asked, the wait is positive and at most a day and
\* the shift of the clocks.
THEOREM WaitAlwaysInRange ==
  ASSUME Civil
  PROVE  Spec => []WaitInRange
<1>1. Timing => WaitInRange
  <2> SUFFICES ASSUME Timing PROVE WaitInRange
    OBVIOUS
  <2>1. CivilZone(zone) /\ at \in 0 .. DayLen - 1 /\ now \in Int
    BY DEF Timing, TypeOK, Civil
  <2> QED
    BY <2>1, NextForce DEF WaitInRange
<1> QED
  BY <1>1, TimerBounded, PTL

\* The plan of refreshes holds at every moment at which no step of the clock is
\* still to be made good.
THEOREM AlwaysPlanned ==
  ASSUME Civil, ShortRefresh
  PROVE  Spec => [](Timing /\ Planned)
<1>1. Init => Timing /\ Planned
  BY InitTiming, InitPlanned
<1>2. Timing /\ Planned /\ [Next]_vars => (Timing /\ Planned)'
  BY StepTiming, StepPlanned
<1> QED
  BY <1>1, <1>2, PTL DEF Spec

\* forceLoop: no local day that the service was up for passes without a refresh, on
\* the days on which the clocks change as on all others.
THEOREM NoLocalDayMissed ==
  ASSUME Civil, ShortRefresh
  PROVE  Spec => []NoDayMissed
<1>1. Timing /\ Planned => NoDayMissed
  <2> SUFFICES ASSUME Timing, Planned, clock # "stepped"
               PROVE  \A d \in since + 1 .. LocalDay(zone, now) - 1 : d \in ran
    BY DEF NoDayMissed
  <2>1. /\ CivilZone(zone) /\ now \in Int /\ due \in Int /\ now <= due /\ since \in Int
    BY DEF Timing, TypeOK, Civil
  <2>2. /\ LocalDay(zone, now) \in Int /\ LocalDay(zone, due) \in Int
        /\ LocalDay(zone, now) <= LocalDay(zone, due)
    BY <2>1, LocalDayType, LocalDayMonotone
  <2>3. \A d \in since + 1 .. LocalDay(zone, due) - 1 : d \in ran
    BY DEF Planned
  <2> QED
    BY <2>1, <2>2, <2>3
<1> QED
  BY <1>1, AlwaysPlanned, PTL

\* forceLoop: the refresh never starts twice on one local day.
THEOREM AtMostOncePerDay ==
  ASSUME Civil, ShortRefresh
  PROVE  Spec => OncePerLocalDay
<1>1. Timing /\ Planned /\ [Next]_vars
      => [ForceRefresh => clock = "stepped" \/ LocalDay(zone, now) \notin ran]_vars
  <2> SUFFICES ASSUME Timing, Planned, ForceRefresh, clock # "stepped"
               PROVE  LocalDay(zone, now) \notin ran
    OBVIOUS
  <2>1. now = due /\ CivilZone(zone) /\ due \in Int
    BY DEF Timing, TypeOK, ForceRefresh, Civil
  <2>2. LocalDay(zone, due) \in Int /\ \A d \in ran : d < LocalDay(zone, due)
    BY <2>1, LocalDayType DEF Planned
  <2> QED
    BY <2>1, <2>2
<1> QED
  BY <1>1, AlwaysPlanned, PTL DEF Spec, OncePerLocalDay
=============================================================================
