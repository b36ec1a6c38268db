----------------------------- MODULE BluelinkApi -----------------------------
(***************************************************************************)
(* The other side of the parsers: a car, and the documents the API may     *)
(* send about it.  External, written from the documents the repository's   *)
(* mock serves (internal/mock/server.go) and from the variants its parsers *)
(* and their tests allow for.                                              *)
(*                                                                         *)
(* The fields of a document come in groups.  A group has codes, each of    *)
(* which tells the facts of the group, and blanks, which tell nothing;     *)
(* vague ones give a distance without its unit.  Of all the documents, the *)
(* model takes those in which at most one group departs from the usual:    *)
(* the parsers treat the groups independently.                             *)
(***************************************************************************)
EXTENDS Display

\* A document with one field, and two documents in one.
Field(path, v) == [p \in {path} |-> v]
Both(a, b) == [p \in DOMAIN a \union DOMAIN b |-> IF p \in DOMAIN a THEN a[p] ELSE b[p]]

\* A car: everything the API can tell, named by the JSON tags; its range is in
\* the unit of its own display.
IsCar(car) ==
  /\ car.unit \in {"km", "mi"} /\ car.ev_range \in Nat /\ car.odometer \in Nat
  /\ car.est_charge_time \in Nat /\ car.charging = (car.est_charge_time > 0)
  /\ car.plugged_in \in BOOLEAN /\ car.charge_port_door \in BOOLEAN
  /\ car.battery_12v \in 0 .. 100
  /\ car.outside_temp \in Int /\ car.inside_temp \in Int
  /\ car.unlocked \subseteq LockPaths /\ car.locked = (car.unlocked = {})
  /\ car.lowTyres \subseteq TirePaths /\ car.tire_warning = (car.lowTyres # {})

\* The whole number of degrees a temperature is in Fahrenheit, if it is one.
Fahrenheit(t) == IF t % 5 = 0 THEN {(t \div 5) * 9 + 32} ELSE {}

Group(codes, blanks, tells) ==
  [codes |-> codes, blanks |-> blanks, vague |-> {}, tells |-> tells]
Plain(path, v, key) == Group({Field(path, Num(v))}, {Empty, Field(path, Str("-"))}, {key})

UnitIndexes(unit) == IF unit = "km" THEN {1} ELSE {2, 3}
Flag(b) == Num(IF b THEN 1 ELSE 0)

FlagsOf(paths, low) == [p \in paths |-> Flag(p \in low)]

\* ccs2/carstatus: resMsg.state.Vehicle.
RangeCCS2(car) ==
  LET total == Field("DTE.Total", Num(car.ev_range))
      unit(n) == Field("DTE.Unit", Num(n))
  IN  [codes |-> {Both(total, unit(i)) : i \in UnitIndexes(car.unit)},
       blanks |-> {Empty, unit(1)},
       vague |-> {total, Both(total, unit(0))},
       tells |-> {"ev_range"}]

ChargeCCS2(car) ==
  Group({Field("Charging.RemainTime", Num(car.est_charge_time))}, {Empty},
        {"charging", "est_charge_time"})

PlugCCS2(car) ==
  Group({Field("ConnectorFastening.State", v)
         : v \in IF car.plugged_in THEN {Num(1), Num(2), Bool(TRUE)} ELSE {Num(0), Bool(FALSE)}},
        {Empty}, {"plugged_in"})

PortCCS2(car) ==
  Group({Field("ChargingDoor.State", Num(n)) : n \in IF car.charge_port_door THEN {1} ELSE {0, 2}},
        {Empty, Field("ChargingDoor.State", Num(3))}, {"charge_port_door"})

AuxCCS2(car) ==
  LET level(n) == Field("Battery.Level", Num(n))
      reliability(n) == Field("Battery.SensorReliability", Num(n))
  IN  Group({level(car.battery_12v), Both(level(car.battery_12v), reliability(0))},
            {Empty, Both(level(car.battery_12v), reliability(1)), level(255), level(-1)},
            {"battery_12v"})

OutsideCCS2(car) ==
  LET value(n) == Field("OutsideTemperature.Value", Num(n))
      unit(n) == Field("OutsideTemperature.Unit", Num(n))
  IN  Group({value(car.outside_temp), Both(value(car.outside_temp), unit(0))}
              \union {Both(value(f), unit(1)) : f \in Fahrenheit(car.outside_temp)},
            {Empty, unit(0)}, {"outside_temp"})

InsideCCS2(car) ==
  LET value(v) == Field("Driver.Temperature.Value", v)
      unit(n) == Field("Driver.Temperature.Unit", Num(n))
  IN  Group({Both(value(Num(car.inside_temp)), unit(0))}
              \union {Both(value(Num(f)), unit(1)) : f \in Fahrenheit(car.inside_temp)},
            {Empty, Both(value(Str("OFF")), unit(0))}, {"inside_temp"})

DoorsCCS2(car) ==
  Group({FlagsOf(LockPaths, car.unlocked)},
        {FlagsOf(LockPaths \ {q}, car.unlocked) : q \in LockPaths}, {"locked"})

TyresCCS2(car) ==
  Group({FlagsOf(TirePaths, car.lowTyres), FlagsOf(car.lowTyres, car.lowTyres)} \ {Empty},
        {Empty}, {"tire_warning"})

DateCCS2(car) ==
  Group({Field("Date", Str(<<l, car.last_updated>>)) : l \in {"rfc3339", "compact", "spaced"}},
        {Empty, Field("Date", Str(<<"other", 0>>))}, {"last_updated"})

CCS2Groups(car) ==
  [soc |-> Plain("BatteryRemain.Ratio", car.ev_battery_percentage, "ev_battery_percentage"),
   soh |-> Plain("SoH.Ratio", car.ev_battery_soh, "ev_battery_soh"),
   range |-> RangeCCS2(car),
   charge |-> ChargeCCS2(car),
   quick |-> Plain("EstimatedTime.Quick", car.est_fast_charge_time, "est_fast_charge_time"),
   plug |-> PlugCCS2(car),
   port |-> PortCCS2(car),
   ac |-> Plain("TargetSoC.Standard", car.charge_limit_ac, "charge_limit_ac"),
   dc |-> Plain("TargetSoC.Quick", car.charge_limit_dc, "charge_limit_dc"),
   power |-> Plain("RealTimePower", car.charging_power, "charging_power"),
   aux |-> AuxCCS2(car),
   odometer |-> Plain("Odometer", car.odometer, "odometer"),
   outside |-> OutsideCCS2(car),
   inside |-> InsideCCS2(car),
   doors |-> DoorsCCS2(car),
   tyres |-> TyresCCS2(car),
   date |-> DateCCS2(car)]

\* status/latest and status: vehicleStatus, without the odometer.
RangeCCS1(car) ==
  LET value == Field("totalAvailableRange.value", Num(car.ev_range))
      unit(n) == Field("totalAvailableRange.unit", Num(n))
      dist(l) == Field("drvDistance", List(l))
  IN  [codes |-> {dist(<<Both(value, unit(i))>>) : i \in UnitIndexes(car.unit)},
       blanks |-> {Empty, dist(<<>>), dist(<<unit(1)>>)},
       vague |-> {dist(<<value>>), dist(<<Both(value, unit(0))>>)},
       tells |-> {"ev_range"}]

ChargeCCS1(car) == Group({Field("batteryCharge", Bool(car.charging))}, {Empty}, {"charging"})

PlugCCS1(car) ==
  Group({Field("batteryPlugin", Num(n)) : n \in IF car.plugged_in THEN {1, 2} ELSE {0}},
        {Empty}, {"plugged_in"})

Entry(level, plug) == Both(Field("targetSOClevel", Num(level)), Field("plugType", Num(plug)))
LimitsCCS1(car) ==
  LET ac == Entry(car.charge_limit_ac, 1)
      dc == Entry(car.charge_limit_dc, 0)
  IN  Group({Field("targetSOClist", List(l)) : l \in {<<dc, ac>>, <<ac, dc>>, <<Empty, dc, ac>>}},
            {Empty, Field("targetSOClist", List(<<Field("plugType", Num(0))>>))},
            {"charge_limit_ac", "charge_limit_dc"})

AuxCCS1(car) ==
  Group({Field("batSoc", Num(car.battery_12v))}, {Empty, Field("batSoc", Num(255))},
        {"battery_12v"})

DoorsCCS1(car) == Group({Field("doorLock", Bool(car.locked))}, {Empty}, {"locked"})

TyresCCS1(car) ==
  Group({Field("tirePressureLampAll", Flag(car.tire_warning)),
         FlagsOf(LampPaths, IF car.tire_warning THEN {"tirePressureLampRL"} ELSE {})},
        {Empty}, {"tire_warning"})

DateCCS1(car) ==
  Group({Field("time", Str(<<l, car.last_updated>>)) : l \in {"compact", "rfc3339"}},
        {Empty, Field("time", Str(<<"other", 0>>))}, {"last_updated"})

CCS1Groups(car) ==
  [soc |-> Plain("batteryStatus", car.ev_battery_percentage, "ev_battery_percentage"),
   range |-> RangeCCS1(car),
   charge |-> ChargeCCS1(car),
   time |-> Plain("atc.value", car.est_charge_time, "est_charge_time"),
   quick |-> Plain("etc3.value", car.est_fast_charge_time, "est_fast_charge_time"),
   plug |-> PlugCCS1(car),
   limits |-> LimitsCCS1(car),
   aux |-> AuxCCS1(car),
   doors |-> DoorsCCS1(car),
   tyres |-> TyresCCS1(car),
   date |-> DateCCS1(car)]

\* The odometer next to a cached vehicleStatus; it has a unit of its own.
CCS1Odometer(car) ==
  [codes |-> {Both(Field("value", Num(car.odometer)), Field("unit", Num(1)))},
   blanks |-> {Empty}, vague |-> {Field("value", Num(car.odometer))}, tells |-> {"odometer"}]

-----------------------------------------------------------------------------
(* Answers.                                                                *)

Merged(parts) ==
  LET fields == UNION {DOMAIN parts[g] : g \in DOMAIN parts}
  IN  [p \in fields |-> parts[CHOOSE g \in DOMAIN parts : p \in DOMAIN parts[g]][p]]

FirstCodes(groups) == [g \in DOMAIN groups |-> CHOOSE d \in groups[g].codes : TRUE]

Usual(groups) == [doc |-> Merged(FirstCodes(groups)), vague |-> {},
                  told |-> UNION {groups[g].tells : g \in DOMAIN groups}]

Documents(groups) ==
  LET u == Usual(groups)
      with(g, d) == Merged([FirstCodes(groups) EXCEPT ![g] = d])
  IN UNION {{[u EXCEPT !.doc = with(g, d)] : d \in groups[g].codes}
            \union {[u EXCEPT !.doc = with(g, d), !.told = @ \ groups[g].tells]
                    : d \in groups[g].blanks}
            \union {[u EXCEPT !.doc = with(g, d), !.vague = groups[g].tells]
                    : d \in groups[g].vague}
            : g \in DOMAIN groups}

\* Location answers and the position they tell: a position, a request that fails,
\* nothing and half a position.  0/0 is a position like any other to CCS2 and a car
\* without a fix to CCS1; a coordinate of another type is an error to CCS2.
At(lat, lon) == Both(Field("lat", Num(lat)), Field("lon", Num(lon)))
Mistyped == Both(Field("lat", Bool(TRUE)), Field("lon", Num(0)))
Places == {<<{515}, {-1}>>, <<{520}, {0}>>, <<{0}, {0}>>}
Located(lat, lon) ==
  [doc |-> {Both(At(lat, lon), Field("time", Str(<<"compact", 7>>)))}, place |-> {<<{lat}, {lon}>>}]
NoPlace(pointer) == [doc |-> pointer, place |-> {}]
Locations(ccs2) ==
  {Located(515, -1), Located(520, 0), NoPlace(Nil), NoPlace({Empty}), NoPlace({Field("lat", Num(515))})}
    \union IF ccs2 THEN {Located(0, 0), NoPlace({Mistyped})} ELSE {NoPlace({At(0, 0)})}

\* What one cycle is answered, and what the answers tell together.  A cached CCS1
\* status has location and odometer in it; every other one is followed by a
\* request for the location.
Answer(cached, d, o, l) ==
  [status |-> {d.doc},
   park |-> IF cached THEN Nil ELSE l.doc,
   location |-> IF cached /\ l.doc # Nil THEN CHOOSE doc \in l.doc : TRUE ELSE Empty,
   odometer |-> o.doc,
   told |-> d.told \union o.told, vague |-> d.vague \union o.vague, place |-> l.place]

Answers(ccs2, force, car) ==
  LET groups == IF ccs2 THEN CCS2Groups(car) ELSE CCS1Groups(car)
      cached == ~ccs2 /\ ~force
      odo == IF cached THEN [odo |-> CCS1Odometer(car)] ELSE Empty
  IN {Answer(cached, d, Usual(odo), l) : d \in Documents(groups), l \in {Located(515, -1), NoPlace(Nil)}}
       \union {Answer(cached, Usual(groups), o, l)
               : o \in Documents(odo) \union {Usual(odo)}, l \in Locations(ccs2)}
=============================================================================
