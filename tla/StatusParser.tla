---------------------------- MODULE StatusParser ----------------------------
(***************************************************************************)
(* From the API's status documents to a VehicleState (internal/bluelink/   *)
(* parse_ccs2.go, parse_ccs1.go, status.go and the conversions of          *)
(* model.go).                                                              *)
(*                                                                         *)
(* A pointer is a set with no element (nil) or one.  A document is a       *)
(* function from the paths it holds to tagged JSON values; a path is named *)
(* by its last distinctive segments.  Distances are counted in tenths, the *)
(* precision InDistanceUnit rounds to; a date is its layout and an         *)
(* instant.                                                                *)
(***************************************************************************)
EXTENDS Integers, SequencesExt

Num(n) == <<"num", n>>
Bool(b) == <<"bool", b>>
Str(s) == <<"str", s>>
List(l) == <<"list", l>>

Nil == {}
Empty == [p \in {} |-> Nil]   \* the document without fields

-----------------------------------------------------------------------------
(* Lookups: absent, or of a type that cannot be coerced, is nil.           *)

getPath(doc, path) == IF path \in DOMAIN doc THEN {doc[path]} ELSE Nil

asFloat(v) ==
  CASE v[1] = "num" -> {v[2]}
    [] v[1] = "bool" -> {IF v[2] THEN 1 ELSE 0}
    [] OTHER -> Nil

getFloat(doc, path) == UNION {asFloat(v) : v \in getPath(doc, path)}

\* int(f): the flags, indexes and minutes read with it are whole numbers, on which
\* the truncation is the identity.
getInt(doc, path) == getFloat(doc, path)

getString(doc, path) == {v[2] : v \in {w \in getPath(doc, path) : w[1] = "str"}}
getBool(doc, path) == {v[2] : v \in {w \in getPath(doc, path) : w[1] = "bool"}}
getList(doc, path) == {v[2] : v \in {w \in getPath(doc, path) : w[1] = "list"}}

\* parseCCS2Date and parseBluelinkTime: the layouts each accepts.
parseCCS2Date(s) == {d[2] : d \in {e \in s : e[1] \in {"rfc3339", "compact", "spaced"}}}
parseBluelinkTime(s) == {d[2] : d \in {e \in s : e[1] \in {"compact", "rfc3339"}}}

-----------------------------------------------------------------------------
(* Normalisation.                                                          *)

distanceUnit(idx) ==
  IF idx = {1} THEN "km" ELSE IF idx \in {{2}, {3}} THEN "mi" ELSE ""

\* Mutant: every temperature is taken for Celsius.
temperatureC_NoUnit(value, unitIdx) == value

temperatureC(value, unitIdx) ==
  {IF unitIdx = {1} THEN ((c - 32) * 5) \div 9 ELSE c : c \in value}

normalizeBatterySoC(value, reliability) ==
  IF reliability = {1} THEN Nil ELSE {v \in value : 0 <= v /\ v <= 100}

\* kmPerMile = 1.609344; math.Round to one decimal.
convertDistance(tenths, from, to) ==
  CASE from = "km" /\ to = "mi" -> (tenths * 1000000 + 804672) \div 1609344
    [] from = "mi" /\ to = "km" -> (tenths * 1609344 + 500000) \div 1000000
    [] OTHER -> tenths

convertDistanceField(value, from, to) ==
  IF value = Nil \/ from = "" \/ from = to
  THEN [value |-> value, unit |-> from]
  ELSE [value |-> {convertDistance(v, from, to) : v \in value}, unit |-> to]

InDistanceUnit(st, unit) ==
  LET odo == convertDistanceField(st.odometer, st.odometer_unit, unit)
      range == convertDistanceField(st.ev_range, st.ev_range_unit, unit)
  IN  IF unit = "" THEN st
      ELSE [st EXCEPT !.odometer = odo.value, !.odometer_unit = odo.unit,
                      !.ev_range = range.value, !.ev_range_unit = range.unit]

LockPaths == {"Row1.Driver.Lock", "Row1.Passenger.Lock", "Row2.Left.Lock", "Row2.Right.Lock"}

\* A truthy Lock is an unlocked door; nil if any door is absent.
allDoorsLocked(doc) ==
  LET locks == [p \in LockPaths |-> getInt(doc, p)]
  IN  IF \E p \in LockPaths : locks[p] = Nil THEN Nil ELSE {\A p \in LockPaths : locks[p] = {0}}

\* tireWarning and ccs1TireWarning: the flags that are present, or nil if none is.
AnyFlag(doc, paths) ==
  LET seen == UNION {getInt(doc, p) : p \in paths}
  IN  IF seen = {} THEN Nil ELSE {\E v \in seen : v # 0}

TirePaths == {"Tire.PressureLow", "Row1.Left.Tire.PressureLow", "Row1.Right.Tire.PressureLow",
              "Row2.Left.Tire.PressureLow", "Row2.Right.Tire.PressureLow"}
LampPaths == {"tirePressureLampAll", "tirePressureLampFL", "tirePressureLampFR",
              "tirePressureLampRL", "tirePressureLampRR"}

-----------------------------------------------------------------------------
(* The two protocols.  The fields are named by their JSON tags.            *)

NonZero(o) == {v # 0 : v \in o}
NoPosition == [lat |-> Nil, lon |-> Nil, time |-> Nil]

parseCCS2(doc) ==
  LET remain == getInt(doc, "Charging.RemainTime")
      odo == getFloat(doc, "Odometer")
  IN [ev_battery_percentage |-> getFloat(doc, "BatteryRemain.Ratio"),
      ev_battery_soh |-> getFloat(doc, "SoH.Ratio"),
      ev_range |-> getFloat(doc, "DTE.Total"),
      ev_range_unit |-> distanceUnit(getInt(doc, "DTE.Unit")),
      charging |-> {m > 0 : m \in remain},
      est_charge_time |-> remain,
      est_fast_charge_time |-> getInt(doc, "EstimatedTime.Quick"),
      plugged_in |-> NonZero(getInt(doc, "ConnectorFastening.State")),
      charge_port_door |-> {v = 1 : v \in getInt(doc, "ChargingDoor.State") \intersect 0 .. 2},
      charge_limit_ac |-> getFloat(doc, "TargetSoC.Standard"),
      charge_limit_dc |-> getFloat(doc, "TargetSoC.Quick"),
      charging_power |-> getFloat(doc, "RealTimePower"),
      battery_12v |-> normalizeBatterySoC(getFloat(doc, "Battery.Level"),
                                          getInt(doc, "Battery.SensorReliability")),
      odometer |-> odo,
      odometer_unit |-> IF odo = Nil THEN "" ELSE "km",
      outside_temp |-> temperatureC(getFloat(doc, "OutsideTemperature.Value"),
                                    getInt(doc, "OutsideTemperature.Unit")),
      inside_temp |-> temperatureC(getFloat(doc, "Driver.Temperature.Value"),
                                   getInt(doc, "Driver.Temperature.Unit")),
      locked |-> allDoorsLocked(doc),
      tire_warning |-> AnyFlag(doc, TirePaths),
      position |-> NoPosition,
      last_updated |-> parseCCS2Date(getString(doc, "Date"))]

\* The targetSOClist loop: entries without a level or a plug type are skipped, the
\* last one for a plug type counts.
TargetSoC(list, plug) ==
  LET hits == {i \in DOMAIN list : /\ getInt(list[i], "plugType") = {plug}
                                   /\ getFloat(list[i], "targetSOClevel") # Nil}
  IN  IF hits = {} THEN Nil ELSE getFloat(list[Max(hits)], "targetSOClevel")

\* The location embedded in (or injected into) a CCS1 document: both coordinates,
\* and not the 0/0 of a car without a fix.
PositionCCS1(loc) ==
  LET lat == getFloat(loc, "lat")
      lon == getFloat(loc, "lon")
  IN  IF lat = Nil \/ lon = Nil \/ (lat = {0} /\ lon = {0}) THEN NoPosition
      ELSE [lat |-> lat, lon |-> lon, time |-> parseBluelinkTime(getString(loc, "time"))]

\* info is [vehicleStatus |-> pointer, vehicleLocation, odometer |-> document].
parseCCS1(info) ==
  {LET first == UNION {IF l = <<>> THEN Nil ELSE {Head(l)} : l \in getList(doc, "drvDistance")}
       limit(plug) == UNION {TargetSoC(l, plug) : l \in getList(doc, "targetSOClist")}
   IN [ev_battery_percentage |-> getFloat(doc, "batteryStatus"),
       ev_battery_soh |-> Nil,
       ev_range |-> UNION {getFloat(f, "totalAvailableRange.value") : f \in first},
       ev_range_unit |->
         distanceUnit(UNION {getInt(f, "totalAvailableRange.unit") : f \in first}),
       charging |-> getBool(doc, "batteryCharge"),
       est_charge_time |-> getInt(doc, "atc.value"),
       est_fast_charge_time |-> getInt(doc, "etc3.value"),
       plugged_in |-> NonZero(getInt(doc, "batteryPlugin")),
       charge_port_door |-> Nil,
       charge_limit_ac |-> limit(1),
       charge_limit_dc |-> limit(0),
       charging_power |-> Nil,
       battery_12v |-> normalizeBatterySoC(getFloat(doc, "batSoc"), Nil),
       odometer |-> getFloat(info.odometer, "value"),
       odometer_unit |-> distanceUnit(getInt(info.odometer, "unit")),
       outside_temp |-> Nil,
       inside_temp |-> Nil,
       locked |-> getBool(doc, "doorLock"),
       tire_warning |-> AnyFlag(doc, LampPaths),
       position |-> PositionCCS1(info.vehicleLocation),
       last_updated |-> parseBluelinkTime(getString(doc, "time"))]
   : doc \in info.vehicleStatus}

-----------------------------------------------------------------------------
(* Fetching.  api holds the answers of one cycle: status (nil when the     *)
(* request fails or its container is missing), park (nil when the request  *)
(* fails), and what a cached CCS1 answer embeds.  No state is an error.    *)

\* json.Unmarshal into *float64 and string: no coercion, a field of another type is
\* an error of the location request.
Decodes(park) ==
  /\ \A path \in {"lat", "lon"} : \A v \in getPath(park, path) : v[1] = "num"
  /\ \A v \in getPath(park, "time") : v[1] = "str"

parkLocation(park) ==
  IF ~Decodes(park) THEN NoPosition
  ELSE [lat |-> getFloat(park, "lat"), lon |-> getFloat(park, "lon"),
        time |-> parseBluelinkTime(getString(park, "time"))]

cachedStatusCCS1(api) ==
  parseCCS1([vehicleStatus |-> api.status, vehicleLocation |-> api.location,
             odometer |-> api.odometer])

forceStatusCCS1(api) ==
  parseCCS1([vehicleStatus |-> api.status,
             vehicleLocation |-> IF api.park = Nil THEN Empty ELSE CHOOSE p \in api.park : TRUE,
             odometer |-> Empty])

fetchStatusCCS2(api) ==
  {IF api.park = Nil THEN parseCCS2(doc)
   ELSE [parseCCS2(doc) EXCEPT !.position = parkLocation(CHOOSE p \in api.park : TRUE)]
   : doc \in api.status}

fetchStatus(ccs2, force, api) ==
  IF ccs2 THEN fetchStatusCCS2(api)
  ELSE IF force THEN forceStatusCCS1(api) ELSE cachedStatusCCS1(api)
=============================================================================
