--------------------------- MODULE PipelineProofs ---------------------------
(***************************************************************************)
(* Proofs about a deployment from its environment to what people see:      *)
(* what Load accepts can be served, and Home Assistant and the status page *)
(* show what the car's answers told.  What the parsers make of an answer   *)
(* comes from ParserProofs.                                                *)
(***************************************************************************)
EXTENDS Pipeline, ParserProofs, WellFoundedInduction

-----------------------------------------------------------------------------
(* Configuration.                                                          *)

\* What Load accepts, the constructors take, and the distance unit is one of the two.
LEMMA LoadAccepts ==
  ASSUME NEW e \in Environments, C!Load(e).ok
  PROVE  /\ ConstructorsAccept(C!Load(e).cfg)
         /\ C!Load(e).cfg.DistanceUnit \in {"km", "mi"}
<1> DEFINE mode == C!ToLower(C!getEnv(e, "MODE", "live"))
           dummy(s) == IF mode = "mock" /\ s = "" THEN "mock" ELSE s
           interval == C!Parse(e.POLL_INTERVAL, 45)
           store == C!ToLower(C!getEnv(e, "TOKEN_STORE", "memory"))
           unit == C!ToLower(C!getEnv(e, "DISTANCE_UNIT", "km"))
           cfg == C!Load(e).cfg
<1>1. /\ cfg.Username = dummy(e.BLUELINK_USERNAME) /\ cfg.Password = dummy(e.BLUELINK_PASSWORD)
      /\ cfg.PollInterval = interval.val /\ cfg.DistanceUnit = unit
      /\ cfg.TokenStore = store /\ cfg.TokenSecretName = e.TOKEN_SECRET_NAME
  BY DEF C!Load
<1>2. /\ mode \in {"live", "mock"}
      /\ C!CredentialsOK(mode, cfg.Username, cfg.Password)
      /\ ~interval.err /\ interval.val >= C!MinPollInterval
      /\ unit \in {"km", "mi"}
      /\ C!TokenStoreOK(store, e.TOKEN_SECRET_NAME)
  BY <1>1 DEF C!Load
<1> HIDE DEF mode, interval, store, unit, cfg
<1>3. cfg.Username # "" /\ cfg.Password # ""
  BY <1>1, <1>2 DEF C!CredentialsOK
<1>4. interval.val \in Int
  <2>1. e.POLL_INTERVAL \in {C!Unset, C!Malformed} \/ e.POLL_INTERVAL[2] \in Int
    BY PipelineAssumption
  <2> QED
    BY <2>1 DEF interval, C!Parse
<1>5. cfg.PollInterval > 0
  <2>1. C!MinPollInterval = 5
    BY DEF C!MinPollInterval
  <2>2. cfg.PollInterval = interval.val
    BY <1>1
  <2>3. interval.val >= 5
    BY <1>2, <2>1
  <2> QED
    BY <1>4, <2>2, <2>3
<1>6. cfg.TokenStore = "kube" => cfg.TokenSecretName # ""
  BY <1>1, <1>2 DEF C!TokenStoreOK
<1> QED
  BY <1>1, <1>2, <1>3, <1>5, <1>6 DEF ConstructorsAccept, cfg

\* A non-empty set of natural numbers has its minimum.
LEMMA MinIsMember ==
  ASSUME NEW S, S \subseteq Nat, S # {}
  PROVE  Min(S) \in S /\ \A y \in S : Min(S) <= y
<1>1. PICK x \in S : \A y \in S : ~ (<<y, x>> \in OpToRel(<, Nat))
  BY NatLessThanWellFounded, WFMin
<1>2. \A y \in S : x <= y
  <2> SUFFICES ASSUME NEW y \in S PROVE x <= y
    OBVIOUS
  <2>1. <<y, x>> \in Nat \X Nat /\ ~(<<y, x>>[1] < <<y, x>>[2])
    BY <1>1, Zenon DEF OpToRel
  <2>2. ~(y < x)
    BY <2>1
  <2> QED
    BY <2>2
<1> QED
  BY <1>2 DEF Min

\* SelectVehicle takes a car that is meant.
LEMMA SelectedIsChosen ==
  ASSUME account \in Accounts, NEW v \in SelectVehicle(account, C!Load(env).cfg.VIN)
  PROVE  v.VIN \in Chosen /\ v.VIN \in DOMAIN FactsOf /\ v.ccs2 \in BOOLEAN
<1> DEFINE vin == C!Load(env).cfg.VIN
           hits == {i \in DOMAIN account : vin = "" \/ EqualFold(account[i].VIN, vin)}
           meant == {j \in DOMAIN account : IF vin = "" THEN j = 1 ELSE EqualFold(account[j].VIN, vin)}
<1>1. hits # {} /\ v = account[Min(hits)]
  BY DEF SelectVehicle
<1>2. DOMAIN account = 1 .. Len(account) /\ Len(account) \in Nat
  BY PipelineAssumption
<1> HIDE DEF vin
<1>3. hits \subseteq Nat
  <2>1. hits \subseteq DOMAIN account
    BY Zenon
  <2> HIDE DEF hits
  <2> QED
    BY <1>2, <2>1
<1>4. Chosen = {account[i].VIN : i \in meant}
  BY DEF Chosen, vin
<1>5. Min(hits) \in hits /\ \A y \in hits : Min(hits) <= y
  BY <1>1, <1>3, MinIsMember
<1>6. Min(hits) \in meant
  <2>1. CASE vin = ""
    <3>1. hits = 1 .. Len(account)
      BY <1>2, <2>1
    <3>2. Min(hits) = 1
      <4> HIDE DEF hits
      <4>1. Min(hits) \in 1 .. Len(account)
        BY <1>5, <3>1
      <4>2. 1 \in hits
        BY <1>2, <3>1, <4>1
      <4>3. Min(hits) <= 1
        BY <1>5, <4>2
      <4> QED
        BY <1>2, <4>1, <4>3
    <3> QED
      BY <1>5, <2>1, <3>2
  <2>2. CASE vin # ""
    <3> QED
      BY <1>5, <2>2
  <2> QED
    BY <2>1, <2>2
<1> HIDE DEF hits, meant
<1>7. v.VIN \in Chosen
  BY <1>1, <1>4, <1>6
<1>8. Min(hits) \in DOMAIN account
  BY <1>5 DEF hits
<1>9. v.VIN \in DOMAIN FactsOf /\ v.ccs2 \in BOOLEAN
  BY <1>1, <1>8, PipelineAssumption
<1> QED
  BY <1>7, <1>9

-----------------------------------------------------------------------------
(* Display.                                                                *)

\* Conversion gives the nearest tenth.
LEMMA NearestTenth ==
  ASSUME NEW n \in Nat, NEW from \in {"km", "mi"}, NEW to \in {"km", "mi"}, from # to
  PROVE  SameDistance(convertDistance(n, from, to), to, n, from)
<1>1. CASE from = "km" /\ to = "mi"
  <2> DEFINE q == (n * 1000000 + 804672) \div 1609344
  <2>1. q \in Int /\ q * 1609344 <= n * 1000000 + 804672 /\ n * 1000000 + 804672 < q * 1609344 + 1609344
    OBVIOUS
  <2>2. convertDistance(n, from, to) = q /\ Tenth(to) = 1609344 /\ Tenth(from) = 1000000
    BY <1>1 DEF convertDistance, Tenth
  <2> HIDE DEF q
  <2> QED
    BY <2>1, <2>2 DEF SameDistance
<1>2. CASE from = "mi" /\ to = "km"
  <2> DEFINE q == (n * 1609344 + 500000) \div 1000000
  <2>1. q \in Int /\ q * 1000000 <= n * 1609344 + 500000 /\ n * 1609344 + 500000 < q * 1000000 + 1000000
    OBVIOUS
  <2>2. convertDistance(n, from, to) = q /\ Tenth(to) = 1000000 /\ Tenth(from) = 1609344
    BY <1>2 DEF convertDistance, Tenth
  <2> HIDE DEF q
  <2> QED
    BY <2>1, <2>2 DEF SameDistance
<1> QED
  BY <1>1, <1>2

\* A distance that is already in the label's unit stays as it is.
LEMMA SameUnit ==
  ASSUME NEW n \in Nat, NEW unit
  PROVE  SameDistance(n, unit, n, unit)
<1>1. Tenth(unit) \in Nat
  BY DEF Tenth
<1> DEFINE m == n * Tenth(unit)
<1>2. m \in Int /\ m - m = 0
  BY <1>1
<1> HIDE DEF m
<1>3. 2 * (m - m) <= Tenth(unit) /\ 2 * (m - m) >= -Tenth(unit)
  BY <1>1, <1>2
<1> QED
  BY <1>3 DEF SameDistance, m

\* convertDistanceField on what the parsers can say of a distance.
Keeps(n, from, to) ==
  \E v : convertDistanceField({n}, from, to).value = {v} /\ SameDistance(v, to, n, from)

LEMMA FieldConverted ==
  ASSUME NEW n \in Nat, NEW from \in {"km", "mi"}, NEW to \in {"km", "mi"}
  PROVE  Keeps(n, from, to)
<1>1. {n} # Nil /\ from # ""
  BY DEF Nil
<1>2. CASE from = to
  <2>1. convertDistanceField({n}, from, to).value = {n}
    BY <1>2 DEF convertDistanceField
  <2> QED
    BY <1>2, <2>1, SameUnit DEF Keeps
<1>3. CASE from # to
  <2>1. convertDistanceField({n}, from, to).value = {convertDistance(n, from, to)}
    BY <1>1, <1>3 DEF convertDistanceField
  <2> QED
    BY <1>3, <2>1, NearestTenth DEF Keeps
<1> QED
  BY <1>2, <1>3

\* A state has every field that is shown, and the units of the distances.
Shaped(st) == Entities \union Metrics \union {"ev_range_unit", "odometer_unit"} \subseteq DOMAIN st

LEMMA FetchShape ==
  ASSUME NEW ccs2 \in BOOLEAN, NEW force \in BOOLEAN, NEW api, NEW st \in fetchStatus(ccs2, force, api)
  PROVE  Shaped(st)
<1> DEFINE fields == {"ev_battery_percentage", "ev_battery_soh", "ev_range", "ev_range_unit",
             "charging", "est_charge_time", "est_fast_charge_time", "plugged_in", "charge_port_door",
             "charge_limit_ac", "charge_limit_dc", "charging_power", "battery_12v", "odometer",
             "odometer_unit", "outside_temp", "inside_temp", "locked", "tire_warning", "position",
             "last_updated"}
<1>0. Entities \union Metrics \union {"ev_range_unit", "odometer_unit"} \subseteq fields
  BY DEF Entities, Sensors, BinarySensors, Metrics
<1>1. ASSUME NEW doc PROVE Shaped(parseCCS2(doc))
  <2>1. DOMAIN parseCCS2(doc) = fields
    BY DEF parseCCS2
  <2> QED
    BY <1>0, <2>1 DEF Shaped
<1>2. ASSUME NEW info, NEW s \in parseCCS1(info) PROVE Shaped(s)
  <2> DEFINE first(doc) ==
               UNION {IF l = <<>> THEN Nil ELSE {Head(l)} : l \in getList(doc, "drvDistance")}
             limit(doc, plug) == UNION {TargetSoC(l, plug) : l \in getList(doc, "targetSOClist")}
             parsed(doc) ==
               [ev_battery_percentage |-> getFloat(doc, "batteryStatus"),
                ev_battery_soh |-> Nil,
                ev_range |-> UNION {getFloat(f, "totalAvailableRange.value") : f \in first(doc)},
                ev_range_unit |->
                  distanceUnit(UNION {getInt(f, "totalAvailableRange.unit") : f \in first(doc)}),
                charging |-> getBool(doc, "batteryCharge"),
                est_charge_time |-> getInt(doc, "atc.value"),
                est_fast_charge_time |-> getInt(doc, "etc3.value"),
                plugged_in |-> NonZero(getInt(doc, "batteryPlugin")),
                charge_port_door |-> Nil,
                charge_limit_ac |-> limit(doc, 1),
                charge_limit_dc |-> limit(doc, 0),
                charging_power |-> Nil,
                battery_12v |-> normalizeBatterySoC(getFloat(doc, "batSoc"), Nil),
                odometer |-> getFloat(info.odometer, "value"),
                odometer_unit |-> distanceUnit(getInt(info.odometer, "unit")),
                outside_temp |-> Nil,
                inside_temp |-> Nil,
                locked |-> getBool(doc, "doorLock"),
                tire_warning |-> AnyFlag(doc, LampPaths),
                position |-> PositionCCS1(info.vehicleLocation),
                last_updated |-> parseBluelinkTime(getString(doc, "time"))]
  <2>1. parseCCS1(info) = {parsed(doc) : doc \in info.vehicleStatus}
    BY Zenon DEF parseCCS1
  <2>2. \A doc : DOMAIN parsed(doc) = fields
    OBVIOUS
  <2> HIDE DEF parsed
  <2>3. DOMAIN s = fields
    BY <2>1, <2>2
  <2> QED
    BY <1>0, <2>3 DEF Shaped
<1>3. ASSUME NEW doc, NEW position PROVE Shaped([parseCCS2(doc) EXCEPT !.position = position])
  <2>1. DOMAIN [parseCCS2(doc) EXCEPT !.position = position] = DOMAIN parseCCS2(doc)
    BY Zenon
  <2> QED
    BY <1>1, <2>1 DEF Shaped
<1>4. CASE ccs2
  <2>1. PICK doc : st = IF api.park = Nil THEN parseCCS2(doc)
                        ELSE [parseCCS2(doc) EXCEPT !.position = parkLocation(CHOOSE p \in api.park : TRUE)]
    BY <1>4 DEF fetchStatus, fetchStatusCCS2
  <2> QED
    BY <1>1, <1>3, <2>1
<1>5. CASE ~ccs2
  BY <1>2, <1>5 DEF fetchStatus, forceStatusCCS1, cachedStatusCCS1
<1> QED
  BY <1>4, <1>5

\* InDistanceUnit converts the two distances and leaves the rest.
LEMMA Converted ==
  ASSUME NEW st, Shaped(st), NEW unit \in {"km", "mi"}
  PROVE  /\ InDistanceUnit(st, unit).odometer
              = convertDistanceField(st.odometer, st.odometer_unit, unit).value
         /\ InDistanceUnit(st, unit).ev_range
              = convertDistanceField(st.ev_range, st.ev_range_unit, unit).value
         /\ \A key \in Entities \ Distances : InDistanceUnit(st, unit)[key] = st[key]
<1> DEFINE odo == convertDistanceField(st.odometer, st.odometer_unit, unit)
           range == convertDistanceField(st.ev_range, st.ev_range_unit, unit)
<1>1. InDistanceUnit(st, unit) =
        [st EXCEPT !.odometer = odo.value, !.odometer_unit = odo.unit,
                   !.ev_range = range.value, !.ev_range_unit = range.unit]
  BY DEF InDistanceUnit
<1> HIDE DEF odo, range
<1>2. {"odometer", "odometer_unit", "ev_range", "ev_range_unit"} \subseteq DOMAIN st
  BY DEF Shaped, Entities, Sensors
<1>3. \A key \in Entities \ Distances :
        key \in DOMAIN st /\ key \notin {"odometer", "odometer_unit", "ev_range", "ev_range_unit"}
  BY DEF Shaped, Entities, Sensors, BinarySensors, Distances
<1>4. \A key \in Entities \ Distances : InDistanceUnit(st, unit)[key] = st[key]
  BY <1>1, <1>3
<1>5. InDistanceUnit(st, unit).odometer = odo.value /\ InDistanceUnit(st, unit).ev_range = range.value
  BY <1>1, <1>2
<1> QED
  BY <1>4, <1>5 DEF odo, range

\* The JSON document has the fields that are not nil, and their values.
LEMMA Marshalled ==
  ASSUME NEW st, NEW key \in Entities
  PROVE  /\ st[key] = {} => key \notin DOMAIN MarshalState(st)
         /\ \A v : st[key] = {v} => key \in DOMAIN MarshalState(st) /\ MarshalState(st)[key] = v
<1>1. \A v : (CHOOSE w \in {v} : TRUE) = v
  OBVIOUS
<1>2. st[key] = {} => key \notin DOMAIN MarshalState(st)
  BY DEF MarshalState, Nil
<1>3. ASSUME NEW v, st[key] = {v}
      PROVE  key \in DOMAIN MarshalState(st) /\ MarshalState(st)[key] = v
  <2>1. st[key] # Nil
    BY <1>3 DEF Nil
  <2>2. key \in DOMAIN MarshalState(st) /\ MarshalState(st)[key] = CHOOSE w \in st[key] : TRUE
    BY <2>1 DEF MarshalState
  <2> QED
    BY <1>1, <1>3, <2>2
<1> QED
  BY <1>2, <1>3

\* What Home Assistant shows of a key, out of a document.
LEMMA ShownOf ==
  ASSUME NEW st, NEW key \in Entities
  PROVE  /\ st[key] = {} => Shows(key, MarshalState(st)) = {}
         /\ \A v : st[key] = {v} =>
              Shows(key, MarshalState(st)) =
                IF key \in BinarySensors THEN {IF v # (key \in Inverted) THEN "ON" ELSE "OFF"} ELSE {v}
<1> DEFINE j == MarshalState(st)
<1> HIDE DEF j
<1>1. key \notin DOMAIN j => Shows(key, j) = {}
  BY DEF Shows, BinaryShows, SensorShows
<1>2. key \in DOMAIN j => Shows(key, j) = IF key \in BinarySensors
                                         THEN {IF j[key] # (key \in Inverted) THEN "ON" ELSE "OFF"}
                                         ELSE {j[key]}
  BY DEF Shows, BinaryShows, SensorShows
<1>3. st[key] = {} => key \notin DOMAIN j
  BY Marshalled DEF j
<1>4. \A v : st[key] = {v} => key \in DOMAIN j /\ j[key] = v
  BY Marshalled DEF j
<1>5. \A v : st[key] = {v} =>
        Shows(key, j) = IF key \in BinarySensors THEN {IF v # (key \in Inverted) THEN "ON" ELSE "OFF"}
                        ELSE {v}
  BY <1>2, <1>4
<1> QED
  BY <1>1, <1>3, <1>5 DEF j

\* The JSON state of a correct VehicleState tells what was told.
LEMMA JsonTells ==
  ASSUME NEW st, Shaped(st), NEW car, IsCar(car), NEW told, NEW vague,
         Correct(st, car, told, vague), NEW unit \in {"km", "mi"}
  PROVE  Tells(MarshalState(InDistanceUnit(st, unit)), car, told, vague, unit)
<1> DEFINE conv == InDistanceUnit(st, unit)
           j == MarshalState(conv)
<1>1. /\ conv.odometer = convertDistanceField(st.odometer, st.odometer_unit, unit).value
      /\ conv.ev_range = convertDistanceField(st.ev_range, st.ev_range_unit, unit).value
      /\ \A key \in Entities \ Distances : conv[key] = st[key]
  BY Converted
<1>2. \A key \in Entities : conv[key] = {} => Shows(key, j) = {}
  BY ShownOf
<1>3. \A key \in Entities : \A v : conv[key] = {v} =>
        Shows(key, j) = IF key \in BinarySensors THEN {IF v # (key \in Inverted) THEN "ON" ELSE "OFF"}
                        ELSE {v}
  BY ShownOf
<1> HIDE DEF conv, j
<1>4. \A key \in Entities : st[key] = IF key \in told THEN {car[key]} ELSE {}
  BY DEF Correct, Nil
<1>5. ASSUME NEW key \in Entities, key \notin told PROVE conv[key] = {}
  <2>1. st[key] = {}
    BY <1>4, <1>5
  <2>2. \A from : convertDistanceField({}, from, unit).value = {}
    BY DEF convertDistanceField, Nil
  <2>3. key \in Distances => key = "ev_range" \/ key = "odometer"
    BY DEF Distances
  <2> QED
    BY <1>1, <2>1, <2>2, <2>3
<1>6. ASSUME NEW key \in Entities \ vague, key \in told, key \in Distances
      PROVE  \E v \in Shows(key, j) : SameDistance(v, unit, car[key], UnitOf(car, key))
  <2>1. key \notin BinarySensors
    BY <1>6 DEF BinarySensors, Distances
  <2>2. \E v : conv[key] = {v} /\ SameDistance(v, unit, car[key], UnitOf(car, key))
    <3>1. CASE key = "ev_range"
      <4>1. st.ev_range = {car.ev_range} /\ st.ev_range_unit = car.unit /\ UnitOf(car, key) = car.unit
        BY <1>4, <1>6, <3>1 DEF Correct, UnitOf
      <4>2. car.ev_range \in Nat /\ car.unit \in {"km", "mi"}
        BY DEF IsCar
      <4>3. Keeps(car.ev_range, car.unit, unit)
        BY <4>2, FieldConverted
      <4>4. conv.ev_range = convertDistanceField({car.ev_range}, car.unit, unit).value
        BY <1>1, <4>1
      <4> QED
        BY <3>1, <4>1, <4>3, <4>4, Zenon DEF Keeps
    <3>2. CASE key = "odometer"
      <4>1. st.odometer = {car.odometer} /\ st.odometer_unit = "km" /\ UnitOf(car, key) = "km"
        BY <1>4, <1>6, <3>2 DEF Correct, UnitOf
      <4>2. car.odometer \in Nat
        BY DEF IsCar
      <4>3. Keeps(car.odometer, "km", unit)
        BY <4>2, FieldConverted
      <4>4. conv.odometer = convertDistanceField({car.odometer}, "km", unit).value
        BY <1>1, <4>1
      <4> QED
        BY <3>2, <4>1, <4>3, <4>4, Zenon DEF Keeps
    <3> QED
      BY <1>6, <3>1, <3>2 DEF Distances
  <2>3. PICK v : conv[key] = {v} /\ SameDistance(v, unit, car[key], UnitOf(car, key))
    BY <2>2
  <2>4. Shows(key, j) = {v}
    BY <1>3, <2>1, <2>3
  <2> QED
    BY <2>3, <2>4
<1>7. ASSUME NEW key \in Entities, key \in told, key \notin Distances
      PROVE  IF key \in BinarySensors
             THEN Shows(key, j) = {IF car[key] = (key # "locked") THEN "ON" ELSE "OFF"}
             ELSE Shows(key, j) = {car[key]}
  <2>1. conv[key] = {car[key]}
    BY <1>1, <1>4, <1>7
  <2>2. CASE key \in BinarySensors
    <3>1. /\ car.charging \in BOOLEAN /\ car.plugged_in \in BOOLEAN /\ car.locked \in BOOLEAN
          /\ car.tire_warning \in BOOLEAN /\ car.charge_port_door \in BOOLEAN
      <4>2. car.charging = (car.est_charge_time > 0) /\ car.locked = (car.unlocked = {})
            /\ car.tire_warning = (car.lowTyres # {})
        BY DEF IsCar
      <4>3. car.charging = TRUE \/ car.charging = FALSE
        BY <4>2
      <4>4. car.locked = TRUE \/ car.locked = FALSE
        BY <4>2
      <4>5. car.tire_warning = TRUE \/ car.tire_warning = FALSE
        BY <4>2
      <4>6. car.plugged_in \in BOOLEAN /\ car.charge_port_door \in BOOLEAN
        BY DEF IsCar
      <4> QED
        BY <4>3, <4>4, <4>5, <4>6
    <3>2. car[key] \in BOOLEAN
      BY <2>2, <3>1 DEF BinarySensors
    <3>3. (car[key] # (key \in Inverted)) <=> (car[key] = (key # "locked"))
      <4>1. key \in Inverted <=> key = "locked"
        BY DEF Inverted
      <4>2. CASE car[key] = TRUE
        BY <4>1, <4>2
      <4>3. CASE car[key] = FALSE
        <5>1. CASE key = "locked"
          <6>1. (key \in Inverted) = TRUE /\ (key # "locked") = FALSE
            BY <4>1, <5>1
          <6> QED
            BY <4>3, <6>1
        <5>2. CASE key # "locked"
          <6>1. (key \in Inverted) = FALSE /\ (key # "locked") = TRUE
            BY <4>1, <5>2
          <6> QED
            BY <4>3, <6>1
        <5> QED
          BY <5>1, <5>2
      <4> QED
        BY <3>2, <4>2, <4>3
    <3>4. Shows(key, j) = {IF car[key] # (key \in Inverted) THEN "ON" ELSE "OFF"}
      BY <1>3, <2>1, <2>2
    <3> QED
      BY <2>2, <3>3, <3>4
  <2>3. CASE key \notin BinarySensors
    BY <1>3, <2>1, <2>3
  <2> QED
    BY <2>2, <2>3
<1>8. Tells(j, car, told, vague, unit)
  <2> SUFFICES ASSUME NEW key \in Entities \ vague
               PROVE  IF key \notin told THEN Shows(key, j) = {}
                      ELSE IF key \in Distances
                      THEN \E v \in Shows(key, j) : SameDistance(v, unit, car[key], UnitOf(car, key))
                      ELSE IF key \in BinarySensors
                      THEN Shows(key, j) = {IF car[key] = (key # "locked") THEN "ON" ELSE "OFF"}
                      ELSE Shows(key, j) = {car[key]}
    BY Zenon DEF Tells
  <2> QED
    BY <1>2, <1>5, <1>6, <1>7
<1> QED
  BY <1>8 DEF j, conv

\* The status page's rows say what was told; PageShowsWhatWasTold says so of the
\* last metrics.
LEMMA PageTells ==
  ASSUME NEW st, NEW car, IsCar(car), NEW told, NEW vague, Correct(st, car, told, vague),
         NEW key \in Metrics \union {"ev_range"}
  PROVE  metricRows(metricsFromState(st))[key] = Row(key, car, told, vague)
<1> DEFINE m == metricsFromState(st)
<1>1. \A k \in Metrics \union {"ev_range", "ev_range_unit"} : m[k] = st[k]
  BY DEF metricsFromState
<1>2. m.ev_range = st.ev_range /\ m.ev_range_unit = st.ev_range_unit
  BY <1>1
<1> HIDE DEF m
<1>3. metricRows(m)[key] = IF key = "ev_range" THEN rangeVal(m.ev_range, m.ev_range_unit)
                           ELSE IF m[key] = Nil THEN <<>> ELSE <<m[key]>>
  BY DEF metricRows
<1>4. key \in Entities \union Metrics
  BY DEF Entities, Sensors
<1>5. st[key] = IF key \in told THEN {car[key]} ELSE Nil
  BY <1>4 DEF Correct
<1>6. CASE key = "ev_range"
  <2>1. car.unit # ""
    BY DEF IsCar
  <2>2. metricRows(m)[key] = rangeVal(st.ev_range, st.ev_range_unit)
    BY <1>2, <1>3, <1>6
  <2>3. CASE key \notin told
    <3>1. st.ev_range = Nil
      BY <1>5, <1>6, <2>3
    <3> QED
      BY <2>2, <2>3, <3>1 DEF rangeVal, Row, m
  <2>4. CASE key \in told
    <3>1. st.ev_range = {car.ev_range} /\ st.ev_range # Nil
      BY <1>5, <1>6, <2>4 DEF Nil
    <3>2. st.ev_range_unit = IF key \in vague THEN "" ELSE car.unit
      BY <1>6, <2>4 DEF Correct
    <3> QED
      BY <1>6, <2>1, <2>2, <2>4, <3>1, <3>2 DEF rangeVal, Row, m
  <2> QED
    BY <2>3, <2>4
<1>7. CASE key # "ev_range"
  <2>1. m[key] = st[key]
    BY <1>1
  <2>2. {car[key]} # Nil
    BY DEF Nil
  <2> QED
    BY <1>3, <1>5, <1>7, <2>1, <2>2 DEF Row, m
<1> QED
  BY <1>6, <1>7

-----------------------------------------------------------------------------
(* Answers.                                                                *)

\* An answer is vague only about what it tells, and places the car at a known place.
LEMMA AnswerTells ==
  ASSUME NEW ccs2 \in BOOLEAN, NEW force \in BOOLEAN, NEW car, IsCar(car),
         NEW api \in Answers(ccs2, force, car)
  PROVE  api.vague \subseteq api.told /\ api.place \subseteq Places
<1>1. PICK d, o, l : /\ api = Answer(~ccs2 /\ ~force, d, o, l)
                     /\ Document(GroupsOf(ccs2, car), d)
                     /\ Document(OdometerOf(ccs2, force, car), o)
                     /\ l \in Locations(ccs2)
  BY AnswerParts
<1>2. api.told = d.told \union o.told /\ api.vague = d.vague \union o.vague /\ api.place = l.place
  BY <1>1 DEF Answer
<1>3. d.vague \subseteq d.told /\ o.vague \subseteq o.told
  BY <1>1 DEF Document, Composed
<1>4. l.place \subseteq Places
  <2> DEFINE home == <<{515}, {-1}>>
             away == <<{520}, {0}>>
             nowhere == <<{0}, {0}>>
  <2>1. \A doc : NoPlace(doc).place = {}
    BY DEF NoPlace
  <2>2. /\ Located(515, -1).place = {home} /\ Located(520, 0).place = {away}
        /\ Located(0, 0).place = {nowhere}
    BY DEF Located
  <2>3. \/ l = Located(515, -1) \/ l = Located(520, 0) \/ l = Located(0, 0)
        \/ \E doc : l = NoPlace(doc)
    BY <1>1 DEF Locations
  <2>4. Places = {home, away, nowhere}
    BY DEF Places
  <2> HIDE DEF home, away, nowhere
  <2>5. CASE l = Located(515, -1)
    <3>1. l.place = {home}
      BY <2>2, <2>5
    <3> QED
      BY <2>4, <3>1
  <2>6. CASE l = Located(520, 0)
    <3>1. l.place = {away}
      BY <2>2, <2>6
    <3> QED
      BY <2>4, <3>1
  <2>7. CASE l = Located(0, 0)
    <3>1. l.place = {nowhere}
      BY <2>2, <2>7
    <3> QED
      BY <2>4, <3>1
  <2>8. CASE \E doc : l = NoPlace(doc)
    BY <2>1, <2>8
  <2> QED
    BY <2>3, <2>5, <2>6, <2>7, <2>8
<1> QED
  BY <1>2, <1>3, <1>4

\* publishTracker moves the tracker to the place the answer told, if it told one.
LEMMA TrackerMoves ==
  ASSUME NEW position, NEW place, PlacedAt(position, place), NEW old
  PROVE  Attributes(position, old) = IF place = {} THEN old ELSE place
  BY Zenon DEF PlacedAt, Attributes, Nil

-----------------------------------------------------------------------------
(* The invariant.                                                          *)

\* What was accepted, and the label discovery gave the distances.
Settled == C!Load(env).ok /\ label = C!Load(env).cfg.DistanceUnit

\* Whatever was published was published by a service that started, in the unit its
\* label names; and the vehicle served is the one that is meant.
Started ==
  /\ env \in Environments /\ account \in Accounts
  /\ phase = "serving" \/ json # {} => Settled
  /\ phase = "serving" => vehicle = SelectVehicle(account, C!Load(env).cfg.VIN)

Told ==
  /\ PositionKept
  /\ HomeAssistantShowsWhatWasTold
  /\ PageShowsWhatWasTold

PInv == TypeOK /\ Started /\ Told /\ AcceptedMeansUsable

LEMMA InitPInv == Init => PInv
<1> SUFFICES ASSUME Init PROVE PInv
  OBVIOUS
<1>1. TypeOK
  BY DEF Init, TypeOK
<1>2. Started
  BY DEF Init, Started
<1>3. Told
  <2>1. json = {} /\ page = {} /\ tracker = fix
    BY DEF Init
  <2> QED
    BY <2>1 DEF Told, PositionKept, HomeAssistantShowsWhatWasTold, PageShowsWhatWasTold
<1>4. AcceptedMeansUsable
  BY DEF Init, AcceptedMeansUsable
<1> QED
  BY <1>1, <1>2, <1>3, <1>4 DEF PInv

\* Start publishes the label of the configured unit: the one the retained state is in.
LEMMA StartPInv == PInv /\ Start => PInv'
<1> SUFFICES ASSUME PInv, Start PROVE PInv'
  OBVIOUS
<1> DEFINE loaded == C!Load(env)
           found == SelectVehicle(account, loaded.cfg.VIN)
           serves == loaded.ok /\ ConstructorsAccept(loaded.cfg) /\ found # {}
<1>1. /\ serves => /\ phase' = "serving" /\ vehicle' = found
                   /\ label' = DistanceLabel(loaded.cfg.DistanceUnit)
      /\ ~serves => /\ vehicle' = vehicle /\ label' = label
                    /\ phase' = IF ~loaded.ok THEN "refused"
                                ELSE IF ~ConstructorsAccept(loaded.cfg) THEN "broken" ELSE "failed"
      /\ env' = env /\ account' = account /\ json' = json /\ tracker' = tracker /\ page' = page
      /\ seen' = seen /\ fix' = fix
  BY DEF Start
<1>2. loaded.ok => ConstructorsAccept(loaded.cfg) /\ loaded.cfg.DistanceUnit \in {"km", "mi"}
  BY LoadAccepts DEF PInv, Started
<1>3. C!Load(env)' = loaded
  BY <1>1
<1> HIDE DEF loaded
<1>4. serves => label' = loaded.cfg.DistanceUnit
  BY <1>1, <1>2 DEF DistanceLabel
<1>5. TypeOK'
  BY <1>1, <1>2, <1>4 DEF PInv, TypeOK
<1>6. json # {} => label' = label
  BY <1>1, <1>4 DEF PInv, Started, Settled, loaded
<1>7. Started'
  <2>1. (phase = "serving" \/ json # {} => Settled)'
    BY <1>1, <1>3, <1>4, <1>6 DEF PInv, Started, Settled, loaded
  <2>2. (phase = "serving" => vehicle = SelectVehicle(account, C!Load(env).cfg.VIN))'
    BY <1>1, <1>3
  <2> QED
    BY <1>1, <2>1, <2>2 DEF PInv, Started
<1>8. Told'
  <2>1. PositionKept' /\ PageShowsWhatWasTold'
    BY <1>1 DEF PInv, Told, PositionKept, PageShowsWhatWasTold
  <2>2. Chosen' = Chosen
    BY <1>1 DEF Chosen
  <2>3. HomeAssistantShowsWhatWasTold'
    BY <1>1, <1>6, <2>2 DEF PInv, Told, HomeAssistantShowsWhatWasTold
  <2> QED
    BY <2>1, <2>3 DEF Told
<1>9. AcceptedMeansUsable'
  BY <1>1, <1>2 DEF AcceptedMeansUsable
<1> QED
  BY <1>5, <1>7, <1>8, <1>9 DEF PInv

LEMMA StopPInv == PInv /\ (StartFails \/ Restart) => PInv'
<1> SUFFICES ASSUME PInv, StartFails \/ Restart PROVE PInv'
  OBVIOUS
<1>1. /\ env' = env /\ account' = account /\ label' = label /\ json' = json /\ tracker' = tracker
      /\ seen' = seen /\ fix' = fix /\ page' \in {page, {}}
      /\ phase' \in {"failed", "down"}
  BY DEF StartFails, Restart
<1>2. TypeOK'
  BY <1>1 DEF PInv, TypeOK
<1>3. Started'
  <2>1. Settled' <=> Settled
    BY <1>1 DEF Settled
  <2> QED
    BY <1>1, <2>1 DEF PInv, Started
<1>4. Told'
  <2>1. PositionKept' /\ PageShowsWhatWasTold'
    BY <1>1 DEF PInv, Told, PositionKept, PageShowsWhatWasTold
  <2>2. Chosen' = Chosen
    BY <1>1 DEF Chosen
  <2>3. HomeAssistantShowsWhatWasTold'
    BY <1>1, <2>2 DEF PInv, Told, HomeAssistantShowsWhatWasTold
  <2> QED
    BY <2>1, <2>3 DEF Told
<1>5. AcceptedMeansUsable'
  BY <1>1 DEF AcceptedMeansUsable
<1> QED
  BY <1>2, <1>3, <1>4, <1>5 DEF PInv

\* A cycle publishes what the selected car's answer tells.
LEMMA CyclePInv == PInv /\ Cycle => PInv'
<1> SUFFICES ASSUME PInv, Cycle PROVE PInv'
  OBVIOUS
<1> DEFINE unit == C!Load(env).cfg.DistanceUnit
<1>1. phase = "serving" /\ UNCHANGED <<env, account, phase, vehicle, label>>
  BY DEF Cycle
<1>2. Settled /\ env \in Environments /\ account \in Accounts
      /\ vehicle = SelectVehicle(account, C!Load(env).cfg.VIN)
  BY <1>1 DEF PInv, Started
<1>3. unit \in {"km", "mi"} /\ label = unit
  BY <1>2, LoadAccepts DEF Settled
<1> HIDE DEF unit
<1>4. PICK v \in vehicle, force \in BOOLEAN : \E facts \in FactsOf[v.VIN] :
        \E api \in Answers(v.ccs2, force, facts) :
          /\ \E st \in fetchStatus(v.ccs2, force, api) : PublishState(st)
          /\ seen' = {[facts |-> facts, told |-> api.told, vague |-> api.vague]}
          /\ fix' = IF api.place = {} THEN fix ELSE api.place
  BY DEF Cycle
<1>5. PICK facts \in FactsOf[v.VIN] : \E api \in Answers(v.ccs2, force, facts) :
        /\ \E st \in fetchStatus(v.ccs2, force, api) : PublishState(st)
        /\ seen' = {[facts |-> facts, told |-> api.told, vague |-> api.vague]}
        /\ fix' = IF api.place = {} THEN fix ELSE api.place
  BY <1>4
<1>6. PICK api \in Answers(v.ccs2, force, facts) :
        /\ \E st \in fetchStatus(v.ccs2, force, api) : PublishState(st)
        /\ seen' = {[facts |-> facts, told |-> api.told, vague |-> api.vague]}
        /\ fix' = IF api.place = {} THEN fix ELSE api.place
  BY <1>5
<1>7. PICK st \in fetchStatus(v.ccs2, force, api) : PublishState(st)
  BY <1>6
<1>8. v.VIN \in Chosen /\ v.VIN \in DOMAIN FactsOf /\ v.ccs2 \in BOOLEAN
  BY <1>2, SelectedIsChosen
<1>9. IsCar(facts)
  BY <1>8, PipelineAssumption
<1>10. Correct(st, facts, api.told, api.vague) /\ PlacedAt(st.position, api.place)
  BY <1>8, <1>9, FetchFaithful
<1>11. api.vague \subseteq api.told /\ api.place \subseteq Places
  BY <1>8, <1>9, AnswerTells
<1>12. Shaped(st)
  BY <1>8, FetchShape
<1>13. /\ json' = {MarshalState(InDistanceUnit(st, unit))}
       /\ tracker' = Attributes(st.position, tracker)
       /\ page' = {metricsFromState(st)}
  BY <1>7 DEF PublishState, unit
<1>14. PositionKept'
  <2>1. tracker' = IF api.place = {} THEN tracker ELSE api.place
    BY <1>10, <1>13, TrackerMoves
  <2> QED
    BY <1>6, <2>1 DEF PInv, Told, PositionKept
<1>15. TypeOK'
  <2>1. phase' \in {"down", "refused", "broken", "failed", "serving"} /\ label' \in {"", "km", "mi"}
    BY <1>1 DEF PInv, TypeOK
  <2>2. \A j \in json' : DOMAIN j \subseteq Entities
    BY <1>13 DEF MarshalState
  <2>3. \A p \in tracker' : p \in Places
    BY <1>10, <1>11, <1>13, TrackerMoves DEF PInv, TypeOK
  <2>4. \A m \in page' : {"ev_range", "ev_range_unit"} \subseteq DOMAIN m
    BY <1>13 DEF metricsFromState
  <2>5. \A s \in seen' : s.vague \subseteq s.told
    BY <1>6, <1>11
  <2> QED
    BY <2>1, <2>2, <2>3, <2>4, <2>5 DEF TypeOK
<1>16. Started'
  <2>1. Settled'
    BY <1>1, <1>2 DEF Settled
  <2> QED
    BY <1>1, <1>2, <2>1 DEF Started
<1>17. HomeAssistantShowsWhatWasTold'
  <2>1. Tells(MarshalState(InDistanceUnit(st, unit)), facts, api.told, api.vague, unit)
    BY <1>3, <1>9, <1>10, <1>12, JsonTells
  <2>2. Chosen' = Chosen
    BY <1>1 DEF Chosen
  <2>3. facts \in UNION {FactsOf[VIN] : VIN \in Chosen}
    BY <1>8
  <2>4. \A s \in seen' : s.facts = facts /\ s.told = api.told /\ s.vague = api.vague
    BY <1>6
  <2>5. \A j \in json', s \in seen' : /\ s.facts \in UNION {FactsOf[VIN] : VIN \in Chosen}
                                      /\ Tells(j, s.facts, s.told, s.vague, unit)
    BY <1>13, <2>1, <2>3, <2>4
  <2> QED
    BY <1>1, <1>3, <2>2, <2>5 DEF HomeAssistantShowsWhatWasTold
<1>18. PageShowsWhatWasTold'
  <2>1. \A s \in seen' : s.facts = facts /\ s.told = api.told /\ s.vague = api.vague
    BY <1>6
  <2>2. \A key \in Metrics \union {"ev_range"} :
          metricRows(metricsFromState(st))[key] = Row(key, facts, api.told, api.vague)
    BY <1>9, <1>10, PageTells
  <2> QED
    BY <1>13, <2>1, <2>2, Zenon DEF PageShowsWhatWasTold
<1>19. AcceptedMeansUsable'
  BY <1>1 DEF PInv, AcceptedMeansUsable
<1> QED
  BY <1>14, <1>15, <1>16, <1>17, <1>18, <1>19 DEF PInv, Told

LEMMA StutterPInv == PInv /\ UNCHANGED vars => PInv'
<1> SUFFICES ASSUME PInv, UNCHANGED vars PROVE PInv'
  OBVIOUS
<1>1. TypeOK'
  BY DEF PInv, TypeOK, vars
<1>2. Started'
  BY DEF PInv, Started, Settled, vars
<1>3. PositionKept' /\ PageShowsWhatWasTold'
  BY DEF PInv, Told, PositionKept, PageShowsWhatWasTold, vars
<1>4. HomeAssistantShowsWhatWasTold'
  <2>1. json' = json /\ seen' = seen /\ label' = label
    BY DEF vars
  <2>2. Chosen' = Chosen
    BY DEF Chosen, vars
  <2> QED
    BY <2>1, <2>2 DEF PInv, Told, HomeAssistantShowsWhatWasTold
<1>5. AcceptedMeansUsable'
  BY DEF PInv, AcceptedMeansUsable, vars
<1> QED
  BY <1>1, <1>2, <1>3, <1>4, <1>5 DEF PInv, Told

-----------------------------------------------------------------------------
(* Theorems.                                                               *)

\* A deployment keeps the invariant, in every environment, with every account and
\* every car.
THEOREM DeploymentInvariance == Spec => []PInv
<1>1. Init => PInv
  BY InitPInv
<1>2. PInv /\ [Next]_vars => PInv'
  <2> SUFFICES ASSUME PInv, [Next]_vars PROVE PInv'
    OBVIOUS
  <2>1. CASE Start
    BY <2>1, StartPInv
  <2>2. CASE StartFails \/ Restart
    BY <2>2, StopPInv
  <2>3. CASE Cycle
    BY <2>3, CyclePInv
  <2>4. CASE CycleFails \/ Stopped \/ UNCHANGED vars
    <3>1. UNCHANGED vars
      BY <2>4 DEF CycleFails, Stopped
    <3> QED
      BY <3>1, StutterPInv
  <2> QED
    BY <2>1, <2>2, <2>3, <2>4 DEF Next
<1> QED
  BY <1>1, <1>2, PTL DEF Spec

\* Every variable of a deployment stays in its type.
THEOREM TypeCorrect == Spec => []TypeOK
<1>1. PInv => TypeOK
  BY DEF PInv
<1> QED
  BY <1>1, DeploymentInvariance, PTL

\* config.Load accepts nothing that a constructor rejects or a ticker panics on.
THEOREM AcceptedIsUsable == Spec => []AcceptedMeansUsable
<1>1. PInv => AcceptedMeansUsable
  BY DEF PInv
<1> QED
  BY <1>1, DeploymentInvariance, PTL

\* publishTracker: the tracker is where the API last placed the car, through answers
\* without a position and restarts.
THEOREM PositionAlwaysKept == Spec => []PositionKept
<1>1. PInv => PositionKept
  BY DEF PInv, Told
<1> QED
  BY <1>1, DeploymentInvariance, PTL

\* InDistanceUnit, the JSON state, the discovery label and the templates together:
\* Home Assistant shows what the last answers told of the car that is meant.
THEOREM HomeAssistantFaithful == Spec => []HomeAssistantShowsWhatWasTold
<1>1. PInv => HomeAssistantShowsWhatWasTold
  BY DEF PInv, Told
<1> QED
  BY <1>1, DeploymentInvariance, PTL

\* metricsFromState and metricRows: the status page shows what the last answers told.
THEOREM PageFaithful == Spec => []PageShowsWhatWasTold
<1>1. PInv => PageShowsWhatWasTold
  BY DEF PInv, Told
<1> QED
  BY <1>1, DeploymentInvariance, PTL
=============================================================================
