------------------------------- MODULE Display -------------------------------
(***************************************************************************)
(* What people see of a VehicleState: Home Assistant through the retained  *)
(* JSON state, the discovery configs and their value templates             *)
(* (internal/homeassistant, PublishState of internal/publisher), and the   *)
(* status page (metricsFromState of internal/cmd/serve.go, metricRows of   *)
(* internal/server/page.go).  Nothing shown is {}: Home Assistant's        *)
(* "unknown", or the page's word for nil.                                  *)
(***************************************************************************)
EXTENDS StatusParser

Sensors == {"ev_battery_percentage", "ev_range", "charging_power", "battery_12v", "odometer",
            "charge_limit_ac", "charge_limit_dc", "est_charge_time", "outside_temp",
            "ev_battery_soh", "last_updated"}
BinarySensors == {"charging", "plugged_in", "locked", "tire_warning", "charge_port_door"}
Inverted == {"locked"}   \* Home Assistant's lock class: ON is unlocked
Entities == Sensors \union BinarySensors

\* The label discovery gives the range and the odometer.
DistanceLabel(unit) == IF unit = "" THEN "km" ELSE unit

\* json.Marshal with omitempty on pointers: nil fields are left out, zeros are not.
MarshalState(st) == [k \in {e \in Entities : st[e] # Nil} |-> CHOOSE v \in st[k] : TRUE]

\* unknownGuardedTemplate: an absent key renders None, which resets the entity.
SensorShows(key, json) == IF key \in DOMAIN json THEN {json[key]} ELSE {}

\* Mutant: the template is not guarded; an absent key is falsy.
BinaryShows_Unguarded(key, json) ==
  {IF (key \in DOMAIN json /\ json[key]) # (key \in Inverted) THEN "ON" ELSE "OFF"}

BinaryShows(key, json) ==
  IF key \in DOMAIN json
  THEN {IF json[key] # (key \in Inverted) THEN "ON" ELSE "OFF"} ELSE {}

-----------------------------------------------------------------------------
(* The status page.                                                        *)

Metrics == {"ev_battery_percentage", "ev_battery_soh", "charging", "plugged_in",
             "charge_port_door", "charge_limit_ac", "charge_limit_dc", "charging_power",
             "est_charge_time", "est_fast_charge_time", "battery_12v", "outside_temp",
             "inside_temp", "tire_warning", "last_updated"}

metricsFromState(st) ==
  [k \in Metrics \union {"ev_range", "ev_range_unit"} |-> st[k]]

\* The value as a text: with a unit, if there is one; nothing of a nil value.
rangeVal(v, unit) == IF v = Nil THEN <<>> ELSE IF unit = "" THEN <<v>> ELSE <<v, unit>>

\* The other rows: "unknown" for nil, the value with a fixed unit otherwise.
metricRows(m) ==
  [k \in Metrics \union {"ev_range"} |->
     IF k = "ev_range" THEN rangeVal(m.ev_range, m.ev_range_unit)
     ELSE IF m[k] = Nil THEN <<>> ELSE <<m[k]>>]
=============================================================================
