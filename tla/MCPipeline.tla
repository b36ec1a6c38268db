----------------------------- MODULE MCPipeline -----------------------------
(***************************************************************************)
(* Environments, accounts and cars for Pipeline: every environment departs *)
(* from a minimal valid one in at most two variables.                      *)
(***************************************************************************)
EXTENDS Pipeline

Minimal ==
  [MODE |-> "", BLUELINK_USERNAME |-> "user", BLUELINK_PASSWORD |-> "secret",
   BLUELINK_VIN |-> "", MQTT_BROKER_URL |-> "mqtt://broker:1883", DISTANCE_UNIT |-> "",
   TOKEN_STORE |-> "", TOKEN_SECRET_NAME |-> "", LOG_LEVEL |-> "", LOG_FORMAT |-> "",
   POLL_INTERVAL |-> C!Unset, READY_FAILURE_THRESHOLD |-> C!Unset,
   POLL_MAX_RETRIES |-> C!Unset, FORCE_REFRESH_ONLY_WHEN_PLUGGED_IN |-> C!Unset,
   FORCE_REFRESH_AT |-> C!Unset, FORCE_REFRESH_TZ |-> C!Unset]

Numbers(S) == {C!Malformed} \union {C!Value(n) : n \in S}

\* Values that Load must refuse, or that lead it to refuse another variable.
Doubtful ==
  [BLUELINK_VIN |-> {"VIN-X"}, MODE |-> {"Mock", "prod"}, BLUELINK_USERNAME |-> {""}, BLUELINK_PASSWORD |-> {""},
   MQTT_BROKER_URL |-> {"", "no scheme or host"}, DISTANCE_UNIT |-> {"yd"},
   TOKEN_STORE |-> {"KUBE", "redis"}, TOKEN_SECRET_NAME |-> {"tokens"},
   LOG_LEVEL |-> {"loud"}, LOG_FORMAT |-> {"xml"},
   POLL_INTERVAL |-> Numbers({-10, 0, 4}), READY_FAILURE_THRESHOLD |-> Numbers({0}),
   POLL_MAX_RETRIES |-> Numbers({-1}), FORCE_REFRESH_ONLY_WHEN_PLUGGED_IN |-> {C!Malformed},
   FORCE_REFRESH_AT |-> {C!Malformed}, FORCE_REFRESH_TZ |-> {C!Malformed}]

Departures(e) == UNION {{[e EXCEPT ![k] = v] : v \in Doubtful[k]} : k \in DOMAIN Doubtful}

\* The environments of an ordinary deployment, and up to two departures from it.
Served == {[Minimal EXCEPT !.DISTANCE_UNIT = u, !.BLUELINK_VIN = vin]
           : u \in {"", "MI"}, vin \in {"", "vin-b"}}
Once == Departures(Minimal)
Envs == Served \union Once \union UNION {Departures(e) : e \in Once}

CarA == [VIN |-> "VIN-A", ccs2 |-> TRUE]
CarB == [VIN |-> "VIN-B", ccs2 |-> FALSE]
Lists == {<<>>, <<CarA, CarB>>}

Facts(soc, range, unit, minutes, plugged, open, unlocked, low, temp) ==
  [ev_battery_percentage |-> soc, ev_battery_soh |-> 99, ev_range |-> range, unit |-> unit,
   charging |-> minutes > 0, est_charge_time |-> minutes, est_fast_charge_time |-> 42,
   plugged_in |-> plugged, charge_port_door |-> open, charge_limit_ac |-> 80,
   charge_limit_dc |-> 90, charging_power |-> IF minutes > 0 THEN 7 ELSE 0,
   battery_12v |-> IF plugged THEN 100 ELSE 0, odometer |-> 1234, outside_temp |-> temp,
   inside_temp |-> 20, unlocked |-> unlocked, locked |-> unlocked = {}, lowTyres |-> low,
   tire_warning |-> low # {}, last_updated |-> soc]

AtHome == Facts(62, 983, "km", 145, TRUE, TRUE, {}, {}, -5)
OnTheRoad == Facts(0, 5, "mi", 0, FALSE, FALSE, {"Row2.Left.Lock"},
                   {"Row1.Left.Tire.PressureLow"}, 0)
Cars == [VIN \in {"VIN-A", "VIN-B"} |->
           IF VIN = "VIN-A" THEN {AtHome, OnTheRoad}
           ELSE {[AtHome EXCEPT !.last_updated = 3], [OnTheRoad EXCEPT !.last_updated = 4]}]
=============================================================================
