------------------------------ MODULE Pipeline ------------------------------
(***************************************************************************)
(* One deployment from its environment to what people see: config.Load and *)
(* the constructors it feeds (runServe up to SetVehicle), SelectVehicle,   *)
(* and then cached polls and force refreshes that are parsed, published    *)
(* and recorded.  How cycles interleave, retry and fail half-way is the    *)
(* matter of Scheduler; here a cycle is one step and its data is real.     *)
(***************************************************************************)
EXTENDS BluelinkApi

CONSTANTS
  Environments, \* environments the service may be started in
  Accounts,     \* vehicle lists of the account: sequences of [VIN, ccs2]
  FactsOf       \* [VIN -> states the car may be in]

VARIABLES
  env,      \* the process environment
  account,  \* the account's vehicle list
  phase,    \* "down", "refused" (by Load), "broken" (after Load), "failed", "serving"
  vehicle,  \* the selected vehicle (set of at most one)
  label,    \* retained discovery: unit of the range and the odometer
  json,     \* retained JSON state (set of at most one document)
  tracker,  \* retained tracker attributes (set of at most one position)
  page,     \* the status page's Metrics (set of at most one)
  seen,     \* history: what the last published documents told
  fix       \* history: the last position the API gave

vars == <<env, account, phase, vehicle, label, json, tracker, page, seen, fix>>

C == INSTANCE Config WITH UTC <- "UTC", FiveOClock <- 300

ASSUME PipelineAssumption ==
  /\ \A e \in Environments :
       LET v == e.POLL_INTERVAL
       IN  v \in {C!Unset, C!Malformed} \/ (v = C!Value(v[2]) /\ v[2] \in Int)
  /\ \A a \in Accounts :
       /\ a \in Seq(Range(a))
       /\ \A i \in DOMAIN a : a[i].VIN \in DOMAIN FactsOf /\ a[i].ccs2 \in BOOLEAN
  /\ \A VIN \in DOMAIN FactsOf : \A facts \in FactsOf[VIN] : IsCar(facts)

Init ==
  /\ env \in Environments
  /\ account \in Accounts
  /\ phase = "down"
  /\ vehicle = {} /\ label = "" /\ json = {} /\ tracker = {} /\ page = {}
  /\ seen = {} /\ fix = {}

-----------------------------------------------------------------------------
(* Start-up.                                                               *)

\* strings.EqualFold on VINs.
EqualFold(a, b) == a = b \/ {a, b} = {"VIN-B", "vin-b"}

\* The one with the configured VIN, the first without one; none is an error.
SelectVehicle(list, vin) ==
  LET hits == {i \in DOMAIN list : vin = "" \/ EqualFold(list[i].VIN, vin)}
  IN  IF hits = {} THEN {} ELSE {list[Min(hits)]}

\* bluelink.New, NewKubeSecretStore and time.NewTicker reject, or panic on, what
\* these conditions describe.
ConstructorsAccept(cfg) ==
  /\ cfg.Username # "" /\ cfg.Password # ""
  /\ cfg.TokenStore = "kube" => cfg.TokenSecretName # ""
  /\ cfg.PollInterval > 0

\* runServe up to the scheduler: with a vehicle, its discovery configs are
\* published.
Start ==
  /\ phase = "down"
  /\ LET loaded == C!Load(env)
         found == SelectVehicle(account, loaded.cfg.VIN)
     IN IF loaded.ok /\ ConstructorsAccept(loaded.cfg) /\ found # {}
        THEN /\ phase' = "serving"
             /\ vehicle' = found
             /\ label' = DistanceLabel(loaded.cfg.DistanceUnit)
        ELSE /\ phase' = IF ~loaded.ok THEN "refused"
                         ELSE IF ~ConstructorsAccept(loaded.cfg) THEN "broken" ELSE "failed"
             /\ UNCHANGED <<vehicle, label>>
  /\ UNCHANGED <<env, account, json, tracker, page, seen, fix>>

\* The in-cluster configuration, the login or the broker fails.
StartFails ==
  /\ phase = "down"
  /\ C!Load(env).ok
  /\ phase' = "failed"
  /\ UNCHANGED <<env, account, vehicle, label, json, tracker, page, seen, fix>>

\* The process ends and is started again: the page starts empty, what the broker
\* retains stays.
Restart ==
  /\ phase \in {"failed", "serving"}
  /\ phase' = "down"
  /\ vehicle' = {}
  /\ page' = {}
  /\ UNCHANGED <<env, account, label, json, tracker, seen, fix>>

-----------------------------------------------------------------------------
(* A cycle.                                                                *)

\* Mutant: the attributes are published whatever is known of the position.
Attributes_Always(position, old) == {<<position.lat, position.lon>>}

\* publishTracker: attributes only with both coordinates.
Attributes(position, old) ==
  IF position.lat # Nil /\ position.lon # Nil THEN {<<position.lat, position.lon>>} ELSE old

\* PublishState of the recording publisher: converted for MQTT, recorded as it is.
PublishState(st) ==
  /\ json' = {MarshalState(InDistanceUnit(st, C!Load(env).cfg.DistanceUnit))}
  /\ tracker' = Attributes(st.position, tracker)
  /\ page' = {metricsFromState(st)}

\* CachedStatus or ForceStatus of the selected car, published and recorded.
Cycle ==
  /\ phase = "serving"
  /\ \E v \in vehicle, force \in BOOLEAN : \E facts \in FactsOf[v.VIN] :
       \E api \in Answers(v.ccs2, force, facts) :
         /\ \E st \in fetchStatus(v.ccs2, force, api) : PublishState(st)
         /\ seen' = {[facts |-> facts, told |-> api.told, vague |-> api.vague]}
         /\ fix' = IF api.place = {} THEN fix ELSE api.place
  /\ UNCHANGED <<env, account, phase, vehicle, label>>

\* A status that fails, or comes without its container, changes nothing.
CycleFails ==
  /\ phase = "serving"
  /\ \E v \in vehicle, force \in BOOLEAN :
       fetchStatus(v.ccs2, force, [status |-> Nil, park |-> Nil, location |-> Empty,
                                   odometer |-> Empty]) = {}
  /\ UNCHANGED vars

Stopped == phase \in {"refused", "broken"} /\ UNCHANGED vars

Next == Start \/ StartFails \/ Restart \/ Cycle \/ CycleFails \/ Stopped

Spec == Init /\ [][Next]_vars

-----------------------------------------------------------------------------
(* Properties.                                                             *)

\* Every variable stays in its type.
TypeOK ==
  /\ phase \in {"down", "refused", "broken", "failed", "serving"}
  /\ label \in {"", "km", "mi"}
  /\ \A j \in json : DOMAIN j \subseteq Entities
  /\ \A p \in tracker : p \in Places
  /\ \A m \in page : {"ev_range", "ev_range_unit"} \subseteq DOMAIN m
  /\ \A s \in seen : s.vague \subseteq s.told

\* Lengths of a tenth of a kilometre and of a mile, in tenths of a millimetre.
Tenth(unit) == IF unit = "km" THEN 1000000 ELSE 1609344
Distances == {"ev_range", "odometer"}
UnitOf(facts, key) == IF key = "ev_range" THEN facts.unit ELSE "km"

\* A distance is shown as it is, to the nearest tenth of the label's unit.
SameDistance(shown, unit, actual, actualUnit) ==
  LET diff == shown * Tenth(unit) - actual * Tenth(actualUnit)
  IN  2 * diff <= Tenth(unit) /\ 2 * diff >= -Tenth(unit)

\* The car that is meant: the one with the configured VIN, whatever the case of its
\* letters, or the first of the account.
Chosen ==
  LET vin == C!Load(env).cfg.VIN
  IN  {account[i].VIN : i \in {j \in DOMAIN account :
                                 IF vin = "" THEN j = 1 ELSE EqualFold(account[j].VIN, vin)}}

\* What Home Assistant makes of a JSON state: every fact that was told, distances in
\* the unit their label names, and "unknown" for every other.  A distance that came
\* without a unit is exempt (see README).
Shows(key, j) == IF key \in BinarySensors THEN BinaryShows(key, j) ELSE SensorShows(key, j)
Tells(j, car, told, vague, unit) ==
  \A key \in Entities \ vague :
    LET shown == Shows(key, j)
        fact == car[key]
    IN IF key \notin told THEN shown = {}
       ELSE IF key \in Distances THEN \E v \in shown : SameDistance(v, unit, fact, UnitOf(car, key))
       ELSE IF key \in BinarySensors THEN shown = {IF fact = (key # "locked") THEN "ON" ELSE "OFF"}
       ELSE shown = {fact}

\* Home Assistant shows, of the car that is meant, exactly what the last documents
\* told, with either protocol, either endpoint and any encoding the parsers accept.
HomeAssistantShowsWhatWasTold ==
  \A j \in json, s \in seen :
    /\ s.facts \in UNION {FactsOf[VIN] : VIN \in Chosen}
    /\ Tells(j, s.facts, s.told, s.vague, label)

\* The status page tells the same facts; the range in the car's own unit, and no
\* unit without a range.
Row(key, car, told, vague) ==
  IF key \notin told THEN <<>>
  ELSE IF key = "ev_range" /\ key \notin vague THEN <<{car.ev_range}, car.unit>>
  ELSE <<{car[key]}>>
PageShowsWhatWasTold ==
  \A m \in page, s \in seen : \A key \in Metrics \union {"ev_range"} :
    metricRows(m)[key] = Row(key, s.facts, s.told, s.vague)

\* publishTracker: Home Assistant keeps the last position the API gave, through
\* answers without one, failing location requests and restarts.
PositionKept == tracker = fix

\* What Load accepts, no constructor rejects and no ticker panics on.
AcceptedMeansUsable == phase # "broken"
=============================================================================
