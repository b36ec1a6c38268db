------------------------------- MODULE Config -------------------------------
(***************************************************************************)
(* config.Load: the environment, defaults and validation                   *)
(* (internal/config/config.go).                                            *)
(*                                                                         *)
(* A variable that is parsed (a number, duration, boolean, time of day or  *)
(* time zone) is Unset, Malformed or Value(v); os.Getenv does not tell a   *)
(* variable set to the empty string from one that is not set.  Durations   *)
(* are minutes.                                                            *)
(***************************************************************************)
EXTENDS Integers

CONSTANTS
  UTC,        \* the time zone UTC
  FiveOClock  \* 05:00, in the unit the time of day is counted in

Unset == <<>>
Malformed == <<"malformed">>
Value(v) == <<"value", v>>

MinPollInterval == 5

\* strings.ToLower on the values that occur.
ToLower(s) ==
  CASE s = "MI" -> "mi" [] s = "KM" -> "km" [] s = "Mock" -> "mock"
    [] s = "KUBE" -> "kube" [] OTHER -> s

getEnv(env, key, def) == IF env[key] = "" THEN def ELSE env[key]

\* getInt, getBool and parseDuration; nobody looks at the value that comes with an
\* error.
Parse(v, def) ==
  IF v = Unset THEN [err |-> FALSE, val |-> def]
  ELSE [err |-> v = Malformed, val |-> IF v = Malformed THEN def ELSE v[2]]

\* Without a refresh neither the time nor the zone is set.
Disabled == [err |-> FALSE, enabled |-> FALSE, at |-> FiveOClock, zone |-> UTC]

\* parseForceRefresh.  The default replaces an empty FORCE_REFRESH_AT before the
\* test for an empty one.
ParseForceRefresh(atVar, tzVar) ==
  LET at == IF atVar = Unset THEN Value(FiveOClock) ELSE atVar
      tz == IF tzVar = Unset THEN Value(UTC) ELSE tzVar
  IN  IF at = Unset THEN Disabled
      ELSE IF Malformed \in {at, tz} THEN [Disabled EXCEPT !.err = TRUE]
      ELSE [err |-> FALSE, enabled |-> TRUE, at |-> at[2], zone |-> tz[2]]

\* Credentials are required against the real API; mock supplies dummies.
CredentialsOK(mode, username, password) ==
  mode = "live" => username # "" /\ password # ""

\* An absolute URL; the one that is not stands for all that url.Parse refuses or
\* finds no scheme or host in.
validateBrokerURL(raw) == raw # "no scheme or host"

\* Mutant: the secret name is not checked.
TokenStoreOK_AnyName(store, name) == store \in {"memory", "kube"}

TokenStoreOK(store, name) == store \in {"memory", "kube"} /\ (store = "kube" => name # "")

Load(env) ==
  LET mode == ToLower(getEnv(env, "MODE", "live"))
      dummy(s) == IF mode = "mock" /\ s = "" THEN "mock" ELSE s
      interval == Parse(env.POLL_INTERVAL, 45)
      threshold == Parse(env.READY_FAILURE_THRESHOLD, 3)
      retries == Parse(env.POLL_MAX_RETRIES, 3)
      gate == Parse(env.FORCE_REFRESH_ONLY_WHEN_PLUGGED_IN, FALSE)
      force == ParseForceRefresh(env.FORCE_REFRESH_AT, env.FORCE_REFRESH_TZ)
      c == [Username |-> dummy(env.BLUELINK_USERNAME),
            Password |-> dummy(env.BLUELINK_PASSWORD),
            VIN |-> env.BLUELINK_VIN,
            PollInterval |-> interval.val,
            ReadyFailureThreshold |-> threshold.val,
            PollMaxRetries |-> retries.val,
            OnlyWhenPluggedIn |-> gate.val,
            ForceEnabled |-> force.enabled, ForceAt |-> force.at, ForceZone |-> force.zone,
            DistanceUnit |-> ToLower(getEnv(env, "DISTANCE_UNIT", "km")),
            TokenStore |-> ToLower(getEnv(env, "TOKEN_STORE", "memory")),
            TokenSecretName |-> env.TOKEN_SECRET_NAME]
  IN [ok |->
        /\ mode \in {"live", "mock"}
        /\ CredentialsOK(mode, c.Username, c.Password)
        /\ env.MQTT_BROKER_URL # "" /\ validateBrokerURL(env.MQTT_BROKER_URL)
        /\ ~interval.err /\ interval.val >= MinPollInterval
        /\ ~threshold.err /\ threshold.val >= 1
        /\ ~retries.err /\ retries.val >= 0
        /\ ~gate.err
        /\ ~force.err
        /\ c.DistanceUnit \in {"km", "mi"}
        /\ ToLower(getEnv(env, "LOG_LEVEL", "info")) \in {"debug", "info", "warn", "error"}
        /\ ToLower(getEnv(env, "LOG_FORMAT", "json")) \in {"json", "text"}
        /\ TokenStoreOK(c.TokenStore, c.TokenSecretName),
      cfg |-> c]
=============================================================================
