# Verification of hyundai-bluelink-mqtt

TLA+ models of the daemon in `src/`, the TLC runs that check them on small instances, and TLAPS
proofs of the properties that hold for every value of the constants. `PROJECT.json` links every
definition to the lines it models.

## The system

`serve` (`internal/cmd/serve.go`) starts the status server, restores or obtains Bluelink tokens,
picks a vehicle, connects to the MQTT broker with a last will, publishes discovery and
availability, and runs the scheduler until a signal cancels the root context.

| part | state it keeps | operations | talks to |
|---|---|---|---|
| scheduler (`scheduler.go`) | `apiMu`, two loops, retry counter | `poll`, `forceRefresh`, `fetchWithRetry`, `untilNextForce` | client, publisher, status server |
| publisher (`publisher.go`) | none | `PublishState` (3 topics), `PublishDiscovery`, `PublishAvailability` | mqtt client |
| recording publisher (`serve.go`) | none | publish, then `SetMetrics` | publisher, status server |
| status server (`server.go`) | `ready`, `consecutiveFailures`, metrics | `MarkSuccess`, `MarkFailure`, `SetMetrics`, `/readyz` | probes, page |
| mqtt client (`mqtt/client.go`) | the connection manager, `onUp` | `Connect`, `SetOnConnectionUp`, `fireOnUp`, `Publish`, `Disconnect` | broker |
| Bluelink client (`client.go`, `auth.go`) | `mu`, `tokens` | `Connect`, `ensureTokenLocked`, `fullLoginLocked`, `doAuthedGet` | provider, API, token store |
| token store (`tokenstore*.go`) | stored tokens | `Load`, `Save` with one retry | Kubernetes |
| vehicle selection (`client.go`) | none | `Vehicles`, `SelectVehicle` | client |
| status retrieval and parsers (`status.go`, `parse_*.go`, `model.go`) | none | CCS1/CCS2 fetch, park location, parse, units | client |
| discovery (`homeassistant/`) | none | `Entities`, `BuildDiscovery`, value templates | publisher |
| status page (`page.go`, `routes.go`) | none | `metricRows` | status server |
| configuration (`config.go`) | none | `Load`, `parseForceRefresh` | environment |
| mock server, dump command, recording publisher, signing | | tools, test doubles, cryptography | |

What is hard here: two loops that share a client and a topic; a context cancelled at any moment;
retries under a lock; a publish of three topics that may stop half way, or be delivered without
its acknowledgement; a connection-up callback that races with start-up and with other connections;
a will that races with explicit publishes; tokens that expire, are revoked or rotated while
several requests use them, with a store that may fail or be left behind by a crash; a Secret
edited by others between read and update; fields that are absent, of another type, or sentinels in
two protocols; local time on the days the clocks change. The `hazards` of `PROJECT.json` name each
at its line with the properties that would catch it going wrong.

What makes each part correct:

- scheduler and publisher: loops never overlap; nothing shown ever goes back; a success means
  everything was delivered; the car is woken only when allowed and only so often; a shutdown is
  never counted as a failure and always completes;
- status server: readiness is exactly "fewer than the threshold of failures since the last
  success";
- lifecycle at the broker: retained availability follows the life of the process;
- Bluelink client: a request fails only for reasons outside the client; the store can be
  trusted after a restart;
- token store: a `Save` takes effect at most once, and has taken effect when it returns nil; nobody
  else's data is lost;
- parsers, conversion, discovery and page: what is shown is what the car's documents said, in the
  unit of the label, and "unknown" for everything they did not say;
- configuration: what `Load` accepts, the rest of the program can run with;
- force schedule: exactly one refresh on every local day.

## Modules

| module | models | notes |
|---|---|---|
| `StatusServer` | `server.go` health and metrics | extended by `Scheduler` |
| `Scheduler` | both loops, `PublishState`, `recordingPublisher`, health | composes the above |
| `ServiceContract` | nothing: the abstract promise to Home Assistant and the probe | refined by `Scheduler` (`KeepsContract`) |
| `SchedulerProofs` | | theorems about `Scheduler` |
| `Availability` | `runServe` from `mqtt.Connect` on, `mqtt.Client`, `PublishDiscovery`, `PublishAvailability` | broker and autopaho external |
| `TokenClient` | `Connect`, `ensureTokenLocked`, `fullLoginLocked`, `doAuthedGet`, the store | provider and API external |
| `TokenClientProofs` | | theorems about `TokenClient` |
| `TokenStore` | the `TokenStore` interface and the memory store: the abstract promise | refined by `KubeStore` (`KeepsStoreContract`) |
| `KubeStore` | `kubeSecretStore`: `Load` and `Save` | API server and other owners external |
| `KubeStoreProofs`, `AvailabilityProofs`, `ForceScheduleProofs` | | theorems about `KubeStore`, `Availability` and `ForceSchedule` |
| `Config` | `config.Load`, `parseForceRefresh` | operators, used by `Pipeline` and `ForceSchedule` |
| `StatusParser` | `parse_ccs1.go`, `parse_ccs2.go`, `status.go`, `InDistanceUnit` | operators |
| `Display` | state JSON, entities and value templates, `metricsFromState`, `metricRows` | operators, extends `StatusParser` |
| `BluelinkApi` | nothing under verification: the documents the API may send about a car | external, the reference of `Pipeline`'s properties |
| `Pipeline` | start-up to vehicle selection and discovery, then cycles with real data | composes the four above |
| `ParserProofs` | | what the parsers make of every document of `BluelinkApi` |
| `PipelineProofs` | | theorems about `Pipeline`, from `ParserProofs` |
| `ForceSchedule` | `forceLoop`'s clock, `untilNextForce` | package `time` external |
| `MCForceSchedule`, `MCPipeline` | | zones, settings and clock steps; environments, accounts and cars for TLC |

The other modules need no MC module: their constants are numbers, Booleans and sets of strings
that the `.cfg` files give. Definitions whose names end in `_Something` after an action's name and
are commented `Mutant:` are deliberate faults; the specifications never use them. `PROJECT.json`
pairs each with the property that must catch it.

### Scheduler

One step is the code between two points where the other loop, the API, the broker or the
cancellation can intervene. `pc` names the point: `wait` is a loop's `select`, `lock` is
`apiMu.Lock`, `fetch` is a call in progress, `backoff` the retry timer, `failed` the error return
of `fetchWithRetry`, `pubState`/`pubAttrs`/`pubTracker` the three publishes, `record` and `mark`
the calls of `SetMetrics` and `MarkSuccess`. Vehicle data is a version number: the backend holds
version `world`, a fetch returns it, topics and page hold the version last written. A publish is
acknowledged, lost, or delivered with an error. With a cancelled context a fetch that has not
begun fails; one in progress may still answer. `lastCached` and `wakes` are history variables. The
car's plug is known only through answers: `WokenOnlyWhenPluggedIn` says that at every
attempt to wake the car the latest cached answer was "plugged in", and nothing about a cable pulled
after that answer.

### Availability

One process at a time against one broker. Publishes travel in order on one connection (`wire`); a
lost connection takes them along. `main` says where `runServe` is, `todo` what each goroutine (the
main one and the connection-up callbacks) still has to publish. The manager reconnects by itself,
calls `fireOnUp` after each connection, and sends DISCONNECT when its context is cancelled, which
is the root context of `serve`. `slow` chooses once whether the broker may answer later than the
client's packet timeout. A publish is sent, and its list goes on only with the acknowledgement of
that packet: `wire` carries the goroutine a packet belongs to. At the start the broker may retain
whatever an earlier life left there, an "online" included. `StableMeansDiscovered` leaves `slow` out:
`PublishDiscovery` stops at a config that is acknowledged too late, and on a connection that stays
up nothing publishes it again.

### TokenClient

Tokens are numbers: the n-th issue makes access token n. The API has a set of accepted access
tokens, the provider a set of honoured refresh tokens; both can change under the client's feet. The
answer to a login may lack a refresh token (`postToken` insists on the access token only); the next
token then takes another login.
`mu` is held across the calls made inside `ensureTokenLocked`. `fault[p]` records that something
outside the client failed during p's request, `unsaved` that the latest issue has not reached the
store. Either several callers share the client and the provider keeps older access tokens valid,
or, as in the daemon where `apiMu` serialises requests, one caller meets a provider that revokes
them. With both, one caller's refresh could revoke the token another is about to retry with, which
the daemon's mutex excludes (`TokenClientAssumption`).

In `TokenClient` the store is one variable and a `Save` one step that succeeds, fails, or fails
after the write: the effects `TokenStore` allows, seen by a single process.

### KubeStore

Processes that share the Secret (the two pods of a rolling update) call `Load` and `Save` while
other owners edit other keys, or the deployment applies the Secret anew. `Save` is split into its
read, the API server's handling of the update, and the look at the answer. Resource versions are
only compared for equality, so `current[c]` stands for "the version c read is still the Secret's".
A request can fail before or after the server handled it, and an update that `Save` has given up
on may still arrive (`late`), as long as no other write came first. The contract `TokenStore` says
what callers may rely on: the refinement maps a `Save` to `done` from the moment the server
accepts its update, and a late update to a lingering effect of a `Save` that had returned an
error.

### Pipeline, StatusParser, Display, Config, BluelinkApi

`Pipeline` takes data where `Scheduler` takes interleavings: one cycle is one step, but the
documents are parsed, converted, marshalled and rendered field by field. A pointer is a set of at
most one element; a document is a function from the paths it holds to tagged JSON values;
distances are counted in tenths, the precision of `InDistanceUnit`. `BluelinkApi` generates
documents from a car: each group of fields has codes that tell the facts, blanks that tell nothing
(absent, another type, a sentinel) and, for distances, a form without a unit. `IsCar` says what a
car is: distances and minutes are natural numbers, temperatures whole degrees Celsius, a car is
charging exactly while it has minutes left to charge, and it is locked exactly when no door is
unlocked. Temperatures that are whole in both scales may also come in Fahrenheit. Numbers are whole,
so the truncations of `getInt` and `normalizeBatterySoC` are not visible. `parkLocation` decodes
strictly (`Decodes`), unlike the coercing lookups of the parsers. `Chosen` is the
car that is meant: the one whose VIN is configured, whatever the case of its letters, or the first
of the account. The properties compare what Home Assistant and the page show with the car and with
what the document told, not with what the parser made of it. `seen` and `fix` are history
variables. `Start` is `runServe` up to the discovery configs; phase `broken` means that `Load`
accepted a configuration that a constructor or `time.NewTicker` rejects.

### ForceSchedule

`FORCE_REFRESH_AT` goes through `Config`'s `ParseForceRefresh`. Once in a behaviour the wall clock
may be stepped while the timer runs: the timer is monotonic, so `due` moves along. After a step
the history starts anew with the next refresh: that one refresh is off schedule, every later one
must not be. Time in half hours, instants in UTC. `Date` is the algorithm of Go's `time.Date`:
look the offset up as if the wall clock were UTC, correct it once. A refresh takes up to
`MaxBusy`, since retries back off, and the next wait is computed when it ends. `CivilZone`
describes the zones the schedule is right for: changes of two hours at most and a day apart, none
of which moves a wall-clock time to another date. Forward changes at midnight east of Greenwich
are among them, the same changes west of Greenwich are not; `MCForceSchedule` has TLC evaluate
that its ordinary zones are civil and that the zones of `force_midnight` are not.

## Runs

| run | instance | shows |
|---|---|---|
| `sched` | threshold 2, 1 retry, gate on, 3 versions | safety, the refinement of `ServiceContract`; `Run` returns, polls are not starved |
| `sched_wakes` | threshold 1, 1 retry, gate off | **violated**: one firing wakes the car more than once |
| `avail` | 2 configs, 1 callback, 3 packets | no ghost "online" after a lost session; availability and discovery converge, a crash ends in offline, a signal ends the process |
| `avail_exit` | as above, 2 packets | **violated**: a graceful exit may leave "online" retained |
| `token_shared` | 2 requesters, 3 issues, persistent store | serialisation, no spurious failures, store agrees, stored token usable |
| `token_daemon` | 1 requester, 4 issues, provider revokes | no spurious failures, requests end |
| `token_exit` | 1 requester, 3 issues | **violated**: tokens not persisted at exit |
| `kube_store` | 2 processes, 2 token sets, 2 values of the other keys | nobody's data lost, a conflict only after two rivals, the refinement of `TokenStore`, `Save` ends |
| `pipeline` | 2 cars (one per protocol) in 2 states each, every document with one unusual group, every environment with at most two unusual variables | what was told is what is shown, the position is kept, accepted configurations run |
| `force_zones` | 6 zones, 48 refresh times and none, two starts, both clock changes, 3 moments and 4 sizes of a clock step | one refresh per local day, none missed, waits positive |
| `force_midnight` | 2 zones that change at midnight west of Greenwich | **violated**: the refresh repeats on the day of the change |
| `force_empty` | `FORCE_REFRESH_AT` empty | **violated**: the refresh runs at 05:00 |

Bounds. Two loops are all there are. One retry is enough to have a first and a last attempt, a
backoff and a cancellation in it; three versions let both loops hold different, older versions
than a topic. `FailureCap`, where the failure counter saturates, is the threshold: beyond it a
larger count changes nothing that can be observed, and the proofs hold for every cap. Two configs
have a first and a last, so that discovery can stop between them; the callback overlaps with the
main goroutine, and the safety properties are proved for any number of callbacks; three packets
are one per publisher and the DISCONNECT. Three issues allow a login, a rotation and another
refresh with two callers; four add a second revocation. Two processes can each be the other's
rival, and the owner a third; the proofs hold for any number. The parsers read the groups of a
document independently, so documents in which one group at a time departs from the usual reach
every branch (`CCS1Faithful` and `CCS2Faithful` are about all combinations); two environment
variables at a time reach every validation that depends on a second variable. The modelled week
(days 3 to 9) contains both clock changes and ordinary days before, between and after; the clock
steps fall on and between the change days, backwards and forwards, by less and by more than the
time to the next refresh.

Fairness. A goroutine that can move moves: `http.Client` has a timeout of 30 s, publishes wait for
a bounded packet timeout, timers fire. `sync.Mutex` hands over to a waiter that starves and
`select` chooses at random among ready cases, hence strong fairness of taking a lock and of
leaving a loop. Nothing is assumed of signals, ticks, crashes, restarts, losses, expiry or the
car. In `KubeStore` every request of client-go is answered or times out; nothing is assumed of
other owners or of late updates. The broker is assumed to process what it receives and to notice
dead sessions.

## Findings

- `sched_wakes`: `docs/specs/00-overview.md:23` promises at most one wake a day; a force refresh
  that fails is retried, and each attempt wakes the car.
- `avail_exit`: the cancellation that starts the shutdown also stops the connection manager, whose
  clean DISCONNECT suppresses the will and may come before the explicit `offline`.
- `token_exit`: `docs/specs/06-lifecycle-health.md:81` lists a step that no code performs; it
  matters after a failed `Save`.
- `force_midnight`: where clocks go forward at local midnight west of Greenwich, `time.Date`
  turns a refresh time inside the gap into an instant of the day before, the wait is not
  positive, and the loop refreshes again at once.
- `force_empty`: `docs/specs/05-config.md:19` and the comment at `config.go:181` say that an empty
  `FORCE_REFRESH_AT` disables the refresh; `getEnv` replaces the empty value by 05:00 first, so the
  branch that disables it is never taken.

Smaller observations without a run: the pre-check's cached answer is not published; the comment at
`client.go:37` says requests are serialised, but only token handling is; a failed pre-check is not
reported to health; a 401 in `ForceStatus` repeats that request as well; a distance without a
known unit is published unconverted under the configured label, although `entities.go:33` says
that label and value always agree (the properties exempt it); a position of 0/0 is no position on
CCS1 and a position like any other on CCS2 (the model follows the code in both); `docs/specs/02-domain-model.md` describes a fallback to coordinates inside
the status document that the code does not have; a forced CCS1 status has no odometer, so Home
Assistant shows it as unknown until the next cached poll; a damaged `tokens.json` makes every
start fail instead of leading to a login.

## Proofs

All are for every value of the constants that satisfies the named assumptions
(`StatusServerAssumption`, `SchedulerAssumption`, `TokenClientAssumption`, `KubeStoreAssumption`,
`AvailabilityAssumption`, `ForceScheduleAssumption` with `SettingsAssumption`, and
`PipelineAssumption`). Every invariant and every action property that a passing run checks is a
theorem, and so is each of the two refinements.

`SchedulerProofs`. `IInv` adds to the type invariant: a loop inside its cycle owns `apiMu`
(`Ownership`); a backoff has an attempt left (`Attempts`); there is at most one wake per attempt
(`WakeCount`); a snapshot being published is neither older than the retained document nor newer
than the backend (`Snapshots`); each publishing step has its predecessors' topics at the
snapshot's version (`Progress`); and a ready server has fewer failures than the threshold
(`Health`). None of the checked invariants is inductive alone: mutual exclusion needs `Ownership`,
monotonicity needs `Snapshots`, which needs `Ownership` to know that no other loop publishes in
between. From `Invariance` follow `TypeCorrect`, `MutualExclusion`, `FollowersFollow`,
`SuccessDelivered`, `WakeSafety`, `WakesBounded`, the action properties `Monotone` and
`ShutdownHarmless`, and `ImplementsContract`: initial states map to initial states and every step
to a step of `ServiceContract` or to none.

`TokenClientProofs`. `IInv` adds: `mu` is held exactly at the points inside `ensureTokenLocked`
(`LockHeld`); `Connect` runs alone (`LifeCycle`); tokens about to be saved have an access token and
a device, and their refresh token, if any, is honoured (`SaveReady`); the store is behind memory only while an issue is unsaved
(`StoreMatches`); a retry uses an accepted token unless one was revoked since (`Retrying`). From
it follow `TypeCorrect`, `Serialised`, `FailuresAreExternal`, `StoreCorrect`, `StoreUsable` and
`Authenticated`.

`KubeStoreProofs`. `IInv` adds: a copy whose version is current holds the other keys as they are,
and a `Save` has an argument exactly while it runs (`Copies`); the same for an update still on its
way (`Lates`); every lost race has a rival, one for each attempt that is over and one for a stale
copy (`Races`). `OthersNeverLost` alone is not inductive because an accepted update writes the
copy back; a count of two conflicts says nothing without `Races`. From `Invariance` follow
`TypeCorrect`, `OthersKept`, the action property `ConflictJustified` and `ImplementsTokenStore`,
step by step through the mapping of `KubeStore`.

`AvailabilityProofs`. `LostMeansNotOnline` needs that a working connection belongs to the open
session (`LinkHasSession`): packets on a lost connection are gone, so nothing can be retained
after the will. The types need more than types, because an acknowledgement drops the head of a
list that could be empty or belong to a later publish. `PInv` adds `Acks`: a packet somebody waits
for is the head of that goroutine's list (`AnswersHead`), no goroutine has two packets on the wire
(`OneInFlight`), and a goroutine that waits has something to publish (`WaitsForSomething`).
`PublishInvariance` gives `TypeCorrect` and `AcksInOrder`.

`ForceScheduleProofs`. Two hypotheses stand in the theorems. `Civil`: every zone is a `CivilZone`;
without it the properties are false, as `force_midnight` shows. `ShortRefresh`: a refresh takes
less than a day minus the largest change of the clocks; with the default of three retries,
requests that time out after 30 s and backoffs of seconds, it takes minutes, and a refresh that
ran through the next one's time would miss it. The clock arithmetic comes first, as lemmas about
`Offset` and `Date` with at most one change within a day: the local date never goes back
(`LocalDayMonotone`), `Date` of a day lies on that day (`DateInDay`), the refresh times of two
days in a row are a day apart give or take a change (`DateStep`), and `untilNextForce` waits for
the next of them (`NextForce`). `Timing` (the timer is neither overdue nor further ahead than a
day and a change) is inductive with `Civil` alone and gives `TypeCorrect` and `WaitAlwaysInRange`.
`Planned` adds what the timer stands for: the refresh time of its own local day, with all earlier
days since the start refreshed and no later one. `NoLocalDayMissed` and `AtMostOncePerDay` follow
from both; neither property is inductive, since the history alone says nothing of when the timer
fires next. After a step of the clock `Planned` is suspended until the next refresh, as in the
model.

`ParserProofs`. For every group of fields a lemma says what the parser reads of each of its codes,
blanks and vague forms and which paths these use. The paths of different groups are disjoint
(`CCS2Homes`, `CCS1Homes`), so in a document merged from one part per group each lookup sees the
part of its own group (`MergedPath`). `CCS2Faithful` and `CCS1Faithful` then hold for every
combination of parts, not only for the documents TLC builds, in which one group at a time departs
from the usual, and for every car. `FetchFaithful` adds the odometer next to a cached CCS1 status
and the location, with either endpoint.

`PipelineProofs`. `PInv` adds to the checked invariants that whatever is retained was published by
a service whose configuration `Load` accepted, under the label of its unit, and that a serving
process holds the vehicle `SelectVehicle` takes (`Started`): a restart publishes the label anew
while the old state is still retained, and only because the unit is the same does Home Assistant
keep showing the right distance. `LoadAccepts` is about `config.Load`; `NearestTenth` shows the
rounding of `convertDistance`; `JsonTells` and `PageTells` carry `FetchFaithful` through
conversion, JSON, templates and rows. From `DeploymentInvariance` follow `TypeCorrect`,
`AcceptedIsUsable`, `PositionAlwaysKept`, `HomeAssistantFaithful` and `PageFaithful`. That a step
of the model is one whole cycle is not proved here: it rests on `apiMu`, which `MutualExclusion`
is about.

Only model-checked: liveness under fairness (`RunReturns`, `PollCycleEnds`, `StableMeansOnline`,
`StableMeansDiscovered`, `CrashMeansOffline`, `ShutdownEnds`, `RequestEnds`, `SaveEnds`), which
the prover does not handle, and the violated properties, whose counterexamples are TLC's.

## Plan

1. Done: scheduler, publisher and status server with their contract; availability; tokens;
   schedule.
2. Done: the Kubernetes store and its contract; parsers, units, discovery, page and configuration,
   composed in `Pipeline`; steps of the clock.
3. Done: proofs of every invariant, action property and refinement the runs check.
4. Open: `CivilZone` leaves out changes of more than two hours, such as a zone that moves across the date line,
   where a whole local day does not exist.

## Not modelled

- Request signing, keys and password encryption: computations on bytes.
- Texts: log lines, the markup and number formats of the page, names and topics of the entities, the
  masking of the VIN, the redacted configuration.
- The mock server, the dump command and the recording publisher, which are tools and test doubles.
  `BluelinkApi` takes the mock's documents as its starting point.
- Two live MQTT clients with one client id: the deployment is documented as a single replica, and
  the broker's side of a takeover is not in the repository. Their effect on the Secret is in
  `KubeStore`.
- The order of the last steps of a process (shutdown of the HTTP server, exit codes), which no other
  part observes.
