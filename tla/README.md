# Prebid Cache in TLA+

Models of the cache service in `src/` with the properties that make it correct,
TLC configurations that check them on small instances, and TLAPS proofs of the
most important ones for every value of the constants.

## 1. The system

Prebid Cache stores short-lived texts (bids) under uuids. `POST /cache` stores
the elements of a JSON list, `GET /cache?uuid=...` returns one. One process
serves both; the texts are kept in its memory or in one of five storage
servers.

| Part | State | Operations | Hard because |
|---|---|---|---|
| POST endpoint (`endpoints/put.go`) | two `sync.Pool`s; per request a decoded body, an array of responses, a wait group | `handle`, `parseRequest`, `putElements`, `put` (one goroutine per element) | pooled objects are reused by other requests, goroutines point into their arrays, elements fail separately, deadlines pass while writes are under way |
| GET endpoint (`endpoints/get.go`) | none | `handle`, `parseUUID`, `writeGetResponse`, `handleException` | records appear and expire during the call; failures must not look like missing records |
| Decorators (`backends/decorators`, `compression`) | none | limit the time to live, take metrics, check the size, compress | order of the stack; a stored text may be of another compression |
| In-memory back-end (`backends/memory.go`) | a map, a mutex | `Get`, `Put` | concurrent calls; look-up and write must be one |
| Adapters (`backends/*.go`) | a client library | `Get`, `Put` | six libraries report "exists", "missing", "timed out" and "failed" in six ways; some resend |
| Configuration (`config`, `backends/config`) | the configuration | `ValidateAndLog`, `NewBackend`, `getMaxTTLSeconds` | several limits of one quantity, zero as "not set", conversions to 32 bits |
| Server (`server`) | sockets, connections, channels | `Listen`, `wait`, `shutdownAfterSignals`, monitored connections | unbuffered channels between five kinds of goroutines; a connection is closed twice |
| Metrics (`metrics/core.go`) | the list of engines | `CreateMetrics`, `Record*`, `Export` | taken at three places on every path; one engine's export never returns |
| Metrics engines (`metrics/influx`, `metrics/prometheus`) | the series | 25 `Record` methods each | two lists of 25 names that must agree with what is registered and preloaded |
| Main, routing (`main.go`, `endpoints/routing`) | - | the start, the routes of each server | the parts check the same settings separately; validation changes the configuration |
| Index, status, version | - | - | nothing: constants |

What makes each part correct: a uuid that was answered leads to the element's
own value until it expires; a record is never replaced; an answer is made from
the request's own elements; failures and existing records are told apart; every
request is answered; metrics add up; a value lives as long as the limits allow;
a signal ends the process, and not before requests have had their ten seconds;
what validation accepts can be built; every metrics system that was asked for is
published, and counts each event once.

The parts meet at four places: the endpoints call the back-end through the
decorators, synchronously but under a deadline; the requests share the pools;
every part records metrics with all engines; and `Listen` exchanges signals with
the goroutines of the servers. POST and GET meet only in the storage.

## 2. Modules

| Module | Models | Composes |
|---|---|---|
| `WriteOnceCache` | abstract: a linearizable map that keeps the first value of a key | - |
| `MemoryBackend` | `backends/memory.go`, one step per access of mutex or map | refines `WriteOnceCache` |
| `PBCErrors` | `utils/errors.go`: types and HTTP status | - |
| `BackendAdapters` | the six adapters: what a library answers, what the endpoint sees | `PBCErrors` |
| `Decorators` | limit of the time to live, size check | - |
| `PutContract` | abstract: what POST promises its clients | - |
| `PutEndpoint` | POST: handlers, elements' goroutines, pools, client library, network, server | `BackendAdapters`, `Decorators`; refines `PutContract` |
| `GetEndpoint` | GET, with a storage server that others write to | `BackendAdapters` |
| `ServerShutdown` | `server/server.go`, `server/listener.go` | - |
| `CacheService` | POST and GET over one storage server, and a process that is killed and restarted | `PutEndpoint`, `GetEndpoint`; refines the latter and `PutContract` |
| `Configuration` | `config/`: defaults, validation, corrections | - |
| `TimeToLive` | from the configured limits to what the storage server makes of a number | `Configuration`, `Decorators` |
| `MetricsEngines` | the engines, the series they register, the series of each event | - |
| `Startup` | `main.go`: from the configuration to a service that stores and records | `TimeToLive`, `MetricsEngines` |
| `PutEndpointInv`, `ServerShutdownInv`, `CacheServiceInv` | the inductive invariants of three of them | |
| `MC*` | instances for TLC | |
| `*Proofs` | theorems | |

Definitions that begin a comment with "A ... that ..." or "... without ..." and
are used nowhere (`CollectLast`, `IgnitePutIgnoringErrors`, ...) are mutants: a
definition of the code as a plausible bug would make it. Each checked property
fails when its mutant takes the place of the definition.

### PutEndpoint

`pc[r]` is the statement handler `r` is at: `read` (`ReadAll`), `decode`
(`json.Unmarshal` and the limit on the elements), `start` (the response object
and the goroutines), `wait` (`waitGroup.Wait`, then the first error), `encode`,
`release` (the two deferred `Put`s of the pools), `reply`. `epc[e]` does the
same for element `e = <<request, index>>`: `start`, `call` (in `Backend.Put`),
`done`. A step is what no other goroutine can observe in parts. The pooled
objects are explicit: `puts[o]` is the decoded list that object `o` holds, and
`owner[o]` whose response array it points to, so that a handler that shares an
object reads another's elements. The object given back is reused with what it
holds.

The client library is `attempt`, `wire` and `reply`: a Put may be sent again
(`Resend`), lost (`LoseAttempt`), reach the server late, even after the answer
(`ServerStores`, `ServerRefuses`), and be given up at any time (`GiveUp`).
`Failures` in `BackendAdapters` is what each library may then return. `store[k]`
has a ghost field `by`, the element that wrote it; `expired`, `blocker` and
`outcome` are ghosts too.

A value is a model value with a length; no value has escaped characters, so
that `unescapeXML` takes the two quotes away and nothing else.

### GetEndpoint

`pc[r]` is `parse`, `call` or `done`. What the other requests do to the store is
`Write` of a free key and `Expire`: `CacheService` shows that the POSTs do
nothing else to it (`GetsImplemented`). `held[r]` is a ghost: all that the key
of `r` has held since the call began. Records carry the compression they were
written with, because the setting may have been different when they were stored.
A text that was not compressed does not decode, and compressed bytes never begin
with `xml` or `json`: both prefixes' second bytes are no start of a Snappy
literal.

### PutContract

What a client can rely on, in four actions: `Ask`, `Store` (one element under a
free key, perhaps after the answer), `Drop` (records go: one that expires, or
all of a memory), `Reply`, once at most for each request. A reply without an
error commits: each uuid is a key that holds the element, or held it.
`PutEndpoint` implements it with `store` as `content` and the result of an ended
handler as `answer`; everything else it does is invisible. `CacheService`
implements it too: to a client a restart is a `Drop`, or nothing, and a killed
request is one that is never answered. The contract does not say that a failed
request stores nothing, because the code does not do so.

### CacheService

The steps are those of `PutEndpoint` and, through an `INSTANCE`, of
`GetEndpoint`, whose `store` is a view of `PutEndpoint`'s: `Seen(k)` is the
record with the compression of the process that sent it (`encoding`).
`Meanwhile` is what a step of a POST is for the GETs under way. `Restart` kills
the process at any moment: its requests are `lost`, the pools are new, the
in-memory map is empty, a remote storage server and the writes on their way to
it stay. `promised[g]` is a ghost: the elements whose uuid a client could have
been told when `g` began. That `GetEndpoint`'s own `Write` and `Expire` are all
that POSTs do to the storage is not assumed but checked (`GetsImplemented`).
`ShownWasSent` joins the two ends: the text that a GET shows is, whole, one that
some client sent for that uuid, in its own format and in a body that was
accepted, although pools, compressions and processes have changed in between.

### Configuration, TimeToLive, MetricsEngines, Startup

`Configuration` keeps of a text what the program asks of it: whether it is one
of the texts that it knows, whether it is there, or its length. `Valid` and
`Normalised` are `ValidateAndLog`, which has a pointer receiver and corrects what
it validates. `MetricsEngines` has the tables: `InfluxSeries` and
`PrometheusSeries` are the `Record` methods, `Registered` the constructors,
`SeriesOf` the series that an engine's method adds to.

`Startup` has an action for each statement of `main`; `pc` names the next one
or how the process ended (`unreadable`, `badLevel`, `invalid`,
`unconstructible`, `unreachable`, `panicked`, `unbound`). `NewConfig` chooses
among the configurations of the run: viper's merging of defaults, file and
environment is not modelled. `Connect` is the first contact with the storage,
which may fail, and over Ignite never end. Whether `url.Parse` takes what Ignite's
scheme, host and cache name make (`url`) is part of the configuration, because
validation does not ask. `export` is where the goroutine of
`Export` is. Once the servers run, a Put is followed from what was asked to the
seconds the storage keeps it, and `Record` counts events. From there on
`PutEndpoint`, `GetEndpoint` and `ServerShutdown` have the details.

### MemoryBackend, ServerShutdown

`MemoryBackend`: `Lock`, `GetLookup`, `PutLookup`, `Store`, `Unlock`, `Return`
for each goroutine and `Restart`, which empties the map.

`ServerShutdown`: `pc` is where `Listen` stands; each server has the goroutine
of `runServer` (`serve`), of `shutdownAfterSignals` (`stopper`) and of
`sendSignal` (`sender`). A send on an unbuffered channel and its receive are one
step. Connections are `idle`, `active`, `cut` (closed by `Shutdown` while their
own goroutine lives), `gone`, and `unclosed`: their first `Close` failed, which
net/http does not look at but the gauge does.

## 3. Runs

Passing runs (the configuration has the name of the run):

| Run | Instance | Shows |
|---|---|---|
| `MemoryBackend` | 3 goroutines, 1 key, 2 values, restarts, fairness | no data race, no stale look-up, refinement of `WriteOnceCache`, every call returns |
| `PutElements` | in memory, with and without custom keys; 2 requests, 2 objects per pool, every kind of body, elements of every valid and invalid kind, the same key twice | every answer has a status; pooled objects have one holder; answers are made of own elements; refused bodies start nothing; no custom key without permission; metrics add up |
| `PutStorage` | Redis (without and with one resend), Ignite, Memcache, Aerospike; 2 requests that want one key; losses, late writes, deadlines, expiry | the inductive invariant; acknowledged records are kept; an empty uuid means a record in the way; refinement of `PutContract` |
| `Get` | all six back-ends, snappy and none, custom keys; records of both kinds; a key that is no uuid; fairness | a 200 shows what was stored, a 404 means absent, metrics add up, every GET is answered |
| `Shutdown` | 3 servers, 2 connections, 2 signals, fairness | graceful exit, a gauge that is exact also when a `Close` fails, the inductive invariant; a received signal ends the process |
| `Startup` | 331 configurations: every limit around the numbers it is compared with for each back-end, every setting that validation or a constructor asks for given and not, every way to ask for the two metrics engines; 14-bit `int32`; one Put, 2 recorded events; fairness | what validates can be built, but for three cases that are named; it panics only over names; limits hold, and a value lives for as long as it was sent for exactly when all understand the number alike; each engine counts each event once, into a series that was there; what was asked for is published; the start ends |
| `CacheService` | memory and Redis; 1 POST of up to 2 elements with custom or random keys, 1 GET that may be repeated, 1 restart, from snappy to either compression; deadlines, late writes, expiry; fairness | the inductive invariant, also over killed handlers, with the meaning of a 404; an acknowledged value can be read; what is read was sent for that uuid; a deadline of Redis is a 597; a GET sees of POSTs what `GetEndpoint` supposes; every POST and GET ends |

The bounds: the hazards need two actors (two requests that share a pool or a
key, two goroutines in the back-end, a connection and `Shutdown`), one message
more than is needed (one resend), or one list longer than one element; each
instance has that and one more where it is affordable (three goroutines, three
servers). In `Get` one request is enough: GETs share only counters, and the
storage changes under each by itself. `CacheService` has one POST of two
elements for one key: what two requests do to each other is `PutStorage`'s, and
`GetsImplemented` says that a GET cannot tell. Its uuid is also a custom key, so
that both ways to a key are taken. `Startup` varies one part of the
configuration at a time, because the conditions on different parts are checked
by separate statements; two events are enough for a series to be counted twice
or a gauge to fall. `MaxRestarts` bounds the restarts, `MaxRecords` the events,
`MaxSignals` bounds the signals, `retries`
of a configuration the resends. The proofs have no such bounds.

The configuration is a variable that no step changes: a run starts from each of
`Configs`. Cassandra is in no passing run of `PutEndpoint`, because its adapter
breaks `EmptyUuidMeansTaken` (below); the proofs cover it. Deadlock is not
checked in `Startup`, because a start may fail and the process ends.

Runs that show a difference between the code and what it says of itself:

| Run | What it shows |
|---|---|
| `FindStoresOnError` | a POST that is answered with an error has stored its valid elements (README:55 says none is retrievable) |
| `FindCassandraError` | a failed Cassandra insert is answered as if a record existed (cassandra.go:104) |
| `FindIgniteTimeout` | the deadline of an Ignite Put is a 500, not the 597 of errors.go:27: the error is wrapped |
| `FindWriteRetries` | the configured `max_write_retries` of Aerospike has no effect on a Put (aerospike.go:84, :177) |
| `FindLostSignal` | a signal during the start is lost (server.go:22, unbuffered channel at :24) |

Other differences met while modelling, which the models have but no run is
spent on:

* A resent SETNX can find the record of its first attempt, so that an element
  whose value was stored is answered with an empty uuid: `EmptyUuidMeansTaken`
  says "by another element" only of a Put that was sent once.
* The deadline of a GET is a 500, not a 597: `get.go:69` has no counterpart of
  `classifyBackendError`.
* The empty string is stored (README:73 says it is refused): `put.go:118` tests
  the raw JSON, which has two quotes.
* A request waits for all its elements after the first error (comment at
  `put.go:229`), over Aerospike for ever if the server does not answer.
* With `max_ttl_seconds` 0 the limit is 3600 seconds, also where the back-end's
  own is smaller: Cassandra's 2400 (comment at `backends/config/config.go:88`),
  `redis.expiration`, `aerospike.default_ttl_seconds`. `TighterLimitHolds` says so.
* Over Memcached a time to live of more than thirty days is a date, over
  Aerospike three numbers at the end of 32 bits mean something else, and both
  adapters cut larger ones off: `LifeWithinLimit` says of exactly these that the
  value does not live as long as it was sent for.
* Validation accepts an Ignite port of zero or less, a scheme, host and cache name
  of Ignite that make no URL, and an Aerospike host of one letter, with which the
  constructors end the process: the three exceptions of `ValidIsConstructible`,
  which says that the process ends in each of them and in no other.
* Over Memcached and Aerospike, whose adapters ignore the context, a timeout is
  the library's own and an ordinary error, answered with a 500: no deadline ends
  such a Put, and `TimeoutAnswered597` says nothing of it.
* A Prometheus namespace or subsystem that cannot begin a metric's name passes
  validation, and `MustRegister` panics: the exception of `PanicsOnlyOverNames`.
* `gets_backend`'s label value `bad_request` is preloaded, but its
  `RecordGetBackendBadRequest` is not in the interface and never called.
* An omitted `ttlseconds` means the configured limit, not 3600 (README:74).

### Fairness

Weak fairness of a goroutine's own steps: the Go scheduler is fair. In
`MemoryBackend`, strong fairness of `Lock`, because `sync.Mutex` hands itself to
a starved waiter. Weak fairness of the client library's call where the library
bounds it: Redis and Cassandra by the context of 500 ms, Ignite by the same
through net/http, Memcache by its own timeout. The Aerospike Put has no bound,
because `AerospikeBackend.Put` builds a `WritePolicy` without timeouts; no
liveness is claimed there. Storage servers and the network owe nothing, except
the in-memory one, which is the goroutine itself. In `ServerShutdown` the ten
seconds of `Shutdown` pass; clients and the operating system owe nothing. In
`CacheService` each request has one condition over all its process's steps; no
restart and no delivery is fair, and a request ends also when its process is
killed. In `Startup` `main` and `Export` run, and the first contact with the
storage ends because the client libraries bound it, except `createCache` of
Ignite, which has the background context: `StartEnds` excepts it too.

## 4. Proofs

All theorems hold for every value of the constants that satisfies the modules'
assumptions (`MemoryAssumption`, `PutAssumption`, `PoolAssumption`,
`NoElementAssumption`, `NoRecordAssumption`, `GetAssumption`,
`ServerAssumption`, `StartupAssumption`, `TimeAssumption`,
`ServiceAssumption`, `SeenAssumption`): finitely many
requests and connections, distinct model values, at least as many pooled objects
as requests (a `sync.Pool` makes a new one when it is empty), a two- or
three-server start, requested times to live that are not negative (the parser
refuses those), and a clock between Memcached's thirty days and the end of
`int32`. TLC evaluates them in every run.

* `MemoryBackendProofs`: `Inv` says that the goroutine between `Lock` and
  `Unlock` is the holder of the mutex and that the key a Put has looked up is
  absent until it writes. From it `DataRaceFree`, `LookupNotStale`, and
  `Implements`: the linearization point of a Get, and of a Put that finds the
  key, is its look-up; that of a Put that stores is the write.
* `PutEndpointProofs`: `Inv` of `PutEndpointInv`. `AckedRecordKept` is not
  inductive: that a uuid leads to the element's record needs that a reply
  "stored" is never forgotten (`Stored`), that a call carries the element's own
  value (`Calls`), that the batch is the request's own body (`Contents`), for
  which every pooled object needs one holder (`Holders`), and that the result
  is made of own elements that have ended (`Answers`). It speaks of killed
  handlers too (`Killed`), which `PutEndpoint` alone never has, so that the
  service's proof can use it. One lemma per action shows that it keeps the parts
  it can disturb. From `Inv`: `TypeCorrect`,
  `PoolsSafe`, `AnswersOwn` and `AcksHold`.
  `KeepsContract` is the refinement of `PutContract`: `ServerStores` is `Store`,
  which needs from `Stored` that no element is stored twice, and `Reply` commits
  because of `Answers`; every other step but `Receive` and `Expire` is invisible.
* `PutAnswerProofs`: `FullInv` adds that calls have permitted keys (`Keys`) and
  that every reply "exists" has a record to blame, `blocker`, which is the
  element's own only if its Put was sent more than once (`Refusals`): until then
  its one attempt is on the way only while nothing of it is stored. From
  it `RefusalsStartNothing`, `KeysNeedPermission`, and `EmptyMeansTaken` for
  every back-end but Cassandra, for which it is false. `TimeoutsAre597` is about
  Redis (`PlainErrors`), the one back-end whose library hands a deadline's error
  to the adapter as it is and whose adapter passes it on. Ignite's wraps it and
  Cassandra's adapter hides it, as section 3's runs `FindIgniteTimeout` and
  `FindCassandraError` show; the other three never see one.
* `PutMetricsProofs`: `MetricsAddUp` is `MetricsBalance` of POST. The counters
  are compared with cardinalities: of the requests that have come, of those
  answered with a status of a class, of the elements whose decorated Put is
  under way. A step moves at most one request or element into or out of a set,
  and the counter it takes changes with the set: `Receive` and `Reply` for the
  requests, `Send`, `Finish` and `RefuseSize` for the elements; all others leave
  both alone. A Put has exactly one format (`OneFormat`), and a request's status
  is of one class. Of `Inv` only the types are needed.
* `GetEndpointProofs`: `Inv` says that a call under way has its key's present
  record in `held`, and that a reply is one of them. `GetsShow` and
  `MissingMeansAbsent` follow with what `AdapterGet` and `Decompress` return.
  `MetricsAddUp` is its `MetricsBalance`, argued as for POST.
* `CacheServiceProofs`: `ServiceInv` of `CacheServiceInv` has POST's `Inv`,
  `Keys`, `Refusals` and `Timeouts`, and parts of its own. `Compressions`: a call
  under way was compressed by the process that lives, as is all that an
  in-memory back-end holds. `Replies`: a GET's reply and its key's present
  record are in `held`. `Promises`: an acknowledged element that a GET asks for
  is all that its key has held since it began, unless the record expired.
  `LostCalls`: what a killed process has left on its way to the server are
  elements of its own, accepted bodies, for which POST's `Contents` no longer
  speaks. A restart keeps `Inv` because it takes the requests' objects with the
  requests, and `Stored` and `Answers` hold of a process that has none. From it
  `ClientsReadTheirValue`, and what POST shows holds across restarts:
  `AcksOutliveRestarts`, `AnswersOutliveRestarts`,
  `EmptyMeansTakenAcrossRestarts`, `TimeoutsAre597AcrossRestarts` (over Redis),
  and with them `ContractOutlivesRestarts`.
  `FullServiceInv` adds `Origins`: whatever the key of a GET under way has held
  was sent as some element's record (`SentAs`), because the server stores what
  it is sent (`StoredWasSent`) and an element's call and body stay once they are
  made (`SentStays`). From it `GetsShowWhatWasSent`. With GET's own meaning of a
  404, which needs that a reply was held, it gives
  `MissingMeansAbsentAcrossRestarts`.
  `ImplementsGets` is the refinement of `GetEndpoint`: `ServerStores` is its
  `Write`, of a free key and with a record that a POST may have sent, `Expire`
  its `Expire`; every other step of a POST leaves what GETs see alone
  (`SeenStays`), and a restart begins another behaviour.
* `ServerShutdownProofs`: `Inv` counts: `Listen` has joined as many servers as
  have ended (`Joining`), and a server that has ended its `Shutdown` in time has
  no open connection (`Closed`). `NotClosed` is what the gauge counts. From it
  `ExitIsGraceful` and `GaugeExact`.
* `StartupProofs`: `Known` is what `main` knows of the configuration at each
  statement: after validation that the back-end and compression are valid and
  the limit is not negative, which `Normalised` keeps, and after `CreateMetrics`
  that the engines are those enabled. `ValidConstructs` and `NamesPanic` follow
  for every configuration.
  `LimitsHold` and `LifeHolds` need `PutMade`. `InvSent` relates what is sent to
  the `Limits` a configuration sets, zero included; `LifeIsSent` and
  `LifeIsAnother` say that the conversions to 32 bits, of any width, and the
  servers' readings change nothing of a number for which `SameToAll` holds, and
  change every other. `SeriesInv` says of the
  metrics that the engines created are those listed, each with the series it
  registered, and that no connection is closed before one is opened. From it
  `SeriesAreExact` and `SeriesArePreloaded`: `Record` adds to one series of each
  engine, which is registered (`SeriesRegistered`), and no two events share one
  (`InfluxDistinct`, `PrometheusDistinct`) but InfluxDB's gauge of connections.
  `TypeCorrect` covers the configuration, engines, series and the Put.

Every invariant and every action property of a passing run, and the
refinements, are proved. Only model-checked is what needs fairness and ENABLED,
which the prover does not reach: `CallsReturn`, `GetsAnswered`,
`ReceivedSignalEndsProcess`, `MetricsArePublished`, `StartEnds` and
`RequestsEnd`; and the five disagreements of section 3, which are counterexamples.
No recursive definition and no induction over data occurs: sizes are reasoned
about with the library's theorems on finite sets.

## 5. Not modelled

CORS and the rate limiter are libraries called with constants; a limit of zero
or less (`num_requests` is not validated) is theirs to interpret. The index,
status and version endpoints answer constants. Loading the configuration by
viper, including that the environment overrides only settings with a default,
is a choice among configurations. Settings that are only logged or handed to a
library (credentials, queue sizes, read retries, TLS), logging and the texts of
errors are left out, and so are the values of durations and sizes that metrics
observe and the statistics of the Go runtime that InfluxDB also publishes. The
network between the metrics engines and their servers is external. An element
whose response cannot be encoded (`MARSHAL_RESPONSE`) does not exist: the
response is a list of strings. In memory a record has no time to live, which
`LifeWithinLimit` excludes. A time to live of 292 years or more, which overflows
`time.Duration` in the Redis adapter, is beyond what is considered (`Multipliable`).

## 6. Plan

Done: POST with its pools, its storage and its contract; the in-memory back-end
and its refinement; adapters and decorators; GET; the service of both with
restarts; the start with configuration, metrics engines and routes; shutdown; the
proofs of every invariant, action property and refinement that a run checks.

Left, in this order:

1. `ServerShutdown` with requests of `CacheService` as the load of its
   connections, and what a start that half fails (`BindFails` of the Prometheus
   server) owes them, once a document says it.
2. A bound on what a request waits for after its first error, if the comment of
   `processPutRequest` is taken for a promise.

The metrics of the service are not stated across restarts: the counters go with
the process, so that `MetricsBalance` is a property of one process, for which it
is proved.
