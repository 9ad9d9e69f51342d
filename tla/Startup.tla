-------------------------------- MODULE Startup --------------------------------
(***************************************************************************)
(* The start of the process, as main.go orders it: the configuration is    *)
(* read, validated and corrected, the metrics engines and the back-end are *)
(* created, the handlers get their routes, the metrics are exported by a   *)
(* goroutine of their own, and Listen opens the sockets.  Then requests    *)
(* store values and record metrics.  What happens when the process stops   *)
(* is ServerShutdown.                                                      *)
(***************************************************************************)
EXTENDS TimeToLive, MetricsEngines, Functions

CONSTANTS
    Configurations,  \* what a configuration file and the environment can say
    RequestTTLs,     \* the "ttlseconds" of the elements, which are not negative
    MaxRecords       \* bound on the metrics that are recorded

ASSUME StartupAssumption ==
    /\ RequestTTLs \subseteq Nat /\ MaxRecords \in Nat
    /\ Configurations \subseteq Configuration

VARIABLES
    pc,        \* the statement main executes next, or how the process has ended
    cfg,       \* the Configuration
    engines,   \* Metrics.MetricEngines
    series,    \* the series of each engine
    export,    \* the engine Metrics.Export has come to, 0 before it runs
    registry,  \* the registry the Prometheus server reads
    put,       \* a Put that is followed: the ttl asked for, sent, and lived, and its retries
    recorded   \* how often each metric was recorded

vars == <<pc, cfg, engines, series, export, registry, put, recorded>>

NoPut == [asked |-> 0, sent |-> 0, life |-> 0, retries |-> 0]

\* log.Fatal, a panic, or a return of Listen before it serves.
Ended == {"unreadable", "badLevel", "invalid", "unconstructible", "unreachable",
          "panicked", "unbound"}

TypeOK ==
    /\ pc \in Ended \cup {"read", "level", "validate", "measure", "create", "connect",
                          "decorate", "route", "export", "listen", "scrape", "serve"}
    /\ cfg \in Configuration
    /\ engines \in Seq({"InfluxDB", "Prometheus"})
    /\ DOMAIN series = {engines[i] : i \in DOMAIN engines}
    /\ \A e \in DOMAIN series : series[e] \in [DOMAIN series[e] -> Nat]
    /\ export \in 0..(Len(engines) + 1)
    /\ registry \in {"unset", "Prometheus"}
    /\ \A x \in {"asked", "sent", "retries"} : put[x] \in Nat
    /\ put.life \in Nat \cup {Forever}
    /\ recorded \in [Event -> Nat]

Init ==
    /\ pc = "read" /\ cfg = Default
    /\ engines = <<>> /\ series = <<>> /\ export = 0 /\ registry = "unset"
    /\ put = NoPut
    /\ recorded = [e \in Event |-> 0]
-----------------------------------------------------------------------------
(* main *)

\* NewConfig: without a file the defaults hold; a defective one is fatal.
NewConfig ==
    /\ pc = "read"
    /\ \/ pc' = "level" /\ cfg' = Default
       \/ pc' = "level" /\ cfg' \in Configurations
       \/ pc' = "unreadable" /\ UNCHANGED cfg
    /\ UNCHANGED <<engines, series, export, registry, put, recorded>>

SetLogLevel ==
    /\ pc = "level"
    /\ pc' = IF cfg.logLevel \in LogLevels THEN "validate" ELSE "badLevel"
    /\ UNCHANGED <<cfg, engines, series, export, registry, put, recorded>>

ValidateAndLog ==
    /\ pc = "validate"
    /\ \/ Valid(cfg) /\ pc' = "measure" /\ cfg' = Normalised(cfg)
       \/ ~Valid(cfg) /\ pc' = "invalid" /\ UNCHANGED cfg
    /\ UNCHANGED <<engines, series, export, registry, put, recorded>>

\* CreateMetrics: MustRegister panics when a metric's name is not legal.
CreateMetrics ==
    /\ pc = "measure"
    /\ \/ /\ cfg.metrics.prometheus => cfg.metrics.prometheusNames
          /\ engines' = EngineList(cfg.metrics)
          /\ series' = [e \in {engines'[i] : i \in DOMAIN engines'} |-> Registered(e)]
          /\ pc' = "create"
       \/ /\ cfg.metrics.prometheus /\ ~cfg.metrics.prometheusNames
          /\ pc' = "panicked"
          /\ UNCHANGED <<engines, series>>
    /\ UNCHANGED <<cfg, export, registry, put, recorded>>

\* generateHostsList: a host of one letter is none.
HasAerospikeHosts(aerospike) ==
    aerospike.port > 0 /\ (aerospike.hostLength > 1 \/ aerospike.hosts > 0)

\* What url.Parse asks of "scheme://host:port/ignite?cacheName=name".
ParsesURL(ignite) == ignite.url /\ ignite.port >= 0

\* NewIgniteBackend: nothing is missing, and the address can be parsed.
HasIgniteAddress(ignite) ==
    /\ ignite.scheme /\ ignite.host /\ ignite.cacheName /\ ignite.port # 0
    /\ ParsesURL(ignite)

\* newBaseBackend: whether the back-end's constructor takes the configuration.
Constructible ==
    \/ cfg.type \in {"cassandra", "memory", "memcache", "redis"}
    \/ cfg.type = "aerospike" /\ HasAerospikeHosts(cfg.aerospike)
    \/ cfg.type = "ignite" /\ HasIgniteAddress(cfg.ignite)

\* Whether it then waits for an answer of the storage: a PING, a session, the
\* cluster's nodes, the discovery of the hosts, or "getorcreate".
ContactsStorage ==
    \/ cfg.type \in {"cassandra", "aerospike", "redis"}
    \/ cfg.type = "memcache" /\ cfg.memcache.configHost
    \/ cfg.type = "ignite" /\ cfg.ignite.createOnStart

NewBaseBackend ==
    /\ pc = "create"
    /\ pc' = IF ~Constructible THEN "unconstructible"
             ELSE IF ContactsStorage THEN "connect" ELSE "decorate"
    /\ UNCHANGED <<cfg, engines, series, export, registry, put, recorded>>

\* The storage answers, or it fails or cannot be reached.
Connect ==
    /\ pc = "connect"
    /\ pc' \in {"decorate", "unreachable"}
    /\ UNCHANGED <<cfg, engines, series, export, registry, put, recorded>>

\* DecorateBackend, which knows two types of compression.
Decorate ==
    /\ pc = "decorate"
    /\ pc' = IF cfg.compression \in {"none", "snappy"} THEN "route" ELSE "unconstructible"
    /\ UNCHANGED <<cfg, engines, series, export, registry, put, recorded>>

ReadRoutes  == {"GET /", "GET /status", "GET /cache", "GET /version"}
WriteRoutes == {"POST /cache"}

\* NewPublicHandler and NewAdminHandler.
Routes(server) ==
    IF server = "admin" \/ cfg.allowPublicWrite THEN ReadRoutes \cup WriteRoutes ELSE ReadRoutes

NewHandlers ==
    /\ pc = "route"
    /\ pc' = "export"
    /\ UNCHANGED <<cfg, engines, series, export, registry, put, recorded>>

\* An Export that main waits for.
ExportInline ==
    /\ pc = "export"
    /\ export' = IF export = 0 THEN 1 ELSE export
    /\ pc' = IF export' > Len(engines) THEN "listen" ELSE "export"
    /\ UNCHANGED <<cfg, engines, series, registry, put, recorded>>

\* go appMetrics.Export(cfg)
GoExport ==
    /\ pc = "export"
    /\ export' = 1
    /\ pc' = "listen"
    /\ UNCHANGED <<cfg, engines, series, registry, put, recorded>>

\* Listen: the main and the admin server serve, unless a socket is taken.
Listen ==
    /\ pc = "listen"
    /\ pc' \in {IF cfg.metrics.prometheus THEN "scrape" ELSE "serve", "unbound"}
    /\ UNCHANGED <<cfg, engines, series, export, registry, put, recorded>>

\* The rest of Listen: GetEngineRegistry's type assertion, which nil fails, and
\* the Prometheus server's socket.
ListenPrometheus ==
    /\ pc = "scrape"
    /\ LET found == GetEngineRegistry(engines, "Prometheus") IN
          \/ found = "nil" /\ pc' = "panicked" /\ UNCHANGED registry
          \/ /\ found # "nil" /\ cfg.metrics.prometheusPort > 0
             /\ pc' = "serve" /\ registry' = found
          \/ found # "nil" /\ pc' = "unbound" /\ UNCHANGED registry
    /\ UNCHANGED <<cfg, engines, series, export, put, recorded>>
-----------------------------------------------------------------------------
(* The other goroutines. *)

\* Metrics.Export: InfluxDB's reports for ever, Prometheus's does nothing.
Export ==
    /\ export \in DOMAIN engines
    /\ engines[export] # "InfluxDB"
    /\ export' = export + 1
    /\ UNCHANGED <<pc, cfg, engines, series, registry, put, recorded>>

Serving == pc \in {"scrape", "serve"}

\* newAerospikeBackend sets it in the client's default write policy.
DefaultWriteRetries == cfg.aerospike.maxWriteRetries

\* AerospikeBackend.Put has a WritePolicy of its own, in which they are zero.
PutWriteRetries == 0

\* An element is stored, through a server that has the route.  One is followed:
\* each is treated alike.
Put ==
    /\ Serving
    /\ put = NoPut
    /\ \E server \in {"public", "admin"} : WriteRoutes \subseteq Routes(server)
    /\ \E ttl \in RequestTTLs :
          LET sent == LimitedTTL(GetMaxTTLSeconds(cfg), ttl) IN
          put' = [asked |-> ttl, sent |-> sent, life |-> Life(cfg.type, sent),
                   retries |-> PutWriteRetries]
    /\ UNCHANGED <<pc, cfg, engines, series, export, registry, recorded>>

\* A request or a connection records a metric with every engine.  Only an open
\* connection is closed, and once: ServerShutdown's GaugeIsOpenConnections.
Record(event) ==
    /\ Serving
    /\ engines # <<>> /\ SumFunction(recorded) < MaxRecords
    /\ event = "ConnectionClosed" => recorded[event] < recorded["ConnectionOpen"]
    /\ series' = [e \in DOMAIN series |-> Recorded(e, series[e], event)]
    /\ recorded' = [recorded EXCEPT ![event] = @ + 1]
    /\ UNCHANGED <<pc, cfg, engines, export, registry, put>>

Main == \/ NewConfig \/ SetLogLevel \/ ValidateAndLog \/ CreateMetrics \/ NewBaseBackend
        \/ Decorate \/ NewHandlers \/ GoExport \/ Listen \/ ListenPrometheus

Next == Main \/ Connect \/ Export \/ Put \/ \E event \in Event : Record(event)

Spec == Init /\ [][Next]_vars

\* The goroutines of main and Export run.  The client libraries bound the time
\* of the first contact, except that of Ignite: createCache has the background
\* context.
FairSpec ==
    /\ Spec
    /\ WF_vars(Main) /\ WF_vars(Export)
    /\ WF_vars(cfg.type # "ignite" /\ Connect)
-----------------------------------------------------------------------------
(* Properties. *)

\* What validation accepts and no back-end can be built from: an Ignite port of
\* zero or less, scheme, host and cache name of Ignite that make no address, and
\* an Aerospike host of one letter.
Unusable ==
    \/ cfg.type = "ignite" /\ (cfg.ignite.port <= 0 \/ ~cfg.ignite.url)
    \/ cfg.type = "aerospike" /\ cfg.aerospike.hostLength = 1 /\ cfg.aerospike.hosts = 0

\* main has built the stack of back-ends.
Built == {"connect", "decorate", "route", "export", "listen", "scrape", "serve"}

\* A configuration that was validated can be built from, except in the three
\* cases above, and in those it is not: the lists of types and settings in
\* config/backends.go and those in backends/ agree on all others.
ValidIsConstructible ==
    /\ pc = "unconstructible" => Unusable
    /\ pc \in Built => ~Unusable

\* The start panics only over names Prometheus refuses: the type assertion on
\* the registry holds whatever engines are enabled together.
PanicsOnlyOverNames ==
    pc = "panicked" => cfg.metrics.prometheus /\ ~cfg.metrics.prometheusNames

\* The limits a configuration sets: max_ttl_seconds, and the back-end's own when
\* it has one.  With a max_ttl_seconds of zero neither counts, and
\* REQUEST_MAX_TTL_SECONDS is the limit, even if the back-end's own is smaller.
Limits ==
    IF cfg.maxTTLSeconds = 0 THEN {REQUEST_MAX_TTL_SECONDS}
    ELSE {limit \in {cfg.maxTTLSeconds, BackendMaxTTL(cfg)} : limit > 0}

\* No value is sent with more than any of the limits: "smaller,
\* backend-level-defined, non-zero TTL values take precedence"
\* (backends/config/config.go:78-79).  A time to live within them is sent as the
\* client asked, and any other, and none, becomes the tightest of them.
TighterLimitHolds ==
    put # NoPut =>
       /\ \A limit \in Limits : put.sent \in 1..limit
       /\ (\A limit \in Limits : put.asked \in 1..limit) => put.sent = put.asked
       /\ (\E limit \in Limits : put.asked \notin 1..limit) => put.sent \in Limits

\* Through the conversions of the adapters and what the servers make of the
\* number, a stored value lives within the limits, and for as long as the client
\* asked when that is within them, if the number it is sent with means the same
\* to all; and it lives otherwise than it was sent for if the number does not.
\* (In memory it never expires.)
LifeWithinLimit ==
    put # NoPut /\ cfg.type # "memory" /\ Multipliable(cfg.type, put.sent) =>
       IF SameToAll(cfg.type, put.sent)
       THEN /\ \A limit \in Limits : put.life \in 1..limit
            /\ (\A limit \in Limits : put.asked \in 1..limit) => put.life = put.asked
       ELSE put.life # put.sent

\* Every engine counts every metric exactly once, and no metric into another's
\* series; InfluxDB's active connections are those opened and not closed.
SeriesExact ==
    \A i \in DOMAIN engines : \A event \in Event :
       LET e == engines[i] IN
       Reading(e, series[e], event) =
          IF e = "InfluxDB" /\ event \in {"ConnectionOpen", "ConnectionClosed"}
          THEN recorded["ConnectionOpen"] - recorded["ConnectionClosed"]
          ELSE recorded[event]

\* What an engine publishes it publishes from the start, at zero: recording
\* never makes a new series (preloadLabelValues).
SeriesPreloaded ==
    [][\A e \in DOMAIN series : DOMAIN series'[e] = DOMAIN series[e]]_vars

Asked(engine) ==
    IF engine = "InfluxDB" THEN cfg.metrics.type = "influx" \/ cfg.metrics.influx
    ELSE cfg.metrics.prometheus

\* The engine's series leave the process: pushed by Export, or read.
Published(engine) ==
    IF engine = "InfluxDB" THEN export \in DOMAIN engines /\ engines[export] = engine
    ELSE registry = engine

\* A process that serves publishes every metrics system its configuration asks
\* for, also one named only by metrics.type, which validation has to enable.
MetricsArePublished ==
    \A engine \in {"InfluxDB", "Prometheus"} :
       pc = "serve" /\ Asked(engine) ~> Published(engine)

\* The start comes to an end: the process serves or has ended, except while an
\* Ignite server that was asked to create the cache does not answer.
StartEnds ==
    <>(pc \in Ended \cup {"serve"} \/ (pc = "connect" /\ cfg.type = "ignite"))

\* "client.DefaultWritePolicy.MaxRetries determines the maximum number of
\* retries for write before aborting a transaction" (aerospike.go:84-85): the
\* configured number is the one a Put is made with.
WriteRetriesApply ==
    put # NoPut /\ cfg.type = "aerospike" => put.retries = DefaultWriteRetries
=============================================================================
