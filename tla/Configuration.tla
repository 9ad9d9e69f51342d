---------------------------- MODULE Configuration ----------------------------
(***************************************************************************)
(* The configuration (config/config.go, config/backends.go): its defaults, *)
(* what ValidateAndLog accepts, and what it changes on the way.            *)
(*                                                                         *)
(* Of a setting that is a text the module keeps what the program asks of   *)
(* it: whether there is one, or its length.  influxComplete says that host,*)
(* database and measurement are given, prometheusNames that namespace and  *)
(* subsystem can begin the name of a metric, url that scheme, host and     *)
(* cache name make an address that url.Parse takes.  Settings that are only*)
(* logged or handed to a library are left out.                             *)
(***************************************************************************)
EXTENDS Integers

CASSANDRA_DEFAULT_TTL_SECONDS    == 2400
REDIS_DEFAULT_EXPIRATION_MINUTES == 60

\* The levels that logrus can parse.
LogLevels == {"trace", "debug", "info", "warn", "warning", "error", "fatal", "panic"}

\* The back-ends and the types of compression that the program knows.
BackendTypes     == {"aerospike", "cassandra", "memcache", "redis", "ignite", "memory"}
CompressionTypes == {"none", "snappy"}

\* Any other text, where one of the above is asked for.
Other == {"other"}

\* The settings, as viper reads them: numbers are not yet limited.
Aerospike == [hostLength : Nat, hosts : Nat, port : Int, defaultTTLSecs : Int,
              maxWriteRetries : Int]
Ignite    == [scheme : BOOLEAN, host : BOOLEAN, port : Int, cacheName : BOOLEAN,
              url : BOOLEAN, createOnStart : BOOLEAN]
Metrics   == [type : {"unset", "none", "influx"} \cup Other,
              influx : BOOLEAN, influxComplete : BOOLEAN,
              prometheus : BOOLEAN, prometheusPort : Int, prometheusNames : BOOLEAN]
Configuration ==
    [logLevel : LogLevels \cup Other, refererSamplingRate : Int,
     maxSize : Int, maxNumValues : Int, maxTTLSeconds : Int, maxHeaderSize : Int,
     allowPublicWrite : BOOLEAN, type : BackendTypes \cup Other,
     compression : CompressionTypes \cup Other,
     aerospike : Aerospike, cassandra : [defaultTTL : Int], memcache : [configHost : BOOLEAN],
     redis : [expirationMinutes : Int], ignite : Ignite, metrics : Metrics]

\* setConfigDefaults
DefaultAerospike ==
    [hostLength |-> 0, hosts |-> 0, port |-> 0, defaultTTLSecs |-> 0, maxWriteRetries |-> 0]
DefaultIgnite ==
    [scheme |-> FALSE, host |-> FALSE, port |-> 0, cacheName |-> FALSE, url |-> TRUE,
     createOnStart |-> FALSE]
DefaultMetrics ==
    [type |-> "unset", influx |-> FALSE, influxComplete |-> FALSE,
     prometheus |-> FALSE, prometheusPort |-> 0, prometheusNames |-> TRUE]
Default ==
    [logLevel |-> "info", refererSamplingRate |-> 0,
     maxSize |-> 10240, maxNumValues |-> 10, maxTTLSeconds |-> 3600, maxHeaderSize |-> 1048576,
     allowPublicWrite |-> TRUE, type |-> "memory", compression |-> "snappy",
     aerospike |-> DefaultAerospike,
     cassandra |-> [defaultTTL |-> CASSANDRA_DEFAULT_TTL_SECONDS],
     memcache |-> [configHost |-> FALSE],
     redis |-> [expirationMinutes |-> REDIS_DEFAULT_EXPIRATION_MINUTES],
     ignite |-> DefaultIgnite,
     metrics |-> DefaultMetrics]

\* RequestLimits.validateAndLog
ValidRequestLimits(cfg) ==
    cfg.maxTTLSeconds >= 0 /\ cfg.maxSize >= 0 /\ cfg.maxNumValues >= 0 /\ cfg.maxHeaderSize >= 0

\* RequestLogging.validateAndLog: a probability.
ValidRequestLogging(cfg) == cfg.refererSamplingRate \in 0..1

\* Aerospike.validateAndLog
ValidAerospike(aerospike) ==
    /\ aerospike.hostLength >= 1 \/ aerospike.hosts >= 1
    /\ aerospike.port > 0

\* An Ignite.validateAndLog that does not look at the cache.
ValidIgniteServer(ignite) == ignite.scheme /\ ignite.host

\* Ignite.validateAndLog: no text may be empty.
ValidIgnite(ignite) == ignite.scheme /\ ignite.host /\ ignite.cacheName

\* Backend.validateAndLog: the others have nothing to refuse.
ValidBackend(cfg) ==
    \/ cfg.type = "aerospike" /\ ValidAerospike(cfg.aerospike)
    \/ cfg.type = "ignite" /\ ValidIgnite(cfg.ignite)
    \/ cfg.type \in {"cassandra", "memcache", "redis", "memory"}

\* Compression.validateAndLog
ValidCompression(cfg) == cfg.compression \in CompressionTypes

\* Metrics.validateAndLog: what is enabled must be complete, and a metrics
\* system that is not supported must not be the only one.
ValidMetrics(metrics) ==
    LET influx == metrics.type = "influx" \/ metrics.influx IN
    /\ influx => metrics.influxComplete
    /\ metrics.prometheus => metrics.prometheusPort # 0
    /\ metrics.type \in {"none", "unset", "influx"} \/ influx \/ metrics.prometheus

Valid(cfg) ==
    /\ ValidRequestLimits(cfg) /\ ValidRequestLogging(cfg)
    /\ ValidBackend(cfg) /\ ValidCompression(cfg) /\ ValidMetrics(cfg.metrics)

\* A ValidateAndLog that works on a copy.
Unnormalised(cfg) == cfg

\* What Metrics.validateAndLog, Aerospike.validateAndLog and
\* Cassandra.validateAndLog correct.
NormalisedMetrics(metrics) == [metrics EXCEPT !.influx = @ \/ metrics.type = "influx"]
NormalisedAerospike(aerospike) ==
    [aerospike EXCEPT !.maxWriteRetries = IF @ < 0 THEN 0 ELSE @]
NormalisedCassandra(cassandra) ==
    [cassandra EXCEPT !.defaultTTL = IF @ < 0 THEN CASSANDRA_DEFAULT_TTL_SECONDS ELSE @]

\* What ValidateAndLog, which has a pointer receiver, leaves in cfg.
Normalised(cfg) ==
    [cfg EXCEPT
        !.metrics = NormalisedMetrics(@),
        !.aerospike = IF cfg.type = "aerospike" THEN NormalisedAerospike(@) ELSE @,
        !.cassandra = IF cfg.type = "cassandra" THEN NormalisedCassandra(@) ELSE @]
=============================================================================
