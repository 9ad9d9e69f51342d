------------------------------ MODULE MCStartup ------------------------------
(***************************************************************************)
(* Instances of Startup for TLC.  Each family of configurations varies the *)
(* settings that meet in one decision and leaves the others at their       *)
(* defaults.  Int32 has 14 bits here and thirty days are 5000 seconds, so  *)
(* that the milliseconds are within the integers of TLC; the order of the  *)
(* limits is that of the code: 2400 < 3600 < thirty days < now < 2^31.     *)
(***************************************************************************)
EXTENDS Startup

MCHalf       == 8192
MCThirtyDays == 5000
MCNow        == 8000

MaxTTLs == {-1, 0, 1, 59, 60, 61, 2400, 2401, 3600, 7200,
            MCThirtyDays, MCThirtyDays + 1, MCHalf, 2 * MCHalf - 3, 2 * MCHalf}
MCRequestTTLs == {0, 1, 60, 3600, MCThirtyDays, MCThirtyDays + 1, MCHalf,
                  2 * MCHalf - 3, 2 * MCHalf, 2 * MCHalf + 1}

\* A back-end of each type that validation accepts.
Complete(type, d) ==
    [d EXCEPT !.type = type,
              !.aerospike.hosts = 1, !.aerospike.port = 3000,
              !.ignite.scheme = TRUE, !.ignite.host = TRUE, !.ignite.cacheName = TRUE,
              !.ignite.port = 8080]

\* Every limit around the numbers it is compared with.
OfLimits ==
    {[Complete(t, Default) EXCEPT !.maxTTLSeconds = m] : t \in BackendTypes, m \in MaxTTLs}
    \cup {[Complete("aerospike", Default) EXCEPT !.maxTTLSeconds = m,
                                                !.aerospike.defaultTTLSecs = d] :
             m \in MaxTTLs, d \in {-1, 60}}
    \cup {[Complete("redis", Default) EXCEPT !.maxTTLSeconds = m,
                                            !.redis.expirationMinutes = d] :
             m \in MaxTTLs, d \in {-1, 0, 1}}
    \cup {[Default EXCEPT !.maxSize = -1], [Default EXCEPT !.maxNumValues = -1],
          [Default EXCEPT !.maxHeaderSize = -1], [Default EXCEPT !.refererSamplingRate = 2],
          [Default EXCEPT !.logLevel = "other"]}

\* What the constructors ask of a back-end, around what validation asks.
OfBackends ==
    {[Complete(t, Default) EXCEPT !.compression = c, !.memcache.configHost = h,
                                  !.ignite.createOnStart = h] :
        t \in BackendTypes \cup {"other"}, c \in {"none", "snappy", "other"}, h \in BOOLEAN}
    \cup {[Complete("aerospike", Default) EXCEPT !.aerospike.hostLength = l,
                                                !.aerospike.hosts = n, !.aerospike.port = p,
                                                !.aerospike.maxWriteRetries = w] :
             l \in 0..2, n \in 0..1, p \in -1..1, w \in -1..1}
    \cup {[Complete("ignite", Default) EXCEPT !.ignite.scheme = s, !.ignite.host = h,
                                             !.ignite.cacheName = n, !.ignite.port = p,
                                             !.ignite.url = u] :
             s \in BOOLEAN, h \in BOOLEAN, n \in BOOLEAN, p \in -1..1, u \in BOOLEAN}
    \cup {[Complete("cassandra", Default) EXCEPT !.cassandra.defaultTTL = -1],
          [Default EXCEPT !.allowPublicWrite = FALSE]}

\* Every way to ask for the metrics engines, and settings that are not complete.
OfEngines(type, influx, complete, prometheus, port, names) ==
    [Default EXCEPT !.metrics = [type |-> type, influx |-> influx, influxComplete |-> complete,
                                 prometheus |-> prometheus, prometheusPort |-> port,
                                 prometheusNames |-> names]]
OfMetrics ==
    {OfEngines(t, i, TRUE, p, 9100, TRUE) : t \in {"unset", "influx", "other"},
                                          i \in BOOLEAN, p \in BOOLEAN}
    \cup {OfEngines("none", FALSE, TRUE, FALSE, 0, TRUE)}
    \cup UNION {{OfEngines(t, FALSE, FALSE, TRUE, 9100, TRUE), OfEngines(t, FALSE, TRUE, TRUE, 0, TRUE),
                 OfEngines(t, FALSE, TRUE, TRUE, -1, TRUE), OfEngines(t, FALSE, TRUE, TRUE, 9100, FALSE)} :
                t \in {"unset", "influx"}}

MCConfigurations == OfLimits \cup OfBackends \cup OfMetrics

OfAerospike == {[Complete("aerospike", Default) EXCEPT !.aerospike.maxWriteRetries = 2]}
=============================================================================
