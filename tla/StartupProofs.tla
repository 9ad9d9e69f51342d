----------------------------- MODULE StartupProofs -----------------------------
(***************************************************************************)
(* For every configuration: what validation accepts can be built from, the *)
(* type assertion on the registry holds, a value lives within the limits,  *)
(* and the engines' series show exactly what was recorded.                 *)
(***************************************************************************)
EXTENDS Startup, SequenceTheorems, TLAPS

\* main has validated the configuration, and has not found it impossible.
Validated == {"measure", "create", "connect", "decorate", "route", "export", "listen",
              "scrape", "serve"}

\* main has created the engines.
Measured == Validated \ {"measure"}

\* What main knows of the configuration at each of its statements.
Known ==
    /\ cfg \in Configuration
    /\ pc \in Validated => ValidBackend(cfg) /\ ValidCompression(cfg) /\ cfg.maxTTLSeconds >= 0
    /\ pc \in Measured =>
          /\ engines = EngineList(cfg.metrics)
          /\ cfg.metrics.prometheus => cfg.metrics.prometheusNames
    /\ pc = "scrape" => cfg.metrics.prometheus

\* The Put that is followed was made with the configuration of the process.
PutMade ==
    put # NoPut =>
       /\ pc \in {"scrape", "serve", "panicked", "unbound"}
       /\ cfg.maxTTLSeconds >= 0
       /\ put.asked \in Nat
       /\ put.sent = LimitedTTL(GetMaxTTLSeconds(cfg), put.asked)
       /\ put.life = Life(cfg.type, put.sent)

Inv == Known /\ PutMade /\ ValidIsConstructible /\ PanicsOnlyOverNames
-----------------------------------------------------------------------------
(* The operators the model is built from. *)

LEMMA DefaultType == Default \in Configuration
<1>1. DefaultAerospike \in Aerospike
  BY DEF DefaultAerospike, Aerospike
<1>2. DefaultIgnite \in Ignite
  BY DEF DefaultIgnite, Ignite
<1>3. DefaultMetrics \in Metrics
  BY DEF DefaultMetrics, Metrics, Other
<1> QED
  BY <1>1, <1>2, <1>3, SMT
     DEF Default, Configuration, LogLevels, BackendTypes, CompressionTypes, Other,
         CASSANDRA_DEFAULT_TTL_SECONDS, REDIS_DEFAULT_EXPIRATION_MINUTES

\* What validation corrects is nothing it or the constructors look at.
LEMMA NormalisedConfiguration ==
    ASSUME NEW c \in Configuration
    PROVE  /\ Normalised(c) \in Configuration
           /\ ValidBackend(c) => ValidBackend(Normalised(c))
           /\ ValidCompression(c) => ValidCompression(Normalised(c))
           /\ Normalised(c).maxTTLSeconds = c.maxTTLSeconds
<1>1. NormalisedMetrics(c.metrics) \in Metrics
  <2>1. (c.metrics.influx \/ c.metrics.type = "influx") \in BOOLEAN /\ c.metrics \in Metrics
    BY SMT DEF Configuration
  <2>2. ASSUME NEW b \in BOOLEAN
        PROVE  [c.metrics EXCEPT !.influx = b] \in Metrics
    BY <2>1, SMT DEF Metrics
  <2> QED
    BY <2>1, <2>2 DEF NormalisedMetrics
<1>2. /\ NormalisedAerospike(c.aerospike) \in Aerospike /\ c.aerospike \in Aerospike
      /\ NormalisedAerospike(c.aerospike).hostLength = c.aerospike.hostLength
      /\ NormalisedAerospike(c.aerospike).hosts = c.aerospike.hosts
      /\ NormalisedAerospike(c.aerospike).port = c.aerospike.port
  BY SMT DEF NormalisedAerospike, Aerospike, Configuration
<1>3. NormalisedCassandra(c.cassandra) \in [defaultTTL : Int]
  BY SMT DEF NormalisedCassandra, Configuration, CASSANDRA_DEFAULT_TTL_SECONDS
<1>4. Normalised(c) \in Configuration
  <2> DEFINE a == IF c.type = "aerospike" THEN NormalisedAerospike(c.aerospike) ELSE c.aerospike
             d == IF c.type = "cassandra" THEN NormalisedCassandra(c.cassandra) ELSE c.cassandra
  <2>1. a \in Aerospike /\ d \in [defaultTTL : Int]
    BY <1>2, <1>3, SMT DEF Configuration
  <2>2. ASSUME NEW e \in Configuration, NEW m \in Metrics
        PROVE  [e EXCEPT !.metrics = m] \in Configuration
    BY Zenon DEF Configuration
  <2>3. ASSUME NEW e \in Configuration, NEW x \in Aerospike
        PROVE  [e EXCEPT !.aerospike = x] \in Configuration
    BY Zenon DEF Configuration
  <2>4. ASSUME NEW e \in Configuration, NEW x \in [defaultTTL : Int]
        PROVE  [e EXCEPT !.cassandra = x] \in Configuration
    BY Zenon DEF Configuration
  <2>5. [[[c EXCEPT !.metrics = NormalisedMetrics(c.metrics)]
             EXCEPT !.aerospike = a] EXCEPT !.cassandra = d] \in Configuration
    BY <1>1, <2>1, <2>2, <2>3, <2>4
  <2> QED
    BY <2>5, SMT DEF Normalised, Configuration
<1>5. /\ Normalised(c).type = c.type /\ Normalised(c).compression = c.compression
      /\ Normalised(c).ignite = c.ignite /\ Normalised(c).maxTTLSeconds = c.maxTTLSeconds
      /\ Normalised(c).aerospike \in {c.aerospike, NormalisedAerospike(c.aerospike)}
  BY SMT DEF Normalised, Configuration
<1> QED
  BY <1>2, <1>4, <1>5, SMT DEF ValidBackend, ValidCompression, ValidAerospike, ValidIgnite

LEMMA SecondOfTwo ==
    ASSUME NEW x, NEW y
    PROVE  2 \in DOMAIN (<<x>> \o <<y>>) /\ (<<x>> \o <<y>>)[2] = y
OBVIOUS

\* An engine that is enabled is in the list, whatever others are.
LEMMA PrometheusListed ==
    ASSUME NEW m, m.prometheus = TRUE
    PROVE  GetEngineRegistry(EngineList(m), "Prometheus") = "Prometheus"
<1>1. CASE m.influx
  <2>1. EngineList(m) = <<"InfluxDB">> \o <<"Prometheus">>
    BY <1>1 DEF EngineList
  <2> QED
    BY <2>1, SecondOfTwo DEF GetEngineRegistry
<1>2. CASE ~m.influx
  <2>1. EngineList(m) = <<"Prometheus">>
    BY <1>2 DEF EngineList
  <2> QED
    BY <2>1 DEF GetEngineRegistry
<1> QED
  BY <1>1, <1>2

LEMMA LimitType ==
    ASSUME NEW c \in Configuration
    PROVE  /\ BackendMaxTTL(c) \in Int /\ GetMaxTTLSeconds(c) \in Int
           /\ c.maxTTLSeconds = 0 => GetMaxTTLSeconds(c) = 0
           /\ c.maxTTLSeconds > 0 =>
                 LET limits == {limit \in {c.maxTTLSeconds, BackendMaxTTL(c)} : limit > 0} IN
                 /\ GetMaxTTLSeconds(c) \in limits
                 /\ \A limit \in limits : GetMaxTTLSeconds(c) <= limit
<1>1. BackendMaxTTL(c) \in Int /\ c.maxTTLSeconds \in Int
  BY DEF BackendMaxTTL, Configuration, Aerospike, CASSANDRA_DEFAULT_TTL_SECONDS
<1> QED
  BY <1>1 DEF GetMaxTTLSeconds

\* What the decorator passes on is positive and within its limit, and is what
\* was asked for when that is.
LEMMA SentWithinLimit ==
    ASSUME NEW max \in Int, NEW asked \in Nat
    PROVE  /\ EnforcedMaxTTL(max) \in Nat \ {0}
           /\ LimitedTTL(max, asked) \in 1..EnforcedMaxTTL(max)
           /\ asked \in 1..EnforcedMaxTTL(max) => LimitedTTL(max, asked) = asked
           /\ asked \notin 1..EnforcedMaxTTL(max) => LimitedTTL(max, asked) = EnforcedMaxTTL(max)
BY DEF LimitedTTL, EnforcedMaxTTL, REQUEST_MAX_TTL_SECONDS

\* A number that is small enough is its own remainder.
LEMMA SmallMod ==
    ASSUME NEW a \in Nat, NEW m \in Nat, a < m
    PROVE  a % m = a
OBVIOUS

\* A time to live that means the same to all means what it says.
LEMMA LifeIsSent ==
    ASSUME NEW type, NEW sent \in Nat \ {0}, type # "memory", SameToAll(type, sent)
    PROVE  Life(type, sent) = sent
<1>1. CASE type = "memcache"
  <2>1. sent <= ThirtyDays /\ sent + Half \in Nat /\ sent + Half < 2 * Half
    BY <1>1, TimeAssumption DEF SameToAll
  <2>2. (sent + Half) % (2 * Half) = sent + Half
    BY <2>1, SmallMod, TimeAssumption
  <2>3. Int32(sent) = sent
    BY <2>2, TimeAssumption DEF Int32
  <2> QED
    BY <1>1, <2>1, <2>3 DEF Life, MemcachedLife
<1>2. CASE type = "aerospike"
  <2>1. sent <= 2 * Half - 3
    BY <1>2 DEF SameToAll
  <2>2. UInt32(sent) = sent
    BY <2>1, SmallMod, TimeAssumption DEF UInt32
  <2> QED
    BY <1>2, <2>1, <2>2, TimeAssumption DEF Life, AerospikeLife
<1>3. CASE type = "ignite"
  BY <1>3 DEF Life, IgniteExp
<1>4. CASE type \notin {"memcache", "aerospike", "ignite"}
  BY <1>4 DEF Life
<1> QED
  BY <1>1, <1>2, <1>3, <1>4

\* A remainder is below the modulus, and not above the number.
LEMMA ModBounds ==
    ASSUME NEW a \in Nat, NEW m \in Nat \ {0}
    PROVE  a % m \in 0..(m - 1)
OBVIOUS

\* A time to live that does not is another: it is cut to 32 bits, or taken for a
\* date in the past, or for one that comes sooner, or means for ever.
LEMMA LifeIsAnother ==
    ASSUME NEW type, NEW sent \in Nat \ {0}, ~SameToAll(type, sent)
    PROVE  Life(type, sent) # sent
<1>1. 2 * Half \in Nat \ {0} /\ sent + Half \in Nat /\ Forever # sent /\ Half \in Nat
  BY TimeAssumption DEF Forever
<1>2. CASE type = "memcache"
  <2>1. sent > ThirtyDays
    BY <1>2, TimeAssumption DEF SameToAll
  <2>2. Int32(sent) \in Int /\ Int32(sent) < Half
    <3>1. (sent + Half) % (2 * Half) \in 0..(2 * Half - 1)
      BY <1>1, ModBounds
    <3> QED
      BY <1>1, <3>1 DEF Int32
  <2>3. Int32(sent) > ThirtyDays => Int32(sent) <= sent
    <3>1. CASE sent < Half
      <4>1. (sent + Half) % (2 * Half) = sent + Half
        BY <1>1, <3>1, SmallMod
      <4> QED
        BY <1>1, <4>1 DEF Int32
    <3>2. CASE sent >= Half
      BY <1>1, <2>2, <3>2
    <3> QED
      BY <1>1, <3>1, <3>2
  <2>4. MemcachedLife(Int32(sent)) # sent
    BY <1>1, <2>1, <2>2, <2>3, TimeAssumption DEF MemcachedLife
  <2> QED
    BY <1>2, <2>4 DEF Life
<1>3. CASE type = "aerospike"
  <2>1. sent > 2 * Half - 3
    BY <1>1, <1>3 DEF SameToAll
  <2>2. UInt32(sent) \in 0..(2 * Half - 1)
    BY <1>1, ModBounds DEF UInt32
  <2>3. AerospikeLife(UInt32(sent)) # sent
    BY <1>1, <2>1, <2>2 DEF AerospikeLife
  <2> QED
    BY <1>3, <2>3 DEF Life
<1> QED
  BY <1>2, <1>3 DEF SameToAll
-----------------------------------------------------------------------------
(* The steps. *)

LEMMA InitInv == Init => Inv
BY DefaultType
   DEF Init, Inv, Known, PutMade, ValidIsConstructible, PanicsOnlyOverNames, Validated, Measured,
       Built

\* A step of main that moves on without touching what it knows.
LEMMA MovesOn ==
    ASSUME Inv, UNCHANGED <<cfg, engines, put>>,
           pc' \in Validated => pc \in Validated,
           pc' \in Measured => pc \in Measured,
           pc' = "scrape" => cfg.metrics.prometheus,
           pc' \in {"unconstructible", "panicked"} => pc' = pc,
           pc' \in Built => pc \in Built,
           put # NoPut => pc' \in {"scrape", "serve", "panicked", "unbound"}
    PROVE  Inv'
BY DEF Inv, Known, PutMade, ValidIsConstructible, PanicsOnlyOverNames, Unusable

LEMMA InvStep == Inv /\ [Next]_vars => Inv'
<1> SUFFICES ASSUME Inv, [Next]_vars PROVE Inv'
  OBVIOUS
<1> USE DEF Validated, Measured, Built
<1>1. CASE NewConfig
  <2>1. put = NoPut /\ cfg' \in Configuration /\ pc' \in {"level", "unreadable"} /\ put' = put
    BY <1>1, DefaultType, StartupAssumption DEF NewConfig, Inv, Known, PutMade
  <2> QED
    BY <2>1 DEF Inv, Known, PutMade, ValidIsConstructible, PanicsOnlyOverNames
<1>2. CASE SetLogLevel
  BY <1>2, MovesOn DEF SetLogLevel, Inv, PutMade
<1>3. CASE ValidateAndLog
  <2>1. CASE Valid(cfg) /\ pc' = "measure" /\ cfg' = Normalised(cfg)
    <3>1. put = NoPut /\ put' = NoPut
      BY <1>3 DEF ValidateAndLog, Inv, PutMade
    <3> QED
      BY <2>1, <3>1, NormalisedConfiguration
         DEF Inv, Known, PutMade, ValidIsConstructible, PanicsOnlyOverNames, Valid,
             ValidRequestLimits
  <2>2. CASE pc' = "invalid" /\ UNCHANGED cfg
    BY <1>3, <2>2, MovesOn DEF ValidateAndLog, Inv, PutMade
  <2> QED
    BY <1>3, <2>1, <2>2 DEF ValidateAndLog
<1>4. CASE CreateMetrics
  <2>1. put = NoPut /\ put' = NoPut /\ cfg' = cfg /\ pc = "measure"
    BY <1>4 DEF CreateMetrics, Inv, PutMade
  <2>2. CASE pc' = "create"
    BY <1>4, <2>1, <2>2
       DEF CreateMetrics, Inv, Known, PutMade, ValidIsConstructible, PanicsOnlyOverNames
  <2>3. CASE pc' = "panicked"
    BY <1>4, <2>1, <2>3
       DEF CreateMetrics, Inv, Known, PutMade, ValidIsConstructible, PanicsOnlyOverNames
  <2> QED
    BY <1>4, <2>2, <2>3 DEF CreateMetrics
<1>5. CASE NewBaseBackend
  <2>1. put = NoPut /\ put' = NoPut /\ UNCHANGED <<cfg, engines>> /\ pc = "create"
    BY <1>5 DEF NewBaseBackend, Inv, PutMade
  <2>2. CASE Constructible
    <3>1. ~Unusable /\ ~Unusable'
      BY <2>1, <2>2
         DEF Unusable, Constructible, HasIgniteAddress, ParsesURL, HasAerospikeHosts, Inv, Known,
             Configuration, Aerospike, Ignite
    <3>2. pc' \in {"connect", "decorate"}
      BY <1>5, <2>2 DEF NewBaseBackend
    <3> QED
      BY <2>1, <3>1, <3>2 DEF Inv, Known, PutMade, ValidIsConstructible, PanicsOnlyOverNames
  <2>3. CASE ~Constructible
    <3>1. ValidBackend(cfg) /\ pc' = "unconstructible" /\ cfg \in Configuration
      BY <1>5, <2>1, <2>3 DEF NewBaseBackend, Inv, Known
    <3>2. ValidIsConstructible'
      BY <2>1, <2>3, <3>1
         DEF ValidIsConstructible, Unusable, Constructible, HasIgniteAddress, ParsesURL,
             ValidBackend, ValidAerospike, ValidIgnite, HasAerospikeHosts, Configuration,
             Aerospike, Ignite
    <3> QED
      BY <2>1, <3>1, <3>2 DEF Inv, Known, PutMade, PanicsOnlyOverNames
  <2> QED
    BY <2>2, <2>3
<1>6. CASE Connect
  BY <1>6, MovesOn DEF Connect, Inv, PutMade
<1>7. CASE Decorate
  BY <1>7, MovesOn DEF Decorate, Inv, PutMade, Known, ValidCompression, CompressionTypes
<1>8. CASE NewHandlers \/ GoExport
  BY <1>8, MovesOn DEF NewHandlers, GoExport, Inv, PutMade
<1>9. CASE Listen
  BY <1>9, MovesOn DEF Listen, Inv, PutMade
<1>10. CASE ListenPrometheus
  <2>1. pc = "scrape" /\ UNCHANGED <<cfg, engines, put>>
    BY <1>10 DEF ListenPrometheus
  <2>2. cfg.metrics.prometheus = TRUE /\ engines = EngineList(cfg.metrics)
    BY <2>1 DEF Inv, Known, Configuration, Metrics
  <2>3. GetEngineRegistry(engines, "Prometheus") = "Prometheus"
    BY <2>2, PrometheusListed
  <2>4. pc' \in {"serve", "unbound"}
    BY <1>10, <2>3 DEF ListenPrometheus
  <2> QED
    BY <2>1, <2>4, MovesOn
<1>11. CASE Put
  <2>1. PICK ttl \in RequestTTLs :
          LET sent == LimitedTTL(GetMaxTTLSeconds(cfg), ttl) IN
          put' = [asked |-> ttl, sent |-> sent, life |-> Life(cfg.type, sent),
                   retries |-> PutWriteRetries]
    BY <1>11 DEF Put
  <2>2. pc \in {"scrape", "serve"} /\ UNCHANGED <<pc, cfg, engines>>
    BY <1>11 DEF Put, Serving
  <2>3. PutMade'
    <3>1. ttl \in Nat
      BY StartupAssumption
    <3> QED
      BY <2>1, <2>2, <3>1 DEF PutMade, Inv, Known
  <2> QED
    BY <2>2, <2>3 DEF Inv, Known, ValidIsConstructible, PanicsOnlyOverNames, Unusable
<1>12. CASE Export
  BY <1>12, MovesOn DEF Export, Inv, PutMade, Known
<1>13. ASSUME NEW event \in Event, Record(event) PROVE Inv'
  BY <1>13, MovesOn DEF Record, Inv, PutMade, Known
<1>14. CASE UNCHANGED vars
  BY <1>14, MovesOn DEF vars, Inv, PutMade, Known
<1> QED
  BY <1>1, <1>2, <1>3, <1>4, <1>5, <1>6, <1>7, <1>8, <1>9, <1>10, <1>11, <1>12, <1>13, <1>14
     DEF Next, Main
-----------------------------------------------------------------------------
(* The theorems. *)

\* The inductive invariant holds in every reachable state.
THEOREM Invariant == Spec => []Inv
BY InitInv, InvStep, PTL DEF Spec

\* What validation accepts can be built from, but for an Ignite port, an Ignite
\* address and an Aerospike host (backends/config/config.go:51-73,
\* backends/ignite.go:85-97, config/backends.go:19-39).
THEOREM ValidConstructs == Spec => []ValidIsConstructible
<1>1. Inv => ValidIsConstructible
  BY DEF Inv
<1> QED
  BY <1>1, Invariant, PTL

\* The start panics over the names of metrics alone (server/server.go:59).
THEOREM NamesPanic == Spec => []PanicsOnlyOverNames
<1>1. Inv => PanicsOnlyOverNames
  BY DEF Inv
<1> QED
  BY <1>1, Invariant, PTL

\* What a Put sends, in terms of the limits its configuration sets.
LEMMA InvSent ==
    ASSUME Inv, put # NoPut
    PROVE  /\ put.sent \in Nat \ {0} /\ Limits # {}
           /\ \A limit \in Limits : put.sent \in 1..limit
           /\ (\A limit \in Limits : put.asked \in 1..limit) => put.sent = put.asked
           /\ (\E limit \in Limits : put.asked \notin 1..limit) => put.sent \in Limits
<1> DEFINE max == GetMaxTTLSeconds(cfg)
           limit == EnforcedMaxTTL(max)
<1> HIDE DEF max, limit
<1>1. /\ cfg \in Configuration /\ cfg.maxTTLSeconds >= 0 /\ put.asked \in Nat
      /\ put.sent = LimitedTTL(max, put.asked)
  BY DEF Inv, Known, PutMade, max
<1>2. cfg.maxTTLSeconds \in Int /\ max \in Int /\ BackendMaxTTL(cfg) \in Int
  BY <1>1, LimitType DEF Configuration, max
<1>3. limit \in Limits /\ \A l \in Limits : l \in Int /\ limit <= l
  <2>1. CASE cfg.maxTTLSeconds = 0
    BY <1>1, <2>1, LimitType DEF EnforcedMaxTTL, Limits, REQUEST_MAX_TTL_SECONDS, max, limit
  <2>2. CASE cfg.maxTTLSeconds > 0
    <3>1. Limits = {l \in {cfg.maxTTLSeconds, BackendMaxTTL(cfg)} : l > 0}
      BY <1>2, <2>2 DEF Limits
    <3>2. max \in Limits /\ \A l \in Limits : max <= l
      BY <1>1, <2>2, <3>1, LimitType DEF max
    <3> QED
      BY <1>2, <3>1, <3>2 DEF EnforcedMaxTTL, limit
  <2> QED
    BY <1>1, <1>2, <2>1, <2>2
<1>4. /\ limit \in Nat \ {0} /\ put.sent \in 1..limit
      /\ put.asked \in 1..limit => put.sent = put.asked
      /\ put.asked \notin 1..limit => put.sent = limit
  <2>1. /\ EnforcedMaxTTL(max) \in Nat \ {0}
        /\ LimitedTTL(max, put.asked) \in 1..EnforcedMaxTTL(max)
        /\ put.asked \in 1..EnforcedMaxTTL(max) => LimitedTTL(max, put.asked) = put.asked
        /\ put.asked \notin 1..EnforcedMaxTTL(max) => LimitedTTL(max, put.asked) = EnforcedMaxTTL(max)
    BY <1>1, <1>2, SentWithinLimit, Zenon
  <2> QED
    BY <1>1, <2>1, Zenon DEF limit
<1> QED
  BY <1>1, <1>3, <1>4

\* The limits hold, whatever they are, and a time to live within them is kept
\* (backends/config/config.go:75-107, decorators/limit_ttls.go:20-44).
THEOREM LimitsHold == Spec => []TighterLimitHolds
<1>1. Inv => TighterLimitHolds
  BY InvSent DEF TighterLimitHolds
<1> QED
  BY <1>1, Invariant, PTL

\* A value lives within the limits, and as long as asked within them, for exactly
\* the numbers the adapters and servers understand alike, every width of the
\* integers and every number Memcached takes for thirty days
\* (backends/memcache.go:36-40, backends/aerospike.go:176-180).
THEOREM LifeHolds == Spec => []LifeWithinLimit
<1>1. Inv => LifeWithinLimit
  <2> SUFFICES ASSUME Inv, put # NoPut, cfg.type # "memory"
               PROVE  IF SameToAll(cfg.type, put.sent)
                      THEN /\ \A limit \in Limits : put.life \in 1..limit
                           /\ (\A limit \in Limits : put.asked \in 1..limit) =>
                                 put.life = put.asked
                      ELSE put.life # put.sent
    BY DEF LifeWithinLimit
  <2>1. put.life = Life(cfg.type, put.sent) /\ put.sent \in Nat \ {0}
    BY InvSent DEF Inv, PutMade
  <2>2. CASE SameToAll(cfg.type, put.sent)
    <3>1. put.life = put.sent
      BY <2>1, <2>2, LifeIsSent
    <3> QED
      BY <2>2, <3>1, InvSent
  <2>3. CASE ~SameToAll(cfg.type, put.sent)
    BY <2>1, <2>3, LifeIsAnother
  <2> QED
    BY <2>2, <2>3
<1> QED
  BY <1>1, Invariant, PTL
-----------------------------------------------------------------------------
(* The metrics. *)

\* Every metric has its series in both engines, and no two share one, except
\* that InfluxDB has one gauge for the connections opened and closed.
LEMMA SeriesRegistered ==
    ASSUME NEW e \in {"InfluxDB", "Prometheus"}, NEW event \in Event
    PROVE  SeriesOf(e, event) \in DOMAIN Registered(e)
<1>1. InfluxSeries[event] \in InfluxRegistered
  BY DEF Event, InfluxSeries, InfluxRegistered, InfluxEntryGet
<1>2. PrometheusSeries[event] \in PrometheusUnlabelled \cup Preloaded
  BY DEF Event, InfluxSeries, PrometheusSeries, PrometheusUnlabelled, Preloaded
<1> QED
  BY <1>1, <1>2 DEF SeriesOf, Registered

LEMMA InfluxDistinct ==
    \A a, b \in Event : InfluxSeries[a] = InfluxSeries[b] =>
       a = b \/ {a, b} = {"ConnectionOpen", "ConnectionClosed"}
BY DEF Event, InfluxSeries

LEMMA PrometheusDistinct ==
    \A a, b \in Event : PrometheusSeries[a] = PrometheusSeries[b] => a = b
BY DEF Event, InfluxSeries, PrometheusSeries

LEMMA ConnectionEvents ==
    /\ "ConnectionOpen" \in Event /\ "ConnectionClosed" \in Event
    /\ InfluxSeries["ConnectionOpen"] = InfluxSeries["ConnectionClosed"]
BY DEF Event, InfluxSeries

LEMMA TwoInOrder == ASSUME NEW x, NEW y PROVE <<x>> \o <<y>> = <<x, y>>
<1>1. /\ <<x>> \o <<y>> \in Seq({x, y}) /\ Len(<<x>> \o <<y>>) = 2
      /\ (<<x>> \o <<y>>)[1] = x /\ (<<x>> \o <<y>>)[2] = y
  OBVIOUS
<1>2. /\ <<x, y>> \in Seq({x, y}) /\ Len(<<x, y>>) = 2
      /\ <<x, y>>[1] = x /\ <<x, y>>[2] = y
  OBVIOUS
<1>3. \A i \in 1..2 : (<<x>> \o <<y>>)[i] = <<x, y>>[i]
  <2>1. \A i \in 1..2 : i = 1 \/ i = 2
    OBVIOUS
  <2> QED
    BY <1>1, <1>2, <2>1, Zenon
<1>4. \A s, t \in Seq({x, y}) :
         Len(s) = Len(t) /\ (\A i \in 1..Len(s) : s[i] = t[i]) => s = t
  BY SeqEqual
<1> QED
  BY <1>1, <1>2, <1>3, <1>4, Zenon

LEMMA EmptyAround == ASSUME NEW x PROVE <<x>> \o <<>> = <<x>> /\ <<>> \o <<x>> = <<x>>
OBVIOUS

LEMMA EmptyTwice == <<>> \o <<>> = <<>>
OBVIOUS

LEMMA EngineLists ==
    ASSUME NEW m \in Metrics
    PROVE  EngineList(m) \in {<<>>, <<"InfluxDB">>, <<"Prometheus">>,
                              <<"InfluxDB", "Prometheus">>}
<1>1. m.influx \in BOOLEAN /\ m.prometheus \in BOOLEAN
  BY DEF Metrics
<1>2. EngineList(m) = IF m.influx
                      THEN IF m.prometheus THEN <<"InfluxDB">> \o <<"Prometheus">>
                                           ELSE <<"InfluxDB">> \o <<>>
                      ELSE IF m.prometheus THEN <<>> \o <<"Prometheus">> ELSE <<>> \o <<>>
  BY <1>1, Zenon DEF EngineList
<1> QED
  BY <1>1, <1>2, TwoInOrder, EmptyAround, EmptyTwice, Zenon

\* What an engine should show of an event.
Expected(e, event) ==
    IF e = "InfluxDB" /\ event \in {"ConnectionOpen", "ConnectionClosed"}
    THEN recorded["ConnectionOpen"] - recorded["ConnectionClosed"]
    ELSE recorded[event]

\* A method of one engine adds to one series of it.
LEMMA RecordedShape ==
    ASSUME NEW e, NEW f, NEW event, SeriesOf(e, event) \in DOMAIN f
    PROVE  /\ DOMAIN Recorded(e, f, event) = DOMAIN f
           /\ \A s \in DOMAIN f :
                 Recorded(e, f, event)[s] =
                    IF s = SeriesOf(e, event) THEN f[s] + Step(e, event) ELSE f[s]
BY DEF Recorded

\* The engines are created before anything is recorded, with the series they
\* will have, and a connection is not closed before it is opened.
Unmeasured == {"read", "level", "validate", "measure", "unreadable", "badLevel", "invalid"}

EnginesFixed ==
    /\ engines \in {<<>>, <<"InfluxDB">>, <<"Prometheus">>, <<"InfluxDB", "Prometheus">>}
    /\ \A e \in DOMAIN series : DOMAIN series[e] = DOMAIN Registered(e)
    /\ recorded["ConnectionClosed"] <= recorded["ConnectionOpen"]
    /\ pc \in Unmeasured => /\ engines = <<>> /\ export = 0
                            /\ \A event \in Event : recorded[event] = 0
SeriesInv == TypeOK /\ SeriesExact /\ EnginesFixed

Statement == Ended \cup {"read", "level", "validate", "measure", "create", "connect",
                         "decorate", "route", "export", "listen", "scrape", "serve"}

PutTyped ==
    /\ \A x \in {"asked", "sent", "retries"} : put[x] \in Nat
    /\ put.life \in Nat \cup {Forever}

\* SeriesExact, by the names of the engines.
LEMMA ByName ==
    ASSUME DOMAIN series = {engines[i] : i \in DOMAIN engines}
    PROVE  SeriesExact <=> \A e \in DOMAIN series : \A event \in Event :
                              Reading(e, series[e], event) = Expected(e, event)
BY DEF SeriesExact, Expected

LEMMA EngineNames == TypeOK => DOMAIN series \subseteq {"InfluxDB", "Prometheus"}
BY DEF TypeOK

LEMMA LifeType ==
    ASSUME NEW type, NEW sent \in Nat PROVE Life(type, sent) \in Nat \cup {Forever}
<1>1. Int32(sent) \in Int /\ UInt32(sent) \in Nat
  <2>1. 2 * Half \in Nat \ {0} /\ sent + Half \in Nat
    BY TimeAssumption
  <2>2. \A a \in Nat, m \in Nat \ {0} : a % m \in Nat
    OBVIOUS
  <2>3. (sent + Half) % (2 * Half) \in Nat /\ sent % (2 * Half) \in Nat
    BY <2>1, <2>2
  <2> QED
    BY <2>3, TimeAssumption DEF Int32, UInt32
<1>2. MemcachedLife(Int32(sent)) \in Nat \cup {Forever}
  BY <1>1, TimeAssumption DEF MemcachedLife
<1>3. AerospikeLife(UInt32(sent)) \in Nat \cup {Forever}
  BY <1>1 DEF AerospikeLife
<1>4. IgniteExp(sent) \div 1000 \in Nat
  BY DEF IgniteExp
<1> QED
  BY <1>2, <1>3, <1>4 DEF Life

\* A step that leaves the engines and what was recorded alone.
LEMMA SeriesStay ==
    ASSUME SeriesInv, cfg' \in Configuration, UNCHANGED <<engines, series, recorded>>,
           pc' \in Statement, pc' \in Unmeasured => pc \in Unmeasured /\ export' = export,
           export' \in 0..(Len(engines) + 1), registry' \in {"unset", "Prometheus"}, PutTyped'
    PROVE  SeriesInv'
<1>1. TypeOK'
  BY DEF SeriesInv, TypeOK, Statement, PutTyped
<1>2. SeriesExact'
  BY DEF SeriesInv, SeriesExact
<1>3. EnginesFixed'
  BY DEF SeriesInv, EnginesFixed
<1> QED
  BY <1>1, <1>2, <1>3 DEF SeriesInv

LEMMA CreateMetricsSeries ==
    ASSUME SeriesInv, cfg \in Configuration, CreateMetrics, pc' = "create" PROVE SeriesInv'
<1>1. /\ UNCHANGED <<cfg, export, registry, put, recorded>> /\ pc = "measure"
      /\ engines' = EngineList(cfg.metrics)
      /\ series' = [e \in {engines'[i] : i \in DOMAIN engines'} |-> Registered(e)]
  BY DEF CreateMetrics
<1>2. /\ engines' \in {<<>>, <<"InfluxDB">>, <<"Prometheus">>, <<"InfluxDB", "Prometheus">>}
      /\ engines' \in Seq({"InfluxDB", "Prometheus"})
  <2>1. cfg.metrics \in Metrics
    BY DEF Configuration
  <2>2. engines' \in {<<>>, <<"InfluxDB">>, <<"Prometheus">>, <<"InfluxDB", "Prometheus">>}
    BY <1>1, <2>1, EngineLists, Zenon
  <2>3. \A q \in {<<>>, <<"InfluxDB">>, <<"Prometheus">>, <<"InfluxDB", "Prometheus">>} :
           q \in Seq({"InfluxDB", "Prometheus"})
    <3>1. /\ <<>> \in Seq({"InfluxDB", "Prometheus"})
          /\ <<"InfluxDB">> \in Seq({"InfluxDB", "Prometheus"})
          /\ <<"Prometheus">> \in Seq({"InfluxDB", "Prometheus"})
          /\ <<"InfluxDB", "Prometheus">> \in Seq({"InfluxDB", "Prometheus"})
      OBVIOUS
    <3> QED
      BY <3>1, Zenon
  <2> QED
    BY <2>2, <2>3, Zenon
<1>3. /\ DOMAIN series' = {engines'[i] : i \in DOMAIN engines'}
      /\ \A e \in DOMAIN series' : series'[e] = Registered(e)
      /\ DOMAIN series' \subseteq {"InfluxDB", "Prometheus"}
  BY <1>1, <1>2
<1>4. /\ export = 0 /\ (\A event \in Event : recorded[event] = 0)
      /\ recorded["ConnectionClosed"] <= recorded["ConnectionOpen"]
  BY <1>1 DEF SeriesInv, EnginesFixed, Unmeasured
<1>5. TypeOK'
  <2>1. \A e \in DOMAIN series' : series'[e] \in [DOMAIN series'[e] -> Nat]
    <3>1. \A e : Registered(e) \in [DOMAIN Registered(e) -> Nat]
      BY DEF Registered
    <3> QED
      BY <1>3, <3>1
  <2>2. export' \in 0..(Len(engines') + 1)
    BY <1>1, <1>2, <1>4
  <2> QED
    BY <1>1, <1>2, <1>3, <2>1, <2>2 DEF SeriesInv, TypeOK, Ended
<1>6. SeriesExact'
  <2>1. ASSUME NEW i \in DOMAIN engines', NEW event \in Event
        PROVE  Reading(engines'[i], series'[engines'[i]], event) = 0
    <3>1. SeriesOf(engines'[i], event) \in DOMAIN Registered(engines'[i])
      BY <1>3, SeriesRegistered
    <3>2. \A s \in DOMAIN Registered(engines'[i]) : Registered(engines'[i])[s] = 0
      BY DEF Registered
    <3> QED
      BY <1>3, <3>1, <3>2 DEF Reading
  <2>2. ASSUME NEW e, NEW event \in Event PROVE Expected(e, event)' = 0
    BY <1>1, <1>4, ConnectionEvents DEF Expected
  <2> QED
    BY <2>1, <2>2 DEF SeriesExact, Expected
<1>7. EnginesFixed'
  BY <1>1, <1>2, <1>3, <1>4 DEF EnginesFixed, Unmeasured
<1> QED
  BY <1>5, <1>6, <1>7 DEF SeriesInv

LEMMA RecordSeries ==
    ASSUME SeriesInv, cfg \in Configuration, NEW event \in Event, Record(event)
    PROVE  SeriesInv' /\ \A e \in DOMAIN series : DOMAIN series'[e] = DOMAIN series[e]
<1>1. /\ UNCHANGED <<pc, cfg, engines, export, registry, put>> /\ pc \in {"scrape", "serve"}
      /\ event = "ConnectionClosed" => recorded[event] < recorded["ConnectionOpen"]
      /\ series' = [e \in DOMAIN series |-> Recorded(e, series[e], event)]
      /\ recorded' = [recorded EXCEPT ![event] = @ + 1]
  BY DEF Record, Serving
<1>t. TypeOK /\ EnginesFixed /\ DOMAIN series' = DOMAIN series
  BY <1>1 DEF SeriesInv
<1>2. /\ recorded' \in [Event -> Nat] /\ recorded \in [Event -> Nat]
      /\ recorded'[event] = recorded[event] + 1
      /\ \A b \in Event : b # event => recorded'[b] = recorded[b]
  BY <1>1, <1>t DEF TypeOK
<1>3. ASSUME NEW e \in DOMAIN series
      PROVE  /\ DOMAIN series'[e] = DOMAIN series[e]
             /\ \A b \in Event : SeriesOf(e, b) \in DOMAIN series[e]
             /\ \A s \in DOMAIN series[e] : series'[e][s] =
                   IF s = SeriesOf(e, event) THEN series[e][s] + Step(e, event) ELSE series[e][s]
  <2>1. \A b \in Event : SeriesOf(e, b) \in DOMAIN series[e]
    BY <1>t, EngineNames, SeriesRegistered DEF EnginesFixed
  <2> QED
    BY <1>1, <2>1, RecordedShape
<1>4. \A e \in DOMAIN series : \A b \in Event : Reading(e, series[e], b) = Expected(e, b)
  BY <1>t, ByName DEF SeriesInv, TypeOK
<1>5. ASSUME NEW e \in DOMAIN series PROVE series'[e] \in [DOMAIN series'[e] -> Nat]
  <2>1. series[e] \in [DOMAIN series[e] -> Nat]
    BY <1>t DEF TypeOK
  <2>2. series[e][SeriesOf(e, event)] + Step(e, event) \in Nat
    <3>1. CASE e = "InfluxDB" /\ event = "ConnectionClosed"
      <4>1. series[e][SeriesOf(e, event)] = recorded["ConnectionOpen"] - recorded["ConnectionClosed"]
        BY <1>4, <3>1 DEF Reading, Expected
      <4> QED
        BY <1>1, <1>2, <3>1, <4>1, ConnectionEvents DEF Step
    <3>2. CASE ~(e = "InfluxDB" /\ event = "ConnectionClosed")
      BY <1>3, <2>1, <3>2 DEF Step
    <3> QED
      BY <3>1, <3>2
  <2>3. \A s \in DOMAIN series[e] : series'[e][s] \in Nat
    BY <1>3, <2>1, <2>2
  <2>4. series'[e] = [s \in DOMAIN series'[e] |-> series'[e][s]]
    BY <1>1 DEF Recorded
  <2> QED
    BY <1>3, <2>3, <2>4
<1>6. TypeOK'
  <2>1. \A e \in DOMAIN series' : series'[e] \in [DOMAIN series'[e] -> Nat]
    BY <1>5, <1>t
  <2>2. UNCHANGED <<pc, cfg, engines, export, registry, put>> /\ DOMAIN series' = DOMAIN series
    BY <1>1, <1>t
  <2> QED
    BY <1>2, <1>t, <2>1, <2>2, Zenon DEF TypeOK
<1>7. ASSUME NEW e \in DOMAIN series, NEW b \in Event
      PROVE  Reading(e, series'[e], b) = Expected(e, b)'
  <2>1. Reading(e, series[e], b) = Expected(e, b)
    BY <1>4
  <2>2. CASE e = "InfluxDB"
    <3>1. SeriesOf(e, b) = SeriesOf(e, event) =>
             b = event \/ {b, event} = {"ConnectionOpen", "ConnectionClosed"}
      BY <2>2, InfluxDistinct DEF SeriesOf
    <3>2. CASE event \in {"ConnectionOpen", "ConnectionClosed"} /\ b \in {"ConnectionOpen", "ConnectionClosed"}
      <4>1. SeriesOf(e, b) = SeriesOf(e, event)
        BY <2>2, <3>2, ConnectionEvents DEF SeriesOf
      <4>2. Reading(e, series'[e], b) = Reading(e, series[e], b) + Step(e, event)
        BY <1>3, <4>1 DEF Reading
      <4>3. recorded'["ConnectionOpen"] - recorded'["ConnectionClosed"]
               = recorded["ConnectionOpen"] - recorded["ConnectionClosed"] + Step(e, event)
        BY <1>2, <2>2, <3>2, ConnectionEvents DEF Step
      <4> QED
        BY <2>1, <2>2, <3>2, <4>2, <4>3 DEF Expected
    <3>3. CASE b = event /\ event \notin {"ConnectionOpen", "ConnectionClosed"}
      BY <1>2, <1>3, <2>1, <3>3 DEF Reading, Expected, Step
    <3>4. CASE b # event /\ ~(event \in {"ConnectionOpen", "ConnectionClosed"}
                               /\ b \in {"ConnectionOpen", "ConnectionClosed"})
      <4>1. SeriesOf(e, b) # SeriesOf(e, event)
        BY <3>1, <3>4
      <4>2. Reading(e, series'[e], b) = Reading(e, series[e], b)
        BY <1>3, <4>1 DEF Reading
      <4>3. Expected(e, b)' = Expected(e, b)
        BY <1>2, <3>4, ConnectionEvents DEF Expected
      <4> QED
        BY <2>1, <4>2, <4>3
    <3> QED
      BY <3>2, <3>3, <3>4
  <2>3. CASE e # "InfluxDB"
    <3>1. SeriesOf(e, b) = SeriesOf(e, event) <=> b = event
      BY <2>3, PrometheusDistinct DEF SeriesOf
    <3> QED
      BY <1>2, <1>3, <2>1, <2>3, <3>1 DEF Reading, Expected, Step
  <2> QED
    BY <2>2, <2>3
<1>8. SeriesExact'
  <2>1. \A i \in DOMAIN engines : engines[i] \in DOMAIN series
    BY <1>t DEF TypeOK
  <2> QED
    BY <1>1, <1>7, <2>1 DEF SeriesExact, Expected
<1>9. EnginesFixed'
  <2>1. recorded'["ConnectionClosed"] <= recorded'["ConnectionOpen"]
    BY <1>1, <1>2, <1>t, ConnectionEvents DEF EnginesFixed
  <2> QED
    BY <1>1, <1>3, <1>t, <2>1 DEF EnginesFixed, Unmeasured
<1> QED
  BY <1>3, <1>6, <1>8, <1>9 DEF SeriesInv

\* No step but the creation of the engines and Record touches the series.
LEMMA SeriesStep ==
    ASSUME Inv, SeriesInv, [Next]_vars
    PROVE  SeriesInv' /\ \A e \in DOMAIN series : DOMAIN series'[e] = DOMAIN series[e]
<1> DEFINE Fixed == \A e \in DOMAIN series : DOMAIN series'[e] = DOMAIN series[e]
<1>0. /\ cfg \in Configuration /\ cfg' \in Configuration /\ TypeOK /\ PutTyped /\ pc \in Statement
      /\ export \in 0..(Len(engines) + 1) /\ registry \in {"unset", "Prometheus"}
  BY InvStep DEF Inv, Known, SeriesInv, TypeOK, PutTyped, Statement
<1> USE DEF Statement, Ended, Unmeasured
<1>1. CASE CreateMetrics
  <2>1. CASE pc' = "create"
    <3>1. DOMAIN series = {}
      BY <1>0, <1>1 DEF CreateMetrics, SeriesInv, EnginesFixed, TypeOK
    <3> QED
      BY <1>0, <1>1, <2>1, <3>1, CreateMetricsSeries
  <2>2. CASE pc' = "panicked"
    <3>1. UNCHANGED <<engines, series, recorded, export, registry, put>>
      BY <1>1, <2>2 DEF CreateMetrics
    <3> QED
      BY <1>0, <2>2, <3>1, SeriesStay DEF PutTyped
  <2> QED
    BY <1>1, <2>1, <2>2 DEF CreateMetrics
<1>2. ASSUME NEW event \in Event, Record(event) PROVE SeriesInv' /\ Fixed
  BY <1>0, <1>2, RecordSeries
<1>3. CASE NewConfig \/ SetLogLevel \/ ValidateAndLog
  <2>1. UNCHANGED <<engines, series, recorded, export, registry, put>> /\ pc \in Unmeasured /\ pc' \in Statement
    BY <1>3 DEF NewConfig, SetLogLevel, ValidateAndLog
  <2> QED
    BY <1>0, <2>1, SeriesStay DEF PutTyped
<1>4. CASE NewBaseBackend \/ Connect \/ Decorate \/ NewHandlers \/ Listen
  <2>1. UNCHANGED <<engines, series, recorded, export, registry, put>>
    BY <1>4 DEF NewBaseBackend, Connect, Decorate, NewHandlers, Listen
  <2>2. pc' \in Statement \ Unmeasured
    BY <1>4 DEF NewBaseBackend, Connect, Decorate, NewHandlers, Listen
  <2> QED
    BY <1>0, <2>1, <2>2, SeriesStay DEF PutTyped
<1>5. CASE GoExport
  <2>1. UNCHANGED <<engines, series, recorded, registry, put>> /\ export' = 1 /\ pc' = "listen"
    BY <1>5 DEF GoExport
  <2>2. 1 \in 0..(Len(engines) + 1)
    BY <1>0 DEF TypeOK
  <2> QED
    BY <1>0, <2>1, <2>2, SeriesStay DEF PutTyped
<1>6. CASE ListenPrometheus
  <2>1. UNCHANGED <<engines, series, recorded, export, put>> /\ pc' \in Statement \ Unmeasured
    BY <1>6 DEF ListenPrometheus
  <2>2. registry' \in {"unset", "Prometheus"}
    BY <1>0, <1>6 DEF ListenPrometheus, GetEngineRegistry
  <2> QED
    BY <1>0, <2>1, <2>2, SeriesStay DEF PutTyped
<1>7. CASE Export
  <2>1. UNCHANGED <<pc, engines, series, recorded, registry, put>> /\ export' = export + 1
    BY <1>7 DEF Export
  <2>2. export \in 1..Len(engines)
    BY <1>0, <1>7 DEF Export, TypeOK
  <2>3. pc \notin Unmeasured
    BY <2>2 DEF SeriesInv, EnginesFixed
  <2> QED
    BY <1>0, <2>1, <2>2, <2>3, SeriesStay DEF PutTyped
<1>8. CASE Put
  <2>1. UNCHANGED <<pc, engines, series, recorded, export, registry>>
    BY <1>8 DEF Put
  <2>2. PutTyped'
    <3>1. PICK ttl \in RequestTTLs :
            LET sent == LimitedTTL(GetMaxTTLSeconds(cfg), ttl) IN
            put' = [asked |-> ttl, sent |-> sent, life |-> Life(cfg.type, sent),
                     retries |-> PutWriteRetries]
      BY <1>8 DEF Put
    <3>2. ttl \in Nat /\ LimitedTTL(GetMaxTTLSeconds(cfg), ttl) \in Nat
      <4>1. GetMaxTTLSeconds(cfg) \in Int /\ ttl \in Nat
        BY <1>0, LimitType, StartupAssumption
      <4>2. /\ EnforcedMaxTTL(GetMaxTTLSeconds(cfg)) \in Nat \ {0}
            /\ LimitedTTL(GetMaxTTLSeconds(cfg), ttl)
                  \in 1..EnforcedMaxTTL(GetMaxTTLSeconds(cfg))
        BY <4>1, SentWithinLimit, Zenon
      <4>3. \A n \in Nat : \A x \in 1..n : x \in Nat
        OBVIOUS
      <4> QED
        BY <4>1, <4>2, <4>3, Zenon
    <3>3. Life(cfg.type, LimitedTTL(GetMaxTTLSeconds(cfg), ttl)) \in Nat \cup {Forever}
      BY <3>2, LifeType
    <3> QED
      BY <3>1, <3>2, <3>3 DEF PutTyped, PutWriteRetries
  <2> QED
    BY <1>0, <2>1, <2>2, SeriesStay
<1>9. CASE UNCHANGED vars
  BY <1>0, <1>9, SeriesStay DEF vars, PutTyped
<1> QED
  BY <1>1, <1>2, <1>3, <1>4, <1>5, <1>6, <1>7, <1>8, <1>9 DEF Next, Main

LEMMA SeriesInit == Init => SeriesInv
<1> SUFFICES ASSUME Init PROVE SeriesInv
  OBVIOUS
<1>1. engines = <<>> /\ series = <<>> /\ \A event \in Event : recorded[event] = 0
  BY DEF Init
<1>2. TypeOK
  BY <1>1, DefaultType DEF Init, TypeOK, NoPut, Ended
<1> QED
  BY <1>1, <1>2, ConnectionEvents DEF Init, SeriesInv, SeriesExact, EnginesFixed
-----------------------------------------------------------------------------
THEOREM SeriesInvariant == Spec => []SeriesInv
BY SeriesInit, SeriesStep, Invariant, PTL DEF Spec

\* Type correctness.
THEOREM TypeCorrect == Spec => []TypeOK
<1>1. SeriesInv => TypeOK
  BY DEF SeriesInv
<1> QED
  BY <1>1, SeriesInvariant, PTL

\* Every engine shows how often each metric was recorded, however many were
\* (metrics/core.go:16-165, influx.go:156-254, prometheus.go:228-330).
THEOREM SeriesAreExact == Spec => []SeriesExact
<1>1. SeriesInv => SeriesExact
  BY DEF SeriesInv
<1> QED
  BY <1>1, SeriesInvariant, PTL

\* No metric makes a series that was not there from the start
\* (prometheus/preload.go:7-61).
THEOREM SeriesArePreloaded == Spec => SeriesPreloaded
BY SeriesStep, SeriesInvariant, Invariant, PTL DEF Spec, SeriesPreloaded
=============================================================================
