------------------------------ MODULE TimeToLive ------------------------------
(***************************************************************************)
(* How long a stored value lives: from the configured limits, which become *)
(* one limit when the service starts, to the number the storage adapter    *)
(* hands its client library and what the storage server makes of it.       *)
(***************************************************************************)
EXTENDS Configuration, Decorators

CONSTANTS
    Half,            \* 2^(w-1) for the w bits of Go's int32
    ThirtyDays,      \* the longest relative time Memcached accepts
    Now              \* the time in seconds since 1970

ASSUME TimeAssumption ==
    /\ Half \in Nat /\ ThirtyDays \in Nat /\ Now \in Nat
    /\ 0 < ThirtyDays /\ ThirtyDays < Now /\ Now < Half

\* The limit the configuration of the back-end sets, zero or less for none.
BackendMaxTTL(cfg) ==
    IF cfg.type = "cassandra" THEN CASSANDRA_DEFAULT_TTL_SECONDS
    ELSE IF cfg.type = "aerospike" THEN cfg.aerospike.defaultTTLSecs
    ELSE IF cfg.type = "redis" THEN cfg.redis.expirationMinutes * 60
    ELSE 0

\* A getMaxTTLSeconds that takes the larger limit.
LargerMaxTTLSeconds(cfg) ==
    IF BackendMaxTTL(cfg) > 0 /\ cfg.maxTTLSeconds < BackendMaxTTL(cfg)
    THEN BackendMaxTTL(cfg) ELSE cfg.maxTTLSeconds

\* getMaxTTLSeconds
GetMaxTTLSeconds(cfg) ==
    IF BackendMaxTTL(cfg) > 0 /\ cfg.maxTTLSeconds > BackendMaxTTL(cfg)
    THEN BackendMaxTTL(cfg) ELSE cfg.maxTTLSeconds

\* Go's conversions int32(x) and uint32(x) of a 64-bit int.
Int32(x)  == ((x + Half) % (2 * Half)) - Half
UInt32(x) == x % (2 * Half)

Forever == -1

\* An Ignite Put that sends seconds.
IgniteExpInSeconds(sent) == sent

\* IgniteBackend.Put: "exp" in milliseconds.
IgniteExp(sent) == sent * 1000

\* What Memcached makes of an expiration time: negative is expired, zero is for
\* ever, up to 30 days is relative, and anything else is a time since 1970.
MemcachedLife(exp) ==
    IF exp < 0 THEN 0
    ELSE IF exp = 0 THEN Forever
    ELSE IF exp <= ThirtyDays THEN exp
    ELSE IF exp > Now THEN exp - Now ELSE 0

\* What Aerospike makes of a TTL: its two largest numbers and zero are special.
AerospikeLife(ttl) == IF ttl \in {0, 2 * Half - 2, 2 * Half - 1} THEN Forever ELSE ttl

\* The seconds a value lives that is sent with this time to live.
Life(type, sent) ==
    IF type = "memcache" THEN MemcachedLife(Int32(sent))
    ELSE IF type = "aerospike" THEN AerospikeLife(UInt32(sent))
    ELSE IF type = "ignite" THEN IgniteExp(sent) \div 1000
    ELSE IF type = "memory" THEN Forever
    ELSE sent

\* The numbers that mean the same to the adapter, its client library and the
\* server: those Memcached does not take for a date, and those Aerospike has no
\* other meaning for.
SameToAll(type, sent) ==
    /\ type = "memcache" => sent <= ThirtyDays
    /\ type = "aerospike" => sent <= 2 * Half - 3

\* The numbers that Redis's adapter can multiply by 10^9, and Ignite's by 1000,
\* within 64 bits, as Life assumes: all that 32 bits hold, and some more.
Multipliable(type, sent) == type \in {"memcache", "aerospike"} \/ sent < 2 * Half
=============================================================================
