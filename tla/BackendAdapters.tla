--------------------------- MODULE BackendAdapters ---------------------------
(***************************************************************************)
(* The storage adapters of backends/*.go: how the answer of each client    *)
(* library becomes the error the endpoints see.                            *)
(*                                                                         *)
(* A client library answers a Put with a record: whether it reports the    *)
(* value as applied, and the error it returns ("nil" for none).  Some      *)
(* libraries report through the error only; "applied" then says the same.  *)
(***************************************************************************)
EXTENDS PBCErrors

Backends == {"memory", "memcache", "redis", "cassandra", "aerospike", "ignite"}

\* The errors of the client libraries the adapters tell apart, a context
\* deadline that is returned bare, one that net/http wraps in a url.Error,
\* and any other.
ClientError == {"nil", "redis.Nil", "memcache.ErrNotStored", "KEY_EXISTS_ERROR",
                "context.DeadlineExceeded", "url.Error", "other"}
ClientAnswer == [applied : BOOLEAN, err : ClientError]

\* The client's error passed on as it is.
PassedOn(err) ==
    IF err = "nil" THEN "NONE"
    ELSE IF err = "context.DeadlineExceeded" THEN "DeadlineExceeded"
    ELSE IF err = "url.Error" THEN "url.Error"
    ELSE "other"

MemoryPut(a) == IF a.applied THEN "NONE" ELSE "RECORD_EXISTS"

\* A Put that takes every reply without a value for an existing record.
IgnitePutIgnoringErrors(a) == IF a.applied THEN "NONE" ELSE "RECORD_EXISTS"

MemcachePut(a) ==
    IF a.err = "memcache.ErrNotStored" THEN "RECORD_EXISTS" ELSE PassedOn(a.err)

RedisPut(a) ==
    IF a.err \notin {"nil", "redis.Nil"} THEN PassedOn(a.err)
    ELSE IF a.applied THEN "NONE" ELSE "RECORD_EXISTS"

CassandraPut(a) == IF a.applied THEN PassedOn(a.err) ELSE "RECORD_EXISTS"

AerospikePut(a) ==
    IF a.err = "KEY_EXISTS_ERROR" THEN "RECORD_EXISTS" ELSE PassedOn(a.err)

IgnitePut(a) ==
    IF a.err # "nil" THEN PassedOn(a.err)
    ELSE IF a.applied THEN "NONE" ELSE "RECORD_EXISTS"

AdapterPut(backend, a) ==
    IF backend = "memory" THEN MemoryPut(a)
    ELSE IF backend = "memcache" THEN MemcachePut(a)
    ELSE IF backend = "redis" THEN RedisPut(a)
    ELSE IF backend = "cassandra" THEN CassandraPut(a)
    ELSE IF backend = "aerospike" THEN AerospikePut(a)
    ELSE IgnitePut(a)

\* The libraries' answer when the server's reply reaches them: the value was
\* stored, or a record existed.
Replied(backend, stored) ==
    [applied |-> stored,
     err |-> IF ~stored /\ backend = "memcache" THEN "memcache.ErrNotStored"
             ELSE IF ~stored /\ backend = "aerospike" THEN "KEY_EXISTS_ERROR"
             ELSE "nil"]

\* Their answers when no reply reaches them, or one that reports a failure.
\* Only redis and gocql take the context and return its error as it is;
\* net/http wraps it; gomemcache and the Aerospike client never see it.
Failures(backend) ==
    {a \in ClientAnswer :
        /\ ~a.applied
        /\ \/ a.err = "other" /\ backend # "memory"
           \/ a.err = "context.DeadlineExceeded" /\ backend \in {"redis", "cassandra"}
           \/ a.err = "url.Error" /\ backend = "ignite"}

\* The same for Get.  "found" is whether the library hands a value out;
\* "ignite.Response" is a response of Ignite that is no JSON, or reports an
\* error.
GetClientError == {"nil", "redis.Nil", "memcache.ErrCacheMiss", "gocql.ErrNotFound",
                   "KEY_NOT_FOUND_ERROR", "ignite.Response",
                   "context.DeadlineExceeded", "url.Error", "other"}
GetAnswer == [found : BOOLEAN, err : GetClientError]

\* The errors an adapter's Get returns.
GetError == {"NONE", "KEY_NOT_FOUND", "GET_INTERNAL_SERVER", "DeadlineExceeded",
             "url.Error", "other"}

MemoryGet(a) == IF a.found THEN "NONE" ELSE "KEY_NOT_FOUND"

MemcacheGet(a) ==
    IF a.err = "memcache.ErrCacheMiss" THEN "KEY_NOT_FOUND" ELSE PassedOn(a.err)

\* A Get that takes every reply without a value for a missing record.
RedisGetIgnoringErrors(a) == IF a.found THEN "NONE" ELSE "KEY_NOT_FOUND"

RedisGet(a) == IF a.err = "redis.Nil" THEN "KEY_NOT_FOUND" ELSE PassedOn(a.err)

CassandraGet(a) == IF a.err = "gocql.ErrNotFound" THEN "KEY_NOT_FOUND" ELSE PassedOn(a.err)

AerospikeGet(a) ==
    IF a.err = "KEY_NOT_FOUND_ERROR" THEN "KEY_NOT_FOUND"
    ELSE IF a.err = "nil" /\ ~a.found THEN "other" ELSE PassedOn(a.err)

IgniteGet(a) ==
    IF a.err = "ignite.Response" THEN "GET_INTERNAL_SERVER"
    ELSE IF a.err # "nil" THEN PassedOn(a.err)
    ELSE IF a.found THEN "NONE" ELSE "KEY_NOT_FOUND"

AdapterGet(backend, a) ==
    IF backend = "memory" THEN MemoryGet(a)
    ELSE IF backend = "memcache" THEN MemcacheGet(a)
    ELSE IF backend = "redis" THEN RedisGet(a)
    ELSE IF backend = "cassandra" THEN CassandraGet(a)
    ELSE IF backend = "aerospike" THEN AerospikeGet(a)
    ELSE IgniteGet(a)

\* The libraries' answer when the server finds the record, or none.
GetReplied(backend, found) ==
    [found |-> found,
     err |-> IF found \/ backend \in {"memory", "ignite"} THEN "nil"
             ELSE IF backend = "memcache" THEN "memcache.ErrCacheMiss"
             ELSE IF backend = "redis" THEN "redis.Nil"
             ELSE IF backend = "cassandra" THEN "gocql.ErrNotFound"
             ELSE "KEY_NOT_FOUND_ERROR"]

\* Their answers when no reply reaches them, or one that reports a failure.
GetFailures(backend) ==
    {a \in GetAnswer :
        /\ ~a.found
        /\ \/ a.err = "other" /\ backend # "memory"
           \/ a.err = "nil" /\ backend = "aerospike"
           \/ a.err = "context.DeadlineExceeded" /\ backend \in {"redis", "cassandra"}
           \/ a.err \in {"url.Error", "ignite.Response"} /\ backend = "ignite"}

\* Whether a Put may go unanswered: every library but Aerospike's bounds the
\* call (its context, or gomemcache's own timeout); the WritePolicy of
\* AerospikeBackend.Put sets no timeout.
BoundedCall(backend) == backend # "aerospike"

\* The libraries that send a Put again when a connection fails: go-redis, whose
\* MaxRetries NewRedisBackend leaves at its default, and net/http, which takes
\* the GET that Ignite's "putifabs" is sent with for safe to repeat.
ResendingBackends == {"redis", "ignite"}

\* The keys expire, or the server drops them, everywhere but in memory.
RecordsExpire(backend) == backend # "memory"
=============================================================================
