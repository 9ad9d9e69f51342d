----------------------------- MODULE GetEndpoint -----------------------------
(***************************************************************************)
(* GET /cache (endpoints/get.go) with the decorators of the back-end and   *)
(* the storage adapters, while other requests write and records expire.    *)
(* What the storage server may do to a key is what PutEndpoint shows: a    *)
(* record is never replaced, only removed.                                 *)
(***************************************************************************)
EXTENDS BackendAdapters, FiniteSets

CONSTANTS
    Request,          \* the GET requests, each handled once
    Key,              \* the keys of the storage server
    LongKey,          \* those that have the 36 characters of a uuid
    NoKey,            \* a request without "uuid"
    Content,          \* the texts that are stored, without their prefix
    NoRecord, NoReply,
    Encodings,        \* the compression types the stored records were written with
    Configs           \* the configurations the process can be started with

\* backend.type, compression.type and request_limits.allow_setting_keys.
Config == [backend : Backends, compression : Encodings, allowCustomKeys : BOOLEAN]

ASSUME GetAssumption ==
    /\ IsFiniteSet(Request)
    /\ LongKey \subseteq Key /\ NoKey \notin Key
    /\ Encodings \subseteq {"none", "snappy"}
    /\ Configs \subseteq Config

\* What is stored: the prefix, the text, and how it was compressed.
Record == [type : {"xml", "json"}, content : Content, encoding : Encodings]

ASSUME NoRecordAssumption == NoRecord \notin Record /\ NoReply \notin Record \cup {NoRecord}

VARIABLES
    config,   \* the configuration, read once when the process starts
    pc,       \* the statement each handler executes next
    uuid,     \* the "uuid" of each request
    reply,    \* the server's reply that has reached the client library
    answer,   \* the error each request is answered with, and the record it shows
    store,    \* the storage server
    held,     \* what the key of each request has held during its call
    count     \* the metrics

Backend         == config.backend
Compression     == config.compression
AllowCustomKeys == config.allowCustomKeys

handlerVars == <<config, pc, uuid, answer>>
vars == <<handlerVars, reply, store, held, count>>

Metrics == {"total", "badRequest", "error", "duration",
            "backendTotal", "backendDuration", "backendError", "keyNotFound"}

\* The type of an error a handler is left with: the adapter's, or its own.
Errors == GetError \cup {"MISSING_KEY", "KEY_LENGTH", "UNKNOWN_STORED_DATA_TYPE"}

TypeOK ==
    /\ config \in Config
    /\ pc \in [Request -> {"idle", "parse", "call", "done"}]
    /\ uuid \in [Request -> Key \cup {NoKey}]
    /\ reply \in [Request -> Record \cup {NoRecord, NoReply}]
    /\ answer \in [Request -> [err : Errors, shows : Record \cup {NoRecord}]]
    /\ store \in [Key -> Record \cup {NoRecord}]
    /\ held \in [Request -> SUBSET (Record \cup {NoRecord})]
    /\ count \in [Metrics -> Nat]

Init ==
    /\ config \in Configs
    /\ pc = [r \in Request |-> "idle"]
    /\ uuid = [r \in Request |-> NoKey]
    /\ reply = [r \in Request |-> NoReply]
    /\ answer = [r \in Request |-> [err |-> "NONE", shows |-> NoRecord]]
    /\ store = [k \in Key |-> NoRecord]
    /\ held = [r \in Request |-> {}]
    /\ count = [m \in Metrics |-> 0]

Goto(r, label) == pc' = [pc EXCEPT ![r] = label]
Count(ms) == count' = [m \in Metrics |-> IF m \in ms THEN count[m] + 1 ELSE count[m]]
-----------------------------------------------------------------------------
(* The handler. *)

\* The metrics of an answer, with the boundary of the switch off by one.
AnswerMetricsAbove500(err) ==
    LET status == StatusCode(err) IN
    {m \in Metrics : \/ m = "error" /\ status > 500
                     \/ m = "badRequest" /\ status \in 400..499
                     \/ m = "duration" /\ err = "NONE"}

\* handleException's switch, and RecordGetDuration.
AnswerMetrics(err) ==
    LET status == StatusCode(err) IN
    {m \in Metrics : \/ m = "error" /\ status >= 500
                     \/ m = "badRequest" /\ status \in 400..499
                     \/ m = "duration" /\ err = "NONE"}

\* The handler answers and ends; "ms" are the metrics of its back-end call.
Answer(r, err, shows, ms) ==
    /\ answer' = [answer EXCEPT ![r] = [err |-> err, shows |-> shows]]
    /\ Goto(r, "done")
    /\ Count(ms \cup AnswerMetrics(err))

\* handle begins.
Receive(r) ==
    /\ pc[r] = "idle"
    /\ \E k \in Key \cup {NoKey} : uuid' = [uuid EXCEPT ![r] = k]
    /\ Goto(r, "parse")
    /\ Count({"total"})
    /\ UNCHANGED <<config, answer, reply, store, held>>

\* A parseUUID whose error type errToStatusCodes does not list.
ParseErrorUnlisted(k) ==
    IF k = NoKey THEN "MISSING_UUID"
    ELSE IF k \notin LongKey /\ ~AllowCustomKeys THEN "KEY_LENGTH"
    ELSE "NONE"

\* parseUUID
ParseError(k) ==
    IF k = NoKey THEN "MISSING_KEY"
    ELSE IF k \notin LongKey /\ ~AllowCustomKeys THEN "KEY_LENGTH"
    ELSE "NONE"

\* parseUUID fails.
Reject(r) ==
    /\ pc[r] = "parse"
    /\ ParseError(uuid[r]) # "NONE"
    /\ Answer(r, ParseError(uuid[r]), NoRecord, {})
    /\ UNCHANGED <<config, uuid, reply, store, held>>

\* The decorated Backend.Get begins.
Call(r) ==
    /\ pc[r] = "parse"
    /\ ParseError(uuid[r]) = "NONE"
    /\ Goto(r, "call")
    /\ held' = [held EXCEPT ![r] = {store[uuid[r]]}]
    /\ Count({"backendTotal"})
    /\ UNCHANGED <<config, uuid, answer, reply, store>>

\* What the Get metrics count when the decorated Get ends.
CallMetrics(err) ==
    IF err = "NONE" THEN {"backendDuration"}
    ELSE IF err = "KEY_NOT_FOUND" THEN {"backendError", "keyNotFound"}
    ELSE {"backendError"}

\* A snappyCompressor.Get that hands out what it cannot decode.
DecompressLeniently(err, record) == err

\* snappyCompressor.Get: a text that was not compressed does not decode.
Decompress(err, record) ==
    IF err = "NONE" /\ Compression = "snappy" /\ record.encoding # "snappy" THEN "other"
    ELSE err

\* writeGetResponse: compressed bytes begin with neither prefix.
Unprefixed(record) == Compression = "none" /\ record.encoding = "snappy"

\* The client library ends its call with a: the adapter, the decorators and the
\* handler end, having the record the server replied with, if any.
Finish(r, a, record) ==
    LET err == Decompress(AdapterGet(Backend, a), record) IN
    /\ IF err # "NONE" THEN Answer(r, err, NoRecord, CallMetrics(err))
       ELSE IF Unprefixed(record)
            THEN Answer(r, "UNKNOWN_STORED_DATA_TYPE", NoRecord, CallMetrics(err))
            ELSE Answer(r, "NONE", record, CallMetrics(err))
    /\ UNCHANGED <<config, uuid, reply, store, held>>

\* A Get that ends only when the record is there.
TakeReplyFound(r) ==
    /\ pc[r] = "call"
    /\ reply[r] \notin {NoReply, NoRecord}
    /\ Finish(r, GetReplied(Backend, TRUE), reply[r])

\* The server's reply arrives.
TakeReply(r) ==
    /\ pc[r] = "call"
    /\ reply[r] # NoReply
    /\ Finish(r, GetReplied(Backend, reply[r] # NoRecord), reply[r])

\* The deadline passes or the connection fails.
GiveUp(r) ==
    /\ pc[r] = "call"
    /\ \E a \in GetFailures(Backend) : Finish(r, a, NoRecord)
-----------------------------------------------------------------------------
(* The storage server. *)

\* The server reads the key: once, or again when the client library resends.
ServerReads(r) ==
    /\ pc[r] = "call"
    /\ reply' = [reply EXCEPT ![r] = store[uuid[r]]]
    /\ UNCHANGED <<handlerVars, store, held, count>>

Change(k, record) ==
    /\ store' = [store EXCEPT ![k] = record]
    /\ held' = [r \in Request |-> IF pc[r] = "call" /\ uuid[r] = k
                                  THEN held[r] \cup {record} ELSE held[r]]
    /\ UNCHANGED <<handlerVars, reply, count>>

\* A POST stores a record under a free key.
Write(k) ==
    /\ store[k] = NoRecord
    /\ \E record \in Record : Change(k, record)

\* A record expires, or is evicted.
Expire(k) ==
    /\ RecordsExpire(Backend)
    /\ store[k] # NoRecord
    /\ Change(k, NoRecord)

Handler(r) == Reject(r) \/ Call(r) \/ TakeReply(r) \/ GiveUp(r)

\* Every request has been answered.
Terminated == (\A r \in Request : pc[r] = "done") /\ UNCHANGED vars

Next == \/ \E r \in Request : Receive(r) \/ Handler(r) \/ ServerReads(r)
        \/ \E k \in Key : Write(k) \/ Expire(k)
        \/ Terminated

Spec == Init /\ [][Next]_vars

\* The handler's goroutine runs, and every library bounds the time of a Get;
\* the in-memory back-end is the handler's own goroutine.
Fairness ==
    /\ \A r \in Request : WF_vars(Handler(r))
    /\ \A r \in Request : WF_vars(Backend = "memory" /\ ServerReads(r))

FairSpec == Spec /\ Fairness
-----------------------------------------------------------------------------
(* Properties. *)

\* A 200 shows a record its key has held while the request was served, with
\* its type, decompressed as it was compressed.
ShowsWhatWasStored ==
    \A r \in Request : pc[r] = "done" /\ answer[r].err = "NONE" =>
       /\ answer[r].shows \in held[r] \ {NoRecord}
       /\ answer[r].shows.encoding = Compression

\* A 404 for a key of the right length means that the key was free at some time
\* while the request was served: no failure of the back-end is taken for a
\* missing record ("If the id isn't recognized, then it will return an HTTP
\* 404", README.md:181).
NotFoundMeansAbsent ==
    \A r \in Request :
       pc[r] = "done" /\ StatusCode(answer[r].err) = 404 =>
          \/ NoRecord \in held[r]
          \/ uuid[r] \notin LongKey /\ ~AllowCustomKeys

\* Every request is counted when it comes and once, by its outcome, when it is
\* answered; every decorated Get once when it begins and once when it ends.
MetricsBalance ==
    /\ count["total"] = count["badRequest"] + count["error"] + count["duration"]
          + Cardinality({r \in Request : pc[r] \in {"parse", "call"}})
    /\ count["backendTotal"] = count["backendDuration"] + count["backendError"]
          + Cardinality({r \in Request : pc[r] = "call"})
    /\ count["keyNotFound"] =
          Cardinality({r \in Request : pc[r] = "done" /\ answer[r].err = "KEY_NOT_FOUND"})

\* Every GET is answered.
GetsAnswered == \A r \in Request : pc[r] = "parse" ~> pc[r] = "done"
=============================================================================
