----------------------------- MODULE PutEndpoint -----------------------------
(***************************************************************************)
(* POST /cache (endpoints/put.go) with the decorators of the back-end and  *)
(* the storage server behind them.                                         *)
(*                                                                         *)
(* A request is one handler goroutine.  It takes a putRequest object and a *)
(* PutResponse object from two sync.Pools, starts one goroutine for every  *)
(* element of "puts", waits for all of them, answers with the error of the *)
(* first failing element or with the uuids of all, and gives the objects   *)
(* back.  An element's goroutine makes one decorated Backend.Put, whose    *)
(* client library may resend what it sent, and may give up: what it sent   *)
(* can then reach the server after the answer was written.                 *)
(***************************************************************************)
EXTENDS BackendAdapters, Decorators, Sequences, FiniteSets

CONSTANTS
    Request,        \* the POST requests, each handled once
    Object,         \* the objects the two sync.Pools hand out
    CustomKey,      \* the keys clients ask for
    UUID,           \* what GenerateRandomID can return
    NoKey,          \* the empty string, as a key or as a uuid
    Value,          \* the raw JSON values of the elements
    NoValue,        \* an element without a value
    Quoted,         \* the values that are JSON strings, as "xml" requires
    Length,         \* the length in bytes of a value, its quotes included
    Bodies,         \* the request bodies
    MaxNumValues,   \* request_limits.max_num_values
    MaxSize,        \* request_limits.max_size_bytes
    MaxTTLSeconds,  \* what getMaxTTLSeconds returns for the configuration
    Configs,        \* the configurations the process can be started with
    NoObject, NoRequest, NoRecord, NoElement

Key == CustomKey \cup UUID

PutObject == [type  : {"xml", "json", "other"},
              ttl   : Int,
              value : Value \cup {NoValue},
              key   : CustomKey \cup {NoKey}]

\* backend.type, request_limits.allow_setting_keys and how often the client
\* library of the back-end resends a Put.
Config == {c \in [backend : Backends, allowKeys : BOOLEAN, retries : Nat] :
             c.backend \notin ResendingBackends => c.retries = 0}

\* A body that cannot be read, one that is not the JSON of a putRequest (the
\* elements are those json.Unmarshal stored before it failed), a JSON object
\* without "puts", and a list of elements.
Body == [kind : {"unreadable", "malformed", "noPuts", "puts"}, puts : Seq(PutObject)]

ASSUME PutAssumption ==
    /\ NoKey \notin Key /\ NoValue \notin Value
    /\ NoObject \notin Object /\ NoRequest \notin Request
    /\ Quoted \subseteq Value /\ Length \in [Value -> Nat]
    /\ \A v \in Quoted : Length[v] >= 2
    /\ Bodies \subseteq Body
    /\ \A b \in Bodies : b.kind = "noPuts" => b.puts = <<>>
    /\ MaxNumValues \in Nat /\ MaxSize \in Int /\ MaxTTLSeconds \in Int
    /\ Configs \subseteq Config

\* sync.Pool.Get makes a new object when the pool is empty: it never blocks.
ASSUME PoolAssumption ==
    /\ IsFiniteSet(Request) /\ IsFiniteSet(Object)
    /\ Cardinality(Object) >= Cardinality(Request)

Slot    == 1..MaxNumValues
Element == Request \X Slot
ASSUME NoElementAssumption == NoElement \notin Element

\* The text that is stored: the type as a prefix, then the value, which loses
\* its quotes when it is XML.  (No value contains escaped characters.)
Payload == [type : {"xml", "json"}, value : Value]
ToCache(p) == [type |-> p.type, value |-> p.value]
PrefixLength(type) == IF type = "xml" THEN 3 ELSE 4
PayloadLength(v) ==
    PrefixLength(v.type) + Length[v.value] - (IF v.type = "xml" THEN 2 ELSE 0)

\* A record of the storage server.  "by" is the element that wrote it, which
\* the server does not keep.
Record == [payload : Payload, ttl : Int, by : Element]

\* A Backend.Put as the client library is asked for it.
Call   == [key : Key, payload : Payload, ttl : Int]
NoCall == NoRecord

ASSUME NoRecordAssumption == NoRecord \notin Record \cup Call

VARIABLES
    config,    \* the configuration, read once when the process starts
    pc,        \* the statement each handler executes next
    body,      \* the body of each request
    reqObj,    \* the putRequest each handler holds
    respObj,   \* the PutResponse each handler holds
    reqPool,   \* the putRequests the pool can hand out
    respPool,  \* the PutResponses the pool can hand out
    puts,      \* putRequest.Puts of each object
    owner,     \* whose array the Responses field of each PutResponse is
    batch,     \* the elements the goroutines of each request point to
    result,    \* what processPutRequest returns to handle
    epc,       \* the statement each element's goroutine executes next
    uuid,      \* putResponseObject.UUID of each element
    err,       \* putResponseObject.err of each element
    call,      \* the Backend.Put each element has made: key, payload, ttl
    attempt,   \* how often the client library has sent it
    wire,      \* the attempts that are on their way to the server
    reply,     \* the server's reply to the last attempt
    outcome,   \* the error the client library has ended each call with
    store,     \* the storage server
    expired,   \* the keys that have expired or been evicted since the start
    blocker,   \* whose record the server found when it refused an element
    count      \* the metrics

Backend       == config.backend
AllowKeys     == config.allowKeys
ClientRetries == config.retries

handlerVars == <<pc, body, result>>
poolVars    == <<reqObj, respObj, reqPool, respPool, puts, owner>>
elementVars == <<epc, uuid, err>>
clientVars  == <<call, attempt, wire, reply, outcome>>
serverVars  == <<config, store, expired, blocker>>
vars == <<handlerVars, poolVars, batch, elementVars, clientVars, serverVars, count>>

Metrics == {"total", "badRequest", "error", "duration", "keyProvided",
            "backendXml", "backendJson", "backendError", "backendDuration"}

Statements == {"idle", "read", "decode", "start", "wait", "encode", "release", "reply", "done"}

VarTypes ==
    /\ config \in Config
    /\ body \in [Request -> Body]
    /\ reqObj \in [Request -> Object \cup {NoObject}]
    /\ respObj \in [Request -> Object \cup {NoObject}]
    /\ reqPool \subseteq Object /\ respPool \subseteq Object
    /\ puts \in [Object -> Seq(PutObject)]
    /\ owner \in [Object -> Request \cup {NoRequest}]
    /\ batch \in [Request -> Seq(PutObject)]
    /\ result \in [Request -> [err : PBCError \cup {"NONE"}, uuids : Seq(Key \cup {NoKey})]]
    /\ epc \in [Element -> {"none", "start", "call", "done"}]
    /\ uuid \in [Element -> Key \cup {NoKey}]
    /\ err \in [Element -> PBCError \cup {"NONE"}]
    /\ call \in [Element -> Call \cup {NoCall}]
    /\ attempt \in [Element -> 0..(ClientRetries + 1)]
    /\ wire \in [Element -> SUBSET (1..(ClientRetries + 1))]
    /\ reply \in [Element -> {"none", "stored", "exists"}]
    /\ outcome \in [Element -> ClientError \cup {"none"}]
    /\ store \in [Key -> Record \cup {NoRecord}]
    /\ expired \subseteq Key
    /\ blocker \in [Element -> Element \cup {NoElement}]
    /\ count \in [Metrics -> Nat]

TypeOK == pc \in [Request -> Statements] /\ VarTypes

EmptyBody == [kind |-> "unreadable", puts |-> <<>>]
NoResult  == [err |-> "NONE", uuids |-> <<>>]

\* NewPutHandler: two pools that have handed out nothing yet.
Init ==
    /\ config \in Configs
    /\ pc = [r \in Request |-> "idle"]
    /\ body = [r \in Request |-> EmptyBody]
    /\ reqObj = [r \in Request |-> NoObject]
    /\ respObj = [r \in Request |-> NoObject]
    /\ reqPool = Object /\ respPool = Object
    /\ puts = [o \in Object |-> <<>>]
    /\ owner = [o \in Object |-> NoRequest]
    /\ batch = [r \in Request |-> <<>>]
    /\ result = [r \in Request |-> NoResult]
    /\ epc = [e \in Element |-> "none"]
    /\ uuid = [e \in Element |-> NoKey]
    /\ err = [e \in Element |-> "NONE"]
    /\ call = [e \in Element |-> NoCall]
    /\ attempt = [e \in Element |-> 0]
    /\ wire = [e \in Element |-> {}]
    /\ reply = [e \in Element |-> "none"]
    /\ outcome = [e \in Element |-> "none"]
    /\ store = [k \in Key |-> NoRecord]
    /\ expired = {}
    /\ blocker = [e \in Element |-> NoElement]
    /\ count = [m \in Metrics |-> 0]

Goto(r, label) == pc' = [pc EXCEPT ![r] = label]
Fail(r, x)     == result' = [result EXCEPT ![r] = [err |-> x, uuids |-> <<>>]]
Succeed(r, us) == result' = [result EXCEPT ![r] = [err |-> "NONE", uuids |-> us]]
Elements(r)    == {r} \X (1..Len(batch[r]))
Count(ms)      == count' = [m \in Metrics |-> IF m \in ms THEN count[m] + 1 ELSE count[m]]
-----------------------------------------------------------------------------
(* The handler. *)

\* handle begins.
Receive(r) ==
    /\ pc[r] = "idle"
    /\ \E b \in Bodies : body' = [body EXCEPT ![r] = b]
    /\ Goto(r, "read")
    /\ Count({"total"})
    /\ UNCHANGED <<result, poolVars, batch, elementVars, clientVars, serverVars>>

\* ioutil.ReadAll fails: no object has been taken yet.
ReadFails(r) ==
    /\ pc[r] = "read"
    /\ body[r].kind = "unreadable"
    /\ Fail(r, "PUT_BAD_REQUEST")
    /\ Goto(r, "reply")
    /\ UNCHANGED <<body, poolVars, batch, elementVars, clientVars, serverVars, count>>

\* requestPool.Get without the "put.Puts = make(...)" that follows it.
TakeUsedRequestObject(r) ==
    /\ pc[r] = "read"
    /\ body[r].kind # "unreadable"
    /\ \E o \in reqPool :
          /\ reqPool' = reqPool \ {o}
          /\ reqObj' = [reqObj EXCEPT ![r] = o]
    /\ Goto(r, "decode")
    /\ UNCHANGED <<body, result, respObj, respPool, owner, puts, batch, elementVars,
                   clientVars, serverVars, count>>

\* requestPool.Get and put.Puts = make(...)
TakeRequestObject(r) ==
    /\ pc[r] = "read"
    /\ body[r].kind # "unreadable"
    /\ \E o \in reqPool :
          /\ reqPool' = reqPool \ {o}
          /\ reqObj' = [reqObj EXCEPT ![r] = o]
          /\ puts' = [puts EXCEPT ![o] = <<>>]
    /\ Goto(r, "decode")
    /\ UNCHANGED <<body, result, respObj, respPool, owner, batch, elementVars,
                   clientVars, serverVars, count>>

\* What json.Unmarshal leaves in put.Puts.
Decoded(r) == IF body[r].kind = "noPuts" THEN puts[reqObj[r]] ELSE body[r].puts

\* A decoder whose error nobody looks at.
DecodeMalformed(r) ==
    /\ pc[r] = "decode"
    /\ Len(Decoded(r)) <= MaxNumValues
    /\ puts' = [puts EXCEPT ![reqObj[r]] = Decoded(r)]
    /\ Goto(r, "start")
    /\ UNCHANGED <<body, result, reqObj, respObj, reqPool, respPool, owner, batch,
                   elementVars, clientVars, serverVars, count>>

\* json.Unmarshal succeeds and the elements are not too many.
Decode(r) ==
    /\ pc[r] = "decode"
    /\ body[r].kind # "malformed" /\ Len(Decoded(r)) <= MaxNumValues
    /\ puts' = [puts EXCEPT ![reqObj[r]] = Decoded(r)]
    /\ Goto(r, "start")
    /\ UNCHANGED <<body, result, reqObj, respObj, reqPool, respPool, owner, batch,
                   elementVars, clientVars, serverVars, count>>

\* Either check fails: the object goes back to the pool before the answer.
RejectBody(r) ==
    /\ pc[r] = "decode"
    /\ \/ /\ body[r].kind = "malformed"
          /\ Fail(r, "PUT_BAD_REQUEST")
       \/ /\ body[r].kind # "malformed" /\ Len(Decoded(r)) > MaxNumValues
          /\ Fail(r, "PUT_MAX_NUM_VALUES")
    /\ puts' = [puts EXCEPT ![reqObj[r]] = Decoded(r)]
    /\ reqPool' = reqPool \cup {reqObj[r]}
    /\ reqObj' = [reqObj EXCEPT ![r] = NoObject]
    /\ Goto(r, "reply")
    /\ UNCHANGED <<body, respObj, respPool, owner, batch, elementVars, clientVars,
                   serverVars, count>>

\* putResponsePool.Get, a new Responses array, and one goroutine per element,
\* each with pointers into the two arrays.
StartElements(r) ==
    /\ pc[r] = "start"
    /\ \E o \in respPool :
          /\ respPool' = respPool \ {o}
          /\ respObj' = [respObj EXCEPT ![r] = o]
          /\ owner' = [owner EXCEPT ![o] = r]
    /\ batch' = [batch EXCEPT ![r] = puts[reqObj[r]]]
    /\ epc' = [e \in Element |->
                 IF e[1] = r /\ e[2] <= Len(puts[reqObj[r]]) THEN "start" ELSE epc[e]]
    /\ Goto(r, "wait")
    /\ UNCHANGED <<body, result, reqObj, reqPool, puts, uuid, err, clientVars,
                   serverVars, count>>

\* The elements of the array the handler's PutResponse points to that failed.
Failed(r) == {i \in 1..Len(batch[owner[respObj[r]]]) : err[<<owner[respObj[r]], i>>] # "NONE"}

\* A handler that looks at the array without having waited.
CollectUnwaited(r) ==
    /\ pc[r] = "wait"
    /\ \/ /\ Failed(r) = {}
          /\ Goto(r, "encode")
          /\ UNCHANGED result
       \/ \E i \in Failed(r) :
          /\ \A j \in Failed(r) : i <= j
          /\ Fail(r, err[<<owner[respObj[r]], i>>])
          /\ Goto(r, "release")
    /\ UNCHANGED <<body, poolVars, batch, elementVars, clientVars, serverVars, count>>

\* A handler that reports the error of the last failing element.
CollectLast(r) ==
    /\ pc[r] = "wait"
    /\ \A e \in Elements(r) : epc[e] = "done"
    /\ \/ /\ Failed(r) = {}
          /\ Goto(r, "encode")
          /\ UNCHANGED result
       \/ \E i \in Failed(r) :
          /\ \A j \in Failed(r) : i >= j
          /\ Fail(r, err[<<owner[respObj[r]], i>>])
          /\ Goto(r, "release")
    /\ UNCHANGED <<body, poolVars, batch, elementVars, clientVars, serverVars, count>>

\* A handler that gives its PutResponse back before it has encoded it.
CollectReleasing(r) ==
    /\ pc[r] = "wait"
    /\ \A e \in Elements(r) : epc[e] = "done"
    /\ \/ /\ Failed(r) = {}
          /\ Goto(r, "encode")
          /\ UNCHANGED result
       \/ \E i \in Failed(r) :
          /\ \A j \in Failed(r) : i <= j
          /\ Fail(r, err[<<owner[respObj[r]], i>>])
          /\ Goto(r, "release")
    /\ respPool' = respPool \cup {respObj[r]}
    /\ UNCHANGED <<body, reqObj, respObj, reqPool, puts, owner, batch, elementVars,
                   clientVars, serverVars, count>>

\* waitGroup.Wait() returns; the first error in the order of the elements.
Collect(r) ==
    /\ pc[r] = "wait"
    /\ \A e \in Elements(r) : epc[e] = "done"
    /\ \/ /\ Failed(r) = {}
          /\ Goto(r, "encode")
          /\ UNCHANGED result
       \/ \E i \in Failed(r) :
          /\ \A j \in Failed(r) : i <= j
          /\ Fail(r, err[<<owner[respObj[r]], i>>])
          /\ Goto(r, "release")
    /\ UNCHANGED <<body, poolVars, batch, elementVars, clientVars, serverVars, count>>

\* json.Marshal(putResponse)
Encode(r) ==
    /\ pc[r] = "encode"
    /\ LET q == owner[respObj[r]] IN
          Succeed(r, [i \in 1..Len(batch[q]) |-> uuid[<<q, i>>]])
    /\ Goto(r, "release")
    /\ UNCHANGED <<body, poolVars, batch, elementVars, clientVars, serverVars, count>>

\* The deferred Puts of processPutRequest.
Release(r) ==
    /\ pc[r] = "release"
    /\ respPool' = respPool \cup {respObj[r]}
    /\ reqPool' = reqPool \cup {reqObj[r]}
    /\ respObj' = [respObj EXCEPT ![r] = NoObject]
    /\ reqObj' = [reqObj EXCEPT ![r] = NoObject]
    /\ Goto(r, "reply")
    /\ UNCHANGED <<body, result, puts, owner, batch, elementVars, clientVars,
                   serverVars, count>>

\* The metrics of an answer.
AnswerMetrics(err1) ==
    LET status == StatusCode(err1) IN
    {m \in Metrics : \/ m = "duration" /\ status = 200
                     \/ m = "badRequest" /\ status \in 400..499
                     \/ m = "error" /\ status \notin {200} \cup 400..499}

\* handle writes the answer and records it.
Reply(r) ==
    /\ pc[r] = "reply"
    /\ Count(AnswerMetrics(result[r].err))
    /\ Goto(r, "done")
    /\ UNCHANGED <<body, result, poolVars, batch, elementVars, clientVars, serverVars>>
-----------------------------------------------------------------------------
(* The goroutine of an element. *)

Put(e) == batch[e[1]][e[2]]

\* parsePutObject without its last check.
ParseAnyType(p) ==
    IF p.value = NoValue THEN "MISSING_VALUE"
    ELSE IF p.ttl < 0 THEN "NEGATIVE_TTL"
    ELSE IF p.type = "xml" /\ p.value \notin Quoted THEN "MALFORMED_XML"
    ELSE "NONE"

\* parsePutObject, in the order of its checks.
ParseError(p) ==
    IF p.value = NoValue THEN "MISSING_VALUE"
    ELSE IF p.ttl < 0 THEN "NEGATIVE_TTL"
    ELSE IF p.type = "xml" /\ p.value \notin Quoted THEN "MALFORMED_XML"
    ELSE IF p.type = "other" THEN "UNSUPPORTED_DATA_TO_STORE"
    ELSE "NONE"

\* e.put ends: it has filled in the element's response and called wg.Done.
Settle(e, u, x) ==
    /\ uuid' = [uuid EXCEPT ![e] = u]
    /\ err' = [err EXCEPT ![e] = x]
    /\ epc' = [epc EXCEPT ![e] = "done"]

\* An e.put whose early return skips wg.Done.
RejectElementUndone(e) ==
    /\ epc[e] = "start"
    /\ ParseError(Put(e)) # "NONE"
    /\ err' = [err EXCEPT ![e] = ParseError(Put(e))]
    /\ UNCHANGED <<handlerVars, poolVars, batch, epc, uuid, clientVars, serverVars, count>>

\* parsePutObject fails.
RejectElement(e) ==
    /\ epc[e] = "start"
    /\ ParseError(Put(e)) # "NONE"
    /\ Settle(e, NoKey, ParseError(Put(e)))
    /\ UNCHANGED <<handlerVars, poolVars, batch, clientVars, serverVars, count>>

HasOwnKey(p) == AllowKeys /\ p.key # NoKey

\* GenerateRandomID fails.
NoRandomness(e) ==
    /\ epc[e] = "start"
    /\ ParseError(Put(e)) = "NONE" /\ ~HasOwnKey(Put(e))
    /\ Settle(e, NoKey, "PUT_INTERNAL_SERVER")
    /\ UNCHANGED <<handlerVars, poolVars, batch, clientVars, serverVars, count>>

\* classifyBackendError with the deadline taken for an internal error.
ClassifyWithoutDeadline(x) ==
    IF x = "BadPayloadSize" THEN "BAD_PAYLOAD_SIZE" ELSE "PUT_INTERNAL_SERVER"

\* classifyBackendError: only a bare context.DeadlineExceeded is a timeout.
ClassifyBackendError(x) ==
    IF x = "BadPayloadSize" THEN "BAD_PAYLOAD_SIZE"
    ELSE IF x = "DeadlineExceeded" THEN "PUT_DEADLINE_EXCEEDED"
    ELSE "PUT_INTERNAL_SERVER"

\* Custom keys used whether or not the configuration allows them.
AnyKeyChoice(p) == IF p.key # NoKey THEN {p.key} ELSE UUID

\* The keys an element can be stored under.
KeyChoice(p) == IF HasOwnKey(p) THEN {p.key} ELSE UUID

\* Custom keys counted instead of the format, not besides it.
CallMetricsExclusive(p) ==
    {IF HasOwnKey(p) THEN "keyProvided"
     ELSE IF p.type = "xml" THEN "backendXml" ELSE "backendJson"}

\* What the metrics count when the decorated Put is called.
CallMetrics(p) ==
    (IF HasOwnKey(p) THEN {"keyProvided"} ELSE {})
    \cup {IF p.type = "xml" THEN "backendXml" ELSE "backendJson"}

\* sizeCappedBackend.Put refuses the payload: the adapter is not called.
RefuseSize(e) ==
    /\ epc[e] = "start"
    /\ ParseError(Put(e)) = "NONE"
    /\ BadPayloadSize(MaxSize, PayloadLength(ToCache(Put(e))))
    /\ \E k \in KeyChoice(Put(e)) : Settle(e, k, ClassifyBackendError("BadPayloadSize"))
    /\ Count(CallMetrics(Put(e)) \cup {"backendError"})
    /\ UNCHANGED <<handlerVars, poolVars, batch, clientVars, serverVars>>

\* The key is chosen, the decorators are passed and the client sends the Put.
Send(e) ==
    /\ epc[e] = "start"
    /\ ParseError(Put(e)) = "NONE"
    /\ ~BadPayloadSize(MaxSize, PayloadLength(ToCache(Put(e))))
    /\ \E k \in KeyChoice(Put(e)) :
          /\ uuid' = [uuid EXCEPT ![e] = k]
          /\ call' = [call EXCEPT ![e] =
                [key |-> k, payload |-> ToCache(Put(e)),
                 ttl |-> LimitedTTL(MaxTTLSeconds, Put(e).ttl)]]
    /\ attempt' = [attempt EXCEPT ![e] = 1]
    /\ wire' = [wire EXCEPT ![e] = {1}]
    /\ epc' = [epc EXCEPT ![e] = "call"]
    /\ Count(CallMetrics(Put(e)))
    /\ UNCHANGED <<handlerVars, poolVars, batch, err, reply, outcome, serverVars>>

\* The client library answers a: the adapter, the metrics and e.put end.
Finish(e, a) ==
    /\ LET x == AdapterPut(Backend, a) IN
          /\ Settle(e, IF x = "RECORD_EXISTS" THEN NoKey ELSE uuid[e],
                       IF x \in {"NONE", "RECORD_EXISTS"} THEN "NONE"
                                                          ELSE ClassifyBackendError(x))
          /\ Count({IF x = "NONE" THEN "backendDuration" ELSE "backendError"})
    /\ outcome' = [outcome EXCEPT ![e] = a.err]
    /\ UNCHANGED <<handlerVars, poolVars, batch, call, attempt, wire, reply, serverVars>>

\* The server's reply arrives.
TakeReply(e) ==
    /\ epc[e] = "call"
    /\ reply[e] # "none"
    /\ Finish(e, Replied(Backend, reply[e] = "stored"))

\* The deadline passes or the connection fails, at whatever point the call is.
GiveUp(e) ==
    /\ epc[e] = "call"
    /\ \E a \in Failures(Backend) : Finish(e, a)

\* The client library gives one attempt up and sends the Put again.
Resend(e) ==
    /\ epc[e] = "call"
    /\ attempt[e] <= ClientRetries
    /\ attempt' = [attempt EXCEPT ![e] = @ + 1]
    /\ wire' = [wire EXCEPT ![e] = @ \cup {attempt[e] + 1}]
    /\ reply' = [reply EXCEPT ![e] = "none"]
    /\ UNCHANGED <<handlerVars, poolVars, batch, elementVars, call, outcome, serverVars, count>>
-----------------------------------------------------------------------------
(* The storage server and the network. *)

\* The reply to attempt n of e reaches the client that still waits for it.
Deliver(e, n, answer) ==
    reply' = [reply EXCEPT ![e] =
                IF epc[e] = "call" /\ n = attempt[e] THEN answer ELSE @]

Written(e) == [payload |-> call[e].payload, ttl |-> call[e].ttl, by |-> e]

\* A server that stores whether or not the key exists.
Overwrite(e) ==
    \E n \in wire[e] :
       /\ store' = [store EXCEPT ![call[e].key] = Written(e)]
       /\ Deliver(e, n, "stored")
       /\ wire' = [wire EXCEPT ![e] = @ \ {n}]
       /\ UNCHANGED <<handlerVars, poolVars, batch, elementVars, call, attempt, outcome,
                      config, expired, blocker, count>>

\* The write-if-absent of the server stores the record.
ServerStores(e) ==
    \E n \in wire[e] :
       /\ store[call[e].key] = NoRecord
       /\ store' = [store EXCEPT ![call[e].key] = Written(e)]
       /\ Deliver(e, n, "stored")
       /\ wire' = [wire EXCEPT ![e] = @ \ {n}]
       /\ UNCHANGED <<handlerVars, poolVars, batch, elementVars, call, attempt, outcome,
                      config, expired, blocker, count>>

\* The write-if-absent of the server finds a record.
ServerRefuses(e) ==
    \E n \in wire[e] :
       /\ store[call[e].key] # NoRecord
       /\ Deliver(e, n, "exists")
       /\ wire' = [wire EXCEPT ![e] = @ \ {n}]
       /\ blocker' = [blocker EXCEPT ![e] = store[call[e].key].by]
       /\ UNCHANGED <<handlerVars, poolVars, batch, elementVars, call, attempt, outcome,
                      config, store, expired, count>>

\* An attempt is lost on its way to the server.
LoseAttempt(e) ==
    /\ Backend # "memory"
    /\ \E n \in wire[e] : wire' = [wire EXCEPT ![e] = @ \ {n}]
    /\ UNCHANGED <<handlerVars, poolVars, batch, elementVars, call, attempt, reply,
                   outcome, serverVars, count>>

\* A record reaches its time to live or is evicted.
Expire(k) ==
    /\ RecordsExpire(Backend)
    /\ store[k] # NoRecord
    /\ store' = [store EXCEPT ![k] = NoRecord]
    /\ expired' = expired \cup {k}
    /\ UNCHANGED <<handlerVars, poolVars, batch, elementVars, clientVars, config, blocker,
                   count>>

Handler(r) == \/ ReadFails(r) \/ TakeRequestObject(r) \/ Decode(r) \/ RejectBody(r)
              \/ StartElements(r) \/ Collect(r) \/ Encode(r) \/ Release(r) \/ Reply(r)
Goroutine(e) == RejectElement(e) \/ NoRandomness(e) \/ RefuseSize(e) \/ Send(e)
Client(e)  == TakeReply(e) \/ GiveUp(e) \/ Resend(e)
Server(e)  == ServerStores(e) \/ ServerRefuses(e) \/ LoseAttempt(e)

\* Every request has been answered and nothing is left on the network.
AllAnswered == (\A r \in Request : pc[r] = "done") /\ \A e \in Element : wire[e] = {}
Terminated  == AllAnswered /\ UNCHANGED vars

Next == \/ \E r \in Request : Receive(r) \/ Handler(r)
        \/ \E e \in Element : Goroutine(e) \/ Client(e) \/ Server(e)
        \/ \E k \in Key : Expire(k)
        \/ Terminated

Spec == Init /\ [][Next]_vars
-----------------------------------------------------------------------------
(* Properties. *)

\* Element e was answered in a 200, with the uuid AckKey(e).
Acked(e)  == /\ pc[e[1]] = "done" /\ result[e[1]].err = "NONE"
             /\ e[2] \in 1..Len(result[e[1]].uuids)
AckKey(e) == result[e[1]].uuids[e[2]]

\* A uuid in an answer is a key under which this element's own value is
\* stored, for a time within the configured limit and the requested one, until
\* it expires: whatever the other requests, the resends and late writes do.
AckedRecordKept ==
    \A e \in Element :
       Acked(e) /\ AckKey(e) # NoKey =>
          \/ AckKey(e) \in expired
          \/ LET k == AckKey(e)
                 p == body[e[1]].puts[e[2]] IN
             /\ store[k] # NoRecord /\ store[k].by = e
             /\ store[k].payload = ToCache(p)
             /\ store[k].ttl \in 1..EnforcedMaxTTL(MaxTTLSeconds)
             /\ p.ttl > 0 => store[k].ttl <= p.ttl

Accepted(b) == b.kind \in {"noPuts", "puts"} /\ Len(b.puts) <= MaxNumValues

\* The answer is made from this request's elements alone, all of which have
\* ended: their uuids, or the error of the first that failed, whatever objects
\* the pools hand to the other requests meanwhile.
AnswerFromOwnElements ==
    \A r \in Request :
       pc[r] = "done" /\ Accepted(body[r]) =>
          LET I == 1..Len(body[r].puts) IN
          /\ \A i \in I : epc[<<r, i>>] = "done"
          /\ \/ /\ result[r].err = "NONE"
                /\ result[r].uuids = [i \in I |-> uuid[<<r, i>>]]
                /\ \A i \in I : err[<<r, i>>] = "NONE"
             \/ /\ result[r].err # "NONE"
                /\ \E i \in I : /\ err[<<r, i>>] = result[r].err
                                /\ \A j \in I : j < i => err[<<r, j>>] = "NONE"

\* A body that is refused starts no goroutine and is answered with a 400.
RefusedBodyStartsNothing ==
    \A r \in Request :
       pc[r] = "done" /\ ~Accepted(body[r]) =>
          /\ StatusCode(result[r].err) = 400
          /\ \A i \in Slot : epc[<<r, i>>] = "none"

\* An object of a pool has at most one holder, and is in the pool only when it
\* has none: no path gives one back twice or too early.
ObjectsHaveOneHolder ==
    /\ \A r \in Request : reqObj[r] \notin reqPool /\ respObj[r] \notin respPool
    /\ \A q, r \in Request :
          q # r => /\ reqObj[q] = reqObj[r] => reqObj[q] = NoObject
                   /\ respObj[q] = respObj[r] => respObj[q] = NoObject

\* An empty uuid in a 200 means that the key was taken, and by another element
\* unless the client library has resent this one's Put: no failure of the
\* back-end passes for an existing record, "the only instance where an
\* unsuccessful Put is not considered an error" (README.md:177).
EmptyUuidMeansTaken ==
    \A e \in Element :
       Acked(e) /\ AckKey(e) = NoKey =>
          /\ blocker[e] # NoElement
          /\ blocker[e] = e => attempt[e] > 1

\* A Put whose deadline passes is answered with the "status code for errors due
\* to a downstream dependency timeout" (errors.go:27).
TimeoutAnswered597 ==
    \A e \in Element :
       outcome[e] \in {"context.DeadlineExceeded", "url.Error"} =>
          StatusCode(err[e]) = HTTPDependencyTimeout

\* Unless setting keys is allowed, no key a client asks for is stored under or
\* answered.
CustomKeysNeedPermission ==
    ~AllowKeys => \A k \in CustomKey \ UUID :
                     /\ store[k] = NoRecord
                     /\ \A e \in Element : Acked(e) => AckKey(e) # k

InStates(S)   == Cardinality({r \in Request : pc[r] \in S})
Answered(lo, hi) ==
    Cardinality({r \in Request : pc[r] = "done" /\ StatusCode(result[r].err) \in lo..hi})

\* Every request is counted once when it comes and once, in the class of its
\* status, when it is answered; every decorated Put once under its format and
\* once under its outcome.
MetricsBalance ==
    /\ count["total"] = InStates({"read", "decode", "start", "wait", "encode",
                                  "release", "reply", "done"})
    /\ count["duration"] = Answered(200, 200)
    /\ count["badRequest"] = Answered(400, 499)
    /\ count["error"] = Answered(500, 599)
    /\ count["backendXml"] + count["backendJson"] =
          count["backendError"] + count["backendDuration"]
          + Cardinality({e \in Element : epc[e] = "call"})

\* POST /cache keeps its contract: whatever the pools, the goroutines, the
\* client libraries and the network do, each step is one of the contract or is
\* invisible to it, and the answer comes after what it promises.
Contract == INSTANCE PutContract WITH
    Batch <- {b.puts : b \in Bodies}, MaxTTL <- EnforcedMaxTTL(MaxTTLSeconds),
    content <- store, gone <- expired,
    phase <- [r \in Request |-> IF pc[r] = "idle" THEN "idle"
                                ELSE IF pc[r] = "done" THEN "answered" ELSE "asked"],
    asked <- [r \in Request |-> body[r].puts],
    answer <- [r \in Request |-> IF pc[r] = "done" THEN result[r] ELSE NoResult]

ContractKept == Contract!Spec

\* "none of the values will be retrievable" (README.md:55): a request that is
\* answered with an error has stored nothing.
FailedRequestStoresNothing ==
    \A r \in Request : pc[r] = "done" /\ result[r].err # "NONE" =>
       \A k \in Key : store[k] # NoRecord => store[k].by[1] # r
=============================================================================
