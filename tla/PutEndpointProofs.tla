-------------------------- MODULE PutEndpointProofs --------------------------
(***************************************************************************)
(* For every set of requests, bodies and configurations, and for each of   *)
(* the six back-ends: the objects of the pools have one holder at a time,  *)
(* an answer is made of its own request's elements, and a uuid in an       *)
(* answer is a key its own value is under.                                 *)
(***************************************************************************)
EXTENDS PutEndpointInv, TLAPS

USE PutAssumption, NoElementAssumption, NoRecordAssumption
USE DEF VarTypes, Statements

-----------------------------------------------------------------------------
(* The operators the model is built from. *)

LEMMA ParseErrorType == \A p : ParseError(p) \in PBCError \cup {"NONE"}
BY DEF ParseError, PBCError, BadRequestErrors

LEMMA ClassifyType == \A x : ClassifyBackendError(x) \in PBCError /\ ClassifyBackendError(x) # "NONE"
BY DEF ClassifyBackendError, PBCError, BadRequestErrors, InternalErrors, TimeoutErrors

\* An adapter reports success exactly when the server stored the value.
LEMMA AdapterReply ==
    ASSUME NEW b \in Backends, NEW stored \in BOOLEAN
    PROVE  /\ Replied(b, stored) \in ClientAnswer
           /\ AdapterPut(b, Replied(b, stored)) = IF stored THEN "NONE" ELSE "RECORD_EXISTS"
BY DEF AdapterPut, Replied, MemoryPut, MemcachePut, RedisPut, CassandraPut, AerospikePut,
       IgnitePut, PassedOn, ClientAnswer, ClientError, Backends

LEMMA AdapterFailure ==
    ASSUME NEW b \in Backends, NEW a \in Failures(b)
    PROVE  a \in ClientAnswer /\ AdapterPut(b, a) # "NONE"
BY DEF AdapterPut, Failures, MemoryPut, MemcachePut, RedisPut, CassandraPut, AerospikePut,
       IgnitePut, PassedOn, ClientAnswer, ClientError, Backends

\* What passes the parse can be stored.
LEMMA ParsedPut ==
    ASSUME NEW p \in PutObject, ParseError(p) = "NONE"
    PROVE  /\ ToCache(p) \in Payload
           /\ KeyChoice(p) \subseteq Key
           /\ LimitedTTL(MaxTTLSeconds, p.ttl) \in 1..EnforcedMaxTTL(MaxTTLSeconds)
           /\ LimitedTTL(MaxTTLSeconds, p.ttl) \in Int
           /\ p.ttl > 0 => LimitedTTL(MaxTTLSeconds, p.ttl) <= p.ttl
BY DEF ParseError, ToCache, Payload, KeyChoice, HasOwnKey, Key, PutObject, LimitedTTL,
       EnforcedMaxTTL, REQUEST_MAX_TTL_SECONDS

LEMMA CountType ==
    ASSUME NEW S, count \in [Metrics -> Nat], Count(S) PROVE count' \in [Metrics -> Nat]
BY DEF Count

-----------------------------------------------------------------------------
(* Type correctness. *)

LEMMA BackendType == Types => Backend \in Backends /\ ClientRetries \in Nat
BY DEF Types, Config, Backend, ClientRetries

LEMMA InitType == Init => Types
BY BackendType DEF Init, Types, Config, ClientRetries, EmptyBody, NoResult, Body, NoCall, PBCError, Metrics

\* While a handler waits and encodes, its array is its own.
LEMMA OwnArray ==
    ASSUME Inv, NEW r \in Request, pc[r] \in {"wait", "encode"}
    PROVE  /\ owner[respObj[r]] = r
           /\ batch[r] = body[r].puts
           /\ Len(batch[r]) \in 0..MaxNumValues
           /\ \A i \in 1..Len(batch[r]) : <<r, i>> \in Element
           /\ Failed(r) = {i \in 1..Len(body[r].puts) : err[<<r, i>>] # "NONE"}
<1>1. /\ owner[respObj[r]] = r
      /\ batch[r] = body[r].puts
      /\ Accepted(body[r])
      /\ batch[r] \in Seq(PutObject)
  BY DEF Inv, Contents, HoldingResp, Holding, Started, Types
<1>2. Len(batch[r]) \in 0..MaxNumValues
  BY <1>1 DEF Accepted
<1> QED
  BY <1>1, <1>2 DEF Element, Slot, Failed

\* A goroutine works on an element of its batch.
LEMMA OwnElement ==
    ASSUME Inv, NEW e \in Element, epc[e] # "none"
    PROVE  /\ e[1] \in Request /\ e[2] \in Slot /\ e = <<e[1], e[2]>>
           /\ e[2] \in 1..Len(batch[e[1]])
           /\ Put(e) \in PutObject
BY DEF Inv, Goroutines, Types, Element, Slot, Put

LEMMA TypeStep == Inv /\ [Next]_vars => Types'
<1> SUFFICES ASSUME Inv, [Next]_vars PROVE Types'
  OBVIOUS
<1>0. Types
  BY DEF Inv
<1> USE <1>0 DEF handlerVars, poolVars, elementVars, clientVars, serverVars, Goto, Fail,
                 Succeed, ClientRetries
<1>1. ASSUME NEW r \in Request, Receive(r) PROVE Types'
  BY <1>1, CountType DEF Receive, Types
<1>2. ASSUME NEW r \in Request, ReadFails(r) PROVE Types'
  BY <1>2 DEF ReadFails, Types, PBCError, BadRequestErrors
<1>3. ASSUME NEW r \in Request, TakeRequestObject(r) PROVE Types'
  BY <1>3 DEF TakeRequestObject, Types
<1>4. ASSUME NEW r \in Request, Decode(r) PROVE Types'
  <2>1. Decoded(r) \in Seq(PutObject)
    BY <1>4 DEF Decode, Decoded, Types, Body, Inv, Holders, Holding
  <2> QED
    BY <1>4, <2>1 DEF Decode, Types
<1>5. ASSUME NEW r \in Request, RejectBody(r) PROVE Types'
  <2>1. Decoded(r) \in Seq(PutObject) /\ reqObj[r] \in Object
    BY <1>5 DEF RejectBody, Decoded, Types, Body, Inv, Holders, Holding
  <2>2. \E x \in PBCError : Fail(r, x)
    BY <1>5 DEF RejectBody, PBCError, BadRequestErrors
  <2> QED
    BY <1>5, <2>1, <2>2 DEF RejectBody, Types
<1>6. ASSUME NEW r \in Request, StartElements(r) PROVE Types'
  <2>1. reqObj[r] \in Object
    BY <1>6 DEF StartElements, Types, Inv, Holders, Holding
  <2> QED
    BY <1>6, <2>1 DEF StartElements, Types
<1>7. ASSUME NEW r \in Request, Collect(r) PROVE Types'
  <2>1. /\ owner[respObj[r]] = r
        /\ Failed(r) \subseteq 1..Len(batch[r])
        /\ \A i \in 1..Len(batch[r]) : <<r, i>> \in Element
    BY <1>7, OwnArray DEF Collect
  <2>2. CASE Failed(r) = {}
    <3>1. Goto(r, "encode") /\ UNCHANGED result
      BY <1>7, <2>2 DEF Collect
    <3> QED
      BY <1>7, <3>1 DEF Collect, Types
  <2>3. CASE Failed(r) # {}
    <3>1. PICK i \in Failed(r) : Fail(r, err[<<owner[respObj[r]], i>>]) /\ Goto(r, "release")
      BY <1>7, <2>3 DEF Collect
    <3>2. err[<<owner[respObj[r]], i>>] \in PBCError \cup {"NONE"}
      BY <2>1, <3>1 DEF Types
    <3> QED
      BY <1>7, <3>1, <3>2 DEF Collect, Types
  <2> QED
    BY <2>2, <2>3
<1>8. ASSUME NEW r \in Request, Encode(r) PROVE Types'
  <2>1. [i \in 1..Len(batch[r]) |-> uuid[<<r, i>>]] \in Seq(Key \cup {NoKey})
    BY <1>8, OwnArray DEF Encode, Types
  <2>2. result' = [result EXCEPT ![r] = [err |-> "NONE",
                     uuids |-> [i \in 1..Len(batch[r]) |-> uuid[<<r, i>>]]]]
    BY <1>8, OwnArray DEF Encode
  <2>3. result' \in [Request -> [err : PBCError \cup {"NONE"}, uuids : Seq(Key \cup {NoKey})]]
    BY <2>1, <2>2 DEF Types
  <2> QED
    BY <1>8, <2>3 DEF Encode, Types
<1>9. ASSUME NEW r \in Request, Release(r) PROVE Types'
  <2>1. reqObj[r] \in Object /\ respObj[r] \in Object
    BY <1>9 DEF Release, Types, Inv, Holders, Holding, HoldingResp
  <2> QED
    BY <1>9, <2>1 DEF Release, Types
<1>10. ASSUME NEW r \in Request, Reply(r) PROVE Types'
  BY <1>10, CountType DEF Reply, Types
<1>11. ASSUME NEW e \in Element, RejectElement(e) PROVE Types'
  BY <1>11, ParseErrorType DEF RejectElement, Settle, Types
<1>12. ASSUME NEW e \in Element, NoRandomness(e) PROVE Types'
  BY <1>12 DEF NoRandomness, Settle, Types, PBCError, InternalErrors
<1>13. ASSUME NEW e \in Element, RefuseSize(e) PROVE Types'
  <2>1. KeyChoice(Put(e)) \subseteq Key
    BY <1>13, OwnElement, ParsedPut DEF RefuseSize
  <2> QED
    BY <1>13, <2>1, ClassifyType, CountType DEF RefuseSize, Settle, Types
<1>14. ASSUME NEW e \in Element, Send(e) PROVE Types'
  <2>1. /\ KeyChoice(Put(e)) \subseteq Key
        /\ ToCache(Put(e)) \in Payload
        /\ LimitedTTL(MaxTTLSeconds, Put(e).ttl) \in Int
    BY <1>14, OwnElement, ParsedPut DEF Send
  <2>2. /\ uuid' \in [Element -> Key \cup {NoKey}]
        /\ call' \in [Element -> Call \cup {NoCall}]
    BY <1>14, <2>1 DEF Send, Types, Call
  <2>3. /\ attempt' \in [Element -> 0..(ClientRetries + 1)]
        /\ wire' \in [Element -> SUBSET (1..(ClientRetries + 1))]
    BY <1>14, BackendType DEF Send, Types
  <2>4. epc' \in [Element -> {"none", "start", "call", "done"}]
    BY <1>14 DEF Send, Types
  <2>5. count' \in [Metrics -> Nat]
    BY <1>14, CountType DEF Send, Types
  <2>6. UNCHANGED <<handlerVars, poolVars, batch, err, reply, outcome, serverVars>>
    BY <1>14 DEF Send
  <2> QED
    BY <2>2, <2>3, <2>4, <2>5, <2>6 DEF Types
<1>15. ASSUME NEW e \in Element, NEW a \in ClientAnswer, Finish(e, a) PROVE Types'
  <2> DEFINE x == AdapterPut(Backend, a)
  <2>1. /\ uuid' \in [Element -> Key \cup {NoKey}]
        /\ epc' \in [Element -> {"none", "start", "call", "done"}]
    BY <1>15 DEF Finish, Settle, Types
  <2>2. err' = [err EXCEPT ![e] = IF x \in {"NONE", "RECORD_EXISTS"}
                                   THEN "NONE" ELSE ClassifyBackendError(x)]
    BY <1>15 DEF Finish, Settle
  <2>3. err' \in [Element -> PBCError \cup {"NONE"}]
    <3> HIDE DEF x
    <3> QED
      BY <2>2, ClassifyType DEF Types
  <2>4. outcome' \in [Element -> ClientError \cup {"none"}]
    BY <1>15 DEF Finish, Types, ClientAnswer
  <2>5. count' \in [Metrics -> Nat]
    BY <1>15, CountType DEF Finish, Types
  <2>6. /\ UNCHANGED <<config, pc, body, reqObj, respObj, reqPool, respPool, puts, owner>>
        /\ UNCHANGED <<batch, result, call, attempt, wire, reply, store, expired, blocker>>
    BY <1>15, Zenon DEF Finish, handlerVars, poolVars, serverVars
  <2>7. ClientRetries' = ClientRetries
    BY <2>6 DEF ClientRetries
  <2> QED
    BY <2>1, <2>3, <2>4, <2>5, <2>6, <2>7, Zenon DEF Types, VarTypes
<1>16. ASSUME NEW e \in Element, TakeReply(e) PROVE Types'
  BY <1>15, <1>16, BackendType, AdapterReply DEF TakeReply
<1>17. ASSUME NEW e \in Element, GiveUp(e) PROVE Types'
  BY <1>15, <1>17, BackendType, AdapterFailure DEF GiveUp
<1>18. ASSUME NEW e \in Element, Resend(e) PROVE Types'
  <2>1. /\ attempt' \in [Element -> 0..(ClientRetries + 1)]
        /\ wire' \in [Element -> SUBSET (1..(ClientRetries + 1))]
        /\ reply' = [reply EXCEPT ![e] = "none"]
    BY <1>18, BackendType DEF Resend, Types
  <2>2. UNCHANGED <<handlerVars, poolVars, batch, epc, uuid, err, call, outcome,
                    serverVars, count>>
    BY <1>18 DEF Resend
  <2> QED
    BY <2>1, <2>2 DEF Types
<1>19. ASSUME NEW e \in Element, ServerStores(e) PROVE Types'
  <2>1. PICK n \in wire[e] : ServerStores(e)!(n)
    BY <1>19 DEF ServerStores
  <2>2. call[e] \in Call
    BY <2>1 DEF Inv, Goroutines, Calls
  <2>3. Written(e) \in Record
    BY <2>2 DEF Written, Record, Call
  <2> QED
    BY <2>1, <2>2, <2>3 DEF Deliver, Types, Call
<1>20. ASSUME NEW e \in Element, ServerRefuses(e) PROVE Types'
  <2>1. PICK n \in wire[e] : ServerRefuses(e)!(n)
    BY <1>20 DEF ServerRefuses
  <2>2. call[e] \in Call
    BY <2>1 DEF Inv, Goroutines, Calls
  <2>3. store[call[e].key].by \in Element
    BY <2>1, <2>2 DEF Inv, Stored, Call
  <2> QED
    BY <2>1, <2>3 DEF Deliver, Types
<1>21. ASSUME NEW e \in Element, LoseAttempt(e) PROVE Types'
  BY <1>21 DEF LoseAttempt, Types
<1>22. ASSUME NEW k \in Key, Expire(k) PROVE Types'
  BY <1>22 DEF Expire, Types
<1>23. CASE UNCHANGED vars
  BY <1>23 DEF vars, Types
<1> QED
  BY <1>1, <1>2, <1>3, <1>4, <1>5, <1>6, <1>7, <1>8, <1>9, <1>10, <1>11, <1>12, <1>13,
     <1>14, <1>16, <1>17, <1>18, <1>19, <1>20, <1>21, <1>22, <1>23
     DEF Next, Handler, Goroutine, Client, Server, Terminated
-----------------------------------------------------------------------------
(* What the groups of actions leave alone. *)

LEMMA HandlerFrame ==
    ASSUME NEW r \in Request, Receive(r) \/ Handler(r)
    PROVE  UNCHANGED <<uuid, err, clientVars, serverVars>>
BY DEF Receive, Handler, ReadFails, TakeRequestObject, Decode, RejectBody, StartElements,
       Collect, Encode, Release, Reply, elementVars, clientVars, serverVars

LEMMA ElementFrame ==
    ASSUME NEW e \in Element, Goroutine(e) \/ Client(e) \/ Server(e)
    PROVE  UNCHANGED <<handlerVars, poolVars, batch>>
BY DEF Goroutine, Client, Server, RejectElement, NoRandomness, RefuseSize, Send, TakeReply,
       GiveUp, Finish, Resend, ServerStores, ServerRefuses, LoseAttempt, handlerVars, poolVars

LEMMA ExpireFrame ==
    ASSUME NEW k \in Key, Expire(k)
    PROVE  UNCHANGED <<handlerVars, poolVars, batch, elementVars, clientVars>>
BY DEF Expire, handlerVars, poolVars, elementVars, clientVars

\* The cases of a step, for the invariants about the handlers.
LEMMA HandlerCases ==
    ASSUME [Next]_vars
    PROVE  \/ \E r \in Request : Receive(r) \/ Handler(r)
           \/ UNCHANGED <<handlerVars, poolVars, batch>>
BY ElementFrame, ExpireFrame DEF Next, Terminated, vars, handlerVars, poolVars
\* Collect either goes on to encode or returns an error.
LEMMA CollectMoves ==
    ASSUME NEW r \in Request, Collect(r)
    PROVE  /\ pc[r] = "wait"
           /\ UNCHANGED <<body, poolVars, batch, elementVars>>
           /\ \/ Failed(r) = {} /\ Goto(r, "encode") /\ UNCHANGED result
              \/ Failed(r) # {} /\ Goto(r, "release")
<1>1. CASE Failed(r) = {}
  BY <1>1 DEF Collect
<1>2. CASE Failed(r) # {}
  <2>1. PICK i \in Failed(r) : Goto(r, "release")
    BY <1>2 DEF Collect
  <2> QED
    BY <1>2, <2>1 DEF Collect
<1> QED
  BY <1>1, <1>2

\* A handler goes from statement to statement.
LEMMA HandlerMoves ==
    ASSUME NEW r \in Request, Receive(r) \/ Handler(r)
    PROVE  pc[r] \notin {"done", "lost"} /\ \E label \in Statements : Goto(r, label)
<1>1. CASE Receive(r) \/ ReadFails(r) \/ TakeRequestObject(r)
  BY <1>1 DEF Receive, ReadFails, TakeRequestObject
<1>2. CASE Decode(r) \/ RejectBody(r) \/ StartElements(r)
  BY <1>2 DEF Decode, RejectBody, StartElements
<1>3. CASE Collect(r)
  BY <1>3, CollectMoves
<1>4. CASE Encode(r) \/ Release(r) \/ Reply(r)
  BY <1>4 DEF Encode, Release, Reply
<1> QED
  BY <1>1, <1>2, <1>3, <1>4 DEF Handler

LEMMA LabelsStep == pc \in [Request -> Statements] /\ [Next]_vars => pc' \in [Request -> Statements]
BY HandlerCases, HandlerMoves DEF Goto, handlerVars

LEMMA LostStays ==
    ASSUME Types, [Next]_vars
    PROVE  /\ \A r \in Request : pc'[r] = "lost" <=> pc[r] = "lost"
           /\ \A e \in Element : Killed(e)' = Killed(e)
<1>1. \A r \in Request : pc'[r] = "lost" <=> pc[r] = "lost"
  BY HandlerCases, HandlerMoves DEF Goto, handlerVars, Types
<1> QED
  BY <1>1 DEF Killed, Element

\* A handler's step is about its own request.
LEMMA HandlerOther ==
    ASSUME Types, NEW q \in Request, Receive(q) \/ Handler(q), NEW r \in Request, q # r
    PROVE  pc'[r] = pc[r] /\ body'[r] = body[r] /\ result'[r] = result[r]
<1>1. CASE Collect(q)
  <2>1. body' = body
    BY <1>1 DEF Collect
  <2>2. /\ result' = result \/ \E x : Fail(q, x)
        /\ Goto(q, "encode") \/ Goto(q, "release")
    BY <1>1 DEF Collect
  <2>3. pc \in [Request -> Statements \cup {"lost"}]
    BY DEF Types
  <2>4. pc'[r] = pc[r]
    BY <2>2, <2>3 DEF Goto
  <2>5. result \in [Request -> [err : PBCError \cup {"NONE"}, uuids : Seq(Key \cup {NoKey})]]
    BY DEF Types
  <2>6. result'[r] = result[r]
    BY <2>2, <2>5 DEF Fail
  <2> QED
    BY <2>1, <2>4, <2>6
<1>2. CASE ~Collect(q)
  <2> USE DEF Types, Goto, Fail, Succeed
  <2>1. CASE Receive(q) \/ ReadFails(q)
    BY <2>1 DEF Receive, ReadFails
  <2>2. CASE TakeRequestObject(q) \/ Decode(q)
    BY <2>2 DEF TakeRequestObject, Decode
  <2>3. CASE RejectBody(q)
    BY <2>3 DEF RejectBody
  <2>4. CASE StartElements(q) \/ Encode(q)
    BY <2>4 DEF StartElements, Encode
  <2>5. CASE Release(q) \/ Reply(q)
    BY <2>5 DEF Release, Reply
  <2> QED
    BY <1>2, <2>1, <2>2, <2>3, <2>4, <2>5 DEF Handler
<1> QED
  BY <1>1, <1>2
-----------------------------------------------------------------------------
(* The pools. *)

LEMMA HoldersStep == Inv /\ [Next]_vars => Holders'
<1> SUFFICES ASSUME Inv, [Next]_vars PROVE Holders'
  OBVIOUS
<1>0. Types /\ Holders
  BY DEF Inv
<1> USE <1>0 DEF Holders, ObjectsHaveOneHolder, Holding, HoldingResp, Goto
<1>1. ASSUME NEW r \in Request, Receive(r) PROVE Holders'
  BY <1>1 DEF Receive, Types, poolVars
<1>2. ASSUME NEW r \in Request, ReadFails(r) PROVE Holders'
  BY <1>2 DEF ReadFails, Types, poolVars
<1>3. ASSUME NEW r \in Request, TakeRequestObject(r) PROVE Holders'
  BY <1>3 DEF TakeRequestObject, Types
<1>4. ASSUME NEW r \in Request, Decode(r) PROVE Holders'
  BY <1>4 DEF Decode, Types
<1>5. ASSUME NEW r \in Request, RejectBody(r) PROVE Holders'
  BY <1>5 DEF RejectBody, Types
<1>6. ASSUME NEW r \in Request, StartElements(r) PROVE Holders'
  BY <1>6 DEF StartElements, Types
<1>7. ASSUME NEW r \in Request, Collect(r) PROVE Holders'
  <2>1. pc[r] = "wait" /\ UNCHANGED <<body, poolVars, batch, elementVars>>
    BY <1>7, CollectMoves
  <2>2. CASE Goto(r, "encode")
    BY <2>1, <2>2 DEF Types, poolVars
  <2>3. CASE Goto(r, "release")
    BY <2>1, <2>3 DEF Types, poolVars
  <2> QED
    BY <1>7, <2>2, <2>3, CollectMoves
<1>8. ASSUME NEW r \in Request, Encode(r) PROVE Holders'
  BY <1>8 DEF Encode, Types, poolVars
<1>9. ASSUME NEW r \in Request, Release(r) PROVE Holders'
  BY <1>9 DEF Release, Types
<1>10. ASSUME NEW r \in Request, Reply(r) PROVE Holders'
  BY <1>10 DEF Reply, Types, poolVars
<1>11. CASE UNCHANGED <<handlerVars, poolVars, batch>>
  BY <1>11 DEF handlerVars, poolVars
<1> QED
  BY <1>1, <1>2, <1>3, <1>4, <1>5, <1>6, <1>7, <1>8, <1>9, <1>10, <1>11, HandlerCases
     DEF Handler

LEMMA ContentsStep == Inv /\ [Next]_vars => Contents'
<1> SUFFICES ASSUME Inv, [Next]_vars PROVE Contents'
  OBVIOUS
<1>0. Types /\ Holders /\ Contents
  BY DEF Inv
<1> USE <1>0 DEF Holding, HoldingResp, Replying, Started, Goto
<1>1. ASSUME NEW r \in Request, Receive(r) PROVE Contents'
  BY <1>1 DEF Receive, Types, Contents, poolVars
<1>2. ASSUME NEW r \in Request, ReadFails(r) PROVE Contents'
  BY <1>2 DEF ReadFails, Types, Contents, Accepted, poolVars
<1>3. ASSUME NEW r \in Request, TakeRequestObject(r) PROVE Contents'
  BY <1>3 DEF TakeRequestObject, Types, Contents, Holders, ObjectsHaveOneHolder
<1>4. ASSUME NEW r \in Request, Decode(r) PROVE Contents'
  BY <1>4 DEF Decode, Decoded, Types, Contents, Holders, ObjectsHaveOneHolder, Accepted, Body
<1>5. ASSUME NEW r \in Request, RejectBody(r) PROVE Contents'
  BY <1>5 DEF RejectBody, Decoded, Types, Contents, Holders, ObjectsHaveOneHolder, Accepted,
              Body
<1>6. ASSUME NEW r \in Request, StartElements(r) PROVE Contents'
  BY <1>6 DEF StartElements, Types, Contents, Holders, ObjectsHaveOneHolder
<1>7. ASSUME NEW r \in Request, Collect(r) PROVE Contents'
  <2>1. pc[r] = "wait" /\ UNCHANGED <<body, poolVars, batch, elementVars>>
    BY <1>7, CollectMoves
  <2>2. CASE Goto(r, "encode")
    BY <2>1, <2>2 DEF Types, Contents, poolVars
  <2>3. CASE Goto(r, "release")
    BY <2>1, <2>3 DEF Types, Contents, poolVars
  <2> QED
    BY <1>7, <2>2, <2>3, CollectMoves
<1>8. ASSUME NEW r \in Request, Encode(r) PROVE Contents'
  BY <1>8 DEF Encode, Types, Contents, poolVars
<1>9. ASSUME NEW r \in Request, Release(r) PROVE Contents'
  BY <1>9 DEF Release, Types, Contents
<1>10. ASSUME NEW r \in Request, Reply(r) PROVE Contents'
  BY <1>10 DEF Reply, Types, Contents, poolVars
<1>11. CASE UNCHANGED <<handlerVars, poolVars, batch>>
  BY <1>11 DEF handlerVars, poolVars, Contents
<1> QED
  BY <1>1, <1>2, <1>3, <1>4, <1>5, <1>6, <1>7, <1>8, <1>9, <1>10, <1>11, HandlerCases
     DEF Handler
-----------------------------------------------------------------------------
(* The elements. *)

LEMMA ElementCases ==
    ASSUME [Next]_vars
    PROVE  \/ \E r \in Request : StartElements(r)
           \/ \E e \in Element : Goroutine(e) \/ Client(e) \/ Server(e)
           \/ \E k \in Key : Expire(k)
           \/ UNCHANGED <<batch, elementVars, clientVars, serverVars>>
<1>1. ASSUME NEW r \in Request, Receive(r) \/ Handler(r), ~StartElements(r)
      PROVE  UNCHANGED <<batch, elementVars, clientVars, serverVars>>
  <2>1. CASE Receive(r) \/ ReadFails(r) \/ TakeRequestObject(r)
    BY <2>1 DEF Receive, ReadFails, TakeRequestObject
  <2>2. CASE Decode(r) \/ RejectBody(r)
    BY <2>2 DEF Decode, RejectBody
  <2>3. CASE Collect(r) \/ Encode(r) \/ Release(r) \/ Reply(r)
    BY <2>3 DEF Collect, Encode, Release, Reply
  <2> QED
    BY <1>1, <2>1, <2>2, <2>3 DEF Handler
<1>2. CASE UNCHANGED vars
  BY <1>2 DEF vars
<1> QED
  BY <1>1, <1>2 DEF Next, Terminated

\* A handler that starts its elements had none before.
LEMMA StartFresh ==
    ASSUME Inv, NEW r \in Request, StartElements(r)
    PROVE  /\ \A e \in Element : e[1] = r => epc[e] = "none" /\ call[e] = NoCall
           /\ batch' = [batch EXCEPT ![r] = puts[reqObj[r]]]
           /\ \A e \in Element : epc'[e] =
                 IF e[1] = r /\ e[2] <= Len(puts[reqObj[r]]) THEN "start" ELSE epc[e]
           /\ UNCHANGED <<uuid, err, clientVars, serverVars>>
<1>1. batch[r] = <<>>
  BY DEF StartElements, Inv, Contents, Started, HoldingResp, Replying
<1>2. \A e \in Element : e[1] = r => ~Killed(e) /\ ~(e[2] <= Len(batch[e[1]]))
  BY <1>1 DEF Element, Slot, StartElements, Killed
<1> QED
  BY <1>2 DEF StartElements, Inv, Goroutines

LEMMA GoroutinesStep == Inv /\ [Next]_vars => Goroutines'
<1> SUFFICES ASSUME Inv, [Next]_vars PROVE Goroutines'
  OBVIOUS
<1>0. Types /\ Goroutines
  BY DEF Inv
<1> USE <1>0 DEF elementVars, clientVars, serverVars
<1>1. ASSUME NEW r \in Request, StartElements(r) PROVE Goroutines'
  <2>1. \A e \in Element : e[1] \in Request
    BY DEF Element
  <2>k. pc' = [pc EXCEPT ![r] = "wait"] /\ pc[r] = "start"
    BY <1>1 DEF StartElements, Goto
  <2>l. \A e \in Element : Killed(e)' = Killed(e)
    BY <2>1, <2>k DEF Killed, Types
  <2>2. \A e \in Element : IF Killed(e) THEN epc'[e] = "none"
                           ELSE epc'[e] # "none" <=> e[2] <= Len(batch'[e[1]])
    <3>1. \A q \in Request : batch'[q] = IF q = r THEN puts[reqObj[r]] ELSE batch[q]
      BY <1>1, StartFresh DEF Types
    <3>2. \A e \in Element : epc'[e] =
             IF e[1] = r /\ e[2] <= Len(puts[reqObj[r]]) THEN "start" ELSE epc[e]
      BY <1>1, StartFresh
    <3>3. \A e \in Element : e[1] = r => epc[e] = "none"
      BY <1>1, StartFresh
    <3> QED
      BY <2>1, <2>k, <3>1, <3>2, <3>3 DEF Goroutines, Killed
  <2>3. \A e \in Element : epc'[e] = epc[e] \/ (epc[e] = "none" /\ epc'[e] = "start")
    BY <1>1, StartFresh
  <2>4. UNCHANGED <<uuid, err, clientVars, serverVars>>
    BY <1>1, StartFresh
  <2> QED
    BY <2>2, <2>3, <2>4, <2>l DEF Goroutines
<1>f. ASSUME UNCHANGED pc PROVE \A e \in Element : Killed(e)' = Killed(e)
  BY <1>f DEF Killed
<1>2. ASSUME NEW e \in Element, RejectElement(e) PROVE Goroutines'
  BY <1>2, <1>f DEF handlerVars, RejectElement, Settle, Goroutines, Types
<1>3. ASSUME NEW e \in Element, NoRandomness(e) PROVE Goroutines'
  BY <1>3, <1>f DEF handlerVars, NoRandomness, Settle, Goroutines, Types
<1>4. ASSUME NEW e \in Element, RefuseSize(e) PROVE Goroutines'
  BY <1>4, <1>f DEF handlerVars, RefuseSize, Settle, Goroutines, Types
<1>5. ASSUME NEW e \in Element, Send(e) PROVE Goroutines'
  <2>1. call'[e] # NoCall
    BY <1>5, OwnElement, ParsedPut DEF Send, NoCall, Call, Types
  <2> QED
    BY <1>5, <2>1, <1>f DEF handlerVars, Send, Goroutines, Types
<1>6. ASSUME NEW e \in Element, NEW a \in ClientAnswer, Finish(e, a), epc[e] = "call"
      PROVE  Goroutines'
  BY <1>6, <1>f DEF handlerVars, Finish, Settle, Goroutines, Types
<1>7. ASSUME NEW e \in Element, TakeReply(e) PROVE Goroutines'
  BY <1>6, <1>7, BackendType, AdapterReply DEF TakeReply
<1>8. ASSUME NEW e \in Element, GiveUp(e) PROVE Goroutines'
  BY <1>6, <1>8, BackendType, AdapterFailure DEF GiveUp
<1>9. ASSUME NEW e \in Element, Resend(e) PROVE Goroutines'
  BY <1>9, <1>f DEF handlerVars, Resend, Goroutines, Types
<1>10. ASSUME NEW e \in Element, ServerStores(e) PROVE Goroutines'
  BY <1>10, <1>f DEF handlerVars, ServerStores, Deliver, Goroutines, Types
<1>11. ASSUME NEW e \in Element, ServerRefuses(e) PROVE Goroutines'
  BY <1>11, <1>f DEF handlerVars, ServerRefuses, Deliver, Goroutines, Types
<1>12. ASSUME NEW e \in Element, LoseAttempt(e) PROVE Goroutines'
  BY <1>12, <1>f DEF handlerVars, LoseAttempt, Goroutines, Types
<1>13. ASSUME NEW k \in Key, Expire(k) PROVE Goroutines'
  BY <1>13, <1>f DEF handlerVars, Expire, Goroutines
<1>14. CASE UNCHANGED <<batch, elementVars, clientVars, serverVars>>
  BY <1>14, LostStays DEF Goroutines
<1> QED
  BY <1>1, <1>2, <1>3, <1>4, <1>5, <1>7, <1>8, <1>9, <1>10, <1>11, <1>12, <1>13, <1>14,
     ElementCases DEF Goroutine, Client, Server

\* An element that is settled without having called the back-end.
LEMMA SettleUncalled ==
    ASSUME Inv, NEW e \in Element, NEW u, NEW x, epc[e] = "start", Settle(e, u, x),
           UNCHANGED <<handlerVars, batch, clientVars, serverVars>>
    PROVE  Calls'
<1>0. Types /\ Calls /\ Goroutines
  BY DEF Inv
<1>1. UNCHANGED <<config, batch, call>>
  BY DEF clientVars, serverVars
<1>2. call[e] = NoCall
  <2>1. ~Killed(e)
    BY <1>0 DEF Goroutines
  <2> QED
    BY <1>0, <2>1 DEF Goroutines
<1>3. ASSUME NEW y \in Element, y # e PROVE uuid'[y] = uuid[y] /\ epc'[y] = epc[y]
  BY <1>0, <1>3 DEF Settle, Types
<1>4. \A y \in Element : Put(y)' = Put(y)
  BY <1>1 DEF Put
<1> QED
  BY <1>0, <1>1, <1>2, <1>3, <1>4 DEF Calls

LEMMA CallsStep == Inv /\ [Next]_vars => Calls'
<1> SUFFICES ASSUME Inv, [Next]_vars PROVE Calls'
  OBVIOUS
<1>0. Types /\ Calls /\ Goroutines
  BY DEF Inv
<1> USE <1>0 DEF elementVars, clientVars, serverVars
<1>1. ASSUME NEW r \in Request, StartElements(r) PROVE Calls'
  <2>1. \A e \in Element : call[e] # NoCall => e[1] # r
    BY <1>1, StartFresh
  <2>2. \A e \in Element : call[e] # NoCall => Put(e)' = Put(e)
    BY <1>1, <2>1, StartFresh DEF Put, Types, Element
  <2> QED
    BY <1>1, <2>1, <2>2, StartFresh DEF Calls, Goroutines
<1>2. ASSUME NEW e \in Element, RejectElement(e) PROVE Calls'
  BY <1>2, SettleUncalled DEF RejectElement
<1>3. ASSUME NEW e \in Element, NoRandomness(e) PROVE Calls'
  BY <1>3, SettleUncalled DEF NoRandomness
<1>4. ASSUME NEW e \in Element, RefuseSize(e) PROVE Calls'
  BY <1>4, SettleUncalled DEF RefuseSize
<1>5. ASSUME NEW e \in Element, Send(e) PROVE Calls'
  <2>1. PICK k \in KeyChoice(Put(e)) :
          /\ uuid' = [uuid EXCEPT ![e] = k]
          /\ call' = [call EXCEPT ![e] = [key |-> k, payload |-> ToCache(Put(e)),
                                          ttl |-> LimitedTTL(MaxTTLSeconds, Put(e).ttl)]]
    BY <1>5 DEF Send
  <2>2. call'[e] \in Call
    BY <1>5, <2>1, OwnElement, ParsedPut DEF Send, Call, Types
  <2>3. UNCHANGED <<config, batch>> /\ ParseError(Put(e)) = "NONE"
    BY <1>5 DEF Send, serverVars
  <2>4. \A y \in Element : Put(y)' = Put(y)
    BY <2>3 DEF Put
  <2>5. \A y \in Element : y # e => call'[y] = call[y] /\ uuid'[y] = uuid[y] /\ epc'[y] = epc[y]
    BY <1>5, <2>1 DEF Send, Types
  <2>6. /\ uuid'[e] = k
        /\ call'[e] = [key |-> k, payload |-> ToCache(Put(e)),
                       ttl |-> LimitedTTL(MaxTTLSeconds, Put(e).ttl)]
    BY <2>1 DEF Types
  <2> QED
    BY <2>2, <2>3, <2>4, <2>5, <2>6 DEF Calls
<1>6. ASSUME NEW e \in Element, NEW a \in ClientAnswer, Finish(e, a), epc[e] = "call"
      PROVE  Calls'
  BY <1>6 DEF Finish, Settle, Calls, Types, Put
<1>7. ASSUME NEW e \in Element, TakeReply(e) PROVE Calls'
  BY <1>6, <1>7, BackendType, AdapterReply DEF TakeReply
<1>8. ASSUME NEW e \in Element, GiveUp(e) PROVE Calls'
  BY <1>6, <1>8, BackendType, AdapterFailure DEF GiveUp
<1>9. ASSUME NEW e \in Element, Resend(e) \/ Server(e) PROVE Calls'
  BY <1>9 DEF Resend, Server, ServerStores, ServerRefuses, LoseAttempt, Calls, Put
<1>10. ASSUME NEW k \in Key, Expire(k) PROVE Calls'
  BY <1>10 DEF Expire, Calls, Put
<1>11. CASE UNCHANGED <<batch, elementVars, clientVars, serverVars>>
  BY <1>11 DEF Calls, Put
<1> QED
  BY <1>1, <1>2, <1>3, <1>4, <1>5, <1>7, <1>8, <1>9, <1>10, <1>11, ElementCases
     DEF Goroutine, Client
-----------------------------------------------------------------------------
(* The storage server. *)

\* An element that has its record keeps it while calls stay what they are and
\* records only disappear by expiring.
LEMMA KeptStays ==
    ASSUME Inv, NEW e \in Element, Kept(e), call[e] # NoCall,
           call'[e] = call[e], expired \subseteq expired',
           \A k \in Key : store[k] # NoRecord => store'[k] = store[k] \/ k \in expired'
    PROVE  Kept(e)'
<1>1. call[e].key \in Key
  BY DEF Inv, Calls, Call
<1> QED
  BY <1>1 DEF Kept

\* A step that leaves the server alone, changes no sent call and reports no
\* success.
LEMMA ServerUntouched ==
    ASSUME Inv, UNCHANGED serverVars,
           \A e \in Element : call[e] # NoCall => call'[e] = call[e],
           \A e \in Element : reply'[e] = "stored" <=> reply[e] = "stored",
           \A e \in Element : epc'[e] = "done" /\ err'[e] = "NONE" /\ uuid'[e] # NoKey =>
              \/ epc[e] = "done" /\ err[e] = "NONE" /\ uuid[e] # NoKey
              \/ call[e] # NoCall /\ reply[e] = "stored"
    PROVE  Stored'
<1>0. Stored /\ Goroutines
  BY DEF Inv
<1> USE <1>0 DEF serverVars
<1>1. (\A k \in Key : store[k] # NoRecord =>
          /\ store[k].by \in Element
          /\ call[store[k].by] # NoCall
          /\ call[store[k].by].key = k
          /\ store[k] = Written(store[k].by))'
  <2> SUFFICES ASSUME NEW k \in Key, store[k] # NoRecord
               PROVE  (/\ store[k].by \in Element
                       /\ call[store[k].by] # NoCall
                       /\ call[store[k].by].key = k
                       /\ store[k] = Written(store[k].by))'
    OBVIOUS
  <2>1. /\ store[k].by \in Element
        /\ call[store[k].by] # NoCall
        /\ call[store[k].by].key = k
        /\ store[k] = Written(store[k].by)
    BY DEF Stored
  <2>2. call'[store[k].by] = call[store[k].by]
    BY <2>1
  <2>3. Written(store[k].by)' = Written(store[k].by)
    BY <2>2, Zenon DEF Written
  <2> QED
    BY <2>1, <2>2, <2>3
<1>2. \A e \in Element : reply'[e] = "stored" => Kept(e)'
  BY KeptStays DEF Stored, Goroutines
<1>3. \A e \in Element : epc'[e] = "done" /\ err'[e] = "NONE" /\ uuid'[e] # NoKey =>
          call'[e] # NoCall /\ reply'[e] = "stored"
  BY DEF Stored
<1> QED
  BY <1>1, <1>2, <1>3 DEF Stored

LEMMA StoredStep == Inv /\ [Next]_vars => Stored'
<1> SUFFICES ASSUME Inv, [Next]_vars PROVE Stored'
  OBVIOUS
<1>0. Types /\ Stored /\ Calls /\ Goroutines
  BY DEF Inv
<1> USE <1>0 DEF elementVars, clientVars
<1>1. ASSUME NEW r \in Request, StartElements(r) PROVE Stored'
  BY <1>1, StartFresh, ServerUntouched
<1>2. ASSUME NEW e \in Element, RejectElement(e) PROVE Stored'
  BY <1>2, ServerUntouched DEF RejectElement, Settle, Types
<1>3. ASSUME NEW e \in Element, NoRandomness(e) PROVE Stored'
  BY <1>3, ServerUntouched DEF NoRandomness, Settle, Types
<1>4. ASSUME NEW e \in Element, RefuseSize(e) PROVE Stored'
  BY <1>4, ServerUntouched, ClassifyType DEF RefuseSize, Settle, Types
<1>5. ASSUME NEW e \in Element, Send(e) PROVE Stored'
  <2>1. call[e] = NoCall
    BY <1>5 DEF Send, Goroutines
  <2>2. \A x \in Element : call[x] # NoCall => call'[x] = call[x]
    BY <1>5, <2>1 DEF Send, Types
  <2>3. \A x \in Element : epc'[x] = "done" => epc[x] = "done" /\ uuid'[x] = uuid[x]
    BY <1>5 DEF Send, Types
  <2>4. UNCHANGED <<serverVars, reply, err>>
    BY <1>5 DEF Send
  <2> QED
    BY <2>2, <2>3, <2>4, ServerUntouched
<1>6. ASSUME NEW e \in Element, TakeReply(e) PROVE Stored'
  <2>1. /\ UNCHANGED <<call, reply, serverVars>>
        /\ \A x \in Element \ {e} : /\ epc'[x] = epc[x] /\ err'[x] = err[x]
                                    /\ uuid'[x] = uuid[x]
    BY <1>6 DEF TakeReply, Finish, Settle, Types
  <2>2. uuid'[e] # NoKey => reply[e] = "stored"
    BY <1>6, BackendType, AdapterReply DEF TakeReply, Finish, Settle, Types
  <2>3. call[e] # NoCall
    BY <1>6 DEF TakeReply, Goroutines
  <2> QED
    BY <2>1, <2>2, <2>3, ServerUntouched
<1>7. ASSUME NEW e \in Element, GiveUp(e) PROVE Stored'
  <2>1. /\ UNCHANGED <<call, reply, serverVars>>
        /\ \A x \in Element \ {e} : /\ epc'[x] = epc[x] /\ err'[x] = err[x]
                                    /\ uuid'[x] = uuid[x]
        /\ uuid'[e] = NoKey \/ err'[e] # "NONE"
    BY <1>7, BackendType, AdapterFailure, ClassifyType DEF GiveUp, Finish, Settle, Types
  <2> QED
    BY <2>1, ServerUntouched
<1>8. ASSUME NEW e \in Element, Resend(e) PROVE Stored'
  <2>1. epc[e] = "call"
    BY <1>8 DEF Resend
  <2>2. /\ UNCHANGED <<elementVars, call, serverVars>>
        /\ reply' = [reply EXCEPT ![e] = "none"]
    BY <1>8 DEF Resend
  <2>3. \A x \in Element : reply'[x] = "stored" => Kept(x)'
    BY <2>2 DEF Stored, Kept, Types, serverVars
  <2> QED
    BY <2>1, <2>2, <2>3 DEF Stored, Written, Types, serverVars
<1>9. ASSUME NEW e \in Element, ServerStores(e) PROVE Stored'
  <2>1. PICK n \in wire[e] : ServerStores(e)!(n)
    BY <1>9 DEF ServerStores
  <2>2. call[e] # NoCall /\ call[e].key \in Key
    BY <2>1 DEF Goroutines, Calls, Call
  <2>3. /\ UNCHANGED <<elementVars, call, expired>>
        /\ store' = [store EXCEPT ![call[e].key] = Written(e)]
        /\ store[call[e].key] = NoRecord
    BY <2>1
  <2>4. /\ Written(e) \in Record /\ Written(e) # NoRecord /\ Written(e).by = e
        /\ \A x \in Element : Written(x)' = Written(x)
    BY <2>2, <2>3 DEF Written, Record, Calls, Call
  <2>5. \A k \in Key : store[k] # NoRecord => store'[k] = store[k]
    BY <2>2, <2>3 DEF Types
  <2>6. \A x \in Element : reply'[x] = "stored" => Kept(x)'
    <3>1. ASSUME NEW x \in Element, reply[x] = "stored" PROVE Kept(x)'
      BY <3>1, <2>3, <2>5, KeptStays DEF Stored, Goroutines
    <3>2. Kept(e)'
      BY <2>2, <2>3, <2>4 DEF Kept, Types
    <3> QED
      BY <2>1, <3>1, <3>2 DEF Deliver, Types
  <2>7. (\A k \in Key : store[k] # NoRecord =>
          /\ store[k].by \in Element
          /\ call[store[k].by] # NoCall
          /\ call[store[k].by].key = k
          /\ store[k] = Written(store[k].by))'
    BY <2>2, <2>3, <2>4 DEF Stored, Types
  <2>8. \A x \in Element : epc[x] = "done" => reply'[x] = reply[x]
    BY <2>1 DEF Deliver, Types
  <2> QED
    BY <2>3, <2>6, <2>7, <2>8 DEF Stored
<1>10. ASSUME NEW e \in Element, ServerRefuses(e) PROVE Stored'
  <2>1. PICK n \in wire[e] : ServerRefuses(e)!(n)
    BY <1>10 DEF ServerRefuses
  <2>2. /\ UNCHANGED <<elementVars, call, expired, store>>
        /\ \A x \in Element : reply'[x] = "stored" => reply[x] = "stored"
        /\ \A x \in Element : epc[x] = "done" => reply'[x] = reply[x]
    BY <2>1 DEF Deliver, Types
  <2>3. \A x \in Element : Kept(x) => Kept(x)'
    BY <2>2 DEF Kept
  <2> QED
    BY <2>2, <2>3 DEF Stored, Written
<1>11. ASSUME NEW e \in Element, LoseAttempt(e) PROVE Stored'
  BY <1>11, ServerUntouched DEF LoseAttempt
<1>12. ASSUME NEW k \in Key, Expire(k) PROVE Stored'
  <2>1. /\ store' = [store EXCEPT ![k] = NoRecord] /\ expired' = expired \cup {k}
        /\ UNCHANGED <<elementVars, clientVars>>
    BY <1>12 DEF Expire
  <2>2. \A x \in Element : reply'[x] = "stored" => Kept(x)'
    BY <2>1, KeptStays DEF Stored, Goroutines, Types
  <2> QED
    BY <2>1, <2>2 DEF Stored, Written, Types
<1>13. CASE UNCHANGED <<batch, elementVars, clientVars, serverVars>>
  BY <1>13, ServerUntouched
<1> QED
  BY <1>1, <1>2, <1>3, <1>4, <1>5, <1>6, <1>7, <1>8, <1>9, <1>10, <1>11, <1>12, <1>13,
     ElementCases DEF Goroutine, Client, Server
-----------------------------------------------------------------------------
(* The answers. *)

\* An element that has ended changes no more.
LEMMA DoneFrozen ==
    ASSUME Inv, [Next]_vars, NEW e \in Element, epc[e] = "done"
    PROVE  epc'[e] = "done" /\ uuid'[e] = uuid[e] /\ err'[e] = err[e]
<1>0. Types
  BY DEF Inv
<1> USE <1>0 DEF elementVars, Settle
<1>1. ASSUME NEW r \in Request, StartElements(r) PROVE epc'[e] = "done" /\ UNCHANGED <<uuid, err>>
  BY <1>1, StartFresh
<1>2. ASSUME NEW x \in Element, Goroutine(x)
      PROVE  epc'[e] = "done" /\ uuid'[e] = uuid[e] /\ err'[e] = err[e]
  BY <1>2 DEF Goroutine, RejectElement, NoRandomness, RefuseSize, Send, Types
<1>3. ASSUME NEW x \in Element, Client(x)
      PROVE  epc'[e] = "done" /\ uuid'[e] = uuid[e] /\ err'[e] = err[e]
  <2>1. CASE TakeReply(x)
    BY <2>1 DEF TakeReply, Finish, Types
  <2>2. CASE GiveUp(x)
    BY <2>2 DEF GiveUp, Finish, Types
  <2>3. CASE Resend(x)
    BY <2>3 DEF Resend, Types
  <2> QED
    BY <1>3, <2>1, <2>2, <2>3 DEF Client
<1>4. ASSUME NEW x \in Element, Server(x) PROVE UNCHANGED elementVars
  BY <1>4 DEF Server, ServerStores, ServerRefuses, LoseAttempt
<1>5. ASSUME NEW k \in Key, Expire(k) PROVE UNCHANGED elementVars
  BY <1>5 DEF Expire
<1> QED
  BY <1>1, <1>2, <1>3, <1>4, <1>5, ElementCases

LEMMA AcceptedElements ==
    ASSUME Inv, NEW r \in Request, Accepted(body[r])
    PROVE  /\ \A i \in 1..Len(body[r].puts) : <<r, i>> \in Element
           /\ body[r].puts \in Seq(PutObject)
<1>1. body[r].puts \in Seq(PutObject) /\ Len(body[r].puts) <= MaxNumValues
  BY DEF Inv, Types, Body, Accepted
<1> QED
  BY <1>1 DEF Element, Slot

\* The answer of a handler that does not move stays what it was.
LEMMA AnswerFrame ==
    ASSUME Inv, [Next]_vars, NEW r \in Request,
           pc'[r] = pc[r], body'[r] = body[r], result'[r] = result[r]
    PROVE  AnswerOf(r)'
<1>0. AnswerOf(r)
  BY DEF Inv, Answers
<1>1. CASE Accepted(body[r]) /\ AllDone(r)
  <2>1. \A i \in 1..Len(body[r].puts) :
           /\ epc'[<<r, i>>] = "done"
           /\ uuid'[<<r, i>>] = uuid[<<r, i>>]
           /\ err'[<<r, i>>] = err[<<r, i>>]
    BY <1>1, AcceptedElements, DoneFrozen DEF AllDone
  <2>2. AllDone(r)'
    BY <2>1 DEF AllDone
  <2>3. NoneFailed(r) => NoneFailed(r)'
    BY <2>1 DEF NoneFailed
  <2>4. ResultIsUuids(r) => ResultIsUuids(r)'
    BY <2>1, <2>3 DEF ResultIsUuids
  <2>5. ResultIsError(r) => ResultIsError(r)'
    BY <2>1 DEF ResultIsError
  <2>6. Accepted(body[r])'
    BY <1>1 DEF Accepted
  <2> QED
    BY <1>0, <1>1, <2>2, <2>3, <2>4, <2>5, <2>6 DEF AnswerOf, Replying
<1>2. CASE ~Accepted(body[r])
  <2>1. pc[r] # "encode"
    BY <1>2 DEF Inv, Contents, Holding
  <2> QED
    BY <1>0, <1>2, <2>1 DEF AnswerOf, Accepted
<1>3. CASE Accepted(body[r]) /\ ~AllDone(r)
  <2>1. pc[r] \notin {"encode", "release"} \cup Replying
    BY <1>0, <1>3 DEF AnswerOf
  <2> QED
    BY <1>0, <2>1 DEF AnswerOf, Accepted, Replying
<1> QED
  BY <1>1, <1>2, <1>3

LEMMA AnswersStep == Inv /\ [Next]_vars => Answers'
<1> SUFFICES ASSUME Inv, [Next]_vars PROVE Answers'
  OBVIOUS
<1>0. Types /\ Contents /\ Answers /\ Goroutines
  BY DEF Inv
<1> USE <1>0 DEF Replying, Goto, Fail, Succeed
<1>1. ASSUME NEW r \in Request, Receive(r) PROVE AnswerOf(r)'
  BY <1>1 DEF Receive, Types, Answers, AnswerOf
<1>2. ASSUME NEW r \in Request, ReadFails(r) PROVE AnswerOf(r)'
  BY <1>2 DEF ReadFails, Types, Answers, AnswerOf, Accepted
<1>3. ASSUME NEW r \in Request, TakeRequestObject(r) \/ Decode(r) \/ StartElements(r)
      PROVE  AnswerOf(r)'
  <2>1. CASE TakeRequestObject(r)
    <3>1. pc[r] = "read" /\ pc'[r] = "decode" /\ result' = result
      BY <2>1 DEF TakeRequestObject, Types
    <3> QED
      BY <3>1 DEF Answers, AnswerOf
  <2>2. CASE Decode(r)
    <3>1. pc[r] = "decode" /\ pc'[r] = "start" /\ result' = result
      BY <2>2 DEF Decode, Types
    <3> QED
      BY <3>1 DEF Answers, AnswerOf
  <2>3. CASE StartElements(r)
    <3>1. pc[r] = "start" /\ pc'[r] = "wait" /\ result' = result
      BY <2>3 DEF StartElements, Types
    <3> QED
      BY <3>1 DEF Answers, AnswerOf
  <2> QED
    BY <1>3, <2>1, <2>2, <2>3
<1>4. ASSUME NEW r \in Request, RejectBody(r) PROVE AnswerOf(r)'
  <2>1. ~Accepted(body[r])
    BY <1>4 DEF RejectBody, Decoded, Accepted, Contents, Types, Body
  <2>2. body' = body /\ \E x \in {"PUT_BAD_REQUEST", "PUT_MAX_NUM_VALUES"} : Fail(r, x)
    BY <1>4 DEF RejectBody
  <2>3. pc'[r] = "reply"
    BY <1>4 DEF RejectBody, Types
  <2> QED
    BY <2>1, <2>2, <2>3 DEF AnswerOf, Accepted, Types
<1>5. ASSUME NEW r \in Request, Collect(r) PROVE AnswerOf(r)'
  <2>1. pc[r] = "wait" /\ UNCHANGED <<body, epc, uuid, err>>
    BY <1>5, CollectMoves DEF elementVars
  <2>2. /\ owner[respObj[r]] = r /\ batch[r] = body[r].puts
        /\ Failed(r) = {i \in 1..Len(body[r].puts) : err[<<r, i>>] # "NONE"}
    BY <2>1, OwnArray
  <2>3. AllDone(r)
    BY <1>5, <2>2 DEF Collect, Elements, AllDone
  <2>4. Accepted(body[r])
    BY <2>1 DEF Contents, Holding
  <2>5. CASE Failed(r) = {}
    <3>0. result[r] = NoResult
      BY <2>1 DEF Answers, AnswerOf
    <3>1. pc'[r] = "encode" /\ result'[r] = NoResult
      <4>1. pc' = [pc EXCEPT ![r] = "encode"] /\ result' = result
        BY <1>5, <2>5 DEF Collect
      <4> QED
        BY <3>0, <4>1 DEF Types
    <3>2. NoneFailed(r)
      BY <2>2, <2>5 DEF NoneFailed
    <3> QED
      BY <2>1, <2>3, <3>1, <3>2 DEF AnswerOf, AllDone, NoneFailed
  <2>6. CASE Failed(r) # {}
    <3>1. PICK i \in Failed(r) : /\ \A j \in Failed(r) : i <= j
                                 /\ Fail(r, err[<<owner[respObj[r]], i>>])
                                 /\ Goto(r, "release")
      BY <1>5, <2>6 DEF Collect
    <3>2. /\ i \in 1..Len(body[r].puts) /\ err[<<r, i>>] # "NONE"
          /\ \A j \in 1..Len(body[r].puts) : j < i => err[<<r, j>>] = "NONE"
      BY <2>2, <3>1
    <3>3. pc'[r] = "release" /\ result'[r].err = err[<<r, i>>]
      BY <2>2, <3>1 DEF Types
    <3> QED
      BY <2>1, <2>3, <2>4, <3>2, <3>3 DEF AnswerOf, AllDone, NoneFailed, Accepted, ResultIsUuids, ResultIsError
  <2> QED
    BY <2>5, <2>6
<1>6. ASSUME NEW r \in Request, Encode(r) PROVE AnswerOf(r)'
  <2>1. /\ pc[r] = "encode" /\ UNCHANGED <<body, epc, uuid, err>>
        /\ pc'[r] = "release"
    BY <1>6 DEF Encode, elementVars, Types
  <2>2. /\ result'[r].err = "NONE"
        /\ result'[r].uuids = [i \in 1..Len(body[r].puts) |-> uuid[<<r, i>>]]
    BY <1>6, <2>1, OwnArray DEF Encode, Types
  <2>3. AllDone(r) /\ NoneFailed(r)
    BY <2>1 DEF Answers, AnswerOf
  <2> QED
    BY <2>1, <2>2, <2>3 DEF AnswerOf, AllDone, NoneFailed, Accepted, ResultIsUuids, ResultIsError
<1>7. ASSUME NEW r \in Request, Release(r) PROVE AnswerOf(r)'
  <2>1. pc[r] = "release" /\ pc'[r] = "reply" /\ UNCHANGED <<body, result, epc, uuid, err>>
    BY <1>7 DEF Release, elementVars, Types
  <2>2. Accepted(body[r])
    BY <2>1 DEF Contents, Holding
  <2>3. AllDone(r) /\ (ResultIsUuids(r) \/ ResultIsError(r))
    BY <2>1, <2>2 DEF Answers, AnswerOf
  <2>4. AllDone(r)' = AllDone(r) /\ NoneFailed(r)' = NoneFailed(r)
    BY <2>1, Zenon DEF AllDone, NoneFailed
  <2>5. ResultIsUuids(r)' = ResultIsUuids(r) /\ ResultIsError(r)' = ResultIsError(r)
    BY <2>1, <2>4, Zenon DEF ResultIsUuids, ResultIsError
  <2>6. Accepted(body'[r])
    BY <2>1, <2>2, Zenon
  <2> QED
    BY <2>1, <2>3, <2>4, <2>5, <2>6 DEF AnswerOf, Replying
<1>8. ASSUME NEW r \in Request, Reply(r) PROVE AnswerOf(r)'
  <2>1. pc[r] = "reply" /\ pc'[r] = "done" /\ UNCHANGED <<body, result, epc, uuid, err>>
    BY <1>8 DEF Reply, elementVars, Types
  <2>2. AnswerOf(r)
    BY DEF Answers
  <2>3. AllDone(r)' = AllDone(r) /\ NoneFailed(r)' = NoneFailed(r)
    BY <2>1, Zenon DEF AllDone, NoneFailed
  <2>4. ResultIsUuids(r)' = ResultIsUuids(r) /\ ResultIsError(r)' = ResultIsError(r)
    BY <2>1, <2>3, Zenon DEF ResultIsUuids, ResultIsError
  <2>5. Accepted(body'[r]) = Accepted(body[r])
    BY <2>1, Zenon
  <2>6. CASE Accepted(body[r])
    BY <2>1, <2>2, <2>3, <2>4, <2>5, <2>6 DEF AnswerOf, Replying
  <2>7. CASE ~Accepted(body[r])
    BY <2>1, <2>2, <2>5, <2>7 DEF AnswerOf, Replying
  <2> QED
    BY <2>6, <2>7
<1>9. ASSUME NEW q \in Request, Receive(q) \/ Handler(q), NEW r \in Request PROVE AnswerOf(r)'
  <2>1. CASE q = r
    BY <2>1, <1>1, <1>2, <1>3, <1>4, <1>5, <1>6, <1>7, <1>8, <1>9 DEF Handler
  <2>2. CASE q # r
    <3>1. pc'[r] = pc[r] /\ body'[r] = body[r] /\ result'[r] = result[r]
      BY <1>9, <2>2, HandlerOther
    <3> QED
      BY <3>1, AnswerFrame
  <2> QED
    BY <2>1, <2>2
<1>10. CASE UNCHANGED <<handlerVars, poolVars, batch>>
  BY <1>10, AnswerFrame DEF handlerVars, Answers
<1> QED
  BY <1>9, <1>10, HandlerCases DEF Answers
-----------------------------------------------------------------------------
(* The theorems. *)

LEMMA InitInv == Init => Inv
<1> SUFFICES ASSUME Init PROVE Inv
  OBVIOUS
<1>1. Types
  BY InitType
<1>2. Holders /\ Contents /\ Answers
  BY DEF Init, Holders, ObjectsHaveOneHolder, Holding, HoldingResp, Contents, Started,
         Replying, Answers, AnswerOf
<1>3. Goroutines /\ Calls
  BY DEF Init, Goroutines, Calls, NoCall, Element, Slot, Killed
<1>4. Stored
  BY DEF Init, Stored
<1> QED
  BY <1>1, <1>2, <1>3, <1>4 DEF Inv

LEMMA InvStep == Inv /\ [Next]_vars => Inv'
BY TypeStep, HoldersStep, ContentsStep, GoroutinesStep, CallsStep, StoredStep, AnswersStep
   DEF Inv

\* The inductive invariant holds in every reachable state.
THEOREM Invariant == Spec => []Inv
BY InvStep, InitInv, PTL DEF Spec

\* Type correctness (put.go:28-350).
THEOREM TypeCorrect == Spec => []TypeOK
<1>1. Init => TypeOK
  BY InitType DEF Init, Types, TypeOK
<1>2. Inv /\ TypeOK /\ [Next]_vars => TypeOK'
  <2>1. Inv /\ TypeOK /\ [Next]_vars => VarTypes' /\ pc' \in [Request -> Statements]
    BY TypeStep, LabelsStep DEF Types, TypeOK
  <2> QED
    BY <2>1 DEF TypeOK
<1> QED
  BY <1>1, <1>2, Invariant, PTL DEF Spec

\* No object of a sync.Pool is ever shared (put.go:88-102, 233-241).
THEOREM PoolsSafe == Spec => []ObjectsHaveOneHolder
<1>1. Inv => ObjectsHaveOneHolder
  BY DEF Inv, Holders
<1> QED
  BY <1>1, Invariant, PTL

LEMMA InvOwn == Inv => AnswerFromOwnElements
<1> SUFFICES ASSUME Inv, NEW r \in Request, pc[r] = "done", Accepted(body[r])
             PROVE  AnswerFromOwnElements!(r)!2
  BY DEF AnswerFromOwnElements
<1> QED
  BY DEF Inv, Answers, AnswerOf, Replying, AllDone, NoneFailed, ResultIsUuids, ResultIsError

\* An answer is made of its request's own elements, in order (put.go:263-282).
THEOREM AnswersOwn == Spec => []AnswerFromOwnElements
BY InvOwn, Invariant, PTL

\* The invariant keeps what an answer promises.
LEMMA InvAcks == Inv => AckedRecordKept
<1> SUFFICES ASSUME Inv, NEW e \in Element, Acked(e), AckKey(e) # NoKey,
                    AckKey(e) \notin expired
             PROVE  /\ store[AckKey(e)] # NoRecord /\ store[AckKey(e)].by = e
                    /\ store[AckKey(e)].payload = ToCache(body[e[1]].puts[e[2]])
                    /\ store[AckKey(e)].ttl \in 1..EnforcedMaxTTL(MaxTTLSeconds)
                    /\ body[e[1]].puts[e[2]].ttl > 0 =>
                          store[AckKey(e)].ttl <= body[e[1]].puts[e[2]].ttl
  BY DEF AckedRecordKept
<1> DEFINE r == e[1]
           k == AckKey(e)
<1>1. r \in Request /\ e = <<r, e[2]>> /\ pc[r] = "done"
  BY DEF Acked, Element
<1>2. Accepted(body[r])
  BY <1>1 DEF Inv, Answers, AnswerOf, Replying, Acked
<1>3. /\ result[r].uuids = [i \in 1..Len(body[r].puts) |-> uuid[<<r, i>>]]
      /\ AllDone(r) /\ NoneFailed(r)
  BY <1>1, <1>2 DEF Inv, Answers, AnswerOf, Replying, Acked, ResultIsUuids, ResultIsError
<1>4. body[r].puts \in Seq(PutObject)
  BY <1>1, <1>2, AcceptedElements
<1>5. e[2] \in 1..Len(body[r].puts)
  BY <1>3, <1>4 DEF Acked
<1>6. k = uuid[e] /\ epc[e] = "done" /\ err[e] = "NONE"
  BY <1>1, <1>3, <1>5 DEF AckKey, AllDone, NoneFailed
<1>7. call[e] # NoCall /\ Kept(e) /\ call[e].key = k
  BY <1>6 DEF Inv, Stored, Calls
<1>8. store[k] # NoRecord /\ store[k].by = e /\ store[k] = Written(e)
  BY <1>7 DEF Kept, Inv, Stored, Calls, Call
<1>9. Put(e) = body[r].puts[e[2]] /\ Put(e) \in PutObject
  BY <1>1, <1>2, <1>4, <1>5 DEF Inv, Contents, Started, Replying, Put
<1>10. /\ store[k].payload = ToCache(Put(e))
       /\ store[k].ttl = LimitedTTL(MaxTTLSeconds, Put(e).ttl)
       /\ ParseError(Put(e)) = "NONE"
  BY <1>7, <1>8 DEF Written, Inv, Calls
<1> QED
  BY <1>8, <1>9, <1>10, ParsedPut

\* A uuid in an answer is a key under which the element's own value is kept,
\* on every back-end, whatever is resent, lost or late (put.go:287-329).
THEOREM AcksHold == Spec => []AckedRecordKept
BY InvAcks, Invariant, PTL
-----------------------------------------------------------------------------
(* The contract. *)

LEMMA InitContract == Init => Contract!Init
BY DEF Init, Contract!Init, NoResult, Contract!NoAnswer, EmptyBody

\* What a handler does between its request and its answer is invisible.
LEMMA InternalStep ==
    ASSUME Inv, NEW r \in Request, Handler(r), ~Reply(r)
    PROVE  UNCHANGED Contract!vars
<1>0. Types
  BY DEF Inv
<1>1. store' = store /\ expired' = expired
  BY HandlerFrame DEF serverVars
<1>2. /\ body' = body /\ pc[r] \notin {"idle", "done"}
      /\ \E label \in {"decode", "start", "wait", "encode", "release", "reply"} : Goto(r, label)
      /\ result' = result \/ \E x : result' = [result EXCEPT ![r] = x]
  <2>1. CASE ReadFails(r) \/ TakeRequestObject(r) \/ Decode(r)
    BY <2>1 DEF ReadFails, TakeRequestObject, Decode, Fail
  <2>2. CASE RejectBody(r)
    BY <2>2 DEF RejectBody, Fail
  <2>3. CASE StartElements(r) \/ Release(r)
    BY <2>3 DEF StartElements, Release
  <2>4. CASE Collect(r)
    BY <2>4 DEF Collect, Fail
  <2>5. CASE Encode(r)
    BY <2>5 DEF Encode, Succeed
  <2> QED
    BY <2>1, <2>2, <2>3, <2>4, <2>5 DEF Handler
<1>3. /\ pc'[r] \notin {"idle", "done"}
      /\ \A q \in Request : q # r => pc'[q] = pc[q]
  BY <1>0, <1>2 DEF Goto, Types
<1>4. \A q \in Request : q # r => result'[q] = result[q]
  BY <1>0, <1>2 DEF Types
<1> QED
  BY <1>1, <1>2, <1>3, <1>4 DEF Contract!vars

\* A request comes.
LEMMA ReceiveAsks ==
    ASSUME Inv, NEW r \in Request, Receive(r)
    PROVE  Contract!Ask(r)
<1>0. Types
  BY DEF Inv
<1>1. store' = store /\ expired' = expired /\ result' = result
  BY HandlerFrame DEF serverVars, Receive
<1>2. pc[r] = "idle" /\ pc' = [pc EXCEPT ![r] = "read"]
  BY DEF Receive, Goto
<1>3. PICK b \in Bodies : body' = [body EXCEPT ![r] = b]
  BY DEF Receive
<1>4. \A q \in Request : q # r => pc'[q] = pc[q] /\ body'[q] = body[q]
  BY <1>0, <1>2, <1>3 DEF Types
<1>5. pc'[r] = "read" /\ body'[r] = b
  BY <1>0, <1>2, <1>3 DEF Types
<1>6. [q \in Request |-> body'[q].puts] = [[q \in Request |-> body[q].puts] EXCEPT ![r] = b.puts]
  BY <1>4, <1>5
<1>7. UNCHANGED [q \in Request |-> IF pc[q] = "done" THEN result[q] ELSE NoResult]
  BY <1>1, <1>2, <1>4, <1>5
<1>8. \E asked \in {x.puts : x \in Bodies} :
         [q \in Request |-> body'[q].puts] = [[q \in Request |-> body[q].puts] EXCEPT ![r] = asked]
  BY <1>6
<1>9. [q \in Request |-> IF pc'[q] = "idle" THEN "idle"
                         ELSE IF pc'[q] = "done" THEN "answered" ELSE "asked"]
        = [[q \in Request |-> IF pc[q] = "idle" THEN "idle"
                              ELSE IF pc[q] = "done" THEN "answered" ELSE "asked"]
             EXCEPT ![r] = "asked"]
  BY <1>4, <1>5
<1>10. [q \in Request |-> IF pc[q] = "idle" THEN "idle"
                          ELSE IF pc[q] = "done" THEN "answered" ELSE "asked"][r] = "idle"
  BY <1>2
<1> QED
  BY <1>1, <1>7, <1>8, <1>9, <1>10 DEF Contract!Ask

\* A request is answered: a uuid in the answer is a key that holds the element.
LEMMA ReplyCommits ==
    ASSUME Inv, NEW r \in Request, Reply(r)
    PROVE  Contract!Reply(r)
<1>0. Types
  BY DEF Inv
<1>1. store' = store /\ expired' = expired /\ result' = result /\ body' = body
  BY HandlerFrame DEF serverVars, Reply
<1>2. pc[r] = "reply" /\ pc' = [pc EXCEPT ![r] = "done"]
  BY DEF Reply, Goto
<1>3. /\ pc'[r] = "done"
      /\ \A q \in Request : q # r => pc'[q] = pc[q]
  BY <1>0, <1>2 DEF Types
<1>4. ASSUME result[r].err = "NONE"
      PROVE  /\ Len(result[r].uuids) = Len(body[r].puts)
             /\ \A i \in 1..Len(body[r].puts) :
                  \/ result[r].uuids[i] = NoKey
                  \/ /\ result[r].uuids[i] \in Key
                     /\ \/ result[r].uuids[i] \in expired
                        \/ /\ store[result[r].uuids[i]] # NoRecord
                           /\ store[result[r].uuids[i]].by = <<r, i>>
  <2>1. Accepted(body[r])
    BY <1>2, <1>4 DEF Inv, Answers, AnswerOf, Replying
  <2>2. /\ result[r].uuids = [i \in 1..Len(body[r].puts) |-> uuid[<<r, i>>]]
        /\ AllDone(r) /\ NoneFailed(r)
    BY <1>2, <1>4, <2>1 DEF Inv, Answers, AnswerOf, Replying, ResultIsUuids, ResultIsError
  <2>3. body[r].puts \in Seq(PutObject) /\ \A i \in 1..Len(body[r].puts) : <<r, i>> \in Element
    BY <2>1, AcceptedElements
  <2>4. Len(result[r].uuids) = Len(body[r].puts)
    BY <2>2, <2>3
  <2>5. ASSUME NEW i \in 1..Len(body[r].puts), uuid[<<r, i>>] # NoKey
        PROVE  /\ uuid[<<r, i>>] \in Key
               /\ \/ uuid[<<r, i>>] \in expired
                  \/ store[uuid[<<r, i>>]] # NoRecord /\ store[uuid[<<r, i>>]].by = <<r, i>>
    <3> DEFINE e == <<r, i>>
    <3>1. e \in Element /\ epc[e] = "done" /\ err[e] = "NONE"
      BY <2>2, <2>3 DEF AllDone, NoneFailed
    <3>2. call[e] # NoCall /\ Kept(e) /\ uuid[e] = call[e].key
      BY <2>5, <3>1 DEF Inv, Stored, Calls
    <3>3. uuid[e] \in Key
      BY <1>0, <2>5, <3>1 DEF Types
    <3> QED
      BY <3>2, <3>3 DEF Kept
  <2>6. \A i \in 1..Len(body[r].puts) : result[r].uuids[i] = uuid[<<r, i>>]
    BY <2>2
  <2> QED
    BY <2>4, <2>5, <2>6
<1>5. Contract!Commits(r) \/ result[r].err # "NONE"
  BY <1>1, <1>3, <1>4 DEF Contract!Commits, Contract!Holds
<1> QED
  BY <1>1, <1>2, <1>3, <1>5 DEF Contract!Reply

\* What is on its way to the server is an element of its request's body.
AskedFor ==
    \A e \in Element : call[e] # NoCall =>
       /\ pc[e[1]] # "idle" /\ batch[e[1]] = body[e[1]].puts
       /\ e[2] <= Len(batch[e[1]])

\* The server stores an element: its key is free, and no other has it.
LEMMA ServerStoreStores ==
    ASSUME Inv, AskedFor, NEW e \in Element, ServerStores(e)
    PROVE  Contract!Next
<1> DEFINE r == e[1]
           i == e[2]
<1>0. Types
  BY DEF Inv
<1>k. PICK k \in Key : call[e].key = k
  BY DEF ServerStores, Inv, Goroutines, Calls, Call
<1>1. /\ store[k] = NoRecord /\ store' = [store EXCEPT ![k] = Written(e)]
      /\ UNCHANGED <<pc, body, result, expired>> /\ wire[e] # {}
  BY <1>k DEF ServerStores, handlerVars
<1>2. call[e] # NoCall /\ call[e] \in Call
  BY <1>1 DEF Inv, Goroutines, Calls, Call
<1>3. r \in Request /\ e = <<r, i>> /\ i \in Nat \ {0}
  BY DEF Element, Slot
<1>4. i \in 1..Len(batch[r]) /\ Put(e) \in PutObject
  BY <1>0, <1>2, <1>3 DEF AskedFor, Types, Put
<1>5. batch[r] = body[r].puts /\ pc[r] # "idle"
  BY <1>2 DEF AskedFor
<1>6. i \in 1..Len(body[r].puts) /\ Put(e) = body[r].puts[i]
  BY <1>3, <1>4, <1>5 DEF Put
<1>7. \A j \in Key : store[j] # NoRecord => store[j].by # e
  BY <1>k, <1>1 DEF Inv, Stored
<1>8. store'[k] = Written(e) /\ Written(e) \in Record
  BY <1>0, <1>1, <1>2 DEF Types, Written, Record, Call
<1>9. store'[k] # NoRecord /\ store'[k].by = e
  BY <1>8 DEF Written
<1>10. /\ store'[k].payload = [type |-> Put(e).type, value |-> Put(e).value]
       /\ store'[k].ttl \in 1..EnforcedMaxTTL(MaxTTLSeconds)
       /\ Put(e).ttl > 0 => store'[k].ttl <= Put(e).ttl
  BY <1>2, <1>4, <1>8, ParsedPut DEF Written, Inv, Calls, ToCache
<1>11. Contract!Fulfils(store'[k], body[r].puts[i])
  BY <1>6, <1>10 DEF Contract!Fulfils
<1>12. Contract!Store(r, i, k)
  <2>1. \A j \in Key : ~Contract!Holds(j, r, i)
    BY <1>3, <1>7 DEF Contract!Holds
  <2>2. Contract!Holds(k, r, i)'
    BY <1>3, <1>9 DEF Contract!Holds
  <2>3. store' = [store EXCEPT ![k] = store'[k]]
    BY <1>1, <1>8
  <2> QED
    BY <1>1, <1>3, <1>5, <1>6, <1>11, <2>1, <2>2, <2>3 DEF Contract!Store
<1> QED
  BY <1>3, <1>6, <1>12 DEF Contract!Next

LEMMA ExpireDrops ==
    ASSUME Inv, NEW k \in Key, Expire(k)
    PROVE  Contract!Next
<1>1. store[k] # NoRecord /\ expired' = expired \cup {k}
      /\ UNCHANGED <<pc, body, result>>
  BY DEF Expire, handlerVars
<1>2. store' = [x \in Key |-> IF x \in {k} THEN NoRecord ELSE store[x]]
  BY DEF Expire, Inv, Types
<1>3. Contract!Drop({k})
  BY <1>1, <1>2 DEF Contract!Drop
<1> QED
  BY <1>3 DEF Contract!Next

\* What the goroutines and the client libraries do is invisible, and so is what
\* the network and the server do but for storing a record.
LEMMA HiddenStep ==
    ASSUME NEW e \in Element, Goroutine(e) \/ Client(e) \/ ServerRefuses(e) \/ LoseAttempt(e)
    PROVE  UNCHANGED Contract!vars
BY DEF Goroutine, Client, RejectElement, NoRandomness, RefuseSize, Send, TakeReply, GiveUp,
       Finish, Resend, ServerRefuses, LoseAttempt, handlerVars, serverVars, Contract!vars

LEMMA StepKeepsContract == Inv /\ AskedFor /\ [Next]_vars => [Contract!Next]_(Contract!vars)
<1> SUFFICES ASSUME Inv, AskedFor, [Next]_vars PROVE [Contract!Next]_(Contract!vars)
  OBVIOUS
<1>1. ASSUME NEW r \in Request, Receive(r) PROVE Contract!Next
  BY <1>1, ReceiveAsks DEF Contract!Next
<1>2. ASSUME NEW r \in Request, Handler(r) PROVE [Contract!Next]_(Contract!vars)
  <2>1. CASE Reply(r)
    BY <2>1, ReplyCommits DEF Contract!Next
  <2>2. CASE ~Reply(r)
    BY <1>2, <2>2, InternalStep
  <2> QED
    BY <2>1, <2>2
<1>3. ASSUME NEW e \in Element, Goroutine(e) \/ Client(e) \/ Server(e)
      PROVE  [Contract!Next]_(Contract!vars)
  BY <1>3, HiddenStep, ServerStoreStores DEF Server
<1>4. ASSUME NEW k \in Key, Expire(k) PROVE Contract!Next
  BY <1>4, ExpireDrops
<1>5. CASE UNCHANGED vars
  BY <1>5 DEF vars, handlerVars, serverVars, Contract!vars
<1> QED
  BY <1>1, <1>2, <1>3, <1>4, <1>5 DEF Next, Terminated

\* POST /cache implements its contract: an answer commits what it shows, and a
\* record is what its request asked for, whatever is resent, lost or late.
THEOREM KeepsContract == Spec => ContractKept
<1>1. Inv /\ TypeOK => AskedFor
  <2> SUFFICES ASSUME Inv, TypeOK, NEW e \in Element, call[e] # NoCall
               PROVE  /\ pc[e[1]] # "idle" /\ batch[e[1]] = body[e[1]].puts
                      /\ e[2] <= Len(batch[e[1]])
    BY DEF AskedFor
  <2>1. e[1] \in Request /\ pc[e[1]] # "lost" /\ epc[e] # "none"
    <3>1. e[1] \in Request
      BY DEF Element
    <3>2. pc[e[1]] # "lost"
      BY <3>1 DEF TypeOK, Statements
    <3>3. epc[e] # "none"
      BY <3>2 DEF Inv, Goroutines, Killed
    <3> QED
      BY <3>1, <3>2, <3>3
  <2>2. e[2] \in 1..Len(batch[e[1]])
    BY <2>1, OwnElement
  <2>3. batch[e[1]] # <<>>
    BY <2>2
  <2> QED
    BY <2>1, <2>2, <2>3 DEF Inv, Contents, Started, HoldingResp, Replying
<1> QED
  BY <1>1, InitContract, StepKeepsContract, Invariant, TypeCorrect, PTL
     DEF Spec, Contract!Spec, ContractKept
=============================================================================
