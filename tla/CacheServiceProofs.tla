-------------------------- MODULE CacheServiceProofs --------------------------
(***************************************************************************)
(* For every set of POSTs and GETs, every number of restarts, and for each *)
(* of the six back-ends: a client that was answered with a uuid reads its  *)
(* own value under it, what a GET shows was sent for the key it asks for,  *)
(* POST keeps its contract, and what GetEndpoint supposes of the storage   *)
(* server is what the POSTs do.                                            *)
(***************************************************************************)
EXTENDS CacheServiceInv, PutAnswerProofs

USE ServiceAssumption, SeenAssumption
USE DEF VarTypes, Statements

-----------------------------------------------------------------------------
(* What a GET sees. *)

EncodingTyped == encoding \in [Element -> Encodings]

\* The record a GET finds is one of GetEndpoint's.
SeenTyped == \A k \in Key : /\ Seen(k) \in G!Record \cup {NoRecord}
                            /\ Seen(k) = NoRecord <=> store[k] = NoRecord

LEMMA SeenType == Types /\ EncodingTyped => SeenTyped
<1> SUFFICES ASSUME Types, EncodingTyped, NEW k \in Key
             PROVE  /\ Seen(k) \in G!Record \cup {NoRecord}
                    /\ Seen(k) = NoRecord <=> store[k] = NoRecord
  BY DEF SeenTyped
<1>1. CASE store[k] # NoRecord
  <2>1. Seen(k) \in G!Record
    BY <1>1 DEF Types, EncodingTyped, Seen, G!Record, Record, Payload
  <2> QED
    BY <1>1, <2>1
<1>2. CASE store[k] = NoRecord
  BY <1>2 DEF Seen
<1> QED
  BY <1>1, <1>2

\* A payload that was sent keeps its compression.
LEMMA EncodingStays ==
    ASSUME Inv, Meanwhile, NEW e \in Element, call[e] # NoCall
    PROVE  encoding'[e] = encoding[e]
<1>1. epc[e] # "start"
  BY DEF Inv, Goroutines
<1> QED
  BY <1>1 DEF Meanwhile

\* What the steps of the POSTs do to the elements and to the store.
LEMMA ElementMoves ==
    ASSUME Inv, [Next]_vars
    PROVE  /\ \A e \in Element : epc'[e] = "call" => epc[e] \in {"start", "call"}
           /\ \A e \in Element : wire'[e] # {} => wire[e] # {} \/ epc'[e] = "call"
           /\ \A k \in Key : store'[k] # NoRecord =>
                 \/ store'[k] = store[k]
                 \/ store'[k].by \in Element /\ wire[store'[k].by] # {}
           /\ expired \subseteq expired'
<1> DEFINE P == /\ \A e \in Element : epc'[e] = "call" => epc[e] \in {"start", "call"}
                /\ \A e \in Element : wire'[e] # {} => wire[e] # {} \/ epc'[e] = "call"
                /\ \A k \in Key : store'[k] # NoRecord =>
                      \/ store'[k] = store[k]
                      \/ store'[k].by \in Element /\ wire[store'[k].by] # {}
                /\ expired \subseteq expired'
<1>0. Types
  BY DEF Inv
<1>1. ASSUME NEW r \in Request, StartElements(r) PROVE P
  BY <1>1, StartFresh DEF clientVars, serverVars
<1>2. ASSUME NEW e \in Element, Goroutine(e) PROVE P
  <2>1. CASE RejectElement(e) \/ NoRandomness(e) \/ RefuseSize(e)
    BY <1>0, <2>1 DEF RejectElement, NoRandomness, RefuseSize, Settle, Types, clientVars, serverVars
  <2>2. CASE Send(e)
    BY <1>0, <2>2 DEF Send, Types, serverVars
  <2> QED
    BY <1>2, <2>1, <2>2 DEF Goroutine
<1>3. ASSUME NEW e \in Element, Client(e) PROVE P
  <2>1. CASE TakeReply(e) \/ GiveUp(e)
    <3>1. UNCHANGED <<wire, serverVars>> /\ epc' = [epc EXCEPT ![e] = "done"]
      BY <2>1 DEF TakeReply, GiveUp, Finish, Settle
    <3> QED
      BY <1>0, <3>1 DEF Types, serverVars
  <2>2. CASE Resend(e)
    BY <1>0, <2>2 DEF Resend, Types, elementVars, serverVars
  <2> QED
    BY <1>3, <2>1, <2>2 DEF Client
<1>4. ASSUME NEW e \in Element, Server(e) PROVE P
  <2>1. /\ \A x \in Element : wire'[x] \subseteq wire[x]
        /\ UNCHANGED <<elementVars, expired>>
    <3>1. \E n : wire' = [wire EXCEPT ![e] = @ \ {n}]
      BY <1>4 DEF Server, ServerStores, ServerRefuses, LoseAttempt
    <3>2. UNCHANGED <<elementVars, expired>>
      BY <1>4 DEF Server, ServerStores, ServerRefuses, LoseAttempt, serverVars
    <3> QED
      BY <1>0, <3>1, <3>2 DEF Types
  <2>2. \/ store' = store
        \/ wire[e] # {} /\ store' = [store EXCEPT ![call[e].key] = Written(e)]
    BY <1>4 DEF Server, ServerStores, ServerRefuses, LoseAttempt, serverVars
  <2> QED
    BY <1>0, <2>1, <2>2 DEF Types, Written, elementVars
<1>5. ASSUME NEW k \in Key, Expire(k) PROVE P
  BY <1>0, <1>5 DEF Expire, Types, elementVars, clientVars
<1>6. CASE UNCHANGED <<batch, elementVars, clientVars, serverVars>>
  BY <1>6 DEF elementVars, clientVars, serverVars
<1> QED
  BY <1>1, <1>2, <1>3, <1>4, <1>5, <1>6, ElementCases

\* What was answered stays answered.
LEMMA AckedStays ==
    ASSUME Inv, [Next]_vars, NEW e \in Element, Acked(e)
    PROVE  Acked(e)' /\ AckKey(e)' = AckKey(e) /\ body'[e[1]] = body[e[1]]
<1>1. e[1] \in Request /\ pc[e[1]] = "done"
  BY DEF Acked, Element
<1>2. UNCHANGED <<pc[e[1]], body[e[1]], result[e[1]]>>
  BY <1>1, HandlerCases, HandlerMoves, HandlerOther DEF Inv, handlerVars
<1> QED
  BY <1>2 DEF Acked, AckKey
-----------------------------------------------------------------------------
(* The steps of the POSTs. *)

LEMMA PostCompressions ==
    ASSUME ServiceInv, [Next]_vars, Meanwhile PROVE Compressions'
<1>0. Inv /\ Compressions /\ config' = config /\ compression' = compression
  BY ConfigFixed DEF ServiceInv, Meanwhile
<1>1. ASSUME NEW e \in Element, epc'[e] = "call" PROVE encoding'[e] = compression
  BY <1>0, <1>1, ElementMoves DEF Meanwhile, Compressions
<1>2. ASSUME Backend = "memory", NEW e \in Element, wire[e] # {}
      PROVE  encoding'[e] = compression
  <2>1. call[e] # NoCall
    BY <1>0, <1>2 DEF Inv, Goroutines
  <2> QED
    BY <1>0, <1>2, <2>1, EncodingStays DEF Compressions
<1>3. ASSUME Backend = "memory", NEW e \in Element, wire'[e] # {}
      PROVE  encoding'[e] = compression
  BY <1>0, <1>1, <1>2, <1>3, ElementMoves
<1>4. ASSUME Backend = "memory", NEW k \in Key, store'[k] # NoRecord
      PROVE  encoding'[store'[k].by] = compression
  <2>1. CASE store'[k] = store[k]
    <3>1. store[k].by \in Element /\ call[store[k].by] # NoCall
      BY <1>0, <1>4, <2>1 DEF Inv, Stored
    <3> QED
      BY <1>0, <1>4, <2>1, <3>1, EncodingStays DEF Compressions
  <2>2. CASE store'[k] # store[k]
    BY <1>0, <1>2, <1>4, <2>2, ElementMoves
  <2> QED
    BY <2>1, <2>2
<1> QED
  BY <1>0, <1>1, <1>3, <1>4 DEF Compressions, Backend

LEMMA PostTypes ==
    ASSUME ServiceInv, [Next]_vars, Meanwhile PROVE ServiceTypeOK'
<1>0. Inv /\ Inv' /\ ServiceTypeOK /\ config' = config
  BY InvStep, ConfigFixed DEF ServiceInv
<1>1. UNCHANGED <<compression, getVars, promised, restarts>>
  BY DEF Meanwhile
<1>2. EncodingTyped'
  BY <1>0 DEF Meanwhile, ServiceTypeOK, EncodingTyped
<1>3. Types' /\ (\A r \in Request : pc'[r] = "lost" => restarts' > 0)
  BY <1>0, <1>1, LostStays DEF Inv, ServiceTypeOK
<1>4. SeenTyped'
  BY <1>2, <1>3, SeenType, PTL
<1>5. held' \in [GetRequest -> SUBSET (G!Record \cup {NoRecord})]
  <2>1. ASSUME NEW g \in GetRequest, getPc[g] = "call" PROVE Seen(getUuid[g])' \in G!Record \cup {NoRecord}
    BY <1>1, <1>4, <2>1 DEF getVars, ServiceInv, Replies, SeenTyped
  <2> QED
    BY <1>0, <2>1 DEF Meanwhile, ServiceTypeOK, G!TypeOK
<1>6. G!TypeOK'
  BY <1>0, <1>1, <1>4, <1>5 DEF getVars, ServiceTypeOK, SeenTyped, G!TypeOK
<1> QED
  BY <1>1, <1>2, <1>3, <1>6, <1>0 DEF ServiceTypeOK, EncodingTyped, Types

LEMMA PostReplies ==
    ASSUME ServiceInv, [Next]_vars, Meanwhile PROVE Replies'
<1>0. Replies /\ config' = config /\ Compressions' /\ Types' /\ ServiceTypeOK'
  BY InvStep, ConfigFixed, PostCompressions, PostTypes DEF ServiceInv, Inv
<1>1. UNCHANGED <<compression, getPc, getUuid, getReply>>
  BY DEF Meanwhile, getVars
<1>2. ASSUME NEW g \in GetRequest, getPc[g] = "call"
      PROVE  held'[g] = held[g] \cup {Seen(getUuid[g])'}
  BY <1>2 DEF Meanwhile
<1>3. ASSUME NEW k \in Key, Backend = "memory", Seen(k)' # NoRecord
      PROVE  Seen(k)'.encoding = compression'
  BY <1>0, <1>3 DEF Seen, Compressions, Backend
<1> QED
  BY <1>0, <1>1, <1>2, <1>3 DEF Replies, Backend

\* What an acknowledged element asked for stays what it was.
LEMMA ShowsStays ==
    ASSUME Inv, [Next]_vars, NEW e \in Element, Acked(e), NEW x
    PROVE  Shows(x, e)' <=> Shows(x, e)
BY AckedStays DEF Shows, ToCache

\* The key of an answer holds what was stored under it.
AcksShown ==
    \A e \in Element : Acked(e) /\ AckKey(e) \in Key \ expired => Shows(Seen(AckKey(e)), e)

LEMMA AckedShown == Inv /\ EncodingTyped => AcksShown
<1> SUFFICES ASSUME Inv, EncodingTyped, NEW e \in Element, Acked(e), AckKey(e) \in Key \ expired
             PROVE  Shows(Seen(AckKey(e)), e)
  BY DEF AcksShown
<1> DEFINE k == AckKey(e)
<1>1. store[k] # NoRecord /\ store[k].payload = ToCache(body[e[1]].puts[e[2]])
  BY InvAcks, PutAssumption DEF AckedRecordKept
<1>2. Seen(k) # NoRecord
  BY <1>1, SeenType DEF Inv, SeenTyped
<1> QED
  BY <1>1, <1>2 DEF Shows, Seen

LEMMA PostPromises ==
    ASSUME ServiceInv, [Next]_vars, Meanwhile PROVE Promises'
<1>0. Inv /\ Promises /\ Inv' /\ expired \subseteq expired'
  BY InvStep, ElementMoves DEF ServiceInv
<1>a. AcksShown'
  <2>1. EncodingTyped'
    BY PostTypes DEF ServiceTypeOK, EncodingTyped
  <2> QED
    BY <1>0, <2>1, AckedShown, PTL
<1>1. UNCHANGED <<getPc, getUuid, promised>>
  BY DEF Meanwhile, getVars
<1> SUFFICES ASSUME NEW g \in GetRequest, NEW e \in promised[g]
             PROVE  /\ Acked(e)' /\ AckKey(e)' = getUuid[g] /\ AckKey(e)' # NoKey
                    /\ getPc[g] = "call" =>
                         getUuid[g] \in expired' \/ \A x \in held'[g] : Shows(x, e)'
  BY <1>1 DEF Promises
<1>2. e \in Element /\ Acked(e) /\ AckKey(e) = getUuid[g] /\ AckKey(e) # NoKey
  BY <1>0 DEF Promises, ServiceInv, ServiceTypeOK
<1>3. Acked(e)' /\ AckKey(e)' = getUuid[g]
  BY <1>0, <1>2, AckedStays
<1>4. ASSUME getPc[g] = "call", getUuid[g] \notin expired', NEW x \in held'[g] PROVE Shows(x, e)'
  <2>1. CASE x \in held[g]
    BY <1>0, <1>2, <1>4, <2>1, ShowsStays DEF Promises
  <2>2. CASE x = Seen(getUuid[g])'
    <3>1. getUuid[g] \in Key
      BY <1>4 DEF ServiceInv, Replies
    <3>2. Shows(Seen(AckKey(e)), e)'
      BY <1>2, <1>3, <1>4, <1>a, <3>1 DEF AcksShown
    <3>3. Seen(AckKey(e))' = Seen(getUuid[g])'
      BY <1>1, <1>3 DEF Seen
    <3> QED
      BY <2>2, <3>2, <3>3 DEF Shows
  <2> QED
    BY <1>4, <2>1, <2>2 DEF Meanwhile
<1> QED
  BY <1>2, <1>3, <1>4

LEMMA PostRetrievable ==
    ASSUME ServiceInv, [Next]_vars, Meanwhile PROVE AckedIsRetrievable'
<1>0. Inv /\ Promises /\ AckedIsRetrievable /\ config' = config /\ expired \subseteq expired'
  BY ConfigFixed, ElementMoves DEF ServiceInv
<1>1. UNCHANGED <<getPc, getUuid, answer, promised>>
  BY DEF Meanwhile, getVars
<1>2. \A g \in GetRequest : \A e \in promised[g] : e \in Element /\ Acked(e)
  BY <1>0 DEF Promises, ServiceInv, ServiceTypeOK
<1>3. \A g \in GetRequest : \A e \in promised[g] : body'[e[1]] = body[e[1]]
  BY <1>0, <1>2, AckedStays
<1> QED
  BY <1>0, <1>1, <1>3 DEF AckedIsRetrievable, Retrieves, Backend, ToCache

\* A request keeps its body.
LEMMA BodyStays ==
    ASSUME Inv, [Next]_vars, NEW r \in Request, pc[r] # "idle" PROVE body'[r] = body[r]
<1>1. ASSUME NEW q \in Request, Receive(q) PROVE body'[r] = body[r]
  BY <1>1 DEF Inv, Types, Receive
<1>2. ASSUME NEW q \in Request, Handler(q) PROVE body' = body
  BY <1>2, Zenon DEF Handler, ReadFails, TakeRequestObject, Decode, RejectBody, StartElements,
                     Collect, Encode, Release, Reply
<1> QED
  BY <1>1, <1>2, HandlerCases DEF handlerVars

\* A killed request starts nothing any more.
LEMMA LostStep ==
    ASSUME ServiceInv, [Next]_vars PROVE LostCalls'
<1>0. Inv /\ Types /\ LostCalls
  BY DEF ServiceInv, Inv
<1>1. ASSUME NEW r \in Request, pc[r] = "lost"
      PROVE  batch'[r] = batch[r] /\ body'[r] = body[r]
  <2>1. ASSUME NEW q \in Request, StartElements(q) PROVE batch'[r] = batch[r]
    <3>1. q # r
      BY <1>1, <2>1 DEF StartElements
    <3> QED
      BY <1>0, <2>1, <3>1, StartFresh DEF Types
  <2>2. batch'[r] = batch[r]
    BY <2>1, ElementCases, ElementFrame, ExpireFrame
  <2> QED
    BY <1>0, <1>1, <2>2, BodyStays
<1>2. ASSUME NEW e \in Element, Killed(e) PROVE call'[e] = call[e]
  BY <1>0, <1>2, CallOnce DEF Inv, Goroutines
<1>3. \A e \in Element : e[1] \in Request /\ Killed(e)' = Killed(e)
  BY <1>0, LostStays DEF Element
<1>4. \A r \in Request : pc'[r] = "lost" <=> pc[r] = "lost"
  BY <1>0, LostStays
<1> QED
  BY <1>0, <1>1, <1>2, <1>3, <1>4 DEF LostCalls, Killed

LEMMA PostInv ==
    ASSUME ServiceInv, [Next]_vars, Meanwhile PROVE ServiceInv'
BY InvStep, KeysStep, RefusalsStep, TimeoutsStep, LostStep, PostTypes, PostCompressions,
   PostReplies, PostPromises, PostRetrievable DEF ServiceInv
-----------------------------------------------------------------------------
(* The steps of the GETs. *)

\* What is not answered by a step needs nothing new.
LEMMA RetrievableStays ==
    ASSUME AckedIsRetrievable,
           UNCHANGED <<config, body>>, expired \subseteq expired',
           \A g \in GetRequest : getPc'[g] = "done" =>
              /\ getPc[g] = "done" /\ promised'[g] = promised[g]
              /\ getUuid'[g] = getUuid[g] /\ answer'[g] = answer[g]
    PROVE  AckedIsRetrievable'
<1> SUFFICES ASSUME NEW g \in GetRequest, getPc'[g] = "done", NEW e \in promised[g]
             PROVE  Retrieves(g, e)'
  BY DEF AckedIsRetrievable
<1>1. Retrieves(g, e)
  BY DEF AckedIsRetrievable
<1>2. UNCHANGED <<Backend, ToCache(body[e[1]].puts[e[2]]), getUuid[g], answer[g]>>
  BY Zenon DEF ToCache, Backend
<1> QED
  BY <1>1, <1>2 DEF Retrieves

\* A GET leaves what the POSTs have to do with as it is.
LEMMA GetFrame ==
    ASSUME ServiceInv, Unposted
    PROVE  /\ Inv' /\ Keys' /\ Refusals' /\ Timeouts' /\ LostCalls' /\ Compressions'
           /\ SeenTyped
           /\ \A k \in Key : Seen(k)' = Seen(k)
           /\ \A e \in Element : Acked(e)' = Acked(e) /\ AckKey(e)' = AckKey(e)
           /\ \A e, x : Shows(x, e)' = Shows(x, e)
           /\ UNCHANGED <<config, expired, body, compression, encoding, restarts>>
<1>1. UNCHANGED vars /\ UNCHANGED <<compression, encoding, restarts>>
  BY DEF Unposted
<1>2. Inv' /\ Keys' /\ Refusals' /\ Timeouts' /\ LostCalls'
  BY <1>1, InvStep, KeysStep, RefusalsStep, TimeoutsStep, LostStep DEF ServiceInv
<1>3. UNCHANGED <<pc, body, result, epc, wire, config, store, expired>>
  BY <1>1 DEF vars, handlerVars, elementVars, clientVars, serverVars
<1>4. Compressions'
  BY <1>1, <1>3 DEF ServiceInv, Compressions, Backend
<1>5. SeenTyped
  BY SeenType DEF ServiceInv, Inv, ServiceTypeOK, EncodingTyped
<1>6. \A k \in Key : Seen(k)' = Seen(k)
  BY <1>1, <1>3 DEF Seen
<1>7. \A e \in Element : Acked(e)' = Acked(e) /\ AckKey(e)' = AckKey(e)
  BY <1>3 DEF Acked, AckKey
<1>8. \A e, x : Shows(x, e)' = Shows(x, e)
  BY <1>3 DEF Shows, ToCache
<1> QED
  BY <1>1, <1>2, <1>3, <1>4, <1>5, <1>6, <1>7, <1>8

LEMMA GetTypes ==
    ASSUME ServiceInv, Unposted,
           getPc' \in [GetRequest -> {"idle", "parse", "call", "done"}],
           getUuid' \in [GetRequest -> Key \cup {NoKey}],
           getReply' \in [GetRequest -> G!Record \cup {NoRecord, NoReply}],
           answer' \in [GetRequest -> [err : G!Errors, shows : G!Record \cup {NoRecord}]],
           held' \in [GetRequest -> SUBSET (G!Record \cup {NoRecord})],
           getCount' \in [G!Metrics -> Nat],
           promised' \in [GetRequest -> SUBSET Element]
    PROVE  ServiceTypeOK'
<1>1. UNCHANGED <<config, compression, encoding, restarts>> /\ Types' /\ Types /\ pc' = pc
  BY GetFrame DEF Inv, ServiceInv, Unposted, vars, handlerVars
<1>2. ([k \in Key |-> Seen(k)])' \in [Key -> G!Record \cup {NoRecord}]
  BY GetFrame DEF SeenTyped
<1>3. GetConfig(config, compression)' \in G!Config
  BY <1>1 DEF ServiceInv, ServiceTypeOK, G!TypeOK
<1>4. G!TypeOK'
  BY <1>2, <1>3 DEF G!TypeOK
<1> QED
  BY <1>1, <1>4 DEF ServiceInv, ServiceTypeOK, Types

LEMMA GetCountType ==
    ASSUME NEW ms, ServiceInv, G!Count(ms) PROVE getCount' \in [G!Metrics -> Nat]
BY DEF ServiceInv, ServiceTypeOK, G!TypeOK, G!Count

LEMMA GetReceiveInv ==
    ASSUME ServiceInv, NEW g \in GetRequest, GetReceive(g) PROVE ServiceInv'
<1>0. Unposted
  BY DEF GetReceive
<1>1. /\ getPc[g] = "idle" /\ getPc' = [getPc EXCEPT ![g] = "parse"]
      /\ \E k \in Key \cup {NoKey} : getUuid' = [getUuid EXCEPT ![g] = k]
      /\ UNCHANGED <<answer, getReply, held>>
      /\ \E ms : G!Count(ms)
  BY DEF GetReceive, G!Receive, G!Goto
<1>2. promised' = [promised EXCEPT ![g] =
                     {e \in Element : Acked(e) /\ AckKey(e) = getUuid'[g] /\ AckKey(e) # NoKey}]
  BY DEF GetReceive
<1>t. G!TypeOK /\ promised \in [GetRequest -> SUBSET Element] /\ Promises
  BY DEF ServiceInv, ServiceTypeOK
<1>3. ServiceTypeOK'
  <2>1. getPc' \in [GetRequest -> {"idle", "parse", "call", "done"}]
    BY <1>1, <1>t DEF G!TypeOK
  <2>2. getUuid' \in [GetRequest -> Key \cup {NoKey}]
    BY <1>1, <1>t DEF G!TypeOK
  <2>3. promised' \in [GetRequest -> SUBSET Element]
    BY <1>2, <1>t
  <2> QED
    BY <1>0, <1>1, <1>t, <2>1, <2>2, <2>3, GetTypes, GetCountType DEF G!TypeOK
<1>4. \A q \in GetRequest : /\ q # g => /\ getPc'[q] = getPc[q] /\ getUuid'[q] = getUuid[q]
                                        /\ promised'[q] = promised[q]
                            /\ q = g => getPc'[q] = "parse"
  BY <1>1, <1>2, <1>t DEF G!TypeOK
<1>5. Replies'
  BY <1>0, <1>1, <1>4, GetFrame DEF ServiceInv, Replies, Backend
<1>6. \A e \in promised'[g] : e \in Element /\ Acked(e) /\ AckKey(e) = getUuid'[g] /\ AckKey(e) # NoKey
  BY <1>2, <1>t
<1>7. Promises'
  <2>1. ASSUME NEW q \in GetRequest, NEW e \in promised'[q]
        PROVE  /\ e \in Element /\ Acked(e) /\ AckKey(e) = getUuid'[q] /\ AckKey(e) # NoKey
               /\ getPc'[q] = "call" =>
                     getUuid'[q] \in expired \/ \A x \in held[q] : Shows(x, e)
    BY <1>4, <1>6, <1>t, <2>1 DEF Promises
  <2> QED
    BY <1>0, <1>1, <2>1, GetFrame DEF Promises
<1>8. AckedIsRetrievable'
  BY <1>0, <1>1, <1>4, GetFrame, RetrievableStays DEF ServiceInv
<1> QED
  BY <1>0, <1>3, <1>5, <1>7, <1>8, GetFrame DEF ServiceInv

\* What a GET may answer a client that was promised its value.
GoodAnswer(g, err1, shows) ==
    \A e \in promised[g] :
       \/ getUuid[g] \in expired
       \/ Backend # "memory" /\ StatusCode(err1) \in 500..599
       \/ err1 = "NONE" /\ Shows(shows, e)

LEMMA GetAnswerInv ==
    ASSUME ServiceInv, Unposted, UNCHANGED <<promised, getUuid, getReply, held>>,
           NEW g \in GetRequest, getPc[g] # "idle",
           NEW err1 \in G!Errors, NEW shows \in G!Record \cup {NoRecord}, NEW ms,
           G!Answer(g, err1, shows, ms), GoodAnswer(g, err1, shows)
    PROVE  ServiceInv'
<1>t. G!TypeOK /\ promised \in [GetRequest -> SUBSET Element] /\ Promises
  BY DEF ServiceInv, ServiceTypeOK
<1>1. /\ answer' = [answer EXCEPT ![g] = [err |-> err1, shows |-> shows]]
      /\ getPc' = [getPc EXCEPT ![g] = "done"]
      /\ \E x : G!Count(x)
  BY DEF G!Answer, G!Goto
<1>2. ServiceTypeOK'
  <2>1. getPc' \in [GetRequest -> {"idle", "parse", "call", "done"}]
    BY <1>1, <1>t DEF G!TypeOK
  <2>2. answer' \in [GetRequest -> [err : G!Errors, shows : G!Record \cup {NoRecord}]]
    BY <1>1, <1>t DEF G!TypeOK
  <2>3. promised' \in [GetRequest -> SUBSET Element]
    BY <1>t
  <2> QED
    BY <1>1, <1>t, <2>1, <2>2, <2>3, GetTypes, GetCountType DEF G!TypeOK
<1>3. /\ \A q \in GetRequest : q # g => getPc'[q] = getPc[q] /\ answer'[q] = answer[q]
      /\ getPc'[g] = "done" /\ answer'[g] = [err |-> err1, shows |-> shows]
  BY <1>1, <1>t DEF G!TypeOK
<1>4. Replies'
  BY <1>3, GetFrame DEF ServiceInv, Replies, Backend
<1>5. Promises'
  BY <1>3, <1>t, GetFrame DEF Promises
<1>6. AckedIsRetrievable'
  <2>1. ASSUME NEW q \in GetRequest, getPc'[q] = "done", NEW e \in promised[q]
        PROVE  \/ getUuid[q] \in expired
               \/ Backend # "memory" /\ StatusCode(answer'[q].err) \in 500..599
               \/ /\ answer'[q].err = "NONE"
                  /\ answer'[q].shows.type = ToCache(body[e[1]].puts[e[2]]).type
                  /\ answer'[q].shows.content = ToCache(body[e[1]].puts[e[2]]).value
    <3>1. CASE q = g
      BY <1>3, <2>1, <3>1 DEF GoodAnswer, Shows
    <3>2. CASE q # g
      BY <1>3, <2>1, <3>2 DEF ServiceInv, AckedIsRetrievable, Retrieves
    <3> QED
      BY <3>1, <3>2
  <2> QED
    BY <2>1, GetFrame DEF AckedIsRetrievable, Retrieves, Backend, ToCache
<1> QED
  BY <1>2, <1>4, <1>5, <1>6, GetFrame DEF ServiceInv

\* The call ends: with the record the server replied with, or a failure.
LEMMA GetFinishInv ==
    ASSUME ServiceInv, Unposted, UNCHANGED promised,
           NEW g \in GetRequest, getPc[g] = "call",
           NEW a, NEW record \in G!Record \cup {NoRecord},
           G!Finish(g, a, record),
           \/ G!AdapterGet(Backend, a) = "NONE" /\ record \in held[g] \ {NoRecord}
           \/ G!AdapterGet(Backend, a) = "KEY_NOT_FOUND" /\ NoRecord \in held[g]
           \/ /\ G!AdapterGet(Backend, a) \in G!GetError \ {"NONE", "KEY_NOT_FOUND"}
              /\ Backend # "memory"
    PROVE  ServiceInv'
<1> DEFINE x == G!AdapterGet(Backend, a)
           err1 == G!Decompress(x, record)
<1>1. UNCHANGED <<getUuid, getReply, held>> /\ G!Backend = Backend
  BY DEF G!Finish, G!Backend, GetConfig, Backend
<1>2. \A e \in promised[g] : getUuid[g] \in expired \/ \A y \in held[g] : Shows(y, e)
  BY DEF ServiceInv, Promises
<1>3. getUuid[g] \in expired \/ promised[g] = {} \/ NoRecord \notin held[g]
  BY <1>2 DEF Shows
<1>4. compression \in {"none", "snappy"} /\ G!Compression = compression
  BY DEF ServiceInv, ServiceTypeOK, G!Compression, GetConfig
<1>5. x = "NONE" /\ Backend = "memory" => record.encoding = compression
  BY DEF ServiceInv, Replies
<1>6. CASE err1 # "NONE"
  <2>1. err1 \in G!GetError /\ G!Answer(g, err1, NoRecord, G!CallMetrics(err1))
    BY <1>1, <1>6 DEF G!Finish, G!Decompress, G!GetError
  <2>2. ASSUME NEW e \in promised[g], getUuid[g] \notin expired
        PROVE  err1 \in G!GetError \ {"NONE", "KEY_NOT_FOUND"} /\ Backend # "memory"
    BY <1>3, <1>4, <1>5, <1>6, <2>2 DEF G!Decompress, G!GetError
  <2>3. GoodAnswer(g, err1, NoRecord)
    BY <2>2 DEF GoodAnswer, G!GetError, StatusCode, BadRequestErrors, NotFoundErrors, TimeoutErrors
  <2> QED
    BY <1>1, <2>1, <2>3, GetAnswerInv DEF G!Errors
<1>7. CASE err1 = "NONE" /\ G!Unprefixed(record)
  <2>1. G!Answer(g, "UNKNOWN_STORED_DATA_TYPE", NoRecord, G!CallMetrics(err1))
    BY <1>1, <1>7 DEF G!Finish
  <2>2. x = "NONE" /\ Backend # "memory"
    BY <1>4, <1>5, <1>7 DEF G!Decompress, G!Unprefixed
  <2>3. GoodAnswer(g, "UNKNOWN_STORED_DATA_TYPE", NoRecord)
    BY <2>2 DEF GoodAnswer, StatusCode, BadRequestErrors, NotFoundErrors, TimeoutErrors
  <2> QED
    BY <1>1, <2>1, <2>3, GetAnswerInv DEF G!Errors
<1>8. CASE err1 = "NONE" /\ ~G!Unprefixed(record)
  <2>1. G!Answer(g, "NONE", record, G!CallMetrics(err1))
    BY <1>1, <1>8 DEF G!Finish
  <2>2. record \in held[g]
    BY <1>8 DEF G!Decompress
  <2>3. GoodAnswer(g, "NONE", record)
    BY <1>2, <2>2 DEF GoodAnswer
  <2> QED
    BY <1>1, <2>1, <2>3, GetAnswerInv DEF G!Errors, G!GetError
<1> QED
  BY <1>6, <1>7, <1>8

\* The library reports what the server replied, and a failure is neither a
\* record nor a missing one.
LEMMA GetReply ==
    ASSUME NEW b \in Backends, NEW found \in BOOLEAN
    PROVE  G!AdapterGet(b, G!GetReplied(b, found)) = IF found THEN "NONE" ELSE "KEY_NOT_FOUND"
BY DEF G!AdapterGet, G!GetReplied, G!MemoryGet, G!MemcacheGet, G!RedisGet, G!CassandraGet,
       G!AerospikeGet, G!IgniteGet, G!PassedOn, Backends

LEMMA GetFailure ==
    ASSUME NEW b \in Backends, NEW a \in G!GetFailures(b)
    PROVE  /\ G!AdapterGet(b, a) \in G!GetError \ {"NONE", "KEY_NOT_FOUND"}
           /\ b # "memory"
BY DEF G!AdapterGet, G!GetFailures, G!MemoryGet, G!MemcacheGet, G!RedisGet, G!CassandraGet,
       G!AerospikeGet, G!IgniteGet, G!PassedOn, G!GetAnswer, G!GetClientError, G!GetError, Backends

LEMMA GetHandlerInv ==
    ASSUME ServiceInv, NEW g \in GetRequest, GetHandler(g) PROVE ServiceInv'
<1>0. Unposted /\ UNCHANGED promised
  BY DEF GetHandler
<1>t. G!TypeOK /\ Types /\ Backend \in Backends
  BY BackendType DEF ServiceInv, ServiceTypeOK, Inv
<1>b. G!Backend = Backend /\ G!AllowCustomKeys = AllowKeys
  BY DEF G!Backend, GetConfig, Backend, G!AllowCustomKeys, AllowKeys
<1>1. CASE G!Reject(g)
  <2>1. /\ getPc[g] = "parse" /\ G!ParseError(getUuid[g]) # "NONE"
        /\ G!Answer(g, G!ParseError(getUuid[g]), NoRecord, {})
        /\ UNCHANGED <<getUuid, getReply, held>>
    BY <1>1 DEF G!Reject
  <2>2. G!ParseError(getUuid[g]) \in {"MISSING_KEY", "KEY_LENGTH"}
    BY <2>1 DEF G!ParseError
  <2>3. ASSUME NEW e \in promised[g] PROVE FALSE
    <3>1. e \in Element /\ Acked(e) /\ AckKey(e) = getUuid[g] /\ getUuid[g] # NoKey
      BY DEF ServiceInv, ServiceTypeOK, Promises
    <3>2. getUuid[g] \in Key \ UUID /\ ~AllowKeys
      BY <1>t, <1>b, <2>1, <3>1 DEF G!ParseError, G!TypeOK
    <3>3. CustomKeysNeedPermission
      BY InvPermission DEF ServiceInv
    <3> QED
      BY <3>1, <3>2, <3>3 DEF CustomKeysNeedPermission, Key
  <2>4. GoodAnswer(g, G!ParseError(getUuid[g]), NoRecord)
    BY <2>3 DEF GoodAnswer
  <2> QED
    BY <1>0, <2>1, <2>2, <2>4, GetAnswerInv DEF G!Errors
<1>2. CASE G!Call(g)
  <2>1. /\ getPc[g] = "parse" /\ G!ParseError(getUuid[g]) = "NONE"
        /\ getPc' = [getPc EXCEPT ![g] = "call"]
        /\ held' = [held EXCEPT ![g] = {[k \in Key |-> Seen(k)][getUuid[g]]}]
        /\ UNCHANGED <<getUuid, answer, getReply>>
        /\ \E ms : G!Count(ms)
    BY <1>2 DEF G!Call, G!Goto
  <2>2. getUuid[g] \in Key
    BY <1>t, <2>1 DEF G!ParseError, G!TypeOK
  <2>3. held' = [held EXCEPT ![g] = {Seen(getUuid[g])}]
    BY <2>1, <2>2
  <2>4. Seen(getUuid[g]) \in G!Record \cup {NoRecord}
    BY <1>0, <2>2, GetFrame DEF SeenTyped
  <2>5. ServiceTypeOK'
    <3>1. getPc' \in [GetRequest -> {"idle", "parse", "call", "done"}]
      BY <1>t, <2>1 DEF G!TypeOK
    <3>2. held' \in [GetRequest -> SUBSET (G!Record \cup {NoRecord})]
      BY <1>t, <2>3, <2>4 DEF G!TypeOK
    <3>3. promised' \in [GetRequest -> SUBSET Element]
      BY <1>0 DEF ServiceInv, ServiceTypeOK
    <3> QED
      BY <1>0, <1>t, <2>1, <3>1, <3>2, <3>3, GetTypes, GetCountType DEF G!TypeOK
  <2>6. /\ \A q \in GetRequest : q # g => getPc'[q] = getPc[q] /\ held'[q] = held[q]
        /\ getPc'[g] = "call" /\ held'[g] = {Seen(getUuid[g])}
    BY <1>t, <2>1, <2>3 DEF G!TypeOK
  <2>7. Backend = "memory" /\ Seen(getUuid[g]) # NoRecord =>
           Seen(getUuid[g]).encoding = compression
    BY <2>2 DEF Seen, ServiceInv, Compressions
  <2>8. Replies'
    <3>1. Replies /\ Backend' = Backend /\ UNCHANGED <<compression, getUuid, getReply>>
      BY <1>0, <2>1, GetFrame DEF ServiceInv, Backend
    <3>2. \A k \in Key : Seen(k)' = Seen(k)
      BY <1>0, GetFrame
    <3>3. getReply[g] = NoReply
      BY <2>1, <3>1 DEF Replies
    <3> QED
      BY <2>2, <2>6, <2>7, <3>1, <3>2, <3>3 DEF Replies
  <2>9. ASSUME NEW e \in promised[g], getUuid[g] \notin expired
        PROVE  Shows(Seen(getUuid[g]), e)
    <3>1. e \in Element /\ Acked(e) /\ AckKey(e) = getUuid[g]
      BY DEF ServiceInv, ServiceTypeOK, Promises
    <3>2. AcksShown
      BY AckedShown DEF ServiceInv, ServiceTypeOK, EncodingTyped
    <3> QED
      BY <2>2, <2>9, <3>1, <3>2 DEF AcksShown
  <2>10. Promises'
    <3>1. \A q \in GetRequest : \A e \in promised[q] : e \in Element
      BY DEF ServiceInv, ServiceTypeOK
    <3> QED
      BY <1>0, <2>1, <2>6, <2>9, <3>1, GetFrame DEF ServiceInv, Promises
  <2>11. AckedIsRetrievable'
    <3>1. \A q \in GetRequest : getPc'[q] = "done" => getPc[q] = "done"
      BY <2>6
    <3> QED
      BY <1>0, <2>1, <3>1, GetFrame, RetrievableStays DEF ServiceInv
  <2> QED
    BY <1>0, <2>5, <2>8, <2>10, <2>11, GetFrame DEF ServiceInv
<1>3. CASE G!TakeReply(g)
  <2>1. /\ getPc[g] = "call" /\ getReply[g] # NoReply
        /\ G!Finish(g, G!GetReplied(Backend, getReply[g] # NoRecord), getReply[g])
    BY <1>b, <1>3 DEF G!TakeReply
  <2>2. getReply[g] \in held[g] /\ getReply[g] \in G!Record \cup {NoRecord}
    BY <1>t, <2>1 DEF ServiceInv, Replies, G!TypeOK
  <2>3. G!AdapterGet(Backend, G!GetReplied(Backend, getReply[g] # NoRecord))
          = IF getReply[g] # NoRecord THEN "NONE" ELSE "KEY_NOT_FOUND"
    BY <1>t, GetReply
  <2> QED
    BY <1>0, <2>1, <2>2, <2>3, GetFinishInv
<1>4. CASE G!GiveUp(g)
  <2>1. PICK a \in G!GetFailures(Backend) : getPc[g] = "call" /\ G!Finish(g, a, NoRecord)
    BY <1>b, <1>4 DEF G!GiveUp
  <2> QED
    BY <1>0, <1>t, <2>1, GetFailure, GetFinishInv
<1> QED
  BY <1>1, <1>2, <1>3, <1>4 DEF GetHandler, G!Handler

LEMMA GetReadsInv ==
    ASSUME ServiceInv, NEW g \in GetRequest, GetReads(g) PROVE ServiceInv'
<1>0. Unposted /\ UNCHANGED promised
  BY DEF GetReads
<1>t. G!TypeOK
  BY DEF ServiceInv, ServiceTypeOK
<1>1. /\ getPc[g] = "call" /\ UNCHANGED <<getPc, getUuid, answer, held, getCount>>
      /\ getReply' = [getReply EXCEPT ![g] = [k \in Key |-> Seen(k)][getUuid[g]]]
  BY DEF GetReads, G!ServerReads, G!handlerVars
<1>2. getUuid[g] \in Key /\ Seen(getUuid[g]) \in held[g]
  BY <1>1 DEF ServiceInv, Replies
<1>3. getReply' = [getReply EXCEPT ![g] = Seen(getUuid[g])]
  BY <1>1, <1>2
<1>4. ServiceTypeOK'
  <2>1. getReply' \in [GetRequest -> G!Record \cup {NoRecord, NoReply}]
    BY <1>0, <1>t, <1>2, <1>3, GetFrame DEF SeenTyped, G!TypeOK
  <2>2. promised' \in [GetRequest -> SUBSET Element]
    BY <1>0 DEF ServiceInv, ServiceTypeOK
  <2> QED
    BY <1>0, <1>t, <1>1, <2>1, <2>2, GetTypes DEF G!TypeOK
<1>5. /\ \A q \in GetRequest : q # g => getReply'[q] = getReply[q]
      /\ getReply'[g] = Seen(getUuid[g])
  BY <1>t, <1>3 DEF G!TypeOK
<1>6. Replies'
  BY <1>0, <1>1, <1>2, <1>5, GetFrame DEF ServiceInv, Replies, Backend
<1>7. Promises'
  <2>1. \A q \in GetRequest : \A e \in promised[q] : e \in Element
    BY DEF ServiceInv, ServiceTypeOK
  <2> QED
    BY <1>0, <1>1, <2>1, GetFrame DEF ServiceInv, Promises
<1>8. AckedIsRetrievable'
  BY <1>0, <1>1, GetFrame, RetrievableStays DEF ServiceInv
<1> QED
  BY <1>0, <1>4, <1>6, <1>7, <1>8, GetFrame DEF ServiceInv
-----------------------------------------------------------------------------
(* The restarts. *)

\* What is left of the POSTs when the process is killed.
LEMMA RestartLeaves ==
    ASSUME ServiceInv, Restart
    PROVE  /\ \A r \in Request : pc'[r] = IF pc[r] \in {"idle", "done"} THEN pc[r] ELSE "lost"
           /\ \A e \in Element : epc'[e] = IF pc[e[1]] \in {"idle", "done", "lost"}
                                           THEN epc[e] ELSE "none"
           /\ UNCHANGED <<config, body, batch, result, uuid, err, call, reply, encoding>>
           /\ expired \subseteq expired'
           /\ \/ Backend # "memory" /\ UNCHANGED <<store, expired, wire>>
              \/ /\ Backend = "memory"
                 /\ \A k \in Key : /\ store'[k] = NoRecord
                                   /\ store[k] # NoRecord => k \in expired'
                 /\ \A e \in Element : wire'[e] = {}
           /\ \A e \in Element : e[1] \in Request
<1>1. pc \in [Request -> Statements \cup {"lost"}]
  BY DEF ServiceInv, ServiceTypeOK
<1>2. \A r \in Request : pc'[r] = IF pc[r] \in {"idle", "done"} THEN pc[r] ELSE "lost"
  BY <1>1 DEF Restart, InFlight
<1>3. \A e \in Element : epc'[e] = IF pc[e[1]] \in {"idle", "done", "lost"}
                                   THEN epc[e] ELSE "none"
  BY DEF Restart, InFlight
<1>4. UNCHANGED <<config, body, batch, result, uuid, err, call, reply, encoding>>
  BY DEF Restart
<1>5. \/ Backend # "memory" /\ UNCHANGED <<store, expired, wire>>
      \/ /\ Backend = "memory"
         /\ \A k \in Key : store'[k] = NoRecord
         /\ expired' = expired \cup {k \in Key : store[k] # NoRecord}
         /\ \A e \in Element : wire'[e] = {}
  BY DEF Restart
<1>6. \A e \in Element : e[1] \in Request
  BY DEF Element
<1> QED
  BY <1>2, <1>3, <1>4, <1>5, <1>6

\* No goroutine is left in a call: one in a call has a handler that waits.
LEMMA RestartEnds ==
    ASSUME ServiceInv, Restart PROVE \A e \in Element : epc'[e] # "call"
<1>0. Inv
  BY DEF ServiceInv
<1>1. ASSUME NEW e \in Element, epc[e] = "call", pc[e[1]] \in {"idle", "done", "lost"}
      PROVE  FALSE
  <2> DEFINE r == e[1]
  <2>1. e = <<r, e[2]>> /\ r \in Request /\ e[2] \in 1..Len(batch[r]) /\ ~Killed(e)
    BY <1>0, <1>1, OwnElement DEF Inv, Goroutines
  <2>2. pc[r] = "done" /\ Accepted(body[r]) /\ batch[r] = body[r].puts
    <3>1. pc[r] # "lost" /\ batch[r] # <<>>
      BY <2>1 DEF Killed
    <3> QED
      BY <1>0, <1>1, <2>1, <3>1 DEF Inv, Contents, Started, HoldingResp, Replying
  <2>3. AllDone(r)
    BY <1>0, <2>1, <2>2 DEF Inv, Answers, AnswerOf, Replying
  <2> QED
    BY <1>1, <2>1, <2>2, <2>3 DEF AllDone
<1> QED
  BY <1>1, RestartLeaves

LEMMA RestartTypes == ASSUME ServiceInv, Restart PROVE Types'
<1>0. Types
  BY DEF ServiceInv, Inv
<1>1. UNCHANGED <<config, body, batch, result, uuid, err, call, attempt, reply, outcome, blocker>>
  BY DEF Restart
<1>2. pc' \in [Request -> Statements \cup {"lost"}]
  BY <1>0 DEF Restart, Types
<1>3. epc' \in [Element -> {"none", "start", "call", "done"}]
  BY <1>0 DEF Restart, Types
<1>4. /\ reqObj' \in [Request -> Object \cup {NoObject}]
      /\ respObj' \in [Request -> Object \cup {NoObject}]
      /\ reqPool' \subseteq Object /\ respPool' \subseteq Object
      /\ puts' \in [Object -> Seq(PutObject)]
      /\ owner' \in [Object -> Request \cup {NoRequest}]
      /\ count' \in [Metrics -> Nat]
  BY DEF Restart
<1>5. /\ store' \in [Key -> Record \cup {NoRecord}]
      /\ expired' \subseteq Key
      /\ wire' \in [Element -> SUBSET (1..(ClientRetries + 1))]
  BY <1>0 DEF Restart, Types
<1> QED
  BY <1>0, <1>1, <1>2, <1>3, <1>4, <1>5 DEF Types, ClientRetries

LEMMA RestartInv == ASSUME ServiceInv, Restart PROVE Inv' /\ Keys'
<1>0. Inv
  BY DEF ServiceInv
<1>1. Types'
  BY RestartTypes
<1>2. Holders'
  BY RestartLeaves, PutAssumption
     DEF Restart, Holders, ObjectsHaveOneHolder, Holding, HoldingResp
<1>3. Contents'
  BY <1>0, RestartLeaves DEF Inv, Contents, Holding, HoldingResp, Started, Replying, Accepted
<1>4. Goroutines'
  <2>1. ASSUME NEW e \in Element, Killed(e)' PROVE epc'[e] = "none"
    BY <1>0, <2>1, RestartLeaves DEF Inv, Goroutines, Killed
  <2>2. ASSUME NEW e \in Element, ~Killed(e)' PROVE ~Killed(e) /\ epc'[e] = epc[e]
    BY <2>2, RestartLeaves DEF Killed
  <2>3. \A e \in Element : epc'[e] # "call"
    BY RestartEnds
  <2>4. \A e \in Element : wire[e] = {} => wire'[e] = {}
    BY RestartLeaves
  <2> QED
    BY <1>0, <2>1, <2>2, <2>3, <2>4, RestartLeaves DEF Inv, Goroutines
<1>5. Calls'
  <2>1. \A e \in Element : epc'[e] = "call" => epc[e] = "call"
    BY RestartLeaves
  <2> QED
    BY <1>0, <2>1, RestartLeaves DEF Inv, Calls, Put
<1>6. Stored'
  <2>1. \A e \in Element : epc'[e] = "done" => epc[e] = "done"
    BY RestartLeaves
  <2>2. ASSUME NEW e \in Element, reply[e] = "stored" PROVE Kept(e)'
    <3>1. call[e].key \in Key /\ Kept(e)
      BY <1>0, <2>2 DEF Inv, Goroutines, Calls, Call, Stored
    <3> QED
      BY <3>1, RestartLeaves DEF Kept
  <2>3. ASSUME NEW k \in Key, store'[k] # NoRecord PROVE store'[k] = store[k]
    BY <2>3, RestartLeaves
  <2> QED
    BY <1>0, <2>1, <2>2, <2>3, RestartLeaves DEF Inv, Stored, Written
<1>7. Answers'
  <2> SUFFICES ASSUME NEW r \in Request PROVE AnswerOf(r)'
    BY DEF Answers
  <2>1. CASE pc'[r] = "lost"
    BY <2>1 DEF AnswerOf, Replying
  <2>2. CASE pc'[r] # "lost"
    <3>1. pc'[r] = pc[r] /\ pc[r] \in {"idle", "done"}
      BY <2>2, RestartLeaves
    <3>2. \A i : <<r, i>> \in Element => epc'[<<r, i>>] = epc[<<r, i>>]
      BY <3>1, RestartLeaves
    <3>3. ASSUME Accepted(body[r]) PROVE AllDone(r) => AllDone(r)'
      BY <1>0, <3>2, <3>3, AcceptedElements, RestartLeaves DEF AllDone
    <3>4. UNCHANGED <<body, result, uuid, err>>
      BY RestartLeaves
    <3>5. /\ NoneFailed(r)' = NoneFailed(r) /\ Accepted(body'[r]) = Accepted(body[r])
          /\ ResultIsUuids(r)' = ResultIsUuids(r) /\ ResultIsError(r)' = ResultIsError(r)
      BY <3>4, Zenon DEF NoneFailed, ResultIsUuids, ResultIsError
    <3> QED
      BY <1>0, <3>1, <3>3, <3>4, <3>5 DEF Inv, Answers, AnswerOf, Replying
  <2> QED
    BY <2>1, <2>2
<1>8. Keys'
  <2>1. UNCHANGED <<config, batch, call>>
    BY RestartLeaves
  <2>2. \A e \in Element : KeyChoice(Put(e))' = KeyChoice(Put(e))
    BY <2>1, Zenon DEF KeyChoice, HasOwnKey, AllowKeys, Put
  <2> QED
    BY <2>1, <2>2 DEF ServiceInv, Keys
<1> QED
  BY <1>1, <1>2, <1>3, <1>4, <1>5, <1>6, <1>7, <1>8 DEF Inv

\* The refused Puts of a killed process met a record, its deadlines were
\* answered, and what it has left on the network was asked for.
LEMMA RestartAnswers == ASSUME ServiceInv, Restart PROVE Refusals' /\ Timeouts' /\ LostCalls'
<1>0. Inv /\ Refusals /\ Timeouts /\ LostCalls
  BY DEF ServiceInv
<1>1. UNCHANGED <<config, body, batch, uuid, err, call, attempt, reply, outcome, blocker>>
  BY DEF Restart
<1>2. Backend' = Backend /\ PlainErrors' = PlainErrors
  BY <1>1 DEF Backend, PlainErrors
<1>3. \A e \in Element : e[1] \in Request /\ epc'[e] # "call" /\ (epc'[e] = "done" => epc[e] = "done")
  BY RestartLeaves, RestartEnds
<1>4. \A e \in Element : Killed(e)' \/ (~Killed(e) /\ epc'[e] = epc[e])
  BY <1>3, RestartLeaves DEF Killed
<1>5. Refusals'
  <2> SUFFICES ASSUME NEW e \in Element PROVE RefusalOf(e)'
    BY DEF Refusals
  <2>1. RefusalOf(e)
    BY <1>0 DEF Refusals
  <2>2. Taken(e)' = Taken(e)
    BY <1>1, <1>2 DEF Taken
  <2>3. wire'[e] # {} => UNCHANGED <<wire, store>>
    BY RestartLeaves
  <2> QED
    BY <1>1, <1>2, <1>3, <2>1, <2>2, <2>3 DEF RefusalOf
<1>6. Timeouts'
  <2>1. TimeoutAnswered597' = TimeoutAnswered597
    BY <1>1 DEF TimeoutAnswered597
  <2> QED
    BY <1>0, <1>1, <1>2, <1>4, <2>1 DEF Timeouts
<1>7. LostCalls'
  <2>1. ASSUME NEW r \in Request, batch[r] # <<>>
        PROVE  Accepted(body[r]) /\ batch[r] = body[r].puts
    BY <1>0, <2>1 DEF Inv, Contents, LostCalls, Started, HoldingResp, Holding
  <2>2. ASSUME NEW e \in Element, call[e] # NoCall PROVE e[2] <= Len(batch[e[1]])
    BY <1>0, <2>2 DEF Inv, Goroutines, LostCalls
  <2> QED
    BY <1>1, <2>1, <2>2 DEF LostCalls
<1> QED
  BY <1>5, <1>6, <1>7

LEMMA RestartServiceInv == ASSUME ServiceInv, Restart PROVE ServiceInv'
<1>t. G!TypeOK /\ promised \in [GetRequest -> SUBSET Element]
  BY DEF ServiceInv, ServiceTypeOK
<1>1. /\ \A g \in GetRequest : /\ getPc'[g] = IF getPc[g] = "done" THEN "done" ELSE "idle"
                               /\ getReply'[g] = NoReply
      /\ UNCHANGED <<getUuid, answer, held, promised>>
  BY DEF Restart
<1>2. \A e \in Element : Acked(e) => Acked(e)' /\ AckKey(e)' = AckKey(e)
  BY RestartLeaves DEF Acked, AckKey
<1>3. ServiceTypeOK'
  <2>1. compression' \in Encodings /\ EncodingTyped' /\ restarts' \in 0..MaxRestarts /\ restarts' > 0
    BY DEF ServiceInv, ServiceTypeOK, Restart, EncodingTyped
  <2>2. SeenTyped'
    BY <2>1, RestartTypes, SeenType, PTL
  <2>3. /\ getPc' \in [GetRequest -> {"idle", "parse", "call", "done"}]
        /\ getReply' \in [GetRequest -> G!Record \cup {NoRecord, NoReply}]
        /\ getCount' \in [G!Metrics -> Nat]
    BY DEF Restart
  <2>4. GetConfig(config, compression)' \in G!Config
    BY <1>t, <2>1, RestartLeaves DEF GetConfig, G!TypeOK, G!Config
  <2>5. G!TypeOK'
    BY <1>t, <1>1, <2>2, <2>3, <2>4 DEF G!TypeOK, SeenTyped
  <2> QED
    BY <1>t, <1>1, <2>1, <2>5, RestartTypes DEF ServiceTypeOK, EncodingTyped, Types
<1>4. Compressions'
  BY RestartEnds, RestartLeaves DEF Compressions, Backend
<1>5. Replies'
  BY <1>1 DEF Replies
<1>6. Promises'
  BY <1>t, <1>1, <1>2 DEF ServiceInv, Promises
<1>7. AckedIsRetrievable'
  BY <1>1, RestartLeaves, RetrievableStays DEF ServiceInv
<1> QED
  BY <1>3, <1>4, <1>5, <1>6, <1>7, RestartInv, RestartAnswers DEF ServiceInv
-----------------------------------------------------------------------------
(* The theorems. *)

LEMMA ServiceInitInv == ServiceInit => ServiceInv
<1> SUFFICES ASSUME ServiceInit PROVE ServiceInv
  OBVIOUS
<1>1. Inv /\ Keys /\ Init
  BY InitInv DEF ServiceInit, Init, Keys
<1>2. /\ \A g \in GetRequest : getPc[g] = "idle" /\ getReply[g] = NoReply /\ promised[g] = {}
      /\ restarts = 0
  BY DEF ServiceInit
<1>3. ServiceTypeOK
  <2>1. compression \in Encodings /\ EncodingTyped /\ config \in Configs
    BY <1>1 DEF ServiceInit, EncodingTyped, Init
  <2>2. SeenTyped
    BY <1>1, <2>1, SeenType DEF Inv
  <2>3. GetConfig(config, compression) \in G!Config
    BY <1>1, <2>1 DEF Inv, Types, GetConfig, G!Config, Config, G!Backends, Backends
  <2>4. G!TypeOK
    <3>1. getUuid \in [GetRequest -> Key \cup {NoKey}] /\ getPc \in [GetRequest -> {"idle", "parse", "call", "done"}]
      BY DEF ServiceInit
    <3>2. getReply \in [GetRequest -> G!Record \cup {NoRecord, NoReply}]
      BY DEF ServiceInit
    <3>3. answer \in [GetRequest -> [err : G!Errors, shows : G!Record \cup {NoRecord}]]
      BY DEF ServiceInit, G!Errors, G!GetError
    <3>4. held \in [GetRequest -> SUBSET (G!Record \cup {NoRecord})] /\ getCount \in [G!Metrics -> Nat]
      BY DEF ServiceInit
    <3>5. [k \in Key |-> Seen(k)] \in [Key -> G!Record \cup {NoRecord}]
      BY <2>2 DEF SeenTyped
    <3> QED
      BY <2>3, <3>1, <3>2, <3>3, <3>4, <3>5 DEF G!TypeOK
  <2>5. promised \in [GetRequest -> SUBSET Element] /\ restarts \in 0..MaxRestarts
    BY DEF ServiceInit
  <2>6. \A r \in Request : pc[r] # "lost"
    BY <1>1 DEF Init
  <2> QED
    BY <1>1, <2>1, <2>4, <2>5, <2>6 DEF ServiceTypeOK, EncodingTyped, Inv, Types
<1>4. Compressions
  BY <1>1 DEF Init, Compressions
<1>5. Refusals /\ Timeouts
  BY <1>1 DEF Init, Refusals, RefusalOf, Timeouts, TimeoutAnswered597
<1>6. LostCalls
  BY <1>1 DEF Init, LostCalls
<1> QED
  BY <1>1, <1>2, <1>3, <1>4, <1>5, <1>6 DEF ServiceInv, Replies, Promises, AckedIsRetrievable

\* A step of the service is one of a POST or of the storage server, one of a
\* GET, or a restart.
LEMMA ServiceCases ==
    ASSUME [ServiceNext]_serviceVars
    PROVE  \/ [Next]_vars /\ Meanwhile
           \/ \E g \in GetRequest : GetReceive(g) \/ GetHandler(g) \/ GetReads(g)
           \/ Restart
           \/ UNCHANGED serviceVars
BY DEF ServiceNext, Next, ServiceEnded

LEMMA ServiceStep == ServiceInv /\ [ServiceNext]_serviceVars => ServiceInv'
<1> SUFFICES ASSUME ServiceInv, [ServiceNext]_serviceVars PROVE ServiceInv'
  OBVIOUS
<1>1. CASE UNCHANGED serviceVars
  <2>1. Unposted /\ UNCHANGED <<getPc, getUuid, getReply, answer, getCount, held, promised>>
    BY <1>1 DEF serviceVars, getVars, Unposted
  <2>2. G!TypeOK /\ promised \in [GetRequest -> SUBSET Element]
    BY DEF ServiceInv, ServiceTypeOK
  <2>3. ServiceTypeOK'
    BY <2>1, <2>2, GetTypes DEF G!TypeOK
  <2>4. Replies'
    BY <2>1, GetFrame DEF ServiceInv, Replies, Backend
  <2>5. Promises'
    BY <2>1, <2>2, GetFrame DEF ServiceInv, Promises
  <2>6. AckedIsRetrievable'
    BY <2>1, GetFrame, RetrievableStays DEF ServiceInv
  <2> QED
    BY <2>1, <2>3, <2>4, <2>5, <2>6, GetFrame DEF ServiceInv
<1> QED
  BY <1>1, ServiceCases, PostInv, GetReceiveInv, GetHandlerInv, GetReadsInv, RestartServiceInv

\* The inductive invariant holds in every reachable state, across restarts.
THEOREM ServiceInvariant == ServiceSpec => []ServiceInv
BY ServiceInitInv, ServiceStep, PTL DEF ServiceSpec

\* A client reads the value it was acknowledged (put.go:49-72, get.go:44-90).
THEOREM ClientsReadTheirValue == ServiceSpec => []AckedIsRetrievable
<1>1. ServiceInv => AckedIsRetrievable
  BY DEF ServiceInv
<1> QED
  BY <1>1, ServiceInvariant, PTL

\* The type invariant (the configuration and the statements of the handlers).
THEOREM ServiceTypeCorrect == ServiceSpec => []ServiceTypeOK
<1>1. ServiceInv => ServiceTypeOK
  BY DEF ServiceInv
<1> QED
  BY <1>1, ServiceInvariant, PTL

\* What a POST acknowledged is stored, or has expired, whatever was killed
\* and restarted since (put.go:287-329).
THEOREM AcksOutliveRestarts == ServiceSpec => []AckedRecordKept
<1>1. ServiceInv => AckedRecordKept
  BY InvAcks DEF ServiceInv
<1> QED
  BY <1>1, ServiceInvariant, PTL

\* What one process keeps, it keeps when it is killed and started again: no
\* object of a pool is shared, an answer is made of its request's own elements,
\* a refused body starts nothing, and custom keys need permission.
THEOREM AnswersOutliveRestarts ==
    ServiceSpec => [](/\ ObjectsHaveOneHolder /\ AnswerFromOwnElements
                      /\ RefusedBodyStartsNothing /\ CustomKeysNeedPermission)
<1>1. ServiceInv => /\ ObjectsHaveOneHolder /\ AnswerFromOwnElements
                    /\ RefusedBodyStartsNothing /\ CustomKeysNeedPermission
  BY InvOwn, InvRefuses, InvPermission DEF ServiceInv, Inv, Holders
<1> QED
  BY <1>1, ServiceInvariant, PTL

\* An empty uuid means that the key was taken, also when the record that took
\* it was left behind by a killed process (put.go:320-325).
THEOREM EmptyMeansTakenAcrossRestarts ==
    ServiceSpec => [](Backend # "cassandra" => EmptyUuidMeansTaken)
<1>1. ServiceInv => (Backend # "cassandra" => EmptyUuidMeansTaken)
  BY InvTaken DEF ServiceInv
<1> QED
  BY <1>1, ServiceInvariant, PTL

\* Over Redis, deadlines are answered with a 597 by every process
\* (put.go:160-173, backends/redis.go:102-115).
THEOREM TimeoutsAre597AcrossRestarts == ServiceSpec => [](PlainErrors => TimeoutAnswered597)
<1>1. ServiceInv => (PlainErrors => TimeoutAnswered597)
  BY DEF ServiceInv, Timeouts
<1> QED
  BY <1>1, ServiceInvariant, PTL
-----------------------------------------------------------------------------
(* The contract of POST /cache, across restarts. *)

LEMMA ServiceAsksFor == ServiceInv => AskedFor
<1> SUFFICES ASSUME ServiceInv, NEW e \in Element, call[e] # NoCall
             PROVE  /\ pc[e[1]] # "idle" /\ batch[e[1]] = body[e[1]].puts
                    /\ e[2] <= Len(batch[e[1]])
  BY DEF AskedFor
<1>0. Inv /\ LostCalls /\ e[1] \in Request /\ e[2] \in Nat \ {0}
  BY DEF ServiceInv, Element, Slot
<1>1. e[2] <= Len(batch[e[1]])
  BY <1>0 DEF Inv, Goroutines, LostCalls
<1>2. batch[e[1]] # <<>>
  BY <1>0, <1>1
<1>3. CASE pc[e[1]] = "lost"
  BY <1>0, <1>1, <1>2, <1>3 DEF LostCalls
<1>4. CASE pc[e[1]] # "lost"
  BY <1>0, <1>1, <1>2, <1>4 DEF Inv, Contents, Started, HoldingResp, Replying
<1> QED
  BY <1>3, <1>4

\* To a client whose request was killed, it is not answered yet; the records of
\* an in-memory back-end are dropped together.
LEMMA RestartDrops ==
    ASSUME ServiceInv, Restart PROVE [Contract!Next]_(Contract!vars)
<1> DEFINE K == {k \in Key : store[k] # NoRecord}
<1>1. \A r \in Request : /\ pc'[r] = "idle" <=> pc[r] = "idle"
                         /\ pc'[r] = "done" <=> pc[r] = "done"
  BY RestartLeaves
<1>2. UNCHANGED <<body, result>>
  BY RestartLeaves
<1>3. UNCHANGED <<[r \in Request |-> IF pc[r] = "idle" THEN "idle"
                                    ELSE IF pc[r] = "done" THEN "answered" ELSE "asked"],
                  [r \in Request |-> body[r].puts],
                  [r \in Request |-> IF pc[r] = "done" THEN result[r] ELSE NoResult]>>
  BY <1>1, <1>2
<1>4. CASE UNCHANGED <<store, expired>>
  BY <1>3, <1>4 DEF Contract!vars
<1>5. CASE ~UNCHANGED <<store, expired>>
  <2>1. store' = [k \in Key |-> NoRecord] /\ expired' = expired \cup K
    BY <1>5 DEF Restart
  <2>2. store' = [k \in Key |-> IF k \in K THEN NoRecord ELSE store[k]]
    BY <2>1
  <2>3. Contract!Drop(K)
    BY <1>3, <2>1, <2>2 DEF Contract!Drop
  <2> QED
    BY <2>3 DEF Contract!Next
<1> QED
  BY <1>4, <1>5

\* POST /cache keeps its contract when processes are killed: an answer commits
\* what it shows, and a killed request's write that comes late stores what the
\* request asked for, under a free key.
THEOREM ContractOutlivesRestarts == ServiceSpec => ContractKept
<1>1. ServiceInit => Contract!Init
  BY InitContract DEF ServiceInit
<1>2. ServiceInv /\ [ServiceNext]_serviceVars => [Contract!Next]_(Contract!vars)
  <2> SUFFICES ASSUME ServiceInv, [ServiceNext]_serviceVars
               PROVE  [Contract!Next]_(Contract!vars)
    OBVIOUS
  <2>1. CASE [Next]_vars
    BY <2>1, StepKeepsContract, ServiceAsksFor DEF ServiceInv
  <2>2. \A g \in GetRequest : GetReceive(g) \/ GetHandler(g) \/ GetReads(g) => UNCHANGED vars
    BY Zenon DEF GetReceive, GetHandler, GetReads, Unposted
  <2>3. UNCHANGED serviceVars => UNCHANGED vars
    BY Zenon DEF serviceVars
  <2> QED
    BY <2>1, <2>2, <2>3, RestartDrops, ServiceCases
<1> QED
  BY <1>1, <1>2, ServiceInvariant, PTL DEF ServiceSpec, Contract!Spec, ContractKept
-----------------------------------------------------------------------------
(* What GETs show.                                                         *)

\* The step answers g, with a record its key has held or with an error; not
\* found only if the key was free, or is none that may be asked for.
Ends(g, err1, shows) ==
    /\ answer' = [answer EXCEPT ![g] = [err |-> err1, shows |-> shows]]
    /\ getPc' = [getPc EXCEPT ![g] = "done"]
    /\ err1 = "NONE" => getPc[g] = "call" /\ shows \in held[g] \ {NoRecord}
    /\ G!StatusCode(err1) = 404 =>
          NoRecord \in held[g] \/ (getUuid[g] \notin UUID /\ ~G!AllowCustomKeys)

LEMMA GetAnswers ==
    ASSUME ServiceInv, NEW g \in GetRequest, GetHandler(g), ~G!Call(g)
    PROVE  UNCHANGED <<getUuid, held>> /\ \E err1, shows : Ends(g, err1, shows)
<1>t. G!TypeOK /\ Backend \in Backends /\ G!Backend = Backend
  BY BackendType DEF ServiceInv, ServiceTypeOK, Inv, G!Backend, GetConfig, Backend
<1> USE DEF G!StatusCode, G!BadRequestErrors, G!NotFoundErrors, G!TimeoutErrors
<1>1. CASE G!Reject(g)
  <2>1. /\ G!ParseError(getUuid[g]) # "NONE"
        /\ G!Answer(g, G!ParseError(getUuid[g]), NoRecord, {})
        /\ UNCHANGED <<getUuid, held>>
    BY <1>1 DEF G!Reject
  <2>2. G!StatusCode(G!ParseError(getUuid[g])) = 404 => getUuid[g] \notin UUID /\ ~G!AllowCustomKeys
    BY DEF G!ParseError
  <2>3. Ends(g, G!ParseError(getUuid[g]), NoRecord)
    BY <2>1, <2>2 DEF Ends, G!Answer, G!Goto
  <2> QED
    BY <2>1, <2>3
<1>2. ASSUME NEW a, NEW record, getPc[g] = "call", G!Finish(g, a, record),
             \/ G!AdapterGet(Backend, a) = "NONE" /\ record \in held[g] \ {NoRecord}
             \/ G!AdapterGet(Backend, a) = "KEY_NOT_FOUND" /\ NoRecord \in held[g]
             \/ G!AdapterGet(Backend, a) \in G!GetError \ {"NONE", "KEY_NOT_FOUND"}
      PROVE  UNCHANGED <<getUuid, held>> /\ \E err1, shows : Ends(g, err1, shows)
  <2> DEFINE err1 == G!Decompress(G!AdapterGet(Backend, a), record)
  <2>1. UNCHANGED <<getUuid, held>>
    BY <1>2 DEF G!Finish
  <2>2. CASE err1 # "NONE"
    <3>1. G!Answer(g, err1, NoRecord, G!CallMetrics(err1))
      BY <1>t, <1>2, <2>2 DEF G!Finish
    <3>2. G!StatusCode(err1) = 404 => NoRecord \in held[g]
      BY <1>2, <2>2 DEF G!Decompress, G!GetError
    <3>3. Ends(g, err1, NoRecord)
      BY <2>2, <3>1, <3>2 DEF Ends, G!Answer, G!Goto
    <3> QED
      BY <2>1, <3>3
  <2>3. CASE err1 = "NONE" /\ G!Unprefixed(record)
    <3>1. G!Answer(g, "UNKNOWN_STORED_DATA_TYPE", NoRecord, G!CallMetrics(err1))
      BY <1>t, <1>2, <2>3 DEF G!Finish
    <3>2. Ends(g, "UNKNOWN_STORED_DATA_TYPE", NoRecord)
      BY <3>1 DEF Ends, G!Answer, G!Goto
    <3> QED
      BY <2>1, <3>2
  <2>4. CASE err1 = "NONE" /\ ~G!Unprefixed(record)
    <3>1. G!Answer(g, "NONE", record, G!CallMetrics(err1))
      BY <1>t, <1>2, <2>4 DEF G!Finish
    <3>2. record \in held[g] \ {NoRecord}
      BY <1>2, <2>4 DEF G!Decompress, G!GetError
    <3>3. Ends(g, "NONE", record)
      BY <1>2, <3>1, <3>2 DEF Ends, G!Answer, G!Goto
    <3> QED
      BY <2>1, <3>3
  <2> QED
    BY <2>2, <2>3, <2>4
<1>3. CASE G!TakeReply(g)
  <2>1. /\ getPc[g] = "call" /\ getReply[g] # NoReply
        /\ G!Finish(g, G!GetReplied(Backend, getReply[g] # NoRecord), getReply[g])
    BY <1>t, <1>3 DEF G!TakeReply
  <2>2. getReply[g] \in held[g]
    BY <2>1 DEF ServiceInv, Replies
  <2>3. G!AdapterGet(Backend, G!GetReplied(Backend, getReply[g] # NoRecord))
          = IF getReply[g] # NoRecord THEN "NONE" ELSE "KEY_NOT_FOUND"
    BY <1>t, GetReply
  <2> QED
    BY <1>2, <2>1, <2>2, <2>3
<1>4. CASE G!GiveUp(g)
  <2>1. PICK a \in G!GetFailures(Backend) : getPc[g] = "call" /\ G!Finish(g, a, NoRecord)
    BY <1>t, <1>4 DEF G!GiveUp
  <2> QED
    BY <1>t, <1>2, <2>1, GetFailure
<1> QED
  BY <1>1, <1>3, <1>4 DEF GetHandler, G!Handler

\* A call keeps its key and the element it was made for.
LEMMA SentStays ==
    ASSUME ServiceInv, [Next]_vars, NEW e \in Element, call[e] # NoCall
    PROVE  call'[e] = call[e] /\ body'[e[1]] = body[e[1]]
<1>0. Inv /\ e[1] \in Request /\ pc[e[1]] # "idle"
  BY ServiceAsksFor DEF ServiceInv, AskedFor, Element
<1>1. epc[e] # "start"
  BY <1>0 DEF Inv, Goroutines
<1> QED
  BY <1>0, <1>1, CallOnce, BodyStays

\* What is stored was sent.
SeenSent == \A k \in Key : Seen(k) # NoRecord => \E e \in Element : SentAs(Seen(k), k, e)

LEMMA StoredWasSent == ServiceInv => SeenSent
<1> SUFFICES ASSUME ServiceInv, NEW k \in Key, Seen(k) # NoRecord
             PROVE  \E e \in Element : SentAs(Seen(k), k, e)
  BY DEF SeenSent
<1> DEFINE e == store[k].by
<1>1. store[k] # NoRecord
  BY DEF Seen
<1>0. Stored
  BY DEF ServiceInv, Inv
<1>2. /\ e \in Element /\ call[e] # NoCall /\ call[e].key = k
      /\ store[k].payload = call[e].payload
  <2>1. e \in Element /\ call[e] # NoCall /\ call[e].key = k /\ store[k] = Written(e)
    BY <1>0, <1>1, Zenon DEF Stored
  <2> QED
    BY <2>1 DEF Written
<1> HIDE DEF e
<1>3. call[e].payload = ToCache(body[e[1]].puts[e[2]])
  <2>1. call[e].payload = ToCache(Put(e))
    BY <1>2 DEF ServiceInv, Inv, Calls
  <2>2. batch[e[1]] = body[e[1]].puts
    BY <1>2, ServiceAsksFor, Zenon DEF AskedFor
  <2> QED
    BY ONLY <2>1, <2>2, Zenon DEF Put
<1>4. Seen(k).type = store[k].payload.type /\ Seen(k).content = store[k].payload.value
  BY <1>1 DEF Seen
<1>5. SentAs(Seen(k), k, e)
  BY <1>2, <1>3, <1>4 DEF SentAs, Shows
<1> QED
  BY <1>2, <1>5

LEMMA SeenSentNow == ServiceInv /\ ServiceInv' => SeenSent /\ SeenSent'
BY StoredWasSent, PTL

\* A step that leaves the calls and the GETs' keys and answers alone.
LEMMA OriginsStay ==
    ASSUME Origins, UNCHANGED <<getUuid, answer>>,
           \A e \in Element : call[e] # NoCall => call'[e] = call[e] /\ body'[e[1]] = body[e[1]],
           \A g \in GetRequest : getPc'[g] = "done" => getPc[g] = "done",
           \A g \in GetRequest : getPc'[g] = "call" =>
              \A x \in held'[g] \ {NoRecord} : \/ getPc[g] = "call" /\ x \in held[g]
                                               \/ \E e \in Element : SentAs(x, getUuid[g], e)'
    PROVE  Origins'
<1>1. ASSUME NEW g \in GetRequest, NEW x, \E e \in Element : SentAs(x, getUuid[g], e)
      PROVE  \E e \in Element : SentAs(x, getUuid[g], e)'
  <2>1. PICK e \in Element : SentAs(x, getUuid[g], e)
    BY <1>1, Zenon
  <2>2. call'[e] = call[e] /\ body'[e[1]] = body[e[1]] /\ getUuid' = getUuid
    BY <2>1 DEF SentAs
  <2>3. SentAs(x, getUuid[g], e)'
    BY ONLY <2>1, <2>2, Zenon DEF SentAs, Shows, ToCache
  <2> QED
    BY <2>3, Zenon
<1>2. ASSUME NEW g \in GetRequest, getPc'[g] = "call", NEW x \in held'[g] \ {NoRecord}
      PROVE  \E e \in Element : SentAs(x, getUuid[g], e)'
  <2>1. CASE getPc[g] = "call" /\ x \in held[g]
    <3>1. \E e \in Element : SentAs(x, getUuid[g], e)
      BY ONLY Origins, <1>2, <2>1, Zenon DEF Origins
    <3> QED
      BY ONLY <1>1, <3>1, g \in GetRequest, Zenon
  <2> QED
    BY <1>2, <2>1
<1>3. ASSUME NEW g \in GetRequest, getPc'[g] = "done", answer'[g].err = "NONE"
      PROVE  \E e \in Element : SentAs(answer[g].shows, getUuid[g], e)'
  <2>1. PICK x : x = answer[g].shows /\ x = answer'[g].shows
    OBVIOUS
  <2>2. \E e \in Element : SentAs(x, getUuid[g], e)
    BY <1>3, <2>1 DEF Origins
  <2>3. PICK e \in Element : SentAs(x, getUuid[g], e)'
    BY ONLY <1>1, <2>2, g \in GetRequest, Zenon
  <2>4. SentAs(answer[g].shows, getUuid[g], e)'
    BY ONLY <2>1, <2>3 DEF SentAs, Shows
  <2> QED
    BY <2>4, Zenon
<1> QED
  BY <1>2, <1>3 DEF Origins

\* Nothing of POST changes in a step of a GET.
LEMMA SentFrame ==
    ASSUME Unposted
    PROVE  /\ UNCHANGED <<call, body>>
           /\ \A e, x, k : SentAs(x, k, e)' <=> SentAs(x, k, e)
<1>1. UNCHANGED <<call, body>>
  BY DEF Unposted, vars, clientVars, handlerVars
<1>2. ASSUME NEW e, NEW x, NEW k PROVE SentAs(x, k, e)' <=> SentAs(x, k, e)
  BY ONLY <1>1 DEF SentAs, Shows, ToCache
<1> QED
  BY <1>1, <1>2, Zenon

LEMMA PostOrigins ==
    ASSUME FullServiceInv, [Next]_vars, Meanwhile PROVE Origins'
<1>1. UNCHANGED <<getPc, getUuid, answer>>
  BY DEF Meanwhile, getVars
<1>2. SeenSent'
  BY PostInv, SeenSentNow DEF FullServiceInv
<1>3. ASSUME NEW g \in GetRequest, getPc[g] = "call", NEW x \in held'[g] \ {NoRecord}
      PROVE  x \in held[g] \/ \E e \in Element : SentAs(x, getUuid[g], e)'
  <2>1. x \in held[g] \/ x = Seen(getUuid[g])'
    BY <1>3 DEF Meanwhile
  <2>2. getUuid[g] \in Key /\ getUuid'[g] = getUuid[g]
    BY <1>1, <1>3 DEF FullServiceInv, ServiceInv, Replies
  <2>3. ASSUME x = Seen(getUuid[g])' PROVE \E e \in Element : SentAs(x, getUuid[g], e)'
    <3>1. \A k \in Key : Seen(k)' # NoRecord => \E e \in Element : SentAs(Seen(k), k, e)'
      BY <1>2 DEF SeenSent
    <3>2. Seen(getUuid[g])' # NoRecord
      BY <1>3, <2>3
    <3>3. PICK k \in Key : k = getUuid[g]
      BY <2>2
    <3>4. Seen(k)' = x
      BY <1>1, <2>3, <3>3 DEF Seen
    <3>5. PICK e \in Element : SentAs(Seen(k), k, e)'
      BY <3>1, <3>2, <3>4, <2>3
    <3>6. SentAs(x, k, e)'
      BY <3>4, <3>5 DEF SentAs, Shows
    <3> QED
      BY <1>1, <3>3, <3>6 DEF SentAs
  <2> QED
    BY <2>1, <2>3
<1> QED
  BY <1>1, <1>3, OriginsStay, SentStays DEF FullServiceInv

LEMMA GetOrigins ==
    ASSUME FullServiceInv, NEW g \in GetRequest, GetReceive(g) \/ GetHandler(g) \/ GetReads(g)
    PROVE  Origins'
<1>0. Unposted /\ G!TypeOK /\ Origins /\ ServiceInv
  BY DEF GetReceive, GetHandler, GetReads, FullServiceInv, ServiceInv, ServiceTypeOK
<1>1. CASE GetReceive(g)
  <2>1. /\ getPc' = [getPc EXCEPT ![g] = "parse"]
        /\ \E k \in Key \cup {NoKey} : getUuid' = [getUuid EXCEPT ![g] = k]
        /\ UNCHANGED <<answer, held>>
    BY <1>1 DEF GetReceive, G!Receive, G!Goto
  <2>2. /\ getPc'[g] = "parse"
        /\ \A q \in GetRequest : q # g => getPc'[q] = getPc[q] /\ getUuid'[q] = getUuid[q]
    BY <1>0, <2>1 DEF G!TypeOK
  <2> QED
    BY <1>0, <2>1, <2>2, SentFrame DEF Origins
<1>2. CASE GetReads(g)
  <2>1. UNCHANGED <<getPc, getUuid, answer, held>>
    BY <1>2 DEF GetReads, G!ServerReads, G!handlerVars
  <2> QED
    BY <1>0, <2>1, SentFrame DEF Origins
<1>3. CASE GetHandler(g) /\ G!Call(g)
  <2>1. /\ getPc[g] = "parse" /\ G!ParseError(getUuid[g]) = "NONE"
        /\ getPc' = [getPc EXCEPT ![g] = "call"]
        /\ held' = [held EXCEPT ![g] = {[k \in Key |-> Seen(k)][getUuid[g]]}]
        /\ UNCHANGED <<getUuid, answer>>
    BY <1>3 DEF G!Call, G!Goto
  <2>2. getUuid[g] \in Key
    BY <1>0, <2>1 DEF G!ParseError, G!TypeOK
  <2>3. /\ held'[g] = {Seen(getUuid[g])} /\ getPc'[g] = "call"
        /\ \A q \in GetRequest : q # g => getPc'[q] = getPc[q] /\ held'[q] = held[q]
    BY <1>0, <2>1, <2>2 DEF G!TypeOK
  <2>4. \A x \in held'[g] \ {NoRecord} : \E e \in Element : SentAs(x, getUuid[g], e)
    BY <1>0, <2>2, <2>3, StoredWasSent DEF SeenSent
  <2>5. \A q \in GetRequest : getPc'[q] = "call" =>
           \A x \in held'[q] \ {NoRecord} : \E e \in Element : SentAs(x, getUuid[q], e)
    BY <1>0, <2>3, <2>4 DEF Origins
  <2>6. \A q \in GetRequest : getPc'[q] = "done" => getPc[q] = "done"
    BY <2>3
  <2> QED
    BY <1>0, <2>1, <2>5, <2>6, SentFrame DEF Origins
<1>4. CASE GetHandler(g) /\ ~G!Call(g)
  <2>1. UNCHANGED <<getUuid, held>>
    BY <1>0, <1>4, GetAnswers
  <2>2. PICK err1, shows : Ends(g, err1, shows)
    BY <1>0, <1>4, GetAnswers
  <2>3. /\ answer'[g] = [err |-> err1, shows |-> shows] /\ getPc'[g] = "done"
        /\ \A q \in GetRequest : q # g => getPc'[q] = getPc[q] /\ answer'[q] = answer[q]
    BY <1>0, <2>2 DEF Ends, G!TypeOK
  <2>4. err1 = "NONE" => \E e \in Element : SentAs(shows, getUuid[g], e)
    BY <1>0, <2>2 DEF Ends, Origins
  <2> QED
    BY <1>0, <2>1, <2>3, <2>4, SentFrame DEF Origins
<1> QED
  BY <1>1, <1>2, <1>3, <1>4

\* A step after which the same GETs have the same answers.
LEMMA NotFoundStays ==
    ASSUME G!NotFoundMeansAbsent, config' = config, UNCHANGED <<getUuid, answer>>,
           \A g \in GetRequest : getPc'[g] = "done" => getPc[g] = "done" /\ held'[g] = held[g]
    PROVE  G!NotFoundMeansAbsent'
BY DEF G!NotFoundMeansAbsent, G!AllowCustomKeys, GetConfig

LEMMA GetNotFound ==
    ASSUME FullServiceInv, NEW g \in GetRequest, GetReceive(g) \/ GetHandler(g) \/ GetReads(g)
    PROVE  G!NotFoundMeansAbsent'
<1>0. Unposted /\ G!TypeOK /\ G!NotFoundMeansAbsent /\ ServiceInv
  BY DEF GetReceive, GetHandler, GetReads, FullServiceInv, ServiceInv, ServiceTypeOK
<1>c. config' = config
  BY <1>0 DEF Unposted, vars, serverVars
<1>k. G!AllowCustomKeys' = G!AllowCustomKeys
  BY <1>c DEF G!AllowCustomKeys, GetConfig
<1>1. CASE GetReceive(g)
  <2>1. /\ getPc' = [getPc EXCEPT ![g] = "parse"]
        /\ \E k \in Key \cup {NoKey} : getUuid' = [getUuid EXCEPT ![g] = k]
        /\ UNCHANGED <<answer, held>>
    BY <1>1 DEF GetReceive, G!Receive, G!Goto
  <2>2. /\ getPc'[g] = "parse"
        /\ \A q \in GetRequest : q # g => getPc'[q] = getPc[q] /\ getUuid'[q] = getUuid[q]
    BY <1>0, <2>1 DEF G!TypeOK
  <2> QED
    BY <1>0, <1>k, <2>1, <2>2 DEF G!NotFoundMeansAbsent
<1>2. CASE GetReads(g)
  <2>1. UNCHANGED <<getPc, getUuid, answer, held>>
    BY <1>2 DEF GetReads, G!ServerReads, G!handlerVars
  <2> QED
    BY <1>0, <1>c, <2>1, NotFoundStays
<1>3. CASE GetHandler(g) /\ G!Call(g)
  <2>1. /\ getPc' = [getPc EXCEPT ![g] = "call"]
        /\ \E S : held' = [held EXCEPT ![g] = S]
        /\ UNCHANGED <<getUuid, answer>>
    BY <1>3 DEF G!Call, G!Goto
  <2>2. \A q \in GetRequest : getPc'[q] = "done" => getPc[q] = "done" /\ held'[q] = held[q]
    BY <1>0, <2>1 DEF G!TypeOK
  <2> QED
    BY <1>0, <1>c, <2>1, <2>2, NotFoundStays
<1>4. CASE GetHandler(g) /\ ~G!Call(g)
  <2>1. UNCHANGED <<getUuid, held>>
    BY <1>0, <1>4, GetAnswers
  <2>2. PICK err1, shows : Ends(g, err1, shows)
    BY <1>0, <1>4, GetAnswers
  <2>3. /\ answer'[g] = [err |-> err1, shows |-> shows]
        /\ \A q \in GetRequest : q # g => getPc'[q] = getPc[q] /\ answer'[q] = answer[q]
    BY <1>0, <2>2 DEF Ends, G!TypeOK
  <2>4. G!StatusCode(err1) = 404 =>
           NoRecord \in held[g] \/ (getUuid[g] \notin UUID /\ ~G!AllowCustomKeys)
    BY <2>2 DEF Ends
  <2> QED
    BY <1>0, <1>k, <2>1, <2>3, <2>4 DEF G!NotFoundMeansAbsent
<1> QED
  BY <1>1, <1>2, <1>3, <1>4

\* A restart forgets the GETs it cuts off, and nothing of the others.
LEMMA RestartReads ==
    ASSUME FullServiceInv, Restart PROVE Origins' /\ G!NotFoundMeansAbsent'
<1>1. /\ \A g \in GetRequest : getPc'[g] = IF getPc[g] = "done" THEN "done" ELSE "idle"
      /\ UNCHANGED <<config, call, body, getUuid, answer, held>>
  BY DEF Restart
<1> QED
  BY <1>1, OriginsStay, NotFoundStays DEF FullServiceInv

LEMMA FullServiceStep == FullServiceInv /\ [ServiceNext]_serviceVars => FullServiceInv'
<1> SUFFICES ASSUME FullServiceInv, [ServiceNext]_serviceVars PROVE FullServiceInv'
  OBVIOUS
<1>0. ServiceInv /\ ServiceInv' /\ Origins /\ G!NotFoundMeansAbsent
  BY ServiceStep DEF FullServiceInv
<1>1. CASE [Next]_vars /\ Meanwhile
  <2>1. UNCHANGED <<getPc, getUuid, answer>>
    BY <1>1 DEF Meanwhile, getVars
  <2>2. \A g \in GetRequest : getPc[g] = "done" => held'[g] = held[g]
    BY <1>0, <1>1 DEF Meanwhile, ServiceInv, ServiceTypeOK, G!TypeOK
  <2>3. G!NotFoundMeansAbsent'
    BY <1>0, <1>1, <2>1, <2>2, ConfigFixed, NotFoundStays
  <2> QED
    BY <1>0, <1>1, <2>3, PostOrigins DEF FullServiceInv
<1>2. CASE UNCHANGED serviceVars
  <2>1. UNCHANGED <<config, call, body, getPc, getUuid, answer, held>>
    BY <1>2 DEF serviceVars, vars, serverVars, clientVars, handlerVars, getVars
  <2> QED
    BY <1>0, <2>1, OriginsStay, NotFoundStays DEF FullServiceInv
<1> QED
  BY <1>0, <1>1, <1>2, GetOrigins, GetNotFound, RestartReads, ServiceCases DEF FullServiceInv

\* The inductive invariant, with what the GETs have shown.
THEOREM FullServiceInvariant == ServiceSpec => []FullServiceInv
<1>1. ServiceInit => FullServiceInv
  BY ServiceInitInv DEF ServiceInit, FullServiceInv, Origins, G!NotFoundMeansAbsent
<1> QED
  BY <1>1, FullServiceStep, PTL DEF ServiceSpec

\* A GET shows the text of one element that was sent under its uuid, in its
\* format, across restarts (put.go:133-148, get.go:117-134).
THEOREM GetsShowWhatWasSent == ServiceSpec => []ShownWasSent
<1>1. FullServiceInv => ShownWasSent
  <2> SUFFICES ASSUME FullServiceInv, NEW g \in GetRequest, getPc[g] = "done", answer[g].err = "NONE"
               PROVE  ShownWasSent!(g)!2
    BY DEF ShownWasSent
  <2>1. PICK e \in Element : SentAs(answer[g].shows, getUuid[g], e)
    BY DEF FullServiceInv, Origins
  <2>2. ServiceInv /\ Inv /\ call[e] # NoCall /\ call[e].key = getUuid[g]
    BY <2>1 DEF SentAs, FullServiceInv, ServiceInv
  <2>3. PICK r \in Request, i \in Slot : e = <<r, i>>
    BY DEF Element
  <2> DEFINE p == body[r].puts[i]
  <2>4. /\ batch[r] = body[r].puts /\ i \in 1..Len(body[r].puts) /\ Put(e) = p
    BY <2>2, <2>3, ServiceAsksFor DEF AskedFor, Put, Slot
  <2>5. Accepted(body[r])
    BY <2>2, <2>3, <2>4 DEF ServiceInv, LostCalls, Inv, Contents, Started, HoldingResp, Holding
  <2>6. p.type \in {"xml", "json"} /\ getUuid[g] \in KeyChoice(p)
    <3>1. call[e].payload = ToCache(p) /\ call[e].payload \in Payload
      BY <2>2, <2>4 DEF Inv, Calls, Call
    <3>2. call[e].key \in KeyChoice(p)
      BY <2>2, <2>4 DEF ServiceInv, Keys
    <3> QED
      BY <2>2, <3>1, <3>2 DEF Payload, ToCache
  <2>7. answer[g].shows.type = p.type /\ answer[g].shows.content = p.value
    BY <2>1, <2>3 DEF SentAs, Shows, ToCache
  <2> QED
    BY <2>4, <2>5, <2>6, <2>7
<1> QED
  BY <1>1, FullServiceInvariant, PTL

\* A 404 means that the key was free at some moment of the GET, or is none the
\* process hands out, whatever was restarted since (get.go:64-82).
THEOREM MissingMeansAbsentAcrossRestarts == ServiceSpec => []G!NotFoundMeansAbsent
<1>1. FullServiceInv => G!NotFoundMeansAbsent
  BY DEF FullServiceInv
<1> QED
  BY <1>1, FullServiceInvariant, PTL
-----------------------------------------------------------------------------
(* The service implements what GetEndpoint supposes of it.                 *)

\* A step of the POSTs that changes the store writes a free key, or removes.
LEMMA StoreCases ==
    ASSUME [Next]_vars
    PROVE  \/ UNCHANGED store
           \/ \E e \in Element : ServerStores(e)
           \/ \E k \in Key : Expire(k)
<1>1. ASSUME NEW r \in Request, StartElements(r) PROVE UNCHANGED store
  BY <1>1 DEF StartElements, serverVars
<1>2. ASSUME NEW e \in Element, Goroutine(e) \/ Client(e) PROVE UNCHANGED store
  BY <1>2 DEF Goroutine, RejectElement, NoRandomness, RefuseSize, Send, Client, TakeReply,
              GiveUp, Finish, Resend, serverVars
<1>3. ASSUME NEW e \in Element, Server(e), ~ServerStores(e) PROVE UNCHANGED store
  BY <1>3 DEF Server, ServerRefuses, LoseAttempt, serverVars
<1>4. CASE UNCHANGED serverVars
  BY <1>4 DEF serverVars
<1> QED
  BY <1>1, <1>2, <1>3, <1>4, ElementCases

\* A record keeps its compression as long as it is stored.
LEMMA SeenStays ==
    ASSUME ServiceInv, Meanwhile, NEW k \in Key, store'[k] = store[k]
    PROVE  Seen(k)' = Seen(k)
<1>1. ASSUME store[k] # NoRecord PROVE encoding'[store[k].by] = encoding[store[k].by]
  BY <1>1, EncodingStays DEF ServiceInv, Inv, Stored
<1> QED
  BY <1>1 DEF Seen

\* A step that changes at most one key is a change of that key, to the GETs.
LEMMA OneKeyChanges ==
    ASSUME ServiceInv, [Next]_vars, Meanwhile, NEW k \in Key,
           \A x \in Key : x # k => store'[x] = store[x]
    PROVE  G!Change(k, Seen(k)')
<1>1. /\ config' = config
      /\ UNCHANGED <<compression, getPc, getUuid, getReply, answer, getCount>>
  BY ConfigFixed DEF Meanwhile, getVars
<1>2. \A x \in Key : x # k => Seen(x)' = Seen(x)
  BY SeenStays
<1>3. ([x \in Key |-> Seen(x)])' = [[x \in Key |-> Seen(x)] EXCEPT ![k] = Seen(k)']
  BY <1>2
<1>4. held' = [g \in GetRequest |-> IF getPc[g] = "call" /\ getUuid[g] = k
                                    THEN held[g] \cup {Seen(k)'} ELSE held[g]]
  <2>1. ASSUME NEW g \in GetRequest, getPc[g] = "call", getUuid[g] # k
        PROVE  held[g] \cup {Seen(getUuid[g])'} = held[g]
    <3>1. getUuid[g] \in Key /\ Seen(getUuid[g]) \in held[g]
      BY <2>1 DEF ServiceInv, Replies
    <3>2. Seen(getUuid[g])' = Seen(getUuid[g])
      BY <1>1, <1>2, <2>1, <3>1 DEF Seen
    <3> QED
      BY <3>1, <3>2
  <2>2. ASSUME NEW g \in GetRequest, getUuid[g] = k PROVE Seen(getUuid[g])' = Seen(k)'
    BY <1>1, <2>2 DEF Seen
  <2> QED
    BY <2>1, <2>2 DEF Meanwhile
<1>5. UNCHANGED <<GetConfig(config, compression), getPc, getUuid, answer>>
  BY <1>1 DEF GetConfig
<1> QED
  BY <1>1, <1>3, <1>4, <1>5 DEF G!Change, G!handlerVars

LEMMA PostIsWrite ==
    ASSUME ServiceInv, [Next]_vars, Meanwhile, NEW e \in Element, ServerStores(e)
    PROVE  \E k \in Key : G!Write(k)
<1> DEFINE k == call[e].key
<1>0. Types /\ Types' /\ Goroutines /\ Calls
  BY InvStep DEF ServiceInv, Inv
<1>1. /\ store[k] = NoRecord
      /\ store' = [store EXCEPT ![k] = Written(e)]
      /\ wire[e] # {} /\ call' = call
  BY DEF ServerStores
<1>2. k \in Key
  BY <1>0, <1>1 DEF Goroutines, Calls, Call
<1>3. store'[k] # NoRecord
  <2>1. Written(e) # NoRecord
    BY <1>0, <1>1, NoRecordAssumption DEF Goroutines, Calls, Call, Written, Record
  <2> QED
    BY <1>0, <1>1, <1>2, <2>1 DEF Types
<1>4. Seen(k)' \in G!Record
  <2>1. SeenTyped'
    <3>1. EncodingTyped'
      BY PostTypes DEF ServiceTypeOK, EncodingTyped
    <3> QED
      BY <1>0, <3>1, SeenType, PTL
  <2> QED
    BY <1>1, <1>2, <1>3, <2>1 DEF SeenTyped
<1>5. G!Change(k, Seen(k)')
  BY <1>0, <1>1, <1>2, OneKeyChanges DEF Types
<1>6. [x \in Key |-> Seen(x)][k] = NoRecord
  BY <1>1, <1>2 DEF Seen
<1> QED
  BY <1>2, <1>4, <1>5, <1>6 DEF G!Write

LEMMA ExpireIsExpire ==
    ASSUME ServiceInv, [Next]_vars, Meanwhile, NEW k \in Key, Expire(k)
    PROVE  G!Expire(k)
<1>0. Types
  BY DEF ServiceInv, Inv
<1>1. /\ RecordsExpire(Backend) /\ store[k] # NoRecord
      /\ store' = [store EXCEPT ![k] = NoRecord]
  BY DEF Expire
<1>2. Seen(k) # NoRecord
  BY <1>0, <1>1, SeenType DEF SeenTyped, ServiceInv, ServiceTypeOK, EncodingTyped
<1>3. Seen(k)' = NoRecord
  BY <1>0, <1>1 DEF Types, Seen
<1>4. G!Change(k, NoRecord)
  BY <1>0, <1>1, <1>3, OneKeyChanges DEF Types
<1>5. G!RecordsExpire(G!Backend)
  BY <1>1 DEF G!RecordsExpire, RecordsExpire, G!Backend, GetConfig, Backend
<1> QED
  BY <1>2, <1>4, <1>5 DEF G!Expire

\* The other steps of a POST are none, to the GETs.
LEMMA OthersStutter ==
    ASSUME ServiceInv, [Next]_vars, Meanwhile, UNCHANGED store
    PROVE  UNCHANGED G!vars
<1>1. /\ config' = config
      /\ UNCHANGED <<compression, getPc, getUuid, getReply, answer, getCount>>
  BY ConfigFixed DEF Meanwhile, getVars
<1>2. \A k \in Key : Seen(k)' = Seen(k)
  BY SeenStays
<1>3. held' = held
  <2>1. ASSUME NEW g \in GetRequest, getPc[g] = "call"
        PROVE  held[g] \cup {Seen(getUuid[g])'} = held[g]
    <3>1. getUuid[g] \in Key /\ Seen(getUuid[g]) \in held[g]
      BY <2>1 DEF ServiceInv, Replies
    <3>2. Seen(getUuid[g])' = Seen(getUuid[g])
      BY <1>1, <1>2, <3>1 DEF Seen
    <3> QED
      BY <3>1, <3>2
  <2>2. held \in [GetRequest -> SUBSET (G!Record \cup {NoRecord})]
    BY DEF ServiceInv, ServiceTypeOK, G!TypeOK
  <2> QED
    BY <2>1, <2>2 DEF Meanwhile
<1>4. UNCHANGED [k \in Key |-> Seen(k)] /\ UNCHANGED GetConfig(config, compression)
  BY <1>1, <1>2 DEF GetConfig
<1> QED
  BY <1>1, <1>3, <1>4 DEF G!vars, G!handlerVars

LEMMA ServiceStepIsGetStep ==
    ASSUME ServiceInv, [ServiceNext]_serviceVars, restarts' = restarts
    PROVE  G!Next \/ UNCHANGED G!vars
<1>1. CASE [Next]_vars /\ Meanwhile
  BY <1>1, StoreCases, PostIsWrite, ExpireIsExpire, OthersStutter DEF G!Next
<1>2. ASSUME NEW g \in GetRequest, GetReceive(g) \/ GetHandler(g) \/ GetReads(g) PROVE G!Next
  BY <1>2 DEF GetReceive, GetHandler, GetReads, G!Next
<1>3. ~Restart
  BY DEF Restart, ServiceInv, ServiceTypeOK
<1>4. CASE UNCHANGED serviceVars
  <2>1. UNCHANGED <<store, config, encoding, compression, getVars, held>>
    BY <1>4 DEF serviceVars, vars, serverVars
  <2>2. \A k \in Key : Seen(k)' = Seen(k)
    BY <2>1 DEF Seen
  <2>3. UNCHANGED [k \in Key |-> Seen(k)] /\ UNCHANGED GetConfig(config, compression)
    BY <2>1, <2>2 DEF GetConfig
  <2> QED
    BY <2>1, <2>3 DEF G!vars, G!handlerVars, getVars
<1> QED
  BY <1>1, <1>2, <1>3, <1>4, ServiceCases

\* As long as no process is killed, the service implements GetEndpoint: what
\* that module supposes other requests do to a key is what the POSTs do.
THEOREM ImplementsGets == ServiceSpec => GetsImplemented
BY ServiceInvariant, ServiceStepIsGetStep, PTL DEF ServiceSpec, GetsImplemented
=============================================================================
