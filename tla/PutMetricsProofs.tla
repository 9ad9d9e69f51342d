-------------------------- MODULE PutMetricsProofs --------------------------
(***************************************************************************)
(* For every set of requests, bodies and configurations: the metrics of    *)
(* POST /cache add up, in every state and not only when all is quiet.      *)
(***************************************************************************)
EXTENDS PutEndpointProofs, FiniteSetTheorems

USE DEF VarTypes, Statements

\* The requests that have come, those answered with a status of a class, and
\* the elements whose decorated Put is under way.
Come == {r \in Request : pc[r] \in {"read", "decode", "start", "wait", "encode",
                                    "release", "reply", "done"}}
AnsweredWith(lo, hi) == {r \in Request : pc[r] = "done" /\ StatusCode(result[r].err) \in lo..hi}
InPut == {e \in Element : epc[e] = "call"}

\* MetricsBalance, in their terms.
RequestsBalance ==
    /\ count["total"] = Cardinality(Come)
    /\ count["duration"] = Cardinality(AnsweredWith(200, 200))
    /\ count["badRequest"] = Cardinality(AnsweredWith(400, 499))
    /\ count["error"] = Cardinality(AnsweredWith(500, 599))
PutsBalance ==
    count["backendXml"] + count["backendJson"] =
       count["backendError"] + count["backendDuration"] + Cardinality(InPut)

LEMMA InTheirTerms == MetricsBalance <=> RequestsBalance /\ PutsBalance
BY DEF MetricsBalance, RequestsBalance, PutsBalance, Come, AnsweredWith, InPut, InStates, Answered

LEMMA FiniteSets ==
    /\ IsFiniteSet(Come) /\ Cardinality(Come) \in Nat
    /\ \A lo, hi : /\ IsFiniteSet(AnsweredWith(lo, hi))
                   /\ Cardinality(AnsweredWith(lo, hi)) \in Nat
    /\ IsFiniteSet(InPut) /\ Cardinality(InPut) \in Nat
<1>1. IsFiniteSet(Come) /\ \A lo, hi : IsFiniteSet(AnsweredWith(lo, hi))
  BY PoolAssumption, FS_Subset DEF Come, AnsweredWith
<1>2. IsFiniteSet(Element)
  <2>1. IsFiniteSet(1..MaxNumValues)
    <3>1. 1 \in Int /\ MaxNumValues \in Int
      BY PutAssumption
    <3> QED
      BY ONLY <3>1, FS_Interval
  <2> QED
    BY <2>1, PoolAssumption, FS_Product DEF Element, Slot
<1>3. IsFiniteSet(InPut)
  BY <1>2, FS_Subset DEF InPut
<1> QED
  BY <1>1, <1>3, FS_CardinalityType

LEMMA Counted ==
    ASSUME NEW S, Types, Count(S), NEW m \in Metrics
    PROVE  /\ count'[m] = IF m \in S THEN count[m] + 1 ELSE count[m]
           /\ count[m] \in Nat
BY DEF Count, Types
-----------------------------------------------------------------------------
(* The handlers. *)

\* Between its first and its last statement a handler counts nothing.
LEMMA InnerMoves ==
    ASSUME NEW r \in Request, Handler(r), ~Reply(r)
    PROVE  /\ pc[r] \in Statements \ {"idle", "done"}
           /\ \E label \in Statements \ {"idle", "done"} : Goto(r, label)
           /\ UNCHANGED count
<1>1. CASE ReadFails(r) \/ TakeRequestObject(r)
  BY <1>1 DEF ReadFails, TakeRequestObject
<1>2. CASE Decode(r) \/ RejectBody(r) \/ StartElements(r)
  BY <1>2 DEF Decode, RejectBody, StartElements
<1>3. CASE Collect(r)
  <2>1. UNCHANGED count
    BY <1>3 DEF Collect
  <2> QED
    BY <1>3, <2>1, CollectMoves
<1>4. CASE Encode(r) \/ Release(r)
  BY <1>4 DEF Encode, Release
<1> QED
  BY <1>1, <1>2, <1>3, <1>4 DEF Handler

\* No goroutine of a request starts or ends a Put with a step of a handler.
LEMMA HandlersPutNothing ==
    ASSUME Inv, NEW r \in Request, Receive(r) \/ Handler(r)
    PROVE  InPut' = InPut
<1>1. CASE StartElements(r)
  BY <1>1, StartFresh DEF InPut
<1>2. CASE ~StartElements(r)
  <2>1. UNCHANGED elementVars
    BY <1>2 DEF Receive, Handler, ReadFails, TakeRequestObject, Decode, RejectBody, Collect,
                Encode, Release, Reply
  <2> QED
    BY <2>1 DEF elementVars, InPut
<1> QED
  BY <1>1, <1>2

\* A step of r that is not its answer leaves the answers alone.
LEMMA AnsweredStays ==
    ASSUME Types, NEW r \in Request, Receive(r) \/ Handler(r), pc'[r] # "done",
           NEW lo, NEW hi
    PROVE  AnsweredWith(lo, hi)' = AnsweredWith(lo, hi)
<1>1. pc[r] # "done"
  BY HandlerMoves
<1>2. \A q \in Request : q # r => pc'[q] = pc[q] /\ result'[q] = result[q]
  BY HandlerOther
<1> QED
  BY <1>1, <1>2 DEF AnsweredWith

LEMMA ReceiveBalance ==
    ASSUME Inv, MetricsBalance, NEW r \in Request, Receive(r) PROVE MetricsBalance'
<1>0. Types /\ pc \in [Request -> Statements \cup {"lost"}]
  BY DEF Inv, Types
<1>1. pc[r] = "idle" /\ pc' = [pc EXCEPT ![r] = "read"] /\ Count({"total"})
  BY DEF Receive, Goto
<1>2. Come' = Come \cup {r} /\ r \notin Come
  BY <1>0, <1>1 DEF Come
<1>3. Cardinality(Come') = Cardinality(Come) + 1
  BY <1>2, FiniteSets, FS_AddElement
<1>4. /\ count'["total"] = count["total"] + 1
      /\ \A m \in Metrics \ {"total"} : count'[m] = count[m]
  BY <1>0, <1>1, Counted DEF Metrics
<1>5. \A lo, hi : AnsweredWith(lo, hi)' = AnsweredWith(lo, hi)
  BY <1>0, <1>1, AnsweredStays
<1>6. RequestsBalance'
  BY <1>3, <1>4, <1>5, InTheirTerms DEF RequestsBalance, Metrics
<1>7. PutsBalance'
  BY <1>4, InTheirTerms, HandlersPutNothing DEF PutsBalance, Metrics
<1> QED
  BY <1>6, <1>7, InTheirTerms, PTL

LEMMA InnerBalance ==
    ASSUME Inv, MetricsBalance, NEW r \in Request, Handler(r), ~Reply(r) PROVE MetricsBalance'
<1>0. Types /\ pc \in [Request -> Statements \cup {"lost"}]
  BY DEF Inv, Types
<1>1. PICK label \in Statements \ {"idle", "done"} : Goto(r, label)
  BY InnerMoves
<1>2. pc[r] \in Statements \ {"idle", "done"} /\ UNCHANGED count
  BY InnerMoves
<1>3. Come' = Come
  BY <1>0, <1>1, <1>2 DEF Come, Goto
<1>4. \A lo, hi : AnsweredWith(lo, hi)' = AnsweredWith(lo, hi)
  BY <1>0, <1>1, AnsweredStays DEF Goto
<1>5. RequestsBalance' /\ PutsBalance'
  BY <1>2, <1>3, <1>4, InTheirTerms, HandlersPutNothing DEF RequestsBalance, PutsBalance
<1> QED
  BY <1>5, InTheirTerms, PTL

\* The switch of the answer's status counts exactly its class.
LEMMA ReplyBalance ==
    ASSUME Inv, MetricsBalance, NEW r \in Request, Reply(r) PROVE MetricsBalance'
<1> DEFINE x == result[r].err
<1>0. Types /\ pc \in [Request -> Statements \cup {"lost"}]
  BY DEF Inv, Types
<1>1. /\ pc[r] = "reply" /\ pc' = [pc EXCEPT ![r] = "done"] /\ UNCHANGED result
      /\ Count(AnswerMetrics(x))
  BY DEF Reply, Goto
<1>2. Come' = Come
  BY <1>0, <1>1 DEF Come
<1>3. \A lo, hi : /\ r \notin AnsweredWith(lo, hi)
                  /\ AnsweredWith(lo, hi)' = IF StatusCode(x) \in lo..hi
                                             THEN AnsweredWith(lo, hi) \cup {r}
                                             ELSE AnsweredWith(lo, hi)
  BY <1>0, <1>1 DEF AnsweredWith
<1>4. \A lo, hi : Cardinality(AnsweredWith(lo, hi)') =
                     IF StatusCode(x) \in lo..hi THEN Cardinality(AnsweredWith(lo, hi)) + 1
                                                 ELSE Cardinality(AnsweredWith(lo, hi))
  BY <1>3, FiniteSets, FS_AddElement
<1>5. StatusCode(x) \in {200, 400, 404, 500, 597}
  BY DEF StatusCode, HTTPDependencyTimeout
<1>6. /\ "duration" \in AnswerMetrics(x) <=> StatusCode(x) \in 200..200
      /\ "badRequest" \in AnswerMetrics(x) <=> StatusCode(x) \in 400..499
      /\ "error" \in AnswerMetrics(x) <=> StatusCode(x) \in 500..599
      /\ AnswerMetrics(x) \subseteq {"duration", "badRequest", "error"}
  BY <1>5 DEF AnswerMetrics, Metrics
<1>7. \A m \in Metrics : count'[m] = IF m \in AnswerMetrics(x) THEN count[m] + 1 ELSE count[m]
  BY <1>0, <1>1, Counted
<1>8. RequestsBalance'
  <2>1. count'["total"] = count["total"]
    BY <1>6, <1>7 DEF Metrics
  <2>2. count'["duration"] = Cardinality(AnsweredWith(200, 200)')
    BY <1>4, <1>6, <1>7, InTheirTerms DEF RequestsBalance, Metrics
  <2>3. count'["badRequest"] = Cardinality(AnsweredWith(400, 499)')
    BY <1>4, <1>6, <1>7, InTheirTerms DEF RequestsBalance, Metrics
  <2>4. count'["error"] = Cardinality(AnsweredWith(500, 599)')
    BY <1>4, <1>6, <1>7, InTheirTerms DEF RequestsBalance, Metrics
  <2> QED
    BY <1>2, <2>1, <2>2, <2>3, <2>4, InTheirTerms DEF RequestsBalance
<1>9. PutsBalance'
  <2>1. \A m \in {"backendXml", "backendJson", "backendError", "backendDuration"} :
           count'[m] = count[m]
    BY <1>6, <1>7 DEF Metrics
  <2>2. InPut' = InPut
    BY HandlersPutNothing DEF Handler
  <2> QED
    BY <2>1, <2>2, InTheirTerms DEF PutsBalance
<1> QED
  BY <1>8, <1>9, InTheirTerms, PTL
-----------------------------------------------------------------------------
(* The elements. *)

\* A decorated Put is counted under exactly one format.
LEMMA OneFormat ==
    ASSUME NEW p
    PROVE  \E m \in {"backendXml", "backendJson"} :
              CallMetrics(p) = {m} \/ CallMetrics(p) = {"keyProvided", m}
BY DEF CallMetrics

\* A step of an element is none of a request.
LEMMA RequestsStay ==
    ASSUME Types, RequestsBalance, NEW e \in Element, Goroutine(e) \/ Client(e) \/ Server(e),
           NEW S \in SUBSET (Metrics \ {"total", "duration", "badRequest", "error"}), Count(S)
    PROVE  RequestsBalance'
<1>1. UNCHANGED <<pc, result>>
  BY ElementFrame DEF handlerVars
<1>2. Come' = Come /\ \A lo, hi : AnsweredWith(lo, hi)' = AnsweredWith(lo, hi)
  BY <1>1 DEF Come, AnsweredWith
<1>3. \A m \in {"total", "duration", "badRequest", "error"} : count'[m] = count[m]
  BY Counted DEF Metrics
<1> QED
  BY <1>2, <1>3 DEF RequestsBalance

LEMMA RefuseSizeBalance ==
    ASSUME Inv, MetricsBalance, NEW e \in Element, RefuseSize(e) PROVE MetricsBalance'
<1>0. Types
  BY DEF Inv
<1>1. PICK m \in {"backendXml", "backendJson"} :
         CallMetrics(Put(e)) = {m} \/ CallMetrics(Put(e)) = {"keyProvided", m}
  BY OneFormat
<1>2. epc[e] = "start" /\ epc' = [epc EXCEPT ![e] = "done"]
      /\ Count(CallMetrics(Put(e)) \cup {"backendError"})
  BY DEF RefuseSize, Settle
<1>3. RequestsBalance'
  BY <1>0, <1>1, <1>2, InTheirTerms, RequestsStay DEF Goroutine, Metrics
<1>4. InPut' = InPut
  BY <1>0, <1>2 DEF InPut, Types
<1>5. /\ count'[m] = count[m] + 1 /\ count'["backendError"] = count["backendError"] + 1
      /\ count'["backendDuration"] = count["backendDuration"]
      /\ \A x \in {"backendXml", "backendJson"} \ {m} : count'[x] = count[x]
  BY <1>0, <1>1, <1>2, Counted DEF Metrics
<1>6. \A x \in Metrics : count[x] \in Nat
  BY <1>0 DEF Types
<1>7. count'["backendXml"] + count'["backendJson"] = count["backendXml"] + count["backendJson"] + 1
  BY <1>1, <1>5, <1>6 DEF Metrics
<1>8. PutsBalance'
  BY <1>4, <1>5, <1>6, <1>7, InTheirTerms, FiniteSets DEF PutsBalance, Metrics
<1> QED
  BY <1>3, <1>8, InTheirTerms, PTL

LEMMA SendBalance ==
    ASSUME Inv, MetricsBalance, NEW e \in Element, Send(e) PROVE MetricsBalance'
<1>0. Types
  BY DEF Inv
<1>1. PICK m \in {"backendXml", "backendJson"} :
         CallMetrics(Put(e)) = {m} \/ CallMetrics(Put(e)) = {"keyProvided", m}
  BY OneFormat
<1>2. epc[e] = "start" /\ epc' = [epc EXCEPT ![e] = "call"] /\ Count(CallMetrics(Put(e)))
  BY DEF Send
<1>3. RequestsBalance'
  BY <1>0, <1>1, <1>2, InTheirTerms, RequestsStay DEF Goroutine, Metrics
<1>4. Cardinality(InPut') = Cardinality(InPut) + 1
  <2>1. InPut' = InPut \cup {e} /\ e \notin InPut
    BY <1>0, <1>2 DEF InPut, Types
  <2> QED
    BY <2>1, FiniteSets, FS_AddElement
<1>5. /\ count'[m] = count[m] + 1
      /\ \A x \in {"backendError", "backendDuration"} : count'[x] = count[x]
      /\ \A x \in {"backendXml", "backendJson"} \ {m} : count'[x] = count[x]
  BY <1>0, <1>1, <1>2, Counted DEF Metrics
<1>6. \A x \in Metrics : count[x] \in Nat
  BY <1>0 DEF Types
<1>7. count'["backendXml"] + count'["backendJson"] = count["backendXml"] + count["backendJson"] + 1
  BY <1>1, <1>5, <1>6 DEF Metrics
<1>8. PutsBalance'
  BY <1>4, <1>5, <1>6, <1>7, InTheirTerms, FiniteSets DEF PutsBalance, Metrics
<1> QED
  BY <1>3, <1>8, InTheirTerms, PTL

LEMMA FinishBalance ==
    ASSUME Inv, MetricsBalance, NEW e \in Element, TakeReply(e) \/ GiveUp(e)
    PROVE  MetricsBalance'
<1>0. Types
  BY DEF Inv
<1>1. PICK m \in {"backendDuration", "backendError"} : Count({m})
  BY DEF TakeReply, GiveUp, Finish
<1>2. epc[e] = "call" /\ epc' = [epc EXCEPT ![e] = "done"]
  BY DEF TakeReply, GiveUp, Finish, Settle
<1>3. RequestsBalance'
  BY <1>0, <1>1, InTheirTerms, RequestsStay DEF Client, Metrics
<1>4. Cardinality(InPut') = Cardinality(InPut) - 1
  <2>1. InPut' = InPut \ {e} /\ e \in InPut
    BY <1>0, <1>2 DEF InPut, Types
  <2> QED
    BY <2>1, FiniteSets, FS_RemoveElement
<1>5. /\ count'[m] = count[m] + 1
      /\ \A x \in {"backendXml", "backendJson"} : count'[x] = count[x]
      /\ \A x \in {"backendDuration", "backendError"} \ {m} : count'[x] = count[x]
  BY <1>0, <1>1, Counted DEF Metrics
<1>6. \A x \in Metrics : count[x] \in Nat
  BY <1>0 DEF Types
<1>7. count'["backendError"] + count'["backendDuration"]
         = count["backendError"] + count["backendDuration"] + 1
  BY <1>1, <1>5, <1>6 DEF Metrics
<1>8. PutsBalance'
  <2>1. count'["backendXml"] + count'["backendJson"] = count["backendXml"] + count["backendJson"]
    BY <1>5
  <2>2. count["backendError"] + count["backendDuration"] \in Nat /\ Cardinality(InPut) \in Nat
    BY <1>6, FiniteSets DEF Metrics
  <2>3. count["backendXml"] + count["backendJson"]
           = count["backendError"] + count["backendDuration"] + Cardinality(InPut)
    BY InTheirTerms DEF PutsBalance
  <2> QED
    BY <1>4, <1>7, <2>1, <2>2, <2>3 DEF PutsBalance
<1> QED
  BY <1>3, <1>8, InTheirTerms, PTL

\* What counts nothing and neither begins nor ends a Put.
LEMMA QuietBalance ==
    ASSUME MetricsBalance, UNCHANGED <<pc, result, count>>, InPut' = InPut
    PROVE  MetricsBalance'
<1>1. RequestsBalance /\ PutsBalance
  BY InTheirTerms
<1>2. Come' = Come /\ \A lo, hi : AnsweredWith(lo, hi)' = AnsweredWith(lo, hi)
  BY Zenon DEF Come, AnsweredWith
<1>3. RequestsBalance'
  <2>1. /\ AnsweredWith(200, 200)' = AnsweredWith(200, 200)
        /\ AnsweredWith(400, 499)' = AnsweredWith(400, 499)
        /\ AnsweredWith(500, 599)' = AnsweredWith(500, 599)
    BY ONLY <1>2, Zenon
  <2> QED
    BY ONLY count' = count, <1>1, <1>2, <2>1 DEF RequestsBalance
<1>4. PutsBalance'
  BY <1>1, Zenon DEF PutsBalance
<1> QED
  BY <1>3, <1>4, InTheirTerms, PTL

LEMMA ElementBalance ==
    ASSUME Inv, MetricsBalance, NEW e \in Element, Goroutine(e) \/ Client(e) \/ Server(e)
    PROVE  MetricsBalance'
<1>0. Types /\ UNCHANGED <<pc, result>>
  BY ElementFrame DEF Inv, handlerVars
<1>1. CASE RejectElement(e) \/ NoRandomness(e)
  <2>1. epc[e] = "start" /\ epc' = [epc EXCEPT ![e] = "done"] /\ UNCHANGED count
    BY <1>1 DEF RejectElement, NoRandomness, Settle
  <2> QED
    BY <1>0, <2>1, QuietBalance DEF InPut, Types
<1>2. CASE Resend(e) \/ Server(e)
  <2>1. UNCHANGED <<epc, count>>
    BY <1>2 DEF Resend, Server, ServerStores, ServerRefuses, LoseAttempt, elementVars
  <2> QED
    BY <1>0, <2>1, QuietBalance DEF InPut
<1> QED
  BY <1>1, <1>2, RefuseSizeBalance, SendBalance, FinishBalance DEF Goroutine, Client
-----------------------------------------------------------------------------
LEMMA BalanceStep == Inv /\ MetricsBalance /\ [Next]_vars => MetricsBalance'
<1> SUFFICES ASSUME Inv, MetricsBalance, [Next]_vars PROVE MetricsBalance'
  OBVIOUS
<1>1. ASSUME NEW k \in Key, Expire(k) PROVE UNCHANGED <<pc, result, epc, count>>
  BY <1>1 DEF Expire, handlerVars, elementVars
<1>2. CASE UNCHANGED <<pc, result, epc, count>>
  BY <1>2, QuietBalance DEF InPut
<1>3. UNCHANGED vars => UNCHANGED <<pc, result, epc, count>>
  BY DEF vars, handlerVars, elementVars
<1> QED
  BY <1>1, <1>2, <1>3, ReceiveBalance, InnerBalance, ReplyBalance, ElementBalance
     DEF Next, Terminated

\* In every state, for any number of requests and elements: each request is
\* counted once when it comes and once, by its status, when it is answered, and
\* each decorated Put once under its format and once under its outcome
\* (put.go:213-285, decorators/metrics.go:33-59).
THEOREM MetricsAddUp == Spec => []MetricsBalance
<1>1. Init => MetricsBalance
  <2> SUFFICES ASSUME Init PROVE MetricsBalance
    OBVIOUS
  <2>1. Come = {} /\ InPut = {} /\ \A lo, hi : AnsweredWith(lo, hi) = {}
    BY DEF Init, Come, InPut, AnsweredWith
  <2>2. \A m \in Metrics : count[m] = 0
    BY DEF Init
  <2> QED
    BY <2>1, <2>2, FS_EmptySet, InTheirTerms DEF RequestsBalance, PutsBalance, Metrics
<1> QED
  BY <1>1, BalanceStep, Invariant, PTL DEF Spec
=============================================================================
