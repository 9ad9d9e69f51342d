-------------------------- MODULE GetEndpointProofs --------------------------
(***************************************************************************)
(* For every set of requests, keys and contents and for each of the six    *)
(* back-ends: a GET shows what its key held while it was served, and a 404 *)
(* means that the key was free.                                            *)
(***************************************************************************)
EXTENDS GetEndpoint, FiniteSetTheorems, TLAPS

\* A reply is something the key has held during the call, and what is answered
\* is made of it.
Replies ==
    \A r \in Request :
       /\ pc[r] \in {"idle", "parse"} => reply[r] = NoReply
       /\ pc[r] = "call" => uuid[r] \in Key /\ store[uuid[r]] \in held[r]
       /\ reply[r] # NoReply => reply[r] \in held[r]

Inv == TypeOK /\ Replies /\ ShowsWhatWasStored /\ NotFoundMeansAbsent

-----------------------------------------------------------------------------
(* The operators the model is built from. *)

LEMMA ParseErrorType == \A k : ParseError(k) \in Errors
BY DEF ParseError, Errors, GetError

\* A key that passes parseUUID is one of the storage server's.
LEMMA ParsedKey ==
    ASSUME NEW k \in Key \cup {NoKey}, ParseError(k) = "NONE"
    PROVE  k \in Key
BY DEF ParseError

\* An adapter reports a record, or that there is none, as the server replied.
LEMMA AdapterReply ==
    ASSUME NEW b \in Backends, NEW found \in BOOLEAN
    PROVE  AdapterGet(b, GetReplied(b, found)) = IF found THEN "NONE" ELSE "KEY_NOT_FOUND"
BY DEF AdapterGet, GetReplied, MemoryGet, MemcacheGet, RedisGet, CassandraGet, AerospikeGet,
       IgniteGet, PassedOn, Backends

\* An adapter takes no failure for a record, nor for a missing one.
LEMMA AdapterFailure ==
    ASSUME NEW b \in Backends, NEW a \in GetFailures(b)
    PROVE  AdapterGet(b, a) \in {"GET_INTERNAL_SERVER", "DeadlineExceeded", "url.Error", "other"}
BY DEF AdapterGet, GetFailures, MemoryGet, MemcacheGet, RedisGet, CassandraGet, AerospikeGet,
       IgniteGet, PassedOn, Backends, GetAnswer, GetClientError

LEMMA CountType ==
    ASSUME NEW S, count \in [Metrics -> Nat], Count(S) PROVE count' \in [Metrics -> Nat]
BY DEF Count
-----------------------------------------------------------------------------
(* The steps. *)

\* What an answer has to be for the properties to hold.
GoodAnswer(r, err, shows) ==
    /\ err \in Errors
    /\ shows \in Record \cup {NoRecord}
    /\ err = "NONE" => shows \in held[r] \ {NoRecord} /\ shows.encoding = Compression
    /\ StatusCode(err) = 404 => NoRecord \in held[r] \/ (uuid[r] \notin LongKey /\ ~AllowCustomKeys)

LEMMA AnswerStep ==
    ASSUME Inv, NEW r \in Request, NEW err, NEW shows, NEW S,
           GoodAnswer(r, err, shows), Answer(r, err, shows, S),
           UNCHANGED <<config, uuid, reply, store, held>>
    PROVE  Inv'
<1> USE DEF Inv
<1>1. /\ pc' = [pc EXCEPT ![r] = "done"]
      /\ answer' = [answer EXCEPT ![r] = [err |-> err, shows |-> shows]]
      /\ Count(S \cup AnswerMetrics(err))
  BY DEF Answer, Goto
<1>2. TypeOK'
  BY <1>1, CountType DEF TypeOK, GoodAnswer
<1>3. Replies'
  BY <1>1 DEF TypeOK, Replies
<1>4. /\ answer'[r] = [err |-> err, shows |-> shows]
      /\ \A q \in Request : q # r => answer'[q] = answer[q] /\ pc'[q] = pc[q]
  BY <1>1 DEF TypeOK
<1>5. ShowsWhatWasStored'
  BY <1>4 DEF ShowsWhatWasStored, GoodAnswer, Compression
<1>6. NotFoundMeansAbsent'
  BY <1>4 DEF NotFoundMeansAbsent, GoodAnswer, AllowCustomKeys
<1> QED
  BY <1>2, <1>3, <1>5, <1>6

\* The end of a call: the server's reply or a failure, decompressed and checked
\* for its prefix.
LEMMA FinishStep ==
    ASSUME Inv, NEW r \in Request, NEW a, NEW record \in Record \cup {NoRecord},
           Finish(r, a, record),
           AdapterGet(Backend, a) \in GetError,
           AdapterGet(Backend, a) = "NONE" => record \in held[r] \ {NoRecord},
           AdapterGet(Backend, a) = "KEY_NOT_FOUND" => NoRecord \in held[r]
    PROVE  Inv'
<1> DEFINE x == AdapterGet(Backend, a)
           err == Decompress(x, record)
<1>1. UNCHANGED <<config, uuid, reply, store, held>>
  BY DEF Finish
<1>2. CASE err # "NONE"
  <2>1. err \in GetError /\ (StatusCode(err) = 404 => NoRecord \in held[r])
    BY DEF Decompress, GetError, StatusCode, BadRequestErrors, NotFoundErrors, TimeoutErrors
  <2>2. GoodAnswer(r, err, NoRecord)
    BY <1>2, <2>1 DEF GoodAnswer, Errors
  <2> QED
    BY <1>1, <1>2, <2>2, AnswerStep DEF Finish
<1>3. CASE err = "NONE" /\ Unprefixed(record)
  <2>1. GoodAnswer(r, "UNKNOWN_STORED_DATA_TYPE", NoRecord)
    BY DEF GoodAnswer, Errors, StatusCode, BadRequestErrors, NotFoundErrors, TimeoutErrors
  <2> QED
    BY <1>1, <1>3, <2>1, AnswerStep DEF Finish
<1>4. CASE err = "NONE" /\ ~Unprefixed(record)
  <2>1. x = "NONE" /\ record \in held[r] \ {NoRecord} /\ record \in Record
    BY <1>4 DEF Decompress
  <2>2. record.encoding = Compression
    BY <1>4, <2>1, GetAssumption
       DEF Decompress, Unprefixed, Record, Inv, TypeOK, Config, Compression
  <2>3. GoodAnswer(r, "NONE", record)
    BY <2>1, <2>2
       DEF GoodAnswer, Errors, GetError, StatusCode
  <2> QED
    BY <1>1, <1>4, <2>3, AnswerStep DEF Finish
<1> QED
  BY <1>2, <1>3, <1>4

LEMMA ChangeStep ==
    ASSUME Inv, NEW k \in Key, NEW record \in Record \cup {NoRecord}, Change(k, record)
    PROVE  Inv'
<1> USE DEF Inv
<1>1. /\ store' = [store EXCEPT ![k] = record]
      /\ \A r \in Request : held'[r] = IF pc[r] = "call" /\ uuid[r] = k
                                       THEN held[r] \cup {record} ELSE held[r]
      /\ UNCHANGED <<config, pc, uuid, answer, reply, count>>
  BY DEF Change, handlerVars
<1>2. held' \in [Request -> SUBSET (Record \cup {NoRecord})]
  BY DEF Change, TypeOK
<1>3. TypeOK'
  BY <1>1, <1>2 DEF TypeOK
<1>4. Replies'
  <2>1. \A r \in Request : held[r] \subseteq held'[r]
    BY <1>1
  <2>2. ASSUME NEW r \in Request, pc[r] = "call" PROVE store'[uuid[r]] \in held'[r]
    BY <1>1, <2>2 DEF TypeOK, Replies
  <2> QED
    BY <1>1, <2>1, <2>2 DEF Replies
<1>5. \A r \in Request : pc[r] = "done" => held'[r] = held[r]
  BY <1>1
<1>6. UNCHANGED <<Compression, AllowCustomKeys>>
  BY <1>1 DEF Compression, AllowCustomKeys
<1>7. ShowsWhatWasStored'
  BY ONLY ShowsWhatWasStored, <1>1, <1>5, <1>6, Zenon DEF ShowsWhatWasStored
<1>8. NotFoundMeansAbsent'
  <2>1. ASSUME NEW r \in Request, pc'[r] = "done", StatusCode(answer'[r].err) = 404
        PROVE  \/ NoRecord \in held'[r]
               \/ uuid'[r] \notin LongKey /\ ~AllowCustomKeys'
    <3>1. /\ pc[r] = "done" /\ StatusCode(answer[r].err) = 404
          /\ uuid'[r] = uuid[r] /\ AllowCustomKeys' = AllowCustomKeys
      BY <1>1, <1>6, <2>1
    <3>2. held'[r] = held[r]
      BY <1>5, <3>1
    <3> QED
      BY ONLY NotFoundMeansAbsent, <2>1, <3>1, <3>2 DEF NotFoundMeansAbsent
  <2> QED
    BY ONLY <2>1 DEF NotFoundMeansAbsent
<1> QED
  BY <1>3, <1>4, <1>7, <1>8

LEMMA InvStep == Inv /\ [Next]_vars => Inv'
<1> SUFFICES ASSUME Inv, [Next]_vars PROVE Inv'
  OBVIOUS
<1>0. TypeOK /\ Replies /\ ShowsWhatWasStored /\ NotFoundMeansAbsent
  BY DEF Inv
<1>1. ASSUME NEW r \in Request, Receive(r) PROVE Inv'
  <2>1. /\ pc[r] = "idle" /\ pc' = [pc EXCEPT ![r] = "parse"]
        /\ \E k \in Key \cup {NoKey} : uuid' = [uuid EXCEPT ![r] = k]
        /\ UNCHANGED <<config, answer, reply, store, held>> /\ Count({"total"})
    BY <1>1 DEF Receive, Goto
  <2>2. TypeOK'
    BY <1>0, <2>1, CountType DEF TypeOK
  <2>3. /\ pc'[r] = "parse"
        /\ \A q \in Request : q # r => pc'[q] = pc[q] /\ uuid'[q] = uuid[q]
    BY <1>0, <2>1 DEF TypeOK
  <2> QED
    BY <1>0, <2>1, <2>2, <2>3
       DEF Inv, Replies, ShowsWhatWasStored, NotFoundMeansAbsent, Compression, AllowCustomKeys
<1>2. ASSUME NEW r \in Request, Reject(r) PROVE Inv'
  <2>1. StatusCode(ParseError(uuid[r])) = 404 => uuid[r] \notin LongKey /\ ~AllowCustomKeys
    BY DEF ParseError, StatusCode, BadRequestErrors, NotFoundErrors, TimeoutErrors
  <2>2. GoodAnswer(r, ParseError(uuid[r]), NoRecord)
    BY <1>2, <2>1, ParseErrorType DEF GoodAnswer, Reject
  <2> QED
    BY <1>2, <2>2, AnswerStep DEF Reject
<1>3. ASSUME NEW r \in Request, Call(r) PROVE Inv'
  <2>1. /\ pc[r] = "parse" /\ ParseError(uuid[r]) = "NONE"
        /\ pc' = [pc EXCEPT ![r] = "call"]
        /\ held' = [held EXCEPT ![r] = {store[uuid[r]]}]
        /\ UNCHANGED <<config, uuid, answer, reply, store>> /\ Count({"backendTotal"})
    BY <1>3 DEF Call, Goto
  <2>2. uuid[r] \in Key
    BY <1>0, <2>1, ParsedKey DEF TypeOK
  <2>3. TypeOK'
    BY <1>0, <2>1, <2>2, CountType DEF TypeOK
  <2>4. /\ pc'[r] = "call" /\ held'[r] = {store[uuid[r]]}
        /\ \A q \in Request : q # r => pc'[q] = pc[q] /\ held'[q] = held[q]
    BY <1>0, <2>1 DEF TypeOK
  <2> QED
    BY <1>0, <2>1, <2>2, <2>3, <2>4
       DEF Inv, Replies, ShowsWhatWasStored, NotFoundMeansAbsent, Compression, AllowCustomKeys
<1>4. ASSUME NEW r \in Request, TakeReply(r) PROVE Inv'
  <2>1. /\ Finish(r, GetReplied(Backend, reply[r] # NoRecord), reply[r])
        /\ reply[r] \in held[r] /\ reply[r] \in Record \cup {NoRecord}
    BY <1>0, <1>4 DEF TakeReply, Replies, TypeOK
  <2>2. Backend \in Backends
    BY <1>0 DEF TypeOK, Config, Backend
  <2>3. AdapterGet(Backend, GetReplied(Backend, reply[r] # NoRecord)) =
           IF reply[r] # NoRecord THEN "NONE" ELSE "KEY_NOT_FOUND"
    BY <2>2, AdapterReply
  <2> QED
    BY <2>1, <2>3, FinishStep DEF GetError
<1>5. ASSUME NEW r \in Request, GiveUp(r) PROVE Inv'
  <2>1. PICK a \in GetFailures(Backend) : Finish(r, a, NoRecord)
    BY <1>5 DEF GiveUp
  <2>2. Backend \in Backends
    BY <1>0 DEF TypeOK, Config, Backend
  <2>3. AdapterGet(Backend, a) \in {"GET_INTERNAL_SERVER", "DeadlineExceeded", "url.Error", "other"}
    BY <2>1, <2>2, AdapterFailure
  <2> QED
    BY <2>1, <2>3, FinishStep DEF GetError
<1>6. ASSUME NEW r \in Request, ServerReads(r) PROVE Inv'
  <2>1. /\ pc[r] = "call" /\ reply' = [reply EXCEPT ![r] = store[uuid[r]]]
        /\ UNCHANGED <<config, pc, uuid, answer, store, held, count>>
    BY <1>6 DEF ServerReads, handlerVars
  <2>2. store[uuid[r]] \in held[r]
    BY <1>0, <2>1 DEF Replies
  <2>3. TypeOK'
    BY <1>0, <2>1, <2>2 DEF TypeOK
  <2>4. Replies'
    BY <1>0, <2>1, <2>2 DEF Replies, TypeOK
  <2> QED
    BY <1>0, <2>1, <2>3, <2>4
       DEF Inv, ShowsWhatWasStored, NotFoundMeansAbsent, Compression, AllowCustomKeys
<1>7. ASSUME NEW k \in Key, Write(k) \/ Expire(k) PROVE Inv'
  BY <1>7, ChangeStep DEF Write, Expire
<1>8. CASE UNCHANGED vars
  BY <1>0, <1>8
     DEF vars, handlerVars, Inv, TypeOK, Replies, ShowsWhatWasStored, NotFoundMeansAbsent,
         Compression, AllowCustomKeys
<1> QED
  BY <1>1, <1>2, <1>3, <1>4, <1>5, <1>6, <1>7, <1>8 DEF Next, Handler, Terminated
-----------------------------------------------------------------------------
(* The theorems. *)

LEMMA InitInv == Init => Inv
BY GetAssumption
   DEF Init, Inv, TypeOK, Replies, ShowsWhatWasStored, NotFoundMeansAbsent, Errors, GetError

\* The inductive invariant holds in every reachable state.
THEOREM Invariant == Spec => []Inv
BY InitInv, InvStep, PTL DEF Spec

\* Type correctness; in particular errToStatusCodes lists the handler's errors
\* (get.go:31-114).
THEOREM TypeCorrect == Spec => []TypeOK
<1>1. Inv => TypeOK
  BY DEF Inv
<1> QED
  BY <1>1, Invariant, PTL

\* A 200 shows what the key held (get.go:64-82, 117-134).
THEOREM GetsShow == Spec => []ShowsWhatWasStored
<1>1. Inv => ShowsWhatWasStored
  BY DEF Inv
<1> QED
  BY <1>1, Invariant, PTL

\* A 404 means that the key was free, over each of the six adapters
\* (get.go:64-82).
THEOREM MissingMeansAbsent == Spec => []NotFoundMeansAbsent
<1>1. Inv => NotFoundMeansAbsent
  BY DEF Inv
<1> QED
  BY <1>1, Invariant, PTL
-----------------------------------------------------------------------------
(* The metrics. *)

\* The GETs under way, those in the back-end, and those that found no record.
Open    == {r \in Request : pc[r] \in {"parse", "call"}}
Calling == {r \in Request : pc[r] = "call"}
Missing == {r \in Request : pc[r] = "done" /\ answer[r].err = "KEY_NOT_FOUND"}

\* MetricsBalance, in their terms.
Balance ==
    /\ count["total"] = count["badRequest"] + count["error"] + count["duration"]
          + Cardinality(Open)
    /\ count["backendTotal"] = count["backendDuration"] + count["backendError"]
          + Cardinality(Calling)
    /\ count["keyNotFound"] = Cardinality(Missing)

LEMMA FiniteSets ==
    /\ IsFiniteSet(Open) /\ Cardinality(Open) \in Nat
    /\ IsFiniteSet(Calling) /\ Cardinality(Calling) \in Nat
    /\ IsFiniteSet(Missing) /\ Cardinality(Missing) \in Nat
BY GetAssumption, FS_Subset, FS_CardinalityType DEF Open, Calling, Missing

LEMMA Counted ==
    ASSUME NEW S, count \in [Metrics -> Nat], Count(S), NEW m \in Metrics
    PROVE  count'[m] = IF m \in S THEN count[m] + 1 ELSE count[m]
BY DEF Count

\* The switch of handleException counts each answer as exactly one outcome.
LEMMA OneOutcome ==
    ASSUME NEW err
    PROVE  \E m \in {"badRequest", "error", "duration"} : AnswerMetrics(err) = {m}
<1>1. CASE err = "NONE"
  <2>1. AnswerMetrics(err) = {"duration"}
    BY <1>1 DEF AnswerMetrics, StatusCode, Metrics
  <2> QED
    BY <2>1
<1>2. CASE err # "NONE" /\ StatusCode(err) \in 400..499
  <2>1. AnswerMetrics(err) = {"badRequest"}
    BY <1>2 DEF AnswerMetrics, Metrics
  <2> QED
    BY <2>1
<1>3. CASE err # "NONE" /\ StatusCode(err) \notin 400..499
  <2>1. StatusCode(err) \in {500, 597}
    BY <1>3 DEF StatusCode, HTTPDependencyTimeout
  <2>2. AnswerMetrics(err) = {"error"}
    BY <1>3, <2>1 DEF AnswerMetrics, Metrics
  <2> QED
    BY <2>2
<1> QED
  BY <1>1, <1>2, <1>3

\* A GET whose answer is not found has had its call counted as not found.
LEMMA AnswerBalance ==
    ASSUME TypeOK, MetricsBalance, NEW r \in Request, NEW err, NEW shows, NEW ms,
           Answer(r, err, shows, ms),
           \/ pc[r] = "parse" /\ ms = {} /\ err # "KEY_NOT_FOUND"
           \/ pc[r] = "call" /\ \E e : /\ ms = CallMetrics(e)
                                       /\ e = "KEY_NOT_FOUND" <=> err = "KEY_NOT_FOUND"
    PROVE  MetricsBalance'
<1>1. PICK m \in {"badRequest", "error", "duration"} : AnswerMetrics(err) = {m}
  BY OneOutcome
<1>2. /\ count \in [Metrics -> Nat]
      /\ \A x \in Metrics : count'[x] = IF x \in ms \cup {m} THEN count[x] + 1 ELSE count[x]
  BY <1>1, Counted DEF TypeOK, Answer
<1>3. /\ pc' = [pc EXCEPT ![r] = "done"]
      /\ answer' = [answer EXCEPT ![r] = [err |-> err, shows |-> shows]]
  BY DEF Answer, Goto
<1>4. /\ Open' = Open \ {r} /\ r \in Open
      /\ Calling' = Calling \ {r} /\ r \notin Missing
      /\ Missing' = IF err = "KEY_NOT_FOUND" THEN Missing \cup {r} ELSE Missing
  BY <1>3 DEF TypeOK, Open, Calling, Missing
<1>5. /\ Cardinality(Open') = Cardinality(Open) - 1
      /\ Cardinality(Calling') = IF r \in Calling THEN Cardinality(Calling) - 1
                                 ELSE Cardinality(Calling)
      /\ Cardinality(Missing') = IF err = "KEY_NOT_FOUND" THEN Cardinality(Missing) + 1
                                 ELSE Cardinality(Missing)
  BY <1>4, FiniteSets, FS_AddElement, FS_RemoveElement
<1>6. /\ ms \in {{}, {"backendDuration"}, {"backendError"}, {"backendError", "keyNotFound"}}
      /\ r \in Calling <=> ms # {}
      /\ "keyNotFound" \in ms <=> err = "KEY_NOT_FOUND"
  BY DEF CallMetrics, Calling
<1>7. Balance
  BY DEF Balance, MetricsBalance, Open, Calling, Missing
<1>8. \A x \in Metrics : count[x] \in Nat
  BY <1>2
<1>9. count'["total"] = count'["badRequest"] + count'["error"] + count'["duration"]
            + Cardinality(Open')
  <2>1. count'["total"] = count["total"]
    BY <1>2, <1>6 DEF Metrics
  <2>2. count'["badRequest"] + count'["error"] + count'["duration"]
          = count["badRequest"] + count["error"] + count["duration"] + 1
    BY <1>1, <1>2, <1>6, <1>8 DEF Metrics
  <2>3. /\ count["badRequest"] + count["error"] + count["duration"] \in Nat
        /\ count["total"] \in Nat /\ Cardinality(Open) \in Nat
    BY <1>8, FiniteSets DEF Metrics
  <2> QED
    BY <1>5, <1>7, <2>1, <2>2, <2>3 DEF Balance
<1>10. count'["backendTotal"] = count'["backendDuration"] + count'["backendError"]
            + Cardinality(Calling')
  <2>1. count'["backendTotal"] = count["backendTotal"]
    BY <1>2, <1>6 DEF Metrics
  <2>2. count'["backendDuration"] + count'["backendError"]
          = count["backendDuration"] + count["backendError"] + (IF ms = {} THEN 0 ELSE 1)
    BY <1>1, <1>2, <1>6, <1>8 DEF Metrics
  <2>3. /\ count["backendDuration"] + count["backendError"] \in Nat
        /\ count["backendTotal"] \in Nat /\ Cardinality(Calling) \in Nat
    BY <1>8, FiniteSets DEF Metrics
  <2> QED
    BY <1>5, <1>6, <1>7, <2>1, <2>2, <2>3 DEF Balance
<1>11. count'["keyNotFound"] = Cardinality(Missing')
  BY <1>1, <1>2, <1>5, <1>6, <1>7, <1>8 DEF Balance, Metrics
<1> QED
  BY <1>9, <1>10, <1>11 DEF MetricsBalance, Open, Calling, Missing

LEMMA FinishBalance ==
    ASSUME TypeOK, MetricsBalance, NEW r \in Request, pc[r] = "call", NEW a, NEW record,
           Finish(r, a, record)
    PROVE  MetricsBalance'
<1> DEFINE err == Decompress(AdapterGet(Backend, a), record)
<1>1. CASE err # "NONE"
  BY <1>1, AnswerBalance DEF Finish
<1>2. CASE err = "NONE" /\ Unprefixed(record)
  BY <1>2, AnswerBalance DEF Finish
<1>3. CASE err = "NONE" /\ ~Unprefixed(record)
  BY <1>3, AnswerBalance DEF Finish
<1> QED
  BY <1>1, <1>2, <1>3

\* A step that answers nothing leaves no answer without its metrics.
LEMMA MoveBalance ==
    ASSUME TypeOK, MetricsBalance, NEW r \in Request, UNCHANGED answer,
           \/ /\ pc[r] = "idle" /\ pc' = [pc EXCEPT ![r] = "parse"] /\ Count({"total"})
           \/ /\ pc[r] = "parse" /\ pc' = [pc EXCEPT ![r] = "call"] /\ Count({"backendTotal"})
    PROVE  MetricsBalance'
<1>1. \A S : Count(S) => \A x \in Metrics : count'[x] = IF x \in S THEN count[x] + 1 ELSE count[x]
  BY Counted DEF TypeOK
<1>2. \A x \in Metrics : count[x] \in Nat
  BY DEF TypeOK
<1>3. Missing' = Missing
  BY DEF TypeOK, Missing
<1>b. Balance
  BY DEF Balance, MetricsBalance, Open, Calling, Missing
<1>4. CASE pc[r] = "idle" /\ pc' = [pc EXCEPT ![r] = "parse"] /\ Count({"total"})
  <2>1. Open' = Open \cup {r} /\ r \notin Open /\ Calling' = Calling
    BY <1>4 DEF TypeOK, Open, Calling
  <2>2. Cardinality(Open') = Cardinality(Open) + 1 /\ Cardinality(Calling') = Cardinality(Calling)
    BY <2>1, FiniteSets, FS_AddElement
  <2>3. /\ count'["total"] = count["total"] + 1
        /\ \A x \in Metrics \ {"total"} : count'[x] = count[x]
    BY <1>1, <1>4 DEF Metrics
  <2>4. \A x \in {"badRequest", "error", "duration"} : count'[x] = count[x] /\ count[x] \in Nat
    BY <1>2, <2>3 DEF Metrics
  <2>5. count'["total"] = count'["badRequest"] + count'["error"] + count'["duration"]
            + Cardinality(Open')
    BY <1>b, <2>2, <2>3, <2>4, FiniteSets DEF Balance
  <2>6. Balance'
    BY <1>3, <1>b, <2>2, <2>3, <2>5 DEF Balance, Metrics
  <2> QED
    BY <2>6 DEF Balance, MetricsBalance, Open, Calling, Missing
<1>5. CASE pc[r] = "parse" /\ pc' = [pc EXCEPT ![r] = "call"] /\ Count({"backendTotal"})
  <2>1. Calling' = Calling \cup {r} /\ r \notin Calling /\ Open' = Open
    BY <1>5 DEF TypeOK, Open, Calling
  <2>2. Cardinality(Calling') = Cardinality(Calling) + 1 /\ Cardinality(Open') = Cardinality(Open)
    BY <2>1, FiniteSets, FS_AddElement
  <2>3. /\ count'["backendTotal"] = count["backendTotal"] + 1
        /\ \A x \in Metrics \ {"backendTotal"} : count'[x] = count[x]
    BY <1>1, <1>5 DEF Metrics
  <2>4. Balance'
    BY <1>2, <1>3, <1>b, <2>2, <2>3, FiniteSets DEF Balance, Metrics
  <2> QED
    BY <2>4 DEF Balance, MetricsBalance, Open, Calling, Missing
<1> QED
  BY <1>4, <1>5

LEMMA BalanceStep == TypeOK /\ MetricsBalance /\ [Next]_vars => MetricsBalance'
<1> SUFFICES ASSUME TypeOK, MetricsBalance, [Next]_vars PROVE MetricsBalance'
  OBVIOUS
<1>1. ASSUME NEW r \in Request, Receive(r) \/ Call(r) PROVE MetricsBalance'
  BY <1>1, MoveBalance DEF Receive, Call, Goto
<1>2. ASSUME NEW r \in Request, Reject(r) PROVE MetricsBalance'
  <2>1. ParseError(uuid[r]) # "KEY_NOT_FOUND"
    BY DEF ParseError
  <2> QED
    BY <1>2, <2>1, AnswerBalance DEF Reject
<1>3. ASSUME NEW r \in Request, TakeReply(r) \/ GiveUp(r) PROVE MetricsBalance'
  BY <1>3, FinishBalance DEF TakeReply, GiveUp
<1>4. CASE UNCHANGED <<pc, answer, count>>
  BY <1>4 DEF MetricsBalance
<1>5. ASSUME NEW r \in Request, ServerReads(r) PROVE UNCHANGED <<pc, answer, count>>
  BY <1>5 DEF ServerReads, handlerVars
<1>6. ASSUME NEW k \in Key, Write(k) \/ Expire(k) PROVE UNCHANGED <<pc, answer, count>>
  BY <1>6 DEF Write, Expire, Change, handlerVars
<1>7. CASE UNCHANGED vars
  BY <1>4, <1>7 DEF vars, handlerVars
<1> QED
  BY <1>1, <1>2, <1>3, <1>4, <1>5, <1>6, <1>7 DEF Next, Handler, Terminated

\* The metrics of GET add up, in every state and for any number of requests:
\* each is counted once when it comes and once by its outcome, and each call of
\* the back-end too (get.go:44-90, decorators/metrics.go:17-31).
THEOREM MetricsAddUp == Spec => []MetricsBalance
<1>1. Init => MetricsBalance
  <2> SUFFICES ASSUME Init PROVE MetricsBalance
    OBVIOUS
  <2>1. Open = {} /\ Calling = {} /\ Missing = {}
    BY DEF Init, Open, Calling, Missing
  <2>2. \A m \in Metrics : count[m] = 0
    BY DEF Init
  <2> QED
    BY <2>1, <2>2, FS_EmptySet DEF MetricsBalance, Open, Calling, Missing, Metrics
<1> QED
  BY <1>1, BalanceStep, TypeCorrect, PTL DEF Spec
=============================================================================
