--------------------------- MODULE PutAnswerProofs ---------------------------
(***************************************************************************)
(* For every set of requests, bodies and configurations: what a body that  *)
(* is refused leaves alone, what setting keys takes, what an empty uuid in *)
(* an answer means, and what a deadline is answered with.                  *)
(***************************************************************************)
EXTENDS PutEndpointProofs

USE DEF VarTypes, Statements

LEMMA InvRefuses == Inv => RefusedBodyStartsNothing
<1> SUFFICES ASSUME Inv, NEW r \in Request, pc[r] = "done", ~Accepted(body[r])
             PROVE  /\ StatusCode(result[r].err) = 400
                    /\ \A i \in Slot : epc[<<r, i>>] = "none"
  BY DEF RefusedBodyStartsNothing
<1>1. result[r].err \in {"PUT_BAD_REQUEST", "PUT_MAX_NUM_VALUES"}
  BY DEF Inv, Answers, AnswerOf, Replying
<1>2. batch[r] = <<>>
  BY DEF Inv, Contents, Started, HoldingResp, Replying
<1>3. ASSUME NEW i \in Slot PROVE epc[<<r, i>>] = "none"
  BY <1>2 DEF Inv, Goroutines, Killed, Element, Slot
<1> QED
  BY <1>1, <1>3 DEF StatusCode, BadRequestErrors

\* A body that is refused starts no goroutine (put.go:84-118).
THEOREM RefusalsStartNothing == Spec => []RefusedBodyStartsNothing
BY InvRefuses, Invariant, PTL
-----------------------------------------------------------------------------
(* The keys. *)

LEMMA ConfigFixed == [Next]_vars => config' = config
<1> SUFFICES ASSUME [Next]_vars PROVE config' = config
  OBVIOUS
<1>1. ASSUME NEW e \in Element, Goroutine(e) \/ Client(e) \/ Server(e) PROVE config' = config
  BY <1>1 DEF Goroutine, RejectElement, NoRandomness, RefuseSize, Send, Client, TakeReply,
              GiveUp, Finish, Resend, Server, ServerStores, ServerRefuses, LoseAttempt,
              serverVars
<1>2. ASSUME NEW r \in Request, StartElements(r) PROVE config' = config
  BY <1>2 DEF StartElements, serverVars
<1>3. ASSUME NEW k \in Key, Expire(k) PROVE config' = config
  BY <1>3 DEF Expire
<1>4. CASE UNCHANGED serverVars
  BY <1>4 DEF serverVars
<1> QED
  BY <1>1, <1>2, <1>3, <1>4, ElementCases

\* What an element asks for stays what it is once its goroutine exists.
LEMMA PutFixed ==
    ASSUME Inv, [Next]_vars, NEW e \in Element, epc[e] # "none" \/ call[e] # NoCall
    PROVE  Put(e)' = Put(e)
<1>1. ASSUME NEW r \in Request, StartElements(r) PROVE Put(e)' = Put(e)
  <2>1. e[1] # r /\ e[1] \in Request
    BY <1>1, StartFresh DEF Element
  <2>2. batch' = [batch EXCEPT ![r] = puts[reqObj[r]]] /\ batch \in [Request -> Seq(PutObject)]
    BY <1>1, StartFresh DEF Inv, Types
  <2> QED
    BY <2>1, <2>2 DEF Put
<1>2. CASE UNCHANGED batch
  BY <1>2 DEF Put
<1> QED
  BY <1>1, <1>2, ElementCases, ElementFrame, ExpireFrame

\* A call is made once, with a key the element may have.
LEMMA CallOnce ==
    ASSUME Inv, [Next]_vars, NEW e \in Element
    PROVE  \/ call'[e] = call[e]
           \/ epc[e] = "start" /\ call'[e].key \in KeyChoice(Put(e))
<1>0. Types
  BY DEF Inv
<1>1. ASSUME NEW x \in Element, Send(x)
      PROVE  \/ call'[e] = call[e]
             \/ epc[e] = "start" /\ call'[e].key \in KeyChoice(Put(e))
  BY <1>0, <1>1 DEF Send, Types
<1>2. ASSUME NEW x \in Element, RejectElement(x) \/ NoRandomness(x) \/ RefuseSize(x)
      PROVE  call' = call
  BY <1>2 DEF RejectElement, NoRandomness, RefuseSize, clientVars
<1>3. ASSUME NEW x \in Element, Client(x) \/ Server(x) PROVE call' = call
  BY <1>3 DEF Client, TakeReply, GiveUp, Finish, Resend, Server, ServerStores, ServerRefuses,
              LoseAttempt
<1>4. ASSUME NEW r \in Request, StartElements(r) PROVE call' = call
  BY <1>4 DEF StartElements, clientVars
<1>5. ASSUME NEW k \in Key, Expire(k) PROVE call' = call
  BY <1>5 DEF Expire, clientVars
<1>6. CASE UNCHANGED clientVars
  BY <1>6 DEF clientVars
<1> QED
  BY <1>1, <1>2, <1>3, <1>4, <1>5, <1>6, ElementCases DEF Goroutine

LEMMA KeysStep == Inv /\ Keys /\ [Next]_vars => Keys'
<1> SUFFICES ASSUME Inv, Keys, [Next]_vars, NEW e \in Element, call'[e] # NoCall
             PROVE  call'[e].key \in KeyChoice(Put(e))'
  BY DEF Keys, NoCall
<1>1. /\ epc[e] # "none" \/ call[e] # NoCall
      /\ call'[e].key \in KeyChoice(Put(e))
  BY CallOnce DEF Keys
<1> QED
  BY <1>1, ConfigFixed, PutFixed DEF KeyChoice, HasOwnKey, AllowKeys

\* An element whose uuid was answered has ended without an error.
LEMMA AckedElement ==
    ASSUME Inv, NEW e \in Element, Acked(e)
    PROVE  AckKey(e) = uuid[e] /\ epc[e] = "done" /\ err[e] = "NONE"
<1> DEFINE r == e[1]
<1>1. r \in Request /\ e = <<r, e[2]>> /\ pc[r] = "done"
  BY DEF Acked, Element
<1>2. Accepted(body[r])
  BY <1>1 DEF Inv, Answers, AnswerOf, Replying, Acked
<1>3. /\ result[r].uuids = [i \in 1..Len(body[r].puts) |-> uuid[<<r, i>>]]
      /\ AllDone(r) /\ NoneFailed(r)
  BY <1>1, <1>2 DEF Inv, Answers, AnswerOf, Replying, Acked, ResultIsUuids, ResultIsError
<1>4. e[2] \in 1..Len(body[r].puts)
  BY <1>1, <1>2, <1>3, AcceptedElements DEF Acked
<1> QED
  BY <1>1, <1>3, <1>4 DEF AckKey, AllDone, NoneFailed

LEMMA InvPermission == Inv /\ Keys => CustomKeysNeedPermission
<1> SUFFICES ASSUME Inv, Keys, ~AllowKeys, NEW k \in CustomKey \ UUID
             PROVE  store[k] = NoRecord /\ \A e \in Element : Acked(e) => AckKey(e) # k
  BY DEF CustomKeysNeedPermission
<1>1. k \in Key /\ k # NoKey
  BY PutAssumption DEF Key
<1>2. \A e \in Element : call[e] # NoCall => call[e].key # k
  BY DEF Keys, KeyChoice, HasOwnKey
<1>3. store[k] = NoRecord
  BY <1>1, <1>2 DEF Inv, Stored
<1>4. ASSUME NEW e \in Element, Acked(e) PROVE AckKey(e) # k
  BY <1>1, <1>2, <1>4, AckedElement DEF Inv, Stored, Calls
<1> QED
  BY <1>3, <1>4

\* Without allow_setting_keys no key a client asks for is stored under, or
\* answered (put.go:304-316).
THEOREM KeysNeedPermission == Spec => []CustomKeysNeedPermission
<1>1. Init => Keys
  BY DEF Init, Keys
<1> QED
  BY <1>1, InvPermission, KeysStep, Invariant, PTL DEF Spec
-----------------------------------------------------------------------------
(* The empty uuids. *)

\* A step in which e sends and stores nothing, meets no record, and ends without
\* an error and a uuid only when it has met one.
LEMMA RefusalFrame ==
    ASSUME Types, Types', NEW e \in Element, RefusalOf(e),
           config' = config, blocker'[e] = blocker[e],
           reply'[e] = "exists" => reply[e] = "exists",
           wire'[e] \subseteq wire[e],
           attempt'[e] = attempt[e], epc'[e] = "call" => epc[e] = "call",
           \A k \in Key : store'[k] \in {store[k], NoRecord} \/ store'[k].by # e,
           Backend # "cassandra" /\ epc'[e] = "done" /\ err'[e] = "NONE" /\ uuid'[e] = NoKey =>
              \/ epc[e] = "done" /\ err[e] = "NONE" /\ uuid[e] = NoKey
              \/ reply[e] = "exists"
    PROVE  RefusalOf(e)'
<1>1. Taken(e) => Taken(e)'
  BY DEF Taken
<1> QED
  BY <1>1 DEF RefusalOf, Backend

\* A failure passes for an existing record in Cassandra's adapter alone.
LEMMA FailureIsNoRecord ==
    ASSUME NEW b \in Backends \ {"cassandra"}, NEW a \in Failures(b)
    PROVE  AdapterPut(b, a) # "RECORD_EXISTS"
BY DEF AdapterPut, Failures, MemoryPut, MemcachePut, RedisPut, AerospikePut, IgnitePut,
       PassedOn, ClientAnswer, ClientError, Backends

\* A Put that ends without an error and without a uuid was refused.
LEMMA FinishRefused ==
    ASSUME Inv, Refusals, Types', NEW e \in Element, TakeReply(e) \/ GiveUp(e)
    PROVE  Refusals'
<1>0. Types
  BY DEF Inv
<1>1. Backend \in Backends
  BY <1>0, BackendType
<1>2. PICK a \in ClientAnswer :
         /\ Finish(e, a)
         /\ AdapterPut(Backend, a) = "RECORD_EXISTS" /\ Backend # "cassandra" => reply[e] = "exists"
  <2>1. CASE TakeReply(e)
    <3>1. reply[e] \in {"stored", "exists"}
      BY <1>0, <2>1 DEF TakeReply, Types
    <3> QED
      BY <1>1, <2>1, <3>1, AdapterReply DEF TakeReply
  <2>2. CASE GiveUp(e)
    BY <1>1, <2>2, AdapterFailure, FailureIsNoRecord DEF GiveUp
  <2> QED
    BY <2>1, <2>2
<1>3. epc[e] = "call"
  BY DEF TakeReply, GiveUp
<1>4. UNCHANGED <<config, blocker, store, reply, wire, attempt>>
  BY <1>2 DEF Finish, serverVars
<1>5. /\ epc' = [epc EXCEPT ![e] = "done"]
      /\ \A x \in Element : x # e => err'[x] = err[x] /\ uuid'[x] = uuid[x] /\ epc'[x] = epc[x]
  BY <1>0, <1>2 DEF Finish, Settle, Types
<1>6. uuid[e] # NoKey
  BY <1>3, PutAssumption DEF Inv, Goroutines, Calls, Call
<1>7. uuid'[e] = NoKey /\ err'[e] = "NONE" => AdapterPut(Backend, a) = "RECORD_EXISTS"
  BY <1>0, <1>2, <1>6, ClassifyType DEF Finish, Settle, Types
<1>8. ASSUME NEW x \in Element PROVE RefusalOf(x)'
  <2>1. RefusalOf(x) /\ (x = e \/ (err'[x] = err[x] /\ uuid'[x] = uuid[x] /\ epc'[x] = epc[x]))
    BY <1>5 DEF Refusals
  <2>2. epc'[e] = "done" /\ (epc'[x] = "call" => epc[x] = "call")
    BY <1>0, <1>5, <2>1 DEF Types
  <2> QED
    BY <1>0, <1>2, <1>4, <1>7, <2>1, <2>2, RefusalFrame
<1> QED
  BY <1>8 DEF Refusals

LEMMA RefusalsStep == Inv /\ Refusals /\ [Next]_vars => Refusals'
<1> SUFFICES ASSUME Inv, Refusals, [Next]_vars, NEW x \in Element PROVE RefusalOf(x)'
  BY DEF Refusals
<1>0. Types /\ Types' /\ config' = config /\ RefusalOf(x)
  BY TypeStep, ConfigFixed DEF Inv, Refusals
<1> USE <1>0
<1>1. ASSUME NEW r \in Request, StartElements(r) PROVE RefusalOf(x)'
  BY <1>1, StartFresh, RefusalFrame DEF clientVars, serverVars
<1>2. ASSUME NEW e \in Element, RejectElement(e) \/ NoRandomness(e) \/ RefuseSize(e)
      PROVE  RefusalOf(x)'
  <2>1. UNCHANGED <<config, store, blocker, attempt, wire, reply>>
    BY <1>2 DEF RejectElement, NoRandomness, RefuseSize, clientVars, serverVars
  <2>2. \E u, y : y # "NONE" /\ Settle(e, u, y)
    BY <1>2, ClassifyType DEF RejectElement, NoRandomness, RefuseSize
  <2>3. /\ epc' = [epc EXCEPT ![e] = "done"]
        /\ err'[e] # "NONE"
        /\ x # e => err'[x] = err[x] /\ uuid'[x] = uuid[x]
    BY <2>2 DEF Settle, Types
  <2>4. /\ epc'[x] = "call" => epc[x] = "call"
        /\ epc'[x] = "done" /\ err'[x] = "NONE" /\ uuid'[x] = NoKey =>
              epc[x] = "done" /\ err[x] = "NONE" /\ uuid[x] = NoKey
    BY <2>3 DEF Types
  <2> QED
    BY <2>1, <2>4, RefusalFrame
<1>3. ASSUME NEW e \in Element, Send(e) PROVE RefusalOf(x)'
  <2>1. /\ epc[e] = "start" /\ UNCHANGED <<err, reply, serverVars>>
        /\ epc' = [epc EXCEPT ![e] = "call"]
        /\ attempt' = [attempt EXCEPT ![e] = 1] /\ wire' = [wire EXCEPT ![e] = {1}]
        /\ x # e => uuid'[x] = uuid[x]
    BY <1>3 DEF Send, Types
  <2>2. CASE x = e
    <3>1. \A k \in Key : store[k] # NoRecord => store[k].by # e
      BY <2>1 DEF Inv, Stored, Goroutines
    <3>2. reply[e] = "none"
      <4>1. ~Killed(e)
        BY <2>1 DEF Inv, Goroutines
      <4> QED
        BY <2>1, <4>1 DEF Inv, Goroutines
    <3>3. epc'[e] = "call" /\ attempt'[e] = 1 /\ wire'[e] = {1} /\ UNCHANGED <<store, reply>>
      BY <2>1 DEF serverVars, Types
    <3> QED
      BY <2>2, <3>1, <3>2, <3>3 DEF RefusalOf
  <2>3. CASE x # e
    <3>1. UNCHANGED <<epc[x], uuid[x], attempt[x], wire[x], err, reply, config, store, blocker>>
      BY <2>1, <2>3 DEF serverVars, Types
    <3> QED
      BY <3>1, RefusalFrame
  <2> QED
    BY <2>2, <2>3
<1>4. ASSUME NEW e \in Element, TakeReply(e) \/ GiveUp(e) PROVE RefusalOf(x)'
  BY <1>4, FinishRefused DEF Refusals
<1>5. ASSUME NEW e \in Element, Resend(e) PROVE RefusalOf(x)'
  <2>1. /\ epc[e] = "call" /\ attempt[e] <= ClientRetries
        /\ attempt' = [attempt EXCEPT ![e] = @ + 1]
        /\ wire' = [wire EXCEPT ![e] = @ \cup {attempt[e] + 1}]
        /\ reply' = [reply EXCEPT ![e] = "none"]
        /\ UNCHANGED <<elementVars, serverVars>>
    BY <1>5 DEF Resend
  <2>2. CASE x = e
    <3>1. attempt[e] \in Nat /\ attempt[e] >= 1 /\ wire[e] \subseteq 1..attempt[e]
      BY <2>1, <2>2, BackendType DEF RefusalOf, Types
    <3>2. /\ attempt'[e] = attempt[e] + 1 /\ wire'[e] = wire[e] \cup {attempt[e] + 1}
          /\ reply'[e] = "none" /\ epc'[e] = "call"
      BY <2>1 DEF elementVars, Types
    <3>3. attempt'[e] > 1 /\ wire'[e] \subseteq 1..attempt'[e]
      BY <3>1, <3>2
    <3> QED
      BY <2>2, <3>2, <3>3 DEF RefusalOf
  <2>3. CASE x # e
    <3>1. UNCHANGED <<attempt[x], wire[x], reply[x]>>
      BY <2>1, <2>3 DEF Types
    <3> QED
      BY <2>1, <3>1, RefusalFrame DEF elementVars, serverVars
  <2> QED
    BY <2>2, <2>3
<1>6. ASSUME NEW e \in Element, ServerStores(e) PROVE RefusalOf(x)'
  <2>1. PICK n \in wire[e] : ServerStores(e)!(n)
    BY <1>6 DEF ServerStores
  <2>2. /\ UNCHANGED <<elementVars, attempt, blocker>>
        /\ store' = [store EXCEPT ![call[e].key] = Written(e)]
        /\ wire' = [wire EXCEPT ![e] = @ \ {n}]
        /\ reply'[x] = "exists" => reply[x] = "exists"
    BY <2>1 DEF Deliver, Types
  <2>3. \A k \in Key : store'[k] = store[k] \/ store'[k].by = e
    BY <2>2 DEF Written, Types
  <2>4. CASE x = e
    <3>1. /\ wire'[e] = wire[e] \ {n} /\ n \in wire[e]
          /\ wire[e] \subseteq 1..attempt[e] /\ attempt[e] \in Nat
      BY <2>1, <2>2, <2>4 DEF Types, RefusalOf
    <3>2. attempt[e] <= 1 => wire'[e] = {}
      BY <3>1
    <3>3. Taken(e) => Taken(e)'
      BY <2>2 DEF Taken
    <3> QED
      BY <2>2, <2>4, <3>1, <3>2, <3>3 DEF RefusalOf, elementVars, Backend
  <2>5. CASE x # e
    <3>1. wire'[x] = wire[x]
      BY <2>2, <2>5 DEF Types
    <3> QED
      BY <2>2, <2>3, <2>5, <3>1, RefusalFrame DEF elementVars
  <2> QED
    BY <2>4, <2>5
<1>7. ASSUME NEW e \in Element, ServerRefuses(e) PROVE RefusalOf(x)'
  <2>1. PICK n \in wire[e] : ServerRefuses(e)!(n)
    BY <1>7 DEF ServerRefuses
  <2>0. x # e => reply'[x] = reply[x]
    BY <2>1 DEF Deliver, Types
  <2>2. /\ UNCHANGED <<elementVars, attempt, store>>
        /\ blocker' = [blocker EXCEPT ![e] = store[call[e].key].by]
        /\ wire' = [wire EXCEPT ![e] = @ \ {n}]
        /\ x # e => reply'[x] = reply[x]
    BY <2>0, <2>1
  <2>3. CASE x = e
    <3>1. call[e].key \in Key /\ store[call[e].key] # NoRecord
      BY <2>1 DEF Inv, Goroutines, Calls, Call
    <3>2. store[call[e].key].by \in Element /\ (store[call[e].key].by = e => attempt[e] > 1)
      BY <2>1, <2>3, <3>1 DEF Inv, Stored, RefusalOf, Types
    <3>3. Taken(e)'
      BY <2>2, <3>2, NoElementAssumption DEF Taken, Types
    <3>4. wire'[e] \subseteq wire[e]
      BY <2>2 DEF Types
    <3> QED
      BY <2>2, <2>3, <3>3, <3>4 DEF RefusalOf, elementVars
  <2>4. CASE x # e
    <3>1. UNCHANGED <<blocker[x], wire[x], reply[x]>>
      BY <2>2, <2>4 DEF Types
    <3> QED
      BY <2>2, <3>1, RefusalFrame DEF elementVars
  <2> QED
    BY <2>3, <2>4
<1>8. ASSUME NEW e \in Element, LoseAttempt(e) PROVE RefusalOf(x)'
  <2>1. /\ UNCHANGED <<elementVars, attempt, reply, serverVars>>
        /\ \E n : wire' = [wire EXCEPT ![e] = @ \ {n}]
    BY <1>8 DEF LoseAttempt
  <2>2. wire'[x] \subseteq wire[x]
    BY <2>1 DEF Types
  <2> QED
    BY <2>1, <2>2, RefusalFrame DEF elementVars, serverVars
<1>9. ASSUME NEW k \in Key, Expire(k) PROVE RefusalOf(x)'
  BY <1>9, RefusalFrame DEF Expire, elementVars, clientVars, Types
<1>10. CASE UNCHANGED <<batch, elementVars, clientVars, serverVars>>
  BY <1>10, RefusalFrame DEF elementVars, clientVars, serverVars
<1> QED
  BY <1>1, <1>2, <1>3, <1>4, <1>5, <1>6, <1>7, <1>8, <1>9, <1>10, ElementCases
     DEF Goroutine, Client, Server

LEMMA InvTaken == Inv /\ Refusals => (Backend # "cassandra" => EmptyUuidMeansTaken)
BY AckedElement DEF Refusals, RefusalOf, Taken, EmptyUuidMeansTaken

\* An empty uuid means that the key was taken, over every adapter that tells a
\* failure from an existing record: Cassandra's does not (put.go:320-325).
THEOREM EmptyMeansTaken == Spec => [](Backend # "cassandra" => EmptyUuidMeansTaken)
<1>1. Init => Refusals
  BY DEF Init, Refusals, RefusalOf
<1> QED
  BY <1>1, InvTaken, RefusalsStep, Invariant, PTL DEF Spec

\* What TLC checks on the small instances is inductive (put.go:28-350).
THEOREM FullInvariant == Spec => []FullInv
<1>1. Init => Keys /\ Refusals
  BY DEF Init, Keys, Refusals, RefusalOf
<1> QED
  BY <1>1, KeysStep, RefusalsStep, Invariant, PTL DEF Spec, FullInv
-----------------------------------------------------------------------------
(* The deadlines. *)

LEMMA PlainAnswer ==
    ASSUME NEW a,
           a \in Failures("redis") \/ (\E stored \in BOOLEAN : a = Replied("redis", stored)),
           a.err \in {"context.DeadlineExceeded", "url.Error"}
    PROVE  AdapterPut("redis", a) = "DeadlineExceeded"
<1>1. a.err = "context.DeadlineExceeded"
  BY DEF Failures, Replied
<1> QED
  BY <1>1 DEF AdapterPut, RedisPut, PassedOn

\* An element whose process was killed changes no more.
LEMMA KilledFrozen ==
    ASSUME Inv, [Next]_vars, NEW e \in Element, Killed(e)
    PROVE  Killed(e)' /\ err'[e] = err[e]
<1>0. Types /\ epc[e] = "none"
  BY DEF Inv, Goroutines
<1> USE <1>0 DEF elementVars, Settle
<1>1. ASSUME NEW r \in Request, StartElements(r) PROVE err' = err
  BY <1>1, StartFresh
<1>2. ASSUME NEW x \in Element, Goroutine(x) PROVE err'[e] = err[e]
  BY <1>2 DEF Goroutine, RejectElement, NoRandomness, RefuseSize, Send, Types
<1>3. ASSUME NEW x \in Element, Client(x) PROVE err'[e] = err[e]
  <2>1. epc[x] = "call"
    BY <1>3 DEF Client, TakeReply, GiveUp, Resend
  <2>2. UNCHANGED err \/ \E y : err' = [err EXCEPT ![x] = y]
    BY <1>3 DEF Client, TakeReply, GiveUp, Resend, Finish
  <2> QED
    BY <2>1, <2>2 DEF Types
<1>4. ASSUME NEW x \in Element, Server(x) PROVE err' = err
  BY <1>4 DEF Server, ServerStores, ServerRefuses, LoseAttempt
<1>5. ASSUME NEW k \in Key, Expire(k) PROVE err' = err
  BY <1>5 DEF Expire
<1> QED
  BY <1>1, <1>2, <1>3, <1>4, <1>5, ElementCases, LostStays

LEMMA TimeoutsStep == Inv /\ Timeouts /\ [Next]_vars => Timeouts'
<1> SUFFICES ASSUME Inv, Timeouts, [Next]_vars PROVE Timeouts'
  OBVIOUS
<1>0. Types /\ PlainErrors' = PlainErrors
  BY ConfigFixed DEF Inv, PlainErrors, Backend
<1>1. ASSUME UNCHANGED outcome PROVE Timeouts'
  BY <1>0, <1>1, DoneFrozen, KilledFrozen DEF Timeouts, TimeoutAnswered597
<1>2. ASSUME NEW e \in Element, TakeReply(e) \/ GiveUp(e) PROVE Timeouts'
  <2>1. PICK a : /\ Finish(e, a)
                 /\ a \in Failures(Backend) \/ (\E stored \in BOOLEAN : a = Replied(Backend, stored))
    BY <1>2 DEF TakeReply, GiveUp
  <2>2. /\ epc' = [epc EXCEPT ![e] = "done"] /\ outcome' = [outcome EXCEPT ![e] = a.err]
        /\ err'[e] = IF AdapterPut(Backend, a) \in {"NONE", "RECORD_EXISTS"} THEN "NONE"
                     ELSE ClassifyBackendError(AdapterPut(Backend, a))
    BY <1>0, <2>1 DEF Finish, Settle, Types
  <2>3. ASSUME NEW x \in Element, outcome'[x] # "none" PROVE epc'[x] = "done" \/ Killed(x)'
    BY <1>0, <2>2, <2>3, KilledFrozen DEF Timeouts, Types
  <2>4. ASSUME PlainErrors, NEW x \in Element,
               outcome'[x] \in {"context.DeadlineExceeded", "url.Error"}
        PROVE  StatusCode(err'[x]) = HTTPDependencyTimeout
    <3>1. CASE x = e
      <4>1. a.err \in {"context.DeadlineExceeded", "url.Error"}
        BY <1>0, <2>2, <2>4, <3>1 DEF Types
      <4>2. Backend = "redis"
        BY <2>4 DEF PlainErrors
      <4>3. AdapterPut(Backend, a) = "DeadlineExceeded"
        BY <2>1, <4>1, <4>2, PlainAnswer
      <4>4. err'[x] = "PUT_DEADLINE_EXCEEDED"
        BY <2>2, <3>1, <4>3 DEF ClassifyBackendError
      <4> QED
        BY <4>4 DEF StatusCode, BadRequestErrors, NotFoundErrors, InternalErrors,
                    TimeoutErrors, HTTPDependencyTimeout
    <3>2. CASE x # e
      <4>1. outcome'[x] = outcome[x] /\ (epc[x] = "done" \/ Killed(x))
        BY <1>0, <2>2, <2>4, <3>2 DEF Timeouts, Types
      <4>2. err'[x] = err[x]
        BY <4>1, DoneFrozen, KilledFrozen
      <4> QED
        BY <1>0, <2>4, <4>1, <4>2 DEF Timeouts, TimeoutAnswered597
    <3> QED
      BY <3>1, <3>2
  <2> QED
    BY <1>0, <2>3, <2>4 DEF Timeouts, TimeoutAnswered597
<1>3. ASSUME NEW e \in Element, Goroutine(e) \/ Resend(e) \/ Server(e) PROVE UNCHANGED outcome
  BY <1>3 DEF Goroutine, RejectElement, NoRandomness, RefuseSize, Send, Resend, Server,
              ServerStores, ServerRefuses, LoseAttempt, clientVars
<1>4. ASSUME NEW r \in Request, StartElements(r) PROVE UNCHANGED outcome
  BY <1>4 DEF StartElements, clientVars
<1>5. ASSUME NEW k \in Key, Expire(k) PROVE UNCHANGED outcome
  BY <1>5, ExpireFrame DEF clientVars
<1> QED
  BY <1>1, <1>2, <1>3, <1>4, <1>5, ElementCases DEF Client, clientVars

\* Over Redis, the one back-end whose client library hands the deadline's error
\* on as it is, the error of a Put that ends with it stays one with the status
\* 597 (put.go:160-173, backends/redis.go:102-115).
THEOREM TimeoutsAre597 == Spec => [](PlainErrors => TimeoutAnswered597)
<1>1. Init => Timeouts
  BY DEF Init, Timeouts, TimeoutAnswered597
<1>2. Timeouts => (PlainErrors => TimeoutAnswered597)
  BY DEF Timeouts
<1> QED
  BY <1>1, <1>2, TimeoutsStep, Invariant, PTL DEF Spec
=============================================================================
