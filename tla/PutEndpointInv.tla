---------------------------- MODULE PutEndpointInv ----------------------------
(***************************************************************************)
(* The inductive invariant of PutEndpoint: TLC checks it on the small      *)
(* instances, PutEndpointProofs proves it for all.  It also holds when     *)
(* handlers are killed with their process, as they are in CacheService:    *)
(* the handler is then "lost", and its goroutines are gone.                *)
(***************************************************************************)
EXTENDS PutEndpoint

Types == pc \in [Request -> Statements \cup {"lost"}] /\ VarTypes

\* The process was killed while it served the element's request.
Killed(e) == pc[e[1]] = "lost"

Holding     == {"decode", "start", "wait", "encode", "release"}
HoldingResp == {"wait", "encode", "release"}
Replying    == {"reply", "done"}

\* The handler holds the objects its program counter says it holds.
Holders ==
    /\ \A r \in Request : /\ reqObj[r] # NoObject <=> pc[r] \in Holding
                          /\ respObj[r] # NoObject <=> pc[r] \in HoldingResp
    /\ ObjectsHaveOneHolder

\* The handler's elements run, or have run.
Started(r) == \/ pc[r] \in HoldingResp
              \/ pc[r] \in Replying /\ Accepted(body[r])

\* What a handler finds in its objects is its own.
Contents ==
    \A r \in Request :
       /\ pc[r] # "idle" => body[r] \in Bodies
       /\ pc[r] = "decode" => /\ puts[reqObj[r]] = <<>>
                              /\ body[r].kind # "unreadable"
       /\ pc[r] \in Holding \ {"decode"} =>
             Accepted(body[r]) /\ puts[reqObj[r]] = body[r].puts
       /\ pc[r] \in HoldingResp => owner[respObj[r]] = r
       /\ pc[r] # "lost" => batch[r] = IF Started(r) THEN body[r].puts ELSE <<>>

\* A goroutine exists for exactly the elements of the batches, and has done
\* what its program counter says.
Goroutines ==
    \A e \in Element :
       /\ IF Killed(e) THEN epc[e] = "none"
                       ELSE epc[e] # "none" <=> e[2] <= Len(batch[e[1]])
       /\ ~Killed(e) /\ epc[e] \in {"none", "start"} =>
             /\ uuid[e] = NoKey /\ err[e] = "NONE" /\ call[e] = NoCall
             /\ wire[e] = {} /\ reply[e] = "none"
       /\ epc[e] = "call" => err[e] = "NONE" /\ call[e] # NoCall
       /\ call[e] = NoCall => wire[e] = {} /\ reply[e] = "none"

\* A Put that was sent carries the element's own value.
Calls ==
    \A e \in Element :
       call[e] # NoCall =>
          /\ call[e] \in Call
          /\ ParseError(Put(e)) = "NONE"
          /\ call[e].payload = ToCache(Put(e))
          /\ call[e].ttl = LimitedTTL(MaxTTLSeconds, Put(e).ttl)
          /\ uuid[e] \in {NoKey, call[e].key}
          /\ epc[e] = "call" => uuid[e] = call[e].key

\* e's record is under its key, or has expired.
Kept(e) == \/ call[e].key \in expired
           \/ store[call[e].key] # NoRecord /\ store[call[e].key].by = e

\* A record is what its writer sent, and a writer that was told so, or that
\* reports its key, has its record kept.
Stored ==
    /\ \A k \in Key : store[k] # NoRecord =>
          /\ store[k].by \in Element
          /\ call[store[k].by] # NoCall
          /\ call[store[k].by].key = k
          /\ store[k] = Written(store[k].by)
    /\ \A e \in Element : reply[e] = "stored" => Kept(e)
    /\ \A e \in Element : epc[e] = "done" /\ err[e] = "NONE" /\ uuid[e] # NoKey =>
          call[e] # NoCall /\ reply[e] = "stored"

AllDone(r)   == \A i \in 1..Len(body[r].puts) : epc[<<r, i>>] = "done"
NoneFailed(r) == \A i \in 1..Len(body[r].puts) : err[<<r, i>>] = "NONE"

\* The result is the uuids of the elements; it is the first of their errors.
ResultIsUuids(r) ==
    /\ result[r].err = "NONE" /\ NoneFailed(r)
    /\ result[r].uuids = [i \in 1..Len(body[r].puts) |-> uuid[<<r, i>>]]
ResultIsError(r) ==
    /\ result[r].err # "NONE"
    /\ \E i \in 1..Len(body[r].puts) :
          /\ err[<<r, i>>] = result[r].err
          /\ \A j \in 1..Len(body[r].puts) : j < i => err[<<r, j>>] = "NONE"

\* The answer a handler is going to give.
AnswerOf(r) ==
    /\ pc[r] \notin {"release", "lost"} \cup Replying => result[r] = NoResult
    /\ pc[r] = "encode" => AllDone(r) /\ NoneFailed(r)
    /\ pc[r] \in {"release"} \cup Replying /\ Accepted(body[r]) =>
          AllDone(r) /\ (ResultIsUuids(r) \/ ResultIsError(r))
    /\ pc[r] \in Replying /\ ~Accepted(body[r]) =>
          result[r].err \in {"PUT_BAD_REQUEST", "PUT_MAX_NUM_VALUES"}

Answers == \A r \in Request : AnswerOf(r)

Inv == Types /\ Holders /\ Contents /\ Goroutines /\ Calls /\ Stored /\ Answers
-----------------------------------------------------------------------------
(* What the invariants about keys and empty uuids rest on besides.         *)

\* A Put was sent with a key the configuration lets its element have.
Keys == \A e \in Element : call[e] # NoCall => call[e].key \in KeyChoice(Put(e))

\* The server has found a record of another element, or of e when its Put was
\* resent.
Taken(e) == /\ blocker[e] # NoElement
            /\ blocker[e] = e => attempt[e] > 1

\* Every adapter but Cassandra's tells a failure from an existing record.  A Put
\* that was sent once is on its way only before it is stored.
RefusalOf(e) ==
    /\ reply[e] = "exists" => Taken(e)
    /\ Backend # "cassandra" =>
          (epc[e] = "done" /\ err[e] = "NONE" /\ uuid[e] = NoKey => Taken(e))
    /\ epc[e] = "call" => attempt[e] >= 1
    /\ wire[e] \subseteq 1..attempt[e]
    /\ attempt[e] <= 1 /\ wire[e] # {} =>
          \A k \in Key : store[k] # NoRecord => store[k].by # e

Refusals == \A e \in Element : RefusalOf(e)

FullInv == Inv /\ Keys /\ Refusals

\* The one back-end whose client library hands the adapter the deadline's error
\* as it is.  Ignite's wraps it and Cassandra's adapter takes it for an existing
\* record; the other three never look at the context.
PlainErrors == Backend = "redis"

\* A call that has ended with a deadline's error has settled its element with it.
Timeouts ==
    /\ \A e \in Element : outcome[e] # "none" => epc[e] = "done" \/ Killed(e)
    /\ PlainErrors => TimeoutAnswered597
=============================================================================
