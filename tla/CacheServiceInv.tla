---------------------------- MODULE CacheServiceInv ----------------------------
(***************************************************************************)
(* The inductive invariant of CacheService: TLC checks it on a small       *)
(* instance, CacheServiceProofs proves it for all.                         *)
(***************************************************************************)
EXTENDS CacheService, PutEndpointInv

\* A payload on its way was compressed by the process that waits for it; what
\* an in-memory back-end holds, by the process it lives in.
Compressions ==
    /\ \A e \in Element : epc[e] = "call" => encoding[e] = compression
    /\ Backend = "memory" =>
          /\ \A e \in Element : wire[e] # {} => encoding[e] = compression
          /\ \A k \in Key : store[k] # NoRecord => encoding[store[k].by] = compression

\* What a GET under way knows is something its key has held meanwhile.
Replies ==
    \A g \in GetRequest :
       /\ getPc[g] \in {"idle", "parse"} => getReply[g] = NoReply
       /\ getPc[g] = "call" =>
             /\ getUuid[g] \in Key
             /\ Seen(getUuid[g]) \in held[g]
             /\ getReply[g] # NoReply => getReply[g] \in held[g]
             /\ Backend = "memory" =>
                   \A x \in held[g] : x # NoRecord => x.encoding = compression

\* x is what the client stored as element e.
Shows(x, e) == /\ x # NoRecord
               /\ x.type = ToCache(body[e[1]].puts[e[2]]).type
               /\ x.content = ToCache(body[e[1]].puts[e[2]]).value

\* The client asks for a uuid that was its answer, and unless the record has
\* expired the key has held nothing else since the GET began.
Promises ==
    \A g \in GetRequest : \A e \in promised[g] :
       /\ Acked(e) /\ AckKey(e) = getUuid[g] /\ AckKey(e) # NoKey
       /\ getPc[g] = "call" =>
             getUuid[g] \in expired \/ \A x \in held[g] : Shows(x, e)

\* What a killed process has left on its way to the server are elements of its
\* own requests.
LostCalls ==
    /\ \A r \in Request : pc[r] = "lost" /\ batch[r] # <<>> =>
          Accepted(body[r]) /\ batch[r] = body[r].puts
    /\ \A e \in Element : Killed(e) /\ call[e] # NoCall => e[2] <= Len(batch[e[1]])

ServiceInv ==
    /\ Inv /\ Keys /\ Refusals /\ Timeouts
    /\ LostCalls
    /\ ServiceTypeOK
    /\ Compressions /\ Replies /\ Promises
    /\ AckedIsRetrievable

\* x is what element e was sent as, under key k.
SentAs(x, k, e) == call[e] # NoCall /\ call[e].key = k /\ Shows(x, e)

\* All that the key of a GET under way has held was sent as some element, and
\* so was what a GET has shown.
Origins ==
    \A g \in GetRequest :
       /\ getPc[g] = "call" =>
             \A x \in held[g] \ {NoRecord} : \E e \in Element : SentAs(x, getUuid[g], e)
       /\ getPc[g] = "done" /\ answer[g].err = "NONE" =>
             \E e \in Element : SentAs(answer[g].shows, getUuid[g], e)

FullServiceInv == ServiceInv /\ Origins /\ G!NotFoundMeansAbsent
=============================================================================
