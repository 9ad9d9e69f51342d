----------------------------- MODULE CacheService -----------------------------
(***************************************************************************)
(* The service: POST and GET over one storage server, and a process that   *)
(* may be killed and started again at any time, with another compression.  *)
(*                                                                         *)
(* The steps of a POST are PutEndpoint's, those of a GET GetEndpoint's,    *)
(* whose storage server is a view of PutEndpoint's.  What a killed process *)
(* leaves behind are the records of a storage server of its own, and the   *)
(* writes that are still on their way to it; the in-memory back-end is     *)
(* lost with the process.                                                  *)
(***************************************************************************)
EXTENDS PutEndpoint

CONSTANTS
    GetRequest,    \* the GET requests; a client whose GET was cut off asks again
    Encodings,     \* the values compression.type takes
    FirstEncodings,  \* those of the first process
    NoReply,
    MaxRestarts    \* bound on the restarts

ASSUME ServiceAssumption ==
    /\ IsFiniteSet(GetRequest) /\ MaxRestarts \in Nat
    /\ FirstEncodings \subseteq Encodings /\ Encodings \subseteq {"none", "snappy"}

VARIABLES
    compression,   \* compression.type of the running process
    encoding,      \* how the payload of each element was compressed
    getPc, getUuid, getReply, answer, held, getCount,   \* GetEndpoint's
    promised,      \* the elements whose uuid the client had when its GET began
    restarts

getVars == <<getPc, getUuid, getReply, answer, getCount>>
serviceVars == <<vars, compression, encoding, getVars, held, promised, restarts>>

\* What a GET reads of the storage server.
Seen(k) ==
    IF store[k] = NoRecord THEN NoRecord
    ELSE [type |-> store[k].payload.type, content |-> store[k].payload.value,
          encoding |-> encoding[store[k].by]]

GetConfig(c, type) == [backend |-> c.backend, compression |-> type, allowCustomKeys |-> c.allowKeys]

G == INSTANCE GetEndpoint WITH
        Request <- GetRequest, LongKey <- UUID, Content <- Value,
        Configs <- {GetConfig(c, type) : c \in Configs, type \in Encodings},
        config <- GetConfig(config, compression), store <- [k \in Key |-> Seen(k)],
        pc <- getPc, uuid <- getUuid, reply <- getReply, count <- getCount

ASSUME SeenAssumption ==
    NoRecord \notin G!Record /\ NoReply \notin G!Record \cup {NoRecord}

ServiceTypeOK ==
    /\ compression \in Encodings
    /\ encoding \in [Element -> Encodings]
    /\ G!TypeOK
    /\ promised \in [GetRequest -> SUBSET Element]
    /\ restarts \in 0..MaxRestarts
    /\ VarTypes /\ pc \in [Request -> Statements \cup {"lost"}]
    /\ \A r \in Request : pc[r] = "lost" => restarts > 0

ServiceInit ==
    /\ Init
    /\ compression \in FirstEncodings
    /\ encoding = [e \in Element |-> compression]
    /\ getPc = [g \in GetRequest |-> "idle"]
    /\ getUuid = [g \in GetRequest |-> NoKey]
    /\ getReply = [g \in GetRequest |-> NoReply]
    /\ answer = [g \in GetRequest |-> [err |-> "NONE", shows |-> NoRecord]]
    /\ held = [g \in GetRequest |-> {}]
    /\ getCount = [m \in G!Metrics |-> 0]
    /\ promised = [g \in GetRequest |-> {}]
    /\ restarts = 0
-----------------------------------------------------------------------------
\* What a step of a POST or of the storage server is for the GETs: its payload
\* is compressed when it is sent, and a GET under way meets what the key holds.
Meanwhile ==
    /\ UNCHANGED <<compression, getVars, promised, restarts>>
    /\ encoding' = [e \in Element |-> IF epc[e] = "start" /\ epc'[e] = "call"
                                      THEN compression ELSE encoding[e]]
    /\ held' = [g \in GetRequest |-> IF getPc[g] = "call" THEN held[g] \cup {Seen(getUuid[g])'}
                                     ELSE held[g]]

\* The step of a GET leaves the POSTs alone.
Unposted == UNCHANGED <<vars, compression, encoding, restarts>>

\* A GET begins: the client may know the key from the answer to a POST.
GetReceive(g) ==
    /\ Unposted
    /\ G!Receive(g)
    /\ promised' = [promised EXCEPT ![g] =
                      {e \in Element : Acked(e) /\ AckKey(e) = getUuid'[g] /\ AckKey(e) # NoKey}]

GetHandler(g)  == Unposted /\ G!Handler(g) /\ UNCHANGED promised
GetReads(g)    == Unposted /\ G!ServerReads(g) /\ UNCHANGED promised
GetGoroutine(g) == GetHandler(g) \/ (Backend = "memory" /\ GetReads(g))

InFlight(r) == pc[r] \notin {"idle", "done", "lost"}

\* The process is killed, and started with two new pools.
Restart ==
    /\ restarts < MaxRestarts
    /\ restarts' = restarts + 1
    /\ compression' \in Encodings
    /\ pc' = [r \in Request |-> IF InFlight(r) THEN "lost" ELSE pc[r]]
    /\ epc' = [e \in Element |-> IF InFlight(e[1]) THEN "none" ELSE epc[e]]
    /\ reqPool' = Object /\ respPool' = Object
    /\ reqObj' = [r \in Request |-> NoObject] /\ respObj' = [r \in Request |-> NoObject]
    /\ puts' = [o \in Object |-> <<>>] /\ owner' = [o \in Object |-> NoRequest]
    /\ count' = [m \in Metrics |-> 0] /\ getCount' = [m \in G!Metrics |-> 0]
    /\ getPc' = [g \in GetRequest |-> IF getPc[g] = "done" THEN "done" ELSE "idle"]
    /\ getReply' = [g \in GetRequest |-> NoReply]
    /\ \/ /\ Backend = "memory"
          /\ store' = [k \in Key |-> NoRecord]
          /\ expired' = expired \cup {k \in Key : store[k] # NoRecord}
          /\ wire' = [e \in Element |-> {}]
       \/ Backend # "memory" /\ UNCHANGED <<store, expired, wire>>
    /\ UNCHANGED <<config, body, batch, result, uuid, err, call, attempt, reply, outcome,
                   blocker, encoding, getUuid, answer, held, promised>>

ServiceEnded ==
    /\ \A r \in Request : pc[r] \in {"done", "lost"}
    /\ \A g \in GetRequest : getPc[g] = "done"
    /\ UNCHANGED serviceVars

ServiceNext ==
    \/ \E r \in Request : (Receive(r) \/ Handler(r)) /\ Meanwhile
    \/ \E e \in Element : (Goroutine(e) \/ Client(e) \/ Server(e)) /\ Meanwhile
    \/ \E k \in Key : Expire(k) /\ Meanwhile
    \/ \E g \in GetRequest : GetReceive(g) \/ GetHandler(g) \/ GetReads(g)
    \/ Restart
    \/ ServiceEnded

\* A step that the process takes for a POST by itself: of the handler, of an
\* element's goroutine, of a client library whose call is bounded, or of the
\* in-memory server, which is the goroutine.
PostStep(r) ==
    /\ \/ Handler(r)
       \/ \E e \in {r} \X Slot : \/ Goroutine(e)
                                 \/ BoundedCall(Backend) /\ Client(e)
                                 \/ Backend = "memory" /\ Server(e)
    /\ Meanwhile

\* As long as the process can do something for a request, it eventually does.
\* Nothing restarts it, and nothing makes the network deliver.
ServiceSpec ==
    /\ ServiceInit /\ [][ServiceNext]_serviceVars
    /\ \A r \in Request : WF_serviceVars(PostStep(r))
    /\ \A g \in GetRequest : WF_serviceVars(GetGoroutine(g))
-----------------------------------------------------------------------------
(* Properties. *)

\* The answer to g is what the client stored as element e, which it had a uuid for.
Retrieves(g, e) ==
    \/ getUuid[g] \in expired
    \/ Backend # "memory" /\ StatusCode(answer[g].err) \in 500..599
    \/ /\ answer[g].err = "NONE"
       /\ LET p == ToCache(body[e[1]].puts[e[2]]) IN
          answer[g].shows.type = p.type /\ answer[g].shows.content = p.value

\* A client that was answered with a uuid reads its own value under it, or an
\* error of the service (5xx) when the storage is remote: never a 4xx and never
\* another value, until the record expires, whatever other requests write and
\* however often the process is killed and restarted meanwhile.
AckedIsRetrievable ==
    \A g \in GetRequest : getPc[g] = "done" => \A e \in promised[g] : Retrieves(g, e)

\* What a GET shows under a uuid is the text of one element that a client has
\* sent, in its own format: one with this custom key, where that is allowed, or
\* with none.  It is never a text of another key, of an element whose type is
\* not supported, or of a body that was refused.
ShownWasSent ==
    \A g \in GetRequest : getPc[g] = "done" /\ answer[g].err = "NONE" =>
       \E r \in Request : \E i \in 1..Len(body[r].puts) :
          LET p == body[r].puts[i] IN
          /\ Accepted(body[r]) /\ p.type \in {"xml", "json"}
          /\ getUuid[g] \in KeyChoice(p)
          /\ answer[g].shows.type = p.type /\ answer[g].shows.content = p.value

\* While the process runs, every step of the service is one of GetEndpoint's
\* specification: what that module supposes the storage server does to a key
\* ("a record is never replaced, only removed") is what the POSTs do.
GetsImplemented ==
    [][restarts' = restarts => G!Next \/ UNCHANGED G!vars]_serviceVars

\* A POST is answered, or lost with its process; a GET is answered, or cut off
\* when its process is killed.
RequestsEnd ==
    /\ \A r \in Request : pc[r] = "read" ~> pc[r] \in {"done", "lost"}
    /\ \A g \in GetRequest : getPc[g] = "parse" ~> getPc[g] \in {"done", "idle"}
=============================================================================
