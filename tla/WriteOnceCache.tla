--------------------------- MODULE WriteOnceCache ---------------------------
(***************************************************************************)
(* What a storage back-end promises the endpoints of Prebid Cache: a       *)
(* linearizable map in which a key, once written, keeps its value until    *)
(* the whole content is lost.  A call is made, takes effect in one atomic  *)
(* step somewhere between the call and its return, and returns.            *)
(*                                                                         *)
(* There is no code for this module: it is the abstract specification that *)
(* MemoryBackend is shown to implement.                                    *)
(***************************************************************************)
CONSTANTS Client,   \* the goroutines that call the back-end
          Key,      \* the keys they use
          Value,    \* the values they store
          NoValue   \* stands for the absence of a value

\* The two operations of the interface backends.Backend.
Get(k)    == [op |-> "get", key |-> k, value |-> NoValue]
Put(k, v) == [op |-> "put", key |-> k, value |-> v]
Operation == {Get(k) : k \in Key} \cup {Put(k, v) : k \in Key, v \in Value}

\* What an operation answers: an error type, or a value that was read.
Result == {[type |-> t, value |-> NoValue] :
              t \in {"NONE", "STORED", "RECORD_EXISTS", "KEY_NOT_FOUND"}}
          \cup {[type |-> "FOUND", value |-> v] : v \in Value}
NoResult == [type |-> "NONE", value |-> NoValue]

VARIABLES cache,    \* the content
          phase,    \* where each client's call stands
          request,  \* what each client asked for last
          result    \* what each client's last call answered

vars == <<cache, phase, request, result>>

TypeOK ==
    /\ cache \in [Key -> Value \cup {NoValue}]
    /\ phase \in [Client -> {"idle", "called", "effected"}]
    /\ request \in [Client -> Operation]
    /\ result \in [Client -> Result]

Empty == [k \in Key |-> NoValue]

Init ==
    /\ cache = Empty
    /\ phase = [c \in Client |-> "idle"]
    /\ request \in [Client -> Operation]
    /\ result = [c \in Client |-> NoResult]

Call(c) ==
    /\ phase[c] = "idle"
    /\ \E q \in Operation : request' = [request EXCEPT ![c] = q]
    /\ phase' = [phase EXCEPT ![c] = "called"]
    /\ result' = [result EXCEPT ![c] = NoResult]
    /\ UNCHANGED cache

\* What operation q answers when the content is m, and the content it leaves.
Answer(m, q) ==
    IF q.op = "get"
    THEN IF m[q.key] = NoValue THEN [type |-> "KEY_NOT_FOUND", value |-> NoValue]
                               ELSE [type |-> "FOUND", value |-> m[q.key]]
    ELSE IF m[q.key] = NoValue THEN [type |-> "STORED", value |-> NoValue]
                               ELSE [type |-> "RECORD_EXISTS", value |-> NoValue]
After(m, q) ==
    IF q.op = "put" /\ m[q.key] = NoValue THEN [m EXCEPT ![q.key] = q.value] ELSE m

Effect(c) ==
    /\ phase[c] = "called"
    /\ cache' = After(cache, request[c])
    /\ result' = [result EXCEPT ![c] = Answer(cache, request[c])]
    /\ phase' = [phase EXCEPT ![c] = "effected"]
    /\ UNCHANGED request

Return(c) ==
    /\ phase[c] = "effected"
    /\ phase' = [phase EXCEPT ![c] = "idle"]
    /\ UNCHANGED <<cache, request, result>>

\* The content and the calls in flight disappear together.
LoseAll ==
    /\ cache' = Empty
    /\ phase' = [c \in Client |-> "idle"]
    /\ result' = [c \in Client |-> NoResult]
    /\ UNCHANGED request

Next == LoseAll \/ \E c \in Client : Call(c) \/ Effect(c) \/ Return(c)

Spec == Init /\ [][Next]_vars
=============================================================================
