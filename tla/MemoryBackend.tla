---------------------------- MODULE MemoryBackend ----------------------------
(***************************************************************************)
(* The in-memory back-end (backends/memory.go): a Go map behind one mutex. *)
(* The put goroutines and the get handlers call it concurrently.  Every    *)
(* access of the map is a step of its own, so that a call can be preempted *)
(* between the look-up that finds a key absent and the write that relies   *)
(* on it.                                                                  *)
(***************************************************************************)
EXTENDS Naturals, FiniteSets

CONSTANTS Client, Key, Value, NoValue,
          NoClient      \* value of the mutex while nobody holds it

ASSUME MemoryAssumption == NoClient \notin Client /\ NoValue \notin Value

VARIABLES db,        \* MemoryBackend.db
          mu,        \* MemoryBackend.mu: the client that holds it
          pc,        \* the statement each client executes next
          request,   \* the arguments of each client's current call
          result     \* the error type, or the value, its call returns

vars == <<db, mu, pc, request, result>>

\* The promise this module is to keep: a call counts as done from the step
\* that decides its answer on.
Phase(label) == IF label = "idle" THEN "idle"
                ELSE IF label \in {"lock", "lookup", "store"} THEN "called" ELSE "effected"
Promise == INSTANCE WriteOnceCache
    WITH cache <- db, phase <- [c \in Client |-> Phase(pc[c])]

Operation == Promise!Operation

TypeOK ==
    /\ db \in [Key -> Value \cup {NoValue}]
    /\ mu \in Client \cup {NoClient}
    /\ pc \in [Client -> {"idle", "lock", "lookup", "store", "unlock", "return"}]
    /\ request \in [Client -> Operation]
    /\ result \in [Client -> Promise!Result]

\* NewMemoryBackend: an empty map and an unlocked mutex.
Init ==
    /\ db = [k \in Key |-> NoValue]
    /\ mu = NoClient
    /\ pc = [c \in Client |-> "idle"]
    /\ request \in [Client -> Operation]
    /\ result = [c \in Client |-> Promise!NoResult]

Goto(c, label) == pc' = [pc EXCEPT ![c] = label]
Answers(c, t, v) == result' = [result EXCEPT ![c] = [type |-> t, value |-> v]]

\* A handler enters Get or Put.
Call(c) ==
    /\ pc[c] = "idle"
    /\ \E q \in Operation : request' = [request EXCEPT ![c] = q]
    /\ Answers(c, "NONE", NoValue)
    /\ Goto(c, "lock")
    /\ UNCHANGED <<db, mu>>

\* The mutex taken without looking whether it is free.
UnguardedLock(c) ==
    /\ pc[c] = "lock"
    /\ mu' = c
    /\ Goto(c, "lookup")
    /\ UNCHANGED <<db, request, result>>

\* b.mu.Lock()
Lock(c) ==
    /\ pc[c] = "lock"
    /\ mu = NoClient
    /\ mu' = c
    /\ Goto(c, "lookup")
    /\ UNCHANGED <<db, request, result>>

\* A Get that returns whatever the map gives for a key it does not hold.
UncheckedGetLookup(c) ==
    /\ pc[c] = "lookup"
    /\ request[c].op = "get"
    /\ Answers(c, "FOUND", db[request[c].key])
    /\ Goto(c, "unlock")
    /\ UNCHANGED <<db, mu, request>>

\* v, ok := b.db[key] in Get
GetLookup(c) ==
    /\ pc[c] = "lookup"
    /\ request[c].op = "get"
    /\ \/ /\ db[request[c].key] = NoValue
          /\ Answers(c, "KEY_NOT_FOUND", NoValue)
       \/ /\ db[request[c].key] # NoValue
          /\ Answers(c, "FOUND", db[request[c].key])
    /\ Goto(c, "unlock")
    /\ UNCHANGED <<db, mu, request>>

\* A Put that gives the mutex up once it knows that the key is absent.
ReleasingPutLookup(c) ==
    /\ pc[c] = "lookup"
    /\ request[c].op = "put"
    /\ \/ /\ db[request[c].key] # NoValue
          /\ Answers(c, "RECORD_EXISTS", NoValue)
          /\ Goto(c, "unlock")
          /\ UNCHANGED mu
       \/ /\ db[request[c].key] = NoValue
          /\ Goto(c, "store")
          /\ mu' = NoClient
          /\ UNCHANGED result
    /\ UNCHANGED <<db, request>>

\* A Put whose test for an existing record is dropped.
OverwritingPutLookup(c) ==
    /\ pc[c] = "lookup"
    /\ request[c].op = "put"
    /\ Goto(c, "store")
    /\ UNCHANGED <<db, mu, request, result>>

\* if _, ok := b.db[key]; ok in Put
PutLookup(c) ==
    /\ pc[c] = "lookup"
    /\ request[c].op = "put"
    /\ \/ /\ db[request[c].key] # NoValue
          /\ Answers(c, "RECORD_EXISTS", NoValue)
          /\ Goto(c, "unlock")
       \/ /\ db[request[c].key] = NoValue
          /\ Goto(c, "store")
          /\ UNCHANGED result
    /\ UNCHANGED <<db, mu, request>>

\* b.db[key] = value
Store(c) ==
    /\ pc[c] = "store"
    /\ db' = [db EXCEPT ![request[c].key] = request[c].value]
    /\ Answers(c, "STORED", NoValue)
    /\ Goto(c, "unlock")
    /\ UNCHANGED <<mu, request>>

\* An early return that leaves the mutex locked.
ForgetfulUnlock(c) ==
    /\ pc[c] = "unlock"
    /\ mu' = IF result[c].type = "RECORD_EXISTS" THEN mu ELSE NoClient
    /\ Goto(c, "return")
    /\ UNCHANGED <<db, request, result>>

\* The deferred b.mu.Unlock()
Unlock(c) ==
    /\ pc[c] = "unlock"
    /\ mu' = NoClient
    /\ Goto(c, "return")
    /\ UNCHANGED <<db, request, result>>

Return(c) ==
    /\ pc[c] = "return"
    /\ Goto(c, "idle")
    /\ UNCHANGED <<db, mu, request, result>>

\* The process ends and a new one runs NewMemoryBackend: "Stored data
\* dissapears upon Prebid Cache restart" (memory.go:11).
Restart ==
    /\ db' = [k \in Key |-> NoValue]
    /\ mu' = NoClient
    /\ pc' = [c \in Client |-> "idle"]
    /\ result' = [c \in Client |-> Promise!NoResult]
    /\ UNCHANGED request

Step(c) == \/ Lock(c) \/ GetLookup(c) \/ PutLookup(c) \/ Store(c)
           \/ Unlock(c) \/ Return(c)

Next == Restart \/ \E c \in Client : Call(c) \/ Step(c)

\* A goroutine that can run eventually runs.  sync.Mutex hands itself to a
\* waiter that has been starved for a millisecond, so a waiter gets the mutex
\* although it is free only from time to time: strong fairness of Lock.
Fairness == \A c \in Client : WF_vars(Step(c)) /\ SF_vars(Lock(c))

Spec     == Init /\ [][Next]_vars
FairSpec == Spec /\ Fairness
-----------------------------------------------------------------------------
\* No two goroutines access the map at the same time (Go leaves concurrent map
\* access undefined): only the holder of b.mu is between Lock and Unlock.
NoDataRace == \A c \in Client : pc[c] \in {"lookup", "store", "unlock"} => mu = c

\* The look-up a Put relies on is not stale when it writes: the key it found
\* absent is still absent.
AbsentWhenStoring == \A c \in Client : pc[c] = "store" => db[request[c].key] = NoValue

\* Calls are linearizable: the code with its mutex behaves like the atomic
\* write-once cache, whatever the goroutines' interleaving.
Linearizable == Promise!Spec

\* Every Get and Put returns: no path leaves the mutex locked.
CallsReturn == \A c \in Client : pc[c] = "lock" ~> pc[c] = "idle"
=============================================================================
