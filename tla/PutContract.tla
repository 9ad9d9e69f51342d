----------------------------- MODULE PutContract -----------------------------
(***************************************************************************)
(* What POST /cache promises its clients, without handlers, pools,         *)
(* goroutines, client libraries or a network.  A request asks for some     *)
(* elements to be stored.  They are stored one by one, each under one key  *)
(* that is free, and may be even after the answer.  A request is answered  *)
(* at most once, and the answer is a commit: a uuid it shows is a key that *)
(* holds the element, or held it until the record was gone.                *)
(*                                                                         *)
(* There is no code for this module: it is the abstract specification that *)
(* PutEndpoint is shown to implement.                                      *)
(***************************************************************************)
EXTENDS Integers, Sequences

CONSTANTS Request,   \* the POST requests
          Key,       \* the keys of the cache
          NoKey,     \* the uuid of an element whose key was taken
          Batch,     \* what a request may ask for: sequences of elements
          MaxTTL,    \* the longest time a record may live, in seconds
          NoRecord

VARIABLES content,   \* the record of each key
          gone,      \* the keys that have lost a record
          phase,     \* where each request stands
          asked,     \* the elements each request asks for
          answer     \* the error and the uuids each request is answered with

vars == <<content, gone, phase, asked, answer>>

NoAnswer == [err |-> "NONE", uuids |-> <<>>]

Init ==
    /\ content = [k \in Key |-> NoRecord]
    /\ gone = {}
    /\ phase = [r \in Request |-> "idle"]
    /\ asked = [r \in Request |-> <<>>]
    /\ answer = [r \in Request |-> NoAnswer]

Ask(r) ==
    /\ phase[r] = "idle"
    /\ phase' = [phase EXCEPT ![r] = "asked"]
    /\ \E b \in Batch : asked' = [asked EXCEPT ![r] = b]
    /\ UNCHANGED <<content, gone, answer>>

\* Record x is what element p of a request asks for.
Fulfils(x, p) ==
    /\ x.payload = [type |-> p.type, value |-> p.value]
    /\ x.ttl \in 1..MaxTTL
    /\ p.ttl > 0 => x.ttl <= p.ttl

Holds(k, r, i) == content[k] # NoRecord /\ content[k].by = <<r, i>>

\* Element i of r is stored under k, a free key and the only one that has it.
Store(r, i, k) ==
    /\ phase[r] # "idle" /\ i \in 1..Len(asked[r])
    /\ content[k] = NoRecord
    /\ \A j \in Key : ~Holds(j, r, i)
    /\ content' = [content EXCEPT ![k] = content'[k]]
    /\ Holds(k, r, i)'
    /\ Fulfils(content'[k], asked[r][i])
    /\ UNCHANGED <<gone, phase, asked, answer>>

\* The records of K expire, are evicted, or are lost with the process that held them.
Drop(K) ==
    /\ \A k \in K : content[k] # NoRecord
    /\ content' = [k \in Key |-> IF k \in K THEN NoRecord ELSE content[k]]
    /\ gone' = gone \cup K
    /\ UNCHANGED <<phase, asked, answer>>

\* An answer without an error, with a uuid for each element.
Commits(r) ==
    /\ answer'[r].err = "NONE"
    /\ Len(answer'[r].uuids) = Len(asked[r])
    /\ \A i \in 1..Len(asked[r]) :
          LET k == answer'[r].uuids[i] IN
             \/ k = NoKey
             \/ k \in Key /\ (k \in gone \/ Holds(k, r, i))

Reply(r) ==
    /\ phase[r] = "asked"
    /\ phase' = [phase EXCEPT ![r] = "answered"]
    /\ answer' = [answer EXCEPT ![r] = answer'[r]]
    /\ answer'[r].err # "NONE" \/ Commits(r)
    /\ UNCHANGED <<content, gone, asked>>

Next == \/ \E r \in Request : Ask(r) \/ Reply(r)
        \/ \E r \in Request, k \in Key : \E i \in 1..Len(asked[r]) : Store(r, i, k)
        \/ \E K \in SUBSET Key : Drop(K)

Spec == Init /\ [][Next]_vars
=============================================================================
