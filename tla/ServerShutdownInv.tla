--------------------------- MODULE ServerShutdownInv ---------------------------
(***************************************************************************)
(* The inductive invariant of ServerShutdown: TLC checks it on the small   *)
(* instances, ServerShutdownProofs proves it for all.                      *)
(***************************************************************************)
EXTENDS ServerShutdown

Ended == {s \in Server : stopper[s] = "ended"}

\* Listen counts the servers that have reported, and starts the senders when
\* it stops waiting.
Joining ==
    /\ joined = Cardinality(Ended)
    /\ pc \in {"start", "bind", "wait"} =>
          joined = 0 /\ \A s \in Server : sender[s] = "none"
    /\ pc \in {"return", "exited"} => joined = N \/ \A s \in Server : sender[s] = "none"
    /\ pc = "join" => joined < N
    /\ pc \in {"start", "bind"} => bound < N

\* A server that was shut down in time has no connection left.
Closed ==
    \A s \in Server :
       stopper[s] \in {"sending", "ended"} => s \in timedOut \/ Open(s) = {}

\* An accepted connection has a server.
Homes == \A c \in Connection : conn[c] # "none" => home[c] \in Server

Inv == TypeOK /\ Joining /\ Closed /\ Homes /\ GaugeIsOpenConnections
=============================================================================
