---------------------------- MODULE ServerShutdown ----------------------------
(***************************************************************************)
(* The process around the endpoints (server/server.go, server/listener.go).*)
(*                                                                         *)
(* Listen binds a socket per server, starts the servers, and waits for a   *)
(* signal of the operating system.  Every server has a goroutine that      *)
(* waits on a channel of its own, shuts the server down within ten seconds *)
(* and reports on the channel "done", which Listen reads once per server   *)
(* before it returns and the process ends.  All channels are unbuffered:   *)
(* a send and its receive are one step.                                    *)
(*                                                                         *)
(* Of net/http, whose code is not part of the repository, the module has   *)
(* what Listen relies on: Serve, Shutdown, and the connections, whose      *)
(* monitorableConnection keeps the number of active ones.                  *)
(***************************************************************************)
EXTENDS Integers, Sequences, FiniteSets

CONSTANTS Order,        \* the servers, in the order Listen binds them
          Connection,
          NoServer,
          MaxSignals    \* bound: signals the operating system sends

Server == {Order[i] : i \in DOMAIN Order}
N == Len(Order)

\* The two servers every process has, and the optional third.
ASSUME ServerAssumption ==
    /\ Order \in {<<"Main", "Admin">>, <<"Main", "Admin", "Prometheus">>}
    /\ NoServer \notin Server
    /\ IsFiniteSet(Connection)
    /\ MaxSignals \in Nat

VARIABLES
    pc,        \* the statement Listen executes next
    bound,     \* how many sockets are bound
    serve,     \* runServer's goroutine of each server
    stopper,   \* shutdownAfterSignals' goroutine of each server
    sender,    \* sendSignal's goroutine of each server
    timedOut,  \* the servers whose Shutdown ended with its deadline
    joined,    \* how often Listen has received from "done"
    conn,      \* the state of each connection
    home,      \* the server that accepted it
    active,    \* the metric ActiveConnections
    signals    \* how many signals were sent

listenVars == <<pc, bound, joined>>
stopVars   == <<stopper, sender, timedOut>>
connVars   == <<conn, home, active>>
vars == <<listenVars, serve, stopVars, connVars, signals>>

TypeOK ==
    /\ pc \in {"start", "bind", "wait", "join", "return", "exited"}
    /\ bound \in 0..N /\ joined \in 0..N
    /\ serve \in [Server -> {"none", "spawned", "serving", "quit"}]
    /\ stopper \in [Server -> {"blocked", "shutdown", "sending", "ended"}]
    /\ sender \in [Server -> {"none", "sending", "sent"}]
    /\ timedOut \subseteq Server
    /\ conn \in [Connection -> {"none", "idle", "active", "cut", "gone", "unclosed"}]
    /\ home \in [Connection -> Server \cup {NoServer}]
    /\ active \in Nat
    /\ signals \in 0..MaxSignals

Init ==
    /\ pc = "start" /\ bound = 0 /\ joined = 0
    /\ serve = [s \in Server |-> "none"]
    /\ stopper = [s \in Server |-> "blocked"]
    /\ sender = [s \in Server |-> "none"]
    /\ timedOut = {}
    /\ conn = [c \in Connection |-> "none"]
    /\ home = [c \in Connection |-> NoServer]
    /\ active = 0
    /\ signals = 0

Running == pc # "exited"
-----------------------------------------------------------------------------
(* Listen. *)

\* signal.Notify(stopSignals, ...)
Notify ==
    /\ pc = "start"
    /\ pc' = "bind"
    /\ UNCHANGED <<bound, joined, serve, stopVars, connVars, signals>>

\* The servers whose runServer starts once the n-th socket is bound: the main
\* one and the admin one start together.
Started(n) == IF n = 1 THEN {} ELSE IF n = 2 THEN {Order[1], Order[2]} ELSE {Order[n]}

\* newListener succeeds.
Bind ==
    /\ pc = "bind"
    /\ bound' = bound + 1
    /\ serve' = [s \in Server |-> IF s \in Started(bound + 1) THEN "spawned" ELSE serve[s]]
    /\ pc' = IF bound + 1 = N THEN "wait" ELSE "bind"
    /\ UNCHANGED <<joined, stopVars, connVars, signals>>

\* newListener fails: Listen returns, whatever it has started.
BindFails ==
    /\ pc = "bind"
    /\ pc' = "return"
    /\ UNCHANGED <<bound, joined, serve, stopVars, connVars, signals>>

\* A SIGTERM or SIGINT.  Before signal.Notify it ends the process; afterwards
\* it is sent to stopSignals without waiting, so that it is lost unless Listen
\* is receiving; wait then starts one sendSignal per server.
OSSignal ==
    /\ Running /\ signals < MaxSignals
    /\ signals' = signals + 1
    /\ \/ /\ pc = "start"
          /\ pc' = "exited"
          /\ UNCHANGED sender
       \/ /\ pc = "wait"
          /\ pc' = "join"
          /\ sender' = [s \in Server |-> "sending"]
       \/ /\ pc \notin {"start", "wait"}
          /\ UNCHANGED <<pc, sender>>
    /\ UNCHANGED <<bound, joined, serve, stopper, timedOut, connVars>>

\* A wait that is content with one server.
DoneOnce(s) ==
    /\ pc = "join" /\ stopper[s] = "sending"
    /\ stopper' = [stopper EXCEPT ![s] = "ended"]
    /\ joined' = joined + 1
    /\ pc' = "return"
    /\ UNCHANGED <<bound, serve, sender, timedOut, connVars, signals>>

\* done <- s meets <-done
Done(s) ==
    /\ pc = "join" /\ stopper[s] = "sending"
    /\ stopper' = [stopper EXCEPT ![s] = "ended"]
    /\ joined' = joined + 1
    /\ pc' = IF joined + 1 = N THEN "return" ELSE "join"
    /\ UNCHANGED <<bound, serve, sender, timedOut, connVars, signals>>

\* Listen returns to main, which ends the process and all its goroutines.
Exit ==
    /\ pc = "return"
    /\ pc' = "exited"
    /\ UNCHANGED <<bound, joined, serve, stopVars, connVars, signals>>
-----------------------------------------------------------------------------
(* The servers. *)

ShuttingDown(s) == stopper[s] # "blocked"

\* runServer calls Serve, which refuses to start once Shutdown was called.
Serve(s) ==
    /\ Running /\ serve[s] = "spawned"
    /\ serve' = [serve EXCEPT ![s] = IF ShuttingDown(s) THEN "quit" ELSE "serving"]
    /\ UNCHANGED <<listenVars, stopVars, connVars, signals>>

\* Serve returns: its listener was closed, or failed for good.  runServer logs
\* it and ends; the process stays.
ServeReturns(s) ==
    /\ Running /\ serve[s] = "serving"
    /\ serve' = [serve EXCEPT ![s] = "quit"]
    /\ UNCHANGED <<listenVars, stopVars, connVars, signals>>

\* to <- sig meets <-stopper: Shutdown begins and closes the listeners.
Alert(s) ==
    /\ Running /\ sender[s] = "sending" /\ stopper[s] = "blocked"
    /\ sender' = [sender EXCEPT ![s] = "sent"]
    /\ stopper' = [stopper EXCEPT ![s] = "shutdown"]
    /\ UNCHANGED <<listenVars, serve, timedOut, connVars, signals>>

Open(s) == {c \in Connection : home[c] = s /\ conn[c] \in {"idle", "active"}}

\* Shutdown finds no connection of the server left.
ShutdownEnds(s) ==
    /\ Running /\ stopper[s] = "shutdown"
    /\ Open(s) = {}
    /\ stopper' = [stopper EXCEPT ![s] = "sending"]
    /\ UNCHANGED <<listenVars, serve, sender, timedOut, connVars, signals>>

\* A Shutdown whose context has no deadline: it ends with the connections.
ShutdownWithoutDeadline(s) ==
    /\ Running /\ stopper[s] = "shutdown"
    /\ \E c \in Connection : home[c] = s
    /\ Open(s) = {}
    /\ stopper' = [stopper EXCEPT ![s] = "sending"]
    /\ timedOut' = timedOut \cup {s}
    /\ UNCHANGED <<listenVars, serve, sender, connVars, signals>>

\* The ten seconds pass before Shutdown has found that.
ShutdownTimesOut(s) ==
    /\ Running /\ stopper[s] = "shutdown"
    /\ \E c \in Connection : home[c] = s
    /\ stopper' = [stopper EXCEPT ![s] = "sending"]
    /\ timedOut' = timedOut \cup {s}
    /\ UNCHANGED <<listenVars, serve, sender, connVars, signals>>
-----------------------------------------------------------------------------
(* The connections. *)

\* Only the main server's listener is a monitorableListener.
Gauge(s, change) == active' = IF s = "Main" THEN active + change ELSE active

\* A client connects and Accept returns the connection.
Accept(c, s) ==
    /\ Running /\ serve[s] = "serving" /\ ~ShuttingDown(s)
    /\ conn[c] = "none"
    /\ conn' = [conn EXCEPT ![c] = "idle"]
    /\ home' = [home EXCEPT ![c] = s]
    /\ Gauge(s, 1)
    /\ UNCHANGED <<listenVars, serve, stopVars, signals>>

\* A request arrives on a connection.
BeginRequest(c) ==
    /\ Running /\ conn[c] = "idle"
    /\ conn' = [conn EXCEPT ![c] = "active"]
    /\ UNCHANGED <<listenVars, serve, stopVars, home, active, signals>>

\* It is answered, and the connection kept for the next one.
EndRequest(c) ==
    /\ Running /\ conn[c] = "active" /\ ~ShuttingDown(home[c])
    /\ conn' = [conn EXCEPT ![c] = "idle"]
    /\ UNCHANGED <<listenVars, serve, stopVars, home, active, signals>>

\* The connection's goroutine closes it: the request was its last, or the
\* client has left.
Close(c) ==
    /\ Running /\ conn[c] \in {"idle", "active"}
    /\ conn' = [conn EXCEPT ![c] = "gone"]
    /\ Gauge(home[c], -1)
    /\ UNCHANGED <<home, listenVars, serve, stopVars, signals>>

\* Either one's Close fails: an error is counted, and net/http has forgotten the
\* connection all the same.  Another Close of it fails as well.
CloseFails(c) ==
    /\ Running
    /\ conn[c] \in {"idle", "active"}
    /\ conn' = [conn EXCEPT ![c] = "unclosed"]
    /\ UNCHANGED <<home, active, listenVars, serve, stopVars, signals>>

\* Shutdown closes an idle connection.
CloseIdle(c) ==
    /\ Running /\ conn[c] = "idle" /\ stopper[home[c]] = "shutdown"
    /\ conn' = [conn EXCEPT ![c] = "cut"]
    /\ Gauge(home[c], -1)
    /\ UNCHANGED <<home, listenVars, serve, stopVars, signals>>

\* A monitorableConnection.Close that counts whether or not it closed anything.
CloseAgainCounted(c) ==
    /\ Running /\ conn[c] = "cut"
    /\ conn' = [conn EXCEPT ![c] = "gone"]
    /\ Gauge(home[c], -1)
    /\ UNCHANGED <<home, listenVars, serve, stopVars, signals>>

\* The goroutine of a connection that Shutdown has closed closes it again: that
\* fails, and counts as an error instead.
CloseAgain(c) ==
    /\ Running /\ conn[c] = "cut"
    /\ conn' = [conn EXCEPT ![c] = "gone"]
    /\ UNCHANGED <<home, active, listenVars, serve, stopVars, signals>>

Listen == Notify \/ Bind \/ BindFails \/ Exit
Stop(s) == Alert(s) \/ ShutdownEnds(s) \/ ShutdownTimesOut(s) \/ Done(s)
Connected(c) == \/ BeginRequest(c) \/ EndRequest(c)
                \/ Close(c) \/ CloseFails(c) \/ CloseIdle(c) \/ CloseAgain(c)

\* A process that waits for a signal may wait for ever.
Idle == pc \in {"wait", "exited"} /\ UNCHANGED vars

Next == \/ Listen \/ OSSignal \/ Idle
        \/ \E s \in Server : Serve(s) \/ ServeReturns(s) \/ Stop(s)
        \/ \E c \in Connection : Connected(c) \/ \E s \in Server : Accept(c, s)

Spec == Init /\ [][Next]_vars

\* Goroutines that can run eventually run and Shutdown's deadline passes.
\* Neither clients nor the operating system owe the process anything.
Fairness == /\ WF_vars(Listen)
            /\ \A s \in Server : WF_vars(Serve(s)) /\ WF_vars(Stop(s))
            /\ \A c \in Connection : WF_vars(CloseIdle(c)) /\ WF_vars(CloseAgain(c))

FairSpec == Spec /\ Fairness
-----------------------------------------------------------------------------
(* Properties. *)

Alerted == \A s \in Server : sender[s] # "none"

\* A process that ends because of a signal has shut every server down, and cuts
\* a request off only if it outlasted its server's ten seconds.
GracefulExit ==
    pc = "exited" /\ Alerted =>
       \A s \in Server : /\ stopper[s] = "ended"
                         /\ Open(s) # {} => s \in timedOut

\* The connections of a server that no Close has succeeded for.
NotClosed(s) == {c \in Connection : home[c] = s /\ conn[c] \in {"idle", "active", "unclosed"}}

\* The metric is the number of the main server's connections that were not
\* closed, although Shutdown and a connection's own goroutine can both close it,
\* and either can fail.
GaugeIsOpenConnections == active = Cardinality(NotClosed("Main"))

\* A signal that Listen receives ends the process.
ReceivedSignalEndsProcess == pc = "join" ~> pc = "exited"

\* "Listen serves requests and blocks forever, until OS signals shut down the
\* process" (server.go:22): a signal ends the process.
SignalEndsProcess == signals > 0 ~> pc = "exited"
=============================================================================
