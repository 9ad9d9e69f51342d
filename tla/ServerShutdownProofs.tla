------------------------- MODULE ServerShutdownProofs -------------------------
(***************************************************************************)
(* For both sets of servers and any number of connections and signals: a   *)
(* signal ends the process gracefully, and the metric of the active        *)
(* connections is exact.                                                   *)
(***************************************************************************)
EXTENDS ServerShutdownInv, FiniteSetTheorems, TLAPS

LEMMA TwoServers ==
    /\ IsFiniteSet({"Main"} \cup {"Admin"})
    /\ Cardinality({"Main"} \cup {"Admin"}) = 2
<1>1. IsFiniteSet({"Main"}) /\ Cardinality({"Main"}) = 1
  BY FS_Singleton
<1>2. "Admin" \notin {"Main"}
  OBVIOUS
<1> QED
  BY <1>1, <1>2, FS_AddElement

LEMMA Servers ==
    /\ IsFiniteSet(Server) /\ Cardinality(Server) = N /\ N \in {2, 3}
    /\ "Main" \in Server
    /\ \A n \in 1..N : Started(n) \subseteq Server
<1>1. CASE Order = <<"Main", "Admin">>
  <2>1. Server = {"Main"} \cup {"Admin"} /\ N = 2
    BY <1>1 DEF Server, N
  <2>2. IsFiniteSet(Server) /\ Cardinality(Server) = 2
    BY <2>1, TwoServers
  <2> QED
    BY <1>1, <2>1, <2>2 DEF Started
<1>2. CASE Order = <<"Main", "Admin", "Prometheus">>
  <2>1. Server = ({"Main"} \cup {"Admin"}) \cup {"Prometheus"} /\ N = 3
    BY <1>2 DEF Server, N
  <2>2. "Prometheus" \notin {"Main"} \cup {"Admin"}
    OBVIOUS
  <2>3. IsFiniteSet(Server) /\ Cardinality(Server) = 2 + 1
    BY <2>1, <2>2, TwoServers, FS_AddElement
  <2> QED
    BY <1>2, <2>1, <2>3 DEF Started
<1> QED
  BY <1>1, <1>2, ServerAssumption

LEMMA FiniteParts ==
    /\ IsFiniteSet(Ended) /\ Cardinality(Ended) \in 0..N
    /\ \A s : IsFiniteSet(NotClosed(s)) /\ Cardinality(NotClosed(s)) \in Nat
<1>1. IsFiniteSet(Ended) /\ Cardinality(Ended) \in Nat /\ Cardinality(Ended) <= N
  BY Servers, FS_Subset, FS_CardinalityType DEF Ended
<1>2. ASSUME NEW s PROVE IsFiniteSet(NotClosed(s)) /\ Cardinality(NotClosed(s)) \in Nat
  BY ServerAssumption, FS_Subset, FS_CardinalityType DEF NotClosed
<1> QED
  BY <1>1, <1>2, Servers

-----------------------------------------------------------------------------
(* The steps, by what they change. *)

LEMMA Cases ==
    ASSUME [Next]_vars
    PROVE  \/ Listen \/ OSSignal \/ UNCHANGED vars
           \/ \E s \in Server : Serve(s) \/ ServeReturns(s) \/ Stop(s)
           \/ \E c \in Connection : Connected(c)
           \/ \E c \in Connection, s \in Server : Accept(c, s)
BY DEF Next, Idle, vars

\* The number of connections of the main server not closed follows the metric.
LEMMA GaugeStep == Inv /\ [Next]_vars => GaugeIsOpenConnections' /\ active' \in Nat
<1> SUFFICES ASSUME Inv, [Next]_vars PROVE GaugeIsOpenConnections'
  <2>1. IsFiniteSet(NotClosed("Main")') /\ Cardinality(NotClosed("Main")') \in Nat
    BY ServerAssumption, FS_Subset, FS_CardinalityType DEF NotClosed
  <2> QED
    BY <2>1 DEF GaugeIsOpenConnections
<1> DEFINE M == NotClosed("Main")
<1>0. TypeOK /\ Homes /\ active = Cardinality(M) /\ IsFiniteSet(M) /\ active \in Nat
  BY FiniteParts DEF Inv, GaugeIsOpenConnections
<1>1. CASE UNCHANGED connVars
  BY <1>0, <1>1 DEF connVars, GaugeIsOpenConnections, NotClosed
<1>2. ASSUME NEW c \in Connection, NEW s \in Server, Accept(c, s)
      PROVE  GaugeIsOpenConnections'
  <2>1. CASE s = "Main"
    <3>1. NotClosed("Main")' = M \cup {c} /\ c \notin M /\ active' = active + 1
      BY <1>0, <1>2, <2>1 DEF Accept, Gauge, NotClosed, TypeOK
    <3> QED
      BY <1>0, <3>1, FS_AddElement DEF GaugeIsOpenConnections
  <2>2. CASE s # "Main"
    <3>1. NotClosed("Main")' = M /\ active' = active
      BY <1>0, <1>2, <2>2 DEF Accept, Gauge, NotClosed, TypeOK
    <3> QED
      BY <1>0, <3>1 DEF GaugeIsOpenConnections
  <2> QED
    BY <2>1, <2>2
<1>3. ASSUME NEW c \in Connection,
             BeginRequest(c) \/ EndRequest(c) \/ CloseFails(c) \/ CloseAgain(c)
      PROVE  GaugeIsOpenConnections'
  <2>1. NotClosed("Main")' = M /\ active' = active
    BY <1>0, <1>3 DEF BeginRequest, EndRequest, CloseFails, CloseAgain, NotClosed, TypeOK
  <2> QED
    BY <1>0, <2>1 DEF GaugeIsOpenConnections
<1>4. ASSUME NEW c \in Connection, Close(c) \/ CloseIdle(c) PROVE GaugeIsOpenConnections'
  <2>1. CASE home[c] = "Main"
    <3>1. NotClosed("Main")' = M \ {c} /\ c \in M /\ active' = active + -1
      BY <1>0, <1>4, <2>1 DEF Close, CloseIdle, Gauge, NotClosed, TypeOK
    <3> QED
      BY <1>0, <3>1, FS_RemoveElement DEF GaugeIsOpenConnections
  <2>2. CASE home[c] # "Main"
    <3>1. NotClosed("Main")' = M /\ active' = active
      BY <1>0, <1>4, <2>2 DEF Close, CloseIdle, Gauge, NotClosed, TypeOK
    <3> QED
      BY <1>0, <3>1 DEF GaugeIsOpenConnections
  <2> QED
    BY <2>1, <2>2
<1>5. CASE Listen \/ OSSignal \/ UNCHANGED vars
  BY <1>1, <1>5 DEF Listen, Notify, Bind, BindFails, Exit, OSSignal, vars
<1>6. ASSUME NEW s \in Server, Serve(s) \/ ServeReturns(s) \/ Stop(s)
      PROVE  GaugeIsOpenConnections'
  BY <1>1, <1>6 DEF Serve, ServeReturns, Stop, Alert, ShutdownEnds, ShutdownTimesOut, Done
<1> QED
  BY <1>2, <1>3, <1>4, <1>5, <1>6, Cases DEF Connected

LEMMA TypeStep == Inv /\ [Next]_vars => TypeOK'
<1> SUFFICES ASSUME Inv, [Next]_vars PROVE TypeOK'
  OBVIOUS
<1>0. TypeOK /\ active' \in Nat
  BY GaugeStep DEF Inv
<1>1. CASE Listen
  <2>1. CASE Bind
    <3>1. bound + 1 \in 1..N
      BY <1>0, <2>1, Servers DEF Inv, Joining, Bind, TypeOK
    <3>2. serve' \in [Server -> {"none", "spawned", "serving", "quit"}]
      BY <1>0, <2>1 DEF Bind, TypeOK
    <3> QED
      BY <1>0, <2>1, <3>1, <3>2 DEF Bind, TypeOK, stopVars, connVars
  <2>2. CASE Notify \/ BindFails \/ Exit
    BY <1>0, <2>2 DEF Notify, BindFails, Exit, TypeOK, stopVars, connVars
  <2> QED
    BY <1>1, <2>1, <2>2 DEF Listen
<1>2. CASE OSSignal
  BY <1>0, <1>2, ServerAssumption DEF OSSignal, TypeOK, connVars
<1>3. CASE UNCHANGED vars
  BY <1>0, <1>3 DEF vars, TypeOK, listenVars, stopVars, connVars
<1>4. ASSUME NEW s \in Server, Serve(s) \/ ServeReturns(s) PROVE TypeOK'
  BY <1>0, <1>4 DEF Serve, ServeReturns, TypeOK, listenVars, stopVars, connVars
<1>5. ASSUME NEW s \in Server, Stop(s) PROVE TypeOK'
  <2>1. CASE Done(s)
    <3>1. joined + 1 \in 0..N
      BY <1>0, <2>1, Servers DEF Inv, Joining, Done, TypeOK
    <3> QED
      BY <1>0, <2>1, <3>1 DEF Done, TypeOK, connVars
  <2>2. CASE Alert(s) \/ ShutdownEnds(s) \/ ShutdownTimesOut(s)
    BY <1>0, <2>2 DEF Alert, ShutdownEnds, ShutdownTimesOut, TypeOK, listenVars, connVars
  <2> QED
    BY <1>5, <2>1, <2>2 DEF Stop
<1>6. ASSUME NEW c \in Connection, Connected(c) PROVE TypeOK'
  BY <1>0, <1>6 DEF Connected, BeginRequest, EndRequest, Close, CloseFails, CloseIdle, CloseAgain,
     TypeOK, listenVars, stopVars
<1>7. ASSUME NEW c \in Connection, NEW s \in Server, Accept(c, s) PROVE TypeOK'
  BY <1>0, <1>7 DEF Accept, TypeOK, listenVars, stopVars
<1> QED
  BY <1>1, <1>2, <1>3, <1>4, <1>5, <1>6, <1>7, Cases

\* Listen leaves its wait for the servers when all have reported.
LEMMA JoiningStep == Inv /\ [Next]_vars => Joining'
<1> SUFFICES ASSUME Inv, [Next]_vars PROVE Joining'
  OBVIOUS
<1>0. TypeOK /\ Joining /\ IsFiniteSet(Ended)
  BY FiniteParts DEF Inv
<1>1. ASSUME NEW s \in Server, Done(s) PROVE Joining'
  <2>1. Ended' = Ended \cup {s} /\ s \notin Ended
    BY <1>0, <1>1 DEF Done, Ended, TypeOK
  <2>2. joined' = Cardinality(Ended')
    BY <1>0, <1>1, <2>1, FS_AddElement DEF Done, Joining
  <2>3. joined < N /\ joined \in Nat /\ N \in Nat
    BY <1>0, <1>1, Servers DEF Done, Joining, TypeOK
  <2> QED
    BY <1>0, <1>1, <2>2, <2>3 DEF Done, Joining
<1>2. ASSUME Ended' = Ended, UNCHANGED listenVars, UNCHANGED sender PROVE Joining'
  BY <1>0, <1>2 DEF Joining, listenVars
<1>3. CASE Listen
  <2>1. Ended' = Ended
    BY <1>3 DEF Listen, Notify, Bind, BindFails, Exit, Ended, stopVars
  <2>2. CASE Bind
    <3>1. bound' = bound + 1 /\ bound < N /\ joined' = joined /\ sender' = sender
      BY <1>0, <2>2 DEF Bind, Joining, stopVars
    <3>2. pc = "bind" /\ pc' \in {"wait", "bind"} /\ (pc' = "bind" => bound + 1 # N)
      BY <2>2 DEF Bind
    <3> QED
      BY <1>0, <2>1, <3>1, <3>2, Servers DEF Joining, TypeOK
  <2>3. CASE Notify \/ BindFails \/ Exit
    BY <1>0, <2>1, <2>3 DEF Notify, BindFails, Exit, Joining, stopVars
  <2> QED
    BY <1>3, <2>2, <2>3 DEF Listen
<1>4. CASE OSSignal
  <2>1. Ended' = Ended
    BY <1>4 DEF OSSignal, Ended
  <2>2. pc = "wait" => joined < N
    BY <1>0, <1>4, Servers DEF Joining
  <2> QED
    BY <1>0, <1>4, <2>1, <2>2, Servers DEF OSSignal, Joining, TypeOK
<1>5. CASE UNCHANGED vars
  BY <1>2, <1>5 DEF vars, stopVars, Ended
<1>6. ASSUME NEW s \in Server, Serve(s) \/ ServeReturns(s) PROVE Joining'
  BY <1>2, <1>6 DEF Serve, ServeReturns, stopVars, Ended
<1>7. ASSUME NEW s \in Server, Alert(s) \/ ShutdownEnds(s) \/ ShutdownTimesOut(s)
      PROVE  Joining'
  <2>1. Ended' = Ended /\ UNCHANGED listenVars
    BY <1>0, <1>7 DEF Alert, ShutdownEnds, ShutdownTimesOut, Ended, TypeOK
  <2> QED
    BY <1>0, <1>7, <2>1 DEF Alert, ShutdownEnds, ShutdownTimesOut, Joining, listenVars, TypeOK
<1>8. ASSUME NEW c \in Connection, Connected(c) PROVE Joining'
  BY <1>2, <1>8 DEF Connected, BeginRequest, EndRequest, Close, CloseFails, CloseIdle, CloseAgain,
     stopVars, Ended
<1>9. ASSUME NEW c \in Connection, NEW s \in Server, Accept(c, s) PROVE Joining'
  BY <1>2, <1>9 DEF Accept, stopVars, Ended
<1> QED
  BY <1>1, <1>3, <1>4, <1>5, <1>6, <1>7, <1>8, <1>9, Cases DEF Stop

\* A server that was shut down in time gets no connection.
LEMMA ClosedStep == Inv /\ [Next]_vars => Closed' /\ Homes'
<1> SUFFICES ASSUME Inv, [Next]_vars PROVE Closed' /\ Homes'
  OBVIOUS
<1>0. TypeOK /\ Closed /\ Homes
  BY DEF Inv
<1>1. CASE UNCHANGED <<stopper, timedOut, connVars>>
  BY <1>0, <1>1 DEF connVars, Closed, Homes, Open
<1>2. CASE Listen \/ OSSignal \/ UNCHANGED vars
  BY <1>1, <1>2 DEF Listen, Notify, Bind, BindFails, Exit, OSSignal, vars, stopVars
<1>3. ASSUME NEW s \in Server, Serve(s) \/ ServeReturns(s) PROVE Closed' /\ Homes'
  BY <1>1, <1>3 DEF Serve, ServeReturns, stopVars
<1>4. ASSUME NEW s \in Server, Stop(s) PROVE Closed' /\ Homes'
  <2>1. UNCHANGED connVars
    BY <1>4 DEF Stop, Alert, ShutdownEnds, ShutdownTimesOut, Done
  <2>2. \A t \in Server : Open(t)' = Open(t)
    BY <2>1 DEF Open, connVars
  <2>3. Closed'
    BY <1>0, <1>4, <2>2 DEF Stop, Alert, ShutdownEnds, ShutdownTimesOut, Done, Closed, TypeOK
  <2> QED
    BY <1>0, <2>1, <2>3 DEF Homes, connVars
<1>5. ASSUME NEW c \in Connection, Connected(c) PROVE Closed' /\ Homes'
  <2>1. /\ UNCHANGED <<stopVars, home>>
        /\ \A d \in Connection : conn'[d] \in {"idle", "active"} => conn[d] \in {"idle", "active"}
        /\ \A d \in Connection : conn'[d] # "none" => conn[d] # "none"
    BY <1>0, <1>5 DEF Connected, BeginRequest, EndRequest, Close, CloseFails, CloseIdle,
       CloseAgain, TypeOK
  <2>2. \A s \in Server : Open(s)' \subseteq Open(s)
    BY <2>1 DEF Open
  <2> QED
    BY <1>0, <2>1, <2>2 DEF Closed, Homes, stopVars
<1>6. ASSUME NEW c \in Connection, NEW s \in Server, Accept(c, s) PROVE Closed' /\ Homes'
  <2>1. /\ stopper[s] = "blocked" /\ UNCHANGED stopVars
        /\ conn' = [conn EXCEPT ![c] = "idle"] /\ home' = [home EXCEPT ![c] = s]
    BY <1>6 DEF Accept, ShuttingDown
  <2>2. \A t \in Server \ {s} : Open(t)' \subseteq Open(t)
    BY <1>0, <2>1 DEF Open, TypeOK
  <2>3. Homes'
    BY <1>0, <2>1 DEF Homes, TypeOK
  <2> QED
    BY <1>0, <2>1, <2>2, <2>3 DEF Closed, stopVars
<1> QED
  BY <1>2, <1>3, <1>4, <1>5, <1>6, Cases
-----------------------------------------------------------------------------
(* The theorems. *)

LEMMA InitInv == Init => Inv
<1> SUFFICES ASSUME Init PROVE Inv
  OBVIOUS
<1>1. Ended = {} /\ NotClosed("Main") = {} /\ \A s \in Server : Open(s) = {}
  BY DEF Init, Ended, Open, NotClosed
<1>2. Cardinality({}) = 0
  BY FS_EmptySet
<1> QED
  BY <1>1, <1>2, Servers, ServerAssumption
     DEF Init, Inv, TypeOK, Joining, Closed, Homes, GaugeIsOpenConnections

\* The inductive invariant holds in every reachable state.
THEOREM Invariant == Spec => []Inv
<1>1. Inv /\ [Next]_vars => Inv'
  BY TypeStep, JoiningStep, ClosedStep, GaugeStep DEF Inv
<1> QED
  BY <1>1, InitInv, PTL DEF Spec

\* Type correctness (server.go:23-164).
THEOREM TypeCorrect == Spec => []TypeOK
<1>1. Inv => TypeOK
  BY DEF Inv
<1> QED
  BY <1>1, Invariant, PTL

\* A signal that is received ends the process gracefully (server.go:136-160).
THEOREM ExitIsGraceful == Spec => []GracefulExit
<1>1. Inv => GracefulExit
  <2> SUFFICES ASSUME Inv, pc = "exited", Alerted, NEW s \in Server
               PROVE  stopper[s] = "ended" /\ (Open(s) # {} => s \in timedOut)
    BY DEF GracefulExit
  <2>1. Cardinality(Ended) = Cardinality(Server)
    BY Servers DEF Inv, Joining, Alerted
  <2>2. Ended = Server
    BY <2>1, Servers, FS_Subset DEF Ended
  <2> QED
    BY <2>2 DEF Ended, Inv, Closed
<1> QED
  BY <1>1, Invariant, PTL

\* The metric of the active connections is exact (listener.go:23-46).
THEOREM GaugeExact == Spec => []GaugeIsOpenConnections
<1>1. Inv => GaugeIsOpenConnections
  BY DEF Inv
<1> QED
  BY <1>1, Invariant, PTL
=============================================================================
