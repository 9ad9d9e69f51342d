------------------------- MODULE MemoryBackendProofs -------------------------
(***************************************************************************)
(* For every number of goroutines, keys and values: the mutex of           *)
(* MemoryBackend keeps its map free of data races and makes it a           *)
(* linearizable write-once map.                                            *)
(***************************************************************************)
EXTENDS MemoryBackend, TLAPS

\* Only a Put gets past the look-up that finds a key absent.
OnlyPutsStore == \A c \in Client : pc[c] = "store" => request[c].op = "put"

\* The inductive invariant.  What a look-up found stays true because whoever
\* writes holds the mutex, and what a client writes is what it was asked to.
Inv == TypeOK /\ NoDataRace /\ AbsentWhenStoring /\ OnlyPutsStore

\* The shape of the calls and of their answers.
LEMMA OperationShape ==
    ASSUME NEW q \in Operation
    PROVE  /\ q.key \in Key
           /\ q.op \in {"get", "put"}
           /\ q.op = "put" => q.value \in Value
BY DEF Operation, Promise!Operation, Promise!Get, Promise!Put

LEMMA ResultShape ==
    /\ \A t \in {"NONE", "STORED", "RECORD_EXISTS", "KEY_NOT_FOUND"} :
          [type |-> t, value |-> NoValue] \in Promise!Result
    /\ \A v \in Value : [type |-> "FOUND", value |-> v] \in Promise!Result
BY DEF Promise!Result

\* The invariant holds initially.
LEMMA InitInv == Init => Inv
BY ResultShape DEF Init, Inv, TypeOK, NoDataRace, AbsentWhenStoring, OnlyPutsStore,
   Promise!NoResult, Operation

\* Every step keeps it.
LEMMA NextInv == Inv /\ [Next]_vars => Inv'
<1> SUFFICES ASSUME Inv, [Next]_vars PROVE Inv'
  OBVIOUS
<1> USE MemoryAssumption, ResultShape
       DEF Inv, TypeOK, NoDataRace, AbsentWhenStoring, OnlyPutsStore, Goto, Answers
<1>1. CASE Restart
  BY <1>1 DEF Restart, Promise!NoResult
<1>2. ASSUME NEW c \in Client, Call(c) PROVE Inv'
  BY <1>2 DEF Call
<1>3. ASSUME NEW c \in Client, Lock(c) PROVE Inv'
  BY <1>3 DEF Lock
<1>4. ASSUME NEW c \in Client, GetLookup(c) PROVE Inv'
  BY <1>4, OperationShape DEF GetLookup
<1>5. ASSUME NEW c \in Client, PutLookup(c) PROVE Inv'
  BY <1>5, OperationShape DEF PutLookup
<1>6. ASSUME NEW c \in Client, Store(c) PROVE Inv'
  BY <1>6, OperationShape DEF Store
<1>7. ASSUME NEW c \in Client, Unlock(c) PROVE Inv'
  BY <1>7 DEF Unlock
<1>8. ASSUME NEW c \in Client, Return(c) PROVE Inv'
  BY <1>8 DEF Return
<1>9. CASE UNCHANGED vars
  BY <1>9 DEF vars
<1> QED
  BY <1>1, <1>2, <1>3, <1>4, <1>5, <1>6, <1>7, <1>8, <1>9 DEF Next, Step

\* The inductive invariant holds in every reachable state.
THEOREM Invariant == Spec => []Inv
BY InitInv, NextInv, PTL DEF Spec

\* Type correctness (memory.go:12-42).
THEOREM TypeCorrect == Spec => []TypeOK
<1>1. Inv => TypeOK
  BY DEF Inv
<1> QED
  BY <1>1, Invariant, PTL

\* The map is only touched under the mutex, so Go's undefined concurrent map
\* access cannot happen (memory.go:18-42).
THEOREM DataRaceFree == Spec => []NoDataRace
<1>1. Inv => NoDataRace
  BY DEF Inv
<1> QED
  BY <1>1, Invariant, PTL

\* A Put writes only where its look-up still holds (memory.go:36-40).
THEOREM LookupNotStale == Spec => []AbsentWhenStoring
<1>1. Inv => AbsentWhenStoring
  BY DEF Inv
<1> QED
  BY <1>1, Invariant, PTL
-----------------------------------------------------------------------------
LEMMA InitRefines == Init => Promise!Init
BY DEF Init, Phase, Promise!Init, Promise!Empty, Promise!NoResult, Operation

\* Every step is a step of the abstract cache or leaves it alone: a call takes
\* effect when its look-up settles the answer, or when it writes.
LEMMA StepRefines == Inv /\ [Next]_vars => [Promise!Next]_(Promise!vars)
<1> SUFFICES ASSUME Inv, [Next]_vars PROVE [Promise!Next]_(Promise!vars)
  OBVIOUS
<1> USE DEF Inv, TypeOK, Goto, Answers, Phase
<1>1. CASE Restart
  <2>1. Promise!LoseAll
    BY <1>1 DEF Restart, Promise!LoseAll, Promise!Empty, Promise!NoResult
  <2> QED
    BY <2>1 DEF Promise!Next
<1>2. ASSUME NEW c \in Client, Call(c) PROVE [Promise!Next]_(Promise!vars)
  <2>1. Promise!Call(c)
    BY <1>2 DEF Call, Promise!Call, Operation, Promise!NoResult
  <2> QED
    BY <2>1 DEF Promise!Next
<1>3. ASSUME NEW c \in Client, Lock(c) PROVE UNCHANGED Promise!vars
  BY <1>3 DEF Lock, Promise!vars
<1>4. ASSUME NEW c \in Client, GetLookup(c) PROVE [Promise!Next]_(Promise!vars)
  <2>1. Promise!Effect(c)
    BY <1>4, OperationShape
       DEF GetLookup, Promise!Effect, Promise!Answer, Promise!After
  <2> QED
    BY <2>1 DEF Promise!Next
<1>5. ASSUME NEW c \in Client, PutLookup(c) PROVE [Promise!Next]_(Promise!vars)
  <2>1. CASE db[request[c].key] # NoValue
    <3>1. Promise!Effect(c)
      BY <1>5, <2>1, OperationShape
         DEF PutLookup, Promise!Effect, Promise!Answer, Promise!After
    <3> QED
      BY <3>1 DEF Promise!Next
  <2>2. CASE db[request[c].key] = NoValue
    BY <1>5, <2>2 DEF PutLookup, Promise!vars
  <2> QED
    BY <2>1, <2>2
<1>6. ASSUME NEW c \in Client, Store(c) PROVE [Promise!Next]_(Promise!vars)
  <2>1. Promise!Effect(c)
    BY <1>6, OperationShape
       DEF Store, AbsentWhenStoring, OnlyPutsStore,
           Promise!Effect, Promise!Answer, Promise!After
  <2> QED
    BY <2>1 DEF Promise!Next
<1>7. ASSUME NEW c \in Client, Unlock(c) PROVE UNCHANGED Promise!vars
  BY <1>7 DEF Unlock, Promise!vars
<1>8. ASSUME NEW c \in Client, Return(c) PROVE [Promise!Next]_(Promise!vars)
  <2>1. Promise!Return(c)
    BY <1>8 DEF Return, Promise!Return
  <2> QED
    BY <2>1 DEF Promise!Next
<1>9. CASE UNCHANGED vars
  BY <1>9 DEF vars, Promise!vars
<1> QED
  BY <1>1, <1>2, <1>3, <1>4, <1>5, <1>6, <1>7, <1>8, <1>9 DEF Next, Step

\* MemoryBackend implements the write-once cache: Get and Put are atomic
\* whatever the interleaving of the goroutines (memory.go:18-42).
THEOREM Implements == Spec => Linearizable
BY InitRefines, StepRefines, Invariant, PTL DEF Spec, Promise!Spec, Linearizable
=============================================================================
