-------------------------- MODULE LifecycleProofs --------------------------
(***************************************************************************)
(* Proofs about the driver (GracefulStop), for any number of clients: its  *)
(* types, the exact count, the empty server at the moment of the event,    *)
(* the only case in which a goroutine blocks for ever, and the refinement  *)
(* of Drain.  Then about the process (Lifecycle): it only takes steps of   *)
(* the driver, so it inherits all that, and nothing but a SIGTERM stops a  *)
(* server that listens.                                                    *)
(***************************************************************************)
EXTENDS Lifecycle, TLAPS, FiniteSetTheorems

\* nbClientsSync is held by a goroutine exactly inside its critical section.
LockInv == \A g \in Goroutines : lock = g <=> at[g] \in Critical

\* Once considerEnd's test has succeeded the counter stays 0.
DecidingInv == \A g \in Goroutines : at[g] \in Deciding => nbClients = 0

\* The channel exists, is used and is closed in this order, after Stop.
EventInv ==
  /\ zeroClientEvent = "channel" \/ buffer # "none" => at[Stopper] # "idle"
  /\ channel = "closed" => buffer # "none"
  /\ \A g \in Goroutines :
       /\ at[g] \in Deciding => at[Stopper] # "idle"
       /\ at[g] = "close" => buffer # "none"
       /\ at[g] = "reload" /\ zeroClientEvent = "nil" => waiter = "returned"

\* WaitGracefully has an answer once it has left its select.
WaiterInv == verdict = "none" <=> waiter \in {"before", "select"}

IInv ==
  /\ TypeOK
  /\ LockInv
  /\ CountExact
  /\ DecidingInv
  /\ EventInv
  /\ WaiterInv
  /\ StuckOnlyAtTheEnd

\* The control points of goroutines are tested through these two throughout.
USE DEF At, WaiterAt

-----------------------------------------------------------------------------

\* The counted clients form a finite set, so the counter is a cardinality
\* that is 0 only when there is none.
LEMMA MembersFinite ==
  /\ IsFiniteSet(Members)
  /\ Cardinality(Members) \in Nat
  /\ Cardinality(Members) = 0 <=> Members = {}
<1>1. IsFiniteSet(Members)
  <2>1. Members \in SUBSET Clients  BY DEF Members
  <2>2. QED  BY <2>1, FS_Subset, ClientsAssumption
<1>2. QED  BY <1>1, FS_CardinalityType, FS_EmptySet

\* ClientConnected counts a client that was not counted.
LEMMA ConnectedJoins ==
  ASSUME TypeOK, NEW c \in Clients, ClientConnected(c)
  PROVE  /\ c \notin Members
         /\ Members' = Members \cup {c}
         /\ Cardinality(Members') = Cardinality(Members) + 1
<1>1. c \notin Members /\ Members' = Members \cup {c}
  BY DEF TypeOK, ClientConnected, Goto, Members, Goroutines
<1>2. QED  BY <1>1, MembersFinite, FS_AddElement

\* ClientDisconnected uncounts a client that was counted.
LEMMA DisconnectedLeaves ==
  ASSUME TypeOK, NEW c \in Clients, ClientDisconnected(c)
  PROVE  /\ c \in Members
         /\ Members' = Members \ {c}
         /\ Cardinality(Members') = Cardinality(Members) - 1
<1>1. c \in Members /\ Members' = Members \ {c}
  BY DEF TypeOK, ClientDisconnected, Goto, Members, Goroutines
<1>2. QED  BY <1>1, MembersFinite, FS_RemoveElement

\* No other step changes which clients are counted.
LEMMA OthersKeepMembers ==
  ASSUME TypeOK
  PROVE  /\ \A c \in Clients : Arrive(c) \/ Hangup(c) => Members' = Members
         /\ \A g \in Goroutines : ConsiderEndStep(g) => Members' = Members
         /\ Stop \/ WaiterStep => Members' = Members
<1>1. ASSUME NEW c \in Clients, Arrive(c) \/ Hangup(c)
      PROVE  Members' = Members
  BY <1>1 DEF TypeOK, Arrive, Hangup, Goto, Members, Goroutines
<1>2. ASSUME NEW g \in Goroutines, ConsiderEndStep(g)
      PROVE  Members' = Members
  <2>1. CASE ConsiderEnd(g)
    BY <2>1, ClientsAssumption
    DEF TypeOK, ConsiderEnd, ReturnUnlocking, Goto, Members, Goroutines
  <2>2. CASE ReloadEvent(g)
    BY <2>2, ClientsAssumption
    DEF TypeOK, ReloadEvent, Goto, Members, Goroutines
  <2>3. CASE SendEvent(g)
    BY <2>3, ClientsAssumption
    DEF TypeOK, SendEvent, Goto, Members, Goroutines
  <2>4. CASE CloseEvent(g)
    BY <2>4, ClientsAssumption
    DEF TypeOK, CloseEvent, ReturnUnlocking, Goto, Members, Goroutines
  <2>5. QED  BY <1>2, <2>1, <2>2, <2>3, <2>4 DEF ConsiderEndStep
<1>3. ASSUME Stop PROVE Members' = Members
  BY <1>3, ClientsAssumption DEF TypeOK, Stop, Goto, Members, Goroutines
<1>4. ASSUME WaiterStep PROVE Members' = Members
  BY <1>4 DEF WaiterStep, BeginWait, ReceiveEvent, WaitTimeout, ClearEvent, Members
<1>5. QED  BY <1>1, <1>2, <1>3, <1>4

-----------------------------------------------------------------------------

LEMMA InitIInv == Init => IInv
<1> SUFFICES ASSUME Init PROVE IInv
  OBVIOUS
<1> USE ClientsAssumption DEF Init
<1>1. TypeOK
  BY DEF TypeOK, Goroutines, Critical, Deciding
<1>2. LockInv
  BY DEF LockInv, Goroutines, Critical, Deciding
<1>3. CountExact
  <2>1. Members = {}
    BY DEF Members, Goroutines
  <2>2. QED  BY <2>1, FS_EmptySet DEF CountExact
<1>4. DecidingInv /\ EventInv /\ WaiterInv /\ StuckOnlyAtTheEnd
  BY DEF DecidingInv, EventInv, WaiterInv, StuckOnlyAtTheEnd, Goroutines, Deciding
<1>5. QED
  BY <1>1, <1>2, <1>3, <1>4 DEF IInv

\* What the step of a client preserves before it reaches considerEnd.
LEMMA ClientStepIInv ==
  ASSUME IInv, NEW c \in Clients, ClientStep(c)
  PROVE  IInv'
<1> USE ClientsAssumption DEF Goroutines, Critical, Deciding, Goto
<1>1. CASE Arrive(c) \/ Hangup(c)
  <2>1. CountExact'
    BY <1>1, OthersKeepMembers DEF IInv, CountExact, Arrive, Hangup, driverVars
  <2>2. TypeOK' /\ LockInv'
    BY <1>1 DEF IInv, TypeOK, LockInv, Arrive, Hangup, driverVars, waiterVars
  <2>3. (DecidingInv /\ EventInv /\ WaiterInv /\ StuckOnlyAtTheEnd)'
    BY <1>1 DEF IInv, TypeOK, DecidingInv, EventInv, WaiterInv, StuckOnlyAtTheEnd,
                Arrive, Hangup, driverVars, waiterVars
  <2>4. QED  BY <2>1, <2>2, <2>3 DEF IInv
<1>2. CASE ClientConnected(c)
  <2>1. CountExact'
    BY <1>2, ConnectedJoins DEF IInv, CountExact, ClientConnected
  <2>2. TypeOK' /\ LockInv'
    BY <1>2 DEF IInv, TypeOK, LockInv, ClientConnected, waiterVars
  <2>3. (DecidingInv /\ EventInv /\ WaiterInv /\ StuckOnlyAtTheEnd)'
    BY <1>2 DEF IInv, TypeOK, LockInv, DecidingInv, EventInv, WaiterInv,
                StuckOnlyAtTheEnd, ClientConnected, waiterVars
  <2>4. QED  BY <2>1, <2>2, <2>3 DEF IInv
<1>3. CASE ClientDisconnected(c)
  <2>1. CountExact'
    BY <1>3, DisconnectedLeaves DEF IInv, CountExact, ClientDisconnected
  <2>2. nbClients' \in Nat
    <3>1. nbClients # 0
      BY <1>3, DisconnectedLeaves, MembersFinite DEF IInv, CountExact
    <3>2. nbClients \in Nat /\ nbClients' = nbClients - 1
      BY <1>3 DEF IInv, TypeOK, ClientDisconnected
    <3>3. QED  BY <3>1, <3>2
  <2>3. TypeOK' /\ LockInv'
    BY <1>3, <2>2 DEF IInv, TypeOK, LockInv, ClientDisconnected, waiterVars
  <2>4. (DecidingInv /\ EventInv /\ WaiterInv /\ StuckOnlyAtTheEnd)'
    BY <1>3 DEF IInv, TypeOK, LockInv, DecidingInv, EventInv, WaiterInv,
                StuckOnlyAtTheEnd, ClientDisconnected, waiterVars
  <2>5. QED  BY <2>1, <2>3, <2>4 DEF IInv
<1>4. QED
  BY <1>1, <1>2, <1>3 DEF ClientStep

\* considerEnd runs under the mutex, so nobody is counted between its test
\* and its last access of the channel.
LEMMA ConsiderEndStepIInv ==
  ASSUME IInv, NEW g \in Goroutines, ConsiderEndStep(g)
  PROVE  IInv'
<1> USE ClientsAssumption DEF Goroutines, Critical, Deciding, Goto, ReturnUnlocking
<1>1. CountExact'
  BY OthersKeepMembers
  DEF IInv, CountExact, ConsiderEndStep, ConsiderEnd, ReloadEvent, SendEvent,
      CloseEvent, driverVars
<1>2. CASE ConsiderEnd(g)
  <2>1. TypeOK' /\ LockInv'
    BY <1>2 DEF IInv, TypeOK, LockInv, ConsiderEnd, driverVars, waiterVars
  <2>2. (DecidingInv /\ EventInv /\ WaiterInv /\ StuckOnlyAtTheEnd)'
    BY <1>2 DEF IInv, TypeOK, DecidingInv, EventInv, WaiterInv, StuckOnlyAtTheEnd,
                ConsiderEnd, driverVars, waiterVars
  <2>3. QED  BY <1>1, <2>1, <2>2 DEF IInv
<1>3. CASE ReloadEvent(g)
  <2>1. TypeOK' /\ LockInv'
    BY <1>3 DEF IInv, TypeOK, LockInv, ReloadEvent, driverVars, waiterVars
  <2>2. (DecidingInv /\ EventInv /\ WaiterInv /\ StuckOnlyAtTheEnd)'
    BY <1>3 DEF IInv, TypeOK, DecidingInv, EventInv, WaiterInv, StuckOnlyAtTheEnd,
                ReloadEvent, driverVars, waiterVars
  <2>3. QED  BY <1>1, <2>1, <2>2 DEF IInv
<1>4. CASE SendEvent(g)
  <2>0. panicked' \in BOOLEAN
    BY <1>4 DEF IInv, TypeOK, SendEvent
  <2>1. TypeOK' /\ LockInv'
    BY <1>4, <2>0 DEF IInv, TypeOK, LockInv, SendEvent, waiterVars
  <2>2. (DecidingInv /\ EventInv /\ WaiterInv /\ StuckOnlyAtTheEnd)'
    BY <1>4 DEF IInv, TypeOK, DecidingInv, EventInv, WaiterInv, StuckOnlyAtTheEnd,
                SendEvent, waiterVars
  <2>3. QED  BY <1>1, <2>1, <2>2 DEF IInv
<1>5. CASE CloseEvent(g)
  <2>0. panicked' \in BOOLEAN
    BY <1>5 DEF IInv, TypeOK, CloseEvent
  <2>1. TypeOK' /\ LockInv'
    BY <1>5, <2>0 DEF IInv, TypeOK, LockInv, CloseEvent, waiterVars
  <2>2. (DecidingInv /\ EventInv /\ WaiterInv /\ StuckOnlyAtTheEnd)'
    BY <1>5 DEF IInv, TypeOK, DecidingInv, EventInv, WaiterInv, StuckOnlyAtTheEnd,
                CloseEvent, waiterVars
  <2>3. QED  BY <1>1, <2>1, <2>2 DEF IInv
<1>6. QED
  BY <1>2, <1>3, <1>4, <1>5 DEF ConsiderEndStep

LEMMA StopIInv == IInv /\ Stop => IInv'
<1> SUFFICES ASSUME IInv, Stop PROVE IInv'
  OBVIOUS
<1> USE ClientsAssumption DEF Goroutines, Critical, Deciding, Goto, Stop
<1>1. CountExact'
  BY OthersKeepMembers DEF IInv, CountExact
<1>2. TypeOK' /\ LockInv'
  BY DEF IInv, TypeOK, LockInv, waiterVars
<1>3. (DecidingInv /\ EventInv /\ WaiterInv /\ StuckOnlyAtTheEnd)'
  BY DEF IInv, TypeOK, DecidingInv, EventInv, WaiterInv, StuckOnlyAtTheEnd, waiterVars
<1>4. QED
  BY <1>1, <1>2, <1>3 DEF IInv

\* WaitGracefully clears the field only in the step in which it returns.
LEMMA WaiterStepIInv == IInv /\ WaiterStep => IInv'
<1> SUFFICES ASSUME IInv, WaiterStep PROVE IInv'
  OBVIOUS
<1> USE ClientsAssumption
        DEF Goroutines, WaiterStep, BeginWait, ReceiveEvent, WaitTimeout, ClearEvent,
            driverVars
<1>1. CountExact'
  BY OthersKeepMembers DEF IInv, CountExact
<1>2. TypeOK' /\ LockInv'
  BY DEF IInv, TypeOK, LockInv
<1>3. (DecidingInv /\ EventInv /\ WaiterInv /\ StuckOnlyAtTheEnd)'
  BY DEF IInv, TypeOK, DecidingInv, EventInv, WaiterInv, StuckOnlyAtTheEnd
<1>4. QED
  BY <1>1, <1>2, <1>3 DEF IInv

LEMMA NextIInv == IInv /\ [Next]_vars => IInv'
<1> SUFFICES ASSUME IInv, [Next]_vars PROVE IInv'
  OBVIOUS
<1>1. CASE UNCHANGED vars
  BY <1>1 DEF vars, IInv, TypeOK, LockInv, CountExact, Members, DecidingInv,
              EventInv, WaiterInv, StuckOnlyAtTheEnd
<1>2. CASE Next
  BY <1>2, ClientStepIInv, ConsiderEndStepIInv, StopIInv, WaiterStepIInv DEF Next
<1>3. QED
  BY <1>1, <1>2

\* The invariant holds in every state of the driver.
THEOREM Inductive == Spec => []IInv
  BY InitIInv, NextIInv, PTL DEF Spec

-----------------------------------------------------------------------------

\* Every variable keeps its type; nbClients, a uint32 in the code, never goes
\* below 0 (server.go:129).
THEOREM TypeCorrect == Spec => []TypeOK
  BY Inductive, PTL DEF IInv

\* nbClients is the number of clients between ClientConnected and
\* ClientDisconnected, in every interleaving of their goroutines.
THEOREM CounterIsExact == Spec => []CountExact
  BY Inductive, PTL DEF IInv

\* From considerEnd's successful test to the close of the channel no client
\* is counted (server.go:164-166).
THEOREM NobodyWhileRaising == Spec => []EmptyWhileRaising
<1>1. IInv => EmptyWhileRaising
  BY MembersFinite DEF IInv, CountExact, DecidingInv, EmptyWhileRaising
<1>2. QED
  BY <1>1, Inductive, PTL

\* considerEnd blocks on the nil channel, holding the mutex, only after
\* WaitGracefully has returned (server.go:153, 165).
THEOREM NeverStuckWhileServing == Spec => []StuckOnlyAtTheEnd
  BY Inductive, PTL DEF IInv

-----------------------------------------------------------------------------

LEMMA InitRefines == Init => D!Init
<1> SUFFICES ASSUME Init PROVE D!Init
  OBVIOUS
<1>1. Members = {} /\ Phase = "serving"
  BY ClientsAssumption DEF Init, Members, Phase, Goroutines
<1>2. QED
  BY <1>1 DEF Init, D!Init

\* The phase depends on the buffer and on whether Stop was called only.
LEMMA PhaseValue ==
  /\ at[Stopper] = "idle" => Phase = "serving"
  /\ at[Stopper] # "idle" /\ buffer = "none" => Phase = "stopping"
  /\ at[Stopper] # "idle" /\ buffer # "none" => Phase = "drained"
  BY DEF Phase

\* A panic ends every goroutine.
LEMMA NextAlive == Next => ~panicked
<1>1. \A c \in Clients : ClientStep(c) => ~panicked
  BY DEF ClientStep, Arrive, ClientConnected, Hangup, ClientDisconnected
<1>2. \A g \in Goroutines : ConsiderEndStep(g) => ~panicked
  BY DEF ConsiderEndStep, ConsiderEnd, ReloadEvent, SendEvent, CloseEvent
<1>3. (Stop \/ WaiterStep) => ~panicked
  BY DEF Stop, WaiterStep, BeginWait, ReceiveEvent, WaitTimeout, ClearEvent
<1>4. QED
  BY <1>1, <1>2, <1>3 DEF Next

LEMMA ClientStepRefines ==
  ASSUME IInv, ~panicked, NEW c \in Clients, ClientStep(c)
  PROVE  [D!Next]_D!dvars
<1> USE DEF D!dvars
<1>1. Phase' = Phase /\ verdict' = verdict /\ panicked' = panicked
  <2>1. at'[Stopper] = at[Stopper]
    BY ClientsAssumption
    DEF IInv, TypeOK, Goroutines, ClientStep, Arrive, ClientConnected, Hangup,
        ClientDisconnected, Goto
  <2>2. buffer' = buffer /\ verdict' = verdict /\ panicked' = panicked
    BY DEF ClientStep, Arrive, ClientConnected, Hangup, ClientDisconnected,
           driverVars, waiterVars
  <2>3. QED  BY <2>1, <2>2 DEF Phase
<1>2. CASE Arrive(c) \/ Hangup(c)
  <2>1. Members' = Members
    BY <1>2, OthersKeepMembers DEF IInv
  <2>2. QED  BY <1>1, <2>1
<1>3. CASE ClientConnected(c)
  <2>1. D!Join(c)
    BY <1>1, <1>3, ConnectedJoins DEF IInv, D!Join
  <2>2. QED  BY <2>1 DEF D!Next
<1>4. CASE ClientDisconnected(c)
  <2>1. D!Leave(c)
    BY <1>1, <1>4, DisconnectedLeaves DEF IInv, D!Leave
  <2>2. QED  BY <2>1 DEF D!Next
<1>5. QED
  BY <1>2, <1>3, <1>4 DEF ClientStep

\* Raising the event is the moment at which the server is found empty; a
\* panic comes after it.
LEMMA ConsiderEndStepRefines ==
  ASSUME IInv, ~panicked, NEW g \in Goroutines, ConsiderEndStep(g)
  PROVE  [D!Next]_D!dvars
<1> USE ClientsAssumption DEF D!dvars
<1>1. Members' = Members
  BY OthersKeepMembers DEF IInv
<1>2. verdict' = verdict
  BY DEF ConsiderEndStep, ConsiderEnd, ReloadEvent, SendEvent, CloseEvent, waiterVars
<1>3. at'[Stopper] = "idle" <=> at[Stopper] = "idle"
  BY DEF IInv, TypeOK, Goroutines, Critical, Deciding, ConsiderEndStep, ConsiderEnd,
         ReloadEvent, SendEvent, CloseEvent, Goto, ReturnUnlocking
<1>4. CASE ConsiderEnd(g) \/ ReloadEvent(g)
  <2>1. buffer' = buffer /\ panicked' = panicked
    BY <1>4 DEF ConsiderEnd, ReloadEvent, driverVars
  <2>2. Phase' = Phase
    BY <1>3, <2>1 DEF Phase
  <2>3. QED  BY <1>1, <1>2, <2>1, <2>2
<1>5. CASE SendEvent(g)
  <2>1. at[Stopper] # "idle" /\ Members = {}
    BY <1>5, MembersFinite
    DEF IInv, EventInv, DecidingInv, CountExact, SendEvent, Deciding
  <2>2. CASE channel = "closed"
    <3>1. Phase = "drained"
      BY <2>1, <2>2, PhaseValue DEF IInv, EventInv
    <3>2. Phase' = Phase /\ panicked' = TRUE
      BY <1>3, <1>5, <2>2 DEF SendEvent, Phase
    <3>3. D!Fail
      BY <1>1, <1>2, <3>1, <3>2 DEF D!Fail
    <3>4. QED  BY <3>3 DEF D!Next
  <2>3. CASE channel # "closed"
    <3>1. buffer' = "sent" /\ panicked' = panicked
      BY <1>5, <2>3 DEF SendEvent
    <3>2. Phase' = "drained"
      BY <1>3, <2>1, <3>1 DEF Phase
    <3>3. CASE buffer = "none"
      <4>1. D!FoundEmpty
        BY <1>1, <1>2, <2>1, <3>1, <3>2, <3>3, PhaseValue DEF D!FoundEmpty
      <4>2. QED  BY <4>1 DEF D!Next
    <3>4. CASE buffer # "none"
      <4>1. Phase = "drained"
        BY <2>1, <3>4, PhaseValue
      <4>2. QED  BY <1>1, <1>2, <3>1, <3>2, <4>1
    <3>5. QED  BY <3>3, <3>4
  <2>4. QED  BY <2>2, <2>3
<1>6. CASE CloseEvent(g)
  <2>1. buffer' = buffer /\ Phase' = Phase
    BY <1>3, <1>6 DEF CloseEvent, Phase
  <2>2. Phase = "drained"
    BY <1>6, PhaseValue DEF IInv, EventInv, CloseEvent, Deciding
  <2>3. CASE zeroClientEvent = "nil" \/ channel = "closed"
    <3>1. panicked' = TRUE
      BY <1>6, <2>3 DEF CloseEvent
    <3>2. D!Fail
      BY <1>1, <1>2, <2>1, <2>2, <3>1 DEF D!Fail
    <3>3. QED  BY <3>2 DEF D!Next
  <2>4. CASE ~(zeroClientEvent = "nil" \/ channel = "closed")
    <3>1. panicked' = panicked
      BY <1>6, <2>4 DEF CloseEvent
    <3>2. QED  BY <1>1, <1>2, <2>1, <3>1
  <2>5. QED  BY <2>3, <2>4
<1>7. QED
  BY <1>4, <1>5, <1>6 DEF ConsiderEndStep

LEMMA StopRefines == IInv /\ ~panicked /\ Stop => [D!Next]_D!dvars
<1> SUFFICES ASSUME IInv, ~panicked, Stop PROVE D!RequestStop
  BY DEF D!Next
<1>1. Members' = Members
  BY OthersKeepMembers DEF IInv
<1>2. verdict' = verdict /\ panicked' = panicked /\ buffer' = buffer
  BY DEF Stop, waiterVars
<1>3. Phase = "serving"
  BY PhaseValue DEF Stop
<1>4. Phase' = "stopping"
  <2>1. at'[Stopper] = "consider"
    BY DEF Stop, Goto, IInv, TypeOK, Goroutines
  <2>2. buffer' = "none"
    BY <1>2 DEF IInv, EventInv, Stop
  <2>3. QED  BY <2>1, <2>2 DEF Phase
<1>5. QED
  BY <1>1, <1>2, <1>3, <1>4 DEF D!RequestStop

\* An event is received only from a drained server.
LEMMA WaiterStepRefines == IInv /\ ~panicked /\ WaiterStep => [D!Next]_D!dvars
<1> SUFFICES ASSUME IInv, ~panicked, WaiterStep PROVE [D!Next]_D!dvars
  OBVIOUS
<1> USE DEF D!dvars
<1>1. Members' = Members
  BY OthersKeepMembers DEF IInv
<1>2. at' = at /\ panicked' = panicked
  BY DEF WaiterStep, BeginWait, ReceiveEvent, WaitTimeout, ClearEvent, driverVars
<1>3. CASE BeginWait \/ ClearEvent
  <2>1. buffer' = buffer /\ verdict' = verdict
    BY <1>3 DEF BeginWait, ClearEvent, driverVars
  <2>2. QED  BY <1>1, <1>2, <2>1 DEF Phase
<1>4. CASE ReceiveEvent
  <2>1. Phase = "drained"
    BY <1>4, PhaseValue DEF ReceiveEvent, IInv, EventInv
  <2>2. Phase' = "drained"
    BY <1>2, <1>4 DEF ReceiveEvent, IInv, EventInv, Phase
  <2>3. D!ReportDrained
    BY <1>1, <1>2, <1>4, <2>1, <2>2 DEF ReceiveEvent, IInv, WaiterInv, D!ReportDrained
  <2>4. QED  BY <2>3 DEF D!Next
<1>5. CASE WaitTimeout
  <2>1. Phase' = Phase
    BY <1>2, <1>5 DEF WaitTimeout, driverVars, Phase
  <2>2. D!GiveUp
    BY <1>1, <1>2, <1>5, <2>1 DEF WaitTimeout, IInv, WaiterInv, D!GiveUp
  <2>3. QED  BY <2>2 DEF D!Next
<1>6. QED
  BY <1>3, <1>4, <1>5 DEF WaiterStep

\* The driver implements Drain: a graceful end is answered, and a panic can
\* happen, only after a moment at which a stop had been requested and the
\* last client had left (server.go:141-168).
THEOREM Refinement == Spec => ImplementsDrain
<1>1. IInv /\ [Next]_vars => [D!Next]_D!dvars
  <2> SUFFICES ASSUME IInv, [Next]_vars PROVE [D!Next]_D!dvars
    OBVIOUS
  <2>1. CASE UNCHANGED vars
    BY <2>1 DEF vars, D!dvars, Members, Phase
  <2>2. CASE Next
    BY <2>2, NextAlive,
       ClientStepRefines, ConsiderEndStepRefines, StopRefines, WaiterStepRefines
    DEF Next
  <2>3. QED  BY <2>1, <2>2
<1>2. QED
  BY <1>1, InitRefines, Inductive, PTL DEF Spec, ImplementsDrain, D!Spec

-----------------------------------------------------------------------------
(***************************************************************************)
(* The process.                                                            *)
(***************************************************************************)

USE DEF MainAt, HandlerAt, Running

\* Every step of the process is a step of the driver, or none of its business.
LEMMA ProcessStep == LNext => [Next]_vars
<1> SUFFICES ASSUME LNext PROVE [Next]_vars
  OBVIOUS
<1>1. CASE MainStep
  <2>1. CASE Listen \/ ServeEnds \/ MainReturns
    BY <2>1 DEF Listen, ServeEnds, MainReturns
  <2>2. CASE MainWaits
    BY <2>2 DEF MainWaits, Next
  <2>3. QED  BY <1>1, <2>1, <2>2 DEF MainStep
<1>2. CASE HandlerStep
  <2>1. CASE Notify \/ TakeSignal \/ ReloadReturns \/ StopListener
    BY <2>1 DEF Notify, TakeSignal, ReloadReturns, StopListener
  <2>2. CASE StopDriver
    BY <2>2 DEF StopDriver, Next, Goroutines
  <2>3. QED  BY <1>2, <2>1, <2>2 DEF HandlerStep
<1>3. ASSUME NEW c \in Clients, Accept(c) \/ ClientRuns(c)
      PROVE  Next
  BY <1>3 DEF Accept, ClientRuns, ClientStep, Next, Goroutines
<1>4. ASSUME NEW sig \in {"SIGTERM", "SIGHUP"}, Signal(sig)
      PROVE  UNCHANGED vars
  BY <1>4 DEF Signal
<1>5. QED
  BY <1>1, <1>2, <1>3, <1>4 DEF LNext

\* The process implements the driver's specification: the order in which
\* main.go calls it is one of those GracefulStop allows.
THEOREM ProcessIsDriver == LSpec => Spec
<1>1. LInit => Init
  BY DEF LInit
<1>2. [LNext]_allVars => [Next]_vars
  BY ProcessStep DEF allVars
<1>3. QED
  BY <1>1, <1>2, PTL DEF LSpec, Spec

\* main reports a graceful end, and the process dies of a panic, only after a
\* moment at which a stop was requested and the last client had left.
THEOREM ProcessDrains == LSpec => ImplementsDrain
  BY ProcessIsDriver, Refinement

-----------------------------------------------------------------------------

\* A stop needs a SIGTERM, and the listener is closed by the stop.
SigtermInv ==
  /\ ~sigterm => pending # "SIGTERM" /\ handler \notin {"stop", "done"}
  /\ handler \notin {"stop", "done"} => at[Stopper] = "idle" /\ listener # "closed"
  /\ panicked => at[Stopper] # "idle"
  /\ main = "listen" => listener = "none"
  /\ main = "wait" => listener # "open"

LIInv == IInv /\ LTypeOK /\ SigtermInv

LEMMA InitLIInv == LInit => LIInv
  BY InitIInv DEF LInit, Init, LIInv, IInv, LTypeOK, SigtermInv, Goroutines

\* The goroutine that calls Stop is moved by the handler's steps only, and a
\* panic comes after Stop.
LEMMA DriverStep ==
  ASSUME IInv, panicked => at[Stopper] # "idle"
  PROVE  /\ \A c \in Clients :
              Arrive(c) \/ ClientRuns(c) =>
                /\ at'[Stopper] = at[Stopper]
                /\ panicked' => at'[Stopper] # "idle"
         /\ WaiterStep => at' = at /\ panicked' = panicked
         /\ Stop \/ ConsiderEndStep(Stopper) => at'[Stopper] # "idle"
<1> USE ClientsAssumption
        DEF IInv, TypeOK, EventInv, Goroutines, Critical, Deciding, Goto, ReturnUnlocking
<1>1. ASSUME NEW c \in Clients, Arrive(c) \/ ClientRuns(c)
      PROVE  /\ at'[Stopper] = at[Stopper]
             /\ panicked' => at'[Stopper] # "idle"
  <2>1. CASE \/ Arrive(c) \/ ClientConnected(c) \/ Hangup(c) \/ ClientDisconnected(c)
             \/ ConsiderEnd(c) \/ ReloadEvent(c)
    BY <2>1 DEF Arrive, ClientConnected, Hangup, ClientDisconnected, ConsiderEnd,
                ReloadEvent, driverVars
  <2>2. CASE SendEvent(c)
    BY <2>2 DEF SendEvent
  <2>3. CASE CloseEvent(c)
    BY <2>3 DEF CloseEvent
  <2>4. QED
    BY <1>1, <2>1, <2>2, <2>3 DEF ClientRuns, ConsiderEndStep
<1>2. WaiterStep => at' = at /\ panicked' = panicked
  BY DEF WaiterStep, BeginWait, ReceiveEvent, WaitTimeout, ClearEvent, driverVars
<1>3. Stop => at'[Stopper] # "idle"
  BY DEF Stop
<1>4. ConsiderEndStep(Stopper) => at'[Stopper] # "idle"
  BY DEF ConsiderEndStep, ConsiderEnd, ReloadEvent, SendEvent, CloseEvent
<1>5. QED
  BY <1>1, <1>2, <1>3, <1>4

LEMMA NextLIInv == LIInv /\ [LNext]_allVars => LIInv'
<1> SUFFICES ASSUME LIInv, [LNext]_allVars PROVE LIInv'
  OBVIOUS
<1>1. IInv'
  BY NextIInv, ProcessStep DEF LIInv, allVars
<1>2. CASE UNCHANGED allVars
  BY <1>1, <1>2 DEF allVars, vars, processVars, LIInv, LTypeOK, SigtermInv, IInv
<1>3. CASE LNext
  <2> USE DEF LIInv, LTypeOK, SigtermInv
  <2>1. TypeOK'
    BY <1>1 DEF IInv
  <2>2. CASE Listen \/ ServeEnds \/ MainReturns
    BY <1>1, <2>1, <2>2 DEF Listen, ServeEnds, MainReturns, vars
  <2>3. CASE MainWaits
    BY <1>1, <2>1, <2>3, DriverStep DEF MainWaits, processVars
  <2>4. CASE Notify \/ TakeSignal \/ ReloadReturns \/ StopListener
    BY <1>1, <2>1, <2>4 DEF Notify, TakeSignal, ReloadReturns, StopListener, vars
  <2>5. CASE StopDriver
    BY <1>1, <2>1, <2>5, DriverStep DEF StopDriver, processVars
  <2>6. ASSUME NEW c \in Clients, Accept(c) \/ ClientRuns(c) PROVE LIInv'
    BY <1>1, <2>1, <2>6, DriverStep DEF Accept, ClientRuns, processVars
  <2>7. ASSUME NEW sig \in {"SIGTERM", "SIGHUP"}, Signal(sig) PROVE LIInv'
    BY <1>1, <2>1, <2>7 DEF Signal, Notified, vars
  <2>8. QED
    BY <1>1, <1>3, <2>2, <2>3, <2>4, <2>5, <2>6, <2>7 DEF LNext, MainStep, HandlerStep
<1>4. QED
  BY <1>2, <1>3

\* A server that nobody asked to stop never panics in considerEnd, and its
\* main goroutine goes on to WaitGracefully only when it could not listen:
\* reloads and any traffic of clients leave it serving (main.go:98-115).
THEOREM ServesUntilSigterm == LSpec => []OnlySigtermEndsServing
<1>1. LIInv => OnlySigtermEndsServing
  BY DEF LIInv, LTypeOK, SigtermInv, OnlySigtermEndsServing
<1>2. QED
  BY <1>1, InitLIInv, NextLIInv, PTL DEF LSpec

\* The types of the process, and those of the driver inside it.
THEOREM ProcessTypeCorrect == LSpec => []LTypeOK
  BY InitLIInv, NextLIInv, PTL DEF LSpec, LIInv

-----------------------------------------------------------------------------

\* Between a Stop and the end of the wait the channel is there, and an empty
\* server whose mutex is free has raised the event.
RaisedInv ==
  at[Stopper] # "idle" /\ waiter # "returned" =>
    /\ zeroClientEvent = "channel"
    /\ nbClients = 0 /\ lock = NoOne => buffer # "none"

\* The listener is closed after driver.Stop has returned.
ClosedInv == listener = "closed" => at[Stopper] # "idle"

LEMMA RaisedStep ==
  ASSUME IInv, RaisedInv, [Next]_vars
  PROVE  RaisedInv'
<1> USE ClientsAssumption
        DEF IInv, TypeOK, LockInv, RaisedInv, Goroutines, Critical, Deciding, Goto,
            ReturnUnlocking
<1>1. ASSUME NEW c \in Clients, ClientStep(c) PROVE RaisedInv'
  <2>1. at'[Stopper] = at[Stopper] /\ UNCHANGED <<waiter, zeroClientEvent, buffer>>
    BY <1>1 DEF ClientStep, Arrive, ClientConnected, Hangup, ClientDisconnected,
                driverVars, waiterVars
  <2>2. CASE Arrive(c) \/ Hangup(c)
    BY <2>1, <2>2 DEF Arrive, Hangup, driverVars
  <2>3. CASE ClientConnected(c)
    BY <2>1, <2>3 DEF ClientConnected
  <2>4. CASE ClientDisconnected(c)
    BY <2>1, <2>4 DEF ClientDisconnected
  <2>5. QED
    BY <1>1, <2>2, <2>3, <2>4 DEF ClientStep
<1>2. CASE Stop
  BY <1>2 DEF Stop, waiterVars, WaiterInv, EventInv
<1>3. ASSUME NEW g \in Goroutines, ConsiderEndStep(g) PROVE RaisedInv'
  <2>1. at'[Stopper] # "idle" => at[Stopper] # "idle"
    BY <1>3 DEF ConsiderEndStep, ConsiderEnd, ReloadEvent, SendEvent, CloseEvent
  <2>2. UNCHANGED <<waiter, zeroClientEvent, nbClients>>
    BY <1>3 DEF ConsiderEndStep, ConsiderEnd, ReloadEvent, SendEvent, CloseEvent,
                driverVars, waiterVars
  <2>3. lock = g /\ lock # NoOne
    BY <1>3 DEF ConsiderEndStep, ConsiderEnd, ReloadEvent, SendEvent, CloseEvent
  <2>4. CASE ConsiderEnd(g)
    BY <2>1, <2>2, <2>3, <2>4 DEF ConsiderEnd, driverVars
  <2>5. CASE ReloadEvent(g)
    BY <2>1, <2>2, <2>3, <2>5 DEF ReloadEvent, driverVars
  <2>6. CASE SendEvent(g)
    BY <2>1, <2>2, <2>3, <2>6 DEF SendEvent
  <2>7. CASE CloseEvent(g)
    BY <2>1, <2>2, <2>3, <2>7 DEF CloseEvent, EventInv
  <2>8. QED
    BY <1>3, <2>4, <2>5, <2>6, <2>7 DEF ConsiderEndStep
<1>4. CASE WaiterStep
  <2>1. CASE BeginWait \/ WaitTimeout
    BY <2>1 DEF BeginWait, WaitTimeout, driverVars
  <2>2. CASE ReceiveEvent
    BY <2>2 DEF ReceiveEvent
  <2>3. CASE ClearEvent
    BY <2>3 DEF ClearEvent
  <2>4. QED
    BY <1>4, <2>1, <2>2, <2>3 DEF WaiterStep
<1>5. CASE UNCHANGED vars
  BY <1>5 DEF vars, driverVars, waiterVars
<1>6. QED
  BY <1>1, <1>2, <1>3, <1>4, <1>5 DEF Next

LEMMA ClosedStep ==
  ASSUME LIInv, ClosedInv, [LNext]_allVars
  PROVE  ClosedInv'
<1> USE DEF ClosedInv, LIInv, SigtermInv
<1>1. CASE UNCHANGED allVars
  BY <1>1 DEF allVars, vars, processVars
<1>2. CASE Listen \/ ServeEnds \/ MainReturns
  BY <1>2 DEF Listen, ServeEnds, MainReturns, vars
<1>3. CASE MainWaits
  BY <1>3, DriverStep DEF MainWaits, processVars
<1>4. CASE Notify \/ TakeSignal \/ ReloadReturns \/ StopListener
  BY <1>4 DEF Notify, TakeSignal, ReloadReturns, StopListener, vars
<1>5. CASE StopDriver
  BY <1>5, DriverStep DEF StopDriver
<1>6. ASSUME NEW c \in Clients, Accept(c) \/ ClientRuns(c) PROVE ClosedInv'
  BY <1>6, DriverStep DEF Accept, ClientRuns, processVars
<1>7. ASSUME NEW sig \in {"SIGTERM", "SIGHUP"}, Signal(sig) PROVE ClosedInv'
  BY <1>7 DEF Signal, vars
<1>8. QED
  BY <1>1, <1>2, <1>3, <1>4, <1>5, <1>6, <1>7 DEF LNext, MainStep, HandlerStep

\* The minute of the wait is not spent on an empty server: if nobody is
\* counted, somebody is about to raise the event or has raised it
\* (server.go:126-168, main.go:112).
THEOREM MinuteIsForClients == LSpec => TimeoutOnlyWithClients
<1> DEFINE Inv == LIInv /\ RaisedInv /\ ClosedInv
<1>1. LInit => Inv
  BY InitLIInv DEF LInit, Init, RaisedInv, ClosedInv, Goroutines
<1>2. Inv /\ [LNext]_allVars => Inv'
  BY NextLIInv, RaisedStep, ClosedStep, ProcessStep DEF LIInv, allVars
<1>3. ASSUME Inv, [LNext]_allVars,
             verdict = "none", verdict' = "timeout", listener # "none"
      PROVE  Members # {} \/ lock # NoOne \/ buffer # "none"
  <2>1. main = "wait" /\ waiter = "select"
    <3>1. CASE MainWaits
      BY <1>3, <3>1 DEF MainWaits, WaiterStep, BeginWait, ReceiveEvent, WaitTimeout,
                        ClearEvent, driverVars
    <3>2. verdict' = verdict \/ MainWaits
      BY <1>3 DEF LNext, MainStep, HandlerStep, Listen, ServeEnds, MainReturns, Notify,
         TakeSignal, ReloadReturns, StopDriver, StopListener, Accept, ClientRuns, Signal,
         Arrive, ClientConnected, Hangup, ClientDisconnected, ConsiderEndStep, ConsiderEnd,
         ReloadEvent, SendEvent, CloseEvent, Stop, vars, waiterVars, allVars
    <3>3. QED
      BY <1>3, <3>1, <3>2
  <2>2. listener = "closed"
    BY <1>3, <2>1 DEF LIInv, LTypeOK, SigtermInv
  <2>3. Members = {} => nbClients = 0
    BY <1>3, MembersFinite DEF LIInv, IInv, CountExact
  <2>4. QED
    BY <1>3, <2>1, <2>2, <2>3 DEF RaisedInv, ClosedInv
<1>4. QED
  BY <1>1, <1>2, <1>3, PTL DEF LSpec, TimeoutOnlyWithClients

=============================================================================
