---------------------------- MODULE GracefulStop ----------------------------
(***************************************************************************)
(* The part of server.Server that counts clients and ends the program:     *)
(* ClientConnected, ClientDisconnected, Stop, considerEnd, WaitGracefully. *)
(*                                                                         *)
(* Its callers are goroutines: one for each connected client, one that     *)
(* stops the server and the main one that waits for the end.  Here they    *)
(* may call in any order; module Lifecycle adds the order main.go gives.   *)
(*                                                                         *)
(* nbClientsSync protects nbClients, but WaitGracefully reads and clears   *)
(* the field zeroClientEvent without holding it.  Hence every access of    *)
(* considerEnd to the field is a step of its own.                          *)
(***************************************************************************)
EXTENDS Integers, FiniteSets

CONSTANTS
  Clients,  \* goroutines of the clients
  Stopper,  \* goroutine that calls Stop
  NoOne     \* the holder of a mutex that is free

ASSUME ClientsAssumption ==
  /\ IsFiniteSet(Clients)
  /\ Stopper \notin Clients
  /\ NoOne \notin Clients \cup {Stopper}

Goroutines == Clients \cup {Stopper}

VARIABLES
  at,               \* at[g]: where goroutine g is
  lock,             \* the holder of nbClientsSync
  nbClients,        \* Server.nbClients
  zeroClientEvent,  \* the field: "nil" or the "channel" that Stop made
  buffer,           \* what the channel went through: "none", "sent", "received"
  channel,          \* "open" or "closed", once made
  waiter,           \* where WaitGracefully is
  waitsOn,          \* the value of zeroClientEvent that its select evaluated
  verdict,          \* its answer: "none" yet, "event" or "timeout"
  panicked          \* TRUE when a goroutine panicked, which ends the process

vars == <<at, lock, nbClients, zeroClientEvent, buffer, channel,
          waiter, waitsOn, verdict, panicked>>

driverVars  == <<nbClients, zeroClientEvent, buffer, channel, panicked>>
waiterVars  == <<waiter, waitsOn, verdict>>

\* Inside the critical section of nbClientsSync, from considerEnd's test on.
Deciding  == {"raise", "reload", "stuck", "close"}
Critical  == {"consider"} \cup Deciding

Init ==
  /\ at = [g \in Goroutines |-> IF g = Stopper THEN "idle" ELSE "away"]
  /\ lock = NoOne
  /\ nbClients = 0
  /\ zeroClientEvent = "nil"
  /\ buffer = "none"
  /\ channel = "open"
  /\ waiter = "before"
  /\ waitsOn = "nil"
  /\ verdict = "none"
  /\ panicked = FALSE

\* Where a goroutine is; a panic has ended them all.
At(g, place) == ~panicked /\ at[g] = place
WaiterAt(place) == ~panicked /\ waiter = place

Goto(g, place) == at' = [at EXCEPT ![g] = place]

\* Mutant of ReturnUnlocking: the deferred Unlock is forgotten.
ReturnLocked(g) ==
  /\ UNCHANGED lock
  /\ Goto(g, IF g = Stopper THEN "stopped" ELSE "away")

\* The deferred Unlock, and the return to the caller.
ReturnUnlocking(g) ==
  /\ lock' = NoOne
  /\ Goto(g, IF g = Stopper THEN "stopped" ELSE "away")

-----------------------------------------------------------------------------

\* The server library has accepted a connection and started its goroutine.
Arrive(c) ==
  /\ At(c, "away")
  /\ Goto(c, "accepted")
  /\ UNCHANGED <<lock, driverVars, waiterVars>>

\* Mutant of ClientConnected: an early return leaves the client uncounted.
ConnectedUncounted(c) ==
  /\ At(c, "accepted")
  /\ lock = NoOne
  /\ Goto(c, "counted")
  /\ UNCHANGED <<lock, driverVars, waiterVars>>

\* Mutant of ClientConnected: the counter is incremented without the mutex.
ConnectedUnlocked(c) ==
  /\ At(c, "accepted")
  /\ nbClients' = nbClients + 1
  /\ Goto(c, "counted")
  /\ UNCHANGED <<lock, zeroClientEvent, buffer, channel, panicked, waiterVars>>

\* One atomic step: nothing in the critical section is seen outside it.
ClientConnected(c) ==
  /\ At(c, "accepted")
  /\ lock = NoOne
  /\ nbClients' = nbClients + 1
  /\ Goto(c, "counted")
  /\ UNCHANGED <<lock, zeroClientEvent, buffer, channel, panicked, waiterVars>>

\* The connection ends, whatever the reason.
Hangup(c) ==
  /\ At(c, "counted")
  /\ Goto(c, "leaving")
  /\ UNCHANGED <<lock, driverVars, waiterVars>>

\* Mutant of ClientDisconnected: the last client is not uncounted.
DisconnectedKeepsLast(c) ==
  /\ At(c, "leaving")
  /\ lock = NoOne
  /\ lock' = c
  /\ nbClients' = IF nbClients = 1 THEN 1 ELSE nbClients - 1
  /\ Goto(c, "consider")
  /\ UNCHANGED <<zeroClientEvent, buffer, channel, panicked, waiterVars>>

ClientDisconnected(c) ==
  /\ At(c, "leaving")
  /\ lock = NoOne
  /\ lock' = c
  /\ nbClients' = nbClients - 1
  /\ Goto(c, "consider")
  /\ UNCHANGED <<zeroClientEvent, buffer, channel, panicked, waiterVars>>

\* Mutant of Stop: the case that nobody is connected is forgotten.
StopUnconsidered ==
  /\ At(Stopper, "idle")
  /\ lock = NoOne
  /\ zeroClientEvent' = "channel"
  /\ Goto(Stopper, "stopped")
  /\ UNCHANGED <<lock, nbClients, buffer, channel, panicked, waiterVars>>

\* Called once: signalHandler leaves its loop after its first SIGTERM.
Stop ==
  /\ At(Stopper, "idle")
  /\ lock = NoOne
  /\ lock' = Stopper
  /\ zeroClientEvent' = "channel"
  /\ Goto(Stopper, "consider")
  /\ UNCHANGED <<nbClients, buffer, channel, panicked, waiterVars>>

-----------------------------------------------------------------------------

\* Mutant of ConsiderEnd: the event does not wait for the last client.
ConsiderEndAtOnce(g) ==
  /\ At(g, "consider")
  /\ IF zeroClientEvent # "nil"
       THEN Goto(g, "raise") /\ UNCHANGED lock
       ELSE ReturnUnlocking(g)
  /\ UNCHANGED <<driverVars, waiterVars>>

\* considerEnd's test.  No synchronisation separates it from the send, so
\* the build may use the channel it has loaded or load the field again.
ConsiderEnd(g) ==
  /\ At(g, "consider")
  /\ IF nbClients = 0 /\ zeroClientEvent # "nil"
       THEN /\ Goto(g, "raise") \/ Goto(g, "reload")
            /\ UNCHANGED lock
       ELSE ReturnUnlocking(g)
  /\ UNCHANGED <<driverVars, waiterVars>>

\* A send on a nil channel blocks for ever, with the mutex held.
ReloadEvent(g) ==
  /\ At(g, "reload")
  /\ Goto(g, IF zeroClientEvent = "nil" THEN "stuck" ELSE "raise")
  /\ UNCHANGED <<lock, driverVars, waiterVars>>

\* s.zeroClientEvent <- nil: a send on a closed channel panics.
SendEvent(g) ==
  /\ At(g, "raise")
  /\ \/ /\ channel = "closed"
        /\ panicked' = TRUE
        /\ UNCHANGED <<at, buffer>>
     \/ /\ channel = "open"
        /\ buffer # "sent"
        /\ buffer' = "sent"
        /\ Goto(g, "close")
        /\ UNCHANGED panicked
  /\ UNCHANGED <<lock, nbClients, zeroClientEvent, channel, waiterVars>>

\* close(s.zeroClientEvent) loads the field again; closing nil panics.
CloseEvent(g) ==
  /\ At(g, "close")
  /\ \/ /\ zeroClientEvent = "nil" \/ channel = "closed"
        /\ panicked' = TRUE
        /\ UNCHANGED <<at, lock, channel>>
     \/ /\ zeroClientEvent # "nil"
        /\ channel = "open"
        /\ channel' = "closed"
        /\ ReturnUnlocking(g)
        /\ UNCHANGED panicked
  /\ UNCHANGED <<nbClients, zeroClientEvent, buffer, waiterVars>>

-----------------------------------------------------------------------------

\* Mutant of BeginWait: the field is cleared when the wait begins.
BeginWaitClearing ==
  /\ WaiterAt("before")
  /\ waiter' = "select"
  /\ waitsOn' = zeroClientEvent
  /\ zeroClientEvent' = "nil"
  /\ UNCHANGED <<at, lock, nbClients, buffer, channel, panicked, verdict>>

\* WaitGracefully enters its select: the channel operand is evaluated now.
BeginWait ==
  /\ WaiterAt("before")
  /\ waiter' = "select"
  /\ waitsOn' = zeroClientEvent
  /\ UNCHANGED <<at, lock, driverVars, verdict>>

\* A nil channel is never ready.
ReceiveEvent ==
  /\ WaiterAt("select")
  /\ waitsOn = "channel"
  /\ buffer = "sent"
  /\ buffer' = "received"
  /\ verdict' = "event"
  /\ waiter' = "clear"
  /\ UNCHANGED <<at, lock, nbClients, zeroClientEvent, channel, panicked, waitsOn>>

\* Mutant of WaitTimeout: the timer is armed only when there is no channel.
WaitTimeoutWithoutChannel ==
  /\ WaiterAt("select")
  /\ waitsOn = "nil"
  /\ verdict' = "timeout"
  /\ waiter' = "clear"
  /\ UNCHANGED <<at, lock, driverVars, waitsOn>>

WaitTimeout ==
  /\ WaiterAt("select")
  /\ verdict' = "timeout"
  /\ waiter' = "clear"
  /\ UNCHANGED <<at, lock, driverVars, waitsOn>>

\* The deferred function: it writes the field without the mutex.
ClearEvent ==
  /\ WaiterAt("clear")
  /\ zeroClientEvent' = "nil"
  /\ waiter' = "returned"
  /\ UNCHANGED <<at, lock, nbClients, buffer, channel, panicked, waitsOn, verdict>>

-----------------------------------------------------------------------------

ClientStep(c) ==
  Arrive(c) \/ ClientConnected(c) \/ Hangup(c) \/ ClientDisconnected(c)

ConsiderEndStep(g) ==
  ConsiderEnd(g) \/ ReloadEvent(g) \/ SendEvent(g) \/ CloseEvent(g)

WaiterStep == BeginWait \/ ReceiveEvent \/ WaitTimeout \/ ClearEvent

Next ==
  \/ \E c \in Clients : ClientStep(c)
  \/ Stop
  \/ \E g \in Goroutines : ConsiderEndStep(g)
  \/ WaiterStep

Spec == Init /\ [][Next]_vars

-----------------------------------------------------------------------------

TypeOK ==
  /\ at \in [Goroutines -> {"away", "accepted", "counted", "leaving",
                            "idle", "stopped"} \cup Critical]
  /\ \A c \in Clients : at[c] \notin {"idle", "stopped"}
  /\ at[Stopper] \in {"idle", "stopped"} \cup Critical
  /\ lock \in Goroutines \cup {NoOne}
  /\ nbClients \in Nat
  /\ zeroClientEvent \in {"nil", "channel"}
  /\ buffer \in {"none", "sent", "received"}
  /\ channel \in {"open", "closed"}
  /\ waiter \in {"before", "select", "clear", "returned"}
  /\ waitsOn \in {"nil", "channel"}
  /\ verdict \in {"none", "event", "timeout"}
  /\ panicked \in BOOLEAN

\* The clients that ClientConnected has counted and ClientDisconnected not yet.
Members == {c \in Clients : at[c] \in {"counted", "leaving"}}

\* The counter is exact whatever the interleaving: it is the number of the
\* clients between their two callbacks, so the uint32 never wraps below 0.
CountExact == nbClients = Cardinality(Members)

\* While a goroutine raises the event nobody is counted, although clients
\* keep arriving: the mutex is held from the test to the close.
EmptyWhileRaising == \A g \in Goroutines : at[g] \in Deciding => Members = {}

\* A goroutine blocks on the nil channel, keeping every other client out,
\* only when WaitGracefully has cleared the field and main is returning.
StuckOnlyAtTheEnd ==
  \A g \in Goroutines : at[g] = "stuck" => waiter = "returned"

\* The refinement: the channel's history is the phase of the abstract stop.
Phase ==
  CASE at[Stopper] = "idle"                     -> "serving"
    [] at[Stopper] # "idle" /\ buffer = "none"  -> "stopping"
    [] at[Stopper] # "idle" /\ buffer # "none"  -> "drained"

D == INSTANCE Drain WITH members <- Members, phase <- Phase, failed <- panicked

\* A graceful end is reported, and a panic can occur, only after a moment at
\* which a stop had been requested and no client was counted.
ImplementsDrain == D!Spec

=============================================================================
