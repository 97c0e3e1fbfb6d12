----------------------------- MODULE Lifecycle -----------------------------
(***************************************************************************)
(* The life of the ftpserver process, from `go signalHandler()' in main to *)
(* its end: the main goroutine (listen, serve, wait), the signal goroutine *)
(* (reload on SIGHUP, stop on SIGTERM), the listener of the FTP library,   *)
(* and the driver of module GracefulStop, whose callers now run in the     *)
(* order main.go gives them.                                               *)
(***************************************************************************)
EXTENDS GracefulStop

VARIABLES
  main,      \* where main is: "listen", "serve", "wait"
  listener,  \* the library's listener: "none" before Listen, "open", "closed"
  handler,   \* where signalHandler is
  pending,   \* the signal in its channel of capacity 1, or "none"
  exit,      \* "no", "returned" (main), "killed" (by a signal), "crashed" (reload)
  sigterm    \* TRUE once a SIGTERM was sent to the process

processVars == <<main, listener, handler, pending, exit, sigterm>>

allVars == <<vars, processVars>>

Running == exit = "no" /\ ~panicked

MainAt(place)    == Running /\ main = place
HandlerAt(place) == Running /\ handler = place

LInit ==
  /\ Init
  /\ main = "listen"
  /\ listener = "none"
  /\ handler = "start"
  /\ pending = "none"
  /\ exit = "no"
  /\ sigterm = FALSE

-----------------------------------------------------------------------------

\* ListenAndServe: Listen creates the listener, or fails (port in use).
Listen ==
  /\ MainAt("listen")
  /\ \/ listener' = "open" /\ main' = "serve"
     \/ listener' = "none" /\ main' = "wait"
  /\ UNCHANGED <<vars, handler, pending, exit, sigterm>>

\* The accept loop of the library starts a goroutine for a connection.
Accept(c) ==
  /\ MainAt("serve")
  /\ listener = "open"
  /\ Arrive(c)
  /\ UNCHANGED processVars

\* Accept fails on the closed listener: ListenAndServe returns.
ServeEnds ==
  /\ MainAt("serve")
  /\ listener = "closed"
  /\ main' = "wait"
  /\ UNCHANGED <<vars, listener, handler, pending, exit, sigterm>>

\* The driver's goroutines; ConsiderEndStep(Stopper) is the rest of Stop.
ClientRuns(c) ==
  /\ Running
  /\ ClientConnected(c) \/ Hangup(c) \/ ClientDisconnected(c) \/ ConsiderEndStep(c)
  /\ UNCHANGED processVars

\* driver.WaitGracefully(time.Minute), once ListenAndServe has returned.
MainWaits ==
  /\ MainAt("wait")
  /\ WaiterStep
  /\ UNCHANGED processVars

\* main returns: the process ends, whatever its other goroutines are doing.
MainReturns ==
  /\ Running
  /\ waiter = "returned"
  /\ exit' = "returned"
  /\ UNCHANGED <<vars, main, listener, handler, pending, sigterm>>

-----------------------------------------------------------------------------

\* signal.Notify for SIGTERM, then for SIGHUP.
Notified ==
  CASE handler = "start"   -> {}
    [] handler = "notify"  -> {"SIGTERM"}
    [] OTHER               -> {"SIGTERM", "SIGHUP"}

Notify ==
  /\ \/ HandlerAt("start") /\ handler' = "notify"
     \/ HandlerAt("notify") /\ handler' = "receive"
  /\ UNCHANGED <<vars, main, listener, pending, exit, sigterm>>

\* The operating system delivers a signal.  The runtime never blocks to hand
\* it over: when the channel is full the signal is dropped.
Signal(sig) ==
  /\ Running
  /\ sigterm' = (sigterm \/ sig = "SIGTERM")
  /\ \/ /\ sig \notin Notified
        /\ exit' = "killed"
        /\ UNCHANGED pending
     \/ /\ sig \in Notified
        /\ pending' = IF pending = "none" THEN sig ELSE pending
        /\ UNCHANGED exit
  /\ UNCHANGED <<vars, main, listener, handler>>

\* Mutant of TakeSignal: every signal stops the server.
TakeAnySignal ==
  /\ HandlerAt("receive")
  /\ pending # "none"
  /\ handler' = "stop"
  /\ pending' = "none"
  /\ UNCHANGED <<vars, main, listener, exit, sigterm>>

TakeSignal ==
  /\ HandlerAt("receive")
  /\ pending # "none"
  /\ handler' = IF pending = "SIGHUP" THEN "reload" ELSE "stop"
  /\ pending' = "none"
  /\ UNCHANGED <<vars, main, listener, exit, sigterm>>

\* Mutant of ReloadReturns: an error of the reload ends the handler.
ReloadMayEndHandler ==
  /\ HandlerAt("reload")
  /\ \/ handler' \in {"receive", "done"} /\ UNCHANGED exit
     \/ exit' = "crashed" /\ UNCHANGED handler
  /\ UNCHANGED <<vars, main, listener, pending, sigterm>>

\* driver.ReloadConfig returns, with or without an error; or it panics, as
\* hashing does on an access that is null, and nothing recovers the handler.
ReloadReturns ==
  /\ HandlerAt("reload")
  /\ \/ handler' = "receive" /\ UNCHANGED exit
     \/ exit' = "crashed" /\ UNCHANGED handler
  /\ UNCHANGED <<vars, main, listener, pending, sigterm>>

\* stop(): driver.Stop() first ...
StopDriver ==
  /\ HandlerAt("stop")
  /\ Stop \/ ConsiderEndStep(Stopper)
  /\ UNCHANGED processVars

\* ... then ftpServer.Stop(), which fails when nothing listens yet.  The
\* handler then leaves its loop for good.
StopListener ==
  /\ HandlerAt("stop")
  /\ at[Stopper] = "stopped"
  /\ listener' = IF listener = "open" THEN "closed" ELSE listener
  /\ handler' = "done"
  /\ UNCHANGED <<vars, main, pending, exit, sigterm>>

-----------------------------------------------------------------------------

MainStep    == Listen \/ ServeEnds \/ MainWaits \/ MainReturns
HandlerStep == Notify \/ TakeSignal \/ ReloadReturns \/ StopDriver \/ StopListener

LNext ==
  \/ MainStep
  \/ HandlerStep
  \/ \E c \in Clients : Accept(c) \/ ClientRuns(c)
  \/ \E sig \in {"SIGTERM", "SIGHUP"} : Signal(sig)

LSpec == LInit /\ [][LNext]_allVars

(***************************************************************************)
(* Every goroutine that can run eventually runs and the timer of one       *)
(* minute eventually fires (both are part of MainStep).  Go's sync.Mutex   *)
(* hands itself to a goroutine that has waited for 1ms, hence the strong   *)
(* fairness of the steps that lock.  Nothing forces a signal, a new        *)
(* connection or the end of one.                                           *)
(***************************************************************************)
Fairness ==
  /\ WF_allVars(MainStep)
  /\ WF_allVars(HandlerStep)
  /\ SF_allVars(StopDriver)
  /\ \A c \in Clients :
       /\ WF_allVars(Running /\ ConsiderEndStep(c) /\ UNCHANGED processVars)
       /\ SF_allVars(Running /\ ClientConnected(c) /\ UNCHANGED processVars)
       /\ SF_allVars(Running /\ ClientDisconnected(c) /\ UNCHANGED processVars)

FairSpec == LSpec /\ Fairness

-----------------------------------------------------------------------------

LTypeOK ==
  /\ TypeOK
  /\ main \in {"listen", "serve", "wait"}
  /\ listener \in {"none", "open", "closed"}
  /\ handler \in {"start", "notify", "receive", "reload", "stop", "done"}
  /\ pending \in {"none", "SIGTERM", "SIGHUP"}
  /\ exit \in {"no", "returned", "killed", "crashed"}
  /\ sigterm \in BOOLEAN

\* Nothing the clients do stops a server nobody asked to stop: none of their
\* callbacks panics, and main leaves ListenAndServe only because it could not
\* listen.
OnlySigtermEndsServing ==
  ~sigterm => ~panicked /\ (main = "wait" => listener = "none")

\* The minute is spent on clients (main.go:112): when the wait of a server
\* that has listened gives up, a client is counted, one is in the middle of
\* its last callback, or the event was raised at the last moment.
TimeoutOnlyWithClients ==
  [][verdict = "none" /\ verdict' = "timeout" /\ listener # "none" =>
       Members # {} \/ lock # NoOne \/ buffer # "none"]_allVars

\* When the listener is closed the process ends: by the event, by the
\* timeout, or by a panic.
ClosedListenerEndsProcess == listener = "closed" ~> ~Running

\* A connection that ends is uncounted, whoever holds the mutex: no client
\* is kept in the driver by another one for as long as the process lives.
DisconnectReturns ==
  \A c \in Clients : at[c] = "leaving" ~> at[c] = "away" \/ ~Running

\* A SIGTERM that reached the handler's channel is carried out to the end,
\* behind a reload or behind clients that hold the mutex.
PendingSigtermStops ==
  pending = "SIGTERM" ~> (handler = "done" /\ at[Stopper] = "stopped") \/ ~Running

-----------------------------------------------------------------------------
(***************************************************************************)
(* What the repository says of the program and the code does not do.       *)
(***************************************************************************)

\* server.go:141, "Stop will trigger a graceful stop of the server": after the
\* event was raised and its channel closed, no client that comes and goes late
\* ends the process by a panic.
StopIsGraceful == channel = "closed" => ~panicked

=============================================================================
