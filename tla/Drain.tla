------------------------------- MODULE Drain -------------------------------
(***************************************************************************)
(* What the driver's counting and stopping promise, without a counter, a   *)
(* mutex or a channel: a set of clients that join and leave, a stop that   *)
(* is requested once, a moment at which the server is found empty, and the *)
(* answer the waiting main goroutine gets.  GracefulStop implements it.    *)
(***************************************************************************)

CONSTANT Clients

VARIABLES
  members,  \* the clients that are connected, as the driver counts them
  phase,    \* "serving", then "stopping" (a stop was requested), then "drained"
  verdict,  \* what WaitGracefully answers: "none" yet, "event" or "timeout"
  failed    \* TRUE when the process died of a panic

dvars == <<members, phase, verdict, failed>>

Init ==
  /\ members = {}
  /\ phase = "serving"
  /\ verdict = "none"
  /\ failed = FALSE

Join(c) ==
  /\ ~failed
  /\ c \notin members
  /\ members' = members \cup {c}
  /\ UNCHANGED <<phase, verdict, failed>>

Leave(c) ==
  /\ ~failed
  /\ c \in members
  /\ members' = members \ {c}
  /\ UNCHANGED <<phase, verdict, failed>>

RequestStop ==
  /\ ~failed
  /\ phase = "serving"
  /\ phase' = "stopping"
  /\ UNCHANGED <<members, verdict, failed>>

\* The server is found empty, once, after the stop was requested.
FoundEmpty ==
  /\ ~failed
  /\ phase = "stopping"
  /\ members = {}
  /\ phase' = "drained"
  /\ UNCHANGED <<members, verdict, failed>>

\* Only a drained server is reported as stopped gracefully.
ReportDrained ==
  /\ ~failed
  /\ verdict = "none"
  /\ phase = "drained"
  /\ verdict' = "event"
  /\ UNCHANGED <<members, phase, failed>>

GiveUp ==
  /\ ~failed
  /\ verdict = "none"
  /\ verdict' = "timeout"
  /\ UNCHANGED <<members, phase, failed>>

\* A panic is possible, but never before the server was found empty.
Fail ==
  /\ ~failed
  /\ phase = "drained"
  /\ failed' = TRUE
  /\ UNCHANGED <<members, phase, verdict>>

Next ==
  \/ \E c \in Clients : Join(c) \/ Leave(c)
  \/ RequestStop
  \/ FoundEmpty
  \/ ReportDrained
  \/ GiveUp
  \/ Fail

Spec == Init /\ [][Next]_dvars

=============================================================================
