----------------------------- MODULE ServedRules -----------------------------
(***************************************************************************)
(* What a server promises about the rules it checks logins with: they are  *)
(* those the file had at one moment, taken over in one step, and they      *)
(* change no further way until the process ends.  How and when the file is *)
(* changed, also by the server itself, is left open.                       *)
(***************************************************************************)
CONSTANTS
  Rules,   \* who is logged in as whom, for all credentials
  NoRules  \* an unreadable file, or no server

VARIABLES
  up,      \* the process runs
  file,    \* the rules of the file
  rules    \* the rules of the server

rvars == <<up, file, rules>>

Init ==
  /\ up = FALSE
  /\ file \in Rules \cup {NoRules}
  /\ rules = NoRules

\* Somebody changes the file.
Save ==
  /\ file' \in Rules \cup {NoRules}
  /\ UNCHANGED <<up, rules>>

Start ==
  /\ ~up
  /\ up' = TRUE
  /\ UNCHANGED <<file, rules>>

Adopt ==
  /\ up
  /\ file # NoRules
  /\ rules' = file
  /\ UNCHANGED <<up, file>>

\* The process ends, perhaps in the middle of a write.
End ==
  /\ up
  /\ up' = FALSE
  /\ rules' = NoRules
  /\ file' \in {file, NoRules}

Next == Save \/ Start \/ Adopt \/ End

Spec == Init /\ [][Next]_rvars

=============================================================================
