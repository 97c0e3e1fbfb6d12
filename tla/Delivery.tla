------------------------------ MODULE Delivery ------------------------------
(***************************************************************************)
(* What closing an uploaded file promises, without a buffer, a position in *)
(* it or a list of names: what the client has written is delivered at most *)
(* once, as a whole, after the last write and never after the answer.  The *)
(* client is told "sent" only after the delivery.  "failed" leaves it open *)
(* whether there was one, for the reply to it may be lost; but a delivery  *)
(* whose reply has come is never called a failure.                         *)
(***************************************************************************)
EXTENDS Naturals, Sequences

CONSTANT Files

VARIABLES
  accepted,  \* accepted[f]: how much of file f the client has written
  parcels,   \* what the recipient's server has taken, in its order
  answer     \* answer[f]: what the client was told at the end, or "none"

dvars == <<accepted, parcels, answer>>

Init ==
  /\ accepted = [f \in Files |-> 0]
  /\ parcels = <<>>
  /\ answer = [f \in Files |-> "none"]

Delivered(f) == \E i \in DOMAIN parcels : parcels[i].of = f

Parcel(f) == [of |-> f, size |-> accepted[f]]

Accept(f) ==
  /\ answer[f] = "none"
  /\ ~Delivered(f)
  /\ accepted' = [accepted EXCEPT ![f] = @ + 1]
  /\ UNCHANGED <<parcels, answer>>

\* The client is told at once, or later, or the reply to the delivery is lost.
Deliver(f) ==
  /\ answer[f] = "none"
  /\ ~Delivered(f)
  /\ parcels' = Append(parcels, Parcel(f))
  /\ \E told \in {"none", "sent", "failed"} : answer' = [answer EXCEPT ![f] = told]
  /\ UNCHANGED accepted

Confirm(f) ==
  /\ answer[f] = "none"
  /\ Delivered(f)
  /\ answer' = [answer EXCEPT ![f] = "sent"]
  /\ UNCHANGED <<accepted, parcels>>

Fail(f) ==
  /\ answer[f] = "none"
  /\ ~Delivered(f)
  /\ answer' = [answer EXCEPT ![f] = "failed"]
  /\ UNCHANGED <<accepted, parcels>>

Next == \E f \in Files : Accept(f) \/ Deliver(f) \/ Confirm(f) \/ Fail(f)

Spec == Init /\ [][Next]_dvars

=============================================================================
