------------------------------ MODULE SharedFs ------------------------------
(***************************************************************************)
(* What the cache of shared file systems promises, without a lock: a login *)
(* is served in one step, with the shared instance of its user when there  *)
(* is one, and with a new one otherwise; the first shared instance of a    *)
(* user is the only one, and a login that fails leaves nothing behind.     *)
(***************************************************************************)
CONSTANTS
  Sessions,  \* the logins
  Users,     \* user names
  Instances, \* file systems
  NoFs       \* no file system

VARIABLES
  store,     \* store[u]: the shared instance of user u, or NoFs
  served     \* served[s]: what login s was given, or NoFs

svars == <<store, served>>

Init ==
  /\ store = [u \in Users |-> NoFs]
  /\ served = [s \in Sessions |-> NoFs]

Reuse(u, instance) ==
  /\ store[u] = instance
  /\ UNCHANGED store

\* A new instance is one that nobody uses.  It may become the shared one.
Create(u, instance) ==
  /\ store[u] = NoFs
  /\ instance \notin {served[s] : s \in Sessions}
  /\ store' \in {store, [store EXCEPT ![u] = instance]}

Login(s) ==
  /\ served[s] = NoFs
  /\ \E instance \in Instances :
       /\ served' = [served EXCEPT ![s] = instance]
       /\ \E u \in Users : Reuse(u, instance) \/ Create(u, instance)

Next == \E s \in Sessions : Login(s)

Spec == Init /\ [][Next]_svars

=============================================================================
