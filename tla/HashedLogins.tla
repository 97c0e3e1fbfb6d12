---------------------------- MODULE HashedLogins ----------------------------
(***************************************************************************)
(* The loop of HashPlaintextPasswords over a Content that is in force      *)
(* already: Load publishes it first, so clients log in while bcrypt works, *)
(* and a Keycloak entry takes their user and password at any moment.       *)
(* ConfigFile takes the loop for one step, HashAccesses.                   *)
(***************************************************************************)
EXTENDS Credentials, SequencesExt

CONSTANTS
  Users, Texts,  \* names and passwords, in the file and at the prompt
  MaxAccesses,   \* length of the longest list
  Logins         \* bound on the logins through Keycloak

ASSUME HashedLoginsAssumption ==
  /\ Anonymous \in Users
  /\ Star \in Texts
  /\ Unhashable \subseteq Texts
  /\ MaxAccesses \in Nat
  /\ Logins \in Nat

VARIABLES
  written,   \* the accesses as the administrator wrote them
  accesses,  \* Content.Accesses
  json,      \* the accesses in the text that will be written
  next,      \* the index the loop is at
  digest,    \* what hasher.Hash returned for it, <<>> before
  logins

hvars == <<written, accesses, json, next, digest, logins>>

Entries ==
  [user : Users,
   pass : [form : {"plain", "hashed", "garbled"}, text : Texts],
   fs   : {"os", "keycloak"}]

Init ==
  /\ written \in BoundedSeq(Entries, MaxAccesses)
  /\ accesses = written
  /\ json = written
  /\ next = 1
  /\ digest = <<>>
  /\ logins = 0

-----------------------------------------------------------------------------

InLoop == next \in DOMAIN accesses
Over == Len(written) + 1

\* The test of one entry, and bcrypt; an error ends the loop.
HashNext ==
  /\ InLoop
  /\ digest = <<>>
  /\ LET a == accesses[next]
     IN  \/ /\ ~ToHash(a)
            /\ next' = next + 1
            /\ UNCHANGED digest
         \/ /\ ToHash(a)
            /\ a.pass.text \in Unhashable
            /\ next' = Over
            /\ UNCHANGED digest
         \/ /\ ToHash(a)
            /\ a.pass.text \notin Unhashable
            /\ digest' = <<Hashed(a).pass>>
            /\ UNCHANGED next
  /\ UNCHANGED <<written, accesses, json, logins>>

\* Mutant of SetPass: sjson counts the accesses from 1.
SetPassFromOne ==
  /\ digest # <<>>
  /\ accesses' = [accesses EXCEPT ![next].pass = digest[1]]
  /\ json' = IF next > 1 THEN [json EXCEPT ![next - 1].pass = digest[1]] ELSE json
  /\ next' = next + 1
  /\ digest' = <<>>
  /\ UNCHANGED <<written, logins>>

\* The digest goes into the text, by position, and into the entry.
SetPass ==
  /\ digest # <<>>
  /\ accesses' = [accesses EXCEPT ![next].pass = digest[1]]
  /\ json' = [json EXCEPT ![next].pass = digest[1]]
  /\ next' = next + 1
  /\ digest' = <<>>
  /\ UNCHANGED <<written, logins>>

\* GetAccess, when a Keycloak entry is the first that answers.
KeycloakLogin(user, pass) ==
  /\ logins < Logins
  /\ LET i == GetAccess(accesses, user, pass)
     IN  /\ i # Refused
         /\ Delegates(accesses[i])
         /\ accesses' = [accesses EXCEPT ![i].user = user,
                                         ![i].pass = [form |-> "plain", text |-> pass]]
  /\ logins' = logins + 1
  /\ UNCHANGED <<written, json, next, digest>>

Next ==
  \/ HashNext
  \/ SetPass
  \/ \E user \in Users, pass \in Texts : KeycloakLogin(user, pass)

Spec == Init /\ [][Next]_hvars

-----------------------------------------------------------------------------

\* At no moment of the hashing, and whoever logs in through Keycloak
\* meanwhile, does a login get another answer than before.
LoginsKept ==
  \A user \in Users, pass \in Texts :
    GetAccess(accesses, user, pass) = GetAccess(written, user, pass)

\* The answer to a login depends on the user's own entries only, and on
\* those of a backend that checks the password itself: without the others the
\* same entry is found.
OthersDoNotMatter ==
  \A user \in Users, pass \in Texts :
    LET own == {i \in DOMAIN accesses : \/ accesses[i].user = user
                                        \/ Delegates(accesses[i]) \/ Nil(accesses[i])}
    IN  GetAccess(accesses, user, pass) = GetAccess(Restrict(accesses, own), user, pass)

\* A Keycloak login during the hashing may have its password hashed into the
\* file, but into the entry of Keycloak only: every other entry keeps its
\* text, in the file and in memory.  Without such a login the loop is the
\* one step that ConfigFile takes it for.
OnlyKeycloakEntryDisturbed ==
  /\ \A i \in DOMAIN written : ~Delegates(written[i]) =>
       /\ accesses[i] \in {written[i], Hashed(written[i])}
       /\ json[i] = accesses[i]
  /\ next = Over /\ logins = 0 => accesses = HashAccesses(written) /\ json = accesses

=============================================================================
