---------------------------- MODULE Credentials ----------------------------
(***************************************************************************)
(* The list of accesses of a configuration: which entry answers a login    *)
(* (GetAccess), and what the replacement of the plain-text passwords by    *)
(* hashes does to the list (HashPlaintextPasswords).                       *)
(*                                                                         *)
(* An entry is a record with at least the fields                           *)
(*    user    the name of its user                                         *)
(*    pass    the password stored in it: [form, text]                      *)
(*    fs      its backend; only the value "keycloak" is looked at here     *)
(* The form of a stored password is                                        *)
(*    "plain"    the text itself                                           *)
(*    "hashed"   a digest of the text, under one of the eight prefixes     *)
(*    "garbled"  one of the prefixes, but not a digest of any text         *)
(*    "nil"      none: the entry is null in the file, a nil pointer here   *)
(***************************************************************************)
EXTENDS Integers, Sequences, FiniteSets

CONSTANTS
  Anonymous,  \* the user name "anonymous"
  Star,       \* the password "*"
  Unhashable  \* the texts that bcrypt refuses (longer than 72 bytes)

Refused == 0

Plain(a)   == a.pass.form = "plain"
Garbled(a) == a.pass.form = "garbled"
Nil(a)     == a.pass.form = "nil"

\* Anybody logs in as anonymous when its entry has the password "*".
Open(a) == a.user = Anonymous /\ Plain(a) /\ a.pass.text = Star

-----------------------------------------------------------------------------

Delegates(a) == a.fs = "keycloak"

\* Mutant of Accepts: the open entry of anonymous answers for every user.
AcceptsAnyone(a, user, pass) ==
  /\ ~Garbled(a) /\ ~Nil(a)
  /\ (a.user = user /\ a.pass.text = pass) \/ Open(a)

Accepts(a, user, pass) ==
  /\ a.user = user
  /\ ~Garbled(a) /\ ~Nil(a)
  /\ a.pass.text = pass \/ Open(a)

\* The digest of an entry of the user cannot be decoded or matched, or there
\* is no entry: the login panics, which the library makes an error.
Breaks(a, user) == Nil(a) \/ (a.user = user /\ Garbled(a))

\* The entry ends the loop of GetAccess.
Answers(a, user, pass) ==
  Delegates(a) \/ Accepts(a, user, pass) \/ Breaks(a, user)

Answering(accesses, user, pass) ==
  {i \in DOMAIN accesses : Answers(accesses[i], user, pass)}

First(indices) == CHOOSE i \in indices : \A j \in indices : i <= j

\* The index of the entry returned, or Refused (an error) when no entry
\* answers or the one that does cannot be decoded.
GetAccess(accesses, user, pass) ==
  LET answering == Answering(accesses, user, pass)
      granting  == {i \in answering : \/ Delegates(accesses[i])
                                      \/ Accepts(accesses[i], user, pass)}
  IN  IF answering # {} /\ First(answering) \in granting
        THEN First(answering)
        ELSE Refused

-----------------------------------------------------------------------------

\* Mutant of ToHash: anonymous's "*" is hashed like any other password.
ToHashAll(a) == Plain(a)

\* The entries whose password is replaced.
ToHash(a) == Plain(a) /\ ~Open(a)

Hashed(a) == IF ToHash(a) THEN [a EXCEPT !.pass = [@ EXCEPT !.form = "hashed"]] ELSE a

\* The entries whose password cannot be replaced.
Stubborn(accesses) ==
  {i \in DOMAIN accesses : ToHash(accesses[i]) /\ accesses[i].pass.text \in Unhashable}

\* An error ends the loop of HashPlaintextPasswords: the entries before it
\* have been replaced in memory.
Replaced(accesses) ==
  LET stubborn == Stubborn(accesses)
  IN  IF stubborn = {} THEN DOMAIN accesses
      ELSE {i \in DOMAIN accesses : i < First(stubborn)}

\* The loop panics when it reaches an entry that is nil.
Panics(accesses) ==
  \E i \in DOMAIN accesses :
    Nil(accesses[i]) /\ \A j \in Stubborn(accesses) : i < j

HashAccesses(accesses) ==
  [i \in DOMAIN accesses |->
     IF i \in Replaced(accesses) THEN Hashed(accesses[i]) ELSE accesses[i]]

=============================================================================
