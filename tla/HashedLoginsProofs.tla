------------------------- MODULE HashedLoginsProofs -------------------------
(***************************************************************************)
(* Proofs about the loop of HashPlaintextPasswords with Keycloak logins in *)
(* between, for every list of accesses and any number of logins.           *)
(***************************************************************************)
EXTENDS HashedLogins, CredentialsProofs

Indices == DOMAIN written
Passwords == [form : {"plain", "hashed", "garbled"}, text : Texts]

TypeInv ==
  /\ \E n \in Nat : written \in [1 .. n -> Entries] /\ Over = n + 1
  /\ accesses \in [Indices -> Entries]
  /\ json \in [Indices -> Entries]
  /\ next \in Nat
  /\ digest # <<>> => next \in Indices /\ digest \in Seq(Passwords) /\ digest[1] \in Passwords
  /\ logins \in Nat

\* An entry stays with its backend; one of another backend than Keycloak is as
\* it was written or hashed, and as it was written until the loop comes to it.
EntriesInv ==
  \A i \in Indices :
    /\ accesses[i].fs = written[i].fs
    /\ ~Delegates(written[i]) =>
         /\ accesses[i] \in {written[i], Hashed(written[i])}
         /\ json[i] = accesses[i]
         /\ digest # <<>> /\ i = next =>
              digest[1] = Hashed(written[i]).pass /\ ToHash(written[i])

IInv == TypeInv /\ EntriesInv

USE DEF Indices

LEMMA EntriesAreAccesses ==
  ASSUME NEW a \in Entries
  PROVE  IsAccess(a)
BY DEF Entries, IsAccess

LEMMA HashedEntry ==
  ASSUME NEW a \in Entries
  PROVE  /\ Hashed(a) \in Entries
         /\ Hashed(a).pass \in Passwords
         /\ Hashed(a).fs = a.fs
         /\ ~ToHash(Hashed(a))
         /\ [a EXCEPT !.pass = Hashed(a).pass] = Hashed(a)
<1>1. CASE ToHash(a)
  <2> DEFINE pass == [a.pass EXCEPT !.form = "hashed"]
  <2>1. Hashed(a) = [a EXCEPT !.pass = pass]
    BY <1>1 DEF Hashed
  <2>2. pass \in Passwords /\ pass.form = "hashed"
    BY DEF Entries, Passwords
  <2>3. QED
    BY <2>1, <2>2 DEF Entries, Passwords, ToHash, Plain
<1>2. CASE ~ToHash(a)
  BY <1>2 DEF Hashed, Entries, Passwords
<1>3. QED
  BY <1>1, <1>2

LEMMA InitIInv == Init => IInv
<1> SUFFICES ASSUME Init PROVE IInv
  OBVIOUS
<1>1. PICK n \in 0 .. MaxAccesses : written \in [1 .. n -> Entries]
  BY DEF Init, BoundedSeq, SeqOf
<1>2. n \in Nat /\ Len(written) = n
  BY <1>1, HashedLoginsAssumption
<1>3. QED
  BY <1>1, <1>2 DEF Init, IInv, TypeInv, EntriesInv, Over

\* The index is one of the list, so the loop knows its entry.
LEMMA Domains ==
  ASSUME TypeInv
  PROVE  /\ DOMAIN accesses = Indices /\ DOMAIN json = Indices
         /\ \A i \in Indices : i \in Nat /\ i + 1 \in Nat /\ written[i] \in Entries
         /\ Over \in Nat
BY DEF TypeInv

LEMMA HashNextIInv == IInv /\ HashNext => IInv'
<1> SUFFICES ASSUME IInv, HashNext PROVE IInv'
  OBVIOUS
<1>1. /\ next \in Indices /\ digest = <<>>
      /\ UNCHANGED <<written, accesses, json, logins>>
      /\ Over' = Over
  BY Domains DEF HashNext, InLoop, IInv, Over
<1>2. CASE digest' = <<>>
  <2>1. next' \in Nat
    BY <1>1, <1>2, Domains DEF HashNext, IInv
  <2>2. QED
    BY <1>1, <1>2, <2>1 DEF IInv, TypeInv, EntriesInv
<1>3. CASE digest' # <<>>
  <2> DEFINE a == accesses[next]
  <2>1. ToHash(a) /\ digest' = <<Hashed(a).pass>> /\ next' = next
    BY <1>1, <1>3 DEF HashNext
  <2>2. a \in Entries /\ written[next] \in Entries
    BY <1>1, Domains DEF IInv, TypeInv
  <2>3. Hashed(a).pass \in Passwords
    BY <2>2, HashedEntry
  <2>4. digest' \in Seq(Passwords) /\ digest'[1] = Hashed(a).pass
    BY <2>1, <2>3
  <2>5. ~Delegates(written[next]) => a = written[next]
    BY <1>1, <2>1, <2>2, HashedEntry DEF IInv, EntriesInv
  <2>6. TypeInv'
    BY <1>1, <2>1, <2>3, <2>4 DEF IInv, TypeInv
  <2>7. EntriesInv'
    BY <1>1, <2>1, <2>4, <2>5 DEF IInv, EntriesInv
  <2>8. QED
    BY <2>6, <2>7 DEF IInv
<1>4. QED
  BY <1>2, <1>3

LEMMA SetPassIInv == IInv /\ SetPass => IInv'
<1> SUFFICES ASSUME IInv, SetPass PROVE IInv'
  OBVIOUS
<1> DEFINE p == digest[1]
           w == written[next]
<1>1. /\ next \in Indices /\ p \in Passwords /\ next + 1 \in Nat
      /\ accesses' = [accesses EXCEPT ![next].pass = p]
      /\ json' = [json EXCEPT ![next].pass = p]
      /\ next' = next + 1 /\ digest' = <<>>
      /\ UNCHANGED <<written, logins>>
      /\ Over' = Over
  BY DEF SetPass, IInv, TypeInv, Over
<1>2. /\ accesses \in [Indices -> Entries] /\ json \in [Indices -> Entries]
      /\ w \in Entries
  BY <1>1, Domains DEF IInv, TypeInv
<1>3. /\ accesses'[next] = [accesses[next] EXCEPT !.pass = p]
      /\ json'[next] = [json[next] EXCEPT !.pass = p]
      /\ \A i \in Indices : i # next => accesses'[i] = accesses[i] /\ json'[i] = json[i]
  BY <1>1, <1>2
<1>4. accesses'[next] \in Entries /\ json'[next] \in Entries
  BY <1>1, <1>2, <1>3 DEF Entries, Passwords
<1>5. accesses' \in [Indices -> Entries] /\ json' \in [Indices -> Entries]
  BY <1>1, <1>2, <1>4
<1>6. TypeInv'
  BY <1>1, <1>5 DEF IInv, TypeInv
<1>7. accesses'[next].fs = w.fs
  BY <1>1, <1>2, <1>3 DEF IInv, EntriesInv, Entries
<1>8. ASSUME ~Delegates(w)
      PROVE  accesses'[next] = Hashed(w) /\ json'[next] = Hashed(w)
  <2>1. /\ p = Hashed(w).pass /\ json[next] = accesses[next]
        /\ accesses[next] \in {w, Hashed(w)}
    BY <1>1, <1>8 DEF IInv, EntriesInv, SetPass
  <2>2. Hashed(w) \in Entries /\ [w EXCEPT !.pass = p] = Hashed(w)
    BY <1>2, <2>1, HashedEntry
  <2>3. [Hashed(w) EXCEPT !.pass = p] = Hashed(w)
    BY <2>1, <2>2 DEF Entries
  <2>4. QED
    BY <1>3, <2>1, <2>2, <2>3
<1>9. EntriesInv'
  BY <1>1, <1>3, <1>7, <1>8 DEF IInv, EntriesInv
<1>10. QED
  BY <1>6, <1>9 DEF IInv

LEMMA KeycloakIInv ==
  ASSUME IInv, NEW user \in Users, NEW pass \in Texts, KeycloakLogin(user, pass)
  PROVE  IInv'
<1> DEFINE i == GetAccess(accesses, user, pass)
           q == [form |-> "plain", text |-> pass]
<1>1. /\ i # Refused /\ Delegates(accesses[i])
      /\ accesses' = [accesses EXCEPT ![i].user = user, ![i].pass = q]
      /\ logins' = logins + 1
      /\ UNCHANGED <<written, json, next, digest>>
      /\ Over' = Over
  BY DEF KeycloakLogin, Over
<1>2. i \in Indices /\ accesses \in [Indices -> Entries]
  BY <1>1, Domains DEF GetAccess, Answering, IInv, TypeInv
<1>3. /\ accesses'[i] = [accesses[i] EXCEPT !.user = user, !.pass = q]
      /\ \A j \in Indices : j # i => accesses'[j] = accesses[j]
  BY <1>1, <1>2
<1>4. accesses'[i] \in Entries /\ accesses'[i].fs = accesses[i].fs
  <2>1. q \in Passwords
    BY DEF Passwords
  <2>2. accesses[i] \in [user : Users, pass : Passwords, fs : {"os", "keycloak"}]
    BY <1>2 DEF Entries, Passwords
  <2>3. accesses'[i] \in [user : Users, pass : Passwords, fs : {"os", "keycloak"}]
    BY <1>3, <2>1, <2>2
  <2>4. accesses'[i].fs = accesses[i].fs
    BY <1>3, <2>2
  <2>5. QED
    BY <2>3, <2>4 DEF Entries, Passwords
<1>5. Delegates(written[i])
  BY <1>1, <1>2 DEF IInv, EntriesInv, Delegates
<1>6. TypeInv'
  <2>1. accesses' \in [Indices -> Entries]
    BY <1>1, <1>2, <1>4
  <2>2. QED
    BY <1>1, <2>1 DEF IInv, TypeInv
<1>7. EntriesInv'
  BY <1>1, <1>2, <1>3, <1>4, <1>5 DEF IInv, EntriesInv
<1>8. QED
  BY <1>6, <1>7 DEF IInv

LEMMA Inductive == Spec => []IInv
<1>1. IInv /\ [Next]_hvars => IInv'
  <2> SUFFICES ASSUME IInv, [Next]_hvars PROVE IInv'
    OBVIOUS
  <2>1. CASE UNCHANGED hvars
    BY <2>1 DEF hvars, IInv, TypeInv, EntriesInv, Over
  <2>2. QED
    BY <2>1, HashNextIInv, SetPassIInv, KeycloakIInv DEF Next
<1>2. QED
  BY <1>1, InitIInv, PTL DEF Spec

\* Whoever logs in while the passwords are hashed gets the answer the file
\* gives, from whatever state the loop and other logins have left the list in
\* (config.go:107-157 against 197-343).
THEOREM LoginsKeptWhileHashing == Spec => []LoginsKept
<1>1. ASSUME IInv PROVE LoginsKept
  <2> SUFFICES ASSUME NEW user \in Users, NEW pass \in Texts
               PROVE  GetAccess(accesses, user, pass) = GetAccess(written, user, pass)
    BY DEF LoginsKept
  <2>1. DOMAIN accesses = DOMAIN written
    BY <1>1, Domains DEF IInv
  <2>2. ASSUME NEW i \in DOMAIN written
        PROVE  /\ Delegates(accesses[i]) <=> Delegates(written[i])
               /\ ~Delegates(written[i]) =>
                    /\ Accepts(accesses[i], user, pass) <=> Accepts(written[i], user, pass)
                    /\ Breaks(accesses[i], user) <=> Breaks(written[i], user)
    <3>1. IsAccess(written[i])
      BY <1>1, Domains, EntriesAreAccesses DEF IInv
    <3>2. Delegates(accesses[i]) <=> Delegates(written[i])
      BY <1>1 DEF IInv, EntriesInv, Delegates
    <3>3. ~Delegates(written[i]) => accesses[i] \in {written[i], Hashed(written[i])}
      BY <1>1 DEF IInv, EntriesInv
    <3>4. QED
      BY <3>1, <3>2, <3>3, HashedAnswers
  <2>3. Answering(accesses, user, pass) = Answering(written, user, pass)
    BY <2>1, <2>2 DEF Answering, Answers
  <2>4. QED
    BY <2>1, <2>2, <2>3 DEF GetAccess, Answering
<1>2. QED
  BY <1>1, Inductive, PTL

-----------------------------------------------------------------------------

\* Without a login the entries before the index k are hashed and the others
\* are as written; the loop is at k, or has failed there.
UpTo(k) ==
  /\ \A i \in Indices : accesses[i] = IF i < k THEN Hashed(written[i]) ELSE written[i]
  /\ \A i \in Indices : i < k => i \notin Stubborn(written)
  /\ next = k \/ (next = Over /\ k \in Stubborn(written))

AloneInv ==
  logins = 0 =>
    /\ json = accesses
    /\ \E k \in Nat : UpTo(k)
    /\ digest # <<>> =>
         /\ digest[1] = Hashed(written[next]).pass
         /\ next \in Indices
         /\ next \notin Stubborn(written)

LEMMA AloneInit == Init => AloneInv
<1> SUFFICES ASSUME Init PROVE AloneInv
  OBVIOUS
<1>1. \A i \in Indices : i >= 1
  <2>1. PICK n \in 0 .. MaxAccesses : written \in [1 .. n -> Entries]
    BY DEF Init, BoundedSeq, SeqOf
  <2>2. QED
    BY <2>1, HashedLoginsAssumption
<1>2. \A i \in Indices : i \in Nat
  BY InitIInv, Domains DEF IInv
<1>3. UpTo(1)
  BY <1>1, <1>2 DEF Init, UpTo
<1>4. QED
  BY <1>3 DEF Init, AloneInv

LEMMA OverIsNoIndex == TypeInv => Over \notin Indices
BY DEF TypeInv

LEMMA AloneHashNext ==
  ASSUME IInv, AloneInv, HashNext
  PROVE  AloneInv'
<1> SUFFICES ASSUME logins = 0 PROVE AloneInv'
  BY DEF AloneInv, HashNext
<1>1. /\ next \in Indices /\ digest = <<>>
      /\ UNCHANGED <<written, accesses, json, logins>>
      /\ Over' = Over /\ next # Over
      /\ json = accesses
  BY Domains, OverIsNoIndex DEF HashNext, InLoop, IInv, Over, AloneInv
<1>2. UpTo(next)
  BY <1>1 DEF AloneInv, UpTo
<1> DEFINE w == written[next]
<1>3. accesses[next] = w /\ w \in Entries /\ next \in Nat
  BY <1>1, <1>2, Domains DEF UpTo, IInv
<1>4. CASE ~ToHash(w)
  <2>1. next' = next + 1 /\ digest' = <<>>
    BY <1>1, <1>3, <1>4 DEF HashNext
  <2>2. Hashed(w) = w /\ next \notin Stubborn(written)
    BY <1>4 DEF Hashed, Stubborn
  <2>3. \A i \in Indices : i < next + 1 <=> i < next \/ i = next
    BY <1>3, Domains DEF IInv
  <2>4. PICK k \in Nat : k = next + 1
    BY <1>3
  <2>5. UpTo(k)'
    BY <1>1, <1>2, <1>3, <2>1, <2>2, <2>3, <2>4 DEF UpTo, Stubborn
  <2>6. QED
    BY <1>1, <2>1, <2>5 DEF AloneInv
<1>5. CASE ToHash(w) /\ w.pass.text \in Unhashable
  <2>1. next' = Over /\ digest' = <<>>
    BY <1>1, <1>3, <1>5 DEF HashNext
  <2>2. next \in Stubborn(written)
    BY <1>1, <1>5 DEF Stubborn
  <2>3. (next' = next \/ (next' = Over' /\ next \in Stubborn(written)))
    BY <1>1, <2>1, <2>2
  <2>4. \E k \in Nat : UpTo(k)'
    <3>1. /\ \A i \in Indices : accesses'[i] = IF i < next THEN Hashed(written'[i]) ELSE written'[i]
          /\ \A i \in Indices : i < next => i \notin Stubborn(written')
          /\ next' = Over' /\ next \in Stubborn(written')
          /\ Indices' = Indices
      BY <1>1, <1>2, <2>1, <2>2 DEF UpTo
    <3>2. QED
      BY <1>3, <3>1 DEF UpTo
  <2>5. QED
    BY <1>1, <2>1, <2>4 DEF AloneInv
<1>6. CASE ToHash(w) /\ w.pass.text \notin Unhashable
  <2>1. next' = next /\ digest' = <<Hashed(w).pass>>
    BY <1>1, <1>3, <1>6 DEF HashNext
  <2>2. next \notin Stubborn(written)
    BY <1>6 DEF Stubborn
  <2>3. UpTo(next)'
    BY <1>1, <1>2, <2>1 DEF UpTo
  <2>4. digest'[1] = Hashed(w).pass
    BY <2>1
  <2>5. QED
    BY <1>1, <1>3, <2>1, <2>2, <2>3, <2>4 DEF AloneInv
<1>7. QED
  BY <1>4, <1>5, <1>6

LEMMA AloneSetPass ==
  ASSUME IInv, AloneInv, SetPass
  PROVE  AloneInv'
<1> SUFFICES ASSUME logins = 0 PROVE AloneInv'
  BY DEF AloneInv, SetPass
<1> DEFINE w == written[next]
<1>1. /\ digest # <<>> /\ next \in Indices /\ next # Over /\ next \in Nat
      /\ next \notin Stubborn(written)
      /\ digest[1] = Hashed(w).pass
      /\ next' = next + 1 /\ digest' = <<>> /\ UNCHANGED <<written, logins>>
      /\ Over' = Over /\ json = accesses
      /\ w \in Entries
  BY OverIsNoIndex, Domains DEF SetPass, AloneInv, IInv, Over
<1>2. UpTo(next)
  BY <1>1 DEF AloneInv, UpTo
<1>3. accesses[next] = w
  BY <1>1, <1>2 DEF UpTo
<1>4. accesses' = [accesses EXCEPT ![next].pass = Hashed(w).pass] /\ json' = accesses'
  BY <1>1 DEF SetPass
<1>5. accesses \in [Indices -> Entries]
  BY DEF IInv, TypeInv
<1>6. /\ accesses'[next] = [w EXCEPT !.pass = Hashed(w).pass]
      /\ \A i \in Indices : i # next => accesses'[i] = accesses[i]
  BY <1>1, <1>3, <1>4, <1>5
<1>7. accesses'[next] = Hashed(w)
  BY <1>1, <1>6, HashedEntry
<1>8. \A i \in Indices : i < next + 1 <=> i < next \/ i = next
  BY <1>1, Domains DEF IInv
<1>9. PICK k \in Nat : k = next + 1
  BY <1>1
<1>10. UpTo(k)'
  BY <1>1, <1>2, <1>6, <1>7, <1>8, <1>9 DEF UpTo
<1>11. QED
  BY <1>1, <1>4, <1>10 DEF AloneInv

LEMMA AloneAlways == Spec => [](IInv /\ AloneInv)
<1>1. IInv /\ AloneInv /\ [Next]_hvars => AloneInv'
  <2> SUFFICES ASSUME IInv, AloneInv, [Next]_hvars PROVE AloneInv'
    OBVIOUS
  <2>1. ASSUME NEW user \in Users, NEW pass \in Texts, KeycloakLogin(user, pass)
        PROVE  AloneInv'
    BY <2>1 DEF KeycloakLogin, AloneInv, IInv, TypeInv
  <2>2. CASE UNCHANGED hvars
    BY <2>2 DEF hvars, AloneInv, UpTo, Over
  <2>3. QED
    BY <2>1, <2>2, AloneHashNext, AloneSetPass DEF Next
<1>2. QED
  BY <1>1, AloneInit, Inductive, PTL DEF Spec

\* A list that is hashed up to where the loop has ended is HashAccesses of it.
LEMMA LoopIsHashAccesses ==
  ASSUME IInv, NEW k \in Nat, UpTo(k), next = Over
  PROVE  accesses = HashAccesses(written)
<1>1. accesses = [i \in Indices |-> accesses[i]]
  BY DEF IInv, TypeInv
<1>2. \A i \in Indices : i \in Nat /\ i < Over
  BY DEF IInv, TypeInv
<1>3. Stubborn(written) \subseteq Indices
  BY DEF Stubborn
<1>4. Replaced(written) = {i \in Indices : i < k}
  <2>1. CASE k = Over
    <3>1. Stubborn(written) = {}
      BY <1>2, <1>3, <2>1 DEF UpTo
    <3>2. QED
      BY <1>2, <2>1, <3>1 DEF Replaced
  <2>2. CASE k # Over
    <3>1. k \in Stubborn(written)
      BY <2>2 DEF UpTo
    <3>2. \A j \in Stubborn(written) : k <= j
      BY <1>2, <1>3 DEF UpTo
    <3>3. \A i \in Stubborn(written) :
            (\A j \in Stubborn(written) : i <= j) => i = k
      BY <1>2, <1>3, <3>1, <3>2
    <3>4. First(Stubborn(written)) = k
      BY <3>1, <3>2, <3>3 DEF First
    <3>5. QED
      BY <3>1, <3>4 DEF Replaced
  <2>3. QED
    BY <2>1, <2>2
<1>5. QED
  BY <1>1, <1>4 DEF UpTo, HashAccesses

\* A login through Keycloak may get its password hashed into the file, but in
\* its own entry only (config.go:151-155 against 203-208); without one the
\* loop is the step ConfigFile takes it for.
THEOREM OthersKeepTheirEntries == Spec => []OnlyKeycloakEntryDisturbed
<1>1. ASSUME IInv, AloneInv PROVE OnlyKeycloakEntryDisturbed
  BY <1>1, LoopIsHashAccesses DEF OnlyKeycloakEntryDisturbed, IInv, EntriesInv, AloneInv
<1>2. QED
  BY <1>1, AloneAlways, PTL

\* No entry of another user decides a login, whatever was hashed or delegated
\* so far; this one needs no invariant (config.go:197-343).
THEOREM OthersHaveNoSay == Spec => []OthersDoNotMatter
<1>1. OthersDoNotMatter
  <2> SUFFICES ASSUME NEW user \in Users, NEW pass \in Texts
               PROVE  GetAccess(accesses, user, pass) =
                        GetAccess(Restrict(accesses, Own(accesses, user)), user, pass)
    BY DEF OthersDoNotMatter, Own
  <2> DEFINE own == Restrict(accesses, Own(accesses, user))
  <2>1. DOMAIN own = Own(accesses, user) /\ \A i \in Own(accesses, user) : own[i] = accesses[i]
    BY DEF Restrict
  <2>2. Own(accesses, user) = Own(own, user)
    BY <2>1 DEF Own
  <2>3. \A i \in Own(accesses, user) : accesses[i] = own[i]
    BY <2>1
  <2> HIDE DEF own
  <2>4. GetAccess(accesses, user, pass) = GetAccess(own, user, pass)
    BY <2>2, <2>3, OthersAreIrrelevant
  <2>5. QED
    BY <2>4 DEF own
<1>2. QED
  BY <1>1, PTL

=============================================================================
