------------------------- MODULE CredentialsProofs -------------------------
(***************************************************************************)
(* The list of accesses is a list: the first entry that answers decides,   *)
(* the entries of other users have no say, and hashing the passwords of a  *)
(* configuration changes nobody's right to log in and is done once.  For   *)
(* every list of accesses and all credentials.                             *)
(***************************************************************************)
EXTENDS Credentials, WellFoundedInduction, TLAPS

\* What this module needs to know of an entry: it is a record with the three
\* fields GetAccess reads, whatever its other fields.
IsAccess(a) ==
  /\ a = [field \in DOMAIN a |-> a[field]]
  /\ {"user", "pass", "fs"} \subseteq DOMAIN a
  /\ a.pass = [field \in DOMAIN a.pass |-> a.pass[field]]
  /\ {"form", "text"} \subseteq DOMAIN a.pass

\* The replacement of one password keeps everything GetAccess asks of the
\* entry; anonymous's "*" would not, and is left alone.
LEMMA HashedAnswers ==
  ASSUME NEW a, IsAccess(a), NEW user, NEW pass
  PROVE  /\ Delegates(Hashed(a)) <=> Delegates(a)
         /\ Accepts(Hashed(a), user, pass) <=> Accepts(a, user, pass)
         /\ Breaks(Hashed(a), user) <=> Breaks(a, user)
<1>1. CASE ToHash(a)
  <2> DEFINE digest == [a.pass EXCEPT !.form = "hashed"]
  <2>1. Hashed(a) = [a EXCEPT !.pass = digest]
    BY <1>1 DEF Hashed
  <2>2. /\ Hashed(a).user = a.user
        /\ Hashed(a).fs = a.fs
        /\ Hashed(a).pass = digest
    BY <2>1 DEF IsAccess
  <2>3. digest.form = "hashed" /\ digest.text = a.pass.text
    BY DEF IsAccess
  <2>4. Plain(a) /\ ~Open(a)
    BY <1>1 DEF ToHash
  <2>5. /\ ~Garbled(a) /\ ~Garbled(Hashed(a))
        /\ ~Nil(a) /\ ~Nil(Hashed(a))
        /\ ~Open(Hashed(a))
    BY <2>2, <2>3, <2>4 DEF Garbled, Nil, Open, Plain
  <2>6. QED
    BY <2>2, <2>3, <2>4, <2>5 DEF Delegates, Accepts, Breaks
<1>2. CASE ~ToHash(a)
  BY <1>2 DEF Hashed
<1>3. QED
  BY <1>1, <1>2

\* Some passwords of the second list are replaced in the first, any of them.
SomeHashed(hashed, accesses) ==
  /\ DOMAIN hashed = DOMAIN accesses
  /\ \A i \in DOMAIN accesses : hashed[i] \in {accesses[i], Hashed(accesses[i])}

LEMMA SomeHashedAnswers ==
  ASSUME NEW accesses, \A i \in DOMAIN accesses : IsAccess(accesses[i]),
         NEW hashed, SomeHashed(hashed, accesses),
         NEW user, NEW pass
  PROVE  GetAccess(hashed, user, pass) = GetAccess(accesses, user, pass)
<1>1. DOMAIN hashed = DOMAIN accesses
  BY DEF SomeHashed
<1>2. ASSUME NEW i \in DOMAIN accesses
      PROVE  /\ Delegates(hashed[i]) <=> Delegates(accesses[i])
             /\ Accepts(hashed[i], user, pass) <=> Accepts(accesses[i], user, pass)
             /\ Breaks(hashed[i], user) <=> Breaks(accesses[i], user)
  <2>1. hashed[i] = accesses[i] \/ hashed[i] = Hashed(accesses[i])
    BY DEF SomeHashed
  <2>2. QED
    BY <2>1, HashedAnswers
<1>3. Answering(hashed, user, pass) = Answering(accesses, user, pass)
  BY <1>1, <1>2 DEF Answering, Answers
<1>4. QED
  BY <1>1, <1>2, <1>3 DEF GetAccess, Answering

\* Every login gets the same entry, or the same refusal, before and after
\* HashPlaintextPasswords, even when an error stops it half-way
\* (config.go:100-166 against config.go:197-343).
THEOREM HashingPreservesAccess ==
  ASSUME NEW accesses, \A i \in DOMAIN accesses : IsAccess(accesses[i]),
         NEW user, NEW pass
  PROVE  GetAccess(HashAccesses(accesses), user, pass) = GetAccess(accesses, user, pass)
<1>1. SomeHashed(HashAccesses(accesses), accesses)
  BY DEF SomeHashed, HashAccesses
<1>2. QED
  BY <1>1, SomeHashedAnswers

-----------------------------------------------------------------------------

\* The order of the indices, as the set of pairs of the library.
Less == {p \in Nat \X Nat : p[1] < p[2]}

\* A loop over the indices stops at the least one of those it may stop at.
LEMMA FirstIsLeast ==
  ASSUME NEW indices \in SUBSET Nat, indices # {}
  PROVE  First(indices) \in indices /\ \A j \in indices : First(indices) <= j
<1>1. IsWellFoundedOn(Less, Nat)
  BY NatLessThanWellFounded, Zenon DEF OpToRel, Less
<1>2. \E i \in indices : \A j \in indices : ~(<<j, i>> \in Less)
  BY <1>1, WFMin
<1>3. ASSUME NEW x \in Nat, NEW y \in Nat
      PROVE  <<x, y>> \in Less <=> x < y
  <2>1. /\ <<x, y>> \in Nat \X Nat
        /\ <<x, y>>[1] = x
        /\ <<x, y>>[2] = y
    OBVIOUS
  <2>2. QED
    BY <2>1 DEF Less
<1>4. \E i \in indices : \A j \in indices : i <= j
  <2>1. PICK i \in indices : \A j \in indices : ~(<<j, i>> \in Less)
    BY <1>2
  <2>2. \A j \in indices : ~(j < i)
    BY <1>3, <2>1
  <2>3. QED
    BY <2>2
<1>5. QED
  BY <1>4 DEF First

\* An entry is returned exactly when it grants the login, or delegates it, and
\* no entry before it answers: an earlier one that cannot be decoded refuses
\* the login for good (config.go:197-343).
THEOREM FirstAnswerDecides ==
  ASSUME NEW accesses, DOMAIN accesses \subseteq Nat \ {0},
         NEW user, NEW pass, NEW i \in DOMAIN accesses
  PROVE  GetAccess(accesses, user, pass) = i <=>
           /\ Delegates(accesses[i]) \/ Accepts(accesses[i], user, pass)
           /\ \A j \in DOMAIN accesses : j < i => ~Answers(accesses[j], user, pass)
<1> DEFINE answering == Answering(accesses, user, pass)
           granting  == {j \in answering : \/ Delegates(accesses[j])
                                           \/ Accepts(accesses[j], user, pass)}
<1>1. answering \in SUBSET Nat /\ Refused \notin answering /\ i \in Nat
  BY DEF Answering, Refused
<1>2. GetAccess(accesses, user, pass) =
        IF answering # {} /\ First(answering) \in granting
          THEN First(answering) ELSE Refused
  BY DEF GetAccess
<1>3. CASE answering = {}
  BY <1>1, <1>2, <1>3 DEF Answering, Answers, Refused
<1>4. CASE answering # {}
  <2>1. First(answering) \in answering /\ \A j \in answering : First(answering) <= j
    BY <1>1, <1>4, FirstIsLeast
  <2>2. First(answering) = i <=> i \in answering /\ \A j \in answering : i <= j
    BY <1>1, <2>1
  <2>3. i \in granting <=> Delegates(accesses[i]) \/ Accepts(accesses[i], user, pass)
    BY DEF Answering, Answers
  <2>4. (\A j \in answering : i <= j) <=>
          \A j \in DOMAIN accesses : j < i => ~Answers(accesses[j], user, pass)
    BY <1>1 DEF Answering
  <2>5. GetAccess(accesses, user, pass) = i <=> First(answering) = i /\ i \in granting
    <3> HIDE DEF answering, granting
    <3>1. First(answering) # Refused /\ i # Refused
      BY <1>1, <2>1 DEF Refused
    <3>2. QED
      BY <1>2, <1>4, <3>1
  <2>6. QED
    BY <2>2, <2>3, <2>4, <2>5
<1>5. QED
  BY <1>3, <1>4

\* What a login asks of the list: the entries of its user, those of a backend
\* that checks passwords itself, and those that are nil.
Own(accesses, user) ==
  {i \in DOMAIN accesses :
     accesses[i].user = user \/ Delegates(accesses[i]) \/ Nil(accesses[i])}

\* Two lists that have the same of these entries at the same places answer
\* alike, whatever else one of them holds (config.go:197-343).
THEOREM OthersAreIrrelevant ==
  ASSUME NEW first, NEW second, NEW user, NEW pass,
         Own(first, user) = Own(second, user),
         \A i \in Own(first, user) : first[i] = second[i]
  PROVE  GetAccess(first, user, pass) = GetAccess(second, user, pass)
<1>1. /\ Answering(first, user, pass) \subseteq Own(first, user)
      /\ Answering(second, user, pass) \subseteq Own(second, user)
  BY DEF Answering, Answers, Own, Accepts, Breaks
<1>2. Answering(first, user, pass) = Answering(second, user, pass)
  BY <1>1 DEF Answering, Own
<1>3. QED
  BY <1>1, <1>2 DEF GetAccess

-----------------------------------------------------------------------------

\* A password that was replaced is not one to replace any more.
LEMMA HashedOnce ==
  ASSUME NEW a, IsAccess(a)
  PROVE  ~ToHash(Hashed(a)) /\ Hashed(Hashed(a)) = Hashed(a)
<1>1. CASE ToHash(a)
  <2>1. Hashed(a).pass.form = "hashed"
    BY <1>1 DEF Hashed, IsAccess
  <2>2. ~ToHash(Hashed(a))
    BY <2>1 DEF ToHash, Plain
  <2>3. QED
    BY <2>2 DEF Hashed
<1>2. CASE ~ToHash(a)
  BY <1>2 DEF Hashed
<1>3. QED
  BY <1>1, <1>2

\* A list that was hashed is left as it is when it is loaded again, also one
\* whose hashing an error has stopped: it stops there again
\* (config.go:83, config.go:100-166).
THEOREM HashingIsIdempotent ==
  ASSUME NEW accesses, DOMAIN accesses \subseteq Nat,
         \A i \in DOMAIN accesses : IsAccess(accesses[i])
  PROVE  HashAccesses(HashAccesses(accesses)) = HashAccesses(accesses)
<1> DEFINE once == HashAccesses(accesses)
<1>1. /\ DOMAIN once = DOMAIN accesses
      /\ \A i \in DOMAIN accesses :
           once[i] = IF i \in Replaced(accesses) THEN Hashed(accesses[i]) ELSE accesses[i]
  BY DEF HashAccesses
<1>2. Stubborn(accesses) \subseteq DOMAIN accesses
  BY DEF Stubborn
<1>3. Stubborn(accesses) \cap Replaced(accesses) = {}
  <2>1. CASE Stubborn(accesses) = {}
    BY <2>1
  <2>2. CASE Stubborn(accesses) # {}
    <3>1. /\ First(Stubborn(accesses)) \in Stubborn(accesses)
          /\ \A j \in Stubborn(accesses) : First(Stubborn(accesses)) <= j
      BY <1>2, <2>2, FirstIsLeast
    <3>2. QED
      BY <1>2, <2>2, <3>1 DEF Replaced
  <2>3. QED
    BY <2>1, <2>2
<1>4. \A i \in DOMAIN accesses :
        ToHash(once[i]) <=> ToHash(accesses[i]) /\ i \notin Replaced(accesses)
  BY <1>1, HashedOnce
<1>5. Stubborn(once) = Stubborn(accesses)
  BY <1>1, <1>3, <1>4 DEF Stubborn
<1>6. Replaced(once) = Replaced(accesses)
  BY <1>1, <1>5 DEF Replaced
<1>7. \A i \in DOMAIN accesses :
        (IF i \in Replaced(accesses) THEN Hashed(once[i]) ELSE once[i]) = once[i]
  BY <1>1, HashedOnce
<1>8. HashAccesses(once) =
        [i \in DOMAIN accesses |->
           IF i \in Replaced(accesses) THEN Hashed(once[i]) ELSE once[i]]
  BY <1>1, <1>6 DEF HashAccesses
<1>9. QED
  BY <1>1, <1>7, <1>8 DEF HashAccesses

=============================================================================
