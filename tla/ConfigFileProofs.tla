-------------------------- MODULE ConfigFileProofs --------------------------
(***************************************************************************)
(* Proofs about the configuration file, for every set of versions, every   *)
(* default file and any number of saves and crashes.                       *)
(***************************************************************************)
EXTENDS ConfigFile, CredentialsProofs, SequenceTheorems

LEMMA AccessesAreAccesses ==
  ASSUME NEW a \in Accesses
  PROVE  IsAccess(a)
<1>1. CASE a = NilAccess
  BY <1>1 DEF NilAccess, IsAccess
<1>2. CASE a # NilAccess
  BY <1>2 DEF Accesses, IsAccess
<1>3. QED
  BY <1>1, <1>2

\* Passwords of entries that are there.
Passes == [form : {"plain", "hashed", "garbled"}, text : Texts]

LEMMA NilIsNoPassword == NilAccess.pass.form = "nil" /\ ~ToHash(NilAccess)
BY DEF NilAccess, ToHash, Plain

LEMMA UsersOfAccesses ==
  ASSUME NEW a \in Accesses
  PROVE  a.user \in Users
<1>1. CASE a = NilAccess
  <2>1. a.user = Empty
    BY <1>1 DEF NilAccess
  <2>2. QED
    BY <2>1, ConfigFileAssumption
<1>2. CASE a # NilAccess
  BY <1>2 DEF Accesses
<1>3. QED
  BY <1>1, <1>2

\* What sjson adds to the list is an entry.
LEMMA NothingButAPassword ==
  ASSUME NEW pass \in Passes
  PROVE  [NilAccess EXCEPT !.pass = pass] \in Accesses
<1> DEFINE a == [user |-> Empty, pass |-> pass, fs |-> Empty]
<1>1. [NilAccess EXCEPT !.pass = pass] = a
  BY SMT DEF NilAccess
<1>2. Empty \in Users \cap STRING
  BY ConfigFileAssumption
<1>3. a \in [user : Users, pass : Passes, fs : STRING]
  BY <1>2
<1>4. QED
  BY <1>1, <1>3 DEF Accesses, Passes

\* A hashed entry is an entry, is not hashed again, and its password is all
\* that a file's entry needs to be one, or to be a new entry.
LEMMA HashedEntry ==
  ASSUME NEW a \in Accesses
  PROVE  /\ Hashed(a) \in Accesses
         /\ ~ToHash(Hashed(a))
         /\ [a EXCEPT !.pass = Hashed(a).pass] = Hashed(a)
         /\ [Hashed(a) EXCEPT !.pass = Hashed(a).pass] = Hashed(a)
         /\ ToHash(a) => Hashed(a).pass \in Passes
<1>1. CASE ToHash(a)
  <2> DEFINE digest == [a.pass EXCEPT !.form = "hashed"]
  <2>1. Hashed(a) = [a EXCEPT !.pass = digest]
    BY <1>1 DEF Hashed
  <2>2. a # NilAccess
    BY <1>1, NilIsNoPassword
  <2>3. a \in [user : Users, pass : Passes, fs : STRING]
    BY <2>2 DEF Accesses, Passes
  <2>4. digest \in Passes /\ digest.form = "hashed"
    BY <2>3 DEF Passes
  <2>5. QED
    BY <2>1, <2>3, <2>4 DEF Accesses, Passes, ToHash, Plain
<1>2. CASE ~ToHash(a)
  BY <1>2 DEF Hashed, Accesses, NilAccess
<1>3. QED
  BY <1>1, <1>2

LEMMA ListsOfAccesses ==
  ASSUME NEW s \in Seq(Accesses), NEW t,
         t = [i \in DOMAIN s |-> t[i]], \A i \in DOMAIN s : t[i] \in Accesses
  PROVE  t \in Seq(Accesses)
<1>1. Len(s) \in Nat /\ DOMAIN s = 1 .. Len(s)
  BY LenProperties
<1>2. QED
  BY <1>1

LEMMA HashAccessesType ==
  ASSUME NEW s \in Seq(Accesses)
  PROVE  HashAccesses(s) \in Seq(Accesses)
<1>1. \A i \in DOMAIN s : s[i] \in Accesses
  BY ElementOfSeq, LenProperties
<1>2. \A i \in DOMAIN s : HashAccesses(s)[i] \in Accesses
  BY <1>1, HashedEntry DEF HashAccesses
<1>3. HashAccesses(s) = [i \in DOMAIN s |-> HashAccesses(s)[i]]
  BY DEF HashAccesses
<1>4. QED
  BY <1>2, <1>3, ListsOfAccesses

\* The list that sjson makes is as long as the one of the file, or as far as
\* the last password that is replaced.
LEMMA SetPasswordsLength ==
  ASSUME NEW old \in Seq(Accesses), NEW s \in Seq(Accesses),
         NEW replaced \in SUBSET DOMAIN s
  PROVE  LET length == First({n \in {Len(old)} \cup DOMAIN s :
                                \A i \in {Len(old)} \cup replaced : i <= n})
         IN  length \in Nat /\ (DOMAIN s = DOMAIN old => length = Len(old))
<1> DEFINE all == {n \in {Len(old)} \cup DOMAIN s : \A i \in {Len(old)} \cup replaced : i <= n}
<1>1. /\ Len(old) \in Nat /\ DOMAIN old = 1 .. Len(old)
      /\ Len(s) \in Nat /\ DOMAIN s = 1 .. Len(s)
  BY LenProperties
<1>2. all \in SUBSET Nat
  BY <1>1
<1>3. all # {}
  <2>1. CASE \A i \in replaced : i <= Len(old)
    <3>1. \A i \in {Len(old)} \cup replaced : i <= Len(old)
      BY <1>1, <2>1
    <3>2. Len(old) \in all
      BY <3>1
    <3>3. QED
      BY <3>2
  <2>2. CASE \E i \in replaced : ~(i <= Len(old))
    <3>1. PICK i \in replaced : ~(i <= Len(old))
      BY <2>2
    <3>2. i \in 1 .. Len(s)
      BY <1>1, <3>1
    <3>3. Len(s) \in DOMAIN s /\ Len(old) <= Len(s)
      BY <1>1, <3>1, <3>2
    <3>4. \A j \in {Len(old)} \cup replaced : j <= Len(s)
      BY <1>1, <3>3
    <3>5. Len(s) \in all
      BY <3>3, <3>4
    <3>6. QED
      BY <3>5
  <2>3. QED
    BY <2>1, <2>2
<1>4. First(all) \in all
  <2> HIDE DEF all
  <2>1. QED
    BY <1>2, <1>3, FirstIsLeast
<1>5. ASSUME DOMAIN s = DOMAIN old PROVE First(all) = Len(old)
  <2>1. Len(s) = Len(old)
    <3>1. 1 .. Len(s) = 1 .. Len(old)
      BY <1>1, <1>5
    <3>2. \A i \in Nat : i \in 1 .. Len(s) <=> i \in 1 .. Len(old)
      BY <3>1
    <3>3. \A i \in Nat : 1 <= i /\ i <= Len(s) <=> 1 <= i /\ i <= Len(old)
      BY <1>1, <3>2
    <3> DEFINE m == Len(s)  n == Len(old)
    <3>4. m \in Nat /\ n \in Nat /\ \A i \in Nat : 1 <= i /\ i <= m <=> 1 <= i /\ i <= n
      BY <1>1, <3>3
    <3> HIDE DEF m, n
    <3>5. m = n
      BY <3>4
    <3>6. QED
      BY <3>5 DEF m, n
  <2>2. First(all) \in {Len(old)} \cup DOMAIN s /\ Len(old) <= First(all)
    BY <1>4
  <2> HIDE DEF all
  <2>3. First(all) \in Nat /\ First(all) <= Len(old)
    BY <1>1, <1>2, <1>4, <2>1, <2>2
  <2>4. QED
    BY <1>1, <2>2, <2>3
<1>6. First(all) \in Nat
  <2> HIDE DEF all
  <2>1. QED
    BY <1>2, <1>4
<1>7. First(all) \in Nat /\ (DOMAIN s = DOMAIN old => First(all) = Len(old))
  <2> HIDE DEF all
  <2>1. QED
    BY <1>5, <1>6
<1>8. QED
  BY <1>7, Zenon

\* Whatever the text, the result of sjson is a document with accesses.
LEMMA SetPasswordsType ==
  ASSUME NEW k \in Files, NEW s \in Seq(Accesses)
  PROVE  SetPasswords(k, s) \in Files
<1> DEFINE old == k.accesses
           replaced == {i \in DOMAIN s : ToHash(s[i])}
           length == First({n \in {Len(old)} \cup DOMAIN s :
                              \A i \in {Len(old)} \cup replaced : i <= n})
           entry(i) == IF i \in DOMAIN old THEN old[i] ELSE NilAccess
           list == [i \in 1 .. length |->
                      IF i \in replaced THEN [entry(i) EXCEPT !.pass = Hashed(s[i]).pass]
                                        ELSE entry(i)]
<1>1. old \in Seq(Accesses)
  BY DEF Files
<1>2. length \in Nat
  <2> HIDE DEF length
  <2>1. replaced \in SUBSET DOMAIN s
    OBVIOUS
  <2> HIDE DEF replaced
  <2>2. QED
    BY <1>1, <2>1, SetPasswordsLength DEF length
<1>3. ASSUME NEW i \in 1 .. length PROVE list[i] \in Accesses
  <2> HIDE DEF length
  <2>1. entry(i) \in Accesses
    BY <1>1, ElementOfSeq, LenProperties DEF Accesses
  <2>2. CASE i \in replaced
    <3>1. Hashed(s[i]).pass \in Passes
      BY <2>2, ElementOfSeq, LenProperties, HashedEntry
    <3> HIDE DEF entry
    <3>2. [entry(i) EXCEPT !.pass = Hashed(s[i]).pass] \in Accesses
      <4> DEFINE a == entry(i)  new == Hashed(s[i]).pass
      <4>1. a \in Accesses /\ new \in Passes
        BY <2>1, <3>1
      <4> HIDE DEF a, new
      <4>2. [a EXCEPT !.pass = new] \in Accesses
        <5>1. CASE a = NilAccess
          BY <4>1, <5>1, NothingButAPassword
        <5>2. CASE a # NilAccess
          BY <4>1, <5>2 DEF Accesses, Passes
        <5>3. QED
          BY <5>1, <5>2
      <4>3. QED
        BY <4>2 DEF a, new
    <3>3. QED
      BY <2>2, <3>2
  <2>3. CASE i \notin replaced
    BY <2>1, <2>3
  <2>4. QED
    BY <2>2, <2>3
<1>4. SetPasswords(k, s) = [k EXCEPT !.accesses = list]
  BY DEF SetPasswords
<1> HIDE DEF list, length
<1>5. list \in Seq(Accesses)
  <2>1. list = [i \in 1 .. length |-> list[i]]
    BY DEF list
  <2>2. QED
    BY <1>2, <1>3, <2>1
<1>6. QED
  BY <1>4, <1>5 DEF Files

\* In a text of the same length every password gets the place it has.
LEMMA SetPasswordsInPlace ==
  ASSUME NEW k \in Files, NEW s \in Seq(Accesses), DOMAIN s = DOMAIN k.accesses
  PROVE  SetPasswords(k, s) =
           [k EXCEPT !.accesses =
              [i \in DOMAIN k.accesses |->
                 IF ToHash(s[i]) THEN [k.accesses[i] EXCEPT !.pass = Hashed(s[i]).pass]
                                 ELSE k.accesses[i]]]
<1> DEFINE old == k.accesses
           replaced == {i \in DOMAIN s : ToHash(s[i])}
           length == First({n \in {Len(old)} \cup DOMAIN s :
                              \A i \in {Len(old)} \cup replaced : i <= n})
<1>1. old \in Seq(Accesses) /\ replaced \in SUBSET DOMAIN s
  BY DEF Files
<1>2. 1 .. length = DOMAIN old
  <2> HIDE DEF replaced, length
  <2>1. length = Len(old)
    BY <1>1, SetPasswordsLength DEF length
  <2>2. QED
    BY <1>1, <2>1, LenProperties
<1>3. SetPasswords(k, s) =
        [k EXCEPT !.accesses =
           [i \in 1 .. length |->
              IF i \in replaced
                THEN [(IF i \in DOMAIN old THEN old[i] ELSE NilAccess)
                        EXCEPT !.pass = Hashed(s[i]).pass]
                ELSE IF i \in DOMAIN old THEN old[i] ELSE NilAccess]]
  BY DEF SetPasswords
<1> HIDE DEF length
<1>4. QED
  BY <1>2, <1>3

LEMMA RewrittenType ==
  ASSUME NEW k \in Files \cup {Damaged}, NEW s \in Seq(Accesses),
         NEW new \in Rewritten(k, s)
  PROVE  new \in Files \cup {Damaged}
<1>1. CASE k = Damaged
  <2>1. \A option \in BOOLEAN : [hash |-> option, accesses |-> <<>>] \in Files
    BY DEF Files
  <2>2. QED
    BY <1>1, <2>1, SetPasswordsType DEF Rewritten
<1>2. CASE k # Damaged
  BY <1>2, SetPasswordsType DEF Rewritten
<1>3. QED
  BY <1>1, <1>2

-----------------------------------------------------------------------------

USE DEF Goto

\* Every step keeps the types and never leaves a server without a Content.
LEMMA TypeStep ==
  ASSUME CTypeOK, [CNext]_cvars
  PROVE  CTypeOK'
<1> USE ConfigFileAssumption DEF CTypeOK, Loading
<1>1. CASE Save
  <2>1. raced' \in BOOLEAN
    BY <1>1 DEF Save
  <2>2. edits' \in 0 .. Edits
    BY <1>1 DEF Save
  <2>3. QED
    BY <1>1, <2>1, <2>2 DEF Save
<1>2. CASE Crash
  <2>1. crashes' \in 0 .. Crashes
    BY <1>2 DEF Crash
  <2>2. QED
    BY <1>2, <2>1 DEF Crash, fileVars
<1>3. CASE Stat
  BY <1>3 DEF Stat, fileVars
<1>4. CASE Create
  BY <1>4 DEF Create
<1>5. CASE Fill
  BY <1>5 DEF Fill
<1>6. CASE ReloadConfig
  BY <1>6 DEF ReloadConfig, fileVars
<1>7. CASE Decode
  <2>1. CASE disk \in {NoFile, Damaged}
    BY <1>7, <2>1 DEF Decode, Fail, fileVars
  <2>2. CASE disk \notin {NoFile, Damaged}
    <3>1. [accesses |-> disk.accesses, prepared |-> FALSE] \in Contents
      BY <2>2 DEF Files, Contents
    <3>2. QED
      BY <1>7, <2>2, <3>1 DEF Decode, fileVars
  <2>3. QED
    BY <2>1, <2>2
<1>8. CASE ReadFile
  BY <1>8 DEF ReadFile, Fail, fileVars
<1>9. CASE HashPasswords
  <2>1. content \in Contents /\ content.accesses \in Seq(Accesses)
    BY <1>9 DEF HashPasswords, Contents
  <2>2. [content EXCEPT !.accesses = HashAccesses(content.accesses)] \in Contents
    BY <2>1, HashAccessesType DEF Contents
  <2>3. Rewritten(text, content.accesses) \subseteq Files \cup {Damaged}
    BY <2>1, RewrittenType
  <2>4. /\ \/ at' \in {"truncate", "prepare", "serving"} /\ content' =
                [content EXCEPT !.accesses = HashAccesses(content.accesses)]
           \/ at' = "off" /\ content' = NoContent
        /\ text' \in {text} \cup Rewritten(text, content.accesses)
        /\ fresh' \in BOOLEAN
        /\ UNCHANGED <<starting, fileVars, crashes>>
    BY <1>9 DEF HashPasswords
  <2>5. QED
    BY <2>2, <2>3, <2>4 DEF fileVars
<1>10. CASE Truncate
  BY <1>10 DEF Truncate, Fail
<1>11. CASE WriteFile
  BY <1>11 DEF WriteFile, Fail
<1>12. CASE Prepare
  <2>1. [content EXCEPT !.prepared = TRUE] \in Contents
    BY <1>12 DEF Prepare, Contents
  <2>2. QED
    BY <1>12, <2>1 DEF Prepare, fileVars
<1>13. CASE UNCHANGED cvars
  BY <1>13 DEF cvars
<1>14. QED
  BY <1>1, <1>2, <1>3, <1>4, <1>5, <1>6, <1>7, <1>8, <1>9, <1>10, <1>11, <1>12,
     <1>13 DEF CNext, Start, Load

LEMMA TypeInit == CInit => CTypeOK
<1> SUFFICES ASSUME CInit PROVE CTypeOK
  OBVIOUS
<1>1. 0 \in 0 .. Edits /\ 0 \in 0 .. Crashes
  BY ConfigFileAssumption
<1>2. QED
  BY <1>1, ConfigFileAssumption DEF CInit, CTypeOK, Loading

\* The types hold, and no state serves or reloads without a Content: an error
\* of the first load ends the process (main.go:59-64), one of a later load
\* leaves the Content that is there (config.go:66-98).
THEOREM ConfigTypeCorrect == CSpec => []CTypeOK
<1>1. CInit => CTypeOK
  BY TypeInit
<1>2. CTypeOK /\ [CNext]_cvars => CTypeOK'
  BY TypeStep
<1>3. QED
  BY <1>1, <1>2, PTL DEF CSpec

-----------------------------------------------------------------------------

\* A list whose hashed entries get the hashes again is still the list with
\* some passwords hashed: the position is right, for both lists come from the
\* version the administrator saved last.
LEMMA SetPasswordsHashes ==
  ASSUME NEW s \in Seq(Accesses), NEW a, SomeHashed(a, s),
         a \in Seq(Accesses), NEW k \in Files, SomeHashed(k.accesses, s)
  PROVE  /\ SetPasswords(k, a).hash = k.hash
         /\ SomeHashed(SetPasswords(k, a).accesses, s)
<1> DEFINE file == SetPasswords(k, a)
<1>1. /\ DOMAIN file.accesses = DOMAIN k.accesses
      /\ file.hash = k.hash
      /\ \A i \in DOMAIN k.accesses : file.accesses[i] =
           IF ToHash(a[i]) THEN [k.accesses[i] EXCEPT !.pass = Hashed(a[i]).pass]
                           ELSE k.accesses[i]
  <2>1. DOMAIN a = DOMAIN k.accesses
    BY DEF SomeHashed
  <2> DEFINE list == [i \in DOMAIN k.accesses |->
                        IF ToHash(a[i]) THEN [k.accesses[i] EXCEPT !.pass = Hashed(a[i]).pass]
                                        ELSE k.accesses[i]]
  <2>2. file = [k EXCEPT !.accesses = list]
    BY <2>1, SetPasswordsInPlace
  <2>3. DOMAIN list = DOMAIN k.accesses
    OBVIOUS
  <2>4. \A i \in DOMAIN k.accesses : list[i] =
          IF ToHash(a[i]) THEN [k.accesses[i] EXCEPT !.pass = Hashed(a[i]).pass]
                          ELSE k.accesses[i]
    OBVIOUS
  <2> HIDE DEF list, file
  <2>5. file.accesses = list /\ file.hash = k.hash
    BY <2>2 DEF Files
  <2>6. QED
    BY <2>3, <2>4, <2>5
<1>2. DOMAIN a = DOMAIN s /\ DOMAIN k.accesses = DOMAIN s
  BY DEF SomeHashed
<1>3. ASSUME NEW i \in DOMAIN s
      PROVE  file.accesses[i] \in {s[i], Hashed(s[i])}
  <2>1. s[i] \in Accesses
    BY <1>3, ElementOfSeq, LenProperties
  <2>2. /\ a[i] \in {s[i], Hashed(s[i])}
        /\ k.accesses[i] \in {s[i], Hashed(s[i])}
    BY DEF SomeHashed
  <2>3. CASE ToHash(a[i])
    <3>1. a[i] = s[i]
      BY <2>1, <2>2, <2>3, HashedEntry
    <3>2. [k.accesses[i] EXCEPT !.pass = Hashed(s[i]).pass] = Hashed(s[i])
      BY <2>1, <2>2, HashedEntry
    <3>3. QED
      BY <1>1, <1>2, <2>3, <3>1, <3>2
  <2>4. CASE ~ToHash(a[i])
    BY <1>1, <1>2, <2>2, <2>4
  <2>5. QED
    BY <2>3, <2>4
<1>4. QED
  BY <1>1, <1>2, <1>3 DEF SomeHashed

\* The version the file goes back to: the one saved last, or main's when there
\* was none.
Base == IF saved \in Saves THEN saved ELSE Default

\* It is that version, with some of its passwords hashed.
OfBase(k) ==
  /\ k \in Files
  /\ k.hash = Base.hash
  /\ SomeHashed(k.accesses, Base.accesses)

\* Why the logins survive: no step between a look at the file and the write
\* that follows from it holds anything of an older version.
SurvivalInv ==
  ~raced =>
    /\ saved \in Saves => at \notin {"create", "fill"} /\ disk # NoFile
    /\ disk \in {NoFile, Damaged} \/ OfBase(disk)
    /\ at \in {"read", "hash"} =>
         disk # Damaged /\ SomeHashed(content.accesses, Base.accesses)
    /\ at \in {"hash", "truncate", "write"} => OfBase(text)

LEMMA ItselfHashed == \A s : SomeHashed(s, s)
BY DEF SomeHashed

LEMMA SurvivalInit == CInit => SurvivalInv
BY ConfigFileAssumption, ItselfHashed DEF CInit, SurvivalInv, OfBase, Base

LEMMA SurvivalStep ==
  ASSUME CTypeOK, SurvivalInv, [CNext]_cvars
  PROVE  SurvivalInv'
<1> USE ConfigFileAssumption DEF SurvivalInv
<1> SUFFICES ASSUME ~raced' PROVE SurvivalInv'
  OBVIOUS
<1>1. CASE Save
  BY <1>1, ItselfHashed DEF Save, Window, OfBase, Base
<1>2. CASE Crash
  BY <1>2 DEF Crash, fileVars, OfBase, Base
<1>3. CASE Stat
  BY <1>3 DEF Stat, fileVars, OfBase, Base
<1>4. CASE Create
  BY <1>4 DEF Create, OfBase, Base
<1>5. CASE Fill
  BY <1>5, ItselfHashed DEF Fill, OfBase, Base
<1>6. CASE ReloadConfig
  BY <1>6 DEF ReloadConfig, fileVars, OfBase, Base
<1>7. CASE Decode
  <2>1. CASE disk \in {NoFile, Damaged}
    BY <1>7, <2>1 DEF Decode, Fail, fileVars, OfBase, Base
  <2>2. CASE disk \notin {NoFile, Damaged}
    BY <1>7, <2>2 DEF Decode, fileVars, OfBase, Base
  <2>3. QED
    BY <2>1, <2>2
<1>8. CASE ReadFile
  BY <1>8 DEF ReadFile, Fail, fileVars, OfBase, Base
<1>9. CASE HashPasswords
  <2>1. Base.accesses \in Seq(Accesses) /\ UNCHANGED Base
    BY <1>9 DEF HashPasswords, fileVars, Files, Base
  <2>2. /\ at = "hash" /\ UNCHANGED fileVars
        /\ \/ at' \in {"off", "serving", "prepare"}
           \/ at' = "truncate" /\ text' \in Rewritten(text, content.accesses)
    BY <1>9 DEF HashPasswords
  <2>3. /\ OfBase(text) /\ SomeHashed(content.accesses, Base.accesses)
        /\ content.accesses \in Seq(Accesses)
    BY <2>2 DEF fileVars, CTypeOK, Contents, Loading
  <2>4. CASE at' = "truncate"
    <3>1. text \in Files /\ text' = SetPasswords(text, content.accesses)
      BY <2>2, <2>3, <2>4 DEF Rewritten, OfBase
    <3>2. text'.hash = Base.hash /\ SomeHashed(text'.accesses, Base.accesses)
      BY <2>1, <2>3, <3>1, SetPasswordsHashes DEF OfBase
    <3>3. text' \in Files
      BY <2>3, <3>1, SetPasswordsType
    <3>4. QED
      BY <2>2, <2>4, <3>2, <3>3 DEF fileVars, OfBase, Base
  <2>5. CASE at' # "truncate"
    BY <2>2, <2>5 DEF fileVars, OfBase, Base
  <2>6. QED
    BY <2>4, <2>5
<1>10. CASE Truncate
  BY <1>10 DEF Truncate, Fail, OfBase, Base
<1>11. CASE WriteFile
  BY <1>11 DEF WriteFile, Fail, OfBase, Base
<1>12. CASE Prepare
  BY <1>12 DEF Prepare, fileVars, OfBase, Base
<1>13. CASE UNCHANGED cvars
  BY <1>13 DEF cvars, OfBase, Base
<1>14. QED
  BY <1>1, <1>2, <1>3, <1>4, <1>5, <1>6, <1>7, <1>8, <1>9, <1>10, <1>11, <1>12,
     <1>13 DEF CNext, Start, Load

\* Whoever can log in with the version saved last can log in with the file
\* the server has made of it, and nobody else can (PasswordsSurvive).
LEMMA SurvivalMeans == CTypeOK /\ SurvivalInv => PasswordsSurvive
<1> SUFFICES ASSUME CTypeOK, SurvivalInv,
                    saved \in Saves, disk \notin {NoFile, Damaged}, ~raced,
                    NEW user, NEW pass
             PROVE  LogsIn(disk, user, pass) = LogsIn(saved, user, pass)
  BY DEF PasswordsSurvive
<1> DEFINE s == saved.accesses
           k == disk.accesses
           i == GetAccess(s, user, pass)
<1>1. SomeHashed(k, s) /\ s \in Seq(Accesses)
  BY ConfigFileAssumption DEF SurvivalInv, OfBase, Base, Files
<1>2. \A j \in DOMAIN s : s[j] \in Accesses
  BY <1>1, ElementOfSeq, LenProperties
<1>3. GetAccess(k, user, pass) = i
  BY <1>1, <1>2, AccessesAreAccesses, SomeHashedAnswers
<1>4. i = Refused \/ i \in DOMAIN s
  BY DEF GetAccess, Answering
<1>5. \A j \in DOMAIN s : Hashed(s[j]).user = s[j].user
  BY <1>2 DEF Hashed, Accesses
<1>6. i # Refused => k[i].user = s[i].user
  BY <1>1, <1>4, <1>5 DEF SomeHashed
<1>7. QED
  BY <1>3, <1>6 DEF LogsIn

LEMMA SurvivalAlways == CSpec => [](CTypeOK /\ SurvivalInv)
<1>1. CInit => CTypeOK /\ SurvivalInv
  BY TypeInit, SurvivalInit
<1>2. (CTypeOK /\ SurvivalInv) /\ [CNext]_cvars => (CTypeOK /\ SurvivalInv)'
  BY TypeStep, SurvivalStep
<1>3. QED
  BY <1>1, <1>2, PTL DEF CSpec

\* Hashing keeps every login, whatever fails, crashes or is saved in time
\* (config.go:100-166).
THEOREM LoginsSurviveHashing == CSpec => []PasswordsSurvive
  BY SurvivalMeans, SurvivalAlways, PTL

\* The passwords of the file are replaced by hashed equivalents, as the comment
\* at confpar.go:67 has it, unless the administrator's last save fell between
\* a look at the file and the write that follows from it: the race run
\* config_wrong_entry finds is the only way to lose a password.
THEOREM UnracedFilesHoldEquivalents == CSpec => [](~raced => HashedEquivalents)
<1>1. ASSUME CTypeOK, SurvivalInv, ~raced PROVE HashedEquivalents
  <2> SUFFICES ASSUME disk \notin {NoFile, Damaged}, NEW i \in DOMAIN disk.accesses
               PROVE  \E version \in Saves \cup {Default} : \E j \in DOMAIN version.accesses :
                        /\ version.accesses[j].user = disk.accesses[i].user
                        /\ version.accesses[j].pass.text = disk.accesses[i].pass.text
    BY DEF HashedEquivalents
  <2> DEFINE s == Base.accesses
  <2>1. Base \in Saves \cup {Default} /\ s \in Seq(Accesses) /\ SomeHashed(disk.accesses, s)
    BY <1>1, ConfigFileAssumption DEF SurvivalInv, OfBase, Base, Files
  <2>2. i \in DOMAIN s /\ s[i] \in Accesses /\ disk.accesses[i] \in {s[i], Hashed(s[i])}
    BY <2>1, ElementOfSeq, LenProperties DEF SomeHashed
  <2>3. Hashed(s[i]).user = s[i].user /\ Hashed(s[i]).pass.text = s[i].pass.text
    BY <2>2 DEF Hashed, Accesses
  <2>4. QED
    BY <2>1, <2>2, <2>3
<1>2. QED
  BY <1>1, SurvivalAlways, PTL

-----------------------------------------------------------------------------

AllHashed(accesses) == \A i \in DOMAIN accesses : ~ToHash(accesses[i])

\* While a load that nobody has interfered with is under way, the document in
\* memory, its text and the file go through the same versions.
FreshInv ==
  fresh =>
    /\ at \notin {"off", "create", "fill"}
    /\ at \in {"read", "hash"} => disk \in Files /\ content.accesses = disk.accesses
    /\ at = "hash" => text = disk
    /\ at \in {"truncate", "write"} =>
         /\ text \in Files
         /\ content.accesses = text.accesses
         /\ AllHashed(text.accesses)
    /\ at \in {"prepare", "serving"} =>
         /\ disk \in Files
         /\ content.accesses = disk.accesses
         /\ disk.hash => AllHashed(disk.accesses)
    /\ at = "serving" => content.prepared

\* When no password resists, the loop leaves none in plain text, and gives
\* memory and text the same entries.
LEMMA HashBoth ==
  ASSUME NEW k \in Files, Stubborn(k.accesses) = {}
  PROVE  LET hashed == HashAccesses(k.accesses) IN
         /\ SetPasswords(k, k.accesses).accesses = hashed
         /\ AllHashed(hashed)
         /\ AllHashed(k.accesses) => hashed = k.accesses
<1> DEFINE s == k.accesses
           hashed == HashAccesses(s)
<1>1. s \in Seq(Accesses)
  BY DEF Files
<1>2. \A i \in DOMAIN s : s[i] \in Accesses
  BY <1>1, ElementOfSeq, LenProperties
<1>3. hashed = [i \in DOMAIN s |-> Hashed(s[i])]
  BY DEF HashAccesses, Replaced
<1>4. SetPasswords(k, s).accesses =
        [i \in DOMAIN s |->
           IF ToHash(s[i]) THEN [s[i] EXCEPT !.pass = Hashed(s[i]).pass] ELSE s[i]]
  BY <1>1, SetPasswordsInPlace DEF Files
<1>5. ASSUME NEW i \in DOMAIN s
      PROVE  (IF ToHash(s[i]) THEN [s[i] EXCEPT !.pass = Hashed(s[i]).pass]
                              ELSE s[i]) = Hashed(s[i])
  <2>1. CASE ToHash(s[i])
    BY <1>2, <2>1, HashedEntry
  <2>2. CASE ~ToHash(s[i])
    BY <2>2 DEF Hashed
  <2>3. QED
    BY <2>1, <2>2
<1>6. SetPasswords(k, s).accesses = hashed
  BY <1>3, <1>4, <1>5
<1>7. AllHashed(hashed)
  BY <1>2, <1>3, HashedEntry DEF AllHashed
<1>8. ASSUME AllHashed(s) PROVE hashed = s
  <2>1. \A i \in DOMAIN s : Hashed(s[i]) = s[i]
    BY <1>8 DEF AllHashed, Hashed
  <2>2. s = [i \in DOMAIN s |-> s[i]]
    BY <1>1
  <2>3. QED
    BY <1>3, <2>1, <2>2
<1>9. QED
  BY <1>6, <1>7, <1>8

LEMMA FreshStep ==
  ASSUME CTypeOK, FreshInv, [CNext]_cvars
  PROVE  FreshInv'
<1> USE ConfigFileAssumption DEF FreshInv
<1> SUFFICES ASSUME fresh' PROVE FreshInv'
  OBVIOUS
<1>1. CASE Save
  BY <1>1 DEF Save
<1>2. CASE Crash
  BY <1>2 DEF Crash
<1>3. CASE Stat
  BY <1>3 DEF Stat
<1>4. CASE Create
  BY <1>4 DEF Create
<1>5. CASE Fill
  BY <1>5 DEF Fill
<1>6. CASE ReloadConfig
  BY <1>6 DEF ReloadConfig
<1>7. CASE Decode
  <2>1. disk \in Files /\ content'.accesses = disk.accesses /\ UNCHANGED disk
    BY <1>7 DEF Decode, Fail, fileVars, CTypeOK
  <2>2. CASE disk.hash
    BY <1>7, <2>1, <2>2 DEF Decode, Fail, CTypeOK
  <2>3. CASE ~disk.hash
    BY <1>7, <2>1, <2>3 DEF Decode, Fail, CTypeOK
  <2>4. QED
    BY <2>2, <2>3
<1>8. CASE ReadFile
  BY <1>8 DEF ReadFile, Fail, fileVars
<1>9. CASE HashPasswords
  <2> DEFINE s == content.accesses
  <2>1. /\ at = "hash" /\ Stubborn(s) = {} /\ fresh
        /\ content' = [content EXCEPT !.accesses = HashAccesses(s)]
        /\ \/ /\ \E i \in DOMAIN s : ToHash(s[i])
              /\ at' = "truncate" /\ text' \in Rewritten(text, s)
           \/ /\ text = Damaged \/ ~\E i \in DOMAIN s : ToHash(s[i])
              /\ at' = "prepare" /\ UNCHANGED text
        /\ UNCHANGED disk
    BY <1>9 DEF HashPasswords, fileVars
  <2>2. text = disk /\ disk \in Files /\ s = text.accesses /\ text # Damaged
    BY <2>1
  <2>9. s \in Seq(Accesses) /\ Rewritten(text, s) = {SetPasswords(text, s)}
    BY <2>2 DEF Rewritten, Files
  <2>3. /\ at' = "truncate" => text'.accesses = HashAccesses(s)
        /\ AllHashed(HashAccesses(s))
        /\ AllHashed(s) => HashAccesses(s) = s
    BY <2>1, <2>2, <2>9, HashBoth
  <2>4. content'.accesses = HashAccesses(s)
    BY <2>1 DEF CTypeOK, Contents, Loading
  <2>5. text' \in Files
    BY <2>1, <2>2, <2>9, SetPasswordsType
  <2>6. CASE AllHashed(s)
    BY <2>1, <2>2, <2>3, <2>4, <2>6 DEF AllHashed
  <2>7. CASE ~AllHashed(s)
    BY <2>1, <2>3, <2>4, <2>5, <2>7 DEF AllHashed
  <2>8. QED
    BY <2>6, <2>7
<1>10. CASE Truncate
  BY <1>10 DEF Truncate, Fail
<1>11. CASE WriteFile
  BY <1>11 DEF WriteFile, Fail
<1>12. CASE Prepare
  <2>1. content'.accesses = content.accesses /\ content'.prepared
    BY <1>12 DEF Prepare, CTypeOK, Contents, Loading
  <2>2. QED
    BY <1>12, <2>1 DEF Prepare, fileVars
<1>13. CASE UNCHANGED cvars
  BY <1>13 DEF cvars
<1>14. QED
  BY <1>1, <1>2, <1>3, <1>4, <1>5, <1>6, <1>7, <1>8, <1>9, <1>10, <1>11, <1>12,
     <1>13 DEF CNext, Start, Load

LEMMA FreshAlways == CSpec => [](CTypeOK /\ FreshInv)
<1>1. CInit => CTypeOK /\ FreshInv
  BY TypeInit DEF CInit, FreshInv
<1>2. (CTypeOK /\ FreshInv) /\ [CNext]_cvars => (CTypeOK /\ FreshInv)'
  BY TypeStep, FreshStep
<1>3. QED
  BY <1>1, <1>2, PTL DEF CSpec

\* After a load that succeeded (config.go:66-180) the server checks passwords
\* against the entries the file holds.
THEOREM FileAgreesAfterLoad == CSpec => []FileAgreesWithMemory
<1>1. FreshInv => FileAgreesWithMemory
  BY DEF FreshInv, FileAgreesWithMemory
<1>2. QED
  BY <1>1, FreshAlways, PTL

\* A file that asks for it is served without a password in plain text
\* (config.go:83-88, 158-164).
THEOREM NoPlaintextAfterLoad == CSpec => []NoPlaintextLeft
<1>1. FreshInv => NoPlaintextLeft
  BY DEF FreshInv, NoPlaintextLeft, AllHashed
<1>2. QED
  BY <1>1, FreshAlways, PTL

\* A reload that finds no document ends before anything is published
\* (config.go:66-81).
THEOREM BadFileKeepsContent == CSpec => BadFileChangesNothing
<1>1. ASSUME [CNext]_cvars,
             at = "open", disk \in {NoFile, Damaged}, ~starting, at' # "off"
      PROVE  content' = content
  BY <1>1 DEF CNext, Start, Load, Save, Crash, Stat, Create, Fill, ReloadConfig,
     Decode, Fail, ReadFile, HashPasswords, Truncate, WriteFile, Prepare, cvars
<1>2. QED
  BY <1>1, PTL DEF CSpec, BadFileChangesNothing

-----------------------------------------------------------------------------

\* A login is answered with one of the users, or with nobody.
LEMMA RulesAreRules ==
  ASSUME NEW k, k.accesses \in Seq(Accesses)
  PROVE  RulesOf(k) \in Rules
<1>1. \A i \in DOMAIN k.accesses : k.accesses[i] \in Accesses
  BY ElementOfSeq, LenProperties
<1>2. ASSUME NEW user, NEW pass
      PROVE  LogsIn(k, user, pass) \in Users \cup {"nobody"}
  <2>1. \/ GetAccess(k.accesses, user, pass) = Refused
        \/ GetAccess(k.accesses, user, pass) \in DOMAIN k.accesses
    BY DEF GetAccess, Answering
  <2>2. \A a \in Accesses : a.user \in Users
    BY UsersOfAccesses
  <2>3. QED
    BY <1>1, <2>1, <2>2 DEF LogsIn
<1>3. QED
  BY <1>2 DEF RulesOf, Rules

\* Two lists that answer every login with the same entry, of the same user,
\* are the same rules; a list and its hashed form are two of them.
LEMMA HashedRules ==
  ASSUME NEW k, k.accesses \in Seq(Accesses),
         NEW l, l.accesses = HashAccesses(k.accesses)
  PROVE  RulesOf(l) = RulesOf(k)
<1> DEFINE s == k.accesses
<1>1. \A i \in DOMAIN s : s[i] \in Accesses /\ IsAccess(s[i])
  BY ElementOfSeq, LenProperties, AccessesAreAccesses
<1>2. \A i \in DOMAIN s : HashAccesses(s)[i].user = s[i].user
  BY <1>1 DEF HashAccesses, Hashed, Accesses
<1>3. ASSUME NEW user, NEW pass
      PROVE  LogsIn(l, user, pass) = LogsIn(k, user, pass)
  <2>1. GetAccess(l.accesses, user, pass) = GetAccess(s, user, pass)
    BY <1>1, HashingPreservesAccess
  <2>2. GetAccess(s, user, pass) = Refused \/ GetAccess(s, user, pass) \in DOMAIN s
    BY DEF GetAccess, Answering
  <2>3. QED
    BY <1>2, <2>1, <2>2 DEF LogsIn
<1>4. QED
  BY <1>3 DEF RulesOf

LEMMA RulesTypes ==
  ASSUME CTypeOK
  PROVE  RulesOnDisk \in Rules \cup {NoContent} /\ RulesInForce \in Rules \cup {NoContent}
<1>1. disk \notin {NoFile, Damaged} => RulesOf(disk) \in Rules
  BY RulesAreRules DEF CTypeOK, Files
<1>2. content # NoContent => RulesOf(content) \in Rules
  BY RulesAreRules DEF CTypeOK, Contents
<1>3. QED
  BY <1>1, <1>2 DEF RulesOnDisk, RulesInForce

\* Most steps leave the rules of the server alone, or end it.
LEMMA RulesKept ==
  ASSUME CTypeOK, CTypeOK', content' = content
  PROVE  RulesInForce' = RulesInForce
BY DEF RulesInForce, RulesOf, LogsIn

\* An error of a load is no step, or the end of the process.
LEMMA FailRefines ==
  ASSUME CTypeOK, CTypeOK', Fail, at # "off",
         UNCHANGED disk \/ disk' = Damaged
  PROVE  [R!Next]_R!rvars
<1>1. RulesOnDisk' \in {RulesOnDisk, NoContent} /\ RulesOnDisk' \in Rules \cup {NoContent}
  BY RulesTypes DEF RulesOnDisk, RulesOf, LogsIn
<1>2. CASE starting
  <2>1. at' = "off" /\ RulesInForce' = NoContent
    BY <1>2 DEF Fail, RulesInForce
  <2>2. R!End
    BY <1>1, <2>1 DEF R!End
  <2>3. QED
    BY <2>2 DEF R!Next
<1>3. CASE ~starting
  <2>1. at' = "serving" /\ RulesInForce' = RulesInForce
    BY <1>3, RulesKept DEF Fail
  <2>2. R!Save
    BY <1>1, <2>1 DEF R!Save
  <2>3. QED
    BY <2>2 DEF R!Next
<1>4. QED
  BY <1>2, <1>3

LEMMA RulesStep ==
  ASSUME CTypeOK, CTypeOK', [CNext]_cvars
  PROVE  [R!Next]_R!rvars
<1>1. RulesOnDisk' \in Rules \cup {NoContent}
  <2>1. disk' \notin {NoFile, Damaged} => RulesOf(disk') \in Rules
    BY RulesAreRules DEF CTypeOK, Files
  <2>2. QED
    BY <2>1 DEF RulesOnDisk, RulesOf, LogsIn
<1>2. ASSUME UNCHANGED content, (at' # "off") <=> (at # "off")
      PROVE  R!Save
  BY <1>1, <1>2, RulesKept DEF R!Save
<1>3. ASSUME UNCHANGED disk PROVE RulesOnDisk' = RulesOnDisk
  BY <1>3 DEF RulesOnDisk, RulesOf, LogsIn
<1>4. CASE Save \/ Create \/ Fill \/ ReloadConfig \/ UNCHANGED cvars
  BY <1>2, <1>4 DEF Save, Create, Fill, ReloadConfig, cvars, R!Next
<1>5. CASE Crash
  <2>1. R!End
    BY <1>3, <1>5 DEF Crash, fileVars, RulesInForce, R!End
  <2>2. QED
    BY <2>1 DEF R!Next
<1>6. CASE Stat
  <2>1. R!Start
    BY <1>3, <1>6, RulesKept DEF Stat, fileVars, R!Start
  <2>2. QED
    BY <2>1 DEF R!Next
<1>7. CASE Decode
  <2>1. CASE disk \in {NoFile, Damaged}
    BY <1>7, <2>1, FailRefines DEF Decode, fileVars
  <2>2. CASE disk \notin {NoFile, Damaged}
    <3>1. /\ at = "open" /\ at' # "off" /\ UNCHANGED disk
          /\ content'.accesses = disk.accesses
          /\ content' # NoContent
      BY <1>7, <2>2, ConfigFileAssumption DEF Decode, fileVars, CTypeOK, Loading
    <3>2. RulesInForce' = RulesOf(disk)
      BY <3>1 DEF RulesInForce, RulesOf, LogsIn
    <3>3. RulesOnDisk = RulesOf(disk) /\ RulesOf(disk) # NoContent
      BY <2>2, RulesAreRules, ConfigFileAssumption DEF RulesOnDisk, CTypeOK, Files
    <3>4. R!Adopt
      BY <1>3, <3>1, <3>2, <3>3 DEF R!Adopt
    <3>5. QED
      BY <3>4 DEF R!Next
  <2>3. QED
    BY <2>1, <2>2
<1>8. CASE ReadFile
  <2>1. CASE disk = NoFile
    BY <1>8, <2>1, FailRefines DEF ReadFile, fileVars
  <2>2. CASE disk # NoFile
    BY <1>2, <1>8, <2>2 DEF ReadFile, R!Next
  <2>3. QED
    BY <2>1, <2>2
<1>9. CASE HashPasswords
  <2> DEFINE hashing == [content EXCEPT !.accesses = HashAccesses(content.accesses)]
  <2>1. /\ at = "hash" /\ UNCHANGED disk
        /\ content \in Contents /\ content # NoContent
        /\ content.accesses \in Seq(Accesses)
        /\ hashing.accesses = HashAccesses(content.accesses)
    BY <1>9 DEF HashPasswords, fileVars, CTypeOK, Contents, Loading
  <2>2. CASE content' = hashing /\ at' # "off"
    <3>1. RulesOf(content') = RulesOf(content)
      BY <2>1, <2>2, HashedRules
    <3>2. content' # NoContent
      BY <2>1, <2>2, HashAccessesType, ConfigFileAssumption DEF Contents
    <3>3. RulesInForce' = RulesInForce
      BY <2>1, <3>1, <3>2 DEF RulesInForce, RulesOf, LogsIn
    <3>4. R!Save
      BY <1>1, <2>1, <2>2, <3>3 DEF R!Save
    <3>5. QED
      BY <3>4 DEF R!Next
  <2>3. CASE content' = NoContent /\ at' = "off"
    <3>1. R!End
      BY <1>3, <2>1, <2>3 DEF RulesInForce, R!End
    <3>2. QED
      BY <3>1 DEF R!Next
  <2>4. QED
    BY <1>9, <2>2, <2>3 DEF HashPasswords
<1>10. CASE Truncate
  BY <1>2, <1>10, FailRefines DEF Truncate, R!Next
<1>11. CASE WriteFile
  BY <1>2, <1>11, FailRefines DEF WriteFile, R!Next
<1>12. CASE Prepare
  <2>1. /\ at = "prepare" /\ at' = "serving"
        /\ content \in Contents /\ content # NoContent
        /\ content' = [content EXCEPT !.prepared = TRUE]
    BY <1>12, ConfigFileAssumption DEF Prepare, CTypeOK, Loading
  <2>2. content' \in Contents /\ content'.accesses = content.accesses
    BY <2>1 DEF Contents
  <2>3. RulesInForce' = RulesInForce
    <3>1. RulesOf(content') = RulesOf(content)
      BY <2>2 DEF RulesOf, LogsIn
    <3>2. content' # NoContent
      BY <2>2, ConfigFileAssumption
    <3>3. QED
      BY <2>1, <3>1, <3>2 DEF RulesInForce, RulesOf, LogsIn
  <2>4. R!Save
    BY <1>1, <2>1, <2>3 DEF R!Save
  <2>5. QED
    BY <2>4 DEF R!Next
<1>13. QED
  BY <1>4, <1>5, <1>6, <1>7, <1>8, <1>9, <1>10, <1>11, <1>12 DEF CNext, Start, Load

\* A load is one step for whoever logs in: after the Content is published,
\* neither hashing nor writing nor an error changes an answer
\* (config.go:66-180; it is the Reload that Login takes a load for).
THEOREM RulesRefinement == CSpec => ImplementsServedRules
<1>1. CInit => R!Init
  <2> SUFFICES ASSUME CInit PROVE R!Init
    OBVIOUS
  <2>1. RulesOnDisk \in Rules \cup {NoContent}
    BY TypeInit, RulesTypes
  <2>2. QED
    BY <2>1 DEF CInit, R!Init, RulesInForce
<1>2. CTypeOK /\ CTypeOK' /\ [CNext]_cvars => [R!Next]_R!rvars
  BY RulesStep
<1>3. QED
  BY <1>1, <1>2, ConfigTypeCorrect, PTL DEF CSpec, ImplementsServedRules, R!Spec

=============================================================================
