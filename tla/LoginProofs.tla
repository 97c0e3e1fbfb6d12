---------------------------- MODULE LoginProofs ----------------------------
(***************************************************************************)
(* Proofs about Login for any number of logins and reloads: the cache and  *)
(* its mutex behave as SharedFs, a client whose password was checked here  *)
(* gets a file system of its own user, and a shared one is loaded once.    *)
(*                                                                         *)
(* GetAccess writes the credentials of a login into the entry of Keycloak, *)
(* so the access of a login may change under it.  What is proved of the    *)
(* cache needs entries of Keycloak that share nothing: only then is what   *)
(* is saved under a name always of that name.                              *)
(***************************************************************************)
EXTENDS Login, SequenceTheorems, TLAPS

\* The access of login s is the entry of Keycloak, which other logins write.
Mutable(s) == found[s].version # 0 /\ Delegates(Access(s))

\* A login points to an entry, of its own user unless others write it, and
\* writes only into one of Keycloak's; it loads with an access and the mutex.
PointerInv ==
  \A s \in Sessions :
    /\ found[s].version # 0 =>
         /\ found[s].index \in DOMAIN heap[found[s].version].accesses
         /\ ~Mutable(s) => Access(s).user = user[s]
    /\ at[s] \in {"user", "pass"} => Mutable(s)
    /\ at[s] \in Loading \cup {"served"} => Access(s) # NoAccess

\* The mutex is held by the login that loads.
LockInv == \A s \in Sessions : lock = s <=> at[s] \in Loading

Basic == TypeOK /\ PointerInv /\ LockInv

\* The entries of Keycloak share nothing.
Private == \A v \in Versions : PrivateKeycloak(heap[v].accesses)

\* A login loads only when a user has no shared instance, its own user if its
\* access is fixed, and what it has loaded is its own.
LoadingInv ==
  \A s \in Sessions :
    /\ at[s] \in Loading =>
         /\ \E u \in Users : cache[u] = NoFs
         /\ ~Mutable(s) => cache[Access(s).user] = NoFs
    /\ at[s] = "store" =>
         /\ loading[s] \in FileSystems
         /\ loading[s].by = s
         /\ ~Mutable(s) => loading[s].user = Access(s).user

\* What is served or cached was built by a login that has been served.
ServedInv ==
  /\ \A s \in Sessions :
       /\ served[s] # NoFs <=> at[s] = "served"
       /\ at[s] = "served" =>
            /\ served[s] \in FileSystems
            /\ at[served[s].by] = "served"
            /\ ~Mutable(s) => served[s].user = Access(s).user
            /\ Access(s).shared => served[s] = cache[Access(s).user]
  /\ \A u \in Users :
       cache[u] # NoFs =>
         /\ cache[u] \in FileSystems
         /\ cache[u].user = u
         /\ at[cache[u].by] = "served"

IInv == Basic /\ (Private => LoadingInv /\ ServedInv)

-----------------------------------------------------------------------------

\* GetAccess returns an entry of the user, unless it delegates.
LEMMA GetAccessFindsUser ==
  ASSUME NEW accesses, NEW u, NEW p,
         GetAccess(accesses, u, p) # Refused
  PROVE  LET i == GetAccess(accesses, u, p)
         IN  /\ i \in DOMAIN accesses
             /\ ~Delegates(accesses[i]) => accesses[i].user = u
  BY DEF GetAccess, Answering, Accepts

\* The accesses of a version are a sequence of entries.
LEMMA AccessesType ==
  ASSUME TypeOK, NEW v \in Versions
  PROVE  /\ heap[v].accesses \in Seq(Entries)
         /\ \A i \in DOMAIN heap[v].accesses : i \in Nat /\ heap[v].accesses[i] \in Entries
<1>1. heap[v].accesses \in Seq(Entries)
  BY DEF TypeOK, Configurations
<1>2. QED
  BY <1>1, ElementOfSeq, LenProperties

\* A pointer is nil or leads to an entry.
LEMMA AccessType ==
  ASSUME TypeOK, PointerInv, NEW s \in Sessions
  PROVE  /\ Access(s) \in Entries \cup {NoAccess}
         /\ found[s].version # 0 => found[s].version \in Versions /\ Access(s) \in Entries
         /\ Access(s) # NoAccess => Access(s).user \in Users /\ Access(s).readOnly \in BOOLEAN
<1>1. CASE found[s].version = 0
  BY <1>1, LoginAssumption DEF TypeOK, Access, Entries
<1>2. CASE found[s].version # 0
  <2>1. found[s].version \in Versions
    BY <1>2, LoginAssumption DEF TypeOK, Versions
  <2>2. Access(s) \in Entries
    BY <1>2, <2>1, AccessesType DEF PointerInv, Access
  <2>3. QED
    BY <2>1, <2>2 DEF Entries
<1>3. QED
  BY <1>1, <1>2

\* Where nothing is shared through Keycloak, a shared access is fixed.
LEMMA SharedIsFixed ==
  ASSUME Basic, Private, NEW s \in Sessions, Access(s).shared
  PROVE  ~Mutable(s)
<1> SUFFICES ASSUME Mutable(s) PROVE FALSE
  OBVIOUS
<1>1. /\ found[s].version \in Versions
      /\ found[s].index \in DOMAIN heap[found[s].version].accesses
  BY AccessType DEF Basic, PointerInv, Mutable
<1>2. QED
  BY <1>1 DEF Private, PrivateKeycloak, Mutable, Access

-----------------------------------------------------------------------------

\* What a write to the entry of Keycloak leaves of the access of a login.
Keeps(t) ==
  /\ Mutable(t)' <=> Mutable(t)
  /\ ~Mutable(t) => Access(t)' = Access(t)
  /\ Access(t)'.shared = Access(t).shared
  /\ Access(t) # NoAccess => Access(t)' # NoAccess

\* SetUser and SetPass change the name or the password of one entry of
\* Keycloak, and so the type and the fixed fields of no other.
LEMMA WriteStep ==
  ASSUME Basic, NEW s \in Sessions, SetUser(s) \/ SetPass(s)
  PROVE  /\ UNCHANGED <<user, pass, content, found, answer, cacheVars>>
         /\ heap' \in [Versions -> Configurations]
         /\ Private' <=> Private
         /\ \A t \in Sessions :
              /\ Keeps(t)
              /\ found[t].version # 0 =>
                   found[t].index \in DOMAIN heap'[found[t].version].accesses
<1> DEFINE v == found[s].version
           i == found[s].index
           old == heap[v].accesses
<1>1. /\ Mutable(s) /\ v \in Versions /\ i \in DOMAIN old
      /\ old \in Seq(Entries) /\ old[i] \in Entries /\ Delegates(old[i])
      /\ heap \in [Versions -> Configurations]
  <2>1. Mutable(s)
    BY DEF Basic, PointerInv, SetUser, SetPass, At
  <2>2. v # 0 /\ v \in Versions /\ i \in DOMAIN old
    BY <2>1, AccessType DEF Basic, PointerInv, Mutable
  <2>3. QED
    BY <2>1, <2>2, AccessesType DEF Basic, TypeOK, Mutable, Access
<1>2. PICK e \in Entries :
        /\ heap' = [heap EXCEPT ![v].accesses[i] = e]
        /\ e.fs = old[i].fs /\ e.shared = old[i].shared
  <2>1. CASE SetUser(s)
    <3> DEFINE e == [old[i] EXCEPT !.user = user[s]]
    <3>1. e \in Entries /\ e.fs = old[i].fs /\ e.shared = old[i].shared
      BY <1>1 DEF Entries, Basic, TypeOK
    <3>2. heap' = [heap EXCEPT ![v].accesses[i] = e]
      BY <2>1 DEF SetUser
    <3>3. QED
      BY <3>1, <3>2
  <2>2. CASE SetPass(s)
    <3> DEFINE e == [old[i] EXCEPT !.pass = [form |-> "plain", text |-> pass[s]]]
    <3>1. e \in Entries /\ e.fs = old[i].fs /\ e.shared = old[i].shared
      BY <1>1 DEF Entries, Basic, TypeOK
    <3>2. heap' = [heap EXCEPT ![v].accesses[i] = e]
      BY <2>2 DEF SetPass
    <3>3. QED
      BY <3>1, <3>2
  <2>3. QED
    BY <2>1, <2>2
<1> DEFINE new == [old EXCEPT ![i] = e]
<1>3. /\ new \in Seq(Entries)
      /\ DOMAIN new = DOMAIN old
      /\ \A j \in DOMAIN old : new[j] = IF j = i THEN e ELSE old[j]
  BY <1>1, ExceptSeq, LenProperties
<1>4. /\ heap' \in [Versions -> Configurations]
      /\ \A w \in Versions : heap'[w].accesses = IF w = v THEN new ELSE heap[w].accesses
  <2> DEFINE config == [heap[v] EXCEPT !.accesses = new]
  <2>1. heap' = [heap EXCEPT ![v] = config]
    BY <1>2
  <2>2. config \in Configurations /\ config.accesses = new
    <3>1. heap[v] \in Configurations
      BY <1>1
    <3> HIDE DEF new
    <3>2. QED
      BY <1>3, <3>1 DEF Configurations
  <2> HIDE DEF config
  <2>3. QED
    BY <1>1, <2>1, <2>2
<1>5. \A w \in Versions :
        /\ DOMAIN heap'[w].accesses = DOMAIN heap[w].accesses
        /\ \A j \in DOMAIN heap[w].accesses :
             /\ heap'[w].accesses[j] \in Entries \cup {heap[w].accesses[j]}
             /\ heap'[w].accesses[j].fs = heap[w].accesses[j].fs
             /\ heap'[w].accesses[j].shared = heap[w].accesses[j].shared
             /\ ~Delegates(heap[w].accesses[j]) =>
                  heap'[w].accesses[j] = heap[w].accesses[j]
  BY <1>1, <1>2, <1>3, <1>4
<1>6. Private' <=> Private
  BY <1>5 DEF Private, PrivateKeycloak, Delegates
<1>7. UNCHANGED <<user, pass, content, found, answer, cacheVars>>
  BY DEF SetUser, SetPass, typedVars, foundVars, cacheVars
<1>8. ASSUME NEW t \in Sessions
      PROVE  /\ Keeps(t)
             /\ found[t].version # 0 =>
                  found[t].index \in DOMAIN heap'[found[t].version].accesses
  <2>1. CASE found[t].version = 0
    BY <1>7, <2>1 DEF Keeps, Mutable, Access
  <2>2. CASE found[t].version # 0
    <3>1. /\ found[t].version \in Versions
          /\ found[t].index \in DOMAIN heap[found[t].version].accesses
      BY <2>2, AccessType DEF Basic, PointerInv
    <3>2. /\ Access(t) = heap[found[t].version].accesses[found[t].index]
          /\ Access(t)' = heap'[found[t].version].accesses[found[t].index]
      BY <1>7, <2>2 DEF Access
    <3>3. /\ Access(t)' \in Entries \cup {Access(t)}
          /\ Access(t)'.fs = Access(t).fs
          /\ Access(t)'.shared = Access(t).shared
          /\ ~Delegates(Access(t)) => Access(t)' = Access(t)
      BY <1>5, <3>1, <3>2
    <3>4. QED
      BY <1>5, <1>7, <2>2, <3>1, <3>3, LoginAssumption DEF Keeps, Mutable, Delegates
  <2>3. QED
    BY <2>1, <2>2
<1>9. QED
  BY <1>4, <1>6, <1>7, <1>8

-----------------------------------------------------------------------------

LEMMA InitIInv == Init => IInv
<1> SUFFICES ASSUME Init PROVE IInv
  OBVIOUS
<1>1. heap \in [Versions -> Configurations]
  BY LoginAssumption DEF Init
<1>2. QED
  BY <1>1, LoginAssumption
  DEF Init, IInv, Basic, TypeOK, PointerInv, LockInv, LoadingInv, ServedInv, Versions,
      Loading, Finding, Ended

\* Where a login may go while it is being looked up.
Searching == Finding \cup {"lookup", "refused", "crashed"}

\* Looking up the access of one login touches nothing of the cache, and of the
\* other logins only what Keeps says; it yields an entry to point to.
LEMMA FindStep ==
  ASSUME Basic, NEW s \in Sessions, AuthUser(s) \/ Find(s)
  PROVE  /\ at[s] \in {"idle"} \cup Finding
         /\ \E place \in Searching : Goto(s, place)
         /\ UNCHANGED <<user, pass, content, cacheVars>>
         /\ heap' \in [Versions -> Configurations]
         /\ found' \in [Sessions -> [version : 0 .. Reloads + 1, index : Nat]]
         /\ answer' \in [Sessions -> WebhookAccesses \cup {NoAccess}]
         /\ Private' <=> Private
         /\ \A t \in Sessions \ {s} : found'[t] = found[t] /\ Keeps(t)
         /\ PointerInv'
<1> USE DEF At, Goto, Searching, Finding
<1> USE DEF Basic
<1>1. CASE AuthUser(s) \/ ReadWebhook(s)
  <2>1. UNCHANGED <<user, pass, heap, content, found, answer, cacheVars>>
    BY <1>1 DEF AuthUser, ReadWebhook, typedVars, foundVars
  <2>2. \A t \in Sessions : Access(t)' = Access(t) /\ (Mutable(t)' <=> Mutable(t))
    BY <2>1 DEF Access, Mutable
  <2>3. \E place \in Searching \ {"user", "pass"} :
          at' = [at EXCEPT ![s] = place] /\ at[s] \in {"idle"} \cup Finding
    BY <1>1 DEF AuthUser, ReadWebhook
  <2>4. PointerInv'
    BY <2>1, <2>2, <2>3 DEF TypeOK, PointerInv, Loading
  <2>5. QED
    BY <2>1, <2>2, <2>3, <2>4 DEF TypeOK, Keeps, Private
<1>2. CASE WebhookAnswers(s)
  <2>1. /\ UNCHANGED <<user, pass, heap, content, found, cacheVars>>
        /\ \A t \in Sessions \ {s} : answer'[t] = answer[t]
        /\ answer' \in [Sessions -> WebhookAccesses \cup {NoAccess}]
    BY <1>2 DEF WebhookAnswers, typedVars, TypeOK
  <2>2. /\ \A t \in Sessions \ {s} : Access(t)' = Access(t)
        /\ \A t \in Sessions : found[t].version # 0 => Access(t)' = Access(t)
    BY <2>1 DEF Access
  <2>3. \A t \in Sessions : Mutable(t)' <=> Mutable(t)
    BY <2>1, <2>2 DEF Mutable
  <2>4. \E place \in {"refused", "lookup"} : at' = [at EXCEPT ![s] = place] /\ at[s] = "request"
    BY <1>2 DEF WebhookAnswers
  <2>5. PointerInv'
    BY <2>1, <2>2, <2>3, <2>4 DEF TypeOK, PointerInv, Loading
  <2>6. QED
    BY <2>1, <2>2, <2>3, <2>4, <2>5 DEF TypeOK, Keeps, Private
<1>3. CASE Search(s)
  <2> DEFINE list == Published.accesses
             i == GetAccess(list, user[s], pass[s])
  <2>1. CASE i = Refused
    <3>1. /\ UNCHANGED <<user, pass, heap, content, found, answer, cacheVars>>
          /\ at' = [at EXCEPT ![s] = "refused"] /\ at[s] = "search"
      BY <1>3, <2>1 DEF Search, typedVars
    <3>2. \A t \in Sessions : Access(t)' = Access(t) /\ (Mutable(t)' <=> Mutable(t))
      BY <3>1 DEF Access, Mutable
    <3>3. PointerInv'
      BY <3>1, <3>2 DEF TypeOK, PointerInv, Loading
    <3>4. QED
      BY <3>1, <3>2, <3>3 DEF TypeOK, Keeps, Private
  <2>2. CASE i # Refused
    <3>1. content \in Versions /\ content # 0 /\ content \in 0 .. Reloads + 1
      BY LoginAssumption DEF TypeOK, Versions
    <3>2. /\ i \in DOMAIN list /\ i \in Nat
          /\ ~Delegates(list[i]) => list[i].user = user[s]
      BY <2>2, <3>1, GetAccessFindsUser, AccessesType DEF Published
    <3>3. /\ at[s] = "search"
          /\ found' = [found EXCEPT ![s] = [version |-> content, index |-> i]]
          /\ at' = [at EXCEPT ![s] = IF Delegates(list[i]) THEN "user" ELSE "lookup"]
          /\ UNCHANGED <<user, pass, heap, content, answer, cacheVars>>
      BY <1>3, <2>2 DEF Search, typedVars
    <3>4. \A t \in Sessions \ {s} :
            found'[t] = found[t] /\ Access(t)' = Access(t) /\ (Mutable(t)' <=> Mutable(t))
      BY <3>3 DEF Access, Mutable
    <3>5. /\ found'[s].version = content /\ found'[s].index = i
          /\ Access(s)' = list[i]
          /\ Mutable(s)' <=> Delegates(list[i])
      BY <3>1, <3>3 DEF TypeOK, Access, Mutable, Published
    <3>6. PointerInv'
      BY <3>1, <3>2, <3>3, <3>4, <3>5 DEF TypeOK, PointerInv, Loading, Published
    <3>7. found' \in [Sessions -> [version : 0 .. Reloads + 1, index : Nat]]
      BY <3>1, <3>2, <3>3 DEF TypeOK
    <3>8. QED
      BY <3>3, <3>4, <3>6, <3>7 DEF TypeOK, Keeps, Private
  <2>3. QED  BY <2>1, <2>2
<1>4. CASE SetUser(s) \/ SetPass(s)
  <2>1. /\ at[s] \in {"user", "pass"}
        /\ \E place \in {"pass", "lookup"} : at' = [at EXCEPT ![s] = place]
    BY <1>4 DEF SetUser, SetPass
  <2>2. \A t \in Sessions :
          /\ found'[t] = found[t] /\ user'[t] = user[t]
          /\ Keeps(t)
          /\ found[t].version # 0 => found[t].index \in DOMAIN heap'[found[t].version].accesses
    BY <1>4, WriteStep
  <2>3. PointerInv'
    BY <2>1, <2>2 DEF TypeOK, PointerInv, Loading, Keeps
  <2>4. QED
    BY <1>4, <2>1, <2>2, <2>3, WriteStep DEF TypeOK
<1>5. QED
  BY <1>1, <1>2, <1>3, <1>4 DEF Find

\* What is cached and served, and what the others load, is as before.
LEMMA FindIInv ==
  ASSUME IInv, NEW s \in Sessions, AuthUser(s) \/ Find(s)
  PROVE  IInv'
<1>0. Basic
  BY DEF IInv
<1>1. PICK place \in Searching : Goto(s, place)
  BY <1>0, FindStep
<1>2. \A t \in Sessions : at'[t] = IF t = s THEN place ELSE at[t]
  BY <1>0, <1>1 DEF Basic, TypeOK, Goto
<1>3. UNCHANGED <<user, pass, content, lock, cache, loading, served>>
  BY <1>0, FindStep DEF cacheVars
<1>4. TypeOK'
  <2>1. at' \in [Sessions -> {"idle", "lookup"} \cup Finding \cup Loading \cup Ended]
    BY <1>0, <1>1 DEF Basic, TypeOK, Goto, Searching, Ended
  <2>2. QED
    BY <1>0, <1>3, <2>1, FindStep DEF Basic, TypeOK, Versions
<1>5. Basic'
  BY <1>0, <1>2, <1>3, <1>4, FindStep DEF Basic, LockInv, Searching, Finding, Loading
<1>6. ASSUME Private, LoadingInv PROVE LoadingInv'
  <2>1. ASSUME NEW t \in Sessions, at'[t] \in Loading
        PROVE  t # s /\ at'[t] = at[t] /\ Keeps(t)
    BY <1>0, <1>2, <2>1, FindStep DEF Searching, Finding, Loading
  <2>2. QED
    BY <1>3, <1>6, <2>1 DEF LoadingInv, Keeps, Loading
<1>7. ASSUME Private, ServedInv PROVE ServedInv'
  <2>1. \A t \in Sessions : at'[t] = "served" <=> at[t] = "served"
    BY <1>0, <1>2, FindStep DEF Searching, Finding
  <2>2. \A t \in Sessions : at[t] = "served" => Keeps(t)
    BY <1>0, FindStep DEF Finding
  <2>3. ASSUME NEW t \in Sessions, at[t] = "served", Access(t)'.shared
        PROVE  served[t] = cache[Access(t).user] /\ Access(t)' = Access(t)
    BY <1>0, <1>7, <2>2, <2>3, SharedIsFixed DEF Keeps, ServedInv
  <2>4. ASSUME NEW t \in Sessions, at[t] = "served"
        PROVE  served[t].by \in Sessions
    BY <1>7, <2>4 DEF ServedInv, FileSystems
  <2>5. \A u \in Users : cache[u] # NoFs => cache[u].by \in Sessions
    BY <1>7 DEF ServedInv, FileSystems
  <2>6. QED
    BY <1>3, <1>7, <2>1, <2>2, <2>3, <2>4, <2>5 DEF ServedInv, Keeps
<1>8. QED
  BY <1>0, <1>5, <1>6, <1>7, FindStep DEF IInv

LEMMA ReloadIInv == IInv /\ Reload => IInv'
<1> SUFFICES ASSUME IInv, Reload PROVE IInv'
  OBVIOUS
<1>1. content' \in Versions
  BY LoginAssumption DEF IInv, Basic, TypeOK, Reload, Versions
<1>2. UNCHANGED <<at, user, pass, heap, found, answer, lock, cache, loading, served>>
  BY DEF Reload, typedVars, foundVars, cacheVars
<1>3. QED
  BY <1>1, <1>2
  DEF IInv, Basic, TypeOK, PointerInv, LockInv, Private, LoadingInv, ServedInv, Access, Mutable

-----------------------------------------------------------------------------

\* The steps of loadFs leave the accesses alone.
LEMMA LoadFsKeeps ==
  ASSUME NEW s \in Sessions, LoadFs(s)
  PROVE  /\ UNCHANGED <<user, pass, heap, content, found, answer>>
         /\ \A t : Access(t)' = Access(t) /\ (Mutable(t)' <=> Mutable(t))
         /\ Private' <=> Private
<1>1. UNCHANGED <<user, pass, heap, content, found, answer>>
  BY DEF LoadFs, Lookup, LoadBackend, WrapFs, StoreFs, typedVars, foundVars
<1>2. \A t : Access(t)' = Access(t)
  BY <1>1 DEF Access
<1>3. QED
  BY <1>1, <1>2 DEF Mutable, Private

\* What remains of Basic, when one login moves on and the mutex follows.
LEMMA LoadFsBasic ==
  ASSUME Basic, NEW s \in Sessions, LoadFs(s),
         NEW place \in Loading \cup Ended, Goto(s, place),
         place \in Loading \cup {"served"} => Access(s) # NoAccess,
         lock' \in Sessions \cup {NoOne},
         \A t \in Sessions : lock' = t <=> at'[t] \in Loading,
         cache' \in [Users -> FileSystems \cup {NoFs}],
         loading' \in [Sessions -> FileSystems \cup {NoFs}],
         served' \in [Sessions -> FileSystems \cup {NoFs}]
  PROVE  Basic'
<1>1. at'[s] = place /\ \A t \in Sessions \ {s} : at'[t] = at[t]
  BY DEF Basic, TypeOK, Goto
<1>2. TypeOK'
  BY LoadFsKeeps DEF Basic, TypeOK, Goto, Loading, Ended, Versions
<1>3. PointerInv'
  BY <1>1, LoadFsKeeps DEF Basic, PointerInv, Loading, Ended
<1>4. QED
  BY <1>2, <1>3 DEF Basic, LockInv

LEMMA LookupIInv ==
  ASSUME IInv, NEW s \in Sessions, Lookup(s)
  PROVE  IInv'
<1> USE DEF At, Goto
<1>0. LoadFs(s) /\ Basic /\ at[s] = "lookup" /\ lock = NoOne
  BY DEF LoadFs, IInv, Lookup
<1>1. CASE Access(s) = NoAccess
  <2>1. at' = [at EXCEPT ![s] = "crashed"] /\ UNCHANGED <<lock, cache, loading, served>>
    BY <1>1 DEF Lookup
  <2>2. \A t \in Sessions : at'[t] = IF t = s THEN "crashed" ELSE at[t]
    BY <1>0, <2>1 DEF Basic, TypeOK
  <2>3. Basic'
    BY <1>0, <2>1, <2>2, LoadFsBasic DEF Basic, TypeOK, LockInv, Loading, Ended
  <2>4. ASSUME Private, LoadingInv, ServedInv PROVE LoadingInv' /\ ServedInv'
    BY <1>0, <2>1, <2>2, <2>4, LoadFsKeeps DEF LoadingInv, ServedInv, Loading, FileSystems
  <2>5. QED
    BY <1>0, <2>3, <2>4, LoadFsKeeps DEF IInv
<1>2. CASE Access(s) # NoAccess /\ cache[Access(s).user] # NoFs
  <2> DEFINE u == Access(s).user
  <2>1. u \in Users /\ cache[u] \in FileSystems
    BY <1>0, <1>2, AccessType DEF Basic, TypeOK
  <2>2. /\ served' = [served EXCEPT ![s] = cache[u]]
        /\ at' = [at EXCEPT ![s] = "served"]
        /\ UNCHANGED <<lock, cache, loading>>
    BY <1>2 DEF Lookup
  <2>3. \A t \in Sessions :
          /\ at'[t] = IF t = s THEN "served" ELSE at[t]
          /\ served'[t] = IF t = s THEN cache[u] ELSE served[t]
    BY <1>0, <2>2 DEF Basic, TypeOK
  <2>4. Basic'
    BY <1>0, <1>2, <2>1, <2>2, <2>3, LoadFsBasic DEF Basic, TypeOK, LockInv, Loading, Ended
  <2>5. ASSUME Private, LoadingInv, ServedInv PROVE LoadingInv' /\ ServedInv'
    <3>1. LoadingInv'
      BY <1>0, <2>2, <2>3, <2>5, LoadFsKeeps DEF LoadingInv, Loading
    <3>2. ServedInv'
      BY <1>0, <1>2, <2>1, <2>2, <2>3, <2>5, LoadFsKeeps, LoginAssumption
      DEF ServedInv, FileSystems
    <3>3. QED
      BY <3>1, <3>2
  <2>6. QED
    BY <1>0, <2>4, <2>5, LoadFsKeeps DEF IInv
<1>3. CASE Access(s) # NoAccess /\ cache[Access(s).user] = NoFs
  <2>1. /\ at' = [at EXCEPT ![s] = "load"]
        /\ lock' = s
        /\ UNCHANGED <<cache, loading, served>>
    BY <1>3 DEF Lookup
  <2>2. \A t \in Sessions : at'[t] = IF t = s THEN "load" ELSE at[t]
    BY <1>0, <2>1 DEF Basic, TypeOK
  <2>3. \A t \in Sessions : at[t] \notin Loading
    BY <1>0, LoginAssumption DEF Basic, LockInv
  <2>4. Basic'
    BY <1>0, <1>3, <2>1, <2>2, <2>3, LoadFsBasic DEF Basic, TypeOK, Loading
  <2>5. ASSUME Private, LoadingInv, ServedInv PROVE LoadingInv' /\ ServedInv'
    <3>1. Access(s).user \in Users
      BY <1>0, <1>3, AccessType DEF Basic
    <3>2. QED
      BY <1>0, <1>3, <2>1, <2>2, <2>5, <3>1, LoadFsKeeps
      DEF LoadingInv, ServedInv, Loading, FileSystems
  <2>6. QED
    BY <1>0, <2>4, <2>5, LoadFsKeeps DEF IInv
<1>4. QED
  BY <1>1, <1>2, <1>3

LEMMA LoadingStepIInv ==
  ASSUME IInv, NEW s \in Sessions, LoadBackend(s) \/ WrapFs(s)
  PROVE  IInv'
<1> USE DEF At, Goto, FailLoading
<1>0. /\ LoadFs(s) /\ Basic
      /\ at[s] \in {"load", "wrap"} /\ lock = s /\ Access(s) # NoAccess
      /\ UNCHANGED <<cache, served>>
      /\ \A t \in Sessions \ {s} : at[t] \notin Loading
  <2>1. LoadFs(s) /\ Basic /\ at[s] \in {"load", "wrap"} /\ UNCHANGED <<cache, served>>
    BY DEF LoadFs, IInv, LoadBackend, WrapFs
  <2>2. QED
    BY <2>1 DEF Basic, LockInv, PointerInv, Loading
<1>1. \E place \in {"refused", "wrap", "store"} : at' = [at EXCEPT ![s] = place]
  BY DEF LoadBackend, WrapFs
<1>2. \A t \in Sessions : (at'[t] = "served" <=> at[t] = "served") /\ (t # s => at'[t] = at[t])
  BY <1>0, <1>1 DEF Basic, TypeOK
<1>3. ASSUME ServedInv PROVE ServedInv'
  BY <1>0, <1>2, <1>3, LoadFsKeeps DEF ServedInv, FileSystems
<1>4. CASE FailLoading(s)
  <2>1. at'[s] = "refused" /\ lock' = NoOne /\ UNCHANGED loading
    BY <1>0, <1>4 DEF Basic, TypeOK
  <2>2. Basic'
    <3>1. \A t \in Sessions : lock' = t <=> at'[t] \in Loading
      BY <1>0, <1>2, <2>1, LoginAssumption DEF Loading
    <3>2. /\ lock' \in Sessions \cup {NoOne}
          /\ cache' \in [Users -> FileSystems \cup {NoFs}]
          /\ loading' \in [Sessions -> FileSystems \cup {NoFs}]
          /\ served' \in [Sessions -> FileSystems \cup {NoFs}]
      BY <1>0, <2>1 DEF Basic, TypeOK
    <3>3. QED
      BY <1>0, <1>4, <3>1, <3>2, LoadFsBasic DEF Ended, Loading
  <2>3. ASSUME LoadingInv PROVE LoadingInv'
    BY <1>0, <1>2, <2>1, <2>3, LoadFsKeeps DEF LoadingInv, Loading
  <2>4. QED
    BY <1>0, <1>3, <2>2, <2>3, LoadFsKeeps DEF IInv
<1>5. CASE LoadBackend(s) /\ ~FailLoading(s)
  <2>1. at' = [at EXCEPT ![s] = "wrap"] /\ UNCHANGED <<lock, loading>>
    BY <1>5 DEF LoadBackend
  <2>2. at'[s] = "wrap"
    BY <1>0, <2>1 DEF Basic, TypeOK
  <2>3. Basic'
    BY <1>0, <1>2, <2>1, <2>2, LoadFsBasic DEF Basic, TypeOK, LockInv, Loading
  <2>4. ASSUME LoadingInv PROVE LoadingInv'
    BY <1>0, <1>2, <2>1, <2>2, <2>4, LoadFsKeeps DEF LoadingInv, Loading
  <2>5. QED
    BY <1>0, <1>3, <2>3, <2>4, LoadFsKeeps DEF IInv
<1>6. CASE WrapFs(s) /\ ~FailLoading(s)
  <2> DEFINE instance == [by       |-> s,
                          user     |-> Access(s).user,
                          readOnly |-> Access(s).readOnly]
  <2>1. /\ at' = [at EXCEPT ![s] = "store"]
        /\ loading' = [loading EXCEPT ![s] = instance]
        /\ UNCHANGED lock
    BY <1>6 DEF WrapFs
  <2>2. instance \in FileSystems
    BY <1>0, AccessType DEF Basic, FileSystems
  <2>3. at'[s] = "store" /\ loading'[s] = instance
    BY <1>0, <2>1 DEF Basic, TypeOK
  <2>4. Basic'
    BY <1>0, <1>2, <2>1, <2>2, <2>3, LoadFsBasic DEF Basic, TypeOK, LockInv, Loading
  <2>5. ASSUME LoadingInv PROVE LoadingInv'
    BY <1>0, <1>2, <2>2, <2>3, <2>5, LoadFsKeeps DEF LoadingInv, Loading
  <2>6. QED
    BY <1>0, <1>3, <2>4, <2>5, LoadFsKeeps DEF IInv
<1>7. QED
  BY <1>4, <1>5, <1>6

\* The only login that loads is the one that stores, so no other login relies
\* on the entry of the cache being empty.
LEMMA StoreFsIInv ==
  ASSUME IInv, NEW s \in Sessions, StoreFs(s)
  PROVE  IInv'
<1> USE DEF At, Goto
<1> DEFINE u == Access(s).user
           shared == Access(s).shared
<1>0. /\ LoadFs(s) /\ Basic
      /\ at[s] = "store" /\ lock = s /\ Access(s) # NoAccess
      /\ \A t \in Sessions \ {s} : at[t] \notin Loading
  <2>1. LoadFs(s) /\ Basic /\ at[s] = "store"
    BY DEF LoadFs, IInv, StoreFs
  <2>2. QED
    BY <2>1 DEF Basic, LockInv, PointerInv, Loading
<1>1. /\ cache' = IF shared THEN [cache EXCEPT ![u] = loading[s]] ELSE cache
      /\ lock' = NoOne
      /\ served' = [served EXCEPT ![s] = loading[s]]
      /\ at' = [at EXCEPT ![s] = "served"]
      /\ UNCHANGED loading
  BY DEF StoreFs
<1>2. u \in Users
  BY <1>0, AccessType DEF Basic
<1>3. \A t \in Sessions :
        /\ at'[t] = IF t = s THEN "served" ELSE at[t]
        /\ served'[t] = IF t = s THEN loading[s] ELSE served[t]
  BY <1>0, <1>1 DEF Basic, TypeOK
<1>4. \A v \in Users : cache'[v] = IF shared /\ v = u THEN loading[s] ELSE cache[v]
  BY <1>0, <1>1, <1>2 DEF Basic, TypeOK
<1>5. Basic'
  <2>1. loading[s] \in FileSystems \cup {NoFs}
    BY <1>0 DEF Basic, TypeOK
  <2>2. QED
    BY <1>0, <1>1, <1>3, <2>1, LoadFsBasic, LoginAssumption
    DEF Basic, TypeOK, LockInv, Loading, Ended
<1>6. ASSUME Private, LoadingInv, ServedInv PROVE LoadingInv' /\ ServedInv'
  <2>1. LoadingInv'
    BY <1>0, <1>3 DEF LoadingInv, Loading
  <2>2. /\ loading[s] \in FileSystems /\ loading[s] # NoFs
        /\ loading[s].by = s
        /\ ~Mutable(s) => loading[s].user = u
    BY <1>0, <1>6, LoginAssumption DEF LoadingInv
  <2>3. shared => ~Mutable(s) /\ cache[u] = NoFs
    BY <1>0, <1>6, SharedIsFixed DEF LoadingInv, Loading
  <2>4. ASSUME NEW t \in Sessions, at[t] = "served", Access(t).shared
        PROVE  served[t] = cache[Access(t).user] /\ Access(t).user \in Users
               /\ cache[Access(t).user] # NoFs
    BY <1>0, <1>6, <2>4, AccessType, LoginAssumption DEF ServedInv, Basic, PointerInv
  <2>5. ASSUME NEW t \in Sessions, at'[t] = "served"
        PROVE  /\ served'[t] \in FileSystems
               /\ at'[served'[t].by] = "served"
               /\ ~Mutable(t) => served'[t].user = Access(t).user
               /\ Access(t).shared => served'[t] = cache'[Access(t).user]
    <3>1. CASE t = s
      BY <1>2, <1>3, <1>4, <2>2, <3>1
    <3>2. CASE t # s
      <4>1. /\ at[t] = "served" /\ served'[t] = served[t]
            /\ served[t] \in FileSystems
            /\ at[served[t].by] = "served"
            /\ ~Mutable(t) => served[t].user = Access(t).user
        BY <1>3, <1>6, <2>5, <3>2 DEF ServedInv
      <4>2. served[t].by \in Sessions
        BY <4>1 DEF FileSystems
      <4>3. Access(t).shared => served[t] = cache'[Access(t).user]
        BY <1>4, <2>3, <2>4, <4>1
      <4>4. QED
        BY <1>3, <4>1, <4>2, <4>3
    <3>3. QED
      BY <3>1, <3>2
  <2>6. ASSUME NEW v \in Users, cache'[v] # NoFs
        PROVE  /\ cache'[v] \in FileSystems
               /\ cache'[v].user = v
               /\ at'[cache'[v].by] = "served"
    <3>1. CASE shared /\ v = u
      BY <1>3, <1>4, <2>2, <2>3, <3>1
    <3>2. CASE ~(shared /\ v = u)
      BY <1>3, <1>4, <1>6, <2>6, <3>2 DEF ServedInv, FileSystems
    <3>3. QED
      BY <3>1, <3>2
  <2>7. \A t \in Sessions : served'[t] # NoFs <=> at'[t] = "served"
    BY <1>3, <1>6, <2>2 DEF ServedInv
  <2>8. ServedInv'
    BY <1>0, <2>5, <2>6, <2>7, LoadFsKeeps DEF ServedInv
  <2>9. QED
    BY <2>1, <2>8
<1>7. QED
  BY <1>0, <1>5, <1>6, LoadFsKeeps DEF IInv

-----------------------------------------------------------------------------

LEMMA NextIInv == IInv /\ [Next]_vars => IInv'
<1> SUFFICES ASSUME IInv, [Next]_vars PROVE IInv'
  OBVIOUS
<1>1. CASE UNCHANGED vars
  BY <1>1
  DEF vars, IInv, Basic, TypeOK, PointerInv, LockInv, Private, LoadingInv, ServedInv, Access,
      Mutable
<1>2. CASE Reload
  BY <1>2, ReloadIInv
<1>3. ASSUME NEW s \in Sessions, AuthUser(s) \/ Find(s) PROVE IInv'
  BY <1>3, FindIInv
<1>4. ASSUME NEW s \in Sessions, LoadFs(s) PROVE IInv'
  BY <1>4, LookupIInv, LoadingStepIInv, StoreFsIInv DEF LoadFs
<1>5. QED
  BY <1>1, <1>2, <1>3, <1>4 DEF Next

\* The invariant holds whatever logins and reloads happen.
THEOREM Inductive == Spec => []IInv
  BY InitIInv, NextIInv, PTL DEF Spec

\* Logins, contents, mutex and cache keep their types, whatever is reloaded or
\* written by another login while a login runs (server.go:170-262).
THEOREM LoginTypeCorrect == Spec => []TypeOK
<1>1. IInv => TypeOK
  BY DEF IInv, Basic
<1>2. QED
  BY <1>1, Inductive, PTL

\* A client whose password was checked against its entry is given a file
\* system made for the user it logged in as, also when it comes from the cache,
\* the configuration was reloaded meanwhile, or others log in through Keycloak
\* (server.go:170-191, config.go:197-343).
THEOREM ServedItsOwnUser == Spec => []OwnFileSystem
<1>1. ASSUME IInv PROVE OwnFileSystem
  <2> SUFFICES ASSUME Private, NEW s \in Sessions,
                      served[s] # NoFs, found[s].version # 0, ~Delegates(Access(s))
               PROVE  served[s].user = user[s]
    BY DEF OwnFileSystem, Private
  <2>1. ~Mutable(s) /\ at[s] = "served"
    BY <1>1 DEF Mutable, IInv, ServedInv
  <2>2. QED
    BY <1>1, <2>1 DEF IInv, Basic, PointerInv, ServedInv
<1>2. QED
  BY <1>1, Inductive, PTL

-----------------------------------------------------------------------------

\* No configuration shares the file systems of Keycloak.
NoSharedKeycloak == \A k \in Contents : PrivateKeycloak(k.accesses)

\* The fixed fields of the entries are never written.
LEMMA PrivateAlways ==
  ASSUME NoSharedKeycloak
  PROVE  Spec => []Private
<1>1. Init => Private
  BY DEF Init, Private, NoSharedKeycloak
<1>2. IInv /\ Private /\ [Next]_vars => Private'
  <2> SUFFICES ASSUME IInv, Private, [Next]_vars PROVE Private'
    OBVIOUS
  <2>1. CASE UNCHANGED vars \/ Reload
    BY <2>1 DEF vars, Reload, Private
  <2>2. QED
    BY <2>1, FindStep, LoadFsKeeps DEF Next, IInv
<1>3. QED
  BY <1>1, <1>2, Inductive, PTL DEF Spec

\* The shared file system of a user is loaded once (fs/README.md:27-28): all
\* clients with a shared access of the user have the same instance.
THEOREM SharedOnce == ASSUME NoSharedKeycloak PROVE Spec => []SharedIsLoadedOnce
<1>1. IInv /\ Private => SharedIsLoadedOnce
  BY DEF IInv, ServedInv, SharedIsLoadedOnce
<1>2. QED
  BY <1>1, Inductive, PrivateAlways, PTL

-----------------------------------------------------------------------------

LEMMA InitRefines == Init => S!Init
  BY DEF Init, S!Init

\* A hit of the cache is one step of SharedFs ...
LEMMA LookupRefines ==
  ASSUME IInv, Private, NEW s \in Sessions, Lookup(s)
  PROVE  [S!Next]_S!svars
<1>1. CASE served' = served
  BY <1>1 DEF Lookup, S!svars
<1>2. CASE served' # served
  <2> DEFINE u == Access(s).user
  <2>1. /\ Access(s) # NoAccess
        /\ cache[u] # NoFs
        /\ served' = [served EXCEPT ![s] = cache[u]]
        /\ UNCHANGED cache
    BY <1>2 DEF Lookup
  <2>2. u \in Users
    BY <2>1, AccessType DEF IInv, Basic
  <2>3. served[s] = NoFs
    BY DEF Lookup, At, IInv, ServedInv
  <2>4. S!Reuse(u, cache[u]) /\ cache[u] \in FileSystems
    BY <2>1, <2>2 DEF S!Reuse, IInv, Basic, TypeOK, PointerInv
  <2>5. S!Login(s)
    BY <2>1, <2>2, <2>3, <2>4 DEF S!Login
  <2>6. QED
    BY <2>5 DEF S!Next
<1>3. QED
  BY <1>1, <1>2

\* ... and so is the end of a load: the mutex was held since the miss.  What
\* is not shared is created for any user who has no shared instance.
LEMMA StoreFsRefines ==
  ASSUME IInv, Private, NEW s \in Sessions, StoreFs(s)
  PROVE  S!Next
<1> DEFINE instance == loading[s]
<1>1. /\ at[s] = "store" /\ Access(s) # NoAccess
      /\ instance \in FileSystems /\ instance.by = s
  BY DEF StoreFs, At, IInv, Basic, PointerInv, LoadingInv, Loading
<1>2. served[s] = NoFs
  BY <1>1 DEF IInv, ServedInv
<1>3. \A t \in Sessions : served[t] # instance
  BY <1>1, LoginAssumption DEF IInv, ServedInv
<1>4. CASE Access(s).shared
  <2> DEFINE u == Access(s).user
  <2>1. u \in Users /\ ~Mutable(s)
    BY <1>1, <1>4, AccessType, SharedIsFixed DEF IInv, Basic
  <2>2. cache[u] = NoFs
    BY <1>1, <2>1 DEF IInv, LoadingInv, Loading
  <2>3. S!Create(u, instance)
    BY <1>3, <1>4, <2>2 DEF StoreFs, S!Create
  <2>4. S!Login(s)
    BY <1>1, <1>2, <2>1, <2>3 DEF StoreFs, S!Login
  <2>5. QED
    BY <2>4 DEF S!Next
<1>5. CASE ~Access(s).shared
  <2>1. PICK u \in Users : cache[u] = NoFs
    BY <1>1 DEF IInv, LoadingInv, Loading
  <2>2. S!Create(u, instance)
    BY <1>3, <1>5, <2>1 DEF StoreFs, S!Create
  <2>3. S!Login(s)
    BY <1>1, <1>2, <2>1, <2>2 DEF StoreFs, S!Login
  <2>4. QED
    BY <2>3 DEF S!Next
<1>6. QED
  BY <1>4, <1>5

\* fsCache with its mutex implements the cache that serves in one step.
THEOREM CacheRefinement == ASSUME NoSharedKeycloak PROVE Spec => ImplementsSharedFs
<1>1. IInv /\ Private /\ [Next]_vars => [S!Next]_S!svars
  <2> SUFFICES ASSUME IInv, Private, [Next]_vars PROVE [S!Next]_S!svars
    OBVIOUS
  <2>1. CASE UNCHANGED vars \/ Reload
    BY <2>1 DEF vars, Reload, cacheVars, S!svars
  <2>2. ASSUME NEW s \in Sessions, AuthUser(s) \/ Find(s)
        PROVE  UNCHANGED S!svars
    BY <2>2
    DEF AuthUser, Find, ReadWebhook, WebhookAnswers, Search, SetUser, SetPass, cacheVars,
        S!svars
  <2>3. ASSUME NEW s \in Sessions, LoadBackend(s) \/ WrapFs(s)
        PROVE  UNCHANGED S!svars
    BY <2>3 DEF LoadBackend, WrapFs, S!svars
  <2>4. QED
    BY <2>1, <2>2, <2>3, LookupRefines, StoreFsRefines DEF Next, LoadFs
<1>2. QED
  BY <1>1, InitRefines, Inductive, PrivateAlways, PTL DEF Spec, ImplementsSharedFs, S!Spec

-----------------------------------------------------------------------------

\* A user is read-only everywhere or nowhere, as ro says, and nobody's
\* password is checked by Keycloak.
Consistent(ro) ==
  /\ \A k \in Contents : \A i \in DOMAIN k.accesses :
       ~Delegates(k.accesses[i]) /\ k.accesses[i].readOnly = ro[k.accesses[i].user]
  /\ \A a \in WebhookAccesses : a.readOnly = ro[a.user]

\* Every access and every file system is as its user is.
ReadOnlyInv(ro) ==
  /\ heap \in [Versions -> Contents]
  /\ \A s \in Sessions :
       /\ at[s] = "store" => loading[s].readOnly = ro[Access(s).user]
       /\ at[s] = "served" => served[s].readOnly = ro[Access(s).user]
  /\ \A u \in Users : cache[u] # NoFs => cache[u].readOnly = ro[u]

LEMMA ConsistentAccess ==
  ASSUME NEW ro, Consistent(ro), IInv, ReadOnlyInv(ro), NEW s \in Sessions
  PROVE  /\ ~Mutable(s)
         /\ Access(s) # NoAccess => Access(s).readOnly = ro[Access(s).user]
<1>1. CASE found[s].version = 0
  BY <1>1 DEF Mutable, Access, IInv, Basic, TypeOK, Consistent
<1>2. CASE found[s].version # 0
  <2>1. /\ found[s].version \in Versions
        /\ found[s].index \in DOMAIN heap[found[s].version].accesses
    BY <1>2, AccessType DEF IInv, Basic, PointerInv
  <2>2. heap[found[s].version] \in Contents
    BY <2>1 DEF ReadOnlyInv
  <2>3. QED
    BY <1>2, <2>1, <2>2 DEF Consistent, Mutable, Access
<1>3. QED
  BY <1>1, <1>2

LEMMA ReadOnlyStep ==
  ASSUME NEW ro, Consistent(ro), IInv, ReadOnlyInv(ro), [Next]_vars
  PROVE  ReadOnlyInv(ro)'
<1>1. CASE UNCHANGED vars \/ Reload
  BY <1>1 DEF vars, Reload, typedVars, foundVars, cacheVars, ReadOnlyInv, Access
<1>2. ASSUME NEW s \in Sessions, AuthUser(s) \/ Find(s) PROVE ReadOnlyInv(ro)'
  <2>1. PICK place \in Searching : at' = [at EXCEPT ![s] = place]
    BY <1>2, FindStep DEF IInv, Goto
  <2>2. /\ UNCHANGED <<cache, loading, served>>
        /\ at[s] \in {"idle"} \cup Finding
    BY <1>2, FindStep DEF IInv, cacheVars
  <2>3. UNCHANGED heap
    <3>1. ~(SetUser(s) \/ SetPass(s))
      BY ConsistentAccess DEF SetUser, SetPass, At, IInv, Basic, PointerInv
    <3>2. QED
      BY <1>2, <3>1 DEF Find, AuthUser, ReadWebhook, WebhookAnswers, Search
  <2>4. ASSUME NEW t \in Sessions, at'[t] \in {"store", "served"}
        PROVE  at'[t] = at[t] /\ Access(t)' = Access(t)
    <3>1. t # s /\ at'[t] = at[t]
      BY <2>1, <2>2, <2>4 DEF IInv, Basic, TypeOK, Searching, Finding
    <3>2. Keeps(t)
      BY <1>2, <3>1, FindStep DEF IInv
    <3>3. QED
      BY <3>1, <3>2, ConsistentAccess DEF Keeps
  <2>5. QED
    BY <2>2, <2>3, <2>4 DEF ReadOnlyInv
<1>3. ASSUME NEW s \in Sessions, Lookup(s) \/ LoadBackend(s) PROVE ReadOnlyInv(ro)'
  <2>1. LoadFs(s)
    BY <1>3 DEF LoadFs
  <2>2. UNCHANGED <<cache, loading>>
    BY <1>3 DEF Lookup, LoadBackend, FailLoading
  <2> DEFINE hit == at[s] = "lookup" /\ Access(s) # NoAccess /\ cache[Access(s).user] # NoFs
  <2>3. CASE ~hit
    <3>1. /\ \E place \in {"crashed", "load", "refused", "wrap"} : at' = [at EXCEPT ![s] = place]
          /\ UNCHANGED served
      BY <1>3, <2>3 DEF Lookup, LoadBackend, FailLoading, Goto, At
    <3>2. QED
      BY <2>1, <2>2, <3>1, LoadFsKeeps DEF ReadOnlyInv, IInv, Basic, TypeOK
  <2>4. CASE hit
    <3>1. /\ Access(s) # NoAccess /\ cache[Access(s).user] # NoFs
          /\ served' = [served EXCEPT ![s] = cache[Access(s).user]]
          /\ at' = [at EXCEPT ![s] = "served"]
      BY <1>3, <2>4 DEF Lookup, LoadBackend, Goto, At
    <3>2. Access(s).user \in Users
      BY <3>1, AccessType DEF IInv, Basic
    <3>3. QED
      BY <2>1, <2>2, <3>1, <3>2, LoadFsKeeps DEF ReadOnlyInv, IInv, Basic, TypeOK
  <2>5. QED
    BY <2>3, <2>4
<1>4. ASSUME NEW s \in Sessions, WrapFs(s) PROVE ReadOnlyInv(ro)'
  <2>1. LoadFs(s) /\ Access(s) # NoAccess
    BY <1>4 DEF LoadFs, WrapFs, At, IInv, Basic, PointerInv, Loading
  <2>2. UNCHANGED <<cache, served>>
    BY <1>4 DEF WrapFs
  <2>3. CASE at' = [at EXCEPT ![s] = "refused"] /\ UNCHANGED loading
    BY <2>1, <2>2, <2>3, LoadFsKeeps DEF ReadOnlyInv, IInv, Basic, TypeOK
  <2>4. CASE /\ at' = [at EXCEPT ![s] = "store"]
             /\ loading' = [loading EXCEPT ![s] = [by       |-> s,
                                                   user     |-> Access(s).user,
                                                   readOnly |-> Access(s).readOnly]]
    <3>1. Access(s).readOnly = ro[Access(s).user]
      BY <2>1, ConsistentAccess
    <3>2. QED
      BY <2>1, <2>2, <2>4, <3>1, LoadFsKeeps DEF ReadOnlyInv, IInv, Basic, TypeOK
  <2>5. QED
    BY <1>4, <2>3, <2>4 DEF WrapFs, FailLoading, Goto
<1>5. ASSUME NEW s \in Sessions, StoreFs(s) PROVE ReadOnlyInv(ro)'
  <2>1. LoadFs(s) /\ at[s] = "store" /\ Access(s) # NoAccess
    BY <1>5 DEF LoadFs, StoreFs, At, IInv, Basic, PointerInv, Loading
  <2>2. Access(s).user \in Users /\ loading[s].readOnly = ro[Access(s).user]
    BY <2>1, AccessType DEF IInv, Basic, ReadOnlyInv
  <2>3. /\ cache' \in {cache, [cache EXCEPT ![Access(s).user] = loading[s]]}
        /\ served' = [served EXCEPT ![s] = loading[s]]
        /\ at' = [at EXCEPT ![s] = "served"]
        /\ UNCHANGED loading
    BY <1>5 DEF StoreFs, Goto
  <2>4. QED
    BY <2>1, <2>2, <2>3, LoadFsKeeps DEF ReadOnlyInv, IInv, Basic, TypeOK
<1>6. QED
  BY <1>1, <1>2, <1>3, <1>4, <1>5 DEF Next, LoadFs

\* A read-only access is served read-only as long as its user is read-only in
\* every version of the configuration and every answer of the webhook: the
\* difference between two of them is all that run login_stale_cache needs
\* (fs/README.md:6, server.go:206-228).
THEOREM ConsistentUsersStayReadOnly ==
  ASSUME NEW ro, Consistent(ro)
  PROVE  Spec => []ReadOnlyBlocksWriting
<1>1. Init => ReadOnlyInv(ro)
  BY LoginAssumption DEF Init, ReadOnlyInv
<1>2. IInv /\ ReadOnlyInv(ro) /\ [Next]_vars => ReadOnlyInv(ro)'
  BY ReadOnlyStep
<1>3. ASSUME IInv, ReadOnlyInv(ro) PROVE ReadOnlyBlocksWriting
  <2> SUFFICES ASSUME NEW s \in Sessions, at[s] = "served"
               PROVE  Access(s).readOnly = served[s].readOnly
    BY DEF ReadOnlyBlocksWriting
  <2>1. Access(s) # NoAccess
    BY <1>3 DEF IInv, Basic, PointerInv
  <2>2. QED
    BY <1>3, <2>1, ConsistentAccess DEF ReadOnlyInv
<1>4. QED
  BY <1>1, <1>2, <1>3, Inductive, PTL DEF Spec

=============================================================================
