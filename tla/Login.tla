------------------------------- MODULE Login -------------------------------
(***************************************************************************)
(* Server.AuthUser: a login is looked up in the configuration or asked of  *)
(* the webhook, and the access it yields is given a file system, the       *)
(* cached one when a shared one was loaded for the same user name.         *)
(*                                                                         *)
(* Logins run in the goroutines of their clients, reloads in the goroutine *)
(* of the signals.  Only the cache has a lock.  The published Content is   *)
(* loaded anew by every expression that uses it, and an access returned by *)
(* GetAccess is a pointer into the Content it was found in; GetAccess      *)
(* itself writes the credentials of a login into the entry of Keycloak.    *)
(***************************************************************************)
EXTENDS Credentials

CONSTANTS
  Sessions,       \* logins, each in its own goroutine
  Users, Texts,   \* names and passwords tried at the prompt
  Contents,       \* configurations a reload may find in the file
  Reloads,        \* bound on the number of reloads
  WebhookAccesses,\* accesses a webhook may answer
  Accounts,       \* <<user, password>> pairs the Keycloak server accepts
  NoOne, NoFs, NoAccess

FileSystems == [by : Sessions, user : Users, readOnly : BOOLEAN]

Entries ==
  [user : Users,
   pass : [form : {"plain", "hashed", "garbled"}, text : Texts],
   fs : STRING, shared : BOOLEAN, readOnly : BOOLEAN, sync : BOOLEAN]

Configurations == [webhook : BOOLEAN, accesses : Seq(Entries)]

ASSUME LoginAssumption ==
  /\ Reloads \in Nat
  /\ NoOne \notin Sessions
  /\ NoFs \notin FileSystems
  /\ NoAccess \notin Entries
  /\ Contents \subseteq Configurations
  /\ WebhookAccesses \subseteq Entries

VARIABLES
  at,        \* at[s]: where login s is
  user,      \* user[s], pass[s]: what the client typed
  pass,
  heap,      \* heap[v]: the Content of the v-th load, mutable through pointers
  content,   \* config.Content: the version that is published
  found,     \* found[s]: pointer to the entry of a Content, version 0 for none
  answer,    \* answer[s]: the access the webhook answered, NoAccess for nil
  lock,      \* holder of the mutex of fsCache
  cache,     \* cache[u]: fsCache.accesses
  loading,   \* loading[s]: newFs, once fs.LoadFs has produced it
  served     \* served[s]: the file system of the ClientDriver

vars == <<at, user, pass, heap, content, found, answer, lock, cache, loading, served>>

Versions == 1 .. Reloads + 1

Init ==
  /\ at = [s \in Sessions |-> "idle"]
  /\ user \in [Sessions -> Users]
  /\ pass \in [Sessions -> Texts]
  /\ heap \in [Versions -> Contents]
  /\ content = 1
  /\ found = [s \in Sessions |-> [version |-> 0, index |-> 0]]
  /\ answer = [s \in Sessions |-> NoAccess]
  /\ lock = NoOne
  /\ cache = [u \in Users |-> NoFs]
  /\ loading = [s \in Sessions |-> NoFs]
  /\ served = [s \in Sessions |-> NoFs]

At(s, place) == at[s] = place
Goto(s, place) == at' = [at EXCEPT ![s] = place]

typedVars == <<user, pass>>
foundVars == <<found, answer>>
cacheVars == <<lock, cache, loading, served>>

Published == heap[content]

\* The access a login has a pointer to; NoAccess for a nil pointer.
Access(s) ==
  IF found[s].version = 0
    THEN answer[s]
    ELSE heap[found[s].version].accesses[found[s].index]

-----------------------------------------------------------------------------

\* SIGHUP: Config.Load publishes another Content.  The old one lives on
\* while a login points into it.
Reload ==
  /\ content < Reloads + 1
  /\ content' = content + 1
  /\ UNCHANGED <<at, typedVars, heap, foundVars, cacheVars>>

\* AuthUser tests once whether there is a webhook ...
AuthUser(s) ==
  /\ At(s, "idle")
  /\ Goto(s, IF Published.webhook THEN "timeout" ELSE "search")
  /\ UNCHANGED <<typedVars, heap, content, foundVars, cacheVars>>

\* ... and getAccessFromWebhook takes the webhook from the Content three
\* times, for its timeout, its URL and its headers.  When a reload has
\* removed it the goroutine panics; the FTP library recovers and the login
\* has failed.
ReadWebhook(s) ==
  /\ at[s] \in {"timeout", "url", "headers"}
  /\ Goto(s, CASE ~Published.webhook    -> "crashed"
               [] At(s, "timeout")      -> "url"
               [] At(s, "url")          -> "headers"
               [] At(s, "headers")      -> "request")
  /\ UNCHANGED <<typedVars, heap, content, foundVars, cacheVars>>

\* Mutant of WebhookAnswers: the status of the response is not looked at, and
\* the body of an error gives an access without a user.
WebhookAnswersAnything(s) ==
  /\ At(s, "request")
  /\ Goto(s, "lookup")
  /\ answer' = [answer EXCEPT ![s] = [user |-> "", shared |-> FALSE]]
  /\ UNCHANGED <<typedVars, heap, content, found, cacheVars>>

\* The webhook fails (or times out, or answers no JSON), or names an access;
\* the JSON value null makes it a nil pointer.
WebhookAnswers(s) ==
  /\ At(s, "request")
  /\ \/ /\ Goto(s, "refused")
        /\ UNCHANGED answer
     \/ /\ Goto(s, "lookup")
        /\ \E a \in WebhookAccesses \cup {NoAccess} :
             answer' = [answer EXCEPT ![s] = a]
  /\ UNCHANGED <<typedVars, heap, content, found, cacheVars>>

\* GetAccess takes the list of accesses once.
Search(s) ==
  /\ At(s, "search")
  /\ LET i == GetAccess(Published.accesses, user[s], pass[s])
     IN  IF i = Refused
           THEN /\ Goto(s, "refused")
                /\ UNCHANGED found
           ELSE /\ found' = [found EXCEPT ![s] = [version |-> content, index |-> i]]
                /\ Goto(s, IF Delegates(Published.accesses[i]) THEN "user" ELSE "lookup")
  /\ UNCHANGED <<typedVars, heap, content, answer, cacheVars>>

\* The entry of Keycloak, which every login shares: a.User = user ...
SetUser(s) ==
  /\ At(s, "user")
  /\ heap' = [heap EXCEPT ![found[s].version].accesses[found[s].index].user = user[s]]
  /\ Goto(s, "pass")
  /\ UNCHANGED <<typedVars, content, foundVars, cacheVars>>

\* ... and then a.Pass = pass.
SetPass(s) ==
  /\ At(s, "pass")
  /\ heap' = [heap EXCEPT ![found[s].version].accesses[found[s].index].pass =
                            [form |-> "plain", text |-> pass[s]]]
  /\ Goto(s, "lookup")
  /\ UNCHANGED <<typedVars, content, foundVars, cacheVars>>

-----------------------------------------------------------------------------

\* Mutant of Lookup: the mutex is not waited for.
LookupUnlocked(s) ==
  /\ At(s, "lookup")
  /\ Access(s) # NoAccess
  /\ IF cache[Access(s).user] # NoFs
       THEN /\ served' = [served EXCEPT ![s] = cache[Access(s).user]]
            /\ Goto(s, "served")
       ELSE Goto(s, "load") /\ UNCHANGED served
  /\ UNCHANGED <<typedVars, heap, content, foundVars, lock, cache, loading>>

\* loadFs takes the mutex of the cache and looks for the access's user.  With
\* a nil access it panics, and the deferred Unlock runs.
Lookup(s) ==
  /\ At(s, "lookup")
  /\ lock = NoOne
  /\ IF Access(s) = NoAccess THEN
          /\ Goto(s, "crashed")
          /\ UNCHANGED <<lock, served>>
     ELSE IF cache[Access(s).user] # NoFs THEN
          /\ served' = [served EXCEPT ![s] = cache[Access(s).user]]
          /\ Goto(s, "served")
          /\ UNCHANGED lock
     ELSE /\ lock' = s
          /\ Goto(s, "load")
          /\ UNCHANGED served
  /\ UNCHANGED <<typedVars, heap, content, foundVars, cache, loading>>

\* Mutant of FailLoading: the error is returned before the Unlock is deferred.
FailLocked(s) ==
  /\ Goto(s, "refused")
  /\ UNCHANGED <<lock, loading>>

\* An error of fs.LoadFs: the cache is unlocked and the login has failed.
FailLoading(s) ==
  /\ Goto(s, "refused")
  /\ lock' = NoOne
  /\ UNCHANGED loading

\* Mutant of LoadBackend: the mutex is released while the backend is reached.
LoadUnlocking(s) ==
  /\ At(s, "load")
  /\ lock' = NoOne
  /\ Goto(s, "wrap")
  /\ UNCHANGED <<typedVars, heap, content, foundVars, cache, loading, served>>

\* The backend is reached (a network dial for most), with the mutex held.
\* It may fail; Keycloak does for the credentials it does not accept.
LoadBackend(s) ==
  /\ At(s, "load")
  /\ \/ FailLoading(s)
     \/ /\ Delegates(Access(s)) => <<Access(s).user, Access(s).pass.text>> \in Accounts
        /\ Goto(s, "wrap")
        /\ UNCHANGED <<lock, loading>>
  /\ UNCHANGED <<typedVars, heap, content, foundVars, cache, served>>

\* The file system: its root, which Keycloak makes of the user's name, then
\* the read-only wrapper, then sync-and-delete, which can fail.
WrapFs(s) ==
  /\ At(s, "wrap")
  /\ \/ /\ Access(s).sync
        /\ FailLoading(s)
     \/ /\ loading' = [loading EXCEPT ![s] =
                          [by       |-> s,
                           user     |-> Access(s).user,
                           readOnly |-> Access(s).readOnly]]
        /\ Goto(s, "store")
        /\ UNCHANGED lock
  /\ UNCHANGED <<typedVars, heap, content, foundVars, cache, served>>

\* Mutant of StoreFs: it is saved under the name the client has typed.
StoreUnderTyped(s) ==
  /\ At(s, "store")
  /\ cache' = IF Access(s).shared
                THEN [cache EXCEPT ![user[s]] = loading[s]]
                ELSE cache
  /\ lock' = NoOne
  /\ served' = [served EXCEPT ![s] = loading[s]]
  /\ Goto(s, "served")
  /\ UNCHANGED <<typedVars, heap, content, foundVars, loading>>

\* A shared file system is saved under the name its access has by now.
StoreFs(s) ==
  /\ At(s, "store")
  /\ cache' = IF Access(s).shared
                THEN [cache EXCEPT ![Access(s).user] = loading[s]]
                ELSE cache
  /\ lock' = NoOne
  /\ served' = [served EXCEPT ![s] = loading[s]]
  /\ Goto(s, "served")
  /\ UNCHANGED <<typedVars, heap, content, foundVars, loading>>

-----------------------------------------------------------------------------

Find(s)   == ReadWebhook(s) \/ WebhookAnswers(s) \/ Search(s) \/ SetUser(s) \/ SetPass(s)
LoadFs(s) == Lookup(s) \/ LoadBackend(s) \/ WrapFs(s) \/ StoreFs(s)

Next ==
  \/ Reload
  \/ \E s \in Sessions : AuthUser(s) \/ Find(s) \/ LoadFs(s)

Spec == Init /\ [][Next]_vars

\* Every goroutine runs, every backend and webhook answers or fails, and a
\* sync.Mutex is handed to a goroutine that has waited for it.  Nobody has to
\* log in, and no signal has to come.
Fairness ==
  \A s \in Sessions :
    /\ WF_vars(Find(s) \/ LoadBackend(s) \/ WrapFs(s) \/ StoreFs(s))
    /\ SF_vars(Lookup(s))

FairSpec == Spec /\ Fairness

-----------------------------------------------------------------------------

Finding == {"timeout", "url", "headers", "request", "search", "user", "pass"}
Loading == {"load", "wrap", "store"}
Ended   == {"served", "refused", "crashed"}

TypeOK ==
  /\ at \in [Sessions -> {"idle", "lookup"} \cup Finding \cup Loading \cup Ended]
  /\ user \in [Sessions -> Users]
  /\ pass \in [Sessions -> Texts]
  /\ heap \in [Versions -> Configurations]
  /\ content \in Versions
  /\ found \in [Sessions -> [version : 0 .. Reloads + 1, index : Nat]]
  /\ answer \in [Sessions -> WebhookAccesses \cup {NoAccess}]
  /\ lock \in Sessions \cup {NoOne}
  /\ cache \in [Users -> FileSystems \cup {NoFs}]
  /\ loading \in [Sessions -> FileSystems \cup {NoFs}]
  /\ served \in [Sessions -> FileSystems \cup {NoFs}]

\* No file system that is shared belongs to an entry of Keycloak.
PrivateKeycloak(accesses) ==
  \A i \in DOMAIN accesses : Delegates(accesses[i]) => ~accesses[i].shared

\* A client gets a file system that was made for the user it logged in as
\* when its entry is one that checks the password itself, whatever Keycloak's
\* entries in the same configuration answer for, as long as they share nothing.
OwnFileSystem ==
  (\A v \in Versions : PrivateKeycloak(heap[v].accesses))
    => \A s \in Sessions :
         served[s] # NoFs /\ found[s].version # 0 /\ ~Delegates(Access(s))
           => served[s].user = user[s]

\* The file system of a shared access is loaded once: the clients of a user
\* whose accesses are shared all have the same instance, across reloads.
SharedIsLoadedOnce ==
  \A s, t \in Sessions :
    /\ at[s] = "served" /\ Access(s).shared
    /\ at[t] = "served" /\ Access(t).shared
    /\ Access(s).user = Access(t).user
    => served[s] = served[t]

\* The cache with its mutex, held while a backend is reached, is the one-step
\* cache of SharedFs.
S == INSTANCE SharedFs WITH store <- cache, Instances <- FileSystems
ImplementsSharedFs == S!Spec

\* Every login ends: no error path keeps the mutex of the cache.
LoginsEnd == \A s \in Sessions : at[s] # "idle" ~> at[s] \in Ended

-----------------------------------------------------------------------------
(***************************************************************************)
(* What the repository says of the program and the code does not do.       *)
(***************************************************************************)

\* config.go:196: "GetAccess return a file system access given some
\* credentials": the access is that of the credentials.
AccessGivenCredentials ==
  \A s \in Sessions :
    served[s] # NoFs /\ found[s].version # 0 => served[s].user = user[s]

\* fs/README.md:6: "This blocks any writing call to the underlying file
\* system", of an access with read_only: nobody whom the configuration in
\* force, or the webhook, makes read-only gets a file system that writes.
ReadOnlyBlocksWriting ==
  \A s \in Sessions :
    at[s] = "served" /\ found[s].version \in {0, content} /\ Access(s).readOnly
      => served[s].readOnly

=============================================================================
