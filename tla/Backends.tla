------------------------------ MODULE Backends ------------------------------
(***************************************************************************)
(* What a load of a backend takes hold of, and what it leaves behind: the  *)
(* bot that Telegram's LoadFs starts, the connection of SFTP's, and the    *)
(* file in which Google Drive's keeps its OAuth token.  All loads, of      *)
(* whatever user, run one after the other under the mutex of the cache of  *)
(* file systems, which knows them by the name of the user.  Nothing is     *)
(* ever stopped or closed when a client leaves.                            *)
(*                                                                         *)
(* Servers and the person at the terminal may take for ever to answer: no  *)
(* load has a timeout of its own.                                          *)
(*                                                                         *)
(* Tokens are numbered as Google issues them; those up to a number have    *)
(* expired.  Token 0 is a file that is missing or cannot be decoded.       *)
(***************************************************************************)
EXTENDS Integers, FiniteSets

CONSTANTS
  Sessions,  \* FTP sessions, each with one login
  Accesses,  \* [user, fs, shared, sync, token_file]
  Tokens,    \* bound on the tokens issued
  NoOne

Users == {a.user : a \in Accesses}
TokenFiles == {a.token_file : a \in Accesses}

\* A user may be found to have another access than the last time, after a
\* reload.  An access names its token file or gets the one of its user.
ASSUME BackendsAssumption ==
  /\ NoOne \notin Sessions
  /\ Tokens \in Nat
  /\ \A a \in Accesses :
       /\ a.fs \in {"plain", "keycloak", "telegram", "sftp", "gdrive"}
       /\ a.shared \in BOOLEAN
       /\ a.sync \in BOOLEAN

VARIABLES
  at,      \* at[s]: where the login of s is
  access,  \* access[s]: the access it was found to have
  lock,    \* fsCache.Mutex
  cache,   \* cache[u]: the session that loaded the shared file system of user u
  given,   \* given[s]: the session that loaded the file system s was answered with
  running, \* bots and connections, by the session that started them
  tokens,  \* tokens[f]: the token in a token file
  held,    \* held[s]: the token in the HTTP client of s
  issued, expired

tokenVars == <<tokens, held, issued, expired>>
bvars == <<at, access, lock, cache, given, running, tokenVars>>

BInit ==
  /\ at = [s \in Sessions |-> "idle"]
  /\ access \in [Sessions -> Accesses]
  /\ lock = NoOne
  /\ cache = [u \in Users |-> NoOne]
  /\ given = [s \in Sessions |-> NoOne]
  /\ running = {}
  /\ tokens = [f \in TokenFiles |-> 0]
  /\ held = [s \in Sessions |-> 0]
  /\ issued = 0
  /\ expired = 0

At(s, place) == at[s] = place
Goto(s, place) == at' = [at EXCEPT ![s] = place]
User(s) == access[s].user
File(s) == access[s].token_file

\* loadFs returns the file system that session t has loaded.
Answer(s, t) ==
  /\ Goto(s, "served")
  /\ given' = [given EXCEPT ![s] = t]

-----------------------------------------------------------------------------

AuthUser(s) ==
  /\ At(s, "idle")
  /\ Goto(s, "lookup")
  /\ UNCHANGED <<access, lock, cache, given, running, tokenVars>>

\* Mutant of Lookup: the mutex guards the map only, not the load.
LookupUnlocked(s) ==
  /\ At(s, "lookup")
  /\ lock = NoOne
  /\ IF cache[User(s)] # NoOne
       THEN Answer(s, cache[User(s)])
       ELSE /\ Goto(s, access[s].fs)
            /\ UNCHANGED given
  /\ UNCHANGED <<access, lock, cache, running, tokenVars>>

\* Mutant of Lookup: the switch is on another field of the access.
LookupByUser(s) ==
  /\ At(s, "lookup")
  /\ lock = NoOne
  /\ Goto(s, User(s))
  /\ lock' = s
  /\ UNCHANGED <<access, cache, given, running, tokenVars>>

\* loadFs: a cached file system, or the switch of fs.LoadFs.
Lookup(s) ==
  /\ At(s, "lookup")
  /\ lock = NoOne
  /\ IF cache[User(s)] # NoOne
       THEN /\ Answer(s, cache[User(s)])
            /\ UNCHANGED lock
       ELSE /\ Goto(s, access[s].fs)
            /\ lock' = s
            /\ UNCHANGED given
  /\ UNCHANGED <<access, cache, running, tokenVars>>

\* Mutant of Refuse: the error is returned before the Unlock is deferred.
RefuseLocked(s) ==
  /\ Goto(s, "refused")
  /\ UNCHANGED lock

Refuse(s) ==
  /\ Goto(s, "refused")
  /\ lock' = NoOne

Continue(s, place) ==
  /\ Goto(s, place)
  /\ UNCHANGED lock

\* Local files, S3, GCS, Dropbox and mail check their parameters and start
\* nothing.
LoadPlain(s) ==
  /\ At(s, "plain")
  /\ Refuse(s) \/ Continue(s, "wrap")
  /\ UNCHANGED <<access, cache, given, running, tokenVars>>

\* Keycloak is asked about the password, and nothing is kept.
CheckPasswd(s) ==
  /\ At(s, "keycloak")
  /\ Refuse(s) \/ Continue(s, "wrap")
  /\ UNCHANGED <<access, cache, given, running, tokenVars>>

Run(s) == running' = running \cup {s}

\* Telegram: wrong parameters or NewBot's error, else a goroutine polls.
StartBot(s) ==
  /\ At(s, "telegram")
  /\ \/ /\ Refuse(s)
        /\ UNCHANGED running
     \/ /\ Run(s)
        /\ Continue(s, "wrap")
  /\ UNCHANGED <<access, cache, given, tokenVars>>

\* SFTP: ssh.Dial, then sftp.NewClient, whose error leaves the connection.
Dial(s) ==
  /\ At(s, "sftp")
  /\ \/ /\ Refuse(s)
        /\ UNCHANGED running
     \/ /\ Run(s)
        /\ Continue(s, "client")
  /\ UNCHANGED <<access, cache, given, tokenVars>>

NewClient(s) ==
  /\ At(s, "client")
  /\ Refuse(s) \/ Continue(s, "wrap")
  /\ UNCHANGED <<access, cache, given, running, tokenVars>>

-----------------------------------------------------------------------------

\* Google Drive: without its client credentials nothing happens.  A token
\* that is missing has to be asked for, one that has expired to be renewed,
\* and then saved.
LoadToken(s) ==
  /\ At(s, "gdrive")
  /\ \/ /\ Refuse(s)
        /\ UNCHANGED held
     \/ /\ held' = [held EXCEPT ![s] = tokens[File(s)]]
        /\ Continue(s, IF tokens[File(s)] = 0 THEN "authorize"
                       ELSE IF tokens[File(s)] <= expired THEN "renew" ELSE "root")
  /\ UNCHANGED <<access, cache, given, running, tokens, issued, expired>>

Issue(s) ==
  /\ issued < Tokens
  /\ issued' = issued + 1
  /\ held' = [held EXCEPT ![s] = issued + 1]

\* The process reads a code from its terminal, for as long as it takes.
Authenticate(s) ==
  /\ At(s, "authorize")
  /\ \/ /\ Refuse(s)
        /\ UNCHANGED <<held, issued>>
     \/ /\ Issue(s)
        /\ Continue(s, "save")
  /\ UNCHANGED <<access, cache, given, running, tokens, expired>>

\* NewHTTPClient with an expired token: the library renews it now, later, or
\* fails to.
RenewToken(s) ==
  /\ At(s, "renew")
  /\ \/ /\ Refuse(s)
        /\ UNCHANGED <<held, issued>>
     \/ /\ Issue(s)
        /\ Continue(s, "save")
     \/ /\ Continue(s, "save")
        /\ UNCHANGED <<held, issued>>
  /\ UNCHANGED <<access, cache, given, running, tokens, expired>>

\* StoreTokenToFile; a write that fails may spoil the file.
SaveToken(s) ==
  /\ At(s, "save")
  /\ \/ /\ Refuse(s)
        /\ tokens' \in {tokens, [tokens EXCEPT ![File(s)] = 0]}
     \/ /\ Continue(s, "root")
        /\ tokens' = [tokens EXCEPT ![File(s)] = held[s]]
  /\ UNCHANGED <<access, cache, given, running, held, issued, expired>>

\* drv.New and SetRootDirectory.
SetRoot(s) ==
  /\ At(s, "root")
  /\ Refuse(s) \/ Continue(s, "wrap")
  /\ UNCHANGED <<access, cache, given, running, tokenVars>>

-----------------------------------------------------------------------------

\* The end of fs.LoadFs: sync-and-delete may fail, and nothing is undone.
WrapFs(s) ==
  /\ At(s, "wrap")
  /\ (access[s].sync /\ Refuse(s)) \/ Continue(s, "store")
  /\ UNCHANGED <<access, cache, given, running, tokenVars>>

\* Mutant of StoreFs: the test of Shared is inverted.
StoreUnshared(s) ==
  /\ At(s, "store")
  /\ cache' = IF access[s].shared THEN cache ELSE [cache EXCEPT ![User(s)] = s]
  /\ lock' = NoOne
  /\ Answer(s, s)
  /\ UNCHANGED <<access, running, tokenVars>>

StoreFs(s) ==
  /\ At(s, "store")
  /\ cache' = IF access[s].shared THEN [cache EXCEPT ![User(s)] = s] ELSE cache
  /\ lock' = NoOne
  /\ Answer(s, s)
  /\ UNCHANGED <<access, running, tokenVars>>

\* The client leaves: ClientDisconnected only counts.
Leave(s) ==
  /\ At(s, "served")
  /\ Goto(s, "gone")
  /\ UNCHANGED <<access, lock, cache, given, running, tokenVars>>

\* A file system in use renews its token, in memory.
RenewInUse(s) ==
  /\ held[s] # 0
  /\ held[s] <= expired
  /\ At(s, "served") \/ cache[User(s)] = s
  /\ Issue(s)
  /\ UNCHANGED <<at, access, lock, cache, given, running, tokens, expired>>

\* An hour passes.
Expire ==
  /\ expired < issued
  /\ expired' = issued
  /\ UNCHANGED <<at, access, lock, cache, given, running, tokens, held, issued>>

\* The steps of a load that the process makes by itself ...
Proceed(s) == LoadPlain(s) \/ LoadToken(s) \/ SaveToken(s) \/ WrapFs(s) \/ StoreFs(s)

\* ... and those that need the answer of a server or of a person.
Heard(s) ==
  \/ CheckPasswd(s) \/ StartBot(s) \/ Dial(s) \/ NewClient(s)
  \/ Authenticate(s) \/ RenewToken(s) \/ SetRoot(s)

BNext ==
  \/ Expire
  \/ \E s \in Sessions :
       AuthUser(s) \/ Lookup(s) \/ Proceed(s) \/ Heard(s) \/ Leave(s) \/ RenewInUse(s)

BSpec == BInit /\ [][BNext]_bvars

\* Go runs what can run and hands the mutex over.  Nobody outside needs to
\* answer.
BFairSpec ==
  BSpec /\ \A s \in Sessions : WF_bvars(Lookup(s) \/ Proceed(s))

-----------------------------------------------------------------------------

Awaiting == {"keycloak", "telegram", "sftp", "client", "authorize", "renew", "root"}
Loading == Awaiting \cup {"plain", "gdrive", "save", "wrap", "store"}

BTypeOK ==
  /\ at \in [Sessions -> {"idle", "lookup", "served", "refused", "gone"} \cup Loading]
  /\ access \in [Sessions -> Accesses]
  /\ lock \in Sessions \cup {NoOne}
  /\ cache \in [Users -> Sessions \cup {NoOne}]
  /\ given \in [Sessions -> Sessions \cup {NoOne}]
  /\ running \subseteq Sessions
  /\ tokens \in [TokenFiles -> 0 .. Tokens]
  /\ held \in [Sessions -> 0 .. Tokens]
  /\ issued \in 0 .. Tokens
  /\ expired \in 0 .. issued

SharedBot(a) == a.fs = "telegram" /\ a.shared /\ ~a.sync

\* fs/telegram/README.md, "bot instance will be shared between all
\* connections": a user has one shared bot, however many log in at once, and
\* whoever of that user is served a shared file system uses it.  (With
\* sync_and_delete each login that is refused after LoadFs has started one
\* leaves another bot behind.)
BotIsShared ==
  \A s \in running : SharedBot(access[s]) =>
    \A t \in Sessions : User(t) = User(s) =>
      /\ t \in running /\ SharedBot(access[t]) => t = s
      /\ At(t, "served") /\ access[t].shared => given[t] = s

\* No login puts back an older token than the file has, though accesses may
\* share a file and renew at once: only the mutex around the loads makes
\* reading, renewing and saving one step.
TokenOnlyRenewed ==
  [][\A f \in TokenFiles : tokens'[f] = 0 \/ tokens'[f] >= tokens[f]]_bvars

\* Wherever a load ends, the mutex is free again: a login waits for it for ever
\* only if another login waits for ever for a server or for the person at the
\* terminal.  (One silent server, of whatever user, keeps all others out.)
OnlySilenceBlocks ==
  \A s \in Sessions :
    \/ At(s, "lookup") ~> ~At(s, "lookup")
    \/ \E t \in Sessions : <>[](at[t] \in Awaiting)

-----------------------------------------------------------------------------

S == INSTANCE SharedFs WITH
       Instances <- Sessions, NoFs <- NoOne, store <- cache, served <- given

\* However many steps the loads of whatever backends take, and wherever they
\* fail, a login is one step of the cache: no two of one user are served
\* different shared file systems, and none that failed can be found in it.
LoginIsOneStep == S!Spec

=============================================================================
