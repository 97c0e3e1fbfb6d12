-------------------------- MODULE BackendsProofs ---------------------------
(***************************************************************************)
(* Theorems about Backends, for any number of sessions, accesses, tokens.  *)
(***************************************************************************)
EXTENDS Backends, TLAPS

Answered == {"served", "gone"}

\* A session that loads has the mutex, and its user has nothing in the cache.
LockInv ==
  \A s \in Sessions :
    /\ at[s] \in Loading <=> lock = s
    /\ at[s] \in Loading => cache[User(s)] = NoOne
    /\ at[s] \in {"sftp", "client"} => access[s].fs = "sftp"

\* What is cached was stored by a session that was answered, and a session with
\* a shared access was answered with what is cached.
CacheInv ==
  /\ \A u \in Users : cache[u] # NoOne => at[cache[u]] \in Answered
  /\ \A s \in Sessions : at[s] \in Answered /\ access[s].shared =>
       cache[User(s)] # NoOne /\ given[s] = cache[User(s)]

\* File systems are given by answers, and come from answered sessions.
GivenInv ==
  \A s \in Sessions : given[s] # NoOne =>
    at[s] \in Answered /\ at[given[s]] \in Answered

\* The token that is going to be saved is not older than the one in the file.
TokenInv ==
  \A s \in Sessions :
    /\ at[s] \in {"renew", "save"} => held[s] >= tokens[File(s)]
    /\ tokens[File(s)] <= issued
    /\ held[s] <= issued

\* The bot of a shared access is about to be cached, or it is.
BotInv ==
  \A s \in running : SharedBot(access[s]) =>
    at[s] \in {"wrap", "store"} \/ cache[User(s)] = s

IInv == BTypeOK /\ LockInv /\ CacheInv /\ GivenInv /\ TokenInv /\ BotInv

\* Every session has a user, who is one of them.
LEMMA SessionsHaveUsers ==
  ASSUME BTypeOK, NEW s \in Sessions
  PROVE  access[s] \in Accesses /\ User(s) \in Users /\ File(s) \in TokenFiles /\ s # NoOne
BY BackendsAssumption DEF BTypeOK, User, Users, File, TokenFiles

-----------------------------------------------------------------------------

\* Two bots of one user would need the mutex twice.
LEMMA BotIsSharedHolds == IInv => BotIsShared
<1> SUFFICES ASSUME IInv, NEW s \in running, SharedBot(access[s]),
                    NEW t \in Sessions, User(t) = User(s)
             PROVE  /\ t \in running /\ SharedBot(access[t]) => t = s
                    /\ at[t] = "served" /\ access[t].shared => given[t] = s
  BY DEF BotIsShared, At
<1> s \in Sessions /\ NoOne \notin Sessions
  BY BackendsAssumption DEF IInv, BTypeOK
<1>1. \A u \in {s, t} :
        at[u] \in {"wrap", "store"} => lock = u /\ cache[User(s)] = NoOne
  BY DEF IInv, LockInv, Loading, Awaiting, Answered
<1>2. at[s] \in {"wrap", "store"} \/ cache[User(s)] = s
  BY DEF IInv, BotInv
<1>3. t \in running /\ SharedBot(access[t]) =>
        at[t] \in {"wrap", "store"} \/ cache[User(s)] = t
  BY DEF IInv, BotInv
<1>4. at[t] = "served" /\ access[t].shared =>
        cache[User(s)] # NoOne /\ given[t] = cache[User(s)]
  BY DEF IInv, CacheInv, Answered
<1> QED
  BY <1>1, <1>2, <1>3, <1>4

LEMMA InitIInv == BInit => IInv
<1> SUFFICES ASSUME BInit PROVE IInv
  OBVIOUS
<1> USE BackendsAssumption DEF BInit
<1>1. BTypeOK
  BY DEF BTypeOK
<1>2. \A s \in Sessions : File(s) \in TokenFiles
  BY DEF File, TokenFiles
<1>3. LockInv /\ CacheInv /\ GivenInv /\ BotInv
  BY DEF LockInv, CacheInv, GivenInv, BotInv, Loading, Awaiting, Answered
<1>4. TokenInv
  BY <1>2 DEF TokenInv
<1> QED
  BY <1>1, <1>3, <1>4 DEF IInv

\* A step that moves one session, answers nobody, and touches no token file.
LEMMA Moving ==
  ASSUME IInv, NEW s \in Sessions, NEW place, Goto(s, place),
         place \in {"idle", "lookup", "refused", "gone"} \cup Loading,
         UNCHANGED <<access, cache, given, tokens, expired>>,
         \/ at[s] \in Loading /\ place \in Loading /\ lock' = lock
         \/ at[s] \in Loading /\ place = "refused" /\ lock' = NoOne
         \/ /\ at[s] = "lookup" /\ lock = NoOne /\ lock' = s
            /\ place \in Loading /\ cache[User(s)] = NoOne
         \/ at[s] \notin Loading /\ place \notin Loading /\ lock' = lock,
         place \in {"sftp", "client"} => access[s].fs = "sftp",
         at[s] \in Answered => place = "gone",
         place = "gone" => at[s] = "served",
         running' = running \/ running' = running \cup {s},
         s \in running' /\ SharedBot(access[s]) =>
           place \in {"wrap", "store"} \/ cache[User(s)] = s,
         held' \in [Sessions -> 0 .. Tokens],
         \A t \in Sessions : t # s => held'[t] = held[t],
         place \in {"renew", "save"} => held'[s] >= tokens[File(s)],
         held'[s] <= issued',
         issued' \in issued .. Tokens
  PROVE  IInv'
<1> USE DEF IInv, BTypeOK, Goto
<1>0. /\ at'[s] = place
      /\ \A t \in Sessions : t # s => at'[t] = at[t]
      /\ \A t \in Sessions : User(t)' = User(t) /\ t # NoOne
  BY BackendsAssumption DEF User
<1>1. BTypeOK'
  <2>1. /\ issued' \in 0 .. Tokens /\ expired' \in 0 .. issued'
        /\ lock' \in Sessions \cup {NoOne}
        /\ running' \subseteq Sessions
    BY BackendsAssumption
  <2>2. at' \in [Sessions -> {"idle", "lookup", "served", "refused", "gone"} \cup Loading]
    OBVIOUS
  <2> QED
    BY <2>1, <2>2
<1>2. LockInv'
  BY <1>0 DEF LockInv, Loading, Awaiting
<1>3. \A t \in Sessions : at'[t] \in Answered <=> at[t] \in Answered
  BY <1>0 DEF Answered, Loading, Awaiting
<1>4. CacheInv'
  BY <1>0, <1>3 DEF CacheInv
<1>5. GivenInv'
  BY <1>0, <1>3 DEF GivenInv
<1>6. TokenInv'
  <2>1. \A t \in Sessions : File(t) \in TokenFiles /\ File(t)' = File(t)
    BY DEF File, TokenFiles
  <2> QED
    BY <1>0, <2>1 DEF TokenInv
<1>7. BotInv'
  BY <1>0 DEF BotInv
<1> QED
  BY <1>1, <1>2, <1>4, <1>5, <1>6, <1>7

\* A login that finds its user in the cache.
LEMMA HitStep ==
  ASSUME IInv, NEW s \in Sessions, Lookup(s), cache[User(s)] # NoOne
  PROVE  IInv'
<1> USE DEF IInv, BTypeOK, tokenVars
<1>1. /\ at[s] = "lookup" /\ at' = [at EXCEPT ![s] = "served"]
      /\ given' = [given EXCEPT ![s] = cache[User(s)]]
      /\ UNCHANGED <<access, lock, cache, running, tokens, held, issued, expired>>
  BY DEF Lookup, At, Answer, Goto
<1>2. /\ cache[User(s)] \in Sessions /\ at[cache[User(s)]] \in Answered
      /\ \A t \in Sessions : User(t)' = User(t) /\ File(t)' = File(t)
  BY <1>1, SessionsHaveUsers DEF CacheInv, User, File
<1>3. /\ at'[s] = "served" /\ given'[s] = cache[User(s)]
      /\ \A t \in Sessions : t # s => at'[t] = at[t] /\ given'[t] = given[t]
  BY <1>1
<1>4. BTypeOK'
  BY <1>1, <1>2
<1>5. LockInv' /\ BotInv'
  BY <1>1, <1>2, <1>3 DEF LockInv, BotInv, Loading, Awaiting
<1>6. CacheInv'
  BY <1>1, <1>2, <1>3 DEF CacheInv, Answered
<1>7. GivenInv'
  BY <1>1, <1>2, <1>3 DEF GivenInv, Answered
<1>8. TokenInv'
  BY <1>1, <1>2, <1>3 DEF TokenInv
<1> QED
  BY <1>4, <1>5, <1>6, <1>7, <1>8

LEMMA PlainSteps ==
  ASSUME IInv, NEW s \in Sessions,
         \/ AuthUser(s) \/ Lookup(s) \/ LoadPlain(s) \/ CheckPasswd(s)
         \/ StartBot(s) \/ Dial(s) \/ NewClient(s) \/ LoadToken(s) \/ SetRoot(s) \/ WrapFs(s) \/ Leave(s)
  PROVE  IInv'
<1> USE DEF At, Refuse, Continue, tokenVars
<1> /\ BTypeOK /\ access[s] \in Accesses /\ File(s) \in TokenFiles
    /\ held \in [Sessions -> 0 .. Tokens] /\ issued \in 0 .. Tokens
    /\ issued \in issued .. Tokens /\ tokens[File(s)] \in 0 .. Tokens
    /\ held[s] \in 0 .. Tokens
    /\ tokens[File(s)] <= issued /\ held[s] <= issued
  BY BackendsAssumption DEF IInv, BTypeOK, File, TokenFiles, TokenInv
<1>1. /\ (s \in running /\ SharedBot(access[s]) =>
            at[s] \in {"wrap", "store"} \/ cache[User(s)] = s)
      /\ at[s] \in {"sftp", "client"} => access[s].fs = "sftp"
      /\ cache[User(s)] = s => at[s] \in Answered
  BY BackendsAssumption DEF IInv, BotInv, LockInv, CacheInv, BTypeOK, User, Users
<1>2. CASE AuthUser(s)
  BY <1>1, <1>2, Moving DEF AuthUser, Loading, Awaiting, Answered
<1>3. CASE Lookup(s)
  <2>1. access[s].fs \in Loading
    BY BackendsAssumption DEF Loading, Awaiting
  <2>2. CASE cache[User(s)] # NoOne
    BY <1>3, <2>2, HitStep
  <2>3. CASE cache[User(s)] = NoOne
    BY <1>1, <1>3, <2>1, <2>3, BackendsAssumption, Moving
    DEF Lookup, Loading, Awaiting, Answered
  <2> QED
    BY <2>2, <2>3
<1>4. CASE LoadPlain(s)
  BY <1>1, <1>4, Moving DEF LoadPlain, Loading, Awaiting, Answered
<1>12. CASE CheckPasswd(s)
  BY <1>1, <1>12, Moving DEF CheckPasswd, Loading, Awaiting, Answered
<1>5. CASE StartBot(s)
  BY <1>1, <1>5, Moving DEF StartBot, Loading, Awaiting, Answered, Run
<1>6. CASE Dial(s)
  BY <1>1, <1>6, Moving DEF Dial, Loading, Awaiting, Answered, Run, SharedBot
<1>7. CASE NewClient(s)
  BY <1>1, <1>7, Moving DEF NewClient, Loading, Awaiting, Answered, SharedBot
<1>8. CASE LoadToken(s)
  <2>1. CASE UNCHANGED held /\ Goto(s, "refused") /\ lock' = NoOne
    BY <1>1, <1>8, <2>1, Moving DEF LoadToken, Loading, Awaiting, Answered
  <2>2. CASE /\ held' = [held EXCEPT ![s] = tokens[File(s)]]
             /\ \E place \in {"authorize", "renew", "root"} : Goto(s, place)
             /\ UNCHANGED lock
    <3>1. PICK place \in {"authorize", "renew", "root"} : Goto(s, place)
      BY <2>2
    <3>2. /\ held' \in [Sessions -> 0 .. Tokens] /\ held'[s] = tokens[File(s)]
          /\ \A t \in Sessions : t # s => held'[t] = held[t]
      BY <2>2
    <3> QED
      BY <1>1, <1>8, <2>2, <3>1, <3>2, Moving DEF LoadToken, Loading, Awaiting, Answered
  <2> QED
    BY <1>8, <2>1, <2>2 DEF LoadToken
<1>9. CASE SetRoot(s)
  BY <1>1, <1>9, Moving DEF SetRoot, Loading, Awaiting, Answered
<1>10. CASE WrapFs(s)
  BY <1>1, <1>10, Moving DEF WrapFs, Loading, Awaiting, Answered, SharedBot
<1>11. CASE Leave(s)
  BY <1>1, <1>11, Moving DEF Leave, Loading, Awaiting, Answered
<1> QED
  BY <1>2, <1>3, <1>4, <1>5, <1>6, <1>7, <1>8, <1>9, <1>10, <1>11,
     <1>12

\* A new token is newer than all there are.
LEMMA Issuing ==
  ASSUME IInv, NEW s \in Sessions, Issue(s)
  PROVE  /\ held' \in [Sessions -> 0 .. Tokens]
         /\ held'[s] >= tokens[File(s)] /\ held'[s] <= issued'
         /\ \A t \in Sessions : t # s => held'[t] = held[t]
         /\ issued' \in issued .. Tokens
         /\ tokens[File(s)] \in 0 .. issued
<1> tokens[File(s)] \in 0 .. Tokens
  BY DEF IInv, BTypeOK, File, TokenFiles
<1>1. tokens[File(s)] <= issued
  BY DEF IInv, TokenInv
<1> QED
  BY <1>1, BackendsAssumption DEF IInv, BTypeOK, Issue

LEMMA TokenSteps ==
  ASSUME IInv, NEW s \in Sessions,
         Authenticate(s) \/ RenewToken(s) \/ SaveToken(s) \/ RenewInUse(s) \/ Expire
  PROVE  IInv' /\ (tokens' = tokens \/ SaveToken(s))
<1> USE DEF At, Refuse, Continue, tokenVars
<1> /\ BTypeOK /\ access[s] \in Accesses /\ File(s) \in TokenFiles
    /\ held \in [Sessions -> 0 .. Tokens] /\ issued \in 0 .. Tokens
    /\ issued \in issued .. Tokens
    /\ tokens[File(s)] <= issued /\ held[s] <= issued
  BY BackendsAssumption DEF IInv, BTypeOK, File, TokenFiles, TokenInv
<1>1. /\ s \in running /\ SharedBot(access[s]) =>
           at[s] \in {"wrap", "store"} \/ cache[User(s)] = s
      /\ cache[User(s)] = s => at[s] \in Answered
      /\ at[s] \in {"renew", "save"} => held[s] >= tokens[File(s)]
  BY BackendsAssumption DEF IInv, BotInv, CacheInv, TokenInv, BTypeOK, User, Users
<1>2. CASE Authenticate(s)
  <2>1. CASE Issue(s)
    BY <1>1, <1>2, <2>1, Issuing, Moving DEF Authenticate, Loading, Awaiting, Answered
  <2> QED
    BY <1>1, <1>2, <2>1, Moving DEF Authenticate, Loading, Awaiting, Answered
<1>3. CASE RenewToken(s)
  <2>1. CASE Issue(s)
    BY <1>1, <1>3, <2>1, Issuing, Moving DEF RenewToken, Loading, Awaiting, Answered
  <2> QED
    BY <1>1, <1>3, <2>1, Moving DEF RenewToken, Loading, Awaiting, Answered
<1>4. CASE SaveToken(s)
  <2>1. CASE UNCHANGED tokens
    BY <1>1, <1>4, <2>1, Moving DEF SaveToken, Loading, Awaiting, Answered
  <2>2. CASE tokens' # tokens
    <3> USE <1>4, <2>2 DEF SaveToken, Goto
    <3>1. /\ lock = s /\ at'[s] \in {"refused", "root"} /\ at[s] = "save"
          /\ \A t \in Sessions : t # s => at'[t] = at[t] /\ at[t] \notin Loading
          /\ lock' = IF at'[s] = "root" THEN s ELSE NoOne
          /\ UNCHANGED <<access, cache, given, running, held, issued, expired>>
          /\ s # NoOne
      BY BackendsAssumption DEF IInv, LockInv, BTypeOK, Loading, Awaiting, Answered
    <3>2. /\ tokens' \in [TokenFiles -> 0 .. Tokens]
          /\ \A f \in TokenFiles : tokens'[f] \in {0, tokens[f], held[s]}
      <4>1. \E n \in {0, held[s]} : tokens' = [tokens EXCEPT ![File(s)] = n]
        OBVIOUS
      <4>2. PICK n \in {0, held[s]} : tokens' = [tokens EXCEPT ![File(s)] = n]
        BY <4>1
      <4>3. n \in 0 .. Tokens /\ tokens \in [TokenFiles -> 0 .. Tokens]
        BY BackendsAssumption DEF BTypeOK
      <4> QED
        BY <4>2, <4>3
    <3>3. BTypeOK'
      BY <3>1, <3>2 DEF BTypeOK, Loading, Awaiting, Answered
    <3>4. LockInv'
      BY <3>1, BackendsAssumption DEF IInv, LockInv, Loading, Awaiting, User
    <3>5. CacheInv' /\ GivenInv' /\ BotInv'
      <4>1. /\ \A t \in Sessions : User(t)' = User(t)
            /\ \A t \in Sessions : at[t] \in Answered => at'[t] = at[t]
            /\ \A t \in Sessions : at'[t] \in Answered => at[t] = at'[t]
        BY <3>1 DEF User, Answered
      <4>2. CacheInv'
        BY <3>1, <4>1 DEF IInv, CacheInv, BTypeOK
      <4>3. GivenInv'
        BY <3>1, <4>1, BackendsAssumption DEF IInv, GivenInv, BTypeOK
      <4>4. BotInv'
        BY <1>1, <3>1, <4>1 DEF IInv, BotInv, BTypeOK, Answered
      <4> QED
        BY <4>2, <4>3, <4>4
    <3>6. TokenInv'
      <4>1. \A t \in Sessions : /\ File(t) \in TokenFiles /\ File(t)' = File(t)
                                /\ tokens[File(t)] <= issued /\ held[t] <= issued
                                /\ at'[t] \notin {"renew", "save"}
        BY <3>1 DEF File, TokenFiles, IInv, TokenInv, BTypeOK, Loading, Awaiting, Answered
      <4> QED
        BY <3>1, <3>2, <4>1 DEF TokenInv, BTypeOK
    <3> QED
      BY <3>3, <3>4, <3>5, <3>6 DEF IInv
  <2> QED
    BY <2>1, <2>2
<1>5. CASE RenewInUse(s)
  <2>1. /\ UNCHANGED <<at, access, lock, cache, given, running, tokens, expired>>
        /\ Issue(s)
    BY <1>5 DEF RenewInUse
  <2>2. BTypeOK'
    BY <2>1, Issuing DEF BTypeOK
  <2>3. TokenInv'
    <3>1. \A t \in Sessions : File(t)' = File(t) /\ File(t) \in TokenFiles
      BY <2>1 DEF File, TokenFiles, BTypeOK
    <3>2. issued' >= issued
      BY <2>1, Issuing
    <3> QED
      BY <2>1, <3>1, <3>2, Issuing DEF IInv, TokenInv, BTypeOK
  <2>4. LockInv' /\ CacheInv' /\ GivenInv' /\ BotInv'
    BY <2>1 DEF IInv, LockInv, CacheInv, GivenInv, BotInv, User
  <2> QED
    BY <2>1, <2>2, <2>3, <2>4 DEF IInv
<1>6. CASE Expire
  <2>1. BTypeOK' /\ UNCHANGED <<at, access, lock, cache, given, running, tokens, held, issued>>
    BY <1>6 DEF Expire, BTypeOK
  <2>2. TokenInv' /\ LockInv' /\ CacheInv' /\ GivenInv' /\ BotInv'
    BY <2>1 DEF IInv, TokenInv, LockInv, CacheInv, GivenInv, BotInv, File, User
  <2> QED
    BY <2>1, <2>2 DEF IInv
<1> QED
  BY <1>2, <1>3, <1>4, <1>5, <1>6

LEMMA StoreStep ==
  ASSUME IInv, NEW s \in Sessions, StoreFs(s)
  PROVE  IInv'
<1> USE DEF IInv, BTypeOK, tokenVars
<1>1. /\ at[s] = "store" /\ at' = [at EXCEPT ![s] = "served"]
      /\ given' = [given EXCEPT ![s] = s] /\ lock' = NoOne
      /\ cache' = IF access[s].shared THEN [cache EXCEPT ![User(s)] = s] ELSE cache
      /\ UNCHANGED <<access, running, tokens, held, issued, expired>>
  BY DEF StoreFs, At, Answer, Goto
<1>2. /\ s # NoOne /\ lock = s /\ cache[User(s)] = NoOne
      /\ User(s) \in Users /\ access[s].shared \in BOOLEAN
      /\ \A t \in Sessions : t # s => at[t] \notin Loading
  BY <1>1, SessionsHaveUsers, BackendsAssumption DEF LockInv, Loading
<1>0. \A t \in Sessions : /\ access'[t] = access[t]
                         /\ User(t)' = User(t) /\ File(t)' = File(t)
  BY <1>1 DEF User, File
<1>3. /\ at'[s] = "served" /\ given'[s] = s
      /\ \A t \in Sessions : t # s => at'[t] = at[t] /\ given'[t] = given[t]
      /\ cache'[User(s)] = IF access[s].shared THEN s ELSE NoOne
      /\ \A u \in Users : u # User(s) => cache'[u] = cache[u]
  BY <1>1, <1>2
<1>4. BTypeOK'
  BY <1>1, <1>2
<1>5. LockInv'
  BY <1>0, <1>1, <1>2, <1>3, BackendsAssumption DEF LockInv, Loading, Awaiting
<1>6. ASSUME NEW t \in Sessions, t # s, at[t] \in Answered, access[t].shared
      PROVE  User(t) # User(s)
  BY <1>2, <1>6 DEF CacheInv
<1>7. CacheInv'
  <2>1. ASSUME NEW u \in Users, cache'[u] # NoOne PROVE at'[cache'[u]] \in Answered
    BY <1>2, <1>3, <2>1 DEF CacheInv, Answered
  <2>2. ASSUME NEW t \in Sessions, at'[t] \in Answered, access[t].shared
        PROVE  cache'[User(t)] # NoOne /\ given'[t] = cache'[User(t)]
    <3>1. CASE t = s
      BY <1>2, <1>3, <2>2, <3>1
    <3>2. CASE t # s
      BY <1>3, <1>6, <2>2, <3>2, SessionsHaveUsers DEF CacheInv
    <3> QED
      BY <3>1, <3>2
  <2> QED
    BY <1>0, <2>1, <2>2 DEF CacheInv
<1>8. GivenInv'
  BY <1>1, <1>2, <1>3 DEF GivenInv, Answered
<1>9. TokenInv'
  BY <1>0, <1>1, <1>3 DEF TokenInv
<1>10. BotInv'
  <2> SUFFICES ASSUME NEW t \in running, SharedBot(access[t])
               PROVE  at'[t] \in {"wrap", "store"} \/ cache'[User(t)] = t
    BY <1>0, <1>1 DEF BotInv
  <2>1. t \in Sessions /\ t # NoOne /\ User(t) \in Users
    BY SessionsHaveUsers
  <2>2. CASE t = s
    BY <1>3, <2>2 DEF SharedBot
  <2>3. CASE t # s
    BY <1>2, <1>3, <2>1, <2>3 DEF BotInv
  <2> QED
    BY <2>2, <2>3
<1> QED
  BY <1>4, <1>5, <1>7, <1>8, <1>9, <1>10

LEMMA IInvAlways == BSpec => []IInv
<1>1. IInv /\ [BNext]_bvars => IInv'
  <2> SUFFICES ASSUME IInv, [BNext]_bvars PROVE IInv'
    OBVIOUS
  <2>1. CASE UNCHANGED bvars
    BY <2>1 DEF bvars, tokenVars, IInv, BTypeOK, LockInv, CacheInv, GivenInv, TokenInv,
       BotInv, File, User
  <2>2. CASE Expire
    <3>1. CASE Sessions = {}
      BY <2>2, <3>1 DEF Expire, IInv, BTypeOK, LockInv, CacheInv, GivenInv, TokenInv,
         BotInv
    <3> QED
      BY <2>2, <3>1, TokenSteps
  <2> QED
    BY <2>1, <2>2, PlainSteps, TokenSteps, StoreStep DEF BNext, Proceed, Heard
<1> QED
  BY <1>1, InitIInv, PTL DEF BSpec

-----------------------------------------------------------------------------

\* Types; no token is held or saved that was not issued.
THEOREM BackendsTypeCorrect == BSpec => []BTypeOK
BY IInvAlways, PTL DEF IInv

\* A user has at most one shared bot without sync_and_delete, and every shared
\* answer to that user is that bot.
THEOREM SharedHasOneBot == BSpec => []BotIsShared
BY IInvAlways, BotIsSharedHolds, PTL

\* A token file is only ever given a newer token, or spoilt.
THEOREM TokenFileOnlyRenewed == BSpec => TokenOnlyRenewed
<1>1. IInv /\ [BNext]_bvars =>
        [\A f \in TokenFiles : tokens'[f] = 0 \/ tokens'[f] >= tokens[f]]_bvars
  <2> SUFFICES ASSUME IInv, BNext, NEW f \in TokenFiles
               PROVE  tokens'[f] = 0 \/ tokens'[f] >= tokens[f]
    OBVIOUS
  <2>1. tokens[f] \in Nat
    BY BackendsAssumption DEF IInv, BTypeOK
  <2>2. CASE tokens' = tokens
    BY <2>1, <2>2
  <2>3. ASSUME NEW s \in Sessions, SaveToken(s)
        PROVE  tokens'[f] \in {0, tokens[f]} \/ (f = File(s) /\ tokens'[f] = held[s])
    <3>1. tokens \in [TokenFiles -> 0 .. Tokens]
      BY DEF IInv, BTypeOK
    <3> QED
      BY <2>3, <3>1 DEF SaveToken
  <2>4. ASSUME NEW s \in Sessions, SaveToken(s)
        PROVE  held[s] >= tokens[File(s)]
    BY <2>4 DEF SaveToken, At, IInv, TokenInv
  <2>5. tokens' = tokens \/ \E s \in Sessions : SaveToken(s)
    BY DEF BNext, Proceed, Heard, AuthUser, Lookup, LoadPlain, CheckPasswd, StartBot, Dial, NewClient,
       LoadToken, SetRoot, WrapFs, StoreFs, Leave, Authenticate, RenewToken,
       RenewInUse, Expire, tokenVars
  <2> QED
    BY <2>1, <2>2, <2>3, <2>4, <2>5
<1> QED
  BY <1>1, IInvAlways, PTL DEF BSpec, TokenOnlyRenewed

-----------------------------------------------------------------------------

\* A hit gives the shared file system ...
LEMMA LookupOneStep ==
  ASSUME IInv, NEW s \in Sessions, Lookup(s)
  PROVE  [S!Next]_(S!svars)
<1> USE DEF IInv, BTypeOK
<1>1. CASE cache[User(s)] = NoOne
  BY <1>1 DEF Lookup, S!svars
<1>2. CASE cache[User(s)] # NoOne
  <2>1. User(s) \in Users /\ cache[User(s)] \in Sessions /\ given[s] = NoOne
    BY <1>2, SessionsHaveUsers DEF Lookup, At, GivenInv, Answered
  <2>2. given' = [given EXCEPT ![s] = cache[User(s)]] /\ S!Reuse(User(s), cache[User(s)])
    BY <1>2 DEF Lookup, Answer, S!Reuse
  <2>3. S!Login(s)
    BY <2>1, <2>2 DEF S!Login
  <2> QED
    BY <2>3 DEF S!Next
<1> QED
  BY <1>1, <1>2

\* ... and the end of a load stores one, or gives it to its session alone.
LEMMA StoreOneStep ==
  ASSUME IInv, NEW s \in Sessions, StoreFs(s)
  PROVE  S!Next
<1> USE DEF IInv, BTypeOK
<1>1. /\ at[s] = "store" /\ cache[User(s)] = NoOne
      /\ given' = [given EXCEPT ![s] = s]
      /\ cache' \in {cache, [cache EXCEPT ![User(s)] = s]}
  BY DEF StoreFs, At, Answer, LockInv, Loading
<1>2. given[s] = NoOne /\ User(s) \in Users /\ s # NoOne
  BY <1>1, SessionsHaveUsers DEF GivenInv, Answered
<1>3. \A t \in Sessions : given[t] # s
  BY <1>1, <1>2 DEF GivenInv, Answered
<1>4. S!Create(User(s), s)
  BY <1>1, <1>3 DEF S!Create
<1>5. S!Login(s)
  BY <1>1, <1>2, <1>4 DEF S!Login
<1> QED
  BY <1>5 DEF S!Next

LEMMA NextOneStep == IInv /\ [BNext]_bvars => [S!Next]_(S!svars)
<1> SUFFICES ASSUME IInv, [BNext]_bvars PROVE [S!Next]_(S!svars)
  OBVIOUS
<1>1. CASE UNCHANGED bvars \/ Expire
  BY <1>1 DEF bvars, Expire, S!svars
<1>2. ASSUME NEW s \in Sessions, Lookup(s) PROVE [S!Next]_(S!svars)
  BY <1>2, LookupOneStep
<1>3. ASSUME NEW s \in Sessions, StoreFs(s) PROVE [S!Next]_(S!svars)
  BY <1>3, StoreOneStep
<1>4. ASSUME NEW s \in Sessions,
             \/ AuthUser(s) \/ Leave(s) \/ RenewInUse(s) \/ Heard(s)
             \/ Proceed(s) /\ ~StoreFs(s)
      PROVE  UNCHANGED S!svars
  BY <1>4
  DEF AuthUser, Leave, RenewInUse, Heard, Proceed, LoadPlain, CheckPasswd, StartBot, Dial,
      NewClient, LoadToken, Authenticate, RenewToken, SaveToken, SetRoot, WrapFs,
      tokenVars, S!svars
<1> QED
  BY <1>1, <1>2, <1>3, <1>4 DEF BNext, Proceed

\* A login is one step of the cache, whatever backend it loads in how many
\* steps, and wherever the load fails (server.go:170-191).
THEOREM LoginOneStep == BSpec => LoginIsOneStep
<1>1. BInit => S!Init
  BY DEF BInit, S!Init
<1> QED
  BY <1>1, NextOneStep, IInvAlways, PTL DEF BSpec, LoginIsOneStep, S!Spec

=============================================================================
