# A TLA+ model of ftpserver

ftpserver is a gateway: it speaks FTP on one side (through the library
`fclairamb/ftpserverlib`) and a storage backend on the other (local files, S3,
GCS, SFTP, Dropbox, Google Drive, mail, Telegram, Keycloak-authenticated local
files).  The repository's own logic is what stands between the two: the process
and its signals, the configuration file, the driver that authenticates users and
gives each one a file system, and a few file systems written here.

This directory models that logic in TLA+.  TLC checks the models on small
instances, and TLAPS proves the main results for every instance.

    tlc -config GracefulStop.cfg MCGracefulStop     # model-check one run
    tlapm LifecycleProofs.tla                       # check one module's proofs

`PROJECT.json` is the index: components, runs, mutants (the bugs each property
is able to see), the source lines behind each definition, hazards, findings and
theorems.

## 1. Inventory

The program is small (about 2,600 lines of Go) but everything in it is called
from goroutines it does not create: the FTP library runs one goroutine for each
client and calls the driver from it, `signalHandler` runs beside them, and main
blocks in the library's accept loop.

| Part | Source | State | Operations | Hard behaviour |
| --- | --- | --- | --- | --- |
| Client counting, graceful stop | `server/server.go:107-168` | `nbClients`, `nbClientsSync`, `zeroClientEvent` | ClientConnected, ClientDisconnected, Stop, considerEnd, WaitGracefully | unlocked accesses of the channel field; a channel closed once and sent on again; late clients |
| Process and signals | `main.go:91-147` | where main and `signalHandler` are, the library's listener, a signal channel of capacity 1 | ListenAndServe, WaitGracefully, reload, stop | signals before the listener, dropped signals, order of the two stops |
| Login | `server/server.go:170-299` | `accesses` (the cache of shared file systems), the published configuration | AuthUser, getAccessFromWebhook, loadFs | configuration swapped in the middle of a login; one cache lock held during a whole backend load; stale cached file systems |
| Credentials | `config/config.go:197-343` | the list of accesses | GetAccess | which entry decides; the Keycloak entry writes the credentials into the shared entry |
| Configuration file | `config/config.go:32-180`, `main.go:38-64` | the file, `Config.Content` | Load, HashPlaintextPasswords, Prepare, creation of a default file | read twice, written in place, published before it is ready; crash in the middle of a write |
| Backend loading | `fs/fs.go`, `fs/keycloak` | none | LoadFs, read-only and sync-and-delete wrappers | wrapping order, failed loads |
| TLS | `server/server.go:301-340` | `tlsOnce`, `tlsConfig`, `tlsError` | GetTLSConfig | the first outcome, an error too, is kept for ever |
| Settings | `server/server.go:71-101`, `config/confpar` | none | GetSettings | units of `idle_timeout` |
| Telegram file system | `fs/telegram` | an in-memory tree of fake files, a bot for each load | LoadFs, Create, Write, Close, Stat, Mkdir... | sent on Close, whatever the file was opened for; uploads of several clients share the tree; bots are never stopped |
| Mail file system | `fs/mail` | in-memory files | Create, Write, Close | sent on Close |
| Access log | `fs/fslog` | counters of one open file | every call of afero.File | what is counted with an error |
| Prefix removal | `fs/stripprefix` | none | path mapping of every call | not in use |
| Google Drive | `fs/gdrive` | OAuth token in a file | LoadFs | token renewed by the library, saved at a load only; a question at the terminal while all logins wait |
| SFTP | `fs/sftp` | a connection for each load | LoadFs: dial, then a client on it | a client that fails leaves the connection |
| S3, GCS, Dropbox, local | `fs/s3`, `fs/gcs`, `fs/dropbox`, `fs/afos` | none | LoadFs: parameters to a client library | none of their own |
| Environment substitution | `fs/utils/env.go` | none | ReplaceEnvVars | none |

### What makes each part correct

* **Graceful stop.** The counter is the number of connected clients; the event is
  raised only when a stop was requested and the last client has left; nobody waits
  for ever for the mutex; the answer of WaitGracefully is about an empty server.
* **Process.** Only a SIGTERM ends a server that serves; a SIGTERM that arrives is
  carried out; once the listener is closed the process ends.
* **Login.** A client gets the file system its own access describes, as the
  configuration in force describes it; a shared file system is loaded once; a
  failed load leaves nothing behind; a login ends when its backend answers.
* **Credentials.** The first entry of the user that accepts the password decides,
  and hashing the passwords of the file changes nobody's right to log in.
* **Configuration file.** What is published is what the file says, prepared; a
  failed reload leaves the server as it was; a crash leaves a file that can be
  read again.
* **Backends with uploads (mail, Telegram).** A file is sent once, complete, after
  its last write; the list of names and the access log tell what was sent.
* **TLS.** Everybody gets the same certificate or the same error; an error has a
  cause on the disk; the TLS requirement and the certificate belong together.
* **Backend loading.** A shared access holds one bot; a token file never goes back
  to an older token; a load that fails, or one that waits, costs the other logins
  no more than it has to.

## 2. Modules

| Module | Role |
| --- | --- |
| `Drain` | abstract: clients join and leave, a stop is requested, the server is found drained, the wait is answered |
| `GracefulStop` | the driver's counting and stopping; implements `Drain` |
| `Lifecycle` | EXTENDS `GracefulStop` with main, `signalHandler` and the listener: its callers in the order main.go gives them |
| `Credentials` | operators: `GetAccess`, `HashAccesses` on a list of accesses |
| `HashedLogins` | EXTENDS `Credentials`: the hashing of a published list, entry by entry, while clients log in through Keycloak |
| `SharedFs` | abstract: the cache of shared file systems in one step per login |
| `ServedRules` | abstract: who logs in as whom, adopted from the file in one step |
| `Delivery` | abstract: an uploaded file is delivered once and whole, and its client told the truth |
| `Login` | EXTENDS `Credentials`: AuthUser, webhook, loadFs, with reloads; implements `SharedFs` |
| `ConfigFile` | EXTENDS `Credentials`: the file, its loads, its rewriting, crashes and an administrator; implements `ServedRules` |
| `Uploads` | the files of mail and Telegram, from opening to Close, Telegram's list of names, the access log around them; implements `Delivery` |
| `TlsConfig` | what the library takes from the configuration once: the TLS requirement, and the certificate behind sync.Once |
| `Backends` | what the loads of Telegram, SFTP and Google Drive take hold of and leave behind, under the cache's lock; implements `SharedFs` |
| `MC*` | constants for TLC that a .cfg cannot write |
| `*Proofs` | theorems about the module of the same name; `LifecycleProofs` also has those about `GracefulStop` |

Definitions named "Mutant of X" are plausible bugs of the code behind X. No
specification uses them; `PROJECT.json` says which property notices which one.

### GracefulStop and Lifecycle

`at[g]` is where a goroutine is in its callback: a client between `accepted`,
`counted` (ClientConnected has returned), `leaving`, and the three statements of
`considerEnd` (`consider` for the test, `reload`, `send`, `close` after it), the
stopper in the same places for `Stop`. `lock` is `nbClientsSync`;
`ClientConnected` is one step, because what it does is visible only to holders of
the mutex. `considerEnd` is not: WaitGracefully reads and clears
`zeroClientEvent` without the mutex, so the field is loaded again by every
statement that uses it, and each load is a step. `buffer` and `channel` are the
state of the channel. A send or a close that panics in Go sets `panicked`: Go
ends the whole process then.

`Lifecycle` adds `main` (listen, serve, wait), `handler`, the listener of the
library, the signal channel (`pending`, capacity 1), and how the process ended.
Reload is a stay of the handler in `reload`, which may be as long as it wants. It
ends in the handler's loop or, when the hashing meets a null access
(config.go:109), in a panic outside of any client's goroutine, which ends the
process (`exit = "crashed"`; `ConfigFile` has the cause). An Accept that fails on an
open listener is the library's affair and not modelled.

### Credentials, Login and SharedFs

A stored password is a pair of a form (plain, hashed, garbled) and a text; the
code treats its eight hash prefixes alike. Digests are taken to accept exactly
the text they were made of. An entry may be null in the file: the list then has a
nil pointer (form `nil`), at which every login that reaches it panics (the library
makes that an error) and so does the hashing (`Panics`).

`Login` has a step for each use of `config.Content` (a reload can replace it in
between), one for each of the two assignments to a Keycloak entry, and one for
each stretch of `loadFs` and `fs.LoadFs` that can be told apart: lookup under
the lock, the backend, the wrappers, storing. `heap` holds the Contents of all
loads, because an access is a pointer into the Content it was found in. A nil
dereference ends a login in `crashed`: the library recovers panics of its
commands, and the deferred Unlock runs. A reload publishes a Content in its final
form: `ConfigFile` implements `ServedRules`, so for whoever logs in a load with its
two reads, its hashing and its write in place is the one step it is here, and
`HashingPreservesAccess` is why the passwords may change their form later.

`HashedLogins` is the composition that `Login` leaves out: Load publishes the
Content before it is hashed (config.go:89), so clients log in while bcrypt works.
`HashNext` tests one entry and computes its digest, `SetPass` stores the digest in
the text (`json`, by position) and in the entry, and `KeycloakLogin` may put a user
and a password into the Keycloak entry before, between and after them. A digest
lives in `digest` meanwhile, which is how a login's password is overwritten.

### ConfigFile

`disk` is the file, `saved` the last version the administrator saved, `text` the
second read, `content` what is published. Saves replace the whole file (editors
rename) and may happen at any moment; a version may have any number of entries,
and a file that was cut off, emptied or mistyped is no JSON document (`Damaged`).
The two reads, the hashing in memory, the truncation, the write and Prepare are
separate steps, any of which a crash may follow; open, truncation and write may
fail. (After a save by renaming, WriteFile may still put the old text on the disk,
and its failure damage it: the code's open file is another one by then. The model
has more behaviours than the code there, all of them raced.) That the loop over the
entries is one step here is what `HashedLogins` justifies.

`SetPasswords` is what `sjson.Set(json, "accesses.<i>.pass", digest)` does, whatever
the text of the second read: an entry that is there gets the digest; beyond the end
of the list one is added that has nothing but a password, with null (`NilAccess`)
in the places between, where the next load that hashes panics. An empty text, or one
whose list is of another type, becomes a document of these passwords or makes
every `Set` fail (`Rewritten`, and the branch of `HashPasswords` that saves
nothing while memory is hashed). That the decoder of Go takes keys in any case and sjson
does not is left out: keys are written as the documentation writes them.

`ServedRules` sees of all this who logs in as whom, for every name and password:
the rules on the disk, which anybody may change at any time, and the rules in
force. These are adopted by the assignment at config.go:89 and not changed by
anything else until the process ends, be it hashing, Prepare, a failure in between
or a save in the window.

The process overwrites a version saved between its look at the file and the write
that follows from it: the steps in `Window`. The history variable `raced` says that
the last version was saved there, and `fresh` that the last load succeeded and
nobody has saved since it began. `PasswordsSurvive` gives up the raced versions and
no other: it is violated as soon as any one step is taken out of `Window`, so the
window is exactly as wide as stated.

### Uploads

A file's content is the number of its writes, so a message is an interval of
writes: from 0 to all of them when it is whole. The FTP library closes a file
once, after an aborted transfer too. Nothing in the code distinguishes a file opened
to be read, and nothing does in the model. A send may fail after any part of the
content was read, or lose its reply after the message was delivered
(`ReplyLost`: mail.go:109, telegram.go:152): to the code both are an error, so an
upload whose Close failed may have been sent or not, its name is not recorded, and
`Delivery` leaves a failed transfer open in this respect. What remains is that one
whose Close succeeded was sent, once and whole. `RecordName` and `RecordSize` are the two locked steps after a
send to Telegram, in between which other clients act on the shared list.
`lengthWritten` and `log` belong to the wrapper of `fslog`, which AuthUser puts
around the file system: it counts in Write and writes its line after the Close of
the file below, which has reset the buffer by then.

`Delivery` knows neither buffer nor list: what the client has written, what was
delivered, and what the client was told. `Parcels` and `Answers` are the mapping; a
mail is delivered and confirmed in one step, a message to Telegram in two.

### TlsConfig

`cert` and `key` are the issues of the two files, 0 for a file that is not there;
`Renew` writes one of them, so a pair may be half renewed at any moment. A caller
is `away`, in `tlsOnce.Do` (`once`), or runs loadTLSConfig (`cert`, `key`).
`settings` is the requirement the library took at Listen. No code checks that a
Content with `tls_required` has a certificate: `GetTLSConfig` then fails for
everybody, with or without a reload, and the model has such a Content.
What holds is that, without a reload, requirement and certificate come from one
Content (`RequirementMatchesCertificate`). `reloaded` and
`disturbed` are history: the Content was replaced since Listen; the files were
incomplete or touched while they were read.

### Backends

`at[s]` follows one login through loadFs, the switch of fs.LoadFs and the steps of
the load that can fail after it has taken hold of something. The cache is keyed by
the name of the user, as in the code: two accesses of one user, which a reload may
bring about, share its place, and `given[s]` is whose file system a session
got. `Proceed` is what a load does on its own, `Heard` the answer of a
server or a person, for which it waits in a place of `Awaiting`: no load has a timeout
(sftp.go:28-39, keycloak.go:24). `running` has the sessions that started a bot or a
connection, none of which the code ever stops.
Tokens are numbered in the order they are issued, `tokens[f]` is the one in a token
file and `held[s]` the one in a client; `expired` is the clock. OAuth2 renews a
token in memory (`RenewInUse`) and the file is written only by a load
(gdrive.go:83). `Login` and `Backends` share loadFs: the former has what a client is
given and the configuration it comes from, the latter what its load costs. Both
implement `SharedFs`, `Login` with any reloads and the backend in one step,
`Backends` with every step of the backends (`Served` is what a session was given).

## 3. Runs

| Run | Instance | What it shows |
| --- | --- | --- |
| `graceful_stop` | 3 clients, one stop, one wait, any order | the count is exact, the event is raised for an empty server only, blocking for ever is possible only after the wait, `Drain` is implemented |
| `lifecycle` | 3 clients, any signals | only a SIGTERM ends a server that listens; the minute is spent only on clients; liveness below |
| `hashed_logins` | all lists of up to 2 accesses, 2 Keycloak logins | no login gets another answer while the passwords are hashed; only the Keycloak entry may be disturbed |
| `login` | 2 logins, 1 reload, 6 contents, one with a Keycloak entry that is not shared beside a shared one | own file system, shared loaded once, `SharedFs` implemented, every login ends |
| `config_file` | 5 versions of 1 to 3 entries, 2 saves, 2 crashes | passwords survive hashing outside the window, file and memory agree, no plain text left, a bad file changes nothing, `ServedRules` implemented |
| `uploads` | 1 mail, 2 Telegram files, 2 paths, 2 writes | a file is sent once and whole, the list and the access log agree with what was sent, `Delivery` implemented |
| `tls` | 3 callers, 5 contents, 2 issues | one answer for all, an error has a cause, requirement and certificate are of one Content until a reload, every call returns |
| `backends` | 3 sessions, 6 accesses (two of one user), 2 tokens | a user has one shared bot, token files only get newer tokens, a login waits for ever only behind a load that nobody answers, `SharedFs` implemented |

Three clients are one more than any known interleaving needs: one that leaves
last, one that connects late, one that waits for the mutex. Two logins suffice
for a race on the cache or on an entry; the proofs have any number. Two writes
are the least with which a message can be a proper part. Two saves and two
crashes allow a longer, shorter or reordered file in the window, one more outside
it, a null access that the next load meets, and a crash after a repair; a third save
gave nothing new, at six times the states. Lists of two accesses have a first and a second entry for one
user, and two Keycloak logins a second one that finds the first one's user. Three
callers of GetTLSConfig are one that loads, one that waits for it and one that
comes later; two issues are a pair and its renewal. Three sessions are two that
race on one access (or on one token file) and one that waits for both; with two
tokens an older one and a newer one meet.

`CHECK_DEADLOCK FALSE` stands where the system may stop: the process ends, every
login ends, hashing is done.

### Fairness

`Lifecycle` and `Login` state liveness under what Go's scheduler gives: a
goroutine that can run eventually does (weak fairness), and a `sync.Mutex`, which
after 1 ms of waiting is handed to the waiter directly, is eventually obtained by
one that keeps asking (strong fairness of the steps that lock). Timers fire.
Backends and webhooks answer or fail: `LoginsEnd` needs it, because the lock of
the cache is held meanwhile. Nothing forces a signal, a connection, a
disconnection or a login.

`TlsConfig` assumes weak fairness of the goroutines in GetTLSConfig: reading a file
ends. `Backends` assumes it of what a load does itself (`Proceed`) and of Lookup, but
nothing of `Heard`: no server needs to answer, and nobody to be at the terminal.
`OnlySilenceBlocks` says what is left, and is the exact complement of `LoginsEnd`: a
login waits for ever for the lock only if some load, of whatever user, waits for
ever for an answer. That one silent server keeps all others out is the behaviour of
the code, not excluded by a fairness assumption.

### Where the code and its texts part

Runs that end in a counterexample, each for one sentence of the repository:

* `lifecycle_panic`: a client accepted before the stop connects and leaves after
  the event; considerEnd sends on a closed channel (server.go:165).
* `login_keycloak`: two logins through one Keycloak entry, and one gets the other
  user's directory (config.go:205).
* `login_stale_cache`: a reload makes a user read-only, and the login that finds the
  new entry is served the writable file system from the cache (server.go:175).
* `config_wrong_entry`: a file saved between the two reads of a load gets a hash
  in another user's entry (config.go:150).

The models also have these behaviours, which no run singles out:

* Process: considerEnd may use the field just when WaitGracefully clears it at the
  end of its minute (server.go:153, 165-166): a close of nil panics; a null access
  in a reloaded file ends the process (config.go:109); a SIGTERM before the listener
  exists is used up (main.go:121); one that finds the channel full is dropped
  (main.go:127); when Listen fails the process waits a minute for nobody
  (main.go:113); the driver is stopped before the listener, so the wait may end
  gracefully with a client that was accepted in between (main.go:119, against the
  comment at server.go:149).
* Login: a reload without webhook makes a login dereference nil
  (server.go:204-214).
* Configuration: a reload that fails while hashing leaves a Content in force that
  Prepare has not seen (config.go:89); a crash in the middle of the write leaves no
  accesses (config.go:159); a version saved in the window is lost, and one that is
  shorter than the list in memory gets entries without a user (config.go:150); a
  Keycloak login
  during the hashing sends the hash of its password to Keycloak (config.go:151).
* Uploads: a download of any name sends an empty message (mail.go:109,
  telegram.go:129); an upload that was delivered is reported as failed when the reply
  gets lost (mail.go:109, telegram.go:152).
* TLS: required TLS without a certificate is accepted, and then no client gets
  in; an error is kept for the life of the process, and so is a certificate,
  though "the certificate could frequently change" (server.go:331).
* Backends: the token file is not "updated regularly (every day)"
  (fs/gdrive/README.md) but only at a load that finds an expired token
  (gdrive.go:83); each login refused after Telegram's LoadFs, which
  sync_and_delete may do, leaves a bot behind (fs.go:72); an SFTP connection whose
  client fails stays open (sftp.go:44); a silent server keeps every login that needs
  the cache waiting (sftp.go:28-39, keycloak.go:24).

Two more were met while reading and have no behaviour to model: nothing reads
`max_clients`, and `idle_timeout` is decoded from a number of nanoseconds although
config-schema.json:66-69 asks for a string like '5m'.

## 4. Proofs

All for any number of clients, logins, reloads, saves, crashes, users and contents.
Each rests on the named assumption of its module about the constants.

* `LifecycleProofs`. The driver: `TypeCorrect`, `CounterIsExact`,
  `NobodyWhileRaising`, `NeverStuckWhileServing`, `Refinement`. The inductive
  invariant adds that the mutex is held exactly inside the critical section
  (`LockInv`), that the counter stays 0 from considerEnd's test on (`DecidingInv`),
  the order in which the channel is made, used and closed (`EventInv`), and that an
  answer exists once the select is left (`WaiterInv`). CountExact is inductive with the types
  alone, for each callback changes counter and membership in one step; LockInv is
  for EmptyWhileRaising and StuckOnlyAtTheEnd, because who holds the mutex between
  the test and the close decides whether the counter may move. The clients
  are finitely many. The process: each step is a step of the driver or leaves it
  alone (`ProcessIsDriver`), so the driver's theorems hold for the process
  (`ProcessDrains`); `ServesUntilSigterm` and `ProcessTypeCorrect` on top of it.
  `MinuteIsForClients` needs `RaisedInv`, that an empty server with a free mutex has
  raised the event as soon as Stop was called, and that the listener is closed
  after Stop.
* `CredentialsProofs`, about lists of any length. `FirstAnswerDecides` says what the
  loop of GetAccess returns: the entry that answers first. It rests on the
  library's theorem that a nonempty set of numbers has a least element
  (`FirstIsLeast`). From it `OthersAreIrrelevant`: entries of other users, but for
  Keycloak's and null ones, have no part in an answer. `HashingPreservesAccess` follows from the
  lemma that a list any of whose entries are hashed gives the same answers
  (`SomeHashedAnswers`); `HashingIsIdempotent` says that the next load finds
  nothing more to do.
* `HashedLoginsProofs`: `LoginsKeptWhileHashing`, `OthersKeepTheirEntries`,
  `OthersHaveNoSay`. An entry
  of another backend than Keycloak is as it was written or hashed, and the digest
  in flight is its own (`EntriesInv`); `AloneInv` says how far the loop is while
  nobody has logged in through Keycloak, which makes it the operator of ConfigFile.
* `LoginProofs`: `LoginTypeCorrect`, of all contents, and `ServedItsOwnUser`, whose
  property names its condition: as long as no Keycloak entry in memory is shared,
  the logins that do not depend on one are served as they should be.
  `SharedOnce` and `CacheRefinement` assume the same of the contents
  (`NoSharedKeycloak`). It cannot be dropped: the user of a Keycloak entry is
  overwritten by each login, so a shared one is stored in the cache under a name
  it was not looked up with, and TLC finds `SharedIsLoadedOnce` violated in a few
  steps when `Contents` has one. `login_keycloak` shows what may happen to the
  Keycloak logins themselves.
  The invariant says that a login points to an entry of its own user or to
  Keycloak's, that the lock is held exactly while loading and, if nothing of
  Keycloak is shared, that a loading login's user has no shared instance yet and
  that whatever is cached was built, for the user it is cached under, by a login
  that was served.
  `ConsistentUsersStayReadOnly` delimits the finding of `login_stale_cache`: with
  no Keycloak entry, and every version and webhook answer of one mind about who is
  read-only, the cache keeps the promise of `read_only`.
* `ConfigFileProofs`: all six properties of its run. `SurvivalInv` says that,
  unless the last version was raced, the file, the text and (until it is written)
  the Content are that version with some passwords hashed; with `SomeHashedAnswers`
  it gives `LoginsSurviveHashing`. `FreshInv` follows the one document through
  memory, text and file during a load nobody disturbed, for `FileAgreesAfterLoad`
  and `NoPlaintextAfterLoad`. The versions have any number of entries each, not all
  the same: in a text nobody saved meanwhile the positions are right
  (`SetPasswordsInPlace`), and the raced ones need only be documents of some kind
  (`SetPasswordsType`, `RewrittenType`).
  `UnracedFilesHoldEquivalents` delimits the finding of `config_wrong_entry`: only a
  save in the window puts a hash into another user's entry (entries without a user, which sjson adds, are passed
  over). `RulesRefinement` needs
  types alone: `HashedRules`, that no hash changes an answer, is what makes every
  step but the decoding a stutter or a change of the file.
* `UploadsProofs`: `UploadsTypeCorrect`, `SentWhole`, `ListIsOfSentFiles`,
  `LogTellsWhatWasSent`, `DeliveryRefinement`. Until its message is sent a file holds all that was
  written, unread, and no message is about it (`UnsentInv`); without it neither the
  bound of the content nor a second message could be excluded. `RecordsInv` has
  what Close still holds between its send and its last step, and what list and log
  know by then; a lost reply leaves a file sent and its list and log without
  it. The refinement needs both: a send is a delivery because nothing was
  read or sent before, and the last step a confirmation because a message is there.
* `TlsConfigProofs`: the four safety properties of its run, and that the outcome of
  the first load is never replaced (`FirstOutcomeIsFinal`). One caller reads, and
  the outcome exists from the end of the load on (`OnceInv`); answers are copies of
  it (`AnswerInv`); what was read is on the disk until something disturbs it
  (`QuietInv`); the requirement is the Content's until a reload
  (`SettingsInv`), from which `RequirementIsOfTheCertificate`.
* `BackendsProofs`: `BackendsTypeCorrect`, `SharedHasOneBot`,
  `TokenFileOnlyRenewed`, `LoginOneStep`. Whoever loads has the lock, and nothing is
  cached for its user (`LockInv`); what is cached is of a session that was
  answered, and stays (`CacheInv`), so that a store finds its place empty; a token
  on its way to the file is not older than the file's (`TokenInv`); a shared bot is cached or about to be (`BotInv`).

Only model-checked: the liveness properties (`ClosedListenerEndsProcess`,
`DisconnectReturns`, `PendingSigtermStops`, `LoginsEnd`, `CallsReturn`,
`OnlySilenceBlocks`), because fairness is outside the prover's reach. Every
invariant, action property and refinement of the runs that pass has a theorem. The
induction theorems of the library take an operator, which the prover cannot be
given; the lists need none of them, since a least counterexample serves as well.

## 5. Not modelled

* Prefix removal (`fs/stripprefix`): nothing uses it; its one call is commented out
  (fs/s3/s3.go:44).
* Environment substitution, and the parameters S3, GCS, Dropbox and the local file
  system hand to a client library: values without state or control flow.
* The settings but for the TLS requirement: copied from one Content.
* Calls of mail, Telegram and the access log that answer without changing anything,
  the counts of reads, Telegram's bot commands, the kinds of its messages but for
  short texts.
* Flags and the log file: they choose where things go.
* The data race on the words of a Go string (a Keycloak entry's User and Pass) is
  taken as an atomic assignment.

## 6. Plan

Done: `Drain`, `GracefulStop`, `Lifecycle`, `Credentials`, `Login`, `ConfigFile`,
`Uploads`, then `TlsConfig`, `Backends` and the entry-by-entry `HashedLogins`, in
this order, the process and the logins first because all clients depend on them.
Left:

1. `Login` with the token and the bot of `Backends` as one module, so that
   `ReadOnlyBlocksWriting` and `BotIsShared` speak of the same file systems.
2. The liveness properties as safety: what each step brings nearer to the end of a
   login, a call or the process, as a measure no step increases.
3. A shared Keycloak entry: what of `SharedIsLoadedOnce` survives with one.
