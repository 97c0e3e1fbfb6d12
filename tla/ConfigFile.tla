----------------------------- MODULE ConfigFile -----------------------------
(***************************************************************************)
(* The configuration file and the Content that is made of it: creation of  *)
(* a missing file by main, Config.Load at the start and at each SIGHUP,    *)
(* and the hashes that HashPlaintextPasswords writes back into the file.   *)
(*                                                                         *)
(* The file is shared with an administrator, who saves whole versions of   *)
(* it, and the process may be killed between any two steps.  A load opens  *)
(* the file once to decode it and once more to replace the passwords by    *)
(* their position, and rewrites it in place (os.WriteFile truncates it     *)
(* and then writes it).  The text it finds the second time may be another  *)
(* one: longer, shorter, or no document at all.                            *)
(***************************************************************************)
EXTENDS Credentials

CONSTANTS
  Users, Texts,   \* user names, and the texts of passwords
  Saves,          \* versions the administrator may save: [hash, accesses]
  Default,        \* confFileContent()
  Empty,          \* the empty string
  AutoCreate,     \* main creates a file that is missing
  Edits, Crashes, \* bounds on the saves and on the crashes
  NoFile,         \* the file does not exist
  Damaged,        \* the file is no JSON document: empty, cut off, mistyped
  NoContent       \* Config.Content before the first load

\* An access that is null in the file.
NilAccess == [user |-> Empty, pass |-> [form |-> "nil", text |-> Empty], fs |-> Empty]

Accesses ==
  [user : Users,
   pass : [form : {"plain", "hashed", "garbled"}, text : Texts],
   fs   : STRING] \cup {NilAccess}

\* The documents (hash is the option hash_plaintext_passwords), and what Load
\* makes of them.
Files    == [hash : BOOLEAN, accesses : Seq(Accesses)]
Contents == [accesses : Seq(Accesses), prepared : BOOLEAN]

\* Who is logged in as whom.
Rules == [Users \X Texts -> Users \cup {"nobody"}]

ASSUME ConfigFileAssumption ==
  /\ AutoCreate \in BOOLEAN
  /\ Edits \in Nat
  /\ Crashes \in Nat
  /\ Saves \cup {Default} \subseteq Files
  /\ Empty \in Users \cap Texts \cap STRING
  /\ NoFile # Damaged
  /\ NoFile \notin Files
  /\ Damaged \notin Files
  /\ NoContent \notin Contents \cup Rules

VARIABLES
  at,       \* where the goroutine that loads is, "off" without a process
  starting, \* the load is the one of NewConfig, not of ReloadConfig
  disk,     \* the file
  saved,    \* the version the administrator saved last
  raced,    \* ... while the process was about to replace the file
  content,  \* Config.Content, with whether Prepare has completed it
  text,     \* the variable json of HashPlaintextPasswords
  fresh,    \* the last load succeeded, and nobody has saved since it began
  edits, crashes

fileVars == <<disk, saved, raced, edits>>
cvars == <<at, starting, disk, saved, raced, content, text, fresh, edits, crashes>>

CInit ==
  /\ at = "off"
  /\ starting = FALSE
  /\ disk \in Saves \cup {NoFile, Damaged}
  /\ saved = disk
  /\ raced = FALSE
  /\ content = NoContent
  /\ text = Damaged
  /\ fresh = FALSE
  /\ edits = 0
  /\ crashes = 0

Goto(place) == at' = place

-----------------------------------------------------------------------------

\* From the look at the file to the end of the write that follows from it:
\* main's Stat and its WriteFile, Load's decoding and its WriteFile.
Window == {"create", "fill", "read", "hash", "truncate", "write"}

\* The administrator saves a version, damages the file or removes it.
Save ==
  /\ edits < Edits
  /\ \E version \in Saves \cup {NoFile, Damaged} :
       /\ disk' = version
       /\ saved' = version
  /\ raced' = (at \in Window)
  /\ edits' = edits + 1
  /\ fresh' = FALSE
  /\ UNCHANGED <<at, starting, content, text, crashes>>

\* The process is killed, or the machine stops.
Crash ==
  /\ crashes < Crashes
  /\ at # "off"
  /\ Goto("off")
  /\ content' = NoContent
  /\ fresh' = FALSE
  /\ crashes' = crashes + 1
  /\ UNCHANGED <<starting, fileVars, text>>

-----------------------------------------------------------------------------

\* main looks for the file.
Stat ==
  /\ at = "off"
  /\ Goto(IF AutoCreate /\ disk = NoFile THEN "create" ELSE "open")
  /\ starting' = TRUE
  /\ UNCHANGED <<fileVars, content, text, fresh, crashes>>

\* os.WriteFile creates or truncates; when it fails main only warns.
Create ==
  /\ at = "create"
  /\ \/ /\ Goto("fill")
        /\ disk' = Damaged
     \/ /\ Goto("open")
        /\ UNCHANGED disk
  /\ UNCHANGED <<starting, saved, raced, content, text, fresh, edits, crashes>>

Fill ==
  /\ at = "fill"
  /\ Goto("open")
  /\ disk' \in {Default, Damaged}
  /\ UNCHANGED <<starting, saved, raced, content, text, fresh, edits, crashes>>

\* SIGHUP.
ReloadConfig ==
  /\ at = "serving"
  /\ Goto("open")
  /\ starting' = FALSE
  /\ UNCHANGED <<fileVars, content, text, fresh, crashes>>

\* Mutant of Fail: the error of the first load is not looked at.
FailIgnored ==
  /\ Goto("serving")
  /\ fresh' = FALSE
  /\ UNCHANGED content

\* Load returns an error: main ends, the handler of the signal goes on.
Fail ==
  /\ Goto(IF starting THEN "off" ELSE "serving")
  /\ fresh' = FALSE
  /\ content' = IF starting THEN NoContent ELSE content

\* Mutant of Decode: the file is decoded into the published Content, and an
\* error leaves what was decoded before it.
DecodeInPlace ==
  /\ at = "open"
  /\ IF disk \in {NoFile, Damaged}
       THEN /\ Goto(IF starting THEN "off" ELSE "serving")
            /\ content' = IF starting THEN NoContent
                          ELSE [content EXCEPT !.accesses = <<>>]
            /\ UNCHANGED fresh
       ELSE /\ content' = [accesses |-> disk.accesses, prepared |-> FALSE]
            /\ fresh' = TRUE
            /\ Goto(IF disk.hash THEN "read" ELSE "prepare")
  /\ UNCHANGED <<starting, fileVars, text, crashes>>

\* Load opens and decodes the file, then publishes the Content as it is.
Decode ==
  /\ at = "open"
  /\ IF disk \in {NoFile, Damaged}
       THEN Fail
       ELSE /\ content' = [accesses |-> disk.accesses, prepared |-> FALSE]
            /\ fresh' = TRUE
            /\ Goto(IF disk.hash THEN "read" ELSE "prepare")
  /\ UNCHANGED <<starting, fileVars, text, crashes>>

\* HashPlaintextPasswords reads the file again.
ReadFile ==
  /\ at = "read"
  /\ IF disk = NoFile
       THEN /\ Fail
            /\ UNCHANGED text
       ELSE /\ text' = disk
            /\ Goto("hash")
            /\ UNCHANGED <<content, fresh>>
  /\ UNCHANGED <<starting, fileVars, crashes>>

\* Mutant of SetPasswords: positions in the file are counted from 1.
SetPasswordsFromOne(file, accesses) ==
  [file EXCEPT !.accesses =
     [i \in DOMAIN file.accesses |->
        IF i - 1 \in DOMAIN accesses /\ ToHash(accesses[i - 1])
          THEN [file.accesses[i] EXCEPT !.pass = Hashed(accesses[i - 1]).pass]
          ELSE file.accesses[i]]]

\* sjson.Set(json, "accesses.<i>.pass", digest) for each password replaced: the
\* entry may be another one.  Beyond the end of the list it adds an entry of
\* nothing but the password, with null in the places between.
SetPasswords(file, accesses) ==
  LET old      == file.accesses
      replaced == {i \in DOMAIN accesses : ToHash(accesses[i])}
      length   == First({n \in {Len(old)} \cup DOMAIN accesses :
                           \A i \in {Len(old)} \cup replaced : i <= n})
      entry(i) == IF i \in DOMAIN old THEN old[i] ELSE NilAccess
  IN  [file EXCEPT !.accesses =
         [i \in 1 .. length |->
            IF i \in replaced THEN [entry(i) EXCEPT !.pass = Hashed(accesses[i]).pass]
                              ELSE entry(i)]]

\* Of a text that is empty, or whose list is mistyped, sjson makes a document
\* with these passwords; one that is cut off it leaves so.
Rewritten(file, accesses) ==
  IF file = Damaged
    THEN {Damaged} \cup
         {SetPasswords([hash |-> option, accesses |-> <<>>], accesses) : option \in BOOLEAN}
    ELSE {SetPasswords(file, accesses)}

\* Mutant of HashPasswords: only the file gets the hashes.
HashFileOnly ==
  /\ at = "hash"
  /\ text' \in Rewritten(text, content.accesses)
  /\ Goto("truncate")
  /\ UNCHANGED <<starting, fileVars, content, fresh, crashes>>

\* The loop over the accesses.  A password that cannot be hashed ends it with
\* an error, after those before it were replaced in memory.  An error of
\* sjson.Set is passed over, and nothing saved if there was no success.
HashPasswords ==
  /\ at = "hash"
  /\ LET accesses == content.accesses
         hashing  == [content EXCEPT !.accesses = HashAccesses(accesses)]
         needed   == \E i \in DOMAIN accesses : ToHash(accesses[i])
     IN  \/ /\ Panics(accesses)
            /\ Goto("off")
            /\ content' = NoContent
            /\ fresh' = FALSE
            /\ UNCHANGED text
         \/ /\ ~Panics(accesses)
            /\ Stubborn(accesses) # {}
            /\ Goto(IF starting THEN "off" ELSE "serving")
            /\ content' = IF starting THEN NoContent ELSE hashing
            /\ fresh' = FALSE
            /\ UNCHANGED text
         \/ /\ ~Panics(accesses)
            /\ Stubborn(accesses) = {}
            /\ content' = hashing
            /\ \/ /\ needed
                  /\ text' \in Rewritten(text, accesses)
                  /\ Goto("truncate")
               \/ /\ ~needed \/ text = Damaged
                  /\ Goto("prepare")
                  /\ UNCHANGED text
            /\ UNCHANGED fresh
  /\ UNCHANGED <<starting, fileVars, crashes>>

\* Mutant of Truncate: a file that cannot be opened for writing is no error.
TruncateIgnored ==
  /\ at = "truncate"
  /\ \/ /\ Goto("prepare")
        /\ UNCHANGED disk
     \/ /\ disk' = Damaged
        /\ Goto("write")
  /\ UNCHANGED <<starting, saved, raced, content, text, fresh, edits, crashes>>

\* os.WriteFile truncates the file (creating it if it has gone) ...
Truncate ==
  /\ at = "truncate"
  /\ \/ /\ Fail
        /\ UNCHANGED disk
     \/ /\ disk' = Damaged
        /\ Goto("write")
        /\ UNCHANGED <<content, fresh>>
  /\ UNCHANGED <<starting, saved, raced, text, edits, crashes>>

\* ... and writes it, or part of it.
WriteFile ==
  /\ at = "write"
  /\ \/ /\ Fail
        /\ disk' = Damaged
     \/ /\ disk' = text
        /\ Goto("prepare")
        /\ UNCHANGED <<content, fresh>>
  /\ UNCHANGED <<starting, saved, raced, text, edits, crashes>>

\* Prepare completes the Content, and Load has succeeded.
Prepare ==
  /\ at = "prepare"
  /\ content' = [content EXCEPT !.prepared = TRUE]
  /\ Goto("serving")
  /\ UNCHANGED <<starting, fileVars, text, fresh, crashes>>

-----------------------------------------------------------------------------

Start == Stat \/ Create \/ Fill
Load  == Decode \/ ReadFile \/ HashPasswords \/ Truncate \/ WriteFile \/ Prepare

CNext == Save \/ Crash \/ Start \/ ReloadConfig \/ Load

CSpec == CInit /\ [][CNext]_cvars

-----------------------------------------------------------------------------

Loading == {"read", "hash", "truncate", "write", "prepare"}

\* Types; whoever serves, or loads again, has a Content.
CTypeOK ==
  /\ at \in {"off", "create", "fill", "open", "serving"} \cup Loading
  /\ starting \in BOOLEAN
  /\ disk \in Files \cup {NoFile, Damaged}
  /\ saved \in Saves \cup {NoFile, Damaged}
  /\ raced \in BOOLEAN
  /\ text \in Files \cup {Damaged}
  /\ content \in Contents \cup {NoContent}
  /\ at \in {"create", "fill"} => starting
  /\ (at \in {"serving"} \cup Loading) \/ (at = "open" /\ ~starting)
       => content # NoContent
  /\ fresh \in BOOLEAN
  /\ edits \in 0 .. Edits
  /\ crashes \in 0 .. Crashes

LogsIn(k, user, pass) ==
  LET i == GetAccess(k.accesses, user, pass)
  IN  IF i = Refused THEN "nobody" ELSE k.accesses[i].user

\* Hashing takes no login from a user and gives none to another: whatever the
\* server has made of the file the administrator saved, crashes and failed
\* writes included, a file that can be read lets in the same users with the
\* same passwords.  Only a version saved between the look at the file and the
\* write that follows from it (main.go:40-53, config.go:67-159) is exposed.
PasswordsSurvive ==
  saved \in Saves /\ disk \notin {NoFile, Damaged} /\ ~raced =>
    \A i \in DOMAIN saved.accesses, j \in DOMAIN saved.accesses :
      LET user == saved.accesses[i].user
          pass == saved.accesses[j].pass.text
      IN  LogsIn(disk, user, pass) = LogsIn(saved, user, pass)

\* After a load that succeeded the server uses a Content that is prepared, and
\* checks passwords against the very entries the file holds, until the file
\* is saved anew.
FileAgreesWithMemory ==
  at = "serving" /\ fresh =>
    content.prepared /\ content.accesses = disk.accesses

\* After a load that succeeded, a file that asks for it holds no password in
\* plain text any more, but for the open anonymous.
NoPlaintextLeft ==
  at = "serving" /\ fresh /\ disk.hash =>
    \A i \in DOMAIN disk.accesses : ~ToHash(disk.accesses[i])

\* A reload that finds no document leaves the server the accesses it had.
BadFileChangesNothing ==
  [][at = "open" /\ disk \in {NoFile, Damaged} /\ ~starting /\ at' # "off"
       => content' = content]_cvars

RulesOf(k) == [login \in Users \X Texts |-> LogsIn(k, login[1], login[2])]

RulesOnDisk  == IF disk \in {NoFile, Damaged} THEN NoContent ELSE RulesOf(disk)
RulesInForce == IF content = NoContent THEN NoContent ELSE RulesOf(content)

\* A load is one step for the clients: it publishes the rules of the file, and
\* then neither the hashing, nor the writing, nor any failure changes what a
\* login is answered.
R == INSTANCE ServedRules
       WITH NoRules <- NoContent, up <- at # "off", file <- RulesOnDisk, rules <- RulesInForce
ImplementsServedRules == R!Spec

-----------------------------------------------------------------------------
(***************************************************************************)
(* What the repository says of the program and the code does not do.       *)
(***************************************************************************)

\* confpar.go:67, "Overwrite plain-text passwords with hashed equivalents":
\* whatever is saved during a load, no user has an entry in the file with a
\* password that no version ever gave him.
HashedEquivalents ==
  disk \notin {NoFile, Damaged} =>
    \A i \in DOMAIN disk.accesses : disk.accesses[i].user # Empty =>
      \E version \in Saves \cup {Default} : \E j \in DOMAIN version.accesses :
        /\ version.accesses[j].user = disk.accesses[i].user
        /\ version.accesses[j].pass.text = disk.accesses[i].pass.text

=============================================================================
