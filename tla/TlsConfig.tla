----------------------------- MODULE TlsConfig -----------------------------
(***************************************************************************)
(* What the FTP library takes from the published configuration once and    *)
(* keeps: the settings it asks for when it starts to listen (GetSettings), *)
(* and the certificate, which every TLS connection asks for but sync.Once  *)
(* loads a single time (GetTLSConfig).                                     *)
(*                                                                         *)
(* Meanwhile SIGHUP publishes other Contents, and a tool renews the        *)
(* certificate: two files, written one after the other.  A file is known   *)
(* by the issue it belongs to; issue 0 is a file that is not there yet.    *)
(***************************************************************************)
EXTENDS Integers

CONSTANTS
  Callers,   \* goroutines of control and transfer connections
  Contents,  \* what reloads publish: [tls, tls_required]
  Issues     \* bound on the renewals

Requirements == {"ImplicitEncryption", "MandatoryEncryption", "ClearOrEncrypted"}

\* A Content may require TLS and name no certificate (tls is FALSE): nothing
\* compares the two.
ASSUME TlsAssumption ==
  /\ Issues \in Nat \ {0}
  /\ Contents \subseteq [tls : BOOLEAN, tls_required : STRING]

VARIABLES
  at,        \* at[c]: "away", "once" (in tlsOnce.Do), "cert", "key"
  content,   \* Config.Content
  settings,  \* the library's TLSRequirement, "none" before it listens
  reloaded,  \* history: another Content was published since it listens
  cert, key, \* issues of the two files
  certBytes, \* issue of the certificate that loadTLSConfig has read
  disturbed, \* history: a file was absent or written while they were read
  once,      \* tlsOnce: "new", "running", "done"
  outcome,   \* tlsConfig and tlsError
  answer     \* answer[c]: what GetTLSConfig returned to c last

files == <<cert, key>>
tvars == <<at, content, settings, reloaded, files, certBytes, disturbed, once,
           outcome, answer>>

None       == [kind |-> "none", issue |-> 0]
NotEnabled == [kind |-> "not enabled", issue |-> 0]
LoadError  == [kind |-> "error", issue |-> 0]
Pair(i)    == [kind |-> "pair", issue |-> i]

TInit ==
  /\ at = [c \in Callers |-> "away"]
  /\ content \in Contents
  /\ settings = "none"
  /\ reloaded = FALSE
  /\ cert \in {0, 1} /\ key \in {0, 1}
  /\ certBytes = 0
  /\ disturbed = FALSE
  /\ once = "new"
  /\ outcome = None
  /\ answer = [c \in Callers |-> None]

Goto(c, place) == at' = [at EXCEPT ![c] = place]

-----------------------------------------------------------------------------

\* GetSettings: whatever is not one of the two words means no requirement.
TLSRequirement(k) ==
  IF k.tls_required \in Requirements THEN k.tls_required ELSE "ClearOrEncrypted"

\* The library's Listen.
Listen ==
  /\ settings = "none"
  /\ settings' = TLSRequirement(content)
  /\ UNCHANGED <<at, content, reloaded, files, certBytes, disturbed, once,
                 outcome, answer>>

Reload ==
  /\ settings # "none"
  /\ content' \in Contents \ {content}
  /\ reloaded' = TRUE
  /\ UNCHANGED <<at, settings, files, certBytes, disturbed, once, outcome, answer>>

\* A file of the next issue is written; the other one of the pair follows.
Renew ==
  /\ \/ /\ cert <= key /\ cert < Issues
        /\ cert' = cert + 1
        /\ UNCHANGED key
     \/ /\ key <= cert /\ key < Issues
        /\ key' = key + 1
        /\ UNCHANGED cert
  /\ disturbed' = (disturbed \/ once = "running")
  /\ UNCHANGED <<at, content, settings, reloaded, certBytes, once, outcome, answer>>

-----------------------------------------------------------------------------

\* GetTLSConfig is called.
Ask(c) ==
  /\ settings # "none"
  /\ at[c] = "away"
  /\ Goto(c, "once")
  /\ UNCHANGED <<content, settings, reloaded, files, certBytes, disturbed, once,
                 outcome, answer>>

\* The end of loadTLSConfig, and of tlsOnce.Do for everybody.
Keep(c, result) ==
  /\ outcome' = result
  /\ once' = "done"
  /\ Goto(c, "once")

\* Mutant of Begin: no sync.Once, but a test whether tlsConfig is set.
BeginUnlocked(c) ==
  /\ at[c] = "once"
  /\ once # "done"
  /\ IF content.tls
       THEN /\ Goto(c, "cert")
            /\ once' = "running"
            /\ disturbed' = (cert # key \/ cert = 0)
            /\ UNCHANGED outcome
       ELSE /\ Keep(c, NotEnabled)
            /\ UNCHANGED disturbed
  /\ UNCHANGED <<content, settings, reloaded, files, certBytes, answer>>

\* Mutant of Begin: the test for a section without certificate is inverted.
BeginInverted(c) ==
  /\ at[c] = "once"
  /\ once = "new"
  /\ IF content.tls
       THEN /\ Keep(c, NotEnabled)
            /\ UNCHANGED disturbed
       ELSE /\ Goto(c, "cert")
            /\ once' = "running"
            /\ disturbed' = (cert # key \/ cert = 0)
            /\ UNCHANGED outcome
  /\ UNCHANGED <<content, settings, reloaded, files, certBytes, answer>>

\* The first caller runs loadTLSConfig, with the Content of this moment.
Begin(c) ==
  /\ at[c] = "once"
  /\ once = "new"
  /\ IF content.tls
       THEN /\ Goto(c, "cert")
            /\ once' = "running"
            /\ disturbed' = (cert # key \/ cert = 0)
            /\ UNCHANGED outcome
       ELSE /\ Keep(c, NotEnabled)
            /\ UNCHANGED disturbed
  /\ UNCHANGED <<content, settings, reloaded, files, certBytes, answer>>

\* Mutant of ReadCert: the goroutine leaves tlsOnce.Do without its end.
ReadCertLeaving(c) ==
  /\ at[c] = "cert"
  /\ certBytes' = cert
  /\ Goto(c, IF cert = 0 THEN "once" ELSE "key")
  /\ UNCHANGED <<content, settings, reloaded, files, disturbed, once, outcome, answer>>

ReadCert(c) ==
  /\ at[c] = "cert"
  /\ certBytes' = cert
  /\ IF cert = 0
       THEN Keep(c, LoadError)
       ELSE /\ Goto(c, "key")
            /\ UNCHANGED <<once, outcome>>
  /\ UNCHANGED <<content, settings, reloaded, files, disturbed, answer>>

\* Mutant of ReadKey: the error of reading the key is not looked at.
ReadKeyUnchecked(c) ==
  /\ at[c] = "key"
  /\ Keep(c, Pair(key))
  /\ UNCHANGED <<content, settings, reloaded, files, certBytes, disturbed, answer>>

\* Mutant of ReadKey: X509KeyPair is given the two files in the wrong order.
ReadKeySwapped(c) ==
  /\ at[c] = "key"
  /\ Keep(c, LoadError)
  /\ UNCHANGED <<content, settings, reloaded, files, certBytes, disturbed, answer>>

\* X509KeyPair refuses a key that is not the certificate's.
ReadKey(c) ==
  /\ at[c] = "key"
  /\ Keep(c, IF key = certBytes THEN Pair(key) ELSE LoadError)
  /\ UNCHANGED <<content, settings, reloaded, files, certBytes, disturbed, answer>>

\* tlsOnce.Do returns at once, or as soon as the first caller has ended it.
Return(c) ==
  /\ at[c] = "once"
  /\ once = "done"
  /\ Goto(c, "away")
  /\ answer' = [answer EXCEPT ![c] = outcome]
  /\ UNCHANGED <<content, settings, reloaded, files, certBytes, disturbed, once,
                 outcome>>

GetTLSConfig(c) == Begin(c) \/ ReadCert(c) \/ ReadKey(c) \/ Return(c)

TNext ==
  \/ Listen \/ Reload \/ Renew
  \/ \E c \in Callers : Ask(c) \/ GetTLSConfig(c)

TSpec == TInit /\ [][TNext]_tvars

\* The goroutines run.  Reading a file ends.
TFairSpec == TSpec /\ \A c \in Callers : WF_tvars(GetTLSConfig(c))

-----------------------------------------------------------------------------

Outcomes == {None, NotEnabled, LoadError} \cup {Pair(i) : i \in 1 .. Issues}

TTypeOK ==
  /\ at \in [Callers -> {"away", "once", "cert", "key"}]
  /\ content \in Contents
  /\ settings \in Requirements \cup {"none"}
  /\ reloaded \in BOOLEAN
  /\ cert \in 0 .. Issues /\ key \in 0 .. Issues
  /\ certBytes \in 0 .. Issues
  /\ disturbed \in BOOLEAN
  /\ once \in {"new", "running", "done"}
  /\ outcome \in Outcomes
  /\ answer \in [Callers -> Outcomes]

\* Whoever asks, and however often, gets the same answer, though the Content
\* and the files change: sync.Once lets nobody return before the load has
\* ended, and nobody load again.
OneAnswer ==
  \A c \in Callers, d \in Callers :
    None \in {answer[c], answer[d]} \/ answer[c] = answer[d]

\* The error that is kept for ever has a cause on the disk: a file was absent,
\* or the pair was renewed, while the two files were read.  A server that asks
\* for its certificate in a quiet moment gets it.
ErrorHasCause == outcome = LoadError => disturbed

\* What is required of the clients and what they are offered are of one Content,
\* unless a reload came between Listen and the first TLS connection: TLS is
\* required as the Content says, and "not enabled" exactly if it names no
\* certificate.  Without a reload a server that requires what it does not offer
\* was told so by its file.
RequirementMatchesCertificate ==
  outcome # None /\ ~reloaded =>
    /\ settings = TLSRequirement(content)
    /\ (outcome = NotEnabled <=> ~content.tls)

\* Every call of GetTLSConfig returns.
CallsReturn == \A c \in Callers : at[c] # "away" ~> at[c] = "away"

=============================================================================
