-------------------------- MODULE TlsConfigProofs --------------------------
(***************************************************************************)
(* Theorems about TlsConfig, for any number of callers, renewals and       *)
(* Contents.                                                               *)
(***************************************************************************)
EXTENDS TlsConfig, TLAPS

Reading(c) == at[c] \in {"cert", "key"}

\* sync.Once: whoever reads the files does so alone, and the outcome is there
\* from the end of the load on.
OnceInv ==
  /\ \A c \in Callers : Reading(c) => once = "running"
  /\ \A c \in Callers, d \in Callers : Reading(c) /\ Reading(d) => c = d
  /\ once = "done" <=> outcome # None

\* Answers are copies of the outcome.
AnswerInv == \A c \in Callers : answer[c] \in {None, outcome}

\* As long as nothing has disturbed the load, what was read is on the disk.
QuietInv ==
  /\ \A c \in Callers : at[c] = "cert" /\ ~disturbed => cert = key /\ cert # 0
  /\ \A c \in Callers : at[c] = "key" =>
       certBytes # 0 /\ (~disturbed => certBytes = key)
  /\ ErrorHasCause

\* Until a reload, the requirement is the one of the Content in force, and the
\* files are read only if that one names them.
SettingsInv ==
  /\ settings = "none" => once = "new" /\ \A c \in Callers : at[c] = "away"
  /\ settings # "none" /\ ~reloaded => settings = TLSRequirement(content)
  /\ ~reloaded => \A c \in Callers : Reading(c) => content.tls
  /\ RequirementMatchesCertificate

IInv == TTypeOK /\ OnceInv /\ AnswerInv /\ QuietInv /\ SettingsInv

-----------------------------------------------------------------------------

\* The kinds of an outcome tell it apart.
LEMMA Kinds ==
  /\ None # NotEnabled /\ None # LoadError /\ NotEnabled # LoadError
  /\ \A i : Pair(i) \notin {None, NotEnabled, LoadError}
BY DEF None, NotEnabled, LoadError, Pair

LEMMA InitIInv == TInit => IInv
<1> SUFFICES ASSUME TInit PROVE IInv
  OBVIOUS
<1> USE DEF TInit
<1>1. TTypeOK
  <2>1. {0, 1} \subseteq 0 .. Issues
    BY TlsAssumption
  <2>2. answer \in [Callers -> Outcomes] /\ outcome \in Outcomes
    BY DEF Outcomes
  <2> QED
    BY <2>1, <2>2 DEF TTypeOK
<1>2. OnceInv /\ AnswerInv
  <2>1. \A c \in Callers : ~Reading(c) /\ answer[c] = None
    BY DEF Reading
  <2> QED
    BY <2>1 DEF OnceInv, AnswerInv
<1>3. QuietInv
  BY Kinds DEF QuietInv, ErrorHasCause
<1>4. SettingsInv
  BY DEF SettingsInv, RequirementMatchesCertificate, Reading
<1> QED
  BY <1>1, <1>2, <1>3, <1>4 DEF IInv

\* Listen, Reload and Renew touch no call.
LEMMA OutsideSteps ==
  ASSUME IInv, Listen \/ Reload \/ Renew
  PROVE  IInv'
<1> USE DEF IInv, TTypeOK
<1>1. CASE Listen
  <2> USE <1>1 DEF Listen
  <2>1. TLSRequirement(content) \in Requirements
    BY DEF TLSRequirement, Requirements
  <2>2. OnceInv' /\ AnswerInv' /\ QuietInv'
    BY DEF OnceInv, AnswerInv, QuietInv, Reading, ErrorHasCause, files
  <2>3. settings' # "none" /\ settings' \in Requirements
    BY <2>1 DEF Requirements
  <2>4. outcome = None
    BY DEF SettingsInv, OnceInv
  <2>5. \A c \in Callers : at[c] = "away"
    BY DEF SettingsInv
  <2>6. SettingsInv'
    BY <2>3, <2>4, <2>5 DEF SettingsInv, RequirementMatchesCertificate, Reading,
       TLSRequirement
  <2>7. TTypeOK'
    BY <2>3 DEF files
  <2> QED
    BY <2>2, <2>6, <2>7
<1>2. CASE Reload
  BY <1>2 DEF Reload, OnceInv, AnswerInv, QuietInv, SettingsInv, Reading,
     ErrorHasCause, RequirementMatchesCertificate, files
<1>3. CASE Renew
  <2> USE <1>3 DEF Renew
  <2>1. /\ TTypeOK'
        /\ UNCHANGED <<at, content, settings, reloaded, certBytes, once, outcome, answer>>
        /\ disturbed' = (disturbed \/ once = "running")
    BY TlsAssumption
  <2>2. OnceInv' /\ AnswerInv' /\ SettingsInv'
    BY <2>1 DEF OnceInv, AnswerInv, SettingsInv, Reading, RequirementMatchesCertificate
  <2>3. \A c \in Callers : Reading(c) => disturbed'
    BY <2>1 DEF OnceInv
  <2>4. QuietInv'
    BY <2>1, <2>3 DEF QuietInv, Reading, ErrorHasCause
  <2> QED
    BY <2>1, <2>2, <2>4
<1> QED
  BY <1>1, <1>2, <1>3

\* The step that ends the load, with an outcome that fits what was read.
LEMMA KeepStep ==
  ASSUME IInv, NEW c \in Callers, NEW result \in Outcomes \ {None},
         Keep(c, result),
         (once = "new" /\ at[c] = "once") \/ Reading(c),
         settings # "none",
         UNCHANGED <<content, settings, reloaded, files, disturbed, answer>>,
         certBytes' \in 0 .. Issues,
         result = LoadError => disturbed,
         ~reloaded => (result = NotEnabled <=> ~content.tls)
  PROVE  IInv'
<1> USE DEF Keep, Goto, IInv, TTypeOK, files
<1>1. /\ at' = [at EXCEPT ![c] = "once"]
      /\ outcome' = result /\ once' = "done"
      /\ at'[c] = "once" /\ \A d \in Callers : d # c => at'[d] = at[d]
  OBVIOUS
<1>2. TTypeOK'
  BY <1>1
<1>3. \A d \in Callers : ~Reading(d)'
  BY <1>1 DEF OnceInv, Reading
<1>4. outcome = None
  BY DEF OnceInv
<1>5. OnceInv' /\ AnswerInv'
  BY <1>1, <1>3, <1>4 DEF OnceInv, AnswerInv
<1>6. QuietInv'
  BY <1>1, <1>3 DEF QuietInv, ErrorHasCause, Reading
<1>7. UNCHANGED <<content, settings, reloaded>>
  OBVIOUS
<1>8. ~reloaded => settings = TLSRequirement(content)
  BY DEF SettingsInv
<1>9. RequirementMatchesCertificate'
  BY <1>1, <1>7, <1>8 DEF RequirementMatchesCertificate, TLSRequirement
<1>10. SettingsInv'
  BY <1>1, <1>3, <1>7, <1>8, <1>9 DEF SettingsInv, TLSRequirement
<1> QED
  BY <1>2, <1>5, <1>6, <1>10

LEMMA CallSteps ==
  ASSUME IInv, NEW c \in Callers, Ask(c) \/ GetTLSConfig(c)
  PROVE  IInv'
<1> USE DEF IInv, TTypeOK, files
<1>0. at[c] # "away" => settings # "none"
  BY DEF SettingsInv
<1>1. CASE Ask(c)
  <2> USE <1>1 DEF Ask, Goto
  <2>1. \A d \in Callers : at'[d] = at[d] \/ (at[d] = "away" /\ at'[d] = "once")
    OBVIOUS
  <2> QED
    BY <2>1 DEF OnceInv, AnswerInv, QuietInv, SettingsInv, Reading, ErrorHasCause,
       RequirementMatchesCertificate
<1>2. CASE Begin(c) /\ content.tls
  <2> USE <1>2 DEF Begin, Goto
  <2>1. /\ at'[c] = "cert" /\ \A d \in Callers : d # c => at'[d] = at[d]
        /\ once' = "running" /\ disturbed' = (cert # key \/ cert = 0)
        /\ outcome = None
    BY DEF OnceInv
  <2>2. \A d \in Callers : ~Reading(d)
    BY DEF OnceInv
  <2>3. TTypeOK'
    OBVIOUS
  <2>4. OnceInv' /\ AnswerInv'
    BY <2>1, <2>2 DEF OnceInv, AnswerInv, Reading
  <2>5. QuietInv'
    BY <2>1, <2>2, Kinds DEF QuietInv, ErrorHasCause, Reading
  <2>6. SettingsInv'
    BY <1>0, <2>1 DEF SettingsInv, RequirementMatchesCertificate, TLSRequirement
  <2> QED
    BY <2>3, <2>4, <2>5, <2>6
<1>3. CASE Begin(c) /\ ~content.tls
  <2>1. NotEnabled \in Outcomes \ {None}
    BY Kinds DEF Outcomes
  <2> QED
    BY <1>0, <1>3, <2>1, Kinds, KeepStep DEF Begin
<1>4. CASE ReadCert(c) /\ cert = 0
  <2>1. LoadError \in Outcomes \ {None}
    BY Kinds DEF Outcomes
  <2>2. disturbed
    BY <1>4 DEF ReadCert, QuietInv
  <2>3. ~reloaded => content.tls
    BY <1>4 DEF ReadCert, SettingsInv, Reading
  <2> QED
    BY <1>0, <1>4, <2>1, <2>2, <2>3, Kinds, KeepStep DEF ReadCert, Reading
<1>5. CASE ReadCert(c) /\ cert # 0
  <2> USE <1>5 DEF ReadCert, Goto
  <2>1. /\ at'[c] = "key" /\ \A d \in Callers : d # c => at'[d] = at[d]
        /\ certBytes' = cert
    OBVIOUS
  <2>2. \A d \in Callers : d # c => ~Reading(d)
    BY DEF OnceInv, Reading
  <2>3. TTypeOK'
    OBVIOUS
  <2>4. OnceInv' /\ AnswerInv'
    BY <2>1, <2>2 DEF OnceInv, AnswerInv, Reading
  <2>5. QuietInv'
    BY <2>1, <2>2 DEF QuietInv, ErrorHasCause, Reading
  <2>6. SettingsInv'
    BY <1>0, <2>1 DEF SettingsInv, RequirementMatchesCertificate, Reading,
       TLSRequirement
  <2> QED
    BY <2>3, <2>4, <2>5, <2>6
<1>6. CASE ReadKey(c)
  <2> DEFINE result == IF key = certBytes THEN Pair(key) ELSE LoadError
  <2>1. certBytes # 0 /\ (~disturbed => certBytes = key)
    BY <1>6 DEF ReadKey, QuietInv
  <2>2. result \in Outcomes \ {None}
    BY <2>1, Kinds DEF Outcomes
  <2>3. (result = LoadError => disturbed) /\ result # NotEnabled
    BY <2>1, Kinds
  <2>4. Keep(c, result) /\ certBytes' \in 0 .. Issues
    BY <1>6 DEF ReadKey
  <2>5. ~reloaded => content.tls
    BY <1>6 DEF ReadKey, SettingsInv, Reading
  <2> HIDE DEF result
  <2> QED
    BY <1>0, <1>6, <2>2, <2>3, <2>4, <2>5, KeepStep DEF ReadKey, Reading
<1>7. CASE Return(c)
  <2> USE <1>7 DEF Return, Goto
  <2>1. /\ at'[c] = "away" /\ \A d \in Callers : d # c => at'[d] = at[d]
        /\ answer'[c] = outcome /\ \A d \in Callers : d # c => answer'[d] = answer[d]
    OBVIOUS
  <2>2. TTypeOK' /\ OnceInv' /\ AnswerInv'
    BY <2>1 DEF OnceInv, AnswerInv, Reading
  <2>3. QuietInv'
    BY <2>1 DEF QuietInv, ErrorHasCause
  <2>4. \A d \in Callers : Reading(d)' => Reading(d)
    BY <2>1 DEF Reading
  <2>5. UNCHANGED <<content, settings, reloaded, once, outcome>> /\ settings # "none"
    BY <1>0
  <2>6. RequirementMatchesCertificate' /\ (settings # "none" /\ ~reloaded => settings = TLSRequirement(content))'
    BY <2>5 DEF RequirementMatchesCertificate, SettingsInv, TLSRequirement
  <2>7. SettingsInv'
    BY <2>4, <2>5, <2>6 DEF SettingsInv
  <2> QED
    BY <2>2, <2>3, <2>7
<1> QED
  BY <1>1, <1>2, <1>3, <1>4, <1>5, <1>6, <1>7 DEF GetTLSConfig

LEMMA IInvAlways == TSpec => []IInv
<1>1. IInv /\ [TNext]_tvars => IInv'
  <2> SUFFICES ASSUME IInv, [TNext]_tvars PROVE IInv'
    OBVIOUS
  <2>1. CASE UNCHANGED tvars
    BY <2>1 DEF tvars, files, IInv, TTypeOK, OnceInv, AnswerInv, QuietInv,
       SettingsInv, Reading, ErrorHasCause, RequirementMatchesCertificate
  <2> QED
    BY <2>1, OutsideSteps, CallSteps DEF TNext
<1> QED
  BY <1>1, InitIInv, PTL DEF TSpec

-----------------------------------------------------------------------------

\* Types, and no pair of an issue that was never written is kept.
THEOREM TlsTypeCorrect == TSpec => []TTypeOK
BY IInvAlways, PTL DEF IInv

\* GetTLSConfig gives every caller the same answer.
THEOREM EveryoneGetsOneAnswer == TSpec => []OneAnswer
<1>1. IInv => OneAnswer
  BY DEF IInv, AnswerInv, OneAnswer
<1> QED
  BY <1>1, IInvAlways, PTL

\* An error is kept only if the files were absent or renewed while the first
\* call read them.
THEOREM KeptErrorHasCause == TSpec => []ErrorHasCause
BY IInvAlways, PTL DEF IInv, QuietInv

\* Without a reload the requirement of Listen and the outcome of the first TLS
\* connection are of one Content (server.go:83-91, 302-305).
THEOREM RequirementIsOfTheCertificate == TSpec => []RequirementMatchesCertificate
BY IInvAlways, PTL DEF IInv, SettingsInv

\* After the first load nothing writes tlsConfig and tlsError again.
OutcomeIsFinal == [][once = "done" => UNCHANGED <<once, outcome>>]_tvars

\* What the first load has ended with, an error included, is what the process
\* answers until it is restarted: neither a reload nor a renewal of the files
\* changes it (server.go:333-341).
THEOREM FirstOutcomeIsFinal == TSpec => OutcomeIsFinal
<1>1. IInv /\ [TNext]_tvars => [once = "done" => UNCHANGED <<once, outcome>>]_tvars
  <2> SUFFICES ASSUME IInv, TNext, once = "done"
               PROVE  UNCHANGED <<once, outcome>>
    OBVIOUS
  <2>1. \A c \in Callers : at[c] \notin {"cert", "key"}
    BY DEF IInv, OnceInv, Reading
  <2> QED
    BY <2>1 DEF TNext, Listen, Reload, Renew, Ask, GetTLSConfig, Begin, ReadCert,
       ReadKey, Return
<1> QED
  BY <1>1, IInvAlways, PTL DEF TSpec, OutcomeIsFinal

=============================================================================
