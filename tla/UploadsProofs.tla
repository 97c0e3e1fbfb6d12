--------------------------- MODULE UploadsProofs ---------------------------
(***************************************************************************)
(* Proofs about Uploads for any number of files, paths and writes: types,  *)
(* and that a file is sent at most once and whole.                         *)
(***************************************************************************)
EXTENDS Uploads, SequenceTheorems, TLAPS

Unsent == {"new", "open", "sending"}

\* Until its message is sent a file holds all that was written, nothing of
\* which was read, and no message is about it.
UnsentInv ==
  \A f \in Files : at[f] \in Unsent =>
    /\ content[f] = written[f]
    /\ position[f] = 0
    /\ \A i \in DOMAIN sent : sent[i].of # f

\* The wrapper misses no write, for none of them fails.
CountInv == lengthWritten = written

IInv == UTypeOK /\ UnsentInv /\ CountInv /\ SentOnceAndWhole

\* The control points of files are tested and set through these two.
USE DEF At, Goto, buffers, counts

-----------------------------------------------------------------------------

LEMMA InitIInv == UInit => IInv
<1> USE UploadsAssumption DEF UInit, Files
<1>1. UInit => UTypeOK
  BY DEF UTypeOK, Nothing, NoLine, Line
<1>2. UInit => UnsentInv
  BY DEF UnsentInv
<1>3. UInit => SentOnceAndWhole
  BY DEF SentOnceAndWhole
<1>4. UInit => CountInv
  BY DEF CountInv
<1> QED
  BY <1>1, <1>2, <1>3, <1>4 DEF IInv

LEMMA LineType ==
  ASSUME UTypeOK, NEW f \in Files, NEW outcome \in {"sent", "failed"}, Closed(f, outcome)
  PROVE  log' \in [Files -> [outcome : {"none", "sent", "failed"}, lengthWritten : 0 .. MaxWrites]]
BY DEF Closed, Line, UTypeOK

\* A send appends the whole content of a file that was never sent.
LEMMA SendAppendsWhole ==
  ASSUME IInv, NEW f \in Files, MailSent(f) \/ TelegramSent(f) \/ ReplyLost(f)
  PROVE  IInv'
<1> USE UploadsAssumption
<1> DEFINE m == Message(f)
<1>1. /\ at[f] = "sending"
      /\ at' = [at EXCEPT ![f] = at'[f]]
      /\ at'[f] \in {"create", "closed"}
      /\ sent' = Append(sent, m)
      /\ UNCHANGED <<path, written, lengthWritten, dict>>
  BY DEF MailSent, TelegramSent, ReplyLost, Closed, IInv, UTypeOK
<1>2. /\ content[f] = written[f]
      /\ position[f] = 0
      /\ \A i \in DOMAIN sent : sent[i].of # f
  BY <1>1 DEF IInv, UnsentInv, Unsent
<1>3. m = [of |-> f, path |-> path[f], from |-> 0, to |-> written[f]]
  BY <1>2 DEF Message, Start
<1>4. m \in Messages
  BY <1>3 DEF Messages, IInv, UTypeOK
<1>5. sent' \in Seq(Messages) /\ Len(sent') = Len(sent) + 1
  BY <1>1, <1>4 DEF IInv, UTypeOK
<1>6. /\ DOMAIN sent' = DOMAIN sent \cup {Len(sent) + 1}
      /\ \A i \in DOMAIN sent : sent'[i] = sent[i]
      /\ sent'[Len(sent) + 1] = m
      /\ Len(sent) + 1 \notin DOMAIN sent
  BY <1>1, <1>4 DEF IInv, UTypeOK
<1>7. UTypeOK'
  <2>1. /\ content \in [Files -> 0 .. MaxWrites]
        /\ position \in [Files -> 0 .. MaxWrites]
        /\ \A g \in Files : position[g] <= content[g]
        /\ 0 \in 0 .. MaxWrites
    BY DEF IInv, UTypeOK
  <2>2. /\ content' \in [Files -> 0 .. MaxWrites]
        /\ position' \in [Files -> 0 .. MaxWrites]
        /\ \A g \in Files : position'[g] <= content'[g]
    <3>1. CASE MailSent(f)
      <4>1. content' = [content EXCEPT ![f] = 0] /\ position' = [position EXCEPT ![f] = 0]
        BY <3>1 DEF MailSent
      <4> QED
        BY <2>1, <4>1
    <3>2. CASE (TelegramSent(f) \/ ReplyLost(f)) /\ AsText(f)
      <4>1. content' = content /\ position' = [position EXCEPT ![f] = position[f]]
        BY <3>2 DEF TelegramSent, ReplyLost
      <4> QED
        BY <2>1, <4>1
    <3>3. CASE (TelegramSent(f) \/ ReplyLost(f)) /\ ~AsText(f)
      <4>1. content' = content /\ position' = [position EXCEPT ![f] = content[f]]
        BY <3>3 DEF TelegramSent, ReplyLost
      <4> QED
        BY <2>1, <4>1
    <3> QED
      BY <3>1, <3>2, <3>3
  <2>3. log' \in [Files -> [outcome : {"none", "sent", "failed"}, lengthWritten : 0 .. MaxWrites]]
    <3>1. CASE MailSent(f)
      BY <3>1, LineType DEF MailSent, IInv
    <3>2. CASE TelegramSent(f)
      BY <3>2 DEF TelegramSent, IInv, UTypeOK
    <3>3. CASE ReplyLost(f)
      BY <3>3, LineType DEF ReplyLost, IInv
    <3> QED
      BY <3>1, <3>2, <3>3
  <2> QED
    BY <1>1, <1>5, <2>1, <2>2, <2>3 DEF IInv, UTypeOK
<1>8. UnsentInv'
  <2> SUFFICES ASSUME NEW g \in Files, at'[g] \in Unsent
               PROVE  /\ content'[g] = written'[g]
                      /\ position'[g] = 0
                      /\ \A i \in DOMAIN sent' : sent'[i].of # g
    BY DEF UnsentInv
  <2>1. g # f /\ at[g] \in Unsent
    BY <1>1 DEF IInv, UTypeOK, Unsent
  <2>2. content'[g] = content[g] /\ position'[g] = position[g]
    BY <2>1 DEF MailSent, TelegramSent, ReplyLost, IInv, UTypeOK
  <2>3. \A i \in DOMAIN sent' : sent'[i].of # g
    BY <1>3, <1>6, <2>1 DEF IInv, UnsentInv
  <2> QED
    BY <1>1, <2>1, <2>2, <2>3 DEF IInv, UnsentInv
<1>9. SentOnceAndWhole'
  BY <1>1, <1>2, <1>3, <1>6 DEF IInv, SentOnceAndWhole
<1>10. CountInv'
  BY <1>1 DEF IInv, CountInv
<1> QED
  BY <1>7, <1>8, <1>9, <1>10 DEF IInv

\* Every other step of a file leaves the messages alone.
LEMMA TransferKeepsIInv ==
  ASSUME IInv, NEW f \in Files, Transfer(f)
  PROVE  IInv'
<1> USE UploadsAssumption
<1>1. CASE MailSent(f) \/ TelegramSent(f) \/ ReplyLost(f)
  BY <1>1, SendAppendsWhole
<1>2. CASE OpenFile(f)
  <2>1. UTypeOK'
    BY <1>2 DEF OpenFile, IInv, UTypeOK
  <2> QED
    BY <1>2, <2>1 DEF OpenFile, IInv, UTypeOK, UnsentInv, Unsent, CountInv, SentOnceAndWhole
<1>3. CASE Create(f)
  <2>1. UTypeOK'
    BY <1>3 DEF Create, Empty, IInv, UTypeOK
  <2> QED
    BY <1>3, <2>1 DEF Create, IInv, UTypeOK, UnsentInv, Unsent, CountInv, SentOnceAndWhole
<1>4. CASE Write(f)
  <2>1. UTypeOK'
    BY <1>4 DEF Write, IInv, UTypeOK, UnsentInv, Unsent, CountInv
  <2>2. UnsentInv'
    BY <1>4 DEF Write, IInv, UTypeOK, UnsentInv, Unsent
  <2>3. SentOnceAndWhole'
    <3>4. \A i \in DOMAIN sent : sent[i] \in Messages
      BY DEF IInv, UTypeOK
    <3>1. \A i \in DOMAIN sent : sent[i].of # f /\ sent[i].of \in Files
      BY <1>4, <3>4 DEF Write, IInv, UnsentInv, Unsent, Messages
    <3>2. \A g \in Files : g # f => written'[g] = written[g]
      BY <1>4 DEF Write, IInv, UTypeOK
    <3> QED
      BY <1>4, <3>1, <3>2 DEF Write, IInv, SentOnceAndWhole
  <2>4. CountInv'
    BY <1>4 DEF Write, IInv, UTypeOK, CountInv
  <2> QED
    BY <2>1, <2>2, <2>3, <2>4 DEF IInv
<1>5. CASE Close(f)
  <2>1. UTypeOK'
    BY <1>5 DEF Close, IInv, UTypeOK
  <2> QED
    BY <1>5, <2>1 DEF Close, IInv, UTypeOK, UnsentInv, Unsent, CountInv, SentOnceAndWhole
<1>6. CASE SendFails(f)
  <2>1. PICK n \in Start(f) .. content[f] :
          position' = [position EXCEPT ![f] = IF AsText(f) THEN @ ELSE n]
    BY <1>6 DEF SendFails
  <2>2. Start(f) \in 0 .. content[f]
    BY DEF Start, IInv, UTypeOK
  <2>3. n \in 0 .. MaxWrites /\ n <= content[f]
    BY <2>1, <2>2 DEF IInv, UTypeOK
  <2>6. log' \in [Files -> [outcome : {"none", "sent", "failed"}, lengthWritten : 0 .. MaxWrites]]
    BY <1>6, LineType DEF SendFails, IInv
  <2>4. UTypeOK'
    BY <1>6, <2>1, <2>3, <2>6 DEF SendFails, Closed, IInv, UTypeOK
  <2>5. UnsentInv'
    BY <1>6, <2>1 DEF SendFails, Closed, IInv, UTypeOK, UnsentInv, Unsent
  <2> QED
    BY <1>6, <2>4, <2>5 DEF SendFails, Closed, IInv, CountInv, SentOnceAndWhole
<1>7. CASE RecordName(f)
  <2>1. UTypeOK'
    BY <1>7 DEF RecordName, Empty, IInv, UTypeOK
  <2> QED
    BY <1>7, <2>1 DEF RecordName, IInv, UTypeOK, UnsentInv, Unsent, CountInv, SentOnceAndWhole
<1>8. CASE RecordSize(f)
  <2>1. dict' \in [Paths -> [kind : {"nothing", "dir", "file"}, size : 0 .. MaxWrites]]
    BY <1>8 DEF RecordSize, Closed, IInv, UTypeOK
  <2>3. log' \in [Files -> [outcome : {"none", "sent", "failed"}, lengthWritten : 0 .. MaxWrites]]
    BY <1>8, LineType DEF RecordSize, IInv
  <2>2. UTypeOK'
    BY <1>8, <2>1, <2>3 DEF RecordSize, Closed, IInv, UTypeOK
  <2> QED
    BY <1>8, <2>2 DEF RecordSize, Closed, IInv, UTypeOK, UnsentInv, Unsent, CountInv, SentOnceAndWhole
<1> QED
  BY <1>1, <1>2, <1>3, <1>4, <1>5, <1>6, <1>7, <1>8 DEF Transfer

LEMMA NextKeepsIInv == IInv /\ [UNext]_uvars => IInv'
<1> SUFFICES ASSUME IInv, [UNext]_uvars
             PROVE  IInv'
  OBVIOUS
<1>1. ASSUME NEW f \in Files, Transfer(f)
      PROVE  IInv'
  BY <1>1, TransferKeepsIInv
<1>2. ASSUME NEW p \in Paths, Mkdir(p)
      PROVE  IInv'
  <2>1. UTypeOK'
    BY <1>2, UploadsAssumption DEF Mkdir, Dir, IInv, UTypeOK
  <2> QED
    BY <1>2, <2>1 DEF Mkdir, IInv, UnsentInv, CountInv, SentOnceAndWhole
<1>3. CASE UNCHANGED uvars
  BY <1>3 DEF uvars, IInv, UTypeOK, UnsentInv, CountInv, SentOnceAndWhole
<1> QED
  BY <1>1, <1>2, <1>3 DEF UNext

-----------------------------------------------------------------------------

\* Every variable keeps its type, and File.At never leaves the content.
THEOREM UploadsTypeCorrect == USpec => []UTypeOK
<1>1. IInv => UTypeOK
  BY DEF IInv
<1> QED
  BY InitIInv, NextKeepsIInv, <1>1, PTL DEF USpec

\* Whatever fails and whatever other clients do, Close sends a file at most
\* once, and from its first write to its last.
THEOREM SentWhole == USpec => []SentOnceAndWhole
<1>1. IInv => SentOnceAndWhole
  BY DEF IInv
<1> QED
  BY InitIInv, NextKeepsIInv, <1>1, PTL DEF USpec

-----------------------------------------------------------------------------

\* Between the send and the recording of the size Close still holds what was
\* sent.
MidwayInv ==
  \A f \in Files : at[f] \in {"create", "size"} =>
    /\ f \in Telegrams
    /\ \E i \in DOMAIN sent :
         sent[i].of = f /\ sent[i].path = path[f] /\ sent[i].to = content[f]

\* A name that was recorded stays in the list.
NamesInv ==
  /\ \A i \in DOMAIN sent : sent[i].path = path[sent[i].of]
  /\ \A f \in Telegrams :
       at[f] = "size" \/ log[f].outcome = "sent" => dict[path[f]] # Nothing

\* The list shows sizes that were confirmed, and only for names it knows.
SizesInv ==
  \A p \in Paths :
    /\ dict[p].size \in ConfirmedSizes(p) \cup {0}
    /\ dict[p].kind = "nothing" => dict[p] = Nothing

\* A line is written at the end of the transfer, for a success after its
\* message.
LinesInv ==
  \A f \in Files :
    /\ log[f].outcome # "none" <=> at[f] = "closed"
    /\ log[f].outcome # "none" => log[f].lengthWritten = written[f]
    /\ log[f].outcome = "sent" => \E i \in DOMAIN sent : sent[i].of = f

RecordsInv == MidwayInv /\ NamesInv /\ SizesInv /\ LinesInv

LEMMA InitRecords == UInit => RecordsInv
BY UploadsAssumption
   DEF UInit, Files, RecordsInv, MidwayInv, NamesInv, SizesInv, LinesInv, Nothing,
       NoLine, Line

LEMMA MessagesTyped ==
  ASSUME IInv
  PROVE  \A i \in DOMAIN sent : sent[i] \in Messages
BY DEF IInv, UTypeOK

\* A send adds one message and leaves the list alone.
LEMMA SendKeepsRecords ==
  ASSUME IInv, RecordsInv, NEW f \in Files, MailSent(f) \/ TelegramSent(f) \/ ReplyLost(f)
  PROVE  RecordsInv'
<1> USE UploadsAssumption DEF RecordsInv
<1> DEFINE m == Message(f)
           n == Len(sent) + 1
<1>1. /\ at[f] = "sending"
      /\ at'[f] \in {"create", "closed"}
      /\ at'[f] = "create" => f \in Telegrams /\ content' = content
      /\ \A g \in Files : g # f => at'[g] = at[g] /\ content'[g] = content[g]
      /\ sent' = Append(sent, m)
      /\ \A g \in Files : g # f => log'[g] = log[g]
      /\ log[f].outcome = "none"
      /\ UNCHANGED <<path, written, dict>>
  BY DEF MailSent, TelegramSent, ReplyLost, Closed, IInv, UTypeOK, LinesInv
<1>2. m.of = f /\ m.path = path[f] /\ m.to = content[f]
  BY DEF Message
<1>3. /\ DOMAIN sent' = DOMAIN sent \cup {n}
      /\ \A i \in DOMAIN sent : sent'[i] = sent[i]
      /\ sent'[n] = m
  BY <1>1 DEF IInv, UTypeOK
<1>4. \A i \in DOMAIN sent : sent[i].of # f /\ sent[i].of \in Files
  BY <1>1, MessagesTyped DEF IInv, UnsentInv, Unsent, Messages
<1>5. MidwayInv'
  BY <1>1, <1>2, <1>3, <1>4 DEF MidwayInv
<1>6. NamesInv'
  <2>1. \A i \in DOMAIN sent' : sent'[i].path = path'[sent'[i].of]
    BY <1>1, <1>2, <1>3, <1>4 DEF NamesInv
  <2>2. log'[f].outcome = "sent" => f \in Mails
    BY <1>1 DEF MailSent, TelegramSent, ReplyLost, Closed, Line, IInv, UTypeOK
  <2>3. ASSUME NEW g \in Telegrams, at'[g] = "size" \/ log'[g].outcome = "sent"
        PROVE  dict'[path'[g]] # Nothing
    <3>1. g \in Files /\ g # f
      BY <1>1, <2>2, <2>3 DEF Files
    <3> QED
      BY <1>1, <2>3, <3>1 DEF NamesInv
  <2> QED
    BY <2>1, <2>3 DEF NamesInv
<1>7. SizesInv'
  <2>1. ASSUME NEW p \in Paths PROVE ConfirmedSizes(p) \subseteq ConfirmedSizes(p)'
    <3>1. \A i \in DOMAIN sent : log'[sent[i].of] = log[sent[i].of]
      BY <1>1, <1>4
    <3> QED
      BY <1>3, <3>1 DEF ConfirmedSizes
  <2> QED
    BY <1>1, <2>1 DEF SizesInv
<1>8. LinesInv'
  <2>1. ASSUME NEW g \in Files, g # f
        PROVE  log'[g] = log[g] /\ at'[g] = at[g]
    BY <1>1, <2>1
  <2>2. CASE MailSent(f) \/ ReplyLost(f)
    <3>1. /\ log'[f] \in {Line("sent", written[f]), Line("failed", written[f])}
          /\ at'[f] = "closed"
      BY <2>2 DEF MailSent, ReplyLost, Closed, IInv, UTypeOK, CountInv
    <3>2. log'[f].outcome \in {"sent", "failed"} /\ log'[f].lengthWritten = written[f]
      BY <3>1 DEF Line
    <3> QED
      BY <1>1, <1>2, <1>3, <2>1, <3>1, <3>2 DEF LinesInv
  <2>3. CASE TelegramSent(f)
    <3>1. log' = log /\ log[f].outcome = "none" /\ at'[f] = "create"
      BY <1>1, <2>3 DEF TelegramSent, IInv, UTypeOK
    <3> QED
      BY <1>1, <1>2, <1>3, <2>1, <3>1 DEF LinesInv
  <2> QED
    BY <2>2, <2>3
<1> QED
  BY <1>5, <1>6, <1>7, <1>8

\* The other steps of Close.
LEMMA RecordingKeepsRecords ==
  ASSUME IInv, RecordsInv, NEW f \in Files,
         SendFails(f) \/ RecordName(f) \/ RecordSize(f)
  PROVE  RecordsInv'
<1> USE UploadsAssumption DEF RecordsInv
<1>1. \A i \in DOMAIN sent : sent[i].of \in Files /\ sent[i].path \in Paths
  BY MessagesTyped DEF Messages
<1>2. \A g \in Files : log[g].outcome = "sent" => log'[g] = log[g]
  BY DEF SendFails, RecordName, RecordSize, Closed, LinesInv, IInv, UTypeOK
<1>9. \A p \in Paths : ConfirmedSizes(p) \subseteq ConfirmedSizes(p)'
  BY <1>1, <1>2 DEF ConfirmedSizes, SendFails, RecordName, RecordSize
<1>3. path[f] \in Paths /\ sent' = sent /\ path' = path /\ written' = written
  BY DEF SendFails, RecordName, RecordSize, IInv, UTypeOK
<1>4. /\ at'[f] \in {"size", "closed"}
      /\ \A g \in Files : g # f => at'[g] = at[g] /\ content'[g] = content[g]
      /\ at'[f] = "size" => content' = content /\ at[f] = "create"
  BY DEF SendFails, RecordName, RecordSize, Closed, IInv, UTypeOK
<1>5. MidwayInv'
  BY <1>3, <1>4 DEF MidwayInv
<1>6. CASE SendFails(f)
  <2>1. dict' = dict /\ at[f] = "sending" /\ at'[f] = "closed"
    BY <1>6 DEF SendFails, Closed, IInv, UTypeOK
  <2>2. \A i \in DOMAIN sent : sent[i].of # f
    BY <2>1 DEF IInv, UnsentInv, Unsent
  <2>3. /\ \A g \in Files : g # f => log'[g] = log[g]
        /\ log'[f] = Line("failed", written[f])
    BY <1>6 DEF SendFails, Closed, IInv, UTypeOK, CountInv
  <2>4. log'[f].outcome = "failed" /\ log'[f].lengthWritten = written[f]
    BY <2>3 DEF Line
  <2>5. NamesInv'
    BY <1>3, <1>4, <2>1, <2>3, <2>4 DEF NamesInv, Files
  <2>6. SizesInv'
    BY <1>9, <2>1 DEF SizesInv
  <2>7. LinesInv'
    BY <1>3, <1>4, <2>1, <2>2, <2>3, <2>4 DEF LinesInv
  <2> QED
    BY <1>5, <2>5, <2>6, <2>7
<1>7. CASE RecordName(f)
  <2>1. /\ at[f] = "create" /\ at'[f] = "size" /\ log' = log
        /\ dict' = [dict EXCEPT ![path[f]] = Empty]
    BY <1>7 DEF RecordName, IInv, UTypeOK
  <2>2. /\ dict'[path[f]] = Empty
        /\ \A p \in Paths : p # path[f] => dict'[p] = dict[p]
    BY <1>3, <2>1 DEF IInv, UTypeOK
  <2>3. Empty # Nothing /\ Empty.size = 0 /\ Empty.kind # "nothing"
    BY DEF Empty, Nothing
  <2>4. NamesInv'
    <3>1. ASSUME NEW g \in Telegrams, at'[g] = "size" \/ log'[g].outcome = "sent"
          PROVE  dict'[path'[g]] # Nothing
      <4>1. g \in Files /\ path[g] \in Paths
        BY DEF Files, IInv, UTypeOK
      <4>2. CASE path[g] = path[f]
        BY <1>3, <2>2, <2>3, <4>2
      <4>3. CASE path[g] # path[f]
        BY <1>3, <1>4, <2>1, <2>2, <3>1, <4>1, <4>3 DEF NamesInv
      <4> QED
        BY <4>2, <4>3
    <3> QED
      BY <1>3, <3>1 DEF NamesInv
  <2>5. SizesInv'
    BY <1>9, <2>2, <2>3 DEF SizesInv
  <2>6. LinesInv'
    BY <1>3, <1>4, <2>1 DEF LinesInv
  <2> QED
    BY <1>5, <2>4, <2>5, <2>6
<1>8. CASE RecordSize(f)
  <2>1. /\ at[f] = "size" /\ at'[f] = "closed"
        /\ dict' = IF dict[path[f]] = Nothing THEN dict
                   ELSE [dict EXCEPT ![path[f]].size = content[f]]
    BY <1>8 DEF RecordSize, Closed, IInv, UTypeOK
  <2>2. PICK j \in DOMAIN sent :
          sent[j].of = f /\ sent[j].path = path[f] /\ sent[j].to = content[f]
    BY <2>1 DEF MidwayInv
  <2>8. /\ \A g \in Files : g # f => log'[g] = log[g]
        /\ log'[f] = Line("sent", written[f])
    BY <1>8 DEF RecordSize, Closed, IInv, UTypeOK, CountInv
  <2>9. log'[f].outcome = "sent" /\ log'[f].lengthWritten = written[f]
    BY <2>8 DEF Line
  <2>3. content[f] \in ConfirmedSizes(path[f])'
    BY <1>3, <2>1, <2>2, <2>9 DEF ConfirmedSizes, MidwayInv
  <2>4. /\ \A p \in Paths : p # path[f] => dict'[p] = dict[p]
        /\ dict'[path[f]].kind = dict[path[f]].kind
        /\ dict'[path[f]].size \in {dict[path[f]].size, content[f]}
        /\ dict[path[f]] = Nothing => dict' = dict
    BY <1>3, <2>1 DEF IInv, UTypeOK
  <2>5. ASSUME NEW p \in Paths, dict[p] # Nothing PROVE dict'[p] # Nothing
    <3>1. CASE p = path[f]
      <4>1. dict[p].kind # "nothing"
        BY <2>5 DEF SizesInv
      <4> QED
        BY <2>4, <3>1, <4>1 DEF Nothing
    <3> QED
      BY <2>4, <2>5, <3>1
  <2>6. NamesInv'
    <3>1. ASSUME NEW g \in Telegrams, at'[g] = "size" \/ log'[g].outcome = "sent"
          PROVE  dict'[path'[g]] # Nothing
      <4>1. g \in Files /\ path[g] \in Paths
        BY DEF Files, IInv, UTypeOK
      <4>2. at[g] = "size" \/ log[g].outcome = "sent"
        BY <1>4, <2>1, <2>8, <3>1, <4>1
      <4> QED
        BY <1>3, <2>5, <4>1, <4>2 DEF NamesInv
    <3> QED
      BY <1>3, <3>1 DEF NamesInv
  <2>7. SizesInv'
    <3> SUFFICES ASSUME NEW p \in Paths
                 PROVE  /\ dict'[p].size \in ConfirmedSizes(p)' \cup {0}
                        /\ dict'[p].kind = "nothing" => dict'[p] = Nothing
      BY DEF SizesInv
    <3>1. CASE p = path[f]
      BY <1>3, <1>9, <2>3, <2>4, <3>1 DEF SizesInv
    <3>2. CASE p # path[f]
      BY <1>9, <2>4, <3>2 DEF SizesInv
    <3> QED
      BY <3>1, <3>2
  <2>10. LinesInv'
    BY <1>3, <1>4, <2>1, <2>2, <2>8, <2>9 DEF LinesInv
  <2> QED
    BY <1>5, <2>6, <2>7, <2>10
<1> QED
  BY <1>6, <1>7, <1>8

LEMMA TransferKeepsRecords ==
  ASSUME IInv, RecordsInv, NEW f \in Files, Transfer(f)
  PROVE  RecordsInv'
<1> USE UploadsAssumption DEF RecordsInv
<1>1. CASE MailSent(f) \/ TelegramSent(f) \/ ReplyLost(f)
  BY <1>1, SendKeepsRecords
<1>2. CASE SendFails(f) \/ RecordName(f) \/ RecordSize(f)
  BY <1>2, RecordingKeepsRecords
<1>3. CASE OpenFile(f) \/ Create(f) \/ Write(f) \/ Close(f)
  <2>1. /\ at[f] \in {"new", "open"} /\ at'[f] \in {"open", "sending"}
        /\ \A g \in Files : g # f =>
             /\ at'[g] = at[g] /\ content'[g] = content[g] /\ written'[g] = written[g]
        /\ UNCHANGED <<path, log, sent>>
    BY <1>3 DEF OpenFile, Create, Write, Close, IInv, UTypeOK
  <2>2. \A i \in DOMAIN sent : sent[i].of # f /\ sent[i].of \in Files /\ sent[i].path \in Paths
    BY <2>1, MessagesTyped DEF IInv, UnsentInv, Unsent, Messages
  <2>3. \A p \in Paths : ConfirmedSizes(p)' = ConfirmedSizes(p)
    BY <2>1 DEF ConfirmedSizes
  <2>4. \A p \in Paths : dict'[p] = dict[p] \/ dict'[p] = Empty
    BY <1>3 DEF OpenFile, Create, Write, Close, IInv, UTypeOK
  <2>5. Empty # Nothing /\ Empty.size = 0 /\ Empty.kind # "nothing"
    BY DEF Empty, Nothing
  <2>6. MidwayInv'
    BY <2>1 DEF MidwayInv
  <2>7. NamesInv'
    <3>1. ASSUME NEW g \in Telegrams, at'[g] = "size" \/ log'[g].outcome = "sent"
          PROVE  dict'[path'[g]] # Nothing
      <4>1. g \in Files /\ path[g] \in Paths /\ (at[g] = "size" \/ log[g].outcome = "sent")
        BY <2>1, <3>1 DEF Files, IInv, UTypeOK
      <4> QED
        BY <2>1, <2>4, <2>5, <4>1 DEF NamesInv
    <3> QED
      BY <2>1, <3>1 DEF NamesInv
  <2>8. SizesInv'
    BY <2>3, <2>4, <2>5 DEF SizesInv
  <2>9. LinesInv'
    BY <2>1 DEF LinesInv
  <2> QED
    BY <2>6, <2>7, <2>8, <2>9
<1> QED
  BY <1>1, <1>2, <1>3 DEF Transfer

LEMMA NextKeepsRecords == IInv /\ RecordsInv /\ [UNext]_uvars => RecordsInv'
<1> SUFFICES ASSUME IInv, RecordsInv, [UNext]_uvars
             PROVE  RecordsInv'
  OBVIOUS
<1>1. ASSUME NEW f \in Files, Transfer(f)
      PROVE  RecordsInv'
  BY <1>1, TransferKeepsRecords
<1>2. ASSUME NEW p \in Paths, Mkdir(p)
      PROVE  RecordsInv'
  <2>1. UNCHANGED <<at, buffers, counts, log, sent>>
    BY <1>2 DEF Mkdir
  <2>2. \A q \in Paths : dict'[q] = dict[q] \/ dict'[q] = Dir
    BY <1>2 DEF Mkdir, IInv, UTypeOK
  <2>3. Dir # Nothing /\ Dir.size = 0 /\ Dir.kind # "nothing"
    BY DEF Dir, Nothing
  <2>4. MidwayInv' /\ LinesInv'
    BY <2>1 DEF RecordsInv, MidwayInv, LinesInv
  <2>5. NamesInv'
    BY <2>1, <2>2, <2>3 DEF RecordsInv, NamesInv, Files, IInv, UTypeOK
  <2>6. SizesInv'
    BY <2>1, <2>2, <2>3 DEF RecordsInv, SizesInv, ConfirmedSizes
  <2> QED
    BY <2>4, <2>5, <2>6 DEF RecordsInv
<1>3. CASE UNCHANGED uvars
  BY <1>3 DEF uvars, RecordsInv, MidwayInv, NamesInv, SizesInv, ConfirmedSizes, LinesInv
<1> QED
  BY <1>1, <1>2, <1>3 DEF UNext

LEMMA RecordsAlways == USpec => [](IInv /\ RecordsInv)
BY InitIInv, InitRecords, NextKeepsIInv, NextKeepsRecords, PTL DEF USpec

\* The shared list never shows a size that was not sent and confirmed, and it
\* has the name of every upload that was (telegram.go:150-163, fake_fs.go).
THEOREM ListIsOfSentFiles == USpec => []ListAgreesWithSent
<1>1. RecordsInv => ListAgreesWithSent
  BY DEF RecordsInv, SizesInv, NamesInv, ListAgreesWithSent
<1> QED
  BY <1>1, RecordsAlways, PTL

\* The access log tells what has left the server, but for the outcome of a
\* closing that failed (fslog.go:128-144, 174-182
\* around mail.go:96-117 and telegram.go:119-164).
THEOREM LogTellsWhatWasSent == USpec => []LogAgreesWithSent
<1>1. ASSUME IInv, RecordsInv PROVE LogAgreesWithSent
  <2>1. \A i \in DOMAIN sent : sent[i].to - sent[i].from = written[sent[i].of]
    <3> TAKE i \in DOMAIN sent
    <3>1. sent[i].from = 0 /\ sent[i].to = written[sent[i].of]
      BY <1>1 DEF IInv, SentOnceAndWhole
    <3>2. sent[i].to \in Int
      BY <1>1, MessagesTyped, UploadsAssumption DEF Messages
    <3> QED
      BY <3>1, <3>2
  <2>2. ASSUME NEW f \in Files, log[f].outcome = "none", NEW i \in DOMAIN sent, sent[i].of = f
        PROVE  at[f] \in {"create", "size"}
    <3>1. at[f] # "closed"
      BY <1>1, <2>2 DEF RecordsInv, LinesInv
    <3>2. at[f] \notin Unsent
      BY <1>1, <2>2 DEF IInv, UnsentInv
    <3> QED
      BY <1>1, <3>1, <3>2 DEF IInv, UTypeOK, Unsent
  <2> QED
    BY <1>1, <2>1, <2>2 DEF RecordsInv, LinesInv, LogAgreesWithSent
<1> QED
  BY <1>1, RecordsAlways, PTL

-----------------------------------------------------------------------------

LEMMA InitDelivers == UInit => D!Init
BY DEF UInit, D!Init, Parcels, Answers, NoLine, Line

LEMMA DeliveredIsSent ==
  ASSUME NEW f
  PROVE  D!Delivered(f) <=> \E i \in DOMAIN sent : sent[i].of = f
BY DEF D!Delivered, Parcels

\* A file without a line in the log is one the client was told nothing about.
LEMMA Unanswered ==
  ASSUME IInv, RecordsInv, NEW f \in Files, at[f] # "closed"
  PROVE  Answers[f] = "none"
BY DEF RecordsInv, LinesInv, Answers, IInv, UTypeOK

LEMMA UnsentIsUndelivered ==
  ASSUME IInv, NEW f \in Files, at[f] \in Unsent
  PROVE  ~D!Delivered(f)
BY DeliveredIsSent DEF IInv, UnsentInv

LEMMA ClosedAnswers ==
  ASSUME IInv, NEW f \in Files, NEW outcome, Closed(f, outcome)
  PROVE  Answers' = [Answers EXCEPT ![f] = outcome]
<1>1. log' = [log EXCEPT ![f] = Line(outcome, lengthWritten[f])]
  BY DEF Closed
<1>2. \A g \in Files : log'[g].outcome = IF g = f THEN outcome ELSE log[g].outcome
  BY <1>1 DEF Line, IInv, UTypeOK
<1> QED
  BY <1>2 DEF Answers

\* What is sent is all that was accepted.
LEMMA SendDelivers ==
  ASSUME IInv, RecordsInv, NEW f \in Files, MailSent(f) \/ TelegramSent(f) \/ ReplyLost(f)
  PROVE  D!Deliver(f)
<1> USE UploadsAssumption
<1> DEFINE m == Message(f)
           e == [of |-> f, size |-> written[f]]
<1>1. /\ at[f] = "sending"
      /\ sent' = Append(sent, m)
      /\ written' = written
  BY DEF MailSent, TelegramSent, ReplyLost
<1>2. content[f] = written[f] /\ position[f] = 0
  BY <1>1 DEF IInv, UnsentInv, Unsent
<1>3. m.of = f /\ m.from = 0 /\ m.to = written[f]
  BY <1>2 DEF Message, Start
<1>4. m.to - m.from = written[f]
  BY <1>3 DEF IInv, UTypeOK
<1>5. sent \in Seq(Messages) /\ Len(sent) \in Nat /\ DOMAIN sent = 1 .. Len(sent)
  BY DEF IInv, UTypeOK
<1>6. DOMAIN sent' = 1 .. (Len(sent) + 1)
  BY <1>1, <1>5
<1>7. \A i \in 1 .. (Len(sent) + 1) :
        sent'[i] = IF i = Len(sent) + 1 THEN m ELSE sent[i]
  BY <1>1, <1>5
<1>8. Parcels' = Append(Parcels, e)
  <2> DEFINE T == [of : Files, size : Int]
  <2> HIDE DEF m
  <2>1. e \in T
    BY DEF IInv, UTypeOK
  <2>2. Parcels \in Seq(T) /\ Len(Parcels) = Len(sent)
    BY <1>5, MessagesTyped DEF Parcels, Messages
  <2>3. Parcels' \in Seq(T) /\ Len(Parcels') = Len(sent) + 1
    <3>1. \A i \in 1 .. (Len(sent) + 1) :
            [of |-> sent'[i].of, size |-> sent'[i].to - sent'[i].from] \in T
      <4> TAKE i \in 1 .. (Len(sent) + 1)
      <4>1. CASE i = Len(sent) + 1
        BY <1>3, <1>4, <1>7, <2>1, <4>1
      <4>2. CASE i # Len(sent) + 1
        <5>1. i \in DOMAIN sent /\ sent'[i] = sent[i]
          BY <1>5, <1>7, <4>2
        <5>2. sent[i] \in Messages
          BY <5>1, MessagesTyped
        <5> QED
          BY <5>1, <5>2 DEF Messages
      <4> QED
        BY <4>1, <4>2
    <3> QED
      BY <1>5, <1>6, <3>1 DEF Parcels
  <2>4. /\ Append(Parcels, e) \in Seq(T)
        /\ Len(Append(Parcels, e)) = Len(sent) + 1
        /\ \A i \in 1 .. Len(sent) : Append(Parcels, e)[i] = Parcels[i]
        /\ Append(Parcels, e)[Len(sent) + 1] = e
    BY <2>1, <2>2, AppendProperties
  <2>5. ASSUME NEW i \in 1 .. (Len(sent) + 1)
        PROVE  Parcels'[i] = Append(Parcels, e)[i]
    <3>1. Parcels'[i] = [of |-> sent'[i].of, size |-> sent'[i].to - sent'[i].from]
      BY <1>6 DEF Parcels
    <3>2. CASE i = Len(sent) + 1
      BY <1>3, <1>4, <1>7, <2>4, <3>1, <3>2
    <3>3. CASE i # Len(sent) + 1
      <4>1. i \in DOMAIN sent /\ i \in 1 .. Len(sent) /\ sent'[i] = sent[i]
        BY <1>5, <1>7, <3>3
      <4>2. Parcels[i] = [of |-> sent[i].of, size |-> sent[i].to - sent[i].from]
        BY <4>1 DEF Parcels
      <4> QED
        BY <2>4, <3>1, <4>1, <4>2
    <3> QED
      BY <3>2, <3>3
  <2> HIDE DEF T, e
  <2> QED
    BY <2>3, <2>4, <2>5, SeqEqual
<1>9. Answers[f] = "none" /\ ~D!Delivered(f)
  BY <1>1, Unanswered, UnsentIsUndelivered DEF Unsent
<1>10. \E told \in {"none", "sent", "failed"} : Answers' = [Answers EXCEPT ![f] = told]
  <2>1. CASE MailSent(f)
    <3>1. Answers' = [Answers EXCEPT ![f] = "sent"]
      BY <2>1, ClosedAnswers DEF MailSent
    <3> QED
      BY <3>1
  <2>2. CASE TelegramSent(f)
    <3>1. Answers' = Answers
      BY <2>2 DEF TelegramSent, Answers
    <3>2. Answers = [Answers EXCEPT ![f] = "none"]
      BY <1>9 DEF Answers
    <3> QED
      BY <3>1, <3>2
  <2>3. CASE ReplyLost(f)
    <3>1. Answers' = [Answers EXCEPT ![f] = "failed"]
      BY <2>3, ClosedAnswers DEF ReplyLost
    <3> QED
      BY <3>1
  <2> QED
    BY <2>1, <2>2, <2>3
<1> QED
  BY <1>1, <1>8, <1>9, <1>10 DEF D!Deliver, D!Parcel

LEMMA TransferDelivers ==
  ASSUME IInv, RecordsInv, NEW f \in Files, Transfer(f)
  PROVE  [D!Next]_(D!dvars)
<1>1. CASE MailSent(f) \/ TelegramSent(f) \/ ReplyLost(f)
  BY <1>1, SendDelivers DEF D!Next
<1>2. CASE Write(f)
  <2>1. Answers[f] = "none" /\ ~D!Delivered(f)
    BY <1>2, Unanswered, UnsentIsUndelivered DEF Write, Unsent
  <2>2. Answers' = Answers /\ Parcels' = Parcels
    BY <1>2 DEF Write, Answers, Parcels
  <2>3. D!Accept(f)
    BY <1>2, <2>1, <2>2 DEF Write, D!Accept
  <2> QED
    BY <2>3 DEF D!Next
<1>3. CASE SendFails(f)
  <2>1. Answers[f] = "none" /\ ~D!Delivered(f)
    BY <1>3, Unanswered, UnsentIsUndelivered DEF SendFails, Unsent
  <2>2. Answers' = [Answers EXCEPT ![f] = "failed"] /\ Parcels' = Parcels
    BY <1>3, ClosedAnswers DEF SendFails, Parcels
  <2>3. D!Fail(f)
    BY <1>3, <2>1, <2>2 DEF SendFails, D!Fail
  <2> QED
    BY <2>3 DEF D!Next
<1>4. CASE RecordSize(f)
  <2>1. at[f] = "size" /\ Answers[f] = "none"
    BY <1>4, Unanswered DEF RecordSize
  <2>2. D!Delivered(f)
    BY <2>1, DeliveredIsSent DEF RecordsInv, MidwayInv
  <2>3. Answers' = [Answers EXCEPT ![f] = "sent"] /\ Parcels' = Parcels
    BY <1>4, ClosedAnswers DEF RecordSize, Parcels
  <2>4. D!Confirm(f)
    BY <1>4, <2>1, <2>2, <2>3 DEF RecordSize, D!Confirm
  <2> QED
    BY <2>4 DEF D!Next
<1>5. CASE OpenFile(f) \/ Create(f) \/ Close(f) \/ RecordName(f)
  BY <1>5 DEF OpenFile, Create, Close, RecordName, D!dvars, Answers, Parcels
<1> QED
  BY <1>1, <1>2, <1>3, <1>4, <1>5 DEF Transfer

LEMMA NextDelivers == IInv /\ RecordsInv /\ [UNext]_uvars => [D!Next]_(D!dvars)
<1> SUFFICES ASSUME IInv, RecordsInv, [UNext]_uvars
             PROVE  [D!Next]_(D!dvars)
  OBVIOUS
<1>1. ASSUME NEW f \in Files, Transfer(f)
      PROVE  [D!Next]_(D!dvars)
  BY <1>1, TransferDelivers
<1>2. CASE UNCHANGED <<written, sent, log>>
  BY <1>2 DEF D!dvars, Answers, Parcels
<1> QED
  BY <1>1, <1>2 DEF UNext, Mkdir, uvars

\* Close keeps what Delivery promises: the buffer, the position in it and the
\* list are details of it (mail.go:96-117, telegram.go:119-164, fslog.go:128-144).
THEOREM DeliveryRefinement == USpec => ImplementsDelivery
BY InitDelivers, RecordsAlways, NextDelivers, PTL DEF USpec, ImplementsDelivery, D!Spec

=============================================================================
