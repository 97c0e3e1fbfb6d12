------------------------------ MODULE Uploads ------------------------------
(***************************************************************************)
(* The file systems that send a file away when it is closed: mail, one     *)
(* message per file, and Telegram, which also keeps a list of names and    *)
(* sizes (fakeFilesystem) that every client of the file system shares.     *)
(* The wrapper of fslog is around both: it counts what is written and logs *)
(* the closing.                                                            *)
(*                                                                         *)
(* A file is what one transfer holds: the FTP library opens it, writes it  *)
(* or reads it in one goroutine, and closes it once.  Of its content only  *)
(* the number of writes is kept, so a message is an interval of them.      *)
(***************************************************************************)
EXTENDS Integers, Sequences, FiniteSets

CONSTANTS
  Mails, Telegrams,  \* files of the two backends
  Paths,
  TextPaths,         \* paths with the extension of a text
  TextLimit,         \* a text with fewer writes is sent as a message
  MaxWrites          \* bound on the writes to one file

Files == Mails \cup Telegrams

ASSUME UploadsAssumption ==
  /\ Mails \cap Telegrams = {}
  /\ TextPaths \subseteq Paths
  /\ TextLimit \in Nat
  /\ MaxWrites \in Nat

VARIABLES
  at,       \* at[f]: "new", "open", "sending", "create", "size", "closed"
  path,     \* path[f]
  content,  \* content[f]: File.Content, as its length
  position, \* position[f]: File.At
  written,  \* written[f]: what the client has written in all
  lengthWritten, \* lengthWritten[f]: what the wrapper has counted
  log,      \* log[f]: the line "Closed file" of the wrapper
  dict,     \* dict[p]: fakeFilesystem.dict
  sent      \* the messages the servers have taken, in their order

buffers == <<path, content, position>>
counts  == <<written, lengthWritten>>
uvars == <<at, buffers, counts, log, dict, sent>>

Nothing == [kind |-> "nothing", size |-> 0]
Dir     == [kind |-> "dir", size |-> 0]
Empty   == [kind |-> "file", size |-> 0]

\* What the access log says of a file that is closed.
Line(outcome, length) == [outcome |-> outcome, lengthWritten |-> length]
NoLine == Line("none", 0)

UInit ==
  /\ at = [f \in Files |-> "new"]
  /\ path \in [Files -> Paths]
  /\ content = [f \in Files |-> 0]
  /\ position = [f \in Files |-> 0]
  /\ written = [f \in Files |-> 0]
  /\ lengthWritten = [f \in Files |-> 0]
  /\ log = [f \in Files |-> NoLine]
  /\ dict = [p \in Paths |-> Nothing]
  /\ sent = <<>>

At(f, place) == at[f] = place
Goto(f, place) == at' = [at EXCEPT ![f] = place]

-----------------------------------------------------------------------------

\* Open and OpenFile give an empty buffer to whoever asks, a reader included.
OpenFile(f) ==
  /\ At(f, "new")
  /\ Goto(f, "open")
  /\ UNCHANGED <<buffers, counts, log, dict, sent>>

\* Create also enters the name into the list.
Create(f) ==
  /\ f \in Telegrams
  /\ At(f, "new")
  /\ Goto(f, "open")
  /\ dict' = [dict EXCEPT ![path[f]] = Empty]
  /\ UNCHANGED <<buffers, counts, log, sent>>

\* Mkdir, and MkdirAll for each directory on its way.
Mkdir(p) ==
  /\ dict' = [dict EXCEPT ![p] = Dir]
  /\ UNCHANGED <<at, buffers, counts, log, sent>>

\* Mutant of Write: the wrapper keeps the length of the last write.
WriteCountsLast(f) ==
  /\ At(f, "open")
  /\ written[f] < MaxWrites
  /\ content' = [content EXCEPT ![f] = @ + 1]
  /\ written' = [written EXCEPT ![f] = @ + 1]
  /\ lengthWritten' = [lengthWritten EXCEPT ![f] = 1]
  /\ UNCHANGED <<at, path, position, log, dict, sent>>

\* The buffer takes all of it and there is no error, so the wrapper counts it.
Write(f) ==
  /\ At(f, "open")
  /\ written[f] < MaxWrites
  /\ content' = [content EXCEPT ![f] = @ + 1]
  /\ written' = [written EXCEPT ![f] = @ + 1]
  /\ lengthWritten' = [lengthWritten EXCEPT ![f] = @ + 1]
  /\ UNCHANGED <<at, path, position, log, dict, sent>>

\* The first half of Close: the message is composed.
Close(f) ==
  /\ At(f, "open")
  /\ Goto(f, "sending")
  /\ UNCHANGED <<buffers, counts, log, dict, sent>>

\* A short text is sent as one string, everything else is read from File.At.
AsText(f) ==
  f \in Telegrams /\ path[f] \in TextPaths /\ content[f] < TextLimit

Start(f) == IF AsText(f) THEN 0 ELSE position[f]

Message(f) == [of |-> f, path |-> path[f], from |-> Start(f), to |-> content[f]]

\* The end of Close: the wrapper logs the error, if there is one, and what it
\* has counted.
Closed(f, outcome) ==
  /\ Goto(f, "closed")
  /\ log' = [log EXCEPT ![f] = Line(outcome, lengthWritten[f])]

\* DialAndSend has delivered the mail: the buffer is cleared.
MailSent(f) ==
  /\ f \in Mails
  /\ At(f, "sending")
  /\ Closed(f, "sent")
  /\ sent' = Append(sent, Message(f))
  /\ content' = [content EXCEPT ![f] = 0]
  /\ position' = [position EXCEPT ![f] = 0]
  /\ UNCHANGED <<path, counts, dict>>

\* Mutant of TelegramSent: the size is recorded before the name.
TelegramSentUncreated(f) ==
  /\ f \in Telegrams
  /\ At(f, "sending")
  /\ Goto(f, "size")
  /\ sent' = Append(sent, Message(f))
  /\ position' = [position EXCEPT ![f] = IF AsText(f) THEN @ ELSE content[f]]
  /\ UNCHANGED <<path, content, counts, log, dict>>

\* Bot.Send has delivered the message: the name is still to be recorded.
TelegramSent(f) ==
  /\ f \in Telegrams
  /\ At(f, "sending")
  /\ Goto(f, "create")
  /\ sent' = Append(sent, Message(f))
  /\ position' = [position EXCEPT ![f] = IF AsText(f) THEN @ ELSE content[f]]
  /\ UNCHANGED <<path, content, counts, log, dict>>

\* The send fails after the content was read up to some point.  Close returns
\* the error and the library drops the file.
SendFails(f) ==
  /\ At(f, "sending")
  /\ Closed(f, "failed")
  /\ \E n \in Start(f) .. content[f] :
       position' = [position EXCEPT ![f] = IF AsText(f) THEN @ ELSE n]
  /\ UNCHANGED <<path, content, counts, dict, sent>>

\* Mutant of ReplyLost: Close takes the error for a failure and sends again.
ReplyLostSentAgain(f) ==
  /\ At(f, "sending")
  /\ sent' = Append(sent, Message(f))
  /\ UNCHANGED <<at, path, content, position, counts, log, dict>>

\* DialAndSend or Bot.Send returns an error although the server has taken the
\* message: the reply was lost, or came too late.  For Close it is the same.
ReplyLost(f) ==
  /\ At(f, "sending")
  /\ Closed(f, "failed")
  /\ sent' = Append(sent, Message(f))
  /\ position' = [position EXCEPT ![f] = IF AsText(f) THEN @ ELSE content[f]]
  /\ UNCHANGED <<path, content, counts, dict>>

\* fakeFs.create and fakeFs.setSize lock the list one after the other ...
RecordName(f) ==
  /\ At(f, "create")
  /\ Goto(f, "size")
  /\ dict' = [dict EXCEPT ![path[f]] = Empty]
  /\ UNCHANGED <<buffers, counts, log, sent>>

\* Mutant of RecordSize: File.At is not reset with the buffer.
RecordSizeKeepsAt(f) ==
  /\ At(f, "size")
  /\ Closed(f, "sent")
  /\ dict' = IF dict[path[f]] = Nothing THEN dict
             ELSE [dict EXCEPT ![path[f]].size = content[f]]
  /\ content' = [content EXCEPT ![f] = 0]
  /\ UNCHANGED <<path, position, counts, sent>>

\* ... and the buffer is cleared.
RecordSize(f) ==
  /\ At(f, "size")
  /\ Closed(f, "sent")
  /\ dict' = IF dict[path[f]] = Nothing THEN dict
             ELSE [dict EXCEPT ![path[f]].size = content[f]]
  /\ content' = [content EXCEPT ![f] = 0]
  /\ position' = [position EXCEPT ![f] = 0]
  /\ UNCHANGED <<path, counts, sent>>

Transfer(f) ==
  \/ OpenFile(f) \/ Create(f) \/ Write(f) \/ Close(f)
  \/ MailSent(f) \/ TelegramSent(f) \/ SendFails(f) \/ ReplyLost(f)
  \/ RecordName(f) \/ RecordSize(f)

UNext ==
  \/ \E f \in Files : Transfer(f)
  \/ \E p \in Paths : Mkdir(p)

USpec == UInit /\ [][UNext]_uvars

-----------------------------------------------------------------------------

Messages == [of : Files, path : Paths, from : 0 .. MaxWrites, to : 0 .. MaxWrites]

\* Types; File.At is inside the content, or Read would slice out of bounds.
UTypeOK ==
  /\ at \in [Files -> {"new", "open", "sending", "create", "size", "closed"}]
  /\ path \in [Files -> Paths]
  /\ content \in [Files -> 0 .. MaxWrites]
  /\ position \in [Files -> 0 .. MaxWrites]
  /\ \A f \in Files : position[f] <= content[f]
  /\ written \in [Files -> 0 .. MaxWrites]
  /\ lengthWritten \in [Files -> 0 .. MaxWrites]
  /\ log \in [Files -> [outcome : {"none", "sent", "failed"}, lengthWritten : 0 .. MaxWrites]]
  /\ dict \in [Paths -> [kind : {"nothing", "dir", "file"}, size : 0 .. MaxWrites]]
  /\ sent \in Seq(Messages)

\* A file is sent at most once, and then as the client has written it: from
\* its first write, to its last.
SentOnceAndWhole ==
  /\ \A i, j \in DOMAIN sent : sent[i].of = sent[j].of => i = j
  /\ \A i \in DOMAIN sent : sent[i].from = 0 /\ sent[i].to = written[sent[i].of]

\* The sizes of the uploads of a name that were closed without an error.
ConfirmedSizes(p) ==
  {sent[i].to : i \in {j \in DOMAIN sent :
     /\ sent[j].path = p
     /\ sent[j].of \in Telegrams
     /\ log[sent[j].of].outcome = "sent"}}

\* Whatever clients do at once, the list shows no size but that of a message
\* whose closing had no error, and it knows the name of every one of these.
ListAgreesWithSent ==
  /\ \A p \in Paths : dict[p].size \in ConfirmedSizes(p) \cup {0}
  /\ \A f \in Telegrams : log[f].outcome = "sent" => dict[path[f]] # Nothing

\* The access log can be trusted as the record of what has left the server.  A
\* closing without an error is a message; one that failed may be, if its reply
\* was lost, and then too it has as many writes as the line says.  A message
\* without a line is one that Close is just recording.
LogAgreesWithSent ==
  \A f \in Files :
    LET messages == {i \in DOMAIN sent : sent[i].of = f}
    IN  /\ log[f].outcome = "sent" => messages # {}
        /\ log[f].outcome # "none" =>
             \A i \in messages : sent[i].to - sent[i].from = log[f].lengthWritten
        /\ log[f].outcome = "none" /\ messages # {} => at[f] \in {"create", "size"}

-----------------------------------------------------------------------------

Parcels == [i \in DOMAIN sent |-> [of |-> sent[i].of, size |-> sent[i].to - sent[i].from]]
Answers == [f \in Files |-> log[f].outcome]

D == INSTANCE Delivery WITH accepted <- written, parcels <- Parcels, answer <- Answers

\* The two file systems keep what Delivery promises, though Close reads a buffer
\* that may be half read, goes through the list in two steps of its own, answers
\* after them, and may be told of a failure that was none.
ImplementsDelivery == D!Spec

=============================================================================
