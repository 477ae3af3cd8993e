------------------------------ MODULE FileCopy ------------------------------
(***************************************************************************)
(* Framing, transport.Delimit, between the two ends that use it: the file  *)
(* (or socket) producer that cuts a byte stream into messages with Split,  *)
(* and the file (or socket) consumer that joins messages with a Joiner,    *)
(* with the engine's channel between them.  The reader returns whatever    *)
(* number of bytes it likes, as files, pipes and sockets do.               *)
(***************************************************************************)
EXTENDS RunContext, Naturals, Sequences, SequencesExt, FiniteSets

CONSTANTS
  Byte,       \* the alphabet of the stream
  MaxLen,     \* bound: bytes of the stream, and messages that are received
  MaxFaults,  \* bound: failures of the reader and the writer
  Delims      \* the blocks to choose from: [given, sep, index, group]

Option == {"sep", "sep-byte", "sep-byte-index"}

ASSUME CopyAssumption ==
  /\ MaxLen \in Nat /\ MaxFaults \in Nat
  /\ \A d \in Delims : /\ d \in [given : SUBSET Option, sep : Seq(Byte), index : Nat, group : Nat]
                       /\ "sep-byte" \in d.given => Len(d.sep) = 1

VARIABLES
  delim,     \* the framing of both blocks
  follow,    \* does the producer tail the file?
  bytes,     \* the content of the file
  unread,    \* what was not read yet
  buf,       \* what the scanner holds
  source,    \* the reader: "open", at its "eof", or its "fault"
  batch,     \* pieces of the message to come
  reader,    \* where the producer is
  msg,       \* the message that it sends
  writer,    \* where the consumer is
  jbatch,    \* messages that the joiner holds
  joined,    \* what the joiner writes
  closing,   \* has the consumer seen the end of its input?
  out,       \* what was written
  faults,    \* failures so far
  pieces,    \* history: the pieces that were cut
  got,       \* history: the messages that the consumer received
  reported   \* history: the errors that both reported

readerVars == <<unread, buf, source, batch, reader, msg, pieces>>
writerVars == <<writer, jbatch, joined, closing, out, got>>
copyState == <<delim, follow, bytes, readerVars, writerVars, faults, reported>>
copyVars == <<runDone, copyState>>

-----------------------------------------------------------------------------
Validate(d) ==
  /\ Cardinality(d.given) = 1
  /\ "sep-byte-index" \in d.given => d.index > 0

Fixed == "sep-byte-index" \in delim.given
Sep == IF Fixed THEN <<>> ELSE delim.sep
Group == IF delim.group <= 0 THEN 1 ELSE delim.group

\* bytes.Join(ms, sep).
JoinBytes(ms) ==
  FlattenSeq([i \in 1..Len(ms) |-> IF i = Len(ms) THEN ms[i] ELSE ms[i] \o Sep])

OccursAt(i, s) == SubSeq(s, i, i + Len(Sep) - 1) = Sep
Occurrences(s) == {i \in 1..(Len(s) + 1 - Len(Sep)) : OccursAt(i, s)}
Index(s) == CHOOSE i \in Occurrences(s) : \A j \in Occurrences(s) : i <= j

FirstBytes(n, s) == SubSeq(s, 1, n)

\* What a split function returns: a token may be empty and nil may not be.
NoToken == [found |-> FALSE, advance |-> 0, token |-> <<>>]
Piece(n, p) == [found |-> TRUE, advance |-> n, token |-> p]
Whole(s) == Piece(Len(s), s)

\* Mutant: what has been read so far is a piece, at the end or not.
SplitEager(s, atEOF) ==
  IF s = <<>> THEN NoToken
  ELSE IF Fixed THEN IF Len(s) >= delim.index THEN Whole(FirstBytes(delim.index, s)) ELSE Whole(s)
  ELSE IF Occurrences(s) # {}
       THEN Piece(Index(s) - 1 + Len(Sep), FirstBytes(Index(s) - 1, s))
  ELSE Whole(s)

\* splitFunc: without a token the scanner reads on.  An empty sep is found
\* before the first byte: an empty piece, and no advance.
SplitFunc(s, atEOF) ==
  IF s = <<>> THEN NoToken
  ELSE IF Fixed /\ Len(s) >= delim.index THEN Whole(FirstBytes(delim.index, s))
  ELSE IF ~Fixed /\ Occurrences(s) # {}
       THEN Piece(Index(s) - 1 + Len(Sep), FirstBytes(Index(s) - 1, s))
  ELSE IF atEOF THEN Whole(s) ELSE NoToken

Token == SplitFunc(buf, source # "open")

-----------------------------------------------------------------------------
CopyInit ==
  /\ runDone = FALSE /\ faults = 0 /\ reported = 0
  /\ delim \in Delims /\ Validate(delim)
  /\ follow \in BOOLEAN
  /\ bytes \in UNION {[1..n -> Byte] : n \in 0..MaxLen}
  /\ unread = bytes /\ buf = <<>> /\ source = "open" /\ batch = <<>>
  /\ reader = "open" /\ msg = <<>> /\ pieces = <<>>
  /\ writer = "open" /\ jbatch = <<>> /\ joined = <<>> /\ closing = FALSE
  /\ out = <<>> /\ got = <<>>

\* The location is opened by the producer itself, which returns if it cannot.
ReaderOpens ==
  /\ reader = "open"
  /\ \/ reader' = "scan" /\ UNCHANGED faults
     \/ faults < MaxFaults /\ reader' = "fail" /\ faults' = faults + 1
  /\ UNCHANGED <<runDone, delim, follow, bytes, unread, buf, source, batch, msg, pieces, writerVars, reported>>

Scanning == reader = "scan" /\ Token = NoToken

Read ==
  /\ Scanning /\ source = "open"
  /\ \E n \in 1..Len(unread) :
       /\ buf' = buf \o FirstBytes(n, unread)
       /\ unread' = SubSeq(unread, n + 1, Len(unread))
  /\ UNCHANGED <<runDone, delim, follow, bytes, source, batch, reader, msg, pieces, writerVars, faults, reported>>

\* A followed file has no end: its reader sleeps and tries again.
ReadEOF ==
  /\ Scanning /\ source = "open" /\ unread = <<>> /\ ~follow
  /\ source' = "eof"
  /\ UNCHANGED <<runDone, delim, follow, bytes, unread, buf, batch, reader, msg, pieces, writerVars, faults, reported>>

\* The reader fails, or was closed at the end of the context.
ReadFails ==
  /\ Scanning /\ source = "open" /\ (runDone \/ faults < MaxFaults)
  /\ source' = "fault" /\ faults' = IF runDone THEN faults ELSE faults + 1
  /\ UNCHANGED <<runDone, delim, follow, bytes, unread, buf, batch, reader, msg, pieces, writerVars, reported>>

\* One turn of the loop of Split: a piece, and the message that it completes.
Scan ==
  /\ reader = "scan" /\ Token # NoToken
  /\ buf' = SubSeq(buf, Token.advance + 1, Len(buf)) /\ pieces' = Append(pieces, Token.token)
  /\ IF Len(batch) + 1 >= Group
     THEN reader' = "send" /\ msg' = JoinBytes(Append(batch, Token.token)) /\ batch' = <<>>
     ELSE batch' = Append(batch, Token.token) /\ UNCHANGED <<reader, msg>>
  /\ UNCHANGED <<runDone, delim, follow, bytes, unread, source, writerVars, faults, reported>>

\* The loop is over: an error goes before the pieces that are still grouped.
ScanOver ==
  /\ Scanning /\ source # "open"
  /\ IF source = "eof" /\ batch # <<>>
     THEN reader' = "send" /\ msg' = JoinBytes(batch) /\ batch' = <<>>
     ELSE /\ reader' = IF source = "fault" /\ ~runDone THEN "fail" ELSE "closed"
          /\ UNCHANGED <<msg, batch>>
  /\ UNCHANGED <<runDone, delim, follow, bytes, unread, buf, source, pieces, writerVars, faults, reported>>

ReaderCancelled ==
  /\ reader = "send" /\ runDone /\ reader' = "closed"
  /\ UNCHANGED <<runDone, delim, follow, bytes, unread, buf, source, batch, msg, pieces, writerVars, faults, reported>>

\* The bare sends on errs, which the engine receives while the run lasts.
ReaderReports ==
  /\ reader = "fail" /\ ~runDone
  /\ reader' = "closed" /\ reported' = reported + 1
  /\ UNCHANGED <<runDone, delim, follow, bytes, unread, buf, source, batch, msg, pieces, writerVars, faults>>

-----------------------------------------------------------------------------
WriterOpens ==
  /\ writer = "open"
  /\ \/ writer' = "recv" /\ UNCHANGED faults
     \/ faults < MaxFaults /\ writer' = "refused" /\ faults' = faults + 1
  /\ UNCHANGED <<runDone, delim, follow, bytes, readerVars, jbatch, joined, closing, out, got, reported>>

\* Joiner.Write: a full group is joined and written.  Only an empty sep makes
\* messages enough to reach the bound.
Deliver ==
  /\ reader = "send" /\ writer = "recv" /\ ~closing /\ Len(got) < MaxLen
  /\ reader' = "scan" /\ msg' = <<>> /\ got' = Append(got, msg)
  /\ IF Len(jbatch) + 1 >= Group
     THEN writer' = "write" /\ joined' = JoinBytes(Append(jbatch, msg)) /\ jbatch' = <<>>
     ELSE jbatch' = Append(jbatch, msg) /\ UNCHANGED <<writer, joined>>
  /\ UNCHANGED <<runDone, delim, follow, bytes, unread, buf, source, batch, pieces, closing, out, faults, reported>>

AfterWrite == IF closing THEN "done" ELSE "recv"

WriteBatch ==
  /\ writer = "write" /\ out' = out \o joined /\ joined' = <<>>
  /\ writer' = IF Sep # <<>> THEN "sep" ELSE AfterWrite
  /\ UNCHANGED <<runDone, delim, follow, bytes, readerVars, jbatch, closing, got, faults, reported>>

WriteSep ==
  /\ writer = "sep" /\ out' = out \o Sep /\ writer' = AfterWrite
  /\ UNCHANGED <<runDone, delim, follow, bytes, readerVars, jbatch, joined, closing, got, faults, reported>>

\* What was being written is gone, and after a failed separator the next
\* batch continues the line.
WriteFails ==
  /\ writer \in {"write", "sep"} /\ (runDone \/ faults < MaxFaults)
  /\ writer' = IF runDone THEN "done" ELSE "fail"
  /\ faults' = IF runDone THEN faults ELSE faults + 1
  /\ joined' = <<>>
  /\ UNCHANGED <<runDone, delim, follow, bytes, readerVars, jbatch, closing, out, got, reported>>

WriterReports ==
  /\ writer \in {"fail", "refused"} /\ ~runDone
  /\ writer' = IF writer = "fail" THEN AfterWrite ELSE "done"
  /\ reported' = reported + 1
  /\ UNCHANGED <<runDone, delim, follow, bytes, readerVars, jbatch, joined, closing, out, got, faults>>

\* Joiner.Close: the consumer ranges over its input, which the sink closes.
WriterSeesClose ==
  /\ writer = "recv" /\ (reader = "closed" \/ runDone)
  /\ closing' = TRUE /\ joined' = JoinBytes(jbatch) /\ jbatch' = <<>>
  /\ writer' = IF jbatch = <<>> THEN "done" ELSE "write"
  /\ UNCHANGED <<runDone, delim, follow, bytes, readerVars, out, got, faults, reported>>

CopyCancelled == EndRun /\ UNCHANGED <<delim, follow, bytes, readerVars, writerVars, faults, reported>>

CopyNext ==
  \/ ReaderOpens \/ WriterOpens \/ Read \/ ReadEOF \/ ReadFails \/ Scan \/ ScanOver \/ ReaderCancelled \/ ReaderReports
  \/ Deliver \/ WriteBatch \/ WriteSep \/ WriteFails \/ WriterReports \/ WriterSeesClose
  \/ CopyCancelled

CopySpec == CopyInit /\ [][CopyNext]_copyVars

-----------------------------------------------------------------------------
(* Properties.                                                             *)

CopyTypeOK ==
  /\ delim \in Delims /\ Validate(delim) /\ follow \in BOOLEAN
  /\ \A bs \in {bytes, unread, buf, msg, joined, out} : bs \in Seq(Byte)
  /\ \A ms \in {batch, pieces, jbatch, got} : ms \in Seq(Seq(Byte))
  /\ closing \in BOOLEAN /\ reported \in Nat /\ faults \in Nat
  /\ source \in {"open", "eof", "fault"} /\ reader \in {"open", "scan", "send", "fail", "closed"}
  /\ writer \in {"open", "recv", "write", "sep", "fail", "refused", "done"}
  /\ Len(batch) < Group /\ Len(jbatch) < Group
  /\ reported <= faults /\ faults <= MaxFaults

Undisturbed == ~runDone /\ faults = 0
Taken == SubSeq(bytes, 1, Len(bytes) - Len(unread) - Len(buf))
Terminated(ps) == FlattenSeq([i \in 1..Len(ps) |-> ps[i] \o Sep])

\* However the reader cuts the stream up, the pieces are those of its bytes:
\* each ends at the first separator after the one before, and only what the
\* stream ends with may lack one.
PiecesAreExact ==
  Undisturbed =>
    /\ Terminated(pieces) = Taken \/ (source = "eof" /\ Terminated(pieces) = Taken \o Sep)
    /\ \A i \in 1..Len(pieces) :
         IF Fixed THEN Len(pieces[i]) = delim.index \/ (source = "eof" /\ i = Len(pieces))
         ELSE \/ Index(pieces[i] \o Sep) = Len(pieces[i]) + 1
              \/ source = "eof" /\ i = Len(pieces) /\ Occurrences(pieces[i]) = {}

\* A message is a full group of pieces, but for the last one of the stream.
GroupsAreFull ==
  LET sent == IF reader = "send" THEN Append(got, msg) ELSE got
      members(i) == SubSeq(pieces, Group * (i - 1) + 1,
                           IF Group * i <= Len(pieces) THEN Group * i ELSE Len(pieces))
  IN Undisturbed =>
       /\ \A i \in 1..Len(sent) : sent[i] = JoinBytes(members(i))
       /\ \A i \in 1..Len(sent) : Len(members(i)) = Group \/ (source = "eof" /\ i = Len(sent))

\* What the consumer writes is the stream itself, ended by a separator.
CopyIsFaithful ==
  Undisturbed =>
    /\ IsPrefix(out, bytes \o Sep)
    /\ writer = "done" => out = bytes \/ (bytes # <<>> /\ out = bytes \o Sep)

\* docs/stdlib.md has an empty sep make one message of the whole stream.
WholeStream == (delim.sep = <<>> /\ ~Fixed) => \A i \in 1..Len(got) : got[i] = bytes

\* A failed read or write never passes in silence while the run lasts.
FaultsAreReported == (~runDone /\ reader = "closed" /\ writer = "done") => reported = faults

\* Split and Joiner: the messages do not depend on how the bytes arrive, what
\* is written is what was read, and a failure is reported.
CopyInv == CopyTypeOK /\ PiecesAreExact /\ GroupsAreFull /\ CopyIsFaithful /\ FaultsAreReported

=============================================================================
