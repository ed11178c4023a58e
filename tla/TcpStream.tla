----------------------------- MODULE TcpStream -----------------------------
(***************************************************************************)
(* The bytes of one connection: recv, readline, send and sendfile of       *)
(* internal.TCP with the functions of ltcp.c that read and write, over     *)
(* plain TCP or TLS.                                                       *)
(*                                                                         *)
(* One coroutine reads and one writes; who waits on which watcher, and     *)
(* what a close does to them, is TcpSocket's.  Bytes arrive one by one,    *)
(* between any two calls of the kernel, and leave when the peer reads.     *)
(* With TLS, what the peer writes comes in records, of which nothing can   *)
(* be read before their last byte is there.                                *)
(*                                                                         *)
(* `peer' is all the peer will ever write.  The kernel has `arrived' bytes *)
(* of it, the program or the TLS object took `taken' out of the kernel,    *)
(* and `given' were read by the functions here.                            *)
(***************************************************************************)
EXTENDS Integers, Sequences, SequencesExt

CONSTANTS
    Byte,           \* what goes through the connection
    Messages,       \* what may be sent, sequences of bytes
    Streams,        \* what the peer may write: bytes, and where records end
    Separator,      \* the separator of readline
    Amounts,        \* how many bytes recv may ask for
    MSize,          \* how many bytes readline looks at, 1024
    FileChunk,      \* how much of a file ssl_sendfile sends at a time, 65535
    SendBuffer,     \* bytes in the socket's buffer for sending
    MaxOps          \* bound: operations in all

\* The bytes of a TLS peer are in records, up to the last one; readline refuses a separator
\* that is empty.
ASSUME StreamsAssumption ==
    /\ Messages \subseteq Seq(Byte)
    /\ \A p \in Streams :
          /\ p.bytes \in Seq(Byte) /\ p.ends \subseteq 1..Len(p.bytes)
          /\ p.bytes # <<>> => Len(p.bytes) \in p.ends
    /\ Separator \in Seq(Byte) /\ Separator # <<>>
    /\ Amounts \subseteq Nat
    /\ MSize \in Nat /\ FileChunk \in Nat \ {0} /\ SendBuffer \in Nat

VARIABLES
    ssl,            \* is there a TLS object?
    peer,           \* what the peer writes
    arrived, taken, given,
    ended,          \* "open", "eof", "notify" (TLS's last record), or "reset"
    noted,          \* has the TLS object seen that last record?
    reader,         \* what the reading coroutine does
    read,           \* what it got, and lost, operation by operation
    stream,         \* the bytes that went into the socket
    drained,        \* how many of them the peer has read
    writer,         \* what the writing coroutine does
    sent            \* the finished sends and their results

inVars == <<peer, arrived, taken, given, ended, noted>>
readVars == <<reader, read>>
outVars == <<stream, drained>>
writeVars == <<writer, sent>>
tvars == <<ssl, inVars, readVars, outVars, writeVars>>

Idle == [op |-> "idle"]

Total == Len(peer.bytes)

\* The end of the record of which n bytes, or less, were read.
RecordEnd(n) == CHOOSE e \in peer.ends : e > n /\ \A f \in peer.ends : f > n => e <= f

TInit ==
    /\ ssl \in BOOLEAN
    /\ peer \in Streams
    /\ arrived = 0 /\ taken = 0 /\ given = 0
    /\ ended = "open" /\ noted = FALSE
    /\ reader = Idle /\ read = <<>>
    /\ stream = <<>> /\ drained = 0
    /\ writer = Idle /\ sent = <<>>

\* The reading coroutine has the thread.
LineRuns == reader.op = "readline" /\ reader.at = "runs"

\* How many operations have begun.
Begun == Len(read) + Len(sent) + (IF reader = Idle THEN 0 ELSE 1) + (IF writer = Idle THEN 0 ELSE 1)

Smaller(a, b) == IF a < b THEN a ELSE b

-----------------------------------------------------------------------------
(* The peer and the kernel.  A reset takes with it what has arrived. *)

Arrive ==
    /\ ended = "open" /\ arrived < Total
    /\ arrived' = arrived + 1
    /\ UNCHANGED <<ssl, peer, taken, given, ended, noted, readVars, outVars, writeVars>>

PeerEnds ==
    /\ ended = "open" /\ arrived = Total
    /\ ended' \in {"eof"} \union (IF ssl THEN {"notify"} ELSE {})
    /\ UNCHANGED <<ssl, peer, arrived, taken, given, noted, readVars, outVars, writeVars>>

\* A peer that ended TLS closes the connection, or forgets to.
PeerCloses ==
    /\ ended = "notify"
    /\ ended' = "eof"
    /\ UNCHANGED <<ssl, peer, arrived, taken, given, noted, readVars, outVars, writeVars>>

PeerResets ==
    /\ ended # "reset"
    /\ ended' = "reset"
    /\ UNCHANGED <<ssl, peer, arrived, taken, given, noted, readVars, outVars, writeVars>>

PeerReads ==
    /\ drained < Len(stream) /\ ended # "reset"
    /\ drained' = drained + 1
    /\ UNCHANGED <<ssl, inVars, readVars, stream, writeVars>>

Readable == \/ taken < arrived
            \/ ended \in {"eof", "reset"}
            \/ ended = "notify" /\ ~noted
Free == SendBuffer - (Len(stream) - drained)
Writable == Free > 0 \/ ended = "reset"

-----------------------------------------------------------------------------
(* Reading: a count of bytes, 0 if there are none yet, or -1. *)

\* read() and recv(MSG_PEEK) of at most n bytes.
tcp_read(n) ==
    IF ended = "reset" THEN -1
    ELSE IF arrived > given THEN Smaller(n, arrived - given)
    ELSE IF ended = "eof" THEN -1
    ELSE 0

\* What the TLS object holds after a look at the socket: it takes the rest of the record
\* that it reads, and no more.
TakenNow == IF ended = "reset" \/ given = Total THEN taken
            ELSE IF taken > given /\ taken \in peer.ends THEN taken
            ELSE Smaller(arrived, RecordEnd(given))

\* SSL_read and SSL_peek; an error is -1 and so is the end.
tcp_sslread(n) ==
    IF TakenNow > given /\ TakenNow \in peer.ends THEN Smaller(n, TakenNow - given)
    ELSE IF ended = "open" \/ (ended = "notify" /\ given < Total) THEN 0
    ELSE -1

Read(n) == IF ssl THEN tcp_sslread(n) ELSE tcp_read(n)

\* What a call leaves behind that takes k bytes.
Takes(k) ==
    /\ given' = given + k
    /\ taken' = IF ssl THEN TakenNow ELSE given + k
    /\ noted' = (noted \/ (ssl /\ ended = "notify" /\ Read(1) = -1))
    /\ UNCHANGED <<peer, arrived, ended>>

Given(k) == SubSeq(peer.bytes, given + 1, given + k)

\* An operation is over.
Returned(op, ok, data) ==
    /\ reader' = Idle
    /\ read' = Append(read, [op |-> op, ok |-> ok, data |-> data])

\* recv tries at once.  With TLS it waits for an event even after an error.
recv(n) ==
    /\ ~LineRuns /\ reader = Idle /\ Begun < MaxOps
    /\ LET k == Read(n) IN
       /\ Takes(IF k > 0 THEN k ELSE 0)
       /\ IF k > 0 THEN Returned("recv", TRUE, Given(k))
          ELSE IF k = -1 /\ ~ssl THEN Returned("recv", FALSE, <<>>)
          ELSE reader' = [op |-> "recv", n |-> n] /\ UNCHANGED read
    /\ UNCHANGED <<ssl, outVars, writeVars>>

\* read_co of recv and ssl_recv: the latter goes on waiting if there is no whole record.
RecvEvent ==
    /\ ~LineRuns /\ reader.op = "recv" /\ Readable
    /\ LET k == Read(reader.n) IN
       /\ Takes(IF k > 0 THEN k ELSE 0)
       /\ IF k = 0 /\ ssl THEN UNCHANGED readVars
          ELSE Returned("recv", k > 0, IF k > 0 THEN Given(k) ELSE <<>>)
    /\ UNCHANGED <<ssl, outVars, writeVars>>

-----------------------------------------------------------------------------
(* readline *)

readline ==
    /\ ~LineRuns /\ reader = Idle /\ Begun < MaxOps
    /\ reader' = [op |-> "readline", at |-> "runs", buffer |-> <<>>]
    /\ UNCHANGED <<ssl, inVars, read, outVars, writeVars>>

\* string.find: the end of the first separator, or 0.
Found(buffer) == {e \in Len(Separator)..Len(buffer) : SubSeq(buffer, e - Len(Separator) + 1, e) = Separator}
EndOfLine(buffer) == IF Found(buffer) = {} THEN 0
                     ELSE CHOOSE e \in Found(buffer) : \A f \in Found(buffer) : e <= f

\* Slip: all that was looked at is taken.
OfThisLine_All(bsize, asize, e) == bsize

\* How much of the bsize bytes that were looked at last belongs to the line.
OfThisLine(bsize, asize, e) == bsize - (asize - e)

\* One round: look, append, search, take.
LooksAt(buffer, bsize) ==
    LET e == EndOfLine(buffer) IN
    IF e > 0
    THEN /\ Takes(OfThisLine(bsize, Len(buffer), e))
         /\ Returned("readline", TRUE, SubSeq(buffer, 1, e))
    ELSE /\ Takes(bsize)
         /\ reader' = [reader EXCEPT !.buffer = buffer]
         /\ UNCHANGED read

LineRound ==
    /\ LineRuns
    /\ LET k == Read(MSize) IN
       IF k > 0 THEN LooksAt(reader.buffer \o Given(k), k)
       ELSE /\ Takes(0)
            /\ IF k = 0 THEN reader' = [reader EXCEPT !.at = "waits"] /\ UNCHANGED read
               ELSE Returned("readline", FALSE, reader.buffer)
    /\ UNCHANGED <<ssl, outVars, writeVars>>

LineEvent ==
    /\ reader.op = "readline" /\ reader.at = "waits" /\ Readable
    /\ reader' = [reader EXCEPT !.at = "runs"]
    /\ UNCHANGED <<ssl, inVars, read, outVars, writeVars>>

\* The time-out of recv and readline; what readline has of a line is gone.
TimesOut ==
    /\ ~LineRuns /\ reader # Idle
    /\ Returned(reader.op, FALSE, IF reader.op = "readline" THEN reader.buffer ELSE <<>>)
    /\ UNCHANGED <<ssl, inVars, outVars, writeVars>>

-----------------------------------------------------------------------------
(* Writing: how many bytes went out, or -1. *)

\* send() takes as many bytes as there is room for, or fewer; SSL_write goes on until all
\* are out, or there is no room, and then says 0.
Accepted(rest) == IF ended = "reset" THEN {-1}
                  ELSE IF Free = 0 THEN {0}
                  ELSE 1..Smaller(Free, rest)
Flushed(rest) == IF ended = "reset" THEN {-1} ELSE {Smaller(Free, rest)}
Goes(rest) == IF ssl THEN Flushed(rest) ELSE Accepted(rest)

Put(m, off, k) == stream' = IF k > 0 THEN stream \o SubSeq(m, off + 1, off + k) ELSE stream

Finished(m, ok) ==
    /\ writer' = Idle
    /\ sent' = Append(sent, [m |-> m, ok |-> ok])

\* Where the next write goes on.
ResumeAt(w, k) == w.off + k

Send(m) ==
    /\ ~LineRuns /\ writer = Idle /\ Begun < MaxOps
    /\ \E k \in Goes(Len(m)) :
          /\ Put(m, 0, k)
          /\ IF k \in {-1, Len(m)} THEN Finished(m, k = Len(m))
             ELSE writer' = [op |-> "send", m |-> m, off |-> k] /\ UNCHANGED sent
    /\ UNCHANGED <<ssl, inVars, readVars, drained>>

\* send_co, when there is room in the socket.
SendEvent ==
    /\ ~LineRuns /\ writer.op = "send" /\ Writable
    /\ \E k \in Goes(Len(writer.m) - writer.off) :
          /\ Put(writer.m, writer.off, k)
          /\ IF k = -1 \/ writer.off + k = Len(writer.m) THEN Finished(writer.m, k # -1)
             ELSE writer' = [writer EXCEPT !.off = ResumeAt(writer, k)] /\ UNCHANGED sent
    /\ UNCHANGED <<ssl, inVars, readVars, drained>>

\* sendfile waits for room first; ssl_sendfile sends the file's first piece.
Sendfile(m) ==
    /\ ~LineRuns /\ writer = Idle /\ Begun < MaxOps
    /\ writer' = [op |-> "sendfile", m |-> m, off |-> 0]
    /\ UNCHANGED <<ssl, inVars, readVars, outVars, sent>>

Piece(w) == Smaller(Len(w.m) - w.off, IF ssl THEN FileChunk - (w.off % FileChunk) ELSE Len(w.m))

\* IO_SENDFILE goes on until there is no more room or no more file; the pieces of
\* ssl_sendfile are sends, each of which may wait.
FileEvent ==
    /\ ~LineRuns /\ writer.op = "sendfile" /\ (Writable \/ ssl)
    /\ \E k \in IF Len(writer.m) = writer.off THEN {0} ELSE Flushed(Piece(writer)) :
          /\ Put(writer.m, writer.off, k)
          /\ IF k = -1 \/ writer.off + k = Len(writer.m) THEN Finished(writer.m, k # -1)
             ELSE writer' = [writer EXCEPT !.off = ResumeAt(writer, k)] /\ UNCHANGED sent
    /\ UNCHANGED <<ssl, inVars, readVars, drained>>

-----------------------------------------------------------------------------
Kernel == Arrive \/ PeerEnds \/ PeerCloses \/ PeerResets \/ PeerReads

Calls ==
    \/ \E n \in Amounts : recv(n)
    \/ readline
    \/ \E m \in Messages : Send(m) \/ Sendfile(m)

TRunning == RecvEvent \/ LineRound \/ LineEvent \/ SendEvent \/ FileEvent

TNext == Kernel \/ Calls \/ TRunning \/ TimesOut

\* The loop runs, and the peer goes on writing what it has, and reading.  Each of these
\* steps brings an operation or the peer forward, and there is an end to them: none can
\* starve another one.
TFair == TRunning \/ Arrive \/ PeerEnds \/ PeerReads

TSpec == TInit /\ [][TNext]_tvars /\ WF_tvars(TFair)

-----------------------------------------------------------------------------
(* Properties *)

Pending == IF reader.op = "readline" THEN reader.buffer ELSE <<>>

\* What recv and readline returned, one after the other, with what a line that failed had
\* already taken, is what the peer wrote, without a byte left out or read twice; and a line
\* that was returned is one: it ends with its first separator.
ReadsAreTheStream ==
    /\ FlattenSeq([i \in DOMAIN read |-> read[i].data]) \o Pending = SubSeq(peer.bytes, 1, given)
    /\ \A i \in DOMAIN read : read[i].ok /\ read[i].op = "readline" =>
          EndOfLine(read[i].data) = Len(read[i].data)

\* The messages of which send or sendfile said that they are out are in the stream, one
\* after the other, and behind them a part of the one that is being sent or has failed.
Whole == FlattenSeq([i \in DOMAIN sent |-> IF sent[i].ok THEN sent[i].m ELSE <<>>])
Tail_ == SubSeq(stream, Len(Whole) + 1, Len(stream))
Parts(m) == {SubSeq(m, 1, k) : k \in 0..Len(m)}
Unfinished == (IF writer = Idle THEN {<<>>} ELSE {SubSeq(writer.m, 1, writer.off)})
                \union UNION {Parts(sent[i].m) : i \in {j \in DOMAIN sent : ~sent[j].ok}}

SendsAreTheStream == IsPrefix(Whole, stream) /\ Tail_ \in Unfinished

\* Bytes go through a connection in both directions as they were written.
BytesArrive == ReadsAreTheStream /\ SendsAreTheStream

\* The peer ended TLS and the connection is still open: recv has read that end before it
\* waits, and nothing more will come.
Deaf == ended = "notify" /\ noted

\* Reads and sends return when the peer ends what it writes and goes on reading, but for a
\* recv that is deaf.
StreamsEnd ==
    /\ (reader # Idle) ~> (reader = Idle \/ Deaf)
    /\ (writer # Idle) ~> (writer = Idle)
=============================================================================
