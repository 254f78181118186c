-------------------------- MODULE RemoteDebuggingPipe --------------------------
(***************************************************************************)
(* nsRemoteDebuggingPipe: the byte streams to and from the client, cut     *)
(* into messages by NUL, with a reader thread and a writer thread of its   *)
(* own.  What the reader finds is dispatched to the main thread (mainQ);   *)
(* what the main thread sends is dispatched to the writer (writerQ).  The  *)
(* main thread's Stop is in three steps, because the shutdown of a thread  *)
(* runs the main thread's event loop until the thread has ended.           *)
(*                                                                         *)
(* A byte is an element of a message or NUL; sent, posted and toWriter     *)
(* record, for the properties, what went into each stage.                  *)
(***************************************************************************)
EXTENDS Integers, Sequences, FiniteSets, SequencesExt

CONSTANTS
  NUL,         \* the byte that ends a message
  BufSize,     \* bytes one read may return
  PacketSize   \* kWritePacketSize

ASSUME PipeAssumption == BufSize \in Nat \ {0} /\ PacketSize \in Nat \ {0}

VARIABLES
  wire,          \* bytes the client wrote and nobody read
  clientClosed,  \* the client closed its ends
  line,          \* the reader's bytes after the last NUL
  reader,        \* the reader thread: in ReaderLoop or not
  mainQ,         \* runnables of this pipe on the main thread
  client,        \* mClient is set
  terminated,    \* m_terminated
  shut,          \* the sockets are shut down
  writerQ,       \* messages dispatched to the writer thread
  writing,       \* what WriteBytes has not written of the current one
  out,           \* bytes written
  stopPc,        \* where the main thread is in Stop
  sent, posted, toWriter

pipeVars == <<wire, clientClosed, line, reader, mainQ, client, terminated,
              shut, writerQ, writing, out, stopPc, sent, posted, toWriter>>

Encode(m) == Append(m, NUL)

\* The bytes of some messages.
Then(bytes, m) == bytes \o Encode(m)

Stream(ms) ==
  LET bytes[i \in 0..Len(ms)] == IF i = 0 THEN <<>> ELSE Then(bytes[i - 1], ms[i])
  IN bytes[Len(ms)]

PipeInit ==
  /\ wire = <<>> /\ clientClosed = FALSE /\ line = <<>> /\ reader = "looping"
  /\ mainQ = <<>> /\ client = TRUE /\ terminated = FALSE /\ shut = FALSE
  /\ writerQ = <<>> /\ writing = <<>> /\ out = <<>> /\ stopPc = "no"
  /\ sent = <<>> /\ posted = <<>> /\ toWriter = <<>>

-----------------------------------------------------------------------------
(* Reading.                                                                *)

\* One step of the inner loop of ReaderLoop: a byte goes to the line; a NUL
\* ends the line, which is a message unless it is empty.
ScanByte(state, byte) ==
  IF byte # NUL THEN [line |-> Append(state.line, byte), found |-> state.found]
  ELSE [line |-> <<>>,
        found |-> IF state.line = <<>> THEN state.found
                  ELSE Append(state.found, state.line)]

\* The inner loop, with the line that was carried over: what it has after
\* each of the bytes.
Scan(carried, bytes) ==
  LET scan[i \in 0..Len(bytes)] ==
        IF i = 0 THEN [line |-> carried, found |-> <<>>]
        ELSE ScanByte(scan[i - 1], bytes[i])
  IN scan

\* The messages that are found, and the line that is carried on.
Pieces(carried, bytes) == Scan(carried, bytes)[Len(bytes)].found

\* Faulty variant: the bytes of an unfinished message would be dropped.
RemainderForgotten(carried, bytes) == <<>>

Remainder(carried, bytes) == Scan(carried, bytes)[Len(bytes)].line

Message(m) == [kind |-> "message", text |-> m]
Disconnection == [kind |-> "disconnected"]

\* ReadBytes returned n bytes; the loop goes on unless Stop ended it.
Read(n) ==
  LET bytes == SubSeq(wire, 1, n)
      found == Pieces(line, bytes)
  IN /\ reader = "looping" /\ n \in 1..Len(wire)
     /\ wire' = SubSeq(wire, n + 1, Len(wire))
     /\ line' = Remainder(line, bytes)
     /\ mainQ' = mainQ \o [i \in DOMAIN found |-> Message(found[i])]
     /\ posted' = posted \o found
     /\ reader' = IF terminated THEN "done" ELSE "looping"
     /\ UNCHANGED <<clientClosed, client, terminated, shut, writerQ, writing,
                    out, stopPc, sent, toWriter>>

\* ReadBytes returned 0: the end of the stream.  A socket that was shut down
\* still gives what it had received.
ReadEnd ==
  /\ reader = "looping" /\ wire = <<>> /\ (clientClosed \/ shut)
  /\ mainQ' = Append(mainQ, Disconnection)
  /\ reader' = "done"
  /\ UNCHANGED <<wire, clientClosed, line, client, terminated, shut, writerQ,
                 writing, out, stopPc, sent, posted, toWriter>>

\* The loop's condition is seen before the next read.
ReaderExit ==
  /\ reader = "looping" /\ terminated
  /\ reader' = "done"
  /\ UNCHANGED <<wire, clientClosed, line, mainQ, client, terminated, shut,
                 writerQ, writing, out, stopPc, sent, posted, toWriter>>

-----------------------------------------------------------------------------
(* Writing.                                                                *)

\* Faulty variant: a message would be dispatched without a client too.
SendAlways(ms) ==
  /\ writerQ' = writerQ \o ms
  /\ toWriter' = toWriter \o ms

\* SendMessage succeeds only while there is a client.
SendMessages(ms) ==
  /\ writerQ' = IF client THEN writerQ \o ms ELSE writerQ
  /\ toWriter' = IF client THEN toWriter \o ms ELSE toWriter

WriterTake ==
  /\ writing = <<>> /\ writerQ # <<>>
  /\ writing' = Encode(Head(writerQ))
  /\ writerQ' = Tail(writerQ)
  /\ UNCHANGED <<wire, clientClosed, line, reader, mainQ, client, terminated,
                 shut, out, stopPc, sent, posted, toWriter>>

\* Faulty variant: a packet would count as written whatever write() took.
WriteWholePacket(n) ==
  LET packet == IF Len(writing) < PacketSize THEN Len(writing) ELSE PacketSize
  IN /\ writing # <<>> /\ ~shut /\ ~clientClosed /\ n \in 1..packet
     /\ out' = out \o SubSeq(writing, 1, n)
     /\ writing' = SubSeq(writing, packet + 1, Len(writing))
     /\ UNCHANGED <<wire, clientClosed, line, reader, mainQ, client,
                    terminated, shut, writerQ, stopPc, sent, posted, toWriter>>

\* One write() of WriteBytes takes n bytes of a packet.
Write(n) ==
  LET packet == IF Len(writing) < PacketSize THEN Len(writing) ELSE PacketSize
  IN /\ writing # <<>> /\ ~shut /\ ~clientClosed /\ n \in 1..packet
     /\ out' = out \o SubSeq(writing, 1, n)
     /\ writing' = SubSeq(writing, n + 1, Len(writing))
     /\ UNCHANGED <<wire, clientClosed, line, reader, mainQ, client,
                    terminated, shut, writerQ, stopPc, sent, posted, toWriter>>

\* A failed write() gives the message up without a word.
WriteFails ==
  /\ writing # <<>> /\ (shut \/ clientClosed)
  /\ writing' = <<>>
  /\ UNCHANGED <<wire, clientClosed, line, reader, mainQ, client, terminated,
                 shut, writerQ, out, stopPc, sent, posted, toWriter>>

-----------------------------------------------------------------------------
(* Stop, on the main thread.                                               *)

StopBegin ==
  /\ client /\ stopPc = "no"
  /\ terminated' = TRUE /\ client' = FALSE /\ shut' = TRUE
  /\ stopPc' = "reader"
  /\ UNCHANGED <<wire, clientClosed, line, reader, mainQ, writing, out, sent,
                 posted>>

StopReader ==
  /\ stopPc = "reader" /\ reader = "done"
  /\ stopPc' = "writer"
  /\ UNCHANGED <<wire, clientClosed, line, reader, mainQ, client, terminated,
                 shut, writerQ, writing, out, sent, posted, toWriter>>

\* The writer's Shutdown lets the messages that are queued run first.
StopWriter ==
  /\ stopPc = "writer" /\ writerQ = <<>> /\ writing = <<>>
  /\ stopPc' = "done"
  /\ UNCHANGED <<wire, clientClosed, line, reader, mainQ, client, terminated,
                 shut, writerQ, writing, out, sent, posted, toWriter>>

-----------------------------------------------------------------------------
(* The client's ends.                                                      *)

ClientWrites(m) ==
  /\ ~clientClosed
  /\ wire' = wire \o Encode(m) /\ sent' = sent \o Encode(m)
  /\ UNCHANGED <<clientClosed, line, reader, mainQ, client, terminated, shut,
                 writerQ, writing, out, stopPc, posted, toWriter>>

ClientCloses ==
  /\ ~clientClosed /\ clientClosed' = TRUE
  /\ UNCHANGED <<wire, line, reader, mainQ, client, terminated, shut, writerQ,
                 writing, out, stopPc, sent, posted, toWriter>>

\* However the reads and writes cut the two streams: the messages dispatched so
\* far are those of the bytes read so far, in order, and the line is the
\* unfinished one (ReaderLoop's line, start and end); and the client reads a
\* prefix of the messages that were sent, each whole and in order, so that only
\* the last can be cut short, by the end of the stream (WriteBytes after a short
\* write, a message after one that failed).
Framing ==
  LET read == SubSeq(sent, 1, Len(sent) - Len(wire))
  IN /\ posted = Pieces(<<>>, read) /\ line = Remainder(<<>>, read)
     /\ IsPrefix(out, Stream(toWriter))
=============================================================================
