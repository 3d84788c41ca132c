------------------------------- MODULE Stream -------------------------------
(***************************************************************************)
(* One stream of a session (stream.go): an application goroutine in Read,  *)
(* one in Write, applications that close, reset or set deadlines, and the  *)
(* session goroutine, which adds received frames, pops the data to send    *)
(* (maybePopNormalFramesOfPath of stream_framer.go), handles RST_STREAM,   *)
(* collects finished streams and cancels the stream when the session ends. *)
(*                                                                         *)
(* A step is what a goroutine does between two points where another can    *)
(* run: the code under the mutex is one step, a blocking receive from      *)
(* readChan or writeChan begins a new one. Deadlines and the clock now are *)
(* numbers; 0 is the zero time.                                            *)
(***************************************************************************)
EXTENDS StreamFrameSorter

CONSTANTS ReadSizes,    \* lengths of the slices given to Read
          WriteSizes,   \* lengths of the slices given to Write
          MaxWrites,    \* bound on the number of Write calls
          PopSizes,     \* space for data in the packets being packed
          ReadDeadlines, WriteDeadlines, \* times given to SetReadDeadline, SetWriteDeadline
          MaxTime,      \* bound of the clock
          ResetErrors   \* errors given to Reset; "nil" is the nil error

ASSUME StreamConstants == /\ ReadSizes \subseteq Nat /\ WriteSizes \subseteq Nat
                          /\ PopSizes \subseteq Nat

VARIABLES err, cancelled, finishedReading, finishedWriting, resetLocally, resetRemotely,
          readChan, readDeadline, readOffset, readPosInFrame,
          dataForWriting,   \* number of bytes; 0 is nil
          writeOffset, finSent, rstSent, writeChan, writeDeadline,
          reader, writer,   \* the goroutines in Read and in Write
          popper,           \* the session goroutine in maybePopNormalFramesOfPath
          now,
          removed,          \* garbageCollectStreams has removed the stream
          sessionErr,       \* a frame was refused: the session closes
          rst, fin,         \* offsets of the RST_STREAM and of the FIN, or -1
          nilMet            \* what was under way when Reset(nil) left err nil:
                            \* "read", a Read past its entry; "write", data to pack

errVars == <<err, cancelled, resetLocally, resetRemotely, nilMet>>
readVars == <<readOffset, readPosInFrame, finishedReading>>
writeVars == <<dataForWriting, writeOffset, finSent, finishedWriting, fin>>
timeVars == <<readDeadline, writeDeadline, now>>
sessionVars == <<removed, sessionErr, rstSent, rst>>
\* What only others than the reader, and than the writer and the packer, change.
notReadVars == <<errVars, writeVars, writeChan, timeVars, sessionVars, writer, popper>>
notWriteVars == <<sorterVars, readVars, readChan, errVars, timeVars, sessionVars, reader>>
vars == <<sorterVars, errVars, readVars, writeVars, readChan, writeChan, timeVars, sessionVars,
          reader, writer, popper>>

Idle == [pc |-> "idle"]

Init ==
    /\ SorterInit
    /\ err = "nil" /\ cancelled = FALSE /\ resetLocally = FALSE /\ resetRemotely = FALSE
    /\ nilMet = {}
    /\ readOffset = 0 /\ readPosInFrame = 0 /\ finishedReading = FALSE
    /\ dataForWriting = 0 /\ writeOffset = 0 /\ finSent = FALSE /\ finishedWriting = FALSE
    /\ fin = -1 /\ readChan = 0 /\ writeChan = 0
    /\ readDeadline = 0 /\ writeDeadline = 0 /\ now = 1
    /\ removed = FALSE /\ sessionErr = FALSE /\ rstSent = FALSE /\ rst = -1
    /\ reader = Idle /\ popper = Idle
    /\ writer = [pc |-> "idle", calls |-> 0, n |-> 0, taken |-> 0, late |-> FALSE]

Expired(deadline) == deadline # 0 /\ now >= deadline
-----------------------------------------------------------------------------
(* Read *)

\* The count and the error of a Read that returned are not kept: finishedReading
\* tells the EOF, and readOffset how much was read.
ReadReturns == reader' = Idle

\* One iteration of the inner loop of Read, under the mutex.
AwaitFrame ==
    LET WithFrame == reader' = IF HasHead
                               THEN [reader EXCEPT !.pc = "copy", !.frame = HeadFrame]
                               ELSE [reader EXCEPT !.pc = "nilFrame"]
    IN IF resetLocally \/ cancelled
       THEN /\ IF err = "nil" THEN WithFrame ELSE ReadReturns
            /\ UNCHANGED readPosInFrame
       ELSE IF Expired(readDeadline)
       THEN ReadReturns /\ UNCHANGED readPosInFrame
       ELSE IF HasHead
       THEN WithFrame /\ readPosInFrame' = readOffset - HeadFrame.Offset
       ELSE /\ reader' = [reader EXCEPT !.pc = "wait", !.timer = readDeadline]
            /\ UNCHANGED readPosInFrame

\* Read takes the mutex (for the error to return) and tests the flags without it.
Read(size) ==
    /\ reader.pc = "idle"
    /\ reader' = [pc |-> "entry", size |-> size, n |-> 0, timer |-> 0, frame |-> FinFrame]
    /\ UNCHANGED <<sorterVars, readVars, readChan, notReadVars>>

ReadEntry ==
    /\ reader.pc = "entry"
    /\ IF cancelled \/ resetLocally \/ finishedReading THEN ReadReturns
       ELSE reader' = [reader EXCEPT !.pc = "next"]
    /\ UNCHANGED <<sorterVars, readVars, readChan, notReadVars>>

ReadNext ==
    /\ reader.pc = "next"
    /\ IF ~HasHead /\ reader.n > 0
       THEN ReadReturns /\ UNCHANGED readPosInFrame
       ELSE AwaitFrame
    /\ UNCHANGED <<sorterVars, readOffset, finishedReading, readChan, notReadVars>>

ReadWakes ==
    /\ reader.pc = "wait"
    /\ \/ readChan = 1 /\ readChan' = 0
       \/ Expired(reader.timer) /\ UNCHANGED readChan
    /\ AwaitFrame
    /\ UNCHANGED <<sorterVars, readOffset, finishedReading, notReadVars>>

\* The end of an iteration of the outer loop, with n bytes read.
ReadMore(n) == IF n < reader.size THEN reader' = [reader EXCEPT !.pc = "next", !.n = n]
               ELSE ReadReturns

CopyLength == LET left == reader.frame.len - readPosInFrame
              IN IF reader.size - reader.n < left THEN reader.size - reader.n ELSE left

\* Mutation: a FIN anywhere in the queue ends the stream.
ReadsFin_Queued == \E o \in DOMAIN queuedFrames : queuedFrames[o].FinBit

ReadsFin == reader.frame.FinBit

\* Without the mutex: the data is copied (and the flow controller is told, see
\* FlowControl), unless readPosInFrame is behind the frame ("BUG: readPosInFrame").
ReadCopy ==
    /\ reader.pc = "copy"
    /\ IF readPosInFrame > reader.frame.len
       THEN ReadReturns /\ UNCHANGED <<readPosInFrame, readOffset>>
       ELSE LET m == CopyLength
            IN /\ readPosInFrame' = readPosInFrame + m
               /\ readOffset' = readOffset + m
               /\ IF readPosInFrame' >= reader.frame.len
                  THEN reader' = [reader EXCEPT !.pc = "pop", !.n = @ + m]
                  ELSE ReadMore(reader.n + m)
    /\ UNCHANGED <<sorterVars, finishedReading, readChan, notReadVars>>

ReadPop ==
    /\ reader.pc = "pop"
    /\ Pop
    /\ IF ReadsFin
       THEN finishedReading' = TRUE /\ ReadReturns
       ELSE UNCHANGED finishedReading /\ ReadMore(reader.n)
    /\ UNCHANGED <<readOffset, readPosInFrame, readChan, notReadVars>>

ReadStep == ReadEntry \/ ReadNext \/ ReadWakes \/ ReadCopy \/ ReadPop
-----------------------------------------------------------------------------
(* Write, Close and the packing of data *)

WriteReturns(w, n) == writer' = [w EXCEPT !.pc = "idle", !.n = n,
                                          !.taken = writeOffset - w.from,
                                          !.late = Expired(writeDeadline)]

\* Mutation: an error is not told from success.
Written_Error == writer.size

\* What Write returns when it was not ended by the deadline.
Written == IF err # "nil" THEN writer.size - dataForWriting ELSE writer.size

\* Write hands its data over and waits until it is taken. A call that returns at
\* once has taken nothing.
Write(size) ==
    LET w == [pc |-> "wait", calls |-> writer.calls + 1, size |-> size, n |-> 0, taken |-> 0,
              late |-> FALSE, from |-> writeOffset, timer |-> writeDeadline]
    IN /\ writer.pc = "idle" /\ writer.calls < MaxWrites
       /\ IF resetLocally \/ err # "nil" \/ finishedWriting \/ size = 0
          THEN WriteReturns(w, 0) /\ UNCHANGED dataForWriting
          ELSE /\ dataForWriting' = size
               /\ IF Expired(writeDeadline) THEN WriteReturns(w, 0) ELSE writer' = w
       /\ UNCHANGED <<writeOffset, finSent, finishedWriting, fin, writeChan, popper, notWriteVars>>

WriteWakes ==
    /\ writer.pc = "wait"
    /\ \/ writeChan = 1 /\ writeChan' = 0
       \/ Expired(writer.timer) /\ UNCHANGED writeChan
    /\ IF Expired(writeDeadline) THEN WriteReturns(writer, 0)
       ELSE IF dataForWriting = 0 \/ err # "nil"
       THEN WriteReturns(writer, Written)
       ELSE writer' = [writer EXCEPT !.timer = writeDeadline]
    /\ UNCHANGED <<writeVars, popper, notWriteVars>>

Close ==
    /\ ~finishedWriting /\ finishedWriting' = TRUE
    /\ UNCHANGED <<dataForWriting, writeOffset, finSent, fin, writeChan, writer, popper, notWriteVars>>

\* Mutation: the stream's error is not looked at.
HasDataForWriting_AnyErr == dataForWriting # 0

HasDataForWriting == err = "nil" /\ dataForWriting # 0

SessionRuns == ~removed /\ ~cancelled /\ ~sessionErr

\* maybePopNormalFramesOfPath takes the mutex for each of its questions, and
\* sets finSent without it.
PopLen(max) ==
    /\ SessionRuns /\ popper.pc = "idle"
    /\ popper' = [pc |-> IF HasDataForWriting THEN "data" ELSE "fin",
                  max |-> max, offset |-> writeOffset, len |-> 0]
    /\ UNCHANGED <<writeVars, writeChan, writer, notWriteVars>>

\* getDataForWriting, or no data because the path has no volume left.
PopData ==
    /\ popper.pc = "data"
    /\ \/ /\ HasDataForWriting
          /\ LET n == IF dataForWriting > popper.max THEN popper.max ELSE dataForWriting
             IN /\ dataForWriting' = dataForWriting - n
                /\ writeOffset' = writeOffset + n
                /\ writeChan' = IF dataForWriting' = 0 THEN 1 ELSE writeChan
                /\ popper' = [popper EXCEPT !.pc = "fin", !.len = n]
       \/ /\ popper' = [popper EXCEPT !.pc = "fin"]
          /\ UNCHANGED <<dataForWriting, writeOffset, writeChan>>
    /\ UNCHANGED <<finSent, finishedWriting, fin, writer, notWriteVars>>

shouldSendFin == finishedWriting /\ ~finSent /\ err = "nil" /\ dataForWriting = 0

PopFin ==
    /\ popper.pc = "fin"
    /\ popper' = IF shouldSendFin THEN [popper EXCEPT !.pc = "sentFin"] ELSE Idle
    /\ UNCHANGED <<writeVars, writeChan, writer, notWriteVars>>

PopSentFin ==
    /\ popper.pc = "sentFin"
    /\ finSent' = TRUE /\ fin' = popper.offset + popper.len
    /\ popper' = Idle
    /\ UNCHANGED <<dataForWriting, writeOffset, finishedWriting, writeChan, writer, notWriteVars>>

PopStep == PopData \/ PopFin \/ PopSentFin
-----------------------------------------------------------------------------
(* Frames from the peer, resets, and the end of the stream *)

AddStreamFrame(f) ==
    /\ SessionRuns /\ popper.pc = "idle"
    /\ Push(f)
    /\ IF result' = "errTooManyGapsInReceivedStreamData"
       THEN sessionErr' = TRUE /\ UNCHANGED readChan
       ELSE readChan' = 1 /\ UNCHANGED sessionErr
    /\ UNCHANGED <<errVars, readVars, writeVars, writeChan, timeVars, removed, rstSent, rst,
                   reader, writer, popper>>

\* Mutation: nobody is woken up.
SetErr_Silent(e, wakeReader) ==
    err' = (IF err = "nil" THEN e ELSE err) /\ UNCHANGED <<readChan, writeChan>>

\* The first error stays; both kinds of waiting are ended by it.
SetErr(e, wakeReader) ==
    /\ err' = IF err = "nil" THEN e ELSE err
    /\ readChan' = IF err = "nil" /\ wakeReader THEN 1 ELSE readChan
    /\ writeChan' = IF err = "nil" THEN 1 ELSE writeChan

\* shouldSendReset and onReset, in the mutex of Reset and RegisterRemoteError.
SendReset ==
    IF rstSent \/ (finishedWriting /\ finSent) THEN UNCHANGED <<rstSent, rst>>
    ELSE rstSent' = TRUE /\ rst' = writeOffset

Reset(e) ==
    /\ ~resetLocally /\ resetLocally' = TRUE
    /\ SetErr(e, TRUE) /\ SendReset
    /\ nilMet' = IF err' # "nil" THEN nilMet
                 ELSE nilMet \cup (IF reader.pc \in {"idle", "entry"} THEN {} ELSE {"read"})
                             \cup (IF dataForWriting = 0 THEN {} ELSE {"write"})
    /\ UNCHANGED <<sorterVars, cancelled, resetRemotely, readVars, writeVars, timeVars, removed,
                   sessionErr, reader, writer, popper>>

RegisterRemoteError ==
    /\ SessionRuns /\ popper.pc = "idle"
    /\ ~resetRemotely /\ resetRemotely' = TRUE
    /\ SetErr("remote", FALSE) /\ SendReset
    /\ UNCHANGED <<sorterVars, cancelled, resetLocally, nilMet, readVars, writeVars, timeVars, removed,
                   sessionErr, reader, writer, popper>>

\* The session ends while the stream is in its map.
Cancel ==
    /\ ~removed /\ ~cancelled /\ popper.pc = "idle" /\ cancelled' = TRUE
    /\ SetErr("cancel", TRUE)
    /\ UNCHANGED <<sorterVars, resetLocally, resetRemotely, nilMet, readVars, writeVars, timeVars,
                   sessionVars, reader, writer, popper>>

\* Mutation: a stream that was closed counts as finished before its FIN was sent.
finished_Closed ==
    \/ cancelled
    \/ finishedReading /\ finishedWriting
    \/ resetRemotely /\ rstSent
    \/ finishedReading /\ rstSent
    \/ finishedWriting /\ finSent /\ resetRemotely

finished ==
    \/ cancelled
    \/ finishedReading /\ (finishedWriting /\ finSent)
    \/ resetRemotely /\ rstSent
    \/ finishedReading /\ rstSent
    \/ finishedWriting /\ finSent /\ resetRemotely

garbageCollect ==
    /\ SessionRuns /\ popper.pc = "idle" /\ finished
    /\ removed' = TRUE
    /\ UNCHANGED <<sorterVars, errVars, readVars, writeVars, readChan, writeChan, timeVars,
                   sessionErr, rstSent, rst, reader, writer, popper>>

SetReadDeadline(t) ==
    /\ t # readDeadline /\ readDeadline' = t
    /\ readChan' = IF t < readDeadline THEN 1 ELSE readChan
    /\ UNCHANGED <<sorterVars, errVars, readVars, writeVars, writeChan, writeDeadline, now,
                   sessionVars, reader, writer, popper>>

SetWriteDeadline(t) ==
    /\ t # writeDeadline /\ writeDeadline' = t
    /\ writeChan' = IF t < writeDeadline THEN 1 ELSE writeChan
    /\ UNCHANGED <<sorterVars, errVars, readVars, writeVars, readChan, readDeadline, now,
                   sessionVars, reader, writer, popper>>

Tick ==
    /\ now < MaxTime /\ now' = now + 1
    /\ UNCHANGED <<sorterVars, errVars, readVars, writeVars, readChan, writeChan, readDeadline,
                   writeDeadline, sessionVars, reader, writer, popper>>

Next ==
    \/ \E n \in ReadSizes : Read(n)
    \/ ReadStep
    \/ \E n \in WriteSizes : Write(n)
    \/ WriteWakes \/ Close
    \/ \E n \in PopSizes : PopLen(n)
    \/ PopStep
    \/ \E f \in SentFrames : AddStreamFrame(f)
    \/ \E e \in ResetErrors : Reset(e)
    \/ RegisterRemoteError \/ Cancel \/ garbageCollect
    \/ \E t \in ReadDeadlines : SetReadDeadline(t)
    \/ \E t \in WriteDeadlines : SetWriteDeadline(t)
    \/ Tick

\* Goroutines that can run do, time passes; the peer, the application's calls and
\* the session's events need not happen.
Fairness == WF_vars(ReadStep) /\ WF_vars(WriteWakes) /\ WF_vars(PopStep) /\ WF_vars(Tick)

Spec == Init /\ [][Next]_vars /\ Fairness
-----------------------------------------------------------------------------
\* The frame that Read took under the mutex is still the head when it is copied and
\* popped after frames were added in between, the copy starts at the byte after the
\* last one read, and readPosInFrame is inside the frame; Read never leaves its wait
\* loop without a frame or an error.  The exception is Reset(nil) during a Read: it
\* ends the loop with err nil (stream.go:176), and the Read goes on with a nil frame
\* or with the position of the frame before (stream.go:211).  A Reset(nil) between
\* two Reads, as the HTTP/2 server calls it after its handler, is no exception.
ReadsInOrder ==
    \/ "read" \in nilMet
    \/ /\ reader.pc # "nilFrame"
       /\ reader.pc = "copy" => /\ HasHead /\ HeadFrame = reader.frame
                                /\ readPosInFrame \in 0 .. reader.frame.len
                                /\ reader.frame.first + readPosInFrame = readOffset
       /\ reader.pc = "pop" => HasHead /\ HeadFrame = reader.frame

\* Read reports the end of the stream only after it returned all of its bytes,
\* unless it stops before a byte that has arrived: a frame whose end is cut,
\* because that part is there already, keeps its FIN bit (stream_frame_sorter.go:100);
\* or unless Reset(nil) was called during the Read.
EofMeansComplete ==
    finishedReading => readOffset = Length \/ readOffset \in arrived \/ "read" \in nilMet

\* The offset announced in a FIN or in a RST_STREAM is the final one.  No data
\* follows a FIN, although Close can race with a Write and with the packer, which
\* asks for data and FIN in separate critical sections; none is packed after a
\* reset, even when the packer had seen data before it.  The exception is Reset(nil)
\* while data waits to be packed: with err nil the packer goes on and sends it behind
\* the RST_STREAM (stream.go:319).
FinalOffsetKept ==
    /\ fin # -1 => fin = writeOffset /\ dataForWriting = 0
    /\ rst # -1 => rst = writeOffset \/ "write" \in nilMet

\* Write returns how much of its data was taken for packets, also when the stream
\* gets an error while the packer takes it bit by bit.  A Write that the deadline
\* ends returns 0 instead, whatever was taken (stream.go:286, although interface.go:49
\* says "it may return n > 0"); what is left is still packed.
WriteCountsTaken ==
    writer.pc = "idle" => writer.n = IF writer.late THEN 0 ELSE writer.taken

\* When the session forgets a stream, the peer was told where it ends, no data is
\* left that the packer would still have sent, and a Write that still waits has
\* its wake-up: it can no longer come from the packer or from Cancel.  The exception
\* is again Reset(nil) while data waits to be packed, which leaves the Write waiting.
CollectedIsDone ==
    removed => \/ "write" \in nilMet
               \/ /\ fin # -1 \/ rst # -1
                  /\ dataForWriting = 0 \/ err # "nil"
                  /\ writer.pc = "wait" => writeChan = 1

\* A blocked Read goes on once there is data for it or the stream is cancelled or
\* reset locally as its first error: no wake-up through readChan is lost.
BlockedReadReturns ==
    (reader.pc = "wait" /\ (HasHead \/ err \in {"cancel", "reset"}))
    ~> reader.pc # "wait"

\* A blocked Write returns once its data was taken or the stream has an error.
BlockedWriteReturns ==
    (writer.pc = "wait" /\ (dataForWriting = 0 \/ err # "nil")) ~> writer.pc = "idle"
=============================================================================
