---------------------------- MODULE StreamProofs ----------------------------
(***************************************************************************)
(* One stream, for any data, any way to cut it into frames, any number of  *)
(* gaps and any sizes of Read, Write and packets.                          *)
(***************************************************************************)
EXTENDS Stream, StreamFrameSorterProofs

(***************************************************************************)
(* The writing side.                                                       *)
(*                                                                         *)
(* Only the packer moves writeOffset, so between its critical sections     *)
(* offset + len is the end of what it took.  Once Close was called and     *)
(* nothing is left, no Write can bring new data.                           *)
(***************************************************************************)
Packers == [pc : {"data", "fin", "sentFin"}, max : Nat, offset : Nat, len : Nat]
WritePcs == {"idle", "wait"}
Writers == [pc : WritePcs, calls : Nat, size : Nat, n : Int, taken : Int, late : BOOLEAN,
            from : Nat, timer : {0} \cup WriteDeadlines]
NewWriter == [pc |-> "idle", calls |-> 0, n |-> 0, taken |-> 0, late |-> FALSE]

WriteTypes ==
    /\ dataForWriting \in Nat /\ writeOffset \in Nat
    /\ writeDeadline \in {0} \cup WriteDeadlines
    /\ popper \in {Idle} \cup Packers
    /\ writer \in {NewWriter} \cup Writers

\* The packer between its critical sections (maybePopNormalFramesOfPath).
Packing ==
    /\ popper.pc # "idle" => popper.offset + popper.len = writeOffset
    /\ popper.pc = "data" => popper.len = 0
    /\ popper.pc = "sentFin" => finishedWriting /\ dataForWriting = 0
    /\ fin # -1 => finishedWriting /\ fin = writeOffset /\ dataForWriting = 0

\* What was taken of a Write and what is left make up its data.
WriteDivided ==
    writer.pc = "wait" => writeOffset - writer.from + dataForWriting = writer.size

WInv == WriteTypes /\ Packing /\ WriteDivided /\ WriteCountsTaken

\* The variables that WInv is about.
wvars == <<dataForWriting, writeOffset, writeDeadline, popper, writer, finishedWriting, fin>>

\* A step that leaves the writing side alone.
LEMMA WInvUnchanged == WInv /\ UNCHANGED wvars => WInv'
BY DEF WInv, WriteTypes, Packing, WriteDivided, WriteCountsTaken, wvars

\* What WriteReturns leaves, and what PopData does.
Returned(w, n, t, b) == [w EXCEPT !.pc = "idle", !.n = n, !.taken = t, !.late = b]
Packed(p, n) == [p EXCEPT !.pc = "fin", !.len = n]

\* The writer after WriteReturns.
LEMMA ReturnedWriter ==
    ASSUME NEW w \in Writers, NEW n \in Int, NEW t \in Int, NEW b \in BOOLEAN
    PROVE  /\ Returned(w, n, t, b) \in Writers /\ Returned(w, n, t, b).pc = "idle"
           /\ Returned(w, n, t, b).n = n /\ Returned(w, n, t, b).taken = t
           /\ Returned(w, n, t, b).late = b
<1>0. PICK v : v = [w EXCEPT !.pc = "idle", !.n = n, !.taken = t, !.late = b]
  OBVIOUS
<1>1. /\ w.calls \in Nat /\ w.size \in Nat /\ w.from \in Nat
      /\ w.timer \in {0} \cup WriteDeadlines
  BY DEF Writers
<1>2. v = [pc |-> "idle", calls |-> w.calls, size |-> w.size, n |-> n, taken |-> t, late |-> b,
           from |-> w.from, timer |-> w.timer]
  BY <1>0, Zenon DEF Writers
<1>3. v \in Writers /\ v.pc = "idle" /\ v.n = n /\ v.taken = t /\ v.late = b
  BY <1>1, <1>2 DEF Writers, WritePcs
<1> QED BY <1>0, <1>3 DEF Returned

\* The packer after PopData.
LEMMA PackedData ==
    ASSUME NEW p \in Packers, NEW n \in Nat
    PROVE  /\ Packed(p, n) \in Packers /\ Packed(p, n).pc = "fin"
           /\ Packed(p, n).offset = p.offset /\ Packed(p, n).len = n
<1>0. PICK q : q = [p EXCEPT !.pc = "fin", !.len = n]
  OBVIOUS
<1>1. p.max \in Nat /\ p.offset \in Nat
  BY DEF Packers
<1>2. q = [pc |-> "fin", max |-> p.max, offset |-> p.offset, len |-> n]
  BY <1>0, Zenon DEF Packers
<1>3. q \in Packers /\ q.pc = "fin" /\ q.offset = p.offset /\ q.len = n
  BY <1>1, <1>2 DEF Packers
<1> QED BY <1>0, <1>3 DEF Packed

\* A new stream has written nothing.
LEMMA WriteInit == Init => WInv
<1> SUFFICES ASSUME Init PROVE WInv
  OBVIOUS
<1>1. WriteTypes
  BY DEF Init, WriteTypes, NewWriter, Idle
<1>2. Packing /\ WriteDivided /\ WriteCountsTaken
  BY DEF Init, Packing, WriteDivided, WriteCountsTaken, Idle
<1> QED BY <1>1, <1>2 DEF WInv

\* A Write that returns at once, or hands its data over.
LEMMA WriteKeeps ==
    ASSUME WInv, NEW size \in WriteSizes, Write(size)
    PROVE  WInv'
<1> DEFINE w == [pc |-> "wait", calls |-> writer.calls + 1, size |-> size, n |-> 0, taken |-> 0,
                 late |-> FALSE, from |-> writeOffset, timer |-> writeDeadline]
<1>1. size \in Nat /\ writeOffset \in Nat /\ dataForWriting \in Nat
  BY StreamConstants DEF WInv, WriteTypes
<1>2. writer.calls + 1 \in Nat
  <2>1. writer.calls \in Nat
    BY DEF WInv, WriteTypes, NewWriter, Writers
  <2> QED BY <2>1
<1>3. w \in Writers
  <2>1. writeDeadline \in {0} \cup WriteDeadlines
    BY DEF WInv, WriteTypes
  <2> HIDE DEF WriteTypes
  <2> QED BY <1>1, <1>2, <2>1 DEF Writers, WritePcs
<1>4. w.from = writeOffset /\ w.size = size /\ w.pc = "wait"
  OBVIOUS
<1>5. UNCHANGED <<writeOffset, writeDeadline, popper, finishedWriting, fin>>
  BY DEF Write, notWriteVars, timeVars
<1>6. CASE resetLocally \/ err # "nil" \/ finishedWriting \/ size = 0
  <2>1. WriteReturns(w, 0) /\ dataForWriting' = dataForWriting
    BY <1>6 DEF Write
  <2>2. writer' \in Writers /\ writer'.pc = "idle" /\ writer'.n = 0 /\ writer'.taken = 0
    <3> DEFINE b == Expired(writeDeadline)
    <3>1. b \in BOOLEAN
      BY DEF Expired
    <3>2. writer' = Returned(w, 0, writeOffset - w.from, b)
      BY <2>1 DEF WriteReturns, Returned
    <3>3. writeOffset - w.from = 0
      BY <1>1, <1>4
    <3> HIDE DEF b, w
    <3>4. 0 \in Int /\ writeOffset - w.from \in Int
      BY <1>1, <1>4
    <3>5. writer' \in Writers /\ writer'.pc = "idle" /\ writer'.n = 0
          /\ writer'.taken = writeOffset - w.from
      BY <1>3, <3>1, <3>2, <3>4, ReturnedWriter
    <3> QED BY <3>3, <3>5
  <2>3. WriteTypes'
    BY <1>1, <1>5, <2>1, <2>2 DEF WInv, WriteTypes
  <2> QED BY <1>5, <2>1, <2>2, <2>3 DEF WInv, Packing, WriteDivided, WriteCountsTaken
<1>7. CASE ~(resetLocally \/ err # "nil" \/ finishedWriting \/ size = 0)
  <2>1. dataForWriting' = size /\ (IF Expired(writeDeadline) THEN WriteReturns(w, 0) ELSE writer' = w)
    BY <1>7 DEF Write
  <2>2. ~finishedWriting /\ popper.pc # "sentFin" /\ fin = -1
    BY <1>7 DEF WInv, Packing
  <2>3. CASE Expired(writeDeadline)
    <3>1. writer' \in Writers /\ writer'.pc = "idle" /\ writer'.n = 0 /\ writer'.taken = 0
      <4> DEFINE b == Expired(writeDeadline)
      <4>1. b \in BOOLEAN
        BY DEF Expired
      <4>2. writer' = Returned(w, 0, writeOffset - w.from, b)
        BY <2>1, <2>3 DEF WriteReturns, Returned
      <4>3. writeOffset - w.from = 0
        BY <1>1, <1>4
      <4> HIDE DEF b, w
      <4>5. 0 \in Int /\ writeOffset - w.from \in Int
        BY <4>3
      <4>6. writer' \in Writers /\ writer'.pc = "idle" /\ writer'.n = 0
            /\ writer'.taken = writeOffset - w.from
        BY <1>3, <4>1, <4>2, <4>5, ReturnedWriter
      <4> QED BY <4>3, <4>6
    <3>2. WriteTypes'
      BY <1>1, <1>5, <2>1, <3>1 DEF WInv, WriteTypes
    <3> QED BY <1>5, <2>1, <2>2, <3>1, <3>2 DEF WInv, Packing, WriteDivided, WriteCountsTaken
  <2>4. CASE ~Expired(writeDeadline)
    <3>1. writer' \in Writers /\ writer'.pc = "wait" /\ writer'.from = writeOffset /\ writer'.size = size
      BY <1>3, <1>4, <2>1, <2>4, Zenon
    <3>2. WriteTypes'
      BY <1>1, <1>5, <2>1, <3>1 DEF WInv, WriteTypes
    <3>3. WriteDivided' /\ WriteCountsTaken'
      BY <1>1, <1>5, <2>1, <3>1 DEF WriteDivided, WriteCountsTaken
    <3> QED BY <1>5, <2>1, <2>2, <3>2, <3>3 DEF WInv, Packing
  <2> QED BY <2>3, <2>4
<1> QED BY <1>6, <1>7

\* A blocked Write that is woken up.
LEMMA WriteWakesKeeps ==
    ASSUME WInv, WriteWakes
    PROVE  WInv'
<1>1. writer.pc = "wait" /\ writer \in Writers
  BY DEF WriteWakes, WInv, WriteTypes, NewWriter
<1>2. UNCHANGED <<dataForWriting, writeOffset, writeDeadline, popper, finishedWriting, fin>>
  BY DEF WriteWakes, notWriteVars, timeVars, writeVars
<1>3. /\ writer.from \in Nat /\ writer.size \in Nat /\ writeOffset \in Nat /\ dataForWriting \in Nat
      /\ writeDeadline \in {0} \cup WriteDeadlines
      /\ writeOffset - writer.from + dataForWriting = writer.size
  BY <1>1 DEF WInv, WriteTypes, WriteDivided, Writers
<1>4. /\ writer' \in Writers
      /\ writer'.pc = "wait" => writer'.from = writer.from /\ writer'.size = writer.size
      /\ writer'.pc = "idle" => writer'.n = IF writer'.late THEN 0 ELSE writer'.taken
  <2>1. CASE Expired(writeDeadline)
    <3> DEFINE b == Expired(writeDeadline)
    <3>0. b \in BOOLEAN
      BY DEF Expired
    <3>1. writer' = Returned(writer, 0, writeOffset - writer.from, b)
      BY <2>1 DEF WriteWakes, WriteReturns, Returned
    <3>2. b
      BY <2>1
    <3> HIDE DEF b
    <3>3. 0 \in Int /\ writeOffset - writer.from \in Int
      BY <1>3
    <3>4. writer' \in Writers /\ writer'.pc = "idle" /\ writer'.late = b /\ writer'.n = 0
      BY <1>1, <3>0, <3>1, <3>3, ReturnedWriter
    <3> QED BY <3>2, <3>4
  <2>2. CASE ~Expired(writeDeadline) /\ (dataForWriting = 0 \/ err # "nil")
    <3> DEFINE b == Expired(writeDeadline)
    <3>0. b \in BOOLEAN
      BY DEF Expired
    <3>1. writer' = Returned(writer, Written, writeOffset - writer.from, b)
      BY <2>2 DEF WriteWakes, WriteReturns, Returned
    <3>2. Written = writeOffset - writer.from /\ Written \in Int
      BY <1>3, <2>2 DEF Written
    <3>3. ~b
      BY <2>2
    <3> HIDE DEF b
    <3>4. writer' \in Writers /\ writer'.pc = "idle" /\ writer'.n = Written
          /\ writer'.taken = writeOffset - writer.from /\ writer'.late = b
      BY <1>1, <3>0, <3>1, <3>2, ReturnedWriter
    <3> QED BY <3>2, <3>3, <3>4
  <2>3. CASE ~Expired(writeDeadline) /\ ~(dataForWriting = 0 \/ err # "nil")
    <3>1. writer' = [writer EXCEPT !.timer = writeDeadline]
      BY <2>3 DEF WriteWakes
    <3> QED BY <1>1, <1>3, <3>1 DEF Writers, WritePcs
  <2> QED BY <2>1, <2>2, <2>3
<1>5. WriteTypes'
  BY <1>2, <1>4 DEF WInv, WriteTypes
<1> QED BY <1>2, <1>3, <1>4, <1>5 DEF WInv, Packing, WriteDivided, WriteCountsTaken

\* The critical sections of the packer.
LEMMA PackKeeps ==
    ASSUME WInv, PopStep \/ \E n \in PopSizes : PopLen(n)
    PROVE  WInv'
<1>1. UNCHANGED <<writeDeadline, finishedWriting, writer>>
  BY DEF PopStep, PopLen, PopData, PopFin, PopSentFin, notWriteVars, timeVars, writeVars
<1>2. WriteCountsTaken'
  BY <1>1 DEF WInv, WriteCountsTaken
<1>3. /\ dataForWriting \in Nat /\ writeOffset \in Nat /\ popper \in {Idle} \cup Packers
      /\ writer \in {NewWriter} \cup Writers /\ writeDeadline \in {0} \cup WriteDeadlines
  BY DEF WInv, WriteTypes
<1>4. ASSUME NEW n \in PopSizes, PopLen(n) PROVE WInv'
  <2>1. UNCHANGED <<dataForWriting, writeOffset, fin>>
    BY <1>4 DEF PopLen, writeVars
  <2>2. popper' \in Packers /\ popper'.offset + popper'.len = writeOffset /\ popper'.pc # "sentFin"
        /\ popper'.len = 0
    <3>1. n \in Nat
      BY StreamConstants
    <3>2. CASE HasDataForWriting
      <4>1. popper' = [pc |-> "data", max |-> n, offset |-> writeOffset, len |-> 0]
        BY <1>4, <3>2 DEF PopLen
      <4> QED BY <1>3, <3>1, <4>1 DEF Packers
    <3>3. CASE ~HasDataForWriting
      <4>1. popper' = [pc |-> "fin", max |-> n, offset |-> writeOffset, len |-> 0]
        BY <1>4, <3>3 DEF PopLen
      <4> QED BY <1>3, <3>1, <4>1 DEF Packers
    <3> QED BY <3>2, <3>3
  <2> QED BY <1>1, <1>2, <1>3, <2>1, <2>2 DEF WInv, WriteTypes, Packing, WriteDivided
<1>5. CASE PopData
  <2>1. /\ popper.pc = "data" /\ popper \in Packers /\ popper.offset + popper.len = writeOffset
        /\ popper.len = 0 /\ popper.offset \in Nat /\ popper.max \in Nat /\ fin' = fin
    BY <1>3, <1>5 DEF PopData, Idle, Packers, WInv, Packing
  <2>2. popper.offset = writeOffset
    BY <2>1
  <2>3. CASE UNCHANGED <<dataForWriting, writeOffset>> /\ popper' = [popper EXCEPT !.pc = "fin"]
    <3>1. popper' \in Packers /\ popper'.pc = "fin" /\ popper'.offset = popper.offset /\ popper'.len = popper.len
      BY <2>1, <2>3 DEF Packers
    <3> QED BY <1>1, <1>2, <1>3, <2>1, <2>3, <3>1 DEF WInv, WriteTypes, Packing, WriteDivided
  <2>4. CASE ~(UNCHANGED <<dataForWriting, writeOffset>> /\ popper' = [popper EXCEPT !.pc = "fin"])
    <3> DEFINE n == IF dataForWriting > popper.max THEN popper.max ELSE dataForWriting
    <3>1. /\ HasDataForWriting /\ dataForWriting' = dataForWriting - n
          /\ writeOffset' = writeOffset + n /\ popper' = Packed(popper, n)
      BY <1>5, <2>4 DEF PopData, Packed
    <3>2. n \in 0 .. dataForWriting
      BY <1>3, <2>1
    <3> HIDE DEF n
    <3>3. dataForWriting' \in Nat /\ writeOffset' \in Nat /\ dataForWriting # 0
      BY <1>3, <3>1, <3>2 DEF HasDataForWriting
    <3>4. popper' \in Packers /\ popper'.pc = "fin" /\ popper'.offset = popper.offset /\ popper'.len = n
      <4>1. n \in Nat
        BY <1>3, <3>2
      <4> QED BY <2>1, <3>1, <4>1, PackedData, Zenon
    <3>5. fin = -1
      BY <3>3 DEF WInv, Packing
    <3>6. Packing'
      BY <1>1, <1>3, <2>1, <2>2, <3>1, <3>2, <3>4, <3>5 DEF Packing
    <3>7. WriteDivided'
      <4>1. SUFFICES ASSUME writer.pc = "wait"
                     PROVE  writeOffset' - writer.from + dataForWriting' = writer.size
        BY <1>1 DEF WriteDivided
      <4>2. writer.from \in Nat /\ writer.size \in Nat
            /\ writeOffset - writer.from + dataForWriting = writer.size
        BY <1>3, <4>1 DEF NewWriter, Writers, WInv, WriteDivided
      <4> QED BY <1>3, <3>1, <3>2, <4>2
    <3> QED BY <1>1, <1>2, <1>3, <3>3, <3>4, <3>6, <3>7 DEF WInv, WriteTypes
  <2> QED BY <2>3, <2>4
<1>6. CASE PopFin
  <2>1. UNCHANGED <<dataForWriting, writeOffset, fin>> /\ popper.pc = "fin" /\ popper \in Packers
    BY <1>3, <1>6 DEF PopFin, writeVars, Idle
  <2>2. CASE shouldSendFin
    <3>1. popper' = [popper EXCEPT !.pc = "sentFin"]
      BY <1>6, <2>2 DEF PopFin
    <3>2. popper' \in Packers /\ popper'.pc = "sentFin" /\ popper'.offset = popper.offset /\ popper'.len = popper.len
      BY <2>1, <3>1 DEF Packers
    <3>3. finishedWriting /\ dataForWriting = 0
      BY <2>2 DEF shouldSendFin
    <3> QED BY <1>1, <1>2, <1>3, <2>1, <3>2, <3>3 DEF WInv, WriteTypes, Packing, WriteDivided
  <2>3. CASE ~shouldSendFin
    <3>1. popper' = Idle
      BY <1>6, <2>3 DEF PopFin
    <3> QED BY <1>1, <1>2, <1>3, <2>1, <3>1 DEF WInv, WriteTypes, Packing, WriteDivided, Idle
  <2> QED BY <2>2, <2>3
<1>7. CASE PopSentFin
  <2>1. UNCHANGED <<dataForWriting, writeOffset>> /\ popper' = Idle /\ fin' = writeOffset
        /\ finishedWriting /\ dataForWriting = 0
    BY <1>7 DEF PopSentFin, WInv, Packing
  <2> QED BY <1>1, <1>2, <1>3, <2>1 DEF WInv, WriteTypes, Packing, WriteDivided, Idle
<1> QED BY <1>4, <1>5, <1>6, <1>7 DEF PopStep

\* Close and deadlines.
LEMMA CloseKeeps ==
    ASSUME WInv, Close \/ \E t \in WriteDeadlines : SetWriteDeadline(t)
    PROVE  WInv'
<1>1. CASE Close
  BY <1>1 DEF Close, WInv, WriteTypes, Packing, WriteDivided, WriteCountsTaken, notWriteVars, timeVars
<1>2. ASSUME NEW t \in WriteDeadlines, SetWriteDeadline(t) PROVE WInv'
  <2>1. writeDeadline' \in {0} \cup WriteDeadlines
        /\ UNCHANGED <<dataForWriting, writeOffset, popper, writer, finishedWriting, fin>>
    BY <1>2 DEF SetWriteDeadline, writeVars
  <2> QED BY <2>1 DEF WInv, WriteTypes, Packing, WriteDivided, WriteCountsTaken
<1> QED BY <1>1, <1>2

\* The steps that leave the writing side alone.
OtherThanWrite ==
    \/ \E n \in ReadSizes : Read(n)
    \/ ReadStep
    \/ \E f \in SentFrames : AddStreamFrame(f)
    \/ \E e \in ResetErrors : Reset(e)
    \/ RegisterRemoteError \/ Cancel \/ garbageCollect
    \/ \E t \in ReadDeadlines : SetReadDeadline(t)
    \/ Tick

\* The steps of the reading side leave the writing side alone.
LEMMA OthersLeaveWriting == OtherThanWrite => UNCHANGED wvars
<1>1. ASSUME (\E n \in ReadSizes : Read(n)) \/ ReadStep PROVE UNCHANGED wvars
  BY <1>1 DEF Read, ReadStep, ReadEntry, ReadNext, ReadWakes, ReadCopy, ReadPop,
     notReadVars, writeVars, timeVars, wvars
<1>2. ASSUME NEW f \in SentFrames, AddStreamFrame(f) PROVE UNCHANGED wvars
  BY <1>2 DEF AddStreamFrame, writeVars, timeVars, wvars
<1>3. ASSUME (\E e \in ResetErrors : Reset(e)) \/ RegisterRemoteError \/ Cancel PROVE UNCHANGED wvars
  BY <1>3, Zenon DEF Reset, RegisterRemoteError, Cancel, writeVars, timeVars, wvars
<1>4. ASSUME garbageCollect \/ (\E t \in ReadDeadlines : SetReadDeadline(t)) \/ Tick PROVE UNCHANGED wvars
  BY <1>4 DEF garbageCollect, SetReadDeadline, Tick, writeVars, timeVars, wvars
<1> QED BY <1>1, <1>2, <1>3, <1>4 DEF OtherThanWrite

\* The invariant of the writing side, for whatever errors Reset is given.
THEOREM WriteInvariance == Spec => []WInv
<1>1. WInv /\ [Next]_vars => WInv'
  <2> SUFFICES ASSUME WInv, [Next]_vars PROVE WInv'
    OBVIOUS
  <2>1. CASE \E n \in WriteSizes : Write(n)
    BY <2>1, WriteKeeps
  <2>2. CASE WriteWakes
    BY <2>2, WriteWakesKeeps
  <2>3. CASE PopStep \/ \E n \in PopSizes : PopLen(n)
    BY <2>3, PackKeeps
  <2>4. CASE Close \/ \E t \in WriteDeadlines : SetWriteDeadline(t)
    BY <2>4, CloseKeeps
  <2>5. CASE OtherThanWrite
    BY <2>5, OthersLeaveWriting, WInvUnchanged
  <2>6. CASE UNCHANGED vars
    <3>1. UNCHANGED wvars
      BY <2>6 DEF vars, wvars, writeVars, timeVars
    <3> QED BY <3>1, WInvUnchanged
  <2> QED BY <2>1, <2>2, <2>3, <2>4, <2>5, <2>6 DEF Next, OtherThanWrite
<1> QED BY <1>1, WriteInit, PTL DEF Spec

\* Write returns the number of bytes that were taken, or 0 when the deadline ended
\* it, for any sizes of writes and packets, errors and calls of Close.
THEOREM WriteCounts == Spec => []WriteCountsTaken
<1>1. WInv => WriteCountsTaken
  BY DEF WInv
<1> QED BY <1>1, WriteInvariance, PTL

(***************************************************************************)
(* The queue in the stream.  A frame is refused only when there are too    *)
(* many gaps, and then the session ends.                                   *)
(***************************************************************************)
SInv == QInv /\ sessionErr = (result = TooManyGaps)

\* The steps that leave the queue and the reader alone.
OtherThanRead ==
    \/ \E n \in WriteSizes : Write(n)
    \/ WriteWakes \/ Close
    \/ \E n \in PopSizes : PopLen(n)
    \/ PopStep
    \/ \E e \in ResetErrors : Reset(e)
    \/ RegisterRemoteError \/ Cancel \/ garbageCollect
    \/ \E t \in ReadDeadlines : SetReadDeadline(t)
    \/ \E t \in WriteDeadlines : SetWriteDeadline(t)
    \/ Tick

rvars == <<sorterVars, readVars, sessionErr, reader>>

\* The steps of the writing side leave the reading side alone.
LEMMA OthersLeaveReading == OtherThanRead => UNCHANGED rvars
<1>1. ASSUME (\E n \in WriteSizes : Write(n)) \/ WriteWakes \/ Close PROVE UNCHANGED rvars
  BY <1>1, Zenon DEF Write, WriteWakes, Close, notWriteVars, sessionVars, rvars
<1>2. ASSUME (\E n \in PopSizes : PopLen(n)) \/ PopStep PROVE UNCHANGED rvars
  BY <1>2 DEF PopLen, PopStep, PopData, PopFin, PopSentFin, notWriteVars, sessionVars, rvars
<1>3. ASSUME (\E e \in ResetErrors : Reset(e)) \/ RegisterRemoteError \/ Cancel PROVE UNCHANGED rvars
  BY <1>3, Zenon DEF Reset, RegisterRemoteError, Cancel, sessionVars, rvars
<1>4. ASSUME \/ garbageCollect \/ (\E t \in ReadDeadlines : SetReadDeadline(t))
             \/ (\E t \in WriteDeadlines : SetWriteDeadline(t)) \/ Tick
      PROVE  UNCHANGED rvars
  BY <1>4 DEF garbageCollect, SetReadDeadline, SetWriteDeadline, Tick, sessionVars, rvars
<1> QED BY <1>1, <1>2, <1>3, <1>4 DEF OtherThanRead

\* Only AddStreamFrame and the end of a frame in Read change the queue.
LEMMA QueueSteps ==
    [Next]_vars => \/ UNCHANGED <<sorterVars, sessionErr>>
                   \/ \E f \in SentFrames : AddStreamFrame(f)
                   \/ ReadPop
<1> SUFFICES ASSUME [Next]_vars PROVE \/ UNCHANGED <<sorterVars, sessionErr>>
                                      \/ \E f \in SentFrames : AddStreamFrame(f)
                                      \/ ReadPop
  OBVIOUS
<1>1. CASE OtherThanRead
  BY <1>1, OthersLeaveReading DEF rvars
<1>2. CASE UNCHANGED vars
  BY <1>2 DEF vars, sessionVars
<1>3. CASE \E n \in ReadSizes : Read(n)
  BY <1>3 DEF Read, notReadVars, sessionVars
<1>4. CASE ReadEntry \/ ReadNext \/ ReadWakes \/ ReadCopy
  BY <1>4 DEF ReadEntry, ReadNext, ReadWakes, ReadCopy, notReadVars, sessionVars
<1> QED BY <1>1, <1>2, <1>3, <1>4 DEF Next, OtherThanRead, ReadStep

\* An unchanged queue.
LEMMA QueueUnchanged == QInv /\ UNCHANGED sorterVars => QInv'
BY DEF sorterVars, QInv, FramesOK, GapsOK, MaxByteCount

\* Every step keeps the queue right.
LEMMA QueueStays ==
    ASSUME SInv, [Next]_vars
    PROVE  SInv'
<1>1. CASE UNCHANGED <<sorterVars, sessionErr>>
  BY <1>1, QueueUnchanged DEF SInv, sorterVars
<1>2. ASSUME NEW f \in SentFrames, AddStreamFrame(f) PROVE SInv'
  <2>1. Push(f) /\ result # TooManyGaps
    BY <1>2, Zenon DEF AddStreamFrame, SessionRuns, SInv
  <2>2. QInv'
    BY <2>1, PushKeeps DEF SInv
  <2>3. sessionErr' = (result' = TooManyGaps)
    BY <1>2, Zenon DEF AddStreamFrame, SessionRuns, SInv, TooManyGaps
  <2> QED BY <2>2, <2>3 DEF SInv
<1>3. CASE ReadPop
  <2>1. Pop /\ sessionErr' = sessionErr
    BY <1>3 DEF ReadPop, notReadVars, sessionVars
  <2>2. QInv' /\ result' = result
    BY <2>1, PopKeeps DEF SInv, Pop
  <2> QED BY <2>1, <2>2 DEF SInv
<1> QED BY <1>1, <1>2, <1>3, QueueSteps

\* The invariant of the queue, whatever the application and the session do.
THEOREM QueueInvariance == Spec => []SInv
<1>1. Init => SInv
  BY QueueInit, Zenon DEF Init, SInv, SorterInit, TooManyGaps
<1>2. SInv /\ [Next]_vars => SInv'
  BY QueueStays
<1> QED BY <1>1, <1>2, PTL DEF Spec

\* No byte that arrived is lost, repeated or misplaced in the queue, for any stream
\* and any order and division of its frames.
THEOREM QueueLosesNothing == Spec => []NothingLost
<1>1. SInv => NothingLost
  BY QueueImplies DEF SInv
<1> QED BY <1>1, QueueInvariance, PTL

(***************************************************************************)
(* Errors and the end of a stream.  A stream that was reset by the peer or *)
(* cancelled has an error.  One that was reset locally has an error too,   *)
(* unless Reset was given nil: then no new Write gets through, a new Read  *)
(* returns at its entry, and nilMet records the calls under way that the   *)
(* reset did not end.                                                      *)
(***************************************************************************)
Outside == {"idle", "entry"}

ErrInv ==
    /\ cancelled \/ resetRemotely => err # "nil"
    /\ resetLocally /\ err = "nil" /\ reader.pc \notin Outside => "read" \in nilMet
    /\ rst # -1 => \/ "write" \in nilMet
                   \/ rst = writeOffset /\ (err # "nil" \/ (resetLocally /\ dataForWriting = 0))

\* A stream that was collected has sent its end, and a Write waits only while its
\* data or its wake-up is still to come.
EndInv ==
    /\ finSent => fin # -1
    /\ rstSent => rst # -1
    /\ removed => finSent \/ rstSent
    /\ writer.pc = "wait" /\ (dataForWriting = 0 \/ err # "nil") => writeChan = 1

\* The variables that the two are about, besides the reader.
evars == <<errVars, rst, rstSent, removed, finSent, fin, writeOffset, dataForWriting, writer.pc, writeChan>>

\* Steps that leave all of that alone, and let no Read into its loop after a reset.
LEMMA EndUnchanged ==
    ASSUME ErrInv, EndInv, UNCHANGED evars,
           reader'.pc \in Outside \/ reader.pc \notin Outside \/ ~resetLocally
    PROVE  ErrInv' /\ EndInv'
<1>1. UNCHANGED <<err, cancelled, resetLocally, resetRemotely, nilMet, rst, rstSent, removed, finSent, fin,
                  writeOffset, dataForWriting, writer.pc, writeChan>>
  BY DEF evars, errVars
<1> QED BY <1>1, Zenon DEF ErrInv, EndInv

\* The steps of Read.
LEMMA ReaderKeepsEnd ==
    ASSUME ErrInv, EndInv, (\E n \in ReadSizes : Read(n)) \/ ReadStep
    PROVE  ErrInv' /\ EndInv'
<1>1. UNCHANGED evars
  BY Zenon DEF Read, ReadStep, ReadEntry, ReadNext, ReadWakes, ReadCopy, ReadPop, notReadVars, writeVars,
     sessionVars, evars
<1>2. CASE \E n \in ReadSizes : Read(n)
  <2>1. reader'.pc = "entry"
    BY <1>2 DEF Read
  <2> QED BY <1>1, <2>1, EndUnchanged DEF Outside
<1>3. CASE ReadEntry
  <2>1. reader'.pc = "idle" \/ ~resetLocally
    BY <1>3 DEF ReadEntry, ReadReturns, Idle
  <2> QED BY <1>1, <2>1, EndUnchanged DEF Outside
<1>4. CASE ReadNext \/ ReadWakes \/ ReadCopy \/ ReadPop
  <2>1. reader.pc \notin Outside
    BY <1>4 DEF ReadNext, ReadWakes, ReadCopy, ReadPop, Outside
  <2> QED BY <1>1, <2>1, EndUnchanged
<1> QED BY <1>2, <1>3, <1>4 DEF ReadStep

\* Write hands data over only to a stream without an error, and waits only for it.
LEMMA WriterKeepsEnd ==
    ASSUME WInv, ErrInv, EndInv, (\E n \in WriteSizes : Write(n)) \/ WriteWakes
    PROVE  ErrInv' /\ EndInv'
<1>1. UNCHANGED <<err, cancelled, resetLocally, resetRemotely, nilMet, rst, rstSent, removed, finSent, fin,
                  writeOffset, reader>>
  BY Zenon DEF Write, WriteWakes, notWriteVars, errVars, sessionVars, writeVars
<1>2. ASSUME NEW n \in WriteSizes, Write(n) PROVE ErrInv' /\ EndInv'
  <2>1. writeChan' = writeChan
    BY <1>2 DEF Write
  <2>2. CASE resetLocally \/ err # "nil" \/ finishedWriting \/ n = 0
    <3>1. dataForWriting' = dataForWriting /\ writer'.pc = "idle"
      BY <1>2, <2>2 DEF Write, WriteReturns
    <3> QED BY <1>1, <2>1, <3>1, Zenon DEF ErrInv, EndInv
  <2>3. CASE ~(resetLocally \/ err # "nil" \/ finishedWriting \/ n = 0)
    <3>1. dataForWriting' = n
      BY <1>2, <2>3 DEF Write
    <3> QED BY <1>1, <2>3, <3>1, Zenon DEF ErrInv, EndInv
  <2> QED BY <2>2, <2>3
<1>3. CASE WriteWakes
  <2>1. dataForWriting' = dataForWriting
    BY <1>3 DEF WriteWakes, writeVars
  <2>2. writer.pc = "wait" /\ writer \in Writers
    BY <1>3 DEF WriteWakes, WInv, WriteTypes, NewWriter
  <2>3. writer'.pc = "wait" => ~(dataForWriting = 0 \/ err # "nil")
    <3>1. CASE Expired(writeDeadline) \/ dataForWriting = 0 \/ err # "nil"
      <4>1. PICK m : WriteReturns(writer, m)
        BY <1>3, <3>1 DEF WriteWakes
      <4>2. writer'.pc = "idle"
        BY <2>2, <4>1 DEF WriteReturns, Writers
      <4> QED BY <4>2
    <3> QED BY <3>1
  <2> QED BY <1>1, <2>1, <2>3, Zenon DEF ErrInv, EndInv
<1> QED BY <1>2, <1>3

\* The packer: the data that it takes after a RST_STREAM is data that a nil reset met.
LEMMA PackerKeepsEnd ==
    ASSUME WInv, ErrInv, EndInv, PopStep \/ \E n \in PopSizes : PopLen(n)
    PROVE  ErrInv' /\ EndInv'
<1>1. UNCHANGED <<err, cancelled, resetLocally, resetRemotely, nilMet, rst, rstSent, removed, reader, writer>>
  BY Zenon DEF PopStep, PopLen, PopData, PopFin, PopSentFin, notWriteVars, errVars, sessionVars
<1>2. CASE PopFin \/ \E n \in PopSizes : PopLen(n)
  <2>1. UNCHANGED <<finSent, fin, writeOffset, dataForWriting, writeChan>>
    BY <1>2 DEF PopFin, PopLen, writeVars
  <2> QED BY <1>1, <2>1, Zenon DEF ErrInv, EndInv
<1>3. CASE PopData
  <2>1. UNCHANGED <<finSent, fin>>
    BY <1>3 DEF PopData
  <2>2. CASE UNCHANGED <<dataForWriting, writeOffset, writeChan>>
    BY <1>1, <2>1, <2>2, Zenon DEF ErrInv, EndInv
  <2>3. CASE /\ HasDataForWriting
             /\ writeChan' = IF dataForWriting' = 0 THEN 1 ELSE writeChan
    BY <1>1, <2>1, <2>3, Zenon DEF ErrInv, EndInv, HasDataForWriting
  <2> QED BY <1>3, <2>2, <2>3 DEF PopData
<1>4. CASE PopSentFin
  <2>1. UNCHANGED <<writeOffset, dataForWriting, writeChan>> /\ fin' = popper.offset + popper.len
        /\ finSent'
    BY <1>4 DEF PopSentFin
  <2>2. fin' # -1
    BY <1>4, <2>1 DEF PopSentFin, WInv, WriteTypes, Packing
  <2> QED BY <1>1, <2>1, <2>2, Zenon DEF ErrInv, EndInv
<1> QED BY <1>2, <1>3, <1>4 DEF PopStep

\* Resets and cancellation wake the Write whose data the packer will not take.
LEMMA ResetKeepsEnd ==
    ASSUME WInv, ErrInv, EndInv, (\E e \in ResetErrors : Reset(e)) \/ RegisterRemoteError \/ Cancel
    PROVE  ErrInv' /\ EndInv'
<1>1. UNCHANGED <<finSent, fin, writeOffset, dataForWriting, writer, removed, reader>>
  BY Zenon DEF Reset, RegisterRemoteError, Cancel, writeVars, sessionVars
<1>2. writeOffset # -1
  BY DEF WInv, WriteTypes
<1>3. writer'.pc = "wait" /\ (dataForWriting' = 0 \/ err' # "nil") => writeChan' = 1
  BY <1>1 DEF Reset, RegisterRemoteError, Cancel, SetErr, EndInv
<1>4. ASSUME NEW e \in ResetErrors, Reset(e) PROVE ErrInv' /\ EndInv'
  <2>1. /\ resetLocally' /\ UNCHANGED <<cancelled, resetRemotely>>
        /\ err' = (IF err = "nil" THEN e ELSE err) /\ nilMet \subseteq nilMet'
        /\ UNCHANGED <<rstSent, rst>> \/ (rstSent' /\ rst' = writeOffset)
    BY <1>4, Zenon DEF Reset, SetErr, SendReset
  <2>2. err' = "nil" => /\ reader.pc \notin Outside => "read" \in nilMet'
                        /\ dataForWriting # 0 => "write" \in nilMet'
    BY <1>4, Zenon DEF Reset, Outside
  <2>3. EndInv'
    <3>1. (rstSent' => rst' # -1) /\ (rstSent => rstSent')
      <4>1. CASE UNCHANGED <<rstSent, rst>>
        BY <4>1, Zenon DEF EndInv
      <4>2. CASE rstSent' /\ rst' = writeOffset
        BY <1>2, <4>2, Zenon
      <4> QED BY <2>1, <4>1, <4>2
    <3> QED BY <1>1, <1>3, <3>1, Zenon DEF EndInv
  <2>4. CASE err' # "nil"
    <3>1. ErrInv'
      BY <1>1, <2>1, <2>4, Zenon DEF ErrInv
    <3> QED BY <2>3, <3>1
  <2>5. CASE err' = "nil"
    <3>1. err = "nil"
      BY <2>1, <2>5, Zenon
    <3>2. (cancelled \/ resetRemotely => err # "nil")'
      BY <2>1, <3>1, Zenon DEF ErrInv
    <3>3. (reader.pc \notin Outside => "read" \in nilMet)'
      BY <1>1, <2>2, <2>5, Zenon
    <3>4. ("write" \in nilMet)' \/ dataForWriting' = 0
      BY <1>1, <2>2, <2>5, Zenon
    <3>5. (rst # -1 => "write" \in nilMet \/ rst = writeOffset)'
      BY <1>1, <2>1, Zenon DEF ErrInv
    <3> QED BY <2>1, <2>3, <3>2, <3>3, <3>4, <3>5, Zenon DEF ErrInv
  <2> QED BY <2>4, <2>5
<1>5. CASE RegisterRemoteError
  <2>1. /\ err' # "nil" /\ UNCHANGED nilMet
        /\ UNCHANGED <<rstSent, rst>> \/ (rstSent' /\ rst' = writeOffset)
    BY <1>5 DEF RegisterRemoteError, SetErr, SendReset
  <2>2. EndInv'
    <3>1. (rstSent' => rst' # -1) /\ (rstSent => rstSent')
      <4>1. CASE UNCHANGED <<rstSent, rst>>
        BY <4>1, Zenon DEF EndInv
      <4>2. CASE rstSent' /\ rst' = writeOffset
        BY <1>2, <4>2, Zenon
      <4> QED BY <2>1, <4>1, <4>2
    <3> QED BY <1>1, <1>3, <3>1, Zenon DEF EndInv
  <2>3. ErrInv'
    BY <1>1, <2>1, Zenon DEF ErrInv
  <2> QED BY <2>2, <2>3
<1>6. CASE Cancel
  <2>1. err' # "nil" /\ UNCHANGED <<nilMet, rstSent, rst>>
    BY <1>6 DEF Cancel, SetErr, sessionVars
  <2>2. EndInv'
    BY <1>1, <1>3, <2>1, Zenon DEF EndInv
  <2>3. ErrInv'
    BY <1>1, <2>1, Zenon DEF ErrInv
  <2> QED BY <2>2, <2>3
<1> QED BY <1>4, <1>5, <1>6

\* The other steps: frames, the collection, deadlines and time.
LEMMA OthersKeepEnd ==
    ASSUME ErrInv, EndInv,
           \/ \E f \in SentFrames : AddStreamFrame(f)
           \/ Close \/ garbageCollect \/ Tick
           \/ \E t \in ReadDeadlines : SetReadDeadline(t)
           \/ \E t \in WriteDeadlines : SetWriteDeadline(t)
    PROVE  ErrInv' /\ EndInv'
<1>1. CASE \/ \E f \in SentFrames : AddStreamFrame(f)
           \/ Close \/ Tick
           \/ \E t \in ReadDeadlines : SetReadDeadline(t)
  <2>1. UNCHANGED evars /\ UNCHANGED reader
    BY <1>1, Zenon DEF AddStreamFrame, Close, Tick, SetReadDeadline, notWriteVars, writeVars, sessionVars, evars
  <2> QED BY <2>1, EndUnchanged
<1>2. CASE garbageCollect
  <2>1. UNCHANGED <<err, cancelled, resetLocally, resetRemotely, nilMet, rst, rstSent, finSent, fin,
                    writeOffset, dataForWriting, writer, writeChan, reader>>
    BY <1>2 DEF garbageCollect, errVars, writeVars
  <2>2. finSent \/ rstSent
    BY <1>2 DEF garbageCollect, finished, SessionRuns
  <2> QED BY <2>1, <2>2, Zenon DEF ErrInv, EndInv
<1>3. ASSUME NEW t \in WriteDeadlines, SetWriteDeadline(t) PROVE ErrInv' /\ EndInv'
  <2>1. /\ UNCHANGED <<err, cancelled, resetLocally, resetRemotely, nilMet, rst, rstSent, removed, finSent, fin,
                       writeOffset, dataForWriting, writer, reader>>
        /\ writeChan' = 1 \/ writeChan' = writeChan
    BY <1>3, Zenon DEF SetWriteDeadline, errVars, writeVars, sessionVars
  <2> QED BY <2>1, Zenon DEF ErrInv, EndInv
<1> QED BY <1>1, <1>2, <1>3

\* The invariant of errors and of the end of a stream.
THEOREM EndInvariance == Spec => [](ErrInv /\ EndInv)
<1>1. Init => ErrInv /\ EndInv
  BY DEF Init, ErrInv, EndInv, Outside, Idle
<1>2. WInv /\ ErrInv /\ EndInv /\ [Next]_vars => ErrInv' /\ EndInv'
  <2> SUFFICES ASSUME WInv, ErrInv, EndInv, [Next]_vars PROVE ErrInv' /\ EndInv'
    OBVIOUS
  <2>1. CASE UNCHANGED vars
    <3>1. UNCHANGED evars /\ UNCHANGED reader
      BY <2>1, Zenon DEF vars, writeVars, sessionVars, evars
    <3> QED BY <3>1, EndUnchanged
  <2>2. CASE Next
    BY <2>2, ReaderKeepsEnd, WriterKeepsEnd, PackerKeepsEnd, ResetKeepsEnd, OthersKeepEnd, Zenon DEF Next
  <2> QED BY <2>1, <2>2
<1> QED BY <1>1, <1>2, WriteInvariance, PTL DEF Spec

\* The offset announced in a FIN or in a RST_STREAM is the final one, for any
\* interleaving of Write, Close, Reset, the packer and a RST_STREAM of the peer; the
\* only exception is data that waits to be packed when Reset is given nil.
THEOREM OffsetsAreFinal == Spec => []FinalOffsetKept
<1>1. WInv /\ ErrInv => FinalOffsetKept
  BY DEF WInv, Packing, ErrInv, FinalOffsetKept
<1> QED BY <1>1, WriteInvariance, EndInvariance, PTL

\* A stream is forgotten only after its end was sent, with nothing left to send and
\* no Write left without a wake-up.
THEOREM CollectedStreamsAreDone == Spec => []CollectedIsDone
<1>1. WInv /\ ErrInv /\ EndInv => CollectedIsDone
  BY DEF WInv, Packing, ErrInv, EndInv, CollectedIsDone
<1> QED BY <1>1, WriteInvariance, EndInvariance, PTL

(***************************************************************************)
(* Reading.  Only Read moves readOffset, by copying from the head of the   *)
(* queue; the head stays while frames are added without Read's mutex.      *)
(***************************************************************************)
ReaderFields == {"pc", "size", "n", "timer", "frame"}
ReadPcs == {"idle", "entry", "next", "copy", "wait", "pop"}
IsReader(r) == /\ r = [x \in ReaderFields |-> r[x]]
               /\ r.size \in Nat /\ r.n \in Nat /\ r.n <= r.size

AtHead(pos) == pos = readPosition
               \/ (HasHead /\ pos \in readPosition .. readPosition + HeadFrame.len - 1)

Reading ==
    /\ readOffset \in Nat /\ reader.pc \in ReadPcs
    /\ reader.pc # "idle" => IsReader(reader)
    /\ finishedReading => /\ reader.pc \in {"idle", "entry"}
                          /\ readOffset = Length \/ readOffset \in arrived
    /\ reader.pc = "copy" => /\ HasHead /\ HeadFrame = reader.frame /\ readPosInFrame \in Nat
                             /\ readPosInFrame <= reader.frame.len
                             /\ readOffset = readPosition + readPosInFrame
    /\ reader.pc = "pop" => /\ HasHead /\ HeadFrame = reader.frame
                            /\ readOffset = readPosition + reader.frame.len
    /\ reader.pc \notin {"copy", "pop"} => AtHead(readOffset)

\* The reader after a step to p with n bytes read.
Moved(p, n) == [reader EXCEPT !.pc = p, !.n = n]

\* The reader at another place, with other progress.
LEMMA MovedReader ==
    ASSUME IsReader(reader), NEW p, NEW n, n \in Nat, n <= reader.size, NEW r, r = Moved(p, n)
    PROVE  IsReader(r) /\ r.pc = p /\ r.n = n /\ r.frame = reader.frame /\ r.size = reader.size
<1>1. DOMAIN reader = ReaderFields
  BY DEF IsReader
<1>2. r = [x \in ReaderFields |-> r[x]]
  BY <1>1, Zenon DEF Moved
<1>3. r.pc = p /\ r.n = n /\ r.frame = reader.frame /\ r.size = reader.size
  BY <1>1, SMTT(30), Zenon DEF Moved, ReaderFields
<1> QED BY <1>2, <1>3 DEF IsReader

\* The head of the queue is a frame of the next bytes.
LEMMA HeadIsFrame ==
    ASSUME SInv, HasHead
    PROVE  /\ HeadFrame.Offset = readPosition /\ HeadFrame.first = readPosition
           /\ HeadFrame.len \in Nat /\ readPosition \in Nat
           /\ HeadFrame.FinBit => readPosition + HeadFrame.len = Length
                                  \/ readPosition + HeadFrame.len \in arrived
BY SorterConstants DEF SInv, QInv, FramesOK, FrameOK, Frames, HasHead, HeadFrame

\* A call of Read.
LEMMA ReadBegins ==
    ASSUME Reading, NEW size \in ReadSizes, Read(size)
    PROVE  Reading'
<1>1. /\ UNCHANGED <<sorterVars, readVars>>
      /\ reader' = [pc |-> "entry", size |-> size, n |-> 0, timer |-> 0, frame |-> FinFrame]
      /\ reader.pc = "idle"
  BY DEF Read
<1>2. IsReader(reader') /\ reader'.pc = "entry"
  <2>1. size \in Nat
    BY StreamConstants
  <2>2. PICK r : r = reader'
    OBVIOUS
  <2>3. r = [x \in ReaderFields |-> r[x]]
    BY <1>1, <2>2, Zenon DEF ReaderFields
  <2>4. r.size = size /\ r.n = 0 /\ r.pc = "entry"
    BY <1>1, <2>2
  <2>5. IsReader(r)
    BY <2>1, <2>3, <2>4, SMTT(30), Zenon DEF IsReader
  <2> QED BY <2>2, <2>4, <2>5
<1> QED BY <1>1, <1>2, Zenon DEF Reading, readVars, sorterVars, ReadPcs, AtHead, HasHead, HeadFrame

\* A step that only moves the reader, away from the head.
LEMMA ReaderMoves ==
    ASSUME Reading, UNCHANGED <<sorterVars, readOffset, finishedReading>>,
           reader.pc \notin {"copy", "pop"},
           \/ reader'.pc = "idle"
           \/ reader'.pc \in {"next", "wait"} /\ IsReader(reader') /\ ~finishedReading
    PROVE  Reading'
BY DEF Reading, sorterVars, ReadPcs, AtHead, HasHead, HeadFrame

\* Read returns at once, or enters its loop.
LEMMA EntryKeeps ==
    ASSUME Reading, ReadEntry
    PROVE  Reading'
<1>1. UNCHANGED <<sorterVars, readOffset, finishedReading>> /\ reader.pc = "entry" /\ IsReader(reader)
  BY DEF ReadEntry, readVars, Reading
<1>2. CASE reader'.pc = "idle"
  BY <1>1, <1>2, ReaderMoves
<1>3. CASE reader' = [reader EXCEPT !.pc = "next"] /\ ~finishedReading
  <2>1. reader'.pc = "next" /\ IsReader(reader')
    BY <1>1, <1>3 DEF IsReader, ReaderFields
  <2> QED BY <1>1, <1>3, <2>1, ReaderMoves
<1> QED BY <1>2, <1>3 DEF ReadEntry, ReadReturns, Idle

\* One iteration of the wait loop ends with a frame only if it is the head.
LEMMA AwaitKeeps ==
    ASSUME SInv, ErrInv, "read" \notin nilMet, Reading, reader.pc \in {"next", "wait"}, AwaitFrame,
           UNCHANGED <<sorterVars, readOffset, finishedReading>>
    PROVE  Reading'
<1>1. IsReader(reader) /\ ~finishedReading /\ AtHead(readOffset) /\ readOffset \in Nat
  BY DEF Reading
<1>2. CASE resetLocally \/ cancelled
  <2>1. ReadReturns
    BY <1>2 DEF AwaitFrame, ErrInv, Outside
  <2> QED BY <2>1, ReaderMoves DEF ReadReturns, Idle
<1>3. CASE ~(resetLocally \/ cancelled) /\ Expired(readDeadline)
  <2>1. ReadReturns
    BY <1>3 DEF AwaitFrame
  <2> QED BY <2>1, ReaderMoves DEF ReadReturns, Idle
<1>4. CASE ~(resetLocally \/ cancelled) /\ ~Expired(readDeadline) /\ HasHead
  <2>1. reader' = [reader EXCEPT !.pc = "copy", !.frame = HeadFrame]
        /\ readPosInFrame' = readOffset - HeadFrame.Offset
    BY <1>4 DEF AwaitFrame
  <2>2. IsReader(reader') /\ reader'.pc = "copy" /\ reader'.frame = HeadFrame
    BY <1>1, <2>1, Zenon DEF IsReader, ReaderFields
  <2>3. HeadFrame.Offset = readPosition /\ HeadFrame.len \in Nat /\ readPosition \in Nat
    BY <1>4, HeadIsFrame
  <2>4. /\ readPosInFrame' \in Nat /\ readPosInFrame' <= HeadFrame.len
        /\ readOffset = readPosition + readPosInFrame'
    <3>1. PICK h \in Nat : h = HeadFrame.len
      BY <2>3
    <3>2. readOffset = readPosition \/ readOffset \in readPosition .. readPosition + h - 1
      BY <1>1, <3>1 DEF AtHead
    <3>3. readPosInFrame' = readOffset - readPosition
      BY <2>1, <2>3
    <3>4. readOffset >= readPosition /\ readOffset <= readPosition + h
      BY <1>1, <2>3, <3>2
    <3> QED BY <1>1, <2>3, <3>1, <3>3, <3>4
  <2>5. HasHead' /\ HeadFrame' = HeadFrame
    BY <1>4 DEF HasHead, HeadFrame, sorterVars
  <2> QED BY <1>1, <2>2, <2>4, <2>5 DEF Reading, ReadPcs, sorterVars
<1>5. CASE ~(resetLocally \/ cancelled) /\ ~Expired(readDeadline) /\ ~HasHead
  <2>1. reader' = [reader EXCEPT !.pc = "wait", !.timer = readDeadline]
    BY <1>5 DEF AwaitFrame
  <2>2. IsReader(reader') /\ reader'.pc = "wait"
    BY <1>1, <2>1, Zenon DEF IsReader, ReaderFields
  <2> QED BY <1>1, <2>2, ReaderMoves
<1> QED BY <1>2, <1>3, <1>4, <1>5, SMTT(30), Zenon

\* One iteration of the loop, or a wakeup of its wait.
LEMMA NextKeeps ==
    ASSUME SInv, ErrInv, "read" \notin nilMet, Reading, ReadNext \/ ReadWakes
    PROVE  Reading'
<1>1. UNCHANGED <<sorterVars, readOffset, finishedReading>> /\ reader.pc \in {"next", "wait"}
  BY DEF ReadNext, ReadWakes
<1>2. CASE AwaitFrame
  BY <1>1, <1>2, AwaitKeeps
<1>3. CASE reader'.pc = "idle"
  BY <1>1, <1>3, ReaderMoves
<1> QED BY <1>2, <1>3 DEF ReadNext, ReadWakes, ReadReturns, Idle

\* Read copies from the head of the queue.
LEMMA CopyKeeps ==
    ASSUME SInv, Reading, ReadCopy
    PROVE  Reading'
<1> DEFINE l == HeadFrame.len
           m == CopyLength
<1>1. /\ IsReader(reader) /\ ~finishedReading /\ HasHead /\ HeadFrame = reader.frame
      /\ readPosInFrame \in Nat /\ readPosInFrame <= reader.frame.len
      /\ readOffset = readPosition + readPosInFrame
  BY DEF ReadCopy, Reading
<1>2. reader.size \in Nat /\ reader.n \in Nat /\ reader.n <= reader.size
  BY <1>1 DEF IsReader
<1>3. l \in Nat /\ readPosition \in Nat /\ reader.frame.len = l
  BY <1>1, HeadIsFrame
<1>4. m \in Nat /\ readPosInFrame + m <= l /\ reader.n + m <= reader.size
  <2> HIDE DEF l
  <2> QED BY <1>1, <1>2, <1>3 DEF CopyLength
<1>5. /\ readPosInFrame' = readPosInFrame + m /\ readOffset' = readOffset + m
      /\ UNCHANGED <<sorterVars, finishedReading>>
      /\ IF readPosInFrame' >= reader.frame.len
         THEN reader' = [reader EXCEPT !.pc = "pop", !.n = @ + m]
         ELSE ReadMore(reader.n + m)
  <2>1. ~(readPosInFrame > reader.frame.len)
    BY <1>1, <1>3
  <2> QED BY <2>1 DEF ReadCopy
<1> HIDE DEF l, m
<1>6. HasHead' /\ HeadFrame' = HeadFrame /\ readPosition' = readPosition
  BY <1>1, <1>5 DEF HasHead, HeadFrame, sorterVars
<1>7. readOffset' \in Nat /\ readOffset' = readPosition + (readPosInFrame + m)
  BY <1>1, <1>3, <1>4, <1>5
<1>8. CASE readPosInFrame' >= l
  <2>1. reader' = Moved("pop", reader.n + m)
    BY <1>3, <1>5, <1>8, SMTT(30), Zenon DEF Moved
  <2>2. IsReader(reader') /\ reader'.pc = "pop" /\ reader'.frame = reader.frame
    BY <1>1, <1>2, <1>4, <2>1, MovedReader
  <2>3. readPosInFrame + m = l
    BY <1>1, <1>3, <1>4, <1>5, <1>8
  <2>4. readOffset' = readPosition + l
    BY <1>7, <2>3
  <2> QED BY <1>1, <1>3, <1>5, <1>6, <1>7, <2>2, <2>4, SMTT(30), Zenon DEF Reading, ReadPcs, sorterVars
<1>9. CASE ~(readPosInFrame' >= l)
  <2>1. ReadMore(reader.n + m)
    BY <1>3, <1>5, <1>9
  <2>2. readOffset' \in readPosition .. readPosition + l - 1
    BY <1>1, <1>3, <1>4, <1>5, <1>7, <1>9, SMTT(30), Zenon
  <2>3. AtHead(readOffset)'
    BY <1>6, <2>2 DEF AtHead, l
  <2>4. CASE reader' = Moved("next", reader.n + m)
    <3>1. IsReader(reader') /\ reader'.pc = "next"
      BY <1>1, <1>2, <1>4, <2>4, MovedReader
    <3> QED BY <1>1, <1>5, <1>7, <2>3, <3>1, SMTT(30), Zenon DEF Reading, ReadPcs, sorterVars
  <2>5. CASE reader'.pc = "idle"
    BY <1>1, <1>5, <1>7, <2>3, <2>5 DEF Reading, ReadPcs, sorterVars
  <2> QED BY <2>1, <2>4, <2>5 DEF ReadMore, ReadReturns, Idle, Moved
<1> QED BY <1>8, <1>9

\* Read drops the frame it has read.
LEMMA ReadPopKeeps ==
    ASSUME SInv, Reading, ReadPop
    PROVE  Reading'
<1>1. /\ IsReader(reader) /\ ~finishedReading /\ HasHead /\ HeadFrame = reader.frame
      /\ readOffset = readPosition + reader.frame.len /\ readOffset \in Nat
  BY DEF ReadPop, Reading
<1>2. /\ readPosition' = readPosition + HeadFrame.len /\ arrived' = arrived
      /\ readOffset' = readOffset
  BY DEF ReadPop, Pop
<1>3. readOffset' = readPosition'
  BY <1>1, <1>2
<1>4. AtHead(readOffset)'
  BY <1>3 DEF AtHead
<1>5. CASE ReadsFin
  <2>1. finishedReading' = TRUE /\ reader'.pc = "idle"
    BY <1>5 DEF ReadPop, ReadReturns, Idle
  <2>2. readOffset = Length \/ readOffset \in arrived
    BY <1>1, <1>5, HeadIsFrame DEF ReadsFin
  <2> QED BY <1>1, <1>2, <1>4, <2>1, <2>2 DEF Reading, ReadPcs
<1>6. CASE ~ReadsFin
  <2>1. ~finishedReading' /\ ReadMore(reader.n)
    BY <1>1, <1>6, SMTT(30), Zenon DEF ReadPop
  <2>2. CASE reader' = Moved("next", reader.n)
    <3>0. reader.n \in Nat /\ reader.n <= reader.size
      BY <1>1 DEF IsReader
    <3>1. IsReader(reader') /\ reader'.pc = "next"
      BY <1>1, <2>2, <3>0, MovedReader, SMTT(30), Zenon
    <3> QED BY <1>1, <1>2, <1>4, <2>1, <3>1, Zenon DEF Reading, ReadPcs
  <2>3. CASE reader'.pc = "idle"
    BY <1>1, <1>2, <1>4, <2>1, <2>3, SMTT(30), Zenon DEF Reading, ReadPcs
  <2> QED BY <2>1, <2>2, <2>3 DEF ReadMore, ReadReturns, Idle, Moved
<1> QED BY <1>5, <1>6

\* A frame that arrives during a Read leaves it its head.
LEMMA AddKeeps ==
    ASSUME SInv, Reading, NEW f \in SentFrames, AddStreamFrame(f)
    PROVE  Reading'
<1>1. Push(f) /\ result # TooManyGaps /\ UNCHANGED <<readVars, reader>>
  BY Zenon DEF AddStreamFrame, SessionRuns, SInv
<1>2. HeadStays /\ arrived \subseteq arrived' /\ readPosition' = readPosition
  BY <1>1, PushKeeps DEF SInv
<1>3. AtHead(readOffset) => AtHead(readOffset)'
  BY <1>1, <1>2 DEF AtHead, HeadStays, readVars
<1> QED BY <1>1, <1>2, <1>3 DEF Reading, HeadStays, readVars

\* Every step keeps the reading side right, until Reset(nil) meets a Read.
LEMMA ReadingStays ==
    ASSUME SInv, ErrInv, "read" \notin nilMet, Reading, [Next]_vars
    PROVE  Reading'
<1>1. CASE OtherThanRead
  <2>1. UNCHANGED rvars
    BY <1>1, OthersLeaveReading
  <2> QED BY <2>1 DEF rvars, sorterVars, readVars, Reading, AtHead, HasHead, HeadFrame
<1>2. CASE UNCHANGED vars
  BY <1>2, Zenon DEF vars, sorterVars, readVars, Reading, AtHead, HasHead, HeadFrame
<1> QED BY <1>1, <1>2, ReadBegins, EntryKeeps, NextKeeps, CopyKeeps, ReadPopKeeps, AddKeeps, SMTT(30), Zenon
        DEF Next, ReadStep, OtherThanRead

\* What a reset met is not forgotten.
LEMMA MetStays == [Next]_vars => nilMet \subseteq nilMet'
<1> SUFFICES ASSUME [Next]_vars PROVE nilMet \subseteq nilMet'
  OBVIOUS
<1>1. CASE \E e \in ResetErrors : Reset(e)
  BY <1>1, Zenon DEF Reset
<1>2. CASE OtherThanRead /\ ~(\E e \in ResetErrors : Reset(e))
  BY <1>2, Zenon DEF OtherThanRead, Write, WriteWakes, Close, PopLen, PopStep, PopData, PopFin, PopSentFin,
     RegisterRemoteError, Cancel, garbageCollect, SetReadDeadline, SetWriteDeadline, Tick, notWriteVars, errVars
<1>3. CASE (\E n \in ReadSizes : Read(n)) \/ ReadStep
  BY <1>3, Zenon DEF Read, ReadStep, ReadEntry, ReadNext, ReadWakes, ReadCopy, ReadPop, notReadVars, errVars
<1>4. CASE \E f \in SentFrames : AddStreamFrame(f)
  BY <1>4, Zenon DEF AddStreamFrame, errVars
<1>5. CASE UNCHANGED vars
  BY <1>5, Zenon DEF vars, errVars
<1> QED BY <1>1, <1>2, <1>3, <1>4, <1>5, Zenon DEF Next, OtherThanRead

\* The invariant of the reading side.
RInv == "read" \in nilMet \/ Reading

THEOREM ReadInvariance == Spec => []RInv
<1>1. Init => RInv
  <2> SUFFICES ASSUME Init PROVE Reading
    BY DEF RInv
  <2>1. reader = [pc |-> "idle"] /\ readOffset = 0 /\ readPosition = 0 /\ finishedReading = FALSE
    BY Zenon DEF Init, SorterInit, Idle
  <2>2. reader.pc = "idle" /\ AtHead(readOffset)
    BY <2>1 DEF AtHead
  <2> QED BY <2>1, <2>2 DEF Reading, ReadPcs
<1>2. SInv /\ ErrInv /\ RInv /\ [Next]_vars => RInv'
  <2> SUFFICES ASSUME SInv, ErrInv, RInv, [Next]_vars PROVE RInv'
    OBVIOUS
  <2>1. CASE "read" \in nilMet
    BY <2>1, MetStays, Zenon DEF RInv
  <2>2. CASE "read" \notin nilMet
    <3>1. Reading
      BY <2>2 DEF RInv
    <3> QED BY <2>2, <3>1, ReadingStays, Zenon DEF RInv
  <2> QED BY <2>1, <2>2
<1> QED BY <1>1, <1>2, QueueInvariance, EndInvariance, PTL DEF Spec

\* Read copies from the head of the queue, from the byte after the last one that it
\* returned, although frames are added between its critical sections, unless Reset
\* is given nil during the Read.
THEOREM ReadsAreInOrder == Spec => []ReadsInOrder
<1>1. SInv /\ Reading => ReadsInOrder
  <2> SUFFICES ASSUME SInv, Reading PROVE ReadsInOrder
    OBVIOUS
  <2>1. reader.pc # "nilFrame"
    BY DEF Reading, ReadPcs
  <2>2. ASSUME reader.pc = "copy"
        PROVE  /\ HasHead /\ HeadFrame = reader.frame
               /\ readPosInFrame \in 0 .. reader.frame.len
               /\ reader.frame.first + readPosInFrame = readOffset
    <3>1. HasHead /\ HeadFrame = reader.frame /\ readPosInFrame \in Nat
          /\ readPosInFrame <= reader.frame.len /\ readOffset = readPosition + readPosInFrame
      BY <2>2 DEF Reading
    <3>2. HeadFrame.first = readPosition /\ HeadFrame.len \in Nat
      BY <3>1, HeadIsFrame
    <3> QED BY <3>1, <3>2
  <2>3. reader.pc = "pop" => HasHead /\ HeadFrame = reader.frame
    BY DEF Reading
  <2> QED BY <2>1, <2>2, <2>3 DEF ReadsInOrder
<1>2. SInv /\ RInv => ReadsInOrder
  BY <1>1 DEF RInv, ReadsInOrder
<1> QED BY <1>2, QueueInvariance, ReadInvariance, PTL

\* Read reports the end of the stream when it has returned all of its bytes, or
\* stops at a byte that has arrived, unless Reset is given nil during the Read.
THEOREM EofIsComplete == Spec => []EofMeansComplete
<1>1. RInv => EofMeansComplete
  BY DEF RInv, Reading, EofMeansComplete
<1> QED BY <1>1, ReadInvariance, PTL
=============================================================================
