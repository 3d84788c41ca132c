---------------------------- MODULE FlowControl ----------------------------
(***************************************************************************)
(* Flow control between two endpoints, as internal/flowcontrol implements  *)
(* it and the session, the framer and the streams use it.  One endpoint    *)
(* sends on Streams, the other one receives and reads.  Each of them keeps *)
(* a controller for every stream and one, Conn, for the connection         *)
(* (stream 0); only the streams in Contributing count for Conn (streams 1  *)
(* and 3 do not).                                                          *)
(*                                                                         *)
(* Data is counted in frames of one unit.  Everything the sender sent on a *)
(* stream may arrive at any time, in any order and repeatedly, since lost  *)
(* frames are sent again and their packets take any path.  WINDOW_UPDATEs  *)
(* wait in windowUpdates; a lost one is sent again unless a higher one     *)
(* exists.                                                                 *)
(***************************************************************************)
EXTENDS Integers, FiniteSets, FiniteSetsExt

CONSTANTS Streams, Contributing, Conn,
          MayReset,                     \* the streams their sender may reset
          DataLength,                   \* units the application writes per stream
          StreamWindow, ConnWindow,     \* the windows of the handshake
          MaxStreamIncrement, MaxConnIncrement

ASSUME FlowAssumption ==
  /\ IsFiniteSet(Streams)
  /\ Contributing \subseteq Streams
  /\ MayReset \subseteq Streams
  /\ Conn \notin Streams
  /\ DataLength \in Nat
  /\ StreamWindow \in Nat /\ ConnWindow \in Nat
  /\ MaxStreamIncrement \in Nat /\ StreamWindow <= MaxStreamIncrement
  /\ MaxConnIncrement \in Nat /\ ConnWindow <= MaxConnIncrement

VARIABLES
  bytesSent, sendWindow,                        \* the sender's controllers
  rstSent,                                      \* streams the sender has reset
  highestReceived, bytesRead, receiveWindow,    \* the receiver's controllers
  receiveWindowIncrement,
  autotuned,       \* the controllers whose lastWindowUpdateTime is set
  controllers,     \* streams the receiver has a controller for
  removed,         \* streams the receiver has closed and forgotten
  resetRemotely,   \* streams whose RST_STREAM has arrived
  arrived,         \* units of each stream that have arrived
  windowUpdates,   \* WINDOW_UPDATEs on their way to the sender
  blocked,         \* a BLOCKED frame is on its way to the receiver
  peerBlocked      \* the receiver has got one and not yet answered

sendVars == <<bytesSent, sendWindow, rstSent>>
windowVars == <<receiveWindow, receiveWindowIncrement, autotuned>>
receiveVars == <<highestReceived, bytesRead, controllers, removed, resetRemotely, arrived>>
vars == <<sendVars, windowVars, receiveVars, windowUpdates, blocked, peerBlocked>>

Ids == Streams \cup {Conn}
Units == 1..DataLength
Window(id) == IF id = Conn THEN ConnWindow ELSE StreamWindow
MaxIncrement(id) == IF id = Conn THEN MaxConnIncrement ELSE MaxStreamIncrement

\* newFlowController on both sides; sendWindow 0 stands for "not updated yet".
Init ==
  /\ bytesSent = [id \in Ids |-> 0]
  /\ sendWindow = [id \in Ids |-> 0]
  /\ rstSent = {}
  /\ highestReceived = [id \in Ids |-> 0]
  /\ bytesRead = [id \in Ids |-> 0]
  /\ receiveWindow = [id \in Ids |-> Window(id)]
  /\ receiveWindowIncrement = [id \in Ids |-> Window(id)]
  /\ autotuned = {}
  /\ controllers = {} /\ removed = {} /\ resetRemotely = {}
  /\ arrived = [s \in Streams |-> {}]
  /\ windowUpdates = {}
  /\ blocked = FALSE /\ peerBlocked = FALSE

\* A change of the stream's counter, repeated for Conn if the stream contributes.
Contribute(count, s, n) ==
  [id \in Ids |-> IF id = s \/ (id = Conn /\ s \in Contributing)
                  THEN count[id] + n ELSE count[id]]
----------------------------------------------------------------------------
(* The sender. *)

getSendWindow(id) == IF sendWindow[id] = 0 THEN Window(id) ELSE sendWindow[id]

ControllerSendWindow(id) ==
  IF bytesSent[id] > getSendWindow(id) THEN 0 ELSE getSendWindow(id) - bytesSent[id]

\* Mutation: the connection's window is not looked at.
SendWindowSize_StreamOnly(s) == ControllerSendWindow(s)

SendWindowSize(s) ==
  IF s \in Contributing
  THEN Min({ControllerSendWindow(s), ControllerSendWindow(Conn)})
  ELSE ControllerSendWindow(s)

\* The framer packs a unit of the stream, and a BLOCKED frame if that uses a
\* window up.
Send(s) ==
  /\ s \notin rstSent
  /\ bytesSent[s] < DataLength
  /\ SendWindowSize(s) > 0
  /\ bytesSent' = Contribute(bytesSent, s, 1)
  /\ blocked' = (\/ blocked
                 \/ getSendWindow(Conn) <= bytesSent'[Conn]
                 \/ SendWindowSize(s) = 1)
  /\ UNCHANGED <<sendWindow, rstSent, windowVars, receiveVars, windowUpdates, peerBlocked>>

\* The stream is reset: its RST_STREAM carries the final value of bytesSent.
SendReset(s) ==
  /\ s \in MayReset \ rstSent
  /\ rstSent' = rstSent \cup {s}
  /\ UNCHANGED <<bytesSent, sendWindow, windowVars, receiveVars,
                 windowUpdates, blocked, peerBlocked>>

\* Mutation: the offset is taken for an increment.
UpdateSendWindow_Added(id, offset) ==
  sendWindow' = [sendWindow EXCEPT ![id] = getSendWindow(id) + offset]

UpdateSendWindow(id, offset) ==
  sendWindow' = [sendWindow EXCEPT ![id] = IF offset > @ THEN offset ELSE @]

\* handleWindowUpdateFrame.
ReceiveWindowUpdate(u) ==
  /\ u \in windowUpdates
  /\ windowUpdates' = windowUpdates \ {u}
  /\ UpdateSendWindow(u.id, u.offset)
  /\ UNCHANGED <<bytesSent, rstSent, windowVars, receiveVars, blocked, peerBlocked>>
----------------------------------------------------------------------------
(* The receiver. *)

\* The stream's highest offset, and what it grew by for the connection.  An
\* offset below the highest one is a reordered frame.
UpdateHighestReceived(s, byteOffset) ==
  highestReceived' =
    Contribute(highestReceived, s,
               IF byteOffset > highestReceived[s] THEN byteOffset - highestReceived[s] ELSE 0)

\* handleStreamFrame: the first frame opens the stream, one of a stream that is
\* gone is ignored.
ReceiveStreamFrame(s, unit) ==
  /\ unit <= bytesSent[s]
  /\ s \notin removed
  /\ controllers' = controllers \cup {s}
  /\ UpdateHighestReceived(s, unit)
  /\ arrived' = [arrived EXCEPT ![s] = @ \cup {unit}]
  /\ UNCHANGED <<sendVars, windowVars, bytesRead, removed, resetRemotely,
                 windowUpdates, blocked, peerBlocked>>

\* handleRstStreamFrame.
ReceiveReset(s) ==
  /\ s \in rstSent \ removed
  /\ controllers' = controllers \cup {s}
  /\ resetRemotely' = resetRemotely \cup {s}
  /\ UpdateHighestReceived(s, bytesSent[s])
  /\ UNCHANGED <<sendVars, windowVars, bytesRead, removed, arrived,
                 windowUpdates, blocked, peerBlocked>>

\* Mutation: the connection's controller is not told.
AddBytesRead_StreamOnly(s, n) ==
  /\ bytesRead' = [bytesRead EXCEPT ![s] = @ + n]
  /\ autotuned' = autotuned \cup {s}

AddBytesRead(s, n) ==
  /\ bytesRead' = Contribute(bytesRead, s, n)
  /\ autotuned' = autotuned \cup {id \in Ids : bytesRead[id] = 0 /\ bytesRead'[id] # 0}

\* stream.Read takes the next unit.  Once the stream was reset by the peer, the
\* controllers are not told of what is still read.
Read(s) ==
  /\ s \in controllers \ resetRemotely
  /\ bytesRead[s] + 1 \in arrived[s]
  /\ AddBytesRead(s, 1)
  /\ UNCHANGED <<sendVars, receiveWindow, receiveWindowIncrement, highestReceived,
                 controllers, removed, resetRemotely, arrived,
                 windowUpdates, blocked, peerBlocked>>

\* garbageCollectStreams: a stream that was read to its end, or was reset.
RemoveStream(s) ==
  /\ s \in controllers
  /\ s \in resetRemotely \/ bytesRead[s] = DataLength
  /\ controllers' = controllers \ {s}
  /\ removed' = removed \cup {s}
  /\ UNCHANGED <<sendVars, windowVars, highestReceived, bytesRead, resetRemotely, arrived,
                 windowUpdates, blocked, peerBlocked>>

ReceiveBlocked ==
  /\ blocked
  /\ blocked' = FALSE
  /\ peerBlocked' = TRUE
  /\ UNCHANGED <<sendVars, windowVars, receiveVars, windowUpdates>>
----------------------------------------------------------------------------
(* The receiver's windows. *)

Necessary(id, increment) == receiveWindow[id] - bytesRead[id] < increment \div 2

\* maybeAdjustWindowIncrement: the controllers in "fast", which have a
\* lastWindowUpdateTime, were updated less than two round trip times ago.
Adjusted(id, increment, fast) ==
  IF id \in fast THEN Min({2 * increment, MaxIncrement(id)}) ELSE increment

StreamIncrement(s, fast) ==
  IF Necessary(s, receiveWindowIncrement[s])
  THEN Adjusted(s, receiveWindowIncrement[s], fast)
  ELSE receiveWindowIncrement[s]

\* The increment MaybeUpdateWindow returns, 0 for "unchanged".
NewIncrement(s, fast) ==
  IF Necessary(s, receiveWindowIncrement[s]) /\ StreamIncrement(s, fast) = receiveWindowIncrement[s]
  THEN 0
  ELSE StreamIncrement(s, fast)

\* The controllers of the streams that are updated.
Updated(force) == {s \in controllers : force \/ Necessary(s, receiveWindowIncrement[s])}

\* What EnsureMinimumWindowIncrement asks of the connection, with
\* ConnectionFlowControlMultiplier = 1.5.
MinimumIncrement(force, fast) ==
  Max({0} \cup {(3 * NewIncrement(s, fast)) \div 2 : s \in Updated(force) \cap Contributing})

Raised(force, fast) == MinimumIncrement(force, fast) > receiveWindowIncrement[Conn]

\* The connection's increment before its own MaybeUpdateWindow.
EnsuredIncrement(force, fast) ==
  IF Raised(force, fast) THEN Min({MinimumIncrement(force, fast), MaxConnIncrement})
                         ELSE receiveWindowIncrement[Conn]

ConnNecessary(force, fast) == Necessary(Conn, EnsuredIncrement(force, fast))

ConnIncrement(force, fast) ==
  IF ConnNecessary(force, fast)
  THEN Adjusted(Conn, EnsuredIncrement(force, fast),
                IF Raised(force, fast) THEN {} ELSE fast)
  ELSE EnsuredIncrement(force, fast)

NewWindow(id, increment) == bytesRead[id] + increment

\* GetWindowUpdates(force).
GetWindowUpdates(force, fast) ==
  LET necessary == {s \in controllers : Necessary(s, receiveWindowIncrement[s])}
                     \cup {c \in {Conn} : ConnNecessary(force, fast)}
      increment(id) == IF id = Conn THEN ConnIncrement(force, fast)
                       ELSE IF id \in controllers THEN StreamIncrement(id, fast)
                       ELSE receiveWindowIncrement[id]
      sent == IF force THEN controllers \cup {Conn} ELSE necessary
  IN /\ receiveWindowIncrement' = [id \in Ids |-> increment(id)]
     /\ receiveWindow' = [id \in Ids |-> IF id \in necessary THEN NewWindow(id, increment(id))
                                                             ELSE receiveWindow[id]]
     /\ autotuned' = (IF Raised(force, fast) THEN autotuned \ {Conn} ELSE autotuned) \cup necessary
     /\ windowUpdates' = windowUpdates \cup {[id |-> id, offset |-> receiveWindow'[id]] : id \in sent}

\* sendPacket asks for the updates that are necessary.
SendWindowUpdates(fast) ==
  /\ GetWindowUpdates(FALSE, fast)
  /\ UNCHANGED <<sendVars, receiveVars, blocked, peerBlocked>>

\* At its end ackRemainingPaths asks again, forcing the updates if the peer said it
\* was blocked, unless it has updates left that no packet of sendPacket took.
ackRemainingPaths(fast) ==
  /\ \/ GetWindowUpdates(peerBlocked, fast)
     \/ peerBlocked /\ UNCHANGED <<windowVars, windowUpdates>>
  /\ peerBlocked' = FALSE
  /\ UNCHANGED <<sendVars, receiveVars, blocked>>

\* Mutation: the newest update is taken for an obsolete one.
Obsolete_Current(u) == u.offset <= receiveWindow[u.id]

\* A lost WINDOW_UPDATE is not sent again if its stream is gone or the window
\* has grown since.
Obsolete(u) == u.id \in removed \/ u.offset < receiveWindow[u.id]

LoseWindowUpdate(u) ==
  /\ u \in windowUpdates
  /\ Obsolete(u)
  /\ windowUpdates' = windowUpdates \ {u}
  /\ UNCHANGED <<sendVars, windowVars, receiveVars, blocked, peerBlocked>>
----------------------------------------------------------------------------
Next ==
  \/ \E s \in Streams : \/ Send(s)
                        \/ SendReset(s)
                        \/ \E unit \in Units : ReceiveStreamFrame(s, unit)
                        \/ ReceiveReset(s)
                        \/ Read(s)
                        \/ RemoveStream(s)
  \/ ReceiveBlocked
  \/ \E fast \in SUBSET autotuned : SendWindowUpdates(fast) \/ ackRemainingPaths(fast)
  \/ \E u \in windowUpdates : ReceiveWindowUpdate(u) \/ LoseWindowUpdate(u)

Spec == Init /\ [][Next]_vars
----------------------------------------------------------------------------
\* The type of the controllers and of the frames between the endpoints; an
\* increment never exceeds its maximum.
TypeOK ==
  /\ bytesSent \in [Ids -> Nat] /\ sendWindow \in [Ids -> Nat]
  /\ highestReceived \in [Ids -> Nat] /\ bytesRead \in [Ids -> Nat]
  /\ receiveWindow \in [Ids -> Nat]
  /\ receiveWindowIncrement \in [Ids -> Nat]
  /\ \A id \in Ids : receiveWindowIncrement[id] <= MaxIncrement(id)
  /\ autotuned \subseteq Ids
  /\ rstSent \subseteq Streams /\ controllers \subseteq Streams
  /\ removed \subseteq Streams /\ resetRemotely \subseteq Streams
  /\ arrived \in [Streams -> SUBSET Units]
  /\ \A u \in windowUpdates : u \in [id : Ids, offset : Nat]
  /\ blocked \in BOOLEAN /\ peerBlocked \in BOOLEAN

\* A sender that obeys SendWindowSize never makes the receiver close the
\* connection with FlowControlReceivedTooMuchData (CheckFlowControlViolation in
\* UpdateHighestReceived and ResetStream), neither for a stream nor for the
\* connection, however frames and WINDOW_UPDATEs are delayed and reordered.
NoViolation == \A id \in Ids : highestReceived[id] <= receiveWindow[id]

\* What was read is within what was received, so the unsigned difference
\* receiveWindow - bytesRead of MaybeUpdateWindow never wraps around.
ReadWithinReceived == \A id \in Ids : bytesRead[id] <= highestReceived[id]

\* The units of the contributing streams up to a counter of each stream.
Counted(count) == {p \in Contributing \X Units : p[2] <= count[p[1]]}

\* The connection's controllers count exactly what the controllers of the
\* contributing streams count: every unit once, however often and in whichever
\* order it arrived, those of reset streams included.
ConnectionExact ==
  /\ bytesSent[Conn] = Cardinality(Counted(bytesSent))
  /\ highestReceived[Conn] = Cardinality(Counted(highestReceived))
  /\ bytesRead[Conn] = Cardinality(Counted(bytesRead))

\* The receiver stands by every window it has announced: neither the window the
\* sender works with nor a WINDOW_UPDATE under way, old ones included, exceeds
\* the window the receiver checks against (UpdateSendWindow, MaybeUpdateWindow).
GrantsKept ==
  /\ \A id \in Ids : getSendWindow(id) <= receiveWindow[id]
  /\ \A u \in windowUpdates : u.offset <= receiveWindow[u.id]

\* Nothing is left that could happen without a reset: all that was sent has been
\* read, nothing more may be sent, no update is under way and none is due.
Stuck ==
  /\ rstSent = {}
  /\ \A s \in Streams : /\ bytesRead[s] = bytesSent[s]
                        /\ bytesSent[s] = DataLength \/ SendWindowSize(s) = 0
  /\ windowUpdates = {} /\ ~peerBlocked
  /\ Updated(FALSE) = {} /\ ~ConnNecessary(FALSE, {})

\* Flow control never stops a transfer, whatever WINDOW_UPDATEs are overtaken or
\* lost and however auto-tuning moves the increments: unless a stream is reset
\* there is a step that brings it forward until all is read, even if the peer's
\* BLOCKED frames never arrive (GetWindowUpdates, and the retransmission of the
\* newest update, scheduler.go:119).  Every such step is taken a finite number
\* of times, so that all is read in the end.  Windows of a single unit are left
\* out: half of their increment, below which an update is due, is zero.
NeverStuck ==
  (StreamWindow >= 2 /\ ConnWindow >= 2 /\ Stuck) => \A s \in Streams : bytesRead[s] = DataLength
=============================================================================
