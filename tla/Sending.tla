------------------------------ MODULE Sending ------------------------------
(***************************************************************************)
(* How a server sends the responses of a session over several paths: the   *)
(* assignment of streams to paths (scheduler.go), the frames popped for a  *)
(* path (stream_framer.go, streams_map.go), the packets they are put into  *)
(* (packet_packer.go), the retransmission of lost ones, and the records    *)
(* that closing a path and collecting a finished stream change             *)
(* (session.go, streamToPath.go).                                          *)
(*                                                                         *)
(* The session's goroutine runs sendPacket one packet at a time, so that   *)
(* the handlers' Write and Close, and the goroutine of a path that ends,   *)
(* come in between.  Everything else the session does is one step while    *)
(* sendPacket is not running.  Stream 3 carries the headers; the handshake *)
(* is over, so stream 1 has nothing to send.  The streams are independent  *)
(* of each other: StreamTree says which stream may be assigned.  Data is   *)
(* counted in parts of a packet, and headers of frames are not counted.    *)
(* STOP_WAITING, which never makes a packet of its own, and PING frames    *)
(* are left out.                                                           *)
(***************************************************************************)
EXTENDS PathVolumes, FiniteSets, FiniteSetsExt, TLC

CONSTANTS Streams,              \* streams of requests
          Weight,               \* their priority weights
          NewPaths,             \* paths the client opens, besides path 0
          Delay, Bandwidth,     \* of these paths (0 where nothing is known)
          Sizes,                \* lengths of the Writes of a handler
          MaxWrites,            \* Writes per handler
          MaxLen,               \* data a packet carries
          CongestionWindow,     \* packets in flight on a path
          Window,               \* flow control window of a stream, and its updates
          ClosingPaths,         \* paths the client may close
          MaxEvents             \* bound on losses, packets from the client, window
                                \* updates of the server and closed paths together

InitialPath == 0
Header == 3
AllStreams == Streams \cup {Header}
AllPaths == NewPaths \cup {InitialPath}
MaxData == 1 + MaxWrites * Max(Sizes)

ASSUME SendingAssumption ==
  /\ Streams \subseteq Nat \ {0, 1, 3} /\ NewPaths \subseteq Nat \ {0}
  /\ Weight \in [Streams -> 0..255]
  /\ Delay \in [NewPaths -> Nat] /\ Bandwidth \in [NewPaths -> Nat]
  /\ Sizes \subseteq Nat \ {0} /\ Window \in Nat \ {0}
  /\ {MaxLen, CongestionWindow, MaxWrites} \subseteq Nat \ {0}
  /\ MaxEvents \in Nat /\ ClosingPaths \subseteq AllPaths

VARIABLES
  writes,                       \* Writes a handler has begun
  finished,                     \* streams whose handler has called Close
  data,                         \* length of dataForWriting
  writeOffset, finSent,
  credit,                       \* SendWindowSize of a stream
  live,                         \* streams in the streams map
  checksize,                    \* streams whose size was seen: they are not offered again
  streamToPath, pathVolume,
  openPaths,                    \* paths in the order of creation; none is ever removed
  open,                         \* paths whose goroutine runs
  potentiallyFailed,
  streamIDs,                    \* the streams a path sends
  inflight,                     \* sets of frames, one set for a packet of a path
  lost,                         \* frames of lost packets of a path
  retransmissionQueue,          \* frames of all paths
  delivered,                    \* bytes and FINs (MaxData) the client has
  closedPaths,                  \* paths a CLOSE_PATH frame was handled for
  sentPacket,                   \* paths without a goroutine whose channel is full
  ackDue,                       \* paths with an ACK to send
  windowUpdateDue,              \* the flow control manager has window updates
  controlFrames,                \* the packer holds window updates or BLOCKED frames
  pc,                           \* where sendPacket is
  events

appVars == <<writes, finished>>
streamVars == <<data, writeOffset, finSent, credit>>
recordVars == <<live, checksize, streamToPath, pathVolume, streamIDs>>
pathVars == <<openPaths, open, potentiallyFailed, closedPaths, sentPacket>>
packetVars == <<inflight, lost, retransmissionQueue, delivered>>
packerVars == <<ackDue, windowUpdateDue, controlFrames>>
bounds == <<events>>
vars == <<appVars, streamVars, recordVars, pathVars, packetVars, packerVars, pc, bounds>>

Paths == ToSet(openPaths)
\* Retransmissions may exceed the congestion window.
Allowed(p, packets, queue) ==
  p \in open /\ (Cardinality(packets[p]) < CongestionWindow \/ queue[p] # <<>>)
SendingAllowed(p) == Allowed(p, inflight, lost)
WeightOf(s) == IF s = Header THEN 255 ELSE Weight[s]
Idle == [at |-> "idle"]

Init ==
  /\ writes = [s \in AllStreams |-> 0] /\ finished = {}
  /\ data = [s \in AllStreams |-> 0] /\ writeOffset = [s \in AllStreams |-> 0]
  /\ finSent = {} /\ credit = [s \in AllStreams |-> Window]
  /\ live = AllStreams /\ checksize = {}
  /\ streamToPath = [s \in AllStreams |-> {}]
  /\ pathVolume = [s \in AllStreams |-> <<>>]
  /\ openPaths = <<InitialPath>> /\ open = {InitialPath} /\ potentiallyFailed = {}
  /\ closedPaths = {} /\ sentPacket = {}
  /\ streamIDs = [p \in AllPaths |-> {}]
  /\ inflight = [p \in AllPaths |-> {}] /\ lost = [p \in AllPaths |-> <<>>]
  /\ retransmissionQueue = <<>> /\ delivered = [s \in AllStreams |-> {}]
  /\ ackDue = {} /\ windowUpdateDue = FALSE /\ controlFrames = FALSE
  /\ pc = Idle /\ events = 0
----------------------------------------------------------------------------
(* The handlers *)

\* Write blocks until its data was taken; the header stream is never closed.
Write(s) ==
  /\ s \in live \ finished /\ data[s] = 0
  /\ writes[s] < IF s = Header THEN 1 ELSE MaxWrites
  /\ \E n \in IF s = Header THEN {1} ELSE Sizes : data' = [data EXCEPT ![s] = n]
  /\ writes' = [writes EXCEPT ![s] = @ + 1]
  /\ UNCHANGED <<finished, writeOffset, finSent, credit, recordVars, pathVars, packetVars, packerVars, pc, bounds>>

CloseStream(s) ==
  /\ s \in (Streams \cap live) \ finished /\ data[s] = 0 /\ writes[s] > 0
  /\ finished' = finished \cup {s}
  /\ UNCHANGED <<writes, streamVars, recordVars, pathVars, packetVars, packerVars, pc, bounds>>
----------------------------------------------------------------------------
(* Assignment of streams to paths *)

Usable == {p \in Paths \ {InitialPath} : SendingAllowed(p) /\ p \notin potentiallyFailed}

\* findPathLowLatency: the known delay that is lowest, or any path while no
\* delay is known (then the number of packets sent decides).
findPathLowLatency ==
  LET known == {p \in Usable : Delay[p] # 0}
  IN IF Len(openPaths) <= 1 THEN {p \in {InitialPath} : SendingAllowed(p)}
     ELSE IF known = {} THEN Usable
     ELSE {p \in known : \A q \in known : Delay[p] <= Delay[q]}

\* The records of an assignment in progress: r.checksize, .streamToPath, ...
Assigned(r, s, vol) ==
  [r EXCEPT !.streamToPath[s] = DOMAIN vol, !.pathVolume[s] = vol,
            !.streamIDs = [p \in AllPaths |-> IF p \in DOMAIN vol THEN @[p] \cup {s} ELSE @[p]]]

\* The size of the stream is what its first Write left to send.
choosePaths(r, s) ==
  PathVolume(data[s], Usable, Delay, Bandwidth, Weight[s],
             [p \in Usable |-> SumFunctionOnSet(Weight, r.streamIDs[p] \ {Header})])

\* RoundRobinIterateSchedule with assignPath, on the streams in the order of
\* their weights.  A stream without data is passed over; one that finds no path
\* ends the round, and its size counts as known.
RECURSIVE AssignPaths(_, _, _)
AssignPaths(r, order, headerPath) ==
  IF order = <<>> \/ r.failed THEN r
  ELSE LET s == Head(order)
           vol == IF s = Header THEN [p \in headerPath |-> 0] ELSE choosePaths(r, s)
           seen == IF s = Header THEN r ELSE [r EXCEPT !.checksize = @ \cup {s}]
       IN AssignPaths(IF \/ r.streamToPath[s] # {}
                         \/ s # Header /\ (Len(openPaths) < 3 \/ data[s] = 0) THEN r
                      ELSE IF DOMAIN vol = {} THEN [seen EXCEPT !.failed = TRUE]
                      ELSE Assigned(seen, s, vol),
                      Tail(order), headerPath)

Records == [checksize |-> checksize, streamToPath |-> streamToPath, pathVolume |-> pathVolume,
            streamIDs |-> streamIDs, failed |-> FALSE]

HeaderPaths == IF findPathLowLatency = {} THEN {{}} ELSE {{p} : p \in findPathLowLatency}

\* The streams the tree offers, the heaviest first (sortStreamPriorityOrder).
PriorityOrders ==
  {o \in SetToSeqs((live \ checksize) \ finSent) :
     \A i, j \in DOMAIN o : i < j => WeightOf(o[i]) >= WeightOf(o[j])}
----------------------------------------------------------------------------
(* Packets *)

Frame(s, off, len, fin) == [stream |-> s, off |-> off, len |-> len, fin |-> fin]
Content(f) == (f.off..(f.off + f.len - 1)) \cup (IF f.fin THEN {MaxData} ELSE {})

\* Mutation: the frames of one path replace those of the others in the queue.
getRetransmissionOfPath_Own(p) == IF lost[p] = <<>> THEN retransmissionQueue ELSE lost[p]

\* Frames of the path's lost packets join the queue of all paths.
getRetransmissionOfPath(p) == retransmissionQueue \o lost[p]

Of(s, frames) == {f \in frames : f.stream = s}

SplitOff(f, n) == Frame(f.stream, f.off, n, FALSE)

\* maybePopFramesForRetransmissionOfPath: frames of the path's streams, from
\* position i on; the first one that does not fit is split (maybeSplitOffFrame).
RECURSIVE PopRetransmissions(_, _, _, _)
PopRetransmissions(queue, i, ids, room) ==
  IF i > Len(queue) \/ room = 0 THEN [frames |-> {}, queue |-> queue, room |-> room]
  ELSE LET f == queue[i]
           more == PopRetransmissions(RemoveAt(queue, i), i, ids, room - f.len)
       IN IF f.stream \notin ids THEN PopRetransmissions(queue, i + 1, ids, room)
          ELSE IF f.len > room
          THEN [frames |-> {SplitOff(f, room)}, room |-> 0,
                queue |-> [queue EXCEPT ![i] = Frame(f.stream, f.off + room, f.len - room, f.fin)]]
          ELSE [more EXCEPT !.frames = @ \cup {f}]

\* maybePopNormalFramesOfPath, for one stream: the data it gives to a packet of
\* the path with this much room, and whether its FIN goes with it.
Room(s, room) == IF data[s] = 0 THEN room ELSE Min({room, credit[s]})

Volume(s, p) == IF p \in DOMAIN pathVolume[s] THEN pathVolume[s][p] ELSE 0

MayTake(s, p, room) == Volume(s, p) > 0 \/ data[s] < Room(s, room)

Taken(s, p, room) == IF MayTake(s, p, room) THEN Min({data[s], Room(s, room)}) ELSE 0

\* Mutation: a FIN goes out with the last data, and never alone.
TakesFin_WithData(s, p, room) ==
  Taken(s, p, room) > 0 /\ s \in finished \ finSent /\ data[s] = Taken(s, p, room)

TakesFin(s, p, room) ==
  Room(s, room) > 0 /\ s \in finished \ finSent /\ data[s] = Taken(s, p, room)

NormalFrames(s, p, room) ==
  IF Taken(s, p, room) = 0 /\ ~TakesFin(s, p, room) THEN {}
  ELSE {Frame(s, writeOffset[s], Taken(s, p, room), TakesFin(s, p, room))}

\* PriorityIteratePopOfPath draws one stream in proportion to the weights; one
\* of weight 0 is never drawn.
Drawable(p) == {s \in streamIDs[p] \ {Header} : Weight[s] > 0}

\* composeNextPacketOfPath: retransmissions, then headers, then data of the drawn
\* stream (c, if any), which the header stream may leave no room for.
Compose(queue, p, c) ==
  LET rt == PopRetransmissions(queue, 1, streamIDs[p], MaxLen)
      hdr == IF Header \in streamIDs[p] THEN NormalFrames(Header, p, rt.room) ELSE {}
      room == rt.room - SumFunction([f \in hdr |-> f.len])
      new == IF room > 0 THEN UNION {NormalFrames(s, p, room) : s \in c} ELSE {}
  IN [queue |-> rt.queue, new |-> hdr \cup new, frames |-> rt.frames \cup hdr \cup new,
      draws |-> Header \notin streamIDs[p] \/ room > 0]

\* PriorityIteratePopOfPath looks up every stream of the path for its weight, and
\* panics if one was collected, unless the header stream ends it before.
Panics(packet, p) == packet.draws /\ ~(streamIDs[p] \subseteq live)

\* There is no packet if there is nothing to put into it.
PackPacketOfPath(packet, p) == packet.frames # {} \/ p \in ackDue \/ controlFrames

\* PackAckPacket: an ACK of the remaining paths has a packet of its own.
PackRemaining(packet, p) == IF p \in ackDue THEN {} ELSE packet.frames

\* The frames leave their streams; an exhausted window asks for a BLOCKED frame.
TakeFromStreams(new, p) ==
  LET Len_(s) == SumFunction([f \in Of(s, new) |-> f.len])
  IN /\ data' = [s \in AllStreams |-> data[s] - Len_(s)]
     /\ writeOffset' = [s \in AllStreams |-> writeOffset[s] + Len_(s)]
     /\ credit' = [s \in AllStreams |-> credit[s] - Len_(s)]
     /\ finSent' = finSent \cup {f.stream : f \in {g \in new : g.fin}}
     /\ pathVolume' = [s \in AllStreams |->
                         IF Of(s, new) = {} THEN pathVolume[s] ELSE (p :> (Volume(s, p) - Len_(s))) @@ pathVolume[s]]

BlockedFrames(new) == \E f \in new : ~f.fin /\ credit[f.stream] = f.len

\* sendPackedPacket: a packet with data is in flight; the goroutine of the path
\* is told, and one that has ended leaves the token in the channel.
SendPacked(p, frames) ==
  /\ inflight' = [inflight EXCEPT ![p] = @ \cup (IF frames = {} THEN {} ELSE {frames})]
  /\ sentPacket' = sentPacket \cup ({p} \ open)

SendBlocks(p) == p \notin open /\ p \in sentPacket
----------------------------------------------------------------------------
(* sendPacket *)

\* A path without streams, or one that may not send, is passed over.
Sends(i, packets) == streamIDs'[openPaths[i]] # {} /\ Allowed(openPaths[i], packets, lost')

\* ackRemainingPaths has nothing to do for other paths.
Acking(i, updates) == openPaths[i] \in ackDue \/ (updates /\ openPaths[i] # InitialPath)

AckFrom(i, updates, locked) ==
  LET next == {j \in i..Len(openPaths) : Acking(j, updates)}
  IN IF next # {} THEN [at |-> "ack", i |-> Min(next), updates |-> updates, locked |-> locked]
     ELSE IF locked THEN [at |-> "start"]
     ELSE IF finSent' \cap live = {} THEN Idle ELSE [at |-> "collect"]

\* The next path of a round, which begins with the first one, because the round
\* before has counted roundRobinIndexPath up by the number of paths; after the last one, another round if packets were
\* sent, and otherwise the ACKs of the remaining paths.
LoopFrom(i, sent, updates, packets) ==
  LET next == {j \in i..Len(openPaths) : Sends(j, packets)}
      again == {j \in 1..Len(openPaths) : Sends(j, packets)}
      At(j, done) == [at |-> "send", i |-> j, num |-> Cardinality(streamIDs'[openPaths[j]]),
                      sent |-> done, updates |-> updates]
  IN IF next # {} THEN At(Min(next), sent)
     ELSE IF sent /\ again # {} THEN At(Min(again), FALSE)
     ELSE AckFrom(1, updates \/ windowUpdateDue, FALSE)

\* Window updates leave the flow control manager when the loop begins, and when
\* the ACKs are sent, unless there are older ones.
FetchedUpdates(from) == pc'.at \notin {"send", "start"} /\ ~from

\* The loop of sendPacket begins: window updates are queued for the next packet,
\* and once more after it.
StartLoop ==
  /\ controlFrames' = (controlFrames \/ windowUpdateDue) /\ windowUpdateDue' = FALSE
  /\ pc' = LoopFrom(1, FALSE, windowUpdateDue, inflight)

\* scheduleToMultiplePaths at the start of sendPacket.  When a stream finds no path
\* the ACKs are sent while the mutex of the streams map is held.
Schedule ==
  /\ pc = Idle
  /\ UNCHANGED <<appVars, streamVars, live, pathVars, packetVars, ackDue, bounds>>
  /\ \E order \in PriorityOrders, headerPath \in HeaderPaths :
     \E r \in {AssignPaths(Records, order, headerPath)} :
          /\ checksize' = r.checksize /\ streamToPath' = r.streamToPath
          /\ pathVolume' = r.pathVolume /\ streamIDs' = r.streamIDs
          /\ IF r.failed
             THEN /\ pc' = AckFrom(1, windowUpdateDue, TRUE)
                  /\ windowUpdateDue' = FALSE /\ UNCHANGED controlFrames
             ELSE StartLoop

\* The assignment has ended early, and the ACKs are sent.
ScheduleFailed ==
  /\ pc.at = "start"
  /\ UNCHANGED <<appVars, streamVars, recordVars, pathVars, packetVars, ackDue, bounds>>
  /\ StartLoop

\* The path has ended since the loop came to it.
SkipPath ==
  /\ pc.at = "send" /\ ~SendingAllowed(openPaths[pc.i])
  /\ UNCHANGED <<appVars, streamVars, recordVars, pathVars, packetVars, ackDue, controlFrames, bounds>>
  /\ pc' = LoopFrom(pc.i + 1, pc.sent, pc.updates, inflight)
  /\ windowUpdateDue' = (windowUpdateDue /\ ~FetchedUpdates(pc.updates))

\* One packet of a path, with data of stream c if one is drawn.  The path gets
\* as many packets in a round as it has streams, unless one would be empty.
SendOnPath(c) ==
  /\ pc.at = "send" /\ SendingAllowed(openPaths[pc.i])
  /\ LET p == openPaths[pc.i]
     IN \E packet \in {Compose(getRetransmissionOfPath(p), p, c)} :
        LET full == PackPacketOfPath(packet, p)
        IN /\ ~Panics(packet, p)
           /\ IF Drawable(p) = {} THEN c = {} ELSE c \in {{s} : s \in Drawable(p)}
           /\ TakeFromStreams(packet.new, p)
           /\ IF full THEN SendPacked(p, packet.frames) ELSE UNCHANGED <<inflight, sentPacket>>
           /\ lost' = [lost EXCEPT ![p] = <<>>] /\ retransmissionQueue' = packet.queue
           /\ ackDue' = ackDue \ {p}
           /\ controlFrames' = ((full /\ pc.updates) \/ BlockedFrames(packet.new))
           /\ UNCHANGED <<appVars, live, checksize, streamToPath, streamIDs, openPaths, open,
                          potentiallyFailed, closedPaths, delivered, bounds>>
           /\ pc' = IF full /\ pc.num > 1 /\ Sends(pc.i, inflight')
                    THEN [pc EXCEPT !.sent = TRUE, !.num = @ - 1, !.updates = FALSE]
                    ELSE LoopFrom(pc.i + 1, pc.sent \/ full, FALSE, inflight')
           /\ windowUpdateDue' = (windowUpdateDue /\ ~FetchedUpdates(FALSE))

\* The packet of a closed path that has not ended is not packed: a stream the path
\* still lists was collected, and the session's goroutine panics.
SendPanics ==
  /\ pc.at = "send" /\ SendingAllowed(openPaths[pc.i])
  /\ LET p == openPaths[pc.i] IN Panics(Compose(getRetransmissionOfPath(p), p, {}), p)
  /\ pc' = [at |-> "stuck"]
  /\ UNCHANGED <<appVars, streamVars, recordVars, pathVars, packetVars, packerVars, bounds>>

\* ackRemainingPaths, for the next path, closed or not.  An ACK has a packet of
\* its own; window updates go out with whatever the path may send.  Packing
\* takes the mutex of the streams map, which the session may hold itself, and
\* looks up the streams of the path, which may have been collected.
AckRemaining(c) ==
  /\ pc.at = "ack"
  /\ LET p == openPaths[pc.i]
         ack == p \in ackDue
         packs == ~ack /\ pc.updates
         blocks == (ack \/ packs) /\ SendBlocks(p)
     IN \E packet \in {Compose(retransmissionQueue, p, c)} :
        LET fails == packs /\ (pc.locked \/ Panics(packet, p)) IN
        /\ IF packs /\ Drawable(p) # {} THEN c \in {{s} : s \in Drawable(p)} ELSE c = {}
        /\ IF packs /\ ~fails
           THEN TakeFromStreams(packet.new, p) /\ retransmissionQueue' = packet.queue
           ELSE UNCHANGED <<streamVars, pathVolume, retransmissionQueue>>
        /\ IF ack \/ (packs /\ ~fails)
           THEN SendPacked(p, PackRemaining(packet, p))
           ELSE UNCHANGED <<inflight, sentPacket>>
        /\ ackDue' = ackDue \ {p}
        /\ controlFrames' = IF packs THEN BlockedFrames(packet.new) ELSE controlFrames \/ pc.updates
        /\ pc' = IF fails \/ blocks THEN [at |-> "stuck"] ELSE AckFrom(pc.i + 1, pc.updates, pc.locked)
        /\ UNCHANGED <<appVars, live, checksize, streamToPath, streamIDs, openPaths, open,
                       potentiallyFailed, closedPaths, lost, delivered, windowUpdateDue, bounds>>

\* The streams a path keeps when the finished ones are collected: streamToPath says
\* which paths to clean.
Uncollected(p) == {s \in streamIDs[p] : s \notin finSent \/ p \notin streamToPath[s]}

\* garbageCollectStreams, at the end of the session's loop.  The requests have
\* been read, so a stream is finished once its FIN was sent.
CollectStreams ==
  /\ pc.at = "collect"
  /\ live' = live \ finSent
  /\ streamIDs' = [p \in AllPaths |-> Uncollected(p)]
  /\ streamToPath' = [s \in AllStreams |-> IF s \in finSent THEN {} ELSE streamToPath[s]]
  /\ pathVolume' = [s \in AllStreams |-> IF s \in finSent THEN <<>> ELSE pathVolume[s]]
  /\ pc' = Idle
  /\ UNCHANGED <<appVars, streamVars, checksize, pathVars, packetVars, packerVars, bounds>>
----------------------------------------------------------------------------
(* Events between two calls of sendPacket *)

\* createPathFromRemote; the client opens its paths one after the other.
CreatePath(p) ==
  /\ pc = Idle /\ NewPaths \ Paths # {} /\ p = Min(NewPaths \ Paths)
  /\ openPaths' = Append(openPaths, p) /\ open' = open \cup {p}
  /\ UNCHANGED <<appVars, streamVars, recordVars, potentiallyFailed, closedPaths, sentPacket,
                 packetVars, packerVars, pc, bounds>>

Deliver(packets) ==
  delivered' = [s \in AllStreams |->
                  delivered[s] \cup UNION {Content(f) : f \in Of(s, UNION packets)}]

\* Packets of a path whose goroutine has ended are ignored, and with them its ACKs.
AckPacket(p) ==
  /\ pc = Idle /\ p \in open
  /\ \E packet \in inflight[p] :
       /\ inflight' = [inflight EXCEPT ![p] = @ \ {packet}]
       /\ Deliver({packet})
  /\ potentiallyFailed' = potentiallyFailed \ {p}
  /\ UNCHANGED <<appVars, streamVars, recordVars, openPaths, open, closedPaths, sentPacket,
                 lost, retransmissionQueue, packerVars, pc, bounds>>

\* OnAlarm finds a packet lost; a retransmission timeout also makes the path
\* potentially failed (onRTO).
LosePacket(p) ==
  /\ pc = Idle /\ p \in open /\ events < MaxEvents
  /\ \E packet \in inflight[p] :
       /\ inflight' = [inflight EXCEPT ![p] = @ \ {packet}]
       /\ lost' = [lost EXCEPT ![p] = @ \o SetToSeq(packet)]
  /\ potentiallyFailed' \in {potentiallyFailed, potentiallyFailed \cup {p}}
  /\ events' = events + 1
  /\ UNCHANGED <<appVars, streamVars, recordVars, openPaths, open, closedPaths, sentPacket,
                 retransmissionQueue, delivered, packerVars, pc>>

\* A packet from the client that is to be acknowledged.
ReceivePacket(p) ==
  /\ pc = Idle /\ p \in open /\ events < MaxEvents
  /\ ackDue' = ackDue \cup {p} /\ potentiallyFailed' = potentiallyFailed \ {p}
  /\ events' = events + 1
  /\ UNCHANGED <<appVars, streamVars, recordVars, openPaths, open, closedPaths, sentPacket,
                 packetVars, windowUpdateDue, controlFrames, pc>>

\* handleWindowUpdateFrame.
WindowUpdate(s) ==
  /\ pc = Idle /\ s \in live /\ credit[s] = 0
  /\ credit' = [credit EXCEPT ![s] = Window]
  /\ UNCHANGED <<appVars, data, writeOffset, finSent, recordVars, pathVars, packetVars, packerVars, pc, bounds>>

\* A handler reads enough of its request for a window update.
ReadRequest ==
  /\ pc = Idle /\ events < MaxEvents /\ events' = events + 1 /\ windowUpdateDue' = TRUE
  /\ UNCHANGED <<appVars, streamVars, recordVars, pathVars, packetVars, ackDue, controlFrames,
                 pc>>

\* StreamToPath.DeleteOne.
WithoutPath(s, p) == streamToPath[s] \ {p}

\* handleClosePathFrame and closePath: the path's goroutine is told to end, its
\* streams lose it; the path keeps its list of streams.  ReceivedClosePath
\* takes the frame for an ACK (see AckPath): what it does not acknowledge is lost
\* below the largest packet acknowledged before and stays in flight above it, and
\* everything stays in flight if the path's last packet has brought an ACK.
ClosePath(p) ==
  /\ pc = Idle /\ p \in (Paths \cap ClosingPaths) \ closedPaths
  /\ events < MaxEvents /\ events' = events + 1
  /\ closedPaths' = closedPaths \cup {p}
  /\ streamToPath' = [s \in AllStreams |-> WithoutPath(s, p)]
  /\ pathVolume' = [s \in AllStreams |-> Restrict(pathVolume[s], DOMAIN pathVolume[s] \ {p})]
  /\ \E acked \in SUBSET inflight[p] : \E below \in SUBSET (inflight[p] \ acked) :
       /\ Deliver(acked)
       /\ lost' = [lost EXCEPT ![p] = @ \o SetToSeq(UNION below)]
       /\ inflight' = [inflight EXCEPT ![p] = (@ \ acked) \ below]
  /\ UNCHANGED <<appVars, streamVars, live, checksize, streamIDs, openPaths, open, potentiallyFailed,
                 sentPacket, retransmissionQueue, packerVars, pc>>

\* The goroutine of a closed path ends.
PathEnds(p) ==
  /\ p \in open \cap closedPaths /\ open' = open \ {p}
  /\ UNCHANGED <<appVars, streamVars, recordVars, openPaths, potentiallyFailed, closedPaths,
                 sentPacket, packetVars, packerVars, pc, bounds>>

Draws == {{}} \cup {{s} : s \in Streams}

SendPacketStep ==
  \/ Schedule \/ ScheduleFailed \/ SkipPath \/ SendPanics \/ CollectStreams
  \/ \E c \in Draws : SendOnPath(c) \/ AckRemaining(c)

Next ==
  \/ \E s \in AllStreams : Write(s) \/ WindowUpdate(s)
  \/ \E s \in Streams : CloseStream(s)
  \/ SendPacketStep
  \/ \E p \in AllPaths : AckPacket(p) \/ LosePacket(p) \/ ReceivePacket(p) \/ ClosePath(p) \/ PathEnds(p)
  \/ \E p \in NewPaths : CreatePath(p)
  \/ ReadRequest

SafeSpec == Init /\ [][Next]_vars

\* The enabling conditions of the fair actions, written out.
SendPacketMoves ==
  \/ pc.at \notin {"idle", "stuck"}
  \/ /\ pc = Idle
     /\ \/ windowUpdateDue \/ ackDue # {} \/ finSent \cap live # {}
        \/ \E p \in Paths : streamIDs[p] # {} /\ SendingAllowed(p)
        \/ \E order \in PriorityOrders, headerPath \in HeaderPaths :
             LET r == AssignPaths(Records, order, headerPath) IN r # Records

ClientMoves ==
  pc.at # "stuck" /\ (UNION {inflight[p] : p \in open} # {} \/ \E s \in live : credit[s] = 0)

\* The session's loop runs at least once a second, because the paths' timers fire;
\* a stream with a positive weight is drawn in the end; the client acknowledges
\* what arrives and reads the responses.
Spec ==
  /\ SafeSpec
  /\ []<>~SendPacketMoves \/ []<><<SendPacketStep>>_vars
  /\ []<>~ClientMoves \/ []<><<\/ \E p \in AllPaths : AckPacket(p)
                               \/ \E s \in AllStreams : WindowUpdate(s)>>_vars
  /\ \A s \in Streams, p \in NewPaths :
       \/ []<>~(s \in Drawable(p) /\ SendingAllowed(p) /\ pc.at # "stuck")
       \/ []<><<pc.at = "send" /\ openPaths[pc.i] = p /\ SendOnPath({s})>>_vars
----------------------------------------------------------------------------
(* Properties *)

FramesIn(p) == UNION inflight[p] \cup ToSet(lost[p])

\* What was taken from a stream is with the client, in flight, or in a queue for
\* retransmission: popping, splitting and requeueing frames drops nothing.
NothingDropped ==
  \A s \in AllStreams :
    LET frames == Of(s, UNION {FramesIn(p) : p \in AllPaths} \cup ToSet(retransmissionQueue))
    IN (0..(writeOffset[s] - 1)) \cup (IF s \in finSent THEN {MaxData} ELSE {})
         = delivered[s] \cup UNION {Content(f) : f \in frames}

\* The volumes of a stream cover its data, as long as its paths stay and its
\* handler writes once: otherwise the rest of it could never be sent.
VolumesCover ==
  \A s \in Streams :
    (streamToPath[s] # {} /\ writes[s] = 1 /\ \A p \in closedPaths : s \notin streamIDs[p]) =>
      data[s] <= SumFunction(pathVolume[s])

\* A path of the stream was closed, or has ended with packets of it in flight.
LosesPath(s) ==
  \/ \E p \in closedPaths : s \in streamIDs[p]
  \/ \E p \in Paths \ open : Of(s, UNION inflight[p]) # {}

\* Frames of a collected stream belong to no path any more: lost ones wait for ever.
LostAfterCollection(s) ==
  /\ s \notin live
  /\ Of(s, UNION {ToSet(lost[p]) : p \in AllPaths} \cup ToSet(retransmissionQueue)) # {}

\* A stream that was given paths gets its data through, and the FIN after it,
\* unless one of its own paths is closed, a packet of its own is lost after it
\* was collected, its handler writes again (the volumes are those of the first
\* Write), or the session's goroutine locks itself out or panics.
AssignedIsDelivered ==
  \A s \in Streams :
    (streamToPath[s] # {} /\ s \in finished) ~>
      \/ delivered[s] = (0..(writeOffset[s] - 1)) \cup {MaxData}
      \/ LosesPath(s) \/ LostAfterCollection(s) \/ writes[s] > 1 \/ pc.at = "stuck"

=============================================================================
