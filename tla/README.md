# A verification of PStream in TLA+

PStream is a multipath QUIC implementation in Go: one session sends the streams
of an application over several network paths, and a scheduler chooses the paths
by the priorities and dependencies of the streams. This directory models the
parts that carry the guarantees an application relies on: nothing that was sent
is forgotten, streams are read in order and to their end, windows and limits
are kept, the two ends agree on keys and parameters, and no caller waits for
ever. TLC checks every property on small instances; TLAPS proves most of the
safety properties for all values of the constants.

## The system and its modules

Application goroutines call Read and Write of streams, OpenStream and
AcceptStream of the streams map, Dial, Accept and Close. The session goroutine
takes packets, opens them, and gives their frames to the streams map, the
streams, the flow controllers and the packet handlers of the path. When it
sends, the scheduler assigns streams to paths in the order of the dependency
tree, the framer takes data within the flow control windows, the packer adds ACK
and STOP_WAITING, and the packet handler of the path tracks the packet. Each
path has a goroutine of its own for its timer, and the crypto stream, the path
manager, the sockets and the listener have theirs.

| Part of the code | Module | State and actions |
|---|---|---|
| `ackhandler/sent_packet_handler.go`, `stop_waiting_manager.go` | `SentPacketHandler` | history, retransmission queue, LargestAcked, skipped packets, alarm; SentPacket, ReceivedAck, ReceivedClosePath, OnAlarm, detectLostPackets, GetStopWaitingFrame |
| `ackhandler/received_packet_handler.go` | `ReceivedPacketHandler` | received numbers, lower limit, whether an ACK is due; ReceivedPacket, maybeQueueAck, GetAckFrame |
| one direction of a path | `AckPath` (with `MCAckPath`) | both handlers, the session's use of them, a network that delays, reorders, repeats and loses packets and ACKs, and the CLOSE_PATH of the peer |
| `ackhandler/received_packet_history.go` | `ReceivedPacketHistory` | the list of intervals; ReceivedPacket, DeleteUpTo. It implements `PacketNumberSet`, the set that the received packet handler works with |
| `stream_frame_sorter.go` | `StreamFrameSorter` | gaps and queued frames; Push, Pop |
| `stream.go` | `Stream` (with `MCStream`) | extends the sorter; `reader`, `writer` and `popper` are the goroutines in Read, in Write and in the framer, with a place at every point where they unlock or wait; Close, Reset, deadlines, RST_STREAM, Cancel, collection |
| `internal/flowcontrol` | `FlowControl` | the controllers of a sender and a receiver, for the streams and the connection, with window updates on each way they are sent (sendPacket and ackRemainingPaths), auto-tuning, resets, BLOCKED frames |
| `streams_map.go` | `StreamsMap` | the map, the slice of open streams (a bag), counters, ids, two condition variables; opening by the peer and locally, acceptance, collection, CloseWithError |
| `stream_tree.go` | `StreamTree` | the dependency tree as a record; operations map a tree to a tree, so calls inside calls read like the code; a request that opens a stream sets its parent once, a PRIORITY frame or the request of a stream that is open moves it (SetStreamPriority) |
| `scheduler.go`, `stream_framer.go`, `streamToPath.go`, `packet_packer.go` | `Sending`, `PathVolumes` (with `MCSending`) | assignment of streams to paths with their volumes, the rounds of sendPacket, retransmissions, ACKs of the remaining paths, closed paths, collected streams |
| `internal/handshake`, queue of undecryptable packets, packet levels | `Handshake` (with `MCHandshake`) | CHLO, REJ and SHLO of both ends, keys of the three levels, the diversification nonce, aeadChanged, transport parameters |
| `internal/wire` | `Wire` | Write, Parse and MinLength of the frames and the public header, float16, truncated packet numbers, over bytes with `Base` values |
| packer and unpacker, in bytes | `Packets` (with `MCPackets`) | a packet from the queues of the packer to the frames the peer handles, and the retransmission of one that was not forward-secure; its ACK reports a `ReceivedPacketHistory` |
| `client.go`, `session.go`, `path.go`, `path_manager.go`, `pconn_manager.go` | `Client` | Dial, version negotiation with its second session, the run loops, the path manager, the paths, the sockets |
| `server.go` | `Listener` | serve, the map of sessions, the queue of sessions, Accept, the calls of Close |

Definitions have the names of the Go functions they translate. An operator
`X_Y` directly before an operator `X` is a mutation of it, which confirms that a
property fails when the code is changed in that way. `PROJECT.json` maps every
definition to the lines it stands for and lists the hazards of the code.

## Runs

| Run | Bounds | What it shows |
|---|---|---|
| `ack_safety` | 4 packet numbers, 2 data items, window of 3 packets, 1 skipped number, 1 duplicate, 1 pure ACK, 1 early alarm, 1 CLOSE_PATH | ACK frames report the history; no packet is acknowledged that did not arrive; no data is forgotten; no ACK of a correct peer is refused; STOP_WAITING can always be written |
| `ack_live` | 12 packet numbers, 1 loss, 1 early alarm | all data is delivered |
| `packets` | 9 packet numbers and 4 intervals; bytes of 8 values, packets of 66 bytes | the interval list is a set; what the packer packs is written within the size it computed, but for the cases below, and arrives frame by frame; the packet number is recovered |
| `stream_read` | 6 bytes, 3 gaps, five overlapping segments, reads of 2, deadlines, a reset | no byte is lost; reads are in order and complete; a blocked Read returns |
| `stream_write` | 2 writes of 2 bytes, packed one by one, deadlines, a reset | FIN and RST_STREAM name one final offset; Write returns what was taken; a stream is collected only when it is done; a blocked Write returns |
| `flow_control` | 2 streams of 3 units, windows of 2 and 3, increments up to 3, one stream may be reset | windows are kept, the connection counts every unit once, grants are not taken back, a transfer without a reset is never stuck |
| `streams_map` | ids up to 6, limits 2 and 1, 2 openers, 2 accepters, client and server | slice, map and counters agree; ids are used once; a server keeps its limits; blocked calls return |
| `tree` | 3 streams, dependencies on 0, 5 and 7, exclusive or not, one move | a stream is offered only after those above it; every stream is offered |
| `sending` | one response of 3 units and its headers, 3 paths, window of 1 packet, 2 events (losses, ACKs and window updates to send, closed paths) | no frame is dropped; volumes cover the data; an assigned stream is delivered |
| `handshake` | cache without, with a current or with a stale config, 3 hellos, 1 fault, a queue of 1 packet | the ends agree on keys and parameters; the handshake completes; forward-secure data arrives |
| `client` | one more address, one closed path, servers of either version or none | Dial's result is right; Dial and Close return; goroutines end |
| `listener` | 2 connections, 2 sessions, a queue of 1, 2 calls of Close and the one of serve | Close waits for the sessions it found and returns; sessions are accepted |

The bounds are the smallest at which the hard cases occur. Four packet numbers
allow a gap, a path that is closed with packets in flight, a late STOP_WAITING and a retransmission that crosses its ACK. Six
bytes in five segments allow a frame over two gaps with queued frames on both
sides. Windows of two and three units for six units of data make both limits
bite several times and auto-tune a stream. Six ids let both limits be reached
and streams be skipped, collected and asked for again. With bytes of 8 values
every width of a variable-length field occurs. A session of the listener that
ends makes room for a second one with the same ID.

Deadlock checking is off where a run may end: all data is sent, ids or packet
numbers are used up, or the connection was closed. The tree runs with it.

### Fairness

* `ack_live`: the session sends when it may, the ACK timer and the loss alarm
  expire, and the network delivers what it does not lose; losses are bounded.
* `Stream`: a goroutine that was woken, or can go on, does; time passes. Nothing
  is assumed of the application, which may stop calling at any time.
* `StreamsMap`: woken goroutines get the mutex; the session, whose loop does
  both in every round, collects streams and ends once it has an error.
* `StreamTree`, `Sending`: the session's loop runs again and again, because the
  timers of the paths fire; a stream with a positive weight is drawn in the end;
  the client acknowledges what arrives and reads. Two of these conditions are
  weak fairness with ENABLED written out as a state predicate.
* `Handshake`: goroutines run, packets that are not lost arrive, lost ones are
  found lost and sent again.
* `Client`, `Listener`: Go runs every goroutine that can run.

`flow_control` needs none: `NeverStuck` is an invariant.

## Proofs

Each theorem below holds for every value of the constants that the named
assumption of its module allows (`SentConstants`, `ReceivedConstants`,
`PathConstants`, `FlowAssumption`, `SorterConstants`, `StreamConstants`,
`StreamsMapAssumption`, `HandshakeAssumption`, `ClientAssumption`,
`ListenerAssumption`: natural limits, finite sets, initial windows within their
maxima). TLC evaluates the assumptions in the runs.

**`AckPathProofs`** proves the five invariants of `ack_safety`, that LargestAcked does
not decrease and that, until the path is closed, the loss timer is set only for a
packet it can declare lost. `IInv` joins the types and the properties to five
parts. `SenderInv`: what is tracked or skipped
was numbered before. `NetworkInv`: the STOP_WAITING of a packet is not above the
packet. `ReceiverInv`: the largest packet observed is in the history and above
the lower limit. `AcksInv`: an ACK under way reports packets that arrived, and a
later ACK a larger one. `CloseInv`: so does a CLOSE_PATH under way, and none above the
largest observed. They are needed together: the receiver's history cannot
become empty because of a fact about the sender.

**`ReceivedPacketHistoryProofs`** proves the refinement `ImplementsSet`: the list of
intervals implements `PacketNumberSet`, operation by operation. The invariant
`Ordered` says that the intervals ascend with a hole between any two. The hole is
why the loop may stop at the first interval that a packet touches. This is what
allows `ReceivedPacketHandler` to work with a set.

**`FlowControlProofs`** proves `NoViolation`, `ConnectionExact`, `GrantsKept` and
`NeverStuck`, the types, and that the unsigned difference in MaybeUpdateWindow
cannot wrap. The argument is a chain: what was received was sent, what was sent
fits the window the sender knows, that window was granted and is not taken back.
Sums over streams are cardinalities of sets of units. `AboveHandshake` is needed
because 0 stands for "no update yet". `PInv` adds that the newest window is known or
under way, from which `NeverStuck` follows.

**`StreamFrameSorterProofs` and `StreamProofs`** prove `NothingLost`, `ReadsInOrder`,
`EofMeansComplete`, `WriteCountsTaken`, `FinalOffsetKept` and `CollectedIsDone`. `QInv` says
that the gaps are the bytes that have not arrived and that a chain of frames in
the queue covers the rest. `Reading` says that the frame a Read holds while the
mutex is free is still the head of the queue. `WInv` divides a Write into what was
taken and what is left. No theorem assumes that Reset is given an error: `nilMet`
records what was under way when it was given nil, and the properties name those
cases.

**`StreamsMapProofs`** proves `NeverReopened`, `OpenStreamsExact` and `LimitsKept`. `MInv` adds
that every id in the map or collected is below the mark of its side.

**`HandshakeProofs`** proves `EndpointsAgree`. The argument counts: the server reads
the hellos in order and answers each, and the client writes hello k + 1 only
after answer k. A packet with the diversification nonce shows that the server
stopped at a hello N, so the client's last hello is N and it upgrades instead of
writing on. `ServerInv`, `ClientInv` and `KeysInv` are the two counts and what the keys say
of them; `MessagesOK` says that every message and packet, wherever it waits, was
made by its sender at such a moment.

**`EndpointProofs`** proves `ClosedMeansDone` of the listener and `DialSound` of the
client. `CInv` follows each session a call of Close found: still to be visited,
waited for, or over. `DInv` says that completeChan is closed only after the last
event of the handshake, and that a session sees events only once its version is
settled.

Only model-checked:

* every liveness property (`AllDelivered`, `BlockedReadReturns`, `BlockedWriteReturns`,
  `BlockedCallsReturn`, `EveryStreamOffered`, `AssignedIsDelivered`, `HandshakeCompletes`,
  `ForwardDelivered`, `CallsReturn`, `CloseCallsReturn`, `GoroutinesEnd`,
  `EverySessionAccepted`): the prover does not handle fairness;
* `PacketArrives`, `NumberRecovered`, `PacketWritten`: encodings are recursive over the
  digits of a number and the list of frames, and induction over data is out of
  the prover's reach;
* `NothingDropped`, `VolumesCover`, `OnlyAfterParent`: the rounds of sendPacket and the
  traversal of the tree are recursive operators too.

## Where the code does less than one may expect

These were met while modelling. The models contain the behaviour, and the
properties name the cases they leave out.

* Streams: a frame cut at its end keeps its FIN bit, so Read may report the end
  early (`stream_frame_sorter.go:100`), which `EofMeansComplete` allows; Read at the
  end of the data of a stream the peer has reset is not woken (`stream.go:176`,
  against `stream_test.go:515`); the first deadline does not end a blocked call
  (`stream.go:402`, against `interface.go:43`); a Write that its deadline ends returns
  0, whatever was taken (`stream.go:286`, against `interface.go:49`); what a reset
  stream did not get read is never credited to the connection's window
  (`stream.go:225`), which `ConnectionExact` does not see and `NeverStuck` leaves out.
* Reset(nil), which the HTTP/2 server calls after its handler (`h2quic/server.go:274`),
  leaves the error of the stream nil: a Read under way goes on with a nil frame
  (`stream.go:176`, `211`), data that waits to be packed follows the RST_STREAM
  (`stream.go:319`), and the stream may be collected with a Write waiting in it.
* Streams map: a client's limit is compared with the wrong counter
  (`streams_map.go:420`), so `LimitsKept` is about a server; AcceptStream waits for a
  stream that was collected before it was accepted (`streams_map.go:591`).
* Tree: moving the last child away from an active node drops it, and an exclusive
  move among three siblings loses or repeats streams; `EveryStreamOffered` holds up
  to the first move. Weights are left out.
* Sending: the size of a stream, from which its volumes are computed, is what its
  first Write left to send (`scheduler.go:632`): data of later Writes has no volume,
  and `VolumesCover` and `AssignedIsDelivered` are about one Write. Frames of a
  finished stream that are lost after its collection are never sent again
  (`stream_framer.go:216`); a stream is marked before a path was found for it
  (`scheduler.go:631`). When no path is found, the window updates are packed while
  the scheduler holds the mutex of the streams map, which packing takes a second
  time (`scheduler.go:216`): the session is stuck.
* Closed paths: a stream whose path closes is not assigned again. CLOSE_PATH is
  refused as a duplicate if the last packet of the path has brought an ACK; if it is
  taken, what it does not acknowledge is queued only below the largest packet
  acknowledged before, and no queue of a path that has ended is emptied. So the
  packets in flight are not retransmitted, against the comment at `session.go:789`.
  The path keeps its list of streams: when one of them was collected, a packet for
  the path makes the session's goroutine panic (`streams_map.go:773`, `784`).
* Client: a run loop is stuck after two packets on a path whose goroutine has ended
  (`session.go:987`), between two nested read locks (`session.go:836`) or waiting for a
  path made too late (`session.go:396`, `908`); a second session made after the first
  was closed is never run.
* Listener: a third call of Close blocks (`server.go:256`).
* Handshake: with a stale cached config the handshake may not complete.
* Packets: PATHS frames write more than MinLength says (`paths_frame.go:169`). Only
  packets of crypto data are made smaller by NonForwardSecurePacketSizeReduction,
  which "makes sure that those packets can always be retransmitted"
  (`server_parameters.go:10`): a packet that a client fills with data before its keys
  are forward-secure has no room for the STOP_WAITING of its retransmission
  (`packet_packer.go:115`), and the error of writeAndSealPacket (`601`) ends sendPacket
  (`scheduler.go:1274`). `PacketWritten` names both cases.
* Packet numbers: one is inferred wrongly once the receiver is half an epoch ahead
  (`packet_number.go:6`).
* Flow control: windows of a single unit are never updated, since half of their
  increment is 0.

## Not modelled

Congestion control computes windows with real-valued formulas; a constant window
stands in its place. Round trip times and durations are nondeterministic choices:
a timer fires at any time after it was set. Cryptographic primitives and
certificates have no protocol state; the TLS variant of the handshake and Public
Resets in bytes are left out. Paths that a server makes for an unknown path id, or
a client for a PATHS frame, the client's own assignment of streams to paths, and
selection functions nothing calls are not modelled. Sockets, logging, buffers,
h2quic and the example programs are outside; h2quic and applications appear as
the callers of operations.

Three assumptions keep the models small. In `AckPath` a peer sends no
ACK for a path after its CLOSE_PATH, which this code handles but never sends
(nothing calls closePath with true). In `Packets` a
receiver has every packet below the sender's least unacknowledged one; after a
retransmission timeout it may lack some, which the limit on packets in flight
keeps well below half an epoch. In `Handshake` a PATHS frame stands for the client's
first forward-secure packet: the code sends one when the client creates paths
(`path_manager.go:91`, `218`) or has a third stream (`session.go:499`), and an ACK does
the same for the server. HandshakeTimeout is left out: with it, a handshake that
the network delays long enough is given up.
