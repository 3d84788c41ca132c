----------------------------- MODULE Handshake -----------------------------
(***************************************************************************)
(* The crypto handshake of one connection, both ends of it: the messages   *)
(* CHLO, REJ and SHLO on the crypto stream (internal/handshake), the keys  *)
(* of the three encryption levels, the packets sealed with them            *)
(* (packet_packer.go) and opened by the peer (packet_unpacker.go), the     *)
(* queue of packets that cannot be opened yet, the aeadChanged channel and *)
(* the retransmission of handshake packets (session.go, scheduler.go).     *)
(*                                                                         *)
(* Each end has two goroutines.  The crypto goroutine runs                 *)
(* HandleCryptoStream; its Write returns when the session has packed the   *)
(* message.  The session's goroutine takes a packet, opens it, handles its *)
(* frames, handles the events of aeadChanged and packs packets.  They meet *)
(* in SetDiversificationNonce, on an unbuffered channel, and in the        *)
(* server's Open, which waits for sentSHLO.                                *)
(*                                                                         *)
(* Both ends are honest, so the checks for missing tags, bad lengths,      *)
(* versions and certificates succeed.  A key is the number of the CHLO it  *)
(* is derived from, 0 if there is none.  A message is one packet.  ACKs    *)
(* are not packets of the model: a packet is acknowledged when it has been *)
(* opened, and an ACK that is late or lost shows as a retransmission.  The *)
(* HandshakeTimeout of the configuration is left out: the handshake has    *)
(* all the time it needs.                                                  *)
(***************************************************************************)
EXTENDS Naturals, Sequences, FiniteSets

CONSTANTS Caches,               \* what the client may have cached: "none", "current", "stale"
          IdleTimeout,          \* of the configuration of either end, in ticks
          Second,               \* ticks in a second
          ReceiveWindows,       \* of a stream and the connection, for either end
          InitialWindows,       \* those to send with before the peer's are known
          MaxStreams,           \* MaxStreamsPerConnection
          MaxIncoming,          \* MaxIncomingDynamicStreamsPerConnection
          MaxUndecryptable,     \* packets in the queue of those that cannot be opened
          MaxClientHellos,
          MaxFaults             \* bound on lost packets and early retransmissions

client == "client"
server == "server"
Sides == {client, server}
Peer(x) == IF x = client THEN server ELSE client

ASSUME HandshakeAssumption ==
  /\ Caches \subseteq {"none", "current", "stale"}
  /\ {Second, MaxClientHellos} \subseteq Nat \ {0} /\ IdleTimeout \in [Sides -> Nat]
  /\ {MaxStreams, MaxIncoming, MaxUndecryptable, MaxFaults} \subseteq Nat
  /\ ReceiveWindows \in [Sides -> Nat \X Nat] /\ InitialWindows \in Nat \X Nat

VARIABLES
  cache,                        \* what the client found in its cache
  hs,                           \* fields of cryptoSetupClient
  secure, forward,              \* keys of each end, 0 for nil
  receivedSecure,               \* ends that have opened a secure packet
  receivedForward,              \* the server has opened a forward-secure packet
  crypto,                       \* where the crypto goroutine is
  writing,                      \* message its Write is waiting for, or NoMessage
  read,                         \* number of messages read
  aead, aeadClosed,             \* the aeadChanged channel
  complete,                     \* handshakeComplete
  held,                         \* packet the session's goroutine is handling
  received,                     \* packets put back into receivedPackets
  undecryptable, tooMany,       \* undecryptablePackets; its running full started the timer
  net,                          \* packets in flight
  sent,                         \* packets the sentPacketHandler may send again
  seen,                         \* frames of the packets opened
  toSend,                       \* frames of the application and of the path manager
  params,                       \* connectionParametersManager of each end
  closed,                       \* "no", or why the session was closed
  faults

cryptoVars == <<hs, crypto, read, params>>
keyVars == <<secure, forward>>
openVars == <<receivedSecure, receivedForward, seen>>
queueVars == <<received, undecryptable, tooMany>>
vars == <<cache, cryptoVars, keyVars, openVars, queueVars, writing, aead, aeadClosed, complete,
          held, net, sent, toSend, closed, faults>>

NoMessage == [type |-> "none", n |-> 0]
NoPacket == [at |-> "none"]
Frame(t) == [type |-> t, n |-> 0]

\* What useHandshakeCache leaves of a cached server config, token and certificate: every
\* connection has a CookieGenerator with a secret of its own, so that no cached token is valid.
\* The client nonce is made with the OBIT of the cached config.
useHandshakeCache(c) ==
  [stk |-> IF c = "none" THEN "none" ELSE "stale", scfg |-> c, nonc |-> c,
   cert |-> c # "none", verified |-> c # "none", hellos |-> 0, lastSent |-> 0, divNonce |-> FALSE]

-----------------------------------------------------------------------------
(* connectionParametersManager *)

NewParameters(idle) ==
  [idle |-> idle, windows |-> InitialWindows, streams |-> MaxStreams, incoming |-> MaxStreams]

GetHelloMap(x, p) ==
  [icsl |-> p.idle \div Second, windows |-> ReceiveWindows[x],
   mspc |-> p.streams, mids |-> MaxIncoming]

MinOf(a, b) == IF a <= b THEN a ELSE b

\* Called once on either side, so that flow control is not negotiated again.
SetFromMap(p, hello) ==
  [idle |-> MinOf(hello.icsl * Second, p.idle), windows |-> hello.windows,
   streams |-> MinOf(hello.mspc, MaxStreams), incoming |-> MinOf(hello.mids, MaxIncoming)]

-----------------------------------------------------------------------------
(* Sealing and opening packets *)

KeyOf(x, level) ==
  CASE level = "clear" -> 0 [] level = "secure" -> secure[x] [] level = "forward" -> forward[x]

ClientSealer ==
  CASE forward[client] # 0 -> "forward"
    [] forward[client] = 0 /\ secure[client] # 0 -> "secure"
    [] OTHER -> "clear"

ServerSealer == IF forward[server] # 0 THEN "forward" ELSE "clear"

GetSealer(x) == IF x = client THEN ClientSealer ELSE ServerSealer

GetSealerForCryptoStream(x) == IF x = server /\ secure[x] # 0 THEN "secure" ELSE "clear"

canSendData(x) ==
  IF x = client THEN GetSealer(x) \in {"secure", "forward"} ELSE GetSealer(x) = "forward"

Packet(x, level, frame) ==
  [to |-> Peer(x), level |-> level, key |-> KeyOf(x, level), frame |-> frame]

\* The packets the server seals at the secure level carry the diversification nonce.
CarriesNonce(p) == p.to = client /\ p.level = "secure"

Opens(x, p, level) == p.level = level /\ KeyOf(x, level) # 0 /\ p.key = KeyOf(x, level)

\* The level at which a packet is opened.  With its forward-secure keys the client gives up all
\* others; the server does so when it has opened a forward-secure packet.
ClientOpen(p) ==
  CASE forward[client] # 0 -> IF Opens(client, p, "forward") THEN "forward" ELSE "fails"
    [] forward[client] = 0 /\ Opens(client, p, "secure") -> "secure"
    [] OTHER -> IF p.level = "clear" /\ client \notin receivedSecure THEN "clear" ELSE "fails"

ServerOpen(p) ==
  CASE Opens(server, p, "forward") -> "forward"
    [] ~Opens(server, p, "forward") /\ receivedForward -> "fails"
    [] Opens(server, p, "secure") /\ ~receivedForward -> "secure"
    [] OTHER -> IF p.level = "clear" /\ server \notin receivedSecure THEN "clear" ELSE "fails"

Open(x, p) == IF x = client THEN ClientOpen(p) ELSE ServerOpen(p)

-----------------------------------------------------------------------------
(* The client's crypto goroutine *)

Fail(x) == closed' = [closed EXCEPT ![x] = "crypto"]

\* sendCHLO: the hello is complete when the client has a server config and a certificate.
CHLO ==
  [type |-> "CHLO", n |-> hs.hellos + 1, scid |-> hs.scfg, stk |-> hs.stk, nonc |-> hs.nonc,
   full |-> hs.scfg # "none" /\ hs.cert, params |-> GetHelloMap(client, params[client])]

\* The condition of maybeUpgradeCrypto.
CanUpgrade ==
  /\ hs.verified /\ secure[client] = 0 /\ hs.scfg # "none" /\ hs.nonc # "none"
  /\ hs.cert /\ hs.divNonce /\ hs.lastSent # 0

\* The head of the loop of HandleCryptoStream: maybeUpgradeCrypto, then sendCHLO without secure keys.
ClientLoop ==
  /\ closed[client] = "no" /\ crypto[client] = "loop"
  /\ \/ /\ CanUpgrade
        /\ secure' = [secure EXCEPT ![client] = hs.lastSent]
        /\ aead' = [aead EXCEPT ![client] = Append(@, "secure")]
        /\ crypto' = [crypto EXCEPT ![client] = "select"]
        /\ UNCHANGED <<hs, writing, closed>>
     \/ /\ secure[client] # 0 /\ crypto' = [crypto EXCEPT ![client] = "select"]
        /\ UNCHANGED <<hs, secure, aead, writing, closed>>
     \/ /\ ~CanUpgrade /\ secure[client] = 0
        /\ hs' = [hs EXCEPT !.hellos = @ + 1]
        /\ IF hs.hellos + 1 > MaxClientHellos
           THEN Fail(client) /\ crypto' = [crypto EXCEPT ![client] = "done"] /\ UNCHANGED writing
           ELSE /\ writing' = [writing EXCEPT ![client] = CHLO]
                /\ crypto' = [crypto EXCEPT ![client] = "write"]
                /\ UNCHANGED closed
        /\ UNCHANGED <<secure, aead>>
  /\ UNCHANGED <<cache, read, params, forward, openVars, queueVars, aeadClosed, complete, held, net,
                 sent, toSend, faults>>

\* Mutation: keys are derived from the first CHLO.
CHLOWritten_First ==
  /\ closed[client] = "no" /\ crypto[client] = "write" /\ writing[client] = NoMessage
  /\ hs' = [hs EXCEPT !.lastSent = IF @ = 0 THEN hs.hellos ELSE @]
  /\ crypto' = [crypto EXCEPT ![client] = "select"]
  /\ UNCHANGED <<cache, read, params, keyVars, openVars, queueVars, writing, aead, aeadClosed,
                 complete, held, net, sent, toSend, closed, faults>>

\* The Write of the CHLO returns; only now is it the one keys are derived from.
CHLOWritten ==
  /\ closed[client] = "no" /\ crypto[client] = "write" /\ writing[client] = NoMessage
  /\ hs' = [hs EXCEPT !.lastSent = hs.hellos]
  /\ crypto' = [crypto EXCEPT ![client] = "select"]
  /\ UNCHANGED <<cache, read, params, keyVars, openVars, queueVars, writing, aead, aeadClosed,
                 complete, held, net, sent, toSend, closed, faults>>

\* SetDiversificationNonce of the session's goroutine meets the select of the crypto goroutine.
SetDiversificationNonce ==
  /\ crypto[client] = "select" /\ held[client].at = "nonce"
  /\ hs' = [hs EXCEPT !.divNonce = TRUE]
  /\ crypto' = [crypto EXCEPT ![client] = "loop"]
  /\ held' = [held EXCEPT ![client].at = "open"]
  /\ UNCHANGED <<cache, read, params, keyVars, openVars, queueVars, writing, aead, aeadClosed,
                 complete, net, sent, toSend, closed, faults>>

\* A client nonce is made once, with the OBIT of the config of that time.
generateClientNonce(nonc) == IF nonc = "none" THEN "current" ELSE nonc

Readable(x, type) == {m \in seen[x] : m.n = read[x] + 1 /\ m.type = type}

\* Mutation: the token of a REJ is not kept.
HandledREJ_NoToken(m) ==
  [hs EXCEPT !.scfg = "current", !.nonc = generateClientNonce(@),
             !.cert = @ \/ m.proof, !.verified = @ \/ (m.proof /\ m.n = hs.lastSent)]

\* A REJ has the token and the config, and the proof with the certificate if the token in the CHLO
\* it answers was good.  A nonce that exists stays, whatever config it was made for.
HandledREJ(m) ==
  [hs EXCEPT !.stk = "valid", !.scfg = "current", !.nonc = generateClientNonce(@),
             !.cert = @ \/ m.proof, !.verified = @ \/ (m.proof /\ m.n = hs.lastSent)]

handleREJMessage ==
  /\ closed[client] = "no" /\ crypto[client] = "select"
  /\ \E m \in Readable(client, "REJ") :
       /\ hs' = HandledREJ(m)
       /\ IF m.proof /\ m.n # hs.lastSent
          THEN Fail(client) /\ crypto' = [crypto EXCEPT ![client] = "done"]
          ELSE crypto' = [crypto EXCEPT ![client] = "loop"] /\ UNCHANGED closed
  /\ read' = [read EXCEPT ![client] = @ + 1]
  /\ UNCHANGED <<cache, params, keyVars, openVars, queueVars, writing, aead, aeadClosed, complete,
                 held, net, sent, toSend, faults>>

\* The forward-secure key is installed, and its event sent, in one critical section.
handleSHLOMessage ==
  /\ closed[client] = "no" /\ crypto[client] = "select"
  /\ \E m \in Readable(client, "SHLO") :
       IF client \in receivedSecure
       THEN /\ forward' = [forward EXCEPT ![client] = hs.lastSent]
            /\ params' = [params EXCEPT ![client] = SetFromMap(@, m.params)]
            /\ aead' = [aead EXCEPT ![client] = Append(@, "forward")]
            /\ aeadClosed' = [aeadClosed EXCEPT ![client] = TRUE]
            /\ crypto' = [crypto EXCEPT ![client] = "loop"]
            /\ UNCHANGED closed
       ELSE /\ Fail(client) /\ crypto' = [crypto EXCEPT ![client] = "done"]
            /\ UNCHANGED <<forward, params, aead, aeadClosed>>
  /\ read' = [read EXCEPT ![client] = @ + 1]
  /\ UNCHANGED <<cache, hs, secure, openVars, queueVars, writing, complete, held, net, sent,
                 toSend, faults>>

-----------------------------------------------------------------------------
(* The server's crypto goroutine *)

acceptSTK(m) == m.stk = "valid"

isInchoateCHLO(m) == ~m.full \/ m.scid # "current" \/ ~acceptSTK(m)

\* An inchoate CHLO is answered with a REJ.
handleInchoateCHLO ==
  /\ closed[server] = "no" /\ crypto[server] = "read"
  /\ \E m \in Readable(server, "CHLO") :
       /\ isInchoateCHLO(m)
       /\ writing' = [writing EXCEPT ![server] = [type |-> "REJ", n |-> m.n, proof |-> acceptSTK(m)]]
  /\ read' = [read EXCEPT ![server] = @ + 1]
  /\ crypto' = [crypto EXCEPT ![server] = "write"]
  /\ UNCHANGED <<cache, hs, params, keyVars, openVars, queueVars, aead, aeadClosed, complete, held,
                 net, sent, toSend, closed, faults>>

\* A full one gives the keys of both levels, and is answered with a SHLO.  The nonce in it must have
\* the OBIT of the server's config.
handleCHLO ==
  /\ closed[server] = "no" /\ crypto[server] = "read"
  /\ \E m \in Readable(server, "CHLO") :
       /\ ~isInchoateCHLO(m)
       /\ IF m.nonc # "current"
          THEN /\ Fail(server) /\ crypto' = [crypto EXCEPT ![server] = "done"]
               /\ UNCHANGED <<secure, forward, aead, params, writing>>
          ELSE /\ secure' = [secure EXCEPT ![server] = m.n]
               /\ forward' = [forward EXCEPT ![server] = m.n]
               /\ aead' = [aead EXCEPT ![server] = Append(@, "secure")]
               /\ params' = [params EXCEPT ![server] = SetFromMap(@, m.params)]
               /\ writing' = [writing EXCEPT ![server] =
                    [type |-> "SHLO", n |-> m.n, params |-> GetHelloMap(server, params'[server])]]
               /\ crypto' = [crypto EXCEPT ![server] = "writeSHLO"]
               /\ UNCHANGED closed
  /\ read' = [read EXCEPT ![server] = @ + 1]
  /\ UNCHANGED <<cache, hs, openVars, queueVars, aeadClosed, complete, held, net, sent,
                 toSend, faults>>

\* The Write of a REJ returns; the Write of the SHLO returns, the forward-secure event is sent and
\* sentSHLO closed.
ReplyWritten ==
  /\ closed[server] = "no" /\ writing[server] = NoMessage
  /\ \/ /\ crypto[server] = "write"
        /\ crypto' = [crypto EXCEPT ![server] = "read"] /\ UNCHANGED aead
     \/ /\ crypto[server] = "writeSHLO"
        /\ crypto' = [crypto EXCEPT ![server] = "done"]
        /\ aead' = [aead EXCEPT ![server] = Append(@, "forward")]
  /\ UNCHANGED <<cache, hs, read, params, keyVars, openVars, queueVars, writing, aeadClosed, complete,
                 held, net, sent, toSend, closed, faults>>

-----------------------------------------------------------------------------
(* The session's goroutines *)

Idle(x) == closed[x] = "no" /\ held[x].at = "none"

\* The server handles its first forward-secure packet when sentSHLO is closed.
MayOpen(x, p) ==
  x = server /\ Open(x, p) = "forward" /\ ~receivedForward => crypto[server] = "done"

\* tryQueueingUndecryptablePacket
QueueUndecryptable(x, p) ==
  /\ IF complete[x]
     THEN UNCHANGED <<undecryptable, tooMany>>
     ELSE IF Cardinality(undecryptable[x]) + 1 > MaxUndecryptable
          THEN tooMany' = [tooMany EXCEPT ![x] = TRUE] /\ UNCHANGED undecryptable
          ELSE undecryptable' = [undecryptable EXCEPT ![x] = @ \cup {p}] /\ UNCHANGED tooMany
  /\ UNCHANGED <<openVars, aeadClosed, closed>>

\* Unpack and handleFrames of a packet that opens at the level.  Unencrypted data on a stream other
\* than the crypto stream is an error.
HandleFrames(x, p, level) ==
  LET f == p.frame
  IN  /\ receivedSecure' = IF level = "secure" THEN receivedSecure \cup {x} ELSE receivedSecure
      /\ receivedForward' = (receivedForward \/ (x = server /\ level = "forward"))
      /\ aeadClosed' = [aeadClosed EXCEPT ![x] = @ \/ (x = server /\ level = "forward")]
      /\ seen' = [seen EXCEPT ![x] = @ \cup {f}]
      /\ closed' = [closed EXCEPT ![x] =
                      IF level = "clear" /\ f.type \in {"DATA", "REPLY"} THEN "unencrypted" ELSE @]
      /\ UNCHANGED <<undecryptable, tooMany>>

OpenPacket(x, p) ==
  /\ MayOpen(x, p)
  /\ IF Open(x, p) = "fails" THEN QueueUndecryptable(x, p) ELSE HandleFrames(x, p, Open(x, p))

\* A packet is taken from the network, or from the ones that were put back.  Its nonce is handed over
\* before it is opened.
Receive(x, type) ==
  /\ Idle(x)
  /\ \E p \in {q \in net : q.to = x} \cup received[x] :
       /\ p.frame.type = type
       /\ IF p \in received[x]
          THEN received' = [received EXCEPT ![x] = @ \ {p}] /\ UNCHANGED net
          ELSE net' = net \ {p} /\ UNCHANGED received
       /\ IF CarriesNonce(p) \/ ~MayOpen(x, p)
          THEN /\ held' = [held EXCEPT ![x] =
                    [at |-> IF CarriesNonce(p) THEN "nonce" ELSE "open", packet |-> p]]
               /\ UNCHANGED <<openVars, undecryptable, tooMany, aeadClosed, closed>>
          ELSE OpenPacket(x, p) /\ UNCHANGED held
  /\ UNCHANGED <<cache, cryptoVars, keyVars, writing, aead, complete, sent, toSend, faults>>

\* The goroutine goes on with the packet it was waiting with.
OpenHeld(x) ==
  /\ closed[x] = "no" /\ held[x].at = "open" /\ OpenPacket(x, held[x].packet)
  /\ held' = [held EXCEPT ![x] = NoPacket]
  /\ UNCHANGED <<cache, cryptoVars, keyVars, received, writing, aead, complete, net, sent, toSend,
                 faults>>

\* tryDecryptingQueuedPackets is called for every event.
Retried(level) == level \in {"secure", "forward"}

\* An event of aeadChanged.  At the forward-secure one the server's session is handed to the
\* application, which may have something to send.
AeadChanged(x) ==
  /\ Idle(x) /\ aead[x] # <<>>
  /\ IF Retried(Head(aead[x]))
     THEN /\ received' = [received EXCEPT ![x] = @ \cup undecryptable[x]]
          /\ undecryptable' = [undecryptable EXCEPT ![x] = {}]
     ELSE UNCHANGED <<received, undecryptable>>
  /\ toSend' = [toSend EXCEPT ![x] =
                  IF x = server /\ Head(aead[x]) = "forward" THEN @ \cup {"REPLY"} ELSE @]
  /\ aead' = [aead EXCEPT ![x] = Tail(@)]
  /\ UNCHANGED <<cache, cryptoVars, keyVars, openVars, tooMany, writing, aeadClosed, complete, held,
                 net, sent, closed, faults>>

\* The channel is closed: the handshake is complete.  The PATHS frame stands for the client's first packet
\* with forward-secure keys: its path manager has one sent if it is to create paths, and otherwise the
\* session sends one with its third stream; an ACK, if there is one to send, does the same for the server.
HandshakeCompleted(x) ==
  /\ Idle(x) /\ aead[x] = <<>> /\ aeadClosed[x] /\ ~complete[x]
  /\ complete' = [complete EXCEPT ![x] = TRUE]
  /\ toSend' = [toSend EXCEPT ![x] = IF x = client THEN @ \cup {"PATHS"} ELSE @]
  /\ UNCHANGED <<cache, cryptoVars, keyVars, openVars, queueVars, writing, aead, aeadClosed, held, net,
                 sent, closed, faults>>

\* The timer that started when the queue ran full expires, and the queue is not empty.
TooManyUndecryptable(x) ==
  /\ Idle(x) /\ tooMany[x] /\ undecryptable[x] # {}
  /\ closed' = [closed EXCEPT ![x] = "undecryptable"]
  /\ UNCHANGED <<cache, cryptoVars, keyVars, openVars, queueVars, writing, aead, aeadClosed, complete,
                 held, net, sent, toSend, faults>>

-----------------------------------------------------------------------------
(* Packing *)

\* A message of the crypto stream goes first, in a packet of its own.
packCryptoPacket(x) ==
  /\ Idle(x) /\ writing[x] # NoMessage
  /\ LET p == Packet(x, GetSealerForCryptoStream(x), writing[x])
     IN  net' = net \cup {p} /\ sent' = [sent EXCEPT ![x] = @ \cup {p}]
  /\ writing' = [writing EXCEPT ![x] = NoMessage]
  /\ UNCHANGED <<cache, cryptoVars, keyVars, openVars, queueVars, aead, aeadClosed, complete, held,
                 toSend, closed, faults>>

PackData(x) ==
  /\ Idle(x) /\ writing[x] = NoMessage
  /\ \E t \in toSend[x] :
       /\ t = "PATHS" \/ canSendData(x)
       /\ LET p == Packet(x, GetSealer(x), Frame(t))
          IN  net' = net \cup {p} /\ sent' = [sent EXCEPT ![x] = @ \cup {p}]
       /\ toSend' = [toSend EXCEPT ![x] = @ \ {t}]
  /\ UNCHANGED <<cache, cryptoVars, keyVars, openVars, queueVars, writing, aead, aeadClosed, complete,
                 held, closed, faults>>

\* Mutation: nothing is sent again when the handshake is complete.
Resent_Incomplete(x, u) == ~complete[x]

\* A packet of the handshake is sent again, at its own level, until the handshake is complete.
Resent(x, u) == u.level = "forward" \/ ~complete[x]

\* The packet is neither on its way to the peer nor was it opened there.
Gone(x, u) ==
  LET y == Peer(x)
  IN  /\ u \notin net \cup received[y] \cup undecryptable[y] /\ u.frame \notin seen[y]
      /\ held[y].at # "none" => held[y].packet # u

\* A packet that is not acknowledged is sent again, or dropped, when the alarm of its path rings.
Retransmit(x, u) ==
  /\ Idle(x)
  /\ IF Resent(x, u)
     THEN net' = net \cup {u} /\ UNCHANGED sent
     ELSE sent' = [sent EXCEPT ![x] = @ \ {u}] /\ UNCHANGED net
  /\ UNCHANGED <<cache, cryptoVars, keyVars, openVars, queueVars, writing, aead, aeadClosed, complete,
                 held, toSend, closed>>

RetransmitLost(x, type) ==
  \E u \in sent[x] : u.frame.type = type /\ Gone(x, u) /\ Retransmit(x, u) /\ UNCHANGED faults

\* The packet is still on its way, or its ACK is late or lost.
RetransmitEarly(x) ==
  /\ faults < MaxFaults /\ faults' = faults + 1
  /\ \E u \in sent[x] \ net : ~Gone(x, u) /\ Retransmit(x, u)

Lose ==
  /\ faults < MaxFaults /\ faults' = faults + 1
  /\ \E p \in net : net' = net \ {p}
  /\ UNCHANGED <<cache, cryptoVars, keyVars, openVars, queueVars, writing, aead, aeadClosed, complete,
                 held, sent, toSend, closed>>

-----------------------------------------------------------------------------
Init ==
  /\ cache \in Caches /\ hs = useHandshakeCache(cache)
  /\ params = [x \in Sides |-> NewParameters(IdleTimeout[x])]
  /\ secure = [x \in Sides |-> 0] /\ forward = [x \in Sides |-> 0]
  /\ receivedSecure = {} /\ receivedForward = FALSE
  /\ crypto = [x \in Sides |-> IF x = client THEN "loop" ELSE "read"]
  /\ writing = [x \in Sides |-> NoMessage]
  /\ read = [x \in Sides |-> 0]
  /\ aead = [x \in Sides |-> <<>>] /\ aeadClosed = [x \in Sides |-> FALSE]
  /\ complete = [x \in Sides |-> FALSE] /\ held = [x \in Sides |-> NoPacket]
  /\ received = [x \in Sides |-> {}] /\ undecryptable = [x \in Sides |-> {}]
  /\ tooMany = [x \in Sides |-> FALSE]
  /\ net = {} /\ sent = [x \in Sides |-> {}]
  /\ seen = [x \in Sides |-> {}]
  /\ toSend = [x \in Sides |-> IF x = client THEN {"DATA"} ELSE {}]
  /\ closed = [x \in Sides |-> "no"] /\ faults = 0

ClientCrypto == ClientLoop \/ CHLOWritten \/ handleREJMessage \/ handleSHLOMessage

ServerCrypto == handleInchoateCHLO \/ handleCHLO \/ ReplyWritten

Event(x) == OpenHeld(x) \/ AeadChanged(x) \/ HandshakeCompleted(x)

FramesOf(x) == IF x = client THEN {"CHLO", "DATA", "PATHS"} ELSE {"REJ", "SHLO", "REPLY"}

Next ==
  \/ ClientCrypto \/ SetDiversificationNonce \/ ServerCrypto \/ Lose
  \/ \E x \in Sides :
       \/ Event(x) \/ TooManyUndecryptable(x) \/ packCryptoPacket(x) \/ PackData(x)
       \/ RetransmitEarly(x)
       \/ \E t \in FramesOf(x) : Receive(Peer(x), t) \/ RetransmitLost(x, t)

Spec == Init /\ [][Next]_vars

\* The goroutines go on, every packet that is not lost is received in the end, and the alarm of a
\* path rings as long as something that was lost is not acknowledged.  Only data can be received,
\* dropped and sent again without end: the other frames need no fairness of their own.
Goroutines ==
  \/ ClientCrypto \/ ServerCrypto \/ SetDiversificationNonce
  \/ \E x \in Sides : Event(x) \/ packCryptoPacket(x) \/ PackData(x)

FairTo(types) ==
  /\ WF_vars(\E x \in Sides : \E t \in types \cap FramesOf(x) : Receive(Peer(x), t))
  /\ WF_vars(\E x \in Sides : \E t \in types \cap FramesOf(x) : RetransmitLost(x, t))

Fairness ==
  /\ WF_vars(Goroutines)
  /\ FairTo({"CHLO", "REJ", "SHLO", "PATHS"}) /\ FairTo({"DATA"}) /\ FairTo({"REPLY"})

FairSpec == Spec /\ Fairness

-----------------------------------------------------------------------------
(* Properties *)

\* The two sides agree.  Whenever the client has keys of a level, the server derived its keys of that
\* level from the same CHLO: maybeUpgradeCrypto and handleSHLOMessage use the last CHLO the client
\* wrote, handleCHLO the one it has read.  When the handshake is complete on both sides, each sends
\* with the windows the other receives with, and the client, whose idle timeout went through whole
\* seconds, gives up first, by less than a second.
EndpointsAgree ==
  /\ secure[client] # 0 => secure[client] = secure[server]
  /\ forward[client] # 0 => forward[client] = forward[server]
  /\ complete[client] /\ complete[server] =>
       /\ \A x \in Sides : params[x].windows = ReceiveWindows[Peer(x)]
       /\ params[client].idle <= params[server].idle
       /\ params[server].idle < params[client].idle + Second

\* Under faults of the network the handshake completes on both sides, unless the queue of undecryptable
\* packets ran full, or the client's cached server config is not the server's any more.
HandshakeCompletes ==
  <>(\/ \A x \in Sides : complete[x]
     \/ \E x \in Sides : closed[x] = "undecryptable"
     \/ cache = "stale")

\* What is sent with forward-secure keys arrives: the client's first packet after the handshake, for which
\* its PATHS frame stands (path_manager.go:218, if the client creates paths; session.go:499), and the data of the server's application, which may overtake the SHLO and then waits for the keys.
ForwardDelivered ==
  []<>(\/ \E x \in Sides : closed[x] # "no"
       \/ /\ complete[client] => Frame("PATHS") \in seen[server]
          /\ crypto[server] = "done" => Frame("REPLY") \in seen[client])

=============================================================================
