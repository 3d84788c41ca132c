-------------------------- MODULE HandshakeProofs --------------------------
(***************************************************************************)
(* The two ends of the handshake agree, for every number of hellos, any    *)
(* timeouts, windows and limits, any losses and any cache of the client.   *)
(*                                                                         *)
(* The argument counts.  The server reads the hellos in order and answers  *)
(* each one; the client writes hello k + 1 only when it has read answer k. *)
(* A packet with the diversification nonce shows that the server stopped   *)
(* at a hello N and took its keys from it.  So at most N - 1 answers were  *)
(* read and at most N hellos written: the last one is N, and the client,   *)
(* which has all that N was made with, upgrades instead of writing on.     *)
(***************************************************************************)
EXTENDS Handshake, TLAPS

Configs == {"none", "current", "stale"}

HelloStates ==
  [stk : {"none", "stale", "valid"}, scfg : Configs, nonc : Configs, cert : BOOLEAN,
   verified : BOOLEAN, hellos : Nat, lastSent : Nat, divNonce : BOOLEAN]

\* A function with a value for either end.
Sided(f) == f = [x \in Sides |-> f[x]]

TypeOK ==
  /\ hs \in HelloStates
  /\ secure \in [Sides -> Nat] /\ forward \in [Sides -> Nat] /\ read \in [Sides -> Nat]
  /\ Sided(crypto) /\ Sided(params) /\ Sided(writing) /\ Sided(seen)
  /\ Sided(aeadClosed) /\ Sided(complete) /\ Sided(toSend)
  /\ Sided(sent) /\ Sided(received) /\ Sided(undecryptable) /\ Sided(held)

\* What the two ends tell each other, and what they make of it.
NewParams(x) == NewParameters(IdleTimeout[x])
ClientHello == GetHelloMap(client, NewParams(client))
ServerParams == SetFromMap(NewParams(server), ClientHello)
ServerHello == GetHelloMap(server, ServerParams)
ClientParams == SetFromMap(NewParams(client), ServerHello)

\* A frame that was sent.  A CHLO is full only when the client has a config and a
\* certificate, which it keeps; a REJ answers a CHLO before the one that the server
\* took its keys from, and the SHLO answers that one.
FrameOK(f) ==
  /\ f.type = "CHLO" => /\ f.n \in Nat /\ f.n <= hs.hellos /\ f.params = ClientHello
                        /\ f.full => hs.scfg # "none" /\ hs.cert
  /\ f.type = "REJ" => /\ f.n \in Nat /\ f.n <= read[server]
                       /\ secure[server] # 0 => f.n < secure[server]
  /\ f.type = "SHLO" => secure[server] # 0 /\ f.n = secure[server] /\ f.params = ServerHello

\* Only a server that has keys sends the diversification nonce.
PacketOK(p) == FrameOK(p.frame) /\ (CarriesNonce(p) => secure[server] # 0)

FramesIn(w, s) == \A x \in Sides : FrameOK(w[x]) /\ \A f \in s[x] : FrameOK(f)

QueuesIn(s, r, u) ==
  \A x \in Sides : /\ \A p \in s[x] : PacketOK(p)
                   /\ \A p \in r[x] : PacketOK(p)
                   /\ \A p \in u[x] : PacketOK(p)

HeldIn(h) ==
  \A x \in Sides :
    \/ h[x] = NoPacket
    \/ \E p : /\ h[x] = [at |-> "open", packet |-> p] \/ (h[x] = [at |-> "nonce", packet |-> p] /\ CarriesNonce(p))
              /\ PacketOK(p)

NetIn(n) == \A p \in n : PacketOK(p)

ToSendIn(t) == \A x \in Sides : t[x] \subseteq {"DATA", "PATHS", "REPLY"}

MessagesOK ==
  /\ FramesIn(writing, seen) /\ QueuesIn(sent, received, undecryptable)
  /\ HeldIn(held) /\ NetIn(net) /\ ToSendIn(toSend)

\* The client writes a CHLO only when it has read the answer to the last one, until
\* it has the nonce; then it does not write another one.
ClientInv ==
  /\ hs.scfg # "none" => hs.nonc # "none"
  /\ hs.cert /\ crypto[client] # "done" => hs.verified
  /\ crypto[client] \in {"loop", "select"} => hs.lastSent = hs.hellos
  /\ ~hs.divNonce => IF crypto[client] = "loop" THEN hs.hellos <= read[client]
                                                ELSE hs.hellos <= read[client] + 1
  /\ hs.divNonce => /\ secure[server] # 0 /\ hs.lastSent = secure[server]
                    /\ crypto[client] \in {"loop", "select", "done"}

\* The server stops at the CHLO that it takes its keys from.
ServerInv ==
  /\ read[server] <= hs.hellos /\ read[client] <= read[server]
  /\ IF secure[server] = 0
     THEN forward[server] = 0 /\ params[server] = NewParams(server)
     ELSE /\ secure[server] = read[server] /\ forward[server] = secure[server]
          /\ params[server] = ServerParams /\ crypto[server] \in {"writeSHLO", "done"}
          /\ hs.scfg # "none" /\ hs.cert
          /\ hs.divNonce \/ crypto[client] = "done" \/ read[client] < secure[server]

KeysInv ==
  /\ client \in receivedSecure => secure[client] # 0
  /\ secure[client] # 0 => hs.divNonce /\ secure[client] = secure[server]
  /\ forward[client] # 0 => forward[client] = secure[server]
  /\ aeadClosed[server] => secure[server] # 0
  /\ IF aeadClosed[client]
     THEN read[client] = secure[server] /\ secure[client] # 0 /\ params[client] = ClientParams
     ELSE params[client] = NewParams(client)
  /\ \A x \in Sides : complete[x] => aeadClosed[x]

IInv == TypeOK /\ MessagesOK /\ ClientInv /\ ServerInv /\ KeysInv
-----------------------------------------------------------------------------
(* The parameters *)

\* They are made of constants.
LEMMA ParamsFixed ==
  /\ NewParams(client)' = NewParams(client) /\ NewParams(server)' = NewParams(server)
  /\ ClientHello' = ClientHello /\ ServerParams' = ServerParams
  /\ ServerHello' = ServerHello /\ ClientParams' = ClientParams
BY DEF NewParams, ClientHello, ServerParams, ServerHello, ClientParams

\* Whole seconds.
LEMMA Seconds ==
  ASSUME NEW n \in Nat
  PROVE  /\ (n \div Second) * Second \in Nat /\ (n \div Second) * Second <= n
         /\ n < (n \div Second) * Second + Second
BY HandshakeAssumption

\* The parameters that both ends arrive at.
LEMMA ParamsAgree ==
  /\ ServerParams.windows = ReceiveWindows[client] /\ ClientParams.windows = ReceiveWindows[server]
  /\ ClientParams.idle <= ServerParams.idle /\ ServerParams.idle < ClientParams.idle + Second
<1> DEFINE c == IdleTimeout[client]
           s == IdleTimeout[server]
           t == (c \div Second) * Second
           i == IF t <= s THEN t ELSE s
           u == (i \div Second) * Second
<1>1. c \in Nat /\ s \in Nat /\ Second \in Nat
  BY HandshakeAssumption DEF Sides, client, server
<1> HIDE DEF c, s
<1>2. t \in Nat /\ t <= c
  BY <1>1, Seconds
<1> HIDE DEF t
<1>3. i \in Nat /\ i <= c
  BY <1>1, <1>2
<1> HIDE DEF i
<1>4. u \in Nat /\ u <= i /\ i < u + Second
  BY <1>3, Seconds
<1> HIDE DEF u
<1>5. ClientHello.icsl = c \div Second /\ ClientHello.windows = ReceiveWindows[client]
  BY DEF ClientHello, GetHelloMap, NewParams, NewParameters, c
<1>6. ServerParams.idle = MinOf(t, s) /\ ServerParams.windows = ReceiveWindows[client]
  BY <1>5 DEF ServerParams, SetFromMap, NewParams, NewParameters, s, t
<1>7. ServerParams.idle = i
  BY <1>1, <1>2, <1>6 DEF i, MinOf
<1>8. ServerHello.icsl = i \div Second /\ ServerHello.windows = ReceiveWindows[server]
  BY <1>7 DEF ServerHello, GetHelloMap
<1>9. ClientParams.idle = MinOf(u, c) /\ ClientParams.windows = ReceiveWindows[server]
  BY <1>8 DEF ClientParams, SetFromMap, NewParams, NewParameters, c, u
<1>10. ClientParams.idle = u
  <2>1. u <= c
    BY <1>1, <1>3, <1>4
  <2> QED BY <1>1, <1>4, <1>9, <2>1 DEF MinOf
<1> QED BY <1>4, <1>6, <1>7, <1>9, <1>10

\* The invariant says more than the property.
LEMMA Implies == IInv => EndpointsAgree
<1> SUFFICES ASSUME IInv PROVE EndpointsAgree
  OBVIOUS
<1>1. /\ secure[client] # 0 => secure[client] = secure[server]
      /\ forward[client] # 0 => forward[client] = forward[server]
  BY DEF IInv, KeysInv, ServerInv
<1>2. ASSUME complete[client], complete[server]
      PROVE  params[client] = ClientParams /\ params[server] = ServerParams
  BY <1>2 DEF IInv, KeysInv, ServerInv, Sides, client, server
<1>3. Peer(client) = server /\ Peer(server) = client
  BY DEF Peer, client, server
<1> QED BY <1>1, <1>2, <1>3, ParamsAgree DEF EndpointsAgree, Sides
-----------------------------------------------------------------------------
(* Frames and packets *)

\* What a step may do to the keys, the hellos and the progress of the server, so
\* that what was sent remains right.
Progress ==
  /\ hs.hellos <= hs'.hellos /\ hs' \in HelloStates
  /\ hs.cert => hs'.cert
  /\ hs.scfg # "none" => hs'.scfg # "none"
  /\ read[server] <= read'[server] /\ read'[server] \in Nat
  /\ \/ secure'[server] = secure[server]
     \/ secure[server] = 0 /\ secure'[server] = read[server] + 1

\* A frame stays right.
LEMMA FrameStays ==
  ASSUME TypeOK, Progress, NEW f, FrameOK(f)
  PROVE  FrameOK(f)'
<1>1. /\ hs.hellos \in Nat /\ hs'.hellos \in Nat /\ read[server] \in Nat /\ secure[server] \in Nat
  BY DEF TypeOK, HelloStates, Progress, Sides
<1>2. f.type = "CHLO" => FrameOK(f)'
  BY <1>1 DEF Progress, FrameOK
<1>3. f.type = "REJ" => FrameOK(f)'
  BY <1>1 DEF Progress, FrameOK
<1>4. f.type = "SHLO" => FrameOK(f)'
  BY <1>1 DEF Progress, FrameOK
<1> QED BY <1>2, <1>3, <1>4 DEF FrameOK

\* So does a packet, and everything that is under way.
LEMMA PacketStays ==
  ASSUME TypeOK, Progress, NEW p, PacketOK(p)
  PROVE  PacketOK(p)'
<1>1. FrameOK(p.frame)'
  BY FrameStays DEF PacketOK
<1>2. secure[server] # 0 => secure'[server] # 0
  BY DEF Progress
<1> QED BY <1>1, <1>2 DEF PacketOK, CarriesNonce

\* The messages after a step, seen from before it.
Messages2 ==
  /\ FramesIn(writing', seen') /\ QueuesIn(sent', received', undecryptable')
  /\ HeldIn(held') /\ NetIn(net') /\ ToSendIn(toSend')

\* All messages stay right.
LEMMA MessagesStay ==
  ASSUME TypeOK, Progress, Messages2
  PROVE  MessagesOK'
<1>1. \A f : FrameOK(f) => FrameOK(f)'
  BY FrameStays
<1>2. \A p : PacketOK(p) => PacketOK(p)'
  BY PacketStays
<1>3. FramesIn(writing, seen)'
  BY <1>1 DEF FramesIn, Messages2
<1>4. QueuesIn(sent, received, undecryptable)'
  BY <1>2 DEF QueuesIn, Messages2
<1>5. HeldIn(held)'
  BY <1>2, Zenon DEF HeldIn, Messages2, CarriesNonce
<1>6. NetIn(net)' /\ ToSendIn(toSend)'
  BY <1>2 DEF NetIn, ToSendIn, Messages2
<1> QED BY <1>3, <1>4, <1>5, <1>6 DEF MessagesOK

-----------------------------------------------------------------------------
(* The session's goroutines leave the state of the crypto goroutines alone. *)

SessionTypes ==
  /\ Sided(writing') /\ Sided(seen') /\ Sided(aeadClosed') /\ Sided(complete') /\ Sided(toSend')
  /\ Sided(sent') /\ Sided(received') /\ Sided(undecryptable') /\ Sided(held')

SessionKeys ==
  /\ client \in receivedSecure' => secure[client] # 0
  /\ aeadClosed'[server] => secure[server] # 0
  /\ aeadClosed'[client] <=> aeadClosed[client]
  /\ \A x \in Sides : complete'[x] => aeadClosed'[x]

\* A step of theirs keeps the invariant when it keeps what is under way right.
LEMMA SessionStep ==
  ASSUME IInv, UNCHANGED <<cryptoVars, keyVars>>, Messages2, SessionTypes, SessionKeys
  PROVE  IInv'
<1>1. TypeOK'
  BY DEF IInv, TypeOK, SessionTypes, cryptoVars, keyVars, Sided
<1>2. Progress
  BY DEF IInv, TypeOK, Progress, cryptoVars, keyVars, HelloStates, Sides
<1>3. MessagesOK'
  BY <1>2, MessagesStay DEF IInv
<1>4. ClientInv' /\ ServerInv'
  BY ParamsFixed DEF IInv, ClientInv, ServerInv, cryptoVars, keyVars
<1>5. KeysInv'
  BY ParamsFixed DEF IInv, KeysInv, SessionKeys, cryptoVars, keyVars
<1> QED BY <1>1, <1>3, <1>4, <1>5 DEF IInv

\* Opening a packet, at whatever level.
LEMMA OpenStep ==
  ASSUME IInv, NEW x \in Sides, NEW p, PacketOK(p), OpenPacket(x, p)
  PROVE  /\ Sided(seen') /\ Sided(undecryptable') /\ Sided(aeadClosed')
         /\ FramesIn(writing, seen')
         /\ QueuesIn(sent, received, undecryptable')
         /\ client \in receivedSecure' => secure[client] # 0
         /\ aeadClosed'[server] => secure[server] # 0
         /\ aeadClosed'[client] <=> aeadClosed[client]
         /\ \A y \in Sides : complete[y] => aeadClosed'[y]
<1>1. /\ Sided(seen) /\ Sided(undecryptable) /\ Sided(aeadClosed)
      /\ FramesIn(writing, seen) /\ QueuesIn(sent, received, undecryptable)
      /\ KeysInv
  BY DEF IInv, TypeOK, MessagesOK
<1>2. CASE Open(x, p) = "fails"
  <2>1. QueueUndecryptable(x, p)
    BY <1>2 DEF OpenPacket
  <2>2. UNCHANGED openVars /\ UNCHANGED aeadClosed
    BY <2>1 DEF QueueUndecryptable
  <2>3. undecryptable' = undecryptable \/ undecryptable' = [undecryptable EXCEPT ![x] = @ \cup {p}]
    BY <2>1 DEF QueueUndecryptable
  <2>4. Sided(undecryptable')
    BY <1>1, <2>3 DEF Sided
  <2>5. \A y \in Sides : undecryptable'[y] \subseteq undecryptable[y] \cup {p}
    BY <1>1, <2>3 DEF Sided
  <2>6. QueuesIn(sent, received, undecryptable')
    BY <1>1, <2>5 DEF QueuesIn
  <2> QED BY <1>1, <2>2, <2>4, <2>6 DEF openVars, KeysInv
<1>3. CASE Open(x, p) # "fails"
  <2> DEFINE level == Open(x, p)
  <2>1. /\ receivedSecure' = IF level = "secure" THEN receivedSecure \cup {x} ELSE receivedSecure
        /\ aeadClosed' = [aeadClosed EXCEPT ![x] = @ \/ (x = server /\ level = "forward")]
        /\ seen' = [seen EXCEPT ![x] = @ \cup {p.frame}]
        /\ UNCHANGED undecryptable
    BY <1>3 DEF OpenPacket, HandleFrames
  <2>2. x = client /\ level = "secure" => secure[client] # 0
    BY DEF Open, ClientOpen, Opens, KeyOf
  <2>3. x = server /\ level = "forward" => forward[server] # 0
    BY DEF Open, ServerOpen, Opens, KeyOf, client, server
  <2>4. forward[server] # 0 => secure[server] # 0
    BY DEF IInv, ServerInv
  <2> HIDE DEF level
  <2>5. Sided(seen') /\ Sided(aeadClosed')
    BY <1>1, <2>1, Zenon DEF Sided
  <2>6. \A y \in Sides : seen'[y] \subseteq seen[y] \cup {p.frame}
    BY <1>1, <2>1 DEF Sided
  <2>7. FramesIn(writing, seen')
    BY <1>1, <2>6 DEF FramesIn, PacketOK
  <2>8. client \in receivedSecure' => secure[client] # 0
    BY <1>1, <2>1, <2>2 DEF KeysInv
  <2>9. /\ aeadClosed'[server] => secure[server] # 0
        /\ aeadClosed'[client] <=> aeadClosed[client]
        /\ \A y \in Sides : aeadClosed[y] => aeadClosed'[y]
    BY <1>1, <2>1, <2>3, <2>4, Zenon DEF KeysInv, Sided, Sides, client, server
  <2> QED BY <1>1, <2>1, <2>5, <2>7, <2>8, <2>9 DEF KeysInv
<1> QED BY <1>2, <1>3

\* Receive: the packet is opened, or kept until the crypto goroutine is ready for it.
LEMMA ReceiveStep ==
  ASSUME IInv, NEW x \in Sides, NEW t, Receive(x, t)
  PROVE  IInv'
<1>1. PICK p : /\ p \in net \/ p \in received[x]
               /\ \/ received' = [received EXCEPT ![x] = @ \ {p}] /\ UNCHANGED net
                  \/ net' = net \ {p} /\ UNCHANGED received
               /\ \/ /\ held' = [held EXCEPT ![x] =
                            [at |-> IF CarriesNonce(p) THEN "nonce" ELSE "open", packet |-> p]]
                     /\ UNCHANGED <<openVars, undecryptable, tooMany, aeadClosed, closed>>
                  \/ OpenPacket(x, p) /\ UNCHANGED held
  BY DEF Receive
<1>2. UNCHANGED <<cryptoVars, keyVars, writing, complete, sent, toSend>>
  BY DEF Receive
<1>3. /\ MessagesOK /\ KeysInv /\ TypeOK
  BY DEF IInv
<1>4. PacketOK(p)
  BY <1>1, <1>3 DEF MessagesOK, NetIn, QueuesIn
<1>5. /\ Sided(received') /\ NetIn(net')
      /\ \A y \in Sides : received'[y] \subseteq received[y]
  BY <1>1, <1>3 DEF TypeOK, Sided, MessagesOK, NetIn
<1>6. CASE held' = [held EXCEPT ![x] =
              [at |-> IF CarriesNonce(p) THEN "nonce" ELSE "open", packet |-> p]]
           /\ UNCHANGED <<openVars, undecryptable, tooMany, aeadClosed, closed>>
  <2>1. Sided(held')
    BY <1>3, <1>6, Zenon DEF TypeOK, Sided
  <2>2. \A y \in Sides : held'[y] = held[y] \/ (y = x /\ held'[y] = [at |-> IF CarriesNonce(p) THEN "nonce" ELSE "open", packet |-> p])
    BY <1>3, <1>6 DEF TypeOK, Sided
  <2>3. HeldIn(held')
    <3> SUFFICES ASSUME NEW y \in Sides, y = x,
                        held'[y] = [at |-> IF CarriesNonce(p) THEN "nonce" ELSE "open", packet |-> p]
                 PROVE  \E q : /\ \/ held'[y] = [at |-> "open", packet |-> q]
                                  \/ held'[y] = [at |-> "nonce", packet |-> q] /\ CarriesNonce(q)
                               /\ PacketOK(q)
      BY <1>3, <2>2, Zenon DEF MessagesOK, HeldIn
    <3> WITNESS p
    <3>1. CASE CarriesNonce(p)
      BY <1>4, <3>1
    <3>2. CASE ~CarriesNonce(p)
      BY <1>4, <3>2
    <3> QED BY <3>1, <3>2
  <2>4. Messages2
    BY <1>2, <1>3, <1>5, <1>6, <2>3 DEF Messages2, MessagesOK, QueuesIn, FramesIn, openVars
  <2>5. SessionTypes /\ SessionKeys
    BY <1>2, <1>3, <1>5, <1>6, <2>1 DEF SessionTypes, SessionKeys, TypeOK, KeysInv, openVars
  <2> QED BY <1>2, <2>4, <2>5, SessionStep
<1>7. CASE OpenPacket(x, p) /\ UNCHANGED held
  <2>1. /\ Sided(seen') /\ Sided(undecryptable') /\ Sided(aeadClosed')
        /\ FramesIn(writing, seen')
        /\ QueuesIn(sent, received, undecryptable')
        /\ client \in receivedSecure' => secure[client] # 0
        /\ aeadClosed'[server] => secure[server] # 0
        /\ aeadClosed'[client] <=> aeadClosed[client]
        /\ \A y \in Sides : complete[y] => aeadClosed'[y]
    BY <1>4, <1>7, OpenStep
  <2>2. QueuesIn(sent', received', undecryptable')
    BY <1>2, <1>5, <2>1 DEF QueuesIn
  <2>3. Messages2
    BY <1>2, <1>3, <1>5, <1>7, <2>1, <2>2 DEF Messages2, MessagesOK
  <2>4. SessionTypes /\ SessionKeys
    BY <1>2, <1>3, <1>5, <1>7, <2>1 DEF SessionTypes, SessionKeys, TypeOK
  <2> QED BY <1>2, <2>3, <2>4, SessionStep
<1> QED BY <1>1, <1>6, <1>7

\* The packet that was kept is opened.
LEMMA OpenHeldStep ==
  ASSUME IInv, NEW x \in Sides, OpenHeld(x)
  PROVE  IInv'
<1>1. /\ OpenPacket(x, held[x].packet) /\ held' = [held EXCEPT ![x] = NoPacket] /\ held[x].at = "open"
      /\ UNCHANGED <<cryptoVars, keyVars, received, writing, complete, net, sent, toSend>>
  BY DEF OpenHeld
<1>2. /\ MessagesOK /\ KeysInv /\ TypeOK
  BY DEF IInv
<1>3. PacketOK(held[x].packet)
  <2>1. held[x] # NoPacket
    BY <1>1 DEF NoPacket
  <2>2. PICK q : /\ held[x] = [at |-> "open", packet |-> q] \/ held[x] = [at |-> "nonce", packet |-> q]
                 /\ PacketOK(q)
    BY <1>2, <2>1 DEF MessagesOK, HeldIn
  <2>3. held[x].packet = q
    BY <2>2
  <2> QED BY <2>2, <2>3
<1>4. PICK p : p = held[x].packet
  OBVIOUS
<1>5. /\ Sided(seen') /\ Sided(undecryptable') /\ Sided(aeadClosed')
      /\ FramesIn(writing, seen')
      /\ QueuesIn(sent, received, undecryptable')
      /\ client \in receivedSecure' => secure[client] # 0
      /\ aeadClosed'[server] => secure[server] # 0
      /\ aeadClosed'[client] <=> aeadClosed[client]
      /\ \A y \in Sides : complete[y] => aeadClosed'[y]
  BY <1>1, <1>3, <1>4, OpenStep
<1>6. Sided(held') /\ \A y \in Sides : held'[y] = held[y] \/ held'[y] = NoPacket
  BY <1>1, <1>2, Zenon DEF TypeOK, Sided
<1>7. HeldIn(held')
  BY <1>2, <1>6 DEF MessagesOK, HeldIn
<1>8. Messages2
  BY <1>1, <1>2, <1>5, <1>7, Zenon DEF Messages2, MessagesOK
<1>9. SessionTypes /\ SessionKeys
  BY <1>1, <1>2, <1>5, <1>6 DEF SessionTypes, SessionKeys, TypeOK
<1> QED BY <1>1, <1>8, <1>9, SessionStep

\* The events of aeadChanged, and its end.
LEMMA EventStep ==
  ASSUME IInv, NEW x \in Sides, AeadChanged(x) \/ HandshakeCompleted(x) \/ TooManyUndecryptable(x)
  PROVE  IInv'
<1>1. /\ MessagesOK /\ KeysInv /\ TypeOK
  BY DEF IInv
<1>2. CASE AeadChanged(x)
  <2>1. /\ UNCHANGED <<cryptoVars, keyVars, openVars, writing, aeadClosed, complete, held, net, sent>>
        /\ \/ /\ received' = [received EXCEPT ![x] = @ \cup undecryptable[x]]
              /\ undecryptable' = [undecryptable EXCEPT ![x] = {}]
           \/ UNCHANGED <<received, undecryptable>>
        /\ \/ UNCHANGED toSend
           \/ toSend' = [toSend EXCEPT ![x] = @ \cup {"REPLY"}]
           \/ toSend' = [toSend EXCEPT ![x] = @]
    BY <1>2, Zenon DEF AeadChanged
  <2>2. /\ Sided(received') /\ Sided(undecryptable') /\ Sided(toSend')
        /\ \A y \in Sides : /\ received'[y] \subseteq received[y] \cup undecryptable[y]
                            /\ undecryptable'[y] \subseteq undecryptable[y]
                            /\ toSend'[y] \subseteq toSend[y] \cup {"REPLY"}
    BY <1>1, <2>1 DEF TypeOK, Sided
  <2>3. QueuesIn(sent', received', undecryptable') /\ ToSendIn(toSend')
    BY <1>1, <2>1, <2>2 DEF MessagesOK, QueuesIn, ToSendIn
  <2>4. Messages2
    BY <1>1, <2>1, <2>3 DEF Messages2, MessagesOK, openVars
  <2>5. SessionTypes /\ SessionKeys
    BY <1>1, <2>1, <2>2 DEF SessionTypes, SessionKeys, TypeOK, KeysInv, openVars
  <2> QED BY <2>1, <2>4, <2>5, SessionStep
<1>3. CASE HandshakeCompleted(x)
  <2>1. /\ UNCHANGED <<cryptoVars, keyVars, openVars, queueVars, writing, aeadClosed, held, net, sent>>
        /\ complete' = [complete EXCEPT ![x] = TRUE] /\ aeadClosed[x]
        /\ \/ toSend' = [toSend EXCEPT ![x] = @ \cup {"PATHS"}]
           \/ toSend' = [toSend EXCEPT ![x] = @]
    BY <1>3, Zenon DEF HandshakeCompleted
  <2>2. /\ Sided(complete') /\ Sided(toSend')
        /\ \A y \in Sides : /\ complete'[y] => complete[y] \/ y = x
                            /\ toSend'[y] \subseteq toSend[y] \cup {"PATHS"}
    BY <1>1, <2>1, ZenonT(30) DEF TypeOK, Sided
  <2>3. ToSendIn(toSend')
    BY <1>1, <2>2 DEF MessagesOK, ToSendIn
  <2>4. Messages2
    BY <1>1, <2>1, <2>3 DEF Messages2, MessagesOK, openVars, queueVars
  <2>5. SessionTypes /\ SessionKeys
    BY <1>1, <2>1, <2>2 DEF SessionTypes, SessionKeys, TypeOK, KeysInv, openVars, queueVars
  <2> QED BY <2>1, <2>4, <2>5, SessionStep
<1>4. CASE TooManyUndecryptable(x)
  <2>1. UNCHANGED <<cryptoVars, keyVars, openVars, queueVars, writing, aeadClosed, complete, held, net,
                    sent, toSend>>
    BY <1>4, Zenon DEF TooManyUndecryptable
  <2>2. Messages2 /\ SessionTypes /\ SessionKeys
    BY <1>1, <2>1 DEF Messages2, MessagesOK, SessionTypes, SessionKeys, TypeOK, KeysInv, openVars, queueVars
  <2> QED BY <2>1, <2>2, SessionStep
<1> QED BY <1>2, <1>3, <1>4

\* A packet that an end makes of a frame.
LEMMA NewPacket ==
  ASSUME IInv, NEW x \in Sides, NEW f, FrameOK(f), NEW l,
         l \in {GetSealerForCryptoStream(x), GetSealer(x)}
  PROVE  PacketOK(Packet(x, l, f))
<1>1. Packet(x, l, f).frame = f /\ Packet(x, l, f).to = Peer(x) /\ Packet(x, l, f).level = l
  BY DEF Packet
<1>2. ASSUME Peer(x) = client, l = "secure" PROVE secure[server] # 0
  BY <1>2 DEF Peer, GetSealerForCryptoStream, GetSealer, ServerSealer, client, server, Sides
<1> QED BY <1>1, <1>2 DEF PacketOK, CarriesNonce

\* Packets that leave an end, for the first time or again, and packets that are lost.
LEMMA SendStep ==
  ASSUME IInv, NEW x \in Sides,
         packCryptoPacket(x) \/ PackData(x) \/ (\E u \in sent[x] : Retransmit(x, u)) \/ Lose
  PROVE  IInv'
<1>1. /\ MessagesOK /\ KeysInv /\ TypeOK
  BY DEF IInv
<1>2. FrameOK(NoMessage)
  BY DEF FrameOK, NoMessage
<1>3. CASE packCryptoPacket(x)
  <2> DEFINE p == Packet(x, GetSealerForCryptoStream(x), writing[x])
  <2>1. /\ net' = net \cup {p} /\ sent' = [sent EXCEPT ![x] = @ \cup {p}]
        /\ writing' = [writing EXCEPT ![x] = NoMessage]
        /\ UNCHANGED <<cryptoVars, keyVars, openVars, queueVars, aeadClosed, complete, held, toSend>>
    BY <1>3 DEF packCryptoPacket
  <2>2. PICK f : f = writing[x]
    OBVIOUS
  <2>3. PacketOK(p)
    BY <1>1, <2>2, NewPacket, Zenon DEF MessagesOK, FramesIn
  <2> HIDE DEF p
  <2>4. /\ Sided(writing') /\ Sided(sent')
        /\ \A y \in Sides : /\ writing'[y] = writing[y] \/ writing'[y] = NoMessage
                            /\ sent'[y] \subseteq sent[y] \cup {p}
    BY <1>1, <2>1, Zenon DEF TypeOK, Sided
  <2>5. FramesIn(writing', seen')
    BY <1>1, <1>2, <2>1, <2>4, Zenon DEF MessagesOK, FramesIn, openVars
  <2>6. QueuesIn(sent', received', undecryptable') /\ NetIn(net')
    BY <1>1, <2>1, <2>3, <2>4 DEF MessagesOK, QueuesIn, NetIn, queueVars
  <2>7. Messages2
    BY <1>1, <2>1, <2>5, <2>6 DEF Messages2, MessagesOK
  <2>8. SessionTypes /\ SessionKeys
    BY <1>1, <2>1, <2>4 DEF SessionTypes, SessionKeys, TypeOK, KeysInv, openVars, queueVars
  <2> QED BY <2>1, <2>7, <2>8, SessionStep
<1>4. CASE PackData(x)
  <2>1. PICK t \in toSend[x] :
           /\ net' = net \cup {Packet(x, GetSealer(x), Frame(t))}
           /\ sent' = [sent EXCEPT ![x] = @ \cup {Packet(x, GetSealer(x), Frame(t))}]
           /\ toSend' = [toSend EXCEPT ![x] = @ \ {t}]
    BY <1>4, Zenon DEF PackData
  <2> DEFINE p == Packet(x, GetSealer(x), Frame(t))
  <2>2. UNCHANGED <<cryptoVars, keyVars, openVars, queueVars, writing, aeadClosed, complete, held>>
    BY <1>4 DEF PackData
  <2>3. FrameOK(Frame(t))
    <3>1. t \in {"DATA", "PATHS", "REPLY"}
      BY <1>1 DEF MessagesOK, ToSendIn
    <3> QED BY <3>1 DEF FrameOK, Frame
  <2>4. PacketOK(p)
    BY <2>3, NewPacket
  <2> HIDE DEF p
  <2>5. /\ Sided(toSend') /\ Sided(sent')
        /\ \A y \in Sides : toSend'[y] \subseteq toSend[y] /\ sent'[y] \subseteq sent[y] \cup {p}
    BY <1>1, <2>1, Zenon DEF TypeOK, Sided, p
  <2>6. QueuesIn(sent', received', undecryptable') /\ NetIn(net') /\ ToSendIn(toSend')
    BY <1>1, <2>1, <2>2, <2>4, <2>5, Zenon DEF MessagesOK, QueuesIn, NetIn, ToSendIn, queueVars, p
  <2>7. Messages2
    BY <1>1, <2>2, <2>6, Zenon DEF Messages2, MessagesOK, openVars
  <2>8. SessionTypes /\ SessionKeys
    BY <1>1, <2>2, <2>5, Zenon DEF SessionTypes, SessionKeys, TypeOK, KeysInv, openVars, queueVars
  <2> QED BY <2>2, <2>7, <2>8, SessionStep
<1>5. ASSUME NEW u \in sent[x], Retransmit(x, u) PROVE IInv'
  <2>1. /\ UNCHANGED <<cryptoVars, keyVars, openVars, queueVars, writing, aeadClosed, complete, held, toSend>>
        /\ \/ net' = net \cup {u} /\ UNCHANGED sent
           \/ sent' = [sent EXCEPT ![x] = @ \ {u}] /\ UNCHANGED net
    BY <1>5, SMTT(30), Zenon DEF Retransmit
  <2>2. PacketOK(u)
    BY <1>1, <1>5 DEF MessagesOK, QueuesIn
  <2>3. Sided(sent') /\ \A y \in Sides : sent'[y] \subseteq sent[y]
    BY <1>1, <2>1 DEF TypeOK, Sided
  <2>4. QueuesIn(sent', received', undecryptable') /\ NetIn(net')
    BY <1>1, <2>1, <2>2, <2>3 DEF MessagesOK, QueuesIn, NetIn, queueVars
  <2>5. Messages2
    BY <1>1, <2>1, <2>4 DEF Messages2, MessagesOK, openVars
  <2>6. SessionTypes /\ SessionKeys
    BY <1>1, <2>1, <2>3, SMTT(30), Zenon DEF SessionTypes, SessionKeys, TypeOK, KeysInv, openVars, queueVars
  <2> QED BY <2>1, <2>5, <2>6, SessionStep
<1>6. CASE Lose
  <2>1. /\ UNCHANGED <<cryptoVars, keyVars, openVars, queueVars, writing, aeadClosed, complete, held, sent, toSend>>
        /\ net' \subseteq net
    BY <1>6, Zenon DEF Lose
  <2>2. NetIn(net')
    BY <1>1, <2>1 DEF MessagesOK, NetIn
  <2>3. Messages2 /\ SessionTypes /\ SessionKeys
    BY <1>1, <2>1, <2>2, Zenon DEF Messages2, MessagesOK, SessionTypes, SessionKeys, TypeOK, KeysInv, openVars, queueVars
  <2> QED BY <2>1, <2>3, SessionStep
<1> QED BY <1>3, <1>4, <1>5, <1>6

-----------------------------------------------------------------------------
(* The crypto goroutines *)

\* A step of theirs that writes nothing.
LEMMA NoMessageStep ==
  ASSUME TypeOK, MessagesOK, Progress, UNCHANGED <<openVars, queueVars, held, net, sent, toSend, writing>>
  PROVE  MessagesOK'
<1>1. Messages2
  BY DEF Messages2, MessagesOK, openVars, queueVars
<1> QED BY <1>1, MessagesStay

\* The client has not had the SHLO while the server's answer to a CHLO before the
\* one that it took its keys from, or the SHLO itself, is still to be read.
LEMMA StillOpen ==
  ASSUME KeysInv, read[client] \in Nat, secure[server] \in Nat,
         secure[server] # 0 => read[client] < secure[server]
  PROVE  ~aeadClosed[client] /\ params[client] = NewParams(client)
<1>1. /\ aeadClosed[client] => read[client] = secure[server] /\ secure[client] # 0
      /\ ~aeadClosed[client] => params[client] = NewParams(client)
      /\ secure[client] # 0 => secure[client] = secure[server]
  BY DEF KeysInv
<1>2. ~(secure[server] # 0 /\ read[client] = secure[server])
  OBVIOUS
<1> QED BY <1>1, <1>2

\* A server that has read one more hello, and has no keys yet or takes them from it.
LEMMA ReadProgress ==
  ASSUME hs \in HelloStates, hs' = hs, hs.hellos \in Nat, read[server] \in Nat,
         read'[server] = read[server] + 1,
         \/ secure'[server] = secure[server]
         \/ secure[server] = 0 /\ secure'[server] = read[server] + 1
  PROVE  Progress
<1>1. hs.hellos <= hs.hellos /\ read[server] <= read'[server] /\ read'[server] \in Nat
  OBVIOUS
<1> QED BY <1>1 DEF Progress

\* And one that writes a message.
LEMMA MessageStep ==
  ASSUME TypeOK, MessagesOK, Progress, UNCHANGED <<openVars, queueVars, held, net, sent, toSend>>,
         NEW x \in Sides, NEW f, writing' = [writing EXCEPT ![x] = f], FrameOK(f)'
  PROVE  MessagesOK'
<1>1. \A g : FrameOK(g) => FrameOK(g)'
  BY FrameStays
<1>2. \A p : PacketOK(p) => PacketOK(p)'
  BY PacketStays
<1>3. \A y \in Sides : writing'[y] = writing[y] \/ writing'[y] = f
  BY DEF TypeOK, Sided
<1>4. FramesIn(writing, seen)'
  BY <1>1, <1>3 DEF FramesIn, MessagesOK, openVars
<1>5. QueuesIn(sent, received, undecryptable)'
  BY <1>2 DEF QueuesIn, MessagesOK, queueVars
<1>6. HeldIn(held)'
  BY <1>2, Zenon DEF HeldIn, MessagesOK, CarriesNonce
<1>7. NetIn(net)' /\ ToSendIn(toSend)'
  BY <1>2 DEF NetIn, ToSendIn, MessagesOK
<1> QED BY <1>4, <1>5, <1>6, <1>7 DEF MessagesOK

\* The head of the client's loop.
LEMMA LoopStep ==
  ASSUME IInv, ClientLoop
  PROVE  IInv'
<1>1. TypeOK /\ MessagesOK /\ ClientInv /\ ServerInv /\ KeysInv
  BY DEF IInv
<1>2. /\ crypto[client] = "loop"
      /\ UNCHANGED <<read, params, forward, openVars, queueVars, aeadClosed, complete, held, net, sent, toSend>>
  BY DEF ClientLoop
<1>3. /\ hs \in HelloStates /\ hs.hellos \in Nat /\ hs.lastSent \in Nat
      /\ read[server] \in Nat /\ read[client] \in Nat /\ secure[server] \in Nat /\ secure[client] \in Nat
  BY <1>1 DEF TypeOK, HelloStates, Sides
<1>4. CASE CanUpgrade /\ secure' = [secure EXCEPT ![client] = hs.lastSent]
           /\ crypto' = [crypto EXCEPT ![client] = "select"] /\ UNCHANGED <<hs, writing>>
  <2>1. /\ secure'[client] = hs.lastSent /\ secure'[server] = secure[server]
        /\ crypto'[client] = "select" /\ crypto'[server] = crypto[server]
        /\ secure' \in [Sides -> Nat] /\ Sided(crypto')
    BY <1>1, <1>3, <1>4, Zenon DEF TypeOK, Sided, Sides, client, server
  <2>2. hs.divNonce /\ hs.lastSent # 0
    BY <1>4 DEF CanUpgrade
  <2>3. TypeOK'
    BY <1>1, <1>2, <1>4, <2>1 DEF TypeOK, openVars, queueVars
  <2>4. Progress
    BY <1>2, <1>3, <1>4, <2>1 DEF Progress
  <2>5. MessagesOK'
    BY <1>1, <1>2, <1>4, <2>4, NoMessageStep
  <2>6. ClientInv' /\ ServerInv'
    BY <1>1, <1>2, <1>4, <2>1, <2>2, ParamsFixed, Zenon DEF ClientInv, ServerInv
  <2>7. KeysInv'
    BY <1>1, <1>2, <1>4, <2>1, <2>2, ParamsFixed, Zenon DEF KeysInv, ClientInv, openVars
  <2> QED BY <2>3, <2>5, <2>6, <2>7 DEF IInv
<1>5. CASE secure[client] # 0 /\ crypto' = [crypto EXCEPT ![client] = "select"] /\ UNCHANGED <<hs, secure, writing>>
  <2>1. crypto'[client] = "select" /\ crypto'[server] = crypto[server] /\ Sided(crypto')
    BY <1>1, <1>5, Zenon DEF TypeOK, Sided, Sides, client, server
  <2>2. TypeOK'
    BY <1>1, <1>2, <1>5, <2>1 DEF TypeOK, openVars, queueVars
  <2>3. Progress
    BY <1>2, <1>3, <1>5 DEF Progress
  <2>4. MessagesOK'
    BY <1>1, <1>2, <1>5, <2>3, NoMessageStep
  <2>5. ClientInv' /\ ServerInv' /\ KeysInv'
    BY <1>1, <1>2, <1>5, <2>1, ParamsFixed, Zenon DEF ClientInv, ServerInv, KeysInv, openVars
  <2> QED BY <2>2, <2>4, <2>5 DEF IInv
<1>6. CASE /\ ~CanUpgrade /\ secure[client] = 0 /\ hs' = [hs EXCEPT !.hellos = @ + 1] /\ UNCHANGED secure
           /\ \/ crypto' = [crypto EXCEPT ![client] = "done"] /\ UNCHANGED writing
              \/ writing' = [writing EXCEPT ![client] = CHLO] /\ crypto' = [crypto EXCEPT ![client] = "write"]
  <2>1. ~hs.divNonce
    <3> SUFFICES ASSUME hs.divNonce PROVE FALSE
      OBVIOUS
    <3>1. secure[server] # 0 /\ hs.lastSent = secure[server] /\ hs.scfg # "none" /\ hs.cert
      BY <1>1, Zenon DEF ClientInv, ServerInv
    <3>2. hs.nonc # "none" /\ hs.verified
      BY <1>1, <1>2, <3>1, Zenon DEF ClientInv
    <3> QED BY <1>6, <3>1, <3>2 DEF CanUpgrade
  <2>2. /\ hs' \in HelloStates /\ hs'.hellos = hs.hellos + 1 /\ hs'.cert = hs.cert /\ hs'.scfg = hs.scfg
        /\ hs'.nonc = hs.nonc /\ hs'.verified = hs.verified /\ hs'.lastSent = hs.lastSent
        /\ hs'.divNonce = hs.divNonce
    BY <1>3, <1>6 DEF HelloStates
  <2>3. /\ Sided(crypto') /\ Sided(writing') /\ crypto'[client] \in {"done", "write"}
        /\ crypto'[server] = crypto[server]
    BY <1>1, <1>6 DEF TypeOK, Sided, Sides, client, server
  <2>4. TypeOK'
    BY <1>1, <1>2, <1>6, <2>2, <2>3 DEF TypeOK, openVars, queueVars
  <2>5. Progress
    BY <1>2, <1>3, <1>6, <2>2 DEF Progress
  <2>6. ~aeadClosed[client] /\ params[client] = NewParams(client)
    BY <1>1, <1>6 DEF KeysInv
  <2>7. PICK c : c = CHLO
    OBVIOUS
  <2>8. MessagesOK'
    <3>1. /\ c.type = "CHLO" /\ c.n = hs.hellos + 1 /\ c.params = ClientHello
          /\ c.full => hs.scfg # "none" /\ hs.cert
      BY <2>6, <2>7, Zenon DEF CHLO, ClientHello
    <3>2. FrameOK(c)'
      BY <1>3, <2>2, <3>1 DEF FrameOK
    <3>3. CASE UNCHANGED writing
      BY <1>1, <1>2, <2>5, <3>3, NoMessageStep
    <3>4. CASE writing' = [writing EXCEPT ![client] = c]
      BY <1>1, <1>2, <2>5, <3>2, <3>4, MessageStep, Zenon DEF Sides
    <3> QED BY <1>6, <2>7, <3>3, <3>4
  <2>9. ClientInv' /\ ServerInv'
    BY <1>1, <1>2, <1>3, <1>6, <2>1, <2>2, <2>3, ParamsFixed DEF ClientInv, ServerInv
  <2>10. KeysInv'
    BY <1>1, <1>2, <1>6, <2>1, <2>2, ParamsFixed DEF KeysInv, openVars
  <2> QED BY <2>4, <2>8, <2>9, <2>10 DEF IInv
<1> QED BY <1>4, <1>5, <1>6 DEF ClientLoop

\* The Write of a CHLO returns.
LEMMA CHLOWrittenStep ==
  ASSUME IInv, CHLOWritten
  PROVE  IInv'
<1>1. TypeOK /\ MessagesOK /\ ClientInv /\ ServerInv /\ KeysInv
  BY DEF IInv
<1>2. /\ crypto[client] = "write" /\ hs' = [hs EXCEPT !.lastSent = hs.hellos]
      /\ crypto' = [crypto EXCEPT ![client] = "select"]
      /\ UNCHANGED <<read, params, keyVars, openVars, queueVars, writing, aeadClosed, complete, held,
                     net, sent, toSend>>
  BY DEF CHLOWritten
<1>3. /\ hs' \in HelloStates /\ hs'.hellos = hs.hellos /\ hs'.cert = hs.cert /\ hs'.scfg = hs.scfg
      /\ hs'.nonc = hs.nonc /\ hs'.verified = hs.verified /\ hs'.lastSent = hs.hellos
      /\ hs'.divNonce = hs.divNonce /\ hs.hellos \in Nat
  BY <1>1, <1>2 DEF TypeOK, HelloStates
<1>4. Sided(crypto') /\ crypto'[client] = "select" /\ crypto'[server] = crypto[server]
  BY <1>1, <1>2, Zenon DEF TypeOK, Sided, Sides, client, server
<1>5. ~hs.divNonce
  BY <1>1, <1>2 DEF ClientInv
<1>6. TypeOK'
  BY <1>1, <1>2, <1>3, <1>4 DEF TypeOK, keyVars, openVars, queueVars
<1>7. Progress
  BY <1>1, <1>2, <1>3 DEF Progress, TypeOK, keyVars, Sides
<1>8. MessagesOK'
  BY <1>1, <1>2, <1>7, NoMessageStep
<1>9. ClientInv' /\ ServerInv' /\ KeysInv'
  BY <1>1, <1>2, <1>3, <1>4, <1>5, ParamsFixed DEF ClientInv, ServerInv, KeysInv, openVars, keyVars
<1> QED BY <1>6, <1>8, <1>9 DEF IInv

\* The nonce arrives: the client has not written a CHLO after the one the server took.
LEMMA NonceStep ==
  ASSUME IInv, SetDiversificationNonce
  PROVE  IInv'
<1>1. TypeOK /\ MessagesOK /\ ClientInv /\ ServerInv /\ KeysInv
  BY DEF IInv
<1>2. /\ crypto[client] = "select" /\ held[client].at = "nonce"
      /\ hs' = [hs EXCEPT !.divNonce = TRUE] /\ crypto' = [crypto EXCEPT ![client] = "loop"]
      /\ held' = [held EXCEPT ![client].at = "open"]
      /\ UNCHANGED <<read, params, keyVars, openVars, queueVars, writing, aeadClosed, complete,
                     net, sent, toSend>>
  BY DEF SetDiversificationNonce
<1>3. /\ hs' \in HelloStates /\ hs'.hellos = hs.hellos /\ hs'.cert = hs.cert /\ hs'.scfg = hs.scfg
      /\ hs'.nonc = hs.nonc /\ hs'.verified = hs.verified /\ hs'.lastSent = hs.lastSent
      /\ hs'.divNonce /\ hs.hellos \in Nat
  BY <1>1, <1>2, Zenon DEF TypeOK, HelloStates
<1>4. Sided(crypto') /\ crypto'[client] = "loop" /\ crypto'[server] = crypto[server]
  BY <1>1, <1>2, Zenon DEF TypeOK, Sided, Sides, client, server
<1>5. PICK p : held[client] = [at |-> "nonce", packet |-> p] /\ CarriesNonce(p) /\ PacketOK(p)
  <2>1. held[client] # NoPacket
    BY <1>2 DEF NoPacket
  <2>2. client \in Sides
    BY DEF Sides
  <2>3. PICK q : /\ \/ held[client] = [at |-> "open", packet |-> q]
                    \/ held[client] = [at |-> "nonce", packet |-> q] /\ CarriesNonce(q)
                 /\ PacketOK(q)
    BY <1>1, <2>1, <2>2, Zenon DEF MessagesOK, HeldIn
  <2>4. held[client] # [at |-> "open", packet |-> q]
    BY <1>2
  <2> QED BY <2>3, <2>4
<1>6. /\ Sided(held') /\ held'[client] = [at |-> "open", packet |-> p] /\ held'[server] = held[server]
  <2>1. Sided(held') /\ held'[client] = [held[client] EXCEPT !.at = "open"] /\ held'[server] = held[server]
    BY <1>1, <1>2, Zenon DEF TypeOK, Sided, Sides, client, server
  <2>2. [[at |-> "nonce", packet |-> p] EXCEPT !.at = "open"] = [at |-> "open", packet |-> p]
    OBVIOUS
  <2> QED BY <1>5, <2>1, <2>2
<1>7. secure[server] # 0 /\ hs.lastSent = secure[server]
  <2>1. secure[server] # 0
    BY <1>5 DEF PacketOK
  <2>2. hs.lastSent = hs.hellos
    BY <1>1, <1>2 DEF ClientInv
  <2>3. CASE hs.divNonce
    BY <1>1, <2>1, <2>3 DEF ClientInv
  <2>4. CASE ~hs.divNonce
    <3>1. hs.hellos <= read[client] + 1 /\ read[client] < secure[server] /\ secure[server] <= hs.hellos
      BY <1>1, <1>2, <2>1, <2>4 DEF ClientInv, ServerInv
    <3>2. read[client] \in Nat /\ secure[server] \in Nat
      BY <1>1 DEF TypeOK, Sides
    <3> QED BY <1>3, <2>1, <2>2, <3>1, <3>2
  <2> QED BY <2>3, <2>4
<1>8. TypeOK'
  BY <1>1, <1>2, <1>3, <1>4, <1>6 DEF TypeOK, keyVars, openVars, queueVars
<1>9. Progress
  BY <1>1, <1>2, <1>3 DEF Progress, TypeOK, keyVars, Sides
<1>10. HeldIn(held')
  <2>1. \A x \in Sides : x = client \/ x = server
    BY DEF Sides
  <2>2. HeldIn(held)
    BY <1>1 DEF MessagesOK
  <2> QED BY <1>5, <1>6, <2>1, <2>2, Zenon DEF HeldIn
<1>11. MessagesOK'
  <2>1. Messages2
    BY <1>1, <1>2, <1>10 DEF Messages2, MessagesOK, openVars, queueVars
  <2> QED BY <1>1, <1>9, <2>1, MessagesStay
<1>12. ClientInv' /\ ServerInv' /\ KeysInv'
  BY <1>1, <1>2, <1>3, <1>4, <1>7, ParamsFixed DEF ClientInv, ServerInv, KeysInv, openVars, keyVars
<1> QED BY <1>8, <1>11, <1>12 DEF IInv

\* A REJ is the answer to a CHLO before the one that the server took.
LEMMA REJStep ==
  ASSUME IInv, handleREJMessage
  PROVE  IInv'
<1>1. TypeOK /\ MessagesOK /\ ClientInv /\ ServerInv /\ KeysInv
  BY DEF IInv
<1>2. PICK m : /\ m \in seen[client] /\ m.n = read[client] + 1 /\ m.type = "REJ" /\ hs' = HandledREJ(m)
               /\ \/ /\ crypto' = [crypto EXCEPT ![client] = "done"]
                  \/ /\ ~(m.proof /\ m.n # hs.lastSent)
                     /\ crypto' = [crypto EXCEPT ![client] = "loop"]
  BY DEF handleREJMessage, Readable
<1>3. /\ crypto[client] = "select" /\ read' = [read EXCEPT ![client] = @ + 1]
      /\ UNCHANGED <<params, keyVars, openVars, queueVars, writing, aeadClosed, complete, held,
                     net, sent, toSend>>
  BY DEF handleREJMessage
<1>4. /\ hs' \in HelloStates /\ hs'.hellos = hs.hellos /\ hs'.scfg = "current" /\ hs'.nonc # "none"
      /\ hs'.cert <=> hs.cert \/ m.proof
      /\ hs'.verified <=> hs.verified \/ (m.proof /\ m.n = hs.lastSent)
      /\ hs'.lastSent = hs.lastSent /\ hs'.divNonce = hs.divNonce /\ hs.hellos \in Nat
  BY <1>1, <1>2, ZenonT(30) DEF TypeOK, HelloStates, HandledREJ, generateClientNonce, Configs
<1>5. /\ Sided(crypto') /\ crypto'[client] \in {"loop", "done"} /\ crypto'[server] = crypto[server]
      /\ crypto'[client] = "loop" => ~(m.proof /\ m.n # hs.lastSent)
  BY <1>1, <1>2 DEF TypeOK, Sided, Sides, client, server
<1>6. /\ read' \in [Sides -> Nat] /\ read'[client] = read[client] + 1 /\ read'[server] = read[server]
      /\ read[client] \in Nat /\ read[server] \in Nat
  BY <1>1, <1>3 DEF TypeOK, Sides, client, server
<1>7. m.n \in Nat /\ m.n <= read[server] /\ (secure[server] # 0 => m.n < secure[server])
  BY <1>1, <1>2, Zenon DEF MessagesOK, FramesIn, FrameOK, Sides
<1>8. TypeOK'
  BY <1>1, <1>3, <1>4, <1>5, <1>6, Zenon DEF TypeOK, keyVars, openVars, queueVars
<1>9. Progress
  BY <1>1, <1>3, <1>4, <1>6 DEF Progress, TypeOK, keyVars, Sides
<1>10. MessagesOK'
  BY <1>1, <1>3, <1>9, NoMessageStep, SMTT(30), Zenon
<1>11. secure[server] \in Nat /\ secure' = secure /\ forward' = forward
  BY <1>1, <1>3 DEF TypeOK, Sides, keyVars
<1>12. ClientInv'
  <2>1. /\ hs.cert => hs.verified
        /\ hs.lastSent = hs.hellos
        /\ ~hs.divNonce => hs.hellos <= read[client] + 1
        /\ hs.divNonce => secure[server] # 0 /\ hs.lastSent = secure[server]
    BY <1>1, <1>3, Zenon DEF ClientInv
  <2>2. hs'.cert /\ crypto'[client] # "done" => hs'.verified
    BY <1>4, <1>5, <2>1, Zenon
  <2>3. hs'.lastSent = hs'.hellos
    BY <1>4, <2>1, Zenon
  <2>4. ~hs'.divNonce => hs'.hellos <= read'[client]
    BY <1>4, <1>6, <2>1, Zenon
  <2>5. hs'.divNonce => secure'[server] # 0 /\ hs'.lastSent = secure'[server]
    BY <1>4, <1>11, <2>1, Zenon
  <2>6. hs'.hellos <= read'[client] => hs'.hellos <= read'[client] + 1
    <3>1. hs'.hellos \in Nat /\ read'[client] \in Nat
      BY <1>4, <1>6
    <3> QED BY <3>1
  <2> QED BY <1>4, <1>5, <2>2, <2>3, <2>4, <2>5, <2>6, Zenon DEF ClientInv
<1>13. ServerInv'
  BY <1>1, <1>2, <1>3, <1>4, <1>5, <1>6, <1>7, <1>11, ParamsFixed, Zenon DEF ServerInv
<1>14. KeysInv'
  <2>1. secure[server] # 0 => read[client] < secure[server]
    <3>1. m.n = read[client] + 1
      BY <1>2
    <3> QED BY <1>6, <1>7, <1>11, <3>1
  <2>2. ~aeadClosed[client]
    BY <1>1, <1>6, <1>11, <2>1, StillOpen
  <2> QED BY <1>1, <1>3, <1>4, <1>11, <2>2, ParamsFixed, Zenon DEF KeysInv, openVars
<1> QED BY <1>8, <1>10, <1>12, <1>13, <1>14, SMTT(30), Zenon DEF IInv

\* The SHLO is the answer to the CHLO that the server took, and is read once.
LEMMA SHLOStep ==
  ASSUME IInv, handleSHLOMessage
  PROVE  IInv'
<1>1. TypeOK /\ MessagesOK /\ ClientInv /\ ServerInv /\ KeysInv
  BY DEF IInv
<1>2. PICK m : /\ m \in seen[client] /\ m.n = read[client] + 1 /\ m.type = "SHLO"
               /\ IF client \in receivedSecure
                  THEN /\ forward' = [forward EXCEPT ![client] = hs.lastSent]
                       /\ params' = [params EXCEPT ![client] = SetFromMap(@, m.params)]
                       /\ aeadClosed' = [aeadClosed EXCEPT ![client] = TRUE]
                       /\ crypto' = [crypto EXCEPT ![client] = "loop"]
                  ELSE /\ crypto' = [crypto EXCEPT ![client] = "done"]
                       /\ UNCHANGED <<forward, params, aeadClosed>>
  BY Zenon DEF handleSHLOMessage, Readable
<1>3. /\ crypto[client] = "select" /\ read' = [read EXCEPT ![client] = @ + 1]
      /\ UNCHANGED <<hs, secure, openVars, queueVars, writing, complete, held, net, sent, toSend>>
  BY DEF handleSHLOMessage
<1>4. /\ read' \in [Sides -> Nat] /\ read'[client] = read[client] + 1 /\ read'[server] = read[server]
      /\ read[client] \in Nat /\ read[server] \in Nat /\ secure[server] \in Nat
      /\ hs.lastSent \in Nat /\ hs \in HelloStates /\ hs.hellos \in Nat
  BY <1>1, <1>3, SMTT(30), Zenon DEF TypeOK, Sides, client, server, HelloStates
<1>5. secure[server] # 0 /\ m.n = secure[server] /\ m.params = ServerHello
  BY <1>1, <1>2 DEF MessagesOK, FramesIn, FrameOK, Sides
<1>6. ~aeadClosed[client] /\ params[client] = NewParams(client)
  <2>1. read[client] + 1 = secure[server] /\ read[client] \in Nat /\ secure[server] \in Nat
    BY <1>2, <1>4, <1>5, Zenon
  <2>2. \A k, l \in Nat : k + 1 = l => k < l
    OBVIOUS
  <2>3. read[client] < secure[server]
    BY <2>1, <2>2
  <2> QED BY <1>1, <1>4, <2>3, StillOpen, Zenon
<1>7. secure[server] = read[server] /\ read[server] <= hs.hellos
  BY <1>1, <1>5, Zenon DEF ServerInv
<1>7a. read'[server] <= hs.hellos /\ read'[client] <= read'[server]
  <2>1. m.n = read[client] + 1
    BY <1>2
  <2> QED BY <1>4, <1>5, <1>7, <2>1, SMTT(30), Zenon
<1>8. Progress
  BY <1>3, <1>4 DEF Progress
<1>9. MessagesOK'
  BY <1>1, <1>3, <1>8, NoMessageStep
<1>10. CASE client \in receivedSecure
  <2>1. hs.divNonce /\ hs.lastSent = secure[server] /\ secure[client] # 0
    BY <1>1, <1>10, SMTT(30), Zenon DEF KeysInv, ClientInv
  <2>2. /\ forward' \in [Sides -> Nat] /\ Sided(params') /\ Sided(aeadClosed') /\ Sided(crypto')
        /\ forward'[client] = hs.lastSent /\ forward'[server] = forward[server]
        /\ params'[client] = SetFromMap(params[client], m.params) /\ params'[server] = params[server]
        /\ aeadClosed'[client] /\ aeadClosed'[server] = aeadClosed[server]
        /\ crypto'[client] = "loop" /\ crypto'[server] = crypto[server]
    <3>1. forward' \in [Sides -> Nat] /\ forward'[client] = hs.lastSent /\ forward'[server] = forward[server]
      BY <1>1, <1>2, <1>4, <1>10 DEF TypeOK, Sides, client, server
    <3>2. PICK v : v = SetFromMap(params[client], m.params)
      OBVIOUS
    <3>3. params' = [params EXCEPT ![client] = v]
      BY <1>2, <1>10, <3>2
    <3>4. Sided(params') /\ params'[client] = v /\ params'[server] = params[server]
      BY <1>1, <3>3, Zenon DEF TypeOK, Sided, Sides, client, server
    <3>5. Sided(aeadClosed') /\ aeadClosed'[client] /\ aeadClosed'[server] = aeadClosed[server]
      BY <1>1, <1>2, <1>10, Zenon DEF TypeOK, Sided, Sides, client, server
    <3>6. Sided(crypto') /\ crypto'[client] = "loop" /\ crypto'[server] = crypto[server]
      BY <1>1, <1>2, <1>10, Zenon DEF TypeOK, Sided, Sides, client, server
    <3> QED BY <3>1, <3>2, <3>4, <3>5, <3>6
  <2>3. TypeOK'
    BY <1>1, <1>3, <1>4, <2>2 DEF TypeOK, openVars, queueVars
  <2>4. params'[client] = ClientParams
    BY <1>5, <1>6, <2>2, Zenon DEF ClientParams
  <2>5. ClientInv'
    BY <1>1, <1>3, <1>5, <2>1, <2>2 DEF ClientInv
  <2>6. ServerInv'
    BY <1>1, <1>3, <1>4, <1>5, <1>7, <1>7a, <2>1, <2>2, ParamsFixed, Zenon DEF ServerInv
  <2>7. \A x \in Sides : complete'[x] => aeadClosed'[x]
    BY <1>1, <1>3, <2>2, Zenon DEF KeysInv, Sides
  <2>8. KeysInv'
    BY <1>1, <1>2, <1>3, <1>4, <1>5, <2>1, <2>2, <2>4, <2>7, ParamsFixed, Zenon DEF KeysInv, openVars
  <2> QED BY <1>9, <2>3, <2>5, <2>6, <2>8 DEF IInv
<1>11. CASE client \notin receivedSecure
  <2>1. Sided(crypto') /\ crypto'[client] = "done" /\ crypto'[server] = crypto[server]
    BY <1>1, <1>2, <1>11 DEF TypeOK, Sided, Sides, client, server
  <2>2. UNCHANGED <<forward, params, aeadClosed>>
    BY <1>2, <1>11, Zenon
  <2>3. TypeOK'
    BY <1>1, <1>3, <1>4, <2>1, <2>2, SMTT(30), Zenon DEF TypeOK, openVars, queueVars
  <2>4. ClientInv'
    BY <1>1, <1>3, <1>4, <2>1, SMTT(30), Zenon DEF ClientInv
  <2>5. ServerInv'
    BY <1>1, <1>3, <1>4, <1>5, <1>7, <1>7a, <2>1, <2>2, ParamsFixed DEF ServerInv
  <2>6. KeysInv'
    BY <1>1, <1>3, <1>6, <2>2, ParamsFixed, Zenon DEF KeysInv, openVars
  <2> QED BY <1>9, <2>3, <2>4, <2>5, <2>6 DEF IInv
<1> QED BY <1>10, <1>11

\* The server's answer to a CHLO that it does not take its keys from.
LEMMA InchoateStep ==
  ASSUME IInv, handleInchoateCHLO
  PROVE  IInv'
<1>1. TypeOK /\ MessagesOK /\ ClientInv /\ ServerInv /\ KeysInv
  BY DEF IInv
<1>2. PICK m : /\ m \in seen[server] /\ m.n = read[server] + 1 /\ m.type = "CHLO"
               /\ writing' = [writing EXCEPT ![server] = [type |-> "REJ", n |-> m.n, proof |-> acceptSTK(m)]]
  BY Zenon DEF handleInchoateCHLO, Readable
<1>3. /\ crypto[server] = "read" /\ read' = [read EXCEPT ![server] = @ + 1]
      /\ crypto' = [crypto EXCEPT ![server] = "write"]
      /\ UNCHANGED <<hs, params, keyVars, openVars, queueVars, aeadClosed, complete, held, net, sent, toSend>>
  BY DEF handleInchoateCHLO
<1>4. /\ read' \in [Sides -> Nat] /\ read'[server] = read[server] + 1 /\ read'[client] = read[client]
      /\ read[server] \in Nat /\ read[client] \in Nat /\ secure[server] \in Nat
      /\ hs \in HelloStates /\ hs.hellos \in Nat
  BY <1>1, <1>3 DEF TypeOK, Sides, client, server, HelloStates
<1>5. m.n <= hs.hellos
  BY <1>1, <1>2, Zenon DEF MessagesOK, FramesIn, FrameOK, Sides
<1>6. secure[server] = 0
  BY <1>1, <1>3 DEF ServerInv
<1>7. Sided(crypto') /\ Sided(writing') /\ crypto'[client] = crypto[client]
  BY <1>1, <1>2, <1>3, Zenon DEF TypeOK, Sided, Sides, client, server
<1>8. TypeOK'
  BY <1>1, <1>3, <1>4, <1>7, SMTT(30), Zenon DEF TypeOK, keyVars, openVars, queueVars
<1>9. Progress
  BY <1>3, <1>4, ReadProgress DEF keyVars
<1>10. MessagesOK'
  <2>1. PICK f : f = [type |-> "REJ", n |-> m.n, proof |-> acceptSTK(m)]
    BY Zenon
  <2>2. f.type = "REJ" /\ f.n = read[server] + 1
    BY <1>2, <2>1, Zenon
  <2>3. secure'[server] = 0
    BY <1>3, <1>6 DEF keyVars
  <2>4. FrameOK(f)'
    BY <1>4, <2>2, <2>3 DEF FrameOK
  <2> QED BY <1>1, <1>2, <1>3, <1>9, <2>1, <2>4, MessageStep, Zenon DEF Sides
<1>11. ClientInv'
  BY <1>1, <1>3, <1>4, <1>7, SMTT(30), Zenon DEF ClientInv, keyVars
<1>12. ServerInv'
  <2>1. read[client] <= read[server]
    BY <1>1 DEF ServerInv
  <2>2. m.n = read[server] + 1
    BY <1>2
  <2>3. read'[server] <= hs.hellos /\ read'[client] <= read'[server]
    BY <1>4, <1>5, <2>1, <2>2
  <2> QED BY <1>1, <1>3, <1>6, <2>3, ParamsFixed, SMTT(30), Zenon DEF ServerInv, keyVars
<1>13. KeysInv'
  BY <1>1, <1>3, <1>4, ParamsFixed, Zenon DEF KeysInv, openVars, keyVars
<1> QED BY <1>8, <1>10, <1>11, <1>12, <1>13 DEF IInv

\* The server takes its keys and answers with the SHLO, or fails.
LEMMA AcceptStep ==
  ASSUME IInv, handleCHLO
  PROVE  IInv'
<1>1. TypeOK /\ MessagesOK /\ ClientInv /\ ServerInv /\ KeysInv
  BY DEF IInv
<1>2. PICK m : /\ m \in seen[server] /\ m.n = read[server] + 1 /\ m.type = "CHLO" /\ m.full
               /\ \/ /\ crypto' = [crypto EXCEPT ![server] = "done"]
                     /\ UNCHANGED <<secure, forward, params, writing>>
                  \/ /\ secure' = [secure EXCEPT ![server] = m.n]
                     /\ forward' = [forward EXCEPT ![server] = m.n]
                     /\ params' = [params EXCEPT ![server] = SetFromMap(@, m.params)]
                     /\ writing' = [writing EXCEPT ![server] =
                          [type |-> "SHLO", n |-> m.n, params |-> GetHelloMap(server, params'[server])]]
                     /\ crypto' = [crypto EXCEPT ![server] = "writeSHLO"]
  BY Zenon DEF handleCHLO, Readable, isInchoateCHLO
<1>3. /\ crypto[server] = "read" /\ read' = [read EXCEPT ![server] = @ + 1]
      /\ UNCHANGED <<hs, openVars, queueVars, aeadClosed, complete, held, net, sent, toSend>>
  BY DEF handleCHLO
<1>4. /\ read' \in [Sides -> Nat] /\ read'[server] = read[server] + 1 /\ read'[client] = read[client]
      /\ read[server] \in Nat /\ read[client] \in Nat /\ secure[server] \in Nat
      /\ hs \in HelloStates /\ hs.hellos \in Nat
  BY <1>1, <1>3 DEF TypeOK, Sides, client, server, HelloStates
<1>5. m.n <= hs.hellos /\ m.params = ClientHello /\ hs.scfg # "none" /\ hs.cert
  BY <1>1, <1>2, Zenon DEF MessagesOK, FramesIn, FrameOK, Sides
<1>6. secure[server] = 0 /\ params[server] = NewParams(server)
  BY <1>1, <1>3, SMTT(30), Zenon DEF ServerInv
<1>7. ~hs.divNonce /\ secure[client] = 0 /\ forward[client] = 0 /\ ~aeadClosed[client] /\ ~aeadClosed[server]
  BY <1>1, <1>6 DEF ClientInv, KeysInv
<1>7a. read'[server] <= hs.hellos /\ read'[client] <= read'[server]
  <2>1. read[client] <= read[server]
    BY <1>1 DEF ServerInv
  <2>2. m.n = read[server] + 1
    BY <1>2
  <2> QED BY <1>4, <1>5, <2>1, <2>2, SMTT(30), Zenon
<1>8. CASE crypto' = [crypto EXCEPT ![server] = "done"] /\ UNCHANGED <<secure, forward, params, writing>>
  <2>1. Sided(crypto') /\ crypto'[client] = crypto[client]
    BY <1>1, <1>8, Zenon DEF TypeOK, Sided, Sides, client, server
  <2>2. TypeOK'
    BY <1>1, <1>3, <1>4, <1>8, <2>1, SMTT(30), Zenon DEF TypeOK, openVars, queueVars
  <2>3. Progress
    BY <1>3, <1>4, <1>8, ReadProgress
  <2>4. MessagesOK'
    BY <1>1, <1>3, <1>8, <2>3, NoMessageStep, SMTT(30), Zenon
  <2>5. ClientInv'
    BY <1>1, <1>3, <1>4, <1>8, <2>1 DEF ClientInv
  <2>6. ServerInv'
    BY <1>3, <1>6, <1>7a, <1>8, <1>1, ParamsFixed, Zenon DEF ServerInv
  <2>7. KeysInv'
    BY <1>1, <1>3, <1>4, <1>8, ParamsFixed, Zenon DEF KeysInv, openVars
  <2> QED BY <2>2, <2>4, <2>5, <2>6, <2>7 DEF IInv
<1>9. CASE /\ secure' = [secure EXCEPT ![server] = m.n]
           /\ forward' = [forward EXCEPT ![server] = m.n]
           /\ params' = [params EXCEPT ![server] = SetFromMap(@, m.params)]
           /\ writing' = [writing EXCEPT ![server] =
                [type |-> "SHLO", n |-> m.n, params |-> GetHelloMap(server, params'[server])]]
           /\ crypto' = [crypto EXCEPT ![server] = "writeSHLO"]
  <2>1. /\ secure' \in [Sides -> Nat] /\ secure'[server] = m.n /\ secure'[client] = secure[client]
        /\ forward' \in [Sides -> Nat] /\ forward'[server] = m.n /\ forward'[client] = forward[client]
    BY <1>1, <1>2, <1>4, <1>9, Zenon DEF TypeOK, Sides, client, server
  <2>2. PICK v : v = SetFromMap(params[server], m.params)
    OBVIOUS
  <2>3. params' = [params EXCEPT ![server] = v]
    BY <1>9, <2>2
  <2>4. Sided(params') /\ params'[server] = v /\ params'[client] = params[client]
    BY <1>1, <2>3, Zenon DEF TypeOK, Sided, Sides, client, server
  <2>5. v = ServerParams
    BY <1>5, <1>6, <2>2 DEF ServerParams
  <2>6. PICK f : f = [type |-> "SHLO", n |-> m.n, params |-> ServerHello]
    BY Zenon
  <2>7. writing' = [writing EXCEPT ![server] = f]
    BY <1>9, <2>4, <2>5, <2>6, Zenon DEF ServerHello
  <2>8. Sided(writing')
    BY <1>1, <2>7, Zenon DEF TypeOK, Sided
  <2>9. Sided(crypto') /\ crypto'[server] = "writeSHLO" /\ crypto'[client] = crypto[client]
    BY <1>1, <1>9, Zenon DEF TypeOK, Sided, Sides, client, server
  <2>10. TypeOK'
    BY <1>1, <1>3, <1>4, <2>1, <2>4, <2>8, <2>9 DEF TypeOK, openVars, queueVars
  <2>11. Progress
    BY <1>2, <1>3, <1>4, <1>6, <2>1, ReadProgress, Zenon
  <2>12. MessagesOK'
    <3>1. f.type = "SHLO" /\ f.n = m.n /\ f.params = ServerHello
      BY <2>6
    <3>2. FrameOK(f)'
      <4>1. m.n = read[server] + 1
        BY <1>2
      <4>2. read[server] + 1 # 0
        BY <1>4
      <4> QED BY <2>1, <3>1, <4>1, <4>2, ParamsFixed DEF FrameOK
    <3> QED BY <1>1, <1>3, <2>7, <2>11, <3>2, MessageStep, Zenon DEF Sides
  <2>13. ClientInv'
    BY <1>1, <1>3, <1>4, <1>7, <2>9, Zenon DEF ClientInv
  <2>14. ServerInv'
    <3>1. m.n = read[server] + 1
      BY <1>2
    <3>2. read[server] + 1 # 0 /\ read[client] < read[server] + 1
      <4>1. read[client] <= read[server]
        BY <1>1 DEF ServerInv
      <4> QED BY <1>4, <4>1
    <3>3. secure'[server] # 0 /\ secure'[server] = read'[server] /\ read'[client] < secure'[server]
      BY <1>4, <2>1, <3>1, <3>2, Zenon
    <3> QED BY <1>3, <1>5, <1>7a, <2>1, <2>4, <2>5, <2>9, <3>3, ParamsFixed, Zenon DEF ServerInv
  <2>15. KeysInv'
    BY <1>1, <1>2, <1>3, <1>4, <1>7, <2>1, <2>4, ParamsFixed, Zenon DEF KeysInv, openVars
  <2> QED BY <2>10, <2>12, <2>13, <2>14, <2>15 DEF IInv
<1> QED BY <1>2, <1>8, <1>9, Zenon

\* The Write of the answer returns.
LEMMA ReplyStep ==
  ASSUME IInv, ReplyWritten
  PROVE  IInv'
<1>1. TypeOK /\ MessagesOK /\ ClientInv /\ ServerInv /\ KeysInv
  BY DEF IInv
<1>2. /\ \/ crypto[server] = "write" /\ crypto' = [crypto EXCEPT ![server] = "read"]
         \/ crypto[server] = "writeSHLO" /\ crypto' = [crypto EXCEPT ![server] = "done"]
      /\ UNCHANGED <<hs, read, params, keyVars, openVars, queueVars, writing, aeadClosed, complete, held,
                     net, sent, toSend>>
  BY Zenon DEF ReplyWritten
<1>3. /\ Sided(crypto') /\ crypto'[client] = crypto[client]
      /\ crypto[server] \in {"writeSHLO", "done"} => crypto'[server] = "done"
  BY <1>1, <1>2 DEF TypeOK, Sided, Sides, client, server
<1>4. TypeOK'
  BY <1>1, <1>2, <1>3 DEF TypeOK, keyVars, openVars, queueVars
<1>5. Progress
  BY <1>1, <1>2 DEF Progress, TypeOK, keyVars, Sides, HelloStates
<1>6. MessagesOK'
  BY <1>1, <1>2, <1>5, NoMessageStep
<1>7. ClientInv' /\ ServerInv' /\ KeysInv'
  BY <1>1, <1>2, <1>3, ParamsFixed, Zenon DEF ClientInv, ServerInv, KeysInv, openVars, keyVars
<1> QED BY <1>4, <1>6, <1>7 DEF IInv

-----------------------------------------------------------------------------
\* Nothing has been sent, and neither end has keys.
LEMMA InitStep == Init => IInv
<1> SUFFICES ASSUME Init PROVE IInv
  OBVIOUS
<1>1. /\ cache \in {"none", "current", "stale"} /\ hs = useHandshakeCache(cache)
  BY HandshakeAssumption, Zenon DEF Init
<1>2. hs \in HelloStates
  BY <1>1, Zenon DEF HelloStates, Configs, useHandshakeCache
<1>3. TypeOK
  BY <1>2 DEF Init, TypeOK, Sided
<1>4. FrameOK(NoMessage)
  BY DEF FrameOK, NoMessage
<1>5. MessagesOK
  BY <1>4 DEF Init, MessagesOK, FramesIn, QueuesIn, HeldIn, NetIn, ToSendIn
<1>6. \A x \in Sides : /\ read[x] = 0 /\ secure[x] = 0 /\ forward[x] = 0 /\ ~aeadClosed[x]
                       /\ ~complete[x] /\ params[x] = NewParams(x)
  BY DEF Init, NewParams
<1>7. /\ read[client] = 0 /\ secure[client] = 0 /\ forward[client] = 0 /\ ~aeadClosed[client]
      /\ params[client] = NewParams(client)
      /\ read[server] = 0 /\ secure[server] = 0 /\ forward[server] = 0 /\ ~aeadClosed[server]
      /\ params[server] = NewParams(server) /\ crypto[client] = "loop" /\ receivedSecure = {}
  BY <1>6 DEF Init, Sides, client, server
<1>8. /\ hs.hellos = 0 /\ hs.lastSent = 0 /\ ~hs.divNonce
      /\ hs.scfg # "none" => hs.nonc # "none"
      /\ hs.cert => hs.verified
  BY <1>1 DEF useHandshakeCache
<1>9. hs.hellos <= read[client] /\ read[server] <= hs.hellos /\ read[client] <= read[server]
  BY <1>7, <1>8
<1>10. ClientInv
  BY <1>7, <1>8, <1>9, SMTT(30), Zenon DEF ClientInv
<1>11. ServerInv
  BY <1>7, <1>9, SMTT(30), Zenon DEF ServerInv
<1>12. KeysInv
  BY <1>6, <1>7 DEF KeysInv
<1> QED BY <1>3, <1>5, <1>10, <1>11, <1>12 DEF IInv

\* Every step keeps the invariant.
LEMMA NextStep == IInv /\ [Next]_vars => IInv'
<1> SUFFICES ASSUME IInv, [Next]_vars PROVE IInv'
  OBVIOUS
<1>1. CASE ClientCrypto \/ SetDiversificationNonce \/ ServerCrypto
  BY <1>1, LoopStep, CHLOWrittenStep, REJStep, SHLOStep, NonceStep, InchoateStep, AcceptStep, ReplyStep
     DEF ClientCrypto, ServerCrypto
<1>2. CASE Lose
  BY <1>2, SendStep DEF Sides
<1>3. ASSUME NEW x \in Sides, Event(x) \/ TooManyUndecryptable(x) PROVE IInv'
  BY <1>3, OpenHeldStep, EventStep DEF Event
<1>4. ASSUME NEW x \in Sides, packCryptoPacket(x) \/ PackData(x) \/ RetransmitEarly(x) PROVE IInv'
  BY <1>4, SendStep DEF RetransmitEarly
<1>5. ASSUME NEW x \in Sides, NEW t, Receive(Peer(x), t) \/ RetransmitLost(x, t) PROVE IInv'
  <2>1. Peer(x) \in Sides
    BY DEF Peer, Sides
  <2> QED BY <1>5, <2>1, ReceiveStep, SendStep, Zenon DEF RetransmitLost
<1>6. CASE UNCHANGED vars
  <2>1. UNCHANGED <<cryptoVars, keyVars, openVars, queueVars, writing, aeadClosed, complete, held, net,
                    sent, toSend>>
    BY <1>6 DEF vars
  <2>2. Messages2 /\ SessionTypes /\ SessionKeys
    BY <2>1, Zenon DEF IInv, Messages2, MessagesOK, SessionTypes, SessionKeys, TypeOK, KeysInv, openVars, queueVars
  <2> QED BY <2>1, <2>2, SessionStep
<1> QED BY <1>1, <1>2, <1>3, <1>4, <1>5, <1>6 DEF Next

\* The inductive invariant.
THEOREM HandshakeInvariance == Spec => []IInv
BY InitStep, NextStep, PTL DEF Spec

\* The two ends derive their keys from the same CHLO and end with parameters that
\* fit, for any configuration of the ends, any cache of the client, any number of
\* hellos and of losses, and every interleaving of their goroutines.
THEOREM HandshakeAgrees == Spec => []EndpointsAgree
BY HandshakeInvariance, Implies, PTL
=============================================================================
