--------------------------- MODULE EndpointProofs ---------------------------
(***************************************************************************)
(* That Dial returns only sessions whose handshake is complete, proved for *)
(* any addresses of the client and any number of closed paths, and that    *)
(* the listener's Close waits for every session it found, proved for any   *)
(* number of connections, calls of Close and sessions, and any size of the *)
(* queue.                                                                  *)
(***************************************************************************)
EXTENDS Client, Listener, TLAPS

(***************************************************************************)
(* Close of the listener.  The property speaks of the moment a call        *)
(* returns.  The invariant behind it follows each session a call found: it *)
(* is still to be visited, is being waited for, or has ended.  The call    *)
(* passes over a session whose entry is no longer open, so the invariant   *)
(* also says that the last session of such an entry has ended; and since a *)
(* session counts as ended once a later one has been made for its ID, that *)
(* the sessions a call found were made before.                             *)
(***************************************************************************)
Places == {"idle", "visit", "wait", "closed", "returned"}
Made == Conns \X Nat

ListenerTypeOK ==
  /\ sessions \in [Conns -> {"none", "open", "nil"}]
  /\ made \in [Conns -> Nat]
  /\ run \in [Conns -> {"new", "running", "closed", "done"}]
  /\ closer \in [Calls -> Places \X (Made \cup {Nobody})]
  /\ todo \in [Calls -> SUBSET Made]
  /\ left \in [Calls -> SUBSET Made]

(* An entry that is not open has no session that still runs.               *)
RemovedAfterEnd == \A c \in Conns : sessions[c] # "open" /\ made[c] > 0 => run[c] = "done"

(* The sessions a call found had been made.                                *)
FoundWereMade == \A k \in Calls : \A s \in todo[k] : 0 < s[2] /\ s[2] <= made[s[1]]

(* Where a session is that a call of Close found.                          *)
Followed ==
  \A k \in Calls : \A s \in todo[k] :
    \/ Over(s)
    \/ closer[k][1] = "visit" /\ s \in left[k]
    \/ closer[k][1] = "wait" /\ (s \in left[k] \/ closer[k][2] = s)

(* An open entry has a session.                                            *)
OpenWasMade == \A c \in Conns : sessions[c] = "open" => made[c] > 0

CInv == ListenerTypeOK /\ RemovedAfterEnd /\ FoundWereMade /\ Followed /\ OpenWasMade

-----------------------------------------------------------------------------
(* A session that has ended stays ended: its entry may be used again, but  *)
(* for a session with a higher number.                                     *)
LEMMA EndedStaysEnded ==
  ASSUME ListenerTypeOK, NEW s \in Made, s[2] <= made[s[1]], Over(s),
         \A c \in Conns : \/ made'[c] = made[c] /\ (run[c] = "done" => run'[c] = "done")
                          \/ made'[c] = made[c] + 1
  PROVE  Over(s)' /\ s[2] <= made'[s[1]]
  BY DEF ListenerTypeOK, Over, Made

(* What the steps that leave the calls of Close alone have to keep.        *)
LEMMA SessionsMove ==
  ASSUME CInv, UNCHANGED <<closer, todo, left>>, ListenerTypeOK', RemovedAfterEnd', OpenWasMade',
         \A c \in Conns : \/ made'[c] = made[c] /\ (run[c] = "done" => run'[c] = "done")
                          \/ made'[c] = made[c] + 1
  PROVE  CInv'
<1>1. FoundWereMade'
  BY DEF CInv, FoundWereMade, ListenerTypeOK, Made
<1>2. Followed'
  <2>1. ASSUME NEW k \in Calls, NEW s \in todo'[k]
        PROVE  \/ Over(s)'
               \/ closer'[k][1] = "visit" /\ s \in left'[k]
               \/ closer'[k][1] = "wait" /\ (s \in left'[k] \/ closer'[k][2] = s)
    <3>1. s \in Made /\ s \in todo[k] /\ s[2] <= made[s[1]]
      BY <2>1 DEF CInv, ListenerTypeOK, FoundWereMade
    <3>2. CASE Over(s)
      BY <3>1, <3>2, EndedStaysEnded DEF CInv
    <3>3. CASE ~Over(s)
      BY <3>1, <3>3 DEF CInv, Followed
    <3> QED BY <3>2, <3>3
  <2> QED BY <2>1 DEF Followed
<1> QED BY <1>1, <1>2 DEF CInv

(* What the steps of a call of Close that keep what it found have to keep. *)
LEMMA CallMoves ==
  ASSUME CInv, UNCHANGED <<sessions, made, run, todo>>, NEW k \in Calls,
         NEW place \in Places \X (Made \cup {Nobody}),
         closer' = [closer EXCEPT ![k] = place], left' = left,
         \A s \in todo[k] : ~Over(s) => place[1] = "visit" /\ s \in left[k]
  PROVE  CInv'
<1>1. ListenerTypeOK' /\ RemovedAfterEnd' /\ OpenWasMade' /\ FoundWereMade'
  BY DEF CInv, ListenerTypeOK, RemovedAfterEnd, OpenWasMade, FoundWereMade
<1>2. Followed'
  <2>1. ASSUME NEW j \in Calls, NEW s \in todo[j]
        PROVE  \/ Over(s)
               \/ closer'[j][1] = "visit" /\ s \in left[j]
               \/ closer'[j][1] = "wait" /\ (s \in left[j] \/ closer'[j][2] = s)
    <3>1. CASE j = k
      BY <3>1, <2>1 DEF CInv, ListenerTypeOK
    <3>2. CASE j # k
      BY <3>2, <2>1 DEF CInv, ListenerTypeOK, Followed
    <3> QED BY <3>1, <3>2
  <2> QED BY <2>1 DEF Followed, Over
<1> QED BY <1>1, <1>2 DEF CInv

-----------------------------------------------------------------------------
(* A call of Close finds the open entries of the map.                      *)
LEMMA StartKeeps ==
  ASSUME CInv, NEW k \in Calls, StartClose(k), UNCHANGED connVars
  PROVE  CInv'
<1> DEFINE open == {<<c, made[c]>> : c \in {d \in Conns : sessions[d] = "open"}}
<1>1. open \subseteq Made
  BY DEF CInv, ListenerTypeOK, Made
<1>2. /\ closer' = [closer EXCEPT ![k] = <<"visit", Nobody>>]
      /\ left' = [left EXCEPT ![k] = open]
      /\ todo' = [todo EXCEPT ![k] = left'[k]]
  BY DEF StartClose
<1>3. \A s \in open : 0 < s[2] /\ s[2] <= made[s[1]]
  BY DEF CInv, ListenerTypeOK, OpenWasMade
<1> HIDE DEF open
<1>4. left'[k] = open /\ todo' = [todo EXCEPT ![k] = open]
  BY <1>2 DEF CInv, ListenerTypeOK
<1>5. ListenerTypeOK'
  BY <1>1, <1>2, <1>4 DEF CInv, ListenerTypeOK, connVars, Places
<1>6. FoundWereMade'
  BY <1>3, <1>4 DEF CInv, ListenerTypeOK, FoundWereMade, connVars
<1>7. Followed'
  <2>1. ASSUME NEW j \in Calls, NEW s \in todo'[j]
        PROVE  \/ Over(s)
               \/ closer'[j][1] = "visit" /\ s \in left'[j]
               \/ closer'[j][1] = "wait" /\ (s \in left'[j] \/ closer'[j][2] = s)
    <3>1. CASE j = k
      BY <3>1, <2>1, <1>2, <1>4 DEF CInv, ListenerTypeOK
    <3>2. CASE j # k
      BY <3>2, <2>1, <1>2, <1>4 DEF CInv, ListenerTypeOK, Followed
    <3> QED BY <3>1, <3>2
  <2> QED BY <2>1 DEF Followed, Over, connVars
<1>8. RemovedAfterEnd' /\ OpenWasMade'
  BY DEF CInv, RemovedAfterEnd, OpenWasMade, connVars
<1> QED BY <1>5, <1>6, <1>7, <1>8 DEF CInv

(* A call closes the session of an open entry and waits for it.            *)
LEMMA VisitKeeps ==
  ASSUME CInv, NEW k \in Calls, VisitSession(k)
  PROVE  CInv'
<1>1. PICK c \in Conns :
        /\ sessions[c] = "open"
        /\ closer' = [closer EXCEPT ![k] = <<"wait", <<c, made[c]>>>>]
        /\ left' = [left EXCEPT ![k] = @ \ {<<c, made[c]>>}]
        /\ run' = [run EXCEPT ![c] = IF @ = "running" THEN "closed" ELSE @]
  BY Zenon DEF VisitSession
<1>2. closer[k][1] = "visit" /\ UNCHANGED <<sessions, made, todo>>
  BY DEF VisitSession
<1>3. ListenerTypeOK'
  BY <1>1, <1>2 DEF CInv, ListenerTypeOK, Places, Made
<1>4. RemovedAfterEnd' /\ OpenWasMade' /\ FoundWereMade'
  BY <1>1, <1>2 DEF CInv, ListenerTypeOK, RemovedAfterEnd, OpenWasMade, FoundWereMade
<1>5. \A s \in Made : Over(s) => Over(s)'
  BY <1>1, <1>2 DEF CInv, ListenerTypeOK, Over, Made
<1>6. Followed'
  <2>1. ASSUME NEW j \in Calls, NEW s \in todo[j]
        PROVE  \/ Over(s)
               \/ closer'[j][1] = "visit" /\ s \in left'[j]
               \/ closer'[j][1] = "wait" /\ (s \in left'[j] \/ closer'[j][2] = s)
    <3>1. CASE j = k
      BY <3>1, <2>1, <1>1, <1>2 DEF CInv, ListenerTypeOK, Followed
    <3>2. CASE j # k
      BY <3>2, <2>1, <1>1, <1>2 DEF CInv, ListenerTypeOK, Followed
    <3> QED BY <3>1, <3>2
  <2>2. \A j \in Calls : todo[j] \subseteq Made
    BY DEF CInv, ListenerTypeOK
  <2> QED BY <2>1, <2>2, <1>2, <1>5 DEF Followed
<1> QED BY <1>3, <1>4, <1>6 DEF CInv

(* The iteration is over when what it has not visited is no longer open.   *)
LEMMA AllVisitedKeeps ==
  ASSUME CInv, NEW k \in Calls, AllVisited(k)
  PROVE  CInv'
<1>1. \A s \in todo[k] : Over(s)
  <2>1. ASSUME NEW s \in todo[k] PROVE Over(s)
    <3>1. s \in Made /\ 0 < s[2] /\ s[2] <= made[s[1]] /\ s[1] \in Conns /\ made[s[1]] \in Nat /\ s[2] \in Nat
      BY DEF CInv, ListenerTypeOK, FoundWereMade, Made
    <3>2. Over(s) \/ s \in left[k]
      BY DEF CInv, Followed, AllVisited
    <3>3. ASSUME sessions[s[1]] # "open" PROVE Over(s)
      BY <3>1, <3>3 DEF CInv, RemovedAfterEnd, Over
    <3> QED BY <3>2, <3>3 DEF AllVisited
  <2> QED BY <2>1
<1>2. closer' = [closer EXCEPT ![k] = <<"closed", Nobody>>] /\ left' = left
      /\ UNCHANGED <<sessions, made, run, todo>>
  BY DEF AllVisited, connVars
<1>3. <<"closed", Nobody>> \in Places \X (Made \cup {Nobody})
  BY DEF Places
<1> QED BY <1>1, <1>2, <1>3, CallMoves, Zenon

-----------------------------------------------------------------------------
(* The steps of the sessions and of serve.                                 *)
LEMMA SessionSteps ==
  ASSUME CInv, NEW c \in Conns,
         handlePacket(c) \/ SessionCloses(c) \/ removeConnection(c) \/ DeleteConnection(c)
  PROVE  CInv'
<1>1. UNCHANGED <<closer, todo, left>>
  BY DEF handlePacket, SessionCloses, removeConnection, DeleteConnection, closeVars
<1>2. \A d \in Conns : \/ made'[d] = made[d] /\ (run[d] = "done" => run'[d] = "done")
                       \/ made'[d] = made[d] + 1
  BY DEF CInv, ListenerTypeOK, handlePacket, NewSession, SessionCloses, removeConnection, DeleteConnection
<1>3. ListenerTypeOK'
  BY <1>1, SMTT(30) DEF CInv, ListenerTypeOK, handlePacket, NewSession, SessionCloses, removeConnection, DeleteConnection
<1>4. RemovedAfterEnd' /\ OpenWasMade'
  BY DEF CInv, ListenerTypeOK, RemovedAfterEnd, OpenWasMade, handlePacket, NewSession, SessionCloses,
         removeConnection, DeleteConnection
<1> QED BY <1>1, <1>2, <1>3, <1>4, SessionsMove

(* A call goes on to the next session, or returns.                         *)
LEMMA CallSteps ==
  ASSUME CInv, NEW k \in Calls, SessionClosed(k) \/ CloseReturn(k)
  PROVE  CInv'
<1>1. CASE SessionClosed(k)
  <2>1. <<"visit", Nobody>> \in Places \X (Made \cup {Nobody})
    BY DEF Places
  <2>2. \A s \in todo[k] : ~Over(s) => s \in left[k]
    BY <1>1 DEF CInv, Followed, SessionClosed
  <2> QED BY <1>1, <2>1, <2>2, CallMoves, Zenon DEF SessionClosed, connVars
<1>2. CASE CloseReturn(k)
  <2>1. <<"returned", Nobody>> \in Places \X (Made \cup {Nobody})
    BY DEF Places
  <2>2. \A s \in todo[k] : Over(s)
    BY <1>2 DEF CInv, Followed, CloseReturn
  <2> QED BY <1>2, <2>1, <2>2, CallMoves, Zenon DEF CloseReturn, connVars
<1> QED BY <1>1, <1>2

(* The steps that touch neither the map nor a call of Close.               *)
LEMMA OtherSteps ==
  ASSUME CInv, UNCHANGED <<sessions, made, run, closer, todo, left>>
  PROVE  CInv'
BY DEF CInv, ListenerTypeOK, RemovedAfterEnd, FoundWereMade, Followed, OpenWasMade, Over

\* Every step of the listener keeps its invariant.
LEMMA CloseStepKeeps == CInv /\ [ListenerNext]_listenerVars => CInv'
<1> SUFFICES ASSUME CInv, [ListenerNext]_listenerVars PROVE CInv'
  OBVIOUS
<1>1. ASSUME NEW c \in Conns, handlePacket(c) \/ SessionCloses(c) \/ removeConnection(c) \/ DeleteConnection(c)
      PROVE  CInv'
  BY <1>1, SessionSteps
<1>2. ASSUME NEW c \in Conns, QueueSession(c) \/ HandshakeEvent(c)
      PROVE  CInv'
  BY <1>2, OtherSteps DEF QueueSession, HandshakeEvent, closeVars
<1>3. ASSUME AcceptSession \/ AcceptError \/ closePconns \/ ReadFails
      PROVE  CInv'
  BY <1>3, OtherSteps DEF AcceptSession, AcceptError, closePconns, ReadFails, connVars, closeVars
<1>4. CASE ServeError
  <2>1. Serve \in Calls
    BY ListenerAssumption DEF Calls, Serve
  <2> QED BY <1>4, <2>1, StartKeeps DEF ServeError
<1>5. ASSUME NEW k \in Calls, VisitSession(k) \/ SessionClosed(k) \/ AllVisited(k) \/ CloseReturn(k)
      PROVE  CInv'
  BY <1>5, VisitKeeps, CallSteps, AllVisitedKeeps
<1>6. ASSUME NEW k \in Calls, CloseListener(k)
      PROVE  CInv'
  BY <1>6, StartKeeps DEF CloseListener
<1>7. CASE UNCHANGED listenerVars
  BY <1>7, OtherSteps DEF listenerVars
<1> QED BY <1>1, <1>2, <1>3, <1>4, <1>5, <1>6, <1>7 DEF ListenerNext, Goroutines

(* The invariant holds of every behaviour of the listener.                 *)
THEOREM ListenerInvariance == ListenerSpec => []CInv
<1>1. ListenerInit => CInv
  BY DEF ListenerInit, CInv, ListenerTypeOK, RemovedAfterEnd, FoundWereMade, Followed, OpenWasMade, Places
<1> QED BY <1>1, CloseStepKeeps, PTL DEF ListenerSpec

(* When a call of Close returns (server.go:246), every session that was in *)
(* the map when it was made has ended, for any connections and any number  *)
(* of calls.                                                               *)
THEOREM CloseWaits == ListenerSpec => []ClosedMeansDone
<1>1. CInv => ClosedMeansDone
  BY DEF CInv, Followed, ClosedMeansDone
<1> QED BY <1>1, ListenerInvariance, PTL

-----------------------------------------------------------------------------
(***************************************************************************)
(* Dial.  It reads one message from completeChan.  The invariant says that *)
(* the channel is closed only after the last event of the handshake, that  *)
(* a session sees events only in the version of the server and after that  *)
(* version has been settled, and so that the session Dial waits for is not *)
(* exchanged any more.                                                     *)
(***************************************************************************)
Loops == {"new", "top", "select", "send", "closepath", "error", "wait", "done"}
Reasons == {"none", "error", "newVersion"}
Words == {"secure", "forward", "closed", "error"}
Managers == {"wait", "first", "loop", "again", "ended"}

SessionRecord ==
  [loop : Loops, close : Reasons, late : BOOLEAN,
   taken : 0..3, handshakeChan : Seq(Words), completeChan : Seq(Words),
   pm : Managers, todo : SUBSET Paths, launched : BOOLEAN, handshakeCompleted : Nat, runClosed : Nat,
   paths : SUBSET Paths, signalled : SUBSET Paths, ended : SUBSET Paths, full : SUBSET Paths,
   waiting : SUBSET Paths, target : Paths, closed : SUBSET Paths]

ClientTypeOK ==
  /\ sess \in [Sessions -> SessionRecord]
  /\ current \in Sessions /\ runner \in {0} \cup Sessions
  /\ localAddrs \subseteq Paths /\ newAddr \subseteq Paths

(* completeChan says that the handshake is complete.                       *)
SaysComplete(r) == \E i \in 1..Len(r.completeChan) : r.completeChan[i] = "closed"

(* It says so only if it is, and nothing happens in the wrong version.     *)
Honest(s) ==
  /\ SaysComplete(sess[s]) => Complete(sess[s])
  /\ sess[s].taken > 0 => s = serverVersion /\ versionNegotiated

DInv == ClientTypeOK /\ (\A s \in Sessions : Honest(s)) /\ DialSound

(* What most steps of a session leave alone.                               *)
SameHandshake(r, q) == q.taken = r.taken /\ q.completeChan = r.completeChan

-----------------------------------------------------------------------------
(* The operators on sessions.                                              *)
LEMMA ClosedKeeps ==
  ASSUME NEW r \in SessionRecord, NEW e \in Reasons
  PROVE  Closed(r, e) \in SessionRecord /\ SameHandshake(r, Closed(r, e))
BY Zenon DEF SessionRecord, Reasons, Closed, SameHandshake

\* Telling the paths to close leaves the handshake alone.
LEMMA ClosePathsKeeps ==
  ASSUME NEW r \in SessionRecord
  PROVE  closePaths(r) \in SessionRecord /\ SameHandshake(r, closePaths(r))
BY Zenon DEF SessionRecord, closePaths, Running, SameHandshake

\* So does a step of the run loop that only moves on.
LEMMA LoopKeeps ==
  ASSUME NEW r \in SessionRecord, NEW pc \in Loops
  PROVE  [r EXCEPT !.loop = pc] \in SessionRecord /\ SameHandshake(r, [r EXCEPT !.loop = pc])
BY Zenon DEF SessionRecord, SameHandshake

\* So does the end of a loop iteration, which may launch the path manager.
LEMMA IteratedKeeps ==
  ASSUME NEW r \in SessionRecord
  PROVE  Iterated(r) \in SessionRecord /\ SameHandshake(r, Iterated(r))
<1>1. CASE Complete(r) /\ r.launched
  <2>1. Iterated(r) = [r EXCEPT !.loop = "top", !.launched = TRUE, !.handshakeCompleted = @]
    BY <1>1 DEF Iterated
  <2>2. [r EXCEPT !.loop = "top", !.launched = TRUE, !.handshakeCompleted = @] \in SessionRecord
    BY Zenon DEF SessionRecord, Loops
  <2> QED BY <2>1, <2>2, Zenon DEF SessionRecord, SameHandshake
<1>2. CASE Complete(r) /\ ~r.launched
  <2>1. Iterated(r) = [r EXCEPT !.loop = "top", !.launched = TRUE, !.handshakeCompleted = @ + 1]
    BY <1>2 DEF Iterated
  <2>2. \A n \in Nat : [r EXCEPT !.loop = "top", !.launched = TRUE, !.handshakeCompleted = n] \in SessionRecord
    BY Zenon DEF SessionRecord, Loops
  <2>3. r.handshakeCompleted + 1 \in Nat
    BY DEF SessionRecord
  <2> QED BY <2>1, <2>2, <2>3, ZenonT(30) DEF SessionRecord, SameHandshake
<1>3. CASE ~Complete(r) /\ r.late
  <2>1. Iterated(r) = [Closed(r, "error") EXCEPT !.loop = "top"]
    BY <1>3 DEF Iterated
  <2>2. Closed(r, "error") \in SessionRecord /\ SameHandshake(r, Closed(r, "error"))
    BY ClosedKeeps DEF Reasons
  <2>3. \A q \in SessionRecord :
          [q EXCEPT !.loop = "top"] \in SessionRecord /\ SameHandshake(q, [q EXCEPT !.loop = "top"])
    BY LoopKeeps, Zenon DEF Loops
  <2> QED BY <2>1, <2>2, <2>3 DEF SameHandshake
<1>4. CASE ~Complete(r) /\ ~r.late
  <2>1. Iterated(r) = [r EXCEPT !.loop = "top"]
    BY <1>4 DEF Iterated
  <2> QED BY <2>1, LoopKeeps, Zenon DEF Loops
<1> QED BY <1>1, <1>2, <1>3, <1>4

(* An error is reported as an error.                                       *)
LEMMA ReportedKeeps ==
  ASSUME NEW r \in SessionRecord
  PROVE  /\ Reported(r) \in SessionRecord /\ Reported(r).taken = r.taken
         /\ SaysComplete(Reported(r)) => SaysComplete(r)
<1>1. CASE Complete(r)
  BY <1>1 DEF Reported
<1>2. CASE ~Complete(r)
  <2> DEFINE q == [r EXCEPT !.completeChan = Append(@, "error"), !.handshakeChan = Append(@, "error")]
  <2>1. Reported(r) = q
    BY <1>2 DEF Reported
  <2>2. r.completeChan \in Seq(Words) /\ r.handshakeChan \in Seq(Words)
    BY DEF SessionRecord
  <2> DEFINE c == Append(r.completeChan, "error")
             h == Append(r.handshakeChan, "error")
  <2>3. c \in Seq(Words) /\ h \in Seq(Words)
    BY <2>2 DEF Words
  <2>4. q = [r EXCEPT !.completeChan = c, !.handshakeChan = h]
    OBVIOUS
  <2> HIDE DEF c, h, q
  <2>5. q \in SessionRecord /\ q.taken = r.taken /\ q.completeChan = c
    BY <2>3, <2>4, Zenon DEF SessionRecord
  <2>6. SaysComplete(q) => SaysComplete(r)
    BY <2>2, <2>5 DEF SaysComplete, c
  <2> QED BY <2>1, <2>5, <2>6
<1> QED BY <1>1, <1>2

-----------------------------------------------------------------------------
(* What a step that replaces the record of one session has to keep.        *)
LEMMA SessionMoves ==
  ASSUME DInv, NEW s \in Sessions, NEW r \in SessionRecord,
         sess' = [sess EXCEPT ![s] = r], r.taken >= sess[s].taken,
         r.taken > 0 => s = serverVersion /\ versionNegotiated,
         SaysComplete(r) => Complete(r),
         UNCHANGED <<serverVersion, current, versionNegotiated>>,
         dial' = "dialed" => Complete(sess[current]) /\ current = serverVersion,
         runner' \in {0} \cup Sessions, localAddrs' \subseteq Paths, newAddr' \subseteq Paths
  PROVE  DInv'
<1>1. \A t \in Sessions : sess'[t] = IF t = s THEN r ELSE sess[t]
  BY DEF DInv, ClientTypeOK
<1>2. ClientTypeOK'
  BY DEF DInv, ClientTypeOK
<1>3. \A t \in Sessions : Honest(t)'
  BY <1>1 DEF DInv, Honest, SaysComplete, Complete
<1>4. \A t \in Sessions : Complete(sess[t]) => Complete(sess'[t])
  BY <1>1, SMTT(30) DEF DInv, ClientTypeOK, SessionRecord, Complete, Events
<1>5. DialSound'
  BY <1>4 DEF DInv, ClientTypeOK, DialSound
<1> QED BY <1>2, <1>3, <1>5 DEF DInv

\* A session that changes but for its handshake keeps the invariant.
LEMMA SessionKeeps ==
  ASSUME DInv, NEW s \in Sessions, NEW r \in SessionRecord, SameHandshake(sess[s], r),
         sess' = [sess EXCEPT ![s] = r],
         UNCHANGED <<serverVersion, current, versionNegotiated, dial>>,
         runner' \in {0} \cup Sessions, localAddrs' \subseteq Paths, newAddr' \subseteq Paths
  PROVE  DInv'
<1>1. sess[s] \in SessionRecord /\ r.taken = sess[s].taken
  BY DEF DInv, ClientTypeOK, SameHandshake
<1>2. SaysComplete(r) => Complete(r)
  BY DEF DInv, Honest, SameHandshake, SaysComplete, Complete
<1>3. r.taken >= sess[s].taken
  BY <1>1 DEF SessionRecord
<1> QED BY <1>1, <1>2, <1>3, SessionMoves, Zenon DEF DInv, Honest, DialSound

(* The same for a step that changes nothing but sessions.                  *)
LEMMA StepIsKept ==
  ASSUME DInv, NEW s \in Sessions, NEW r \in SessionRecord, SameHandshake(sess[s], r), Step(s, r)
  PROVE  DInv'
BY SessionKeeps, Zenon DEF Step, DInv, ClientTypeOK, clientVars, socketVars

-----------------------------------------------------------------------------
(* The run loop, but for the two steps that write to completeChan.         *)
LEMMA LoopSteps ==
  ASSUME DInv, NEW s \in Sessions,
         \/ TopOfLoop(s) \/ SelectClose(s) \/ Iterate(s) \/ IterateAndClose(s)
         \/ SendOnClosedPath(s) \/ handleClosePathFrame(s) \/ closePath(s) \/ PathsEnded(s)
  PROVE  DInv'
<1> DEFINE x == sess[s]
           c == closePaths(x)
           i == Iterated(x)
<1>1. x \in SessionRecord
  BY DEF DInv, ClientTypeOK
<1>2. c \in SessionRecord /\ SameHandshake(x, c) /\ i \in SessionRecord /\ SameHandshake(x, i)
  BY <1>1, ClosePathsKeeps, IteratedKeeps
<1>3. ASSUME NEW r \in SessionRecord, SameHandshake(x, r), Step(s, r) PROVE DInv'
  BY <1>3, StepIsKept
<1>4. CASE TopOfLoop(s)
  <2>1. Step(s, [x EXCEPT !.loop = "select"]) \/ Step(s, [c EXCEPT !.loop = "error"])
    BY <1>4 DEF TopOfLoop
  <2> HIDE DEF x, c
  <2>2. /\ [x EXCEPT !.loop = "select"] \in SessionRecord /\ [c EXCEPT !.loop = "error"] \in SessionRecord
        /\ SameHandshake(x, [x EXCEPT !.loop = "select"]) /\ SameHandshake(x, [c EXCEPT !.loop = "error"])
    BY <1>1, <1>2, Zenon DEF SessionRecord, SameHandshake, Loops
  <2> QED BY <2>1, <2>2, <1>3
<1>5. CASE SelectClose(s)
  <2> DEFINE r == [c EXCEPT !.loop = "error", !.runClosed = @ + 1]
  <2>1. Step(s, r)
    BY <1>5 DEF SelectClose
  <2> HIDE DEF x, c
  <2>2. r \in SessionRecord /\ SameHandshake(x, r)
    <3>1. \A n \in Nat : LET q == [c EXCEPT !.loop = "error", !.runClosed = n]
                         IN  q \in SessionRecord /\ SameHandshake(x, q)
      BY <1>2, Zenon DEF SessionRecord, SameHandshake, Loops
    <3>2. c.runClosed + 1 \in Nat
      BY <1>2 DEF SessionRecord
    <3> QED BY <3>1, <3>2, Zenon
  <2> QED BY <2>1, <2>2, <1>3
<1>6. CASE Iterate(s)
  BY <1>6, <1>2, <1>3 DEF Iterate
<1>7. CASE IterateAndClose(s)
  <2>1. Closed(i, "error") \in SessionRecord /\ SameHandshake(i, Closed(i, "error"))
    BY <1>2, ClosedKeeps DEF Reasons
  <2> QED BY <1>7, <1>2, <1>3, <2>1, Zenon DEF IterateAndClose, SameHandshake
<1>8. CASE SendOnClosedPath(s)
  <2>1. PICK p \in x.ended :
          \/ Step(s, [x EXCEPT !.loop = "send", !.target = p])
          \/ Step(s, Iterated([x EXCEPT !.full = @ \cup {p}]))
    BY <1>8, Zenon DEF SendOnClosedPath
  <2> HIDE DEF x
  <2>2. /\ [x EXCEPT !.loop = "send", !.target = p] \in SessionRecord
        /\ SameHandshake(x, [x EXCEPT !.loop = "send", !.target = p])
    BY <1>1, Zenon DEF SessionRecord, SameHandshake, Loops
  <2> DEFINE q == [x EXCEPT !.full = @ \cup {p}]
  <2>3. q \in SessionRecord /\ SameHandshake(x, q)
    BY <1>1, Zenon DEF SessionRecord, SameHandshake
  <2> HIDE DEF q
  <2>4. Iterated(q) \in SessionRecord /\ SameHandshake(x, Iterated(q))
    BY <2>3, IteratedKeeps DEF SameHandshake
  <2> QED BY <2>1, <2>2, <2>4, <1>3 DEF q
<1>9. CASE handleClosePathFrame(s)
  <2>1. PICK p \in x.paths \ x.closed :
          Step(s, [x EXCEPT !.loop = "closepath", !.target = p, !.closed = @ \cup {p}])
    BY <1>9, Zenon DEF handleClosePathFrame
  <2> DEFINE q == [x EXCEPT !.loop = "closepath", !.target = p, !.closed = @ \cup {p}]
  <2> HIDE DEF x
  <2>2. q \in SessionRecord /\ SameHandshake(x, q)
    BY <1>1, Zenon DEF SessionRecord, SameHandshake, Loops
  <2> QED BY <2>1, <2>2, <1>3
<1>10. CASE closePath(s)
  <2> DEFINE told == [x EXCEPT !.signalled = @ \cup {x.target}, !.target = "any"]
             gone == [x EXCEPT !.target = "any"]
  <2>1. Step(s, Iterated(told)) \/ Step(s, Iterated(gone))
    BY <1>10 DEF closePath
  <2> HIDE DEF x
  <2>2. told \in SessionRecord /\ SameHandshake(x, told) /\ gone \in SessionRecord /\ SameHandshake(x, gone)
    BY <1>1, Zenon DEF SessionRecord, SameHandshake, Paths
  <2> HIDE DEF told, gone
  <2>3. /\ Iterated(told) \in SessionRecord /\ SameHandshake(x, Iterated(told))
        /\ Iterated(gone) \in SessionRecord /\ SameHandshake(x, Iterated(gone))
    BY <2>2, IteratedKeeps DEF SameHandshake
  <2> QED BY <2>1, <2>3, <1>3
<1>11. CASE PathsEnded(s)
  <2>1. Step(s, [x EXCEPT !.loop = "done"])
    BY <1>11 DEF PathsEnded
  <2> HIDE DEF x
  <2>2. [x EXCEPT !.loop = "done"] \in SessionRecord /\ SameHandshake(x, [x EXCEPT !.loop = "done"])
    BY <1>1, LoopKeeps, Zenon DEF Loops
  <2> QED BY <2>1, <2>2, <1>3
<1> QED BY <1>4, <1>5, <1>6, <1>7, <1>8, <1>9, <1>10, <1>11

(* The events a session has taken, compared across a step.                 *)
LEMMA OneMore ==
  ASSUME NEW m \in 0..3, NEW n, n = m + 1
  PROVE  n >= m
OBVIOUS

\* The same when the session takes no event.
LEMMA SameCount ==
  ASSUME NEW m \in 0..3, NEW n, n = m
  PROVE  n >= m
OBVIOUS

(* The next event of the handshake: after the last one completeChan is     *)
(* closed.                                                                 *)
LEMMA EventStep ==
  ASSUME DInv, NEW s \in Sessions, SelectAead(s)
  PROVE  DInv'
<1> DEFINE x == sess[s]
           r == [x EXCEPT !.taken = @ + 1]
           last == [r EXCEPT !.late = FALSE, !.completeChan = Append(@, "closed"),
                             !.handshakeChan = Append(@, "closed")]
           more == [r EXCEPT !.handshakeChan = Append(@, Events[r.taken])]
<1>1. x \in SessionRecord /\ s = serverVersion /\ versionNegotiated /\ x.taken # 3 /\ Honest(s)
  BY DEF SelectAead, DInv, ClientTypeOK, Complete, Events
<1>2. Step(s, Iterated(IF Complete(r) THEN last ELSE more))
  BY DEF SelectAead
<1>3. SaysComplete(x) => Complete(x)
  BY <1>1 DEF Honest
<1> HIDE DEF x
<1>4. r \in SessionRecord /\ r.taken = x.taken + 1 /\ r.completeChan = x.completeChan
  <2>1. x.taken + 1 \in 0..3
    BY <1>1 DEF SessionRecord
  <2>2. \A n \in 0..3 : LET q == [x EXCEPT !.taken = n]
                        IN  q \in SessionRecord /\ q.taken = n /\ q.completeChan = x.completeChan
    BY <1>1, Zenon DEF SessionRecord
  <2> QED BY <2>1, <2>2
<1>5. ~SaysComplete(r)
  BY <1>1, <1>3, <1>4 DEF SaysComplete, Complete, Events
<1> HIDE DEF r
<1>6. r.completeChan \in Seq(Words) /\ r.handshakeChan \in Seq(Words) /\ r.taken \in 1..3
  BY <1>1, <1>4 DEF SessionRecord
<1>7. ASSUME NEW q \in SessionRecord, q.taken = r.taken, SaysComplete(q) => Complete(q), Step(s, Iterated(q))
      PROVE  DInv'
  <2>1. Iterated(q) \in SessionRecord /\ SameHandshake(q, Iterated(q))
    BY IteratedKeeps
  <2>2. SaysComplete(Iterated(q)) => Complete(Iterated(q))
    BY <2>1, <1>7 DEF SameHandshake, SaysComplete, Complete
  <2>3. Iterated(q).taken >= sess[s].taken
    <3>1. Iterated(q).taken = x.taken + 1
      BY <2>1, <1>7, <1>4, Zenon DEF SameHandshake
    <3>2. x.taken \in 0..3
      BY <1>1, Zenon DEF SessionRecord
    <3> QED BY <3>1, <3>2, OneMore, Zenon DEF x
  <2>4. sess' = [sess EXCEPT ![s] = Iterated(q)] /\ UNCHANGED <<clientVars, socketVars>>
    BY <1>7 DEF Step
  <2> QED BY <2>1, <2>2, <2>3, <2>4, <1>1, SessionMoves, Zenon DEF clientVars, socketVars, DInv, ClientTypeOK, DialSound
<1>8. CASE Complete(r)
  <2> DEFINE c == Append(r.completeChan, "closed")
             h == Append(r.handshakeChan, "closed")
  <2>1. c \in Seq(Words) /\ h \in Seq(Words)
    BY <1>6 DEF Words
  <2>2. last = [r EXCEPT !.late = FALSE, !.completeChan = c, !.handshakeChan = h]
    OBVIOUS
  <2> HIDE DEF c, h, last
  <2>3. last \in SessionRecord /\ last.taken = r.taken
    BY <2>1, <2>2, <1>4, Zenon DEF SessionRecord
  <2>4. Complete(last)
    BY <2>3, <1>8 DEF Complete
  <2> QED BY <1>2, <1>7, <1>8, <2>3, <2>4
<1>9. CASE ~Complete(r)
  <2> DEFINE h == Append(r.handshakeChan, Events[r.taken])
  <2>1. h \in Seq(Words)
    BY <1>6 DEF Words, Events
  <2>2. more = [r EXCEPT !.handshakeChan = h]
    OBVIOUS
  <2> HIDE DEF h, more
  <2>3. more \in SessionRecord /\ more.taken = r.taken /\ more.completeChan = r.completeChan
    BY <2>1, <2>2, <1>4, Zenon DEF SessionRecord
  <2>4. ~SaysComplete(more)
    BY <2>3, <1>5 DEF SaysComplete
  <2> QED BY <1>2, <1>7, <1>9, <2>3, <2>4
<1> QED BY <1>8, <1>9

(* The end of the run loop: the channel gets an error unless the handshake *)
(* was complete.                                                           *)
LEMMA EndStep ==
  ASSUME DInv, NEW s \in Sessions, HandleCloseError(s)
  PROVE  DInv'
<1> DEFINE x == sess[s]
           r == Reported(x)
           done == [r EXCEPT !.loop = "done"]
           wait == [closePaths(r) EXCEPT !.loop = "wait", !.waiting = r.paths]
<1>1. Step(s, done) \/ Step(s, wait)
  BY DEF HandleCloseError
<1>2. x \in SessionRecord /\ Honest(s)
  BY DEF DInv, ClientTypeOK
<1>3. r \in SessionRecord /\ r.taken = x.taken /\ (SaysComplete(r) => Complete(r))
  BY <1>2, ReportedKeeps DEF Honest, Complete
<1> HIDE DEF r
<1>4. done \in SessionRecord /\ SameHandshake(r, done)
  BY <1>3, LoopKeeps, Zenon DEF Loops
<1>5. wait \in SessionRecord /\ SameHandshake(r, wait)
  <2> DEFINE c == closePaths(r)
  <2>1. c \in SessionRecord /\ SameHandshake(r, c)
    BY <1>3, ClosePathsKeeps
  <2> HIDE DEF c
  <2>2. \A w \in SUBSET Paths : LET q == [c EXCEPT !.loop = "wait", !.waiting = w]
                                IN  q \in SessionRecord /\ SameHandshake(r, q)
    BY <2>1, Zenon DEF SessionRecord, SameHandshake, Loops
  <2>3. r.paths \in SUBSET Paths
    BY <1>3 DEF SessionRecord
  <2> QED BY <2>2, <2>3, Zenon DEF c
<1>6. ASSUME NEW q \in SessionRecord, SameHandshake(r, q), Step(s, q)
      PROVE  DInv'
  <2>0. q.taken = sess[s].taken /\ sess[s].taken \in 0..3
    BY <1>2, <1>3, <1>6, Zenon DEF SameHandshake, SessionRecord
  <2>1. q.taken >= sess[s].taken /\ (SaysComplete(q) => Complete(q))
    <3>1. q.taken >= sess[s].taken
      BY <2>0, SameCount, Zenon
    <3>2. SaysComplete(q) => Complete(q)
      BY <1>3, <1>6, Zenon DEF SameHandshake, SaysComplete, Complete
    <3> QED BY <3>1, <3>2
  <2>2. q.taken > 0 => s = serverVersion /\ versionNegotiated
    BY <1>2, <1>3, <1>6 DEF SameHandshake, Honest
  <2>3. sess' = [sess EXCEPT ![s] = q] /\ UNCHANGED <<clientVars, socketVars>>
    BY <1>6 DEF Step
  <2> QED BY <2>1, <2>2, <2>3, SessionMoves, Zenon DEF clientVars, socketVars, DInv, ClientTypeOK, DialSound
<1> QED BY <1>1, <1>4, <1>5, <1>6

-----------------------------------------------------------------------------
(* The goroutines beside the run loop.                                     *)
LEMMA OtherGoroutines ==
  ASSUME DInv, NEW s \in Sessions, CryptoFailed(s) \/ Deadline(s) \/ PathRun(s)
  PROVE  DInv'
<1> DEFINE x == sess[s]
<1>1. x \in SessionRecord
  BY DEF DInv, ClientTypeOK
<1>2. CASE CryptoFailed(s)
  <2>1. Closed(x, "error") \in SessionRecord /\ SameHandshake(x, Closed(x, "error"))
    BY <1>1, ClosedKeeps DEF Reasons
  <2> QED BY <1>2, <2>1, StepIsKept DEF CryptoFailed
<1>3. CASE Deadline(s)
  <2>1. Step(s, [x EXCEPT !.late = TRUE])
    BY <1>3 DEF Deadline
  <2>2. [x EXCEPT !.late = TRUE] \in SessionRecord /\ SameHandshake(x, [x EXCEPT !.late = TRUE])
    BY <1>1, Zenon DEF SessionRecord, SameHandshake
  <2> QED BY <2>1, <2>2, StepIsKept
<1>4. CASE PathRun(s)
  <2> DEFINE q(p, f) == [x EXCEPT !.ended = @ \cup {p}, !.full = f]
  <2>1. PICK p \in x.signalled : Step(s, q(p, x.full)) \/ Step(s, q(p, x.full \cup {p}))
    BY <1>4, Zenon DEF PathRun
  <2>2. p \in Paths /\ x.full \in SUBSET Paths /\ x.full \cup {p} \in SUBSET Paths
    BY <1>1 DEF SessionRecord
  <2> HIDE DEF x
  <2>3. \A f \in SUBSET Paths : q(p, f) \in SessionRecord /\ SameHandshake(x, q(p, f))
    BY <1>1, <2>2, Zenon DEF SessionRecord, SameHandshake
  <2> HIDE DEF q
  <2> QED BY <2>1, <2>2, <2>3, StepIsKept DEF x
<1> QED BY <1>2, <1>3, <1>4

(* The path manager.                                                       *)
LEMMA ManagerSteps ==
  ASSUME DInv, NEW s \in Sessions, PathManager(s)
  PROVE  DInv'
<1> DEFINE x == sess[s]
<1>1. x \in SessionRecord /\ localAddrs \subseteq Paths
  BY DEF DInv, ClientTypeOK
<1>2. ASSUME NEW r \in SessionRecord, SameHandshake(x, r), Step(s, r) PROVE DInv'
  BY <1>2, StepIsKept
<1>3. ASSUME NEW pc \in {"first", "again"}
      PROVE  createPaths(s, pc) \in SessionRecord /\ SameHandshake(x, createPaths(s, pc))
  <2>1. \A m \in Managers, u \in SUBSET Paths :
          LET q == [x EXCEPT !.pm = m, !.todo = u] IN q \in SessionRecord /\ SameHandshake(x, q)
    BY <1>1, Zenon DEF SessionRecord, SameHandshake
  <2> DEFINE u == localAddrs \ x.paths
             m == IF u = {} THEN "loop" ELSE pc
  <2>2. createPaths(s, pc) = [x EXCEPT !.pm = m, !.todo = u]
    BY DEF createPaths
  <2>3. m \in Managers /\ u \in SUBSET Paths
    BY <1>1 DEF Managers
  <2> HIDE DEF x, m, u
  <2> QED BY <2>1, <2>2, <2>3, Zenon
<1>4. CASE PMHandshakeCompleted(s)
  <2> DEFINE c == createPaths(s, "first")
  <2>1. Step(s, [c EXCEPT !.handshakeCompleted = @ - 1]) /\ x.handshakeCompleted > 0
    BY <1>4 DEF PMHandshakeCompleted
  <2>2. c \in SessionRecord /\ SameHandshake(x, c) /\ c.handshakeCompleted = x.handshakeCompleted
    BY <1>1, <1>3, Zenon DEF createPaths, SessionRecord
  <2> HIDE DEF c, x
  <2>3. c.handshakeCompleted - 1 \in Nat
    BY <2>1, <2>2 DEF SessionRecord
  <2>4. \A n \in Nat : LET q == [c EXCEPT !.handshakeCompleted = n] IN q \in SessionRecord /\ SameHandshake(x, q)
    BY <2>2, Zenon DEF SessionRecord, SameHandshake
  <2> QED BY <2>1, <2>3, <2>4, <1>2
<1>5. CASE PMClosed(s)
  <2> DEFINE r == [x EXCEPT !.runClosed = @ - 1, !.pm = "ended"]
  <2>1. (Step(s, r) \/ Step(s, closePaths(r))) /\ x.runClosed > 0
    BY <1>5 DEF PMClosed
  <2> HIDE DEF x
  <2>2. r \in SessionRecord /\ SameHandshake(x, r)
    <3>1. x.runClosed - 1 \in Nat
      BY <2>1, <1>1 DEF SessionRecord
    <3>2. \A n \in Nat : LET q == [x EXCEPT !.runClosed = n, !.pm = "ended"]
                         IN  q \in SessionRecord /\ SameHandshake(x, q)
      BY <1>1, Zenon DEF SessionRecord, SameHandshake, Managers
    <3> QED BY <3>1, <3>2, Zenon
  <2> HIDE DEF r
  <2>3. closePaths(r) \in SessionRecord /\ SameHandshake(x, closePaths(r))
    BY <2>2, ClosePathsKeeps DEF SameHandshake
  <2> QED BY <2>1, <2>2, <2>3, <1>2
<1>6. CASE PMChangePaths(s)
  BY <1>6, <1>3, SessionKeeps, Zenon DEF PMChangePaths, clientVars, DInv, ClientTypeOK
<1>7. CASE createPath(s)
  <2>1. PICK a \in x.todo, seen \in BOOLEAN :
          LET r == Created(s, a, seen)
          IN  \/ Step(s, [r EXCEPT !.pm = IF r.todo = {} THEN "loop" ELSE @])
              \/ Step(s, [closePaths(r) EXCEPT !.pm = "ended", !.todo = {}])
              \/ Step(s, [r EXCEPT !.pm = "loop"])
    BY <1>7, Zenon DEF createPath
  <2> DEFINE r == Created(s, a, seen)
             c == closePaths(r)
  <2>2. r \in SessionRecord /\ SameHandshake(x, r)
    <3>1. a \in Paths
      BY <1>1 DEF SessionRecord
    <3>2. \A w \in SUBSET Paths : LET q == [x EXCEPT !.paths = @ \cup {a}, !.todo = @ \ {a}, !.waiting = w]
                                  IN  q \in SessionRecord /\ SameHandshake(x, q)
      BY <3>1, <1>1, Zenon DEF SessionRecord, SameHandshake
    <3>3. (IF seen THEN x.waiting \cup {a} ELSE x.waiting) \in SUBSET Paths
      BY <3>1, <1>1 DEF SessionRecord
    <3> QED BY <3>2, <3>3, Zenon DEF Created
  <2>3. c \in SessionRecord /\ SameHandshake(x, c)
    BY <2>2, ClosePathsKeeps DEF SameHandshake
  <2>4. \/ Step(s, [r EXCEPT !.pm = IF r.todo = {} THEN "loop" ELSE @])
        \/ Step(s, [c EXCEPT !.pm = "ended", !.todo = {}])
        \/ Step(s, [r EXCEPT !.pm = "loop"])
    BY <2>1
  <2> HIDE DEF r, c, x
  <2>5. \A m \in Managers : LET q == [r EXCEPT !.pm = m] IN q \in SessionRecord /\ SameHandshake(x, q)
    BY <2>2, Zenon DEF SessionRecord, SameHandshake
  <2>6. LET q == [c EXCEPT !.pm = "ended", !.todo = {}] IN q \in SessionRecord /\ SameHandshake(x, q)
    BY <2>3, Zenon DEF SessionRecord, SameHandshake, Managers
  <2>7. "loop" \in Managers /\ (IF r.todo = {} THEN "loop" ELSE r.pm) \in Managers
    BY <2>2 DEF SessionRecord, Managers
  <2> QED BY <2>4, <2>5, <2>6, <2>7, <1>2
<1> QED BY <1>4, <1>5, <1>6, <1>7 DEF PathManager

-----------------------------------------------------------------------------
(* What no session sees.                                                   *)
LEMMA NoSessionMoves ==
  ASSUME DInv, UNCHANGED <<serverVersion, sess, current>>,
         versionNegotiated => versionNegotiated', dial' # dial => dial' # "dialed",
         runner' \in {0} \cup Sessions, localAddrs' \subseteq Paths, newAddr' \subseteq Paths
  PROVE  DInv'
BY DEF DInv, ClientTypeOK, Honest, SaysComplete, Complete, DialSound

(* Dial takes what it waits for.                                           *)
LEMMA DialSteps ==
  ASSUME DInv, DialStep
  PROVE  DInv'
<1> DEFINE x == sess[current]
<1>1. current \in Sessions /\ x \in SessionRecord
  BY DEF DInv, ClientTypeOK
<1>2. CASE UNCHANGED sess /\ DialVersion
  BY <1>2, NoSessionMoves DEF DialVersion, Waits, socketVars, DInv, ClientTypeOK
<1>3. CASE UNCHANGED sess /\ DialSecure
  BY <1>3, NoSessionMoves DEF DialSecure, Waits, socketVars, DInv, ClientTypeOK
<1>4. CASE sess' # sess /\ DialSecure
  <2> DEFINE r == [x EXCEPT !.handshakeChan = Tail(@)]
  <2>1. /\ x.handshakeChan # <<>> /\ sess' = [sess EXCEPT ![current] = r]
        /\ dial' \in {"forward", "failed"} /\ UNCHANGED <<serverVersion, current, versionNegotiated, runner, socketVars>>
    BY <1>1, <1>4 DEF DialSecure, Waits, DInv, ClientTypeOK
  <2>2. r \in SessionRecord /\ SameHandshake(x, r)
    <3>1. Tail(x.handshakeChan) \in Seq(Words)
      BY <1>1, <2>1 DEF SessionRecord
    <3>2. \A h \in Seq(Words) : LET q == [x EXCEPT !.handshakeChan = h] IN q \in SessionRecord /\ SameHandshake(x, q)
      BY <1>1, Zenon DEF SessionRecord, SameHandshake
    <3> HIDE DEF x
    <3> QED BY <3>1, <3>2, Zenon
  <2>3. /\ r.taken >= sess[current].taken /\ (SaysComplete(r) => Complete(r))
        /\ r.taken > 0 => current = serverVersion /\ versionNegotiated
    BY <1>1, <2>2, SMTT(30) DEF SameHandshake, SaysComplete, Complete, DInv, Honest, SessionRecord
  <2> HIDE DEF r
  <2> QED BY <1>1, <2>1, <2>2, <2>3, SessionMoves, Zenon DEF DInv, ClientTypeOK, socketVars
<1>5. CASE DialForward
  <2> DEFINE r == [x EXCEPT !.completeChan = Tail(@)]
  <2>1. /\ x.completeChan # <<>> /\ sess' = [sess EXCEPT ![current] = r]
        /\ dial' = "dialed" => Head(x.completeChan) = "closed"
        /\ UNCHANGED <<serverVersion, current, versionNegotiated, runner, socketVars>>
    BY <1>1, <1>5 DEF DialForward, Waits, DInv, ClientTypeOK
  <2>2. r \in SessionRecord /\ r.taken = x.taken /\ r.completeChan = Tail(x.completeChan)
    <3>1. Tail(x.completeChan) \in Seq(Words)
      BY <1>1, <2>1 DEF SessionRecord
    <3>2. \A h \in Seq(Words) : LET q == [x EXCEPT !.completeChan = h]
                                IN  q \in SessionRecord /\ q.taken = x.taken /\ q.completeChan = h
      BY <1>1, Zenon DEF SessionRecord
    <3> HIDE DEF x
    <3> QED BY <3>1, <3>2, Zenon
  <2>3. SaysComplete(x) => Complete(x) /\ current = serverVersion
    BY <1>1 DEF DInv, Honest, Complete, Events
  <2>4. dial' = "dialed" => SaysComplete(x)
    BY <1>1, <2>1 DEF SaysComplete, SessionRecord
  <2>5. SaysComplete(r) => SaysComplete(x)
    <3> DEFINE c == x.completeChan
    <3>1. c \in Seq(Words) /\ c # <<>> /\ r.completeChan = Tail(c)
      BY <1>1, <2>1, <2>2 DEF SessionRecord
    <3> HIDE DEF c, r
    <3>2. ASSUME NEW i \in 1..Len(Tail(c)), Tail(c)[i] = "closed"
          PROVE  i + 1 \in 1..Len(c) /\ c[i + 1] = "closed"
      BY <3>1, <3>2
    <3>3. SaysComplete(r) => \E j \in 1..Len(c) : c[j] = "closed"
      BY <3>1, <3>2 DEF SaysComplete
    <3> QED BY <3>3 DEF SaysComplete, c
  <2>6. /\ r.taken >= sess[current].taken /\ (SaysComplete(r) => Complete(r))
        /\ r.taken > 0 => current = serverVersion /\ versionNegotiated
    BY <1>1, <2>2, <2>3, <2>5, SMTT(30) DEF Complete, DInv, Honest, SessionRecord
  <2> HIDE DEF r
  <2> QED BY <1>1, <2>1, <2>2, <2>3, <2>4, <2>6, SessionMoves, Zenon DEF DInv, ClientTypeOK, socketVars
<1> QED BY <1>2, <1>3, <1>4, <1>5 DEF DialStep, DialVersion

(* The listen goroutine, the goroutine of Dial and the application close   *)
(* sessions.                                                               *)
LEMMA ClosingSteps ==
  ASSUME DInv, NEW s \in Sessions, NEW e \in Reasons,
         sess' = [sess EXCEPT ![s] = Closed(sess[s], e)],
         UNCHANGED <<serverVersion, current, versionNegotiated, dial, runner, localAddrs, newAddr>>
  PROVE  DInv'
<1>1. sess[s] \in SessionRecord
  BY DEF DInv, ClientTypeOK
<1>2. Closed(sess[s], e) \in SessionRecord /\ SameHandshake(sess[s], Closed(sess[s], e))
  BY <1>1, ClosedKeeps
<1> QED BY <1>2, SessionKeeps, Zenon DEF DInv, ClientTypeOK

(* The change to the second session comes before any event of a handshake. *)
LEMMA VersionStep ==
  ASSUME DInv, ListenVersionNegotiation
  PROVE  DInv'
<1>1. CASE serverVersion # 2
  <2>1. 1 \in Sessions /\ "error" \in Reasons
    BY DEF Sessions, Reasons
  <2>2. /\ sess' = [sess EXCEPT ![1] = Closed(sess[1], "error")]
        /\ UNCHANGED <<serverVersion, current, versionNegotiated, dial, runner, localAddrs, newAddr>>
    BY <1>1 DEF ListenVersionNegotiation, CloseAndWait, socketVars
  <2> QED BY <2>1, <2>2, ClosingSteps, Zenon
<1>2. CASE serverVersion = 2
  <2> DEFINE q == Closed(sess[1], "newVersion")
  <2>1. sess[1] \in SessionRecord
    BY DEF DInv, ClientTypeOK, Sessions
  <2>2. q \in SessionRecord /\ SameHandshake(sess[1], q)
    BY <2>1, ClosedKeeps DEF Reasons
  <2>3. /\ sess' = [sess EXCEPT ![1] = q] /\ current' = 2 /\ ~versionNegotiated
        /\ UNCHANGED <<serverVersion, versionNegotiated, dial, runner, localAddrs, newAddr>>
    BY <1>2 DEF ListenVersionNegotiation, CloseAndWait, socketVars
  <2> HIDE DEF q
  <2>4. ClientTypeOK'
    BY <2>2, <2>3 DEF DInv, ClientTypeOK, Sessions
  <2>5. \A t \in Sessions : Honest(t)'
    BY <2>2, <2>3 DEF DInv, ClientTypeOK, Honest, SameHandshake, SaysComplete, Complete
  <2>6. dial # "dialed"
    <3>1. \A t \in Sessions : ~(sess[t].taken > 0)
      BY <2>3 DEF DInv, Honest
    <3> QED BY <3>1 DEF DInv, ClientTypeOK, DialSound, Complete, Events
  <2> QED BY <2>3, <2>4, <2>5, <2>6 DEF DInv, DialSound
<1> QED BY <1>1, <1>2

(* The goroutine of Dial starts the second session or ends.                *)
LEMMA RunnerSteps ==
  ASSUME DInv, RunnerStep
  PROVE  DInv'
<1>1. CASE UNCHANGED sess
  BY <1>1, NoSessionMoves DEF RunnerStep, DInv, ClientTypeOK
<1>2. CASE sess' # sess
  <2> DEFINE r == [sess[current] EXCEPT !.loop = "top"]
  <2>1. sess' = [sess EXCEPT ![current] = r] /\ runner' = current
    BY <1>2 DEF RunnerStep, DInv, ClientTypeOK
  <2>2. sess[current] \in SessionRecord /\ current \in Sessions
    BY DEF DInv, ClientTypeOK
  <2>3. r \in SessionRecord /\ SameHandshake(sess[current], r)
    BY <2>2, LoopKeeps, Zenon DEF Loops
  <2> HIDE DEF r
  <2> QED BY <2>1, <2>2, <2>3, SessionKeeps, Zenon DEF RunnerStep, DInv, ClientTypeOK
<1> QED BY <1>1, <1>2

-----------------------------------------------------------------------------
\* Every step of the client keeps its invariant.
LEMMA StepKeeps == DInv /\ [Next]_vars => DInv'
<1> SUFFICES ASSUME DInv, [Next]_vars PROVE DInv'
  OBVIOUS
<1>1. current \in Sessions /\ "error" \in Reasons
  BY DEF DInv, ClientTypeOK, Reasons
<1>2. ASSUME NEW s \in Sessions, RunLoop(s) PROVE DInv'
  BY <1>2, LoopSteps, EventStep, EndStep DEF RunLoop
<1>3. ASSUME NEW s \in Sessions, PathRun(s) \/ PathManager(s) \/ Deadline(s) \/ CryptoFailed(s) PROVE DInv'
  BY <1>3, OtherGoroutines, ManagerSteps
<1>4. CASE DialStep \/ RunnerStep \/ ListenVersionNegotiation
  BY <1>4, DialSteps, RunnerSteps, VersionStep
<1>5. CASE ListenError
  <2>1. /\ sess' = [sess EXCEPT ![current] = Closed(sess[current], "error")]
        /\ UNCHANGED <<serverVersion, current, versionNegotiated, dial, runner, localAddrs, newAddr>>
    BY <1>5 DEF ListenError, CloseAndWait, socketVars
  <2> QED BY <1>1, <2>1, ClosingSteps, Zenon
<1>6. CASE ListenPublicReset
  <2>1. /\ sess' = [sess EXCEPT ![current] = Closed(sess[current], "error")]
        /\ UNCHANGED <<serverVersion, current, versionNegotiated, dial, runner, localAddrs, newAddr>>
    BY <1>6 DEF ListenPublicReset, Step, clientVars, socketVars
  <2> QED BY <1>1, <2>1, ClosingSteps, Zenon
<1>7. CASE AppClose
  <2>1. /\ sess' = [sess EXCEPT ![current] = Closed(sess[current], "error")]
        /\ UNCHANGED <<serverVersion, current, versionNegotiated, dial, runner, localAddrs, newAddr>>
    BY <1>7, <1>1 DEF AppClose, socketVars, DInv, ClientTypeOK
  <2> QED BY <1>1, <2>1, ClosingSteps, Zenon
<1>8. CASE ListenCloseReturns \/ AppCloseReturns \/ ListenPacket
  BY <1>8, NoSessionMoves DEF ListenCloseReturns, AppCloseReturns, ListenPacket, socketVars, DInv, ClientTypeOK
<1>9. CASE createPconn \/ createPconns \/ Started
  <2>1. localAddrs' \subseteq Paths
    BY <1>9 DEF createPconn, createPconns, Started, DInv, ClientTypeOK
  <2>2. newAddr' \subseteq Paths
    <3>1. CASE createPconn
      <4>1. PICK a \in Addrs : newAddr' = {a}
        BY <3>1, Zenon DEF createPconn
      <4> QED BY <4>1, Zenon DEF Paths
    <3>2. CASE createPconns
      BY <3>2, Zenon DEF createPconns, Idle
    <3>3. CASE Started
      BY <3>3, Zenon DEF Started, DInv, ClientTypeOK
    <3> QED BY <1>9, <3>1, <3>2, <3>3, Zenon
  <2>3. UNCHANGED <<clientVars, sess>>
    BY <1>9 DEF createPconn, createPconns, Started
  <2> QED BY <2>1, <2>2, <2>3, NoSessionMoves DEF clientVars, DInv, ClientTypeOK
<1>10. CASE UNCHANGED vars
  BY <1>10, NoSessionMoves DEF vars, clientVars, socketVars, DInv, ClientTypeOK
<1> QED BY <1>2, <1>3, <1>4, <1>5, <1>6, <1>7, <1>8, <1>9, <1>10 DEF Next, Bounded

\* The client starts with sessions that have not begun.
LEMMA InitKeeps == Init => DInv
<1> SUFFICES ASSUME Init PROVE DInv
  OBVIOUS
<1> DEFINE n == newClientSession
           first == [n EXCEPT !.loop = "top"]
           second == [n EXCEPT !.loop = "new"]
<1>1. n \in SessionRecord /\ n.taken = 0 /\ n.completeChan = <<>>
  <2>1. {} \in SUBSET Paths /\ {"any"} \in SUBSET Paths /\ "any" \in Paths
    BY DEF Paths
  <2>2. <<>> \in Seq(Words) /\ 0 \in 0..3 /\ FALSE \in BOOLEAN
    OBVIOUS
  <2> QED BY <2>1, <2>2, Zenon DEF newClientSession, SessionRecord, Loops, Reasons, Managers
<1> HIDE DEF n
<1>2. /\ first \in SessionRecord /\ first.taken = 0 /\ first.completeChan = <<>>
      /\ second \in SessionRecord /\ second.taken = 0 /\ second.completeChan = <<>>
  BY <1>1, LoopKeeps, Zenon DEF SameHandshake, Loops
<1>3. sess = [s \in Sessions |-> IF s = 1 THEN first ELSE second]
  BY DEF Init, n
<1> HIDE DEF first, second
<1>4. ClientTypeOK
  BY <1>2, <1>3 DEF Init, ClientTypeOK, Sessions, Idle
<1>5. \A s \in Sessions : Honest(s)
  BY <1>2, <1>3 DEF Honest, SaysComplete
<1> QED BY <1>4, <1>5 DEF Init, DInv, DialSound

(* The invariant holds of every behaviour of a client.                     *)
THEOREM ClientInvariance == Spec => []DInv
BY InitKeeps, StepKeeps, PTL DEF Spec

(* Dial (client.go:145) returns a session without an error only if its     *)
(* handshake is complete, in the version of the server.                    *)
THEOREM DialReturnsComplete == Spec => []DialSound
<1>1. DInv => DialSound
  BY DEF DInv
<1> QED BY <1>1, ClientInvariance, PTL

=============================================================================
