------------------------------- MODULE Client -------------------------------
(***************************************************************************)
(* The life of a client connection: Dial (client.go), the run loop of the  *)
(* session and the ways it ends (session.go), the path manager             *)
(* (path_manager.go), the goroutine of each path (path.go) and the manager *)
(* of the sockets (pconn_manager.go).  They are separate goroutines that   *)
(* meet in buffered channels, in a read-write lock on the map of paths and *)
(* in the context that is cancelled when the run loop has ended.           *)
(*                                                                         *)
(* The client dials with session 1.  A server that does not speak its      *)
(* version answers with a version negotiation packet; the client then      *)
(* makes session 2 and closes session 1.  A path is named by its local     *)
(* address: "any" for the initial one, on the socket bound to no address.  *)
(* The server never advertises addresses, so it has one.  What the packets *)
(* carry is left to the other modules; here a packet matters for the close *)
(* or the handshake event it leads to.                                     *)
(***************************************************************************)
EXTENDS Naturals, Sequences, FiniteSets

CONSTANTS Addrs,                \* addresses of the client's interfaces
          MaxClosePaths         \* bound on the CLOSE_PATH frames received

ASSUME ClientAssumption == "any" \notin Addrs /\ IsFiniteSet(Addrs) /\ MaxClosePaths \in Nat

VARIABLES
  serverVersion,                \* session whose version the server speaks, 0 if neither
  sess,                         \* the sessions
  current,                      \* c.session
  versionNegotiated, receivedVersionNegotiation,
  dial,                         \* what the call of Dial waits for, or its result
  runner,                       \* session the goroutine of Dial runs, 0 once errorChan is closed
  socketsOpen,                  \* until closePconns
  listener,                     \* what the listen goroutine does
  localAddrs, newAddr, changePaths,  \* of the pconn manager
  found,                        \* addresses found at the start, {"any"} until it is over
  app                           \* the application's call of Close

clientVars == <<serverVersion, current, versionNegotiated, receivedVersionNegotiation, dial, runner, listener, app>>
socketVars == <<socketsOpen, localAddrs, newAddr, changePaths, found>>
vars == <<clientVars, socketVars, sess>>

Sessions == {1, 2}
Paths == {"any"} \cup Addrs
Idle == {}                      \* no address is being added
Listening == <<"loop", 0>>
Ended == <<"ended", 0>>

(* The levels the crypto goroutine reports on aeadChanged; closing the     *)
(* channel is the last event.                                              *)
Events == <<"secure", "forward", "closed">>

(* What newClientSession leaves: the initial path and the path manager are *)
(* running, the run loop is not.                                           *)
newClientSession ==
  [loop |-> "new", close |-> "none", late |-> FALSE,
   taken |-> 0, handshakeChan |-> <<>>, completeChan |-> <<>>,
   pm |-> "wait", todo |-> {}, launched |-> FALSE, handshakeCompleted |-> 0, runClosed |-> 0,
   paths |-> {"any"}, signalled |-> {}, ended |-> {}, full |-> {}, waiting |-> {},
   target |-> "any", closed |-> {}]

Complete(r) == r.taken = Len(Events)
Running(r) == r.paths \ r.ended

-----------------------------------------------------------------------------
(* closeLocal and closeRemote: only the first error counts.                *)
Closed(r, e) == IF r.close = "none" THEN [r EXCEPT !.close = e, !.late = FALSE] ELSE r

(* Close asks every open path's goroutine to end, without blocking.        *)
closePaths(r) == [r EXCEPT !.signalled = @ \cup Running(r)]

(* The end of an iteration: the path manager learns, once, that the        *)
(* handshake is complete, or the session closes if it has taken too long.  *)
Iterated(r) ==
  IF Complete(r) THEN [r EXCEPT !.loop = "top", !.launched = TRUE, !.handshakeCompleted = IF r.launched THEN @ ELSE @ + 1]
  ELSE [(IF r.late THEN Closed(r, "error") ELSE r) EXCEPT !.loop = "top"]

At(s, pc) == sess[s].loop = pc
Step(s, r) == sess' = [sess EXCEPT ![s] = r] /\ UNCHANGED <<clientVars, socketVars>>

(* The check at the top of the loop.  It does not tell the path manager.   *)
TopOfLoop(s) ==
  /\ At(s, "top")
  /\ Step(s, IF sess[s].close = "none" THEN [sess[s] EXCEPT !.loop = "select"]
             ELSE [closePaths(sess[s]) EXCEPT !.loop = "error"])

SelectClose(s) ==
  /\ At(s, "select") /\ sess[s].close # "none"
  /\ Step(s, [closePaths(sess[s]) EXCEPT !.loop = "error", !.runClosed = @ + 1])

(* The crypto goroutine, which needs packets of the server, has pushed a   *)
(* level into aeadChanged or closed it.                                    *)
SelectAead(s) ==
  /\ At(s, "select") /\ s = serverVersion /\ versionNegotiated /\ ~Complete(sess[s])
  /\ LET r == [sess[s] EXCEPT !.taken = @ + 1] IN
       Step(s, Iterated(IF Complete(r) THEN [r EXCEPT !.late = FALSE, !.completeChan = Append(@, "closed"),
                                                      !.handshakeChan = Append(@, "closed")]
                        ELSE [r EXCEPT !.handshakeChan = Append(@, Events[r.taken])]))

(* A packet, a timer or data to send: an iteration that changes nothing    *)
(* else, or one that finds a reason to close.                              *)
Iterate(s) == At(s, "select") /\ Step(s, Iterated(sess[s]))

IterateAndClose(s) ==
  /\ At(s, "select")
  /\ Step(s, Closed(Iterated(sess[s]), "error"))

(* ACKs and window updates are also sent on a path that has been closed.   *)
(* sendPackedPacket then puts a token into a channel nobody reads.         *)
SendOnClosedPath(s) ==
  /\ At(s, "select") /\ Complete(sess[s])
  /\ \E p \in sess[s].ended :
       Step(s, IF p \in sess[s].full THEN [sess[s] EXCEPT !.loop = "send", !.target = p]
               ELSE Iterated([sess[s] EXCEPT !.full = @ \cup {p}]))

(* A CLOSE_PATH frame.  The session's closePath takes the read lock, and   *)
(* the path manager's closePath, which it calls, takes it again: it blocks *)
(* if a writer has asked for the lock in between.                          *)
handleClosePathFrame(s) ==
  /\ At(s, "select") /\ Complete(sess[s]) /\ Cardinality(sess[s].closed) < MaxClosePaths /\ sess[s].pm \notin {"first", "again"}
  /\ \E p \in sess[s].paths \ sess[s].closed :
       Step(s, [sess[s] EXCEPT !.loop = "closepath", !.target = p, !.closed = @ \cup {p}])

closePath(s) ==
  /\ At(s, "closepath") /\ sess[s].pm \notin {"first", "again"}
  /\ Step(s, Iterated(IF sess[s].target \in Running(sess[s])
                      THEN [sess[s] EXCEPT !.signalled = @ \cup {sess[s].target}, !.target = "any"]
                      ELSE [sess[s] EXCEPT !.target = "any"]))

(* The end of run and handleCloseError: those who wait for the handshake   *)
(* get the error, and the paths' goroutines are waited for unless the      *)
(* session only makes place for one with another version.                  *)
Reported_Closed(r) ==           \* Mutation: completeChan is closed, as after a handshake
  IF Complete(r) THEN r
  ELSE [r EXCEPT !.completeChan = Append(@, "closed"), !.handshakeChan = Append(@, "error")]
Reported_Complete(r) ==         \* Mutation: only handshakeChan gets the error
  IF Complete(r) THEN r ELSE [r EXCEPT !.handshakeChan = Append(@, "error")]
Reported(r) ==
  IF Complete(r) THEN r
  ELSE [r EXCEPT !.completeChan = Append(@, "error"), !.handshakeChan = Append(@, "error")]

HandleCloseError(s) ==
  /\ At(s, "error")
  /\ LET r == Reported(sess[s]) IN
       Step(s, IF r.close = "newVersion" THEN [r EXCEPT !.loop = "done"]
               ELSE [closePaths(r) EXCEPT !.loop = "wait", !.waiting = r.paths])

PathsEnded(s) ==
  /\ At(s, "wait") /\ sess[s].waiting \subseteq sess[s].ended
  /\ Step(s, [sess[s] EXCEPT !.loop = "done"])

RunLoop(s) ==
  \/ TopOfLoop(s) \/ SelectClose(s) \/ SelectAead(s) \/ Iterate(s) \/ IterateAndClose(s)
  \/ SendOnClosedPath(s) \/ handleClosePathFrame(s) \/ closePath(s) \/ HandleCloseError(s) \/ PathsEnded(s)

-----------------------------------------------------------------------------
(* HandleCryptoStream fails, in the goroutine that run starts for it: it   *)
(* closes the session.                                                     *)
CryptoFailed(s) ==
  /\ s = serverVersion /\ versionNegotiated /\ ~At(s, "new") /\ ~Complete(sess[s])
  /\ sess[s].close = "none"
  /\ Step(s, Closed(sess[s], "error"))

(* HandshakeTimeout passes.                                                *)
Deadline(s) ==
  /\ s <= current /\ ~sess[s].late /\ ~Complete(sess[s]) /\ sess[s].close = "none"
  /\ Step(s, [sess[s] EXCEPT !.late = TRUE])

(* The goroutine of a path ends once it has been asked to.  A packet sent  *)
(* just before may leave its token behind, which matters while the run     *)
(* loop still sends.                                                       *)
PathRun(s) ==
  \E p \in sess[s].signalled \ sess[s].ended, left \in {FALSE, sess[s].loop \in {"top", "select"}} :
    Step(s, [sess[s] EXCEPT !.ended = @ \cup {p}, !.full = IF left THEN @ \cup {p} ELSE @])

-----------------------------------------------------------------------------
(* The path manager.  It waits for the handshake, creates a path for each  *)
(* local address, and again when the addresses change.  createPath takes   *)
(* the write lock: at "first" and "again" the path manager is asking for   *)
(* it.                                                                     *)
createPaths(s, pc) ==
  LET new == localAddrs \ sess[s].paths IN
  [sess[s] EXCEPT !.pm = IF new = {} THEN "loop" ELSE pc, !.todo = new]

PMHandshakeCompleted(s) ==
  /\ sess[s].pm = "wait" /\ sess[s].handshakeCompleted > 0
  /\ Step(s, [createPaths(s, "first") EXCEPT !.handshakeCompleted = @ - 1])

PMClosed(s) ==
  /\ sess[s].pm \in {"wait", "loop"} /\ sess[s].runClosed > 0
  /\ Step(s, LET r == [sess[s] EXCEPT !.runClosed = @ - 1, !.pm = "ended"] IN
             IF sess[s].pm = "loop" THEN closePaths(r) ELSE r)

PMChangePaths(s) ==
  /\ sess[s].pm = "loop" /\ changePaths
  /\ sess' = [sess EXCEPT ![s] = createPaths(s, "again")]
  /\ changePaths' = FALSE
  /\ UNCHANGED <<clientVars, socketsOpen, localAddrs, newAddr, found>>

(* createPath: the new path runs at once and a PING is sent on it.  The    *)
(* session may be going through the paths to wait for them, without the    *)
(* lock, and may or may not see the new one.  If the PING cannot be sent,  *)
(* the first call of createPaths ends the path manager, a later one is     *)
(* given up, which leaves todo as it is.                                   *)
Created(s, a, seen) ==
  [sess[s] EXCEPT !.paths = @ \cup {a}, !.todo = @ \ {a},
                  !.waiting = IF seen THEN @ \cup {a} ELSE @]

createPath(s) ==
  /\ sess[s].pm \in {"first", "again"} /\ ~At(s, "closepath")
  /\ LET first == sess[s].pm = "first" IN
     \E a \in sess[s].todo, seen \in (IF At(s, "wait") THEN BOOLEAN ELSE {FALSE}),
        sent \in (IF socketsOpen THEN BOOLEAN ELSE {FALSE}) :
       LET r == Created(s, a, seen) IN
       Step(s, IF sent THEN [r EXCEPT !.pm = IF r.todo = {} THEN "loop" ELSE @]
               ELSE IF first THEN [closePaths(r) EXCEPT !.pm = "ended", !.todo = {}]
               ELSE [r EXCEPT !.pm = "loop"])

PathManager(s) ==
  PMHandshakeCompleted(s) \/ PMClosed(s) \/ PMChangePaths(s) \/ createPath(s)

-----------------------------------------------------------------------------
(* The pconn manager looks for new interface addresses.  It announces a    *)
(* change before the address is in localAddrs.  It goes on after the       *)
(* connection has ended, when it no longer matters.                        *)
createPconn ==
  /\ newAddr = Idle /\ socketsOpen
  /\ \E a \in Addrs \ localAddrs : newAddr' = {a}
  /\ changePaths' = TRUE
  /\ UNCHANGED <<clientVars, socketsOpen, localAddrs, found, sess>>

createPconns ==
  /\ newAddr # Idle
  /\ localAddrs' = localAddrs \cup newAddr /\ newAddr' = Idle
  /\ UNCHANGED <<clientVars, socketsOpen, changePaths, found, sess>>

(* The first round is over: the path manager is told once more, now that   *)
(* the addresses are there.                                                *)
Started ==
  /\ found = {"any"} /\ newAddr = Idle
  /\ found' = localAddrs /\ changePaths' = TRUE
  /\ UNCHANGED <<clientVars, socketsOpen, localAddrs, newAddr, sess>>

-----------------------------------------------------------------------------
(* establishSecureConnection and WaitUntilHandshakeComplete.               *)
Waits(from, to) ==
  /\ dial = from /\ dial' = to
  /\ UNCHANGED <<serverVersion, current, versionNegotiated, receivedVersionNegotiation, runner, listener, app>>
  /\ UNCHANGED <<socketVars>>

DialVersion ==
  \/ runner = 0 /\ Waits("version", "failed") /\ UNCHANGED sess
  \/ versionNegotiated /\ Waits("version", "secure") /\ UNCHANGED sess

DialSecure ==
  \/ runner = 0 /\ Waits("secure", "failed") /\ UNCHANGED sess
  \/ /\ sess[current].handshakeChan # <<>>
     /\ Waits("secure", IF Head(sess[current].handshakeChan) = "secure" THEN "forward" ELSE "failed")
     /\ sess' = [sess EXCEPT ![current].handshakeChan = Tail(@)]

DialForward ==
  /\ sess[current].completeChan # <<>>
  /\ Waits("forward", IF Head(sess[current].completeChan) = "closed" THEN "dialed" ELSE "failed")
  /\ sess' = [sess EXCEPT ![current].completeChan = Tail(@)]

DialStep == DialVersion \/ DialSecure \/ DialForward

(* The goroutine of establishSecureConnection: it runs the session, and    *)
(* then the new one if that is why the first was closed.  Then it closes   *)
(* the sockets; closeListen is nil, so listen is not told.                 *)
RunnerStep_Open ==              \* Mutation: the sockets are left open
  /\ runner # 0 /\ At(runner, "done")
  /\ IF runner = 1 /\ sess[1].close = "newVersion"
     THEN runner' = current /\ sess' = [sess EXCEPT ![current].loop = "top"]
     ELSE runner' = 0 /\ UNCHANGED sess
  /\ UNCHANGED <<serverVersion, current, versionNegotiated, receivedVersionNegotiation, dial, listener, app, socketVars>>
RunnerStep ==
  /\ runner # 0 /\ At(runner, "done")
  /\ IF runner = 1 /\ sess[1].close = "newVersion"
     THEN /\ runner' = current /\ sess' = [sess EXCEPT ![current].loop = "top"] /\ UNCHANGED socketsOpen
     ELSE /\ runner' = 0 /\ socketsOpen' = FALSE /\ UNCHANGED sess
  /\ UNCHANGED <<serverVersion, current, versionNegotiated, receivedVersionNegotiation, dial, listener, app>>
  /\ UNCHANGED <<localAddrs, newAddr, changePaths, found>>

-----------------------------------------------------------------------------
(* The listen goroutine.  Close waits until the run loop has ended:        *)
(* <<"back", s>> and <<"end", s>> are the calls it waits in, the first to  *)
(* go on with the loop, the second to leave it.                            *)
CloseAndWait(s, then, e) == listener' = <<then, s>> /\ sess' = [sess EXCEPT ![s] = Closed(sess[s], e)]

ListenPacket ==                 \* any packet of the server but the two below
  /\ listener = Listening /\ socketsOpen /\ ~versionNegotiated /\ current = serverVersion
  /\ versionNegotiated' = TRUE
  /\ UNCHANGED <<serverVersion, current, receivedVersionNegotiation, dial, runner, listener, app>>
  /\ UNCHANGED <<socketVars, sess>>

ListenPublicReset ==
  /\ listener = Listening /\ socketsOpen /\ sess[current].close = "none"
  /\ Step(current, Closed(sess[current], "error"))

(* handlePacketWithVersionFlag: the new session is made, then the old one  *)
(* closed.                                                                 *)
ListenVersionNegotiation ==
  /\ listener = Listening /\ socketsOpen /\ ~versionNegotiated /\ ~receivedVersionNegotiation /\ serverVersion # 1
  /\ receivedVersionNegotiation' = TRUE
  /\ IF serverVersion = 2
     THEN current' = 2 /\ CloseAndWait(1, "back", "newVersion")
     ELSE CloseAndWait(1, "back", "error") /\ UNCHANGED current
  /\ UNCHANGED <<serverVersion, versionNegotiated, dial, runner, app, socketVars>>

(* Reading from a socket fails, because it has been closed or because its  *)
(* interface has gone: the error comes through errorConn.                  *)
ListenError ==
  /\ listener = Listening
  /\ CloseAndWait(current, "end", "error")
  /\ UNCHANGED <<serverVersion, current, versionNegotiated, receivedVersionNegotiation, dial, runner, app>>
  /\ UNCHANGED <<socketVars>>

ListenCloseReturns ==
  /\ \E s \in Sessions, then \in {"back", "end"} :
       /\ listener = <<then, s>> /\ At(s, "done")
       /\ listener' = IF then = "back" THEN Listening ELSE Ended
  /\ UNCHANGED <<serverVersion, current, versionNegotiated, receivedVersionNegotiation, dial, runner, app>>
  /\ UNCHANGED <<socketVars, sess>>

-----------------------------------------------------------------------------
(* The application closes the session it has dialed.                       *)
AppClose ==
  /\ dial = "dialed" /\ app = "using"
  /\ app' = "closing" /\ sess' = [sess EXCEPT ![current] = Closed(@, "error")]
  /\ UNCHANGED <<serverVersion, current, versionNegotiated, receivedVersionNegotiation, dial, runner, listener>>
  /\ UNCHANGED <<socketVars>>

AppCloseReturns ==
  /\ app = "closing" /\ At(current, "done")
  /\ app' = "closed"
  /\ UNCHANGED <<serverVersion, current, versionNegotiated, receivedVersionNegotiation, dial, runner, listener>>
  /\ UNCHANGED <<socketVars, sess>>

-----------------------------------------------------------------------------
Init ==
  /\ serverVersion \in 0..2
  /\ sess = [s \in Sessions |-> [newClientSession EXCEPT !.loop = IF s = 1 THEN "top" ELSE "new"]]
  /\ current = 1 /\ versionNegotiated = FALSE /\ receivedVersionNegotiation = FALSE
  /\ dial = "version" /\ runner = 1 /\ listener = Listening /\ app = "using"
  /\ socketsOpen = TRUE
  /\ localAddrs = {} /\ newAddr = Idle /\ changePaths = FALSE /\ found = {"any"}

(* What ends after finitely many steps once nothing new arrives.           *)
Bounded ==
  \/ \E s \in Sessions : PathRun(s) \/ PathManager(s) \/ Deadline(s)
  \/ DialStep \/ RunnerStep \/ (~socketsOpen /\ ListenError) \/ ListenCloseReturns \/ AppCloseReturns \/ createPconns \/ Started

Next ==
  \/ Bounded
  \/ \E s \in Sessions : RunLoop(s) \/ CryptoFailed(s)
  \/ createPconn \/ ListenError \/ ListenPacket \/ ListenPublicReset \/ ListenVersionNegotiation \/ AppClose

Spec == Init /\ [][Next]_vars

(* Go runs every goroutine that can run, and time passes.                  *)
FairSpec ==
  /\ Spec
  /\ WF_vars(Bounded)
  /\ WF_vars(\E s \in Sessions : RunLoop(s))

-----------------------------------------------------------------------------
(* Three ways in which a run loop never ends, each there in the code: a    *)
(* second packet on a path whose goroutine has ended (session.go:987), the *)
(* nested read lock with the path manager between the two (session.go:836) *)
(* and a path that is made after the paths were told to end, by a path     *)
(* manager that was not told (session.go:396).                             *)
Stuck(s) ==
  \/ At(s, "send")
  \/ At(s, "closepath") /\ sess[s].pm \in {"first", "again"}
  \/ /\ At(s, "wait") /\ sess[s].pm = "loop" /\ sess[s].runClosed = 0
     /\ ~(sess[s].waiting \subseteq sess[s].signalled \cup sess[s].ended)

(* Dial returns a session only if that session's handshake is complete, in *)
(* a version of the server: an error of either session, or of the change   *)
(* from one to the other, is never taken for success.                      *)
DialSound == dial = "dialed" => Complete(sess[current]) /\ current = serverVersion

(* Dial returns, whatever version the server speaks and however the first  *)
(* session ends, and a call of Close returns, but for the three ways of    *)
(* being stuck.                                                            *)
CallsReturn ==
  /\ []<>(dial \in {"dialed", "failed"})
  /\ []<>(app # "closing" \/ Stuck(current))

(* The goroutines end after the connection.  The listen goroutine does,    *)
(* unless it waits for the end of a second session that was made but never *)
(* run, since the first had already been closed for another reason.  The   *)
(* goroutine of every path does, also of a session that only makes place   *)
(* for another, unless a path manager that was not told can still make     *)
(* paths.                                                                  *)
GoroutinesEnd ==
  /\ []<>(runner # 0 \/ listener = Ended \/ (At(2, "new") /\ listener = <<"end", 2>>))
  /\ []<>(\A s \in Sessions : At(s, "done") =>
            \/ sess[s].paths \subseteq sess[s].ended
            \/ sess[s].pm \in {"first", "again", "loop"} /\ sess[s].runClosed = 0)
=============================================================================
