------------------------------ MODULE Listener ------------------------------
(***************************************************************************)
(* The listener of a server (server.go): the goroutine serve, which makes  *)
(* a session for the first packet of a connection, the two goroutines of   *)
(* each session (one runs it and removes it from the map, one waits for    *)
(* the handshake and queues it), Accept, the calls of Close, and the       *)
(* sockets (pconn_manager.go).  A session is its connection ID and the     *)
(* number of sessions made for that ID before; its own life is that of the *)
(* module Client: it runs, is closed, and its context is cancelled.        *)
(***************************************************************************)
EXTENDS Naturals, Sequences, FiniteSets, Functions

CONSTANTS Conns,                \* connection IDs
          MaxCloses,            \* bound on the application's calls of Close
          QueueSize,            \* of sessionQueue, 5 in the code
          MaxSessions           \* bound on the sessions made

ASSUME ListenerAssumption == {QueueSize, MaxSessions, MaxCloses} \subseteq Nat \ {0}

VARIABLES
  sessions,                     \* the map: "none", "open", or "nil" after the end
  made,                         \* sessions made for an ID
  run,                          \* of the last one: "new", "running", "closed", "done"
  queuer,                       \* its goroutine: "none", "handshake", "queue", "queued", "failed"
  sessionQueue,
  accepted,                     \* what Accept returned
  acceptor,                     \* "waiting" in Accept, "failed" once it has got an error
  serve,                        \* "loop", "ended"
  closer,                       \* for each call of Close where it is
  todo, left,                   \* for each call the sessions open when it was made, and those not visited yet
  closeConns,                   \* tokens in the channel, which has room for one
  pconnsClosed,                 \* the sockets have been closed
  readFailed                    \* the error of a read is in errorConn

listenerVars == <<sessions, made, run, queuer, sessionQueue, accepted, acceptor, serve,
          closer, todo, left, closeConns, pconnsClosed, readFailed>>
connVars == <<sessions, made, run, queuer>>
acceptVars == <<sessionQueue, accepted, acceptor>>
closeVars == <<closer, todo, left, closeConns>>
sockets == <<pconnsClosed, readFailed>>

Serve == 0                      \* the call that serve makes
Calls == Serve..MaxCloses
Nobody == <<>>

(* The session has ended: its context is cancelled.                        *)
Over(s) == made[s[1]] > s[2] \/ run[s[1]] = "done"

-----------------------------------------------------------------------------
(* handlePacket for a packet that offers a supported version.  A packet    *)
(* for a closed session is dropped, one for an open session goes to it.    *)
(* After the sockets are closed one more packet may be handed over.        *)
NewSession(c) ==
  /\ sessions' = [sessions EXCEPT ![c] = "open"]
  /\ made' = [made EXCEPT ![c] = @ + 1]
  /\ run' = [run EXCEPT ![c] = "running"]
  /\ queuer' = [queuer EXCEPT ![c] = "handshake"]

handlePacket(c) ==
  /\ serve = "loop" /\ ~readFailed
  /\ sessions[c] = "none" /\ SumFunction(made) < MaxSessions
  /\ NewSession(c)
  /\ readFailed' = pconnsClosed
  /\ UNCHANGED <<acceptVars, serve, closeVars, pconnsClosed>>

(* The session reports forward-secure keys: its goroutine queues it.       *)
HandshakeEvent(c) ==
  /\ run[c] \in {"running", "closed"} /\ queuer[c] = "handshake"
  /\ queuer' = [queuer EXCEPT ![c] = "queue"]
  /\ UNCHANGED <<sessions, made, run, acceptVars, serve, closeVars, sockets>>

(* The session finds a reason to close by itself.                          *)
SessionCloses(c) ==
  /\ run[c] = "running"
  /\ run' = [run EXCEPT ![c] = "closed"]
  /\ UNCHANGED <<sessions, made, queuer, acceptVars, serve, closeVars, sockets>>

(* The run loop ends.  If the handshake was not complete, whoever waits    *)
(* for it gets the error.  removeConnection leaves an entry for a while,   *)
(* so that late packets are dropped.  The mutex is free: Close does not    *)
(* hold it while it waits.                                                 *)
removeConnection(c) ==
  /\ run[c] = "closed"
  /\ run' = [run EXCEPT ![c] = "done"] /\ sessions' = [sessions EXCEPT ![c] = "nil"]
  /\ queuer' = [queuer EXCEPT ![c] = IF @ = "handshake" THEN "failed" ELSE @]
  /\ UNCHANGED <<made, acceptVars, serve, closeVars, sockets>>

(* deleteClosedSessionsAfter has passed.  That the queueing goroutine has  *)
(* ended is a bound of the model, which keeps one of them per connection.  *)
DeleteConnection(c) ==
  /\ sessions[c] = "nil" /\ queuer[c] \in {"failed", "queued"}
  /\ sessions' = [sessions EXCEPT ![c] = "none"]
  /\ UNCHANGED <<made, run, queuer, acceptVars, serve, closeVars, sockets>>

QueueSession_Drop(c) ==         \* Mutation: a session that finds the queue full is dropped
  /\ queuer[c] = "queue"
  /\ sessionQueue' = IF Len(sessionQueue) < QueueSize THEN Append(sessionQueue, <<c, made[c]>>) ELSE sessionQueue
  /\ queuer' = [queuer EXCEPT ![c] = "queued"]
  /\ UNCHANGED <<sessions, made, run, accepted, acceptor, serve, closeVars, sockets>>
QueueSession(c) ==
  /\ queuer[c] = "queue" /\ Len(sessionQueue) < QueueSize
  /\ sessionQueue' = Append(sessionQueue, <<c, made[c]>>)
  /\ queuer' = [queuer EXCEPT ![c] = "queued"]
  /\ UNCHANGED <<sessions, made, run, accepted, acceptor, serve, closeVars, sockets>>

(* Accept, called in a loop until it fails.                                *)
AcceptSession ==
  /\ acceptor = "waiting" /\ sessionQueue # <<>>
  /\ accepted' = accepted \cup {Head(sessionQueue)} /\ sessionQueue' = Tail(sessionQueue)
  /\ UNCHANGED <<connVars, acceptor, serve, closeVars, sockets>>

AcceptError ==
  /\ acceptor = "waiting" /\ serve = "ended"
  /\ acceptor' = "failed"
  /\ UNCHANGED <<connVars, sessionQueue, accepted, serve, closeVars, sockets>>

-----------------------------------------------------------------------------
(* Close visits the sessions in the map, closes each and waits for its     *)
(* end, without the mutex.  The iteration skips what has been removed, and *)
(* may or may not see what is added.  closer[k] is "idle", "visit",        *)
(* "wait", with the session it waits for, "closed" or "returned".          *)
StartClose(k) ==
  /\ closer' = [closer EXCEPT ![k] = <<"visit", Nobody>>]
  /\ left' = [left EXCEPT ![k] = {<<c, made[c]>> : c \in {d \in Conns : sessions[d] = "open"}}]
  /\ todo' = [todo EXCEPT ![k] = left'[k]]

(* The application makes its calls one after the other.                    *)
CloseListener(k) ==
  /\ k > 1 => closer[k - 1][1] = "returned"
  /\ closer[k] = <<"idle", Nobody>> /\ StartClose(k)
  /\ UNCHANGED <<connVars, acceptVars, serve, closeConns, sockets>>

(* serve has read the error of a socket: it closes errorChan and calls     *)
(* Close.                                                                  *)
ServeError ==
  /\ serve = "loop" /\ readFailed
  /\ serve' = "ended" /\ StartClose(Serve)
  /\ UNCHANGED <<connVars, acceptVars, closeConns, sockets>>

VisitSession(k) ==
  /\ closer[k][1] = "visit"
  /\ \E c \in Conns :
       /\ sessions[c] = "open"
       /\ closer' = [closer EXCEPT ![k] = <<"wait", <<c, made[c]>>>>]
       /\ left' = [left EXCEPT ![k] = @ \ {<<c, made[c]>>}]
       /\ run' = [run EXCEPT ![c] = IF @ = "running" THEN "closed" ELSE @]
  /\ UNCHANGED <<sessions, made, queuer, acceptVars, serve, todo, closeConns, sockets>>

SessionClosed_Next(k) ==        \* Mutation: it does not wait
  /\ closer[k][1] = "wait"
  /\ closer' = [closer EXCEPT ![k] = <<"visit", Nobody>>]
  /\ UNCHANGED <<connVars, acceptVars, serve, todo, left, closeConns, sockets>>
SessionClosed(k) ==
  /\ closer[k][1] = "wait" /\ Over(closer[k][2])
  /\ closer' = [closer EXCEPT ![k] = <<"visit", Nobody>>]
  /\ UNCHANGED <<connVars, acceptVars, serve, todo, left, closeConns, sockets>>

AllVisited(k) ==
  /\ closer[k][1] = "visit" /\ \A s \in left[k] : sessions[s[1]] # "open" \/ Over(s)
  /\ closeConns = 0
  /\ closeConns' = 1 /\ closer' = [closer EXCEPT ![k] = <<"closed", Nobody>>]
  /\ UNCHANGED <<connVars, acceptVars, serve, todo, left, sockets>>

CloseReturn(k) ==
  /\ closer[k][1] = "closed" /\ pconnsClosed
  /\ closer' = [closer EXCEPT ![k] = <<"returned", Nobody>>]
  /\ UNCHANGED <<connVars, acceptVars, serve, todo, left, closeConns, sockets>>

(* The pconn manager takes one token, closes the sockets and ends.         *)
closePconns_Keep ==             \* Mutation: the token stays in the channel
  /\ ~pconnsClosed /\ closeConns = 1 /\ pconnsClosed' = TRUE
  /\ UNCHANGED <<connVars, acceptVars, serve, closeVars, readFailed>>
closePconns ==
  /\ ~pconnsClosed /\ closeConns = 1
  /\ closeConns' = 0 /\ pconnsClosed' = TRUE
  /\ UNCHANGED <<connVars, acceptVars, serve, closer, todo, left, readFailed>>

(* Reading from the socket fails: it has been closed, or has an error of   *)
(* its own.                                                                *)
ReadFails ==
  /\ ~readFailed /\ readFailed' = TRUE
  /\ UNCHANGED <<connVars, acceptVars, serve, closeVars, pconnsClosed>>

-----------------------------------------------------------------------------
ListenerInit ==
  /\ sessions = [c \in Conns |-> "none"] /\ made = [c \in Conns |-> 0]
  /\ run = [c \in Conns |-> "new"] /\ queuer = [c \in Conns |-> "none"]
  /\ sessionQueue = <<>> /\ accepted = {} /\ acceptor = "waiting" /\ serve = "loop"
  /\ closer = [k \in Calls |-> <<"idle", Nobody>>]
  /\ todo = [k \in Calls |-> {}] /\ left = [k \in Calls |-> {}]
  /\ closeConns = 0 /\ pconnsClosed = FALSE /\ readFailed = FALSE

Goroutines ==
  \/ \E c \in Conns : removeConnection(c) \/ QueueSession(c)
  \/ AcceptSession \/ AcceptError \/ ServeError
  \/ \E k \in Calls : VisitSession(k) \/ SessionClosed(k) \/ AllVisited(k) \/ CloseReturn(k)
  \/ closePconns \/ (pconnsClosed /\ ReadFails)

ListenerNext ==
  \/ Goroutines
  \/ \E c \in Conns : handlePacket(c) \/ HandshakeEvent(c) \/ SessionCloses(c) \/ DeleteConnection(c)
  \/ \E k \in Calls \ {Serve} : CloseListener(k)
  \/ ReadFails

ListenerSpec == ListenerInit /\ [][ListenerNext]_listenerVars

(* Every goroutine that can run does; each of these steps happens finitely *)
(* often, so it is enough that some of them happens when one can.  That a  *)
(* closed session ends is what the module Client says of the run loop.     *)
FairListenerSpec == ListenerSpec /\ WF_listenerVars(Goroutines)

-----------------------------------------------------------------------------
(* When a call of Close returns, every session that was open when it was   *)
(* made has ended, whichever call or packet ended it and whatever was      *)
(* added to or removed from the map in between.                            *)
ClosedMeansDone ==
  \A k \in Calls : closer[k][1] = "returned" =>
    \A s \in todo[k] : Over(s)

(* Every call of Close returns, the one serve makes included, until there  *)
(* have been three: then one finds in closeConns the token of another that *)
(* nobody will take.  After a call of Close, a call of Accept fails.       *)
CloseCallsReturn ==
  /\ []<>(\/ \A k \in Calls : closer[k][1] \in {"idle", "returned"}
          \/ /\ \A k \in Calls : closer[k][1] # "idle"
             /\ Cardinality({k \in Calls : closer[k][1] = "returned"}) = 2)
  /\ []<>(acceptor = "failed" \/ \A k \in Calls : closer[k][1] = "idle")

(* A session whose handshake has come to forward-secure keys is returned   *)
(* by Accept, however full the queue was, unless the listener fails first. *)
EverySessionAccepted == []<>((\A c \in Conns : queuer[c] \in {"queue", "queued"} => <<c, made[c]>> \in accepted) \/ acceptor = "failed")

=============================================================================
