---------------------------- MODULE StreamsMap ----------------------------
(***************************************************************************)
(* The streams of a session (streams_map.go): the session opens streams    *)
(* for the frames of the peer and collects the finished ones; application  *)
(* goroutines open, accept and look up streams, and wait on the two        *)
(* condition variables of the map.  Everything happens under the mutex of  *)
(* the map, so a step is an operation, or the part of one between two      *)
(* waits.  Ids of the client are odd, those of the server even.            *)
(***************************************************************************)
EXTENDS Integers, Bags, FiniteSetsExt

CONSTANTS Perspectives,         \* whose map it may be: "client", "server"
          MaxIncomingStreams,   \* GetMaxIncomingStreams()
          MaxOutgoingStreams,   \* GetMaxOutgoingStreams()
          MaxStreamID,          \* bound on the ids in use
          Openers, Accepters    \* goroutines in OpenStreamSync and AcceptStream

ASSUME StreamsMapAssumption ==
  /\ Perspectives \subseteq {"client", "server"}
  /\ MaxIncomingStreams \in Nat \ {0} /\ MaxOutgoingStreams \in Nat
  /\ MaxStreamID \in Nat \ {0}

VARIABLES
  perspective,
  streams,                      \* the keys of the map
  openStreams,                  \* how often the slice lists an id; its order only fixes turns
  nextStream, highestStreamOpenedByPeer, nextStreamToAccept,
  numOutgoingStreams, numIncomingStreams,
  closeErr,                     \* TRUE once CloseWithError ran
  finished,                     \* the streams with stream.finished()
  removed,                      \* ids of the streams that were collected
  closing,                      \* an error is on its way to the session's closeChan
  opener, accepter              \* "out", "waiting" or "woken", per goroutine

counters == <<numOutgoingStreams, numIncomingStreams>>
goroutines == <<opener, accepter>>
sessionVars == <<perspective, closeErr, closing>>
mapVars == <<streams, openStreams, nextStream, highestStreamOpenedByPeer, counters>>
vars == <<sessionVars, mapVars, nextStreamToAccept, finished, removed, goroutines>>

StreamIDs == 1..MaxStreamID
Odd(id) == id % 2 = 1
OpenedByPeer(id) == Odd(id) <=> perspective = "server"

\* newStreamsMapTree, then the set-up of the session: the crypto stream, 1, is
\* opened on both sides and accepted by the server.
Init ==
  /\ perspective \in Perspectives
  /\ streams = {1} /\ openStreams = SetToBag({1})
  /\ nextStream = IF perspective = "client" THEN 3 ELSE 2
  /\ highestStreamOpenedByPeer = IF perspective = "client" THEN 0 ELSE 1
  /\ nextStreamToAccept = IF perspective = "client" THEN 2 ELSE 3
  /\ numOutgoingStreams = 0 /\ numIncomingStreams = 1
  /\ closeErr = FALSE /\ closing = FALSE
  /\ finished = {} /\ removed = {}
  /\ opener = [g \in Openers |-> "out"]
  /\ accepter = [g \in Accepters |-> "out"]

Broadcast(waiters) ==
  [g \in DOMAIN waiters |-> IF waiters[g] = "waiting" THEN "woken" ELSE waiters[g]]

\* Signal, n times.
Signalled(waiters, n) ==
  LET waiting == {g \in DOMAIN waiters : waiters[g] = "waiting"}
  IN {[g \in DOMAIN waiters |-> IF g \in woken THEN "woken" ELSE waiters[g]] :
        woken \in kSubset(Min({n, Cardinality(waiting)}), waiting)}

\* putStream for each of the ids.
PutStreams(ids) ==
  /\ streams' = streams \cup ids
  /\ openStreams' = openStreams (+) SetToBag(ids)

\* The counter that is raised depends on the perspective only, so that odd ids
\* count as incoming and even ones as outgoing on both sides.
CountOpened(n, byPeer) ==
  IF byPeer <=> perspective = "server"
  THEN numIncomingStreams' = numIncomingStreams + n /\ UNCHANGED numOutgoingStreams
  ELSE numOutgoingStreams' = numOutgoingStreams + n /\ UNCHANGED numIncomingStreams
----------------------------------------------------------------------------
(* GetOrOpenStream and its variants with a priority: called by the session
   for the frames it receives, and by an application for an id it was told. *)

\* Mutation: every stream that is missing is opened.
Missing_Absent(id) == {sid \in StreamIDs \ streams : OpenedByPeer(sid) /\ sid <= id}

\* The streams to open up to id, in the order of the loop.
Missing(id) == {sid \in StreamIDs : OpenedByPeer(sid) /\ highestStreamOpenedByPeer < sid /\ sid <= id}

\* Mutation: the limit is checked once for all of them.
Room_Once(ids) == IF numIncomingStreams >= MaxIncomingStreams THEN 0 ELSE Cardinality(ids)

\* How many of them openRemoteStream opens before it fails.
Room(ids) ==
  IF numIncomingStreams >= MaxIncomingStreams THEN 0
  ELSE IF perspective = "server"
       THEN Min({Cardinality(ids), MaxIncomingStreams - numIncomingStreams})
       ELSE Cardinality(ids)

Openable(ids) == {sid \in ids : Cardinality({x \in ids : x < sid}) < Room(ids)}

\* The stream does not exist any more, or is the next one to be opened here.
AlreadyClosed(id) ==
  IF OpenedByPeer(id) THEN id <= highestStreamOpenedByPeer ELSE id <= nextStream

\* The session is closed with the error the caller gets: by the session for a
\* frame, by h2quic for a request.
OpenFails ==
  /\ closing' = TRUE
  /\ UNCHANGED <<perspective, closeErr>>

InvalidStreamID(id) ==
  /\ id \notin streams /\ ~AlreadyClosed(id)
  /\ ~OpenedByPeer(id)
  /\ OpenFails
  /\ UNCHANGED <<mapVars, goroutines>>

OpenRemoteStreams(id) ==
  /\ id \notin streams /\ ~AlreadyClosed(id)
  /\ OpenedByPeer(id)
  /\ LET opened == Openable(Missing(id))
     IN /\ PutStreams(opened)
        /\ CountOpened(Cardinality(opened), TRUE)
        /\ highestStreamOpenedByPeer' = Max({highestStreamOpenedByPeer} \cup opened)
        /\ IF opened = Missing(id)
           THEN accepter' = Broadcast(accepter) /\ UNCHANGED sessionVars
           ELSE OpenFails /\ UNCHANGED accepter
  /\ UNCHANGED <<nextStream, opener>>

GetOrOpenStream(id) ==
  /\ InvalidStreamID(id) \/ OpenRemoteStreams(id)
  /\ UNCHANGED <<nextStreamToAccept, finished, removed>>
----------------------------------------------------------------------------
(* Streams opened here. *)

CanOpen == numOutgoingStreams < MaxOutgoingStreams

\* openStreamImpl, if it does not fail with TooManyOpenStreams.
OpenStreamImpl ==
  /\ CanOpen
  /\ nextStream <= MaxStreamID
  /\ PutStreams({nextStream})
  /\ CountOpened(1, FALSE)
  /\ nextStream' = nextStream + 2
  /\ UNCHANGED highestStreamOpenedByPeer

\* A call that fails changes nothing.
OpenStream ==
  /\ ~closeErr
  /\ OpenStreamImpl
  /\ UNCHANGED <<sessionVars, nextStreamToAccept, finished, removed, goroutines>>

\* One round of the loop of OpenStreamSync: it returns the error or a stream, or
\* waits for openStreamOrErrCond.  The variants with a priority also place the
\* stream in the tree, which is not part of this module; when that fails the
\* caller gets an error and the stream stays in the map, the second case here.
OpenStreamSync(g) ==
  /\ opener[g] # "waiting"
  /\ \/ closeErr /\ opener' = [opener EXCEPT ![g] = "out"] /\ UNCHANGED mapVars
     \/ ~closeErr /\ OpenStreamImpl /\ opener' = [opener EXCEPT ![g] = "out"]
     \/ ~closeErr /\ ~CanOpen /\ opener' = [opener EXCEPT ![g] = "waiting"] /\ UNCHANGED mapVars
  /\ UNCHANGED <<sessionVars, nextStreamToAccept, finished, removed, accepter>>

\* One round of the loop of AcceptStream.
AcceptStream(g) ==
  /\ accepter[g] # "waiting"
  /\ IF closeErr
     THEN accepter' = [accepter EXCEPT ![g] = "out"] /\ UNCHANGED nextStreamToAccept
     ELSE IF nextStreamToAccept \in streams
     THEN /\ accepter' = [accepter EXCEPT ![g] = "out"]
          /\ nextStreamToAccept' = nextStreamToAccept + 2
     ELSE accepter' = [accepter EXCEPT ![g] = "waiting"] /\ UNCHANGED nextStreamToAccept
  /\ UNCHANGED <<sessionVars, mapVars, finished, removed, opener>>
----------------------------------------------------------------------------
(* The session. *)

\* A stream has been read and written to its end, or was reset or cancelled.
FinishStream(id) ==
  /\ id \in streams \ (finished \cup {1})
  /\ finished' = finished \cup {id}
  /\ UNCHANGED <<sessionVars, mapVars, nextStreamToAccept, removed, goroutines>>

CountRemoved(ids) ==
  /\ numOutgoingStreams' = numOutgoingStreams - Cardinality({id \in ids : ~Odd(id)})
  /\ numIncomingStreams' = numIncomingStreams - Cardinality({id \in ids : Odd(id)})

\* Mutation: RemoveStream wakes nobody.
WakeOpeners_None(n) == UNCHANGED opener

WakeOpeners(n) == opener' \in Signalled(opener, n)

\* Mutation: openStreams is left alone.
RemoveStreams_MapOnly(ids) ==
  /\ CountRemoved(ids)
  /\ streams' = streams \ ids
  /\ WakeOpeners(Cardinality(ids))
  /\ UNCHANGED openStreams

\* RemoveStream of each of the ids: the first entry of it leaves the slice.
RemoveStreams(ids) ==
  /\ CountRemoved(ids)
  /\ openStreams' = openStreams (-) SetToBag(ids)
  /\ streams' = streams \ ids
  /\ WakeOpeners(Cardinality(ids))

\* The session runs until CloseWithError.
garbageCollectStreams ==
  /\ ~closeErr
  /\ finished # {}
  /\ RemoveStreams(finished)
  /\ finished' = {}
  /\ removed' = removed \cup finished
  /\ UNCHANGED <<sessionVars, nextStream, highestStreamOpenedByPeer, nextStreamToAccept, accepter>>

\* The application closes the session, or an idle timeout does.
Close ==
  /\ ~closing
  /\ closing' = TRUE
  /\ UNCHANGED <<perspective, closeErr, mapVars, nextStreamToAccept,
                 finished, removed, goroutines>>

CloseWithError ==
  /\ closing /\ ~closeErr
  /\ closeErr' = TRUE
  /\ accepter' = Broadcast(accepter)
  /\ opener' = Broadcast(opener)
  /\ UNCHANGED <<perspective, closing, mapVars, nextStreamToAccept,
                 finished, removed>>
----------------------------------------------------------------------------
Next ==
  \/ \E id \in StreamIDs : GetOrOpenStream(id) \/ FinishStream(id)
  \/ OpenStream
  \/ \E g \in Openers : OpenStreamSync(g)
  \/ \E g \in Accepters : AcceptStream(g)
  \/ garbageCollectStreams
  \/ Close
  \/ CloseWithError

\* A goroutine that was woken runs; the session collects streams in every round
\* of its loop, in which it also sends, and ends once it has an error.
Spec ==
  /\ Init /\ [][Next]_vars
  /\ \A g \in Openers : WF_vars(opener[g] = "woken" /\ OpenStreamSync(g))
  /\ \A g \in Accepters : WF_vars(accepter[g] = "woken" /\ AcceptStream(g))
  /\ WF_vars(garbageCollectStreams) /\ WF_vars(CloseWithError)
----------------------------------------------------------------------------
\* The two counters, which are raised according to who opens a stream and
\* lowered according to its id, tell how many streams of each kind are open.
CountersExact ==
  /\ numIncomingStreams = Cardinality({id \in streams : Odd(id)})
  /\ numOutgoingStreams = Cardinality({id \in streams : ~Odd(id)})

\* openStreams lists the keys of the map once each: the loops over it index it
\* with the length of the map, and CloseWithError dereferences every entry.  And
\* the counters count them.
OpenStreamsExact ==
  /\ openStreams = SetToBag(streams)
  /\ CountersExact

\* A stream that was collected is never opened again, whatever frames for it are
\* still to come (GetOrOpenStream).
NeverReopened == removed \cap streams = {}

\* A server keeps both limits (openStreamImpl, openRemoteStream).
LimitsKept == perspective = "server" => /\ numIncomingStreams <= MaxIncomingStreams
                                        /\ numOutgoingStreams <= MaxOutgoingStreams

\* Nobody sleeps through what they wait for.  OpenStreamSync on a server goes on
\* when there is a free slot or the session ends: RemoveStream wakes one caller per
\* stream it frees, CloseWithError all of them.  AcceptStream goes on when the
\* stream it waits for is there, or the session ends.  (nextStream <= MaxStreamID
\* is the bound of the model.)
BlockedCallsReturn ==
  LET due == closeErr \/ (CanOpen /\ nextStream <= MaxStreamID)
      acceptDue == closeErr \/ nextStreamToAccept \in streams
  IN /\ perspective = "server" =>
          \A g \in Openers : (opener[g] = "waiting" /\ due) ~> (opener[g] # "waiting" \/ ~due)
     /\ \A g \in Accepters : (accepter[g] = "waiting" /\ acceptDue) ~> accepter[g] # "waiting"
=============================================================================
