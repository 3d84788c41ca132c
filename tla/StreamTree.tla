---------------------------- MODULE StreamTree ----------------------------
(***************************************************************************)
(* The dependency tree of the streams of a session (stream_tree.go) and    *)
(* the order it gives the scheduler (sortStreamPriorityOrder).  The tree   *)
(* is one record of functions over node ids, and the operations map a tree *)
(* to a tree, so that a call inside a call reads like the code.  Node 0 is *)
(* the root, which is not in nodeMap.  A tree on which the code would      *)
(* index beyond the end of a list is marked "crashed".  The weights, their *)
(* sum and the number of open streams are left out: nothing reads them     *)
(* but the log.                                                            *)
(***************************************************************************)
EXTENDS Integers, Sequences, SequencesExt, FiniteSetsExt

CONSTANTS DataStreams,          \* ids of the streams of requests
          Dependencies,         \* ids a client names as parents
          Exclusive,            \* values of the exclusive flag a client uses
          MaxMoves              \* bound on PRIORITY frames and exclusive requests

ASSUME StreamTreeAssumption ==
  /\ DataStreams \subseteq Nat \ {0, 1, 3}
  /\ Dependencies \subseteq Nat /\ Exclusive \subseteq BOOLEAN
  /\ MaxMoves \in Nat

VARIABLES
  tree,
  checksize,                    \* streams whose size the scheduler knows
  sentFin,                      \* finishedWriteAndSentFin()
  offered,                      \* the streams the last schedule() returned
  moves                         \* PRIORITY frames and exclusive requests handled

treeVars == <<tree, checksize, sentFin, offered, moves>>

Root == 0
Crypto == 1
Header == 3
Ids == {Root, Crypto, Header} \cup DataStreams
NoParent == -1
----------------------------------------------------------------------------
(* Nodes *)

\* newStreamTree: the root alone.
newStreamTree ==
  [nodeMap |-> {}, stream |-> {}, visited |-> {}, crashed |-> FALSE,
   parent |-> [i \in Ids |-> IF i = Root THEN NoParent ELSE Root],
   state |-> [i \in Ids |-> "active"],
   children |-> [i \in Ids |-> <<>>],
   activeChildren |-> [i \in Ids |-> 0],
   nextChild |-> [i \in Ids |-> 0]]

Live(t, n) == t.state[n] = "active" \/ t.activeChildren[n] > 0

\* Mutation: a closed node that gets a child is not given back to its parent.
Revives_Never(t, n) == FALSE

\* The first child of a node that is not active puts the node back into the
\* list of its own parent.
Revives(t, n) ==
  t.parent[n] # NoParent /\ t.state[n] # "active" /\ t.activeChildren[n] = 1

RECURSIVE addWeight(_, _, _)
addWeight(t, n, child) ==
  LET u == [t EXCEPT !.activeChildren[n] = @ + 1,
                     !.children[n] = Append(@, child)]
  IN IF Revives(u, n) THEN addWeight(u, t.parent[n], n) ELSE u

WrapNextChild(next, n) == IF n = 0 THEN 0 ELSE next % n

\* A child that is not in the list is taken for the first one.
RECURSIVE removeWeight(_, _, _)
removeWeight(t, n, child) ==
  LET index == IF Contains(t.children[n], child)
               THEN CHOOSE i \in 1..Len(t.children[n]) :
                      /\ t.children[n][i] = child
                      /\ \A j \in 1..(i - 1) : t.children[n][j] # child
               ELSE 1
      left == Len(t.children[n]) - 1
      u == [t EXCEPT !.children[n] = RemoveAt(@, index),
                     !.nextChild[n] = WrapNextChild(@, left),
                     !.activeChildren[n] = @ - 1]
  IN IF t.children[n] = <<>> THEN [t EXCEPT !.crashed = TRUE]
     ELSE IF t.parent[n] # NoParent /\ u.activeChildren[n] = 0
          THEN removeWeight(u, t.parent[n], n) ELSE u

deactivateNode(t, n) ==
  LET u == [t EXCEPT !.state[n] = "closed", !.stream = @ \ {n}]
  IN IF t.activeChildren[n] = 0 THEN removeWeight(u, t.parent[n], n) ELSE u

addNode(t, id) ==
  [addWeight(t, Root, id) EXCEPT !.nodeMap = @ \cup {id}, !.stream = @ \cup {id}]
----------------------------------------------------------------------------
(* maybeSetParent *)

RECURSIVE Ancestors(_, _)
Ancestors(t, n) == IF n = Root THEN {} ELSE {t.parent[n]} \cup Ancestors(t, t.parent[n])

\* A stream below the child becomes its parent: it is first moved to the
\* child's parent.
MoveDependant(t, child, newParent) ==
  LET old == t.parent[child]
      moved == IF Live(t, newParent)
               THEN addWeight(removeWeight(t, t.parent[newParent], newParent), old, newParent)
               ELSE t
  IN IF child \in Ancestors(t, newParent)
     THEN [moved EXCEPT !.parent[newParent] = old] ELSE t

\* The loop over the children of the new parent, at position i of n of the array
\* below the slice: removeWeight moves the elements of that array, so the
\* loop reads the moved ones.
RECURSIVE AdoptChildren(_, _, _, _, _)
AdoptChildren(t, array, child, newParent, i) ==
  IF i > Len(array) \/ t.crashed THEN t
  ELSE LET c == array[i]
           u == IF Live(t, c) THEN removeWeight(addWeight(t, child, c), newParent, c) ELSE t
           left == u.children[newParent]
           \* what the array holds after the removal: the shortened list, and
           \* behind it what was there before
           rest == left \o SubSeq(array, Len(left) + 1, Len(array))
       IN AdoptChildren([u EXCEPT !.parent[c] = child], rest, child, newParent, i + 1)

maybeSetParent(t, child, dependency, exclusive) ==
  LET parentID == IF dependency = Header THEN Root ELSE dependency
      moved == MoveDependant(t, child, parentID)
      removed == [IF Live(moved, child) THEN removeWeight(moved, moved.parent[child], child) ELSE moved
                  EXCEPT !.parent[child] = NoParent]
      adopted == IF exclusive
                 THEN AdoptChildren(removed, removed.children[parentID], child, parentID, 1)
                 ELSE removed
      placed == [adopted EXCEPT !.parent[child] = parentID]
  IN IF \/ child = dependency \/ child \in {Crypto, Header} \/ dependency = Crypto
        \/ child \notin t.nodeMap
        \/ ~exclusive /\ t.parent[child] = parentID
        \/ parentID \notin t.nodeMap
     THEN t
     ELSE IF Live(placed, child) THEN addWeight(placed, parentID, child) ELSE placed
----------------------------------------------------------------------------
(* Scheduling *)

\* Mutation: children are visited while their parent still has data to send.
Descends_Always(t, n) == TRUE

\* After the stream of a node was found to be scheduled, its children are
\* looked at if it is closed, or has nothing to do with them.
Descends(t, n) == n \notin t.stream \/ n \in sentFin \cup {Crypto, Header}

\* The children are read one after the other at nextChild, which every child
\* moves on; a list that becomes shorter ends the loop earlier.
RECURSIVE traverse(_, _), TraverseChildren(_, _, _)
TraverseChildren(r, n, i) ==
  IF i >= Len(r.t.children[n]) THEN r
  ELSE LET sub == traverse(r.t, r.t.children[n][r.t.nextChild[n] + 1])
       IN TraverseChildren([t |-> sub.t, strm |-> r.strm \o sub.strm], n, i + 1)

traverse(t, n) ==
  LET u == IF n \in t.stream \cap sentFin THEN deactivateNode(t, n) ELSE t
      v == IF n \in u.stream \cap checksize THEN [u EXCEPT !.visited = @ \cup {n}] ELSE u
      r == IF n \notin v.visited /\ n \in v.stream
           THEN [t |-> v, strm |-> IF v.state[n] = "active" THEN <<n>> ELSE <<>>]
           ELSE IF v.activeChildren[n] > 0 /\ Descends(v, n)
                THEN TraverseChildren([t |-> v, strm |-> <<>>], n, 0)
                ELSE [t |-> v, strm |-> <<>>]
      p == r.t.parent[n]
  IN IF n = Root \/ r.t.children[p] = <<>> THEN r
     ELSE [r EXCEPT !.t.nextChild[p] = (@ + 1) % Len(r.t.children[p])]

\* printTree visits every node below a node with children once, and leaves
\* nextChild where it was: len steps modulo len.
----------------------------------------------------------------------------
(* Steps *)

InitTree ==
  /\ tree = addNode(addNode(newStreamTree, Crypto), Header)
  /\ checksize = {} /\ sentFin = {} /\ offered = {} /\ moves = 0

\* A request: putStream, then the parent, on a server by SetStreamPriority in
\* GetOrOpenStreamPrioritySize, on a client in openStreamPrioritySizeImpl.
OpenStream(id, dependency, exclusive) ==
  /\ id \notin tree.nodeMap
  /\ tree' = maybeSetParent(addNode(tree, id), id, dependency, exclusive)
  /\ exclusive => moves < MaxMoves
  /\ moves' = IF exclusive THEN moves + 1 ELSE moves
  /\ UNCHANGED <<checksize, sentFin, offered>>

\* SetStreamPriority for a stream that is open: a PRIORITY frame, which does not
\* pass the exclusive flag on, or the request of a stream that a higher id or its
\* own data has opened before.
SetStreamPriority(id, dependency, exclusive) ==
  /\ id \in tree.nodeMap
  /\ moves < MaxMoves
  /\ tree' = maybeSetParent(tree, id, dependency, exclusive)
  /\ moves' = moves + 1
  /\ UNCHANGED <<checksize, sentFin, offered>>

\* sortStreamPriorityOrder at the start of every sendPacket.
Schedule ==
  LET r == traverse(tree, Root)
  IN /\ tree' = r.t
     /\ offered' = ToSet(r.strm)
     /\ UNCHANGED <<checksize, sentFin, moves>>

\* The scheduler gives an offered stream, which has data, its paths.
AssignPaths(id) ==
  /\ id \in offered \cap DataStreams
  /\ id \notin checksize
  /\ checksize' = checksize \cup {id}
  /\ UNCHANGED <<tree, sentFin, offered, moves>>

\* The last frame of an assigned stream is packed.
FinishWriting(id) ==
  /\ id \in checksize \ sentFin
  /\ sentFin' = sentFin \cup {id}
  /\ UNCHANGED <<tree, checksize, offered, moves>>

NextTree ==
  \/ \E id \in DataStreams, d \in Dependencies, e \in Exclusive : OpenStream(id, d, e)
  \/ \E id \in DataStreams, d \in Dependencies, e \in Exclusive : SetStreamPriority(id, d, e)
  \/ Schedule
  \/ \E id \in DataStreams : AssignPaths(id)
  \/ \E id \in DataStreams : FinishWriting(id)

\* ENABLED <<Schedule>>_treeVars, written out.
ScheduleChanges ==
  LET r == traverse(tree, Root) IN r.t # tree \/ ToSet(r.strm) # offered

\* The session schedules again and again (WF_treeVars(Schedule), written out), and
\* a stream with paths is sent.
SpecTree ==
  /\ InitTree /\ [][NextTree]_treeVars
  /\ []<>~ScheduleChanges \/ []<><<Schedule>>_treeVars
  /\ \A id \in DataStreams : WF_treeVars(AssignPaths(id)) /\ WF_treeVars(FinishWriting(id))
----------------------------------------------------------------------------
(* Properties *)

\* "schedules stream only after its parent finished" (stream_tree_test.go:600): when
\* a stream is offered, every stream above it has sent its FIN, also
\* when streams were moved in between.
OnlyAfterParent ==
  [][\A id \in offered' \ offered : Ancestors(tree', id) \ {Root} \subseteq sentFin]_treeVars

\* No stream is forgotten by the tree while every stream keeps its first
\* parent: one whose dependencies are done is offered or has been scheduled,
\* whatever was opened and closed meanwhile (removeWeight, nextChild).
EveryStreamOffered ==
  \A id \in DataStreams :
    (id \in tree.nodeMap /\ Ancestors(tree, id) \ {Root} \subseteq sentFin)
      ~> (id \in offered \cup checksize \/ moves > 0)

=============================================================================
