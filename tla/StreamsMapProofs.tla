------------------------- MODULE StreamsMapProofs -------------------------
(***************************************************************************)
(* Proofs about StreamsMap, for any limits, ids and goroutines: an id is   *)
(* used once, the slice of open streams and the counters agree with the    *)
(* map, and a server keeps its limits.                                     *)
(***************************************************************************)
EXTENDS StreamsMap, FiniteSets, FiniteSetsExt, FiniteSetTheorems, WellFoundedInduction, TLAPS

\* The types of the map.
TypeOK ==
  /\ perspective \in {"client", "server"}
  /\ streams \subseteq StreamIDs /\ removed \subseteq StreamIDs
  /\ finished \subseteq streams
  /\ nextStream \in Nat \ {0} /\ highestStreamOpenedByPeer \in 0..MaxStreamID
  /\ numOutgoingStreams \in Nat /\ numIncomingStreams \in Nat

\* The streams there are or have been lie below the two marks of the map, the
\* one of the peer's and the one of the own ids, which is an own id itself.
BelowMarks ==
  /\ ~OpenedByPeer(nextStream)
  /\ \A id \in streams \cup removed :
       IF OpenedByPeer(id) THEN id <= highestStreamOpenedByPeer ELSE id < nextStream

\* The slice has one entry for each key of the map.
EntriesExact == openStreams = SetToBag(streams)

MInv == TypeOK /\ BelowMarks /\ NeverReopened /\ CountersExact /\ EntriesExact

----------------------------------------------------------------------------
(* Sets of ids *)

\* Ids that are new, put into a bag that has each id once.
LEMMA BagAdds ==
  ASSUME NEW A, NEW B, A \cap B = {}
  PROVE  SetToBag(A) (+) SetToBag(B) = SetToBag(A \cup B)
BY DEF SetToBag, (+)

\* Ids of the bag, taken out of it.
LEMMA BagFalls ==
  ASSUME NEW A, NEW B, B \subseteq A
  PROVE  SetToBag(A) (-) SetToBag(B) = SetToBag(A \ B)
BY DEF SetToBag, (-)

\* A set of numbers that is not empty has a least member.
LEMMA LeastExists ==
    ASSUME NEW S, S \subseteq Nat, S # {}
    PROVE  \E x \in S : \A y \in S : x <= y
<1>1. PICK x \in S : \A y \in S : ~(<<y, x>> \in OpToRel(<, Nat))
  BY WFMin, NatLessThanWellFounded, Zenon
<1>2. \A y \in S : ~(y < x)
  BY <1>1, Zenon DEF OpToRel
<1> QED BY <1>2

\* Max is the greatest member of a bounded set of naturals.
LEMMA MaxOfNaturals ==
    ASSUME NEW S, NEW n \in Nat, S \subseteq 0 .. n, S # {}
    PROVE  Max(S) \in S /\ \A y \in S : Max(S) >= y
<1> DEFINE T == {n - x : x \in S}
<1>1. T \subseteq Nat /\ T # {}
  <2>1. \A x \in S : n - x \in Nat
    OBVIOUS
  <2>2. PICK x \in S : TRUE
    BY Zenon
  <2>3. n - x \in T
    BY <2>2
  <2> QED BY <2>1, <2>3
<1>2. PICK t \in T : \A y \in T : t <= y
  BY <1>1, LeastExists, Zenon
<1>3. PICK x \in S : t = n - x
  BY <1>2
<1>4. \A y \in S : x >= y
  <2> TAKE y \in S
  <2>1. n - x <= n - y
    BY <1>2, <1>3
  <2> QED BY <2>1
<1> QED BY <1>4, Zenon DEF Max

\* Of the numbers of a set, at most k have fewer than k below them: openRemoteStream
\* called for one after the other opens at most as many as there is room for.
LEMMA FirstFew ==
  ASSUME NEW n \in Nat, NEW ids \in SUBSET (1..n), NEW k \in Nat
  PROVE  Cardinality({s \in ids : Cardinality({x \in ids : x < s}) < k}) <= k
<1> DEFINE Few == {s \in ids : Cardinality({x \in ids : x < s}) < k}
<1> SUFFICES Cardinality(Few) <= k
  OBVIOUS
<1>1. IsFiniteSet(ids)
  <2>1. IsFiniteSet(1..n)
    BY FS_Interval
  <2> QED BY <2>1, FS_Subset, Zenon
<1>2. Few \in SUBSET ids
  OBVIOUS
<1>3. IsFiniteSet(Few) /\ Cardinality(Few) \in Nat
  BY <1>1, <1>2, FS_Subset, FS_CardinalityType, Zenon
<1>4. CASE Few = {}
  <2>1. Cardinality(Few) = 0
    BY <1>4, FS_EmptySet, Zenon
  <2> QED BY <2>1
<1>5. CASE Few # {}
  <2>1. Few \subseteq 0..n
    <3>1. Few \subseteq 1..n
      BY <1>2, Zenon
    <3> HIDE DEF Few
    <3> QED BY <3>1
  <2> DEFINE m == Max(Few)
  <2>2. m \in Few /\ \A y \in Few : m >= y
    <3> HIDE DEF Few
    <3> QED BY <2>1, <1>5, MaxOfNaturals, Zenon
  <2> DEFINE Below == {x \in ids : x < m}
  <2>3. Cardinality(Below) < k
    BY <2>2
  <2> HIDE DEF m
  <2>4. Below \in SUBSET ids
    OBVIOUS
  <2>5. IsFiniteSet(Below) /\ Cardinality(Below) \in Nat
    BY <1>1, <2>4, FS_Subset, FS_CardinalityType
  <2>6. Few \ {m} \in SUBSET Below
    BY <2>2, <2>1, <1>2
  <2> HIDE DEF Below, Few
  <2>7. Cardinality(Few \ {m}) <= Cardinality(Below)
    BY <2>5, <2>6, FS_Subset
  <2>8. Cardinality(Few \ {m}) = Cardinality(Few) - 1
    BY <1>3, <2>2, FS_RemoveElement, Zenon
  <2> QED BY <1>3, <2>3, <2>5, <2>7, <2>8
<1> QED BY <1>4, <1>5

\* The number of members grows by that of new members.
LEMMA CardinalityAdds ==
  ASSUME NEW S, NEW T, IsFiniteSet(S), IsFiniteSet(T), S \cap T = {}
  PROVE  /\ IsFiniteSet(S \cup T)
         /\ Cardinality(S \cup T) = Cardinality(S) + Cardinality(T)
<1>1. Cardinality(S \cap T) = 0
  BY FS_EmptySet
<1>2. Cardinality(S) \in Nat /\ Cardinality(T) \in Nat
  BY FS_CardinalityType
<1>3. IsFiniteSet(S \cup T) /\ Cardinality(S \cup T) = Cardinality(S) + Cardinality(T) - Cardinality(S \cap T)
  BY FS_Union
<1> QED BY <1>1, <1>2, <1>3

\* And it falls by that of the members that are taken away.
LEMMA CardinalityFalls ==
  ASSUME NEW S, NEW T \in SUBSET S, IsFiniteSet(S)
  PROVE  Cardinality(S \ T) = Cardinality(S) - Cardinality(T) /\ Cardinality(S \ T) \in Nat
<1>1. IsFiniteSet(T) /\ IsFiniteSet(S \ T)
  BY FS_Subset
<1> DEFINE rest == S \ T
<1>2. rest \cup T = S /\ rest \cap T = {}
  OBVIOUS
<1>3. IsFiniteSet(rest)
  BY <1>1
<1> SUFFICES Cardinality(rest) = Cardinality(S) - Cardinality(T) /\ Cardinality(rest) \in Nat
  OBVIOUS
<1> HIDE DEF rest
<1>4. Cardinality(S) = Cardinality(rest) + Cardinality(T)
  BY <1>1, <1>2, <1>3, CardinalityAdds
<1>5. Cardinality(T) \in Nat /\ Cardinality(rest) \in Nat
  BY <1>1, <1>3, FS_CardinalityType
<1> QED BY <1>4, <1>5

\* Sets of ids are finite.
LEMMA IdsFinite ==
  ASSUME NEW S \in SUBSET StreamIDs
  PROVE  IsFiniteSet(S) /\ Cardinality(S) \in Nat
<1>1. IsFiniteSet(StreamIDs)
  BY StreamsMapAssumption, FS_Interval DEF StreamIDs
<1>2. IsFiniteSet(S)
  BY <1>1, FS_Subset
<1> QED BY <1>2, FS_CardinalityType

\* New ids of one kind raise the counter of that kind.
LEMMA CountNew ==
  ASSUME NEW S \in SUBSET StreamIDs, NEW N \in SUBSET StreamIDs, S \cap N = {}, NEW odd \in BOOLEAN,
         \A id \in N : Odd(id) <=> odd
  PROVE  /\ Cardinality({id \in S \cup N : Odd(id)})
              = Cardinality({id \in S : Odd(id)}) + (IF odd THEN Cardinality(N) ELSE 0)
         /\ Cardinality({id \in S \cup N : ~Odd(id)})
              = Cardinality({id \in S : ~Odd(id)}) + (IF odd THEN 0 ELSE Cardinality(N))
<1> DEFINE O == {id \in S : Odd(id)}
           E == {id \in S : ~Odd(id)}
           O2 == {id \in S \cup N : Odd(id)}
           E2 == {id \in S \cup N : ~Odd(id)}
<1> SUFFICES /\ Cardinality(O2) = Cardinality(O) + (IF odd THEN Cardinality(N) ELSE 0)
             /\ Cardinality(E2) = Cardinality(E) + (IF odd THEN 0 ELSE Cardinality(N))
  OBVIOUS
<1>1. IsFiniteSet(O) /\ IsFiniteSet(E) /\ IsFiniteSet(N)
  BY IdsFinite
<1>2. O \cap N = {} /\ E \cap N = {}
  OBVIOUS
<1>3. Cardinality(O) \in Nat /\ Cardinality(E) \in Nat
  BY IdsFinite
<1>4. CASE odd
  <2>1. O2 = O \cup N /\ E2 = E
    BY <1>4
  <2> HIDE DEF O, E, O2, E2
  <2>2. Cardinality(O \cup N) = Cardinality(O) + Cardinality(N)
    BY <1>1, <1>2, CardinalityAdds
  <2> QED BY <1>3, <1>4, <2>1, <2>2
<1>5. CASE ~odd
  <2>1. O2 = O /\ E2 = E \cup N
    BY <1>5
  <2> HIDE DEF O, E, O2, E2
  <2>2. Cardinality(E \cup N) = Cardinality(E) + Cardinality(N)
    BY <1>1, <1>2, CardinalityAdds
  <2> QED BY <1>3, <1>5, <2>1, <2>2
<1> QED BY <1>4, <1>5
----------------------------------------------------------------------------
(* The steps *)

\* What opening an id, or some, does to the invariant: they are new, of one kind, and
\* the marks are moved above them.
LEMMA OpeningKeeps ==
  ASSUME MInv, NEW N \in SUBSET StreamIDs, NEW byPeer \in BOOLEAN,
         \A id \in N : OpenedByPeer(id) <=> byPeer,
         \A id \in N : IF byPeer THEN id > highestStreamOpenedByPeer ELSE id >= nextStream,
         streams' = streams \cup N, openStreams' = openStreams (+) SetToBag(N),
         CountOpened(Cardinality(N), byPeer),
         UNCHANGED <<perspective, removed>>, finished' = finished,
         nextStream' \in Nat \ {0}, highestStreamOpenedByPeer' \in 0..MaxStreamID,
         nextStream' >= nextStream, highestStreamOpenedByPeer' >= highestStreamOpenedByPeer,
         ~OpenedByPeer(nextStream)',
         \A id \in N : IF byPeer THEN id <= highestStreamOpenedByPeer' ELSE id < nextStream'
  PROVE  MInv'
<1> USE DEF MInv
<1>1. N \cap (streams \cup removed) = {}
  <2> SUFFICES ASSUME NEW id \in N, id \in streams \cup removed PROVE FALSE
    OBVIOUS
  <2>1. id \in Nat /\ nextStream \in Nat /\ highestStreamOpenedByPeer \in Nat
    BY StreamsMapAssumption DEF StreamIDs, TypeOK
  <2>2. IF OpenedByPeer(id) THEN id <= highestStreamOpenedByPeer ELSE id < nextStream
    BY DEF BelowMarks
  <2> QED BY <2>1, <2>2
<1>2. \A id : OpenedByPeer(id)' <=> OpenedByPeer(id)
  BY DEF OpenedByPeer
<1>3. TypeOK'
  <2>1. Cardinality(N) \in Nat
    BY IdsFinite
  <2> QED BY <2>1 DEF TypeOK, CountOpened
<1>4. BelowMarks'
  <2>1. ASSUME NEW id \in streams' \cup removed'
        PROVE  IF OpenedByPeer(id)' THEN id <= highestStreamOpenedByPeer' ELSE id < nextStream'
    <3>1. id \in Nat /\ nextStream \in Nat /\ highestStreamOpenedByPeer \in Nat /\ highestStreamOpenedByPeer' \in Nat
      BY StreamsMapAssumption DEF StreamIDs, TypeOK
    <3>2. CASE id \in N
      BY <1>2, <3>2
    <3>3. CASE id \in streams \cup removed
      BY <1>2, <3>1, <3>3 DEF BelowMarks
    <3> QED BY <2>1, <3>2, <3>3
  <2> QED BY <2>1 DEF BelowMarks
<1>5. NeverReopened'
  BY <1>1 DEF NeverReopened
<1>6. CountersExact'
  <2> DEFINE odd == byPeer <=> perspective = "server"
  <2>1. \A id \in N : Odd(id) <=> odd
    BY DEF OpenedByPeer, TypeOK
  <2>2. streams \cap N = {} /\ streams \in SUBSET StreamIDs
    BY <1>1 DEF TypeOK
  <2>3. CASE odd
    <3>1. numIncomingStreams' = numIncomingStreams + Cardinality(N) /\ numOutgoingStreams' = numOutgoingStreams
      BY <2>3 DEF CountOpened
    <3>2. Cardinality({id \in streams \cup N : Odd(id)}) = Cardinality({id \in streams : Odd(id)}) + Cardinality(N)
      BY <2>1, <2>2, <2>3, CountNew, Zenon
    <3>3. Cardinality({id \in streams \cup N : ~Odd(id)}) = Cardinality({id \in streams : ~Odd(id)}) + 0
      BY <2>1, <2>2, <2>3, CountNew, Zenon
    <3> QED BY <3>1, <3>2, <3>3 DEF CountersExact, TypeOK
  <2>4. CASE ~odd
    <3>1. numOutgoingStreams' = numOutgoingStreams + Cardinality(N) /\ numIncomingStreams' = numIncomingStreams
      BY <2>4 DEF CountOpened
    <3>2. Cardinality({id \in streams \cup N : ~Odd(id)}) = Cardinality({id \in streams : ~Odd(id)}) + Cardinality(N)
      BY <2>1, <2>2, <2>4, CountNew, Zenon
    <3>3. Cardinality({id \in streams \cup N : Odd(id)}) = Cardinality({id \in streams : Odd(id)}) + 0
      BY <2>1, <2>2, <2>4, CountNew, Zenon
    <3> QED BY <3>1, <3>2, <3>3 DEF CountersExact, TypeOK
  <2> QED BY <2>3, <2>4
<1>7. EntriesExact'
  BY <1>1, BagAdds DEF EntriesExact
<1> QED BY <1>3, <1>4, <1>5, <1>6, <1>7, SMTT(30), Zenon

\* GetOrOpenStream opens streams of the peer above its mark.
LEMMA OpenRemoteKeeps ==
  ASSUME MInv, NEW id \in StreamIDs, OpenRemoteStreams(id), UNCHANGED <<finished, removed>>
  PROVE  MInv'
<1> DEFINE opened == Openable(Missing(id))
           marks == {highestStreamOpenedByPeer} \cup opened
<1>1. opened \in SUBSET StreamIDs
  BY DEF Openable, Missing
<1>2. \A sid \in opened : OpenedByPeer(sid) /\ highestStreamOpenedByPeer < sid
  BY DEF Openable, Missing
<1>3. /\ streams' = streams \cup opened /\ openStreams' = openStreams (+) SetToBag(opened)
      /\ CountOpened(Cardinality(opened), TRUE)
      /\ highestStreamOpenedByPeer' = Max(marks)
      /\ perspective' = perspective /\ nextStream' = nextStream
  BY Zenon DEF OpenRemoteStreams, PutStreams, OpenFails, sessionVars
<1>4. nextStream \in Nat \ {0} /\ ~OpenedByPeer(nextStream)
  BY DEF MInv, TypeOK, BelowMarks
<1>5. marks \subseteq 0..MaxStreamID /\ marks # {} /\ MaxStreamID \in Nat
  BY <1>1, StreamsMapAssumption DEF StreamIDs, MInv, TypeOK
<1> HIDE DEF opened, marks
<1>6. Max(marks) \in marks /\ \A y \in marks : Max(marks) >= y
  BY <1>5, MaxOfNaturals, Zenon
<1>7. /\ highestStreamOpenedByPeer' \in 0..MaxStreamID
      /\ highestStreamOpenedByPeer' >= highestStreamOpenedByPeer
      /\ \A sid \in opened : sid <= highestStreamOpenedByPeer'
  <2>1. highestStreamOpenedByPeer' \in 0..MaxStreamID
    BY <1>3, <1>5, <1>6, Zenon
  <2>2. \A y \in marks : highestStreamOpenedByPeer' >= y /\ y \in 0..MaxStreamID
    BY <1>3, <1>5, <1>6
  <2>3. \A y \in marks : y <= highestStreamOpenedByPeer'
    BY <2>1, <2>2
  <2> QED BY <2>1, <2>2, <2>3 DEF marks
<1>8. ~OpenedByPeer(nextStream)'
  BY <1>3, <1>4 DEF OpenedByPeer
<1>9. \A sid \in opened : sid > highestStreamOpenedByPeer
  BY <1>1, <1>2 DEF MInv, TypeOK, StreamIDs
<1>10. /\ \A sid \in opened : OpenedByPeer(sid) <=> TRUE
       /\ \A sid \in opened : IF TRUE THEN sid > highestStreamOpenedByPeer ELSE sid >= nextStream
       /\ \A sid \in opened : IF TRUE THEN sid <= highestStreamOpenedByPeer' ELSE sid < nextStream'
  BY <1>2, <1>7, <1>9
<1>11. nextStream' \in Nat \ {0} /\ nextStream' >= nextStream
  BY <1>3, <1>4
<1> QED BY <1>1, <1>3, <1>7, <1>8, <1>10, <1>11, OpeningKeeps, Zenon

\* openStreamImpl opens the next id of its own.
LEMMA OpenStreamImplKeeps ==
  ASSUME MInv, OpenStreamImpl, UNCHANGED <<perspective, finished, removed>>
  PROVE  MInv'
<1> DEFINE N == {nextStream}
<1>1. nextStream \in Nat /\ highestStreamOpenedByPeer \in 0..MaxStreamID /\ ~OpenedByPeer(nextStream)
  BY DEF MInv, TypeOK, BelowMarks
<1>2. nextStream # 0
  BY DEF MInv, TypeOK
<1>3. N \in SUBSET StreamIDs
  BY <1>1, <1>2, StreamsMapAssumption DEF OpenStreamImpl, StreamIDs
<1>4. Cardinality(N) = 1
  BY FS_Singleton
<1>5. /\ streams' = streams \cup N /\ openStreams' = openStreams (+) SetToBag(N)
      /\ CountOpened(Cardinality(N), FALSE)
      /\ nextStream' = nextStream + 2 /\ highestStreamOpenedByPeer' = highestStreamOpenedByPeer
  BY <1>4, Zenon DEF OpenStreamImpl, PutStreams
<1>6. ~OpenedByPeer(nextStream)'
  <2>1. Odd(nextStream + 2) <=> Odd(nextStream)
    BY <1>1 DEF Odd
  <2> QED BY <1>1, <1>5, <2>1 DEF OpenedByPeer
<1>7. /\ \A id \in N : OpenedByPeer(id) <=> FALSE
      /\ \A id \in N : IF FALSE THEN id > highestStreamOpenedByPeer ELSE id >= nextStream
      /\ \A id \in N : IF FALSE THEN id <= highestStreamOpenedByPeer' ELSE id < nextStream'
  BY <1>1, <1>5
<1>8. /\ nextStream' \in Nat \ {0} /\ nextStream' >= nextStream
      /\ highestStreamOpenedByPeer' \in 0..MaxStreamID
      /\ highestStreamOpenedByPeer' >= highestStreamOpenedByPeer
  BY <1>1, <1>5
<1> HIDE DEF N
<1> QED BY <1>3, <1>5, <1>6, <1>7, <1>8, OpeningKeeps, Zenon

\* RemoveStream of the finished streams: they were open, and are counted by their ids.
LEMMA RemovingKeeps ==
  ASSUME MInv, garbageCollectStreams
  PROVE  MInv'
<1> DEFINE O(S) == {id \in S : Odd(id)}
           E(S) == {id \in S : ~Odd(id)}
<1>1. /\ streams' = streams \ finished /\ removed' = removed \cup finished /\ finished' = {}
      /\ numIncomingStreams' = numIncomingStreams - Cardinality(O(finished))
      /\ numOutgoingStreams' = numOutgoingStreams - Cardinality(E(finished))
      /\ UNCHANGED <<perspective, nextStream, highestStreamOpenedByPeer>>
  BY DEF garbageCollectStreams, RemoveStreams, CountRemoved, sessionVars
<1>2. streams \in SUBSET StreamIDs /\ finished \in SUBSET streams
  BY DEF MInv, TypeOK
<1>3. /\ O(finished) \in SUBSET O(streams) /\ O(streams) \in SUBSET StreamIDs
      /\ E(finished) \in SUBSET E(streams) /\ E(streams) \in SUBSET StreamIDs
      /\ O(streams \ finished) = O(streams) \ O(finished)
      /\ E(streams \ finished) = E(streams) \ E(finished)
  BY <1>2
<1>4. CountersExact' /\ numOutgoingStreams' \in Nat /\ numIncomingStreams' \in Nat
  <2>1. numIncomingStreams = Cardinality(O(streams)) /\ numOutgoingStreams = Cardinality(E(streams))
    BY DEF MInv, CountersExact
  <2> SUFFICES /\ numIncomingStreams' = Cardinality(O(streams \ finished)) /\ numIncomingStreams' \in Nat
               /\ numOutgoingStreams' = Cardinality(E(streams \ finished)) /\ numOutgoingStreams' \in Nat
    BY <1>1 DEF CountersExact
  <2> HIDE DEF O, E
  <2>2. IsFiniteSet(O(streams)) /\ IsFiniteSet(E(streams))
    BY <1>3, IdsFinite
  <2>3. /\ Cardinality(O(streams) \ O(finished)) = Cardinality(O(streams)) - Cardinality(O(finished))
        /\ Cardinality(O(streams) \ O(finished)) \in Nat
    BY <1>3, <2>2, CardinalityFalls
  <2>4. /\ Cardinality(E(streams) \ E(finished)) = Cardinality(E(streams)) - Cardinality(E(finished))
        /\ Cardinality(E(streams) \ E(finished)) \in Nat
    BY <1>3, <2>2, CardinalityFalls, Zenon
  <2> QED BY <1>1, <1>3, <2>1, <2>3, <2>4, Zenon
<1> HIDE DEF O, E
<1>5. TypeOK'
  BY <1>1, <1>2, <1>4 DEF MInv, TypeOK
<1>6. BelowMarks'
  <2>1. streams' \cup removed' = streams \cup removed
    BY <1>1, <1>2
  <2>2. \A id : OpenedByPeer(id)' <=> OpenedByPeer(id)
    BY <1>1 DEF OpenedByPeer
  <2> QED BY <1>1, <2>1, <2>2 DEF MInv, BelowMarks
<1>7. NeverReopened'
  BY <1>1, <1>2 DEF MInv, NeverReopened
<1>8. EntriesExact'
  <2>1. openStreams' = openStreams (-) SetToBag(finished)
    BY DEF garbageCollectStreams, RemoveStreams
  <2> QED BY <1>1, <1>2, <2>1, BagFalls DEF MInv, EntriesExact
<1> QED BY <1>4, <1>5, <1>6, <1>7, <1>8 DEF MInv

\* A step that leaves the map alone, but for a stream that finishes.
LEMMA OthersKeep ==
  ASSUME MInv, UNCHANGED <<perspective, removed, mapVars>>, finished' \subseteq streams
  PROVE  MInv'
<1>1. \A id : OpenedByPeer(id)' <=> OpenedByPeer(id)
  BY DEF OpenedByPeer
<1>2. /\ streams' = streams /\ openStreams' = openStreams
      /\ removed' = removed /\ perspective' = perspective
      /\ nextStream' = nextStream /\ highestStreamOpenedByPeer' = highestStreamOpenedByPeer
      /\ numOutgoingStreams' = numOutgoingStreams /\ numIncomingStreams' = numIncomingStreams
  BY DEF mapVars, counters
<1>3. TypeOK'
  BY <1>2 DEF MInv, TypeOK
<1>4. BelowMarks'
  BY <1>1, <1>2 DEF MInv, BelowMarks
<1>5. NeverReopened' /\ CountersExact' /\ EntriesExact'
  BY <1>2 DEF MInv, NeverReopened, CountersExact, EntriesExact
<1> QED BY <1>3, <1>4, <1>5 DEF MInv

\* Every step keeps the invariant.
LEMMA StepKeeps ==
  ASSUME MInv, [Next]_vars
  PROVE  MInv'
<1>0. finished \subseteq streams
  BY DEF MInv, TypeOK
<1>1. ASSUME NEW id \in StreamIDs, GetOrOpenStream(id) PROVE MInv'
  <2>1. CASE OpenRemoteStreams(id)
    BY <1>1, <2>1, OpenRemoteKeeps DEF GetOrOpenStream
  <2>2. CASE InvalidStreamID(id)
    BY <1>0, <1>1, <2>2, OthersKeep DEF GetOrOpenStream, InvalidStreamID, OpenFails
  <2> QED BY <1>1, <2>1, <2>2 DEF GetOrOpenStream
<1>2. ASSUME NEW id \in StreamIDs, FinishStream(id) PROVE MInv'
  BY <1>0, <1>2, OthersKeep DEF FinishStream, sessionVars
<1>3. CASE OpenStream
  BY <1>3, OpenStreamImplKeeps DEF OpenStream, sessionVars
<1>4. ASSUME NEW g \in Openers, OpenStreamSync(g) PROVE MInv'
  <2>1. CASE OpenStreamImpl
    BY <1>4, <2>1, OpenStreamImplKeeps DEF OpenStreamSync, sessionVars
  <2>2. CASE UNCHANGED mapVars
    BY <1>0, <1>4, <2>2, OthersKeep DEF OpenStreamSync, sessionVars
  <2> QED BY <1>4, <2>1, <2>2 DEF OpenStreamSync
<1>5. ASSUME NEW g \in Accepters, AcceptStream(g) PROVE MInv'
  BY <1>0, <1>5, OthersKeep DEF AcceptStream, sessionVars
<1>6. CASE garbageCollectStreams
  BY <1>6, RemovingKeeps
<1>7. CASE Close
  BY <1>0, <1>7, OthersKeep DEF Close
<1>8. CASE CloseWithError
  BY <1>0, <1>8, OthersKeep DEF CloseWithError
<1>9. CASE UNCHANGED vars
  BY <1>0, <1>9, OthersKeep DEF vars, sessionVars
<1> QED BY <1>1, <1>2, <1>3, <1>4, <1>5, <1>6, <1>7, <1>8, <1>9 DEF Next

\* The crypto stream, which both sides open first, fits the invariant.
LEMMA InitKeeps == Init => MInv
<1> SUFFICES ASSUME Init PROVE MInv
  OBVIOUS
<1> USE DEF Init
<1>1. perspective \in {"client", "server"} /\ MaxStreamID \in Nat \ {0}
  BY StreamsMapAssumption
<1>2. Odd(1) /\ ~Odd(2) /\ Odd(3)
  BY DEF Odd
<1>3. TypeOK
  BY <1>1 DEF TypeOK, StreamIDs
<1>4. BelowMarks
  BY <1>1, <1>2 DEF BelowMarks, OpenedByPeer
<1>5. CountersExact
  <2>1. {id \in streams : Odd(id)} = {1} /\ {id \in streams : ~Odd(id)} = {}
    BY <1>2
  <2>2. Cardinality({1}) = 1 /\ Cardinality({}) = 0
    BY FS_Singleton, FS_EmptySet
  <2> QED BY <2>1, <2>2 DEF CountersExact
<1>6. EntriesExact
  BY DEF EntriesExact
<1> QED BY <1>3, <1>4, <1>5, <1>6 DEF MInv, NeverReopened

\* The invariant holds in every behaviour.
THEOREM Invariance == Spec => []MInv
<1>1. MInv /\ [Next]_vars => MInv'
  BY StepKeeps
<1> QED BY <1>1, InitKeeps, PTL DEF Spec

\* A stream that was collected is never opened again, in any order of frames, requests,
\* collections and errors (GetOrOpenStream): what there was lies below the marks.
THEOREM StreamsUsedOnce == Spec => []NeverReopened
<1>1. MInv => NeverReopened
  BY DEF MInv
<1> QED BY <1>1, Invariance, PTL

\* openStreams lists each key of the map once, and the counters of incoming and
\* outgoing streams are exact, although openStreamImpl and openRemoteStream choose
\* one by the perspective and RemoveStream by the id.
THEOREM StreamsCounted == Spec => []OpenStreamsExact
<1>1. MInv => OpenStreamsExact
  BY DEF MInv, EntriesExact, OpenStreamsExact
<1> QED BY <1>1, Invariance, PTL
----------------------------------------------------------------------------
(* The limits of a server *)

\* openRemoteStream, called for each of some ids, opens no more than there is room for.
LEMMA RoomKept ==
  ASSUME MInv, LimitsKept, perspective = "server", NEW ids \in SUBSET StreamIDs
  PROVE  numIncomingStreams + Cardinality(Openable(ids)) <= MaxIncomingStreams
<1>1. Cardinality(ids) \in Nat
  BY IdsFinite
<1>2. numIncomingStreams \in Nat /\ numIncomingStreams <= MaxIncomingStreams /\ MaxIncomingStreams \in Nat
  BY StreamsMapAssumption DEF MInv, TypeOK, LimitsKept
<1>3. Room(ids) \in Nat /\ Room(ids) <= MaxIncomingStreams - numIncomingStreams
  <2> DEFINE left == MaxIncomingStreams - numIncomingStreams
             two == {Cardinality(ids), left}
  <2>1. CASE numIncomingStreams >= MaxIncomingStreams
    BY <1>2, <2>1 DEF Room
  <2>2. CASE ~(numIncomingStreams >= MaxIncomingStreams)
    <3>1. left \in Nat
      BY <1>2, <2>2
    <3>2. two \subseteq Nat /\ two # {}
      BY <1>1, <3>1
    <3>3. Room(ids) = Min(two)
      BY <2>2 DEF Room
    <3>4. Min(two) \in two /\ \A y \in two : Min(two) <= y
      <4>1. \E x \in two : \A y \in two : x <= y
        BY <1>1, <3>1
      <4> QED BY <4>1 DEF Min
    <3> QED BY <3>2, <3>3, <3>4
  <2> QED BY <2>1, <2>2
<1>4. Cardinality(Openable(ids)) <= Room(ids)
  <2>1. MaxStreamID \in Nat /\ ids \in SUBSET (1..MaxStreamID)
    BY StreamsMapAssumption DEF StreamIDs
  <2> QED BY <1>3, <2>1, FirstFew, Zenon DEF Openable
<1>5. Cardinality(Openable(ids)) \in Nat
  BY IdsFinite, Zenon DEF Openable
<1> QED BY <1>2, <1>3, <1>4, <1>5

\* No step lets a server exceed a limit.
LEMMA LimitsStep ==
  ASSUME MInv, LimitsKept, [Next]_vars
  PROVE  LimitsKept'
<1> SUFFICES ASSUME perspective' = "server"
             PROVE  numIncomingStreams' <= MaxIncomingStreams /\ numOutgoingStreams' <= MaxOutgoingStreams
  BY DEF LimitsKept
<1>1. perspective = "server"
  BY Zenon DEF Next, vars, sessionVars, GetOrOpenStream, InvalidStreamID, OpenRemoteStreams, OpenFails, FinishStream,
         OpenStream, OpenStreamSync, AcceptStream, garbageCollectStreams, Close, CloseWithError
<1>2. /\ numIncomingStreams \in Nat /\ numIncomingStreams <= MaxIncomingStreams /\ MaxIncomingStreams \in Nat
      /\ numOutgoingStreams \in Nat /\ numOutgoingStreams <= MaxOutgoingStreams /\ MaxOutgoingStreams \in Nat
  BY <1>1, StreamsMapAssumption DEF MInv, TypeOK, LimitsKept
<1>3. CASE UNCHANGED counters
  BY <1>2, <1>3 DEF counters
<1>4. ASSUME NEW id \in StreamIDs, OpenRemoteStreams(id)
      PROVE  numIncomingStreams' <= MaxIncomingStreams /\ numOutgoingStreams' <= MaxOutgoingStreams
  <2>1. Missing(id) \in SUBSET StreamIDs
    BY DEF Missing
  <2>2. numIncomingStreams + Cardinality(Openable(Missing(id))) <= MaxIncomingStreams
    BY <1>1, <2>1, RoomKept
  <2>3. /\ numIncomingStreams' = numIncomingStreams + Cardinality(Openable(Missing(id)))
        /\ numOutgoingStreams' = numOutgoingStreams
    BY <1>1, <1>4 DEF OpenRemoteStreams, CountOpened
  <2> QED BY <1>2, <2>2, <2>3
<1>5. CASE OpenStreamImpl
  BY <1>1, <1>2, <1>5 DEF OpenStreamImpl, CanOpen, CountOpened
<1>6. CASE garbageCollectStreams
  <2>1. finished \in SUBSET StreamIDs
    BY DEF MInv, TypeOK
  <2>2. Cardinality({id \in finished : Odd(id)}) \in Nat /\ Cardinality({id \in finished : ~Odd(id)}) \in Nat
    BY <2>1, IdsFinite
  <2> QED BY <1>2, <1>6, <2>2 DEF garbageCollectStreams, RemoveStreams, CountRemoved
<1>7. \/ UNCHANGED counters \/ OpenStreamImpl \/ garbageCollectStreams
      \/ \E id \in StreamIDs : OpenRemoteStreams(id)
  BY DEF Next, vars, mapVars, GetOrOpenStream, InvalidStreamID, FinishStream,
         OpenStream, OpenStreamSync, AcceptStream, Close, CloseWithError
<1> QED BY <1>3, <1>4, <1>5, <1>6, <1>7

\* A server never has more streams than it allows the peer, or than the peer allows
\* it (openRemoteStream, openStreamImpl), whatever is opened and collected.
THEOREM ServerKeepsLimits == Spec => []LimitsKept
<1>1. Init => LimitsKept
  BY StreamsMapAssumption DEF Init, LimitsKept
<1>2. MInv /\ LimitsKept /\ [Next]_vars => LimitsKept'
  BY LimitsStep
<1> QED BY <1>1, <1>2, Invariance, PTL DEF Spec
=============================================================================
