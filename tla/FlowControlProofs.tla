------------------------- MODULE FlowControlProofs -------------------------
(***************************************************************************)
(* A sender that obeys its windows never violates those of the receiver,   *)
(* for any number of streams, any windows and any amount of data.          *)
(*                                                                         *)
(* The argument is a chain.  What was received was sent; what was sent     *)
(* fits the window the sender knows (WindowRespected); that window was     *)
(* granted and no grant is taken back (GrantsKept).  For the connection    *)
(* the first link compares two sums over the contributing streams.  They   *)
(* are cardinalities of sets of units (ConnectionExact), one of which      *)
(* contains the other.                                                     *)
(***************************************************************************)
EXTENDS FlowControl, FiniteSets, FiniteSetsExt, FiniteSetTheorems, WellFoundedInduction, TLAPS

\* What was read was received, what was received was sent (UpdateHighestReceived,
\* AddBytesRead, AddBytesSent of every stream).
Ordered ==
  \A s \in Streams : /\ bytesRead[s] <= highestReceived[s]
                     /\ highestReceived[s] <= bytesSent[s]
                     /\ bytesSent[s] <= DataLength
                     /\ arrived[s] \subseteq 1..highestReceived[s]

\* The sender stays within the windows it knows (SendWindowSize).
WindowRespected == \A id \in Ids : bytesSent[id] <= getSendWindow(id)

\* No window and no WINDOW_UPDATE is below the window of the handshake, so the
\* first update, which replaces that window in getSendWindow, cannot lower it.
AboveHandshake ==
  /\ \A id \in Ids : Window(id) <= receiveWindow[id]
  /\ \A u \in windowUpdates : Window(u.id) <= u.offset

IInv == TypeOK /\ Ordered /\ WindowRespected /\ GrantsKept /\ AboveHandshake /\ ConnectionExact
----------------------------------------------------------------------------
(* Counting. *)

\* A set of numbers that is not empty has a least member.
LEMMA LeastExists ==
    ASSUME NEW S, S \subseteq Nat, S # {}
    PROVE  \E x \in S : \A y \in S : x <= y
<1>1. PICK x \in S : \A y \in S : ~(<<y, x>> \in OpToRel(<, Nat))
  BY WFMin, NatLessThanWellFounded, Zenon
<1>2. \A y \in S : ~(y < x)
  BY <1>1, Zenon DEF OpToRel
<1> QED BY <1>2

\* Max is the greatest member of a bounded set of naturals.
LEMMA MaxOfNaturals ==
    ASSUME NEW S, NEW n \in Nat, S \subseteq 0 .. n, S # {}
    PROVE  Max(S) \in S /\ \A y \in S : Max(S) >= y
<1> DEFINE T == {n - x : x \in S}
<1>1. T \subseteq Nat /\ T # {}
  <2>1. \A x \in S : n - x \in Nat
    OBVIOUS
  <2>2. PICK x \in S : TRUE
    BY Zenon
  <2>3. n - x \in T
    BY <2>2
  <2> QED BY <2>1, <2>3
<1>2. PICK t \in T : \A y \in T : t <= y
  BY <1>1, LeastExists, Zenon
<1>3. PICK x \in S : t = n - x
  BY <1>2
<1>4. \A y \in S : x >= y
  <2> TAKE y \in S
  <2>1. n - x <= n - y
    BY <1>2, <1>3
  <2> QED BY <2>1
<1> QED BY <1>4, Zenon DEF Max

\* The units that the connection counts are finitely many.
LEMMA CountedFinite ==
  ASSUME NEW count
  PROVE  IsFiniteSet(Counted(count))
<1>1. IsFiniteSet(Contributing)
  BY FlowAssumption, FS_Subset
<1>2. IsFiniteSet(Units)
  BY FlowAssumption, FS_Interval DEF Units
<1>3. IsFiniteSet(Contributing \X Units)
  BY <1>1, <1>2, FS_Product
<1> QED BY <1>3, FS_Subset DEF Counted

\* Adding to a stream adds the same to the connection if the stream contributes.
LEMMA ContributeType ==
  ASSUME NEW count \in [Ids -> Nat], NEW s \in Streams, NEW n \in Nat
  PROVE  /\ Contribute(count, s, n) \in [Ids -> Nat]
         /\ Contribute(count, s, n)[s] = count[s] + n
         /\ \A r \in Streams \ {s} : Contribute(count, s, n)[r] = count[r]
         /\ Contribute(count, s, n)[Conn] = IF s \in Contributing THEN count[Conn] + n
                                                                  ELSE count[Conn]
BY FlowAssumption DEF Contribute, Ids

\* Adding n units to one stream adds n units to the connection.
LEMMA ContributeExact ==
  ASSUME NEW count \in [Ids -> Nat], NEW s \in Streams, NEW n \in Nat,
         count[s] + n <= DataLength,
         count[Conn] = Cardinality(Counted(count))
  PROVE  Contribute(count, s, n)[Conn] = Cardinality(Counted(Contribute(count, s, n)))
<1> DEFINE after == Contribute(count, s, n)
           added == {s} \X ((count[s] + 1)..(count[s] + n))
<1>s. Contributing \subseteq Streams /\ Streams \subseteq Ids /\ DataLength \in Nat
  BY FlowAssumption DEF Ids
<1>1. CASE s \notin Contributing
  <2>1. \A r \in Contributing : after[r] = count[r]
    <3> SUFFICES ASSUME NEW r \in Contributing PROVE after[r] = count[r]
      OBVIOUS
    <3>1. r \in Streams \ {s}
      BY <1>1, <1>s
    <3> QED BY <3>1, ContributeType
  <2>2. Counted(after) = Counted(count)
    BY <2>1 DEF Counted
  <2> QED BY <1>1, <2>2, ContributeType
<1>2. CASE s \in Contributing
  <2>1. after[s] = count[s] + n /\ \A r \in Contributing \ {s} : after[r] = count[r]
    BY <1>s, ContributeType
  <2>a. count[s] \in Nat /\ \A r \in Contributing : count[r] \in Nat
    BY <1>s
  <2> HIDE DEF after
  <2>2. Counted(after) = Counted(count) \cup added
    <3>1. ASSUME NEW p \in Contributing \X Units
          PROVE  p \in Counted(after) <=> p \in Counted(count) \cup added
      <4>1. CASE p[1] = s
        BY <4>1, <2>1, <2>a, <1>s, <3>1 DEF Counted, Units
      <4>2. CASE p[1] # s
        BY <4>2, <2>1, <3>1 DEF Counted
      <4> QED BY <4>1, <4>2
    <3>2. added \subseteq Contributing \X Units
      BY <1>2, <2>a, <1>s DEF Units
    <3> QED BY <3>1, <3>2 DEF Counted
  <2>3. Counted(count) \cap added = {}
    BY <2>a DEF Counted
  <2>4. IsFiniteSet(added) /\ Cardinality(added) = n
    <3> DEFINE first == count[s] + 1
               last == count[s] + n
    <3>a. first \in Int /\ last \in Int /\ (IF first > last THEN 0 ELSE last - first + 1) = n
      BY <2>a
    <3> HIDE DEF first, last
    <3>1. IsFiniteSet(first..last) /\ Cardinality(first..last) = n
      <4>1. /\ IsFiniteSet(first..last)
            /\ Cardinality(first..last) = IF first > last THEN 0 ELSE last - first + 1
        BY <3>a, FS_Interval, Zenon
      <4> QED BY <4>1, <3>a, Zenon
    <3>2. IsFiniteSet({s}) /\ Cardinality({s}) = 1
      BY FS_Singleton, Zenon
    <3>3. /\ IsFiniteSet({s} \X (first..last))
          /\ Cardinality({s} \X (first..last)) = Cardinality({s}) * Cardinality(first..last)
      BY <3>1, <3>2, FS_Product, Zenon
    <3>4. Cardinality({s}) * Cardinality(first..last) = n
      BY <3>1, <3>2
    <3> QED BY <3>3, <3>4 DEF first, last
  <2>5. Cardinality(Counted(after)) = Cardinality(Counted(count)) + n
    <3>1. IsFiniteSet(Counted(count)) /\ Cardinality({}) = 0
      BY CountedFinite, FS_EmptySet
    <3>2. Cardinality(Counted(count)) \in Nat
      BY <3>1, FS_CardinalityType
    <3>3. Cardinality(Counted(count) \cup added)
            = Cardinality(Counted(count)) + Cardinality(added) - Cardinality(Counted(count) \cap added)
      BY <3>1, <2>4, FS_Union
    <3> HIDE DEF added
    <3>4. Cardinality(Counted(after)) = Cardinality(Counted(count)) + n - 0
      BY <2>2, <2>3, <2>4, <3>1, <3>3, Zenon
    <3> QED BY <3>2, <3>4
  <2> QED BY <1>2, <2>5, ContributeType DEF after
<1> QED BY <1>1, <1>2

\* What is counted less on every stream is counted less for the connection.
LEMMA CountedMonotone ==
  ASSUME NEW low \in [Ids -> Nat], NEW high \in [Ids -> Nat],
         \A s \in Streams : low[s] <= high[s]
  PROVE  Cardinality(Counted(low)) <= Cardinality(Counted(high))
<1>1. Counted(low) \subseteq Counted(high)
  <2>1. Contributing \subseteq Ids /\ Contributing \subseteq Streams /\ Units \subseteq Nat
    BY FlowAssumption DEF Ids, Units
  <2> SUFFICES ASSUME NEW p \in Contributing \X Units, p[2] <= low[p[1]]
               PROVE  p[2] <= high[p[1]]
    BY DEF Counted
  <2>2. p[1] \in Streams /\ p[1] \in Ids /\ p[2] \in Nat
    BY <2>1, Zenon
  <2>3. low[p[1]] \in Nat /\ high[p[1]] \in Nat /\ low[p[1]] <= high[p[1]]
    BY <2>2
  <2> QED BY <2>2, <2>3
<1> QED BY <1>1, CountedFinite, FS_Subset
----------------------------------------------------------------------------
(* The receiver's windows. *)

\* The smaller of two numbers.
LEMMA MinOfTwo ==
  ASSUME NEW a \in Nat, NEW b \in Nat
  PROVE  Min({a, b}) \in Nat /\ Min({a, b}) <= a /\ Min({a, b}) <= b
         /\ (Min({a, b}) = a \/ Min({a, b}) = b)
<1>1. \E x \in {a, b} : \A y \in {a, b} : x <= y
  OBVIOUS
<1>2. Min({a, b}) \in {a, b} /\ \A y \in {a, b} : Min({a, b}) <= y
  BY <1>1 DEF Min
<1> QED BY <1>2

\* Auto-tuning doubles an increment up to its maximum.
LEMMA AdjustedGrows ==
  ASSUME NEW id \in Ids, NEW fast, NEW increment \in Nat, increment <= MaxIncrement(id)
  PROVE  /\ Adjusted(id, increment, fast) \in Nat
         /\ Adjusted(id, increment, fast) >= increment
         /\ Adjusted(id, increment, fast) <= MaxIncrement(id)
<1>1. MaxIncrement(id) \in Nat /\ 2 * increment \in Nat
  BY FlowAssumption DEF MaxIncrement
<1>2. /\ Min({2 * increment, MaxIncrement(id)}) \in Nat
      /\ Min({2 * increment, MaxIncrement(id)}) <= MaxIncrement(id)
      /\ \/ Min({2 * increment, MaxIncrement(id)}) = 2 * increment
         \/ Min({2 * increment, MaxIncrement(id)}) = MaxIncrement(id)
  BY <1>1, MinOfTwo
<1>3. CASE id \in fast
  <2>1. Adjusted(id, increment, fast) = Min({2 * increment, MaxIncrement(id)})
    BY <1>3 DEF Adjusted
  <2> QED BY <1>1, <1>2, <2>1
<1>4. CASE id \notin fast
  <2>1. Adjusted(id, increment, fast) = increment
    BY <1>4 DEF Adjusted
  <2> QED BY <2>1
<1> QED BY <1>3, <1>4

\* The increment of a stream never shrinks and keeps its maximum.
LEMMA StreamIncrementGrows ==
  ASSUME TypeOK, NEW s \in Streams, NEW fast
  PROVE  /\ StreamIncrement(s, fast) \in Nat
         /\ StreamIncrement(s, fast) >= receiveWindowIncrement[s]
         /\ StreamIncrement(s, fast) <= MaxStreamIncrement
<1>1. s \in Ids /\ MaxIncrement(s) = MaxStreamIncrement
  BY FlowAssumption DEF Ids, MaxIncrement
<1>2. receiveWindowIncrement[s] \in Nat /\ receiveWindowIncrement[s] <= MaxIncrement(s)
  BY <1>1 DEF TypeOK
<1> QED BY <1>1, <1>2, AdjustedGrows DEF StreamIncrement

\* What EnsureMinimumWindowIncrement is asked for, by any number of streams.
LEMMA MinimumIncrementType ==
  ASSUME TypeOK, NEW force, NEW fast
  PROVE  MinimumIncrement(force, fast) \in Nat
<1> DEFINE asked == {(3 * NewIncrement(s, fast)) \div 2 : s \in Updated(force) \cap Contributing}
           bound == 3 * MaxStreamIncrement
<1>1. \A s \in Updated(force) \cap Contributing : (3 * NewIncrement(s, fast)) \div 2 \in 0..bound
  <2> SUFFICES ASSUME NEW s \in Updated(force) \cap Contributing
               PROVE  (3 * NewIncrement(s, fast)) \div 2 \in 0..bound
    OBVIOUS
  <2>1. s \in Streams
    BY FlowAssumption
  <2>2. NewIncrement(s, fast) \in Nat /\ NewIncrement(s, fast) <= MaxStreamIncrement
    BY <2>1, StreamIncrementGrows, FlowAssumption DEF NewIncrement
  <2> HIDE DEF bound
  <2> DEFINE k == NewIncrement(s, fast)
  <2>3. k \in Nat /\ k <= MaxStreamIncrement /\ MaxStreamIncrement \in Nat
    BY <2>2, FlowAssumption
  <2> HIDE DEF k
  <2>4. (3 * k) \div 2 \in 0..(3 * MaxStreamIncrement)
    BY <2>3
  <2> QED BY <2>4 DEF k, bound
<1>2. {0} \cup asked \subseteq 0..bound /\ {0} \cup asked # {} /\ bound \in Nat
  BY <1>1, FlowAssumption
<1>3. MinimumIncrement(force, fast) \in Nat
  <2>1. Max({0} \cup asked) \in {0} \cup asked
    <3> HIDE DEF asked, bound
    <3> QED BY <1>2, MaxOfNaturals
  <2>2. MinimumIncrement(force, fast) = Max({0} \cup asked)
    BY DEF MinimumIncrement
  <2> HIDE DEF asked
  <2> QED BY <2>1, <2>2, <1>2
<1> QED BY <1>3

\* It leaves the connection with an increment within its bound.
LEMMA EnsuredIncrementBound ==
  ASSUME TypeOK, NEW force, NEW fast
  PROVE  /\ EnsuredIncrement(force, fast) \in Nat
         /\ EnsuredIncrement(force, fast) <= MaxConnIncrement
<1>3. MinimumIncrement(force, fast) \in Nat
  BY MinimumIncrementType
<1>4. /\ receiveWindowIncrement[Conn] \in Nat /\ MaxConnIncrement \in Nat
      /\ receiveWindowIncrement[Conn] <= MaxConnIncrement
  BY FlowAssumption DEF TypeOK, Ids, MaxIncrement
<1>5. /\ Min({MinimumIncrement(force, fast), MaxConnIncrement}) \in Nat
      /\ Min({MinimumIncrement(force, fast), MaxConnIncrement}) <= MaxConnIncrement
  BY <1>3, <1>4, MinOfTwo
<1> QED BY <1>4, <1>5 DEF EnsuredIncrement

\* So does the increment of the connection, after it has been raised for a stream.
LEMMA ConnIncrementGrows ==
  ASSUME TypeOK, NEW force, NEW fast
  PROVE  /\ ConnIncrement(force, fast) \in Nat
         /\ ConnIncrement(force, fast) >= EnsuredIncrement(force, fast)
         /\ ConnIncrement(force, fast) <= MaxConnIncrement
<1>1. Conn \in Ids /\ MaxIncrement(Conn) = MaxConnIncrement
  BY DEF Ids, MaxIncrement
<1> QED BY <1>1, EnsuredIncrementBound, AdjustedGrows DEF ConnIncrement

\* A window that is moved is moved up.
LEMMA NewWindowGrows ==
  ASSUME TypeOK, NEW id \in Ids, NEW old \in Nat, NEW new \in Nat, old <= new,
         Necessary(id, old)
  PROVE  NewWindow(id, new) \in Nat /\ NewWindow(id, new) >= receiveWindow[id]
<1>1. receiveWindow[id] \in Nat /\ bytesRead[id] \in Nat
  BY DEF TypeOK
<1>2. receiveWindow[id] - bytesRead[id] < old \div 2
  BY DEF Necessary
<1>3. old \div 2 <= old /\ old \div 2 \in Nat
  OBVIOUS
<1> QED BY <1>1, <1>2, <1>3 DEF NewWindow

\* GetWindowUpdates moves windows up and announces only windows it has set.
LEMMA GetWindowUpdatesOutcome ==
  ASSUME TypeOK, GrantsKept, AboveHandshake, NEW force, NEW fast, GetWindowUpdates(force, fast)
  PROVE  /\ receiveWindow' \in [Ids -> Nat]
         /\ \A id \in Ids : receiveWindow[id] <= receiveWindow'[id]
         /\ receiveWindowIncrement' \in [Ids -> Nat]
         /\ \A id \in Ids : receiveWindowIncrement'[id] <= MaxIncrement(id)
         /\ \A u \in windowUpdates' : u \in [id : Ids, offset : Nat] /\ u.offset <= receiveWindow'[u.id]
         /\ AboveHandshake'
         /\ autotuned' \subseteq Ids
<1> DEFINE necessary == {s \in controllers : Necessary(s, receiveWindowIncrement[s])}
                          \cup {c \in {Conn} : ConnNecessary(force, fast)}
           increment(id) == IF id = Conn THEN ConnIncrement(force, fast)
                            ELSE IF id \in controllers THEN StreamIncrement(id, fast)
                            ELSE receiveWindowIncrement[id]
           sent == IF force THEN controllers \cup {Conn} ELSE necessary
<1>1. /\ receiveWindowIncrement' = [id \in Ids |-> increment(id)]
      /\ receiveWindow' = [id \in Ids |-> IF id \in necessary THEN NewWindow(id, increment(id))
                                                              ELSE receiveWindow[id]]
      /\ autotuned' = (IF Raised(force, fast) THEN autotuned \ {Conn} ELSE autotuned) \cup necessary
      /\ windowUpdates' = windowUpdates \cup {[id |-> id, offset |-> receiveWindow'[id]] : id \in sent}
  BY DEF GetWindowUpdates
<1>2. necessary \subseteq Ids /\ sent \subseteq Ids /\ Conn \notin Streams
      /\ Conn \in Ids /\ Streams \subseteq Ids /\ controllers \subseteq Streams
  BY FlowAssumption DEF TypeOK, Ids
<1>3. \A id \in Ids : increment(id) \in Nat /\ increment(id) <= MaxIncrement(id)
  <2> SUFFICES ASSUME NEW id \in Ids PROVE increment(id) \in Nat /\ increment(id) <= MaxIncrement(id)
    OBVIOUS
  <2>1. CASE id = Conn
    BY <2>1, ConnIncrementGrows DEF MaxIncrement
  <2>2. CASE id # Conn
    <3>1. id \in Streams /\ MaxIncrement(id) = MaxStreamIncrement
      BY <2>2 DEF Ids, MaxIncrement
    <3>2. receiveWindowIncrement[id] \in Nat /\ receiveWindowIncrement[id] <= MaxIncrement(id)
      BY DEF TypeOK
    <3> QED BY <2>2, <3>1, <3>2, StreamIncrementGrows
  <2> QED BY <2>1, <2>2
<1>4. \A id \in necessary : /\ NewWindow(id, increment(id)) \in Nat
                            /\ receiveWindow[id] <= NewWindow(id, increment(id))
  <2> SUFFICES ASSUME NEW id \in necessary
               PROVE  /\ NewWindow(id, increment(id)) \in Nat
                      /\ receiveWindow[id] <= NewWindow(id, increment(id))
    OBVIOUS
  <2>w. receiveWindow[id] \in Nat
    BY <1>2 DEF TypeOK
  <2>1. CASE id = Conn
    <3>1. Necessary(Conn, EnsuredIncrement(force, fast))
      BY <2>1, <1>2 DEF ConnNecessary
    <3>2. increment(id) = ConnIncrement(force, fast)
      BY <2>1
    <3> HIDE DEF increment
    <3>3. NewWindow(Conn, increment(id)) \in Nat /\ NewWindow(Conn, increment(id)) >= receiveWindow[Conn]
      BY <3>1, <3>2, <1>2, EnsuredIncrementBound, ConnIncrementGrows, NewWindowGrows
    <3> QED BY <2>1, <2>w, <3>3
  <2>2. CASE id # Conn
    <3>1. id \in controllers /\ Necessary(id, receiveWindowIncrement[id])
      BY <2>2
    <3>2. id \in Streams /\ id \in Ids /\ receiveWindowIncrement[id] \in Nat
      BY <3>1, <1>2 DEF TypeOK
    <3>3. increment(id) = StreamIncrement(id, fast)
      BY <2>2, <3>1
    <3> HIDE DEF increment
    <3>4. NewWindow(id, increment(id)) \in Nat /\ NewWindow(id, increment(id)) >= receiveWindow[id]
      BY <3>1, <3>2, <3>3, StreamIncrementGrows, NewWindowGrows
    <3> QED BY <2>w, <3>4
  <2> QED BY <2>1, <2>2
<1> HIDE DEF necessary, increment, sent
<1>5. receiveWindow' \in [Ids -> Nat] /\ \A id \in Ids : receiveWindow[id] <= receiveWindow'[id]
  <2>1. \A id \in Ids : /\ receiveWindow[id] \in Nat
                        /\ receiveWindow'[id] = IF id \in necessary THEN NewWindow(id, increment(id))
                                                                      ELSE receiveWindow[id]
    BY <1>1 DEF TypeOK
  <2>2. \A id \in Ids : receiveWindow'[id] \in Nat /\ receiveWindow[id] <= receiveWindow'[id]
    BY <2>1, <1>4
  <2> QED BY <1>1, <1>2, <1>4, <2>1, <2>2
<1>6. receiveWindowIncrement' \in [Ids -> Nat]
      /\ \A id \in Ids : receiveWindowIncrement'[id] <= MaxIncrement(id)
  BY <1>1, <1>3
<1>7. autotuned' \subseteq Ids
  BY <1>1, <1>2 DEF TypeOK
<1>8. \A u \in windowUpdates' : u \in [id : Ids, offset : Nat] /\ u.offset <= receiveWindow'[u.id]
  <2> SUFFICES ASSUME NEW u \in windowUpdates'
               PROVE  u \in [id : Ids, offset : Nat] /\ u.offset <= receiveWindow'[u.id]
    OBVIOUS
  <2>1. CASE u \in windowUpdates
    <3>1. u \in [id : Ids, offset : Nat] /\ u.offset <= receiveWindow[u.id]
      BY <2>1 DEF TypeOK, GrantsKept
    <3>2. u.id \in Ids /\ u.offset \in Nat /\ receiveWindow[u.id] \in Nat
      BY <3>1 DEF TypeOK
    <3> QED BY <3>1, <3>2, <1>5
  <2>2. CASE u \notin windowUpdates
    <3>1. PICK id \in sent : u = [id |-> id, offset |-> receiveWindow'[id]]
      BY <1>1, <2>2
    <3>2. id \in Ids /\ receiveWindow'[id] \in Nat
      BY <1>2, <1>5
    <3> QED BY <3>1, <3>2
  <2> QED BY <2>1, <2>2
<1>9. AboveHandshake'
  <2>1. \A id \in Ids : Window(id) <= receiveWindow'[id]
    <3> SUFFICES ASSUME NEW id \in Ids PROVE Window(id) <= receiveWindow'[id]
      OBVIOUS
    <3>1. /\ Window(id) \in Nat /\ receiveWindow[id] \in Nat /\ receiveWindow'[id] \in Nat
          /\ Window(id) <= receiveWindow[id] /\ receiveWindow[id] <= receiveWindow'[id]
      BY <1>5, FlowAssumption DEF Window, TypeOK, AboveHandshake
    <3> QED BY <3>1
  <2>2. ASSUME NEW u \in windowUpdates' PROVE Window(u.id) <= u.offset
    <3>1. CASE u \in windowUpdates
      BY <3>1 DEF AboveHandshake
    <3>2. CASE u \notin windowUpdates
      <4>1. PICK id \in sent : u = [id |-> id, offset |-> receiveWindow'[id]]
        BY <1>1, <3>2
      <4> QED BY <4>1, <1>2, <2>1
    <3> QED BY <3>1, <3>2
  <2> QED BY <2>1, <2>2 DEF AboveHandshake
<1> QED BY <1>5, <1>6, <1>7, <1>8, <1>9
----------------------------------------------------------------------------
(* The steps. *)

\* The controllers start from the windows of the handshake.
LEMMA InitStep == Init => IInv
<1> SUFFICES ASSUME Init PROVE IInv
  OBVIOUS
<1>1. \A id \in Ids : Window(id) \in Nat /\ Window(id) <= MaxIncrement(id)
  BY FlowAssumption DEF Window, MaxIncrement
<1>2. TypeOK
  BY <1>1, Zenon DEF Init, TypeOK
<1>3. Ordered
  BY FlowAssumption DEF Init, Ordered, Ids
<1>4. WindowRespected /\ GrantsKept /\ AboveHandshake
  BY <1>1 DEF Init, WindowRespected, GrantsKept, AboveHandshake, getSendWindow
<1>5. ConnectionExact
  <2>1. \A count : count = [id \in Ids |-> 0] => Counted(count) = {}
    BY FlowAssumption DEF Counted, Units, Ids
  <2>2. Conn \in Ids
    BY DEF Ids
  <2> QED BY <2>1, <2>2, FS_EmptySet DEF Init, ConnectionExact
<1> QED BY <1>2, <1>3, <1>4, <1>5 DEF IInv

\* AddBytesSent stays below the send window.
LEMMA SendStep ==
  ASSUME IInv, NEW s \in Streams, Send(s)
  PROVE  IInv'
<1> USE DEF IInv
<1>1. /\ bytesSent' = Contribute(bytesSent, s, 1)
      /\ bytesSent[s] < DataLength
      /\ SendWindowSize(s) > 0
      /\ blocked' \in BOOLEAN
      /\ UNCHANGED <<sendWindow, rstSent, windowVars, receiveVars, windowUpdates, peerBlocked>>
  BY DEF Send
<1>2. bytesSent \in [Ids -> Nat] /\ s \in Ids /\ Conn \in Ids /\ 1 \in Nat /\ Conn # s
  BY FlowAssumption DEF TypeOK, Ids
<1>3. /\ bytesSent' \in [Ids -> Nat]
      /\ bytesSent'[s] = bytesSent[s] + 1
      /\ \A r \in Streams \ {s} : bytesSent'[r] = bytesSent[r]
      /\ bytesSent'[Conn] = IF s \in Contributing THEN bytesSent[Conn] + 1 ELSE bytesSent[Conn]
  <2>1. bytesSent' = Contribute(bytesSent, s, 1)
    BY <1>1, Zenon
  <2> HIDE DEF IInv
  <2> QED BY <1>2, <2>1, ContributeType
<1>4. TypeOK'
  BY <1>1, <1>3 DEF TypeOK, windowVars, receiveVars
<1>5. Ordered'
  <2> SUFFICES ASSUME NEW r \in Streams
               PROVE  highestReceived[r] <= bytesSent'[r] /\ bytesSent'[r] <= DataLength
    BY <1>1, Zenon DEF Ordered, receiveVars
  <2>1. /\ highestReceived[r] <= bytesSent[r] /\ bytesSent[r] <= DataLength
        /\ highestReceived[r] \in Nat /\ bytesSent[r] \in Nat /\ DataLength \in Nat
    BY FlowAssumption DEF Ordered, TypeOK, Ids
  <2> QED BY <1>1, <1>3, <2>1
<1>6. \A id \in Ids : getSendWindow(id) \in Nat /\ getSendWindow(id)' = getSendWindow(id)
  BY <1>1, FlowAssumption DEF TypeOK, getSendWindow, Window
<1>7. WindowRespected'
  <2>1. \A id \in Ids : ControllerSendWindow(id) > 0 => bytesSent[id] + 1 <= getSendWindow(id)
    BY <1>2, <1>6 DEF ControllerSendWindow
  <2>2. \A id \in Ids : ControllerSendWindow(id) \in Nat
    BY <1>2, <1>6 DEF ControllerSendWindow
  <2>3. ControllerSendWindow(s) > 0 /\ (s \in Contributing => ControllerSendWindow(Conn) > 0)
    <3>1. CASE s \in Contributing
      <4>1. /\ Min({ControllerSendWindow(s), ControllerSendWindow(Conn)}) \in Nat
            /\ Min({ControllerSendWindow(s), ControllerSendWindow(Conn)}) <= ControllerSendWindow(s)
            /\ Min({ControllerSendWindow(s), ControllerSendWindow(Conn)}) <= ControllerSendWindow(Conn)
        BY <1>2, <2>2, MinOfTwo
      <4>2. Min({ControllerSendWindow(s), ControllerSendWindow(Conn)}) > 0
        BY <1>1, <3>1 DEF SendWindowSize
      <4> QED BY <4>1, <4>2, <2>2, <1>2
    <3>2. CASE s \notin Contributing
      BY <1>1, <3>2 DEF SendWindowSize
    <3> QED BY <3>1, <3>2
  <2> SUFFICES ASSUME NEW id \in Ids PROVE bytesSent'[id] <= getSendWindow(id)
    BY <1>6 DEF WindowRespected
  <2>4. bytesSent[id] <= getSendWindow(id)
    BY DEF WindowRespected
  <2>5. CASE id = s
    BY <2>5, <1>3, <2>1, <2>3
  <2>6. CASE id = Conn
    BY <2>6, <1>2, <1>3, <2>1, <2>3, <2>4
  <2>7. CASE id \in Streams \ {s}
    BY <2>7, <1>3, <2>4
  <2> QED BY <2>5, <2>6, <2>7 DEF Ids
<1>8. GrantsKept' /\ AboveHandshake'
  BY <1>1, <1>6 DEF GrantsKept, AboveHandshake, windowVars
<1>9. ConnectionExact'
  <2>1. bytesSent[s] + 1 <= DataLength
    BY <1>1, <1>2, FlowAssumption
  <2>2. bytesSent'[Conn] = Cardinality(Counted(bytesSent'))
    BY <1>1, <1>2, <2>1, ContributeExact DEF ConnectionExact
  <2> QED BY <1>1, <2>2 DEF ConnectionExact, receiveVars, Counted
<1> QED BY <1>4, <1>5, <1>7, <1>8, <1>9

\* An offset up to what was sent raises the stream's highest offset to at most
\* that, and keeps the connection's exact.
LEMMA HighestReceivedOutcome ==
  ASSUME IInv, NEW s \in Streams, NEW byteOffset \in Nat, byteOffset <= bytesSent[s],
         UpdateHighestReceived(s, byteOffset)
  PROVE  /\ highestReceived' \in [Ids -> Nat]
         /\ byteOffset <= highestReceived'[s]
         /\ \A r \in Streams : /\ highestReceived[r] <= highestReceived'[r]
                               /\ highestReceived'[r] <= bytesSent[r]
         /\ highestReceived'[Conn] = Cardinality(Counted(highestReceived'))
<1> USE DEF IInv
<1> DEFINE n == IF byteOffset > highestReceived[s] THEN byteOffset - highestReceived[s] ELSE 0
<1>1. highestReceived' = Contribute(highestReceived, s, n)
  BY DEF UpdateHighestReceived
<1>2. /\ highestReceived \in [Ids -> Nat] /\ DataLength \in Nat
      /\ \A r \in Streams : /\ highestReceived[r] \in Nat /\ bytesSent[r] \in Nat
                            /\ highestReceived[r] <= bytesSent[r] /\ bytesSent[r] <= DataLength
  BY FlowAssumption DEF TypeOK, Ordered, Ids
<1>3. /\ n \in Nat /\ highestReceived[s] + n <= bytesSent[s] /\ highestReceived[s] + n <= DataLength
      /\ byteOffset <= highestReceived[s] + n
  BY <1>2
<1> HIDE DEF n
<1>4. /\ highestReceived' \in [Ids -> Nat]
      /\ highestReceived'[s] = highestReceived[s] + n
      /\ \A r \in Streams \ {s} : highestReceived'[r] = highestReceived[r]
  BY <1>1, <1>2, <1>3, ContributeType
<1>5. highestReceived'[Conn] = Cardinality(Counted(highestReceived'))
  BY <1>1, <1>2, <1>3, ContributeExact DEF ConnectionExact
<1>6. \A r \in Streams : highestReceived[r] <= highestReceived'[r] /\ highestReceived'[r] <= bytesSent[r]
  BY <1>2, <1>3, <1>4
<1> QED BY <1>3, <1>4, <1>5, <1>6

\* The units up to an offset, as the offset grows.
LEMMA UpToGrows == \A k, l \in Nat : k <= l => 1..k \subseteq 1..l
OBVIOUS

\* A unit up to an offset is one of them.
LEMMA UpToHolds == \A k, l \in Nat : 1 <= k /\ k <= l => k \in 1..l
OBVIOUS

\* A stream frame raises the highest offset of its stream.
LEMMA ReceiveStreamFrameStep ==
  ASSUME IInv, NEW s \in Streams, NEW unit \in Units, ReceiveStreamFrame(s, unit)
  PROVE  IInv'
<1> USE DEF IInv
<1>1. /\ unit <= bytesSent[s]
      /\ controllers' = controllers \cup {s}
      /\ UpdateHighestReceived(s, unit)
      /\ arrived' = [arrived EXCEPT ![s] = @ \cup {unit}]
      /\ UNCHANGED <<sendVars, windowVars, bytesRead, removed, resetRemotely,
                     windowUpdates, blocked, peerBlocked>>
  BY DEF ReceiveStreamFrame
<1>2. unit \in Nat /\ 1 <= unit
  BY FlowAssumption DEF Units
<1>3. /\ highestReceived' \in [Ids -> Nat]
      /\ unit <= highestReceived'[s]
      /\ \A r \in Streams : highestReceived[r] <= highestReceived'[r] /\ highestReceived'[r] <= bytesSent[r]
      /\ highestReceived'[Conn] = Cardinality(Counted(highestReceived'))
  BY <1>1, <1>2, HighestReceivedOutcome
<1>4. TypeOK'
  BY <1>1, <1>3 DEF TypeOK, sendVars, windowVars
<1>5. Ordered'
  <2> SUFFICES ASSUME NEW r \in Streams
               PROVE  /\ bytesRead[r] <= highestReceived'[r]
                      /\ arrived'[r] \subseteq 1..highestReceived'[r]
    BY <1>1, <1>3 DEF Ordered, sendVars
  <2>1. /\ bytesRead[r] \in Nat /\ highestReceived[r] \in Nat /\ highestReceived'[r] \in Nat
        /\ bytesRead[r] <= highestReceived[r] /\ highestReceived[r] <= highestReceived'[r]
        /\ arrived[r] \subseteq 1..highestReceived[r]
    BY <1>3 DEF TypeOK, Ordered, Ids
  <2>2. arrived'[r] \subseteq 1..highestReceived'[r]
    <3> SUFFICES ASSUME NEW u \in arrived'[r] PROVE u \in 1..highestReceived'[r]
      BY Zenon
    <3>a. arrived' = [arrived EXCEPT ![s] = @ \cup {unit}]
      BY <1>1, Zenon
    <3>b. DOMAIN arrived = Streams
      BY Zenon DEF TypeOK
    <3>1. unit <= highestReceived'[s]
      BY <1>3, Zenon
    <3> HIDE DEF IInv
    <3>0. u \in arrived[r] \/ (r = s /\ u = unit)
      BY <3>a, <3>b
    <3>2. CASE u \in arrived[r]
      BY <3>2, <2>1, UpToGrows, Zenon
    <3>3. CASE r = s /\ u = unit
      BY <3>1, <3>3, <1>2, <2>1, UpToHolds, Zenon
    <3> QED BY <3>0, <3>2, <3>3, Zenon
  <2> QED BY <2>1, <2>2, SMTT(30), Zenon
<1>6. WindowRespected' /\ GrantsKept' /\ AboveHandshake'
  BY <1>1, Zenon DEF WindowRespected, GrantsKept, AboveHandshake, getSendWindow, sendVars, windowVars
<1>7. ConnectionExact'
  BY <1>1, <1>3, Zenon DEF ConnectionExact, Counted, sendVars
<1> QED BY <1>4, <1>5, <1>6, <1>7

\* A reset does so with the final offset.
LEMMA ReceiveResetStep ==
  ASSUME IInv, NEW s \in Streams, ReceiveReset(s)
  PROVE  IInv'
<1> USE DEF IInv
<1>1. /\ s \in rstSent
      /\ controllers' = controllers \cup {s}
      /\ resetRemotely' = resetRemotely \cup {s}
      /\ UpdateHighestReceived(s, bytesSent[s])
      /\ UNCHANGED <<sendVars, windowVars, bytesRead, removed, arrived,
                     windowUpdates, blocked, peerBlocked>>
  BY DEF ReceiveReset
<1>2. bytesSent[s] \in Nat /\ bytesSent[s] <= bytesSent[s]
  BY DEF TypeOK, Ids
<1>3. /\ highestReceived' \in [Ids -> Nat]
      /\ \A r \in Streams : highestReceived[r] <= highestReceived'[r] /\ highestReceived'[r] <= bytesSent[r]
      /\ highestReceived'[Conn] = Cardinality(Counted(highestReceived'))
  BY <1>1, <1>2, HighestReceivedOutcome
<1>4. TypeOK'
  BY <1>1, <1>3 DEF TypeOK, sendVars, windowVars
<1>5. Ordered'
  <2> SUFFICES ASSUME NEW r \in Streams
               PROVE  /\ bytesRead[r] <= highestReceived'[r]
                      /\ arrived[r] \subseteq 1..highestReceived'[r]
    BY <1>1, <1>3, Zenon DEF Ordered, sendVars
  <2>1. /\ bytesRead[r] \in Nat /\ highestReceived[r] \in Nat /\ highestReceived'[r] \in Nat
        /\ bytesRead[r] <= highestReceived[r] /\ highestReceived[r] <= highestReceived'[r]
        /\ arrived[r] \subseteq 1..highestReceived[r]
    BY <1>3 DEF TypeOK, Ordered, Ids
  <2> QED BY <2>1
<1>6. WindowRespected' /\ GrantsKept' /\ AboveHandshake'
  BY <1>1, Zenon DEF WindowRespected, GrantsKept, AboveHandshake, getSendWindow, sendVars, windowVars
<1>7. ConnectionExact'
  BY <1>1, <1>3 DEF ConnectionExact, Counted, sendVars
<1> QED BY <1>4, <1>5, <1>6, <1>7

\* AddBytesRead counts a unit that has arrived.
LEMMA ReadStep ==
  ASSUME IInv, NEW s \in Streams, Read(s)
  PROVE  IInv'
<1> USE DEF IInv
<1>1. /\ bytesRead[s] + 1 \in arrived[s]
      /\ bytesRead' = Contribute(bytesRead, s, 1)
      /\ autotuned' \subseteq Ids
      /\ UNCHANGED <<sendVars, receiveWindow, receiveWindowIncrement, highestReceived,
                     controllers, removed, resetRemotely, arrived,
                     windowUpdates, blocked, peerBlocked>>
  BY DEF Read, AddBytesRead, TypeOK
<1>2. bytesRead \in [Ids -> Nat] /\ 1 \in Nat
  BY DEF TypeOK
<1>3. /\ bytesRead' \in [Ids -> Nat]
      /\ bytesRead'[s] = bytesRead[s] + 1
      /\ \A r \in Streams \ {s} : bytesRead'[r] = bytesRead[r]
  <2>1. bytesRead' = Contribute(bytesRead, s, 1)
    BY <1>1, Zenon
  <2> HIDE DEF IInv
  <2> QED BY <1>2, <2>1, ContributeType
<1>4. bytesRead[s] + 1 <= highestReceived[s] /\ bytesRead[s] + 1 <= DataLength
  <2>1. /\ arrived[s] \subseteq 1..highestReceived[s]
        /\ highestReceived[s] <= bytesSent[s] /\ bytesSent[s] <= DataLength
        /\ highestReceived[s] \in Nat /\ bytesSent[s] \in Nat /\ DataLength \in Nat
    BY FlowAssumption DEF TypeOK, Ordered, Ids
  <2> QED BY <1>1, <2>1
<1>5. TypeOK'
  BY <1>1, <1>3 DEF TypeOK, sendVars
<1>6. Ordered'
  BY <1>1, <1>3, <1>4, Zenon DEF Ordered, sendVars
<1>7. WindowRespected' /\ GrantsKept' /\ AboveHandshake'
  BY <1>1 DEF WindowRespected, GrantsKept, AboveHandshake, getSendWindow, sendVars
<1>8. ConnectionExact'
  <2>1. bytesRead'[Conn] = Cardinality(Counted(bytesRead'))
    BY <1>1, <1>2, <1>4, ContributeExact, Zenon DEF ConnectionExact
  <2> QED BY <1>1, <2>1 DEF ConnectionExact, Counted, sendVars
<1> QED BY <1>5, <1>6, <1>7, <1>8

\* UpdateSendWindow takes an offset that the peer granted.
LEMMA ReceiveWindowUpdateStep ==
  ASSUME IInv, NEW u \in windowUpdates, ReceiveWindowUpdate(u)
  PROVE  IInv'
<1> USE DEF IInv
<1>1. /\ windowUpdates' = windowUpdates \ {u}
      /\ sendWindow' = [sendWindow EXCEPT ![u.id] = IF u.offset > @ THEN u.offset ELSE @]
      /\ UNCHANGED <<bytesSent, rstSent, windowVars, receiveVars, blocked, peerBlocked>>
  BY DEF ReceiveWindowUpdate, UpdateSendWindow
<1>2. /\ u.id \in Ids /\ u.offset \in Nat
      /\ u.offset <= receiveWindow[u.id] /\ Window(u.id) <= u.offset
  BY DEF TypeOK, GrantsKept, AboveHandshake
<1>3. sendWindow' \in [Ids -> Nat]
  BY <1>1, <1>2 DEF TypeOK
<1>4. TypeOK'
  BY <1>1, <1>3 DEF TypeOK, windowVars, receiveVars
<1>5. Ordered' /\ ConnectionExact'
  BY <1>1 DEF Ordered, ConnectionExact, Counted, receiveVars
<1>6. \A id \in Ids : /\ receiveWindow[id] \in Nat /\ bytesSent[id] \in Nat
                      /\ sendWindow[id] \in Nat /\ Window(id) \in Nat
                      /\ getSendWindow(id) \in Nat
                      /\ bytesSent[id] <= getSendWindow(id) /\ getSendWindow(id) <= receiveWindow[id]
  BY FlowAssumption DEF TypeOK, WindowRespected, GrantsKept, Window, getSendWindow
<1>7. WindowRespected' /\ GrantsKept' /\ AboveHandshake'
  <2>1. ASSUME NEW id \in Ids
        PROVE  bytesSent[id] <= getSendWindow(id)' /\ getSendWindow(id)' <= receiveWindow[id]
    <3>1. CASE sendWindow'[id] = sendWindow[id]
      BY <3>1, <1>6, Zenon DEF getSendWindow
    <3>2. CASE sendWindow'[id] # sendWindow[id]
      <4>1. id = u.id /\ sendWindow'[id] = u.offset /\ u.offset > sendWindow[id]
        BY <3>2, <1>1, <1>2 DEF TypeOK
      <4>2. getSendWindow(id)' = u.offset
        BY <4>1, <1>2, <1>6 DEF getSendWindow
      <4>3. getSendWindow(id) <= u.offset
        BY <4>1, <1>2, <1>6 DEF getSendWindow
      <4> QED BY <4>1, <4>2, <4>3, <1>2, <1>6
    <3> QED BY <3>1, <3>2
  <2> QED BY <1>1, <2>1, Zenon DEF WindowRespected, GrantsKept, AboveHandshake, windowVars
<1> QED BY <1>4, <1>5, <1>7

\* GetWindowUpdates raises receive windows and grants them to the peer.
LEMMA WindowUpdatesStep ==
  ASSUME IInv, NEW force, NEW fast, GetWindowUpdates(force, fast), peerBlocked' \in BOOLEAN,
         UNCHANGED <<sendVars, receiveVars, blocked>>
  PROVE  IInv'
<1> USE DEF IInv
<1>1. /\ GetWindowUpdates(force, fast)
      /\ peerBlocked' \in BOOLEAN
      /\ UNCHANGED <<sendVars, receiveVars, blocked>>
  OBVIOUS
<1>2. /\ receiveWindow' \in [Ids -> Nat]
      /\ \A id \in Ids : receiveWindow[id] <= receiveWindow'[id]
      /\ receiveWindowIncrement' \in [Ids -> Nat]
      /\ \A id \in Ids : receiveWindowIncrement'[id] <= MaxIncrement(id)
      /\ \A u \in windowUpdates' : u \in [id : Ids, offset : Nat] /\ u.offset <= receiveWindow'[u.id]
      /\ AboveHandshake'
      /\ autotuned' \subseteq Ids
  BY <1>1, GetWindowUpdatesOutcome
<1>3. TypeOK'
  BY <1>1, <1>2, Zenon DEF TypeOK, sendVars, receiveVars
<1>4. Ordered' /\ WindowRespected' /\ ConnectionExact'
  BY <1>1 DEF Ordered, WindowRespected, ConnectionExact, Counted, getSendWindow, sendVars, receiveVars
<1>5. GrantsKept'
  <2>1. ASSUME NEW id \in Ids PROVE getSendWindow(id)' <= receiveWindow'[id]
    <3>1. /\ getSendWindow(id)' = getSendWindow(id) /\ getSendWindow(id) \in Nat
          /\ receiveWindow[id] \in Nat /\ receiveWindow'[id] \in Nat
      BY <1>1, <1>2, FlowAssumption DEF getSendWindow, TypeOK, Window, sendVars
    <3> QED BY <3>1, <1>2 DEF GrantsKept
  <2> QED BY <2>1, <1>2 DEF GrantsKept
<1> QED BY <1>2, <1>3, <1>4, <1>5

\* Steps that leave the counters and the windows alone.
LEMMA OtherStep ==
  ASSUME IInv,
         UNCHANGED <<bytesSent, sendWindow, highestReceived, bytesRead, windowVars, arrived>>,
         windowUpdates' \subseteq windowUpdates,
         rstSent' \subseteq Streams, controllers' \subseteq Streams, removed' \subseteq Streams,
         UNCHANGED resetRemotely, blocked' \in BOOLEAN, peerBlocked' \in BOOLEAN
  PROVE  IInv'
<1> USE DEF IInv
<1>1. TypeOK'
  BY SMTT(30), Zenon DEF TypeOK, windowVars
<1>2. Ordered' /\ WindowRespected' /\ ConnectionExact'
  BY DEF Ordered, WindowRespected, ConnectionExact, Counted, getSendWindow
<1>3. GrantsKept' /\ AboveHandshake'
  BY Zenon DEF GrantsKept, AboveHandshake, getSendWindow, windowVars
<1> QED BY <1>1, <1>2, <1>3
----------------------------------------------------------------------------
\* IInv holds always: it holds at first, and every handler keeps it.
THEOREM Invariance == Spec => []IInv
<1>1. IInv /\ [Next]_vars => IInv'
  <2> SUFFICES ASSUME IInv, [Next]_vars PROVE IInv'
    OBVIOUS
  <2>t. TypeOK
    BY DEF IInv
  <2>1. ASSUME NEW s \in Streams, Send(s) PROVE IInv'
    BY <2>1, SendStep
  <2>2. ASSUME NEW s \in Streams, SendReset(s) PROVE IInv'
    BY <2>2, <2>t, OtherStep DEF SendReset, TypeOK, receiveVars
  <2>3. ASSUME NEW s \in Streams, NEW unit \in Units, ReceiveStreamFrame(s, unit) PROVE IInv'
    BY <2>3, ReceiveStreamFrameStep
  <2>4. ASSUME NEW s \in Streams, ReceiveReset(s) PROVE IInv'
    BY <2>4, ReceiveResetStep
  <2>5. ASSUME NEW s \in Streams, Read(s) PROVE IInv'
    BY <2>5, ReadStep
  <2>6. ASSUME NEW s \in Streams, RemoveStream(s) PROVE IInv'
    BY <2>6, <2>t, OtherStep DEF RemoveStream, TypeOK, sendVars
  <2>7. CASE ReceiveBlocked
    BY <2>7, <2>t, OtherStep, Zenon DEF ReceiveBlocked, TypeOK, sendVars, receiveVars
  <2>8. ASSUME NEW fast \in SUBSET autotuned, SendWindowUpdates(fast) \/ ackRemainingPaths(fast)
        PROVE  IInv'
    <3>1. CASE SendWindowUpdates(fast)
      BY <3>1, <2>t, WindowUpdatesStep, Zenon DEF SendWindowUpdates, TypeOK
    <3>2. CASE ackRemainingPaths(fast) /\ GetWindowUpdates(peerBlocked, fast)
      BY <3>2, WindowUpdatesStep, Zenon DEF ackRemainingPaths
    <3>3. CASE ackRemainingPaths(fast) /\ UNCHANGED <<windowVars, windowUpdates>>
      BY <3>3, <2>t, OtherStep, Zenon DEF ackRemainingPaths, TypeOK, sendVars, receiveVars
    <3> QED BY <2>8, <3>1, <3>2, <3>3, Zenon DEF ackRemainingPaths
  <2>9. ASSUME NEW u \in windowUpdates, ReceiveWindowUpdate(u) PROVE IInv'
    BY <2>9, ReceiveWindowUpdateStep
  <2>10. ASSUME NEW u \in windowUpdates, LoseWindowUpdate(u) PROVE IInv'
    BY <2>10, <2>t, OtherStep DEF LoseWindowUpdate, TypeOK, sendVars, receiveVars
  <2>11. CASE UNCHANGED vars
    BY <2>11, <2>t, OtherStep DEF vars, TypeOK, sendVars, receiveVars
  <2> QED BY <2>1, <2>2, <2>3, <2>4, <2>5, <2>6, <2>7, <2>8, <2>9, <2>10, <2>11 DEF Next
<1> QED BY <1>1, InitStep, PTL DEF Spec

\* The controllers keep their types, and increments their bounds.
THEOREM TypeCorrect == Spec => []TypeOK
<1>1. IInv => TypeOK
  BY DEF IInv
<1> QED BY <1>1, Invariance, PTL

\* The counters of the connection are exact.
THEOREM ConnectionCounts == Spec => []ConnectionExact
<1>1. IInv => ConnectionExact
  BY DEF IInv
<1> QED BY <1>1, Invariance, PTL

\* Every announced window is honoured.
THEOREM WindowsHonoured == Spec => []GrantsKept
<1>1. IInv => GrantsKept
  BY DEF IInv
<1> QED BY <1>1, Invariance, PTL

\* The unsigned difference in MaybeUpdateWindow does not wrap around.
THEOREM NoWrapAround == Spec => []ReadWithinReceived
<1>1. IInv => ReadWithinReceived
  <2> SUFFICES ASSUME IInv, NEW id \in Ids PROVE bytesRead[id] <= highestReceived[id]
    BY DEF ReadWithinReceived
  <2>1. CASE id \in Streams
    BY <2>1 DEF IInv, Ordered
  <2>2. CASE id = Conn
    <3>1. bytesRead \in [Ids -> Nat] /\ highestReceived \in [Ids -> Nat]
          /\ \A s \in Streams : bytesRead[s] <= highestReceived[s]
      BY DEF IInv, TypeOK, Ordered
    <3> QED BY <2>2, <3>1, CountedMonotone DEF IInv, ConnectionExact
  <2> QED BY <2>1, <2>2 DEF Ids
<1> QED BY <1>1, Invariance, PTL

\* A sender that obeys SendWindowSize never violates a window of the receiver,
\* neither a stream's nor the connection's.
THEOREM NoFlowControlViolation == Spec => []NoViolation
<1>1. IInv => NoViolation
  <2> SUFFICES ASSUME IInv, NEW id \in Ids PROVE highestReceived[id] <= receiveWindow[id]
    BY DEF NoViolation
  <2>1. /\ bytesSent[id] <= getSendWindow(id) /\ getSendWindow(id) <= receiveWindow[id]
        /\ bytesSent[id] \in Nat /\ receiveWindow[id] \in Nat /\ highestReceived[id] \in Nat
        /\ getSendWindow(id) \in Nat
    BY FlowAssumption DEF IInv, WindowRespected, GrantsKept, TypeOK, getSendWindow, Window
  <2>2. highestReceived[id] <= bytesSent[id]
    <3>1. CASE id \in Streams
      BY <3>1 DEF IInv, Ordered
    <3>2. CASE id = Conn
      <4>1. highestReceived \in [Ids -> Nat] /\ bytesSent \in [Ids -> Nat]
            /\ \A s \in Streams : highestReceived[s] <= bytesSent[s]
        BY DEF IInv, TypeOK, Ordered
      <4> QED BY <3>2, <4>1, CountedMonotone, Zenon DEF IInv, ConnectionExact
    <3> QED BY <3>1, <3>2 DEF Ids
  <2> QED BY <2>1, <2>2
<1> QED BY <1>1, Invariance, PTL
-----------------------------------------------------------------------------
(***************************************************************************)
(* Flow control never stops a transfer, for windows of two units or more.  *)
(*                                                                         *)
(* A sender without a window has sent as much as the newest window the     *)
(* receiver announced allows, once no update is under way (NewestKnown).   *)
(* If all of that was read, nothing of the window is left, and an update   *)
(* is due: the increments never fall below the windows of the handshake,   *)
(* and the stream has a controller, since something of it was read.        *)
(***************************************************************************)

\* The newest window is known to the sender or under way (MaybeUpdateWindow, and
\* the retransmission of updates that are not obsolete).
NewestKnown ==
  \A id \in Ids \ removed :
    \/ getSendWindow(id) = receiveWindow[id]
    \/ [id |-> id, offset |-> receiveWindow[id]] \in windowUpdates

\* The increments only grow (maybeAdjustWindowIncrement, EnsureMinimumWindowIncrement).
IncrementsKept == \A id \in Ids : Window(id) <= receiveWindowIncrement[id]

\* Only a stream that was read to its end or reset is removed, and one of which
\* something was read has a controller until then.
StreamsKept ==
  /\ resetRemotely \subseteq rstSent
  /\ \A s \in removed : s \in rstSent \/ bytesRead[s] = DataLength
  /\ \A s \in Streams : bytesRead[s] = 0 \/ s \in controllers \cup removed

PInv == IInv /\ NewestKnown /\ IncrementsKept /\ StreamsKept
----------------------------------------------------------------------------
\* EnsureMinimumWindowIncrement never lowers the increment.
LEMMA EnsuredIncrementGrows ==
  ASSUME TypeOK, NEW force, NEW fast
  PROVE  EnsuredIncrement(force, fast) >= receiveWindowIncrement[Conn]
<1>1. /\ receiveWindowIncrement[Conn] \in Nat /\ MaxConnIncrement \in Nat
      /\ receiveWindowIncrement[Conn] <= MaxConnIncrement
  BY FlowAssumption DEF TypeOK, Ids, MaxIncrement
<1>2. CASE ~Raised(force, fast)
  BY <1>1, <1>2 DEF EnsuredIncrement
<1>3. CASE Raised(force, fast)
  <2>1. MinimumIncrement(force, fast) > receiveWindowIncrement[Conn]
    BY <1>3 DEF Raised
  <2>2. MinimumIncrement(force, fast) \in Nat
    BY MinimumIncrementType
  <2>3. Min({MinimumIncrement(force, fast), MaxConnIncrement}) \in {MinimumIncrement(force, fast), MaxConnIncrement}
    BY <1>1, <2>2, MinOfTwo
  <2>4. EnsuredIncrement(force, fast) = Min({MinimumIncrement(force, fast), MaxConnIncrement})
    BY <1>3 DEF EnsuredIncrement
  <2> HIDE DEF EnsuredIncrement
  <2> QED BY <1>1, <2>1, <2>2, <2>3, <2>4
<1> QED BY <1>2, <1>3

\* After GetWindowUpdates the newest grants are on their way.
LEMMA WindowUpdatesProgress ==
  ASSUME PInv, NEW force, NEW fast, GetWindowUpdates(force, fast),
         UNCHANGED <<sendVars, receiveVars, blocked>>
  PROVE  NewestKnown' /\ IncrementsKept'
<1> DEFINE necessary == {s \in controllers : Necessary(s, receiveWindowIncrement[s])}
                          \cup {c \in {Conn} : ConnNecessary(force, fast)}
           increment(id) == IF id = Conn THEN ConnIncrement(force, fast)
                            ELSE IF id \in controllers THEN StreamIncrement(id, fast)
                            ELSE receiveWindowIncrement[id]
           sent == IF force THEN controllers \cup {Conn} ELSE necessary
<1>1. GetWindowUpdates(force, fast) /\ UNCHANGED <<sendVars, receiveVars, blocked>>
  OBVIOUS
<1>2. /\ receiveWindowIncrement' = [id \in Ids |-> increment(id)]
      /\ receiveWindow' = [id \in Ids |-> IF id \in necessary THEN NewWindow(id, increment(id))
                                                              ELSE receiveWindow[id]]
      /\ windowUpdates' = windowUpdates \cup {[id |-> id, offset |-> receiveWindow'[id]] : id \in sent}
  BY <1>1, Zenon DEF GetWindowUpdates
<1>3. TypeOK /\ necessary \subseteq sent
  BY DEF PInv, IInv, TypeOK
<1>4. IncrementsKept'
  <2> SUFFICES ASSUME NEW id \in Ids PROVE Window(id) <= increment(id)
    BY <1>2 DEF IncrementsKept
  <2>1. /\ Window(id) \in Nat /\ receiveWindowIncrement[id] \in Nat
        /\ Window(id) <= receiveWindowIncrement[id]
    BY <1>3, FlowAssumption DEF PInv, IncrementsKept, Window, TypeOK
  <2>2. CASE id = Conn
    <3>1. /\ ConnIncrement(force, fast) \in Nat /\ EnsuredIncrement(force, fast) \in Nat
          /\ ConnIncrement(force, fast) >= EnsuredIncrement(force, fast)
          /\ EnsuredIncrement(force, fast) >= receiveWindowIncrement[Conn]
      BY <1>3, ConnIncrementGrows, EnsuredIncrementBound, EnsuredIncrementGrows
    <3> QED BY <2>1, <2>2, <3>1
  <2>3. CASE id # Conn
    <3>1. id \in Streams
      BY <2>3 DEF Ids
    <3>2. StreamIncrement(id, fast) \in Nat /\ StreamIncrement(id, fast) >= receiveWindowIncrement[id]
      BY <1>3, <3>1, StreamIncrementGrows
    <3> QED BY <2>1, <2>3, <3>2
  <2> QED BY <2>2, <2>3, SMTT(30), Zenon
<1>5. NewestKnown'
  <2> HIDE DEF necessary, increment, sent
  <2> SUFFICES ASSUME NEW id \in Ids \ removed
               PROVE  \/ getSendWindow(id)' = receiveWindow'[id]
                      \/ [id |-> id, offset |-> receiveWindow'[id]] \in windowUpdates'
    BY <1>1, Zenon DEF NewestKnown, receiveVars
  <2>1. CASE id \in necessary
    BY <2>1, <1>2, <1>3
  <2>2. CASE id \notin necessary
    <3>1. receiveWindow'[id] = receiveWindow[id]
      BY <2>2, <1>2
    <3>2. getSendWindow(id)' = getSendWindow(id)
      BY <1>1 DEF getSendWindow, sendVars
    <3>3. windowUpdates \subseteq windowUpdates'
      BY <1>2
    <3> QED BY <3>1, <3>2, <3>3 DEF PInv, NewestKnown
  <2> QED BY <2>1, <2>2
<1> QED BY <1>4, <1>5

\* A grant that arrives leaves the newest one known or under way.
LEMMA WindowUpdateProgress ==
  ASSUME PInv, NEW u \in windowUpdates, ReceiveWindowUpdate(u)
  PROVE  NewestKnown'
<1>1. /\ windowUpdates' = windowUpdates \ {u}
      /\ sendWindow' = [sendWindow EXCEPT ![u.id] = IF u.offset > @ THEN u.offset ELSE @]
      /\ receiveWindow' = receiveWindow /\ removed' = removed
  BY DEF ReceiveWindowUpdate, UpdateSendWindow, windowVars, receiveVars
<1>2. u \in [id : Ids, offset : Nat] /\ u.offset <= receiveWindow[u.id] /\ Window(u.id) <= u.offset
  BY DEF PInv, IInv, TypeOK, GrantsKept, AboveHandshake
<1> SUFFICES ASSUME NEW id \in Ids \ removed
             PROVE  \/ getSendWindow(id)' = receiveWindow[id]
                    \/ [id |-> id, offset |-> receiveWindow[id]] \in windowUpdates \ {u}
  BY <1>1 DEF NewestKnown
<1>3. /\ receiveWindow[id] \in Nat /\ sendWindow \in [Ids -> Nat] /\ sendWindow[id] \in Nat
      /\ Window(id) \in Nat /\ getSendWindow(id) <= receiveWindow[id]
      /\ Window(id) <= receiveWindow[id]
  BY FlowAssumption DEF PInv, IInv, TypeOK, GrantsKept, AboveHandshake, Window
<1>4. CASE u = [id |-> id, offset |-> receiveWindow[id]]
  <2>1. u.id = id /\ u.offset = receiveWindow[id]
    BY <1>4
  <2>2. sendWindow'[id] = IF receiveWindow[id] > sendWindow[id] THEN receiveWindow[id] ELSE sendWindow[id]
    BY <1>1, <1>3, <2>1
  <2> QED BY <1>3, <2>2 DEF getSendWindow
<1>5. CASE u # [id |-> id, offset |-> receiveWindow[id]] /\ getSendWindow(id) = receiveWindow[id]
  <2>1. CASE u.id = id
    <3>1. sendWindow'[id] = IF u.offset > sendWindow[id] THEN u.offset ELSE sendWindow[id]
      BY <1>1, <1>3, <2>1
    <3> QED BY <1>2, <1>3, <1>5, <2>1, <3>1 DEF getSendWindow
  <2>2. CASE u.id # id
    <3>1. sendWindow'[id] = sendWindow[id]
      BY <1>1, <1>3, <2>2
    <3> QED BY <1>5, <3>1 DEF getSendWindow
  <2> QED BY <2>1, <2>2
<1> QED BY <1>4, <1>5 DEF PInv, NewestKnown

\* Steps that leave the windows alone and drop only updates that are obsolete.
LEMMA NewestKept ==
  ASSUME PInv, UNCHANGED <<sendWindow, receiveWindow, receiveWindowIncrement>>,
         removed \subseteq removed', windowUpdates' \subseteq windowUpdates,
         \A u \in windowUpdates \ windowUpdates' : Obsolete(u)
  PROVE  NewestKnown' /\ IncrementsKept'
<1>1. IncrementsKept'
  BY DEF PInv, IncrementsKept
<1>2. NewestKnown'
  <2> SUFFICES ASSUME NEW id \in Ids \ removed'
               PROVE  \/ getSendWindow(id) = receiveWindow[id]
                      \/ [id |-> id, offset |-> receiveWindow[id]] \in windowUpdates'
    BY DEF NewestKnown, getSendWindow
  <2> DEFINE newest == [id |-> id, offset |-> receiveWindow[id]]
  <2>1. receiveWindow[id] \in Nat
    BY SMTT(30), Zenon DEF PInv, IInv, TypeOK
  <2>2. ~Obsolete(newest)
    BY <2>1 DEF Obsolete
  <2>3. getSendWindow(id) = receiveWindow[id] \/ newest \in windowUpdates
    BY DEF PInv, NewestKnown
  <2> HIDE DEF newest
  <2>4. getSendWindow(id) = receiveWindow[id] \/ newest \in windowUpdates'
    BY <2>2, <2>3
  <2> QED BY <2>4 DEF newest
<1> QED BY <1>1, <1>2

\* Reading is done by a stream that has a controller.
LEMMA ReadProgress ==
  ASSUME PInv, NEW s \in Streams, Read(s)
  PROVE  StreamsKept'
<1>1. /\ bytesRead' = Contribute(bytesRead, s, 1)
      /\ s \in controllers /\ bytesRead[s] + 1 \in arrived[s]
      /\ UNCHANGED <<resetRemotely, rstSent, removed, controllers>>
  BY DEF Read, AddBytesRead, sendVars
<1>2. bytesRead[s] # DataLength
  <2>1. /\ bytesRead[s] \in Nat /\ highestReceived[s] \in Nat /\ bytesSent[s] \in Nat
        /\ arrived[s] \subseteq 1..highestReceived[s]
        /\ highestReceived[s] <= bytesSent[s] /\ bytesSent[s] <= DataLength /\ DataLength \in Nat
    BY FlowAssumption DEF PInv, IInv, TypeOK, Ordered, Ids
  <2> QED BY <1>1, <2>1
<1>3. \A t \in Streams \ {s} : bytesRead'[t] = bytesRead[t]
  BY <1>1, FlowAssumption DEF Contribute, Ids
<1>4. removed \subseteq Streams
  BY DEF PInv, IInv, TypeOK
<1> QED BY <1>1, <1>2, <1>3, <1>4, SMTT(30), Zenon DEF PInv, StreamsKept
----------------------------------------------------------------------------
\* The progress invariant holds always.
THEOREM ProgressInvariance == Spec => []PInv
<1>1. Init => PInv
  <2> SUFFICES ASSUME Init PROVE PInv
    OBVIOUS
  <2>1. NewestKnown
    BY DEF Init, NewestKnown, getSendWindow
  <2>2. IncrementsKept
    BY FlowAssumption DEF Init, IncrementsKept, Window
  <2>3. StreamsKept
    BY DEF Init, StreamsKept, Ids
  <2> QED BY <2>1, <2>2, <2>3, InitStep DEF PInv
<1>2. PInv /\ IInv' /\ [Next]_vars => PInv'
  <2> SUFFICES ASSUME PInv, [Next]_vars PROVE NewestKnown' /\ IncrementsKept' /\ StreamsKept'
    BY DEF PInv
  <2> USE DEF sendVars, windowVars, receiveVars
  <2>1. ASSUME NEW s \in Streams, Send(s) PROVE NewestKnown' /\ IncrementsKept' /\ StreamsKept'
    BY <2>1, NewestKept, Zenon DEF Send, PInv, StreamsKept
  <2>2. ASSUME NEW s \in Streams, SendReset(s) PROVE NewestKnown' /\ IncrementsKept' /\ StreamsKept'
    BY <2>2, NewestKept, Zenon DEF SendReset, PInv, StreamsKept
  <2>3. ASSUME NEW s \in Streams, NEW unit \in Units, ReceiveStreamFrame(s, unit)
        PROVE  NewestKnown' /\ IncrementsKept' /\ StreamsKept'
    BY <2>3, NewestKept, Zenon DEF ReceiveStreamFrame, PInv, StreamsKept
  <2>4. ASSUME NEW s \in Streams, ReceiveReset(s) PROVE NewestKnown' /\ IncrementsKept' /\ StreamsKept'
    BY <2>4, NewestKept, Zenon DEF ReceiveReset, PInv, StreamsKept
  <2>5. ASSUME NEW s \in Streams, Read(s) PROVE NewestKnown' /\ IncrementsKept' /\ StreamsKept'
    BY <2>5, NewestKept, ReadProgress, Zenon DEF Read
  <2>6. ASSUME NEW s \in Streams, RemoveStream(s) PROVE NewestKnown' /\ IncrementsKept' /\ StreamsKept'
    BY <2>6, NewestKept, Zenon DEF RemoveStream, PInv, StreamsKept
  <2>7. CASE ReceiveBlocked
    BY <2>7, NewestKept DEF ReceiveBlocked, PInv, StreamsKept
  <2>8. ASSUME NEW fast \in SUBSET autotuned, SendWindowUpdates(fast) \/ ackRemainingPaths(fast)
        PROVE  NewestKnown' /\ IncrementsKept' /\ StreamsKept'
    <3>1. StreamsKept'
      BY <2>8, Zenon DEF SendWindowUpdates, ackRemainingPaths, PInv, StreamsKept
    <3>2. CASE SendWindowUpdates(fast)
      BY <3>1, <3>2, WindowUpdatesProgress, Zenon DEF SendWindowUpdates
    <3>3. CASE ackRemainingPaths(fast) /\ GetWindowUpdates(peerBlocked, fast)
      BY <3>1, <3>3, WindowUpdatesProgress, Zenon DEF ackRemainingPaths
    <3>4. CASE ackRemainingPaths(fast) /\ UNCHANGED <<windowVars, windowUpdates>>
      BY <3>1, <3>4, NewestKept DEF ackRemainingPaths, PInv, StreamsKept
    <3> QED BY <2>8, <3>2, <3>3, <3>4, Zenon DEF ackRemainingPaths
  <2>9. ASSUME NEW u \in windowUpdates, ReceiveWindowUpdate(u)
        PROVE  NewestKnown' /\ IncrementsKept' /\ StreamsKept'
    BY <2>9, WindowUpdateProgress DEF ReceiveWindowUpdate, PInv, IncrementsKept, StreamsKept
  <2>10. ASSUME NEW u \in windowUpdates, LoseWindowUpdate(u)
         PROVE  NewestKnown' /\ IncrementsKept' /\ StreamsKept'
    BY <2>10, NewestKept DEF LoseWindowUpdate, PInv, StreamsKept
  <2>11. CASE UNCHANGED vars
    BY <2>11, NewestKept DEF vars, PInv, StreamsKept
  <2> QED BY <2>1, <2>2, <2>3, <2>4, <2>5, <2>6, <2>7, <2>8, <2>9, <2>10, <2>11 DEF Next
<1> QED BY <1>1, <1>2, Invariance, PTL DEF Spec

\* Flow control never stops a transfer: until all is read there is a unit to send,
\* to deliver or to read, or a WINDOW_UPDATE due or under way (GetWindowUpdates,
\* getSendWindow).
THEOREM TransferNeverStuck == Spec => []NeverStuck
<1>1. PInv => NeverStuck
  <2> SUFFICES ASSUME PInv, StreamWindow >= 2, ConnWindow >= 2, Stuck,
                      NEW s \in Streams, bytesRead[s] # DataLength
               PROVE  FALSE
    BY DEF NeverStuck
  <2>1. /\ TypeOK /\ Conn \in Ids /\ s \in Ids /\ Conn \notin removed /\ s \notin removed
    BY FlowAssumption DEF PInv, IInv, StreamsKept, Stuck, TypeOK, Ids
  <2>2. \A id \in Ids : /\ Window(id) \in Nat /\ Window(id) >= 2 /\ Window(id) <= receiveWindow[id]
                        /\ receiveWindow[id] \in Nat /\ bytesSent[id] \in Nat /\ bytesRead[id] \in Nat
                        /\ receiveWindowIncrement[id] \in Nat /\ receiveWindowIncrement[id] >= Window(id)
                        /\ bytesSent[id] <= getSendWindow(id) /\ getSendWindow(id) \in Nat
    BY FlowAssumption
       DEF PInv, IInv, TypeOK, Window, AboveHandshake, IncrementsKept, WindowRespected, getSendWindow
  <2>3. \A id \in Ids \ removed : getSendWindow(id) = receiveWindow[id]
    BY SMTT(30), Zenon DEF PInv, NewestKnown, Stuck
  <2>4. ASSUME NEW id \in Ids \ removed, ControllerSendWindow(id) = 0, bytesRead[id] = bytesSent[id],
               NEW increment \in Nat, increment >= 2
        PROVE  Necessary(id, increment) /\ bytesRead[id] # 0
    <3>1. bytesSent[id] = receiveWindow[id]
      BY <2>2, <2>3, <2>4 DEF ControllerSendWindow
    <3> QED BY <2>2, <2>4, <3>1 DEF Necessary
  <2>5. ControllerSendWindow(s) # 0
    <3> SUFFICES ASSUME ControllerSendWindow(s) = 0 PROVE FALSE
      OBVIOUS
    <3>1. bytesRead[s] = bytesSent[s]
      BY DEF Stuck
    <3>2. Necessary(s, receiveWindowIncrement[s]) /\ bytesRead[s] # 0
      BY <2>1, <2>2, <2>4, <3>1
    <3>3. s \in controllers
      BY <2>1, <3>2 DEF PInv, StreamsKept
    <3> QED BY <3>2, <3>3 DEF Stuck, Updated
  <2>6. ControllerSendWindow(Conn) # 0
    <3> SUFFICES ASSUME ControllerSendWindow(Conn) = 0 PROVE FALSE
      OBVIOUS
    <3>1. Counted(bytesRead) = Counted(bytesSent)
      BY FlowAssumption DEF Stuck, Counted
    <3>2. bytesRead[Conn] = bytesSent[Conn]
      BY <3>1 DEF PInv, IInv, ConnectionExact
    <3> DEFINE increment == EnsuredIncrement(FALSE, {})
    <3>3. increment \in Nat /\ increment >= 2
      <4>1. increment \in Nat
        BY <2>1, EnsuredIncrementBound, Zenon
      <4>2. increment >= receiveWindowIncrement[Conn]
        BY <2>1, EnsuredIncrementGrows, Zenon
      <4>3. /\ receiveWindowIncrement[Conn] \in Nat /\ Window(Conn) \in Nat
            /\ receiveWindowIncrement[Conn] >= Window(Conn) /\ Window(Conn) >= 2
        BY <2>1, <2>2
      <4> HIDE DEF increment
      <4> QED BY <4>1, <4>2, <4>3
    <3>4. Necessary(Conn, increment)
      <4> HIDE DEF increment
      <4> QED BY <2>1, <2>4, <3>2, <3>3
    <3> QED BY <3>4, Zenon DEF Stuck, ConnNecessary
  <2>7. SendWindowSize(s) = 0
    BY DEF Stuck
  <2>8. ControllerSendWindow(s) \in Nat /\ ControllerSendWindow(Conn) \in Nat
    BY <2>1, <2>2 DEF ControllerSendWindow
  <2> QED BY <2>5, <2>6, <2>7, <2>8, MinOfTwo DEF SendWindowSize
<1> QED BY <1>1, ProgressInvariance, PTL
=============================================================================
