--------------------- MODULE ReceivedPacketHistoryProofs ---------------------
(***************************************************************************)
(* That the interval list of received_packet_history.go implements a set   *)
(* of packet numbers, proved for any bound on the numbers and any limit on *)
(* the length of the list.  AckPath keeps the received packets as such a   *)
(* set.                                                                    *)
(*                                                                         *)
(* The invariant, Ordered, says that the intervals ascend and that there   *)
(* is a hole between any two of them.  The hole is what the loop of        *)
(* ReceivedPacket relies on when it stops at the first interval from the   *)
(* back that p touches: no interval before it can touch p but its          *)
(* neighbour, with which it is then merged.                                *)
(***************************************************************************)
EXTENDS ReceivedPacketHistory, Integers, SequenceTheorems, WellFoundedInduction, TLAPS

\* The elements of the list.
Intervals == [Start : Nat, End : Nat]

\* Disjoint intervals in ascending order, with a hole between any two.
Ordered(r) ==
    /\ r \in Seq(Intervals)
    /\ \A i \in 1 .. Len(r) : r[i].Start <= r[i].End
    /\ \A i, j \in 1 .. Len(r) : i < j => r[i].End + 1 < r[j].Start

\* The number q lies in an interval of r.
Holds(r, q) == \E i \in 1 .. Len(r) : r[i].Start <= q /\ q <= r[i].End

\* s holds the numbers of r and p.
Adds(r, s, p) == Ordered(s) /\ \A q \in Nat : Holds(s, q) <=> (Holds(r, q) \/ q = p)

\* The start of a cut interval lies above p and within the interval.
LEMMA CutStart ==
    ASSUME NEW p \in Nat, NEW a \in Nat, NEW b \in Nat, a <= b, b > p,
           NEW low, low = IF p >= a THEN p + 1 ELSE a
    PROVE  low \in Nat /\ low <= b /\ low > p /\ a <= low
OBVIOUS

\* A number above p that the interval held is not cut off.
LEMMA CutKeeps ==
    ASSUME NEW p \in Nat, NEW a \in Nat, NEW q \in Nat, q > p, a <= q,
           NEW low, low = IF p >= a THEN p + 1 ELSE a
    PROVE  low <= q
OBVIOUS

\* What lies in a kept interval lies above p.
LEMMA AboveCut ==
    ASSUME NEW p \in Nat, NEW low \in Nat, NEW q \in Nat, low > p, low <= q
    PROVE  q > p
OBVIOUS

\* An interval starts where an earlier bound on it allows.
LEMMA AtMostTransitive ==
    ASSUME NEW a \in Nat, NEW low \in Nat, NEW q \in Nat, a <= low, low <= q
    PROVE  a <= q
OBVIOUS

\* What lies in an interval behind the cut one lies above p.
LEMMA BeyondHole ==
    ASSUME NEW p \in Nat, NEW x \in Nat, NEW y \in Nat, NEW q \in Nat,
           x > p, x + 1 < y, y <= q
    PROVE  q > p
OBVIOUS

\* Where an interval behind the first kept one moves to.
LEMMA ShiftedIndex ==
    ASSUME NEW m \in Nat, NEW i \in 1 .. m, NEW k \in 1 .. m, k > i, NEW n, n = m - i + 1
    PROVE  k - i + 1 \in 1 .. n /\ k - i + 1 # 1 /\ i + (k - i + 1) - 1 = k
OBVIOUS

\* A set of naturals that is not empty has a least member.
LEMMA LeastExists ==
    ASSUME NEW S, S \subseteq Nat, S # {}
    PROVE  \E x \in S : \A y \in S : x <= y
<1>1. PICK x \in S : \A y \in S : ~(<<y, x>> \in OpToRel(<, Nat))
  BY WFMin, NatLessThanWellFounded, Zenon
<1>2. \A y \in S : ~(y < x)
  BY <1>1, Zenon DEF OpToRel
<1> QED BY <1>2

\* A bounded set of naturals that is not empty has a greatest member.
LEMMA GreatestExists ==
    ASSUME NEW S, NEW n \in Nat, S \subseteq 0 .. n, S # {}
    PROVE  \E x \in S : \A y \in S : y <= x
<1> DEFINE T == {n - x : x \in S}
<1>1. T \subseteq Nat /\ T # {}
  <2>1. \A x \in S : n - x \in Nat
    OBVIOUS
  <2>2. PICK x \in S : TRUE
    BY Zenon
  <2>3. n - x \in T
    BY <2>2
  <2> QED BY <2>1, <2>3
<1>2. PICK t \in T : \A y \in T : t <= y
  BY <1>1, LeastExists, Zenon
<1>3. PICK x \in S : t = n - x
  BY <1>2
<1>4. \A y \in S : y <= x
  <2> TAKE y \in S
  <2>1. n - x <= n - y
    BY <1>2, <1>3
  <2> QED BY <2>1
<1> QED BY <1>4

\* Reading a list from which an element was removed.
LEMMA AfterRemoval ==
    ASSUME NEW r \in Seq(Intervals), NEW i \in 1 .. Len(r)
    PROVE  /\ ListRemove(r, i) \in Seq(Intervals)
           /\ Len(ListRemove(r, i)) = Len(r) - 1
           /\ \A j \in 1 .. Len(r) - 1 : ListRemove(r, i)[j] = IF j < i THEN r[j] ELSE r[j + 1]
<1> DEFINE a == SubSeq(r, 1, i - 1)
           b == SubSeq(r, i + 1, Len(r))
<1>0. Len(r) \in Nat /\ \A j \in 1 .. Len(r) : r[j] \in Intervals
  BY LenProperties, ElementOfSeq
<1>1. a \in Seq(Intervals) /\ Len(a) = i - 1 /\ \A j \in 1 .. i - 1 : a[j] = r[j]
  <2>1. \A j \in 1 .. i - 1 : r[j] \in Intervals
    BY <1>0
  <2> QED BY <2>1, <1>0, SubSeqProperties
<1>2. b \in Seq(Intervals) /\ Len(b) = Len(r) - i /\ \A j \in 1 .. Len(r) - i : b[j] = r[i + j]
  <2>1. \A j \in i + 1 .. Len(r) : r[j] \in Intervals
    BY <1>0
  <2> QED BY <2>1, <1>0, SubSeqProperties
<1> HIDE DEF a, b
<1>3. ListRemove(r, i) = a \o b
  BY DEF ListRemove, a, b
<1>4. /\ a \o b \in Seq(Intervals)
      /\ Len(a \o b) = Len(a) + Len(b)
      /\ \A j \in 1 .. Len(a) + Len(b) : (a \o b)[j] = IF j <= Len(a) THEN a[j] ELSE b[j - Len(a)]
  BY <1>1, <1>2, ConcatProperties, Zenon
<1>5. ASSUME NEW j \in 1 .. Len(r) - 1
      PROVE  (a \o b)[j] = IF j < i THEN r[j] ELSE r[j + 1]
  <2>1. CASE j < i
    BY <2>1, <1>0, <1>1, <1>2, <1>4
  <2>2. CASE j >= i
    <3>1. (a \o b)[j] = b[j - (i - 1)]
      <4>1. Len(r) \in Nat /\ Len(a) = i - 1 /\ Len(b) = Len(r) - i
        BY <1>0, <1>1, <1>2
      <4>2. j \in 1 .. Len(a) + Len(b) /\ ~(j <= Len(a))
        BY <4>1, <2>2
      <4>3. (a \o b)[j] = b[j - Len(a)]
        BY <4>2, <1>4
      <4> QED BY <4>1, <4>3
    <3>2. j - (i - 1) \in 1 .. Len(r) - i /\ i + (j - (i - 1)) = j + 1
      BY <2>2, <1>0
    <3>3. b[j - (i - 1)] = r[i + (j - (i - 1))]
      BY <3>2, <1>2
    <3> QED BY <3>1, <3>2, <3>3, <2>2, SMTT(30)
  <2>3. j < i \/ j >= i
    BY <1>0
  <2> QED BY <2>1, <2>2, <2>3, Zenon
<1> QED BY <1>0, <1>1, <1>2, <1>3, <1>4, <1>5, SMTT(30)

\* Reading a list into which an element was inserted.
LEMMA AfterInsertion ==
    ASSUME NEW r \in Seq(Intervals), NEW i \in 1 .. Len(r) + 1, NEW e \in Intervals
    PROVE  /\ ListInsert(r, i, e) \in Seq(Intervals)
           /\ Len(ListInsert(r, i, e)) = Len(r) + 1
           /\ \A j \in 1 .. Len(r) + 1 :
                 ListInsert(r, i, e)[j] = IF j < i THEN r[j] ELSE IF j = i THEN e ELSE r[j - 1]
<1> DEFINE a == SubSeq(r, 1, i - 1)
           b == SubSeq(r, i, Len(r))
           c == a \o <<e>>
<1>0. Len(r) \in Nat /\ \A j \in 1 .. Len(r) : r[j] \in Intervals
  BY LenProperties, ElementOfSeq
<1>1. a \in Seq(Intervals) /\ Len(a) = i - 1 /\ \A j \in 1 .. i - 1 : a[j] = r[j]
  <2>1. \A j \in 1 .. i - 1 : r[j] \in Intervals
    BY <1>0
  <2> QED BY <2>1, <1>0, SubSeqProperties
<1>2. b \in Seq(Intervals) /\ Len(b) = Len(r) - i + 1 /\ \A j \in 1 .. Len(r) - i + 1 : b[j] = r[i + j - 1]
  <2>1. \A j \in i .. Len(r) : r[j] \in Intervals
    BY <1>0
  <2> QED BY <2>1, <1>0, SubSeqProperties
<1> HIDE DEF a, b
<1>3. c \in Seq(Intervals) /\ Len(c) = i /\ \A j \in 1 .. i : c[j] = IF j < i THEN a[j] ELSE e
  <2>1. <<e>> \in Seq(Intervals) /\ Len(<<e>>) = 1 /\ <<e>>[1] = e
    OBVIOUS
  <2>2. /\ c \in Seq(Intervals)
        /\ Len(c) = Len(a) + Len(<<e>>)
        /\ \A j \in 1 .. Len(a) + Len(<<e>>) : c[j] = IF j <= Len(a) THEN a[j] ELSE <<e>>[j - Len(a)]
    BY <1>1, <2>1, ConcatProperties, Zenon
  <2>3. \A j \in 1 .. i : c[j] = IF j < i THEN a[j] ELSE e
    <3> HIDE DEF c
    <3> TAKE j \in 1 .. i
    <3>1. CASE j < i
      BY <3>1, <2>1, <2>2, <1>1, <1>0
    <3>2. CASE j = i
      <4>1. j - Len(a) = 1 /\ ~(j <= Len(a)) /\ j \in 1 .. Len(a) + Len(<<e>>)
        BY <3>2, <2>1, <1>1, <1>0
      <4>2. c[j] = <<e>>[j - Len(a)]
        BY <4>1, <2>2
      <4> QED BY <4>1, <4>2, <2>1, <3>2
    <3> QED BY <3>1, <3>2, <1>0
  <2>4. Len(c) = (i - 1) + 1
    BY <2>1, <2>2, <1>1
  <2>5. (i - 1) + 1 = i
    BY <1>0
  <2> QED BY <2>2, <2>3, <2>4, <2>5
<1>4. ListInsert(r, i, e) = c \o b
  BY DEF ListInsert, a, b
<1> HIDE DEF c
<1>5. /\ c \o b \in Seq(Intervals)
      /\ Len(c \o b) = Len(c) + Len(b)
      /\ \A j \in 1 .. Len(c) + Len(b) : (c \o b)[j] = IF j <= Len(c) THEN c[j] ELSE b[j - Len(c)]
  BY <1>2, <1>3, ConcatProperties
<1>6. ASSUME NEW j \in 1 .. Len(r) + 1
      PROVE  (c \o b)[j] = IF j < i THEN r[j] ELSE IF j = i THEN e ELSE r[j - 1]
  <2>1. CASE j <= i
    <3>1. (c \o b)[j] = c[j]
      BY <2>1, <1>0, <1>2, <1>3, <1>5
    <3> QED BY <3>1, <2>1, <1>0, <1>1, <1>3
  <2>2. CASE j > i
    <3>1. (c \o b)[j] = b[j - i]
      BY <2>2, <1>0, <1>2, <1>3, <1>5
    <3>2. j - i \in 1 .. Len(r) - i + 1 /\ i + (j - i) - 1 = j - 1
      BY <2>2, <1>0
    <3>3. b[j - i] = r[i + (j - i) - 1]
      BY <3>2, <1>2
    <3>4. ~(j < i) /\ j # i
      BY <2>2, <1>0
    <3> QED BY <3>1, <3>2, <3>3, <3>4
  <2>3. j <= i \/ j > i
    BY <1>0
  <2> QED BY <2>1, <2>2, <2>3, Zenon
<1> QED BY <1>0, <1>2, <1>3, <1>4, <1>5, <1>6, SMTT(30)

\* An interval that takes in p and still leaves a hole on both sides.
LEMMA Grown ==
    ASSUME NEW r, Ordered(r), NEW i \in 1 .. Len(r), NEW p \in Nat, NEW iv \in Intervals,
           iv.Start <= iv.End,
           \A q \in Nat : (iv.Start <= q /\ q <= iv.End)
                             <=> ((r[i].Start <= q /\ q <= r[i].End) \/ q = p),
           \A j \in 1 .. Len(r) : j < i => r[j].End + 1 < iv.Start,
           \A j \in 1 .. Len(r) : i < j => iv.End + 1 < r[j].Start
    PROVE  Adds(r, [r EXCEPT ![i] = iv], p)
<1> DEFINE s == [r EXCEPT ![i] = iv]
<1>0. r \in Seq(Intervals) /\ Len(r) \in Nat
  BY LenProperties DEF Ordered
<1>1. s \in Seq(Intervals) /\ Len(s) = Len(r)
      /\ \A j \in 1 .. Len(r) : s[j] = IF j = i THEN iv ELSE r[j]
  BY <1>0, ExceptSeq
<1> HIDE DEF s
<1>2. Ordered(s)
  <2>1. \A j \in 1 .. Len(s) : s[j].Start <= s[j].End
    BY <1>0, <1>1 DEF Ordered
  <2>2. ASSUME NEW j \in 1 .. Len(s), NEW k \in 1 .. Len(s), j < k
        PROVE  s[j].End + 1 < s[k].Start
    BY <2>2, <1>0, <1>1 DEF Ordered
  <2> QED BY <1>1, <2>1, <2>2, Zenon DEF Ordered
<1>3. ASSUME NEW q \in Nat
      PROVE  Holds(s, q) <=> (Holds(r, q) \/ q = p)
  <2>1. ASSUME Holds(s, q) PROVE Holds(r, q) \/ q = p
    <3>1. PICK j \in 1 .. Len(r) : s[j].Start <= q /\ q <= s[j].End
      BY <2>1, <1>1 DEF Holds
    <3> QED BY <3>1, <1>1 DEF Holds
  <2>2. ASSUME Holds(r, q) \/ q = p PROVE Holds(s, q)
    <3>1. CASE q = p
      BY <3>1, <1>0, <1>1 DEF Holds
    <3>2. CASE Holds(r, q)
      <4>1. PICK j \in 1 .. Len(r) : r[j].Start <= q /\ q <= r[j].End
        BY <3>2 DEF Holds
      <4>2. s[j].Start <= q /\ q <= s[j].End
        BY <4>1, <1>0, <1>1
      <4> QED BY <4>2, <1>1 DEF Holds
    <3> QED BY <2>2, <3>1, <3>2
  <2> QED BY <2>1, <2>2
<1> QED BY <1>2, <1>3, Zenon DEF Adds, s

\* Two neighbours with only p between them become one.
LEMMA Merged ==
    ASSUME NEW r, Ordered(r), NEW i \in 2 .. Len(r), NEW p \in Nat,
           r[i - 1].End + 1 = p, p + 1 = r[i].Start
    PROVE  Adds(r, [ListRemove(r, i) EXCEPT ![i - 1].End = r[i].End], p)
<1>0. /\ r \in Seq(Intervals) /\ Len(r) \in Nat
      /\ \A j \in 1 .. Len(r) : r[j] \in Intervals /\ r[j].Start \in Nat /\ r[j].End \in Nat
  <2>1. r \in Seq(Intervals) /\ Len(r) \in Nat /\ \A j \in 1 .. Len(r) : r[j] \in Intervals
    BY LenProperties, ElementOfSeq DEF Ordered
  <2> QED BY <2>1, Zenon DEF Intervals
<1>1. i \in 1 .. Len(r) /\ i - 1 \in 1 .. Len(r) /\ i - 1 \in 1 .. Len(r) - 1
  BY <1>0
<1>2. PICK t : t = ListRemove(r, i)
  OBVIOUS
<1>3. /\ t \in Seq(Intervals)
      /\ Len(t) = Len(r) - 1
      /\ \A j \in 1 .. Len(r) - 1 : t[j] = IF j < i THEN r[j] ELSE r[j + 1]
  BY <1>0, <1>1, <1>2, AfterRemoval, Zenon
<1>4. PICK lo \in Intervals : lo = r[i - 1]
  BY <1>0, <1>1, Zenon
<1>5. PICK hi \in Intervals : hi = r[i]
  BY <1>0, <1>1, Zenon
<1>6. /\ lo.Start \in Nat /\ lo.End \in Nat /\ hi.Start \in Nat /\ hi.End \in Nat
      /\ lo.Start <= lo.End /\ hi.Start <= hi.End
      /\ lo.End + 1 = p /\ p + 1 = hi.Start
  BY <1>0, <1>1, <1>4, <1>5, Zenon DEF Ordered
<1>7. PICK iv \in Intervals : iv = [Start |-> lo.Start, End |-> hi.End]
  BY <1>6, Zenon DEF Intervals
<1>8. iv.Start = lo.Start /\ iv.End = hi.End /\ iv.Start <= iv.End
  BY <1>6, <1>7, SMTT(30)
<1>9. PICK s : s = [t EXCEPT ![i - 1].End = r[i].End]
  BY Zenon
<1>10. s = [t EXCEPT ![i - 1] = iv]
  <2>1. t[i - 1] = lo
    BY <1>1, <1>3, <1>4
  <2>2. [lo EXCEPT !.End = hi.End] = iv
    BY <1>7, SMTT(30) DEF Intervals
  <2>3. s = [t EXCEPT ![i - 1] = [t[i - 1] EXCEPT !.End = r[i].End]]
    BY <1>9
  <2> QED BY <2>1, <2>2, <2>3, <1>5, Zenon
<1>11. s \in Seq(Intervals) /\ Len(s) = Len(r) - 1
       /\ \A j \in 1 .. Len(r) - 1 : s[j] = IF j = i - 1 THEN iv ELSE t[j]
  <2>1. i - 1 \in 1 .. Len(t)
    BY <1>1, <1>3
  <2>2. /\ [t EXCEPT ![i - 1] = iv] \in Seq(Intervals)
        /\ Len([t EXCEPT ![i - 1] = iv]) = Len(t)
        /\ \A j \in 1 .. Len(t) : [t EXCEPT ![i - 1] = iv][j] = IF j = i - 1 THEN iv ELSE t[j]
    BY <1>3, <2>1, ExceptSeq
  <2> QED BY <2>2, <1>3, <1>10
<1>12. \A j \in 1 .. Len(r) - 1 : /\ j < i - 1 => s[j] = r[j]
                                  /\ j = i - 1 => s[j] = iv
                                  /\ j >= i => s[j] = r[j + 1]
  <2> TAKE j \in 1 .. Len(r) - 1
  <2>1. s[j] = IF j = i - 1 THEN iv ELSE IF j < i THEN r[j] ELSE r[j + 1]
    BY <1>3, <1>11, Zenon
  <2> QED BY <2>1, <1>0
<1>13. Ordered(s)
  <2>1. \A j \in 1 .. Len(s) : s[j].Start <= s[j].End
    <3> TAKE j \in 1 .. Len(s)
    <3>1. CASE j = i - 1
      BY <3>1, <1>8, <1>11, <1>12, Zenon
    <3>2. CASE j # i - 1
      <4>1. PICK k \in 1 .. Len(r) : s[j] = r[k]
        BY <3>2, <1>0, <1>11, <1>12
      <4> QED BY <4>1 DEF Ordered
    <3> QED BY <3>1, <3>2
  <2>2. ASSUME NEW j \in 1 .. Len(s), NEW k \in 1 .. Len(s), j < k
        PROVE  s[j].End + 1 < s[k].Start
    <3>1. PICK a \in 1 .. Len(r) : s[j].End = r[a].End /\ a = IF j < i - 1 THEN j ELSE j + 1
      <4>1. CASE j < i - 1
        BY <4>1, <1>0, <1>11, <1>12, SMTT(30)
      <4>2. CASE j = i - 1
        BY <4>2, <1>0, <1>1, <1>5, <1>8, <1>11, <1>12, SMTT(30)
      <4>3. CASE j >= i
        <5>1. j + 1 \in 1 .. Len(r) /\ ~(j < i - 1)
          BY <4>3, <1>0, <1>11
        <5>2. s[j] = r[j + 1]
          BY <4>3, <1>11, <1>12
        <5> QED BY <5>1, <5>2
      <4> QED BY <4>1, <4>2, <4>3, <1>0, <1>11
    <3>2. PICK b \in 1 .. Len(r) : s[k].Start = r[b].Start /\ b = IF k < i THEN k ELSE k + 1
      <4>1. CASE k < i - 1
        <5>1. k \in 1 .. Len(r) /\ k < i
          BY <4>1, <1>0, <1>11
        <5>2. s[k] = r[k]
          BY <4>1, <1>11, <1>12
        <5> QED BY <5>1, <5>2
      <4>2. CASE k = i - 1
        BY <4>2, <1>0, <1>1, <1>4, <1>8, <1>11, <1>12, SMTT(30)
      <4>3. CASE k >= i
        <5>1. k + 1 \in 1 .. Len(r) /\ ~(k < i)
          BY <4>3, <1>0, <1>11
        <5>2. s[k] = r[k + 1]
          BY <4>3, <1>11, <1>12
        <5> QED BY <5>1, <5>2
      <4> QED BY <4>1, <4>2, <4>3, <1>0, <1>11
    <3>3. a < b
      BY <2>2, <3>1, <3>2, <1>0, <1>11, SMTT(30)
    <3> QED BY <3>1, <3>2, <3>3, Zenon DEF Ordered
  <2> QED BY <1>11, <2>1, <2>2, Zenon DEF Ordered
<1>14. ASSUME NEW q \in Nat
       PROVE  Holds(s, q) <=> (Holds(r, q) \/ q = p)
  <2>1. ASSUME Holds(s, q) PROVE Holds(r, q) \/ q = p
    <3>1. PICK j \in 1 .. Len(r) - 1 : s[j].Start <= q /\ q <= s[j].End
      BY <2>1, <1>11, Zenon DEF Holds
    <3>2. CASE j = i - 1
      <4>1. lo.Start <= q /\ q <= hi.End
        BY <3>1, <3>2, <1>8, <1>12, Zenon
      <4>2. q <= lo.End \/ q = p \/ hi.Start <= q
        BY <1>6
      <4> QED BY <4>1, <4>2, <1>1, <1>4, <1>5, Zenon DEF Holds
    <3>3. CASE j # i - 1
      <4>1. PICK k \in 1 .. Len(r) : s[j] = r[k]
        <5>1. CASE j < i - 1
          BY <5>1, <1>0, <1>12
        <5>2. CASE j >= i
          <6>1. j + 1 \in 1 .. Len(r)
            BY <1>0, SMTT(30)
          <6> QED BY <5>2, <6>1, <1>12, Zenon
        <5> QED BY <3>3, <5>1, <5>2, <1>0
      <4> QED BY <3>1, <4>1, Zenon DEF Holds
    <3> QED BY <3>2, <3>3
  <2>2. ASSUME Holds(r, q) \/ q = p PROVE Holds(s, q)
    <3>0. iv.Start <= q /\ q <= iv.End => Holds(s, q)
      BY <1>1, <1>11, <1>12, Zenon DEF Holds
    <3>1. CASE q = p
      BY <3>0, <3>1, <1>6, <1>8, SMTT(30), Zenon
    <3>2. CASE Holds(r, q)
      <4>1. PICK k \in 1 .. Len(r) : r[k].Start <= q /\ q <= r[k].End
        BY <3>2, Zenon DEF Holds
      <4>2. CASE k = i - 1
        BY <4>1, <4>2, <3>0, <1>4, <1>6, <1>8, SMTT(30)
      <4>3. CASE k = i
        BY <4>1, <4>3, <3>0, <1>5, <1>6, <1>8, SMTT(30)
      <4>4. CASE k # i - 1 /\ k # i
        <5>1. PICK j \in 1 .. Len(r) - 1 : s[j] = r[k]
          <6>1. CASE k < i
            BY <6>1, <4>4, <1>0, <1>12
          <6>2. CASE k > i
            <7>1. k - 1 \in 1 .. Len(r) - 1 /\ k - 1 >= i /\ (k - 1) + 1 = k
              BY <6>2, <1>0
            <7>2. s[k - 1] = r[(k - 1) + 1]
              BY <7>1, <1>12
            <7> QED BY <7>1, <7>2
          <6>3. k < i \/ k > i
            BY <4>4, <1>0
          <6> QED BY <6>1, <6>2, <6>3
        <5> QED BY <5>1, <4>1, <1>11, Zenon DEF Holds
      <4> QED BY <4>2, <4>3, <4>4
    <3> QED BY <2>2, <3>1, <3>2
  <2> QED BY <2>1, <2>2, Zenon
<1> QED BY <1>2, <1>9, <1>13, <1>14, Zenon DEF Adds

\* A new interval of p alone, in a hole or at an end of the list.
LEMMA Inserted ==
    ASSUME NEW r, Ordered(r), NEW i \in 1 .. Len(r) + 1, NEW p \in Nat,
           \A j \in 1 .. Len(r) : j < i => r[j].End + 1 < p,
           \A j \in 1 .. Len(r) : i <= j => p + 1 < r[j].Start
    PROVE  Adds(r, ListInsert(r, i, [Start |-> p, End |-> p]), p)
<1>0. r \in Seq(Intervals) /\ Len(r) \in Nat
  BY LenProperties DEF Ordered
<1>1. PICK iv \in Intervals : iv = [Start |-> p, End |-> p]
  BY Zenon DEF Intervals
<1>2. iv.Start = p /\ iv.End = p
  BY <1>1
<1>3. PICK s : s = ListInsert(r, i, iv)
  OBVIOUS
<1>4. /\ s \in Seq(Intervals)
      /\ Len(s) = Len(r) + 1
      /\ \A j \in 1 .. Len(r) + 1 : s[j] = IF j < i THEN r[j] ELSE IF j = i THEN iv ELSE r[j - 1]
  <2>1. /\ ListInsert(r, i, iv) \in Seq(Intervals)
        /\ Len(ListInsert(r, i, iv)) = Len(r) + 1
        /\ \A j \in 1 .. Len(r) + 1 :
              ListInsert(r, i, iv)[j] = IF j < i THEN r[j] ELSE IF j = i THEN iv ELSE r[j - 1]
    BY <1>0, <1>1, AfterInsertion
  <2> QED BY <2>1, <1>3
<1>5. \A j \in 1 .. Len(r) + 1 : /\ j < i => s[j] = r[j] /\ j \in 1 .. Len(r)
                                 /\ j = i => s[j] = iv
                                 /\ j > i => s[j] = r[j - 1] /\ j - 1 \in 1 .. Len(r)
  BY <1>0, <1>4
<1>6. Ordered(s)
  <2>1. \A j \in 1 .. Len(s) : s[j].Start <= s[j].End
    <3> TAKE j \in 1 .. Len(s)
    <3>1. CASE j = i
      BY <3>1, <1>2, <1>4, <1>5
    <3>2. CASE j < i
      BY <3>2, <1>4, <1>5, Zenon DEF Ordered
    <3>3. CASE j > i
      BY <3>3, <1>4, <1>5, Zenon DEF Ordered
    <3> QED BY <3>1, <3>2, <3>3, <1>0, <1>4
  <2>2. ASSUME NEW j \in 1 .. Len(s), NEW k \in 1 .. Len(s), j < k
        PROVE  s[j].End + 1 < s[k].Start
    <3>1. CASE k < i
      <4>1. j < i
        BY <2>2, <3>1, <1>0, <1>4
      <4>2. s[j] = r[j] /\ s[k] = r[k] /\ j \in 1 .. Len(r) /\ k \in 1 .. Len(r)
        BY <3>1, <4>1, <1>4, <1>5
      <4> QED BY <4>2, <2>2, Zenon DEF Ordered
    <3>2. CASE k = i
      <4>1. s[j] = r[j] /\ s[k] = iv /\ j \in 1 .. Len(r) /\ j < i
        BY <2>2, <3>2, <1>4, <1>5
      <4> QED BY <4>1, <1>2
    <3>3. CASE k > i /\ j = i
      <4>1. s[j] = iv /\ s[k] = r[k - 1] /\ k - 1 \in 1 .. Len(r) /\ i <= k - 1
        BY <3>3, <1>0, <1>4, <1>5
      <4> QED BY <4>1, <1>2, Zenon
    <3>4. CASE k > i /\ j < i
      <4>1. s[j] = r[j] /\ s[k] = r[k - 1] /\ j \in 1 .. Len(r) /\ k - 1 \in 1 .. Len(r) /\ j < k - 1
        BY <3>4, <1>0, <1>4, <1>5
      <4> QED BY <4>1, Zenon DEF Ordered
    <3>5. CASE k > i /\ j > i
      <4>1. s[j] = r[j - 1] /\ s[k] = r[k - 1] /\ j - 1 \in 1 .. Len(r) /\ k - 1 \in 1 .. Len(r)
            /\ j - 1 < k - 1
        BY <2>2, <3>5, <1>0, <1>4, <1>5
      <4> QED BY <4>1, Zenon DEF Ordered
    <3> QED BY <3>1, <3>2, <3>3, <3>4, <3>5, <1>0, <1>4
  <2> QED BY <1>4, <2>1, <2>2, Zenon DEF Ordered
<1>7. ASSUME NEW q \in Nat
      PROVE  Holds(s, q) <=> (Holds(r, q) \/ q = p)
  <2>1. ASSUME Holds(s, q) PROVE Holds(r, q) \/ q = p
    <3>1. PICK j \in 1 .. Len(r) + 1 : s[j].Start <= q /\ q <= s[j].End
      BY <2>1, <1>4 DEF Holds
    <3>2. CASE j = i
      BY <3>1, <3>2, <1>2, <1>5
    <3>3. CASE j < i
      BY <3>1, <3>3, <1>5 DEF Holds
    <3>4. CASE j > i
      BY <3>1, <3>4, <1>5, Zenon DEF Holds
    <3> QED BY <3>2, <3>3, <3>4, <1>0
  <2>2. ASSUME Holds(r, q) PROVE Holds(s, q)
    <3>1. PICK k \in 1 .. Len(r) : r[k].Start <= q /\ q <= r[k].End
      BY <2>2 DEF Holds
    <3>2. CASE k < i
      <4>1. k \in 1 .. Len(r) + 1
        BY <1>0
      <4>2. s[k] = r[k]
        BY <3>2, <4>1, <1>5
      <4> QED BY <3>1, <4>1, <4>2, <1>4, Zenon DEF Holds
    <3>3. CASE k >= i
      <4>1. k + 1 \in 1 .. Len(r) + 1 /\ k + 1 > i /\ (k + 1) - 1 = k
        BY <3>3, <1>0
      <4>2. s[k + 1] = r[(k + 1) - 1]
        BY <4>1, <1>5
      <4>3. s[k + 1] = r[k]
        BY <4>1, <4>2
      <4> QED BY <3>1, <4>1, <4>3, <1>4, Zenon DEF Holds
    <3> QED BY <3>2, <3>3, <1>0
  <2>3. ASSUME q = p PROVE Holds(s, q)
    BY <2>3, <1>2, <1>4, <1>5 DEF Holds
  <2> QED BY <2>1, <2>2, <2>3
<1> QED BY <1>1, <1>3, <1>6, <1>7 DEF Adds

\* What is left of a list from its i-th interval on, once the numbers up to p are gone.
From(r, i, p) ==
    LET kept == SubSeq(r, i, Len(r))
    IN IF p >= kept[1].Start THEN [kept EXCEPT ![1].Start = p + 1] ELSE kept

\* s holds the numbers of r beyond p.
Forgets(r, s, p) == Ordered(s) /\ \A q \in Nat : Holds(s, q) <=> (Holds(r, q) /\ q > p)

\* Cutting the list at the first interval that ends beyond p forgets the numbers up to p.
LEMMA Cut ==
    ASSUME NEW r, Ordered(r), NEW i \in 1 .. Len(r), NEW p \in Nat,
           r[i].End > p, \A j \in 1 .. Len(r) : j < i => r[j].End <= p
    PROVE  Forgets(r, From(r, i, p), p)
<1>0. /\ r \in Seq(Intervals) /\ Len(r) \in Nat
      /\ \A j \in 1 .. Len(r) : r[j] \in Intervals /\ r[j].Start \in Nat /\ r[j].End \in Nat
  <2>1. r \in Seq(Intervals) /\ Len(r) \in Nat /\ \A j \in 1 .. Len(r) : r[j] \in Intervals
    BY LenProperties, ElementOfSeq DEF Ordered
  <2> QED BY <2>1, Zenon DEF Intervals
<1>1. PICK n \in Nat : n = Len(r) - i + 1
  <2>1. Len(r) - i + 1 \in Nat
    BY <1>0
  <2> QED BY <2>1
<1>2. PICK kept : kept = SubSeq(r, i, Len(r))
  BY Zenon
<1>3. PICK s : s = From(r, i, p)
  OBVIOUS
<1>4. s = IF p >= kept[1].Start THEN [kept EXCEPT ![1].Start = p + 1] ELSE kept
  BY <1>2, <1>3 DEF From
<1>5. kept \in Seq(Intervals) /\ Len(kept) = n /\ \A j \in 1 .. n : kept[j] = r[i + j - 1]
  <2>1. \A j \in i .. Len(r) : r[j] \in Intervals
    BY <1>0
  <2>2. /\ SubSeq(r, i, Len(r)) \in Seq(Intervals)
        /\ Len(SubSeq(r, i, Len(r))) = IF i <= Len(r) THEN Len(r) - i + 1 ELSE 0
        /\ \A j \in 1 .. Len(r) - i + 1 : SubSeq(r, i, Len(r))[j] = r[i + j - 1]
    BY <2>1, <1>0, SubSeqProperties
  <2> QED BY <2>2, <1>0, <1>1, <1>2, SMTT(30)
<1>6. 1 \in 1 .. n /\ kept[1] = r[i]
  <2>1. 1 \in 1 .. n /\ i + 1 - 1 = i
    BY <1>0, <1>1
  <2>2. kept[1] = r[i + 1 - 1]
    BY <2>1, <1>5
  <2> QED BY <2>1, <2>2
<1>7. PICK e \in Intervals : e = r[i]
  BY <1>0
<1>8. e.Start \in Nat /\ e.End \in Nat /\ e.Start <= e.End /\ e.End > p
  BY <1>0, <1>7 DEF Ordered
<1>9. PICK low \in Nat : low = IF p >= e.Start THEN p + 1 ELSE e.Start
  BY <1>8
<1>10. PICK iv \in Intervals : iv = [Start |-> low, End |-> e.End]
  BY <1>8, Zenon DEF Intervals
<1>11. iv.End = e.End /\ iv.Start = low
  BY <1>10
<1>11a. low \in Nat /\ low <= e.End /\ low > p /\ e.Start <= low
  BY <1>8, <1>9, CutStart
<1>12. s = [kept EXCEPT ![1] = iv]
  <2>1. CASE p >= e.Start
    <3>1. [e EXCEPT !.Start = p + 1] = iv
      BY <2>1, <1>10, <1>9 DEF Intervals
    <3>2. s = [kept EXCEPT ![1] = [kept[1] EXCEPT !.Start = p + 1]]
      BY <2>1, <1>6, <1>7, <1>4
    <3> QED BY <3>1, <3>2, <1>6, <1>7, Zenon
  <2>2. CASE ~(p >= e.Start)
    <3>1. iv = e
      BY <2>2, <1>10, <1>9 DEF Intervals
    <3>2. s = kept
      BY <2>2, <1>6, <1>7, <1>4
    <3>3. [kept EXCEPT ![1] = kept[1]] = kept
      BY <1>5, <1>6
    <3> QED BY <3>1, <3>2, <3>3, <1>6, <1>7
  <2> QED BY <2>1, <2>2
<1>13. s \in Seq(Intervals) /\ Len(s) = n /\ \A j \in 1 .. n : s[j] = IF j = 1 THEN iv ELSE kept[j]
  <2>1. /\ [kept EXCEPT ![1] = iv] \in Seq(Intervals)
        /\ Len([kept EXCEPT ![1] = iv]) = Len(kept)
        /\ \A j \in 1 .. Len(kept) : [kept EXCEPT ![1] = iv][j] = IF j = 1 THEN iv ELSE kept[j]
    BY <1>5, <1>6, ExceptSeq
  <2> QED BY <2>1, <1>5, <1>12
<1>14. ASSUME NEW j \in 1 .. n
       PROVE  /\ i + j - 1 \in 1 .. Len(r)
              /\ s[j].End = r[i + j - 1].End
              /\ j # 1 => s[j] = r[i + j - 1]
              /\ j = 1 => s[j] = iv
  <2>1. i + j - 1 \in 1 .. Len(r)
    BY <1>0, <1>1, SMTT(30)
  <2>2. CASE j = 1
    <3>1. i + j - 1 = i
      BY <2>2
    <3> QED BY <2>1, <2>2, <3>1, <1>7, <1>11, <1>13
  <2>3. CASE j # 1
    BY <2>1, <2>3, <1>5, <1>13, Zenon
  <2> QED BY <2>2, <2>3
<1>15. Ordered(s)
  <2>1. \A j \in 1 .. Len(s) : s[j].Start <= s[j].End
    <3> TAKE j \in 1 .. Len(s)
    <3>1. CASE j = 1
      <4>1. s[j] = iv
        BY <3>1, <1>13, <1>14
      <4> QED BY <4>1, <1>11, <1>11a
    <3>2. CASE j # 1
      BY <3>2, <1>13, <1>14, Zenon DEF Ordered
    <3> QED BY <3>1, <3>2
  <2>2. ASSUME NEW j \in 1 .. Len(s), NEW k \in 1 .. Len(s), j < k
        PROVE  s[j].End + 1 < s[k].Start
    <3>1. k # 1 /\ i + j - 1 < i + k - 1
      BY <2>2, <1>13
    <3>2. s[j].End = r[i + j - 1].End /\ s[k] = r[i + k - 1]
          /\ i + j - 1 \in 1 .. Len(r) /\ i + k - 1 \in 1 .. Len(r)
      BY <3>1, <1>13, <1>14
    <3> QED BY <3>1, <3>2, Zenon DEF Ordered
  <2> QED BY <1>13, <2>1, <2>2, Zenon DEF Ordered
<1>16. ASSUME NEW q \in Nat
       PROVE  Holds(s, q) <=> (Holds(r, q) /\ q > p)
  <2>1. ASSUME Holds(s, q) PROVE Holds(r, q) /\ q > p
    <3>1. PICK j \in 1 .. n : s[j].Start <= q /\ q <= s[j].End
      BY <2>1, <1>13 DEF Holds
    <3>2. CASE j = 1
      <4>1. low <= q /\ q <= e.End
        BY <3>1, <3>2, <1>11, <1>14, Zenon
      <4>2. q > p /\ e.Start <= q
        BY <4>1, <1>8, <1>11a, AboveCut, AtMostTransitive
      <4> QED BY <4>1, <4>2, <1>7 DEF Holds
    <3>3. CASE j # 1
      <4>1. i + j - 1 \in 1 .. Len(r) /\ s[j] = r[i + j - 1] /\ i < i + j - 1
        <5>1. i + j - 1 \in 1 .. Len(r) /\ s[j] = r[i + j - 1]
          BY <3>3, <1>14
        <5>2. i < i + j - 1
          BY <3>3
        <5> QED BY <5>1, <5>2
      <4>2. r[i].End + 1 < r[i + j - 1].Start
        BY <4>1, Zenon DEF Ordered
      <4>3. q > p
        <5>1. /\ r[i].End \in Nat /\ r[i + j - 1].Start \in Nat
              /\ r[i].End > p /\ r[i + j - 1].Start <= q
          BY <4>1, <3>1, <1>0, <1>7, <1>8, Zenon
        <5> QED BY <5>1, <4>2, BeyondHole, Zenon
      <4> QED BY <3>1, <4>1, <4>3 DEF Holds
    <3> QED BY <3>2, <3>3
  <2>2. ASSUME Holds(r, q), q > p PROVE Holds(s, q)
    <3>1. PICK k \in 1 .. Len(r) : r[k].Start <= q /\ q <= r[k].End
      BY <2>2 DEF Holds
    <3>2. ~(k < i)
      BY <2>2, <3>1, <1>0
    <3>3. CASE k = i
      <4>1. iv.Start <= q /\ q <= iv.End
        <5>1. e.Start <= q /\ q <= e.End
          BY <3>1, <3>3, <1>7
        <5>2. low <= q
          BY <5>1, <2>2, <1>8, <1>9, CutKeeps
        <5> QED BY <5>1, <5>2, <1>11
      <4> QED BY <4>1, <1>6, <1>13, <1>14, Zenon DEF Holds
    <3>4. CASE k > i
      <4>1. k - i + 1 \in 1 .. n /\ k - i + 1 # 1 /\ i + (k - i + 1) - 1 = k
        BY <3>4, <1>0, <1>1, ShiftedIndex
      <4>2. s[k - i + 1] = r[i + (k - i + 1) - 1]
        BY <4>1, <1>14, Zenon
      <4>3. s[k - i + 1] = r[k]
        BY <4>1, <4>2, Zenon
      <4> QED BY <3>1, <4>1, <4>3, <1>13 DEF Holds
    <3> QED BY <3>2, <3>3, <3>4, <1>0
  <2> QED BY <2>1, <2>2
<1> QED BY <1>3, <1>15, <1>16 DEF Forgets

\* ReceivedPacket adds its number to the set that the list represents.
LEMMA AddPacketAdds ==
    ASSUME Ordered(ranges), NEW p \in Nat
    PROVE  Adds(ranges, AddPacket(p), p)
<1> DEFINE Returns(i) == \/ p >= ranges[i].Start /\ p <= ranges[i].End
                         \/ ranges[i].End = p - 1
                         \/ ranges[i].Start = p + 1
                         \/ p > ranges[i].End
           hits == {i \in DOMAIN ranges : Returns(i)}
           last == CHOOSE j \in hits : \A k \in hits : k <= j
           result == IF hits = {} THEN ListInsert(ranges, 1, Interval(p, p))
                     ELSE CASE p >= ranges[last].Start /\ p <= ranges[last].End -> ranges
                            [] ranges[last].End = p - 1 -> Extended(last, Interval(ranges[last].Start, p))
                            [] ranges[last].Start = p + 1 -> Extended(last, Interval(p, ranges[last].End))
                            [] OTHER -> ListInsert(ranges, last + 1, Interval(p, p))
<1>1. AddPacket(p) = result
  BY DEF AddPacket
<1>2. /\ Len(ranges) \in Nat /\ DOMAIN ranges = 1 .. Len(ranges)
      /\ \A j \in 1 .. Len(ranges) : /\ ranges[j] \in Intervals
                                     /\ ranges[j].Start \in Nat
                                     /\ ranges[j].End \in Nat
  <2>1. ranges \in Seq(Intervals)
    BY DEF Ordered
  <2>2. /\ Len(ranges) \in Nat /\ DOMAIN ranges = 1 .. Len(ranges)
        /\ \A j \in 1 .. Len(ranges) : ranges[j] \in Intervals
    BY <2>1, LenProperties, ElementOfSeq
  <2> QED BY <2>2 DEF Intervals
<1>3. CASE hits = {}
  <2>1. \A j \in 1 .. Len(ranges) : p + 1 < ranges[j].Start
    <3> TAKE j \in 1 .. Len(ranges)
    <3>1. ~Returns(j)
      BY <1>2, <1>3, Zenon
    <3> QED BY <3>1, <1>2
  <2>2. Adds(ranges, ListInsert(ranges, 1, [Start |-> p, End |-> p]), p)
    <3>1. 1 \in 1 .. Len(ranges) + 1 /\ \A j \in 1 .. Len(ranges) : ~(j < 1)
      BY <1>2
    <3> QED BY <2>1, <3>1, Inserted
  <2> QED BY <1>1, <1>3, <2>2, Zenon DEF Interval
<1>4. CASE hits # {}
  <2>1. hits \subseteq 0 .. Len(ranges)
    BY <1>2
  <2>2. last \in hits /\ \A k \in hits : k <= last
    <3> HIDE DEF hits
    <3>1. PICK x \in hits : \A y \in hits : y <= x
      BY <1>2, <1>4, <2>1, GreatestExists, Zenon
    <3> QED BY <3>1
  <2>3. PICK i \in 1 .. Len(ranges) : i = last /\ Returns(i) /\ \A k \in 1 .. Len(ranges) : Returns(k) => k <= i
    <3> HIDE DEF last
    <3> QED BY <1>2, <2>2, Zenon
  <2>4. \A j \in 1 .. Len(ranges) : i < j => p + 1 < ranges[j].Start
    <3> TAKE j \in 1 .. Len(ranges)
    <3> HAVE i < j
    <3>1. ~(j <= i)
      BY <1>2
    <3>2. Returns(j) => j <= i
      <4> HIDE DEF Returns, last
      <4> QED BY <2>3
    <3>3. ~Returns(j)
      BY <3>1, <3>2
    <3> QED BY <3>3, <1>2
  <2>5. PICK e \in Intervals : e = ranges[i]
    BY <1>2
  <2>6. e.Start \in Nat /\ e.End \in Nat /\ e.Start <= e.End
    BY <1>2, <2>5 DEF Ordered
  <2>7. \A j \in 1 .. Len(ranges) : j < i => ranges[j].End + 1 < e.Start
    BY <2>5 DEF Ordered
  <2>8. AddPacket(p) =
           CASE p >= e.Start /\ p <= e.End -> ranges
             [] e.End = p - 1 -> Extended(i, [Start |-> e.Start, End |-> p])
             [] e.Start = p + 1 -> Extended(i, [Start |-> p, End |-> e.End])
             [] OTHER -> ListInsert(ranges, i + 1, [Start |-> p, End |-> p])
    <3> HIDE DEF hits, last
    <3> QED BY <1>1, <1>4, <2>3, <2>5 DEF Interval
  <2>9. CASE p >= e.Start /\ p <= e.End
    <3>1. AddPacket(p) = ranges
      BY <2>6, <2>8, <2>9
    <3>2. Holds(ranges, p)
      BY <2>5, <2>9 DEF Holds
    <3> QED BY <3>1, <3>2 DEF Adds
  <2>10. CASE e.End = p - 1
    <3>1. AddPacket(p) = Extended(i, [Start |-> e.Start, End |-> p])
      BY <2>6, <2>8, <2>10
    <3>2. PICK iv \in Intervals : iv = [Start |-> e.Start, End |-> p]
      BY <2>6, Zenon DEF Intervals
    <3>3. iv.Start = e.Start /\ iv.End = p
      BY <3>2
    <3>4. ~(i > 1 /\ ranges[i - 1].End + 1 = iv.Start)
      <4>1. i > 1 => i - 1 \in 1 .. Len(ranges) /\ i - 1 < i
        BY <1>2
      <4> QED BY <4>1, <3>3, <2>6, <2>7, <1>2
    <3>5. Extended(i, iv) = [ranges EXCEPT ![i] = iv]
      BY <3>4 DEF Extended
    <3>6. Adds(ranges, [ranges EXCEPT ![i] = iv], p)
      <4>1. iv.Start <= iv.End
        BY <3>3, <2>6, <2>10
      <4>2. \A q \in Nat : (iv.Start <= q /\ q <= iv.End)
                              <=> ((ranges[i].Start <= q /\ q <= ranges[i].End) \/ q = p)
        BY <3>3, <2>5, <2>6, <2>10
      <4>3. \A j \in 1 .. Len(ranges) : j < i => ranges[j].End + 1 < iv.Start
        BY <3>3, <2>7
      <4>4. \A j \in 1 .. Len(ranges) : i < j => iv.End + 1 < ranges[j].Start
        BY <3>3, <2>4
      <4> QED BY <4>1, <4>2, <4>3, <4>4, Grown, Zenon
    <3> QED BY <3>1, <3>2, <3>5, <3>6
  <2>11. CASE e.Start = p + 1 /\ i > 1 /\ ranges[i - 1].End + 1 = p
    <3>1. AddPacket(p) = Extended(i, [Start |-> p, End |-> e.End])
      BY <2>6, <2>8, <2>11
    <3>2. Extended(i, [Start |-> p, End |-> e.End])
             = [ListRemove(ranges, i) EXCEPT ![i - 1].End = e.End]
      <4>1. PICK iv : iv = [Start |-> p, End |-> e.End]
        BY Zenon
      <4>2. iv.Start = p /\ iv.End = e.End
        BY <4>1
      <4>3. Extended(i, iv) = [ListRemove(ranges, i) EXCEPT ![i - 1].End = iv.End]
        BY <4>2, <2>11 DEF Extended
      <4> QED BY <4>1, <4>2, <4>3
    <3>3. i \in 2 .. Len(ranges)
      BY <1>2, <2>11
    <3> QED BY <3>1, <3>2, <3>3, <2>5, <2>11, Merged
  <2>12. CASE e.Start = p + 1 /\ ~(i > 1 /\ ranges[i - 1].End + 1 = p)
    <3>1. AddPacket(p) = Extended(i, [Start |-> p, End |-> e.End])
      BY <2>6, <2>8, <2>12
    <3>2. PICK iv \in Intervals : iv = [Start |-> p, End |-> e.End]
      BY <2>6, Zenon DEF Intervals
    <3>3. iv.Start = p /\ iv.End = e.End
      BY <3>2
    <3>4. Extended(i, iv) = [ranges EXCEPT ![i] = iv]
      BY <3>3, <2>12 DEF Extended
    <3>5. \A j \in 1 .. Len(ranges) : j < i => ranges[j].End + 1 < p
      <4> TAKE j \in 1 .. Len(ranges)
      <4> HAVE j < i
      <4>1. CASE j = i - 1
        <5>1. ranges[j].End + 1 < e.Start /\ ranges[j].End + 1 # p /\ ranges[j].End \in Nat
          BY <4>1, <1>2, <2>7, <2>12
        <5> QED BY <5>1, <2>6, <2>12
      <4>2. CASE j < i - 1
        <5>1. i - 1 \in 1 .. Len(ranges) /\ i - 1 < i
          BY <4>2, <1>2
        <5>2. ranges[j].End + 1 < ranges[i - 1].Start
          BY <4>2, <5>1 DEF Ordered
        <5>3. ranges[i - 1].Start <= ranges[i - 1].End /\ ranges[i - 1].End + 1 < e.Start
          BY <5>1, <2>7 DEF Ordered
        <5> QED BY <5>1, <5>2, <5>3, <1>2, <2>6, <2>12, SMTT(30)
      <4> QED BY <4>1, <4>2, <1>2
    <3>6. Adds(ranges, [ranges EXCEPT ![i] = iv], p)
      <4>1. iv.Start <= iv.End
        BY <3>3, <2>6, <2>12
      <4>2. \A q \in Nat : (iv.Start <= q /\ q <= iv.End)
                              <=> ((ranges[i].Start <= q /\ q <= ranges[i].End) \/ q = p)
        BY <3>3, <2>5, <2>6, <2>12
      <4>3. \A j \in 1 .. Len(ranges) : j < i => ranges[j].End + 1 < iv.Start
        BY <3>3, <3>5
      <4>4. \A j \in 1 .. Len(ranges) : i < j => iv.End + 1 < ranges[j].Start
        BY <3>3, <2>5 DEF Ordered
      <4> QED BY <4>1, <4>2, <4>3, <4>4, Grown
    <3> QED BY <3>1, <3>2, <3>4, <3>6
  <2>13. CASE ~(p >= e.Start /\ p <= e.End) /\ e.End # p - 1 /\ e.Start # p + 1
    <3>1. AddPacket(p) = ListInsert(ranges, i + 1, [Start |-> p, End |-> p])
      BY <2>6, <2>8, <2>13
    <3>2. e.End + 1 < p
      <4>1. Returns(i)
        BY <2>3, Zenon
      <4>2. \/ p >= e.Start /\ p <= e.End
            \/ e.End = p - 1
            \/ e.Start = p + 1
            \/ p > e.End
        BY <4>1, <2>5
      <4> QED BY <4>2, <2>6, <2>13
    <3>3. \A j \in 1 .. Len(ranges) : j < i + 1 => ranges[j].End + 1 < p
      <4> TAKE j \in 1 .. Len(ranges)
      <4> HAVE j < i + 1
      <4>1. CASE j = i
        BY <4>1, <3>2, <2>5
      <4>2. CASE j < i
        BY <4>2, <3>2, <2>6, <2>7, <1>2
      <4> QED BY <4>1, <4>2, <1>2
    <3>4. \A j \in 1 .. Len(ranges) : i + 1 <= j => p + 1 < ranges[j].Start
      BY <2>4, <1>2, SMTT(30)
    <3>5. i + 1 \in 1 .. Len(ranges) + 1
      BY <1>2
    <3> QED BY <3>1, <3>3, <3>4, <3>5, Inserted, Zenon
  <2> QED BY <2>9, <2>10, <2>11, <2>12, <2>13
<1> QED BY <1>3, <1>4

\* The set that a list of intervals represents.
Numbers(r) == UNION {r[i].Start .. r[i].End : i \in DOMAIN r}

\* It has the numbers that lie in an interval.
LEMMA NumbersHeld ==
    ASSUME NEW r, Ordered(r)
    PROVE  Numbers(r) = {q \in Nat : Holds(r, q)}
<1>1. DOMAIN r = 1 .. Len(r) /\ \A j \in 1 .. Len(r) : r[j] \in Intervals
  <2>1. r \in Seq(Intervals)
    BY DEF Ordered
  <2> QED BY <2>1, LenProperties, ElementOfSeq
<1>2. \A j \in 1 .. Len(r) : r[j].Start \in Nat /\ r[j].End \in Nat
  BY <1>1 DEF Intervals
<1>3. ASSUME NEW q \in Numbers(r) PROVE q \in Nat /\ Holds(r, q)
  <2>1. PICK j \in 1 .. Len(r) : q \in r[j].Start .. r[j].End
    BY <1>1 DEF Numbers
  <2> QED BY <2>1, <1>2, SMTT(30) DEF Holds
<1>4. ASSUME NEW q \in Nat, Holds(r, q) PROVE q \in Numbers(r)
  <2>1. PICK j \in 1 .. Len(r) : r[j].Start <= q /\ q <= r[j].End
    BY <1>4 DEF Holds
  <2>2. q \in r[j].Start .. r[j].End
    BY <2>1, <1>2
  <2> QED BY <2>2, <1>1 DEF Numbers
<1> QED BY <1>3, <1>4

\* ReceivedPacket at the limit of the list changes nothing; below it, it adds its number.
LEMMA ReceiveStep ==
    ASSUME Ordered(ranges), NEW p \in PacketNumbers, ReceivedPacket(p)
    PROVE  /\ Ordered(ranges')
           /\ IF failed' THEN Members' = Members ELSE Abs!Add(p)
<1>1. p \in Nat
  BY DEF PacketNumbers
<1>2. CASE Len(ranges) >= MaxTrackedReceivedAckRanges
  BY <1>2 DEF ReceivedPacket, Members
<1>3. CASE ~(Len(ranges) >= MaxTrackedReceivedAckRanges)
  <2>1. ranges' = AddPacket(p) /\ ~failed'
    BY <1>3 DEF ReceivedPacket
  <2>2. PICK r : r = ranges
    OBVIOUS
  <2>3. PICK s : s = ranges'
    OBVIOUS
  <2>4. Adds(r, s, p) /\ Ordered(r)
    BY <1>1, <2>1, <2>2, <2>3, AddPacketAdds
  <2>5. Ordered(s)
    BY <2>4 DEF Adds
  <2>6. Numbers(s) = Numbers(r) \cup {p}
    BY <1>1, <2>4, <2>5, NumbersHeld DEF Adds
  <2>7. Members = Numbers(r) /\ Members' = Numbers(s)
    BY <2>2, <2>3 DEF Members, Numbers
  <2> QED BY <2>1, <2>3, <2>5, <2>6, <2>7 DEF Abs!Add
<1> QED BY <1>2, <1>3

\* DeleteUpTo forgets the numbers up to p and no other.
LEMMA ForgetStep ==
    ASSUME Ordered(ranges), NEW p \in PacketNumbers \cup {0}, DeleteUpTo(p)
    PROVE  Ordered(ranges') /\ Abs!Forget(p)
<1>1. p \in Nat
  BY DEF PacketNumbers
<1> DEFINE beyond == {i \in DOMAIN ranges : ranges[i].End > p}
           first == CHOOSE i \in beyond : \A j \in beyond : i <= j
<1>2. ranges' = IF beyond = {} THEN <<>> ELSE From(ranges, first, p)
  BY DEF DeleteUpTo, From
<1>3. /\ Len(ranges) \in Nat /\ DOMAIN ranges = 1 .. Len(ranges)
      /\ \A j \in 1 .. Len(ranges) : ranges[j].End \in Nat
  <2>1. ranges \in Seq(Intervals)
    BY DEF Ordered
  <2>2. /\ Len(ranges) \in Nat /\ DOMAIN ranges = 1 .. Len(ranges)
        /\ \A j \in 1 .. Len(ranges) : ranges[j] \in Intervals
    BY <2>1, LenProperties, ElementOfSeq
  <2> QED BY <2>2 DEF Intervals
<1>4. PICK r : r = ranges
  OBVIOUS
<1>5. PICK s : s = ranges'
  OBVIOUS
<1>6. Forgets(r, s, p)
  <2>1. CASE beyond = {}
    <3>1. s = <<>>
      BY <1>2, <1>5, <2>1
    <3>2. Ordered(s) /\ \A q : ~Holds(s, q)
      BY <3>1 DEF Ordered, Holds
    <3>3. ASSUME NEW q \in Nat, q > p, Holds(r, q) PROVE FALSE
      <4>1. PICK j \in 1 .. Len(ranges) : q <= ranges[j].End
        BY <3>3, <1>4 DEF Holds
      <4>2. ranges[j].End > p
        BY <4>1, <3>3, <1>1, <1>3
      <4> QED BY <4>2, <2>1, <1>3
    <3> QED BY <3>2, <3>3 DEF Forgets
  <2>2. CASE beyond # {}
    <3>1. beyond \subseteq Nat
      BY <1>3
    <3>2. first \in beyond /\ \A j \in beyond : first <= j
      <4> HIDE DEF beyond
      <4>1. PICK x \in beyond : \A y \in beyond : x <= y
        BY <2>2, <3>1, LeastExists, Zenon
      <4> QED BY <4>1
    <3>3. PICK i : i = first
      OBVIOUS
    <3>4. s = From(r, i, p)
      <4> HIDE DEF beyond, first
      <4> QED BY <1>2, <1>4, <1>5, <2>2, <3>3
    <3> HIDE DEF first
    <3>5. i \in 1 .. Len(r) /\ r[i].End > p
      BY <3>2, <3>3, <1>3, <1>4
    <3>6. \A j \in 1 .. Len(r) : j < i => r[j].End <= p
      <4> TAKE j \in 1 .. Len(r)
      <4> HAVE j < i
      <4>1. j \notin beyond
        BY <3>2, <3>3, <3>5, <1>3, <1>4
      <4> QED BY <4>1, <1>1, <1>3, <1>4
    <3>7. Ordered(r)
      BY <1>4
    <3> QED BY <3>4, <3>5, <3>6, <3>7, <1>1, Cut
  <2> QED BY <2>1, <2>2
<1>7. Ordered(r) /\ Ordered(s)
  BY <1>4, <1>6 DEF Forgets
<1>8. Numbers(s) = {q \in Numbers(r) : q > p}
  BY <1>6, <1>7, NumbersHeld DEF Forgets
<1>9. Members = Numbers(r) /\ Members' = Numbers(s)
  BY <1>4, <1>5 DEF Members, Numbers
<1> QED BY <1>5, <1>7, <1>8, <1>9 DEF Abs!Forget

\* The list of received_packet_history.go implements a set of packet numbers, for any limit on its
\* length: ReceivedPacket adds its number or, at the limit, reports an error and changes nothing, and
\* DeleteUpTo forgets the numbers up to its argument and no other.  Ordered is the invariant: without
\* a hole between any two intervals, extending one could make it overlap or touch the next.
THEOREM HistoryIsASet == HistorySpec => ImplementsSet
<1> DEFINE Exact == /\ \A p \in PacketNumbers :
                          ReceivedPacket(p) => IF failed' THEN Members' = Members ELSE Abs!Add(p)
                    /\ \A p \in PacketNumbers \cup {0} : DeleteUpTo(p) => Abs!Forget(p)
<1>1. Init => Ordered(ranges) /\ Abs!AbsInit
  <2> SUFFICES ASSUME Init PROVE Ordered(ranges) /\ Abs!AbsInit
    OBVIOUS
  <2>1. ranges = <<>>
    BY DEF Init
  <2>2. Ordered(ranges)
    BY <2>1 DEF Ordered
  <2>3. Members = {}
    BY <2>1 DEF Members
  <2> QED BY <2>2, <2>3 DEF Abs!AbsInit
<1>2. Ordered(ranges) => Exact
  BY ReceiveStep, ForgetStep
<1>3. Ordered(ranges) /\ [Next]_vars
         => Ordered(ranges)' /\ [Abs!AbsNext]_Members /\ [Exact]_vars
  <2> SUFFICES ASSUME Ordered(ranges), [Next]_vars
               PROVE  Ordered(ranges') /\ (Abs!AbsNext \/ Members' = Members)
    BY <1>2
  <2>1. CASE UNCHANGED vars
    BY <2>1 DEF vars, Members
  <2>2. ASSUME NEW p \in PacketNumbers, ReceivedPacket(p)
        PROVE  Ordered(ranges') /\ (Abs!AbsNext \/ Members' = Members)
    BY <2>2, ReceiveStep DEF Abs!AbsNext
  <2>3. ASSUME NEW p \in PacketNumbers \cup {0}, DeleteUpTo(p)
        PROVE  Ordered(ranges') /\ (Abs!AbsNext \/ Members' = Members)
    BY <2>3, ForgetStep DEF Abs!AbsNext
  <2> QED BY <2>1, <2>2, <2>3 DEF Next
<1> QED BY <1>1, <1>3, PTL DEF HistorySpec, ImplementsSet, Abs!AbsSpec

==============================================================================
