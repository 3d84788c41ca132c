---------------------- MODULE StreamFrameSorterProofs ----------------------
(***************************************************************************)
(* The reassembly queue, for any stream, any way to cut it into frames and *)
(* any order of their arrival: Push and Pop keep the invariant QInv, from  *)
(* which NothingLost follows.                                              *)
(***************************************************************************)
EXTENDS StreamFrameSorter, SequenceTheorems, WellFoundedInduction, TLAPS

\* A set of numbers that is not empty has a least member.
LEMMA LeastIndex ==
    ASSUME NEW S, S \subseteq Nat, S # {}
    PROVE  \E x \in S : \A y \in S : x <= y
<1>1. PICK x \in S : \A y \in S : ~(<<y, x>> \in OpToRel(<, Nat))
  BY WFMin, NatLessThanWellFounded, Zenon
<1>2. \A y \in S : ~(y < x)
  BY <1>1, Zenon DEF OpToRel
<1> QED BY <1>2

(***************************************************************************)
(* Lists of gaps.                                                          *)
(***************************************************************************)
Intervals == [Start : Nat, End : Nat]

\* Gaps from low on, apart from each other, the last of which ends at top.
Gaps(gs, n, low, top) ==
    /\ low \in Nat /\ top \in Nat /\ n \in Nat
    /\ \A a \in 1 .. n : gs[a].Start \in Nat /\ gs[a].End \in Nat
    /\ \A a \in 1 .. n : low <= gs[a].Start /\ gs[a].Start < gs[a].End
    /\ \A a, b \in 1 .. n : a < b => gs[a].End < gs[b].Start
    /\ gs[n].End = top

GapList(gs, low, top) == gs \in Seq(Intervals) /\ Len(gs) > 0 /\ Gaps(gs, Len(gs), low, top)

InGap(gs, n, b) == \E a \in 1 .. n : gs[a].Start <= b /\ b < gs[a].End

\* The elements of two lists put together, of which the first has m, and of a part
\* of a list.
Joins(t, s, z, m, n) == \A a \in 1 .. m + n : /\ a <= m => t[a] = s[a]
                                              /\ a > m => t[a] = z[a - m]
Part(p, s, d, n) == \A a \in 1 .. n : p[a] = s[d + a]

\* The elements of the list t that is s with its elements i to k replaced by the lx
\* elements of x and the ly of y.
Spliced(t, s, i, k, x, y, n, lx, ly) ==
    \A a \in 1 .. i - 1 + lx + ly + (n - k) :
         /\ a < i => t[a] = s[a]
         /\ i <= a /\ a < i + lx => t[a] = x[a - i + 1]
         /\ i + lx <= a /\ a < i + lx + ly => t[a] = y[a - i - lx + 1]
         /\ i + lx + ly <= a => t[a] = s[a - i - lx - ly + k + 1]

\* The elements of two sequences put together.
LEMMA Joined ==
    ASSUME NEW S, NEW s \in Seq(S), NEW z \in Seq(S)
    PROVE  /\ s \o z \in Seq(S) /\ Len(s \o z) = Len(s) + Len(z)
           /\ Joins(s \o z, s, z, Len(s), Len(z))
<1>1. PICK t : t = s \o z
  BY Zenon
<1>2. /\ t \in Seq(S) /\ Len(t) = Len(s) + Len(z)
      /\ \A a \in 1 .. Len(s) + Len(z) : t[a] = IF a <= Len(s) THEN s[a] ELSE z[a - Len(s)]
  BY <1>1, ConcatProperties
<1>3. Len(s) \in Nat /\ Len(z) \in Nat
  BY LenProperties
<1>4. Joins(t, s, z, Len(s), Len(z))
  BY <1>2, <1>3 DEF Joins
<1> QED BY <1>1, <1>2, <1>4

\* The elements of a sequence whose elements i to k were replaced by x and y.
LEMMA SpliceIndex ==
    ASSUME NEW s, NEW x, NEW y, NEW p, NEW q, NEW u, NEW v, NEW t,
           NEW i \in Nat, NEW k \in Nat, NEW n \in Nat, NEW lx \in Nat, NEW ly \in Nat,
           1 <= i, i <= k, k <= n,
           Part(p, s, 0, i - 1), Part(q, s, k, n - k),
           Joins(u, p, x, i - 1, lx), Joins(v, u, y, i - 1 + lx, ly),
           Joins(t, v, q, i - 1 + lx + ly, n - k)
    PROVE  Spliced(t, s, i, k, x, y, n, lx, ly)
<1> SUFFICES ASSUME NEW a \in 1 .. i - 1 + lx + ly + (n - k)
             PROVE  /\ a < i => t[a] = s[a]
                    /\ i <= a /\ a < i + lx => t[a] = x[a - i + 1]
                    /\ i + lx <= a /\ a < i + lx + ly => t[a] = y[a - i - lx + 1]
                    /\ i + lx + ly <= a => t[a] = s[a - i - lx - ly + k + 1]
  BY DEF Spliced
<1>1. /\ a <= i - 1 + lx + ly => t[a] = v[a]
      /\ a > i - 1 + lx + ly => t[a] = q[a - (i - 1 + lx + ly)]
  BY DEF Joins
<1>2. /\ a <= i - 1 + lx => v[a] = u[a]
      /\ a > i - 1 + lx /\ a <= i - 1 + lx + ly => v[a] = y[a - (i - 1 + lx)]
  BY DEF Joins
<1>3. /\ a <= i - 1 => u[a] = p[a]
      /\ a > i - 1 /\ a <= i - 1 + lx => u[a] = x[a - (i - 1)]
  BY DEF Joins
<1>4. a <= i - 1 => p[a] = s[a]
  BY DEF Part
<1>5. a > i - 1 + lx + ly => q[a - (i - 1 + lx + ly)] = s[k + (a - (i - 1 + lx + ly))]
  BY DEF Part
<1>6. /\ a - (i - 1) = a - i + 1 /\ a - (i - 1 + lx) = a - i - lx + 1
      /\ k + (a - (i - 1 + lx + ly)) = a - i - lx - ly + k + 1
  OBVIOUS
<1> HIDE DEF Joins, Part
<1> QED BY <1>1, <1>2, <1>3, <1>4, <1>5, <1>6

SpliceOf(s, i, k, x, y) == SubSeq(s, 1, i - 1) \o x \o y \o SubSeq(s, k + 1, Len(s))

\* The same of the sequence that the linked list of gaps becomes.
LEMMA Splice ==
    ASSUME NEW S, NEW s \in Seq(S), NEW i \in 1 .. Len(s), NEW k \in i .. Len(s),
           NEW x \in Seq(S), NEW y \in Seq(S)
    PROVE  /\ SpliceOf(s, i, k, x, y) \in Seq(S)
           /\ Len(SpliceOf(s, i, k, x, y)) = i - 1 + Len(x) + Len(y) + (Len(s) - k)
           /\ Spliced(SpliceOf(s, i, k, x, y), s, i, k, x, y, Len(s), Len(x), Len(y))
<1>t. PICK t : t = SpliceOf(s, i, k, x, y)
  OBVIOUS
<1>0. Len(s) \in Nat /\ Len(x) \in Nat /\ Len(y) \in Nat /\ i \in Nat /\ k \in Nat
      /\ i <= k /\ k <= Len(s) /\ 1 <= i
  BY LenProperties
<1>1. \A a \in 1 .. Len(s) : s[a] \in S
  BY LenProperties
<1>2. PICK p \in Seq(S) : p = SubSeq(s, 1, i - 1) /\ Len(p) = i - 1 /\ Part(p, s, 0, i - 1)
  <2>1. \A a \in 1 .. i - 1 : s[a] \in S
    BY <1>0, <1>1
  <2>2. 1 \in Int /\ i - 1 \in Int
    BY <1>0
  <2>3. PICK p : p = SubSeq(s, 1, i - 1)
    BY Zenon
  <2>4. /\ p \in Seq(S) /\ Len(p) = (IF 1 <= i - 1 THEN (i - 1) - 1 + 1 ELSE 0)
        /\ \A a \in 1 .. (i - 1) - 1 + 1 : p[a] = s[1 + a - 1]
    BY <2>1, <2>2, <2>3, SubSeqProperties
  <2>5. Len(p) = i - 1 /\ Part(p, s, 0, i - 1)
    BY <1>0, <2>4 DEF Part
  <2> QED BY <2>3, <2>4, <2>5, Zenon
<1>3. PICK q \in Seq(S) : q = SubSeq(s, k + 1, Len(s)) /\ Len(q) = Len(s) - k
                          /\ Part(q, s, k, Len(s) - k)
  <2>0. PICK m \in Int, n \in Int : m = k + 1 /\ n = Len(s)
    BY <1>0
  <2>1. \A a \in m .. n : s[a] \in S
    BY <1>0, <1>1, <2>0
  <2>3. PICK q : q = SubSeq(s, m, n)
    BY Zenon
  <2>4. /\ q \in Seq(S) /\ Len(q) = (IF m <= n THEN n - m + 1 ELSE 0)
        /\ \A a \in 1 .. n - m + 1 : q[a] = s[m + a - 1]
    BY <2>1, <2>3, SubSeqProperties
  <2>5. Len(q) = Len(s) - k /\ Part(q, s, k, Len(s) - k)
    BY <1>0, <2>0, <2>4 DEF Part
  <2> QED BY <2>0, <2>3, <2>4, <2>5, Zenon
<1>4. PICK u : u = p \o x
  BY Zenon
<1>5. u \in Seq(S) /\ Len(u) = Len(p) + Len(x) /\ Joins(u, p, x, Len(p), Len(x))
  BY <1>2, <1>4, Joined, Zenon
<1>6. PICK v : v = u \o y
  BY Zenon
<1>7. v \in Seq(S) /\ Len(v) = Len(u) + Len(y) /\ Joins(v, u, y, Len(u), Len(y))
  BY <1>5, <1>6, Joined, Zenon
<1>8. t = v \o q
  BY <1>t, <1>2, <1>3, <1>4, <1>6 DEF SpliceOf
<1>9. t \in Seq(S) /\ Len(t) = Len(v) + Len(q) /\ Joins(t, v, q, Len(v), Len(q))
  BY <1>3, <1>7, <1>8, Joined, Zenon
<1>10. /\ Joins(u, p, x, i - 1, Len(x))
       /\ Joins(v, u, y, i - 1 + Len(x), Len(y))
       /\ Joins(t, v, q, i - 1 + Len(x) + Len(y), Len(s) - k)
       /\ Part(p, s, 0, i - 1) /\ Part(q, s, k, Len(s) - k)
       /\ Len(t) = i - 1 + Len(x) + Len(y) + (Len(s) - k)
  BY <1>2, <1>3, <1>5, <1>7, <1>9, Zenon
<1>11. Spliced(t, s, i, k, x, y, Len(s), Len(x), Len(y))
  BY <1>0, <1>10, SpliceIndex, Zenon
<1> QED BY <1>t, <1>9, <1>10, <1>11, Zenon
\* A gap of t: one of gs before the place that changes, what is left of gap i or of
\* gap k, or one of gs after that place.
Left(t, gs, i, k, start, e, lx, ly, a) ==
    \/ a < i /\ t[a] = gs[a]
    \/ a = i /\ lx = 1 /\ t[a].Start = gs[i].Start /\ t[a].End = start /\ gs[i].Start # start
    \/ a = i + lx /\ ly = 1 /\ t[a].Start = e /\ t[a].End = gs[k].End /\ e < gs[k].End
    \/ a >= i + lx + ly /\ t[a] = gs[a - i - lx - ly + k + 1]

\* [start, e) begins in gap i and ends in gap k.
Spans(gs, n, i, k, start, e, top) ==
    /\ i \in 1 .. n /\ k \in i .. n /\ start \in Nat /\ e \in Nat
    /\ gs[i].Start <= start /\ start < gs[i].End
    /\ gs[k].Start < e /\ e <= gs[k].End /\ start < e /\ e < top

\* What is left of gap i and of gap k, if something is.
Before(x, lx, gs, i, start) ==
    /\ lx \in 0 .. 1
    /\ lx = 1 => x[1] = [Start |-> gs[i].Start, End |-> start] /\ gs[i].Start # start
    /\ lx = 0 => gs[i].Start = start
After(y, ly, gs, k, e) ==
    /\ ly \in 0 .. 1
    /\ ly = 1 => y[1] = [Start |-> e, End |-> gs[k].End] /\ e < gs[k].End
    /\ ly = 0 => gs[k].End = e

\* Of the bytes in gaps exactly those of [start, e) are in one no more.
Closed(t, m, gs, n, start, e) ==
    \A b \in Nat : InGap(t, m, b) <=> InGap(gs, n, b) /\ ~(start <= b /\ b < e)

AllLeft(t, m, gs, i, k, start, e, lx, ly) ==
    \A a \in 1 .. m : Left(t, gs, i, k, start, e, lx, ly, a)

\* A list of gaps from which a range was cut is again one, without the range.
LEMMA CarvedGaps ==
    ASSUME NEW low, NEW top, NEW gs, NEW t, NEW n, NEW m, NEW i, NEW k, NEW start, NEW e,
           NEW x, NEW y, NEW lx, NEW ly, m = i - 1 + lx + ly + (n - k),
           Gaps(gs, n, low, top), Spans(gs, n, i, k, start, e, top),
           Before(x, lx, gs, i, start), After(y, ly, gs, k, e),
           AllLeft(t, m, gs, i, k, start, e, lx, ly)
    PROVE  /\ m # 0 /\ Gaps(t, m, low, top)
           /\ Closed(t, m, gs, n, start, e)
<1>t. low \in Nat /\ top \in Nat /\ n \in Nat /\ i \in 1 .. n /\ k \in i .. n /\ start \in Nat
      /\ e \in Nat
  BY DEF Gaps, Spans
<1>0. lx \in 0 .. 1 /\ ly \in 0 .. 1
      /\ (lx = 0 => gs[i].Start = start) /\ (ly = 0 => gs[k].End = e)
  BY DEF Before, After
<1>1. 1 <= i /\ i <= k /\ k <= n /\ i \in Nat /\ k \in Nat /\ lx \in 0 .. 1 /\ ly \in 0 .. 1
  BY <1>t, <1>0
<1>2. /\ \A a \in 1 .. n : gs[a].Start \in Nat /\ gs[a].End \in Nat
      /\ \A a \in 1 .. n : low <= gs[a].Start /\ gs[a].Start < gs[a].End
      /\ \A a, b \in 1 .. n : a < b => gs[a].End < gs[b].Start
      /\ gs[n].End = top
  BY DEF Gaps
<1>3. /\ gs[i].Start <= start /\ start < gs[i].End
      /\ gs[k].Start < e /\ e <= gs[k].End /\ start < e /\ e < top
  BY DEF Spans
<1>9. \A a \in 1 .. m : a >= i + lx + ly => a - i - lx - ly + k + 1 \in k + 1 .. n
  BY <1>t, <1>1
<1>10. ASSUME NEW a \in 1 .. m
       PROVE  /\ low <= t[a].Start /\ t[a].Start < t[a].End
              /\ t[a].Start \in Nat /\ t[a].End \in Nat
  <2>1. Left(t, gs, i, k, start, e, lx, ly, a)
    BY DEF AllLeft
  <2> QED BY <1>t, <1>1, <1>2, <1>3, <1>9, <2>1 DEF Left
<1>11. ASSUME NEW a \in 1 .. m, NEW b \in 1 .. m, a < b
       PROVE  t[a].End < t[b].Start
  <2>1. Left(t, gs, i, k, start, e, lx, ly, a) /\ Left(t, gs, i, k, start, e, lx, ly, b)
    BY DEF AllLeft
  <2>2. CASE a < i /\ t[a] = gs[a]
    BY <1>t, <1>1, <1>2, <1>3, <1>9, <1>11, <2>1, <2>2 DEF Left
  <2>3. CASE a = i /\ lx = 1 /\ t[a].End = start
    BY <1>t, <1>1, <1>2, <1>3, <1>9, <1>11, <2>1, <2>3 DEF Left
  <2>4. CASE a = i + lx /\ ly = 1 /\ t[a].End = gs[k].End
    BY <1>t, <1>1, <1>2, <1>3, <1>9, <1>11, <2>1, <2>4 DEF Left
  <2>5. CASE a >= i + lx + ly /\ t[a] = gs[a - i - lx - ly + k + 1]
    BY <1>t, <1>1, <1>2, <1>3, <1>9, <1>11, <2>1, <2>5 DEF Left
  <2> QED BY <2>1, <2>2, <2>3, <2>4, <2>5 DEF Left
<1>12. m > 0 /\ t[m].End = top
  <2>1. k = n => ly = 1
    BY <1>t, <1>0, <1>1, <1>2, <1>3
  <2>2. m > 0
    BY <1>t, <1>1, <2>1
  <2>3. Left(t, gs, i, k, start, e, lx, ly, m)
    BY <2>2 DEF AllLeft
  <2>4. m >= i + lx + ly => m - i - lx - ly + k + 1 = n
    BY <1>t, <1>1
  <2>5. m = i + lx /\ ly = 1 => k = n
    BY <1>t, <1>1
  <2>6. ~(m < i) /\ ~(m = i /\ lx = 1 /\ ly = 0 /\ k = n)
    BY <1>t, <1>1, <2>1
  <2>7. m = i /\ lx = 1 => m >= i + lx + ly \/ (m = i + lx /\ ly = 1) \/ k = n
    BY <1>t, <1>1, <2>6
  <2> QED BY <1>t, <1>1, <1>2, <1>3, <2>1, <2>2, <2>3, <2>4, <2>5, <2>6, <2>7 DEF Left
<1>13. Gaps(t, m, low, top)
  BY <1>t, <1>10, <1>11, <1>12 DEF Gaps
<1>14. ASSUME NEW b \in Nat, InGap(t, m, b) PROVE InGap(gs, n, b) /\ ~(start <= b /\ b < e)
  <2>1. PICK a \in 1 .. m : t[a].Start <= b /\ b < t[a].End
    BY <1>t, <1>14 DEF InGap
  <2>2. Left(t, gs, i, k, start, e, lx, ly, a)
    BY DEF AllLeft
  <2>3. CASE a < i /\ t[a] = gs[a]
    BY <1>t, <1>1, <1>2, <1>3, <2>1, <2>3 DEF InGap
  <2>4. CASE a = i /\ lx = 1 /\ t[a].Start = gs[i].Start /\ t[a].End = start
    BY <1>t, <1>1, <1>2, <1>3, <2>1, <2>4 DEF InGap
  <2>5. CASE a = i + lx /\ t[a].Start = e /\ t[a].End = gs[k].End
    BY <1>t, <1>1, <1>2, <1>3, <2>1, <2>5 DEF InGap
  <2>6. CASE a >= i + lx + ly /\ t[a] = gs[a - i - lx - ly + k + 1]
    <3>1. PICK c \in k + 1 .. n : c = a - i - lx - ly + k + 1
      BY <1>9, <2>6
    <3>2. gs[k].End < gs[c].Start /\ gs[c].Start <= b /\ b < gs[c].End
      BY <1>t, <1>1, <1>2, <2>1, <2>6, <3>1
    <3> QED BY <1>t, <1>1, <1>2, <1>3, <3>1, <3>2 DEF InGap
  <2> QED BY <2>2, <2>3, <2>4, <2>5, <2>6 DEF Left
<1>15. ASSUME NEW b \in Nat, InGap(gs, n, b), ~(start <= b /\ b < e) PROVE InGap(t, m, b)
  <2>1. PICK c \in 1 .. n : gs[c].Start <= b /\ b < gs[c].End
    BY <1>t, <1>15 DEF InGap
  <2>2. \A a \in 1 .. m : t[a].Start <= b /\ b < t[a].End => InGap(t, m, b)
    BY DEF InGap
  <2>3. CASE c < i
    <3>1. c \in 1 .. m
      BY <1>t, <1>1, <2>3
    <3>2. t[c] = gs[c]
      BY <1>t, <1>1, <2>3, <3>1 DEF Left, AllLeft
    <3> QED BY <2>1, <2>2, <3>1, <3>2
  <2>4. CASE c > k
    <3>1. PICK a \in 1 .. m : a = c + i + lx + ly - k - 1
      BY <1>t, <1>1, <2>4
    <3>2. a >= i + lx + ly /\ a - i - lx - ly + k + 1 = c
      BY <1>t, <1>1, <2>4, <3>1
    <3>3. t[a] = gs[c]
      <4>1. Left(t, gs, i, k, start, e, lx, ly, a)
        BY DEF AllLeft
      <4> QED BY <1>t, <1>1, <3>2, <4>1 DEF Left
    <3> QED BY <2>1, <2>2, <3>3
  <2>5. CASE i <= c /\ c <= k /\ b < start
    <3>1. c = i
      BY <1>t, <1>1, <1>2, <1>3, <2>1, <2>5
    <3>2. lx = 1
      BY <1>t, <1>0, <1>1, <1>2, <1>3, <2>1, <2>5, <3>1
    <3>3. i \in 1 .. m
      BY <1>t, <1>1, <3>2
    <3>4. t[i].Start = gs[i].Start /\ t[i].End = start
      BY <1>t, <1>1, <3>2, <3>3 DEF Left, AllLeft
    <3> QED BY <2>1, <2>2, <2>5, <3>1, <3>3, <3>4
  <2>6. CASE i <= c /\ c <= k /\ e <= b
    <3>1. c = k
      BY <1>t, <1>1, <1>2, <1>3, <2>1, <2>6
    <3>2. ly = 1
      BY <1>t, <1>0, <1>1, <1>2, <1>3, <2>1, <2>6, <3>1
    <3>3. i + lx \in 1 .. m
      BY <1>t, <1>1, <3>2
    <3>4. t[i + lx].Start = e /\ t[i + lx].End = gs[k].End
      BY <1>t, <1>1, <3>2, <3>3 DEF Left, AllLeft
    <3> QED BY <2>1, <2>2, <2>6, <3>1, <3>3, <3>4
  <2> QED BY <1>t, <1>1, <1>15, <2>3, <2>4, <2>5, <2>6
<1> QED BY <1>t, <1>12, <1>13, <1>14, <1>15 DEF Closed

\* Each gap of the new list is an old one, or what is left of gap i or k.
LEMMA SplicedLeft ==
    ASSUME NEW gs, NEW t, NEW n, NEW lx, NEW ly, NEW x, NEW y, NEW i, NEW k, NEW start, NEW e,
           NEW low, NEW top, Gaps(gs, n, low, top), Spans(gs, n, i, k, start, e, top),
           Before(x, lx, gs, i, start), After(y, ly, gs, k, e),
           Spliced(t, gs, i, k, x, y, n, lx, ly), NEW m, m = i - 1 + lx + ly + (n - k)
    PROVE  AllLeft(t, m, gs, i, k, start, e, lx, ly)
<1> SUFFICES ASSUME NEW a \in 1 .. m PROVE Left(t, gs, i, k, start, e, lx, ly, a)
  BY DEF AllLeft
<1>t. n \in Nat /\ i \in 1 .. n /\ k \in i .. n /\ start \in Nat /\ e \in Nat
  BY DEF Gaps, Spans
<1>0. /\ lx \in 0 .. 1 /\ ly \in 0 .. 1
      /\ lx = 1 => x[1] = [Start |-> gs[i].Start, End |-> start] /\ gs[i].Start # start
      /\ ly = 1 => y[1] = [Start |-> e, End |-> gs[k].End] /\ e < gs[k].End
  BY DEF Before, After
<1>1. /\ a < i => t[a] = gs[a]
      /\ i <= a /\ a < i + lx => t[a] = x[a - i + 1]
      /\ i + lx <= a /\ a < i + lx + ly => t[a] = y[a - i - lx + 1]
      /\ i + lx + ly <= a => t[a] = gs[a - i - lx - ly + k + 1]
  BY <1>t, <1>0 DEF Spliced
<1>2. CASE a < i
  BY <1>t, <1>0, <1>1, <1>2 DEF Left
<1>3. CASE i <= a /\ a < i + lx
  <2>1. lx = 1 /\ a = i /\ a - i + 1 = 1
    BY <1>t, <1>0, <1>3
  <2>2. t[a] = [Start |-> gs[i].Start, End |-> start]
    BY <1>t, <1>0, <1>1, <1>3, <2>1
  <2> QED BY <1>t, <1>0, <2>1, <2>2 DEF Left
<1>4. CASE i + lx <= a /\ a < i + lx + ly
  <2>1. ly = 1 /\ a = i + lx /\ a - i - lx + 1 = 1
    BY <1>t, <1>0, <1>4
  <2>2. t[a] = [Start |-> e, End |-> gs[k].End]
    BY <1>t, <1>0, <1>1, <1>4, <2>1
  <2> QED BY <1>t, <1>0, <2>1, <2>2 DEF Left
<1>5. CASE i + lx + ly <= a
  BY <1>t, <1>0, <1>1, <1>5 DEF Left
<1> QED BY <1>t, <1>0, <1>2, <1>3, <1>4, <1>5

\* The three lemmas above, put together.
LEMMA CarvedList ==
    ASSUME NEW low, NEW top, NEW gs \in Seq(Intervals), NEW i, NEW k, NEW start, NEW e,
           Gaps(gs, Len(gs), low, top), Spans(gs, Len(gs), i, k, start, e, top),
           NEW x \in Seq(Intervals), NEW y \in Seq(Intervals),
           Before(x, Len(x), gs, i, start), After(y, Len(y), gs, k, e),
           NEW t, t = SpliceOf(gs, i, k, x, y)
    PROVE  GapList(t, low, top) /\ Closed(t, Len(t), gs, Len(gs), start, e)
<1>1. /\ SpliceOf(gs, i, k, x, y) \in Seq(Intervals)
      /\ Len(SpliceOf(gs, i, k, x, y)) = i - 1 + Len(x) + Len(y) + (Len(gs) - k)
      /\ Spliced(SpliceOf(gs, i, k, x, y), gs, i, k, x, y, Len(gs), Len(x), Len(y))
  <2>1. i \in 1 .. Len(gs) /\ k \in i .. Len(gs)
    BY DEF Spans
  <2> QED BY <2>1, Splice, Zenon
<1>2. /\ t \in Seq(Intervals) /\ Len(t) = i - 1 + Len(x) + Len(y) + (Len(gs) - k)
      /\ Spliced(t, gs, i, k, x, y, Len(gs), Len(x), Len(y))
  BY <1>1
<1>3. Len(t) \in Nat /\ Len(gs) \in Nat
  BY <1>2, LenProperties
<1>4. AllLeft(t, Len(t), gs, i, k, start, e, Len(x), Len(y))
  BY <1>2, <1>3, SplicedLeft
<1>5. /\ Len(t) # 0 /\ Gaps(t, Len(t), low, top)
      /\ Closed(t, Len(t), gs, Len(gs), start, e)
  BY <1>2, <1>3, <1>4, CarvedGaps, Zenon
<1> QED BY <1>2, <1>3, <1>5 DEF GapList

\* Cutting such an interval out of a list of gaps as Insert does gives a list of gaps
\* again, and closes exactly those bytes.
LEMMA Carved ==
    ASSUME NEW low, NEW top, NEW gs, NEW i, NEW k, NEW start, NEW e, GapList(gs, low, top),
           Spans(gs, Len(gs), i, k, start, e, top), NEW before, NEW after, NEW t,
           before = IF start = gs[i].Start THEN <<>>
                    ELSE <<[Start |-> gs[i].Start, End |-> start]>>,
           after = IF e < gs[k].End THEN <<[Start |-> e, End |-> gs[k].End]>> ELSE <<>>,
           t = SpliceOf(gs, i, k, before, after)
    PROVE  /\ GapList(t, low, top)
           /\ Closed(t, Len(t), gs, Len(gs), start, e)
<1>0. gs \in Seq(Intervals) /\ Len(gs) \in Nat /\ Gaps(gs, Len(gs), low, top)
  BY LenProperties DEF GapList
<1>2. start \in Nat /\ e \in Nat /\ gs[i].Start \in Nat /\ gs[k].End \in Nat /\ gs[i].Start <= start /\ e <= gs[k].End
  BY <1>0, SMTT(30) DEF Gaps, Spans
<1>3. before \in Seq(Intervals) /\ Before(before, Len(before), gs, i, start)
  <2>1. [Start |-> gs[i].Start, End |-> start] \in Intervals
    BY <1>2 DEF Intervals
  <2>2. CASE start = gs[i].Start
    BY <2>2, EmptySeq DEF Before
  <2>3. CASE start # gs[i].Start
    BY <2>1, <2>3 DEF Before
  <2> QED BY <2>2, <2>3
<1>4. after \in Seq(Intervals) /\ After(after, Len(after), gs, k, e)
  <2>1. [Start |-> e, End |-> gs[k].End] \in Intervals
    BY <1>2 DEF Intervals
  <2>2. CASE e < gs[k].End
    BY <2>1, <2>2 DEF After
  <2>3. CASE ~(e < gs[k].End)
    BY <1>2, <2>1, <2>3, EmptySeq DEF After
  <2> QED BY <2>2, <2>3
<1> QED BY <1>0, <1>3, <1>4, CarvedList, Zenon

(***************************************************************************)
(* The reassembly queue.                                                   *)
(***************************************************************************)
Frames == [Offset : Nat, first : Nat, len : Nat, FinBit : BOOLEAN]
TooManyGaps == "errTooManyGapsInReceivedStreamData"

\* The frame with the bytes o to e - 1.
Piece(o, e, b) == [Offset |-> o, first |-> o, len |-> e - o, FinBit |-> b]

\* A frame f in the queue under offset o.
FrameOK(f, o, A) ==
    /\ o \in 0 .. Length /\ f \in Frames /\ f.Offset = o /\ f.first = o
    /\ o + f.len <= Length
    /\ o < Length => f.len > 0
    /\ o = Length => f = FinFrame
    /\ o .. o + f.len - 1 \subseteq A
    /\ f.FinBit => o + f.len = Length \/ o + f.len \in A

FramesOK == \A o \in DOMAIN queuedFrames : FrameOK(queuedFrames[o], o, arrived)

\* The gaps are what has not arrived.
GapsOK ==
    /\ GapList(gaps, readPosition, MaxByteCount)
    /\ \A b \in 0 .. Length - 1 : b \in arrived <=> ~InGap(gaps, Len(gaps), b)

\* The frames that Pop will find (see NothingLost).
Chain(found, q, A, low) ==
    /\ found \subseteq DOMAIN q
    /\ \A b \in A : b >= low /\ (b = low \/ b - 1 \notin A) => b \in found
    /\ \A o \in found : /\ q[o].len > 0 /\ o .. o + q[o].len - 1 \subseteq A
                        /\ o + q[o].len \in found \/ o + q[o].len \notin A

QInv ==
    /\ readPosition \in 0 .. Length /\ arrived \subseteq 0 .. Length - 1
    /\ FramesOK
    /\ result # TooManyGaps =>
         GapsOK /\ \E found : Chain(found, queuedFrames, arrived, readPosition)

\* Cutting a frame at either end leaves the frame of the bytes in between.
LEMMA CutPiece ==
    ASSUME NEW o, NEW e, NEW n, NEW b, o \in Int /\ e \in Int /\ n \in Int
    PROVE  CutFront(Piece(o, e, b), n) = Piece(o + n, e, b)
           /\ CutEnd(Piece(o, e, b), n) = Piece(o, e - n, b)
<1>1. PICK x : x = (e - o) - n /\ x = e - (o + n) /\ x = (e - n) - o
  OBVIOUS
<1>2. CutFront(Piece(o, e, b), n) = [Offset |-> o + n, first |-> o + n, len |-> (e - o) - n, FinBit |-> b]
  <2>1. PICK f, g : f = Piece(o, e, b) /\ g = CutFront(f, n)
    OBVIOUS
  <2>2. DOMAIN g = {"Offset", "first", "len", "FinBit"}
    BY <2>1 DEF CutFront, Piece
  <2>3. g.Offset = o + n /\ g.first = o + n /\ g.len = (e - o) - n /\ g.FinBit = b
    BY <2>1 DEF CutFront, Piece
  <2>4. g = [c \in {"Offset", "first", "len", "FinBit"} |-> g[c]]
    BY <2>1, <2>2, Zenon DEF CutFront
  <2> QED BY <2>1, <2>3, <2>4
<1>3. CutEnd(Piece(o, e, b), n) = [Offset |-> o, first |-> o, len |-> (e - o) - n, FinBit |-> b]
  BY DEF CutEnd, Piece
<1>4. Piece(o + n, e, b) = [Offset |-> o + n, first |-> o + n, len |-> x, FinBit |-> b]
  BY <1>1 DEF Piece
<1>5. Piece(o, e - n, b) = [Offset |-> o, first |-> o, len |-> x, FinBit |-> b]
  BY <1>1 DEF Piece
<1> QED BY <1>1, <1>2, <1>3, <1>4, <1>5

\* A frame with data that the peer sent.
LEMMA SentPiece ==
    ASSUME NEW frame \in SentFrames, frame.len # 0
    PROVE  \E o \in Nat, e \in Nat, b \in BOOLEAN :
              frame = Piece(o, e, b) /\ o < e /\ e <= Length /\ (b => e = Length)
<1>1. frame # FinFrame
  BY DEF FinFrame
<1>2. PICK p \in Segments : frame = [Offset |-> p[1], first |-> p[1], len |-> p[2] - p[1],
                                     FinBit |-> p[2] = Length]
  BY <1>1 DEF SentFrames
<1>3. p[1] \in 0 .. p[2] - 1 /\ p[2] \in 1 .. Length /\ Length \in Nat
  BY SorterConstants
<1>4. frame = Piece(p[1], p[2], p[2] = Length)
  BY <1>2 DEF Piece
<1>5. p[1] \in Nat /\ p[2] \in Nat /\ p[1] < p[2] /\ p[2] <= Length
  BY <1>3
<1>6. PICK b : b = (p[2] = Length)
  OBVIOUS
<1>7. b \in BOOLEAN /\ (b => p[2] = Length) /\ frame = Piece(p[1], p[2], b)
  BY <1>4, <1>6, Zenon
<1> QED BY <1>5, <1>7

\* What AfterOldFrame leaves: the bytes before it have arrived.
LEMMA AfterOld ==
    ASSUME QInv, NEW o \in Nat, NEW e \in Nat, NEW b \in BOOLEAN, o < e, e <= Length
    PROVE  \E s \in o .. Length :
              /\ AfterOldFrame(Piece(o, e, b)) = Piece(s, e, b) /\ o .. s - 1 \subseteq arrived
              /\ s = o => o \notin DOMAIN queuedFrames
<1>1. Piece(o, e, b).Offset = o /\ Length \in Nat
  BY SorterConstants DEF Piece
<1>2. CASE o \in DOMAIN queuedFrames
  <2>1. FrameOK(queuedFrames[o], o, arrived)
    BY <1>2 DEF QInv, FramesOK
  <2>2. PICK n \in Nat : n = queuedFrames[o].len /\ n > 0 /\ o + n <= Length
                         /\ o .. o + n - 1 \subseteq arrived
    BY <1>1, <2>1 DEF FrameOK, Frames
  <2>3. AfterOldFrame(Piece(o, e, b)) = CutFront(Piece(o, e, b), n)
    BY <1>1, <1>2, <2>2 DEF AfterOldFrame
  <2>4. AfterOldFrame(Piece(o, e, b)) = Piece(o + n, e, b)
    BY <2>3, CutPiece
  <2> QED BY <1>1, <2>2, <2>4
<1>3. CASE o \notin DOMAIN queuedFrames
  <2>1. AfterOldFrame(Piece(o, e, b)) = Piece(o, e, b)
    BY <1>1, <1>3 DEF AfterOldFrame
  <2> QED BY <1>1, <1>3, <2>1
<1> QED BY <1>2, <1>3

\* GapIndex finds the first gap that the frame does not lie behind.
LEMMA FoundGap ==
    ASSUME GapsOK, NEW s \in Nat, NEW e \in Nat, NEW b, s <= Length
    PROVE  /\ GapIndex(Piece(s, e, b)) \in 1 .. Len(gaps)
           /\ \/ e <= gaps[GapIndex(Piece(s, e, b))].Start
              \/ s <= gaps[GapIndex(Piece(s, e, b))].End
           /\ \A j \in 1 .. GapIndex(Piece(s, e, b)) - 1 : gaps[j].Start < e /\ gaps[j].End < s
<1> DEFINE f == Piece(s, e, b)
           P(i) == f.Offset + f.len <= gaps[i].Start \/ f.Offset <= gaps[i].End
           S == {i \in 1 .. Len(gaps) : P(i)}
<1>1. f.Offset = s /\ f.Offset + f.len = e
  BY DEF Piece
<1>2. /\ DOMAIN gaps = 1 .. Len(gaps) /\ Len(gaps) \in Nat /\ Len(gaps) > 0
      /\ \A a \in 1 .. Len(gaps) : gaps[a].Start \in Nat /\ gaps[a].End \in Nat
      /\ gaps[Len(gaps)].End = Length + 1
  BY LenProperties DEF GapsOK, GapList, Gaps, MaxByteCount
<1>3. S # {} /\ S \subseteq Nat
  <2>1. Length \in Nat
    BY SorterConstants
  <2>2. P(Len(gaps))
    BY <1>1, <1>2, <2>1
  <2> QED BY <1>2, <2>2
<1>4. PICK i \in S : \A j \in S : i <= j
  BY <1>3, LeastIndex, Zenon
<1>5. \A j \in 1 .. i - 1 : ~P(j)
  BY <1>2, <1>4, SMTT(30)
<1>6. GapIndex(f) \in 1 .. Len(gaps) /\ P(GapIndex(f)) /\ \A j \in 1 .. GapIndex(f) - 1 : ~P(j)
  <2>1. \E m \in DOMAIN gaps : P(m) /\ \A j \in 1 .. m - 1 : ~P(j)
    BY <1>2, <1>4, <1>5, Zenon
  <2>2. GapIndex(f) = CHOOSE m \in DOMAIN gaps : P(m) /\ \A j \in 1 .. m - 1 : ~P(j)
    BY DEF GapIndex
  <2> HIDE DEF P, f
  <2> QED BY <1>2, <2>1, <2>2, Zenon
<1>7. PICK m \in 1 .. Len(gaps) : m = GapIndex(f)
  BY <1>6
<1>8. \A j \in 1 .. m - 1 : gaps[j].Start < e /\ gaps[j].End < s
  <2> TAKE j \in 1 .. m - 1
  <2>1. ~P(j) /\ j \in 1 .. Len(gaps)
    BY <1>2, <1>6, <1>7
  <2> QED BY <1>1, <1>2, <2>1, SMTT(30)
<1>9. e <= gaps[m].Start \/ s <= gaps[m].End
  BY <1>1, <1>6, <1>7, Zenon
<1> HIDE DEF f
<1> QED BY <1>7, <1>8, <1>9 DEF f

\* EndGapIndex finds the last gap that the frame reaches into.
LEMMA LastGap ==
    ASSUME GapsOK, NEW i \in 1 .. Len(gaps), NEW e \in Nat, e <= Length
    PROVE  /\ EndGapIndex(i, e) \in i .. Len(gaps)
           /\ \/ e < gaps[EndGapIndex(i, e)].End
              \/ /\ EndGapIndex(i, e) < Len(gaps)
                 /\ e <= gaps[EndGapIndex(i, e) + 1].Start
           /\ \A j \in i .. EndGapIndex(i, e) - 1 : gaps[j].End <= e /\ gaps[j + 1].Start < e
<1> DEFINE P(k) == e < gaps[k].End \/ e <= gaps[k + 1].Start
           R(k) == P(k) /\ \A j \in i .. k - 1 : e >= gaps[j].End /\ e > gaps[j + 1].Start
           S == {k \in i .. Len(gaps) : P(k)}
<1>2. /\ Len(gaps) \in Nat /\ Len(gaps) > 0 /\ i \in Nat /\ i <= Len(gaps) /\ 1 <= i
      /\ \A a \in 1 .. Len(gaps) : gaps[a].Start \in Nat /\ gaps[a].End \in Nat
      /\ gaps[Len(gaps)].End = Length + 1 /\ Length \in Nat
  BY LenProperties, SorterConstants DEF GapsOK, GapList, Gaps, MaxByteCount
<1>3. S # {} /\ S \subseteq Nat
  <2>1. P(Len(gaps))
    BY <1>2
  <2>2. Len(gaps) \in i .. Len(gaps) /\ i .. Len(gaps) \subseteq Nat
    BY <1>2
  <2> HIDE DEF P
  <2> QED BY <2>1, <2>2
<1>4. PICK k \in S : \A j \in S : k <= j
  BY <1>3, LeastIndex, Zenon
<1>5. \A j \in i .. k - 1 : e >= gaps[j].End /\ e > gaps[j + 1].Start
  <2> TAKE j \in i .. k - 1
  <2>1. ~P(j) /\ j \in 1 .. Len(gaps) /\ j + 1 \in 1 .. Len(gaps)
    BY <1>2, <1>4
  <2> QED BY <1>2, <2>1, SMTT(30)
<1>6. EndGapIndex(i, e) \in i .. Len(gaps) /\ R(EndGapIndex(i, e))
  <2>1. k \in i .. Len(gaps) /\ R(k)
    BY <1>4, <1>5
  <2>2. EndGapIndex(i, e) = CHOOSE m \in i .. Len(gaps) : R(m)
    BY DEF EndGapIndex
  <2> HIDE DEF R
  <2> QED BY <2>1, <2>2
<1>7. PICK m \in i .. Len(gaps) : m = EndGapIndex(i, e)
  BY <1>6
<1>8. R(m)
  BY <1>6, <1>7
<1>9. \A j \in i .. m - 1 : gaps[j].End <= e /\ gaps[j + 1].Start < e
  <2> TAKE j \in i .. m - 1
  <2>1. j \in 1 .. Len(gaps) /\ j + 1 \in 1 .. Len(gaps)
    BY <1>2
  <2> QED BY <1>2, <1>8, <2>1
<1>10. e < gaps[m].End \/ (m < Len(gaps) /\ e <= gaps[m + 1].Start)
  BY <1>2, <1>8
<1> QED BY <1>7, <1>9, <1>10

\* An index in the tail of a list is an index of the list.
LEMMA TailOfRange ==
    ASSUME NEW n \in Nat, NEW a \in 1 .. n, NEW c \in a .. n
    PROVE  c \in 1 .. n
OBVIOUS

\* The numbers in the list of gaps.
LEMMA GapFacts ==
    ASSUME GapsOK
    PROVE  /\ Len(gaps) \in Nat /\ Len(gaps) > 0 /\ readPosition \in Nat
           /\ \A a \in 1 .. Len(gaps) : /\ gaps[a].Start \in Nat /\ gaps[a].End \in Nat
                                        /\ readPosition <= gaps[a].Start
                                        /\ gaps[a].Start < gaps[a].End
           /\ \A a, c \in 1 .. Len(gaps) : a < c => gaps[a].End < gaps[c].Start
           /\ gaps[Len(gaps)].End = Length + 1 /\ Length \in Nat
BY LenProperties, SorterConstants DEF GapsOK, GapList, Gaps, MaxByteCount

\* A byte that lies before or behind each gap has arrived.
LEMMA BetweenGaps ==
    ASSUME GapsOK, NEW b \in 0 .. Length - 1,
           \A j \in 1 .. Len(gaps) : gaps[j].End <= b \/ b < gaps[j].Start
    PROVE  b \in arrived
<1>1. ~InGap(gaps, Len(gaps), b)
  <2>1. SUFFICES ASSUME NEW a \in 1 .. Len(gaps), gaps[a].Start <= b, b < gaps[a].End PROVE FALSE
    BY DEF InGap
  <2> QED BY <2>1, GapFacts, SMTT(30)
<1> QED BY <1>1 DEF GapsOK

\* The part from start to e of the frame with the bytes o to end - 1 is new.
NewPart(o, end, i, k, start, e) ==
    /\ Spans(gaps, Len(gaps), i, k, start, e, MaxByteCount)
    /\ e = IF end > gaps[k].End THEN gaps[k].End ELSE end
    /\ arrived \cup o .. end - 1 = arrived \cup start .. e - 1
    /\ o <= start /\ e <= end /\ end <= Length /\ end \in Nat
    /\ e = end \/ e \in arrived

\* What is to be done with a frame that was cut to the bytes s to end - 1.
Cut(s, o, end) ==
    /\ s \in Nat /\ o \in Nat /\ end \in Nat /\ o <= s /\ s <= Length /\ o < end /\ end <= Length
    /\ o .. s - 1 \subseteq arrived
    /\ s = o => o \notin DOMAIN queuedFrames

StartsIn(i, s, end) ==
    /\ i \in 1 .. Len(gaps)
    /\ end <= gaps[i].Start \/ s <= gaps[i].End
    /\ \A j \in 1 .. i - 1 : gaps[j].Start < end /\ gaps[j].End < s

EndsIn(k, i, end) ==
    /\ k \in i .. Len(gaps)
    /\ end < gaps[k].End \/ (k < Len(gaps) /\ end <= gaps[k + 1].Start)
    /\ \A j \in i .. k - 1 : gaps[j].End <= end /\ gaps[j + 1].Start < end

\* Up to the first gap that the frame does not lie behind everything has arrived.
LEMMA OldFront ==
    ASSUME GapsOK, NEW s, NEW o, NEW end, NEW i, Cut(s, o, end), StartsIn(i, s, end)
    PROVE  \A b \in Nat : o <= b /\ b < end /\ b < gaps[i].Start => b \in arrived
<1> SUFFICES ASSUME NEW b \in Nat, o <= b, b < end, b < gaps[i].Start PROVE b \in arrived
  OBVIOUS
<1>1. CASE b < s
  BY <1>1 DEF Cut
<1>2. CASE b >= s
  <2>1. b \in 0 .. Length - 1
    BY GapFacts DEF Cut
  <2>2. \A j \in 1 .. Len(gaps) : gaps[j].End <= b \/ b < gaps[j].Start
    <3> TAKE j \in 1 .. Len(gaps)
    <3>1. CASE j < i
      BY <1>2, <3>1, GapFacts, SMTT(60) DEF StartsIn, Cut
    <3>2. CASE j = i
      BY <3>2
    <3>3. CASE j > i
      BY <3>3, GapFacts, SMTT(30) DEF StartsIn
    <3> QED BY <3>1, <3>2, <3>3, GapFacts DEF StartsIn
  <2> QED BY <2>1, <2>2, BetweenGaps
<1> QED BY <1>1, <1>2 DEF Cut

\* A frame that starts where a gap ends has data that is queued there already.
LEMMA NotAtEnd ==
    ASSUME GapsOK, NEW s, NEW o, NEW end, NEW i \in 1 .. Len(gaps), Cut(s, o, end), s < end,
           NEW found, Chain(found, queuedFrames, arrived, readPosition),
           arrived \subseteq 0 .. Length - 1
    PROVE  s # gaps[i].End
<1> SUFFICES ASSUME s = gaps[i].End PROVE FALSE
  OBVIOUS
<1>0. s \in Nat /\ end \in Nat /\ o \in Nat /\ s < end /\ end <= Length /\ Length \in Nat
  BY GapFacts, Zenon DEF Cut
<1>1. s \in arrived
  <2>1. s \in 0 .. Length - 1
    BY <1>0
  <2>2. \A j \in 1 .. Len(gaps) : gaps[j].End <= s \/ s < gaps[j].Start
    BY GapFacts, SMTT(60)
  <2> QED BY <2>1, <2>2, BetweenGaps, Zenon
<1>2. s - 1 \notin arrived /\ s - 1 >= readPosition
  <2>1. InGap(gaps, Len(gaps), s - 1) /\ s - 1 \in 0 .. Length - 1 /\ s - 1 >= readPosition
    <3>1. gaps[i].Start \in Nat /\ readPosition \in Nat /\ readPosition <= gaps[i].Start
          /\ gaps[i].Start < s
      BY GapFacts, Zenon
    <3>2. gaps[i].Start <= s - 1 /\ s - 1 < gaps[i].End /\ s - 1 >= readPosition
          /\ s - 1 \in 0 .. Length - 1
      BY <1>0, <3>1, SMTT(30)
    <3> QED BY <3>2 DEF InGap
  <2> QED BY <2>1 DEF GapsOK
<1>3. s \in DOMAIN queuedFrames
  BY <1>0, <1>1, <1>2, GapFacts, SMTT(30) DEF Chain
<1>4. CASE s = o
  BY <1>3, <1>4 DEF Cut
<1>5. CASE s # o
  BY <1>0, <1>2, <1>5, SMTT(30) DEF Cut
<1> QED BY <1>4, <1>5

\* What Push queues lies between the first and the last gap that the frame reaches.
LEMMA IsNew ==
    ASSUME GapsOK, NEW s, NEW o, NEW end, NEW i, NEW k, Cut(s, o, end), s < end,
           StartsIn(i, s, end), EndsIn(k, i, end), ~(end <= gaps[i].Start), s # gaps[i].End,
           NEW start, start = (IF s < gaps[i].Start THEN gaps[i].Start ELSE s),
           NEW e, e = (IF end > gaps[k].End THEN gaps[k].End ELSE end)
    PROVE  NewPart(o, end, i, k, start, e)
<1>1. /\ s \in Nat /\ o \in Nat /\ end \in Nat /\ o <= s /\ s < end /\ end <= Length /\ o < end
      /\ i \in 1 .. Len(gaps) /\ k \in 1 .. Len(gaps) /\ i <= k /\ i \in Nat /\ k \in Nat
      /\ start \in Nat /\ e \in Nat /\ gaps[i].Start < end
  BY GapFacts, SMTT(30) DEF Cut, StartsIn, EndsIn
<1>2. gaps[i].Start <= start /\ start < gaps[i].End /\ o <= start /\ start < end
  BY <1>1, GapFacts, SMTT(60) DEF StartsIn
<1>3. e <= end /\ e <= gaps[k].End
  BY <1>1, GapFacts, SMTT(30)
<1>4. gaps[k].Start < e /\ start < e
  <2>1. CASE i = k
    BY <1>1, <1>2, <2>1, GapFacts, Zenon
  <2>2. CASE i < k
    <3>1. k - 1 \in i .. k - 1 /\ (k - 1) + 1 = k
      BY <1>1, <2>2
    <3>2. gaps[k].Start < end
      BY <3>1 DEF EndsIn
    <3>3. /\ gaps[i].End < gaps[k].Start /\ gaps[k].Start < gaps[k].End
          /\ gaps[i].End \in Nat /\ gaps[k].Start \in Nat /\ gaps[k].End \in Nat
      BY <1>1, <2>2, GapFacts, Zenon
    <3> QED BY <1>1, <1>2, <3>2, <3>3, SMTT(60)
  <2> QED BY <1>1, <2>1, <2>2
<1>5. e < MaxByteCount
  BY <1>1, <1>3, GapFacts, SMTT(30) DEF MaxByteCount
<1>6. Spans(gaps, Len(gaps), i, k, start, e, MaxByteCount)
  BY <1>1, <1>2, <1>3, <1>4, <1>5 DEF Spans
<1>7. \A b \in Nat : e <= b /\ b < end => b \in arrived
  <2> SUFFICES ASSUME NEW b \in Nat, e <= b, b < end PROVE b \in arrived
    OBVIOUS
  <2>1. e = gaps[k].End /\ k < Len(gaps) /\ end <= gaps[k + 1].Start /\ k + 1 \in 1 .. Len(gaps)
    <3>1. e < end
      BY <1>1
    <3>2. gaps[k].End \in Nat
      BY <1>1, GapFacts
    <3>3. e = gaps[k].End /\ ~(end < gaps[k].End)
      BY <1>1, <3>1, <3>2
    <3>4. k < Len(gaps) /\ end <= gaps[k + 1].Start
      BY <3>3 DEF EndsIn
    <3> QED BY <1>1, <3>3, <3>4, GapFacts
  <2>2. b \in 0 .. Length - 1
    BY <1>1, GapFacts
  <2>3. \A j \in 1 .. Len(gaps) : gaps[j].End <= b \/ b < gaps[j].Start
    <3> TAKE j \in 1 .. Len(gaps)
    <3>1. CASE j <= k
      <4>1. j = k \/ gaps[j].End < gaps[k].Start
        BY <1>1, <3>1, GapFacts
      <4>2. gaps[k].Start < gaps[k].End /\ gaps[k].Start \in Nat /\ gaps[k].End \in Nat
            /\ gaps[j].End \in Nat
        BY <1>1, GapFacts, Zenon
      <4>3. gaps[k].End <= b
        BY <2>1
      <4>4. gaps[j].End <= b
        BY <4>1, <4>2, <4>3
      <4> QED BY <4>4
    <3>2. CASE j > k
      <4>1. j = k + 1 \/ j > k + 1
        BY <1>1, <3>2
      <4>2. PICK c \in 1 .. Len(gaps) : c = k + 1
        BY <2>1
      <4>3. j = c \/ gaps[c].End < gaps[j].Start
        BY <4>1, <4>2, GapFacts
      <4>4. gaps[c].Start < gaps[c].End /\ gaps[c].Start \in Nat /\ gaps[c].End \in Nat
            /\ gaps[j].Start \in Nat
        BY GapFacts, Zenon
      <4>5. b < gaps[c].Start
        BY <1>1, <2>1, <4>2, <4>4, SMTT(60)
      <4>6. b < gaps[j].Start
        BY <4>3, <4>4, <4>5
      <4> QED BY <4>6
    <3> QED BY <1>1, <3>1, <3>2
  <2> QED BY <2>2, <2>3, BetweenGaps
<1>8. \A b \in Nat : o <= b /\ b < start => b \in arrived
  <2> SUFFICES ASSUME NEW b \in Nat, o <= b, b < start PROVE b \in arrived
    OBVIOUS
  <2>1. CASE s < gaps[i].Start
    BY <1>1, <1>2, <2>1, OldFront, SMTT(30)
  <2>2. CASE ~(s < gaps[i].Start)
    BY <1>1, <2>2 DEF Cut
  <2> QED BY <2>1, <2>2
<1>9. arrived \cup o .. end - 1 = arrived \cup start .. e - 1
  <2>1. \A b \in o .. end - 1 : b \in arrived \/ b \in start .. e - 1
    BY <1>1, <1>7, <1>8, SMTT(30)
  <2>2. start .. e - 1 \subseteq o .. end - 1
    BY <1>1, <1>2, <1>3, SMTT(30)
  <2> QED BY <2>1, <2>2
<1>10. e = end \/ e \in arrived
  BY <1>1, <1>3, <1>7
<1> QED BY <1>1, <1>2, <1>3, <1>6, <1>9, <1>10 DEF NewPart

\* FrameOK stays true when more bytes arrive.
LEMMA FrameStays ==
    ASSUME NEW f, NEW o, NEW A, NEW B, FrameOK(f, o, A), A \subseteq B
    PROVE  FrameOK(f, o, B)
BY DEF FrameOK

\* The numbers of a new part.
LEMMA NewFacts ==
    ASSUME GapsOK, NEW o, NEW end, NEW i, NEW k, NEW start, NEW e,
           NewPart(o, end, i, k, start, e)
    PROVE  /\ start \in Nat /\ e \in Nat /\ start < e /\ e <= Length /\ Length \in Nat
           /\ start \notin arrived /\ e - 1 \notin arrived
           /\ readPosition \in Nat /\ readPosition <= start
           /\ \A j \in i .. k - 1 : gaps[j].End \in Nat /\ start < gaps[j].End /\ gaps[j].End < e
<1>1. /\ i \in 1 .. Len(gaps) /\ k \in i .. Len(gaps) /\ start \in Nat /\ e \in Nat /\ start < e
      /\ gaps[i].Start <= start /\ start < gaps[i].End /\ gaps[k].Start < e /\ e <= gaps[k].End
  BY DEF NewPart, Spans
<1>2. /\ k \in 1 .. Len(gaps) /\ Length \in Nat /\ readPosition \in Nat /\ Len(gaps) \in Nat
      /\ i \in Nat /\ k \in Nat
  BY <1>1, GapFacts
<1>3. e <= Length
  <2>1. CASE e = end
    BY <2>1 DEF NewPart
  <2>2. CASE e # end
    <3>1. e <= end /\ end <= Length /\ end \in Nat
      BY DEF NewPart
    <3> QED BY <1>1, <1>2, <3>1
  <2> QED BY <2>1, <2>2
<1>4. start \notin arrived
  <2>1. InGap(gaps, Len(gaps), start)
    BY <1>1 DEF InGap
  <2>2. start \in 0 .. Length - 1
    BY <1>1, <1>2, <1>3
  <2> QED BY <2>1, <2>2 DEF GapsOK
<1>5. e - 1 \notin arrived
  <2>1. gaps[k].Start \in Nat /\ gaps[k].End \in Nat
    BY <1>2, GapFacts
  <2>2. gaps[k].Start <= e - 1 /\ e - 1 < gaps[k].End /\ e - 1 \in 0 .. Length - 1
    BY <1>1, <1>2, <1>3, <2>1, SMTT(30)
  <2>3. InGap(gaps, Len(gaps), e - 1)
    BY <1>2, <2>2, Zenon DEF InGap
  <2> QED BY <2>2, <2>3 DEF GapsOK
<1>6. readPosition <= start
  <2>1. readPosition <= gaps[i].Start /\ gaps[i].Start \in Nat
    BY <1>1, GapFacts, Zenon
  <2> QED BY <1>1, <1>2, <2>1
<1>7. ASSUME NEW j \in i .. k - 1
      PROVE  gaps[j].End \in Nat /\ start < gaps[j].End /\ gaps[j].End < e
  <2>1. j \in 1 .. Len(gaps) /\ j < k /\ (i = j \/ i < j) /\ j \in Nat
    BY <1>1, <1>2
  <2>2. gaps[j].End < gaps[k].Start
    BY <1>2, <2>1, GapFacts
  <2>3. i = j \/ gaps[i].End < gaps[j].Start
    BY <1>1, <2>1, GapFacts
  <2>4. gaps[j].Start \in Nat /\ gaps[j].End \in Nat /\ gaps[j].Start < gaps[j].End
        /\ gaps[i].End \in Nat /\ gaps[k].Start \in Nat
    BY <1>1, <1>2, <2>1, GapFacts, Zenon
  <2>5. start < gaps[i].End /\ start \in Nat /\ e \in Nat /\ gaps[k].Start < e
    BY <1>1
  <2>6. gaps[j].End < e
    BY <2>2, <2>4, <2>5
  <2>7. CASE i = j
    BY <2>4, <2>5, <2>6, <2>7
  <2>8. CASE gaps[i].End < gaps[j].Start
    BY <2>4, <2>5, <2>6, <2>8
  <2> QED BY <2>3, <2>7, <2>8
<1> QED BY <1>1, <1>2, <1>3, <1>4, <1>5, <1>6, <1>7

\* The chain of frames with the new part in it.
Grown(q, A, low, q1, A1, start, e) ==
    /\ low \in Nat /\ start \in Nat /\ e \in Nat /\ A \subseteq Nat
    /\ A1 = A \cup start .. e - 1
    /\ \A x \in DOMAIN q : x \in Nat /\ q[x].len \in Nat
    /\ start < e /\ low <= start /\ start \notin A /\ e - 1 \notin A
    /\ start \in DOMAIN q1 /\ q1[start].len = e - start
    /\ \A x \in DOMAIN q : ~(start <= x /\ x < e) => x \in DOMAIN q1 /\ q1[x] = q[x]

\* The frames that follow each other from the read position still do with the new one.
LEMMA ChainGrows ==
    ASSUME NEW found, NEW q, NEW A, NEW low, NEW q1, NEW A1, NEW start, NEW e,
           Chain(found, q, A, low), Grown(q, A, low, q1, A1, start, e)
    PROVE  Chain({x \in found : ~(start <= x /\ x < e)} \cup {start}, q1, A1, low)
<1> USE DEF Grown
<1> DEFINE found1 == {x \in found : ~(start <= x /\ x < e)} \cup {start}
<1>1. found1 \subseteq DOMAIN q1
  BY DEF Chain
<1>2. ASSUME NEW b \in A1, b >= low, b = low \/ b - 1 \notin A1
      PROVE  b \in found1
  <2>1. CASE b \in start .. e - 1
    <3>1. b \in Nat /\ start <= b /\ b < e
      BY <2>1
    <3>2. b = start
      <4> SUFFICES ASSUME b # start PROVE FALSE
        OBVIOUS
      <4>1. b - 1 \in start .. e - 1 /\ b # low
        BY <3>1
      <4> QED BY <1>2, <4>1
    <3> QED BY <3>2
  <2>2. CASE b \notin start .. e - 1
    <3>1. b \in A /\ b \in Nat
      BY <2>2
    <3>2. b = low \/ b - 1 \notin A
      BY <1>2
    <3>3. b \in found
      BY <1>2, <3>1, <3>2 DEF Chain
    <3>4. ~(start <= b /\ b < e)
      BY <2>2, <3>1
    <3> QED BY <3>3, <3>4
  <2> QED BY <2>1, <2>2
<1>3. ASSUME NEW x \in found1
      PROVE  /\ q1[x].len > 0 /\ x .. x + q1[x].len - 1 \subseteq A1
             /\ x + q1[x].len \in found1 \/ x + q1[x].len \notin A1
  <2>1. CASE x = start
    <3>1. q1[x].len > 0 /\ x + q1[x].len = e
      BY <2>1
    <3>2. x .. x + q1[x].len - 1 = start .. e - 1
      BY <2>1, <3>1, SMTT(30)
    <3>3. e \in found1 \/ e \notin A1
      <4> SUFFICES ASSUME e \in A1 PROVE e \in found1
        OBVIOUS
      <4>1. e \in A /\ e >= low /\ ~(start <= e /\ e < e)
        OBVIOUS
      <4> QED BY <4>1 DEF Chain
    <3> QED BY <3>1, <3>2, <3>3, Zenon
  <2>2. CASE x # start
    <3>1. x \in found /\ ~(start <= x /\ x < e) /\ x \in DOMAIN q
      BY <2>2 DEF Chain
    <3>2. q1[x] = q[x]
      BY <3>1
    <3>3. PICK l \in Nat : l = q[x].len
      BY <3>1
    <3>4. l > 0 /\ x .. x + l - 1 \subseteq A /\ (x + l \in found \/ x + l \notin A) /\ x \in Nat
      BY <3>1, <3>3 DEF Chain
    <3>5. x + l \in found1 \/ x + l \notin A1
      <4> SUFFICES ASSUME x + l \in A1 PROVE x + l \in found1
        OBVIOUS
      <4>1. CASE start <= x + l /\ x + l < e
        <5>1. x < start
          BY <3>1, <3>4, <4>1
        <5>2. ~(start < x + l)
          <6> SUFFICES ASSUME start < x + l PROVE FALSE
            OBVIOUS
          <6>1. start \in x .. x + l - 1
            BY <3>4, <5>1
          <6> QED BY <3>4, <6>1
        <5>3. x + l = start
          BY <3>4, <4>1, <5>2
        <5> QED BY <5>3
      <4>2. CASE ~(start <= x + l /\ x + l < e)
        <5>1. x + l \in A
          BY <3>4, <4>2
        <5> QED BY <3>4, <4>2, <5>1
      <4> QED BY <4>1, <4>2
    <3> QED BY <3>2, <3>3, <3>4, <3>5
  <2> QED BY <2>1, <2>2
<1> HIDE DEF found1
<1>4. Chain(found1, q1, A1, low)
  BY <1>1, <1>2, <1>3 DEF Chain
<1> QED BY <1>4 DEF found1

\* Membership of a range.
LEMMA InRange ==
    ASSUME NEW b, NEW start, NEW e, b \in Nat /\ start \in Nat /\ e \in Nat
    PROVE  b \in start .. e - 1 <=> start <= b /\ b < e
OBVIOUS

\* The gaps without the new part.
CarvedAt(t, i, k, start, e) ==
    t = SubSeq(gaps, 1, i - 1)
        \o (IF start = gaps[i].Start THEN <<>> ELSE <<[Start |-> gaps[i].Start, End |-> start]>>)
        \o (IF e < gaps[k].End THEN <<[Start |-> e, End |-> gaps[k].End]>> ELSE <<>>)
        \o SubSeq(gaps, k + 1, Len(gaps))

\* The gaps without the new part are the bytes that are still missing.
LEMMA GapsCarved ==
    ASSUME GapsOK, NEW o, NEW end, NEW i, NEW k, NEW start, NEW e,
           NewPart(o, end, i, k, start, e), NEW t, NEW A1, CarvedAt(t, i, k, start, e),
           A1 = arrived \cup start .. e - 1
    PROVE  /\ GapList(t, readPosition, MaxByteCount)
           /\ \A b \in 0 .. Length - 1 : b \in A1 <=> ~InGap(t, Len(t), b)
<1> DEFINE before == IF start = gaps[i].Start THEN <<>>
                     ELSE <<[Start |-> gaps[i].Start, End |-> start]>>
           after == IF e < gaps[k].End THEN <<[Start |-> e, End |-> gaps[k].End]>> ELSE <<>>
<1>1. t = SpliceOf(gaps, i, k, before, after)
  BY DEF SpliceOf, CarvedAt
<1>2. GapList(gaps, readPosition, MaxByteCount)
      /\ Spans(gaps, Len(gaps), i, k, start, e, MaxByteCount)
  BY SMTT(30), Zenon DEF GapsOK, NewPart
<1>3. GapList(t, readPosition, MaxByteCount) /\ Closed(t, Len(t), gaps, Len(gaps), start, e)
  BY <1>1, <1>2, Carved, Zenon
<1>4. ASSUME NEW b \in 0 .. Length - 1 PROVE b \in A1 <=> ~InGap(t, Len(t), b)
  <2>1. b \in Nat /\ start \in Nat /\ e \in Nat
    BY NewFacts
  <2>2. b \in A1 <=> b \in arrived \/ (start <= b /\ b < e)
    <3>1. b \in start .. e - 1 <=> start <= b /\ b < e
      BY <2>1, InRange
    <3> QED BY <3>1
  <2>3. InGap(t, Len(t), b) <=> InGap(gaps, Len(gaps), b) /\ ~(start <= b /\ b < e)
    BY <1>3, <2>1 DEF Closed
  <2>4. b \in arrived <=> ~InGap(gaps, Len(gaps), b)
    BY DEF GapsOK
  <2> QED BY <2>2, <2>3, <2>4
<1> QED BY <1>3, <1>4

\* A new part is a good frame.
Fin(b, end) == b \in BOOLEAN /\ (b => end = Length)

\* The new part is a frame of bytes that have arrived.
LEMMA NewFrame ==
    ASSUME GapsOK, NEW o, NEW end, NEW i, NEW k, NEW start, NEW e,
           NewPart(o, end, i, k, start, e), NEW b, Fin(b, end), NEW A1,
           A1 = arrived \cup start .. e - 1
    PROVE  FrameOK(Piece(start, e, b), start, A1)
<1> DEFINE h == Piece(start, e, b)
<1>0. b \in BOOLEAN /\ (b => end = Length)
  BY DEF Fin
<1>1. start \in Nat /\ e \in Nat /\ start < e /\ e <= Length /\ Length \in Nat
  BY NewFacts
<1>2. PICK l \in Nat : l = e - start
  BY <1>1
<1>3. h = [Offset |-> start, first |-> start, len |-> l, FinBit |-> b]
  BY <1>2 DEF Piece
<1>4. h \in Frames /\ h.Offset = start /\ h.first = start /\ h.len = l /\ h.FinBit = b
  BY <1>0, <1>1, <1>3 DEF Frames
<1>5. l > 0 /\ start + l = e /\ start \in 0 .. Length /\ start # Length
  BY <1>1, <1>2
<1>6. b => e = Length \/ e \in A1
  BY <1>0 DEF NewPart
<1> HIDE DEF h
<1>7. FrameOK(h, start, A1)
  BY <1>1, <1>4, <1>5, <1>6, SMTT(30), Zenon DEF FrameOK
<1> QED BY <1>7 DEF h

Requeued(rest, A1, q, i, k, start, e, b) ==
    /\ rest = Dequeue(queuedFrames, {gaps[j].End : j \in i .. k - 1})
    /\ A1 = arrived \cup start .. e - 1 /\ q = Queue(rest, Piece(start, e, b))

QueueOK(rest, A1, q) ==
    /\ \A x \in DOMAIN rest : FrameOK(rest[x], x, A1)
    /\ \A x \in DOMAIN q : FrameOK(q[x], x, A1)
    /\ \E f : Chain(f, q, A1, readPosition)
    /\ HasHead => /\ readPosition \in DOMAIN rest /\ rest[readPosition] = HeadFrame
                  /\ readPosition \in DOMAIN q /\ q[readPosition] = HeadFrame

\* The queue with the new part in it.
LEMMA QueueGrows ==
    ASSUME QInv, GapsOK, NEW o, NEW end, NEW i, NEW k, NEW start, NEW e,
           NewPart(o, end, i, k, start, e), NEW b, Fin(b, end),
           NEW found, Chain(found, queuedFrames, arrived, readPosition),
           NEW rest, NEW A1, NEW q, Requeued(rest, A1, q, i, k, start, e, b)
    PROVE  QueueOK(rest, A1, q)
<1> DEFINE ends == {gaps[j].End : j \in i .. k - 1}
           h == Piece(start, e, b)
<1>0. /\ rest = Dequeue(queuedFrames, {gaps[j].End : j \in i .. k - 1})
      /\ A1 = arrived \cup start .. e - 1 /\ q = Queue(rest, Piece(start, e, b))
  BY DEF Requeued
<1>1. h.Offset = start /\ h.len = e - start
  BY DEF Piece
<1>2. /\ start \in Nat /\ e \in Nat /\ start < e /\ e <= Length /\ Length \in Nat
      /\ start \notin arrived /\ e - 1 \notin arrived
      /\ readPosition \in Nat /\ readPosition <= start
  BY NewFacts
<1>3. \A x \in ends : x \in Nat /\ start < x /\ x < e
  BY NewFacts
<1>4. arrived \subseteq A1 /\ arrived \subseteq Nat
  BY <1>0, <1>2 DEF QInv
<1>5. \A x \in DOMAIN queuedFrames : FrameOK(queuedFrames[x], x, A1)
  BY <1>4, FrameStays, Zenon DEF QInv, FramesOK
<1>6. FrameOK(h, start, A1)
  BY <1>0, NewFrame
<1> HIDE DEF ends, h
<1>7. DOMAIN rest = DOMAIN queuedFrames \ ends /\ \A x \in DOMAIN rest : rest[x] = queuedFrames[x]
  BY <1>0 DEF Dequeue, ends
<1>8. DOMAIN q = DOMAIN rest \cup {start} /\ q[start] = h
      /\ \A x \in DOMAIN rest : x # start => q[x] = rest[x]
  BY <1>0, <1>1 DEF Queue, h
<1>9. \A x \in DOMAIN rest : FrameOK(rest[x], x, A1)
  BY <1>5, <1>7
<1>10. \A x \in DOMAIN q : FrameOK(q[x], x, A1)
  BY <1>6, <1>8, <1>9
<1>11. \E f : Chain(f, q, A1, readPosition)
  <2>1. \A x \in DOMAIN queuedFrames : x \in Nat /\ queuedFrames[x].len \in Nat
    BY <1>2, <1>5 DEF FrameOK, Frames
  <2>2. \A x \in DOMAIN queuedFrames : ~(start <= x /\ x < e) => x \in DOMAIN q /\ q[x] = queuedFrames[x]
    <3> SUFFICES ASSUME NEW x \in DOMAIN queuedFrames, ~(start <= x /\ x < e)
                 PROVE  x \in DOMAIN q /\ q[x] = queuedFrames[x]
      OBVIOUS
    <3>1. x \notin ends /\ x # start
      BY <1>2, <1>3, <2>1
    <3> QED BY <1>7, <1>8, <3>1
  <2>3. start \in DOMAIN q /\ q[start].len = e - start
    BY <1>1, <1>8
  <2>4. Chain({x \in found : ~(start <= x /\ x < e)} \cup {start}, q, A1, readPosition)
    <3>1. Grown(queuedFrames, arrived, readPosition, q, A1, start, e)
      BY <1>0, <1>2, <1>4, <2>1, <2>2, <2>3, Zenon DEF Grown
    <3> QED BY <3>1, ChainGrows
  <2> QED BY <2>4
<1>12. ASSUME HasHead
       PROVE  /\ readPosition \in DOMAIN rest /\ rest[readPosition] = HeadFrame
              /\ readPosition \in DOMAIN q /\ q[readPosition] = HeadFrame
  <2>1. FrameOK(queuedFrames[readPosition], readPosition, arrived)
    BY <1>12 DEF HasHead, QInv, FramesOK
  <2>2. readPosition < Length => readPosition \in arrived
    <3> SUFFICES ASSUME readPosition < Length PROVE readPosition \in arrived
      OBVIOUS
    <3>1. PICK l \in Nat : l = queuedFrames[readPosition].len /\ l > 0
                           /\ readPosition .. readPosition + l - 1 \subseteq arrived
      BY <2>1 DEF FrameOK, Frames
    <3>2. readPosition \in readPosition .. readPosition + l - 1
      BY <1>2, <3>1
    <3> QED BY <3>1, <3>2
  <2>3. readPosition # start
    BY <1>2, <2>2
  <2>4. readPosition \notin ends
    BY <1>2, <1>3
  <2>5. readPosition \in DOMAIN queuedFrames /\ HeadFrame = queuedFrames[readPosition]
    BY <1>12 DEF HasHead, HeadFrame
  <2> QED BY <1>7, <1>8, <2>3, <2>4, <2>5
<1> QED BY <1>9, <1>10, <1>11, <1>12, SMTT(30), Zenon DEF QueueOK

\* The head of the queue stays, and nothing that arrived is forgotten.
HeadStays == HasHead => HasHead' /\ HeadFrame' = HeadFrame

\* Push of a lone FIN.
LEMMA PushFin ==
    ASSUME QInv, result # TooManyGaps, Push(FinFrame)
    PROVE  QInv' /\ HeadStays
<1>1. /\ FinFrame.len = 0 /\ FinFrame.Offset = Length /\ FinFrame.first = Length
      /\ FinFrame.FinBit = TRUE /\ FinFrame \in Frames /\ Length \in Nat
  BY SorterConstants, SMTT(30), Zenon DEF FinFrame, Frames
<1>2. /\ queuedFrames' = Queue(queuedFrames, FinFrame) /\ result' = "ok" /\ gaps' = gaps
      /\ readPosition' = readPosition
      /\ arrived' = arrived \cup FinFrame.Offset .. FinFrame.Offset + FinFrame.len - 1
  BY <1>1 DEF Push
<1>3. arrived' = arrived
  <2>1. FinFrame.Offset .. FinFrame.Offset + FinFrame.len - 1 = {}
    BY <1>1
  <2> QED BY <1>2, <2>1
<1>4. /\ DOMAIN queuedFrames' = DOMAIN queuedFrames \cup {Length} /\ queuedFrames'[Length] = FinFrame
      /\ \A x \in DOMAIN queuedFrames : x # Length => queuedFrames'[x] = queuedFrames[x]
  BY <1>1, <1>2 DEF Queue
<1>5. FrameOK(FinFrame, Length, arrived)
  BY <1>1 DEF FrameOK
<1>6. FramesOK'
  BY <1>3, <1>4, <1>5 DEF QInv, FramesOK
<1>7. Length \in DOMAIN queuedFrames => queuedFrames[Length] = FinFrame
  BY DEF QInv, FramesOK, FrameOK
<1>8. \A x \in DOMAIN queuedFrames : queuedFrames'[x] = queuedFrames[x]
  BY <1>4, <1>7
<1>9. GapsOK'
  BY <1>2, <1>3 DEF QInv, GapsOK, MaxByteCount
<1>10. PICK found : Chain(found, queuedFrames, arrived, readPosition)
  BY DEF QInv
<1>11. Chain(found, queuedFrames', arrived', readPosition')
  BY <1>2, <1>3, <1>4, <1>8, <1>10 DEF Chain
<1>12. HeadStays
  BY <1>2, <1>4, <1>8, SMTT(30), Zenon DEF HeadStays, HasHead, HeadFrame
<1> QED BY <1>2, <1>3, <1>6, <1>9, <1>11, <1>12, Zenon DEF QInv

\* Push records the bytes of the frame as arrived.
LEMMA PushArrived ==
    ASSUME NEW f, Push(f)
    PROVE  /\ arrived' = arrived \cup f.Offset .. f.Offset + f.len - 1
           /\ readPosition' = readPosition
BY DEF Push

\* Push of data.
LEMMA PushData ==
    ASSUME QInv, result # TooManyGaps, NEW o \in Nat, NEW end \in Nat, NEW b, Fin(b, end),
           o < end, end <= Length, Push(Piece(o, end, b))
    PROVE  QInv' /\ HeadStays /\ arrived \subseteq arrived'
<1> DEFINE frame == Piece(o, end, b)
<1>1. /\ GapsOK /\ arrived \subseteq 0 .. Length - 1 /\ Length \in Nat /\ readPosition' = readPosition
      /\ frame.Offset = o /\ frame.len = end - o /\ frame.len # 0 /\ o + frame.len = end
  <2>1. GapsOK /\ arrived \subseteq 0 .. Length - 1 /\ Length \in Nat
    BY SorterConstants DEF QInv
  <2>2. frame.Offset = o /\ frame.len = end - o
    BY DEF Piece
  <2> QED BY <2>1, <2>2, PushArrived
<1>2. PICK found : Chain(found, queuedFrames, arrived, readPosition)
  BY DEF QInv
<1>3. PICK s \in o .. Length :
         /\ AfterOldFrame(frame) = Piece(s, end, b) /\ o .. s - 1 \subseteq arrived
         /\ s = o => o \notin DOMAIN queuedFrames
  BY AfterOld DEF Fin
<1>4. s \in Nat /\ Cut(s, o, end)
  BY <1>1, <1>3 DEF Cut
<1> DEFINE f == Piece(s, end, b)
           i == GapIndex(f)
<1>5. StartsIn(i, s, end)
  BY <1>1, <1>4, FoundGap, Zenon DEF StartsIn, Cut
<1>6. f.Offset = s /\ f.len = end - s /\ s + f.len = end /\ (f.len <= 0 <=> end <= s)
  BY <1>4 DEF Piece
<1>7. arrived' = arrived \cup o .. end - 1
  BY <1>1, PushArrived
<1>8. gaps[i].Start \in Nat /\ gaps[i].End \in Nat
  BY <1>1, <1>5, GapFacts, Zenon DEF StartsIn
<1> HIDE DEF i
<1>9. CASE end <= s \/ end <= gaps[i].Start
  <2>1. o .. end - 1 \subseteq arrived
    <3>1. ASSUME NEW x \in o .. end - 1 PROVE x \in arrived
      <4>1. x \in Nat /\ o <= x /\ x < end
        OBVIOUS
      <4>2. CASE end <= s
        BY <1>4, <4>1, <4>2 DEF Cut
      <4>3. CASE end <= gaps[i].Start
        <5>1. x < gaps[i].Start
          BY <1>8, <4>1, <4>3
        <5> QED BY <1>1, <1>4, <1>5, <4>1, <5>1, OldFront
      <4> QED BY <1>9, <4>2, <4>3
    <3> QED BY <3>1
  <2>2. arrived' = arrived
    BY <1>7, <2>1
  <2>3. f.len <= 0 \/ f.Offset + f.len <= gaps[i].Start
    BY <1>6, <1>9
  <2>4. queuedFrames' = queuedFrames /\ gaps' = gaps /\ result' = "errDuplicateStreamData"
    BY <1>1, <1>3, <2>3, Zenon DEF Push, i
  <2>5. FramesOK' /\ GapsOK' /\ Chain(found, queuedFrames', arrived', readPosition')
    BY <1>1, <1>2, <2>2, <2>4 DEF QInv, FramesOK, GapsOK, MaxByteCount
  <2>6. HeadStays
    BY <1>1, <2>4 DEF HeadStays, HasHead, HeadFrame
  <2> QED BY <1>1, <2>2, <2>5, <2>6 DEF QInv
<1>10. CASE ~(end <= s \/ end <= gaps[i].Start)
  <2> DEFINE start == IF s < gaps[i].Start THEN gaps[i].Start ELSE s
             g == IF f.Offset < gaps[i].Start THEN CutFront(f, gaps[i].Start - f.Offset) ELSE f
             k == EndGapIndex(i, end)
             e == IF end > gaps[k].End THEN gaps[k].End ELSE end
             cut == IF end > gaps[k].End THEN end - gaps[k].End ELSE 0
  <2>1. s < end /\ ~(end <= gaps[i].Start)
    BY <1>4, <1>10
  <2>2. EndsIn(k, i, end)
    BY <1>1, <1>5, LastGap, Zenon DEF EndsIn, StartsIn
  <2>3. s # gaps[i].End
    BY <1>1, <1>2, <1>4, <1>5, <2>1, NotAtEnd, SMTT(30), Zenon DEF StartsIn
  <2>4. NewPart(o, end, i, k, start, e)
    BY <1>1, <1>4, <1>5, <2>1, <2>2, <2>3, IsNew, SMTT(30), Zenon
  <2>5. g = Piece(start, end, b)
    <3>1. CASE s < gaps[i].Start
      <4>1. PICK n \in Int : n = gaps[i].Start - s /\ s + n = gaps[i].Start
        BY <1>4, <1>8, SMTT(30), Zenon
      <4>2. CutFront(f, n) = Piece(s + n, end, b)
        <5>1. s \in Int /\ end \in Int
          BY <1>4, SMTT(30), Zenon
        <5> QED BY <4>1, <5>1, CutPiece
      <4> QED BY <1>6, <3>1, <4>1, <4>2
    <3>2. CASE ~(s < gaps[i].Start)
      BY <1>6, <3>2, SMTT(30), Zenon
    <3> QED BY <3>1, <3>2, SMTT(30), Zenon
  <2>6. /\ start \in Nat /\ e \in Nat /\ gaps[k].End \in Nat
    <3>1. gaps[k].End \in Nat
      <4>1. Len(gaps) \in Nat /\ i \in 1 .. Len(gaps) /\ k \in i .. Len(gaps)
        BY <1>1, <1>5, <2>2, GapFacts, Zenon DEF EndsIn, StartsIn
      <4>2. k \in 1 .. Len(gaps)
        BY <4>1, TailOfRange, Zenon
      <4> QED BY <1>1, <4>2, GapFacts, Zenon
    <3> QED BY <1>4, <1>8, <3>1, Zenon
  <2> HIDE DEF start, k, g
  <2>7. g.Offset = start /\ g.Offset + g.len = end
    BY <2>5, <2>6 DEF Piece
  <2>8. Insert(g, i, k)
    <3>1. ~(f.len <= 0 \/ f.Offset + f.len <= gaps[i].Start)
      BY <1>6, <1>10, Zenon
    <3> QED BY <1>1, <1>3, <2>7, <3>1, Zenon DEF Push, i, k, g
  <2>9. cut \in Int /\ end - cut = e
    BY <2>6
  <2>10. CutEnd(g, cut) = Piece(start, e, b)
    BY <2>5, <2>6, <2>9, CutPiece
  <2> DEFINE before == IF start = gaps[i].Start THEN <<>>
                       ELSE <<[Start |-> gaps[i].Start, End |-> start]>>
             after == IF e < gaps[k].End THEN <<[Start |-> e, End |-> gaps[k].End]>> ELSE <<>>
             rest == Dequeue(queuedFrames, {gaps[j].End : j \in i .. k - 1})
             q == Queue(rest, Piece(start, e, b))
             A1 == arrived \cup start .. e - 1
  <2> HIDE DEF e, cut
  <2>11. /\ gaps' = SubSeq(gaps, 1, i - 1) \o before \o after \o SubSeq(gaps, k + 1, Len(gaps))
         /\ \/ queuedFrames' = rest /\ result' = TooManyGaps
            \/ queuedFrames' = q /\ result' = "ok"
    BY <2>7, <2>8, <2>9, <2>10, Zenon DEF Insert, cut, TooManyGaps
  <2>12. arrived' = A1
    BY <1>7, <2>4 DEF NewPart
  <2> HIDE DEF before, after, rest, q, A1
  <2>13. /\ GapList(gaps', readPosition, MaxByteCount)
         /\ \A x \in 0 .. Length - 1 : x \in A1 <=> ~InGap(gaps', Len(gaps'), x)
    <3>1. CarvedAt(gaps', i, k, start, e)
      BY <2>11 DEF CarvedAt, before, after
    <3>2. A1 = arrived \cup start .. e - 1
      BY DEF A1
    <3> QED BY <1>1, <2>4, <3>1, <3>2, GapsCarved, SMTT(60)
  <2>14. GapsOK'
    BY <1>1, <2>12, <2>13 DEF GapsOK, MaxByteCount
  <2>15. /\ \A x \in DOMAIN rest : FrameOK(rest[x], x, A1)
         /\ \A x \in DOMAIN q : FrameOK(q[x], x, A1)
         /\ \E c : Chain(c, q, A1, readPosition)
         /\ HasHead => /\ readPosition \in DOMAIN rest /\ rest[readPosition] = HeadFrame
                       /\ readPosition \in DOMAIN q /\ q[readPosition] = HeadFrame
    <3>1. Requeued(rest, A1, q, i, k, start, e, b)
      BY DEF rest, q, A1, Requeued
    <3>2. QueueOK(rest, A1, q)
      BY <1>1, <1>2, <2>4, <3>1, QueueGrows
    <3> QED BY <3>2, SMTT(30), Zenon DEF QueueOK
  <2>16. HeadStays
    BY <1>1, <2>11, <2>15, Zenon DEF HeadStays, HasHead, HeadFrame
  <2>17. FramesOK'
    BY <2>11, <2>12, <2>15, Zenon DEF FramesOK
  <2>18. A1 \subseteq 0 .. Length - 1 /\ arrived \subseteq A1
    <3>1. start \in Nat /\ e \in Nat /\ e <= Length
      BY <1>1, <2>4, NewFacts
    <3> QED BY <1>1, <3>1 DEF A1
  <2>19. result' # TooManyGaps => \E c : Chain(c, queuedFrames', arrived', readPosition')
    BY <1>1, <2>11, <2>12, <2>15
  <2> QED BY <1>1, <2>12, <2>14, <2>16, <2>17, <2>18, <2>19 DEF QInv
<1> QED BY <1>9, <1>10

\* Push keeps the queue right, and does not move its head.
LEMMA PushKeeps ==
    ASSUME QInv, result # TooManyGaps, NEW frame \in SentFrames, Push(frame)
    PROVE  QInv' /\ HeadStays /\ arrived \subseteq arrived' /\ readPosition' = readPosition
<1>0. readPosition' = readPosition /\ arrived \subseteq arrived'
  BY DEF Push
<1>1. CASE frame.len = 0
  <2>1. frame = FinFrame
    <3> SUFFICES ASSUME frame # FinFrame PROVE FALSE
      OBVIOUS
    <3>1. PICK p \in Segments : frame = [Offset |-> p[1], first |-> p[1], len |-> p[2] - p[1],
                                         FinBit |-> p[2] = Length]
      BY DEF SentFrames
    <3>2. p[1] \in 0 .. p[2] - 1 /\ p[2] \in 1 .. Length /\ Length \in Nat
      BY SorterConstants
    <3>3. frame.len = p[2] - p[1]
      BY <3>1
    <3> QED BY <1>1, <3>2, <3>3
  <2> QED BY <1>0, <2>1, PushFin
<1>2. CASE frame.len # 0
  <2>1. PICK o \in Nat, e \in Nat, b \in BOOLEAN :
              frame = Piece(o, e, b) /\ o < e /\ e <= Length /\ (b => e = Length)
    BY <1>2, SentPiece
  <2>2. Fin(b, e)
    BY <2>1 DEF Fin
  <2> QED BY <1>0, <2>1, <2>2, PushData
<1> QED BY <1>1, <1>2, SMTT(30), Zenon

\* Pop takes the head and the read position with it.
LEMMA PopKeeps ==
    ASSUME QInv, Pop
    PROVE  QInv'
<1> DEFINE p == readPosition
           l == queuedFrames[readPosition].len
<1>1. /\ p \in DOMAIN queuedFrames /\ readPosition' = p + l /\ gaps' = gaps /\ arrived' = arrived
      /\ result' = result /\ queuedFrames' = Dequeue(queuedFrames, {queuedFrames[p].Offset})
  BY DEF Pop, HasHead, HeadFrame
<1>2. FrameOK(queuedFrames[p], p, arrived)
  BY <1>1 DEF QInv, FramesOK
<1>3. /\ p \in Nat /\ l \in Nat /\ Length \in Nat /\ p + l <= Length /\ queuedFrames[p].Offset = p
      /\ p .. p + l - 1 \subseteq arrived
  BY <1>2, SorterConstants DEF FrameOK, Frames
<1>4. /\ DOMAIN queuedFrames' = DOMAIN queuedFrames \ {p}
      /\ \A x \in DOMAIN queuedFrames' : queuedFrames'[x] = queuedFrames[x]
  BY <1>1, <1>3 DEF Dequeue
<1> HIDE DEF l, p
<1>5. readPosition' \in 0 .. Length
  BY <1>1, <1>3
<1>6. FramesOK'
  BY <1>1, <1>4, Zenon DEF QInv, FramesOK
<1>7. ASSUME result # TooManyGaps
      PROVE  GapsOK' /\ \E c : Chain(c, queuedFrames', arrived', readPosition')
  <2>1. GapsOK
    BY <1>7 DEF QInv
  <2>2. \A a \in 1 .. Len(gaps) : p + l <= gaps[a].Start
    <3> SUFFICES ASSUME NEW a \in 1 .. Len(gaps), ~(p + l <= gaps[a].Start) PROVE FALSE
      OBVIOUS
    <3>1. gaps[a].Start \in Nat /\ p <= gaps[a].Start /\ gaps[a].Start < gaps[a].End
      BY <2>1, GapFacts DEF p
    <3>2. gaps[a].Start \in p .. p + l - 1
      BY <1>3, <3>1
    <3>3. gaps[a].Start \in arrived /\ gaps[a].Start \in 0 .. Length - 1
      BY <1>3, <3>2, Zenon DEF QInv
    <3>4. InGap(gaps, Len(gaps), gaps[a].Start)
      BY <3>1 DEF InGap
    <3> QED BY <2>1, <3>3, <3>4 DEF GapsOK
  <2>3. GapList(gaps, p + l, MaxByteCount)
    BY <1>3, <2>1, <2>2 DEF GapsOK, GapList, Gaps
  <2>4. GapsOK'
    BY <1>1, <2>1, <2>3 DEF GapsOK, MaxByteCount
  <2>5. PICK found : Chain(found, queuedFrames, arrived, p)
    BY <1>7 DEF QInv, p
  <2>6. \A x \in found : x \in Nat /\ queuedFrames[x].len \in Nat
    BY <1>3, <2>5 DEF QInv, FramesOK, FrameOK, Frames, Chain
  <2> DEFINE c == {x \in found : x > p}
  <2>7. c \subseteq DOMAIN queuedFrames'
    BY <1>3, <1>4, <2>5, <2>6 DEF Chain
  <2>8. ASSUME NEW b \in arrived, b >= p + l, b = p + l \/ b - 1 \notin arrived
        PROVE  b \in c
    <3>1. b \in Nat
      BY <1>3 DEF QInv
    <3>2. CASE l = 0
      <4>1. p = Length
        BY <1>2, <1>3, <3>2 DEF FrameOK, l, p
      <4>2. arrived \subseteq 0 .. Length - 1
        BY DEF QInv
      <4> QED BY <1>3, <2>8, <3>1, <3>2, <4>1, <4>2
    <3>3. CASE l > 0
      <4>1. b > p
        BY <1>3, <2>8, <3>1, <3>3
      <4>2. CASE b - 1 \notin arrived
        BY <1>3, <2>5, <3>1, <4>1, <4>2 DEF Chain
      <4>3. CASE b = p + l
        <5>1. p \in arrived
          BY <1>3, <3>3
        <5>2. p \in found
          BY <1>3, <2>5, <5>1 DEF Chain
        <5>3. p + l \in found \/ p + l \notin arrived
          BY <2>5, <5>2 DEF Chain, l, p
        <5> QED BY <4>1, <4>3, <5>3
      <4> QED BY <2>8, <4>2, <4>3
    <3> QED BY <1>3, <3>2, <3>3
  <2>9. ASSUME NEW x \in c
        PROVE  /\ queuedFrames'[x].len > 0 /\ x .. x + queuedFrames'[x].len - 1 \subseteq arrived
               /\ x + queuedFrames'[x].len \in c \/ x + queuedFrames'[x].len \notin arrived
    <3>1. queuedFrames'[x] = queuedFrames[x]
      BY <1>4, <2>7
    <3>2. PICK n \in Nat : n = queuedFrames[x].len
      BY <2>6
    <3>3. n > 0 /\ x .. x + n - 1 \subseteq arrived /\ (x + n \in found \/ x + n \notin arrived)
      BY <2>5, <3>2 DEF Chain
    <3>4. x + n > p
      BY <1>3, <2>6, <3>3
    <3> QED BY <3>1, <3>2, <3>3, <3>4
  <2>10. Chain(c, queuedFrames', arrived', readPosition')
    <3> HIDE DEF c
    <3> QED BY <1>1, <2>7, <2>8, <2>9, Zenon DEF Chain
  <2> QED BY <2>4, <2>10
<1>8. arrived' \subseteq 0 .. Length - 1
  BY <1>1 DEF QInv
<1> QED BY <1>1, <1>5, <1>6, <1>7, <1>8 DEF QInv

\* The empty queue is right.
LEMMA QueueInit == SorterInit => QInv
<1> SUFFICES ASSUME SorterInit PROVE QInv
  OBVIOUS
<1>1. /\ queuedFrames = <<>> /\ readPosition = 0 /\ arrived = {} /\ Length \in Nat
      /\ gaps = <<[Start |-> 0, End |-> Length + 1]>>
  BY SorterConstants DEF SorterInit, MaxByteCount
<1>2. DOMAIN queuedFrames = {}
  BY <1>1
<1>3. PICK g : g = [Start |-> 0, End |-> Length + 1]
  BY Zenon
<1>4. g \in Intervals /\ g.Start = 0 /\ g.End = Length + 1
  BY <1>1, <1>3 DEF Intervals
<1>5. gaps \in Seq(Intervals) /\ Len(gaps) = 1 /\ gaps[1] = g
  BY <1>1, <1>3, <1>4
<1>6. Gaps(gaps, 1, 0, Length + 1)
  BY <1>1, <1>4, <1>5 DEF Gaps
<1>7. GapList(gaps, readPosition, MaxByteCount)
  BY <1>1, <1>5, <1>6 DEF GapList, MaxByteCount
<1>8. \A b \in 0 .. Length - 1 : InGap(gaps, Len(gaps), b)
  <2> TAKE b \in 0 .. Length - 1
  <2>1. gaps[1].Start <= b /\ b < gaps[1].End
    BY <1>1, <1>4, <1>5
  <2> QED BY <1>5, <2>1 DEF InGap
<1>9. Chain({}, queuedFrames, arrived, readPosition)
  BY <1>1 DEF Chain
<1> QED BY <1>1, <1>2, <1>7, <1>8, <1>9 DEF QInv, FramesOK, GapsOK

\* A queue that is right has lost nothing.
LEMMA QueueImplies == QInv => NothingLost
<1> SUFFICES ASSUME QInv PROVE NothingLost
  OBVIOUS
<1> DEFINE Follows(o, found) ==
             LET end == o + queuedFrames[o].len
             IN  /\ end > o /\ o .. end - 1 \subseteq arrived
                 /\ end \in found \/ end \notin arrived
<1>1. \A o \in DOMAIN queuedFrames : queuedFrames[o].Offset = o /\ queuedFrames[o].first = o
  BY DEF QInv, FramesOK, FrameOK
<1>2. ASSUME result # TooManyGaps
      PROVE  \E found \in SUBSET DOMAIN queuedFrames :
                /\ \A b \in arrived \cap readPosition .. Length :
                      b = readPosition \/ b - 1 \notin arrived => b \in found
                /\ \A o \in found : Follows(o, found)
  <2>1. PICK found : Chain(found, queuedFrames, arrived, readPosition)
    BY <1>2 DEF QInv
  <2>2. readPosition \in Nat /\ Length \in Nat
    BY SorterConstants DEF QInv
  <2>3. \A b \in arrived \cap readPosition .. Length :
           b = readPosition \/ b - 1 \notin arrived => b \in found
    BY <2>1, <2>2 DEF Chain
  <2>4. \A o \in found : Follows(o, found)
    <3> TAKE o \in found
    <3>1. o \in DOMAIN queuedFrames
      BY <2>1 DEF Chain
    <3>2. PICK l \in Nat : l = queuedFrames[o].len /\ o \in Nat
      BY <2>2, <3>1 DEF QInv, FramesOK, FrameOK, Frames
    <3>3. l > 0 /\ o .. o + l - 1 \subseteq arrived /\ (o + l \in found \/ o + l \notin arrived)
      BY <2>1, <3>2 DEF Chain
    <3> QED BY <3>2, <3>3
  <2>5. found \in SUBSET DOMAIN queuedFrames
    BY <2>1 DEF Chain
  <2> HIDE DEF Follows
  <2> QED BY <2>3, <2>4, <2>5, Zenon
<1> QED BY <1>1, <1>2 DEF NothingLost, TooManyGaps
=============================================================================
