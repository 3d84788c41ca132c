---------------------------- MODULE PathVolumes ----------------------------
(***************************************************************************)
(* How choosePaths (scheduler.go) splits the bytes of a stream over the    *)
(* paths that may send: paths are filled in the order of their one-way     *)
(* delay, each gap between two delays with what the faster paths carry in  *)
(* that time, and the rest in proportion to the bandwidths.  The code      *)
(* computes with float64; here a volume is a fraction with a common        *)
(* denominator.  A frame takes whole bytes from a volume and the code only *)
(* asks whether a volume is positive, so rounding it up loses nothing.     *)
(***************************************************************************)
EXTENDS Integers, Sequences, SequencesExt, Functions

CeilDiv(a, b) == (a + b - 1) \div b

\* The denominator the bandwidth shares of the paths have in common: each
\* path shares by the weight of the stream and those of its other streams.
CommonDenominator(weight, sums, avail) ==
  FoldFunctionOnSet(LAMBDA a, b : a * b, 1, [p \in avail |-> weight + sums[p]], avail)

\* pathsBdw, times the common denominator.
BandwidthShares(bandwidth, weight, sums, avail) ==
  [p \in avail |-> bandwidth[p] * weight * CommonDenominator(weight, sums, avail \ {p})]

\* What the first i paths carry while path i + 1 is still on its way.
Gap(order, delay, share, i) ==
  (delay[order[i + 1]] - delay[order[i]]) * SumFunctionOnSet(share, ToSet(SubSeq(order, 1, i)))

\* The volumes for size bytes, as a fraction over .den.  Path i is the one where
\* filling gaps ends: the last one, one whose successor has the same delay, or
\* one whose gap takes all that is left.  In the last case only the paths up
\* to i share what is left, otherwise all do.  Without any bandwidth to share
\* the code divides by zero, and no volume (NaN) is positive.
Split(size, avail, delay, bandwidth, weight, sums) ==
  LET order == SetToSortSeq(avail, LAMBDA p, q : delay[p] < delay[q])
      n == Len(order)
      share == BandwidthShares(bandwidth, weight, sums, avail)
      den == CommonDenominator(weight, sums, avail)
      Rest(i) == size * den - SumFunction([j \in 1..(i - 1) |-> Gap(order, delay, share, j)])
      Same(i) == delay[order[i + 1]] = delay[order[i]]
      last == CHOOSE i \in 1..n :
                /\ i = n \/ Same(i) \/ Rest(i) <= Gap(order, delay, share, i)
                /\ \A j \in 1..(i - 1) : ~Same(j) /\ Rest(j) > Gap(order, delay, share, j)
      sharing == IF last = n \/ Same(last) THEN avail ELSE ToSet(SubSeq(order, 1, last))
      all == SumFunctionOnSet(share, sharing)
      ahead(p) == IF delay[p] < delay[order[last]] THEN (delay[order[last]] - delay[p]) * share[p] ELSE 0
  IN [den |-> den * all,
      vol |-> [p \in avail |->
                 ahead(p) * all + (IF p \in sharing THEN Rest(last) * share[p] ELSE 0)]]

\* Mutation: the part of a byte is cut off.
Rounded_Down(v, den) == v \div den

Rounded(v, den) == CeilDiv(v, den)

\* choosePaths: the selected paths with their volumes, none if there is no
\* bandwidth or no path.
PathVolume(size, avail, delay, bandwidth, weight, sums) ==
  IF avail = {} \/ \A p \in avail : bandwidth[p] * weight = 0 THEN <<>>
  ELSE LET s == Split(size, avail, delay, bandwidth, weight, sums)
       IN [p \in {q \in avail : s.vol[q] > 0} |-> Rounded(s.vol[p], s.den)]
=============================================================================
