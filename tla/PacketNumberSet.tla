--------------------------- MODULE PacketNumberSet ---------------------------
(***************************************************************************)
(* What a received-packet history promises: it is a set of packet numbers. *)
(* Numbers are added one at a time, and a prefix can be forgotten.         *)
(***************************************************************************)
EXTENDS Naturals

CONSTANT Numbers    \* the packet numbers that can be received

VARIABLE received

AbsInit == received = {}

Add(p) == received' = received \cup {p}

Forget(p) == received' = {q \in received : q > p}

AbsNext == \/ \E p \in Numbers : Add(p)
           \/ \E p \in Numbers \cup {0} : Forget(p)

AbsSpec == AbsInit /\ [][AbsNext]_received
=============================================================================
