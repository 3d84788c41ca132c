------------------------------ MODULE MCAckPath ------------------------------
EXTENDS AckPath, TLC

\* Two lengths, so that a packet counted for another one is noticed.
MCLength == [p \in PacketNumbers |-> 1 + (p % 2)]

\* The pieces of data are interchangeable.
DataSymmetry == Permutations(Data)
=============================================================================
