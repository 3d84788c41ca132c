------------------------------ MODULE MCStream ------------------------------
EXTENDS Stream

\* Two ways to cut the data: frames that leave gaps in the middle, and ones that
\* reach over several of those gaps.
MCSegments == {<<1, 2>>, <<3, 4>>, <<5, 6>>, <<0, 5>>, <<2, 6>>}

MCNoSegments == {}
=============================================================================
