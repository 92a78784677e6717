--------------------------- MODULE MCMomentsQuery ---------------------------
EXTENDS MomentsQuery

CONSTANTS a1, a2, b1, b2

\* The a's are in vertical 0 and the b's in vertical 1.
OneVertical == [p \in Dataowners |-> IF p \in {a1, a2} THEN 0 ELSE 1]
=============================================================================
