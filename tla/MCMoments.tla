----------------------------- MODULE MCMoments -----------------------------
EXTENDS Moments, TLC

CONSTANTS a1, a2, b1, b2

\* Two, three or four dataowners, the a's in vertical 0 and the b's in vertical 1.
OneVertical == [p \in Dataowners |-> IF p \in {a1, a2} THEN 0 ELSE 1]

\* Dataowners of one vertical are interchangeable.
Symmetry == Permutations({a1, a2}) \cup Permutations({b1, b2})
=============================================================================
