---------------------------- MODULE MCRegression ----------------------------
(* A regression by dataowners a1, a2 of one vertical and b1 of the other:  *)
(* b1 has two partners.                                                    *)
EXTENDS Regression

CONSTANTS a1, a2, b1

OneVertical == [p \in Dataowners |-> IF p = b1 THEN 1 ELSE 0]
=============================================================================
