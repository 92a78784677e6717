---------------------------- MODULE MCRandomness ----------------------------
(***************************************************************************)
(* AllRandomness with one dataowner in each of two verticals: for a        *)
(* regression, for three lookups at once, and for a moments query.         *)
(***************************************************************************)
EXTENDS AllRandomness

CONSTANTS a1, b1

OneVertical == [p \in Dataowners |-> IF p = a1 THEN 0 ELSE 1]
MCLists == {RegressionLists, LookupLists(3)}
=============================================================================
