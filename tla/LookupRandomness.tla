-------------------------- MODULE LookupRandomness --------------------------
(***************************************************************************)
(* The lists that make Dealing the randomness of a table lookup:           *)
(* dataowner::LookupRandomnessPatron and dealer::LookupRandomnessHouse.    *)
(* The patron is asked for as many lookups as the regression makes.        *)
(***************************************************************************)
EXTENDS Dealing

LookupPatronSteps ==
  << Step("Compare", FALSE, 1), Step("TypeCastFromBit", FALSE, 1),
     Step("RandomTableLookup", FALSE, 1) >>

LookupHouseSteps ==
  << House("Compare", FALSE), House("TypeCastFromBit", FALSE),
     House("RandomTableLookup", FALSE) >>

\* What the house's init sets numDealersRemaining to.
LookupWholePartyHouses == 3

\* For n lookups at once.
LookupLists(n) ==
  [patron |-> LookupPatronSteps, house |-> LookupHouseSteps,
   whole |-> LookupWholePartyHouses, size |-> n]
=============================================================================
