------------------------ MODULE RegressionRandomness ------------------------
(***************************************************************************)
(* The lists that make Dealing the randomness of a regression query: the   *)
(* states of dataowner::RegressionRandomnessPatron, and the houses of      *)
(* dealer::RegressionRandomnessBasement, each as its own file has them.    *)
(* Kinds are the types of the children: all Beaver triples look alike to   *)
(* the dealer.                                                             *)
(***************************************************************************)
EXTENDS Dealing, RegressionCounts

\* Mutant: the two comparisons are fetched in the other order.
PatronComparesSwapped ==
  << Step("ModConvUp", FALSE, numModConvUpNeeded),
     Step("Divide", FALSE, numDivideNeeded),
     Step("ZipAdjacent", TRUE, numConditionalEvaluateNeeded),
     Step("BeaverTriple", TRUE, numBeaverTripleForFactoryNeeded),
     Step("BeaverTriple", FALSE, numBeaverTripleForMatrixMultiplyNeeded),
     Step("RandomSquareMatrix", FALSE, numRandomSquareMatrixNeeded),
     Step("BeaverTriple", FALSE, numBeaverTripleForFinalMultiplyNeeded),
     Step("Compare", FALSE, numCompareNeeded),
     Step("CompareEndModulus", FALSE, numCompareEndModulusNeeded),
     Step("TypeCastFromBit", FALSE, numTypeCastFromBitNeeded),
     Step("Lookup", FALSE, numTableLookupFNeeded),
     Step("Lookup", FALSE, numTableLookuptNeeded) >>

RegressionPatronSteps ==
  << Step("ModConvUp", FALSE, numModConvUpNeeded),
     Step("Divide", FALSE, numDivideNeeded),
     Step("ZipAdjacent", TRUE, numConditionalEvaluateNeeded),
     Step("BeaverTriple", TRUE, numBeaverTripleForFactoryNeeded),
     Step("BeaverTriple", FALSE, numBeaverTripleForMatrixMultiplyNeeded),
     Step("RandomSquareMatrix", FALSE, numRandomSquareMatrixNeeded),
     Step("BeaverTriple", FALSE, numBeaverTripleForFinalMultiplyNeeded),
     Step("CompareEndModulus", FALSE, numCompareEndModulusNeeded),
     Step("Compare", FALSE, numCompareNeeded),
     Step("TypeCastFromBit", FALSE, numTypeCastFromBitNeeded),
     Step("Lookup", FALSE, numTableLookupFNeeded),
     Step("Lookup", FALSE, numTableLookuptNeeded) >>

\* Mutant: the house of the t table is not invoked.
BasementWithoutTLookup ==
  << House("ModConvUp", FALSE), House("Divide", FALSE),
     House("ZipAdjacent", TRUE), House("BeaverTriple", TRUE),
     House("BeaverTriple", FALSE), House("RandomSquareMatrix", FALSE),
     House("BeaverTriple", FALSE), House("CompareEndModulus", FALSE),
     House("Compare", FALSE), House("TypeCastFromBit", FALSE),
     House("Lookup", FALSE) >>

RegressionHouseSteps ==
  << House("ModConvUp", FALSE), House("Divide", FALSE),
     House("ZipAdjacent", TRUE), House("BeaverTriple", TRUE),
     House("BeaverTriple", FALSE), House("RandomSquareMatrix", FALSE),
     House("BeaverTriple", FALSE), House("CompareEndModulus", FALSE),
     House("Compare", FALSE), House("TypeCastFromBit", FALSE),
     House("Lookup", FALSE), House("Lookup", FALSE) >>

\* Mutant: a house was added and the literal was not.
NineHouses == 9

\* What the Basement's init sets numDealersRemaining to.
RegressionWholePartyHouses == 10

\* A regression asks for one of everything.
RegressionLists ==
  [patron |-> RegressionPatronSteps, house |-> RegressionHouseSteps,
   whole |-> RegressionWholePartyHouses, size |-> 1]
=============================================================================
