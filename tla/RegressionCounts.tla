-------------------------- MODULE RegressionCounts --------------------------
(***************************************************************************)
(* The parameters of a regression query and how much randomness            *)
(* RegressionRandomnessPatron's constructor reckons it needs.  The gets    *)
(* that Regression makes are checked against these counts in Regression.   *)
(***************************************************************************)
EXTENDS Naturals

CONSTANTS
  verticalDV_numIVs,      \* those in the dependent variable's vertical
  verticalNonDV_numIVs,   \* those in the other vertical
  batchSize,              \* zipAdjacentInfo.batchSize
  F_rows, t_rows          \* rows of the F and the t table

ASSUME CountsAssumption ==
  /\ {verticalDV_numIVs, verticalNonDV_numIVs} \subseteq Nat
  /\ {batchSize, F_rows, t_rows} \subseteq Nat \ {0}

\* RegressionInfo's constructor.
num_IVs == verticalDV_numIVs + verticalNonDV_numIVs

\* Mutant: the five multiplications for the error terms are taken to be four.
FinalWithoutFifth ==
  num_IVs + 2 * num_IVs
    + (num_IVs * num_IVs + 2 * num_IVs + 2)
    + (num_IVs * num_IVs + 3 * num_IVs) + (num_IVs + 2)
    + num_IVs

numModConvUpNeeded == num_IVs * num_IVs + num_IVs + 3
numDivideNeeded == num_IVs + 2 + num_IVs + 1 + num_IVs
numConditionalEvaluateNeeded == 1
numBeaverTripleForFactoryNeeded ==
  (batchSize - 1) * (verticalNonDV_numIVs * (verticalDV_numIVs + 1))
numBeaverTripleForMatrixMultiplyNeeded == num_IVs * num_IVs * (num_IVs + 1)
numRandomSquareMatrixNeeded == 1
numBeaverTripleForFinalMultiplyNeeded ==
  num_IVs + 2 * num_IVs
    + (num_IVs * num_IVs + 2 * num_IVs + 2)
    + (num_IVs * num_IVs + 3 * num_IVs) + (num_IVs + 2)
    + num_IVs + num_IVs + 1
numCompareEndModulusNeeded == num_IVs + 1 + num_IVs
numCompareNeeded == F_rows + t_rows
numTypeCastFromBitNeeded == num_IVs + F_rows + t_rows + 1 + num_IVs
numTableLookupFNeeded == 1
numTableLookuptNeeded == num_IVs
=============================================================================
