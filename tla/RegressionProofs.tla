--------------------------- MODULE RegressionProofs ---------------------------
(***************************************************************************)
(* What Regression promises, for any number of dataowners, verticals,      *)
(* variables, table rows and any batch size: the phases of Regression are  *)
(* inductive (Inv), and the counter, the dispensers, the shares a case     *)
(* reads and the result are as the runs check them on small instances.     *)
(***************************************************************************)
EXTENDS Regression, FronctocolLemmas, SequenceTheorems

-----------------------------------------------------------------------------
(* The twenty batches *)

\* There are twenty batches: a case by case tour of Phases has twenty steps.
LEMMA PhasesLen == Len(Phases) = 20
BY DEF Phases, MatrixPhases, InversePhases, SignPhases, CoefficientPhases,
    FirstProducts,
      SecondProducts, ThirdProducts, QuotientPhases, RowPhases, ColumnPhases,
      LookupPhases

\* The indices of the batches, one by one.
LEMMA PhaseCases ==
  ASSUME NEW k \in 1 .. 20
  PROVE  \/ k = 1 \/ k = 2 \/ k = 3 \/ k = 4 \/ k = 5 \/ k = 6 \/ k = 7 \/ k = 8
         \/ k = 9 \/ k = 10 \/ k = 11 \/ k = 12 \/ k = 13 \/ k = 14 \/ k = 15
         \/ k = 16 \/ k = 17 \/ k = 18 \/ k = 19 \/ k = 20
OBVIOUS

\* The states of the batches, in the order the cases go through them.
BatchNames ==
  << "awaitingBatchedModConvUp",
     "awaitingMatrixMultiply",
     "awaitingMatrixReveal",
     "awaitingRegressionMultiply",
     "awaitingFirstCompare",
     "awaitingFirstTypeCastFromBit",
     "awaitingNegativeCorrectionMultiply",
     "awaitingDivision",
     "awaitingNegativeRecorrectionMultiply",
     "awaitingFirstMultiplyForErrorTerms",
     "awaitingSecondMultiplyForErrorTerms",
     "awaitingThirdMultiplyForErrorTerms",
     "awaitingFourthMultiplyForErrorTerms",
     "awaitingDivisionForErrorTerms",
     "awaitingCompareForFtStatistics",
     "awaitingBatchedTypeCastFromBit",
     "awaitingCompareForFtStatisticsEndModulus",
     "awaitingBatchedTypeCastFromBitLast",
     "awaitingFifthMultiplyForErrorTerms",
     "awaitingBatchedLookup" >>

\* The state of each batch.
LEMMA PhaseName ==
  ASSUME NEW k \in 1 .. 20
  PROVE  Phases[k].name = BatchNames[k]
BY PhaseCases DEF BatchNames, Phases, Phase,
      MatrixPhases, InversePhases, SignPhases, CoefficientPhases, FirstProducts,
      SecondProducts, ThirdProducts, QuotientPhases, RowPhases, ColumnPhases,
      LookupPhases

\* No two batches have the same state, and none has a state of the earlier phases.
LEMMA BatchNamesDiffer ==
  /\ \A k, j \in 1 .. 20 : BatchNames[k] = BatchNames[j] => k = j
  /\ \A k \in 1 .. 20 : BatchNames[k] \notin
       {"idle", "complete", "awaitingRandomnessAndSISOSort", "awaitingRandomnessOnly",
        "awaitingSISOSort", "awaitingZipAdjacent", "awaitingZipReduce", "Randomness",
        "SISOSort", "ZipAdjacent", "ZipReduce"}
BY PhaseCases DEF BatchNames

\* What a batch reads its predecessor has left or filled, and what is still needed
\* afterwards is not what it moves out.
LEMMA SharesFlow ==
  ASSUME NEW k \in 1 .. 19
  PROVE  /\ Phases[k + 1].reads \subseteq Held[k] \cup Phases[k].yields
         /\ Held[k + 1] \subseteq
              ((Held[k] \cup Phases[k].yields) \ Phases[k + 1].drops)
                \cup Phases[k + 1].sets
<1> DEFINE Flows(j) == /\ Phases[j + 1].reads \subseteq Held[j] \cup Phases[j].yields
                       /\ Held[j + 1] \subseteq
                            ((Held[j] \cup Phases[j].yields) \ Phases[j + 1].drops)
                              \cup Phases[j + 1].sets
<1> USE DEF Held, Sums, Solved, Signed, ErrorTerms, Quotients, Statistics, RowIds,
      Phases, Phase, MatrixPhases, InversePhases, SignPhases, CoefficientPhases,
      FirstProducts,
      SecondProducts, ThirdProducts, QuotientPhases, RowPhases, ColumnPhases, LookupPhases
<1>1. Flows(1)
  OBVIOUS
<1>2. Flows(2)
  OBVIOUS
<1>3. Flows(3)
  OBVIOUS
<1>4. Flows(4)
  OBVIOUS
<1>5. Flows(5)
  OBVIOUS
<1>6. Flows(6)
  OBVIOUS
<1>7. Flows(7)
  OBVIOUS
<1>8. Flows(8)
  OBVIOUS
<1>9. Flows(9)
  OBVIOUS
<1>10. Flows(10)
  OBVIOUS
<1>11. Flows(11)
  OBVIOUS
<1>12. Flows(12)
  OBVIOUS
<1>13. Flows(13)
  OBVIOUS
<1>14. Flows(14)
  OBVIOUS
<1>15. Flows(15)
  OBVIOUS
<1>16. Flows(16)
  OBVIOUS
<1>17. Flows(17)
  OBVIOUS
<1>18. Flows(18)
  OBVIOUS
<1>19. Flows(19)
  OBVIOUS
<1> HIDE DEF Flows
<1>20. Flows(k)
  BY PhaseCases, <1>1, <1>2, <1>3, <1>4, <1>5, <1>6, <1>7, <1>8, <1>9, <1>10, <1>11,
      <1>12, <1>13, <1>14, <1>15, <1>16, <1>17, <1>18, <1>19
<1> QED
  BY <1>20 DEF Flows

\* The first batch reads nothing, and the last leaves all that is sent.
LEMMA SharesEnds ==
  /\ Phases[1].reads = {} /\ Held[1] = {}
  /\ Sent \subseteq Held[20] \cup Phases[20].yields
BY DEF Sent, Held, Quotients, Phases, Phase, MatrixPhases, InversePhases, SignPhases,
    CoefficientPhases, FirstProducts,
      SecondProducts, ThirdProducts, QuotientPhases, RowPhases, ColumnPhases, LookupPhases

-----------------------------------------------------------------------------
(* The dispensers *)

Fields == {"modConvUp", "divide", "zipAdjacent", "factory", "matrix", "randomMatrix",
           "final", "compareEnd", "compare", "typeCast", "F_lookup", "t_lookup"}

\* How much of dispenser f a case takes.
Amount(takes, f) == IF f \in DOMAIN takes THEN takes[f] ELSE 0

\* The counts of payload columns, pairs and table rows are natural numbers, however
\* many verticals, variables and rows there are.
LEMMA CountsType ==
  /\ d \in Nat /\ pairs \in Nat /\ 2 * pairs <= d * (d + 1)
  /\ d * d \in Nat /\ d * (d + 1) \in Nat /\ d * d * (d + 1) \in Nat
  /\ F_rows - 1 \in Nat /\ t_rows - 1 \in Nat /\ FactoryTakes \in Nat
<1>1. /\ verticalDV_numIVs \in Nat /\ verticalNonDV_numIVs \in Nat
      /\ F_rows - 1 \in Nat /\ t_rows - 1 \in Nat /\ batchSize - 1 \in Nat
  BY CountsAssumption
<1>2. d \in Nat
  BY <1>1 DEF d, num_IVs
<1>3. \A a, b \in Nat : a * b \in Nat
  OBVIOUS
<1>4. d * d \in Nat /\ d * (d + 1) \in Nat /\ d * d * (d + 1) \in Nat
  BY <1>2, <1>3
<1>5. \A n \in Nat : n \div 2 \in Nat /\ 2 * (n \div 2) <= n
  OBVIOUS
<1>6. pairs \in Nat /\ 2 * pairs <= d * (d + 1)
  BY <1>4, <1>5 DEF pairs
<1>7. FactoryTakes \in Nat
  <2>1. (batchSize - 1) * verticalNonDV_numIVs \in Nat /\ verticalDV_numIVs + 1 \in Nat
    BY <1>1, <1>3
  <2> QED
    BY <2>1, <1>3 DEF FactoryTakes
<1> QED
  BY <1>1, <1>2, <1>4, <1>6, <1>7

\* What is dealt is a number for each dispenser.
LEMMA DealtType ==
  /\ DOMAIN DealtRandomness = Fields
  /\ DealtRandomness \in [Fields -> Int]
  /\ NoRandomness \in [Fields -> Int]
<1>1. DOMAIN DealtRandomness = Fields
  BY DEF DealtRandomness, Fields
<1>2. \A f \in Fields : DealtRandomness[f] \in Int
  <2>1. /\ numBeaverTripleForFactoryNeeded \in Int
        /\ numBeaverTripleForMatrixMultiplyNeeded \in Int
    <3>1. \A a, b \in Int : a * b \in Int
      OBVIOUS
    <3>2. /\ batchSize - 1 \in Int
          /\ verticalNonDV_numIVs \in Int /\ verticalDV_numIVs + 1 \in Int
      BY CountsAssumption
    <3>3. verticalNonDV_numIVs * (verticalDV_numIVs + 1) \in Int
      BY <3>1, <3>2
    <3> QED
      BY <3>1, <3>2, <3>3, CountsType
      DEF numBeaverTripleForFactoryNeeded, numBeaverTripleForMatrixMultiplyNeeded, d
  <2>2. num_IVs \in Nat /\ num_IVs * num_IVs \in Nat /\ F_rows \in Nat /\ t_rows \in Nat
    BY CountsType, CountsAssumption DEF d
  <2> QED
    BY <2>1, <2>2 DEF Fields, DealtRandomness, numModConvUpNeeded, numDivideNeeded,
         numConditionalEvaluateNeeded, numRandomSquareMatrixNeeded,
         numBeaverTripleForFinalMultiplyNeeded, numCompareEndModulusNeeded,
         numCompareNeeded, numTypeCastFromBitNeeded, numTableLookupFNeeded,
         numTableLookuptNeeded
<1>3. DealtRandomness \in [Fields -> Int]
  <2>1. DealtRandomness = [f \in Fields |-> DealtRandomness[f]]
    BY DEF DealtRandomness, Fields
  <2> QED
    BY <1>2, <2>1
<1>4. NoRandomness \in [Fields -> Int]
  BY <1>1 DEF NoRandomness
<1> QED
  BY <1>1, <1>3, <1>4

\* Drawing is subtracting.
LEMMA DrawLemma ==
  ASSUME NEW rand \in [Fields -> Int], NEW takes, \A f \in Fields : Amount(takes, f) \in Int
  PROVE  /\ Draw(rand, takes) \in [Fields -> Int]
         /\ \A f \in Fields : Draw(rand, takes)[f] = rand[f] - Amount(takes, f)
BY DEF Draw, Amount

\* Two draws take what they take together.
LEMMA DrawTwice ==
  ASSUME NEW rand \in [Fields -> Int], NEW a, NEW b, NEW c,
         \A f \in Fields : Amount(a, f) \in Int /\ Amount(b, f) \in Int
                           /\ Amount(c, f) = Amount(a, f) + Amount(b, f)
  PROVE  Draw(Draw(rand, a), b) = Draw(rand, c)
<1>1. Draw(rand, a) \in [Fields -> Int] /\ Draw(rand, c) \in [Fields -> Int]
  BY DrawLemma
<1>2. Draw(Draw(rand, a), b) \in [Fields -> Int]
  BY <1>1, DrawLemma
<1>3. ASSUME NEW f \in Fields PROVE Draw(Draw(rand, a), b)[f] = Draw(rand, c)[f]
  <2>1. Draw(Draw(rand, a), b)[f] = rand[f] - Amount(a, f) - Amount(b, f)
    BY <1>1, DrawLemma
  <2>2. Draw(rand, c)[f] = rand[f] - Amount(c, f)
    BY DrawLemma
  <2> QED
    BY <2>1, <2>2
<1> QED
  BY <1>1, <1>2, <1>3

\* Spent adds up what the batches take.
LEMMA SpentType ==
  ASSUME NEW k \in 1 .. 20
  PROVE  \A f \in Fields : Amount(Spent(k), f) \in Nat
BY CountsType DEF Amount, Spent, Fields

\* The table Spent is the running sum of what the batches take.
LEMMA SpentAdds ==
  ASSUME NEW k \in 1 .. 19
  PROVE  \A f \in Fields :
           /\ Amount(Phases[k + 1].takes, f) \in Nat
           /\ Amount(Spent(k + 1), f) = Amount(Spent(k), f) + Amount(Phases[k + 1].takes, f)
<1> DEFINE AddsTo(j, f) ==
             /\ Amount(Phases[j + 1].takes, f) \in Nat
             /\ Amount(Spent(j + 1), f)
                  = Amount(Spent(j), f) + Amount(Phases[j + 1].takes, f)
           Adds(j) == \A f \in Fields : AddsTo(j, f)
<1>0. /\ d \in Nat /\ pairs \in Nat /\ d * d + d + 3 \in Nat /\ d * d * (d + 1) \in Nat
      /\ F_rows - 1 \in Nat /\ t_rows - 1 \in Nat
  BY CountsType
<1> USE <1>0 DEF Spent, Amount, Fields, Phases, Phase,
      MatrixPhases, InversePhases, SignPhases, CoefficientPhases, FirstProducts,
      SecondProducts, ThirdProducts, QuotientPhases, RowPhases, ColumnPhases, LookupPhases
<1>1. Adds(1)
  OBVIOUS
<1>2. Adds(2)
  OBVIOUS
<1>3. Adds(3)
  OBVIOUS
<1>4. Adds(4)
  OBVIOUS
<1>5. Adds(5)
  OBVIOUS
<1>6. Adds(6)
  OBVIOUS
<1>7. Adds(7)
  OBVIOUS
<1>8. Adds(8)
  OBVIOUS
<1>9. Adds(9)
  OBVIOUS
<1>10. Adds(10)
  OBVIOUS
<1>11. Adds(11)
  OBVIOUS
<1>12. Adds(12)
  OBVIOUS
<1>13. Adds(13)
  OBVIOUS
<1>14. Adds(14)
  OBVIOUS
<1>15. Adds(15)
  OBVIOUS
<1>16. Adds(16)
  <2>1. AddsTo(16, "compareEnd")
    OBVIOUS
  <2>2. \A f \in Fields \ {"compareEnd"} : AddsTo(16, f)
    OBVIOUS
  <2> HIDE DEF AddsTo, Fields
  <2> QED
    BY <2>1, <2>2
<1>17. Adds(17)
  OBVIOUS
<1>18. Adds(18)
  OBVIOUS
<1>19. Adds(19)
  OBVIOUS
<1> HIDE DEF Adds
<1>20. Adds(k)
  BY PhaseCases, <1>1, <1>2, <1>3, <1>4, <1>5, <1>6, <1>7, <1>8, <1>9, <1>10, <1>11,
      <1>12, <1>13, <1>14, <1>15, <1>16, <1>17, <1>18, <1>19
<1> QED
  BY <1>20 DEF Adds

\* What is left after each phase is a number for each dispenser.
LEMMA LeftType ==
  /\ LeftByZips \in [Fields -> Int]
  /\ \A f \in Fields : LeftByZips[f] = DealtRandomness[f] - Amount([zipAdjacent |-> 1], f)
  /\ LeftByReduces \in [Fields -> Int]
  /\ \A f \in Fields : LeftByReduces[f] = LeftByZips[f] - Amount([factory |-> FactoryTakes], f)
  /\ \A k \in 1 .. 20 :
       /\ LeftByBatch(k) \in [Fields -> Int]
       /\ \A f \in Fields : LeftByBatch(k)[f] = LeftByReduces[f] - Amount(Spent(k), f)
<1>1. \A f \in Fields : /\ Amount([zipAdjacent |-> 1], f) \in Int
                        /\ Amount([factory |-> FactoryTakes], f) \in Int
  BY CountsType DEF Amount
<1>2. /\ LeftByZips \in [Fields -> Int]
      /\ \A f \in Fields : LeftByZips[f] = DealtRandomness[f] - Amount([zipAdjacent |-> 1], f)
  BY <1>1, DealtType, DrawLemma DEF LeftByZips
<1>3. /\ LeftByReduces \in [Fields -> Int]
      /\ \A f \in Fields :
           LeftByReduces[f] = LeftByZips[f] - Amount([factory |-> FactoryTakes], f)
  BY <1>1, <1>2, DrawLemma DEF LeftByReduces
<1>4. ASSUME NEW k \in 1 .. 20
      PROVE  /\ LeftByBatch(k) \in [Fields -> Int]
             /\ \A f \in Fields : LeftByBatch(k)[f] = LeftByReduces[f] - Amount(Spent(k), f)
  <2>1. \A f \in Fields : Amount(Spent(k), f) \in Int
    BY SpentType
  <2> QED
    BY <1>3, <2>1, DrawLemma DEF LeftByBatch
<1> QED
  BY <1>2, <1>3, <1>4

\* What a case takes leads from one row of Spent to the next.
LEMMA NextLeft ==
  /\ Draw(LeftByReduces, Phases[1].takes) = LeftByBatch(1)
  /\ \A k \in 1 .. 19 : Draw(LeftByBatch(k), Phases[k + 1].takes) = LeftByBatch(k + 1)
<1>1. Draw(LeftByReduces, Phases[1].takes) = LeftByBatch(1)
  <2>1. Phases[1].takes = [modConvUp |-> d * d + d + 3]
    BY DEF Phases, Phase,
      MatrixPhases, InversePhases, SignPhases, CoefficientPhases, FirstProducts,
      SecondProducts, ThirdProducts, QuotientPhases, RowPhases, ColumnPhases, LookupPhases
  <2>2. ASSUME NEW f \in Fields
        PROVE  /\ Amount([modConvUp |-> d * d + d + 3], f) \in Int
               /\ Amount([modConvUp |-> d * d + d + 3], f) = Amount(Spent(1), f)
    BY CountsType DEF Amount, Spent, Fields
  <2>3. /\ Draw(LeftByReduces, Phases[1].takes) \in [Fields -> Int]
        /\ \A f \in Fields : Draw(LeftByReduces, Phases[1].takes)[f]
                               = LeftByReduces[f] - Amount(Phases[1].takes, f)
    BY <2>1, <2>2, LeftType, DrawLemma
  <2> HIDE DEF LeftByReduces
  <2> QED
    BY <2>1, <2>2, <2>3, LeftType
<1>2. ASSUME NEW k \in 1 .. 19
      PROVE  Draw(LeftByBatch(k), Phases[k + 1].takes) = LeftByBatch(k + 1)
  <2>1. \A f \in Fields :
          /\ Amount(Spent(k), f) \in Int /\ Amount(Phases[k + 1].takes, f) \in Int
          /\ Amount(Spent(k + 1), f) = Amount(Spent(k), f) + Amount(Phases[k + 1].takes, f)
    <3>1. k \in 1 .. 20
      OBVIOUS
    <3> QED
      BY <3>1, SpentType, SpentAdds
  <2> QED
    BY <2>1, LeftType, DrawTwice DEF LeftByBatch
<1> QED
  BY <1>1, <1>2

\* The counts of the patron's constructor cover what is taken: the two products of
\* the triangular loops, counted there as a square, take no more than that.
LEMMA CountsSuffice ==
  ASSUME NEW f \in Fields
  PROVE  /\ DealtRandomness[f] >= 0 /\ LeftByZips[f] >= 0 /\ LeftByReduces[f] >= 0
         /\ \A k \in 1 .. 20 : LeftByBatch(k)[f] >= 0
<1>1. DealtRandomness[f] \in Int /\ LeftByZips[f] \in Int /\ LeftByReduces[f] \in Int
  BY DealtType, LeftType
<1>2. /\ Amount([zipAdjacent |-> 1], f) \in Nat
      /\ Amount([factory |-> FactoryTakes], f) \in Nat
  BY CountsType DEF Amount
<1>3. LeftByReduces[f] >= Amount(Spent(20), f)
  <2>1. DealtRandomness[f] >= Amount(Spent(20), f) + Amount([zipAdjacent |-> 1], f)
                                + Amount([factory |-> FactoryTakes], f)
    <3>1. CASE f = "factory"
      <4>1. FactoryTakes = numBeaverTripleForFactoryNeeded
        <5>1. /\ batchSize - 1 \in Int
              /\ verticalNonDV_numIVs \in Int /\ verticalDV_numIVs + 1 \in Int
          BY CountsAssumption
        <5>2. \A a, b, c \in Int : a * b * c = a * (b * c)
          OBVIOUS
        <5> QED
          BY <5>1, <5>2 DEF FactoryTakes, numBeaverTripleForFactoryNeeded
      <4> QED
        BY <3>1, <4>1, CountsType DEF Amount, Spent, DealtRandomness
    <3>2. CASE f = "final"
      <4>1. d \in Nat /\ pairs \in Nat /\ d * d \in Nat /\ 2 * pairs <= d * d + d
        <5>1. \A a \in Nat : a * (a + 1) = a * a + a
          OBVIOUS
        <5> QED
          BY <5>1, CountsType
      <4>2. Amount(Spent(20), f) = 3 * d + (2 * pairs + d + 2) + (2 * pairs + 2 * d)
                                     + (d + 2) + d + (d + 1)
        BY <3>2, <4>1 DEF Amount, Spent
      <4>3. DealtRandomness[f] = 3 * d + (d * d + 2 * d + 2) + (d * d + 3 * d)
                                   + (d + 2) + d + d + 1
        BY <3>2, <4>1 DEF DealtRandomness, numBeaverTripleForFinalMultiplyNeeded, d
      <4>4. Amount([zipAdjacent |-> 1], f) = 0 /\ Amount([factory |-> FactoryTakes], f) = 0
        BY <3>2 DEF Amount
      <4> HIDE DEF pairs, d
      <4> QED
        BY <4>1, <4>2, <4>3, <4>4
    <3>3. CASE f \in Fields \ {"factory", "final"}
      <4>1. /\ d \in Nat /\ d = num_IVs /\ d * d \in Nat /\ d * d * (d + 1) \in Nat
            /\ F_rows \in Nat /\ t_rows \in Nat
        BY CountsType, CountsAssumption DEF d
      <4> QED
        BY <3>3, <4>1 DEF Fields, Amount, Spent, DealtRandomness, numModConvUpNeeded,
             numDivideNeeded, numConditionalEvaluateNeeded, numRandomSquareMatrixNeeded,
             numBeaverTripleForMatrixMultiplyNeeded, numCompareEndModulusNeeded,
             numCompareNeeded, numTypeCastFromBitNeeded, numTableLookupFNeeded,
             numTableLookuptNeeded
    <3> QED
      BY <3>1, <3>2, <3>3
  <2>2. Amount(Spent(20), f) \in Nat
    BY SpentType
  <2> QED
    BY <1>1, <1>2, <2>1, <2>2, LeftType
<1>4. ASSUME NEW k \in 1 .. 20
      PROVE  Amount(Spent(k), f) \in Nat /\ Amount(Spent(k), f) <= Amount(Spent(20), f)
  <2>1. /\ d \in Nat /\ pairs \in Nat /\ d * d * (d + 1) \in Nat /\ d * d + d + 3 \in Nat
        /\ F_rows - 1 \in Nat /\ t_rows - 1 \in Nat
    BY CountsType
  <2>2. Amount(Spent(k), f) <= Amount(Spent(20), f)
    BY <2>1 DEF Amount, Spent, Fields
  <2> QED
    BY <2>2, SpentType
<1>5. ASSUME NEW k \in 1 .. 20 PROVE LeftByBatch(k)[f] >= 0
  <2>1. LeftByBatch(k)[f] = LeftByReduces[f] - Amount(Spent(k), f)
    BY LeftType
  <2>2. Amount(Spent(20), f) \in Nat
    BY SpentType
  <2> QED
    BY <1>1, <1>3, <1>4, <2>1, <2>2
<1>6. LeftByReduces[f] >= 0
  <2>1. Amount(Spent(20), f) \in Nat
    BY SpentType
  <2> QED
    BY <1>1, <1>3, <2>1
<1>7. LeftByZips[f] >= 0 /\ DealtRandomness[f] >= 0
  BY <1>1, <1>2, <1>6, LeftType
<1> QED
  BY <1>5, <1>6, <1>7

-----------------------------------------------------------------------------
(* Types *)

\* The children of one kind for a set of peer sets are children.
LEMMA ChildrenType ==
  ASSUME NEW kind \in Kinds, NEW S, S \subseteq PeerSets
  PROVE  Children(kind, S) \subseteq ChildType
BY DEF Children, Child, ChildType

\* Declaring a child keeps the streams well-typed.
LEMMA DeclareType ==
  ASSUME NEW s \in [PeerSets -> Seq(Kinds)], NEW kind \in Kinds, NEW S
  PROVE  Declare(s, kind, S) \in [PeerSets -> Seq(Kinds)]
BY DEF Declare

\* The state of a batch is a state, its child's kind is a kind, no two batches share
\* theirs and none is a state of the earlier phases.
LEMMA PhaseStates ==
  /\ \A k \in 1 .. 20 :
       /\ Phases[k].name \in PhaseNames
       /\ Phases[k].name \in Kinds
       /\ Phases[k].name \in States
       /\ Phases[k].name \notin
            {"idle", "complete", "awaitingRandomnessAndSISOSort",
             "awaitingRandomnessOnly", "awaitingSISOSort", "awaitingZipAdjacent",
             "awaitingZipReduce", "Randomness", "SISOSort", "ZipAdjacent", "ZipReduce"}
  /\ \A k, j \in 1 .. 20 : Phases[k].name = Phases[j].name => k = j
<1>1. DOMAIN Phases = 1 .. 20
  BY DEF Phases, Phase, MatrixPhases, InversePhases, SignPhases, CoefficientPhases,
         FirstProducts, SecondProducts, ThirdProducts, QuotientPhases, RowPhases,
         ColumnPhases, LookupPhases
<1>2. \A k \in 1 .. 20 : Phases[k].name \in PhaseNames
  BY <1>1 DEF PhaseNames
<1>3. \A k \in 1 .. 20 : Phases[k].name = BatchNames[k]
  BY PhaseName
<1> QED
  BY <1>2, <1>3, BatchNamesDiffer DEF Kinds, States

\* The kinds of the children before the batches are kinds.
LEMMA KindsOfChildren ==
  /\ "Randomness" \in Kinds /\ "SISOSort" \in Kinds
  /\ "ZipAdjacent" \in Kinds /\ "ZipReduce" \in Kinds
BY DEF Kinds

\* What Draw makes of the dispensers' amounts is again such amounts.
LEMMA LeftIsType ==
  /\ DealtRandomness \in [DOMAIN DealtRandomness -> Int]
  /\ NoRandomness \in [DOMAIN DealtRandomness -> Int]
  /\ LeftByZips \in [DOMAIN DealtRandomness -> Int]
  /\ LeftByReduces \in [DOMAIN DealtRandomness -> Int]
  /\ \A k \in 1 .. 20 : LeftByBatch(k) \in [DOMAIN DealtRandomness -> Int]
BY DealtType, LeftType

-----------------------------------------------------------------------------
(* The children of a paired phase *)

\* A sort that completes is the sort with exactly one partner, and what stays open
\* are the sorts with the others.
LEMMA SortsLemma ==
  ASSUME NEW p \in Dataowners, NEW T \in SUBSET Cross(p),
         NEW c \in Sorts(p, T)
  PROVE  /\ c.kind = "SISOSort"
         /\ \E q \in T : /\ c.peers \ {p, Dealer} = {q}
                         /\ Sorts(p, T) \ {c} = Sorts(p, T \ {q})
<1>1. PICK q \in T : c = Child("SISOSort", {p, q, Dealer})
  BY DEF Sorts, Children, DealtPair
<1>2. /\ q # p /\ q # Dealer
      /\ c.kind = "SISOSort" /\ c.peers = {p, q, Dealer}
  BY <1>1, CrossLemma DEF Child
<1>3. c.peers \ {p, Dealer} = {q}
  BY <1>2
<1>4. ASSUME NEW x \in T, Child("SISOSort", {p, x, Dealer}) = c
      PROVE  x = q
  <2>1. {p, x, Dealer} = {p, q, Dealer}
    BY <1>1, <1>4 DEF Child
  <2>2. x # p /\ x # Dealer
    BY CrossLemma
  <2> QED
    BY <2>1, <2>2
<1>5. Sorts(p, T) \ {c} = Sorts(p, T \ {q})
  BY <1>1, <1>4 DEF Sorts, Children, DealtPair
<1> QED
  BY <1>2, <1>3, <1>5

\* The same for the zips, whose peers are the two dataowners alone.
LEMMA ZipsLemma ==
  ASSUME NEW p \in Dataowners, NEW T \in SUBSET Cross(p),
         NEW c \in Zips(p, T)
  PROVE  /\ c.kind = "ZipAdjacent"
         /\ \E q \in T : /\ c.peers \ {p} = {q}
                         /\ Zips(p, T) \ {c} = Zips(p, T \ {q})
<1>1. PICK q \in T : c = Child("ZipAdjacent", {p, q})
  BY DEF Zips, Children, Pair
<1>2. q # p /\ c.kind = "ZipAdjacent" /\ c.peers = {p, q}
  BY <1>1, CrossLemma DEF Child
<1>3. c.peers \ {p} = {q}
  BY <1>2
<1>4. ASSUME NEW x \in T, Child("ZipAdjacent", {p, x}) = c
      PROVE  x = q
  <2>1. {p, x} = {p, q}
    BY <1>1, <1>4 DEF Child
  <2>2. x # p
    BY CrossLemma
  <2> QED
    BY <2>1, <2>2
<1>5. Zips(p, T) \ {c} = Zips(p, T \ {q})
  BY <1>1, <1>4 DEF Zips, Children, Pair
<1> QED
  BY <1>2, <1>3, <1>5

\* The same for the reductions.
LEMMA ReducesLemma ==
  ASSUME NEW p \in Dataowners, NEW T \in SUBSET Cross(p),
         NEW c \in Reduces(p, T)
  PROVE  /\ c.kind = "ZipReduce"
         /\ \E q \in T : /\ c.peers \ {p} = {q}
                         /\ Reduces(p, T) \ {c} = Reduces(p, T \ {q})
<1>1. PICK q \in T : c = Child("ZipReduce", {p, q})
  BY DEF Reduces, Children, Pair
<1>2. q # p /\ c.kind = "ZipReduce" /\ c.peers = {p, q}
  BY <1>1, CrossLemma DEF Child
<1>3. c.peers \ {p} = {q}
  BY <1>2
<1>4. ASSUME NEW x \in T, Child("ZipReduce", {p, x}) = c
      PROVE  x = q
  <2>1. {p, x} = {p, q}
    BY <1>1, <1>4 DEF Child
  <2>2. x # p
    BY CrossLemma
  <2> QED
    BY <2>1, <2>2
<1>5. Reduces(p, T) \ {c} = Reduces(p, T \ {q})
  BY <1>1, <1>4 DEF Reduces, Children, Pair
<1> QED
  BY <1>2, <1>3, <1>5

\* A paired phase starts with one child per partner.
LEMMA PairedStart ==
  ASSUME NEW p \in Dataowners
  PROVE  /\ Children("SISOSort", DealtPairs(p)) = Sorts(p, Cross(p))
         /\ Children("ZipAdjacent", Pairs(p)) = Zips(p, Cross(p))
         /\ Children("ZipReduce", Pairs(p)) = Reduces(p, Cross(p))
         /\ Sorts(p, {}) = {} /\ Zips(p, {}) = {} /\ Reduces(p, {}) = {}
BY DEF Sorts, Zips, Reduces, Pairs, DealtPairs, Children

-----------------------------------------------------------------------------
(* Phases *)

\* A dataowner none of whose variables change stays in its phase.
LEMMA OwnerUnchanged ==
  ASSUME NEW p \in Dataowners, OwnerPhase(p),
         state'[p] = state[p],
         numPartiesAwaiting'[p] = numPartiesAwaiting[p],
         randomnessDone'[p] = randomnessDone[p],
         sharedLists'[p] = sharedLists[p],
         sortedLists'[p] = sortedLists[p],
         vectorZippedAdjacent'[p] = vectorZippedAdjacent[p],
         startModulusPayloadVector'[p] = startModulusPayloadVector[p],
         randomness'[p] = randomness[p],
         shares'[p] = shares[p],
         open'[p] = open[p]
  PROVE  OwnerPhase(p)'
<1>1. CASE Idle(p)
  BY <1>1 DEF OwnerPhase, Idle
<1>2. CASE Collecting(p)
  BY <1>2 DEF OwnerPhase, Collecting, PatronHas, PatronOpen
<1>3. CASE Sorting(p)
  BY <1>3 DEF OwnerPhase, Sorting, PatronHas, PatronOpen
<1>4. CASE Zipping(p)
  BY <1>4 DEF OwnerPhase, Zipping
<1>5. CASE Reducing(p)
  BY <1>5 DEF OwnerPhase, Reducing
<1>6. ASSUME NEW k \in 1 .. Len(Phases), InBatch(p, k) PROVE OwnerPhase(p)'
  <2>1. InBatch(p, k)'
    BY <1>6 DEF InBatch, Summed
  <2> QED
    BY <2>1 DEF OwnerPhase
<1>7. CASE Completed(p)
  BY <1>7 DEF OwnerPhase, Completed, Summed
<1> QED
  BY <1>1, <1>2, <1>3, <1>4, <1>5, <1>6, <1>7 DEF OwnerPhase

\* What is known of the phase from Regression::state.
LEMMA PhaseFromState ==
  ASSUME NEW p \in Dataowners, OwnerPhase(p)
  PROVE  /\ state[p] = "idle" => Idle(p)
         /\ state[p] = "awaitingZipAdjacent" => Zipping(p)
         /\ state[p] = "awaitingZipReduce" => Reducing(p)
         /\ \A k \in 1 .. 20 : state[p] = Phases[k].name => InBatch(p, k)
         /\ state[p] = "awaitingRandomnessOnly" => Sorting(p)
         /\ state[p] = "awaitingSISOSort" => Collecting(p) \/ Sorting(p)
         /\ state[p] = "complete" => Completed(p)
         /\ ~randomnessDone[p] => Idle(p) \/ Collecting(p) \/ Sorting(p)
<1>1. CASE Idle(p) \/ Collecting(p) \/ Sorting(p)
  BY <1>1, PhaseStates DEF Idle, Collecting, Sorting
<1>2. CASE Zipping(p) \/ Reducing(p) \/ Completed(p)
  BY <1>2, PhaseStates DEF Zipping, Reducing, Completed, Summed
<1>3. ASSUME NEW k \in 1 .. 20, InBatch(p, k)
      PROVE  /\ state[p] = Phases[k].name
             /\ randomnessDone[p]
             /\ \A j \in 1 .. 20 : state[p] = Phases[j].name => j = k
             /\ state[p] \notin {"idle", "complete", "awaitingRandomnessAndSISOSort",
                  "awaitingRandomnessOnly", "awaitingSISOSort", "awaitingZipAdjacent",
                  "awaitingZipReduce"}
  <2>1. state[p] = Phases[k].name /\ randomnessDone[p]
    BY <1>3 DEF InBatch, Summed
  <2> QED
    BY <2>1, PhaseStates
<1> QED
  BY <1>1, <1>2, <1>3, PhasesLen DEF OwnerPhase

\* The receivers' invariant depends on the dataowners only through which of them
\* have completed.
LEMMA ReceiverUnchanged ==
  ASSUME Shape, ReceiverInv, UNCHANGED <<resultWire, receiver>>,
         \A p \in Dataowners : state[p] = "complete" => state'[p] = "complete"
  PROVE  ReceiverInv'
<1>1. \A r : Heard(r)' = Heard(r)
  BY DEF Heard, receiver
<1>2. \A m \in resultWire' :
        /\ state'[m.from] = "complete"
        /\ m.share = Cross(m.from)
        /\ m.from \notin Heard(m.to)'
  BY <1>1 DEF ReceiverInv, Shape, ResultMsg
<1>3. ASSUME NEW r \in Recipients
      PROVE  \A p, q \in Dataowners :
               <<p, q>> \in results'[r] => q \in Cross(p) /\ state'[p] = "complete"
  BY DEF ReceiverInv, receiver
<1>4. ASSUME NEW r \in Recipients
      PROVE  /\ \A p \in Heard(r)' : \A q \in Cross(p) : <<p, q>> \in results'[r]
             /\ receiverState'[r] = "idle" => results'[r] = {} /\ numDataowners'[r] = 0
             /\ receiverState'[r] # "idle" =>
                  numDataowners'[r] = Cardinality(Dataowners \ Heard(r)')
             /\ receiverState'[r] = "complete" => Heard(r)' = Dataowners
  BY <1>1 DEF ReceiverInv, receiver
<1> QED
  BY <1>2, <1>3, <1>4 DEF ReceiverInv

\* What the cases of Regression::handleComplete have in common: only p changes, it
\* was not complete and does not become idle.
LEMMA CompletionFrame ==
  ASSUME Inv, NEW p \in Dataowners, Shape', OwnerPhase(p)', NothingReadUnset',
         UNCHANGED <<sharedLists, wire, resultWire, house, receiver>>,
         state[p] # "complete", state'[p] # "idle",
         \A x \in Parties \ {p} : open'[x] = open[x],
         \A x \in Dataowners \ {p} :
           /\ state'[x] = state[x]
           /\ numPartiesAwaiting'[x] = numPartiesAwaiting[x]
           /\ randomnessDone'[x] = randomnessDone[x]
           /\ sortedLists'[x] = sortedLists[x]
           /\ vectorZippedAdjacent'[x] = vectorZippedAdjacent[x]
           /\ startModulusPayloadVector'[x] = startModulusPayloadVector[x]
           /\ randomness'[x] = randomness[x]
           /\ shares'[x] = shares[x]
  PROVE  Inv'
<1>c. /\ p # Dealer /\ Dealer \in Parties /\ Dataowners \subseteq Parties
  BY CrossLemma DEF Parties
<1>1. ASSUME NEW x \in Dataowners PROVE OwnerPhase(x)'
  <2>1. CASE x # p
    BY <2>1, <1>c, OwnerUnchanged DEF Inv
  <2> QED
    BY <2>1
<1>2. WireInv'
  <2>1. \A x \in Dataowners : state[x] # "idle" => state'[x] # "idle"
    OBVIOUS
  <2> QED
    BY <2>1 DEF Inv, Shape, WireInv
<1>3. HouseInv'
  BY <1>c DEF Inv, HouseInv, house
<1>4. ReceiverInv'
  BY ReceiverUnchanged DEF Inv
<1> QED
  BY <1>1, <1>2, <1>3, <1>4 DEF Inv

\* Regression::init.
LEMMA RegressionInitStep ==
  ASSUME Inv, NEW p \in Dataowners, RegressionInit(p)
  PROVE  Inv'
<1> USE DEF RegressionInit, Invoke, Inv
<1>0. Idle(p)
  BY PhaseFromState
<1>c. /\ p # Dealer /\ p \in Parties /\ Dealer \in Parties
      /\ Dataowners \subseteq Parties
  BY CrossLemma DEF Parties
<1>1. Shape'
  <2>1. declared' \in [Parties -> [PeerSets -> Seq(Kinds)]]
    <3>1. Declare(declared[p], "Randomness", {Parties}) \in [PeerSets -> Seq(Kinds)]
      BY <1>c, DeclareType, KindsOfChildren DEF Shape
    <3> QED
      BY <3>1 DEF Shape
  <2>2. open' \in [Parties -> SUBSET ChildType]
    <3>1. Children("Randomness", {Parties}) \subseteq ChildType
      BY PeerSetLemma, ChildrenType, KindsOfChildren
    <3> QED
      BY <3>1, <1>c DEF Shape
  <2>3. numPartiesAwaiting' \in [Dataowners -> Int]
    BY CrossLemma DEF Shape
  <2>4. wire' \subseteq Dataowners \X Dataowners
    BY CrossLemma DEF Shape
  <2>5. state' \in [Dataowners -> States]
    BY DEF Shape, States
  <2> QED
    BY <2>1, <2>2, <2>3, <2>4, <2>5 DEF Shape, work, house, receiver
<1>2. ASSUME NEW x \in Dataowners PROVE OwnerPhase(x)'
  <2>1. CASE x # p
    BY <2>1, <1>c, OwnerUnchanged DEF Shape, work
  <2>2. CASE x = p
    <3>1. Children("Randomness", {Parties}) = {Patron}
      BY DEF Children, Patron
    <3>2. Collecting(p)'
      BY <1>0, <1>c, <3>1, CrossLemma
      DEF Shape, work, Idle, Collecting, PatronHas, PatronOpen
    <3> QED
      BY <2>2, <3>2 DEF OwnerPhase
  <2> QED
    BY <2>1, <2>2
<1>3. WireInv'
  <2>1. /\ state'[p] # "idle"
        /\ \A x \in Dataowners : state[x] # "idle" => state'[x] # "idle"
    BY DEF Shape
  <2>2. ASSUME NEW x \in Dataowners, NEW y \in Dataowners, <<y, x>> \in wire'
        PROVE  y \in Cross(x) /\ y \notin sharedLists[x] /\ state'[y] # "idle"
    <3>1. CASE <<y, x>> \in wire
      BY <3>1, <2>1 DEF WireInv
    <3>2. CASE <<y, x>> \notin wire
      <4>1. y = p /\ x \in Cross(p)
        BY <2>2, <3>2
      <4>2. y \in Cross(x)
        BY <4>1 DEF Cross
      <4>3. y \notin sharedLists[x]
        BY <1>0, <4>1 DEF WireInv, Idle
      <4> QED
        BY <4>1, <4>2, <4>3, <2>1
    <3> QED
      BY <3>1, <3>2
  <2>3. \A x \in Dataowners : \A y \in sharedLists[x] : state'[y] # "idle"
    BY <2>1 DEF WireInv, Shape
  <2> QED
    BY <2>2, <2>3 DEF WireInv, work
<1>4. HouseInv'
  BY <1>c DEF Shape, HouseInv, house
<1>5. ReceiverInv'
  BY <1>0, ReceiverUnchanged DEF Shape, Idle
<1>6. NothingReadUnset'
  BY DEF NothingReadUnset, work
<1> QED
  BY <1>1, <1>2, <1>3, <1>4, <1>5, <1>6

\* Regression::handleReceive: the share that arrives is one that was missing, so p
\* is still collecting.
LEMMA HandleReceiveStep ==
  ASSUME Inv, NEW p \in Dataowners, NEW q \in Dataowners, HandleReceive(p, q)
  PROVE  Inv'
<1> USE DEF HandleReceive, InvokePaired, CountDown, LastAwaited, Inv
<1> DEFINE T == Cross(p) \ sharedLists[p]
<1>c. /\ p # Dealer /\ p \in Parties /\ Dealer \in Parties
      /\ Dataowners \subseteq Parties
  BY CrossLemma DEF Parties
<1>0. /\ q \in T
      /\ Collecting(p)
  <2>1. q \in T
    BY DEF WireInv
  <2> QED
    BY <2>1 DEF OwnerPhase, Idle, Sorting, Zipping, Reducing, InBatch, Summed,
                Completed
<1>n. /\ Cardinality(T) \in Nat
      /\ Cardinality(T \ {q}) = Cardinality(T) - 1
      /\ Cardinality(T) - 1 = 0 <=> T = {q}
      /\ numPartiesAwaiting[p] = Cardinality(T)
      /\ sharedLists'[p] = sharedLists[p] \cup {q}
  <2>1. IsFiniteSet(T)
    BY CrossLemma
  <2>2. numPartiesAwaiting[p] = Cardinality(T)
    BY <1>0 DEF Collecting
  <2>3. sharedLists'[p] = sharedLists[p] \cup {q}
    BY DEF Shape
  <2> QED
    BY <1>0, <2>1, <2>2, <2>3, CountDownLemma
<1>1. CASE T = {q}
  <2>0. /\ Invoke(p, {}, "SISOSort", DealtPairs(p))
        /\ numPartiesAwaiting' =
             [numPartiesAwaiting EXCEPT ![p] = Cardinality(Cross(p))]
        /\ state' = [state EXCEPT ![p] = "awaitingSISOSort"]
    BY <1>1, <1>n
  <2>1. Shape'
    <3>1. declared' \in [Parties -> [PeerSets -> Seq(Kinds)]]
      <4>1. Declare(declared[p], "SISOSort", DealtPairs(p)) \in [PeerSets -> Seq(Kinds)]
        BY <1>c, DeclareType, KindsOfChildren DEF Shape
      <4> QED
        BY <2>0, <4>1 DEF Shape, Invoke
    <3>2. open' \in [Parties -> SUBSET ChildType]
      <4>1. Children("SISOSort", DealtPairs(p)) \subseteq ChildType
        BY PeerSetLemma, ChildrenType, KindsOfChildren
      <4> QED
        BY <2>0, <4>1, <1>c DEF Shape, Invoke
    <3>3. numPartiesAwaiting' \in [Dataowners -> Int]
      BY <2>0, CrossLemma DEF Shape
    <3>4. state' \in [Dataowners -> States]
      BY <2>0 DEF Shape, States
    <3> QED
      BY <3>1, <3>2, <3>3, <3>4 DEF Shape, house, receiver
  <2>2. ASSUME NEW x \in Dataowners PROVE OwnerPhase(x)'
    <3>1. CASE x # p
      BY <3>1, <2>0, <1>c, OwnerUnchanged DEF Shape, Invoke
    <3>2. CASE x = p
      <4>1. sharedLists'[p] = Cross(p)
        BY <1>0, <1>1, <1>n DEF Collecting
      <4>2. open'[p] = PatronOpen(p) \cup Sorts(p, Cross(p))
        BY <2>0, <1>0, <1>c, PairedStart DEF Shape, Collecting, Invoke
      <4>3. Cross(p) \ sortedLists'[p] = Cross(p) /\ sortedLists'[p] # Cross(p)
        BY <1>0, CrossLemma DEF Collecting
      <4>4. Sorting(p)'
        BY <4>1, <4>2, <4>3, <2>0, <1>0
        DEF Shape, Sorting, Collecting, PatronHas, PatronOpen
      <4> QED
        BY <3>2, <4>4 DEF OwnerPhase
    <3> QED
      BY <3>1, <3>2
  <2>3. WireInv'
    BY <2>0, <1>n DEF Shape, WireInv
  <2>4. HouseInv'
    BY <2>0, <1>c DEF Shape, HouseInv, house, Invoke
  <2>5. ReceiverInv'
    BY <2>0, <1>0, ReceiverUnchanged DEF Shape, Collecting
  <2>6. NothingReadUnset'
    BY DEF NothingReadUnset
  <2> QED
    BY <2>1, <2>2, <2>3, <2>4, <2>5, <2>6
<1>2. CASE T # {q}
  <2>0. /\ numPartiesAwaiting' = [numPartiesAwaiting EXCEPT ![p] = @ - 1]
        /\ UNCHANGED <<declared, open, state>>
    <3>1. /\ numPartiesAwaiting' = [numPartiesAwaiting EXCEPT ![p] = @ - 1]
          /\ Retire(p, {})
          /\ UNCHANGED state
      BY <1>2, <1>n
    <3>2. open[p] \ {} = open[p]
      OBVIOUS
    <3>3. open' = open
      BY <3>1, <3>2 DEF Retire, Shape
    <3> QED
      BY <3>1, <3>3 DEF Retire
  <2>1. Shape'
    BY <2>0 DEF Shape, house, receiver
  <2>2. ASSUME NEW x \in Dataowners PROVE OwnerPhase(x)'
    <3>1. CASE x # p
      BY <3>1, <2>0, OwnerUnchanged DEF Shape
    <3>2. CASE x = p
      <4>1. /\ Cross(p) \ sharedLists'[p] = T \ {q}
            /\ sharedLists'[p] \subseteq Cross(p) /\ sharedLists'[p] # Cross(p)
        BY <1>0, <1>2, <1>n DEF Collecting
      <4>2. numPartiesAwaiting'[p] = Cardinality(Cross(p) \ sharedLists'[p])
        BY <4>1, <2>0, <1>n DEF Shape
      <4>3. Collecting(p)'
        BY <4>1, <4>2, <2>0, <1>0 DEF Shape, Collecting, PatronHas, PatronOpen
      <4> QED
        BY <3>2, <4>3 DEF OwnerPhase
    <3> QED
      BY <3>1, <3>2
  <2>3. WireInv'
    BY <2>0, <1>n DEF Shape, WireInv
  <2>4. HouseInv'
    BY <2>0 DEF Shape, HouseInv, house
  <2>5. ReceiverInv'
    BY <2>0, ReceiverUnchanged
  <2>6. NothingReadUnset'
    BY DEF NothingReadUnset
  <2> QED
    BY <2>1, <2>2, <2>3, <2>4, <2>5, <2>6
<1> QED
  BY <1>1, <1>2

\* A sort completes before the randomness is there.
LEMMA SortBeforeRandomnessStep ==
  ASSUME Inv, NEW p \in Dataowners, NEW c \in open[p], SortBeforeRandomness(p, c),
         UNCHANGED <<sharedLists, wire, resultWire, house, receiver>>
  PROVE  Inv'
<1> USE DEF SortBeforeRandomness, Sorted, LastAwaited, Retire, Inv
<1> DEFINE T == Cross(p) \ sortedLists[p]
<1>c. p # Dealer /\ p \in Parties /\ Dataowners \subseteq Parties
  BY CrossLemma DEF Parties
<1>0. /\ Sorting(p)
      /\ c \in Sorts(p, T)
      /\ c # Patron
  <2>1. c # Patron
    BY DEF Patron, Child
  <2>2. Idle(p) \/ Collecting(p) \/ Sorting(p)
    BY PhaseFromState
  <2>3. Sorting(p)
    BY <2>1, <2>2 DEF Idle, Collecting, PatronOpen
  <2> QED
    BY <2>1, <2>3 DEF Sorting, PatronOpen
<1>1. PICK q \in T : /\ c.peers \ {p, Dealer} = {q}
                     /\ Sorts(p, T) \ {c} = Sorts(p, T \ {q})
  BY <1>0, SortsLemma
<1>2. /\ Cardinality(T) \in Nat
      /\ Cardinality(T \ {q}) = Cardinality(T) - 1
      /\ Cardinality(T) - 1 = 0 <=> T = {q}
      /\ numPartiesAwaiting[p] = Cardinality(T)
  <2>1. IsFiniteSet(T)
    BY CrossLemma
  <2>2. numPartiesAwaiting[p] = Cardinality(T)
    BY <1>0 DEF Sorting
  <2> QED
    BY <2>1, <2>2, CountDownLemma
<1>3. /\ sortedLists'[p] = sortedLists[p] \cup {q}
      /\ Cross(p) \ sortedLists'[p] = T \ {q}
      /\ sortedLists'[p] \subseteq Cross(p)
      /\ sortedLists'[p] = Cross(p) <=> T = {q}
  BY <1>0, <1>1 DEF Shape, Sorting
<1>4. Shape'
  <2>1. sortedLists' \in [Dataowners -> SUBSET Dataowners]
    BY <1>1, CrossLemma DEF Shape
  <2>2. open' \in [Parties -> SUBSET ChildType]
    BY <1>c DEF Shape
  <2>3. state' \in [Dataowners -> States]
    BY DEF Shape, States
  <2> QED
    BY <2>1, <2>2, <2>3 DEF Shape, house, receiver
<1>5. Sorting(p)'
  <2>1. open'[p] = PatronOpen(p)' \cup Sorts(p, T \ {q})
    BY <1>0, <1>1, <1>c DEF Shape, Sorting, PatronOpen
  <2>2. numPartiesAwaiting'[p] = Cardinality(T \ {q})
    BY <1>2 DEF Shape
  <2>3. state'[p] = IF sortedLists'[p] = Cross(p) THEN "awaitingRandomnessOnly"
                                                  ELSE "awaitingSISOSort"
    BY <1>0, <1>1, <1>2, <1>3 DEF Shape, Sorting
  <2> QED
    BY <1>0, <1>3, <2>1, <2>2, <2>3 DEF Sorting, PatronHas
<1>6. state[p] # "complete" /\ state'[p] # "idle"
  BY <1>0, <1>5 DEF Sorting
<1>7. OwnerPhase(p)'
  BY <1>5 DEF OwnerPhase
<1>8. NothingReadUnset'
  BY DEF NothingReadUnset
<1> QED
  BY <1>4, <1>6, <1>7, <1>8, CompletionFrame DEF Shape

\* A paired phase starts: one child of this kind for each partner, counted.
LEMMA PhaseStarts ==
  ASSUME Shape, NEW p \in Dataowners, NEW c, NEW kind \in Kinds, NEW s \in States,
         open[p] \ {c} = {}, InvokePaired(p, {c}, kind, Pairs(p), s)
  PROVE  /\ declared' \in [Parties -> [PeerSets -> Seq(Kinds)]]
         /\ open' \in [Parties -> SUBSET ChildType]
         /\ open'[p] = Children(kind, Pairs(p))
         /\ state' \in [Dataowners -> States]
         /\ state'[p] = s
         /\ numPartiesAwaiting' \in [Dataowners -> Int]
         /\ numPartiesAwaiting'[p] = Cardinality(Cross(p))
<1> USE DEF InvokePaired, Invoke
<1>c. p # Dealer /\ p \in Parties /\ Dataowners \subseteq Parties
  BY CrossLemma DEF Parties
<1>1. declared' \in [Parties -> [PeerSets -> Seq(Kinds)]]
  <2>1. Declare(declared[p], kind, Pairs(p)) \in [PeerSets -> Seq(Kinds)]
    BY <1>c, DeclareType DEF Shape
  <2> QED
    BY <2>1 DEF Shape
<1>2. /\ open' \in [Parties -> SUBSET ChildType]
      /\ open'[p] = Children(kind, Pairs(p))
  <2>1. Children(kind, Pairs(p)) \subseteq ChildType
    BY PeerSetLemma, ChildrenType
  <2> QED
    BY <2>1, <1>c DEF Shape
<1>3. state' \in [Dataowners -> States] /\ state'[p] = s
  BY DEF Shape
<1>4. /\ numPartiesAwaiting' \in [Dataowners -> Int]
      /\ numPartiesAwaiting'[p] = Cardinality(Cross(p))
  BY CrossLemma DEF Shape
<1> QED
  BY <1>1, <1>2, <1>3, <1>4

\* The zips start, from the patron's or from the last sort's completion.
LEMMA ZipsStart ==
  ASSUME Shape, NEW p \in Dataowners, NEW c, open[p] \ {c} = {},
         InvokeZipAdjacent(p, c, DealtRandomness),
         randomnessDone'[p] = TRUE,
         sharedLists'[p] = Cross(p), sortedLists'[p] = Cross(p),
         vectorZippedAdjacent'[p] = {}, startModulusPayloadVector'[p] = {}
  PROVE  /\ declared' \in [Parties -> [PeerSets -> Seq(Kinds)]]
         /\ open' \in [Parties -> SUBSET ChildType]
         /\ state' \in [Dataowners -> States]
         /\ numPartiesAwaiting' \in [Dataowners -> Int]
         /\ randomness' \in [Dataowners -> [DOMAIN DealtRandomness -> Int]]
         /\ Zipping(p)'
<1>0. /\ InvokePaired(p, {c}, "ZipAdjacent", Pairs(p), "awaitingZipAdjacent")
      /\ randomness' = [randomness EXCEPT ![p] = LeftByZips]
  BY DEF InvokeZipAdjacent, LeftByZips
<1>1. /\ declared' \in [Parties -> [PeerSets -> Seq(Kinds)]]
      /\ open' \in [Parties -> SUBSET ChildType]
      /\ open'[p] = Children("ZipAdjacent", Pairs(p))
      /\ state' \in [Dataowners -> States]
      /\ state'[p] = "awaitingZipAdjacent"
      /\ numPartiesAwaiting' \in [Dataowners -> Int]
      /\ numPartiesAwaiting'[p] = Cardinality(Cross(p))
  <2>1. "awaitingZipAdjacent" \in States
    BY DEF States
  <2> QED
    BY <1>0, <2>1, KindsOfChildren, PhaseStarts
<1>2. /\ randomness' \in [Dataowners -> [DOMAIN DealtRandomness -> Int]]
      /\ randomness'[p] = LeftByZips
  BY <1>0, LeftIsType DEF Shape
<1>3. /\ Cross(p) \ vectorZippedAdjacent'[p] = Cross(p)
      /\ vectorZippedAdjacent'[p] # Cross(p)
  BY CrossLemma
<1>4. open'[p] = Zips(p, Cross(p))
  BY <1>1, PairedStart
<1>5. Zipping(p)'
  BY <1>1, <1>2, <1>3, <1>4 DEF Zipping
<1> QED
  BY <1>1, <1>2, <1>5

\* The patron completes: the only child that can be of its kind.
LEMMA RandomnessReadyStep ==
  ASSUME Inv, NEW p \in Dataowners, NEW c \in open[p], RandomnessReady(p, c),
         UNCHANGED <<sharedLists, wire, resultWire, house, receiver>>
  PROVE  Inv'
<1> USE DEF RandomnessReady, Inv
<1>c. p # Dealer /\ p \in Parties /\ Dataowners \subseteq Parties
  BY CrossLemma DEF Parties
<1>0. /\ Collecting(p) \/ Sorting(p)
      /\ PatronOpen(p) = {Patron}
  BY PhaseFromState DEF Idle, PatronOpen
<1>1. c = Patron /\ \A T \in SUBSET Cross(p) : c \notin Sorts(p, T)
  <2>1. \A T \in SUBSET Cross(p) : c \notin Sorts(p, T)
    BY SortsLemma
  <2>2. Cross(p) \ sortedLists[p] \in SUBSET Cross(p)
    OBVIOUS
  <2> QED
    BY <2>1, <2>2, <1>0 DEF Collecting, Sorting
<1>u. NothingReadUnset'
  BY DEF NothingReadUnset
<1>2. CASE state[p] = "awaitingRandomnessOnly"
  <2>1. Sorting(p) /\ sortedLists[p] = Cross(p)
    BY <1>2, PhaseFromState DEF Sorting
  <2>2. open[p] \ {c} = {}
    <3>1. Cross(p) \ sortedLists[p] = {}
      BY <2>1
    <3> QED
      BY <3>1, <2>1, <1>0, <1>1, PairedStart DEF Sorting
  <2>3. InvokeZipAdjacent(p, c, DealtRandomness)
    BY <1>2
  <2>4. randomnessDone'[p] = TRUE
    BY DEF Shape
  <2>5. /\ declared' \in [Parties -> [PeerSets -> Seq(Kinds)]]
        /\ open' \in [Parties -> SUBSET ChildType]
        /\ state' \in [Dataowners -> States]
        /\ numPartiesAwaiting' \in [Dataowners -> Int]
        /\ randomness' \in [Dataowners -> [DOMAIN DealtRandomness -> Int]]
        /\ Zipping(p)'
    BY <2>1, <2>2, <2>3, <2>4, ZipsStart DEF Sorting
  <2>6. Shape'
    BY <2>5 DEF Shape, house, receiver
  <2>7. OwnerPhase(p)' /\ state'[p] # "idle"
    BY <2>5 DEF OwnerPhase, Zipping
  <2> QED
    BY <2>3, <2>6, <2>7, <1>2, <1>u, CompletionFrame DEF Shape, InvokeZipAdjacent,
        InvokePaired, Invoke
<1>3. CASE state[p] # "awaitingRandomnessOnly"
  <2>0. /\ randomness' = [randomness EXCEPT ![p] = DealtRandomness]
        /\ state' = [state EXCEPT ![p] = "awaitingSISOSort"]
        /\ Retire(p, {c})
        /\ UNCHANGED numPartiesAwaiting
        /\ randomnessDone'[p] = TRUE
        /\ randomness'[p] = DealtRandomness
    BY <1>3 DEF Shape
  <2>1. Shape'
    <3>1. DealtRandomness \in [DOMAIN DealtRandomness -> Int]
      BY LeftIsType
    <3>2. open' \in [Parties -> SUBSET ChildType]
      BY <2>0, <1>c DEF Shape, Retire
    <3>3. state' \in [Dataowners -> States]
      BY <2>0 DEF Shape, States
    <3> QED
      BY <2>0, <3>1, <3>2, <3>3 DEF Shape, Retire, house, receiver
  <2>2. ASSUME Collecting(p) PROVE OwnerPhase(p)'
    <3>1. open'[p] = {}
      BY <2>0, <2>2, <1>0, <1>1, <1>c DEF Shape, Collecting, Retire
    <3>2. Collecting(p)'
      BY <2>0, <2>2, <3>1 DEF Shape, Collecting, PatronHas, PatronOpen
    <3> QED
      BY <3>2 DEF OwnerPhase
  <2>3. ASSUME Sorting(p) PROVE OwnerPhase(p)'
    <3>1. open'[p] = Sorts(p, Cross(p) \ sortedLists[p])
      BY <2>0, <2>3, <1>0, <1>1, <1>c DEF Shape, Sorting, Retire
    <3>2. sortedLists[p] # Cross(p)
      BY <1>3, <2>3 DEF Sorting
    <3>3. Sorting(p)'
      BY <2>0, <2>3, <3>1, <3>2 DEF Shape, Sorting, PatronHas, PatronOpen
    <3> QED
      BY <3>3 DEF OwnerPhase
  <2>4. state[p] # "complete" /\ state'[p] # "idle"
    BY <1>0, <2>0 DEF Shape, Collecting, Sorting
  <2> QED
    BY <1>0, <1>u, <2>0, <2>1, <2>2, <2>3, <2>4, CompletionFrame DEF Shape, Retire
<1> QED
  BY <1>2, <1>3

\* A sort completes with the randomness there: with the last one the zips start.
LEMMA SISOSortDoneStep ==
  ASSUME Inv, NEW p \in Dataowners, NEW c \in open[p], SISOSortDone(p, c),
         UNCHANGED <<sharedLists, wire, resultWire, house, receiver>>
  PROVE  Inv'
<1> USE DEF SISOSortDone, Sorted, LastAwaited, CountDown, Inv
<1> DEFINE T == Cross(p) \ sortedLists[p]
<1>c. p # Dealer /\ p \in Parties /\ Dataowners \subseteq Parties
  BY CrossLemma DEF Parties
<1>0. /\ Sorting(p)
      /\ PatronOpen(p) = {}
      /\ open[p] = Sorts(p, T)
  <2>1. PatronOpen(p) = {}
    BY DEF PatronOpen
  <2>2. Sorting(p)
    BY <2>1, PhaseFromState DEF Collecting
  <2> QED
    BY <2>1, <2>2 DEF Sorting
<1>1. PICK q \in T : /\ c.peers \ {p, Dealer} = {q}
                     /\ Sorts(p, T) \ {c} = Sorts(p, T \ {q})
  BY <1>0, SortsLemma
<1>2. /\ Cardinality(T) \in Nat
      /\ Cardinality(T \ {q}) = Cardinality(T) - 1
      /\ Cardinality(T) - 1 = 0 <=> T = {q}
      /\ numPartiesAwaiting[p] = Cardinality(T)
  <2>1. IsFiniteSet(T)
    BY CrossLemma
  <2>2. numPartiesAwaiting[p] = Cardinality(T)
    BY <1>0 DEF Sorting
  <2> QED
    BY <2>1, <2>2, CountDownLemma
<1>3. /\ sortedLists'[p] = sortedLists[p] \cup {q}
      /\ Cross(p) \ sortedLists'[p] = T \ {q}
      /\ sortedLists'[p] \subseteq Cross(p)
      /\ sortedLists'[p] = Cross(p) <=> T = {q}
      /\ sortedLists' \in [Dataowners -> SUBSET Dataowners]
  <2>1. sortedLists'[p] = sortedLists[p] \cup {q}
    BY <1>1 DEF Shape
  <2>2. sortedLists' \in [Dataowners -> SUBSET Dataowners]
    BY <1>1, CrossLemma DEF Shape
  <2> QED
    BY <1>0, <2>1, <2>2 DEF Sorting
<1>u. NothingReadUnset'
  BY DEF NothingReadUnset
<1>4. CASE T = {q}
  <2>1. open[p] \ {c} = {}
    BY <1>0, <1>1, <1>4, PairedStart
  <2>2. InvokeZipAdjacent(p, c, DealtRandomness)
    BY <1>0, <1>2, <1>4 DEF Sorting, PatronHas
  <2>3. /\ declared' \in [Parties -> [PeerSets -> Seq(Kinds)]]
        /\ open' \in [Parties -> SUBSET ChildType]
        /\ state' \in [Dataowners -> States]
        /\ numPartiesAwaiting' \in [Dataowners -> Int]
        /\ randomness' \in [Dataowners -> [DOMAIN DealtRandomness -> Int]]
        /\ Zipping(p)'
    <3>1. /\ randomnessDone'[p] = TRUE
          /\ sharedLists'[p] = Cross(p) /\ sortedLists'[p] = Cross(p)
          /\ vectorZippedAdjacent'[p] = {} /\ startModulusPayloadVector'[p] = {}
      BY <1>0, <1>3, <1>4 DEF Sorting, Shape
    <3> QED
      BY <2>1, <2>2, <3>1, ZipsStart
  <2>4. Shape'
    BY <2>3, <1>3 DEF Shape, house, receiver
  <2>5. OwnerPhase(p)' /\ state'[p] # "idle"
    BY <2>3 DEF OwnerPhase, Zipping
  <2> QED
    BY <2>2, <2>4, <2>5, <1>u, CompletionFrame DEF Shape, InvokeZipAdjacent,
        InvokePaired, Invoke
<1>5. CASE T # {q}
  <2>0. /\ numPartiesAwaiting' = [numPartiesAwaiting EXCEPT ![p] = @ - 1]
        /\ Retire(p, {c})
        /\ UNCHANGED <<state, randomness>>
    BY <1>2, <1>5
  <2>1. Shape'
    BY <2>0, <1>3, <1>c DEF Shape, Retire, house, receiver
  <2>2. Sorting(p)'
    <3>1. open'[p] = PatronOpen(p)' \cup Sorts(p, T \ {q})
      BY <2>0, <1>0, <1>1, <1>c DEF Shape, Retire, PatronOpen
    <3>2. numPartiesAwaiting'[p] = Cardinality(T \ {q})
      BY <2>0, <1>2 DEF Shape
    <3> QED
      BY <1>0, <1>1, <1>3, <1>5, <2>0, <3>1, <3>2 DEF Sorting, PatronHas
  <2>3. OwnerPhase(p)' /\ state'[p] # "idle"
    BY <2>2 DEF OwnerPhase, Sorting
  <2> QED
    BY <2>0, <2>1, <2>3, <1>u, CompletionFrame DEF Shape, Retire
<1> QED
  BY <1>4, <1>5

\* A zip completes; with the last one the reductions start.
LEMMA ZipAdjacentDoneStep ==
  ASSUME Inv, NEW p \in Dataowners, NEW c \in open[p], ZipAdjacentDone(p, c),
         UNCHANGED <<sharedLists, wire, resultWire, house, receiver>>
  PROVE  Inv'
<1> USE DEF ZipAdjacentDone, LastAwaited, CountDown, Inv
<1> DEFINE T == Cross(p) \ vectorZippedAdjacent[p]
<1>c. p # Dealer /\ p \in Parties /\ Dataowners \subseteq Parties
  BY CrossLemma DEF Parties
<1>0. /\ Zipping(p)
      /\ open[p] = Zips(p, T)
  BY PhaseFromState DEF Zipping
<1>1. PICK q \in T : /\ c.peers \ {p} = {q}
                     /\ Zips(p, T) \ {c} = Zips(p, T \ {q})
  BY <1>0, ZipsLemma
<1>2. /\ Cardinality(T) \in Nat
      /\ Cardinality(T \ {q}) = Cardinality(T) - 1
      /\ Cardinality(T) - 1 = 0 <=> T = {q}
      /\ numPartiesAwaiting[p] = Cardinality(T)
  <2>1. IsFiniteSet(T)
    BY CrossLemma
  <2>2. numPartiesAwaiting[p] = Cardinality(T)
    BY <1>0 DEF Zipping
  <2> QED
    BY <2>1, <2>2, CountDownLemma
<1>3. /\ vectorZippedAdjacent'[p] = vectorZippedAdjacent[p] \cup {q}
      /\ Cross(p) \ vectorZippedAdjacent'[p] = T \ {q}
      /\ vectorZippedAdjacent'[p] \subseteq Cross(p)
      /\ vectorZippedAdjacent'[p] = Cross(p) <=> T = {q}
      /\ vectorZippedAdjacent' \in [Dataowners -> SUBSET Dataowners]
  <2>1. vectorZippedAdjacent'[p] = vectorZippedAdjacent[p] \cup {q}
    BY <1>1 DEF Shape
  <2>2. vectorZippedAdjacent' \in [Dataowners -> SUBSET Dataowners]
    BY <1>1, CrossLemma DEF Shape
  <2> QED
    BY <1>0, <2>1, <2>2 DEF Zipping
<1>u. NothingReadUnset'
  BY DEF NothingReadUnset
<1>4. CASE T = {q}
  <2>0. /\ InvokePaired(p, {c}, "ZipReduce", Pairs(p), "awaitingZipReduce")
        /\ randomness' = [randomness EXCEPT ![p] = LeftByReduces]
    BY <1>0, <1>2, <1>4 DEF Zipping, LeftByReduces
  <2>1. /\ declared' \in [Parties -> [PeerSets -> Seq(Kinds)]]
        /\ open' \in [Parties -> SUBSET ChildType]
        /\ open'[p] = Children("ZipReduce", Pairs(p))
        /\ state' \in [Dataowners -> States]
        /\ state'[p] = "awaitingZipReduce"
        /\ numPartiesAwaiting' \in [Dataowners -> Int]
        /\ numPartiesAwaiting'[p] = Cardinality(Cross(p))
    <3>1. "awaitingZipReduce" \in States
      BY DEF States
    <3>2. open[p] \ {c} = {}
      BY <1>0, <1>1, <1>4, PairedStart
    <3>3. Shape
      OBVIOUS
    <3> HIDE DEF Inv, ZipAdjacentDone
    <3> QED
      BY <2>0, <3>1, <3>2, <3>3, KindsOfChildren, PhaseStarts
  <2>2. /\ randomness' \in [Dataowners -> [DOMAIN DealtRandomness -> Int]]
        /\ randomness'[p] = LeftByReduces
    BY <2>0, LeftIsType DEF Shape
  <2>3. Shape'
    BY <1>3, <2>1, <2>2 DEF Shape, house, receiver
  <2>4. Reducing(p)'
    <3>1. open'[p] = Reduces(p, Cross(p))
      BY <2>1, PairedStart
    <3>2. startModulusPayloadVector'[p] = {} /\ {} # Cross(p)
      BY <1>0, CrossLemma DEF Zipping
    <3>3. Cross(p) \ startModulusPayloadVector'[p] = Cross(p)
      BY <3>2
    <3>4. /\ randomnessDone'[p]
          /\ sharedLists'[p] = Cross(p) /\ sortedLists'[p] = Cross(p)
          /\ vectorZippedAdjacent'[p] = Cross(p)
      BY <1>0, <1>3, <1>4 DEF Zipping
    <3> QED
      BY <2>1, <2>2, <3>1, <3>2, <3>3, <3>4 DEF Reducing
  <2>5. OwnerPhase(p)' /\ state'[p] # "idle"
    BY <2>4 DEF OwnerPhase, Reducing
  <2> QED
    BY <2>0, <2>3, <2>5, <1>u, CompletionFrame DEF Shape, InvokePaired, Invoke
<1>5. CASE T # {q}
  <2>0. /\ Retire(p, {c})
        /\ numPartiesAwaiting' = [numPartiesAwaiting EXCEPT ![p] = @ - 1]
        /\ UNCHANGED <<randomness, state>>
    BY <1>2, <1>5
  <2>1. Shape'
    BY <2>0, <1>3, <1>c DEF Shape, Retire, house, receiver
  <2>2. Zipping(p)'
    <3>1. open'[p] = Zips(p, T \ {q})
      BY <2>0, <1>0, <1>1, <1>c DEF Shape, Retire
    <3>2. numPartiesAwaiting'[p] = Cardinality(T \ {q})
      BY <2>0, <1>2 DEF Shape
    <3> QED
      BY <1>0, <1>3, <1>5, <2>0, <3>1, <3>2 DEF Zipping
  <2>3. OwnerPhase(p)' /\ state'[p] # "idle"
    BY <2>2 DEF OwnerPhase, Zipping
  <2> QED
    BY <2>0, <2>1, <2>3, <1>u, CompletionFrame DEF Shape, Retire
<1> QED
  BY <1>4, <1>5

\* A batch is set up: with the shares it reads there, nothing unset is read, and what
\* is left in the dispensers is what its predecessors and it leave.
LEMMA BatchStarts ==
  ASSUME Shape, NothingReadUnset, NEW p \in Dataowners, NEW c, NEW k \in 1 .. 20,
         NEW have, open[p] \ {c} = {}, EnterPhase(p, c, k, have),
         Phases[k].reads \subseteq have,
         Held[k] \subseteq (have \ Phases[k].drops) \cup Phases[k].sets,
         Draw(randomness[p], Phases[k].takes) = LeftByBatch(k),
         Summed(p)'
  PROVE  /\ declared' \in [Parties -> [PeerSets -> Seq(Kinds)]]
         /\ open' \in [Parties -> SUBSET ChildType]
         /\ state' \in [Dataowners -> States]
         /\ randomness' \in [Dataowners -> [DOMAIN DealtRandomness -> Int]]
         /\ DOMAIN shares' = Dataowners /\ DOMAIN unset' = Dataowners
         /\ NothingReadUnset'
         /\ OwnerPhase(p)'
         /\ state'[p] = Phases[k].name
<1> USE DEF EnterPhase, Invoke
<1> DEFINE name == Phases[k].name
<1>c. p # Dealer /\ p \in Parties /\ Dataowners \subseteq Parties
  BY CrossLemma DEF Parties
<1>n. name \in Kinds /\ name \in States
  BY PhaseStates
<1> HIDE DEF name
<1>0. /\ declared' = [declared EXCEPT ![p] = Declare(@, name, {Dataowners})]
      /\ open' = [open EXCEPT ![p] = (@ \ {c}) \cup Children(name, {Dataowners})]
      /\ state' = [state EXCEPT ![p] = name]
  BY DEF name
<1>1. declared' \in [Parties -> [PeerSets -> Seq(Kinds)]]
  <2>1. Declare(declared[p], name, {Dataowners}) \in [PeerSets -> Seq(Kinds)]
    BY <1>c, <1>n, DeclareType DEF Shape
  <2> QED
    BY <2>1, <1>0 DEF Shape
<1>2. /\ open' \in [Parties -> SUBSET ChildType]
      /\ open'[p] = {Child(name, Dataowners)}
  <2>1. Children(name, {Dataowners}) \subseteq ChildType
    BY <1>n, PeerSetLemma, ChildrenType
  <2>2. Children(name, {Dataowners}) = {Child(name, Dataowners)}
    BY DEF Children
  <2> QED
    BY <2>1, <2>2, <1>0, <1>c DEF Shape
<1>3. state' \in [Dataowners -> States] /\ state'[p] = name
  BY <1>0, <1>n DEF Shape
<1>4. /\ randomness' \in [Dataowners -> [DOMAIN DealtRandomness -> Int]]
      /\ randomness'[p] = LeftByBatch(k)
  BY LeftIsType DEF Shape
<1>5. /\ DOMAIN shares' = Dataowners /\ DOMAIN unset' = Dataowners
      /\ Held[k] \subseteq shares'[p]
  BY DEF Shape
<1>6. NothingReadUnset'
  <2>1. Phases[k].reads \ have = {}
    OBVIOUS
  <2> QED
    BY <2>1 DEF Shape, NothingReadUnset
<1>7. InBatch(p, k)'
  BY <1>2, <1>3, <1>4, <1>5 DEF InBatch, name
<1>8. OwnerPhase(p)'
  BY <1>7, PhasesLen DEF OwnerPhase
<1> QED
  BY <1>1, <1>2, <1>3, <1>4, <1>5, <1>6, <1>8 DEF name

\* A reduction completes; with the last one everything is summed and the first of the
\* batches starts.
LEMMA ZipReduceDoneStep ==
  ASSUME Inv, NEW p \in Dataowners, NEW c \in open[p], ZipReduceDone(p, c),
         UNCHANGED <<sharedLists, wire, resultWire, house, receiver>>
  PROVE  Inv'
<1> USE DEF ZipReduceDone, LastAwaited, CountDown, Inv
<1> DEFINE T == Cross(p) \ startModulusPayloadVector[p]
<1>c. p # Dealer /\ p \in Parties /\ Dataowners \subseteq Parties
  BY CrossLemma DEF Parties
<1>0. /\ Reducing(p)
      /\ open[p] = Reduces(p, T)
  BY PhaseFromState DEF Reducing
<1>1. PICK q \in T : /\ c.peers \ {p} = {q}
                     /\ Reduces(p, T) \ {c} = Reduces(p, T \ {q})
  BY <1>0, ReducesLemma
<1>2. /\ Cardinality(T) \in Nat
      /\ Cardinality(T \ {q}) = Cardinality(T) - 1
      /\ Cardinality(T) - 1 = 0 <=> T = {q}
      /\ numPartiesAwaiting[p] = Cardinality(T)
  <2>1. IsFiniteSet(T)
    BY CrossLemma
  <2>2. numPartiesAwaiting[p] = Cardinality(T)
    BY <1>0 DEF Reducing
  <2> QED
    BY <2>1, <2>2, CountDownLemma
<1>3. /\ startModulusPayloadVector'[p] = startModulusPayloadVector[p] \cup {q}
      /\ Cross(p) \ startModulusPayloadVector'[p] = T \ {q}
      /\ startModulusPayloadVector'[p] \subseteq Cross(p)
      /\ startModulusPayloadVector'[p] = Cross(p) <=> T = {q}
      /\ startModulusPayloadVector' \in [Dataowners -> SUBSET Dataowners]
  <2>1. startModulusPayloadVector'[p] = startModulusPayloadVector[p] \cup {q}
    BY <1>1 DEF Shape
  <2>2. startModulusPayloadVector' \in [Dataowners -> SUBSET Dataowners]
    BY <1>1, CrossLemma DEF Shape
  <2> QED
    BY <1>0, <2>1, <2>2 DEF Reducing
<1>4. CASE T = {q}
  <2>0. /\ EnterPhase(p, c, 1, shares[p])
        /\ numPartiesAwaiting' = [numPartiesAwaiting EXCEPT ![p] = @ - 1]
    BY <1>2, <1>4
  <2>1. Summed(p)'
    <3>1. /\ randomnessDone'[p]
          /\ sharedLists'[p] = Cross(p) /\ sortedLists'[p] = Cross(p)
          /\ vectorZippedAdjacent'[p] = Cross(p)
      BY <1>0 DEF Reducing
    <3>2. numPartiesAwaiting'[p] = 0
      BY <2>0, <1>2, <1>4 DEF Shape
    <3> QED
      BY <3>1, <3>2, <1>3, <1>4 DEF Summed
  <2>2. /\ open[p] \ {c} = {}
        /\ Phases[1].reads \subseteq shares[p]
        /\ Held[1] \subseteq (shares[p] \ Phases[1].drops) \cup Phases[1].sets
        /\ Draw(randomness[p], Phases[1].takes) = LeftByBatch(1)
    <3>1. open[p] \ {c} = {}
      BY <1>0, <1>1, <1>4, PairedStart
    <3>2. Draw(randomness[p], Phases[1].takes) = LeftByBatch(1)
      BY <1>0, NextLeft DEF Reducing
    <3> QED
      BY <3>1, <3>2, SharesEnds
  <2>3. /\ declared' \in [Parties -> [PeerSets -> Seq(Kinds)]]
        /\ open' \in [Parties -> SUBSET ChildType]
        /\ state' \in [Dataowners -> States]
        /\ randomness' \in [Dataowners -> [DOMAIN DealtRandomness -> Int]]
        /\ DOMAIN shares' = Dataowners /\ DOMAIN unset' = Dataowners
        /\ NothingReadUnset'
        /\ OwnerPhase(p)'
        /\ state'[p] = Phases[1].name
    <3>1. Shape /\ NothingReadUnset
      OBVIOUS
    <3>2. 1 \in 1 .. 20
      OBVIOUS
    <3> HIDE DEF Inv, ZipReduceDone, T
    <3> QED
      BY <2>0, <2>1, <2>2, <3>1, <3>2, BatchStarts
  <2>4. Shape'
    <3>1. UNCHANGED <<randomnessDone, sortedLists, vectorZippedAdjacent, sharedLists,
                      wire, resultWire, house, receiver>>
      OBVIOUS
    <3>2. Shape /\ numPartiesAwaiting' \in [Dataowners -> Int]
      BY <2>0 DEF Shape
    <3> HIDE DEF Inv, ZipReduceDone, T
    <3> QED
      BY <2>3, <1>3, <3>1, <3>2 DEF Shape, house, receiver
  <2>5. state'[p] # "idle"
    <3>1. 1 \in 1 .. 20 /\ state'[p] = Phases[1].name
      BY <2>3
    <3> HIDE DEF Inv, ZipReduceDone, T
    <3> QED
      BY <3>1, PhaseStates
  <2> QED
    BY <2>0, <2>3, <2>4, <2>5, CompletionFrame DEF Shape, EnterPhase, Invoke
<1>5. CASE T # {q}
  <2>0. /\ Retire(p, {c})
        /\ numPartiesAwaiting' = [numPartiesAwaiting EXCEPT ![p] = @ - 1]
        /\ UNCHANGED <<randomness, shares, unset, state>>
    BY <1>2, <1>5
  <2>1. Shape'
    BY <2>0, <1>3, <1>c DEF Shape, Retire, house, receiver
  <2>2. Reducing(p)'
    <3>1. open'[p] = Reduces(p, T \ {q})
      BY <2>0, <1>0, <1>1, <1>c DEF Shape, Retire
    <3>2. numPartiesAwaiting'[p] = Cardinality(T \ {q})
      BY <2>0, <1>2 DEF Shape
    <3> QED
      BY <1>0, <1>3, <1>5, <2>0, <3>1, <3>2 DEF Reducing
  <2>3. OwnerPhase(p)' /\ state'[p] # "idle"
    BY <2>2 DEF OwnerPhase, Reducing
  <2>4. NothingReadUnset'
    BY <2>0 DEF NothingReadUnset
  <2> QED
    BY <2>0, <2>1, <2>3, <2>4, CompletionFrame DEF Shape, Retire
<1> QED
  BY <1>4, <1>5

\* A batch completes and the next starts.
LEMMA BatchDoneStep ==
  ASSUME Inv, NEW p \in Dataowners, NEW c \in open[p], BatchDone(p, c),
         UNCHANGED <<sharedLists, wire, resultWire, house, receiver>>
  PROVE  Inv'
<1>c. p # Dealer /\ p \in Parties /\ Dataowners \subseteq Parties
  BY CrossLemma DEF Parties
<1>s. Shape /\ NothingReadUnset /\ OwnerPhase(p)
  BY DEF Inv
<1>0. PICK k \in 1 .. 19 :
        /\ state[p] = Phases[k].name
        /\ EnterPhase(p, c, k + 1, shares[p] \cup Phases[k].yields)
  <2>1. 1 .. Len(Phases) - 1 = 1 .. 19
    BY PhasesLen
  <2>2. \E k \in 1 .. Len(Phases) - 1 :
          /\ state[p] = Phases[k].name
          /\ EnterPhase(p, c, k + 1, shares[p] \cup Phases[k].yields)
    BY DEF BatchDone
  <2> QED
    BY <2>1, <2>2
<1>1. InBatch(p, k)
  BY <1>s, <1>0, PhaseFromState
<1>2. Summed(p)'
  BY <1>1 DEF InBatch, Summed, BatchDone
<1>3. open[p] \ {c} = {}
  BY <1>1 DEF InBatch
<1>4. /\ Phases[k + 1].reads \subseteq shares[p] \cup Phases[k].yields
      /\ Held[k + 1] \subseteq
           ((shares[p] \cup Phases[k].yields) \ Phases[k + 1].drops)
             \cup Phases[k + 1].sets
  <2>1. Held[k] \subseteq shares[p]
    BY <1>1 DEF InBatch
  <2> QED
    BY <2>1, SharesFlow
<1>5. Draw(randomness[p], Phases[k + 1].takes) = LeftByBatch(k + 1)
  BY <1>1, NextLeft DEF InBatch
<1>6. /\ declared' \in [Parties -> [PeerSets -> Seq(Kinds)]]
      /\ open' \in [Parties -> SUBSET ChildType]
      /\ state' \in [Dataowners -> States]
      /\ randomness' \in [Dataowners -> [DOMAIN DealtRandomness -> Int]]
      /\ DOMAIN shares' = Dataowners /\ DOMAIN unset' = Dataowners
      /\ NothingReadUnset'
      /\ OwnerPhase(p)'
      /\ state'[p] = Phases[k + 1].name
  <2>1. k + 1 \in 1 .. 20
    OBVIOUS
  <2> QED
    BY <1>s, <1>0, <1>2, <1>3, <1>4, <1>5, <2>1, BatchStarts
<1>7. Shape'
  BY <1>s, <1>6 DEF Shape, BatchDone, house, receiver
<1>8. state[p] # "complete" /\ state'[p] # "idle"
  <2>1. k \in 1 .. 20 /\ k + 1 \in 1 .. 20
    OBVIOUS
  <2> QED
    BY <1>0, <1>6, <2>1, PhaseStates
<1>9. /\ \A x \in Parties \ {p} : open'[x] = open[x]
      /\ \A x \in Dataowners \ {p} :
           /\ state'[x] = state[x]
           /\ numPartiesAwaiting'[x] = numPartiesAwaiting[x]
           /\ randomnessDone'[x] = randomnessDone[x]
           /\ sortedLists'[x] = sortedLists[x]
           /\ vectorZippedAdjacent'[x] = vectorZippedAdjacent[x]
           /\ startModulusPayloadVector'[x] = startModulusPayloadVector[x]
           /\ randomness'[x] = randomness[x]
           /\ shares'[x] = shares[x]
  BY <1>s, <1>0 DEF Shape, EnterPhase, Invoke, BatchDone
<1> QED
  BY <1>6, <1>7, <1>8, <1>9, CompletionFrame

\* Regression::handleComplete's last case: the shares of p leave for the recipients,
\* who have heard nothing of p before.
LEMMA BatchedLookupDoneStep ==
  ASSUME Inv, NEW p \in Dataowners, NEW c \in open[p], BatchedLookupDone(p, c)
  PROVE  Inv'
<1> USE DEF BatchedLookupDone, Retire, Inv
<1>c. /\ p # Dealer /\ p \in Parties /\ Dealer \in Parties
      /\ Dataowners \subseteq Parties
  BY CrossLemma DEF Parties
<1>0. /\ InBatch(p, 20) /\ open[p] \ {c} = {}
      /\ startModulusPayloadVector[p] = Cross(p)
      /\ state[p] # "complete"
  <2>1. InBatch(p, 20) /\ state[p] # "complete"
    <3>1. 20 \in 1 .. 20 /\ state[p] = Phases[20].name /\ OwnerPhase(p)
      BY PhasesLen
    <3> HIDE DEF Inv, BatchedLookupDone
    <3> QED
      BY <3>1, PhaseFromState, PhaseStates
  <2> QED
    BY <2>1 DEF InBatch, Summed
<1>1. Shape'
  <2>1. open' \in [Parties -> SUBSET ChildType]
    BY <1>c DEF Shape
  <2>2. resultWire' \subseteq ResultMsg
    BY <1>0, CrossLemma DEF Shape, ResultMsg
  <2>3. state' \in [Dataowners -> States]
    BY DEF Shape, States
  <2> QED
    BY <2>1, <2>2, <2>3 DEF Shape, house, receiver
<1>2. ASSUME NEW x \in Dataowners PROVE OwnerPhase(x)'
  <2>1. CASE x # p
    BY <2>1, <1>c, OwnerUnchanged DEF Shape
  <2>2. CASE x = p
    <3>1. Completed(p)'
      BY <1>0, <1>c, PhasesLen DEF Shape, InBatch, Completed, Summed
    <3> QED
      BY <2>2, <3>1 DEF OwnerPhase
  <2> QED
    BY <2>1, <2>2
<1>3. WireInv'
  <2>1. \A x \in Dataowners : state[x] # "idle" => state'[x] # "idle"
    BY DEF Shape
  <2> QED
    BY <2>1 DEF Shape, WireInv
<1>4. HouseInv'
  BY <1>c DEF Shape, HouseInv, house
<1>5. ReceiverInv'
  <2>1. \A x \in Dataowners : state[x] = "complete" => state'[x] = "complete"
    BY DEF Shape
  <2>2. state'[p] = "complete"
    BY DEF Shape
  <2>3. \A r : Heard(r)' = Heard(r)
    BY DEF Heard, receiver
  <2>4. \A r \in Recipients : p \notin Heard(r)
    BY <1>0 DEF ReceiverInv, Heard
  <2>5. ASSUME NEW m \in resultWire'
        PROVE  /\ state'[m.from] = "complete"
               /\ m.share = Cross(m.from)
               /\ m.from \notin Heard(m.to)'
    <3>1. CASE m \in resultWire
      BY <3>1, <2>1, <2>3 DEF ReceiverInv, Shape, ResultMsg
    <3>2. CASE m \notin resultWire
      <4>1. PICK r \in Recipients : m = [from |-> p, to |-> r, share |-> startModulusPayloadVector[p]]
        BY <3>2
      <4> QED
        BY <4>1, <1>0, <2>2, <2>3, <2>4
    <3> QED
      BY <3>1, <3>2
  <2>6. ASSUME NEW r \in Recipients
        PROVE  \A x, y \in Dataowners :
                 <<x, y>> \in results'[r] => y \in Cross(x) /\ state'[x] = "complete"
    BY <2>1 DEF ReceiverInv, receiver
  <2>7. ASSUME NEW r \in Recipients
        PROVE  /\ \A x \in Heard(r)' : \A y \in Cross(x) : <<x, y>> \in results'[r]
               /\ receiverState'[r] = "idle" => results'[r] = {} /\ numDataowners'[r] = 0
               /\ receiverState'[r] # "idle" =>
                    numDataowners'[r] = Cardinality(Dataowners \ Heard(r)')
               /\ receiverState'[r] = "complete" => Heard(r)' = Dataowners
    BY <2>3 DEF ReceiverInv, receiver
  <2> QED
    BY <2>5, <2>6, <2>7 DEF ReceiverInv
<1>6. NothingReadUnset'
  <2>1. Held[20] \subseteq shares[p]
    BY <1>0 DEF InBatch
  <2>2. shares'[p] = shares[p] \cup Phases[20].yields
    BY PhasesLen DEF Shape
  <2>3. Sent \ shares'[p] = {}
    BY <2>1, <2>2, SharesEnds
  <2>4. unset' = [unset EXCEPT ![p] = @ \cup {}]
    BY <2>3
  <2> QED
    BY <2>4 DEF Shape, NothingReadUnset
<1> QED
  BY <1>1, <1>2, <1>3, <1>4, <1>5, <1>6

\* RegressionRandomnessHouse::init: it counts exactly the houses it invokes.
LEMMA HouseInitStep ==
  ASSUME Inv, HouseInit
  PROVE  Inv'
<1> USE DEF HouseInit, Inv
<1> DEFINE B == Children("Randomness", {Parties})
           S == Children("SISOSort", AllDealtPairs)
<1>c. /\ Dealer \in Parties /\ Dataowners \subseteq Parties
      /\ \A p \in Dataowners : p # Dealer
  BY PartiesAssumption DEF Parties
<1>1. IsFiniteSet(AllDealtPairs)
  BY DealtPairsFinite
<1>2. /\ IsFiniteSet(B \cup S)
      /\ Cardinality(B \cup S) = NumHouses
      /\ NumHouses \in Nat
      /\ B # {}
  <2>1. B = {Patron}
    BY DEF Children, Patron
  <2>2. Patron \notin S
    BY DEF Children, Child, Patron
  <2>3. /\ IsFiniteSet(S)
        /\ Cardinality(S) = Cardinality(AllDealtPairs)
        /\ Cardinality(AllDealtPairs) \in Nat
    BY <1>1, ChildrenCount, FS_CardinalityType
  <2>4. /\ IsFiniteSet(S \cup {Patron})
        /\ Cardinality(S \cup {Patron}) = Cardinality(S) + 1
    BY <2>2, <2>3, FS_AddElement
  <2>5. B \cup S = S \cup {Patron}
    BY <2>1
  <2>6. NumHouses = Cardinality(S) + 1 /\ NumHouses \in Nat
    BY <2>3 DEF NumHouses
  <2> HIDE DEF B, S
  <2> QED
    BY <2>1, <2>4, <2>5, <2>6
<1>3. Shape'
  <2>1. declared' \in [Parties -> [PeerSets -> Seq(Kinds)]]
    <3>1. NoStream \in [PeerSets -> Seq(Kinds)]
      BY DEF NoStream
    <3>2. Declare(NoStream, "Randomness", {Parties}) \in [PeerSets -> Seq(Kinds)]
      BY <3>1, DeclareType, KindsOfChildren
    <3>3. HouseStreams \in [PeerSets -> Seq(Kinds)]
      BY <3>2, DeclareType, KindsOfChildren DEF HouseStreams
    <3> QED
      BY <3>3 DEF Shape
  <2>2. open' \in [Parties -> SUBSET ChildType]
    <3>1. B \subseteq ChildType
      BY PeerSetLemma, ChildrenType, KindsOfChildren
    <3>2. S \subseteq ChildType
      BY PeerSetLemma, ChildrenType, KindsOfChildren
    <3> QED
      BY <3>1, <3>2, <1>c DEF Shape
  <2>3. houseState' \in RunState
    BY DEF RunState
  <2> QED
    BY <2>1, <2>2, <2>3 DEF Shape, owner, work, receiver
<1>4. ASSUME NEW x \in Dataowners PROVE OwnerPhase(x)'
  BY <1>c, OwnerUnchanged DEF Shape, owner, work
<1>5. WireInv'
  BY DEF WireInv, owner, work
<1>6. HouseInv'
  <2>1. open'[Dealer] = B \cup S
    BY <1>c DEF Shape
  <2> QED
    BY <2>1, <1>2 DEF HouseInv
<1>7. ReceiverInv'
  BY ReceiverUnchanged DEF owner, work
<1>u. NothingReadUnset'
  BY DEF NothingReadUnset, owner, work
<1> QED
  BY <1>3, <1>4, <1>5, <1>6, <1>7, <1>u

\* A house of the dealer completes.
LEMMA HouseHandleCompleteStep ==
  ASSUME Inv, NEW c \in open[Dealer], HouseHandleComplete(c)
  PROVE  Inv'
<1> USE DEF HouseHandleComplete, Retire, Inv
<1>c. /\ Dealer \in Parties /\ Dataowners \subseteq Parties
      /\ \A p \in Dataowners : p # Dealer
  BY PartiesAssumption DEF Parties
<1>1. /\ houseState = "running"
      /\ IsFiniteSet(open[Dealer])
      /\ numDealersRemaining = Cardinality(open[Dealer])
  BY DEF HouseInv, Shape, RunState
<1>2. /\ IsFiniteSet(open[Dealer] \ {c})
      /\ Cardinality(open[Dealer] \ {c}) = Cardinality(open[Dealer]) - 1
      /\ Cardinality(open[Dealer]) - 1 = 0 <=> open[Dealer] = {c}
  BY <1>1, CountDownLemma
<1>3. Shape'
  BY <1>c DEF Shape, RunState, owner, work, receiver
<1>4. ASSUME NEW x \in Dataowners PROVE OwnerPhase(x)'
  BY <1>c, OwnerUnchanged DEF Shape, owner, work
<1>5. WireInv'
  BY DEF WireInv, owner, work
<1>6. HouseInv'
  <2>1. open'[Dealer] = open[Dealer] \ {c}
    BY <1>c DEF Shape
  <2> QED
    BY <2>1, <1>1, <1>2 DEF HouseInv
<1>7. ReceiverInv'
  BY ReceiverUnchanged DEF owner, work
<1>u. NothingReadUnset'
  BY DEF NothingReadUnset, owner, work
<1> QED
  BY <1>3, <1>4, <1>5, <1>6, <1>7, <1>u

\* RegressionReceiver::init.
LEMMA ReceiverInitStep ==
  ASSUME Inv, NEW r \in Recipients, ReceiverInit(r)
  PROVE  Inv'
<1> USE DEF ReceiverInit, Inv
<1>1. Cardinality(Dataowners) \in Nat
  BY PartiesAssumption, FS_CardinalityType
<1>2. Shape'
  BY <1>1 DEF Shape, RunState, owner, work, house
<1>3. ASSUME NEW x \in Dataowners PROVE OwnerPhase(x)'
  BY OwnerUnchanged DEF owner, work
<1>4. WireInv'
  BY DEF WireInv, owner, work
<1>5. HouseInv'
  BY DEF HouseInv, house
<1>6. ReceiverInv'
  <2>1. \A s : Heard(s)' = Heard(s)
    BY DEF Heard
  <2>2. Heard(r) = {}
    <3>1. results[r] = {}
      BY DEF ReceiverInv
    <3> QED
      BY <3>1 DEF Heard
  <2>3. Dataowners \ Heard(r) = Dataowners
    BY <2>2
  <2>4. ASSUME NEW s \in Recipients
        PROVE  /\ receiverState'[s] = "idle" => results'[s] = {} /\ numDataowners'[s] = 0
               /\ receiverState'[s] # "idle" =>
                    numDataowners'[s] = Cardinality(Dataowners \ Heard(s)')
               /\ receiverState'[s] = "complete" => Heard(s)' = Dataowners
    <3>1. CASE s = r
      BY <3>1, <2>1, <2>3 DEF Shape
    <3>2. CASE s # r
      <4>1. /\ receiverState'[s] = receiverState[s]
            /\ numDataowners'[s] = numDataowners[s]
            /\ results'[s] = results[s]
        BY <3>2 DEF Shape
      <4> QED
        BY <4>1, <2>1 DEF ReceiverInv
    <3> QED
      BY <3>1, <3>2
  <2> QED
    BY <2>1, <2>4 DEF ReceiverInv, owner, work
<1>u. NothingReadUnset'
  BY DEF NothingReadUnset, owner, work
<1> QED
  BY <1>2, <1>3, <1>4, <1>5, <1>6, <1>u

\* RegressionReceiver::handleReceive: a share is of a dataowner not heard before, and
\* the count is of those not heard.
LEMMA ReceiverHandleReceiveStep ==
  ASSUME Inv, NEW r \in Recipients, NEW m \in resultWire, ReceiverHandleReceive(r, m)
  PROVE  Inv'
<1> USE DEF ReceiverHandleReceive, Inv
<1> DEFINE f == m.from
           T == Dataowners \ Heard(r)
<1>0. /\ f \in Dataowners /\ m.to = r
      /\ state[f] = "complete"
      /\ m.share = Cross(f)
      /\ f \notin Heard(r)
  BY DEF Shape, ReceiverInv, ResultMsg
<1>1. /\ results'[r] = results[r] \cup {<<f, q>> : q \in Cross(f)}
      /\ \A s \in Recipients \ {r} : results'[s] = results[s]
  BY <1>0 DEF Shape
<1>2. /\ Heard(r)' = Heard(r) \cup {f}
      /\ \A s \in Recipients \ {r} : Heard(s)' = Heard(s)
  <2>1. \A s \in Recipients \ {r} : Heard(s)' = Heard(s)
    BY <1>1 DEF Heard
  <2>2. PICK q \in Dataowners : q \in Cross(f)
    BY <1>0, CrossLemma
  <2>3. <<f, q>> \in results'[r]
    BY <1>1, <2>2
  <2>4. ASSUME NEW x \in Dataowners
        PROVE  (\E y \in Dataowners : <<x, y>> \in results'[r])
                 <=> x = f \/ \E y \in Dataowners : <<x, y>> \in results[r]
    BY <1>1, <2>2, <2>3
  <2>5. Heard(r)' = Heard(r) \cup {f}
    BY <1>0, <2>4 DEF Heard
  <2> QED
    BY <2>1, <2>5
<1>3. /\ numDataowners[r] = Cardinality(T)
      /\ Cardinality(T) \in Nat
      /\ Cardinality(T \ {f}) = Cardinality(T) - 1
      /\ Cardinality(T) - 1 = 0 <=> T = {f}
      /\ Dataowners \ Heard(r)' = T \ {f}
      /\ f \in T
  <2>1. IsFiniteSet(T)
    BY PartiesAssumption, FS_Subset
  <2>2. f \in T /\ numDataowners[r] = Cardinality(T)
    BY <1>0 DEF ReceiverInv
  <2>3. Dataowners \ Heard(r)' = T \ {f}
    BY <1>2
  <2> QED
    BY <2>1, <2>2, <2>3, CountDownLemma
<1>4. Shape'
  <2>1. results' \in [Recipients -> SUBSET (Dataowners \X Dataowners)]
    BY <1>0, CrossLemma DEF Shape
  <2>2. receiverState' \in [Recipients -> RunState]
    BY DEF Shape, RunState
  <2> QED
    BY <2>1, <2>2 DEF Shape, owner, work, house
<1>5. ASSUME NEW x \in Dataowners PROVE OwnerPhase(x)'
  BY OwnerUnchanged DEF owner, work
<1>6. WireInv'
  BY DEF WireInv, owner, work
<1>7. HouseInv'
  BY DEF HouseInv, house
<1>8. ReceiverInv'
  <2>0. state' = state
    BY DEF owner
  <2>1. ASSUME NEW n \in resultWire'
        PROVE  /\ state'[n.from] = "complete"
               /\ n.share = Cross(n.from)
               /\ n.from \notin Heard(n.to)'
    <3>1. /\ n \in resultWire /\ n # m /\ n \in ResultMsg /\ m \in ResultMsg
          /\ state[n.from] = "complete"
          /\ n.share = Cross(n.from)
          /\ n.from \notin Heard(n.to)
      BY DEF Shape, ReceiverInv
    <3>2. CASE n.to = r
      <4>1. n.from # f
        BY <3>1, <3>2, <1>0 DEF ResultMsg
      <4> QED
        BY <3>1, <3>2, <4>1, <1>2, <2>0
    <3>3. CASE n.to # r
      BY <3>1, <3>3, <1>2, <2>0 DEF ResultMsg
    <3> QED
      BY <3>2, <3>3
  <2>2. ASSUME NEW s \in Recipients, s # r
        PROVE  /\ \A x, y \in Dataowners :
                    <<x, y>> \in results'[s] => y \in Cross(x) /\ state'[x] = "complete"
               /\ \A x \in Heard(s)' : \A y \in Cross(x) : <<x, y>> \in results'[s]
               /\ receiverState'[s] = "idle" => results'[s] = {} /\ numDataowners'[s] = 0
               /\ receiverState'[s] # "idle" =>
                    numDataowners'[s] = Cardinality(Dataowners \ Heard(s)')
               /\ receiverState'[s] = "complete" => Heard(s)' = Dataowners
    <3>1. /\ receiverState'[s] = receiverState[s]
          /\ numDataowners'[s] = numDataowners[s]
          /\ results'[s] = results[s]
          /\ Heard(s)' = Heard(s)
      BY <2>2, <1>1, <1>2 DEF Shape
    <3> QED
      BY <3>1, <2>0 DEF ReceiverInv
  <2>3. ASSUME NEW x \in Dataowners, NEW y \in Dataowners, <<x, y>> \in results'[r]
        PROVE  y \in Cross(x) /\ state'[x] = "complete"
    <3>1. CASE <<x, y>> \in results[r]
      BY <3>1, <2>0 DEF ReceiverInv
    <3>2. CASE <<x, y>> \notin results[r]
      <4>1. <<x, y>> \in {<<f, q>> : q \in Cross(f)}
        BY <2>3, <3>2, <1>1
      <4>2. x = f /\ y \in Cross(f)
        BY <4>1
      <4> QED
        BY <4>2, <1>0, <2>0
    <3> QED
      BY <3>1, <3>2
  <2>4. \A x \in Heard(r)' : \A y \in Cross(x) : <<x, y>> \in results'[r]
    BY <1>1, <1>2 DEF ReceiverInv
  <2>5. /\ receiverState'[r] # "idle"
        /\ numDataowners'[r] = Cardinality(Dataowners \ Heard(r)')
        /\ receiverState'[r] = "complete" => Heard(r)' = Dataowners
    <3>1. numDataowners'[r] = Cardinality(T) - 1
      BY <1>3 DEF Shape
    <3>2. receiverState[r] # "complete"
      BY <1>0 DEF ReceiverInv
    <3>3. receiverState'[r] = IF T = {f} THEN "complete" ELSE receiverState[r]
      BY <1>3 DEF Shape
    <3>4. T = {f} => Heard(r)' = Dataowners
      BY <1>0, <1>2 DEF Heard
    <3>5. receiverState[r] # "idle"
      OBVIOUS
    <3>6. numDataowners'[r] = Cardinality(Dataowners \ Heard(r)')
      BY <1>3, <3>1
    <3> HIDE DEF T, f, Inv, ReceiverHandleReceive
    <3> QED
      BY <3>2, <3>3, <3>4, <3>5, <3>6
  <2> QED
    BY <2>1, <2>2, <2>3, <2>4, <2>5 DEF ReceiverInv
<1>u. NothingReadUnset'
  BY DEF NothingReadUnset, owner, work
<1> QED
  BY <1>4, <1>5, <1>6, <1>7, <1>8, <1>u

-----------------------------------------------------------------------------
(* The inductive invariant *)

\* The inductive invariant holds before any party has started.
LEMMA InitInv ==
  ASSUME Init
  PROVE  Inv
<1> USE DEF Init
<1>1. Shape
  <2>1. declared \in [Parties -> [PeerSets -> Seq(Kinds)]]
    BY DEF NoStream
  <2>2. randomness \in [Dataowners -> [DOMAIN DealtRandomness -> Int]]
    BY LeftIsType
  <2> QED
    BY <2>1, <2>2 DEF Shape, States, RunState, ChildType
<1>2. ASSUME NEW p \in Dataowners PROVE OwnerPhase(p)
  <2>1. Idle(p)
    BY DEF Idle, Parties
  <2> QED
    BY <2>1 DEF OwnerPhase
<1>3. WireInv
  BY DEF WireInv
<1>4. HouseInv
  BY FS_EmptySet DEF HouseInv, Parties
<1>5. ReceiverInv
  BY DEF ReceiverInv, Heard
<1>6. NothingReadUnset
  BY DEF NothingReadUnset
<1> QED
  BY <1>1, <1>2, <1>3, <1>4, <1>5, <1>6 DEF Inv

\* Every step keeps the inductive invariant, by the lemma of its action.
LEMMA NextInv ==
  ASSUME Inv, [Next]_vars
  PROVE  Inv'
<1>1. ASSUME NEW p \in Dataowners, RegressionInit(p) PROVE Inv'
  BY <1>1, RegressionInitStep
<1>2. ASSUME NEW p \in Dataowners, NEW q \in Dataowners, HandleReceive(p, q)
      PROVE  Inv'
  BY <1>2, HandleReceiveStep
<1>3. ASSUME NEW p \in Dataowners, NEW c \in open[p], HandleComplete(p, c)
      PROVE  Inv'
  <2>1. UNCHANGED <<sharedLists, wire, resultWire, house, receiver>>
    BY <1>3 DEF HandleComplete
  <2>2. CASE SortBeforeRandomness(p, c)
    BY <2>1, <2>2, SortBeforeRandomnessStep
  <2>3. CASE RandomnessReady(p, c)
    BY <2>1, <2>3, RandomnessReadyStep
  <2>4. CASE SISOSortDone(p, c)
    BY <2>1, <2>4, SISOSortDoneStep
  <2>5. CASE ZipAdjacentDone(p, c)
    BY <2>1, <2>5, ZipAdjacentDoneStep
  <2>6. CASE ZipReduceDone(p, c)
    BY <2>1, <2>6, ZipReduceDoneStep
  <2>7. CASE BatchDone(p, c)
    BY <2>1, <2>7, BatchDoneStep
  <2> QED
    BY <1>3, <2>2, <2>3, <2>4, <2>5, <2>6, <2>7 DEF HandleComplete
<1>4. ASSUME NEW p \in Dataowners, NEW c \in open[p], BatchedLookupDone(p, c)
      PROVE  Inv'
  BY <1>4, BatchedLookupDoneStep
<1>5. CASE HouseInit
  BY <1>5, HouseInitStep
<1>6. ASSUME NEW c \in open[Dealer], HouseHandleComplete(c) PROVE Inv'
  BY <1>6, HouseHandleCompleteStep
<1>7. ASSUME NEW r \in Recipients, ReceiverInit(r) PROVE Inv'
  BY <1>7, ReceiverInitStep
<1>8. ASSUME NEW r \in Recipients, NEW m \in resultWire, ReceiverHandleReceive(r, m)
      PROVE  Inv'
  BY <1>8, ReceiverHandleReceiveStep
<1>9. CASE UNCHANGED vars
  <2> USE <1>9 DEF vars, owner, work, house, receiver, Inv
  <2>1. ASSUME NEW p \in Dataowners PROVE OwnerPhase(p)'
    BY OwnerUnchanged
  <2>2. ReceiverInv'
    BY ReceiverUnchanged
  <2>3. Shape'
    BY DEF Shape
  <2>4. WireInv' /\ HouseInv'
    BY DEF WireInv, HouseInv
  <2>5. NothingReadUnset'
    BY DEF NothingReadUnset
  <2> QED
    BY <2>1, <2>2, <2>3, <2>4, <2>5
<1> QED
  BY <1>1, <1>2, <1>3, <1>4, <1>5, <1>6, <1>7, <1>8, <1>9 DEF Next, Terminated

\* However many dataowners, verticals, recipients, variables and table rows there are,
\* a dataowner is always in one of the phases of Regression.cpp's state machine, with
\* the counter, the children, the dispensers and the shares that phase implies,
\* whatever the order of messages and completions.
THEOREM InvHolds == Spec => []Inv
<1>1. Init => Inv
  BY InitInv
<1>2. Inv /\ [Next]_vars => Inv'
  BY NextInv
<1> QED
  BY <1>1, <1>2, PTL DEF Spec

-----------------------------------------------------------------------------
(* What follows from it *)

\* As many sorts, zips or reductions as partners.
LEMMA PairedCount ==
  ASSUME NEW p \in Dataowners, NEW T \in SUBSET Cross(p)
  PROVE  /\ Cardinality(Sorts(p, T)) = Cardinality(T)
         /\ Cardinality(Zips(p, T)) = Cardinality(T)
         /\ Cardinality(Reduces(p, T)) = Cardinality(T)
<1>1. /\ Sorts(p, T) = DealtChildren(p, "SISOSort", T)
      /\ Zips(p, T) = PairChildren(p, "ZipAdjacent", T)
      /\ Reduces(p, T) = PairChildren(p, "ZipReduce", T)
  BY DEF Sorts, Zips, Reduces, DealtChildren, PairChildren
<1> QED
  BY <1>1, PairedChildrenCount

\* None of the size_t counters of the dataowners, the dealer and the recipients ever
\* goes below zero, and every variable keeps its type.
THEOREM TypeCorrect == Spec => []TypeOK
<1>1. Inv => TypeOK
  <2> SUFFICES ASSUME Inv PROVE TypeOK
    OBVIOUS
  <2> USE DEF Inv
  <2>1. ASSUME NEW p \in Dataowners PROVE numPartiesAwaiting[p] \in Nat
    <3>1. /\ Cardinality(Cross(p) \ sharedLists[p]) \in Nat
          /\ Cardinality(Cross(p) \ sortedLists[p]) \in Nat
          /\ Cardinality(Cross(p) \ vectorZippedAdjacent[p]) \in Nat
          /\ Cardinality(Cross(p) \ startModulusPayloadVector[p]) \in Nat
      BY CrossLemma
    <3>2. \/ numPartiesAwaiting[p] = 0
          \/ numPartiesAwaiting[p] = Cardinality(Cross(p) \ sharedLists[p])
          \/ numPartiesAwaiting[p] = Cardinality(Cross(p) \ sortedLists[p])
          \/ numPartiesAwaiting[p] = Cardinality(Cross(p) \ vectorZippedAdjacent[p])
          \/ numPartiesAwaiting[p] = Cardinality(Cross(p) \ startModulusPayloadVector[p])
      <4>1. OwnerPhase(p)
        OBVIOUS
      <4> HIDE DEF Inv
      <4> QED
        BY <4>1 DEF OwnerPhase, Idle, Collecting, Sorting, Zipping, Reducing,
                    InBatch, Completed, Summed
    <3> QED
      BY <3>1, <3>2
  <2>2. numPartiesAwaiting \in [Dataowners -> Nat]
    BY <2>1 DEF Shape
  <2>3. numDealersRemaining \in Nat
    BY FS_CardinalityType DEF HouseInv
  <2>4. ASSUME NEW r \in Recipients PROVE numDataowners[r] \in Nat
    <3>1. IsFiniteSet(Dataowners \ Heard(r))
      BY PartiesAssumption, FS_Subset
    <3>2. Cardinality(Dataowners \ Heard(r)) \in Nat
      BY <3>1, FS_CardinalityType
    <3> QED
      BY <3>2 DEF ReceiverInv
  <2>5. numDataowners \in [Recipients -> Nat]
    BY <2>4 DEF Shape
  <2> QED
    BY <2>2, <2>3, <2>5 DEF Shape, TypeOK, ChildType
<1> QED
  BY <1>1, InvHolds, PTL

\* The counts of RegressionRandomnessPatron's constructor cover what the cases of
\* Regression::handleComplete draw, for every number of independent variables in
\* either vertical, every batch size and all tables.
THEOREM RandomnessSuffices == Spec => []DispensersSuffice
<1>1. Inv => DispensersSuffice
  <2> SUFFICES ASSUME Inv, NEW p \in Dataowners, NEW f \in DOMAIN randomness[p]
               PROVE  randomness[p][f] >= 0
    BY DEF DispensersSuffice
  <2>1. f \in Fields
    BY DealtType DEF Inv, Shape
  <2>2. \/ randomness[p] = NoRandomness
        \/ randomness[p] = DealtRandomness
        \/ randomness[p] = LeftByZips
        \/ randomness[p] = LeftByReduces
        \/ \E k \in 1 .. 20 : randomness[p] = LeftByBatch(k)
    <3>1. OwnerPhase(p)
      BY DEF Inv
    <3>2. 20 \in 1 .. 20
      OBVIOUS
    <3> QED
      BY <3>1, <3>2, PhasesLen
      DEF OwnerPhase, Idle, Collecting, Sorting, Zipping, Reducing, InBatch,
          Completed, PatronHas
  <2>3. NoRandomness[f] = 0
    BY <2>1, DealtType DEF NoRandomness
  <2> QED
    BY <2>1, <2>2, <2>3, CountsSuffice
<1> QED
  BY <1>1, InvHolds, PTL

\* No case of Regression::handleComplete reads a share that no earlier case computed,
\* or that an earlier one moved out.
THEOREM SharesCorrect == Spec => []NothingReadUnset
<1>1. Inv => NothingReadUnset
  BY DEF Inv
<1> QED
  BY <1>1, InvHolds, PTL

\* A recipient that prints has summed both shares of every pair of dataowners of
\* two verticals, and nothing else.
THEOREM ResultCorrect == Spec => []ResultIsWhole
<1>1. Inv => ResultIsWhole
  <2> SUFFICES ASSUME Inv, NEW r \in Recipients, receiverState[r] = "complete"
               PROVE  results[r] =
                        {m \in Dataowners \X Dataowners : m[2] \in Cross(m[1])}
    BY DEF ResultIsWhole
  <2>1. Heard(r) = Dataowners
    BY DEF Inv, ReceiverInv
  <2>2. \A p, q \in Dataowners : <<p, q>> \in results[r] <=> q \in Cross(p)
    BY <2>1 DEF Inv, ReceiverInv
  <2>3. results[r] \subseteq Dataowners \X Dataowners
    BY DEF Inv, Shape
  <2> QED
    BY <2>2, <2>3
<1> QED
  BY <1>1, InvHolds, PTL

\* numPartiesAwaiting is at all times the number of lists, sorts, zips or reductions
\* that are still to come, and every static_cast of Regression::handleComplete is of
\* a child of the class it names, whose inputs are complete.
THEOREM CounterCorrect == Spec => []AwaitsWhatIsMissing
<1>1. Inv => AwaitsWhatIsMissing
  <2> DEFINE Paired == {"SISOSort", "ZipAdjacent", "ZipReduce"}
             Counted(p) ==
               numPartiesAwaiting[p] =
                 IF sharedLists[p] # Cross(p) THEN Cardinality(Cross(p) \ sharedLists[p])
                 ELSE Cardinality(OpenOf(p, Paired))
  <2> SUFFICES ASSUME Inv, NEW p \in Dataowners, state[p] \notin {"idle", "complete"}
               PROVE  Counted(p) /\ ChildrenMatchState(p)
    BY DEF AwaitsWhatIsMissing
  <2>0. Cardinality({}) = 0
    BY FS_EmptySet
  <2>p. \A c \in PatronOpen(p) : c.kind = "Randomness" /\ ~randomnessDone[p]
    BY DEF PatronOpen, Patron, Child
  <2>1. CASE Collecting(p)
    <3>1. Counted(p)
      BY <2>1 DEF Collecting
    <3>2. ChildrenMatchState(p)
      BY <2>1, <2>p DEF Collecting, ChildrenMatchState
    <3> QED
      BY <3>1, <3>2
  <2>2. CASE Sorting(p)
    <3> DEFINE T == Cross(p) \ sortedLists[p]
    <3>1. \A c \in Sorts(p, T) : c.kind = "SISOSort"
      BY SortsLemma
    <3>2. OpenOf(p, Paired) = Sorts(p, T)
      BY <2>2, <2>p, <3>1 DEF Sorting, OpenOf
    <3>3. Cardinality(Sorts(p, T)) = Cardinality(T)
      BY PairedCount
    <3>4. numPartiesAwaiting[p] = Cardinality(T) /\ sharedLists[p] = Cross(p)
      BY <2>2 DEF Sorting
    <3>5. Counted(p)
      BY <3>2, <3>3, <3>4
    <3>6. randomnessDone[p] => state[p] = "awaitingSISOSort"
      BY <2>2 DEF Sorting
    <3>7. \A c \in open[p] : \/ c.kind = "SISOSort"
                             \/ c.kind = "Randomness" /\ ~randomnessDone[p]
      BY <2>2, <2>p, <3>1 DEF Sorting
    <3>8. ChildrenMatchState(p)
      BY <3>4, <3>6, <3>7 DEF ChildrenMatchState
    <3> QED
      BY <3>5, <3>8
  <2>3. CASE Zipping(p)
    <3> DEFINE T == Cross(p) \ vectorZippedAdjacent[p]
    <3>1. \A c \in Zips(p, T) : c.kind = "ZipAdjacent"
      BY ZipsLemma
    <3>2. OpenOf(p, Paired) = Zips(p, T)
      BY <2>3, <3>1 DEF Zipping, OpenOf
    <3>3. Cardinality(Zips(p, T)) = Cardinality(T)
      BY PairedCount
    <3>4. numPartiesAwaiting[p] = Cardinality(T) /\ sharedLists[p] = Cross(p)
      BY <2>3 DEF Zipping
    <3>5. Counted(p)
      BY <3>2, <3>3, <3>4
    <3>6. ChildrenMatchState(p)
      BY <2>3, <3>1 DEF Zipping, ChildrenMatchState
    <3> QED
      BY <3>5, <3>6
  <2>4. CASE Reducing(p)
    <3> DEFINE T == Cross(p) \ startModulusPayloadVector[p]
    <3>1. \A c \in Reduces(p, T) : c.kind = "ZipReduce"
      BY ReducesLemma
    <3>2. OpenOf(p, Paired) = Reduces(p, T)
      BY <2>4, <3>1 DEF Reducing, OpenOf
    <3>3. Cardinality(Reduces(p, T)) = Cardinality(T)
      BY PairedCount
    <3>4. numPartiesAwaiting[p] = Cardinality(T) /\ sharedLists[p] = Cross(p)
      BY <2>4 DEF Reducing
    <3>5. Counted(p)
      BY <3>2, <3>3, <3>4
    <3>6. ChildrenMatchState(p)
      BY <2>4, <3>1 DEF Reducing, ChildrenMatchState
    <3> QED
      BY <3>5, <3>6
  <2>5. ASSUME NEW k \in 1 .. 20, InBatch(p, k)
        PROVE  Counted(p) /\ ChildrenMatchState(p)
    <3>1. /\ state[p] = Phases[k].name /\ randomnessDone[p]
          /\ \A c \in open[p] : c.kind = state[p]
          /\ numPartiesAwaiting[p] = 0 /\ sharedLists[p] = Cross(p)
      BY <2>5 DEF InBatch, Summed, Child
    <3>2. state[p] \notin {"SISOSort", "ZipAdjacent", "ZipReduce", "awaitingSISOSort",
                           "awaitingZipAdjacent", "awaitingZipReduce"}
      BY <3>1, PhaseStates
    <3>3. OpenOf(p, Paired) = {}
      BY <3>1, <3>2 DEF OpenOf
    <3>4. Counted(p)
      BY <2>0, <3>1, <3>3
    <3>5. ChildrenMatchState(p)
      BY <3>1, <3>2 DEF ChildrenMatchState
    <3> QED
      BY <3>4, <3>5
  <2> HIDE DEF Counted
  <2> QED
    BY <2>1, <2>2, <2>3, <2>4, <2>5, PhasesLen DEF Inv, OwnerPhase, Idle, Completed
<1> QED
  BY <1>1, InvHolds, PTL

-----------------------------------------------------------------------------
(* Streams: what each phase has declared, and that nobody runs ahead *)

\* What PhaseOf makes of a state.
PhaseIs(s) ==
  CASE s = "complete" -> Len(Phases) + 1
    [] s \in PhaseNames -> CHOOSE k \in DOMAIN Phases : Phases[k].name = s
    [] OTHER -> 0

\* PhaseIs numbers the batches in the order the cases go through them.
LEMMA PhaseValues ==
  /\ PhaseIs("complete") = 21
  /\ \A k \in 1 .. 20 : PhaseIs(Phases[k].name) = k
  /\ \A s \in States \ (PhaseNames \cup {"complete"}) : PhaseIs(s) = 0
  /\ \A s \in States : PhaseIs(s) \in 0 .. 21
  /\ \A s \in PhaseNames : \E k \in 1 .. 20 : s = Phases[k].name
  /\ {"idle", "complete", "awaitingRandomnessAndSISOSort", "awaitingRandomnessOnly",
      "awaitingSISOSort", "awaitingZipAdjacent", "awaitingZipReduce"} \subseteq States
  /\ {"idle", "complete", "awaitingRandomnessAndSISOSort", "awaitingRandomnessOnly",
      "awaitingSISOSort", "awaitingZipAdjacent", "awaitingZipReduce"} \cap PhaseNames = {}
<1>0. DOMAIN Phases = 1 .. 20
  BY DEF Phases, Phase, MatrixPhases, InversePhases, SignPhases, CoefficientPhases,
         FirstProducts, SecondProducts, ThirdProducts, QuotientPhases, RowPhases,
         ColumnPhases, LookupPhases
<1>1. PhaseIs("complete") = 21
  <2>1. Len(Phases) + 1 = 21
    BY PhasesLen
  <2>2. "complete" \notin PhaseNames
    BY <1>0, PhaseStates DEF PhaseNames
  <2>3. PhaseIs("complete") = Len(Phases) + 1
    BY <2>2 DEF PhaseIs
  <2> QED
    BY <2>1, <2>3
<1>2. ASSUME NEW k \in 1 .. 20 PROVE PhaseIs(Phases[k].name) = k
  <2>1. Phases[k].name \in PhaseNames /\ Phases[k].name # "complete"
    BY PhaseStates
  <2>2. (CHOOSE j \in 1 .. 20 : Phases[j].name = Phases[k].name) = k
    <3>1. \A j \in 1 .. 20 : Phases[j].name = Phases[k].name <=> j = k
      BY PhaseStates
    <3> QED
      BY <3>1
  <2> QED
    BY <2>1, <2>2, <1>0 DEF PhaseIs
<1>3. \A s \in States \ (PhaseNames \cup {"complete"}) : PhaseIs(s) = 0
  BY DEF PhaseIs
<1>4. \A s \in PhaseNames : \E k \in 1 .. 20 : s = Phases[k].name
  BY <1>0 DEF PhaseNames
<1>5. \A s \in States : PhaseIs(s) \in 0 .. 21
  BY <1>1, <1>2, <1>3, <1>4
<1>6. {"idle", "complete", "awaitingRandomnessAndSISOSort", "awaitingRandomnessOnly",
       "awaitingSISOSort", "awaitingZipAdjacent", "awaitingZipReduce"} \subseteq States
  BY DEF States
<1>7. {"idle", "complete", "awaitingRandomnessAndSISOSort", "awaitingRandomnessOnly",
       "awaitingSISOSort", "awaitingZipAdjacent", "awaitingZipReduce"} \cap PhaseNames = {}
  BY <1>4, PhaseStates
<1> QED
  BY <1>1, <1>2, <1>3, <1>4, <1>5, <1>6, <1>7

\* The streams of the earlier phases have no batch; the batches come after all of
\* them, in their order.
PairedKinds == {"Randomness", "SISOSort", "ZipAdjacent", "ZipReduce"}
\* The streams before the batches are streams.
LEMMA StreamTypes ==
  \A K \in {PairedKinds, Kinds} :
    \A s \in {NoStream, StartStream, SortStream, ZipStream, ReduceStream} :
      s \in [PeerSets -> Seq(K)]
<1> SUFFICES ASSUME NEW K \in {PairedKinds, Kinds}
             PROVE  \A s \in {NoStream, StartStream, SortStream, ZipStream, ReduceStream} :
                      s \in [PeerSets -> Seq(K)]
  OBVIOUS
<1>k. "Randomness" \in K /\ "SISOSort" \in K /\ "ZipAdjacent" \in K /\ "ZipReduce" \in K
  BY KindsOfChildren DEF PairedKinds
<1>0. NoStream \in [PeerSets -> Seq(K)]
  BY DEF NoStream
<1>1. StartStream \in [PeerSets -> Seq(K)]
  BY <1>k, <1>0, DeclareAppends DEF StartStream
<1>2. SortStream \in [PeerSets -> Seq(K)]
  BY <1>k, <1>1, DeclareAppends DEF SortStream
<1>3. ZipStream \in [PeerSets -> Seq(K)]
  BY <1>k, <1>2, DeclareAppends DEF ZipStream
<1>4. ReduceStream \in [PeerSets -> Seq(K)]
  BY <1>k, <1>3, DeclareAppends DEF ReduceStream
<1> QED
  BY <1>0, <1>1, <1>2, <1>3, <1>4

\* Where the batches begin in the stream of all dataowners.
Offset == Len(ReduceStream[Dataowners])

\* The stream of batch k: what came before the batches, then the first k of them.
LEMMA BatchStreamLemma ==
  ASSUME NEW k \in 0 .. 20
  PROVE  /\ BatchStream(k) \in [PeerSets -> Seq(Kinds)]
         /\ Offset \in Nat
         /\ Len(BatchStream(k)[Dataowners]) = Offset + k
         /\ \A n \in 1 .. Offset : BatchStream(k)[Dataowners][n] \in PairedKinds
         /\ \A n \in 1 .. Offset :
              BatchStream(k)[Dataowners][n] = ReduceStream[Dataowners][n]
         /\ \A i \in 1 .. k : BatchStream(k)[Dataowners][Offset + i] = Phases[i].name
<1>0. Dataowners \in PeerSets
  BY PeerSetLemma
<1> DEFINE r == ReduceStream[Dataowners]
           b == FirstBatches(k)
<1>1. r \in Seq(PairedKinds) /\ r \in Seq(Kinds) /\ Len(r) \in Nat /\ Len(r) = Offset
  BY <1>0, StreamTypes DEF Offset
<1>2. b \in Seq(Kinds) /\ Len(b) = k /\ \A i \in 1 .. k : b[i] = Phases[i].name
  <2>1. \A i \in 1 .. k : Phases[i].name \in Kinds
    <3>1. \A i \in 1 .. k : i \in 1 .. 20
      OBVIOUS
    <3> QED
      BY <3>1, PhaseStates
  <2> QED
    BY <2>1 DEF FirstBatches
<1> HIDE DEF r, b
<1>3. /\ r \o b \in Seq(Kinds)
      /\ Len(r \o b) = Offset + k
      /\ \A n \in 1 .. Offset : (r \o b)[n] = r[n]
      /\ \A i \in 1 .. k : (r \o b)[Offset + i] = b[i]
  <2>1. /\ r \o b \in Seq(Kinds)
        /\ Len(r \o b) = Len(r) + Len(b)
        /\ \A n \in 1 .. Len(r) + Len(b) :
             (r \o b)[n] = IF n <= Len(r) THEN r[n] ELSE b[n - Len(r)]
    BY <1>1, <1>2, ConcatProperties
  <2>2. \A n \in 1 .. Offset : (r \o b)[n] = r[n]
    BY <1>1, <1>2, <2>1
  <2>3. ASSUME NEW i \in 1 .. k PROVE (r \o b)[Offset + i] = b[i]
    <3> DEFINE n == Offset + i
    <3>1. n \in 1 .. Len(r) + Len(b) /\ ~(n <= Len(r)) /\ n - Len(r) = i
      BY <1>1, <1>2
    <3>2. (r \o b)[n] = IF n <= Len(r) THEN r[n] ELSE b[n - Len(r)]
      BY <2>1, <3>1
    <3> HIDE DEF n
    <3>3. (r \o b)[n] = b[i]
      BY <3>1, <3>2
    <3> QED
      BY <3>3 DEF n
  <2> QED
    BY <1>1, <1>2, <2>1, <2>2, <2>3
<1>4. BatchStream(k)[Dataowners] = r \o b
  BY <1>0 DEF BatchStream, r, b
<1>5. BatchStream(k) \in [PeerSets -> Seq(Kinds)]
  <2>1. \A ps \in PeerSets : BatchStream(k)[ps] \in Seq(Kinds)
    <3>1. \A ps \in PeerSets : ps # Dataowners => BatchStream(k)[ps] = ReduceStream[ps]
      BY DEF BatchStream
    <3> QED
      BY <3>1, <1>3, <1>4, StreamTypes
  <2>2. BatchStream(k) = [ps \in PeerSets |-> BatchStream(k)[ps]]
    BY DEF BatchStream
  <2> QED
    BY <2>1, <2>2
<1>6. \A n \in 1 .. Offset : r[n] \in PairedKinds
  BY <1>1
<1> QED
  BY <1>1, <1>2, <1>3, <1>4, <1>5, <1>6 DEF r

\* A batch is declared for all dataowners, after those before it.
LEMMA BatchStreamDeclares ==
  ASSUME NEW k \in 0 .. 19
  PROVE  /\ BatchStream(k + 1) = Declare(BatchStream(k), Phases[k + 1].name, {Dataowners})
         /\ BatchStream(0) = ReduceStream
<1>0. Dataowners \in PeerSets
  BY PeerSetLemma
<1>1. BatchStream(0) = ReduceStream
  <2>1. FirstBatches(0) = <<>>
    BY DEF FirstBatches
  <2>2. ReduceStream \in [PeerSets -> Seq(Kinds)]
    BY StreamTypes
  <2>3. \A s \in Seq(Kinds) : s \o <<>> = s
    OBVIOUS
  <2>4. \A ps \in PeerSets : BatchStream(0)[ps] = ReduceStream[ps]
    BY <2>1, <2>2, <2>3 DEF BatchStream
  <2> QED
    BY <2>2, <2>4 DEF BatchStream
<1>2. BatchStream(k + 1) = Declare(BatchStream(k), Phases[k + 1].name, {Dataowners})
  <2> DEFINE s == BatchStream(k)[Dataowners]
             t == BatchStream(k + 1)[Dataowners]
             name == Phases[k + 1].name
  <2>1. k + 1 \in 1 .. 20 /\ k + 1 \in 0 .. 20 /\ k \in 0 .. 20
    OBVIOUS
  <2>2. /\ s \in Seq(Kinds) /\ Len(s) = Offset + k /\ Offset \in Nat
        /\ \A n \in 1 .. Offset : s[n] = ReduceStream[Dataowners][n]
        /\ \A i \in 1 .. k : s[Offset + i] = Phases[i].name
    BY <1>0, <2>1, BatchStreamLemma
  <2>3. /\ t \in Seq(Kinds) /\ Len(t) = Offset + k + 1
        /\ \A n \in 1 .. Offset : t[n] = ReduceStream[Dataowners][n]
        /\ \A i \in 1 .. k + 1 : t[Offset + i] = Phases[i].name
    <3> DEFINE j == k + 1
               u == BatchStream(j)[Dataowners]
    <3>1. j \in 0 .. 20
      BY <2>1
    <3> HIDE DEF j
    <3>2. /\ u \in Seq(Kinds) /\ Len(u) = Offset + j
          /\ \A n \in 1 .. Offset : u[n] = ReduceStream[Dataowners][n]
          /\ \A i \in 1 .. j : u[Offset + i] = Phases[i].name
      BY <1>0, <3>1, BatchStreamLemma
    <3>3. u = t
      BY DEF j
    <3>4. Offset + (k + 1) = Offset + k + 1
      BY <2>2
    <3> HIDE DEF u, t
    <3> QED
      BY <3>2, <3>3, <3>4 DEF j
  <2>4. name \in Kinds
    BY <2>1, PhaseStates
  <2> HIDE DEF s, t, name
  <2>5. ASSUME NEW n \in 1 .. Offset + k PROVE t[n] = s[n]
    <3>1. CASE n \in 1 .. Offset
      BY <2>2, <2>3, <3>1
    <3>2. CASE n \notin 1 .. Offset
      <4>1. n - Offset \in 1 .. k /\ n - Offset \in 1 .. k + 1
            /\ Offset + (n - Offset) = n
        BY <2>2, <3>2
      <4>2. s[Offset + (n - Offset)] = Phases[n - Offset].name
        BY <2>2, <4>1
      <4>3. t[Offset + (n - Offset)] = Phases[n - Offset].name
        BY <2>3, <4>1
      <4> QED
        BY <4>1, <4>2, <4>3
    <3> QED
      BY <3>1, <3>2
  <2>6. t[Offset + k + 1] = name
    <3>1. k + 1 \in 1 .. k + 1 /\ Offset + (k + 1) = Offset + k + 1
      BY <2>2
    <3> QED
      BY <2>3, <3>1 DEF name
  <2>7. t = Append(s, name)
    <3>1. /\ Append(s, name) \in Seq(Kinds)
          /\ Len(Append(s, name)) = Len(t)
      BY <2>2, <2>3, <2>4
    <3>2. \A n \in 1 .. Len(t) : t[n] = Append(s, name)[n]
      BY <2>2, <2>3, <2>4, <2>5, <2>6
    <3> QED
      BY <3>1, <3>2, <2>3, SeqEqual
  <2>8. \A ps \in PeerSets :
          BatchStream(k + 1)[ps] = IF ps \in {Dataowners}
                                   THEN Append(BatchStream(k)[ps], name)
                                   ELSE BatchStream(k)[ps]
    BY <2>7, <1>0 DEF BatchStream, s, t
  <2>9. BatchStream(k + 1) = [ps \in PeerSets |-> BatchStream(k + 1)[ps]]
    BY DEF BatchStream
  <2> QED
    BY <2>8, <2>9 DEF Declare, name
<1> QED
  BY <1>1, <1>2

\* Which stream a state has, and which place among the batches.
LEMMA StreamOfState ==
  ASSUME NEW p \in Dataowners
  PROVE  /\ PhaseOf(p) = PhaseIs(state[p])
         /\ state[p] = "idle" => StreamOf(p) = NoStream
         /\ state[p] = "awaitingZipAdjacent" => StreamOf(p) = ZipStream
         /\ state[p] = "awaitingZipReduce" => StreamOf(p) = ReduceStream
         /\ state[p] = "complete" => StreamOf(p) = BatchStream(20)
         /\ \A k \in 1 .. 20 : state[p] = Phases[k].name => StreamOf(p) = BatchStream(k)
         /\ state[p] \in {"awaitingRandomnessAndSISOSort", "awaitingRandomnessOnly",
                          "awaitingSISOSort"} =>
              StreamOf(p) = IF sharedLists[p] = Cross(p) THEN SortStream ELSE StartStream
<1>1. PhaseOf(p) = PhaseIs(state[p])
  BY DEF PhaseOf, PhaseIs
<1>2. state[p] \in {"idle", "complete", "awaitingRandomnessAndSISOSort",
                    "awaitingRandomnessOnly", "awaitingSISOSort",
                    "awaitingZipAdjacent", "awaitingZipReduce"} =>
        state[p] \notin PhaseNames
  BY PhaseValues
<1>3. state[p] = "idle" => StreamOf(p) = NoStream
  BY <1>2 DEF StreamOf
<1>4. state[p] = "awaitingZipAdjacent" => StreamOf(p) = ZipStream
  BY <1>2 DEF StreamOf
<1>5. state[p] = "awaitingZipReduce" => StreamOf(p) = ReduceStream
  BY <1>2 DEF StreamOf
<1>6. state[p] = "complete" => StreamOf(p) = BatchStream(20)
  BY <1>2, PhasesLen DEF StreamOf
<1>7. ASSUME NEW k \in 1 .. 20, state[p] = Phases[k].name
      PROVE  StreamOf(p) = BatchStream(k)
  <2>1. PhaseOf(p) = k
    BY <1>1, <1>7, PhaseValues
  <2>2. /\ state[p] \in PhaseNames
        /\ state[p] \notin {"idle", "complete", "awaitingZipAdjacent", "awaitingZipReduce"}
    BY <1>7, PhaseStates
  <2> QED
    BY <2>1, <2>2 DEF StreamOf
<1>8. state[p] \in {"awaitingRandomnessAndSISOSort", "awaitingRandomnessOnly",
                    "awaitingSISOSort"} =>
        StreamOf(p) = IF sharedLists[p] = Cross(p) THEN SortStream ELSE StartStream
  BY <1>2 DEF StreamOf
<1> QED
  BY <1>1, <1>3, <1>4, <1>5, <1>6, <1>7, <1>8

\* The same for the state after a step.
LEMMA StreamOfNextState ==
  ASSUME NEW p \in Dataowners
  PROVE  /\ PhaseOf(p)' = PhaseIs(state'[p])
         /\ state'[p] = "awaitingZipAdjacent" => StreamOf(p)' = ZipStream
         /\ state'[p] = "awaitingZipReduce" => StreamOf(p)' = ReduceStream
         /\ state'[p] = "complete" => StreamOf(p)' = BatchStream(20)
         /\ \A k \in 1 .. 20 : state'[p] = Phases[k].name => StreamOf(p)' = BatchStream(k)
         /\ state'[p] \in {"awaitingRandomnessAndSISOSort", "awaitingRandomnessOnly",
                           "awaitingSISOSort"} =>
              StreamOf(p)' = IF sharedLists'[p] = Cross(p) THEN SortStream ELSE StartStream
<1>1. PhaseOf(p)' = PhaseIs(state'[p])
  BY DEF PhaseOf, PhaseIs
<1>2. state'[p] \in {"complete", "awaitingRandomnessAndSISOSort",
                     "awaitingRandomnessOnly", "awaitingSISOSort",
                     "awaitingZipAdjacent", "awaitingZipReduce"} =>
        state'[p] \notin PhaseNames
  BY PhaseValues
<1>4. state'[p] = "awaitingZipAdjacent" => StreamOf(p)' = ZipStream
  BY <1>2 DEF StreamOf
<1>5. state'[p] = "awaitingZipReduce" => StreamOf(p)' = ReduceStream
  BY <1>2 DEF StreamOf
<1>6. state'[p] = "complete" => StreamOf(p)' = BatchStream(20)
  BY <1>2, PhasesLen DEF StreamOf
<1>7. ASSUME NEW k \in 1 .. 20, state'[p] = Phases[k].name
      PROVE  StreamOf(p)' = BatchStream(k)
  <2>1. PhaseOf(p)' = k
    BY <1>1, <1>7, PhaseValues
  <2>2. /\ state'[p] \in PhaseNames
        /\ state'[p] \notin {"idle", "complete", "awaitingZipAdjacent", "awaitingZipReduce"}
    BY <1>7, PhaseStates
  <2> QED
    BY <2>1, <2>2 DEF StreamOf
<1>8. state'[p] \in {"awaitingRandomnessAndSISOSort", "awaitingRandomnessOnly",
                     "awaitingSISOSort"} =>
        StreamOf(p)' = IF sharedLists'[p] = Cross(p) THEN SortStream ELSE StartStream
  BY <1>2 DEF StreamOf
<1> QED
  BY <1>1, <1>4, <1>5, <1>6, <1>7, <1>8

\* A dataowner that stays in its phase keeps its place in the streams.
LEMMA StreamOfUnchanged ==
  ASSUME NEW p \in Dataowners, state'[p] = state[p], sharedLists'[p] = sharedLists[p]
  PROVE  StreamOf(p)' = StreamOf(p) /\ PhaseOf(p)' = PhaseOf(p)
<1>1. PhaseOf(p)' = PhaseOf(p)
  BY DEF PhaseOf
<1> QED
  BY <1>1 DEF StreamOf

\* A step of dataowner p that is not the last of its phase: no declarations.
LEMMA QuietStep ==
  ASSUME StreamInv, UNCHANGED <<declared, houseState>>, NEW p \in Dataowners,
         StreamOf(p)' = StreamOf(p),
         \A x \in Dataowners \ {p} : state'[x] = state[x] /\ sharedLists'[x] = sharedLists[x]
  PROVE  OwnerStreams' /\ DealerStreams'
<1>1. \A x \in Dataowners : StreamOf(x)' = StreamOf(x)
  BY StreamOfUnchanged
<1>2. OwnerStreams'
  BY <1>1 DEF StreamInv, OwnerStreams
<1>3. DealerStreams'
  BY DEF StreamInv, DealerStreams
<1> QED
  BY <1>2, <1>3


\* A step that declares: for the peer sets p belongs to, S is the same as All, so p
\* moves on in the sequence that is common to everybody.
LEMMA DeclaringStep ==
  ASSUME Shape, StreamInv, houseState' = houseState, NEW p \in Dataowners,
         NEW kind \in Kinds, NEW S, NEW All,
         declared' = [declared EXCEPT ![p] = Declare(@, kind, S)],
         \A ps \in PeerSets : p \in ps => (ps \in S <=> ps \in All),
         StreamOf(p)' = Declare(StreamOf(p), kind, All),
         \A x \in Dataowners \ {p} : state'[x] = state[x] /\ sharedLists'[x] = sharedLists[x]
  PROVE  OwnerStreams' /\ DealerStreams'
<1>c. p # Dealer /\ p \in Parties /\ Dealer \in Parties /\ Dataowners \subseteq Parties
  BY CrossLemma DEF Parties
<1>1. \A x \in Dataowners \ {p} : StreamOf(x)' = StreamOf(x) /\ declared'[x] = declared[x]
  BY <1>c, StreamOfUnchanged DEF Shape
<1>2. ASSUME NEW ps \in PeerSets, p \in ps
      PROVE  declared'[p][ps] = StreamOf(p)'[ps]
  <2>1. declared'[p][ps] = IF ps \in S THEN Append(declared[p][ps], kind)
                                       ELSE declared[p][ps]
    BY <1>c DEF Shape, Declare
  <2>2. StreamOf(p)'[ps] = IF ps \in All THEN Append(StreamOf(p)[ps], kind)
                                         ELSE StreamOf(p)[ps]
    BY DEF Declare
  <2>3. declared[p][ps] = StreamOf(p)[ps]
    BY <1>2 DEF StreamInv, OwnerStreams
  <2> QED
    BY <1>2, <2>1, <2>2, <2>3
<1>3. OwnerStreams'
  <2> SUFFICES ASSUME NEW x \in Dataowners, NEW ps \in PeerSets, x \in ps
               PROVE  declared'[x][ps] = StreamOf(x)'[ps]
    BY DEF OwnerStreams
  <2>1. CASE x = p
    BY <2>1, <1>2
  <2>2. CASE x # p
    BY <2>2, <1>1 DEF StreamInv, OwnerStreams
  <2> QED
    BY <2>1, <2>2
<1>4. DealerStreams'
  <2>1. declared'[Dealer] = declared[Dealer]
    BY <1>c DEF Shape
  <2> QED
    BY <2>1 DEF StreamInv, DealerStreams
<1> QED
  BY <1>3, <1>4


\* Lockstep survives a step that leaves p where it is among the batches, and one that
\* takes p to the next when nobody is behind p.
LEMMA LockstepFrame ==
  ASSUME Shape, Shape', Lockstep, NEW p \in Dataowners,
         \A x \in Dataowners \ {p} : state'[x] = state[x],
         \/ PhaseIs(state'[p]) = PhaseIs(state[p])
         \/ /\ PhaseIs(state'[p]) = PhaseIs(state[p]) + 1
            /\ \A x \in Dataowners : PhaseIs(state[p]) <= PhaseIs(state[x])
  PROVE  Lockstep'
<1>1. ASSUME NEW x \in Dataowners
      PROVE  /\ PhaseOf(x) = PhaseIs(state[x]) /\ PhaseOf(x)' = PhaseIs(state'[x])
             /\ PhaseIs(state[x]) \in 0 .. 21 /\ PhaseIs(state'[x]) \in 0 .. 21
  BY PhaseValues, StreamOfState, StreamOfNextState DEF Shape
<1>2. \A x, y \in Dataowners : PhaseIs(state[x]) <= PhaseIs(state[y]) + 1
  BY <1>1 DEF Lockstep
<1>3. ASSUME NEW x \in Dataowners, NEW y \in Dataowners
      PROVE  PhaseIs(state'[x]) <= PhaseIs(state'[y]) + 1
  <2>1. CASE x = p /\ y = p
    BY <2>1, <1>1
  <2>2. CASE x = p /\ y # p
    BY <2>2, <1>1, <1>2
  <2>3. CASE x # p /\ y = p
    BY <2>3, <1>1, <1>2
  <2>4. CASE x # p /\ y # p
    BY <2>4, <1>2
  <2> QED
    BY <2>1, <2>2, <2>3, <2>4
<1> QED
  BY <1>1, <1>3 DEF Lockstep

\* States before the batches.
LEMMA EarlyPlace ==
  \A s \in {"idle", "awaitingRandomnessAndSISOSort", "awaitingRandomnessOnly",
            "awaitingSISOSort", "awaitingZipAdjacent", "awaitingZipReduce"} :
    PhaseIs(s) = 0
BY PhaseValues

\* Regression::init invokes the randomness and nothing else.
LEMMA RegressionInitStreams ==
  ASSUME Inv, Shape', StreamInv, NEW p \in Dataowners, RegressionInit(p)
  PROVE  StreamInv'
<1>0. Idle(p) /\ Shape
  BY PhaseFromState DEF Inv, RegressionInit
<1>1. /\ declared' = [declared EXCEPT ![p] = Declare(@, "Randomness", {Parties})]
      /\ houseState' = houseState
      /\ \A x \in Dataowners \ {p} :
           state'[x] = state[x] /\ sharedLists'[x] = sharedLists[x]
  BY <1>0 DEF RegressionInit, Invoke, Shape, work, house
<1>2. /\ state'[p] = "awaitingRandomnessAndSISOSort"
      /\ sharedLists'[p] # Cross(p)
      /\ state[p] = "idle"
  BY <1>0, CrossLemma DEF RegressionInit, Shape, Idle, work
<1>3. StreamOf(p)' = Declare(StreamOf(p), "Randomness", {Parties})
  <2>1. StreamOf(p)' = StartStream
    BY <1>2, StreamOfNextState
  <2> QED
    BY <2>1, <1>2, StreamOfState DEF StartStream
<1>4. OwnerStreams' /\ DealerStreams'
  BY <1>0, <1>1, <1>3, KindsOfChildren, DeclaringStep
<1>5. Lockstep'
  BY <1>0, <1>1, <1>2, EarlyPlace, LockstepFrame DEF StreamInv
<1> QED
  BY <1>4, <1>5 DEF StreamInv

\* Regression::handleReceive begins the sorts when the last list has arrived.
LEMMA HandleReceiveStreams ==
  ASSUME Inv, Shape', StreamInv, NEW p \in Dataowners, NEW q \in Dataowners,
         HandleReceive(p, q)
  PROVE  StreamInv'
<1> DEFINE T == Cross(p) \ sharedLists[p]
<1>0. q \in T /\ Collecting(p) /\ Shape
  <2>1. q \in T
    BY DEF Inv, WireInv, HandleReceive
  <2>2. OwnerPhase(p) /\ state[p] # "idle"
    BY DEF Inv, HandleReceive
  <2> QED
    BY <2>1, <2>2 DEF Inv, OwnerPhase, Idle, Sorting, Zipping, Reducing, Summed,
                      InBatch, Completed
<1>n. /\ Cardinality(T) - 1 = 0 <=> T = {q}
      /\ numPartiesAwaiting[p] = Cardinality(T)
      /\ sharedLists'[p] = sharedLists[p] \cup {q}
      /\ sharedLists[p] \subseteq Cross(p)
  <2>1. IsFiniteSet(T)
    BY CrossLemma
  <2>2. numPartiesAwaiting[p] = Cardinality(T) /\ sharedLists[p] \subseteq Cross(p)
    BY <1>0 DEF Collecting
  <2>3. sharedLists'[p] = sharedLists[p] \cup {q}
    BY <1>0 DEF Shape, HandleReceive
  <2> QED
    BY <1>0, <2>1, <2>2, <2>3, CountDownLemma
<1>h. /\ houseState' = houseState
      /\ \A x \in Dataowners \ {p} : sharedLists'[x] = sharedLists[x]
  BY <1>0 DEF HandleReceive, Shape, house
<1>s. /\ StreamOf(p) = StartStream
      /\ state[p] \in {"awaitingSISOSort", "awaitingRandomnessAndSISOSort"}
  <2>1. /\ state[p] \in {"awaitingSISOSort", "awaitingRandomnessAndSISOSort"}
        /\ sharedLists[p] # Cross(p)
    BY <1>0 DEF Collecting
  <2> QED
    BY <2>1, StreamOfState
<1>1. CASE T = {q}
  <2>1. /\ declared' = [declared EXCEPT ![p] = Declare(@, "SISOSort", DealtPairs(p))]
        /\ state' = [state EXCEPT ![p] = "awaitingSISOSort"]
    BY <1>1, <1>n DEF HandleReceive, LastAwaited, InvokePaired, Invoke
  <2>2. /\ state'[p] = "awaitingSISOSort"
        /\ \A x \in Dataowners \ {p} : state'[x] = state[x]
    BY <1>0, <2>1 DEF Shape
  <2>3. sharedLists'[p] = Cross(p)
    BY <1>1, <1>n
  <2>4. StreamOf(p)' = Declare(StreamOf(p), "SISOSort", AllDealtPairs)
    <3>1. StreamOf(p)' = SortStream
      BY <2>2, <2>3, StreamOfNextState
    <3> QED
      BY <3>1, <1>s DEF SortStream
  <2>5. OwnerStreams' /\ DealerStreams'
    BY <1>0, <1>h, <2>1, <2>2, <2>4, KindsOfChildren, SamePeerSets, DeclaringStep
  <2>6. Lockstep'
    BY <1>0, <1>s, <2>2, EarlyPlace, LockstepFrame DEF StreamInv
  <2> QED
    BY <2>5, <2>6 DEF StreamInv
<1>2. CASE T # {q}
  <2>1. UNCHANGED <<declared, state>>
    BY <1>2, <1>n DEF HandleReceive, LastAwaited, CountDown, Retire
  <2>2. sharedLists'[p] # Cross(p)
    BY <1>0, <1>2, <1>n
  <2>3. StreamOf(p)' = StreamOf(p)
    <3>1. StreamOf(p)' = StartStream
      BY <1>s, <2>1, <2>2, StreamOfNextState
    <3> QED
      BY <3>1, <1>s
  <2>4. OwnerStreams' /\ DealerStreams'
    BY <1>h, <2>1, <2>3, QuietStep
  <2>5. Lockstep'
    BY <1>0, <2>1, LockstepFrame DEF StreamInv
  <2> QED
    BY <2>4, <2>5 DEF StreamInv
<1> QED
  BY <1>1, <1>2

\* The cases of Regression::handleComplete: a dataowner stays in its phase and declares
\* nothing, or goes on to the next and declares that.
LEMMA CompletionStreams ==
  ASSUME Inv, Shape', StreamInv, NEW p \in Dataowners,
         UNCHANGED <<sharedLists, houseState>>,
         \A x \in Dataowners \ {p} : state'[x] = state[x],
         \/ PhaseIs(state'[p]) = PhaseIs(state[p])
         \/ /\ PhaseIs(state'[p]) = PhaseIs(state[p]) + 1
            /\ \A x \in Dataowners : PhaseIs(state[p]) <= PhaseIs(state[x]),
         \/ UNCHANGED declared /\ StreamOf(p)' = StreamOf(p)
         \/ \E kind \in Kinds :
              /\ declared' = [declared EXCEPT ![p] = Declare(@, kind, Pairs(p))]
              /\ StreamOf(p)' = Declare(StreamOf(p), kind, AllPairs)
         \/ \E kind \in Kinds :
              /\ declared' = [declared EXCEPT ![p] = Declare(@, kind, {Dataowners})]
              /\ StreamOf(p)' = Declare(StreamOf(p), kind, {Dataowners})
  PROVE  StreamInv'
<1>0. /\ Shape
      /\ houseState' = houseState
      /\ \A x \in Dataowners \ {p} :
           state'[x] = state[x] /\ sharedLists'[x] = sharedLists[x]
  BY DEF Inv
<1>1. Lockstep'
  BY <1>0, LockstepFrame DEF StreamInv
<1>2. CASE UNCHANGED declared /\ StreamOf(p)' = StreamOf(p)
  BY <1>0, <1>1, <1>2, QuietStep DEF StreamInv
<1>3. ASSUME NEW kind \in Kinds,
             declared' = [declared EXCEPT ![p] = Declare(@, kind, Pairs(p))],
             StreamOf(p)' = Declare(StreamOf(p), kind, AllPairs)
      PROVE  StreamInv'
  <2>1. \A ps \in PeerSets : p \in ps => (ps \in Pairs(p) <=> ps \in AllPairs)
    BY SamePeerSets
  <2>2. OwnerStreams' /\ DealerStreams'
    BY <1>0, <1>3, <2>1, DeclaringStep
  <2> QED
    BY <1>1, <2>2 DEF StreamInv
<1>4. ASSUME NEW kind \in Kinds,
             declared' = [declared EXCEPT ![p] = Declare(@, kind, {Dataowners})],
             StreamOf(p)' = Declare(StreamOf(p), kind, {Dataowners})
      PROVE  StreamInv'
  <2> DEFINE All == {Dataowners}
  <2>1. /\ declared' = [declared EXCEPT ![p] = Declare(@, kind, All)]
        /\ StreamOf(p)' = Declare(StreamOf(p), kind, All)
        /\ \A ps \in PeerSets : p \in ps => (ps \in All <=> ps \in All)
    BY <1>4
  <2> HIDE DEF All
  <2>2. OwnerStreams' /\ DealerStreams'
    BY <1>0, <2>1, DeclaringStep
  <2> QED
    BY <1>1, <2>2 DEF StreamInv
<1> QED
  BY <1>2, <1>3, <1>4


\* The streams of the phases before the batches.
EarlyStreams == {NoStream, StartStream, SortStream, ZipStream, ReduceStream}

\* The streams before the batches are prefixes of the one the zips leave.
LEMMA EarlyBelow ==
  ASSUME NEW ps \in PeerSets, NEW s \in EarlyStreams
  PROVE  s \in [PeerSets -> Seq(Kinds)] /\ Below(s, ReduceStream, ps)
<1>0. \A t \in EarlyStreams : t \in [PeerSets -> Seq(Kinds)]
  BY StreamTypes DEF EarlyStreams
<1>1. Below(NoStream, StartStream, ps)
  BY <1>0, KindsOfChildren, BelowDeclare DEF EarlyStreams, StartStream
<1>2. Below(StartStream, SortStream, ps)
  BY <1>0, KindsOfChildren, BelowDeclare DEF EarlyStreams, SortStream
<1>3. Below(SortStream, ZipStream, ps)
  BY <1>0, KindsOfChildren, BelowDeclare DEF EarlyStreams, ZipStream
<1>4. Below(ZipStream, ReduceStream, ps)
  BY <1>0, KindsOfChildren, BelowDeclare DEF EarlyStreams, ReduceStream
<1>5. Below(ReduceStream, ReduceStream, ps)
  BY <1>0, BelowOrder DEF EarlyStreams
<1>6. Below(SortStream, ReduceStream, ps)
  BY <1>0, <1>3, <1>4, BelowOrder DEF EarlyStreams
<1>7. Below(StartStream, ReduceStream, ps)
  BY <1>0, <1>2, <1>6, BelowOrder DEF EarlyStreams
<1>8. Below(NoStream, ReduceStream, ps)
  BY <1>0, <1>1, <1>7, BelowOrder DEF EarlyStreams
<1> QED
  BY <1>0, <1>4, <1>5, <1>6, <1>7, <1>8 DEF EarlyStreams

\* The stream of a state is one of those of the earlier phases or a batch's, and the
\* latter is as long as the batch is far.
LEMMA StreamOfCases ==
  ASSUME NEW q \in Dataowners, state[q] \in States
  PROVE  \/ StreamOf(q) \in EarlyStreams
         \/ state[q] = "complete" /\ StreamOf(q) = BatchStream(20)
         \/ \E j \in 1 .. 20 : state[q] = Phases[j].name /\ StreamOf(q) = BatchStream(j)
<1>1. CASE state[q] \in PhaseNames
  <2>1. PICK j \in 1 .. 20 : state[q] = Phases[j].name
    BY <1>1, PhaseValues
  <2> QED
    BY <2>1, StreamOfState
<1>2. CASE state[q] \notin PhaseNames
  <2>1. state[q] \in {"idle", "complete", "awaitingRandomnessAndSISOSort",
                      "awaitingRandomnessOnly", "awaitingSISOSort",
                      "awaitingZipAdjacent", "awaitingZipReduce"}
    BY <1>2 DEF States
  <2> QED
    BY <2>1, StreamOfState DEF EarlyStreams
<1> QED
  BY <1>1, <1>2

\* A batch that has completed at p was declared by everybody: nobody is behind p.
LEMMA NobodyBehind ==
  ASSUME Inv, StreamInv, NEW p \in Dataowners, NEW k \in 1 .. 20,
         state[p] = Phases[k].name, NEW c \in open[p], Met(p, c, NeedOf(p, c)),
         NEW q \in Dataowners
  PROVE  k <= PhaseIs(state[q])
<1> DEFINE D(x) == declared[x][Dataowners]
           L(x) == StreamOf(x)[Dataowners]
<1>0. Shape /\ OwnerPhase(p) /\ Dataowners \in PeerSets
  BY PeerSetLemma DEF Inv
<1>1. /\ c.kind = Phases[k].name /\ c.peers = Dataowners
      /\ c.kind # "Randomness" /\ NeedOf(p, c) = Dataowners
  <2>1. InBatch(p, k)
    BY <1>0, PhaseFromState
  <2>2. c.kind = Phases[k].name /\ c.peers = Dataowners
    BY <2>1 DEF InBatch, Child
  <2>3. c.kind # "Randomness"
    BY <2>2, PhaseStates
  <2> QED
    BY <2>2, <2>3 DEF NeedOf
<1>2. \A x \in Dataowners : D(x) = L(x)
  BY <1>0 DEF StreamInv, OwnerStreams
<1>3. StreamOf(p) = BatchStream(k)
  BY StreamOfState
<1>4. PICK n \in 1 .. Len(D(p)) : D(p)[n] = c.kind /\ Len(D(q)) >= n
  BY <1>1 DEF Met
<1>5. /\ Offset \in Nat
      /\ Len(L(p)) = Offset + k
      /\ \A i \in 1 .. Offset : L(p)[i] \in PairedKinds
      /\ \A i \in 1 .. k : L(p)[Offset + i] = Phases[i].name
  <2>1. k \in 0 .. 20
    OBVIOUS
  <2> QED
    BY <1>3, <2>1, BatchStreamLemma
<1>6. n = Offset + k
  <2>1. n \in 1 .. Offset + k /\ L(p)[n] = Phases[k].name
    BY <1>1, <1>2, <1>4, <1>5
  <2>2. n \notin 1 .. Offset
    <3>1. Phases[k].name \notin PairedKinds
      BY PhaseStates DEF PairedKinds
    <3> HIDE DEF L
    <3> QED
      BY <1>5, <2>1, <3>1
  <2>3. PICK i \in 1 .. k : n = Offset + i
    <3>1. n - Offset \in 1 .. k /\ n = Offset + (n - Offset)
      BY <1>5, <2>1, <2>2
    <3> QED
      BY <3>1
  <2>4. Phases[i].name = Phases[k].name
    <3> HIDE DEF L
    <3> QED
      BY <1>5, <2>1, <2>3
  <2>5. i \in 1 .. 20
    OBVIOUS
  <2> QED
    BY <2>3, <2>4, <2>5, PhaseStates
<1>7. Len(L(q)) >= Offset + k
  BY <1>2, <1>4, <1>6
<1>8. CASE StreamOf(q) \in EarlyStreams
  <2>1. Len(L(q)) \in Nat /\ Len(L(q)) <= Offset
    BY <1>0, <1>8, EarlyBelow DEF Below, Offset
  <2> HIDE DEF L
  <2> QED
    BY <1>5, <1>7, <2>1
<1>9. CASE state[q] = "complete"
  <2>1. PhaseIs(state[q]) = 21
    BY <1>9, PhaseValues
  <2>2. k <= 21
    OBVIOUS
  <2> QED
    BY <2>1, <2>2
<1>10. ASSUME NEW j \in 1 .. 20, state[q] = Phases[j].name, StreamOf(q) = BatchStream(j)
       PROVE  k <= PhaseIs(state[q])
  <2>1. j \in 0 .. 20
    OBVIOUS
  <2>2. Len(L(q)) = Offset + j
    BY <1>10, <2>1, BatchStreamLemma
  <2>3. PhaseIs(state[q]) = j
    BY <1>10, PhaseValues
  <2> HIDE DEF L
  <2> QED
    BY <1>5, <1>7, <2>2, <2>3
<1> QED
  BY <1>0, <1>8, <1>9, <1>10, StreamOfCases DEF Shape

\* A sort that completes before the randomness has arrived declares nothing.
LEMMA SortBeforeRandomnessStreams ==
  ASSUME Inv, Shape', StreamInv, NEW p \in Dataowners, NEW c \in open[p],
         SortBeforeRandomness(p, c), UNCHANGED <<sharedLists, house>>
  PROVE  StreamInv'
<1>0. Sorting(p) /\ Shape
  <2>1. ~randomnessDone[p] /\ c.kind # "Randomness"
    BY DEF SortBeforeRandomness
  <2>2. ~Idle(p)
    BY DEF Idle
  <2>3. ~Collecting(p)
    <3>1. Patron.kind = "Randomness"
      BY DEF Patron, Child
    <3> QED
      BY <3>1, <2>1 DEF Collecting, PatronOpen
  <2> QED
    BY <2>1, <2>2, <2>3, PhaseFromState DEF Inv
<1>1. /\ state'[p] \in {state[p], "awaitingRandomnessOnly"}
      /\ \A x \in Dataowners \ {p} : state'[x] = state[x]
      /\ UNCHANGED declared
  BY <1>0 DEF SortBeforeRandomness, Retire, Shape
<1>2. /\ state[p] \in {"awaitingSISOSort", "awaitingRandomnessOnly"}
      /\ sharedLists[p] = Cross(p)
  BY <1>0 DEF Sorting
<1>3. StreamOf(p) = SortStream /\ StreamOf(p)' = SortStream
  BY <1>1, <1>2, StreamOfState, StreamOfNextState
<1> QED
  BY <1>1, <1>2, <1>3, EarlyPlace, CompletionStreams DEF house

\* The randomness begins the zips where the sorts are done, and else nothing.
LEMMA RandomnessReadyStreams ==
  ASSUME Inv, Shape', StreamInv, NEW p \in Dataowners, NEW c \in open[p],
         RandomnessReady(p, c), UNCHANGED <<sharedLists, house>>
  PROVE  StreamInv'
<1>0. /\ Shape
      /\ Collecting(p) \/ Sorting(p)
  <2>1. ~randomnessDone[p]
    BY DEF RandomnessReady
  <2> QED
    BY <2>1, PhaseFromState DEF Inv, Idle
<1>1. CASE state[p] = "awaitingRandomnessOnly"
  <2>1. sharedLists[p] = Cross(p)
    BY <1>0, <1>1 DEF Collecting, Sorting
  <2>2. /\ declared' = [declared EXCEPT ![p] = Declare(@, "ZipAdjacent", Pairs(p))]
        /\ state'[p] = "awaitingZipAdjacent"
        /\ \A x \in Dataowners \ {p} : state'[x] = state[x]
    BY <1>0, <1>1 DEF RandomnessReady, InvokeZipAdjacent, InvokePaired, Invoke, Shape
  <2>3. StreamOf(p)' = Declare(StreamOf(p), "ZipAdjacent", AllPairs)
    <3>1. StreamOf(p)' = ZipStream
      BY <2>2, StreamOfNextState
    <3>2. StreamOf(p) = SortStream
      BY <1>1, <2>1, StreamOfState
    <3> QED
      BY <3>1, <3>2 DEF ZipStream
  <2> QED
    BY <1>1, <2>2, <2>3, KindsOfChildren, EarlyPlace, CompletionStreams DEF house
<1>2. CASE state[p] # "awaitingRandomnessOnly"
  <2>1. /\ UNCHANGED declared
        /\ state'[p] = "awaitingSISOSort"
        /\ \A x \in Dataowners \ {p} : state'[x] = state[x]
    BY <1>0, <1>2 DEF RandomnessReady, Retire, Shape
  <2>2. state[p] \in {"awaitingSISOSort", "awaitingRandomnessAndSISOSort"}
    BY <1>0, <1>2 DEF Collecting, Sorting
  <2>3. StreamOf(p)' = StreamOf(p)
    BY <2>1, <2>2, StreamOfState, StreamOfNextState
  <2> QED
    BY <2>1, <2>2, <2>3, EarlyPlace, CompletionStreams DEF house
<1> QED
  BY <1>1, <1>2

\* The last sort to complete begins the zips.
LEMMA SISOSortDoneStreams ==
  ASSUME Inv, Shape', StreamInv, NEW p \in Dataowners, NEW c \in open[p],
         SISOSortDone(p, c), UNCHANGED <<sharedLists, house>>
  PROVE  StreamInv'
<1>0. Sorting(p) /\ Shape /\ state[p] = "awaitingSISOSort"
  <2>1. randomnessDone[p] /\ state[p] = "awaitingSISOSort"
    BY DEF SISOSortDone
  <2>2. Collecting(p) => open[p] = {}
    BY <2>1 DEF Collecting, PatronOpen
  <2> QED
    BY <2>1, <2>2, PhaseFromState DEF Inv
<1>1. CASE LastAwaited(p)
  <2>2. /\ declared' = [declared EXCEPT ![p] = Declare(@, "ZipAdjacent", Pairs(p))]
        /\ state'[p] = "awaitingZipAdjacent"
        /\ \A x \in Dataowners \ {p} : state'[x] = state[x]
    BY <1>0, <1>1 DEF SISOSortDone, InvokeZipAdjacent, InvokePaired, Invoke, Shape
  <2>3. StreamOf(p)' = Declare(StreamOf(p), "ZipAdjacent", AllPairs)
    <3>1. StreamOf(p)' = ZipStream
      BY <2>2, StreamOfNextState
    <3>2. StreamOf(p) = SortStream
      BY <1>0, StreamOfState DEF Sorting
    <3> QED
      BY <3>1, <3>2 DEF ZipStream
  <2> QED
    BY <1>0, <2>2, <2>3, KindsOfChildren, EarlyPlace, CompletionStreams DEF house
<1>2. CASE ~LastAwaited(p)
  <2>1. UNCHANGED <<declared, state>>
    BY <1>2 DEF SISOSortDone, CountDown, Retire
  <2>2. StreamOf(p)' = StreamOf(p)
    BY <2>1, StreamOfUnchanged
  <2> QED
    BY <2>1, <2>2, CompletionStreams DEF house
<1> QED
  BY <1>1, <1>2

\* The last zip to complete begins the reductions.
LEMMA ZipAdjacentDoneStreams ==
  ASSUME Inv, Shape', StreamInv, NEW p \in Dataowners, NEW c \in open[p],
         ZipAdjacentDone(p, c), UNCHANGED <<sharedLists, house>>
  PROVE  StreamInv'
<1>0. Shape /\ state[p] = "awaitingZipAdjacent"
  BY DEF Inv, ZipAdjacentDone
<1>1. CASE LastAwaited(p)
  <2>2. /\ declared' = [declared EXCEPT ![p] = Declare(@, "ZipReduce", Pairs(p))]
        /\ state'[p] = "awaitingZipReduce"
        /\ \A x \in Dataowners \ {p} : state'[x] = state[x]
    BY <1>0, <1>1 DEF ZipAdjacentDone, InvokePaired, Invoke, Shape
  <2>3. StreamOf(p)' = Declare(StreamOf(p), "ZipReduce", AllPairs)
    <3>1. StreamOf(p)' = ReduceStream
      BY <2>2, StreamOfNextState
    <3>2. StreamOf(p) = ZipStream
      BY <1>0, StreamOfState
    <3> QED
      BY <3>1, <3>2 DEF ReduceStream
  <2> QED
    BY <1>0, <2>2, <2>3, KindsOfChildren, EarlyPlace, CompletionStreams DEF house
<1>2. CASE ~LastAwaited(p)
  <2>1. UNCHANGED <<declared, state>>
    BY <1>2 DEF ZipAdjacentDone, CountDown, Retire
  <2>2. StreamOf(p)' = StreamOf(p)
    BY <2>1, StreamOfUnchanged
  <2> QED
    BY <2>1, <2>2, CompletionStreams DEF house
<1> QED
  BY <1>1, <1>2

\* The first batch: nobody can be behind somebody who is before the batches.
LEMMA ZipReduceDoneStreams ==
  ASSUME Inv, Shape', StreamInv, NEW p \in Dataowners, NEW c \in open[p],
         ZipReduceDone(p, c), UNCHANGED <<sharedLists, house>>
  PROVE  StreamInv'
<1>0. Shape /\ state[p] = "awaitingZipReduce"
  BY DEF Inv, ZipReduceDone
<1>1. CASE LastAwaited(p)
  <2> DEFINE name == Phases[1].name
  <2>0. 1 \in 1 .. 20 /\ 0 \in 0 .. 19 /\ 0 + 1 = 1
    OBVIOUS
  <2>1. name \in Kinds
    BY <2>0, PhaseStates
  <2>2. /\ declared' = [declared EXCEPT ![p] = Declare(@, name, {Dataowners})]
        /\ state'[p] = name
        /\ \A x \in Dataowners \ {p} : state'[x] = state[x]
    BY <1>0, <1>1 DEF ZipReduceDone, EnterPhase, Invoke, Shape
  <2>3. StreamOf(p)' = Declare(StreamOf(p), name, {Dataowners})
    <3>1. StreamOf(p)' = BatchStream(1)
      BY <2>0, <2>2, StreamOfNextState
    <3>2. StreamOf(p) = ReduceStream
      BY <1>0, StreamOfState
    <3>3. BatchStream(0) = ReduceStream
      BY <2>0, BatchStreamDeclares
    <3>4. BatchStream(0 + 1) = Declare(BatchStream(0), Phases[0 + 1].name, {Dataowners})
      BY <2>0, BatchStreamDeclares
    <3> QED
      BY <3>1, <3>2, <3>3, <3>4, <2>0
  <2>4. /\ PhaseIs(state[p]) = 0 /\ PhaseIs(state'[p]) = 1
        /\ \A x \in Dataowners : 0 <= PhaseIs(state[x])
    <3>1. PhaseIs(state[p]) = 0
      BY <1>0, EarlyPlace
    <3>2. PhaseIs(state'[p]) = 1
      BY <2>0, <2>2, PhaseValues
    <3>3. \A x \in Dataowners : PhaseIs(state[x]) \in 0 .. 21
      BY <1>0, PhaseValues DEF Shape
    <3> QED
      BY <3>1, <3>2, <3>3
  <2> HIDE DEF name
  <2> QED
    BY <1>0, <2>0, <2>1, <2>2, <2>3, <2>4, CompletionStreams DEF house
<1>2. CASE ~LastAwaited(p)
  <2>1. UNCHANGED <<declared, state>>
    BY <1>2 DEF ZipReduceDone, CountDown, Retire
  <2>2. StreamOf(p)' = StreamOf(p)
    BY <2>1, StreamOfUnchanged
  <2> QED
    BY <2>1, <2>2, CompletionStreams DEF house
<1> QED
  BY <1>1, <1>2

\* A batch that completes begins the next, and nobody is behind by then.
LEMMA BatchDoneStreams ==
  ASSUME Inv, Shape', StreamInv, NEW p \in Dataowners, NEW c \in open[p],
         BatchDone(p, c), Met(p, c, NeedOf(p, c)), UNCHANGED <<sharedLists, house>>
  PROVE  StreamInv'
<1>0. Shape
  BY DEF Inv
<1>1. PICK k \in 1 .. 19 :
        /\ state[p] = Phases[k].name
        /\ EnterPhase(p, c, k + 1, shares[p] \cup Phases[k].yields)
  <2>1. 1 .. Len(Phases) - 1 = 1 .. 19
    BY PhasesLen
  <2>2. \E k \in 1 .. Len(Phases) - 1 :
          /\ state[p] = Phases[k].name
          /\ EnterPhase(p, c, k + 1, shares[p] \cup Phases[k].yields)
    BY DEF BatchDone
  <2> QED
    BY <2>1, <2>2
<1> DEFINE name == Phases[k + 1].name
<1>2. k \in 1 .. 20 /\ k + 1 \in 1 .. 20 /\ k \in 0 .. 19
  OBVIOUS
<1>3. name \in Kinds
  BY <1>2, PhaseStates
<1>4. /\ declared' = [declared EXCEPT ![p] = Declare(@, name, {Dataowners})]
      /\ state'[p] = name
      /\ \A x \in Dataowners \ {p} : state'[x] = state[x]
  BY <1>0, <1>1 DEF EnterPhase, Invoke, Shape
<1>5. StreamOf(p)' = Declare(StreamOf(p), name, {Dataowners})
  <2>1. StreamOf(p)' = BatchStream(k + 1)
    BY <1>2, <1>4, StreamOfNextState
  <2>2. StreamOf(p) = BatchStream(k)
    BY <1>1, <1>2, StreamOfState
  <2> QED
    BY <1>2, <2>1, <2>2, BatchStreamDeclares
<1>6. /\ PhaseIs(state'[p]) = PhaseIs(state[p]) + 1
      /\ \A x \in Dataowners : PhaseIs(state[p]) <= PhaseIs(state[x])
  <2>1. PhaseIs(state[p]) = k /\ PhaseIs(state'[p]) = k + 1
    BY <1>1, <1>2, <1>4, PhaseValues
  <2>2. \A x \in Dataowners : k <= PhaseIs(state[x])
    BY <1>1, <1>2, NobodyBehind
  <2> QED
    BY <2>1, <2>2
<1> HIDE DEF name
<1> QED
  BY <1>3, <1>4, <1>5, <1>6, CompletionStreams DEF house

\* The last batch: everybody has declared it.
LEMMA BatchedLookupDoneStreams ==
  ASSUME Inv, Shape', StreamInv, NEW p \in Dataowners, NEW c \in open[p],
         BatchedLookupDone(p, c)
  PROVE  StreamInv'
<1>0. 20 \in 1 .. 20 /\ Shape /\ state[p] = Phases[20].name /\ Met(p, c, NeedOf(p, c))
  BY PhasesLen DEF Inv, BatchedLookupDone
<1>1. /\ UNCHANGED <<declared, sharedLists, houseState>>
      /\ state'[p] = "complete"
      /\ \A x \in Dataowners \ {p} : state'[x] = state[x]
  BY <1>0 DEF BatchedLookupDone, Retire, Shape, house
<1>2. StreamOf(p)' = StreamOf(p)
  BY <1>0, <1>1, StreamOfState, StreamOfNextState
<1>3. /\ PhaseIs(state'[p]) = PhaseIs(state[p]) + 1
      /\ \A x \in Dataowners : PhaseIs(state[p]) <= PhaseIs(state[x])
  <2>1. PhaseIs(state[p]) = 20 /\ PhaseIs(state'[p]) = 21
    BY <1>0, <1>1, PhaseValues
  <2>2. \A x \in Dataowners : 20 <= PhaseIs(state[x])
    BY <1>0, NobodyBehind
  <2> QED
    BY <2>1, <2>2
<1> QED
  BY <1>1, <1>2, <1>3, CompletionStreams


\* The streams of all phases are prefixes of the last batch's.
LEMMA StreamPrefix ==
  ASSUME NEW ps \in PeerSets,
         NEW s \in EarlyStreams \cup {BatchStream(k) : k \in 1 .. 20}
  PROVE  Below(s, BatchStream(20), ps)
<1>0. 20 \in 0 .. 20 /\ Dataowners \in PeerSets
  BY PeerSetLemma
<1>t. ReduceStream \in [PeerSets -> Seq(Kinds)] /\ BatchStream(20) \in [PeerSets -> Seq(Kinds)]
  BY <1>0, StreamTypes, BatchStreamLemma
<1>1. CASE ps # Dataowners
  <2>1. \A k \in 1 .. 20 : BatchStream(k)[ps] = ReduceStream[ps]
    BY <1>1 DEF BatchStream
  <2>2. 20 \in 1 .. 20
    OBVIOUS
  <2>3. CASE s \in EarlyStreams
    BY <2>1, <2>2, <2>3, EarlyBelow DEF Below
  <2>4. CASE s \in {BatchStream(k) : k \in 1 .. 20}
    <3>1. s[ps] = ReduceStream[ps] /\ BatchStream(20)[ps] = ReduceStream[ps]
      BY <2>1, <2>2, <2>4
    <3>2. Len(ReduceStream[ps]) \in Nat
      BY <1>t
    <3> QED
      BY <3>1, <3>2 DEF Below
  <2> QED
    BY <2>3, <2>4
<1>2. CASE ps = Dataowners
  <2>1. /\ Offset \in Nat
        /\ Len(BatchStream(20)[ps]) = Offset + 20
        /\ \A n \in 1 .. Offset : BatchStream(20)[ps][n] = ReduceStream[ps][n]
        /\ \A i \in 1 .. 20 : BatchStream(20)[ps][Offset + i] = Phases[i].name
    BY <1>0, <1>2, BatchStreamLemma
  <2>2. CASE s \in EarlyStreams
    <3>1. Below(ReduceStream, BatchStream(20), ps)
      <4>1. Len(ReduceStream[ps]) = Offset
        BY <1>2 DEF Offset
      <4>2. Len(ReduceStream[ps]) <= Len(BatchStream(20)[ps])
        BY <2>1, <4>1
      <4>3. \A n \in 1 .. Len(ReduceStream[ps]) :
              ReduceStream[ps][n] = BatchStream(20)[ps][n]
        BY <2>1, <4>1
      <4> QED
        BY <4>2, <4>3 DEF Below
    <3>2. s \in [PeerSets -> Seq(Kinds)] /\ Below(s, ReduceStream, ps)
      BY <2>2, EarlyBelow
    <3>3. /\ Len(s[ps]) \in Nat /\ Len(ReduceStream[ps]) \in Nat
          /\ Len(BatchStream(20)[ps]) \in Nat
      BY <1>t, <3>2
    <3> QED
      BY <3>1, <3>2, <3>3 DEF Below
  <2>3. ASSUME NEW k \in 1 .. 20, s = BatchStream(k)
        PROVE  Below(s, BatchStream(20), ps)
    <3>0. k \in 0 .. 20
      OBVIOUS
    <3> DEFINE u == BatchStream(k)[ps]
               v == BatchStream(20)[ps]
    <3>1. /\ Len(u) = Offset + k
          /\ \A n \in 1 .. Offset : u[n] = ReduceStream[ps][n]
          /\ \A i \in 1 .. k : u[Offset + i] = Phases[i].name
      BY <1>2, <3>0, BatchStreamLemma
    <3>2. /\ Len(v) = Offset + 20
          /\ \A n \in 1 .. Offset : v[n] = ReduceStream[ps][n]
          /\ \A i \in 1 .. 20 : v[Offset + i] = Phases[i].name
      BY <2>1
    <3> HIDE DEF u, v
    <3>3. ASSUME NEW n \in 1 .. Offset + k PROVE u[n] = v[n]
      <4>1. CASE n \in 1 .. Offset
        BY <3>1, <3>2, <4>1
      <4>2. CASE n \notin 1 .. Offset
        <5>1. PICK i \in 1 .. k : n = Offset + i
          <6>1. n - Offset \in 1 .. k /\ n = Offset + (n - Offset)
            BY <2>1, <4>2
          <6> QED
            BY <6>1
        <5>2. i \in 1 .. 20
          OBVIOUS
        <5> QED
          BY <5>1, <5>2, <3>1, <3>2
      <4> QED
        BY <4>1, <4>2
    <3>4. Offset + k <= Offset + 20
      BY <2>1
    <3>5. Len(u) <= Len(v) /\ \A n \in 1 .. Len(u) : u[n] = v[n]
      BY <3>1, <3>2, <3>3, <3>4
    <3> QED
      BY <2>3, <3>5 DEF Below, u, v
  <2> QED
    BY <2>2, <2>3
<1> QED
  BY <1>1, <1>2


\* RegressionRandomnessHouse::init declares for every pair what its dataowners will.
LEMMA HouseInitStreams ==
  ASSUME Inv, StreamInv, HouseInit
  PROVE  StreamInv'
<1>c. Dealer \in Parties /\ Dataowners \subseteq Parties /\ Dealer \notin Dataowners
  BY PartiesAssumption DEF Parties
<1>1. /\ UNCHANGED <<state, sharedLists>>
      /\ houseState' # "idle"
      /\ declared'[Dealer] = SortStream
      /\ \A x \in Dataowners : declared'[x] = declared[x]
  BY <1>c DEF HouseInit, owner, work, Inv, Shape, HouseStreams, SortStream, StartStream
<1>2. \A x \in Dataowners : StreamOf(x)' = StreamOf(x) /\ PhaseOf(x)' = PhaseOf(x)
  BY <1>1, StreamOfUnchanged
<1>3. OwnerStreams'
  BY <1>1, <1>2 DEF StreamInv, OwnerStreams
<1>4. DealerStreams'
  BY <1>1 DEF DealerStreams
<1>5. Lockstep'
  BY <1>1, <1>2 DEF StreamInv, Lockstep
<1> QED
  BY <1>3, <1>4, <1>5 DEF StreamInv

\* Steps that touch neither the streams nor the dataowners.
LEMMA OtherStreams ==
  ASSUME StreamInv, UNCHANGED <<declared, state, sharedLists>>,
         (houseState' = "idle") <=> (houseState = "idle")
  PROVE  StreamInv'
<1>1. \A x \in Dataowners : StreamOf(x)' = StreamOf(x) /\ PhaseOf(x)' = PhaseOf(x)
  BY StreamOfUnchanged
<1>2. OwnerStreams'
  BY <1>1 DEF StreamInv, OwnerStreams
<1>3. DealerStreams'
  BY DEF StreamInv, DealerStreams
<1>4. Lockstep'
  BY <1>1 DEF StreamInv, Lockstep
<1> QED
  BY <1>2, <1>3, <1>4 DEF StreamInv

\* Before any party has started no stream has been declared.
LEMMA InitStreams == Init => StreamInv
<1> SUFFICES ASSUME Init PROVE StreamInv
  OBVIOUS
<1>c. Dealer \in Parties /\ Dataowners \subseteq Parties
  BY DEF Parties
<1>1. OwnerStreams
  <2>1. \A x \in Dataowners : StreamOf(x) = NoStream
    BY StreamOfState DEF Init
  <2> QED
    BY <1>c, <2>1 DEF Init, OwnerStreams
<1>2. DealerStreams
  BY <1>c DEF Init, DealerStreams, NoStream
<1>3. Lockstep
  <2>1. \A x \in Dataowners : PhaseOf(x) = 0
    BY StreamOfState, EarlyPlace DEF Init
  <2> QED
    BY <2>1 DEF Lockstep
<1> QED
  BY <1>1, <1>2, <1>3 DEF StreamInv

\* Every step keeps the streams, by the lemma of its action.
LEMMA NextStreams == Inv /\ Inv' /\ StreamInv /\ [Next]_vars => StreamInv'
<1> SUFFICES ASSUME Inv, Shape', StreamInv, [Next]_vars PROVE StreamInv'
  BY DEF Inv
<1>1. ASSUME NEW p \in Dataowners, RegressionInit(p) PROVE StreamInv'
  BY <1>1, RegressionInitStreams
<1>2. ASSUME NEW p \in Dataowners, NEW q \in Dataowners, HandleReceive(p, q)
      PROVE  StreamInv'
  BY <1>2, HandleReceiveStreams
<1>3. ASSUME NEW p \in Dataowners, NEW c \in open[p], HandleComplete(p, c)
      PROVE  StreamInv'
  <2>1. UNCHANGED <<sharedLists, house>> /\ Met(p, c, NeedOf(p, c))
    BY <1>3 DEF HandleComplete
  <2>2. \/ SortBeforeRandomness(p, c) \/ RandomnessReady(p, c)
        \/ SISOSortDone(p, c) \/ ZipAdjacentDone(p, c) \/ ZipReduceDone(p, c)
        \/ BatchDone(p, c)
    BY <1>3 DEF HandleComplete
  <2> QED
    BY <2>1, <2>2, SortBeforeRandomnessStreams, RandomnessReadyStreams,
       SISOSortDoneStreams, ZipAdjacentDoneStreams, ZipReduceDoneStreams,
       BatchDoneStreams
<1>4. ASSUME NEW p \in Dataowners, NEW c \in open[p], BatchedLookupDone(p, c)
      PROVE  StreamInv'
  BY <1>4, BatchedLookupDoneStreams
<1>5. CASE HouseInit
  BY <1>5, HouseInitStreams
<1>6. ASSUME NEW c \in open[Dealer], HouseHandleComplete(c) PROVE StreamInv'
  <2>1. UNCHANGED <<declared, state, sharedLists>>
    BY <1>6 DEF HouseHandleComplete, Retire, owner, work
  <2>2. houseState # "idle"
    BY DEF Inv, HouseInv
  <2>3. houseState' # "idle"
    BY <1>6, <2>2 DEF HouseHandleComplete
  <2> QED
    BY <2>1, <2>2, <2>3, OtherStreams
<1>7. ASSUME NEW r \in Recipients,
             ReceiverInit(r) \/ \E m \in resultWire : ReceiverHandleReceive(r, m)
      PROVE  StreamInv'
  <2>1. UNCHANGED <<declared, state, sharedLists, houseState>>
    BY <1>7 DEF ReceiverInit, ReceiverHandleReceive, owner, work, house
  <2> QED
    BY <2>1, OtherStreams
<1>8. CASE UNCHANGED vars
  <2>1. UNCHANGED <<declared, state, sharedLists, houseState>>
    BY <1>8 DEF vars, owner, work, house
  <2> QED
    BY <2>1, OtherStreams
<1> QED
  BY <1>1, <1>2, <1>3, <1>4, <1>5, <1>6, <1>7, <1>8 DEF Next, Terminated

\* What every party has declared for a peer set it belongs to is fixed by its phase.
THEOREM StreamsHold == Spec => []StreamInv
<1>1. Spec => []Inv
  BY InvHolds
<1>2. Init => StreamInv
  BY InitStreams
<1>3. Inv /\ Inv' /\ StreamInv /\ [Next]_vars => StreamInv'
  BY NextStreams
<1> QED
  BY <1>1, <1>2, <1>3, PTL DEF Spec

\* The twenty batches are passed together: no dataowner begins a batch, or completes,
\* before all others have begun the one before.
THEOREM LockstepHolds == Spec => []Lockstep
<1>1. StreamInv => Lockstep
  BY DEF StreamInv
<1> QED
  BY <1>1, StreamsHold, PTL

\* The library joins the children of two parties by their place in the stream of a
\* peer set alone: in a regression query they are always children of one kind, also
\* where a pair of dataowners is all the dataowners there are.
THEOREM MatchedHolds == Spec => []Matched
<1>1. Inv /\ StreamInv => Matched
  <2> SUFFICES ASSUME Inv, StreamInv, NEW ps \in PeerSets, NEW p \in ps, NEW q \in ps,
                      NEW n \in (1 .. Len(declared[p][ps]))
                                  \cap (1 .. Len(declared[q][ps]))
               PROVE  declared[p][ps][n] = declared[q][ps][n]
    BY DEF Matched
  <2>1. ASSUME NEW x \in ps
        PROVE  \E s \in EarlyStreams \cup {BatchStream(k) : k \in 1 .. 20} :
                 declared[x][ps] = s[ps]
    <3>1. x \in Dataowners \/ x = Dealer
      BY DEF PeerSets, Parties, Pairs, DealtPairs, Pair, DealtPair, Cross
    <3>2. CASE x \in Dataowners
      <4>1. declared[x][ps] = StreamOf(x)[ps]
        BY <3>2 DEF StreamInv, OwnerStreams
      <4>2. StreamOf(x) \in EarlyStreams \cup {BatchStream(k) : k \in 1 .. 20}
        <5>1. state[x] \in States
          BY <3>2 DEF Inv, Shape
        <5>2. 20 \in 1 .. 20
          OBVIOUS
        <5> QED
          BY <3>2, <5>1, <5>2, StreamOfCases
      <4> QED
        BY <4>1, <4>2
    <3>3. CASE x = Dealer
      <4>1. declared[x][ps] = IF houseState = "idle" THEN <<>> ELSE SortStream[ps]
        BY <3>3 DEF StreamInv, DealerStreams
      <4>2. NoStream[ps] = <<>>
        BY DEF NoStream
      <4>3. NoStream \in EarlyStreams /\ SortStream \in EarlyStreams
        BY DEF EarlyStreams
      <4> QED
        BY <4>1, <4>2, <4>3
    <3> QED
      BY <3>1, <3>2, <3>3
  <2>2. ASSUME NEW x \in ps, n \in 1 .. Len(declared[x][ps])
        PROVE  declared[x][ps][n] = BatchStream(20)[ps][n]
    <3>1. PICK s \in EarlyStreams \cup {BatchStream(k) : k \in 1 .. 20} :
            declared[x][ps] = s[ps]
      BY <2>1
    <3> QED
      BY <2>2, <3>1, StreamPrefix DEF Below
  <2> QED
    BY <2>2
<1> QED
  BY <1>1, InvHolds, StreamsHold, PTL
=============================================================================
