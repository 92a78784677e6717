----------------------------- MODULE Regression -----------------------------
(***************************************************************************)
(* The regression query: dataowner::Regression at every dataowner,         *)
(* dealer::RegressionRandomnessHouse and recipient::RegressionReceiver.    *)
(*                                                                         *)
(* It starts as a moments query does, with lists, randomness and sorts     *)
(* arriving in any order; then come two paired phases (ZipAdjacent and     *)
(* ZipReduce) and twenty batches that all dataowners run together.  What a *)
(* batch computes is abstracted to the names of the shares it reads and    *)
(* fills, and to what it draws from the dispensers.                        *)
(***************************************************************************)
EXTENDS Fronctocol, Integers, RegressionCounts

VARIABLES
  state,                      \* Regression::state, idle or complete
  numPartiesAwaiting,         \* Regression::numPartiesAwaiting
  randomnessDone,             \* Regression::randomnessDone
  sharedLists, sortedLists,   \* partners whose list is there, is sorted
  vectorZippedAdjacent,       \* partners whose list is zipped
  startModulusPayloadVector,  \* partners whose reduced list is in the sums
  randomness,                 \* gets left in the dispensers
  shares,                     \* the members of Regression that are computed
  unset,                      \* members that were read when they were not
  wire, resultWire,           \* list shares, result shares in flight
  houseState, numDealersRemaining,       \* RegressionRandomnessHouse
  receiverState, numDataowners, results  \* RegressionReceiver

work == <<randomnessDone, sharedLists, sortedLists, vectorZippedAdjacent,
          startModulusPayloadVector, randomness, shares, unset>>
owner == <<state, numPartiesAwaiting, work>>
house == <<houseState, numDealersRemaining>>
receiver == <<receiverState, numDataowners, results>>
vars == <<declared, open, owner, wire, resultWire, house, receiver>>

RunState == {"idle", "running", "complete"}

-----------------------------------------------------------------------------
(* What each phase needs and leaves.  takes: gets from the dispensers; reads: *)
(* members the handler uses to set the phase up; drops: those it moves out;   *)
(* sets: those it assigns before it invokes; yields: those the children fill  *)

Phase(name, takes, reads, drops, sets, yields) ==
  [name |-> name, takes |-> takes, reads |-> reads, drops |-> drops,
   sets |-> sets, yields |-> yields]

d == num_IVs
pairs == (d * (d + 1)) \div 2      \* entries on or above the diagonal

\* Lift the sums to the large modulus; blind the matrix with a random one.
MatrixPhases ==
  << Phase("awaitingBatchedModConvUp", [modConvUp |-> d * d + d + 3],
           {}, {}, {}, {"batch"}),
     Phase("awaitingMatrixMultiply",
           [randomMatrix |-> 1, matrix |-> d * d * (d + 1)], {"batch"}, {"batch"},
           {"matrixShare", "vectorShare", "ySquaredShare", "yShare", "oneShare",
            "detShare", "m", "r"}, {"matMultiplyOutput"}) >>

\* Open the blinded matrix, invert it in the clear, unblind.
InversePhases ==
  << Phase("awaitingMatrixReveal", <<>>, {"matMultiplyOutput"}, {},
           {"vectorShare"}, {"batch"}),
     Phase("awaitingRegressionMultiply", [final |-> d],
           {"batch", "vectorShare", "r", "detShare"}, {"batch", "vectorShare"},
           {"det"}, {"regressionMultiplyOutput"}) >>

\* The sign of each numerator, and its absolute value.
SignPhases ==
  << Phase("awaitingFirstCompare", [compareEnd |-> d],
           {"regressionMultiplyOutput"}, {}, {}, {"batch"}),
     Phase("awaitingFirstTypeCastFromBit", [typeCast |-> d], {"batch"},
           {"batch"}, {}, {"castBatch"}),
     Phase("awaitingNegativeCorrectionMultiply", [final |-> d],
           {"castBatch", "regressionMultiplyOutput"}, {"castBatch"},
           {"negativeOrPositiveOneShares"}, {"negativeCorrectionMultiplyOutput"}) >>

\* The coefficients, with their sign put back.
CoefficientPhases ==
  << Phase("awaitingDivision", [divide |-> d],
           {"negativeCorrectionMultiplyOutput", "det", "detShare"}, {}, {},
           {"outputWeightShares"}),
     Phase("awaitingNegativeRecorrectionMultiply", [final |-> d],
           {"outputWeightShares", "negativeOrPositiveOneShares"}, {}, {},
           {"beta_i"}) >>

\* The error terms: four rounds of products, then one of quotients.
FirstProducts ==
  << Phase("awaitingFirstMultiplyForErrorTerms", [final |-> 2 * pairs + d + 2],
           {"beta_i", "m", "oneShare", "ySquaredShare", "yShare"}, {}, {},
           {"beta_ibeta_j", "x_ix_jn", "beta_ix_iy", "ySquaredn",
            "ySumThenSquared"}) >>
SecondProducts ==
  << Phase("awaitingSecondMultiplyForErrorTerms", [final |-> 2 * pairs + 2 * d],
           {"beta_ibeta_j", "x_ix_jn", "m", "oneShare", "beta_ix_iy", "det",
            "detShare", "r"}, {}, {},
           {"beta_ibeta_jx_ix_jn", "beta_ibeta_jx_ix_j", "beta_ix_iyn",
            "X_T_X_inv_diag_reweighted"}) >>
ThirdProducts ==
  << Phase("awaitingThirdMultiplyForErrorTerms", [final |-> d + 2],
           {"ySquaredShare", "beta_ibeta_jx_ix_j", "beta_ix_iy", "oneShare",
            "ySquaredn", "beta_ibeta_jx_ix_jn", "beta_ix_iyn", "ySumThenSquared",
            "X_T_X_inv_diag_reweighted", "det", "detShare"}, {},
           {"numer_MSE", "denom_MSE", "numer_RSquared", "denom_RSquared",
            "denom_F_statistic"},
           {"X_T_X_inv_diag_s_e", "denom_MSE_reweighted", "numer_F_statistic"}) >>
QuotientPhases ==
  << Phase("awaitingFourthMultiplyForErrorTerms", [final |-> d],
           {"denom_MSE_reweighted", "beta_ibeta_j"}, {}, {},
           {"t_statisticNumerators"}),
     Phase("awaitingDivisionForErrorTerms", [divide |-> 2 * d + 3],
           {"numer_MSE", "denom_MSE", "numer_RSquared", "denom_RSquared",
            "X_T_X_inv_diag_s_e", "denom_MSE_reweighted", "numer_F_statistic",
            "denom_F_statistic", "t_statisticNumerators"}, {}, {},
           {"meanSquareErrorShare", "RSquaredShare", "meanSquareErrorCoeffs",
            "F_statistic", "t_statisticsSquared"}) >>

\* The p values: find the row of the tables by the count ...
RowPhases ==
  << Phase("awaitingCompareForFtStatistics",
           [compare |-> (F_rows - 1) + (t_rows - 1)], {}, {}, {}, {"batch"}),
     Phase("awaitingBatchedTypeCastFromBit",
           [typeCast |-> (F_rows - 1) + (t_rows - 1)], {"batch"}, {"batch"}, {},
           {"castBatch"}) >>

\* Mutant: the column is clamped before the statistics have been compared.
ClampTooEarly ==
  << Phase("awaitingFifthMultiplyForErrorTerms", [final |-> d + 1],
           {"clampBatch", "F_statistic", "t_statisticsSquared"}, {"clampBatch"},
           {}, {"F_statistic_col_index", "t_statistic_col_indices"}) >>

\* ... and the column by the statistic, clamped to the table, ...
ColumnPhases ==
  << Phase("awaitingCompareForFtStatisticsEndModulus", [compareEnd |-> d + 1],
           {"castBatch", "F_statistic", "t_statisticsSquared"}, {"castBatch"},
           {"F_row_id_share", "t_row_id_share"}, {"batch"}),
     Phase("awaitingBatchedTypeCastFromBitLast", [typeCast |-> d + 1],
           {"batch"}, {"batch"}, {}, {"clampBatch"}),
     Phase("awaitingFifthMultiplyForErrorTerms", [final |-> d + 1],
           {"clampBatch", "F_statistic", "t_statisticsSquared"}, {"clampBatch"},
           {}, {"F_statistic_col_index", "t_statistic_col_indices"}) >>

\* ... and look up.
LookupPhases ==
  << Phase("awaitingBatchedLookup", [F_lookup |-> 1, t_lookup |-> d],
           {"F_statistic_col_index", "F_statistic", "t_statistic_col_indices",
            "t_statisticsSquared", "F_row_id_share", "t_row_id_share"}, {}, {},
           {"F_p_value", "t_p_values"}) >>

Phases ==
  MatrixPhases \o InversePhases \o SignPhases \o CoefficientPhases
    \o FirstProducts \o SecondProducts \o ThirdProducts \o QuotientPhases
    \o RowPhases \o ColumnPhases \o LookupPhases
PhaseNames == {Phases[k].name : k \in DOMAIN Phases}

\* What goes to the recipients.
Sent == {"beta_i", "meanSquareErrorShare", "RSquaredShare",
         "meanSquareErrorCoeffs", "F_p_value", "t_p_values"}

\* RegressionRandomness as the patron fills it; zipAdjacent and factory are the
\* amounts in each partner's dispenser.
DealtRandomness ==
  [modConvUp |-> numModConvUpNeeded, divide |-> numDivideNeeded,
   zipAdjacent |-> numConditionalEvaluateNeeded,
   factory |-> numBeaverTripleForFactoryNeeded,
   matrix |-> numBeaverTripleForMatrixMultiplyNeeded,
   randomMatrix |-> numRandomSquareMatrixNeeded,
   final |-> numBeaverTripleForFinalMultiplyNeeded,
   compareEnd |-> numCompareEndModulusNeeded, compare |-> numCompareNeeded,
   typeCast |-> numTypeCastFromBitNeeded,
   F_lookup |-> numTableLookupFNeeded, t_lookup |-> numTableLookuptNeeded]
NoRandomness == [k \in DOMAIN DealtRandomness |-> 0]

Draw(rand, takes) ==
  [k \in DOMAIN rand |-> IF k \in DOMAIN takes THEN rand[k] - takes[k] ELSE rand[k]]

\* One RegressionPayloadCompute for every two adjacent rows of a list, each with
\* a little dispenser of its own.
FactoryTakes == (batchSize - 1) * verticalNonDV_numIVs * (verticalDV_numIVs + 1)

-----------------------------------------------------------------------------
Init ==
  /\ declared = [p \in Parties |-> NoStream]
  /\ open = [p \in Parties |-> {}]
  /\ state = [p \in Dataowners |-> "idle"]
  /\ numPartiesAwaiting = [p \in Dataowners |-> 0]
  /\ randomnessDone = [p \in Dataowners |-> FALSE]
  /\ sharedLists = [p \in Dataowners |-> {}]
  /\ sortedLists = [p \in Dataowners |-> {}]
  /\ vectorZippedAdjacent = [p \in Dataowners |-> {}]
  /\ startModulusPayloadVector = [p \in Dataowners |-> {}]
  /\ randomness = [p \in Dataowners |-> NoRandomness]
  /\ shares = [p \in Dataowners |-> {}]
  /\ unset = [p \in Dataowners |-> {}]
  /\ wire = {}
  /\ resultWire = {}
  /\ houseState = "idle"
  /\ numDealersRemaining = 0
  /\ receiverState = [r \in Recipients |-> "idle"]
  /\ numDataowners = [r \in Recipients |-> 0]
  /\ results = [r \in Recipients |-> {}]

Invoke(p, done, kind, S) ==
  /\ declared' = [declared EXCEPT ![p] = Declare(@, kind, S)]
  /\ open' = [open EXCEPT ![p] = (@ \ done) \cup Children(kind, S)]

Retire(p, done) ==
  /\ open' = [open EXCEPT ![p] = @ \ done]
  /\ UNCHANGED declared

\* One child per partner; numPartiesAwaiting counts them.
InvokePaired(p, done, kind, S, newState) ==
  /\ Invoke(p, done, kind, S)
  /\ numPartiesAwaiting' = [numPartiesAwaiting EXCEPT ![p] = Cardinality(Cross(p))]
  /\ state' = [state EXCEPT ![p] = newState]

\* One of the awaited parties or children is through, and it is not the last.
CountDown(p, done) ==
  /\ numPartiesAwaiting' = [numPartiesAwaiting EXCEPT ![p] = @ - 1]
  /\ Retire(p, done)
  /\ UNCHANGED state

LastAwaited(p) == numPartiesAwaiting[p] - 1 = 0

\* Mutant: the batches run with each partner alone, not with all dataowners.
EnterInPairs(p, c, k, have) ==
  /\ unset' = [unset EXCEPT ![p] = @ \cup (Phases[k].reads \ have)]
  /\ shares' = [shares EXCEPT ![p] = (have \ Phases[k].drops) \cup Phases[k].sets]
  /\ Invoke(p, {c}, Phases[k].name, Pairs(p))
  /\ randomness' = [randomness EXCEPT ![p] = Draw(@, Phases[k].takes)]
  /\ state' = [state EXCEPT ![p] = Phases[k].name]

\* Set up batch k with the shares have: read, move out, assign, invoke.
EnterPhase(p, c, k, have) ==
  /\ unset' = [unset EXCEPT ![p] = @ \cup (Phases[k].reads \ have)]
  /\ shares' = [shares EXCEPT ![p] = (have \ Phases[k].drops) \cup Phases[k].sets]
  /\ Invoke(p, {c}, Phases[k].name, {Dataowners})
  /\ randomness' = [randomness EXCEPT ![p] = Draw(@, Phases[k].takes)]
  /\ state' = [state EXCEPT ![p] = Phases[k].name]

-----------------------------------------------------------------------------
(* dataowner::Regression *)

RegressionInit(p) ==
  /\ state[p] = "idle"
  /\ state' = [state EXCEPT ![p] = "awaitingRandomnessAndSISOSort"]
  /\ numPartiesAwaiting' = [numPartiesAwaiting EXCEPT ![p] = Cardinality(Cross(p))]
  /\ wire' = wire \cup {<<p, q>> : q \in Cross(p)}
  /\ Invoke(p, {}, "Randomness", {Parties})
  /\ UNCHANGED <<work, resultWire, house, receiver>>

HandleReceive(p, q) ==
  /\ <<q, p>> \in wire
  /\ state[p] # "idle"
  /\ wire' = wire \ {<<q, p>>}
  /\ sharedLists' = [sharedLists EXCEPT ![p] = @ \cup {q}]
  /\ IF LastAwaited(p)
     THEN InvokePaired(p, {}, "SISOSort", DealtPairs(p), "awaitingSISOSort")
     ELSE CountDown(p, {})
  /\ UNCHANGED <<randomnessDone, sortedLists, vectorZippedAdjacent,
                 startModulusPayloadVector, randomness, shares, unset,
                 resultWire, house, receiver>>

InvokeZipAdjacent(p, c, rand) ==
  /\ InvokePaired(p, {c}, "ZipAdjacent", Pairs(p), "awaitingZipAdjacent")
  /\ randomness' = [randomness EXCEPT ![p] = Draw(rand, [zipAdjacent |-> 1])]

Sorted(p, c) ==
  sortedLists' = [sortedLists EXCEPT ![p] = @ \cup (c.peers \ {p, Dealer})]

\* Mutant: a sort that completes before the randomness is not counted.
SortForgotten(p, c) ==
  /\ ~randomnessDone[p]
  /\ c.kind # "Randomness"
  /\ Sorted(p, c)
  /\ Retire(p, {c})
  /\ UNCHANGED <<numPartiesAwaiting, state, randomnessDone, vectorZippedAdjacent,
                 startModulusPayloadVector, randomness, shares, unset>>

\* handleComplete before the randomness is there: not the patron, so a sort.
SortBeforeRandomness(p, c) ==
  /\ ~randomnessDone[p]
  /\ c.kind # "Randomness"
  /\ Sorted(p, c)
  /\ numPartiesAwaiting' = [numPartiesAwaiting EXCEPT ![p] = @ - 1]
  /\ state' = IF LastAwaited(p)
                THEN [state EXCEPT ![p] = "awaitingRandomnessOnly"] ELSE state
  /\ Retire(p, {c})
  /\ UNCHANGED <<randomnessDone, vectorZippedAdjacent, startModulusPayloadVector,
                 randomness, shares, unset>>

\* The patron: it continues with the zips only if every sort is through.
RandomnessReady(p, c) ==
  /\ ~randomnessDone[p]
  /\ c.kind = "Randomness"
  /\ randomnessDone' = [randomnessDone EXCEPT ![p] = TRUE]
  /\ IF state[p] = "awaitingRandomnessOnly"
     THEN InvokeZipAdjacent(p, c, DealtRandomness)
     ELSE /\ randomness' = [randomness EXCEPT ![p] = DealtRandomness]
          /\ state' = [state EXCEPT ![p] = "awaitingSISOSort"]
          /\ Retire(p, {c})
          /\ UNCHANGED numPartiesAwaiting
  /\ UNCHANGED <<sortedLists, vectorZippedAdjacent, startModulusPayloadVector,
                 shares, unset>>

SISOSortDone(p, c) ==
  /\ randomnessDone[p]
  /\ state[p] = "awaitingSISOSort"
  /\ Sorted(p, c)
  /\ IF LastAwaited(p)
     THEN InvokeZipAdjacent(p, c, randomness[p])
     ELSE CountDown(p, {c}) /\ UNCHANGED randomness
  /\ UNCHANGED <<randomnessDone, vectorZippedAdjacent, startModulusPayloadVector,
                 shares, unset>>

\* The zipped list is kept; the last one moves them all, with a factory that owns
\* the partner's multiplication dispenser, into ZipReduces.
ZipAdjacentDone(p, c) ==
  /\ randomnessDone[p]
  /\ state[p] = "awaitingZipAdjacent"
  /\ vectorZippedAdjacent' =
       [vectorZippedAdjacent EXCEPT ![p] = @ \cup (c.peers \ {p})]
  /\ IF LastAwaited(p)
     THEN /\ InvokePaired(p, {c}, "ZipReduce", Pairs(p), "awaitingZipReduce")
          /\ randomness' =
               [randomness EXCEPT ![p] = Draw(@, [factory |-> FactoryTakes])]
     ELSE CountDown(p, {c}) /\ UNCHANGED randomness
  /\ UNCHANGED <<randomnessDone, sortedLists, startModulusPayloadVector, shares,
                 unset>>

\* Mutant: the last list to be reduced is not added.
LastReductionLost(p, c) ==
  /\ randomnessDone[p]
  /\ state[p] = "awaitingZipReduce"
  /\ startModulusPayloadVector' = IF LastAwaited(p) THEN startModulusPayloadVector
       ELSE [startModulusPayloadVector EXCEPT ![p] = @ \cup (c.peers \ {p})]
  /\ IF LastAwaited(p)
     THEN /\ EnterPhase(p, c, 1, shares[p])
          /\ numPartiesAwaiting' = [numPartiesAwaiting EXCEPT ![p] = @ - 1]
     ELSE CountDown(p, {c}) /\ UNCHANGED <<randomness, shares, unset>>
  /\ UNCHANGED <<randomnessDone, sortedLists, vectorZippedAdjacent>>

\* Add the reduced list to the sums, whichever partner it came from.
ZipReduceDone(p, c) ==
  /\ randomnessDone[p]
  /\ state[p] = "awaitingZipReduce"
  /\ startModulusPayloadVector' =
       [startModulusPayloadVector EXCEPT ![p] = @ \cup (c.peers \ {p})]
  /\ IF LastAwaited(p)
     THEN /\ EnterPhase(p, c, 1, shares[p])
          /\ numPartiesAwaiting' = [numPartiesAwaiting EXCEPT ![p] = @ - 1]
     ELSE CountDown(p, {c}) /\ UNCHANGED <<randomness, shares, unset>>
  /\ UNCHANGED <<randomnessDone, sortedLists, vectorZippedAdjacent>>

\* A batch is through and sets up the next.
BatchDone(p, c) ==
  /\ randomnessDone[p]
  /\ \E k \in 1 .. Len(Phases) - 1 :
       /\ state[p] = Phases[k].name
       /\ EnterPhase(p, c, k + 1, shares[p] \cup Phases[k].yields)
  /\ UNCHANGED <<numPartiesAwaiting, randomnessDone, sortedLists,
                 vectorZippedAdjacent, startModulusPayloadVector>>

\* What a child waits for: the patron for the dealer alone, every other child
\* of a dataowner for all of its peers.
NeedOf(p, c) == IF c.kind = "Randomness" THEN {Dealer} ELSE c.peers

HandleComplete(p, c) ==
  /\ Met(p, c, NeedOf(p, c))
  /\ \/ SortBeforeRandomness(p, c) \/ RandomnessReady(p, c) \/ SISOSortDone(p, c)
     \/ ZipAdjacentDone(p, c) \/ ZipReduceDone(p, c) \/ BatchDone(p, c)
  /\ UNCHANGED <<sharedLists, wire, resultWire, house, receiver>>

\* The last batch: send the shares of the result and complete.
BatchedLookupDone(p, c) ==
  /\ Met(p, c, NeedOf(p, c))
  /\ randomnessDone[p]
  /\ state[p] = Phases[Len(Phases)].name
  /\ shares' = [shares EXCEPT ![p] = @ \cup Phases[Len(Phases)].yields]
  /\ unset' = [unset EXCEPT ![p] = @ \cup (Sent \ shares'[p])]
  /\ resultWire' = resultWire \cup
       {[from |-> p, to |-> r, share |-> startModulusPayloadVector[p]] :
          r \in Recipients}
  /\ state' = [state EXCEPT ![p] = "complete"]
  /\ Retire(p, {c})
  /\ UNCHANGED <<numPartiesAwaiting, randomnessDone, sharedLists, sortedLists,
                 vectorZippedAdjacent, startModulusPayloadVector, randomness,
                 wire, house, receiver>>

-----------------------------------------------------------------------------
(* dealer::RegressionRandomnessHouse *)

\* Mutant: the pairs' houses are those of the zips, which need none.
ZipHouses ==
  Declare(Declare(NoStream, "Randomness", {Parties}), "ZipAdjacent", AllDealtPairs)

\* The Basement first, then one SISOSort house per pair of dataowners of two
\* verticals.
NumHouses == 1 + Cardinality(AllDealtPairs)
HouseStreams ==
  Declare(Declare(NoStream, "Randomness", {Parties}), "SISOSort", AllDealtPairs)

HouseInit ==
  /\ houseState = "idle"
  /\ houseState' = "running"
  /\ declared' = [declared EXCEPT ![Dealer] = HouseStreams]
  /\ open' = [open EXCEPT ![Dealer] =
       Children("Randomness", {Parties}) \cup Children("SISOSort", AllDealtPairs)]
  /\ numDealersRemaining' = NumHouses
  /\ UNCHANGED <<owner, wire, resultWire, receiver>>

HouseHandleComplete(c) ==
  /\ Met(Dealer, c, {})
  /\ numDealersRemaining' = numDealersRemaining - 1
  /\ houseState' = IF numDealersRemaining - 1 = 0 THEN "complete" ELSE houseState
  /\ Retire(Dealer, {c})
  /\ UNCHANGED <<owner, wire, resultWire, receiver>>

-----------------------------------------------------------------------------
(* recipient::RegressionReceiver *)

ReceiverInit(r) ==
  /\ receiverState[r] = "idle"
  /\ receiverState' = [receiverState EXCEPT ![r] = "running"]
  /\ numDataowners' = [numDataowners EXCEPT ![r] = Cardinality(Dataowners)]
  /\ UNCHANGED <<declared, open, owner, wire, resultWire, house, results>>

ReceiverHandleReceive(r, m) ==
  /\ m.to = r
  /\ receiverState[r] # "idle"
  /\ resultWire' = resultWire \ {m}
  /\ results' = [results EXCEPT ![r] = @ \cup {<<m.from, q>> : q \in m.share}]
  /\ numDataowners' = [numDataowners EXCEPT ![r] = @ - 1]
  /\ receiverState' = IF numDataowners[r] - 1 = 0
                        THEN [receiverState EXCEPT ![r] = "complete"]
                        ELSE receiverState
  /\ UNCHANGED <<declared, open, owner, wire, house>>

-----------------------------------------------------------------------------
AllComplete ==
  /\ \A p \in Dataowners : state[p] = "complete"
  /\ houseState = "complete"
  /\ \A r \in Recipients : receiverState[r] = "complete"

Terminated == AllComplete /\ UNCHANGED vars

Next ==
  \/ \E p \in Dataowners : RegressionInit(p)
  \/ \E p, q \in Dataowners : HandleReceive(p, q)
  \/ \E p \in Dataowners : \E c \in open[p] : HandleComplete(p, c)
  \/ \E p \in Dataowners : \E c \in open[p] : BatchedLookupDone(p, c)
  \/ HouseInit
  \/ \E c \in open[Dealer] : HouseHandleComplete(c)
  \/ \E r \in Recipients : ReceiverInit(r)
  \/ \E r \in Recipients : \E m \in resultWire : ReceiverHandleReceive(r, m)
  \/ Terminated

Spec == Init /\ [][Next]_vars

\* Every process keeps handling events: messages that have arrived, and children
\* whose peers have all invoked them, which complete.
OwnerProceeds(p) ==
  \/ RegressionInit(p)
  \/ \E q \in Dataowners : HandleReceive(p, q)
  \/ \E c \in open[p] : Met(p, c, c.peers) /\ (HandleComplete(p, c) \/ BatchedLookupDone(p, c))
HouseProceeds ==
  \/ HouseInit
  \/ \E c \in open[Dealer] : Met(Dealer, c, c.peers) /\ HouseHandleComplete(c)
ReceiverProceeds(r) ==
  ReceiverInit(r) \/ \E m \in resultWire : ReceiverHandleReceive(r, m)
Fairness ==
  /\ \A p \in Dataowners : WF_vars(OwnerProceeds(p))
  /\ WF_vars(HouseProceeds)
  /\ \A r \in Recipients : WF_vars(ReceiverProceeds(r))

FairSpec == Spec /\ Fairness

-----------------------------------------------------------------------------
Kinds == {"Randomness", "SISOSort", "ZipAdjacent", "ZipReduce"} \cup PhaseNames
States == {"idle", "awaitingRandomnessAndSISOSort", "awaitingRandomnessOnly",
           "awaitingSISOSort", "awaitingZipAdjacent", "awaitingZipReduce",
           "complete"} \cup PhaseNames

\* Every variable has its type; no size_t counter wraps below zero.
TypeOK ==
  /\ declared \in [Parties -> [PeerSets -> Seq(Kinds)]]
  /\ open \in [Parties -> SUBSET [kind : Kinds, peers : PeerSets]]
  /\ state \in [Dataowners -> States]
  /\ numPartiesAwaiting \in [Dataowners -> Nat]
  /\ randomnessDone \in [Dataowners -> BOOLEAN]
  /\ \A f \in {sharedLists, sortedLists, vectorZippedAdjacent,
               startModulusPayloadVector} : f \in [Dataowners -> SUBSET Dataowners]
  /\ randomness \in [Dataowners -> [DOMAIN DealtRandomness -> Int]]
  /\ wire \subseteq Dataowners \X Dataowners
  /\ numDealersRemaining \in Nat
  /\ numDataowners \in [Recipients -> Nat]

OpenOf(p, kinds) == {c \in open[p] : c.kind \in kinds}

\* handleComplete casts the child by its state: only children of that state's kind
\* can complete, and every input of a paired child is complete when it starts.
ChildrenMatchState(p) ==
  \A c \in open[p] :
    /\ c.kind = "SISOSort" => sharedLists[p] = Cross(p)
    /\ c.kind = "ZipAdjacent" => sortedLists[p] = Cross(p)
    /\ c.kind = "ZipReduce" => vectorZippedAdjacent[p] = Cross(p)
    /\ IF ~randomnessDone[p] THEN c.kind \in {"Randomness", "SISOSort"}
       ELSE CASE state[p] = "awaitingSISOSort" -> c.kind = "SISOSort"
              [] state[p] = "awaitingZipAdjacent" -> c.kind = "ZipAdjacent"
              [] state[p] = "awaitingZipReduce" -> c.kind = "ZipReduce"
              [] OTHER -> c.kind = state[p]

\* numPartiesAwaiting serves four phases in turn while the patron completes at any
\* time (Regression::handleReceive and handleComplete): it is always exactly what
\* the dataowner still waits for, and the children it has then are those the
\* handler's casts expect.
AwaitsWhatIsMissing ==
  \A p \in Dataowners : state[p] \notin {"idle", "complete"} =>
    /\ numPartiesAwaiting[p] =
         IF sharedLists[p] # Cross(p) THEN Cardinality(Cross(p) \ sharedLists[p])
         ELSE Cardinality(OpenOf(p, {"SISOSort", "ZipAdjacent", "ZipReduce"}))
    /\ ChildrenMatchState(p)

\* The counts of RegressionRandomnessPatron's constructor cover the gets that the
\* cases of Regression::handleComplete make, one case at a time.
DispensersSuffice ==
  \A p \in Dataowners : \A k \in DOMAIN randomness[p] : randomness[p][k] >= 0

\* No case of handleComplete reads a share that no earlier case computed, or that
\* an earlier one moved out.
NothingReadUnset == \A p \in Dataowners : unset[p] = {}

\* What a recipient prints is made of the lists of every pair of dataowners of two
\* verticals, and of both partners' shares of them.
ResultIsWhole ==
  \A r \in Recipients : receiverState[r] = "complete" =>
    results[r] = {m \in Dataowners \X Dataowners : m[2] \in Cross(m[1])}

\* The joint batches are passed together: two dataowners are never more than one
\* batch apart.
PhaseOf(p) ==
  CASE state[p] = "complete" -> Len(Phases) + 1
    [] state[p] \in PhaseNames -> CHOOSE k \in DOMAIN Phases : Phases[k].name = state[p]
    [] OTHER -> 0
Lockstep == \A p, q \in Dataowners : PhaseOf(p) <= PhaseOf(q) + 1

\* Every dataowner, the dealer and every recipient completes.
Termination == <>AllComplete

-----------------------------------------------------------------------------
(* The inductive invariant from which RegressionProofs derives the above *)

Sorts(p, T) == Children("SISOSort", {DealtPair(p, q) : q \in T})
Zips(p, T) == Children("ZipAdjacent", {Pair(p, q) : q \in T})
Reduces(p, T) == Children("ZipReduce", {Pair(p, q) : q \in T})
Patron == Child("Randomness", Parties)
PatronOpen(p) == IF randomnessDone[p] THEN {} ELSE {Patron}
PatronHas(p) ==
  randomness[p] = IF randomnessDone[p] THEN DealtRandomness ELSE NoRandomness

\* What is left in the dispensers when the zips, the reductions, have been invoked.
LeftByZips == Draw(DealtRandomness, [zipAdjacent |-> 1])
LeftByReduces == Draw(LeftByZips, [factory |-> FactoryTakes])

\* What the batches up to k have taken together.
Spent(k) ==
  [modConvUp |-> d * d + d + 3,
   randomMatrix |-> IF k < 2 THEN 0 ELSE 1,
   matrix |-> IF k < 2 THEN 0 ELSE d * d * (d + 1),
   final |->
     (IF k < 4 THEN 0 ELSE d) + (IF k < 7 THEN 0 ELSE d) + (IF k < 9 THEN 0 ELSE d)
       + (IF k < 10 THEN 0 ELSE 2 * pairs + d + 2)
       + (IF k < 11 THEN 0 ELSE 2 * pairs + 2 * d)
       + (IF k < 12 THEN 0 ELSE d + 2) + (IF k < 13 THEN 0 ELSE d)
       + (IF k < 19 THEN 0 ELSE d + 1),
   compareEnd |-> (IF k < 5 THEN 0 ELSE d) + (IF k < 17 THEN 0 ELSE d + 1),
   typeCast |-> (IF k < 6 THEN 0 ELSE d)
       + (IF k < 16 THEN 0 ELSE (F_rows - 1) + (t_rows - 1))
       + (IF k < 18 THEN 0 ELSE d + 1),
   divide |-> (IF k < 8 THEN 0 ELSE d) + (IF k < 14 THEN 0 ELSE 2 * d + 3),
   compare |-> IF k < 15 THEN 0 ELSE (F_rows - 1) + (t_rows - 1),
   F_lookup |-> IF k < 20 THEN 0 ELSE 1,
   t_lookup |-> IF k < 20 THEN 0 ELSE d]
LeftByBatch(k) == Draw(LeftByReduces, Spent(k))

\* The shares that are there while batch k runs and that a later case still reads.
Sums == {"detShare", "m", "oneShare", "r", "yShare", "ySquaredShare"}
Solved == Sums \cup {"det"}
Signed == Solved \cup {"negativeOrPositiveOneShares"}
ErrorTerms == {"beta_i", "beta_ibeta_j", "numer_MSE", "denom_MSE", "numer_RSquared",
               "denom_RSquared", "denom_F_statistic"}
Quotients == {"beta_i", "meanSquareErrorShare", "RSquaredShare",
              "meanSquareErrorCoeffs"}
Statistics == Quotients \cup {"F_statistic", "t_statisticsSquared"}
RowIds == Statistics \cup {"F_row_id_share", "t_row_id_share"}
Held ==
  << {}, Sums, Sums \cup {"vectorShare"}, Solved,
     Solved \cup {"regressionMultiplyOutput"}, Solved \cup {"regressionMultiplyOutput"},
     Signed, Signed, Solved, Solved \cup {"beta_i"},
     Solved \cup {"beta_i", "beta_ibeta_j", "beta_ix_iy", "ySquaredn",
                  "ySumThenSquared"},
     ErrorTerms,
     ErrorTerms \cup {"X_T_X_inv_diag_s_e", "denom_MSE_reweighted",
                      "numer_F_statistic"},
     {"beta_i"}, Statistics, Statistics, RowIds, RowIds, RowIds, Quotients >>

\* The phases of a dataowner.  Until the zips the patron may complete at any time;
\* what is open and what is counted always agree.
Idle(p) ==
  /\ state[p] = "idle"
  /\ ~randomnessDone[p]
  /\ numPartiesAwaiting[p] = 0
  /\ sharedLists[p] = {} /\ sortedLists[p] = {} /\ vectorZippedAdjacent[p] = {}
  /\ startModulusPayloadVector[p] = {}
  /\ randomness[p] = NoRandomness
  /\ open[p] = {}
Collecting(p) ==
  /\ state[p] = IF randomnessDone[p] THEN "awaitingSISOSort"
                                     ELSE "awaitingRandomnessAndSISOSort"
  /\ sharedLists[p] \subseteq Cross(p) /\ sharedLists[p] # Cross(p)
  /\ numPartiesAwaiting[p] = Cardinality(Cross(p) \ sharedLists[p])
  /\ sortedLists[p] = {} /\ vectorZippedAdjacent[p] = {}
  /\ startModulusPayloadVector[p] = {}
  /\ PatronHas(p)
  /\ open[p] = PatronOpen(p)
Sorting(p) ==
  /\ state[p] = IF sortedLists[p] = Cross(p) THEN "awaitingRandomnessOnly"
                                             ELSE "awaitingSISOSort"
  /\ randomnessDone[p] => sortedLists[p] # Cross(p)
  /\ sharedLists[p] = Cross(p)
  /\ sortedLists[p] \subseteq Cross(p)
  /\ numPartiesAwaiting[p] = Cardinality(Cross(p) \ sortedLists[p])
  /\ vectorZippedAdjacent[p] = {} /\ startModulusPayloadVector[p] = {}
  /\ PatronHas(p)
  /\ open[p] = PatronOpen(p) \cup Sorts(p, Cross(p) \ sortedLists[p])
Zipping(p) ==
  /\ state[p] = "awaitingZipAdjacent"
  /\ randomnessDone[p]
  /\ sharedLists[p] = Cross(p) /\ sortedLists[p] = Cross(p)
  /\ vectorZippedAdjacent[p] \subseteq Cross(p)
  /\ vectorZippedAdjacent[p] # Cross(p)
  /\ numPartiesAwaiting[p] = Cardinality(Cross(p) \ vectorZippedAdjacent[p])
  /\ startModulusPayloadVector[p] = {}
  /\ randomness[p] = LeftByZips
  /\ open[p] = Zips(p, Cross(p) \ vectorZippedAdjacent[p])
Reducing(p) ==
  /\ state[p] = "awaitingZipReduce"
  /\ randomnessDone[p]
  /\ sharedLists[p] = Cross(p) /\ sortedLists[p] = Cross(p)
  /\ vectorZippedAdjacent[p] = Cross(p)
  /\ startModulusPayloadVector[p] \subseteq Cross(p)
  /\ startModulusPayloadVector[p] # Cross(p)
  /\ numPartiesAwaiting[p] = Cardinality(Cross(p) \ startModulusPayloadVector[p])
  /\ randomness[p] = LeftByReduces
  /\ open[p] = Reduces(p, Cross(p) \ startModulusPayloadVector[p])

\* The joint batches: everything of the partners is in the sums.
Summed(p) ==
  /\ randomnessDone[p]
  /\ sharedLists[p] = Cross(p) /\ sortedLists[p] = Cross(p)
  /\ vectorZippedAdjacent[p] = Cross(p) /\ startModulusPayloadVector[p] = Cross(p)
  /\ numPartiesAwaiting[p] = 0
InBatch(p, k) ==
  /\ state[p] = Phases[k].name
  /\ Summed(p)
  /\ randomness[p] = LeftByBatch(k)
  /\ Held[k] \subseteq shares[p]
  /\ open[p] = {Child(Phases[k].name, Dataowners)}
Completed(p) ==
  /\ state[p] = "complete"
  /\ Summed(p)
  /\ randomness[p] = LeftByBatch(Len(Phases))
  /\ open[p] = {}

OwnerPhase(p) ==
  \/ Idle(p) \/ Collecting(p) \/ Sorting(p) \/ Zipping(p) \/ Reducing(p)
  \/ (\E k \in 1 .. Len(Phases) : InBatch(p, k))
  \/ Completed(p)

\* A list share comes from a dataowner that has started, and comes once.
WireInv ==
  /\ \A p, q \in Dataowners : <<q, p>> \in wire =>
       q \in Cross(p) /\ q \notin sharedLists[p] /\ state[q] # "idle"
  /\ \A p \in Dataowners : \A q \in sharedLists[p] : state[q] # "idle"

HouseInv ==
  /\ IsFiniteSet(open[Dealer])
  /\ numDealersRemaining = Cardinality(open[Dealer])
  /\ houseState = "idle" => open[Dealer] = {}
  /\ houseState = "running" => open[Dealer] # {}
  /\ houseState = "complete" => open[Dealer] = {}

\* The dataowners whose share a recipient has added.
Heard(r) == {p \in Dataowners : \E q \in Dataowners : <<p, q>> \in results[r]}

ReceiverInv ==
  /\ \A m \in resultWire :
       /\ state[m.from] = "complete"
       /\ m.share = Cross(m.from)
       /\ m.from \notin Heard(m.to)
  /\ \A r \in Recipients :
       /\ \A p, q \in Dataowners :
            <<p, q>> \in results[r] => q \in Cross(p) /\ state[p] = "complete"
       /\ \A p \in Heard(r) : \A q \in Cross(p) : <<p, q>> \in results[r]
       /\ receiverState[r] = "idle" => results[r] = {} /\ numDataowners[r] = 0
       /\ receiverState[r] # "idle" =>
            numDataowners[r] = Cardinality(Dataowners \ Heard(r))
       /\ receiverState[r] = "complete" => Heard(r) = Dataowners

\* TypeOK but for the counters, which the other conjuncts bound.
ResultMsg == [from : Dataowners, to : Recipients, share : SUBSET Dataowners]
ChildType == [kind : Kinds, peers : PeerSets]
Shape ==
  /\ declared \in [Parties -> [PeerSets -> Seq(Kinds)]]
  /\ open \in [Parties -> SUBSET ChildType]
  /\ state \in [Dataowners -> States]
  /\ numPartiesAwaiting \in [Dataowners -> Int]
  /\ randomnessDone \in [Dataowners -> BOOLEAN]
  /\ sharedLists \in [Dataowners -> SUBSET Dataowners]
  /\ sortedLists \in [Dataowners -> SUBSET Dataowners]
  /\ vectorZippedAdjacent \in [Dataowners -> SUBSET Dataowners]
  /\ startModulusPayloadVector \in [Dataowners -> SUBSET Dataowners]
  /\ randomness \in [Dataowners -> [DOMAIN DealtRandomness -> Int]]
  /\ DOMAIN shares = Dataowners /\ DOMAIN unset = Dataowners
  /\ wire \subseteq Dataowners \X Dataowners
  /\ resultWire \subseteq ResultMsg
  /\ houseState \in RunState
  /\ receiverState \in [Recipients -> RunState]
  /\ numDataowners \in [Recipients -> Int]
  /\ results \in [Recipients -> SUBSET (Dataowners \X Dataowners)]

\* A dataowner is always in a phase that fixes, from what has arrived, every
\* counter, child and dispenser of dataowner::Regression at once; messages are sent
\* once and counted once by the recipients.
Inv ==
  /\ Shape
  /\ \A p \in Dataowners : OwnerPhase(p)
  /\ NothingReadUnset
  /\ WireInv
  /\ HouseInv
  /\ ReceiverInv

-----------------------------------------------------------------------------
(* The streams of declarations, from which RegressionProofs derives Matched and *)
(* Lockstep.  Everybody goes through one sequence for each peer set.            *)

StartStream == Declare(NoStream, "Randomness", {Parties})
SortStream == Declare(StartStream, "SISOSort", AllDealtPairs)
ZipStream == Declare(SortStream, "ZipAdjacent", AllPairs)
ReduceStream == Declare(ZipStream, "ZipReduce", AllPairs)
FirstBatches(k) == [i \in 1 .. k |-> Phases[i].name]
BatchStream(k) ==
  [ps \in PeerSets |->
     IF ps = Dataowners THEN ReduceStream[ps] \o FirstBatches(k) ELSE ReduceStream[ps]]

StreamOf(p) ==
  CASE state[p] = "idle" -> NoStream
    [] state[p] = "awaitingZipAdjacent" -> ZipStream
    [] state[p] = "awaitingZipReduce" -> ReduceStream
    [] state[p] = "complete" -> BatchStream(Len(Phases))
    [] state[p] \in PhaseNames -> BatchStream(PhaseOf(p))
    [] OTHER -> IF sharedLists[p] = Cross(p) THEN SortStream ELSE StartStream

\* What a party has declared for a peer set it belongs to is fixed by its phase.
OwnerStreams ==
  \A p \in Dataowners : \A ps \in PeerSets :
    p \in ps => declared[p][ps] = StreamOf(p)[ps]
DealerStreams ==
  \A ps \in PeerSets :
    declared[Dealer][ps] = IF houseState = "idle" THEN <<>> ELSE SortStream[ps]
StreamInv == OwnerStreams /\ DealerStreams /\ Lockstep
=============================================================================
