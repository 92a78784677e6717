------------------------------- MODULE Moments -------------------------------
(***************************************************************************)
(* The moments query: dataowner::Moments at every dataowner,               *)
(* dealer::MomentsRandomnessHouse at the dealer, and                       *)
(* recipient::MomentsReceiver at every recipient.                          *)
(*                                                                         *)
(* Each dataowner sends one share of its list to every dataowner of the    *)
(* other verticals, fetches randomness from the dealer, sorts every list   *)
(* it shares with a partner, zips adjacent rows, sums, lifts the sums to   *)
(* the large modulus, divides, and sends its share of the result to the    *)
(* recipients.  Values are abstracted to their provenance: a sum is the    *)
(* set of partners whose zipped list went into it.                         *)
(***************************************************************************)
EXTENDS Fronctocol, Integers

CONSTANT PayloadLength    \* MomentsInfo::payloadLength: highest moment + 1

ASSUME PayloadAssumption == PayloadLength \in Nat \ {0}

VARIABLES
  state,                 \* Moments::state, and whether the fronctocol runs
  numPartiesAwaiting,    \* Moments::numPartiesAwaiting
  randomnessDone,        \* Moments::randomnessDone
  sharedLists,           \* the partners whose half of the shared list is there
  sortedLists,           \* the partners with whom the shared list is sorted
  vectorZippedAdjacent,  \* the partners whose zipped list is stored
  powerSums,             \* the partners whose zipped list is in the sum
  randomness,            \* gets left in the dispensers of MomentsRandomness
  wire,                  \* list shares in flight, <<sender, receiver>>
  resultWire,            \* result shares in flight
  houseState, numDealersRemaining,               \* MomentsRandomnessHouse
  receiverState, numDataowners, results          \* MomentsReceiver

owner == <<state, numPartiesAwaiting, randomnessDone, sharedLists, sortedLists,
           vectorZippedAdjacent, powerSums, randomness>>
house == <<houseState, numDealersRemaining>>
receiver == <<receiverState, numDataowners, results>>
vars == <<declared, open, owner, wire, resultWire, house, receiver>>

MomentsState ==
  {"awaitingRandomnessAndSISOSort", "awaitingRandomnessOnly",
   "awaitingSISOSort", "awaitingZipAdjacent", "awaitingBatchedModConvUp",
   "awaitingDivision"}
RunState == {"idle", "running", "complete"}
Kinds == {"Randomness", "SISOSort", "ZipAdjacent", "ModConvUp", "Divide"}

\* Mutant: the patron asks for one division for every two moments.
DealtTooFewDivides ==
  [modConvUp |-> PayloadLength, divide |-> PayloadLength \div 2, zipAdjacent |-> 1]

\* What the patron's MomentsDispenser->get() hands over: payloadLength gets of
\* modConvUp and of divide, and of zipAdjacent one in each partner's dispenser.
NoRandomness == [modConvUp |-> 0, divide |-> 0, zipAdjacent |-> 0]
DealtRandomness ==
  [modConvUp |-> PayloadLength, divide |-> PayloadLength, zipAdjacent |-> 1]

Init ==
  /\ declared = [p \in Parties |-> NoStream]
  /\ open = [p \in Parties |-> {}]
  /\ state = [p \in Dataowners |-> "idle"]
  /\ numPartiesAwaiting = [p \in Dataowners |-> 0]
  /\ randomnessDone = [p \in Dataowners |-> FALSE]
  /\ sharedLists = [p \in Dataowners |-> {}]
  /\ sortedLists = [p \in Dataowners |-> {}]
  /\ vectorZippedAdjacent = [p \in Dataowners |-> {}]
  /\ powerSums = [p \in Dataowners |-> {}]
  /\ randomness = [p \in Dataowners |-> NoRandomness]
  /\ wire = {}
  /\ resultWire = {}
  /\ houseState = "idle"
  /\ numDealersRemaining = 0
  /\ receiverState = [r \in Recipients |-> "idle"]
  /\ numDataowners = [r \in Recipients |-> 0]
  /\ results = [r \in Recipients |-> {}]

-----------------------------------------------------------------------------
(* dataowner::Moments *)

\* Invoke one child of this kind for each peer set of S, after the child that
\* has just completed (done, a set of at most one child) has left.
Invoke(p, done, kind, S) ==
  /\ declared' = [declared EXCEPT ![p] = Declare(@, kind, S)]
  /\ open' = [open EXCEPT ![p] = (@ \ done) \cup Children(kind, S)]

\* The handler returns without invoking anything.
Retire(p, done) ==
  /\ open' = [open EXCEPT ![p] = @ \ done]
  /\ UNCHANGED declared

\* setupCrossParties, shareWithCrossVerticalParties, invokeRandomnessPatron.
MomentsInit(p) ==
  /\ state[p] = "idle"
  /\ state' = [state EXCEPT ![p] = "awaitingRandomnessAndSISOSort"]
  /\ numPartiesAwaiting' =
       [numPartiesAwaiting EXCEPT ![p] = Cardinality(Cross(p))]
  /\ wire' = wire \cup {<<p, q>> : q \in Cross(p)}
  /\ Invoke(p, {}, "Randomness", {Parties})
  /\ UNCHANGED <<randomnessDone, sharedLists, sortedLists,
                 vectorZippedAdjacent, powerSums, randomness,
                 resultWire, house, receiver>>

\* A partner's list share arrives; after the last one every shared list is
\* handed to a SISOSort, and numPartiesAwaiting counts the sorts.  The library
\* holds messages back until the fronctocol they are for is running.
HandleReceive(p, q) ==
  /\ <<q, p>> \in wire
  /\ state[p] # "idle"
  /\ wire' = wire \ {<<q, p>>}
  /\ sharedLists' = [sharedLists EXCEPT ![p] = @ \cup {q}]
  /\ IF numPartiesAwaiting[p] - 1 = 0
     THEN /\ Invoke(p, {}, "SISOSort", DealtPairs(p))
          /\ numPartiesAwaiting' =
               [numPartiesAwaiting EXCEPT ![p] = Cardinality(Cross(p))]
          /\ state' = [state EXCEPT ![p] = "awaitingSISOSort"]
     ELSE /\ numPartiesAwaiting' = [numPartiesAwaiting EXCEPT ![p] = @ - 1]
          /\ UNCHANGED <<declared, open, state>>
  /\ UNCHANGED <<randomnessDone, sortedLists, vectorZippedAdjacent, powerSums,
                 randomness, resultWire, house, receiver>>

\* One ZipAdjacent per partner, each with a get of that partner's dispenser,
\* taken from the randomness rand.
InvokeZipAdjacent(p, done, rand) ==
  /\ Invoke(p, done, "ZipAdjacent", Pairs(p))
  /\ randomness' =
       [randomness EXCEPT ![p] = [rand EXCEPT !.zipAdjacent = @ - 1]]
  /\ numPartiesAwaiting' =
       [numPartiesAwaiting EXCEPT ![p] = Cardinality(Cross(p))]
  /\ state' = [state EXCEPT ![p] = "awaitingZipAdjacent"]

\* Completing a SISOSort leaves the list p shares with the partner sorted.
Sorted(p, c) ==
  sortedLists' = [sortedLists EXCEPT ![p] = @ \cup (c.peers \ {p, Dealer})]

\* Mutant: a sort that completes before the randomness is not counted.
SortForgotten(p, c) ==
  /\ ~randomnessDone[p]
  /\ c.kind # "Randomness"
  /\ Sorted(p, c)
  /\ Retire(p, {c})
  /\ UNCHANGED <<numPartiesAwaiting, state, randomnessDone,
                 vectorZippedAdjacent, powerSums, randomness>>

\* handleComplete before the randomness is there: not the patron, so a sort.
SortBeforeRandomness(p, c) ==
  /\ ~randomnessDone[p]
  /\ c.kind # "Randomness"
  /\ Sorted(p, c)
  /\ numPartiesAwaiting' = [numPartiesAwaiting EXCEPT ![p] = @ - 1]
  /\ state' = IF numPartiesAwaiting[p] - 1 = 0
                THEN [state EXCEPT ![p] = "awaitingRandomnessOnly"]
                ELSE state
  /\ Retire(p, {c})
  /\ UNCHANGED <<randomnessDone, vectorZippedAdjacent, powerSums, randomness>>

\* Mutant: the patron's completion starts the zips whatever the sorts do.
RandomnessSkipsSorts(p, c) ==
  /\ ~randomnessDone[p]
  /\ c.kind = "Randomness"
  /\ randomnessDone' = [randomnessDone EXCEPT ![p] = TRUE]
  /\ InvokeZipAdjacent(p, {c}, DealtRandomness)
  /\ UNCHANGED <<sharedLists, sortedLists, vectorZippedAdjacent, powerSums>>

\* handleComplete of the patron: with all sorts done it sets
\* numPartiesAwaiting to 1 and falls through to the last sort's case, else it
\* leaves the rest to the sorts (or to the lists that are still to come).
RandomnessReady(p, c) ==
  /\ ~randomnessDone[p]
  /\ c.kind = "Randomness"
  /\ randomnessDone' = [randomnessDone EXCEPT ![p] = TRUE]
  /\ IF state[p] = "awaitingRandomnessOnly"
     THEN InvokeZipAdjacent(p, {c}, DealtRandomness)
     ELSE /\ randomness' = [randomness EXCEPT ![p] = DealtRandomness]
          /\ state' = [state EXCEPT ![p] = "awaitingSISOSort"]
          /\ Retire(p, {c})
          /\ UNCHANGED numPartiesAwaiting
  /\ UNCHANGED <<sharedLists, sortedLists, vectorZippedAdjacent, powerSums>>

\* handleComplete, case awaitingSISOSort.
SISOSortDone(p, c) ==
  /\ randomnessDone[p]
  /\ state[p] = "awaitingSISOSort"
  /\ Sorted(p, c)
  /\ IF numPartiesAwaiting[p] - 1 = 0
     THEN InvokeZipAdjacent(p, {c}, randomness[p])
     ELSE /\ numPartiesAwaiting' = [numPartiesAwaiting EXCEPT ![p] = @ - 1]
          /\ Retire(p, {c})
          /\ UNCHANGED <<state, randomness>>
  /\ UNCHANGED <<randomnessDone, vectorZippedAdjacent, powerSums>>

\* handleComplete, case awaitingZipAdjacent: the result is stored under the
\* child's other dataowner; after the last one all of them are summed and a
\* batch of payloadLength ModConvUps starts.
ZipAdjacentDone(p, c) ==
  /\ randomnessDone[p]
  /\ state[p] = "awaitingZipAdjacent"
  /\ vectorZippedAdjacent' =
       [vectorZippedAdjacent EXCEPT ![p] = @ \cup (c.peers \ {p})]
  /\ numPartiesAwaiting' = [numPartiesAwaiting EXCEPT ![p] = @ - 1]
  /\ IF numPartiesAwaiting[p] - 1 = 0
     THEN /\ powerSums' = [powerSums EXCEPT ![p] = vectorZippedAdjacent'[p]]
          /\ Invoke(p, {c}, "ModConvUp", {Dataowners})
          /\ randomness' =
               [randomness EXCEPT ![p].modConvUp = @ - PayloadLength]
          /\ state' = [state EXCEPT ![p] = "awaitingBatchedModConvUp"]
     ELSE /\ Retire(p, {c})
          /\ UNCHANGED <<powerSums, randomness, state>>
  /\ UNCHANGED <<randomnessDone, sortedLists>>

\* Mutant: the division runs with each partner alone, not with all dataowners.
DivideInPairs(p, c) ==
  /\ randomnessDone[p]
  /\ state[p] = "awaitingBatchedModConvUp"
  /\ Invoke(p, {c}, "Divide", Pairs(p))
  /\ randomness' = [randomness EXCEPT ![p].divide = @ - (PayloadLength - 1)]
  /\ state' = [state EXCEPT ![p] = "awaitingDivision"]
  /\ UNCHANGED <<numPartiesAwaiting, randomnessDone, sortedLists,
                 vectorZippedAdjacent, powerSums>>

\* handleComplete, case awaitingBatchedModConvUp: every sum but the zeroth is
\* divided by the zeroth.
ModConvUpDone(p, c) ==
  /\ randomnessDone[p]
  /\ state[p] = "awaitingBatchedModConvUp"
  /\ Invoke(p, {c}, "Divide", {Dataowners})
  /\ randomness' = [randomness EXCEPT ![p].divide = @ - (PayloadLength - 1)]
  /\ state' = [state EXCEPT ![p] = "awaitingDivision"]
  /\ UNCHANGED <<numPartiesAwaiting, randomnessDone, sortedLists,
                 vectorZippedAdjacent, powerSums>>

\* What a child waits for: the patron for the dealer alone, every other child
\* of a dataowner for all of its peers.
NeedOf(p, c) == IF c.kind = "Randomness" THEN {Dealer} ELSE c.peers

\* handleComplete, but for its last case, which also sends.
HandleComplete(p, c) ==
  /\ Met(p, c, NeedOf(p, c))
  /\ \/ SortBeforeRandomness(p, c) \/ RandomnessReady(p, c)
     \/ SISOSortDone(p, c) \/ ZipAdjacentDone(p, c) \/ ModConvUpDone(p, c)
  /\ UNCHANGED <<sharedLists, wire, resultWire, house, receiver>>

\* handleComplete, case awaitingDivision: send the shares and complete.
DivisionDone(p, c) ==
  /\ Met(p, c, NeedOf(p, c))
  /\ randomnessDone[p]
  /\ state[p] = "awaitingDivision"
  /\ resultWire' = resultWire \cup
       {[from |-> p, to |-> r, share |-> powerSums[p]] : r \in Recipients}
  /\ state' = [state EXCEPT ![p] = "complete"]
  /\ Retire(p, {c})
  /\ UNCHANGED <<numPartiesAwaiting, randomnessDone, sharedLists, sortedLists,
                 vectorZippedAdjacent, powerSums, randomness, wire,
                 house, receiver>>

-----------------------------------------------------------------------------
(* dealer::MomentsRandomnessHouse *)

\* The Basement first, then one SISOSortRandomnessHouse per pair of dataowners
\* of two verticals.
NumHouses == 1 + Cardinality(AllDealtPairs)
HouseStreams ==
  Declare(Declare(NoStream, "Randomness", {Parties}), "SISOSort", AllDealtPairs)

HouseInit ==
  /\ houseState = "idle"
  /\ houseState' = "running"
  /\ declared' = [declared EXCEPT ![Dealer] = HouseStreams]
  /\ open' = [open EXCEPT ![Dealer] =
       Children("Randomness", {Parties}) \cup Children("SISOSort", AllDealtPairs)]
  /\ numDealersRemaining' = NumHouses
  /\ UNCHANGED <<owner, wire, resultWire, receiver>>

\* A house only sends what it deals, so it can complete before its patrons
\* have even started.
HouseHandleComplete(c) ==
  /\ Met(Dealer, c, {})
  /\ numDealersRemaining' = numDealersRemaining - 1
  /\ houseState' = IF numDealersRemaining - 1 = 0 THEN "complete" ELSE houseState
  /\ Retire(Dealer, {c})
  /\ UNCHANGED <<owner, wire, resultWire, receiver>>

-----------------------------------------------------------------------------
(* recipient::MomentsReceiver *)

\* Mutant: the receiver counts one dataowner too few.
ReceiverMissesOne(r) ==
  /\ receiverState[r] = "idle"
  /\ receiverState' = [receiverState EXCEPT ![r] = "running"]
  /\ numDataowners' = [numDataowners EXCEPT ![r] = Cardinality(Dataowners) - 1]
  /\ UNCHANGED <<declared, open, owner, wire, resultWire, house, results>>

ReceiverInit(r) ==
  /\ receiverState[r] = "idle"
  /\ receiverState' = [receiverState EXCEPT ![r] = "running"]
  /\ numDataowners' = [numDataowners EXCEPT ![r] = Cardinality(Dataowners)]
  /\ UNCHANGED <<declared, open, owner, wire, resultWire, house, results>>

\* Add one dataowner's share; print and complete after the last.
ReceiverHandleReceive(r, m) ==
  /\ m.to = r
  /\ receiverState[r] # "idle"
  /\ resultWire' = resultWire \ {m}
  /\ results' =
       [results EXCEPT ![r] = @ \cup {<<m.from, q>> : q \in m.share}]
  /\ numDataowners' = [numDataowners EXCEPT ![r] = @ - 1]
  /\ receiverState' = IF numDataowners[r] - 1 = 0
                        THEN [receiverState EXCEPT ![r] = "complete"]
                        ELSE receiverState
  /\ UNCHANGED <<declared, open, owner, wire, house>>

-----------------------------------------------------------------------------
AllComplete ==
  /\ \A p \in Dataowners : state[p] = "complete"
  /\ houseState = "complete"
  /\ \A r \in Recipients : receiverState[r] = "complete"

\* Every process has returned from its root fronctocol.
Terminated == AllComplete /\ UNCHANGED vars

Next ==
  \/ \E p \in Dataowners : MomentsInit(p)
  \/ \E p, q \in Dataowners : HandleReceive(p, q)
  \/ \E p \in Dataowners : \E c \in open[p] : HandleComplete(p, c)
  \/ \E p \in Dataowners : \E c \in open[p] : DivisionDone(p, c)
  \/ HouseInit
  \/ \E c \in open[Dealer] : HouseHandleComplete(c)
  \/ \E r \in Recipients : ReceiverInit(r)
  \/ \E r \in Recipients : \E m \in resultWire : ReceiverHandleReceive(r, m)
  \/ Terminated

Spec == Init /\ [][Next]_vars

\* Every process keeps handling events, every message arrives, and a child whose
\* peers have all invoked it completes.  (A child that needs fewer peers MAY
\* complete earlier, but nothing depends on it.)
Fairness ==
  /\ \A p \in Dataowners :
       /\ WF_vars(MomentsInit(p))
       /\ \A q \in Dataowners : WF_vars(HandleReceive(p, q))
       /\ WF_vars(\E c \in open[p] : Met(p, c, c.peers) /\ HandleComplete(p, c))
       /\ WF_vars(\E c \in open[p] : Met(p, c, c.peers) /\ DivisionDone(p, c))
  /\ WF_vars(HouseInit)
  /\ WF_vars(\E c \in open[Dealer] :
               Met(Dealer, c, c.peers) /\ HouseHandleComplete(c))
  /\ \A r \in Recipients :
       /\ WF_vars(ReceiverInit(r))
       /\ WF_vars(\E m \in resultWire : ReceiverHandleReceive(r, m))

FairSpec == Spec /\ Fairness

-----------------------------------------------------------------------------
ChildType == [kind : Kinds, peers : PeerSets]
RandomnessType == [modConvUp : Int, divide : Int, zipAdjacent : Int]
ResultMsg == [from : Dataowners, to : Recipients, share : SUBSET Dataowners]

\* Every variable has its type: in particular no counter of Moments.cpp,
\* MomentsHouse.cpp or MomentsReceiver.cpp (all size_t) wraps below zero.
TypeOK ==
  /\ declared \in [Parties -> [PeerSets -> Seq(Kinds)]]
  /\ open \in [Parties -> SUBSET ChildType]
  /\ state \in [Dataowners -> MomentsState \cup {"idle", "complete"}]
  /\ numPartiesAwaiting \in [Dataowners -> Nat]
  /\ randomnessDone \in [Dataowners -> BOOLEAN]
  /\ sharedLists \in [Dataowners -> SUBSET Dataowners]
  /\ sortedLists \in [Dataowners -> SUBSET Dataowners]
  /\ vectorZippedAdjacent \in [Dataowners -> SUBSET Dataowners]
  /\ powerSums \in [Dataowners -> SUBSET Dataowners]
  /\ randomness \in [Dataowners -> RandomnessType]
  /\ wire \subseteq Dataowners \X Dataowners
  /\ resultWire \subseteq ResultMsg
  /\ houseState \in RunState
  /\ numDealersRemaining \in Nat
  /\ receiverState \in [Recipients -> RunState]
  /\ numDataowners \in [Recipients -> Nat]
  /\ results \in [Recipients -> SUBSET (Dataowners \X Dataowners)]

OpenOf(p, kind) == {c \in open[p] : c.kind = kind}

\* One counter, numPartiesAwaiting, is used for the lists, then for the sorts,
\* then for the zips, while the patron may complete at any of those times
\* (Moments::handleReceive and handleComplete).  It is always exactly what
\* the dataowner still waits for, so no phase starts early or never.
AwaitsWhatIsMissing ==
  \A p \in Dataowners : state[p] \notin {"idle", "complete"} =>
    numPartiesAwaiting[p] =
      IF sharedLists[p] # Cross(p) THEN Cardinality(Cross(p) \ sharedLists[p])
      ELSE Cardinality(OpenOf(p, "SISOSort")) + Cardinality(OpenOf(p, "ZipAdjacent"))

\* handleComplete casts its argument by the state it is in, with static_cast: the
\* children that can complete are of the kind that state expects, and no child
\* completes in a state the switch does not list.
ExpectedKind(p) ==
  CASE state[p] = "awaitingZipAdjacent" -> {"ZipAdjacent"}
    [] state[p] = "awaitingBatchedModConvUp" -> {"ModConvUp"}
    [] state[p] = "awaitingDivision" -> {"Divide"}
    [] state[p] = "awaitingSISOSort" -> {"SISOSort"}
    [] OTHER -> {}
ChildrenMatchState ==
  \A p \in Dataowners : \A c \in open[p] :
    c.kind \in IF randomnessDone[p] THEN ExpectedKind(p)
                                   ELSE {"Randomness", "SISOSort"}

\* A SISOSort is only ever started on lists that hold both halves, a ZipAdjacent
\* only on sorted lists and with its randomness at hand: the three arrive in any
\* order and Moments::handleComplete sorts that out by state alone.
InputsReady ==
  \A p \in Dataowners : \A c \in open[p] :
    /\ c.kind = "SISOSort" => sharedLists[p] = Cross(p)
    /\ c.kind = "ZipAdjacent" => sortedLists[p] = Cross(p) /\ randomnessDone[p]

\* No dispenser is asked for more than the patron fetched (MomentsPatron's counts
\* against the gets of handleComplete).
DispensersSuffice ==
  \A p \in Dataowners :
    /\ randomness[p].modConvUp >= 0
    /\ randomness[p].divide >= 0
    /\ randomness[p].zipAdjacent >= 0

\* What a recipient prints is the sum over every pair of dataowners of two
\* verticals, and of both partners' shares of it: one missing share would make
\* the printed number a uniformly random one.
ResultIsWhole ==
  \A r \in Recipients : receiverState[r] = "complete" =>
    results[r] = {m \in Dataowners \X Dataowners : m[2] \in Cross(m[1])}

\* The dataowners pass the joint batches together: nobody has completed while
\* another has not yet reached the division.
Lockstep ==
  \A p, q \in Dataowners : state[p] = "complete" =>
    state[q] \in {"awaitingDivision", "complete"}

\* A root fronctocol (dataowner, dealer) completes exactly when none of its
\* children is left.
CompleteLeavesNothing ==
  /\ \A p \in Dataowners : state[p] = "complete" => open[p] = {}
  /\ houseState = "complete" <=> houseState # "idle" /\ open[Dealer] = {}

\* Every dataowner, the dealer and every recipient completes.
Termination == <>AllComplete

-----------------------------------------------------------------------------
(* The inductive invariant from which MomentsProofs derives the above *)

Sorts(p, T) == Children("SISOSort", {DealtPair(p, q) : q \in T})
Zips(p, T) == Children("ZipAdjacent", {Pair(p, q) : q \in T})
Patron == Child("Randomness", Parties)
PatronOpen(p) == IF randomnessDone[p] THEN {} ELSE {Patron}
PatronHas(p) ==
  randomness[p] = IF randomnessDone[p] THEN DealtRandomness ELSE NoRandomness

\* The phases of a dataowner.  From Collecting to Sorting the patron may complete
\* at any time; what is open and what is counted always agree.
Idle(p) ==
  /\ state[p] = "idle"
  /\ ~randomnessDone[p]
  /\ numPartiesAwaiting[p] = 0
  /\ sharedLists[p] = {} /\ sortedLists[p] = {} /\ vectorZippedAdjacent[p] = {}
  /\ powerSums[p] = {}
  /\ randomness[p] = NoRandomness
  /\ open[p] = {}

Collecting(p) ==
  /\ state[p] = IF randomnessDone[p] THEN "awaitingSISOSort"
                                     ELSE "awaitingRandomnessAndSISOSort"
  /\ sharedLists[p] \subseteq Cross(p) /\ sharedLists[p] # Cross(p)
  /\ numPartiesAwaiting[p] = Cardinality(Cross(p) \ sharedLists[p])
  /\ sortedLists[p] = {} /\ vectorZippedAdjacent[p] = {} /\ powerSums[p] = {}
  /\ PatronHas(p)
  /\ open[p] = PatronOpen(p)

Sorting(p) ==
  /\ state[p] = IF sortedLists[p] = Cross(p) THEN "awaitingRandomnessOnly"
                                             ELSE "awaitingSISOSort"
  /\ randomnessDone[p] => sortedLists[p] # Cross(p)
  /\ sharedLists[p] = Cross(p)
  /\ sortedLists[p] \subseteq Cross(p)
  /\ numPartiesAwaiting[p] = Cardinality(Cross(p) \ sortedLists[p])
  /\ vectorZippedAdjacent[p] = {} /\ powerSums[p] = {}
  /\ PatronHas(p)
  /\ open[p] = PatronOpen(p) \cup Sorts(p, Cross(p) \ sortedLists[p])

Zipping(p) ==
  /\ state[p] = "awaitingZipAdjacent"
  /\ randomnessDone[p]
  /\ sharedLists[p] = Cross(p) /\ sortedLists[p] = Cross(p)
  /\ vectorZippedAdjacent[p] \subseteq Cross(p)
  /\ vectorZippedAdjacent[p] # Cross(p)
  /\ numPartiesAwaiting[p] = Cardinality(Cross(p) \ vectorZippedAdjacent[p])
  /\ powerSums[p] = {}
  /\ randomness[p] = [modConvUp |-> PayloadLength, divide |-> PayloadLength,
                      zipAdjacent |-> 0]
  /\ open[p] = Zips(p, Cross(p) \ vectorZippedAdjacent[p])

\* The joint batches: everything of the partners is in the sums.
Summed(p) ==
  /\ randomnessDone[p]
  /\ sharedLists[p] = Cross(p) /\ sortedLists[p] = Cross(p)
  /\ vectorZippedAdjacent[p] = Cross(p) /\ powerSums[p] = Cross(p)
  /\ numPartiesAwaiting[p] = 0
Lifting(p) ==
  /\ state[p] = "awaitingBatchedModConvUp"
  /\ Summed(p)
  /\ randomness[p] = [modConvUp |-> 0, divide |-> PayloadLength, zipAdjacent |-> 0]
  /\ open[p] = {Child("ModConvUp", Dataowners)}
Dividing(p) ==
  /\ state[p] = "awaitingDivision"
  /\ Summed(p)
  /\ randomness[p] = [modConvUp |-> 0, divide |-> 1, zipAdjacent |-> 0]
  /\ open[p] = {Child("Divide", Dataowners)}
Completed(p) ==
  /\ state[p] = "complete"
  /\ Summed(p)
  /\ randomness[p] = [modConvUp |-> 0, divide |-> 1, zipAdjacent |-> 0]
  /\ open[p] = {}

OwnerPhase(p) ==
  \/ Idle(p) \/ Collecting(p) \/ Sorting(p) \/ Zipping(p)
  \/ Lifting(p) \/ Dividing(p) \/ Completed(p)

\* A list share comes from a dataowner that has started, and comes once.
WireInv ==
  /\ \A p, q \in Dataowners : <<q, p>> \in wire =>
       q \in Cross(p) /\ q \notin sharedLists[p] /\ state[q] # "idle"
  /\ \A p \in Dataowners : \A q \in sharedLists[p] : state[q] # "idle"

HouseInv ==
  /\ IsFiniteSet(open[Dealer])
  /\ numDealersRemaining = Cardinality(open[Dealer])
  /\ houseState = "idle" => open[Dealer] = {}
  /\ houseState = "running" => open[Dealer] # {}
  /\ houseState = "complete" => open[Dealer] = {}

\* The dataowners whose share a recipient has added.
Heard(r) == {p \in Dataowners : \E q \in Dataowners : <<p, q>> \in results[r]}

ReceiverInv ==
  /\ \A m \in resultWire :
       /\ state[m.from] = "complete"
       /\ m.share = Cross(m.from)
       /\ m.from \notin Heard(m.to)
  /\ \A r \in Recipients :
       /\ \A p, q \in Dataowners :
            <<p, q>> \in results[r] => q \in Cross(p) /\ state[p] = "complete"
       /\ \A p \in Heard(r) : \A q \in Cross(p) : <<p, q>> \in results[r]
       /\ receiverState[r] = "idle" => results[r] = {} /\ numDataowners[r] = 0
       /\ receiverState[r] # "idle" =>
            numDataowners[r] = Cardinality(Dataowners \ Heard(r))
       /\ receiverState[r] = "complete" => Heard(r) = Dataowners

\* TypeOK but for the counters, which the other conjuncts bound.
Shape ==
  /\ declared \in [Parties -> [PeerSets -> Seq(Kinds)]]
  /\ open \in [Parties -> SUBSET ChildType]
  /\ state \in [Dataowners -> MomentsState \cup {"idle", "complete"}]
  /\ numPartiesAwaiting \in [Dataowners -> Int]
  /\ randomnessDone \in [Dataowners -> BOOLEAN]
  /\ sharedLists \in [Dataowners -> SUBSET Dataowners]
  /\ sortedLists \in [Dataowners -> SUBSET Dataowners]
  /\ vectorZippedAdjacent \in [Dataowners -> SUBSET Dataowners]
  /\ powerSums \in [Dataowners -> SUBSET Dataowners]
  /\ randomness \in [Dataowners -> RandomnessType]
  /\ wire \subseteq Dataowners \X Dataowners
  /\ resultWire \subseteq ResultMsg
  /\ houseState \in RunState
  /\ receiverState \in [Recipients -> RunState]
  /\ numDataowners \in [Recipients -> Int]
  /\ results \in [Recipients -> SUBSET (Dataowners \X Dataowners)]

\* A dataowner is always in one of seven phases that fix, from what has arrived,
\* every counter, child and dispenser of dataowner::Moments at once; messages are
\* sent once and counted once by the recipients.
Inv ==
  /\ Shape
  /\ \A p \in Dataowners : OwnerPhase(p)
  /\ WireInv
  /\ HouseInv
  /\ ReceiverInv
-----------------------------------------------------------------------------
(* The streams of declarations, from which MomentsProofs derives Matched and *)
(* Lockstep                                                                  *)

\* What the parties of a peer set have declared for it by the time a dataowner of
\* the peer set has come to each phase.
StartStream == Declare(NoStream, "Randomness", {Parties})
SortStream == Declare(StartStream, "SISOSort", AllDealtPairs)
ZipStream == Declare(SortStream, "ZipAdjacent", AllPairs)
LiftStream == Declare(ZipStream, "ModConvUp", {Dataowners})
DivideStream == Declare(LiftStream, "Divide", {Dataowners})

StreamOf(p) ==
  CASE state[p] = "idle" -> NoStream
    [] state[p] = "awaitingZipAdjacent" -> ZipStream
    [] state[p] = "awaitingBatchedModConvUp" -> LiftStream
    [] state[p] \in {"awaitingDivision", "complete"} -> DivideStream
    [] OTHER -> IF sharedLists[p] = Cross(p) THEN SortStream ELSE StartStream

\* A party's streams are those of its phase, and nobody completes before all have
\* declared the division.
OwnerStreams ==
  \A p \in Dataowners : \A ps \in PeerSets :
    p \in ps => declared[p][ps] = StreamOf(p)[ps]
DealerStreams ==
  \A ps \in PeerSets : Dealer \in ps =>
    declared[Dealer][ps] = IF houseState = "idle" THEN <<>> ELSE SortStream[ps]
StreamInv == OwnerStreams /\ DealerStreams /\ Lockstep
=============================================================================
