-------------------------- MODULE MomentsRandomness --------------------------
(***************************************************************************)
(* The randomness of a moments query: dataowner::MomentsRandomnessPatron   *)
(* at every dataowner and dealer::MomentsRandomnessBasement at the dealer. *)
(* The Basement opens all its houses at once; each patron walks through    *)
(* them in its own time: ModConvUp, Divide, then one ZipAdjacent for each  *)
(* partner.  declared and open are the streams and the children of THIS    *)
(* fronctocol, one level below those of Moments.                           *)
(***************************************************************************)
EXTENDS Fronctocol, Integers

CONSTANT PayloadLength    \* MomentsInfo::payloadLength

VARIABLES
  state,                 \* MomentsRandomnessPatron::state
  numPartiesAwaiting,    \* MomentsRandomnessPatron::numPartiesAwaiting
  dispensers,            \* the sizes of the dispensers a patron holds
  zipAdjacentDispensers, \* the partners whose slot of the vector is filled
  output,                \* what the patron's MomentsDispenser holds
  basementState, numDealersRemaining    \* MomentsRandomnessBasement

patron == <<state, numPartiesAwaiting, dispensers, zipAdjacentDispensers, output>>
basement == <<basementState, numDealersRemaining>>
vars == <<declared, open, patron, basement>>

\* The counts of the constructor, for a dispenserSize of 1 (the only size
\* Moments asks for).
numModConvUpNeeded == PayloadLength
numDivideNeeded == PayloadLength
numConditionalEvaluateNeeded == 1

Nothing == [modConvUp |-> 0, divide |-> 0, zipAdjacent |-> 0]

Init ==
  /\ declared = [p \in Parties |-> NoStream]
  /\ open = [p \in Parties |-> {}]
  /\ state = [p \in Dataowners |-> "idle"]
  /\ numPartiesAwaiting = [p \in Dataowners |-> 0]
  /\ dispensers = [p \in Dataowners |-> Nothing]
  /\ zipAdjacentDispensers = [p \in Dataowners |-> {}]
  /\ output = [p \in Dataowners |-> Nothing]
  /\ basementState = "idle"
  /\ numDealersRemaining = 0

-----------------------------------------------------------------------------
(* dataowner::MomentsRandomnessPatron *)

Invoke(p, done, kind, S) ==
  /\ declared' = [declared EXCEPT ![p] = Declare(@, kind, S)]
  /\ open' = [open EXCEPT ![p] = (@ \ done) \cup Children(kind, S)]

Retire(p, done) ==
  /\ open' = [open EXCEPT ![p] = @ \ done]
  /\ UNCHANGED declared

PatronInit(p) ==
  /\ state[p] = "idle"
  /\ Invoke(p, {}, "ModConvUp", {Parties})
  /\ state' = [state EXCEPT ![p] = "awaitingModConvUp"]
  /\ UNCHANGED <<numPartiesAwaiting, dispensers, zipAdjacentDispensers, output,
                 basement>>

\* handleComplete, case awaitingModConvUp.
ModConvUpDealt(p, c) ==
  /\ state[p] = "awaitingModConvUp"
  /\ dispensers' = [dispensers EXCEPT ![p].modConvUp = numModConvUpNeeded]
  /\ Invoke(p, {c}, "Divide", {Parties})
  /\ state' = [state EXCEPT ![p] = "awaitingDivide"]
  /\ UNCHANGED <<numPartiesAwaiting, zipAdjacentDispensers, output>>

\* handleComplete, case awaitingDivide: one ZipAdjacent patron per partner.
DivideDealt(p, c) ==
  /\ state[p] = "awaitingDivide"
  /\ dispensers' = [dispensers EXCEPT ![p].divide = numDivideNeeded]
  /\ Invoke(p, {c}, "ZipAdjacent", DealtPairs(p))
  /\ numPartiesAwaiting' =
       [numPartiesAwaiting EXCEPT ![p] = Cardinality(Cross(p))]
  /\ state' = [state EXCEPT ![p] = "awaitingConditionalEvaluate"]
  /\ UNCHANGED <<zipAdjacentDispensers, output>>

\* generateOutputDispenser dereferences the slot of every partner, empty or not,
\* moves the little dispensers out and completes the patron.
GenerateOutputDispenser(p, zips) ==
  /\ output' = [output EXCEPT ![p] =
       [dispensers[p] EXCEPT !.zipAdjacent =
          IF zips = Cross(p) THEN numConditionalEvaluateNeeded ELSE 0]]
  /\ dispensers' = [dispensers EXCEPT ![p] = Nothing]
  /\ state' = [state EXCEPT ![p] = "complete"]

\* handleComplete, case awaitingConditionalEvaluate: the dispenser goes to the
\* slot of the child's other dataowner.
ZipAdjacentDealt(p, c) ==
  /\ state[p] = "awaitingConditionalEvaluate"
  /\ zipAdjacentDispensers' =
       [zipAdjacentDispensers EXCEPT ![p] = @ \cup (c.peers \cap Cross(p))]
  /\ numPartiesAwaiting' = [numPartiesAwaiting EXCEPT ![p] = @ - 1]
  /\ Retire(p, {c})
  /\ IF numPartiesAwaiting[p] - 1 = 0
     THEN GenerateOutputDispenser(p, zipAdjacentDispensers'[p])
     ELSE UNCHANGED <<state, dispensers, output>>

\* A patron waits for what its house sends.
PatronHandleComplete(p, c) ==
  /\ Met(p, c, {Dealer})
  /\ ModConvUpDealt(p, c) \/ DivideDealt(p, c) \/ ZipAdjacentDealt(p, c)
  /\ UNCHANGED basement

-----------------------------------------------------------------------------
(* dealer::MomentsRandomnessBasement *)

\* Mutant: the two whole-party houses are swapped.
BasementSwapped ==
  Declare(Declare(Declare(NoStream, "Divide", {Parties}),
                  "ModConvUp", {Parties}),
          "ZipAdjacent", AllDealtPairs)

\* The streams of the Basement after ModConvUp, Divide and one ZipAdjacent for
\* every pair of dataowners of two verticals.
BasementStreams ==
  Declare(Declare(Declare(NoStream, "ModConvUp", {Parties}),
                  "Divide", {Parties}),
          "ZipAdjacent", AllDealtPairs)

NumHouses == 2 + Cardinality(AllDealtPairs)

BasementInit ==
  /\ basementState = "idle"
  /\ basementState' = "running"
  /\ declared' = [declared EXCEPT ![Dealer] = BasementStreams]
  /\ open' = [open EXCEPT ![Dealer] =
       {Child("ModConvUp", Parties), Child("Divide", Parties)}
         \cup Children("ZipAdjacent", AllDealtPairs)]
  /\ numDealersRemaining' = NumHouses
  /\ UNCHANGED patron

BasementHandleComplete(c) ==
  /\ Met(Dealer, c, {})
  /\ Retire(Dealer, {c})
  /\ numDealersRemaining' = numDealersRemaining - 1
  /\ basementState' =
       IF numDealersRemaining - 1 = 0 THEN "complete" ELSE basementState
  /\ UNCHANGED patron

-----------------------------------------------------------------------------
AllComplete ==
  /\ \A p \in Dataowners : state[p] = "complete"
  /\ basementState = "complete"

Terminated == AllComplete /\ UNCHANGED vars

Next ==
  \/ \E p \in Dataowners : PatronInit(p)
  \/ \E p \in Dataowners : \E c \in open[p] : PatronHandleComplete(p, c)
  \/ BasementInit
  \/ \E c \in open[Dealer] : BasementHandleComplete(c)
  \/ Terminated

Spec == Init /\ [][Next]_vars

-----------------------------------------------------------------------------
\* A patron that completes hands over a full set of dispensers: no slot of
\* zipAdjacentDispensers is still the null pointer it was made with.
OutputIsFull ==
  \A p \in Dataowners : state[p] = "complete" =>
    output[p] = [modConvUp |-> PayloadLength, divide |-> PayloadLength,
                 zipAdjacent |-> 1]

\* The dealer's side completes exactly when all its houses have.
BasementCountsHouses ==
  /\ basementState # "idle" => numDealersRemaining = Cardinality(open[Dealer])
  /\ basementState = "complete" <=> basementState # "idle" /\ open[Dealer] = {}

\* Patrons and dealer together keep the contract Moments relies on: each starts
\* and finishes once, no patron before the dealer has started.
Contract == INSTANCE ChildContract WITH
  Party <- Parties, DealerParty <- Dealer,
  started <- {p \in Dataowners : state[p] # "idle"}
               \cup {p \in {Dealer} : basementState # "idle"},
  finished <- {p \in Dataowners : state[p] = "complete"}
                \cup {p \in {Dealer} : basementState = "complete"}

-----------------------------------------------------------------------------
(* The inductive invariant from which MomentsRandomnessProofs derives the above *)

ModConvUpStream == Declare(NoStream, "ModConvUp", {Parties})
DivideStream == Declare(ModConvUpStream, "Divide", {Parties})
ZipAdjacentStream(p) == Declare(DivideStream, "ZipAdjacent", DealtPairs(p))

DealtZips(p, T) == Children("ZipAdjacent", {DealtPair(p, q) : q \in T})

\* What a patron has in each phase; the counter, the open children and the empty
\* slots always tell the same partners.
Waiting(p) ==
  /\ state[p] = "idle"
  /\ dispensers[p] = Nothing
  /\ zipAdjacentDispensers[p] = {}
  /\ declared[p] = NoStream
  /\ open[p] = {}
FetchingModConvUp(p) ==
  /\ state[p] = "awaitingModConvUp"
  /\ dispensers[p] = Nothing
  /\ zipAdjacentDispensers[p] = {}
  /\ declared[p] = ModConvUpStream
  /\ open[p] = {Child("ModConvUp", Parties)}
FetchingDivide(p) ==
  /\ state[p] = "awaitingDivide"
  /\ dispensers[p] = [modConvUp |-> PayloadLength, divide |-> 0, zipAdjacent |-> 0]
  /\ zipAdjacentDispensers[p] = {}
  /\ declared[p] = DivideStream
  /\ open[p] = {Child("Divide", Parties)}
FetchingZips(p) ==
  /\ state[p] = "awaitingConditionalEvaluate"
  /\ dispensers[p] =
       [modConvUp |-> PayloadLength, divide |-> PayloadLength, zipAdjacent |-> 0]
  /\ zipAdjacentDispensers[p] \subseteq Cross(p)
  /\ zipAdjacentDispensers[p] # Cross(p)
  /\ numPartiesAwaiting[p] = Cardinality(Cross(p) \ zipAdjacentDispensers[p])
  /\ declared[p] = ZipAdjacentStream(p)
  /\ open[p] = DealtZips(p, Cross(p) \ zipAdjacentDispensers[p])
HandedOver(p) ==
  /\ state[p] = "complete"
  /\ output[p] =
       [modConvUp |-> PayloadLength, divide |-> PayloadLength, zipAdjacent |-> 1]
  /\ declared[p] = ZipAdjacentStream(p)
  /\ open[p] = {}

PatronPhase(p) ==
  \/ Waiting(p) \/ FetchingModConvUp(p) \/ FetchingDivide(p)
  \/ FetchingZips(p) \/ HandedOver(p)

BasementInv ==
  /\ declared[Dealer] = IF basementState = "idle" THEN NoStream ELSE BasementStreams
  /\ IsFiniteSet(open[Dealer])
  /\ numDealersRemaining = Cardinality(open[Dealer])
  /\ basementState = "idle" => open[Dealer] = {}
  /\ basementState = "running" => open[Dealer] # {}
  /\ basementState = "complete" => open[Dealer] = {}

RunState == {"idle", "running", "complete"}
PatronState == {"idle", "awaitingModConvUp", "awaitingDivide",
                "awaitingConditionalEvaluate", "complete"}
DispensersType ==
  [modConvUp : {0, PayloadLength}, divide : {0, PayloadLength}, zipAdjacent : {0, 1}]
Kinds == {"ModConvUp", "Divide", "ZipAdjacent"}
Shape ==
  /\ declared \in [Parties -> [PeerSets -> Seq(Kinds)]]
  /\ DOMAIN open = Parties
  /\ state \in [Dataowners -> PatronState]
  /\ numPartiesAwaiting \in [Dataowners -> Int]
  /\ dispensers \in [Dataowners -> DispensersType]
  /\ zipAdjacentDispensers \in [Dataowners -> SUBSET Dataowners]
  /\ output \in [Dataowners -> DispensersType]
  /\ basementState \in RunState

\* Every patron is in one of five phases that fix its streams, children, counter
\* and dispensers at once, and the Basement counts its open houses.
Inv ==
  /\ Shape
  /\ \A p \in Dataowners : PatronPhase(p)
  /\ BasementInv
=============================================================================
