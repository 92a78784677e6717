------------------------------- MODULE Dealing -------------------------------
(***************************************************************************)
(* How randomness is fetched: a patron at every dataowner walks through a  *)
(* fixed list of steps, and the dealer's houses open the list at once.     *)
(* RegressionRandomnessPatron with RegressionRandomnessBasement, and       *)
(* LookupRandomnessPatron with LookupRandomnessHouse, are the two          *)
(* instances: RegressionRandomness and LookupRandomness give the lists.    *)
(*                                                                         *)
(* A step fetches one dispenser from all parties together, or, when it is  *)
(* paired, one for each partner of another vertical.  Here a child also    *)
(* carries its place in the stream of its peer set: the same kind is       *)
(* fetched more than once.                                                 *)
(***************************************************************************)
EXTENDS Fronctocol, Integers

CONSTANT Lists   \* the lists of the queries that may be dealt for:
  \* patron   the patron's steps, as its switch goes through them
  \* house    the houses, in the order the dealer's init invokes them
  \* whole    numDealersRemaining as the dealer's init first sets it
  \* size     how many outputs the parent asked the patron for

Step(kind, paired, needed) == [kind |-> kind, paired |-> paired, needed |-> needed]
\* A house is told by its patrons how much to deal.
House(kind, paired) == [kind |-> kind, paired |-> paired]

ASSUME ListsAssumption ==
  \A l \in Lists :
    /\ l.patron \in Seq([kind : STRING, paired : BOOLEAN, needed : Nat]) /\ l.patron # << >>
    /\ l.house \in Seq([kind : STRING, paired : BOOLEAN])
    /\ l.whole \in Nat /\ l.size \in Nat \ {0}

VARIABLES
  lists,                \* the one of Lists that is dealt
  state,                \* the step a patron awaits; 0 before init
  numPartiesAwaiting,   \* the dispensers of a paired step still to come
  dispensers,           \* the dispensers a patron holds: step, peers and size
  outputs,              \* what the patron handed over; {} before that
  basementState, numDealersRemaining    \* the dealer's side

patron == <<state, numPartiesAwaiting, dispensers, outputs>>
basement == <<basementState, numDealersRemaining>>
vars == <<declared, open, patron, basement>>

PatronSteps == lists.patron
HouseSteps == lists.house
WholePartyHouses == lists.whole
DispenserSize == lists.size

Done == Len(PatronSteps) + 1

\* The peer sets of a step, at a patron and at the dealer.
PeersOf(p, step) == IF step.paired THEN DealtPairs(p) ELSE {Parties}
HousePeers(step) == IF step.paired THEN AllDealtPairs ELSE {Parties}

PlacedChild(kind, ps, n) == [kind |-> kind, peers |-> ps, place |-> n]

\* Each party of need has declared a child at this place of the stream.
Joined(c, need) == \A q \in need : Len(declared[q][c.peers]) >= c.place

Init ==
  /\ lists \in Lists
  /\ declared = [p \in Parties |-> NoStream]
  /\ open = [p \in Parties |-> {}]
  /\ state = [p \in Dataowners |-> 0]
  /\ numPartiesAwaiting = [p \in Dataowners |-> 0]
  /\ dispensers = [p \in Dataowners |-> {}]
  /\ outputs = [p \in Dataowners |-> {}]
  /\ basementState = "idle"
  /\ numDealersRemaining = 0

-----------------------------------------------------------------------------
(* The patron *)

\* Enter step k: invoke its children after done has left, and count the partners
\* when the step is paired.
Enter(p, k, done) ==
  LET step == PatronSteps[k] IN
  /\ declared' = [declared EXCEPT ![p] = Declare(@, step.kind, PeersOf(p, step))]
  /\ open' = [open EXCEPT ![p] = (@ \ done) \cup
       {PlacedChild(step.kind, ps, Len(declared[p][ps]) + 1) :
          ps \in PeersOf(p, step)}]
  /\ numPartiesAwaiting' = IF step.paired
       THEN [numPartiesAwaiting EXCEPT ![p] = Cardinality(Cross(p))]
       ELSE numPartiesAwaiting
  /\ state' = [state EXCEPT ![p] = k]

\* Mutant: a patron that is done may be started again.
PatronRestarts(p) ==
  /\ state[p] \in {0, Done}
  /\ Enter(p, 1, {})
  /\ UNCHANGED <<dispensers, outputs, basement>>

PatronInit(p) ==
  /\ state[p] = 0
  /\ Enter(p, 1, {})
  /\ UNCHANGED <<dispensers, outputs, basement>>

\* The dispenser the completed child leaves in its slot.
Fetched(p, c) ==
  [step |-> state[p], peers |-> c.peers,
   size |-> PatronSteps[state[p]].needed * DispenserSize]

\* Mutant: the loop runs once more than it should.
OneDispenserMore(d) ==
  [d EXCEPT !.size = @ - PatronSteps[d.step].needed * (DispenserSize + 1)]

\* generateOutputDispenser takes DispenserSize little dispensers of the needed
\* amount out of each dispenser; this is what is left of one of them.
LittleDispensers(d) ==
  [d EXCEPT !.size = @ - PatronSteps[d.step].needed * DispenserSize]

GenerateOutputDispenser(p, done, ds) ==
  /\ outputs' = [outputs EXCEPT ![p] = {LittleDispensers(d) : d \in ds}]
  /\ dispensers' = [dispensers EXCEPT ![p] = {}]
  /\ state' = [state EXCEPT ![p] = Done]
  /\ open' = [open EXCEPT ![p] = @ \ done]

\* handleComplete: every case stores the dispenser, and goes on to the next step,
\* at once, or in a paired step after the last partner.
PatronHandleComplete(p, c) ==
  LET k == state[p]
      held == dispensers[p] \cup {Fetched(p, c)}
      last == ~PatronSteps[k].paired \/ numPartiesAwaiting[p] - 1 = 0
  IN
  /\ Joined(c, {Dealer})
  /\ IF last /\ k = Len(PatronSteps)
     THEN /\ GenerateOutputDispenser(p, {c}, held)
          /\ UNCHANGED <<declared, numPartiesAwaiting>>
     ELSE /\ dispensers' = [dispensers EXCEPT ![p] = held]
          /\ UNCHANGED outputs
          /\ IF last
             THEN Enter(p, k + 1, {c})
             ELSE /\ numPartiesAwaiting' =
                       [numPartiesAwaiting EXCEPT ![p] = @ - 1]
                  /\ open' = [open EXCEPT ![p] = @ \ {c}]
                  /\ UNCHANGED <<declared, state>>
  /\ UNCHANGED basement

-----------------------------------------------------------------------------
(* The dealer *)

\* The place of the k-th of these invocations in the stream of ps, and the kind
\* of the one in place n.
Place(steps, k, ps) == Cardinality({i \in 1 .. k : ps \in HousePeers(steps[i])})
KindAt(steps, ps, n) ==
  steps[CHOOSE k \in DOMAIN steps :
          ps \in HousePeers(steps[k]) /\ Place(steps, k, ps) = n].kind

\* The streams after the first k of them, invoked in their order.
StreamsAfter(steps, k) ==
  [ps \in PeerSets |-> [n \in 1 .. Place(steps, k, ps) |-> KindAt(steps, ps, n)]]

BasementStreams == StreamsAfter(HouseSteps, Len(HouseSteps))

Houses ==
  UNION {{PlacedChild(HouseSteps[k].kind, ps, Place(HouseSteps, k, ps)) :
            ps \in HousePeers(HouseSteps[k])} : k \in DOMAIN HouseSteps}

\* The whole-party houses are counted in advance, by a literal; the paired ones as
\* they are invoked.
NumHouses ==
  WholePartyHouses + Cardinality({k \in DOMAIN HouseSteps : HouseSteps[k].paired})
                       * Cardinality(AllDealtPairs)

BasementInit ==
  /\ basementState = "idle"
  /\ basementState' = "running"
  /\ declared' = [declared EXCEPT ![Dealer] = BasementStreams]
  /\ open' = [open EXCEPT ![Dealer] = Houses]
  /\ numDealersRemaining' = NumHouses
  /\ UNCHANGED patron

BasementHandleComplete(c) ==
  /\ open' = [open EXCEPT ![Dealer] = @ \ {c}]
  /\ numDealersRemaining' = numDealersRemaining - 1
  /\ basementState' =
       IF numDealersRemaining - 1 = 0 THEN "complete" ELSE basementState
  /\ UNCHANGED <<declared, patron>>

-----------------------------------------------------------------------------
AllComplete ==
  /\ \A p \in Dataowners : state[p] = Done
  /\ basementState = "complete"

Terminated == AllComplete /\ UNCHANGED vars

\* The walk of the patrons, with the houses open and none of them closed yet:
\* closing a house changes nothing a patron looks at.
Walked ==
  /\ \A p \in Dataowners : state[p] = Done
  /\ basementState = "running"
  /\ UNCHANGED vars

Walk ==
  \/ \E p \in Dataowners : PatronInit(p)
  \/ \E p \in Dataowners : \E c \in open[p] : PatronHandleComplete(p, c)
  \/ BasementInit
  \/ Walked

Next ==
  \/ Walk
  \/ \E c \in open[Dealer] : BasementHandleComplete(c)
  \/ Terminated

Spec == Init /\ [][Next /\ UNCHANGED lists]_<<lists, vars>>

-----------------------------------------------------------------------------
\* The slots that are filled once steps 1 .. k are through.
SlotsUpTo(p, k) ==
  UNION {{<<i, ps>> : ps \in PeersOf(p, PatronSteps[i])} : i \in 1 .. k}
Filled(ds) == {<<d.step, d.peers>> : d \in ds}

\* A patron that completes hands over dispensers for every slot (none is still
\* the null pointer it was made with) and takes exactly what it had asked for.
OutputIsFull ==
  \A p \in Dataowners : state[p] = Done =>
    /\ Filled(outputs[p]) = SlotsUpTo(p, Len(PatronSteps))
    /\ \A d \in outputs[p] : d.size = 0

\* The dealer's side completes exactly when all its houses have.
BasementCountsHouses ==
  /\ basementState # "idle" => numDealersRemaining = Cardinality(open[Dealer])
  /\ basementState = "complete" <=> basementState # "idle" /\ open[Dealer] = {}

-----------------------------------------------------------------------------
(* The inductive invariant from which DealingProofs derives the above *)

\* What a patron invokes, step by step, and its streams after k steps.
HouseOf(step) == House(step.kind, step.paired)
Invocations == [k \in DOMAIN PatronSteps |-> HouseOf(PatronSteps[k])]
StreamsOf(p, k) ==
  [ps \in PeerSets |-> IF p \in ps THEN StreamsAfter(Invocations, k)[ps] ELSE << >>]

\* The peer sets a patron still awaits a dispenser from.
Missing(p) == {c.peers : c \in open[p]}

\* What a patron has before it starts, at each step and after the last: the counter,
\* the open children and the empty slots always tell the same partners.
Waiting(p) ==
  /\ state[p] = 0
  /\ declared[p] = NoStream
  /\ open[p] = {}
  /\ dispensers[p] = {}
Fetching(p) ==
  LET k == state[p]
      step == PatronSteps[k]
  IN
  /\ k \in 1 .. Len(PatronSteps)
  /\ declared[p] = StreamsOf(p, k)
  /\ Missing(p) \subseteq PeersOf(p, step) /\ Missing(p) # {}
  /\ open[p] =
       {PlacedChild(step.kind, ps, Place(Invocations, k, ps)) : ps \in Missing(p)}
  /\ step.paired => numPartiesAwaiting[p] = Cardinality(Missing(p))
  /\ Filled(dispensers[p]) =
       SlotsUpTo(p, k - 1) \cup {<<k, ps>> : ps \in PeersOf(p, step) \ Missing(p)}
  /\ \A d \in dispensers[p] : d.size = PatronSteps[d.step].needed * DispenserSize
HandedOver(p) ==
  /\ state[p] = Done
  /\ declared[p] = StreamsOf(p, Len(PatronSteps))
  /\ open[p] = {}
  /\ Filled(outputs[p]) = SlotsUpTo(p, Len(PatronSteps))
  /\ \A d \in outputs[p] : d.size = 0

PatronPhase(p) == Waiting(p) \/ Fetching(p) \/ HandedOver(p)

BasementInv ==
  /\ declared[Dealer] = IF basementState = "idle" THEN NoStream ELSE BasementStreams
  /\ IsFiniteSet(open[Dealer])
  /\ numDealersRemaining = Cardinality(open[Dealer])
  /\ basementState = "running" <=> open[Dealer] # {}

DispenserType == [step : 1 .. Len(PatronSteps), peers : PeerSets, size : Int]
Shape ==
  /\ lists \in Lists
  /\ DOMAIN declared = Parties /\ DOMAIN open = Parties
  /\ state \in [Dataowners -> 0 .. Done]
  /\ numPartiesAwaiting \in [Dataowners -> Int]
  /\ dispensers \in [Dataowners -> SUBSET DispenserType]
  /\ outputs \in [Dataowners -> SUBSET DispenserType]
  /\ basementState \in {"idle", "running", "complete"}

\* Every patron is before, at or after a step that fixes its streams, children,
\* counter and dispensers at once, and the dealer counts its open houses.
Inv ==
  /\ Shape
  /\ \A p \in Dataowners : PatronPhase(p)
  /\ BasementInv
=============================================================================
