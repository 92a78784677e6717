---------------------------- MODULE MomentsProofs ----------------------------
(***************************************************************************)
(* Theorems about Moments, for any number of dataowners in any number of   *)
(* verticals, any set of recipients and any number of moments.             *)
(*                                                                         *)
(* Those of the first part follow from one inductive invariant,            *)
(* Moments!Inv: it lists the phases a dataowner can be in.  The lemmas     *)
(* before the induction are about the children of a paired phase and about *)
(* phases.  Those of the second part follow from Moments!StreamInv.        *)
(*                                                                         *)
(* The third part is about the composed query.  Its steps are steps of     *)
(* Moments and steps of MomentsRandomness, so what the first two parts and *)
(* MomentsRandomnessProofs establish of the two levels holds of the query; *)
(* what the patron hands over to its parent is proved there.               *)
(***************************************************************************)
EXTENDS MomentsQuery, FronctocolLemmas

-----------------------------------------------------------------------------
(* Types *)

\* What Children builds are children.
LEMMA ChildrenType ==
  ASSUME NEW kind \in Kinds, NEW S, S \subseteq PeerSets
  PROVE  Children(kind, S) \subseteq ChildType
BY DEF Children, Child, ChildType

\* Declaring an invocation keeps the type of the streams.
LEMMA DeclareType ==
  ASSUME NEW s \in [PeerSets -> Seq(Kinds)], NEW kind \in Kinds, NEW S
  PROVE  Declare(s, kind, S) \in [PeerSets -> Seq(Kinds)]
BY DEF Declare

-----------------------------------------------------------------------------
(* The children of a paired phase *)

\* A sort that completes is the sort with exactly one partner, and what stays open
\* are the sorts with the others.
LEMMA SortsLemma ==
  ASSUME NEW p \in Dataowners, NEW T \in SUBSET Cross(p),
         NEW c \in Sorts(p, T)
  PROVE  /\ c.kind = "SISOSort"
         /\ \E q \in T : /\ c.peers \ {p, Dealer} = {q}
                         /\ Sorts(p, T) \ {c} = Sorts(p, T \ {q})
<1>1. PICK q \in T : c = Child("SISOSort", {p, q, Dealer})
  BY DEF Sorts, Children, DealtPair
<1>2. /\ q # p /\ q # Dealer
      /\ c.kind = "SISOSort" /\ c.peers = {p, q, Dealer}
  BY <1>1, CrossLemma DEF Child
<1>3. c.peers \ {p, Dealer} = {q}
  BY <1>2
<1>4. ASSUME NEW x \in T, Child("SISOSort", {p, x, Dealer}) = c
      PROVE  x = q
  <2>1. {p, x, Dealer} = {p, q, Dealer}
    BY <1>1, <1>4 DEF Child
  <2>2. x # p /\ x # Dealer
    BY CrossLemma
  <2> QED
    BY <2>1, <2>2
<1>5. Sorts(p, T) \ {c} = Sorts(p, T \ {q})
  BY <1>1, <1>4 DEF Sorts, Children, DealtPair
<1> QED
  BY <1>2, <1>3, <1>5

\* The same for the zips, whose peers are the two dataowners alone.
LEMMA ZipsLemma ==
  ASSUME NEW p \in Dataowners, NEW T \in SUBSET Cross(p),
         NEW c \in Zips(p, T)
  PROVE  /\ c.kind = "ZipAdjacent"
         /\ \E q \in T : /\ c.peers \ {p} = {q}
                         /\ Zips(p, T) \ {c} = Zips(p, T \ {q})
<1>1. PICK q \in T : c = Child("ZipAdjacent", {p, q})
  BY DEF Zips, Children, Pair
<1>2. q # p /\ c.kind = "ZipAdjacent" /\ c.peers = {p, q}
  BY <1>1, CrossLemma DEF Child
<1>3. c.peers \ {p} = {q}
  BY <1>2
<1>4. ASSUME NEW x \in T, Child("ZipAdjacent", {p, x}) = c
      PROVE  x = q
  <2>1. {p, x} = {p, q}
    BY <1>1, <1>4 DEF Child
  <2>2. x # p
    BY CrossLemma
  <2> QED
    BY <2>1, <2>2
<1>5. Zips(p, T) \ {c} = Zips(p, T \ {q})
  BY <1>1, <1>4 DEF Zips, Children, Pair
<1> QED
  BY <1>2, <1>3, <1>5

\* A paired phase starts with one child per partner.
LEMMA PairedStart ==
  ASSUME NEW p \in Dataowners
  PROVE  /\ Children("SISOSort", DealtPairs(p)) = Sorts(p, Cross(p))
         /\ Children("ZipAdjacent", Pairs(p)) = Zips(p, Cross(p))
         /\ Sorts(p, {}) = {} /\ Zips(p, {}) = {}
BY DEF Sorts, Zips, Pairs, DealtPairs, Children

-----------------------------------------------------------------------------
(* Phases *)

\* A dataowner none of whose variables change stays in its phase.
LEMMA OwnerUnchanged ==
  ASSUME NEW p \in Dataowners, OwnerPhase(p),
         state'[p] = state[p],
         numPartiesAwaiting'[p] = numPartiesAwaiting[p],
         randomnessDone'[p] = randomnessDone[p],
         sharedLists'[p] = sharedLists[p],
         sortedLists'[p] = sortedLists[p],
         vectorZippedAdjacent'[p] = vectorZippedAdjacent[p],
         powerSums'[p] = powerSums[p],
         randomness'[p] = randomness[p],
         open'[p] = open[p]
  PROVE  OwnerPhase(p)'
<1>1. CASE Idle(p)
  BY <1>1 DEF OwnerPhase, Idle
<1>2. CASE Collecting(p)
  BY <1>2 DEF OwnerPhase, Collecting, PatronHas, PatronOpen
<1>3. CASE Sorting(p)
  BY <1>3 DEF OwnerPhase, Sorting, PatronHas, PatronOpen
<1>4. CASE Zipping(p)
  BY <1>4 DEF OwnerPhase, Zipping
<1>5. CASE Lifting(p)
  BY <1>5 DEF OwnerPhase, Lifting, Summed
<1>6. CASE Dividing(p)
  BY <1>6 DEF OwnerPhase, Dividing, Summed
<1>7. CASE Completed(p)
  BY <1>7 DEF OwnerPhase, Completed, Summed
<1> QED
  BY <1>1, <1>2, <1>3, <1>4, <1>5, <1>6, <1>7 DEF OwnerPhase

\* What is known of the phase from Moments::state.
LEMMA PhaseOf ==
  ASSUME NEW p \in Dataowners, OwnerPhase(p)
  PROVE  /\ state[p] = "idle" => Idle(p)
         /\ state[p] = "awaitingZipAdjacent" => Zipping(p)
         /\ state[p] = "awaitingBatchedModConvUp" => Lifting(p)
         /\ state[p] = "awaitingDivision" => Dividing(p)
         /\ state[p] = "awaitingRandomnessOnly" => Sorting(p)
         /\ state[p] = "awaitingSISOSort" => Collecting(p) \/ Sorting(p)
         /\ state[p] = "complete" => Completed(p)
         /\ ~randomnessDone[p] => Idle(p) \/ Collecting(p) \/ Sorting(p)
BY DEF OwnerPhase, Idle, Collecting, Sorting, Zipping, Summed, Lifting,
       Dividing, Completed

\* The receivers' invariant depends on the dataowners only through which of them
\* have completed.
LEMMA ReceiverUnchanged ==
  ASSUME Shape, ReceiverInv, UNCHANGED <<resultWire, receiver>>,
         \A p \in Dataowners : state[p] = "complete" => state'[p] = "complete"
  PROVE  ReceiverInv'
<1>1. \A r : Heard(r)' = Heard(r)
  BY DEF Heard, receiver
<1>2. \A m \in resultWire' :
        /\ state'[m.from] = "complete"
        /\ m.share = Cross(m.from)
        /\ m.from \notin Heard(m.to)'
  BY <1>1 DEF ReceiverInv, Shape, ResultMsg
<1>3. ASSUME NEW r \in Recipients
      PROVE  \A p, q \in Dataowners :
               <<p, q>> \in results'[r] => q \in Cross(p) /\ state'[p] = "complete"
  BY DEF ReceiverInv, receiver
<1>4. ASSUME NEW r \in Recipients
      PROVE  /\ \A p \in Heard(r)' : \A q \in Cross(p) : <<p, q>> \in results'[r]
             /\ receiverState'[r] = "idle" => results'[r] = {} /\ numDataowners'[r] = 0
             /\ receiverState'[r] # "idle" =>
                  numDataowners'[r] = Cardinality(Dataowners \ Heard(r)')
             /\ receiverState'[r] = "complete" => Heard(r)' = Dataowners
  BY <1>1 DEF ReceiverInv, receiver
<1> QED
  BY <1>2, <1>3, <1>4 DEF ReceiverInv

-----------------------------------------------------------------------------
(* The induction, one lemma for each action *)

\* Moments::init.
LEMMA MomentsInitStep ==
  ASSUME Inv, NEW p \in Dataowners, MomentsInit(p)
  PROVE  Inv'
<1> USE DEF MomentsInit, Invoke, Inv
<1>0. Idle(p)
  BY PhaseOf
<1>c. /\ p # Dealer /\ p \in Parties /\ Dealer \in Parties
      /\ Dataowners \subseteq Parties
  BY CrossLemma DEF Parties
<1>1. Shape'
  <2>1. declared' \in [Parties -> [PeerSets -> Seq(Kinds)]]
    <3>1. Declare(declared[p], "Randomness", {Parties}) \in [PeerSets -> Seq(Kinds)]
      BY <1>c, DeclareType DEF Shape, Kinds
    <3> QED
      BY <3>1 DEF Shape
  <2>2. open' \in [Parties -> SUBSET ChildType]
    <3>1. Children("Randomness", {Parties}) \subseteq ChildType
      BY PeerSetLemma, ChildrenType DEF Kinds
    <3> QED
      BY <3>1, <1>c DEF Shape
  <2>3. numPartiesAwaiting' \in [Dataowners -> Int]
    BY CrossLemma DEF Shape
  <2>4. wire' \subseteq Dataowners \X Dataowners
    BY CrossLemma DEF Shape
  <2>5. state' \in [Dataowners -> MomentsState \cup {"idle", "complete"}]
    BY DEF Shape, MomentsState
  <2> QED
    BY <2>1, <2>2, <2>3, <2>4, <2>5 DEF Shape, house, receiver
<1>2. ASSUME NEW x \in Dataowners PROVE OwnerPhase(x)'
  <2>1. CASE x # p
    BY <2>1, <1>c, OwnerUnchanged DEF Shape
  <2>2. CASE x = p
    <3>1. Children("Randomness", {Parties}) = {Patron}
      BY DEF Children, Patron
    <3>2. Collecting(p)'
      BY <1>0, <1>c, <3>1, CrossLemma
      DEF Shape, Idle, Collecting, PatronHas, PatronOpen
    <3> QED
      BY <2>2, <3>2 DEF OwnerPhase
  <2> QED
    BY <2>1, <2>2
<1>3. WireInv'
  <2>1. /\ state'[p] # "idle"
        /\ \A x \in Dataowners : state[x] # "idle" => state'[x] # "idle"
    BY DEF Shape
  <2>2. ASSUME NEW x \in Dataowners, NEW y \in Dataowners, <<y, x>> \in wire'
        PROVE  y \in Cross(x) /\ y \notin sharedLists[x] /\ state'[y] # "idle"
    <3>1. CASE <<y, x>> \in wire
      BY <3>1, <2>1 DEF WireInv
    <3>2. CASE <<y, x>> \notin wire
      <4>1. y = p /\ x \in Cross(p)
        BY <2>2, <3>2
      <4>2. y \in Cross(x)
        BY <4>1 DEF Cross
      <4>3. y \notin sharedLists[x]
        BY <1>0, <4>1 DEF WireInv, Idle
      <4> QED
        BY <4>1, <4>2, <4>3, <2>1
    <3> QED
      BY <3>1, <3>2
  <2>3. \A x \in Dataowners : \A y \in sharedLists[x] : state'[y] # "idle"
    BY <2>1 DEF WireInv, Shape
  <2> QED
    BY <2>2, <2>3 DEF WireInv
<1>4. HouseInv'
  BY <1>c DEF Shape, HouseInv, house
<1>5. ReceiverInv'
  BY <1>0, ReceiverUnchanged DEF Shape, Idle
<1> QED
  BY <1>1, <1>2, <1>3, <1>4, <1>5

\* Moments::handleReceive: the share that arrives is one that was missing, so p
\* is still collecting.
LEMMA HandleReceiveStep ==
  ASSUME Inv, NEW p \in Dataowners, NEW q \in Dataowners, HandleReceive(p, q)
  PROVE  Inv'
<1> USE DEF HandleReceive, Inv
<1> DEFINE T == Cross(p) \ sharedLists[p]
<1>c. /\ p # Dealer /\ p \in Parties /\ Dealer \in Parties
      /\ Dataowners \subseteq Parties
  BY CrossLemma DEF Parties
<1>0. /\ q \in T
      /\ Collecting(p)
  <2>1. q \in T
    BY DEF WireInv
  <2> QED
    BY <2>1 DEF OwnerPhase, Idle, Sorting, Zipping, Summed, Lifting, Dividing,
                Completed
<1>n. /\ Cardinality(T) \in Nat
      /\ Cardinality(T \ {q}) = Cardinality(T) - 1
      /\ Cardinality(T) - 1 = 0 <=> T = {q}
      /\ numPartiesAwaiting[p] = Cardinality(T)
      /\ sharedLists'[p] = sharedLists[p] \cup {q}
  <2>1. IsFiniteSet(T)
    BY CrossLemma
  <2>2. numPartiesAwaiting[p] = Cardinality(T)
    BY <1>0 DEF Collecting
  <2>3. sharedLists'[p] = sharedLists[p] \cup {q}
    BY DEF Shape
  <2> QED
    BY <1>0, <2>1, <2>2, <2>3, CountDownLemma
<1>1. CASE T = {q}
  <2>0. /\ Invoke(p, {}, "SISOSort", DealtPairs(p))
        /\ numPartiesAwaiting' =
             [numPartiesAwaiting EXCEPT ![p] = Cardinality(Cross(p))]
        /\ state' = [state EXCEPT ![p] = "awaitingSISOSort"]
    BY <1>1, <1>n
  <2>1. Shape'
    <3>1. declared' \in [Parties -> [PeerSets -> Seq(Kinds)]]
      <4>1. Declare(declared[p], "SISOSort", DealtPairs(p)) \in [PeerSets -> Seq(Kinds)]
        BY <1>c, DeclareType DEF Shape, Kinds
      <4> QED
        BY <2>0, <4>1 DEF Shape, Invoke
    <3>2. open' \in [Parties -> SUBSET ChildType]
      BY <2>0, <1>c, PeerSetLemma, ChildrenType DEF Shape, Kinds, Invoke
    <3>3. numPartiesAwaiting' \in [Dataowners -> Int]
      BY <2>0, CrossLemma DEF Shape
    <3>4. state' \in [Dataowners -> MomentsState \cup {"idle", "complete"}]
      BY <2>0 DEF Shape, MomentsState
    <3> QED
      BY <3>1, <3>2, <3>3, <3>4 DEF Shape, house, receiver
  <2>2. ASSUME NEW x \in Dataowners PROVE OwnerPhase(x)'
    <3>1. CASE x # p
      BY <3>1, <2>0, <1>c, OwnerUnchanged DEF Shape, Invoke
    <3>2. CASE x = p
      <4>1. sharedLists'[p] = Cross(p)
        BY <1>0, <1>1, <1>n DEF Collecting
      <4>2. open'[p] = PatronOpen(p) \cup Sorts(p, Cross(p))
        BY <2>0, <1>0, <1>c, PairedStart DEF Shape, Collecting, Invoke
      <4>3. Cross(p) \ sortedLists'[p] = Cross(p) /\ sortedLists'[p] # Cross(p)
        BY <1>0, CrossLemma DEF Collecting
      <4>4. Sorting(p)'
        BY <4>1, <4>2, <4>3, <2>0, <1>0
        DEF Shape, Sorting, Collecting, PatronHas, PatronOpen
      <4> QED
        BY <3>2, <4>4 DEF OwnerPhase
    <3> QED
      BY <3>1, <3>2
  <2>3. WireInv'
    BY <2>0, <1>n DEF Shape, WireInv
  <2>4. HouseInv'
    BY <2>0, <1>c DEF Shape, HouseInv, house, Invoke
  <2>5. ReceiverInv'
    BY <2>0, <1>0, ReceiverUnchanged DEF Shape, Collecting
  <2> QED
    BY <2>1, <2>2, <2>3, <2>4, <2>5
<1>2. CASE T # {q}
  <2>0. /\ numPartiesAwaiting' = [numPartiesAwaiting EXCEPT ![p] = @ - 1]
        /\ UNCHANGED <<declared, open, state>>
    BY <1>2, <1>n
  <2>1. Shape'
    BY <2>0 DEF Shape, house, receiver
  <2>2. ASSUME NEW x \in Dataowners PROVE OwnerPhase(x)'
    <3>1. CASE x # p
      BY <3>1, <2>0, OwnerUnchanged DEF Shape
    <3>2. CASE x = p
      <4>1. /\ Cross(p) \ sharedLists'[p] = T \ {q}
            /\ sharedLists'[p] \subseteq Cross(p) /\ sharedLists'[p] # Cross(p)
        BY <1>0, <1>2, <1>n DEF Collecting
      <4>2. numPartiesAwaiting'[p] = Cardinality(Cross(p) \ sharedLists'[p])
        BY <4>1, <2>0, <1>n DEF Shape
      <4>3. Collecting(p)'
        BY <4>1, <4>2, <2>0, <1>0 DEF Shape, Collecting, PatronHas, PatronOpen
      <4> QED
        BY <3>2, <4>3 DEF OwnerPhase
    <3> QED
      BY <3>1, <3>2
  <2>3. WireInv'
    BY <2>0, <1>n DEF Shape, WireInv
  <2>4. HouseInv'
    BY <2>0 DEF Shape, HouseInv, house
  <2>5. ReceiverInv'
    BY <2>0, ReceiverUnchanged
  <2> QED
    BY <2>1, <2>2, <2>3, <2>4, <2>5
<1> QED
  BY <1>1, <1>2

\* What the five cases of Moments::handleComplete have in common: only p changes,
\* it was not complete and does not become idle.
LEMMA CompletionFrame ==
  ASSUME Inv, NEW p \in Dataowners, Shape', OwnerPhase(p)',
         UNCHANGED <<sharedLists, wire, resultWire, house, receiver>>,
         state[p] # "complete", state'[p] # "idle",
         \A x \in Parties \ {p} : open'[x] = open[x],
         \A x \in Dataowners \ {p} :
           /\ state'[x] = state[x]
           /\ numPartiesAwaiting'[x] = numPartiesAwaiting[x]
           /\ randomnessDone'[x] = randomnessDone[x]
           /\ sortedLists'[x] = sortedLists[x]
           /\ vectorZippedAdjacent'[x] = vectorZippedAdjacent[x]
           /\ powerSums'[x] = powerSums[x]
           /\ randomness'[x] = randomness[x]
  PROVE  Inv'
<1>c. /\ p # Dealer /\ Dealer \in Parties /\ Dataowners \subseteq Parties
  BY CrossLemma DEF Parties
<1>1. ASSUME NEW x \in Dataowners PROVE OwnerPhase(x)'
  <2>1. CASE x # p
    BY <2>1, <1>c, OwnerUnchanged DEF Inv
  <2> QED
    BY <2>1
<1>2. WireInv'
  <2>1. \A x \in Dataowners : state[x] # "idle" => state'[x] # "idle"
    OBVIOUS
  <2> QED
    BY <2>1 DEF Inv, Shape, WireInv
<1>3. HouseInv'
  BY <1>c DEF Inv, HouseInv, house
<1>4. ReceiverInv'
  BY ReceiverUnchanged DEF Inv
<1> QED
  BY <1>1, <1>2, <1>3, <1>4 DEF Inv

\* A sort completes before the randomness is there.
LEMMA SortBeforeRandomnessStep ==
  ASSUME Inv, NEW p \in Dataowners, NEW c \in open[p], SortBeforeRandomness(p, c),
         UNCHANGED <<sharedLists, wire, resultWire, house, receiver>>
  PROVE  Inv'
<1> USE DEF SortBeforeRandomness, Sorted, Retire, Inv
<1> DEFINE T == Cross(p) \ sortedLists[p]
<1>c. p # Dealer /\ p \in Parties /\ Dataowners \subseteq Parties
  BY CrossLemma DEF Parties
<1>0. /\ Sorting(p)
      /\ c \in Sorts(p, T)
      /\ c # Patron
  <2>1. c # Patron
    BY DEF Patron, Child
  <2>2. Idle(p) \/ Collecting(p) \/ Sorting(p)
    BY PhaseOf
  <2>3. Sorting(p)
    BY <2>1, <2>2 DEF Idle, Collecting, PatronOpen
  <2> QED
    BY <2>1, <2>3 DEF Sorting, PatronOpen
<1>1. PICK q \in T : /\ c.peers \ {p, Dealer} = {q}
                     /\ Sorts(p, T) \ {c} = Sorts(p, T \ {q})
  BY <1>0, SortsLemma
<1>2. /\ Cardinality(T) \in Nat
      /\ Cardinality(T \ {q}) = Cardinality(T) - 1
      /\ Cardinality(T) - 1 = 0 <=> T = {q}
      /\ numPartiesAwaiting[p] = Cardinality(T)
  <2>1. IsFiniteSet(T)
    BY CrossLemma
  <2>2. numPartiesAwaiting[p] = Cardinality(T)
    BY <1>0 DEF Sorting
  <2> QED
    BY <2>1, <2>2, CountDownLemma
<1>3. /\ sortedLists'[p] = sortedLists[p] \cup {q}
      /\ Cross(p) \ sortedLists'[p] = T \ {q}
      /\ sortedLists'[p] \subseteq Cross(p)
      /\ sortedLists'[p] = Cross(p) <=> T = {q}
  BY <1>0, <1>1 DEF Shape, Sorting
<1>4. Shape'
  <2>1. sortedLists' \in [Dataowners -> SUBSET Dataowners]
    BY <1>1, CrossLemma DEF Shape
  <2>2. open' \in [Parties -> SUBSET ChildType]
    BY <1>c DEF Shape
  <2>3. state' \in [Dataowners -> MomentsState \cup {"idle", "complete"}]
    BY DEF Shape, MomentsState
  <2> QED
    BY <2>1, <2>2, <2>3 DEF Shape, house, receiver
<1>5. Sorting(p)'
  <2>1. open'[p] = PatronOpen(p)' \cup Sorts(p, T \ {q})
    BY <1>0, <1>1, <1>c DEF Shape, Sorting, PatronOpen
  <2>2. numPartiesAwaiting'[p] = Cardinality(T \ {q})
    BY <1>2 DEF Shape
  <2>3. state'[p] = IF sortedLists'[p] = Cross(p) THEN "awaitingRandomnessOnly"
                                                  ELSE "awaitingSISOSort"
    BY <1>0, <1>1, <1>2, <1>3 DEF Shape, Sorting
  <2> QED
    BY <1>0, <1>3, <2>1, <2>2, <2>3 DEF Sorting, PatronHas
<1>6. state[p] # "complete" /\ state'[p] # "idle"
  BY <1>0, <1>5 DEF Sorting
<1>7. OwnerPhase(p)'
  BY <1>5 DEF OwnerPhase
<1> QED
  BY <1>4, <1>6, <1>7, CompletionFrame DEF Shape

\* The zips start, from the patron's or from the last sort's completion.
LEMMA ZipsStart ==
  ASSUME Shape, NEW p \in Dataowners, NEW c, open[p] \ {c} = {},
         InvokeZipAdjacent(p, {c}, DealtRandomness),
         randomnessDone'[p] = TRUE,
         sharedLists'[p] = Cross(p), sortedLists'[p] = Cross(p),
         vectorZippedAdjacent'[p] = {}, powerSums'[p] = {}
  PROVE  /\ declared' \in [Parties -> [PeerSets -> Seq(Kinds)]]
         /\ open' \in [Parties -> SUBSET ChildType]
         /\ state' \in [Dataowners -> MomentsState \cup {"idle", "complete"}]
         /\ numPartiesAwaiting' \in [Dataowners -> Int]
         /\ randomness' \in [Dataowners -> RandomnessType]
         /\ Zipping(p)'
<1> USE DEF InvokeZipAdjacent, Invoke
<1> DEFINE rand == [DealtRandomness EXCEPT !.zipAdjacent = @ - 1]
<1>c. p # Dealer /\ p \in Parties /\ Dataowners \subseteq Parties
  BY CrossLemma DEF Parties
<1>1. declared' \in [Parties -> [PeerSets -> Seq(Kinds)]]
  <2>1. Declare(declared[p], "ZipAdjacent", Pairs(p)) \in [PeerSets -> Seq(Kinds)]
    BY <1>c, DeclareType DEF Shape, Kinds
  <2> QED
    BY <2>1 DEF Shape
<1>2. /\ open' \in [Parties -> SUBSET ChildType]
      /\ open'[p] = Zips(p, Cross(p))
  BY <1>c, PeerSetLemma, ChildrenType, PairedStart DEF Shape, Kinds
<1>3. state' \in [Dataowners -> MomentsState \cup {"idle", "complete"}]
  BY DEF Shape, MomentsState
<1>4. numPartiesAwaiting' \in [Dataowners -> Int]
  BY CrossLemma DEF Shape
<1>5. /\ rand = [modConvUp |-> PayloadLength, divide |-> PayloadLength,
                 zipAdjacent |-> 0]
      /\ rand \in RandomnessType
  BY PayloadAssumption DEF DealtRandomness, RandomnessType
<1>6. /\ randomness' \in [Dataowners -> RandomnessType]
      /\ randomness'[p] = rand
  BY <1>5 DEF Shape
<1>7. /\ Cross(p) \ vectorZippedAdjacent'[p] = Cross(p)
      /\ vectorZippedAdjacent'[p] # Cross(p)
  BY CrossLemma
<1>8. Zipping(p)'
  BY <1>2, <1>5, <1>6, <1>7 DEF Shape, Zipping
<1> QED
  BY <1>1, <1>2, <1>3, <1>4, <1>6, <1>8

\* The patron completes: the only child that can be of its kind.
LEMMA RandomnessReadyStep ==
  ASSUME Inv, NEW p \in Dataowners, NEW c \in open[p], RandomnessReady(p, c),
         UNCHANGED <<sharedLists, wire, resultWire, house, receiver>>
  PROVE  Inv'
<1> USE DEF RandomnessReady, Inv
<1>c. p # Dealer /\ p \in Parties /\ Dataowners \subseteq Parties
  BY CrossLemma DEF Parties
<1>0. /\ Collecting(p) \/ Sorting(p)
      /\ PatronOpen(p) = {Patron}
  BY PhaseOf DEF Idle, PatronOpen
<1>1. c = Patron /\ \A T \in SUBSET Cross(p) : c \notin Sorts(p, T)
  <2>1. \A T \in SUBSET Cross(p) : c \notin Sorts(p, T)
    BY SortsLemma
  <2>2. Cross(p) \ sortedLists[p] \in SUBSET Cross(p)
    OBVIOUS
  <2> QED
    BY <2>1, <2>2, <1>0 DEF Collecting, Sorting
<1>2. CASE state[p] = "awaitingRandomnessOnly"
  <2>1. Sorting(p) /\ sortedLists[p] = Cross(p)
    BY <1>2, PhaseOf DEF Sorting
  <2>2. open[p] \ {c} = {}
    <3>1. Cross(p) \ sortedLists[p] = {}
      BY <2>1
    <3> QED
      BY <3>1, <2>1, <1>0, <1>1, PairedStart DEF Sorting
  <2>3. InvokeZipAdjacent(p, {c}, DealtRandomness)
    BY <1>2
  <2>4. randomnessDone'[p] = TRUE
    BY DEF Shape
  <2>5. /\ declared' \in [Parties -> [PeerSets -> Seq(Kinds)]]
        /\ open' \in [Parties -> SUBSET ChildType]
        /\ state' \in [Dataowners -> MomentsState \cup {"idle", "complete"}]
        /\ numPartiesAwaiting' \in [Dataowners -> Int]
        /\ randomness' \in [Dataowners -> RandomnessType]
        /\ Zipping(p)'
    BY <2>1, <2>2, <2>3, <2>4, ZipsStart DEF Sorting
  <2>6. Shape'
    BY <2>5 DEF Shape, house, receiver
  <2>7. OwnerPhase(p)' /\ state'[p] # "idle"
    BY <2>5 DEF OwnerPhase, Zipping
  <2> QED
    BY <2>3, <2>6, <2>7, <1>2, CompletionFrame DEF Shape, InvokeZipAdjacent, Invoke
<1>3. CASE state[p] # "awaitingRandomnessOnly"
  <2>0. /\ randomness' = [randomness EXCEPT ![p] = DealtRandomness]
        /\ state' = [state EXCEPT ![p] = "awaitingSISOSort"]
        /\ Retire(p, {c})
        /\ UNCHANGED numPartiesAwaiting
        /\ randomnessDone'[p] = TRUE
        /\ randomness'[p] = DealtRandomness
    BY <1>3 DEF Shape
  <2>1. Shape'
    <3>1. DealtRandomness \in RandomnessType
      BY PayloadAssumption DEF DealtRandomness, RandomnessType
    <3>2. open' \in [Parties -> SUBSET ChildType]
      BY <2>0, <1>c DEF Shape, Retire
    <3>3. state' \in [Dataowners -> MomentsState \cup {"idle", "complete"}]
      BY <2>0 DEF Shape, MomentsState
    <3> QED
      BY <2>0, <3>1, <3>2, <3>3 DEF Shape, Retire, house, receiver
  <2>2. ASSUME Collecting(p) PROVE OwnerPhase(p)'
    <3>1. open'[p] = {}
      BY <2>0, <2>2, <1>0, <1>1, <1>c DEF Shape, Collecting, Retire
    <3>2. Collecting(p)'
      BY <2>0, <2>2, <3>1 DEF Shape, Collecting, PatronHas, PatronOpen
    <3> QED
      BY <3>2 DEF OwnerPhase
  <2>3. ASSUME Sorting(p) PROVE OwnerPhase(p)'
    <3>1. open'[p] = Sorts(p, Cross(p) \ sortedLists[p])
      BY <2>0, <2>3, <1>0, <1>1, <1>c DEF Shape, Sorting, Retire
    <3>2. sortedLists[p] # Cross(p)
      BY <1>3, <2>3 DEF Sorting
    <3>3. Sorting(p)'
      BY <2>0, <2>3, <3>1, <3>2 DEF Shape, Sorting, PatronHas, PatronOpen
    <3> QED
      BY <3>3 DEF OwnerPhase
  <2>4. state[p] # "complete" /\ state'[p] # "idle"
    BY <1>0, <2>0 DEF Shape, Collecting, Sorting
  <2> QED
    BY <1>0, <2>0, <2>1, <2>2, <2>3, <2>4, CompletionFrame DEF Shape, Retire
<1> QED
  BY <1>2, <1>3

\* A sort completes with the randomness there: with the last one the zips start.
LEMMA SISOSortDoneStep ==
  ASSUME Inv, NEW p \in Dataowners, NEW c \in open[p], SISOSortDone(p, c),
         UNCHANGED <<sharedLists, wire, resultWire, house, receiver>>
  PROVE  Inv'
<1> USE DEF SISOSortDone, Sorted, Inv
<1> DEFINE T == Cross(p) \ sortedLists[p]
<1>c. p # Dealer /\ p \in Parties /\ Dataowners \subseteq Parties
  BY CrossLemma DEF Parties
<1>0. /\ Sorting(p)
      /\ PatronOpen(p) = {}
      /\ open[p] = Sorts(p, T)
  <2>1. PatronOpen(p) = {}
    BY DEF PatronOpen
  <2>2. Sorting(p)
    BY <2>1, PhaseOf DEF Collecting
  <2> QED
    BY <2>1, <2>2 DEF Sorting
<1>1. PICK q \in T : /\ c.peers \ {p, Dealer} = {q}
                     /\ Sorts(p, T) \ {c} = Sorts(p, T \ {q})
  BY <1>0, SortsLemma
<1>2. /\ Cardinality(T) \in Nat
      /\ Cardinality(T \ {q}) = Cardinality(T) - 1
      /\ Cardinality(T) - 1 = 0 <=> T = {q}
      /\ numPartiesAwaiting[p] = Cardinality(T)
  <2>1. IsFiniteSet(T)
    BY CrossLemma
  <2>2. numPartiesAwaiting[p] = Cardinality(T)
    BY <1>0 DEF Sorting
  <2> QED
    BY <2>1, <2>2, CountDownLemma
<1>3. /\ sortedLists'[p] = sortedLists[p] \cup {q}
      /\ Cross(p) \ sortedLists'[p] = T \ {q}
      /\ sortedLists'[p] \subseteq Cross(p)
      /\ sortedLists'[p] = Cross(p) <=> T = {q}
      /\ sortedLists' \in [Dataowners -> SUBSET Dataowners]
  <2>1. sortedLists'[p] = sortedLists[p] \cup {q}
    BY <1>1 DEF Shape
  <2>2. sortedLists' \in [Dataowners -> SUBSET Dataowners]
    BY <1>1, CrossLemma DEF Shape
  <2> QED
    BY <1>0, <2>1, <2>2 DEF Sorting
<1>4. CASE T = {q}
  <2>1. open[p] \ {c} = {}
    BY <1>0, <1>1, <1>4, PairedStart
  <2>2. InvokeZipAdjacent(p, {c}, DealtRandomness)
    BY <1>0, <1>2, <1>4 DEF Sorting, PatronHas
  <2>3. /\ declared' \in [Parties -> [PeerSets -> Seq(Kinds)]]
        /\ open' \in [Parties -> SUBSET ChildType]
        /\ state' \in [Dataowners -> MomentsState \cup {"idle", "complete"}]
        /\ numPartiesAwaiting' \in [Dataowners -> Int]
        /\ randomness' \in [Dataowners -> RandomnessType]
        /\ Zipping(p)'
    <3>1. /\ randomnessDone'[p] = TRUE
          /\ sharedLists'[p] = Cross(p) /\ sortedLists'[p] = Cross(p)
          /\ vectorZippedAdjacent'[p] = {} /\ powerSums'[p] = {}
      BY <1>0, <1>3, <1>4 DEF Sorting, Shape
    <3> QED
      BY <2>1, <2>2, <3>1, ZipsStart
  <2>4. Shape'
    BY <2>3, <1>3 DEF Shape, house, receiver
  <2>5. OwnerPhase(p)' /\ state'[p] # "idle"
    BY <2>3 DEF OwnerPhase, Zipping
  <2> QED
    BY <2>2, <2>4, <2>5, CompletionFrame DEF Shape, InvokeZipAdjacent, Invoke
<1>5. CASE T # {q}
  <2>0. /\ numPartiesAwaiting' = [numPartiesAwaiting EXCEPT ![p] = @ - 1]
        /\ Retire(p, {c})
        /\ UNCHANGED <<state, randomness>>
    BY <1>2, <1>5
  <2>1. Shape'
    BY <2>0, <1>3, <1>c DEF Shape, Retire, house, receiver
  <2>2. Sorting(p)'
    <3>1. open'[p] = PatronOpen(p)' \cup Sorts(p, T \ {q})
      BY <2>0, <1>0, <1>1, <1>c DEF Shape, Retire, PatronOpen
    <3>2. numPartiesAwaiting'[p] = Cardinality(T \ {q})
      BY <2>0, <1>2 DEF Shape
    <3> QED
      BY <1>0, <1>1, <1>3, <1>5, <2>0, <3>1, <3>2 DEF Sorting, PatronHas
  <2>3. OwnerPhase(p)' /\ state'[p] # "idle"
    BY <2>2 DEF OwnerPhase, Sorting
  <2> QED
    BY <2>0, <2>1, <2>3, CompletionFrame DEF Shape, Retire
<1> QED
  BY <1>4, <1>5

\* A zip completes; with the last one everything is summed.
LEMMA ZipAdjacentDoneStep ==
  ASSUME Inv, NEW p \in Dataowners, NEW c \in open[p], ZipAdjacentDone(p, c),
         UNCHANGED <<sharedLists, wire, resultWire, house, receiver>>
  PROVE  Inv'
<1> USE DEF ZipAdjacentDone, Inv
<1> DEFINE T == Cross(p) \ vectorZippedAdjacent[p]
<1>c. p # Dealer /\ p \in Parties /\ Dataowners \subseteq Parties
  BY CrossLemma DEF Parties
<1>0. /\ Zipping(p)
      /\ open[p] = Zips(p, T)
  BY PhaseOf DEF Zipping
<1>1. PICK q \in T : /\ c.peers \ {p} = {q}
                     /\ Zips(p, T) \ {c} = Zips(p, T \ {q})
  BY <1>0, ZipsLemma
<1>2. /\ Cardinality(T) \in Nat
      /\ Cardinality(T \ {q}) = Cardinality(T) - 1
      /\ Cardinality(T) - 1 = 0 <=> T = {q}
      /\ numPartiesAwaiting[p] = Cardinality(T)
      /\ numPartiesAwaiting' \in [Dataowners -> Int]
      /\ numPartiesAwaiting'[p] = Cardinality(T) - 1
  <2>1. IsFiniteSet(T)
    BY CrossLemma
  <2>2. numPartiesAwaiting[p] = Cardinality(T)
    BY <1>0 DEF Zipping
  <2>3. /\ numPartiesAwaiting' \in [Dataowners -> Int]
        /\ numPartiesAwaiting'[p] = Cardinality(T) - 1
    BY <2>2 DEF Shape
  <2> QED
    BY <2>1, <2>2, <2>3, CountDownLemma
<1>3. /\ vectorZippedAdjacent'[p] = vectorZippedAdjacent[p] \cup {q}
      /\ Cross(p) \ vectorZippedAdjacent'[p] = T \ {q}
      /\ vectorZippedAdjacent'[p] \subseteq Cross(p)
      /\ vectorZippedAdjacent'[p] = Cross(p) <=> T = {q}
      /\ vectorZippedAdjacent' \in [Dataowners -> SUBSET Dataowners]
  <2>1. vectorZippedAdjacent'[p] = vectorZippedAdjacent[p] \cup {q}
    BY <1>1 DEF Shape
  <2>2. vectorZippedAdjacent' \in [Dataowners -> SUBSET Dataowners]
    BY <1>1, CrossLemma DEF Shape
  <2> QED
    BY <1>0, <2>1, <2>2 DEF Zipping
<1>4. CASE T = {q}
  <2>0. /\ powerSums' = [powerSums EXCEPT ![p] = Cross(p)]
        /\ Invoke(p, {c}, "ModConvUp", {Dataowners})
        /\ randomness' = [randomness EXCEPT ![p].modConvUp = @ - PayloadLength]
        /\ state' = [state EXCEPT ![p] = "awaitingBatchedModConvUp"]
    BY <1>2, <1>3, <1>4
  <2>1. Shape'
    <3>1. declared' \in [Parties -> [PeerSets -> Seq(Kinds)]]
      <4>1. Declare(declared[p], "ModConvUp", {Dataowners}) \in [PeerSets -> Seq(Kinds)]
        BY <1>c, DeclareType DEF Shape, Kinds
      <4> QED
        BY <2>0, <4>1 DEF Shape, Invoke
    <3>2. open' \in [Parties -> SUBSET ChildType]
      <4>1. Children("ModConvUp", {Dataowners}) \subseteq ChildType
        BY PeerSetLemma, ChildrenType DEF Kinds
      <4> QED
        BY <2>0, <4>1, <1>c DEF Shape, Invoke
    <3>3. state' \in [Dataowners -> MomentsState \cup {"idle", "complete"}]
      BY <2>0 DEF Shape, MomentsState
    <3>4. powerSums' \in [Dataowners -> SUBSET Dataowners]
      BY <2>0, CrossLemma DEF Shape
    <3>5. randomness' \in [Dataowners -> RandomnessType]
      <4>1. randomness[p] \in RandomnessType
        BY DEF Shape
      <4>2. [randomness[p] EXCEPT !.modConvUp = @ - PayloadLength] \in RandomnessType
        BY <4>1, PayloadAssumption DEF RandomnessType
      <4>3. randomness' = [randomness EXCEPT ![p] =
                            [randomness[p] EXCEPT !.modConvUp = @ - PayloadLength]]
        BY <2>0
      <4> QED
        BY <4>2, <4>3 DEF Shape
    <3> QED
      BY <1>2, <1>3, <3>1, <3>2, <3>3, <3>4, <3>5 DEF Shape, house, receiver
  <2>2. Lifting(p)'
    <3>1. open'[p] = {Child("ModConvUp", Dataowners)}
      <4>1. open[p] \ {c} = {}
        BY <1>0, <1>1, <1>4, PairedStart
      <4> QED
        BY <2>0, <4>1, <1>c DEF Shape, Invoke, Children
    <3>2. randomness'[p] = [modConvUp |-> 0, divide |-> PayloadLength, zipAdjacent |-> 0]
      BY <2>0, <1>0, PayloadAssumption DEF Shape, Zipping
    <3>3. Summed(p)'
      BY <2>0, <1>0, <1>2, <1>3, <1>4 DEF Shape, Zipping, Summed
    <3> QED
      BY <2>0, <3>1, <3>2, <3>3 DEF Shape, Lifting
  <2>3. OwnerPhase(p)' /\ state'[p] # "idle"
    BY <2>2 DEF OwnerPhase, Lifting
  <2> QED
    BY <2>0, <2>1, <2>3, CompletionFrame DEF Shape, Invoke
<1>5. CASE T # {q}
  <2>0. /\ Retire(p, {c})
        /\ UNCHANGED <<powerSums, randomness, state>>
    BY <1>2, <1>5
  <2>1. Shape'
    BY <2>0, <1>2, <1>3, <1>c DEF Shape, Retire, house, receiver
  <2>2. Zipping(p)'
    <3>1. open'[p] = Zips(p, T \ {q})
      BY <2>0, <1>0, <1>1, <1>c DEF Shape, Retire
    <3> QED
      BY <1>0, <1>2, <1>3, <1>5, <2>0, <3>1 DEF Zipping
  <2>3. OwnerPhase(p)' /\ state'[p] # "idle"
    BY <2>2 DEF OwnerPhase, Zipping
  <2> QED
    BY <2>0, <2>1, <2>3, CompletionFrame DEF Shape, Retire
<1> QED
  BY <1>4, <1>5

\* The lifted sums come back and are divided.
LEMMA ModConvUpDoneStep ==
  ASSUME Inv, NEW p \in Dataowners, NEW c \in open[p], ModConvUpDone(p, c),
         UNCHANGED <<sharedLists, wire, resultWire, house, receiver>>
  PROVE  Inv'
<1> USE DEF ModConvUpDone, Invoke, Inv
<1>c. p # Dealer /\ p \in Parties /\ Dataowners \subseteq Parties
  BY CrossLemma DEF Parties
<1>0. Lifting(p) /\ open[p] \ {c} = {}
  BY PhaseOf DEF Lifting
<1>1. Shape'
  <2>1. declared' \in [Parties -> [PeerSets -> Seq(Kinds)]]
    <3>1. Declare(declared[p], "Divide", {Dataowners}) \in [PeerSets -> Seq(Kinds)]
      BY <1>c, DeclareType DEF Shape, Kinds
    <3> QED
      BY <3>1 DEF Shape
  <2>2. open' \in [Parties -> SUBSET ChildType]
    <3>1. Children("Divide", {Dataowners}) \subseteq ChildType
      BY PeerSetLemma, ChildrenType DEF Kinds
    <3> QED
      BY <3>1, <1>c DEF Shape
  <2>3. state' \in [Dataowners -> MomentsState \cup {"idle", "complete"}]
    BY DEF Shape, MomentsState
  <2>4. randomness' \in [Dataowners -> RandomnessType]
    <3>1. randomness[p] \in RandomnessType
      BY DEF Shape
    <3>2. [randomness[p] EXCEPT !.divide = @ - (PayloadLength - 1)] \in RandomnessType
      BY <3>1, PayloadAssumption DEF RandomnessType
    <3>3. randomness' = [randomness EXCEPT ![p] =
                          [randomness[p] EXCEPT !.divide = @ - (PayloadLength - 1)]]
      OBVIOUS
    <3> QED
      BY <3>2, <3>3 DEF Shape
  <2> QED
    BY <2>1, <2>2, <2>3, <2>4 DEF Shape, house, receiver
<1>2. Dividing(p)'
  <2>1. open'[p] = {Child("Divide", Dataowners)}
    BY <1>0, <1>c DEF Shape, Children
  <2>2. randomness'[p] = [modConvUp |-> 0, divide |-> 1, zipAdjacent |-> 0]
    <3>1. randomness[p] = [modConvUp |-> 0, divide |-> PayloadLength, zipAdjacent |-> 0]
      BY <1>0 DEF Lifting
    <3>2. PayloadLength - (PayloadLength - 1) = 1
      BY PayloadAssumption
    <3>3. randomness'[p] = [randomness[p] EXCEPT !.divide = @ - (PayloadLength - 1)]
      BY DEF Shape
    <3> QED
      BY <3>1, <3>2, <3>3
  <2>3. Summed(p)'
    BY <1>0 DEF Lifting, Summed
  <2> QED
    BY <2>1, <2>2, <2>3 DEF Shape, Dividing
<1>3. OwnerPhase(p)' /\ state'[p] # "idle"
  BY <1>2 DEF OwnerPhase, Dividing
<1> QED
  BY <1>1, <1>3, CompletionFrame DEF Shape

\* Moments::handleComplete's last case: the shares of p leave for the recipients,
\* who have heard nothing of p before.
LEMMA DivisionDoneStep ==
  ASSUME Inv, NEW p \in Dataowners, NEW c \in open[p], DivisionDone(p, c)
  PROVE  Inv'
<1> USE DEF DivisionDone, Retire, Inv
<1>c. /\ p # Dealer /\ p \in Parties /\ Dealer \in Parties
      /\ Dataowners \subseteq Parties
  BY CrossLemma DEF Parties
<1>0. Dividing(p) /\ open[p] \ {c} = {} /\ powerSums[p] = Cross(p)
  BY PhaseOf DEF Dividing, Summed
<1>1. Shape'
  <2>1. open' \in [Parties -> SUBSET ChildType]
    BY <1>c DEF Shape
  <2>2. resultWire' \subseteq ResultMsg
    BY <1>0, CrossLemma DEF Shape, ResultMsg
  <2>3. state' \in [Dataowners -> MomentsState \cup {"idle", "complete"}]
    BY DEF Shape
  <2> QED
    BY <2>1, <2>2, <2>3 DEF Shape, house, receiver
<1>2. ASSUME NEW x \in Dataowners PROVE OwnerPhase(x)'
  <2>1. CASE x # p
    BY <2>1, <1>c, OwnerUnchanged DEF Shape
  <2>2. CASE x = p
    <3>1. Completed(p)'
      BY <1>0, <1>c DEF Shape, Dividing, Completed, Summed
    <3> QED
      BY <2>2, <3>1 DEF OwnerPhase
  <2> QED
    BY <2>1, <2>2
<1>3. WireInv'
  <2>1. \A x \in Dataowners : state[x] # "idle" => state'[x] # "idle"
    BY DEF Shape
  <2> QED
    BY <2>1 DEF Shape, WireInv
<1>4. HouseInv'
  BY <1>c DEF Shape, HouseInv, house
<1>5. ReceiverInv'
  <2>1. \A x \in Dataowners : state[x] = "complete" => state'[x] = "complete"
    BY DEF Shape
  <2>2. state'[p] = "complete"
    BY DEF Shape
  <2>3. \A r : Heard(r)' = Heard(r)
    BY DEF Heard, receiver
  <2>4. \A r \in Recipients : p \notin Heard(r)
    BY <1>0 DEF ReceiverInv, Heard, Dividing
  <2>5. ASSUME NEW m \in resultWire'
        PROVE  /\ state'[m.from] = "complete"
               /\ m.share = Cross(m.from)
               /\ m.from \notin Heard(m.to)'
    <3>1. CASE m \in resultWire
      BY <3>1, <2>1, <2>3 DEF ReceiverInv, Shape, ResultMsg
    <3>2. CASE m \notin resultWire
      <4>1. PICK r \in Recipients : m = [from |-> p, to |-> r, share |-> powerSums[p]]
        BY <3>2
      <4> QED
        BY <4>1, <1>0, <2>2, <2>3, <2>4
    <3> QED
      BY <3>1, <3>2
  <2>6. ASSUME NEW r \in Recipients
        PROVE  \A x, y \in Dataowners :
                 <<x, y>> \in results'[r] => y \in Cross(x) /\ state'[x] = "complete"
    BY <2>1 DEF ReceiverInv, receiver
  <2>7. ASSUME NEW r \in Recipients
        PROVE  /\ \A x \in Heard(r)' : \A y \in Cross(x) : <<x, y>> \in results'[r]
               /\ receiverState'[r] = "idle" => results'[r] = {} /\ numDataowners'[r] = 0
               /\ receiverState'[r] # "idle" =>
                    numDataowners'[r] = Cardinality(Dataowners \ Heard(r)')
               /\ receiverState'[r] = "complete" => Heard(r)' = Dataowners
    BY <2>3 DEF ReceiverInv, receiver
  <2> QED
    BY <2>5, <2>6, <2>7 DEF ReceiverInv
<1> QED
  BY <1>1, <1>2, <1>3, <1>4, <1>5

\* MomentsRandomnessHouse::init: it counts exactly the houses it invokes.
LEMMA HouseInitStep ==
  ASSUME Inv, HouseInit
  PROVE  Inv'
<1> USE DEF HouseInit, Inv
<1> DEFINE B == Children("Randomness", {Parties})
           S == Children("SISOSort", AllDealtPairs)
<1>c. /\ Dealer \in Parties /\ Dataowners \subseteq Parties
      /\ \A p \in Dataowners : p # Dealer
  BY PartiesAssumption DEF Parties
<1>1. IsFiniteSet(AllDealtPairs)
  BY DealtPairsFinite
<1>2. /\ IsFiniteSet(B \cup S)
      /\ Cardinality(B \cup S) = NumHouses
      /\ NumHouses \in Nat
      /\ B # {}
  <2>1. B = {Patron}
    BY DEF Children, Patron
  <2>2. Patron \notin S
    BY DEF Children, Child, Patron
  <2>3. /\ IsFiniteSet(S)
        /\ Cardinality(S) = Cardinality(AllDealtPairs)
        /\ Cardinality(AllDealtPairs) \in Nat
    BY <1>1, ChildrenCount, FS_CardinalityType
  <2>4. /\ IsFiniteSet(S \cup {Patron})
        /\ Cardinality(S \cup {Patron}) = Cardinality(S) + 1
    BY <2>2, <2>3, FS_AddElement
  <2>5. B \cup S = S \cup {Patron}
    BY <2>1
  <2>6. NumHouses = Cardinality(S) + 1 /\ NumHouses \in Nat
    BY <2>3 DEF NumHouses
  <2> HIDE DEF B, S
  <2> QED
    BY <2>1, <2>4, <2>5, <2>6
<1>3. Shape'
  <2>1. declared' \in [Parties -> [PeerSets -> Seq(Kinds)]]
    <3>1. NoStream \in [PeerSets -> Seq(Kinds)]
      BY DEF NoStream
    <3>2. Declare(NoStream, "Randomness", {Parties}) \in [PeerSets -> Seq(Kinds)]
      BY <3>1, DeclareType DEF Kinds
    <3>3. HouseStreams \in [PeerSets -> Seq(Kinds)]
      BY <3>2, DeclareType DEF HouseStreams, Kinds
    <3> QED
      BY <3>3 DEF Shape
  <2>2. open' \in [Parties -> SUBSET ChildType]
    <3>1. B \subseteq ChildType
      BY PeerSetLemma, ChildrenType DEF Kinds
    <3>2. S \subseteq ChildType
      BY PeerSetLemma, ChildrenType DEF Kinds
    <3> QED
      BY <3>1, <3>2, <1>c DEF Shape
  <2>3. houseState' \in RunState
    BY DEF RunState
  <2> QED
    BY <2>1, <2>2, <2>3 DEF Shape, owner, receiver
<1>4. ASSUME NEW x \in Dataowners PROVE OwnerPhase(x)'
  BY <1>c, OwnerUnchanged DEF Shape, owner
<1>5. WireInv'
  BY DEF WireInv, owner
<1>6. HouseInv'
  <2>1. open'[Dealer] = B \cup S
    BY <1>c DEF Shape
  <2> QED
    BY <2>1, <1>2 DEF HouseInv
<1>7. ReceiverInv'
  BY ReceiverUnchanged DEF owner
<1> QED
  BY <1>3, <1>4, <1>5, <1>6, <1>7

\* A house of the dealer completes.
LEMMA HouseHandleCompleteStep ==
  ASSUME Inv, NEW c \in open[Dealer], HouseHandleComplete(c)
  PROVE  Inv'
<1> USE DEF HouseHandleComplete, Retire, Inv
<1>c. /\ Dealer \in Parties /\ Dataowners \subseteq Parties
      /\ \A p \in Dataowners : p # Dealer
  BY PartiesAssumption DEF Parties
<1>1. /\ houseState = "running"
      /\ IsFiniteSet(open[Dealer])
      /\ numDealersRemaining = Cardinality(open[Dealer])
  BY DEF HouseInv, Shape, RunState
<1>2. /\ IsFiniteSet(open[Dealer] \ {c})
      /\ Cardinality(open[Dealer] \ {c}) = Cardinality(open[Dealer]) - 1
      /\ Cardinality(open[Dealer]) - 1 = 0 <=> open[Dealer] = {c}
  BY <1>1, CountDownLemma
<1>3. Shape'
  BY <1>c DEF Shape, RunState, owner, receiver
<1>4. ASSUME NEW x \in Dataowners PROVE OwnerPhase(x)'
  BY <1>c, OwnerUnchanged DEF Shape, owner
<1>5. WireInv'
  BY DEF WireInv, owner
<1>6. HouseInv'
  <2>1. open'[Dealer] = open[Dealer] \ {c}
    BY <1>c DEF Shape
  <2> QED
    BY <2>1, <1>1, <1>2 DEF HouseInv
<1>7. ReceiverInv'
  BY ReceiverUnchanged DEF owner
<1> QED
  BY <1>3, <1>4, <1>5, <1>6, <1>7

\* MomentsReceiver::init.
LEMMA ReceiverInitStep ==
  ASSUME Inv, NEW r \in Recipients, ReceiverInit(r)
  PROVE  Inv'
<1> USE DEF ReceiverInit, Inv
<1>1. Cardinality(Dataowners) \in Nat
  BY PartiesAssumption, FS_CardinalityType
<1>2. Shape'
  BY <1>1 DEF Shape, RunState, owner, house
<1>3. ASSUME NEW x \in Dataowners PROVE OwnerPhase(x)'
  BY OwnerUnchanged DEF owner
<1>4. WireInv'
  BY DEF WireInv, owner
<1>5. HouseInv'
  BY DEF HouseInv, house
<1>6. ReceiverInv'
  <2>1. \A s : Heard(s)' = Heard(s)
    BY DEF Heard
  <2>2. Heard(r) = {}
    <3>1. results[r] = {}
      BY DEF ReceiverInv
    <3> QED
      BY <3>1 DEF Heard
  <2>3. Dataowners \ Heard(r) = Dataowners
    BY <2>2
  <2>4. ASSUME NEW s \in Recipients
        PROVE  /\ receiverState'[s] = "idle" => results'[s] = {} /\ numDataowners'[s] = 0
               /\ receiverState'[s] # "idle" =>
                    numDataowners'[s] = Cardinality(Dataowners \ Heard(s)')
               /\ receiverState'[s] = "complete" => Heard(s)' = Dataowners
    <3>1. CASE s = r
      BY <3>1, <2>1, <2>3 DEF Shape
    <3>2. CASE s # r
      <4>1. /\ receiverState'[s] = receiverState[s]
            /\ numDataowners'[s] = numDataowners[s]
            /\ results'[s] = results[s]
        BY <3>2 DEF Shape
      <4> QED
        BY <4>1, <2>1 DEF ReceiverInv
    <3> QED
      BY <3>1, <3>2
  <2> QED
    BY <2>1, <2>4 DEF ReceiverInv, owner
<1> QED
  BY <1>2, <1>3, <1>4, <1>5, <1>6

\* MomentsReceiver::handleReceive: a share is of a dataowner not heard before, and
\* the count is of those not heard.
LEMMA ReceiverHandleReceiveStep ==
  ASSUME Inv, NEW r \in Recipients, NEW m \in resultWire, ReceiverHandleReceive(r, m)
  PROVE  Inv'
<1> USE DEF ReceiverHandleReceive, Inv
<1> DEFINE d == m.from
           T == Dataowners \ Heard(r)
<1>0. /\ d \in Dataowners /\ m.to = r
      /\ state[d] = "complete"
      /\ m.share = Cross(d)
      /\ d \notin Heard(r)
  BY DEF Shape, ReceiverInv, ResultMsg
<1>1. /\ results'[r] = results[r] \cup {<<d, q>> : q \in Cross(d)}
      /\ \A s \in Recipients \ {r} : results'[s] = results[s]
  BY <1>0 DEF Shape
<1>2. /\ Heard(r)' = Heard(r) \cup {d}
      /\ \A s \in Recipients \ {r} : Heard(s)' = Heard(s)
  <2>1. \A s \in Recipients \ {r} : Heard(s)' = Heard(s)
    BY <1>1 DEF Heard
  <2>2. PICK q \in Dataowners : q \in Cross(d)
    BY <1>0, CrossLemma
  <2>3. <<d, q>> \in results'[r]
    BY <1>1, <2>2
  <2>4. ASSUME NEW x \in Dataowners
        PROVE  (\E y \in Dataowners : <<x, y>> \in results'[r])
                 <=> x = d \/ \E y \in Dataowners : <<x, y>> \in results[r]
    BY <1>1, <2>2, <2>3
  <2>5. Heard(r)' = Heard(r) \cup {d}
    BY <1>0, <2>4 DEF Heard
  <2> QED
    BY <2>1, <2>5
<1>3. /\ numDataowners[r] = Cardinality(T)
      /\ Cardinality(T) \in Nat
      /\ Cardinality(T \ {d}) = Cardinality(T) - 1
      /\ Cardinality(T) - 1 = 0 <=> T = {d}
      /\ Dataowners \ Heard(r)' = T \ {d}
      /\ d \in T
  <2>1. IsFiniteSet(T)
    BY PartiesAssumption, FS_Subset
  <2>2. d \in T /\ numDataowners[r] = Cardinality(T)
    BY <1>0 DEF ReceiverInv
  <2>3. Dataowners \ Heard(r)' = T \ {d}
    BY <1>2
  <2> QED
    BY <2>1, <2>2, <2>3, CountDownLemma
<1>4. Shape'
  <2>1. results' \in [Recipients -> SUBSET (Dataowners \X Dataowners)]
    BY <1>0, CrossLemma DEF Shape
  <2>2. receiverState' \in [Recipients -> RunState]
    BY DEF Shape, RunState
  <2> QED
    BY <2>1, <2>2 DEF Shape, owner, house
<1>5. ASSUME NEW x \in Dataowners PROVE OwnerPhase(x)'
  BY OwnerUnchanged DEF owner
<1>6. WireInv'
  BY DEF WireInv, owner
<1>7. HouseInv'
  BY DEF HouseInv, house
<1>8. ReceiverInv'
  <2>0. state' = state
    BY DEF owner
  <2>1. ASSUME NEW n \in resultWire'
        PROVE  /\ state'[n.from] = "complete"
               /\ n.share = Cross(n.from)
               /\ n.from \notin Heard(n.to)'
    <3>1. /\ n \in resultWire /\ n # m /\ n \in ResultMsg /\ m \in ResultMsg
          /\ state[n.from] = "complete"
          /\ n.share = Cross(n.from)
          /\ n.from \notin Heard(n.to)
      BY DEF Shape, ReceiverInv
    <3>2. CASE n.to = r
      <4>1. n.from # d
        BY <3>1, <3>2, <1>0 DEF ResultMsg
      <4> QED
        BY <3>1, <3>2, <4>1, <1>2, <2>0
    <3>3. CASE n.to # r
      BY <3>1, <3>3, <1>2, <2>0 DEF ResultMsg
    <3> QED
      BY <3>2, <3>3
  <2>2. ASSUME NEW s \in Recipients, s # r
        PROVE  /\ \A x, y \in Dataowners :
                    <<x, y>> \in results'[s] => y \in Cross(x) /\ state'[x] = "complete"
               /\ \A x \in Heard(s)' : \A y \in Cross(x) : <<x, y>> \in results'[s]
               /\ receiverState'[s] = "idle" => results'[s] = {} /\ numDataowners'[s] = 0
               /\ receiverState'[s] # "idle" =>
                    numDataowners'[s] = Cardinality(Dataowners \ Heard(s)')
               /\ receiverState'[s] = "complete" => Heard(s)' = Dataowners
    <3>1. /\ receiverState'[s] = receiverState[s]
          /\ numDataowners'[s] = numDataowners[s]
          /\ results'[s] = results[s]
          /\ Heard(s)' = Heard(s)
      BY <2>2, <1>1, <1>2 DEF Shape
    <3> QED
      BY <3>1, <2>0 DEF ReceiverInv
  <2>3. ASSUME NEW x \in Dataowners, NEW y \in Dataowners, <<x, y>> \in results'[r]
        PROVE  y \in Cross(x) /\ state'[x] = "complete"
    <3>1. CASE <<x, y>> \in results[r]
      BY <3>1, <2>0 DEF ReceiverInv
    <3>2. CASE <<x, y>> \notin results[r]
      <4>1. <<x, y>> \in {<<d, q>> : q \in Cross(d)}
        BY <2>3, <3>2, <1>1
      <4>2. x = d /\ y \in Cross(d)
        BY <4>1
      <4> QED
        BY <4>2, <1>0, <2>0
    <3> QED
      BY <3>1, <3>2
  <2>4. \A x \in Heard(r)' : \A y \in Cross(x) : <<x, y>> \in results'[r]
    BY <1>1, <1>2 DEF ReceiverInv
  <2>5. /\ receiverState'[r] # "idle"
        /\ numDataowners'[r] = Cardinality(Dataowners \ Heard(r)')
        /\ receiverState'[r] = "complete" => Heard(r)' = Dataowners
    <3>1. numDataowners'[r] = Cardinality(T) - 1
      BY <1>3 DEF Shape
    <3>2. receiverState[r] # "complete"
      BY <1>0 DEF ReceiverInv
    <3>3. receiverState'[r] = IF T = {d} THEN "complete" ELSE receiverState[r]
      BY <1>3 DEF Shape
    <3>4. T = {d} => Heard(r)' = Dataowners
      BY <1>0, <1>2 DEF Heard
    <3>5. receiverState[r] # "idle"
      OBVIOUS
    <3>6. numDataowners'[r] = Cardinality(Dataowners \ Heard(r)')
      BY <1>3, <3>1
    <3> HIDE DEF T, d, Inv, ReceiverHandleReceive
    <3> QED
      BY <3>2, <3>3, <3>4, <3>5, <3>6
  <2> QED
    BY <2>1, <2>2, <2>3, <2>4, <2>5 DEF ReceiverInv
<1> QED
  BY <1>4, <1>5, <1>6, <1>7, <1>8

-----------------------------------------------------------------------------
(* The inductive invariant *)

\* The invariant holds at the start.
LEMMA InitInv ==
  ASSUME Init
  PROVE  Inv
<1> USE DEF Init
<1>1. Shape
  <2>1. declared \in [Parties -> [PeerSets -> Seq(Kinds)]]
    BY DEF NoStream
  <2>2. randomness \in [Dataowners -> RandomnessType]
    BY DEF NoRandomness, RandomnessType
  <2> QED
    BY <2>1, <2>2 DEF Shape, MomentsState, RunState, ChildType
<1>2. ASSUME NEW p \in Dataowners PROVE OwnerPhase(p)
  <2>1. Idle(p)
    BY DEF Idle, Parties
  <2> QED
    BY <2>1 DEF OwnerPhase
<1>3. WireInv
  BY DEF WireInv
<1>4. HouseInv
  BY FS_EmptySet DEF HouseInv, Parties
<1>5. ReceiverInv
  BY DEF ReceiverInv, Heard
<1> QED
  BY <1>1, <1>2, <1>3, <1>4, <1>5 DEF Inv

\* Every step keeps the invariant.
LEMMA NextInv ==
  ASSUME Inv, [Next]_vars
  PROVE  Inv'
<1>1. ASSUME NEW p \in Dataowners, MomentsInit(p) PROVE Inv'
  BY <1>1, MomentsInitStep
<1>2. ASSUME NEW p \in Dataowners, NEW q \in Dataowners, HandleReceive(p, q)
      PROVE  Inv'
  BY <1>2, HandleReceiveStep
<1>3. ASSUME NEW p \in Dataowners, NEW c \in open[p], HandleComplete(p, c)
      PROVE  Inv'
  <2>1. UNCHANGED <<sharedLists, wire, resultWire, house, receiver>>
    BY <1>3 DEF HandleComplete
  <2>2. CASE SortBeforeRandomness(p, c)
    BY <2>1, <2>2, SortBeforeRandomnessStep
  <2>3. CASE RandomnessReady(p, c)
    BY <2>1, <2>3, RandomnessReadyStep
  <2>4. CASE SISOSortDone(p, c)
    BY <2>1, <2>4, SISOSortDoneStep
  <2>5. CASE ZipAdjacentDone(p, c)
    BY <2>1, <2>5, ZipAdjacentDoneStep
  <2>6. CASE ModConvUpDone(p, c)
    BY <2>1, <2>6, ModConvUpDoneStep
  <2> QED
    BY <1>3, <2>2, <2>3, <2>4, <2>5, <2>6 DEF HandleComplete
<1>4. ASSUME NEW p \in Dataowners, NEW c \in open[p], DivisionDone(p, c)
      PROVE  Inv'
  BY <1>4, DivisionDoneStep
<1>5. CASE HouseInit
  BY <1>5, HouseInitStep
<1>6. ASSUME NEW c \in open[Dealer], HouseHandleComplete(c) PROVE Inv'
  BY <1>6, HouseHandleCompleteStep
<1>7. ASSUME NEW r \in Recipients, ReceiverInit(r) PROVE Inv'
  BY <1>7, ReceiverInitStep
<1>8. ASSUME NEW r \in Recipients, NEW m \in resultWire, ReceiverHandleReceive(r, m)
      PROVE  Inv'
  BY <1>8, ReceiverHandleReceiveStep
<1>9. CASE UNCHANGED vars
  <2> USE <1>9 DEF vars, owner, house, receiver, Inv
  <2>1. ASSUME NEW p \in Dataowners PROVE OwnerPhase(p)'
    BY OwnerUnchanged
  <2>2. ReceiverInv'
    BY ReceiverUnchanged
  <2>3. Shape'
    BY DEF Shape
  <2>4. WireInv' /\ HouseInv'
    BY DEF WireInv, HouseInv
  <2> QED
    BY <2>1, <2>2, <2>3, <2>4
<1> QED
  BY <1>1, <1>2, <1>3, <1>4, <1>5, <1>6, <1>7, <1>8, <1>9 DEF Next, Terminated

\* However many dataowners, verticals, recipients and moments there are, a
\* dataowner is always in one of the seven phases of Moments.cpp's state machine,
\* with the counter, the children and the dispensers that phase implies, whatever
\* the order of messages and completions.
THEOREM InvHolds == Spec => []Inv
<1>1. Init => Inv
  BY InitInv
<1>2. Inv /\ [Next]_vars => Inv'
  BY NextInv
<1> QED
  BY <1>1, <1>2, PTL DEF Spec

-----------------------------------------------------------------------------
(* What follows from it *)

\* As many sorts, or zips, as partners.
LEMMA PairedCount ==
  ASSUME NEW p \in Dataowners, NEW T \in SUBSET Cross(p)
  PROVE  /\ Cardinality(Sorts(p, T)) = Cardinality(T)
         /\ Cardinality(Zips(p, T)) = Cardinality(T)
<1>1. /\ Sorts(p, T) = DealtChildren(p, "SISOSort", T)
      /\ Zips(p, T) = PairChildren(p, "ZipAdjacent", T)
  BY DEF Sorts, Zips, DealtChildren, PairChildren
<1> QED
  BY <1>1, PairedChildrenCount

\* None of the size_t counters of the dataowners, the dealer and the recipients ever
\* goes below zero, and every variable keeps its type.
THEOREM TypeCorrect == Spec => []TypeOK
<1>1. Inv => TypeOK
  <2> SUFFICES ASSUME Inv PROVE TypeOK
    OBVIOUS
  <2> USE DEF Inv
  <2>1. ASSUME NEW p \in Dataowners PROVE numPartiesAwaiting[p] \in Nat
    <3>1. /\ Cardinality(Cross(p) \ sharedLists[p]) \in Nat
          /\ Cardinality(Cross(p) \ sortedLists[p]) \in Nat
          /\ Cardinality(Cross(p) \ vectorZippedAdjacent[p]) \in Nat
      BY CrossLemma
    <3>2. \/ numPartiesAwaiting[p] = 0
          \/ numPartiesAwaiting[p] = Cardinality(Cross(p) \ sharedLists[p])
          \/ numPartiesAwaiting[p] = Cardinality(Cross(p) \ sortedLists[p])
          \/ numPartiesAwaiting[p] = Cardinality(Cross(p) \ vectorZippedAdjacent[p])
      <4>1. OwnerPhase(p)
        OBVIOUS
      <4> HIDE DEF Inv
      <4> QED
        BY <4>1 DEF OwnerPhase, Idle, Collecting, Sorting, Zipping, Lifting,
                    Dividing, Completed, Summed
    <3> QED
      BY <3>1, <3>2
  <2>2. numPartiesAwaiting \in [Dataowners -> Nat]
    BY <2>1 DEF Shape
  <2>3. numDealersRemaining \in Nat
    BY FS_CardinalityType DEF HouseInv
  <2>4. ASSUME NEW r \in Recipients PROVE numDataowners[r] \in Nat
    <3>1. IsFiniteSet(Dataowners \ Heard(r))
      BY PartiesAssumption, FS_Subset
    <3>2. Cardinality(Dataowners \ Heard(r)) \in Nat
      BY <3>1, FS_CardinalityType
    <3> QED
      BY <3>2 DEF ReceiverInv
  <2>5. numDataowners \in [Recipients -> Nat]
    BY <2>4 DEF Shape
  <2> QED
    BY <2>2, <2>3, <2>5 DEF Shape, TypeOK
<1> QED
  BY <1>1, InvHolds, PTL

\* numPartiesAwaiting is at all times the number of lists, sorts or zips that are
\* still to come: Moments.cpp's reuse of it for three purposes, with the patron
\* completing at any point of it, loses and adds nothing.
THEOREM CounterCorrect == Spec => []AwaitsWhatIsMissing
<1>1. Inv => AwaitsWhatIsMissing
  <2> SUFFICES ASSUME Inv, NEW p \in Dataowners, state[p] \notin {"idle", "complete"}
               PROVE  numPartiesAwaiting[p] =
                        IF sharedLists[p] # Cross(p)
                        THEN Cardinality(Cross(p) \ sharedLists[p])
                        ELSE Cardinality(OpenOf(p, "SISOSort"))
                               + Cardinality(OpenOf(p, "ZipAdjacent"))
    BY DEF AwaitsWhatIsMissing
  <2>0. Cardinality({}) = 0
    BY FS_EmptySet
  <2>1. CASE Collecting(p)
    BY <2>1 DEF Collecting
  <2>2. CASE Sorting(p)
    <3> DEFINE T == Cross(p) \ sortedLists[p]
    <3>1. \A c \in Sorts(p, T) : c.kind = "SISOSort"
      BY SortsLemma
    <3>2. \A c \in PatronOpen(p) : c.kind = "Randomness"
      BY DEF PatronOpen, Patron, Child
    <3>3. OpenOf(p, "SISOSort") = Sorts(p, T) /\ OpenOf(p, "ZipAdjacent") = {}
      BY <2>2, <3>1, <3>2 DEF Sorting, OpenOf
    <3>4. Cardinality(Sorts(p, T)) = Cardinality(T) /\ Cardinality(T) \in Nat
      BY PairedCount, CrossLemma
    <3>5. numPartiesAwaiting[p] = Cardinality(T) /\ sharedLists[p] = Cross(p)
      BY <2>2 DEF Sorting
    <3> HIDE DEF T
    <3> QED
      BY <2>0, <3>3, <3>4, <3>5
  <2>3. CASE Zipping(p)
    <3> DEFINE T == Cross(p) \ vectorZippedAdjacent[p]
    <3>1. \A c \in Zips(p, T) : c.kind = "ZipAdjacent"
      BY ZipsLemma
    <3>2. OpenOf(p, "ZipAdjacent") = Zips(p, T) /\ OpenOf(p, "SISOSort") = {}
      BY <2>3, <3>1 DEF Zipping, OpenOf
    <3>3. Cardinality(Zips(p, T)) = Cardinality(T) /\ Cardinality(T) \in Nat
      BY PairedCount, CrossLemma
    <3>4. numPartiesAwaiting[p] = Cardinality(T) /\ sharedLists[p] = Cross(p)
      BY <2>3 DEF Zipping
    <3> HIDE DEF T
    <3> QED
      BY <2>0, <3>2, <3>3, <3>4
  <2>4. CASE Lifting(p) \/ Dividing(p)
    <3>1. \A c \in open[p] : c.kind \in {"ModConvUp", "Divide"}
      BY <2>4 DEF Lifting, Dividing, Child
    <3>2. OpenOf(p, "ZipAdjacent") = {} /\ OpenOf(p, "SISOSort") = {}
      BY <3>1 DEF OpenOf
    <3>3. numPartiesAwaiting[p] = 0 /\ sharedLists[p] = Cross(p)
      BY <2>4 DEF Lifting, Dividing, Summed
    <3> QED
      BY <2>0, <3>2, <3>3
  <2> QED
    BY <2>1, <2>2, <2>3, <2>4 DEF Inv, OwnerPhase, Idle, Completed
<1> QED
  BY <1>1, InvHolds, PTL

\* Every static_cast of Moments::handleComplete is of a child of the class it
\* names.
THEOREM CastsCorrect == Spec => []ChildrenMatchState
<1>1. Inv => ChildrenMatchState
  <2> SUFFICES ASSUME Inv, NEW p \in Dataowners, NEW c \in open[p]
               PROVE  c.kind \in IF randomnessDone[p] THEN ExpectedKind(p)
                                                      ELSE {"Randomness", "SISOSort"}
    BY DEF ChildrenMatchState
  <2>1. CASE Idle(p) \/ Completed(p)
    BY <2>1 DEF Idle, Completed
  <2>2. CASE Collecting(p)
    BY <2>2 DEF Collecting, PatronOpen, Patron, Child
  <2>3. CASE Sorting(p)
    <3>1. c \in PatronOpen(p) \/ c.kind = "SISOSort"
      BY <2>3, SortsLemma DEF Sorting
    <3> QED
      BY <2>3, <3>1 DEF Sorting, PatronOpen, Patron, Child, ExpectedKind
  <2>4. CASE Zipping(p)
    <3>1. c.kind = "ZipAdjacent"
      BY <2>4, ZipsLemma DEF Zipping
    <3> QED
      BY <2>4, <3>1 DEF Zipping, ExpectedKind
  <2>5. CASE Lifting(p) \/ Dividing(p)
    BY <2>5 DEF Lifting, Dividing, Summed, Child, ExpectedKind
  <2> QED
    BY <2>1, <2>2, <2>3, <2>4, <2>5 DEF Inv, OwnerPhase
<1> QED
  BY <1>1, InvHolds, PTL

\* Sorts run on complete lists, zips on sorted lists and with their randomness.
THEOREM InputsCorrect == Spec => []InputsReady
<1>1. Inv => InputsReady
  <2> SUFFICES ASSUME Inv, NEW p \in Dataowners, NEW c \in open[p]
               PROVE  /\ c.kind = "SISOSort" => sharedLists[p] = Cross(p)
                      /\ c.kind = "ZipAdjacent" =>
                           sortedLists[p] = Cross(p) /\ randomnessDone[p]
    BY DEF InputsReady
  <2>1. CASE Idle(p) \/ Completed(p)
    BY <2>1 DEF Idle, Completed
  <2>2. CASE Collecting(p)
    BY <2>2 DEF Collecting, PatronOpen, Patron, Child
  <2>3. CASE Sorting(p)
    <3>1. c.kind # "ZipAdjacent"
      BY <2>3, SortsLemma DEF Sorting, PatronOpen, Patron, Child
    <3> QED
      BY <2>3, <3>1 DEF Sorting
  <2>4. CASE Zipping(p) \/ Lifting(p) \/ Dividing(p)
    BY <2>4 DEF Zipping, Lifting, Dividing, Summed
  <2> QED
    BY <2>1, <2>2, <2>3, <2>4 DEF Inv, OwnerPhase
<1> QED
  BY <1>1, InvHolds, PTL

\* The patron fetches as much of every kind of randomness as Moments::handleComplete
\* takes, for every number of moments.
THEOREM RandomnessSuffices == Spec => []DispensersSuffice
<1>1. Inv => DispensersSuffice
  <2> SUFFICES ASSUME Inv, NEW p \in Dataowners
               PROVE  /\ randomness[p].modConvUp >= 0
                      /\ randomness[p].divide >= 0
                      /\ randomness[p].zipAdjacent >= 0
    BY DEF DispensersSuffice
  <2>1. \/ randomness[p] = NoRandomness
        \/ randomness[p] = DealtRandomness
        \/ randomness[p] = [modConvUp |-> PayloadLength, divide |-> PayloadLength,
                            zipAdjacent |-> 0]
        \/ randomness[p] = [modConvUp |-> 0, divide |-> PayloadLength, zipAdjacent |-> 0]
        \/ randomness[p] = [modConvUp |-> 0, divide |-> 1, zipAdjacent |-> 0]
    BY DEF Inv, OwnerPhase, Idle, Collecting, Sorting, Zipping, Lifting, Dividing,
           Completed, PatronHas
  <2> QED
    BY <2>1, PayloadAssumption DEF NoRandomness, DealtRandomness
<1> QED
  BY <1>1, InvHolds, PTL

\* A recipient that prints has summed both shares of every pair of dataowners of
\* two verticals, and nothing else.
THEOREM ResultCorrect == Spec => []ResultIsWhole
<1>1. Inv => ResultIsWhole
  <2> SUFFICES ASSUME Inv, NEW r \in Recipients, receiverState[r] = "complete"
               PROVE  results[r] =
                        {m \in Dataowners \X Dataowners : m[2] \in Cross(m[1])}
    BY DEF ResultIsWhole
  <2>1. Heard(r) = Dataowners
    BY DEF Inv, ReceiverInv
  <2>2. \A p, q \in Dataowners : <<p, q>> \in results[r] <=> q \in Cross(p)
    BY <2>1 DEF Inv, ReceiverInv
  <2>3. results[r] \subseteq Dataowners \X Dataowners
    BY DEF Inv, Shape
  <2> QED
    BY <2>2, <2>3
<1> QED
  BY <1>1, InvHolds, PTL

\* The dataowners and the dealer complete with no child left behind, and the
\* dealer never outlives its last house.
THEOREM CompletionCorrect == Spec => []CompleteLeavesNothing
<1>1. Inv => CompleteLeavesNothing
  <2> SUFFICES ASSUME Inv PROVE CompleteLeavesNothing
    OBVIOUS
  <2>1. ASSUME NEW p \in Dataowners, state[p] = "complete" PROVE open[p] = {}
    BY <2>1, PhaseOf DEF Inv, Completed
  <2>2. houseState = "complete" <=> houseState # "idle" /\ open[Dealer] = {}
    BY DEF Inv, HouseInv, Shape, RunState
  <2> QED
    BY <2>1, <2>2 DEF CompleteLeavesNothing
<1> QED
  BY <1>1, InvHolds, PTL

-----------------------------------------------------------------------------
(* The joint steps of a moments query: the streams of declarations of any  *)
(* two parties agree (Matched), and nobody completes while another has not *)
(* yet reached the division (Lockstep).  Both follow from StreamInv.  It   *)
(* says that what a party has declared for a peer set it belongs to is     *)
(* fixed by its own phase, up to how far it has come in ONE sequence that  *)
(* all parties of that peer set go through: a pair of dataowners looks the *)
(* same from both its ends.                                                *)

-----------------------------------------------------------------------------
(* Peer sets and streams *)

\* Only the last stream has a division, and it has it in the last place.
Undivided == Kinds \ {"Divide"}

\* The streams of every phase are streams.
LEMMA StreamTypes ==
  /\ \A K \in {Undivided, Kinds} :
       \A s \in {NoStream, StartStream, SortStream, ZipStream, LiftStream} :
         s \in [PeerSets -> Seq(K)]
  /\ DivideStream \in [PeerSets -> Seq(Kinds)]
<1> USE DEF Undivided, Kinds
<1>1. ASSUME NEW K \in {Undivided, Kinds}
      PROVE  \A s \in {NoStream, StartStream, SortStream, ZipStream, LiftStream} :
               s \in [PeerSets -> Seq(K)]
  <2>0. NoStream \in [PeerSets -> Seq(K)]
    BY DEF NoStream
  <2>1. StartStream \in [PeerSets -> Seq(K)]
    BY <1>1, <2>0, DeclareAppends DEF StartStream
  <2>2. SortStream \in [PeerSets -> Seq(K)]
    BY <1>1, <2>1, DeclareAppends DEF SortStream
  <2>3. ZipStream \in [PeerSets -> Seq(K)]
    BY <1>1, <2>2, DeclareAppends DEF ZipStream
  <2>4. LiftStream \in [PeerSets -> Seq(K)]
    BY <1>1, <2>3, DeclareAppends DEF LiftStream
  <2> QED
    BY <2>0, <2>1, <2>2, <2>3, <2>4
<1>2. DivideStream \in [PeerSets -> Seq(Kinds)]
  <2>1. LiftStream \in [PeerSets -> Seq(Kinds)]
    BY <1>1
  <2> QED
    BY <2>1, DeclareAppends DEF DivideStream
<1> QED
  BY <1>1, <1>2

\* The streams of the phases before the division.
EarlierStreams == {NoStream, StartStream, SortStream, ZipStream, LiftStream}

\* The earlier streams are prefixes of the stream that ends with the division.
LEMMA StreamPrefix ==
  ASSUME NEW s \in EarlierStreams, NEW ps \in PeerSets
  PROVE  /\ s[ps] \in Seq(Kinds) /\ LiftStream[ps] \in Seq(Undivided)
         /\ Len(s[ps]) <= Len(LiftStream[ps])
         /\ Len(s[ps]) <= Len(DivideStream[ps])
         /\ \A n \in 1 .. Len(s[ps]) : s[ps][n] = DivideStream[ps][n]
<1>0. /\ \A t \in EarlierStreams : t \in [PeerSets -> Seq(Kinds)]
      /\ DivideStream \in [PeerSets -> Seq(Kinds)]
      /\ LiftStream[ps] \in Seq(Undivided)
  BY StreamTypes DEF EarlierStreams, Undivided
<1>1. /\ Below(NoStream, StartStream, ps) /\ Below(StartStream, SortStream, ps)
      /\ Below(SortStream, ZipStream, ps) /\ Below(ZipStream, LiftStream, ps)
      /\ Below(LiftStream, DivideStream, ps)
  <2>1. \A t \in [PeerSets -> Seq(Kinds)], kind \in Kinds, S \in SUBSET PeerSets :
          Below(t, Declare(t, kind, S), ps)
    BY BelowDeclare
  <2>2. {"Randomness", "SISOSort", "ZipAdjacent", "ModConvUp", "Divide"} \subseteq Kinds
    BY DEF Kinds
  <2>3. {{Parties}, AllDealtPairs, AllPairs, {Dataowners}} \subseteq SUBSET PeerSets
    BY PeerSetLemma DEF AllPairs
  <2>4. Below(NoStream, StartStream, ps)
    BY <1>0, <2>1, <2>2, <2>3 DEF EarlierStreams, StartStream
  <2>5. Below(StartStream, SortStream, ps)
    BY <1>0, <2>1, <2>2, <2>3 DEF EarlierStreams, SortStream
  <2>6. Below(SortStream, ZipStream, ps)
    BY <1>0, <2>1, <2>2, <2>3 DEF EarlierStreams, ZipStream
  <2>7. Below(ZipStream, LiftStream, ps)
    BY <1>0, <2>1, <2>2, <2>3 DEF EarlierStreams, LiftStream
  <2>8. Below(LiftStream, DivideStream, ps)
    BY <1>0, <2>1, <2>2, <2>3 DEF EarlierStreams, DivideStream
  <2> QED
    BY <2>4, <2>5, <2>6, <2>7, <2>8
<1>2. ASSUME NEW a \in [PeerSets -> Seq(Kinds)], NEW b \in [PeerSets -> Seq(Kinds)],
             NEW e \in [PeerSets -> Seq(Kinds)], Below(a, b, ps), Below(b, e, ps)
      PROVE  Below(a, e, ps)
  BY <1>2, BelowOrder
<1>3. \A t \in EarlierStreams : Below(t, t, ps)
  BY <1>0, BelowOrder
<1>4. Below(ZipStream, DivideStream, ps) /\ Below(ZipStream, LiftStream, ps)
  BY <1>0, <1>1, <1>2 DEF EarlierStreams
<1>5. Below(SortStream, DivideStream, ps) /\ Below(SortStream, LiftStream, ps)
  BY <1>0, <1>1, <1>2, <1>4 DEF EarlierStreams
<1>6. Below(StartStream, DivideStream, ps) /\ Below(StartStream, LiftStream, ps)
  BY <1>0, <1>1, <1>2, <1>5 DEF EarlierStreams
<1>7. Below(NoStream, DivideStream, ps) /\ Below(NoStream, LiftStream, ps)
  BY <1>0, <1>1, <1>2, <1>6 DEF EarlierStreams
<1>8. Below(s, DivideStream, ps) /\ Below(s, LiftStream, ps)
  BY <1>1, <1>3, <1>4, <1>5, <1>6, <1>7 DEF EarlierStreams
<1> QED
  BY <1>0, <1>8 DEF Below

\* For all dataowners together the division is declared once, last.
LEMMA DivisionIsLast ==
  ASSUME NEW n \in 1 .. Len(DivideStream[Dataowners]),
         DivideStream[Dataowners][n] = "Divide"
  PROVE  \A s \in EarlierStreams : Len(s[Dataowners]) < n
<1>0. Dataowners \in PeerSets
  BY PeerSetLemma
<1>1. LiftStream \in [PeerSets -> Seq(Kinds)]
  BY StreamTypes DEF Undivided
<1>2. DivideStream[Dataowners] = Append(LiftStream[Dataowners], "Divide")
  <2>1. "Divide" \in Kinds
    BY DEF Kinds
  <2>2. Declare(LiftStream, "Divide", {Dataowners})[Dataowners]
          = Append(LiftStream[Dataowners], "Divide")
    BY <1>0, <1>1, <2>1, DeclareAppends
  <2> QED
    BY <2>2 DEF DivideStream
<1>3. LiftStream[Dataowners] \in Seq(Undivided)
  BY <1>0, StreamTypes
<1>4. \A k \in 1 .. Len(LiftStream[Dataowners]) :
        DivideStream[Dataowners][k] # "Divide"
  BY <1>2, <1>3 DEF Undivided
<1>5. Len(LiftStream[Dataowners]) \in Nat /\ Len(LiftStream[Dataowners]) < n
  BY <1>2, <1>3, <1>4
<1>6. \A s \in EarlierStreams :
        /\ Len(s[Dataowners]) \in Nat
        /\ Len(s[Dataowners]) <= Len(LiftStream[Dataowners])
  BY <1>0, StreamPrefix
<1> QED
  BY <1>5, <1>6

-----------------------------------------------------------------------------
(* The induction *)

\* Which stream a phase has.
LEMMA StreamOfPhase ==
  ASSUME NEW p \in Dataowners
  PROVE  /\ Idle(p) => StreamOf(p) = NoStream
         /\ Collecting(p) => StreamOf(p) = StartStream
         /\ Sorting(p) => StreamOf(p) = SortStream
         /\ Zipping(p) => StreamOf(p) = ZipStream
         /\ Lifting(p) => StreamOf(p) = LiftStream
         /\ Dividing(p) => StreamOf(p) = DivideStream
         /\ Completed(p) => StreamOf(p) = DivideStream
<1>1. Idle(p) => StreamOf(p) = NoStream
  BY DEF Idle, StreamOf
<1>2. Collecting(p) => StreamOf(p) = StartStream
  BY DEF Collecting, StreamOf
<1>3. Sorting(p) => StreamOf(p) = SortStream
  BY DEF Sorting, StreamOf
<1>4. Zipping(p) => StreamOf(p) = ZipStream
  BY DEF Zipping, StreamOf
<1>5. Lifting(p) => StreamOf(p) = LiftStream
  BY DEF Lifting, StreamOf
<1>6. Dividing(p) => StreamOf(p) = DivideStream
  BY DEF Dividing, StreamOf
<1>7. Completed(p) => StreamOf(p) = DivideStream
  BY DEF Completed, StreamOf
<1> QED
  BY <1>1, <1>2, <1>3, <1>4, <1>5, <1>6, <1>7

\* The stream of a dataowner depends only on its phase and on the lists it holds.
LEMMA StreamOfUnchanged ==
  ASSUME NEW p \in Dataowners, state'[p] = state[p], sharedLists'[p] = sharedLists[p]
  PROVE  StreamOf(p)' = StreamOf(p)
BY DEF StreamOf

\* A step of dataowner p that is not the last of its phase: no declarations.
LEMMA QuietStep ==
  ASSUME StreamInv, UNCHANGED <<declared, houseState>>, NEW p \in Dataowners,
         StreamOf(p)' = StreamOf(p),
         \A x \in Dataowners \ {p} : state'[x] = state[x] /\ sharedLists'[x] = sharedLists[x]
  PROVE  OwnerStreams' /\ DealerStreams'
<1>1. \A x \in Dataowners : StreamOf(x)' = StreamOf(x)
  BY StreamOfUnchanged
<1>2. OwnerStreams'
  BY <1>1 DEF StreamInv, OwnerStreams
<1>3. DealerStreams'
  BY DEF StreamInv, DealerStreams
<1> QED
  BY <1>2, <1>3

\* A step that declares: for the peer sets p belongs to, S is the same as All, so p
\* moves on in the sequence that is common to everybody.
LEMMA DeclaringStep ==
  ASSUME Shape, StreamInv, houseState' = houseState, NEW p \in Dataowners,
         NEW kind \in Kinds, NEW S, NEW All,
         declared' = [declared EXCEPT ![p] = Declare(@, kind, S)],
         \A ps \in PeerSets : p \in ps => (ps \in S <=> ps \in All),
         StreamOf(p)' = Declare(StreamOf(p), kind, All),
         \A x \in Dataowners \ {p} : state'[x] = state[x] /\ sharedLists'[x] = sharedLists[x]
  PROVE  OwnerStreams' /\ DealerStreams'
<1>c. p # Dealer /\ p \in Parties /\ Dealer \in Parties /\ Dataowners \subseteq Parties
  BY CrossLemma DEF Parties
<1>1. \A x \in Dataowners \ {p} : StreamOf(x)' = StreamOf(x) /\ declared'[x] = declared[x]
  BY <1>c, StreamOfUnchanged DEF Shape
<1>2. ASSUME NEW ps \in PeerSets, p \in ps
      PROVE  declared'[p][ps] = StreamOf(p)'[ps]
  <2>1. declared'[p][ps] = IF ps \in S THEN Append(declared[p][ps], kind)
                                       ELSE declared[p][ps]
    BY <1>c DEF Shape, Declare
  <2>2. StreamOf(p)'[ps] = IF ps \in All THEN Append(StreamOf(p)[ps], kind)
                                         ELSE StreamOf(p)[ps]
    BY DEF Declare
  <2>3. declared[p][ps] = StreamOf(p)[ps]
    BY <1>2 DEF StreamInv, OwnerStreams
  <2> QED
    BY <1>2, <2>1, <2>2, <2>3
<1>3. OwnerStreams'
  <2> SUFFICES ASSUME NEW x \in Dataowners, NEW ps \in PeerSets, x \in ps
               PROVE  declared'[x][ps] = StreamOf(x)'[ps]
    BY DEF OwnerStreams
  <2>1. CASE x = p
    BY <2>1, <1>2
  <2>2. CASE x # p
    BY <2>2, <1>1 DEF StreamInv, OwnerStreams
  <2> QED
    BY <2>1, <2>2
<1>4. DealerStreams'
  <2>1. declared'[Dealer] = declared[Dealer]
    BY <1>c DEF Shape
  <2> QED
    BY <2>1 DEF StreamInv, DealerStreams
<1> QED
  BY <1>3, <1>4

\* Nobody has completed while a dataowner is before the division.
LEMMA LockstepFrame ==
  ASSUME Lockstep, NEW p \in Dataowners,
         state[p] \notin {"awaitingDivision", "complete"}, state'[p] # "complete",
         \A x \in Dataowners \ {p} : state'[x] = state[x]
  PROVE  Lockstep'
<1>1. \A x \in Dataowners : state[x] # "complete"
  BY DEF Lockstep
<1>2. \A x \in Dataowners : state'[x] # "complete"
  BY <1>1
<1> QED
  BY <1>2 DEF Lockstep

\* Moments::init declares the randomness of the whole party.
LEMMA MomentsInitStreams ==
  ASSUME Inv, StreamInv, NEW p \in Dataowners, MomentsInit(p)
  PROVE  StreamInv'
<1>0. Idle(p) /\ Shape
  BY PhaseOf DEF Inv, MomentsInit
<1>1. /\ declared' = [declared EXCEPT ![p] = Declare(@, "Randomness", {Parties})]
      /\ houseState' = houseState
      /\ "Randomness" \in Kinds
      /\ \A x \in Dataowners \ {p} :
           state'[x] = state[x] /\ sharedLists'[x] = sharedLists[x]
  BY <1>0 DEF MomentsInit, Invoke, Shape, house, Kinds
<1>2. /\ state'[p] = "awaitingRandomnessAndSISOSort"
      /\ sharedLists'[p] # Cross(p)
  BY <1>0, CrossLemma DEF MomentsInit, Shape, Idle
<1>3. StreamOf(p)' = Declare(StreamOf(p), "Randomness", {Parties})
  <2>1. StreamOf(p)' = StartStream
    BY <1>2 DEF StreamOf
  <2> QED
    BY <2>1, <1>0, StreamOfPhase DEF StartStream
<1>4. OwnerStreams' /\ DealerStreams'
  BY <1>0, <1>1, <1>3, DeclaringStep
<1>5. Lockstep'
  BY <1>0, <1>1, <1>2, LockstepFrame DEF StreamInv, Idle
<1> QED
  BY <1>4, <1>5 DEF StreamInv

\* The last list to arrive declares the sorts; the earlier ones declare nothing.
LEMMA HandleReceiveStreams ==
  ASSUME Inv, StreamInv, NEW p \in Dataowners, NEW q \in Dataowners, HandleReceive(p, q)
  PROVE  StreamInv'
<1> DEFINE T == Cross(p) \ sharedLists[p]
<1>0. q \in T /\ Collecting(p) /\ Shape
  <2>1. q \in T
    BY DEF Inv, WireInv, HandleReceive
  <2>2. OwnerPhase(p) /\ state[p] # "idle"
    BY DEF Inv, HandleReceive
  <2> QED
    BY <2>1, <2>2 DEF Inv, OwnerPhase, Idle, Sorting, Zipping, Summed, Lifting,
                      Dividing, Completed
<1>n. /\ Cardinality(T) - 1 = 0 <=> T = {q}
      /\ numPartiesAwaiting[p] = Cardinality(T)
      /\ sharedLists'[p] = sharedLists[p] \cup {q}
      /\ sharedLists[p] \subseteq Cross(p)
  <2>1. IsFiniteSet(T)
    BY CrossLemma
  <2>2. numPartiesAwaiting[p] = Cardinality(T) /\ sharedLists[p] \subseteq Cross(p)
    BY <1>0 DEF Collecting
  <2>3. sharedLists'[p] = sharedLists[p] \cup {q}
    BY <1>0 DEF Shape, HandleReceive
  <2> QED
    BY <1>0, <2>1, <2>2, <2>3, CountDownLemma
<1>h. /\ houseState' = houseState
      /\ \A x \in Dataowners \ {p} : sharedLists'[x] = sharedLists[x]
  BY <1>0 DEF HandleReceive, Shape, house
<1>s. /\ StreamOf(p) = StartStream
      /\ state[p] \in {"awaitingSISOSort", "awaitingRandomnessAndSISOSort"}
  BY <1>0, StreamOfPhase DEF Collecting
<1>1. CASE T = {q}
  <2>1. /\ declared' = [declared EXCEPT ![p] = Declare(@, "SISOSort", DealtPairs(p))]
        /\ state' = [state EXCEPT ![p] = "awaitingSISOSort"]
    BY <1>1, <1>n DEF HandleReceive, Invoke
  <2>2. /\ state'[p] = "awaitingSISOSort"
        /\ \A x \in Dataowners \ {p} : state'[x] = state[x]
        /\ "SISOSort" \in Kinds
    BY <1>0, <2>1 DEF Shape, Kinds
  <2>3. sharedLists'[p] = Cross(p)
    BY <1>1, <1>n
  <2>4. StreamOf(p)' = Declare(StreamOf(p), "SISOSort", AllDealtPairs)
    <3>1. StreamOf(p)' = SortStream
      BY <2>2, <2>3 DEF StreamOf
    <3> QED
      BY <3>1, <1>s DEF SortStream
  <2>5. OwnerStreams' /\ DealerStreams'
    BY <1>0, <1>h, <2>1, <2>2, <2>4, SamePeerSets, DeclaringStep
  <2>6. Lockstep'
    BY <1>s, <2>2, LockstepFrame DEF StreamInv
  <2> QED
    BY <2>5, <2>6 DEF StreamInv
<1>2. CASE T # {q}
  <2>1. UNCHANGED <<declared, state>>
    BY <1>2, <1>n DEF HandleReceive
  <2>2. sharedLists'[p] # Cross(p)
    BY <1>0, <1>2, <1>n
  <2>3. StreamOf(p)' = StreamOf(p)
    <3>1. StreamOf(p)' = StartStream
      BY <1>s, <2>1, <2>2 DEF StreamOf
    <3> QED
      BY <3>1, <1>s
  <2>4. OwnerStreams' /\ DealerStreams'
    BY <1>h, <2>1, <2>3, QuietStep
  <2>5. Lockstep'
    BY <2>1 DEF StreamInv, Lockstep
  <2> QED
    BY <2>4, <2>5 DEF StreamInv
<1> QED
  BY <1>1, <1>2

\* The five cases of Moments::handleComplete: a dataowner before the division stays
\* in its phase and declares nothing, or goes on to the next and declares that.
LEMMA CompletionStreams ==
  ASSUME Inv, StreamInv, NEW p \in Dataowners,
         UNCHANGED <<sharedLists, houseState>>,
         state[p] \notin {"awaitingDivision", "complete"}, state'[p] # "complete",
         \A x \in Dataowners \ {p} : state'[x] = state[x],
         \/ UNCHANGED declared /\ StreamOf(p)' = StreamOf(p)
         \/ \E kind \in Kinds :
              /\ declared' = [declared EXCEPT ![p] = Declare(@, kind, Pairs(p))]
              /\ StreamOf(p)' = Declare(StreamOf(p), kind, AllPairs)
         \/ \E kind \in Kinds :
              /\ declared' = [declared EXCEPT ![p] = Declare(@, kind, {Dataowners})]
              /\ StreamOf(p)' = Declare(StreamOf(p), kind, {Dataowners})
  PROVE  StreamInv'
<1>0. /\ Shape
      /\ houseState' = houseState
      /\ \A x \in Dataowners \ {p} :
           state'[x] = state[x] /\ sharedLists'[x] = sharedLists[x]
  BY DEF Inv
<1>1. Lockstep'
  BY LockstepFrame DEF StreamInv
<1>2. CASE UNCHANGED declared /\ StreamOf(p)' = StreamOf(p)
  BY <1>0, <1>1, <1>2, QuietStep DEF StreamInv
<1>3. ASSUME NEW kind \in Kinds,
             declared' = [declared EXCEPT ![p] = Declare(@, kind, Pairs(p))],
             StreamOf(p)' = Declare(StreamOf(p), kind, AllPairs)
      PROVE  StreamInv'
  <2>1. \A ps \in PeerSets : p \in ps => (ps \in Pairs(p) <=> ps \in AllPairs)
    BY SamePeerSets
  <2>2. OwnerStreams' /\ DealerStreams'
    BY <1>0, <1>3, <2>1, DeclaringStep
  <2> QED
    BY <1>1, <2>2 DEF StreamInv
<1>4. ASSUME NEW kind \in Kinds,
             declared' = [declared EXCEPT ![p] = Declare(@, kind, {Dataowners})],
             StreamOf(p)' = Declare(StreamOf(p), kind, {Dataowners})
      PROVE  StreamInv'
  <2> DEFINE All == {Dataowners}
  <2>1. /\ declared' = [declared EXCEPT ![p] = Declare(@, kind, All)]
        /\ StreamOf(p)' = Declare(StreamOf(p), kind, All)
        /\ \A ps \in PeerSets : p \in ps => (ps \in All <=> ps \in All)
    BY <1>4
  <2> HIDE DEF All
  <2>2. OwnerStreams' /\ DealerStreams'
    BY <1>0, <2>1, DeclaringStep
  <2> QED
    BY <1>1, <2>2 DEF StreamInv
<1> QED
  BY <1>2, <1>3, <1>4

\* A sort that ends before the randomness is there declares nothing.
LEMMA SortBeforeRandomnessStreams ==
  ASSUME Inv, StreamInv, NEW p \in Dataowners, NEW c \in open[p],
         SortBeforeRandomness(p, c), UNCHANGED <<sharedLists, house>>
  PROVE  StreamInv'
<1>0. Sorting(p) /\ Shape /\ OwnerPhase(p)
  <2>1. ~randomnessDone[p] /\ c.kind # "Randomness"
    BY DEF SortBeforeRandomness
  <2>2. ~Idle(p)
    BY DEF Idle
  <2>3. ~Collecting(p)
    <3>1. Patron.kind = "Randomness"
      BY DEF Patron, Child
    <3> QED
      BY <3>1, <2>1 DEF Collecting, PatronOpen
  <2> QED
    BY <2>1, <2>2, <2>3, PhaseOf DEF Inv
<1>1. /\ state'[p] \in {state[p], "awaitingRandomnessOnly"}
      /\ \A x \in Dataowners \ {p} : state'[x] = state[x]
      /\ UNCHANGED declared
  BY <1>0 DEF SortBeforeRandomness, Retire, Shape
<1>2. /\ state[p] \in {"awaitingSISOSort", "awaitingRandomnessOnly"}
      /\ sharedLists[p] = Cross(p)
  BY <1>0 DEF Sorting
<1>3. StreamOf(p) = SortStream /\ StreamOf(p)' = SortStream
  BY <1>1, <1>2 DEF StreamOf
<1> QED
  BY <1>1, <1>2, <1>3, CompletionStreams DEF house

\* The randomness declares the zips when it was all that was missing.
LEMMA RandomnessReadyStreams ==
  ASSUME Inv, StreamInv, NEW p \in Dataowners, NEW c \in open[p],
         RandomnessReady(p, c), UNCHANGED <<sharedLists, house>>
  PROVE  StreamInv'
<1>0. /\ Shape
      /\ Collecting(p) \/ Sorting(p)
  <2>1. ~randomnessDone[p]
    BY DEF RandomnessReady
  <2> QED
    BY <2>1, PhaseOf DEF Inv, Idle
<1>1. CASE state[p] = "awaitingRandomnessOnly"
  <2>1. Sorting(p)
    BY <1>0, <1>1 DEF Collecting
  <2>2. /\ declared' = [declared EXCEPT ![p] = Declare(@, "ZipAdjacent", Pairs(p))]
        /\ state'[p] = "awaitingZipAdjacent"
        /\ \A x \in Dataowners \ {p} : state'[x] = state[x]
        /\ "ZipAdjacent" \in Kinds
    BY <1>0, <1>1 DEF RandomnessReady, InvokeZipAdjacent, Invoke, Shape, Kinds
  <2>3. StreamOf(p)' = Declare(StreamOf(p), "ZipAdjacent", AllPairs)
    <3>1. StreamOf(p)' = ZipStream
      BY <2>2 DEF StreamOf
    <3> QED
      BY <3>1, <2>1, StreamOfPhase DEF ZipStream
  <2> QED
    BY <1>1, <2>2, <2>3, CompletionStreams DEF house
<1>2. CASE state[p] # "awaitingRandomnessOnly"
  <2>1. /\ UNCHANGED declared
        /\ state'[p] = "awaitingSISOSort"
        /\ \A x \in Dataowners \ {p} : state'[x] = state[x]
    BY <1>0, <1>2 DEF RandomnessReady, Retire, Shape
  <2>2. state[p] \in {"awaitingSISOSort", "awaitingRandomnessAndSISOSort"}
    BY <1>0, <1>2 DEF Collecting, Sorting
  <2>3. StreamOf(p)' = StreamOf(p)
    BY <2>1, <2>2 DEF StreamOf
  <2> QED
    BY <2>1, <2>2, <2>3, CompletionStreams DEF house
<1> QED
  BY <1>1, <1>2

\* The last sort declares the zips.
LEMMA SISOSortDoneStreams ==
  ASSUME Inv, StreamInv, NEW p \in Dataowners, NEW c \in open[p],
         SISOSortDone(p, c), UNCHANGED <<sharedLists, house>>
  PROVE  StreamInv'
<1>0. Sorting(p) /\ Shape /\ state[p] = "awaitingSISOSort"
  <2>1. randomnessDone[p] /\ state[p] = "awaitingSISOSort"
    BY DEF SISOSortDone
  <2>2. Collecting(p) => open[p] = {}
    BY <2>1 DEF Collecting, PatronOpen
  <2> QED
    BY <2>1, <2>2, PhaseOf DEF Inv
<1>1. CASE numPartiesAwaiting[p] - 1 = 0
  <2>2. /\ declared' = [declared EXCEPT ![p] = Declare(@, "ZipAdjacent", Pairs(p))]
        /\ state'[p] = "awaitingZipAdjacent"
        /\ \A x \in Dataowners \ {p} : state'[x] = state[x]
        /\ "ZipAdjacent" \in Kinds
    BY <1>0, <1>1 DEF SISOSortDone, InvokeZipAdjacent, Invoke, Shape, Kinds
  <2>3. StreamOf(p)' = Declare(StreamOf(p), "ZipAdjacent", AllPairs)
    <3>1. StreamOf(p)' = ZipStream
      BY <2>2 DEF StreamOf
    <3> QED
      BY <3>1, <1>0, StreamOfPhase DEF ZipStream
  <2> QED
    BY <1>0, <2>2, <2>3, CompletionStreams DEF house
<1>2. CASE numPartiesAwaiting[p] - 1 # 0
  <2>1. UNCHANGED <<declared, state>>
    BY <1>2 DEF SISOSortDone, Retire
  <2>2. StreamOf(p)' = StreamOf(p)
    BY <2>1 DEF StreamOf
  <2> QED
    BY <1>0, <2>1, <2>2, CompletionStreams DEF house
<1> QED
  BY <1>1, <1>2

\* The last zip declares the conversion of the whole party.
LEMMA ZipAdjacentDoneStreams ==
  ASSUME Inv, StreamInv, NEW p \in Dataowners, NEW c \in open[p],
         ZipAdjacentDone(p, c), UNCHANGED <<sharedLists, house>>
  PROVE  StreamInv'
<1>0. Zipping(p) /\ Shape /\ state[p] = "awaitingZipAdjacent"
  BY PhaseOf DEF Inv, ZipAdjacentDone
<1>1. CASE numPartiesAwaiting[p] - 1 = 0
  <2>2. /\ declared' = [declared EXCEPT ![p] = Declare(@, "ModConvUp", {Dataowners})]
        /\ state'[p] = "awaitingBatchedModConvUp"
        /\ \A x \in Dataowners \ {p} : state'[x] = state[x]
        /\ "ModConvUp" \in Kinds
    BY <1>0, <1>1 DEF ZipAdjacentDone, Invoke, Shape, Kinds
  <2>3. StreamOf(p)' = Declare(StreamOf(p), "ModConvUp", {Dataowners})
    <3>1. StreamOf(p)' = LiftStream
      BY <2>2 DEF StreamOf
    <3> QED
      BY <3>1, <1>0, StreamOfPhase DEF LiftStream
  <2> QED
    BY <1>0, <2>2, <2>3, CompletionStreams DEF house
<1>2. CASE numPartiesAwaiting[p] - 1 # 0
  <2>1. UNCHANGED <<declared, state>>
    BY <1>2 DEF ZipAdjacentDone, Retire
  <2>2. StreamOf(p)' = StreamOf(p)
    BY <2>1 DEF StreamOf
  <2> QED
    BY <1>0, <2>1, <2>2, CompletionStreams DEF house
<1> QED
  BY <1>1, <1>2

\* The conversion declares the division when it ends.
LEMMA ModConvUpDoneStreams ==
  ASSUME Inv, StreamInv, NEW p \in Dataowners, NEW c \in open[p],
         ModConvUpDone(p, c), UNCHANGED <<sharedLists, house>>
  PROVE  StreamInv'
<1>0. Lifting(p) /\ Shape /\ state[p] = "awaitingBatchedModConvUp"
  BY PhaseOf DEF Inv, ModConvUpDone
<1>1. /\ declared' = [declared EXCEPT ![p] = Declare(@, "Divide", {Dataowners})]
      /\ state'[p] = "awaitingDivision"
      /\ \A x \in Dataowners \ {p} : state'[x] = state[x]
      /\ "Divide" \in Kinds
  BY <1>0 DEF ModConvUpDone, Invoke, Shape, Kinds
<1>2. StreamOf(p)' = Declare(StreamOf(p), "Divide", {Dataowners})
  <2>1. StreamOf(p)' = DivideStream
    BY <1>1 DEF StreamOf
  <2> QED
    BY <2>1, <1>0, StreamOfPhase DEF DivideStream
<1> QED
  BY <1>0, <1>1, <1>2, CompletionStreams DEF house

\* Moments::handleComplete, case awaitingDivision: the division has completed, so
\* everybody has declared it, and nobody declares it before that phase.
LEMMA DivisionDoneStreams ==
  ASSUME Inv, StreamInv, NEW p \in Dataowners, NEW c \in open[p], DivisionDone(p, c)
  PROVE  StreamInv'
<1>0. Dividing(p) /\ Shape /\ state[p] = "awaitingDivision"
  BY PhaseOf DEF Inv, DivisionDone
<1>1. /\ UNCHANGED <<declared, sharedLists, houseState>>
      /\ state' = [state EXCEPT ![p] = "complete"]
      /\ state'[p] = "complete"
      /\ \A x \in Dataowners \ {p} : state'[x] = state[x]
  BY <1>0 DEF DivisionDone, Retire, Shape, house
<1>2. StreamOf(p)' = StreamOf(p)
  BY <1>0, <1>1 DEF StreamOf
<1>3. OwnerStreams' /\ DealerStreams'
  BY <1>1, <1>2, QuietStep
<1>4. c.kind = "Divide" /\ c.peers = Dataowners /\ Dataowners \in PeerSets
  BY <1>0, PeerSetLemma DEF Dividing, Child
<1>5. \A x \in Dataowners : declared[x][Dataowners] = StreamOf(x)[Dataowners]
  BY <1>4 DEF StreamInv, OwnerStreams
<1>6. declared[p][Dataowners] = DivideStream[Dataowners]
  BY <1>0, <1>5, StreamOfPhase
<1>7. PICK n \in 1 .. Len(DivideStream[Dataowners]) :
        /\ DivideStream[Dataowners][n] = "Divide"
        /\ \A q \in Dataowners : Len(StreamOf(q)[Dataowners]) >= n
  BY <1>4, <1>5, <1>6 DEF DivisionDone, Met, NeedOf
<1>8. ASSUME NEW q \in Dataowners
      PROVE  state[q] \in {"awaitingDivision", "complete"}
  <2>1. CASE StreamOf(q) \in EarlierStreams
    <3>1. Len(StreamOf(q)[Dataowners]) < n
      BY <1>7, <2>1, DivisionIsLast
    <3>2. Len(StreamOf(q)[Dataowners]) \in Nat
      BY <1>4, <2>1, StreamPrefix
    <3>3. n \in Nat
      OBVIOUS
    <3> QED
      BY <3>1, <3>2, <3>3, <1>7
  <2>2. CASE StreamOf(q) \notin EarlierStreams
    BY <2>2 DEF StreamOf, EarlierStreams
  <2> QED
    BY <2>1, <2>2
<1>9. Lockstep'
  BY <1>1, <1>8 DEF Lockstep
<1> QED
  BY <1>3, <1>9 DEF StreamInv

\* MomentsRandomnessHouse::init declares for every pair what its dataowners will.
LEMMA HouseInitStreams ==
  ASSUME Inv, StreamInv, HouseInit
  PROVE  StreamInv'
<1>c. Dealer \in Parties /\ Dataowners \subseteq Parties /\ Dealer \notin Dataowners
  BY PartiesAssumption DEF Parties
<1>1. /\ UNCHANGED <<state, sharedLists>>
      /\ houseState' # "idle"
      /\ declared'[Dealer] = SortStream
      /\ \A x \in Dataowners : declared'[x] = declared[x]
  BY <1>c DEF HouseInit, owner, Inv, Shape, HouseStreams, SortStream, StartStream
<1>2. \A x \in Dataowners : StreamOf(x)' = StreamOf(x)
  BY <1>1, StreamOfUnchanged
<1>3. OwnerStreams'
  BY <1>1, <1>2 DEF StreamInv, OwnerStreams
<1>4. DealerStreams'
  BY <1>1 DEF DealerStreams
<1>5. Lockstep'
  BY <1>1 DEF StreamInv, Lockstep
<1> QED
  BY <1>3, <1>4, <1>5 DEF StreamInv

\* Steps that touch neither the streams nor the dataowners.
LEMMA OtherStreams ==
  ASSUME StreamInv, UNCHANGED <<declared, state, sharedLists>>,
         (houseState' = "idle") <=> (houseState = "idle")
  PROVE  StreamInv'
<1>1. \A x \in Dataowners : StreamOf(x)' = StreamOf(x)
  BY StreamOfUnchanged
<1>2. OwnerStreams'
  BY <1>1 DEF StreamInv, OwnerStreams
<1>3. DealerStreams'
  BY DEF StreamInv, DealerStreams
<1>4. Lockstep'
  BY DEF StreamInv, Lockstep
<1> QED
  BY <1>2, <1>3, <1>4 DEF StreamInv

\* The streams are empty at the start.
LEMMA InitStreams == Init => StreamInv
<1> SUFFICES ASSUME Init PROVE StreamInv
  OBVIOUS
<1>c. Dealer \in Parties /\ Dataowners \subseteq Parties
  BY DEF Parties
<1>1. OwnerStreams
  BY <1>c DEF Init, OwnerStreams, StreamOf
<1>2. DealerStreams
  BY <1>c DEF Init, DealerStreams, NoStream
<1>3. Lockstep
  BY DEF Init, Lockstep
<1> QED
  BY <1>1, <1>2, <1>3 DEF StreamInv

\* Every step keeps the invariant of the streams.
LEMMA NextStreams == Inv /\ StreamInv /\ [Next]_vars => StreamInv'
<1> SUFFICES ASSUME Inv, StreamInv, [Next]_vars PROVE StreamInv'
  OBVIOUS
<1>1. ASSUME NEW p \in Dataowners, MomentsInit(p) PROVE StreamInv'
  BY <1>1, MomentsInitStreams
<1>2. ASSUME NEW p \in Dataowners, NEW q \in Dataowners, HandleReceive(p, q)
      PROVE  StreamInv'
  BY <1>2, HandleReceiveStreams
<1>3. ASSUME NEW p \in Dataowners, NEW c \in open[p], HandleComplete(p, c)
      PROVE  StreamInv'
  <2>1. UNCHANGED <<sharedLists, house>>
    BY <1>3 DEF HandleComplete
  <2>2. \/ SortBeforeRandomness(p, c) \/ RandomnessReady(p, c)
        \/ SISOSortDone(p, c) \/ ZipAdjacentDone(p, c) \/ ModConvUpDone(p, c)
    BY <1>3 DEF HandleComplete
  <2> QED
    BY <2>1, <2>2, SortBeforeRandomnessStreams, RandomnessReadyStreams,
       SISOSortDoneStreams, ZipAdjacentDoneStreams, ModConvUpDoneStreams
<1>4. ASSUME NEW p \in Dataowners, NEW c \in open[p], DivisionDone(p, c)
      PROVE  StreamInv'
  BY <1>4, DivisionDoneStreams
<1>5. CASE HouseInit
  BY <1>5, HouseInitStreams
<1>6. ASSUME NEW c \in open[Dealer], HouseHandleComplete(c) PROVE StreamInv'
  <2>1. UNCHANGED <<declared, state, sharedLists>>
    BY <1>6 DEF HouseHandleComplete, Retire, owner
  <2>2. houseState # "idle"
    BY DEF Inv, HouseInv
  <2>3. houseState' # "idle"
    BY <1>6, <2>2 DEF HouseHandleComplete
  <2> QED
    BY <2>1, <2>2, <2>3, OtherStreams
<1>7. ASSUME NEW r \in Recipients,
             ReceiverInit(r) \/ \E m \in resultWire : ReceiverHandleReceive(r, m)
      PROVE  StreamInv'
  <2>1. UNCHANGED <<declared, state, sharedLists, houseState>>
    BY <1>7 DEF ReceiverInit, ReceiverHandleReceive, owner, house
  <2> QED
    BY <2>1, OtherStreams
<1>8. CASE UNCHANGED vars
  <2>1. UNCHANGED <<declared, state, sharedLists, houseState>>
    BY <1>8 DEF vars, owner, house
  <2> QED
    BY <2>1, OtherStreams
<1> QED
  BY <1>1, <1>2, <1>3, <1>4, <1>5, <1>6, <1>7, <1>8 DEF Next, Terminated

\* What every party has declared for a peer set it belongs to is fixed by its phase.
THEOREM StreamsHold == Spec => []StreamInv
<1>1. Spec => []Inv
  BY InvHolds
<1>2. Init => StreamInv
  BY InitStreams
<1>3. Inv /\ StreamInv /\ [Next]_vars => StreamInv'
  BY NextStreams
<1> QED
  BY <1>1, <1>2, <1>3, PTL DEF Spec

-----------------------------------------------------------------------------
(* What follows from it *)

\* Nobody has completed a moments query while another dataowner has not yet reached
\* the division (Moments::handleComplete, case awaitingDivision).
THEOREM LockstepHolds == Spec => []Lockstep
<1>1. StreamInv => Lockstep
  BY DEF StreamInv
<1> QED
  BY <1>1, StreamsHold, PTL

\* The library joins the children of two parties by their place in the stream of a
\* peer set alone: in a moments query they are always children of one kind, also
\* where a pair of dataowners is all the dataowners there are.
THEOREM MatchedHolds == Spec => []Matched
<1>1. StreamInv => Matched
  <2> SUFFICES ASSUME StreamInv, NEW ps \in PeerSets, NEW p \in ps, NEW q \in ps,
                      NEW n \in (1 .. Len(declared[p][ps]))
                                  \cap (1 .. Len(declared[q][ps]))
               PROVE  declared[p][ps][n] = declared[q][ps][n]
    BY DEF Matched
  <2>1. ASSUME NEW x \in ps
        PROVE  \E s \in EarlierStreams \cup {DivideStream} : declared[x][ps] = s[ps]
    <3>1. x \in Dataowners \/ x = Dealer
      BY DEF PeerSets, Parties, Pairs, DealtPairs, Pair, DealtPair, Cross
    <3>2. CASE x \in Dataowners
      <4>1. declared[x][ps] = StreamOf(x)[ps]
        BY <3>2 DEF StreamInv, OwnerStreams
      <4>2. StreamOf(x) \in EarlierStreams \cup {DivideStream}
        BY DEF StreamOf, EarlierStreams
      <4> QED
        BY <4>1, <4>2
    <3>3. CASE x = Dealer
      <4>1. declared[x][ps] = IF houseState = "idle" THEN <<>> ELSE SortStream[ps]
        BY <3>3 DEF StreamInv, DealerStreams
      <4>2. NoStream[ps] = <<>>
        BY DEF NoStream
      <4>3. NoStream \in EarlierStreams /\ SortStream \in EarlierStreams
        BY DEF EarlierStreams
      <4> QED
        BY <4>1, <4>2, <4>3
    <3> QED
      BY <3>1, <3>2, <3>3
  <2>2. ASSUME NEW x \in ps, n \in 1 .. Len(declared[x][ps])
        PROVE  declared[x][ps][n] = DivideStream[ps][n]
    <3>1. PICK s \in EarlierStreams \cup {DivideStream} : declared[x][ps] = s[ps]
      BY <2>1
    <3> QED
      BY <2>2, <3>1, StreamPrefix
  <2> QED
    BY <2>2
<1> QED
  BY <1>1, StreamsHold, PTL

-----------------------------------------------------------------------------
(* The composed query *)

\* The proofs about the child, with the variables of the query.
RP == INSTANCE MomentsRandomnessProofs WITH
  declared <- innerDeclared, open <- innerOpen, state <- patronState,
  numPartiesAwaiting <- patronAwaiting, numDealersRemaining <- basementRemaining

\* Randomness of MomentsQuery and RP are instances of the same definitions.
LEMMA SameChild ==
  /\ Randomness!Init <=> RP!Init
  /\ Randomness!Next <=> RP!Next
  /\ Randomness!vars = RP!vars
  /\ Randomness!Matched <=> RP!Matched
BY DEF Randomness!Init, RP!Init, Randomness!Next, RP!Next,
       Randomness!PatronInit, RP!PatronInit,
       Randomness!PatronHandleComplete, RP!PatronHandleComplete,
       Randomness!ModConvUpDealt, RP!ModConvUpDealt,
       Randomness!DivideDealt, RP!DivideDealt,
       Randomness!ZipAdjacentDealt, RP!ZipAdjacentDealt,
       Randomness!GenerateOutputDispenser, RP!GenerateOutputDispenser,
       Randomness!BasementInit, RP!BasementInit,
       Randomness!BasementHandleComplete, RP!BasementHandleComplete,
       Randomness!BasementStreams, RP!BasementStreams,
       Randomness!NumHouses, RP!NumHouses,
       Randomness!Terminated, RP!Terminated, Randomness!AllComplete, RP!AllComplete,
       Randomness!Invoke, RP!Invoke, Randomness!Retire, RP!Retire,
       Randomness!Met, RP!Met, Randomness!Matched, RP!Matched,
       Randomness!Declare, RP!Declare, Randomness!NoStream, RP!NoStream,
       Randomness!Children, RP!Children, Randomness!Child, RP!Child,
       Randomness!Parties, RP!Parties, Randomness!Cross, RP!Cross,
       Randomness!Pair, RP!Pair, Randomness!Pairs, RP!Pairs,
       Randomness!DealtPair, RP!DealtPair, Randomness!DealtPairs, RP!DealtPairs,
       Randomness!AllDealtPairs, RP!AllDealtPairs,
       Randomness!PeerSets, RP!PeerSets, Randomness!Nothing, RP!Nothing,
       Randomness!numModConvUpNeeded, RP!numModConvUpNeeded,
       Randomness!numDivideNeeded, RP!numDivideNeeded,
       Randomness!numConditionalEvaluateNeeded, RP!numConditionalEvaluateNeeded,
       Randomness!Cardinality, RP!Cardinality,
       Randomness!vars, RP!vars, Randomness!patron, RP!patron,
       Randomness!basement, RP!basement

\* The sets of parties are finite in the instance too.
LEMMA SameParties == RP!IsFiniteSet(Dataowners) /\ RP!IsFiniteSet(Recipients)
BY PartiesAssumption DEF RP!IsFiniteSet, IsFiniteSet

-----------------------------------------------------------------------------
(* The query takes steps of both levels *)

\* The steps of the query are steps of Moments, or of its children alone.
LEMMA OuterStep == [QueryNext]_allVars => [Next]_vars
<1> SUFFICES ASSUME [QueryNext]_allVars PROVE [Next]_vars
  OBVIOUS
<1>1. CASE UNCHANGED allVars
  BY <1>1 DEF allVars
<1>2. CASE QueryNext
  BY <1>2 DEF QueryNext, Outer, StartPatron, PatronStep, OwnerStep, StartBasement,
              BasementStep, HouseStep, Next
<1> QED
  BY <1>1, <1>2

\* The steps of the query are steps of the patrons and the Basement, or leave
\* them alone.
LEMMA InnerStep == [QueryNext]_allVars => [RP!Next]_RP!vars
<1> SUFFICES ASSUME [QueryNext]_allVars PROVE [RP!Next]_RP!vars
  OBVIOUS
<1>1. UNCHANGED inner => UNCHANGED RP!vars
  BY DEF inner, RP!vars, RP!patron, RP!basement
<1>2. CASE UNCHANGED allVars
  BY <1>1, <1>2 DEF allVars
<1>3. CASE QueryNext
  <2>1. Randomness!Next \/ UNCHANGED inner
    BY <1>3 DEF QueryNext, Outer, StartPatron, PatronStep, OwnerStep, StartBasement,
                BasementStep, HouseStep, Randomness!Next
  <2> QED
    BY <1>1, <2>1, SameChild
<1> QED
  BY <1>2, <1>3

\* Putting the patrons and the Basement in the place of the Randomness child adds
\* no behaviour: the query implements Moments, and what is proved of Moments holds
\* of it (the safety part of ImplementsMoments).
THEOREM QueryIsMoments == QuerySpec => Spec
<1>1. QueryInit => Init
  BY DEF QueryInit
<1> QED
  BY <1>1, OuterStep, PTL DEF QuerySpec, Spec

\* It does not disturb its children either: they run as MomentsRandomness has them.
THEOREM QueryRunsRandomness == QuerySpec => RP!Spec
<1>1. QueryInit => RP!Init
  BY SameChild DEF QueryInit
<1> QED
  BY <1>1, InnerStep, PTL DEF QuerySpec, RP!Spec

-----------------------------------------------------------------------------
(* The handover *)

\* The only child of kind Randomness of a dataowner is the patron.
LEMMA OnlyPatron ==
  ASSUME Inv, NEW p \in Dataowners, NEW c \in open[p], c.kind = "Randomness"
  PROVE  c = Patron
<1>1. \A T \in SUBSET Cross(p) : c \notin Sorts(p, T) /\ c \notin Zips(p, T)
  BY SortsLemma, ZipsLemma
<1>2. /\ Cross(p) \ sortedLists[p] \in SUBSET Cross(p)
      /\ Cross(p) \ vectorZippedAdjacent[p] \in SUBSET Cross(p)
  OBVIOUS
<1>3. OwnerPhase(p)
  BY DEF Inv
<1>4. CASE Idle(p) \/ Completed(p)
  BY <1>4 DEF Idle, Completed
<1>5. CASE Collecting(p)
  BY <1>5 DEF Collecting, PatronOpen
<1>6. CASE Sorting(p)
  BY <1>1, <1>2, <1>6 DEF Sorting, PatronOpen
<1>7. CASE Zipping(p)
  BY <1>1, <1>2, <1>7 DEF Zipping
<1>8. CASE Lifting(p) \/ Dividing(p)
  BY <1>8 DEF Lifting, Dividing, Child
<1> QED
  BY <1>3, <1>4, <1>5, <1>6, <1>7, <1>8 DEF OwnerPhase

\* A parent that has its dispensers has them from a patron that is through.
Handover == \A p \in Dataowners : randomnessDone[p] => patronState[p] = "complete"

\* A patron that is through stays so.
LEMMA CompleteIsFinal ==
  ASSUME RP!Inv, [RP!Next]_RP!vars, NEW p \in Dataowners, patronState[p] = "complete"
  PROVE  patronState'[p] = "complete"
<1>1. patronState \in [Dataowners -> RP!PatronState]
  BY DEF RP!Inv, RP!Shape
<1>2. ASSUME NEW q \in Dataowners, RP!PatronInit(q) PROVE patronState'[p] = "complete"
  BY <1>1, <1>2 DEF RP!PatronInit
<1>3. ASSUME NEW q \in Dataowners, NEW c \in innerOpen[q], RP!PatronHandleComplete(q, c)
      PROVE  patronState'[p] = "complete"
  <2>1. \/ \E s : patronState' = [patronState EXCEPT ![q] = s] /\ patronState[q] # "complete"
        \/ patronState' = patronState
    BY <1>3 DEF RP!PatronHandleComplete, RP!ModConvUpDealt, RP!DivideDealt,
                RP!ZipAdjacentDealt, RP!GenerateOutputDispenser
  <2> QED
    BY <1>1, <2>1
<1>4. CASE RP!BasementInit
  BY <1>4 DEF RP!BasementInit, RP!patron
<1>5. CASE \E c \in innerOpen[Dealer] : RP!BasementHandleComplete(c)
  BY <1>5 DEF RP!BasementHandleComplete, RP!patron
<1>6. CASE UNCHANGED RP!vars
  BY <1>6 DEF RP!vars, RP!patron
<1> QED
  BY <1>2, <1>3, <1>4, <1>5, <1>6 DEF RP!Next, RP!Terminated

\* randomnessDone is set by a step that hears from the patron, and by no other.
LEMMA SetByPatron ==
  ASSUME Inv, [QueryNext]_allVars, NEW p \in Dataowners, randomnessDone'[p],
         ~randomnessDone[p]
  PROVE  patronState[p] = "complete"
<1>0. randomnessDone \in [Dataowners -> BOOLEAN]
  BY DEF Inv, Shape
<1>1. ASSUME UNCHANGED owner PROVE FALSE
  BY <1>1 DEF owner
<1>2. ASSUME NEW q \in Dataowners, NEW c \in open[q], OwnerStep(q, c)
      PROVE  patronState[p] = "complete"
  <2>1. RandomnessReady(q, c)
    BY <1>0, <1>2 DEF OwnerStep, HandleComplete, SortBeforeRandomness, SISOSortDone,
                      ZipAdjacentDone, ModConvUpDone
  <2>2. q = p /\ c.kind = "Randomness"
    BY <1>0, <2>1 DEF RandomnessReady
  <2>3. c = Patron
    BY <2>2, OnlyPatron
  <2> QED
    BY <1>2, <2>2, <2>3 DEF OwnerStep
<1>3. ASSUME NEW q \in Dataowners, MomentsInit(q) PROVE FALSE
  BY <1>3 DEF MomentsInit
<1>4. ASSUME NEW q \in Dataowners, NEW x \in Dataowners, HandleReceive(q, x) PROVE FALSE
  BY <1>4 DEF HandleReceive
<1>5. ASSUME NEW q \in Dataowners, NEW c \in open[q], DivisionDone(q, c) PROVE FALSE
  BY <1>5 DEF DivisionDone
<1>6. ASSUME UNCHANGED vars PROVE FALSE
  BY <1>1, <1>6 DEF vars
<1>7. CASE UNCHANGED allVars
  BY <1>6, <1>7 DEF allVars
<1>8. CASE HouseInit \/ (\E c \in open[Dealer] : HouseHandleComplete(c))
  BY <1>1, <1>8 DEF HouseInit, HouseHandleComplete
<1>9. CASE \E r \in Recipients :
             ReceiverInit(r) \/ \E m \in resultWire : ReceiverHandleReceive(r, m)
  BY <1>1, <1>9 DEF ReceiverInit, ReceiverHandleReceive
<1>10. CASE QueryNext
  BY <1>2, <1>3, <1>4, <1>5, <1>6, <1>8, <1>9, <1>10
  DEF QueryNext, Outer, StartPatron, PatronStep, StartBasement, BasementStep,
      HouseStep, Terminated
<1> QED
  BY <1>7, <1>10

\* A dataowner goes on with its zips, its lifts and its division only with the full
\* set of dispensers a patron that was through had put together.
THEOREM HandoverCorrect == QuerySpec => []HandedOverWhole
<1>1. RP!Spec => []RP!Inv
  BY SameParties, PartiesAssumption, VerticalAssumption, RP!InvHolds, PTL
<1>2. RP!Spec => []RP!OutputIsFull
  BY SameParties, PartiesAssumption, VerticalAssumption, RP!OutputCorrect, PTL
<1>3. QueryInit => Handover
  BY DEF QueryInit, Init, Handover
<1>4. Inv /\ RP!Inv /\ Handover /\ [QueryNext]_allVars => Handover'
  <2> SUFFICES ASSUME Inv, RP!Inv, Handover, [QueryNext]_allVars,
                      NEW p \in Dataowners, randomnessDone'[p]
               PROVE  patronState'[p] = "complete"
    BY DEF Handover
  <2>1. patronState[p] = "complete"
    BY SetByPatron DEF Handover
  <2> QED
    BY <2>1, InnerStep, CompleteIsFinal
<1>5. Handover /\ RP!OutputIsFull => HandedOverWhole
  BY DEF Handover, RP!OutputIsFull, HandedOverWhole, DealtRandomness
<1> QED
  BY <1>1, <1>2, <1>3, <1>4, <1>5, InvHolds, QueryIsMoments, QueryRunsRandomness, PTL
  DEF QuerySpec

\* At both levels every party's n-th child of a peer set is the others' n-th child.
THEOREM BothLevelsCorrect == QuerySpec => []BothLevelsMatched
<1>1. RP!Spec => []RP!Matched
  BY SameParties, PartiesAssumption, VerticalAssumption, RP!MatchedHolds, PTL
<1>2. Matched /\ RP!Matched => BothLevelsMatched
  BY SameChild DEF BothLevelsMatched
<1> QED
  BY <1>1, <1>2, MatchedHolds, QueryIsMoments, QueryRunsRandomness, PTL
=============================================================================
