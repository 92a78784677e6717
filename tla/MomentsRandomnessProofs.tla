----------------------- MODULE MomentsRandomnessProofs -----------------------
(***************************************************************************)
(* What MomentsRandomness promises, for any number of dataowners and       *)
(* verticals: the phases of the patrons and the count of the Basement are  *)
(* inductive (Inv), a patron hands over a full set of dispensers, the      *)
(* streams of patrons and Basement match, and together they keep the       *)
(* contract that Moments relies on (ChildContract).                        *)
(***************************************************************************)
EXTENDS MomentsRandomness, FronctocolLemmas

-----------------------------------------------------------------------------
(* Streams and children *)

\* The kinds a patron of the moments query asks for are kinds of children.
LEMMA KindsLemma == "ModConvUp" \in Kinds /\ "Divide" \in Kinds /\ "ZipAdjacent" \in Kinds
BY DEF Kinds

\* The streams of the patrons and of the basement are streams.
LEMMA StreamsType ==
  /\ NoStream \in [PeerSets -> Seq(Kinds)]
  /\ ModConvUpStream \in [PeerSets -> Seq(Kinds)]
  /\ DivideStream \in [PeerSets -> Seq(Kinds)]
  /\ \A p \in Dataowners : ZipAdjacentStream(p) \in [PeerSets -> Seq(Kinds)]
  /\ BasementStreams \in [PeerSets -> Seq(Kinds)]
<1>1. NoStream \in [PeerSets -> Seq(Kinds)]
  BY DEF NoStream
<1>2. ModConvUpStream \in [PeerSets -> Seq(Kinds)]
  BY <1>1, KindsLemma, DeclareAppends DEF ModConvUpStream
<1>3. DivideStream \in [PeerSets -> Seq(Kinds)]
  BY <1>2, KindsLemma, DeclareAppends DEF DivideStream
<1>4. ASSUME NEW p \in Dataowners
      PROVE  ZipAdjacentStream(p) \in [PeerSets -> Seq(Kinds)]
  BY <1>3, KindsLemma, DeclareAppends DEF ZipAdjacentStream
<1>5. BasementStreams = Declare(DivideStream, "ZipAdjacent", AllDealtPairs)
  BY DEF BasementStreams, DivideStream, ModConvUpStream
<1>6. BasementStreams \in [PeerSets -> Seq(Kinds)]
  BY <1>3, <1>5, KindsLemma, DeclareAppends
<1> QED
  BY <1>1, <1>2, <1>3, <1>4, <1>6

\* A ZipAdjacent patron that completes is that with exactly one partner.
LEMMA DealtZipsLemma ==
  ASSUME NEW p \in Dataowners, NEW T \in SUBSET Cross(p),
         NEW c \in DealtZips(p, T)
  PROVE  \E q \in T : /\ c.peers \cap Cross(p) = {q}
                      /\ DealtZips(p, T) \ {c} = DealtZips(p, T \ {q})
<1>1. PICK q \in T : c = Child("ZipAdjacent", {p, q, Dealer})
  BY DEF DealtZips, Children, DealtPair
<1>2. /\ q # p /\ q # Dealer /\ q \in Cross(p)
      /\ p \notin Cross(p) /\ Dealer \notin Cross(p)
      /\ c.peers = {p, q, Dealer}
  BY <1>1, CrossLemma DEF Child
<1>3. c.peers \cap Cross(p) = {q}
  BY <1>2
<1>4. ASSUME NEW x \in T, Child("ZipAdjacent", {p, x, Dealer}) = c
      PROVE  x = q
  <2>1. {p, x, Dealer} = {p, q, Dealer}
    BY <1>1, <1>4 DEF Child
  <2>2. x # p /\ x # Dealer
    BY CrossLemma
  <2> QED
    BY <2>1, <2>2
<1>5. DealtZips(p, T) \ {c} = DealtZips(p, T \ {q})
  BY <1>1, <1>4 DEF DealtZips, Children, DealtPair
<1> QED
  BY <1>3, <1>5

\* The zips' randomness is asked for once for every partner.
LEMMA DealtZipsStart ==
  ASSUME NEW p \in Dataowners
  PROVE  /\ Children("ZipAdjacent", DealtPairs(p)) = DealtZips(p, Cross(p))
         /\ DealtZips(p, {}) = {}
BY DEF DealtZips, DealtPairs, Children

-----------------------------------------------------------------------------
(* The inductive invariant *)

\* A patron none of whose variables change stays in its phase.
LEMMA PatronUnchanged ==
  ASSUME NEW p \in Dataowners, PatronPhase(p),
         state'[p] = state[p],
         numPartiesAwaiting'[p] = numPartiesAwaiting[p],
         dispensers'[p] = dispensers[p],
         zipAdjacentDispensers'[p] = zipAdjacentDispensers[p],
         output'[p] = output[p],
         declared'[p] = declared[p],
         open'[p] = open[p]
  PROVE  PatronPhase(p)'
<1>1. CASE Waiting(p)
  BY <1>1 DEF PatronPhase, Waiting
<1>2. CASE FetchingModConvUp(p)
  BY <1>2 DEF PatronPhase, FetchingModConvUp
<1>3. CASE FetchingDivide(p)
  BY <1>3 DEF PatronPhase, FetchingDivide
<1>4. CASE FetchingZips(p)
  BY <1>4 DEF PatronPhase, FetchingZips
<1>5. CASE HandedOver(p)
  BY <1>5 DEF PatronPhase, HandedOver
<1> QED
  BY <1>1, <1>2, <1>3, <1>4, <1>5 DEF PatronPhase

\* A step of one patron leaves the others and the Basement alone.
LEMMA PatronFrame ==
  ASSUME Inv, NEW p \in Dataowners, Shape', PatronPhase(p)', UNCHANGED basement,
         \A q \in Parties \ {p} : declared'[q] = declared[q] /\ open'[q] = open[q],
         \A q \in Dataowners \ {p} :
           /\ state'[q] = state[q]
           /\ numPartiesAwaiting'[q] = numPartiesAwaiting[q]
           /\ dispensers'[q] = dispensers[q]
           /\ zipAdjacentDispensers'[q] = zipAdjacentDispensers[q]
           /\ output'[q] = output[q]
  PROVE  Inv'
<1>1. p # Dealer /\ Dealer \in Parties /\ Dataowners \subseteq Parties
  BY CrossLemma DEF Parties
<1>2. ASSUME NEW q \in Dataowners PROVE PatronPhase(q)'
  <2>1. CASE q = p
    BY <2>1
  <2>2. CASE q # p
    <3>1. PatronPhase(q) /\ q \in Parties \ {p} /\ q \in Dataowners \ {p}
      BY <1>1, <2>2 DEF Inv
    <3> QED
      BY <3>1, PatronUnchanged
  <2> QED
    BY <2>1, <2>2
<1>3. BasementInv'
  <2>1. Dealer \in Parties \ {p}
    BY <1>1
  <2> QED
    BY <2>1 DEF Inv, BasementInv, basement
<1> QED
  BY <1>2, <1>3 DEF Inv

\* The patron's init asks for the randomness of the conversion.
LEMMA PatronInitStep ==
  ASSUME Inv, NEW p \in Dataowners, PatronInit(p)
  PROVE  Inv'
<1> USE DEF PatronInit, Invoke
<1>1. Waiting(p)
  BY DEF Inv, PatronPhase, Waiting, FetchingModConvUp, FetchingDivide, FetchingZips,
         HandedOver
<1>2. p \in Parties /\ Shape
  BY DEF Parties, Inv
<1>3. declared'[p] = ModConvUpStream
  BY <1>1, <1>2 DEF Waiting, Shape, ModConvUpStream
<1>4. open'[p] = {Child("ModConvUp", Parties)}
  BY <1>1, <1>2 DEF Waiting, Shape, Children
<1>5. FetchingModConvUp(p)'
  BY <1>1, <1>2, <1>3, <1>4 DEF Waiting, FetchingModConvUp, Shape
<1>6. Shape'
  <2>1. declared' = [declared EXCEPT ![p] = ModConvUpStream]
    BY <1>1 DEF Waiting, ModConvUpStream
  <2> QED
    BY <1>2, <2>1, StreamsType DEF Shape, PatronState, basement
<1> QED
  BY <1>2, <1>5, <1>6, PatronFrame DEF PatronPhase, Shape, basement

\* The conversion's randomness arrives and that of the division is asked for.
LEMMA ModConvUpDealtStep ==
  ASSUME Inv, NEW p \in Dataowners, NEW c \in open[p], ModConvUpDealt(p, c),
         UNCHANGED basement
  PROVE  Inv'
<1> USE DEF ModConvUpDealt, Invoke
<1>1. FetchingModConvUp(p)
  BY DEF Inv, PatronPhase, Waiting, FetchingModConvUp, FetchingDivide, FetchingZips,
         HandedOver
<1>2. p \in Parties /\ Shape
  BY DEF Parties, Inv
<1>3. declared'[p] = DivideStream
  BY <1>1, <1>2 DEF FetchingModConvUp, Shape, DivideStream
<1>4. open'[p] = {Child("Divide", Parties)}
  BY <1>1, <1>2 DEF FetchingModConvUp, Shape, Children
<1>5. dispensers'[p] = [modConvUp |-> PayloadLength, divide |-> 0, zipAdjacent |-> 0]
  BY <1>1, <1>2 DEF FetchingModConvUp, Shape, Nothing, numModConvUpNeeded
<1>6. FetchingDivide(p)'
  BY <1>1, <1>2, <1>3, <1>4, <1>5 DEF FetchingModConvUp, FetchingDivide, Shape
<1>7. Shape'
  <2>1. declared' = [declared EXCEPT ![p] = DivideStream]
    BY <1>1 DEF FetchingModConvUp, DivideStream
  <2>2. dispensers' \in [Dataowners -> DispensersType]
    BY <1>2 DEF Shape, DispensersType, numModConvUpNeeded
  <2> QED
    BY <1>2, <2>1, <2>2, StreamsType DEF Shape, PatronState, basement
<1> QED
  BY <1>2, <1>6, <1>7, PatronFrame DEF PatronPhase, Shape

\* The division's randomness arrives and that of the zips is asked for.
LEMMA DivideDealtStep ==
  ASSUME Inv, NEW p \in Dataowners, NEW c \in open[p], DivideDealt(p, c),
         UNCHANGED basement
  PROVE  Inv'
<1> USE DEF DivideDealt, Invoke
<1>1. FetchingDivide(p)
  BY DEF Inv, PatronPhase, Waiting, FetchingModConvUp, FetchingDivide, FetchingZips,
         HandedOver
<1>2. p \in Parties /\ Shape
  BY DEF Parties, Inv
<1>3. declared'[p] = ZipAdjacentStream(p)
  BY <1>1, <1>2 DEF FetchingDivide, Shape, ZipAdjacentStream
<1>4. open'[p] = DealtZips(p, Cross(p))
  BY <1>1, <1>2, DealtZipsStart DEF FetchingDivide, Shape
<1>5. dispensers'[p] =
        [modConvUp |-> PayloadLength, divide |-> PayloadLength, zipAdjacent |-> 0]
  BY <1>1, <1>2 DEF FetchingDivide, Shape, numDivideNeeded
<1>6. FetchingZips(p)'
  <2>1. zipAdjacentDispensers'[p] = {} /\ Cross(p) \ {} = Cross(p) /\ Cross(p) # {}
    BY <1>1, CrossLemma DEF FetchingDivide
  <2>2. numPartiesAwaiting'[p] = Cardinality(Cross(p))
    BY <1>2 DEF Shape
  <2> QED
    BY <1>2, <1>3, <1>4, <1>5, <2>1, <2>2 DEF FetchingZips, Shape
<1>7. Shape'
  <2>1. declared' = [declared EXCEPT ![p] = ZipAdjacentStream(p)]
    BY <1>1 DEF FetchingDivide, ZipAdjacentStream
  <2>2. dispensers' \in [Dataowners -> DispensersType]
    BY <1>2 DEF Shape, DispensersType, numDivideNeeded
  <2>3. Cardinality(Cross(p)) \in Int
    BY CrossLemma
  <2> QED
    BY <1>2, <2>1, <2>2, <2>3, StreamsType DEF Shape, PatronState, basement
<1> QED
  BY <1>2, <1>6, <1>7, PatronFrame DEF PatronPhase, Shape

\* The last partner completes the patron, and every slot is filled by then.
LEMMA ZipAdjacentDealtStep ==
  ASSUME Inv, NEW p \in Dataowners, NEW c \in open[p], ZipAdjacentDealt(p, c),
         UNCHANGED basement
  PROVE  Inv'
<1> USE DEF ZipAdjacentDealt, Retire
<1> DEFINE T == Cross(p) \ zipAdjacentDispensers[p]
<1>1. FetchingZips(p)
  BY DEF Inv, PatronPhase, Waiting, FetchingModConvUp, FetchingDivide, FetchingZips,
         HandedOver
<1>2. p \in Parties /\ Shape
  BY DEF Parties, Inv
<1>3. T \in SUBSET Cross(p) /\ c \in DealtZips(p, T) /\ open[p] = DealtZips(p, T)
  BY <1>1 DEF FetchingZips
<1>4. PICK q \in T : /\ c.peers \cap Cross(p) = {q}
                     /\ DealtZips(p, T) \ {c} = DealtZips(p, T \ {q})
  BY <1>3, DealtZipsLemma
<1>5. zipAdjacentDispensers'[p] = zipAdjacentDispensers[p] \cup {q}
  BY <1>2, <1>4 DEF Shape
<1>6. Cross(p) \ zipAdjacentDispensers'[p] = T \ {q}
  BY <1>5
<1>7. open'[p] = DealtZips(p, T \ {q})
  BY <1>2, <1>3, <1>4 DEF Shape
<1>8. IsFiniteSet(T)
  BY <1>3, CrossLemma
<1>9. /\ numPartiesAwaiting[p] = Cardinality(T) /\ Cardinality(T) \in Nat
      /\ Cardinality(T \ {q}) = Cardinality(T) - 1
      /\ Cardinality(T) - 1 = 0 <=> T = {q}
  BY <1>1, <1>8, CountDownLemma DEF FetchingZips
<1>10. numPartiesAwaiting'[p] = Cardinality(T \ {q})
  BY <1>2, <1>9 DEF Shape
<1>11. declared'[p] = ZipAdjacentStream(p)
  BY <1>1 DEF FetchingZips
<1>12. zipAdjacentDispensers' \in [Dataowners -> SUBSET Dataowners]
  BY <1>2, CrossLemma DEF Shape
<1>13. numPartiesAwaiting' \in [Dataowners -> Int]
  BY <1>2 DEF Shape
<1>14. CASE numPartiesAwaiting[p] - 1 = 0
  <2>1. T = {q}
    BY <1>9, <1>14
  <2>2. zipAdjacentDispensers'[p] = Cross(p)
    BY <1>1, <1>4, <1>5, <2>1 DEF FetchingZips
  <2>3. GenerateOutputDispenser(p, Cross(p))
    BY <1>14, <2>2
  <2>4. /\ state' = [state EXCEPT ![p] = "complete"]
        /\ dispensers' = [dispensers EXCEPT ![p] = Nothing]
        /\ output' = [output EXCEPT ![p] = [dispensers[p] EXCEPT !.zipAdjacent = 1]]
    BY <2>3 DEF GenerateOutputDispenser, numConditionalEvaluateNeeded
  <2>5. output'[p] =
          [modConvUp |-> PayloadLength, divide |-> PayloadLength, zipAdjacent |-> 1]
    BY <1>1, <1>2, <2>4 DEF FetchingZips, Shape
  <2>6. open'[p] = {}
    BY <1>7, <2>1, DealtZipsStart
  <2>7. HandedOver(p)'
    BY <1>2, <1>11, <2>4, <2>5, <2>6 DEF HandedOver, Shape
  <2>8. Shape'
    <3>1. dispensers' \in [Dataowners -> DispensersType]
      BY <1>2, <2>4 DEF Shape, DispensersType, Nothing
    <3>2. output' \in [Dataowners -> DispensersType]
      BY <1>2, <2>4 DEF Shape, DispensersType
    <3> QED
      BY <1>2, <1>12, <1>13, <2>4, <3>1, <3>2 DEF Shape, PatronState, basement
  <2> QED
    BY <1>2, <2>4, <2>7, <2>8, PatronFrame DEF PatronPhase, Shape
<1>15. CASE numPartiesAwaiting[p] - 1 # 0
  <2>1. T # {q} /\ UNCHANGED <<state, dispensers, output>>
    BY <1>9, <1>15
  <2>2. /\ zipAdjacentDispensers'[p] \subseteq Cross(p)
        /\ zipAdjacentDispensers'[p] # Cross(p)
    BY <1>1, <1>4, <1>5, <2>1 DEF FetchingZips
  <2>3. FetchingZips(p)'
    BY <1>1, <1>6, <1>7, <1>10, <1>11, <2>1, <2>2 DEF FetchingZips
  <2>4. Shape'
    BY <1>2, <1>12, <1>13, <2>1 DEF Shape, PatronState, basement
  <2> QED
    BY <1>2, <2>1, <2>3, <2>4, PatronFrame DEF PatronPhase, Shape
<1> QED
  BY <1>14, <1>15

\* A step of the Basement leaves the patrons alone.
LEMMA BasementFrame ==
  ASSUME Inv, Shape', BasementInv', UNCHANGED patron,
         \A q \in Dataowners : declared'[q] = declared[q] /\ open'[q] = open[q]
  PROVE  Inv'
<1>1. ASSUME NEW q \in Dataowners PROVE PatronPhase(q)'
  BY PatronUnchanged DEF Inv, patron
<1> QED
  BY <1>1 DEF Inv

\* init counts exactly the houses it invokes: the pairs are counted once although
\* each is met from both of its dataowners.
LEMMA BasementInitStep ==
  ASSUME Inv, BasementInit
  PROVE  Inv'
<1> USE DEF BasementInit
<1> DEFINE M == Child("ModConvUp", Parties)
           D == Child("Divide", Parties)
           Z == Children("ZipAdjacent", AllDealtPairs)
<1>1. /\ Dealer \in Parties /\ Dataowners \subseteq Parties
      /\ \A p \in Dataowners : p # Dealer
  BY PartiesAssumption DEF Parties
<1>2. /\ IsFiniteSet(Z) /\ Cardinality(Z) = Cardinality(AllDealtPairs)
      /\ Cardinality(AllDealtPairs) \in Nat
  BY DealtPairsFinite, ChildrenCount
<1>3. M \notin Z /\ D \notin Z \cup {M}
  BY DEF Children, Child
<1>4. {M, D} \cup Z = (Z \cup {M}) \cup {D}
  OBVIOUS
<1> HIDE DEF M, D, Z
<1>5. /\ IsFiniteSet(Z \cup {M})
      /\ Cardinality(Z \cup {M}) = Cardinality(Z) + 1
  BY <1>2, <1>3, FS_AddElement
<1>6. /\ IsFiniteSet((Z \cup {M}) \cup {D})
      /\ Cardinality((Z \cup {M}) \cup {D}) = Cardinality(Z) + 1 + 1
  BY <1>3, <1>5, FS_AddElement
<1>7. open'[Dealer] = (Z \cup {M}) \cup {D}
  <2>1. open'[Dealer] = {M, D} \cup Z
    BY <1>1 DEF Inv, Shape, M, D, Z
  <2> QED
    BY <1>4, <2>1
<1>8. numDealersRemaining' = Cardinality(Z) + 1 + 1
  BY <1>2 DEF NumHouses
<1>9. declared'[Dealer] = BasementStreams
  BY <1>1 DEF Inv, Shape
<1>10. BasementInv'
  BY <1>6, <1>7, <1>8, <1>9 DEF BasementInv
<1>11. Shape'
  BY StreamsType DEF Inv, Shape, RunState, patron
<1> QED
  BY <1>1, <1>10, <1>11, BasementFrame DEF Inv, Shape

\* The basement counts down the houses that are left.
LEMMA BasementHandleCompleteStep ==
  ASSUME Inv, NEW c \in open[Dealer], BasementHandleComplete(c)
  PROVE  Inv'
<1> USE DEF BasementHandleComplete, Retire
<1>1. /\ Dealer \in Parties /\ Dataowners \subseteq Parties
      /\ \A p \in Dataowners : p # Dealer
  BY PartiesAssumption DEF Parties
<1>2. /\ basementState = "running"
      /\ IsFiniteSet(open[Dealer])
      /\ numDealersRemaining = Cardinality(open[Dealer])
  BY DEF Inv, BasementInv, Shape, RunState
<1>3. /\ IsFiniteSet(open[Dealer] \ {c})
      /\ Cardinality(open[Dealer] \ {c}) = Cardinality(open[Dealer]) - 1
      /\ Cardinality(open[Dealer]) - 1 = 0 <=> open[Dealer] = {c}
  BY <1>2, CountDownLemma
<1>4. open'[Dealer] = open[Dealer] \ {c}
  BY <1>1 DEF Inv, Shape
<1>5. BasementInv'
  BY <1>2, <1>3, <1>4 DEF Inv, BasementInv
<1>6. Shape'
  BY DEF Inv, Shape, RunState, patron
<1> QED
  BY <1>1, <1>5, <1>6, BasementFrame DEF Inv, Shape

\* The invariant holds at the start.
LEMMA InitInv == Init => Inv
<1> SUFFICES ASSUME Init PROVE Inv
  OBVIOUS
<1>1. Dealer \in Parties /\ Dataowners \subseteq Parties
  BY DEF Parties
<1>2. Shape
  BY StreamsType DEF Init, Shape, PatronState, DispensersType, Nothing, RunState
<1>3. ASSUME NEW p \in Dataowners PROVE PatronPhase(p)
  BY <1>1 DEF Init, PatronPhase, Waiting
<1>4. BasementInv
  BY <1>1, FS_EmptySet DEF Init, BasementInv
<1> QED
  BY <1>2, <1>3, <1>4 DEF Inv

\* Every step keeps the invariant.
LEMMA NextInv == Inv /\ [Next]_vars => Inv'
<1> SUFFICES ASSUME Inv, [Next]_vars PROVE Inv'
  OBVIOUS
<1>1. CASE \E p \in Dataowners : PatronInit(p)
  BY <1>1, PatronInitStep
<1>2. ASSUME NEW p \in Dataowners, NEW c \in open[p], PatronHandleComplete(p, c)
      PROVE  Inv'
  BY <1>2, ModConvUpDealtStep, DivideDealtStep, ZipAdjacentDealtStep
  DEF PatronHandleComplete
<1>3. CASE BasementInit
  BY <1>3, BasementInitStep
<1>4. CASE \E c \in open[Dealer] : BasementHandleComplete(c)
  BY <1>4, BasementHandleCompleteStep
<1>5. CASE UNCHANGED vars
  <2>1. Shape' /\ BasementInv'
    BY <1>5 DEF vars, patron, basement, Inv, Shape, BasementInv
  <2>2. /\ UNCHANGED patron
        /\ \A q \in Dataowners : declared'[q] = declared[q] /\ open'[q] = open[q]
    BY <1>5 DEF vars
  <2> QED
    BY <2>1, <2>2, BasementFrame
<1> QED
  BY <1>1, <1>2, <1>3, <1>4, <1>5 DEF Next, Terminated

\* Inv is an invariant of the patrons and the Basement.
THEOREM InvHolds == Spec => []Inv
<1>1. Init => Inv
  BY InitInv
<1>2. Inv /\ [Next]_vars => Inv'
  BY NextInv
<1> QED
  BY <1>1, <1>2, PTL DEF Spec

-----------------------------------------------------------------------------
(* What follows *)

\* A patron that completes hands over a full set of dispensers: none of the slots
\* of zipAdjacentDispensers that generateOutputDispenser dereferences is empty.
THEOREM OutputCorrect == Spec => []OutputIsFull
<1>1. Inv => OutputIsFull
  BY DEF Inv, OutputIsFull, PatronPhase, Waiting, FetchingModConvUp, FetchingDivide,
         FetchingZips, HandedOver
<1> QED
  BY <1>1, InvHolds, PTL

\* numDealersRemaining of MomentsRandomnessBasement is the number of open houses,
\* and the Basement completes with the last of them, neither earlier nor never.
THEOREM BasementCorrect == Spec => []BasementCountsHouses
<1>1. Inv => BasementCountsHouses
  BY DEF Inv, BasementInv, BasementCountsHouses, Shape, RunState
<1> QED
  BY <1>1, InvHolds, PTL

\* The streams of every phase are prefixes of the Basement's, on the peer sets a
\* patron belongs to.
LEMMA BasementPrefix ==
  ASSUME Inv, NEW ps \in PeerSets, NEW p \in ps
  PROVE  \A n \in 1 .. Len(declared[p][ps]) :
           declared[p][ps][n] = BasementStreams[ps][n]
<1>0. p \in Dataowners \/ p = Dealer
  BY DEF PeerSets, Parties, Pairs, DealtPairs, Pair, DealtPair, Cross
<1>1. BasementStreams = Declare(DivideStream, "ZipAdjacent", AllDealtPairs)
  BY DEF BasementStreams, DivideStream, ModConvUpStream
<1>2. /\ Below(NoStream, ModConvUpStream, ps)
      /\ Below(ModConvUpStream, DivideStream, ps)
      /\ Below(DivideStream, BasementStreams, ps)
  <2>1. Below(NoStream, ModConvUpStream, ps)
    BY KindsLemma, StreamsType, BelowDeclare DEF ModConvUpStream
  <2>2. Below(ModConvUpStream, DivideStream, ps)
    BY KindsLemma, StreamsType, BelowDeclare DEF DivideStream
  <2>3. Below(DivideStream, BasementStreams, ps)
    BY <1>1, KindsLemma, StreamsType, BelowDeclare
  <2> QED
    BY <2>1, <2>2, <2>3
<1>3. Below(ModConvUpStream, BasementStreams, ps)
  BY <1>2, StreamsType, BelowOrder
<1>4. Below(NoStream, BasementStreams, ps)
  BY <1>2, <1>3, StreamsType, BelowOrder
<1>5. Below(BasementStreams, BasementStreams, ps)
  BY StreamsType, BelowOrder
<1>6. CASE p \in Dataowners
  <2>1. ZipAdjacentStream(p)[ps] = BasementStreams[ps]
    BY <1>1, <1>6, PairOfParty DEF ZipAdjacentStream, Declare
  <2>2. declared[p] \in {NoStream, ModConvUpStream, DivideStream, ZipAdjacentStream(p)}
    BY <1>6 DEF Inv, PatronPhase, Waiting, FetchingModConvUp, FetchingDivide,
                FetchingZips, HandedOver
  <2> QED
    BY <1>2, <1>3, <1>4, <1>5, <2>1, <2>2 DEF Below
<1>7. CASE p = Dealer
  <2>1. declared[p] \in {NoStream, BasementStreams}
    BY <1>7 DEF Inv, BasementInv
  <2> QED
    BY <1>4, <1>5, <2>1 DEF Below
<1> QED
  BY <1>0, <1>6, <1>7

\* No two parties disagree on what the n-th randomness child of a peer set is.
THEOREM MatchedHolds == Spec => []Matched
<1>1. Inv => Matched
  <2> SUFFICES ASSUME Inv, NEW ps \in PeerSets, NEW p \in ps, NEW q \in ps,
                      NEW n \in (1 .. Len(declared[p][ps]))
                                  \cap (1 .. Len(declared[q][ps]))
               PROVE  declared[p][ps][n] = declared[q][ps][n]
    BY DEF Matched
  <2> QED
    BY BasementPrefix
<1> QED
  BY <1>1, InvHolds, PTL

-----------------------------------------------------------------------------
(* The contract *)

\* The parties that have started, and that have finished, as Contract sees them.
Started == {p \in Dataowners : state[p] # "idle"}
             \cup {p \in {Dealer} : basementState # "idle"}
Finished == {p \in Dataowners : state[p] = "complete"}
              \cup {p \in {Dealer} : basementState = "complete"}

\* A child that a house of the dealer has answered belongs to a Basement that has
\* started.
LEMMA DealerHasStarted ==
  ASSUME Inv, NEW p \in Dataowners, NEW c \in open[p], Met(p, c, {Dealer})
  PROVE  basementState # "idle"
<1>1. c.peers \in PeerSets
  <2>1. open[p] \subseteq {Child("ModConvUp", Parties), Child("Divide", Parties)}
                            \cup Children("ZipAdjacent", DealtPairs(p))
    <3>1. \A T \in SUBSET Cross(p) :
            DealtZips(p, T) \subseteq Children("ZipAdjacent", DealtPairs(p))
      BY DEF DealtZips, Children, DealtPairs
    <3>2. Cross(p) \ zipAdjacentDispensers[p] \in SUBSET Cross(p)
      OBVIOUS
    <3> QED
      BY <3>1, <3>2 DEF Inv, PatronPhase, Waiting, FetchingModConvUp, FetchingDivide,
                        FetchingZips, HandedOver
  <2> QED
    BY <2>1, PeerSetLemma DEF Child, Children
<1>2. PICK n \in 1 .. Len(declared[p][c.peers]) : Len(declared[Dealer][c.peers]) >= n
  BY DEF Met
<1>3. Len(NoStream[c.peers]) = 0
  BY <1>1 DEF NoStream
<1>4. n >= 1 /\ n \in Int
  BY <1>2
<1> QED
  BY <1>2, <1>3, <1>4 DEF Inv, BasementInv

\* Every step is one of the contract, or none.
LEMMA ContractStep ==
  ASSUME Inv, [Next]_vars
  PROVE  \/ \E p \in Parties : /\ p \notin Started
                               /\ Started' = Started \cup {p} /\ Finished' = Finished
         \/ \E p \in Parties : /\ p \in Started \ Finished
                               /\ p # Dealer => Dealer \in Started
                               /\ Finished' = Finished \cup {p} /\ Started' = Started
         \/ Started' = Started /\ Finished' = Finished
<1>0. /\ Dealer \in Parties /\ Dataowners \subseteq Parties
      /\ \A p \in Dataowners : p # Dealer
      /\ Shape /\ basementState \in RunState
  BY PartiesAssumption DEF Parties, Inv, Shape
<1>1. ASSUME NEW p \in Dataowners, PatronInit(p)
      PROVE  /\ p \notin Started
             /\ Started' = Started \cup {p} /\ Finished' = Finished
  <2>1. /\ state[p] = "idle" /\ basementState' = basementState
        /\ \A q \in Dataowners :
             state'[q] = IF q = p THEN "awaitingModConvUp" ELSE state[q]
    BY <1>0, <1>1 DEF PatronInit, Shape, basement
  <2> QED
    BY <1>0, <2>1 DEF Started, Finished
<1>2. ASSUME NEW p \in Dataowners, NEW c \in open[p], PatronHandleComplete(p, c)
      PROVE  \/ /\ p \in Started \ Finished
                /\ Dealer \in Started
                /\ Finished' = Finished \cup {p} /\ Started' = Started
             \/ Started' = Started /\ Finished' = Finished
  <2>1. basementState # "idle" /\ basementState' = basementState
    BY <1>2, DealerHasStarted DEF PatronHandleComplete, basement
  <2>2. state[p] # "idle" /\ state[p] # "complete"
    BY <1>2 DEF PatronHandleComplete, ModConvUpDealt, DivideDealt, ZipAdjacentDealt
  <2>3. \E s \in PatronState \ {"idle"} :
          \A q \in Dataowners : state'[q] = IF q = p THEN s ELSE state[q]
    <3>1. CASE ModConvUpDealt(p, c)
      BY <1>0, <3>1 DEF ModConvUpDealt, Shape, PatronState
    <3>2. CASE DivideDealt(p, c)
      BY <1>0, <3>2 DEF DivideDealt, Shape, PatronState
    <3>3. CASE ZipAdjacentDealt(p, c)
      BY <1>0, <2>2, <3>3 DEF ZipAdjacentDealt, GenerateOutputDispenser, Shape, PatronState
    <3> QED
      BY <1>2, <3>1, <3>2, <3>3 DEF PatronHandleComplete
  <2>4. PICK s \in PatronState \ {"idle"} :
          \A q \in Dataowners : state'[q] = IF q = p THEN s ELSE state[q]
    BY <2>3
  <2>5. Started' = Started
    BY <2>1, <2>2, <2>4 DEF Started
  <2>6. CASE s = "complete"
    BY <1>0, <2>1, <2>2, <2>4, <2>5, <2>6 DEF Started, Finished
  <2>7. CASE s # "complete"
    BY <1>0, <2>1, <2>2, <2>4, <2>5, <2>7 DEF Finished
  <2> QED
    BY <2>6, <2>7
<1>3. CASE BasementInit
  <2>1. basementState = "idle" /\ basementState' = "running" /\ state' = state
    BY <1>3 DEF BasementInit, patron
  <2> QED
    BY <1>0, <2>1 DEF Started, Finished
<1>4. ASSUME NEW c \in open[Dealer], BasementHandleComplete(c)
      PROVE  \/ /\ Dealer \in Started \ Finished
                /\ Finished' = Finished \cup {Dealer} /\ Started' = Started
             \/ Started' = Started /\ Finished' = Finished
  <2>1. /\ basementState = "running" /\ basementState' \in {"running", "complete"}
        /\ state' = state
    BY <1>0, <1>4 DEF BasementHandleComplete, Inv, BasementInv, RunState, patron
  <2> QED
    BY <1>0, <2>1 DEF Started, Finished
<1>5. CASE UNCHANGED vars
  BY <1>5 DEF vars, patron, basement, Started, Finished
<1> QED
  BY <1>0, <1>1, <1>2, <1>3, <1>4, <1>5 DEF Next, Terminated

\* Patrons and dealer together implement the contract a parent relies on: each
\* starts once and finishes at most once, a patron never before the dealer has
\* started (handleComplete of patrons and Basement).
THEOREM KeepsContract == Spec => Contract!ContractSpec
<1>1. Init => Contract!ContractInit
  BY DEF Init, Contract!ContractInit
<1>2. Inv /\ [Next]_vars => [Contract!ContractNext]_<<Started, Finished>>
  BY ContractStep DEF Contract!ContractNext, Contract!Start, Contract!Finish, Started, Finished
<1> QED
  BY <1>1, <1>2, InvHolds, PTL DEF Spec, Contract!ContractSpec, Started, Finished
=============================================================================
