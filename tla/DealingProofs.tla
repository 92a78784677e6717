---------------------------- MODULE DealingProofs ----------------------------
(***************************************************************************)
(* What Dealing promises, for any number of dataowners and verticals and   *)
(* any lists of steps and houses that agree: the steps of the patrons and  *)
(* the count of the dealer are inductive (Inv), a patron hands over a full *)
(* set of dispensers, the streams of patrons and dealer match, and they    *)
(* keep the contract a parent relies on (ChildContract).  The lists of a   *)
(* regression and of any number of lookups do agree.                       *)
(***************************************************************************)
EXTENDS AllRandomness, FronctocolLemmas

MP == INSTANCE MomentsRandomnessProofs

-----------------------------------------------------------------------------
(* Lists that agree *)

\* The dealer's init invokes the houses of the patron's steps in the order of the
\* patron's switch, and its literal is the number of those for all parties.
Agree(l) ==
  /\ l.house = [k \in DOMAIN l.patron |-> HouseOf(l.patron[k])]
  /\ l.whole = Cardinality({k \in DOMAIN l.house : ~l.house[k].paired})
  /\ l.whole > 0

-----------------------------------------------------------------------------
(* Places in a stream *)

\* The peer sets of a step are the same at a patron, as far as it belongs to them,
\* and at the dealer.
LEMMA PeersAgree ==
  ASSUME NEW p \in Dataowners, NEW step, NEW ps, p \in ps
  PROVE  ps \in PeersOf(p, step) <=> ps \in HousePeers(step)
<1>1. ps \in DealtPairs(p) <=> ps \in AllDealtPairs
  BY PairOfParty
<1> QED
  BY <1>1 DEF PeersOf, HousePeers

\* The peer sets of a step are peer sets of the query, and the patron's are its own.
LEMMA PeersAreSets ==
  ASSUME NEW p \in Dataowners, NEW step
  PROVE  /\ PeersOf(p, step) \subseteq PeerSets /\ HousePeers(step) \subseteq PeerSets
         /\ \A ps \in PeersOf(p, step) : p \in ps
         /\ IsFiniteSet(PeersOf(p, step)) /\ PeersOf(p, step) # {}
         /\ step.paired => Cardinality(PeersOf(p, step)) = Cardinality(Cross(p))
<1>1. /\ Parties \in PeerSets /\ DealtPairs(p) \subseteq PeerSets
      /\ AllDealtPairs \subseteq PeerSets
  BY PeerSetLemma
<1>2. p \in Parties /\ \A ps \in DealtPairs(p) : p \in ps
  BY DEF Parties, DealtPairs, DealtPair
<1>3. IsFiniteSet({Parties}) /\ IsFiniteSet(DealtPairs(p))
  <2>1. DealtPairs(p) \subseteq AllDealtPairs
    BY DEF AllDealtPairs
  <2> QED
    BY <2>1, DealtPairsFinite, FS_Subset, FS_Singleton
<1>4. DealtPairs(p) # {} /\ Cardinality(DealtPairs(p)) = Cardinality(Cross(p))
  <2>1. IsFiniteSet(Cross(p)) /\ Cross(p) # {}
    BY CrossLemma
  <2> DEFINE f == [q \in Cross(p) |-> DealtPair(p, q)]
  <2>2. f \in Bijection(Cross(p), DealtPairs(p))
    <3>1. ASSUME NEW q \in Cross(p), NEW r \in Cross(p), DealtPair(p, q) = DealtPair(p, r)
          PROVE  q = r
      <4>1. q # p /\ q # Dealer /\ r # p /\ r # Dealer
        BY CrossLemma
      <4> QED
        BY <3>1, <4>1 DEF DealtPair
    <3> QED
      BY <3>1 DEF Bijection, Injection, Surjection, DealtPairs, IsInjective
  <2> QED
    BY <2>1, <2>2, FS_Bijection DEF ExistsBijection, DealtPairs
<1> QED
  BY <1>1, <1>2, <1>3, <1>4 DEF PeersOf, HousePeers

\* How many of the first k invocations are for ps: one more for each that is.
LEMMA PlaceLemma ==
  ASSUME NEW steps, NEW ps, NEW k \in Nat
  PROVE  /\ Place(steps, k, ps) \in Nat
         /\ Place(steps, 0, ps) = 0
         /\ ps \in HousePeers(steps[k + 1]) =>
              Place(steps, k + 1, ps) = Place(steps, k, ps) + 1
         /\ ps \notin HousePeers(steps[k + 1]) =>
              Place(steps, k + 1, ps) = Place(steps, k, ps)
         /\ \A j \in 0 .. k : Place(steps, j, ps) <= Place(steps, k, ps)
<1> DEFINE S(n) == {i \in 1 .. n : ps \in HousePeers(steps[i])}
<1>0. \A n \in Nat : IsFiniteSet(S(n)) /\ Cardinality(S(n)) \in Nat
  <2> SUFFICES ASSUME NEW n \in Nat
               PROVE  IsFiniteSet(S(n)) /\ Cardinality(S(n)) \in Nat
    OBVIOUS
  <2>1. IsFiniteSet(1 .. n)
    BY FS_Interval
  <2>2. S(n) \subseteq 1 .. n
    OBVIOUS
  <2> HIDE DEF S
  <2> QED
    BY <2>1, <2>2, FS_Subset, FS_CardinalityType
<1>1. \A n : Place(steps, n, ps) = Cardinality(S(n))
  BY DEF Place
<1>2. S(0) = {}
  OBVIOUS
<1>3. k + 1 \notin S(k)
  OBVIOUS
<1>4. ps \in HousePeers(steps[k + 1]) => S(k + 1) = S(k) \cup {k + 1}
  OBVIOUS
<1>5. ps \notin HousePeers(steps[k + 1]) => S(k + 1) = S(k)
  <2>1. \A i \in 1 .. k + 1 : i # k + 1 => i \in 1 .. k
    OBVIOUS
  <2>2. \A i \in 1 .. k : i \in 1 .. k + 1
    OBVIOUS
  <2> QED
    BY <2>1, <2>2
<1>6. \A j \in 0 .. k : S(j) \subseteq S(k)
  OBVIOUS
<1> HIDE DEF S
<1>7. Cardinality(S(k) \cup {k + 1}) = Cardinality(S(k)) + 1
  BY <1>0, <1>3, FS_AddElement
<1>8. ASSUME NEW j \in 0 .. k PROVE Cardinality(S(j)) <= Cardinality(S(k))
  BY <1>0, <1>6, FS_Subset
<1>9. Cardinality(S(0)) = 0
  BY <1>2, FS_EmptySet
<1> QED
  BY <1>0, <1>1, <1>4, <1>5, <1>7, <1>8, <1>9

\* Two invocations for one peer set have different places.
LEMMA PlacesDiffer ==
  ASSUME NEW steps, NEW ps, NEW j \in Nat \ {0}, NEW k \in Nat \ {0},
         ps \in HousePeers(steps[j]), ps \in HousePeers(steps[k]),
         Place(steps, j, ps) = Place(steps, k, ps)
  PROVE  j = k
<1>1. ASSUME NEW a \in Nat \ {0}, NEW b \in Nat \ {0}, a < b, ps \in HousePeers(steps[b])
      PROVE  Place(steps, a, ps) < Place(steps, b, ps)
  <2>1. b - 1 \in Nat /\ (b - 1) + 1 = b /\ a \in 0 .. b - 1
    BY <1>1
  <2>2. Place(steps, b, ps) = Place(steps, b - 1, ps) + 1
    BY <1>1, <2>1, PlaceLemma
  <2>3. Place(steps, a, ps) <= Place(steps, b - 1, ps)
    BY <2>1, PlaceLemma
  <2>4. Place(steps, a, ps) \in Nat /\ Place(steps, b - 1, ps) \in Nat
    BY <2>1, PlaceLemma
  <2> QED
    BY <2>2, <2>3, <2>4
<1>2. Place(steps, j, ps) \in Nat /\ Place(steps, k, ps) \in Nat
  BY PlaceLemma
<1> QED
  BY <1>1, <1>2

\* The kind at the place of a step is the kind of that step.
LEMMA KindAtLemma ==
  ASSUME NEW steps, NEW ps, NEW k \in DOMAIN steps, DOMAIN steps \subseteq Nat \ {0},
         ps \in HousePeers(steps[k])
  PROVE  KindAt(steps, ps, Place(steps, k, ps)) = steps[k].kind
<1> DEFINE P(i) == ps \in HousePeers(steps[i]) /\ Place(steps, i, ps) = Place(steps, k, ps)
           c == CHOOSE i \in DOMAIN steps : P(i)
<1>1. c \in DOMAIN steps /\ P(c)
  <2>1. \E i \in DOMAIN steps : P(i)
    OBVIOUS
  <2> QED
    BY <2>1
<1>2. c = k
  BY <1>1, PlacesDiffer
<1> QED
  BY <1>2 DEF KindAt

\* Invoking step k + 1 takes the streams of the first k to those of the first k + 1.
LEMMA StreamsGrow ==
  ASSUME NEW steps, NEW k \in Nat, NEW ps \in PeerSets,
         DOMAIN steps \subseteq Nat \ {0}, k + 1 \in DOMAIN steps
  PROVE  /\ Len(StreamsAfter(steps, k)[ps]) = Place(steps, k, ps)
         /\ ps \in HousePeers(steps[k + 1]) =>
              StreamsAfter(steps, k + 1)[ps]
                = Append(StreamsAfter(steps, k)[ps], steps[k + 1].kind)
         /\ ps \notin HousePeers(steps[k + 1]) =>
              StreamsAfter(steps, k + 1)[ps] = StreamsAfter(steps, k)[ps]
<1> DEFINE N == Place(steps, k, ps)
           e(n) == KindAt(steps, ps, n)
<1>1. N \in Nat
  BY PlaceLemma
<1>2. /\ StreamsAfter(steps, k)[ps] = [n \in 1 .. N |-> e(n)]
      /\ StreamsAfter(steps, k + 1)[ps] = [n \in 1 .. Place(steps, k + 1, ps) |-> e(n)]
  BY DEF StreamsAfter
<1>3. ps \notin HousePeers(steps[k + 1]) => Place(steps, k + 1, ps) = N
  BY PlaceLemma
<1>4. ps \in HousePeers(steps[k + 1]) => Place(steps, k + 1, ps) = N + 1
  BY PlaceLemma
<1>5. ps \in HousePeers(steps[k + 1]) => e(N + 1) = steps[k + 1].kind
  BY <1>4, KindAtLemma
<1> HIDE DEF N, e
<1>6. [n \in 1 .. N |-> e(n)] \in Seq({e(n) : n \in Nat})
  BY <1>1
<1>7. Len([n \in 1 .. N |-> e(n)]) = N
  BY <1>1
<1>8. Append([n \in 1 .. N |-> e(n)], e(N + 1)) = [n \in 1 .. N + 1 |-> e(n)]
  BY <1>1, <1>6, <1>7
<1> QED
  BY <1>2, <1>3, <1>4, <1>5, <1>7, <1>8 DEF N

-----------------------------------------------------------------------------
(* The steps of a patron *)

\* The lists are sequences of steps, and an invocation is a step without its amount.
LEMMA ListsLemma ==
  ASSUME lists \in Lists
  PROVE  /\ Len(PatronSteps) \in Nat \ {0} /\ DOMAIN PatronSteps = 1 .. Len(PatronSteps)
         /\ \A k \in 1 .. Len(PatronSteps) :
              /\ PatronSteps[k].paired \in BOOLEAN /\ PatronSteps[k].needed \in Nat
              /\ HousePeers(Invocations[k]) = HousePeers(PatronSteps[k])
              /\ Invocations[k].kind = PatronSteps[k].kind
              /\ PatronSteps[k].needed * DispenserSize \in Int
         /\ DOMAIN Invocations = 1 .. Len(PatronSteps)
         /\ DispenserSize \in Nat
<1>1. /\ PatronSteps \in Seq([kind : STRING, paired : BOOLEAN, needed : Nat])
      /\ PatronSteps # << >> /\ DispenserSize \in Nat
  BY ListsAssumption DEF PatronSteps, DispenserSize
<1>2. Len(PatronSteps) \in Nat \ {0} /\ DOMAIN PatronSteps = 1 .. Len(PatronSteps)
  BY <1>1
<1>3. DOMAIN Invocations = 1 .. Len(PatronSteps)
  BY <1>2 DEF Invocations
<1>4. ASSUME NEW k \in 1 .. Len(PatronSteps)
      PROVE  /\ PatronSteps[k].paired \in BOOLEAN /\ PatronSteps[k].needed \in Nat
             /\ HousePeers(Invocations[k]) = HousePeers(PatronSteps[k])
             /\ Invocations[k].kind = PatronSteps[k].kind
             /\ PatronSteps[k].needed * DispenserSize \in Int
  <2> DEFINE R == [kind : STRING, paired : BOOLEAN, needed : Nat]
  <2>1. PatronSteps[k] \in R
    <3>1. PatronSteps \in Seq(R)
      BY <1>1
    <3> HIDE DEF R
    <3> QED
      BY <3>1
  <2>2. PatronSteps[k].paired \in BOOLEAN /\ PatronSteps[k].needed \in Nat
    BY <2>1
  <2>3. Invocations[k] = HouseOf(PatronSteps[k])
    BY <1>2 DEF Invocations
  <2>4. PatronSteps[k].needed * DispenserSize \in Int
    BY <1>1, <2>2
  <2> QED
    BY <2>2, <2>3, <2>4 DEF HouseOf, House, HousePeers
<1> QED
  BY <1>1, <1>2, <1>3, <1>4

\* Before its first step a patron has declared nothing.
LEMMA StreamsStart ==
  ASSUME NEW p \in Dataowners
  PROVE  StreamsOf(p, 0) = NoStream
<1>1. ASSUME NEW ps \in PeerSets PROVE StreamsAfter(Invocations, 0)[ps] = << >>
  <2>1. Place(Invocations, 0, ps) = 0
    BY PlaceLemma
  <2>2. StreamsAfter(Invocations, 0)[ps] = [n \in 1 .. 0 |-> KindAt(Invocations, ps, n)]
    BY <2>1 DEF StreamsAfter
  <2> QED
    BY <2>2
<1> QED
  BY <1>1 DEF StreamsOf, NoStream

\* Invoking the children of step k + 1 puts each in its place.
LEMMA StreamsEnter ==
  ASSUME lists \in Lists, NEW p \in Dataowners, NEW k \in 0 .. Len(PatronSteps) - 1
  PROVE  LET step == PatronSteps[k + 1] IN
         /\ Declare(StreamsOf(p, k), step.kind, PeersOf(p, step)) = StreamsOf(p, k + 1)
         /\ \A ps \in PeersOf(p, step) :
              Len(StreamsOf(p, k)[ps]) + 1 = Place(Invocations, k + 1, ps)
<1> DEFINE step == PatronSteps[k + 1]
<1>1. /\ k \in Nat /\ k + 1 \in 1 .. Len(PatronSteps) /\ k + 1 \in DOMAIN Invocations
      /\ DOMAIN Invocations \subseteq Nat \ {0}
      /\ HousePeers(Invocations[k + 1]) = HousePeers(step)
      /\ Invocations[k + 1].kind = step.kind
  BY ListsLemma
<1> HIDE DEF step
<1>2. ASSUME NEW ps \in PeerSets, p \in ps
      PROVE  /\ Len(StreamsOf(p, k)[ps]) = Place(Invocations, k, ps)
             /\ ps \in PeersOf(p, step) =>
                  StreamsOf(p, k + 1)[ps] = Append(StreamsOf(p, k)[ps], step.kind)
             /\ ps \notin PeersOf(p, step) => StreamsOf(p, k + 1)[ps] = StreamsOf(p, k)[ps]
  <2>1. ps \in PeersOf(p, step) <=> ps \in HousePeers(Invocations[k + 1])
    BY <1>1, <1>2, PeersAgree
  <2>2. /\ StreamsOf(p, k)[ps] = StreamsAfter(Invocations, k)[ps]
        /\ StreamsOf(p, k + 1)[ps] = StreamsAfter(Invocations, k + 1)[ps]
    BY <1>2 DEF StreamsOf
  <2> QED
    BY <1>1, <2>1, <2>2, StreamsGrow
<1>3. ASSUME NEW ps \in PeerSets, p \notin ps
      PROVE  /\ ps \notin PeersOf(p, step)
             /\ StreamsOf(p, k + 1)[ps] = StreamsOf(p, k)[ps]
  BY <1>3, PeersAreSets DEF StreamsOf
<1>4. Declare(StreamsOf(p, k), step.kind, PeersOf(p, step)) = StreamsOf(p, k + 1)
  <2>1. \A ps \in PeerSets :
          StreamsOf(p, k + 1)[ps] = IF ps \in PeersOf(p, step)
                                      THEN Append(StreamsOf(p, k)[ps], step.kind)
                                      ELSE StreamsOf(p, k)[ps]
    BY <1>2, <1>3
  <2>2. StreamsOf(p, k + 1) = [ps \in PeerSets |-> StreamsOf(p, k + 1)[ps]]
    BY DEF StreamsOf
  <2> QED
    BY <2>1, <2>2 DEF Declare
<1>5. ASSUME NEW ps \in PeersOf(p, step)
      PROVE  Len(StreamsOf(p, k)[ps]) + 1 = Place(Invocations, k + 1, ps)
  <2>1. ps \in PeerSets /\ p \in ps
    BY PeersAreSets
  <2>2. ps \in HousePeers(Invocations[k + 1])
    BY <1>1, <2>1, PeersAgree
  <2>3. Place(Invocations, k + 1, ps) = Place(Invocations, k, ps) + 1
    BY <1>1, <2>2, PlaceLemma
  <2> QED
    BY <1>2, <2>1, <2>3
<1> QED
  BY <1>4, <1>5 DEF step

\* Entering step k + 1 with the slots of the first k filled.
LEMMA EnterStep ==
  ASSUME Shape, Shape', lists' = lists, NEW p \in Dataowners,
         NEW k \in 0 .. Len(PatronSteps) - 1, NEW done,
         declared[p] = StreamsOf(p, k), open[p] \subseteq done, Enter(p, k + 1, done),
         Filled(dispensers'[p]) = SlotsUpTo(p, k),
         \A d \in dispensers'[p] : d.size = PatronSteps[d.step].needed * DispenserSize
  PROVE  Fetching(p)'
<1> DEFINE step == PatronSteps[k + 1]
           Pl(ps) == PlacedChild(step.kind, ps, Place(Invocations, k + 1, ps))
<1>0. p \in Parties /\ Shape /\ lists \in Lists
  BY DEF Parties, Shape
<1>1. /\ k + 1 \in 1 .. Len(PatronSteps) /\ (k + 1) - 1 = k
      /\ Len(PatronSteps) \in Nat
  BY <1>0, ListsLemma
<1>2. state'[p] = k + 1
  BY <1>0 DEF Enter, Shape
<1>3. declared'[p] = StreamsOf(p, k + 1)
  BY <1>0, StreamsEnter DEF Enter, Shape
<1>4. open'[p] = {Pl(ps) : ps \in PeersOf(p, step)}
  <2>1. \A ps \in PeersOf(p, step) :
          Len(declared[p][ps]) + 1 = Place(Invocations, k + 1, ps)
    BY <1>0, StreamsEnter
  <2>2. open'[p] = {PlacedChild(step.kind, ps, Len(declared[p][ps]) + 1) :
                      ps \in PeersOf(p, step)}
    BY <1>0 DEF Enter, Shape
  <2> QED
    BY <2>1, <2>2
<1>5. Missing(p)' = PeersOf(p, step)
  <2>1. Missing(p)' = {c.peers : c \in open'[p]}
    BY DEF Missing
  <2>2. \A ps : Pl(ps).peers = ps
    BY DEF PlacedChild
  <2>3. \A ps \in PeersOf(p, step) : Pl(ps) \in open'[p]
    BY <1>4
  <2>4. \A c \in open'[p] : \E ps \in PeersOf(p, step) : c = Pl(ps)
    BY <1>4
  <2> HIDE DEF Pl, step
  <2>5. \A ps \in PeersOf(p, step) : ps \in Missing(p)'
    BY <2>1, <2>2, <2>3
  <2>6. \A x \in Missing(p)' : x \in PeersOf(p, step)
    BY <2>1, <2>2, <2>4
  <2> QED
    BY <2>5, <2>6
<1>6. PeersOf(p, step) # {}
  BY PeersAreSets
<1>7. step.paired => numPartiesAwaiting'[p] = Cardinality(PeersOf(p, step))
  BY <1>0, PeersAreSets DEF Enter, Shape
<1>8. /\ PatronSteps' = PatronSteps /\ DispenserSize' = DispenserSize
      /\ Invocations' = Invocations
  BY DEF PatronSteps, DispenserSize, Invocations
<1>9. /\ \A x : StreamsOf(p, x)' = StreamsOf(p, x)
      /\ \A x : SlotsUpTo(p, x)' = SlotsUpTo(p, x)
  BY <1>8 DEF StreamsOf, SlotsUpTo
<1>10. {<<k + 1, ps>> : ps \in PeersOf(p, step) \ PeersOf(p, step)} = {}
  OBVIOUS
<1>11. Filled(dispensers[p])' = Filled(dispensers'[p])
  BY DEF Filled
<1> QED
  BY <1>1, <1>2, <1>3, <1>4, <1>5, <1>6, <1>7, <1>8, <1>9, <1>10, <1>11 DEF Fetching

\* The slots of the first k steps are those of the first k - 1 and the k-th's own.
LEMMA SlotsNext ==
  ASSUME NEW p \in Dataowners, NEW k \in Nat \ {0}
  PROVE  /\ SlotsUpTo(p, k) =
              SlotsUpTo(p, k - 1) \cup {<<k, ps>> : ps \in PeersOf(p, PatronSteps[k])}
         /\ SlotsUpTo(p, 0) = {}
<1> DEFINE S(i) == {<<i, ps>> : ps \in PeersOf(p, PatronSteps[i])}
<1>1. \A n : SlotsUpTo(p, n) = UNION {S(i) : i \in 1 .. n}
  BY DEF SlotsUpTo
<1>2. \A i : i \in 1 .. k <=> i \in 1 .. k - 1 \/ i = k
  OBVIOUS
<1>3. 1 .. 0 = {}
  OBVIOUS
<1> HIDE DEF S
<1>4. UNION {S(i) : i \in 1 .. k} = (UNION {S(i) : i \in 1 .. k - 1}) \cup S(k)
  BY <1>2
<1>5. UNION {S(i) : i \in 1 .. 0} = {}
  BY <1>3
<1> QED
  BY <1>1, <1>4, <1>5 DEF S

\* A child that completes is that of one missing peer set, and it is the last exactly
\* when the counter, or the step that has none, says so.
LEMMA CompletingChild ==
  ASSUME Shape, NEW p \in Dataowners, Fetching(p), NEW c \in open[p]
  PROVE  LET k == state[p]
             step == PatronSteps[k]
             Rest == Missing(p) \ {c.peers}
         IN
         /\ c.peers \in Missing(p)
         /\ c = PlacedChild(step.kind, c.peers, Place(Invocations, k, c.peers))
         /\ open[p] \ {c} =
              {PlacedChild(step.kind, ps, Place(Invocations, k, ps)) : ps \in Rest}
         /\ Rest = {} => open[p] \ {c} = {}
         /\ {x.peers : x \in open[p] \ {c}} = Rest
         /\ ~step.paired \/ numPartiesAwaiting[p] - 1 = 0 <=> Rest = {}
         /\ step.paired => /\ numPartiesAwaiting[p] \in Int
                           /\ numPartiesAwaiting[p] - 1 = Cardinality(Rest)
<1> DEFINE k == state[p]
           step == PatronSteps[k]
           Rest == Missing(p) \ {c.peers}
           Pl(ps) == PlacedChild(step.kind, ps, Place(Invocations, k, ps))
<1>1. /\ open[p] = {Pl(ps) : ps \in Missing(p)}
      /\ Missing(p) \subseteq PeersOf(p, step) /\ Missing(p) # {}
      /\ step.paired => numPartiesAwaiting[p] = Cardinality(Missing(p))
      /\ k \in 1 .. Len(PatronSteps)
  BY DEF Fetching
<1>2. \A ps : Pl(ps).peers = ps
  BY DEF PlacedChild
<1>3. step.paired \in BOOLEAN
  BY <1>1, ListsLemma DEF Shape
<1>4. /\ PeersOf(p, step) = {Parties} \/ step.paired
      /\ IsFiniteSet(PeersOf(p, step))
  BY <1>3, PeersAreSets DEF PeersOf
<1> HIDE DEF Pl, step, k
<1>5. c.peers \in Missing(p) /\ c = Pl(c.peers)
  BY <1>1, <1>2
<1>6. open[p] \ {c} = {Pl(ps) : ps \in Rest}
  <2>1. \A ps \in Missing(p) : Pl(ps) = c <=> ps = c.peers
    BY <1>2, <1>5
  <2> QED
    BY <1>1, <2>1
<1>7. Rest = {} => open[p] \ {c} = {}
  BY <1>6
<1>8. {x.peers : x \in open[p] \ {c}} = Rest
  <2>1. \A ps \in Rest : Pl(ps) \in open[p] \ {c} /\ Pl(ps).peers = ps
    BY <1>2, <1>6
  <2>2. \A x \in open[p] \ {c} : x.peers \in Rest
    BY <1>2, <1>6
  <2> HIDE DEF Rest
  <2> QED
    BY <2>1, <2>2
<1>9. IsFiniteSet(Missing(p))
  BY <1>1, <1>4, FS_Subset
<1>10. /\ Cardinality(Missing(p)) \in Nat
       /\ Cardinality(Rest) = Cardinality(Missing(p)) - 1
       /\ Cardinality(Missing(p)) - 1 = 0 <=> Missing(p) = {c.peers}
  BY <1>5, <1>9, CountDownLemma
<1>11. Missing(p) = {c.peers} <=> Rest = {}
  BY <1>5
<1>12. ~step.paired => Rest = {}
  BY <1>1, <1>4, <1>5
<1>13. ~step.paired \/ numPartiesAwaiting[p] - 1 = 0 <=> Rest = {}
  <2>1. CASE step.paired
    BY <1>1, <1>10, <1>11, <2>1
  <2>2. CASE ~step.paired
    BY <1>12, <2>2
  <2> QED
    BY <1>3, <2>1, <2>2
<1>14. step.paired => /\ numPartiesAwaiting[p] \in Int
                      /\ numPartiesAwaiting[p] - 1 = Cardinality(Rest)
  BY <1>1, <1>10
<1> QED
  BY <1>5, <1>6, <1>7, <1>8, <1>13, <1>14 DEF Pl, step, k

\* The dispenser of a completed child fills exactly its slot, with what was asked for.
LEMMA FetchedLemma ==
  ASSUME Shape, NEW p \in Dataowners, Fetching(p), NEW c \in open[p]
  PROVE  LET k == state[p]
             step == PatronSteps[k]
             Rest == Missing(p) \ {c.peers}
             held == dispensers[p] \cup {Fetched(p, c)}
         IN
         /\ held \subseteq DispenserType
         /\ Filled(held) = SlotsUpTo(p, k - 1)
                             \cup {<<k, ps>> : ps \in PeersOf(p, step) \ Rest}
         /\ \A d \in held : d.size = PatronSteps[d.step].needed * DispenserSize
         /\ Rest = {} => Filled(held) = SlotsUpTo(p, k)
<1> DEFINE k == state[p]
           step == PatronSteps[k]
           Rest == Missing(p) \ {c.peers}
           held == dispensers[p] \cup {Fetched(p, c)}
<1>1. /\ k \in 1 .. Len(PatronSteps) /\ k \in Nat \ {0}
      /\ c.peers \in Missing(p) /\ Missing(p) \subseteq PeersOf(p, step)
      /\ c.peers \in PeerSets /\ PatronSteps[k].needed * DispenserSize \in Int
  <2>1. k \in 1 .. Len(PatronSteps) /\ Missing(p) \subseteq PeersOf(p, step)
    BY DEF Fetching
  <2>2. /\ Len(PatronSteps) \in Nat
        /\ PatronSteps[k].needed * DispenserSize \in Int
    BY <2>1, ListsLemma DEF Shape
  <2>3. c.peers \in Missing(p)
    BY DEF Missing
  <2> QED
    BY <2>1, <2>2, <2>3, PeersAreSets
<1>2. /\ Fetched(p, c).step = k /\ Fetched(p, c).peers = c.peers
      /\ Fetched(p, c).size = PatronSteps[k].needed * DispenserSize
      /\ Fetched(p, c) \in DispenserType
  BY <1>1 DEF Fetched, DispenserType
<1>3. /\ dispensers[p] \subseteq DispenserType
      /\ Filled(dispensers[p]) = SlotsUpTo(p, k - 1)
                             \cup {<<k, ps>> : ps \in PeersOf(p, step) \ Missing(p)}
      /\ \A d \in dispensers[p] : d.size = PatronSteps[d.step].needed * DispenserSize
  BY DEF Fetching, Shape
<1> HIDE DEF step, k
<1>4. Filled(held) = Filled(dispensers[p]) \cup {<<k, c.peers>>}
  BY <1>2 DEF Filled
<1>5. {<<k, ps>> : ps \in PeersOf(p, step) \ Rest} =
        {<<k, ps>> : ps \in PeersOf(p, step) \ Missing(p)} \cup {<<k, c.peers>>}
  <2>1. PeersOf(p, step) \ Rest = (PeersOf(p, step) \ Missing(p)) \cup {c.peers}
    BY <1>1
  <2> QED
    BY <2>1
<1>6. Filled(held) = SlotsUpTo(p, k - 1)
                       \cup {<<k, ps>> : ps \in PeersOf(p, step) \ Rest}
  BY <1>3, <1>4, <1>5
<1>7. Rest = {} => PeersOf(p, step) \ Rest = PeersOf(p, step)
  OBVIOUS
<1>8. SlotsUpTo(p, k) = SlotsUpTo(p, k - 1) \cup {<<k, ps>> : ps \in PeersOf(p, step)}
  BY <1>1, SlotsNext DEF step
<1>9. Rest = {} => Filled(held) = SlotsUpTo(p, k)
  BY <1>6, <1>7, <1>8
<1>10. \A d \in held : d.size = PatronSteps[d.step].needed * DispenserSize
  BY <1>2, <1>3
<1>11. held \subseteq DispenserType
  BY <1>2, <1>3
<1> QED
  BY <1>6, <1>9, <1>10, <1>11 DEF step, k

-----------------------------------------------------------------------------
(* The inductive invariant *)

\* A patron none of whose variables change stays where it is.
LEMMA PatronUnchanged ==
  ASSUME NEW p \in Dataowners, PatronPhase(p), lists' = lists,
         state'[p] = state[p],
         numPartiesAwaiting'[p] = numPartiesAwaiting[p],
         dispensers'[p] = dispensers[p],
         outputs'[p] = outputs[p],
         declared'[p] = declared[p],
         open'[p] = open[p]
  PROVE  PatronPhase(p)'
<1>1. /\ PatronSteps' = PatronSteps /\ DispenserSize' = DispenserSize
      /\ Invocations' = Invocations /\ Done' = Done
  BY DEF PatronSteps, DispenserSize, Invocations, Done
<1>2. /\ \A x : StreamsOf(p, x)' = StreamsOf(p, x)
      /\ \A x : SlotsUpTo(p, x)' = SlotsUpTo(p, x)
      /\ Missing(p)' = Missing(p)
      /\ Filled(dispensers[p])' = Filled(dispensers[p])
      /\ Filled(outputs[p])' = Filled(outputs[p])
  BY <1>1 DEF StreamsOf, SlotsUpTo, Missing, Filled
<1>3. CASE Waiting(p)
  BY <1>3 DEF PatronPhase, Waiting
<1>4. CASE Fetching(p)
  <2>1. Fetching(p)'
    BY <1>1, <1>2, <1>4 DEF Fetching
  <2> QED
    BY <2>1 DEF PatronPhase
<1>5. CASE HandedOver(p)
  <2>1. HandedOver(p)'
    BY <1>1, <1>2, <1>5 DEF HandedOver
  <2> QED
    BY <2>1 DEF PatronPhase
<1> QED
  BY <1>3, <1>4, <1>5 DEF PatronPhase

\* A step of one patron leaves the others and the dealer alone.
LEMMA PatronFrame ==
  ASSUME Inv, lists' = lists, NEW p \in Dataowners, Shape', PatronPhase(p)',
         UNCHANGED basement,
         \A q \in Parties \ {p} : declared'[q] = declared[q] /\ open'[q] = open[q],
         \A q \in Dataowners \ {p} :
           /\ state'[q] = state[q]
           /\ numPartiesAwaiting'[q] = numPartiesAwaiting[q]
           /\ dispensers'[q] = dispensers[q]
           /\ outputs'[q] = outputs[q]
  PROVE  Inv'
<1>1. p # Dealer /\ Dealer \in Parties /\ Dataowners \subseteq Parties
  BY CrossLemma DEF Parties
<1>2. ASSUME NEW q \in Dataowners PROVE PatronPhase(q)'
  <2>1. CASE q = p
    BY <2>1
  <2>2. CASE q # p
    <3>1. PatronPhase(q) /\ q \in Parties \ {p} /\ q \in Dataowners \ {p}
      BY <1>1, <2>2 DEF Inv
    <3> QED
      BY <3>1, PatronUnchanged
  <2> QED
    BY <2>1, <2>2
<1>3. BasementInv'
  <2>1. Dealer \in Parties \ {p}
    BY <1>1
  <2>2. BasementStreams' = BasementStreams
    BY DEF BasementStreams, HouseSteps
  <2> QED
    BY <2>1, <2>2 DEF Inv, BasementInv, basement
<1> QED
  BY <1>2, <1>3 DEF Inv

\* The types of everything but the patron's dispensers survive Enter.
LEMMA EnterShape ==
  ASSUME Shape, lists' = lists, NEW p \in Dataowners, NEW k \in 1 .. Len(PatronSteps),
         NEW done, Enter(p, k, done), UNCHANGED basement,
         dispensers' \in [Dataowners -> SUBSET DispenserType],
         outputs' \in [Dataowners -> SUBSET DispenserType]
  PROVE  Shape'
<1>1. Done \in Nat /\ k \in 0 .. Done
  BY ListsLemma DEF Shape, Done
<1>2. Done' = Done /\ DispenserType' = DispenserType
  BY DEF Done, DispenserType, PatronSteps
<1>3. Cardinality(Cross(p)) \in Int
  BY CrossLemma
<1>4. numPartiesAwaiting' \in [Dataowners -> Int]
  BY <1>3 DEF Enter, Shape
<1>5. state' \in [Dataowners -> 0 .. Done]
  BY <1>1 DEF Enter, Shape
<1> QED
  BY <1>2, <1>4, <1>5 DEF Shape, Enter, basement

\* A patron's init enters its first step.
LEMMA PatronInitStep ==
  ASSUME Inv, lists' = lists, NEW p \in Dataowners, PatronInit(p)
  PROVE  Inv'
<1>0. Shape /\ lists \in Lists /\ p \in Parties
  BY DEF Inv, Shape, Parties
<1>1. /\ Len(PatronSteps) \in Nat \ {0} /\ 1 \in 1 .. Len(PatronSteps)
      /\ 0 \in 0 .. Len(PatronSteps) - 1 /\ 0 + 1 = 1
  BY <1>0, ListsLemma
<1>2. Waiting(p)
  <2>1. state[p] = 0 /\ Len(PatronSteps) + 1 # 0
    BY <1>1 DEF PatronInit
  <2> QED
    BY <1>1, <2>1 DEF Inv, PatronPhase, Fetching, HandedOver, Done
<1>3. Enter(p, 0 + 1, {}) /\ Enter(p, 1, {}) /\ UNCHANGED <<dispensers, outputs, basement>>
  BY <1>1 DEF PatronInit
<1>4. /\ declared[p] = StreamsOf(p, 0) /\ open[p] \subseteq {} /\ dispensers'[p] = {}
  BY <1>2, <1>3, StreamsStart DEF Waiting
<1>5. Filled(dispensers'[p]) = SlotsUpTo(p, 0)
  <2>1. SlotsUpTo(p, 0) = {}
    BY SlotsNext
  <2> QED
    BY <1>4, <2>1 DEF Filled
<1>6. Shape'
  BY <1>0, <1>1, <1>3, EnterShape DEF Shape
<1>7. Fetching(p)'
  BY <1>0, <1>1, <1>3, <1>4, <1>5, <1>6, EnterStep
<1> QED
  BY <1>0, <1>3, <1>6, <1>7, PatronFrame DEF PatronPhase, Enter, Shape

\* Every case of handleComplete: the last dispenser of the last step, the last of
\* another step, and one of several.
LEMMA PatronHandleCompleteStep ==
  ASSUME Inv, lists' = lists, NEW p \in Dataowners, NEW c \in open[p],
         PatronHandleComplete(p, c)
  PROVE  Inv'
<1> DEFINE k == state[p]
           step == PatronSteps[k]
           Rest == Missing(p) \ {c.peers}
           held == dispensers[p] \cup {Fetched(p, c)}
           last == ~step.paired \/ numPartiesAwaiting[p] - 1 = 0
<1>0. Shape /\ lists \in Lists /\ p \in Parties
  BY DEF Inv, Shape, Parties
<1>1. Fetching(p)
  BY DEF Inv, PatronPhase, Waiting, HandedOver
<1>2. /\ Len(PatronSteps) \in Nat \ {0} /\ k \in 1 .. Len(PatronSteps)
      /\ declared[p] = StreamsOf(p, k)
  BY <1>0, <1>1, ListsLemma DEF Fetching
<1>3. /\ c.peers \in Missing(p)
      /\ open[p] \ {c} =
           {PlacedChild(step.kind, ps, Place(Invocations, k, ps)) : ps \in Rest}
      /\ Rest = {} => open[p] \ {c} = {}
      /\ {x.peers : x \in open[p] \ {c}} = Rest
      /\ last <=> Rest = {}
      /\ step.paired => /\ numPartiesAwaiting[p] \in Int
                        /\ numPartiesAwaiting[p] - 1 = Cardinality(Rest)
  BY <1>0, <1>1, CompletingChild
<1>4. /\ held \subseteq DispenserType
      /\ Filled(held) = SlotsUpTo(p, k - 1)
                          \cup {<<k, ps>> : ps \in PeersOf(p, step) \ Rest}
      /\ \A d \in held : d.size = PatronSteps[d.step].needed * DispenserSize
      /\ Rest = {} => Filled(held) = SlotsUpTo(p, k)
  BY <1>0, <1>1, FetchedLemma
<1>5. /\ PatronSteps' = PatronSteps /\ DispenserSize' = DispenserSize
      /\ Invocations' = Invocations /\ Done' = Done /\ DispenserType' = DispenserType
  BY DEF PatronSteps, DispenserSize, Invocations, Done, DispenserType
<1>6. /\ \A x : StreamsOf(p, x)' = StreamsOf(p, x)
      /\ \A x : SlotsUpTo(p, x)' = SlotsUpTo(p, x)
  BY <1>5 DEF StreamsOf, SlotsUpTo
<1>7. CASE last /\ k = Len(PatronSteps)
  <2>1. GenerateOutputDispenser(p, {c}, held) /\ UNCHANGED <<declared, numPartiesAwaiting>>
    BY <1>7 DEF PatronHandleComplete
  <2>2. UNCHANGED basement
    BY DEF PatronHandleComplete
  <2> HIDE DEF held
  <2>3. /\ outputs'[p] = {LittleDispensers(d) : d \in held}
        /\ dispensers' = [dispensers EXCEPT ![p] = {}]
        /\ state'[p] = Done /\ open'[p] = open[p] \ {c}
    BY <1>0, <2>1 DEF GenerateOutputDispenser, Shape
  <2>4. ASSUME NEW d \in held
        PROVE  /\ LittleDispensers(d) \in DispenserType
               /\ LittleDispensers(d).step = d.step /\ LittleDispensers(d).peers = d.peers
               /\ LittleDispensers(d).size = 0
    <3>1. /\ d \in DispenserType /\ d.size = PatronSteps[d.step].needed * DispenserSize
          /\ d.step \in 1 .. Len(PatronSteps) /\ d.size \in Int
      BY <1>4 DEF DispenserType
    <3>2. LittleDispensers(d) = [d EXCEPT !.size = d.size - d.size]
      BY <3>1 DEF LittleDispensers, DispenserType
    <3>3. d.size - d.size = 0
      BY <3>1
    <3> QED
      BY <3>1, <3>2, <3>3 DEF DispenserType
  <2>5. Filled(outputs'[p]) = Filled(held)
    <3>1. \A d \in held : LittleDispensers(d) \in outputs'[p]
      BY <2>3
    <3>2. \A o \in outputs'[p] : \E d \in held : o = LittleDispensers(d)
      BY <2>3
    <3> QED
      BY <2>4, <3>1, <3>2 DEF Filled
  <2>6. /\ outputs'[p] \subseteq DispenserType
        /\ \A d \in outputs'[p] : d.size = 0
    BY <2>3, <2>4
  <2>7. HandedOver(p)'
    <3>1. Filled(outputs'[p]) = SlotsUpTo(p, Len(PatronSteps))
      BY <1>3, <1>4, <1>7, <2>5
    <3>2. Filled(outputs[p])' = Filled(outputs'[p])
      BY DEF Filled
    <3>3. open'[p] = {} /\ declared'[p] = StreamsOf(p, Len(PatronSteps))
      BY <1>2, <1>3, <1>7, <2>1, <2>3
    <3> QED
      BY <1>5, <1>6, <2>3, <2>6, <3>1, <3>2, <3>3 DEF HandedOver
  <2>8. Shape'
    <3>1. Done \in 0 .. Done
      BY <1>2 DEF Done
    <3>2. outputs' = [outputs EXCEPT ![p] = outputs'[p]]
      BY <2>1, <2>3 DEF GenerateOutputDispenser
    <3>3. outputs' \in [Dataowners -> SUBSET DispenserType]
      BY <1>0, <2>6, <3>2 DEF Shape
    <3>4. dispensers' \in [Dataowners -> SUBSET DispenserType]
      BY <1>0, <2>3 DEF Shape
    <3>5. state' \in [Dataowners -> 0 .. Done]
      BY <1>0, <2>1, <3>1 DEF GenerateOutputDispenser, Shape
    <3>6. DOMAIN open' = Parties
      BY <1>0, <2>1 DEF GenerateOutputDispenser, Shape
    <3> QED
      BY <1>0, <1>5, <2>1, <2>2, <3>3, <3>4, <3>5, <3>6 DEF Shape, basement
  <2>9. /\ \A q \in Parties \ {p} : declared'[q] = declared[q] /\ open'[q] = open[q]
        /\ \A q \in Dataowners \ {p} :
             /\ state'[q] = state[q]
             /\ numPartiesAwaiting'[q] = numPartiesAwaiting[q]
             /\ dispensers'[q] = dispensers[q]
             /\ outputs'[q] = outputs[q]
    BY <1>0, <2>1 DEF GenerateOutputDispenser, Shape
  <2> QED
    BY <2>2, <2>7, <2>8, <2>9, PatronFrame DEF PatronPhase
<1>8. CASE last /\ k # Len(PatronSteps)
  <2>1. /\ dispensers' = [dispensers EXCEPT ![p] = held] /\ UNCHANGED outputs
        /\ Enter(p, k + 1, {c})
    BY <1>8 DEF PatronHandleComplete
  <2>2. UNCHANGED basement
    BY DEF PatronHandleComplete
  <2> HIDE DEF held
  <2>3. /\ k \in 0 .. Len(PatronSteps) - 1 /\ k + 1 \in 1 .. Len(PatronSteps)
    BY <1>2, <1>8
  <2>4. dispensers'[p] = held
    BY <1>0, <2>1 DEF Shape
  <2>5. Shape'
    <3>1. dispensers' \in [Dataowners -> SUBSET DispenserType]
      BY <1>0, <1>4, <2>1 DEF Shape
    <3>2. outputs' \in [Dataowners -> SUBSET DispenserType]
      BY <1>0, <2>1 DEF Shape
    <3> QED
      BY <1>0, <2>1, <2>2, <2>3, <3>1, <3>2, EnterShape
  <2>6. Fetching(p)'
    <3>1. open[p] \subseteq {c}
      BY <1>3, <1>8
    <3>2. Filled(dispensers'[p]) = SlotsUpTo(p, k)
      BY <1>3, <1>4, <1>8, <2>4
    <3>3. \A d \in dispensers'[p] : d.size = PatronSteps[d.step].needed * DispenserSize
      BY <1>4, <2>4
    <3> QED
      BY <1>0, <1>2, <2>1, <2>3, <2>5, <3>1, <3>2, <3>3, EnterStep
  <2>7. /\ \A q \in Parties \ {p} : declared'[q] = declared[q] /\ open'[q] = open[q]
        /\ \A q \in Dataowners \ {p} :
             /\ state'[q] = state[q]
             /\ numPartiesAwaiting'[q] = numPartiesAwaiting[q]
             /\ dispensers'[q] = dispensers[q]
             /\ outputs'[q] = outputs[q]
    BY <1>0, <2>1 DEF Enter, Shape
  <2> QED
    BY <2>2, <2>5, <2>6, <2>7, PatronFrame DEF PatronPhase
<1>9. CASE ~last
  <2>1. /\ dispensers' = [dispensers EXCEPT ![p] = held]
        /\ numPartiesAwaiting' = [numPartiesAwaiting EXCEPT ![p] = @ - 1]
        /\ open' = [open EXCEPT ![p] = @ \ {c}]
        /\ UNCHANGED <<outputs, declared, state>>
    BY <1>9 DEF PatronHandleComplete
  <2>2. UNCHANGED basement
    BY DEF PatronHandleComplete
  <2> HIDE DEF held
  <2>3. /\ dispensers'[p] = held /\ open'[p] = open[p] \ {c}
        /\ numPartiesAwaiting'[p] = numPartiesAwaiting[p] - 1
    BY <1>0, <2>1 DEF Shape
  <2>4. Missing(p)' = Rest /\ Filled(dispensers[p])' = Filled(held)
    BY <1>3, <2>3 DEF Missing, Filled
  <2>5. Rest # {} /\ Rest \subseteq PeersOf(p, step)
    BY <1>1, <1>3, <1>9 DEF Fetching
  <2>6. Fetching(p)'
    <3>1. step.paired => numPartiesAwaiting'[p] = Cardinality(Rest)
      BY <1>3, <2>3
    <3>2. open'[p] = {PlacedChild(step.kind, ps, Place(Invocations, k, ps)) : ps \in Rest}
      BY <1>3, <2>3
    <3> HIDE DEF Rest
    <3> QED
      BY <1>2, <1>4, <1>5, <1>6, <2>1, <2>3, <2>4, <2>5, <3>1, <3>2 DEF Fetching
  <2>7. Shape'
    <3>1. dispensers' \in [Dataowners -> SUBSET DispenserType]
      BY <1>0, <1>4, <2>1 DEF Shape
    <3>2. numPartiesAwaiting' \in [Dataowners -> Int]
      BY <1>0, <2>1 DEF Shape
    <3> QED
      BY <1>0, <1>5, <2>1, <2>2, <3>1, <3>2 DEF Shape, basement
  <2>8. /\ \A q \in Parties \ {p} : declared'[q] = declared[q] /\ open'[q] = open[q]
        /\ \A q \in Dataowners \ {p} :
             /\ state'[q] = state[q]
             /\ numPartiesAwaiting'[q] = numPartiesAwaiting[q]
             /\ dispensers'[q] = dispensers[q]
             /\ outputs'[q] = outputs[q]
    BY <1>0, <2>1 DEF Shape
  <2> QED
    BY <2>2, <2>6, <2>7, <2>8, PatronFrame DEF PatronPhase
<1> QED
  BY <1>7, <1>8, <1>9

-----------------------------------------------------------------------------
(* The dealer *)

\* The dealer's init counts exactly the houses it invokes, if its literal is the
\* number of those that are for all parties.
LEMMA HousesCount ==
  ASSUME lists \in Lists, Agree(lists)
  PROVE  IsFiniteSet(Houses) /\ Cardinality(Houses) = NumHouses /\ Houses # {}
<1> DEFINE D == DOMAIN HouseSteps
           W == {k \in D : ~HouseSteps[k].paired}
           P == {k \in D : HouseSteps[k].paired}
           Q == (W \X {Parties}) \cup (P \X AllDealtPairs)
           Pl(k, ps) == PlacedChild(HouseSteps[k].kind, ps, Place(HouseSteps, k, ps))
<1>1. /\ D = 1 .. Len(HouseSteps) /\ Len(HouseSteps) \in Nat /\ IsFiniteSet(D)
      /\ \A k \in D : HouseSteps[k].paired \in BOOLEAN
  <2> DEFINE R == [kind : STRING, paired : BOOLEAN]
  <2>1. HouseSteps \in Seq(R) /\ \A r \in R : r.paired \in BOOLEAN
    BY ListsAssumption DEF HouseSteps
  <2> HIDE DEF R
  <2>2. D = 1 .. Len(HouseSteps) /\ Len(HouseSteps) \in Nat
    BY <2>1
  <2>3. \A k \in D : HouseSteps[k] \in R
    BY <2>1, <2>2
  <2> QED
    BY <2>1, <2>2, <2>3, FS_Interval
<1>2. WholePartyHouses = Cardinality(W) /\ WholePartyHouses > 0 /\ D \subseteq Nat \ {0}
  BY <1>1 DEF Agree, HouseSteps, WholePartyHouses
<1>3. /\ IsFiniteSet(W) /\ IsFiniteSet(P) /\ Cardinality(W) \in Nat
      /\ Cardinality(P) \in Nat
  <2>1. W \subseteq D /\ P \subseteq D
    OBVIOUS
  <2> HIDE DEF W, P, D
  <2> QED
    BY <1>1, <2>1, FS_Subset, FS_CardinalityType
<1>4. W \cap P = {}
  OBVIOUS
<1>5. \A k \in D : \A ps : ps \in HousePeers(HouseSteps[k]) <=> <<k, ps>> \in Q
  BY <1>1 DEF HousePeers
<1>6. \A x \in Q : /\ x[1] \in D /\ x[2] \in HousePeers(HouseSteps[x[1]])
                   /\ x = <<x[1], x[2]>>
  BY DEF HousePeers
<1>7. Houses = {Pl(x[1], x[2]) : x \in Q}
  <2>1. \A h : h \in Houses <=>
                 \E k \in D : \E ps \in HousePeers(HouseSteps[k]) : h = Pl(k, ps)
    BY DEF Houses
  <2>2. \A k : \A ps : <<k, ps>>[1] = k /\ <<k, ps>>[2] = ps
    OBVIOUS
  <2> HIDE DEF Q, Pl, D
  <2>3. ASSUME NEW h \in Houses PROVE \E x \in Q : h = Pl(x[1], x[2])
    <3>1. PICK k \in D : \E ps \in HousePeers(HouseSteps[k]) : h = Pl(k, ps)
      BY <2>1, <2>3
    <3>2. PICK ps \in HousePeers(HouseSteps[k]) : h = Pl(k, ps)
      BY <3>1
    <3>3. <<k, ps>> \in Q
      BY <1>5
    <3> QED
      BY <2>2, <3>2, <3>3
  <2>4. ASSUME NEW x \in Q PROVE Pl(x[1], x[2]) \in Houses
    BY <1>6, <2>1
  <2> QED
    BY <2>3, <2>4
<1>8. ASSUME NEW x \in Q, NEW y \in Q, Pl(x[1], x[2]) = Pl(y[1], y[2])
      PROVE  x = y
  <2>1. /\ x[2] = y[2]
        /\ Place(HouseSteps, x[1], x[2]) = Place(HouseSteps, y[1], y[2])
    BY <1>8 DEF PlacedChild
  <2>2. x[1] \in Nat \ {0} /\ y[1] \in Nat \ {0}
    BY <1>2, <1>6
  <2>3. /\ x[2] \in HousePeers(HouseSteps[x[1]]) /\ y[2] \in HousePeers(HouseSteps[y[1]])
        /\ x = <<x[1], x[2]>> /\ y = <<y[1], y[2]>>
    BY <1>6
  <2> HIDE DEF Q, Pl, D
  <2>4. x[1] = y[1]
    BY <2>1, <2>2, <2>3, PlacesDiffer
  <2> QED
    BY <2>1, <2>3, <2>4
<1>9. /\ IsFiniteSet(Q)
      /\ Cardinality(Q) = Cardinality(W) + Cardinality(P) * Cardinality(AllDealtPairs)
  <2> DEFINE A == W \X {Parties}
             B == P \X AllDealtPairs
  <2>1. A \cap B = {}
    BY <1>4
  <2> HIDE DEF W, P
  <2>2. IsFiniteSet(A) /\ Cardinality(A) = Cardinality(W) * 1
    <3>1. IsFiniteSet({Parties}) /\ Cardinality({Parties}) = 1
      BY FS_Singleton
    <3> QED
      BY <1>3, <3>1, FS_Product
  <2>3. IsFiniteSet(B) /\ Cardinality(B) = Cardinality(P) * Cardinality(AllDealtPairs)
    BY <1>3, DealtPairsFinite, FS_Product
  <2>4. Q = A \cup B
    OBVIOUS
  <2> HIDE DEF A, B, Q
  <2>5. /\ IsFiniteSet(A \cup B)
        /\ Cardinality(A \cup B) = Cardinality(A) + Cardinality(B) - 0
    BY <2>1, <2>2, <2>3, FS_Union, FS_EmptySet
  <2>6. Cardinality(A) \in Nat /\ Cardinality(B) \in Nat
    BY <2>2, <2>3, FS_CardinalityType
  <2> QED
    BY <1>3, <2>2, <2>3, <2>4, <2>5, <2>6
<1>10. IsFiniteSet(Houses) /\ Cardinality(Houses) = Cardinality(Q)
  <2> DEFINE f == [x \in Q |-> Pl(x[1], x[2])]
  <2> HIDE DEF Q, Pl
  <2>1. f \in Bijection(Q, Houses)
    BY <1>7, <1>8 DEF Bijection, Injection, Surjection, IsInjective
  <2> QED
    BY <1>9, <2>1, FS_Bijection DEF ExistsBijection
<1>11. Houses # {}
  <2>1. W # {}
    BY <1>2, FS_EmptySet
  <2>2. PICK k \in W : <<k, Parties>> \in Q
    BY <2>1
  <2> HIDE DEF Q
  <2> QED
    BY <1>7, <2>2
<1> QED
  BY <1>2, <1>9, <1>10, <1>11 DEF NumHouses

\* A step of the dealer leaves the patrons alone.
LEMMA BasementFrame ==
  ASSUME Inv, lists' = lists, Shape', BasementInv', UNCHANGED patron,
         \A q \in Dataowners : declared'[q] = declared[q] /\ open'[q] = open[q]
  PROVE  Inv'
<1>1. ASSUME NEW q \in Dataowners PROVE PatronPhase(q)'
  BY PatronUnchanged DEF Inv, patron
<1> QED
  BY <1>1 DEF Inv

\* What the dealer does keeps the shape of the patrons' state.
LEMMA ShapeFrame ==
  ASSUME Shape, lists' = lists, UNCHANGED patron,
         DOMAIN declared' = Parties, DOMAIN open' = Parties,
         basementState' \in {"idle", "running", "complete"}
  PROVE  Shape'
<1>1. Done' = Done /\ DispenserType' = DispenserType
  BY DEF Done, DispenserType, PatronSteps
<1> QED
  BY <1>1 DEF Shape, patron

\* The basement opens one house for each invocation of the patrons.
LEMMA BasementInitStep ==
  ASSUME Inv, Agree(lists), lists' = lists, BasementInit
  PROVE  Inv'
<1>1. /\ Dealer \in Parties /\ Dataowners \subseteq Parties
      /\ \A p \in Dataowners : p # Dealer
      /\ Shape /\ lists \in Lists
  BY PartiesAssumption DEF Parties, Inv, Shape
<1>2. /\ declared' = [declared EXCEPT ![Dealer] = BasementStreams]
      /\ open' = [open EXCEPT ![Dealer] = Houses]
      /\ numDealersRemaining' = NumHouses
      /\ basementState' = "running" /\ UNCHANGED patron
  BY DEF BasementInit
<1>3. BasementStreams' = BasementStreams
  BY DEF BasementStreams, HouseSteps
<1>4. IsFiniteSet(Houses) /\ Cardinality(Houses) = NumHouses /\ Houses # {}
  BY <1>1, HousesCount
<1>5. declared'[Dealer] = BasementStreams /\ open'[Dealer] = Houses
  BY <1>1, <1>2 DEF Shape
<1>6. BasementInv'
  BY <1>2, <1>3, <1>4, <1>5 DEF BasementInv
<1>7. Shape'
  BY <1>1, <1>2, ShapeFrame DEF Shape
<1>8. \A q \in Dataowners : declared'[q] = declared[q] /\ open'[q] = open[q]
  BY <1>1, <1>2 DEF Shape
<1> QED
  BY <1>2, <1>6, <1>7, <1>8, BasementFrame

\* The basement counts down the houses that are left.
LEMMA BasementHandleCompleteStep ==
  ASSUME Inv, lists' = lists, NEW c \in open[Dealer], BasementHandleComplete(c)
  PROVE  Inv'
<1>1. /\ Dealer \in Parties /\ Dataowners \subseteq Parties
      /\ \A p \in Dataowners : p # Dealer
      /\ Shape
  BY PartiesAssumption DEF Parties, Inv, Shape
<1>2. /\ basementState = "running"
      /\ IsFiniteSet(open[Dealer])
      /\ numDealersRemaining = Cardinality(open[Dealer])
      /\ declared[Dealer] = BasementStreams
  BY DEF Inv, BasementInv
<1>3. /\ IsFiniteSet(open[Dealer] \ {c})
      /\ Cardinality(open[Dealer] \ {c}) = Cardinality(open[Dealer]) - 1
      /\ Cardinality(open[Dealer]) - 1 = 0 <=> open[Dealer] = {c}
  BY <1>2, CountDownLemma
<1>4. /\ open' = [open EXCEPT ![Dealer] = @ \ {c}]
      /\ numDealersRemaining' = numDealersRemaining - 1
      /\ basementState' = IF numDealersRemaining - 1 = 0 THEN "complete" ELSE "running"
      /\ UNCHANGED <<declared, patron>>
  BY <1>2 DEF BasementHandleComplete
<1>5. open'[Dealer] = open[Dealer] \ {c}
  BY <1>1, <1>4 DEF Shape
<1>6. BasementStreams' = BasementStreams
  BY DEF BasementStreams, HouseSteps
<1>7. BasementInv'
  BY <1>2, <1>3, <1>4, <1>5, <1>6 DEF BasementInv
<1>8. Shape'
  BY <1>1, <1>4, ShapeFrame DEF Shape
<1>9. \A q \in Dataowners : declared'[q] = declared[q] /\ open'[q] = open[q]
  BY <1>1, <1>4 DEF Shape
<1> QED
  BY <1>4, <1>7, <1>8, <1>9, BasementFrame

\* The invariant holds at the start.
LEMMA InitInv == Init => Inv
<1> SUFFICES ASSUME Init PROVE Inv
  OBVIOUS
<1>1. Dealer \in Parties /\ Dataowners \subseteq Parties
  BY DEF Parties
<1>2. 0 \in 0 .. Done
  BY ListsLemma DEF Init, Done
<1>3. Shape
  BY <1>2 DEF Init, Shape
<1>4. ASSUME NEW p \in Dataowners PROVE PatronPhase(p)
  BY <1>1 DEF Init, PatronPhase, Waiting
<1>5. BasementInv
  BY <1>1, FS_EmptySet DEF Init, BasementInv
<1> QED
  BY <1>3, <1>4, <1>5 DEF Inv

\* Every step keeps the invariant.
LEMMA NextInv ==
  ASSUME Inv, Agree(lists), [Next /\ UNCHANGED lists]_<<lists, vars>>
  PROVE  Inv'
<1>0. lists' = lists
  OBVIOUS
<1>1. CASE \E p \in Dataowners : PatronInit(p)
  BY <1>0, <1>1, PatronInitStep
<1>2. CASE \E p \in Dataowners : \E c \in open[p] : PatronHandleComplete(p, c)
  BY <1>0, <1>2, PatronHandleCompleteStep
<1>3. CASE BasementInit
  BY <1>0, <1>3, BasementInitStep
<1>4. CASE \E c \in open[Dealer] : BasementHandleComplete(c)
  BY <1>0, <1>4, BasementHandleCompleteStep
<1>5. CASE UNCHANGED vars
  <2>1. Shape'
    BY <1>0, <1>5, ShapeFrame DEF vars, basement, Inv, Shape
  <2>2. BasementStreams' = BasementStreams
    BY <1>0 DEF BasementStreams, HouseSteps
  <2>3. BasementInv'
    BY <1>5, <2>2 DEF vars, basement, Inv, BasementInv
  <2>4. /\ UNCHANGED patron
        /\ \A q \in Dataowners : declared'[q] = declared[q] /\ open'[q] = open[q]
    BY <1>5 DEF vars
  <2> QED
    BY <1>0, <2>1, <2>3, <2>4, BasementFrame
<1> QED
  BY <1>1, <1>2, <1>3, <1>4, <1>5 DEF Next, Walk, Walked, Terminated

\* Inv is an invariant of the patrons and the dealer, whatever lists are dealt.
THEOREM InvHolds ==
  ASSUME \A l \in Lists : Agree(l)
  PROVE  Spec => []Inv
<1>1. Init => Inv
  BY InitInv
<1>2. Inv /\ [Next /\ UNCHANGED lists]_<<lists, vars>> => Inv'
  <2>1. Inv => Agree(lists)
    BY DEF Inv, Shape
  <2> QED
    BY <2>1, NextInv
<1> QED
  BY <1>1, <1>2, PTL DEF Spec

-----------------------------------------------------------------------------
(* The lists of the code *)

\* The lists of a regression and of n lookups at once.
DealtLists == {RegressionLists} \cup {LookupLists(n) : n \in Nat \ {0}}

\* What a house knows of a patron's step, for the literals of the lists.
LEMMA StepHouses ==
  /\ \A kind, b, n : HouseOf(Step(kind, b, n)) = House(kind, b)
  /\ \A kind : House(kind, TRUE).paired /\ ~House(kind, FALSE).paired
BY DEF Step, HouseOf, House

\* An interval from 1 to n has n members.
LEMMA IntervalCount ==
  ASSUME NEW n \in Nat
  PROVE  IsFiniteSet(1 .. n) /\ Cardinality(1 .. n) = n
<1>1. Cardinality(1 .. n) = IF 1 > n THEN 0 ELSE n - 1 + 1
  BY FS_Interval
<1> QED
  BY <1>1, FS_Interval

\* The houses of RegressionRandomnessBasement and of LookupRandomnessHouse are those of
\* their patrons' steps, in the same order, and the literals 10 and 3 are right.
THEOREM DealtListsAgree == \A l \in DealtLists : Agree(l)
<1>1. Agree(RegressionLists)
  <2> DEFINE l == RegressionLists
             D == 1 .. 12
  <2>1. DOMAIN l.patron = D /\ DOMAIN l.house = D /\ l.whole = 10
    BY DEF RegressionLists, RegressionPatronSteps, RegressionHouseSteps,
           RegressionWholePartyHouses
  <2>2. \A k \in D : \/ k = 1 \/ k = 2 \/ k = 3 \/ k = 4 \/ k = 5 \/ k = 6 \/ k = 7
                     \/ k = 8 \/ k = 9 \/ k = 10 \/ k = 11 \/ k = 12
    OBVIOUS
  <2>3. \A k \in D : /\ l.house[k] = HouseOf(l.patron[k])
                     /\ l.house[k].paired <=> k = 3 \/ k = 4
    <3>1. l.house[1] = HouseOf(l.patron[1]) /\ ~l.house[1].paired
      <4>1. l.patron[1] = Step("ModConvUp", FALSE, numModConvUpNeeded)
        BY DEF RegressionLists, RegressionPatronSteps
      <4>2. l.house[1] = House("ModConvUp", FALSE)
        BY DEF RegressionLists, RegressionHouseSteps
      <4> QED
        BY ONLY <4>1, <4>2, StepHouses
    <3>2. l.house[2] = HouseOf(l.patron[2]) /\ ~l.house[2].paired
      <4>1. l.patron[2] = Step("Divide", FALSE, numDivideNeeded)
        BY DEF RegressionLists, RegressionPatronSteps
      <4>2. l.house[2] = House("Divide", FALSE)
        BY DEF RegressionLists, RegressionHouseSteps
      <4> QED
        BY ONLY <4>1, <4>2, StepHouses
    <3>3. l.house[3] = HouseOf(l.patron[3]) /\ l.house[3].paired
      <4>1. l.patron[3] = Step("ZipAdjacent", TRUE, numConditionalEvaluateNeeded)
        BY DEF RegressionLists, RegressionPatronSteps
      <4>2. l.house[3] = House("ZipAdjacent", TRUE)
        BY DEF RegressionLists, RegressionHouseSteps
      <4> QED
        BY ONLY <4>1, <4>2, StepHouses
    <3>4. l.house[4] = HouseOf(l.patron[4]) /\ l.house[4].paired
      <4>1. l.patron[4] = Step("BeaverTriple", TRUE, numBeaverTripleForFactoryNeeded)
        BY DEF RegressionLists, RegressionPatronSteps
      <4>2. l.house[4] = House("BeaverTriple", TRUE)
        BY DEF RegressionLists, RegressionHouseSteps
      <4> QED
        BY ONLY <4>1, <4>2, StepHouses
    <3>5. l.house[5] = HouseOf(l.patron[5]) /\ ~l.house[5].paired
      <4>1. l.patron[5] = Step("BeaverTriple", FALSE, numBeaverTripleForMatrixMultiplyNeeded)
        BY DEF RegressionLists, RegressionPatronSteps
      <4>2. l.house[5] = House("BeaverTriple", FALSE)
        BY DEF RegressionLists, RegressionHouseSteps
      <4> QED
        BY ONLY <4>1, <4>2, StepHouses
    <3>6. l.house[6] = HouseOf(l.patron[6]) /\ ~l.house[6].paired
      <4>1. l.patron[6] = Step("RandomSquareMatrix", FALSE, numRandomSquareMatrixNeeded)
        BY DEF RegressionLists, RegressionPatronSteps
      <4>2. l.house[6] = House("RandomSquareMatrix", FALSE)
        BY DEF RegressionLists, RegressionHouseSteps
      <4> QED
        BY ONLY <4>1, <4>2, StepHouses
    <3>7. l.house[7] = HouseOf(l.patron[7]) /\ ~l.house[7].paired
      <4>1. l.patron[7] = Step("BeaverTriple", FALSE, numBeaverTripleForFinalMultiplyNeeded)
        BY DEF RegressionLists, RegressionPatronSteps
      <4>2. l.house[7] = House("BeaverTriple", FALSE)
        BY DEF RegressionLists, RegressionHouseSteps
      <4> QED
        BY ONLY <4>1, <4>2, StepHouses
    <3>8. l.house[8] = HouseOf(l.patron[8]) /\ ~l.house[8].paired
      <4>1. l.patron[8] = Step("CompareEndModulus", FALSE, numCompareEndModulusNeeded)
        BY DEF RegressionLists, RegressionPatronSteps
      <4>2. l.house[8] = House("CompareEndModulus", FALSE)
        BY DEF RegressionLists, RegressionHouseSteps
      <4> QED
        BY ONLY <4>1, <4>2, StepHouses
    <3>9. l.house[9] = HouseOf(l.patron[9]) /\ ~l.house[9].paired
      <4>1. l.patron[9] = Step("Compare", FALSE, numCompareNeeded)
        BY DEF RegressionLists, RegressionPatronSteps
      <4>2. l.house[9] = House("Compare", FALSE)
        BY DEF RegressionLists, RegressionHouseSteps
      <4> QED
        BY ONLY <4>1, <4>2, StepHouses
    <3>10. l.house[10] = HouseOf(l.patron[10]) /\ ~l.house[10].paired
      <4>1. l.patron[10] = Step("TypeCastFromBit", FALSE, numTypeCastFromBitNeeded)
        BY DEF RegressionLists, RegressionPatronSteps
      <4>2. l.house[10] = House("TypeCastFromBit", FALSE)
        BY DEF RegressionLists, RegressionHouseSteps
      <4> QED
        BY ONLY <4>1, <4>2, StepHouses
    <3>11. l.house[11] = HouseOf(l.patron[11]) /\ ~l.house[11].paired
      <4>1. l.patron[11] = Step("Lookup", FALSE, numTableLookupFNeeded)
        BY DEF RegressionLists, RegressionPatronSteps
      <4>2. l.house[11] = House("Lookup", FALSE)
        BY DEF RegressionLists, RegressionHouseSteps
      <4> QED
        BY ONLY <4>1, <4>2, StepHouses
    <3>12. l.house[12] = HouseOf(l.patron[12]) /\ ~l.house[12].paired
      <4>1. l.patron[12] = Step("Lookup", FALSE, numTableLookuptNeeded)
        BY DEF RegressionLists, RegressionPatronSteps
      <4>2. l.house[12] = House("Lookup", FALSE)
        BY DEF RegressionLists, RegressionHouseSteps
      <4> QED
        BY ONLY <4>1, <4>2, StepHouses
    <3> HIDE DEF l
    <3> QED
      BY <2>2, <3>1, <3>2, <3>3, <3>4, <3>5, <3>6, <3>7, <3>8, <3>9, <3>10, <3>11, <3>12
  <2>5. l.house = [k \in DOMAIN l.house |-> l.house[k]]
    BY DEF RegressionLists, RegressionHouseSteps
  <2> HIDE DEF l
  <2>7. {k \in D : ~l.house[k].paired} = (D \ {3}) \ {4}
    BY <2>3
  <2>8. Cardinality((D \ {3}) \ {4}) = 10
    <3>1. IsFiniteSet(D) /\ Cardinality(D) = 12
      BY IntervalCount
    <3>2. 3 \in D /\ 4 \in D \ {3}
      OBVIOUS
    <3> HIDE DEF D
    <3>3. IsFiniteSet(D \ {3}) /\ Cardinality(D \ {3}) = 12 - 1
      BY <3>1, <3>2, CountDownLemma
    <3>4. Cardinality((D \ {3}) \ {4}) = Cardinality(D \ {3}) - 1
      BY <3>2, <3>3, CountDownLemma
    <3> QED
      BY <3>3, <3>4
  <2> HIDE DEF D
  <2>9. l.house = [k \in DOMAIN l.patron |-> HouseOf(l.patron[k])]
    BY <2>1, <2>3, <2>5
  <2>10. l.whole = Cardinality({k \in DOMAIN l.house : ~l.house[k].paired})
    BY <2>1, <2>7, <2>8
  <2> QED
    BY <2>1, <2>9, <2>10 DEF Agree, l
<1>2. ASSUME NEW n PROVE Agree(LookupLists(n))
  <2> DEFINE l == LookupLists(n)
             D == 1 .. 3
  <2>1. DOMAIN l.patron = D /\ DOMAIN l.house = D /\ l.whole = 3
    BY DEF LookupLists, LookupPatronSteps, LookupHouseSteps, LookupWholePartyHouses
  <2>2. \A k \in D : k = 1 \/ k = 2 \/ k = 3
    OBVIOUS
  <2>3. /\ l.patron[1] = Step("Compare", FALSE, 1)
        /\ l.patron[2] = Step("TypeCastFromBit", FALSE, 1)
        /\ l.patron[3] = Step("RandomTableLookup", FALSE, 1)
    BY DEF LookupLists, LookupPatronSteps
  <2>4. /\ l.house[1] = House("Compare", FALSE)
        /\ l.house[2] = House("TypeCastFromBit", FALSE)
        /\ l.house[3] = House("RandomTableLookup", FALSE)
    BY DEF LookupLists, LookupHouseSteps
  <2>5. l.house = [k \in DOMAIN l.house |-> l.house[k]]
    BY DEF LookupLists, LookupHouseSteps
  <2> HIDE DEF l
  <2>6. \A k \in D : l.house[k] = HouseOf(l.patron[k])
    BY <2>2, <2>3, <2>4, StepHouses
  <2>7. {k \in D : ~l.house[k].paired} = D
    BY <2>2, <2>4, StepHouses
  <2>8. Cardinality(D) = 3
    BY IntervalCount
  <2> HIDE DEF D
  <2>9. l.house = [k \in DOMAIN l.patron |-> HouseOf(l.patron[k])]
    BY <2>1, <2>5, <2>6
  <2>10. l.whole = Cardinality({k \in DOMAIN l.house : ~l.house[k].paired})
    BY <2>1, <2>7, <2>8
  <2> QED
    BY <2>1, <2>9, <2>10 DEF Agree, l
<1> QED
  BY <1>1, <1>2 DEF DealtLists

-----------------------------------------------------------------------------
(* What follows from the invariant *)

\* The invariant says what a patron hands over when it is done.
LEMMA OutputFollows == Inv => OutputIsFull
<1> SUFFICES ASSUME Inv, NEW p \in Dataowners, state[p] = Done
             PROVE  /\ Filled(outputs[p]) = SlotsUpTo(p, Len(PatronSteps))
                    /\ \A d \in outputs[p] : d.size = 0
  BY DEF OutputIsFull
<1>1. Len(PatronSteps) \in Nat /\ Done = Len(PatronSteps) + 1
  BY ListsLemma DEF Inv, Shape, Done
<1> QED
  BY <1>1 DEF Inv, PatronPhase, Waiting, Fetching, HandedOver

\* The invariant says how many houses the basement still waits for.
LEMMA BasementFollows == Inv => BasementCountsHouses
BY DEF Inv, Shape, BasementInv, BasementCountsHouses

\* The streams of every step are prefixes of the dealer's, on the peer sets a patron
\* belongs to.
LEMMA BasementPrefix ==
  ASSUME Inv, Agree(lists), NEW ps \in PeerSets, NEW p \in ps
  PROVE  \A n \in 1 .. Len(declared[p][ps]) :
           declared[p][ps][n] = KindAt(HouseSteps, ps, n)
<1>0. p \in Dataowners \/ p = Dealer
  BY DEF PeerSets, Parties, Pairs, DealtPairs, Pair, DealtPair, Cross
<1>1. HouseSteps = Invocations
  BY DEF Agree, HouseSteps, Invocations, PatronSteps
<1>2. \A k \in Nat : StreamsAfter(HouseSteps, k)[ps] =
                       [n \in 1 .. Place(HouseSteps, k, ps) |-> KindAt(HouseSteps, ps, n)]
  BY DEF StreamsAfter
<1>3. ASSUME NEW k \in Nat
      PROVE  \A n \in 1 .. Len(StreamsAfter(HouseSteps, k)[ps]) :
               StreamsAfter(HouseSteps, k)[ps][n] = KindAt(HouseSteps, ps, n)
  <2> DEFINE N == Place(HouseSteps, k, ps)
             e(n) == KindAt(HouseSteps, ps, n)
  <2>1. N \in Nat
    BY PlaceLemma
  <2>2. StreamsAfter(HouseSteps, k)[ps] = [n \in 1 .. N |-> e(n)]
    BY <1>2
  <2> HIDE DEF N, e
  <2>3. Len([n \in 1 .. N |-> e(n)]) = N
    BY <2>1
  <2>4. \A n \in 1 .. N : [i \in 1 .. N |-> e(i)][n] = e(n)
    OBVIOUS
  <2> QED
    BY <2>2, <2>3, <2>4 DEF e
<1>4. Len(NoStream[ps]) = 0
  BY DEF NoStream
<1>5. CASE p \in Dataowners
  <2>1. /\ Len(PatronSteps) \in Nat /\ state[p] \in Nat
    BY <1>5, ListsLemma DEF Inv, Shape, Done
  <2>2. \/ declared[p] = NoStream
        \/ \E k \in Nat : declared[p] = StreamsOf(p, k)
    BY <1>5, <2>1 DEF Inv, PatronPhase, Waiting, Fetching, HandedOver
  <2>3. CASE declared[p] = NoStream
    BY <1>4, <2>3
  <2>4. ASSUME NEW k \in Nat, declared[p] = StreamsOf(p, k)
        PROVE  declared[p][ps] = StreamsAfter(HouseSteps, k)[ps]
    BY <1>1, <2>4 DEF StreamsOf
  <2> QED
    BY <1>3, <2>2, <2>3, <2>4
<1>6. CASE p = Dealer
  <2>1. HouseSteps \in Seq([kind : STRING, paired : BOOLEAN])
    BY ListsAssumption DEF Inv, Shape, HouseSteps
  <2>2. Len(HouseSteps) \in Nat
    BY <2>1
  <2>3. declared[p] = NoStream \/ declared[p] = BasementStreams
    BY <1>6 DEF Inv, BasementInv
  <2> QED
    BY <1>3, <1>4, <2>2, <2>3 DEF BasementStreams
<1> QED
  BY <1>0, <1>5, <1>6

\* Two streams that both agree with the dealer's agree with each other.
LEMMA MatchedFollows == ASSUME Inv, Agree(lists) PROVE Matched
<1> SUFFICES ASSUME NEW ps \in PeerSets, NEW p \in ps, NEW q \in ps,
                    NEW n \in (1 .. Len(declared[p][ps]))
                                \cap (1 .. Len(declared[q][ps]))
             PROVE  declared[p][ps][n] = declared[q][ps][n]
  BY DEF Matched
<1> QED
  BY BasementPrefix

-----------------------------------------------------------------------------
(* All three kinds of query *)

\* The instance's finite sets and cardinalities are those of this module.
LEMMA SameSets ==
  /\ MP!IsFiniteSet(Dataowners) /\ MP!IsFiniteSet(Recipients)
  /\ \A S : MP!Cardinality(S) = Cardinality(S)
BY PartiesAssumption DEF MP!IsFiniteSet, IsFiniteSet, MP!Cardinality, Cardinality

\* The streams and the peer sets of MomentsRandomness are those of Dealing.
LEMMA SameStreams == MP!Matched <=> Matched
BY DEF MP!Matched, Matched, MP!PeerSets, PeerSets, MP!Parties, Parties, MP!Pairs, Pairs,
       MP!DealtPairs, DealtPairs, MP!Pair, Pair, MP!DealtPair, DealtPair, MP!Cross, Cross

\* Moments of AllRandomness and MP are instances of the same definitions.
LEMMA SameMoments ==
  /\ Moments!Init <=> MP!Init
  /\ Moments!Next <=> MP!Next
  /\ Moments!OutputIsFull <=> MP!OutputIsFull
BY DEF Moments!Init, MP!Init, Moments!Next, MP!Next,
       Moments!PatronInit, MP!PatronInit,
       Moments!PatronHandleComplete, MP!PatronHandleComplete,
       Moments!ModConvUpDealt, MP!ModConvUpDealt,
       Moments!DivideDealt, MP!DivideDealt,
       Moments!ZipAdjacentDealt, MP!ZipAdjacentDealt,
       Moments!GenerateOutputDispenser, MP!GenerateOutputDispenser,
       Moments!BasementInit, MP!BasementInit,
       Moments!BasementHandleComplete, MP!BasementHandleComplete,
       Moments!BasementStreams, MP!BasementStreams,
       Moments!NumHouses, MP!NumHouses,
       Moments!Terminated, MP!Terminated, Moments!AllComplete, MP!AllComplete,
       Moments!Invoke, MP!Invoke, Moments!Retire, MP!Retire,
       Moments!Met, MP!Met,
       Moments!Declare, MP!Declare, Moments!NoStream, MP!NoStream,
       Moments!Children, MP!Children, Moments!Child, MP!Child,
       Moments!Parties, MP!Parties, Moments!Cross, MP!Cross,
       Moments!Pair, MP!Pair, Moments!Pairs, MP!Pairs,
       Moments!DealtPair, MP!DealtPair, Moments!DealtPairs, MP!DealtPairs,
       Moments!AllDealtPairs, MP!AllDealtPairs,
       Moments!PeerSets, MP!PeerSets, Moments!Nothing, MP!Nothing,
       Moments!numModConvUpNeeded, MP!numModConvUpNeeded,
       Moments!numDivideNeeded, MP!numDivideNeeded,
       Moments!numConditionalEvaluateNeeded, MP!numConditionalEvaluateNeeded,
       Moments!Cardinality, MP!Cardinality,
       Moments!vars, MP!vars, Moments!patron, MP!patron,
       Moments!basement, MP!basement, Moments!OutputIsFull, MP!OutputIsFull

\* The invariant of the kind of query that is dealt for.
AllInv ==
  /\ query \in {"listed", "moments"}
  /\ query = "listed" => Inv
  /\ query = "moments" => MP!Inv

\* A step of AllRandomness is one of Dealing or one of MomentsRandomness.
LEMMA AllSteps ==
  ASSUME [AllNext]_all
  PROVE  /\ query' = query
         /\ query = "listed" => [Next /\ UNCHANGED lists]_<<lists, vars>>
         /\ query = "moments" => [MP!Next]_MP!vars
<1>1. CASE AllNext
  BY <1>1, SameMoments DEF AllNext, Listed, OfMoments
<1>2. CASE UNCHANGED all
  BY <1>2 DEF all, vars, patron, basement, momentsOnly, MP!vars, MP!patron, MP!basement
<1> QED
  BY <1>1, <1>2

\* The invariant of all dealings is inductive.
LEMMA AllInvInductive ==
  ASSUME \A l \in Lists : Agree(l)
  PROVE  /\ AllInit => AllInv
         /\ AllInv /\ [AllNext]_all => AllInv'
<1>1. AllInit => AllInv
  <2>1. MP!Init => MP!Inv
    BY MP!InitInv, SameSets, PartiesAssumption, VerticalAssumption
  <2> QED
    BY <2>1, InitInv, SameMoments DEF AllInit, AllInv
<1>2. ASSUME AllInv, [AllNext]_all PROVE AllInv'
  <2>1. CASE query = "listed"
    <3>1. Inv /\ Agree(lists) /\ [Next /\ UNCHANGED lists]_<<lists, vars>>
      BY <1>2, <2>1, AllSteps DEF AllInv, Inv, Shape
    <3>2. Inv' /\ query' = query
      BY <1>2, <3>1, NextInv, AllSteps
    <3> QED
      BY <2>1, <3>2 DEF AllInv
  <2>2. CASE query = "moments"
    <3>1. MP!Inv /\ [MP!Next]_MP!vars
      BY <1>2, <2>2, AllSteps DEF AllInv
    <3>2. MP!Inv' /\ query' = query
      BY <1>2, <3>1, MP!NextInv, AllSteps, SameSets, PartiesAssumption, VerticalAssumption
    <3> QED
      BY <2>2, <3>2 DEF AllInv
  <2> QED
    BY <1>2, <2>1, <2>2 DEF AllInv
<1> QED
  BY <1>1, <1>2

\* The invariants of all three kinds of query, for any number of dataowners, any
\* verticals, any payload length and any lists that agree.
THEOREM AllInvHolds ==
  ASSUME \A l \in Lists : Agree(l)
  PROVE  AllSpec => []AllInv
<1>1. AllInit => AllInv
  BY AllInvInductive
<1>2. AllInv /\ [AllNext]_all => AllInv'
  BY AllInvInductive
<1> QED
  BY <1>1, <1>2, PTL DEF AllSpec

\* A patron that completes hands over dispensers for every slot and takes exactly what
\* it had asked for (generateOutputDispenser of all three patrons).
THEOREM OutputsCorrect ==
  ASSUME \A l \in Lists : Agree(l)
  PROVE  AllSpec => []OutputsAreFull
<1>1. AllInv => OutputsAreFull
  <2>1. MP!Inv => MP!OutputIsFull
    BY DEF MP!Inv, MP!OutputIsFull, MP!PatronPhase, MP!Waiting, MP!FetchingModConvUp,
           MP!FetchingDivide, MP!FetchingZips, MP!HandedOver
  <2> QED
    BY <2>1, OutputFollows, SameMoments DEF AllInv, OutputsAreFull
<1> QED
  BY <1>1, AllInvHolds, PTL

\* numDealersRemaining of all three dealers' sides is the number of open houses, and
\* they complete with the last of them.
THEOREM BasementCorrect ==
  ASSUME \A l \in Lists : Agree(l)
  PROVE  AllSpec => []BasementCountsHouses
<1>1. AllInv => BasementCountsHouses
  <2>1. MP!Inv => BasementCountsHouses
    BY SameSets DEF MP!Inv, MP!Shape, MP!RunState, MP!BasementInv, BasementCountsHouses
  <2> QED
    BY <2>1, BasementFollows DEF AllInv
<1> QED
  BY <1>1, AllInvHolds, PTL

\* No two parties disagree on what the n-th randomness child of a peer set is, in any
\* of the three kinds of query.
THEOREM MatchedHolds ==
  ASSUME \A l \in Lists : Agree(l)
  PROVE  AllSpec => []Matched
<1>1. AllInv => Matched
  <2>1. MP!Inv => MP!Matched
    <3> SUFFICES ASSUME MP!Inv, NEW ps \in MP!PeerSets, NEW p \in ps, NEW q \in ps,
                        NEW n \in (1 .. Len(declared[p][ps]))
                                    \cap (1 .. Len(declared[q][ps]))
                 PROVE  declared[p][ps][n] = declared[q][ps][n]
      BY DEF MP!Matched
    <3> QED
      BY MP!BasementPrefix, SameSets, PartiesAssumption, VerticalAssumption
  <2>2. Inv => Matched
    BY MatchedFollows DEF Inv, Shape
  <2> QED
    BY <2>1, <2>2, SameStreams DEF AllInv
<1> QED
  BY <1>1, AllInvHolds, PTL

-----------------------------------------------------------------------------
(* The contract *)

\* The parties that have started, and that have finished, as Contract sees them.
Started == {p \in Dataowners : ~Idle(p)} \cup {p \in {Dealer} : basementState # "idle"}
Finished ==
  {p \in Dataowners : Complete(p)} \cup {p \in {Dealer} : basementState = "complete"}

\* A step of the contract, or none.
ContractStutter ==
  \/ \E p \in Parties : /\ p \notin Started
                        /\ Started' = Started \cup {p} /\ Finished' = Finished
  \/ \E p \in Parties : /\ p \in Started \ Finished
                        /\ p # Dealer => Dealer \in Started
                        /\ Finished' = Finished \cup {p} /\ Started' = Started
  \/ Started' = Started /\ Finished' = Finished

\* A child that the dealer has joined belongs to a dealer that has started.
LEMMA DealerHasStarted ==
  ASSUME Inv, NEW p \in Dataowners, NEW c \in open[p], Joined(c, {Dealer})
  PROVE  basementState # "idle"
<1>1. Fetching(p) /\ Shape /\ lists \in Lists
  BY DEF Inv, Shape, PatronPhase, Waiting, HandedOver
<1> DEFINE k == state[p]
           step == PatronSteps[k]
<1>2. /\ c.peers \in PeersOf(p, step)
      /\ c = PlacedChild(step.kind, c.peers, Place(Invocations, k, c.peers))
      /\ k \in 1 .. Len(PatronSteps)
  BY <1>1, CompletingChild DEF Fetching
<1>3. /\ c.peers \in PeerSets /\ p \in c.peers /\ c.place = Place(Invocations, k, c.peers)
  BY <1>2, PeersAreSets DEF PlacedChild
<1>4. /\ k - 1 \in Nat /\ (k - 1) + 1 = k
      /\ HousePeers(Invocations[k]) = HousePeers(step)
  BY <1>1, <1>2, ListsLemma
<1>5. c.peers \in HousePeers(Invocations[k])
  BY <1>2, <1>3, <1>4, PeersAgree
<1>6. /\ Place(Invocations, k, c.peers) = Place(Invocations, k - 1, c.peers) + 1
      /\ Place(Invocations, k - 1, c.peers) \in Nat
  BY <1>4, <1>5, PlaceLemma
<1>7. Len(NoStream[c.peers]) = 0
  BY <1>3 DEF NoStream
<1>8. Len(declared[Dealer][c.peers]) >= c.place
  BY DEF Joined
<1> QED
  BY <1>3, <1>6, <1>7, <1>8 DEF Inv, BasementInv

\* What Started and Finished are for a query that Dealing runs.
LEMMA ListedParties ==
  ASSUME query = "listed"
  PROVE  /\ Started = {p \in Dataowners : state[p] # 0}
                        \cup {p \in {Dealer} : basementState # "idle"}
         /\ Finished = {p \in Dataowners : state[p] = Done}
                         \cup {p \in {Dealer} : basementState = "complete"}
BY DEF Started, Finished, Idle, Complete

\* Who has started and who has finished a listed dealing, after a step.
LEMMA ListedPartiesNext ==
  ASSUME query' = "listed", lists' = lists
  PROVE  /\ Started' = {p \in Dataowners : state'[p] # 0}
                         \cup {p \in {Dealer} : basementState' # "idle"}
         /\ Finished' = {p \in Dataowners : state'[p] = Done}
                          \cup {p \in {Dealer} : basementState' = "complete"}
BY DEF Started, Finished, Idle, Complete, Done, PatronSteps

\* A step of a listed dealing is a step of the child contract, or none.
LEMMA ListedStep ==
  ASSUME Inv, query = "listed", query' = "listed",
         [Next /\ UNCHANGED lists]_<<lists, vars>>
  PROVE  ContractStutter
<1> DEFINE S(s, b) == {p \in Dataowners : s[p] # 0} \cup {p \in {Dealer} : b # "idle"}
           F(s, b) == {p \in Dataowners : s[p] = Done}
                        \cup {p \in {Dealer} : b = "complete"}
<1>0. /\ Dealer \in Parties /\ Dataowners \subseteq Parties /\ Dealer \notin Dataowners
      /\ Shape /\ lists \in Lists /\ lists' = lists
      /\ Done \in Nat \ {0, 1} /\ Len(PatronSteps) \in Nat \ {0}
      /\ Done = Len(PatronSteps) + 1
  BY PartiesAssumption, ListsLemma DEF Parties, Inv, Shape, Done
<1>1. /\ Started = S(state, basementState) /\ Finished = F(state, basementState)
      /\ Started' = S(state', basementState') /\ Finished' = F(state', basementState')
  BY <1>0, ListedParties, ListedPartiesNext
<1> USE <1>1 DEF ContractStutter
<1>2. ASSUME NEW p \in Dataowners, PatronInit(p) PROVE ContractStutter
  <2>1. /\ state[p] = 0 /\ basementState' = basementState
        /\ \A q \in Dataowners : state'[q] = IF q = p THEN 1 ELSE state[q]
    BY <1>0, <1>2 DEF PatronInit, Enter, Shape, basement
  <2>2. p \notin Started /\ p \in Parties
    BY <1>0, <2>1
  <2>3. Started' = Started \cup {p}
    BY <1>0, <2>1
  <2>4. Finished' = Finished
    BY <1>0, <2>1
  <2> QED
    BY <2>2, <2>3, <2>4
<1>3. ASSUME NEW p \in Dataowners, NEW c \in open[p], PatronHandleComplete(p, c)
      PROVE  ContractStutter
  <2>1. basementState # "idle" /\ basementState' = basementState
    BY <1>3, DealerHasStarted DEF PatronHandleComplete, basement
  <2>2. state[p] \in 1 .. Len(PatronSteps)
    BY <1>3 DEF Inv, PatronPhase, Waiting, Fetching, HandedOver
  <2>3. \E s \in Nat \ {0} :
          \A q \in Dataowners : state'[q] = IF q = p THEN s ELSE state[q]
    <3>1. \E s \in {Done, state[p] + 1, state[p]} : state' = [state EXCEPT ![p] = s]
      BY <1>0, <1>3
      DEF PatronHandleComplete, GenerateOutputDispenser, Enter, Shape
    <3>2. state[p] \in Nat \ {0} /\ state[p] + 1 \in Nat \ {0} /\ Done \in Nat \ {0}
      BY <1>0, <2>2
    <3> QED
      BY <1>0, <3>1, <3>2 DEF Shape
  <2>4. PICK s \in Nat \ {0} :
          \A q \in Dataowners : state'[q] = IF q = p THEN s ELSE state[q]
    BY <2>3
  <2>5. Started' = Started
    <3>1. state[p] # 0
      BY <1>0, <2>2
    <3> QED
      BY <2>1, <2>4, <3>1
  <2>6. p \in Started \ Finished /\ Dealer \in Started /\ p \in Parties
    <3>1. state[p] # 0 /\ state[p] # Done
      BY <1>0, <2>2
    <3> QED
      BY <1>0, <2>1, <3>1
  <2>7. CASE s = Done
    <3>1. Finished' = Finished \cup {p}
      BY <2>1, <2>4, <2>7
    <3> QED
      BY <2>5, <2>6, <3>1
  <2>8. CASE s # Done
    <3>1. Finished' = Finished
      BY <1>0, <2>1, <2>4, <2>6, <2>8
    <3> QED
      BY <2>5, <3>1
  <2> QED
    BY <2>7, <2>8
<1>4. CASE BasementInit
  <2>1. basementState = "idle" /\ basementState' = "running" /\ state' = state
    BY <1>4 DEF BasementInit, patron
  <2>2. Dealer \notin Started /\ Started' = Started \cup {Dealer} /\ Finished' = Finished
    BY <1>0, <2>1
  <2> QED
    BY <1>0, <2>2
<1>5. ASSUME NEW c \in open[Dealer], BasementHandleComplete(c) PROVE ContractStutter
  <2>1. /\ basementState = "running" /\ basementState' \in {"running", "complete"}
        /\ state' = state
    BY <1>5 DEF BasementHandleComplete, Inv, BasementInv, patron
  <2>2. Dealer \in Started \ Finished /\ Started' = Started
    BY <1>0, <2>1
  <2>3. CASE basementState' = "complete"
    <3>1. Finished' = Finished \cup {Dealer}
      BY <2>1, <2>3
    <3> QED
      BY <1>0, <2>2, <3>1
  <2>4. CASE basementState' = "running"
    <3>1. Finished' = Finished
      BY <2>1, <2>4
    <3> QED
      BY <2>2, <3>1
  <2> QED
    BY <2>1, <2>3, <2>4
<1>6. CASE UNCHANGED vars
  <2>1. basementState' = basementState /\ state' = state
    BY <1>6 DEF vars, patron, basement
  <2> QED
    BY <2>1
<1> QED
  BY <1>2, <1>3, <1>4, <1>5, <1>6 DEF Next, Walk, Walked, Terminated

\* A step of the moments dealing is a step of the child contract, or none.
LEMMA MomentsStep ==
  ASSUME MP!Inv, query = "moments", query' = "moments", [MP!Next]_MP!vars
  PROVE  ContractStutter
<1>1. /\ MP!Started = Started /\ MP!Finished = Finished
      /\ MP!Started' = Started' /\ MP!Finished' = Finished'
  BY DEF MP!Started, Started, MP!Finished, Finished, Idle, Complete
<1>2. MP!Parties = Parties
  BY DEF MP!Parties, Parties
<1> QED
  BY <1>1, <1>2, MP!ContractStep, SameSets, PartiesAssumption, VerticalAssumption
  DEF ContractStutter

\* Patrons and dealer together implement the contract a parent relies on, in all three
\* kinds of query: each starts once and finishes at most once, a patron never before
\* the dealer has started.
THEOREM ContractKept ==
  ASSUME \A l \in Lists : Agree(l)
  PROVE  AllSpec => KeepsContract
<1>1. AllInit => Contract!ContractInit
  <2>1. CASE query = "listed" /\ Init
    <3>1. Done # 0
      BY <2>1, ListsLemma DEF Init, Done
    <3> QED
      BY <2>1, <3>1 DEF Init, Contract!ContractInit, Idle, Complete
  <2>2. CASE query = "moments" /\ MP!Init
    BY <2>2 DEF MP!Init, Contract!ContractInit, Idle, Complete
  <2> QED
    BY <2>1, <2>2, SameMoments DEF AllInit
<1>2. AllInv /\ [AllNext]_all => [Contract!ContractNext]_<<Started, Finished>>
  <2> SUFFICES ASSUME AllInv, [AllNext]_all
               PROVE  [Contract!ContractNext]_<<Started, Finished>>
    OBVIOUS
  <2>1. ContractStutter
    BY AllSteps, ListedStep, MomentsStep DEF AllInv
  <2> QED
    BY <2>1 DEF ContractStutter, Contract!ContractNext, Contract!Start, Contract!Finish,
                Started, Finished
<1> QED
  BY <1>1, <1>2, AllInvHolds, PTL
  DEF AllSpec, KeepsContract, Contract!ContractSpec, Started, Finished
=============================================================================
