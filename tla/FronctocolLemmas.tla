--------------------------- MODULE FronctocolLemmas ---------------------------
(***************************************************************************)
(* Facts about the parties, the peer sets and the streams of Fronctocol    *)
(* that the proofs about every query use: counting down a finite set, the  *)
(* children of a paired phase (exactly one for each partner), and what a   *)
(* declaration does to the streams.                                        *)
(***************************************************************************)
EXTENDS Fronctocol, Integers, FiniteSetTheorems, FunctionTheorems, TLAPS

-----------------------------------------------------------------------------
(* Sets and counting *)

\* Counting down: what is left when one of the awaited leaves, and when it was
\* the last.
LEMMA CountDownLemma ==
  ASSUME NEW T, IsFiniteSet(T), NEW q \in T
  PROVE  /\ Cardinality(T) \in Nat
         /\ IsFiniteSet(T \ {q})
         /\ Cardinality(T \ {q}) = Cardinality(T) - 1
         /\ Cardinality(T) - 1 = 0 <=> T = {q}
<1>1. /\ IsFiniteSet(T \ {q})
      /\ Cardinality(T \ {q}) = Cardinality(T) - 1
  BY FS_RemoveElement
<1>2. Cardinality(T) \in Nat
  BY FS_CardinalityType
<1>3. Cardinality(T \ {q}) = 0 <=> T \ {q} = {}
  BY <1>1, FS_EmptySet
<1>4. T \ {q} = {} <=> T = {q}
  OBVIOUS
<1> QED
  BY <1>1, <1>2, <1>3, <1>4

\* A dataowner's partners: finitely many, at least one, never itself or the dealer.
LEMMA CrossLemma ==
  ASSUME NEW p \in Dataowners
  PROVE  /\ Cross(p) \subseteq Dataowners
         /\ Cross(p) # {}
         /\ p \notin Cross(p)
         /\ Dealer \notin Cross(p)
         /\ p # Dealer
         /\ \A T \in SUBSET Cross(p) : IsFiniteSet(T) /\ Cardinality(T) \in Nat
<1>1. /\ Cross(p) \subseteq Dataowners
      /\ Cross(p) # {}
      /\ p \notin Cross(p)
      /\ Dealer \notin Cross(p)
      /\ p # Dealer
  BY PartiesAssumption, VerticalAssumption DEF Cross
<1>2. ASSUME NEW T \in SUBSET Cross(p)
      PROVE  IsFiniteSet(T) /\ Cardinality(T) \in Nat
  <2>1. IsFiniteSet(T)
    BY <1>1, PartiesAssumption, FS_Subset
  <2> QED
    BY <2>1, FS_CardinalityType
<1> QED
  BY <1>1, <1>2

\* Every set of parties that an operation is invoked for is a peer set.
LEMMA PeerSetLemma ==
  /\ Parties \in PeerSets
  /\ Dataowners \in PeerSets
  /\ \A p \in Dataowners : Pairs(p) \subseteq PeerSets
  /\ \A p \in Dataowners : DealtPairs(p) \subseteq PeerSets
  /\ AllDealtPairs \subseteq PeerSets
BY DEF PeerSets, AllDealtPairs, Parties, Pairs, DealtPairs, Pair, DealtPair

\* A peer set of two partners is one of p's pairs as soon as p belongs to it.
LEMMA PairOfParty ==
  ASSUME NEW p \in Dataowners, NEW ps, p \in ps
  PROVE  /\ ps \in DealtPairs(p) <=> ps \in AllDealtPairs
         /\ ps \in Pairs(p) <=> ps \in AllPairs
<1>0. p # Dealer
  BY CrossLemma
<1>1. ASSUME ps \in AllDealtPairs PROVE ps \in DealtPairs(p)
  <2>1. PICK a \in Dataowners : ps \in DealtPairs(a)
    BY <1>1 DEF AllDealtPairs
  <2>2. PICK b \in Cross(a) : ps = {a, b, Dealer}
    BY <2>1 DEF DealtPairs, DealtPair
  <2>3. a \in Cross(b) /\ b \in Dataowners
    BY DEF Cross
  <2>4. CASE p = a
    BY <2>2, <2>4 DEF DealtPairs, DealtPair
  <2>5. CASE p = b
    <3>1. ps = {b, a, Dealer}
      BY <2>2
    <3> QED
      BY <3>1, <2>3, <2>5 DEF DealtPairs, DealtPair
  <2> QED
    BY <1>0, <2>2, <2>4, <2>5
<1>2. ASSUME ps \in AllPairs PROVE ps \in Pairs(p)
  <2>1. PICK a \in Dataowners : ps \in Pairs(a)
    BY <1>2 DEF AllPairs
  <2>2. PICK b \in Cross(a) : ps = {a, b}
    BY <2>1 DEF Pairs, Pair
  <2>3. a \in Cross(b) /\ b \in Dataowners
    BY DEF Cross
  <2>4. CASE p = a
    BY <2>2, <2>4 DEF Pairs, Pair
  <2>5. CASE p = b
    <3>1. ps = {b, a}
      BY <2>2
    <3> QED
      BY <3>1, <2>3, <2>5 DEF Pairs, Pair
  <2> QED
    BY <2>2, <2>4, <2>5
<1> QED
  BY <1>1, <1>2 DEF AllDealtPairs, AllPairs

\* For the peer sets p belongs to, the paired phases declare what the dealer and
\* the partners do.
LEMMA SamePeerSets ==
  ASSUME NEW p \in Dataowners
  PROVE  \A ps \in PeerSets : p \in ps =>
           /\ ps \in DealtPairs(p) <=> ps \in AllDealtPairs
           /\ ps \in Pairs(p) <=> ps \in AllPairs
BY PairOfParty

-----------------------------------------------------------------------------
(* The children of a paired phase *)

\* One child per partner, with the dealer or without.
DealtChildren(p, kind, T) == Children(kind, {DealtPair(p, q) : q \in T})
PairChildren(p, kind, T) == Children(kind, {Pair(p, q) : q \in T})

\* A dealt child is that with exactly one partner, and when it has completed those
\* that stay open are the children with the others.
LEMMA DealtChildLemma ==
  ASSUME NEW p \in Dataowners, NEW T \in SUBSET Cross(p), NEW kind, NEW q \in T
  PROVE  /\ Child(kind, DealtPair(p, q)) \in DealtChildren(p, kind, T)
         /\ Child(kind, DealtPair(p, q)).peers \ {p, Dealer} = {q}
         /\ Child(kind, DealtPair(p, q)).peers \cap Cross(p) = {q}
         /\ DealtChildren(p, kind, T) \ {Child(kind, DealtPair(p, q))}
              = DealtChildren(p, kind, T \ {q})
<1>1. q # p /\ q # Dealer /\ q \in Cross(p) /\ p \notin Cross(p) /\ Dealer \notin Cross(p)
  BY CrossLemma
<1>2. Child(kind, DealtPair(p, q)).peers = {p, q, Dealer}
  BY DEF Child, DealtPair
<1>3. /\ {p, q, Dealer} \ {p, Dealer} = {q}
      /\ {p, q, Dealer} \cap Cross(p) = {q}
  BY <1>1
<1>4. ASSUME NEW x \in T, Child(kind, {p, x, Dealer}) = Child(kind, {p, q, Dealer})
      PROVE  x = q
  <2>1. {p, x, Dealer} = {p, q, Dealer}
    BY <1>4 DEF Child
  <2>2. x # p /\ x # Dealer
    BY CrossLemma
  <2> QED
    BY <2>1, <2>2
<1>5. DealtChildren(p, kind, T) \ {Child(kind, DealtPair(p, q))}
        = DealtChildren(p, kind, T \ {q})
  BY <1>4 DEF DealtChildren, Children, DealtPair
<1>6. Child(kind, DealtPair(p, q)) \in DealtChildren(p, kind, T)
  BY DEF DealtChildren, Children
<1> QED
  BY <1>2, <1>3, <1>5, <1>6

\* The same for the children whose peers are the two dataowners alone.
LEMMA PairChildLemma ==
  ASSUME NEW p \in Dataowners, NEW T \in SUBSET Cross(p), NEW kind, NEW q \in T
  PROVE  /\ Child(kind, Pair(p, q)) \in PairChildren(p, kind, T)
         /\ Child(kind, Pair(p, q)).peers \ {p} = {q}
         /\ PairChildren(p, kind, T) \ {Child(kind, Pair(p, q))}
              = PairChildren(p, kind, T \ {q})
<1>1. q # p
  BY CrossLemma
<1>2. Child(kind, Pair(p, q)).peers = {p, q}
  BY DEF Child, Pair
<1>3. {p, q} \ {p} = {q}
  BY <1>1
<1>4. ASSUME NEW x \in T, Child(kind, {p, x}) = Child(kind, {p, q})
      PROVE  x = q
  <2>1. {p, x} = {p, q}
    BY <1>4 DEF Child
  <2>2. x # p
    BY CrossLemma
  <2> QED
    BY <2>1, <2>2
<1>5. PairChildren(p, kind, T) \ {Child(kind, Pair(p, q))}
        = PairChildren(p, kind, T \ {q})
  BY <1>4 DEF PairChildren, Children, Pair
<1>6. Child(kind, Pair(p, q)) \in PairChildren(p, kind, T)
  BY DEF PairChildren, Children
<1> QED
  BY <1>2, <1>3, <1>5, <1>6

\* A paired phase starts with all of them and ends with none.
LEMMA PairedChildren ==
  ASSUME NEW p \in Dataowners, NEW kind
  PROVE  /\ Children(kind, DealtPairs(p)) = DealtChildren(p, kind, Cross(p))
         /\ Children(kind, Pairs(p)) = PairChildren(p, kind, Cross(p))
         /\ DealtChildren(p, kind, {}) = {} /\ PairChildren(p, kind, {}) = {}
BY DEF DealtChildren, PairChildren, Pairs, DealtPairs, Children

\* A set of children has the size of the set of their peer sets.
LEMMA ChildrenCount ==
  ASSUME NEW kind, NEW S, IsFiniteSet(S)
  PROVE  /\ IsFiniteSet(Children(kind, S))
         /\ Cardinality(Children(kind, S)) = Cardinality(S)
<1> DEFINE f == [ps \in S |-> Child(kind, ps)]
<1>1. f \in [S -> Children(kind, S)]
  BY DEF Children
<1>2. \A a, b \in S : f[a] = f[b] => a = b
  BY DEF Child
<1>3. \A t \in Children(kind, S) : \E s \in S : f[s] = t
  BY DEF Children
<1>4. f \in Bijection(S, Children(kind, S))
  BY <1>1, <1>2, <1>3, Fun_IsBij
<1>5. ExistsBijection(S, Children(kind, S))
  BY <1>4 DEF ExistsBijection
<1> QED
  BY <1>5, FS_Bijection

\* There are as many as partners.
LEMMA PairedChildrenCount ==
  ASSUME NEW p \in Dataowners, NEW T \in SUBSET Cross(p), NEW kind
  PROVE  /\ Cardinality(DealtChildren(p, kind, T)) = Cardinality(T)
         /\ Cardinality(PairChildren(p, kind, T)) = Cardinality(T)
<1> DEFINE f == [q \in T |-> Child(kind, {p, q, Dealer})]
           g == [q \in T |-> Child(kind, {p, q})]
<1>0. IsFiniteSet(T) /\ \A q \in T : q # p /\ q # Dealer
  BY CrossLemma
<1>1. f \in Bijection(T, DealtChildren(p, kind, T))
  <2>1. /\ f \in [T -> DealtChildren(p, kind, T)]
        /\ \A t \in DealtChildren(p, kind, T) : \E q \in T : f[q] = t
    BY DEF DealtChildren, Children, DealtPair
  <2>2. ASSUME NEW a \in T, NEW b \in T, f[a] = f[b] PROVE a = b
    <3>1. {p, a, Dealer} = {p, b, Dealer}
      BY <2>2 DEF Child
    <3> QED
      BY <3>1, <1>0
  <2> QED
    BY <2>1, <2>2, Fun_IsBij
<1>2. g \in Bijection(T, PairChildren(p, kind, T))
  <2>1. /\ g \in [T -> PairChildren(p, kind, T)]
        /\ \A t \in PairChildren(p, kind, T) : \E q \in T : g[q] = t
    BY DEF PairChildren, Children, Pair
  <2>2. ASSUME NEW a \in T, NEW b \in T, g[a] = g[b] PROVE a = b
    <3>1. {p, a} = {p, b}
      BY <2>2 DEF Child
    <3> QED
      BY <3>1, <1>0
  <2> QED
    BY <2>1, <2>2, Fun_IsBij
<1>3. /\ ExistsBijection(T, DealtChildren(p, kind, T))
      /\ ExistsBijection(T, PairChildren(p, kind, T))
  BY <1>1, <1>2 DEF ExistsBijection
<1> QED
  BY <1>0, <1>3, FS_Bijection

\* The dealer has finitely many pairs to deal for.
LEMMA DealtPairsFinite ==
  /\ IsFiniteSet(AllDealtPairs)
  /\ Cardinality(AllDealtPairs) \in Nat
<1>1. IsFiniteSet(Parties)
  BY PartiesAssumption, FS_AddElement DEF Parties
<1>2. AllDealtPairs \in SUBSET (SUBSET Parties)
  BY DEF AllDealtPairs, DealtPairs, DealtPair, Parties, Cross
<1>3. IsFiniteSet(SUBSET Parties)
  BY <1>1, FS_SUBSET
<1> QED
  BY <1>1, <1>2, <1>3, FS_Subset, FS_CardinalityType

-----------------------------------------------------------------------------
(* Streams *)

\* A declaration only ever appends, and one kind at most.
LEMMA DeclareAppends ==
  ASSUME NEW K, NEW kind \in K, NEW S, NEW s \in [PeerSets -> Seq(K)]
  PROVE  /\ Declare(s, kind, S) \in [PeerSets -> Seq(K)]
         /\ \A ps \in PeerSets :
              /\ ps \in S => Declare(s, kind, S)[ps] = Append(s[ps], kind)
              /\ ps \notin S => Declare(s, kind, S)[ps] = s[ps]
              /\ Len(s[ps]) <= Len(Declare(s, kind, S)[ps])
              /\ \A n \in 1 .. Len(s[ps]) : Declare(s, kind, S)[ps][n] = s[ps][n]
<1>1. Declare(s, kind, S) \in [PeerSets -> Seq(K)]
  BY DEF Declare
<1>2. ASSUME NEW ps \in PeerSets
      PROVE  /\ ps \in S => Declare(s, kind, S)[ps] = Append(s[ps], kind)
             /\ ps \notin S => Declare(s, kind, S)[ps] = s[ps]
  BY DEF Declare
<1>3. ASSUME NEW t \in Seq(K)
      PROVE  /\ Len(t) <= Len(Append(t, kind))
             /\ \A n \in 1 .. Len(t) : Append(t, kind)[n] = t[n]
  OBVIOUS
<1>4. ASSUME NEW ps \in PeerSets
      PROVE  /\ Len(s[ps]) <= Len(Declare(s, kind, S)[ps])
             /\ \A n \in 1 .. Len(s[ps]) : Declare(s, kind, S)[ps][n] = s[ps][n]
  <2>1. s[ps] \in Seq(K) /\ Len(s[ps]) \in Nat
    OBVIOUS
  <2> QED
    BY <1>2, <1>3, <2>1
<1> QED
  BY <1>1, <1>2, <1>4

\* What s has for ps, t has too, in the same places, and maybe more.
Below(s, t, ps) ==
  /\ Len(s[ps]) <= Len(t[ps])
  /\ \A n \in 1 .. Len(s[ps]) : s[ps][n] = t[ps][n]

\* A stream is below what it becomes by a declaration.
LEMMA BelowDeclare ==
  ASSUME NEW K, NEW kind \in K, NEW S, NEW s \in [PeerSets -> Seq(K)],
         NEW ps \in PeerSets
  PROVE  Below(s, Declare(s, kind, S), ps)
BY DeclareAppends DEF Below

\* To be below is reflexive and transitive.
LEMMA BelowOrder ==
  ASSUME NEW K, NEW s \in [PeerSets -> Seq(K)], NEW t \in [PeerSets -> Seq(K)],
         NEW u \in [PeerSets -> Seq(K)], NEW ps \in PeerSets
  PROVE  /\ Below(s, s, ps)
         /\ Below(s, t, ps) /\ Below(t, u, ps) => Below(s, u, ps)
<1>1. Len(s[ps]) \in Nat /\ Len(t[ps]) \in Nat /\ Len(u[ps]) \in Nat
  OBVIOUS
<1> QED
  BY <1>1 DEF Below
=============================================================================
