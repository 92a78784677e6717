---------------------------- MODULE LookupProofs ----------------------------
(***************************************************************************)
(* Proofs about Lookup: for every number of dataowners, every table and    *)
(* every modulus that is more than twice as large, the dataowners end with *)
(* shares of the row that was looked up, and the revealer never takes a    *)
(* share for the opened index.                                             *)
(*                                                                         *)
(* First what the folds of FiniteSetsExt compute over finite sets, for     *)
(* sums and for XOR (symmetric difference), and the modular arithmetic     *)
(* that adding shares needs.  Induction is over sets: a set of numbers     *)
(* that is not empty has a least one (WFMin), and so a set that holds 0    *)
(* and every successor holds all.                                          *)
(***************************************************************************)
EXTENDS Lookup, FiniteSetTheorems, WellFoundedInduction, TLAPS

-----------------------------------------------------------------------------
(* Induction *)

\* A set of natural numbers that is not empty has a least member.
LEMMA LeastNat ==
  ASSUME NEW T, T \subseteq Nat, T # {}
  PROVE  \E x \in T : \A y \in T : x <= y
<1> DEFINE R == OpToRel(<, Nat)
<1>1. \A x, y \in Nat : <<y, x>> \in R <=> y < x
  BY DEF OpToRel
<1>2. IsWellFoundedOn(R, Nat)
  BY NatLessThanWellFounded, Zenon
<1> HIDE DEF R
<1>3. PICK x \in T : \A y \in T : ~(<<y, x>> \in R)
  BY <1>2, WFMin
<1>4. \A y \in T : ~(y < x)
  BY <1>1, <1>3
<1>5. \A y \in T : x <= y
  BY <1>4
<1> QED
  BY <1>5

\* A set that holds 0 and the successors of its members holds every number.
LEMMA NatInSet ==
  ASSUME NEW S, 0 \in S, \A n \in Nat : n \in S => n + 1 \in S
  PROVE  Nat \subseteq S
<1>1. SUFFICES ASSUME Nat \ S # {} PROVE FALSE
  OBVIOUS
<1>2. PICK x \in Nat \ S : \A y \in Nat \ S : x <= y
  BY <1>1, LeastNat
<1>3. x # 0 /\ x - 1 \in Nat /\ x - 1 \in S
  BY <1>2
<1> QED
  BY <1>2, <1>3

\* The member the folds take next.
Any(s) == CHOOSE x \in s : TRUE

\* The subsets of S with at most n members.
UpTo(S, n) == {s \in SUBSET S : Cardinality(s) <= n}

\* What is true of a set whenever it is of its proper subsets is true of all
\* subsets of a finite set.
LEMMA SmallerInduction ==
  ASSUME NEW S, IsFiniteSet(S), NEW F,
         \A s \in SUBSET S : (\A t \in SUBSET s : t # s => t \in F) => s \in F
  PROVE  SUBSET S \subseteq F
<1> DEFINE N == {n \in Nat : UpTo(S, n) \subseteq F}
<1>0. \A s \in SUBSET S : IsFiniteSet(s) /\ Cardinality(s) \in Nat
  BY FS_Subset, FS_CardinalityType
<1>1. ASSUME NEW s \in SUBSET S, NEW t \in SUBSET s, t # s
      PROVE  Cardinality(t) < Cardinality(s) /\ Cardinality(t) \in Nat
  BY <1>0, <1>1, FS_Subset
<1>2. 0 \in N
  <2>1. ASSUME NEW s \in UpTo(S, 0) PROVE s \in F
    <3>1. s \in SUBSET S /\ Cardinality(s) = 0
      BY <1>0 DEF UpTo
    <3>2. ASSUME NEW t \in SUBSET s, t # s PROVE FALSE
      BY <1>1, <3>1, <3>2
    <3> QED
      BY <3>1, <3>2
  <2> QED
    BY <2>1
<1>3. ASSUME NEW n \in Nat, n \in N PROVE n + 1 \in N
  <2>1. ASSUME NEW s \in UpTo(S, n + 1) PROVE s \in F
    <3>1. s \in SUBSET S /\ Cardinality(s) <= n + 1 /\ Cardinality(s) \in Nat
      BY <1>0 DEF UpTo
    <3>2. ASSUME NEW t \in SUBSET s, t # s PROVE t \in F
      <4>1. t \in SUBSET S /\ Cardinality(t) <= n
        BY <1>1, <3>1, <3>2
      <4> QED
        BY <1>3, <4>1 DEF UpTo
    <3> QED
      BY <3>1, <3>2
  <2>2. UpTo(S, n + 1) \subseteq F
    BY <2>1
  <2> QED
    BY <2>2
<1>4. Nat \subseteq N
  <2> HIDE DEF N
  <2> QED
    BY <1>2, <1>3, NatInSet
<1>5. ASSUME NEW s \in SUBSET S PROVE s \in F
  <2>1. Cardinality(s) \in Nat /\ s \in UpTo(S, Cardinality(s))
    BY <1>0 DEF UpTo
  <2> QED
    BY <1>4, <2>1
<1> QED
  BY <1>5

\* What is true of the empty set and of s whenever it is of what is left when the
\* next member is taken, is true of all subsets.
LEMMA TakeInduction ==
  ASSUME NEW S, IsFiniteSet(S), NEW F, {} \in F,
         \A s \in SUBSET S : s # {} /\ s \ {Any(s)} \in F => s \in F
  PROVE  SUBSET S \subseteq F
<1>1. ASSUME NEW s \in SUBSET S, s # {} PROVE s \ {Any(s)} \in SUBSET s /\ s \ {Any(s)} # s
  BY <1>1 DEF Any
<1>2. ASSUME NEW s \in SUBSET S, \A t \in SUBSET s : t # s => t \in F PROVE s \in F
  BY <1>1, <1>2
<1> QED
  BY <1>2, SmallerInduction

\* What is true of the empty set and is not lost by adding a member is true of all
\* subsets.
LEMMA SubsetInduction ==
  ASSUME NEW S, IsFiniteSet(S), NEW F, {} \in F,
         \A A \in SUBSET S : \A x \in S \ A : A \in F => A \cup {x} \in F
  PROVE  SUBSET S \subseteq F
<1>1. ASSUME NEW s \in SUBSET S, s # {}, s \ {Any(s)} \in F PROVE s \in F
  <2>1. Any(s) \in s
    BY <1>1 DEF Any
  <2>2. s \ {Any(s)} \in SUBSET S /\ Any(s) \in S \ (s \ {Any(s)})
    BY <2>1
  <2>3. (s \ {Any(s)}) \cup {Any(s)} = s
    BY <2>1
  <2>4. (s \ {Any(s)}) \cup {Any(s)} \in F
    BY <1>1, <2>2
  <2> QED
    BY <2>3, <2>4
<1> QED
  BY <1>1, TakeInduction

-----------------------------------------------------------------------------
(* Folds *)

\* An operation (a function of one argument, then the other) that may be applied in
\* any order.
Commutes(V, plus, zero) ==
  /\ plus \in [V -> [V -> V]] /\ zero \in V
  /\ \A a, b \in V : plus[a][b] = plus[b][a]
  /\ \A a, b, c \in V : plus[a][plus[b][c]] = plus[b][plus[a][c]]

\* g is what the recursive function of a fold over S is meant to be.
IsFold(g, f, plus, zero, S) ==
  /\ g[{}] = zero
  /\ \A s \in SUBSET S : s # {} => g[s] = plus[f[Any(s)]][g[s \ {Any(s)}]]

\* A fold stays among the values.
LEMMA FoldType ==
  ASSUME NEW V, NEW plus, NEW zero, Commutes(V, plus, zero), NEW S, IsFiniteSet(S),
         NEW f, \A x \in S : f[x] \in V, NEW g, IsFold(g, f, plus, zero, S)
  PROVE  \A s \in SUBSET S : g[s] \in V
<1> DEFINE F == {s \in SUBSET S : g[s] \in V}
<1>0. \A a, b \in V : plus[a][b] \in V
  BY DEF Commutes
<1>1. {} \in F
  BY DEF IsFold, Commutes
<1>2. ASSUME NEW s \in SUBSET S, s # {}, s \ {Any(s)} \in F PROVE s \in F
  <2>1. Any(s) \in S
    BY <1>2 DEF Any
  <2>2. f[Any(s)] \in V /\ g[s \ {Any(s)}] \in V
    BY <1>2, <2>1
  <2>3. plus[f[Any(s)]][g[s \ {Any(s)}]] \in V
    BY ONLY <1>0, <2>2
  <2> QED
    BY <1>2, <2>3 DEF IsFold
<1>3. SUBSET S \subseteq F
  <2> HIDE DEF F
  <2> QED
    BY <1>1, <1>2, TakeInduction
<1> QED
  BY <1>3

\* A fold may take any member first.
LEMMA FoldTakes ==
  ASSUME NEW V, NEW plus, NEW zero, Commutes(V, plus, zero), NEW S, IsFiniteSet(S),
         NEW f, \A x \in S : f[x] \in V, NEW g, IsFold(g, f, plus, zero, S)
  PROVE  \A s \in SUBSET S : \A x \in s : g[s] = plus[f[x]][g[s \ {x}]]
<1> DEFINE F == {s \in SUBSET S : \A x \in s : g[s] = plus[f[x]][g[s \ {x}]]}
<1>0. \A s \in SUBSET S : g[s] \in V
  BY FoldType
<1>1. ASSUME NEW s \in SUBSET S, \A t \in SUBSET s : t # s => t \in F PROVE s \in F
  <2> SUFFICES ASSUME NEW x \in s PROVE g[s] = plus[f[x]][g[s \ {x}]]
    OBVIOUS
  <2> DEFINE y == Any(s)
  <2>1. y \in s /\ x \in S /\ y \in S
    BY DEF Any
  <2>2. g[s] = plus[f[y]][g[s \ {y}]]
    BY DEF IsFold
  <2>3. CASE x = y
    BY <2>2, <2>3
  <2>4. CASE x # y
    <3> DEFINE rest == (s \ {x}) \ {y}
    <3> HIDE DEF y
    <3>1. s \ {y} \in SUBSET s /\ s \ {y} # s /\ s \ {x} \in SUBSET s /\ s \ {x} # s
      BY <2>1
    <3>2. x \in s \ {y} /\ y \in s \ {x} /\ (s \ {y}) \ {x} = rest /\ rest \in SUBSET S
      BY <2>1, <2>4
    <3>3. g[s \ {y}] = plus[f[x]][g[rest]]
      BY <1>1, <3>1, <3>2
    <3>4. g[s \ {x}] = plus[f[y]][g[rest]]
      BY <1>1, <3>1, <3>2
    <3>5. f[x] \in V /\ f[y] \in V /\ g[rest] \in V
      BY <1>0, <2>1, <3>2
    <3>6. plus[f[y]][plus[f[x]][g[rest]]] = plus[f[x]][plus[f[y]][g[rest]]]
      <4>1. \A a, b, c \in V : plus[a][plus[b][c]] = plus[b][plus[a][c]]
        BY DEF Commutes
      <4> QED
        BY ONLY <3>5, <4>1
    <3> QED
      BY <2>2, <3>3, <3>4, <3>6
  <2> QED
    BY <2>3, <2>4
<1>2. SUBSET S \subseteq F
  <2> HIDE DEF F
  <2> QED
    BY <1>1, SmallerInduction
<1> QED
  BY <1>2

\* Two folds agree on the sets that both reach.
LEMMA FoldsAgree ==
  ASSUME NEW V, NEW plus, NEW zero, Commutes(V, plus, zero), NEW S, IsFiniteSet(S),
         NEW T, T \subseteq S,
         NEW f, NEW g, IsFold(g, f, plus, zero, S), NEW h, IsFold(h, f, plus, zero, T)
  PROVE  \A s \in SUBSET T : g[s] = h[s]
<1> DEFINE F == {s \in SUBSET T : g[s] = h[s]}
<1>1. {} \in F
  BY DEF IsFold
<1>2. ASSUME NEW s \in SUBSET T, s # {}, s \ {Any(s)} \in F PROVE s \in F
  BY <1>2 DEF IsFold
<1>3. IsFiniteSet(T)
  BY FS_Subset
<1>4. SUBSET T \subseteq F
  <2> HIDE DEF F
  <2> QED
    BY <1>1, <1>2, <1>3, TakeInduction
<1> QED
  BY <1>4

\* There is a fold over every finite set.
LEMMA FoldExists ==
  ASSUME NEW V, NEW plus, NEW zero, Commutes(V, plus, zero), NEW S, IsFiniteSet(S),
         NEW f, \A x \in S : f[x] \in V
  PROVE  \E g \in [SUBSET S -> V] : IsFold(g, f, plus, zero, S)
<1> DEFINE Good(g, n) ==
             /\ g \in [UpTo(S, n) -> V] /\ g[{}] = zero
             /\ \A s \in UpTo(S, n) : s # {} => g[s] = plus[f[Any(s)]][g[s \ {Any(s)}]]
           N == {n \in Nat : \E g : Good(g, n)}
<1>0. \A s \in SUBSET S : IsFiniteSet(s) /\ Cardinality(s) \in Nat
  BY FS_Subset, FS_CardinalityType
<1>1. \A a, b \in V : plus[a][b] \in V
  BY DEF Commutes
<1>2. zero \in V
  BY DEF Commutes
<1>3. \A n \in Nat : {} \in UpTo(S, n)
  BY FS_EmptySet DEF UpTo
<1>4. 0 \in N
  <2> DEFINE g == [s \in UpTo(S, 0) |-> zero]
  <2>1. \A s \in UpTo(S, 0) : s = {}
    BY <1>0, FS_EmptySet DEF UpTo
  <2>2. Good(g, 0)
    BY <1>2, <1>3, <2>1
  <2> QED
    BY <2>2
<1>5. ASSUME NEW s \in SUBSET S, s # {}, NEW n \in Nat, Cardinality(s) <= n + 1
      PROVE  f[Any(s)] \in V /\ s \ {Any(s)} \in UpTo(S, n)
  <2>1. Any(s) \in s
    BY <1>5 DEF Any
  <2>2. s \ {Any(s)} \in SUBSET s /\ s \ {Any(s)} # s
    BY <2>1
  <2>3. Cardinality(s \ {Any(s)}) < Cardinality(s)
    BY <1>0, <2>2, FS_Subset
  <2>4. s \ {Any(s)} \in SUBSET S
    OBVIOUS
  <2>5. Cardinality(s \ {Any(s)}) \in Nat /\ Cardinality(s) \in Nat
    BY <1>0, <2>4
  <2> QED
    BY <1>5, <2>1, <2>3, <2>4, <2>5 DEF UpTo
<1>6. ASSUME NEW n \in Nat, n \in N PROVE n + 1 \in N
  <2>1. PICK g : Good(g, n)
    BY <1>6
  <2> DEFINE E(s) == IF s = {} THEN zero ELSE plus[f[Any(s)]][g[s \ {Any(s)}]]
             h == [s \in UpTo(S, n + 1) |-> E(s)]
  <2>2. ASSUME NEW s \in UpTo(S, n + 1), s # {}
        PROVE  f[Any(s)] \in V /\ s \ {Any(s)} \in UpTo(S, n)
    BY <1>5, <2>2 DEF UpTo
  <2>3. ASSUME NEW s \in UpTo(S, n + 1) PROVE E(s) \in V
    <3>1. CASE s = {}
      BY <1>2, <3>1
    <3>2. CASE s # {}
      <4>1. f[Any(s)] \in V /\ g[s \ {Any(s)}] \in V
        BY <2>1, <2>2, <3>2
      <4>2. plus[f[Any(s)]][g[s \ {Any(s)}]] \in V
        BY ONLY <1>1, <4>1
      <4> QED
        BY <3>2, <4>2
    <3> QED
      BY <3>1, <3>2
  <2>4. h \in [UpTo(S, n + 1) -> V]
    <3> HIDE DEF E
    <3> QED
      BY <2>3
  <2>5. ASSUME NEW s \in UpTo(S, n) PROVE s \in UpTo(S, n + 1) /\ h[s] = g[s]
    <3>1. s \in UpTo(S, n + 1)
      BY <1>0 DEF UpTo
    <3>2. E(s) = g[s]
      BY <2>1
    <3> QED
      BY <3>1, <3>2
  <2>6. ASSUME NEW s \in UpTo(S, n + 1), s # {}
        PROVE  h[s] = plus[f[Any(s)]][h[s \ {Any(s)}]]
    BY <2>2, <2>5, <2>6
  <2>7. h[{}] = zero
    BY <1>3
  <2> QED
    <3> HIDE DEF h
    <3> QED
      BY <2>4, <2>6, <2>7
<1>7. Nat \subseteq N
  <2> HIDE DEF N
  <2> QED
    BY <1>4, <1>6, NatInSet
<1>8. UpTo(S, Cardinality(S)) = SUBSET S
  BY <1>0, FS_Subset DEF UpTo
<1>9. PICK g : Good(g, Cardinality(S))
  BY <1>0, <1>7
<1> QED
  BY <1>8, <1>9 DEF IsFold

-----------------------------------------------------------------------------
(* Sums and XORs *)

Sum(f, S) == MapThenSumSet(LAMBDA p : f[p], S)
Xor(f, S) == FoldSet(LAMBDA p, acc : SymDiff(f[p], acc), {}, S)

IntPlus == [a \in Int |-> [b \in Int |-> a + b]]
SetXor(W) == [a \in SUBSET W |-> [b \in SUBSET W |-> SymDiff(a, b)]]

\* Numbers may be added in any order.
LEMMA IntCommutes == Commutes(Int, IntPlus, 0) /\ \A a, b \in Int : IntPlus[a][b] = a + b
BY DEF Commutes, IntPlus

\* Sets of bits may be XORed in any order.
LEMMA SetCommutes ==
  ASSUME NEW W
  PROVE  /\ Commutes(SUBSET W, SetXor(W), {})
         /\ \A a, b \in SUBSET W : SetXor(W)[a][b] = SymDiff(a, b)
<1>1. \A a, b \in SUBSET W : SetXor(W)[a][b] = SymDiff(a, b)
  BY DEF SetXor
<1>2. \A a, b \in SUBSET W : SymDiff(a, b) \in SUBSET W /\ SymDiff(a, b) = SymDiff(b, a)
  BY DEF SymDiff
<1>3. \A a, b, c \in SUBSET W :
        SymDiff(a, SymDiff(b, c)) = SymDiff(b, SymDiff(a, c))
  BY DEF SymDiff
<1>4. SetXor(W) \in [SUBSET W -> [SUBSET W -> SUBSET W]]
  BY <1>2 DEF SetXor
<1> QED
  BY <1>1, <1>2, <1>3, <1>4 DEF Commutes

\* The recursive functions in the two folds.
SumFn(f, S) ==
  CHOOSE g : g = [s \in SUBSET S |->
                    IF s = {} THEN 0
                    ELSE f[CHOOSE x \in s : TRUE] + g[s \ {CHOOSE x \in s : TRUE}]]
XorFn(f, S) ==
  CHOOSE g : g = [s \in SUBSET S |->
                    IF s = {} THEN {}
                    ELSE SymDiff(f[CHOOSE x \in s : TRUE],
                                 g[s \ {CHOOSE x \in s : TRUE}])]

\* A sum is the last value of its recursive function.
LEMMA SumDef == ASSUME NEW f, NEW S PROVE Sum(f, S) = SumFn(f, S)[S]
BY DEF Sum, SumFn, MapThenSumSet, MapThenFoldSet

\* So is an XOR.
LEMMA XorDef == ASSUME NEW f, NEW S PROVE Xor(f, S) = XorFn(f, S)[S]
BY DEF Xor, XorFn, FoldSet, MapThenFoldSet

\* The recursive function of a sum is a fold.
LEMMA SumIsFold ==
  ASSUME NEW S, IsFiniteSet(S), NEW f, \A x \in S : f[x] \in Int
  PROVE  IsFold(SumFn(f, S), f, IntPlus, 0, S)
<1> DEFINE E(g) == [s \in SUBSET S |->
                      IF s = {} THEN 0 ELSE f[Any(s)] + g[s \ {Any(s)}]]
           h == SumFn(f, S)
<1>0. \A s \in SUBSET S : s # {} => f[Any(s)] \in Int /\ s \ {Any(s)} \in SUBSET S
  BY DEF Any
<1>1. h = E(h)
  <2>1. PICK g \in [SUBSET S -> Int] : IsFold(g, f, IntPlus, 0, S)
    BY IntCommutes, FoldExists
  <2>2. \A s \in SUBSET S : g[s] = IF s = {} THEN 0 ELSE f[Any(s)] + g[s \ {Any(s)}]
    BY <1>0, <2>1, IntCommutes DEF IsFold
  <2>3. g = E(g)
    BY <2>1, <2>2
  <2>4. \E k : k = E(k)
    BY <2>3
  <2> QED
    BY <2>4 DEF SumFn, Any
<1> HIDE DEF h
<1>2. h[{}] = 0 /\ \A s \in SUBSET S : s # {} => h[s] = f[Any(s)] + h[s \ {Any(s)}]
  BY <1>1
<1> HIDE DEF E
<1> DEFINE F == {s \in SUBSET S : h[s] \in Int}
<1>3. SUBSET S \subseteq F
  <2>1. {} \in F
    BY <1>2
  <2>2. ASSUME NEW s \in SUBSET S, s # {}, s \ {Any(s)} \in F PROVE s \in F
    BY <1>0, <1>2, <2>2
  <2> HIDE DEF F
  <2> QED
    BY <2>1, <2>2, TakeInduction
<1>4. IsFold(h, f, IntPlus, 0, S)
  BY <1>0, <1>2, <1>3, IntCommutes DEF IsFold
<1> QED
  BY <1>4 DEF h

\* What a sum is: 0 for nothing, and any member may be split off.
LEMMA SumLemma ==
  ASSUME NEW S, IsFiniteSet(S), NEW f, \A x \in S : f[x] \in Int
  PROVE  /\ Sum(f, {}) = 0
         /\ Sum(f, S) \in Int
         /\ \A x \in S : Sum(f, S) = f[x] + Sum(f, S \ {x})
<1>1. IsFold(SumFn(f, S), f, IntPlus, 0, S)
  BY SumIsFold
<1>2. \A s \in SUBSET S : SumFn(f, S)[s] \in Int
  BY <1>1, IntCommutes, FoldType
<1>3. ASSUME NEW T \in SUBSET S PROVE Sum(f, T) = SumFn(f, S)[T]
  <2>1. IsFold(SumFn(f, T), f, IntPlus, 0, T)
    BY SumIsFold, FS_Subset
  <2>2. SumFn(f, S)[T] = SumFn(f, T)[T]
    BY <1>1, <2>1, IntCommutes, FoldsAgree
  <2> QED
    BY <2>2, SumDef
<1>4. ASSUME NEW x \in S PROVE Sum(f, S) = f[x] + Sum(f, S \ {x})
  <2>1. SumFn(f, S)[S] = IntPlus[f[x]][SumFn(f, S)[S \ {x}]]
    BY <1>1, IntCommutes, FoldTakes
  <2>2. f[x] \in Int /\ SumFn(f, S)[S \ {x}] \in Int
    BY <1>2
  <2> QED
    BY <1>3, <2>1, <2>2, IntCommutes
<1> QED
  BY <1>1, <1>2, <1>3, <1>4 DEF IsFold

\* The recursive function of an XOR is a fold.
LEMMA XorIsFold ==
  ASSUME NEW W, NEW S, IsFiniteSet(S), NEW f, \A x \in S : f[x] \in SUBSET W
  PROVE  IsFold(XorFn(f, S), f, SetXor(W), {}, S)
<1> DEFINE E(g) == [s \in SUBSET S |->
                      IF s = {} THEN {} ELSE SymDiff(f[Any(s)], g[s \ {Any(s)}])]
           h == XorFn(f, S)
<1> DEFINE V == SUBSET W
<1>a. /\ Commutes(V, SetXor(W), {}) /\ \A x \in S : f[x] \in V
      /\ \A a, b \in V : SetXor(W)[a][b] = SymDiff(a, b)
  BY SetCommutes
<1>b. \A a, b \in V : SymDiff(a, b) \in V
  BY DEF SymDiff
<1>c. {} \in V
  OBVIOUS
<1> HIDE DEF V
<1>0. \A s \in SUBSET S : s # {} => f[Any(s)] \in V /\ s \ {Any(s)} \in SUBSET S
  BY <1>a DEF Any
<1>1. h = E(h)
  <2>1. PICK g \in [SUBSET S -> V] : IsFold(g, f, SetXor(W), {}, S)
    BY <1>a, FoldExists
  <2>2. \A s \in SUBSET S :
          g[s] = IF s = {} THEN {} ELSE SymDiff(f[Any(s)], g[s \ {Any(s)}])
    BY <1>0, <1>a, <2>1 DEF IsFold
  <2>3. g = E(g)
    BY <2>1, <2>2
  <2>4. \E k : k = E(k)
    BY <2>3
  <2> QED
    BY <2>4 DEF XorFn, Any
<1> HIDE DEF h
<1>2. h[{}] = {} /\ \A s \in SUBSET S : s # {} => h[s] = SymDiff(f[Any(s)], h[s \ {Any(s)}])
  BY <1>1
<1> HIDE DEF E
<1> DEFINE F == {s \in SUBSET S : h[s] \in V}
<1>3. SUBSET S \subseteq F
  <2>1. {} \in F
    BY <1>2, <1>c
  <2>2. ASSUME NEW s \in SUBSET S, s # {}, s \ {Any(s)} \in F PROVE s \in F
    BY <1>0, <1>2, <1>b, <2>2
  <2> HIDE DEF F
  <2> QED
    BY <2>1, <2>2, TakeInduction
<1>4. IsFold(h, f, SetXor(W), {}, S)
  BY <1>0, <1>2, <1>3, <1>a DEF IsFold
<1> QED
  BY <1>4 DEF h

\* What an XOR is: nothing for nothing, and any member may be split off.
LEMMA XorLemma ==
  ASSUME NEW S, IsFiniteSet(S), NEW f
  PROVE  /\ Xor(f, {}) = {}
         /\ \A x \in S : Xor(f, S) = SymDiff(f[x], Xor(f, S \ {x}))
         /\ Xor(f, S) \subseteq UNION {f[x] : x \in S}
<1> DEFINE W == UNION {f[x] : x \in S}
<1>0. \A x \in S : f[x] \in SUBSET W
  OBVIOUS
<1> HIDE DEF W
<1>1. IsFold(XorFn(f, S), f, SetXor(W), {}, S)
  BY <1>0, XorIsFold
<1> DEFINE V == SUBSET W
<1>a. /\ Commutes(V, SetXor(W), {}) /\ \A x \in S : f[x] \in V
      /\ \A a, b \in V : SetXor(W)[a][b] = SymDiff(a, b)
  BY <1>0, SetCommutes
<1>b. \A a, b \in V : SymDiff(a, b) \in V
  BY DEF SymDiff
<1>c. {} \in V
  OBVIOUS
<1> HIDE DEF V
<1>2. \A s \in SUBSET S : XorFn(f, S)[s] \in V
  BY <1>1, <1>a, FoldType
<1>3. ASSUME NEW T \in SUBSET S PROVE Xor(f, T) = XorFn(f, S)[T]
  <2>1. IsFold(XorFn(f, T), f, SetXor(W), {}, T)
    BY <1>0, XorIsFold, FS_Subset
  <2>2. XorFn(f, S)[T] = XorFn(f, T)[T]
    BY <1>1, <1>a, <2>1, FoldsAgree
  <2> QED
    BY <2>2, XorDef
<1>4. ASSUME NEW x \in S PROVE Xor(f, S) = SymDiff(f[x], Xor(f, S \ {x}))
  <2>1. XorFn(f, S)[S] = SetXor(W)[f[x]][XorFn(f, S)[S \ {x}]]
    BY <1>1, <1>a, FoldTakes
  <2>2. f[x] \in V /\ XorFn(f, S)[S \ {x}] \in V
    BY <1>2, <1>a
  <2> QED
    BY <1>3, <1>a, <2>1, <2>2
<1> QED
  BY <1>1, <1>2, <1>3, <1>4 DEF IsFold, V, W

\* A sum depends only on what is added.
LEMMA SumSame ==
  ASSUME NEW S, IsFiniteSet(S), NEW f, NEW g, \A x \in S : f[x] \in Int /\ g[x] = f[x]
  PROVE  Sum(g, S) = Sum(f, S)
<1> DEFINE F == {A \in SUBSET S : Sum(g, A) = Sum(f, A)}
<1>1. {} \in F
  BY SumLemma, FS_EmptySet
<1>2. ASSUME NEW A \in SUBSET S, NEW x \in S \ A, A \in F PROVE A \cup {x} \in F
  <2>1. IsFiniteSet(A \cup {x}) /\ (A \cup {x}) \ {x} = A /\ A \cup {x} \in SUBSET S
    BY FS_Subset
  <2>2. Sum(f, A \cup {x}) = f[x] + Sum(f, A)
    BY <2>1, SumLemma
  <2>3. Sum(g, A \cup {x}) = g[x] + Sum(g, A)
    BY <2>1, SumLemma
  <2> QED
    BY <1>2, <2>1, <2>2, <2>3
<1>3. SUBSET S \subseteq F
  <2> HIDE DEF F
  <2> QED
    BY <1>1, <1>2, SubsetInduction
<1> QED
  BY <1>3

\* An XOR depends only on what is XORed.
LEMMA XorSame ==
  ASSUME NEW S, IsFiniteSet(S), NEW f, NEW g, \A x \in S : g[x] = f[x]
  PROVE  Xor(g, S) = Xor(f, S)
<1> DEFINE F == {A \in SUBSET S : Xor(g, A) = Xor(f, A)}
<1>1. {} \in F
  BY XorLemma, FS_EmptySet
<1>2. ASSUME NEW A \in SUBSET S, NEW x \in S \ A, A \in F PROVE A \cup {x} \in F
  <2>1. IsFiniteSet(A \cup {x}) /\ (A \cup {x}) \ {x} = A /\ A \cup {x} \in SUBSET S
    BY FS_Subset
  <2>2. Xor(f, A \cup {x}) = SymDiff(f[x], Xor(f, A))
    BY <2>1, XorLemma
  <2>3. Xor(g, A \cup {x}) = SymDiff(g[x], Xor(g, A))
    BY <2>1, XorLemma
  <2> QED
    BY <1>2, <2>1, <2>2, <2>3
<1>3. SUBSET S \subseteq F
  <2> HIDE DEF F
  <2> QED
    BY <1>1, <1>2, SubsetInduction
<1> QED
  BY <1>3

\* The XOR over a single member, and over one member more or less.
LEMMA XorToggle ==
  ASSUME NEW S, IsFiniteSet(S), NEW f, NEW x
  PROVE  /\ Xor(f, {x}) = f[x]
         /\ Xor(f, SymDiff({x}, S)) = SymDiff(f[x], Xor(f, S))
<1>1. Xor(f, {x}) = f[x]
  <2>1. Xor(f, {}) = {} /\ {x} \ {x} = {} /\ IsFiniteSet({x})
    BY XorLemma, FS_EmptySet, FS_Singleton
  <2>2. Xor(f, {x}) = SymDiff(f[x], {})
    BY <2>1, XorLemma
  <2> QED
    BY <2>2 DEF SymDiff
<1>2. CASE x \in S
  <2>1. Xor(f, S) = SymDiff(f[x], Xor(f, S \ {x}))
    BY <1>2, XorLemma
  <2>2. SymDiff(f[x], Xor(f, S)) = Xor(f, S \ {x})
    BY <2>1 DEF SymDiff
  <2>3. SymDiff({x}, S) = S \ {x}
    BY <1>2 DEF SymDiff
  <2> QED
    BY <1>1, <2>2, <2>3
<1>3. CASE x \notin S
  <2>1. SymDiff({x}, S) = S \cup {x}
    BY <1>3 DEF SymDiff
  <2>2. IsFiniteSet(S \cup {x}) /\ x \in S \cup {x} /\ (S \cup {x}) \ {x} = S
    BY <1>3, FS_AddElement
  <2>3. Xor(f, S \cup {x}) = SymDiff(f[x], Xor(f, S))
    BY <2>2, XorLemma
  <2> QED
    BY <1>1, <2>1, <2>3
<1> QED
  BY <1>2, <1>3

\* The XOR over the members of exactly one of two sets is the XOR of the XORs.
LEMMA XorLinear ==
  ASSUME NEW S, IsFiniteSet(S), NEW f, NEW A \in SUBSET S, NEW B \in SUBSET S
  PROVE  Xor(f, SymDiff(A, B)) = SymDiff(Xor(f, A), Xor(f, B))
<1> DEFINE F == {C \in SUBSET S : Xor(f, SymDiff(C, B)) = SymDiff(Xor(f, C), Xor(f, B))}
<1>0. \A C \in SUBSET S : SymDiff(C, B) \in SUBSET S
  BY DEF SymDiff
<1>1. {} \in F
  <2>1. Xor(f, {}) = {}
    BY XorLemma
  <2>2. SymDiff({}, B) = B /\ SymDiff({}, Xor(f, B)) = Xor(f, B)
    BY DEF SymDiff
  <2> QED
    BY <2>1, <2>2
<1>2. ASSUME NEW C \in SUBSET S, NEW x \in S \ C, C \in F PROVE C \cup {x} \in F
  <2>1. SymDiff(C \cup {x}, B) = SymDiff({x}, SymDiff(C, B))
    BY <1>2 DEF SymDiff
  <2>2. C \cup {x} = SymDiff({x}, C) /\ C \cup {x} \in SUBSET S
    BY <1>2 DEF SymDiff
  <2>3. IsFiniteSet(C) /\ IsFiniteSet(SymDiff(C, B))
    BY <1>0, FS_Subset
  <2>4. Xor(f, SymDiff({x}, SymDiff(C, B))) = SymDiff(f[x], Xor(f, SymDiff(C, B)))
    BY <2>3, XorToggle
  <2>5. Xor(f, SymDiff({x}, C)) = SymDiff(f[x], Xor(f, C))
    BY <2>3, XorToggle
  <2>6. \A a, b, c : SymDiff(a, SymDiff(b, c)) = SymDiff(SymDiff(a, b), c)
    BY DEF SymDiff
  <2> QED
    BY <1>2, <2>1, <2>2, <2>4, <2>5, <2>6
<1>3. SUBSET S \subseteq F
  <2> HIDE DEF F
  <2> QED
    BY <1>1, <1>2, SubsetInduction
<1> QED
  BY <1>3

\* Selecting from f by several selections and XORing the results is selecting by the
\* XOR of the selections.
LEMMA XorOfXors ==
  ASSUME NEW S, IsFiniteSet(S), NEW f, NEW D, IsFiniteSet(D),
         NEW us, \A p \in D : us[p] \in SUBSET S,
         NEW g, \A p \in D : g[p] = Xor(f, us[p])
  PROVE  Xor(g, D) = Xor(f, Xor(us, D))
<1> DEFINE F == {C \in SUBSET D : Xor(us, C) \in SUBSET S /\ Xor(g, C) = Xor(f, Xor(us, C))}
<1>1. {} \in F
  <2>1. Xor(us, {}) = {} /\ Xor(g, {}) = {} /\ Xor(f, {}) = {}
    BY XorLemma
  <2> QED
    BY <2>1
<1>2. ASSUME NEW C \in SUBSET D, NEW x \in D \ C, C \in F PROVE C \cup {x} \in F
  <2>1. C \cup {x} = SymDiff({x}, C) /\ C \cup {x} \in SUBSET D /\ IsFiniteSet(C)
    BY <1>2, FS_Subset DEF SymDiff
  <2>2. Xor(us, C \cup {x}) = SymDiff(us[x], Xor(us, C))
    BY <2>1, XorToggle
  <2>3. Xor(g, C \cup {x}) = SymDiff(g[x], Xor(g, C))
    BY <2>1, XorToggle
  <2>4. us[x] \in SUBSET S /\ Xor(us, C) \in SUBSET S
    BY <1>2
  <2>5. Xor(f, SymDiff(us[x], Xor(us, C))) = SymDiff(Xor(f, us[x]), Xor(f, Xor(us, C)))
    BY <2>4, XorLinear
  <2>6. SymDiff(us[x], Xor(us, C)) \in SUBSET S
    BY <2>4 DEF SymDiff
  <2> QED
    BY <1>2, <2>1, <2>2, <2>3, <2>5, <2>6
<1>3. SUBSET D \subseteq F
  <2> HIDE DEF F
  <2> QED
    BY <1>1, <1>2, SubsetInduction
<1> QED
  BY <1>3

-----------------------------------------------------------------------------
(* Numbers modulo m *)

Congruent(a, b, m) == \E k \in Int : a = b + k * m

\* The remainder is congruent to the number and lies below the modulus.
LEMMA RemainderCongruent ==
  ASSUME NEW m \in Nat \ {0}, NEW a \in Int
  PROVE  a % m \in 0 .. m - 1 /\ Congruent(a % m, a, m)
<1>1. a % m \in 0 .. m - 1 /\ a = m * (a \div m) + (a % m) /\ a \div m \in Int
  OBVIOUS
<1>2. a % m = a + (-(a \div m)) * m
  BY <1>1
<1>3. -(a \div m) \in Int
  BY <1>1
<1>4. \E k \in Int : a % m = a + k * m
  BY <1>2, <1>3
<1> QED
  BY <1>1, <1>4 DEF Congruent

\* A number is congruent to only one remainder.
LEMMA RemainderUnique ==
  ASSUME NEW m \in Nat \ {0}, NEW a \in Int, NEW b \in 0 .. m - 1, Congruent(a, b, m)
  PROVE  a % m = b
<1>1. PICK k \in Int : a = b + k * m
  BY DEF Congruent
<1> DEFINE c == a % m
<1>2. c \in 0 .. m - 1 /\ Congruent(c, a, m)
  BY RemainderCongruent
<1> HIDE DEF c
<1>3. PICK j \in Int : c = a + j * m
  BY <1>2 DEF Congruent
<1>4. c - b = (k + j) * m
  BY <1>1, <1>2, <1>3
<1>5. k + j = 0
  <2>1. ASSUME k + j >= 1 PROVE (k + j) * m >= m
    BY <2>1
  <2>2. ASSUME k + j <= -1 PROVE (k + j) * m <= -m
    BY <2>2
  <2> QED
    BY <1>2, <1>4, <2>1, <2>2
<1>6. c = b
  BY <1>2, <1>4, <1>5
<1> QED
  BY <1>6 DEF c

\* Congruent numbers may be added and subtracted.
LEMMA CongruentAdd ==
  ASSUME NEW m \in Nat, NEW a \in Int, NEW b \in Int, NEW c \in Int, NEW d \in Int,
         Congruent(a, b, m), Congruent(c, d, m)
  PROVE  Congruent(a + c, b + d, m) /\ Congruent(a - c, b - d, m)
<1>1. PICK k \in Int : a = b + k * m
  BY DEF Congruent
<1>2. PICK j \in Int : c = d + j * m
  BY DEF Congruent
<1>3. a + c = b + d + (k + j) * m /\ a - c = b - d + (k - j) * m
  BY <1>1, <1>2
<1>4. k + j \in Int /\ k - j \in Int
  OBVIOUS
<1> QED
  BY <1>3, <1>4 DEF Congruent

\* ... and multiplied.
LEMMA CongruentTimes ==
  ASSUME NEW m \in Nat, NEW a \in Int, NEW b \in Int, NEW t \in Int, Congruent(a, b, m)
  PROVE  Congruent(a * t, b * t, m)
<1>1. PICK k \in Int : a = b + k * m
  BY DEF Congruent
<1>2. a * t = b * t + (k * t) * m
  BY <1>1
<1>3. k * t \in Int
  OBVIOUS
<1> QED
  BY <1>2, <1>3 DEF Congruent

\* To be congruent is an equivalence.
LEMMA CongruentOrder ==
  ASSUME NEW m \in Nat, NEW a \in Int, NEW b \in Int, NEW c \in Int
  PROVE  /\ Congruent(a, a, m)
         /\ Congruent(a, b, m) => Congruent(b, a, m)
         /\ Congruent(a, b, m) /\ Congruent(b, c, m) => Congruent(a, c, m)
<1>1. Congruent(a, a, m)
  <2>1. a = a + 0 * m
    OBVIOUS
  <2> QED
    BY <2>1 DEF Congruent
<1>2. ASSUME Congruent(a, b, m) PROVE Congruent(b, a, m)
  <2>1. PICK k \in Int : a = b + k * m
    BY <1>2 DEF Congruent
  <2>2. b = a + (-k) * m
    BY <2>1
  <2> QED
    BY <2>2 DEF Congruent
<1>3. ASSUME Congruent(a, b, m), Congruent(b, c, m) PROVE Congruent(a, c, m)
  <2>1. PICK k \in Int : a = b + k * m
    BY <1>3 DEF Congruent
  <2>2. PICK j \in Int : b = c + j * m
    BY <1>3 DEF Congruent
  <2>3. a = c + (k + j) * m
    BY <2>1, <2>2
  <2> QED
    BY <2>3 DEF Congruent
<1> QED
  BY <1>1, <1>2, <1>3

-----------------------------------------------------------------------------
(* Table lookup *)

\* What the proofs use of the constants.
LEMMA Constants ==
  /\ IsFiniteSet(Dataowners) /\ IsFiniteSet(Others) /\ IsFiniteSet(Rows)
  /\ Revealer \in Dataowners /\ Others = Dataowners \ {Revealer} /\ Others # {}
  /\ TableSize \in Nat \ {0} /\ Modulus \in Nat \ {0} /\ 2 * TableSize < Modulus
  /\ Rows \subseteq 0 .. Modulus - 1
<1>1. /\ IsFiniteSet(Dataowners) /\ Revealer \in Dataowners /\ Dataowners # {Revealer}
      /\ TableSize \in Nat \ {0} /\ Modulus \in Nat /\ 2 * TableSize < Modulus
  BY LookupAssumption
<1>2. IsFiniteSet(Others) /\ Others = Dataowners \ {Revealer} /\ Others # {}
  BY <1>1, FS_RemoveElement DEF Others
<1>3. IsFiniteSet(Rows)
  BY <1>1, FS_Interval DEF Rows
<1>4. Rows \subseteq 0 .. Modulus - 1
  BY <1>1 DEF Rows
<1> QED
  BY <1>1, <1>2, <1>3, <1>4

\* Remainders by the modulus.
LEMMA Remainders ==
  /\ \A z \in Int : z % Modulus \in 0 .. Modulus - 1 /\ Congruent(z % Modulus, z, Modulus)
  /\ \A z \in Int : \A y \in 0 .. Modulus - 1 :
       Congruent(z, y, Modulus) => z % Modulus = y
<1>1. Modulus \in Nat \ {0}
  BY Constants
<1> QED
  BY <1>1, RemainderCongruent, RemainderUnique

-----------------------------------------------------------------------------
(* Shares *)

\* The shares that Additive makes open to what was shared.
LEMMA AdditiveOpens ==
  ASSUME NEW x \in 0 .. Modulus - 1, NEW n \in [Others -> Int]
  PROVE  /\ Additive(x, n) \in [Dataowners -> Int]
         /\ Opened(Additive(x, n)) = x
<1> DEFINE f == Additive(x, n)
           S == Sum(n, Others)
           c == (x - S) % Modulus
<1>0. S \in Int
  BY Constants, SumLemma
<1>1. c \in 0 .. Modulus - 1 /\ Congruent(c, x - S, Modulus)
  <2> HIDE DEF S
  <2>1. x - S \in Int
    BY <1>0
  <2> QED
    BY <2>1, Remainders
<1>2. f = [p \in Dataowners |-> IF p = Revealer THEN c ELSE n[p]]
  BY DEF Additive, Sum, SumAll
<1> HIDE DEF f, c, S
<1>3. f \in [Dataowners -> Int] /\ f[Revealer] = c /\ \A q \in Others : f[q] = n[q]
  BY <1>1, <1>2, Constants
<1>4. Sum(f, Dataowners) = c + Sum(f, Others)
  BY <1>3, Constants, SumLemma
<1>5. Sum(f, Others) = S
  BY <1>3, Constants, SumSame DEF S
<1>6. Congruent(c + S, x - S + S, Modulus)
  <2>1. Congruent(S, S, Modulus)
    BY <1>0, Constants, CongruentOrder
  <2> QED
    BY <1>0, <1>1, <2>1, Constants, CongruentAdd
<1>7. (c + S) % Modulus = x
  <2>1. x - S + S = x
    BY <1>0
  <2>2. c + S \in Int
    BY <1>0, <1>1
  <2> QED
    BY <1>6, <2>1, <2>2, Remainders
<1>8. Opened(f) = Sum(f, Dataowners) % Modulus
  BY DEF Opened, Sum, SumAll
<1> QED
  BY <1>3, <1>4, <1>5, <1>7, <1>8 DEF f

\* The shares that XorShared makes open to what was shared.
LEMMA XorSharedOpens ==
  ASSUME NEW W, NEW b, b \subseteq W, NEW n \in [Others -> SUBSET W]
  PROVE  /\ XorShared(b, n) \in [Dataowners -> SUBSET W]
         /\ XorAll(XorShared(b, n), Dataowners) = b
<1> DEFINE f == XorShared(b, n)
           X == Xor(n, Others)
<1>1. X \subseteq W
  <2>1. X \subseteq UNION {n[q] : q \in Others}
    BY Constants, XorLemma
  <2> QED
    BY <2>1
<1>2. f = [p \in Dataowners |-> IF p = Revealer THEN SymDiff(b, X) ELSE n[p]]
  BY DEF XorShared, XorAll, Xor
<1> HIDE DEF f, X
<1>3. SymDiff(b, X) \in SUBSET W
  BY <1>1 DEF SymDiff
<1>4. /\ f \in [Dataowners -> SUBSET W]
      /\ f[Revealer] = SymDiff(b, X) /\ \A q \in Others : f[q] = n[q]
  BY <1>2, <1>3, Constants
<1>5. Xor(f, Dataowners) = SymDiff(f[Revealer], Xor(f, Others))
  BY Constants, XorLemma
<1>6. Xor(f, Others) = X
  BY <1>4, Constants, XorSame DEF X
<1>7. SymDiff(SymDiff(b, X), X) = b
  BY DEF SymDiff
<1>8. XorAll(f, Dataowners) = Xor(f, Dataowners)
  BY DEF XorAll, Xor
<1> QED
  BY <1>4, <1>5, <1>6, <1>7, <1>8 DEF f

\* What Compare(0, location - r) says of two row numbers.
LEMMA CompareLemma ==
  ASSUME NEW a \in Rows, NEW b \in Rows
  PROVE  2 * ((0 - ((a - b) % Modulus)) % Modulus) < Modulus <=> a <= b
<1> DEFINE d == (a - b) % Modulus
           e == (0 - d) % Modulus
<1>0. /\ a \in Int /\ b \in Int /\ 0 <= a /\ 0 <= b /\ a < TableSize /\ b < TableSize
      /\ Modulus \in Nat \ {0} /\ TableSize \in Nat /\ 2 * TableSize < Modulus
  BY Constants DEF Rows
<1>1. d \in Int /\ Congruent(d, a - b, Modulus)
  <2>1. a - b \in Int
    BY <1>0
  <2> QED
    BY <2>1, Remainders
<1> HIDE DEF d
<1>z. 0 - d \in Int
  BY <1>1
<1>2. Congruent(0 - d, b - a, Modulus)
  <2>1. Congruent(0, 0, Modulus)
    BY <1>0, CongruentOrder
  <2>2. Congruent(0 - d, 0 - (a - b), Modulus)
    BY <1>0, <1>1, <2>1, CongruentAdd
  <2>3. 0 - (a - b) = b - a
    BY <1>0
  <2> QED
    BY <2>2, <2>3
<1>3. CASE a <= b
  <2>1. b - a \in 0 .. Modulus - 1
    BY <1>0, <1>3
  <2>2. e = b - a
    BY <1>z, <1>2, <2>1, Remainders
  <2> QED
    BY <1>0, <1>3, <2>2 DEF d
<1>4. CASE a > b
  <2>1. b - a + Modulus \in 0 .. Modulus - 1
    BY <1>0, <1>4
  <2>2. Congruent(0 - d, b - a + Modulus, Modulus)
    <3>1. PICK k \in Int : 0 - d = b - a + k * Modulus
      BY <1>2 DEF Congruent
    <3>2. 0 - d = b - a + Modulus + (k - 1) * Modulus /\ k - 1 \in Int
      BY <1>0, <3>1
    <3> QED
      BY <3>2 DEF Congruent
  <2>3. e = b - a + Modulus
    BY <1>z, <2>1, <2>2, Remainders
  <2> QED
    BY <1>0, <1>4, <2>3 DEF d
<1> QED
  BY <1>0, <1>3, <1>4

\* Everybody's IndexShare, from shares of location, of r and of the bit.
Shares(loc, rr, bb) ==
  [p \in Dataowners |-> (Modulus + loc[p] - rr[p] + bb[p] * TableSize) % Modulus]

\* The shares of the index add up to location - r, one table further if Compare said so.
LEMMA SharesAdd ==
  ASSUME NEW loc \in [Dataowners -> Int], NEW rr \in [Dataowners -> Int],
         NEW bb \in [Dataowners -> Int], NEW sh,
         sh = Shares(loc, rr, bb)
  PROVE  /\ sh \in [Dataowners -> 0 .. Modulus - 1]
         /\ Congruent(Sum(sh, Dataowners),
                      Sum(loc, Dataowners) - Sum(rr, Dataowners)
                        + Sum(bb, Dataowners) * TableSize,
                      Modulus)
<1> DEFINE e(p) == loc[p] - rr[p] + bb[p] * TableSize
           G(A) == Sum(loc, A) - Sum(rr, A) + Sum(bb, A) * TableSize
           F == {A \in SUBSET Dataowners : Congruent(Sum(sh, A), G(A), Modulus)}
<1>0. Modulus \in Nat \ {0} /\ TableSize \in Nat /\ IsFiniteSet(Dataowners)
  BY Constants
<1>1. ASSUME NEW p \in Dataowners
      PROVE  e(p) \in Int /\ sh[p] \in 0 .. Modulus - 1 /\ Congruent(sh[p], e(p), Modulus)
  <2> DEFINE t == bb[p] * TableSize
             z == Modulus + loc[p] - rr[p] + t
  <2>1. loc[p] \in Int /\ rr[p] \in Int /\ bb[p] \in Int /\ TableSize \in Int
    BY <1>0
  <2>2. z \in Int /\ z = e(p) + 1 * Modulus /\ e(p) \in Int
    <3>1. t \in Int
      BY <2>1
    <3>2. e(p) = loc[p] - rr[p] + t
      OBVIOUS
    <3> HIDE DEF t, e
    <3> QED
      BY <1>0, <2>1, <3>1, <3>2
  <2>3. sh[p] = z % Modulus
    BY DEF Shares
  <2> HIDE DEF z, e
  <2>4. Congruent(z, e(p), Modulus)
    BY <2>2 DEF Congruent
  <2>5. sh[p] \in 0 .. Modulus - 1 /\ Congruent(sh[p], z, Modulus)
    BY <2>2, <2>3, Remainders
  <2>6. sh[p] \in Int /\ Modulus \in Nat
    BY <1>0, <2>5
  <2>7. Congruent(sh[p], e(p), Modulus)
    BY <2>2, <2>4, <2>5, <2>6, CongruentOrder
  <2> QED
    BY <2>2, <2>5, <2>7
<1>2. ASSUME NEW A \in SUBSET Dataowners
      PROVE  /\ Sum(loc, A) \in Int /\ Sum(rr, A) \in Int /\ Sum(bb, A) \in Int
             /\ Sum(sh, A) \in Int
  <2>1. IsFiniteSet(A)
    BY <1>0, FS_Subset
  <2>2. /\ \A x \in A : loc[x] \in Int /\ rr[x] \in Int /\ bb[x] \in Int
        /\ \A x \in A : sh[x] \in Int
    BY <1>1
  <2> QED
    BY <2>1, <2>2, SumLemma
<1>3. {} \in F
  <2>1. /\ Sum(loc, {}) = 0 /\ Sum(rr, {}) = 0 /\ Sum(bb, {}) = 0 /\ Sum(sh, {}) = 0
    BY SumLemma, FS_EmptySet
  <2>2. G({}) = 0
    BY <1>0, <2>1
  <2>3. Congruent(0, 0, Modulus)
    BY <1>0, CongruentOrder
  <2> HIDE DEF G
  <2> QED
    BY <2>1, <2>2, <2>3
<1>4. ASSUME NEW A \in SUBSET Dataowners, NEW x \in Dataowners \ A, A \in F
      PROVE  A \cup {x} \in F
  <2>1. /\ IsFiniteSet(A \cup {x}) /\ (A \cup {x}) \ {x} = A
        /\ A \cup {x} \in SUBSET Dataowners
    BY <1>0, FS_Subset
  <2>s. ASSUME NEW k, \A y \in Dataowners : k[y] \in Int
        PROVE  Sum(k, A \cup {x}) = k[x] + Sum(k, A)
    <3> DEFINE C == A \cup {x}
    <3>1. IsFiniteSet(C) /\ x \in C /\ C \ {x} = A /\ \A y \in C : k[y] \in Int
      BY <2>1, <2>s
    <3> HIDE DEF C
    <3>2. Sum(k, C) = k[x] + Sum(k, C \ {x})
      BY <3>1, SumLemma
    <3> QED
      BY <3>1, <3>2 DEF C
  <2>2. \A y \in Dataowners : sh[y] \in Int
    BY <1>0, <1>1
  <2>3. Sum(loc, A \cup {x}) = loc[x] + Sum(loc, A)
    BY <2>s
  <2>4. Sum(rr, A \cup {x}) = rr[x] + Sum(rr, A)
    BY <2>s
  <2>5. Sum(bb, A \cup {x}) = bb[x] + Sum(bb, A)
    BY <2>s
  <2>6. Sum(sh, A \cup {x}) = sh[x] + Sum(sh, A)
    BY <2>s, <2>2
  <2>7. G(A \cup {x}) = e(x) + G(A) /\ G(A) \in Int
    <3> DEFINE B0 == Sum(bb, A)
               b1 == bb[x]
    <3>1. /\ Sum(loc, A) \in Int /\ Sum(rr, A) \in Int /\ B0 \in Int /\ b1 \in Int
          /\ loc[x] \in Int /\ rr[x] \in Int /\ TableSize \in Int
      BY <1>0, <1>2
    <3>2. /\ G(A \cup {x}) = loc[x] + Sum(loc, A) - (rr[x] + Sum(rr, A)) + (b1 + B0) * TableSize
          /\ e(x) = loc[x] - rr[x] + b1 * TableSize
          /\ G(A) = Sum(loc, A) - Sum(rr, A) + B0 * TableSize
      <4> DEFINE C == A \cup {x}
      <4>1. G(C) = Sum(loc, C) - Sum(rr, C) + Sum(bb, C) * TableSize
        OBVIOUS
      <4>2. /\ Sum(loc, C) = loc[x] + Sum(loc, A) /\ Sum(rr, C) = rr[x] + Sum(rr, A)
            /\ Sum(bb, C) = b1 + B0
        BY <2>3, <2>4, <2>5
      <4> HIDE DEF C, G, e, b1, B0
      <4>3. G(C) = loc[x] + Sum(loc, A) - (rr[x] + Sum(rr, A)) + (b1 + B0) * TableSize
        BY <3>1, <4>1, <4>2
      <4> QED
        BY <4>3 DEF C, G, e, b1, B0
    <3> HIDE DEF B0, b1, G, e
    <3>3. (b1 + B0) * TableSize = b1 * TableSize + B0 * TableSize
      BY <3>1
    <3>4. b1 * TableSize \in Int /\ B0 * TableSize \in Int
      BY <3>1
    <3> QED
      BY <3>1, <3>2, <3>3, <3>4
  <2>8. e(x) \in Int /\ sh[x] \in Int /\ Congruent(sh[x], e(x), Modulus)
    BY <1>1
  <2>9. Sum(sh, A) \in Int
    BY <1>2
  <2>10. Congruent(Sum(sh, A), G(A), Modulus)
    BY <1>4
  <2> HIDE DEF e, G
  <2>11. Congruent(sh[x] + Sum(sh, A), e(x) + G(A), Modulus)
    BY <1>0, <2>7, <2>8, <2>9, <2>10, CongruentAdd
  <2> QED
    BY <2>1, <2>6, <2>7, <2>11
<1>5. SUBSET Dataowners \subseteq F
  <2> HIDE DEF F
  <2> QED
    BY <1>0, <1>3, <1>4, SubsetInduction
<1>6. Dataowners \in F
  BY <1>5
<1>7. sh \in [Dataowners -> 0 .. Modulus - 1]
  <2> HIDE DEF e, F, G
  <2>1. \A p \in Dataowners : sh[p] \in 0 .. Modulus - 1
    BY <1>1
  <2>2. sh = [p \in Dataowners |-> sh[p]]
    BY DEF Shares
  <2> QED
    BY <2>1, <2>2
<1> QED
  BY <1>6, <1>7

\* Opened, a sum is congruent to what it opens to.
LEMMA OpenedCongruent ==
  ASSUME NEW f \in [Dataowners -> Int]
  PROVE  /\ Sum(f, Dataowners) \in Int /\ Opened(f) \in 0 .. Modulus - 1
         /\ Congruent(Sum(f, Dataowners), Opened(f), Modulus)
         /\ Congruent(Opened(f), Sum(f, Dataowners), Modulus)
<1>1. Sum(f, Dataowners) \in Int
  BY Constants, SumLemma
<1>2. Opened(f) = Sum(f, Dataowners) % Modulus
  BY DEF Opened, Sum, SumAll
<1>3. Opened(f) \in 0 .. Modulus - 1 /\ Congruent(Opened(f), Sum(f, Dataowners), Modulus)
  BY <1>1, <1>2, Remainders
<1>4. Modulus \in Nat /\ Opened(f) \in Int
  BY <1>3, Constants
<1> QED
  BY <1>1, <1>3, <1>4, CongruentOrder

\* The opened index: from r it leads to location, around the end of the table if need be.
LEMMA IndexOpens ==
  ASSUME NEW loc \in [Dataowners -> Int], NEW rr \in [Dataowners -> Int],
         NEW bb \in [Dataowners -> Int], NEW sh,
         sh = Shares(loc, rr, bb),
         NEW a \in Rows, NEW s \in Rows, Opened(loc) = a, Opened(rr) = s,
         Opened(bb) = IF a <= s THEN 1 ELSE 0
  PROVE  /\ Opened(sh) = IF a <= s THEN a - s + TableSize ELSE a - s
         /\ Opened(sh) \in 1 .. TableSize
         /\ (Opened(sh) + s) % TableSize = a
<1> DEFINE b == IF a <= s THEN 1 ELSE 0
           L == Sum(loc, Dataowners)
           R == Sum(rr, Dataowners)
           B == Sum(bb, Dataowners)
           H == Sum(sh, Dataowners)
<1>0. /\ a \in Int /\ s \in Int /\ 0 <= a /\ 0 <= s /\ a < TableSize /\ s < TableSize
      /\ Modulus \in Nat \ {0} /\ TableSize \in Nat \ {0} /\ 2 * TableSize < Modulus
  BY Constants DEF Rows
<1>1. /\ L \in Int /\ Congruent(L, a, Modulus)
      /\ R \in Int /\ Congruent(R, s, Modulus)
      /\ B \in Int /\ Congruent(B, b, Modulus)
  BY OpenedCongruent
<1>2. /\ H \in Int /\ Congruent(H, L - R + B * TableSize, Modulus)
      /\ Opened(sh) = H % Modulus
  <2>1. sh \in [Dataowners -> 0 .. Modulus - 1] /\ Congruent(H, L - R + B * TableSize, Modulus)
    BY SharesAdd
  <2>2. sh \in [Dataowners -> Int]
    BY <1>0, <2>1
  <2>3. H \in Int
    BY <2>2, OpenedCongruent
  <2>4. Opened(sh) = H % Modulus
    BY DEF Opened, Sum, SumAll
  <2> QED
    BY <2>1, <2>3, <2>4
<1>3. b \in Int /\ (a <= s => b = 1) /\ (a > s => b = 0)
  BY <1>0
<1> HIDE DEF b, L, R, B, H
<1>4. Congruent(L - R, a - s, Modulus) /\ L - R \in Int /\ a - s \in Int
  BY <1>0, <1>1, CongruentAdd
<1>5. /\ Congruent(B * TableSize, b * TableSize, Modulus)
      /\ B * TableSize \in Int /\ b * TableSize \in Int
  <2>1. Congruent(B * TableSize, b * TableSize, Modulus)
    <3>1. Modulus \in Nat /\ TableSize \in Int
      BY <1>0
    <3> QED
      BY <3>1, <1>1, <1>3, CongruentTimes
  <2>2. B * TableSize \in Int /\ b * TableSize \in Int
    BY <1>0, <1>1, <1>3
  <2> QED
    BY <2>1, <2>2
<1>6. Congruent(L - R + B * TableSize, a - s + b * TableSize, Modulus)
  BY <1>0, <1>4, <1>5, CongruentAdd
<1> DEFINE v == a - s + b * TableSize
<1>7. v = (IF a <= s THEN a - s + TableSize ELSE a - s) /\ v \in 0 .. Modulus - 1
      /\ v \in 1 .. TableSize
  BY <1>0, <1>3
<1>8. Congruent(H, v, Modulus)
  <2>1. L - R + B * TableSize \in Int
    BY <1>4, <1>5
  <2> QED
    BY <1>0, <1>2, <1>6, <1>7, <2>1, CongruentOrder
<1>9. Opened(sh) = v
  <2> HIDE DEF v
  <2> QED
    BY <1>2, <1>7, <1>8, Remainders
<1>10. (v + s) % TableSize = a
  <2>1. v + s = a + b * TableSize /\ v + s \in Int
    BY <1>0, <1>3
  <2>2. Congruent(v + s, a, TableSize)
    BY <1>3, <2>1 DEF Congruent
  <2>3. a \in 0 .. TableSize - 1
    BY <1>0
  <2> QED
    BY <1>0, <2>1, <2>2, <2>3, RemainderUnique
<1> QED
  BY <1>7, <1>9, <1>10

-----------------------------------------------------------------------------
(* What the invariant says of a lookup that has ended *)

\* XORed, what the shares of u select is the row one index away from r.
LEMMA SelectionOpens ==
  ASSUME DealtInv, NEW v, NEW a, (v + Opened(r)) % TableSize = a,
         NEW g, \A p \in Dataowners : g[p] = Selected(u[p], v)
  PROVE  XorAll(g, Dataowners) = {a}
<1> DEFINE f == [i \in Rows |-> {(v + i) % TableSize}]
           s == Opened(r)
<1>1. s \in Rows /\ f[s] = {a}
  BY DEF DealtInv
<1>2. /\ \A p \in Dataowners : u[p] \in SUBSET Rows
      /\ Xor(u, Dataowners) = {s}
  BY DEF DealtInv, XorAll, Xor
<1>3. \A p \in Dataowners : g[p] = Xor(f, u[p])
  BY DEF Selected, XorAll, Xor
<1> HIDE DEF f, s
<1>4. Xor(g, Dataowners) = Xor(f, Xor(u, Dataowners))
  <2>1. IsFiniteSet(Rows) /\ IsFiniteSet(Dataowners)
    BY Constants
  <2> DEFINE V == SUBSET Rows
  <2>2. \A p \in Dataowners : u[p] \in V
    BY <1>2
  <2> HIDE DEF V
  <2> QED
    BY <1>3, <2>1, <2>2, XorOfXors DEF V
<1>5. Xor(f, {s}) = f[s]
  BY XorToggle, FS_EmptySet
<1>6. XorAll(g, Dataowners) = Xor(g, Dataowners)
  BY DEF XorAll, Xor
<1> QED
  BY <1>1, <1>2, <1>4, <1>5, <1>6

\* Once the bit is known the shares of the index open to a step of at least one and at
\* most TableSize rows, which leads from r to location.
LEMMA IndexLeads ==
  ASSUME DealtInv, BitsInv, bitShare # <<>>
  PROVE  /\ Opened(ShareOf) \in 1 .. TableSize
         /\ (Opened(ShareOf) + Opened(r)) % TableSize = location
<1> DEFINE s == Opened(r)
<1>1. /\ locationShare \in [Dataowners -> Int] /\ r \in [Dataowners -> Int]
      /\ bitShare \in [Dataowners -> Int]
      /\ location \in Rows /\ s \in Rows /\ Opened(locationShare) = location
      /\ Opened(bitShare) = Bit
  BY DEF DealtInv, BitsInv
<1>2. Bit = IF location <= s THEN 1 ELSE 0
  <2>1. NotAbove <=> 2 * ((0 - ((location - s) % Modulus)) % Modulus) < Modulus
    BY <1>1 DEF NotAbove, Distance
  <2>2. NotAbove <=> location <= s
    BY <1>1, <2>1, CompareLemma
  <2> QED
    BY <2>2 DEF Bit
<1>3. ShareOf = Shares(locationShare, r, bitShare)
  BY DEF ShareOf, IndexShare, Shares
<1>4. Opened(bitShare) = IF location <= s THEN 1 ELSE 0
  BY <1>1, <1>2
<1> HIDE DEF s
<1>5. Opened(r) = s
  BY DEF s
<1> QED
  BY <1>1, <1>3, <1>4, <1>5, IndexOpens

\* The invariant contains the first property.
LEMMA InvLooksUp == Inv => LooksUpTheRow
<1> SUFFICES ASSUME Inv, AllComplete
             PROVE  /\ XorAll(output, Dataowners) = {location}
                    /\ \A p \in Dataowners : revealedValue[p] \in 0 .. TableSize
  BY DEF LooksUpTheRow
<1> DEFINE v == Opened(ShareOf)
<1>1. state[Revealer] = "complete" /\ bitShare # <<>>
  BY Constants DEF AllComplete, Inv, BitsInv
<1>2. \A p \in Dataowners : revealedValue[p] = v /\ output[p] = Selected(u[p], v)
  BY <1>1 DEF AllComplete, Inv, OwnerInv, RevealerInv
<1>3. v \in 1 .. TableSize /\ (v + Opened(r)) % TableSize = location
  BY <1>1, IndexLeads DEF Inv
<1> HIDE DEF v
<1>4. XorAll(output, Dataowners) = {location}
  BY <1>2, <1>3, SelectionOpens DEF Inv
<1>5. v \in 0 .. TableSize
  BY <1>3, Constants
<1> QED
  BY <1>2, <1>4, <1>5

\* The number of dataowners the revealer has yet to hear from.
LEMMA PendingFinite ==
  /\ Pending \subseteq Others /\ IsFiniteSet(Pending)
  /\ Cardinality(Pending) \in Nat /\ (Cardinality(Pending) = 0 <=> Pending = {})
<1>1. Pending \subseteq Others
  BY DEF Pending
<1> QED
  BY <1>1, Constants, FS_Subset, FS_CardinalityType, FS_EmptySet

\* The invariant contains the second property.
LEMMA InvKeepsApart == Inv => ShareNeverTakenAsOpened
<1> SUFFICES ASSUME Inv, NEW m \in wire, m.to = Revealer
             PROVE  numPartiesAwaiting[Revealer] # 0
  BY DEF ShareNeverTakenAsOpened
<1>1. state[Revealer] = "sent"
  BY Constants DEF Inv, WireInv
<1> QED
  BY <1>1, PendingFinite DEF Inv, RevealerInv

-----------------------------------------------------------------------------
(* The invariant holds initially *)

\* Shares are never the empty tuple that marks a child without a result.
LEMMA SharesThere ==
  ASSUME NEW V, NEW f \in [Dataowners -> V]
  PROVE  f # <<>>
<1>1. DOMAIN f = Dataowners /\ Revealer \in Dataowners
  BY Constants
<1>2. DOMAIN <<>> = {}
  OBVIOUS
<1> QED
  BY <1>1, <1>2

\* A random share is a number.
LEMMA NoiseType == NoiseVectors \subseteq [Others -> Int]
<1>1. Noise \subseteq Int
  BY LookupAssumption
<1> QED
  BY <1>1 DEF NoiseVectors

\* What was dealt opens to the row number, to r and to the unit vector of r.
LEMMA InitDealt == Init => DealtInv
<1> SUFFICES ASSUME Init PROVE DealtInv
  OBVIOUS
<1>1. location \in Rows
  BY DEF Init
<1>2. PICK n \in NoiseVectors : locationShare = Additive(location, n)
  BY DEF Init
<1>3. PICK s \in Rows :
        /\ \E k \in NoiseVectors : r = Additive(s, k)
        /\ \E k \in [Others -> SUBSET Rows] : u = XorShared({s}, k)
  BY DEF Init
<1>4. PICK k \in NoiseVectors : r = Additive(s, k)
  BY <1>3
<1>5. PICK j \in [Others -> SUBSET Rows] : u = XorShared({s}, j)
  BY <1>3
<1>6. /\ location \in 0 .. Modulus - 1 /\ s \in 0 .. Modulus - 1
      /\ n \in [Others -> Int] /\ k \in [Others -> Int]
  BY <1>1, Constants, NoiseType
<1>7. locationShare \in [Dataowners -> Int] /\ Opened(locationShare) = location
  BY <1>2, <1>6, AdditiveOpens
<1>8. r \in [Dataowners -> Int] /\ Opened(r) = s
  BY <1>4, <1>6, AdditiveOpens
<1>9. u \in [Dataowners -> SUBSET Rows] /\ XorAll(u, Dataowners) = {s}
  <2>1. {s} \subseteq Rows
    OBVIOUS
  <2> DEFINE W == Rows
             b == {s}
  <2>2. b \subseteq W /\ j \in [Others -> SUBSET W]
    BY <2>1
  <2>3. u = XorShared(b, j)
    BY <1>5
  <2> HIDE DEF b, W
  <2>4. XorShared(b, j) \in [Dataowners -> SUBSET W] /\ XorAll(XorShared(b, j), Dataowners) = b
    BY <2>2, XorSharedOpens
  <2> QED
    BY <2>3, <2>4 DEF b, W
<1> QED
  BY <1>1, <1>7, <1>8, <1>9 DEF DealtInv

\* The rest of the invariant holds initially as well.
LEMMA InitInv == Init => Inv
<1> SUFFICES ASSUME Init PROVE Inv
  OBVIOUS
<1>1. DealtInv
  BY InitDealt
<1>2. /\ compareShare = <<>> /\ bitShare = <<>> /\ wire = {}
      /\ state = [p \in Dataowners |-> "idle"]
      /\ numPartiesAwaiting = [p \in Dataowners |-> 0]
      /\ revealedValue = [p \in Dataowners |-> 0]
      /\ output = [p \in Dataowners |-> {}]
  BY DEF Init
<1>3. Revealer \in Dataowners /\ Others \subseteq Dataowners
  BY Constants
<1>4. Shape
  BY <1>2 DEF Shape, States
<1>5. BitsInv
  BY <1>2, <1>3 DEF BitsInv
<1>6. WireInv
  BY <1>2 DEF WireInv
<1>7. RevealerInv
  BY <1>2, <1>3 DEF RevealerInv, Early
<1>8. OwnerInv
  BY <1>2, <1>3 DEF OwnerInv
<1> QED
  BY <1>1, <1>4, <1>5, <1>6, <1>7, <1>8 DEF Inv

-----------------------------------------------------------------------------
(* Every step keeps the invariant *)

\* What was dealt stays as it is, and with it the bit that Compare computes.
LEMMA InputsKept ==
  ASSUME DealtInv, UNCHANGED inputs
  PROVE  /\ DealtInv' /\ Bit' = Bit /\ u' = u
         /\ bitShare' = bitShare => ShareOf' = ShareOf
<1>1. location' = location /\ locationShare' = locationShare /\ r' = r /\ u' = u
  BY DEF inputs
<1>2. DealtInv'
  BY <1>1 DEF DealtInv
<1>3. Bit' = Bit
  BY <1>1 DEF Bit, NotAbove, Distance
<1>4. bitShare' = bitShare => ShareOf' = ShareOf
  BY <1>1 DEF ShareOf, IndexShare
<1> QED
  BY <1>1, <1>2, <1>3, <1>4

\* init() at one dataowner.
LEMMA LookupInitInv ==
  ASSUME Inv, NEW p \in Dataowners, LookupInit(p)
  PROVE  Inv'
<1>1. DealtInv' /\ Bit' = Bit /\ ShareOf' = ShareOf /\ u' = u
  BY InputsKept DEF Inv, LookupInit, children
<1>2. /\ state[p] = "idle" /\ state' = [state EXCEPT ![p] = "awaitingCompare"]
      /\ compareShare' = compareShare /\ bitShare' = bitShare /\ wire' = wire
      /\ numPartiesAwaiting' = numPartiesAwaiting /\ revealedValue' = revealedValue
      /\ output' = output
  BY DEF LookupInit, children
<1>3. Shape'
  BY <1>2 DEF Inv, Shape, States
<1>4. /\ \A q \in Dataowners \ {p} : state'[q] = state[q]
      /\ state'[p] = "awaitingCompare"
      /\ \A q \in Dataowners : state'[q] \in Early <=> state[q] \in Early
  BY <1>2 DEF Inv, Shape, Early
<1>5. Pending' = Pending
  BY <1>2, <1>4 DEF Pending, Others
<1>6. BitsInv'
  BY <1>1, <1>2, <1>4, Constants DEF Inv, BitsInv
<1>7. WireInv'
  BY <1>1, <1>2, <1>4, Constants DEF Inv, WireInv
<1>8. RevealerInv'
  BY <1>1, <1>2, <1>4, <1>5, Constants DEF Inv, RevealerInv, Early
<1>9. OwnerInv'
  BY <1>1, <1>2, <1>4, Constants DEF Inv, OwnerInv
<1> QED
  BY <1>1, <1>3, <1>6, <1>7, <1>8, <1>9 DEF Inv

\* Compare completes at one dataowner.
LEMMA CompareDoneInv ==
  ASSUME Inv, NEW p \in Dataowners, CompareDone(p)
  PROVE  Inv'
<1>1. DealtInv' /\ Bit' = Bit /\ ShareOf' = ShareOf /\ u' = u
  BY InputsKept DEF Inv, CompareDone
<1>2. /\ state[p] = "awaitingCompare"
      /\ state' = [state EXCEPT ![p] = "awaitingTypeCastFromBit"]
      /\ bitShare' = bitShare /\ wire' = wire
      /\ numPartiesAwaiting' = numPartiesAwaiting /\ revealedValue' = revealedValue
      /\ output' = output
  BY DEF CompareDone
<1>3. Shape'
  BY <1>2 DEF Inv, Shape, States
<1>4. /\ \A q \in Dataowners \ {p} : state'[q] = state[q]
      /\ state'[p] = "awaitingTypeCastFromBit"
      /\ \A q \in Dataowners : state'[q] \in Early <=> state[q] \in Early
  BY <1>2 DEF Inv, Shape, Early
<1>5. Pending' = Pending
  BY <1>2, <1>4 DEF Pending, Others
<1>6. /\ compareShare' # <<>>
      /\ XorAll(compareShare', Dataowners) = IF Bit = 1 THEN {1} ELSE {}
  <2>1. PICK n \in BitNoise :
          compareShare' = Drawn(compareShare, XorShared(IF NotAbove THEN {1} ELSE {}, n))
    BY DEF CompareDone
  <2> DEFINE b == IF NotAbove THEN {1} ELSE {}
             W == {1}
             f == XorShared(b, n)
  <2>2. b \subseteq W /\ n \in [Others -> SUBSET W]
    BY DEF BitNoise
  <2>3. b = IF Bit = 1 THEN {1} ELSE {}
    BY DEF Bit
  <2>4. compareShare' = IF compareShare = <<>> THEN f ELSE compareShare
    BY <2>1 DEF Drawn
  <2>5. f \in [Dataowners -> SUBSET W] /\ XorAll(f, Dataowners) = b
    <3> HIDE DEF b, W
    <3> QED
      BY <2>2, XorSharedOpens
  <2> HIDE DEF f, W, b
  <2>6. f # <<>>
    BY <2>5, SharesThere
  <2>7. CASE compareShare = <<>>
    BY <2>3, <2>4, <2>5, <2>6, <2>7
  <2>8. CASE compareShare # <<>>
    BY <2>4, <2>8 DEF Inv, BitsInv
  <2> QED
    BY <2>7, <2>8
<1>7. BitsInv'
  BY <1>1, <1>2, <1>4, <1>6, Constants DEF Inv, BitsInv
<1>8. WireInv'
  BY <1>1, <1>2, <1>4, Constants DEF Inv, WireInv
<1>9. RevealerInv'
  BY <1>1, <1>2, <1>4, <1>5, Constants DEF Inv, RevealerInv, Early
<1>10. OwnerInv'
  BY <1>1, <1>2, <1>4, Constants DEF Inv, OwnerInv
<1> QED
  BY <1>1, <1>3, <1>7, <1>8, <1>9, <1>10 DEF Inv

\* The TypeCastFromBit completes at another dataowner than the revealer: its share of
\* the index leaves for a revealer that has counted it.
LEMMA CastDoneOther ==
  ASSUME Inv, NEW p \in Others, CastDone(p)
  PROVE  Inv'
<1>0. p \in Dataowners /\ p # Revealer /\ Revealer \in Dataowners
  BY Constants
<1>1. /\ state[p] = "awaitingTypeCastFromBit" /\ bitShare # <<>>
      /\ bitShare' = bitShare /\ compareShare' = compareShare
      /\ state' = [state EXCEPT ![p] = "sent"]
      /\ wire' = wire \cup
           {[from |-> p, to |-> Revealer, val |-> IndexShare(p, bitShare'[p])]}
      /\ numPartiesAwaiting' = [numPartiesAwaiting EXCEPT ![p] = 0]
      /\ revealedValue' = revealedValue /\ output' = output
  BY <1>0 DEF CastDone, CastCanComplete, CastRevealer, Drawn
<1>2. DealtInv' /\ Bit' = Bit /\ ShareOf' = ShareOf /\ u' = u
  BY <1>1, InputsKept DEF Inv, CastDone
<1>3. p \in Pending
  BY <1>1 DEF Pending, Early
<1>4. state[Revealer] = "sent"
  BY <1>1, <1>3 DEF Inv, BitsInv, RevealerInv
<1> DEFINE m == [from |-> p, to |-> Revealer, val |-> ShareOf[p]]
<1>5. wire' = wire \cup {m} /\ ShareOf[p] \in Int
  <2>1. IndexShare(p, bitShare'[p]) = ShareOf[p]
    BY <1>0, <1>1 DEF ShareOf
  <2>2. bitShare \in [Dataowners -> Int] /\ locationShare \in [Dataowners -> Int]
        /\ r \in [Dataowners -> Int]
    BY <1>1 DEF Inv, BitsInv, DealtInv
  <2>3. ShareOf = Shares(locationShare, r, bitShare)
    BY DEF ShareOf, IndexShare, Shares
  <2>4. ShareOf \in [Dataowners -> 0 .. Modulus - 1]
    BY <2>2, <2>3, SharesAdd
  <2>5. ShareOf[p] \in Int
    BY <1>0, <2>4, Constants
  <2> QED
    BY <1>1, <2>1, <2>5
<1> HIDE DEF m
<1>6. m \in [from : Dataowners, to : Dataowners, val : Int] /\ m.from = p /\ m.to = Revealer
      /\ m.val = ShareOf[p]
  BY <1>0, <1>5 DEF m
<1>7. Shape'
  BY <1>0, <1>1, <1>5, <1>6 DEF Inv, Shape, States
<1>8. /\ \A q \in Dataowners \ {p} : state'[q] = state[q]
      /\ state'[p] = "sent" /\ state'[Revealer] = "sent"
      /\ \A q \in Dataowners : numPartiesAwaiting'[q] = numPartiesAwaiting[q]
  BY <1>0, <1>1, <1>4 DEF Inv, Shape, OwnerInv
<1>9. Pending' = Pending
  <2>1. \A q \in Others \ {p} : q \in Pending' <=> q \in Pending
    BY <1>5, <1>6, <1>8 DEF Pending, Others
  <2>2. p \in Pending'
    BY <1>5, <1>6 DEF Pending
  <2>3. Pending \subseteq Others /\ Pending' \subseteq Others
    BY DEF Pending
  <2> QED
    BY <1>3, <2>1, <2>2, <2>3
<1>10. BitsInv'
  BY <1>1, <1>2, <1>4, <1>8, Constants DEF Inv, BitsInv
<1>11. WireInv'
  <2> SUFFICES ASSUME NEW w \in wire'
               PROVE  /\ w.to = Revealer /\ w.from \in Others /\ w.val = ShareOf[w.from]
                      /\ state'[w.from] = "sent" /\ state'[Revealer] = "sent"
    BY <1>2 DEF WireInv
  <2>1. CASE w = m
    BY <1>6, <1>8, <2>1
  <2>2. CASE w \in wire
    BY <1>0, <1>1, <1>4, <1>8, <2>2 DEF Inv, WireInv, Others
  <2> QED
    BY <1>5, <2>1, <2>2
<1>12. RevealerInv'
  BY <1>0, <1>1, <1>2, <1>4, <1>8, <1>9 DEF Inv, RevealerInv, Early
<1>13. OwnerInv'
  BY <1>0, <1>1, <1>2, <1>4, <1>8 DEF Inv, OwnerInv
<1> QED
  BY <1>2, <1>7, <1>10, <1>11, <1>12, <1>13 DEF Inv

\* The TypeCastFromBit completes at the revealer, the first to complete it: the bit is
\* drawn, and the revealer starts to count with its own share.
LEMMA CastDoneRevealer ==
  ASSUME Inv, CastDone(Revealer)
  PROVE  Inv'
<1>0. Revealer \in Dataowners /\ Others = Dataowners \ {Revealer} /\ Others # {}
  BY Constants
<1>1. /\ state[Revealer] = "awaitingTypeCastFromBit"
      /\ \A q \in Dataowners : state[q] \notin {"idle", "awaitingCompare"}
      /\ compareShare' = compareShare
      /\ state' = [state EXCEPT ![Revealer] = "sent"]
      /\ numPartiesAwaiting' =
           [numPartiesAwaiting EXCEPT ![Revealer] = @ + Cardinality(Others)]
      /\ revealedValue' =
           [revealedValue EXCEPT ![Revealer] = IndexShare(Revealer, bitShare'[Revealer])]
      /\ wire' = wire /\ output' = output
  BY DEF CastDone, CastCanComplete, CastRevealer, SharesAwaited
<1>2. DealtInv' /\ Bit' = Bit /\ u' = u
  BY InputsKept DEF Inv, CastDone
<1>3. /\ bitShare = <<>> /\ wire = {} /\ numPartiesAwaiting[Revealer] = 0
      /\ \A q \in Others : state[q] \in Early
  BY <1>1 DEF Inv, BitsInv, WireInv, RevealerInv, Early
<1>4. bitShare' # <<>> /\ bitShare' \in [Dataowners -> Int] /\ Opened(bitShare') = Bit
  <2>1. PICK n \in NoiseVectors :
          bitShare' = Drawn(bitShare, Additive(IF XorAll(compareShare, Dataowners) = {1}
                                                 THEN 1 ELSE 0, n))
    BY DEF CastDone
  <2>2. Bit = IF XorAll(compareShare, Dataowners) = {1} THEN 1 ELSE 0
    BY <1>0, <1>1 DEF Inv, BitsInv, Bit
  <2>3. bitShare' = Additive(Bit, n)
    BY <1>3, <2>1, <2>2 DEF Drawn
  <2>4. Bit \in 0 .. Modulus - 1 /\ n \in [Others -> Int]
    <3>1. Bit \in {0, 1}
      BY DEF Bit
    <3>2. Modulus \in Nat /\ Modulus > 1
      BY Constants
    <3> QED
      BY <3>1, <3>2, NoiseType
  <2>5. bitShare' \in [Dataowners -> Int] /\ Opened(bitShare') = Bit
    BY <2>3, <2>4, AdditiveOpens
  <2> QED
    BY <2>5, SharesThere
<1>5. ShareOf' \in [Dataowners -> 0 .. Modulus - 1]
      /\ ShareOf'[Revealer] = IndexShare(Revealer, bitShare'[Revealer])
  <2>1. r' = r /\ locationShare' = locationShare
    BY DEF CastDone, inputs
  <2>2. ShareOf' = Shares(locationShare, r, bitShare')
    BY <2>1 DEF ShareOf, IndexShare, Shares
  <2>3. r \in [Dataowners -> Int] /\ locationShare \in [Dataowners -> Int]
    BY DEF Inv, DealtInv
  <2>4. ShareOf' \in [Dataowners -> 0 .. Modulus - 1]
    BY <1>4, <2>2, <2>3, SharesAdd
  <2>5. ShareOf'[Revealer] = IndexShare(Revealer, bitShare'[Revealer])
    BY <1>0, <2>2 DEF Shares, IndexShare
  <2> QED
    BY <2>4, <2>5
<1>6. /\ \A q \in Others : state'[q] = state[q] /\ numPartiesAwaiting'[q] = numPartiesAwaiting[q]
      /\ \A q \in Others : revealedValue'[q] = revealedValue[q]
      /\ state'[Revealer] = "sent"
      /\ numPartiesAwaiting'[Revealer] = Cardinality(Others)
      /\ revealedValue'[Revealer] = ShareOf'[Revealer]
  <2>1. Cardinality(Others) \in Nat
    BY Constants, FS_CardinalityType
  <2> QED
    BY <1>0, <1>1, <1>3, <1>5, <2>1 DEF Inv, Shape
<1>7. Shape'
  <2>1. Cardinality(Others) \in Nat
    BY Constants, FS_CardinalityType
  <2>2. IndexShare(Revealer, bitShare'[Revealer]) \in Int
    BY <1>0, <1>5, Constants
  <2> QED
    BY <1>0, <1>1, <1>3, <2>1, <2>2 DEF Inv, Shape, States
<1>8. Pending' = Others
  BY <1>3, <1>6 DEF Pending
<1>9. BitsInv'
  BY <1>0, <1>1, <1>2, <1>4, <1>6 DEF Inv, BitsInv
<1>10. WireInv'
  BY <1>1, <1>3 DEF WireInv
<1>11. RevealerInv'
  <2>1. Dataowners \ Others = {Revealer}
    BY <1>0
  <2>2. Sum(ShareOf', {Revealer}) = ShareOf'[Revealer]
    <3> DEFINE f == ShareOf'
               T == {Revealer}
    <3>1. f[Revealer] \in Int /\ T \ {Revealer} = {} /\ Revealer \in T
      BY <1>0, <1>5, Constants
    <3>2. IsFiniteSet(T) /\ \A x \in T : f[x] \in Int
      BY <3>1, FS_Singleton
    <3> HIDE DEF f, T
    <3>3. Sum(f, T) = f[Revealer] + Sum(f, {}) /\ Sum(f, {}) = 0
      BY <3>1, <3>2, SumLemma
    <3> QED
      BY <3>1, <3>3 DEF f, T
  <2>3. ShareOf'[Revealer] % Modulus = ShareOf'[Revealer]
    <3>1. ShareOf'[Revealer] \in 0 .. Modulus - 1 /\ Modulus \in Nat \ {0}
      BY <1>0, <1>5, Constants
    <3> QED
      BY <3>1
  <2>4. revealedValue'[Revealer] = SumAll(ShareOf', Dataowners \ Pending') % Modulus
    BY <1>6, <1>8, <2>1, <2>2, <2>3 DEF Sum, SumAll
  <2>5. state'[Revealer] \notin Early /\ state'[Revealer] # "complete"
    BY <1>6 DEF Early
  <2> QED
    BY <1>0, <1>6, <1>8, <2>4, <2>5 DEF RevealerInv
<1>12. OwnerInv'
  BY <1>0, <1>1, <1>2, <1>6 DEF Inv, OwnerInv, Early
<1> QED
  BY <1>2, <1>7, <1>9, <1>10, <1>11, <1>12 DEF Inv

\* The opened index arrives at a dataowner, which completes.
LEMMA ReceiveOpenedInv ==
  ASSUME Inv, NEW p \in Dataowners, NEW m \in wire, m.to = p, ReceiveOpened(p, m),
         UNCHANGED <<inputs, children>>
  PROVE  Inv'
<1>0. Revealer \in Dataowners /\ Others = Dataowners \ {Revealer}
  BY Constants
<1>1. p # Revealer
  BY InvKeepsApart, Constants DEF ReceiveOpened, ShareNeverTakenAsOpened, Inv, WireInv
<1>2. /\ m.from = Revealer /\ p \in Others /\ m.val = revealedValue[Revealer]
      /\ state[p] = "sent" /\ state[Revealer] = "complete"
  BY <1>0, <1>1 DEF Inv, WireInv
<1>3. /\ revealedValue' = [revealedValue EXCEPT ![p] = m.val]
      /\ output' = [output EXCEPT ![p] = SymDiff(@, Selected(u[p], m.val))]
      /\ state' = [state EXCEPT ![p] = "complete"]
      /\ wire' = wire \ {m} /\ numPartiesAwaiting' = numPartiesAwaiting
      /\ compareShare' = compareShare /\ bitShare' = bitShare
  BY DEF ReceiveOpened, ComputeFinalShare, children
<1>4. DealtInv' /\ Bit' = Bit /\ ShareOf' = ShareOf /\ u' = u
  BY <1>3, InputsKept DEF Inv
<1>5. m.val \in Int /\ output[p] = {}
  BY <1>2 DEF Inv, Shape, OwnerInv
<1>6. SymDiff({}, Selected(u[p], m.val)) = Selected(u[p], m.val)
  BY DEF SymDiff
<1>7. /\ \A q \in Dataowners \ {p} : /\ state'[q] = state[q] /\ output'[q] = output[q]
                                     /\ revealedValue'[q] = revealedValue[q]
      /\ state'[p] = "complete" /\ revealedValue'[p] = m.val
      /\ output'[p] = Selected(u[p], m.val)
  BY <1>3, <1>5, <1>6 DEF Inv, Shape
<1>8. Shape'
  BY <1>3, <1>5 DEF Inv, Shape, States
<1>9. Pending' = {} /\ Pending = {}
  <2>1. Pending = {}
    BY <1>2 DEF Inv, RevealerInv
  <2>2. \A q \in Others : state'[q] \in Early => state[q] \in Early
    BY <1>0, <1>7 DEF Early
  <2> QED
    BY <1>3, <2>1, <2>2 DEF Pending
<1>10. BitsInv'
  BY <1>0, <1>1, <1>2, <1>3, <1>4, <1>7 DEF Inv, BitsInv
<1>11. WireInv'
  <2> SUFFICES ASSUME NEW w \in wire'
               PROVE  /\ w.from = Revealer /\ w.to \in Others
                      /\ w.val = revealedValue'[Revealer]
                      /\ state'[w.to] = "sent" /\ state'[Revealer] = "complete"
    BY DEF WireInv
  <2>1. /\ w \in wire /\ w # m /\ w.from = Revealer /\ w.to \in Others
        /\ w.val = revealedValue[Revealer] /\ state[w.to] = "sent"
    BY <1>2, <1>3 DEF Inv, WireInv
  <2>2. w \in [from : Dataowners, to : Dataowners, val : Int]
        /\ m \in [from : Dataowners, to : Dataowners, val : Int]
    BY <2>1 DEF Inv, Shape
  <2>3. w.to # p
    BY <1>2, <2>1, <2>2
  <2> QED
    BY <1>0, <1>1, <1>2, <1>7, <2>1, <2>3
<1>12. RevealerInv'
  <2>1. /\ state'[Revealer] = "complete" /\ numPartiesAwaiting'[Revealer] = 0
        /\ revealedValue'[Revealer] = Opened(ShareOf)
    BY <1>0, <1>1, <1>2, <1>3, <1>7 DEF Inv, RevealerInv
  <2> QED
    BY <1>4, <1>9, <2>1 DEF RevealerInv, Early
<1>13. OwnerInv'
  BY <1>0, <1>1, <1>2, <1>3, <1>4, <1>7 DEF Inv, OwnerInv
<1> QED
  BY <1>4, <1>8, <1>10, <1>11, <1>12, <1>13 DEF Inv

\* A share arrives at the revealer: whoever counts is the revealer, and it still waits for
\* the sender.
LEMMA ShareArrives ==
  ASSUME Inv, NEW p \in Dataowners, NEW m \in wire, m.to = p, numPartiesAwaiting[p] # 0
  PROVE  /\ p = Revealer /\ state[Revealer] = "sent" /\ bitShare # <<>>
         /\ m.from \in Pending /\ m.from \in Others /\ m.val = ShareOf[m.from]
         /\ numPartiesAwaiting[Revealer] = Cardinality(Pending)
         /\ \A q \in Others : state[q] \in Early \cup {"sent"}
         /\ \A w \in wire : w.from \in Pending /\ (w.from = m.from => w = m)
<1>0. Revealer \in Dataowners /\ Others = Dataowners \ {Revealer}
  BY Constants
<1>1. p = Revealer
  BY DEF Inv, OwnerInv
<1>2. state[Revealer] = "sent"
  BY <1>0, <1>1 DEF Inv, WireInv
<1>3. /\ bitShare # <<>> /\ numPartiesAwaiting[Revealer] = Cardinality(Pending)
  BY <1>2 DEF Inv, BitsInv, RevealerInv
<1>4. \A w \in wire : /\ w.to = Revealer /\ w.from \in Others /\ w.val = ShareOf[w.from]
                      /\ w \in [from : Dataowners, to : Dataowners, val : Int]
  BY <1>2 DEF Inv, WireInv, Shape
<1>5. \A w \in wire : w.from \in Pending
  BY <1>4 DEF Pending
<1>6. \A w \in wire : w.from = m.from => w = m
  BY <1>4
<1>7. \A q \in Others : state[q] \in Early \cup {"sent"}
  BY <1>0, <1>2 DEF Inv, OwnerInv, Shape, States, Early
<1> QED
  BY <1>1, <1>2, <1>3, <1>4, <1>5, <1>6, <1>7

\* Added to a sum that was reduced, a share gives the next sum, reduced.
LEMMA SumStep ==
  ASSUME NEW f \in [Dataowners -> 0 .. Modulus - 1], NEW A \in SUBSET Dataowners,
         NEW q \in Dataowners \ A, NEW v, v = SumAll(f, A) % Modulus
  PROVE  (v + f[q]) % Modulus = SumAll(f, A \cup {q}) % Modulus
<1> DEFINE B == A \cup {q}
           S == Sum(f, A)
<1>1. /\ IsFiniteSet(A) /\ IsFiniteSet(B) /\ B \ {q} = A /\ q \in B /\ B \subseteq Dataowners
      /\ Modulus \in Nat \ {0}
  <2>1. B \subseteq Dataowners /\ A \subseteq Dataowners /\ B \ {q} = A /\ q \in B
    OBVIOUS
  <2> QED
    BY <2>1, Constants, FS_Subset
<1>2. \A x \in Dataowners : f[x] \in Int
  BY <1>1
<1> HIDE DEF B
<1>3. Sum(f, B) = f[q] + Sum(f, B \ {q})
  BY <1>1, <1>2, SumLemma
<1>4. Sum(f, B) = f[q] + S
  BY <1>1, <1>3
<1>5. S \in Int /\ f[q] \in Int
  BY <1>1, <1>2, SumLemma
<1>6. v = S % Modulus
  BY DEF Sum, SumAll
<1> HIDE DEF S
<1>7. v \in Int /\ Congruent(v, S, Modulus)
  BY <1>5, <1>6, Remainders
<1>8. Congruent(v + f[q], S + f[q], Modulus)
  <2>1. Modulus \in Nat
    BY <1>1
  <2>2. Congruent(f[q], f[q], Modulus)
    BY <1>5, <2>1, CongruentOrder
  <2> QED
    BY <1>5, <1>7, <2>1, <2>2, CongruentAdd
<1> DEFINE t == (S + f[q]) % Modulus
<1>9. t \in 0 .. Modulus - 1 /\ Congruent(t, S + f[q], Modulus) /\ S + f[q] \in Int /\ v + f[q] \in Int
  <2>1. S + f[q] \in Int /\ v + f[q] \in Int
    BY <1>5, <1>7
  <2> QED
    BY <2>1, Remainders
<1> HIDE DEF t
<1>10. Congruent(v + f[q], t, Modulus)
  <2>1. Modulus \in Nat /\ t \in Int
    BY <1>1, <1>9
  <2>2. Congruent(S + f[q], t, Modulus)
    BY <1>9, <2>1, CongruentOrder
  <2> QED
    BY <1>8, <1>9, <2>1, <2>2, CongruentOrder
<1>11. (v + f[q]) % Modulus = t
  BY <1>9, <1>10, Remainders
<1>12. t = Sum(f, B) % Modulus
  <2>1. S + f[q] = f[q] + S
    BY <1>5
  <2> QED
    BY <1>4, <2>1 DEF t
<1> QED
  BY <1>11, <1>12 DEF B, Sum, SumAll

\* A share arrives and is not the last.
LEMMA ReceiveShareInv ==
  ASSUME Inv, NEW p \in Dataowners, NEW m \in wire, m.to = p, ReceiveShare(p, m),
         UNCHANGED <<inputs, children>>
  PROVE  Inv'
<1> DEFINE q == m.from
           v == (revealedValue[Revealer] + m.val) % Modulus
<1>0. Revealer \in Dataowners /\ Others = Dataowners \ {Revealer} /\ IsFiniteSet(Dataowners)
  BY Constants
<1>1. /\ p = Revealer /\ state[Revealer] = "sent" /\ bitShare # <<>>
      /\ q \in Pending /\ q \in Others /\ m.val = ShareOf[q]
      /\ numPartiesAwaiting[Revealer] = Cardinality(Pending)
      /\ \A x \in Others : state[x] \in Early \cup {"sent"}
      /\ \A w \in wire : w.from \in Pending /\ (w.from = q => w = m)
  BY ShareArrives DEF ReceiveShare
<1>2. /\ compareShare' = compareShare /\ bitShare' = bitShare
      /\ revealedValue' = [revealedValue EXCEPT ![Revealer] = v]
      /\ numPartiesAwaiting' = [numPartiesAwaiting EXCEPT ![Revealer] = @ - 1]
  BY <1>1 DEF ReceiveShare, children
<1>3. DealtInv' /\ Bit' = Bit /\ ShareOf' = ShareOf /\ u' = u
  BY <1>2, InputsKept DEF Inv
<1>4. /\ Pending \subseteq Others /\ IsFiniteSet(Pending)
      /\ Cardinality(Pending) \in Nat
  BY PendingFinite
<1>5. Cardinality(Pending \ {q}) = Cardinality(Pending) - 1
  BY <1>1, <1>4, FS_RemoveElement
<1>6. ShareOf \in [Dataowners -> 0 .. Modulus - 1]
  <2>1. /\ bitShare \in [Dataowners -> Int] /\ locationShare \in [Dataowners -> Int]
        /\ r \in [Dataowners -> Int]
    BY <1>1 DEF Inv, BitsInv, DealtInv
  <2>2. ShareOf = Shares(locationShare, r, bitShare)
    BY DEF ShareOf, IndexShare, Shares
  <2> QED
    BY <2>1, <2>2, SharesAdd
<1>7. v = SumAll(ShareOf, Dataowners \ (Pending \ {q})) % Modulus
  <2> DEFINE A == Dataowners \ Pending
  <2>1. revealedValue[Revealer] = SumAll(ShareOf, A) % Modulus
    BY <1>1 DEF Inv, RevealerInv
  <2>2. A \in SUBSET Dataowners /\ q \in Dataowners \ A
        /\ A \cup {q} = Dataowners \ (Pending \ {q})
    BY <1>0, <1>1
  <2> HIDE DEF A
  <2>3. (revealedValue[Revealer] + ShareOf[q]) % Modulus = SumAll(ShareOf, A \cup {q}) % Modulus
    BY <1>6, <2>1, <2>2, SumStep
  <2> QED
    BY <1>1, <2>2, <2>3
<1>8. v \in Int
  <2>1. revealedValue[Revealer] + m.val \in Int
    BY <1>0 DEF Inv, Shape
  <2> QED
    BY <2>1, Remainders
<1> HIDE DEF v
<1>9. /\ revealedValue' \in [Dataowners -> Int] /\ revealedValue'[Revealer] = v
      /\ \A x \in Others : revealedValue'[x] = revealedValue[x]
      /\ \A x \in Others : numPartiesAwaiting'[x] = numPartiesAwaiting[x]
      /\ numPartiesAwaiting'[Revealer] = Cardinality(Pending \ {q})
      /\ numPartiesAwaiting' \in [Dataowners -> Nat]
  <2>1. Cardinality(Pending \ {q}) \in Nat
    BY <1>4, FS_RemoveElement, FS_CardinalityType
  <2> QED
    BY <1>0, <1>1, <1>2, <1>5, <1>8, <2>1 DEF Inv, Shape
<1>10. CASE numPartiesAwaiting[p] - 1 # 0
  <2>1. wire' = wire \ {m} /\ state' = state /\ output' = output
    BY <1>10 DEF ReceiveShare
  <2>2. Shape'
    BY <1>9, <2>1 DEF Inv, Shape
  <2>3. Pending' = Pending \ {q}
    <3>1. state[q] \notin Early
      BY <1>1 DEF Inv, WireInv, Early
    <3>2. \A x \in Others \ {q} : x \in Pending' <=> x \in Pending
      BY <2>1 DEF Pending
    <3>3. q \notin Pending'
      BY <1>1, <2>1, <3>1 DEF Pending
    <3>4. Pending' \subseteq Others
      BY DEF Pending
    <3> QED
      BY <1>4, <3>2, <3>3, <3>4
  <2>4. BitsInv'
    BY <1>2, <1>3, <2>1 DEF Inv, BitsInv
  <2>5. WireInv'
    <3> SUFFICES ASSUME NEW w \in wire'
                 PROVE  /\ w.to = Revealer /\ w.from \in Others /\ w.val = ShareOf[w.from]
                        /\ state[w.from] = "sent" /\ state[Revealer] = "sent"
      BY <1>3, <2>1 DEF WireInv
    <3> QED
      BY <1>1, <2>1 DEF Inv, WireInv
  <2>6. RevealerInv'
    <3>1. Pending \ {q} # {}
      <4>1. Cardinality(Pending \ {q}) # 0
        BY <1>1, <1>5, <1>10
      <4> QED
        BY <4>1, FS_EmptySet
    <3>2. state'[Revealer] = "sent" /\ state'[Revealer] \notin Early
      BY <1>1, <2>1 DEF Early
    <3> QED
      BY <1>3, <1>7, <1>9, <2>3, <3>1, <3>2 DEF RevealerInv
  <2>7. OwnerInv'
    BY <1>0, <1>1, <1>3, <1>9, <2>1 DEF Inv, OwnerInv
  <2> QED
    BY <1>3, <2>2, <2>4, <2>5, <2>6, <2>7 DEF Inv
<1>11. CASE numPartiesAwaiting[p] - 1 = 0
  <2>1. /\ wire' = (wire \ {m}) \cup
             {[from |-> Revealer, to |-> x, val |-> revealedValue'[Revealer]] : x \in Others}
        /\ output' = [output EXCEPT ![Revealer] = SymDiff(@, Selected(u[Revealer],
                                                          revealedValue'[Revealer]))]
        /\ state' = [state EXCEPT ![Revealer] = "complete"]
    BY <1>1, <1>11 DEF ReceiveShare, ComputeFinalShare
  <2>2. Pending \ {q} = {}
    <3>1. Cardinality(Pending \ {q}) = 0 /\ IsFiniteSet(Pending \ {q})
      BY <1>1, <1>4, <1>5, <1>11, FS_RemoveElement
    <3> QED
      BY <3>1, FS_EmptySet
  <2>3. wire' = {[from |-> Revealer, to |-> x, val |-> v] : x \in Others}
    BY <1>1, <1>9, <2>1, <2>2
  <2>4. \A w \in wire' : /\ w \in [from : Dataowners, to : Dataowners, val : Int]
                         /\ w.from = Revealer /\ w.to \in Others /\ w.val = v
    BY <1>0, <1>8, <2>3
  <2>5. /\ \A x \in Others : state'[x] = state[x] /\ output'[x] = output[x]
        /\ state'[Revealer] = "complete"
        /\ output'[Revealer] = Selected(u[Revealer], v)
    <3>1. output[Revealer] = {}
      BY <1>0, <1>1 DEF Inv, OwnerInv
    <3>2. SymDiff({}, Selected(u[Revealer], v)) = Selected(u[Revealer], v)
      BY DEF SymDiff
    <3> QED
      BY <1>0, <1>9, <2>1, <3>1, <3>2 DEF Inv, Shape
  <2>6. \A x \in Others : state'[x] = "sent"
    <3>1. \A x \in Others : x # q => state[x] \notin Early
      BY <2>2 DEF Pending
    <3>2. state[q] = "sent"
      BY <1>1 DEF Inv, WireInv
    <3> QED
      BY <1>1, <2>5, <3>1, <3>2
  <2>7. Shape'
    BY <1>9, <2>1, <2>4 DEF Inv, Shape, States
  <2>8. Pending' = {}
    BY <1>0, <2>4, <2>6 DEF Pending, Early
  <2>9. BitsInv'
    BY <1>0, <1>1, <1>2, <1>3, <2>5 DEF Inv, BitsInv
  <2>10. WireInv'
    BY <1>9, <2>4, <2>5, <2>6 DEF WireInv
  <2>11. RevealerInv'
    <3>1. v = Opened(ShareOf)
      BY <1>7, <2>2 DEF Opened
    <3>2. numPartiesAwaiting'[Revealer] = 0
      BY <1>9, <2>2, FS_EmptySet
    <3>3. state'[Revealer] \notin Early /\ state'[Revealer] # "sent"
      BY <2>5 DEF Early
    <3> QED
      BY <1>3, <1>9, <2>8, <3>1, <3>2, <3>3 DEF RevealerInv
  <2>12. OwnerInv'
    <3> SUFFICES ASSUME NEW x \in Dataowners
                 PROVE  /\ x # Revealer => numPartiesAwaiting'[x] = 0
                        /\ output'[x] = IF state'[x] = "complete"
                                          THEN Selected(u[x], revealedValue'[x]) ELSE {}
                        /\ state'[x] = "complete" =>
                             state'[Revealer] = "complete"
                               /\ revealedValue'[x] = revealedValue'[Revealer]
      BY <1>3 DEF OwnerInv
    <3>1. CASE x = Revealer
      BY <1>9, <2>5, <3>1
    <3>2. CASE x \in Others
      <4>1. state[x] # "complete"
        BY <2>5, <2>6, <3>2
      <4>2. numPartiesAwaiting[x] = 0 /\ output[x] = {}
        BY <1>0, <3>2, <4>1 DEF Inv, OwnerInv
      <4> QED
        BY <1>0, <1>9, <2>5, <2>6, <3>2, <4>2
    <3> QED
      BY <1>0, <3>1, <3>2
  <2> QED
    BY <1>3, <2>7, <2>9, <2>10, <2>11, <2>12 DEF Inv
<1> QED
  BY <1>10, <1>11

\* Every step keeps the invariant.
LEMMA NextInv == Inv /\ [Next]_vars => Inv'
<1> SUFFICES ASSUME Inv, [Next]_vars PROVE Inv'
  OBVIOUS
<1>1. CASE UNCHANGED vars
  <2>1. /\ UNCHANGED inputs /\ UNCHANGED children /\ UNCHANGED local /\ wire' = wire
    BY <1>1 DEF vars
  <2>2. /\ compareShare' = compareShare /\ bitShare' = bitShare /\ state' = state
        /\ numPartiesAwaiting' = numPartiesAwaiting /\ revealedValue' = revealedValue
        /\ output' = output
    BY <2>1 DEF children, local
  <2>3. DealtInv' /\ Bit' = Bit /\ ShareOf' = ShareOf /\ u' = u
    BY <2>1, <2>2, InputsKept DEF Inv
  <2>4. Pending' = Pending
    BY <2>1, <2>2 DEF Pending
  <2>5. Shape' /\ BitsInv' /\ WireInv'
    BY <2>1, <2>2, <2>3 DEF Inv, Shape, BitsInv, WireInv
  <2>6. RevealerInv' /\ OwnerInv'
    BY <2>1, <2>2, <2>3, <2>4 DEF Inv, RevealerInv, OwnerInv
  <2> QED
    BY <2>3, <2>5, <2>6 DEF Inv
<1>2. ASSUME NEW p \in Dataowners, LookupInit(p) \/ CompareDone(p) \/ CastDone(p)
      PROVE  Inv'
  <2>1. CASE LookupInit(p)
    BY <2>1, LookupInitInv
  <2>2. CASE CompareDone(p)
    BY <2>2, CompareDoneInv
  <2>3. CASE CastDone(p) /\ p = Revealer
    BY <2>3, CastDoneRevealer
  <2>4. CASE CastDone(p) /\ p # Revealer
    BY <2>4, Constants, CastDoneOther
  <2> QED
    BY <1>2, <2>1, <2>2, <2>3, <2>4
<1>3. ASSUME NEW p \in Dataowners, NEW m \in wire, HandleReceive(p, m)
      PROVE  Inv'
  BY <1>3, ReceiveOpenedInv, ReceiveShareInv DEF HandleReceive
<1> QED
  BY <1>1, <1>2, <1>3 DEF Next, Terminated

\* The inductive invariant of dataowner::Lookup: what was dealt opens to the right values,
\* every message is a share for a revealer that counts or the opened index for a dataowner
\* that waits, and the revealer has added each share once.
THEOREM InvHolds == Spec => []Inv
<1>1. Init => Inv
  BY InitInv
<1>2. Inv /\ [Next]_vars => Inv'
  BY NextInv
<1> QED
  BY <1>1, <1>2, PTL DEF Spec

\* Lookup::computeFinalShare at all dataowners yields XOR shares of the row that was looked
\* up: for every set of dataowners, every table size, every modulus more than twice as
\* large and every sharing of location, r, u and the two bits.
THEOREM RowCorrect == Spec => []LooksUpTheRow
<1>1. Inv => LooksUpTheRow
  BY InvLooksUp
<1> QED
  BY <1>1, InvHolds, PTL

\* No share of the index reaches Lookup::handleReceive at the revealer while its counter
\* is zero, however the completions of the TypeCastFromBit interleave.
THEOREM SharesKeptApart == Spec => []ShareNeverTakenAsOpened
<1>1. Inv => ShareNeverTakenAsOpened
  BY InvKeepsApart
<1> QED
  BY <1>1, InvHolds, PTL

=============================================================================
