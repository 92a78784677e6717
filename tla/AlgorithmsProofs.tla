-------------------------- MODULE AlgorithmsProofs --------------------------
(***************************************************************************)
(* Proofs about two of the computations that MCAlgorithms runs.            *)
(*                                                                         *)
(* ListSharing: for every number of dataowners, size of the lists, number  *)
(* of columns, moduli and seeds, the lists that two dataowners sort open   *)
(* to their two padded lists.  The inductive invariant is SharingInv.      *)
(*                                                                         *)
(* RegressionPayload: for every number of independent variables the packed *)
(* indices find the monomials of the normal equations.  UpperTriangle is   *)
(* recursive: that the recursion has a solution, and where that solution   *)
(* has a product, is shown by induction over sets of numbers.  The         *)
(* inductive invariant is PayloadInv.                                      *)
(***************************************************************************)
EXTENDS ListSharing, RegressionPayload, FiniteSetTheorems, SequenceTheorems,
        WellFoundedInduction, TLAPS

-----------------------------------------------------------------------------
(* Induction *)

\* A set of natural numbers that is not empty has a least member.
LEMMA LeastNat ==
  ASSUME NEW T, T \subseteq Nat, T # {}
  PROVE  \E x \in T : \A y \in T : x <= y
<1> DEFINE R == OpToRel(<, Nat)
<1>1. \A x, y \in Nat : <<y, x>> \in R <=> y < x
  BY DEF OpToRel
<1>2. IsWellFoundedOn(R, Nat)
  BY NatLessThanWellFounded, Zenon
<1> HIDE DEF R
<1>3. PICK x \in T : \A y \in T : ~(<<y, x>> \in R)
  BY <1>2, WFMin
<1>4. \A y \in T : ~(y < x)
  BY <1>1, <1>3
<1>5. \A y \in T : x <= y
  BY <1>4
<1> QED
  BY <1>5

\* A set that holds 0 and the successors of its members holds every number.
LEMMA NatInSet ==
  ASSUME NEW S, 0 \in S, \A n \in Nat : n \in S => n + 1 \in S
  PROVE  Nat \subseteq S
<1>1. SUFFICES ASSUME Nat \ S # {} PROVE FALSE
  OBVIOUS
<1>2. PICK x \in Nat \ S : \A y \in Nat \ S : x <= y
  BY <1>1, LeastNat
<1>3. x # 0 /\ x - 1 \in Nat /\ x - 1 \in S
  BY <1>2
<1> QED
  BY <1>2, <1>3

-----------------------------------------------------------------------------
(* Matrices stored row by row *)

\* A place in a matrix with n columns has one row and one column.
LEMMA CellUnique ==
  ASSUME NEW n \in Nat \ {0}, NEW i \in Int, NEW a \in Int, NEW j \in 0 .. n - 1,
         NEW b \in 0 .. n - 1, i * n + j = a * n + b
  PROVE  i = a /\ j = b
<1>1. i * n \in Int /\ a * n \in Int
  OBVIOUS
<1>2. ASSUME i < a PROVE FALSE
  <2>1. i + 1 <= a
    BY <1>2
  <2>2. (i + 1) * n <= a * n
    BY <2>1
  <2>3. (i + 1) * n = i * n + n
    OBVIOUS
  <2> QED
    BY <1>1, <2>2, <2>3
<1>3. ASSUME a < i PROVE FALSE
  <2>1. a + 1 <= i
    BY <1>3
  <2>2. (a + 1) * n <= i * n
    BY <2>1
  <2>3. (a + 1) * n = a * n + n
    OBVIOUS
  <2> QED
    BY <1>1, <2>2, <2>3
<1>4. i = a
  BY <1>2, <1>3
<1> QED
  BY <1>1, <1>4

\* A matrix with m rows and n columns has m * n places.
LEMMA CellBound ==
  ASSUME NEW m \in Nat, NEW n \in Nat, NEW i \in 0 .. m - 1, NEW j \in 0 .. n - 1
  PROVE  i * n + j \in 0 .. m * n - 1
<1>1. i * n \in Nat /\ m * n \in Nat
  OBVIOUS
<1>2. (i + 1) * n <= m * n
  OBVIOUS
<1>3. (i + 1) * n = i * n + n
  OBVIOUS
<1> QED
  BY <1>1, <1>2, <1>3

\* Division finds the row, and the remainder the column.
LEMMA CellDivision ==
  ASSUME NEW n \in Nat \ {0}, NEW i \in Int, NEW j \in 0 .. n - 1
  PROVE  (i * n + j) \div n = i /\ (i * n + j) % n = j
<1> DEFINE k == i * n + j
           a == k \div n
           b == k % n
<1>1. k \in Int
  OBVIOUS
<1> HIDE DEF k
<1>2. a \in Int /\ b \in 0 .. n - 1 /\ k = n * a + b
  BY <1>1
<1> HIDE DEF a, b
<1>3. k = a * n + b
  BY <1>2
<1>4. i * n + j = a * n + b
  BY <1>3 DEF k
<1>5. i = a /\ j = b
  BY <1>2, <1>4, CellUnique
<1> QED
  BY <1>5 DEF a, b, k

-----------------------------------------------------------------------------
(* Partners *)

\* The dataowners are finitely many, and so are the partners of one.
LEMMA OwnersFinite ==
  /\ IsFiniteSet(OwnerSet)
  /\ \A p : IsFiniteSet(CrossParties(p)) /\ NumCrossParties(p) \in Nat
<1>1. Len(Owners) \in Nat /\ DOMAIN Owners = 1 .. Len(Owners)
  BY OwnersAssumption
<1>2. IsFiniteSet(1 .. Len(Owners))
  BY <1>1, FS_Interval
<1>3. Owners \in Surjection(1 .. Len(Owners), OwnerSet)
  BY <1>1, OwnersAssumption DEF OwnerSet, Range, Surjection
<1>4. IsFiniteSet(OwnerSet)
  BY <1>2, <1>3, FS_Surjection
<1>5. \A p : CrossParties(p) \subseteq OwnerSet
  BY DEF CrossParties
<1> QED
  BY <1>4, <1>5, FS_Subset, FS_CardinalityType DEF NumCrossParties

\* A dataowner has one place among all of them, its own.
LEMMA PlaceType ==
  \A q \in OwnerSet : Place(q) \in Int /\ Owners[Place(q)] = q
<1> SUFFICES ASSUME NEW q \in OwnerSet PROVE Place(q) \in Int /\ Owners[Place(q)] = q
  OBVIOUS
<1>1. DOMAIN Owners = 1 .. Len(Owners) /\ Len(Owners) \in Nat
  BY OwnersAssumption
<1>2. \E i \in DOMAIN Owners : Owners[i] = q
  BY DEF OwnerSet, Range
<1>3. Place(q) \in DOMAIN Owners /\ Owners[Place(q)] = q
  BY <1>2 DEF Place
<1> QED
  BY <1>1, <1>3

\* indexOfCrossParties numbers the partners from 1, and no two of them alike.
LEMMA IndexLemma ==
  ASSUME NEW p
  PROVE  /\ \A q \in CrossParties(p) : IndexOfCrossParty(p, q) \in 1 .. NumCrossParties(p)
         /\ \A q, r \in CrossParties(p) :
              IndexOfCrossParty(p, q) = IndexOfCrossParty(p, r) => q = r
<1> DEFINE C == CrossParties(p)
           U(q) == {o \in C : Place(o) <= Place(q)}
<1>1. IsFiniteSet(C) /\ Cardinality(C) = NumCrossParties(p) /\ C \subseteq OwnerSet
  BY OwnersFinite DEF NumCrossParties, CrossParties
<1>2. \A q \in C : Place(q) \in Int /\ Owners[Place(q)] = q
  BY <1>1, PlaceType
<1>3. \A q : IndexOfCrossParty(p, q) = Cardinality(U(q))
  BY DEF IndexOfCrossParty
<1> HIDE DEF C
<1>4. \A q \in C : U(q) \in SUBSET C /\ q \in U(q)
  BY <1>2
<1>5. ASSUME NEW q \in C PROVE Cardinality(U(q)) \in 1 .. NumCrossParties(p)
  <2>1. IsFiniteSet(U(q)) /\ Cardinality(U(q)) \in Nat /\ Cardinality(U(q)) <= Cardinality(C)
    BY <1>1, <1>4, FS_Subset, FS_CardinalityType
  <2>2. Cardinality(U(q)) # 0
    BY <1>4, <2>1, FS_EmptySet
  <2> QED
    BY <1>1, <2>1, <2>2, FS_CardinalityType
<1>6. ASSUME NEW q \in C, NEW r \in C, Place(q) < Place(r)
      PROVE  Cardinality(U(q)) # Cardinality(U(r))
  <2>1. U(q) \in SUBSET U(r) /\ U(q) # U(r)
    BY <1>2, <1>4, <1>6
  <2>2. IsFiniteSet(U(r))
    BY <1>1, <1>4, FS_Subset
  <2> QED
    BY <2>1, <2>2, FS_Subset, FS_CardinalityType
<1>7. ASSUME NEW q \in C, NEW r \in C, Cardinality(U(q)) = Cardinality(U(r)) PROVE q = r
  <2>1. ~(Place(q) < Place(r)) /\ ~(Place(r) < Place(q))
    BY <1>6, <1>7
  <2>2. Place(q) = Place(r)
    BY <2>1, <1>2
  <2> QED
    BY <2>2, <1>2
<1> QED
  BY <1>3, <1>5, <1>7 DEF C

\* There are two verticals, so everybody has a partner; partners are mutual.
LEMMA CrossLemma ==
  ASSUME NEW p \in OwnerSet
  PROVE  /\ CrossParties(p) # {}
         /\ \A q \in CrossParties(p) : q \in OwnerSet /\ p \in CrossParties(q)
<1>1. \A q \in CrossParties(p) : q \in OwnerSet /\ p \in CrossParties(q)
  BY DEF CrossParties
<1>2. ASSUME CrossParties(p) = {} PROVE FALSE
  <2> DEFINE V == {VerticalOf[q] : q \in OwnerSet}
  <2>0. Cardinality(V) = 2
    BY OwnersAssumption
  <2>1. V = {VerticalOf[p]}
    BY <1>2 DEF CrossParties
  <2> HIDE DEF V
  <2>2. Cardinality({VerticalOf[p]}) = 1
    BY FS_Singleton
  <2> QED
    BY <2>0, <2>1, <2>2
<1> QED
  BY <1>1, <1>2

-----------------------------------------------------------------------------
(* Shares *)

\* The number a dataowner draws for a column of a row of a partner's share is
\* within the ones it draws.
LEMMA DrawBound ==
  ASSUME NEW n \in Nat, NEW i \in 1 .. n, NEW j \in 1 .. maxListSize, NEW k \in 1 .. RowCols
  PROVE  KeyCols * maxListSize + ((i - 1) * maxListSize + j - 1) * RowCols + k
           \in 1 .. KeyCols * maxListSize + (n * maxListSize) * RowCols
<1> DEFINE M == maxListSize
           R == RowCols
<1>1. M \in Nat \ {0} /\ R \in Nat /\ KeyCols * M \in Nat /\ k \in 1 .. R /\ j \in 1 .. M
  BY SharingAssumption DEF RowCols, KeyCols
<1> HIDE DEF M, R
<1>2. (i - 1) * M \in Nat /\ (i - 1) * M <= (n - 1) * M
  <2>1. i - 1 \in Nat /\ n - 1 \in Nat /\ i - 1 <= n - 1
    OBVIOUS
  <2> QED
    BY <1>1, <2>1
<1>3. (n - 1) * M + M = n * M /\ n * M \in Nat
  BY <1>1
<1> DEFINE row == (i - 1) * M + j - 1
<1>4. row \in Nat /\ row + 1 <= n * M
  BY <1>1, <1>2, <1>3
<1> DEFINE all == n * M
<1> HIDE DEF row, all
<1>5. row \in Nat /\ all \in Nat /\ row + 1 <= all
  BY <1>4, <1>3 DEF all
<1>6. row * R \in Nat /\ row * R + R <= all * R /\ all * R \in Nat
  <2>1. (row + 1) * R = row * R + R
    BY <1>1, <1>5
  <2>2. (row + 1) * R <= all * R
    BY <1>1, <1>5
  <2>3. row * R \in Nat /\ all * R \in Nat
    BY <1>1, <1>5
  <2> QED
    BY <2>1, <2>2, <2>3, <1>1
<1> DEFINE rr == row * R
           aa == all * R
           mm == KeyCols * M
<1> HIDE DEF rr, aa, mm
<1>7. mm + rr + k \in 1 .. mm + aa
  BY <1>1, <1>6 DEF rr, aa, mm
<1> QED
  BY <1>7 DEF mm, rr, aa, row, all, M, R

\* The noise for a partner is a matrix of numbers.
LEMMA NoiseType ==
  ASSUME NEW p \in OwnerSet, seed[p] \in Seeds, NEW i \in 1 .. NumCrossParties(p),
         NEW j \in 1 .. maxListSize, NEW k \in 1 .. RowCols
  PROVE  Noise(p, i)[j][k] \in Int
<1> DEFINE n == Cardinality(OwnerSet)
           at == KeyCols * maxListSize + ((i - 1) * maxListSize + j - 1) * RowCols + k
<1>1. n \in Nat /\ NumCrossParties(p) <= n /\ NumCrossParties(p) \in Nat
  BY OwnersFinite, FS_CardinalityType, FS_Subset DEF NumCrossParties, CrossParties
<1>2. i \in 1 .. n
  BY <1>1
<1>3. at \in 1 .. KeyCols * maxListSize + (n * maxListSize) * RowCols
  BY <1>1, <1>2, DrawBound
<1>4. Draw(seed[p], at) \in Nat
  BY <1>3, DataAssumption
<1>5. Noise(p, i)[j][k] = Draw(seed[p], at) % NoiseModulus(k)
  BY DEF Noise
<1>6. NoiseModulus(k) \in Nat \ {0}
  BY SharingAssumption DEF NoiseModulus, ColumnModulus
<1> QED
  BY <1>4, <1>5, <1>6

\* The padded list is long enough, and its rows hold numbers.
LEMMA PaddedType ==
  ASSUME NEW p \in OwnerSet, seed[p] \in Seeds, file[p] \in Files
  PROVE  /\ PaddedList(p) # << >>
         /\ \A j \in 1 .. maxListSize, k \in 1 .. RowCols : PaddedList(p)[j][k] \in Int
<1> DEFINE size == Len(file[p])
           top == IF size < maxListSize THEN maxListSize ELSE size
<1>1. /\ maxListSize \in Nat \ {0} /\ KeyCols = 2 /\ RowCols = 2 + PayloadCols
      /\ PayloadCols \in Nat /\ keyModulus \in Nat \ {0}
  BY SharingAssumption DEF KeyCols, RowCols
<1>2. size \in Nat /\ top \in Nat /\ maxListSize <= top
      /\ \A j \in 1 .. size : file[p][j].key \in Int /\ file[p][j].value \in Int
  <2> DEFINE Rec == [key : Int, value : Int]
             f == file[p]
  <2>1. f \in Seq(Rec)
    BY DataAssumption
  <2> HIDE DEF Rec, f
  <2>2. Len(f) \in Nat /\ \A j \in 1 .. Len(f) : f[j] \in Rec
    BY <2>1
  <2>3. top \in Nat /\ maxListSize <= top
    BY <2>2, <1>1 DEF f
  <2> QED
    BY <2>2, <2>3 DEF f, Rec
<1>3. DOMAIN PaddedList(p) = 1 .. top
  BY DEF PaddedList
<1>4. 1 \in DOMAIN PaddedList(p)
  BY <1>1, <1>2, <1>3
<1>5. PaddedList(p) # << >>
  BY <1>4
<1>6. ASSUME NEW j \in 1 .. maxListSize, NEW k \in 1 .. RowCols, j <= size
      PROVE  PaddedList(p)[j][k] \in Int
  <2> DEFINE pay == Payload(p, file[p][j].value)
             keys == << file[p][j].key, VerticalOf[p] >>
  <2>1. j \in 1 .. size /\ j \in 1 .. top
    BY <1>1, <1>2, <1>6
  <2>2. PaddedList(p)[j] = keys \o pay
    BY <2>1, <1>6 DEF PaddedList
  <2>3. \A c \in 1 .. PayloadCols : file[p][j].value ^ (c - 1) \in Int
    BY <2>1, DataAssumption
  <2>4. pay \in [1 .. PayloadCols -> Int]
    BY <2>1, <2>3, <1>2 DEF Payload
  <2>5. keys \in Seq(Int) /\ Len(keys) = 2
    BY <2>1, <1>2, OwnersAssumption
  <2> HIDE DEF pay, keys
  <2>6. pay \in Seq(Int) /\ Len(pay) = PayloadCols
    BY <2>4, <1>1
  <2>7. keys \o pay \in Seq(Int) /\ Len(keys \o pay) = RowCols
    <3>1. keys \o pay \in Seq(Int)
      BY <2>5, <2>6
    <3>2. Len(keys \o pay) = Len(keys) + Len(pay)
      BY <2>5, <2>6, ConcatProperties
    <3>3. Len(keys) + Len(pay) = RowCols
      BY ONLY <2>5, <2>6, <1>1
    <3> QED
      BY ONLY <3>1, <3>2, <3>3
  <2> QED
    BY <2>2, <2>7
<1>7. ASSUME NEW j \in 1 .. maxListSize, NEW k \in 1 .. RowCols, ~(j <= size)
      PROVE  PaddedList(p)[j][k] \in Int
  <2> DEFINE at == (j - size - 1) * KeyCols + k
  <2>1. PaddedList(p)[j][k] = IF k <= KeyCols THEN Draw(seed[p], at) % keyModulus ELSE 0
    BY <1>1, <1>2, <1>7 DEF PaddedList
  <2>2. CASE k <= KeyCols
    <3>1. Cardinality(OwnerSet) \in Nat
      BY OwnersFinite, FS_CardinalityType
    <3> DEFINE more == (Cardinality(OwnerSet) * maxListSize) * RowCols
    <3>2. more \in Nat
      <4>1. Cardinality(OwnerSet) * maxListSize \in Nat
        BY <3>1, <1>1
      <4> QED
        BY <4>1, <1>1
    <3> HIDE DEF more
    <3>3. at \in 1 .. KeyCols * maxListSize + more
      BY <3>2, <2>2, <1>1, <1>2, <1>7
    <3>4. Draw(seed[p], at) \in Nat
      BY <3>3, DataAssumption DEF more
    <3> QED
      BY <2>1, <2>2, <3>4, <1>1
  <2>3. CASE ~(k <= KeyCols)
    BY <2>1, <2>3
  <2> QED
    BY <2>2, <2>3
<1> QED
  BY <1>5, <1>6, <1>7

\* Two shares of a number open to it, in whatever order they are added.
LEMMA SharesOpen ==
  ASSUME NEW m \in Nat \ {0}, NEW a \in Int, NEW x \in Int
  PROVE  /\ ModAdd(ModSub(a, x, m), x, m) = a % m
         /\ ModAdd(x, ModSub(a, x, m), m) = a % m
<1> DEFINE b == a - x
           c == b % m
           u == b \div m
           r == a % m
           w == a \div m
<1>1. b \in Int
  OBVIOUS
<1> HIDE DEF b
<1>2. c \in Int /\ u \in Int /\ b = m * u + c
  BY <1>1
<1>3. r \in 0 .. m - 1 /\ w \in Int /\ a = m * w + r
  OBVIOUS
<1> HIDE DEF c, u, r, w
<1>4. c + x = (w - u) * m + r /\ x + c = c + x
  <2>1. b = a - x
    BY DEF b
  <2>2. m * u \in Int /\ m * w \in Int /\ (w - u) * m = m * w - m * u
    BY <1>2, <1>3
  <2> QED
    BY <1>2, <1>3, <2>1, <2>2
<1>5. w - u \in Int
  BY <1>2, <1>3
<1>6. ((w - u) * m + r) % m = r
  BY <1>3, <1>5, CellDivision
<1>7. (c + x) % m = r /\ (x + c) % m = r
  BY <1>4, <1>6
<1> QED
  BY <1>7 DEF c, b, r, ModAdd, ModSub

\* A row that is kept and the noise it was reduced by open to the row.
LEMMA RowsOpen ==
  ASSUME NEW p \in OwnerSet, seed[p] \in Seeds, file[p] \in Files,
         NEW i \in 1 .. NumCrossParties(p), NEW n \in 1 .. maxListSize
  PROVE  /\ Kept(p, i, PaddedList(p))[n] # NoRow /\ Noise(p, i)[n] # NoRow
         /\ Opened(Kept(p, i, PaddedList(p))[n], Noise(p, i)[n]) = Reduced(PaddedList(p)[n])
         /\ Opened(Noise(p, i)[n], Kept(p, i, PaddedList(p))[n]) = Reduced(PaddedList(p)[n])
<1> DEFINE rows == PaddedList(p)
           kept == Kept(p, i, rows)[n]
           noise == Noise(p, i)[n]
<1>1. \A k \in 1 .. RowCols : rows[n][k] \in Int /\ noise[k] \in Int
  BY PaddedType, NoiseType
<1>2. kept = [k \in 1 .. RowCols |-> ModSub(rows[n][k], noise[k], ColumnModulus(k))]
  BY DEF Kept
<1>3. DOMAIN noise = 1 .. RowCols
  BY DEF Noise
<1>4. 1 \in 1 .. RowCols
  BY SharingAssumption DEF RowCols, KeyCols
<1>5. \A k \in 1 .. RowCols : ColumnModulus(k) \in Nat \ {0}
  BY SharingAssumption DEF ColumnModulus
<1> HIDE DEF rows, noise
<1>6. kept # NoRow /\ noise # NoRow
  <2>1. DOMAIN kept = 1 .. RowCols
    BY <1>2
  <2> HIDE DEF kept
  <2>2. 1 \in DOMAIN kept /\ 1 \in DOMAIN noise /\ 1 \notin DOMAIN << >>
    BY <2>1, <1>3, <1>4
  <2> QED
    BY <2>2 DEF NoRow
<1>7. \A k \in 1 .. RowCols :
        /\ ModAdd(kept[k], noise[k], ColumnModulus(k)) = rows[n][k] % ColumnModulus(k)
        /\ ModAdd(noise[k], kept[k], ColumnModulus(k)) = rows[n][k] % ColumnModulus(k)
  BY <1>1, <1>2, <1>5, SharesOpen
<1> HIDE DEF kept
<1>8. Opened(kept, noise) = Reduced(rows[n]) /\ Opened(noise, kept) = Reduced(rows[n])
  BY <1>7 DEF Opened, Reduced
<1> QED
  BY <1>6, <1>8 DEF kept, noise, rows

-----------------------------------------------------------------------------
(* The inductive invariant of the sharing of lists *)

\* The partners whose share p has yet to receive: they have not started, or it is
\* on its way.
Missing(p) ==
  {q \in CrossParties(p) :
     ownList[q] = << >> \/ \E m \in shares : m.from = q /\ m.to = p}

SharingTypes ==
  /\ seed \in [OwnerSet -> Seeds] /\ file \in [OwnerSet -> Files]
  /\ DOMAIN ownList = OwnerSet /\ DOMAIN sharedLists = OwnerSet
  /\ DOMAIN sharesAwaited = OwnerSet /\ DOMAIN sorts = OwnerSet

\* A message carries what its sender drew for its receiver.
MessagesAreNoise ==
  \A m \in shares :
    /\ m.from \in OwnerSet /\ m.to \in CrossParties(m.from) /\ ownList[m.from] # << >>
    /\ m = [from |-> m.from, to |-> m.to,
            rows |-> Noise(m.from, IndexOfCrossParty(m.from, m.to))]

\* The list with a partner holds the share that p kept of its own rows, in its own
\* half, and in the other what the partner drew for p, once it is in.
ListInPlace(p, q) ==
  LET list == sharedLists[p][IndexOfCrossParty(p, q)] IN
  /\ DOMAIN list = 1 .. 2 * maxListSize
  /\ \A n \in 1 .. maxListSize :
       list[OwnHalf(p) + n] = Kept(p, IndexOfCrossParty(p, q), PaddedList(p))[n]
  /\ q \notin Missing(p) =>
       \A n \in 1 .. maxListSize :
         list[TheirHalf(p) + n] = Noise(q, IndexOfCrossParty(q, p))[n]

\* How far a dataowner is: constructed or not, counting shares, or sorting.
Progress(p) ==
  /\ ownList[p] = << >> => Missing(p) = CrossParties(p) /\ sorts[p] = {}
  /\ ownList[p] # << >> => ownList[p] = PaddedList(p)
  /\ ownList[p] # << >> /\ sorts[p] = {} => sharesAwaited[p] = Cardinality(Missing(p))
  /\ sorts[p] # {} => Missing(p) = {} /\ sorts[p] = {Sort(p, q) : q \in CrossParties(p)}

SharingInv ==
  /\ SharingTypes /\ MessagesAreNoise
  /\ \A p \in OwnerSet :
       /\ Progress(p)
       /\ ownList[p] # << >> =>
            /\ DOMAIN sharedLists[p] = 1 .. NumCrossParties(p)
            /\ \A q \in CrossParties(p) : ListInPlace(p, q)

\* Where a half of a list may start.
Halves == {0, maxListSize}
IsHalf(rows) == DOMAIN rows = 1 .. maxListSize
IsList(list) == DOMAIN list = 1 .. 2 * maxListSize

\* Rows put in a half of a list are there, and the other half stays as it was.
LEMMA PlacedLemma ==
  ASSUME NEW list, IsList(list), NEW half \in Halves, NEW rows, IsHalf(rows)
  PROVE  /\ IsList(Placed(list, half, rows))
         /\ \A n \in 1 .. maxListSize : Placed(list, half, rows)[half + n] = rows[n]
         /\ \A other \in Halves, n \in 1 .. maxListSize :
              other # half => Placed(list, half, rows)[other + n] = list[other + n]
<1> DEFINE M == maxListSize
<1>1. M \in Nat \ {0}
  BY SharingAssumption
<1>2. \A h \in {0, M}, n \in 1 .. M : h + n \in 1 .. 2 * M /\ h \in Int /\ n \in Int
  BY <1>1
<1>3. \A n \in 1 .. M : (half + n) - half = n
  BY <1>1 DEF Halves
<1>4. \A other \in Halves, n \in 1 .. M : other # half => (other + n) - half \notin 1 .. M
  BY <1>1 DEF Halves
<1> QED
  BY <1>2, <1>3, <1>4 DEF Placed, Halves, IsList, IsHalf

\* The two halves are not the same.
LEMMA HalvesDiffer ==
  ASSUME NEW p
  PROVE  OwnHalf(p) \in Halves /\ TheirHalf(p) \in Halves /\ OwnHalf(p) # TheirHalf(p)
BY SharingAssumption DEF OwnHalf, TheirHalf, Halves

\* What a dataowner draws, keeps and pads depends on nothing that a step changes.
LEMMA DrawnStays ==
  ASSUME UNCHANGED << query, seed, file >>
  PROVE  /\ \A p, i : Noise(p, i)' = Noise(p, i)
         /\ \A p : PaddedList(p)' = PaddedList(p)
         /\ \A p, i, rows : Kept(p, i, rows)' = Kept(p, i, rows)
<1>1. \A k : NoiseModulus(k)' = NoiseModulus(k)
  BY DEF NoiseModulus
<1>2. \A p, i : Noise(p, i)' = Noise(p, i)
  BY <1>1 DEF Noise
<1>3. \A p, v : Payload(p, v)' = Payload(p, v)
  BY DEF Payload
<1>4. \A p : PaddedList(p)' = PaddedList(p)
  BY <1>3 DEF PaddedList
<1> QED
  BY <1>2, <1>4 DEF Kept

\* Nobody has started yet.
LEMMA SharingStarts == SharingInit => SharingInv
<1> SUFFICES ASSUME SharingInit PROVE SharingInv
  OBVIOUS
<1>1. SharingTypes /\ MessagesAreNoise
  BY DEF SharingInit, SharingTypes, MessagesAreNoise
<1>2. ASSUME NEW p \in OwnerSet PROVE Progress(p) /\ ownList[p] = << >>
  <2>1. ownList[p] = << >> /\ sorts[p] = {}
    BY DEF SharingInit
  <2>2. \A q \in CrossParties(p) : ownList[q] = << >>
    BY CrossLemma DEF SharingInit
  <2>3. Missing(p) = CrossParties(p)
    BY <2>2 DEF Missing
  <2> QED
    BY <2>1, <2>3 DEF Progress
<1> QED
  BY <1>1, <1>2 DEF SharingInv

\* A dataowner that starts has filled its half of every list; its shares are on
\* their way, so nobody misses more or fewer than before.
LEMMA ShareListsKeeps ==
  ASSUME SharingInv, NEW p \in OwnerSet, ShareLists(p)
  PROVE  SharingInv'
<1> DEFINE rows == PaddedList(p)
<1>0. UNCHANGED << query, seed, file, sorts >> /\ ownList[p] = << >>
  BY DEF ShareLists
<1>1. /\ \A q, i : Noise(q, i)' = Noise(q, i)
      /\ \A q : PaddedList(q)' = PaddedList(q)
      /\ \A q, i, r : Kept(q, i, r)' = Kept(q, i, r)
  BY <1>0, DrawnStays
<1>2. SharingTypes'
  BY DEF SharingInv, SharingTypes, ShareLists
<1>3. rows # << >>
  BY PaddedType DEF SharingInv, SharingTypes
<1>4. /\ ownList'[p] = rows
      /\ \A q \in OwnerSet : q # p => ownList'[q] = ownList[q]
                                      /\ sharesAwaited'[q] = sharesAwaited[q]
                                      /\ sharedLists'[q] = sharedLists[q]
      /\ sharesAwaited'[p] = NumCrossParties(p)
      /\ sharedLists'[p] =
           [i \in 1 .. NumCrossParties(p) |-> Placed(Unfilled, OwnHalf(p), Kept(p, i, rows))]
  BY DEF SharingInv, SharingTypes, ShareLists
<1>5. shares' = shares \cup {[from |-> p, to |-> q, rows |-> Noise(p, IndexOfCrossParty(p, q))] :
                               q \in CrossParties(p)}
  BY DEF ShareLists
<1>6. MessagesAreNoise'
  <2> SUFFICES ASSUME NEW m \in shares'
               PROVE  /\ m.from \in OwnerSet /\ m.to \in CrossParties(m.from)
                      /\ ownList'[m.from] # << >>
                      /\ m = [from |-> m.from, to |-> m.to,
                              rows |-> Noise(m.from, IndexOfCrossParty(m.from, m.to))]
    BY <1>1 DEF MessagesAreNoise
  <2>1. CASE m \in shares
    BY <2>1, <1>0, <1>4 DEF SharingInv, MessagesAreNoise
  <2>2. CASE m \notin shares
    BY <2>2, <1>3, <1>4, <1>5
  <2> QED
    BY <2>1, <2>2
<1>7. ASSUME NEW x \in OwnerSet PROVE Missing(x)' = Missing(x)
  <2> SUFFICES ASSUME NEW q \in CrossParties(x)
               PROVE  (ownList'[q] = << >> \/ \E m \in shares' : m.from = q /\ m.to = x)
                        <=> (ownList[q] = << >> \/ \E m \in shares : m.from = q /\ m.to = x)
    BY DEF Missing
  <2>0. q \in OwnerSet /\ x \in CrossParties(q)
    BY CrossLemma
  <2>1. CASE q = p
    <3>1. ownList[q] = << >>
      BY <2>1, <1>0
    <3> DEFINE m == [from |-> p, to |-> x, rows |-> Noise(p, IndexOfCrossParty(p, x))]
    <3>2. m \in shares' /\ m.from = q /\ m.to = x
      BY <2>0, <2>1, <1>5
    <3> QED
      BY <3>1, <3>2
  <2>2. CASE q # p
    <3>1. ownList'[q] = ownList[q]
      BY <2>0, <2>2, <1>4
    <3>2. \A m \in shares' : m.from = q => m \in shares
      BY <2>2, <1>5
    <3>3. shares \subseteq shares'
      BY <1>5
    <3> QED
      BY <3>1, <3>2, <3>3
  <2> QED
    BY <2>1, <2>2
<1>8. ASSUME NEW x \in OwnerSet, x # p
      PROVE  /\ Progress(x)'
             /\ ownList'[x] # << >> => /\ DOMAIN sharedLists'[x] = 1 .. NumCrossParties(x)
                                       /\ \A q \in CrossParties(x) : ListInPlace(x, q)'
  <2>1. Progress(x)'
    BY <1>0, <1>1, <1>4, <1>7, <1>8 DEF SharingInv, Progress
  <2>2. \A q : ListInPlace(x, q) => ListInPlace(x, q)'
    BY <1>1, <1>4, <1>7, <1>8 DEF ListInPlace
  <2> QED
    BY <2>1, <2>2, <1>4, <1>8 DEF SharingInv
<1>9. Progress(p)'
  <2>1. sorts'[p] = {} /\ Missing(p) = CrossParties(p)
    BY <1>0 DEF SharingInv, Progress
  <2> QED
    BY <2>1, <1>1, <1>3, <1>4, <1>7 DEF Progress, NumCrossParties
<1>10. DOMAIN sharedLists'[p] = 1 .. NumCrossParties(p)
  BY <1>4
<1>11. ASSUME NEW q \in CrossParties(p) PROVE ListInPlace(p, q)'
  <2> DEFINE i == IndexOfCrossParty(p, q)
             kept == Kept(p, i, rows)
             list == Placed(Unfilled, OwnHalf(p), kept)
  <2>1. i \in 1 .. NumCrossParties(p)
    BY IndexLemma
  <2>2. sharedLists'[p][i] = list
    BY <2>1, <1>4
  <2>3. IsList(Unfilled) /\ IsHalf(kept)
    BY DEF Unfilled, Kept, IsList, IsHalf
  <2>4. DOMAIN list = 1 .. 2 * maxListSize
        /\ \A n \in 1 .. maxListSize : list[OwnHalf(p) + n] = kept[n]
    <3> DEFINE half == OwnHalf(p)
    <3>1. half \in Halves
      BY HalvesDiffer
    <3> HIDE DEF kept, half
    <3>2. IsList(Placed(Unfilled, half, kept))
          /\ \A n \in 1 .. maxListSize : Placed(Unfilled, half, kept)[half + n] = kept[n]
      BY <2>3, <3>1, PlacedLemma
    <3> QED
      BY <3>2 DEF half, IsList
  <2>5. q \in Missing(p)'
    BY <1>0, <1>7 DEF SharingInv, Progress
  <2>6. Kept(p, i, PaddedList(p))' = kept
    BY <1>1
  <2> HIDE DEF kept, list, i
  <2> QED
    BY <2>2, <2>4, <2>5, <2>6 DEF ListInPlace, i
<1> QED
  BY <1>2, <1>6, <1>8, <1>9, <1>10, <1>11 DEF SharingInv

\* A share that arrives is put in place; the receiver misses its sender no more,
\* and starts to sort when it misses nobody.
LEMMA ReceiveShareKeeps ==
  ASSUME SharingInv, NEW m \in shares, ReceiveShare(m)
  PROVE  SharingInv'
<1> DEFINE p == m.to
           r == m.from
           i == IndexOfCrossParty(p, r)
           last == sharesAwaited[p] - 1 = 0
<1>0. UNCHANGED << query, seed, file, ownList >> /\ ownList[p] # << >>
  BY DEF ReceiveShare
<1>1. /\ \A q, k : Noise(q, k)' = Noise(q, k)
      /\ \A q : PaddedList(q)' = PaddedList(q)
      /\ \A q, k, rows : Kept(q, k, rows)' = Kept(q, k, rows)
  BY <1>0, DrawnStays
<1>2. /\ r \in OwnerSet /\ p \in CrossParties(r) /\ ownList[r] # << >>
      /\ m.rows = Noise(r, IndexOfCrossParty(r, p))
  BY DEF SharingInv, MessagesAreNoise
<1>3. p \in OwnerSet /\ r \in CrossParties(p)
  BY <1>2, CrossLemma
<1>4. /\ sharesAwaited'[p] = IF last THEN NumCrossParties(p) ELSE sharesAwaited[p] - 1
      /\ sorts'[p] = IF last THEN {Sort(p, q) : q \in CrossParties(p)} ELSE sorts[p]
      /\ \A q \in OwnerSet : q # p => /\ sharesAwaited'[q] = sharesAwaited[q]
                                      /\ sorts'[q] = sorts[q]
                                      /\ sharedLists'[q] = sharedLists[q]
      /\ shares' = shares \ {m}
      /\ sharedLists' = [sharedLists EXCEPT ![p][i] =
                           Placed(sharedLists[p][i], TheirHalf(p), m.rows)]
  BY <1>3 DEF SharingInv, SharingTypes, ReceiveShare
<1>5. SharingTypes'
  BY <1>3 DEF SharingInv, SharingTypes, ReceiveShare
<1>6. MessagesAreNoise'
  BY <1>0, <1>1, <1>4 DEF SharingInv, MessagesAreNoise
<1>7. \A o \in shares : o.from = r /\ o.to = p => o = m
  <2> SUFFICES ASSUME NEW o \in shares, o.from = r, o.to = p PROVE o = m
    OBVIOUS
  <2>1. /\ o = [from |-> r, to |-> p, rows |-> Noise(r, IndexOfCrossParty(r, p))]
        /\ m = [from |-> r, to |-> p, rows |-> Noise(r, IndexOfCrossParty(r, p))]
    BY DEF SharingInv, MessagesAreNoise
  <2> QED
    BY <2>1
<1>8. Missing(p)' = Missing(p) \ {r} /\ r \in Missing(p)
  <2>1. r \in Missing(p)
    BY <1>3 DEF Missing
  <2>2. r \notin Missing(p)'
    BY <1>0, <1>2, <1>4, <1>7 DEF Missing
  <2>3. ASSUME NEW q, q # r PROVE q \in Missing(p)' <=> q \in Missing(p)
    BY <2>3, <1>0, <1>4 DEF Missing
  <2> QED
    BY <2>1, <2>2, <2>3
<1>9. ASSUME NEW x, x # p PROVE Missing(x)' = Missing(x)
  BY <1>9, <1>0, <1>4 DEF Missing
<1>10. ASSUME NEW x \in OwnerSet, x # p
       PROVE  /\ Progress(x)'
              /\ ownList'[x] # << >> => /\ DOMAIN sharedLists'[x] = 1 .. NumCrossParties(x)
                                        /\ \A q \in CrossParties(x) : ListInPlace(x, q)'
  <2>1. Progress(x)'
    BY <1>0, <1>1, <1>4, <1>9, <1>10 DEF SharingInv, Progress
  <2>2. \A q : ListInPlace(x, q) => ListInPlace(x, q)'
    BY <1>1, <1>4, <1>9, <1>10 DEF ListInPlace
  <2> QED
    BY <2>1, <2>2, <1>0, <1>4, <1>10 DEF SharingInv
<1>11. Progress(p)'
  <2>1. sorts[p] = {} /\ ownList[p] = PaddedList(p) /\ sharesAwaited[p] = Cardinality(Missing(p))
    BY <1>0, <1>3, <1>8 DEF SharingInv, Progress
  <2>2. IsFiniteSet(Missing(p))
    <3>1. Missing(p) \subseteq CrossParties(p)
      BY DEF Missing
    <3> QED
      BY <3>1, OwnersFinite, FS_Subset
  <2>3. /\ IsFiniteSet(Missing(p)') /\ Cardinality(Missing(p)') \in Nat
        /\ sharesAwaited[p] - 1 = Cardinality(Missing(p)')
    <3> DEFINE S == Missing(p)
    <3>1. IsFiniteSet(S) /\ r \in S /\ Missing(p)' = S \ {r} /\ sharesAwaited[p] = Cardinality(S)
      BY <1>8, <2>1, <2>2
    <3> HIDE DEF S
    <3>2. IsFiniteSet(S \ {r}) /\ Cardinality(S \ {r}) = Cardinality(S) - 1
          /\ Cardinality(S) \in Nat
      BY <3>1, FS_RemoveElement, FS_CardinalityType
    <3>3. Cardinality(S \ {r}) \in Nat
      BY <3>2, FS_CardinalityType
    <3> QED
      BY <3>1, <3>2, <3>3
  <2>4. CASE last
    <3>1. Missing(p)' = {}
      BY <2>3, <2>4, FS_EmptySet
    <3>2. sorts'[p] = {Sort(p, q) : q \in CrossParties(p)} /\ sorts'[p] # {}
      BY <1>3, <1>4, <2>4
    <3>3. {Sort(p, q) : q \in CrossParties(p)}' = {Sort(p, q) : q \in CrossParties(p)}
      OBVIOUS
    <3> QED
      BY <3>1, <3>2, <3>3, <2>1, <1>0, <1>1 DEF Progress
  <2>5. CASE ~last
    BY <2>1, <2>3, <2>5, <1>0, <1>1, <1>4 DEF Progress
  <2> QED
    BY <2>4, <2>5
<1>12. i \in 1 .. NumCrossParties(p) /\ DOMAIN sharedLists[p] = 1 .. NumCrossParties(p)
  BY <1>0, <1>3, IndexLemma DEF SharingInv
<1> DEFINE list == Placed(sharedLists[p][i], TheirHalf(p), m.rows)
<1>13. /\ DOMAIN sharedLists'[p] = 1 .. NumCrossParties(p) /\ sharedLists'[p][i] = list
       /\ \A k \in 1 .. NumCrossParties(p) : k # i => sharedLists'[p][k] = sharedLists[p][k]
  <2> HIDE DEF list, i
  <2> QED
    BY <1>3, <1>4, <1>12 DEF SharingInv, SharingTypes, list
<1>14. ASSUME NEW q \in CrossParties(p), q # r PROVE ListInPlace(p, q)'
  <2>1. IndexOfCrossParty(p, q) \in 1 .. NumCrossParties(p) /\ IndexOfCrossParty(p, q) # i
    BY <1>3, <1>14, IndexLemma
  <2>2. sharedLists'[p][IndexOfCrossParty(p, q)] = sharedLists[p][IndexOfCrossParty(p, q)]
    BY <1>13, <2>1
  <2>3. q \in Missing(p)' <=> q \in Missing(p)
    BY <1>8, <1>14
  <2>4. ListInPlace(p, q)
    BY <1>0, <1>3 DEF SharingInv
  <2> QED
    BY <1>1, <2>2, <2>3, <2>4 DEF ListInPlace
<1>15. ListInPlace(p, r)'
  <2> DEFINE own == OwnHalf(p)
             their == TheirHalf(p)
             old == sharedLists[p][i]
  <2>1. ListInPlace(p, r)
    BY <1>0, <1>3 DEF SharingInv
  <2>2. own \in Halves /\ their \in Halves /\ own # their
    BY HalvesDiffer
  <2>3. IsList(old) /\ IsHalf(m.rows)
    BY <2>1, <1>2 DEF ListInPlace, Noise, IsList, IsHalf
  <2> HIDE DEF own, their, old
  <2>4. /\ DOMAIN list = 1 .. 2 * maxListSize
        /\ \A n \in 1 .. maxListSize : list[their + n] = m.rows[n]
        /\ \A n \in 1 .. maxListSize : list[own + n] = old[own + n]
    <3> DEFINE rows == m.rows
    <3>1. list = Placed(old, their, rows)
      BY DEF old, their
    <3>2. IsHalf(rows)
      BY <2>3
    <3> HIDE DEF rows, list
    <3>3. /\ IsList(Placed(old, their, rows))
          /\ \A n \in 1 .. maxListSize : Placed(old, their, rows)[their + n] = rows[n]
          /\ \A n \in 1 .. maxListSize : Placed(old, their, rows)[own + n] = old[own + n]
      BY <2>2, <2>3, <3>2, PlacedLemma
    <3> QED
      BY <3>1, <3>3 DEF rows, IsList
  <2>5. \A n \in 1 .. maxListSize : old[own + n] = Kept(p, i, PaddedList(p))[n]
    BY <2>1 DEF ListInPlace, own, old
  <2> HIDE DEF list
  <2>6. DOMAIN list = 1 .. 2 * maxListSize
        /\ \A n \in 1 .. maxListSize :
             /\ list[own + n] = Kept(p, i, PaddedList(p))'[n]
             /\ list[their + n] = Noise(r, IndexOfCrossParty(r, p))'[n]
    BY <1>1, <1>2, <2>4, <2>5
  <2> QED
    BY <1>13, <2>6 DEF ListInPlace, own, their
<1> QED
  BY <1>5, <1>6, <1>10, <1>11, <1>13, <1>14, <1>15, <1>0 DEF SharingInv

\* The sharing of lists keeps its invariant.
THEOREM SharingInvHolds == SharingSpec => []SharingInv
<1>1. SharingInv /\ [SharingNext]_sharingVars => SharingInv'
  <2> SUFFICES ASSUME SharingInv, [SharingNext]_sharingVars PROVE SharingInv'
    OBVIOUS
  <2>1. CASE SharingNext
    BY <2>1, ShareListsKeeps, ReceiveShareKeeps DEF SharingNext
  <2>2. CASE UNCHANGED sharingVars
    <3>1. UNCHANGED << query, seed, file, ownList, sharedLists, sharesAwaited, shares, sorts >>
      BY <2>2 DEF sharingVars
    <3>2. /\ \A q, k : Noise(q, k)' = Noise(q, k)
          /\ \A q : PaddedList(q)' = PaddedList(q)
          /\ \A q, k, rows : Kept(q, k, rows)' = Kept(q, k, rows)
      BY <3>1, DrawnStays
    <3>3. SharingTypes' /\ MessagesAreNoise'
      BY <3>1, <3>2 DEF SharingInv, SharingTypes, MessagesAreNoise
    <3>4. \A p : Missing(p)' = Missing(p)
      BY <3>1 DEF Missing
    <3>5. ASSUME NEW p \in OwnerSet PROVE Progress(p)'
      BY <3>1, <3>2, <3>4 DEF SharingInv, Progress
    <3>6. \A p, q : ListInPlace(p, q) => ListInPlace(p, q)'
      BY <3>1, <3>2, <3>4 DEF ListInPlace
    <3> QED
      BY <3>1, <3>3, <3>5, <3>6 DEF SharingInv
  <2> QED
    BY <2>1, <2>2
<1> QED
  BY <1>1, SharingStarts, PTL DEF SharingSpec

\* Whatever the numbers of dataowners, rows and columns, the moduli and the seeds,
\* and in whatever order the shares of the partners arrive: two dataowners that
\* sort agree on who reveals, and what they hold opens to both padded lists.
THEOREM SharedListsOpen == SharingSpec => []SortsOpenToBothLists
<1>1. SharingInv => SortsOpenToBothLists
  <2> SUFFICES ASSUME SharingInv, NEW p \in OwnerSet, NEW s \in sorts[p],
                      NEW t \in sorts[s.with], t.with = p, VerticalOf[p] = DataVertical
               PROVE  /\ s.revealer = t.revealer
                      /\ \A n \in 1 .. 2 * maxListSize :
                           /\ NoRow \notin {sharedLists[p][s.list][n], sharedLists[s.with][t.list][n]}
                           /\ Opened(sharedLists[p][s.list][n], sharedLists[s.with][t.list][n]) =
                                Reduced(IF n <= maxListSize THEN ownList[p][n]
                                        ELSE ownList[s.with][n - maxListSize])
    BY DEF SortsOpenToBothLists
  <2>1. PICK q \in CrossParties(p) : s = Sort(p, q)
    BY DEF SharingInv, Progress
  <2>2. s.with = q /\ q \in OwnerSet /\ p \in CrossParties(q)
    BY <2>1, CrossLemma DEF Sort
  <2>3. PICK z \in CrossParties(q) : t = Sort(q, z)
    BY <2>2 DEF SharingInv, Progress
  <2>4. t = Sort(q, p)
    BY <2>3 DEF Sort
  <2>5. VerticalOf[q] # DataVertical
    BY <2>1 DEF CrossParties
  <2>6. s.revealer = t.revealer
    BY <2>1, <2>4, <2>5 DEF Sort
  <2> DEFINE i == IndexOfCrossParty(p, q)
             k == IndexOfCrossParty(q, p)
             one == sharedLists[p][i]
             two == sharedLists[q][k]
             M == maxListSize
  <2>7. s.list = i /\ t.list = k
    BY <2>1, <2>4 DEF Sort
  <2>8. /\ Missing(p) = {} /\ Missing(q) = {}
        /\ ownList[p] = PaddedList(p) /\ ownList[q] = PaddedList(q)
        /\ ListInPlace(p, q) /\ ListInPlace(q, p)
    <3>1. sorts[p] # {} /\ sorts[q] # {}
      BY <2>2
    <3> QED
      BY <3>1, <2>2 DEF SharingInv, Progress
  <2>9. OwnHalf(p) = 0 /\ TheirHalf(p) = M /\ OwnHalf(q) = M /\ TheirHalf(q) = 0
    BY <2>5 DEF OwnHalf, TheirHalf
  <2>10. M \in Nat \ {0}
    BY SharingAssumption
  <2>11. /\ \A n \in 1 .. M : one[0 + n] = Kept(p, i, PaddedList(p))[n] /\ two[0 + n] = Noise(p, i)[n]
         /\ \A n \in 1 .. M : two[M + n] = Kept(q, k, PaddedList(q))[n] /\ one[M + n] = Noise(q, k)[n]
    BY <2>8, <2>9 DEF ListInPlace
  <2>12. \A n \in 1 .. M : 0 + n = n
    BY <2>10
  <2>13. i \in 1 .. NumCrossParties(p) /\ k \in 1 .. NumCrossParties(q)
    BY <2>2, IndexLemma
  <2>14. seed[p] \in Seeds /\ seed[q] \in Seeds /\ file[p] \in Files /\ file[q] \in Files
    BY <2>2 DEF SharingInv, SharingTypes
  <2> HIDE DEF i, k, one, two, M
  <2>15. ASSUME NEW n \in 1 .. M
         PROVE  /\ one[n] # NoRow /\ two[n] # NoRow
                /\ Opened(one[n], two[n]) = Reduced(PaddedList(p)[n])
    BY <2>11, <2>12, <2>13, <2>14, RowsOpen DEF M
  <2>16. ASSUME NEW n \in 1 .. M
         PROVE  /\ one[M + n] # NoRow /\ two[M + n] # NoRow
                /\ Opened(one[M + n], two[M + n]) = Reduced(PaddedList(q)[n])
    BY <2>2, <2>11, <2>13, <2>14, RowsOpen DEF M
  <2>17. ASSUME NEW n \in 1 .. 2 * M
         PROVE  /\ one[n] # NoRow /\ two[n] # NoRow
                /\ Opened(one[n], two[n]) =
                     Reduced(IF n <= M THEN PaddedList(p)[n] ELSE PaddedList(q)[n - M])
    <3>1. CASE n <= M
      BY <3>1, <2>10, <2>15
    <3>2. CASE ~(n <= M)
      <4>1. n - M \in 1 .. M /\ M + (n - M) = n
        BY <3>2, <2>10
      <4> DEFINE b == n - M
      <4>2. one[M + b] # NoRow /\ two[M + b] # NoRow
            /\ Opened(one[M + b], two[M + b]) = Reduced(PaddedList(q)[b])
        BY <4>1, <2>16
      <4> QED
        BY <4>1, <4>2, <3>2
    <3> QED
      BY <3>1, <3>2
  <2> QED
    BY <2>2, <2>6, <2>7, <2>8, <2>17 DEF one, two, M
<1> QED
  BY <1>1, SharingInvHolds, PTL

-----------------------------------------------------------------------------
(* Triangles *)

\* The size of a triangle with x rows, and what its first a rows hold.
T(x) == (x * (x + 1)) \div 2
Above(n, a) == T(n) - T(n - a)

\* A triangle with one more row.
LEMMA TriangleGrows == \A x \in Nat : T(x) \in Nat /\ T(x + 1) = T(x) + x + 1
<1> SUFFICES ASSUME NEW x \in Nat PROVE T(x) \in Nat /\ T(x + 1) = T(x) + x + 1
  OBVIOUS
<1>1. x * (x + 1) \in Nat
  OBVIOUS
<1>2. T(x) \in Nat
  BY <1>1 DEF T
<1>3. ((x + 1) * ((x + 1) + 1)) \div 2 = (x * (x + 1)) \div 2 + x + 1
  OBVIOUS
<1> QED
  BY <1>2, <1>3 DEF T

\* The rows above row a, and row a itself.
LEMMA AboveGrows ==
  ASSUME NEW n \in Nat
  PROVE  /\ Above(n, 0) = 0 /\ Above(n, n) = T(n)
         /\ \A a \in 0 .. n : Above(n, a) \in Int
         /\ \A a \in 0 .. n - 1 : Above(n, a + 1) = Above(n, a) + (n - a)
<1>1. \A x \in Nat : T(x) \in Nat /\ T(x + 1) = T(x) + x + 1
  BY TriangleGrows
<1>2. T(0) = 0
  BY DEF T
<1>3. n - 0 = n /\ n - n = 0
  OBVIOUS
<1>4. Above(n, 0) = 0 /\ Above(n, n) = T(n)
  <2>1. T(n) \in Nat
    BY <1>1
  <2>2. T(n - 0) = T(n) /\ T(n - n) = 0
    BY <1>2, <1>3
  <2> QED
    BY <2>1, <2>2 DEF Above
<1>5. \A a \in 0 .. n : n - a \in Nat
  OBVIOUS
<1>6. \A a \in 0 .. n : Above(n, a) \in Int
  BY <1>1, <1>5 DEF Above
<1>7. ASSUME NEW a \in 0 .. n - 1 PROVE Above(n, a + 1) = Above(n, a) + (n - a)
  <2> DEFINE x == n - (a + 1)
  <2>1. x \in Nat /\ x + 1 = n - a
    OBVIOUS
  <2> HIDE DEF x
  <2>2. T(n - a) = T(x) + x + 1 /\ T(x) \in Nat /\ T(n) \in Nat
    <3>1. T(x + 1) = T(x) + x + 1 /\ T(x) \in Nat
      BY <2>1, <1>1
    <3> QED
      BY <3>1, <2>1, <1>1
  <2>3. Above(n, a + 1) = T(n) - T(x) /\ Above(n, a) = T(n) - T(n - a)
    BY DEF Above, x
  <2> DEFINE y == T(x)
             z == T(n)
  <2> HIDE DEF y, z
  <2>4. y \in Nat /\ z \in Nat /\ Above(n, a + 1) = z - y /\ Above(n, a) = z - (y + x + 1)
    BY <2>2, <2>3 DEF y, z
  <2> QED
    BY <2>1, <2>4
<1> QED
  BY <1>4, <1>6, <1>7

\* The body of the recursion of UpperTriangle over the first m rows.
Rows(v, n, m, g) == [i \in 0 .. m |-> IF i = 0 THEN <<>> ELSE g[i - 1] \o TriangleRow(v, n, i - 1)]
Before(v, n) == CHOOSE g : g = Rows(v, n, n, g)

\* The recursion has a solution.
LEMMA BeforeExists ==
  ASSUME NEW v, NEW n \in Nat
  PROVE  /\ UpperTriangle(v, n) = Before(v, n)[n]
         /\ Before(v, n)[0] = <<>>
         /\ \A i \in 0 .. n - 1 : Before(v, n)[i + 1] = Before(v, n)[i] \o TriangleRow(v, n, i)
<1> DEFINE N == {m \in Nat : \E g : g = Rows(v, n, m, g)}
<1>1. 0 \in N
  <2> DEFINE g == [i \in 0 .. 0 |-> <<>>]
  <2>1. g = Rows(v, n, 0, g)
    BY DEF Rows
  <2> QED
    BY <2>1
<1>2. ASSUME NEW m \in Nat, m \in N PROVE m + 1 \in N
  <2>1. PICK g : g = Rows(v, n, m, g)
    BY <1>2
  <2> DEFINE h == [i \in 0 .. m + 1 |-> IF i <= m THEN g[i] ELSE g[m] \o TriangleRow(v, n, m)]
  <2>2. \A i \in 0 .. m : g[i] = IF i = 0 THEN <<>> ELSE g[i - 1] \o TriangleRow(v, n, i - 1)
    BY <2>1 DEF Rows
  <2>3. ASSUME NEW i \in 0 .. m + 1
        PROVE  h[i] = IF i = 0 THEN <<>> ELSE h[i - 1] \o TriangleRow(v, n, i - 1)
    <3>1. CASE i = 0
      <4>1. 0 \in 0 .. m /\ 0 <= m
        OBVIOUS
      <4> QED
        BY <3>1, <4>1, <2>2
    <3>2. CASE i # 0 /\ i <= m
      <4>1. i \in 0 .. m /\ i - 1 \in 0 .. m + 1 /\ i - 1 <= m
        BY <3>2
      <4>2. h[i] = g[i] /\ h[i - 1] = g[i - 1]
        BY <4>1, <3>2
      <4> HIDE DEF h
      <4> QED
        BY <3>2, <4>1, <4>2, <2>2
    <3>3. CASE i = m + 1
      <4>1. i - 1 = m /\ m \in 0 .. m + 1 /\ ~(i <= m) /\ m <= m /\ i # 0
        BY <3>3
      <4>2. h[i] = g[m] \o TriangleRow(v, n, m) /\ h[m] = g[m]
        BY <4>1
      <4> HIDE DEF h
      <4> QED
        BY <4>1, <4>2
    <3> QED
      BY <3>1, <3>2, <3>3
  <2>4. h = Rows(v, n, m + 1, h)
    BY <2>3 DEF Rows
  <2> QED
    BY <2>4
<1> HIDE DEF N
<1>3. n \in N
  BY <1>1, <1>2, NatInSet
<1>4. \E g : g = Rows(v, n, n, g)
  BY <1>3 DEF N
<1> DEFINE f == Before(v, n)
<1>5. f = Rows(v, n, n, f)
  BY <1>4 DEF Before
<1>6. UpperTriangle(v, n) = f[n]
  BY DEF UpperTriangle, Before, Rows
<1> HIDE DEF f
<1>7. \A i \in 0 .. n : f[i] = IF i = 0 THEN <<>> ELSE f[i - 1] \o TriangleRow(v, n, i - 1)
  BY <1>5 DEF Rows
<1>8. f[0] = <<>>
  BY <1>7
<1>9. ASSUME NEW i \in 0 .. n - 1 PROVE f[i + 1] = f[i] \o TriangleRow(v, n, i)
  <2>1. i + 1 \in 0 .. n /\ i + 1 # 0 /\ (i + 1) - 1 = i
    OBVIOUS
  <2> QED
    BY <2>1, <1>7
<1> QED
  BY <1>6, <1>8, <1>9 DEF f

\* The products of the first n columns of v are in V.
Multiplies(v, n, V) == \A a, b \in 0 .. n - 1 : Product(At(v, a), At(v, b)) \in V

\* Where UpperTriangle has the product of columns a and b.
LEMMA TriangleLemma ==
  ASSUME NEW V, NEW v, NEW n \in Nat, Multiplies(v, n, V)
  PROVE  /\ UpperTriangle(v, n) \in Seq(V) /\ Len(UpperTriangle(v, n)) = T(n)
         /\ \A a \in 0 .. n - 1 : \A b \in a .. n - 1 :
              /\ Above(n, a) + (b - a) + 1 \in 1 .. T(n)
              /\ UpperTriangle(v, n)[Above(n, a) + (b - a) + 1] = Product(At(v, a), At(v, b))
<1> DEFINE f == Before(v, n)
           Good(i) == /\ f[i] \in Seq(V) /\ Len(f[i]) = Above(n, i)
                      /\ \A a \in 0 .. i - 1 : \A b \in a .. n - 1 :
                           /\ Above(n, a) + (b - a) + 1 \in 1 .. Above(n, i)
                           /\ f[i][Above(n, a) + (b - a) + 1] = Product(At(v, a), At(v, b))
           N == {m \in Nat : m <= n => Good(m)}
<1>1. /\ UpperTriangle(v, n) = f[n] /\ f[0] = <<>>
      /\ \A i \in 0 .. n - 1 : f[i + 1] = f[i] \o TriangleRow(v, n, i)
  BY BeforeExists
<1>2. /\ Above(n, 0) = 0 /\ Above(n, n) = T(n)
      /\ \A a \in 0 .. n : Above(n, a) \in Int
      /\ \A a \in 0 .. n - 1 : Above(n, a + 1) = Above(n, a) + (n - a)
  BY AboveGrows
<1> HIDE DEF f
<1>3. 0 \in N
  <2>1. <<>> \in Seq(V) /\ Len(<<>>) = 0
    OBVIOUS
  <2>2. \A a \in 0 .. 0 - 1 : FALSE
    OBVIOUS
  <2>3. Good(0)
    BY <1>1, <1>2, <2>1, <2>2
  <2> HIDE DEF Good
  <2> QED
    BY <2>3
<1>4. ASSUME NEW m \in Nat, m \in N PROVE m + 1 \in N
  <2> HIDE DEF Good
  <2> SUFFICES ASSUME m + 1 <= n PROVE Good(m + 1)
    OBVIOUS
  <2>1. m \in 0 .. n - 1 /\ m <= n /\ m \in 0 .. n /\ m + 1 \in 0 .. n
    OBVIOUS
  <2>2. Good(m)
    BY <1>4, <2>1
  <2> USE DEF Good
  <2> DEFINE row == TriangleRow(v, n, m)
             s == f[m]
             size == Above(n, m)
  <2>3. /\ \A k \in 1 .. n - m : row[k] = Product(At(v, m), At(v, m + k - 1))
        /\ DOMAIN row = 1 .. n - m
    BY DEF TriangleRow
  <2>4. \A k \in 1 .. n - m : m + k - 1 \in 0 .. n - 1
    BY <2>1
  <2>5. row \in [1 .. n - m -> V]
    BY <2>1, <2>4 DEF TriangleRow, Multiplies
  <2> HIDE DEF row
  <2>6. row \in Seq(V) /\ Len(row) = n - m
    <3>1. n - m \in Nat
      BY <2>1
    <3> QED
      BY <2>5, <3>1
  <2>7. s \in Seq(V) /\ Len(s) = size /\ size \in Int /\ f[m + 1] = s \o row
        /\ Above(n, m + 1) = size + (n - m)
    BY <1>1, <1>2, <2>1, <2>2 DEF row
  <2> HIDE DEF s, size
  <2>8. size \in Nat
    BY <2>7
  <2>9. /\ s \o row \in Seq(V) /\ Len(s \o row) = size + (n - m)
        /\ \A k \in 1 .. size + (n - m) :
             (s \o row)[k] = IF k <= size THEN s[k] ELSE row[k - size]
    <3>1. /\ s \o row \in Seq(V) /\ Len(s \o row) = Len(s) + Len(row)
          /\ \A k \in 1 .. Len(s) + Len(row) :
               (s \o row)[k] = IF k <= Len(s) THEN s[k] ELSE row[k - Len(s)]
      BY <2>6, <2>7, ConcatProperties
    <3> QED
      BY ONLY <3>1, <2>6, <2>7
  <2>10. ASSUME NEW a \in 0 .. m, NEW b \in a .. n - 1
         PROVE  /\ Above(n, a) + (b - a) + 1 \in 1 .. size + (n - m)
                /\ (s \o row)[Above(n, a) + (b - a) + 1] = Product(At(v, a), At(v, b))
    <3> DEFINE k == Above(n, a) + (b - a) + 1
    <3>1. CASE a # m
      <4>1. a \in 0 .. m - 1
        BY <3>1
      <4>2. k \in 1 .. size /\ s[k] = Product(At(v, a), At(v, b))
        BY <4>1, <2>2 DEF s, size
      <4> HIDE DEF k
      <4>3. k \in 1 .. size + (n - m) /\ k <= size
        BY <4>2, <2>1, <2>8
      <4>4. (s \o row)[k] = Product(At(v, a), At(v, b))
        BY <4>2, <4>3, <2>9
      <4> QED
        BY <4>3, <4>4 DEF k
    <3>2. CASE a = m
      <4>1. k = size + (b - m) + 1 /\ b \in m .. n - 1
        BY <3>2 DEF size
      <4> HIDE DEF k
      <4>2. k \in 1 .. size + (n - m) /\ ~(k <= size) /\ k - size = b - m + 1
            /\ b - m + 1 \in 1 .. n - m /\ m + (b - m + 1) - 1 = b
        BY <4>1, <2>1, <2>8
      <4>3. (s \o row)[k] = row[b - m + 1]
        BY <4>2, <2>9
      <4>4. row[b - m + 1] = Product(At(v, m), At(v, b))
        BY <4>2, <2>3
      <4> QED
        BY <4>2, <4>3, <4>4, <3>2 DEF k
    <3> QED
      BY <3>1, <3>2
  <2>11. \A a \in 0 .. (m + 1) - 1 : a \in 0 .. m
    OBVIOUS
  <2> QED
    BY <2>7, <2>9, <2>10, <2>11
<1> HIDE DEF N
<1>5. n \in N
  BY <1>3, <1>4, NatInSet
<1>6. Good(n)
  BY <1>5 DEF N
<1> QED
  BY <1>1, <1>2, <1>6

-----------------------------------------------------------------------------
(* The packed rows *)

\* Products of columns, of y and of 1.
Monomials == [of : SUBSET ({"x", "y", "1"} \X Int), degree : Int]

\* Every entry of a row is a monomial.
LEMMA MonomialTypes ==
  /\ \A k \in Int : Single(X(k)) \in Monomials
  /\ Single(Y) \in Monomials /\ One \in Monomials
  /\ \A m, n \in Monomials : Product(m, n) \in Monomials /\ Product(m, n) = Product(n, m)
<1>1. \A k \in Int : X(k) \in {"x", "y", "1"} \X Int
  BY DEF X
<1>2. Y \in {"x", "y", "1"} \X Int /\ <<"1", 0>> \in {"x", "y", "1"} \X Int
  BY DEF Y
<1> DEFINE W == {"x", "y", "1"} \X Int
<1> HIDE DEF W
<1>3. (\A k \in Int : X(k) \in W) /\ Y \in W /\ <<"1", 0>> \in W
  BY <1>1, <1>2 DEF W
<1>4. Monomials = [of : SUBSET W, degree : Int]
  BY DEF Monomials, W
<1>5. \A x \in W : Single(x) \in Monomials
  BY <1>4 DEF Single
<1>6. One \in Monomials
  BY <1>3, <1>4 DEF One
<1>7. ASSUME NEW m \in Monomials, NEW n \in Monomials
      PROVE  Product(m, n) \in Monomials /\ Product(m, n) = Product(n, m)
  <2>1. m.of \cup n.of = n.of \cup m.of /\ m.degree + n.degree = n.degree + m.degree
    BY <1>4
  <2>2. m.of \cup n.of \in SUBSET W /\ m.degree + n.degree \in Int
    BY <1>4
  <2> QED
    BY <2>1, <2>2, <1>4 DEF Product
<1> QED
  BY <1>3, <1>5, <1>6, <1>7

\* A row filled up to a length it does not exceed keeps its entries.
LEMMA ResizeKeeps ==
  ASSUME NEW v \in Seq(Monomials), NEW n \in Nat, Len(v) <= n
  PROVE  \A k \in 0 .. Len(v) - 1 : At(Resize(v, n), k) = v[k + 1]
<1> SUFFICES ASSUME NEW k \in 0 .. Len(v) - 1 PROVE At(Resize(v, n), k) = v[k + 1]
  OBVIOUS
<1>1. Len(v) \in Nat /\ DOMAIN v = 1 .. Len(v)
  OBVIOUS
<1>2. k + 1 \in 1 .. n /\ k + 1 \in DOMAIN v
  BY <1>1
<1>3. Resize(v, n)[k + 1] = v[k + 1] /\ DOMAIN Resize(v, n) = 1 .. n
  BY <1>2 DEF Resize
<1> QED
  BY <1>2, <1>3 DEF At

\* computePayloadLength has room for both rows.
LEMMA PayloadLengthLemma ==
  ASSUME d_1 \in Nat, d_2 \in Nat
  PROVE  /\ payloadLength \in Nat /\ d_1 + T(d_1) <= payloadLength
         /\ (d_2 + 1) + T(d_2) + d_2 + 3 <= payloadLength
         /\ (d_2 * (d_2 + 3)) \div 2 = T(d_2) + d_2
<1>1. \A x \in Nat : (x * (x + 3)) \div 2 = (x * (x + 1)) \div 2 + x
  OBVIOUS
<1>2. (d_2 * (d_2 + 3)) \div 2 = T(d_2) + d_2
  BY <1>1 DEF T
<1>3. T(d_1) \in Nat /\ T(d_2) \in Nat
  BY TriangleGrows
<1> DEFINE own == d_1 + T(d_1)
           withY == (d_2 + 1) + (T(d_2) + d_2) + 3
<1>4. payloadLength = IF own >= withY THEN own ELSE withY
  BY <1>2 DEF payloadLength, computePayloadLength, T
<1> DEFINE t1 == T(d_1)
           t2 == T(d_2)
<1> HIDE DEF t1, t2
<1>5. own = d_1 + t1 /\ withY = (d_2 + 1) + t2 + d_2 + 3 /\ t1 \in Nat /\ t2 \in Nat
  BY <1>3 DEF t1, t2
<1>6. own \in Nat /\ withY \in Nat
  BY <1>5
<1> HIDE DEF own, withY
<1>7. payloadLength \in Nat /\ own <= payloadLength /\ withY <= payloadLength
  BY <1>4, <1>6
<1> QED
  BY <1>2, <1>3, <1>7 DEF own, withY

\* The row of the vertical without y: its columns, then their products.
LEMMA OtherRowLemma ==
  ASSUME d_1 \in Nat, d_2 \in Nat, vec1 = Resize(OtherRow, payloadLength)
  PROVE  /\ \A i \in 0 .. d_1 - 1 : At(vec1, i) = Single(X(i))
         /\ \A a \in 0 .. d_1 - 1 : \A b \in a .. d_1 - 1 :
              At(vec1, d_1 + Above(d_1, a) + (b - a)) = Product(Single(X(a)), Single(X(b)))
<1> DEFINE own == [k \in 1 .. d_1 |-> Single(X(k - 1))]
           tri == UpperTriangle(own, d_1)
           t == T(d_1)
           n == payloadLength
<1>1. own \in Seq(Monomials) /\ Len(own) = d_1
  <2>1. \A k \in 1 .. d_1 : k - 1 \in Int
    OBVIOUS
  <2>2. own \in [1 .. d_1 -> Monomials]
    BY <2>1, MonomialTypes
  <2> HIDE DEF own
  <2> QED
    BY <2>2
<1>2. \A i \in 0 .. d_1 - 1 : own[i + 1] = Single(X(i)) /\ At(own, i) = Single(X(i))
  <2> SUFFICES ASSUME NEW i \in 0 .. d_1 - 1
               PROVE  own[i + 1] = Single(X(i)) /\ At(own, i) = Single(X(i))
    OBVIOUS
  <2>1. i + 1 \in 1 .. d_1 /\ (i + 1) - 1 = i
    OBVIOUS
  <2> QED
    BY <2>1 DEF At
<1>3. OtherRow = own \o tri
  BY DEF OtherRow
<1>4. n \in Nat /\ t \in Nat /\ d_1 + t <= n
  BY PayloadLengthLemma, TriangleGrows
<1>5. Multiplies(own, d_1, Monomials)
  BY <1>2, MonomialTypes DEF Multiplies
<1> HIDE DEF own
<1>6. /\ tri \in Seq(Monomials) /\ Len(tri) = t
      /\ \A a \in 0 .. d_1 - 1 : \A b \in a .. d_1 - 1 :
           /\ Above(d_1, a) + (b - a) + 1 \in 1 .. t
           /\ tri[Above(d_1, a) + (b - a) + 1] = Product(At(own, a), At(own, b))
  BY <1>5, TriangleLemma
<1> HIDE DEF tri, t, n
<1> DEFINE row == own \o tri
<1>7. /\ row \in Seq(Monomials) /\ Len(row) = Len(own) + Len(tri)
      /\ \A k \in 1 .. Len(own) + Len(tri) :
           row[k] = IF k <= Len(own) THEN own[k] ELSE tri[k - Len(own)]
  BY <1>1, <1>6, ConcatProperties
<1> HIDE DEF row
<1>8. /\ row \in Seq(Monomials) /\ Len(row) = d_1 + t
      /\ \A k \in 1 .. d_1 + t : row[k] = IF k <= d_1 THEN own[k] ELSE tri[k - d_1]
  BY ONLY <1>1, <1>6, <1>7
<1>9. \A k \in 0 .. d_1 + t - 1 : At(vec1, k) = row[k + 1]
  <2>1. vec1 = Resize(row, n)
    BY <1>3 DEF row, n
  <2> QED
    BY <2>1, <1>4, <1>8, ResizeKeeps
<1>10. ASSUME NEW i \in 0 .. d_1 - 1 PROVE At(vec1, i) = Single(X(i))
  <2>1. i \in 0 .. d_1 + t - 1 /\ i + 1 \in 1 .. d_1 + t /\ i + 1 <= d_1
    BY <1>4
  <2> QED
    BY <2>1, <1>2, <1>8, <1>9
<1>11. ASSUME NEW a \in 0 .. d_1 - 1, NEW b \in a .. d_1 - 1
       PROVE  At(vec1, d_1 + Above(d_1, a) + (b - a)) = Product(Single(X(a)), Single(X(b)))
  <2> DEFINE u == Above(d_1, a)
             k == u + (b - a) + 1
  <2>1. u \in Int
    BY AboveGrows
  <2>2. k \in 1 .. t /\ tri[k] = Product(At(own, a), At(own, b))
    BY <1>6
  <2>3. d_1 + u + (b - a) = d_1 + k - 1
    BY <2>1
  <2> HIDE DEF k
  <2>4. d_1 + k - 1 \in 0 .. d_1 + t - 1 /\ (d_1 + k - 1) + 1 = d_1 + k /\ d_1 + k \in 1 .. d_1 + t
        /\ ~(d_1 + k <= d_1) /\ (d_1 + k) - d_1 = k
    BY <2>2, <1>4
  <2>5. At(vec1, d_1 + k - 1) = row[d_1 + k] /\ row[d_1 + k] = tri[k]
    BY <2>4, <1>8, <1>9
  <2>6. a \in 0 .. d_1 - 1 /\ b \in 0 .. d_1 - 1
    OBVIOUS
  <2> QED
    BY <2>2, <2>3, <2>5, <2>6, <1>2
<1> QED
  BY <1>10, <1>11

\* s holds the entries of four sequences one after the other.
InARow(V, s, s1, s2, s3, s4, n1, n2, n3, n4) ==
  /\ s \in Seq(V) /\ Len(s) = n1 + n2 + n3 + n4
  /\ \A k \in 1 .. n1 : s[k] = s1[k]
  /\ \A k \in 1 .. n2 : s[n1 + k] = s2[k]
  /\ \A k \in 1 .. n3 : s[n1 + n2 + k] = s3[k]
  /\ \A k \in 1 .. n4 : s[n1 + n2 + n3 + k] = s4[k]

\* Four sequences in a row.
LEMMA FourInARow ==
  ASSUME NEW V, NEW s1 \in Seq(V), NEW s2 \in Seq(V), NEW s3 \in Seq(V), NEW s4 \in Seq(V),
         NEW n1 \in Nat, NEW n2 \in Nat, NEW n3 \in Nat, NEW n4 \in Nat,
         n1 = Len(s1), n2 = Len(s2), n3 = Len(s3), n4 = Len(s4)
  PROVE  InARow(V, s1 \o s2 \o s3 \o s4, s1, s2, s3, s4, n1, n2, n3, n4)
<1> DEFINE a == s1 \o s2
           b == a \o s3
           s == s1 \o s2 \o s3 \o s4
<1>1. /\ a \in Seq(V) /\ Len(a) = n1 + n2
      /\ \A i \in 1 .. n1 + n2 : a[i] = IF i <= n1 THEN s1[i] ELSE s2[i - n1]
  BY ConcatProperties
<1> HIDE DEF a
<1>2. /\ b \in Seq(V) /\ Len(b) = (n1 + n2) + n3
      /\ \A i \in 1 .. (n1 + n2) + n3 : b[i] = IF i <= n1 + n2 THEN a[i] ELSE s3[i - (n1 + n2)]
  <2>1. /\ b \in Seq(V) /\ Len(b) = Len(a) + Len(s3)
        /\ \A i \in 1 .. Len(a) + Len(s3) : b[i] = IF i <= Len(a) THEN a[i] ELSE s3[i - Len(a)]
    <3>1. a \in Seq(V)
      BY <1>1
    <3> QED
      BY ONLY <3>1, s3 \in Seq(V), ConcatProperties
  <2> HIDE DEF b
  <2> QED
    BY <1>1, <2>1
<1>0. s = b \o s4
  BY DEF a
<1> HIDE DEF b, s
<1>3. /\ s \in Seq(V) /\ Len(s) = (n1 + n2 + n3) + n4
      /\ \A i \in 1 .. (n1 + n2 + n3) + n4 :
           s[i] = IF i <= n1 + n2 + n3 THEN b[i] ELSE s4[i - (n1 + n2 + n3)]
  <2>1. /\ b \o s4 \in Seq(V) /\ Len(b \o s4) = Len(b) + Len(s4)
        /\ \A i \in 1 .. Len(b) + Len(s4) :
             (b \o s4)[i] = IF i <= Len(b) THEN b[i] ELSE s4[i - Len(b)]
    <3>1. b \in Seq(V)
      BY <1>2
    <3> QED
      BY ONLY <3>1, s4 \in Seq(V), ConcatProperties
  <2>2. Len(b) = n1 + n2 + n3
    BY <1>2
  <2>3. Len(b) + Len(s4) = (n1 + n2 + n3) + n4
    BY <2>2
  <2> QED
    BY ONLY <1>0, <2>1, <2>2, <2>3
<1>4. ASSUME NEW k \in 1 .. n1 PROVE s[k] = s1[k]
  <2>1. /\ k \in 1 .. n1 + n2 + n3 + n4 /\ k <= n1 + n2 + n3
        /\ k \in 1 .. (n1 + n2) + n3 /\ k <= n1 + n2 /\ k \in 1 .. n1 + n2 /\ k <= n1
    OBVIOUS
  <2> QED
    BY <2>1, <1>1, <1>2, <1>3
<1>5. ASSUME NEW k \in 1 .. n2 PROVE s[n1 + k] = s2[k]
  <2> DEFINE j == n1 + k
  <2>1. /\ j \in 1 .. n1 + n2 + n3 + n4 /\ j <= n1 + n2 + n3
        /\ j \in 1 .. (n1 + n2) + n3 /\ j <= n1 + n2 /\ j \in 1 .. n1 + n2 /\ ~(j <= n1)
        /\ j - n1 = k
    OBVIOUS
  <2> HIDE DEF j
  <2>2. s[j] = s2[k]
    BY <2>1, <1>1, <1>2, <1>3
  <2> QED
    BY <2>2 DEF j
<1>6. ASSUME NEW k \in 1 .. n3 PROVE s[n1 + n2 + k] = s3[k]
  <2> DEFINE j == n1 + n2 + k
  <2>1. /\ j \in 1 .. n1 + n2 + n3 + n4 /\ j <= n1 + n2 + n3
        /\ j \in 1 .. (n1 + n2) + n3 /\ ~(j <= n1 + n2) /\ j - (n1 + n2) = k
    OBVIOUS
  <2> HIDE DEF j
  <2>2. s[j] = s3[k]
    BY <2>1, <1>2, <1>3
  <2> QED
    BY <2>2 DEF j
<1>7. ASSUME NEW k \in 1 .. n4 PROVE s[n1 + n2 + n3 + k] = s4[k]
  <2> DEFINE j == n1 + n2 + n3 + k
  <2>1. j \in 1 .. n1 + n2 + n3 + n4 /\ ~(j <= n1 + n2 + n3) /\ j - (n1 + n2 + n3) = k
    OBVIOUS
  <2> HIDE DEF j
  <2>2. s[j] = s4[k]
    BY <2>1, <1>3
  <2> QED
    BY <2>2 DEF j
<1> QED
  BY <1>3, <1>4, <1>5, <1>6, <1>7 DEF s, InARow

\* The row of the vertical with y: its columns and y, the products of the columns,
\* those with y, then y*y, y and 1.
LEMMA DVRowLemma ==
  ASSUME d_1 \in Nat, d_2 \in Nat, vec2 = Resize(DVRow, payloadLength)
  PROVE  /\ \A j \in 0 .. d_2 - 1 : At(vec2, j) = Single(X(d_1 + j))
         /\ At(vec2, d_2) = Single(Y)
         /\ \A a \in 0 .. d_2 - 1 : \A b \in a .. d_2 - 1 :
              At(vec2, (d_2 + 1) + Above(d_2, a) + (b - a))
                = Product(Single(X(d_1 + a)), Single(X(d_1 + b)))
         /\ \A j \in 0 .. d_2 - 1 :
              At(vec2, (d_2 + 1) + T(d_2) + j) = Product(Single(X(d_1 + j)), Single(Y))
         /\ At(vec2, (d_2 + 1) + T(d_2) + d_2) = Product(Single(Y), Single(Y))
         /\ At(vec2, (d_2 + 1) + T(d_2) + d_2 + 1) = Single(Y)
         /\ At(vec2, (d_2 + 1) + T(d_2) + d_2 + 2) = One
<1> DEFINE cols == [k \in 1 .. d_2 |-> Single(X(d_1 + k - 1))]
           own == Append(cols, Single(Y))
           tri == UpperTriangle(own, d_2)
           xy == [k \in 1 .. d_2 |-> Product(own[k], At(own, d_2))]
           tail == <<Product(At(own, d_2), At(own, d_2)), At(own, d_2), One>>
           t == T(d_2)
           n == payloadLength
<1>1. \A k \in 1 .. d_2 : d_1 + k - 1 \in Int
  OBVIOUS
<1>2. cols \in Seq(Monomials) /\ Len(cols) = d_2
  <2>1. cols \in [1 .. d_2 -> Monomials]
    BY <1>1, MonomialTypes
  <2> HIDE DEF cols
  <2> QED
    BY <2>1
<1>3. \A j \in 0 .. d_2 - 1 : cols[j + 1] = Single(X(d_1 + j))
  <2> SUFFICES ASSUME NEW j \in 0 .. d_2 - 1 PROVE cols[j + 1] = Single(X(d_1 + j))
    OBVIOUS
  <2>1. j + 1 \in 1 .. d_2 /\ d_1 + (j + 1) - 1 = d_1 + j
    OBVIOUS
  <2> QED
    BY <2>1
<1> DEFINE y == Single(Y)
<1>4. y \in Monomials
  BY MonomialTypes
<1> HIDE DEF cols, y
<1>5. /\ own \in Seq(Monomials) /\ Len(own) = d_2 + 1 /\ DOMAIN own = 1 .. d_2 + 1
      /\ \A k \in 1 .. d_2 : own[k] = cols[k]
      /\ own[d_2 + 1] = y
  <2>1. own = Append(cols, y)
    BY DEF y
  <2>2. /\ Append(cols, y) \in Seq(Monomials) /\ Len(Append(cols, y)) = d_2 + 1
        /\ \A k \in 1 .. d_2 : Append(cols, y)[k] = cols[k]
        /\ Append(cols, y)[d_2 + 1] = y
    BY <1>2, <1>4, AppendProperties
  <2> HIDE DEF own
  <2> QED
    BY <2>1, <2>2
<1> HIDE DEF own
<1>6. \A j \in 0 .. d_2 - 1 : own[j + 1] = Single(X(d_1 + j)) /\ At(own, j) = Single(X(d_1 + j))
  <2> SUFFICES ASSUME NEW j \in 0 .. d_2 - 1
               PROVE  own[j + 1] = Single(X(d_1 + j)) /\ At(own, j) = Single(X(d_1 + j))
    OBVIOUS
  <2>1. j + 1 \in 1 .. d_2 /\ j + 1 \in 1 .. d_2 + 1
    OBVIOUS
  <2> QED
    BY <2>1, <1>3, <1>5 DEF At
<1>7. At(own, d_2) = y /\ d_2 + 1 \in 1 .. d_2 + 1
  BY <1>5 DEF At
<1>8. \A j \in 0 .. d_2 - 1 : Single(X(d_1 + j)) \in Monomials
  <2>1. \A j \in 0 .. d_2 - 1 : d_1 + j \in Int
    OBVIOUS
  <2> QED
    BY <2>1, MonomialTypes
<1>9. Multiplies(own, d_2, Monomials)
  BY <1>6, <1>8, MonomialTypes DEF Multiplies
<1>10. /\ tri \in Seq(Monomials) /\ Len(tri) = t /\ t \in Nat
       /\ \A a \in 0 .. d_2 - 1 : \A b \in a .. d_2 - 1 :
            /\ Above(d_2, a) + (b - a) + 1 \in 1 .. t
            /\ tri[Above(d_2, a) + (b - a) + 1] = Product(At(own, a), At(own, b))
  <2>1. t \in Nat
    BY TriangleGrows
  <2>2. /\ tri \in Seq(Monomials) /\ Len(tri) = t
        /\ \A a \in 0 .. d_2 - 1 : \A b \in a .. d_2 - 1 :
             /\ Above(d_2, a) + (b - a) + 1 \in 1 .. t
             /\ tri[Above(d_2, a) + (b - a) + 1] = Product(At(own, a), At(own, b))
    BY <1>9, TriangleLemma
  <2> QED
    BY <2>1, <2>2
<1>11. xy \in Seq(Monomials) /\ Len(xy) = d_2 /\ \A k \in 1 .. d_2 : xy[k] = Product(own[k], y)
  <2>1. \A k \in 1 .. d_2 : own[k] \in Monomials /\ xy[k] = Product(own[k], y)
    BY <1>5, <1>7
  <2>2. xy \in [1 .. d_2 -> Monomials]
    BY <2>1, <1>4, <1>7, MonomialTypes
  <2> HIDE DEF xy
  <2> QED
    BY <2>1, <2>2
<1>12. /\ tail \in Seq(Monomials) /\ Len(tail) = 3
       /\ tail[1] = Product(y, y) /\ tail[2] = y /\ tail[3] = One
  <2>1. Product(y, y) \in Monomials /\ One \in Monomials
    BY <1>4, MonomialTypes
  <2>2. tail = <<Product(y, y), y, One>>
    BY <1>7
  <2> QED
    BY <2>1, <2>2, <1>4
<1>13. DVRow = own \o tri \o xy \o tail
  BY DEF DVRow, own, cols
<1>14. n \in Nat /\ (d_2 + 1) + t + d_2 + 3 <= n
  BY PayloadLengthLemma
<1> HIDE DEF tri, xy, tail, t, n
<1> DEFINE row == DVRow
           m == d_2 + 1
<1>15. m \in Nat
  OBVIOUS
<1>15a. m = Len(own) /\ row = own \o tri \o xy \o tail
  BY <1>5, <1>13
<1> HIDE DEF row, m
<1>16. /\ row \in Seq(Monomials) /\ Len(row) = m + t + d_2 + 3
       /\ \A k \in 1 .. m : row[k] = own[k]
       /\ \A k \in 1 .. t : row[m + k] = tri[k]
       /\ \A k \in 1 .. d_2 : row[m + t + k] = xy[k]
       /\ \A k \in 1 .. 3 : row[m + t + d_2 + k] = tail[k]
  <2> DEFINE c == 3
             e == d_2
  <2>1. c \in Nat /\ c = Len(tail) /\ e \in Nat /\ t \in Nat /\ t = Len(tri) /\ e = Len(xy)
    BY <1>10, <1>11, <1>12
  <2>2. own \in Seq(Monomials) /\ tri \in Seq(Monomials) /\ xy \in Seq(Monomials)
        /\ tail \in Seq(Monomials) /\ m = Len(own)
    BY <1>5, <1>10, <1>11, <1>12, <1>15a
  <2> HIDE DEF c, e
  <2> DEFINE r == own \o tri \o xy \o tail
  <2>3. InARow(Monomials, r, own, tri, xy, tail, m, t, e, c)
    BY ONLY <2>1, <2>2, <1>15, FourInARow
  <2> HIDE DEF r
  <2>4. InARow(Monomials, row, own, tri, xy, tail, m, t, d_2, 3)
    BY <2>3, <1>15a DEF c, e, r
  <2> QED
    BY <2>4 DEF InARow
<1>17. \A k \in 0 .. m + t + d_2 + 3 - 1 : At(vec2, k) = row[k + 1]
  <2>1. vec2 = Resize(row, n)
    BY DEF row, n
  <2>2. Len(row) <= n
    BY <1>14, <1>16 DEF m
  <2>3. \A k \in 0 .. Len(row) - 1 : At(Resize(row, n), k) = row[k + 1]
    BY <2>2, <1>14, <1>16, ResizeKeeps
  <2>4. Len(row) - 1 = m + t + d_2 + 3 - 1
    BY <1>10, <1>15, <1>16
  <2> QED
    BY ONLY <2>1, <2>3, <2>4
<1>18. ASSUME NEW j \in 0 .. d_2 - 1 PROVE At(vec2, j) = Single(X(d_1 + j))
  <2>1. j \in 0 .. m + t + d_2 + 3 - 1 /\ j + 1 \in 1 .. m
    BY <1>10 DEF m
  <2> QED
    BY <2>1, <1>6, <1>16, <1>17
<1>19. At(vec2, d_2) = y
  <2>1. d_2 \in 0 .. m + t + d_2 + 3 - 1 /\ d_2 + 1 \in 1 .. m
    BY <1>10 DEF m
  <2> QED
    BY <2>1, <1>5, <1>16, <1>17
<1>20. ASSUME NEW a \in 0 .. d_2 - 1, NEW b \in a .. d_2 - 1
       PROVE  At(vec2, m + Above(d_2, a) + (b - a)) = Product(Single(X(d_1 + a)), Single(X(d_1 + b)))
  <2> DEFINE u == Above(d_2, a)
             k == u + (b - a) + 1
  <2>1. u \in Int
    BY AboveGrows
  <2>2. k \in 1 .. t /\ tri[k] = Product(At(own, a), At(own, b))
    BY <1>10
  <2> HIDE DEF u
  <2>3. m + u + (b - a) = m + k - 1
    BY <2>1, <1>15
  <2> HIDE DEF k
  <2>4. m + k - 1 \in 0 .. m + t + d_2 + 3 - 1 /\ (m + k - 1) + 1 = m + k
    BY <2>2, <1>10, <1>15
  <2>5. At(vec2, m + k - 1) = tri[k]
    BY <2>2, <2>4, <1>16, <1>17
  <2>6. a \in 0 .. d_2 - 1 /\ b \in 0 .. d_2 - 1
    OBVIOUS
  <2> QED
    BY <2>2, <2>3, <2>5, <2>6, <1>6 DEF u
<1>21. ASSUME NEW j \in 0 .. d_2 - 1
       PROVE  At(vec2, m + t + j) = Product(Single(X(d_1 + j)), y)
  <2>1. m + t + j \in 0 .. m + t + d_2 + 3 - 1 /\ (m + t + j) + 1 = m + t + (j + 1)
        /\ j + 1 \in 1 .. d_2
    BY <1>10, <1>15
  <2>2. At(vec2, m + t + j) = xy[j + 1]
    BY <2>1, <1>16, <1>17
  <2> QED
    BY <2>1, <2>2, <1>6, <1>11
<1>22. \A c \in 1 .. 3 : At(vec2, m + t + d_2 + (c - 1)) = tail[c]
  <2> SUFFICES ASSUME NEW c \in 1 .. 3 PROVE At(vec2, m + t + d_2 + (c - 1)) = tail[c]
    OBVIOUS
  <2>1. m + t + d_2 + (c - 1) \in 0 .. m + t + d_2 + 3 - 1
        /\ (m + t + d_2 + (c - 1)) + 1 = m + t + d_2 + c
    BY <1>10, <1>15
  <2> QED
    BY <2>1, <1>16, <1>17
<1>23. /\ At(vec2, m + t + d_2) = Product(y, y)
       /\ At(vec2, m + t + d_2 + 1) = y /\ At(vec2, m + t + d_2 + 2) = One
  <2>1. m + t + d_2 + (1 - 1) = m + t + d_2 /\ 2 - 1 = 1 /\ 3 - 1 = 2
    BY <1>10, <1>15
  <2>2. 1 \in 1 .. 3 /\ 2 \in 1 .. 3 /\ 3 \in 1 .. 3
    OBVIOUS
  <2>3. /\ At(vec2, m + t + d_2 + (1 - 1)) = tail[1] /\ At(vec2, m + t + d_2 + (2 - 1)) = tail[2]
        /\ At(vec2, m + t + d_2 + (3 - 1)) = tail[3]
    BY <2>2, <1>22
  <2> QED
    BY <2>1, <2>3, <1>12
<1> QED
  BY <1>18, <1>19, <1>20, <1>21, <1>23 DEF m, t, y

-----------------------------------------------------------------------------
(* The inductive invariant of the regression row *)

\* The rows stay as they were packed, and a Multiply has either not written yet or
\* has written the product it was invoked for.
RowsPacked ==
  /\ vec1 = Resize(OtherRow, payloadLength) /\ vec2 = Resize(DVRow, payloadLength)
  /\ DOMAIN multiplyResults = 1 .. d_1 * (d_2 + 1)
  /\ \A i \in 0 .. d_1 - 1, j \in 0 .. d_2 :
       multiplyResults[i * (d_2 + 1) + j + 1] \in {Zero, Product(At(vec1, i), At(vec2, j))}

PayloadInv ==
  /\ d_1 \in Nat /\ d_2 \in Nat /\ stage \in {"packing", "multiplying", "done"}
  /\ stage # "packing" => RowsPacked
  /\ stage = "done" =>
       /\ \A k \in DOMAIN multiplyResults : multiplyResults[k] # Zero
       /\ output = [k \in 1 .. d * d + d + 3 |-> OutputEntry(k - 1)]

\* Nothing is packed at first.
LEMMA PayloadStarts == PayloadInit => PayloadInv
BY MaxIVsAssumption DEF PayloadInit, PayloadInv

\* Packing the rows.
LEMMA PackKeeps ==
  ASSUME PayloadInv, Pack
  PROVE  PayloadInv'
<1>1. d_1 \in Nat /\ d_2 \in Nat /\ d_1' = d_1 /\ d_2' = d_2 /\ stage' = "multiplying"
  BY DEF PayloadInv, Pack
<1>2. OtherRow' = OtherRow /\ DVRow' = DVRow /\ payloadLength' = payloadLength
  BY <1>1 DEF OtherRow, DVRow, payloadLength
<1>3. vec1' = Resize(OtherRow, payloadLength)' /\ vec2' = Resize(DVRow, payloadLength)'
  BY <1>2 DEF Pack
<1>4. multiplyResults' = [k \in 1 .. d_1 * (d_2 + 1) |-> Zero]
  BY DEF Pack
<1>5. ASSUME NEW i \in 0 .. d_1 - 1, NEW j \in 0 .. d_2
      PROVE  i * (d_2 + 1) + j + 1 \in 1 .. d_1 * (d_2 + 1)
  <2> DEFINE n == d_2 + 1
  <2>1. n \in Nat /\ j \in 0 .. n - 1
    BY <1>1
  <2> HIDE DEF n
  <2>2. i * n + j \in 0 .. d_1 * n - 1
    BY <1>1, <2>1, CellBound
  <2>3. i * n \in Nat /\ d_1 * n \in Nat
    BY <1>1, <2>1
  <2>4. i * n + j + 1 \in 1 .. d_1 * n
    BY <2>1, <2>2, <2>3
  <2> QED
    BY <2>4 DEF n
<1>6. RowsPacked'
  BY <1>1, <1>3, <1>4, <1>5 DEF RowsPacked
<1> QED
  BY <1>1, <1>6 DEF PayloadInv

\* A Multiply writes its own place and no other.
LEMMA MultiplyKeeps ==
  ASSUME PayloadInv, NEW i \in 0 .. d_1 - 1, NEW j \in 0 .. d_2, MultiplyDone(i, j)
  PROVE  PayloadInv'
<1> DEFINE n == d_2 + 1
           k == i * n + j + 1
<1>1. d_1 \in Nat /\ d_2 \in Nat /\ stage = "multiplying" /\ RowsPacked
  BY DEF PayloadInv, MultiplyDone
<1>2. UNCHANGED <<d_1, d_2, vec1, vec2, output, stage>>
      /\ multiplyResults' = [multiplyResults EXCEPT ![k] = Product(At(vec1, i), At(vec2, j))]
  BY DEF MultiplyDone
<1>3. OtherRow' = OtherRow /\ DVRow' = DVRow /\ payloadLength' = payloadLength
  BY <1>2 DEF OtherRow, DVRow, payloadLength
<1>4. n \in Nat \ {0} /\ j \in 0 .. n - 1
  BY <1>1
<1>5. ASSUME NEW a \in 0 .. d_1 - 1, NEW b \in 0 .. d_2
      PROVE  multiplyResults'[a * n + b + 1] \in {Zero, Product(At(vec1, a), At(vec2, b))}
  <2>1. multiplyResults[a * n + b + 1] \in {Zero, Product(At(vec1, a), At(vec2, b))}
    BY <1>1 DEF RowsPacked
  <2>2. CASE a * n + b + 1 = k
    <3>1. a \in Nat /\ i \in Nat /\ b \in 0 .. n - 1
      BY <1>1
    <3> HIDE DEF n
    <3>2. a * n \in Nat /\ i * n \in Nat
      BY <3>1, <1>4
    <3>3. a * n + b = i * n + j
      BY <2>2, <3>1, <3>2, <1>4
    <3>4. a = i /\ b = j
      BY <3>1, <3>3, <1>4, CellUnique
    <3>5. multiplyResults'[k] \in {multiplyResults[k], Product(At(vec1, i), At(vec2, j))}
      <4> HIDE DEF k
      <4> QED
        BY <1>2
    <3> QED
      BY <2>1, <2>2, <3>4, <3>5
  <2>3. CASE a * n + b + 1 # k
    <3> DEFINE c == a * n + b + 1
    <3>1. c # k
      BY <2>3
    <3> HIDE DEF k, c
    <3>2. multiplyResults'[c] = multiplyResults[c]
      BY <1>2, <3>1
    <3> QED
      BY <2>1, <3>2 DEF c
  <2> QED
    BY <2>2, <2>3
<1>6. DOMAIN multiplyResults' = DOMAIN multiplyResults
  BY <1>2
<1>7. RowsPacked'
  BY <1>1, <1>2, <1>3, <1>5, <1>6 DEF RowsPacked
<1> QED
  BY <1>1, <1>2, <1>7 DEF PayloadInv

\* The output is worked out of what is there.
LEMMA CompleteKeeps ==
  ASSUME PayloadInv, HandleComplete
  PROVE  PayloadInv'
<1>1. UNCHANGED <<d_1, d_2, vec1, vec2, multiplyResults>> /\ stage' = "done"
  BY DEF HandleComplete
<1>2. OtherRow' = OtherRow /\ DVRow' = DVRow /\ payloadLength' = payloadLength /\ d' = d
  BY <1>1 DEF OtherRow, DVRow, payloadLength, d
<1>3. \A i, j : accessMatrixShare(i, j)' = accessMatrixShare(i, j)
  BY <1>1, <1>2 DEF accessMatrixShare
<1>4. \A k : OutputEntry(k)' = OutputEntry(k)
  BY <1>1, <1>2, <1>3 DEF OutputEntry
<1>5. RowsPacked'
  <2>1. RowsPacked
    BY DEF PayloadInv, HandleComplete
  <2> QED
    BY <2>1, <1>1, <1>2 DEF RowsPacked
<1>6. /\ \A k \in DOMAIN multiplyResults' : multiplyResults'[k] # Zero
      /\ output' = [k \in 1 .. d * d + d + 3 |-> OutputEntry(k - 1)]'
  BY <1>1, <1>2, <1>4 DEF HandleComplete
<1> QED
  BY <1>1, <1>5, <1>6 DEF PayloadInv

\* RegressionPayloadCompute keeps its invariant.
THEOREM PayloadInvHolds == PayloadSpec => []PayloadInv
<1>1. PayloadInv /\ [PayloadNext]_payloadVars => PayloadInv'
  <2> SUFFICES ASSUME PayloadInv, [PayloadNext]_payloadVars PROVE PayloadInv'
    OBVIOUS
  <2>1. CASE UNCHANGED payloadVars
    <3>1. UNCHANGED <<d_1, d_2, vec1, vec2, multiplyResults, output, stage>>
      BY <2>1 DEF payloadVars
    <3>2. OtherRow' = OtherRow /\ DVRow' = DVRow /\ payloadLength' = payloadLength /\ d' = d
      BY <3>1 DEF OtherRow, DVRow, payloadLength, d
    <3>3. \A i, j : accessMatrixShare(i, j)' = accessMatrixShare(i, j)
      BY <3>1, <3>2 DEF accessMatrixShare
    <3>4. \A k : OutputEntry(k)' = OutputEntry(k)
      BY <3>1, <3>2, <3>3 DEF OutputEntry
    <3>5. RowsPacked => RowsPacked'
      BY <3>1, <3>2 DEF RowsPacked
    <3> QED
      BY <3>1, <3>2, <3>4, <3>5 DEF PayloadInv
  <2>2. CASE PayloadNext /\ ~UNCHANGED payloadVars
    BY <2>2, PackKeeps, MultiplyKeeps, CompleteKeeps DEF PayloadNext, PayloadDone
  <2> QED
    BY <2>1, <2>2
<1> QED
  BY <1>1, PayloadStarts, PTL DEF PayloadSpec

-----------------------------------------------------------------------------
(* The normal equations *)

\* What accessMatrixShare reads for a row and a column in order.
Access(lo, hi) ==
  IF hi < d_1
  THEN At(vec1, d_1 + (d_1 * (d_1 + 1)) \div 2
                  - ((d_1 - lo) * (d_1 - lo + 1)) \div 2 + (hi - lo))
  ELSE IF lo < d_1
  THEN At(multiplyResults, lo * (d_2 + 1) + (hi - d_1))
  ELSE At(vec2, (d_2 + 1) + (d_2 * (d_2 + 1)) \div 2
                  - ((d - lo) * (d - lo + 1)) \div 2 + (hi - lo))

\* Once every Multiply is done the products across the verticals are in place.
LEMMA ProductsInPlace ==
  ASSUME PayloadInv, stage = "done"
  PROVE  \A i \in 0 .. d_1 - 1, j \in 0 .. d_2 :
           At(multiplyResults, i * (d_2 + 1) + j) = Product(At(vec1, i), At(vec2, j))
<1> SUFFICES ASSUME NEW i \in 0 .. d_1 - 1, NEW j \in 0 .. d_2
             PROVE  At(multiplyResults, i * (d_2 + 1) + j) = Product(At(vec1, i), At(vec2, j))
  OBVIOUS
<1> DEFINE n == d_2 + 1
           k == i * n + j
<1>1. d_1 \in Nat /\ d_2 \in Nat /\ RowsPacked
  BY DEF PayloadInv
<1>2. n \in Nat /\ j \in 0 .. n - 1
  BY <1>1
<1>3. DOMAIN multiplyResults = 1 .. d_1 * n
      /\ multiplyResults[k + 1] \in {Zero, Product(At(vec1, i), At(vec2, j))}
  BY <1>1 DEF RowsPacked
<1> HIDE DEF n
<1>4. k \in 0 .. d_1 * n - 1 /\ d_1 * n \in Nat
  BY <1>1, <1>2, CellBound
<1> DEFINE dn == d_1 * n
<1> HIDE DEF k, dn
<1>5. k + 1 \in 1 .. dn
  BY <1>4 DEF dn
<1>6. k + 1 \in DOMAIN multiplyResults
  BY <1>3, <1>5 DEF dn
<1>7. multiplyResults[k + 1] # Zero
  BY <1>6 DEF PayloadInv
<1>8. At(multiplyResults, k) = Product(At(vec1, i), At(vec2, j))
  BY <1>3, <1>6, <1>7 DEF At
<1> QED
  BY <1>8 DEF k, n

\* The closed formula of the code finds the start of a row of the triangle.
LEMMA FormulaLemma ==
  ASSUME NEW n \in Nat, NEW a \in 0 .. n - 1, NEW c \in Int, NEW b \in Int
  PROVE  c + (n * (n + 1)) \div 2 - ((n - a) * (n - a + 1)) \div 2 + b = c + Above(n, a) + b
<1>1. n - a \in Nat
  OBVIOUS
<1>2. T(n) \in Nat /\ T(n - a) \in Nat
  BY <1>1, TriangleGrows
<1> DEFINE x == T(n)
           y == T(n - a)
<1> HIDE DEF x, y
<1>3. c + x - y + b = c + (x - y) + b
  BY <1>2 DEF x, y
<1> QED
  BY <1>3 DEF x, y, T, Above

\* accessMatrixShare finds the product of two columns.
LEMMA AccessLemma ==
  ASSUME PayloadInv, stage = "done"
  PROVE  \A i, j \in 0 .. d - 1 :
           accessMatrixShare(i, j) = Product(Single(X(i)), Single(X(j)))
<1>1. /\ d_1 \in Nat /\ d_2 \in Nat /\ RowsPacked
      /\ vec1 = Resize(OtherRow, payloadLength) /\ vec2 = Resize(DVRow, payloadLength)
  BY DEF PayloadInv, RowsPacked
<1>2. d \in Nat /\ d = d_1 + d_2
  BY <1>1 DEF d
<1>3. ASSUME NEW lo \in 0 .. d - 1, NEW hi \in lo .. d - 1
      PROVE  Access(lo, hi) = Product(Single(X(lo)), Single(X(hi)))
  <2>1. CASE hi < d_1
    <3>1. lo \in 0 .. d_1 - 1 /\ hi \in lo .. d_1 - 1 /\ hi - lo \in Int /\ d_1 \in Int
      BY <2>1, <1>1, <1>2
    <3>2. Access(lo, hi) = At(vec1, d_1 + Above(d_1, lo) + (hi - lo))
      <4> DEFINE b == hi - lo
                 c == d_1
      <4>1. b \in Int /\ c \in Int
        BY <3>1
      <4> HIDE DEF b, c
      <4>2. c + (d_1 * (d_1 + 1)) \div 2 - ((d_1 - lo) * (d_1 - lo + 1)) \div 2 + b
              = c + Above(d_1, lo) + b
        BY <1>1, <3>1, <4>1, FormulaLemma
      <4> QED
        BY <2>1, <4>2 DEF Access, b, c
    <3> QED
      BY <1>1, <3>1, <3>2, OtherRowLemma
  <2>2. CASE ~(hi < d_1) /\ lo < d_1
    <3> DEFINE j == hi - d_1
    <3>1. lo \in 0 .. d_1 - 1 /\ j \in 0 .. d_2 - 1 /\ j \in 0 .. d_2 /\ d_1 + j = hi
      BY <2>2, <1>1, <1>2
    <3>2. Access(lo, hi) = At(multiplyResults, lo * (d_2 + 1) + j)
      BY <2>2 DEF Access
    <3> HIDE DEF j
    <3>3. At(multiplyResults, lo * (d_2 + 1) + j) = Product(At(vec1, lo), At(vec2, j))
      BY <3>1, ProductsInPlace
    <3>4. At(vec1, lo) = Single(X(lo))
      BY <1>1, <3>1, OtherRowLemma
    <3>5. At(vec2, j) = Single(X(d_1 + j))
      BY <1>1, <3>1, DVRowLemma
    <3> QED
      BY <3>1, <3>2, <3>3, <3>4, <3>5
  <2>3. CASE ~(lo < d_1)
    <3> DEFINE a == lo - d_1
               b == hi - d_1
               c == d_2 + 1
               e == hi - lo
    <3>1. /\ a \in 0 .. d_2 - 1 /\ b \in a .. d_2 - 1 /\ d_1 + a = lo /\ d_1 + b = hi
          /\ d - lo = d_2 - a /\ c \in Int /\ e \in Int /\ e = b - a /\ ~(hi < d_1)
      BY <2>3, <1>1, <1>2
    <3>2. Access(lo, hi) = At(vec2, c + (d_2 * (d_2 + 1)) \div 2
                                      - ((d_2 - a) * (d_2 - a + 1)) \div 2 + e)
      BY <2>3, <3>1 DEF Access
    <3> HIDE DEF a, b, c, e
    <3>3. c + (d_2 * (d_2 + 1)) \div 2 - ((d_2 - a) * (d_2 - a + 1)) \div 2 + e
            = c + Above(d_2, a) + e
      BY <1>1, <3>1, FormulaLemma
    <3>4. Access(lo, hi) = At(vec2, c + Above(d_2, a) + e)
      BY <3>2, <3>3
    <3>5. At(vec2, (d_2 + 1) + Above(d_2, a) + (b - a)) = Product(Single(X(d_1 + a)), Single(X(d_1 + b)))
      BY <1>1, <3>1, DVRowLemma
    <3> QED
      BY <3>1, <3>4, <3>5 DEF c
  <2> QED
    BY <2>1, <2>2, <2>3
<1>4. ASSUME NEW i \in 0 .. d - 1, NEW j \in 0 .. d - 1
      PROVE  accessMatrixShare(i, j) = Product(Single(X(i)), Single(X(j)))
  <2>0. Product(Single(X(i)), Single(X(j))) = Product(Single(X(j)), Single(X(i)))
    BY MonomialTypes
  <2>1. CASE i > j
    <3>1. accessMatrixShare(i, j) = Access(j, i)
      BY <2>1 DEF accessMatrixShare, Access
    <3>2. i \in j .. d - 1
      BY <2>1, <1>2
    <3> QED
      BY <2>0, <3>1, <3>2, <1>3
  <2>2. CASE ~(i > j)
    <3>1. accessMatrixShare(i, j) = Access(i, j)
      BY <2>2 DEF accessMatrixShare, Access
    <3>2. j \in i .. d - 1
      BY <2>2, <1>2
    <3> QED
      BY <3>1, <3>2, <1>3
  <2> QED
    BY <2>1, <2>2
<1> QED
  BY <1>4

\* Whatever the numbers of independent variables of the two verticals, and in
\* whatever order the products are done: every packed index of the code finds the
\* monomial it is meant for.
THEOREM NormalEquationsHold == PayloadSpec => []NormalEquations
<1>1. PayloadInv => NormalEquations
  <2> SUFFICES ASSUME PayloadInv, stage = "done"
               PROVE  /\ \A i, j \in 0 .. d - 1 :
                           At(output, i * d + j) = Product(Single(X(i)), Single(X(j)))
                      /\ \A i \in 0 .. d - 1 :
                           At(output, d * d + i) = Product(Single(X(i)), Single(Y))
                      /\ At(output, d * (d + 1)) = Product(Single(Y), Single(Y))
                      /\ At(output, d * (d + 1) + 1) = Single(Y)
                      /\ At(output, d * (d + 1) + 2) = One
    BY DEF NormalEquations
  <2>1. /\ d_1 \in Nat /\ d_2 \in Nat
        /\ vec1 = Resize(OtherRow, payloadLength) /\ vec2 = Resize(DVRow, payloadLength)
        /\ output = [k \in 1 .. d * d + d + 3 |-> OutputEntry(k - 1)]
    BY DEF PayloadInv, RowsPacked
  <2> DEFINE n == d
             sq == n * n
             t == T(d_2)
  <2>2. n \in Nat /\ n = d_1 + d_2 /\ sq \in Nat /\ t \in Nat
    <3>1. n \in Nat /\ n = d_1 + d_2
      BY <2>1 DEF d
    <3> HIDE DEF n
    <3>2. sq \in Nat
      BY <3>1
    <3>3. t \in Nat
      BY <2>1, TriangleGrows
    <3> QED
      BY <3>1, <3>2, <3>3
  <2>3. n * (n + 1) = sq + n
    BY <2>2
  <2>4. output = [k \in 1 .. sq + n + 3 |-> OutputEntry(k - 1)]
    BY <2>1
  <2>5. \A k : OutputEntry(k) =
          IF k < sq THEN accessMatrixShare(k \div n, k % n)
          ELSE IF k < sq + d_1 THEN At(multiplyResults, (k - sq) * (d_2 + 1) + d_2)
          ELSE IF k < sq + n THEN At(vec2, (d_2 + 1) + t + (k - sq - d_1))
          ELSE At(vec2, (d_2 + 1) + (t + d_2) + (k - sq - n))
    BY <2>1, PayloadLengthLemma DEF OutputEntry, T
  <2> HIDE DEF n, sq, t
  <2>6. ASSUME NEW k \in 0 .. sq + n + 2 PROVE At(output, k) = OutputEntry(k)
    <3>1. k + 1 \in 1 .. sq + n + 3 /\ (k + 1) - 1 = k
      BY <2>2
    <3> QED
      BY <3>1, <2>4 DEF At
  <2>7. ASSUME NEW i \in 0 .. n - 1, NEW j \in 0 .. n - 1
        PROVE  At(output, i * n + j) = Product(Single(X(i)), Single(X(j)))
    <3> DEFINE k == i * n + j
    <3>1. n \in Nat \ {0} /\ i \in Nat /\ j \in 0 .. n - 1
      BY <2>2
    <3>2. k \in 0 .. sq - 1
      BY <2>2, CellBound DEF sq
    <3>3. k \div n = i /\ k % n = j
      BY <3>1, CellDivision
    <3> HIDE DEF k
    <3>4. k \in 0 .. sq + n + 2 /\ k < sq
      BY <3>2, <2>2
    <3>5. OutputEntry(k) = accessMatrixShare(i, j)
      BY <3>3, <3>4, <2>5
    <3>6. accessMatrixShare(i, j) = Product(Single(X(i)), Single(X(j)))
      BY AccessLemma DEF n
    <3> QED
      BY <3>4, <3>5, <3>6, <2>6 DEF k
  <2>8. ASSUME NEW i \in 0 .. n - 1
        PROVE  At(output, sq + i) = Product(Single(X(i)), Single(Y))
    <3>1. sq + i \in 0 .. sq + n + 2 /\ ~(sq + i < sq) /\ sq + i < sq + n /\ (sq + i) - sq = i
          /\ ((sq + i) - sq) - d_1 = i - d_1
      BY <2>1, <2>2
    <3>2. CASE i < d_1
      <4>1. sq + i < sq + d_1 /\ i \in 0 .. d_1 - 1 /\ d_2 \in 0 .. d_2
        BY <3>2, <2>1, <2>2
      <4>2. OutputEntry(sq + i) = At(multiplyResults, i * (d_2 + 1) + d_2)
        BY <3>1, <4>1, <2>5
      <4>3. At(multiplyResults, i * (d_2 + 1) + d_2) = Product(At(vec1, i), At(vec2, d_2))
        BY <4>1, ProductsInPlace
      <4>4. At(vec1, i) = Single(X(i)) /\ At(vec2, d_2) = Single(Y)
        BY <2>1, <4>1, OtherRowLemma, DVRowLemma
      <4> QED
        BY <3>1, <4>2, <4>3, <4>4, <2>6
    <3>3. CASE ~(i < d_1)
      <4> DEFINE j == i - d_1
      <4>1. ~(sq + i < sq + d_1) /\ j \in 0 .. d_2 - 1 /\ d_1 + j = i
        BY <3>3, <2>1, <2>2
      <4>2. OutputEntry(sq + i) = At(vec2, (d_2 + 1) + t + j)
        BY <3>1, <4>1, <2>5
      <4> HIDE DEF j
      <4>3. At(vec2, (d_2 + 1) + t + j) = Product(Single(X(d_1 + j)), Single(Y))
        BY <2>1, <4>1, DVRowLemma DEF t
      <4> QED
        BY <3>1, <4>1, <4>2, <4>3, <2>6
    <3> QED
      BY <3>2, <3>3
  <2>9. ASSUME NEW c \in 0 .. 2
        PROVE  At(output, (sq + n) + c) = At(vec2, (d_2 + 1) + t + d_2 + c)
    <3> DEFINE k == (sq + n) + c
    <3>1. k \in 0 .. sq + n + 2 /\ ~(k < sq) /\ ~(k < sq + d_1) /\ ~(k < sq + n)
          /\ (k - sq - n) = c
      BY <2>1, <2>2
    <3>2. (d_2 + 1) + (t + d_2) + c = (d_2 + 1) + t + d_2 + c
      BY <2>1, <2>2
    <3> HIDE DEF k
    <3>3. OutputEntry(k) = At(vec2, (d_2 + 1) + (t + d_2) + c)
      BY <3>1, <2>5
    <3> QED
      BY <3>1, <3>2, <3>3, <2>6 DEF k
  <2>10. /\ At(output, sq + n) = Product(Single(Y), Single(Y))
         /\ At(output, (sq + n) + 1) = Single(Y)
         /\ At(output, (sq + n) + 2) = One
    <3>1. /\ At(vec2, (d_2 + 1) + t + d_2) = Product(Single(Y), Single(Y))
          /\ At(vec2, (d_2 + 1) + t + d_2 + 1) = Single(Y)
          /\ At(vec2, (d_2 + 1) + t + d_2 + 2) = One
      BY <2>1, DVRowLemma DEF t
    <3>2. (sq + n) + 0 = sq + n /\ (d_2 + 1) + t + d_2 + 0 = (d_2 + 1) + t + d_2
      BY <2>1, <2>2
    <3>3. At(output, (sq + n) + 0) = At(vec2, (d_2 + 1) + t + d_2 + 0)
      BY <2>9
    <3>4. At(output, (sq + n) + 1) = At(vec2, (d_2 + 1) + t + d_2 + 1)
      BY <2>9
    <3>5. At(output, (sq + n) + 2) = At(vec2, (d_2 + 1) + t + d_2 + 2)
      BY <2>9
    <3> QED
      BY <3>1, <3>2, <3>3, <3>4, <3>5
  <2>11. d * (d + 1) = sq + n /\ d = n /\ d * d = sq
    BY <2>3 DEF n, sq
  <2> QED
    BY <2>7, <2>8, <2>10, <2>11
<1> QED
  BY <1>1, PayloadInvHolds, PTL
=============================================================================
