---------------------------- MODULE ListSharing ----------------------------
(***************************************************************************)
(* How Moments and Regression share their lists, with the share arithmetic *)
(* that those modules leave out.  A dataowner pads its list, splits it     *)
(* once for each partner of the other vertical, keeps one share in its     *)
(* half of the list it has with that partner and sends the other, which    *)
(* goes to the other half there.  Once the shares of all partners are in,  *)
(* the two of a pair sort what they hold.                                  *)
(*                                                                         *)
(* Rows have two key columns (the key and the vertical) and the columns of *)
(* the payload.  Random numbers come from a generator with one seed for    *)
(* each dataowner: Draw(seed, n) is its n-th number.                       *)
(***************************************************************************)
EXTENDS Integers, Sequences, Functions, FiniteSets

CONSTANTS
  Owners,          \* the dataowners, as forEachDataowner visits them
  VerticalOf,      \* their verticals: two, as generateGlobals has it
  DataVertical,    \* dataVertical, or verticalDV of a regression
  maxListSize, keyModulus, startModulus,
  PayloadCols,     \* payloadLength
  Files,           \* what a file may hold: sequences of [key, value]
  Seeds, Draw(_, _)

ASSUME SharingAssumption ==
  /\ maxListSize \in Nat \ {0} /\ keyModulus \in Nat \ {0} /\ startModulus \in Nat \ {0}
  /\ PayloadCols \in Nat /\ PayloadCols > 1

OwnerSet == Range(Owners)
KeyCols == 2
RowCols == KeyCols + PayloadCols

ASSUME OwnersAssumption ==
  /\ Owners \in Seq(OwnerSet) /\ VerticalOf \in [OwnerSet -> Int]
  /\ Cardinality({VerticalOf[p] : p \in OwnerSet}) = 2

\* The rows hold integers, and their powers are integers; so are the numbers that
\* a dataowner draws for its keys and for its partners.
ASSUME DataAssumption ==
  /\ Files \subseteq Seq([key : Int, value : Int])
  /\ \A f \in Files : \A j \in 1 .. Len(f), k \in 1 .. PayloadCols : f[j].value ^ (k - 1) \in Int
  /\ \A s \in Seeds :
       \A n \in 1 .. KeyCols * maxListSize + (Cardinality(OwnerSet) * maxListSize) * RowCols :
         Draw(s, n) \in Nat

VARIABLES
  query,         \* "moments" or "regression"
  seed, file,    \* of each dataowner
  ownList,       \* padded, << >> before the dataowner is constructed
  sharedLists,   \* for each partner, both halves
  sharesAwaited, \* numPartiesAwaiting
  shares,        \* the shares on their way: [from, to, rows]
  sorts          \* the SISOSorts invoked: [with, list, revealer]
sharingVars == << query, seed, file, ownList, sharedLists, sharesAwaited, shares, sorts >>

CrossParties(p) == {q \in OwnerSet : VerticalOf[q] # VerticalOf[p]}
\* indexOfCrossParties: a partner is counted when forEachDataowner comes to it.
Place(q) == CHOOSE i \in DOMAIN Owners : Owners[i] = q
IndexOfCrossParty(p, q) == Cardinality({o \in CrossParties(p) : Place(o) <= Place(q)})
NumCrossParties(p) == Cardinality(CrossParties(p))

\* A row as one sequence, the key columns first, and the modulus of a column.
ColumnModulus(k) == IF k <= KeyCols THEN keyModulus ELSE startModulus
\* What the noise of a column is drawn below: Moments has startModulus for all.
NoiseModulus(k) == IF query = "moments" THEN startModulus ELSE ColumnModulus(k)
ModSub(a, b, m) == (a - b) % m
ModAdd(a, b, m) == (a + b) % m

\* The payload of a row: the powers of its value, at the vertical of a moments
\* query that has the value, nothing at the other one; in a regression the
\* columns of the row's own variables, filled up.
Payload(p, value) ==
  IF query = "moments"
  THEN [k \in 1 .. PayloadCols |-> IF VerticalOf[p] = DataVertical THEN value ^ (k - 1) ELSE 0]
  ELSE [k \in 1 .. PayloadCols |-> IF k = 1 THEN value ELSE 0]

\* computePayloadVectorAndPadList: a row that pads has random keys.
PaddedList(p) ==
  LET size == Len(file[p]) IN
  [j \in 1 .. (IF size < maxListSize THEN maxListSize ELSE size) |->
     IF j <= size
     THEN << file[p][j].key, VerticalOf[p] >> \o Payload(p, file[p][j].value)
     ELSE [k \in 1 .. RowCols |->
             IF k <= KeyCols THEN Draw(seed[p], (j - size - 1) * KeyCols + k) % keyModulus ELSE 0]]

\* The share of partner i that p draws for it, and the one it keeps.
Noise(p, i) ==
  [j \in 1 .. maxListSize |-> [k \in 1 .. RowCols |->
     Draw(seed[p], KeyCols * maxListSize + ((i - 1) * maxListSize + j - 1) * RowCols + k)
       % NoiseModulus(k)]]
Kept(p, i, rows) ==
  [j \in 1 .. maxListSize |-> [k \in 1 .. RowCols |->
     ModSub(rows[j][k], Noise(p, i)[j][k], ColumnModulus(k))]]

\* The rows of the data vertical come first, at both ends.
OwnHalf(p) == IF VerticalOf[p] # DataVertical THEN maxListSize ELSE 0
\* Mutant: the shares of a partner go where one's own are at the other end.
TheirHalfAlwaysLast(p) == maxListSize
TheirHalf(p) == IF VerticalOf[p] = DataVertical THEN maxListSize ELSE 0

NoRow == << >>
Placed(list, half, rows) ==
  [n \in DOMAIN list |-> IF n - half \in DOMAIN rows THEN rows[n - half] ELSE list[n]]
Unfilled == [n \in 1 .. 2 * maxListSize |-> NoRow]

-----------------------------------------------------------------------------
SharingInit ==
  /\ query \in {"moments", "regression"}
  /\ seed \in [OwnerSet -> Seeds] /\ file \in [OwnerSet -> Files]
  /\ ownList = [p \in OwnerSet |-> << >>] /\ sharedLists = [p \in OwnerSet |-> << >>]
  /\ sharesAwaited = [p \in OwnerSet |-> 0]
  /\ shares = {} /\ sorts = [p \in OwnerSet |-> {}]

\* The constructor, which pads and splits, and init, which sends the shares.
ShareLists(p) ==
  LET rows == PaddedList(p) IN
  /\ ownList[p] = << >>
  /\ ownList' = [ownList EXCEPT ![p] = rows]
  /\ sharedLists' = [sharedLists EXCEPT ![p] =
       [i \in 1 .. NumCrossParties(p) |-> Placed(Unfilled, OwnHalf(p), Kept(p, i, rows))]]
  /\ shares' = shares \cup {[from |-> p, to |-> q, rows |-> Noise(p, IndexOfCrossParty(p, q))] :
                              q \in CrossParties(p)}
  /\ sharesAwaited' = [sharesAwaited EXCEPT ![p] = NumCrossParties(p)]
  /\ UNCHANGED << query, seed, file, sorts >>

\* The list of a partner, and who reveals in its sort.
Sort(p, q) ==
  [with |-> q, list |-> IndexOfCrossParty(p, q),
   revealer |-> IF VerticalOf[p] = DataVertical THEN p ELSE q]

\* handleReceive: the share is put in place; after the last, all sorts are invoked.
ReceiveShare(m) ==
  LET p == m.to
      i == IndexOfCrossParty(p, m.from)
      last == sharesAwaited[p] - 1 = 0
  IN
  /\ ownList[p] # << >>
  /\ shares' = shares \ {m}
  /\ sharedLists' = [sharedLists EXCEPT ![p][i] = Placed(@, TheirHalf(p), m.rows)]
  /\ sharesAwaited' = [sharesAwaited EXCEPT ![p] = IF last THEN NumCrossParties(p) ELSE @ - 1]
  /\ sorts' = IF last THEN [sorts EXCEPT ![p] = {Sort(p, q) : q \in CrossParties(p)}]
              ELSE sorts
  /\ UNCHANGED << query, seed, file, ownList >>

SharingNext ==
  \/ \E p \in OwnerSet : ShareLists(p)
  \/ \E m \in shares : ReceiveShare(m)

SharingSpec == SharingInit /\ [][SharingNext]_sharingVars

-----------------------------------------------------------------------------
Opened(one, two) == [k \in 1 .. RowCols |-> ModAdd(one[k], two[k], ColumnModulus(k))]
Reduced(row) == [k \in 1 .. RowCols |-> row[k] % ColumnModulus(k)]

\* Two dataowners that sort a list agree on who reveals, and their lists open, row
\* by row, to the list of the data vertical and then the partner's: whatever the
\* order of arrival, the place of a partner among the others, the padding, and
\* although Moments draws the noise of a key below another modulus than it
\* subtracts it in (setupCrossVerticalShares, handleReceive).
SortsOpenToBothLists ==
  \A p \in OwnerSet : \A s \in sorts[p] : \A t \in sorts[s.with] :
    t.with = p /\ VerticalOf[p] = DataVertical =>
      /\ s.revealer = t.revealer
      /\ \A n \in 1 .. 2 * maxListSize :
           /\ NoRow \notin {sharedLists[p][s.list][n], sharedLists[s.with][t.list][n]}
           /\ Opened(sharedLists[p][s.list][n], sharedLists[s.with][t.list][n]) =
                Reduced(IF n <= maxListSize THEN ownList[p][n] ELSE ownList[s.with][n - maxListSize])
=============================================================================
