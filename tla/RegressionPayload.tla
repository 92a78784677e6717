-------------------------- MODULE RegressionPayload --------------------------
(***************************************************************************)
(* The columns of a regression: how a dataowner packs the products of its  *)
(* own columns into a row (Regression::computePayloadVectorAndPadList),    *)
(* and how RegressionPayloadCompute unpacks two matching rows into one row *)
(* of the normal equations.  The code addresses packed triangles by closed *)
(* formulas in size_t; here a value is the monomial it stands for, so that *)
(* every formula can be compared with the monomial it should find.         *)
(***************************************************************************)
EXTENDS Integers, Sequences

CONSTANT MaxIVs     \* bound: independent variables of one vertical

ASSUME MaxIVsAssumption == MaxIVs \in Nat

VARIABLES
  d_1, d_2,          \* verticalNonDV_numIVs, verticalDV_numIVs
  vec1, vec2,        \* a row of the other vertical, and of the one with y
  multiplyResults,   \* the products across the verticals; Zero until done
  output,            \* the row handed to ZipReduce
  stage              \* "packing", "multiplying", "done"

payloadVars == <<d_1, d_2, vec1, vec2, multiplyResults, output, stage>>

d == d_1 + d_2

\* Monomials of X(0) .. X(d - 1), those below d_1 from the other vertical, and Y.
X(k) == <<"x", k>>
Y == <<"y", 0>>
Zero == [of |-> {}, degree |-> 0]
One == [of |-> {<<"1", 0>>}, degree |-> 0]
Single(x) == [of |-> {x}, degree |-> 1]
Product(m, n) == [of |-> m.of \cup n.of, degree |-> m.degree + n.degree]
OutOfBounds == [of |-> {<<"?", 0>>}, degree |-> 0]

\* A C++ vector: indices from 0; an index outside it reads something else.
At(v, k) == IF k + 1 \in DOMAIN v THEN v[k + 1] ELSE OutOfBounds
Resize(v, n) == [k \in 1 .. n |-> IF k \in DOMAIN v THEN v[k] ELSE Zero]

\* for i in 0 .. n-1, for j in i .. n-1: the products of the first n columns.
TriangleRow(v, n, i) == [k \in 1 .. n - i |-> Product(At(v, i), At(v, i + k - 1))]
UpperTriangle(v, n) ==
  LET before[i \in 0 .. n] ==
        IF i = 0 THEN <<>> ELSE before[i - 1] \o TriangleRow(v, n, i - 1)
  IN  before[n]

computePayloadLength(d1, d2) ==
  LET own == d1 + (d1 * (d1 + 1)) \div 2
      withY == (d2 + 1) + (d2 * (d2 + 3)) \div 2 + 3
  IN  IF own >= withY THEN own ELSE withY

payloadLength == computePayloadLength(d_1, d_2)

\* The rows before padding.
OtherRow ==
  LET own == [k \in 1 .. d_1 |-> Single(X(k - 1))]
  IN  own \o UpperTriangle(own, d_1)
DVRow ==
  LET own == Append([k \in 1 .. d_2 |-> Single(X(d_1 + k - 1))], Single(Y))
      xy == [k \in 1 .. d_2 |-> Product(own[k], At(own, d_2))]
  IN  own \o UpperTriangle(own, d_2) \o xy
        \o <<Product(At(own, d_2), At(own, d_2)), At(own, d_2), One>>

PayloadInit ==
  /\ d_1 \in 0 .. MaxIVs
  /\ d_2 \in 0 .. MaxIVs
  /\ vec1 = <<>> /\ vec2 = <<>> /\ multiplyResults = <<>> /\ output = <<>>
  /\ stage = "packing"

-----------------------------------------------------------------------------
\* computePayloadVectorAndPadList at both dataowners, then init of
\* RegressionPayloadCompute on the two rows.
Pack ==
  /\ stage = "packing"
  /\ vec1' = Resize(OtherRow, payloadLength)
  /\ vec2' = Resize(DVRow, payloadLength)
  /\ multiplyResults' = [k \in 1 .. d_1 * (d_2 + 1) |-> Zero]
  /\ stage' = "multiplying"
  /\ UNCHANGED <<d_1, d_2, output>>

\* A Multiply of the batch writes through its pointer, in any order.
MultiplyDone(i, j) ==
  LET k == i * (d_2 + 1) + j + 1 IN
  /\ stage = "multiplying"
  /\ multiplyResults[k] = Zero
  /\ multiplyResults' =
       [multiplyResults EXCEPT ![k] = Product(At(vec1, i), At(vec2, j))]
  /\ UNCHANGED <<d_1, d_2, vec1, vec2, output, stage>>

\* Mutant: the triangle of the second vertical starts one row early.
AccessOffByARow(i, j) ==
  LET lo == IF i > j THEN j ELSE i
      hi == IF i > j THEN i ELSE j
  IN  IF hi < d_1
      THEN At(vec1, d_1 + (d_1 * (d_1 + 1)) \div 2
                      - ((d_1 - lo) * (d_1 - lo + 1)) \div 2 + (hi - lo))
      ELSE IF lo < d_1
      THEN At(multiplyResults, lo * (d_2 + 1) + (hi - d_1))
      ELSE At(vec2, d_2 + (d_2 * (d_2 + 1)) \div 2
                      - ((d - lo) * (d - lo + 1)) \div 2 + (hi - lo))

accessMatrixShare(i, j) ==
  LET lo == IF i > j THEN j ELSE i
      hi == IF i > j THEN i ELSE j
  IN  IF hi < d_1
      THEN At(vec1, d_1 + (d_1 * (d_1 + 1)) \div 2
                      - ((d_1 - lo) * (d_1 - lo + 1)) \div 2 + (hi - lo))
      ELSE IF lo < d_1
      THEN At(multiplyResults, lo * (d_2 + 1) + (hi - d_1))
      ELSE At(vec2, (d_2 + 1) + (d_2 * (d_2 + 1)) \div 2
                      - ((d - lo) * (d - lo + 1)) \div 2 + (hi - lo))

\* The entry k of the output: the matrix, the vector, then y*y, y and 1.
OutputEntry(k) ==
  LET tail == (d_2 + 1) + (d_2 * (d_2 + 3)) \div 2
  IN  IF k < d * d THEN accessMatrixShare(k \div d, k % d)
      ELSE IF k < d * d + d_1
      THEN At(multiplyResults, (k - d * d) * (d_2 + 1) + d_2)
      ELSE IF k < d * d + d
      THEN At(vec2, (d_2 + 1) + (d_2 * (d_2 + 1)) \div 2 + (k - d * d - d_1))
      ELSE At(vec2, tail + (k - d * d - d))

\* The batch has completed: build the output and complete.
HandleComplete ==
  /\ stage = "multiplying"
  /\ \A k \in DOMAIN multiplyResults : multiplyResults[k] # Zero
  /\ output' = [k \in 1 .. d * d + d + 3 |-> OutputEntry(k - 1)]
  /\ stage' = "done"
  /\ UNCHANGED <<d_1, d_2, vec1, vec2, multiplyResults>>

PayloadDone == stage = "done" /\ UNCHANGED payloadVars

PayloadNext ==
  \/ Pack
  \/ \E i \in 0 .. d_1 - 1, j \in 0 .. d_2 : MultiplyDone(i, j)
  \/ HandleComplete
  \/ PayloadDone

PayloadSpec == PayloadInit /\ [][PayloadNext]_payloadVars

-----------------------------------------------------------------------------
\* The row holds x_i*x_j for all i and j, x_i*y for all i, y*y, y and 1, at the
\* places where Regression::handleComplete reads them: every packed index that
\* RegressionPayloadCompute works out finds the monomial it is meant for.
NormalEquations ==
  stage = "done" =>
    /\ \A i, j \in 0 .. d - 1 :
         At(output, i * d + j) = Product(Single(X(i)), Single(X(j)))
    /\ \A i \in 0 .. d - 1 :
         At(output, d * d + i) = Product(Single(X(i)), Single(Y))
    /\ At(output, d * (d + 1)) = Product(Single(Y), Single(Y))
    /\ At(output, d * (d + 1) + 1) = Single(Y)
    /\ At(output, d * (d + 1) + 2) = One
=============================================================================
