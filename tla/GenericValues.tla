---------------------------- MODULE GenericValues ----------------------------
(***************************************************************************)
(* The operations on GenericValues: the comparison operators, the Boolean, *)
(* comparison and arithmetic MergeValuesViaOperator, ApplyOperator and the *)
(* reading and writing of ValueCodec.  The state is a pair of operands and *)
(* the result of the last operation on them; each operation is an action.  *)
(* errno survives from one operation to the next.                          *)
(***************************************************************************)
EXTENDS ValueCodec

CONSTANTS
  DoubleBits,       \* bits of a double's mantissa: pow() is exact below 2^DoubleBits
  FactorialLimit,   \* the largest argument FACTORIAL takes (20 for 64 bits)
  Sample            \* the operands, a set of GenericValues

VARIABLES
  one, two,   \* the operands
  errno,      \* errno = ERANGE
  out         \* the last operation, its argument and what it returned
valueVars == << one, two, errno, out >>

-----------------------------------------------------------------------------
(* operator== and operator<.                                               *)

IsUint64(v) == v.type_ \in {"UINT64", "SLICE"}
\* The reading each comparison takes of an operand.
Readable(v) == IF IsUint64(v) THEN HasUnsignedIntegerValue(v) ELSE HasSignedIntegerValue(v)
AsUint64(v) == Unsigned(Width[64], v.value_)

IntegerEq(a, b) ==
  /\ Readable(a) /\ Readable(b)
  /\ IF IsUint64(a) \/ IsUint64(b)
     THEN a.value_ >= 0 /\ b.value_ >= 0 /\ AsUint64(a) = AsUint64(b)
     ELSE a.value_ = b.value_
\* Mutant: a negative number beside a uint64_t is read as a large one.
IntegerLessUnsigned(a, b) ==
  /\ Readable(a) /\ Readable(b)
  /\ IF IsUint64(a) \/ IsUint64(b) THEN AsUint64(a) < AsUint64(b) ELSE a.value_ < b.value_
IntegerLess(a, b) ==
  /\ Readable(a) /\ Readable(b)
  /\ CASE IsUint64(a) -> b.value_ >= 0 /\ a.value_ < AsUint64(b)
       [] IsUint64(b) -> a.value_ < 0 \/ AsUint64(a) < b.value_
       [] OTHER -> a.value_ < b.value_

\* A DOUBLE counts halves; an integer beside one is converted to double.
Halves(v) == IF v.type_ = "DOUBLE" THEN v.value_ ELSE 2 * v.value_
DoubleReadable(v) == v.type_ = "DOUBLE" \/ Readable(v)

LexLess(s, t) ==
  \E i \in DOMAIN t :
    /\ \A j \in 1 .. i - 1 : j <= Len(s) /\ s[j] = t[j]
    /\ i > Len(s) \/ s[i] < t[i]

ScalarEq(a, b) ==
  CASE IsStringDataType(a.type_) # IsStringDataType(b.type_) -> FALSE
    [] IsStringDataType(a.type_) -> a.value_ = b.value_
    [] "DOUBLE" \in {a.type_, b.type_} ->
         DoubleReadable(a) /\ DoubleReadable(b) /\ Halves(a) = Halves(b)
    [] OTHER -> IntegerEq(a, b)
Eq(a, b) ==
  IF "VECTOR" \notin {a.type_, b.type_} THEN ScalarEq(a, b)
  ELSE /\ a.type_ = "VECTOR" /\ b.type_ = "VECTOR"
       /\ Len(a.value_) = Len(b.value_)
       /\ \A i \in DOMAIN a.value_ : ScalarEq(a.value_[i], b.value_[i])

ScalarLess(a, b) ==
  CASE IsStringDataType(a.type_) # IsStringDataType(b.type_) -> FALSE
    [] IsStringDataType(a.type_) -> LexLess(a.value_, b.value_)
    [] "DOUBLE" \in {a.type_, b.type_} ->
         DoubleReadable(a) /\ DoubleReadable(b) /\ Halves(a) < Halves(b)
    [] OTHER -> IntegerLess(a, b)
\* Vectors of one length compare at the first difference; equal ones are "less".
VectorLess(a, b) ==
  IF Len(a.value_) # Len(b.value_) THEN Len(a.value_) < Len(b.value_)
  ELSE LET differ == {i \in DOMAIN a.value_ : ~ScalarEq(a.value_[i], b.value_[i])}
       IN  differ = {} \/ ScalarLess(a.value_[Min(differ)], b.value_[Min(differ)])
Less(a, b) ==
  IF "VECTOR" \notin {a.type_, b.type_} THEN ScalarLess(a, b)
  ELSE a.type_ = "VECTOR" /\ b.type_ = "VECTOR" /\ VectorLess(a, b)

\* The six operators, each from == and <.
ComparisonOps == {"COMP_EQ", "COMP_NEQ", "COMP_GT", "COMP_GTE", "COMP_LT", "COMP_LTE"}
LessOrEqual(a, b) == Eq(a, b) \/ Less(a, b)
Operator(op, a, b) ==
  CASE op = "COMP_EQ" -> Eq(a, b)
    [] op = "COMP_NEQ" -> ~Eq(a, b)
    [] op = "COMP_LT" -> Less(a, b)
    [] op = "COMP_LTE" -> LessOrEqual(a, b)
    [] op = "COMP_GT" -> ~LessOrEqual(a, b)
    [] op = "COMP_GTE" -> Eq(a, b) \/ ~LessOrEqual(a, b)

-----------------------------------------------------------------------------
(* MergeValuesViaOperator for comparisons.                                 *)

OfBool(b) == Ok("BOOL", IF b THEN 1 ELSE 0)
Holds(op, x, y) ==
  CASE op = "COMP_EQ" -> x = y
    [] op = "COMP_NEQ" -> x # y
    [] op = "COMP_GT" -> x > y
    [] op = "COMP_GTE" -> x >= y
    [] op = "COMP_LT" -> x < y
    [] op = "COMP_LTE" -> x <= y

\* Two strings: both texts are taken from the first operand.
CompareStrings(op, a) == OfBool(op \in {"COMP_EQ", "COMP_GTE", "COMP_LTE"})
CompareDoubles(op, a, b) == OfBool(Holds(op, a.value_, b.value_))
\* One side is 64 bits unsigned: a negative other side is less than it.
CompareUint64(op, a, b) ==
  CASE ~(Readable(a) /\ Readable(b)) -> Stopped("false")
    [] b.value_ < 0 -> OfBool(op \in {"COMP_NEQ", "COMP_GT", "COMP_GTE"})
    [] a.value_ < 0 -> OfBool(op \in {"COMP_NEQ", "COMP_LT", "COMP_LTE"})
    [] OTHER -> OfBool(Holds(op, AsUint64(a), AsUint64(b)))
CompareInt64(op, a, b) ==
  IF Readable(a) /\ Readable(b) THEN OfBool(Holds(op, a.value_, b.value_)) ELSE Stopped("false")

MergeComparison(op, a, b) ==
  CASE IsStringDataType(a.type_) # IsStringDataType(b.type_) -> Stopped("false")
    [] (a.type_ = "DOUBLE") # (b.type_ = "DOUBLE") -> Stopped("false")
    [] IsStringDataType(a.type_) -> CompareStrings(op, a)
    [] a.type_ = "DOUBLE" -> CompareDoubles(op, a, b)
    [] IsUint64(a) \/ IsUint64(b) -> CompareUint64(op, a, b)
    [] OTHER -> CompareInt64(op, a, b)

-----------------------------------------------------------------------------
(* MergeValuesViaOperator for the ten two-input gates, and the gates on    *)
(* bools that circuits use.                                                *)

BooleanOps == {"AND", "NAND", "OR", "NOR", "XOR", "EQ", "GT", "GTE", "LT", "LTE"}
GateOnBools(op, p, q) ==
  CASE op = "AND" -> p /\ q
    [] op = "NAND" -> ~(p /\ q)
    [] op = "OR" -> p \/ q
    [] op = "NOR" -> ~(p \/ q)
    [] op = "XOR" -> p # q
    [] op = "EQ" -> p = q
    [] op = "GT" -> p /\ ~q
    [] op = "GTE" -> p \/ ~q
    [] op = "LT" -> ~p /\ q
    [] op = "LTE" -> ~p \/ q
GateOnBytes(op, x, y) ==
  MapThenSumSet(LAMBDA i : IF GateOnBools(op, Bit(x, i) = 1, Bit(y, i) = 1) THEN 2 ^ i ELSE 0,
                0 .. CharBit - 1)

\* Mutant: the shorter operand is filled with zeros.
PaddingZero(v) == 0
\* The shorter operand is filled with the top bit of its first byte, if it is signed.
Padding(v) ==
  IF IsSignedDataType(v.type_) /\ Bit(GetTwosComplementByteString(v)[1], CharBit - 1) = 1
  THEN 2 ^ CharBit - 1 ELSE 0
Padded(v, n) ==
  LET bytes == GetTwosComplementByteString(v)
  IN  [k \in 1 .. n - Len(bytes) |-> Padding(v)] \o bytes

\* The result's type: by its size in bytes, and within one byte by the wider operand.
BooleanResult(signed, bits, bytes) ==
  LET sizes == {n \in {16, 32, 64} : Width[n] = Len(bytes) * CharBit}
      small == {n \in {2, 4, 8} : Width[n] = bits}
  IN  CASE sizes # {} ->
             LET t == TypeOfWidth(signed, CHOOSE n \in sizes : TRUE) IN Ok(t, ByteStringToValue(t, bytes))
        [] Len(bytes) = 1 /\ small # {} ->
             LET t == TypeOfWidth(signed, CHOOSE n \in small : TRUE) IN Ok(t, Store(t, bytes[1]))
        [] Len(bytes) = 1 /\ bits = 1 /\ ~signed -> OfBool(bytes[1] = 1)
        [] OTHER -> Stopped("false")

MergeBoolean(op, a, b) ==
  LET n == Max({Len(GetTwosComplementByteString(a)), Len(GetTwosComplementByteString(b))})
      bytes == [k \in 1 .. n |-> GateOnBytes(op, Padded(a, n)[k], Padded(b, n)[k])]
  IN  CASE IsStringDataType(a.type_) # IsStringDataType(b.type_) -> Stopped("false")
        [] "DOUBLE" \in {a.type_, b.type_} -> Stopped("false")
        [] ~HasByteString(a) \/ ~HasByteString(b) -> Stopped("fatal")
        [] IsStringDataType(a.type_) -> SetStringGenericValue(bytes)
        [] OTHER -> BooleanResult(IsSignedDataType(a.type_) \/ IsSignedDataType(b.type_),
                                  Max({GetValueNumBits(a), GetValueNumBits(b)}), bytes)

\* ApplyOperator(NOT): the type is kept; small types are masked, not sign-extended.
ApplyNot(v) ==
  LET bytes == [k \in DOMAIN GetTwosComplementByteString(v) |->
                  2 ^ CharBit - 1 - GetTwosComplementByteString(v)[k]]
  IN  CASE v.type_ = "DOUBLE" -> Stopped("false")
        [] ~HasByteString(v) -> Stopped("fatal")
        [] IsStringDataType(v.type_) -> SetStringGenericValue(bytes)
        [] IsSmallDataType(v.type_) -> Ok(v.type_, Unsigned(TypeNumBits(v.type_), bytes[1]))
        [] IsIntegerDataType(v.type_) -> Ok(v.type_, ByteStringToValue(v.type_, bytes))
        [] OTHER -> Stopped("false")
\* ApplyOperator(IDENTITY) sets the output and still reports failure.
ApplyBoolean(op, v) == IF op = "NOT" THEN ApplyNot(v) ELSE Stopped("false")

-----------------------------------------------------------------------------
(* MergeValuesViaOperator for arithmetic.                                  *)

ArithmeticOps == {"ADD", "SUB", "MULT", "INNER_PRODUCT", "DIV", "MIN", "MAX", "POW"}
VectorOps == {"VEC", "ARGMIN", "ARGMAX", "ARGMIN_INTERNAL", "ARGMAX_INTERNAL"}

Abs(x) == IF x < 0 THEN - x ELSE x
TruncDiv(x, y) ==
  IF (x < 0) = (y < 0) THEN Abs(x) \div Abs(y) ELSE - (Abs(x) \div Abs(y))
\* pow(x, y), exact up to 2^DoubleBits and then Inexact.
Inexact == 2 ^ (Width[64] + 1)
Pow(x, y) ==
  LET power[n \in 0 .. DoubleBits] ==
        IF n = 0 THEN 1
        ELSE IF Abs(power[n - 1]) > 2 ^ DoubleBits \div Abs(x) THEN Inexact
        ELSE x * power[n - 1]
  IN  CASE x = 0 -> IF y < 0 THEN Inexact ELSE IF y = 0 THEN 1 ELSE 0
        [] x = 1 -> 1
        [] x = -1 -> IF y % 2 = 0 THEN 1 ELSE -1
        [] y < 0 -> 0
        [] y > DoubleBits -> Inexact
        [] OTHER -> power[y]

\* The operands of an operation that every width refuses.
Refused(op, x, y) ==
  \/ op = "DIV" /\ y = 0
  \/ op = "POW" /\ x = 0 /\ y = 0

\* One operation of the width of t, stored as a t.
Compute(op, t, x, y) ==
  LET w == Width[Nominal(t)]
  IN  CASE Refused(op, x, y) -> Stopped("false")
        [] op = "ADD" -> Ok(t, Store(t, x + y))
        [] op = "SUB" -> Ok(t, Store(t, x - y))
        [] op \in {"MULT", "INNER_PRODUCT"} -> Ok(t, Store(t, Times(w, x, y)))
        [] op = "DIV" -> IF Nominal(t) \in {32, 64} /\ x = MinOf(t) /\ y = -1
                         THEN Stopped("trap") ELSE Ok(t, Store(t, TruncDiv(x, y)))
        [] op = "MIN" -> Ok(t, Min({x, y}))
        [] op = "MAX" -> Ok(t, Max({x, y}))
        [] op = "POW" -> IF Pow(x, y) \in MinOf(t) .. MaxOf(t)
                         THEN Ok(t, Pow(x, y)) ELSE Stopped("undefined")

\* 64 bits: unsigned when the second operand is; the other one must not be negative.
Arithmetic64(op, a, b) ==
  IF ~IsSignedDataType(b.type_)
  THEN IF HasUnsignedIntegerValue(a) /\ HasUnsignedIntegerValue(b)
       THEN Compute(op, "UINT64", a.value_, b.value_) ELSE Stopped("false")
  ELSE IF HasSignedIntegerValue(b) /\ HasUnsignedIntegerValue(a)
       THEN Compute(op, "INT64", Signed(Width[64], a.value_), b.value_) ELSE Stopped("false")

\* 32 and 16 bits: both operands are cast to the result's type.
Arithmetic32or16(op, n, a, b) ==
  LET t == TypeOfWidth(IsSignedDataType(b.type_), n)
  IN  Compute(op, t, Store(t, a.value_), Store(t, b.value_))
Arithmetic8(op, a, b) ==
  LET t == TypeOfWidth(IsSignedDataType(b.type_), 8)
  IN  Compute(op, t, Store(t, a.value_), Store(t, b.value_))

\* Mutant: a result below the range is left there.
CorrectDownOnly(t, temp) == IF temp > MaxOf(t) THEN temp - 2 ^ TypeNumBits(t) ELSE temp
(* 4 and 2 bits are computed in a char and then brought back: ADD and SUB  *)
(* by one correction, MULT and POW by as many as it takes, DIV not at all. *)
Correct(t, temp) ==
  IF temp < MinOf(t) THEN temp + 2 ^ TypeNumBits(t)
  ELSE IF temp > MaxOf(t) THEN temp - 2 ^ TypeNumBits(t) ELSE temp
CorrectFully(t, temp) ==
  IF IsSignedDataType(t) THEN Signed(TypeNumBits(t), temp) ELSE Unsigned(TypeNumBits(t), temp)
\* An unsigned sum is corrected downwards only, a difference upwards only.
CorrectSum(op, t, temp) ==
  IF IsSignedDataType(t) \/ (op = "ADD") = (temp >= 0) THEN Correct(t, temp) ELSE temp

ArithmeticSmall(op, n, a, b) ==
  LET t == TypeOfWidth(IsSignedDataType(b.type_), n)
      x == Store(t, a.value_)
      y == Store(t, b.value_)
      temp == Signed(CharBit, IF op = "ADD" THEN x + y ELSE x - y)
  IN  CASE Refused(op, x, y) -> Stopped("false")
        [] op \in {"ADD", "SUB"} -> Ok(t, Store(t, CorrectSum(op, t, temp)))
        [] op \in {"MULT", "INNER_PRODUCT"} -> Ok(t, CorrectFully(t, Signed(CharBit, x * y)))
        [] op = "DIV" -> Ok(t, Store(t, TruncDiv(x, y)))
        [] op = "MIN" -> Ok(t, Min({x, y}))
        [] op = "MAX" -> Ok(t, Max({x, y}))
        [] op = "POW" -> IF Pow(x, y) \in MinOf("INT8") .. MaxOf("INT8")
                         THEN Ok(t, CorrectFully(t, Pow(x, y))) ELSE Stopped("undefined")

ArithmeticBool(op, a, b) ==
  CASE Refused(op, a.value_, b.value_) -> Stopped("false")
    [] op \in {"ADD", "SUB"} -> OfBool(a.value_ # b.value_)
    [] op \in {"MULT", "INNER_PRODUCT", "MIN"} -> OfBool(a.value_ = 1 /\ b.value_ = 1)
    [] op \in {"DIV", "POW"} -> Ok("BOOL", a.value_)
    [] op = "MAX" -> OfBool(a.value_ = 1 \/ b.value_ = 1)

ArithmeticIntegers(op, a, b) ==
  LET n == Max({Nominal(a.type_), Nominal(b.type_)})
  IN  CASE n = 64 -> Arithmetic64(op, a, b)
        [] n \in {32, 16} -> Arithmetic32or16(op, n, a, b)
        [] n = 8 -> Arithmetic8(op, a, b)
        [] n \in {4, 2} -> ArithmeticSmall(op, n, a, b)
        [] OTHER -> ArithmeticBool(op, a, b)

\* ARGMIN and ARGMAX of two scalars: the comparison is strict, so a tie selects the second.
Best(op, a, b) ==
  IF IsStringDataType(a.type_) \/ IsStringDataType(b.type_) THEN Stopped("false")
  ELSE MergeComparison(IF op \in {"ARGMIN", "ARGMIN_INTERNAL"} THEN "COMP_LT" ELSE "COMP_GT", a, b)
Flag(b) == Value("BOOL", IF b THEN 1 ELSE 0)
ArgScalars(op, a, b) ==
  LET best == Best(op, a, b)
      first == best.value_ = 1
      flags == << Flag(first), Flag(~first) >>
  IN  IF best.status # "ok" THEN best
      ELSE Ok("VECTOR", IF op \in {"ARGMIN", "ARGMAX"} THEN flags
                        ELSE << IF first THEN a ELSE b >> \o flags)

\* The best value of an operand and its flags: a vector holds the value first.
BestOf(v) == IF v.type_ = "VECTOR" THEN v.value_[1] ELSE v
FlagsOf(v) == IF v.type_ = "VECTOR" THEN Tail(v.value_) ELSE << Flag(TRUE) >>
\* The loser's flags are cleared.
ArgVectors(op, a, b) ==
  LET best == Best(op, BestOf(a), BestOf(b))
      first == best.value_ = 1
      cleared(s) == [i \in DOMAIN s |-> Flag(FALSE)]
      flags == (IF first THEN FlagsOf(a) ELSE cleared(FlagsOf(a)))
               \o (IF first THEN cleared(FlagsOf(b)) ELSE FlagsOf(b))
  IN  IF \/ a.type_ = "VECTOR" /\ Len(a.value_) < 2
         \/ b.type_ = "VECTOR" /\ Len(b.value_) < 2
         \/ best.status # "ok"
      THEN Stopped("false")
      ELSE Ok("VECTOR", IF op \in {"ARGMIN", "ARGMAX"} THEN flags
                        ELSE << IF first THEN BestOf(a) ELSE BestOf(b) >> \o flags)

Elements(v) == IF v.type_ = "VECTOR" THEN v.value_ ELSE << v >>
(* INNER_PRODUCT of vectors: the products, added from the left; any failure *)
(* stops it.  Of empty vectors it returns true and sets no value; beside a  *)
(* scalar it reads the scalar as a vector.                                  *)
InnerProduct(a, b) ==
  LET products == [i \in DOMAIN a.value_ |-> ArithmeticIntegers("MULT", a.value_[i], b.value_[i])]
      sum[i \in DOMAIN a.value_] ==
        IF products[i].status # "ok" THEN products[i]
        ELSE IF i = 1 THEN products[i]
        ELSE IF sum[i - 1].status # "ok" THEN sum[i - 1]
        ELSE ArithmeticIntegers("ADD", sum[i - 1], products[i])
  IN  CASE Len(a.value_) # Len(b.value_) -> Stopped("false")
        [] a.value_ = << >> -> Stopped("undefined")
        [] OTHER -> sum[Len(a.value_)]

MergeArithmetic(op, a, b) ==
  CASE IsStringDataType(a.type_) \/ IsStringDataType(b.type_) -> Stopped("false")
    [] op = "VEC" -> Ok("VECTOR", Elements(a) \o Elements(b))
    [] op \in VectorOps /\ "VECTOR" \in {a.type_, b.type_} -> ArgVectors(op, a, b)
    [] op \in VectorOps -> ArgScalars(op, a, b)
    [] a.type_ = "VECTOR" /\ b.type_ = "VECTOR" /\ op = "INNER_PRODUCT" -> InnerProduct(a, b)
    [] "VECTOR" \in {a.type_, b.type_} /\ op = "INNER_PRODUCT" -> Stopped("undefined")
    [] "VECTOR" \in {a.type_, b.type_} -> Stopped("false")
    [] OTHER -> ArithmeticIntegers(op, a, b)

-----------------------------------------------------------------------------
(* ApplyOperator for arithmetic.                                           *)

UnaryOps == {"ABS", "FLIP_SIGN", "FACTORIAL", "SQRT"}
Factorial(n) == LET f[k \in 0 .. n] == IF k = 0 THEN 1 ELSE k * f[k - 1] IN f[n]
Sqrt(x) == CHOOSE r \in 0 .. 2 ^ (Width[64] \div 2) : r * r <= x /\ x < (r + 1) * (r + 1)

\* The factorial is brought back from above only, so a small type may overflow its range.
StoreFactorial(t, n) ==
  LET temp == Signed(CharBit, Factorial(n))
  IN  IF ~IsSmallDataType(t) THEN Store(t, Factorial(n))
      ELSE Store(t, IF temp > MaxOf(t) THEN CorrectFully(t, temp) ELSE temp)

\* |x| and -x of the most negative number are the number itself.
ApplySigned(op, v) ==
  LET x == v.value_ t == v.type_
  IN  CASE op \in {"ABS", "FLIP_SIGN"} /\ x <= 0 ->
             IF - x = MaxOf(t) + 1 THEN OkValue(v) ELSE Ok(t, Store(t, - x))
        [] op = "ABS" -> OkValue(v)
        [] op = "FLIP_SIGN" -> Ok(t, Store(t, - x))
        [] op = "FACTORIAL" ->
             IF x < 0 \/ x > FactorialLimit THEN Stopped("false") ELSE Ok(t, StoreFactorial(t, x))
        [] op = "SQRT" -> IF x < 0 THEN Stopped("false") ELSE Ok(t, Sqrt(x))

ApplyUnsigned(op, v) ==
  LET x == v.value_ t == v.type_
  IN  CASE op = "ABS" -> OkValue(v)
        [] op = "FLIP_SIGN" -> Stopped("false")
        [] t = "BOOL" -> IF op = "FACTORIAL" THEN OfBool(TRUE) ELSE OkValue(v)
        [] ~HasUnsignedIntegerValue(v) -> Stopped("false")
        [] op = "FACTORIAL" ->
             IF x > FactorialLimit THEN Stopped("false") ELSE Ok(t, StoreFactorial(t, x))
        [] op = "SQRT" -> Ok(t, Sqrt(x))

ApplyArithmetic(op, v) ==
  CASE ~IsIntegerDataType(v.type_) -> Stopped("false")
    [] IsSignedDataType(v.type_) -> ApplySigned(op, v)
    [] OTHER -> ApplyUnsigned(op, v)

-----------------------------------------------------------------------------
Nothing == [op |-> "none", text |-> Text(0), of |-> Stopped("none")]
Did(op, result) == [op |-> op, text |-> Text(0), of |-> result]

ValuesInit ==
  /\ one \in Sample /\ two \in Sample
  /\ errno = FALSE
  /\ out = Nothing

IsDouble(v) == v.type_ = "DOUBLE"

\* a == b, a < b, ... of two values.
Compare(op) ==
  /\ out' = Did(op, OfBool(Operator(op, one, two)))
  /\ UNCHANGED << one, two, errno >>
Merge(op) ==
  /\ out' = Did(op, CASE op \in ComparisonOps -> MergeComparison(op, one, two)
                      [] op \in BooleanOps -> MergeBoolean(op, one, two)
                      [] OTHER -> MergeArithmetic(op, one, two))
  /\ UNCHANGED << one, two, errno >>
\* The operations on one value, tried where the operands coincide.
Apply(op) ==
  /\ two = one
  /\ out' = Did(op, IF op \in UnaryOps THEN ApplyArithmetic(op, one) ELSE ApplyBoolean(op, one))
  /\ UNCHANGED << one, two, errno >>
ReadBytes ==
  /\ two = one /\ one.type_ # "VECTOR" /\ HasByteString(one)
  /\ out' = Did("bytes", ParseGenericValueFromTwosComplementString(one.type_,
                           CharVectorToBinaryString(GetTwosComplementByteString(one))))
  /\ UNCHANGED << one, two, errno >>
\* The texts tried: what the sample prints as, and a number past 64 bits.
Texts == {Text(MaxOf("UINT64") + 1), Text(- MaxOf("UINT64") - 1)}
         \cup {GetGenericValueString(v) : v \in {u \in Sample : IsIntegerDataType(u.type_)}}
ReadText(text) ==
  /\ two = one /\ IsIntegerDataType(one.type_)
  /\ out' = [op |-> "text", text |-> text, of |-> ParseGenericValue(one.type_, text, errno)]
  /\ errno' = IF one.type_ = "BOOL" THEN errno ELSE StoiErrno(ReadAs(one.type_), text, errno)
  /\ UNCHANGED << one, two >>
ReadInteger(text, suffix) ==
  /\ two = one /\ one.type_ = "BOOL"
  /\ out' = [op |-> "number", text |-> [text EXCEPT !.suffix = suffix],
             of |-> ParseIfInteger([text EXCEPT !.suffix = suffix], errno)]
  /\ errno' = IF suffix \in UnsignedTypes /\ text.negative THEN errno
              ELSE errno \/ text.magnitude > MaxOf("UINT64")
  /\ UNCHANGED << one, two >>
Construct ==
  /\ IsIntegerDataType(one.type_) /\ IsIntegerDataType(two.type_)
  /\ out' = Did("construct", IF IsSignedDataType(two.type_)
                             THEN GenericValueSigned(one.type_, two.value_)
                             ELSE GenericValueUnsigned(one.type_, two.value_))
  /\ UNCHANGED << one, two, errno >>
\* The caller is done with the result; errno stays.
Drop ==
  /\ out # Nothing
  /\ out' = Nothing
  /\ UNCHANGED << one, two, errno >>

Operate ==
  \/ \E op \in ComparisonOps : Compare(op)
  \/ \E op \in ComparisonOps \cup BooleanOps : Merge(op)
  \/ ~IsDouble(one) /\ ~IsDouble(two) /\ \E op \in ArithmeticOps \cup VectorOps : Merge(op)
  \/ ~IsDouble(one) /\ \E op \in UnaryOps \cup {"NOT", "IDENTITY"} : Apply(op)
  \/ ReadBytes
  \/ \E text \in Texts : ReadText(text)
  \/ \E text \in Texts, suffix \in {""} \cup SignedTypes \cup UnsignedTypes : ReadInteger(text, suffix)
  \/ Construct
ValuesNext == (out = Nothing /\ Operate) \/ Drop

-----------------------------------------------------------------------------
(* Properties.                                                             *)

Plain(v) == IsIntegerDataType(v.type_) /\ v.type_ # "SLICE"
Wider == Max({Nominal(one.type_), Nominal(two.type_)})
\* Output Rule II of MergeValuesViaOperator's header comment: the wider operand's
\* number of bits, unsigned iff both operands are; overflow wraps.  (The low bits
\* of a 64-bit product are not compared: TLC's integers do not hold them.)
KeepsOutputRule(exact) ==
  /\ out.of.status = "ok"
  /\ out.of.type_ = TypeOfWidth(IsSignedDataType(one.type_) \/ IsSignedDataType(two.type_), Wider)
  /\ InRange(out.of)
  /\ (out.of.value_ - exact) % 2 ^ TypeNumBits(out.of.type_) = 0

(* Where sums, differences and products keep Output Rule II, and where the *)
(* code departs from it: the branches of the ArithmeticOperation merge     *)
(* test the sign of `two' twice and never that of `one'.  So a signed      *)
(* operand before an unsigned one gives an unsigned result, and with 64    *)
(* bits a negative first operand is refused instead of wrapped.  Every     *)
(* other pair keeps the rule, though the 2- and 4-bit types are held in a  *)
(* char and brought back by hand.                                          *)
OutputRuleExceptBySignOfTwo ==
  out.op \in {"ADD", "SUB", "MULT"} /\ Plain(one) /\ Plain(two) =>
    LET exact == CASE out.op = "ADD" -> one.value_ + two.value_
                   [] out.op = "SUB" -> one.value_ - two.value_
                   [] out.op = "MULT" -> IF Wider = 64 THEN out.of.value_ ELSE one.value_ * two.value_
        signedBeforeUnsigned == IsSignedDataType(one.type_) /\ ~IsSignedDataType(two.type_)
        negativeFirst == Wider = 64 /\ one.value_ < 0
    IN  KeepsOutputRule(exact) <=> ~signedBeforeUnsigned /\ ~negativeFirst

(* The comparison operators and MergeValuesViaOperator order integers of   *)
(* any two types as numbers, also across signs and at the 64-bit boundary  *)
(* where one of the readings does not fit the other's type.  A SLICE has   *)
(* no integer reading and is left out.                                     *)
OrderIsNumeric ==
  out.op \in ComparisonOps /\ Plain(one) /\ Plain(two) =>
    out.of = OfBool(Holds(out.op, one.value_, two.value_))

(* GetTwosComplementByteString and its parser are "inverses of each other" *)
(* (the header) for every value but two kinds, for which they are not: a   *)
(* negative INT2, written as a byte with two bits and read as a byte with  *)
(* all of them, and a string shorter than its type, which is written with  *)
(* the null bytes of its padding and read back with them.  GetBit reads    *)
(* the bits of the string of every value.                                  *)
InversesExceptInt2AndPadding ==
  out.op = "bytes" =>
    LET bits == CharVectorToBinaryString(GetTwosComplementByteString(one))
        negativeInt2 == one.type_ = "INT2" /\ one.value_ < 0
        paddedString == IsStringDataType(one.type_) /\ Len(one.value_) < Capacity[one.type_]
    IN  /\ out.of = OkValue(one) <=> ~negativeInt2 /\ ~paddedString
        /\ \A i \in 0 .. GetValueNumBits(one) - 1 : GetBit(i, one) = bits[Len(bits) - i]

(* A gate on two integers of whole bytes is that gate on each pair of      *)
(* bits, the shorter operand continued with its sign (or 0), in a type as  *)
(* wide as the wider one (the BooleanOperation merge).                     *)
BitOf(i, v) ==
  IF i < TypeNumBits(v.type_) THEN GetBit(i, v)
  ELSE IF v.value_ < 0 THEN 1 ELSE 0
GatesOnBits ==
  (/\ out.op \in BooleanOps /\ Plain(one) /\ Plain(two)
   /\ Nominal(one.type_) >= 8 /\ Nominal(two.type_) >= 8) =>
    /\ out.of.status = "ok" /\ Nominal(out.of.type_) = Wider
    /\ \A i \in 0 .. Width[Wider] - 1 :
         (GetBit(i, out.of) = 1) = GateOnBools(out.op, BitOf(i, one) = 1, BitOf(i, two) = 1)

(* A number in the range of a type is read as that number and one outside *)
(* is refused, whatever was read before; only the extreme 64-bit numbers   *)
(* depend on it: strtol's errno is never cleared, so they are refused from *)
(* the first overflow on, and never before it (string_utils.cpp, Stoi).    *)
TextRoundTrip ==
  out.op = "text" /\ one.type_ # "SLICE" =>
    LET x == StoiNumber(out.text)
        extreme == \/ one.type_ = "INT64" /\ x \in {MinOf("INT64"), MaxOf("INT64")}
                   \/ one.type_ = "UINT64" /\ x = MaxOf("UINT64")
    IN  out.of = IF x \in MinOf(one.type_) .. MaxOf(one.type_) /\ ~(errno /\ extreme)
                 THEN Ok(one.type_, x) ELSE Stopped("false")
=============================================================================
