------------------------------ MODULE ValueCodec ------------------------------
(***************************************************************************)
(* The representations of a GenericValue: its bits, its two's-complement   *)
(* byte string, and its text, with the readers of each.  Bytes are numbers *)
(* below 2^CharBit, most significant first; a binary string is a sequence  *)
(* of 0s and 1s.  The text of an integer is its sign, its magnitude and    *)
(* the "_INT8"-like suffix it may carry.                                   *)
(***************************************************************************)
EXTENDS DataTypes, SequencesExt

Bit(x, i) == (x \div 2 ^ i) % 2
BitsToNat(bits) == MapThenSumSet(LAMBDA k : bits[k] * 2 ^ (Len(bits) - k), DOMAIN bits)

\* ValueToByteString<value_t> and ByteStringToValue<value_t>, for a value of n bytes.
ValueToByteString(n, x) ==
  [k \in 1 .. n |-> (x \div 2 ^ ((n - k) * CharBit)) % 2 ^ CharBit]
ByteStringToNat(bytes) ==
  MapThenSumSet(LAMBDA k : bytes[k] * 2 ^ ((Len(bytes) - k) * CharBit), DOMAIN bytes)
ByteStringToValue(t, bytes) == Store(t, ByteStringToNat(bytes))

\* CharVectorToBinaryString and BinaryStringToCharVector.
CharVectorToBinaryString(bytes) ==
  [k \in 1 .. Len(bytes) * CharBit |->
     Bit(bytes[1 + (k - 1) \div CharBit], CharBit - 1 - ((k - 1) % CharBit))]
BinaryStringToCharVector(bits) ==
  LET bytes == (Len(bits) + CharBit - 1) \div CharBit
      first == IF Len(bits) % CharBit = 0 THEN CharBit ELSE Len(bits) % CharBit
  IN  [k \in 1 .. bytes |->
         BitsToNat(IF k = 1 THEN SubSeq(bits, 1, first)
                   ELSE SubSeq(bits, first + (k - 2) * CharBit + 1, first + (k - 1) * CharBit))]

-----------------------------------------------------------------------------
(* GetBit: the bit of weight 2^i.                                          *)

GetBitString(i, v) ==
  LET n == Len(v.value_)
  IN  IF i >= n * CharBit THEN 0 ELSE Bit(v.value_[n - i \div CharBit], i % CharBit)

GetBitSmall(i, v) ==
  LET top == TypeNumBits(v.type_) - 1
  IN  CASE v.type_ = "BOOL" -> v.value_
        [] v.type_ = "INT2" -> IF i = top THEN IF v.value_ < 0 THEN 1 ELSE 0
                               ELSE IF v.value_ \in {-1, 1} THEN 1 ELSE 0
        [] v.type_ = "INT4" -> IF i = top THEN IF v.value_ < 0 THEN 1 ELSE 0
                               ELSE IF v.value_ >= 0 THEN Bit(v.value_, i)
                               ELSE Bit(Unsigned(CharBit, 2 ^ top + v.value_), i)
        [] OTHER -> Bit(v.value_, i)

GetBitWide(i, v) ==
  LET top == TypeNumBits(v.type_) - 1
  IN  IF ~IsSignedDataType(v.type_) THEN Bit(v.value_, i)
      ELSE IF i = top THEN IF v.value_ < 0 THEN 1 ELSE 0
      ELSE IF v.value_ >= 0 THEN Bit(v.value_, i)
      ELSE Bit(2 ^ top + v.value_, i)

GetBitScalar(i, v) ==
  CASE IsStringDataType(v.type_) -> GetBitString(i, v)
    [] IsSmallDataType(v.type_) -> GetBitSmall(i, v)
    [] OTHER -> GetBitWide(i, v)

\* The elements of a vector follow each other; past the last one the bit is 0.
GetBitVector(i, v) ==
  LET before(k) == MapThenSumSet(LAMBDA j : TypeNumBits(v.value_[j].type_), 1 .. k - 1)
      holds == {k \in DOMAIN v.value_ : i < before(k + 1)}
  IN  IF holds = {} THEN 0 ELSE GetBitScalar(i - before(Min(holds)), v.value_[Min(holds)])

GetBit(i, v) == IF v.type_ = "VECTOR" THEN GetBitVector(i, v) ELSE GetBitScalar(i, v)

-----------------------------------------------------------------------------
(* GetTwosComplementByteString.                                            *)

BytesOfString(v) ==
  [k \in 1 .. Capacity[v.type_] - Len(v.value_) |-> 0] \o v.value_

BytesOfSmall(v) ==
  CASE v.type_ \in {"INT2", "INT4"} -> << Unsigned(TypeNumBits(v.type_), v.value_) >>
    [] OTHER -> << v.value_ >>

\* Mutant: the sign bit is not put back.
BytesWithoutSign(v) ==
  ValueToByteString(TypeNumBytes(v.type_),
                    IF v.value_ < 0 THEN v.value_ - MinOf(v.type_) ELSE v.value_)
BytesOfWide(v) ==
  LET n == TypeNumBytes(v.type_)
      negative == v.value_ < 0
      trailing == IF negative THEN v.value_ - MinOf(v.type_) ELSE v.value_
      bytes == ValueToByteString(n, trailing)
  IN  [k \in 1 .. n |-> bytes[k] + IF negative /\ k = 1 THEN 2 ^ (CharBit - 1) ELSE 0]

\* INT2 and INT4 are listed value by value; a char outside the list is fatal.
HasByteString(v) ==
  /\ v.type_ # "DOUBLE"
  /\ v.type_ \in {"INT2", "INT4"} => InRange(v)

BytesOfScalar(v) ==
  CASE IsStringDataType(v.type_) -> BytesOfString(v)
    [] IsSmallDataType(v.type_) -> BytesOfSmall(v)
    [] OTHER -> BytesOfWide(v)

GetTwosComplementByteString(v) ==
  IF v.type_ = "VECTOR"
  THEN FlattenSeq([k \in DOMAIN v.value_ |-> BytesOfScalar(v.value_[k])])
  ELSE BytesOfScalar(v)

-----------------------------------------------------------------------------
(* ParseGenericValueFromTwosComplementString, on a binary string.          *)

ParseString(t, bits) ==
  IF Len(bits) % CharBit # 0 THEN Stopped("false") ELSE Ok(t, BinaryStringToCharVector(bits))

\* A BOOL, a 2-bit type: the short form, or a whole byte listed literally.
ParseTwoBits(t, bits) ==
  LET listed == {Unsigned(CharBit, x) : x \in MinOf(t) .. MaxOf(t)}
  IN  CASE Len(bits) = TypeNumBits(t) ->
             Ok(t, IF IsSignedDataType(t) THEN Signed(Len(bits), BitsToNat(bits)) ELSE BitsToNat(bits))
        [] Len(bits) = CharBit /\ BitsToNat(bits) \in listed -> Ok(t, Store(t, BitsToNat(bits)))
        [] OTHER -> Stopped("false")

\* A 4-bit type: the last 4 bits of a byte, whatever the first ones are.
ParseFourBits(t, bits) ==
  LET n == TypeNumBits(t)
      suffix == SubSeq(bits, Len(bits) - n + 1, Len(bits))
      trailing == BitsToNat(Tail(suffix))
  IN  IF Len(bits) \notin {n, CharBit} THEN Stopped("false")
      ELSE Ok(t, IF ~IsSignedDataType(t) THEN BitsToNat(suffix)
                 ELSE IF Head(suffix) = 1 THEN trailing - 2 ^ (n - 1) ELSE trailing)

\* BinaryStringToValue and TwosComplementStringToValue on exactly the bits of the type.
ParseWide(t, bits) ==
  IF Len(bits) # TypeNumBits(t) THEN Stopped("false")
  ELSE Ok(t, IF IsSignedDataType(t)
             THEN (IF Head(bits) = 1 THEN MinOf(t) ELSE 0) + BitsToNat(Tail(bits))
             ELSE BitsToNat(bits))

ParseGenericValueFromTwosComplementString(t, bits) ==
  CASE bits = << >> -> Stopped("false")
    [] IsStringDataType(t) -> ParseString(t, bits)
    [] t \in {"BOOL", "INT2", "UINT2"} -> ParseTwoBits(t, bits)
    [] t \in {"INT4", "UINT4"} -> ParseFourBits(t, bits)
    [] IsIntegerDataType(t) -> ParseWide(t, bits)
    [] OTHER -> Stopped("fatal")

-----------------------------------------------------------------------------
(* Text.  err is errno = ERANGE: strtol sets it and nothing clears it.     *)

Text(x) == [negative |-> x < 0, magnitude |-> IF x < 0 THEN -x ELSE x, suffix |-> ""]

GetGenericValueString(v) == Text(v.value_)

\* strtol reads into a long, strtoul into an unsigned long; both clamp.
Limit(t) == IF IsSignedDataType(t) THEN "INT64" ELSE "UINT64"
Overflows(t, text) ==
  IF IsSignedDataType(t) /\ text.negative
  THEN - text.magnitude < MinOf("INT64")
  ELSE text.magnitude > MaxOf(Limit(t))
StoiErrno(t, text, err) == err \/ Overflows(t, text)
\* Clamped, and so ambiguous when errno is set.
Extreme(t, text) ==
  \/ Overflows(t, text)
  \/ ~text.negative /\ text.magnitude = MaxOf(Limit(t))
  \/ IsSignedDataType(t) /\ text.negative /\ - text.magnitude = MinOf("INT64")

StoiNumber(text) == IF text.negative THEN - text.magnitude ELSE text.magnitude
\* Mutant: the least number of a type is refused.
StoiSymmetric(t, text, err) ==
  IF \/ Extreme(t, text) /\ StoiErrno(t, text, err)
     \/ text.magnitude = 0 /\ text.negative
     \/ text.suffix # ""
     \/ text.magnitude > MaxOf(t)
  THEN Stopped("false")
  ELSE Ok(t, StoiNumber(text))
StoiSigned(t, text, err) ==
  IF \/ Extreme(t, text) /\ StoiErrno(t, text, err)
     \/ text.magnitude = 0 /\ text.negative
     \/ text.suffix # ""
     \/ StoiNumber(text) \notin MinOf(t) .. MaxOf(t)
  THEN Stopped("false")
  ELSE Ok(t, StoiNumber(text))
StoiUnsigned(t, text, err) ==
  IF \/ text.negative
     \/ Extreme(t, text) /\ StoiErrno(t, text, err)
     \/ text.suffix # ""
     \/ text.magnitude > MaxOf(t)
  THEN Stopped("false")
  ELSE Ok(t, text.magnitude)
Stoi(t, text, err) ==
  IF IsSignedDataType(t) THEN StoiSigned(t, text, err) ELSE StoiUnsigned(t, text, err)

\* ParseGenericValue: the small types are read as an int and then bounded.
ParseSmall(t, text, err) ==
  LET read == Stoi("INT32", text, err)
  IN  IF t = "BOOL" THEN IF text \in {Text(0), Text(1)} THEN Ok(t, text.magnitude) ELSE Stopped("false")
      ELSE IF read.status = "ok" /\ read.value_ \in MinOf(t) .. MaxOf(t)
      THEN Ok(t, Store(t, read.value_)) ELSE Stopped("false")
ParseGenericValue(t, text, err) ==
  IF IsSmallDataType(t) THEN ParseSmall(t, text, err)
  ELSE LET read == Stoi(t, text, err) IN IF read.status = "ok" THEN Ok(t, read.value_) ELSE read
ReadAs(t) == IF t = "BOOL" THEN "BOOL" ELSE IF IsSmallDataType(t) THEN "INT32" ELSE t

\* ParseIfInteger on a number with a type suffix ...
ParseSuffixed(t, negative, x) ==
  LET bound == CASE t = "INT32" -> MaxOf("INT64")
                 [] t = "UINT32" -> MaxOf("UINT64")
                 [] OTHER -> MaxOf(t)
  IN  IF x > bound THEN Stopped("false")
      ELSE IF t = "INT2" THEN Ok(t, IF x = 0 THEN 0 ELSE -1)
      ELSE Ok(t, Store(t, IF negative THEN - Store(t, x) ELSE Store(t, x)))
\* ... and without one: the narrowest type, with LONG_MAX as the bound of 32 bits.
ParseNarrowest(negative, x) ==
  LET bound(t) == IF Nominal(t) = 32 THEN MaxOf(Limit(t)) ELSE MaxOf(t)
      fit == {t \in IF negative THEN SignedTypes ELSE UnsignedTypes \ {"SLICE"} : x <= bound(t)}
      t == CHOOSE u \in fit : \A w \in fit : Nominal(u) <= Nominal(w)
  IN  Ok(t, Store(t, IF negative THEN - x ELSE x))
ParseIfInteger(text, err) ==
  LET read == Stoi("UINT64", [negative |-> FALSE, magnitude |-> text.magnitude, suffix |-> ""], err)
  IN  CASE text.suffix \in UnsignedTypes /\ text.negative -> Stopped("false")
        [] read.status # "ok" -> Stopped("false")
        [] text.negative /\ text.magnitude > MaxOf("INT64") -> Stopped("false")
        [] text.suffix # "" -> ParseSuffixed(text.suffix, text.negative, text.magnitude)
        [] OTHER -> ParseNarrowest(text.negative, text.magnitude)
=============================================================================
