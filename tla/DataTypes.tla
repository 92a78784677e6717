------------------------------ MODULE DataTypes ------------------------------
(***************************************************************************)
(* Util/data_structures: DataType and GenericValue, the typed values that  *)
(* circuits and queries compute with.  A GenericValue is a record: the     *)
(* value_ of an integer type is an integer, of a STRING type a sequence of *)
(* bytes, of DOUBLE a number of halves, of VECTOR a sequence of values.    *)
(* The widths are constants, so that TLC can use narrow ones; everything   *)
(* the code writes as a literal (7, -8, SCHAR_MAX, 16) follows from them.  *)
(* Overlapping CASE arms are read in order, as the code's if-else chains.  *)
(***************************************************************************)
EXTENDS Integers, Sequences, FiniteSetsExt

CONSTANTS
  CharBit,    \* CHAR_BIT
  Width,      \* bits of 2-, 4-, 8-, 16-, 32- and 64-bit integers, by name
  Capacity    \* the capacities of the STRING types, by name, in bytes

ASSUME WidthAssumption ==
  /\ CharBit \in Nat /\ Width \in [{2, 4, 8, 16, 32, 64} -> Nat]
  /\ 1 < Width[2] /\ Width[2] < Width[4] /\ 2 * (2 ^ Width[4] - 1) < 2 ^ (CharBit - 1)
  /\ Width[8] = CharBit
  /\ \A n \in {16, 32, 64} : Width[n] % CharBit = 0 /\ Width[n] > Width[n \div 2]

StringTypes == {"STRING8", "STRING16", "STRING24", "STRING32", "STRING64", "STRING128"}
SignedTypes == {"INT2", "INT4", "INT8", "INT16", "INT32", "INT64"}
UnsignedTypes ==
  {"BOOL", "UINT2", "UINT4", "UINT8", "UINT16", "UINT32", "UINT64", "SLICE"}

IsStringDataType(t) == t \in StringTypes
IsDataTypeTwosComplement(t) == t \in SignedTypes
IsIntegerDataType(t) == t \in SignedTypes \cup UnsignedTypes
IsSignedDataType(t) == t \in SignedTypes \cup {"DOUBLE"}
IsSmallDataType(t) == t \in {"BOOL", "INT2", "UINT2", "INT4", "UINT4"}

\* The integer type of each (sign, nominal width), and back.
Nominal(t) ==
  CASE t = "BOOL" -> 1
    [] t \in {"INT2", "UINT2"} -> 2
    [] t \in {"INT4", "UINT4"} -> 4
    [] t \in {"INT8", "UINT8"} -> 8
    [] t \in {"INT16", "UINT16"} -> 16
    [] t \in {"INT32", "UINT32"} -> 32
    [] OTHER -> 64
TypeOfWidth(signed, n) ==
  IF n = 1 THEN "BOOL"
  ELSE CHOOSE t \in IF signed THEN SignedTypes ELSE UnsignedTypes \ {"BOOL", "SLICE"} :
         Nominal(t) = n

\* GetValueNumBits and GetValueNumBytes of a type.
TypeNumBits(t) ==
  CASE t = "UNKNOWN" -> 0
    [] IsStringDataType(t) -> Capacity[t] * CharBit
    [] t = "BOOL" -> 1
    [] t = "DOUBLE" -> Width[64]
    [] OTHER -> Width[Nominal(t)]
TypeNumBytes(t) ==
  CASE t = "UNKNOWN" -> 0
    [] IsStringDataType(t) -> Capacity[t]
    [] IsSmallDataType(t) -> 1
    [] OTHER -> TypeNumBits(t) \div CharBit

GetValueNumBits(v) ==
  IF v.type_ = "VECTOR"
  THEN MapThenSumSet(LAMBDA i : TypeNumBits(v.value_[i].type_), DOMAIN v.value_)
  ELSE TypeNumBits(v.type_)

IsDataTypeSubType(subtype, parent) ==
  /\ TypeNumBits(subtype) <= TypeNumBits(parent)
  /\ IsDataTypeTwosComplement(subtype) => IsDataTypeTwosComplement(parent)

\* The narrowest integer type of at least the given number of bits.
GetIntegerDataType(signed, bits) ==
  IF bits = 1 THEN "BOOL"
  ELSE LET fit == {n \in DOMAIN Width : bits <= Width[n]}
       IN  IF fit = {} THEN "UNKNOWN" ELSE TypeOfWidth(signed, Min(fit))

-----------------------------------------------------------------------------
(* Conversions of C integers, and the values a type may hold.              *)

Unsigned(w, x) == x % 2 ^ w
Signed(w, x) == ((x + 2 ^ (w - 1)) % 2 ^ w) - 2 ^ (w - 1)

\* The product modulo 2^w; the split keeps every intermediate below 2^(3w/2).
Times(w, x, y) ==
  LET h == 2 ^ (w \div 2)
      u == Unsigned(w, x)
      v == Unsigned(w, y)
  IN  (u * (v % h) + ((u * (v \div h)) % 2 ^ (w - w \div 2)) * h) % 2 ^ w

\* Types of 2 and 4 bits are held in a char, which can hold more than the type.
HolderBits(t) == Max({CharBit, TypeNumBits(t)})
Store(t, x) ==
  CASE t = "BOOL" -> IF x = 0 THEN 0 ELSE 1
    [] IsDataTypeTwosComplement(t) -> Signed(HolderBits(t), x)
    [] OTHER -> Unsigned(HolderBits(t), x)

MinOf(t) == IF IsDataTypeTwosComplement(t) THEN - 2 ^ (TypeNumBits(t) - 1) ELSE 0
MaxOf(t) ==
  IF IsDataTypeTwosComplement(t) THEN 2 ^ (TypeNumBits(t) - 1) - 1 ELSE 2 ^ TypeNumBits(t) - 1
InRange(v) == v.value_ \in MinOf(v.type_) .. MaxOf(v.type_)

(* What an operation returns: a value, false, log_fatal, a hardware trap   *)
(* (the quotient of the most negative number by -1), or a conversion that  *)
(* the language leaves undefined (a double outside the target's range).    *)
Value(t, x) == [type_ |-> t, value_ |-> x]
Ok(t, x) == [status |-> "ok", type_ |-> t, value_ |-> x]
OkValue(v) == Ok(v.type_, v.value_)
Stopped(why) == [status |-> why]

(* GenericValue(type, int64_t): LONG_MAX bounds the 32-bit types, so a wider   *)
(* number passes the check and is cut.                                     *)
CheckedMax(t) ==
  CASE t = "INT32" -> MaxOf("INT64")
    [] t \in {"UINT32", "SLICE"} -> MaxOf("UINT64")
    [] OTHER -> MaxOf(t)
GenericValueSigned(t, x) ==
  IF ~IsIntegerDataType(t) \/ x > CheckedMax(t) \/ x < (IF t = "INT32" THEN MinOf("INT64") ELSE MinOf(t))
  THEN Stopped("fatal")
  ELSE Ok(t, Store(t, x))
GenericValueUnsigned(t, x) ==
  IF ~IsIntegerDataType(t) \/ x > CheckedMax(t) THEN Stopped("fatal") ELSE Ok(t, Store(t, x))

\* SetStringGenericValue: the smallest STRING type the bytes fit.
SetStringGenericValue(bytes) ==
  LET fit == {t \in StringTypes : Len(bytes) <= Capacity[t]}
  IN  IF fit = {} THEN Stopped("fatal")
      ELSE Ok(CHOOSE t \in fit : \A u \in fit : Capacity[t] <= Capacity[u], bytes)

\* The readings of an integer; where a reading is refused the function returns false.
HasSignedIntegerValue(v) ==
  IsIntegerDataType(v.type_) /\ v.type_ \notin {"UINT64", "SLICE"}
HasUnsignedIntegerValue(v) ==
  IsIntegerDataType(v.type_) /\ v.type_ # "SLICE" /\ v.value_ >= 0
HasIntegerValue(v) ==
  IsIntegerDataType(v.type_) /\ v.type_ # "SLICE"
=============================================================================
