--------------------------- MODULE ScalarConversion ---------------------------
(***************************************************************************)
(* convertScalar of config_node.hpp and ConfigValue::of of                 *)
(* config_value.hpp.  Numbers are exact, in units of 1/Unit.  Int is       *)
(* IntBits wide; a floating-point format is the finite set of numbers with *)
(* its precision and exponents, and conversions into it round to nearest,  *)
(* ties to even.  As in the program, the largest Int is not a Double, so   *)
(* that converting it rounds up to the first number above the range.  A    *)
(* cast of a number outside its target's range is undefined behaviour.     *)
(***************************************************************************)
EXTENDS Integers, FiniteSets, FiniteSetsExt

CONSTANTS Unit,     \* one, in the unit of all numbers
          IntBits,  \* the width of std::int64_t
          Formats   \* precision and exponents of float, double and long double

Pow2(n) == 2^n

Bounds(bits, signed) == IF signed THEN <<-Pow2(bits - 1), Pow2(bits - 1) - 1>>
                                  ELSE <<0, Pow2(bits) - 1>>

\* The finite numbers of a floating-point format.
Grid(F) == {s * m * Pow2(e) : s \in {-1, 1}, m \in 0..Pow2(Formats[F].precision) - 1,
                              e \in Formats[F].min..Formats[F].max}

Grids == [F \in DOMAIN Formats |-> Grid(F)]

Largest(F) == Max(Grids[F])

\* -2^63 and 2^63, and 2^64 for the unsigned targets.
KInt64Lo == -(Pow2(IntBits - 1) * Unit)
KInt64Hi == Pow2(IntBits - 1) * Unit
KUint64Hi == Pow2(IntBits) * Unit

\* The unit is a power of two, as the precisions are counted in bits, and no
\* number needs a finer one.
ASSUME NumberAssumption ==
  /\ IntBits \in Nat \ {0}
  /\ Unit \in Nat /\ \E k \in 0..Unit : Unit = Pow2(k)
  /\ Formats \in [{"float", "double", "long double"} ->
                   [precision : Nat \ {0}, min : Nat, max : Nat]]

\* What the conversions rely on: a float is a double and a double a long
\* double, and Int's limits are values of every format.  The largest Int is
\* not a double.
ASSUME ScalarAssumption ==
  /\ Grids["float"] \subseteq Grids["double"]
  /\ Grids["double"] \subseteq Grids["long double"]
  /\ \A F \in DOMAIN Formats : {KInt64Lo, KInt64Hi, KUint64Hi} \subseteq Grids[F]
  /\ KInt64Hi - Unit \notin Grids["double"]

\* A floating-point value: finite, or one of the others, with its number.
Finite(x) == [class |-> "finite", num |-> x]
Special(c) == [class |-> c, num |-> 0]
NegativeZero == Special("-0")
Infinities == {Special("inf"), Special("-inf")}
NaN == Special("nan")

Values(F) == {Finite(x) : x \in Grids[F]} \cup Infinities \cup {NaN, NegativeZero}

IsFinite(v) == v.class \in {"finite", "-0"}

\* The target types: Bool, String, integers of some width, the formats.
IntegerType(bits, signed) == [kind |-> "integer", bits |-> bits, signed |-> signed]
FloatType(F) == [kind |-> "float", format |-> F]
BoolType == [kind |-> "bool"]
StringType == [kind |-> "string"]

\* A scalar is its type and its value.
Scalar(type, v) == [type |-> type, value |-> v]

Ok(v) == [code |-> "Ok", value |-> v]
InvalidType == [code |-> "InvalidType"]
Undefined == [code |-> "undefined behaviour"]
-------------------------------------------------------------------------------
(***************************************************************************)
(* The language's conversions.                                             *)
(***************************************************************************)
\* Rounding a number within the format's range.
Round(F, x) ==
  LET below == Max({g \in Grids[F] : g <= x})
      above == Min({g \in Grids[F] : g >= x})
      Magnitude(n) == IF n < 0 THEN -n ELSE n
      Even(g) == (Magnitude(g) \div (above - below)) % 2 = 0
  IN  IF below = above THEN x
      ELSE IF x - below # above - x
           THEN IF x - below < above - x THEN below ELSE above
           ELSE IF Even(below) THEN below ELSE above

Truncate(x) == (IF x < 0 THEN -((-x) \div Unit) ELSE x \div Unit) * Unit

InRange(x, bits, signed) ==
  Unit * Bounds(bits, signed)[1] <= x /\ x <= Unit * Bounds(bits, signed)[2]

\* static_cast of a finite number to the widest integer of a signedness.
CastToInteger(x, signed) ==
  IF InRange(Truncate(x), IntBits, signed) THEN Ok(Truncate(x)) ELSE Undefined
-------------------------------------------------------------------------------
(***************************************************************************)
(* convertScalar.                                                          *)
(***************************************************************************)
FitsInt(T, x) ==
  IF T.signed THEN InRange(x, T.bits, TRUE)
              ELSE x >= 0 /\ x <= Unit * Bounds(T.bits, FALSE)[2]

\* The double, if it is an integer of type T.
DoubleToInteger(T, v) ==
  LET guard    == /\ IsFinite(v)
                  /\ IF T.signed THEN KInt64Lo <= v.num /\ v.num < KInt64Hi
                                 ELSE 0 <= v.num /\ v.num < KUint64Hi
      integral == CastToInteger(v.num, T.signed)
  IN  IF ~guard THEN InvalidType
      ELSE IF integral = Undefined THEN Undefined
      ELSE IF Round("double", integral.value) = v.num /\ FitsInt(T, integral.value)
           THEN integral ELSE InvalidType

\* The double in format F.
DoubleToFloat(F, v) ==
  IF F = "double" \/ v = NaN THEN Ok(v)
  ELSE IF IsFinite(v) /\ (v.num < -Largest(F) \/ v.num > Largest(F)) THEN InvalidType
  ELSE IF v.class # "finite" \/ Round(F, v.num) = v.num THEN Ok(v)
  ELSE InvalidType

\* Mutant: the range is tested with the largest Int, which rounds up.
IntToFloat_Inclusive(F, x) ==
  LET converted == Round(F, x)
  IN  IF converted >= Round(F, KInt64Lo) /\ converted <= Round(F, KInt64Hi - Unit)
      THEN IF CastToInteger(converted, TRUE) \in {Ok(x), Undefined}
           THEN Ok(Finite(converted)) ELSE InvalidType
      ELSE InvalidType

\* The Int in format F.
IntToFloat(F, x) ==
  LET converted == Round(F, x)
      back      == CastToInteger(converted, TRUE)
  IN  IF ~(converted >= Round(F, KInt64Lo) /\ converted < Round(F, KInt64Hi))
      THEN InvalidType
      ELSE IF back = Undefined THEN Undefined
      ELSE IF back = Ok(x) THEN Ok(Finite(converted)) ELSE InvalidType

ConvertScalar(T, s) ==
  CASE T.kind = "bool"    -> IF s.type = "Bool" THEN Ok(s.value) ELSE InvalidType
    [] T.kind = "string"  -> IF s.type = "String" THEN Ok(s.value) ELSE InvalidType
    [] T.kind = "integer" ->
         CASE s.type = "Int"    -> IF FitsInt(T, s.value) THEN Ok(s.value) ELSE InvalidType
           [] s.type = "Double" -> DoubleToInteger(T, s.value)
           [] OTHER             -> InvalidType
    [] T.kind = "float"   ->
         CASE s.type = "Double" -> DoubleToFloat(T.format, s.value)
           [] s.type = "Int"    -> IntToFloat(T.format, s.value)
           [] OTHER             -> InvalidType
-------------------------------------------------------------------------------
(***************************************************************************)
(* ConfigValue::of, and ConfigModel::set<T> in front of it.                *)
(***************************************************************************)
\* The cast to std::int64_t keeps the low bits.
Wrap(x) == ((x + KInt64Hi) % KUint64Hi) - KInt64Hi

\* An unsigned integer beyond Int's range, or a null C string.
OfPreconditionViolation(T, v) ==
  \/ T.kind = "integer" /\ ~T.signed /\ v > Unit * Bounds(IntBits, TRUE)[2]
  \/ T.kind = "string" /\ v = "null"

Of(T, v) ==
  IF OfPreconditionViolation(T, v) THEN [code |-> "throws"]
  ELSE CASE T.kind = "bool"    -> Ok(Scalar("Bool", v))
         [] T.kind = "integer" -> Ok(Scalar("Int", Wrap(v)))
         [] T.kind = "float"   -> Ok(Scalar("Double", v))
         [] T.kind = "string"  -> Ok(Scalar("String", v))

\* The value ConfigModel::set<T> stores: a violation is an error, never a throw.
SetScalar(T, v) == IF OfPreconditionViolation(T, v) THEN InvalidType ELSE Of(T, v)
-------------------------------------------------------------------------------
(***************************************************************************)
(* What the comment on convertScalar promises, stated on exact values.     *)
(***************************************************************************)
\* The values of a target type that are the scalar's own value.
SameValue(T, s) ==
  CASE T.kind = "bool" /\ s.type = "Bool"       -> {s.value}
    [] T.kind = "string" /\ s.type = "String"   -> {s.value}
    [] T.kind = "integer" /\ s.type = "Int"     ->
         {s.value} \cap {Unit * n : n \in Bounds(T.bits, T.signed)[1]..Bounds(T.bits, T.signed)[2]}
    [] T.kind = "integer" /\ s.type = "Double"  ->
         {Unit * n : n \in {k \in Bounds(T.bits, T.signed)[1]..Bounds(T.bits, T.signed)[2] :
                              IsFinite(s.value) /\ Unit * k = s.value.num}}
    [] T.kind = "float" /\ s.type = "Double"    -> {s.value} \cap Values(T.format)
    [] T.kind = "float" /\ s.type = "Int"       ->
         {Finite(x) : x \in {s.value} \cap Grids[T.format]}
    [] OTHER                                    -> {}
===============================================================================
