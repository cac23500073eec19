-------------------------- MODULE VariantArithmetic --------------------------
(***************************************************************************)
(* The operators on integer variants.  All that depends on a type is its   *)
(* range and how it is computed with, so a type is its kind: signed types  *)
(* narrower than int and unsigned types narrower than intmax_t, whose      *)
(* results are exact, or wrap, until they are converted back, and long,    *)
(* the type of Integer elements, whose overflow is undefined.  The second  *)
(* operand of a product or quotient is an intmax_t.                        *)
(***************************************************************************)
EXTENDS Integers

CONSTANTS
  Half,   \* the size of a type's negative range
  Exact   \* a double holds every integer up to here

ASSUME WidthAssumption == Half \in Nat \ {0} /\ Exact \in Nat

Kinds == {"signed", "unsigned", "long"}

MinValue(kind) == IF kind = "unsigned" THEN 0 ELSE - Half

MaxValue(kind) == MinValue(kind) + 2 * Half - 1

Values(kind) == MinValue(kind) .. MaxValue(kind)

\* An integer converted to the type.
Convert(kind, x) == MinValue(kind) + ((x - MinValue(kind)) % (2 * Half))

\* A result that a long does not hold is undefined: the build computes some
\* value, which may depend on how it was optimized.
Undefined(kind, x) == kind = "long" /\ x \notin Values(kind)

\* Mutation: the rounded product or quotient is not converted.
RoundOnly(kind, x) == {x}

\* round() goes through a double.  The conversion back is undefined out of
\* range, and how far a long beyond Exact is off is left open.
ConvertRounded(kind, x) ==
  IF x \in Values(kind) /\ (kind = "long" => x \in - Exact .. Exact)
    THEN {x} ELSE Values(kind)

Abs(x) == IF x < 0 THEN - x ELSE x

\* Integer division truncates.
Quotient(x, y) ==
  LET q == Abs(x) \div Abs(y) IN IF x < 0 <=> y < 0 THEN q ELSE - q

-----------------------------------------------------------------------------
\* The least long divided by -1, in a test before a product or in a quotient,
\* ends the process.
ProductTraps(kind, x, y) ==
  /\ kind = "long"
  /\ \/ y = -1 /\ x # 0
     \/ x = -1 /\ y > 0

QuotientTraps(kind, x, y) == kind = "long" /\ x = MinValue(kind) /\ y = -1

\* The tests before a product.
Overflows(kind, x, y) ==
  \/ x > 0 /\ y > 0 /\ x > Quotient(MaxValue(kind), y)
  \/ x < 0 /\ y < 0 /\ x < Quotient(MinValue(kind), y)

Underflows(kind, x, y) ==
  \/ x < 0 /\ y > 0 /\ y < Quotient(MinValue(kind), x)
  \/ x > 0 /\ y < 0 /\ x < Quotient(MinValue(kind), y)

Products(kind, x, y) ==
  IF Overflows(kind, x, y) THEN {MaxValue(kind)}
  ELSE IF Underflows(kind, x, y) THEN {MinValue(kind)}
  ELSE ConvertRounded(kind, x * y)

Quotients(kind, x, y) ==
  IF kind = "long" /\ x = -1 /\ y = MinValue(kind) THEN {MaxValue(kind)}
  ELSE ConvertRounded(kind, Quotient(x, y))

SumUnsigned(kind, x, y) ==
  IF Undefined(kind, x + y) THEN Values(kind)
  ELSE IF x + y < x THEN {MaxValue(kind)}
  ELSE {Convert(kind, x + y)}

SumSigned(kind, x, y) ==
  IF x > MaxValue(kind) - y THEN {MaxValue(kind)}
  ELSE IF x < MinValue(kind) + y THEN {MinValue(kind)}
  ELSE {Convert(kind, x + y)}

\* The dispatch takes the one named for unsigned types on signed ones.
Sums(kind, x, y) ==
  IF kind = "unsigned" THEN SumSigned(kind, x, y) ELSE SumUnsigned(kind, x, y)

\* Mutation: an unsigned difference below zero wraps around.
UnsignedDiffWrapping(kind, x, y) == {Convert(kind, x - y)}

NumericUnsignedDiff(kind, x, y) ==
  {IF x < y THEN MinValue(kind) ELSE Convert(kind, x - y)}

\* Mutation: a difference that just passes the test counts as an overflow.
SignedDiffTooEarly(kind, x, y) ==
  IF Undefined(kind, MaxValue(kind) - y) THEN Values(kind)
  ELSE IF x >= MaxValue(kind) - y THEN {MaxValue(kind)}
  ELSE IF x < MinValue(kind) + y THEN {MinValue(kind)}
  ELSE {Convert(kind, x - y)}

NumericSignedDiff(kind, x, y) ==
  IF Undefined(kind, MaxValue(kind) - y) THEN Values(kind)
  ELSE IF x > MaxValue(kind) - y THEN {MaxValue(kind)}
  ELSE IF x < MinValue(kind) + y THEN {MinValue(kind)}
  ELSE {Convert(kind, x - y)}

Differences(kind, x, y) ==
  IF kind = "unsigned" THEN NumericUnsignedDiff(kind, x, y)
                       ELSE NumericSignedDiff(kind, x, y)
=============================================================================
