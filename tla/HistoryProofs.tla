---------------------------- MODULE HistoryProofs ----------------------------
(***************************************************************************)
(* What a history read answers, for every width of the integers, every     *)
(* time and every number of nodes, times and rows.                         *)
(***************************************************************************)
EXTENDS HistoryRead, TLAPS

LEMMA DivisionFacts ==
  ASSUME NEW a \in Int, NEW n \in Nat \ {0}
  PROVE  /\ a \div n \in Int /\ a % n \in 0 .. n - 1
         /\ a = n * (a \div n) + (a % n)
BY SMTT(30)

LEMMA ProductIsMonotone ==
  ASSUME NEW a \in Int, NEW b \in Int, NEW n \in Nat, a <= b
  PROVE  n * a <= n * b
BY SMTT(30)

LEMMA QuotientIsBounded ==
  ASSUME NEW a \in Int, NEW b \in Int, NEW n \in Nat \ {0}, a <= n * b
  PROVE  a \div n <= b
<1>1. /\ a \div n \in Int /\ a % n \in 0 .. n - 1
      /\ a = n * (a \div n) + (a % n)
  BY DivisionFacts
<1>2. SUFFICES ASSUME b + 1 <= a \div n PROVE FALSE
  BY <1>1
<1>3. n * (b + 1) <= n * (a \div n)
  BY <1>1, <1>2, ProductIsMonotone
<1>4. n * (b + 1) = n * b + n
  OBVIOUS
<1> QED BY <1>1, <1>3, <1>4

LEMMA QuotientIsNatural ==
  ASSUME NEW a \in Nat, NEW n \in Nat \ {0}
  PROVE  a \div n \in 0 .. a
<1>1. /\ a \div n \in Int /\ a % n \in 0 .. n - 1
      /\ a = n * (a \div n) + (a % n)
  BY DivisionFacts
<1>2. n * (a \div n) > - n
  BY <1>1
<1>3. a \div n >= 0
  <2>1. SUFFICES ASSUME a \div n <= -1 PROVE FALSE
    BY <1>1
  <2>2. n * (a \div n) <= n * (-1)
    BY <1>1, <2>1, ProductIsMonotone
  <2> QED BY <1>2, <2>2
<1>4. a <= n * a
  <2>1. CASE a = 0
    BY <2>1
  <2>2. a * 1 <= a * n
    BY ProductIsMonotone
  <2> QED BY <2>2
<1> QED BY <1>1, <1>3, <1>4, QuotientIsBounded

\* A factor that passes the overflow test gives a product in range.
LEMMA FactorIsBounded ==
  ASSUME NEW a \in Int, NEW n \in Nat \ {0}, NEW b \in Int, b <= a \div n
  PROVE  n * b <= a
BY DivisionFacts, ProductIsMonotone, SMTT(30)

LEMMA BoundedFactor ==
  ASSUME NEW a \in Int, NEW n \in Nat \ {0}, NEW b \in Int, n * b <= a
  PROVE  b <= a \div n
<1>1. /\ a \div n \in Int /\ a % n \in 0 .. n - 1
      /\ a = n * (a \div n) + (a % n)
  BY DivisionFacts
<1>2. SUFFICES ASSUME a \div n <= b - 1 PROVE FALSE
  BY <1>1
<1>3. n * (a \div n) <= n * (b - 1)
  BY <1>1, <1>2, ProductIsMonotone
<1>4. n * (b - 1) = n * b - n
  OBVIOUS
<1> QED BY <1>1, <1>3, <1>4

LEMMA QuotientOfNaturals ==
  ASSUME NEW x \in Nat, NEW y \in Nat \ {0}
  PROVE  Quotient(x, y) = x \div y /\ x \div y \in 0 .. x
<1>1. Abs(x) = x /\ Abs(y) = y
  BY DEF Abs
<1> QED BY <1>1, QuotientIsNatural DEF Quotient

LEMMA RemainderOfItself ==
  ASSUME NEW n \in Nat \ {0}, NEW a \in 0 .. n - 1
  PROVE  a % n = a
BY SMTT(30)

-----------------------------------------------------------------------------
(* The types' ranges *)

LEMMA Ranges ==
  ASSUME NEW k \in Kinds
  PROVE  /\ MinValue(k) \in Int /\ MaxValue(k) \in Nat
         /\ MinValue(k) <= 0 /\ MaxValue(k) = MinValue(k) + 2 * Half - 1
         /\ Values(k) \subseteq Int /\ Values(k) = MinValue(k) .. MaxValue(k)
         /\ 0 \in Values(k)
BY WidthAssumption DEF Kinds, MinValue, MaxValue, Values

LEMMA ConvertedIsValue ==
  ASSUME NEW k \in Kinds, NEW x \in Int
  PROVE  Convert(k, x) \in Values(k)
<1>1. x - MinValue(k) \in Int /\ 2 * Half \in Nat \ {0}
  BY Ranges, WidthAssumption
<1>2. (x - MinValue(k)) % (2 * Half) \in 0 .. 2 * Half - 1
  BY <1>1, DivisionFacts
<1> QED BY <1>2, Ranges, WidthAssumption DEF Convert

\* A value survives the conversion to its type.
LEMMA ValueIsKept ==
  ASSUME NEW k \in Kinds, NEW x \in Values(k)
  PROVE  Convert(k, x) = x
<1>1. x - MinValue(k) \in 0 .. 2 * Half - 1 /\ 2 * Half \in Nat \ {0}
  BY Ranges, WidthAssumption
<1>2. (x - MinValue(k)) % (2 * Half) = x - MinValue(k)
  BY <1>1, RemainderOfItself
<1> QED BY <1>2, Ranges DEF Convert

LEMMA RoundedIsValue ==
  ASSUME NEW k \in Kinds, NEW x \in Int
  PROVE  ConvertRounded(k, x) \subseteq Values(k)
BY DEF ConvertRounded

LEMMA QuotientIsInteger ==
  ASSUME NEW x \in Int, NEW y \in Int \ {0}
  PROVE  Quotient(x, y) \in Int
<1>1. Abs(x) \in Nat /\ Abs(y) \in Nat \ {0}
  BY DEF Abs
<1>2. Abs(x) \div Abs(y) \in Int
  BY <1>1, DivisionFacts
<1> DEFINE q == Abs(x) \div Abs(y)
<1>3. Quotient(x, y) = q \/ Quotient(x, y) = - q
  BY DEF Quotient
<1> HIDE DEF q
<1> QED BY <1>2, <1>3 DEF q

\* Whatever the operands, each operator's result is of the type.
LEMMA ResultsAreValues ==
  ASSUME NEW k \in Kinds, NEW x \in Values(k), NEW y \in Int
  PROVE  /\ Products(k, x, y) \subseteq Values(k)
         /\ y # 0 => Quotients(k, x, y) \subseteq Values(k)
         /\ y \in Values(k) => Sums(k, x, y) \subseteq Values(k)
         /\ y \in Values(k) => Differences(k, x, y) \subseteq Values(k)
<1>1. /\ MinValue(k) \in Values(k) /\ MaxValue(k) \in Values(k)
      /\ x \in Int
  BY Ranges
<1>2. Products(k, x, y) \subseteq Values(k)
  BY <1>1, RoundedIsValue DEF Products
<1>3. y # 0 => Quotients(k, x, y) \subseteq Values(k)
  BY <1>1, RoundedIsValue, QuotientIsInteger DEF Quotients
<1>4. Sums(k, x, y) \subseteq Values(k)
  BY <1>1, ConvertedIsValue DEF Sums, SumSigned, SumUnsigned
<1>5. Differences(k, x, y) \subseteq Values(k)
  BY <1>1, ConvertedIsValue DEF Differences, NumericSignedDiff, NumericUnsignedDiff
<1> QED BY <1>2, <1>3, <1>4, <1>5

-----------------------------------------------------------------------------
(* The range the formula can be trusted in *)

\* A product that no test sends elsewhere, and that a double holds.
LEMMA ProductIsExact ==
  ASSUME NEW k \in Kinds, NEW x \in Nat, NEW y \in Nat,
         x * y <= MaxValue(k), k = "long" => x * y <= Exact
  PROVE  /\ ~ ProductTraps(k, x, y)
         /\ Products(k, x, y) = {x * y}
<1>1. ~ Overflows(k, x, y)
  <2>1. SUFFICES ASSUME x > 0, y > 0 PROVE ~ (x > Quotient(MaxValue(k), y))
    BY DEF Overflows
  <2>2. MaxValue(k) \in Nat /\ y \in Nat \ {0} /\ y * x <= MaxValue(k)
    BY <2>1, Ranges
  <2>3. /\ Quotient(MaxValue(k), y) = MaxValue(k) \div y
        /\ MaxValue(k) \div y \in 0 .. MaxValue(k)
    BY <2>2, QuotientOfNaturals
  <2>4. x <= MaxValue(k) \div y
    BY <2>2, BoundedFactor
  <2> QED BY <2>2, <2>3, <2>4
<1>2. ~ Underflows(k, x, y)
  BY DEF Underflows
<1>3. x * y \in Nat
  BY SMTT(30)
<1>4. x * y \in Values(k) /\ (k = "long" => x * y \in - Exact .. Exact)
  BY <1>3, Ranges, WidthAssumption
<1> QED BY <1>1, <1>2, <1>4 DEF Products, ConvertRounded, ProductTraps

LEMMA QuotientIsExact ==
  ASSUME NEW k \in Kinds, NEW x \in Values(k), x >= 0, NEW y \in Nat \ {0},
         k = "long" => x <= Exact
  PROVE  /\ ~ QuotientTraps(k, x, y)
         /\ Quotients(k, x, y) = {x \div y}
<1>1. x \in Nat
  BY Ranges
<1>2. Quotient(x, y) = x \div y /\ x \div y \in 0 .. x
  BY <1>1, QuotientOfNaturals
<1>3. x \div y \in Values(k) /\ (k = "long" => x \div y \in - Exact .. Exact)
  BY <1>1, <1>2, Ranges, WidthAssumption
<1> QED BY <1>1, <1>2, <1>3 DEF Quotients, ConvertRounded, QuotientTraps

LEMMA DifferenceIsExact ==
  ASSUME NEW k \in {"signed", "long"}, NEW x \in Values(k), NEW y \in Values(k),
         0 <= y, y <= x, x + y <= MaxValue(k)
  PROVE  Differences(k, x, y) = {x - y}
<1>1. k \in Kinds /\ MinValue(k) = - Half /\ MaxValue(k) = Half - 1
  BY WidthAssumption DEF Kinds, MinValue, MaxValue
<1>2. x \in Int /\ y \in Int /\ x <= Half - 1
  BY <1>1, Ranges
<1>3. MaxValue(k) - y \in Values(k) /\ x - y \in Values(k)
  BY <1>1, <1>2, Ranges, WidthAssumption
<1>4. ~ (x > MaxValue(k) - y) /\ ~ (x < MinValue(k) + y)
  BY <1>1, <1>2, WidthAssumption
<1> QED BY <1>1, <1>3, <1>4, ValueIsKept
        DEF Differences, NumericSignedDiff, Undefined

LEMMA SumIsExact ==
  ASSUME NEW k \in {"signed", "long"}, NEW x \in Nat, NEW y \in Nat,
         x + y <= MaxValue(k)
  PROVE  Sums(k, x, y) = {x + y}
<1>1. k \in Kinds
  BY DEF Kinds
<1>2. x + y \in Values(k) /\ ~ (x + y < x)
  BY <1>1, Ranges
<1> QED BY <1>1, <1>2, ValueIsKept DEF Sums, SumUnsigned, Undefined

-----------------------------------------------------------------------------
(* The steps of interpolateValues *)

LEMMA RequestStepsInterpolate ==
  ASSUME [HistoryNext]_historyVars
  PROVE  \/ BeginInterpolation \/ EndInterpolation \/ Interpolate
         \/ UNCHANGED interpolationVars
BY DEF HistoryNext, historyVars, AnswerRequest, ReadHistory, ReadHistoryOutOfMemory,
       ReadHistoryThrows, ReadExactly, ReadNearest, InterpolateValues,
       AppendInterpolated, ReadFails, RejectInputs, ExpandResult

LEMMA InterpolationTypeStep ==
  ASSUME InterpolationType, [HistoryNext]_historyVars
  PROVE  InterpolationType'
<1>1. /\ kind \in Kinds /\ value \in Values(kind)
      /\ before \in Values(kind) /\ after \in Values(kind)
      /\ weight \in Int /\ denominator \in Int
      /\ \A k \in Kinds : 0 \in Values(k) /\ Values(k) \subseteq Int
      /\ "long" \in Kinds
  BY TimesAssumption, Ranges DEF InterpolationType, Kinds
<1>2. CASE BeginInterpolation
  BY <1>1, <1>2 DEF BeginInterpolation, InterpolationType
<1>3. CASE EndInterpolation
  BY <1>1, <1>3 DEF EndInterpolation, InterpolationType
<1>4. CASE Interpolate
  <2>1. CASE Subtract
    BY <1>1, <2>1, ResultsAreValues DEF Subtract, inputs, InterpolationType
  <2>2. CASE Multiply
    BY <1>1, <2>2, ResultsAreValues DEF Multiply, inputs, InterpolationType
  <2>3. CASE Divide
    BY <1>1, <2>3, ResultsAreValues DEF Divide, inputs, InterpolationType
  <2>4. CASE DivideByZero
    BY <2>4 DEF DivideByZero, inputs, InterpolationType
  <2>5. CASE Add
    BY <1>1, <2>5, ResultsAreValues DEF Add, inputs, InterpolationType
  <2> QED BY <1>4, <2>1, <2>2, <2>3, <2>4, <2>5 DEF Interpolate
<1>5. CASE UNCHANGED interpolationVars
  BY <1>5 DEF interpolationVars, inputs, InterpolationType
<1> QED BY <1>2, <1>3, <1>4, <1>5, RequestStepsInterpolate

LEMMA InterpolationTypeInit ==
  ASSUME InterpolationInit
  PROVE  InterpolationType
<1>1. "long" \in Kinds /\ 0 \in Values("long")
  BY Ranges DEF Kinds
<1> QED BY <1>1 DEF InterpolationInit, InterpolationType

\* SafeRangeIsExact, operator by operator.
SafeRangeInv ==
  InSafeRange =>
    /\ step # "trapped"
    /\ step = "multiply" => value = after - before
    /\ step = "divide" => value = (after - before) * weight
    /\ step = "add" => /\ denominator # 0
                      /\ value = ((after - before) * weight) \div denominator
    /\ step = "done" =>
         /\ denominator # 0
         /\ value = before + ((after - before) * weight) \div denominator

\* What the operands are in the range the formula can be trusted in.
LEMMA SafeOperands ==
  ASSUME InterpolationType, InSafeRange
  PROVE  /\ kind \in {"signed", "long"} /\ kind \in Kinds
         /\ before \in Nat /\ after \in Nat /\ after - before \in Nat
         /\ weight \in Nat /\ denominator \in Nat
         /\ (after - before) * weight \in Nat
         /\ (after - before) * weight \in Values(kind)
         /\ denominator # 0 =>
              ((after - before) * weight) \div denominator \in 0 .. after - before
<1>1. /\ kind \in Kinds /\ kind \in {"signed", "long"}
      /\ before \in Nat /\ after \in Nat /\ after - before \in Nat
      /\ weight \in Nat /\ denominator \in Nat /\ weight <= denominator
  <2>1. kind \in Kinds /\ weight \in Int /\ denominator \in Int
    BY TimesAssumption DEF InterpolationType
  <2>2. before \in Int /\ after \in Int
    BY <2>1, Ranges DEF InterpolationType
  <2> QED BY <2>1, <2>2 DEF InSafeRange, TimeIsBetween
<1> DEFINE d == after - before
<1>2. d * weight \in Nat
  BY <1>1, SMTT(30)
<1>3. d * weight \in Values(kind)
  BY <1>1, <1>2, Ranges DEF InSafeRange
<1>4. ASSUME denominator # 0
      PROVE  (d * weight) \div denominator \in 0 .. d
  <2>1. d \in Nat /\ denominator \in Nat \ {0}
    BY <1>1, <1>4
  <2> HIDE DEF d
  <2>2. d * weight <= d * denominator
    BY <1>1, <2>1, ProductIsMonotone
  <2>3. d * denominator = denominator * d
    BY <2>1
  <2>4. (d * weight) \div denominator <= d
    BY <1>2, <2>1, <2>2, <2>3, QuotientIsBounded
  <2> QED BY <1>2, <2>1, <2>4, QuotientIsNatural
<1> QED BY <1>1, <1>2, <1>3, <1>4

LEMMA SafeRangeStep ==
  ASSUME InterpolationType, SafeRangeInv, [HistoryNext]_historyVars
  PROVE  SafeRangeInv'
<1>1. CASE BeginInterpolation
  BY <1>1 DEF BeginInterpolation, SafeRangeInv
<1>2. CASE EndInterpolation
  BY <1>2 DEF EndInterpolation, SafeRangeInv
<1>3. CASE UNCHANGED interpolationVars
  BY <1>3 DEF interpolationVars, inputs, SafeRangeInv, InSafeRange, TimeIsBetween
<1>4. CASE Interpolate
  <2>1. UNCHANGED inputs
    BY <1>4 DEF Interpolate, Subtract, Multiply, Divide, DivideByZero, Add
  <2>2. InSafeRange' <=> InSafeRange
    BY <2>1 DEF inputs, InSafeRange, TimeIsBetween
  <2> SUFFICES ASSUME InSafeRange PROVE SafeRangeInv'
    BY <2>2 DEF SafeRangeInv
  <2>3. CASE Subtract
    <3>1. after \in Values(kind) /\ before \in Values(kind)
          /\ 0 <= before /\ before <= after /\ after + before <= MaxValue(kind)
      BY SafeOperands DEF InterpolationType, InSafeRange
    <3>2. Differences(kind, after, before) = {after - before}
      BY <3>1, SafeOperands, DifferenceIsExact
    <3> QED BY <2>1, <2>3, <3>2 DEF Subtract, inputs, SafeRangeInv
  <2>4. CASE Multiply
    <3>1. value = after - before
      BY <2>4 DEF Multiply, SafeRangeInv
    <3>2. value * weight <= MaxValue(kind) /\ (kind = "long" => value * weight <= Exact)
      BY <3>1 DEF InSafeRange
    <3>3. value \in Nat /\ weight \in Nat /\ kind \in Kinds
      BY <3>1, SafeOperands
    <3>4. ~ ProductTraps(kind, value, weight) /\ Products(kind, value, weight) = {value * weight}
      BY <3>2, <3>3, ProductIsExact
    <3> QED BY <2>1, <2>4, <3>1, <3>4 DEF Multiply, inputs, SafeRangeInv
  <2>5. CASE Divide
    <3>1. value = (after - before) * weight /\ denominator # 0
      BY <2>5 DEF Divide, SafeRangeInv
    <3>2. /\ value \in Values(kind) /\ value >= 0 /\ kind \in Kinds
          /\ denominator \in Nat \ {0} /\ (kind = "long" => value <= Exact)
      BY <3>1, SafeOperands DEF InSafeRange
    <3>3. /\ ~ QuotientTraps(kind, value, denominator)
          /\ Quotients(kind, value, denominator) = {value \div denominator}
      BY <3>2, QuotientIsExact
    <3> QED BY <2>1, <2>5, <3>1, <3>3 DEF Divide, inputs, SafeRangeInv
  <2>6. CASE DivideByZero
    BY <2>6 DEF DivideByZero, SafeRangeInv
  <2>7. CASE Add
    <3>1. denominator # 0 /\ value = ((after - before) * weight) \div denominator
      BY <2>7 DEF Add, SafeRangeInv
    <3>2. value \in 0 .. after - before /\ before \in Nat /\ after \in Nat
          /\ kind \in {"signed", "long"} /\ kind \in Kinds
      BY <3>1, SafeOperands
    <3>3. value + before <= MaxValue(kind)
      BY <3>2, Ranges DEF InSafeRange
    <3>4. Sums(kind, value, before) = {value + before}
      BY <3>2, <3>3, SumIsExact
    <3>5. value + before = before + value
      BY <3>2
    <3> QED BY <2>1, <2>7, <3>1, <3>4, <3>5 DEF Add, inputs, SafeRangeInv
  <2> QED BY <1>4, <2>3, <2>4, <2>5, <2>6, <2>7 DEF Interpolate
<1> QED BY <1>1, <1>2, <1>3, <1>4, RequestStepsInterpolate

(* The operators compute the formula step by step.                         *)
LEMMA SafeRangeInvariant == HistorySpec => [](InterpolationType /\ SafeRangeInv)
<1>1. HistoryInit => InterpolationType /\ SafeRangeInv
  BY InterpolationTypeInit DEF HistoryInit, InterpolationInit, SafeRangeInv
<1>2. InterpolationType /\ SafeRangeInv /\ [HistoryNext]_historyVars
        => (InterpolationType /\ SafeRangeInv)'
  BY InterpolationTypeStep, SafeRangeStep
<1> QED BY <1>1, <1>2, PTL DEF HistorySpec

(* Each operator is exact in the range that SafeRangeIsExact names, and no  *)
(* test ends the process there.                                            *)
THEOREM SafeRange == HistorySpec => [](InterpolationType /\ SafeRangeIsExact)
<1>1. SafeRangeInv => SafeRangeIsExact
  BY DEF SafeRangeInv, SafeRangeIsExact
<1> QED BY <1>1, SafeRangeInvariant, PTL

(* In that range the result is between the neighbours, which is what fails  *)
(* outside of it.                                                          *)
THEOREM SafeRangeIsBetween == HistorySpec => [](InSafeRange => InterpolationIsBetween)
<1>1. InterpolationType /\ SafeRangeInv /\ InSafeRange => InterpolationIsBetween
  <2> SUFFICES ASSUME InterpolationType, SafeRangeInv, InSafeRange, step = "done"
               PROVE  before <= value /\ value <= after
    BY DEF InterpolationIsBetween
  <2>1. value = before + ((after - before) * weight) \div denominator
    BY DEF SafeRangeInv
  <2>2. before \in Nat /\ after \in Nat
    BY SafeOperands
  <2>3. ((after - before) * weight) \div denominator \in 0 .. after - before
    BY SafeOperands DEF SafeRangeInv
  <2> QED BY <2>1, <2>2, <2>3
<1> QED BY <1>1, SafeRangeInvariant, PTL

-----------------------------------------------------------------------------
(* Unsigned types *)

\* The difference an unsigned type can hold.
Rise == IF after < before THEN 0 ELSE after - before

\* UnsignedStaysBelow, operator by operator.
BelowInv ==
  kind = "unsigned" /\ TimeIsBetween =>
    /\ step = "multiply" => value = Rise
    /\ step = "divide" => value <= weight * Rise
    /\ step = "add" => value <= Rise
    /\ step = "done" => value <= before \/ value <= after

LEMMA UnsignedOperands ==
  ASSUME InterpolationType, kind = "unsigned", TimeIsBetween
  PROVE  /\ kind \in Kinds /\ MinValue(kind) = 0 /\ MaxValue(kind) \in Nat
         /\ Values(kind) = 0 .. MaxValue(kind)
         /\ before \in Values(kind) /\ after \in Values(kind) /\ value \in Values(kind)
         /\ weight \in Nat /\ denominator \in Nat /\ Rise \in Nat
         /\ Rise \in Values(kind) /\ weight * Rise \in Nat
<1>1. kind \in Kinds /\ MinValue(kind) = 0 /\ MaxValue(kind) \in Nat
  BY Ranges DEF InterpolationType, MinValue
<1>2. Values(kind) = 0 .. MaxValue(kind)
  BY <1>1, Ranges
<1>3. before \in Values(kind) /\ after \in Values(kind) /\ value \in Values(kind)
  BY DEF InterpolationType
<1>4. weight \in Nat /\ denominator \in Nat
  BY TimesAssumption DEF InterpolationType, TimeIsBetween
<1>5. Rise \in Nat /\ Rise \in Values(kind)
  BY <1>1, <1>2, <1>3 DEF Rise
<1>6. weight * Rise \in Nat
  BY <1>4, <1>5, SMTT(30)
<1> QED BY <1>1, <1>2, <1>3, <1>4, <1>5, <1>6

\* A saturated product is too small, never too large.
LEMMA UnsignedProduct ==
  ASSUME NEW x \in Values("unsigned"), NEW y \in Nat
  PROVE  \A p \in Products("unsigned", x, y) : p <= y * x
<1>1. /\ "unsigned" \in Kinds /\ MinValue("unsigned") = 0
      /\ MaxValue("unsigned") \in Nat
      /\ Values("unsigned") = 0 .. MaxValue("unsigned")
  BY Ranges DEF Kinds, MinValue
<1> DEFINE max == MaxValue("unsigned")
<1>2. x \in Nat /\ x <= max /\ x * y = y * x
  BY <1>1
<1>3. CASE Overflows("unsigned", x, y)
  <2>1. y > 0 /\ x > Quotient(max, y)
    BY <1>2, <1>3 DEF Overflows
  <2>2. Quotient(max, y) = max \div y /\ max \div y \in Int
    BY <1>1, <2>1, QuotientOfNaturals
  <2>3. ~ (y * x <= max)
    BY <1>1, <1>2, <2>1, <2>2, BoundedFactor
  <2>4. y * x \in Int
    BY <1>2
  <2> QED BY <1>1, <1>3, <2>3, <2>4 DEF Products
<1>4. CASE ~ Overflows("unsigned", x, y)
  <2>1. ~ Underflows("unsigned", x, y)
    BY <1>2 DEF Underflows
  <2>2. y * x \in 0 .. max
    <3>1. CASE x = 0 \/ y = 0
      BY <1>1, <1>2, <3>1
    <3>2. CASE x > 0 /\ y > 0
      <4>1. Quotient(max, y) = max \div y /\ max \div y \in 0 .. max
        BY <1>1, <3>2, QuotientOfNaturals
      <4>2. x <= max \div y
        BY <1>2, <1>4, <3>2, <4>1 DEF Overflows
      <4>3. y * x <= max
        BY <1>1, <1>2, <3>2, <4>2, FactorIsBounded
      <4>4. y * x \in Nat
        BY <1>2, SMTT(30)
      <4> QED BY <1>1, <4>3, <4>4
    <3> QED BY <1>2, <3>1, <3>2
  <2>3. ConvertRounded("unsigned", x * y) = {y * x}
    BY <1>1, <1>2, <2>2 DEF ConvertRounded
  <2> QED BY <1>2, <1>4, <2>1, <2>2, <2>3 DEF Products
<1> QED BY <1>3, <1>4

LEMMA BelowStep ==
  ASSUME InterpolationType, BelowInv, [HistoryNext]_historyVars
  PROVE  BelowInv'
<1>1. CASE BeginInterpolation
  BY <1>1 DEF BeginInterpolation, BelowInv
<1>2. CASE EndInterpolation
  BY <1>2 DEF EndInterpolation, BelowInv
<1>3. CASE UNCHANGED interpolationVars
  BY <1>3 DEF interpolationVars, inputs, BelowInv, Rise, TimeIsBetween
<1>4. CASE Interpolate
  <2>1. UNCHANGED inputs
    BY <1>4 DEF Interpolate, Subtract, Multiply, Divide, DivideByZero, Add
  <2>2. (TimeIsBetween' <=> TimeIsBetween) /\ Rise' = Rise /\ kind' = kind
    BY <2>1 DEF inputs, TimeIsBetween, Rise
  <2> SUFFICES ASSUME kind = "unsigned", TimeIsBetween PROVE BelowInv'
    BY <2>2 DEF BelowInv
  <2>3. CASE Subtract
    <3>1. Differences(kind, after, before) = {Rise}
      BY UnsignedOperands, ValueIsKept DEF Differences, NumericUnsignedDiff, Rise
    <3> QED BY <2>2, <2>3, <3>1 DEF Subtract, BelowInv
  <2>4. CASE Multiply
    <3>1. value = Rise
      BY <2>4 DEF Multiply, BelowInv
    <3>2. \A p \in Products(kind, value, weight) : p <= weight * Rise
      BY <3>1, UnsignedOperands, UnsignedProduct
    <3> QED BY <2>1, <2>2, <2>4, <3>2 DEF Multiply, inputs, BelowInv
  <2>5. CASE Divide
    <3>1. value <= weight * Rise /\ denominator \in Nat \ {0}
      BY <2>5, UnsignedOperands DEF Divide, BelowInv
    <3>2. weight * Rise = Rise * weight /\ Rise * denominator = denominator * Rise
      BY UnsignedOperands
    <3>3. Rise * weight <= Rise * denominator
      BY UnsignedOperands, ProductIsMonotone DEF TimeIsBetween
    <3>4. value \in Nat /\ Rise \in Nat
      BY UnsignedOperands
    <3>5. denominator * Rise \in Int /\ Rise * weight \in Int
      BY UnsignedOperands, <3>2
    <3>6. value <= denominator * Rise
      BY <3>1, <3>2, <3>3, <3>4, <3>5
    <3>7. value \div denominator <= Rise
      BY <3>1, <3>4, <3>6, QuotientIsBounded
    <3>8. Quotients(kind, value, denominator) = {value \div denominator}
      <4>1. kind \in Kinds /\ value \in Values(kind) /\ value >= 0 /\ kind # "long"
        BY <3>4, UnsignedOperands
      <4> QED BY <3>1, <4>1, QuotientIsExact
    <3> QED BY <2>1, <2>2, <2>5, <3>7, <3>8 DEF Divide, inputs, BelowInv
  <2>6. CASE DivideByZero
    BY <2>6 DEF DivideByZero, BelowInv
  <2>7. CASE Add
    <3>1. value <= Rise
      BY <2>7 DEF Add, BelowInv
    <3>2. /\ value \in Nat /\ before \in Nat /\ after \in Nat
          /\ MinValue(kind) = 0 /\ kind \in Kinds
          /\ MaxValue(kind) \in Nat /\ before <= MaxValue(kind) /\ after <= MaxValue(kind)
      BY UnsignedOperands
    <3>3. value + before <= before \/ value + before <= after
      BY <3>1, <3>2 DEF Rise
    <3>4. ~ (value > MaxValue(kind) - before) /\ value + before \in Values(kind)
      BY <3>2, <3>3, UnsignedOperands
    <3>5. Convert(kind, value + before) = value + before
      BY <3>2, <3>4, ValueIsKept
    <3>6. \A s \in Sums(kind, value, before) : s <= before \/ s <= after
      BY <3>2, <3>3, <3>4, <3>5 DEF Sums, SumSigned
    <3> QED BY <2>1, <2>2, <2>7, <3>6 DEF Add, inputs, BelowInv
  <2> QED BY <1>4, <2>3, <2>4, <2>5, <2>6, <2>7 DEF Interpolate
<1> QED BY <1>1, <1>2, <1>3, <1>4, RequestStepsInterpolate

(* However wide the type and however far apart the times, an unsigned       *)
(* interpolation does not exceed both neighbours.                          *)
THEOREM UnsignedIsBelow == HistorySpec => []UnsignedStaysBelow
<1>1. HistoryInit => InterpolationType /\ BelowInv
  BY InterpolationTypeInit DEF HistoryInit, InterpolationInit, BelowInv
<1>2. InterpolationType /\ BelowInv /\ [HistoryNext]_historyVars
        => (InterpolationType /\ BelowInv)'
  BY InterpolationTypeStep, BelowStep
<1>3. BelowInv => UnsignedStaysBelow
  BY DEF BelowInv, UnsignedStaysBelow
<1> QED BY <1>1, <1>2, <1>3, PTL DEF HistorySpec

-----------------------------------------------------------------------------
(* The request *)

\* What a sequence of entries holds.
Known(s, e) == \E k \in DOMAIN s : s[k] = e

LEMMA FoundIsSequence ==
  ASSUME NEW n \in Nat, NEW t \in 0 .. ReqTimes, NEW where \in {Raw, Interpolated}
  PROVE  /\ Found(n, t, where) \in Seq(Entries) /\ Len(Found(n, t, where)) = n
         /\ \A k \in 1 .. n : Found(n, t, where)[k] = [time |-> t, location |-> where]
BY DEF Found, Entries

LEMMA Appending ==
  ASSUME NEW s \in Seq(Entries), NEW n \in Nat, NEW t \in 0 .. ReqTimes,
         NEW where \in {Raw, Interpolated}
  PROVE  /\ s \o Found(n, t, where) \in Seq(Entries)
         /\ n # 0 => \A x : Known(s \o Found(n, t, where), x)
                            <=> Known(s, x) \/ x = [time |-> t, location |-> where]
<1> DEFINE e == [time |-> t, location |-> where]
           f == Found(n, t, where)
           r == s \o f
<1>1. f \in Seq(Entries) /\ Len(f) = n /\ \A k \in 1 .. n : f[k] = e
  BY FoundIsSequence
<1> HIDE DEF f, e
<1>2. r \in Seq(Entries) /\ Len(r) = Len(s) + n
  BY <1>1
<1>3. \A k \in 1 .. Len(s) : k \in DOMAIN r /\ r[k] = s[k]
  BY <1>1
<1>4. \A k \in Len(s) + 1 .. Len(s) + n : k \in DOMAIN r /\ r[k] = e
  BY <1>1
<1>5. n # 0 => Len(s) + 1 \in Len(s) + 1 .. Len(s) + n
  OBVIOUS
<1>6. DOMAIN r = 1 .. Len(s) + n /\ DOMAIN s = 1 .. Len(s) /\ Len(s) \in Nat
  BY <1>2
<1> HIDE DEF r
<1>7. ASSUME n # 0
      PROVE  \A x : Known(r, x) <=> Known(s, x) \/ x = e
  <2> TAKE x
  <2>1. Known(r, x) => Known(s, x) \/ x = e
    BY <1>3, <1>4, <1>6 DEF Known
  <2>2. Known(s, x) => Known(r, x)
    BY <1>3, <1>6 DEF Known
  <2>3. x = e => Known(r, x)
    BY <1>4, <1>5, <1>7 DEF Known
  <2> QED BY <2>1, <2>2, <2>3
<1> QED BY <1>2, <1>7 DEF r, f, e

RequestType ==
  /\ details \in {"raw", "atTime", "release"}
  /\ index \in 1 .. NodesToRead + 1 /\ time \in 1 .. ReqTimes + 1
  /\ results \in Seq(Entries) /\ historyData \in [RequestedNodes -> Seq(Entries)]
  /\ bits \in SUBSET {0, 1} /\ historyBits \in [RequestedNodes -> SUBSET {0, 1}]
  /\ statusCode \in [RequestedNodes -> {"Good", "BadUnexpectedError", "BadOutOfMemory",
                                        "BadAggregateInvalidInputs"}]
  /\ serviceResult \in {"Good", "BadOutOfMemory"}
  /\ outcome \in {"reading", "answered", "failed"}

\* An interpolation belongs to a time of the node in hand.
StepInv ==
  step # "none" => Reading("atTime") /\ time <= ReqTimes

LEMMA NextNodeType ==
  ASSUME RequestType, index \in RequestedNodes, NextNode
  PROVE  /\ details' \in {"raw", "atTime", "release"}
         /\ index' \in 1 .. NodesToRead + 1 /\ time' \in 1 .. ReqTimes + 1
         /\ results' \in Seq(Entries) /\ bits' \in SUBSET {0, 1}
         /\ outcome' \in {"reading", "answered", "failed"}
BY RequestAssumption DEF RequestType, RequestedNodes, NextNode, Raw

LEMMA RequestTypeStep ==
  ASSUME RequestType, StepInv, [HistoryNext]_historyVars
  PROVE  RequestType'
<1>1. /\ NodesToRead \in Nat /\ ReqTimes \in Nat /\ MaxRows \in Nat
      /\ Raw \in SUBSET {0, 1} /\ Interpolated \in SUBSET {0, 1}
      /\ <<>> \in Seq(Entries)
  BY RequestAssumption DEF Raw, Interpolated
<1>2. CASE UNCHANGED historyVars
  BY <1>2 DEF historyVars, readVars, response, RequestType
<1>3. CASE AnswerRequest
  BY <1>3 DEF AnswerRequest, response, RequestType
<1>4. CASE ReadHistory
  <2>1. ASSUME NEW n \in 0 .. MaxRows PROVE Found(n, 0, Raw) \in Seq(Entries)
    <3>1. n \in Nat /\ 0 \in 0 .. ReqTimes
      BY <1>1
    <3> QED BY <3>1, FoundIsSequence
  <2>2. PICK n \in 0 .. MaxRows :
          historyData' = [historyData EXCEPT ![index] = Found(n, 0, Raw)]
    BY <1>4 DEF ReadHistory
  <2>3. historyData' \in [RequestedNodes -> Seq(Entries)]
    BY <2>1, <2>2 DEF RequestType
  <2>4. UNCHANGED <<statusCode, historyBits, serviceResult>>
    BY <1>4 DEF ReadHistory
  <2>5. NextNode /\ index \in RequestedNodes
    BY <1>4 DEF ReadHistory, Reading
  <2> QED BY <2>3, <2>4, <2>5, NextNodeType DEF RequestType
<1>5. CASE ReadHistoryOutOfMemory
  BY <1>1, <1>5 DEF ReadHistoryOutOfMemory, Reading, NextNode, NodeFails, RequestType,
                    RequestedNodes
<1>6. CASE ReadHistoryThrows
  BY <1>1, <1>6 DEF ReadHistoryThrows, RequestType
<1>7. CASE ReadNearest \/ InterpolateValues
  BY <1>7 DEF ReadNearest, InterpolateValues, readVars, response, RequestType
<1>8. ASSUME NEW n \in Nat \ {0}, NEW location \in {Raw, Interpolated},
             Reading("atTime"), time <= ReqTimes, Answered(n, location)
      PROVE  RequestType'
  <2>1. time \in 0 .. ReqTimes
    BY <1>1, <1>8 DEF RequestType
  <2>2. results' \in Seq(Entries)
    BY <1>8, <2>1, Appending DEF Answered, RequestType
  <2>3. time' \in 1 .. ReqTimes + 1
    BY <1>1, <1>8 DEF Answered, RequestType
  <2>4. bits' \in SUBSET {0, 1}
    BY <1>1, <1>8 DEF Answered, SetHistorianBits, RequestType
  <2> QED BY <1>8, <2>2, <2>3, <2>4 DEF Answered, response, RequestType
<1>9. CASE ReadExactly
  BY <1>1, <1>8, <1>9 DEF ReadExactly, AtTime
<1>10. CASE AppendInterpolated
  BY <1>1, <1>8, <1>10 DEF AppendInterpolated, StepInv
<1>11. CASE ReadFails
  BY <1>1, <1>11 DEF ReadFails, AtTime, Reading, NextNode, NodeFails, RequestType,
                     RequestedNodes
<1>12. CASE RejectInputs
  BY <1>1, <1>12 DEF RejectInputs, InvalidInputs, StepInv, AtTime, Reading, NextNode,
                     NodeFails, RequestType, RequestedNodes
<1>13. CASE ExpandResult
  BY <1>1, <1>13 DEF ExpandResult, Reading, NextNode, RequestType, RequestedNodes
<1> QED BY <1>2, <1>3, <1>4, <1>5, <1>6, <1>7, <1>9, <1>10, <1>11, <1>12, <1>13
        DEF HistoryNext

LEMMA StepInvStep ==
  ASSUME RequestType, StepInv, [HistoryNext]_historyVars
  PROVE  StepInv'
<1>1. CASE UNCHANGED historyVars
  BY <1>1 DEF historyVars, readVars, response, interpolationVars, inputs, StepInv, Reading
<1>2. CASE AnswerRequest
  BY <1>2, RequestAssumption DEF AnswerRequest, interpolationVars, inputs, StepInv, Reading,
                                 RequestedNodes
<1>3. CASE \/ ReadHistory \/ ReadHistoryOutOfMemory \/ ReadHistoryThrows \/ ReadExactly
           \/ ReadFails \/ ExpandResult
  <2>1. step' = step
    BY <1>3 DEF ReadHistory, ReadHistoryOutOfMemory, ReadHistoryThrows, ReadExactly,
                ReadFails, ExpandResult, interpolationVars
  <2>2. details = "raw" => step = "none"
    BY DEF StepInv, Reading
  <2>3. time > ReqTimes => step = "none"
    BY RequestAssumption DEF StepInv, RequestType
  <2>4. step = "none"
    BY <1>3, <2>2, <2>3
       DEF ReadHistory, ReadHistoryOutOfMemory, ReadHistoryThrows, ReadExactly,
           ReadFails, ExpandResult, AtTime, Reading
  <2> QED BY <2>1, <2>4 DEF StepInv
<1>4. CASE ReadNearest
  BY <1>4 DEF ReadNearest, AtTime, Reading, readVars, response, StepInv
<1>5. CASE InterpolateValues
  <2>1. step # "none"
    BY <1>5 DEF InterpolateValues, Interpolate, Subtract, Multiply, Divide, DivideByZero, Add
  <2> QED BY <1>5, <2>1 DEF InterpolateValues, readVars, response, StepInv, Reading
<1>6. CASE AppendInterpolated \/ RejectInputs
  BY <1>6 DEF AppendInterpolated, RejectInputs, EndInterpolation, StepInv
<1> QED BY <1>1, <1>2, <1>3, <1>4, <1>5, <1>6 DEF HistoryNext

-----------------------------------------------------------------------------
(* The answers *)

TimesOf(s) == {s[k].time : k \in DOMAIN s}

HasInterpolated(s) == \E k \in DOMAIN s : s[k].location = Interpolated

\* The node in hand: its values so far answer the times so far, and the bits
\* tell how.  It and the nodes to come have no answer yet.
PendingInv ==
  details = "atTime" =>
    /\ TimesOf(results) = 1 .. time - 1
    /\ bits \in {Raw, Interpolated} /\ (bits = Interpolated <=> HasInterpolated(results))
    /\ \A i \in RequestedNodes :
         i >= index => historyData[i] = <<>> /\ statusCode[i] = "Good"

\* Only readAtTime interpolates.
RawInv ==
  details # "atTime" =>
    \A i \in RequestedNodes : historyBits[i] = Raw /\ ~ HasInterpolated(historyData[i])

AnswersInv == PendingInv /\ RawInv /\ EveryTimeIsAnswered /\ LocationIsHonest

LEMMA PendingReset ==
  ASSUME RequestType, NextNode, index \in RequestedNodes, PendingInv,
         \A i \in RequestedNodes \ {index} :
           historyData'[i] = historyData[i] /\ statusCode'[i] = statusCode[i]
  PROVE  PendingInv'
<1>1. TimesOf(<<>>) = 1 .. 1 - 1 /\ ~ HasInterpolated(<<>>) /\ Raw # Interpolated
  BY DEF TimesOf, HasInterpolated, Raw, Interpolated
<1>2. results' = <<>> /\ time' = 1 /\ bits' = Raw /\ details' = details
  BY DEF NextNode
<1>3. TimesOf(results') = 1 .. time' - 1
  BY <1>1, <1>2
<1>4. \A i \in RequestedNodes : i >= index' => i # index /\ i >= index
  BY DEF NextNode, RequestedNodes
<1> QED BY <1>1, <1>2, <1>3, <1>4 DEF PendingInv

LEMMA PendingAnswered ==
  ASSUME RequestType, PendingInv, Reading("atTime"), time <= ReqTimes,
         NEW n \in Nat \ {0}, NEW location \in {Raw, Interpolated},
         Answered(n, location)
  PROVE  PendingInv'
<1> DEFINE e == [time |-> time, location |-> location]
<1>1. /\ time \in Nat \ {0} /\ time \in 0 .. ReqTimes
      /\ results \in Seq(Entries) /\ details = "atTime"
  BY RequestAssumption DEF RequestType, Reading
<1>2. /\ results' = results \o Found(n, time, location)
      /\ bits' = bits \cup location /\ time' = time + 1
      /\ UNCHANGED <<details, index, historyData, statusCode>>
  BY DEF Answered, SetHistorianBits, response
<1>3. \A x : Known(results', x) <=> Known(results, x) \/ x = e
  BY <1>1, <1>2, Appending
<1>4. TimesOf(results') = TimesOf(results) \cup {time}
  <2>1. e.time = time
    OBVIOUS
  <2> HIDE DEF e
  <2> QED BY <1>3, <2>1 DEF TimesOf, Known
<1>5. 1 .. time' - 1 = (1 .. time - 1) \cup {time}
  BY <1>1, <1>2
<1>6. HasInterpolated(results') <=> HasInterpolated(results) \/ location = Interpolated
  <2>1. e.location = location
    OBVIOUS
  <2> HIDE DEF e
  <2> QED BY <1>3, <2>1 DEF HasInterpolated, Known
<1>7. /\ bits' \in {Raw, Interpolated}
      /\ bits' = Interpolated <=> bits = Interpolated \/ location = Interpolated
  BY <1>1, <1>2 DEF PendingInv, Raw, Interpolated
<1> QED BY <1>1, <1>2, <1>4, <1>5, <1>6, <1>7 DEF PendingInv

LEMMA AnswersInvStep ==
  ASSUME RequestType, StepInv, AnswersInv, [HistoryNext]_historyVars
  PROVE  AnswersInv'
<1> USE DEF AnswersInv
<1>1. ASSUME UNCHANGED <<details, index, time, results, bits, statusCode, historyBits,
                         historyData>>
      PROVE  AnswersInv'
  BY <1>1 DEF PendingInv, RawInv, EveryTimeIsAnswered, LocationIsHonest
<1>2. CASE UNCHANGED historyVars \/ AnswerRequest \/ ReadNearest \/ InterpolateValues
  BY <1>1, <1>2 DEF historyVars, readVars, response, AnswerRequest, ReadNearest,
                    InterpolateValues
<1>3. ASSUME details = "raw", details' = "raw", historyBits' = historyBits,
             \A i \in RequestedNodes : ~ HasInterpolated(historyData'[i])
      PROVE  AnswersInv'
  <2>1. RawInv'
    BY <1>3 DEF RawInv
  <2>2. LocationIsHonest'
    BY <1>3, <2>1 DEF RawInv, LocationIsHonest, HasInterpolated, Raw, Interpolated
  <2> QED BY <1>3, <2>1, <2>2 DEF PendingInv, EveryTimeIsAnswered
<1>4. CASE ReadHistory
  <2>1. PICK n \in 0 .. MaxRows :
          historyData' = [historyData EXCEPT ![index] = Found(n, 0, Raw)]
    BY <1>4 DEF ReadHistory
  <2>2. ~ HasInterpolated(Found(n, 0, Raw))
    BY DEF HasInterpolated, Found, Raw, Interpolated
  <2>3. details = "raw" /\ details' = "raw" /\ historyBits' = historyBits
    BY <1>4 DEF ReadHistory, Reading, NextNode
  <2>4. \A i \in RequestedNodes : ~ HasInterpolated(historyData'[i])
    BY <2>1, <2>2, <2>3 DEF RawInv, RequestType
  <2> QED BY <1>3, <2>3, <2>4
<1>5. CASE ReadHistoryOutOfMemory \/ ReadHistoryThrows
  <2>1. details = "raw" /\ UNCHANGED <<details, historyBits, historyData>>
    BY <1>5 DEF ReadHistoryOutOfMemory, ReadHistoryThrows, Reading, NextNode
  <2> QED BY <1>3, <2>1 DEF RawInv
<1>6. ASSUME NEW n \in Nat \ {0}, NEW location \in {Raw, Interpolated},
             Reading("atTime"), time <= ReqTimes, Answered(n, location)
      PROVE  AnswersInv'
  <2>1. PendingInv'
    BY <1>6, PendingAnswered
  <2> QED BY <1>6, <2>1 DEF Answered, response, RawInv, EveryTimeIsAnswered, LocationIsHonest,
                            Reading
<1>7. CASE ReadExactly
  BY <1>6, <1>7, RequestAssumption DEF ReadExactly, AtTime
<1>8. CASE AppendInterpolated
  BY <1>6, <1>8 DEF AppendInterpolated, StepInv
<1>9. ASSUME Reading("atTime"), NextNode, historyBits' = historyBits,
             historyData' = historyData, NEW status,
             statusCode' = [statusCode EXCEPT ![index] = status]
      PROVE  AnswersInv'
  <2>1. details = "atTime" /\ details' = "atTime" /\ index \in RequestedNodes
        /\ historyData[index] = <<>>
    BY <1>9 DEF Reading, NextNode, PendingInv, RequestedNodes
  <2>2. \A i \in RequestedNodes \ {index} : statusCode'[i] = statusCode[i]
    BY <1>9 DEF RequestType
  <2>3. PendingInv'
    BY <1>9, <2>1, <2>2, PendingReset
  <2> QED BY <1>9, <2>1, <2>2, <2>3 DEF RawInv, EveryTimeIsAnswered, LocationIsHonest
<1>10. CASE ReadFails
  <2>1. CASE details = "atTime"
    BY <1>9, <1>10, <2>1 DEF ReadFails, NodeFails, AtTime, Reading
  <2>2. CASE details = "raw"
    BY <1>3, <1>10, <2>2 DEF ReadFails, NextNode, RawInv
  <2> QED BY <1>10, <2>1, <2>2 DEF ReadFails, AtTime, Reading
<1>11. CASE RejectInputs
  BY <1>9, <1>11 DEF RejectInputs, NodeFails, InvalidInputs, AtTime, StepInv
<1>12. CASE ExpandResult
  <2>1. /\ details = "atTime" /\ details' = "atTime" /\ index \in RequestedNodes
        /\ NextNode /\ statusCode' = statusCode
        /\ historyBits' = [historyBits EXCEPT ![index] = bits]
    BY <1>12 DEF ExpandResult, Reading, NextNode
  <2>2. time = ReqTimes + 1
    BY <1>12, RequestAssumption DEF ExpandResult, RequestType
  <2>3. historyData[index] = <<>> /\ statusCode[index] = "Good"
    BY <2>1, RequestAssumption DEF PendingInv, RequestedNodes
  <2>4. /\ historyData'[index] \in {<<>>, results}
        /\ \A i \in RequestedNodes \ {index} : historyData'[i] = historyData[i]
    BY <1>12, <2>1, <2>3 DEF ExpandResult, RequestType
  <2>5. PendingInv'
    BY <2>1, <2>4, PendingReset
  <2>6. TimesOf(results) = 1 .. ReqTimes
    BY <2>1, <2>2, RequestAssumption DEF PendingInv
  <2>7. EveryTimeIsAnswered'
    BY <2>1, <2>3, <2>4, <2>6 DEF EveryTimeIsAnswered, TimesOf
  <2>8. historyBits'[index] = bits
        /\ \A i \in RequestedNodes \ {index} : historyBits'[i] = historyBits[i]
    BY <2>1 DEF RequestType
  <2>9. bits = Interpolated <=> HasInterpolated(results)
    BY <2>1 DEF PendingInv
  <2>10. LocationIsHonest'
    BY <2>1, <2>4, <2>8, <2>9 DEF LocationIsHonest, HasInterpolated
  <2> QED BY <2>1, <2>5, <2>7, <2>10 DEF RawInv
<1> QED BY <1>2, <1>4, <1>5, <1>7, <1>8, <1>10, <1>11, <1>12 DEF HistoryNext

\* What holds of every request.
RequestInv ==
  InterpolationType /\ RequestType /\ StepInv /\ AnswersInv

LEMMA RequestInvariant == HistorySpec => []RequestInv
<1>1. HistoryInit => RequestInv
  <2> SUFFICES ASSUME HistoryInit PROVE RequestInv
    OBVIOUS
  <2>1. InterpolationType /\ step = "none"
    BY InterpolationTypeInit DEF HistoryInit, InterpolationInit
  <2>2. RequestType
    BY RequestAssumption DEF HistoryInit, RequestType, Raw, RequestedNodes
  <2>3. TimesOf(<<>>) = 1 .. 1 - 1 /\ ~ HasInterpolated(<<>>) /\ Raw # Interpolated
    BY DEF TimesOf, HasInterpolated, Raw, Interpolated
  <2>4. AnswersInv
    BY <2>3 DEF HistoryInit, AnswersInv, PendingInv, RawInv, EveryTimeIsAnswered,
                LocationIsHonest
  <2> QED BY <2>1, <2>2, <2>4 DEF RequestInv, StepInv
<1>2. RequestInv /\ [HistoryNext]_historyVars => RequestInv'
  BY InterpolationTypeStep, RequestTypeStep, StepInvStep, AnswersInvStep DEF RequestInv
<1> QED BY <1>1, <1>2, PTL DEF HistorySpec

(* The variables keep their types, for every width and every number of     *)
(* nodes: each operator's result fits the type of its operands.            *)
THEOREM HistoryTypeCorrect == HistorySpec => []TypeOK
<1>1. RequestInv => TypeOK
  BY DEF RequestInv, RequestType, TypeOK
<1> QED BY <1>1, RequestInvariant, PTL

(* readAtTime answers a node for all requested times or for none.          *)
THEOREM TimesAreAnswered == HistorySpec => []EveryTimeIsAnswered
<1>1. RequestInv => EveryTimeIsAnswered
  BY DEF RequestInv, AnswersInv
<1> QED BY <1>1, RequestInvariant, PTL

(* A node's status says Interpolated if and only if one of its values is.  *)
THEOREM LocationsAreHonest == HistorySpec => []LocationIsHonest
<1>1. RequestInv => LocationIsHonest
  BY DEF RequestInv, AnswersInv
<1> QED BY <1>1, RequestInvariant, PTL

(* A step of readAtTime changes the answer to the node in hand only, and   *)
(* no exception it has a handler for ends the loop over the nodes; a trap  *)
(* in an interpolation ends the process instead.                           *)
THEOREM OtherNodesKeepAnswers == HistorySpec => NodesAreIsolated
<1> DEFINE Isolated ==
      details = "atTime" =>
        /\ \A i \in RequestedNodes \ {index} :
             /\ statusCode'[i] = statusCode[i]
             /\ historyBits'[i] = historyBits[i]
             /\ historyData'[i] = historyData[i]
        /\ outcome' = "reading" \/ index > NodesToRead
<1>1. RequestInv /\ [HistoryNext]_historyVars => [Isolated]_historyVars
  <2> SUFFICES ASSUME RequestInv, HistoryNext, details = "atTime" PROVE Isolated
    BY DEF historyVars
  <2>1. RequestType /\ StepInv
    BY DEF RequestInv
  <2>2. CASE AnswerRequest
    BY <2>2 DEF AnswerRequest, response
  <2>3. CASE ReadExactly \/ ReadNearest \/ InterpolateValues
    <3>1. step # "none" \/ AtTime
      BY <2>3 DEF ReadExactly, ReadNearest, InterpolateValues, Interpolate, Subtract,
                  Multiply, Divide, DivideByZero, Add
    <3>2. outcome = "reading"
      BY <2>1, <3>1 DEF StepInv, AtTime, Reading
    <3>3. UNCHANGED <<response, outcome>>
      BY <2>3 DEF ReadExactly, ReadNearest, InterpolateValues, Answered, readVars
    <3> QED BY <3>2, <3>3 DEF response
  <2>4. CASE AppendInterpolated
    <3>1. outcome = "reading"
      BY <2>1, <2>4 DEF AppendInterpolated, StepInv, Reading
    <3> QED BY <2>4, <3>1 DEF AppendInterpolated, Answered, response
  <2>5. CASE ReadFails \/ RejectInputs
    <3>1. outcome = "reading" /\ outcome' = outcome
      BY <2>1, <2>5 DEF ReadFails, RejectInputs, InvalidInputs, AtTime, Reading, StepInv,
                        NextNode
    <3>2. \A i \in RequestedNodes \ {index} : statusCode'[i] = statusCode[i]
      BY <2>1, <2>5 DEF ReadFails, RejectInputs, NodeFails, RequestType
    <3> QED BY <2>5, <3>1, <3>2 DEF ReadFails, RejectInputs
  <2>6. CASE ExpandResult
    BY <2>1, <2>6 DEF ExpandResult, Reading, NextNode, RequestType
  <2>7. ~ (ReadHistory \/ ReadHistoryOutOfMemory \/ ReadHistoryThrows)
    BY DEF ReadHistory, ReadHistoryOutOfMemory, ReadHistoryThrows, Reading
  <2> QED BY <2>2, <2>3, <2>4, <2>5, <2>6, <2>7 DEF HistoryNext
<1> QED BY <1>1, RequestInvariant, PTL DEF HistorySpec, NodesAreIsolated
=============================================================================
