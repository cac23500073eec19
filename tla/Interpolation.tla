---------------------------- MODULE Interpolation ----------------------------
(***************************************************************************)
(* interpolateValues, which readAtTime calls for a time between two values *)
(* of a node.  It chains the four variant operators, each of which keeps   *)
(* its result within the type.                                             *)
(***************************************************************************)
EXTENDS VariantArithmetic

CONSTANT Times   \* differences of timestamps

ASSUME TimesAssumption == Times \subseteq Int

VARIABLES
  kind,            \* the kind of the node's type
  before, after,   \* the nearest values
  weight,          \* from the earlier timestamp to the one asked for
  denominator,     \* from the earlier timestamp to the later one
  step,            \* the operator that is next, or "none"
  value            \* the result so far

inputs == <<kind, before, after, weight, denominator>>
interpolationVars == <<inputs, step, value>>

InterpolationType ==
  /\ kind \in Kinds
  /\ before \in Values(kind) /\ after \in Values(kind)
  /\ weight \in Times \cup {0} /\ denominator \in Times \cup {0}
  /\ step \in {"none", "subtract", "multiply", "divide", "add", "done", "invalid",
               "trapped"}
  /\ value \in Values(kind)

InterpolationInit ==
  /\ kind = "long"
  /\ before = 0 /\ after = 0
  /\ weight = 0 /\ denominator = 0
  /\ step = "none"
  /\ value = 0

-----------------------------------------------------------------------------
\* The neighbours are found by source timestamps and weighed by server
\* timestamps, so the differences can be zero or negative.
BeginInterpolation ==
  /\ step = "none" /\ step' = "subtract"
  /\ kind' \in Kinds
  /\ before' \in Values(kind') /\ after' \in Values(kind')
  /\ weight' \in Times /\ denominator' \in Times
  /\ value' = 0

EndInterpolation ==
  /\ kind' = "long"
  /\ before' = 0 /\ after' = 0
  /\ weight' = 0 /\ denominator' = 0
  /\ step' = "none"
  /\ value' = 0

Subtract ==
  /\ step = "subtract" /\ step' = "multiply"
  /\ value' \in Differences(kind, after, before)
  /\ UNCHANGED inputs

Multiply ==
  /\ step = "multiply"
  /\ \/ /\ ~ ProductTraps(kind, value, weight)
        /\ step' = "divide"
        /\ value' \in Products(kind, value, weight)
     \/ /\ ProductTraps(kind, value, weight)
        /\ step' = "trapped"
        /\ UNCHANGED value
  /\ UNCHANGED inputs

Divide ==
  /\ step = "divide" /\ denominator # 0
  /\ \/ /\ ~ QuotientTraps(kind, value, denominator)
        /\ step' = "add"
        /\ value' \in Quotients(kind, value, denominator)
     \/ /\ QuotientTraps(kind, value, denominator)
        /\ step' = "trapped"
        /\ UNCHANGED value
  /\ UNCHANGED inputs

\* logic_error
DivideByZero ==
  /\ step = "divide" /\ denominator = 0
  /\ step' = "invalid"
  /\ UNCHANGED <<inputs, value>>

Add ==
  /\ step = "add" /\ step' = "done"
  /\ value' \in Sums(kind, value, before)
  /\ UNCHANGED inputs

Interpolate == Subtract \/ Multiply \/ Divide \/ DivideByZero \/ Add

-----------------------------------------------------------------------------
(* Properties *)

TimeIsBetween == 0 <= weight /\ weight <= denominator

(* What the overflow tests leave of interpolateValues on signed types: it  *)
(* ends, and is exact, for rising values whose sum is in range, and whose  *)
(* difference is after it was weighed, for long even in a double's exact   *)
(* range.  This is the range it can be trusted in.                         *)
InSafeRange ==
  /\ kind \in {"signed", "long"} /\ TimeIsBetween
  /\ 0 <= before /\ before <= after
  /\ before + after <= MaxValue(kind)
  /\ (after - before) * weight <= MaxValue(kind)
  /\ kind = "long" => (after - before) * weight <= Exact

SafeRangeIsExact ==
  InSafeRange =>
    /\ step # "trapped"
    /\ step = "done" =>
         value = before + ((after - before) * weight) \div denominator

(* Saturation keeps an unsigned interpolation from exceeding both of its    *)
(* neighbours, rising or falling, and however large the times are.         *)
UnsignedStaysBelow ==
  step = "done" /\ kind = "unsigned" /\ TimeIsBetween =>
    value <= before \/ value <= after

(* The formula of OPC UA Part 13 that interpolateValues says it uses        *)
(* (HistorizerUtils.cpp:463) is linear: the result lies between the        *)
(* neighbours.                                                             *)
InterpolationIsBetween ==
  step = "done" /\ TimeIsBetween =>
    \/ before <= value /\ value <= after
    \/ after <= value /\ value <= before
=============================================================================
