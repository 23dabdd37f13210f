------------------------------ MODULE Numeric ------------------------------
(***************************************************************************)
(* The checked int64 arithmetic of internal/admission/numeric.go. MaxInt64 *)
(* stands for math.MaxInt64: small in a model, so that the overflow        *)
(* branches are reached.                                                   *)
(***************************************************************************)
EXTENDS Integers

CONSTANT MaxInt64

ASSUME NumericAssumption == MaxInt64 \in Nat \ {0}

\* addNonnegativeInt64 succeeds: both are nonnegative and the sum fits.
Fits(left, right) == left >= 0 /\ right >= 0 /\ left <= MaxInt64 - right
=============================================================================
