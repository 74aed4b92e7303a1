------------------------------- MODULE Totals -------------------------------
(***************************************************************************)
(* Sums of sizes.  Sizes of claims and volumes are positive integers up to *)
(* MaxSize, in whatever unit the instance chooses; the sum of a function   *)
(* into 0..MaxSize is the number of units it stands for, which needs no    *)
(* recursion.                                                              *)
(***************************************************************************)
EXTENDS Integers, FiniteSets

CONSTANT MaxSize

ASSUME MaxSizeAssumption == MaxSize \in Nat

Sizes == 1..MaxSize

\* The units of f: k contributes the pairs <<k, 1>>, ..., <<k, f[k]>>.
Units(f) == {q \in (DOMAIN f) \X Sizes : q[2] <= f[q[1]]}

Total(f) == Cardinality(Units(f))
============================================================================
