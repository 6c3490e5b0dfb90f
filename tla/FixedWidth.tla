----------------------------- MODULE FixedWidth -----------------------------
(***************************************************************************)
(* Go's integer arithmetic for the scaling and expansion steps: int32 in      *)
(* workload/scale.go, int64 in node/pvc.go.  The width is a parameter, small  *)
(* enough in the runs for a step to overflow.                                 *)
(***************************************************************************)
EXTENDS Integers

CONSTANT IntMax  \* the largest value of the type: 2^31 - 1, 2^63 - 1

ASSUME FixedWidthAssumption == IntMax \in Nat \ {0}

\* The value that is stored when n is computed.
Wrap(n) == ((n + IntMax + 1) % (2 * (IntMax + 1))) - (IntMax + 1)

\* Division truncates towards zero.
Quotient(a, b) == IF a >= 0 THEN a \div b ELSE -((-a) \div b)
=============================================================================
