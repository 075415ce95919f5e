------------------------- MODULE MCRevenueLeakCases -------------------------
(* Instances of RevenueLeakCases small enough for TLC.                     *)
EXTENDS RevenueLeakCases

CONSTANTS k1, k2, b1, b2, other

Fact(k, b) == [leak |-> k, basis |-> b]

\* The recommendation changes without the detection and with it, then also its
\* type.
ThreeFacts == {Fact(k1, b1), Fact(k1, b2), Fact(k2, other)}
=============================================================================
