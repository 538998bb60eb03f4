------------------------------ MODULE MCPlates ------------------------------
(* Templates a and b, and one without a file; two views.                   *)
EXTENDS Plates, TLC
CONSTANTS a, b, m, s, v1, v2

Pages == {<<>>, <<a, b>>, <<m>>}
Views == Permutations({v1, v2})
=============================================================================
