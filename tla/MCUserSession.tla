--------------------------- MODULE MCUserSession ---------------------------
(* Instances of UserSession: two overlapping requests of one session.      *)
EXTENDS UserSession, TLC

CONSTANTS r1, r2, guest, member, v1

\* the requests are alike
Symmetry == Permutations({r1, r2})
=============================================================================
