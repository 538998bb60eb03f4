------------------------------- MODULE MCRows -------------------------------
(* Two requests, each with a row, a table with two columns and room for two *)
(* keys.  The sets below are the same when columns or keys are exchanged.   *)
EXTENDS Rows, TLC

CONSTANT v

\* A new row without a key, and whole ones.
NoKeyAndWhole ==
  {[f \in Fields |-> IF f = Key THEN Absent ELSE v]}
    \cup {[f \in Fields |-> IF f = Key THEN k ELSE NULL] : k \in Ids}

AnyValueOrKey == (Cols \X {v, NULL}) \cup ({Key} \X Ids)

Exchanges == Permutations(Row) \cup Permutations(Cols) \cup Permutations(Ids)
=============================================================================
