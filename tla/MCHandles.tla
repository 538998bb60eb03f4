----------------------------- MODULE MCHandles ------------------------------
EXTENDS Handles, TLC
Exchanges ==
  Permutations(Handle) \cup Permutations(Writer) \cup Permutations(Val) \cup Permutations(Table)
=============================================================================
