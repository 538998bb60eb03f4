---------------------------- MODULE MCPageAssets ----------------------------
(* Instances of PageAssets: three assets, lists of up to two of them.      *)
EXTENDS PageAssets

Lists == UNION {[1 .. n -> Key] : n \in 0 .. 2}
OrderedLists == {l \in Lists : IsInjective(l)}
=============================================================================
