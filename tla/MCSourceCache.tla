--------------------------- MODULE MCSourceCache ----------------------------
(* Two workers, a file of two versions, and the cache with each setting.   *)
EXTENDS SourceCache, TLC
CONSTANTS w1, w2
With(k, d, t) == [keep |-> k, defer |-> d, ttl |-> t]
AllOptions == {With(FALSE, FALSE, 1), With(TRUE, FALSE, 1), With(TRUE, TRUE, 1),
               With(FALSE, FALSE, 4), With(TRUE, TRUE, 4)}
Workers == Permutations(Worker)
=============================================================================
