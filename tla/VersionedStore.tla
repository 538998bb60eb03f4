--------------------------- MODULE VersionedStore ---------------------------
(***************************************************************************)
(* What a directory of package files promises for keys with one writer:    *)
(* a store that may lose a package at any time (expiry, deletion, a crash   *)
(* in the middle of a write) but never goes back to an older one.          *)
(***************************************************************************)
EXTENDS Naturals

CONSTANTS
  Key,
  Version   \* positive numbers

VARIABLES
  store,    \* the version readable under a key, 0 for none
  last      \* the newest version ever stored under it

vars == <<store, last>>

Init ==
  /\ store = [k \in Key |-> 0]
  /\ last = [k \in Key |-> 0]

\* A newer version is stored.  It may be lost at once, when the key is
\* deleted while it is being written.
Write(k) ==
  \E v \in Version :
    /\ v > last[k]
    /\ last' = [last EXCEPT ![k] = v]
    /\ \/ store' = [store EXCEPT ![k] = v]
       \/ store[k] = 0 /\ UNCHANGED store

Lose(k) ==
  /\ store[k] # 0
  /\ store' = [store EXCEPT ![k] = 0]
  /\ UNCHANGED last

Next == \E k \in Key : Write(k) \/ Lose(k)

Spec == Init /\ [][Next]_vars
=============================================================================
