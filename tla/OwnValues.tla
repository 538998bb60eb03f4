----------------------------- MODULE OwnValues -----------------------------
(***************************************************************************)
(* What handles of arrays promise: each handle and each value holds an     *)
(* array of its own, unless values were made references to one cell.  A    *)
(* writer writes in the one place it was lent, and nobody else's array     *)
(* changes.  What was done against the rules ends the promise (Break).     *)
(***************************************************************************)
CONSTANTS
  Handle, Val,   \* the places that hold something
  Cell,          \* what references share
  Writer,
  Content,       \* of an array
  Nothing,       \* the content of an empty one
  Wrapped,       \* of one made to hold what was no array
  Null, Scalar   \* no array: null, and what is not null

VARIABLES
  value,         \* what each place and cell holds; a cell, in a reference
  lent,          \* where each writer writes
  broken

vars == <<value, lent, broken>>

Init ==
  /\ value = [p \in Handle \cup Val \cup Cell |-> Null]
  /\ lent = [w \in Writer |-> Null]
  /\ broken = FALSE

\* What is read through a reference is in its cell.
Read(p) == IF value[p] \in Cell THEN value[value[p]] ELSE value[p]
IsArray(p) == Read(p) \in Content

Put(p, x) == value' = [value EXCEPT ![p] = x] /\ UNCHANGED lent

Set(p, x) == Put(p, x)
Copy(p, q) == Put(p, value[q])
CopyOut(v, h) == Put(v, IF value[h] = Null THEN Scalar ELSE value[h])
CopyLent(h, w) == lent[w] # Null /\ Put(h, value[lent[w]])
CopyArray(h, v) == Put(h, IF IsArray(v) THEN Read(v) ELSE Null)
Move(p, q) == value' = [value EXCEPT ![p] = value[q], ![q] = Null] /\ UNCHANGED lent
MoveArray(h, v) ==
  /\ value[v] \notin Cell
  /\ value' = [value EXCEPT ![h] = IF IsArray(v) THEN value[v] ELSE Null, ![v] = Null]
  /\ UNCHANGED lent

\* A value becomes a reference to a cell that nobody else refers to.
Refer(v, c) ==
  /\ value[v] \notin Cell /\ \A u \in Val : value[u] # c
  /\ value' = [value EXCEPT ![c] = value[v], ![v] = c]
  /\ UNCHANGED lent

\* A writer takes a place, which holds an array from then on: the one it
\* had, or a new one with what else it held.
Lend(w, p) ==
  /\ value[p] \notin Cell
  /\ \/ value[p] \in Content /\ UNCHANGED value
     \/ value[p] = Null /\ value' = [value EXCEPT ![p] = Nothing]
     \/ value[p] = Scalar /\ value' = [value EXCEPT ![p] = Wrapped]
  /\ lent' = [lent EXCEPT ![w] = p]

\* A writer writes where it was lent, and nowhere else.
Write(w) ==
  /\ lent[w] # Null /\ value[lent[w]] \in Content
  /\ \E x \in Content : Put(lent[w], x)

Break == ~broken /\ broken'

Next ==
  \/ Break
  \/ /\ UNCHANGED broken
     /\ \/ \E p \in Handle \cup Val : \E x \in {Nothing, Null, Scalar} : Set(p, x)
        \/ \E h, g \in Handle : Copy(h, g) \/ Move(h, g)
        \/ \E v, u \in Val : Copy(v, u) \/ Move(v, u)
        \/ \E h \in Handle, v \in Val :
             CopyArray(h, v) \/ MoveArray(h, v) \/ CopyOut(v, h) \/ Move(v, h)
        \/ \E h \in Handle, w \in Writer : CopyLent(h, w)
        \/ \E v \in Val, c \in Cell : Refer(v, c)
        \/ \E w \in Writer : Write(w) \/ \E p \in Handle \cup Val \cup Cell : Lend(w, p)

Spec == Init /\ [][Next]_vars
=============================================================================
