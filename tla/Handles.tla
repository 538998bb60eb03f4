------------------------------ MODULE Handles ------------------------------
(***************************************************************************)
(* The handles of PHP arrays: htab_rc, which counts its references, val_rc, *)
(* a value that may be an array or a PHP reference, and htab_cow, through  *)
(* which an array is written after it was separated.                       *)
(*                                                                         *)
(* A table is an address; it is free while its count is zero, and may then *)
(* be given out again.  The content of a table is one value: nested arrays *)
(* and the counts of strings and objects are left out.                     *)
(*                                                                         *)
(* The ghost odd says what was done that nothing is promised after; the    *)
(* model ends there.                                                       *)
(***************************************************************************)
EXTENDS Naturals, FiniteSets

CONSTANTS
  Handle,       \* objects of htab_rc
  Val,          \* objects of val_rc
  Writer,       \* objects of htab_cow
  Table, Ref,   \* addresses for zend_array and zend_reference
  Content,
  Nothing,      \* the content of a new array
  Wrapped,      \* of an array with one element, a value that was no array
  Shared,       \* zend_empty_array, which is immutable
  Null,
  Scalar        \* a value that is no array and not null, or undefined

ASSUME HandlesAssumption ==
  /\ IsFiniteSet(Handle) /\ IsFiniteSet(Val) /\ IsFiniteSet(Ref)
  /\ Handle \cap Val = {} /\ Handle \cap Ref = {} /\ Val \cap Ref = {}
  /\ Table \cap Ref = {}
  /\ {Shared, Null, Scalar} \cap (Table \cup Ref \cup Content) = {}
  /\ Shared # Null /\ Shared # Scalar /\ Null # Scalar
  /\ Content \cap Ref = {} /\ Nothing \in Content /\ Wrapped \in Content
  /\ Null \notin Handle \cup Val \cup Ref

VARIABLES
  holds,   \* ht_ of each handle, zv_ of each value, the value of a reference
  count,   \* gc.refcount of a table or reference, 0 when it is free
  body,    \* the content of a table
  at,      \* ht_ of each writer
  from,    \* ghost: whose table that was
  fresh,   \* ghost: whether that one still has it, and nobody else
  odd      \* ghost: what nothing is promised after

handlesVars == <<holds, count, body, at, from, fresh, odd>>

Slot == Handle \cup Val \cup Ref
Arrays == Table \cup {Shared}
Counted == Table \cup Ref

HandlesInit ==
  /\ holds = [x \in Slot |-> Null]
  /\ count = [b \in Counted |-> 0]
  /\ body = [t \in Table |-> Nothing]
  /\ at = [w \in Writer |-> Null] /\ from = [w \in Writer |-> Null]
  /\ fresh = [w \in Writer |-> FALSE]
  /\ odd = {}

Holders(hs, b) == {x \in Slot : hs[x] = b}

\* try_addref and try_decref: what is immutable is not counted
Added(c, b)   == IF b \in Counted THEN [c EXCEPT ![b] = @ + 1] ELSE c
Dropped(c, b) == IF b \in Counted THEN [c EXCEPT ![b] = @ - 1] ELSE c

\* zarray(): the array of a value, through a reference
Inner(b)  == IF b \in Ref THEN holds[b] ELSE b
\* mutant: what is no array is taken for one
AnyValue(b) == Inner(b)
Zarray(b) == IF Inner(b) \in Arrays THEN Inner(b) ELSE Null

Free(b) == count[b] = 0

\* A writer is fresh while nothing has changed about who has its table.
Age == fresh' = [w \in Writer |-> fresh[w] /\ Holders(holds', at[w]) = Holders(holds, at[w])]
NoWriter == UNCHANGED <<at, from>> /\ Age

Cause(S) == odd' = odd \cup S
CauseIf(cond, c) == Cause(IF cond THEN {c} ELSE {})

-----------------------------------------------------------------------------
(***************************************************************************)
(* htab_rc.                                                                *)
(***************************************************************************)
\* h loses what it holds and holds b, which c counts
HandleIs(h, b, c) ==
  /\ holds' = [holds EXCEPT ![h] = b]
  /\ count' = c
  /\ NoWriter

Lose(h) == Dropped(count, holds[h])

\* The handle loses its table first, so one assigned to itself is empty.
AssignHandle(h, g) ==
  /\ HandleIs(h, IF h = g THEN Null ELSE holds[g],
              IF h = g THEN Lose(h) ELSE Added(Lose(h), holds[g]))
  /\ CauseIf(h = g /\ holds[h] # Null, "self")
  /\ UNCHANGED body

MoveHandle(h, g) ==
  /\ holds' = [holds EXCEPT ![h] = IF h = g THEN Null ELSE holds[g], ![g] = Null]
  /\ count' = Lose(h)
  /\ NoWriter
  /\ CauseIf(h = g /\ holds[h] # Null, "self")
  /\ UNCHANGED body

\* From a pointer, the one a writer has: a table that only h holds is freed
\* before it is taken again, unless the pointer is a plain HashTable.
AssignPointer(h, w) ==
  /\ at[w] # Null
  /\ HandleIs(h, at[w], Added(Lose(h), at[w]))
  /\ Cause((IF fresh[w] THEN {} ELSE {"late"})
             \cup (IF holds[h] = at[w] /\ count[at[w]] = 1 THEN {"freed"} ELSE {}))
  /\ UNCHANGED body

AssignTable(h, w) ==
  /\ at[w] # Null /\ holds[h] # at[w]
  /\ HandleIs(h, at[w], Added(Lose(h), at[w]))
  /\ CauseIf(~fresh[w], "late")
  /\ UNCHANGED body

AssignFromVal(h, v) ==
  LET p == Zarray(holds[v]) IN
  /\ p = Null \/ p # holds[h]
  /\ HandleIs(h, p, Added(Lose(h), p))
  /\ UNCHANGED <<body, odd>>

\* mutant: the value keeps the table that the handle took
TakeAndLeave(h, v) ==
  LET p == Zarray(holds[v]) IN
  /\ p # holds[h]
  /\ HandleIs(h, p, Lose(h))
  /\ CauseIf(holds[v] \in Ref, "taken")
  /\ UNCHANGED body

\* The value is wiped without a decref: its count goes with the table.  That
\* of a reference does not, and the table stays in it uncounted.
TakeVal(h, v) ==
  LET p == Zarray(holds[v]) IN
  /\ p # holds[h]
  /\ holds' = [holds EXCEPT ![h] = p, ![v] = Null]
  /\ count' = Lose(h)
  /\ NoWriter
  /\ CauseIf(holds[v] \in Ref, "taken")
  /\ UNCHANGED body

DropHandle(h) == HandleIs(h, Null, Lose(h)) /\ UNCHANGED <<body, odd>>
InitHandle(h) == HandleIs(h, Shared, Lose(h)) /\ UNCHANGED <<body, odd>>

\* An array that is empty and the handle's own is kept.
ResetHandle(h) ==
  /\ ~(holds[h] \in Table /\ count[holds[h]] = 1 /\ body[holds[h]] = Nothing)
  /\ InitHandle(h)

Adopt(h) ==
  \E t \in Table :
    /\ Free(t)
    /\ HandleIs(h, t, [Lose(h) EXCEPT ![t] = 1])
    /\ body' = [body EXCEPT ![t] = Nothing]
    /\ UNCHANGED odd

\* return_value, which PHP hands over as null
GiveOut(h, v) ==
  /\ holds[v] = Null
  /\ holds' = [holds EXCEPT ![v] = holds[h], ![h] = Null]
  /\ NoWriter
  /\ UNCHANGED <<count, body, odd>>

\* A handle made of a writer gets a copy of its table.
Duplicate(h, w) ==
  /\ holds[h] = Null /\ at[w] \in Table
  /\ \E t \in Table :
       /\ Free(t)
       /\ HandleIs(h, t, [count EXCEPT ![t] = 1])
       /\ body' = [body EXCEPT ![t] = body[at[w]]]
  /\ CauseIf(~fresh[w], "late")

-----------------------------------------------------------------------------
(***************************************************************************)
(* val_rc.  The last holder of a reference frees it, and then lowers the   *)
(* count of what was freed: what that does to the allocator is undefined.  *)
(***************************************************************************)
Last(b) == b \in Ref /\ count[b] = 1

LoseVal(v) ==
  LET c == Dropped(count, holds[v])
  IN  IF Last(holds[v]) THEN Dropped(c, holds[holds[v]]) ELSE c
Emptied(v) == IF Last(holds[v]) THEN [holds EXCEPT ![holds[v]] = Null] ELSE holds

ValIs(v, b, c) ==
  /\ holds' = [Emptied(v) EXCEPT ![v] = b]
  /\ count' = c
  /\ NoWriter

\* A counted value assigned to itself is lost.
AssignVal(v, u) ==
  LET lost == u = v /\ holds[v] \in Counted IN
  /\ ValIs(v, IF lost THEN Null ELSE holds[u],
           IF lost THEN LoseVal(v) ELSE Added(LoseVal(v), holds[u]))
  /\ Cause((IF Last(holds[v]) THEN {"freed"} ELSE {}) \cup (IF lost THEN {"self"} ELSE {}))
  /\ UNCHANGED body

MoveVal(v, u) ==
  /\ u # v
  /\ holds' = [Emptied(v) EXCEPT ![v] = holds[u], ![u] = Null]
  /\ count' = LoseVal(v)
  /\ NoWriter
  /\ CauseIf(Last(holds[v]), "freed")
  /\ UNCHANGED body

\* What a value gets of an empty handle is undefined.
ValFromHandle(v, h) ==
  /\ ValIs(v, IF holds[h] = Null THEN Scalar ELSE holds[h], Added(LoseVal(v), holds[h]))
  /\ CauseIf(Last(holds[v]), "freed")
  /\ UNCHANGED body

\* set_null, set_bool, empty_array and their like
SetVal(v, b) ==
  /\ b \in {Null, Scalar, Shared}
  /\ ValIs(v, b, LoseVal(v))
  /\ CauseIf(Last(holds[v]), "freed")
  /\ UNCHANGED body

\* The address it gets may be the one it has just given up.
NewArray(v) ==
  /\ \E t \in Table :
       /\ LoseVal(v)[t] = 0
       /\ ValIs(v, t, [LoseVal(v) EXCEPT ![t] = 1])
       /\ body' = [body EXCEPT ![t] = Nothing]
  /\ CauseIf(Last(holds[v]), "freed")

MakeRef(v) ==
  /\ holds[v] \notin Ref
  /\ \E r \in Ref :
       /\ Free(r)
       /\ holds' = [holds EXCEPT ![r] = holds[v], ![v] = r]
       /\ count' = [count EXCEPT ![r] = 1]
  /\ NoWriter
  /\ UNCHANGED <<body, odd>>

-----------------------------------------------------------------------------
(***************************************************************************)
(* htab_cow.                                                               *)
(***************************************************************************)
Takes(w, t, x) ==
  /\ at' = [at EXCEPT ![w] = t]
  /\ from' = [from EXCEPT ![w] = x]
  /\ fresh' = [o \in Writer |->
                 o = w \/ (fresh[o] /\ Holders(holds', at[o]) = Holders(holds, at[o]))]

\* x gets a table t of its own with content e, instead of what it holds
Renews(w, x, t, e) ==
  /\ Free(t)
  /\ holds' = [holds EXCEPT ![x] = t]
  /\ count' = [Dropped(count, holds[x]) EXCEPT ![t] = 1]
  /\ body' = [body EXCEPT ![t] = e]
  /\ Takes(w, t, x)

\* mutant: an array that two hold is not duplicated
SeparateFromThree(w, x) ==
  /\ \E t \in Table :
       \/ holds[x] \in {Null, Shared} /\ Renews(w, x, t, Nothing)
       \/ holds[x] = Scalar /\ Renews(w, x, t, Wrapped)
       \/ holds[x] \in Table /\ count[holds[x]] > 2 /\ Renews(w, x, t, body[holds[x]])
       \/ /\ holds[x] = t /\ count[t] \in {1, 2}
          /\ UNCHANGED <<holds, count, body>>
          /\ Takes(w, t, x)
  /\ UNCHANGED odd

\* cowop, and giveback for a value that is no reference
Separate(w, x) ==
  /\ \E t \in Table :
       \/ holds[x] \in {Null, Shared} /\ Renews(w, x, t, Nothing)
       \/ holds[x] = Scalar /\ Renews(w, x, t, Wrapped)
       \/ holds[x] \in Table /\ count[holds[x]] > 1 /\ Renews(w, x, t, body[holds[x]])
       \/ /\ holds[x] = t /\ count[t] = 1
          /\ UNCHANGED <<holds, count, body>>
          /\ Takes(w, t, x)
  /\ UNCHANGED odd

LendHandle(w, h) == Separate(w, h)
LendVal(w, v) == holds[v] \notin Ref /\ Separate(w, v)

\* The value inside a reference, by its address (val_ptr::make_ref).
LendReferent(w, v) == holds[v] \in Ref /\ Separate(w, holds[v])

\* A reference itself: its table is taken as it is.
LendReference(w, v) ==
  LET p == Zarray(holds[v]) IN
  /\ holds[v] \in Ref
  /\ UNCHANGED <<holds, count, body>>
  /\ Takes(w, p, holds[v])
  /\ CauseIf(p \notin Table \/ count[p] > 1, "reference")

WriteTable(w, e) ==
  /\ at[w] \in Table
  /\ body' = [body EXCEPT ![at[w]] = e]
  /\ CauseIf(~fresh[w], "late")
  /\ UNCHANGED <<holds, count, at, from, fresh>>

-----------------------------------------------------------------------------
HandlesNext ==
  /\ odd = {}
  /\ \/ \E h, g \in Handle : AssignHandle(h, g) \/ MoveHandle(h, g)
     \/ \E h \in Handle : DropHandle(h) \/ InitHandle(h) \/ ResetHandle(h) \/ Adopt(h)
     \/ \E h \in Handle, v \in Val :
          AssignFromVal(h, v) \/ TakeVal(h, v) \/ GiveOut(h, v) \/ ValFromHandle(v, h)
     \/ \E h \in Handle, w \in Writer :
          AssignPointer(h, w) \/ AssignTable(h, w) \/ Duplicate(h, w) \/ LendHandle(w, h)
     \/ \E v, u \in Val : AssignVal(v, u) \/ MoveVal(v, u)
     \/ \E v \in Val : NewArray(v) \/ MakeRef(v) \/ \E b \in {Null, Scalar, Shared} : SetVal(v, b)
     \/ \E w \in Writer :
          \/ \E v \in Val : LendVal(w, v) \/ LendReferent(w, v) \/ LendReference(w, v)
          \/ \E e \in Content : WriteTable(w, e)

HandlesSpec == HandlesInit /\ [][HandlesNext]_handlesVars

-----------------------------------------------------------------------------
(* A handle holds an array or nothing, and a reference never another       *)
(* reference, so that zarray() ends after one; no count falls below zero.  *)
HandlesTypeOK ==
  /\ holds \in [Slot -> Arrays \cup {Null, Scalar} \cup Ref]
  /\ \A h \in Handle : holds[h] \in Arrays \cup {Null}
  /\ \A r \in Ref : holds[r] \notin Ref
  /\ count \in [Counted -> Nat]
  /\ body \in [Table -> Content]
  /\ at \in [Writer -> Arrays \cup {Null}]
  /\ from \in [Writer -> Slot \cup {Null}]
  /\ fresh \in [Writer -> BOOLEAN]
  /\ odd \subseteq {"self", "late", "freed", "taken", "reference"}

(* A count is the number of those who hold the table or reference, so that *)
(* none is freed while it is held, and none is left when nobody holds it   *)
(* any more.                                                               *)
CountsHold ==
  odd = {} => \A b \in Counted : count[b] = Cardinality(Holders(holds, b))

\* What is read of it: the content of an array, or what it is.
Seen(b) == IF b \in Table THEN body[b] ELSE IF b = Shared THEN Nothing ELSE b

Own == INSTANCE OwnValues WITH
  Cell   <- Ref,
  value  <- [x \in Slot |-> Seen(holds[x])],
  lent   <- from,
  broken <- odd # {}

(* What a handle or value holds is its own: whatever is done with others,  *)
(* and with the writers lent from others, it reads the same.               *)
ValuesAreOwn == Own!Spec

(* "On construction, it ensures that HashTable has a reference count of 1": *)
(* what a writer was given is not held by two.                             *)
LentIsSole == \A w \in Writer : fresh[w] /\ at[w] \in Table => count[at[w]] = 1
=============================================================================
