-------------------------------- MODULE Rows --------------------------------
(***************************************************************************)
(* The rows of a model: what an IRow holds, what it takes the database to   *)
(* hold, and what the database does hold (wcd/irow.cpp, and the part of     *)
(* wcd/model.cpp, ibuild.cpp and bindings.cpp that reads, saves and deletes  *)
(* one row by its primary key).                                             *)
(*                                                                          *)
(* Several requests work on the rows of one table, each with an IRow of its  *)
(* own.  An IRow keeps two arrays: data_, which the script changes, and      *)
(* original_, what the row held when it was last read or saved.  A save      *)
(* compares the two and sends what differs, so the two arrays decide which   *)
(* columns are written and original_ alone whether to insert or to update.   *)
(* Between the save and the reload that may follow it other requests act.    *)
(*                                                                          *)
(* A statement that fails changes neither table nor row: it is a stutter.    *)
(* The time stamps of a model that asks for them are left out, and so are    *)
(* keys of more than one column.                                            *)
(***************************************************************************)
EXTENDS Naturals, FiniteSets

CONSTANTS
  Row,      \* the IRow objects, one in the hands of each request
  Ids,      \* the values of the primary key
  Cols,     \* the other columns of the table
  Vals,     \* what a column may hold besides NULL
  Key,      \* the name of the key's column
  NULL,     \* SQL's and PHP's null
  Absent,   \* an array has no such element
  Gone,     \* the table has no row of this key
  Inputs,   \* the arrays a script makes a row of
  Assigned, \* what a script assigns: pairs of an element and a value
  Removed,  \* the elements a script removes
  MaxDiffer \* bound: elements a script changes before the next save

Fields == Cols \cup {Key}

\* What an array of a row may hold: an element may be missing or null.
Contents == {d \in [Fields -> Vals \cup Ids \cup {NULL, Absent}] :
               /\ d[Key] \in Ids \cup {NULL, Absent}
               /\ \A c \in Cols : d[c] \in Vals \cup {NULL, Absent}}

ASSUME KeysAssumption == Key \notin Cols /\ NULL \notin Ids /\ Absent \notin Ids

ASSUME ValuesAssumption ==
  /\ Absent \notin Vals /\ Absent # NULL
  /\ Gone \notin [Cols -> Vals \cup {NULL}]

ASSUME InputsAssumption ==
  /\ Inputs \subseteq Contents
  /\ Assigned \subseteq (Cols \X (Vals \cup {NULL})) \cup ({Key} \X (Ids \cup {NULL}))
  /\ Removed \subseteq Fields
  /\ MaxDiffer \in Nat

VARIABLES
  table,  \* the database: the columns of the row of each key, or Gone
  row,    \* of each IRow: data_, original_, and whether a reload is due
  given,  \* the elements the script assigned since original_ was last set
  doubt   \* history: original_ is no longer known to be what the table holds

vars == <<table, row, given, doubt>>

Empty == [f \in Fields |-> Absent]

Present(d) == {f \in Fields : d[f] # Absent}

\* IRow::exists: the array of what was read or saved has elements.
Exists(r) == row[r].orig # Empty

\* The row of a key as a select returns it.
Fetched(k) == [f \in Fields |-> IF f = Key THEN k ELSE table[k][f]]

InTable(k) == k \in Ids /\ table[k] # Gone

\* The elements in which data_ differs from original_.  An element that was
\* removed is not among them.
Differs(r) == {f \in Present(row[r].data) : row[r].data[f] # row[r].orig[f]}

\* mutant: everything the row holds is sent
AllPresent(r) == {Present(row[r].data)}

\* IRow::getDirty compares two nulls by a word that null leaves unset: a null
\* the script assigned over a null may or may not count as a difference.
Dirty(r) ==
  {Differs(r) \cup x : x \in SUBSET {f \in given[r] : row[r].data[f] = NULL
                                                   /\ row[r].orig[f] = NULL}}

\* The other rows that believe something of the row of key k.
Believers(r, k) == {q \in Row \ {r} : row[q].orig[Key] = k}

\* An empty table, and in each request a new row.
Init ==
  /\ table = [k \in Ids |-> Gone]
  /\ row \in [Row -> [data : Inputs, orig : {Empty}, reload : {FALSE}]]
  /\ given = [r \in Row |-> Present(row[r].data)]
  /\ doubt = [r \in Row |-> FALSE]

\* Row r is in the hands of its script.
Free(r) == ~row[r].reload

\* Bound: the elements a script changes of a row between two saves, by itself
\* (f) or with an array (d).
FewChanges(r, f) ==
  Exists(r) => Cardinality({f} \cup given[r] \cup Differs(r)) <= MaxDiffer
FewDiffer(r, d) ==
  Exists(r) => Cardinality({f \in Fields : d[f] # row[r].orig[f]}) <= MaxDiffer

\* Model::newRow, Model::row and the constructor: a new object with an array of
\* the script's, not saved.  (One made as saved is as SetData leaves it.)
NewRow(r, d) ==
  /\ Free(r)
  /\ row' = [row EXCEPT ![r].data = d, ![r].orig = Empty]
  /\ given' = [given EXCEPT ![r] = Present(d)]
  /\ doubt' = [doubt EXCEPT ![r] = FALSE]
  /\ UNCHANGED table

\* IRow::setData.  What the row took for saved stays, unless the caller says
\* that the array is what the table holds.
SetData(r, d, saved) ==
  /\ Free(r) /\ (~saved => FewDiffer(r, d))
  /\ row' = [row EXCEPT ![r].data = d, ![r].orig = IF saved THEN d ELSE @]
  /\ given' = [given EXCEPT ![r] = IF saved THEN {} ELSE @ \cup Present(d)]
  /\ doubt' = [doubt EXCEPT ![r] = @ \/ saved]
  /\ UNCHANGED table

\* Hmap::set on a row, and each element of IRow::mergeData, which stops at the
\* first unknown name and keeps what it merged.
Set(r, f, v) ==
  /\ Free(r) /\ FewChanges(r, f)
  /\ row' = [row EXCEPT ![r].data[f] = v]
  /\ given' = [given EXCEPT ![r] = @ \cup {f}]
  /\ UNCHANGED <<table, doubt>>

\* Hmap::unset on a row.
Unset(r, f) ==
  /\ Free(r) /\ FewChanges(r, f)
  /\ row' = [row EXCEPT ![r].data[f] = Absent]
  /\ UNCHANGED <<table, given, doubt>>

\* IRow::setExists, called by the script: what the row holds counts as saved.
SetExists(r) ==
  /\ Free(r)
  /\ row' = [row EXCEPT ![r].orig = row[r].data]
  /\ given' = [given EXCEPT ![r] = {}]
  /\ doubt' = [doubt EXCEPT ![r] = @ \/ row[r].data # row[r].orig]
  /\ UNCHANGED table

\* Row r now holds the table's row of key k.
Holds(r, k) ==
  /\ row' = [row EXCEPT ![r] = [data |-> Fetched(k), orig |-> Fetched(k),
                                reload |-> FALSE]]
  /\ given' = [given EXCEPT ![r] = {}]
  /\ doubt' = [doubt EXCEPT ![r] = FALSE]
  /\ UNCHANGED table

\* Model::byKeyValue and Model::readRow: a new object for the row found.
\* (IRow::read calls readRow and drops the object it returns: a stutter.)
Find(r, k) == Free(r) /\ InTable(k) /\ Holds(r, k)

\* The table gets the columns cs of row r where its key is k.  Whoever believed
\* something of the row of that key may be wrong now.
Written(r, k, cs) ==
  [table EXCEPT ![k] = [c \in Cols |-> IF c \in cs THEN row[r].data[c] ELSE @[c]]]

\* IBuild::update of the columns that differ, where the key is what the row
\* holds now.  A null key becomes a comparison with a text no key has; a key
\* that is not in the table matches nothing; either way the statement succeeds.
Update(r, cs) ==
  LET k == row[r].data[Key] IN
  /\ table' = IF InTable(k) THEN Written(r, k, cs) ELSE table
  /\ doubt' = [q \in Row |->
                 \/ doubt[q]
                 \/ q = r /\ k # row[r].orig[Key]
                 \/ q \in Believers(r, k) /\ table' # table]

\* Model::saveRow of a row that was read or saved: nothing to do unless it
\* differs; then whatever the update found, the row counts as saved.
SaveOld(r, reload) ==
  /\ Free(r) /\ Exists(r)
  /\ \E cs \in Dirty(r) :
       /\ cs # {}
       /\ Update(r, cs)
  /\ row' = [row EXCEPT ![r].orig = row[r].data, ![r].reload = reload]
  /\ given' = [given EXCEPT ![r] = {}]

\* mutant: the key the database made is not part of what counts as saved
SaveNewKeyless(r, reload) ==
  /\ Free(r) /\ ~Exists(r)
  /\ \E k \in Ids :
       /\ ~InTable(k)
       /\ row[r].data[Key] \in {k, NULL, Absent}
       /\ table' = [table EXCEPT ![k] =
                      [c \in Cols |-> IF row[r].data[c] = Absent
                                      THEN NULL ELSE row[r].data[c]]]
       /\ row' = [row EXCEPT ![r] = [data |-> [@.data EXCEPT ![Key] = k],
                                     orig |-> @.data,
                                     reload |-> reload]]
       /\ doubt' = [q \in Row |-> q # r /\ (doubt[q] \/ q \in Believers(r, k))]
  /\ given' = [given EXCEPT ![r] = {}]

\* Model::saveRow of a new row: an insert, which is refused when the key is in
\* use; a key that is null is made by the database and returned.
SaveNew(r, reload) ==
  /\ Free(r) /\ ~Exists(r)
  /\ \E k \in Ids :
       /\ ~InTable(k)
       /\ row[r].data[Key] \in {k, NULL, Absent}
       /\ table' = [table EXCEPT ![k] =
                      [c \in Cols |-> IF row[r].data[c] = Absent
                                      THEN NULL ELSE row[r].data[c]]]
       /\ row' = [row EXCEPT ![r] = [data |-> [@.data EXCEPT ![Key] = k],
                                     orig |-> [@.data EXCEPT ![Key] = k],
                                     reload |-> reload]]
       /\ doubt' = [q \in Row |-> q # r /\ (doubt[q] \/ q \in Believers(r, k))]
  /\ given' = [given EXCEPT ![r] = {}]

\* The reload at the end of Model::saveRow: what readRow finds is copied.
Reload(r) ==
  /\ row[r].reload
  /\ InTable(row[r].data[Key])
  /\ Holds(r, row[r].data[Key])

\* It finds nothing, or it fails: the row stays as it was saved.
ReloadNothing(r) ==
  /\ row[r].reload
  /\ row' = [row EXCEPT ![r].reload = FALSE]
  /\ UNCHANGED <<table, given, doubt>>

\* Model::deleteRow by the key the row holds now; the row is not told.
Delete(r) ==
  LET k == row[r].data[Key] IN
  /\ Free(r)
  /\ InTable(k)
  /\ table' = [table EXCEPT ![k] = Gone]
  /\ doubt' = [q \in Row |-> doubt[q] \/ row[q].orig[Key] = k]
  /\ UNCHANGED <<row, given>>

Script(r) ==
  \/ \E d \in Inputs : NewRow(r, d)
  \/ \E d \in Inputs, saved \in BOOLEAN : SetData(r, d, saved)
  \/ \E p \in Assigned : Set(r, p[1], p[2])
  \/ \E f \in Removed : Unset(r, f)
  \/ SetExists(r)
  \/ \E k \in Ids : Find(r, k)
  \/ \E reload \in BOOLEAN : SaveOld(r, reload) \/ SaveNew(r, reload)
  \/ Delete(r)

Next == \E r \in Row : Script(r) \/ Reload(r) \/ ReloadNothing(r)

Spec == Init /\ [][Next]_vars

-----------------------------------------------------------------------------
(* Properties. *)

\* The types of the table, of the rows and of what is known of them.
TypeOK ==
  /\ table \in [Ids -> [Cols -> Vals \cup {NULL}] \cup {Gone}]
  /\ row \in [Row -> [data : Contents, orig : Contents, reload : BOOLEAN]]
  /\ given \in [Row -> SUBSET Fields]
  /\ doubt \in [Row -> BOOLEAN]

\* A row that was read or saved believes of each column it knows what the table
\* holds, as long as no other request wrote or deleted that row of the table, it
\* was not itself deleted, its key was not changed, and no script declared it
\* saved: saveRow marks the row as saved (setExists) after statements that may
\* have matched nothing, and its next save depends on that belief.
BeliefIsTrue ==
  \A r \in Row : Exists(r) /\ ~doubt[r] =>
    /\ InTable(row[r].orig[Key])
    /\ \A c \in Cols : row[r].orig[c] \in {Absent, table[row[r].orig[Key]][c]}

\* No save writes a column its own script did not assign, and none writes another
\* row of the table than the one it was read from unless its key was assigned:
\* two requests that hold the same row and change different columns both keep
\* their changes, however old the rest of what they hold is.
OnlyWhatWasGiven ==
  [][\A k \in Ids, c \in Cols :
       InTable(k) /\ table'[k] # Gone /\ table'[k][c] # table[k][c]
         => \E r \in Row :
              /\ Exists(r) /\ row'[r].orig = row[r].data
              /\ c \in given[r]
              /\ row[r].data[Key] = k
              /\ row[r].orig[Key] = k \/ Key \in given[r]]_vars

=============================================================================
