----------------------------- MODULE PageAssets -----------------------------
(***************************************************************************)
(* The assets of a page (assets.cpp): the definitions in assets_, the ones *)
(* a page asked for in order_ and mark_, and render_lock_, which ends the  *)
(* asking once part of the page is written.  add marks what an asset       *)
(* requires before the asset itself, by recursion, and has no other guard  *)
(* against coming back to where it was than the mark, which is set last.   *)
(* The text of a definition is left out but for its requirements.          *)
(***************************************************************************)
EXTENDS Integers, Sequences, FiniteSets, Functions

CONSTANTS
  Key,        \* asset keys
  Needs,      \* lists of keys: what an asset requires, what a page asks for
  NoAsset,    \* no definition, or null
  Blank,      \* a definition with nothing in it
  Page,       \* who asks, when it is not an asset
  MaxDepth    \* calls of add that fit on the stack

ASSUME PageAssetsAssumption ==
  /\ IsFiniteSet(Key)
  /\ Needs \subseteq Seq(Key)
  /\ NoAsset \notin Needs /\ Blank \notin Needs /\ NoAsset # Blank
  /\ Page \notin Key
  /\ MaxDepth \in Nat /\ MaxDepth >= Cardinality(Key)

VARIABLES
  assets,   \* assets_: a definition is the list of its requirements
  order,    \* order_
  mark,     \* mark_
  locked,   \* render_lock_
  adding,   \* the nested calls of add: for whom, and the names still to do
  crashed,  \* the stack of the process overflowed
  styled,   \* ghost: the assets whose styles the page has: any until
            \* cssHeader wrote them
  exact     \* ghost: no marked asset had to do without a requirement

page == <<order, mark, locked>>
vars == <<assets, order, mark, locked, adding, crashed, styled, exact>>

Definition == Needs \cup {Blank}
Frame      == [item : Key \cup {Page}, rest : Seq(Key)]

Idle == adding = <<>> /\ ~crashed
Top  == adding[Len(adding)]

Requires(k) == IF assets[k] \in Needs THEN Range(assets[k]) ELSE {}

Init ==
  /\ assets \in [Key -> Definition \cup {NoAsset}]
  /\ order = <<>> /\ mark = {} /\ locked = FALSE
  /\ adding = <<>> /\ crashed = FALSE
  /\ styled = Key /\ exact = TRUE
-----------------------------------------------------------------------------
(* add and markAdd, one name at a time.                                    *)

\* When locked, add throws "Assets locked during render" and changes nothing.
Add(list) ==
  /\ Idle /\ ~locked
  /\ adding' = <<[item |-> Page, rest |-> list]>>
  /\ UNCHANGED <<assets, page, crashed, styled, exact>>

\* mutant: a name that needs no work is looked at again
Stays == adding

Onward == [adding EXCEPT ![Len(adding)].rest = Tail(@)]

At(k) == adding # <<>> /\ Top.rest # <<>> /\ k = Head(Top.rest)

\* mutant: the mark is not looked at
NeverMarked(k) == FALSE

Marked(k) == k \in mark

VisitMarked(k) ==
  /\ At(k) /\ Marked(k)
  /\ adding' = Onward
  /\ UNCHANGED <<assets, page, crashed, styled, exact>>

\* "Asset Key not found": the rest of this list is dropped, but whoever it
\* was required by is still marked, and the lists below go on.
VisitUnknown(k) ==
  /\ At(k) /\ ~Marked(k) /\ assets[k] = NoAsset
  /\ adding' = [adding EXCEPT ![Len(adding)].rest = <<>>]
  /\ exact' = FALSE
  /\ UNCHANGED <<assets, page, crashed, styled>>

VisitBlank(k) ==
  /\ At(k) /\ ~Marked(k) /\ assets[k] = Blank
  /\ adding' = Onward
  /\ exact' = FALSE
  /\ UNCHANGED <<assets, page, crashed, styled>>

\* mutant: the list in hand is passed on, in place of the requirements
CallSameList(k) == Append(Onward, [item |-> k, rest |-> Top.rest])

Call(k) == Append(Onward, [item |-> k, rest |-> assets[k]])

VisitNew(k) ==
  /\ At(k) /\ ~Marked(k) /\ assets[k] \in Needs
  /\ IF Len(adding) <= MaxDepth
     THEN adding' = Call(k) /\ UNCHANGED crashed
     ELSE adding' = <<>> /\ crashed' = TRUE
  /\ UNCHANGED <<assets, page, styled, exact>>

Visit(k) == VisitMarked(k) \/ VisitUnknown(k) \/ VisitBlank(k) \/ VisitNew(k)

\* mutant: an asset is put before what was marked while it was looked at
Prepend(k) == order' = <<k>> \o order /\ mark' = mark \cup {k}

Place(k) == order' = Append(order, k) /\ mark' = mark \cup {k}

\* The names of a list are done: whoever required them is marked.
Finish ==
  /\ adding # <<>> /\ Top.rest = <<>>
  /\ IF Top.item = Page THEN UNCHANGED <<order, mark>> ELSE Place(Top.item)
  /\ adding' = SubSeq(adding, 1, Len(adding) - 1)
  /\ UNCHANGED <<assets, locked, crashed, styled, exact>>
-----------------------------------------------------------------------------
(* The other calls of the page.                                            *)

\* addAssets, one definition at a time: an old one is overwritten
AddAsset(k, d) ==
  /\ Idle
  /\ assets' = [assets EXCEPT ![k] = d]
  /\ exact' = (exact /\ k \notin Range(order))
  /\ UNCHANGED <<page, adding, crashed, styled>>

Splice(s, i) == SubSeq(s, 1, i - 1) \o SubSeq(s, i + 1, Len(s))

\* unmark looks neither at what requires the asset nor at the lock
Unmark(k) ==
  /\ Idle /\ k \in mark
  /\ \E i \in DOMAIN order :
       /\ order[i] = k /\ \A j \in 1 .. i - 1 : order[j] # k
       /\ order' = Splice(order, i)
  /\ mark' = mark \ {k}
  /\ exact' = (exact /\ \A m \in Range(order) : k \notin Requires(m))
  /\ UNCHANGED <<assets, locked, adding, crashed, styled>>

\* header, link, jsPut and footer
Write ==
  /\ Idle
  /\ locked' = TRUE
  /\ UNCHANGED <<assets, order, mark, adding, crashed, styled, exact>>

\* mutant: the styles are written and the page stays open for more
CssUnlocked == styled' = mark /\ UNCHANGED locked

Css == styled' = mark /\ locked' = TRUE

CssHeader ==
  /\ Idle /\ Css
  /\ UNCHANGED <<assets, order, mark, adding, crashed, exact>>

\* jsPull takes the scripts out of the definitions of keys; one that held
\* nothing else is blank now, and so is one that there was not
JsPull(keys) ==
  /\ Idle
  /\ locked' = TRUE
  /\ \E gone \in SUBSET {k \in keys : assets[k] = <<>>} :
       assets' = [k \in Key |-> IF k \in gone \/ (k \in keys /\ assets[k] = NoAsset)
                                THEN Blank ELSE assets[k]]
  /\ UNCHANGED <<order, mark, adding, crashed, styled, exact>>

Reset ==
  /\ Idle
  /\ order' = <<>> /\ mark' = {} /\ locked' = FALSE
  /\ styled' = Key /\ exact' = TRUE
  /\ UNCHANGED <<assets, adding, crashed>>

\* the next request, after one that crashed the process
Restart ==
  /\ crashed
  /\ order' = <<>> /\ mark' = {} /\ locked' = FALSE
  /\ adding' = <<>> /\ crashed' = FALSE
  /\ styled' = Key /\ exact' = TRUE
  /\ UNCHANGED assets

Step == Finish \/ \E k \in Key : Visit(k)

Next ==
  \/ Step
  \/ \E list \in Needs : Add(list)
  \/ \E k \in Key, d \in Definition : AddAsset(k, d)
  \/ \E k \in Key : Unmark(k) \/ JsPull({k})
  \/ JsPull(mark)
  \/ Write \/ CssHeader \/ Reset \/ Restart

\* A call runs on its own thread, to its end: no step waits for anything.
Spec == Init /\ [][Next]_vars /\ WF_vars(Step)
-----------------------------------------------------------------------------
TypeOK ==
  /\ assets \in [Key -> Definition \cup {NoAsset}]
  /\ order \in Seq(Key)
  /\ mark \subseteq Key
  /\ locked \in BOOLEAN
  /\ adding \in Seq(Frame)
  /\ crashed \in BOOLEAN
  /\ styled \subseteq Key
  /\ exact \in BOOLEAN

(* The page gets each marked asset once, and no other.                     *)
OnceEach == Range(order) = mark /\ Len(order) = Cardinality(mark)

(* Every asset comes after all that it requires, in whatever order and     *)
(* nesting they were asked for, unless one was unknown or blank, was taken *)
(* out by unmark, or the asset was defined anew.                           *)
RequiresFirst ==
  exact =>
    \A i \in DOMAIN order :
      \A r \in Requires(order[i]) : \E j \in 1 .. i - 1 : order[j] = r

(* After cssHeader no asset joins the page without its styles: its scripts *)
(* would run on a page that lacks them.                                    *)
NothingAfterHead == mark \subseteq styled

\* A set of assets in which each requires one of the set.
Cyclic == \E C \in SUBSET Key :
            C # {} /\ \A k \in C : Requires(k) \cap C # {}

(* add runs out of stack only when assets require each other in a circle.  *)
NoRunaway == crashed => Cyclic

(* Without such a circle every call of add comes to its end.               *)
AddEnds == (adding # <<>> /\ ~Cyclic) ~> (adding = <<>> /\ ~crashed)
=============================================================================
