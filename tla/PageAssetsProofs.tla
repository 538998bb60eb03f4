-------------------------- MODULE PageAssetsProofs --------------------------
(***************************************************************************)
(* Proofs about PageAssets.  The invariant says of the calls in progress   *)
(* that each works through requirements of the asset it is for, that the   *)
(* next call is for one of those, and, as long as nothing was missing,     *)
(* that the requirements already gone through are marked.                  *)
(***************************************************************************)
EXTENDS PageAssets, Handles, FiniteSetTheorems, SequenceTheorems, TLAPS

\* The calls of add are for the page first, then each for a requirement of
\* the one before, and have requirements of their asset left.
Chain ==
  /\ adding # <<>> => adding[1].item = Page
  /\ \A i \in DOMAIN adding : i > 1 =>
       /\ adding[i].item \in Key /\ assets[adding[i].item] \in Needs
       /\ Range(adding[i].rest) \subseteq Requires(adding[i].item)
       /\ i > 2 => adding[i].item \in Requires(adding[i - 1].item)

\* What a call in progress is done with is marked, or next in hand.
Met ==
  exact => \A i \in DOMAIN adding : i > 1 =>
    \A r \in Requires(adding[i].item) :
      \/ r \in mark \/ r \in Range(adding[i].rest)
      \/ i < Len(adding) /\ r = adding[i + 1].item

Placed == mark \subseteq Range(order)

Dead == crashed => adding = <<>>

Shut == styled # Key => locked /\ adding = <<>>

\* No call in progress is for an asset that is marked.
Fresh == \A i \in DOMAIN adding : i > 1 => adding[i].item \notin mark

Done(k) == k \in mark \/ assets[k] = Blank

\* Call i has done n of the requirements of its asset, the last of them being
\* the next call when there is one; or it met an unknown one after those.
Reached(i, n) ==
  LET list == assets[adding[i].item]
      rest == adding[i].rest
  IN /\ n <= Len(list)
     /\ i < Len(adding) => n > 0 /\ list[n] = adding[i + 1].item
     /\ \A m \in 1 .. n : (i < Len(adding) /\ m = n) \/ Done(list[m])
     /\ \/ Len(rest) = Len(list) - n /\ \A m \in 1 .. Len(rest) : rest[m] = list[n + m]
        \/ /\ i = Len(adding) /\ rest = <<>> /\ n < Len(list)
           /\ assets[list[n + 1]] = NoAsset /\ list[n + 1] \notin mark

Onto == \A i \in DOMAIN adding : i > 1 => \E n \in Nat : Reached(i, n)

Distinct == \A i, j \in DOMAIN order : order[i] = order[j] => i = j

IInv ==
  TypeOK /\ Chain /\ Met /\ Placed /\ Dead /\ Shut /\ Fresh /\ Onto /\ Distinct
  /\ RequiresFirst /\ NothingAfterHead /\ NoRunaway /\ OnceEach
-----------------------------------------------------------------------------
(* A step of add changes the call on top only.                             *)

LEMMA OnwardFacts ==
  ASSUME TypeOK, NEW k \in Key, At(k)
  PROVE  /\ Onward \in Seq(Frame) /\ Len(Onward) = Len(adding)
         /\ DOMAIN Onward = DOMAIN adding
         /\ \A i \in DOMAIN adding : Onward[i].item = adding[i].item
         /\ \A i \in DOMAIN adding : i # Len(adding) => Onward[i] = adding[i]
         /\ Range(Onward[Len(adding)].rest) \subseteq Range(Top.rest)
         /\ \A r \in Range(Top.rest) : r = k \/ r \in Range(Onward[Len(adding)].rest)
         /\ k \in Range(Top.rest)
<1> USE DEF TypeOK
<1>1. adding \in Seq(Frame) /\ adding # <<>> /\ Len(adding) \in DOMAIN adding
  BY DEF At
<1>2. Top \in Frame /\ Top.rest \in Seq(Key) /\ Top.rest # <<>>
  <2>1. Top \in Frame
    BY <1>1 DEF Top
  <2>2. QED  BY <2>1 DEF Frame, At
<1>3. Tail(Top.rest) \in Seq(Key)
  BY <1>2
<1>4. Onward = [adding EXCEPT ![Len(adding)] = [Top EXCEPT !.rest = Tail(Top.rest)]]
  BY <1>1 DEF Onward, Top
<1>5. [Top EXCEPT !.rest = Tail(Top.rest)] \in Frame
  BY <1>2, <1>3 DEF Frame
<1>6. Onward \in Seq(Frame) /\ Len(Onward) = Len(adding) /\ DOMAIN Onward = DOMAIN adding
  BY <1>1, <1>4, <1>5
<1>7. \A i \in DOMAIN adding : i # Len(adding) => Onward[i] = adding[i]
  BY <1>1, <1>4
<1>8. Onward[Len(adding)] = [Top EXCEPT !.rest = Tail(Top.rest)]
  BY <1>1, <1>4
<1>9. Onward[Len(adding)].item = Top.item /\ Onward[Len(adding)].rest = Tail(Top.rest)
  BY <1>2, <1>8 DEF Frame
<1>10. \A i \in DOMAIN adding : Onward[i].item = adding[i].item
  BY <1>7, <1>9 DEF Top
<1>11. Range(Tail(Top.rest)) \subseteq Range(Top.rest)
  BY <1>2 DEF Range
<1>12. k = Top.rest[1] /\ k \in Range(Top.rest)
  BY <1>2 DEF At, Range
<1>13. \A r \in Range(Top.rest) : r = k \/ r \in Range(Tail(Top.rest))
  <2>1. ASSUME NEW n \in DOMAIN Top.rest, n # 1
        PROVE  Top.rest[n] \in Range(Tail(Top.rest))
    <3>1. n - 1 \in DOMAIN Tail(Top.rest) /\ Tail(Top.rest)[n - 1] = Top.rest[n]
      BY <1>2, <2>1
    <3>2. QED  BY <3>1 DEF Range
  <2>2. ASSUME NEW r \in Range(Top.rest)
        PROVE  r = k \/ r \in Range(Tail(Top.rest))
    <3>1. PICK n \in DOMAIN Top.rest : r = Top.rest[n]
      BY <2>2 DEF Range
    <3>2. QED  BY <1>12, <2>1, <3>1
  <2>3. QED  BY <2>2
<1>14. QED  BY <1>6, <1>7, <1>9, <1>10, <1>11, <1>12, <1>13

LEMMA SpliceFacts ==
  ASSUME NEW s \in Seq(Key), NEW i \in DOMAIN s
  PROVE  /\ Splice(s, i) \in Seq(Key) /\ Len(Splice(s, i)) = Len(s) - 1
         /\ \A j \in 1 .. Len(s) - 1 :
              Splice(s, i)[j] = IF j < i THEN s[j] ELSE s[j + 1]
<1> DEFINE f == SubSeq(s, 1, i - 1)
           t == SubSeq(s, i + 1, Len(s))
<1>1. f \in Seq(Key) /\ Len(f) = i - 1 /\ \A j \in 1 .. i - 1 : f[j] = s[j]
  OBVIOUS
<1>2. t \in Seq(Key) /\ Len(t) = Len(s) - i
      /\ \A j \in 1 .. Len(s) - i : t[j] = s[i + j]
  OBVIOUS
<1>3. Len(s) \in Nat /\ i \in 1 .. Len(s)
  OBVIOUS
<1>4. Splice(s, i) = f \o t
  BY DEF Splice
<1> HIDE DEF f, t
<1>5. /\ f \o t \in Seq(Key) /\ Len(f \o t) = Len(s) - 1
      /\ \A j \in 1 .. Len(s) - 1 :
           (f \o t)[j] = IF j <= Len(f) THEN f[j] ELSE t[j - Len(f)]
  <2>1. Len(f) + Len(t) = Len(s) - 1
    BY <1>1, <1>2, <1>3
  <2>2. /\ f \o t \in Seq(Key) /\ Len(f \o t) = Len(f) + Len(t)
        /\ \A j \in 1 .. Len(f) + Len(t) :
             (f \o t)[j] = IF j <= Len(f) THEN f[j] ELSE t[j - Len(f)]
    BY <1>1, <1>2, ConcatProperties
  <2>3. QED  BY <2>1, <2>2
<1>6. ASSUME NEW j \in 1 .. Len(s) - 1
      PROVE  (f \o t)[j] = IF j < i THEN s[j] ELSE s[j + 1]
  <2>1. CASE j < i
    BY <1>1, <1>3, <1>5, <2>1
  <2>2. CASE ~(j < i)
    <3>1. j - (i - 1) \in 1 .. Len(s) - i /\ i + (j - (i - 1)) = j + 1
          /\ ~(j <= i - 1)
      BY <1>3, <2>2
    <3>2. (f \o t)[j] = t[j - (i - 1)]
      BY <1>1, <1>5, <3>1
    <3>3. QED  BY <1>2, <2>2, <3>1, <3>2
  <2>3. QED  BY <2>1, <2>2
<1>7. QED  BY <1>4, <1>5, <1>6

LEMMA TypeStep == TypeOK /\ [Next]_vars => TypeOK'
<1> SUFFICES ASSUME TypeOK, [Next]_vars PROVE TypeOK'
  OBVIOUS
<1> USE DEF TypeOK
<1>1. CASE UNCHANGED vars
  BY <1>1 DEF vars, page
<1>2. CASE Finish
  <2>1. SubSeq(adding, 1, Len(adding) - 1) \in Seq(Frame)
    BY <1>2 DEF Finish
  <2>2. Top \in Frame
    BY <1>2 DEF Finish, Top
  <2>3. order' \in Seq(Key) /\ mark' \subseteq Key
    <3>1. CASE Top.item = Page
      BY <1>2, <3>1 DEF Finish
    <3>2. CASE Top.item # Page
      <4>1. Top.item \in Key
        BY <2>2, <3>2 DEF Frame
      <4>2. order' = Append(order, Top.item) /\ mark' = mark \cup {Top.item}
        BY <1>2, <3>2 DEF Finish, Place
      <4>3. QED  BY <4>1, <4>2
    <3>3. QED  BY <3>1, <3>2
  <2>4. QED  BY <1>2, <2>1, <2>3 DEF Finish
<1>3. ASSUME NEW k \in Key, Visit(k) PROVE TypeOK'
  <2>1. At(k)
    BY <1>3 DEF Visit, VisitMarked, VisitUnknown, VisitBlank, VisitNew
  <2>2. Onward \in Seq(Frame) /\ Top \in Frame /\ Len(adding) \in DOMAIN adding
    BY <2>1, OnwardFacts DEF At, Top
  <2>3. CASE VisitMarked(k) \/ VisitBlank(k)
    BY <2>2, <2>3 DEF VisitMarked, VisitBlank, page
  <2>4. CASE VisitUnknown(k)
    <3>1. [Top EXCEPT !.rest = <<>>] \in Frame
      <4>1. <<>> \in Seq(Key)
        OBVIOUS
      <4>2. QED  BY <2>2, <4>1 DEF Frame
    <3>2. adding' = [adding EXCEPT ![Len(adding)] = [Top EXCEPT !.rest = <<>>]]
      BY <2>2, <2>4 DEF VisitUnknown, Top
    <3>3. adding' \in Seq(Frame)
      BY <2>2, <3>1, <3>2
    <3>4. QED  BY <2>4, <3>3 DEF VisitUnknown, page
  <2>5. CASE VisitNew(k)
    <3>1. assets[k] \in Seq(Key)
      BY <2>5, PageAssetsAssumption DEF VisitNew
    <3>2. Call(k) \in Seq(Frame)
      BY <2>2, <3>1 DEF Call, Frame
    <3>3. adding' \in Seq(Frame) /\ crashed' \in BOOLEAN
      <4>1. CASE Len(adding) <= MaxDepth
        BY <2>5, <3>2, <4>1 DEF VisitNew
      <4>2. CASE ~(Len(adding) <= MaxDepth)
        BY <2>5, <4>2 DEF VisitNew
      <4>3. QED  BY <4>1, <4>2
    <3>4. QED  BY <2>5, <3>3 DEF VisitNew, page
  <2>6. QED  BY <1>3, <2>3, <2>4, <2>5 DEF Visit
<1>4. ASSUME NEW list \in Needs, Add(list) PROVE TypeOK'
  BY <1>4, PageAssetsAssumption DEF Add, page, Frame
<1>5. ASSUME NEW k \in Key, NEW d \in Definition, AddAsset(k, d) PROVE TypeOK'
  BY <1>5 DEF AddAsset, page
<1>6. ASSUME NEW k \in Key, Unmark(k) PROVE TypeOK'
  BY <1>6, SpliceFacts DEF Unmark
<1>7. ASSUME NEW keys, JsPull(keys) PROVE TypeOK'
  BY <1>7 DEF JsPull, Definition
<1>8. CASE Write
  BY <1>8 DEF Write
<1>9. CASE CssHeader
  BY <1>9 DEF CssHeader, Css
<1>10. CASE Reset \/ Restart
  <2>1. <<>> \in Seq(Key) /\ <<>> \in Seq(Frame)
    OBVIOUS
  <2>2. QED  BY <1>10, <2>1 DEF Reset, Restart
<1>11. QED
  BY <1>1, <1>2, <1>3, <1>4, <1>5, <1>6, <1>7, <1>8, <1>9, <1>10 DEF Next, Step

\* While no call is in progress nothing is said of calls.
LEMMA NoCalls == adding' = <<>> => Chain' /\ Met'
BY DEF Chain, Met

\* Every other step than one of add, or a crash, is taken between calls.
LEMMA Between ==
  ASSUME TypeOK, Dead, [Next]_vars, ~Step, ~UNCHANGED vars,
         \A list \in Needs : ~Add(list)
  PROVE  adding' = <<>> /\ (crashed' => crashed)
BY DEF Next, Step, AddAsset, Unmark, JsPull, Write, CssHeader, Css, Reset, Restart,
       Idle, Dead

LEMMA ChainStep == TypeOK /\ Chain /\ Dead /\ [Next]_vars => Chain' /\ Dead'
<1> SUFFICES ASSUME TypeOK, Chain, Dead, [Next]_vars PROVE Chain' /\ Dead'
  OBVIOUS
<1>1. CASE UNCHANGED vars
  BY <1>1 DEF vars, page, Chain, Dead, Requires
<1>2. CASE Finish
  <2>1. UNCHANGED <<assets, crashed>> /\ adding # <<>> /\ adding \in Seq(Frame)
        /\ adding' = SubSeq(adding, 1, Len(adding) - 1)
    BY <1>2 DEF Finish, TypeOK
  <2>2. /\ \A i \in DOMAIN adding' : i \in DOMAIN adding /\ adding'[i] = adding[i]
        /\ adding' # <<>> => 1 \in DOMAIN adding'
        /\ \A i \in DOMAIN adding' : i > 1 => i - 1 \in DOMAIN adding'
    BY <2>1
  <2>4. Chain'
    BY <2>1, <2>2 DEF Chain, Requires
  <2>5. QED  BY <2>1, <2>4 DEF Dead
<1>3. ASSUME NEW k \in Key, Visit(k) PROVE Chain' /\ Dead'
  <2>1. At(k) /\ UNCHANGED assets
    BY <1>3 DEF Visit, VisitMarked, VisitUnknown, VisitBlank, VisitNew
  <2>2. ~crashed /\ adding \in Seq(Frame) /\ Len(adding) \in DOMAIN adding
    BY <2>1 DEF At, Dead, TypeOK
  <2> DEFINE Tops(a) == /\ a \in Seq(Frame) /\ Len(a) = Len(adding)
                        /\ \A i \in DOMAIN adding : a[i].item = adding[i].item
                        /\ \A i \in DOMAIN adding : i # Len(adding) => a[i] = adding[i]
                        /\ Range(a[Len(adding)].rest) \subseteq Range(Top.rest)
  <2>3. ASSUME NEW a, Tops(a), adding' = a PROVE Chain'
    <3>1. \A i \in DOMAIN adding : Range(a[i].rest) \subseteq Range(adding[i].rest)
      BY <2>2, <2>3 DEF Top
    <3>2. DOMAIN a = DOMAIN adding /\ a # <<>>
          /\ \A i \in DOMAIN adding : i > 1 => i - 1 \in DOMAIN adding
          /\ 1 \in DOMAIN adding
      BY <2>2, <2>3
    <3>3. \A i \in DOMAIN adding : a[i].item = adding[i].item
      BY <2>3
    <3>4. ASSUME NEW i \in DOMAIN a, i > 1
          PROVE  /\ a[i].item \in Key /\ assets[a[i].item] \in Needs
                 /\ Range(a[i].rest) \subseteq Requires(a[i].item)
                 /\ i > 2 => a[i].item \in Requires(a[i - 1].item)
      BY <3>1, <3>2, <3>3, <3>4 DEF Chain
    <3>5. a[1].item = Page
      BY <2>2, <3>2, <3>3 DEF Chain
    <3>6. QED  BY <2>1, <2>3, <3>4, <3>5 DEF Chain, Requires
  <2>4. Tops(Onward)
    BY <2>1, <2>2, OnwardFacts
  <2>5. CASE VisitMarked(k) \/ VisitBlank(k)
    BY <2>2, <2>3, <2>4, <2>5 DEF VisitMarked, VisitBlank, Dead
  <2>6. CASE VisitUnknown(k)
    <3>1. Tops(adding')
      <4> DEFINE t == [Top EXCEPT !.rest = <<>>]
      <4>1. Top \in Frame
        BY <2>2 DEF Top
      <4>2. <<>> \in Seq(Key) /\ Range(<<>>) = {}
        BY DEF Range
      <4>3. t \in Frame /\ t.item = Top.item /\ t.rest = <<>>
        BY <4>1, <4>2 DEF Frame
      <4>4. adding' = [adding EXCEPT ![Len(adding)] = t]
        BY <2>6 DEF VisitUnknown, Top
      <4> HIDE DEF t
      <4>5. /\ adding' \in Seq(Frame) /\ Len(adding') = Len(adding)
            /\ \A i \in DOMAIN adding : i # Len(adding) => adding'[i] = adding[i]
            /\ adding'[Len(adding)] = t
        BY <2>2, <4>3, <4>4
      <4>6. \A i \in DOMAIN adding : adding'[i].item = adding[i].item
        <5>1. adding'[Len(adding)].item = adding[Len(adding)].item
          BY <4>3, <4>5 DEF Top
        <5>2. QED  BY <4>5, <5>1
      <4>7. Range(adding'[Len(adding)].rest) \subseteq Range(Top.rest)
        <5>1. adding'[Len(adding)].rest = <<>>
          BY <4>3, <4>5
        <5>2. Range(adding'[Len(adding)].rest) = {}
          BY <4>2, <5>1
        <5>3. QED  BY <5>2
      <4>8. QED  BY <4>5, <4>6, <4>7
    <3>2. QED  BY <2>2, <2>3, <2>6, <3>1 DEF VisitUnknown, Dead
  <2>7. CASE VisitNew(k) /\ Len(adding) <= MaxDepth
    <3>1. adding' = Append(Onward, [item |-> k, rest |-> assets[k]]) /\ UNCHANGED crashed
      BY <2>7 DEF VisitNew, Call
    <3>2. assets[k] \in Needs /\ Range(assets[k]) = Requires(k)
      BY <2>7 DEF VisitNew, Requires
    <3>3. k \in Range(Top.rest)
      BY <2>1, OnwardFacts
    <3> DEFINE a == adding'
    <3>4. /\ Len(a) = Len(adding) + 1
          /\ \A i \in DOMAIN adding : a[i] = Onward[i]
          /\ a[Len(adding) + 1].item = k
          /\ a[Len(adding) + 1].rest = assets[k]
      BY <2>2, <2>4, <3>1
    <3>5. \A i \in DOMAIN adding : /\ a[i].item = adding[i].item
                                   /\ Range(a[i].rest) \subseteq Range(adding[i].rest)
      BY <2>2, <2>4, <3>4 DEF Top
    <3>6. ASSUME NEW i \in DOMAIN a, i > 1
          PROVE  /\ a[i].item \in Key /\ assets[a[i].item] \in Needs
                 /\ Range(a[i].rest) \subseteq Requires(a[i].item)
                 /\ i > 2 => a[i].item \in Requires(a[i - 1].item)
      <4>1. CASE i \in DOMAIN adding
        <5>1. i > 2 => i - 1 \in DOMAIN adding /\ i - 1 > 1
          BY <2>2, <3>6, <4>1
        <5>2. QED  BY <3>5, <3>6, <4>1, <5>1 DEF Chain
      <4>2. CASE i = Len(adding) + 1
        <5>1. a[i].item = k /\ a[i].rest = assets[k]
          BY <3>4, <4>2
        <5>2. i > 2 => k \in Requires(adding[Len(adding)].item)
          BY <2>2, <3>3, <4>2 DEF Chain, Top
        <5>3. a[i - 1].item = adding[Len(adding)].item
          BY <2>2, <3>5, <4>2
        <5>4. QED  BY <3>2, <5>1, <5>2, <5>3
      <4>3. i \in DOMAIN adding \/ i = Len(adding) + 1
        BY <2>2, <2>4, <3>1, <3>6
      <4>4. QED  BY <4>1, <4>2, <4>3
    <3>7. a[1].item = Page
      BY <2>2, <3>5 DEF Chain
    <3>8. Chain'
      BY <2>1, <3>6, <3>7 DEF Chain, Requires
    <3>9. QED  BY <2>2, <3>1, <3>8 DEF Dead
  <2>8. CASE VisitNew(k) /\ ~(Len(adding) <= MaxDepth)
    BY <2>8, NoCalls DEF VisitNew, Dead
  <2>9. QED  BY <1>3, <2>5, <2>6, <2>7, <2>8 DEF Visit
<1>4. ASSUME NEW list \in Needs, Add(list) PROVE Chain' /\ Dead'
  BY <1>4 DEF Add, Chain, Dead, Idle
<1>5. CASE ~Step /\ ~UNCHANGED vars /\ \A list \in Needs : ~Add(list)
  BY <1>5, Between, NoCalls DEF Dead
<1>6. QED  BY <1>1, <1>2, <1>3, <1>4, <1>5 DEF Step

LEMMA MetStep ==
  TypeOK /\ Chain /\ Met /\ Dead /\ [Next]_vars => Met'
<1> SUFFICES ASSUME TypeOK, Chain, Met, Dead, [Next]_vars PROVE Met'
  OBVIOUS
<1>1. CASE UNCHANGED vars
  BY <1>1 DEF vars, page, Met, Requires
<1>2. CASE Finish
  <2>1. /\ UNCHANGED <<assets, exact>> /\ mark \subseteq mark'
        /\ adding # <<>> /\ adding \in Seq(Frame)
        /\ adding' = SubSeq(adding, 1, Len(adding) - 1)
        /\ Top.item # Page => Top.item \in mark'
    BY <1>2 DEF Finish, Place, TypeOK
  <2>2. /\ Len(adding') = Len(adding) - 1
        /\ \A i \in DOMAIN adding' : i \in DOMAIN adding /\ adding'[i] = adding[i]
    <3>1. Len(adding) \in Nat \ {0} /\ DOMAIN adding = 1 .. Len(adding)
      BY <2>1
    <3>2. Len(adding') = Len(adding) - 1 /\ DOMAIN adding' = 1 .. Len(adding) - 1
          /\ \A i \in 1 .. Len(adding) - 1 : adding'[i] = adding[i]
      BY <2>1, <3>1
    <3>3. QED  BY <3>1, <3>2
  <2>3. ASSUME exact, NEW i \in DOMAIN adding', i > 1, NEW r \in Requires(adding[i].item)
        PROVE  \/ r \in mark' \/ r \in Range(adding'[i].rest)
               \/ i < Len(adding') /\ r = adding'[i + 1].item
    <3>1. \/ r \in mark \/ r \in Range(adding[i].rest)
          \/ i < Len(adding) /\ r = adding[i + 1].item
      BY <2>2, <2>3 DEF Met
    <3>2. CASE r = adding[i + 1].item /\ i + 1 < Len(adding)
      BY <2>1, <2>2, <2>3, <3>2
    <3>3. CASE r = adding[i + 1].item /\ i + 1 = Len(adding)
      <4>1. r = Top.item
        BY <3>3 DEF Top
      <4>2. Len(adding) \in DOMAIN adding /\ Len(adding) > 1
        BY <2>1, <2>3, <3>3
      <4>3. Top.item \in Key
        BY <4>2 DEF Chain, Top
      <4>4. QED  BY <2>1, <4>1, <4>3, PageAssetsAssumption
    <3>4. i \in Int /\ Len(adding) \in Int
      BY <2>1, <2>2, <2>3
    <3>5. QED  BY <2>1, <2>2, <2>3, <3>1, <3>2, <3>3, <3>4
  <2>4. QED  BY <2>1, <2>2, <2>3 DEF Met, Requires
<1>3. ASSUME NEW k \in Key, Visit(k) PROVE Met'
  <2>1. At(k) /\ UNCHANGED <<assets, mark>>
    BY <1>3 DEF Visit, VisitMarked, VisitUnknown, VisitBlank, VisitNew, page
  <2>2. adding \in Seq(Frame) /\ Len(adding) \in DOMAIN adding
    BY <2>1 DEF At, TypeOK
  <2>3. CASE VisitUnknown(k) \/ VisitBlank(k)
    BY <2>3 DEF VisitUnknown, VisitBlank, Met
  <2>4. ASSUME NEW i \in DOMAIN adding, i > 1, exact,
               NEW r \in Requires(adding[i].item)
        PROVE  \/ r \in mark \/ r \in Range(Onward[i].rest)
               \/ i < Len(adding) /\ r = adding[i + 1].item
               \/ i = Len(adding) /\ r = k
    <3>1. \/ r \in mark \/ r \in Range(adding[i].rest)
          \/ i < Len(adding) /\ r = adding[i + 1].item
      BY <2>4 DEF Met
    <3>2. CASE i = Len(adding)
      BY <2>1, <2>2, <3>1, <3>2, OnwardFacts DEF Top
    <3>3. CASE i # Len(adding)
      <4>1. Onward[i] = adding[i]
        BY <2>1, <2>4, <3>3, OnwardFacts
      <4>2. QED  BY <3>1, <4>1
    <3>4. QED  BY <3>2, <3>3
  <2>5. CASE VisitMarked(k)
    <3>1. adding' = Onward /\ k \in mark /\ UNCHANGED exact
      BY <2>5 DEF VisitMarked, Marked
    <3>2. DOMAIN Onward = DOMAIN adding /\ Len(Onward) = Len(adding)
          /\ \A i \in DOMAIN adding : Onward[i].item = adding[i].item
      BY <2>1, OnwardFacts
    <3>3. \A i \in DOMAIN adding : i < Len(adding) => i + 1 \in DOMAIN adding
      BY <2>2
    <3>4. QED  BY <2>1, <2>4, <3>1, <3>2, <3>3 DEF Met, Requires
  <2>6. CASE VisitNew(k) /\ Len(adding) <= MaxDepth
    <3>1. adding' = Append(Onward, [item |-> k, rest |-> assets[k]]) /\ UNCHANGED exact
      BY <2>6 DEF VisitNew, Call
    <3>2. Range(assets[k]) = Requires(k)
      BY <2>6 DEF VisitNew, Requires
    <3>3. Onward \in Seq(Frame) /\ Len(Onward) = Len(adding)
          /\ \A i \in DOMAIN adding : Onward[i].item = adding[i].item
      BY <2>1, OnwardFacts
    <3> DEFINE a == adding'
    <3>4. /\ Len(a) = Len(adding) + 1 /\ DOMAIN a = 1 .. Len(adding) + 1
          /\ \A i \in DOMAIN adding : a[i] = Onward[i]
          /\ a[Len(adding) + 1].item = k
          /\ a[Len(adding) + 1].rest = assets[k]
      BY <2>2, <3>1, <3>3
    <3>5. ASSUME NEW i \in DOMAIN a, i > 1, exact, NEW r \in Requires(a[i].item)
          PROVE  \/ r \in mark \/ r \in Range(a[i].rest)
                 \/ i < Len(a) /\ r = a[i + 1].item
      <4>1. CASE i = Len(adding) + 1
        BY <3>2, <3>4, <3>5, <4>1
      <4>2. CASE i \in DOMAIN adding
        <5>1. r \in Requires(adding[i].item)
          BY <3>3, <3>4, <3>5, <4>2
        <5>2. \/ r \in mark \/ r \in Range(a[i].rest)
              \/ i < Len(adding) /\ r = adding[i + 1].item
              \/ i = Len(adding) /\ r = k
          BY <2>4, <3>4, <3>5, <4>2, <5>1
        <5>3. i < Len(adding) => i + 1 \in DOMAIN adding /\ a[i + 1].item = adding[i + 1].item
          BY <2>2, <3>3, <3>4, <4>2
        <5>4. i < Len(a)
          BY <2>2, <3>4, <4>2
        <5>5. QED  BY <3>4, <5>2, <5>3, <5>4
      <4>3. i \in DOMAIN adding \/ i = Len(adding) + 1
        BY <2>2, <3>4, <3>5
      <4>4. QED  BY <4>1, <4>2, <4>3
    <3>6. QED  BY <2>1, <3>1, <3>5 DEF Met, Requires
  <2>7. CASE VisitNew(k) /\ ~(Len(adding) <= MaxDepth)
    BY <2>7, NoCalls DEF VisitNew
  <2>8. QED  BY <1>3, <2>3, <2>5, <2>6, <2>7 DEF Visit
<1>4. ASSUME NEW list \in Needs, Add(list) PROVE Met'
  BY <1>4 DEF Add, Met
<1>5. CASE ~Step /\ ~UNCHANGED vars /\ \A list \in Needs : ~Add(list)
  BY <1>5, Between, NoCalls
<1>6. QED  BY <1>1, <1>2, <1>3, <1>4, <1>5 DEF Step
-----------------------------------------------------------------------------
(* What is marked is on the page, and after what it requires.              *)

\* Every step leaves the page alone but those that Finish, Unmark or Reset it.
LEMMA PageKept ==
  ASSUME [Next]_vars, ~Finish, \A k \in Key : ~Unmark(k), ~Reset, ~Restart
  PROVE  UNCHANGED <<order, mark>> /\ (exact' => exact)
<1>1. ASSUME NEW k \in Key, Visit(k) PROVE UNCHANGED <<order, mark>> /\ (exact' => exact)
  BY <1>1 DEF Visit, VisitMarked, VisitUnknown, VisitBlank, VisitNew, page
<1>2. ASSUME NEW list \in Needs, Add(list)
      PROVE  UNCHANGED <<order, mark>> /\ (exact' => exact)
  BY <1>2 DEF Add, page
<1>3. ASSUME NEW k \in Key, NEW d \in Definition, AddAsset(k, d)
      PROVE  UNCHANGED <<order, mark>> /\ (exact' => exact)
  BY <1>3 DEF AddAsset, page
<1>4. ASSUME NEW keys, JsPull(keys)
      PROVE  UNCHANGED <<order, mark>> /\ (exact' => exact)
  BY <1>4 DEF JsPull
<1>5. ASSUME Write \/ CssHeader \/ UNCHANGED vars
      PROVE  UNCHANGED <<order, mark>> /\ (exact' => exact)
  BY <1>5 DEF Write, CssHeader, vars, page
<1>6. QED  BY <1>1, <1>2, <1>3, <1>4, <1>5 DEF Next, Step

LEMMA RequiresKept ==
  ASSUME TypeOK, [Next]_vars, NEW m \in Key,
         \A k \in Key, d \in Definition : AddAsset(k, d) => k # m
  PROVE  Requires(m)' = Requires(m)
<1>1. ASSUME NEW keys, JsPull(keys) PROVE Requires(m)' = Requires(m)
  <2>1. PICK gone \in SUBSET {k \in keys : assets[k] = <<>>} :
          assets' = [k \in Key |-> IF k \in gone \/ (k \in keys /\ assets[k] = NoAsset)
                                   THEN Blank ELSE assets[k]]
    BY <1>1 DEF JsPull
  <2>2. CASE m \in gone
    BY <2>1, <2>2, PageAssetsAssumption DEF Requires, Range
  <2>3. CASE m \notin gone /\ m \in keys /\ assets[m] = NoAsset
    <3>1. assets'[m] = Blank
      BY <2>1, <2>3
    <3> QED
      BY <2>3, <3>1, PageAssetsAssumption DEF Requires
  <2>4. CASE m \notin gone /\ ~(m \in keys /\ assets[m] = NoAsset)
    BY <2>1, <2>4 DEF Requires
  <2>5. QED  BY <2>2, <2>3, <2>4
<1>2. ASSUME NEW k \in Key, NEW d \in Definition, AddAsset(k, d)
      PROVE  Requires(m)' = Requires(m)
  BY <1>2 DEF AddAsset, Requires, TypeOK
<1>3. ASSUME UNCHANGED assets PROVE Requires(m)' = Requires(m)
  BY <1>3 DEF Requires
<1>4. QED
  BY <1>1, <1>2, <1>3 DEF Next, Step, vars, page, Visit, VisitMarked, VisitUnknown,
     VisitBlank, VisitNew, Finish, Add, Unmark, Write, CssHeader, Css, Reset, Restart

LEMMA PlacedStep == TypeOK /\ Placed /\ [Next]_vars => Placed'
<1> SUFFICES ASSUME TypeOK, Placed, [Next]_vars PROVE Placed'
  OBVIOUS
<1>1. CASE Finish
  <2>1. CASE Top.item = Page
    BY <1>1, <2>1 DEF Finish, Placed
  <2>2. CASE Top.item # Page
    <3>1. Top \in Frame
      BY <1>1 DEF Finish, Top, TypeOK
    <3>2. Top.item \in Key
      BY <2>2, <3>1 DEF Frame
    <3>3. order' = Append(order, Top.item) /\ mark' = mark \cup {Top.item}
      BY <1>1, <2>2 DEF Finish, Place
    <3>4. order \in Seq(Key)
      BY DEF TypeOK
    <3>5. /\ \A i \in DOMAIN order : i \in DOMAIN order' /\ order'[i] = order[i]
          /\ Len(order) + 1 \in DOMAIN order' /\ order'[Len(order) + 1] = Top.item
      BY <3>2, <3>3, <3>4
    <3>6. QED  BY <3>3, <3>5 DEF Placed, Range
  <2>3. QED  BY <2>1, <2>2
<1>2. ASSUME NEW k \in Key, Unmark(k) PROVE Placed'
  <2>1. PICK i \in DOMAIN order : order[i] = k /\ order' = Splice(order, i)
    BY <1>2 DEF Unmark
  <2>2. SUFFICES ASSUME NEW j \in DOMAIN order, order[j] # k
                 PROVE  order[j] \in Range(order')
    BY <1>2 DEF Unmark, Placed, Range
  <2>3. order \in Seq(Key) /\ order' \in Seq(Key) /\ Len(order') = Len(order) - 1
        /\ \A n \in 1 .. Len(order) - 1 :
             order'[n] = IF n < i THEN order[n] ELSE order[n + 1]
    BY <2>1, SpliceFacts DEF TypeOK
  <2>4. CASE j < i
    <3>1. j \in DOMAIN order' /\ order'[j] = order[j]
      BY <2>3, <2>4
    <3>2. QED  BY <3>1 DEF Range
  <2>5. CASE j > i
    <3>1. j - 1 \in DOMAIN order' /\ order'[j - 1] = order[j]
      BY <2>3, <2>5
    <3>2. QED  BY <3>1 DEF Range
  <2>6. j # i
    BY <2>1, <2>2
  <2>7. QED  BY <2>3, <2>4, <2>5, <2>6
<1>3. CASE Reset \/ Restart
  BY <1>3 DEF Reset, Restart, Placed
<1>4. QED  BY <1>1, <1>2, <1>3, PageKept DEF Placed

LEMMA RequiresFirstStep ==
  TypeOK /\ Chain /\ Met /\ Placed /\ RequiresFirst /\ [Next]_vars => RequiresFirst'
<1> SUFFICES ASSUME TypeOK, Chain, Met, Placed, RequiresFirst, [Next]_vars, exact'
             PROVE  \A i \in DOMAIN order' : \A r \in Requires(order[i])' :
                      \E j \in 1 .. i - 1 : order'[j] = r
  BY DEF RequiresFirst
<1>0. order \in Seq(Key)
  BY DEF TypeOK
<1>1. CASE Finish
  <2>1. UNCHANGED <<assets, exact>> /\ Top.rest = <<>> /\ adding # <<>>
        /\ adding \in Seq(Frame) /\ Len(adding) \in DOMAIN adding
    <3>1. adding \in Seq(Frame)
      BY DEF TypeOK
    <3>2. adding # <<>> /\ UNCHANGED <<assets, exact>> /\ Top.rest = <<>>
      BY <1>1 DEF Finish
    <3>3. Len(adding) \in DOMAIN adding
      BY <3>1, <3>2
    <3>4. QED  BY <3>1, <3>2, <3>3
  <2>2. CASE Top.item = Page
    <3>1. UNCHANGED <<order, assets, exact>>
      BY <1>1, <2>2 DEF Finish
    <3>2. QED  BY <3>1 DEF RequiresFirst, Requires
  <2>3. CASE Top.item # Page
    <3>1. order' = Append(order, Top.item)
      BY <1>1, <2>3 DEF Finish, Place
    <3>2. Top.item \in Key /\ Len(adding) > 1
      <4>1. Top \in Frame
        BY <2>1 DEF Top
      <4>2. Len(adding) # 1
        BY <2>1, <2>3 DEF Chain, Top
      <4>3. Len(adding) > 1
        <5>1. Len(adding) \in Nat /\ Len(adding) >= 1
          BY <2>1
        <5>2. \A n \in Nat : n >= 1 /\ n # 1 => n > 1
          OBVIOUS
        <5>3. QED  BY <4>2, <5>1, <5>2
      <4>4. Top.item \in Key
        BY <2>3, <4>1 DEF Frame
      <4>5. QED  BY <4>3, <4>4
    <3>3. \A r \in Requires(Top.item) : r \in Range(order)
      <4>1. Range(Top.rest) = {}
        BY <2>1 DEF Range
      <4>2. \A r \in Requires(Top.item) : r \in mark
        BY <2>1, <3>2, <4>1 DEF Met, Top
      <4>3. QED  BY <4>2 DEF Placed
    <3>4. DOMAIN order' = 1 .. Len(order) + 1 /\ order'[Len(order) + 1] = Top.item
          /\ \A i \in 1 .. Len(order) : order'[i] = order[i]
      BY <1>0, <3>1, <3>2
    <3>5. ASSUME NEW i \in DOMAIN order', NEW r \in Requires(order'[i])
          PROVE  \E j \in 1 .. i - 1 : order'[j] = r
      <4>1. CASE i = Len(order) + 1
        <5>1. PICK j \in DOMAIN order : order[j] = r
          BY <3>3, <3>4, <3>5, <4>1 DEF Range
        <5>2. j \in 1 .. i - 1 /\ order'[j] = r
          BY <1>0, <3>4, <4>1, <5>1
        <5>3. QED  BY <5>2
      <4>2. CASE i \in 1 .. Len(order)
        <5>1. PICK j \in 1 .. i - 1 : order[j] = r
          BY <1>0, <2>1, <3>4, <3>5, <4>2 DEF RequiresFirst
        <5>2. order'[j] = r
          BY <1>0, <3>4, <4>2, <5>1
        <5>3. QED  BY <5>2
      <4>3. QED  BY <1>0, <3>4, <4>1, <4>2
    <3>6. QED  BY <2>1, <3>5 DEF Requires
  <2>4. QED  BY <2>2, <2>3
<1>2. ASSUME NEW k \in Key, Unmark(k)
      PROVE  \A i \in DOMAIN order' : \A r \in Requires(order[i])' :
               \E j \in 1 .. i - 1 : order'[j] = r
  <2>1. PICK i \in DOMAIN order : order[i] = k /\ order' = Splice(order, i)
    BY <1>2 DEF Unmark
  <2>2. UNCHANGED assets /\ exact /\ \A m \in Range(order) : k \notin Requires(m)
    BY <1>2 DEF Unmark
  <2>3. order' \in Seq(Key) /\ Len(order') = Len(order) - 1
        /\ \A n \in 1 .. Len(order) - 1 :
             order'[n] = IF n < i THEN order[n] ELSE order[n + 1]
    BY <1>0, <2>1, SpliceFacts
  <2>4. ASSUME NEW p \in DOMAIN order', NEW r \in Requires(order'[p])
        PROVE  \E j \in 1 .. p - 1 : order'[j] = r
    <3> DEFINE q == IF p < i THEN p ELSE p + 1
    <3>1. p \in 1 .. Len(order) - 1 /\ q \in DOMAIN order /\ order'[p] = order[q]
      BY <1>0, <2>3, <2>4
    <3>2. PICK j \in 1 .. q - 1 : order[j] = r
      BY <2>2, <2>4, <3>1 DEF RequiresFirst
    <3>3. r # k
      BY <2>2, <2>4, <3>1 DEF Range
    <3>4. j # i /\ j \in DOMAIN order
      BY <1>0, <2>1, <3>1, <3>2, <3>3
    <3>5. CASE j < i
      <4>1. j \in 1 .. p - 1 /\ order'[j] = order[j]
        BY <1>0, <2>3, <3>1, <3>2, <3>5
      <4>2. QED  BY <3>2, <4>1
    <3>6. CASE j > i
      <4>1. j - 1 \in 1 .. p - 1 /\ order'[j - 1] = order[j]
        BY <1>0, <2>3, <3>1, <3>2, <3>6
      <4>2. QED  BY <3>2, <4>1
    <3>7. QED  BY <1>0, <3>4, <3>5, <3>6
  <2>5. QED  BY <2>2, <2>4 DEF Requires
<1>3. CASE Reset \/ Restart
  BY <1>3 DEF Reset, Restart
<1>4. CASE ~Finish /\ (\A k \in Key : ~Unmark(k)) /\ ~Reset /\ ~Restart
  <2>1. UNCHANGED order /\ exact
    BY <1>4, PageKept
  <2>2. ASSUME NEW i \in DOMAIN order PROVE Requires(order[i])' = Requires(order[i])
    <3>1. order[i] \in Key /\ order[i] \in Range(order)
      BY <1>0 DEF Range
    <3>2. \A k \in Key, d \in Definition : AddAsset(k, d) => k # order[i]
      BY <3>1 DEF AddAsset
    <3> DEFINE m == order[i]
    <3>3. Requires(m)' = Requires(m)
      <4>1. ASSUME NEW x \in Key, \A k \in Key, d \in Definition : AddAsset(k, d) => k # x
            PROVE  Requires(x)' = Requires(x)
        BY <4>1, RequiresKept
      <4>2. Requires(m)' = Requires(m)
        BY <2>1, <3>1, <3>2, <4>1
      <4>3. QED  BY <4>2
    <3>4. QED  BY <3>3
  <2>3. QED  BY <2>1, <2>2 DEF RequiresFirst
<1>5. QED  BY <1>1, <1>2, <1>3, <1>4
-----------------------------------------------------------------------------
(* More calls for assets than there are assets: two are for the same one,  *)
(* and those from the one to the other require each other in a circle.     *)

LEMMA CircleOfCalls ==
  ASSUME NEW n \in Nat, n > Cardinality(Key), NEW g \in [1 .. n -> Key],
         \A i \in 1 .. n - 1 : g[i + 1] \in Requires(g[i])
  PROVE  Cyclic
<1>1. IsFiniteSet(1 .. n) /\ Cardinality(1 .. n) = n
  BY FS_Interval
<1>2. PICK x \in 1 .. n, y \in 1 .. n : x # y /\ g[x] = g[y]
  BY <1>1, FS_PigeonHole, PageAssetsAssumption
<1>3. PICK a \in 1 .. n, b \in 1 .. n : a < b /\ g[a] = g[b]
  BY <1>2
<1> DEFINE C == {g[i] : i \in a .. b - 1}
<1>4. C \in SUBSET Key /\ C # {}
  <2>1. \A i \in a .. b - 1 : i \in 1 .. n
    BY <1>3
  <2>2. a \in a .. b - 1
    BY <1>3
  <2>3. QED  BY <2>1, <2>2
<1>5. ASSUME NEW k \in C PROVE Requires(k) \cap C # {}
  <2>1. PICK i \in a .. b - 1 : k = g[i]
    BY <1>5
  <2>2. g[i + 1] \in Requires(k)
    BY <1>3, <2>1
  <2>3. CASE i + 1 < b
    <3>1. i + 1 \in a .. b - 1
      BY <1>3, <2>1, <2>3
    <3>2. QED  BY <2>2, <3>1
  <2>4. CASE i + 1 = b
    <3>1. a \in a .. b - 1
      BY <1>3
    <3>3. g[i + 1] = g[a]
      BY <1>3, <2>4
    <3>2. QED  BY <2>2, <3>1, <3>3
  <2>5. i + 1 < b \/ i + 1 = b
    BY <1>3, <2>1
  <2>6. QED  BY <2>3, <2>4, <2>5
<1> HIDE DEF C
<1>6. QED  BY <1>4, <1>5 DEF Cyclic

LEMMA RunawayStep ==
  TypeOK /\ Chain /\ Dead /\ NoRunaway /\ [Next]_vars => NoRunaway'
<1> SUFFICES ASSUME TypeOK, Chain, Dead, NoRunaway, [Next]_vars, crashed' PROVE Cyclic'
  BY DEF NoRunaway
<1>1. ASSUME NEW k \in Key, VisitNew(k), ~(Len(adding) <= MaxDepth) PROVE Cyclic'
  <2>1. At(k) /\ UNCHANGED assets
    BY <1>1 DEF VisitNew
  <2>2. adding \in Seq(Frame) /\ Len(adding) \in Nat /\ Len(adding) > MaxDepth
        /\ Len(adding) \in DOMAIN adding
    BY <1>1, <2>1, PageAssetsAssumption DEF At, TypeOK
  <2> DEFINE n == Len(adding)
             g == [i \in 1 .. n |-> IF i < n THEN adding[i + 1].item ELSE k]
  <2>3. n > Cardinality(Key)
    BY <2>2, PageAssetsAssumption, FS_CardinalityType
  <2>4. \A i \in 1 .. n - 1 : i + 1 \in DOMAIN adding /\ i + 1 > 1
    BY <2>2
  <2>5. g \in [1 .. n -> Key]
    BY <2>4 DEF Chain
  <2>6. ASSUME NEW i \in 1 .. n - 1 PROVE g[i + 1] \in Requires(g[i])
    <3>1. i \in 1 .. n /\ i + 1 \in 1 .. n /\ i < n
      BY <2>2
    <3>2. g[i] = adding[i + 1].item
      BY <3>1
    <3>3. CASE i + 1 < n
      <4>1. i + 2 \in DOMAIN adding /\ i + 2 > 2 /\ (i + 2) - 1 = i + 1 /\ (i + 1) + 1 = i + 2
        BY <2>2, <3>1, <3>3
      <4>2. g[i + 1] = adding[i + 2].item
        BY <3>1, <3>3, <4>1
      <4>3. adding[i + 2].item \in Requires(adding[(i + 2) - 1].item)
        BY <4>1 DEF Chain
      <4>4. QED  BY <3>2, <4>1, <4>2, <4>3
    <3>4. CASE i + 1 = n
      <4>1. g[i + 1] = k
        BY <3>1, <3>4
      <4>2. k \in Range(Top.rest)
        BY <2>1, OnwardFacts
      <4>3. Range(adding[i + 1].rest) \subseteq Requires(adding[i + 1].item)
        BY <2>4 DEF Chain
      <4>4. Top = adding[i + 1]
        BY <3>4 DEF Top
      <4>5. QED  BY <3>2, <4>1, <4>2, <4>3, <4>4
    <3>5. i + 1 < n \/ i + 1 = n
      BY <2>2, <3>1
    <3>6. QED  BY <3>3, <3>4, <3>5
  <2> HIDE DEF g
  <2>7. Cyclic
    BY <2>2, <2>3, <2>5, <2>6, CircleOfCalls
  <2>8. QED  BY <2>1, <2>7 DEF Cyclic, Requires
<1>2. CASE crashed
  <2>1. Cyclic
    BY <1>2 DEF NoRunaway
  <2>2. UNCHANGED assets
    <3>1. adding = <<>>
      BY <1>2 DEF Dead
    <3>2. QED
      BY <1>2, <3>1 DEF Next, Step, vars, Visit, VisitMarked, VisitUnknown, VisitBlank,
         VisitNew, Finish, Add, AddAsset, Unmark, JsPull, Write, CssHeader, Reset,
         Restart, Idle
  <2>3. QED  BY <2>1, <2>2 DEF Cyclic, Requires
<1>3. ASSUME NEW k \in Key, Visit(k), ~crashed PROVE Cyclic'
  BY <1>1, <1>3 DEF Visit, VisitMarked, VisitUnknown, VisitBlank, VisitNew
<1>4. ~crashed /\ ~(\E k \in Key : Visit(k)) => ~crashed'
  BY DEF Next, Step, vars, Finish, Add, AddAsset, Unmark, JsPull, Write, CssHeader,
     Reset, Restart
<1>5. QED  BY <1>2, <1>3, <1>4

LEMMA StyledStep == TypeOK /\ NothingAfterHead /\ Shut /\ [Next]_vars
                    => NothingAfterHead' /\ Shut'
<1> SUFFICES ASSUME TypeOK, NothingAfterHead, Shut, [Next]_vars
             PROVE  NothingAfterHead' /\ Shut'
  OBVIOUS
<1>1. mark' \subseteq Key
  BY TypeStep DEF TypeOK
<1>2. CASE styled = Key
  BY <1>1, <1>2 DEF NothingAfterHead, Shut, Next, Step, vars, page, Visit, VisitMarked,
     VisitUnknown, VisitBlank, VisitNew, Finish, Add, AddAsset, Unmark, JsPull,
     Write, CssHeader, Css, Reset, Restart, Idle
<1>3. CASE styled # Key
  <2>1. locked /\ adding = <<>>
    BY <1>3 DEF Shut
  <2>2. QED
    BY <1>1, <2>1 DEF NothingAfterHead, Shut, Next, Step, vars, page, Visit, VisitMarked,
       VisitUnknown, VisitBlank, VisitNew, At, Finish, Add, AddAsset, Unmark, JsPull,
       Write, CssHeader, Css, Reset, Restart, Idle
<1>4. QED  BY <1>2, <1>3
-----------------------------------------------------------------------------
(* The theorems.                                                           *)

-----------------------------------------------------------------------------
(* No asset is put twice.  Two calls for one asset would be at the same    *)
(* place of its list, the outer one at a name that is still open: so the   *)
(* inner one cannot have come to the end of it.                            *)

LEMMA LastIsNew ==
  ASSUME TypeOK, Chain, Fresh, Onto, adding # <<>>, Top.rest = <<>>,
         NEW i \in DOMAIN adding, i > 1, i < Len(adding)
  PROVE  adding[i].item # Top.item
<1> SUFFICES ASSUME adding[i].item = Top.item PROVE FALSE
  OBVIOUS
<1> DEFINE L == Len(adding)
           list == assets[adding[i].item]
           k == adding[i + 1].item
<1>1. adding \in Seq(Frame) /\ L \in DOMAIN adding /\ L > 1 /\ i + 1 \in DOMAIN adding
      /\ L \in Nat /\ i \in Nat
  BY DEF TypeOK
<1>2. list \in Seq(Key)
  BY PageAssetsAssumption DEF Chain
<1>3. k \in Key /\ assets[k] \in Needs /\ k \notin mark
  BY <1>1 DEF Chain, Fresh
<1>4. ~Done(k) /\ assets[k] # NoAsset
  BY <1>3, PageAssetsAssumption DEF Done
<1>5. PICK n \in Nat : Reached(i, n)
  BY DEF Onto
<1>6. PICK e \in Nat : Reached(L, e)
  BY <1>1 DEF Onto
<1>7. n > 0 /\ n <= Len(list) /\ list[n] = k
      /\ \A m \in 1 .. n : m = n \/ Done(list[m])
  BY <1>5 DEF Reached
<1>8. adding[L].rest = <<>> /\ assets[adding[L].item] = list
  BY DEF Top
<1>9. /\ \A m \in 1 .. e : Done(list[m])
      /\ \/ Len(<<>>) = Len(list) - e
         \/ e < Len(list) /\ assets[list[e + 1]] = NoAsset /\ list[e + 1] \notin mark
  BY <1>1, <1>6, <1>8 DEF Reached
<1> HIDE DEF L, list, k
<1>10. e < n
  BY <1>4, <1>7, <1>9
<1>11. e + 1 \in 1 .. n /\ e # Len(list)
  BY <1>2, <1>7, <1>10
<1>12. assets[list[e + 1]] = NoAsset /\ list[e + 1] \notin mark
  BY <1>2, <1>9, <1>11
<1>13. ~Done(list[e + 1])
  BY <1>12, PageAssetsAssumption DEF Done
<1>14. QED  BY <1>4, <1>7, <1>11, <1>12, <1>13

LEMMA FreshStep ==
  TypeOK /\ Chain /\ Dead /\ Fresh /\ Onto /\ [Next]_vars => Fresh'
<1> SUFFICES ASSUME TypeOK, Chain, Dead, Fresh, Onto, [Next]_vars PROVE Fresh'
  OBVIOUS
<1>1. CASE UNCHANGED vars
  BY <1>1 DEF vars, page, Fresh
<1>2. CASE Finish
  <2>1. adding \in Seq(Frame) /\ adding # <<>> /\ Top.rest = <<>>
        /\ adding' = SubSeq(adding, 1, Len(adding) - 1)
    BY <1>2 DEF Finish, TypeOK
  <2>2. \A i \in DOMAIN adding' : /\ i \in DOMAIN adding /\ i < Len(adding)
                                  /\ adding'[i] = adding[i]
    BY <2>1
  <2>3. mark' = mark \/ mark' = mark \cup {Top.item}
    BY <1>2 DEF Finish, Place
  <2>4. \A i \in DOMAIN adding' : i > 1 => adding[i].item # Top.item
    BY <2>1, <2>2, LastIsNew
  <2>5. QED  BY <2>2, <2>3, <2>4 DEF Fresh
<1>3. ASSUME NEW k \in Key, Visit(k) PROVE Fresh'
  <2>1. At(k) /\ UNCHANGED mark
    BY <1>3 DEF Visit, VisitMarked, VisitUnknown, VisitBlank, VisitNew, page
  <2>2. adding \in Seq(Frame) /\ Len(adding) \in DOMAIN adding
    BY <2>1 DEF At, TypeOK
  <2>3. CASE VisitMarked(k) \/ VisitBlank(k)
    BY <2>1, <2>3, OnwardFacts DEF VisitMarked, VisitBlank, Fresh
  <2>4. CASE VisitUnknown(k)
    <3>1. adding' = [adding EXCEPT ![Len(adding)] = [Top EXCEPT !.rest = <<>>]]
      BY <2>2, <2>4 DEF VisitUnknown, Top
    <3>2. [Top EXCEPT !.rest = <<>>].item = Top.item
      BY <2>2 DEF Top, Frame
    <3>3. DOMAIN adding' = DOMAIN adding
          /\ \A i \in DOMAIN adding : adding'[i].item = adding[i].item
      BY <2>2, <3>1, <3>2 DEF Top
    <3>4. QED  BY <2>1, <3>3 DEF Fresh
  <2>5. CASE VisitNew(k) /\ Len(adding) <= MaxDepth
    <3>1. adding' = Append(Onward, [item |-> k, rest |-> assets[k]]) /\ k \notin mark
      BY <2>5 DEF VisitNew, Call, Marked
    <3>2. Onward \in Seq(Frame) /\ Len(Onward) = Len(adding)
          /\ \A i \in DOMAIN adding : Onward[i].item = adding[i].item
      BY <2>1, OnwardFacts
    <3>3. \A i \in DOMAIN adding' :
            \/ i \in DOMAIN adding /\ adding'[i] = Onward[i]
            \/ adding'[i] = [item |-> k, rest |-> assets[k]]
      BY <2>2, <3>1, <3>2
    <3>4. QED  BY <2>1, <3>1, <3>2, <3>3 DEF Fresh
  <2>6. CASE VisitNew(k) /\ ~(Len(adding) <= MaxDepth)
    BY <2>6 DEF VisitNew, Fresh
  <2>7. QED  BY <1>3, <2>3, <2>4, <2>5, <2>6 DEF Visit
<1>4. ASSUME NEW list \in Needs, Add(list) PROVE Fresh'
  BY <1>4 DEF Add, Fresh
<1>5. CASE ~Step /\ ~UNCHANGED vars /\ \A list \in Needs : ~Add(list)
  BY <1>5, Between DEF Fresh
<1>6. QED  BY <1>1, <1>2, <1>3, <1>4, <1>5 DEF Step

\* The step of a call to the next of its requirements.
LEMMA OneFurther ==
  ASSUME TypeOK, Chain, Onto, NEW k \in Key, At(k), Len(adding) > 1
  PROVE  LET list == assets[Top.item]
             rest == Onward[Len(adding)].rest
         IN \E n \in Nat : /\ n > 0 /\ n <= Len(list) /\ list[n] = k
                           /\ \A m \in 1 .. n : m = n \/ Done(list[m])
                           /\ Len(rest) = Len(list) - n
                           /\ \A m \in 1 .. Len(rest) : rest[m] = list[n + m]
<1> DEFINE list == assets[Top.item]
           rest == Top.rest
<1>1. adding \in Seq(Frame) /\ Len(adding) \in DOMAIN adding /\ Top \in Frame
  BY DEF At, TypeOK, Top
<1>2. rest \in Seq(Key) /\ rest # <<>> /\ k = rest[1]
  BY <1>1 DEF Frame, At
<1>3. list \in Seq(Key)
  BY <1>1, PageAssetsAssumption DEF Chain, Top
<1>4. PICK n \in Nat : Reached(Len(adding), n)
  BY <1>1 DEF Onto
<1>5. /\ \A m \in 1 .. n : Done(list[m])
      /\ Len(rest) = Len(list) - n /\ \A m \in 1 .. Len(rest) : rest[m] = list[n + m]
  BY <1>1, <1>2, <1>4 DEF Reached, Top
<1>6. Onward[Len(adding)].rest = Tail(rest)
  BY <1>1 DEF Onward, Top, Frame
<1> HIDE DEF list, rest
<1>7. Len(Tail(rest)) = Len(rest) - 1 /\ Len(rest) \in Nat \ {0}
      /\ \A m \in 1 .. Len(rest) - 1 : Tail(rest)[m] = rest[m + 1]
  BY <1>2
<1>8. n + 1 \in Nat /\ n + 1 > 0 /\ n + 1 <= Len(list) /\ list[n + 1] = k
  BY <1>2, <1>3, <1>5, <1>7
<1>9. \A m \in 1 .. n + 1 : m = n + 1 \/ Done(list[m])
  BY <1>5
<1>10. Len(Tail(rest)) = Len(list) - (n + 1)
  BY <1>3, <1>5, <1>7
<1>11. \A m \in 1 .. Len(Tail(rest)) : Tail(rest)[m] = list[(n + 1) + m]
  BY <1>3, <1>5, <1>7
<1>12. QED  BY <1>6, <1>8, <1>9, <1>10, <1>11 DEF list

\* A step above a call, or the end of the call above it, keeps its place.
LEMMA ReachedBelow ==
  ASSUME adding \in Seq(Frame), adding' \in Seq(Frame), UNCHANGED assets,
         mark \subseteq mark', NEW i \in DOMAIN adding, NEW n \in Nat,
         Reached(i, n), i < Len(adding), i \in DOMAIN adding',
         adding'[i] = adding[i],
         IF i < Len(adding') THEN adding'[i + 1].item = adding[i + 1].item
                             ELSE adding[i + 1].item \in mark'
  PROVE  Reached(i, n)'
<1> DEFINE list == assets[adding[i].item]
<1>1. /\ n <= Len(list) /\ n > 0 /\ list[n] = adding[i + 1].item
      /\ \A m \in 1 .. n : m = n \/ Done(list[m])
      /\ Len(adding[i].rest) = Len(list) - n
      /\ \A m \in 1 .. Len(adding[i].rest) : adding[i].rest[m] = list[n + m]
  <2>1. i # Len(adding)
    OBVIOUS
  <2>2. /\ n <= Len(list) /\ n > 0 /\ list[n] = adding[i + 1].item
        /\ \A m \in 1 .. n : m = n \/ Done(list[m])
    BY DEF Reached
  <2>3. /\ Len(adding[i].rest) = Len(list) - n
        /\ \A m \in 1 .. Len(adding[i].rest) : adding[i].rest[m] = list[n + m]
    BY <2>1 DEF Reached
  <2> QED
    BY <2>2, <2>3
<1>2. \A x : Done(x) => Done(x)'
  BY DEF Done
<1>3. i < Len(adding') => list[n] = adding'[i + 1].item
  BY <1>1
<1>4. ~(i < Len(adding')) => Done(list[n])'
  BY <1>1 DEF Done
<1>5. \A m \in 1 .. n : (i < Len(adding') /\ m = n) \/ Done(list[m])'
  BY <1>1, <1>2, <1>4
<1>6. QED  BY <1>1, <1>3, <1>5 DEF Reached

LEMMA OntoFinish ==
  ASSUME TypeOK, Chain, Onto, Finish, TypeOK'
  PROVE  Onto'
<1>1. adding \in Seq(Frame) /\ adding # <<>> /\ UNCHANGED assets
      /\ adding' = SubSeq(adding, 1, Len(adding) - 1) /\ adding' \in Seq(Frame)
      /\ mark \subseteq mark' /\ (Top.item # Page => Top.item \in mark')
  BY DEF Finish, Place, TypeOK
<1>2. Len(adding') = Len(adding) - 1 /\ Len(adding) \in Nat /\ DOMAIN adding' = 1 .. Len(adding) - 1
      /\ \A i \in DOMAIN adding' : i \in DOMAIN adding /\ i < Len(adding) /\ adding'[i] = adding[i]
  <2>1. Len(adding) \in Nat \ {0} /\ DOMAIN adding = 1 .. Len(adding)
    BY <1>1
  <2>2. Len(adding') = Len(adding) - 1 /\ DOMAIN adding' = 1 .. Len(adding) - 1
        /\ \A i \in 1 .. Len(adding) - 1 : adding'[i] = adding[i]
    BY <1>1, <2>1
  <2>3. QED  BY <2>1, <2>2
<1>3. ASSUME NEW i \in DOMAIN adding', i > 1 PROVE \E n \in Nat : Reached(i, n)'
  <2>1. PICK n \in Nat : Reached(i, n)
    BY <1>2, <1>3 DEF Onto
  <2>2. i + 1 \in DOMAIN adding /\ i + 1 > 1
    BY <1>1, <1>2, <1>3
  <2>3. CASE i < Len(adding')
    <3>1. adding'[i + 1].item = adding[i + 1].item
      BY <1>2, <2>2, <2>3
    <3>2. Reached(i, n)'
      BY <1>1, <1>2, <1>3, <2>1, <2>3, <3>1, ReachedBelow
    <3>3. QED  BY <3>2
  <2>4. CASE ~(i < Len(adding'))
    <3>1. i + 1 = Len(adding)
      BY <1>2, <1>3, <2>4
    <3>2. adding[i + 1].item = Top.item /\ Top.item \in Key
      BY <2>2, <3>1 DEF Chain, Top
    <3>3. adding[i + 1].item \in mark'
      BY <1>1, <3>2, PageAssetsAssumption
    <3>4. Reached(i, n)'
      BY <1>1, <1>2, <1>3, <2>1, <2>4, <3>3, ReachedBelow
    <3>5. QED  BY <3>4
  <2>5. QED  BY <2>3, <2>4
<1>4. QED  BY <1>3 DEF Onto

LEMMA OntoVisit ==
  ASSUME TypeOK, Chain, Onto, NEW k \in Key, Visit(k), TypeOK'
  PROVE  Onto'
<1> DEFINE L == Len(adding)
           list == assets[Top.item]
<1>1. At(k) /\ UNCHANGED <<assets, mark>>
  BY DEF Visit, VisitMarked, VisitUnknown, VisitBlank, VisitNew, page
<1>2. adding \in Seq(Frame) /\ L \in DOMAIN adding /\ L \in Nat /\ DOMAIN adding = 1 .. L
      /\ adding' \in Seq(Frame)
  BY <1>1 DEF At, TypeOK
<1>3. /\ Onward \in Seq(Frame) /\ Len(Onward) = L /\ DOMAIN Onward = DOMAIN adding
      /\ \A i \in DOMAIN adding : Onward[i].item = adding[i].item
      /\ \A i \in DOMAIN adding : i # L => Onward[i] = adding[i]
  BY <1>1, OnwardFacts
\* The calls below the one on top.
<1>4. ASSUME \A i \in DOMAIN adding : /\ i \in DOMAIN adding'
                                      /\ adding'[i].item = adding[i].item
                                      /\ i # L => adding'[i] = adding[i],
             NEW i \in DOMAIN adding, i > 1, i # L
      PROVE  \E n \in Nat : Reached(i, n)'
  <2>1. PICK n \in Nat : Reached(i, n)
    BY <1>4 DEF Onto
  <2>2. i < L /\ i + 1 \in DOMAIN adding /\ i \in DOMAIN adding' /\ i + 1 \in DOMAIN adding'
        /\ adding'[i] = adding[i] /\ adding'[i + 1].item = adding[i + 1].item
    BY <1>2, <1>4
  <2>3. i < Len(adding')
    BY <1>2, <2>2
  <2>4. Reached(i, n)'
    BY <1>1, <1>2, <1>4, <2>1, <2>2, <2>3, ReachedBelow
  <2>5. QED  BY <2>4
<1>5. CASE VisitMarked(k) \/ VisitBlank(k)
  <2>1. adding' = Onward /\ Done(k)
    BY <1>5 DEF VisitMarked, VisitBlank, Marked, Done
  <2>2. ASSUME NEW i \in DOMAIN adding, i > 1, i = L PROVE \E n \in Nat : Reached(i, n)'
    <3>1. PICK n \in Nat : /\ n > 0 /\ n <= Len(list) /\ list[n] = k
                           /\ \A m \in 1 .. n : m = n \/ Done(list[m])
                           /\ Len(Onward[L].rest) = Len(list) - n
                           /\ \A m \in 1 .. Len(Onward[L].rest) : Onward[L].rest[m] = list[n + m]
      BY <1>1, <2>2, OneFurther
    <3>2. \A m \in 1 .. n : Done(list[m])
      BY <2>1, <3>1
    <3>3. \A x : Done(x) => Done(x)'
      BY <1>1 DEF Done
    <3>4. assets'[adding'[i].item] = list /\ ~(i < Len(adding')) /\ adding'[i] = Onward[L]
      BY <1>1, <1>2, <1>3, <2>1, <2>2 DEF Top
    <3>5. Reached(i, n)'
      BY <3>1, <3>2, <3>3, <3>4 DEF Reached
    <3>6. QED  BY <3>5
  <2>3. QED  BY <1>2, <1>3, <1>4, <2>1, <2>2 DEF Onto
<1>6. CASE VisitUnknown(k)
  <2> DEFINE t == [Top EXCEPT !.rest = <<>>]
  <2>1. adding' = [adding EXCEPT ![L] = t]
    BY <1>2, <1>6 DEF VisitUnknown, Top
  <2>2. Top \in Frame /\ Top.rest \in Seq(Key) /\ Top.rest # <<>> /\ k = Top.rest[1]
    <3>1. Top \in Frame
      BY <1>2 DEF Top
    <3>2. Top.rest \in Seq(Key)
      BY <3>1 DEF Frame
    <3>3. QED  BY <1>1, <3>1, <3>2 DEF At
  <2>3. t.item = Top.item /\ t.rest = <<>>
    BY <2>2 DEF Frame
  <2> HIDE DEF t
  <2>4. /\ DOMAIN adding' = DOMAIN adding /\ Len(adding') = L
        /\ \A i \in DOMAIN adding : i # L => adding'[i] = adding[i]
        /\ adding'[L] = t
    BY <1>2, <2>1
  <2>5. adding'[L].item = Top.item /\ adding'[L].rest = <<>>
        /\ \A i \in DOMAIN adding : adding'[i].item = adding[i].item
    <3>1. adding'[L].item = Top.item /\ adding'[L].rest = <<>>
      BY <2>3, <2>4
    <3>2. adding'[L].item = adding[L].item
      BY <3>1 DEF Top
    <3>3. QED  BY <2>4, <3>1, <3>2
  <2>6. ASSUME NEW i \in DOMAIN adding, i > 1, i = L PROVE \E n \in Nat : Reached(i, n)'
    <3>1. PICK n \in Nat : Reached(i, n)
      BY <1>2, <2>6 DEF Onto
    <3>2. list \in Seq(Key)
      BY <1>2, <2>6, PageAssetsAssumption DEF Chain, Top
    <3>3. /\ n <= Len(list) /\ \A m \in 1 .. n : Done(list[m])
          /\ Len(Top.rest) = Len(list) - n
          /\ \A m \in 1 .. Len(Top.rest) : Top.rest[m] = list[n + m]
      BY <1>2, <2>2, <2>6, <3>1 DEF Reached, Top
    <3>4. list[n + 1] = k /\ n < Len(list)
      <4>1. Len(Top.rest) \in Nat \ {0}
        BY <2>2
      <4>2. n \in Nat /\ Len(list) \in Nat /\ n < Len(list)
        BY <3>2, <3>3, <4>1
      <4>3. 1 \in 1 .. Len(Top.rest) /\ Top.rest[1] = k
        BY <2>2, <4>1
      <4>4. QED  BY <3>3, <4>2, <4>3
    <3>5. assets[k] = NoAsset /\ k \notin mark
      BY <1>6 DEF VisitUnknown, Marked
    <3>6. \A x : Done(x) => Done(x)'
      BY <1>1 DEF Done
    <3>7. assets'[adding'[i].item] = list /\ adding'[i].rest = <<>> /\ i = Len(adding')
      BY <1>1, <2>4, <2>5, <2>6
    <3>8. Reached(i, n)'
      BY <1>1, <3>3, <3>4, <3>5, <3>6, <3>7 DEF Reached
    <3>9. QED  BY <3>8
  <2>7. QED  BY <1>2, <1>4, <2>4, <2>5, <2>6 DEF Onto
<1>7. CASE VisitNew(k) /\ Len(adding) <= MaxDepth
  <2>1. adding' = Append(Onward, [item |-> k, rest |-> assets[k]]) /\ assets[k] \in Seq(Key)
    BY <1>7, PageAssetsAssumption DEF VisitNew, Call
  <2>2. /\ Len(adding') = L + 1 /\ DOMAIN adding' = 1 .. L + 1
        /\ \A i \in DOMAIN adding : adding'[i] = Onward[i]
        /\ adding'[L + 1].item = k /\ adding'[L + 1].rest = assets[k]
    BY <1>2, <1>3, <2>1
  <2>3. ASSUME NEW i \in DOMAIN adding, i > 1, i = L PROVE \E n \in Nat : Reached(i, n)'
    <3>1. PICK n \in Nat : /\ n > 0 /\ n <= Len(list) /\ list[n] = k
                           /\ \A m \in 1 .. n : m = n \/ Done(list[m])
                           /\ Len(Onward[L].rest) = Len(list) - n
                           /\ \A m \in 1 .. Len(Onward[L].rest) : Onward[L].rest[m] = list[n + m]
      BY <1>1, <2>3, OneFurther
    <3>2. \A x : Done(x) => Done(x)'
      BY <1>1 DEF Done
    <3>3. /\ adding'[i] = Onward[L] /\ assets'[adding'[i].item] = list
          /\ i < Len(adding') /\ adding'[i + 1].item = k
      BY <1>1, <1>2, <1>3, <2>2, <2>3 DEF Top
    <3>4. Reached(i, n)'
      BY <3>1, <3>2, <3>3 DEF Reached
    <3>5. QED  BY <3>4
  <2>4. ASSUME NEW i, i = L + 1 PROVE Reached(i, 0)'
    <3>1. ~(i < Len(adding')) /\ assets'[adding'[i].item] = assets[k]
          /\ adding'[i].rest = assets[k]
      BY <1>1, <1>2, <2>2, <2>4
    <3>2. Len(assets[k]) \in Nat /\ \A m \in 1 .. Len(assets[k]) : assets[k][m] = assets[k][0 + m]
      BY <2>1
    <3>3. QED  BY <3>1, <3>2 DEF Reached
  <2>5. ASSUME NEW i \in DOMAIN adding', i > 1 PROVE \E n \in Nat : Reached(i, n)'
    <3>1. CASE i = L + 1
      BY <2>4, <3>1
    <3>2. CASE i = L
      BY <1>2, <2>3, <2>5, <3>2
    <3>3. CASE i # L /\ i # L + 1
      <4>1. i \in DOMAIN adding
        BY <1>2, <2>2, <2>5, <3>3
      <4>2. \A j \in DOMAIN adding : /\ j \in DOMAIN adding'
                                     /\ adding'[j].item = adding[j].item
                                     /\ j # L => adding'[j] = adding[j]
        BY <1>2, <1>3, <2>2
      <4>3. QED  BY <1>4, <2>5, <3>3, <4>1, <4>2
    <3>4. QED  BY <3>1, <3>2, <3>3
  <2>6. QED  BY <2>5 DEF Onto
<1>8. CASE VisitNew(k) /\ ~(Len(adding) <= MaxDepth)
  BY <1>8 DEF VisitNew, Onto
<1>9. QED  BY <1>5, <1>6, <1>7, <1>8 DEF Visit

LEMMA OntoStep ==
  TypeOK /\ Chain /\ Dead /\ Onto /\ [Next]_vars => Onto'
<1> SUFFICES ASSUME TypeOK, Chain, Dead, Onto, [Next]_vars PROVE Onto'
  OBVIOUS
<1>1. CASE UNCHANGED vars
  BY <1>1 DEF vars, page, Onto, Reached, Done
<1>2. CASE Finish
  BY <1>2, OntoFinish, TypeStep
<1>3. ASSUME NEW k \in Key, Visit(k) PROVE Onto'
  BY <1>3, OntoVisit, TypeStep
<1>4. ASSUME NEW list \in Needs, Add(list) PROVE Onto'
  BY <1>4 DEF Add, Onto
<1>5. CASE ~Step /\ ~UNCHANGED vars /\ \A list \in Needs : ~Add(list)
  BY <1>5, Between DEF Onto
<1>6. QED  BY <1>1, <1>2, <1>3, <1>4, <1>5 DEF Step

\* The page gets the assets one by one, each for the first time.
LEMMA OnceStep ==
  TypeOK /\ Chain /\ Fresh /\ Onto /\ Dead /\ Distinct /\ OnceEach /\ [Next]_vars
    => OnceEach' /\ Distinct'
<1> SUFFICES ASSUME TypeOK, Chain, Fresh, Onto, Dead, Distinct, OnceEach, [Next]_vars
             PROVE  OnceEach' /\ Distinct'
  OBVIOUS
<1>0. order \in Seq(Key) /\ mark \subseteq Key /\ IsFiniteSet(mark)
      /\ Range(order) = mark /\ Len(order) = Cardinality(mark) /\ Len(order) \in Nat
  BY PageAssetsAssumption, FS_Subset DEF TypeOK, OnceEach
<1>1. CASE Finish /\ Top.item # Page
  <2> DEFINE k == Top.item
  <2>1. adding # <<>> /\ adding \in Seq(Frame)
        /\ order' = Append(order, k) /\ mark' = mark \cup {k}
    BY <1>1 DEF Finish, Place, TypeOK
  <2>2. Len(adding) \in DOMAIN adding /\ Len(adding) > 1
    <3>1. Len(adding) \in DOMAIN adding /\ Len(adding) \in Nat /\ Len(adding) >= 1
      BY <2>1
    <3>2. Len(adding) # 1
      BY <1>1, <2>1 DEF Chain, Top
    <3>3. \A n \in Nat : n >= 1 /\ n # 1 => n > 1
      OBVIOUS
    <3>4. QED  BY <3>1, <3>2, <3>3
  <2>3. k \in Key /\ k \notin mark
    BY <2>2 DEF Chain, Fresh, Top
  <2> HIDE DEF k
  <2>4. /\ DOMAIN order' = 1 .. Len(order) + 1 /\ Len(order') = Len(order) + 1
        /\ \A i \in 1 .. Len(order) : order'[i] = order[i]
        /\ order'[Len(order) + 1] = k /\ DOMAIN order = 1 .. Len(order)
    BY <1>0, <2>1, <2>3
  <2>5. Range(order') = mark \cup {k}
    <3>1. \A i \in DOMAIN order' : order'[i] \in mark \cup {k}
      BY <1>0, <2>4 DEF Range
    <3>2. \A i \in DOMAIN order : i \in DOMAIN order' /\ order'[i] = order[i]
      BY <1>0, <2>4
    <3>3. mark \subseteq Range(order')
      BY <1>0, <3>2 DEF Range
    <3>4. Len(order) + 1 \in DOMAIN order'
      BY <1>0, <2>4
    <3>5. k \in Range(order')
      BY <2>4, <3>4 DEF Range
    <3>6. QED  BY <3>1, <3>3, <3>5 DEF Range
  <2>6. Cardinality(mark \cup {k}) = Cardinality(mark) + 1
    BY <1>0, <2>3, FS_AddElement
  <2>7. \A i \in DOMAIN order : order[i] # k
    BY <1>0, <2>3 DEF Range
  <2>8. Distinct'
    BY <1>0, <2>4, <2>7 DEF Distinct
  <2>9. QED  BY <1>0, <2>1, <2>4, <2>5, <2>6, <2>8 DEF OnceEach
<1>2. ASSUME NEW k \in Key, Unmark(k) PROVE OnceEach' /\ Distinct'
  <2>1. k \in mark /\ mark' = mark \ {k}
    BY <1>2 DEF Unmark
  <2>2. PICK i \in DOMAIN order : order[i] = k /\ order' = Splice(order, i)
    BY <1>2 DEF Unmark
  <2>3. order' \in Seq(Key) /\ Len(order') = Len(order) - 1
        /\ DOMAIN order' = 1 .. Len(order) - 1 /\ DOMAIN order = 1 .. Len(order)
        /\ \A n \in 1 .. Len(order) - 1 :
             order'[n] = IF n < i THEN order[n] ELSE order[n + 1]
    <3>1. order' \in Seq(Key) /\ Len(order') = Len(order) - 1
          /\ \A n \in 1 .. Len(order) - 1 :
               order'[n] = IF n < i THEN order[n] ELSE order[n + 1]
      BY <1>0, <2>2, SpliceFacts
    <3>2. DOMAIN order' = 1 .. Len(order') /\ DOMAIN order = 1 .. Len(order)
      BY <1>0, <3>1
    <3>3. QED  BY <3>1, <3>2
  <2>4. \A n \in DOMAIN order : n # i => order[n] # k
    BY <2>2 DEF Distinct
  <2>5. Cardinality(mark \ {k}) = Cardinality(mark) - 1
    BY <1>0, <2>1, FS_RemoveElement
  <2>6. Range(order') = mark \ {k}
    <3>1. ASSUME NEW n \in DOMAIN order' PROVE order'[n] \in mark \ {k}
      <4>1. \E j \in DOMAIN order : j # i /\ order'[n] = order[j]
        <5>1. CASE n < i
          BY <1>0, <2>2, <2>3, <3>1, <5>1
        <5>2. CASE ~(n < i)
          <6>1. n + 1 \in DOMAIN order /\ n + 1 # i /\ order'[n] = order[n + 1]
            BY <1>0, <2>2, <2>3, <3>1, <5>2
          <6>2. QED  BY <6>1
        <5>3. QED  BY <5>1, <5>2
      <4>2. QED  BY <1>0, <2>4, <4>1 DEF Range
    <3>2. ASSUME NEW x \in mark \ {k} PROVE x \in Range(order')
      <4>1. PICK j \in DOMAIN order : order[j] = x
        BY <1>0, <3>2 DEF Range
      <4>2. j # i
        BY <2>2, <3>2, <4>1
      <4>3. CASE j < i
        <5>1. j \in DOMAIN order' /\ order'[j] = x
          BY <1>0, <2>3, <4>1, <4>3
        <5>2. QED  BY <5>1 DEF Range
      <4>4. CASE j > i
        <5>1. j - 1 \in DOMAIN order' /\ order'[j - 1] = x
          BY <1>0, <2>3, <4>1, <4>4
        <5>2. QED  BY <5>1 DEF Range
      <4>5. QED  BY <2>3, <4>2, <4>3, <4>4
    <3>3. QED  BY <3>1, <3>2 DEF Range
  <2>7. Distinct'
    <3> SUFFICES ASSUME NEW a \in DOMAIN order', NEW b \in DOMAIN order', order'[a] = order'[b]
                 PROVE  a = b
      BY DEF Distinct
    <3> DEFINE From(n) == IF n < i THEN n ELSE n + 1
    <3>1. From(a) \in DOMAIN order /\ From(b) \in DOMAIN order
          /\ order'[a] = order[From(a)] /\ order'[b] = order[From(b)]
      BY <1>0, <2>3
    <3>2. From(a) = From(b)
      BY <3>1 DEF Distinct
    <3>3. QED  BY <2>3, <3>2
  <2>8. QED  BY <1>0, <2>1, <2>3, <2>5, <2>6, <2>7 DEF OnceEach
<1>3. CASE Reset \/ Restart
  <2>1. order' = <<>> /\ mark' = {}
    BY <1>3 DEF Reset, Restart
  <2>2. Range(<<>>) = {} /\ Len(<<>>) = 0 /\ Cardinality({}) = 0
    BY FS_EmptySet DEF Range
  <2>3. QED  BY <2>1, <2>2 DEF OnceEach, Distinct
<1>4. CASE UNCHANGED <<order, mark>>
  BY <1>4 DEF OnceEach, Distinct
<1>5. CASE Finish /\ Top.item = Page
  BY <1>4, <1>5 DEF Finish
<1>6. QED  BY <1>1, <1>2, <1>3, <1>4, <1>5, PageKept

LEMMA Inductive == IInv /\ [Next]_vars => IInv'
BY TypeStep, ChainStep, MetStep, PlacedStep, RequiresFirstStep, RunawayStep, StyledStep,
   FreshStep, OntoStep, OnceStep DEF IInv

LEMMA Initially == Init => IInv
<1> SUFFICES ASSUME Init PROVE IInv
  OBVIOUS
<1>1. TypeOK
  <2>1. <<>> \in Seq(Key) /\ <<>> \in Seq(Frame)
    OBVIOUS
  <2>2. QED  BY <2>1 DEF Init, TypeOK
<1>2. Chain /\ Met /\ Placed /\ Dead /\ Shut /\ RequiresFirst /\ NothingAfterHead
      /\ NoRunaway
  BY DEF Init, Chain, Met, Placed, Dead, Shut, RequiresFirst, NothingAfterHead, NoRunaway
<1>3. Fresh /\ Onto /\ Distinct
  BY DEF Init, Fresh, Onto, Distinct
<1>4. OnceEach
  <2>1. Range(<<>>) = {} /\ Len(<<>>) = 0 /\ Cardinality({}) = 0
    BY FS_EmptySet DEF Range
  <2>2. QED  BY <2>1 DEF Init, OnceEach
<1>5. QED  BY <1>1, <1>2, <1>3, <1>4 DEF IInv

LEMMA Invariance == Spec => []IInv
<1>1. Init /\ [][Next]_vars => []IInv
  BY Initially, Inductive, PTL
<1>2. QED  BY <1>1, PTL DEF Spec

(* In every state the tables of Assets hold keys and definitions, and the  *)
(* nested calls of add are calls for the page or an asset.                 *)
THEOREM TypeCorrect == Spec => []TypeOK
BY Invariance, PTL DEF IInv

(* However add, unmark, addAssets, jsPull and reset are mixed, and however *)
(* deep the requirements are nested, each asset on the page follows what   *)
(* it requires, as long as nothing it requires was missing or taken out.   *)
THEOREM RequirementsPrecede == Spec => []RequiresFirst
BY Invariance, PTL DEF IInv

(* cssHeader writes the styles of every asset that the page will ever have *)
(* before reset.                                                           *)
THEOREM StylesAreComplete == Spec => []NothingAfterHead
BY Invariance, PTL DEF IInv

(* With a stack for as many calls as there are assets, add overflows it    *)
(* only when some assets require each other in a circle.                   *)
THEOREM OverflowMeansCircle == Spec => []NoRunaway
BY Invariance, PTL DEF IInv

(* However requirements meet, and though they may form circles, the page   *)
(* gets each asset once, and the marks say exactly which it has.           *)
THEOREM EachOnce == Spec => []OnceEach
BY Invariance, PTL DEF IInv

-----------------------------------------------------------------------------
(***************************************************************************)
(* Proofs about Handles.  The invariant says that what is counted is held  *)
(* as often as its count, that a reference which is free holds nothing,    *)
(* and that the table of a writer whose loan still stands is held by the   *)
(* one it was lent from alone.  With it each step is one of OwnValues.     *)
(***************************************************************************)
Held == Arrays \cup {Null, Scalar} \cup Ref

\* The counts c are right for the holders hs.
Right(hs, c) == \A b \in Counted : c[b] = Cardinality(Holders(hs, b))

LEMMA SlotsAreFinite == IsFiniteSet(Slot)
<1>1. IsFiniteSet(Handle \cup Val)
  BY HandlesAssumption, FS_Union
<1>2. IsFiniteSet((Handle \cup Val) \cup Ref)
  BY <1>1, HandlesAssumption, FS_Union
<1> QED
  BY <1>2 DEF Slot

LEMMA HoldersAreFinite ==
  ASSUME NEW hs, NEW b
  PROVE  IsFiniteSet(Holders(hs, b)) /\ Cardinality(Holders(hs, b)) \in Nat
<1>1. Holders(hs, b) \subseteq Slot
  BY DEF Holders
<1> QED
  BY <1>1, SlotsAreFinite, FS_Subset, FS_CardinalityType

\* One holder changes, and with it the counts of what it held and holds.
LEMMA RightPut ==
  ASSUME NEW hs \in [Slot -> Held], NEW c \in [Counted -> Nat], Right(hs, c),
         NEW x \in Slot, NEW b \in Held
  PROVE  /\ Right([hs EXCEPT ![x] = b], Added(Dropped(c, hs[x]), b))
         /\ Dropped(c, hs[x]) \in [Counted -> Nat]
         /\ Added(Dropped(c, hs[x]), b) \in [Counted -> Nat]
<1> DEFINE d == Dropped(c, hs[x])
<1>1. hs[x] \in Counted => c[hs[x]] > 0
  <2> SUFFICES ASSUME hs[x] \in Counted PROVE c[hs[x]] > 0
    OBVIOUS
  <2>1. x \in Holders(hs, hs[x])
    BY DEF Holders
  <2>2. Cardinality(Holders(hs, hs[x])) # 0
    BY <2>1, HoldersAreFinite, FS_EmptySet
  <2> QED
    BY <2>2, HoldersAreFinite DEF Right
<1>2. /\ d \in [Counted -> Nat]
      /\ \A e \in Counted : d[e] = IF e = hs[x] THEN c[e] - 1 ELSE c[e]
  BY <1>1 DEF Dropped
<1>3. /\ Added(d, b) \in [Counted -> Nat]
      /\ \A e \in Counted : Added(d, b)[e] = IF e = b THEN d[e] + 1 ELSE d[e]
  BY <1>2 DEF Added
<1>4. ASSUME NEW e \in Counted
      PROVE  Added(d, b)[e] = Cardinality(Holders([hs EXCEPT ![x] = b], e))
  <2> DEFINE S == Holders(hs, e)
             T == Holders([hs EXCEPT ![x] = b], e)
  <2>1. /\ e = b => T = S \cup {x}
        /\ e # b => T = S \ {x}
        /\ x \in S <=> hs[x] = e
    BY DEF Holders
  <2>2. c[e] = Cardinality(S) /\ IsFiniteSet(S) /\ c[e] \in Nat
    BY HoldersAreFinite DEF Right
  <2>3. Added(d, b)[e] = IF e = b THEN (IF e = hs[x] THEN c[e] ELSE c[e] + 1)
                                  ELSE (IF e = hs[x] THEN c[e] - 1 ELSE c[e])
    BY <1>2, <1>3, <2>2
  <2> HIDE DEF S, T, d
  <2>4. Cardinality(S \cup {x}) = IF x \in S THEN Cardinality(S) ELSE Cardinality(S) + 1
    BY <2>2, FS_AddElement
  <2>5. Cardinality(S \ {x}) = IF x \in S THEN Cardinality(S) - 1 ELSE Cardinality(S)
    BY <2>2, FS_RemoveElement
  <2>6. Added(d, b)[e] = Cardinality(T)
    BY <2>1, <2>2, <2>3, <2>4, <2>5
  <2> QED
    BY <2>6 DEF T
<1> QED
  BY <1>2, <1>3, <1>4 DEF Right

\* A table that nobody counts is held by nobody.
LEMMA FreeIsNobodys ==
  ASSUME NEW hs, NEW c, Right(hs, c), NEW b \in Counted, c[b] = 0
  PROVE  Holders(hs, b) = {}
  BY HoldersAreFinite, FS_EmptySet DEF Right

LEMMA SoleIsOne ==
  ASSUME NEW hs, NEW c, Right(hs, c), NEW b \in Counted, c[b] = 1, NEW x \in Holders(hs, b)
  PROVE  Holders(hs, b) = {x}
<1>1. PICK y : Holders(hs, b) = {y}
  BY HoldersAreFinite, FS_Singleton DEF Right
<1> QED
  BY <1>1

\* What y holds goes to x, or is nothing that is counted.
LEMMA RightMove ==
  ASSUME NEW hs \in [Slot -> Held], NEW c \in [Counted -> Nat], Right(hs, c),
         NEW x \in Slot, NEW y \in Slot, x # y, NEW b \in Held,
         b = hs[y] \/ (b \notin Counted /\ hs[y] \notin Counted)
  PROVE  /\ Right([hs EXCEPT ![x] = b, ![y] = Null], Dropped(c, hs[x]))
         /\ Dropped(c, hs[x]) \in [Counted -> Nat]
<1> DEFINE h1 == [hs EXCEPT ![x] = b]
           c1 == Added(Dropped(c, hs[x]), b)
<1>1. Right(h1, c1) /\ c1 \in [Counted -> Nat] /\ Dropped(c, hs[x]) \in [Counted -> Nat]
  BY RightPut
<1>2. h1 \in [Slot -> Held] /\ h1[y] = hs[y]
  OBVIOUS
<1>3. Null \in Held /\ Null \notin Counted
  BY HandlesAssumption DEF Held, Counted
<1>4. Right([h1 EXCEPT ![y] = Null], Added(Dropped(c1, h1[y]), Null))
  <2> HIDE DEF h1, c1
  <2> QED BY <1>1, <1>2, <1>3, RightPut
<1>5. [h1 EXCEPT ![y] = Null] = [hs EXCEPT ![x] = b, ![y] = Null]
  OBVIOUS
<1>6. Added(Dropped(c1, h1[y]), Null) = Dropped(c1, hs[y])
  BY <1>2, <1>3 DEF Added
<1>7. Dropped(c1, hs[y]) = Dropped(c, hs[x])
  <2> DEFINE d == Dropped(c, hs[x])
  <2>1. d \in [Counted -> Nat]
    BY <1>1
  <2> HIDE DEF d
  <2>2. Dropped(Added(d, b), hs[y]) = d
    <3>1. CASE b = hs[y] /\ b \in Counted
      <4>1. Added(d, b) \in [Counted -> Int] /\ Added(d, b) = [d EXCEPT ![b] = d[b] + 1]
        BY <2>1, <3>1 DEF Added
      <4>2. Dropped(Added(d, b), b) = [[d EXCEPT ![b] = d[b] + 1] EXCEPT ![b] = (d[b] + 1) - 1]
        BY <4>1, <2>1, <3>1 DEF Dropped
      <4>3. (d[b] + 1) - 1 = d[b]
        BY <2>1, <3>1
      <4> QED
        BY <2>1, <3>1, <4>2, <4>3
    <3>2. CASE b \notin Counted /\ hs[y] \notin Counted
      BY <3>2 DEF Added, Dropped
    <3> QED BY <3>1, <3>2
  <2> QED BY <2>2 DEF d
<1> QED
  BY <1>1, <1>4, <1>5, <1>6, <1>7

-----------------------------------------------------------------------------
HoldsOK(hs) ==
  /\ hs \in [Slot -> Held]
  /\ \A h \in Handle : hs[h] \in Arrays \cup {Null}
  /\ \A r \in Ref : hs[r] \notin Ref

InUse(c, b) == c[b] # 0

\* A reference that is free is held by nobody and holds nothing.
OpenRefs(hs, c) == \A r \in Ref : c[r] = 0 => hs[r] = Null

Sound(hs, c) == HoldsOK(hs) /\ c \in [Counted -> Nat] /\ Right(hs, c) /\ OpenRefs(hs, c)

\* The table of a fresh writer is held by the one it was lent from.
FreshHold ==
  \A w \in Writer : fresh[w] => at[w] \in Table /\ Holders(holds, at[w]) = {from[w]}

HandlesIInv == HandlesTypeOK /\ (odd = {} => Sound(holds, count) /\ FreshHold)

LEMMA Kinds ==
  /\ Null \in Held /\ Scalar \in Held /\ Shared \in Held /\ Arrays \subseteq Held
  /\ Null \notin Counted /\ Scalar \notin Counted /\ Shared \notin Counted
  /\ Null \notin Arrays /\ Scalar \notin Arrays
  /\ Arrays \cap Ref = {} /\ Null \notin Ref /\ Scalar \notin Ref
  /\ Counted \subseteq Held /\ Table \subseteq Arrays /\ Table \subseteq Counted /\ Ref \subseteq Counted
  /\ \A b \in Held : b \in Arrays \cup {Null, Scalar} \cup Ref
  /\ Handle \subseteq Slot /\ Val \subseteq Slot /\ Ref \subseteq Slot
  /\ \A x \in Slot : x \in Handle \cup Val \cup Ref
  /\ Handle \cap Val = {} /\ Handle \cap Ref = {} /\ Val \cap Ref = {}
  BY HandlesAssumption DEF Held, Counted, Arrays, Slot

\* What the count of something is once it was lost by x and taken with b.
LEMMA CountPut ==
  ASSUME NEW hs \in [Slot -> Held], NEW c \in [Counted -> Nat], Right(hs, c),
         NEW x \in Slot, NEW b \in Held, NEW e \in Counted
  PROVE  Added(Dropped(c, hs[x]), b)[e] =
           IF e = b THEN (IF e = hs[x] THEN c[e] ELSE c[e] + 1)
                    ELSE (IF e = hs[x] THEN c[e] - 1 ELSE c[e])
<1>1. Dropped(c, hs[x]) \in [Counted -> Nat]
  BY RightPut
<1>2. Dropped(c, hs[x])[e] = IF e = hs[x] THEN c[e] - 1 ELSE c[e]
  BY DEF Dropped
<1>3. Added(Dropped(c, hs[x]), b)[e] =
        IF e = b THEN Dropped(c, hs[x])[e] + 1 ELSE Dropped(c, hs[x])[e]
  BY <1>1 DEF Added
<1>4. c[e] \in Nat
  OBVIOUS
<1> QED
  BY <1>2, <1>3, <1>4

\* One holder takes something else, and is not the last of a reference.
LEMMA PutSound ==
  ASSUME NEW hs, NEW c, Sound(hs, c), NEW x \in Slot, NEW b \in Held,
         x \in Handle => b \in Arrays \cup {Null},
         x \in Ref => b \notin Ref /\ InUse(c, x),
         ~(hs[x] \in Ref /\ c[hs[x]] = 1)
  PROVE  Sound([hs EXCEPT ![x] = b], Added(Dropped(c, hs[x]), b))
<1> DEFINE h1 == [hs EXCEPT ![x] = b]
           c1 == Added(Dropped(c, hs[x]), b)
<1>1. hs \in [Slot -> Held] /\ c \in [Counted -> Nat] /\ Right(hs, c)
  BY DEF Sound, HoldsOK
<1>2. Right(h1, c1) /\ c1 \in [Counted -> Nat]
  BY <1>1, RightPut
<1>3. HoldsOK(h1)
  BY Kinds DEF Sound, HoldsOK
<1>4. ASSUME NEW r \in Ref, c1[r] = 0 PROVE h1[r] = Null
  <2>1. c1[r] = IF r = b THEN (IF r = hs[x] THEN c[r] ELSE c[r] + 1)
                         ELSE (IF r = hs[x] THEN c[r] - 1 ELSE c[r])
    BY <1>1, Kinds, CountPut
  <2>2. c[r] \in Nat
    BY <1>1, Kinds
  <2>3. r # hs[x] \/ c[r] # 1
    OBVIOUS
  <2>4. c[r] = 0
    BY <1>4, <2>1, <2>2, <2>3
  <2>5. hs[r] = Null /\ r # x
    BY <2>4 DEF Sound, OpenRefs, InUse
  <2> QED
    BY <2>5, <1>1, Kinds
<1> QED
  BY <1>2, <1>3, <1>4 DEF Sound, OpenRefs

LEMMA NewSound ==
  ASSUME Sound(holds, count), NEW x \in Slot, NEW t \in Counted,
         x \in Handle => t \in Table,
         x \in Ref => t \in Table /\ InUse(count, x),
         ~(holds[x] \in Ref /\ count[holds[x]] = 1),
         count[t] = 0 \/ (holds[x] = t /\ count[t] = 1)
  PROVE  /\ Sound([holds EXCEPT ![x] = t], Added(Dropped(count, holds[x]), t))
         /\ Holders([holds EXCEPT ![x] = t], t) = {x}
<1>1. holds \in [Slot -> Held] /\ count \in [Counted -> Nat] /\ Right(holds, count)
  BY DEF Sound, HoldsOK
<1>5. t \in Held
  BY Kinds
<1>2. Holders([holds EXCEPT ![x] = t], t) = {x}
  <2>1. Holders(holds, t) \subseteq {x}
    <3>1. CASE holds[x] = t
      <4>2. x \in Holders(holds, t)
        BY <3>1 DEF Holders
      <4>1. count[t] = 1
        BY <4>2, <1>1, FreeIsNobodys
      <4> QED
        BY <1>1, <4>1, <4>2, SoleIsOne
    <3>2. CASE holds[x] # t
      <4>1. count[t] = 0
        BY <3>2
      <4> QED
        BY <1>1, <4>1, FreeIsNobodys
    <3> QED
      BY <3>1, <3>2
  <2> QED
    BY <1>1, <2>1 DEF Holders
<1>4. Sound([holds EXCEPT ![x] = t], Added(Dropped(count, holds[x]), t))
  BY Kinds, PutSound
<1> QED
  BY <1>2, <1>4

LEMMA MoveSound ==
  ASSUME NEW hs, NEW c, Sound(hs, c), NEW x \in Handle \cup Val, NEW y \in Handle \cup Val,
         x # y, NEW b \in Held,
         b = hs[y] \/ (b \notin Counted /\ hs[y] \notin Counted),
         x \in Handle => b \in Arrays \cup {Null},
         ~(hs[x] \in Ref /\ c[hs[x]] = 1)
  PROVE  Sound([hs EXCEPT ![x] = b, ![y] = Null], Dropped(c, hs[x]))
<1> DEFINE h1 == [hs EXCEPT ![x] = b, ![y] = Null]
<1>1. hs \in [Slot -> Held] /\ c \in [Counted -> Nat] /\ Right(hs, c) /\ x \in Slot /\ y \in Slot
  BY Kinds DEF Sound, HoldsOK
<1>2. Right(h1, Dropped(c, hs[x])) /\ Dropped(c, hs[x]) \in [Counted -> Nat]
  BY <1>1, RightMove
<1>3. HoldsOK(h1)
  BY <1>1, Kinds DEF Sound, HoldsOK
<1>4. ASSUME NEW r \in Ref, Dropped(c, hs[x])[r] = 0 PROVE h1[r] = Null
  <2>1. c[r] \in Nat /\ Dropped(c, hs[x])[r] = IF r = hs[x] THEN c[r] - 1 ELSE c[r]
    BY <1>1, Kinds DEF Dropped
  <2>2. c[r] = 0
    BY <1>4, <2>1
  <2>3. hs[r] = Null /\ r # x /\ r # y
    BY <2>2, Kinds DEF Sound, OpenRefs
  <2> QED
    BY <2>3, <1>1, Kinds
<1> QED
  BY <1>2, <1>3, <1>4 DEF Sound, OpenRefs

-----------------------------------------------------------------------------
Causes == {"self", "late", "freed", "taken", "reference"}

LEMMA AddedIsCount ==
  ASSUME NEW c \in [Counted -> Nat], NEW b
  PROVE  Added(c, b) \in [Counted -> Nat]
  BY DEF Added

\* A step that leaves the writers where they are.
LEMMA OthersStep ==
  ASSUME HandlesIInv, odd = {}, NoWriter, HoldsOK(holds'), count' \in [Counted -> Nat],
         body' \in [Table -> Content], odd' \subseteq Causes,
         odd' = {} => Sound(holds', count')
  PROVE  HandlesIInv'
<1>1. HandlesTypeOK'
  BY DEF HandlesIInv, HandlesTypeOK, NoWriter, Age, HoldsOK, Held, Causes
<1>2. FreshHold'
  BY DEF HandlesIInv, HandlesTypeOK, FreshHold, NoWriter, Age
<1> QED
  BY <1>1, <1>2 DEF HandlesIInv

\* A step that gives the table t of x to w.
LEMMA TakesStep ==
  ASSUME HandlesIInv, odd = {}, NEW w \in Writer, NEW t \in Arrays \cup {Null}, NEW x \in Slot,
         Takes(w, t, x), HoldsOK(holds'), count' \in [Counted -> Nat],
         body' \in [Table -> Content], odd' \subseteq Causes,
         odd' = {} => Sound(holds', count') /\ t \in Table /\ Holders(holds', t) = {x}
  PROVE  HandlesIInv'
<1>1. HandlesTypeOK'
  BY DEF HandlesIInv, HandlesTypeOK, Takes, HoldsOK, Held, Causes
<1>2. ASSUME odd' = {} PROVE FreshHold'
  BY <1>2 DEF HandlesIInv, HandlesTypeOK, FreshHold, Takes
<1> QED
  BY <1>1, <1>2 DEF HandlesIInv

LEMMA Facts ==
  ASSUME HandlesIInv, odd = {}
  PROVE  /\ Sound(holds, count) /\ FreshHold /\ HoldsOK(holds)
         /\ holds \in [Slot -> Held] /\ count \in [Counted -> Nat] /\ Right(holds, count)
         /\ body \in [Table -> Content] /\ odd \subseteq Causes
         /\ \A w \in Writer : at[w] \in Arrays \cup {Null}
         /\ \A h \in Handle : holds[h] \in Arrays \cup {Null} /\ holds[h] \notin Ref
         /\ \A v \in Val : holds[v] \in Held
  BY Kinds DEF HandlesIInv, HandlesTypeOK, Sound, HoldsOK, Held, Causes

LEMMA LoseIsCount ==
  ASSUME HandlesIInv, odd = {}, NEW x \in Slot
  PROVE  Dropped(count, holds[x]) \in [Counted -> Nat]
<1>1. Null \in Held /\ holds \in [Slot -> Held] /\ count \in [Counted -> Nat] /\ Right(holds, count)
  BY Facts, Kinds
<1> QED
  BY <1>1, RightPut

LEMMA LoseValIsCount ==
  ASSUME HandlesIInv, odd = {}, NEW v \in Val
  PROVE  /\ LoseVal(v) \in [Counted -> Nat] /\ HoldsOK(Emptied(v))
         /\ ~Last(holds[v]) => LoseVal(v) = Dropped(count, holds[v]) /\ Emptied(v) = holds
<1>1. holds \in [Slot -> Held] /\ v \in Slot
  BY Facts, Kinds
<1>2. HoldsOK(Emptied(v))
  BY Facts, Kinds, <1>1 DEF HoldsOK, Emptied, Last
<1>3. ASSUME Last(holds[v]) PROVE LoseVal(v) \in [Counted -> Nat]
  <2> DEFINE r == holds[v]
             c == Dropped(count, r)
             h1 == [holds EXCEPT ![v] = Null]
  <2>1. r \in Ref /\ r \in Slot /\ holds[r] \notin Ref
    BY <1>3, Kinds, Facts DEF Last, HoldsOK
  <2>2. Right(h1, Added(c, Null)) /\ Added(c, Null) \in [Counted -> Nat]
    BY Facts, Kinds, RightPut
  <2>3. Added(c, Null) = c
    BY Kinds DEF Added
  <2>4. h1 \in [Slot -> Held] /\ h1[r] = holds[r]
    BY <1>1, <2>1, Kinds
  <2>5. Right(h1, c) /\ c \in [Counted -> Nat] /\ Null \in Held
    BY <2>2, <2>3, Kinds
  <2>6. Dropped(c, h1[r]) \in [Counted -> Nat]
    <3> HIDE DEF h1, c, r
    <3> QED BY <2>1, <2>4, <2>5, RightPut
  <2>7. LoseVal(v) = Dropped(c, holds[r])
    BY <1>3 DEF LoseVal
  <2> QED
    BY <2>4, <2>6, <2>7
<1>4. ~Last(holds[v]) => LoseVal(v) = Dropped(count, holds[v]) /\ Emptied(v) = holds
  BY DEF LoseVal, Emptied
<1>5. Dropped(count, holds[v]) \in [Counted -> Nat]
  BY <1>1, LoseIsCount
<1> QED
  BY <1>2, <1>3, <1>4, <1>5

LEMMA HeldIsCounted ==
  ASSUME HandlesIInv, odd = {}, NEW x \in Slot, holds[x] \in Counted
  PROVE  count[holds[x]] \in Nat /\ count[holds[x]] > 0
<1>1. x \in Holders(holds, holds[x])
  BY DEF Holders
<1>2. Cardinality(Holders(holds, holds[x])) # 0
  BY <1>1, HoldersAreFinite, FS_EmptySet
<1> QED
  BY <1>2, Facts, HoldersAreFinite DEF Right

LEMMA FreeStays ==
  ASSUME HandlesIInv, odd = {}, NEW x \in Slot, NEW t \in Counted, count[t] = 0
  PROVE  Dropped(count, holds[x])[t] = 0 /\ holds[x] # t
  BY HeldIsCounted, Facts DEF Dropped

\* Counting the first holder is setting the count to one.
LEMMA FirstHolder ==
  ASSUME HandlesIInv, odd = {}, NEW x \in Slot, NEW t \in Counted, NEW c,
         c = Dropped(count, holds[x]), c[t] = 0
  PROVE  [c EXCEPT ![t] = 1] = Added(c, t)
  BY LoseIsCount DEF Added

\* A handle takes what is counted for it.
LEMMA HandleStep ==
  ASSUME HandlesIInv, odd = {}, NEW h \in Handle, NEW b \in Arrays \cup {Null},
         HandleIs(h, b, Added(Lose(h), b)), body' \in [Table -> Content], odd' \subseteq Causes
  PROVE  HandlesIInv'
<1>1. h \in Slot /\ b \in Held /\ holds[h] \notin Ref /\ h \notin Ref
  BY Kinds, Facts
<1>2. Sound([holds EXCEPT ![h] = b], Added(Dropped(count, holds[h]), b))
  BY <1>1, Facts, PutSound
<1>3. Sound(holds', count') /\ NoWriter
  BY <1>2 DEF HandleIs, Lose
<1> QED
  BY <1>3, OthersStep DEF Sound

LEMMA HandleNewStep ==
  ASSUME HandlesIInv, odd = {}, NEW h \in Handle, NEW t \in Table, count[t] = 0,
         HandleIs(h, t, [Lose(h) EXCEPT ![t] = 1]), body' \in [Table -> Content],
         odd' \subseteq Causes
  PROVE  HandlesIInv' /\ Holders(holds', t) = {h}
<1>1. count[t] = 0 /\ h \in Slot /\ holds[h] \notin Ref /\ h \notin Ref /\ t \in Counted
  BY Kinds, Facts
<1>2. Dropped(count, holds[h])[t] = 0
  BY <1>1, FreeStays
<1>3. /\ Sound([holds EXCEPT ![h] = t], Added(Dropped(count, holds[h]), t))
      /\ Holders([holds EXCEPT ![h] = t], t) = {h}
  <2>1. Sound(holds, count)
    BY Facts
  <2>2. h \in Handle => t \in Table
    OBVIOUS
  <2>3. h \in Ref => t \in Table /\ InUse(count, h)
    BY <1>1
  <2>4. h \in Slot /\ t \in Counted
    BY <1>1
  <2>5. ~(holds[h] \in Ref /\ count[holds[h]] = 1)
    BY <1>1
  <2>6. count[t] = 0 \/ (holds[h] = t /\ count[t] = 1)
    OBVIOUS
  <2> QED
    BY ONLY <2>1, <2>2, <2>3, <2>4, <2>5, <2>6, NewSound
<1>5. [Dropped(count, holds[h]) EXCEPT ![t] = 1] = Added(Dropped(count, holds[h]), t)
  BY <1>1, <1>2, FirstHolder
<1>4. Sound(holds', count') /\ NoWriter /\ Holders(holds', t) = {h}
  BY <1>3, <1>5 DEF HandleIs, Lose
<1> QED
  BY <1>4, OthersStep DEF Sound

\* x gives up what it has for what y had.
LEMMA MoveStep ==
  ASSUME HandlesIInv, odd = {}, NEW x \in Handle \cup Val, NEW y \in Handle \cup Val, x # y,
         NEW b \in Held, b = holds[y] \/ (b \notin Counted /\ holds[y] \notin Counted),
         x \in Handle => b \in Arrays \cup {Null}, ~Last(holds[x]),
         holds' = [holds EXCEPT ![x] = b, ![y] = Null], count' = Dropped(count, holds[x]),
         NoWriter, UNCHANGED body, odd' \subseteq Causes
  PROVE  HandlesIInv'
<1>1. Sound([holds EXCEPT ![x] = b, ![y] = Null], Dropped(count, holds[x]))
  BY Facts, MoveSound DEF Last
<1>2. Sound(holds', count')
  BY <1>1
<1> QED
  BY <1>2, Facts, OthersStep DEF Sound

LEMMA ValStep ==
  ASSUME HandlesIInv, odd = {}, NEW v \in Val, NEW b \in Held,
         ValIs(v, b, Added(LoseVal(v), b)), Last(holds[v]) => odd' # {},
         body' \in [Table -> Content], odd' \subseteq Causes
  PROVE  HandlesIInv'
<1>1. LoseVal(v) \in [Counted -> Nat] /\ HoldsOK(Emptied(v))
  BY LoseValIsCount
<1>2. HoldsOK(holds') /\ count' \in [Counted -> Nat] /\ NoWriter
  <2>1. HoldsOK([Emptied(v) EXCEPT ![v] = b])
    BY <1>1, Kinds DEF HoldsOK
  <2> QED
    BY <1>1, <2>1, AddedIsCount DEF ValIs
<1>3. ASSUME odd' = {} PROVE Sound(holds', count')
  <2>1. ~Last(holds[v]) /\ holds' = [holds EXCEPT ![v] = b]
        /\ count' = Added(Dropped(count, holds[v]), b)
    BY <1>3, LoseValIsCount DEF ValIs
  <2>2. v \in Slot /\ v \notin Handle /\ v \notin Ref
    BY Kinds
  <2>3. Sound([holds EXCEPT ![v] = b], Added(Dropped(count, holds[v]), b))
    BY <2>1, <2>2, Facts, PutSound DEF Last
  <2> QED
    BY <2>1, <2>3
<1> QED
  BY <1>2, <1>3, Facts, OthersStep

\* x gets a table of its own, which w takes.
LEMMA RenewsStep ==
  ASSUME HandlesIInv, odd = {}, NEW w \in Writer, NEW x \in Slot, NEW t \in Table, NEW e \in Content,
         Renews(w, x, t, e), holds[x] \notin Ref, x \in Ref => InUse(count, x), UNCHANGED odd
  PROVE  HandlesIInv' /\ Holders(holds', t) = {x}
<1>1. t \in Counted /\ count[t] = 0 /\ holds[x] \notin Ref
  BY Kinds DEF Renews, Free
<1>2. Dropped(count, holds[x])[t] = 0
  BY <1>1, FreeStays
<1>3. /\ Sound([holds EXCEPT ![x] = t], Added(Dropped(count, holds[x]), t))
      /\ Holders([holds EXCEPT ![x] = t], t) = {x}
  <2>1. Sound(holds, count) /\ t \in Table /\ t \in Counted /\ x \in Slot
    BY <1>1, Facts
  <2>2. x \in Handle => t \in Table
    OBVIOUS
  <2>3. x \in Ref => t \in Table /\ InUse(count, x)
    OBVIOUS
  <2>4. x \in Slot /\ t \in Counted
    BY <2>1
  <2>5. ~(holds[x] \in Ref /\ count[holds[x]] = 1)
    BY <1>1
  <2>6. count[t] = 0 \/ (holds[x] = t /\ count[t] = 1)
    BY <1>1
  <2> QED
    BY ONLY <2>1, <2>2, <2>3, <2>4, <2>5, <2>6, NewSound
<1>5. [Dropped(count, holds[x]) EXCEPT ![t] = 1] = Added(Dropped(count, holds[x]), t)
  BY <1>1, <1>2, FirstHolder
<1>4. Sound(holds', count') /\ Holders(holds', t) = {x} /\ Takes(w, t, x)
      /\ body' \in [Table -> Content]
  BY <1>3, <1>5, Facts DEF Renews
<1> QED
  BY <1>4, Kinds, Facts, TakesStep DEF Sound

-----------------------------------------------------------------------------
LEMMA Cased ==
  ASSUME odd = {}
  PROVE  /\ \A S : Cause(S) <=> odd' = S
         /\ \A cond, c : CauseIf(cond, c) <=> odd' = IF cond THEN {c} ELSE {}
  BY DEF Cause, CauseIf

LEMMA ZarrayIs ==
  ASSUME HandlesIInv, odd = {}, NEW v \in Val
  PROVE  /\ Zarray(holds[v]) \in Arrays \cup {Null}
         /\ holds[v] \notin Ref => \/ Zarray(holds[v]) = holds[v]
                                   \/ Zarray(holds[v]) = Null /\ holds[v] \notin Counted
<1>1. Zarray(holds[v]) \in Arrays \cup {Null}
  BY DEF Zarray
<1>2. ASSUME holds[v] \notin Ref, holds[v] \notin Arrays
      PROVE  Zarray(holds[v]) = Null /\ holds[v] \notin Counted
  <2>1. holds[v] \in {Null, Scalar}
    BY <1>2, Facts, Kinds
  <2> QED
    BY <1>2, <2>1, Kinds DEF Zarray, Inner
<1>3. holds[v] \notin Ref /\ holds[v] \in Arrays => Zarray(holds[v]) = holds[v]
  BY DEF Zarray, Inner
<1>4. ASSUME holds[v] \notin Ref
      PROVE  \/ Zarray(holds[v]) = holds[v]
             \/ Zarray(holds[v]) = Null /\ holds[v] \notin Counted
  <2>1. CASE holds[v] \in Arrays
    BY <1>3, <1>4, <2>1
  <2>2. CASE holds[v] \notin Arrays
    BY <1>2, <1>4, <2>2
  <2> QED
    BY <2>1, <2>2
<1> QED
  BY <1>1, <1>4

LEMMA AddedNull == \A c : Added(c, Null) = c /\ Dropped(c, Null) = c /\ Added(c, Shared) = c
                           /\ Added(c, Scalar) = c
  BY Kinds DEF Added, Dropped

LEMMA AssignHandleStep ==
  ASSUME HandlesIInv, odd = {}, NEW h \in Handle, NEW g \in Handle, AssignHandle(h, g)
  PROVE  HandlesIInv'
<1> DEFINE b == IF h = g THEN Null ELSE holds[g]
<1>1. HandleIs(h, b, Added(Lose(h), b))
  BY AddedNull DEF AssignHandle
<1>2. b \in Arrays \cup {Null}
  BY Facts
<1>3. body' \in [Table -> Content] /\ odd' \subseteq Causes
  BY Facts, Cased DEF AssignHandle, Causes
<1> QED
  BY <1>1, <1>2, <1>3, HandleStep

LEMMA MoveHandleStep ==
  ASSUME HandlesIInv, odd = {}, NEW h \in Handle, NEW g \in Handle, MoveHandle(h, g)
  PROVE  HandlesIInv'
<1>1. /\ holds' = [holds EXCEPT ![h] = IF h = g THEN Null ELSE holds[g], ![g] = Null]
      /\ count' = Lose(h) /\ NoWriter /\ UNCHANGED body /\ odd' \subseteq Causes
  BY Cased DEF MoveHandle, Causes
<1>2. CASE h = g
  <2>1. holds' = [holds EXCEPT ![h] = Null]
    BY <1>1, <1>2, Facts
  <2>2. HandleIs(h, Null, Added(Lose(h), Null))
    BY <1>1, <2>1, AddedNull DEF HandleIs
  <2> QED
    BY <1>1, <2>2, Facts, HandleStep
<1>3. CASE h # g
  <2>1. holds' = [holds EXCEPT ![h] = holds[g], ![g] = Null]
    BY <1>1, <1>3
  <2>2. holds[g] \in Held /\ holds[g] \in Arrays \cup {Null} /\ ~Last(holds[h])
    BY Facts, Kinds DEF Last
  <2> QED
    BY <1>1, <1>3, <2>1, <2>2, MoveStep DEF Lose
<1> QED
  BY <1>2, <1>3

LEMMA AssignPointerStep ==
  ASSUME HandlesIInv, odd = {}, NEW h \in Handle, NEW w \in Writer,
         AssignPointer(h, w) \/ AssignTable(h, w)
  PROVE  HandlesIInv'
<1>1. at[w] \in Arrays \cup {Null} /\ HandleIs(h, at[w], Added(Lose(h), at[w]))
  BY Facts DEF AssignPointer, AssignTable
<1>2. body' \in [Table -> Content] /\ odd' \subseteq Causes
  BY Facts, Cased DEF AssignPointer, AssignTable, Causes
<1> QED
  BY <1>1, <1>2, HandleStep

LEMMA FromValStep ==
  ASSUME HandlesIInv, odd = {}, NEW h \in Handle, NEW v \in Val,
         AssignFromVal(h, v) \/ TakeVal(h, v) \/ GiveOut(h, v) \/ ValFromHandle(v, h)
  PROVE  HandlesIInv'
<1> DEFINE p == Zarray(holds[v])
<1>0. /\ h # v /\ h \in Handle \cup Val /\ v \in Handle \cup Val /\ v \notin Handle
      /\ Null \in Held /\ Arrays \subseteq Held /\ holds[h] \in Arrays \cup {Null}
      /\ holds[h] \in Held
  BY Kinds, Facts
<1>1. CASE AssignFromVal(h, v)
  <2>1. HandleIs(h, p, Added(Lose(h), p)) /\ UNCHANGED <<body, odd>>
    BY <1>1 DEF AssignFromVal
  <2>2. p \in Arrays \cup {Null}
    BY ZarrayIs
  <2> HIDE DEF p
  <2> QED
    BY <2>1, <2>2, Facts, HandleStep
<1>2. CASE TakeVal(h, v)
  <2>1. /\ holds' = [holds EXCEPT ![h] = p, ![v] = Null] /\ count' = Dropped(count, holds[h])
        /\ NoWriter /\ UNCHANGED body
        /\ odd' = IF holds[v] \in Ref THEN {"taken"} ELSE {}
    BY <1>2, Cased DEF TakeVal, Lose
  <2>2. p \in Arrays \cup {Null} /\ p \in Held /\ ~Last(holds[h])
    BY ZarrayIs, Kinds, Facts DEF Last
  <2>3. CASE holds[v] \notin Ref
    <3>1. p = holds[v] \/ (p \notin Counted /\ holds[v] \notin Counted)
      BY <2>3, ZarrayIs, Kinds
    <3>2. odd' \subseteq Causes
      BY <2>1, <2>3
    <3> HIDE DEF p
    <3> QED
      BY <1>0, <2>1, <2>2, <3>1, <3>2, MoveStep
  <2>4. CASE holds[v] \in Ref
    <3>1. HoldsOK(holds')
      <4> HIDE DEF p
      <4> QED BY <2>1, <2>2, Facts, Kinds DEF HoldsOK
    <3>2. count' \in [Counted -> Nat]
      BY <2>1, <1>0, Kinds, LoseIsCount
    <3>3. odd' # {} /\ odd' \subseteq Causes
      BY <2>1, <2>4 DEF Causes
    <3> QED
      BY <2>1, <3>1, <3>2, <3>3, Facts, OthersStep
  <2> QED
    BY <2>3, <2>4
<1>3. CASE GiveOut(h, v)
  <2>1. /\ holds' = [holds EXCEPT ![v] = holds[h], ![h] = Null] /\ count' = Dropped(count, holds[v])
        /\ NoWriter /\ UNCHANGED <<body, odd>> /\ ~Last(holds[v])
    BY <1>3, AddedNull, Kinds DEF GiveOut, Last
  <2> QED
    BY <1>0, <2>1, Facts, MoveStep
<1>4. CASE ValFromHandle(v, h)
  <2> DEFINE b == IF holds[h] = Null THEN Scalar ELSE holds[h]
  <2>1. /\ ValIs(v, b, Added(LoseVal(v), b)) /\ UNCHANGED body
        /\ odd' = IF Last(holds[v]) THEN {"freed"} ELSE {}
    BY <1>4, Cased, AddedNull DEF ValFromHandle
  <2>3. b \in Held
    BY <1>0, Kinds
  <2> HIDE DEF b
  <2>2. (Last(holds[v]) => odd' # {}) /\ odd' \subseteq Causes
    BY <2>1 DEF Causes
  <2> QED
    BY <2>1, <2>2, <2>3, Facts, ValStep
<1> QED
  BY <1>1, <1>2, <1>3, <1>4

LEMMA AdoptStep ==
  ASSUME HandlesIInv, odd = {}, NEW h \in Handle, Adopt(h)
  PROVE  HandlesIInv'
<1>1. PICK t \in Table :
        /\ count[t] = 0 /\ HandleIs(h, t, [Lose(h) EXCEPT ![t] = 1])
        /\ body' = [body EXCEPT ![t] = Nothing] /\ UNCHANGED odd
  BY DEF Adopt, Free
<1>2. body' \in [Table -> Content] /\ odd' \subseteq Causes
  BY <1>1, Facts, HandlesAssumption
<1> QED
  BY <1>1, <1>2, HandleNewStep

LEMMA DuplicateStep ==
  ASSUME HandlesIInv, odd = {}, NEW h \in Handle, NEW w \in Writer, Duplicate(h, w)
  PROVE  HandlesIInv'
<1>1. PICK t \in Table :
        /\ count[t] = 0 /\ HandleIs(h, t, [count EXCEPT ![t] = 1])
        /\ body' = [body EXCEPT ![t] = body[at[w]]]
  BY DEF Duplicate, Free
<1>2. /\ at[w] \in Table /\ Lose(h) = count
      /\ odd' = IF ~fresh[w] THEN {"late"} ELSE {}
  BY Cased, AddedNull DEF Duplicate, Lose
<1>3. body' \in [Table -> Content] /\ odd' \subseteq Causes
  BY <1>1, <1>2, Facts DEF Causes
<1> QED
  BY <1>1, <1>2, <1>3, HandleNewStep

LEMMA EmptyHandleStep ==
  ASSUME HandlesIInv, odd = {}, NEW h \in Handle, DropHandle(h) \/ InitHandle(h) \/ ResetHandle(h)
  PROVE  HandlesIInv'
<1>1. PICK b \in {Null, Shared} : HandleIs(h, b, Lose(h)) /\ UNCHANGED <<body, odd>>
  BY DEF DropHandle, InitHandle, ResetHandle
<1>2. HandleIs(h, b, Added(Lose(h), b)) /\ b \in Arrays \cup {Null}
  BY <1>1, AddedNull DEF Arrays
<1> QED
  BY <1>1, <1>2, Facts, HandleStep

LEMMA AssignValStep ==
  ASSUME HandlesIInv, odd = {}, NEW v \in Val, NEW u \in Val, AssignVal(v, u)
  PROVE  HandlesIInv'
<1> DEFINE lost == u = v /\ holds[v] \in Counted
           b == IF lost THEN Null ELSE holds[u]
<1>1. ValIs(v, b, Added(LoseVal(v), b)) /\ UNCHANGED body
  BY AddedNull DEF AssignVal
<1>2. b \in Held
  BY Facts, Kinds
<1>3. odd' = (IF Last(holds[v]) THEN {"freed"} ELSE {}) \cup (IF lost THEN {"self"} ELSE {})
  BY Cased DEF AssignVal
<1>4. (Last(holds[v]) => odd' # {}) /\ odd' \subseteq Causes
  BY <1>3 DEF Causes
<1> HIDE DEF b
<1> QED
  BY <1>1, <1>2, <1>4, Facts, ValStep

LEMMA MoveValStep ==
  ASSUME HandlesIInv, odd = {}, NEW v \in Val, NEW u \in Val, MoveVal(v, u)
  PROVE  HandlesIInv'
<1>1. /\ u # v /\ holds' = [Emptied(v) EXCEPT ![v] = holds[u], ![u] = Null]
      /\ count' = LoseVal(v) /\ NoWriter /\ UNCHANGED body
      /\ odd' = IF Last(holds[v]) THEN {"freed"} ELSE {}
  BY Cased DEF MoveVal
<1>2. odd' \subseteq Causes /\ holds[u] \in Held
  BY <1>1, Facts DEF Causes
<1>3. CASE Last(holds[v])
  <2>1. HoldsOK(Emptied(v)) /\ LoseVal(v) \in [Counted -> Nat]
    BY LoseValIsCount
  <2>2. HoldsOK([Emptied(v) EXCEPT ![v] = holds[u], ![u] = Null])
    BY <1>2, <2>1, Kinds DEF HoldsOK
  <2>3. odd' # {}
    BY <1>1, <1>3
  <2> QED
    BY <1>1, <1>2, <2>1, <2>2, <2>3, Facts, OthersStep
<1>4. CASE ~Last(holds[v])
  <2>1. holds' = [holds EXCEPT ![v] = holds[u], ![u] = Null] /\ count' = Dropped(count, holds[v])
    BY <1>1, <1>4, LoseValIsCount
  <2>2. v \in Handle \cup Val /\ u \in Handle \cup Val /\ v \notin Handle
    BY Kinds
  <2> QED
    BY <1>1, <1>2, <1>4, <2>1, <2>2, MoveStep
<1> QED
  BY <1>3, <1>4

LEMMA SetValStep ==
  ASSUME HandlesIInv, odd = {}, NEW v \in Val, NEW b, SetVal(v, b)
  PROVE  HandlesIInv'
<1>1. /\ b \in {Null, Scalar, Shared} /\ ValIs(v, b, LoseVal(v)) /\ UNCHANGED body
      /\ odd' = IF Last(holds[v]) THEN {"freed"} ELSE {}
  BY Cased DEF SetVal
<1>2. ValIs(v, b, Added(LoseVal(v), b)) /\ b \in Held
  BY <1>1, AddedNull, Kinds
<1>3. (Last(holds[v]) => odd' # {}) /\ odd' \subseteq Causes
  BY <1>1 DEF Causes
<1> QED
  BY <1>1, <1>2, <1>3, Facts, ValStep

LEMMA NewArrayStep ==
  ASSUME HandlesIInv, odd = {}, NEW v \in Val, NewArray(v)
  PROVE  HandlesIInv'
<1>1. PICK t \in Table :
        /\ LoseVal(v)[t] = 0 /\ ValIs(v, t, [LoseVal(v) EXCEPT ![t] = 1])
        /\ body' = [body EXCEPT ![t] = Nothing]
  BY DEF NewArray
<1>2. odd' = IF Last(holds[v]) THEN {"freed"} ELSE {}
  BY Cased DEF NewArray
<1>3. [LoseVal(v) EXCEPT ![t] = 1] = Added(LoseVal(v), t)
  BY <1>1, LoseValIsCount, Kinds DEF Added
<1>4. t \in Held /\ body' \in [Table -> Content]
  BY <1>1, Kinds, Facts, HandlesAssumption
<1>5. (Last(holds[v]) => odd' # {}) /\ odd' \subseteq Causes
  BY <1>2 DEF Causes
<1>6. ValIs(v, t, Added(LoseVal(v), t))
  BY <1>1, <1>3
<1> QED
  BY <1>4, <1>5, <1>6, ValStep

\* The reference takes what the value had, and the value the reference.
LEMMA MakeRefStep ==
  ASSUME HandlesIInv, odd = {}, NEW v \in Val, MakeRef(v)
  PROVE  HandlesIInv'
<1>1. PICK r \in Ref :
        /\ count[r] = 0 /\ holds' = [holds EXCEPT ![r] = holds[v], ![v] = r]
        /\ count' = [count EXCEPT ![r] = 1]
  BY DEF MakeRef, Free
<1>2. holds[v] \notin Ref /\ NoWriter /\ UNCHANGED <<body, odd>>
  BY DEF MakeRef
<1>3. /\ r \in Slot /\ v \in Slot /\ r # v /\ r \in Counted /\ r \in Held /\ v \notin Handle
      /\ v \notin Ref /\ r \notin Handle /\ Null \in Held /\ holds[v] \in Held
      /\ holds[r] = Null
  BY <1>1, Kinds, Facts DEF Sound, OpenRefs
<1> DEFINE h1 == [holds EXCEPT ![r] = holds[v], ![v] = Null]
<1>4. Right(h1, count) /\ h1 \in [Slot -> Held]
  <2>1. Right(h1, Dropped(count, holds[r]))
    BY <1>3, Facts, RightMove
  <2>2. Dropped(count, holds[r]) = count
    BY <1>3, AddedNull
  <2> QED
    BY <1>3, <2>1, <2>2, Facts
<1>5. h1[v] = Null /\ [h1 EXCEPT ![v] = r] = holds'
  BY <1>1, <1>3, Facts
<1>6. Right(holds', count')
  <2>1. Right([h1 EXCEPT ![v] = r], Added(Dropped(count, h1[v]), r))
    <3> HIDE DEF h1
    <3> QED BY <1>3, <1>4, Facts, RightPut
  <2>2. Added(Dropped(count, h1[v]), r) = count'
    BY <1>1, <1>3, <1>5, AddedNull, Facts DEF Added
  <2> QED
    BY <1>5, <2>1, <2>2
<1>7. HoldsOK(holds')
  BY <1>1, <1>2, <1>3, Facts, Kinds DEF HoldsOK
<1>8. OpenRefs(holds', count')
  BY <1>1, <1>3, Facts, Kinds DEF Sound, OpenRefs
<1>9. count' \in [Counted -> Nat]
  BY <1>1, Facts
<1> QED
  BY <1>2, <1>6, <1>7, <1>8, <1>9, Facts, OthersStep DEF Sound

LEMMA SeparateStep ==
  ASSUME HandlesIInv, odd = {}, NEW w \in Writer, NEW x \in Slot, Separate(w, x),
         holds[x] \notin Ref, x \in Ref => InUse(count, x)
  PROVE  HandlesIInv'
<1>1. UNCHANGED odd
  BY DEF Separate
<1>2. ASSUME NEW t \in Table, NEW e \in Content, Renews(w, x, t, e)
      PROVE  HandlesIInv'
  BY <1>1, <1>2, RenewsStep
<1>3. ASSUME NEW t \in Table, holds[x] = t, count[t] = 1, Takes(w, t, x),
             UNCHANGED <<holds, count, body>>
      PROVE  HandlesIInv'
  <2>1. Holders(holds, t) = {x}
    <3>1. x \in Holders(holds, t) /\ t \in Counted
      BY <1>3, Kinds DEF Holders
    <3> QED
      BY <1>3, <3>1, Facts, SoleIsOne
  <2>2. t \in Arrays \cup {Null} /\ Holders(holds', t) = {x}
    BY <1>3, <2>1, Kinds
  <2>3. Sound(holds', count')
    BY <1>3, Facts
  <2> QED
    BY <1>1, <1>3, <2>2, <2>3, Facts, TakesStep DEF Sound
<1>4. PICK t \in Table :
        \/ Renews(w, x, t, Nothing)
        \/ Renews(w, x, t, Wrapped)
        \/ holds[x] \in Table /\ Renews(w, x, t, body[holds[x]])
        \/ /\ holds[x] = t /\ count[t] = 1
           /\ Takes(w, t, x)
           /\ UNCHANGED <<holds, count, body>>
  BY DEF Separate
<1>5. Nothing \in Content /\ Wrapped \in Content
      /\ (holds[x] \in Table => body[holds[x]] \in Content)
  BY Facts, HandlesAssumption
<1> QED
  BY <1>2, <1>3, <1>4, <1>5

LEMMA LendStep ==
  ASSUME HandlesIInv, odd = {}, NEW w \in Writer,
         \/ \E h \in Handle : LendHandle(w, h)
         \/ \E v \in Val : LendVal(w, v) \/ LendReferent(w, v)
  PROVE  HandlesIInv'
<1>1. ASSUME NEW h \in Handle, LendHandle(w, h) PROVE HandlesIInv'
  BY <1>1, Facts, Kinds, SeparateStep DEF LendHandle
<1>2. ASSUME NEW v \in Val, LendVal(w, v) PROVE HandlesIInv'
  BY <1>2, Kinds, SeparateStep DEF LendVal
<1>3. ASSUME NEW v \in Val, LendReferent(w, v) PROVE HandlesIInv'
  <2> DEFINE r == holds[v]
  <2>1. r \in Ref /\ r \in Slot /\ v \in Slot /\ holds[r] \notin Ref
    BY <1>3, Facts, Kinds DEF LendReferent, HoldsOK
  <2>2. InUse(count, r)
    BY <2>1, HeldIsCounted, Kinds DEF InUse
  <2>3. Separate(w, r)
    BY <1>3 DEF LendReferent
  <2> HIDE DEF r
  <2> QED
    BY <2>1, <2>2, <2>3, SeparateStep
<1> QED
  BY <1>1, <1>2, <1>3

LEMMA LendReferenceStep ==
  ASSUME HandlesIInv, odd = {}, NEW w \in Writer, NEW v \in Val, LendReference(w, v)
  PROVE  HandlesIInv'
<1> DEFINE p == Zarray(holds[v])
           r == holds[v]
<1>1. /\ r \in Ref /\ Takes(w, p, r) /\ UNCHANGED <<holds, count, body>>
      /\ odd' = IF p \notin Table \/ count[p] > 1 THEN {"reference"} ELSE {}
  BY Cased DEF LendReference
<1>2. p \in Arrays \cup {Null} /\ r \in Slot /\ odd' \subseteq Causes
  BY <1>1, ZarrayIs, Kinds DEF Causes
<1>3. ASSUME odd' = {} PROVE p \in Table /\ Holders(holds', p) = {r}
  <2>1. p \in Table /\ ~(count[p] > 1)
    BY <1>1, <1>3
  <2>2. holds[r] = p
    BY <1>1, <2>1, Kinds DEF Zarray, Inner
  <2>3. count[p] = 1
    BY <1>2, <2>1, <2>2, Kinds, HeldIsCounted
  <2>4. r \in Holders(holds, p)
    BY <1>2, <2>2 DEF Holders
  <2>5. Holders(holds, p) = {r}
    BY <2>1, <2>3, <2>4, Kinds, Facts, SoleIsOne
  <2> QED
    BY <1>1, <2>1, <2>5
<1>4. Sound(holds', count')
  BY <1>1, Facts
<1> HIDE DEF p, r
<1> QED
  BY <1>1, <1>2, <1>3, <1>4, Facts, TakesStep DEF Sound

LEMMA WriteStep ==
  ASSUME HandlesIInv, odd = {}, NEW w \in Writer, NEW e \in Content, WriteTable(w, e)
  PROVE  HandlesIInv'
<1>1. body' \in [Table -> Content] /\ UNCHANGED <<holds, count, at, from, fresh>>
  BY Facts DEF WriteTable
<1>2. odd' \subseteq Causes
  BY Cased DEF WriteTable, Causes
<1>3. HandlesTypeOK'
  BY <1>1, <1>2 DEF HandlesIInv, HandlesTypeOK, Causes
<1>4. Sound(holds', count') /\ FreshHold'
  BY <1>1, Facts DEF FreshHold
<1> QED
  BY <1>3, <1>4 DEF HandlesIInv

LEMMA HandlesInitHolds == HandlesInit => HandlesIInv
<1> SUFFICES ASSUME HandlesInit PROVE HandlesIInv
  OBVIOUS
<1>1. HandlesTypeOK
  BY Kinds, HandlesAssumption DEF HandlesInit, HandlesTypeOK, Held
<1>2. ASSUME NEW b \in Counted PROVE count[b] = Cardinality(Holders(holds, b))
  <2>1. Holders(holds, b) = {}
    BY Kinds DEF HandlesInit, Holders
  <2> QED
    BY <2>1, FS_EmptySet DEF HandlesInit
<1>3. Sound(holds, count) /\ FreshHold
  BY <1>1, <1>2, Kinds DEF HandlesInit, HandlesTypeOK, Sound, HoldsOK, OpenRefs, Right, FreshHold, Held
<1> QED
  BY <1>1, <1>3 DEF HandlesIInv

LEMMA HandlesStep == HandlesIInv /\ [HandlesNext]_handlesVars => HandlesIInv'
<1> SUFFICES ASSUME HandlesIInv, [HandlesNext]_handlesVars PROVE HandlesIInv'
  OBVIOUS
<1>1. CASE UNCHANGED handlesVars
  BY <1>1 DEF handlesVars, HandlesIInv, HandlesTypeOK, FreshHold
<1>2. CASE HandlesNext
  <2> odd = {}
    BY <1>2 DEF HandlesNext
  <2>1. ASSUME NEW h \in Handle, NEW g \in Handle, AssignHandle(h, g) \/ MoveHandle(h, g)
        PROVE  HandlesIInv'
    BY <2>1, AssignHandleStep, MoveHandleStep
  <2>2. ASSUME NEW h \in Handle, DropHandle(h) \/ InitHandle(h) \/ ResetHandle(h) \/ Adopt(h)
        PROVE  HandlesIInv'
    BY <2>2, EmptyHandleStep, AdoptStep
  <2>3. ASSUME NEW h \in Handle, NEW v \in Val,
               AssignFromVal(h, v) \/ TakeVal(h, v) \/ GiveOut(h, v) \/ ValFromHandle(v, h)
        PROVE  HandlesIInv'
    BY <2>3, FromValStep
  <2>4. ASSUME NEW h \in Handle, NEW w \in Writer,
               AssignPointer(h, w) \/ AssignTable(h, w) \/ Duplicate(h, w) \/ LendHandle(w, h)
        PROVE  HandlesIInv'
    BY <2>4, AssignPointerStep, DuplicateStep, LendStep
  <2>5. ASSUME NEW v \in Val, NEW u \in Val, AssignVal(v, u) \/ MoveVal(v, u)
        PROVE  HandlesIInv'
    BY <2>5, AssignValStep, MoveValStep
  <2>6. ASSUME NEW v \in Val,
               NewArray(v) \/ MakeRef(v) \/ \E b \in {Null, Scalar, Shared} : SetVal(v, b)
        PROVE  HandlesIInv'
    BY <2>6, NewArrayStep, MakeRefStep, SetValStep
  <2>7. ASSUME NEW w \in Writer,
               \/ \E v \in Val : LendVal(w, v) \/ LendReferent(w, v) \/ LendReference(w, v)
               \/ \E e \in Content : WriteTable(w, e)
        PROVE  HandlesIInv'
    BY <2>7, LendStep, LendReferenceStep, WriteStep
  <2> QED
    BY <1>2, <2>1, <2>2, <2>3, <2>4, <2>5, <2>6, <2>7 DEF HandlesNext
<1> QED
  BY <1>1, <1>2

LEMMA HandlesIInvHolds == HandlesSpec => []HandlesIInv
  BY HandlesInitHolds, HandlesStep, PTL DEF HandlesSpec

\* Each handle, value and writer holds something of its kind.
THEOREM HandlesTypesHold == HandlesSpec => []HandlesTypeOK
  BY HandlesIInvHolds, PTL DEF HandlesIInv

\* A table or reference is counted as often as it is held: none is freed while
\* it is held, and none is kept when nobody holds it.
THEOREM CountsHoldAlways == HandlesSpec => []CountsHold
<1>1. HandlesIInv => CountsHold
  BY DEF HandlesIInv, Sound, Right, CountsHold
<1> QED
  BY <1>1, HandlesIInvHolds, PTL

-----------------------------------------------------------------------------
\* The value of OwnValues.
Read == [x \in Slot |-> Seen(holds[x])]

LEMMA SeenIs ==
  ASSUME HandlesIInv, NEW b \in Held
  PROVE  /\ Seen(b) \in Ref <=> b \in Ref
         /\ Seen(b) \in Content <=> b \in Arrays
         /\ b \notin Arrays => Seen(b) = b
         /\ Seen(b) \in Content \cup {Null, Scalar} \cup Ref
<1>1. b \in Table => body[b] \in Content
  BY DEF HandlesIInv, HandlesTypeOK
<1>2. CASE b \in Table
  BY <1>1, <1>2, HandlesAssumption DEF Seen, Arrays
<1>3. CASE b = Shared
  BY <1>3, HandlesAssumption DEF Seen, Arrays
<1>4. CASE b \in {Null, Scalar} \cup Ref
  BY <1>4, HandlesAssumption DEF Seen, Arrays
<1> QED
  BY <1>2, <1>3, <1>4, Kinds DEF Arrays

\* What is read of one place changes when it holds something else.
LEMMA ReadPut ==
  ASSUME HandlesIInv, odd = {}, NEW x \in Slot, NEW b, UNCHANGED body,
         holds' = [holds EXCEPT ![x] = b]
  PROVE  Read' = [Read EXCEPT ![x] = Seen(b)]
<1>1. holds \in [Slot -> Held]
  BY Facts
<1> QED
  BY <1>1 DEF Read, Seen

\* A new table is read where it is held, and nowhere else.
LEMMA ReadNew ==
  ASSUME HandlesIInv, odd = {}, NEW x \in Slot, NEW t \in Table, NEW e,
         holds' = [holds EXCEPT ![x] = t], body' = [body EXCEPT ![t] = e],
         Holders(holds', t) = {x}
  PROVE  Read' = [Read EXCEPT ![x] = e]
<1>1. holds \in [Slot -> Held] /\ body \in [Table -> Content]
  BY Facts
<1>2. ASSUME NEW y \in Slot, y # x
      PROVE  Seen(holds[y])' = Seen(holds[y])
  <2>1. holds'[y] = holds[y] /\ holds'[y] # t
    BY <1>1, <1>2 DEF Holders
  <2> QED
    BY <1>1, <2>1 DEF Seen
<1>3. Seen(holds[x])' = e
  BY <1>1 DEF Seen
<1>4. Read' = [y \in Slot |-> Seen(holds[y])'] /\ Read = [y \in Slot |-> Seen(holds[y])]
  BY DEF Read
<1>5. ASSUME NEW y \in Slot
      PROVE  Seen(holds[y])' = [Read EXCEPT ![x] = e][y]
  <2>1. CASE y = x
    BY <1>3, <1>4, <2>1
  <2>2. CASE y # x
    BY <1>2, <1>4, <2>2
  <2> QED
    BY <2>1, <2>2
<1> QED
  BY <1>4, <1>5

-----------------------------------------------------------------------------
\* What the steps of the specification ask for.
LEMMA OwnSet ==
  ASSUME odd = {}, odd' = {}, UNCHANGED from, NEW p \in Handle \cup Val,
         NEW x \in {Nothing, Null, Scalar}, Read' = [Read EXCEPT ![p] = x]
  PROVE  Own!Next
  BY DEF Own!Next, Own!Set, Own!Put, Read

LEMMA OwnCopy ==
  ASSUME odd = {}, odd' = {}, UNCHANGED from, NEW p, NEW q,
         \/ p \in Handle /\ q \in Handle
         \/ p \in Val /\ q \in Val,
         Read' = [Read EXCEPT ![p] = Read[q]]
  PROVE  Own!Next
<1>1. Own!Copy(p, q)
  BY DEF Own!Copy, Own!Put, Read
<1> QED
  BY <1>1 DEF Own!Next

LEMMA OwnMove ==
  ASSUME odd = {}, odd' = {}, UNCHANGED from, NEW p, NEW q,
         \/ p \in Handle /\ q \in Handle
         \/ p \in Val /\ q \in Val
         \/ p \in Val /\ q \in Handle,
         Read' = [Read EXCEPT ![p] = Read[q], ![q] = Null]
  PROVE  Own!Next
<1>1. Own!Move(p, q)
  BY DEF Own!Move, Own!Put, Read
<1> QED
  BY <1>1 DEF Own!Next

\* What is read of the array of a value.
LEMMA OwnArray ==
  ASSUME HandlesIInv, odd = {}, NEW v \in Val
  PROVE  Seen(Zarray(holds[v])) = IF Own!IsArray(v) THEN Own!Read(v) ELSE Null
<1> DEFINE b == Inner(holds[v])
<1>1. holds[v] \in Held /\ v \in Slot /\ b \in Held
  BY Facts, Kinds DEF Inner
<1>2. Read[v] = Seen(holds[v]) /\ (Read[v] \in Ref <=> holds[v] \in Ref)
  BY <1>1, SeenIs DEF Read
<1>3. Own!Read(v) = Seen(b)
  <2>1. CASE holds[v] \in Ref
    <3>1. Read[v] = holds[v] /\ Read[holds[v]] = Seen(b)
      BY <1>1, <1>2, <2>1, SeenIs, Kinds DEF Read, Inner
    <3> QED
      BY <2>1, <3>1 DEF Own!Read, Read
  <2>2. CASE holds[v] \notin Ref
    BY <1>2, <2>2 DEF Own!Read, Read, Inner
  <2> QED
    BY <2>1, <2>2
<1>4. Own!IsArray(v) <=> b \in Arrays
  BY <1>1, <1>3, SeenIs DEF Own!IsArray
<1>5. Seen(Null) = Null
  BY Kinds, SeenIs
<1> QED
  BY <1>3, <1>4, <1>5 DEF Zarray

LEMMA OwnLend ==
  ASSUME HandlesIInv, odd = {}, odd' = {}, NEW w \in Writer, NEW x \in Slot, holds[x] \notin Ref,
         from' = [from EXCEPT ![w] = x],
         \/ holds[x] \in Arrays /\ UNCHANGED Read
         \/ holds[x] = Null /\ Read' = [Read EXCEPT ![x] = Nothing]
         \/ holds[x] = Scalar /\ Read' = [Read EXCEPT ![x] = Wrapped]
  PROVE  Own!Next
<1>1. holds[x] \in Held /\ Read[x] = Seen(holds[x])
  BY Facts DEF Read
<1>2. /\ Read[x] \notin Ref /\ (Read[x] \in Content <=> holds[x] \in Arrays)
      /\ (holds[x] \in {Null, Scalar} => Read[x] = holds[x])
  BY <1>1, SeenIs, Kinds
<1>3. Own!Lend(w, x)
  BY <1>2 DEF Own!Lend, Read
<1> QED
  BY <1>3 DEF Own!Next, Slot

-----------------------------------------------------------------------------
\* Each step, unless it ends the promise, is one of the specification.
LEMMA HandleMaps ==
  ASSUME HandlesIInv, odd = {}, odd' = {}, NEW h \in Handle, NEW g \in Handle,
         AssignHandle(h, g) \/ MoveHandle(h, g)
  PROVE  Own!Next
<1>1. h \in Slot /\ g \in Slot /\ UNCHANGED <<body, from>>
  BY Kinds DEF AssignHandle, MoveHandle, HandleIs, NoWriter
<1>2. Read[g] = Seen(holds[g]) /\ Seen(Null) = Null
  BY <1>1, Kinds, SeenIs DEF Read
<1>3. h = g => holds[h] = Null
  BY Cased DEF AssignHandle, MoveHandle
<1>4. CASE AssignHandle(h, g)
  <2>1. holds' = [holds EXCEPT ![h] = holds[g]]
    BY <1>3, <1>4 DEF AssignHandle, HandleIs
  <2>2. Read' = [Read EXCEPT ![h] = Read[g]]
    BY <1>1, <1>2, <2>1, ReadPut
  <2> QED
    BY <1>1, <2>2, OwnCopy
<1>5. CASE MoveHandle(h, g)
  <2>1. holds' = [holds EXCEPT ![h] = holds[g], ![g] = Null]
    BY <1>3, <1>5 DEF MoveHandle
  <2>2. Read' = [Read EXCEPT ![h] = Read[g], ![g] = Null]
    BY <1>1, <1>2, <2>1, Facts DEF Read, Seen
  <2> QED
    BY <1>1, <2>2, OwnMove
<1> QED
  BY <1>4, <1>5

LEMMA SetMaps ==
  ASSUME HandlesIInv, odd = {}, odd' = {}, NEW p \in Handle \cup Val,
         NEW b \in {Null, Scalar, Shared}, holds' = [holds EXCEPT ![p] = b],
         UNCHANGED <<body, from>>
  PROVE  Own!Next
<1>1. p \in Slot
  BY Kinds
<1>2. Seen(b) \in {Nothing, Null, Scalar}
  BY HandlesAssumption DEF Seen
<1>3. Read' = [Read EXCEPT ![p] = Seen(b)]
  BY <1>1, ReadPut
<1> QED
  BY <1>2, <1>3, OwnSet

LEMMA HandleSetMaps ==
  ASSUME HandlesIInv, odd = {}, odd' = {}, NEW h \in Handle,
         DropHandle(h) \/ InitHandle(h) \/ ResetHandle(h) \/ Adopt(h)
  PROVE  Own!Next
<1>1. CASE DropHandle(h) \/ InitHandle(h) \/ ResetHandle(h)
  <2>1. PICK b \in {Null, Shared} : holds' = [holds EXCEPT ![h] = b] /\ UNCHANGED <<body, from>>
    BY <1>1 DEF DropHandle, InitHandle, ResetHandle, HandleIs, NoWriter
  <2> QED
    BY <2>1, SetMaps
<1>2. CASE Adopt(h)
  <2>1. PICK t \in Table :
          /\ count[t] = 0 /\ HandleIs(h, t, [Lose(h) EXCEPT ![t] = 1])
          /\ body' = [body EXCEPT ![t] = Nothing] /\ UNCHANGED odd
    BY <1>2 DEF Adopt, Free
  <2>2. body' \in [Table -> Content] /\ odd' \subseteq Causes /\ Nothing \in Content
    BY <2>1, Facts, HandlesAssumption
  <2>3. Holders(holds', t) = {h}
    BY <2>1, <2>2, HandleNewStep
  <2>4. holds' = [holds EXCEPT ![h] = t] /\ UNCHANGED from
    BY <2>1 DEF HandleIs, NoWriter
  <2>5. h \in Slot
    BY Kinds
  <2>6. Read' = [Read EXCEPT ![h] = Nothing]
    BY <2>1, <2>3, <2>4, <2>5, ReadNew
  <2> QED
    BY <2>4, <2>6, OwnSet
<1> QED
  BY <1>1, <1>2

\* The table of a writer is read where it was lent from.
LEMMA LentIs ==
  ASSUME HandlesIInv, odd = {}, NEW w \in Writer, fresh[w]
  PROVE  /\ at[w] \in Table /\ from[w] \in Slot /\ from[w] # Null /\ holds[from[w]] = at[w]
         /\ Read[from[w]] = body[at[w]] /\ body[at[w]] \in Content
<1>1. at[w] \in Table /\ Holders(holds, at[w]) = {from[w]}
  BY Facts DEF FreshHold
<1>2. from[w] \in Slot /\ holds[from[w]] = at[w]
  BY <1>1 DEF Holders
<1>3. Null \notin Slot
  BY HandlesAssumption DEF Slot
<1> QED
  BY <1>1, <1>2, <1>3, Facts DEF Read, Seen

LEMMA OwnCopyLent ==
  ASSUME HandlesIInv, odd = {}, odd' = {}, NEW h \in Handle, NEW w \in Writer, fresh[w],
         Read' = [Read EXCEPT ![h] = body[at[w]]], UNCHANGED from
  PROVE  Own!Next
<1>1. Own!CopyLent(h, w)
  BY LentIs DEF Own!CopyLent, Own!Put, Read
<1> QED
  BY <1>1 DEF Own!Next

LEMMA WriterMaps ==
  ASSUME HandlesIInv, odd = {}, odd' = {}, NEW h \in Handle, NEW w \in Writer,
         AssignPointer(h, w) \/ AssignTable(h, w) \/ Duplicate(h, w)
  PROVE  Own!Next
<1>0. fresh[w] /\ h \in Slot
  <2>1. AssignPointer(h, w) => fresh[w]
    BY DEF AssignPointer, Cause
  <2>2. AssignTable(h, w) \/ Duplicate(h, w) => fresh[w]
    BY Cased DEF AssignTable, Duplicate
  <2> QED
    BY <2>1, <2>2, Kinds
<1>1. CASE AssignPointer(h, w) \/ AssignTable(h, w)
  <2>1. holds' = [holds EXCEPT ![h] = at[w]] /\ UNCHANGED <<body, from>>
    BY <1>1 DEF AssignPointer, AssignTable, HandleIs, NoWriter
  <2>2. Read' = [Read EXCEPT ![h] = Seen(at[w])] /\ Seen(at[w]) = body[at[w]]
    BY <1>0, <2>1, LentIs, ReadPut DEF Seen
  <2> QED
    BY <1>0, <2>1, <2>2, OwnCopyLent
<1>2. CASE Duplicate(h, w)
  <2>1. PICK t \in Table :
          /\ count[t] = 0 /\ HandleIs(h, t, [count EXCEPT ![t] = 1])
          /\ body' = [body EXCEPT ![t] = body[at[w]]]
    BY <1>2 DEF Duplicate, Free
  <2>2. at[w] \in Table /\ Lose(h) = count /\ body[at[w]] \in Content
    BY <1>2, AddedNull, Facts DEF Duplicate, Lose
  <2>3. body' \in [Table -> Content] /\ odd' \subseteq Causes
    BY <2>1, <2>2, Facts
  <2>4. Holders(holds', t) = {h}
    BY <2>1, <2>2, <2>3, HandleNewStep
  <2>5. holds' = [holds EXCEPT ![h] = t] /\ UNCHANGED from
    BY <2>1 DEF HandleIs, NoWriter
  <2>6. Read' = [Read EXCEPT ![h] = body[at[w]]]
    BY <1>0, <2>1, <2>4, <2>5, ReadNew
  <2> QED
    BY <1>0, <2>5, <2>6, OwnCopyLent
<1> QED
  BY <1>1, <1>2

LEMMA FromValMaps ==
  ASSUME HandlesIInv, odd = {}, odd' = {}, NEW h \in Handle, NEW v \in Val,
         AssignFromVal(h, v) \/ TakeVal(h, v) \/ GiveOut(h, v) \/ ValFromHandle(v, h)
  PROVE  Own!Next
<1>1. /\ h \in Slot /\ v \in Slot /\ holds[v] \in Held /\ holds[h] \in Held
      /\ Read[h] = Seen(holds[h]) /\ Read[v] = Seen(holds[v]) /\ Seen(Null) = Null
  BY Kinds, Facts, SeenIs DEF Read
<1>2. CASE AssignFromVal(h, v)
  <2>1. holds' = [holds EXCEPT ![h] = Zarray(holds[v])] /\ UNCHANGED <<body, from>>
    BY <1>2 DEF AssignFromVal, HandleIs, NoWriter
  <2>2. Read' = [Read EXCEPT ![h] = Seen(Zarray(holds[v]))]
    BY <1>1, <2>1, ReadPut
  <2>3. Own!CopyArray(h, v)
    BY <2>1, <2>2, OwnArray DEF Own!CopyArray, Own!Put, Read
  <2> QED
    BY <2>3 DEF Own!Next
<1>3. CASE TakeVal(h, v)
  <2>1. /\ holds' = [holds EXCEPT ![h] = Zarray(holds[v]), ![v] = Null]
        /\ UNCHANGED <<body, from>> /\ holds[v] \notin Ref
    BY <1>3, Cased DEF TakeVal, NoWriter
  <2>2. Read' = [Read EXCEPT ![h] = Seen(Zarray(holds[v])), ![v] = Null]
    BY <1>1, <2>1, Facts DEF Read, Seen
  <2>3. Read[v] \notin Ref
    BY <1>1, <2>1, SeenIs
  <2>4. Own!Read(v) = Read[v]
    BY <2>3 DEF Own!Read, Read
  <2>5. Own!MoveArray(h, v)
    BY <2>1, <2>2, <2>3, <2>4, OwnArray DEF Own!MoveArray, Read
  <2> QED
    BY <2>5 DEF Own!Next
<1>4. CASE GiveOut(h, v)
  <2>1. holds' = [holds EXCEPT ![v] = holds[h], ![h] = Null] /\ UNCHANGED <<body, from>>
    BY <1>4 DEF GiveOut, NoWriter
  <2>2. Read' = [Read EXCEPT ![v] = Read[h], ![h] = Null]
    BY <1>1, <2>1, Facts DEF Read, Seen
  <2> QED
    BY <2>1, <2>2, OwnMove
<1>5. CASE ValFromHandle(v, h)
  <2>1. ~Last(holds[v]) /\ UNCHANGED <<body, from>>
    BY <1>5, Cased DEF ValFromHandle, ValIs, NoWriter
  <2> DEFINE b == IF holds[h] = Null THEN Scalar ELSE holds[h]
  <2>2. holds' = [holds EXCEPT ![v] = b]
    BY <1>5, <2>1, LoseValIsCount DEF ValFromHandle, ValIs
  <2>3. Read' = [Read EXCEPT ![v] = Seen(b)]
    BY <1>1, <2>1, <2>2, ReadPut
  <2>4. Read[h] = Null <=> holds[h] = Null
    BY <1>1, SeenIs, Facts, HandlesAssumption DEF Seen
  <2>5. Seen(b) = IF Read[h] = Null THEN Scalar ELSE Read[h]
    BY <1>1, <2>4, Kinds, SeenIs
  <2>6. Own!CopyOut(v, h)
    BY <2>1, <2>3, <2>5 DEF Own!CopyOut, Own!Put, Read
  <2> QED
    BY <2>6 DEF Own!Next
<1> QED
  BY <1>2, <1>3, <1>4, <1>5

LEMMA ValMaps ==
  ASSUME HandlesIInv, odd = {}, odd' = {}, NEW v \in Val, NEW u \in Val,
         AssignVal(v, u) \/ MoveVal(v, u)
  PROVE  Own!Next
<1>1. /\ v \in Slot /\ u \in Slot /\ holds[u] \in Held
      /\ Read[u] = Seen(holds[u]) /\ Seen(Null) = Null
  BY Kinds, Facts, SeenIs DEF Read
<1>2. CASE AssignVal(v, u)
  <2> DEFINE lost == u = v /\ holds[v] \in Counted
  <2>1. ~Last(holds[v]) /\ ~lost
    BY <1>2 DEF AssignVal, Cause
  <2>2. UNCHANGED <<body, from>> /\ holds' = [holds EXCEPT ![v] = holds[u]]
    BY <1>2, <2>1, LoseValIsCount DEF AssignVal, ValIs, NoWriter
  <2>3. Read' = [Read EXCEPT ![v] = Read[u]]
    BY <1>1, <2>2, ReadPut
  <2> QED
    BY <2>2, <2>3, OwnCopy
<1>3. CASE MoveVal(v, u)
  <2>1. ~Last(holds[v]) /\ UNCHANGED <<body, from>>
    BY <1>3, Cased DEF MoveVal, NoWriter
  <2>2. holds' = [holds EXCEPT ![v] = holds[u], ![u] = Null]
    BY <1>3, <2>1, LoseValIsCount DEF MoveVal
  <2>3. Read' = [Read EXCEPT ![v] = Read[u], ![u] = Null]
    BY <1>1, <2>1, <2>2, Facts DEF Read, Seen
  <2> QED
    BY <2>1, <2>3, OwnMove
<1> QED
  BY <1>2, <1>3

LEMMA OneValMaps ==
  ASSUME HandlesIInv, HandlesIInv', odd = {}, odd' = {}, NEW v \in Val,
         NewArray(v) \/ MakeRef(v) \/ \E b \in {Null, Scalar, Shared} : SetVal(v, b)
  PROVE  Own!Next
<1>1. v \in Slot /\ holds[v] \in Held /\ Seen(Null) = Null /\ Read[v] = Seen(holds[v])
  BY Kinds, Facts, SeenIs DEF Read
<1>2. ASSUME NEW b \in {Null, Scalar, Shared}, SetVal(v, b) PROVE Own!Next
  <2>1. ~Last(holds[v]) /\ UNCHANGED <<body, from>>
    BY <1>2, Cased DEF SetVal, ValIs, NoWriter
  <2>2. holds' = [holds EXCEPT ![v] = b]
    BY <1>2, <2>1, LoseValIsCount DEF SetVal, ValIs
  <2> QED
    BY <2>1, <2>2, SetMaps
<1>3. CASE NewArray(v)
  <2>1. PICK t \in Table :
          /\ LoseVal(v)[t] = 0 /\ ValIs(v, t, [LoseVal(v) EXCEPT ![t] = 1])
          /\ body' = [body EXCEPT ![t] = Nothing]
    BY <1>3 DEF NewArray
  <2>2. ~Last(holds[v]) /\ UNCHANGED from
    BY <1>3, <2>1, Cased DEF NewArray, ValIs, NoWriter
  <2>3. holds' = [holds EXCEPT ![v] = t] /\ count' = [LoseVal(v) EXCEPT ![t] = 1]
    BY <2>1, <2>2, LoseValIsCount DEF ValIs
  <2>4. Holders(holds', t) = {v}
    <3>1. count'[t] = 1 /\ t \in Counted
      BY <2>3, LoseValIsCount, Kinds
    <3>2. Right(holds', count')
      BY DEF HandlesIInv, Sound
    <3>3. v \in Holders(holds', t)
      BY <1>1, <2>3, Facts DEF Holders
    <3> QED
      BY <3>1, <3>2, <3>3, SoleIsOne
  <2>5. Read' = [Read EXCEPT ![v] = Nothing]
    BY <1>1, <2>1, <2>3, <2>4, ReadNew
  <2> QED
    BY <2>2, <2>5, OwnSet
<1>4. CASE MakeRef(v)
  <2>1. PICK r \in Ref :
          /\ count[r] = 0 /\ holds' = [holds EXCEPT ![r] = holds[v], ![v] = r]
    BY <1>4 DEF MakeRef, Free
  <2>2. holds[v] \notin Ref /\ UNCHANGED <<body, from>>
    BY <1>4 DEF MakeRef, NoWriter
  <2>3. r \in Slot /\ r \in Held /\ Seen(r) = r
    BY <2>1, Kinds, SeenIs
  <2>4. Read' = [Read EXCEPT ![r] = Read[v], ![v] = r]
    BY <1>1, <2>1, <2>2, <2>3, Facts DEF Read, Seen
  <2>5. Read[v] \notin Ref
    BY <1>1, <2>2, SeenIs
  <2>6. ASSUME NEW u \in Val PROVE Read[u] # r
    <3>1. holds[u] \in Held /\ u \in Slot /\ r \in Counted
      BY Facts, Kinds
    <3>2. holds[u] # r
      BY <2>1, <3>1, HeldIsCounted
    <3>3. Read[u] = Seen(holds[u])
      BY <3>1 DEF Read
    <3>4. Seen(holds[u]) \in Ref => holds[u] \in Ref
      BY <3>1, SeenIs
    <3>5. holds[u] \in Ref => Seen(holds[u]) = holds[u]
      BY <3>1, SeenIs, Kinds
    <3> QED
      BY <3>2, <3>3, <3>4, <3>5
  <2>7. Own!Refer(v, r)
    BY <2>2, <2>4, <2>5, <2>6 DEF Own!Refer, Read
  <2> QED
    BY <2>7 DEF Own!Next
<1> QED
  BY <1>2, <1>3, <1>4

\* A table of one's own with the same content is read like the other.
LEMMA SeparateMaps ==
  ASSUME HandlesIInv, odd = {}, NEW w \in Writer, NEW x \in Slot, Separate(w, x),
         holds[x] \notin Ref, x \in Ref => InUse(count, x)
  PROVE  Own!Next
<1>1. odd' = {} /\ UNCHANGED odd
  BY DEF Separate
<1>2. from' = [from EXCEPT ![w] = x]
  BY DEF Separate, Renews, Takes
<1>3. ASSUME NEW t \in Table, NEW e \in Content, Renews(w, x, t, e)
      PROVE  Read' = [Read EXCEPT ![x] = e]
  <2>1. Holders(holds', t) = {x}
    BY <1>1, <1>3, RenewsStep
  <2>2. holds' = [holds EXCEPT ![x] = t] /\ body' = [body EXCEPT ![t] = e]
    BY <1>3 DEF Renews
  <2> QED
    BY <2>1, <2>2, ReadNew
<1>4. Read = [y \in Slot |-> Read[y]] /\ Read[x] = Seen(holds[x])
  BY DEF Read
<1>5. PICK t \in Table :
        \/ holds[x] \in {Null, Shared} /\ Renews(w, x, t, Nothing)
        \/ holds[x] = Scalar /\ Renews(w, x, t, Wrapped)
        \/ holds[x] \in Table /\ Renews(w, x, t, body[holds[x]])
        \/ holds[x] = t /\ UNCHANGED <<holds, count, body>>
  BY DEF Separate
<1>6. Nothing \in Content /\ Wrapped \in Content
      /\ (holds[x] \in Table => body[holds[x]] \in Content)
  BY Facts, HandlesAssumption
<1>7. CASE holds[x] = Null /\ Renews(w, x, t, Nothing)
  BY <1>1, <1>2, <1>3, <1>6, <1>7, OwnLend
<1>8. CASE holds[x] = Scalar /\ Renews(w, x, t, Wrapped)
  BY <1>1, <1>2, <1>3, <1>6, <1>8, OwnLend
<1>9. CASE holds[x] = Shared /\ Renews(w, x, t, Nothing)
  <2>1. Read[x] = Nothing /\ holds[x] \in Arrays
    BY <1>4, <1>9, HandlesAssumption DEF Seen, Arrays
  <2>2. UNCHANGED Read
    BY <1>3, <1>4, <1>6, <1>9, <2>1
  <2> QED
    BY <1>1, <1>2, <2>1, <2>2, OwnLend
<1>10. CASE holds[x] \in Table /\ Renews(w, x, t, body[holds[x]])
  <2>1. Read[x] = body[holds[x]] /\ holds[x] \in Arrays
    BY <1>4, <1>10, Kinds DEF Seen
  <2>2. UNCHANGED Read
    BY <1>3, <1>4, <1>6, <1>10, <2>1
  <2> QED
    BY <1>1, <1>2, <2>1, <2>2, OwnLend
<1>11. CASE holds[x] = t /\ UNCHANGED <<holds, count, body>>
  <2>1. UNCHANGED Read /\ holds[x] \in Arrays
    BY <1>11, Kinds DEF Read, Seen
  <2> QED
    BY <1>1, <1>2, <2>1, OwnLend
<1> QED
  BY <1>5, <1>7, <1>8, <1>9, <1>10, <1>11

LEMMA LendMaps ==
  ASSUME HandlesIInv, odd = {}, odd' = {}, NEW w \in Writer,
         \/ \E h \in Handle : LendHandle(w, h)
         \/ \E v \in Val : LendVal(w, v) \/ LendReferent(w, v) \/ LendReference(w, v)
  PROVE  Own!Next
<1>1. ASSUME NEW h \in Handle, LendHandle(w, h) PROVE Own!Next
  BY <1>1, Facts, Kinds, SeparateMaps DEF LendHandle
<1>2. ASSUME NEW v \in Val, LendVal(w, v) PROVE Own!Next
  BY <1>2, Kinds, SeparateMaps DEF LendVal
<1>3. ASSUME NEW v \in Val, LendReferent(w, v) PROVE Own!Next
  <2> DEFINE r == holds[v]
  <2>1. r \in Ref /\ r \in Slot /\ v \in Slot /\ holds[r] \notin Ref
    BY <1>3, Facts, Kinds DEF LendReferent, HoldsOK
  <2>2. InUse(count, r)
    BY <2>1, HeldIsCounted, Kinds DEF InUse
  <2>3. Separate(w, r)
    BY <1>3 DEF LendReferent
  <2> HIDE DEF r
  <2> QED
    BY <2>1, <2>2, <2>3, SeparateMaps
<1>4. ASSUME NEW v \in Val, LendReference(w, v) PROVE Own!Next
  <2> DEFINE p == Zarray(holds[v])
             r == holds[v]
  <2>1. /\ r \in Ref /\ Takes(w, p, r) /\ UNCHANGED <<holds, count, body>> /\ p \in Table
    BY <1>4, Cased DEF LendReference
  <2>2. holds[r] = p /\ r \in Slot /\ p \in Arrays /\ holds[r] \notin Ref
    BY <2>1, Kinds DEF Zarray, Inner
  <2>3. UNCHANGED Read /\ from' = [from EXCEPT ![w] = r]
    BY <2>1 DEF Read, Seen, Takes
  <2> HIDE DEF p, r
  <2> QED
    BY <2>2, <2>3, OwnLend
<1> QED
  BY <1>1, <1>2, <1>3, <1>4

LEMMA WriteMaps ==
  ASSUME HandlesIInv, odd = {}, odd' = {}, NEW w \in Writer, NEW e \in Content, WriteTable(w, e)
  PROVE  Own!Next
<1>1. fresh[w] /\ UNCHANGED <<holds, from>> /\ body' = [body EXCEPT ![at[w]] = e]
  BY Cased DEF WriteTable
<1>2. Holders(holds, at[w]) = {from[w]} /\ at[w] \in Table
  BY <1>1, Facts DEF FreshHold
<1>3. holds' = [holds EXCEPT ![from[w]] = at[w]] /\ from[w] \in Slot
  BY <1>1, LentIs, Facts
<1>4. Holders(holds', at[w]) = {from[w]}
  BY <1>1, <1>2 DEF Holders
<1>5. Read' = [Read EXCEPT ![from[w]] = e]
  BY <1>1, <1>2, <1>3, <1>4, ReadNew
<1>6. Own!Write(w)
  BY <1>1, <1>5, LentIs DEF Own!Write, Own!Put, Read
<1> QED
  BY <1>6 DEF Own!Next

LEMMA OwnInit == HandlesInit => Own!Init
<1> SUFFICES ASSUME HandlesInit PROVE Own!Init
  OBVIOUS
<1>1. Seen(Null) = Null
  BY HandlesAssumption DEF Seen
<1> QED
  BY <1>1 DEF HandlesInit, Own!Init, Slot

LEMMA OwnStep ==
  ASSUME HandlesIInv, HandlesIInv', [HandlesNext]_handlesVars
  PROVE  [Own!Next]_(Own!vars)
<1>1. CASE UNCHANGED handlesVars
  BY <1>1 DEF handlesVars, Own!vars, Seen
<1>2. CASE HandlesNext /\ odd' # {}
  <2>1. Own!Break
    BY <1>2 DEF HandlesNext, Own!Break
  <2> QED
    BY <2>1 DEF Own!Next
<1>3. CASE HandlesNext /\ odd' = {}
  <2> odd = {} /\ odd' = {}
    BY <1>3 DEF HandlesNext
  <2>1. ASSUME NEW h \in Handle, NEW g \in Handle, AssignHandle(h, g) \/ MoveHandle(h, g)
        PROVE  Own!Next
    BY <2>1, HandleMaps
  <2>2. ASSUME NEW h \in Handle, DropHandle(h) \/ InitHandle(h) \/ ResetHandle(h) \/ Adopt(h)
        PROVE  Own!Next
    BY <2>2, HandleSetMaps
  <2>3. ASSUME NEW h \in Handle, NEW v \in Val,
               AssignFromVal(h, v) \/ TakeVal(h, v) \/ GiveOut(h, v) \/ ValFromHandle(v, h)
        PROVE  Own!Next
    BY <2>3, FromValMaps
  <2>4. ASSUME NEW h \in Handle, NEW w \in Writer,
               AssignPointer(h, w) \/ AssignTable(h, w) \/ Duplicate(h, w) \/ LendHandle(w, h)
        PROVE  Own!Next
    BY <2>4, WriterMaps, LendMaps
  <2>5. ASSUME NEW v \in Val, NEW u \in Val, AssignVal(v, u) \/ MoveVal(v, u)
        PROVE  Own!Next
    BY <2>5, ValMaps
  <2>6. ASSUME NEW v \in Val,
               NewArray(v) \/ MakeRef(v) \/ \E b \in {Null, Scalar, Shared} : SetVal(v, b)
        PROVE  Own!Next
    BY <2>6, OneValMaps
  <2>7. ASSUME NEW w \in Writer,
               \/ \E v \in Val : LendVal(w, v) \/ LendReferent(w, v) \/ LendReference(w, v)
               \/ \E e \in Content : WriteTable(w, e)
        PROVE  Own!Next
    BY <2>7, LendMaps, WriteMaps
  <2> QED
    BY <1>3, <2>1, <2>2, <2>3, <2>4, <2>5, <2>6, <2>7 DEF HandlesNext
<1> QED
  BY <1>1, <1>2, <1>3

\* While the rules are kept, what a handle or a value reads is changed by what
\* is done with it, with a writer lent from it or with the references to one
\* cell, and by nothing else.
THEOREM ValuesAreOwnAlways == HandlesSpec => ValuesAreOwn
  BY OwnInit, OwnStep, HandlesIInvHolds, PTL DEF HandlesSpec, ValuesAreOwn, Own!Spec
=============================================================================
