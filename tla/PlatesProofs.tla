---------------------------- MODULE PlatesProofs ----------------------------
(***************************************************************************)
(* For any templates, lists of levels, sections and bounds: the types of   *)
(* Plates, whose text a section holds, and that a page shows its levels in *)
(* order.  The invariants, each proved from the ones before it:            *)
(*   Types       every frame of a plate is of a plate that was made        *)
(*   Phase       only the template on top may have ended, and then its     *)
(*               text waits in ret                                         *)
(*   Neat        while every template closes what it opened, each has its  *)
(*               buffers above those of the frames below it (Settled), and *)
(*               no section is open twice (OneBlock)                       *)
(*   PageShape   while nothing odd happened, at most one view is rendered  *)
(*   PageTexts   the plates of its levels stand one after the other and    *)
(*               keep their layouts (Stands), no text that one of them or  *)
(*               an inserted template holds is out of order (Kept), nor    *)
(*               what is in the buffers (Risen) or handed on (Hands), and  *)
(*               a layout has the text of the level inside it (Fed)        *)
(* That a text is in order says of each two levels that the inner one is   *)
(* found only after the outer one (Led); what a level prints after its     *)
(* content may name any level inside it again.                             *)
(*                                                                         *)
(* The last part is about module Rows, for any number of requests, keys,   *)
(* columns and values.                                                     *)
(***************************************************************************)
EXTENDS Plates, Rows, FiniteSetTheorems, SequenceTheorems, TLAPS
-----------------------------------------------------------------------------
(***************************************************************************)
(* Texts, frames and stacks.                                               *)
(***************************************************************************)
IsPlate(f) == f.kind = "plate"

LEMMA TextIs ==
  /\ None \notin Text /\ <<>> \in Text
  /\ \A x \in Name \cup {Raw, Missing}: <<x>> \in Text
  /\ \A t, u \in Text: t \o u \in Text
BY PlatesAssumption DEF Text

LEMMA FrameIs ==
  ASSUME NEW f \in Frame
  PROVE  /\ IsPlate(f) => f \in PlateFrame
         /\ f.kind = "view" => f \in ViewFrame
         /\ IsPlate(f) \/ f.kind = "view"
         /\ ~(IsPlate(f) /\ f.kind = "view")
BY DEF Frame, PlateFrame, ViewFrame, IsPlate

LEMMA EchoIs ==
  ASSUME NEW o \in Seq(Text), NEW t \in Text
  PROVE  /\ Echo(o, t) \in Seq(Text) /\ Len(Echo(o, t)) = Len(o)
         /\ \A k \in 1..Len(o): Echo(o, t)[k] = IF k = Len(o) THEN o[k] \o t ELSE o[k]
<1>1. CASE o = <<>>
  BY <1>1 DEF Echo
<1>2. CASE o # <<>>
  <2>1. PICK n \in Nat: n = Len(o) /\ n > 0 /\ DOMAIN o = 1..n
    BY <1>2
  <2>2. o[n] \in Text /\ o[n] \o t \in Text
    BY <2>1, TextIs
  <2>3. Echo(o, t) = [o EXCEPT ![n] = o[n] \o t]
    BY <1>2, <2>1 DEF Echo
  <2> QED
    BY <2>1, <2>2, <2>3
<1> QED
  BY <1>1, <1>2

\* The frame g is f with t printed in its innermost block.
LEMMA HeardIs ==
  ASSUME NEW f \in PlateFrame, NEW t \in Text
  PROVE  LET g == Heard(f, t) IN
         /\ g \in PlateFrame /\ g.of = f.of /\ g.base = f.base /\ g.live = f.live /\ g.told = f.told
         /\ Len(g.open) = Len(f.open)
         /\ \A k \in 1..Len(f.open): /\ g.open[k].kind = f.open[k].kind
                                     /\ g.open[k].text = IF k = Len(f.open) THEN f.open[k].text \o t
                                                         ELSE f.open[k].text
<1>1. PICK b \in Seq(Block): b = f.open
  BY DEF PlateFrame
<1>2. CASE b = <<>>
  <2>1. Heard(f, t) = f
    BY <1>1, <1>2 DEF Heard
  <2>2. Len(f.open) = 0
    BY <1>1, <1>2
  <2>3. ~(\E k \in 1..Len(f.open): TRUE)
    BY <2>2
  <2> QED
    BY <2>1, <2>3
<1>3. CASE b # <<>>
  <2>1. PICK n \in Nat: n = Len(b) /\ n > 0 /\ DOMAIN b = 1..n
    BY <1>3
  <2>2. b[n] \in Block
    BY <2>1
  <2>3. PICK c \in Block: c.kind = b[n].kind /\ c.text = b[n].text \o t /\ c = [b[n] EXCEPT !.text = @ \o t]
    BY <2>2, TextIs DEF Block
  <2> DEFINE e == [b EXCEPT ![n] = c]
  <2>9. e \in Seq(Block) /\ Len(e) = n /\ \A k \in 1..n: e[k] = IF k = n THEN c ELSE b[k]
    BY <2>1, <2>3, ExceptSeq
  <2>4. PICK d \in Seq(Block): d = e
    BY <2>9
  <2>5. Heard(f, t) = [f EXCEPT !.open = d]
    BY <1>1, <1>3, <2>1, <2>3, <2>4 DEF Heard
  <2>6. /\ Heard(f, t) \in PlateFrame /\ Heard(f, t).open = d
        /\ Heard(f, t).of = f.of /\ Heard(f, t).base = f.base
        /\ Heard(f, t).live = f.live /\ Heard(f, t).told = f.told
    BY <2>4, <2>5 DEF PlateFrame
  <2>7. /\ Len(d) = n
        /\ \A k \in 1..n: d[k] = IF k = n THEN c ELSE b[k]
    BY <2>4, <2>9
  <2> QED
    BY <1>1, <2>1, <2>3, <2>6, <2>7
<1> QED
  BY <1>2, <1>3

LEMMA FrontIs ==
  ASSUME NEW S, NEW s \in Seq(S), s # <<>>
  PROVE  /\ Front(s) \in Seq(S) /\ Len(Front(s)) = Len(s) - 1 /\ Last(s) = s[Len(s)] /\ Last(s) \in S
         /\ Len(s) \in Nat \ {0}
         /\ \A k \in 1..Len(s) - 1: Front(s)[k] = s[k]
<1>1. PICK n \in Nat: n = Len(s) /\ n > 0
  BY EmptySeq
<1>2. \A i \in 1..n - 1: s[i] \in S
  BY <1>1, ElementOfSeq
<1>3. s[n] \in S
  BY <1>1, ElementOfSeq
<1>4. Front(s) = SubSeq(s, 1, n - 1) /\ Last(s) = s[n]
  BY <1>1 DEF Front, Last
<1>5. PICK m \in Int: m = n - 1
  OBVIOUS
<1>6. /\ SubSeq(s, 1, m) \in Seq(S) /\ Len(SubSeq(s, 1, m)) = IF 1 <= m THEN m - 1 + 1 ELSE 0
      /\ \A i \in 1 .. m - 1 + 1 : SubSeq(s, 1, m)[i] = s[1 + i - 1]
  BY <1>2, <1>5, SubSeqProperties
<1> QED
  BY <1>1, <1>3, <1>4, <1>5, <1>6

\* What Front and Append give, when they put a frame in the place of the top.
LEMMA AppendIs ==
  ASSUME NEW S, NEW s \in Seq(S), NEW x \in S
  PROVE  /\ Append(s, x) \in Seq(S) /\ Len(Append(s, x)) = Len(s) + 1
         /\ Append(s, x)[Len(s) + 1] = x
         /\ \A k \in 1..Len(s): Append(s, x)[k] = s[k]
OBVIOUS

LEMMA RunningIs ==
  ASSUME NEW p \in Nat, ob \in Seq(Text)
  PROVE  LET f == Running(p) IN
         /\ f \in PlateFrame /\ IsPlate(f) /\ f.of = p /\ f.base = Len(ob) /\ f.live = TRUE
         /\ f.told = FALSE /\ f.open = <<>>
         /\ [f EXCEPT !.live = FALSE] \in PlateFrame /\ IsPlate([f EXCEPT !.live = FALSE])
         /\ [f EXCEPT !.live = FALSE].of = p /\ [f EXCEPT !.live = FALSE].live = FALSE
<1> DEFINE f == Running(p)
           g == [f EXCEPT !.live = FALSE]
<1>1. Len(ob) \in Nat /\ <<>> \in Seq(Block)
  OBVIOUS
<1>2. /\ f \in PlateFrame /\ IsPlate(f) /\ f.of = p /\ f.base = Len(ob) /\ f.live = TRUE
      /\ f.told = FALSE /\ f.open = <<>>
  BY <1>1 DEF Running, PlateFrame, IsPlate
<1> HIDE DEF f
<1>3. g \in PlateFrame /\ IsPlate(g) /\ g.of = p /\ g.live = FALSE
  BY <1>2 DEF PlateFrame, IsPlate
<1> QED
  BY <1>2, <1>3 DEF f
-----------------------------------------------------------------------------
(***************************************************************************)
(* Types.                                                                  *)
(***************************************************************************)
StackTyped(s, ps) ==
  /\ s \in Seq(Frame)
  /\ \A i \in DOMAIN s: /\ IsPlate(s[i]) => s[i].of \in DOMAIN ps
                        /\ s[i].kind = "view" /\ i < Len(s) => IsPlate(s[i + 1])

LEMMA TypedPush ==
  ASSUME NEW s, NEW ps, StackTyped(s, ps), NEW f \in Frame, IsPlate(f) => f.of \in DOMAIN ps,
         f.kind = "view" => s = <<>> \/ IsPlate(Last(s))
  PROVE  StackTyped(Append(s, f), ps)
<1>1. PICK n \in Nat: n = Len(s) /\ s \in Seq(Frame) /\ DOMAIN s = 1..n
  BY DEF StackTyped
<1> DEFINE t == Append(s, f)
<1>6. t \in Seq(Frame) /\ Len(t) = n + 1 /\ t[n + 1] = f /\ \A k \in 1..n: t[k] = s[k]
  BY <1>1, AppendIs
<1>2. PICK a \in Seq(Frame): a = t /\ Len(a) = n + 1 /\ DOMAIN a = 1..n + 1 /\ a[n + 1] = f
                             /\ \A k \in 1..n: a[k] = s[k]
  <2> HIDE DEF t
  <2> QED
    BY <1>6, LenProperties
<1>3. n > 0 => Last(s) = s[n] /\ s[n] \in Frame
  BY <1>1 DEF Last
<1>4. f.kind = "view" => ~IsPlate(f)
  BY FrameIs
<1>5. ASSUME NEW i \in 1..n + 1
      PROVE  /\ IsPlate(a[i]) => a[i].of \in DOMAIN ps
             /\ a[i].kind = "view" /\ i < n + 1 => IsPlate(a[i + 1])
  <2>1. CASE i = n + 1
    BY <1>2, <2>1
  <2>2. CASE i = n
    <3>1. n > 0 /\ s[n] \in Frame /\ a[i] = s[n] /\ a[i + 1] = f
      BY <1>2, <1>3, <2>2
    <3>2. s[n].kind = "view" => ~IsPlate(s[n])
      BY <3>1, FrameIs
    <3>3. IsPlate(f) \/ f.kind = "view"
      BY FrameIs
    <3>4. s # <<>>
      BY <1>1, <3>1
    <3> QED
      BY <1>1, <1>3, <2>2, <3>1, <3>2, <3>3, <3>4 DEF StackTyped
  <2>3. CASE i < n
    BY <1>1, <1>2, <2>3 DEF StackTyped
  <2> QED
    BY <2>1, <2>2, <2>3
<1> QED
  BY <1>2, <1>5 DEF StackTyped

LEMMA TypedPop ==
  ASSUME NEW s, NEW ps, StackTyped(s, ps), s # <<>>
  PROVE  /\ StackTyped(Front(s), ps)
         /\ Last(s).kind = "view" => Front(s) = <<>> \/ IsPlate(Last(Front(s)))
<1>1. PICK n \in Nat: n = Len(s) /\ s \in Seq(Frame) /\ DOMAIN s = 1..n /\ n > 0
  BY EmptySeq DEF StackTyped
<1>2. PICK a \in Seq(Frame): a = Front(s) /\ Len(a) = n - 1 /\ DOMAIN a = 1..n - 1 /\ \A k \in 1..n - 1: a[k] = s[k]
  BY <1>1, FrontIs
<1>3. Last(s) = s[n] /\ s[n] \in Frame
  BY <1>1 DEF Last
<1>4. StackTyped(a, ps)
  BY <1>1, <1>2 DEF StackTyped
<1>5. ASSUME Last(s).kind = "view", a # <<>> PROVE IsPlate(Last(a))
  <2>1. n - 1 \in 1..n - 1 /\ Last(a) = s[n - 1] /\ s[n - 1] \in Frame
    <3>1. Len(a) \in Nat \ {0}
      BY <1>5, EmptySeq
    <3> QED
      BY <1>1, <1>2, <3>1 DEF Last
  <2>2. ~IsPlate(s[n])
    BY <1>3, <1>5, FrameIs
  <2>3. IsPlate(s[n - 1]) \/ s[n - 1].kind = "view"
    BY <2>1, FrameIs
  <2>4. n - 1 < n /\ (n - 1) + 1 = n /\ n - 1 \in DOMAIN s
    BY <1>1, <2>1
  <2>5. s[n - 1].kind = "view" => IsPlate(s[(n - 1) + 1])
    BY <1>1, <2>4 DEF StackTyped
  <2> QED
    BY <2>1, <2>2, <2>3, <2>4, <2>5
<1> QED
  BY <1>2, <1>4, <1>5

LEMMA TypedGrow ==
  ASSUME NEW s, NEW ps, NEW qs, StackTyped(s, ps), DOMAIN ps \subseteq DOMAIN qs
  PROVE  StackTyped(s, qs)
BY DEF StackTyped

LEMMA NewPlateIs ==
  ASSUME NEW n \in Name
  PROVE  LET p == NewPlate(n) IN
         /\ p \in Plate /\ p.name = n /\ p.layout = None /\ p.content = None /\ p.raw = FALSE
         /\ p.section = None /\ \A t \in Section: p.text[t] = None
BY DEF NewPlate, Plate, Maybe

\* Every variable but the stack has the type it had.
Types ==
  /\ levels \in [View -> Seq(Name)]
  /\ plate \in Seq(Plate)
  /\ stored \in [Name -> Maybe(DOMAIN plate)]
  /\ ob \in Seq(Text) /\ ret \in Maybe(Text)
  /\ StackTyped(stack, plate)
  /\ calls \in 0 .. MaxCalls
  /\ mode \in {"run", "throw", "dead"}
  /\ odd \subseteq {"twice", "nested", "layout", "mute", "untidy", "level"}
  /\ extra \subseteq Name
  /\ shown \in Maybe([want : Seq(Name \cup {Raw}), text : Text])

LEMMA TypesAre == PlatesTypeOK <=> Types
BY DEF PlatesTypeOK, Types, StackTyped, IsPlate

LEMMA PlatesAreTyped == ASSUME Types PROVE plate \in Seq(Plate) /\ Len(plate) \in Nat /\ DOMAIN plate = 1..Len(plate)
<1>1. plate \in Seq(Plate)
  BY Zenon DEF Types
<1> QED
  BY ONLY <1>1

LEMMA TypesAreStill == PlatesTypeOK' <=> Types'
BY DEF PlatesTypeOK, Types, StackTyped, IsPlate

LEMMA TopIs ==
  ASSUME Types, InPlate
  PROVE  /\ Top \in PlateFrame /\ IsPlate(Top) /\ Top = stack[Len(stack)] /\ Len(stack) \in Nat \ {0}
         /\ stack # <<>> /\ stack \in Seq(Frame)
         /\ Top.of \in DOMAIN plate /\ Top.of \in Nat /\ Me \in Plate /\ Me = plate[Top.of]
         /\ Below = Front(stack) /\ Below \in Seq(Frame) /\ Len(Below) = Len(stack) - 1
         /\ StackTyped(Below, plate)
         /\ \A k \in 1..Len(stack) - 1: Below[k] = stack[k]
<1>1. stack # <<>> /\ stack \in Seq(Frame) /\ Top = Last(stack) /\ IsPlate(Top) /\ Below = Front(stack)
  BY DEF InPlate, Types, StackTyped, IsPlate, Top, Below
<1>2. PICK n \in Nat: n = Len(stack) /\ n > 0
  BY <1>1, EmptySeq
<1>3. /\ Below \in Seq(Frame) /\ Len(Below) = n - 1 /\ Top = stack[n] /\ Top \in Frame
      /\ \A k \in 1..n - 1: Below[k] = stack[k]
  BY <1>1, <1>2, FrontIs
<1>4. Top \in PlateFrame
  BY <1>1, <1>3, FrameIs
<1>5. Top.of \in DOMAIN plate
  BY <1>1, <1>2, <1>3, SMTT(40) DEF Types, StackTyped
<1>6. Top.of \in Nat /\ Me \in Plate /\ Me = plate[Top.of]
  BY <1>4, <1>5 DEF Types, PlateFrame, Me
<1>7. StackTyped(Below, plate)
  BY <1>1, TypedPop DEF Types
<1> QED
  BY <1>1, <1>2, <1>3, <1>4, <1>5, <1>6, <1>7
-----------------------------------------------------------------------------
(* What the actions have in common.                                        *)

LEMMA SetMeIs ==
  ASSUME Types, InPlate, NEW q \in Plate, SetMe(q)
  PROVE  /\ plate' \in Seq(Plate) /\ DOMAIN plate' = DOMAIN plate /\ Len(plate') = Len(plate)
         /\ plate'[Top.of] = q /\ \A p \in DOMAIN plate: p # Top.of => plate'[p] = plate[p]
<1>1. PICK n \in Nat: n = Len(plate) /\ DOMAIN plate = 1..n /\ plate \in Seq(Plate)
  BY PlatesAreTyped
<1>2. PICK k \in 1..n: k = Top.of
  BY <1>1, TopIs
<1> QED
  BY <1>1, <1>2, ExceptSeq DEF SetMe

LEMMA AgainTyped ==
  ASSUME Types, InPlate, NEW g \in PlateFrame, g.of = Top.of, Again(g)
  PROVE  /\ stack' = Append(Below, g) /\ StackTyped(stack', plate)
         /\ Len(stack') = Len(stack) /\ stack'[Len(stack)] = g
         /\ \A k \in 1..Len(stack) - 1: stack'[k] = stack[k]
<1>1. g \in Frame /\ IsPlate(g) /\ ~(g.kind = "view")
  BY DEF Frame, PlateFrame, IsPlate
<1>2. /\ StackTyped(Below, plate) /\ g.of \in DOMAIN plate /\ Below \in Seq(Frame)
      /\ Len(Below) = Len(stack) - 1 /\ Len(stack) \in Nat \ {0}
      /\ \A k \in 1..Len(stack) - 1: Below[k] = stack[k]
  BY TopIs
<1>3. stack' = Append(Below, g)
  BY DEF Again
<1>4. StackTyped(Append(Below, g), plate)
  BY <1>1, <1>2, TypedPush
<1>5. PICK n \in Nat: n = Len(stack) /\ n > 0
  BY <1>2
<1>6. PICK b \in Seq(Frame): b = Below /\ Len(b) = n - 1 /\ \A k \in 1..n - 1: b[k] = stack[k]
  BY <1>2, <1>5
<1>7. PICK c: c = Append(b, g)
  OBVIOUS
<1>8. Len(c) = n /\ c[n] = g /\ \A k \in 1..n - 1: c[k] = b[k]
  BY <1>1, <1>5, <1>6, <1>7, AppendIs
<1> QED
  BY <1>3, <1>4, <1>5, <1>6, <1>7, <1>8

BeginDies == mode' = "dead" /\ UNCHANGED <<ob, stack, ret>>
BeginFlat(ps, p, frames) ==
  /\ stack' = Append(frames, [Running(p) EXCEPT !.live = FALSE])
  /\ ob' = ob /\ mode' = mode
  /\ IF ps[p].raw THEN ret' = <<Raw>> ELSE ret' = <<Missing>> /\ ps[p].name \notin Files
BeginRuns(ps, p, frames) ==
  /\ stack' = Append(frames, Running(p))
  /\ ob' = Append(ob, <<ps[p].name>>)
  /\ ret' = None /\ mode' = mode
  /\ ~ps[p].raw /\ ps[p].name \in Files

LEMMA BeginIs ==
  ASSUME NEW ps, NEW p, NEW frames, Begin(ps, p, frames)
  PROVE  BeginDies \/ BeginFlat(ps, p, frames) \/ BeginRuns(ps, p, frames)
BY DEF Begin, BeginDies, BeginFlat, BeginRuns

LEMMA BeginTyped ==
  ASSUME Types, NEW ps \in Seq(Plate), NEW p \in DOMAIN ps, NEW frames, Begin(ps, p, frames),
         StackTyped(frames, ps), StackTyped(stack, ps)
  PROVE  /\ ob' \in Seq(Text) /\ ret' \in Maybe(Text) /\ StackTyped(stack', ps)
         /\ mode' \in {"run", "throw", "dead"}
<1>1. /\ ob \in Seq(Text) /\ ret \in Maybe(Text) /\ mode \in {"run", "throw", "dead"}
  BY DEF Types
<1>2. p \in Nat /\ ps[p] \in Plate /\ ps[p].name \in Name
  <2>1. p \in 1..Len(ps)
    OBVIOUS
  <2>2. ps[p] \in Plate
    BY <2>1, ElementOfSeq
  <2> QED
    BY <2>1, <2>2 DEF Plate
<1> DEFINE f == Running(p)
           g == [f EXCEPT !.live = FALSE]
<1>3. /\ f \in PlateFrame /\ IsPlate(f) /\ f.of = p /\ g \in PlateFrame /\ IsPlate(g) /\ g.of = p
  BY <1>1, <1>2, RunningIs
<1> HIDE DEF f, g
<1>4. f \in Frame /\ g \in Frame /\ ~(f.kind = "view") /\ ~(g.kind = "view")
  BY <1>3 DEF Frame, IsPlate
<1>5. StackTyped(Append(frames, f), ps)
  BY <1>3, <1>4, TypedPush
<1>6. StackTyped(Append(frames, g), ps)
  BY <1>3, <1>4, TypedPush
<1>7. CASE BeginDies
  BY <1>1, <1>7 DEF BeginDies
<1>8. CASE BeginFlat(ps, p, frames)
  <2>1. ret' \in Text
    BY <1>8, TextIs DEF BeginFlat
  <2> QED
    BY <1>1, <1>6, <1>8, <2>1 DEF BeginFlat, Maybe, f, g
<1>9. CASE BeginRuns(ps, p, frames)
  <2>1. ob' \in Seq(Text)
    <3>1. <<ps[p].name>> \in Text
      BY <1>2, TextIs
    <3> QED
      BY <1>1, <1>9, <3>1 DEF BeginRuns
  <2> QED
    BY <1>1, <1>5, <1>9, <2>1 DEF BeginRuns, Maybe, f
<1> QED
  BY <1>7, <1>8, <1>9, BeginIs

\* PlateEngine::render
LEMMA EngineRenderIs ==
  ASSUME Types, NEW n \in Name, EngineRender(n)
  PROVE  /\ plate' \in Seq(Plate) /\ DOMAIN plate \subseteq DOMAIN plate'
         /\ \A p \in DOMAIN plate: plate'[p] = plate[p]
         /\ \E p \in DOMAIN plate': Begin(plate', p, stack)
         /\ stored[n] = None => /\ Len(plate') = Len(plate) + 1
                                /\ plate'[Len(plate) + 1] = NewPlate(n)
                                /\ Begin(plate', Len(plate) + 1, stack)
         /\ stored[n] # None => plate' = plate
<1>1. PICK k \in Nat: k = Len(plate) /\ DOMAIN plate = 1..k /\ plate \in Seq(Plate)
  BY PlatesAreTyped
<1> DEFINE q == NewPlate(n)
<1>2. q \in Plate
  BY NewPlateIs
<1> HIDE DEF q
<1>3. CASE stored[n] = None
  <2>1. plate' = Append(plate, q) /\ Begin(plate', Len(plate'), stack)
    BY <1>3 DEF EngineRender, q
  <2>2. plate' \in Seq(Plate) /\ Len(plate') = k + 1 /\ plate'[k + 1] = q /\ \A p \in 1..k: plate'[p] = plate[p]
    BY <1>1, <1>2, <2>1
  <2>3. DOMAIN plate' = 1..k + 1
    BY <2>2
  <2> QED
    BY <1>1, <1>3, <2>1, <2>2, <2>3 DEF q
<1>4. CASE stored[n] # None
  <2>1. stored[n] \in DOMAIN plate
    BY <1>4 DEF Types, Maybe
  <2> QED
    BY <1>1, <1>4, <2>1 DEF EngineRender
<1> QED
  BY <1>3, <1>4, SMTT(40)

LEMMA CleanIs ==
  ASSUME Types, Clean
  PROVE  /\ plate' \in Seq(Plate) /\ DOMAIN plate' = DOMAIN plate
         /\ stored' \in [Name -> Maybe(DOMAIN plate)] /\ \A n \in Name: stored'[n] = None
         /\ \A p \in DOMAIN plate: /\ plate'[p].text = plate[p].text /\ plate'[p].section = plate[p].section
                                   /\ plate'[p].pushed = plate[p].pushed
<1>1. PICK k \in Nat: k = Len(plate) /\ DOMAIN plate = 1..k /\ plate \in Seq(Plate)
  BY PlatesAreTyped
<1> DEFINE q(p) == [plate[p] EXCEPT !.engine = @ /\ \A n \in Name : stored[n] # p]
<1>2. ASSUME NEW p \in 1..k
      PROVE  /\ q(p) \in Plate /\ q(p).text = plate[p].text /\ q(p).section = plate[p].section
             /\ q(p).pushed = plate[p].pushed
  <2>1. plate[p] \in Plate
    BY <1>1
  <2>2. (plate[p].engine /\ \A n \in Name : stored[n] # p) \in BOOLEAN
    OBVIOUS
  <2> QED
    BY <2>1, <2>2 DEF Plate
<1>3. plate' = [p \in 1..k |-> q(p)]
  BY <1>1 DEF Clean
<1> HIDE DEF q
<1>4. plate' \in [1..k -> Plate]
  BY <1>2, <1>3
<1>5. plate' \in Seq(Plate) /\ DOMAIN plate' = 1..k
  BY <1>4
<1> QED
  BY <1>1, <1>2, <1>3, <1>5, SMTT(40) DEF Clean, Maybe
-----------------------------------------------------------------------------
(* The plates of a page, and where they are kept.                          *)

Smaller == {ss \in Nat \X Nat: ss[1] < ss[2]}

LEMMA MaxOf ==
  ASSUME NEW T, NEW b \in Nat, T \subseteq 0..b, T # {}
  PROVE  Max(T) \in T /\ \A y \in T: y <= Max(T)
<1> DEFINE U == {b - y: y \in T}
<1>1. U \subseteq Nat /\ U # {}
  <2>1. \A y \in T: b - y \in Nat
    OBVIOUS
  <2> QED
    BY <2>1
<1>2. IsWellFoundedOn(Smaller, Nat)
  BY NatLessThanWellFounded DEF OpToRel, Smaller
<1>3. PICK u \in U: \A y \in U: ~ (<<y, u>> \in Smaller)
  BY <1>1, <1>2, WFMin
<1>4. PICK z \in T: u = b - z
  BY <1>3
<1>5. ASSUME NEW y \in T PROVE z >= y
  <2>1. b - y \in U /\ b - y \in Nat /\ b - z \in Nat
    BY <1>1
  <2>2. ~(b - y < b - z)
    BY <1>3, <1>4, <2>1 DEF Smaller
  <2> QED
    BY <2>2
<1>6. \E x \in T: \A y \in T: x >= y
  BY <1>5
<1>7. Max(T) \in T /\ \A y \in T: Max(T) >= y
  BY <1>6 DEF Max
<1> QED
  BY <1>7

LEMMA StoredIs ==
  ASSUME NEW l \in Seq(Name), NEW b \in Nat, b = Len(plate), Types
  PROVE  /\ Stored(l) \in [Name -> Maybe(1..b + Len(l))]
         /\ \A n \in Name: (~ \E i \in 2..Len(l): l[i] = n) => Stored(l)[n] = stored[n]
         /\ IsInjective(l) => \A i \in 2..Len(l): Stored(l)[l[i]] = b + i
<1>1. PICK c \in Nat: c = Len(l) /\ DOMAIN l = 1..c
  OBVIOUS
<1> DEFINE at(n) == {i \in 2 .. c : l[i] = n}
<1>2. \A n \in Name: Stored(l)[n] = IF at(n) = {} THEN stored[n] ELSE b + Max(at(n))
  BY <1>1 DEF Stored
<1>3. DOMAIN Stored(l) = Name
  BY DEF Stored
<1>4. ASSUME NEW n \in Name, at(n) # {} PROVE Max(at(n)) \in at(n)
  <2>1. at(n) \subseteq 0..c
    OBVIOUS
  <2> HIDE DEF at
  <2> QED
    BY <1>4, <2>1, MaxOf
<1>5. stored \in [Name -> Maybe(1..b)]
  BY DEF Types
<1>6. ASSUME NEW n \in Name PROVE Stored(l)[n] \in Maybe(1..b + c)
  <2>1. CASE at(n) = {}
    <3>1. Stored(l)[n] = stored[n]
      BY <1>2, <2>1
    <3>2. stored[n] \in Maybe(1..b)
      BY <1>5
    <3> QED
      BY <3>1, <3>2 DEF Maybe
  <2>2. CASE at(n) # {}
    <3>1. PICK i \in 2..c: i = Max(at(n))
      BY <1>4, <2>2
    <3>2. Stored(l)[n] = b + i
      BY <1>2, <2>2, <3>1
    <3> QED
      BY <3>2 DEF Maybe
  <2> QED
    BY <2>1, <2>2
<1>7. ASSUME NEW n \in Name, ~ \E i \in 2..c: l[i] = n PROVE Stored(l)[n] = stored[n]
  <2>1. at(n) = {}
    BY <1>7
  <2> QED
    BY <1>2, <2>1
<1>8. ASSUME IsInjective(l), NEW i \in 2..c PROVE Stored(l)[l[i]] = b + i
  <2>1. \A j \in 2..c: l[j] = l[i] => j = i
    BY <1>1, <1>8 DEF IsInjective
  <2>2. i \in at(l[i]) /\ \A j \in at(l[i]): j = i
    BY <2>1
  <2>3. l[i] \in Name
    BY <1>1
  <2>4. Max(at(l[i])) \in at(l[i])
    BY <1>4, <2>2, <2>3
  <2>5. Max(at(l[i])) = i
    BY <2>2, <2>4
  <2> HIDE DEF at
  <2> QED
    BY <1>2, <2>2, <2>3, <2>5
<1>9. Stored(l) \in [Name -> Maybe(1..b + c)]
  <2>1. Stored(l) = [n \in Name |-> Stored(l)[n]]
    BY DEF Stored
  <2> QED
    BY <1>6, <2>1
<1> QED
  BY <1>1, <1>7, <1>8, <1>9

LEMMA PlatesAre ==
  ASSUME NEW l \in Seq(Name), NEW raw \in BOOLEAN
  PROVE  /\ Plates(l, raw) \in Seq(Plate) /\ Len(Plates(l, raw)) = Len(l)
         /\ \A i \in 1..Len(l): LET p == Plates(l, raw)[i] IN
              /\ p.name = l[i] /\ p.layout = (IF i < Len(l) THEN l[i + 1] ELSE None)
              /\ p.raw = (raw /\ i = 1) /\ p.content = None /\ p.section = None
              /\ \A t \in Section: p.text[t] = None
<1>1. PICK c \in Nat: c = Len(l) /\ DOMAIN l = 1..c
  OBVIOUS
<1> DEFINE q(i) == [NewPlate(l[i]) EXCEPT !.layout = IF i < c THEN l[i + 1] ELSE None, !.raw = raw /\ i = 1]
<1>2. ASSUME NEW i \in 1..c
      PROVE  /\ q(i) \in Plate
             /\ q(i).name = l[i] /\ q(i).layout = (IF i < c THEN l[i + 1] ELSE None)
             /\ q(i).raw = (raw /\ i = 1) /\ q(i).content = None /\ q(i).section = None
             /\ \A t \in Section: q(i).text[t] = None
  <2>1. l[i] \in Name
    BY <1>1
  <2>2. PICK p \in Plate: p = NewPlate(l[i]) /\ p.name = l[i] /\ p.content = None /\ p.section = None
                          /\ \A t \in Section: p.text[t] = None
    BY <2>1, NewPlateIs
  <2>3. PICK y \in Maybe(Name): y = IF i < c THEN l[i + 1] ELSE None
    <3>1. i < c => l[i + 1] \in Name
      BY <1>1
    <3> QED
      BY <3>1 DEF Maybe
  <2>4. PICK z \in BOOLEAN: z = (raw /\ i = 1)
    OBVIOUS
  <2>5. q(i) = [p EXCEPT !.layout = y, !.raw = z]
    BY <2>2, <2>3, <2>4
  <2> HIDE DEF q
  <2>6. q(i) \in Plate /\ q(i).layout = y /\ q(i).raw = z /\ q(i).name = p.name /\ q(i).content = p.content
        /\ q(i).section = p.section /\ q(i).text = p.text
    BY <2>5 DEF Plate
  <2> QED
    BY <2>2, <2>3, <2>4, <2>6
<1>3. Plates(l, raw) = [i \in 1..c |-> q(i)]
  BY <1>1 DEF Plates
<1> HIDE DEF q
<1>4. Plates(l, raw) \in [1..c -> Plate]
  BY <1>2, <1>3
<1>5. \A i \in 1..c: Plates(l, raw)[i] = q(i)
  BY <1>3
<1>6. Plates(l, raw) \in Seq(Plate) /\ Len(Plates(l, raw)) = c
  BY <1>4
<1> QED
  BY <1>1, <1>2, <1>5, <1>6
-----------------------------------------------------------------------------
(* Every action keeps the types.                                           *)

LEMMA PushLevelTyped ==
  ASSUME Types, NEW v \in View, NEW n \in Name, PushLevel(v, n)
  PROVE  Types'
<1>1. levels' \in [View -> Seq(Name)]
  <2>1. Append(levels[v], n) \in Seq(Name)
    BY DEF Types
  <2> QED
    BY <2>1 DEF Types, PushLevel
<1>2. calls' \in 0..MaxCalls
  BY PlatesAssumption DEF Types, PushLevel, Asks, Counted
<1> QED
  BY <1>1, <1>2 DEF Types, PushLevel, history

LEMMA AskingTyped ==
  ASSUME Types, NEW v \in View, NEW l \in ViewLists, Asking(v, l)
  PROVE  /\ levels' \in [View -> Seq(Name)] /\ calls' \in 0..MaxCalls /\ Levels(v, l) \in Seq(Name)
         /\ mode = "run" /\ (stack = <<>> \/ (InPlate /\ Top.live /\ ret = None))
<1>1. l \in Seq(Name) /\ levels[v] \in Seq(Name)
  BY PlatesAssumption DEF Types
<1>2. Levels(v, l) \in Seq(Name)
  BY <1>1 DEF Levels
<1>3. levels' \in [View -> Seq(Name)]
  BY <1>2 DEF Types, Asking
<1>4. calls' \in 0..MaxCalls
  BY PlatesAssumption DEF Types, Asking, Asks, Counted
<1>5. mode = "run" /\ (stack = <<>> \/ (InPlate /\ Top.live /\ ret = None))
  <2>1. CASE InTemplate
    BY <2>1 DEF InTemplate
  <2>2. CASE InScript
    <3>1. mode = "run" /\ stack = <<>>
      BY <2>2 DEF InScript
    <3> QED
      BY <3>1
  <2> QED
    BY <2>1, <2>2 DEF Asking, Asks
<1> QED
  BY <1>2, <1>3, <1>4, <1>5

LEMMA RenderViewTyped ==
  ASSUME Types, NEW v \in View, NEW l \in ViewLists, NEW raw \in BOOLEAN, RenderView(v, l, raw)
  PROVE  Types'
<1>1. /\ levels' \in [View -> Seq(Name)] /\ calls' \in 0..MaxCalls /\ Levels(v, l) \in Seq(Name)
      /\ (stack = <<>> \/ InPlate)
  BY AskingTyped DEF RenderView
<1>2. PICK w \in Seq(Name): w = Levels(v, l) /\ w # <<>>
  BY <1>1 DEF RenderView
<1>3. PICK ps \in Seq(Plate): ps = Plates(w, raw) /\ Len(ps) = Len(w)
  BY PlatesAre, SMTT(40)
<1>4. PICK b \in Nat: b = Len(plate) /\ plate \in Seq(Plate) /\ DOMAIN plate = 1..b
  BY PlatesAreTyped
<1>5. PICK n \in Nat: n = Len(w) /\ n > 0
  BY <1>2, EmptySeq
<1>6. plate' = plate \o ps
  BY <1>2, <1>3 DEF RenderView
<1>17. plate \o ps \in Seq(Plate) /\ Len(plate \o ps) = b + n
  <2>1. /\ plate \o ps \in Seq(Plate)
        /\ Len(plate \o ps) = Len(plate) + Len(ps)
    BY ONLY <1>3, <1>4, ConcatProperties
  <2> QED
    BY <1>2, <1>3, <1>4, <1>5, <2>1
<1>7. PICK qs \in Seq(Plate): qs = plate \o ps /\ Len(qs) = b + n /\ DOMAIN qs = 1..b + n
  BY <1>17, LenProperties
<1>8. stored' \in [Name -> Maybe(1..b + n)]
  BY <1>2, <1>4, <1>5, StoredIs DEF RenderView
<1> DEFINE f == Rendering(v, Wanted(w, raw))
<1>9. f \in Frame /\ f.kind = "view" /\ ~IsPlate(f)
  <2>1. Wanted(w, raw) \in Seq(Name \cup {Raw})
    <3>1. w \in Seq(Name \cup {Raw}) /\ 1 \in 1..Len(w)
      BY <1>5
    <3> QED
      BY <3>1, ExceptSeq DEF Wanted
  <2> QED
    BY <2>1 DEF Rendering, Frame, ViewFrame, IsPlate
<1> HIDE DEF f
<1>10. StackTyped(stack, qs)
  <2>1. StackTyped(stack, plate)
    BY DEF Types
  <2>2. DOMAIN plate \subseteq DOMAIN qs
    BY <1>4, <1>7
  <2> QED
    BY <2>1, <2>2, TypedGrow
<1>11. StackTyped(Append(stack, f), qs)
  <2>1. stack = <<>> \/ IsPlate(Last(stack))
    BY <1>1 DEF InPlate, IsPlate, Top
  <2> QED
    BY <1>9, <1>10, <2>1, TypedPush
<1>12. Begin(qs, b + 1, Append(stack, f))
  BY <1>2, <1>3, <1>4, <1>7 DEF RenderView, f
<1>13. b + 1 \in DOMAIN qs
  BY <1>5, <1>7
<1>14. /\ ob' \in Seq(Text) /\ ret' \in Maybe(Text) /\ StackTyped(stack', qs)
       /\ mode' \in {"run", "throw", "dead"}
  BY <1>10, <1>11, <1>12, <1>13, BeginTyped
<1>15. odd' \subseteq {"twice", "nested", "layout", "mute", "untidy", "level"}
  BY DEF Types, RenderView
<1>16. UNCHANGED <<extra, shown>>
  BY DEF RenderView, history
<1> QED
  BY <1>1, <1>6, <1>7, <1>8, <1>14, <1>15, <1>16 DEF Types

LEMMA InsertsTyped ==
  ASSUME Types, NEW n \in Name, EngineRender(n), calls' \in 0..MaxCalls, UNCHANGED <<levels, stored, shown>>,
         extra' = extra \cup {n}, odd' \subseteq {"twice", "nested", "layout", "mute", "untidy", "level"}
  PROVE  Types'
<1>1. PICK p \in DOMAIN plate': /\ plate' \in Seq(Plate) /\ DOMAIN plate \subseteq DOMAIN plate'
                                /\ Begin(plate', p, stack)
  BY EngineRenderIs
<1>2. StackTyped(stack, plate')
  BY <1>1, TypedGrow DEF Types
<1>3. /\ ob' \in Seq(Text) /\ ret' \in Maybe(Text) /\ StackTyped(stack', plate')
      /\ mode' \in {"run", "throw", "dead"}
  BY <1>1, <1>2, BeginTyped
<1>4. stored' \in [Name -> Maybe(DOMAIN plate')]
  BY <1>1 DEF Types, Maybe
<1> QED
  BY <1>1, <1>3, <1>4 DEF Types

LEMMA PrintsTyped ==
  ASSUME Types, InPlate, NEW f \in PlateFrame, f.of = Top.of, NEW t \in Text, Prints(f, t),
         calls' \in 0..MaxCalls, UNCHANGED <<levels, plate, stored, ret, mode, odd, extra, shown>>
  PROVE  Types'
<1>1. Heard(f, t) \in PlateFrame /\ Heard(f, t).of = Top.of
  BY HeardIs
<1>2. StackTyped(stack', plate)
  BY <1>1, AgainTyped DEF Prints
<1>3. ob' \in Seq(Text)
  BY EchoIs DEF Prints, Types
<1> QED
  BY <1>2, <1>3 DEF Types

\* the frame of a template that opened a block
Opened(f, kind) == [f EXCEPT !.open = Append(@, [kind |-> kind, text |-> <<>>])]
Closed(f) == [f EXCEPT !.open = Front(@)]

LEMMA OpenedIs ==
  ASSUME NEW f \in PlateFrame, NEW kind \in {"section", "style"}
  PROVE  LET g == Opened(f, kind)
             n == Len(f.open) IN
         /\ g \in PlateFrame /\ g.of = f.of /\ g.base = f.base /\ g.live = f.live /\ g.told = f.told
         /\ Len(g.open) = n + 1 /\ n \in Nat
         /\ g.open[n + 1].kind = kind /\ g.open[n + 1].text = <<>>
         /\ \A k \in 1..n: g.open[k] = f.open[k]
<1>1. PICK b \in Seq(Block): b = f.open
  BY DEF PlateFrame
<1>2. PICK x \in Block: x = [kind |-> kind, text |-> <<>>]
  BY TextIs DEF Block
<1>3. PICK c \in Seq(Block): c = Append(b, x)
  BY <1>2, AppendIs
<1>4. Len(c) = Len(b) + 1 /\ c[Len(b) + 1] = x /\ \A k \in 1..Len(b): c[k] = b[k]
  BY <1>2, <1>3, AppendIs
<1>5. Opened(f, kind) = [f EXCEPT !.open = c]
  BY <1>1, <1>2, <1>3 DEF Opened
<1>6. /\ Opened(f, kind) \in PlateFrame /\ Opened(f, kind).open = c
      /\ Opened(f, kind).of = f.of /\ Opened(f, kind).base = f.base
      /\ Opened(f, kind).live = f.live /\ Opened(f, kind).told = f.told
  BY <1>3, <1>5 DEF PlateFrame
<1>7. Len(b) \in Nat /\ x.kind = kind /\ x.text = <<>>
  BY <1>2
<1> QED
  BY <1>1, <1>4, <1>6, <1>7

LEMMA ClosedIs ==
  ASSUME NEW f \in PlateFrame, f.open # <<>>
  PROVE  LET g == Closed(f)
             n == Len(f.open) IN
         /\ g \in PlateFrame /\ g.of = f.of /\ g.base = f.base /\ g.live = f.live /\ g.told = f.told
         /\ Len(g.open) = n - 1 /\ n \in Nat \ {0}
         /\ \A k \in 1..n - 1: g.open[k] = f.open[k]
<1>1. PICK b \in Seq(Block): b = f.open /\ b # <<>>
  BY DEF PlateFrame
<1>2. PICK c \in Seq(Block): c = Front(b) /\ Len(c) = Len(b) - 1 /\ \A k \in 1..Len(b) - 1: c[k] = b[k]
  BY <1>1, FrontIs
<1>3. Len(b) \in Nat \ {0}
  BY <1>1, EmptySeq
<1>4. Closed(f) = [f EXCEPT !.open = c]
  BY <1>1, <1>2 DEF Closed
<1>5. /\ Closed(f) \in PlateFrame /\ Closed(f).open = c
      /\ Closed(f).of = f.of /\ Closed(f).base = f.base
      /\ Closed(f).live = f.live /\ Closed(f).told = f.told
  BY <1>2, <1>4 DEF PlateFrame
<1> QED
  BY <1>1, <1>2, <1>3, <1>5

LEMMA OpensTyped ==
  ASSUME Types, InPlate, NEW kind \in {"section", "style"}, Open(kind), NEW q \in Plate, SetMe(q),
         calls' \in 0..MaxCalls, UNCHANGED <<levels, stored, ret, mode, odd, extra, shown>>
  PROVE  Types'
<1>1. Opened(Top, kind) \in PlateFrame /\ Opened(Top, kind).of = Top.of
  BY TopIs, OpenedIs
<1>2. StackTyped(stack', plate)
  <2>1. Again(Opened(Top, kind))
    BY DEF Open, Opened
  <2> QED
    BY <1>1, <2>1, AgainTyped
<1>3. ob' \in Seq(Text)
  BY TextIs, AppendIs DEF Open, Types
<1>4. plate' \in Seq(Plate) /\ DOMAIN plate' = DOMAIN plate
  BY SetMeIs
<1>5. StackTyped(stack', plate')
  BY <1>2, <1>4, TypedGrow
<1>6. stored' \in [Name -> Maybe(DOMAIN plate')]
  BY <1>4 DEF Types
<1> QED
  BY <1>3, <1>4, <1>5, <1>6 DEF Types

LEMMA CloseTyped ==
  ASSUME Types, InPlate, NEW kind \in {"section", "style"}, Close(kind)
  PROVE  /\ ob' \in Seq(Text) /\ StackTyped(stack', plate)
         /\ odd' \subseteq {"twice", "nested", "layout", "mute", "untidy", "level"}
<1>1. ob' \in Seq(Text)
  BY FrontIs DEF Close, Types
<1>2. CASE Top.open # <<>> /\ Last(Top.open).kind = kind
  <2>1. Again(Closed(Top)) /\ odd' = odd
    BY <1>2 DEF Close, Closed
  <2>2. Closed(Top) \in PlateFrame /\ Closed(Top).of = Top.of
    BY <1>2, TopIs, ClosedIs
  <2>3. StackTyped(stack', plate)
    BY <2>1, <2>2, AgainTyped
  <2> QED
    BY <1>1, <2>1, <2>3 DEF Types
<1>3. CASE ~(Top.open # <<>> /\ Last(Top.open).kind = kind)
  <2>1. stack' = stack /\ odd' = odd \cup {"untidy"}
    BY <1>3 DEF Close, Note
  <2> QED
    BY <1>1, <2>1 DEF Types
<1> QED
  BY <1>2, <1>3

LEMMA StartTyped ==
  ASSUME Types, NEW t \in Section \cup {Content}, NEW push \in BOOLEAN, Start(t, push)
  PROVE  Types'
<1>1. InPlate /\ calls' \in 0..MaxCalls /\ UNCHANGED <<levels, stored, ret, odd, extra, shown>>
  BY PlatesAssumption DEF Types, Start, Calls, Counted, InTemplate, history
<1>2. PICK me \in Plate: me = [Me EXCEPT !.pushed = @ \/ push]
  <2>1. Me \in Plate
    BY <1>1, TopIs
  <2> QED
    BY <2>1 DEF Plate
<1>3. CASE t = Content \/ Me.section # None
  <2>1. SetMe(me) /\ mode' = "throw" /\ UNCHANGED <<ob, stack>>
    BY <1>2, <1>3 DEF Start
  <2>2. plate' \in Seq(Plate) /\ DOMAIN plate' = DOMAIN plate
    BY <1>1, <2>1, SetMeIs
  <2>3. StackTyped(stack, plate')
    BY <2>2, TypedGrow DEF Types
  <2>4. stored' \in [Name -> Maybe(DOMAIN plate')]
    BY <1>1, <2>2 DEF Types
  <2> QED
    BY <1>1, <2>1, <2>2, <2>3, <2>4 DEF Types
<1>4. CASE ~(t = Content \/ Me.section # None)
  <2>1. PICK q \in Plate: q = [me EXCEPT !.section = t]
    BY <1>2, <1>4 DEF Plate, Maybe
  <2>2. SetMe(q) /\ Open("section") /\ mode' = mode
    BY <1>2, <1>4, <2>1 DEF Start
  <2> QED
    BY <1>1, <2>2, OpensTyped
<1> QED
  BY <1>3, <1>4

LEMMA StopTyped == ASSUME Types, Stop PROVE Types'
<1>1. InPlate /\ calls' \in 0..MaxCalls /\ UNCHANGED <<levels, stored, ret, mode, extra, shown>>
  BY PlatesAssumption DEF Types, Stop, Calls, Counted, InTemplate, history
<1> DEFINE new  == IF ob = <<>> THEN <<>> ELSE Last(ob)
           prev == IF Me.pushed /\ Me.text[Me.section] # None THEN Me.text[Me.section] ELSE <<>>
<1>2. Me \in Plate /\ Me.section \in Section
  BY <1>1, TopIs DEF Stop, Plate, Maybe
<1>3. new \in Text
  BY TextIs, FrontIs DEF Types
<1>4. prev \in Text
  BY <1>2, TextIs DEF Plate, Maybe
<1>5. PICK t \in Text: t = prev \o new
  BY <1>3, <1>4, TextIs
<1>6. SetMe([Me EXCEPT !.text[Me.section] = t, !.pushed = FALSE]) /\ Close("section")
  BY <1>5 DEF Stop
<1>7. PICK q \in Plate: q = [Me EXCEPT !.text[Me.section] = t, !.pushed = FALSE]
  BY <1>2 DEF Plate, Maybe
<1>8. plate' \in Seq(Plate) /\ DOMAIN plate' = DOMAIN plate
  BY <1>1, <1>6, <1>7, SetMeIs
<1>9. /\ ob' \in Seq(Text) /\ StackTyped(stack', plate)
      /\ odd' \subseteq {"twice", "nested", "layout", "mute", "untidy", "level"}
  BY <1>1, <1>6, CloseTyped
<1>10. StackTyped(stack', plate') /\ stored' \in [Name -> Maybe(DOMAIN plate')]
  BY <1>1, <1>8, <1>9, TypedGrow DEF Types
<1> QED
  BY <1>1, <1>8, <1>9, <1>10 DEF Types

LEMMA StylesTyped ==
  ASSUME Types, StyleBegin \/ StyleEnd \/ StyleEndRefused
  PROVE  Types'
<1>1. InPlate /\ calls' \in 0..MaxCalls /\ UNCHANGED <<levels, stored, ret, extra, shown>>
  BY PlatesAssumption DEF Types, StyleBegin, StyleEnd, StyleEndRefused, Calls, Counted, InTemplate, history
<1>2. CASE StyleBegin
  <2>1. PICK q \in Plate: q = [Me EXCEPT !.style = Len(ob) + 1]
    <3>1. Me \in Plate /\ Len(ob) + 1 \in Nat
      BY <1>1, TopIs DEF Types
    <3> QED
      BY <3>1 DEF Plate
  <2>2. SetMe(q) /\ Open("style") /\ mode' = mode /\ odd' = odd
    BY <1>2, <2>1 DEF StyleBegin, history
  <2> QED
    BY <1>1, <2>2, OpensTyped
<1>3. CASE StyleEnd
  <2>1. Close("style") /\ plate' = plate /\ mode' \in {"run", "throw"}
    BY <1>3 DEF StyleEnd, history
  <2>2. /\ ob' \in Seq(Text) /\ StackTyped(stack', plate)
        /\ odd' \subseteq {"twice", "nested", "layout", "mute", "untidy", "level"}
    BY <1>1, <2>1, CloseTyped
  <2> QED
    BY <1>1, <2>1, <2>2 DEF Types
<1>4. CASE StyleEndRefused
  BY <1>1, <1>4 DEF StyleEndRefused, Throw, Types
<1> QED
  BY <1>2, <1>3, <1>4

LEMMA CallTyped == ASSUME Types, Call PROVE Types'
<1>1. ASSUME NEW v \in View, NEW n \in Name, PushLevel(v, n) PROVE Types'
  BY <1>1, PushLevelTyped
<1>2. ASSUME NEW v \in View, NEW l \in ViewLists, RenderWithoutEngine(v, l) \/ RenderNothing(v, l) PROVE Types'
  <2>1. levels' \in [View -> Seq(Name)] /\ calls' \in 0..MaxCalls
    BY <1>2, AskingTyped DEF RenderWithoutEngine, RenderNothing
  <2> QED
    BY <1>2, <2>1 DEF RenderWithoutEngine, RenderNothing, Types, history
<1>3. ASSUME NEW v \in View, NEW l \in ViewLists, NEW raw \in BOOLEAN, RenderView(v, l, raw) PROVE Types'
  BY <1>3, RenderViewTyped
<1>4. ASSUME NEW n \in Name, Insert(n) \/ InsertInTemplate(n) PROVE Types'
  <2>1. /\ EngineRender(n) /\ calls' \in 0..MaxCalls /\ UNCHANGED <<levels, stored, shown>>
        /\ extra' = extra \cup {n} /\ odd' \subseteq {"twice", "nested", "layout", "mute", "untidy", "level"}
    <3>1. calls' \in 0..MaxCalls
      BY <1>4, PlatesAssumption DEF Types, Insert, InsertInTemplate, Calls, Counted
    <3>2. CASE Insert(n)
      BY <3>1, <3>2 DEF Types, Insert
    <3>3. CASE InsertInTemplate(n)
      <4>1. (IF IsLevel(n) THEN {"level"} ELSE {}) \subseteq {"level"}
        OBVIOUS
      <4> QED
        BY <3>1, <3>3, <4>1 DEF Types, InsertInTemplate
    <3> QED
      BY <1>4, <3>2, <3>3
  <2> QED
    BY <2>1, InsertsTyped
<1>5. ASSUME NEW n \in Name, SetLayout(n) PROVE Types'
  <2>1. InPlate /\ calls' \in 0..MaxCalls /\ UNCHANGED <<levels, stored, ob, stack, ret, mode, extra, shown>>
    BY <1>5, PlatesAssumption DEF Types, SetLayout, Calls, Counted, InTemplate, history
  <2>2. PICK q \in Plate: q = [Me EXCEPT !.layout = n]
    <3>1. Me \in Plate
      BY <2>1, TopIs
    <3> QED
      BY <3>1 DEF Plate, Maybe
  <2>3. SetMe(q) /\ odd' = odd \cup {"layout"}
    BY <1>5, <2>2 DEF SetLayout, Note
  <2>4. plate' \in Seq(Plate) /\ DOMAIN plate' = DOMAIN plate
    BY <2>1, <2>2, <2>3, SetMeIs
  <2>5. StackTyped(stack, plate') /\ stored' \in [Name -> Maybe(DOMAIN plate')]
    BY <2>1, <2>4, TypedGrow DEF Types
  <2> QED
    BY <2>1, <2>3, <2>4, <2>5 DEF Types
<1>6. CASE InsertWithoutEngine
  <2>1. calls' \in 0..MaxCalls
    BY <1>6, PlatesAssumption DEF Types, InsertWithoutEngine, Calls, Counted
  <2> QED
    BY <1>6, <2>1 DEF InsertWithoutEngine, Types, history
<1>7. CASE Say
  <2>1. /\ InPlate /\ calls' \in 0..MaxCalls /\ Prints(Top, <<Me.name>>)
        /\ UNCHANGED <<levels, plate, stored, ret, mode, odd, extra, shown>>
    BY <1>7, PlatesAssumption DEF Types, Say, Calls, Counted, InTemplate, history
  <2>2. <<Me.name>> \in Text
    BY <2>1, TopIs, TextIs DEF Plate
  <2> QED
    BY <2>1, <2>2, TopIs, PrintsTyped
<1>8. CASE GetContent
  <2> DEFINE f == [Top EXCEPT !.told = @ \/ Top.open = <<>>]
             t == IF Me.content = None THEN <<Missing>> ELSE Me.content
  <2>1. /\ InPlate /\ calls' \in 0..MaxCalls /\ Prints(f, t)
        /\ UNCHANGED <<levels, plate, stored, ret, mode, odd, extra, shown>>
    BY <1>8, PlatesAssumption DEF Types, GetContent, Calls, Counted, InTemplate, history
  <2>2. t \in Text
    BY <2>1, TopIs, TextIs DEF Plate, Maybe
  <2>3. f \in PlateFrame /\ f.of = Top.of
    BY <2>1, TopIs DEF PlateFrame
  <2> HIDE DEF f, t
  <2> QED
    BY <2>1, <2>2, <2>3, PrintsTyped
<1>9. ASSUME NEW t \in Section, GetSection(t) PROVE Types'
  <2>1. /\ InPlate /\ calls' \in 0..MaxCalls /\ Prints(Top, Me.text[t])
        /\ UNCHANGED <<levels, plate, stored, ret, mode, odd, extra, shown>>
    BY <1>9, PlatesAssumption DEF Types, GetSection, Calls, Counted, InTemplate, history
  <2>2. Me.text[t] \in Text
    BY <1>9, <2>1, TopIs DEF Plate, Maybe, GetSection
  <2> QED
    BY <2>1, <2>2, TopIs, PrintsTyped
<1>10. ASSUME NEW t \in Section \cup {Content}, NEW push \in BOOLEAN, Start(t, push) PROVE Types'
  BY <1>10, StartTyped
<1>11. CASE Stop
  BY <1>11, StopTyped
<1>12. CASE StopRefused
  <2>1. calls' \in 0..MaxCalls
    BY <1>12, PlatesAssumption DEF Types, StopRefused, Calls, Counted
  <2> QED
    BY <1>12, <2>1 DEF StopRefused, Throw, Types, history
<1>13. CASE StyleBegin \/ StyleEnd \/ StyleEndRefused
  BY <1>13, StylesTyped
<1> QED
  BY <1>1, <1>2, <1>3, <1>4, <1>5, <1>6, <1>7, <1>8, <1>9, <1>10, <1>11, <1>12, <1>13 DEF Call

LEMMA EchoTyped == ASSUME Types, NEW t \in Text PROVE Echo(ob, t) \in Seq(Text)
BY EchoIs DEF Types

LEMMA BelowTyped ==
  ASSUME Types, InPlate
  PROVE  /\ StackTyped(Below, plate)
         /\ Below # <<>> => /\ StackTyped(Front(Below), plate) /\ Last(Below) \in Frame
                            /\ Last(Below).kind = "view" => Front(Below) = <<>> \/ IsPlate(Last(Front(Below)))
<1>1. StackTyped(Below, plate)
  BY TopIs
<1>2. Below # <<>> => Last(Below) \in Frame
  BY <1>1, FrontIs DEF StackTyped
<1> QED
  BY <1>1, <1>2, TypedPop

LEMMA HeardTyped ==
  ASSUME Types, NEW s, StackTyped(s, plate), s # <<>>, IsPlate(Last(s)), NEW t \in Text
  PROVE  StackTyped(Append(Front(s), Heard(Last(s), t)), plate)
<1>1. s \in Seq(Frame) /\ Last(s) \in Frame /\ Last(s) = s[Len(s)] /\ Len(s) \in DOMAIN s
  BY FrontIs DEF StackTyped
<1>2. Last(s) \in PlateFrame
  BY <1>1, FrameIs
<1>3. Last(s).of \in DOMAIN plate
  BY <1>1 DEF StackTyped
<1>4. PICK g \in PlateFrame: g = Heard(Last(s), t) /\ g.of = Last(s).of
  BY <1>2, HeardIs
<1>5. g \in Frame /\ IsPlate(g) /\ ~(g.kind = "view")
  BY DEF Frame, PlateFrame, IsPlate
<1>6. StackTyped(Front(s), plate)
  BY TypedPop
<1>7. StackTyped(Append(Front(s), g), plate)
  BY <1>3, <1>4, <1>5, <1>6, TypedPush
<1> QED
  BY <1>4, <1>7

\* A plate gets its content.
LEMMA ContentIs ==
  ASSUME Types, NEW k \in DOMAIN plate, NEW c \in Maybe(Text), NEW ps, ps = [plate EXCEPT ![k].content = c]
  PROVE  /\ ps \in Seq(Plate) /\ DOMAIN ps = DOMAIN plate /\ Len(ps) = Len(plate)
         /\ ps[k].content = c
         /\ \A p \in DOMAIN plate: /\ p # k => ps[p] = plate[p]
                                   /\ ps[p].text = plate[p].text /\ ps[p].section = plate[p].section
                                   /\ ps[p].name = plate[p].name /\ ps[p].layout = plate[p].layout
                                   /\ ps[p].raw = plate[p].raw /\ ps[p].pushed = plate[p].pushed
<1>1. PICK n \in Nat: n = Len(plate) /\ DOMAIN plate = 1..n /\ plate \in Seq(Plate)
  BY PlatesAreTyped
<1>2. plate[k] \in Plate
  BY <1>1
<1>3. PICK q \in Plate: /\ q = [plate[k] EXCEPT !.content = c] /\ q.content = c
                        /\ q.text = plate[k].text /\ q.section = plate[k].section
                        /\ q.name = plate[k].name /\ q.layout = plate[k].layout
                        /\ q.raw = plate[k].raw /\ q.pushed = plate[k].pushed
  BY <1>2 DEF Plate
<1>4. ps = [plate EXCEPT ![k] = q]
  BY <1>3
<1>5. /\ ps \in Seq(Plate) /\ Len(ps) = n
      /\ \A p \in 1..n: ps[p] = IF p = k THEN q ELSE plate[p]
  BY <1>1, <1>3, <1>4, ExceptSeq
<1>6. DOMAIN ps = 1..n
  BY <1>5
<1> QED
  BY <1>1, <1>3, <1>5, <1>6

LEMMA TemplateEndsTyped == ASSUME Types, TemplateEnds PROVE Types'
<1>1. InPlate /\ UNCHANGED <<levels, plate, stored, mode, calls, extra, shown>>
  BY DEF TemplateEnds, InTemplate, history
<1>2. PICK g \in PlateFrame: g = [Top EXCEPT !.live = FALSE] /\ g.of = Top.of
  <2>1. PICK f \in PlateFrame: f = Top
    BY <1>1, TopIs
  <2>2. [f EXCEPT !.live = FALSE] \in PlateFrame /\ [f EXCEPT !.live = FALSE].of = f.of
    BY DEF PlateFrame
  <2> QED
    BY <2>1, <2>2
<1>3. StackTyped(stack', plate)
  <2>1. Again(g)
    BY <1>2 DEF TemplateEnds, Again
  <2> QED
    BY <1>1, <1>2, <2>1, AgainTyped
<1>4. ret' \in Maybe(Text) /\ ob' \in Seq(Text)
  BY TextIs, FrontIs DEF TemplateEnds, Types, Maybe
<1>5. odd' \subseteq {"twice", "nested", "layout", "mute", "untidy", "level"}
  BY DEF TemplateEnds, Types
<1> QED
  BY <1>1, <1>3, <1>4, <1>5 DEF Types

LEMMA LayoutIs ==
  ASSUME Types, InPlate, Me.layout # None
  PROVE  Me.layout \in Name /\ Layout = stored[Me.layout] /\ (Layout # None => Layout \in DOMAIN plate)
BY TopIs DEF Types, Layout, Plate, Maybe

LEMMA WrapTyped == ASSUME Types, Wrap PROVE Types'
<1>1. InPlate /\ Layout \in DOMAIN plate /\ ret \in Text
  BY LayoutIs DEF Wrap, Types, Maybe
<1>2. PICK ps: ps = [plate EXCEPT ![Layout].content = ret] /\ plate' = ps /\ Begin(ps, Layout, Below)
  BY DEF Wrap
<1>3. ps \in Seq(Plate) /\ DOMAIN ps = DOMAIN plate
  BY <1>1, <1>2, ContentIs DEF Maybe
<1>4. StackTyped(Below, ps) /\ StackTyped(stack, ps)
  BY <1>1, <1>3, TopIs, TypedGrow DEF Types
<1>5. /\ ob' \in Seq(Text) /\ ret' \in Maybe(Text) /\ StackTyped(stack', ps)
      /\ mode' \in {"run", "throw", "dead"}
  BY <1>1, <1>2, <1>3, <1>4, BeginTyped
<1>6. stored' \in [Name -> Maybe(DOMAIN plate')]
  BY <1>2, <1>3 DEF Wrap, Types
<1> QED
  BY <1>2, <1>3, <1>5, <1>6 DEF Wrap, Types, history

LEMMA DeliverTyped == ASSUME Types, Deliver PROVE Types'
<1>1. InPlate /\ ret \in Text /\ ret' = None /\ UNCHANGED <<levels, plate, stored, mode, calls, odd, extra, shown>>
  BY DEF Deliver, Types, Maybe, history
<1>2. CASE Below = <<>>
  BY <1>1, <1>2, TopIs DEF Deliver, Types, Maybe
<1>3. CASE Below # <<>>
  <2>1. stack' = Append(Front(Below), Heard(Last(Below), ret)) /\ ob' = Echo(ob, ret) /\ IsPlate(Last(Below))
    BY <1>3 DEF Deliver, IsPlate
  <2>2. StackTyped(Below, plate)
    BY <1>1, TopIs
  <2>3. StackTyped(stack', plate) /\ ob' \in Seq(Text)
    BY <1>1, <1>3, <2>1, <2>2, HeardTyped, EchoTyped
  <2> QED
    BY <1>1, <2>3 DEF Types, Maybe
<1> QED
  BY <1>2, <1>3

LEMMA ViewEndsTyped == ASSUME Types, ViewEnds PROVE Types'
<1>1. /\ InPlate /\ ret \in Text /\ ret' = None /\ UNCHANGED <<levels, mode, calls, odd, extra>>
      /\ Below # <<>> /\ Last(Below).kind = "view"
  BY DEF ViewEnds, Types, Maybe
<1> DEFINE view == Last(Below)
           rest == Front(Below)
<1>2. StackTyped(rest, plate) /\ view \in ViewFrame /\ (rest # <<>> => IsPlate(Last(rest)))
  BY <1>1, BelowTyped, FrameIs
<1>3. shown' \in Maybe([want : Seq(Name \cup {Raw}), text : Text])
  BY <1>1, <1>2 DEF ViewEnds, ViewFrame, Maybe
<1>4. /\ plate' \in Seq(Plate) /\ DOMAIN plate' = DOMAIN plate
      /\ stored' \in [Name -> Maybe(DOMAIN plate)]
  BY CleanIs DEF ViewEnds
<1>5. StackTyped(stack', plate) /\ ob' \in Seq(Text)
  <2>1. CASE rest = <<>>
    <3>1. stack' = rest /\ ob' = ob
      BY <2>1 DEF ViewEnds
    <3> QED
      BY <1>2, <3>1 DEF Types
  <2>2. CASE rest # <<>>
    <3>1. stack' = Append(Front(rest), Heard(Last(rest), ret)) /\ ob' = Echo(ob, ret)
      BY <2>2 DEF ViewEnds
    <3> HIDE DEF rest
    <3> QED
      BY <1>1, <1>2, <2>2, <3>1, HeardTyped, EchoTyped
  <2> QED
    BY <2>1, <2>2
<1>6. StackTyped(stack', plate')
  BY <1>4, <1>5, TypedGrow
<1> QED
  BY <1>1, <1>3, <1>4, <1>5, <1>6 DEF Types, Maybe

LEMMA UnwindTyped == ASSUME Types, Unwind PROVE Types'
<1>1. InPlate /\ UNCHANGED <<levels, stored, calls, ret, odd, extra, shown>>
  BY DEF Unwind, history
<1>2. ob' \in Seq(Text)
  <2>1. PICK n \in Nat: n = Top.base
    BY <1>1, TopIs DEF PlateFrame
  <2>2. ob \in Seq(Text)
    BY DEF Types
  <2>3. CASE Len(ob) > n
    <3>1. \A i \in 1..n: ob[i] \in Text
      BY <2>2, <2>3
    <3>2. SubSeq(ob, 1, n) \in Seq(Text)
      BY <3>1, SubSeqProperties
    <3> QED
      BY <2>1, <2>2, <3>2 DEF Unwind
  <2>4. CASE ~(Len(ob) > n)
    BY <2>1, <2>2, <2>4 DEF Unwind
  <2> QED
    BY <2>3, <2>4
<1>3. CASE Me.layout = None \/ (Me.engine /\ Layout = None)
  <2>1. stack' = Below /\ mode' \in {"run", "throw"} /\ plate' = plate
    BY <1>3 DEF Unwind
  <2> QED
    BY <1>1, <1>2, <2>1, TopIs DEF Types
<1>4. CASE ~(Me.layout = None \/ (Me.engine /\ Layout = None)) /\ ~Me.engine
  <2>1. stack' = stack /\ mode' = "dead" /\ plate' = plate
    BY <1>4 DEF Unwind
  <2> QED
    BY <1>1, <1>2, <2>1 DEF Types
<1>5. CASE ~(Me.layout = None \/ (Me.engine /\ Layout = None)) /\ Me.engine
  <2> DEFINE g == [Running(Layout) EXCEPT !.live = FALSE]
  <2>1. Layout \in DOMAIN plate /\ Layout \in Nat
    BY <1>1, <1>5, LayoutIs DEF Types
  <2>2. plate' = [plate EXCEPT ![Layout].content = None] /\ stack' = Append(Below, g) /\ mode' = mode
    BY <1>5 DEF Unwind
  <2>3. plate' \in Seq(Plate) /\ DOMAIN plate' = DOMAIN plate
    BY <2>1, <2>2, ContentIs DEF Maybe
  <2>4. g \in PlateFrame /\ IsPlate(g) /\ g.of = Layout
    BY <2>1, RunningIs DEF Types
  <2> HIDE DEF g
  <2>5. g \in Frame /\ ~(g.kind = "view")
    BY <2>4 DEF Frame, IsPlate
  <2>6. StackTyped(Append(Below, g), plate)
    BY <1>1, <2>1, <2>4, <2>5, TopIs, TypedPush
  <2>7. StackTyped(stack', plate')
    BY <2>2, <2>3, <2>6, TypedGrow
  <2>8. stored' \in [Name -> Maybe(DOMAIN plate')]
    BY <1>1, <2>3 DEF Types
  <2> QED
    BY <1>1, <1>2, <2>2, <2>3, <2>7, <2>8 DEF Types
<1> QED
  BY <1>3, <1>4, <1>5

LEMMA UnwindViewTyped == ASSUME Types, UnwindView PROVE Types'
<1>1. /\ plate' \in Seq(Plate) /\ DOMAIN plate' = DOMAIN plate
      /\ stored' \in [Name -> Maybe(DOMAIN plate)]
  BY CleanIs DEF UnwindView
<1>2. StackTyped(stack', plate)
  BY TypedPop DEF UnwindView, Below, Types
<1>3. StackTyped(stack', plate') /\ mode' \in {"run", "throw"}
  BY <1>1, <1>2, TypedGrow DEF UnwindView
<1> QED
  BY <1>1, <1>3 DEF UnwindView, Types

LEMMA ReturnTyped == ASSUME Types, Return PROVE Types'
<1>1. CASE WrapWithoutEngine \/ TemplateThrows \/ Catch
  BY <1>1 DEF WrapWithoutEngine, TemplateThrows, Catch, Types, history
<1> QED
  BY <1>1, TemplateEndsTyped, WrapTyped, DeliverTyped, ViewEndsTyped, UnwindTyped, UnwindViewTyped DEF Return

LEMMA InitTyped == PlatesInit => Types
<1> SUFFICES ASSUME PlatesInit PROVE Types
  OBVIOUS
<1>1. StackTyped(<<>>, plate)
  BY DEF StackTyped
<1> QED
  BY <1>1, PlatesAssumption DEF PlatesInit, Types, Maybe

LEMMA TypesStep == ASSUME Types, [PlatesNext]_platesVars PROVE Types'
<1>1. CASE UNCHANGED platesVars
  BY <1>1 DEF platesVars, Types
<1> QED
  BY <1>1, CallTyped, ReturnTyped DEF PlatesNext
-----------------------------------------------------------------------------
(***************************************************************************)
(* The output buffers.  Each template that runs has one of its own and one *)
(* for each block it has open, above those of the templates that wait.     *)
(***************************************************************************)
Depth(f) == f.base + 1 + Len(f.open)

\* how many buffers the first i frames have
Deep(s, i) ==
  IF i = 0 THEN 0
  ELSE IF IsPlate(s[i]) THEN Depth(s[i])
  ELSE IF i = 1 THEN 0 ELSE Depth(s[i - 1])

Settled(s, o) ==
  /\ \A i \in DOMAIN s: IsPlate(s[i]) =>
       /\ s[i].live /\ s[i].base = Deep(s, i - 1) /\ Depth(s[i]) <= Len(o)
       /\ \A k \in DOMAIN s[i].open: s[i].open[k].text = o[s[i].base + 1 + k]
  /\ \A i, j \in DOMAIN s: i < j /\ IsPlate(s[i]) /\ IsPlate(s[j]) => Depth(s[i]) <= s[j].base
  /\ Len(o) = Deep(s, Len(s))

\* A template that has ended waits with its text and has no buffers left.
Flat(s) == s # <<>> /\ IsPlate(Last(s)) /\ ~Last(s).live
Tower(s, o) == Settled(IF Flat(s) THEN Front(s) ELSE s, o)

LEMMA DepthIs == ASSUME NEW f \in PlateFrame PROVE Depth(f) \in Nat /\ f.base \in Nat /\ f.base < Depth(f)
<1>1. PICK b \in Seq(Block): b = f.open
  BY DEF PlateFrame
<1>2. PICK n \in Nat: n = Len(b)
  OBVIOUS
<1>3. PICK m \in Nat: m = f.base
  BY DEF PlateFrame
<1> QED
  BY <1>1, <1>2, <1>3 DEF Depth

LEMMA SettledPush ==
  ASSUME NEW s \in Seq(Frame), NEW o \in Seq(Text), Settled(s, o),
         NEW g \in PlateFrame, g.live, g.base = Len(o),
         NEW o2 \in Seq(Text), Len(o2) = Depth(g), \A k \in 1..Len(o): o2[k] = o[k],
         \A k \in DOMAIN g.open: g.open[k].text = o2[g.base + 1 + k]
  PROVE  Settled(Append(s, g), o2)
<1>1. PICK n \in Nat: n = Len(s) /\ DOMAIN s = 1..n
  OBVIOUS
<1>2. IsPlate(g) /\ g \in Frame
  BY DEF PlateFrame, Frame, IsPlate
<1>3. PICK a \in Seq(Frame): a = Append(s, g)
  BY <1>2, AppendIs
<1>4. Len(a) = n + 1 /\ DOMAIN a = 1..n + 1 /\ a[n + 1] = g /\ \A k \in 1..n: a[k] = s[k]
  BY <1>1, <1>2, <1>3, AppendIs, LenProperties
<1>5. ASSUME NEW i \in 0..n PROVE Deep(a, i) = Deep(s, i)
  <2>1. i \in 1..n => a[i] = s[i]
    BY <1>4
  <2>2. i - 1 \in 1..n => a[i - 1] = s[i - 1]
    BY <1>4
  <2> QED
    BY <2>1, <2>2 DEF Deep
<1>6. Deep(a, n + 1) = Depth(g)
  BY <1>2, <1>4 DEF Deep
<1>7. PICK c \in Nat: c = Len(o) /\ Deep(s, n) = c
  BY <1>1 DEF Settled
<1>8. PICK d \in Nat: d = Depth(g) /\ Len(o2) = d /\ c < d
  BY <1>7, DepthIs
<1>9. ASSUME NEW i \in 1..n, IsPlate(a[i])
      PROVE  /\ a[i].live /\ a[i].base = Deep(a, i - 1) /\ Depth(a[i]) <= d /\ Depth(a[i]) <= c
             /\ \A k \in DOMAIN a[i].open: a[i].open[k].text = o2[a[i].base + 1 + k]
  <2>1. a[i] = s[i] /\ i - 1 \in 0..n
    BY <1>4
  <2>2. /\ s[i].live /\ s[i].base = Deep(s, i - 1) /\ Depth(s[i]) <= c
        /\ \A k \in DOMAIN s[i].open: s[i].open[k].text = o[s[i].base + 1 + k]
    BY <1>1, <1>7, <1>9, <2>1 DEF Settled
  <2>3. s[i] \in PlateFrame
    <3>1. s[i] \in Frame
      BY <1>1
    <3> QED
      BY <1>9, <2>1, <3>1, FrameIs
  <2>4. PICK b \in Seq(Block), m \in Nat: b = s[i].open /\ m = s[i].base
    BY <2>3 DEF PlateFrame
  <2>5. PICK e \in Nat: e = Depth(s[i]) /\ e = m + 1 + Len(b) /\ e <= c
    BY <2>2, <2>3, <2>4, DepthIs DEF Depth
  <2>6. ASSUME NEW k \in DOMAIN b PROVE b[k].text = o2[m + 1 + k]
    <3>1. m + 1 + k \in 1..c
      BY <2>5
    <3> QED
      BY <1>7, <2>2, <2>4, <3>1
  <2>7. Deep(a, i - 1) = Deep(s, i - 1)
    BY <1>5, <2>1
  <2> QED
    BY <1>8, <2>1, <2>2, <2>4, <2>5, <2>6, <2>7
<1>10. /\ a[n + 1].live /\ a[n + 1].base = Deep(a, (n + 1) - 1) /\ Depth(a[n + 1]) <= d
       /\ \A k \in DOMAIN a[n + 1].open: a[n + 1].open[k].text = o2[a[n + 1].base + 1 + k]
  <2>1. Deep(a, n) = c
    BY <1>5, <1>7
  <2>2. (n + 1) - 1 = n
    OBVIOUS
  <2> QED
    BY <1>4, <1>7, <1>8, <2>1, <2>2
<1>11. ASSUME NEW i \in 1..n + 1, NEW j \in 1..n + 1, i < j, IsPlate(a[i]), IsPlate(a[j])
       PROVE  Depth(a[i]) <= a[j].base
  <2>1. CASE j = n + 1
    <3>1. i \in 1..n
      BY <1>11, <2>1
    <3> QED
      BY <1>4, <1>7, <1>9, <1>11, <2>1, <3>1
  <2>2. CASE j \in 1..n
    <3>1. i \in 1..n
      BY <1>11, <2>2
    <3> QED
      BY <1>1, <1>4, <1>11, <2>2, <3>1 DEF Settled
  <2> QED
    BY <2>1, <2>2
<1>12. ASSUME NEW i \in 1..n + 1, IsPlate(a[i])
       PROVE  /\ a[i].live /\ a[i].base = Deep(a, i - 1) /\ Depth(a[i]) <= Len(o2)
              /\ \A k \in DOMAIN a[i].open: a[i].open[k].text = o2[a[i].base + 1 + k]
  <2>1. CASE i = n + 1
    BY <1>8, <1>10, <2>1
  <2>2. CASE i \in 1..n
    BY <1>8, <1>9, <1>12, <2>2
  <2> QED
    BY <2>1, <2>2
<1>13. Len(o2) = Deep(a, Len(a))
  BY <1>4, <1>6, <1>8
<1>14. Settled(a, o2)
  BY ONLY <1>4, <1>11, <1>12, <1>13 DEF Settled
<1> QED
  BY <1>3, <1>14

LEMMA SettledView ==
  ASSUME NEW s \in Seq(Frame), NEW o \in Seq(Text), Settled(s, o), s = <<>> \/ IsPlate(Last(s)),
         NEW g \in Frame, g.kind = "view"
  PROVE  Settled(Append(s, g), o)
<1>1. PICK n \in Nat: n = Len(s) /\ DOMAIN s = 1..n
  OBVIOUS
<1>2. ~IsPlate(g)
  BY FrameIs
<1>3. PICK a \in Seq(Frame): a = Append(s, g)
  BY AppendIs
<1>4. Len(a) = n + 1 /\ DOMAIN a = 1..n + 1 /\ a[n + 1] = g /\ \A k \in 1..n: a[k] = s[k]
  BY <1>1, <1>3, AppendIs, LenProperties
<1>5. ASSUME NEW i \in 0..n PROVE Deep(a, i) = Deep(s, i)
  <2>1. i \in 1..n => a[i] = s[i]
    BY <1>4
  <2>2. i - 1 \in 1..n => a[i - 1] = s[i - 1]
    BY <1>4
  <2> QED
    BY <2>1, <2>2 DEF Deep
<1>6. Deep(a, n + 1) = Deep(s, n)
  <2>1. CASE n = 0
    BY <1>2, <1>4, <2>1 DEF Deep
  <2>2. CASE n # 0
    <3>1. IsPlate(s[n]) /\ a[n] = s[n]
      BY <1>1, <1>4, <2>2 DEF Last
    <3>2. n + 1 # 0 /\ n + 1 # 1 /\ (n + 1) - 1 = n
      BY <2>2
    <3>3. Deep(a, n + 1) = Depth(s[n])
      BY <1>2, <1>4, <3>1, <3>2 DEF Deep
    <3> QED
      BY <2>2, <3>1, <3>3 DEF Deep
  <2> QED
    BY <2>1, <2>2
<1>7. ASSUME NEW i \in 1..n + 1, IsPlate(a[i])
      PROVE  /\ a[i].live /\ a[i].base = Deep(a, i - 1) /\ Depth(a[i]) <= Len(o)
             /\ \A k \in DOMAIN a[i].open: a[i].open[k].text = o[a[i].base + 1 + k]
  <2>1. i \in 1..n
    BY <1>2, <1>4, <1>7
  <2>2. a[i] = s[i] /\ i - 1 \in 0..n
    BY <1>4, <2>1
  <2>3. Deep(a, i - 1) = Deep(s, i - 1)
    BY <1>5, <2>2
  <2> QED
    BY <1>1, <1>7, <2>1, <2>2, <2>3 DEF Settled
<1>8. ASSUME NEW i \in 1..n + 1, NEW j \in 1..n + 1, i < j, IsPlate(a[i]), IsPlate(a[j])
      PROVE  Depth(a[i]) <= a[j].base
  <2>1. i \in 1..n /\ j \in 1..n
    BY <1>2, <1>4, <1>8, SMTT(40)
  <2> QED
    BY <1>1, <1>4, <1>8, <2>1 DEF Settled
<1>9. Len(o) = Deep(a, Len(a))
  BY <1>1, <1>4, <1>6 DEF Settled
<1> QED
  BY <1>3, <1>4, <1>7, <1>8, <1>9, SMTT(40) DEF Settled

LEMMA SettledPop ==
  ASSUME NEW s, NEW ps, StackTyped(s, ps), s # <<>>, NEW o \in Seq(Text), Settled(s, o)
  PROVE  /\ Last(s).kind = "view" => Settled(Front(s), o)
         /\ IsPlate(Last(s)) =>
              /\ Last(s).live /\ Last(s).base \in 0..Len(o) /\ Len(o) = Depth(Last(s))
              /\ SubSeq(o, 1, Last(s).base) \in Seq(Text) /\ Len(SubSeq(o, 1, Last(s).base)) = Last(s).base
              /\ \A k \in 1..Last(s).base: SubSeq(o, 1, Last(s).base)[k] = o[k]
              /\ Settled(Front(s), SubSeq(o, 1, Last(s).base))
<1>1. PICK n \in Nat: n = Len(s) /\ s \in Seq(Frame) /\ DOMAIN s = 1..n /\ n > 0
  BY EmptySeq DEF StackTyped
<1>2. PICK a \in Seq(Frame): a = Front(s) /\ Len(a) = n - 1 /\ DOMAIN a = 1..n - 1 /\ \A k \in 1..n - 1: a[k] = s[k]
  BY <1>1, FrontIs
<1>3. PICK f \in Frame: f = Last(s) /\ f = s[n]
  BY <1>1, FrontIs
<1>4. ASSUME NEW i \in 0..n - 1 PROVE Deep(a, i) = Deep(s, i)
  <2>1. i \in 1..n - 1 => a[i] = s[i]
    BY <1>2
  <2>2. i - 1 \in 1..n - 1 => a[i - 1] = s[i - 1]
    BY <1>2
  <2> QED
    BY <2>1, <2>2 DEF Deep
<1>5. ASSUME NEW i \in 1..n - 1, NEW j \in 1..n - 1, i < j, IsPlate(a[i]), IsPlate(a[j])
      PROVE  Depth(a[i]) <= a[j].base
  <2>1. i \in DOMAIN s /\ j \in DOMAIN s /\ a[i] = s[i] /\ a[j] = s[j]
    BY <1>1, <1>2
  <2> QED
    BY <1>5, <2>1 DEF Settled
<1>6. ASSUME NEW i \in 1..n - 1, IsPlate(a[i])
      PROVE  /\ a[i] \in PlateFrame /\ a[i].live /\ a[i].base = Deep(a, i - 1) /\ Depth(a[i]) <= Len(o)
             /\ \A k \in DOMAIN a[i].open: a[i].open[k].text = o[a[i].base + 1 + k]
  <2>1. a[i] = s[i] /\ i - 1 \in 0..n - 1 /\ i \in 1..n
    BY <1>2
  <2>2. Deep(a, i - 1) = Deep(s, i - 1)
    BY <1>4, <2>1
  <2>3. a[i] \in PlateFrame
    BY <1>2, <1>6, FrameIs
  <2> QED
    BY <1>1, <1>6, <2>1, <2>2, <2>3 DEF Settled
<1>7. ASSUME f.kind = "view" PROVE Settled(Front(s), o)
  <2>1. ~IsPlate(f)
    BY <1>7, FrameIs
  <2>2. Len(o) = Deep(s, n)
    BY <1>1 DEF Settled
  <2>3. Deep(s, n) = Deep(s, n - 1)
    <3>1. CASE n = 1
      BY <1>3, <2>1, <3>1 DEF Deep
    <3>2. CASE n # 1
      <4>1. n - 1 \in 1..n /\ n - 1 # 0
        BY <1>1, <3>2
      <4>2. s[n - 1].kind = "view" => FALSE
        <5>1. s[n - 1].kind = "view" => IsPlate(s[(n - 1) + 1])
          BY <1>1, <4>1 DEF StackTyped
        <5>2. (n - 1) + 1 = n
          OBVIOUS
        <5> QED
          BY <1>3, <2>1, <5>1, <5>2
      <4>3. s[n - 1] \in Frame
        BY <1>1, <4>1
      <4>4. IsPlate(s[n - 1])
        BY <4>2, <4>3, FrameIs
      <4> QED
        BY <1>1, <1>3, <2>1, <3>2, <4>1, <4>4 DEF Deep
    <3> QED
      BY <3>1, <3>2
  <2>4. Len(o) = Deep(a, Len(a))
    <3>1. n - 1 \in 0..n - 1
      BY <1>1
    <3> QED
      BY <1>2, <1>4, <2>2, <2>3, <3>1
  <2>5. Settled(a, o)
    BY ONLY <1>2, <1>5, <1>6, <2>4 DEF Settled
  <2> QED
    BY <1>2, <2>5
<1>8. ASSUME IsPlate(f)
      PROVE  /\ f.live /\ f.base \in 0..Len(o) /\ Len(o) = Depth(f)
             /\ SubSeq(o, 1, f.base) \in Seq(Text) /\ Len(SubSeq(o, 1, f.base)) = f.base
             /\ \A k \in 1..f.base: SubSeq(o, 1, f.base)[k] = o[k]
             /\ Settled(Front(s), SubSeq(o, 1, f.base))
  <2>1. f \in PlateFrame
    BY <1>8, FrameIs
  <2>2. n \in DOMAIN s
    BY <1>1
  <2>3. f.live /\ f.base = Deep(s, n - 1)
    BY <1>3, <1>8, <2>2 DEF Settled
  <2>4. Len(o) = Depth(f)
    <3>1. Len(o) = Deep(s, n)
      BY <1>1 DEF Settled
    <3> QED
      BY <1>1, <1>3, <1>8, <3>1 DEF Deep
  <2>5. PICK b \in Nat, c \in Nat: b = f.base /\ c = Len(o) /\ b < c
    BY <2>1, <2>4, DepthIs
  <2>6. PICK u \in Seq(Text): u = SubSeq(o, 1, b) /\ Len(u) = b /\ \A k \in 1..b: u[k] = o[k]
    <3>1. \A k \in 1..b: o[k] \in Text
      BY <2>5
    <3>2. /\ SubSeq(o, 1, b) \in Seq(Text) /\ Len(SubSeq(o, 1, b)) = (IF 1 <= b THEN b - 1 + 1 ELSE 0)
          /\ \A k \in 1 .. b - 1 + 1: SubSeq(o, 1, b)[k] = o[1 + k - 1]
      BY <3>1, SubSeqProperties
    <3>3. Len(SubSeq(o, 1, b)) = b /\ \A k \in 1..b: SubSeq(o, 1, b)[k] = o[k]
      BY <3>2
    <3> QED
      BY <3>2, <3>3
  <2>7. ASSUME NEW i \in 1..n - 1, IsPlate(a[i])
        PROVE  /\ a[i].live /\ a[i].base = Deep(a, i - 1) /\ Depth(a[i]) <= b
               /\ \A k \in DOMAIN a[i].open: a[i].open[k].text = u[a[i].base + 1 + k]
    <3>1. /\ a[i] \in PlateFrame /\ a[i].live /\ a[i].base = Deep(a, i - 1)
          /\ \A k \in DOMAIN a[i].open: a[i].open[k].text = o[a[i].base + 1 + k]
      BY <1>6, <2>7
    <3>2. Depth(a[i]) <= b
      <4>1. i \in DOMAIN s /\ i < n /\ a[i] = s[i]
        BY <1>1, <1>2
      <4> QED
        BY <1>3, <1>8, <2>2, <2>5, <2>7, <4>1 DEF Settled
    <3>3. PICK bb \in Seq(Block), m \in Nat: bb = a[i].open /\ m = a[i].base
      BY <3>1 DEF PlateFrame
    <3>6. Depth(a[i]) = m + 1 + Len(bb) /\ Len(bb) \in Nat
      BY <3>3 DEF Depth
    <3>4. PICK e \in Nat: e = m + 1 + Len(bb) /\ e <= b
      BY <3>2, <3>6
    <3>5. ASSUME NEW k \in DOMAIN bb PROVE bb[k].text = u[m + 1 + k]
      <4>1. m + 1 + k \in 1..b
        BY <3>4
      <4> QED
        BY <2>6, <3>1, <3>3, <4>1
    <3> QED
      BY <3>1, <3>2, <3>3, <3>5
  <2>8. Len(u) = Deep(a, Len(a))
    <3>1. n - 1 \in 0..n - 1
      BY <1>1
    <3> QED
      BY <1>2, <1>4, <2>3, <2>5, <2>6, <3>1
  <2>9. Settled(a, u)
    BY ONLY <1>2, <1>5, <2>6, <2>7, <2>8, ZenonT(60) DEF Settled
  <2> QED
    BY <1>2, <2>3, <2>4, <2>5, <2>6, <2>9
<1> QED
  BY <1>3, <1>7, <1>8

\* The template on top opens or closes a block, or prints.
LEMMA SettledTop ==
  ASSUME NEW s, NEW ps, StackTyped(s, ps), s # <<>>, IsPlate(Last(s)), NEW o \in Seq(Text), Settled(s, o),
         NEW g \in PlateFrame, g.live, g.base = Last(s).base,
         NEW o2 \in Seq(Text), Len(o2) = Depth(g), \A k \in 1..g.base: o2[k] = o[k],
         \A k \in DOMAIN g.open: g.open[k].text = o2[g.base + 1 + k]
  PROVE  Settled(Append(Front(s), g), o2)
<1> DEFINE v == SubSeq(o, 1, Last(s).base)
<1>4. /\ v \in Seq(Text) /\ Len(v) = Last(s).base
      /\ \A k \in 1..Last(s).base: v[k] = o[k]
      /\ Settled(Front(s), v)
  BY SettledPop
<1> HIDE DEF v
<1>1. PICK u \in Seq(Text): /\ Len(u) = g.base
                            /\ \A k \in 1..g.base: u[k] = o[k]
                            /\ Settled(Front(s), u)
  BY <1>4
<1>2. Front(s) \in Seq(Frame)
  BY FrontIs DEF StackTyped
<1>3. \A k \in 1..Len(u): o2[k] = u[k]
  BY <1>1
<1> QED
  BY <1>1, <1>2, <1>3, SettledPush
-----------------------------------------------------------------------------
(***************************************************************************)
(* Sections.  A plate has one section, and at most one template that runs  *)
(* it has it open, before it has been given its text.                      *)
(***************************************************************************)
HasOpen(s, p, i, k) ==
  /\ i \in DOMAIN s /\ IsPlate(s[i]) /\ s[i].of = p
  /\ k \in DOMAIN s[i].open /\ s[i].open[k].kind = "section"

Blank(q) == \A t \in Section: q.text[t] = None

OneBlock(ps, s) ==
  \A p \in DOMAIN ps:
    /\ ps[p].section = None => Blank(ps[p])
    /\ \A i, k \in Nat: HasOpen(s, p, i, k) =>
         /\ ps[p].section # None /\ Blank(ps[p])
         /\ \A i2, k2 \in Nat: HasOpen(s, p, i2, k2) => i2 = i /\ k2 = k

\* No section is open on s2 that is not open on s.
Fewer(s2, s) == \A p \in Nat: \A i, k \in Nat: HasOpen(s2, p, i, k) => HasOpen(s, p, i, k)

LEMMA OneBlockStays ==
  ASSUME NEW ps \in Seq(Plate), NEW s, StackTyped(s, ps), OneBlock(ps, s), NEW s2, Fewer(s2, s),
         NEW qs \in Seq(Plate), DOMAIN ps \subseteq DOMAIN qs,
         \A p \in DOMAIN ps: qs[p].section = ps[p].section /\ qs[p].text = ps[p].text,
         \A p \in DOMAIN qs \ DOMAIN ps: qs[p].section = None /\ Blank(qs[p])
  PROVE  OneBlock(qs, s2)
<1> SUFFICES ASSUME NEW p \in DOMAIN qs
             PROVE  /\ qs[p].section = None => Blank(qs[p])
                    /\ \A i, k \in Nat: HasOpen(s2, p, i, k) =>
                         /\ qs[p].section # None /\ Blank(qs[p])
                         /\ \A i2, k2 \in Nat: HasOpen(s2, p, i2, k2) => i2 = i /\ k2 = k
  BY DEF OneBlock
<1>1. p \in Nat
  OBVIOUS
<1>2. \A i, k \in Nat: HasOpen(s2, p, i, k) => HasOpen(s, p, i, k)
  BY <1>1 DEF Fewer
<1>3. CASE p \in DOMAIN ps
  <2>1. (Blank(qs[p]) <=> Blank(ps[p])) /\ qs[p].section = ps[p].section
    BY <1>3 DEF Blank
  <2>2. /\ ps[p].section = None => Blank(ps[p])
        /\ \A i, k \in Nat: HasOpen(s, p, i, k) =>
             /\ ps[p].section # None /\ Blank(ps[p])
             /\ \A i2, k2 \in Nat: HasOpen(s, p, i2, k2) => i2 = i /\ k2 = k
    BY <1>3 DEF OneBlock
  <2> QED
    BY ONLY <1>2, <2>1, <2>2, ZenonT(60)
<1>4. CASE p \notin DOMAIN ps
  <2>1. \A i, k \in Nat: ~HasOpen(s, p, i, k)
    BY <1>4 DEF HasOpen, StackTyped
  <2>2. qs[p].section = None /\ Blank(qs[p])
    BY <1>4
  <2> QED
    BY ONLY <1>2, <2>1, <2>2
<1> QED
  BY <1>3, <1>4

LEMMA FewerPush ==
  ASSUME NEW s \in Seq(Frame), NEW g \in Frame, IsPlate(g) => g.open = <<>>
  PROVE  Fewer(Append(s, g), s)
<1>1. PICK n \in Nat: n = Len(s) /\ DOMAIN s = 1..n
  OBVIOUS
<1>2. PICK a \in Seq(Frame): a = Append(s, g)
  BY AppendIs
<1>3. Len(a) = n + 1 /\ DOMAIN a = 1..n + 1 /\ a[n + 1] = g /\ \A k \in 1..n: a[k] = s[k]
  BY <1>1, <1>2, AppendIs, LenProperties
<1>4. ASSUME NEW p \in Nat, NEW i \in Nat, NEW k \in Nat, HasOpen(a, p, i, k) PROVE HasOpen(s, p, i, k)
  <2>1. i # n + 1
    BY <1>3, <1>4 DEF HasOpen
  <2> QED
    BY <1>1, <1>3, <1>4, <2>1 DEF HasOpen
<1> QED
  BY <1>2, <1>4 DEF Fewer

LEMMA FewerPop == ASSUME NEW s \in Seq(Frame), s # <<>> PROVE Fewer(Front(s), s)
<1>1. PICK n \in Nat: n = Len(s) /\ DOMAIN s = 1..n /\ n > 0
  BY EmptySeq
<1>2. PICK a \in Seq(Frame): a = Front(s) /\ Len(a) = n - 1 /\ DOMAIN a = 1..n - 1 /\ \A k \in 1..n - 1: a[k] = s[k]
  BY <1>1, FrontIs
<1>3. ASSUME NEW p \in Nat, NEW i \in Nat, NEW k \in Nat, HasOpen(a, p, i, k) PROVE HasOpen(s, p, i, k)
  BY <1>1, <1>2, <1>3 DEF HasOpen
<1> QED
  BY <1>2, <1>3 DEF Fewer

LEMMA FewerTop ==
  ASSUME NEW s \in Seq(Frame), s # <<>>, IsPlate(Last(s)), NEW g \in PlateFrame, g.of = Last(s).of,
         \A k \in DOMAIN g.open: g.open[k].kind = "section" =>
           k \in DOMAIN Last(s).open /\ Last(s).open[k].kind = "section"
  PROVE  Fewer(Append(Front(s), g), s)
<1>1. PICK n \in Nat: n = Len(s) /\ DOMAIN s = 1..n /\ n > 0
  BY EmptySeq
<1>2. PICK b \in Seq(Frame): b = Front(s) /\ Len(b) = n - 1 /\ \A k \in 1..n - 1: b[k] = s[k]
  BY <1>1, FrontIs
<1>3. g \in Frame
  BY DEF Frame
<1>4. PICK a \in Seq(Frame): a = Append(b, g)
  BY <1>3, AppendIs
<1>5. Len(a) = n /\ a[n] = g /\ \A k \in 1..n - 1: a[k] = s[k]
  BY <1>1, <1>2, <1>3, <1>4, AppendIs
<1>6. DOMAIN a = 1..n
  BY <1>5
<1>7. Last(s) = s[n]
  BY <1>1 DEF Last
<1>8. ASSUME NEW p \in Nat, NEW i \in Nat, NEW k \in Nat, HasOpen(a, p, i, k) PROVE HasOpen(s, p, i, k)
  <2>1. CASE i = n
    BY <1>1, <1>5, <1>6, <1>7, <1>8, <2>1 DEF HasOpen
  <2>2. CASE i # n
    BY <1>1, <1>5, <1>6, <1>8, <2>2 DEF HasOpen
  <2> QED
    BY <2>1, <2>2
<1> QED
  BY <1>2, <1>4, <1>8 DEF Fewer

LEMMA FewerTrans == ASSUME NEW s1, NEW s2, NEW s3, Fewer(s1, s2), Fewer(s2, s3) PROVE Fewer(s1, s3)
BY DEF Fewer

LEMMA FewerSame == ASSUME NEW s PROVE Fewer(s, s)
BY DEF Fewer
-----------------------------------------------------------------------------
(***************************************************************************)
(* Templates below the top run, and the one on top runs or has given its   *)
(* text, unless an exception is on its way.                                *)
(***************************************************************************)
Alive(s) == \A i \in DOMAIN s: IsPlate(s[i]) /\ i < Len(s) => s[i].live

Phase ==
  mode # "dead" =>
    /\ Alive(stack)
    /\ mode = "run" /\ stack # <<>> => IsPlate(Last(stack)) /\ (ret = None <=> Last(stack).live)
    /\ ret # None => mode = "run" /\ stack # <<>>

Neat == mode # "dead" /\ "untidy" \notin odd => Tower(stack, ob) /\ OneBlock(plate, stack)

LEMMA AliveIs ==
  ASSUME NEW s \in Seq(Frame), Alive(s), s # <<>>
  PROVE  /\ Alive(Front(s))
         /\ Front(s) # <<>> /\ IsPlate(Last(Front(s))) => Last(Front(s)).live
<1>1. PICK n \in Nat: n = Len(s) /\ DOMAIN s = 1..n /\ n > 0
  BY EmptySeq
<1>2. PICK a \in Seq(Frame): a = Front(s) /\ Len(a) = n - 1 /\ DOMAIN a = 1..n - 1 /\ \A k \in 1..n - 1: a[k] = s[k]
  BY <1>1, FrontIs
<1>3. Alive(a)
  BY <1>1, <1>2 DEF Alive
<1>4. ASSUME a # <<>>, IsPlate(Last(a)) PROVE Last(a).live
  <2>1. n - 1 \in 1..n - 1
    <3>1. Len(a) # 0
      BY <1>4, EmptySeq
    <3> QED
      BY <1>1, <1>2, <3>1
  <2>2. Last(a) = s[n - 1]
    BY <1>2, <2>1 DEF Last
  <2> QED
    BY <1>1, <1>4, <2>1, <2>2 DEF Alive
<1> QED
  BY <1>2, <1>3, <1>4

LEMMA AlivePush ==
  ASSUME NEW s \in Seq(Frame), Alive(s), s # <<>> /\ IsPlate(Last(s)) => Last(s).live, NEW g \in Frame
  PROVE  Alive(Append(s, g)) /\ Last(Append(s, g)) = g /\ Append(s, g) # <<>> /\ Front(Append(s, g)) = s
<1>1. PICK n \in Nat: n = Len(s) /\ DOMAIN s = 1..n
  OBVIOUS
<1>2. PICK a \in Seq(Frame): a = Append(s, g)
  BY AppendIs
<1>3. Len(a) = n + 1 /\ DOMAIN a = 1..n + 1 /\ a[n + 1] = g /\ \A k \in 1..n: a[k] = s[k]
  BY <1>1, <1>2, AppendIs, LenProperties
<1>4. ASSUME NEW i \in 1..n + 1, IsPlate(a[i]), i < n + 1 PROVE a[i].live
  <2>1. i \in 1..n /\ a[i] = s[i]
    BY <1>3, <1>4
  <2>2. CASE i = n
    <3>1. Last(s) = s[n] /\ s # <<>>
      BY <1>1, <2>1, <2>2 DEF Last
    <3> QED
      BY <1>4, <2>1, <2>2, <3>1
  <2>3. CASE i # n
    BY <1>1, <1>4, <2>1, <2>3 DEF Alive
  <2> QED
    BY <2>2, <2>3
<1>5. Alive(a)
  BY <1>3, <1>4 DEF Alive
<1>6. a # <<>> /\ Last(a) = g
  BY <1>3 DEF Last
<1>7. Front(a) = s
  <2>1. Front(a) \in Seq(Frame) /\ Len(Front(a)) = n /\ \A k \in 1..n: Front(a)[k] = a[k]
    BY <1>3, <1>6, FrontIs, SMTT(40)
  <2>2. \A k \in 1..Len(Front(a)): Front(a)[k] = s[k]
    BY <1>3, <2>1
  <2> QED
    BY <1>1, <2>1, <2>2, SeqEqual
<1> QED
  BY <1>2, <1>5, <1>6, <1>7

LEMMA RenderingIs ==
  ASSUME NEW v \in View, NEW w \in Seq(Name), w # <<>>, NEW raw \in BOOLEAN
  PROVE  LET f == Rendering(v, Wanted(w, raw)) IN
         f \in Frame /\ f.kind = "view" /\ ~IsPlate(f) /\ f.want = Wanted(w, raw) /\ f.want \in Seq(Name \cup {Raw})
<1>1. w \in Seq(Name \cup {Raw}) /\ 1 \in 1..Len(w)
  BY EmptySeq
<1>2. Wanted(w, raw) \in Seq(Name \cup {Raw})
  BY <1>1, ExceptSeq DEF Wanted
<1> QED
  BY <1>2 DEF Rendering, Frame, ViewFrame, IsPlate

\* the frame of the template on top, after it has ended
LEMMA EndedIs ==
  ASSUME Types, InPlate
  PROVE  LET g == [Top EXCEPT !.live = FALSE] IN
         /\ g \in PlateFrame /\ g \in Frame /\ IsPlate(g) /\ g.live = FALSE
         /\ g.of = Top.of /\ g.open = Top.open /\ g.base = Top.base
<1>1. PICK f \in PlateFrame: f = Top
  BY TopIs
<1>2. LET g == [f EXCEPT !.live = FALSE] IN
      g \in PlateFrame /\ IsPlate(g) /\ g.live = FALSE /\ g.of = f.of /\ g.open = f.open /\ g.base = f.base
  BY DEF PlateFrame, IsPlate
<1> QED
  BY <1>1, <1>2 DEF Frame

LEMMA PhaseDead == ASSUME mode' = "dead" PROVE Phase'
BY DEF Phase

LEMMA PhaseSame ==
  ASSUME Phase, UNCHANGED stack, UNCHANGED ret,
         mode' = mode \/ (mode = "run" /\ ret = None /\ mode' = "throw")
  PROVE  Phase'
BY DEF Phase

LEMMA PhaseTop ==
  ASSUME Types, Phase, mode = "run", InPlate, NEW g \in PlateFrame, Again(g), g.live = Top.live, ret' = ret,
         mode' = "run" \/ (mode' = "throw" /\ ret = None)
  PROVE  Phase'
<1>1. stack \in Seq(Frame) /\ stack # <<>> /\ Alive(stack) /\ Below = Front(stack) /\ Top = Last(stack)
  BY TopIs DEF Phase, Top
<1>2. Below \in Seq(Frame) /\ Alive(Below) /\ (Below # <<>> /\ IsPlate(Last(Below)) => Last(Below).live)
  BY <1>1, AliveIs, TopIs
<1>3. g \in Frame /\ IsPlate(g)
  BY DEF Frame, PlateFrame, IsPlate
<1>4. Alive(stack') /\ Last(stack') = g /\ stack' # <<>>
  BY <1>2, <1>3, AlivePush DEF Again
<1> QED
  BY <1>1, <1>3, <1>4 DEF Phase

LEMMA PhaseBegin ==
  ASSUME Types, mode = "run", NEW ps, NEW p \in Nat, NEW frames \in Seq(Frame), Begin(ps, p, frames),
         Alive(frames), frames # <<>> /\ IsPlate(Last(frames)) => Last(frames).live
  PROVE  Phase'
<1> DEFINE f == Running(p)
           g == [f EXCEPT !.live = FALSE]
<1>1. /\ f \in PlateFrame /\ IsPlate(f) /\ f.live = TRUE
      /\ g \in PlateFrame /\ IsPlate(g) /\ g.live = FALSE
  BY RunningIs DEF Types
<1> HIDE DEF f, g
<1>2. f \in Frame /\ g \in Frame
  BY <1>1 DEF Frame
<1>3. CASE BeginDies
  BY <1>3, PhaseDead DEF BeginDies
<1>4. CASE BeginFlat(ps, p, frames)
  <2>1. stack' = Append(frames, g) /\ mode' = "run"
    BY <1>4 DEF BeginFlat, g, f
  <2>2. Alive(stack') /\ Last(stack') = g /\ stack' # <<>>
    BY <1>2, <2>1, AlivePush
  <2>3. ret' # None
    BY <1>4, TextIs, PlatesAssumption DEF BeginFlat
  <2> QED
    BY <1>1, <2>1, <2>2, <2>3 DEF Phase
<1>5. CASE BeginRuns(ps, p, frames)
  <2>1. stack' = Append(frames, f) /\ mode' = "run" /\ ret' = None
    BY <1>5 DEF BeginRuns, f
  <2>2. Alive(stack') /\ Last(stack') = f /\ stack' # <<>>
    BY <1>2, <2>1, AlivePush
  <2> QED
    BY <1>1, <2>1, <2>2 DEF Phase
<1> QED
  BY <1>3, <1>4, <1>5, BeginIs

LEMMA PhaseHeard ==
  ASSUME Types, NEW s, StackTyped(s, plate), s # <<>>, IsPlate(Last(s)), Last(s).live, Alive(s),
         NEW t \in Text, stack' = Append(Front(s), Heard(Last(s), t)), ret' = None
  PROVE  Phase'
<1>1. s \in Seq(Frame) /\ Last(s) \in Frame /\ Front(s) \in Seq(Frame)
  BY FrontIs DEF StackTyped
<1>2. Last(s) \in PlateFrame
  BY <1>1, FrameIs
<1>3. PICK g \in PlateFrame: g = Heard(Last(s), t) /\ g.live
  BY <1>2, HeardIs
<1>4. g \in Frame /\ IsPlate(g)
  BY DEF Frame, PlateFrame, IsPlate
<1>5. Alive(Front(s)) /\ (Front(s) # <<>> /\ IsPlate(Last(Front(s))) => Last(Front(s)).live)
  BY <1>1, AliveIs
<1>6. Alive(stack') /\ Last(stack') = g
  BY <1>1, <1>3, <1>4, <1>5, AlivePush
<1> QED
  BY <1>3, <1>4, <1>6 DEF Phase

\* What is known of the frames below the top.
LEMMA BelowAlive ==
  ASSUME Types, Phase, mode # "dead", InPlate
  PROVE  /\ Below \in Seq(Frame) /\ StackTyped(Below, plate) /\ Alive(Below)
         /\ Below # <<>> /\ IsPlate(Last(Below)) => Last(Below).live
<1>1. stack \in Seq(Frame) /\ stack # <<>> /\ Alive(stack) /\ Below = Front(stack)
  BY TopIs DEF Phase
<1> QED
  BY <1>1, AliveIs, TopIs

LEMMA PhaseStep == ASSUME Types, Phase, [PlatesNext]_platesVars PROVE Phase'
<1>1. CASE UNCHANGED platesVars
  BY <1>1 DEF platesVars, Phase
<1>2. ASSUME NEW v \in View, NEW n \in Name, PushLevel(v, n) PROVE Phase'
  BY <1>2, PhaseSame DEF PushLevel
<1>3. ASSUME NEW v \in View, NEW l \in ViewLists, RenderWithoutEngine(v, l) \/ RenderNothing(v, l) PROVE Phase'
  <2>1. mode = "run"
    BY <1>3, AskingTyped DEF RenderWithoutEngine, RenderNothing
  <2>2. CASE RenderWithoutEngine(v, l)
    BY <2>1, <2>2, PhaseSame DEF RenderWithoutEngine, Asking, Asks, InTemplate
  <2>3. CASE RenderNothing(v, l)
    BY <2>3, PhaseDead DEF RenderNothing
  <2> QED
    BY <1>3, <2>2, <2>3
<1>4. ASSUME NEW v \in View, NEW l \in ViewLists, NEW raw \in BOOLEAN, RenderView(v, l, raw) PROVE Phase'
  <2>1. /\ Levels(v, l) \in Seq(Name)
        /\ mode = "run" /\ (stack = <<>> \/ (InPlate /\ Top.live /\ ret = None))
    BY <1>4, AskingTyped DEF RenderView
  <2>2. PICK w \in Seq(Name): w = Levels(v, l) /\ w # <<>>
    BY <1>4, <2>1 DEF RenderView
  <2>3. PICK f \in Frame: f = Rendering(v, Wanted(w, raw)) /\ f.kind = "view" /\ ~IsPlate(f)
    BY <2>2, RenderingIs
  <2>4. stack \in Seq(Frame) /\ Alive(stack) /\ (stack # <<>> /\ IsPlate(Last(stack)) => Last(stack).live)
    BY <2>1 DEF Types, StackTyped, Phase, Top
  <2>5. Append(stack, f) \in Seq(Frame) /\ Alive(Append(stack, f)) /\ Last(Append(stack, f)) = f
    BY <2>4, AlivePush, AppendIs
  <2>6. \E ps: Begin(ps, Len(plate) + 1, Append(stack, f))
    BY <1>4, <2>2, <2>3 DEF RenderView
  <2>7. Len(plate) + 1 \in Nat
    BY DEF Types
  <2> QED
    BY <2>1, <2>3, <2>5, <2>6, <2>7, PhaseBegin
<1>5. ASSUME NEW n \in Name, Insert(n) \/ InsertInTemplate(n) PROVE Phase'
  <2>1. EngineRender(n) /\ mode = "run" /\ (stack = <<>> \/ (InPlate /\ Top.live))
    BY <1>5 DEF Insert, InsertInTemplate, InScript, InTemplate, Calls
  <2>2. PICK p \in DOMAIN plate': plate' \in Seq(Plate) /\ Begin(plate', p, stack)
    BY <2>1, EngineRenderIs
  <2>3. p \in Nat
    BY <2>2
  <2>4. stack \in Seq(Frame) /\ Alive(stack) /\ (stack # <<>> /\ IsPlate(Last(stack)) => Last(stack).live)
    BY <2>1 DEF Types, StackTyped, Phase, Top
  <2> QED
    BY <2>1, <2>2, <2>3, <2>4, PhaseBegin
<1>6. ASSUME NEW n \in Name, SetLayout(n) PROVE Phase'
  BY <1>6, PhaseSame DEF SetLayout
<1>7. CASE InsertWithoutEngine \/ WrapWithoutEngine
  BY <1>7, PhaseDead DEF InsertWithoutEngine, WrapWithoutEngine
<1>8. ASSUME NEW f \in PlateFrame, f.live = Top.live, NEW t \in Text, Calls, Prints(f, t), mode' = mode, ret' = ret
      PROVE  Phase'
  <2>1. Heard(f, t) \in PlateFrame /\ Heard(f, t).live = Top.live
    BY <1>8, HeardIs
  <2> QED
    BY <1>8, <2>1, PhaseTop DEF Prints, Calls, InTemplate
<1>9. CASE Say
  <2>1. InPlate
    BY <1>9 DEF Say, Calls, InTemplate
  <2>2. <<Me.name>> \in Text
    BY <2>1, TopIs, TextIs DEF Plate
  <2> QED
    BY <1>8, <1>9, <2>1, <2>2, TopIs DEF Say
<1>10. CASE GetContent
  <2> DEFINE f == [Top EXCEPT !.told = @ \/ Top.open = <<>>]
             t == IF Me.content = None THEN <<Missing>> ELSE Me.content
  <2>1. InPlate /\ Calls /\ Prints(f, t) /\ mode' = mode /\ ret' = ret
    BY <1>10 DEF GetContent, Calls, InTemplate
  <2>2. t \in Text
    BY <2>1, TopIs, TextIs DEF Plate, Maybe
  <2>3. f \in PlateFrame /\ f.live = Top.live
    BY <2>1, TopIs DEF PlateFrame
  <2> HIDE DEF f, t
  <2> QED
    BY <1>8, <2>1, <2>2, <2>3
<1>11. ASSUME NEW t \in Section, GetSection(t) PROVE Phase'
  <2>1. InPlate
    BY <1>11 DEF GetSection, Calls, InTemplate
  <2>2. Me.text[t] \in Text
    BY <1>11, <2>1, TopIs DEF Plate, Maybe, GetSection
  <2> QED
    BY <1>8, <1>11, <2>1, <2>2, TopIs DEF GetSection
<1>12. ASSUME NEW kind \in {"section", "style"}, Open(kind), Calls, mode' = mode, ret' = ret PROVE Phase'
  <2>1. InPlate /\ mode = "run" /\ Again(Opened(Top, kind))
    BY <1>12 DEF Open, Opened, Calls, InTemplate
  <2>2. Opened(Top, kind) \in PlateFrame /\ Opened(Top, kind).live = Top.live
    BY <2>1, TopIs, OpenedIs
  <2> QED
    BY <1>12, <2>1, <2>2, PhaseTop
<1>13. ASSUME NEW kind \in {"section", "style"}, Close(kind), Calls, mode' \in {"run", "throw"}, ret' = ret PROVE Phase'
  <2>1. InPlate /\ mode = "run" /\ ret = None
    BY <1>13 DEF Calls, InTemplate
  <2>2. CASE Top.open # <<>> /\ Last(Top.open).kind = kind
    <3>1. Again(Closed(Top))
      BY <1>13, <2>2 DEF Close, Closed
    <3>2. Closed(Top) \in PlateFrame /\ Closed(Top).live = Top.live
      BY <2>1, <2>2, TopIs, ClosedIs
    <3> QED
      BY <1>13, <2>1, <3>1, <3>2, PhaseTop
  <2>3. CASE ~(Top.open # <<>> /\ Last(Top.open).kind = kind)
    <3>1. stack' = stack
      BY <1>13, <2>3 DEF Close
    <3> QED
      BY <1>13, <2>1, <3>1, PhaseSame
  <2> QED
    BY <2>2, <2>3
<1>14. ASSUME NEW t \in Section \cup {Content}, NEW push \in BOOLEAN, Start(t, push) PROVE Phase'
  <2>1. CASE t = Content \/ Me.section # None
    <3>1. stack' = stack /\ ret' = ret /\ mode = "run" /\ ret = None /\ mode' = "throw"
      BY <1>14, <2>1 DEF Start, Calls, InTemplate
    <3> QED
      BY <3>1, PhaseSame
  <2>2. CASE ~(t = Content \/ Me.section # None)
    <3>1. Open("section") /\ Calls /\ mode' = mode /\ ret' = ret
      BY <1>14, <2>2 DEF Start
    <3> QED
      BY <1>12, <3>1
  <2> QED
    BY <2>1, <2>2
<1>15. CASE Stop
  <2>1. Close("section") /\ Calls /\ mode' \in {"run", "throw"} /\ ret' = ret
    BY <1>15 DEF Stop, Calls, InTemplate
  <2> QED
    BY <1>13, <2>1
<1>16. CASE StopRefused \/ StyleEndRefused
  BY <1>16, PhaseSame DEF StopRefused, StyleEndRefused, Throw, Calls, InTemplate
<1>17. CASE StyleBegin
  BY <1>12, <1>17 DEF StyleBegin
<1>18. CASE StyleEnd
  BY <1>13, <1>18 DEF StyleEnd
<1>19. CASE Call
  BY <1>2, <1>3, <1>4, <1>5, <1>6, <1>7, <1>9, <1>10, <1>11, <1>14, <1>15, <1>16, <1>17, <1>18, <1>19 DEF Call
<1>20. CASE TemplateEnds
  <2>1. InPlate /\ mode = "run" /\ mode' = "run"
    BY <1>20 DEF TemplateEnds, InTemplate
  <2>2. PICK g \in PlateFrame: g = [Top EXCEPT !.live = FALSE] /\ ~g.live
    BY <2>1, EndedIs
  <2>3. g \in Frame /\ IsPlate(g)
    BY DEF Frame, PlateFrame, IsPlate
  <2>4. stack' = Append(Below, g)
    BY <1>20, <2>2 DEF TemplateEnds
  <2>5. Alive(stack') /\ Last(stack') = g /\ stack' # <<>>
    BY <2>1, <2>3, <2>4, BelowAlive, AlivePush
  <2>6. ret' # None
    <3>1. ob = <<>> \/ Last(ob) \in Text
      BY FrontIs DEF Types
    <3>2. ret' \in Text
      BY <1>20, <3>1, TextIs DEF TemplateEnds
    <3> QED
      BY <3>2, TextIs
  <2> QED
    BY <2>1, <2>2, <2>3, <2>5, <2>6 DEF Phase
<1>21. CASE Wrap
  <2>1. InPlate /\ mode = "run" /\ Layout \in DOMAIN plate /\ Layout \in Nat
    BY <1>21, LayoutIs DEF Wrap, Types
  <2>2. \E ps: Begin(ps, Layout, Below)
    BY <1>21 DEF Wrap
  <2> QED
    BY <2>1, <2>2, BelowAlive, PhaseBegin
<1>22. CASE Deliver
  <2>1. InPlate /\ mode = "run" /\ ret \in Text /\ ret' = None
    BY <1>22 DEF Deliver, Types, Maybe
  <2>2. CASE Below = <<>>
    BY <1>22, <2>1, <2>2 DEF Deliver, Phase, Alive
  <2>3. CASE Below # <<>>
    <3>1. stack' = Append(Front(Below), Heard(Last(Below), ret)) /\ IsPlate(Last(Below))
      BY <1>22, <2>3 DEF Deliver, IsPlate
    <3> QED
      BY <2>1, <2>3, <3>1, BelowAlive, PhaseHeard
  <2> QED
    BY <2>2, <2>3
<1>23. CASE ViewEnds
  <2>1. InPlate /\ mode = "run" /\ ret \in Text /\ ret' = None /\ Below # <<>> /\ Last(Below).kind = "view"
    BY <1>23 DEF ViewEnds, Types, Maybe
  <2>2. PICK r: r = Front(Below)
    OBVIOUS
  <2>3. StackTyped(r, plate) /\ (r # <<>> => IsPlate(Last(r)))
    BY <2>1, <2>2, BelowTyped
  <2>4. Alive(r) /\ (r # <<>> /\ IsPlate(Last(r)) => Last(r).live)
    BY <2>1, <2>2, BelowAlive, AliveIs
  <2>5. CASE r = <<>>
    <3>1. stack' = <<>>
      BY <1>23, <2>2, <2>5 DEF ViewEnds
    <3> QED
      BY <2>1, <3>1 DEF Phase, Alive
  <2>6. CASE r # <<>>
    <3>1. stack' = Append(Front(r), Heard(Last(r), ret))
      BY <1>23, <2>2, <2>6 DEF ViewEnds
    <3> QED
      BY <2>1, <2>3, <2>4, <2>6, <3>1, PhaseHeard
  <2> QED
    BY <2>5, <2>6
<1>24. CASE TemplateThrows
  BY <1>24, PhaseSame DEF TemplateThrows, InTemplate
<1>25. CASE Catch
  <2>1. mode = "throw" /\ mode' = "run" /\ stack' = stack /\ ret' = ret /\ InPlate /\ Top.live
    BY <1>25 DEF Catch
  <2>2. ret = None /\ Alive(stack)
    BY <2>1 DEF Phase
  <2>3. Top = Last(stack) /\ IsPlate(Top)
    BY <2>1, TopIs DEF Top
  <2> QED
    BY <2>1, <2>2, <2>3 DEF Phase
<1>26. CASE Unwind
  <2>1. InPlate /\ mode = "throw" /\ ret' = None
    BY <1>26 DEF Unwind, Phase
  <2>2. CASE mode' = "dead"
    BY <2>2, PhaseDead
  <2>3. CASE stack' = Below /\ mode' = IF Below = <<>> THEN "run" ELSE "throw"
    BY <2>1, <2>3, BelowAlive DEF Phase
  <2>4. CASE Layout # None /\ Me.layout # None /\ stack' = Append(Below, [Running(Layout) EXCEPT !.live = FALSE]) /\ mode' = mode
    <3> DEFINE g == [Running(Layout) EXCEPT !.live = FALSE]
    <3>1. Layout \in Nat
      BY <2>1, <2>4, LayoutIs DEF Types
    <3>2. g \in PlateFrame
      BY <3>1, RunningIs DEF Types
    <3> HIDE DEF g
    <3>3. g \in Frame
      BY <3>2 DEF Frame
    <3>4. Alive(Append(Below, g))
      BY <2>1, <3>3, BelowAlive, AlivePush
    <3> QED
      BY <2>1, <2>4, <3>4 DEF Phase, g
  <2> QED
    BY <1>26, <2>2, <2>3, <2>4 DEF Unwind
<1>27. CASE UnwindView
  <2>1. mode = "throw" /\ stack # <<>> /\ ret' = None /\ stack' = Front(stack) /\ stack \in Seq(Frame) /\ Alive(stack)
        /\ mode' = IF Below = <<>> THEN "run" ELSE "throw"
    BY <1>27 DEF UnwindView, Phase, Below, Types, StackTyped
  <2>2. Alive(Front(stack))
    BY <2>1, AliveIs
  <2> QED
    BY <2>1, <2>2 DEF Phase, Below
<1>28. CASE Return
  BY <1>7, <1>20, <1>21, <1>22, <1>23, <1>24, <1>25, <1>26, <1>27, <1>28 DEF Return
<1> QED
  BY <1>1, <1>19, <1>28 DEF PlatesNext
-----------------------------------------------------------------------------
(* The buffers stay in order.                                              *)

LEMMA TowerIs ==
  /\ \A s, o: Tower(s, o) /\ ~Flat(s) => Settled(s, o)
  /\ \A s, o: Settled(s, o) /\ ~Flat(s) => Tower(s, o)
  /\ \A s, o: Tower(s, o) /\ Flat(s) => Settled(Front(s), o)
BY DEF Tower

LEMMA TowerFlat ==
  ASSUME NEW s \in Seq(Frame), NEW o, Settled(s, o), NEW g \in Frame, IsPlate(g), ~g.live
  PROVE  Tower(Append(s, g), o)
<1>1. PICK n \in Nat: n = Len(s)
  OBVIOUS
<1>2. PICK a \in Seq(Frame): a = Append(s, g)
  BY AppendIs
<1>3. Len(a) = n + 1 /\ a[n + 1] = g /\ (\A k \in 1..n: a[k] = s[k]) /\ a # <<>> /\ Last(a) = g
  BY <1>1, <1>2, AppendIs DEF Last
<1>4. Front(a) = s
  <2>1. Front(a) \in Seq(Frame) /\ Len(Front(a)) = n /\ \A k \in 1..n: Front(a)[k] = a[k]
    BY <1>1, <1>3, FrontIs
  <2>2. \A k \in 1..Len(Front(a)): Front(a)[k] = s[k]
    BY <1>3, <2>1
  <2> QED
    BY <1>1, <2>1, <2>2, SeqEqual
<1> QED
  BY <1>2, <1>3, <1>4 DEF Tower, Flat

LEMMA SettledLive ==
  ASSUME NEW s \in Seq(Frame), NEW o, Settled(s, o)
  PROVE  ~Flat(s)
<1> SUFFICES ASSUME s # <<>>, IsPlate(Last(s)) PROVE Last(s).live
  BY DEF Flat
<1>1. PICK n \in Nat: n = Len(s) /\ n > 0 /\ DOMAIN s = 1..n
  BY EmptySeq
<1>2. Last(s) = s[n] /\ n \in DOMAIN s
  BY <1>1 DEF Last
<1> QED
  BY <1>2 DEF Settled

LEMMA TowerBegin ==
  ASSUME Types, NEW ps \in Seq(Plate), NEW p \in DOMAIN ps, NEW frames \in Seq(Frame), Settled(frames, ob),
         Begin(ps, p, frames), mode' # "dead"
  PROVE  Tower(stack', ob') /\ Fewer(stack', frames)
<1> DEFINE f == Running(p)
           g == [f EXCEPT !.live = FALSE]
<1>1. p \in Nat /\ ps[p] \in Plate /\ ob \in Seq(Text)
  BY ElementOfSeq DEF Types
<1>2. /\ f \in PlateFrame /\ IsPlate(f) /\ f.live = TRUE /\ f.base = Len(ob) /\ f.open = <<>>
      /\ g \in PlateFrame /\ IsPlate(g) /\ g.live = FALSE /\ g.open = <<>>
  <2>1. /\ f \in PlateFrame /\ IsPlate(f) /\ f.live = TRUE /\ f.base = Len(ob) /\ f.open = <<>>
        /\ g \in PlateFrame /\ IsPlate(g) /\ g.live = FALSE
    BY <1>1, RunningIs
  <2>2. g.open = <<>>
    BY DEF Running
  <2> QED
    BY <2>1, <2>2
<1> HIDE DEF f, g
<1>3. f \in Frame /\ g \in Frame
  BY <1>2 DEF Frame
<1>4. CASE BeginFlat(ps, p, frames)
  <2>1. stack' = Append(frames, g) /\ ob' = ob
    BY <1>4 DEF BeginFlat, g, f
  <2> QED
    BY <1>2, <1>3, <2>1, TowerFlat, FewerPush
<1>5. CASE BeginRuns(ps, p, frames)
  <2>1. stack' = Append(frames, f) /\ ob' = Append(ob, <<ps[p].name>>)
    BY <1>5 DEF BeginRuns, f
  <2>2. <<ps[p].name>> \in Text
    BY <1>1, TextIs DEF Plate
  <2>3. PICK c \in Nat: c = Len(ob)
    BY <1>1
  <2>4. ob' \in Seq(Text) /\ Len(ob') = c + 1 /\ \A k \in 1..c: ob'[k] = ob[k]
    BY <1>1, <2>1, <2>2, <2>3, AppendIs
  <2>5. Depth(f) = c + 1
    BY <1>2, <2>3 DEF Depth
  <2>6. \A k \in DOMAIN f.open: f.open[k].text = ob'[f.base + 1 + k]
    BY <1>2
  <2>7. Settled(stack', ob')
    BY <1>1, <1>2, <2>1, <2>3, <2>4, <2>5, <2>6, SettledPush
  <2>8. stack' \in Seq(Frame)
    BY <1>3, <2>1, AppendIs
  <2>9. Tower(stack', ob')
    BY <2>7, <2>8, SettledLive, TowerIs
  <2> QED
    BY <1>2, <1>3, <2>1, <2>9, FewerPush
<1> QED
  BY <1>4, <1>5, BeginIs DEF BeginDies

\* The template on top prints.
LEMMA SettledEcho ==
  ASSUME NEW s, NEW ps, StackTyped(s, ps), s # <<>>, IsPlate(Last(s)), NEW o \in Seq(Text), Settled(s, o),
         NEW f \in PlateFrame, f.live, f.base = Last(s).base, f.open = Last(s).open, f.of = Last(s).of, NEW t \in Text
  PROVE  LET z == Append(Front(s), Heard(f, t)) IN Tower(z, Echo(o, t)) /\ Fewer(z, s)
<1>0. s \in Seq(Frame)
  BY DEF StackTyped
<1>1. PICK n \in Nat: n = Len(s) /\ s \in Seq(Frame) /\ DOMAIN s = 1..n /\ n > 0 /\ Last(s) = s[n] /\ Last(s) \in Frame
  BY <1>0, EmptySeq, FrontIs
<1>2. PICK h \in PlateFrame: h = Last(s)
  BY <1>1, FrameIs
<1>3. PICK b \in Seq(Block), m \in Nat: b = f.open /\ m = f.base /\ b = h.open /\ m = h.base
  BY <1>2 DEF PlateFrame
<1>4. PICK c \in Nat: c = Len(b)
  OBVIOUS
<1>5. Len(o) = m + 1 + c
  <2>1. Len(o) = Depth(Last(s))
    BY SettledPop
  <2> QED
    BY <1>2, <1>3, <1>4, <2>1 DEF Depth
<1>6. \A k \in 1..c: b[k].text = o[m + 1 + k]
  <2>1. \A k \in DOMAIN s[n].open: s[n].open[k].text = o[s[n].base + 1 + k]
    <3>1. n \in DOMAIN s /\ IsPlate(s[n])
      BY <1>1
    <3> QED
      BY <3>1 DEF Settled
  <2> QED
    BY <1>1, <1>2, <1>3, <1>4, <2>1
<1>7. PICK g \in PlateFrame: /\ g = Heard(f, t) /\ g.of = f.of /\ g.base = m /\ g.live
                             /\ Len(g.open) = c
                             /\ \A k \in 1..c: /\ g.open[k].kind = b[k].kind
                                               /\ g.open[k].text = IF k = c THEN b[k].text \o t ELSE b[k].text
  BY <1>3, <1>4, HeardIs
<1>8. PICK u \in Seq(Text): /\ u = Echo(o, t) /\ Len(u) = m + 1 + c
                            /\ \A k \in 1..m + 1 + c: u[k] = IF k = m + 1 + c THEN o[k] \o t ELSE o[k]
  <2>1. /\ Echo(o, t) \in Seq(Text) /\ Len(Echo(o, t)) = Len(o)
        /\ \A k \in 1..Len(o): Echo(o, t)[k] = IF k = Len(o) THEN o[k] \o t ELSE o[k]
    BY EchoIs
  <2> QED
    BY ONLY <1>5, <2>1
<1>9. DOMAIN g.open = 1..c
  BY <1>4, <1>7 DEF PlateFrame
<1>10. \A k \in DOMAIN g.open: g.open[k].text = u[g.base + 1 + k]
  <2> SUFFICES ASSUME NEW k \in 1..c PROVE g.open[k].text = u[m + 1 + k]
    BY <1>7, <1>9
  <2>1. m + 1 + k \in 1..m + 1 + c /\ (m + 1 + k = m + 1 + c <=> k = c)
    OBVIOUS
  <2>2. u[m + 1 + k] = IF k = c THEN o[m + 1 + k] \o t ELSE o[m + 1 + k]
    BY ONLY <1>8, <2>1
  <2>3. g.open[k].text = IF k = c THEN b[k].text \o t ELSE b[k].text
    BY <1>7
  <2>4. b[k].text = o[m + 1 + k]
    BY <1>6
  <2> QED
    BY ONLY <2>2, <2>3, <2>4
<1>11. Depth(g) = Len(u)
  BY <1>7, <1>8 DEF Depth
<1>12. \A k \in 1..g.base: u[k] = o[k]
  BY <1>7, <1>8
<1>13. Settled(Append(Front(s), g), u)
  BY <1>2, <1>3, <1>7, <1>10, <1>11, <1>12, SettledTop, ZenonT(60)
<1>14. g \in Frame /\ Front(s) \in Seq(Frame)
  BY <1>1, FrontIs DEF Frame
<1>15. Tower(Append(Front(s), g), u)
  BY <1>13, <1>14, SettledLive, AppendIs, TowerIs
<1>16. Fewer(Append(Front(s), g), s)
  <2>1. \A k \in DOMAIN g.open: g.open[k].kind = "section" =>
           k \in DOMAIN Last(s).open /\ Last(s).open[k].kind = "section"
    BY <1>2, <1>3, <1>4, <1>7, <1>9
  <2>2. g.of = Last(s).of
    BY <1>7
  <2> QED
    BY <1>1, <2>1, <2>2, FewerTop
<1> QED
  BY <1>7, <1>8, <1>15, <1>16

LEMMA SettledOpen ==
  ASSUME Types, InPlate, Settled(stack, ob), NEW kind \in {"section", "style"}, Open(kind)
  PROVE  Tower(stack', ob')
<1>1. /\ stack # <<>> /\ Top \in PlateFrame /\ IsPlate(Top) /\ Top = Last(stack) /\ Below = Front(stack)
      /\ Below \in Seq(Frame) /\ StackTyped(stack, plate) /\ ob \in Seq(Text)
  BY TopIs DEF Types, Top
<1>2. PICK b \in Seq(Block), m \in Nat: b = Top.open /\ m = Top.base
  BY <1>1 DEF PlateFrame
<1>3. PICK c \in Nat: c = Len(b)
  OBVIOUS
<1>4. Top.live /\ Len(ob) = m + 1 + c
  BY <1>1, <1>2, <1>3, SettledPop DEF Depth
<1>5. \A k \in 1..c: b[k].text = ob[m + 1 + k]
  <2>1. Len(stack) \in DOMAIN stack /\ stack[Len(stack)] = Top
    BY <1>1, TopIs
  <2> QED
    BY <1>1, <1>2, <1>3, <2>1 DEF Settled
<1>6. PICK g \in PlateFrame: /\ g = Opened(Top, kind) /\ g.base = m /\ g.live
                             /\ Len(g.open) = c + 1 /\ g.open[c + 1].text = <<>>
                             /\ \A k \in 1..c: g.open[k] = b[k]
  <2>1. Top \in PlateFrame
    BY <1>1
  <2>2. LET g == Opened(Top, kind)
            n == Len(Top.open) IN
         /\ g \in PlateFrame /\ g.of = Top.of /\ g.base = Top.base /\ g.live = Top.live /\ g.told = Top.told
         /\ Len(g.open) = n + 1 /\ n \in Nat
         /\ g.open[n + 1].kind = kind /\ g.open[n + 1].text = <<>>
         /\ \A k \in 1..n: g.open[k] = Top.open[k]
    BY <2>1, OpenedIs
  <2> QED
    BY ONLY <1>2, <1>3, <1>4, <2>2
<1>7. PICK u \in Seq(Text): u = ob' /\ Len(u) = m + 1 + c + 1 /\ u[m + 1 + c + 1] = <<>> /\ \A k \in 1..m + 1 + c: u[k] = ob[k]
  <2>1. ob' = Append(ob, <<>>)
    BY DEF Open
  <2>2. /\ ob' \in Seq(Text) /\ Len(ob') = Len(ob) + 1 /\ ob'[Len(ob) + 1] = <<>>
        /\ \A k \in 1..Len(ob): ob'[k] = ob[k]
    BY <1>1, <2>1, TextIs, AppendIs
  <2>3. PICK d \in Nat: d = m + 1 + c /\ d = Len(ob)
    BY <1>3, <1>4
  <2> QED
    BY ONLY <2>2, <2>3
<1>8. DOMAIN g.open = 1..c + 1
  BY <1>6 DEF PlateFrame
<1>9. ASSUME NEW k \in DOMAIN g.open PROVE g.open[k].text = u[g.base + 1 + k]
  <2>1. CASE k = c + 1
    <3>1. m + 1 + k = m + 1 + c + 1
      BY <2>1
    <3> QED
      BY <1>6, <1>7, <2>1, <3>1
  <2>2. CASE k \in 1..c
    <3>1. m + 1 + k \in 1..m + 1 + c
      BY <2>2
    <3> QED
      BY <1>5, <1>6, <1>7, <2>2, <3>1
  <2> QED
    BY <1>8, <1>9, <2>1, <2>2
<1>10. Depth(g) = Len(u)
  BY <1>6, <1>7 DEF Depth
<1>11. \A k \in 1..g.base: u[k] = ob[k]
  BY <1>6, <1>7
<1>12. Settled(Append(Below, g), u)
  <2>1. g.base = Last(stack).base
    BY <1>1, <1>2, <1>6
  <2>2. /\ StackTyped(stack, plate) /\ stack # <<>> /\ IsPlate(Last(stack)) /\ ob \in Seq(Text) /\ Settled(stack, ob)
        /\ g \in PlateFrame /\ g.live /\ u \in Seq(Text) /\ Below = Front(stack)
    BY <1>1, <1>6, <1>7
  <2> QED
    BY ONLY <1>9, <1>10, <1>11, <2>1, <2>2, SettledTop
<1>13. g \in Frame
  BY DEF Frame
<1> QED
  BY <1>1, <1>6, <1>7, <1>12, <1>13, SettledLive, AppendIs, TowerIs DEF Open, Opened, Again

LEMMA SettledClose ==
  ASSUME Types, InPlate, Settled(stack, ob), NEW kind \in {"section", "style"}, Close(kind), "untidy" \notin odd'
  PROVE  /\ Tower(stack', ob') /\ Fewer(stack', stack)
         /\ Top.open # <<>> /\ Last(Top.open).kind = kind /\ Last(Top.open).text = Last(ob) /\ ob # <<>>
         /\ Again(Closed(Top))
<1>1. /\ stack # <<>> /\ Top \in PlateFrame /\ IsPlate(Top) /\ Top = Last(stack) /\ Below = Front(stack)
      /\ Below \in Seq(Frame) /\ StackTyped(stack, plate) /\ ob \in Seq(Text) /\ stack \in Seq(Frame)
  BY TopIs DEF Types, Top
<1>2. Top.open # <<>> /\ Last(Top.open).kind = kind /\ Again(Closed(Top))
  BY DEF Close, Closed, Note
<1>3. PICK b \in Seq(Block), m \in Nat: b = Top.open /\ m = Top.base
  BY <1>1 DEF PlateFrame
<1>4. PICK c \in Nat: c = Len(b) /\ c > 0 /\ Last(b) = b[c]
  BY <1>2, <1>3, EmptySeq DEF Last
<1>5. Top.live /\ Len(ob) = m + 1 + c
  BY <1>1, <1>3, <1>4, SettledPop DEF Depth
<1>6. \A k \in 1..c: b[k].text = ob[m + 1 + k]
  <2>1. Len(stack) \in DOMAIN stack /\ stack[Len(stack)] = Top
    BY <1>1, TopIs
  <2> QED
    BY <1>1, <1>3, <1>4, <2>1 DEF Settled
<1>7. ob # <<>> /\ Last(ob) = ob[m + 1 + c]
  BY <1>1, <1>5 DEF Last
<1>8. PICK g \in PlateFrame: /\ g = Closed(Top) /\ g.base = m /\ g.live /\ g.of = Top.of
                             /\ Len(g.open) = c - 1
                             /\ \A k \in 1..c - 1: g.open[k] = b[k]
  BY <1>1, <1>2, <1>3, <1>4, <1>5, ClosedIs, ZenonT(60)
<1>9. PICK u \in Seq(Text): u = ob' /\ Len(u) = m + c /\ \A k \in 1..m + c: u[k] = ob[k]
  <2>1. ob' = Front(ob)
    BY <1>7 DEF Close
  <2>2. ob' \in Seq(Text) /\ Len(ob') = Len(ob) - 1 /\ \A k \in 1..Len(ob) - 1: ob'[k] = ob[k]
    BY <1>1, <1>7, <2>1, FrontIs
  <2>3. PICK d \in Nat: d = m + c /\ Len(ob) = d + 1
    BY <1>4, <1>5
  <2>4. Len(ob) - 1 = d
    BY <2>3
  <2> QED
    BY ONLY <2>2, <2>3, <2>4
<1>10. DOMAIN g.open = 1..c - 1
  BY <1>4, <1>8 DEF PlateFrame
<1>11. ASSUME NEW k \in DOMAIN g.open PROVE g.open[k].text = u[g.base + 1 + k]
  <2>1. m + 1 + k \in 1..m + c /\ k \in 1..c
    BY <1>4, <1>10
  <2> QED
    BY <1>6, <1>8, <1>9, <1>10, <2>1
<1>12. Depth(g) = Len(u)
  BY <1>4, <1>8, <1>9 DEF Depth
<1>13. \A k \in 1..g.base: u[k] = ob[k]
  BY <1>4, <1>8, <1>9
<1>14. Settled(Append(Below, g), u)
  <2>1. g.base = Last(stack).base
    BY <1>1, <1>3, <1>8
  <2>2. /\ StackTyped(stack, plate) /\ stack # <<>> /\ IsPlate(Last(stack)) /\ ob \in Seq(Text) /\ Settled(stack, ob)
        /\ g \in PlateFrame /\ g.live /\ u \in Seq(Text) /\ Below = Front(stack)
    BY <1>1, <1>8, <1>9
  <2> QED
    BY ONLY <1>11, <1>12, <1>13, <2>1, <2>2, SettledTop
<1>15. g \in Frame
  BY DEF Frame
<1>16. Tower(stack', ob')
  BY <1>1, <1>2, <1>8, <1>9, <1>14, <1>15, SettledLive, AppendIs, TowerIs DEF Again
<1>17. Fewer(stack', stack)
  <2>1. \A k \in DOMAIN g.open: g.open[k].kind = "section" =>
           k \in DOMAIN Top.open /\ Top.open[k].kind = "section"
    <3>1. DOMAIN b = 1..c
      BY <1>4
    <3> QED
      BY <1>3, <1>4, <1>8, <1>10, <3>1, SMTT(40)
  <2> QED
    BY <1>1, <1>2, <1>8, <2>1, FewerTop DEF Again
<1> QED
  BY <1>2, <1>3, <1>4, <1>6, <1>7, <1>16, <1>17
-----------------------------------------------------------------------------
(* Buffers and sections, action by action.                                 *)

LEMMA NextIs == ASSUME PlatesNext PROVE mode # "dead" /\ odd \subseteq odd'
<1>1. ASSUME NEW v \in View, NEW n \in Name, PushLevel(v, n) PROVE mode # "dead" /\ odd \subseteq odd'
  BY <1>1 DEF PushLevel, Asks, InTemplate, InScript
<1>2. ASSUME NEW v \in View, NEW l \in ViewLists, RenderWithoutEngine(v, l) \/ RenderNothing(v, l)
      PROVE  mode # "dead" /\ odd \subseteq odd'
  BY <1>2 DEF RenderWithoutEngine, RenderNothing, Asking, Asks, InTemplate, InScript
<1>3. ASSUME NEW v \in View, NEW l \in ViewLists, NEW raw \in BOOLEAN, RenderView(v, l, raw)
      PROVE  mode # "dead" /\ odd \subseteq odd'
  <2>1. mode # "dead"
    BY <1>3 DEF RenderView, Asking, Asks, InTemplate, InScript
  <2>2. odd \subseteq odd'
    BY <1>3 DEF RenderView
  <2> QED
    BY <2>1, <2>2
<1>4. ASSUME NEW n \in Name, Insert(n) \/ InsertInTemplate(n) \/ SetLayout(n) PROVE mode # "dead" /\ odd \subseteq odd'
  BY <1>4 DEF Insert, InsertInTemplate, SetLayout, Note, Calls, InTemplate, InScript
<1>5. CASE InsertWithoutEngine \/ Say \/ GetContent
  BY <1>5 DEF InsertWithoutEngine, Say, GetContent, Calls, InTemplate
<1>6. ASSUME NEW t \in Section, GetSection(t) PROVE mode # "dead" /\ odd \subseteq odd'
  BY <1>6 DEF GetSection, Calls, InTemplate
<1>7. ASSUME NEW t \in Section \cup {Content}, NEW push \in BOOLEAN, Start(t, push) PROVE mode # "dead" /\ odd \subseteq odd'
  BY <1>7 DEF Start, Calls, InTemplate
<1>8. CASE Stop \/ StyleEnd
  <2>1. odd \subseteq odd'
    BY <1>8 DEF Stop, StyleEnd, Close, Note
  <2> QED
    BY <1>8, <2>1 DEF Stop, StyleEnd, Calls, InTemplate
<1>9. CASE StopRefused \/ StyleBegin \/ StyleEndRefused
  BY <1>9 DEF StopRefused, StyleBegin, StyleEndRefused, Throw, Calls, InTemplate
<1>10. CASE TemplateEnds
  BY <1>10 DEF TemplateEnds, InTemplate
<1>11. CASE Wrap \/ WrapWithoutEngine \/ Deliver \/ ViewEnds
  BY <1>11 DEF Wrap, WrapWithoutEngine, Deliver, ViewEnds
<1>12. CASE TemplateThrows \/ Catch \/ UnwindView
  BY <1>12 DEF TemplateThrows, Catch, UnwindView, InTemplate
<1>13. CASE Unwind
  BY <1>13 DEF Unwind
<1> QED
  BY <1>1, <1>2, <1>3, <1>4, <1>5, <1>6, <1>7, <1>8, <1>9, <1>10, <1>11, <1>12, <1>13 DEF PlatesNext, Call, Return

LEMMA OneBlockSame ==
  ASSUME Types, OneBlock(plate, stack), Fewer(stack', stack), plate' = plate
  PROVE  OneBlock(plate', stack')
BY OneBlockStays DEF Types

LEMMA NeatView ==
  ASSUME Types, NEW v \in View, NEW l \in ViewLists, NEW raw \in BOOLEAN, RenderView(v, l, raw),
         Settled(stack, ob), OneBlock(plate, stack), mode' # "dead"
  PROVE  Tower(stack', ob') /\ OneBlock(plate', stack')
<1>1. /\ Levels(v, l) \in Seq(Name)
      /\ mode = "run" /\ (stack = <<>> \/ (InPlate /\ Top.live /\ ret = None))
  BY AskingTyped DEF RenderView
<1>2. PICK w \in Seq(Name): w = Levels(v, l) /\ w # <<>>
  BY <1>1 DEF RenderView
<1>3. PICK f \in Frame: f = Rendering(v, Wanted(w, raw)) /\ f.kind = "view" /\ ~IsPlate(f)
  BY <1>2, RenderingIs
<1>4. PICK ps \in Seq(Plate): /\ ps = Plates(w, raw) /\ Len(ps) = Len(w)
                              /\ \A i \in 1..Len(w): ps[i].section = None /\ Blank(ps[i])
  BY PlatesAre DEF Blank
<1>5. PICK b \in Nat, n \in Nat: b = Len(plate) /\ plate \in Seq(Plate) /\ DOMAIN plate = 1..b /\ n = Len(w) /\ n > 0
  BY <1>2, EmptySeq DEF Types
<1>6. PICK qs \in Seq(Plate): /\ qs = plate \o ps /\ Len(qs) = b + n
                              /\ (\A i \in 1..b: qs[i] = plate[i]) /\ \A i \in b + 1..b + n: qs[i] = ps[i - b]
  <2>1. plate \in Seq(Plate)
    BY <1>5
  <2>2. PICK z: z = plate \o ps
    OBVIOUS
  <2>3. /\ z \in Seq(Plate) /\ Len(z) = Len(plate) + Len(ps)
        /\ \A i \in 1 .. Len(plate): z[i] = plate[i]
        /\ \A i \in Len(plate) + 1 .. Len(plate) + Len(ps): z[i] = ps[i - Len(plate)]
    BY ONLY <2>1, <2>2, ps \in Seq(Plate), ConcatProperties
  <2>4. /\ z \in Seq(Plate) /\ Len(z) = b + n
        /\ \A i \in 1 .. b: z[i] = plate[i]
        /\ \A i \in b + 1 .. b + n: z[i] = ps[i - b]
    BY ONLY <1>4, <1>5, <2>3
  <2> QED
    BY ONLY <1>4, <2>2, <2>4
<1>7. DOMAIN qs = 1..b + n
  BY <1>6
<1>8. plate' = qs /\ Begin(qs, b + 1, Append(stack, f)) /\ b + 1 \in DOMAIN qs
  BY <1>2, <1>3, <1>4, <1>5, <1>6, <1>7 DEF RenderView
<1>9. stack \in Seq(Frame) /\ (stack = <<>> \/ IsPlate(Last(stack))) /\ ob \in Seq(Text)
  BY <1>1 DEF Types, StackTyped, InPlate, IsPlate, Top
<1>10. Settled(Append(stack, f), ob) /\ Append(stack, f) \in Seq(Frame) /\ Fewer(Append(stack, f), stack)
  BY <1>3, <1>9, SettledView, AppendIs, FewerPush
<1>11. Tower(stack', ob') /\ Fewer(stack', Append(stack, f))
  BY <1>8, <1>10, TowerBegin
<1>12. Fewer(stack', stack)
  BY <1>10, <1>11, FewerTrans
<1>13. ASSUME NEW p \in DOMAIN qs \ DOMAIN plate PROVE qs[p].section = None /\ Blank(qs[p])
  <2>1. p \in b + 1..b + n /\ p - b \in 1..n
    BY <1>5, <1>7
  <2> QED
    BY <1>4, <1>5, <1>6, <2>1
<1>14. DOMAIN plate \subseteq DOMAIN qs /\ \A p \in DOMAIN plate: qs[p] = plate[p]
  BY <1>5, <1>6, <1>7
<1>15. StackTyped(stack, plate)
  BY DEF Types
<1>16. OneBlock(qs, stack')
  BY <1>5, <1>12, <1>13, <1>14, <1>15, OneBlockStays
<1> QED
  BY <1>8, <1>11, <1>16

LEMMA NeatInsert ==
  ASSUME Types, NEW n \in Name, EngineRender(n), Settled(stack, ob), OneBlock(plate, stack), mode' # "dead"
  PROVE  Tower(stack', ob') /\ OneBlock(plate', stack')
<1>1. PICK p \in DOMAIN plate': /\ plate' \in Seq(Plate) /\ DOMAIN plate \subseteq DOMAIN plate'
                                /\ Begin(plate', p, stack) /\ \A k \in DOMAIN plate: plate'[k] = plate[k]
  BY EngineRenderIs
<1>2. stack \in Seq(Frame) /\ StackTyped(stack, plate) /\ plate \in Seq(Plate)
  BY DEF Types, StackTyped
<1>3. Tower(stack', ob') /\ Fewer(stack', stack)
  BY <1>1, <1>2, TowerBegin
<1>4. ASSUME NEW k \in DOMAIN plate' \ DOMAIN plate PROVE plate'[k].section = None /\ Blank(plate'[k])
  <2>1. CASE stored[n] = None
    <3>1. Len(plate') = Len(plate) + 1 /\ plate'[Len(plate) + 1] = NewPlate(n)
      BY <2>1, EngineRenderIs
    <3>2. k = Len(plate) + 1
      <4>1. PICK b \in Nat: b = Len(plate) /\ DOMAIN plate = 1..b
        BY <1>2
      <4>2. DOMAIN plate' = 1..b + 1
        BY <1>1, <3>1, <4>1
      <4> QED
        BY <1>4, <4>1, <4>2
    <3> QED
      BY <3>1, <3>2, NewPlateIs, ZenonT(60) DEF Blank
  <2>2. CASE stored[n] # None
    BY <1>4, <2>2, EngineRenderIs
  <2> QED
    BY <2>1, <2>2
<1> QED
  BY <1>1, <1>2, <1>3, <1>4, OneBlockStays

\* The plate of the template on top changes, but not its sections.
LEMMA OneBlockMe ==
  ASSUME Types, InPlate, NEW q \in Plate, SetMe(q), q.section = Me.section, q.text = Me.text,
         Fewer(stack', stack), OneBlock(plate, stack)
  PROVE  OneBlock(plate', stack')
<1>1. /\ plate' \in Seq(Plate) /\ DOMAIN plate' = DOMAIN plate
      /\ plate'[Top.of] = q /\ \A p \in DOMAIN plate: p # Top.of => plate'[p] = plate[p]
  BY SetMeIs
<1>2. plate \in Seq(Plate) /\ StackTyped(stack, plate) /\ Me = plate[Top.of]
  BY DEF Types, Me
<1>3. \A p \in DOMAIN plate: plate'[p].section = plate[p].section /\ plate'[p].text = plate[p].text
  BY <1>1, <1>2
<1> QED
  BY <1>1, <1>2, <1>3, OneBlockStays

LEMMA NeatStart ==
  ASSUME Types, NEW t \in Section \cup {Content}, NEW push \in BOOLEAN, Start(t, push),
         Settled(stack, ob), OneBlock(plate, stack)
  PROVE  Tower(stack', ob') /\ OneBlock(plate', stack')
<1>1. InPlate
  BY DEF Start, Calls, InTemplate
<1>2. PICK me \in Plate: me = [Me EXCEPT !.pushed = @ \/ push] /\ me.section = Me.section /\ me.text = Me.text
  <2>1. PICK x \in Plate: x = Me
    BY <1>1, TopIs
  <2>2. LET y == [x EXCEPT !.pushed = @ \/ push] IN y \in Plate /\ y.section = x.section /\ y.text = x.text
    BY DEF Plate
  <2> QED
    BY <2>1, <2>2
<1>3. stack \in Seq(Frame) /\ StackTyped(stack, plate) /\ plate \in Seq(Plate)
  BY DEF Types, StackTyped
<1>4. CASE t = Content \/ Me.section # None
  <2>1. SetMe(me) /\ UNCHANGED <<ob, stack>>
    BY <1>2, <1>4 DEF Start
  <2>2. Tower(stack', ob')
    BY <1>3, <2>1, SettledLive, TowerIs
  <2> QED
    BY <1>1, <1>2, <2>1, <2>2, FewerSame, OneBlockMe
<1>5. CASE ~(t = Content \/ Me.section # None)
  <2>1. PICK q \in Plate: q = [me EXCEPT !.section = t] /\ q.section = t /\ q.text = me.text
    <3>1. t \in Maybe(Section)
      BY <1>5 DEF Maybe
    <3>2. LET y == [me EXCEPT !.section = t] IN y \in Plate /\ y.section = t /\ y.text = me.text
      BY <3>1 DEF Plate
    <3> QED
      BY <3>2
  <2>2. SetMe(q) /\ Open("section")
    BY <1>2, <1>5, <2>1 DEF Start
  <2>3. Tower(stack', ob')
    BY <1>1, <2>2, SettledOpen
  <2>4. /\ plate' \in Seq(Plate) /\ DOMAIN plate' = DOMAIN plate
        /\ plate'[Top.of] = q /\ \A p \in DOMAIN plate: p # Top.of => plate'[p] = plate[p]
    BY <1>1, <2>2, SetMeIs
  <2>5. PICK n \in Nat: n = Len(stack) /\ n > 0
    BY <1>1, TopIs
  <2>6. Top \in PlateFrame /\ Top.of \in DOMAIN plate /\ Me = plate[Top.of] /\ Top = stack[n]
    BY <1>1, <2>5, TopIs
  <2>7. PICK g \in PlateFrame, c \in Nat: /\ g = Opened(Top, "section") /\ g.of = Top.of /\ c = Len(Top.open)
                                          /\ Len(g.open) = c + 1 /\ \A k \in 1..c: g.open[k] = Top.open[k]
    <3>1. LET g == Opened(Top, "section")
              c == Len(Top.open) IN
          /\ g \in PlateFrame /\ g.of = Top.of /\ c \in Nat
          /\ Len(g.open) = c + 1 /\ \A k \in 1..c: g.open[k] = Top.open[k]
      BY <2>6, OpenedIs
    <3> QED
      BY ONLY <3>1
  <2>8. /\ Len(stack') = n /\ stack'[n] = g /\ \A k \in 1..n - 1: stack'[k] = stack[k]
        /\ stack' \in Seq(Frame)
    <3>1. Again(g)
      BY <2>2, <2>7 DEF Open, Opened
    <3>2. /\ StackTyped(stack', plate)
          /\ Len(stack') = Len(stack) /\ stack'[Len(stack)] = g
          /\ \A k \in 1..Len(stack) - 1: stack'[k] = stack[k]
      BY <1>1, <2>7, <3>1, AgainTyped
    <3> QED
      BY <2>5, <3>2 DEF StackTyped
  <2>9. DOMAIN stack' = 1..n /\ DOMAIN stack = 1..n /\ DOMAIN g.open = 1..c + 1 /\ DOMAIN Top.open = 1..c
    BY <1>3, <2>5, <2>6, <2>7, <2>8 DEF PlateFrame
  <2>10. ASSUME NEW p \in DOMAIN plate, NEW i \in Nat, NEW k \in Nat, HasOpen(stack', p, i, k)
         PROVE  HasOpen(stack, p, i, k) \/ (p = Top.of /\ i = n /\ k = c + 1)
    <3>1. CASE i = n
      <4>1. IsPlate(Top) /\ p = Top.of /\ k \in 1..c + 1 /\ g.open[k].kind = "section"
        BY <1>1, <2>7, <2>8, <2>9, <2>10, <3>1, TopIs DEF HasOpen
      <4>2. CASE k = c + 1
        BY <3>1, <4>1, <4>2
      <4>3. CASE k # c + 1
        <5>1. k \in 1..c /\ Top.open[k].kind = "section"
          BY <2>7, <4>1, <4>3
        <5> QED
          BY <2>5, <2>6, <2>9, <3>1, <4>1, <5>1 DEF HasOpen
      <4> QED
        BY <4>2, <4>3
    <3>2. CASE i # n
      <4>1. i \in 1..n - 1 /\ stack'[i] = stack[i]
        BY <2>5, <2>8, <2>9, <2>10, <3>2 DEF HasOpen
      <4> QED
        BY <2>9, <2>10, <4>1 DEF HasOpen
    <3> QED
      BY <3>1, <3>2
  <2>11. ASSUME NEW i \in Nat, NEW k \in Nat PROVE ~HasOpen(stack, Top.of, i, k)
    BY <1>5, <2>6, <2>11 DEF OneBlock
  <2>12. Blank(q)
    <3>1. Blank(Me)
      BY <1>5, <2>6 DEF OneBlock
    <3> QED
      BY <1>2, <2>1, <3>1 DEF Blank
  <2>13. t # None
    BY PlatesAssumption
  <2>14. ASSUME NEW p \in DOMAIN plate'
         PROVE  /\ plate'[p].section = None => Blank(plate'[p])
                /\ \A i, k \in Nat: HasOpen(stack', p, i, k) =>
                     /\ plate'[p].section # None /\ Blank(plate'[p])
                     /\ \A i2, k2 \in Nat: HasOpen(stack', p, i2, k2) => i2 = i /\ k2 = k
    <3>1. CASE p = Top.of
      <4>1. plate'[p] = q /\ q.section # None /\ Blank(q)
        BY <2>1, <2>4, <2>12, <2>13, <3>1
      <4>2. \A i, k \in Nat: HasOpen(stack', p, i, k) => i = n /\ k = c + 1
        BY <2>6, <2>10, <2>11, <3>1
      <4> QED
        BY ONLY <4>1, <4>2
    <3>2. CASE p # Top.of
      <4>1. plate'[p] = plate[p] /\ p \in DOMAIN plate
        BY <2>4, <3>2
      <4>2. \A i, k \in Nat: HasOpen(stack', p, i, k) => HasOpen(stack, p, i, k)
        BY <2>10, <3>2, <4>1
      <4>3. /\ plate[p].section = None => Blank(plate[p])
            /\ \A i, k \in Nat: HasOpen(stack, p, i, k) =>
                 /\ plate[p].section # None /\ Blank(plate[p])
                 /\ \A i2, k2 \in Nat: HasOpen(stack, p, i2, k2) => i2 = i /\ k2 = k
        BY <4>1 DEF OneBlock
      <4> QED
        BY ONLY <4>1, <4>2, <4>3
    <3> QED
      BY <3>1, <3>2
  <2>15. OneBlock(plate', stack')
    BY <2>14 DEF OneBlock
  <2> QED
    BY <2>3, <2>15
<1> QED
  BY <1>4, <1>5

LEMMA NeatStop ==
  ASSUME Types, Stop, "untidy" \notin odd', Settled(stack, ob), OneBlock(plate, stack)
  PROVE  /\ Tower(stack', ob') /\ OneBlock(plate', stack')
         /\ InPlate /\ DOMAIN plate' = DOMAIN plate
         /\ \A p \in DOMAIN plate: p # Top.of => plate'[p] = plate[p]
         /\ \A t \in Section: /\ t # Me.section => plate'[Top.of].text[t] = Me.text[t]
                              /\ t = Me.section => plate'[Top.of].text[t] = Last(Top.open).text
<1>1. InPlate /\ Close("section") /\ Me.section # None
  BY DEF Stop, Calls, InTemplate
<1>2. stack \in Seq(Frame) /\ StackTyped(stack, plate) /\ plate \in Seq(Plate)
  BY DEF Types, StackTyped
<1>3. /\ Tower(stack', ob') /\ Fewer(stack', stack)
      /\ Top.open # <<>> /\ Last(Top.open).kind = "section" /\ Last(Top.open).text = Last(ob) /\ ob # <<>>
      /\ Again(Closed(Top))
  BY <1>1, SettledClose
<1>4. PICK n \in Nat: n = Len(stack) /\ n > 0 /\ DOMAIN stack = 1..n
  BY <1>1, <1>2, TopIs
<1>5. /\ Top \in PlateFrame /\ IsPlate(Top) /\ Top.of \in DOMAIN plate /\ Top.of \in Nat /\ Me = plate[Top.of]
      /\ Top = stack[n] /\ Me \in Plate
  BY <1>1, <1>4, TopIs
<1>6. PICK b \in Seq(Block): b = Top.open
  BY <1>5 DEF PlateFrame
<1>7. PICK c \in Nat: c = Len(b) /\ c > 0 /\ DOMAIN b = 1..c /\ Last(b) = b[c]
  BY <1>3, <1>6, EmptySeq DEF Last
<1>8. PICK g \in PlateFrame: g = Closed(Top) /\ g.of = Top.of /\ Len(g.open) = c - 1
  <2>1. LET g == Closed(Top) IN g \in PlateFrame /\ g.of = Top.of /\ Len(g.open) = Len(Top.open) - 1
    BY <1>3, <1>5, ClosedIs
  <2> QED
    BY <1>6, <1>7, <2>1
<1>9. stack'[n] = g
  BY <1>1, <1>3, <1>4, <1>8, AgainTyped
<1>10. HasOpen(stack, Top.of, n, c)
  BY <1>3, <1>4, <1>5, <1>6, <1>7 DEF HasOpen
<1>11. Blank(Me) /\ \A i, k \in Nat: HasOpen(stack, Top.of, i, k) => i = n /\ k = c
  <2>1. \A i, k \in Nat: HasOpen(stack, Top.of, i, k) =>
         /\ Blank(plate[Top.of])
         /\ \A i2, k2 \in Nat: HasOpen(stack, Top.of, i2, k2) => i2 = i /\ k2 = k
    BY <1>5 DEF OneBlock
  <2> QED
    BY ONLY <1>5, <1>10, <2>1, n \in Nat, c \in Nat
<1>12. \A i, k \in Nat: ~HasOpen(stack', Top.of, i, k)
  <2> SUFFICES ASSUME NEW i \in Nat, NEW k \in Nat, HasOpen(stack', Top.of, i, k) PROVE FALSE
    OBVIOUS
  <2>1. i = n /\ k = c
    <3>1. HasOpen(stack, Top.of, i, k)
      BY <1>3, <1>5 DEF Fewer
    <3> QED
      BY <1>11, <3>1
  <2>2. DOMAIN g.open = 1..c - 1
    BY <1>7, <1>8 DEF PlateFrame
  <2> QED
    BY <1>7, <1>9, <2>1, <2>2 DEF HasOpen
<1>13. Me.section \in Section
  BY <1>1, <1>5 DEF Plate, Maybe
<1>14. PICK u \in Text: u = Last(ob)
  BY <1>3, FrontIs DEF Types
<1>15. PICK x \in Plate: x = Me
  BY <1>5
<1>16. x.text[x.section] = None
  BY <1>11, <1>13, <1>15 DEF Blank
<1>17. <<>> \o u = u
  BY DEF Text
<1> DEFINE q == [x EXCEPT !.text[x.section] = u, !.pushed = FALSE]
<1>18. /\ q \in Plate /\ q.section = x.section /\ q.text[x.section] = u
       /\ \A t \in Section: t # x.section => q.text[t] = x.text[t]
  <2>1. u \in Maybe(Text)
    BY DEF Maybe
  <2> QED
    BY <1>13, <1>15, <2>1 DEF Plate
<1>19. SetMe(q)
  <2>1. SetMe([x EXCEPT !.text[x.section] = <<>> \o u, !.pushed = FALSE])
    BY <1>3, <1>14, <1>15, <1>16 DEF Stop
  <2> QED
    BY <1>17, <2>1
<1> HIDE DEF q
<1>20. /\ plate' \in Seq(Plate) /\ DOMAIN plate' = DOMAIN plate
       /\ plate'[Top.of] = q /\ \A p \in DOMAIN plate: p # Top.of => plate'[p] = plate[p]
  BY <1>1, <1>18, <1>19, SetMeIs
<1>21. ASSUME NEW p \in DOMAIN plate'
       PROVE  /\ plate'[p].section = None => Blank(plate'[p])
              /\ \A i, k \in Nat: HasOpen(stack', p, i, k) =>
                   /\ plate'[p].section # None /\ Blank(plate'[p])
                   /\ \A i2, k2 \in Nat: HasOpen(stack', p, i2, k2) => i2 = i /\ k2 = k
  <2>1. CASE p = Top.of
    <3>1. plate'[p].section # None
      BY <1>1, <1>15, <1>18, <1>20, <2>1
    <3> QED
      BY <1>12, <2>1, <3>1
  <2>2. CASE p # Top.of
    <3>1. plate'[p] = plate[p] /\ p \in DOMAIN plate /\ p \in Nat
      BY <1>2, <1>20, <2>2
    <3>2. \A i, k \in Nat: HasOpen(stack', p, i, k) => HasOpen(stack, p, i, k)
      BY <1>3, <3>1 DEF Fewer
    <3>3. /\ plate[p].section = None => Blank(plate[p])
          /\ \A i, k \in Nat: HasOpen(stack, p, i, k) =>
               /\ plate[p].section # None /\ Blank(plate[p])
               /\ \A i2, k2 \in Nat: HasOpen(stack, p, i2, k2) => i2 = i /\ k2 = k
      BY <3>1 DEF OneBlock
    <3> QED
      BY ONLY <3>1, <3>2, <3>3
  <2> QED
    BY <2>1, <2>2
<1>22. OneBlock(plate', stack')
  BY <1>21 DEF OneBlock
<1>23. ASSUME NEW t \in Section
       PROVE  /\ t # Me.section => plate'[Top.of].text[t] = Me.text[t]
              /\ t = Me.section => plate'[Top.of].text[t] = Last(Top.open).text
  BY <1>3, <1>14, <1>15, <1>18, <1>20
<1> QED
  BY <1>1, <1>3, <1>20, <1>22, <1>23

LEMMA NeatStyle ==
  ASSUME Types, StyleBegin \/ StyleEnd \/ StyleEndRefused, "untidy" \notin odd', Settled(stack, ob), OneBlock(plate, stack)
  PROVE  Tower(stack', ob') /\ OneBlock(plate', stack')
<1>1. InPlate
  BY DEF StyleBegin, StyleEnd, StyleEndRefused, Calls, InTemplate
<1>2. stack \in Seq(Frame) /\ Tower(stack, ob)
  BY SettledLive, TowerIs DEF Types, StackTyped
<1>3. CASE StyleBegin
  <2>1. PICK x \in Plate: x = Me
    BY <1>1, TopIs
  <2>2. PICK q \in Plate: q = [x EXCEPT !.style = Len(ob) + 1] /\ q.section = x.section /\ q.text = x.text
    <3>1. PICK m \in Nat: m = Len(ob) + 1
      BY DEF Types
    <3>2. LET y == [x EXCEPT !.style = m] IN y \in Plate /\ y.section = x.section /\ y.text = x.text
      BY DEF Plate
    <3> QED
      BY <3>1, <3>2
  <2>3. SetMe(q) /\ Open("style")
    BY <1>3, <2>1, <2>2 DEF StyleBegin
  <2>4. Tower(stack', ob')
    BY <1>1, <2>3, SettledOpen
  <2>5. Fewer(stack', stack)
    <3>1. PICK b \in Seq(Block): b = Top.open
      BY <1>1, TopIs DEF PlateFrame
    <3>2. PICK g \in PlateFrame, c \in Nat:
             /\ g = Opened(Top, "style") /\ g.of = Top.of /\ c = Len(b)
             /\ Len(g.open) = c + 1 /\ g.open[c + 1].kind = "style" /\ \A k \in 1..c: g.open[k] = b[k]
      <4>1. LET g == Opened(Top, "style")
                n == Len(Top.open) IN
            /\ g \in PlateFrame /\ g.of = Top.of /\ Len(g.open) = n + 1 /\ n \in Nat
            /\ g.open[n + 1].kind = "style" /\ \A k \in 1..n: g.open[k] = Top.open[k]
        BY <1>1, TopIs, OpenedIs
      <4> QED
        BY ONLY <3>1, <4>1
    <3>3. \A k \in DOMAIN g.open: g.open[k].kind = "section" => k \in DOMAIN Top.open /\ Top.open[k].kind = "section"
      <4>1. DOMAIN g.open = 1..c + 1 /\ DOMAIN b = 1..c
        BY <3>2 DEF PlateFrame
      <4> QED
        BY <3>1, <3>2, <4>1
    <3>4. stack # <<>> /\ IsPlate(Last(stack)) /\ Top = Last(stack) /\ Below = Front(stack)
      BY <1>1, TopIs DEF Top
    <3>5. stack' = Append(Front(stack), g)
      BY <2>3, <3>2, <3>4 DEF Open, Opened, Again
    <3> QED
      BY <1>2, <3>2, <3>3, <3>4, <3>5, FewerTop
  <2> QED
    BY <1>1, <2>1, <2>2, <2>3, <2>4, <2>5, OneBlockMe
<1>4. CASE StyleEnd
  <2>1. Close("style") /\ plate' = plate
    BY <1>4 DEF StyleEnd
  <2>2. Tower(stack', ob') /\ Fewer(stack', stack)
    BY <1>1, <2>1, SettledClose
  <2> QED
    BY <2>1, <2>2, OneBlockSame
<1>5. CASE StyleEndRefused
  BY <1>2, <1>5 DEF StyleEndRefused, Throw
<1> QED
  BY <1>3, <1>4, <1>5

LEMMA NeatPrint ==
  ASSUME Types, InPlate, Settled(stack, ob), OneBlock(plate, stack), plate' = plate,
         NEW f \in PlateFrame, f.live, f.base = Top.base, f.open = Top.open, f.of = Top.of, NEW t \in Text, Prints(f, t)
  PROVE  Tower(stack', ob') /\ OneBlock(plate', stack')
<1>1. /\ StackTyped(stack, plate) /\ stack # <<>> /\ IsPlate(Last(stack)) /\ ob \in Seq(Text)
      /\ Top = Last(stack) /\ Below = Front(stack)
  BY TopIs DEF Types, Top
<1>2. stack' = Append(Front(stack), Heard(f, t)) /\ ob' = Echo(ob, t)
  BY <1>1 DEF Prints, Again
<1>3. Tower(stack', ob') /\ Fewer(stack', stack)
  BY <1>1, <1>2, SettledEcho
<1> QED
  BY <1>3, OneBlockSame

LEMMA NeatCall ==
  ASSUME Types, Phase, Tower(stack, ob), OneBlock(plate, stack), Call, mode' # "dead", "untidy" \notin odd'
  PROVE  Tower(stack', ob') /\ OneBlock(plate', stack')
<1> DEFINE Goal == Tower(stack', ob') /\ OneBlock(plate', stack')
<1>1. ASSUME stack' = stack, ob' = ob, plate' = plate PROVE Goal
  BY <1>1
<1>2. InTemplate \/ InScript => Settled(stack, ob)
  <2>1. InTemplate => ~Flat(stack)
    BY TopIs DEF InTemplate, Flat, Top
  <2>2. InScript => ~Flat(stack)
    BY DEF InScript, Flat
  <2> QED
    BY <2>1, <2>2, TowerIs
<1>3. ASSUME NEW v \in View, NEW n \in Name, PushLevel(v, n) PROVE Goal
  BY <1>1, <1>3 DEF PushLevel
<1>4. ASSUME NEW v \in View, NEW l \in ViewLists, RenderWithoutEngine(v, l) \/ RenderNothing(v, l) PROVE Goal
  BY <1>1, <1>4 DEF RenderWithoutEngine, RenderNothing
<1>5. ASSUME NEW v \in View, NEW l \in ViewLists, NEW raw \in BOOLEAN, RenderView(v, l, raw) PROVE Goal
  <2>1. Settled(stack, ob)
    BY <1>2, <1>5 DEF RenderView, Asking, Asks
  <2> QED
    BY <1>5, <2>1, NeatView
<1>6. ASSUME NEW n \in Name, Insert(n) \/ InsertInTemplate(n) PROVE Goal
  <2>1. Settled(stack, ob) /\ EngineRender(n)
    BY <1>2, <1>6 DEF Insert, InsertInTemplate, Calls
  <2> QED
    BY <2>1, NeatInsert
<1>7. ASSUME NEW n \in Name, SetLayout(n) PROVE Goal
  <2>1. InPlate
    BY <1>7 DEF SetLayout, Calls, InTemplate
  <2>2. PICK x \in Plate: x = Me
    BY <2>1, TopIs
  <2>3. PICK q \in Plate: q = [x EXCEPT !.layout = n] /\ q.section = x.section /\ q.text = x.text
    <3>1. n \in Maybe(Name)
      BY DEF Maybe
    <3>2. LET y == [x EXCEPT !.layout = n] IN y \in Plate /\ y.section = x.section /\ y.text = x.text
      BY <3>1 DEF Plate
    <3> QED
      BY <3>2
  <2>4. SetMe(q) /\ stack' = stack /\ ob' = ob
    BY <1>7, <2>2, <2>3 DEF SetLayout
  <2>5. OneBlock(plate', stack')
    BY <2>1, <2>2, <2>3, <2>4, FewerSame, OneBlockMe
  <2> QED
    BY <2>4, <2>5
<1>8. CASE InsertWithoutEngine
  BY <1>8 DEF InsertWithoutEngine
<1>9. ASSUME Calls
      PROVE  Settled(stack, ob) /\ InPlate /\ Top \in PlateFrame /\ Top.live /\ Me \in Plate
  BY <1>2, <1>9, TopIs DEF Calls, InTemplate
<1>10. CASE Say
  <2>1. Calls /\ Prints(Top, <<Me.name>>) /\ plate' = plate
    BY <1>10 DEF Say
  <2>2. <<Me.name>> \in Text
    BY <1>9, <2>1, TextIs DEF Plate
  <2> QED
    BY <1>9, <2>1, <2>2, NeatPrint
<1>11. CASE GetContent
  <2> DEFINE f == [Top EXCEPT !.told = @ \/ Top.open = <<>>]
             t == IF Me.content = None THEN <<Missing>> ELSE Me.content
  <2>1. Calls /\ Prints(f, t) /\ plate' = plate
    BY <1>11 DEF GetContent
  <2>2. t \in Text
    BY <1>9, <2>1, TextIs DEF Plate, Maybe
  <2>3. f \in PlateFrame /\ f.of = Top.of /\ f.base = Top.base /\ f.live = Top.live /\ f.open = Top.open
    BY <1>9, <2>1 DEF PlateFrame
  <2> HIDE DEF f, t
  <2> QED
    BY <1>9, <2>1, <2>2, <2>3, NeatPrint
<1>12. ASSUME NEW t \in Section, GetSection(t) PROVE Goal
  <2>1. Calls /\ Prints(Top, Me.text[t]) /\ plate' = plate
    BY <1>12 DEF GetSection
  <2>2. Me.text[t] \in Text
    BY <1>9, <1>12, <2>1 DEF Plate, Maybe, GetSection
  <2> QED
    BY <1>9, <2>1, <2>2, NeatPrint
<1>13. ASSUME NEW t \in Section \cup {Content}, NEW push \in BOOLEAN, Start(t, push) PROVE Goal
  BY <1>9, <1>13, NeatStart DEF Start
<1>14. CASE Stop
  BY <1>9, <1>14, NeatStop DEF Stop
<1>15. CASE StopRefused
  BY <1>1, <1>15 DEF StopRefused, Throw
<1>16. CASE StyleBegin \/ StyleEnd \/ StyleEndRefused
  BY <1>9, <1>16, NeatStyle DEF StyleBegin, StyleEnd, StyleEndRefused
<1> QED
  BY <1>3, <1>4, <1>5, <1>6, <1>7, <1>8, <1>10, <1>11, <1>12, <1>13, <1>14, <1>15, <1>16 DEF Call

LEMMA SettledBelow ==
  ASSUME Types, InPlate, Tower(stack, ob), ~Top.live
  PROVE  Settled(Below, ob)
BY TopIs, TowerIs DEF Flat, Top

LEMMA SettledTower == ASSUME NEW s \in Seq(Frame), NEW o, Settled(s, o) PROVE Tower(s, o)
BY SettledLive, TowerIs

LEMMA NeatTemplateEnds ==
  ASSUME Types, TemplateEnds, Tower(stack, ob), OneBlock(plate, stack), "untidy" \notin odd'
  PROVE  Tower(stack', ob') /\ OneBlock(plate', stack')
<1>1. InPlate /\ Top.live /\ Top.open = <<>> /\ plate' = plate
  BY DEF TemplateEnds, InTemplate
<1>2. /\ StackTyped(stack, plate) /\ stack \in Seq(Frame) /\ stack # <<>> /\ Top = Last(stack) /\ Below = Front(stack)
      /\ IsPlate(Top) /\ Top \in PlateFrame /\ Below \in Seq(Frame) /\ ob \in Seq(Text)
  BY <1>1, TopIs DEF Types, Top
<1>3. Settled(stack, ob)
  BY <1>1, <1>2, TowerIs DEF Flat
<1>4. PICK m \in Nat: m = Top.base
  BY <1>2 DEF PlateFrame
<1>5. PICK v: /\ v = SubSeq(ob, 1, m) /\ v \in Seq(Text) /\ Len(v) = m /\ \A k \in 1..m: v[k] = ob[k]
              /\ Settled(Below, v) /\ Len(ob) = m + 1
  <2>1. /\ Last(stack).base \in 0..Len(ob) /\ Len(ob) = Depth(Last(stack))
        /\ SubSeq(ob, 1, Last(stack).base) \in Seq(Text) /\ Len(SubSeq(ob, 1, Last(stack).base)) = Last(stack).base
        /\ \A k \in 1..Last(stack).base: SubSeq(ob, 1, Last(stack).base)[k] = ob[k]
        /\ Settled(Front(stack), SubSeq(ob, 1, Last(stack).base))
    BY <1>2, <1>3, SettledPop
  <2>2. Len(ob) = m + 1
    BY <1>1, <1>2, <1>4, <2>1 DEF Depth
  <2> QED
    BY ONLY <1>2, <1>4, <2>1, <2>2
<1>6. ob' = v
  <2>1. ob # <<>> /\ ob' = Front(ob)
    BY <1>2, <1>5 DEF TemplateEnds
  <2>2. ob' \in Seq(Text) /\ Len(ob') = m /\ \A k \in 1..m: ob'[k] = ob[k]
    <3>1. ob' \in Seq(Text) /\ Len(ob') = Len(ob) - 1 /\ \A k \in 1..Len(ob) - 1: ob'[k] = ob[k]
      BY <1>2, <2>1, FrontIs
    <3>2. Len(ob) - 1 = m
      BY <1>5
    <3> QED
      BY ONLY <3>1, <3>2
  <2>3. \A k \in 1..Len(ob'): ob'[k] = v[k]
    BY <1>5, <2>2
  <2> QED
    BY <1>5, <2>2, <2>3, SeqEqual
<1>7. PICK g \in PlateFrame: /\ g = [Top EXCEPT !.live = FALSE] /\ g \in Frame /\ IsPlate(g) /\ ~g.live
                             /\ g.of = Top.of /\ g.open = Top.open
  BY <1>1, EndedIs
<1>8. stack' = Append(Below, g)
  BY <1>7 DEF TemplateEnds
<1>9. Tower(stack', ob')
  BY <1>2, <1>5, <1>6, <1>7, <1>8, TowerFlat
<1>10. Fewer(stack', stack)
  <2>1. Fewer(stack', Below)
    BY <1>1, <1>2, <1>7, <1>8, FewerPush
  <2>2. Fewer(Below, stack)
    BY <1>2, FewerPop
  <2> QED
    BY <2>1, <2>2, FewerTrans
<1> QED
  BY <1>1, <1>9, <1>10, OneBlockSame

LEMMA NeatWrap ==
  ASSUME Types, Phase, Wrap, Tower(stack, ob), OneBlock(plate, stack), mode' # "dead"
  PROVE  Tower(stack', ob') /\ OneBlock(plate', stack')
<1>1. InPlate /\ Layout \in DOMAIN plate /\ ret \in Text /\ mode = "run" /\ ret # None
  BY LayoutIs DEF Wrap, Types, Maybe
<1>2. PICK ps: ps = [plate EXCEPT ![Layout].content = ret] /\ plate' = ps /\ Begin(ps, Layout, Below)
  BY DEF Wrap
<1>3. /\ ps \in Seq(Plate) /\ DOMAIN ps = DOMAIN plate
      /\ \A p \in DOMAIN plate: ps[p].text = plate[p].text /\ ps[p].section = plate[p].section
  <2>1. ret \in Maybe(Text)
    BY <1>1 DEF Maybe
  <2>2. ps \in Seq(Plate) /\ DOMAIN ps = DOMAIN plate
    BY <1>1, <1>2, <2>1, ContentIs
  <2>3. ASSUME NEW p \in DOMAIN plate PROVE ps[p].text = plate[p].text /\ ps[p].section = plate[p].section
    BY <1>1, <1>2, <2>1, ContentIs
  <2> QED
    BY <2>2, <2>3
<1>4. /\ StackTyped(stack, plate) /\ stack \in Seq(Frame) /\ stack # <<>> /\ Top = Last(stack) /\ Below = Front(stack)
      /\ Below \in Seq(Frame) /\ plate \in Seq(Plate)
  BY <1>1, TopIs DEF Types, Top
<1>5. ~Top.live
  BY <1>1, <1>4 DEF Phase
<1>6. Settled(Below, ob)
  BY <1>1, <1>5, SettledBelow
<1>7. Tower(stack', ob') /\ Fewer(stack', Below)
  BY <1>1, <1>2, <1>3, <1>4, <1>6, TowerBegin
<1>8. Fewer(stack', stack)
  BY <1>4, <1>7, FewerPop, FewerTrans
<1>9. OneBlock(ps, stack')
  BY <1>3, <1>4, <1>8, OneBlockStays
<1> QED
  BY <1>2, <1>7, <1>9

\* The text goes to the template below, which prints it.
LEMMA NeatHeard ==
  ASSUME Types, NEW s, StackTyped(s, plate), s # <<>>, IsPlate(Last(s)), Settled(s, ob), NEW t \in Text,
         stack' = Append(Front(s), Heard(Last(s), t)), ob' = Echo(ob, t)
  PROVE  Tower(stack', ob') /\ Fewer(stack', s)
<1>1. s \in Seq(Frame) /\ Last(s) \in Frame
  BY FrontIs DEF StackTyped
<1>2. Last(s) \in PlateFrame /\ Last(s).live
  BY <1>1, FrameIs, SettledLive DEF Flat
<1>3. ob \in Seq(Text)
  BY DEF Types
<1> QED
  BY <1>2, <1>3, SettledEcho

LEMMA NeatDeliver ==
  ASSUME Types, Phase, Deliver \/ ViewEnds, Tower(stack, ob), OneBlock(plate, stack)
  PROVE  Tower(stack', ob') /\ OneBlock(plate', stack')
<1>1. InPlate /\ ret \in Text /\ mode = "run" /\ ret # None
  BY DEF Deliver, ViewEnds, Types, Maybe
<1>2. /\ StackTyped(stack, plate) /\ stack \in Seq(Frame) /\ stack # <<>> /\ Top = Last(stack) /\ Below = Front(stack)
      /\ Below \in Seq(Frame) /\ StackTyped(Below, plate) /\ plate \in Seq(Plate) /\ ob \in Seq(Text)
  BY <1>1, TopIs DEF Types, Top
<1>3. ~Top.live
  BY <1>1, <1>2 DEF Phase
<1>4. Settled(Below, ob) /\ Fewer(Below, stack)
  BY <1>1, <1>2, <1>3, SettledBelow, FewerPop
<1>5. CASE Deliver
  <2>1. CASE Below = <<>>
    <3>1. stack' = Below /\ ob' = ob /\ plate' = plate
      BY <1>5, <2>1 DEF Deliver
    <3> QED
      BY <1>2, <1>4, <3>1, SettledTower, OneBlockSame
  <2>2. CASE Below # <<>>
    <3>1. stack' = Append(Front(Below), Heard(Last(Below), ret)) /\ ob' = Echo(ob, ret) /\ IsPlate(Last(Below))
          /\ plate' = plate
      BY <1>5, <2>2 DEF Deliver, IsPlate
    <3>2. Tower(stack', ob') /\ Fewer(stack', Below)
      BY <1>1, <1>2, <1>4, <2>2, <3>1, NeatHeard
    <3>3. Fewer(stack', stack)
      BY <1>4, <3>2, FewerTrans
    <3> QED
      BY <3>1, <3>2, <3>3, OneBlockSame
  <2> QED
    BY <2>1, <2>2
<1>6. CASE ViewEnds
  <2>1. Below # <<>> /\ Last(Below).kind = "view" /\ Clean
    BY <1>6 DEF ViewEnds
  <2>2. PICK r: r = Front(Below)
    OBVIOUS
  <2>3. StackTyped(r, plate) /\ r \in Seq(Frame) /\ (r # <<>> => IsPlate(Last(r)))
    BY <1>1, <2>1, <2>2, BelowTyped DEF StackTyped
  <2>4. Settled(r, ob)
    BY <1>2, <1>4, <2>1, <2>2, SettledPop
  <2>5. Fewer(r, stack)
    BY <1>2, <1>4, <2>1, <2>2, FewerPop, FewerTrans
  <2>6. Tower(stack', ob') /\ Fewer(stack', stack)
    <3>1. CASE r = <<>>
      <4>1. stack' = r /\ ob' = ob
        BY <1>6, <2>2, <3>1 DEF ViewEnds
      <4> QED
        BY <2>3, <2>4, <2>5, <4>1, SettledTower
    <3>2. CASE r # <<>>
      <4>1. stack' = Append(Front(r), Heard(Last(r), ret)) /\ ob' = Echo(ob, ret)
        BY <1>6, <2>2, <3>2 DEF ViewEnds
      <4>2. Tower(stack', ob') /\ Fewer(stack', r)
        BY <1>1, <2>3, <2>4, <3>2, <4>1, NeatHeard
      <4> QED
        BY <2>5, <4>2, FewerTrans
    <3> QED
      BY <3>1, <3>2
  <2>7. /\ plate' \in Seq(Plate) /\ DOMAIN plate' = DOMAIN plate
        /\ \A p \in DOMAIN plate: plate'[p].text = plate[p].text /\ plate'[p].section = plate[p].section
    BY <2>1, CleanIs
  <2>8. OneBlock(plate', stack')
    BY <1>2, <2>6, <2>7, OneBlockStays
  <2> QED
    BY <2>6, <2>8
<1> QED
  BY <1>5, <1>6

LEMMA NeatUnwind ==
  ASSUME Types, Phase, Unwind, Tower(stack, ob), OneBlock(plate, stack), mode' # "dead"
  PROVE  Tower(stack', ob') /\ OneBlock(plate', stack')
<1>1. InPlate /\ mode = "throw"
  BY DEF Unwind
<1>2. /\ StackTyped(stack, plate) /\ stack \in Seq(Frame) /\ stack # <<>> /\ Top = Last(stack) /\ Below = Front(stack)
      /\ IsPlate(Top) /\ Top \in PlateFrame
      /\ Below \in Seq(Frame) /\ StackTyped(Below, plate) /\ plate \in Seq(Plate) /\ ob \in Seq(Text)
  BY <1>1, TopIs DEF Types, Top
<1>3. Settled(Below, ob')
  <2>1. CASE Top.live
    <3>1. Settled(stack, ob)
      BY <1>2, <2>1, TowerIs DEF Flat
    <3>2. Len(ob) = Depth(Top) /\ Settled(Below, SubSeq(ob, 1, Top.base))
      BY <1>2, <3>1, SettledPop
    <3>3. Len(ob) > Top.base
      BY <1>2, <3>2, DepthIs
    <3> QED
      BY <2>1, <3>2, <3>3 DEF Unwind
  <2>2. CASE ~Top.live
    <3>1. ob' = ob
      BY <2>2 DEF Unwind
    <3> QED
      BY <1>1, <2>2, <3>1, SettledBelow
  <2> QED
    BY <2>1, <2>2
<1>4. Fewer(Below, stack)
  BY <1>2, FewerPop
<1>5. CASE stack' = Below /\ plate' = plate
  BY <1>2, <1>3, <1>4, <1>5, SettledTower, OneBlockSame
<1>6. CASE /\ Me.layout # None /\ Layout # None
           /\ plate' = [plate EXCEPT ![Layout].content = None]
           /\ stack' = Append(Below, [Running(Layout) EXCEPT !.live = FALSE])
  <2> DEFINE g == [Running(Layout) EXCEPT !.live = FALSE]
  <2>1. Layout \in DOMAIN plate /\ Layout \in Nat
    BY <1>1, <1>2, <1>6, LayoutIs
  <2>2. g \in PlateFrame /\ IsPlate(g) /\ g.live = FALSE
    BY <1>2, <2>1, RunningIs
  <2>3. g.open = <<>>
    BY DEF Running
  <2> HIDE DEF g
  <2>4. g \in Frame
    BY <2>2 DEF Frame
  <2>5. stack' = Append(Below, g)
    BY <1>6 DEF g
  <2>6. Tower(stack', ob') /\ Fewer(stack', Below)
    BY <1>2, <1>3, <2>2, <2>3, <2>4, <2>5, TowerFlat, FewerPush
  <2>7. /\ plate' \in Seq(Plate) /\ DOMAIN plate' = DOMAIN plate
        /\ \A p \in DOMAIN plate: plate'[p].text = plate[p].text /\ plate'[p].section = plate[p].section
    <3>1. None \in Maybe(Text)
      BY DEF Maybe
    <3>2. plate' \in Seq(Plate) /\ DOMAIN plate' = DOMAIN plate
      BY <1>6, <2>1, <3>1, ContentIs
    <3>3. ASSUME NEW p \in DOMAIN plate PROVE plate'[p].text = plate[p].text /\ plate'[p].section = plate[p].section
      BY <1>6, <2>1, <3>1, ContentIs
    <3> QED
      BY <3>2, <3>3
  <2>8. Fewer(stack', stack)
    BY <1>4, <2>6, FewerTrans
  <2>9. OneBlock(plate', stack')
    BY <1>2, <2>7, <2>8, OneBlockStays
  <2> QED
    BY <2>6, <2>9
<1> QED
  BY <1>5, <1>6 DEF Unwind

LEMMA NeatReturn ==
  ASSUME Types, Phase, Tower(stack, ob), OneBlock(plate, stack), Return, mode' # "dead", "untidy" \notin odd'
  PROVE  Tower(stack', ob') /\ OneBlock(plate', stack')
<1>1. CASE TemplateEnds
  BY <1>1, NeatTemplateEnds
<1>2. CASE Wrap
  BY <1>2, NeatWrap
<1>3. CASE WrapWithoutEngine
  BY <1>3 DEF WrapWithoutEngine
<1>4. CASE Deliver \/ ViewEnds
  BY <1>4, NeatDeliver
<1>5. CASE TemplateThrows \/ Catch
  <2>1. stack' = stack /\ ob' = ob /\ plate' = plate
    BY <1>5 DEF TemplateThrows, Catch
  <2> QED
    BY <2>1
<1>6. CASE Unwind
  BY <1>6, NeatUnwind
<1>7. CASE UnwindView
  <2>1. /\ stack # <<>> /\ Top.kind = "view" /\ Clean /\ stack' = Below /\ ob' = ob
        /\ Top = Last(stack) /\ Below = Front(stack)
    BY <1>7 DEF UnwindView, Top, Below
  <2>2. /\ StackTyped(stack, plate) /\ stack \in Seq(Frame) /\ plate \in Seq(Plate) /\ ob \in Seq(Text)
    BY DEF Types, StackTyped
  <2>3. Top \in Frame /\ Below \in Seq(Frame)
    BY <2>1, <2>2, FrontIs
  <2>4. ~IsPlate(Top)
    BY <2>1, <2>3, FrameIs
  <2>5. Settled(stack, ob)
    BY <2>1, <2>4, TowerIs DEF Flat
  <2>6. Settled(Below, ob)
    BY <2>1, <2>2, <2>5, SettledPop
  <2>7. Tower(stack', ob') /\ Fewer(stack', stack)
    BY <2>1, <2>2, <2>3, <2>6, SettledTower, FewerPop
  <2>8. /\ plate' \in Seq(Plate) /\ DOMAIN plate' = DOMAIN plate
        /\ \A p \in DOMAIN plate: plate'[p].text = plate[p].text /\ plate'[p].section = plate[p].section
    BY <2>1, CleanIs
  <2>9. OneBlock(plate', stack')
    BY <2>2, <2>7, <2>8, OneBlockStays
  <2> QED
    BY <2>7, <2>9
<1> QED
  BY <1>1, <1>2, <1>3, <1>4, <1>5, <1>6, <1>7 DEF Return

LEMMA NeatStep == ASSUME Types, Phase, Neat, [PlatesNext]_platesVars PROVE Neat'
<1>1. CASE UNCHANGED platesVars
  BY <1>1 DEF platesVars, Neat
<1>2. CASE PlatesNext
  <2> SUFFICES ASSUME mode' # "dead", "untidy" \notin odd'
               PROVE  Tower(stack', ob') /\ OneBlock(plate', stack')
    BY DEF Neat
  <2>1. Tower(stack, ob) /\ OneBlock(plate, stack)
    BY <1>2, NextIs DEF Neat
  <2> QED
    BY <1>2, <2>1, NeatCall, NeatReturn DEF PlatesNext
<1> QED
  BY <1>1, <1>2

\* Only Stop gives a section a text.
LEMMA TextStays ==
  ASSUME Types, PlatesNext, ~Stop, NEW p \in DOMAIN plate
  PROVE  plate'[p].text = plate[p].text
<1>1. plate \in Seq(Plate) /\ p \in Nat /\ plate[p] \in Plate
  BY ElementOfSeq DEF Types
<1>2. plate' = plate => plate'[p].text = plate[p].text
  OBVIOUS
<1>3. ASSUME NEW q \in Plate, InPlate, SetMe(q), q.text = Me.text PROVE plate'[p].text = plate[p].text
  BY <1>3, SetMeIs DEF Me
<1>4. ASSUME NEW v \in View, NEW n \in Name, PushLevel(v, n) PROVE plate'[p].text = plate[p].text
  BY <1>2, <1>4 DEF PushLevel
<1>5. ASSUME NEW v \in View, NEW l \in ViewLists, RenderWithoutEngine(v, l) \/ RenderNothing(v, l)
      PROVE  plate'[p].text = plate[p].text
  BY <1>2, <1>5 DEF RenderWithoutEngine, RenderNothing
<1>6. ASSUME NEW v \in View, NEW l \in ViewLists, NEW raw \in BOOLEAN, RenderView(v, l, raw)
      PROVE  plate'[p].text = plate[p].text
  <2>1. Levels(v, l) \in Seq(Name)
    BY <1>6, AskingTyped DEF RenderView
  <2>2. PICK ps \in Seq(Plate): plate' = plate \o ps
    BY <1>6, <2>1, PlatesAre DEF RenderView
  <2>3. p \in 1..Len(plate) /\ Len(plate) \in Nat
    BY <1>1
  <2>4. (plate \o ps)[p] = plate[p]
    <3>1. Len(ps) \in Nat
      OBVIOUS
    <3>2. p \in 1..Len(plate) + Len(ps) /\ p <= Len(plate)
      BY <2>3, <3>1
    <3> QED
      BY <1>1, <3>2, ConcatProperties
  <2> QED
    BY <2>2, <2>4
<1>7. ASSUME NEW n \in Name, Insert(n) \/ InsertInTemplate(n) PROVE plate'[p].text = plate[p].text
  BY <1>7, EngineRenderIs DEF Insert, InsertInTemplate
<1>8. ASSUME NEW n \in Name, SetLayout(n) PROVE plate'[p].text = plate[p].text
  <2>1. InPlate
    BY <1>8 DEF SetLayout, Calls, InTemplate
  <2>2. PICK x \in Plate: x = Me
    BY <2>1, TopIs
  <2>3. n \in Maybe(Name)
    BY DEF Maybe
  <2>4. LET y == [x EXCEPT !.layout = n] IN y \in Plate /\ y.text = x.text
    BY <2>3 DEF Plate
  <2>5. SetMe([x EXCEPT !.layout = n])
    BY <1>8, <2>2 DEF SetLayout
  <2>6. PICK q \in Plate: SetMe(q) /\ q.text = Me.text
    BY <2>2, <2>4, <2>5
  <2> QED
    BY <1>3, <2>1, <2>6
<1>9. ASSUME NEW t \in Section, GetSection(t) PROVE plate'[p].text = plate[p].text
  BY <1>2, <1>9 DEF GetSection
<1>10. CASE InsertWithoutEngine \/ Say \/ GetContent \/ StopRefused \/ StyleEnd \/ StyleEndRefused
  BY <1>2, <1>10 DEF InsertWithoutEngine, Say, GetContent, StopRefused, StyleEnd, StyleEndRefused, Throw
<1>11. ASSUME NEW t \in Section \cup {Content}, NEW push \in BOOLEAN, Start(t, push) PROVE plate'[p].text = plate[p].text
  <2>1. InPlate
    BY <1>11 DEF Start, Calls, InTemplate
  <2>2. PICK x \in Plate: x = Me
    BY <2>1, TopIs
  <2>3. PICK me \in Plate: me = [x EXCEPT !.pushed = @ \/ push] /\ me.text = x.text
    <3>1. LET y == [x EXCEPT !.pushed = @ \/ push] IN y \in Plate /\ y.text = x.text
      BY DEF Plate
    <3> QED
      BY <3>1
  <2>4. CASE t = Content \/ Me.section # None
    <3>1. SetMe(me)
      BY <1>11, <2>2, <2>3, <2>4 DEF Start
    <3>2. SetMe(me) /\ me.text = Me.text
      BY <2>2, <2>3, <3>1
    <3> QED
      BY ONLY <1>3, <2>1, <3>2, me \in Plate
  <2>5. CASE ~(t = Content \/ Me.section # None)
    <3>1. t \in Maybe(Section)
      BY <2>5 DEF Maybe
    <3>2. LET y == [me EXCEPT !.section = t] IN y \in Plate /\ y.text = me.text
      BY <3>1 DEF Plate
    <3>3. SetMe([me EXCEPT !.section = t])
      BY <1>11, <2>2, <2>3, <2>5 DEF Start
    <3>4. PICK q \in Plate: SetMe(q) /\ q.text = Me.text
      BY <2>2, <2>3, <3>2, <3>3
    <3> QED
      BY ONLY <1>3, <2>1, <3>4
  <2> QED
    BY <2>4, <2>5
<1>12. CASE StyleBegin
  <2>1. InPlate
    BY <1>12 DEF StyleBegin, Calls, InTemplate
  <2>2. PICK x \in Plate: x = Me
    BY <2>1, TopIs
  <2>3. PICK m \in Nat: m = Len(ob) + 1
    BY DEF Types
  <2>4. LET y == [x EXCEPT !.style = m] IN y \in Plate /\ y.text = x.text
    BY DEF Plate
  <2>5. SetMe([x EXCEPT !.style = m])
    BY <1>12, <2>2, <2>3 DEF StyleBegin
  <2>6. PICK q \in Plate: SetMe(q) /\ q.text = Me.text
    BY <2>2, <2>4, <2>5
  <2> QED
    BY <1>3, <2>1, <2>6
<1>13. CASE TemplateEnds \/ WrapWithoutEngine \/ Deliver \/ TemplateThrows \/ Catch
  BY <1>2, <1>13 DEF TemplateEnds, WrapWithoutEngine, Deliver, TemplateThrows, Catch
<1>14. CASE Wrap
  <2>1. InPlate /\ Layout \in DOMAIN plate /\ ret \in Text /\ plate' = [plate EXCEPT ![Layout].content = ret]
    BY <1>14, LayoutIs DEF Wrap, Types, Maybe
  <2> QED
    BY <2>1, ContentIs DEF Maybe
<1>15. CASE ViewEnds \/ UnwindView
  BY <1>15, CleanIs DEF ViewEnds, UnwindView
<1>16. CASE Unwind
  <2>1. InPlate
    BY <1>16 DEF Unwind
  <2>2. CASE Layout # None /\ Me.layout # None /\ plate' = [plate EXCEPT ![Layout].content = None]
    BY <2>1, <2>2, LayoutIs, ContentIs DEF Maybe
  <2> QED
    BY <1>2, <1>16, <2>2 DEF Unwind
<1> QED
  BY <1>4, <1>5, <1>6, <1>7, <1>8, <1>9, <1>10, <1>11, <1>12, <1>13, <1>14, <1>15, <1>16 DEF PlatesNext, Call, Return
-----------------------------------------------------------------------------
(***************************************************************************)
(* What is proved of templates.                                            *)
(***************************************************************************)
PagesInv == Types /\ Phase /\ Neat

LEMMA PagesInitially == PlatesInit => PagesInv
<1> SUFFICES ASSUME PlatesInit PROVE PagesInv
  OBVIOUS
<1>1. Types
  BY InitTyped
<1>2. Phase
  BY DEF PlatesInit, Phase, Alive
<1>3. Settled(<<>>, <<>>)
  BY DEF Settled, Deep
<1>4. Tower(<<>>, <<>>)
  BY <1>3 DEF Tower, Flat
<1>5. OneBlock(<<>>, <<>>)
  BY DEF OneBlock
<1> QED
  BY <1>1, <1>2, <1>4, <1>5 DEF PlatesInit, PagesInv, Neat

LEMMA PagesAlways == PlatesSpec => []PagesInv
<1>1. PagesInv /\ [PlatesNext]_platesVars => PagesInv'
  BY TypesStep, PhaseStep, NeatStep DEF PagesInv
<1> QED
  BY <1>1, PagesInitially, PTL DEF PlatesSpec

(* The state of the templates keeps its types: what is kept under a name   *)
(* is a plate, and above the frame of a view comes the one of a plate.     *)
THEOREM PlatesTypesHold == PlatesSpec => []PlatesTypeOK
<1>1. PagesInv => PlatesTypeOK
  BY TypesAre DEF PagesInv
<1> QED
  BY <1>1, PagesAlways, PTL

(* A section gets what its template printed since it began the section,    *)
(* as long as templates close what they open (Plate::start, stop and the   *)
(* output buffers, plate.cpp).                                             *)
THEOREM SectionsAreOwn == PlatesSpec => SectionIsOwn
<1> DEFINE Own == \A p \in DOMAIN plate : \A s \in Section :
                    plate'[p].text[s] # plate[p].text[s] /\ "untidy" \notin odd' =>
                      Top.of = p /\ plate'[p].text[s] = Last(Top.open).text
<1>1. ASSUME PagesInv, [PlatesNext]_platesVars PROVE [Own]_platesVars
  <2>1. CASE UNCHANGED platesVars
    BY <2>1
  <2>2. CASE PlatesNext /\ ~Stop
    <3>1. \A p \in DOMAIN plate: plate'[p].text = plate[p].text
      BY <1>1, <2>2, TextStays DEF PagesInv
    <3> QED
      BY <3>1
  <2>3. CASE PlatesNext /\ Stop
    <3> SUFFICES ASSUME NEW p \in DOMAIN plate, NEW s \in Section,
                        plate'[p].text[s] # plate[p].text[s], "untidy" \notin odd'
                 PROVE  Top.of = p /\ plate'[p].text[s] = Last(Top.open).text
      OBVIOUS
    <3>1. Tower(stack, ob) /\ OneBlock(plate, stack)
      BY <1>1, <2>3, NextIs DEF PagesInv, Neat
    <3>2. Settled(stack, ob)
      BY <1>1, <2>3, <3>1, TopIs, TowerIs DEF PagesInv, Stop, Calls, InTemplate, Flat, Top
    <3>3. /\ \A q \in DOMAIN plate: q # Top.of => plate'[q] = plate[q]
          /\ \A t \in Section: /\ t # Me.section => plate'[Top.of].text[t] = Me.text[t]
                               /\ t = Me.section => plate'[Top.of].text[t] = Last(Top.open).text
      BY <1>1, <2>3, <3>1, <3>2, NeatStop DEF PagesInv
    <3>4. p = Top.of
      BY <3>3
    <3>5. Me.text[s] = plate[p].text[s]
      BY <3>4 DEF Me
    <3> QED
      BY <3>3, <3>4, <3>5
  <2> QED
    BY <1>1, <2>1, <2>2, <2>3
<1> QED
  BY <1>1, PagesAlways, PTL DEF PlatesSpec, SectionIsOwn
-----------------------------------------------------------------------------
(***************************************************************************)
(* Pages.  What a text may hold: t is made of what may be on a page of the *)
(* levels w, x being the templates that were inserted; it is in order as   *)
(* to the levels up to m when each is found only after the next one.       *)
(***************************************************************************)
Made(t, w, x) == \A k \in DOMAIN t: t[k] \in x \cup {Missing} \/ \E i \in DOMAIN w: t[k] = w[i]
Clear(t, w) == \A k \in DOMAIN t: \A i \in DOMAIN w: t[k] # w[i]
Led(t, a, c) == \A k \in DOMAIN t: t[k] = a => \E j \in 1..k - 1: t[j] = c

Junk(t, w, x) == Made(t, w, x) /\ Clear(t, w)
Tidy(t, w, m, x) == Made(t, w, x) /\ \A i, j \in 1..m: i < j => Led(t, w[i], w[j])
Has(t, w, m) == \A i \in 1..m: \E k \in DOMAIN t: t[k] = w[i]

\* what plate p may print: the plates of the levels are b + 1 .. b + Len(w)
Fit(t, p, w, b, x) == IF p > b + Len(w) THEN Junk(t, w, x) ELSE Tidy(t, w, p - b - 1, x)

\* the plates of a page
Stands(w, b) ==
  /\ Len(w) > 0 /\ b + Len(w) <= Len(plate)
  /\ \A i, j \in DOMAIN w: w[i] = w[j] => i = j
  /\ \A j \in DOMAIN w:
       /\ plate[b + j].layout = IF j < Len(w) THEN w[j + 1] ELSE None
       /\ j > 1 => stored[w[j]] = b + j
       /\ plate[b + j].raw => j = 1 /\ w[j] = Raw
       /\ ~plate[b + j].raw => plate[b + j].name = w[j]
  /\ \A n \in Name: stored[n] = None \/ \E j \in DOMAIN w: n = w[j]

Kept(w, b) ==
  /\ \A p \in DOMAIN plate: p > b + Len(w) =>
       /\ plate[p].layout = None /\ plate[p].content = None /\ ~plate[p].raw
       /\ plate[p].name \in extra /\ \A i \in DOMAIN w: plate[p].name # w[i]
  /\ \A p \in DOMAIN plate: p > b =>
       \A s \in Section: plate[p].text[s] # None => Fit(plate[p].text[s], p, w, b, extra)
  /\ \A j \in DOMAIN w: plate[b + j].content # None =>
       Tidy(plate[b + j].content, w, j - 1, extra) /\ Has(plate[b + j].content, w, j - 1)

\* the buffers of a frame f, and what the one of a level begins with
Fits(f, o, w, b, x) == f.live => \A i \in f.base + 1..Depth(f): Fit(o[i], f.of, w, b, x)
Starts(f, o, w, lv) ==
  f.live => /\ w[lv] # Raw /\ o[f.base + 1] # <<>> /\ o[f.base + 1][1] = w[lv]
            /\ f.told => Has(o[f.base + 1], w, lv - 1)

\* the frames above the one of the view, which is the v-th of s
Risen(v, w, b, lv, s, o, x) ==
  /\ s[v + 1].of = b + lv /\ Starts(s[v + 1], o, w, lv)
  /\ \A k \in DOMAIN s: k > v + 1 => s[k].of > b + Len(w)
  /\ \A k \in DOMAIN s: k > v => Fits(s[k], o, w, b, x)

Hands(v, w, lv) ==
  ret # None => IF Len(stack) = v + 1 THEN Tidy(ret, w, lv, extra) /\ Has(ret, w, lv)
                ELSE Junk(ret, w, extra)
Fed(v, b, lv) == lv > 1 /\ (stack[v + 1].live \/ mode = "run") => plate[b + lv].content # None

InPage(v, w, b) ==
  /\ Stands(w, b) /\ Kept(w, b)
  /\ v < Len(stack) => \E lv \in DOMAIN w: Risen(v, w, b, lv, stack, ob, extra) /\ Hands(v, w, lv) /\ Fed(v, b, lv)

ViewAt(s, i, w) == i \in DOMAIN s /\ s[i].kind = "view" /\ s[i].want = w
NoView(s) == \A i \in DOMAIN s: s[i].kind # "view"
OneView(s, v, w) == ViewAt(s, v, w) /\ \A i \in DOMAIN s: s[i].kind = "view" => i = v
Shows(w) == \A i \in DOMAIN w: w[i] \in Files \cup {Raw}
Want == Seq(Name \cup {Raw})

PageShape ==
  odd = {} /\ mode # "dead" =>
    \/ NoView(stack) /\ \A n \in Name: stored[n] = None
    \/ \E v \in Nat: \E w \in Want: OneView(stack, v, w)
PageTexts ==
  odd = {} /\ mode # "dead" =>
    \A v \in Nat: \A w \in Want: OneView(stack, v, w) /\ Shows(w) => \E b \in Nat: InPage(v, w, b)

LEMMA ConcatIs ==
  ASSUME NEW t \in Text, NEW u \in Text
  PROVE  /\ t \o u \in Text /\ Len(t) \in Nat /\ Len(u) \in Nat
         /\ DOMAIN t = 1..Len(t) /\ DOMAIN u = 1..Len(u) /\ DOMAIN (t \o u) = 1..Len(t) + Len(u)
         /\ \A k \in 1..Len(t): (t \o u)[k] = t[k]
         /\ \A k \in 1..Len(u): (t \o u)[Len(t) + k] = u[k]
         /\ \A k \in 1..Len(t) + Len(u): k \in 1..Len(t) \/ (k - Len(t) \in 1..Len(u) /\ (t \o u)[k] = u[k - Len(t)])
<1>1. t \in Seq(Name \cup {Raw, Missing}) /\ u \in Seq(Name \cup {Raw, Missing})
  BY DEF Text
<1>2. PICK z: z = t \o u
  OBVIOUS
<1>3. PICK n \in Nat, m \in Nat: n = Len(t) /\ m = Len(u) /\ DOMAIN t = 1..n /\ DOMAIN u = 1..m
  BY <1>1
<1>4. /\ z \in Seq(Name \cup {Raw, Missing}) /\ Len(z) = n + m
      /\ \A k \in 1..n + m: z[k] = IF k <= n THEN t[k] ELSE u[k - n]
  BY ONLY <1>1, <1>2, <1>3, ConcatProperties
<1>5. DOMAIN z = 1..n + m
  BY <1>4
<1>6. \A k \in 1..n: z[k] = t[k]
  BY <1>4
<1>7. \A k \in 1..m: z[n + k] = u[k]
  <2> SUFFICES ASSUME NEW k \in 1..m PROVE z[n + k] = u[k]
    OBVIOUS
  <2>1. n + k \in 1..n + m /\ ~(n + k <= n) /\ (n + k) - n = k
    OBVIOUS
  <2> QED
    BY <1>4, <2>1
<1>8. \A k \in 1..n + m: k \in 1..n \/ (k - n \in 1..m /\ z[k] = u[k - n])
  BY <1>4
<1> QED
  BY <1>2, <1>3, <1>4, <1>5, <1>6, <1>7, <1>8 DEF Text

LEMMA LedConcat ==
  ASSUME NEW t \in Text, NEW u \in Text, NEW y, NEW c, Led(t, y, c), Led(u, y, c)
  PROVE  Led(t \o u, y, c)
<1>1. PICK z \in Text, n \in Nat, m \in Nat:
        /\ z = t \o u /\ n = Len(t) /\ m = Len(u)
        /\ DOMAIN t = 1..n /\ DOMAIN u = 1..m /\ DOMAIN z = 1..n + m
        /\ \A k \in 1..n: z[k] = t[k]
        /\ \A k \in 1..m: z[n + k] = u[k]
        /\ \A k \in 1..n + m: k \in 1..n \/ (k - n \in 1..m /\ z[k] = u[k - n])
  <2>1. /\ t \o u \in Text /\ Len(t) \in Nat /\ Len(u) \in Nat
        /\ DOMAIN t = 1..Len(t) /\ DOMAIN u = 1..Len(u) /\ DOMAIN (t \o u) = 1..Len(t) + Len(u)
        /\ \A k \in 1..Len(t): (t \o u)[k] = t[k]
        /\ \A k \in 1..Len(u): (t \o u)[Len(t) + k] = u[k]
        /\ \A k \in 1..Len(t) + Len(u): k \in 1..Len(t) \/ (k - Len(t) \in 1..Len(u) /\ (t \o u)[k] = u[k - Len(t)])
    BY ConcatIs
  <2> QED
    BY ONLY <2>1
<1> SUFFICES ASSUME NEW k \in 1..n + m, z[k] = y PROVE \E j \in 1..k - 1: z[j] = c
  BY <1>1 DEF Led
<1>2. CASE k \in 1..n
  <2>1. PICK j \in 1..k - 1: t[j] = c
    BY <1>1, <1>2 DEF Led
  <2>2. j \in 1..n
    BY <1>2
  <2> QED
    BY <1>1, <2>1, <2>2
<1>3. CASE k - n \in 1..m /\ z[k] = u[k - n]
  <2>1. PICK j \in 1..(k - n) - 1: u[j] = c
    BY <1>1, <1>3 DEF Led
  <2>2. j \in 1..m /\ n + j \in 1..k - 1
    BY <1>3
  <2> QED
    BY <1>1, <2>1, <2>2
<1>4. k \in 1..n \/ (k - n \in 1..m /\ z[k] = u[k - n])
  BY <1>1
<1> QED
  BY ONLY <1>2, <1>3, <1>4, SMTT(40)

LEMMA MadeConcat ==
  ASSUME NEW t \in Text, NEW u \in Text, NEW w, NEW x
  PROVE  /\ Made(t, w, x) /\ Made(u, w, x) => Made(t \o u, w, x)
         /\ Clear(t, w) /\ Clear(u, w) => Clear(t \o u, w)
         /\ \A m \in Nat: Has(t, w, m) \/ Has(u, w, m) => Has(t \o u, w, m)
<1>1. PICK z \in Text, n \in Nat, m \in Nat:
        /\ z = t \o u /\ n = Len(t) /\ m = Len(u)
        /\ DOMAIN t = 1..n /\ DOMAIN u = 1..m /\ DOMAIN z = 1..n + m
        /\ \A k \in 1..n: z[k] = t[k]
        /\ \A k \in 1..m: z[n + k] = u[k]
        /\ \A k \in 1..n + m: k \in 1..n \/ (k - n \in 1..m /\ z[k] = u[k - n])
  <2>1. /\ t \o u \in Text /\ Len(t) \in Nat /\ Len(u) \in Nat
        /\ DOMAIN t = 1..Len(t) /\ DOMAIN u = 1..Len(u) /\ DOMAIN (t \o u) = 1..Len(t) + Len(u)
        /\ \A k \in 1..Len(t): (t \o u)[k] = t[k]
        /\ \A k \in 1..Len(u): (t \o u)[Len(t) + k] = u[k]
        /\ \A k \in 1..Len(t) + Len(u): k \in 1..Len(t) \/ (k - Len(t) \in 1..Len(u) /\ (t \o u)[k] = u[k - Len(t)])
    BY ConcatIs
  <2> QED
    BY ONLY <2>1
<1>2. ASSUME Made(t, w, x), Made(u, w, x) PROVE Made(z, w, x)
  BY <1>1, <1>2 DEF Made
<1>3. ASSUME Clear(t, w), Clear(u, w) PROVE Clear(z, w)
  BY <1>1, <1>3 DEF Clear
<1>4. ASSUME NEW e \in Nat, Has(t, w, e) \/ Has(u, w, e) PROVE Has(z, w, e)
  <2> SUFFICES ASSUME NEW i \in 1..e PROVE \E k \in 1..n + m: z[k] = w[i]
    BY <1>1, ZenonT(30) DEF Has
  <2>1. CASE Has(t, w, e)
    <3>1. PICK k \in 1..n: t[k] = w[i]
      BY <1>1, <2>1 DEF Has
    <3> QED
      BY <1>1, <3>1
  <2>2. CASE Has(u, w, e)
    <3>1. PICK k \in 1..m: u[k] = w[i]
      BY <1>1, <2>2 DEF Has
    <3>2. n + k \in 1..n + m
      OBVIOUS
    <3> QED
      BY <1>1, <3>1, <3>2
  <2> QED
    BY <1>4, <2>1, <2>2
<1> QED
  BY <1>1, <1>2, <1>3, <1>4

LEMMA TidyConcat ==
  ASSUME NEW t \in Text, NEW u \in Text, NEW w, NEW m, NEW x, Tidy(t, w, m, x), Tidy(u, w, m, x)
  PROVE  Tidy(t \o u, w, m, x)
<1>1. Made(t \o u, w, x)
  BY MadeConcat DEF Tidy
<1>2. ASSUME NEW i \in 1..m, NEW j \in 1..m, i < j PROVE Led(t \o u, w[i], w[j])
  BY <1>2, LedConcat DEF Tidy
<1> QED
  BY <1>1, <1>2 DEF Tidy

LEMMA FitConcat ==
  ASSUME NEW t \in Text, NEW u \in Text, NEW p, NEW w, NEW b, NEW x, Fit(t, p, w, b, x), Fit(u, p, w, b, x)
  PROVE  Fit(t \o u, p, w, b, x)
BY TidyConcat, MadeConcat DEF Fit, Junk

LEMMA JunkFits ==
  ASSUME NEW t, NEW w, NEW x, Junk(t, w, x), NEW b \in Nat, NEW p \in Nat, p > b, NEW n \in Nat, n = Len(w), DOMAIN w = 1..n
  PROVE  Fit(t, p, w, b, x)
<1>1. CASE p > b + n
  BY <1>1 DEF Fit
<1>2. CASE ~(p > b + n)
  <2>1. \A i \in 1..p - b - 1: i \in DOMAIN w
    BY <1>2
  <2>2. \A i, j \in 1..p - b - 1: Led(t, w[i], w[j])
    BY <2>1 DEF Junk, Clear, Led
  <2> QED
    BY <1>2, <2>2 DEF Fit, Tidy, Junk
<1> QED
  BY <1>1, <1>2

LEMMA FitsMore ==
  ASSUME NEW t, NEW w, NEW x, NEW y, x \subseteq y
  PROVE  /\ Junk(t, w, x) => Junk(t, w, y)
         /\ \A m: Tidy(t, w, m, x) => Tidy(t, w, m, y)
         /\ \A p, b: Fit(t, p, w, b, x) => Fit(t, p, w, b, y)
<1>1. Made(t, w, x) => Made(t, w, y)
  BY DEF Made
<1> QED
  BY <1>1 DEF Junk, Tidy, Fit

LEMMA EmptyFits == \A w, b, p, x: Fit(<<>>, p, w, b, x)
BY DEF Fit, Junk, Tidy, Made, Clear, Led

\* A text of one template, which is no level or is that of plate p.
LEMMA OneFits ==
  ASSUME NEW n, NEW w, NEW x, NEW b \in Nat, NEW p \in Nat, p > b, NEW e \in Nat, e = Len(w), DOMAIN w = 1..e,
         \A i, j \in DOMAIN w: w[i] = w[j] => i = j
  PROVE  /\ n \in x \cup {Missing} /\ (\A i \in DOMAIN w: w[i] # n) => Junk(<<n>>, w, x)
         /\ p <= b + e /\ n = w[p - b] => Fit(<<n>>, p, w, b, x)
         /\ \A i \in DOMAIN w: n = w[i] => Tidy(<<n>>, w, i, x)
<1>1. DOMAIN <<n>> = {1} /\ <<n>>[1] = n
  OBVIOUS
<1>2. n \in x \cup {Missing} /\ (\A i \in DOMAIN w: w[i] # n) => Junk(<<n>>, w, x)
  BY <1>1 DEF Junk, Made, Clear
<1>3. ASSUME NEW i \in DOMAIN w, n = w[i], NEW m \in Int, m <= i PROVE Tidy(<<n>>, w, m, x)
  <2>1. Made(<<n>>, w, x)
    BY <1>1, <1>3 DEF Made
  <2>2. ASSUME NEW k \in 1..m, NEW j \in 1..m, k < j PROVE Led(<<n>>, w[k], w[j])
    <3>1. k \in DOMAIN w /\ k # i
      BY <1>3, <2>2
    <3>2. w[k] # n
      BY <1>3, <3>1
    <3> QED
      BY <1>1, <3>2 DEF Led
  <2> QED
    BY <2>1, <2>2 DEF Tidy
<1>4. ASSUME p <= b + e, n = w[p - b] PROVE Fit(<<n>>, p, w, b, x)
  <2>1. p - b \in 1..e /\ p - b - 1 \in Int /\ p - b - 1 <= p - b
    BY <1>4
  <2>2. Tidy(<<n>>, w, p - b - 1, x)
    BY <1>3, <1>4, <2>1
  <2>3. ~(p > b + Len(w))
    BY <1>4
  <2> QED
    BY <2>2, <2>3 DEF Fit
<1>5. ASSUME NEW i \in DOMAIN w, n = w[i] PROVE Tidy(<<n>>, w, i, x)
  <2>1. i \in Int /\ i <= i
    OBVIOUS
  <2> QED
    BY <1>3, <1>5, <2>1
<1> QED
  BY <1>2, <1>4, <1>5
-----------------------------------------------------------------------------
(* The views on the stack: one at most, in a page that is as it should be. *)

SameViews(s2, s) == \A i \in Nat: \A w: ViewAt(s2, i, w) <=> ViewAt(s, i, w)

LEMMA SameViewsTrans == ASSUME NEW s1, NEW s2, NEW s3, SameViews(s1, s2), SameViews(s2, s3) PROVE SameViews(s1, s3)
BY DEF SameViews

LEMMA SameViewsIs ==
  ASSUME NEW s \in Seq(Frame), NEW s2 \in Seq(Frame), SameViews(s2, s)
  PROVE  /\ NoView(s) => NoView(s2)
         /\ \A v \in Nat: \A w: OneView(s, v, w) <=> OneView(s2, v, w)
<1>1. \A i \in Nat: (i \in DOMAIN s2 /\ s2[i].kind = "view") <=> (i \in DOMAIN s /\ s[i].kind = "view")
  BY DEF SameViews, ViewAt
<1>2. DOMAIN s \subseteq Nat /\ DOMAIN s2 \subseteq Nat
  OBVIOUS
<1> QED
  BY <1>1, <1>2 DEF SameViews, NoView, OneView

LEMMA ViewsPush ==
  ASSUME NEW s \in Seq(Frame), NEW g \in Frame, IsPlate(g)
  PROVE  SameViews(Append(s, g), s)
<1>1. PICK n \in Nat: n = Len(s) /\ DOMAIN s = 1..n
  OBVIOUS
<1>2. PICK a \in Seq(Frame): a = Append(s, g)
  BY AppendIs
<1>3. Len(a) = n + 1 /\ DOMAIN a = 1..n + 1 /\ a[n + 1] = g /\ \A k \in 1..n: a[k] = s[k]
  BY <1>1, <1>2, AppendIs, LenProperties
<1>4. ASSUME NEW i \in Nat, NEW w PROVE ViewAt(a, i, w) <=> ViewAt(s, i, w)
  <2>1. CASE i = n + 1
    <3>1. ~ViewAt(a, i, w)
      BY <1>3, <2>1 DEF ViewAt, IsPlate
    <3>2. i \notin DOMAIN s
      BY <1>1, <2>1
    <3> QED
      BY <3>1, <3>2 DEF ViewAt
  <2>2. CASE i # n + 1
    BY <1>1, <1>3, <2>2 DEF ViewAt
  <2> QED
    BY <2>1, <2>2
<1> QED
  BY <1>2, <1>4 DEF SameViews

LEMMA ViewsPop ==
  ASSUME NEW s \in Seq(Frame), s # <<>>, IsPlate(Last(s))
  PROVE  SameViews(Front(s), s)
<1>1. PICK n \in Nat: n = Len(s) /\ DOMAIN s = 1..n /\ n > 0 /\ Last(s) = s[n]
  BY EmptySeq DEF Last
<1>2. PICK a \in Seq(Frame): a = Front(s) /\ Len(a) = n - 1 /\ DOMAIN a = 1..n - 1 /\ \A k \in 1..n - 1: a[k] = s[k]
  BY <1>1, FrontIs
<1>3. ASSUME NEW i \in Nat, NEW w PROVE ViewAt(a, i, w) <=> ViewAt(s, i, w)
  <2>1. CASE i = n
    BY <1>1, <1>2, <2>1 DEF ViewAt, IsPlate
  <2>2. CASE i # n
    BY <1>1, <1>2, <2>2 DEF ViewAt
  <2> QED
    BY <2>1, <2>2
<1> QED
  BY <1>2, <1>3 DEF SameViews

LEMMA ViewsTop ==
  ASSUME NEW s \in Seq(Frame), s # <<>>, IsPlate(Last(s)), NEW g \in PlateFrame
  PROVE  SameViews(Append(Front(s), g), s)
<1>1. g \in Frame /\ IsPlate(g) /\ Front(s) \in Seq(Frame)
  BY FrontIs DEF Frame, PlateFrame, IsPlate
<1> QED
  BY <1>1, ViewsPush, ViewsPop, SameViewsTrans

LEMMA ViewsBegin ==
  ASSUME Types, NEW ps, NEW p \in Nat, NEW frames \in Seq(Frame), Begin(ps, p, frames), mode' # "dead"
  PROVE  SameViews(stack', frames)
<1>1. /\ Running(p) \in PlateFrame /\ IsPlate(Running(p))
      /\ [Running(p) EXCEPT !.live = FALSE] \in PlateFrame /\ IsPlate([Running(p) EXCEPT !.live = FALSE])
  BY RunningIs DEF Types
<1>2. CASE BeginFlat(ps, p, frames)
  BY <1>1, <1>2, ViewsPush DEF BeginFlat, Frame
<1>3. CASE BeginRuns(ps, p, frames)
  BY <1>1, <1>3, ViewsPush DEF BeginRuns, Frame
<1> QED
  BY <1>2, <1>3, BeginIs DEF BeginDies

LEMMA ViewsAgain ==
  ASSUME Types, InPlate, NEW g \in PlateFrame, Again(g)
  PROVE  SameViews(stack', stack)
BY TopIs, ViewsTop DEF Again, Top

LEMMA ViewsSame == ASSUME stack' = stack PROVE SameViews(stack', stack)
BY DEF SameViews

LEMMA ViewsHeard ==
  ASSUME NEW s \in Seq(Frame), s # <<>>, IsPlate(Last(s)), NEW t \in Text
  PROVE  SameViews(Append(Front(s), Heard(Last(s), t)), s)
<1>1. Last(s) \in PlateFrame
  BY FrontIs, FrameIs
<1> QED
  BY <1>1, HeardIs, ViewsTop

Shifts ==
  \/ \E v \in View, l \in ViewLists: \E raw \in BOOLEAN: RenderView(v, l, raw)
  \/ ViewEnds \/ UnwindView

LEMMA ViewsStay ==
  ASSUME Types, PlatesNext, mode' # "dead", ~Shifts
  PROVE  SameViews(stack', stack) /\ stored' = stored
<1> DEFINE Goal == SameViews(stack', stack) /\ stored' = stored
<1>1. ASSUME NEW v \in View, NEW n \in Name, PushLevel(v, n) PROVE Goal
  BY <1>1, ViewsSame DEF PushLevel
<1>2. ASSUME NEW v \in View, NEW l \in ViewLists, RenderWithoutEngine(v, l) \/ RenderNothing(v, l) PROVE Goal
  BY <1>2, ViewsSame DEF RenderWithoutEngine, RenderNothing
<1>3. ASSUME NEW v \in View, NEW l \in ViewLists, NEW raw \in BOOLEAN, RenderView(v, l, raw) PROVE Goal
  BY <1>3 DEF Shifts
<1>4. ASSUME NEW n \in Name, Insert(n) \/ InsertInTemplate(n) PROVE Goal
  <2>1. EngineRender(n) /\ stored' = stored
    BY <1>4 DEF Insert, InsertInTemplate
  <2>2. PICK p \in DOMAIN plate': plate' \in Seq(Plate) /\ Begin(plate', p, stack)
    BY <2>1, EngineRenderIs
  <2>3. p \in Nat /\ stack \in Seq(Frame)
    BY <2>2 DEF Types, StackTyped
  <2> QED
    BY <2>1, <2>2, <2>3, ViewsBegin
<1>5. ASSUME NEW n \in Name, SetLayout(n) PROVE Goal
  BY <1>5, ViewsSame DEF SetLayout
<1>6. CASE InsertWithoutEngine \/ WrapWithoutEngine
  BY <1>6 DEF InsertWithoutEngine, WrapWithoutEngine
<1>7. ASSUME Calls PROVE InPlate /\ Top \in PlateFrame /\ Me \in Plate
  BY <1>7, TopIs DEF Calls, InTemplate
<1>8. ASSUME Calls, NEW f \in PlateFrame, NEW t \in Text, Prints(f, t) PROVE SameViews(stack', stack)
  BY <1>7, <1>8, HeardIs, ViewsAgain DEF Prints
<1>9. CASE Say
  <2>1. <<Me.name>> \in Text
    BY <1>7, <1>9, TextIs DEF Plate, Say
  <2> QED
    BY <1>7, <1>8, <1>9, <2>1 DEF Say
<1>10. CASE GetContent
  <2> DEFINE f == [Top EXCEPT !.told = @ \/ Top.open = <<>>]
             t == IF Me.content = None THEN <<Missing>> ELSE Me.content
  <2>1. Calls /\ Prints(f, t) /\ stored' = stored
    BY <1>10 DEF GetContent
  <2>2. t \in Text
    BY <1>7, <2>1, TextIs DEF Plate, Maybe
  <2>3. f \in PlateFrame
    BY <1>7, <2>1 DEF PlateFrame
  <2> HIDE DEF f, t
  <2> QED
    BY <1>8, <2>1, <2>2, <2>3
<1>11. ASSUME NEW t \in Section, GetSection(t) PROVE Goal
  <2>1. Calls /\ Prints(Top, Me.text[t]) /\ stored' = stored
    BY <1>11 DEF GetSection
  <2>2. Me.text[t] \in Text
    BY <1>7, <1>11, <2>1 DEF Plate, Maybe, GetSection
  <2> QED
    BY <1>7, <1>8, <2>1, <2>2
<1>12. ASSUME NEW kind \in {"section", "style"}, Open(kind), Calls PROVE SameViews(stack', stack)
  <2>1. Again(Opened(Top, kind)) /\ Opened(Top, kind) \in PlateFrame
    BY <1>7, <1>12, OpenedIs DEF Open, Opened
  <2> QED
    BY <1>7, <1>12, <2>1, ViewsAgain
<1>13. ASSUME NEW kind \in {"section", "style"}, Close(kind), Calls PROVE SameViews(stack', stack)
  <2>1. CASE Top.open # <<>> /\ Last(Top.open).kind = kind
    <3>1. Again(Closed(Top)) /\ Closed(Top) \in PlateFrame
      BY <1>7, <1>13, <2>1, ClosedIs DEF Close, Closed
    <3> QED
      BY <1>7, <1>13, <3>1, ViewsAgain
  <2>2. CASE ~(Top.open # <<>> /\ Last(Top.open).kind = kind)
    <3>1. stack' = stack
      BY <1>13, <2>2 DEF Close
    <3> QED
      BY <3>1, ViewsSame
  <2> QED
    BY <2>1, <2>2
<1>14. ASSUME NEW t \in Section \cup {Content}, NEW push \in BOOLEAN, Start(t, push) PROVE Goal
  <2>1. stored' = stored /\ Calls /\ (stack' = stack \/ Open("section"))
    BY <1>14 DEF Start
  <2> QED
    BY <1>12, <2>1, ViewsSame
<1>15. CASE Stop
  BY <1>13, <1>15 DEF Stop
<1>16. CASE StopRefused \/ StyleEndRefused
  BY <1>16, ViewsSame DEF StopRefused, StyleEndRefused, Throw
<1>17. CASE StyleBegin
  BY <1>12, <1>17 DEF StyleBegin
<1>18. CASE StyleEnd
  BY <1>13, <1>18 DEF StyleEnd
<1>19. CASE TemplateEnds
  <2>1. InPlate /\ stored' = stored /\ Again([Top EXCEPT !.live = FALSE])
    BY <1>19 DEF TemplateEnds, InTemplate, Again
  <2> QED
    BY <2>1, EndedIs, ViewsAgain
<1>20. CASE Wrap
  <2>1. InPlate /\ Layout \in DOMAIN plate /\ Layout \in Nat /\ stored' = stored
    BY <1>20, LayoutIs DEF Wrap, Types
  <2>2. \E ps: Begin(ps, Layout, Below)
    BY <1>20 DEF Wrap
  <2>3. SameViews(stack', Below) /\ SameViews(Below, stack)
    BY <2>1, <2>2, TopIs, ViewsBegin, ViewsPop DEF Top
  <2> QED
    BY <2>1, <2>3, SameViewsTrans
<1>21. CASE Deliver
  <2>1. InPlate /\ stored' = stored /\ ret \in Text
    BY <1>21 DEF Deliver, Types, Maybe
  <2>2. SameViews(Below, stack) /\ Below \in Seq(Frame)
    BY <2>1, TopIs, ViewsPop DEF Top
  <2>3. CASE Below = <<>>
    <3>1. stack' = Below
      BY <1>21, <2>3 DEF Deliver
    <3> QED
      BY <2>1, <2>2, <3>1
  <2>4. CASE Below # <<>>
    <3>1. stack' = Append(Front(Below), Heard(Last(Below), ret)) /\ IsPlate(Last(Below))
      BY <1>21, <2>4 DEF Deliver, IsPlate
    <3>2. SameViews(stack', Below)
      BY <2>1, <2>2, <2>4, <3>1, ViewsHeard
    <3> QED
      BY <2>1, <2>2, <3>2, SameViewsTrans
  <2> QED
    BY <2>3, <2>4
<1>22. CASE TemplateThrows \/ Catch
  BY <1>22, ViewsSame DEF TemplateThrows, Catch
<1>23. CASE Unwind
  <2>1. InPlate /\ stored' = stored
    BY <1>23 DEF Unwind
  <2>2. SameViews(Below, stack) /\ Below \in Seq(Frame)
    BY <2>1, TopIs, ViewsPop DEF Top
  <2>3. CASE stack' = Below
    BY <2>1, <2>2, <2>3
  <2>4. CASE Layout # None /\ Me.layout # None /\ stack' = Append(Below, [Running(Layout) EXCEPT !.live = FALSE])
    <3> DEFINE g == [Running(Layout) EXCEPT !.live = FALSE]
    <3>1. Layout \in Nat
      BY <2>1, <2>4, LayoutIs DEF Types
    <3>2. g \in PlateFrame /\ IsPlate(g)
      BY <3>1, RunningIs DEF Types
    <3>3. g \in Frame
      BY <3>2 DEF Frame
    <3> HIDE DEF g
    <3>4. stack' = Append(Below, g)
      BY <2>4 DEF g
    <3>5. SameViews(stack', Below)
      BY <2>2, <3>2, <3>3, <3>4, ViewsPush
    <3> QED
      BY <2>1, <2>2, <3>5, SameViewsTrans
  <2> QED
    BY <1>23, <2>3, <2>4 DEF Unwind
<1> QED
  BY <1>1, <1>2, <1>3, <1>4, <1>5, <1>6, <1>9, <1>10, <1>11, <1>14, <1>15, <1>16, <1>17, <1>18,
     <1>19, <1>20, <1>21, <1>22, <1>23 DEF PlatesNext, Call, Return, Shifts

LEMMA ViewGone ==
  ASSUME NEW s \in Seq(Frame), s # <<>>, Last(s).kind = "view", NEW v \in Nat, NEW w, OneView(s, v, w)
  PROVE  v = Len(s) /\ w = Last(s).want /\ NoView(Front(s))
<1>1. PICK n \in Nat: n = Len(s) /\ DOMAIN s = 1..n /\ n > 0 /\ Last(s) = s[n]
  BY EmptySeq DEF Last
<1>2. PICK a \in Seq(Frame): a = Front(s) /\ Len(a) = n - 1 /\ DOMAIN a = 1..n - 1 /\ \A k \in 1..n - 1: a[k] = s[k]
  BY <1>1, FrontIs
<1>3. v = n
  BY <1>1 DEF OneView
<1>4. NoView(a)
  <2> SUFFICES ASSUME NEW i \in 1..n - 1, a[i].kind = "view" PROVE FALSE
    BY <1>2 DEF NoView
  <2>1. i \in DOMAIN s /\ s[i].kind = "view" /\ i # n
    BY <1>1, <1>2
  <2> QED
    BY <1>3, <2>1 DEF OneView
<1> QED
  BY <1>1, <1>2, <1>3, <1>4 DEF OneView, ViewAt

LEMMA ViewCome ==
  ASSUME NEW s \in Seq(Frame), NoView(s), NEW f \in Frame, f.kind = "view"
  PROVE  OneView(Append(s, f), Len(s) + 1, f.want)
<1>1. PICK n \in Nat: n = Len(s) /\ DOMAIN s = 1..n
  OBVIOUS
<1>2. PICK a \in Seq(Frame): a = Append(s, f)
  BY AppendIs
<1>3. Len(a) = n + 1 /\ DOMAIN a = 1..n + 1 /\ a[n + 1] = f /\ \A k \in 1..n: a[k] = s[k]
  BY <1>1, <1>2, AppendIs, LenProperties
<1>4. ASSUME NEW i \in DOMAIN a, a[i].kind = "view" PROVE i = n + 1
  BY <1>1, <1>3, <1>4 DEF NoView
<1> QED
  BY <1>1, <1>2, <1>3, <1>4 DEF OneView, ViewAt

LEMMA RenderViewIs ==
  ASSUME Types, NEW v \in View, NEW l \in ViewLists, NEW raw \in BOOLEAN, RenderView(v, l, raw),
         odd' = {}, mode' # "dead"
  PROVE  \E u \in Seq(Name), f \in Frame:
           /\ u # <<>> /\ IsInjective(u) /\ f.kind = "view" /\ f.want = Wanted(u, raw) /\ f.want \in Want
           /\ Append(stack, f) \in Seq(Frame) /\ stack \in Seq(Frame) /\ NoView(stack)
           /\ plate' = plate \o Plates(u, raw) /\ stored' = Stored(u)
           /\ Begin(plate', Len(plate) + 1, Append(stack, f)) /\ SameViews(stack', Append(stack, f))
<1>1. Levels(v, l) \in Seq(Name)
  BY AskingTyped DEF RenderView
<1>2. PICK u \in Seq(Name): u = Levels(v, l) /\ u # <<>>
  BY <1>1 DEF RenderView
<1>3. PICK f \in Frame: /\ f = Rendering(v, Wanted(u, raw)) /\ f.kind = "view" /\ ~IsPlate(f)
                        /\ f.want = Wanted(u, raw) /\ f.want \in Want
  BY <1>2, RenderingIs DEF Want
<1>4. stack \in Seq(Frame) /\ Len(plate) + 1 \in Nat
  BY DEF Types, StackTyped
<1>5. Append(stack, f) \in Seq(Frame)
  BY <1>4, AppendIs
<1>6. plate' = plate \o Plates(u, raw) /\ stored' = Stored(u) /\ Begin(plate', Len(plate) + 1, Append(stack, f))
  BY <1>2, <1>3 DEF RenderView
<1>7. SameViews(stack', Append(stack, f))
  BY <1>4, <1>5, <1>6, ViewsBegin
<1>8. IsInjective(u)
  <2>1. (IF IsInjective(u) THEN {} ELSE {"twice"}) \subseteq odd'
    BY <1>2 DEF RenderView
  <2> QED
    BY <2>1
<1>9. NoView(stack)
  <2>1. (IF \E i \in 1 .. Len(stack): stack[i].kind = "view" THEN {"nested"} ELSE {}) \subseteq odd'
    BY DEF RenderView
  <2>2. DOMAIN stack = 1..Len(stack)
    BY <1>4
  <2> QED
    BY <2>1, <2>2 DEF NoView
<1> QED
  BY <1>2, <1>3, <1>4, <1>5, <1>6, <1>7, <1>8, <1>9

LEMMA ViewEndsIs ==
  ASSUME Types, ViewEnds
  PROVE  /\ InPlate /\ Below \in Seq(Frame) /\ Below # <<>> /\ Last(Below).kind = "view" /\ SameViews(Below, stack)
         /\ Front(Below) \in Seq(Frame) /\ SameViews(stack', Front(Below))
         /\ ret \in Text /\ ret # None
         /\ shown' = [want |-> Last(Below).want, text |-> ret]
<1>1. /\ InPlate /\ ret \in Text /\ ret # None /\ Below # <<>> /\ Last(Below).kind = "view"
      /\ shown' = [want |-> Last(Below).want, text |-> ret]
  BY DEF ViewEnds, Types, Maybe
<1>2. Below \in Seq(Frame) /\ SameViews(Below, stack)
  BY <1>1, TopIs, ViewsPop DEF Top
<1>3. PICK r: r = Front(Below)
  OBVIOUS
<1>4. r \in Seq(Frame) /\ (r # <<>> => IsPlate(Last(r)))
  BY <1>1, <1>3, BelowTyped DEF StackTyped
<1>5. CASE r = <<>>
  <2>1. stack' = r
    BY <1>3, <1>5 DEF ViewEnds
  <2> QED
    BY <1>1, <1>2, <1>3, <1>4, <2>1 DEF SameViews
<1>6. CASE r # <<>>
  <2>1. stack' = Append(Front(r), Heard(Last(r), ret))
    BY <1>3, <1>6 DEF ViewEnds
  <2>2. SameViews(stack', r)
    BY <1>1, <1>4, <1>6, <2>1, ViewsHeard
  <2> QED
    BY <1>1, <1>2, <1>3, <1>4, <2>2
<1> QED
  BY <1>5, <1>6

LEMMA ShapeStep ==
  ASSUME Types, Types', PageShape, [PlatesNext]_platesVars
  PROVE  PageShape'
<1>1. CASE UNCHANGED platesVars
  BY <1>1 DEF platesVars, PageShape
<1>2. CASE PlatesNext
  <2> SUFFICES ASSUME odd' = {}, mode' # "dead"
               PROVE  \/ NoView(stack') /\ \A n \in Name: stored'[n] = None
                      \/ \E v \in Nat: \E w \in Want: OneView(stack', v, w)
    BY DEF PageShape
  <2>1. \/ NoView(stack) /\ \A n \in Name: stored[n] = None
        \/ \E v \in Nat: \E w \in Want: OneView(stack, v, w)
    BY <1>2, NextIs DEF PageShape
  <2>2. stack \in Seq(Frame) /\ stack' \in Seq(Frame)
    BY DEF Types, StackTyped
  <2>3. CASE ~Shifts
    <3>1. SameViews(stack', stack) /\ stored' = stored
      BY <1>2, <2>3, ViewsStay
    <3> QED
      BY <2>1, <2>2, <3>1, SameViewsIs
  <2>4. ASSUME NEW v \in View, NEW l \in ViewLists, NEW raw \in BOOLEAN, RenderView(v, l, raw)
        PROVE  \E i \in Nat: \E w \in Want: OneView(stack', i, w)
    <3>1. PICK f \in Frame: /\ f.kind = "view" /\ f.want \in Want
                            /\ Append(stack, f) \in Seq(Frame) /\ NoView(stack)
                            /\ SameViews(stack', Append(stack, f))
      BY <2>4, RenderViewIs
    <3>2. OneView(Append(stack, f), Len(stack) + 1, f.want) /\ Len(stack) + 1 \in Nat
      BY <2>2, <3>1, ViewCome
    <3>3. OneView(stack', Len(stack) + 1, f.want)
      BY <2>2, <3>1, <3>2, SameViewsIs
    <3> QED
      BY <3>1, <3>2, <3>3
  <2>5. CASE ViewEnds
    <3>1. /\ Below \in Seq(Frame) /\ Below # <<>> /\ Last(Below).kind = "view" /\ SameViews(Below, stack)
          /\ Front(Below) \in Seq(Frame) /\ SameViews(stack', Front(Below))
      BY <2>5, ViewEndsIs
    <3>2. NoView(Below) \/ \E v \in Nat: \E w \in Want: OneView(Below, v, w)
      BY <2>1, <2>2, <3>1, SameViewsIs
    <3>3. ~NoView(Below)
      <4>1. Len(Below) \in DOMAIN Below /\ Last(Below) = Below[Len(Below)]
        BY <3>1, FrontIs
      <4> QED
        BY <3>1, <4>1 DEF NoView
    <3>4. NoView(Front(Below))
      BY <3>1, <3>2, <3>3, ViewGone
    <3>5. NoView(stack')
      BY <2>2, <3>1, <3>4, SameViewsIs
    <3>6. \A n \in Name: stored'[n] = None
      BY <2>5, CleanIs DEF ViewEnds
    <3> QED
      BY <3>5, <3>6
  <2>6. CASE UnwindView
    <3>1. stack # <<>> /\ Last(stack).kind = "view" /\ stack' = Front(stack) /\ Clean
      BY <2>6 DEF UnwindView, Top, Below
    <3>2. ~NoView(stack)
      <4>1. Len(stack) \in DOMAIN stack /\ Last(stack) = stack[Len(stack)]
        BY <2>2, <3>1, FrontIs
      <4> QED
        BY <3>1, <4>1 DEF NoView
    <3>3. NoView(Front(stack))
      BY <2>1, <2>2, <3>1, <3>2, ViewGone
    <3>4. \A n \in Name: stored'[n] = None
      BY <3>1, CleanIs
    <3> QED
      BY <3>1, <3>3, <3>4
  <2> QED
    BY <2>3, <2>4, <2>5, <2>6 DEF Shifts
<1> QED
  BY <1>1, <1>2
-----------------------------------------------------------------------------
(* What a step leaves of a page.                                           *)

LEMMA WantIs ==
  ASSUME NEW w \in Want
  PROVE  /\ Len(w) \in Nat /\ DOMAIN w = 1..Len(w)
         /\ \A i \in DOMAIN w: w[i] \in Name \cup {Raw} /\ w[i] # Missing
BY PlatesAssumption DEF Want

\* The plates p of a page that are not its levels have nothing to give.
Plain(p, w, b) ==
  /\ p > b + Len(w)
  /\ plate[p].layout = None /\ plate[p].content = None /\ ~plate[p].raw
  /\ plate[p].name \in extra /\ \A i \in DOMAIN w: plate[p].name # w[i]

Unturned(p) ==
  /\ plate'[p].name = plate[p].name /\ plate'[p].layout = plate[p].layout /\ plate'[p].raw = plate[p].raw

LEMMA StandsStays ==
  ASSUME NEW w \in Want, NEW b \in Nat, Stands(w, b), Types, Types', Len(plate) <= Len(plate'), stored' = stored,
         \A p \in DOMAIN plate: Unturned(p)
  PROVE  Stands(w, b)'
<1>1. PICK n \in Nat, e \in Nat: n = Len(plate) /\ e = Len(w) /\ DOMAIN plate = 1..n /\ DOMAIN w = 1..e
  BY WantIs DEF Types
<1>2. n <= Len(plate') /\ Len(plate') \in Nat
  BY <1>1 DEF Types
<1>3. e > 0 /\ b + e <= n
  BY <1>1 DEF Stands
<1>4. \A j \in 1..e: b + j \in DOMAIN plate
  BY <1>1, <1>3
<1>5. \A j \in 1..e: Unturned(b + j)
  BY <1>4
<1>6. b + e <= Len(plate')
  BY <1>2, <1>3
<1>7. Len(w) > 0 /\ b + Len(w) <= Len(plate')
  BY <1>1, <1>3, <1>6
<1>8. \A j \in DOMAIN w:
        /\ plate'[b + j].layout = IF j < Len(w) THEN w[j + 1] ELSE None
        /\ j > 1 => stored'[w[j]] = b + j
        /\ plate'[b + j].raw => j = 1 /\ w[j] = Raw
        /\ ~plate'[b + j].raw => plate'[b + j].name = w[j]
  BY <1>1, <1>5 DEF Stands, Unturned
<1>9. \A i, j \in DOMAIN w: w[i] = w[j] => i = j
  BY DEF Stands
<1>10. \A x \in Name: stored'[x] = None \/ \E j \in DOMAIN w: x = w[j]
  BY DEF Stands
<1> QED
  BY ONLY <1>7, <1>8, <1>9, <1>10 DEF Stands

LEMMA KeptStays ==
  ASSUME NEW w \in Want, NEW b \in Nat, Stands(w, b), Kept(w, b), Types, Types', extra \subseteq extra',
         DOMAIN plate \subseteq DOMAIN plate',
         \A p \in DOMAIN plate: Unturned(p),
         \A p \in DOMAIN plate: p > b + Len(w) => plate'[p].content = plate[p].content,
         \A j \in DOMAIN w: plate'[b + j].content = plate[b + j].content \/ plate'[b + j].content = None
                            \/ (Tidy(plate'[b + j].content, w, j - 1, extra') /\ Has(plate'[b + j].content, w, j - 1)),
         \A p \in DOMAIN plate: p > b => \A s \in Section: plate'[p].text[s] = plate[p].text[s]
                                                          \/ Fit(plate'[p].text[s], p, w, b, extra'),
         \A p \in DOMAIN plate' \ DOMAIN plate: Plain(p, w, b)' /\ \A s \in Section: plate'[p].text[s] = None
  PROVE  Kept(w, b)'
<1>1. ASSUME NEW p \in DOMAIN plate', p > b + Len(w) PROVE Plain(p, w, b)'
  <2>1. CASE p \in DOMAIN plate
    <3>1. Plain(p, w, b)
      BY <1>1, <2>1 DEF Kept, Plain
    <3> QED
      BY <1>1, <2>1, <3>1 DEF Plain, Unturned
  <2> QED
    BY <1>1, <2>1
<1>2. ASSUME NEW p \in DOMAIN plate', p > b, NEW s \in Section, plate'[p].text[s] # None
      PROVE  Fit(plate'[p].text[s], p, w, b, extra')
  <2>1. p \in DOMAIN plate
    BY <1>2
  <2>2. CASE plate'[p].text[s] = plate[p].text[s]
    <3>1. Fit(plate[p].text[s], p, w, b, extra)
      BY <1>2, <2>1, <2>2 DEF Kept
    <3> QED
      BY <2>2, <3>1, FitsMore
  <2> QED
    BY <1>2, <2>1, <2>2
<1>3. ASSUME NEW j \in DOMAIN w, plate'[b + j].content # None
      PROVE  Tidy(plate'[b + j].content, w, j - 1, extra') /\ Has(plate'[b + j].content, w, j - 1)
  <2>1. CASE plate'[b + j].content = plate[b + j].content
    <3>1. Tidy(plate[b + j].content, w, j - 1, extra) /\ Has(plate[b + j].content, w, j - 1)
      BY <1>3, <2>1 DEF Kept
    <3> QED
      BY <2>1, <3>1, FitsMore
  <2> QED
    BY <1>3, <2>1
<1> QED
  BY <1>1, <1>2, <1>3 DEF Kept, Plain

\* The frames of a page stay, with what is in their buffers.
LEMMA FitsStays ==
  ASSUME NEW f \in PlateFrame, NEW o, NEW o2, NEW w, NEW b, NEW x, NEW y, NEW lv, x \subseteq y,
         \A i \in f.base + 1..Depth(f): o2[i] = o[i]
  PROVE  /\ Fits(f, o, w, b, x) => Fits(f, o2, w, b, y)
         /\ Starts(f, o, w, lv) => Starts(f, o2, w, lv)
<1>1. f.base + 1 \in f.base + 1..Depth(f)
  BY DepthIs
<1> QED
  BY <1>1, FitsMore DEF Fits, Starts

LEMMA RisenMore ==
  ASSUME NEW v, NEW w, NEW b, NEW lv, NEW s, NEW o, NEW x, NEW y, x \subseteq y, Risen(v, w, b, lv, s, o, x)
  PROVE  Risen(v, w, b, lv, s, o, y)
BY FitsMore DEF Risen, Fits

\* The frames v + 1 .. m of s are still there, with what is in their buffers,
\* and those that s2 has above them are of inserted templates.
Stay(v, m, s, o, s2, o2) ==
  /\ v < m /\ m <= Len(s) /\ m <= Len(s2)
  /\ \A k \in v + 1..m: IsPlate(s[k]) /\ \A i \in s[k].base + 1..Depth(s[k]): o2[i] = o[i]
  /\ \A k \in 1..m: s2[k] = s[k]
Added(m, s2, o2, w, b, x) ==
  \A k \in m + 1..Len(s2): s2[k].of > b + Len(w) /\ Fits(s2[k], o2, w, b, x)

LEMMA RisenPart ==
  ASSUME NEW v \in Nat, NEW w, NEW b \in Nat, NEW lv, NEW s \in Seq(Frame), NEW o, NEW x, Risen(v, w, b, lv, s, o, x),
         NEW m \in Nat, NEW s2 \in Seq(Frame), NEW o2, Stay(v, m, s, o, s2, o2), Added(m, s2, o2, w, b, x)
  PROVE  Risen(v, w, b, lv, s2, o2, x)
<1>1. PICK n \in Nat, q \in Nat: n = Len(s) /\ DOMAIN s = 1..n /\ q = Len(s2) /\ DOMAIN s2 = 1..q
  OBVIOUS
<1> USE DEF Stay, Added
<1>2. \A k \in v + 1..m: s[k] \in PlateFrame /\ s2[k] = s[k] /\ k \in 1..n
  <2> SUFFICES ASSUME NEW k \in v + 1..m PROVE s[k] \in PlateFrame /\ s2[k] = s[k] /\ k \in 1..n
    OBVIOUS
  <2>1. k \in 1..n /\ k \in 1..m
    BY <1>1
  <2>2. s[k] \in Frame
    BY <1>1, <2>1
  <2> QED
    BY <2>1, <2>2, FrameIs
<1>3. v + 1 \in v + 1..m
  OBVIOUS
<1>4. s2[v + 1].of = b + lv /\ Starts(s2[v + 1], o2, w, lv)
  <2>1. s2[v + 1] = s[v + 1] /\ s[v + 1] \in PlateFrame /\ v + 1 \in 1..n
    BY <1>2, <1>3
  <2>2. \A i \in s[v + 1].base + 1..Depth(s[v + 1]): o2[i] = o[i]
    BY <1>3
  <2>3. s[v + 1].of = b + lv /\ Starts(s[v + 1], o, w, lv)
    BY DEF Risen
  <2> QED
    BY <2>1, <2>2, <2>3, FitsStays
<1>5. ASSUME NEW k \in 1..q, k > v PROVE /\ k > v + 1 => s2[k].of > b + Len(w)
                                         /\ Fits(s2[k], o2, w, b, x)
  <2>1. CASE k \in v + 1..m
    <3>1. s[k] \in PlateFrame /\ s2[k] = s[k] /\ k \in DOMAIN s
      BY <1>1, <1>2, <2>1
    <3>2. \A i \in s[k].base + 1..Depth(s[k]): o2[i] = o[i]
      BY <2>1
    <3>3. Fits(s[k], o, w, b, x) /\ (k > v + 1 => s[k].of > b + Len(w))
      BY <1>5, <3>1 DEF Risen
    <3> QED
      BY <3>1, <3>2, <3>3, FitsStays
  <2>2. CASE k \in m + 1..q
    BY <1>1, <2>2
  <2> QED
    BY <1>5, <2>1, <2>2
<1> QED
  BY <1>1, <1>4, <1>5 DEF Risen

LEMMA AboveView ==
  ASSUME NEW v \in Nat, NEW w, NEW s \in Seq(Frame), OneView(s, v, w)
  PROVE  v \in 1..Len(s) /\ \A k \in v + 1..Len(s): IsPlate(s[k]) /\ s[k] \in PlateFrame
<1>1. PICK n \in Nat: n = Len(s) /\ DOMAIN s = 1..n
  OBVIOUS
<1>2. v \in 1..n
  BY <1>1 DEF OneView, ViewAt
<1>3. ASSUME NEW k \in v + 1..n PROVE IsPlate(s[k]) /\ s[k] \in PlateFrame
  <2>1. k \in 1..n /\ k # v
    BY <1>2
  <2>2. s[k] \in Frame /\ s[k].kind # "view"
    BY <1>1, <2>1 DEF OneView
  <2> QED
    BY <2>2, FrameIs
<1> QED
  BY <1>1, <1>2, <1>3

\* where the buffers of a frame are
LEMMA SettledIn ==
  ASSUME NEW s \in Seq(Frame), NEW o \in Seq(Text), Settled(s, o), NEW k \in DOMAIN s, IsPlate(s[k])
  PROVE  /\ s[k] \in PlateFrame /\ s[k].live
         /\ \A i \in s[k].base + 1..Depth(s[k]): i \in 1..Len(o)
         /\ \A j \in DOMAIN s: k < j /\ IsPlate(s[j]) =>
              \A i \in s[k].base + 1..Depth(s[k]): i \in 1..s[j].base
<1>1. s[k] \in PlateFrame
  <2>1. s[k] \in Frame
    OBVIOUS
  <2> QED
    BY <2>1, FrameIs
<1>2. PICK d \in Nat, e \in Nat: d = Depth(s[k]) /\ e = s[k].base /\ e < d
  BY <1>1, DepthIs
<1>3. s[k].live /\ d <= Len(o) /\ Len(o) \in Nat
  BY <1>2 DEF Settled
<1>4. ASSUME NEW j \in DOMAIN s, k < j, IsPlate(s[j]) PROVE d <= s[j].base /\ s[j].base \in Nat
  <2>1. s[j] \in PlateFrame
    <3>1. s[j] \in Frame
      OBVIOUS
    <3> QED
      BY <1>4, <3>1, FrameIs
  <2>2. s[j].base \in Nat
    BY <2>1, DepthIs
  <2> QED
    BY <1>2, <1>4, <2>2 DEF Settled
<1>5. \A i \in e + 1..d: i \in 1..Len(o)
  BY <1>3
<1>6. \A j \in DOMAIN s: k < j /\ IsPlate(s[j]) => \A i \in e + 1..d: i \in 1..s[j].base
  BY <1>4
<1> QED
  BY <1>1, <1>2, <1>3, <1>5, <1>6

LEMMA HeightIs ==
  ASSUME NEW s \in Seq(Frame), NEW v \in Nat, v < Len(s)
  PROVE  \E n \in Nat, m \in Nat: n = Len(s) /\ DOMAIN s = 1..n /\ n = m + 1 /\ s # <<>>
<1>1. PICK n \in Nat: n = Len(s)
  OBVIOUS
<1>2. DOMAIN s = 1..n /\ n > 0
  BY <1>1
<1>3. s # <<>>
  BY <1>1, <1>2, EmptySeq
<1>4. n - 1 \in Nat /\ n = (n - 1) + 1
  BY <1>2
<1> QED
  BY <1>1, <1>2, <1>3, <1>4

LEMMA RisenPush ==
  ASSUME NEW v \in Nat, NEW w, NEW b \in Nat, NEW lv, NEW s \in Seq(Frame), NEW o \in Seq(Text), NEW x,
         Risen(v, w, b, lv, s, o, x), OneView(s, v, w), v < Len(s), Settled(s, o),
         NEW g \in Frame, NEW o2, g.of > b + Len(w), Fits(g, o2, w, b, x), \A i \in 1..Len(o): o2[i] = o[i]
  PROVE  Risen(v, w, b, lv, Append(s, g), o2, x)
<1>1. PICK n \in Nat: n = Len(s) /\ DOMAIN s = 1..n
  OBVIOUS
<1>2. PICK a \in Seq(Frame): a = Append(s, g)
  BY AppendIs
<1>3. Len(a) = n + 1 /\ a[n + 1] = g /\ \A k \in 1..n: a[k] = s[k]
  BY <1>1, <1>2, AppendIs
<1>4. \A k \in v + 1..n: IsPlate(s[k]) /\ k \in DOMAIN s
  BY <1>1, AboveView
<1>5. \A k \in v + 1..n: \A i \in s[k].base + 1..Depth(s[k]): o2[i] = o[i]
  BY <1>4, SettledIn
<1>6. \A k \in n + 1..Len(a): a[k].of > b + Len(w) /\ Fits(a[k], o2, w, b, x)
  <2>1. \A k \in n + 1..n + 1: k = n + 1
    OBVIOUS
  <2> QED
    BY <1>3, <2>1
<1>7. Stay(v, n, s, o, a, o2) /\ Added(n, a, o2, w, b, x)
  <2>1. n <= Len(a) /\ v < n /\ n <= Len(s)
    BY <1>1, <1>3
  <2> QED
    BY <1>3, <1>4, <1>5, <1>6, <2>1 DEF Stay, Added
<1>8. Risen(v, w, b, lv, a, o2, x)
  BY <1>7, RisenPart
<1> QED
  BY <1>2, <1>8

LEMMA RisenPop ==
  ASSUME NEW v \in Nat, NEW w, NEW b \in Nat, NEW lv, NEW s \in Seq(Frame), NEW o, NEW x,
         Risen(v, w, b, lv, s, o, x), OneView(s, v, w), v + 1 < Len(s),
         NEW o2 \in Seq(Text), Settled(Front(s), o2), \A i \in 1..Len(o2): o2[i] = o[i]
  PROVE  Risen(v, w, b, lv, Front(s), o2, x)
<1>1. PICK n \in Nat, m \in Nat: n = Len(s) /\ DOMAIN s = 1..n /\ n = m + 1 /\ s # <<>>
  <2>1. v < Len(s)
    <3>1. Len(s) \in Nat
      OBVIOUS
    <3> QED
      BY <3>1
  <2> QED
    BY <2>1, HeightIs
<1>2. PICK a \in Seq(Frame): a = Front(s) /\ Len(a) = m /\ \A k \in 1..m: a[k] = s[k]
  <2>1. Front(s) \in Seq(Frame) /\ Len(Front(s)) = Len(s) - 1 /\ \A k \in 1..Len(s) - 1: Front(s)[k] = s[k]
    BY <1>1, FrontIs
  <2>2. Len(s) - 1 = m
    BY <1>1
  <2> QED
    BY <2>1, <2>2
<1>3. \A k \in v + 1..m: IsPlate(s[k]) /\ k \in 1..m
  <2>1. \A k \in v + 1..n: IsPlate(s[k])
    BY <1>1, AboveView
  <2>2. \A k \in v + 1..m: k \in v + 1..n /\ k \in 1..m
    BY <1>1
  <2> QED
    BY <2>1, <2>2
<1>4. \A k \in v + 1..m: \A i \in s[k].base + 1..Depth(s[k]): o2[i] = o[i]
  <2> SUFFICES ASSUME NEW k \in v + 1..m, NEW i \in s[k].base + 1..Depth(s[k]) PROVE o2[i] = o[i]
    OBVIOUS
  <2>1. k \in DOMAIN a /\ a[k] = s[k] /\ IsPlate(a[k])
    BY <1>2, <1>3
  <2>2. i \in 1..Len(o2)
    BY <1>2, <2>1, SettledIn
  <2> QED
    BY <2>2
<1>5. ~(\E k \in m + 1..Len(a): TRUE)
  BY <1>2
<1>6. v < m /\ m <= Len(s) /\ m <= Len(a)
  BY <1>1, <1>2
<1>7. Stay(v, m, s, o, a, o2) /\ Added(m, a, o2, w, b, x)
  BY <1>2, <1>3, <1>4, <1>5, <1>6 DEF Stay, Added
<1>8. Risen(v, w, b, lv, a, o2, x)
  BY <1>7, RisenPart
<1> QED
  BY <1>2, <1>8

LEMMA RisenTop ==
  ASSUME NEW v \in Nat, NEW w, NEW b \in Nat, NEW lv, NEW s \in Seq(Frame), NEW o \in Seq(Text), NEW x,
         Risen(v, w, b, lv, s, o, x), OneView(s, v, w), v < Len(s), Settled(s, o),
         NEW g \in Frame, g.of = Last(s).of, NEW o2, Fits(g, o2, w, b, x),
         \A i \in 1..Last(s).base: o2[i] = o[i],
         Len(s) = v + 1 => Starts(g, o2, w, lv)
  PROVE  Risen(v, w, b, lv, Append(Front(s), g), o2, x)
<1>1. PICK n \in Nat, m \in Nat: n = Len(s) /\ DOMAIN s = 1..n /\ n = m + 1 /\ s # <<>>
  BY HeightIs
<1>2. PICK f \in Seq(Frame): f = Front(s) /\ Len(f) = m /\ (\A k \in 1..m: f[k] = s[k]) /\ Last(s) = s[n]
  <2>1. \A k \in 1..Len(s) - 1: k \in 1..m
    BY <1>1
  <2>2. Front(s) \in Seq(Frame) /\ Len(Front(s)) = m /\ (\A k \in 1..m: Front(s)[k] = s[k]) /\ Last(s) = s[n]
    BY ONLY <1>1, <2>1, FrontIs, s \in Seq(Frame), SMTT(40)
  <2> QED
    BY ONLY <2>2
<1>3. PICK a \in Seq(Frame): a = Append(f, g)
  BY AppendIs
<1>4. Len(a) = n /\ a[n] = g /\ \A k \in 1..m: a[k] = s[k]
  BY <1>1, <1>2, <1>3, AppendIs
<1>5. IsPlate(s[n]) /\ \A k \in v + 1..m: IsPlate(s[k]) /\ k \in DOMAIN s /\ k < n
  <2>1. \A k \in v + 1..n: IsPlate(s[k])
    BY <1>1, AboveView
  <2>2. n \in v + 1..n /\ \A k \in v + 1..m: k \in v + 1..n /\ k \in 1..n /\ k < n
    BY <1>1
  <2> QED
    BY <1>1, <2>1, <2>2
<1>6. CASE n = v + 1
  <2>1. s[n].of = b + lv
    BY <1>6 DEF Risen
  <2>2. \A k \in DOMAIN a: k > v => k = n
    BY <1>4, <1>6
  <2> QED
    BY <1>2, <1>3, <1>4, <1>6, <1>1, <2>1, <2>2 DEF Risen
<1>7. CASE n > v + 1
  <2>1. \A k \in v + 1..m: \A i \in s[k].base + 1..Depth(s[k]): o2[i] = o[i]
    <3> SUFFICES ASSUME NEW k \in v + 1..m, NEW i \in s[k].base + 1..Depth(s[k]) PROVE o2[i] = o[i]
      OBVIOUS
    <3>1. k \in DOMAIN s /\ n \in DOMAIN s /\ k < n /\ IsPlate(s[k]) /\ IsPlate(s[n])
      BY <1>1, <1>5
    <3>2. i \in 1..s[n].base
      BY <3>1, SettledIn
    <3> QED
      BY <1>2, <3>2
  <2>2. \A k \in m + 1..Len(a): a[k].of > b + Len(w) /\ Fits(a[k], o2, w, b, x)
    <3>1. s[n].of > b + Len(w)
      <4>1. \A k \in DOMAIN s: k > v + 1 => s[k].of > b + Len(w)
        BY Zenon DEF Risen
      <4>2. n \in DOMAIN s /\ n > v + 1
        BY <1>1, <1>7
      <4> QED
        BY ONLY <4>1, <4>2
    <3>2. \A k \in m + 1..n: k = n
      BY <1>1
    <3> QED
      BY <1>1, <1>2, <1>4, <3>1, <3>2
  <2>3. v < m /\ m <= Len(s) /\ m <= Len(a)
    BY <1>1, <1>4, <1>7
  <2>4. Stay(v, m, s, o, a, o2) /\ Added(m, a, o2, w, b, x)
    BY <1>4, <1>5, <2>1, <2>2, <2>3 DEF Stay, Added
  <2>5. Risen(v, w, b, lv, a, o2, x)
    BY <2>4, RisenPart
  <2> QED
    BY <1>2, <1>3, <2>5
<1> QED
  BY <1>1, <1>6, <1>7
-----------------------------------------------------------------------------
(* The template on top of a page calls.                                    *)

OnLevel(v, w, b, lv) ==
  /\ lv \in DOMAIN w /\ Risen(v, w, b, lv, stack, ob, extra) /\ Hands(v, w, lv) /\ Fed(v, b, lv)

LEMMA InPageIs ==
  ASSUME NEW v, NEW w, NEW b
  PROVE  InPage(v, w, b) <=> /\ Stands(w, b) /\ Kept(w, b)
                             /\ v < Len(stack) => \E lv \in DOMAIN w: OnLevel(v, w, b, lv)
BY DEF InPage, OnLevel

LEMMA InPageIsStill ==
  ASSUME NEW v, NEW w, NEW b
  PROVE  InPage(v, w, b)' <=> /\ Stands(w, b)' /\ Kept(w, b)'
                              /\ v < Len(stack') => \E lv \in DOMAIN w: OnLevel(v, w, b, lv)'
BY DEF InPage, OnLevel

\* What the page says of the template on top.
LEMMA TopOfPage ==
  ASSUME Types, InPlate, NEW v \in Nat, NEW w \in Want, NEW b \in Nat, NEW lv, OneView(stack, v, w), Stands(w, b),
         OnLevel(v, w, b, lv)
  PROVE  /\ v < Len(stack) /\ lv \in Nat \ {0} /\ lv <= Len(w) /\ Len(w) \in Nat /\ Len(stack) \in Nat
         /\ Len(stack) = v + 1 => /\ Top.of = b + lv /\ Top = stack[v + 1]
                                  /\ Starts(Top, ob, w, lv)
         /\ Len(stack) > v + 1 => Top.of > b + Len(w)
         /\ Top.of > b
         /\ Fits(Top, ob, w, b, extra)
<1>a. Len(w) \in Nat /\ DOMAIN w = 1..Len(w)
  BY WantIs
<1>b. /\ Len(stack) \in Nat \ {0} /\ stack \in Seq(Frame) /\ Top = stack[Len(stack)] /\ IsPlate(Top)
      /\ Top \in PlateFrame
  BY TopIs
<1>c. DOMAIN stack = 1..Len(stack)
  BY <1>b
<1>d. PICK e \in Nat: e = Len(w) /\ DOMAIN w = 1..e
  BY WantIs
<1>e. PICK n \in Nat \ {0}: n = Len(stack)
  BY <1>b
<1>1. /\ n > 0 /\ DOMAIN stack = 1..n /\ DOMAIN w = 1..e
      /\ Top = stack[n] /\ IsPlate(Top) /\ Top \in PlateFrame
  BY <1>a, <1>b, <1>c, <1>d, <1>e
<1>2. v \in 1..n /\ stack[v].kind = "view"
  BY <1>1, <1>d, <1>e DEF OneView, ViewAt
<1>3. v < n
  BY <1>1, <1>d, <1>e, <1>2 DEF IsPlate
<1>4. lv \in 1..e
  BY <1>1, <1>d, <1>e DEF OnLevel
<1>5. Fits(stack[n], ob, w, b, extra)
  BY <1>1, <1>d, <1>e, <1>3 DEF OnLevel, Risen
<1>6. CASE n = v + 1
  <2>1. Top.of = b + lv /\ Starts(Top, ob, w, lv)
    BY <1>1, <1>d, <1>e, <1>6 DEF OnLevel, Risen
  <2>2. b + lv > b
    BY <1>4
  <2> QED
    BY <1>1, <1>d, <1>e, <1>3, <1>4, <1>5, <1>6, <2>1, <2>2
<1>7. CASE n > v + 1
  <2>1. Top.of > b + e
    BY <1>1, <1>d, <1>e, <1>7 DEF OnLevel, Risen
  <2>2. Top.of > b
    BY <1>1, <1>d, <1>e, <2>1 DEF PlateFrame
  <2> QED
    BY <1>1, <1>d, <1>e, <1>3, <1>4, <1>5, <1>7, <2>1, <2>2
<1> QED
  BY <1>3, <1>6, <1>7, <1>e

\* The template on top of the frames s prints.
LEMMA RisenPrints ==
  ASSUME NEW s, NEW ps, StackTyped(s, ps), s # <<>>, IsPlate(Last(s)), NEW o \in Seq(Text), Settled(s, o),
         NEW v \in Nat, NEW w, NEW b \in Nat, NEW lv \in Nat \ {0}, NEW x, OneView(s, v, w), v < Len(s),
         Risen(v, w, b, lv, s, o, x),
         NEW h \in PlateFrame, h = Last(s),
         NEW f \in PlateFrame, f.of = h.of, f.base = h.base, f.open = h.open, f.live = h.live,
         NEW t \in Text, Fit(t, h.of, w, b, x),
         f.told => h.told \/ (h.open = <<>> /\ (Len(s) = v + 1 => Has(t, w, lv - 1)))
  PROVE  Risen(v, w, b, lv, Append(Front(s), Heard(f, t)), Echo(o, t), x)
<1>1. PICK z1: z1 = Echo(o, t)
  OBVIOUS
<1>2. s \in Seq(Frame) /\ h = s[Len(s)] /\ Len(s) \in Nat /\ Len(s) \in DOMAIN s /\ h.live
  <2>1. s \in Seq(Frame)
    BY DEF StackTyped
  <2>2. h = s[Len(s)] /\ Len(s) \in Nat \ {0}
    BY <2>1, FrontIs
  <2>3. Len(s) \in DOMAIN s
    BY <2>1, <2>2
  <2>4. h.live
    BY <2>2, <2>3 DEF Settled
  <2> QED
    BY <2>1, <2>2, <2>3, <2>4
<1>3. PICK d \in Nat, e \in Nat: d = Depth(h) /\ e = h.base /\ e < d /\ Len(o) = d
  <2>1. Depth(h) \in Nat /\ h.base \in Nat /\ h.base < Depth(h)
    BY DepthIs
  <2>2. Len(o) = Depth(h)
    <3>1. Len(o) = Depth(Last(s))
      BY SettledPop
    <3> QED
      BY <3>1
  <2> QED
    BY <2>1, <2>2
<1>4. PICK g \in PlateFrame: /\ g = Heard(f, t) /\ g.of = h.of /\ g.base = e /\ g.live = h.live /\ g.told = f.told
                             /\ Depth(g) = d
  <2>1. /\ Heard(f, t) \in PlateFrame /\ Heard(f, t).of = f.of /\ Heard(f, t).base = f.base
        /\ Heard(f, t).live = f.live /\ Heard(f, t).told = f.told /\ Len(Heard(f, t).open) = Len(f.open)
    BY HeardIs
  <2>2. Depth(Heard(f, t)) = Depth(h)
    BY <2>1 DEF Depth
  <2> QED
    BY <1>3, <2>1, <2>2
<1>5. /\ z1 \in Seq(Text)
      /\ \A k \in 1..d: z1[k] = IF k = d THEN o[k] \o t ELSE o[k]
  <2>1. /\ Echo(o, t) \in Seq(Text)
        /\ \A k \in 1..Len(o): Echo(o, t)[k] = IF k = Len(o) THEN o[k] \o t ELSE o[k]
    BY EchoIs
  <2> QED
    BY ONLY <1>1, <1>3, <2>1
<1>6. /\ Fits(h, o, w, b, x) /\ (Len(s) = v + 1 => Starts(h, o, w, lv))
  BY <1>2 DEF Risen
<1>8. Fits(g, z1, w, b, x)
  <2> SUFFICES ASSUME NEW i \in e + 1..d PROVE Fit(z1[i], h.of, w, b, x)
    BY <1>4 DEF Fits
  <2>1. Fit(o[i], h.of, w, b, x) /\ i \in 1..d
    BY <1>3, <1>6, <1>2 DEF Fits
  <2>2. o[i] \in Text
    BY <1>2, <1>3, <2>1
  <2> QED
    BY <1>5, <2>1, <2>2, FitConcat
<1>9. \A i \in 1..h.base: z1[i] = o[i]
  BY <1>3, <1>5
<1>10. ASSUME Len(s) = v + 1 PROVE Starts(g, z1, w, lv)
  <2>1. PICK u \in Text: u = o[e + 1]
    BY <1>2, <1>3
  <2>2. w[lv] # Raw /\ u # <<>> /\ u[1] = w[lv] /\ (h.told => Has(u, w, lv - 1))
    BY <1>3, <1>6, <1>2, <1>10, <2>1 DEF Starts
  <2>3. PICK z: z = z1[e + 1]
    OBVIOUS
  <2>4. (e + 1 = d => z = u \o t) /\ (e + 1 # d => z = u)
    <3>1. e + 1 \in 1..d
      <4>1. \A i, j \in Nat: i < j => i + 1 \in 1..j
        OBVIOUS
      <4> QED
        BY <1>3, <4>1
    <3>2. z1[e + 1] = IF e + 1 = d THEN o[e + 1] \o t ELSE o[e + 1]
      BY <1>5, <3>1
    <3> QED
      BY <2>1, <2>3, <3>2
  <2>5. h.open = <<>> => e + 1 = d
    <3>1. Len(<<>>) = 0
      OBVIOUS
    <3> QED
      BY <1>3, <3>1 DEF Depth
  <2>6. lv - 1 \in Nat
    OBVIOUS
  <2>7. z # <<>> /\ z[1] = w[lv]
    <3>1. CASE e + 1 # d
      BY <2>2, <2>4, <3>1
    <3>2. CASE e + 1 = d
      <4>1. PICK n \in Nat: n = Len(u) /\ n > 0
        BY <2>2, EmptySeq DEF Text
      <4>2. PICK m \in Nat: m = Len(t) /\ DOMAIN (u \o t) = 1..n + m /\ (u \o t)[1] = u[1]
        BY <4>1, ConcatIs
      <4>3. u \o t # <<>>
        BY <4>1, <4>2
      <4> QED
        BY <2>2, <2>4, <3>2, <4>2, <4>3
    <3> QED
      BY <3>1, <3>2
  <2>8. ASSUME f.told PROVE Has(z, w, lv - 1)
    <3>1. CASE h.told
      BY <2>2, <2>4, <2>6, <3>1, MadeConcat
    <3>2. CASE h.open = <<>> /\ Has(t, w, lv - 1)
      BY <2>4, <2>5, <2>6, <3>2, MadeConcat
    <3> QED
      BY <1>10, <2>8, <3>1, <3>2
  <2> QED
    BY <1>4, <2>2, <2>3, <2>7, <2>8 DEF Starts
<1>11. g \in Frame
  BY DEF Frame
<1>12. Risen(v, w, b, lv, Append(Front(s), g), z1, x)
  BY <1>2, <1>4, <1>8, <1>9, <1>10, <1>11, RisenTop
<1> QED
  BY <1>1, <1>4, <1>12

LEMMA PageTop ==
  ASSUME Types, InTemplate, Settled(stack, ob), NEW v \in Nat, NEW w \in Want, NEW b \in Nat, NEW lv,
         OneView(stack, v, w), Stands(w, b), OnLevel(v, w, b, lv),
         NEW g \in PlateFrame, Again(g), g.of = Top.of, Fits(g, ob', w, b, extra),
         \A i \in 1..Top.base: ob'[i] = ob[i],
         Len(stack) = v + 1 => Starts(g, ob', w, lv),
         extra' = extra, ret' = None, plate'[b + lv].content = plate[b + lv].content
  PROVE  OnLevel(v, w, b, lv)'
<1>1. InPlate /\ mode = "run"
  BY DEF InTemplate
<1>2. v < Len(stack) /\ stack \in Seq(Frame) /\ ob \in Seq(Text) /\ Top = Last(stack) /\ Below = Front(stack)
  BY <1>1, TopOfPage DEF Types, StackTyped, Top, Below
<1>3. g \in Frame
  BY DEF Frame
<1>4. Risen(v, w, b, lv, stack', ob', extra')
  <2>1. Risen(v, w, b, lv, Append(Front(stack), g), ob', extra)
    BY <1>2, <1>3, RisenTop DEF OnLevel
  <2> QED
    BY <1>2, <2>1 DEF Again
<1>5. Hands(v, w, lv)'
  BY DEF Hands
<1>6. Fed(v, b, lv)'
  BY <1>1 DEF OnLevel, Fed
<1> QED
  BY <1>4, <1>5, <1>6 DEF OnLevel

LEMMA PagePrints ==
  ASSUME Types, InTemplate, Settled(stack, ob), NEW v \in Nat, NEW w \in Want, NEW b \in Nat, NEW lv,
         OneView(stack, v, w), Stands(w, b), OnLevel(v, w, b, lv),
         NEW f \in PlateFrame, f.of = Top.of, f.base = Top.base, f.open = Top.open, f.live = Top.live,
         NEW t \in Text, Prints(f, t), Fit(t, Top.of, w, b, extra),
         f.told => Top.told \/ (Top.open = <<>> /\ (Len(stack) = v + 1 => Has(t, w, lv - 1))),
         extra' = extra, ret' = None, plate' = plate
  PROVE  OnLevel(v, w, b, lv)'
<1>1. InPlate /\ mode = "run"
  BY DEF InTemplate
<1>2. /\ Top \in PlateFrame /\ Top = Last(stack) /\ Below = Front(stack) /\ IsPlate(Top) /\ stack # <<>>
      /\ StackTyped(stack, plate) /\ ob \in Seq(Text)
  BY <1>1, TopIs DEF Types, Top
<1>3. v < Len(stack) /\ lv \in Nat \ {0}
  BY <1>1, TopOfPage
<1>4. Risen(v, w, b, lv, Append(Front(stack), Heard(f, t)), Echo(ob, t), extra)
  BY <1>2, <1>3, RisenPrints DEF OnLevel
<1>5. stack' = Append(Front(stack), Heard(f, t)) /\ ob' = Echo(ob, t)
  BY <1>2 DEF Prints, Again
<1>6. Hands(v, w, lv)'
  BY DEF Hands
<1>7. Fed(v, b, lv)'
  BY <1>1 DEF OnLevel, Fed
<1> QED
  BY <1>4, <1>5, <1>6, <1>7 DEF OnLevel

LEMMA PageOpens ==
  ASSUME Types, InTemplate, Settled(stack, ob), NEW v \in Nat, NEW w \in Want, NEW b \in Nat, NEW lv,
         OneView(stack, v, w), Stands(w, b), OnLevel(v, w, b, lv),
         NEW kind \in {"section", "style"}, Open(kind),
         extra' = extra, ret' = None, plate'[b + lv].content = plate[b + lv].content
  PROVE  OnLevel(v, w, b, lv)'
<1>1. InPlate /\ Top.live
  BY DEF InTemplate
<1>2. /\ Top \in PlateFrame /\ Top = Last(stack) /\ IsPlate(Top) /\ stack # <<>> /\ StackTyped(stack, plate)
      /\ ob \in Seq(Text)
  BY <1>1, TopIs DEF Types, Top
<1>3. PICK d \in Nat, e \in Nat: d = Depth(Top) /\ e = Top.base /\ e < d /\ Len(ob) = d
  <2>1. Depth(Top) \in Nat /\ Top.base \in Nat /\ Top.base < Depth(Top)
    BY <1>2, DepthIs
  <2>2. Len(ob) = Depth(Top)
    BY <1>2, SettledPop
  <2> QED
    BY <2>1, <2>2
<1>4. PICK g \in PlateFrame: /\ g.of = Top.of /\ g.base = e /\ g.live = Top.live /\ g.told = Top.told
                             /\ Depth(g) = d + 1 /\ Again(g)
  <2>1. PICK n \in Nat: n = Len(Top.open)
    BY <1>2, OpenedIs
  <2>2. PICK g \in PlateFrame: g = Opened(Top, kind) /\ g.of = Top.of /\ g.base = Top.base /\ g.live = Top.live
                               /\ g.told = Top.told /\ Len(g.open) = n + 1
    BY <1>2, <2>1, OpenedIs
  <2>3. Again(g)
    BY <2>2 DEF Open, Opened
  <2>4. d = e + 1 + n /\ Depth(g) = e + 1 + (n + 1)
    BY <1>3, <2>1, <2>2 DEF Depth
  <2>5. e + 1 + (n + 1) = d + 1
    BY <2>4
  <2> QED
    BY <1>3, <2>2, <2>3, <2>4, <2>5
<1>5. ob'[d + 1] = <<>> /\ \A k \in 1..d: ob'[k] = ob[k]
  <2>1. Append(ob, <<>>)[Len(ob) + 1] = <<>> /\ \A k \in 1..Len(ob): Append(ob, <<>>)[k] = ob[k]
    BY <1>2, AppendIs, TextIs
  <2> QED
    BY <1>3, <2>1 DEF Open
<1>6. /\ Fits(Top, ob, w, b, extra) /\ (Len(stack) = v + 1 => Starts(Top, ob, w, lv))
  BY <1>1, TopOfPage
<1>7. Fits(g, ob', w, b, extra)
  <2> SUFFICES ASSUME NEW i \in e + 1..d + 1 PROVE Fit(ob'[i], Top.of, w, b, extra)
    BY <1>4 DEF Fits
  <2>1. CASE i = d + 1
    BY <1>5, <2>1, EmptyFits
  <2>2. CASE i \in e + 1..d
    <3>1. Fit(ob[i], Top.of, w, b, extra) /\ i \in 1..d
      BY <1>1, <1>3, <1>6, <2>2 DEF Fits
    <3> QED
      BY <1>5, <3>1
  <2> QED
    BY <2>1, <2>2
<1>8. \A i \in 1..Top.base: ob'[i] = ob[i]
  BY <1>3, <1>5
<1>9. Len(stack) = v + 1 => Starts(g, ob', w, lv)
  <2>1. e + 1 \in 1..d
    BY <1>3
  <2>2. ob'[e + 1] = ob[e + 1]
    BY <1>5, <2>1
  <2> QED
    BY <1>3, <1>4, <1>6, <2>2 DEF Starts
<1> QED
  BY <1>4, <1>7, <1>8, <1>9, PageTop

LEMMA PageCloses ==
  ASSUME Types, InTemplate, Settled(stack, ob), NEW v \in Nat, NEW w \in Want, NEW b \in Nat, NEW lv,
         OneView(stack, v, w), Stands(w, b), OnLevel(v, w, b, lv),
         NEW kind \in {"section", "style"}, Close(kind), "untidy" \notin odd',
         extra' = extra, ret' = None, plate'[b + lv].content = plate[b + lv].content
  PROVE  /\ OnLevel(v, w, b, lv)'
         /\ Last(Top.open).text \in Text /\ Fit(Last(Top.open).text, Top.of, w, b, extra)
<1>1. InPlate /\ Top.live
  BY DEF InTemplate
<1>2. /\ Top \in PlateFrame /\ Top = Last(stack) /\ IsPlate(Top) /\ stack # <<>> /\ StackTyped(stack, plate)
      /\ ob \in Seq(Text)
  BY <1>1, TopIs DEF Types, Top
<1>3. PICK d \in Nat, e \in Nat: d = Depth(Top) /\ e = Top.base /\ e < d /\ Len(ob) = d
  <2>1. Depth(Top) \in Nat /\ Top.base \in Nat /\ Top.base < Depth(Top)
    BY <1>2, DepthIs
  <2>2. Len(ob) = Depth(Top)
    BY <1>2, SettledPop
  <2> QED
    BY <2>1, <2>2
<1>10. Top.open # <<>> /\ Last(Top.open).text = Last(ob) /\ ob # <<>> /\ Again(Closed(Top))
  BY <1>1, SettledClose
<1>4. PICK g \in PlateFrame: /\ g.of = Top.of /\ g.base = e /\ g.live = Top.live /\ g.told = Top.told
                             /\ Depth(g) = d - 1 /\ Again(g) /\ e + 1 < d
  <2>1. PICK n \in Nat: n = Len(Top.open) /\ n > 0
    <3>1. Len(Top.open) \in Nat \ {0}
      BY <1>2, <1>10, ClosedIs
    <3> QED
      BY <3>1
  <2>2. PICK g \in PlateFrame: g = Closed(Top) /\ g.of = Top.of /\ g.base = Top.base /\ g.live = Top.live
                               /\ g.told = Top.told /\ Len(g.open) = n - 1
    BY <1>2, <1>10, <2>1, ClosedIs
  <2>4. d = e + 1 + n /\ Depth(g) = e + 1 + (n - 1)
    BY <1>3, <2>1, <2>2 DEF Depth
  <2>5. e + 1 + (n - 1) = d - 1 /\ e + 1 < d
    <3>1. \A x, y, z \in Nat: x = y + 1 + z /\ z > 0 => y + 1 + (z - 1) = x - 1 /\ y + 1 < x
      OBVIOUS
    <3> QED
      BY <2>1, <2>4, <3>1
  <2>6. Depth(g) = d - 1 /\ e + 1 < d
    BY <2>4, <2>5
  <2>7. Again(g) /\ g.base = e
    BY <1>3, <1>10, <2>2
  <2> QED
    BY <2>2, <2>6, <2>7
<1>5. \A k \in 1..d - 1: ob'[k] = ob[k]
  <2>1. \A k \in 1..Len(ob) - 1: Front(ob)[k] = ob[k]
    BY <1>2, <1>10, FrontIs
  <2> QED
    BY <1>3, <1>10, <2>1 DEF Close
<1>6. /\ Fits(Top, ob, w, b, extra) /\ (Len(stack) = v + 1 => Starts(Top, ob, w, lv))
  BY <1>1, TopOfPage
<1>11. \A i \in e + 1..d: Fit(ob[i], Top.of, w, b, extra)
  BY <1>1, <1>3, <1>6 DEF Fits
<1>7. Fits(g, ob', w, b, extra)
  <2> SUFFICES ASSUME NEW i \in e + 1..d - 1 PROVE Fit(ob'[i], Top.of, w, b, extra)
    BY <1>4 DEF Fits
  <2>1. i \in e + 1..d /\ i \in 1..d - 1
    BY <1>3
  <2> QED
    BY <1>5, <1>11, <2>1
<1>8. \A i \in 1..Top.base: ob'[i] = ob[i]
  BY <1>3, <1>5
<1>9. Len(stack) = v + 1 => Starts(g, ob', w, lv)
  <2>1. e + 1 \in 1..d - 1
    BY <1>4
  <2>2. ob'[e + 1] = ob[e + 1]
    BY <1>5, <2>1
  <2> QED
    BY <1>3, <1>4, <1>6, <2>2 DEF Starts
<1>12. Last(ob) = ob[d] /\ d \in e + 1..d /\ Last(ob) \in Text
  <2>1. Last(ob) = ob[Len(ob)] /\ Last(ob) \in Text
    BY <1>2, <1>10, FrontIs
  <2>2. d \in e + 1..d
    BY <1>3
  <2> QED
    BY <1>3, <2>1, <2>2
<1>13. OnLevel(v, w, b, lv)'
  BY <1>4, <1>7, <1>8, <1>9, PageTop
<1> QED
  BY <1>10, <1>11, <1>12, <1>13

LEMMA PageCalm ==
  ASSUME NEW v, NEW w, NEW b, NEW lv, OnLevel(v, w, b, lv), UNCHANGED <<stack, ob, ret, extra>>,
         plate'[b + lv].content = plate[b + lv].content, mode' = "run" => mode = "run" \/ stack[v + 1].live
  PROVE  OnLevel(v, w, b, lv)'
BY DEF OnLevel, Hands, Fed

\* The plates stay those of the page.
LEMMA StockStays ==
  ASSUME Types, Types', NEW w \in Want, NEW b \in Nat, Stands(w, b), Kept(w, b),
         DOMAIN plate' = DOMAIN plate, stored' = stored, extra' = extra,
         \A p \in DOMAIN plate: Unturned(p) /\ plate'[p].content = plate[p].content,
         \A p \in DOMAIN plate: \A s \in Section: plate'[p].text[s] = plate[p].text[s]
                                                  \/ Fit(plate'[p].text[s], p, w, b, extra)
  PROVE  Stands(w, b)' /\ Kept(w, b)' /\ \A j \in DOMAIN w: plate'[b + j].content = plate[b + j].content
<1>1. PICK n \in Nat: n = Len(plate) /\ DOMAIN plate = 1..n
  BY DEF Types
<1>2. Len(plate') = n
  BY <1>1 DEF Types
<1>3. Stands(w, b)'
  BY <1>1, <1>2, StandsStays
<1>4. \A j \in DOMAIN w: plate'[b + j].content = plate[b + j].content
  <2> SUFFICES ASSUME NEW j \in DOMAIN w PROVE plate'[b + j].content = plate[b + j].content
    OBVIOUS
  <2>1. j \in 1..Len(w) /\ Len(w) \in Nat /\ b + Len(w) <= n
    BY <1>1, WantIs DEF Stands
  <2>2. b + j \in DOMAIN plate
    BY <1>1, <2>1
  <2> QED
    BY <2>2
<1>5. Kept(w, b)'
  BY <1>4, KeptStays
<1> QED
  BY <1>3, <1>4, <1>5

LEMMA StockSame ==
  ASSUME Types, Types', NEW w \in Want, NEW b \in Nat, Stands(w, b), Kept(w, b), UNCHANGED <<plate, stored, extra>>
  PROVE  Stands(w, b)' /\ Kept(w, b)'
BY StockStays DEF Unturned

\* The plate of the template on top changes, but not in name, layout and content.
LEMMA StockMe ==
  ASSUME Types, Types', InPlate, NEW w \in Want, NEW b \in Nat, Stands(w, b), Kept(w, b), UNCHANGED <<stored, extra>>,
         NEW q \in Plate, SetMe(q), q.name = Me.name, q.layout = Me.layout, q.raw = Me.raw, q.content = Me.content,
         \A s \in Section: q.text[s] = Me.text[s] \/ Fit(q.text[s], Top.of, w, b, extra)
  PROVE  Stands(w, b)' /\ Kept(w, b)' /\ \A j \in DOMAIN w: plate'[b + j].content = plate[b + j].content
<1>1. /\ DOMAIN plate' = DOMAIN plate /\ plate'[Top.of] = q
      /\ \A p \in DOMAIN plate: p # Top.of => plate'[p] = plate[p]
  BY SetMeIs
<1>2. \A p \in DOMAIN plate: Unturned(p) /\ plate'[p].content = plate[p].content
  BY <1>1 DEF Unturned, Me
<1>3. \A p \in DOMAIN plate: \A s \in Section: plate'[p].text[s] = plate[p].text[s]
                                               \/ Fit(plate'[p].text[s], p, w, b, extra)
  BY <1>1 DEF Me
<1> QED
  BY <1>1, <1>2, <1>3, StockStays


LEMMA PageSay ==
  ASSUME Types, Types', Settled(stack, ob), NEW v \in Nat, NEW w \in Want, NEW b \in Nat, NEW lv,
         OneView(stack, v, w), Stands(w, b), Kept(w, b), OnLevel(v, w, b, lv), Say
  PROVE  OnLevel(v, w, b, lv)'
<1>1. InTemplate /\ InPlate /\ Top.live /\ Prints(Top, <<Me.name>>) /\ ret' = None /\ plate' = plate /\ extra' = extra
  BY DEF Say, Calls, InTemplate, history
<1>2. /\ lv \in Nat \ {0} /\ lv <= Len(w) /\ Len(w) \in Nat /\ Len(stack) \in Nat /\ v < Len(stack)
      /\ Len(stack) = v + 1 => Top.of = b + lv /\ Starts(Top, ob, w, lv)
      /\ Len(stack) > v + 1 => Top.of > b + Len(w)
      /\ Top.of > b /\ Top.of \in Nat
  BY <1>1, TopOfPage, TopIs
<1>3. PICK e \in Nat: e = Len(w) /\ DOMAIN w = 1..e
  BY WantIs
<1>4. \A i, j \in DOMAIN w: w[i] = w[j] => i = j
  BY DEF Stands
<1>5. Top.of \in DOMAIN plate /\ Me = plate[Top.of] /\ Me \in Plate /\ Top \in PlateFrame
  BY <1>1, TopIs
<1>6. Fit(<<Me.name>>, Top.of, w, b, extra)
  <2>1. CASE Len(stack) = v + 1
    <3>1. w[lv] # Raw /\ lv \in DOMAIN w
      BY <1>1, <1>2, <1>3, <2>1 DEF Starts
    <3>2. plate[b + lv].name = w[lv]
      BY <3>1 DEF Stands
    <3>3. Top.of - b = lv /\ Top.of <= b + e
      BY <1>2, <1>3, <2>1
    <3>4. Me.name = w[Top.of - b]
      BY <1>2, <1>5, <2>1, <3>2, <3>3
    <3> QED
      BY <1>2, <1>3, <1>4, <3>3, <3>4, OneFits
  <2>2. CASE Len(stack) > v + 1
    <3>1. Me.name \in extra /\ \A i \in DOMAIN w: w[i] # Me.name
      BY <1>2, <1>5, <2>2 DEF Kept
    <3>2. Junk(<<Me.name>>, w, extra)
      BY <1>2, <1>3, <1>4, <3>1, OneFits
    <3> QED
      BY <1>2, <1>3, <3>2, JunkFits
  <2> QED
    BY <1>2, <2>1, <2>2
<1>7. <<Me.name>> \in Text
  BY <1>5, TextIs DEF Plate
<1> QED
  BY <1>1, <1>5, <1>6, <1>7, PagePrints

LEMMA PageContent ==
  ASSUME Types, Types', Settled(stack, ob), NEW v \in Nat, NEW w \in Want, NEW b \in Nat, NEW lv,
         OneView(stack, v, w), Stands(w, b), Kept(w, b), OnLevel(v, w, b, lv), GetContent
  PROVE  OnLevel(v, w, b, lv)'
<1> DEFINE f == [Top EXCEPT !.told = @ \/ Top.open = <<>>]
           t == IF Me.content = None THEN <<Missing>> ELSE Me.content
<1>1. InTemplate /\ InPlate /\ Top.live /\ mode = "run" /\ Prints(f, t) /\ ret' = None /\ plate' = plate /\ extra' = extra
  BY DEF GetContent, Calls, InTemplate, history
<1>2. /\ lv \in Nat \ {0} /\ lv <= Len(w) /\ Len(w) \in Nat /\ Len(stack) \in Nat /\ v < Len(stack)
      /\ Len(stack) = v + 1 => Top.of = b + lv /\ Top = stack[v + 1]
      /\ Len(stack) > v + 1 => Top.of > b + Len(w)
      /\ Top.of > b /\ Top.of \in Nat
  BY <1>1, TopOfPage, TopIs
<1>3. PICK e \in Nat: e = Len(w) /\ DOMAIN w = 1..e
  BY WantIs
<1>4. \A i, j \in DOMAIN w: w[i] = w[j] => i = j
  BY DEF Stands
<1>5. Top.of \in DOMAIN plate /\ Me = plate[Top.of] /\ Me \in Plate /\ Top \in PlateFrame
  BY <1>1, TopIs
<1>6. f \in PlateFrame /\ f.of = Top.of /\ f.base = Top.base /\ f.open = Top.open /\ f.live = Top.live
      /\ f.told = (Top.told \/ Top.open = <<>>)
  BY <1>5 DEF PlateFrame
<1>7. t \in Text
  BY <1>5, TextIs DEF Plate, Maybe
<1>8. Junk(<<Missing>>, w, extra)
  <2>1. \A i \in DOMAIN w: w[i] # Missing
    BY WantIs
  <2> QED
    BY <1>2, <1>3, <1>4, <2>1, OneFits
<1>9. Fit(<<Missing>>, Top.of, w, b, extra)
  BY <1>2, <1>3, <1>8, JunkFits
<1>10. ASSUME Len(stack) = v + 1 PROVE Fit(t, Top.of, w, b, extra) /\ Has(t, w, lv - 1)
  <2>1. lv \in DOMAIN w /\ Me = plate[b + lv]
    BY <1>2, <1>3, <1>5, <1>10
  <2>2. CASE Me.content # None
    <3>1. Tidy(t, w, lv - 1, extra) /\ Has(t, w, lv - 1)
      BY <2>1, <2>2 DEF Kept
    <3>2. ~(Top.of > b + Len(w)) /\ Top.of - b - 1 = lv - 1
      BY <1>2, <1>10
    <3> QED
      BY <3>1, <3>2 DEF Fit
  <2>3. CASE Me.content = None
    <3>1. lv = 1
      <4>1. ~(lv > 1)
        BY <1>1, <1>2, <1>10, <2>1, <2>3 DEF OnLevel, Fed
      <4> QED
        BY <1>2, <4>1
    <3>2. Has(t, w, lv - 1)
      BY <3>1 DEF Has
    <3> QED
      BY <1>9, <2>3, <3>2
  <2> QED
    BY <2>2, <2>3
<1>11. ASSUME Len(stack) > v + 1 PROVE Fit(t, Top.of, w, b, extra)
  <2>1. Me.content = None
    BY <1>2, <1>5, <1>11 DEF Kept
  <2> QED
    BY <1>9, <2>1
<1>12. Fit(t, Top.of, w, b, extra)
  BY <1>2, <1>10, <1>11
<1> HIDE DEF f, t
<1> QED
  BY <1>1, <1>6, <1>7, <1>10, <1>12, PagePrints

LEMMA PageSection ==
  ASSUME Types, Types', Settled(stack, ob), NEW v \in Nat, NEW w \in Want, NEW b \in Nat, NEW lv,
         OneView(stack, v, w), Stands(w, b), Kept(w, b), OnLevel(v, w, b, lv), NEW s \in Section, GetSection(s)
  PROVE  OnLevel(v, w, b, lv)'
<1>1. /\ InTemplate /\ InPlate /\ Prints(Top, Me.text[s]) /\ Me.text[s] # None /\ ret' = None /\ plate' = plate
      /\ extra' = extra
  BY DEF GetSection, Calls, InTemplate, history
<1>2. Top.of > b
  BY <1>1, TopOfPage
<1>3. Top.of \in DOMAIN plate /\ Me = plate[Top.of] /\ Me \in Plate /\ Top \in PlateFrame
  BY <1>1, TopIs
<1>4. Me.text[s] \in Text
  BY <1>1, <1>3 DEF Plate, Maybe
<1>5. Fit(Me.text[s], Top.of, w, b, extra)
  BY <1>1, <1>2, <1>3 DEF Kept
<1> QED
  BY <1>1, <1>3, <1>4, <1>5, PagePrints

LEMMA PageStart ==
  ASSUME Types, Types', Settled(stack, ob), NEW v \in Nat, NEW w \in Want, NEW b \in Nat, NEW lv,
         OneView(stack, v, w), Stands(w, b), Kept(w, b), OnLevel(v, w, b, lv),
         NEW s \in Section \cup {Content}, NEW push \in BOOLEAN, Start(s, push)
  PROVE  Stands(w, b)' /\ Kept(w, b)' /\ OnLevel(v, w, b, lv)'
<1>1. InTemplate /\ InPlate /\ mode = "run" /\ ret = None /\ UNCHANGED <<stored, ret, extra>>
  BY DEF Start, Calls, InTemplate, history
<1>2. Top.of \in DOMAIN plate /\ Me = plate[Top.of] /\ Me \in Plate
  BY <1>1, TopIs
<1>3. PICK m \in Plate: /\ m = [Me EXCEPT !.pushed = @ \/ push]
                        /\ m.name = Me.name /\ m.layout = Me.layout /\ m.raw = Me.raw /\ m.content = Me.content
                        /\ m.text = Me.text
  <2>1. LET m == [Me EXCEPT !.pushed = @ \/ push] IN
        /\ m \in Plate /\ m.name = Me.name /\ m.layout = Me.layout /\ m.raw = Me.raw /\ m.content = Me.content
        /\ m.text = Me.text
    BY <1>2 DEF Plate
  <2> QED
    BY <2>1
<1>4. lv \in DOMAIN w
  BY DEF OnLevel
<1>5. CASE s = Content \/ Me.section # None
  <2>1. SetMe(m) /\ mode' = "throw" /\ UNCHANGED <<ob, stack>>
    BY <1>3, <1>5 DEF Start
  <2>2. Stands(w, b)' /\ Kept(w, b)' /\ \A j \in DOMAIN w: plate'[b + j].content = plate[b + j].content
    BY <1>1, <1>3, <2>1, StockMe
  <2> QED
    BY <1>1, <1>4, <2>1, <2>2, PageCalm
<1>6. CASE ~(s = Content \/ Me.section # None)
  <2>1. SetMe([m EXCEPT !.section = s]) /\ Open("section") /\ s \in Section
    BY <1>3, <1>6 DEF Start
  <2>2. PICK q \in Plate: /\ q = [m EXCEPT !.section = s]
                          /\ q.name = Me.name /\ q.layout = Me.layout /\ q.raw = Me.raw /\ q.content = Me.content
                          /\ q.text = Me.text
    <3>1. LET q == [m EXCEPT !.section = s] IN
          /\ q \in Plate /\ q.name = m.name /\ q.layout = m.layout /\ q.raw = m.raw /\ q.content = m.content
          /\ q.text = m.text
      BY <2>1 DEF Plate, Maybe
    <3> QED
      BY <1>3, <3>1
  <2>3. Stands(w, b)' /\ Kept(w, b)' /\ \A j \in DOMAIN w: plate'[b + j].content = plate[b + j].content
    BY <1>1, <2>1, <2>2, StockMe
  <2> QED
    BY <1>1, <1>4, <2>1, <2>3, PageOpens
<1> QED
  BY <1>5, <1>6

LEMMA PageStop ==
  ASSUME Types, Types', Settled(stack, ob), OneBlock(plate, stack), NEW v \in Nat, NEW w \in Want, NEW b \in Nat, NEW lv,
         OneView(stack, v, w), Stands(w, b), Kept(w, b), OnLevel(v, w, b, lv), Stop, "untidy" \notin odd'
  PROVE  Stands(w, b)' /\ Kept(w, b)' /\ OnLevel(v, w, b, lv)'
<1>1. InTemplate /\ InPlate /\ ret = None /\ UNCHANGED <<stored, ret, extra>> /\ Close("section")
  BY DEF Stop, Calls, InTemplate, history
<1>2. Top.of \in DOMAIN plate /\ Me = plate[Top.of] /\ Me \in Plate
  BY <1>1, TopIs
<1>3. /\ DOMAIN plate' = DOMAIN plate
      /\ \A p \in DOMAIN plate: p # Top.of => plate'[p] = plate[p]
      /\ \A t \in Section: /\ t # Me.section => plate'[Top.of].text[t] = Me.text[t]
                           /\ t = Me.section => plate'[Top.of].text[t] = Last(Top.open).text
  BY NeatStop
<1>4. Unturned(Top.of) /\ plate'[Top.of].content = Me.content
  <2> DEFINE new == IF ob = <<>> THEN <<>> ELSE Last(ob)
             prev == IF Me.pushed /\ Me.text[Me.section] # None THEN Me.text[Me.section] ELSE <<>>
  <2>1. SetMe([Me EXCEPT !.text[Me.section] = prev \o new, !.pushed = FALSE])
    BY DEF Stop
  <2>2. PICK x: x = prev \o new
    OBVIOUS
  <2>3. SetMe([Me EXCEPT !.text[Me.section] = x, !.pushed = FALSE])
    BY <2>1, <2>2
  <2> HIDE DEF new, prev
  <2>4. plate'[Top.of] = [Me EXCEPT !.text[Me.section] = x, !.pushed = FALSE]
    BY <1>2, <2>3 DEF SetMe
  <2> QED
    BY <1>2, <2>4 DEF Unturned, Plate
<1>5. lv \in DOMAIN w
  BY DEF OnLevel
<1>6. Fit(Last(Top.open).text, Top.of, w, b, extra)
  <2>1. \A j \in DOMAIN w: b + j \in DOMAIN plate
    <3>1. Len(w) \in Nat /\ DOMAIN w = 1..Len(w) /\ b + Len(w) <= Len(plate) /\ Len(plate) \in Nat /\ DOMAIN plate = 1..Len(plate)
      BY WantIs DEF Stands, Types
    <3> QED
      BY <3>1
  <2>2. plate'[b + lv].content = plate[b + lv].content
    BY <1>2, <1>3, <1>4, <1>5, <2>1
  <2> QED
    BY <1>1, <2>2, PageCloses
<1>7. \A p \in DOMAIN plate: Unturned(p) /\ plate'[p].content = plate[p].content
  BY <1>2, <1>3, <1>4 DEF Unturned
<1>8. \A p \in DOMAIN plate: \A s \in Section: plate'[p].text[s] = plate[p].text[s]
                                               \/ Fit(plate'[p].text[s], p, w, b, extra)
  BY <1>2, <1>3, <1>6
<1>9. Stands(w, b)' /\ Kept(w, b)' /\ \A j \in DOMAIN w: plate'[b + j].content = plate[b + j].content
  BY <1>1, <1>3, <1>7, <1>8, StockStays
<1> QED
  BY <1>1, <1>5, <1>9, PageCloses

LEMMA PageStyle ==
  ASSUME Types, Types', Settled(stack, ob), NEW v \in Nat, NEW w \in Want, NEW b \in Nat, NEW lv,
         OneView(stack, v, w), Stands(w, b), Kept(w, b), OnLevel(v, w, b, lv), StyleBegin \/ StyleEnd, "untidy" \notin odd'
  PROVE  Stands(w, b)' /\ Kept(w, b)' /\ OnLevel(v, w, b, lv)'
<1>1. InTemplate /\ InPlate /\ ret = None /\ UNCHANGED <<stored, ret, extra>>
  BY DEF StyleBegin, StyleEnd, Calls, InTemplate, history
<1>2. Top.of \in DOMAIN plate /\ Me = plate[Top.of] /\ Me \in Plate
  BY <1>1, TopIs
<1>3. lv \in DOMAIN w
  BY DEF OnLevel
<1>4. CASE StyleBegin
  <2>1. PICK q \in Plate: /\ q = [Me EXCEPT !.style = Len(ob) + 1]
                          /\ q.name = Me.name /\ q.layout = Me.layout /\ q.raw = Me.raw /\ q.content = Me.content
                          /\ q.text = Me.text
    <3>1. Len(ob) + 1 \in Nat
      BY DEF Types
    <3>2. LET q == [Me EXCEPT !.style = Len(ob) + 1] IN
          /\ q \in Plate /\ q.name = Me.name /\ q.layout = Me.layout /\ q.raw = Me.raw /\ q.content = Me.content
          /\ q.text = Me.text
      BY <1>2, <3>1 DEF Plate
    <3> QED
      BY <3>2
  <2>2. SetMe(q) /\ Open("style")
    BY <1>4, <2>1 DEF StyleBegin
  <2>3. Stands(w, b)' /\ Kept(w, b)' /\ \A j \in DOMAIN w: plate'[b + j].content = plate[b + j].content
    BY <1>1, <2>1, <2>2, StockMe
  <2> QED
    BY <1>1, <1>3, <2>2, <2>3, PageOpens
<1>5. CASE StyleEnd
  <2>1. Close("style") /\ plate' = plate
    BY <1>5 DEF StyleEnd
  <2>2. Stands(w, b)' /\ Kept(w, b)'
    BY <1>1, <2>1, StockSame
  <2> QED
    BY <1>1, <2>1, <2>2, PageCloses
<1> QED
  BY <1>4, <1>5
-----------------------------------------------------------------------------
(* Templates are inserted in a page, and end.                              *)

LEMMA PageInsert ==
  ASSUME Types, Types', Settled(stack, ob), NEW v \in Nat, NEW w \in Want, NEW b \in Nat, NEW lv,
         OneView(stack, v, w), Stands(w, b), Kept(w, b), OnLevel(v, w, b, lv), NEW n \in Name, InsertInTemplate(n),
         odd' = {}, mode' # "dead"
  PROVE  Stands(w, b)' /\ Kept(w, b)' /\ OnLevel(v, w, b, lv)'
<1>1. /\ InTemplate /\ InPlate /\ mode = "run" /\ ret = None /\ EngineRender(n) /\ stored' = stored
      /\ extra' = extra \cup {n}
  BY DEF InsertInTemplate, Calls, InTemplate
<1>2. PICK e \in Nat: e = Len(w) /\ DOMAIN w = 1..e /\ \A i \in DOMAIN w: w[i] # Missing
  BY WantIs
<1>3. PICK k \in Nat: k = Len(stack) /\ stack \in Seq(Frame) /\ DOMAIN stack = 1..k
  BY DEF Types, StackTyped
<1>4. v \in 1..k /\ v < k /\ stack[v].kind = "view" /\ stack[v].want = w /\ lv \in 1..e
  <2>1. v < Len(stack)
    BY <1>1, TopOfPage
  <2> QED
    BY <1>2, <1>3, <2>1 DEF OneView, ViewAt, OnLevel
<1>5. \A i \in DOMAIN w: w[i] # n
  <2>1. ~IsLevel(n)
    <3>1. (IF IsLevel(n) THEN {"level"} ELSE {}) \subseteq odd'
      BY DEF InsertInTemplate
    <3> QED
      BY <3>1
  <2>2. n \notin Range(w)
    BY <1>3, <1>4, <2>1 DEF IsLevel
  <2> QED
    BY <2>2 DEF Range
<1>6. stored[n] = None
  BY <1>5 DEF Stands
<1>7. PICK c \in Nat: c = Len(plate) /\ DOMAIN plate = 1..c /\ ob \in Seq(Text)
  BY DEF Types
<1>8. /\ Len(plate') = c + 1 /\ plate'[c + 1] = NewPlate(n) /\ Begin(plate', c + 1, stack)
      /\ \A p \in 1..c: plate'[p] = plate[p]
  BY <1>1, <1>6, <1>7, EngineRenderIs
<1>9. DOMAIN plate' = 1..c + 1
  BY <1>8 DEF Types
<1>10. b + e <= c /\ e > 0
  BY <1>2, <1>7 DEF Stands
<1>11. PICK q \in Plate: /\ q = plate'[c + 1] /\ q.name = n /\ q.layout = None /\ q.content = None /\ q.raw = FALSE
                         /\ \A t \in Section: q.text[t] = None
  BY <1>8, NewPlateIs
<1>12. Stands(w, b)'
  <2>1. \A p \in DOMAIN plate: Unturned(p)
    BY <1>7, <1>8 DEF Unturned
  <2>2. Len(plate) <= Len(plate')
    BY <1>7, <1>8
  <2> QED
    BY <1>1, <2>1, <2>2, StandsStays
<1>13. \A j \in DOMAIN w: b + j \in 1..c
  BY <1>2, <1>10
<1>14. Kept(w, b)'
  <2>1. \A p \in DOMAIN plate: plate'[p] = plate[p]
    BY <1>7, <1>8
  <2>2. \A p \in DOMAIN plate: Unturned(p)
    BY <2>1 DEF Unturned
  <2>3. \A j \in DOMAIN w: plate'[b + j].content = plate[b + j].content
    BY <1>8, <1>13
  <2>4. ASSUME NEW p \in DOMAIN plate' \ DOMAIN plate
        PROVE  Plain(p, w, b)' /\ \A s \in Section: plate'[p].text[s] = None
    <3>1. p = c + 1
      BY <1>7, <1>9
    <3>2. p > b + Len(w)
      BY <1>2, <1>10, <3>1
    <3>3. n \in extra'
      BY <1>1
    <3> QED
      BY <1>5, <1>11, <3>1, <3>2, <3>3 DEF Plain
  <2>5. DOMAIN plate \subseteq DOMAIN plate' /\ extra \subseteq extra'
    BY <1>1, <1>7, <1>9
  <2> QED
    BY <2>1, <2>2, <2>3, <2>4, <2>5, KeptStays
<1>15. Risen(v, w, b, lv, stack, ob, extra')
  BY <1>1, RisenMore DEF OnLevel
<1> DEFINE f == Running(c + 1)
           g == [f EXCEPT !.live = FALSE]
<1>16. /\ f \in Frame /\ f.of = c + 1 /\ f.base = Len(ob) /\ f.open = <<>>
       /\ g \in Frame /\ g.of = c + 1 /\ g.live = FALSE
  <2>1. c + 1 \in Nat
    OBVIOUS
  <2>2. /\ f \in PlateFrame /\ f.of = c + 1 /\ f.base = Len(ob) /\ f.open = <<>>
        /\ g \in PlateFrame /\ g.of = c + 1 /\ g.live = FALSE
    BY <1>7, <2>1, RunningIs
  <2> QED
    BY <2>2 DEF Frame
<1>17. PICK d \in Nat: d = Len(ob)
  BY <1>7
<1> HIDE DEF f, g
<1>18. c + 1 > b + Len(w)
  BY <1>2, <1>10
<1>19. ASSUME NEW h \in Frame, stack' = Append(stack, h)
       PROVE  Fed(v, b, lv)' /\ Len(stack') = k + 1
  <2>1. stack'[v + 1] = stack[v + 1] /\ Len(stack') = k + 1
    <3>1. v + 1 \in 1..k
      BY <1>4
    <3> QED
      BY <1>3, <1>19, <3>1, AppendIs
  <2>2. plate'[b + lv] = plate[b + lv]
    BY <1>2, <1>4, <1>8, <1>13
  <2> QED
    BY <1>1, <2>1, <2>2 DEF OnLevel, Fed
<1>20. CASE BeginFlat(plate', c + 1, stack)
  <2>1. stack' = Append(stack, g) /\ ob' = ob /\ ret' = <<Missing>>
    BY <1>11, <1>20 DEF BeginFlat, f, g
  <2>2. Fits(g, ob', w, b, extra')
    BY <1>16 DEF Fits
  <2>3. Risen(v, w, b, lv, stack', ob', extra')
    BY <1>3, <1>4, <1>7, <1>15, <1>16, <1>18, <2>1, <2>2, RisenPush
  <2>4. Fed(v, b, lv)' /\ Len(stack') = k + 1
    BY <1>16, <1>19, <2>1
  <2>5. Junk(<<Missing>>, w, extra')
    BY <1>2 DEF Junk, Made, Clear
  <2>6. Hands(v, w, lv)'
    BY <1>4, <2>1, <2>4, <2>5 DEF Hands
  <2> QED
    BY <1>2, <1>4, <1>12, <1>14, <2>3, <2>4, <2>6 DEF OnLevel
<1>21. CASE BeginRuns(plate', c + 1, stack)
  <2>1. stack' = Append(stack, f) /\ ob' = Append(ob, <<n>>) /\ ret' = None
    BY <1>11, <1>21 DEF BeginRuns, f
  <2>2. ob'[d + 1] = <<n>> /\ \A i \in 1..d: ob'[i] = ob[i]
    BY <1>7, <1>17, <2>1, TextIs, AppendIs
  <2>3. Fits(f, ob', w, b, extra')
    <3>1. Depth(f) = d + 1
      <4>1. Len(<<>>) = 0
        OBVIOUS
      <4> QED
        BY <1>16, <1>17, <4>1 DEF Depth
    <3>2. \A i \in d + 1..d + 1: i = d + 1
      OBVIOUS
    <3>3. Junk(<<n>>, w, extra')
      BY <1>1, <1>5 DEF Junk, Made, Clear
    <3>4. Fit(<<n>>, c + 1, w, b, extra')
      BY <1>18, <3>3 DEF Fit
    <3> QED
      BY <1>16, <1>17, <2>2, <3>1, <3>2, <3>4 DEF Fits
  <2>4. Risen(v, w, b, lv, stack', ob', extra')
    <3>1. \A i \in 1..Len(ob): ob'[i] = ob[i]
      BY <1>17, <2>2
    <3> QED
      BY <1>3, <1>4, <1>7, <1>15, <1>16, <1>18, <2>1, <2>3, <3>1, RisenPush
  <2>5. Fed(v, b, lv)'
    BY <1>16, <1>19, <2>1
  <2>6. Hands(v, w, lv)'
    BY <2>1 DEF Hands
  <2> QED
    BY <1>2, <1>4, <1>12, <1>14, <2>4, <2>5, <2>6 DEF OnLevel
<1> QED
  BY <1>8, <1>20, <1>21, BeginIs DEF BeginDies

LEMMA PageTemplateEnds ==
  ASSUME Types, Types', Settled(stack, ob), NEW v \in Nat, NEW w \in Want, NEW b \in Nat, NEW lv,
         OneView(stack, v, w), Stands(w, b), Kept(w, b), OnLevel(v, w, b, lv), TemplateEnds, odd' = {}
  PROVE  Stands(w, b)' /\ Kept(w, b)' /\ OnLevel(v, w, b, lv)'
<1>1. InTemplate /\ InPlate /\ Top.live /\ mode = "run" /\ UNCHANGED <<plate, stored, mode, extra>>
  BY DEF TemplateEnds, InTemplate, history
<1>2. Stands(w, b)' /\ Kept(w, b)'
  BY <1>1, StockSame
<1>3. /\ Top \in PlateFrame /\ Top = Last(stack) /\ IsPlate(Top) /\ stack # <<>> /\ StackTyped(stack, plate)
      /\ ob \in Seq(Text) /\ stack \in Seq(Frame) /\ Below = Front(stack) /\ Top.of \in Nat
  BY <1>1, TopIs DEF Types, Top
<1>4. Top.open = <<>> /\ (Me.content # None => Top.told)
  <2>1. (IF Top.open # <<>> THEN {"untidy"} ELSE {}) \cup (IF Me.content # None /\ ~Top.told THEN {"mute"} ELSE {}) = {}
    BY DEF TemplateEnds
  <2> QED
    BY <2>1
<1>5. PICK e \in Nat: e = Top.base /\ Depth(Top) = e + 1 /\ Len(ob) = e + 1
  <2>1. Depth(Top) \in Nat /\ Top.base \in Nat
    BY <1>3, DepthIs
  <2>2. Len(ob) = Depth(Top)
    BY <1>3, SettledPop
  <2>3. Len(<<>>) = 0
    OBVIOUS
  <2>4. Depth(Top) = Top.base + 1
    BY <1>4, <2>1, <2>3 DEF Depth
  <2> QED
    BY <2>1, <2>2, <2>4
<1>6. ret' = ob[e + 1] /\ ob[e + 1] \in Text /\ ob' = Front(ob) /\ \A k \in 1..e: ob'[k] = ob[k]
  <2>1. ob # <<>>
    <3>1. Len(<<>>) = 0
      OBVIOUS
    <3> QED
      BY <1>5, <3>1
  <2>2. Last(ob) = ob[Len(ob)] /\ Last(ob) \in Text /\ \A k \in 1..Len(ob) - 1: Front(ob)[k] = ob[k]
    BY <1>3, <2>1, FrontIs
  <2>3. ret' = Last(ob) /\ ob' = Front(ob)
    BY <2>1 DEF TemplateEnds
  <2>4. Len(ob) - 1 = e
    BY <1>5
  <2> QED
    BY <1>5, <2>2, <2>3, <2>4
<1> DEFINE g == [Top EXCEPT !.live = FALSE]
<1>7. g \in PlateFrame /\ g \in Frame /\ g.live = FALSE /\ g.of = Top.of
  BY <1>1, EndedIs
<1>8. stack' = Append(Front(stack), g)
  BY <1>3 DEF TemplateEnds
<1> HIDE DEF g
<1>9. /\ lv \in Nat \ {0} /\ lv <= Len(w) /\ Len(w) \in Nat /\ Len(stack) \in Nat /\ v < Len(stack)
      /\ Len(stack) = v + 1 => Top.of = b + lv /\ Top = stack[v + 1] /\ Starts(Top, ob, w, lv)
      /\ Len(stack) > v + 1 => Top.of > b + Len(w)
      /\ Fits(Top, ob, w, b, extra)
  BY <1>1, TopOfPage
<1>10. Risen(v, w, b, lv, stack', ob', extra')
  <2>1. Fits(g, ob', w, b, extra) /\ Starts(g, ob', w, lv)
    BY <1>7 DEF Fits, Starts
  <2>2. \A i \in 1..Top.base: ob'[i] = ob[i]
    BY <1>5, <1>6
  <2>3. Risen(v, w, b, lv, Append(Front(stack), g), ob', extra)
    BY <1>3, <1>7, <1>9, <2>1, <2>2, RisenTop DEF OnLevel
  <2> QED
    BY <1>1, <1>8, <2>3
<1>11. Len(stack') = Len(stack) /\ (Len(stack) = v + 1 => stack'[v + 1] = g)
  <2>1. Again(g)
    BY <1>3, <1>8 DEF Again
  <2> QED
    BY <1>1, <1>7, <2>1, AgainTyped
<1>12. Fed(v, b, lv)'
  BY <1>1 DEF OnLevel, Fed
<1>13. Fit(ob[e + 1], Top.of, w, b, extra)
  BY <1>1, <1>5, <1>9 DEF Fits
<1>14. lv \in DOMAIN w /\ DOMAIN w = 1..Len(w)
  BY WantIs DEF OnLevel
<1>15. ASSUME Len(stack) = v + 1 PROVE Tidy(ob[e + 1], w, lv, extra) /\ Has(ob[e + 1], w, lv)
  <2>1. PICK t \in Text: t = ob[e + 1]
    BY <1>6
  <2>2. t # <<>> /\ t[1] = w[lv] /\ (Top.told => Has(t, w, lv - 1))
    BY <1>1, <1>5, <1>9, <1>15, <2>1 DEF Starts
  <2>3. Tidy(t, w, lv - 1, extra)
    <3>1. ~(Top.of > b + Len(w)) /\ Top.of - b - 1 = lv - 1
      BY <1>9, <1>15
    <3> QED
      BY <1>13, <2>1, <3>1 DEF Fit
  <2>4. Has(t, w, lv - 1)
    <3>1. CASE lv > 1
      <4>1. plate[b + lv].content # None
        BY <1>1, <1>9, <1>15, <3>1 DEF OnLevel, Fed
      <4>2. Me = plate[b + lv]
        BY <1>9, <1>15 DEF Me
      <4> QED
        BY <1>4, <2>2, <4>1, <4>2
    <3>2. CASE lv = 1
      BY <3>2 DEF Has
    <3> QED
      BY <1>9, <3>1, <3>2
  <2>5. 1 \in DOMAIN t /\ DOMAIN t \subseteq Nat \ {0}
    BY <2>2, EmptySeq DEF Text
  <2>6. Has(t, w, lv)
    <3> SUFFICES ASSUME NEW i \in 1..lv PROVE \E k \in DOMAIN t: t[k] = w[i]
      BY DEF Has
    <3>1. CASE i = lv
      BY <2>2, <2>5, <3>1
    <3>2. CASE i # lv
      <4>1. i \in 1..lv - 1
        BY <1>9, <3>2
      <4> QED
        BY <2>4, <4>1 DEF Has
    <3> QED
      BY <3>1, <3>2
  <2>7. ASSUME NEW i \in 1..lv, NEW j \in 1..lv, i < j PROVE Led(t, w[i], w[j])
    <3>1. CASE j = lv
      <4>1. w[i] # w[lv]
        <5>1. i \in DOMAIN w /\ i # lv
          BY <1>9, <1>14, <2>7, <3>1
        <5> QED
          BY <1>14, <5>1 DEF Stands
      <4> SUFFICES ASSUME NEW k \in DOMAIN t, t[k] = w[i] PROVE \E m \in 1..k - 1: t[m] = w[lv]
        BY <3>1 DEF Led
      <4>2. k # 1 /\ k \in Nat \ {0}
        BY <2>2, <2>5, <4>1
      <4>3. 1 \in 1..k - 1
        BY <4>2
      <4> QED
        BY <2>2, <4>3
    <3>2. CASE j # lv
      <4>1. i \in 1..lv - 1 /\ j \in 1..lv - 1
        BY <1>9, <2>7, <3>2
      <4> QED
        BY <2>3, <2>7, <4>1 DEF Tidy
    <3> QED
      BY <3>1, <3>2
  <2>8. Tidy(t, w, lv, extra)
    BY <2>3, <2>7 DEF Tidy
  <2> QED
    BY <2>1, <2>6, <2>8
<1>16. Hands(v, w, lv)'
  <2>1. CASE Len(stack) = v + 1
    BY <1>1, <1>6, <1>11, <1>15, <2>1 DEF Hands
  <2>2. CASE Len(stack) > v + 1
    <3>1. Junk(ob[e + 1], w, extra)
      BY <1>9, <1>13, <2>2 DEF Fit
    <3> QED
      BY <1>1, <1>6, <1>9, <1>11, <2>2, <3>1 DEF Hands
  <2> QED
    BY <1>9, <2>1, <2>2
<1> QED
  BY <1>2, <1>10, <1>12, <1>14, <1>16 DEF OnLevel

\* The page goes on with the frame g of the level lv.
LEMMA RisenFirst ==
  ASSUME NEW v \in Nat, NEW w, NEW b \in Nat, NEW lv, NEW s \in Seq(Frame), Len(s) = v, NEW g \in Frame, g.of = b + lv,
         NEW o, NEW x, Fits(g, o, w, b, x), Starts(g, o, w, lv)
  PROVE  /\ Risen(v, w, b, lv, Append(s, g), o, x)
         /\ Len(Append(s, g)) = v + 1 /\ Append(s, g)[v + 1] = g
<1>1. PICK a \in Seq(Frame): a = Append(s, g)
  BY AppendIs
<1>2. Len(a) = v + 1 /\ a[v + 1] = g /\ DOMAIN a = 1..v + 1
  BY <1>1, AppendIs
<1>3. \A k \in DOMAIN a: k > v => k = v + 1
  BY <1>2
<1> QED
  BY <1>1, <1>2, <1>3 DEF Risen

\* Only a level has a layout: that of the next one.
LEMMA LayoutOfLevel ==
  ASSUME Types, InPlate, NEW v \in Nat, NEW w \in Want, NEW b \in Nat, NEW lv, OneView(stack, v, w), Stands(w, b),
         Kept(w, b), OnLevel(v, w, b, lv), Me.layout # None
  PROVE  /\ Len(stack) = v + 1 /\ Top.of = b + lv /\ lv \in Nat \ {0} /\ lv + 1 \in DOMAIN w
         /\ Me.layout = w[lv + 1] /\ Layout = b + (lv + 1) /\ Layout \in DOMAIN plate /\ Layout # None
<1>1. /\ lv \in Nat \ {0} /\ lv <= Len(w) /\ Len(w) \in Nat /\ Len(stack) \in Nat /\ v < Len(stack)
      /\ Len(stack) = v + 1 => Top.of = b + lv
      /\ Len(stack) > v + 1 => Top.of > b + Len(w)
  BY TopOfPage
<1>2. PICK e \in Nat: e = Len(w) /\ DOMAIN w = 1..e
  BY WantIs
<1>3. Top.of \in DOMAIN plate /\ Me = plate[Top.of]
  BY TopIs
<1>4. Len(stack) = v + 1
  <2>1. ~(Len(stack) > v + 1)
    BY <1>1, <1>3 DEF Kept
  <2> QED
    BY <1>1, <2>1
<1>5. lv \in DOMAIN w /\ Me = plate[b + lv]
  BY <1>1, <1>2, <1>3, <1>4
<1>6. Me.layout = IF lv < Len(w) THEN w[lv + 1] ELSE None
  BY <1>5 DEF Stands
<1>7. lv < e /\ Me.layout = w[lv + 1]
  BY <1>2, <1>6
<1>8. lv + 1 \in DOMAIN w /\ lv + 1 > 1
  BY <1>1, <1>2, <1>7
<1>9. stored[w[lv + 1]] = b + (lv + 1)
  BY <1>8 DEF Stands
<1>10. Layout = b + (lv + 1)
  BY <1>7, <1>9 DEF Layout
<1>11. b + e <= Len(plate) /\ Len(plate) \in Nat /\ DOMAIN plate = 1..Len(plate)
  BY <1>2 DEF Stands, Types
<1>12. b + (lv + 1) \in DOMAIN plate
  BY <1>2, <1>8, <1>11
<1>13. Layout # None
  BY <1>10, <1>1, PlatesAssumption
<1> QED
  BY <1>1, <1>4, <1>7, <1>8, <1>10, <1>12, <1>13

\* The plate of the next level gets its content.
LEMMA ContentOfLevel ==
  ASSUME Types, Types', NEW w \in Want, NEW b \in Nat, Stands(w, b), Kept(w, b), stored' = stored, extra' = extra,
         NEW j \in DOMAIN w, b + j \in DOMAIN plate, NEW c \in Maybe(Text),
         plate' = [plate EXCEPT ![b + j].content = c],
         c # None => Tidy(c, w, j - 1, extra) /\ Has(c, w, j - 1)
  PROVE  Stands(w, b)' /\ Kept(w, b)' /\ plate'[b + j].content = c
<1>1. /\ DOMAIN plate' = DOMAIN plate /\ Len(plate') = Len(plate) /\ plate'[b + j].content = c
      /\ \A p \in DOMAIN plate: /\ p # b + j => plate'[p] = plate[p]
                                /\ plate'[p].text = plate[p].text
                                /\ plate'[p].name = plate[p].name /\ plate'[p].layout = plate[p].layout
                                /\ plate'[p].raw = plate[p].raw
  BY ContentIs
<1>2. \A p \in DOMAIN plate: Unturned(p)
  BY <1>1 DEF Unturned
<1>3. Len(plate) \in Nat /\ DOMAIN plate = 1..Len(plate)
  BY DEF Types
<1>4. Len(plate) <= Len(plate')
  BY <1>1, <1>3
<1>5. Stands(w, b)'
  BY <1>2, <1>4, StandsStays
<1>6. Len(w) \in Nat /\ DOMAIN w = 1..Len(w) /\ b + Len(w) <= Len(plate)
  BY WantIs DEF Stands
<1>7. \A i \in DOMAIN w: b + i \in DOMAIN plate /\ (b + i = b + j => i = j)
  BY <1>3, <1>6
<1>8. \A p \in DOMAIN plate: p > b + Len(w) => plate'[p].content = plate[p].content
  <2> SUFFICES ASSUME NEW p \in DOMAIN plate, p > b + Len(w) PROVE plate'[p].content = plate[p].content
    OBVIOUS
  <2>1. p # b + j
    BY <1>3, <1>6
  <2> QED
    BY <1>1, <2>1
<1>9. ASSUME NEW i \in DOMAIN w
      PROVE  plate'[b + i].content = plate[b + i].content \/ plate'[b + i].content = None
             \/ (Tidy(plate'[b + i].content, w, i - 1, extra') /\ Has(plate'[b + i].content, w, i - 1))
  <2>1. CASE i = j
    BY <1>1, <2>1
  <2>2. CASE i # j
    <3>1. b + i \in DOMAIN plate /\ b + i # b + j
      BY <1>7, <2>2
    <3> QED
      BY <1>1, <3>1
  <2> QED
    BY <2>1, <2>2
<1>10. Kept(w, b)'
  BY <1>1, <1>2, <1>8, <1>9, KeptStays
<1> QED
  BY <1>1, <1>5, <1>10

LEMMA PageWrap ==
  ASSUME Types, Types', Phase, Tower(stack, ob), NEW v \in Nat, NEW w \in Want, NEW b \in Nat, NEW lv,
         OneView(stack, v, w), Shows(w), Stands(w, b), Kept(w, b), OnLevel(v, w, b, lv), Wrap, mode' # "dead"
  PROVE  Stands(w, b)' /\ Kept(w, b)' /\ \E i \in DOMAIN w: OnLevel(v, w, b, i)'
<1>1. InPlate /\ mode = "run" /\ ret # None /\ Me.layout # None /\ UNCHANGED <<stored, extra>>
  BY DEF Wrap, history
<1>2. /\ Len(stack) = v + 1 /\ Top.of = b + lv /\ lv \in Nat \ {0} /\ lv + 1 \in DOMAIN w
      /\ Me.layout = w[lv + 1] /\ Layout = b + (lv + 1) /\ Layout \in DOMAIN plate
  BY <1>1, LayoutOfLevel
<1>3. Tidy(ret, w, lv, extra) /\ Has(ret, w, lv)
  BY <1>1, <1>2 DEF OnLevel, Hands
<1>4. PICK i \in Nat: i = lv + 1 /\ i \in DOMAIN w /\ i > 1 /\ i - 1 = lv
  BY <1>2
<1>5. plate' = [plate EXCEPT ![b + i].content = ret] /\ Begin(plate', b + i, Below)
  BY <1>2, <1>4 DEF Wrap
<1>6. ret \in Maybe(Text) /\ b + i \in DOMAIN plate
  BY <1>2, <1>4 DEF Types
<1>7. Stands(w, b)' /\ Kept(w, b)' /\ plate'[b + i].content = ret
  <2>1. Tidy(ret, w, i - 1, extra) /\ Has(ret, w, i - 1) /\ i \in DOMAIN w
    BY <1>3, <1>4
  <2>2. plate' = [plate EXCEPT ![b + i].content = ret]
    BY <1>5
  <2> QED
    BY <1>1, <1>6, <2>1, <2>2, ContentOfLevel
<1>8. ~plate'[b + i].raw /\ plate'[b + i].name = w[i]
  BY <1>4, <1>7 DEF Stands
<1>9. w[i] \in Files /\ w[i] # Raw
  <2>1. b + i \in 1..Len(plate') /\ plate' \in Seq(Plate)
    BY <1>5, <1>6 DEF Types
  <2>2. plate'[b + i] \in Plate
    BY <2>1, ElementOfSeq
  <2>3. w[i] \in Name
    BY <1>8, <2>2 DEF Plate
  <2> QED
    BY <1>4, <2>3, PlatesAssumption DEF Shows
<1>10. BeginRuns(plate', b + i, Below)
  BY <1>5, <1>8, <1>9, BeginIs DEF BeginFlat, BeginDies, Begin
<1> DEFINE f == Running(b + i)
<1>11. /\ f \in Frame /\ f.of = b + i /\ f.base = Len(ob) /\ f.open = <<>> /\ f.told = FALSE
  <2>1. b + i \in Nat /\ ob \in Seq(Text)
    BY DEF Types
  <2>2. f \in PlateFrame /\ f.of = b + i /\ f.base = Len(ob) /\ f.open = <<>> /\ f.told = FALSE
    BY <2>1, RunningIs
  <2> QED
    BY <2>2 DEF Frame
<1>12. stack' = Append(Below, f) /\ ob' = Append(ob, <<w[i]>>) /\ ret' = None
  BY <1>8, <1>10 DEF BeginRuns
<1> HIDE DEF f
<1>13. Below \in Seq(Frame) /\ Len(Below) = v
  <2>1. Below \in Seq(Frame) /\ Len(Below) = Len(stack) - 1
    BY <1>1, TopIs
  <2>2. Len(stack) - 1 = v
    BY <1>2
  <2> QED
    BY <2>1, <2>2
<1>14. PICK d \in Nat: d = Len(ob)
  BY DEF Types
<1>15. ob'[d + 1] = <<w[i]>>
  <2>1. <<w[i]>> \in Text /\ ob \in Seq(Text)
    BY <1>9, PlatesAssumption, TextIs DEF Types
  <2> QED
    BY <1>12, <1>14, <2>1, AppendIs
<1>16. Fits(f, ob', w, b, extra')
  <2>1. Depth(f) = d + 1
    <3>1. Len(<<>>) = 0
      OBVIOUS
    <3> QED
      BY <1>11, <1>14, <3>1 DEF Depth
  <2>2. \A k \in d + 1..d + 1: k = d + 1
    OBVIOUS
  <2>3. Fit(<<w[i]>>, b + i, w, b, extra')
    <3>1. PICK e \in Nat: e = Len(w) /\ DOMAIN w = 1..e
      BY WantIs
    <3>2. b + i \in Nat /\ b + i > b /\ b + i <= b + e /\ (b + i) - b = i
      BY <1>4, <3>1
    <3>3. \A k, j \in DOMAIN w: w[k] = w[j] => k = j
      BY DEF Stands
    <3>4. w[i] = w[(b + i) - b]
      BY <3>2
    <3> QED
      BY <3>1, <3>2, <3>3, <3>4, OneFits
  <2> QED
    BY <1>11, <1>14, <1>15, <2>1, <2>2, <2>3 DEF Fits
<1>17. Starts(f, ob', w, i)
  BY <1>9, <1>11, <1>14, <1>15 DEF Starts
<1>18. /\ Risen(v, w, b, i, stack', ob', extra')
       /\ Len(stack') = v + 1 /\ stack'[v + 1] = f
  BY <1>11, <1>12, <1>13, <1>16, <1>17, RisenFirst
<1>19. Hands(v, w, i)'
  BY <1>12 DEF Hands
<1>20. Fed(v, b, i)'
  BY <1>1, <1>7 DEF Fed
<1> QED
  BY <1>4, <1>7, <1>18, <1>19, <1>20 DEF OnLevel

LEMMA PageDeliver ==
  ASSUME Types, Types', Phase, Tower(stack, ob), NEW v \in Nat, NEW w \in Want, NEW b \in Nat, NEW lv,
         OneView(stack, v, w), Stands(w, b), Kept(w, b), OnLevel(v, w, b, lv), Deliver
  PROVE  Stands(w, b)' /\ Kept(w, b)' /\ OnLevel(v, w, b, lv)'
<1>1. InPlate /\ mode = "run" /\ ret # None /\ UNCHANGED <<plate, stored, mode, extra>>
  BY DEF Deliver, history
<1>2. Stands(w, b)' /\ Kept(w, b)'
  BY <1>1, StockSame
<1>3. /\ stack # <<>> /\ stack \in Seq(Frame) /\ Top = Last(stack) /\ Below = Front(stack) /\ IsPlate(Top)
      /\ Below \in Seq(Frame) /\ Len(Below) = Len(stack) - 1 /\ StackTyped(Below, plate)
      /\ \A k \in 1..Len(stack) - 1: Below[k] = stack[k]
  BY <1>1, TopIs DEF Top
<1>4. ~Top.live
  BY <1>1, <1>3 DEF Phase
<1>5. Settled(Below, ob)
  BY <1>1, <1>4, SettledBelow
<1>6. /\ lv \in Nat \ {0} /\ Len(w) \in Nat /\ Len(stack) \in Nat /\ v < Len(stack)
  BY <1>1, TopOfPage
<1>7. PICK k \in Nat: k = Len(Below) /\ Len(stack) = k + 1 /\ DOMAIN Below = 1..k
  BY <1>3, <1>6
<1>8. SameViews(Below, stack)
  BY <1>3, ViewsPop
<1>9. OneView(Below, v, w)
  BY <1>3, <1>8, SameViewsIs
<1>10. v \in 1..k /\ Below[v].kind = "view"
  BY <1>7, <1>9 DEF OneView, ViewAt
<1>11. Below # <<>> /\ Last(Below) = Below[k] /\ Last(Below) \in Frame
  <2>1. Below # <<>>
    BY <1>7, <1>10
  <2> QED
    BY <1>3, <1>7, <2>1, FrontIs
<1>12. IsPlate(Last(Below))
  BY <1>11 DEF Deliver, IsPlate
<1>13. v < k
  <2>1. ~IsPlate(Below[v])
    BY <1>10 DEF IsPlate
  <2>2. v # k
    BY <1>11, <1>12, <2>1
  <2> QED
    BY <1>10, <2>2
<1>14. Risen(v, w, b, lv, Below, ob, extra)
  <2>1. v + 1 < Len(stack) /\ ob \in Seq(Text)
    BY <1>7, <1>13 DEF Types
  <2>2. Risen(v, w, b, lv, stack, ob, extra) /\ Settled(Front(stack), ob)
    BY <1>3, <1>5 DEF OnLevel
  <2>3. Risen(v, w, b, lv, Front(stack), ob, extra)
    BY <1>3, <2>1, <2>2, RisenPop
  <2> QED
    BY <1>3, <2>3
<1>15. Junk(ret, w, extra) /\ ret \in Text
  <2>1. Len(stack) # v + 1
    BY <1>7, <1>13
  <2>2. ret \in Text
    BY <1>1 DEF Types, Maybe
  <2> QED
    BY <1>1, <2>1, <2>2 DEF OnLevel, Hands
<1>16. PICK h \in PlateFrame: h = Last(Below)
  BY <1>11, <1>12, FrameIs
<1>17. h.of \in Nat /\ h.of > b
  <2>1. h.of \in Nat
    BY <1>16 DEF PlateFrame
  <2>2. CASE k = v + 1
    <3>1. h.of = b + lv
      BY <1>11, <1>14, <1>16, <2>2 DEF Risen
    <3> QED
      BY <1>6, <2>1, <3>1
  <2>3. CASE k > v + 1
    <3>1. h.of > b + Len(w)
      BY <1>7, <1>11, <1>14, <1>16, <2>3 DEF Risen
    <3> QED
      BY <1>6, <2>1, <3>1
  <2> QED
    BY <1>13, <2>2, <2>3
<1>18. Fit(ret, h.of, w, b, extra)
  <2>1. PICK e \in Nat: e = Len(w) /\ DOMAIN w = 1..e
    BY WantIs
  <2> QED
    BY <1>15, <1>17, <2>1, JunkFits
<1>19. Risen(v, w, b, lv, Append(Front(Below), Heard(h, ret)), Echo(ob, ret), extra)
  <2>1. v < Len(Below) /\ ob \in Seq(Text)
    BY <1>7, <1>13 DEF Types
  <2> QED
    BY <1>3, <1>5, <1>6, <1>9, <1>11, <1>12, <1>14, <1>15, <1>16, <1>18, <2>1, RisenPrints
<1>20. stack' = Append(Front(Below), Heard(h, ret)) /\ ob' = Echo(ob, ret) /\ ret' = None
  BY <1>11, <1>16 DEF Deliver
<1>21. Hands(v, w, lv)'
  BY <1>20 DEF Hands
<1>22. Fed(v, b, lv)'
  BY <1>1 DEF OnLevel, Fed
<1> QED
  BY <1>1, <1>2, <1>19, <1>20, <1>21, <1>22 DEF OnLevel

LEMMA PageUnwind ==
  ASSUME Types, Types', Phase, Tower(stack, ob), NEW v \in Nat, NEW w \in Want, NEW b \in Nat, NEW lv,
         OneView(stack, v, w), Stands(w, b), Kept(w, b), OnLevel(v, w, b, lv), Unwind, mode' # "dead"
  PROVE  /\ Stands(w, b)' /\ Kept(w, b)'
         /\ v < Len(stack') => \E i \in DOMAIN w: OnLevel(v, w, b, i)'
<1>1. InPlate /\ mode = "throw" /\ UNCHANGED <<stored, ret, extra>>
  BY DEF Unwind, history
<1>2. ret = None
  BY <1>1 DEF Phase
<1>3. /\ stack # <<>> /\ stack \in Seq(Frame) /\ Top = Last(stack) /\ Below = Front(stack) /\ IsPlate(Top)
      /\ Below \in Seq(Frame) /\ Len(Below) = Len(stack) - 1 /\ StackTyped(stack, plate) /\ Top \in PlateFrame
      /\ \A k \in 1..Len(stack) - 1: Below[k] = stack[k]
  BY <1>1, TopIs DEF Top, Types
<1>4. /\ lv \in Nat \ {0} /\ Len(w) \in Nat /\ Len(stack) \in Nat /\ v < Len(stack)
  BY <1>1, TopOfPage
<1>5. PICK k \in Nat: k = Len(Below) /\ Len(stack) = k + 1
  BY <1>3, <1>4
<1>6. CASE stack' = Below /\ plate' = plate /\ (Below # <<>> => mode' = "throw")
  <2>1. Stands(w, b)' /\ Kept(w, b)'
    BY <1>1, <1>6, StockSame
  <2>2. ASSUME v < k PROVE OnLevel(v, w, b, lv)'
    <3>1. Settled(Below, ob') /\ \A i \in 1..Len(ob'): ob'[i] = ob[i]
      <4>1. CASE Top.live
        <5>1. Settled(stack, ob)
          BY <1>3, <4>1, TowerIs DEF Flat
        <5>2. /\ Top.base \in 0..Len(ob) /\ Len(ob) = Depth(Top)
              /\ Len(SubSeq(ob, 1, Top.base)) = Top.base
              /\ \A i \in 1..Top.base: SubSeq(ob, 1, Top.base)[i] = ob[i]
              /\ Settled(Below, SubSeq(ob, 1, Top.base))
          BY <1>3, <5>1, SettledPop DEF Types
        <5>3. Len(ob) > Top.base
          BY <1>3, <5>2, DepthIs
        <5>4. ob' = SubSeq(ob, 1, Top.base)
          BY <4>1, <5>3 DEF Unwind
        <5> QED
          BY <5>2, <5>4
      <4>2. CASE ~Top.live
        <5>1. ob' = ob
          BY <4>2 DEF Unwind
        <5> QED
          BY <1>1, <4>2, <5>1, SettledBelow
      <4> QED
        BY <4>1, <4>2
    <3>2. Risen(v, w, b, lv, stack', ob', extra')
      <4>1. v + 1 < Len(stack) /\ ob' \in Seq(Text)
        BY <1>5, <2>2 DEF Types
      <4>2. Risen(v, w, b, lv, stack, ob, extra) /\ Settled(Front(stack), ob')
        BY <1>3, <3>1 DEF OnLevel
      <4>3. Risen(v, w, b, lv, Front(stack), ob', extra)
        BY <1>3, <3>1, <4>1, <4>2, RisenPop
      <4> QED
        BY <1>1, <1>3, <1>6, <4>3
    <3>3. Hands(v, w, lv)'
      BY <1>1, <1>2 DEF Hands
    <3>4. Fed(v, b, lv)'
      <4>1. stack'[v + 1] = stack[v + 1]
        <5>1. v + 1 \in 1..Len(stack) - 1
          BY <1>5, <2>2
        <5> QED
          BY <1>3, <1>6, <5>1
      <4>2. mode' = "throw"
        <5>1. Below # <<>>
          <6>1. Len(<<>>) = 0
            OBVIOUS
          <6> QED
            BY <1>5, <2>2, <6>1
        <5> QED
          BY <1>6, <5>1
      <4> QED
        BY <1>6, <4>1, <4>2 DEF OnLevel, Fed
    <3> QED
      BY <3>2, <3>3, <3>4 DEF OnLevel
  <2>3. lv \in DOMAIN w
    BY DEF OnLevel
  <2> QED
    BY <1>5, <1>6, <2>1, <2>2, <2>3
<1>7. CASE /\ Me.layout # None /\ mode' = mode
           /\ plate' = [plate EXCEPT ![Layout].content = None]
           /\ stack' = Append(Below, [Running(Layout) EXCEPT !.live = FALSE])
  <2>1. /\ Len(stack) = v + 1 /\ lv + 1 \in DOMAIN w
        /\ Layout = b + (lv + 1) /\ Layout \in DOMAIN plate
    BY <1>1, <1>7, LayoutOfLevel
  <2>2. PICK i \in Nat: i = lv + 1 /\ i \in DOMAIN w
    BY <1>4, <2>1
  <2>3. plate' = [plate EXCEPT ![b + i].content = None] /\ b + i \in DOMAIN plate
    BY <1>7, <2>1, <2>2
  <2>4. Stands(w, b)' /\ Kept(w, b)'
    <3>1. None \in Maybe(Text)
      BY DEF Maybe
    <3> QED
      BY <1>1, <2>2, <2>3, <3>1, ContentOfLevel
  <2> DEFINE g == [Running(b + i) EXCEPT !.live = FALSE]
  <2>5. g \in Frame /\ g.of = b + i /\ g.live = FALSE
    <3>1. b + i \in Nat /\ ob \in Seq(Text)
      BY DEF Types
    <3>2. g \in PlateFrame /\ g.of = b + i /\ g.live = FALSE
      BY <3>1, RunningIs
    <3> QED
      BY <3>2 DEF Frame
  <2>6. stack' = Append(Below, g)
    BY <1>7, <2>1, <2>2
  <2> HIDE DEF g
  <2>7. Fits(g, ob', w, b, extra') /\ Starts(g, ob', w, i)
    BY <2>5 DEF Fits, Starts
  <2>8. Len(Below) = v
    BY <1>5, <2>1
  <2>9. Risen(v, w, b, i, stack', ob', extra') /\ stack'[v + 1] = g
    BY <1>3, <2>5, <2>6, <2>7, <2>8, RisenFirst
  <2>10. Hands(v, w, i)'
    BY <1>1, <1>2 DEF Hands
  <2>11. Fed(v, b, i)'
    BY <1>1, <1>7, <2>5, <2>9 DEF Fed
  <2> QED
    BY <2>2, <2>4, <2>9, <2>10, <2>11 DEF OnLevel
<1> QED
  BY <1>6, <1>7 DEF Unwind
-----------------------------------------------------------------------------
(* A page begins.                                                          *)

LEMMA WantedIs ==
  ASSUME NEW u \in Seq(Name), u # <<>>, NEW raw \in BOOLEAN
  PROVE  LET w == Wanted(u, raw) IN
         /\ w \in Want /\ Len(w) = Len(u) /\ Len(u) \in Nat \ {0}
         /\ w[1] = IF raw THEN Raw ELSE u[1]
         /\ \A i \in 2..Len(u): w[i] = u[i]
<1>1. Len(u) \in Nat \ {0}
  BY EmptySeq
<1>2. u \in Seq(Name \cup {Raw}) /\ 1 \in 1..Len(u)
  BY <1>1
<1>3. CASE raw
  <2>1. PICK z: z = [u EXCEPT ![1] = Raw]
    OBVIOUS
  <2>2. /\ z \in Seq(Name \cup {Raw}) /\ Len(z) = Len(u) /\ z[1] = Raw
        /\ \A i \in 1..Len(u): i # 1 => z[i] = u[i]
    BY <1>2, <2>1, ExceptSeq
  <2>3. Wanted(u, raw) = z
    BY <1>3, <2>1 DEF Wanted
  <2>4. \A i \in 2..Len(u): i \in 1..Len(u) /\ i # 1
    BY <1>1
  <2> QED
    BY <1>1, <1>3, <2>2, <2>3, <2>4 DEF Want
<1>4. CASE ~raw
  BY <1>1, <1>2, <1>4 DEF Wanted, Want
<1> QED
  BY <1>3, <1>4

LEMMA FreshStands ==
  ASSUME Types, Types', NEW u \in Seq(Name), u # <<>>, IsInjective(u), NEW raw \in BOOLEAN,
         plate' = plate \o Plates(u, raw), stored' = Stored(u), \A n \in Name: stored[n] = None,
         NEW w \in Want, w = Wanted(u, raw), NEW b \in Nat, b = Len(plate)
  PROVE  /\ Stands(w, b)' /\ Kept(w, b)' /\ b + 1 \in DOMAIN plate'
         /\ plate'[b + 1].raw = raw /\ plate'[b + 1].name = u[1]
<1>1. PICK e \in Nat: e = Len(u) /\ e > 0 /\ DOMAIN u = 1..e
  BY EmptySeq
<1>2. /\ Len(w) = e /\ DOMAIN w = 1..e /\ w[1] = (IF raw THEN Raw ELSE u[1])
      /\ \A i \in 2..e: w[i] = u[i]
  <2>1. LET z == Wanted(u, raw) IN
        /\ Len(z) = Len(u) /\ z[1] = (IF raw THEN Raw ELSE u[1])
        /\ \A i \in 2..Len(u): z[i] = u[i]
    BY WantedIs
  <2> QED
    BY <1>1, <2>1, WantIs
<1>3. PICK ps \in Seq(Plate): /\ ps = Plates(u, raw) /\ Len(ps) = e
                              /\ \A i \in 1..e: /\ ps[i].name = u[i]
                                                /\ ps[i].layout = (IF i < e THEN u[i + 1] ELSE None)
                                                /\ ps[i].raw = (raw /\ i = 1) /\ ps[i].content = None
                                                /\ \A t \in Section: ps[i].text[t] = None
  BY <1>1, PlatesAre
<1>4. /\ plate' \in Seq(Plate) /\ Len(plate') = b + e
      /\ \A k \in 1..b + e: plate'[k] = IF k <= b THEN plate[k] ELSE ps[k - b]
  <2>1. PICK a: a = plate /\ a \in Seq(Plate) /\ Len(a) = b
    BY DEF Types
  <2>2. PICK z: z = a \o ps
    OBVIOUS
  <2>3. ps \in Seq(Plate) /\ Len(ps) = e
    BY <1>3
  <2>4. /\ z \in Seq(Plate) /\ Len(z) = b + e
        /\ \A k \in 1..b + e: z[k] = IF k <= b THEN a[k] ELSE ps[k - b]
    BY ONLY <2>1, <2>2, <2>3, ConcatProperties, ZenonT(60)
  <2>5. plate' = z
    BY <1>3, <2>1, <2>2
  <2> QED
    BY ONLY <2>1, <2>4, <2>5
<1>5. DOMAIN plate' = 1..b + e
  BY <1>4
<1>6. \A j \in 1..e: b + j \in 1..b + e /\ plate'[b + j] = ps[j]
  <2> SUFFICES ASSUME NEW j \in 1..e PROVE b + j \in 1..b + e /\ plate'[b + j] = ps[j]
    OBVIOUS
  <2>1. b + j \in 1..b + e /\ ~(b + j <= b) /\ (b + j) - b = j
    OBVIOUS
  <2> QED
    BY <1>4, <2>1
<1>7. /\ \A j \in 1..e: u[j] \in Name
      /\ \A i, j \in 1..e: u[i] = u[j] => i = j
  <2>1. \A i, j \in DOMAIN u: u[i] = u[j] => i = j
    BY DEF IsInjective
  <2> QED
    BY <1>1, <2>1, SMTT(40)
<1>8. Raw \notin Name
  BY PlatesAssumption
<1>9. \A i \in 1..e: i = 1 \/ i \in 2..e
  OBVIOUS
<1>10. \A i, j \in 1..e: w[i] = w[j] => i = j
  BY <1>2, <1>7, <1>8, <1>9
<1>11. /\ \A n \in Name: (~ \E i \in 2..e: u[i] = n) => stored'[n] = stored[n]
       /\ \A i \in 2..e: stored'[u[i]] = b + i
  <2>1. /\ \A n \in Name: (~ \E i \in 2..Len(u): u[i] = n) => Stored(u)[n] = stored[n]
        /\ IsInjective(u) => \A i \in 2..Len(u): Stored(u)[u[i]] = b + i
    BY StoredIs
  <2> QED
    BY <1>1, <2>1
<1>12. ASSUME NEW j \in 1..e
       PROVE  /\ plate'[b + j].layout = IF j < e THEN w[j + 1] ELSE None
              /\ j > 1 => stored'[w[j]] = b + j
              /\ plate'[b + j].raw => j = 1 /\ w[j] = Raw
              /\ ~plate'[b + j].raw => plate'[b + j].name = w[j]
  <2>1. plate'[b + j] = ps[j]
    BY <1>6
  <2>2. j < e => j + 1 \in 2..e
    OBVIOUS
  <2>3. plate'[b + j].layout = IF j < e THEN w[j + 1] ELSE None
    BY <1>2, <1>3, <2>1, <2>2
  <2>4. j > 1 => j \in 2..e
    OBVIOUS
  <2>5. j > 1 => stored'[w[j]] = b + j
    BY <1>2, <1>11, <2>4
  <2>6. plate'[b + j].raw => j = 1 /\ w[j] = Raw
    <3>1. plate'[b + j].raw = (raw /\ j = 1)
      BY <1>3, <2>1
    <3>2. plate'[b + j].raw => raw /\ j = 1
      BY ONLY <3>1, raw \in BOOLEAN
    <3> QED
      BY <1>2, <3>2
  <2>7. ~plate'[b + j].raw => plate'[b + j].name = w[j]
    BY <1>2, <1>3, <1>9, <2>1
  <2> QED
    BY <2>3, <2>5, <2>6, <2>7
<1>13. \A n \in Name: stored'[n] = None \/ \E j \in 1..e: n = w[j]
  <2> SUFFICES ASSUME NEW n \in Name PROVE stored'[n] = None \/ \E j \in 1..e: n = w[j]
    OBVIOUS
  <2>1. CASE \E i \in 2..e: u[i] = n
    BY <1>2, <2>1
  <2>2. CASE ~ \E i \in 2..e: u[i] = n
    BY <1>11, <2>2
  <2> QED
    BY <2>1, <2>2
<1>14. Stands(w, b)'
  <2>1. Len(w) > 0 /\ b + Len(w) <= Len(plate')
    BY <1>1, <1>2, <1>4
  <2>2. \A j \in DOMAIN w:
          /\ plate'[b + j].layout = IF j < Len(w) THEN w[j + 1] ELSE None
          /\ j > 1 => stored'[w[j]] = b + j
          /\ plate'[b + j].raw => j = 1 /\ w[j] = Raw
          /\ ~plate'[b + j].raw => plate'[b + j].name = w[j]
    BY <1>2, <1>12
  <2>3. \A i, j \in DOMAIN w: w[i] = w[j] => i = j
    BY <1>2, <1>10
  <2>4. \A n \in Name: stored'[n] = None \/ \E j \in DOMAIN w: n = w[j]
    BY <1>2, <1>13
  <2> QED
    BY ONLY <2>1, <2>2, <2>3, <2>4 DEF Stands
<1>15. ASSUME NEW p \in 1..b + e, p > b
       PROVE  \A s \in Section: plate'[p].text[s] = None
  <2>1. p - b \in 1..e /\ b + (p - b) = p
    BY <1>15
  <2>2. plate'[p] = ps[p - b]
    BY <1>6, <2>1
  <2> QED
    BY <1>3, <2>1, <2>2
<1>16. Kept(w, b)'
  <2>1. \A p \in 1..b + e: ~(p > b + e)
    OBVIOUS
  <2>2. \A j \in 1..e: plate'[b + j].content = None
    <3>1. \A j \in 1..e: ps[j].content = None
      BY <1>3
    <3> QED
      BY <1>6, <3>1
  <2>3. \A p \in DOMAIN plate': ~(p > b + Len(w))
    BY <1>2, <1>5, <2>1
  <2>4. \A p \in DOMAIN plate': p > b => \A s \in Section: plate'[p].text[s] = None
    BY <1>5, <1>15
  <2>5. \A j \in DOMAIN w: plate'[b + j].content = None
    BY <1>2, <2>2
  <2> QED
    BY ONLY <2>3, <2>4, <2>5 DEF Kept
<1>17. b + 1 \in 1..b + e /\ plate'[b + 1] = ps[1] /\ 1 \in 1..e
  <2>1. 1 \in 1..e
    BY <1>1
  <2> QED
    BY <1>6, <2>1
<1> QED
  BY <1>3, <1>5, <1>14, <1>16, <1>17

LEMMA PageBegins ==
  ASSUME Types, Types', PageShape, odd = {}, mode # "dead", NEW i \in View, NEW l \in ViewLists, NEW raw \in BOOLEAN,
         RenderView(i, l, raw), odd' = {}, mode' # "dead", NEW v \in Nat, NEW w \in Want, OneView(stack', v, w), Shows(w)
  PROVE  \E b \in Nat: InPage(v, w, b)'
<1>1. PICK u \in Seq(Name), f \in Frame:
           /\ u # <<>> /\ IsInjective(u) /\ f.kind = "view" /\ f.want = Wanted(u, raw) /\ f.want \in Want
           /\ Append(stack, f) \in Seq(Frame) /\ stack \in Seq(Frame) /\ NoView(stack)
           /\ plate' = plate \o Plates(u, raw) /\ stored' = Stored(u)
           /\ Begin(plate', Len(plate) + 1, Append(stack, f)) /\ SameViews(stack', Append(stack, f))
  BY RenderViewIs
<1>2. PICK k \in Nat: k = Len(stack)
  BY <1>1
<1>3. stack' \in Seq(Frame)
  BY DEF Types, StackTyped
<1>4. v = k + 1 /\ w = f.want
  <2>1. OneView(Append(stack, f), k + 1, f.want)
    BY <1>1, <1>2, ViewCome
  <2>2. OneView(Append(stack, f), v, w)
    BY <1>1, <1>3, SameViewsIs
  <2> QED
    BY <2>1, <2>2 DEF OneView, ViewAt
<1>5. PICK b \in Nat: b = Len(plate)
  BY DEF Types
<1>6. \A n \in Name: stored[n] = None
  <2>1. \A x \in Nat: \A y \in Want: ~OneView(stack, x, y)
    BY <1>1 DEF NoView, OneView, ViewAt
  <2> QED
    BY <2>1 DEF PageShape
<1>7. /\ Stands(w, b)' /\ Kept(w, b)' /\ b + 1 \in DOMAIN plate'
      /\ plate'[b + 1].raw = raw /\ plate'[b + 1].name = u[1]
  BY <1>1, <1>4, <1>5, <1>6, FreshStands, ZenonT(60)
<1>8. w[1] = (IF raw THEN Raw ELSE u[1]) /\ u[1] \in Name
  <2>1. LET z == Wanted(u, raw) IN z[1] = (IF raw THEN Raw ELSE u[1]) /\ Len(u) \in Nat \ {0}
    BY <1>1, WantedIs
  <2> QED
    BY <1>1, <1>4, <2>1
<1>9. PICK e \in Nat: e = Len(w) /\ DOMAIN w = 1..e
  BY WantIs
<1>10. e > 0 /\ \A m, j \in DOMAIN w: w[m] = w[j] => m = j
  BY <1>7, <1>9 DEF Stands
<1>11. 1 \in DOMAIN w
  BY <1>9, <1>10
<1> DEFINE r == Running(b + 1)
           g == [r EXCEPT !.live = FALSE]
<1>12. /\ r \in Frame /\ r.of = b + 1 /\ r.base = Len(ob) /\ r.open = <<>> /\ r.told = FALSE
       /\ g \in Frame /\ g.of = b + 1 /\ g.live = FALSE
  <2>1. b + 1 \in Nat /\ ob \in Seq(Text)
    BY DEF Types
  <2>2. /\ r \in PlateFrame /\ r.of = b + 1 /\ r.base = Len(ob) /\ r.open = <<>> /\ r.told = FALSE
        /\ g \in PlateFrame /\ g.of = b + 1 /\ g.live = FALSE
    BY <2>1, RunningIs
  <2> QED
    BY <2>2 DEF Frame
<1> HIDE DEF r, g
<1>13. PICK s \in Seq(Frame): s = Append(stack, f) /\ Len(s) = v
  BY <1>1, <1>2, <1>4, AppendIs
<1>14. Fed(v, b, 1)'
  BY DEF Fed
<1>15. Tidy(<<w[1]>>, w, 1, extra') /\ Fit(<<w[1]>>, b + 1, w, b, extra')
  <2>1. b + 1 \in Nat /\ b + 1 > b /\ b + 1 <= b + e /\ (b + 1) - b = 1
    BY <1>10
  <2>2. w[1] = w[(b + 1) - b]
    BY <2>1
  <2> QED
    BY <1>9, <1>10, <1>11, <2>1, <2>2, OneFits
<1>16. CASE BeginFlat(plate', b + 1, Append(stack, f))
  <2>1. stack' = Append(Append(stack, f), g)
    BY <1>16 DEF BeginFlat, g, r
  <2>2. raw
    <3>1. ~raw => w[1] \in Files
      BY <1>8, <1>11, PlatesAssumption DEF Shows
    <3> QED
      BY <1>7, <1>8, <1>16, <3>1 DEF BeginFlat
  <2>3. ret' = <<w[1]>>
    BY <1>7, <1>8, <1>16, <2>2 DEF BeginFlat
  <2>4. Fits(g, ob', w, b, extra') /\ Starts(g, ob', w, 1)
    BY <1>12 DEF Fits, Starts
  <2>5. Risen(v, w, b, 1, stack', ob', extra') /\ Len(stack') = v + 1
    <3>1. PICK j \in Nat: j = 1 /\ j \in DOMAIN w
      BY <1>11
    <3>2. g \in Frame /\ g.of = b + j /\ Starts(g, ob', w, j)
      BY <1>12, <3>1, <2>4
    <3>3. stack' = Append(s, g)
      BY <1>13, <2>1
    <3>4. Fits(g, ob', w, b, extra')
      BY <2>4
    <3>5. Risen(v, w, b, j, stack', ob', extra')
      <4>1. PICK y \in Frame: y = g
        BY <3>2
      <4>2. y.of = b + j /\ Starts(y, ob', w, j) /\ Fits(y, ob', w, b, extra')
        BY <3>2, <3>4, <4>1
      <4>3. PICK o, x: o = ob' /\ x = extra'
        OBVIOUS
      <4>4. Starts(y, o, w, j) /\ Fits(y, o, w, b, x)
        BY <4>2, <4>3
      <4>5. Risen(v, w, b, j, Append(s, y), o, x)
        BY ONLY <1>13, <4>2, <4>4, RisenFirst, v \in Nat, b \in Nat, s \in Seq(Frame), y \in Frame
      <4> QED
        BY <3>3, <4>1, <4>3, <4>5
    <3>6. Len(stack') = v + 1
      BY <1>12, <1>13, <3>3, AppendIs, ZenonT(60)
    <3> QED
      BY <3>1, <3>5, <3>6
  <2>6. Has(<<w[1]>>, w, 1)
    BY DEF Has
  <2>7. Hands(v, w, 1)'
    BY <1>15, <2>3, <2>5, <2>6 DEF Hands
  <2> QED
    BY <1>7, <1>11, <1>14, <2>5, <2>7, InPageIsStill DEF OnLevel
<1>17. CASE BeginRuns(plate', b + 1, Append(stack, f))
  <2>1. stack' = Append(Append(stack, f), r) /\ ~raw /\ ob' = Append(ob, <<w[1]>>) /\ ret' = None
    BY <1>7, <1>8, <1>17 DEF BeginRuns, r
  <2>2. w[1] \in Name /\ w[1] # Raw
    BY <1>8, <2>1, PlatesAssumption
  <2>3. PICK d \in Nat: d = Len(ob)
    BY DEF Types
  <2>4. ob'[d + 1] = <<w[1]>>
    <3>1. <<w[1]>> \in Text /\ ob \in Seq(Text)
      BY <2>2, TextIs DEF Types
    <3> QED
      BY <2>1, <2>3, <3>1, AppendIs
  <2>5. Fits(r, ob', w, b, extra')
    <3>1. Depth(r) = d + 1
      <4>1. Len(<<>>) = 0
        OBVIOUS
      <4> QED
        BY <1>12, <2>3, <4>1 DEF Depth
    <3>2. \A x \in d + 1..d + 1: x = d + 1
      OBVIOUS
    <3> QED
      BY <1>12, <1>15, <2>3, <2>4, <3>1, <3>2 DEF Fits
  <2>6. Starts(r, ob', w, 1)
    BY <1>12, <2>2, <2>3, <2>4 DEF Starts
  <2>7. Risen(v, w, b, 1, stack', ob', extra') /\ Len(stack') = v + 1
    <3>1. PICK j \in Nat: j = 1 /\ j \in DOMAIN w
      BY <1>11
    <3>2. r \in Frame /\ r.of = b + j /\ Starts(r, ob', w, j)
      BY <1>12, <3>1, <2>5, <2>6
    <3>3. stack' = Append(s, r)
      BY <1>13, <2>1
    <3>4. Fits(r, ob', w, b, extra')
      BY <2>5
    <3>5. Risen(v, w, b, j, stack', ob', extra')
      <4>1. PICK y \in Frame: y = r
        BY <3>2
      <4>2. y.of = b + j /\ Starts(y, ob', w, j) /\ Fits(y, ob', w, b, extra')
        BY <3>2, <3>4, <4>1
      <4>3. PICK o, x: o = ob' /\ x = extra'
        OBVIOUS
      <4>4. Starts(y, o, w, j) /\ Fits(y, o, w, b, x)
        BY <4>2, <4>3
      <4>5. Risen(v, w, b, j, Append(s, y), o, x)
        BY ONLY <1>13, <4>2, <4>4, RisenFirst, v \in Nat, b \in Nat, s \in Seq(Frame), y \in Frame
      <4> QED
        BY <3>3, <4>1, <4>3, <4>5
    <3>6. Len(stack') = v + 1
      BY <1>12, <1>13, <3>3, AppendIs, ZenonT(60)
    <3> QED
      BY <3>1, <3>5, <3>6
  <2>8. Hands(v, w, 1)'
    BY <2>1 DEF Hands
  <2> QED
    BY <1>7, <1>11, <1>14, <2>7, <2>8, InPageIsStill DEF OnLevel
<1> QED
  BY <1>1, <1>5, <1>16, <1>17, BeginIs DEF BeginDies
-----------------------------------------------------------------------------
(* Every step keeps the page.                                              *)

LEMMA OnlyPlates == ASSUME stack # <<>>, PlatesNext, ~Shifts PROVE InPlate
<1>1. ASSUME Asks \/ Calls PROVE InPlate
  BY <1>1 DEF Asks, Calls, InTemplate, InScript
<1>2. ASSUME NEW v \in View, NEW n \in Name, PushLevel(v, n) PROVE InPlate
  BY <1>1, <1>2 DEF PushLevel
<1>3. ASSUME NEW v \in View, NEW l \in ViewLists, RenderWithoutEngine(v, l) \/ RenderNothing(v, l) PROVE InPlate
  BY <1>1, <1>3 DEF RenderWithoutEngine, RenderNothing, Asking
<1>4. ASSUME NEW n \in Name, Insert(n) \/ InsertInTemplate(n) \/ SetLayout(n) PROVE InPlate
  BY <1>1, <1>4 DEF Insert, InScript, InsertInTemplate, SetLayout
<1>5. CASE InsertWithoutEngine \/ Say \/ GetContent \/ Stop \/ StopRefused \/ StyleBegin \/ StyleEnd \/ StyleEndRefused
  BY <1>1, <1>5 DEF InsertWithoutEngine, Say, GetContent, Stop, StopRefused, StyleBegin, StyleEnd, StyleEndRefused
<1>6. ASSUME NEW s \in Section \cup {Content}, NEW push \in BOOLEAN, Start(s, push) PROVE InPlate
  BY <1>1, <1>6 DEF Start
<1>7. ASSUME NEW s \in Section, GetSection(s) PROVE InPlate
  BY <1>1, <1>7 DEF GetSection
<1>8. CASE TemplateEnds \/ TemplateThrows
  BY <1>8 DEF TemplateEnds, TemplateThrows, InTemplate
<1>9. CASE Wrap \/ WrapWithoutEngine \/ Deliver \/ Catch \/ Unwind
  BY <1>9 DEF Wrap, WrapWithoutEngine, Deliver, Catch, Unwind
<1> QED
  BY <1>2, <1>3, <1>4, <1>5, <1>6, <1>7, <1>8, <1>9 DEF PlatesNext, Call, Return, Shifts

LEMMA PageCall ==
  ASSUME Types, Types', Tower(stack, ob), OneBlock(plate, stack), stack # <<>>,
         NEW v \in Nat, NEW w \in Want, NEW b \in Nat, NEW lv,
         OneView(stack, v, w), Stands(w, b), Kept(w, b), OnLevel(v, w, b, lv),
         Call, ~Shifts, odd' = {}, mode' # "dead"
  PROVE  Stands(w, b)' /\ Kept(w, b)' /\ OnLevel(v, w, b, lv)'
<1> DEFINE Goal == Stands(w, b)' /\ Kept(w, b)' /\ OnLevel(v, w, b, lv)'
<1>1. ASSUME Calls PROVE Settled(stack, ob)
  <2>1. Top.live = TRUE
    BY <1>1, TopIs DEF Calls, InTemplate, PlateFrame
  <2>2. ~Flat(stack)
    BY <2>1 DEF Flat, Top
  <2> QED
    BY <2>2, TowerIs
<1>2. ASSUME UNCHANGED <<plate, stored, ob, stack, ret, extra>>, mode = "run" PROVE Goal
  <2>1. Stands(w, b)' /\ Kept(w, b)'
    BY <1>2, StockSame
  <2>2. OnLevel(v, w, b, lv)'
    BY <1>2, PageCalm
  <2> QED
    BY <2>1, <2>2
<1>3. ASSUME Asks \/ Calls PROVE mode = "run"
  BY <1>3 DEF Asks, Calls, InTemplate, InScript
<1>4. ASSUME NEW i \in View, NEW n \in Name, PushLevel(i, n) PROVE Goal
  <2>1. UNCHANGED <<plate, stored, ob, stack, ret, extra>> /\ Asks
    BY <1>4 DEF PushLevel, history
  <2> QED
    BY <1>2, <1>3, <2>1
<1>5. ASSUME NEW i \in View, NEW l \in ViewLists, RenderWithoutEngine(i, l) PROVE Goal
  <2>1. UNCHANGED <<plate, stored, ob, stack, ret, extra>> /\ Asks
    BY <1>5 DEF RenderWithoutEngine, Asking, history
  <2> QED
    BY <1>2, <1>3, <2>1
<1>6. ASSUME NEW i \in View, NEW l \in ViewLists, RenderNothing(i, l) PROVE Goal
  BY <1>6 DEF RenderNothing
<1>7. ASSUME NEW i \in View, NEW l \in ViewLists, NEW raw \in BOOLEAN, RenderView(i, l, raw) PROVE Goal
  BY <1>7 DEF Shifts
<1>8. ASSUME NEW n \in Name, Insert(n) PROVE Goal
  BY <1>8 DEF Insert, InScript
<1>9. ASSUME NEW n \in Name, InsertInTemplate(n) PROVE Goal
  <2>1. Calls
    BY <1>9 DEF InsertInTemplate
  <2> QED
    BY <1>1, <1>9, <2>1, PageInsert
<1>10. ASSUME NEW n \in Name, SetLayout(n) PROVE Goal
  BY <1>10 DEF SetLayout, Note
<1>11. CASE InsertWithoutEngine
  BY <1>11 DEF InsertWithoutEngine
<1>12. ASSUME UNCHANGED <<plate, stored, extra>>, OnLevel(v, w, b, lv)' PROVE Goal
  BY <1>12, StockSame
<1>13. CASE Say
  <2>1. Calls /\ UNCHANGED <<plate, stored, extra>>
    BY <1>13 DEF Say, history
  <2>2. OnLevel(v, w, b, lv)'
    BY <1>1, <1>13, <2>1, PageSay
  <2> QED
    BY <1>12, <2>1, <2>2
<1>14. CASE GetContent
  <2>1. Calls /\ UNCHANGED <<plate, stored, extra>>
    BY <1>14 DEF GetContent, history
  <2>2. OnLevel(v, w, b, lv)'
    BY <1>1, <1>14, <2>1, PageContent
  <2> QED
    BY <1>12, <2>1, <2>2
<1>15. ASSUME NEW s \in Section, GetSection(s) PROVE Goal
  <2>1. Calls /\ UNCHANGED <<plate, stored, extra>>
    BY <1>15 DEF GetSection, history
  <2>2. OnLevel(v, w, b, lv)'
    BY <1>1, <1>15, <2>1, PageSection
  <2> QED
    BY <1>12, <2>1, <2>2
<1>16. ASSUME NEW s \in Section \cup {Content}, NEW push \in BOOLEAN, Start(s, push) PROVE Goal
  <2>1. Calls
    BY <1>16 DEF Start
  <2> QED
    BY <1>1, <1>16, <2>1, PageStart
<1>17. CASE Stop
  <2>1. Calls
    BY <1>17 DEF Stop
  <2> QED
    BY <1>1, <1>17, <2>1, PageStop
<1>18. CASE StyleBegin \/ StyleEnd
  <2>1. Calls
    BY <1>18 DEF StyleBegin, StyleEnd
  <2> QED
    BY <1>1, <1>18, <2>1, PageStyle
<1>19. CASE StopRefused \/ StyleEndRefused
  <2>1. UNCHANGED <<plate, stored, ob, stack, ret, extra>> /\ Calls
    BY <1>19 DEF StopRefused, StyleEndRefused, Throw, history
  <2> QED
    BY <1>2, <1>3, <2>1
<1> QED
  BY <1>4, <1>5, <1>6, <1>7, <1>8, <1>9, <1>10, <1>11, <1>13, <1>14, <1>15, <1>16, <1>17, <1>18, <1>19 DEF Call

LEMMA PageReturn ==
  ASSUME Types, Types', Phase, Tower(stack, ob), NEW v \in Nat, NEW w \in Want, NEW b \in Nat, NEW lv,
         OneView(stack, v, w), Shows(w), Stands(w, b), Kept(w, b), OnLevel(v, w, b, lv), InPlate,
         Return, ~Shifts, odd' = {}, mode # "dead", mode' # "dead"
  PROVE  /\ Stands(w, b)' /\ Kept(w, b)'
         /\ v < Len(stack') => \E i \in DOMAIN w: OnLevel(v, w, b, i)'
<1> DEFINE Goal == /\ Stands(w, b)' /\ Kept(w, b)'
                   /\ v < Len(stack') => \E i \in DOMAIN w: OnLevel(v, w, b, i)'
<1>1. lv \in DOMAIN w
  BY DEF OnLevel
<1>2. ASSUME UNCHANGED <<plate, stored, ob, stack, ret, extra>>, mode' = "run" => mode = "run" \/ stack[v + 1].live
      PROVE  Goal
  <2>1. Stands(w, b)' /\ Kept(w, b)'
    BY <1>2, StockSame
  <2>2. OnLevel(v, w, b, lv)'
    BY <1>2, PageCalm
  <2> QED
    BY <1>1, <2>1, <2>2
<1>3. CASE TemplateEnds
  <2>1. Settled(stack, ob)
    <3>1. Top.live = TRUE
      BY <1>3, TopIs DEF TemplateEnds, InTemplate, PlateFrame
    <3>2. ~Flat(stack)
      BY <3>1 DEF Flat, Top
    <3> QED
      BY <3>2, TowerIs
  <2> QED
    BY <1>1, <1>3, <2>1, PageTemplateEnds
<1>4. CASE Wrap
  BY <1>4, PageWrap
<1>5. CASE WrapWithoutEngine
  BY <1>5 DEF WrapWithoutEngine
<1>6. CASE Deliver
  BY <1>1, <1>6, PageDeliver
<1>7. CASE TemplateThrows
  <2>1. UNCHANGED <<plate, stored, ob, stack, ret, extra>> /\ mode' # "run"
    BY <1>7 DEF TemplateThrows, history
  <2> QED
    BY <1>2, <2>1
<1>8. CASE Catch
  <2>1. UNCHANGED <<plate, stored, ob, stack, ret, extra>> /\ Top.live
    BY <1>8 DEF Catch, history
  <2>2. PICK n \in Nat \ {0}: n = Len(stack) /\ DOMAIN stack = 1..n /\ stack \in Seq(Frame) /\ Top = stack[n]
    BY TopIs
  <2>3. v < n
    BY <2>2, TopOfPage
  <2>4. v + 1 \in 1..n /\ v + 1 \in v + 1..n
    BY <2>3
  <2>5. IsPlate(stack[v + 1])
    BY <2>2, <2>4, AboveView
  <2>6. stack[v + 1].live
    <3>1. CASE v + 1 = n
      BY <2>1, <2>2, <3>1
    <3>2. CASE v + 1 < n
      BY <2>2, <2>4, <2>5, <3>2 DEF Phase, Alive
    <3> QED
      BY <2>3, <3>1, <3>2
  <2> QED
    BY <1>2, <2>1, <2>6
<1>9. CASE Unwind
  BY <1>9, PageUnwind
<1> QED
  BY <1>3, <1>4, <1>5, <1>6, <1>7, <1>8, <1>9 DEF Return, Shifts

LEMMA PageStays ==
  ASSUME Types, Types', Phase, Neat, PlatesNext, ~Shifts, odd' = {}, mode' # "dead",
         NEW v \in Nat, NEW w \in Want, NEW b \in Nat, OneView(stack, v, w), Shows(w), InPage(v, w, b)
  PROVE  InPage(v, w, b)'
<1>1. stack # <<>>
  BY DEF OneView, ViewAt
<1>2. InPlate /\ mode # "dead"
  BY <1>1, OnlyPlates, NextIs
<1>3. Tower(stack, ob) /\ OneBlock(plate, stack)
  BY <1>2, NextIs DEF Neat
<1>4. PICK n \in Nat \ {0}: n = Len(stack) /\ DOMAIN stack = 1..n /\ Top = stack[n] /\ IsPlate(Top)
  BY <1>2, TopIs
<1>5. v < Len(stack)
  <2>1. v \in 1..n /\ stack[v].kind = "view"
    BY <1>4 DEF OneView, ViewAt
  <2>2. v # n
    BY <1>4, <2>1 DEF IsPlate
  <2> QED
    BY <1>4, <2>1, <2>2
<1>6. PICK lv: lv \in DOMAIN w /\ OnLevel(v, w, b, lv)
  BY <1>5, InPageIs
<1>7. Stands(w, b) /\ Kept(w, b)
  BY InPageIs
<1>8. CASE Call
  <2>1. Stands(w, b)' /\ Kept(w, b)' /\ OnLevel(v, w, b, lv)'
    BY <1>1, <1>3, <1>6, <1>7, <1>8, PageCall
  <2> QED
    BY <1>6, <2>1, InPageIsStill
<1>9. CASE Return
  <2>1. /\ Stands(w, b)' /\ Kept(w, b)'
        /\ v < Len(stack') => \E i \in DOMAIN w: OnLevel(v, w, b, i)'
    BY <1>2, <1>3, <1>6, <1>7, <1>9, PageReturn
  <2> QED
    BY <2>1, InPageIsStill
<1> QED
  BY <1>8, <1>9 DEF PlatesNext

LEMMA LastView == ASSUME NEW s \in Seq(Frame), s # <<>>, Last(s).kind = "view" PROVE ~NoView(s)
<1>1. PICK n \in Nat: n = Len(s) /\ DOMAIN s = 1..n /\ n > 0
  BY EmptySeq
<1>2. n \in DOMAIN s /\ Last(s) = s[n]
  BY <1>1 DEF Last
<1> QED
  BY <1>2 DEF NoView

LEMMA TextsStep ==
  ASSUME PagesInv, PagesInv', PageShape, PageTexts, [PlatesNext]_platesVars
  PROVE  PageTexts'
<1>1. CASE UNCHANGED platesVars
  <2>1. \A v \in Nat: \A w \in Want: \A b \in Nat: InPage(v, w, b)' <=> InPage(v, w, b)
    BY <1>1 DEF platesVars, InPage, Stands, Kept, Hands, Fed
  <2> QED
    BY <1>1, <2>1 DEF platesVars, PageTexts
<1>2. CASE PlatesNext
  <2> SUFFICES ASSUME odd' = {}, mode' # "dead", NEW v \in Nat, NEW w \in Want, OneView(stack', v, w), Shows(w)
               PROVE  \E b \in Nat: InPage(v, w, b)'
    BY DEF PageTexts
  <2>1. Types /\ Types' /\ Phase /\ Neat
    BY DEF PagesInv
  <2>2. odd = {} /\ mode # "dead"
    BY <1>2, NextIs
  <2>3. stack \in Seq(Frame) /\ stack' \in Seq(Frame)
    BY <2>1 DEF Types, StackTyped
  <2>4. CASE ~Shifts
    <3>1. OneView(stack, v, w)
      BY <1>2, <2>1, <2>3, <2>4, ViewsStay, SameViewsIs
    <3>2. PICK b \in Nat: InPage(v, w, b)
      BY <2>2, <3>1 DEF PageTexts
    <3>3. InPage(v, w, b)'
      BY <1>2, <2>1, <2>4, <3>1, <3>2, PageStays
    <3> QED
      BY <3>3
  <2>5. ASSUME NEW i \in View, NEW l \in ViewLists, NEW raw \in BOOLEAN, RenderView(i, l, raw)
        PROVE  \E b \in Nat: InPage(v, w, b)'
    BY <2>1, <2>2, <2>5, PageBegins
  <2>6. ASSUME NoView(stack') PROVE FALSE
    BY <2>6 DEF NoView, OneView, ViewAt
  <2>7. PICK i \in Nat, u \in Want: ViewEnds \/ UnwindView => OneView(stack, i, u)
    <3>1. CASE \E i \in Nat: \E u \in Want: OneView(stack, i, u)
      BY <3>1
    <3>2. CASE NoView(stack)
      <4>1. ~(ViewEnds \/ UnwindView)
        <5>1. CASE ViewEnds
          <6>1. /\ Below \in Seq(Frame) /\ Below # <<>> /\ Last(Below).kind = "view" /\ SameViews(Below, stack)
            BY <2>1, <5>1, ViewEndsIs
          <6>2. NoView(Below)
            BY <2>3, <3>2, <6>1, SameViewsIs
          <6> QED
            BY <6>1, <6>2, LastView
        <5>2. CASE UnwindView
          <6>1. stack # <<>> /\ Last(stack).kind = "view"
            BY <5>2 DEF UnwindView, Top
          <6> QED
            BY <2>3, <3>2, <6>1, LastView
        <5>3. CASE ~ViewEnds /\ ~UnwindView
          BY <5>3
        <5> QED
          BY <5>1, <5>2, <5>3
      <4>2. <<>> \in Want /\ 0 \in Nat
        BY DEF Want
      <4> QED
        BY <4>1, <4>2
    <3> QED
      BY <2>2, <3>1, <3>2 DEF PageShape
  <2>8. CASE ViewEnds
    <3>1. /\ Below \in Seq(Frame) /\ Below # <<>> /\ Last(Below).kind = "view" /\ SameViews(Below, stack)
          /\ Front(Below) \in Seq(Frame) /\ SameViews(stack', Front(Below))
      BY <2>1, <2>8, ViewEndsIs
    <3>2. OneView(Below, i, u)
      BY <2>3, <2>7, <2>8, <3>1, SameViewsIs
    <3>3. NoView(Front(Below))
      BY <3>1, <3>2, ViewGone
    <3>4. NoView(stack')
      BY <2>3, <3>1, <3>3, SameViewsIs
    <3> QED
      BY <2>6, <3>4
  <2>9. CASE UnwindView
    <3>1. stack # <<>> /\ Last(stack).kind = "view" /\ stack' = Front(stack)
      BY <2>9 DEF UnwindView, Top, Below
    <3>2. NoView(stack')
      BY <2>3, <2>7, <2>9, <3>1, ViewGone
    <3> QED
      BY <2>6, <3>2
  <2> QED
    BY <2>4, <2>5, <2>8, <2>9 DEF Shifts
<1> QED
  BY <1>1, <1>2
-----------------------------------------------------------------------------
(* What comes out is in order.                                             *)

LEMMA FirstIs ==
  ASSUME NEW t \in Text, NEW a, Occurs(a, t)
  PROVE  /\ First(a, t) \in 1..Len(t) /\ t[First(a, t)] = a
         /\ \A j \in 1..First(a, t) - 1: t[j] # a
<1>1. PICK n \in Nat: n = Len(t)
  BY DEF Text
<1> DEFINE T == {k \in 1..n: t[k] = a}
<1>2. T \subseteq Nat /\ T # {}
  BY <1>1 DEF Occurs
<1>3. IsWellFoundedOn(Smaller, Nat)
  BY NatLessThanWellFounded DEF OpToRel, Smaller
<1>4. PICK u \in T: \A y \in T: ~ (<<y, u>> \in Smaller)
  BY <1>2, <1>3, WFMin
<1>5. \A j \in 1..u - 1: t[j] # a
  <2> SUFFICES ASSUME NEW j \in 1..u - 1, t[j] = a PROVE FALSE
    OBVIOUS
  <2>1. j \in T /\ j < u /\ u \in Nat /\ j \in Nat
    OBVIOUS
  <2> QED
    BY <1>4, <2>1 DEF Smaller
<1>6. \E k \in 1..Len(t): t[k] = a /\ \A j \in 1..k - 1: t[j] # a
  BY <1>1, <1>5
<1> QED
  BY <1>6 DEF First

LEMMA InOrder ==
  ASSUME NEW t \in Text, NEW w \in Want, NEW x, Tidy(t, w, Len(w), x), Has(t, w, Len(w))
  PROVE  /\ \A i \in 1..Len(w): Occurs(w[i], t)
         /\ \A i, j \in 1..Len(w): i < j => First(w[j], t) < First(w[i], t)
         /\ \A k \in 1..Len(t): t[k] \in x \cup {Missing} \/ \E i \in 1..Len(w): w[i] = t[k]
<1>1. PICK e \in Nat: e = Len(w) /\ DOMAIN w = 1..e
  BY WantIs
<1>2. PICK n \in Nat: n = Len(t) /\ DOMAIN t = 1..n
  BY DEF Text
<1>3. \A i \in 1..e: Occurs(w[i], t)
  BY <1>1, <1>2 DEF Has, Occurs
<1>4. ASSUME NEW i \in 1..e, NEW j \in 1..e, i < j PROVE First(w[j], t) < First(w[i], t)
  <2>1. PICK k \in 1..n: k = First(w[i], t) /\ t[k] = w[i]
    BY <1>2, <1>3, FirstIs
  <2>2. PICK m \in 1..n: m = First(w[j], t) /\ \A y \in 1..m - 1: t[y] # w[j]
    BY <1>2, <1>3, FirstIs, ZenonT(60)
  <2>3. Led(t, w[i], w[j])
    BY <1>1, <1>4 DEF Tidy
  <2>4. PICK y \in 1..k - 1: t[y] = w[j]
    BY <1>2, <2>1, <2>3 DEF Led
  <2>5. ~(y \in 1..m - 1)
    BY <2>2, <2>4
  <2>6. m < k
    BY <2>5
  <2> QED
    BY <2>1, <2>2, <2>6
<1>5. \A k \in 1..n: t[k] \in x \cup {Missing} \/ \E i \in 1..e: w[i] = t[k]
  BY <1>1, <1>2 DEF Tidy, Made
<1> QED
  BY <1>1, <1>2, <1>3, <1>4, <1>5

LEMMA ShownStays == ASSUME PlatesNext, ~ViewEnds PROVE shown' = shown /\ extra \subseteq extra'
<1> DEFINE Goal == shown' = shown /\ extra \subseteq extra'
<1>1. ASSUME NEW v \in View, NEW n \in Name, PushLevel(v, n) PROVE Goal
  BY <1>1 DEF PushLevel, history
<1>2. ASSUME NEW v \in View, NEW l \in ViewLists, RenderWithoutEngine(v, l) \/ RenderNothing(v, l) PROVE Goal
  BY <1>2 DEF RenderWithoutEngine, RenderNothing, history
<1>3. ASSUME NEW v \in View, NEW l \in ViewLists, NEW raw \in BOOLEAN, RenderView(v, l, raw) PROVE Goal
  BY <1>3 DEF RenderView, history
<1>4. ASSUME NEW n \in Name, Insert(n) \/ InsertInTemplate(n) \/ SetLayout(n) PROVE Goal
  BY <1>4 DEF Insert, InsertInTemplate, SetLayout, history
<1>5. CASE InsertWithoutEngine \/ Say \/ GetContent \/ Stop \/ StopRefused \/ StyleBegin \/ StyleEnd \/ StyleEndRefused
  BY <1>5 DEF InsertWithoutEngine, Say, GetContent, Stop, StopRefused, StyleBegin, StyleEnd, StyleEndRefused, history
<1>6. ASSUME NEW s \in Section \cup {Content}, NEW push \in BOOLEAN, Start(s, push) PROVE Goal
  BY <1>6 DEF Start, history
<1>7. ASSUME NEW s \in Section, GetSection(s) PROVE Goal
  BY <1>7 DEF GetSection, history
<1>8. CASE TemplateEnds \/ TemplateThrows \/ Wrap \/ WrapWithoutEngine \/ Deliver \/ Catch \/ Unwind \/ UnwindView
  BY <1>8 DEF TemplateEnds, TemplateThrows, Wrap, WrapWithoutEngine, Deliver, Catch, Unwind, UnwindView, history
<1> QED
  BY <1>1, <1>2, <1>3, <1>4, <1>5, <1>6, <1>7, <1>8 DEF PlatesNext, Call, Return

LEMMA PageOut ==
  ASSUME Types, PageShape, PageTexts, ViewEnds, odd = {}, NEW w, w = Last(Below).want, Range(w) \subseteq Files \cup {Raw}
  PROVE  ret \in Text /\ w \in Want /\ Tidy(ret, w, Len(w), extra) /\ Has(ret, w, Len(w))
<1>1. /\ InPlate /\ Below \in Seq(Frame) /\ Below # <<>> /\ Last(Below).kind = "view" /\ SameViews(Below, stack)
      /\ ret \in Text /\ ret # None
  BY ViewEndsIs
<1>2. stack \in Seq(Frame) /\ mode # "dead" /\ Wrapped
  BY DEF Types, StackTyped, ViewEnds
<1>3. ~NoView(stack)
  <2>1. ~NoView(Below)
    BY <1>1, LastView
  <2> QED
    BY <1>1, <1>2, <2>1, SameViewsIs
<1>4. PICK v \in Nat: OneView(stack, v, w) /\ v = Len(Below) /\ w \in Want
  <2>1. PICK v \in Nat, u \in Want: OneView(stack, v, u)
    BY <1>2, <1>3 DEF PageShape
  <2>2. OneView(Below, v, u)
    BY <1>1, <1>2, <2>1, SameViewsIs
  <2>3. v = Len(Below) /\ u = w
    BY <1>1, <2>2, ViewGone
  <2> QED
    BY <2>1, <2>3
<1>5. Shows(w)
  BY DEF Shows, Range
<1>6. PICK b \in Nat: InPage(v, w, b)
  BY <1>2, <1>4, <1>5 DEF PageTexts
<1>7. Len(stack) = v + 1
  BY <1>1, <1>4, TopIs
<1>8. PICK lv \in DOMAIN w: OnLevel(v, w, b, lv)
  <2>1. v < Len(stack)
    BY <1>7
  <2> QED
    BY <1>6, <2>1, InPageIs
<1>9. Stands(w, b) /\ Kept(w, b)
  BY <1>6, InPageIs
<1>10. PICK e \in Nat: e = Len(w) /\ DOMAIN w = 1..e /\ \A i \in DOMAIN w: w[i] # None
  <2>1. None \notin Name \cup {Raw}
    BY PlatesAssumption
  <2> QED
    BY <1>4, <2>1, WantIs
<1>11. Me.layout = None
  <2>1. ASSUME Me.layout # None PROVE Layout # None
    BY <1>1, <1>4, <1>8, <1>9, <2>1, LayoutOfLevel
  <2> QED
    BY <1>2, <2>1 DEF Wrapped
<1>12. Me = plate[b + lv]
  <2>1. Top.of = b + lv
    BY <1>1, <1>4, <1>7, <1>8, <1>9, TopOfPage
  <2> QED
    BY <1>1, <2>1, TopIs
<1>13. lv = Len(w)
  <2>1. ~(lv < Len(w))
    <3>1. SUFFICES ASSUME lv < Len(w) PROVE FALSE
      OBVIOUS
    <3>2. plate[b + lv].layout = w[lv + 1]
      BY <1>9, <3>1 DEF Stands
    <3>3. lv + 1 \in DOMAIN w
      BY <1>10, <3>1
    <3> QED
      BY <1>10, <1>11, <1>12, <3>2, <3>3
  <2> QED
    BY <1>10, <2>1
<1>14. Tidy(ret, w, lv, extra) /\ Has(ret, w, lv)
  BY <1>1, <1>7, <1>8 DEF OnLevel, Hands
<1> QED
  BY <1>1, <1>4, <1>13, <1>14

LEMMA OrderStep ==
  ASSUME PagesInv, PageShape, PageTexts, LevelsInOrder, [PlatesNext]_platesVars
  PROVE  LevelsInOrder'
<1>1. CASE UNCHANGED platesVars
  BY <1>1 DEF platesVars, LevelsInOrder
<1>2. CASE PlatesNext /\ ~ViewEnds
  <2>1. shown' = shown /\ extra \subseteq extra' /\ (odd' = {} => odd = {})
    BY <1>2, ShownStays, NextIs
  <2> QED
    BY <2>1 DEF LevelsInOrder
<1>3. CASE ViewEnds
  <2>1. Types
    BY DEF PagesInv
  <2>2. odd' = odd /\ extra' = extra /\ shown' = [want |-> Last(Below).want, text |-> ret]
    BY <1>3, <2>1, ViewEndsIs DEF ViewEnds
  <2>3. PICK w: w = Last(Below).want
    OBVIOUS
  <2>4. shown'.want = w /\ shown'.text = ret
    BY <2>2, <2>3
  <2> SUFFICES ASSUME odd = {}, Range(w) \subseteq Files \cup {Raw}
               PROVE  /\ \A i \in 1..Len(w): Occurs(w[i], ret)
                      /\ \A i, j \in 1..Len(w): i < j => First(w[j], ret) < First(w[i], ret)
                      /\ \A k \in 1..Len(ret): ret[k] \in extra \cup {Missing} \/ \E i \in 1..Len(w): w[i] = ret[k]
    BY <2>2, <2>4 DEF LevelsInOrder
  <2>5. ret \in Text /\ w \in Want /\ Tidy(ret, w, Len(w), extra) /\ Has(ret, w, Len(w))
    BY <1>3, <2>1, <2>3, PageOut
  <2> QED
    BY <2>5, InOrder
<1> QED
  BY <1>1, <1>2, <1>3

\* A page shows its levels, each around the one before it: the plates of
\* the levels keep their layouts (full_render and Plate::render), what a
\* template printed is in the buffers above its base, and the text that is
\* handed to a layout holds the levels inside it, in order.
THEOREM PagesInOrder == PlatesSpec => []LevelsInOrder
<1> DEFINE Inv == PagesInv /\ PageShape /\ PageTexts /\ LevelsInOrder
<1>1. PlatesInit => Inv
  <2> SUFFICES ASSUME PlatesInit PROVE Inv
    OBVIOUS
  <2>1. PagesInv
    BY PagesInitially
  <2>2. NoView(stack) /\ \A n \in Name: stored[n] = None
    BY DEF PlatesInit, NoView
  <2>3. PageShape
    BY <2>2 DEF PageShape
  <2>4. PageTexts
    BY <2>2 DEF PageTexts, NoView, OneView, ViewAt
  <2>5. LevelsInOrder
    BY DEF PlatesInit, LevelsInOrder
  <2> QED
    BY <2>1, <2>3, <2>4, <2>5
<1>2. Inv /\ PagesInv' /\ [PlatesNext]_platesVars => Inv'
  <2> SUFFICES ASSUME Inv, PagesInv', [PlatesNext]_platesVars PROVE Inv'
    OBVIOUS
  <2>1. Types /\ Types'
    BY DEF PagesInv
  <2>2. PageShape'
    BY <2>1, ShapeStep
  <2>3. PageTexts'
    BY TextsStep
  <2>4. LevelsInOrder'
    BY OrderStep
  <2> QED
    BY <2>2, <2>3, <2>4
<1>3. Inv => LevelsInOrder
  OBVIOUS
<1>4. PlatesSpec => []PagesInv
  BY PagesAlways
<1> HIDE DEF Inv
<1> QED
  BY <1>1, <1>2, <1>3, <1>4, PTL DEF PlatesSpec
-----------------------------------------------------------------------------
(* Module Rows.  The invariant adds to the types that an element in which  *)
(* data_ and original_ differ was assigned since the two were last the     *)
(* same: that is what makes a comparison of two arrays, which is all       *)
(* getDirty does, tell what the script changed.                            *)

\* What a row calls different was assigned by the script.
DifferencesWereGiven == \A r \in Row : Differs(r) \subseteq given[r]

IInv == TypeOK /\ BeliefIsTrue /\ DifferencesWereGiven

-----------------------------------------------------------------------------
(* The arrays. *)

\* An array without elements is one.
LEMMA EmptyIsContents == Empty \in Contents
  BY KeysAssumption DEF Empty, Contents, Fields

\* A row of the table is an array.
LEMMA FetchedIsContents ==
  ASSUME TypeOK, NEW k \in Ids, InTable(k)
  PROVE  Fetched(k) \in Contents
<1>1. table[k] \in [Cols -> Vals \cup {NULL}]
  BY DEF TypeOK, InTable
<1>2. \A c \in Cols : Fetched(k)[c] = table[k][c]
  BY KeysAssumption DEF Fetched, Fields
<1>3. Fetched(k)[Key] = k
  BY DEF Fetched, Fields
<1>4. \A f \in Fields : Fetched(k)[f] \in Vals \cup Ids \cup {NULL, Absent}
  BY <1>1, <1>2, <1>3 DEF Fields
<1>5. Fetched(k) \in [Fields -> Vals \cup Ids \cup {NULL, Absent}]
  BY <1>4 DEF Fetched
<1> QED
  BY <1>1, <1>2, <1>3, <1>5 DEF Contents

\* An assignment that fits its element, or a removal, leaves an array.
LEMMA AssignedIsContents ==
  ASSUME NEW d \in Contents, NEW f \in Fields, NEW x,
         \/ f \in Cols /\ x \in Vals \cup {NULL, Absent}
         \/ f = Key /\ x \in Ids \cup {NULL, Absent}
  PROVE  [d EXCEPT ![f] = x] \in Contents
  BY KeysAssumption DEF Contents, Fields

\* What holds of a row's data.
LEMMA ElementTypes ==
  ASSUME NEW d \in Contents
  PROVE  /\ d[Key] \in Ids \cup {NULL, Absent}
         /\ \A c \in Cols : d[c] \in Vals \cup {NULL, Absent}
  BY DEF Contents

-----------------------------------------------------------------------------
(* The types. *)

LEMMA InitTypeOK == Init => TypeOK
<1> SUFFICES ASSUME Init PROVE TypeOK
  OBVIOUS
<1>1. table \in [Ids -> [Cols -> Vals \cup {NULL}] \cup {Gone}]
  BY DEF Init
<1>2. row \in [Row -> [data : Contents, orig : Contents, reload : BOOLEAN]]
  BY EmptyIsContents, InputsAssumption DEF Init
<1>3. given \in [Row -> SUBSET Fields]
  BY DEF Init, Present
<1>4. doubt \in [Row -> BOOLEAN]
  BY DEF Init
<1> QED
  BY <1>1, <1>2, <1>3, <1>4 DEF TypeOK

\* Rows of the table that are written are rows of the table.
LEMMA WrittenType ==
  ASSUME TypeOK, NEW r \in Row, NEW k \in Ids, InTable(k), NEW cs \in Dirty(r)
  PROVE  /\ Written(r, k, cs) \in [Ids -> [Cols -> Vals \cup {NULL}] \cup {Gone}]
         /\ Written(r, k, cs)[k] \in [Cols -> Vals \cup {NULL}]
<1>1. row[r].data \in Contents
  BY DEF TypeOK
<1>2. table[k] \in [Cols -> Vals \cup {NULL}]
  BY DEF TypeOK, InTable
<1>3. ASSUME NEW c \in Cols, c \in cs
      PROVE  row[r].data[c] \in Vals \cup {NULL}
  <2>1. row[r].data[c] \in Vals \cup {NULL, Absent}
    BY <1>1, ElementTypes
  <2>2. row[r].data[c] # Absent \/ row[r].data[c] = NULL
    BY <1>3 DEF Dirty, Differs, Present
  <2> QED
    BY <2>1, <2>2
<1>4. [c \in Cols |-> IF c \in cs THEN row[r].data[c] ELSE table[k][c]]
        \in [Cols -> Vals \cup {NULL}]
  BY <1>2, <1>3
<1>5. Written(r, k, cs)
        = [table EXCEPT ![k] =
             [c \in Cols |-> IF c \in cs THEN row[r].data[c] ELSE table[k][c]]]
  BY DEF Written
<1>6. table \in [Ids -> [Cols -> Vals \cup {NULL}] \cup {Gone}]
  BY DEF TypeOK
<1> QED
  BY <1>4, <1>5, <1>6

\* What a new row inserts is a row of the table.
LEMMA InsertedType ==
  ASSUME NEW d \in Contents
  PROVE  [c \in Cols |-> IF d[c] = Absent THEN NULL ELSE d[c]]
           \in [Cols -> Vals \cup {NULL}]
  BY ElementTypes

\* Every step keeps the types.
LEMMA NextTypeOK == TypeOK /\ [Next]_vars => TypeOK'
<1> SUFFICES ASSUME TypeOK, [Next]_vars PROVE TypeOK'
  OBVIOUS
<1> DEFINE Rec == [data : Contents, orig : Contents, reload : BOOLEAN]
<1>t. table \in [Ids -> [Cols -> Vals \cup {NULL}] \cup {Gone}]
  BY DEF TypeOK
<1>r. row \in [Row -> Rec]
  BY DEF TypeOK
<1>g. given \in [Row -> SUBSET Fields]
  BY DEF TypeOK
<1>d. doubt \in [Row -> BOOLEAN]
  BY DEF TypeOK
<1>1. ASSUME NEW r \in Row, NEW x \in Inputs, NewRow(r, x)
      PROVE  TypeOK'
  <2>1. x \in Contents
    BY InputsAssumption
  <2>2. row' \in [Row -> Rec]
    BY <1>1, <1>r, <2>1, EmptyIsContents DEF NewRow
  <2>3. given' \in [Row -> SUBSET Fields]
    BY <1>1, <1>g DEF NewRow, Present
  <2> QED
    BY <1>1, <1>t, <1>d, <2>2, <2>3 DEF NewRow, TypeOK
<1>2. ASSUME NEW r \in Row, NEW x \in Inputs, NEW saved \in BOOLEAN,
             SetData(r, x, saved)
      PROVE  TypeOK'
  <2>1. x \in Contents
    BY InputsAssumption
  <2>2. row' \in [Row -> Rec]
    BY <1>2, <1>r, <2>1 DEF SetData
  <2>3. given' \in [Row -> SUBSET Fields]
    <3>1. Present(x) \subseteq Fields
      BY DEF Present
    <3> QED
      BY <1>2, <1>g, <3>1 DEF SetData
  <2>4. doubt' \in [Row -> BOOLEAN]
    BY <1>2, <1>d DEF SetData
  <2> QED
    BY <1>2, <1>t, <2>2, <2>3, <2>4 DEF SetData, TypeOK
<1>3. ASSUME NEW r \in Row, NEW p \in Assigned, Set(r, p[1], p[2])
      PROVE  TypeOK'
  <2>1. p[1] \in Fields
    BY InputsAssumption DEF Fields
  <2>2. \/ p[1] \in Cols /\ p[2] \in Vals \cup {NULL, Absent}
        \/ p[1] = Key /\ p[2] \in Ids \cup {NULL, Absent}
    BY InputsAssumption
  <2>3. [row[r].data EXCEPT ![p[1]] = p[2]] \in Contents
    BY <1>r, <2>1, <2>2, AssignedIsContents
  <2>4. row' \in [Row -> Rec]
    BY <1>3, <1>r, <2>3 DEF Set
  <2>5. given' \in [Row -> SUBSET Fields]
    BY <1>3, <1>g, <2>1 DEF Set
  <2> QED
    BY <1>3, <1>t, <1>d, <2>4, <2>5 DEF Set, TypeOK
<1>4. ASSUME NEW r \in Row, NEW f \in Removed, Unset(r, f)
      PROVE  TypeOK'
  <2>1. f \in Fields
    BY InputsAssumption
  <2>2. [row[r].data EXCEPT ![f] = Absent] \in Contents
    BY <1>r, <2>1, AssignedIsContents DEF Fields
  <2>3. row' \in [Row -> Rec]
    BY <1>4, <1>r, <2>2 DEF Unset
  <2> QED
    BY <1>4, <1>t, <1>g, <1>d, <2>3 DEF Unset, TypeOK
<1>5. ASSUME NEW r \in Row, SetExists(r)
      PROVE  TypeOK'
  <2>1. row' \in [Row -> Rec]
    BY <1>5, <1>r DEF SetExists
  <2>2. given' \in [Row -> SUBSET Fields]
    BY <1>5, <1>g DEF SetExists
  <2>3. doubt' \in [Row -> BOOLEAN]
    BY <1>5, <1>d DEF SetExists
  <2> QED
    BY <1>5, <1>t, <2>1, <2>2, <2>3 DEF SetExists, TypeOK
<1>6. ASSUME NEW r \in Row, NEW k \in Ids, InTable(k), Holds(r, k)
      PROVE  TypeOK'
  <2>1. Fetched(k) \in Contents
    BY <1>6, FetchedIsContents
  <2>2. row' \in [Row -> Rec]
    BY <1>6, <1>r, <2>1 DEF Holds
  <2>3. given' \in [Row -> SUBSET Fields]
    BY <1>6, <1>g DEF Holds
  <2>4. doubt' \in [Row -> BOOLEAN]
    BY <1>6, <1>d DEF Holds
  <2> QED
    BY <1>6, <1>t, <2>2, <2>3, <2>4 DEF Holds, TypeOK
<1>7. ASSUME NEW r \in Row, NEW reload \in BOOLEAN, SaveOld(r, reload)
      PROVE  TypeOK'
  <2>1. PICK cs \in Dirty(r) : Update(r, cs)
    BY <1>7 DEF SaveOld
  <2>2. table' \in [Ids -> [Cols -> Vals \cup {NULL}] \cup {Gone}]
    <3>1. CASE InTable(row[r].data[Key])
      <4>1. row[r].data[Key] \in Ids
        BY <3>1 DEF InTable
      <4>2. table' = Written(r, row[r].data[Key], cs)
        BY <2>1, <3>1 DEF Update
      <4> QED
        BY <3>1, <4>1, <4>2, WrittenType
    <3>2. CASE ~InTable(row[r].data[Key])
      BY <2>1, <3>2, <1>t DEF Update
    <3> QED
      BY <3>1, <3>2
  <2>3. doubt' \in [Row -> BOOLEAN]
    BY <2>1, <1>d, Zenon DEF Update
  <2>4. row' \in [Row -> Rec]
    BY <1>7, <1>r DEF SaveOld
  <2>5. given' \in [Row -> SUBSET Fields]
    BY <1>7, <1>g DEF SaveOld
  <2> QED
    BY <2>2, <2>3, <2>4, <2>5 DEF TypeOK
<1>8. ASSUME NEW r \in Row, NEW reload \in BOOLEAN, SaveNew(r, reload)
      PROVE  TypeOK'
  <2>1. PICK k \in Ids :
          /\ table' = [table EXCEPT ![k] =
                         [c \in Cols |-> IF row[r].data[c] = Absent
                                         THEN NULL ELSE row[r].data[c]]]
          /\ row' = [row EXCEPT ![r] = [data |-> [@.data EXCEPT ![Key] = k],
                                        orig |-> [@.data EXCEPT ![Key] = k],
                                        reload |-> reload]]
          /\ doubt' = [q \in Row |-> q # r /\ (doubt[q] \/ q \in Believers(r, k))]
    BY <1>8 DEF SaveNew
  <2>2. table' \in [Ids -> [Cols -> Vals \cup {NULL}] \cup {Gone}]
    BY <2>1, <1>t, <1>r, InsertedType
  <2>3. [row[r].data EXCEPT ![Key] = k] \in Contents
    BY <1>r, AssignedIsContents DEF Fields
  <2>4. row' \in [Row -> Rec]
    BY <2>1, <2>3, <1>r
  <2>5. doubt' \in [Row -> BOOLEAN]
    BY <2>1, <1>d, Zenon
  <2>6. given' \in [Row -> SUBSET Fields]
    BY <1>8, <1>g DEF SaveNew
  <2> QED
    BY <2>2, <2>4, <2>5, <2>6 DEF TypeOK
<1>9. ASSUME NEW r \in Row, ReloadNothing(r)
      PROVE  TypeOK'
  <2>1. row' \in [Row -> Rec]
    BY <1>9, <1>r DEF ReloadNothing
  <2> QED
    BY <1>9, <1>t, <1>g, <1>d, <2>1 DEF ReloadNothing, TypeOK
<1>10. ASSUME NEW r \in Row, Delete(r)
       PROVE  TypeOK'
  <2>1. table' \in [Ids -> [Cols -> Vals \cup {NULL}] \cup {Gone}]
    BY <1>10, <1>t DEF Delete
  <2>2. doubt' \in [Row -> BOOLEAN]
    BY <1>10, <1>d, Zenon DEF Delete
  <2> QED
    BY <1>10, <1>r, <1>g, <2>1, <2>2 DEF Delete, TypeOK
<1>11. CASE UNCHANGED vars
  BY <1>11, <1>t, <1>r, <1>g, <1>d DEF vars, TypeOK
<1>12. ASSUME NEW r \in Row, Reload(r)
       PROVE  TypeOK'
  BY <1>12, <1>6 DEF Reload, InTable
<1>13. ASSUME NEW r \in Row, Script(r)
       PROVE  TypeOK'
  BY <1>13, <1>1, <1>2, <1>3, <1>4, <1>5, <1>6, <1>7, <1>8, <1>10
    DEF Script, Find
<1> QED
  BY <1>9, <1>11, <1>12, <1>13 DEF Next

\* Type correctness: in every behaviour the table, the rows and what is known of
\* them are of their types; no save ever writes a missing element.
THEOREM TypeCorrect == Spec => []TypeOK
<1>1. Init => TypeOK
  BY InitTypeOK
<1>2. TypeOK /\ [Next]_vars => TypeOK'
  BY NextTypeOK
<1> QED
  BY <1>1, <1>2, PTL DEF Spec
-----------------------------------------------------------------------------
(* What differs was assigned. *)

\* Of one row: every element in which it differs is among those given.
Assigns(r) == \A f \in Fields :
  row[r].data[f] # Absent /\ row[r].data[f] # row[r].orig[f] => f \in given[r]

LEMMA DifferencesAre == DifferencesWereGiven <=> \A r \in Row : Assigns(r)
  BY DEF DifferencesWereGiven, Differs, Present, Assigns

LEMMA InitDifferences == Init => DifferencesWereGiven
<1> SUFFICES ASSUME Init, NEW r \in Row PROVE Assigns(r)
  BY DifferencesAre
<1> QED
  BY DEF Init, Assigns, Present

\* The rows that a step does not touch stay as they are.
LEMMA AssignsStays ==
  ASSUME NEW q \in Row, Assigns(q), row'[q] = row[q], given'[q] = given[q]
  PROVE  Assigns(q)'
  BY DEF Assigns

\* A row whose two arrays are the same differs in nothing.
LEMMA AssignsSame ==
  ASSUME NEW q \in Row, row'[q].data = row'[q].orig
  PROVE  Assigns(q)'
  BY DEF Assigns

LEMMA NextDifferences ==
  TypeOK /\ DifferencesWereGiven /\ [Next]_vars => DifferencesWereGiven'
<1> SUFFICES ASSUME TypeOK, \A r \in Row : Assigns(r), [Next]_vars,
                    NEW q \in Row
             PROVE  Assigns(q)'
  BY DifferencesAre DEF DifferencesWereGiven, Differs, Present, Assigns
<1> DEFINE Rec == [data : Contents, orig : Contents, reload : BOOLEAN]
<1>r. row \in [Row -> Rec]
  BY DEF TypeOK
<1>g. given \in [Row -> SUBSET Fields]
  BY DEF TypeOK
<1>a. Assigns(q)
  OBVIOUS
<1>1. ASSUME NEW r \in Row, NEW x \in Inputs, NewRow(r, x)
      PROVE  Assigns(q)'
  <2>1. CASE q = r
    <3>1. row'[r].data = x /\ given'[r] = Present(x)
      BY <1>1, <1>r, <1>g DEF NewRow
    <3> QED
      BY <2>1, <3>1 DEF Assigns, Present
  <2>2. CASE q # r
    BY <1>1, <1>r, <1>g, <1>a, <2>2, AssignsStays DEF NewRow
  <2> QED
    BY <2>1, <2>2
<1>2. ASSUME NEW r \in Row, NEW x \in Inputs, NEW saved \in BOOLEAN,
             SetData(r, x, saved)
      PROVE  Assigns(q)'
  <2>1. CASE q = r /\ saved
    <3>1. row'[q].data = x /\ row'[q].orig = x
      BY <1>2, <1>r, <2>1 DEF SetData
    <3> QED
      BY <3>1, AssignsSame
  <2>2. CASE q = r /\ ~saved
    <3>1. row'[r].data = x /\ given'[r] = given[r] \cup Present(x)
      BY <1>2, <1>r, <1>g, <2>2 DEF SetData
    <3> QED
      BY <2>2, <3>1 DEF Assigns, Present
  <2>3. CASE q # r
    BY <1>2, <1>r, <1>g, <1>a, <2>3, AssignsStays DEF SetData
  <2> QED
    BY <2>1, <2>2, <2>3
<1>3. ASSUME NEW r \in Row, NEW f, NEW v, f \in Fields, Set(r, f, v)
      PROVE  Assigns(q)'
  <2>1. CASE q = r
    <3>1. /\ row'[r].data = [row[r].data EXCEPT ![f] = v]
          /\ row'[r].orig = row[r].orig
          /\ given'[r] = given[r] \cup {f}
      BY <1>3, <1>r, <1>g DEF Set
    <3>2. \A e \in Fields : e # f => row'[r].data[e] = row[r].data[e]
      BY <1>r, <3>1 DEF Contents
    <3> QED
      BY <1>a, <2>1, <3>1, <3>2 DEF Assigns
  <2>2. CASE q # r
    BY <1>3, <1>r, <1>g, <1>a, <2>2, AssignsStays DEF Set
  <2> QED
    BY <2>1, <2>2
<1>4. ASSUME NEW r \in Row, NEW f \in Removed, Unset(r, f)
      PROVE  Assigns(q)'
  <2>0. f \in Fields
    BY InputsAssumption
  <2>1. CASE q = r
    <3>1. /\ row'[r].data = [row[r].data EXCEPT ![f] = Absent]
          /\ row'[r].orig = row[r].orig
          /\ given' = given
      BY <1>4, <1>r, <1>g DEF Unset
    <3>2. \A e \in Fields : row'[r].data[e] \in {Absent, row[r].data[e]}
      BY <1>r, <3>1 DEF Contents
    <3> QED
      BY <1>a, <2>1, <3>1, <3>2 DEF Assigns
  <2>2. CASE q # r
    BY <1>4, <1>r, <1>a, <2>2, AssignsStays DEF Unset
  <2> QED
    BY <2>1, <2>2
<1>5. ASSUME NEW r \in Row, SetExists(r)
      PROVE  Assigns(q)'
  <2>1. CASE q = r
    <3>1. row'[q].data = row'[q].orig
      BY <1>5, <1>r, <2>1 DEF SetExists
    <3> QED
      BY <3>1, AssignsSame
  <2>2. CASE q # r
    BY <1>5, <1>r, <1>g, <1>a, <2>2, AssignsStays DEF SetExists
  <2> QED
    BY <2>1, <2>2
<1>6. ASSUME NEW r \in Row, NEW k, Holds(r, k)
      PROVE  Assigns(q)'
  <2>1. CASE q = r
    <3>1. row'[q].data = row'[q].orig
      BY <1>6, <1>r, <2>1 DEF Holds
    <3> QED
      BY <3>1, AssignsSame
  <2>2. CASE q # r
    BY <1>6, <1>r, <1>g, <1>a, <2>2, AssignsStays DEF Holds
  <2> QED
    BY <2>1, <2>2
<1>7. ASSUME NEW r \in Row, NEW reload \in BOOLEAN, SaveOld(r, reload)
      PROVE  Assigns(q)'
  <2>1. CASE q = r
    <3>1. row'[q].data = row'[q].orig
      BY <1>7, <1>r, <2>1 DEF SaveOld
    <3> QED
      BY <3>1, AssignsSame
  <2>2. CASE q # r
    BY <1>7, <1>r, <1>g, <1>a, <2>2, AssignsStays DEF SaveOld
  <2> QED
    BY <2>1, <2>2
<1>8. ASSUME NEW r \in Row, NEW reload \in BOOLEAN, SaveNew(r, reload)
      PROVE  Assigns(q)'
  <2>1. PICK k \in Ids :
          row' = [row EXCEPT ![r] = [data |-> [@.data EXCEPT ![Key] = k],
                                     orig |-> [@.data EXCEPT ![Key] = k],
                                     reload |-> reload]]
    BY <1>8 DEF SaveNew
  <2>2. CASE q = r
    <3>1. row'[q].data = row'[q].orig
      BY <2>1, <1>r, <2>2
    <3> QED
      BY <3>1, AssignsSame
  <2>3. CASE q # r
    BY <1>8, <2>1, <1>r, <1>g, <1>a, <2>3, AssignsStays DEF SaveNew
  <2> QED
    BY <2>2, <2>3
<1>9. ASSUME NEW r \in Row, ReloadNothing(r)
      PROVE  Assigns(q)'
  <2>1. /\ row'[q].data = row[q].data
        /\ row'[q].orig = row[q].orig
        /\ given' = given
    BY <1>9, <1>r DEF ReloadNothing
  <2> QED
    BY <1>a, <2>1 DEF Assigns
<1>10. ASSUME NEW r \in Row, Delete(r)
       PROVE  Assigns(q)'
  BY <1>10, <1>a, AssignsStays DEF Delete
<1>11. CASE UNCHANGED vars
  BY <1>11, <1>a, AssignsStays DEF vars
<1>12. ASSUME NEW r \in Row, Reload(r)
       PROVE  Assigns(q)'
  BY <1>12, <1>6 DEF Reload
<1>13. ASSUME NEW r \in Row, Script(r)
       PROVE  Assigns(q)'
  <2>1. \A p \in Assigned : p[1] \in Fields
    BY InputsAssumption DEF Fields
  <2> QED
    BY <1>13, <2>1, <1>1, <1>2, <1>3, <1>4, <1>5, <1>6, <1>7, <1>8, <1>10
      DEF Script, Find
<1> QED
  BY <1>9, <1>11, <1>12, <1>13 DEF Next

-----------------------------------------------------------------------------
(* What a row believes. *)

\* Of one row: what it believes is what the table holds.
Right(q) == Exists(q) /\ ~doubt[q] =>
  /\ InTable(row[q].orig[Key])
  /\ \A c \in Cols : row[q].orig[c] \in {Absent, table[row[q].orig[Key]][c]}

LEMMA BeliefIs == BeliefIsTrue <=> \A q \in Row : Right(q)
  BY DEF BeliefIsTrue, Right

LEMMA InitBelief == Init => BeliefIsTrue
  BY DEF Init, BeliefIsTrue, Exists

\* A row that knows no more than before, and whose row of the table is as it
\* was, is as right as it was.
LEMMA RightStays ==
  ASSUME NEW q \in Row, Right(q), row'[q].orig = row[q].orig,
         doubt[q] => doubt'[q],
         ~doubt'[q] => table'[row[q].orig[Key]] = table[row[q].orig[Key]]
  PROVE  Right(q)'
  BY DEF Right, Exists, InTable

LEMMA NextBelief == TypeOK /\ BeliefIsTrue /\ [Next]_vars => BeliefIsTrue'
<1> SUFFICES ASSUME TypeOK, \A r \in Row : Right(r), [Next]_vars, NEW q \in Row
             PROVE  Right(q)'
  BY BeliefIs DEF BeliefIsTrue, Right
<1> DEFINE Rec == [data : Contents, orig : Contents, reload : BOOLEAN]
<1>t. table \in [Ids -> [Cols -> Vals \cup {NULL}] \cup {Gone}]
  BY DEF TypeOK
<1>r. row \in [Row -> Rec]
  BY DEF TypeOK
<1>d. doubt \in [Row -> BOOLEAN]
  BY DEF TypeOK
<1>a. Right(q)
  OBVIOUS
<1>1. ASSUME NEW r \in Row, NEW x \in Inputs, NewRow(r, x)
      PROVE  Right(q)'
  <2>1. CASE q = r
    <3>1. row'[q].orig = Empty
      BY <1>1, <1>r, <2>1 DEF NewRow
    <3> QED
      BY <3>1 DEF Right, Exists, Empty
  <2>2. CASE q # r
    <3>1. row'[q].orig = row[q].orig /\ doubt'[q] = doubt[q] /\ table' = table
      BY <1>1, <1>r, <1>d, <2>2 DEF NewRow
    <3> QED
      BY <3>1, <1>a, RightStays
  <2> QED
    BY <2>1, <2>2
<1>2. ASSUME NEW r \in Row, NEW x \in Inputs, NEW saved \in BOOLEAN,
             SetData(r, x, saved)
      PROVE  Right(q)'
  <2>1. CASE q = r /\ saved
    <3>1. doubt'[q]
      BY <1>2, <1>d, <2>1 DEF SetData
    <3> QED
      BY <3>1 DEF Right
  <2>2. CASE ~(q = r /\ saved)
    <3>1. row'[q].orig = row[q].orig
      BY <1>2, <1>r, <2>2 DEF SetData
    <3>2. doubt'[q] = doubt[q] /\ table' = table
      BY <1>2, <1>d, <2>2 DEF SetData
    <3> QED
      BY <3>1, <3>2, <1>a, RightStays
  <2> QED
    BY <2>1, <2>2
<1>3. ASSUME NEW r \in Row, NEW f, NEW v, Set(r, f, v)
      PROVE  Right(q)'
  <2>1. row'[q].orig = row[q].orig /\ doubt' = doubt /\ table' = table
    BY <1>3, <1>r DEF Set
  <2> QED
    BY <2>1, <1>a, RightStays
<1>4. ASSUME NEW r \in Row, NEW f \in Removed, Unset(r, f)
      PROVE  Right(q)'
  <2>1. row'[q].orig = row[q].orig /\ doubt' = doubt /\ table' = table
    BY <1>4, <1>r DEF Unset
  <2> QED
    BY <2>1, <1>a, RightStays
<1>5. ASSUME NEW r \in Row, SetExists(r)
      PROVE  Right(q)'
  <2>1. CASE q = r /\ row[r].data # row[r].orig
    <3>1. doubt'[q]
      BY <1>5, <1>d, <2>1 DEF SetExists
    <3> QED
      BY <3>1 DEF Right
  <2>2. CASE ~(q = r /\ row[r].data # row[r].orig)
    <3>1. row'[q].orig = row[q].orig
      BY <1>5, <1>r, <2>2 DEF SetExists
    <3>2. (doubt[q] => doubt'[q]) /\ table' = table
      BY <1>5, <1>d DEF SetExists
    <3> QED
      BY <3>1, <3>2, <1>a, RightStays
  <2> QED
    BY <2>1, <2>2
<1>6. ASSUME NEW r \in Row, NEW k \in Ids, InTable(k), Holds(r, k)
      PROVE  Right(q)'
  <2>1. CASE q = r
    <3>1. row'[q].orig = Fetched(k) /\ table' = table
      BY <1>6, <1>r, <2>1 DEF Holds
    <3>2. row'[q].orig[Key] = k /\ \A c \in Cols : row'[q].orig[c] = table'[k][c]
      BY <3>1, KeysAssumption DEF Fetched, Fields
    <3>3. InTable(k)'
      BY <1>6, <3>1 DEF InTable
    <3> QED
      BY <3>2, <3>3 DEF Right
  <2>2. CASE q # r
    <3>1. row'[q].orig = row[q].orig /\ doubt'[q] = doubt[q] /\ table' = table
      BY <1>6, <1>r, <1>d, <2>2 DEF Holds
    <3> QED
      BY <3>1, <1>a, RightStays
  <2> QED
    BY <2>1, <2>2
<1>7. ASSUME NEW r \in Row, NEW reload \in BOOLEAN, SaveOld(r, reload)
      PROVE  Right(q)'
  <2> DEFINE k == row[r].data[Key]
  <2>1. PICK cs \in Dirty(r) : Update(r, cs)
    BY <1>7 DEF SaveOld
  <2>o. \A p \in Row : row'[p].orig = IF p = r THEN row[r].data ELSE row[p].orig
    BY <1>7, <1>r DEF SaveOld
  <2>b. \A p \in Row :
          doubt'[p] <=>
            \/ doubt[p]
            \/ p = r /\ k # row[r].orig[Key]
            \/ p \in Believers(r, k) /\ table' # table
    <3>1. doubt' = [p \in Row |->
                      \/ doubt[p]
                      \/ p = r /\ k # row[r].orig[Key]
                      \/ p \in Believers(r, k) /\ table' # table]
      BY <2>1, Zenon DEF Update
    <3> QED
      BY <3>1, Zenon
  <2>w. \A i \in Ids : i # k => table'[i] = table[i]
    BY <2>1, <1>t DEF Update, Written
  <2>2. CASE q # r
    <3>1. ASSUME ~doubt'[q]
          PROVE  table'[row[q].orig[Key]] = table[row[q].orig[Key]]
      <4>1. table' = table \/ row[q].orig[Key] # k
        BY <3>1, <2>b, <2>2, Zenon DEF Believers
      <4>2. CASE table' = table
        BY <4>2
      <4>3. CASE row[q].orig[Key] # k /\ row[q].orig[Key] \in Ids
        BY <4>3, <2>w
      <4>4. CASE row[q].orig[Key] # k /\ row[q].orig[Key] \notin Ids
        \* Neither table has an entry for what is no key.
        <5>1. CASE InTable(k)
          <6>1. k \in Ids
            BY <5>1 DEF InTable
          <6>2. table' = Written(r, k, cs)
            BY <5>1, <2>1 DEF Update
          <6> QED
            BY <6>1, <6>2, <4>4, <1>t DEF Written
        <5>2. CASE ~InTable(k)
          BY <5>2, <2>1 DEF Update
        <5> QED
          BY <5>1, <5>2
      <4> QED
        BY <4>1, <4>2, <4>3, <4>4
    <3>2. row'[q].orig = row[q].orig
      BY <2>o, <2>2
    <3>3. doubt[q] => doubt'[q]
      BY <2>b, Zenon
    <3> QED
      BY <3>1, <3>2, <3>3, <1>a, RightStays
  <2>3. CASE q = r
    <3> SUFFICES ASSUME ~doubt'[r]
                 PROVE  /\ row'[r].orig[Key] \in Ids
                        /\ table'[row'[r].orig[Key]] # Gone
                        /\ \A c \in Cols : row'[r].orig[c]
                                             \in {Absent, table'[row'[r].orig[Key]][c]}
      BY <2>3 DEF Right, InTable
    <3>1. ~doubt[r] /\ k = row[r].orig[Key]
      BY <2>b
    <3>2. Exists(r)
      BY <1>7 DEF SaveOld
    <3>3. /\ InTable(k)
          /\ \A c \in Cols : row[r].orig[c] \in {Absent, table[k][c]}
      BY <2>3, <1>a, <3>1, <3>2 DEF Right
    <3>4. row'[r].orig = row[r].data
      BY <2>o
    <3>5. k \in Ids /\ table[k] # Gone
      BY <3>3 DEF InTable
    <3>6. table' = Written(r, k, cs)
      BY <3>3, <2>1 DEF Update
    <3>7. table'[k] \in [Cols -> Vals \cup {NULL}]
      BY <3>3, <3>5, <3>6, WrittenType
    <3>8. table'[k] # Gone
      BY <3>7, ValuesAssumption
    <3>9. ASSUME NEW c \in Cols
          PROVE  row[r].data[c] \in {Absent, table'[k][c]}
      <4>1. table'[k][c] = IF c \in cs THEN row[r].data[c] ELSE table[k][c]
        BY <3>5, <3>6, <1>t DEF Written
      <4>2. CASE c \in cs
        BY <4>1, <4>2
      <4>3. CASE c \notin cs
        <5>1. c \notin Differs(r)
          BY <4>3 DEF Dirty
        <5>2. row[r].data[c] = Absent \/ row[r].data[c] = row[r].orig[c]
          BY <5>1 DEF Differs, Present, Fields
        <5> QED
          BY <5>2, <3>3, <4>1, <4>3
      <4> QED
        BY <4>2, <4>3
    <3> QED
      BY <3>4, <3>5, <3>8, <3>9
  <2> QED
    BY <2>2, <2>3
<1>8. ASSUME NEW r \in Row, NEW reload \in BOOLEAN, SaveNew(r, reload)
      PROVE  Right(q)'
  <2>1. PICK k \in Ids :
          /\ ~InTable(k)
          /\ table' = [table EXCEPT ![k] =
                         [c \in Cols |-> IF row[r].data[c] = Absent
                                         THEN NULL ELSE row[r].data[c]]]
          /\ row' = [row EXCEPT ![r] = [data |-> [@.data EXCEPT ![Key] = k],
                                        orig |-> [@.data EXCEPT ![Key] = k],
                                        reload |-> reload]]
          /\ doubt' = [p \in Row |-> p # r /\ (doubt[p] \/ p \in Believers(r, k))]
    BY <1>8 DEF SaveNew
  <2>b. \A p \in Row :
          doubt'[p] <=> p # r /\ (doubt[p] \/ p \in Believers(r, k))
    BY <2>1, Zenon
  <2>2. CASE q = r
    <3>1. row'[q].orig = [row[r].data EXCEPT ![Key] = k]
      BY <2>1, <2>2, <1>r
    <3>2. row[r].data \in Contents
      BY <1>r
    <3>3. /\ row'[q].orig[Key] = k
          /\ \A c \in Cols : row'[q].orig[c] = row[r].data[c]
      BY <3>1, <3>2, KeysAssumption DEF Contents, Fields
    <3>4. table'[k] = [c \in Cols |-> IF row[r].data[c] = Absent
                                      THEN NULL ELSE row[r].data[c]]
      BY <2>1, <1>t
    <3>5. table'[k] # Gone
      BY <3>2, <3>4, InsertedType, ValuesAssumption
    <3>6. \A c \in Cols : row'[q].orig[c] \in {Absent, table'[k][c]}
      BY <3>3, <3>4
    <3> QED
      BY <3>3, <3>5, <3>6 DEF Right, InTable
  <2>3. CASE q # r
    <3>1. row'[q].orig = row[q].orig
      BY <2>1, <2>3, <1>r
    <3>2. doubt[q] => doubt'[q]
      BY <2>b, <2>3
    <3>3. ASSUME ~doubt'[q]
          PROVE  table'[row[q].orig[Key]] = table[row[q].orig[Key]]
      <4>1. row[q].orig[Key] # k
        BY <3>3, <2>b, <2>3 DEF Believers
      <4> QED
        BY <4>1, <2>1, <1>t
    <3> QED
      BY <3>1, <3>2, <3>3, <1>a, RightStays
  <2> QED
    BY <2>2, <2>3
<1>9. ASSUME NEW r \in Row, ReloadNothing(r)
      PROVE  Right(q)'
  <2>1. row'[q].orig = row[q].orig /\ doubt' = doubt /\ table' = table
    BY <1>9, <1>r DEF ReloadNothing
  <2> QED
    BY <2>1, <1>a, RightStays
<1>10. ASSUME NEW r \in Row, Delete(r)
       PROVE  Right(q)'
  <2>1. table' = [table EXCEPT ![row[r].data[Key]] = Gone] /\ row' = row
    BY <1>10 DEF Delete
  <2>2. doubt'[q] <=> doubt[q] \/ row[q].orig[Key] = row[r].data[Key]
    BY <1>10, <1>d, Zenon DEF Delete
  <2>3. ~doubt'[q] => table'[row[q].orig[Key]] = table[row[q].orig[Key]]
    BY <2>1, <2>2, <1>t
  <2> QED
    BY <2>1, <2>2, <2>3, <1>a, RightStays
<1>11. CASE UNCHANGED vars
  BY <1>11, <1>a, RightStays DEF vars
<1>12. ASSUME NEW r \in Row, Reload(r)
       PROVE  Right(q)'
  BY <1>12, <1>6 DEF Reload, InTable
<1>13. ASSUME NEW r \in Row, Script(r)
       PROVE  Right(q)'
  BY <1>13, <1>1, <1>2, <1>3, <1>4, <1>5, <1>6, <1>7, <1>8, <1>10
    DEF Script, Find
<1> QED
  BY <1>9, <1>11, <1>12, <1>13 DEF Next

-----------------------------------------------------------------------------
(* The invariant, and what follows. *)

LEMMA InitIInv == Init => IInv
  BY InitTypeOK, InitBelief, InitDifferences DEF IInv

LEMMA NextIInv == IInv /\ [Next]_vars => IInv'
  BY NextTypeOK, NextBelief, NextDifferences DEF IInv

LEMMA InvariantHolds == Spec => []IInv
  BY InitIInv, NextIInv, PTL DEF Spec

\* For any requests, a row believes of the table what it holds, unless its row of
\* the table was written or deleted by another request, was deleted or had its
\* key changed through the row itself, or was declared saved by a script.
THEOREM BeliefIsTrueAlways == Spec => []BeliefIsTrue
<1>1. IInv => BeliefIsTrue
  BY DEF IInv
<1> QED
  BY <1>1, InvariantHolds, PTL

\* The body of OnlyWhatWasGiven.
Guarded == \A k \in Ids, c \in Cols :
  InTable(k) /\ table'[k] # Gone /\ table'[k][c] # table[k][c]
    => \E r \in Row :
         /\ Exists(r) /\ row'[r].orig = row[r].data
         /\ c \in given[r]
         /\ row[r].data[Key] = k
         /\ row[r].orig[Key] = k \/ Key \in given[r]

\* A step that leaves the table alone, or takes a row out or puts one in where
\* there was none, changes no column.
LEMMA StepsThatChangeNoColumn ==
  ASSUME TypeOK,
         \/ table' = table
         \/ \E k \in Ids : table' = [table EXCEPT ![k] = Gone]
         \/ \E k \in Ids : \E x : ~InTable(k) /\ table' = [table EXCEPT ![k] = x]
  PROVE  Guarded
  BY DEF Guarded, InTable, TypeOK

LEMMA StepIsGuarded == IInv /\ [Next]_vars => Guarded
<1> SUFFICES ASSUME IInv, [Next]_vars PROVE Guarded
  OBVIOUS
<1>i. TypeOK /\ DifferencesWereGiven
  BY DEF IInv
<1> DEFINE Rec == [data : Contents, orig : Contents, reload : BOOLEAN]
<1>t. table \in [Ids -> [Cols -> Vals \cup {NULL}] \cup {Gone}]
  BY <1>i DEF TypeOK
<1>r. row \in [Row -> Rec]
  BY <1>i DEF TypeOK
<1>1. ASSUME NEW r \in Row, NEW reload \in BOOLEAN, SaveOld(r, reload)
      PROVE  Guarded
  <2>1. PICK cs \in Dirty(r) : Update(r, cs)
    BY <1>1 DEF SaveOld
  <2>2. Exists(r) /\ row'[r].orig = row[r].data
    BY <1>1, <1>r DEF SaveOld
  \* What is sent was given: it differs, or is a null set over a null.
  <2>3. cs \subseteq given[r]
    BY <1>i DEF Dirty, DifferencesWereGiven
  <2>4. CASE ~InTable(row[r].data[Key])
    BY <1>i, <2>1, <2>4, StepsThatChangeNoColumn DEF Update
  <2>5. CASE InTable(row[r].data[Key])
    <3>1. table' = Written(r, row[r].data[Key], cs)
      BY <2>1, <2>5 DEF Update
    <3> SUFFICES ASSUME NEW k \in Ids, NEW c \in Cols,
                        table'[k][c] # table[k][c]
                 PROVE  /\ c \in given[r]
                        /\ row[r].data[Key] = k
                        /\ row[r].orig[Key] = k \/ Key \in given[r]
      BY <2>2 DEF Guarded
    <3>2. row[r].data[Key] = k
      BY <3>1, <1>t DEF Written
    <3>3. c \in cs
      BY <3>1, <3>2, <1>t DEF Written
    <3>4. row[r].orig[Key] = k \/ Key \in given[r]
      <4>1. k # Absent
        BY KeysAssumption
      <4>2. row[r].orig[Key] = k \/ Key \in Differs(r)
        BY <3>2, <4>1 DEF Differs, Present, Fields
      <4> QED
        BY <4>2, <1>i DEF DifferencesWereGiven
    <3> QED
      BY <2>3, <3>2, <3>3, <3>4
  <2> QED
    BY <2>4, <2>5
<1>2. ASSUME NEW r \in Row, NEW reload \in BOOLEAN, SaveNew(r, reload)
      PROVE  Guarded
  <2>1. \E k \in Ids : \E x : ~InTable(k) /\ table' = [table EXCEPT ![k] = x]
    BY <1>2 DEF SaveNew
  <2> QED
    BY <1>i, <2>1, StepsThatChangeNoColumn
<1>3. ASSUME NEW r \in Row, Delete(r)
      PROVE  Guarded
  <2>1. \E k \in Ids : table' = [table EXCEPT ![k] = Gone]
    BY <1>3 DEF Delete, InTable
  <2> QED
    BY <1>i, <2>1, StepsThatChangeNoColumn
<1>4. ASSUME table' = table
      PROVE  Guarded
  BY <1>i, <1>4, StepsThatChangeNoColumn
<1>5. ASSUME NEW r \in Row, Script(r)
      PROVE  Guarded
  <2>1. CASE \E reload \in BOOLEAN : SaveOld(r, reload) \/ SaveNew(r, reload)
    BY <2>1, <1>1, <1>2
  <2>2. CASE Delete(r)
    BY <2>2, <1>3
  <2>3. CASE table' = table
    BY <2>3, <1>4
  <2> QED
    BY <1>5, <2>1, <2>2, <2>3
      DEF Script, NewRow, SetData, Set, Unset, SetExists, Find, Holds
<1>6. ASSUME NEW r \in Row, Reload(r) \/ ReloadNothing(r)
      PROVE  Guarded
  BY <1>6, <1>4 DEF Reload, ReloadNothing, Holds
<1>7. CASE UNCHANGED vars
  BY <1>7, <1>4 DEF vars
<1> QED
  BY <1>5, <1>6, <1>7 DEF Next

\* For any requests, a save changes a column of the table only if its own script
\* assigned that column, and writes to another row than the one it was read
\* from only if its script assigned the key.
THEOREM OnlyGivenIsWritten == Spec => OnlyWhatWasGiven
<1>1. IInv /\ [Next]_vars => [Guarded]_vars
  BY StepIsGuarded
<1>2. [][Guarded]_vars <=> OnlyWhatWasGiven
  BY DEF Guarded, OnlyWhatWasGiven
<1> QED
  BY <1>1, <1>2, InvariantHolds, PTL DEF Spec
=============================================================================
