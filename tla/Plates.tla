------------------------------- MODULE Plates -------------------------------
(***************************************************************************)
(* A page made of templates: HtmlPlates (htmlplates.cpp) puts the levels   *)
(* of a page, from inner to outer, into plates of a PlateEngine            *)
(* (plate_engine.cpp), and Plate (plate.cpp) renders each and puts what it *)
(* gives into its layout.  A template is PHP: while it runs it calls its   *)
(* plate, the engine and the view again, and prints into the buffer on top *)
(* of PHP's output buffers.                                                *)
(*                                                                         *)
(* A text is the sequence of the templates that printed it.  The loader of *)
(* templates is the application's: it opens a buffer, runs the template    *)
(* and takes the buffer on top; when the template throws, it closes the    *)
(* buffers opened since.                                                   *)
(***************************************************************************)
EXTENDS Naturals, Sequences, SequencesExt

CONSTANTS
  Name,       \* names of templates
  Files,      \* those the finder finds
  View,       \* HtmlPlates objects
  ViewLists,  \* the "views" a render is asked for
  Section,    \* names of sections
  Content,    \* "content"
  None,       \* no name, no text, no plate
  Raw,        \* text handed over as "raw"
  Missing,    \* text printed for what is not there
  MaxCalls,   \* bound on the calls
  MaxPlates,  \* bound on the plates made
  MaxDepth    \* bound on the nested renders

ASSUME PlatesAssumption ==
  /\ Files \subseteq Name
  /\ ViewLists \subseteq Seq(Name)
  /\ Content \notin Section
  /\ Raw # Missing /\ {Raw, Missing} \cap Name = {}
  /\ None \notin Name \cup Section \cup {Content, Raw, Missing}
  /\ None \notin Seq(Name \cup {Raw, Missing}) /\ None \notin Nat
  /\ MaxCalls \in Nat /\ MaxPlates \in Nat /\ MaxDepth \in Nat

VARIABLES
  levels,   \* levels_ of each view
  plate,    \* the plates, in the order they were made
  stored,   \* stored_: the plate kept under a name
  ob,       \* PHP's output buffers, the innermost last
  stack,    \* the renders in progress, the innermost last
  ret,      \* the text that the innermost render has to hand on
  calls,    \* how many calls have been made
  mode,     \* "run"; "throw", an exception is on its way; "dead"
  odd,      \* ghost: what happened that the page may suffer from
  extra,    \* ghost: the templates that were inserted
  shown     \* ghost: the levels of the last view that was rendered, and the
            \* page that came out

platesVars == <<levels, plate, stored, ob, stack, ret, calls, mode, odd, extra, shown>>
history == <<extra, shown>>

Text  == Seq(Name \cup {Raw, Missing})
Maybe(S) == S \cup {None}

\* live: the template itself runs.  told: ghost, it printed its content.
\* open: ghost, the blocks it has open, with what was printed in each.
Running(p) == [kind |-> "plate", of |-> p, base |-> Len(ob), live |-> TRUE,
               told |-> FALSE, open |-> <<>>]
\* want: ghost, the levels that were asked for
Rendering(v, want) == [kind |-> "view", of |-> v, want |-> want]

Top   == Last(stack)
Below == Front(stack)
InPlate == stack # <<>> /\ Top.kind = "plate"
\* a template runs and may call
InTemplate == mode = "run" /\ ret = None /\ InPlate /\ Top.live
InScript   == mode = "run" /\ stack = <<>>
Me == plate[Top.of]

PlatesInit ==
  /\ levels = [v \in View |-> <<>>]
  /\ plate = <<>>
  /\ stored = [n \in Name |-> None]
  /\ ob = <<>> /\ stack = <<>> /\ ret = None /\ calls = 0
  /\ mode = "run"
  /\ odd = {} /\ extra = {} /\ shown = None
-----------------------------------------------------------------------------
(* What the calls of a template have in common.                            *)

\* One more call, by the template on top or by the script.
Counted == calls < MaxCalls /\ calls' = calls + 1
Calls   == InTemplate /\ Counted
Asks    == (InTemplate \/ InScript) /\ Counted
Again(f) == stack' = Append(Below, f)

\* The buffers after t was printed.
Echo(bufs, t) ==
  IF bufs = <<>> THEN bufs
  ELSE [bufs EXCEPT ![Len(bufs)] = @ \o t]

\* The frame of a template after t was printed in its innermost block.
Heard(f, t) ==
  IF f.open = <<>> THEN f
  ELSE [f EXCEPT !.open[Len(f.open)].text = @ \o t]

Prints(f, t) == ob' = Echo(ob, t) /\ Again(Heard(f, t))

Throw == mode' = "throw" /\ UNCHANGED <<plate, ob, stack, odd>>

Note(what) == odd' = odd \cup {what}

SetMe(p) == plate' = [plate EXCEPT ![Top.of] = p]
-----------------------------------------------------------------------------
(* Rendering: PlateEngine, Plate::render, full_render.                     *)

\* Plate::construct
NewPlate(n) ==
  [name |-> n, engine |-> TRUE, layout |-> None, content |-> None, raw |-> FALSE,
   text |-> [s \in Section |-> None], section |-> None, pushed |-> FALSE,
   style |-> 0]

\* full_render of plate p of ps, whose frame comes on top of frames: raw
\* text and a template without a file give their text at once.
Begin(ps, p, frames) ==
  LET f == Running(p) IN
  IF ps[p].raw
  THEN /\ stack' = Append(frames, [f EXCEPT !.live = FALSE])
       /\ ret' = <<Raw>> /\ UNCHANGED <<ob, mode>>
  ELSE IF ~ps[p].engine
  THEN mode' = "dead" /\ UNCHANGED <<ob, stack, ret>>
  ELSE IF ps[p].name \notin Files
  THEN /\ stack' = Append(frames, [f EXCEPT !.live = FALSE])
       /\ ret' = <<Missing>> /\ UNCHANGED <<ob, mode>>
  ELSE /\ stack' = Append(frames, f)
       /\ ob' = Append(ob, <<ps[p].name>>)
       /\ ret' = None /\ UNCHANGED mode

\* PlateEngine::render: the stored plate of the name, or a new one.
EngineRender(n) ==
  LET new == stored[n] = None
      ps  == IF new THEN Append(plate, NewPlate(n)) ELSE plate
  IN  /\ Len(ps) <= MaxPlates /\ Len(stack) < MaxDepth
      /\ plate' = ps
      /\ Begin(ps, IF new THEN Len(ps) ELSE stored[n], stack)

\* The template ends: the loader takes the buffer on top.
TemplateEnds ==
  /\ InTemplate
  /\ ret' = IF ob = <<>> THEN <<>> ELSE Last(ob)
  /\ ob' = IF ob = <<>> THEN ob ELSE Front(ob)
  /\ stack' = Append(Below, [Top EXCEPT !.live = FALSE])
  /\ odd' = odd \cup (IF Top.open # <<>> THEN {"untidy"} ELSE {})
                \cup (IF Me.content # None /\ ~Top.told THEN {"mute"} ELSE {})
  /\ UNCHANGED <<levels, plate, stored, mode, calls, history>>

Layout == IF Me.layout = None THEN None ELSE stored[Me.layout]

\* Plate::render, the rest: a layout that is stored gets the content and is
\* rendered; one that is not stored is passed over.
Wrap ==
  /\ mode = "run" /\ ret # None /\ InPlate
  /\ Me.layout # None /\ Me.engine /\ Layout # None
  /\ LET ps == [plate EXCEPT ![Layout].content = ret] IN
     plate' = ps /\ Begin(ps, Layout, Below)
  /\ UNCHANGED <<levels, stored, calls, odd, history>>

\* the plate was cleaned while it rendered: its engine is a null pointer
WrapWithoutEngine ==
  /\ mode = "run" /\ ret # None /\ InPlate
  /\ Me.layout # None /\ ~Me.engine
  /\ mode' = "dead"
  /\ UNCHANGED <<levels, plate, stored, ob, stack, ret, calls, odd, history>>

Wrapped == Me.layout = None \/ (Me.engine /\ Layout = None)

\* The text goes to the template that inserted it, which prints it.
Deliver ==
  /\ mode = "run" /\ ret # None /\ InPlate /\ Wrapped
  /\ Below # <<>> => Last(Below).kind = "plate"
  /\ IF Below = <<>> THEN stack' = Below /\ UNCHANGED ob
     ELSE /\ stack' = Append(Front(Below), Heard(Last(Below), ret))
          /\ ob' = Echo(ob, ret)
  /\ ret' = None
  /\ UNCHANGED <<levels, plate, stored, mode, calls, odd, history>>

-----------------------------------------------------------------------------
(* HtmlPlates::render and pushLevel.                                       *)

PushLevel(v, n) ==
  /\ Asks
  /\ Len(plate) + Len(levels[v]) < MaxPlates
  /\ levels' = [levels EXCEPT ![v] = Append(@, n)]
  /\ UNCHANGED <<plate, stored, ob, stack, ret, mode, odd, history>>

\* The views are added to levels_, before the engine is looked up.
Levels(v, list) == levels[v] \o list
Asking(v, list) ==
  /\ Asks
  /\ Len(plate) + Len(Levels(v, list)) <= MaxPlates /\ Len(stack) + 1 < MaxDepth
  /\ levels' = [levels EXCEPT ![v] = Levels(v, list)]

\* the container has no engine: the error is thrown on return
RenderWithoutEngine(v, list) ==
  /\ Asking(v, list)
  /\ mode' = IF InScript THEN "run" ELSE "throw"
  /\ UNCHANGED <<plate, stored, ob, stack, ret, odd, history>>

\* without a level there is no plate to render: a null pointer is used
RenderNothing(v, list) ==
  /\ Asking(v, list) /\ Levels(v, list) = <<>>
  /\ mode' = "dead"
  /\ UNCHANGED <<plate, stored, ob, stack, ret, odd, history>>

Plates(list, raw) ==
  [i \in 1 .. Len(list) |->
     [NewPlate(list[i]) EXCEPT
        !.layout = IF i < Len(list) THEN list[i + 1] ELSE None,
        !.raw = raw /\ i = 1]]

\* mutant: no level is stored
StoredNone(list) == stored

\* All but the first are stored, by name: the last of a name stays.
Stored(list) ==
  [n \in Name |->
     LET at == {i \in 2 .. Len(list) : list[i] = n}
     IN  IF at = {} THEN stored[n] ELSE Len(plate) + Max(at)]

Wanted(list, raw) == IF raw THEN [list EXCEPT ![1] = Raw] ELSE list

RenderView(v, list, raw) ==
  /\ Asking(v, list) /\ Levels(v, list) # <<>>
  /\ LET l  == Levels(v, list)
         ps == plate \o Plates(l, raw)
     IN  /\ plate' = ps
         /\ stored' = Stored(l)
         /\ Begin(ps, Len(plate) + 1, Append(stack, Rendering(v, Wanted(l, raw))))
         /\ odd' = odd
              \cup (IF IsInjective(l) THEN {} ELSE {"twice"})
              \cup (IF \E i \in 1 .. Len(stack) : stack[i].kind = "view"
                    THEN {"nested"} ELSE {})
  /\ UNCHANGED <<history>>

\* clearPlates: the stored plates lose their engine
Clean ==
  /\ plate' = [p \in DOMAIN plate |->
                 [plate[p] EXCEPT !.engine = @ /\ \A n \in Name : stored[n] # p]]
  /\ stored' = [n \in Name |-> None]

\* The outermost level has given the page.
ViewEnds ==
  /\ mode = "run" /\ ret # None /\ InPlate /\ Wrapped
  /\ Below # <<>> /\ Last(Below).kind = "view"
  /\ LET view == Last(Below)
         rest == Front(Below)
     IN  /\ shown' = [want |-> view.want, text |-> ret]
         /\ IF rest = <<>> THEN stack' = rest /\ UNCHANGED ob
            ELSE /\ stack' = Append(Front(rest), Heard(Last(rest), ret))
                 /\ ob' = Echo(ob, ret)
  /\ Clean /\ ret' = None
  /\ UNCHANGED <<levels, mode, calls, odd, extra>>
-----------------------------------------------------------------------------
(* What a template may call.                                               *)

\* PlateEngine::render by the script, Plate::insert by a template
Insert(n) ==
  /\ InScript /\ Counted
  /\ EngineRender(n)
  /\ extra' = extra \cup {n}
  /\ UNCHANGED <<levels, stored, odd, shown>>

\* n is a level of a view that is being rendered
IsLevel(n) ==
  \E i \in 1 .. Len(stack) : stack[i].kind = "view" /\ n \in Range(stack[i].want)

InsertInTemplate(n) ==
  /\ Calls /\ Me.engine
  /\ EngineRender(n)
  /\ extra' = extra \cup {n}
  /\ odd' = odd \cup (IF IsLevel(n) THEN {"level"} ELSE {})
  /\ UNCHANGED <<levels, stored, shown>>

InsertWithoutEngine ==
  /\ Calls /\ ~Me.engine
  /\ mode' = "dead"
  /\ UNCHANGED <<levels, plate, stored, ob, stack, ret, odd, history>>

\* text of its own, of which the model keeps what goes into a block
Say ==
  /\ Calls /\ Top.open # <<>>
  /\ Prints(Top, <<Me.name>>)
  /\ UNCHANGED <<levels, plate, stored, ret, mode, odd, history>>

GetContent ==
  /\ Calls
  /\ Prints([Top EXCEPT !.told = @ \/ Top.open = <<>>],
            IF Me.content = None THEN <<Missing>> ELSE Me.content)
  /\ UNCHANGED <<levels, plate, stored, ret, mode, odd, history>>

GetSection(s) ==
  /\ Calls /\ Me.text[s] # None
  /\ Prints(Top, Me.text[s])
  /\ UNCHANGED <<levels, plate, stored, ret, mode, odd, history>>

\* layout() of a template, or of a script's plate
SetLayout(n) ==
  /\ Calls
  /\ SetMe([Me EXCEPT !.layout = n]) /\ Note("layout")
  /\ UNCHANGED <<levels, stored, ob, stack, ret, mode, history>>

\* mutant: start and styleBegin forget the buffer
OpenNothing(kind) ==
  /\ ob' = ob
  /\ Again([Top EXCEPT !.open = Append(@, [kind |-> kind, text |-> <<>>])])

\* A block is opened by the template.
Open(kind) ==
  /\ ob' = Append(ob, <<>>)
  /\ Again([Top EXCEPT !.open = Append(@, [kind |-> kind, text |-> <<>>])])

\* start, and push, which marks the plate before it calls start
Start(s, push) ==
  /\ Calls
  /\ LET me == [Me EXCEPT !.pushed = @ \/ push] IN
     IF s = Content \/ Me.section # None
     THEN /\ SetMe(me) /\ mode' = "throw"
          /\ UNCHANGED <<ob, stack>>
     ELSE /\ SetMe([me EXCEPT !.section = s])
          /\ Open("section")
          /\ UNCHANGED mode
  /\ UNCHANGED <<levels, stored, ret, odd, history>>

\* Takes the buffer on top; the name of the section stays.
Close(kind) ==
  /\ ob' = IF ob = <<>> THEN ob ELSE Front(ob)
  /\ IF Top.open # <<>> /\ Last(Top.open).kind = kind
     THEN Again([Top EXCEPT !.open = Front(@)]) /\ UNCHANGED odd
     ELSE UNCHANGED stack /\ Note("untidy")

Stop ==
  /\ Calls /\ Me.section # None
  /\ LET new == IF ob = <<>> THEN <<>> ELSE Last(ob)
         prev == IF Me.pushed /\ Me.text[Me.section] # None
                 THEN Me.text[Me.section] ELSE <<>>
     IN  SetMe([Me EXCEPT !.text[Me.section] = prev \o new, !.pushed = FALSE])
  /\ Close("section")
  /\ UNCHANGED <<levels, stored, ret, mode, history>>

StopRefused ==
  /\ Calls /\ Me.section = None
  /\ Throw
  /\ UNCHANGED <<levels, stored, ret, history>>

StyleBegin ==
  /\ Calls
  /\ Open("style")
  /\ SetMe([Me EXCEPT !.style = Len(ob) + 1])
  /\ UNCHANGED <<levels, stored, ret, mode, odd, history>>

\* What was printed goes to the assets; without assets the error is thrown.
StyleEnd ==
  /\ Calls /\ Len(ob) = Me.style
  /\ Close("style")
  /\ mode' \in {"run", "throw"}
  /\ UNCHANGED <<levels, plate, stored, ret, history>>

StyleEndRefused ==
  /\ Calls /\ Len(ob) # Me.style
  /\ Throw
  /\ UNCHANGED <<levels, stored, ret, history>>
-----------------------------------------------------------------------------
(* Exceptions.                                                             *)

TemplateThrows ==
  /\ InTemplate
  /\ mode' = "throw"
  /\ UNCHANGED <<levels, plate, stored, ob, stack, ret, calls, odd, history>>

Catch ==
  /\ mode = "throw" /\ InPlate /\ Top.live
  /\ mode' = "run"
  /\ UNCHANGED <<levels, plate, stored, ob, stack, calls, ret, odd, history>>

\* The exception leaves a template, but not yet Plate::render, which gives
\* the layout an empty content and has it rendered: no template is called
\* while an exception is on its way.
Unwind ==
  /\ mode = "throw" /\ InPlate
  /\ ob' = IF Top.live /\ Len(ob) > Top.base THEN SubSeq(ob, 1, Top.base) ELSE ob
  /\ IF Me.layout = None \/ (Me.engine /\ Layout = None)
     THEN /\ stack' = Below
          /\ mode' = IF Below = <<>> THEN "run" ELSE "throw"
          /\ UNCHANGED plate
     ELSE IF ~Me.engine
     THEN mode' = "dead" /\ UNCHANGED <<stack, plate>>
     ELSE /\ plate' = [plate EXCEPT ![Layout].content = None]
          /\ stack' = Append(Below, [Running(Layout) EXCEPT !.live = FALSE])
          /\ UNCHANGED mode
  /\ UNCHANGED <<levels, stored, calls, ret, odd, history>>

UnwindView ==
  /\ mode = "throw" /\ stack # <<>> /\ Top.kind = "view"
  /\ Clean
  /\ stack' = Below
  /\ mode' = IF Below = <<>> THEN "run" ELSE "throw"
  /\ UNCHANGED <<levels, ob, ret, calls, odd, extra, shown>>
-----------------------------------------------------------------------------
Call ==
  \/ \E v \in View, n \in Name : PushLevel(v, n)
  \/ \E v \in View, l \in ViewLists :
       \/ RenderWithoutEngine(v, l) \/ RenderNothing(v, l)
       \/ \E raw \in BOOLEAN : RenderView(v, l, raw)
  \/ \E n \in Name : Insert(n) \/ InsertInTemplate(n) \/ SetLayout(n)
  \/ InsertWithoutEngine \/ Say \/ GetContent
  \/ \E s \in Section : GetSection(s)
  \/ \E s \in Section \cup {Content}, push \in BOOLEAN : Start(s, push)
  \/ Stop \/ StopRefused \/ StyleBegin \/ StyleEnd \/ StyleEndRefused

Return ==
  \/ TemplateEnds \/ Wrap \/ WrapWithoutEngine \/ Deliver \/ ViewEnds
  \/ TemplateThrows \/ Catch \/ Unwind \/ UnwindView

PlatesNext == Call \/ Return

PlatesSpec == PlatesInit /\ [][PlatesNext]_platesVars
-----------------------------------------------------------------------------
Plate ==
  [name : Name, engine : BOOLEAN, layout : Maybe(Name), content : Maybe(Text),
   raw : BOOLEAN, text : [Section -> Maybe(Text)], section : Maybe(Section),
   pushed : BOOLEAN, style : Nat]

Block == [kind : {"section", "style"}, text : Text]
PlateFrame ==
  [kind : {"plate"}, of : Nat, base : Nat, live : BOOLEAN, told : BOOLEAN,
   open : Seq(Block)]
ViewFrame == [kind : {"view"}, of : View, want : Seq(Name \cup {Raw})]
Frame == PlateFrame \cup ViewFrame

(* The types of the state; a render above a view's is one of a plate.      *)
PlatesTypeOK ==
  /\ levels \in [View -> Seq(Name)]
  /\ plate \in Seq(Plate)
  /\ stored \in [Name -> Maybe(DOMAIN plate)]
  /\ ob \in Seq(Text) /\ ret \in Maybe(Text)
  /\ stack \in Seq(Frame)
  /\ \A i \in DOMAIN stack :
       /\ stack[i].kind = "plate" => stack[i].of \in DOMAIN plate
       /\ stack[i].kind = "view" /\ i < Len(stack) => stack[i + 1].kind = "plate"
  /\ calls \in 0 .. MaxCalls
  /\ mode \in {"run", "throw", "dead"}
  /\ odd \subseteq {"twice", "nested", "layout", "mute", "untidy", "level"}
  /\ extra \subseteq Name
  /\ shown \in Maybe([want : Seq(Name \cup {Raw}), text : Text])

Occurs(x, t) == \E k \in 1 .. Len(t) : t[k] = x
First(x, t)  == CHOOSE k \in 1 .. Len(t) : t[k] = x /\ \A j \in 1 .. k - 1 : t[j] # x

(* A page shows the levels that were asked of its view, in this and in the *)
(* renders before it, each around the one before it, and no others, when   *)
(* each is asked for once, by a view that is not rendered inside another   *)
(* one, and the templates keep to it: layouts print their content, blocks  *)
(* are closed, layouts are not set anew, and no template inserts a level   *)
(* of the page: that would show the innermost level twice, and any other   *)
(* from the level's own plate, with its layout.                            *)
LevelsInOrder ==
  shown # None /\ odd = {} /\ Range(shown.want) \subseteq Files \cup {Raw} =>
    LET w == shown.want
        t == shown.text
    IN  /\ \A i \in 1 .. Len(w) : Occurs(w[i], t)
        /\ \A i, j \in 1 .. Len(w) : i < j => First(w[j], t) < First(w[i], t)
        /\ \A k \in 1 .. Len(t) :
             t[k] \in extra \cup {Missing} \/ \E i \in 1 .. Len(w) : w[i] = t[k]

(* A section holds what the template printed since it began the section,   *)
(* whatever it inserted meanwhile, as long as every template closes what   *)
(* it opened and stops no more than that.                                  *)
SectionIsOwn ==
  [][\A p \in DOMAIN plate : \A s \in Section :
       plate'[p].text[s] # plate[p].text[s] /\ "untidy" \notin odd' =>
         Top.of = p /\ plate'[p].text[s] = Last(Top.open).text]_platesVars
=============================================================================
