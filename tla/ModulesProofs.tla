--------------------------- MODULE ModulesProofs ---------------------------
(***************************************************************************)
(* For any names, entries and depth of the stack: dispatch runs with the   *)
(* module it asked for, what a loaded module requires is loaded, a module  *)
(* is made once, and the process ends for a cause.                         *)
(*                                                                         *)
(* None of these is inductive.  The calls nest, so the invariant says what *)
(* each call on the stack has found out so far and which call may stand on *)
(* which.  It has five parts, each proved from the ones before it:         *)
(*   Fit         the objects calls keep were made; which call calls which  *)
(*   Loading     what is loaded when a call goes on, and what the value    *)
(*               handed down to it says                                    *)
(*   Dispatched  once dispatch has set its module, it is loaded for good   *)
(*   Requiring   what a module requires is loaded, being loaded or listed  *)
(*   Single      the names a call leads to: a module that does not come    *)
(*               back to itself is not made while it waits                 *)
(* That no call overflows the stack needs a measure too: see SamePlace.    *)
(***************************************************************************)
EXTENDS Modules, SequenceTheorems, FiniteSetTheorems, TLAPS

Working  == {"base", "requires"}
Adding   == Working \cup {"add"}
Failures == {Null, Error}

(* An object of modules_, or one that was there before. *)
IsMade(o) == o \in Object /\ o.nth <= Len(made[o.name])

(***************************************************************************)
(* The first part of the invariant: what a call keeps of itself, and which *)
(* call may stand above which.                                             *)
(***************************************************************************)
FrameFits(f) ==
  /\ f.at = "added" => f.obj = Null \/ IsMade(f.obj)
  /\ f.at \in Adding => cfg[f.name] # NoEntry
  /\ f.at \in {"alias", "added"} => IsArray(f.name)
  /\ f.at \in Working => IsMade(f.obj) /\ f.obj.name = f.name
  /\ f.at = "alias" => cfg[f.name].base \in Name
  /\ f.at = "base" => cfg[f.name].base \in Name \ {Default}

Adjacent(f, g) ==
  /\ f.at \notin {"set", "add"}
  /\ f.at = "default" => g.name = Default /\ g.at \in Adding
  /\ f.at = "added" => g.name = f.name /\ g.at \in Adding
  /\ f.at \in {"alias", "base"} => g.name = cfg[f.name].base

Numbers   == \A n \in Name : current[n] = Len(made[n])
Objects   == /\ active = Null \/ IsMade(active)
             /\ ret \in Failures \/ IsMade(ret)
FramesFit == \A i \in 1 .. Len(calls) : FrameFits(calls[i])
Stacked   == \A i \in 1 .. Len(calls) - 1 : Adjacent(calls[i], calls[i + 1])
DefaultGiven == At("default") => ret \in Failures \/ ret.name = Default

Fit == TypeOK /\ Numbers /\ Objects /\ FramesFit /\ Stacked /\ DefaultGiven
-----------------------------------------------------------------------------
(* How a step changes the stack. *)
Popped       == Running /\ calls' = Below
Went(f)      == Running /\ calls' = Append(Below, f)
Nested(f, g) == Running /\ calls' = Below \o <<f, g>>

LEMMA LastAndFront ==
  ASSUME NEW S, NEW s \in Seq(S), s # <<>>
  PROVE  /\ Len(s) \in Nat \ {0} /\ s[Len(s)] \in S
         /\ SubSeq(s, 1, Len(s) - 1) \in Seq(S)
         /\ Len(SubSeq(s, 1, Len(s) - 1)) = Len(s) - 1
         /\ \A i \in 1 .. Len(s) - 1 : SubSeq(s, 1, Len(s) - 1)[i] = s[i]
<1>1. Len(s) \in Nat \ {0} /\ \A i \in 1 .. Len(s) : s[i] \in S
  BY EmptySeq, ElementOfSeq
<1>2. PICK k \in Nat : k = Len(s) - 1
  BY <1>1
<1>3. \A i \in 1 .. k : s[i] \in S
  BY <1>1, <1>2
<1>4. /\ SubSeq(s, 1, k) \in Seq(S)
      /\ Len(SubSeq(s, 1, k)) = (IF 1 <= k THEN k - 1 + 1 ELSE 0)
      /\ \A i \in 1 .. k - 1 + 1 : SubSeq(s, 1, k)[i] = s[1 + i - 1]
  BY <1>3, SubSeqProperties
<1>5. Len(SubSeq(s, 1, k)) = k
  BY <1>4
<1>6. \A i \in 1 .. k : SubSeq(s, 1, k)[i] = s[i]
  BY <1>4
<1> QED
  BY <1>1, <1>2, <1>4, <1>5, <1>6

LEMMA TwoMore ==
  ASSUME NEW S, NEW s \in Seq(S), NEW f \in S, NEW g \in S
  PROVE  LET t == s \o <<f, g>> IN
         /\ t \in Seq(S) /\ Len(t) = Len(s) + 2
         /\ \A i \in 1 .. Len(s) : t[i] = s[i]
         /\ t[Len(s) + 1] = f /\ t[Len(s) + 2] = g
OBVIOUS

LEMMA HeadAndTail ==
  ASSUME NEW S, NEW s \in Seq(S), s # <<>>
  PROVE  Range(s) = Range(Tail(s)) \cup {Head(s)}
<1>1. PICK k \in Nat \ {0} : k = Len(s)
  BY EmptySeq
<1>2. DOMAIN s = 1 .. k /\ DOMAIN Tail(s) = 1 .. k - 1 /\ Head(s) = s[1]
      /\ \A i \in 1 .. k - 1 : Tail(s)[i] = s[i + 1]
  BY <1>1
<1>3. ASSUME NEW i \in 1 .. k PROVE s[i] \in Range(Tail(s)) \cup {Head(s)}
  <2>1. CASE i = 1
    BY <1>2, <2>1
  <2>2. CASE i # 1
    <3>1. PICK j \in 1 .. k - 1 : j + 1 = i
      <4>1. i - 1 \in 1 .. k - 1 /\ (i - 1) + 1 = i
        BY <2>2
      <4> QED
        BY <4>1
    <3>2. Tail(s)[j] = s[i]
      BY <1>2, <3>1
    <3> QED
      BY <1>2, <3>1, <3>2 DEF Range
  <2> QED
    BY <2>1, <2>2
<1>4. \A j \in 1 .. k - 1 : j + 1 \in 1 .. k
  OBVIOUS
<1> QED
  BY <1>2, <1>3, <1>4 DEF Range

LEMMA TopFits ==
  ASSUME calls \in Seq(Frame), Running
  PROVE  /\ Len(calls) \in Nat \ {0} /\ Top \in Frame
         /\ Below \in Seq(Frame) /\ Len(Below) = Len(calls) - 1
         /\ \A i \in 1 .. Len(calls) - 1 : Below[i] = calls[i]
BY LastAndFront DEF Running, Top, Below

LEMMA PoppedStack ==
  ASSUME calls \in Seq(Frame), Popped
  PROVE  /\ calls' \in Seq(Frame) /\ Len(calls') = Len(calls) - 1
         /\ \A i \in 1 .. Len(calls') : calls'[i] = calls[i]
BY TopFits DEF Popped

LEMMA WentStack ==
  ASSUME calls \in Seq(Frame), NEW f \in Frame, Went(f)
  PROVE  /\ calls' \in Seq(Frame) /\ Len(calls') = Len(calls)
         /\ \A i \in 1 .. Len(calls) - 1 : calls'[i] = calls[i]
         /\ calls'[Len(calls)] = f
BY TopFits DEF Went

LEMMA NestedStack ==
  ASSUME calls \in Seq(Frame), NEW f \in Frame, NEW g \in Frame, Nested(f, g)
  PROVE  /\ calls' \in Seq(Frame) /\ Len(calls') = Len(calls) + 1
         /\ \A i \in 1 .. Len(calls) - 1 : calls'[i] = calls[i]
         /\ calls'[Len(calls)] = f /\ calls'[Len(calls) + 1] = g
<1>1. PICK b \in Seq(Frame) : /\ b = Below /\ Len(b) = Len(calls) - 1
                               /\ \A i \in 1 .. Len(calls) - 1 : b[i] = calls[i]
  BY TopFits DEF Nested
<1>2. calls' = b \o <<f, g>> /\ Len(calls) \in Nat \ {0}
  BY <1>1, TopFits DEF Nested
<1>3. /\ calls' \in Seq(Frame) /\ Len(calls') = Len(b) + 2
      /\ \A i \in 1 .. Len(b) : calls'[i] = b[i]
      /\ calls'[Len(b) + 1] = f /\ calls'[Len(b) + 2] = g
  BY <1>2, TwoMore
<1> QED
  BY <1>1, <1>2, <1>3

(* Objects are never unmade, and what the application says of its modules *)
(* stays.                                                                  *)
Grows == cfg' = cfg /\ \A n \in Name : Len(made'[n]) >= Len(made[n])

LEMMA FrameStaysFit ==
  ASSUME TypeOK, TypeOK', Grows
  PROVE  /\ \A f \in Frame : FrameFits(f) => FrameFits(f)'
         /\ \A f, g \in Frame : Adjacent(f, g) => Adjacent(f, g)'
         /\ \A o : IsMade(o) => IsMade(o)'
<1>1. \A o : IsMade(o) => IsMade(o)'
  BY DEF TypeOK, Grows, IsMade, Object
<1>2. \A f \in Frame : FrameFits(f) => FrameFits(f)'
  BY <1>1 DEF Grows, FrameFits, IsArray
<1>3. \A f, g \in Frame : Adjacent(f, g) => Adjacent(f, g)'
  BY DEF Grows, Adjacent
<1> QED
  BY <1>1, <1>2, <1>3

LEMMA PopKeepsFit ==
  ASSUME TypeOK, TypeOK', Grows, FramesFit, Stacked, Popped
  PROVE  FramesFit' /\ Stacked'
<1>1. /\ Len(calls') = Len(calls) - 1 /\ Len(calls) \in Nat
      /\ \A i \in 1 .. Len(calls') : calls'[i] = calls[i]
      /\ \A i \in 1 .. Len(calls) : calls[i] \in Frame
  BY PoppedStack DEF TypeOK
<1> QED
  BY <1>1, FrameStaysFit DEF FramesFit, Stacked

LEMMA WentKeepsFit ==
  ASSUME TypeOK, TypeOK', Grows, FramesFit, Stacked,
         NEW f \in Frame, Went(f), FrameFits(f)',
         f.name = Top.name, Top.at \in Adding => f.at \in Adding
  PROVE  FramesFit' /\ Stacked'
<1> USE DEF FramesFit, Stacked
<1>1. /\ Len(calls') = Len(calls) /\ Len(calls) \in Nat /\ calls'[Len(calls)] = f
      /\ \A i \in 1 .. Len(calls) - 1 : calls'[i] = calls[i]
      /\ \A i \in 1 .. Len(calls) : calls[i] \in Frame
  BY WentStack, SMTT(30) DEF TypeOK
<1>2. FramesFit'
  BY <1>1, FrameStaysFit
<1>3. \A i \in 1 .. Len(calls) - 1 : Adjacent(calls[i], calls'[i + 1])
  BY <1>1 DEF Adjacent, Top
<1> QED
  BY <1>1, <1>2, <1>3, FrameStaysFit

LEMMA NestKeepsFit ==
  ASSUME TypeOK, TypeOK', Grows, FramesFit, Stacked,
         NEW f \in Frame, NEW g \in Frame, Nested(f, g), FrameFits(f)', FrameFits(g)',
         f.name = Top.name, Top.at \in Adding => f.at \in Adding, Adjacent(f, g)'
  PROVE  FramesFit' /\ Stacked'
<1> USE DEF FramesFit, Stacked
<1>0. calls \in Seq(Frame) /\ Running
  BY DEF TypeOK, Nested
<1>1. /\ Len(calls') = Len(calls) + 1 /\ Len(calls) \in Nat \ {0}
      /\ calls'[Len(calls)] = f /\ calls'[Len(calls) + 1] = g
      /\ \A i \in 1 .. Len(calls) - 1 : calls'[i] = calls[i]
      /\ \A i \in 1 .. Len(calls) : calls[i] \in Frame
  BY <1>0, NestedStack, TopFits, ElementOfSeq
<1>2. FramesFit'
  BY <1>1, FrameStaysFit
<1>3. \A i \in 1 .. Len(calls) - 1 : Adjacent(calls[i], calls'[i + 1])
  BY <1>1, SMTT(30) DEF Adjacent, Top
<1> QED
  BY <1>1, <1>2, <1>3, FrameStaysFit
-----------------------------------------------------------------------------
LEMMA CallIsFrame ==
  ASSUME NEW n \in Name, NEW at \in {"set", "add"}
  PROVE  Call(n, at) \in Frame /\ Call(n, at).name = n /\ Call(n, at).at = at
BY EmptySeq DEF Call, Frame

LEMMA EntryIs ==
  ASSUME TypeOK, NEW n \in Name, cfg[n] # NoEntry
  PROVE  /\ cfg[n].kind \in {"dir", "array"}
         /\ cfg[n].makes \in {"module", "error", "nothing"}
         /\ cfg[n].base \in Name \cup {NoName}
         /\ cfg[n].requires \in Lists \cup {Unset}
         /\ cfg[n].makes # "module" => cfg[n].base = NoName /\ cfg[n].requires = Unset
         /\ cfg[n].kind = "array" => cfg[n].makes # "nothing"
BY DEF TypeOK, Entry

LEMMA ListIs ==
  ASSUME NEW r \in Lists \cup {Unset}
  PROVE  List(r) \in Seq(Name)
BY ModulesAssumption, EmptySeq DEF List

LEMMA ObjIsMade ==
  ASSUME TypeOK, Numbers, NEW n \in Name, current[n] # 0
  PROVE  Obj(n) \in Object /\ IsMade(Obj(n)) /\ Obj(n).name = n
BY DEF TypeOK, Numbers, Obj, Object, IsMade

LEMMA InSetOf ==
  ASSUME Fit, HaveDefault
  PROVE  Running /\ Top.name \in Name /\ Top.at \notin Adding /\ current[Default] # 0
<1>1. Running /\ Top \in Frame
  BY TopFits DEF HaveDefault, At, Fit, TypeOK
<1>2. CASE At("default") /\ ret \notin {Null, Error}
  <2>1. ret \in Object /\ ret.nth <= Len(made[Default]) /\ ret.nth \in Nat \ {0}
    BY <1>2 DEF Fit, Objects, DefaultGiven, Failures, IsMade, Object
  <2>2. current[Default] = Len(made[Default]) /\ current[Default] \in Nat
    BY ModulesAssumption DEF Fit, Numbers, TypeOK
  <2> QED
    BY <1>1, <1>2, <2>1, <2>2 DEF At, Frame, Adding, Working
<1> QED
  BY <1>1, <1>2 DEF HaveDefault, At, Adding, Working, Frame

(* AddDefaults changes what one object says. *)
LEMMA DefaultsAdded ==
  ASSUME TypeOK, NEW o, NEW from, IsMade(o), IsMade(from), AddDefaults(o, from)
  PROVE  /\ made' \in [Name -> Seq(Lists \cup {Unset})]
         /\ \A n \in Name : Len(made'[n]) = Len(made[n])
<1> DEFINE v == IF made[o.name][o.nth] = Unset THEN made[from.name][from.nth]
                                             ELSE made[o.name][o.nth]
           s == made[o.name]
<1>1. o.name \in Name /\ s \in Seq(Lists \cup {Unset}) /\ o.nth \in 1 .. Len(s)
  BY DEF IsMade, Object, TypeOK
<1>2. from.name \in Name /\ made[from.name] \in Seq(Lists \cup {Unset})
        /\ from.nth \in 1 .. Len(made[from.name])
  BY DEF IsMade, Object, TypeOK
<1>3. v \in Lists \cup {Unset}
  BY <1>1, <1>2, ElementOfSeq
<1>4. made' = [made EXCEPT ![o.name] = [s EXCEPT ![o.nth] = v]]
  BY DEF AddDefaults
<1>5. [s EXCEPT ![o.nth] = v] \in Seq(Lists \cup {Unset}) /\ Len([s EXCEPT ![o.nth] = v]) = Len(s)
  BY <1>1, <1>3, ExceptSeq
<1> QED
  BY <1>1, <1>4, <1>5 DEF TypeOK
-----------------------------------------------------------------------------
LEMMA ReturnKeepsFit ==
  ASSUME Fit, Popped, TypeOK', Grows, Numbers', active' = Null \/ IsMade(active)',
         NEW v, ret' = v, v \in Failures \/ IsMade(v)',
         Top.name = Default /\ Top.at \in Adding => v \in Failures \/ v.name = Default
  PROVE  Fit'
<1>1. FramesFit' /\ Stacked'
  BY PopKeepsFit DEF Fit
<1>2. Objects'
  BY DEF Objects
<1>3. DefaultGiven'
  <2> SUFFICES ASSUME At("default")' PROVE v \in Failures \/ v.name = Default
    BY DEF DefaultGiven
  <2>1. /\ Len(calls') = Len(calls) - 1 /\ Len(calls') \in Nat \ {0}
        /\ calls'[Len(calls')] = calls[Len(calls) - 1]
        /\ calls[Len(calls) - 1].at = "default" /\ Len(calls) \in Nat
    <3>1. Len(calls') \in Nat \ {0}
      BY EmptySeq DEF At, Running, TypeOK
    <3>2. /\ Len(calls') = Len(calls) - 1 /\ Len(calls) \in Nat
          /\ \A i \in 1 .. Len(calls') : calls'[i] = calls[i]
      BY PoppedStack DEF Fit, TypeOK
    <3>3. calls'[Len(calls')].at = "default"
      BY DEF At, Top
    <3> QED
      BY <3>1, <3>2, <3>3
  <2>2. Adjacent(calls[Len(calls) - 1], Top)
    BY <2>1 DEF Fit, Stacked, Top
  <2> QED
    BY <2>1, <2>2 DEF Adjacent
<1> QED
  BY <1>1, <1>2, <1>3 DEF Fit

LEMMA WentFits ==
  ASSUME Fit, TypeOK', Grows, Numbers', Objects', NEW f \in Frame, Went(f), FrameFits(f)',
         f.name = Top.name, f.at # "default", Top.at \in Adding => f.at \in Adding
  PROVE  Fit'
<1>1. FramesFit' /\ Stacked'
  BY WentKeepsFit DEF Fit
<1>2. calls' # <<>> => Top' = f
  BY WentStack DEF Top, Fit, TypeOK
<1>3. DefaultGiven'
  BY <1>2 DEF DefaultGiven, At, Running
<1> QED
  BY <1>1, <1>3 DEF Fit

LEMMA NestFits ==
  ASSUME Fit, TypeOK', Grows, Numbers', Objects', NEW f \in Frame, NEW n \in Name,
         NEW at \in {"set", "add"},
         \/ Nested(f, Call(n, at)) \/ calls' = <<>>,
         FrameFits(f)', f.name = Top.name, Top.at \in Adding => f.at \in Adding,
         at = "add" => cfg[n] # NoEntry, Adjacent(f, Call(n, at))
  PROVE  Fit'
<1>1. CASE calls' = <<>>
  <2>1. Len(calls') = 0
    BY <1>1, EmptySeq
  <2> QED
    BY <1>1, <2>1 DEF Fit, FramesFit, Stacked, DefaultGiven, At, Running
<1>2. CASE Nested(f, Call(n, at))
  <2>1. PICK g \in Frame : g = Call(n, at)
    BY CallIsFrame
  <2>2. g.name = n /\ g.at = at
    BY <2>1, CallIsFrame
  <2>3. Nested(f, g)
    BY <1>2, <2>1
  <2>4. FrameFits(g)'
    BY <2>2, <2>1 DEF FrameFits, Grows, Adding, Working
  <2>5. Adjacent(f, g)'
    BY <2>1, FrameStaysFit DEF Fit
  <2>6. FramesFit' /\ Stacked'
    BY <2>3, <2>4, <2>5, NestKeepsFit DEF Fit
  <2>7. Top' = g
    BY <2>3, NestedStack DEF Top, Fit, TypeOK
  <2>8. DefaultGiven'
    BY <2>2, <2>7 DEF DefaultGiven, At
  <2> QED
    BY <2>6, <2>8 DEF Fit
<1> QED
  BY <1>1, <1>2

LEMMA TopIs ==
  ASSUME Fit, Running
  PROVE  Top \in Frame /\ FrameFits(Top)
BY TopFits DEF Fit, TypeOK, FramesFit, Top

LEMMA Unmade ==
  ASSUME Fit, UNCHANGED <<cfg, made, current>>
  PROVE  /\ Grows /\ Numbers'
         /\ \A o : IsMade(o)' <=> IsMade(o)
         /\ \A f : FrameFits(f)' <=> FrameFits(f)
<1>1. Grows
  BY DEF Fit, TypeOK, Grows
<1>2. Numbers'
  BY DEF Fit, Numbers
<1>3. \A o : IsMade(o)' <=> IsMade(o)
  BY DEF IsMade
<1> QED
  BY <1>1, <1>2, <1>3 DEF FrameFits, IsArray

LEMMA NestIs ==
  ASSUME calls \in Seq(Frame), Running, NEW f \in Frame, NEW n \in Name,
         NEW at \in {"set", "add"}, Nest(f, Call(n, at))
  PROVE  /\ calls' \in Seq(Frame)
         /\ \/ Nested(f, Call(n, at)) /\ UNCHANGED <<ret, crashed>>
            \/ calls' = <<>> /\ UNCHANGED ret /\ crashed' = "stack"
<1>1. CASE Len(calls) < MaxDepth
  <2>1. PICK g \in Frame : g = Call(n, at)
    BY CallIsFrame
  <2>2. Nested(f, g) /\ UNCHANGED <<ret, crashed>>
    BY <1>1, <2>1 DEF Nest, Nested
  <2> QED
    BY <2>1, <2>2, NestedStack
<1>2. CASE ~(Len(calls) < MaxDepth)
  BY <1>2, EmptySeq DEF Nest, Crash
<1> QED
  BY <1>1, <1>2

LEMMA SetLoadedFits ==
  ASSUME Fit, SetLoaded
  PROVE  Fit'
<1> USE DEF SetLoaded
<1>1. Running /\ Popped /\ Top.at = "set" /\ Top \in Frame /\ Top.name \in Name
  BY TopIs DEF At, Popped, Return, Frame
<1>2. PICK v \in Object : v = Obj(Top.name) /\ IsMade(v)
  BY <1>1, ObjIsMade DEF Fit
<1>3. active' = v /\ ret' = v /\ calls' = Below
  BY <1>2 DEF Return
<1>4. TypeOK'
  BY <1>1, <1>2, <1>3, TopFits DEF Fit, TypeOK, Return
<1> QED
  BY <1>1, <1>2, <1>3, <1>4, Unmade, ReturnKeepsFit DEF Adding, Working

LEMMA SetDefaultFits ==
  ASSUME Fit, SetDefault
  PROVE  Fit'
<1> USE DEF SetDefault
<1>1. Running /\ Top.at = "set" /\ Top \in Frame /\ Top.name \in Name /\ FrameFits(Top)
  BY TopIs DEF At, Frame
<1>2. CASE cfg[Default] = NoEntry
  <2>1. Popped /\ ret' = Error /\ calls' = Below
    BY <1>1, <1>2 DEF Return, Popped
  <2>2. TypeOK'
    BY <1>1, <1>2, <2>1, TopFits DEF Fit, TypeOK, Return
  <2> QED
    BY <1>1, <2>1, <2>2, Unmade, ReturnKeepsFit DEF Fit, Objects, Adding, Working, Failures
<1>3. CASE cfg[Default] # NoEntry
  <2>1. PICK f \in Frame : f = [Top EXCEPT !.at = "default"]
    BY <1>1 DEF Frame
  <2>2. /\ f.at = "default" /\ f.name = Top.name
        /\ Nest(f, Call(Default, "add"))
    BY <1>1, <1>3, <2>1 DEF Frame
  <2>3. \/ Nested(f, Call(Default, "add")) /\ UNCHANGED <<ret, crashed>>
        \/ calls' = <<>> /\ UNCHANGED ret /\ crashed' = "stack"
    BY <1>1, <2>2, NestIs, ModulesAssumption DEF Fit, TypeOK
  <2>4. calls' \in Seq(Frame)
    BY <1>1, <2>2, NestIs, ModulesAssumption DEF Fit, TypeOK
  <2>5. TypeOK'
    BY <2>3, <2>4 DEF Fit, TypeOK
  <2>6. Adjacent(f, Call(Default, "add")) /\ FrameFits(f)'
    BY <2>2, ModulesAssumption, CallIsFrame DEF Adjacent, FrameFits, Adding, Working
  <2>7. Objects'
    BY <2>3, Unmade DEF Fit, Objects
  <2> QED
    BY <1>1, <1>3, <2>2, <2>3, <2>5, <2>6, <2>7, Unmade, NestFits, ModulesAssumption DEF Adding, Working
<1> QED
  BY <1>2, <1>3

LEMMA DefaultFailsFits ==
  ASSUME Fit, DefaultFails
  PROVE  Fit'
<1> USE DEF DefaultFails
<1>1. Running /\ Popped /\ Top.at = "default" /\ calls' = Below /\ ret' = ret
  BY DEF At, Popped, Return
<1>2. TypeOK'
  BY <1>1, TopFits DEF Fit, TypeOK, Return
<1>3. PICK v : v = ret
  OBVIOUS
<1> QED
  BY <1>1, <1>2, <1>3, Unmade, ReturnKeepsFit DEF Fit, Objects, Adding, Working, Failures

LEMMA SetDirFits ==
  ASSUME Fit, SetDir
  PROVE  Fit'
<1> USE DEF SetDir
<1>1. Running /\ Top.name \in Name /\ Top.at \notin Adding /\ cfg[Top.name] # NoEntry
  BY InSetOf DEF IsDir
<1>2. PICK f \in Frame : f = Call(Top.name, "add") /\ f.name = Top.name /\ f.at = "add"
  BY <1>1, CallIsFrame
<1>3. Went(f)
  BY <1>1, <1>2 DEF Went
<1>4. TypeOK'
  BY <1>3, WentStack DEF Fit, TypeOK
<1>5. FrameFits(f)'
  BY <1>1, <1>2 DEF FrameFits, Adding, Working
<1>6. Objects'
  BY Unmade DEF Fit, Objects
<1> QED
  BY <1>1, <1>2, <1>3, <1>4, <1>5, <1>6, Unmade, WentFits DEF Adding

LEMMA SetOtherFits ==
  ASSUME Fit, SetOther
  PROVE  Fit'
<1> USE DEF SetOther
<1>1. Running /\ Top.at \notin Adding /\ Popped /\ calls' = Below
  BY InSetOf DEF Popped, Return
<1>2. PICK v \in Object : v = Obj(Default) /\ IsMade(v)
  BY InSetOf, ObjIsMade, ModulesAssumption DEF Fit
<1>3. active' = v /\ ret' = v
  BY <1>2 DEF Return
<1>4. TypeOK'
  BY <1>1, <1>2, <1>3, TopFits DEF Fit, TypeOK, Return
<1> QED
  BY <1>1, <1>2, <1>3, <1>4, Unmade, ReturnKeepsFit

(* A module given as data is added with what its alias gave, o. *)
LEMMA AddWithFits ==
  ASSUME Fit, Running, Top.at \notin Adding, IsArray(Top.name),
         NEW o, o = Null \/ IsMade(o), AddWith(o),
         UNCHANGED <<cfg, made, current, active, again, asked>>
  PROVE  Fit'
<1>1. Top \in Frame /\ Top.name \in Name /\ cfg[Top.name] # NoEntry /\ o \in Object \cup {Null}
  BY TopIs DEF Frame, IsArray, IsMade
<1>2. PICK f \in Frame : f = [Top EXCEPT !.at = "added", !.obj = o]
  BY <1>1 DEF Frame
<1>3. /\ f.at = "added" /\ f.name = Top.name /\ f.obj = o
      /\ Nest(f, Call(Top.name, "add"))
  BY <1>1, <1>2 DEF Frame, AddWith
<1>4. \/ Nested(f, Call(Top.name, "add")) /\ UNCHANGED <<ret, crashed>>
      \/ calls' = <<>> /\ UNCHANGED ret /\ crashed' = "stack"
  BY <1>1, <1>3, NestIs DEF Fit, TypeOK
<1>5. calls' \in Seq(Frame)
  BY <1>1, <1>3, NestIs DEF Fit, TypeOK
<1>6. TypeOK'
  BY <1>4, <1>5 DEF Fit, TypeOK
<1>7. Adjacent(f, Call(Top.name, "add")) /\ FrameFits(f)
  BY <1>1, <1>3, CallIsFrame DEF Adjacent, FrameFits, Adding, Working
<1>8. Objects'
  BY <1>4, Unmade DEF Fit, Objects
<1> QED
  BY <1>1, <1>3, <1>4, <1>6, <1>7, <1>8, Unmade, NestFits

LEMMA SetArrayFits ==
  ASSUME Fit, SetArray
  PROVE  Fit'
<1> USE DEF SetArray
<1>1. /\ Running /\ Top.name \in Name /\ Top.at \notin Adding /\ IsArray(Top.name)
      /\ cfg[Top.name] # NoEntry /\ Top \in Frame
  BY InSetOf, TopIs DEF IsArray
<1>2. CASE cfg[Top.name].base = NoName
  <2>1. PICK o : o = Obj(Default) /\ IsMade(o)
    BY InSetOf, ObjIsMade, ModulesAssumption DEF Fit
  <2> QED
    BY <1>1, <1>2, <2>1, AddWithFits
<1>3. CASE cfg[Top.name].base # NoName
  <2>0. PICK b \in Name : b = cfg[Top.name].base
    BY <1>1, <1>3, EntryIs DEF Fit
  <2>1. PICK f \in Frame : f = [Top EXCEPT !.at = "alias"]
    BY <1>1 DEF Frame
  <2>2. f.at = "alias" /\ f.name = Top.name /\ Nest(f, Call(b, "set"))
    BY <1>1, <1>3, <2>0, <2>1 DEF Frame
  <2>3. \/ Nested(f, Call(b, "set")) /\ UNCHANGED <<ret, crashed>>
        \/ calls' = <<>> /\ UNCHANGED ret /\ crashed' = "stack"
    BY <1>1, <2>2, NestIs DEF Fit, TypeOK
  <2>4. calls' \in Seq(Frame)
    BY <1>1, <2>2, NestIs DEF Fit, TypeOK
  <2>5. TypeOK'
    BY <2>3, <2>4 DEF Fit, TypeOK
  <2>6. Adjacent(f, Call(b, "set")) /\ FrameFits(f)
    BY <1>1, <2>0, <2>2, CallIsFrame DEF Adjacent, FrameFits, Adding, Working
  <2>7. Objects'
    BY <2>3, Unmade DEF Fit, Objects
  <2> QED
    BY <1>1, <2>2, <2>3, <2>5, <2>6, <2>7, Unmade, NestFits
<1> QED
  BY <1>2, <1>3

LEMMA SetAliasedFits ==
  ASSUME Fit, SetAliased
  PROVE  Fit'
<1> USE DEF SetAliased
<1>1. Running /\ Top.at = "alias" /\ Top.at \notin Adding /\ IsArray(Top.name)
  BY TopIs DEF At, FrameFits, Adding, Working
<1>2. CASE ret = Error
  <2>1. Popped /\ ret' = Error /\ calls' = Below /\ crashed' = crashed /\ Below \in Seq(Frame)
    BY <1>1, <1>2, TopFits DEF Return, Popped, Fit, TypeOK
  <2>2. TypeOK'
    BY <2>1 DEF Fit, TypeOK
  <2> QED
    BY <1>1, <2>1, <2>2, Unmade, ReturnKeepsFit DEF Fit, Objects, Failures
<1>3. CASE ret # Error
  <2>1. PICK o : o = ret
    OBVIOUS
  <2> QED
    BY <1>1, <1>3, <2>1, AddWithFits DEF Fit, Objects, Failures
<1> QED
  BY <1>2, <1>3

LEMMA SetAddedFits ==
  ASSUME Fit, SetAdded
  PROVE  Fit'
<1> USE DEF SetAdded
<1>1. Running /\ Top.at = "added" /\ Top.at \notin Adding /\ FrameFits(Top)
  BY TopIs DEF At, Adding, Working
<1>2. PICK v : v = ret
  OBVIOUS
<1>3. CASE ret \in {Null, Error} /\ Return(ret) /\ UNCHANGED <<made, active>>
  <2>1. Popped /\ ret' = v /\ calls' = Below /\ crashed' = crashed /\ Below \in Seq(Frame)
    BY <1>1, <1>2, <1>3, TopFits DEF Return, Popped, Fit, TypeOK
  <2>2. TypeOK'
    BY <1>2, <1>3, <2>1 DEF Fit, TypeOK
  <2> QED
    BY <1>1, <1>2, <1>3, <2>1, <2>2, Unmade, ReturnKeepsFit DEF Fit, Objects, Failures
<1>4. CASE Crash("null") /\ UNCHANGED <<made, active>>
  <2>1. calls' = <<>> /\ ret' = ret /\ crashed' = "null"
    BY <1>4 DEF Crash
  <2>2. TypeOK' /\ Len(calls') = 0
    BY <1>4, <2>1, EmptySeq DEF Fit, TypeOK
  <2>3. Objects'
    BY <1>4, <2>1, Unmade DEF Fit, Objects
  <2> QED
    BY <1>4, <2>1, <2>2, <2>3, Unmade DEF Fit, FramesFit, Stacked, DefaultGiven, At, Running
<1>5. CASE /\ ret \notin {Null, Error} /\ Top.obj # Null
           /\ AddDefaults(ret, Top.obj) /\ active' = ret /\ Return(ret)
  <2>1. IsMade(v) /\ IsMade(Top.obj) /\ v \in Object
    BY <1>1, <1>2, <1>5 DEF Fit, Objects, Failures, FrameFits, IsMade
  <2>2. /\ made' \in [Name -> Seq(Lists \cup {Unset})]
        /\ \A n \in Name : Len(made'[n]) = Len(made[n])
    BY <1>2, <1>5, <2>1, DefaultsAdded DEF Fit
  <2>3. Popped /\ ret' = v /\ calls' = Below /\ active' = v /\ crashed' = crashed
        /\ Below \in Seq(Frame)
    BY <1>1, <1>2, <1>5, TopFits DEF Return, Popped, Fit, TypeOK
  <2>4. TypeOK'
    BY <1>5, <2>1, <2>2, <2>3 DEF Fit, TypeOK
  <2>5. Grows /\ Numbers'
    BY <2>2 DEF Fit, TypeOK, Grows, Numbers
  <2>6. IsMade(v)'
    BY <2>1, <2>2 DEF IsMade, Object
  <2> QED
    BY <1>1, <2>3, <2>4, <2>5, <2>6, ReturnKeepsFit
<1> QED
  BY <1>3, <1>4, <1>5

LEMMA AddFailsFits ==
  ASSUME Fit, AddFails
  PROVE  Fit'
<1> USE DEF AddFails
<1>1. Running /\ Popped /\ calls' = Below /\ crashed' = crashed /\ Below \in Seq(Frame)
  BY TopFits DEF At, Popped, Return, Fit, TypeOK
<1>2. PICK v \in Failures : ret' = v
  BY DEF Return, Fails, Failures
<1>3. TypeOK'
  BY <1>1, <1>2 DEF Fit, TypeOK, Failures
<1> QED
  BY <1>1, <1>2, <1>3, Unmade, ReturnKeepsFit DEF Fit, Objects

(* A new object: the next of its name, and the one in modules_. *)
LEMMA NewObject ==
  ASSUME Fit, AddMakes, NEW n, n = Top.name
  PROVE  /\ Running /\ n \in Name /\ cfg[n] # NoEntry /\ Top.at = "add"
         /\ cfg[n].makes = "module"
         /\ made' \in [Name -> Seq(Lists \cup {Unset})]
         /\ made' = [made EXCEPT ![n] = Append(made[n], cfg[n].requires)]
         /\ Len(made'[n]) = Len(made[n]) + 1
         /\ \A m \in Name : m # n => made'[m] = made[m]
         /\ current' = [current EXCEPT ![n] = Len(made[n]) + 1]
         /\ current' \in [Name -> Nat]
<1>1. Running /\ n \in Name /\ cfg[n] # NoEntry /\ Top.at = "add" /\ cfg[n].makes = "module"
  BY TopIs DEF AddMakes, At, FrameFits, Frame, Adding
<1>2. cfg[n].requires \in Lists \cup {Unset} /\ made[n] \in Seq(Lists \cup {Unset})
  BY <1>1, EntryIs DEF Fit, TypeOK
<1>3. made' = [made EXCEPT ![n] = Append(made[n], cfg[n].requires)]
  BY DEF AddMakes
<1>4. Append(made[n], cfg[n].requires) \in Seq(Lists \cup {Unset})
        /\ Len(Append(made[n], cfg[n].requires)) = Len(made[n]) + 1
  BY <1>2, AppendProperties
<1>5. current' = [current EXCEPT ![n] = Len(made[n]) + 1] /\ Len(made[n]) + 1 \in Nat
  BY <1>2, LenProperties DEF AddMakes, Put
<1> QED
  BY <1>1, <1>3, <1>4, <1>5 DEF Fit, TypeOK

LEMMA AddMakesFits ==
  ASSUME Fit, AddMakes
  PROVE  Fit'
<1>1. PICK n : n = Top.name
  OBVIOUS
<1>2. /\ Running /\ n \in Name /\ cfg[n] # NoEntry /\ Top.at = "add"
      /\ made' \in [Name -> Seq(Lists \cup {Unset})]
      /\ Len(made'[n]) = Len(made[n]) + 1
      /\ \A m \in Name : m # n => made'[m] = made[m]
      /\ current' = [current EXCEPT ![n] = Len(made[n]) + 1]
      /\ current' \in [Name -> Nat]
  BY <1>1, NewObject
<1>3. PICK e : e = cfg[n]
  OBVIOUS
<1>4. PICK k \in Nat : k = Len(made[n]) + 1
  BY <1>2 DEF Fit, TypeOK
<1>5. PICK o : o = [name |-> n, nth |-> k]
  OBVIOUS
<1>6. o \in Object /\ o.name = n /\ o.nth = Len(made'[n]) /\ o.nth = k
  BY <1>2, <1>4, <1>5 DEF Object, Fit, TypeOK
<1>7. /\ Grows /\ Numbers' /\ IsMade(o)' /\ \A x : IsMade(x) => IsMade(x)'
      /\ cfg' = cfg /\ active' = active /\ again' = again /\ asked' = asked
      /\ \A m \in Name : current'[m] <= Len(made'[m])
  <2>1. cfg' = cfg /\ active' = active /\ again' = again /\ asked' = asked
    BY DEF AddMakes
  <2>2. Grows
    <3>1. \A m \in Name : Len(made[m]) \in Nat
      BY DEF Fit, TypeOK
    <3>2. \A m \in Name : Len(made'[m]) >= Len(made[m])
      BY <1>2, <3>1
    <3> QED
      BY <2>1, <3>2 DEF Grows
  <2>3. Numbers' /\ \A m \in Name : current'[m] <= Len(made'[m])
    BY <1>2, <2>1 DEF Numbers, Fit, TypeOK
  <2>4. IsMade(o)'
    BY <1>2, <1>6 DEF IsMade, TypeOK
  <2>5. \A x : IsMade(x) => IsMade(x)'
    BY <1>2, <2>2 DEF IsMade, Grows, Object, Fit, TypeOK
  <2> QED
    BY <2>1, <2>2, <2>3, <2>4, <2>5
<1>8. Top \in Frame
  BY <1>2, TopIs
<1>9. CASE e.base \in {NoName, Default}
  <2>1. PICK r \in Seq(Name) : r = List(e.requires)
    BY <1>2, <1>3, EntryIs, ListIs DEF Fit
  <2>2. PICK f \in Frame : f = [[Top EXCEPT !.obj = o] EXCEPT !.at = "requires", !.rest = r]
    BY <1>6, <1>8, <2>1 DEF Frame
  <2>3. f.at = "requires" /\ f.name = n /\ f.obj = o
    BY <1>1, <1>8, <2>2 DEF Frame
  <2>4. Went(f) /\ UNCHANGED <<ret, crashed>>
    BY <1>1, <1>2, <1>3, <1>4, <1>5, <1>9, <2>1, <2>2 DEF AddMakes, Went
  <2>5. calls' \in Seq(Frame)
    BY <2>4, WentStack DEF Fit, TypeOK
  <2>6. TypeOK'
    BY <1>2, <1>7, <2>4, <2>5 DEF Fit, TypeOK
  <2>7. FrameFits(f)'
    BY <1>2, <1>6, <1>7, <2>3 DEF FrameFits, Adding, Working
  <2>8. Objects'
    BY <1>7, <2>4 DEF Fit, Objects
  <2> QED
    BY <1>1, <1>7, <2>3, <2>4, <2>6, <2>7, <2>8, WentFits DEF Adding, Working
<1>10. CASE e.base \notin {NoName, Default}
  <2>1. PICK b \in Name : b = e.base
    BY <1>2, <1>3, <1>10, EntryIs DEF Fit
  <2>2. PICK f \in Frame : f = [[Top EXCEPT !.obj = o] EXCEPT !.at = "base"]
    BY <1>6, <1>8 DEF Frame
  <2>3. f.at = "base" /\ f.name = n /\ f.obj = o
    BY <1>1, <1>8, <2>2 DEF Frame
  <2>4. Nest(f, Call(b, "set"))
    BY <1>1, <1>2, <1>3, <1>4, <1>5, <1>10, <2>1, <2>2 DEF AddMakes
  <2>5. \/ Nested(f, Call(b, "set")) /\ UNCHANGED <<ret, crashed>>
        \/ calls' = <<>> /\ UNCHANGED ret /\ crashed' = "stack"
    BY <1>2, <2>4, NestIs DEF Fit, TypeOK
  <2>6. calls' \in Seq(Frame)
    BY <1>2, <2>4, NestIs DEF Fit, TypeOK
  <2>7. TypeOK'
    BY <1>2, <1>7, <2>5, <2>6 DEF Fit, TypeOK
  <2>8. FrameFits(f)' /\ Adjacent(f, Call(b, "set"))
    BY <1>2, <1>3, <1>6, <1>7, <1>10, <2>1, <2>3, CallIsFrame DEF FrameFits, Adjacent, Adding, Working
  <2>9. Objects'
    BY <1>7, <2>5 DEF Fit, Objects
  <2> QED
    BY <1>1, <1>7, <2>3, <2>5, <2>7, <2>8, <2>9, NestFits DEF Adding, Working
<1> QED
  BY <1>9, <1>10

LEMMA BaseDoneFits ==
  ASSUME Fit, BaseDone
  PROVE  Fit'
<1> USE DEF BaseDone
<1>1. /\ Running /\ Top.at = "base" /\ Top \in Frame /\ FrameFits(Top)
      /\ IsMade(Top.obj) /\ Top.obj \in Object /\ Top.obj.name = Top.name
  BY TopIs DEF At, FrameFits, Working, IsMade
<1>2. PICK v \in Object : v = Top.obj
  BY <1>1
<1>3. CASE ret = Error /\ Return(Top.obj) /\ UNCHANGED made
  <2>1. Popped /\ ret' = v /\ calls' = Below /\ crashed' = crashed /\ Below \in Seq(Frame)
    BY <1>1, <1>2, <1>3, TopFits DEF Return, Popped, Fit, TypeOK
  <2>2. TypeOK'
    BY <1>3, <2>1 DEF Fit, TypeOK
  <2> QED
    BY <1>1, <1>2, <1>3, <2>1, <2>2, Unmade, ReturnKeepsFit DEF Fit, Objects
<1>4. CASE Crash("null") /\ UNCHANGED made
  <2>1. calls' = <<>> /\ ret' = ret /\ crashed' = "null"
    BY <1>4 DEF Crash
  <2>2. TypeOK' /\ Len(calls') = 0
    BY <1>4, <2>1, EmptySeq DEF Fit, TypeOK
  <2>3. Objects'
    BY <1>4, <2>1, Unmade DEF Fit, Objects
  <2> QED
    BY <1>4, <2>1, <2>2, <2>3, Unmade DEF Fit, FramesFit, Stacked, DefaultGiven, At, Running
<1>5. CASE /\ ret \notin {Null, Error}
           /\ AddDefaults(Top.obj, ret)
           /\ calls' = Append(Below, [Top EXCEPT !.at = "requires",
                                !.rest = List(made'[Top.name][Top.obj.nth])])
           /\ UNCHANGED <<ret, crashed>>
  <2>1. IsMade(ret)
    BY <1>5 DEF Fit, Objects, Failures
  <2>2. /\ made' \in [Name -> Seq(Lists \cup {Unset})]
        /\ \A n \in Name : Len(made'[n]) = Len(made[n])
    BY <1>1, <1>5, <2>1, DefaultsAdded DEF Fit
  <2>3. Grows /\ Numbers' /\ \A x : IsMade(x) => IsMade(x)'
    BY <2>2 DEF Fit, TypeOK, Grows, Numbers, IsMade, Object
  <2>4. PICK r \in Seq(Name) : r = List(made'[Top.name][Top.obj.nth])
    <3>0. Top.name \in Name /\ Top.obj.nth \in Nat \ {0} /\ Top.obj.nth <= Len(made[Top.name])
      BY <1>1 DEF IsMade, Object, Frame
    <3>1. made'[Top.name] \in Seq(Lists \cup {Unset}) /\ Top.obj.nth \in 1 .. Len(made'[Top.name])
      BY <2>2, <3>0
    <3>2. PICK u \in Lists \cup {Unset} : u = made'[Top.name][Top.obj.nth]
      BY <3>1, ElementOfSeq
    <3> QED
      BY <3>2, ListIs
  <2>5. PICK f \in Frame : f = [Top EXCEPT !.at = "requires", !.rest = r]
    BY <1>1, <2>4 DEF Frame
  <2>6. f.at = "requires" /\ f.name = Top.name /\ f.obj = v
    BY <1>1, <1>2, <2>5 DEF Frame
  <2>7. Went(f)
    BY <1>1, <1>5, <2>4, <2>5 DEF Went
  <2>8. calls' \in Seq(Frame)
    BY <2>7, WentStack DEF Fit, TypeOK
  <2>9. TypeOK'
    BY <1>5, <2>2, <2>8 DEF Fit, TypeOK
  <2>10. FrameFits(f)'
    BY <1>1, <1>2, <2>3, <2>6 DEF FrameFits, Adding, Working
  <2>11. Objects'
    BY <1>5, <2>3 DEF Fit, Objects
  <2> QED
    BY <1>1, <2>3, <2>6, <2>7, <2>9, <2>10, <2>11, WentFits DEF Adding, Working
<1> QED
  BY <1>3, <1>4, <1>5

LEMMA RequireFits ==
  ASSUME Fit, Require
  PROVE  Fit'
<1> USE DEF Require
<1>1. /\ Running /\ Top.at = "requires" /\ Top \in Frame /\ FrameFits(Top)
      /\ Top.rest \in Seq(Name) /\ Top.rest # <<>>
  BY TopIs DEF At, Frame
<1>2. PICK r \in Name : r = Head(Top.rest)
  BY <1>1, HeadTailProperties
<1>3. PICK f \in Frame : f = [Top EXCEPT !.rest = Onward(@)]
  BY <1>1, HeadTailProperties DEF Frame, Onward
<1>4. f.at = "requires" /\ f.name = Top.name /\ f.obj = Top.obj /\ Nest(f, Call(r, "set"))
  BY <1>1, <1>2, <1>3 DEF Frame
<1>5. \/ Nested(f, Call(r, "set")) /\ UNCHANGED <<ret, crashed>>
      \/ calls' = <<>> /\ UNCHANGED ret /\ crashed' = "stack"
  BY <1>1, <1>4, NestIs DEF Fit, TypeOK
<1>6. calls' \in Seq(Frame)
  BY <1>1, <1>4, NestIs DEF Fit, TypeOK
<1>7. TypeOK'
  BY <1>5, <1>6 DEF Fit, TypeOK
<1>8. FrameFits(f) /\ Adjacent(f, Call(r, "set"))
  BY <1>1, <1>4, CallIsFrame DEF FrameFits, Adjacent, Adding, Working
<1>9. Objects'
  BY <1>5, Unmade DEF Fit, Objects
<1> QED
  BY <1>1, <1>4, <1>5, <1>7, <1>8, <1>9, Unmade, NestFits DEF Adding, Working

LEMMA AddDoneFits ==
  ASSUME Fit, AddDone
  PROVE  Fit'
<1> USE DEF AddDone
<1>1. /\ Running /\ Top.at = "requires" /\ Top \in Frame
      /\ IsMade(Top.obj) /\ Top.obj.name = Top.name
  BY TopIs DEF At, FrameFits, Working
<1>2. PICK v \in Object : v = Top.obj
  BY <1>1 DEF IsMade
<1>3. Popped /\ ret' = v /\ calls' = Below /\ crashed' = crashed /\ Below \in Seq(Frame)
  BY <1>1, <1>2, TopFits DEF Return, Popped, Fit, TypeOK
<1>4. TypeOK'
  BY <1>3 DEF Fit, TypeOK
<1> QED
  BY <1>1, <1>2, <1>3, <1>4, Unmade, ReturnKeepsFit DEF Fit, Objects

(* A call from outside has the stack to itself. *)
LEMMA StartFits ==
  ASSUME Fit, NEW n \in Name, calls' = <<Call(n, "set")>>, ret' = Null,
         UNCHANGED <<cfg, made, current, active, crashed>>,
         again' \in Name \cup {NoName}, asked' \in Name \cup {NoName}
  PROVE  Fit'
<1>1. PICK f \in Frame : f = Call(n, "set") /\ f.at = "set"
  BY CallIsFrame
<1>2. calls' = <<f>>
  BY <1>1
<1>3. calls' \in Seq(Frame) /\ Len(calls') = 1 /\ calls'[1] = f
  BY <1>2
<1>4. TypeOK'
  BY <1>3 DEF Fit, TypeOK
<1>5. FrameFits(f)
  BY <1>1 DEF FrameFits, Adding, Working
<1>6. FramesFit' /\ Stacked' /\ DefaultGiven'
  BY <1>1, <1>3, <1>5, Unmade DEF FramesFit, Stacked, DefaultGiven, At, Top
<1>7. Objects'
  BY Unmade DEF Fit, Objects, Failures
<1> QED
  BY <1>4, <1>6, <1>7, Unmade DEF Fit

LEMMA NewRequestFits ==
  ASSUME Fit, NewRequest
  PROVE  Fit'
<1>1. made' \in [Name -> Seq(Lists \cup {Unset})] /\ \A n \in Name : Len(made'[n]) = 0
  BY EmptySeq DEF NewRequest
<1>2. TypeOK' /\ Numbers'
  BY <1>1, EmptySeq DEF NewRequest, Fit, TypeOK, Numbers
<1>3. Len(calls') = 0 /\ calls' = <<>>
  BY EmptySeq DEF NewRequest
<1> QED
  BY <1>2, <1>3 DEF NewRequest, Fit, Objects, FramesFit, Stacked, DefaultGiven, At, Running, Failures

LEMMA FitStep ==
  ASSUME Fit, [Next]_vars
  PROVE  Fit'
<1>1. CASE UNCHANGED vars
  BY <1>1 DEF vars, Fit, TypeOK, Numbers, Objects, FramesFit, Stacked, DefaultGiven,
     IsMade, FrameFits, Adjacent, IsArray, At, Running, Top
<1>2. ASSUME NEW n \in Name, SetModule(n) PROVE Fit'
  BY <1>2, StartFits DEF SetModule, Fit, TypeOK
<1>3. ASSUME NEW n \in Name, Dispatch(n) PROVE Fit'
  BY <1>3, StartFits DEF Dispatch, Twice
<1>4. CASE SetAgain
  <2>1. PICK n \in Name : n = again
    BY <1>4 DEF SetAgain, Fit, TypeOK
  <2> QED
    BY <1>4, <2>1, StartFits DEF SetAgain, Fit, TypeOK
<1> QED
  BY <1>1, <1>2, <1>3, <1>4, SetLoadedFits, SetDefaultFits, DefaultFailsFits, SetDirFits,
     SetOtherFits, SetArrayFits, SetAliasedFits, SetAddedFits, AddFailsFits, AddMakesFits,
     BaseDoneFits, RequireFits, AddDoneFits, NewRequestFits DEF Next, Step
-----------------------------------------------------------------------------
(***************************************************************************)
(* The second part of the invariant: what has been loaded by the time a    *)
(* call goes on, and what the value handed down to it says.                *)
(***************************************************************************)
NullOf(b) == b \in Name /\ cfg[b] # NoEntry /\ cfg[b].makes = "nothing"

(* The alias of an array module came before it. *)
BaseKnown(n) ==
  n # Default /\ IsArray(n) /\ cfg[n].base \in Name =>
    \/ current[cfg[n].base] # 0
    \/ cfg[cfg[n].base] = NoEntry
    \/ NullOf(cfg[n].base)

FrameLoads(f) ==
  /\ f.at \in {"alias", "added"} => current[Default] # 0
  /\ f.at = "added" => /\ f.obj = Null => NullOf(cfg[f.name].base)
                       /\ f.obj # Null => f.obj.name \in {cfg[f.name].base, Default}
                       /\ BaseKnown(f.name)
  /\ f.at = "add" => BaseKnown(f.name)
  /\ f.at \in Adding => f.name = Default \/ current[Default] # 0
  /\ f.at \in Working => f.obj = Obj(f.name)

FramesLoad == \A i \in 1 .. Len(calls) : FrameLoads(calls[i])

Loads ==
  \A n \in Name : current[n] # 0 =>
    /\ cfg[n] # NoEntry /\ cfg[n].makes = "module"
    /\ BaseKnown(n) /\ current[Default] # 0

(* Only the first call has still to load the default module. *)
Upper ==
  \A i \in 2 .. Len(calls) :
    /\ calls[i].at # "default"
    /\ calls[i].at \in {"alias", "added"} => calls[i].name # Default

(* No module is added above a call that adds it. *)
Distinct ==
  \A i, j \in 1 .. Len(calls) :
    i < j /\ calls[i].at \in Working /\ calls[j].at # "set"
      => calls[i].name # calls[j].name

(* What setModule(b) returned, and what addModule(n) did. *)
Given(b, v) ==
  /\ v = Error => current[b] = 0 /\ cfg[b] # NoEntry /\ cfg[b].makes # "nothing"
  /\ v = Null => NullOf(b)
  /\ v \notin Failures => v.name = b \/ (v.name = Default /\ cfg[b] = NoEntry)

Added(n, v) ==
  IF v \in Failures THEN cfg[n].makes # "module" /\ v = Fails(n) ELSE v = Obj(n)

Returned ==
  /\ At("default") => Added(Default, ret)
  /\ At("added") => Added(Top.name, ret)
  /\ At("alias") \/ At("base") => Given(cfg[Top.name].base, ret)

CrashEnds == crashed # "no" => calls = <<>>
NullCause == crashed = "null" => NullBase

Loading == /\ FramesLoad /\ Loads /\ Upper /\ Distinct
           /\ Returned /\ CrashEnds /\ NullCause

Keeps == cfg' = cfg /\ \A n \in Name : current[n] # 0 => current'[n] # 0

LEMMA BaseStaysKnown ==
  ASSUME Keeps, NEW n \in Name, BaseKnown(n)
  PROVE  BaseKnown(n)'
BY DEF Keeps, BaseKnown, IsArray, NullOf

LEMMA FrameKeepsLoads ==
  ASSUME Keeps, NEW f \in Frame, FrameLoads(f),
         f.at \in Working => current'[f.name] = current[f.name]
  PROVE  FrameLoads(f)'
<1>1. f.name \in Name
  BY DEF Frame
<1> QED
  BY <1>1, BaseStaysKnown, ModulesAssumption DEF FrameLoads, Keeps, NullOf, Obj, Adding, Working

LEMMA WorkingIsLoaded ==
  ASSUME Fit, NEW i \in 1 .. Len(calls), calls[i].at \in Working
  PROVE  calls[i].name \in Name /\ current[calls[i].name] # 0
<1>1. calls[i] \in Frame /\ FrameFits(calls[i])
  BY DEF Fit, TypeOK, FramesFit
<1> QED
  BY <1>1 DEF Fit, FrameFits, IsMade, Object, Numbers, TypeOK, Frame

(* Below a call there is a call that had the default module loaded, or is *)
(* loading it.                                                            *)
LEMMA BelowHasDefault ==
  ASSUME Fit, Loading, NEW i \in 2 .. Len(calls), calls[i].at \notin Adding
  PROVE  current[Default] # 0 /\ calls[i].at # "default"
<1>1. i - 1 \in 1 .. Len(calls) - 1 /\ i - 1 \in 1 .. Len(calls) /\ (i - 1) + 1 = i
  BY DEF Fit, TypeOK
<1>2. PICK k \in 1 .. Len(calls) : k = i - 1
  BY <1>1
<1>3. /\ Adjacent(calls[k], calls[i]) /\ calls[k] \in Frame /\ FrameLoads(calls[k])
  BY <1>1, <1>2 DEF Fit, Stacked, TypeOK, Loading, FramesLoad
<1>4. CASE calls[k].at \in Working
  BY <1>3, <1>4, WorkingIsLoaded DEF Adding, Working, FrameLoads, Loading, Loads, Upper
<1> QED
  BY <1>3, <1>4 DEF Adjacent, Frame, Adding, Working, FrameLoads, Loading, Upper

LEMMA AddedIsGiven ==
  ASSUME Fit, Loading, NEW n \in Name, cfg[n] # NoEntry, NEW v, Added(n, v)
  PROVE  Given(n, v)
<1>1. CASE v \in Failures
  <2>1. cfg[n].makes # "module" /\ v = Fails(n) /\ cfg[n].makes \in {"module", "error", "nothing"}
    BY <1>1, EntryIs DEF Added, Fit
  <2>2. current[n] = 0
    BY <2>1 DEF Loading, Loads
  <2> QED
    BY <1>1, <2>1, <2>2, ModulesAssumption DEF Given, Fails, NullOf, Failures
<1>2. CASE v \notin Failures
  BY <1>2 DEF Added, Given, Obj, Failures
<1> QED
  BY <1>1, <1>2

LEMMA PopKeepsLoading ==
  ASSUME Fit, Fit', Loading, Popped, UNCHANGED <<cfg, current, crashed>>,
         NEW v, ret' = v,
         Top.at \in Adding => Added(Top.name, v),
         Len(calls) # 1 /\ Top.at \notin Adding => Given(Top.name, v)
  PROVE  Loading'
<1>1. /\ Len(calls') = Len(calls) - 1 /\ Len(calls) \in Nat \ {0}
      /\ \A i \in 1 .. Len(calls') : calls'[i] = calls[i]
      /\ \A i \in 1 .. Len(calls) : calls[i] \in Frame
      /\ Top \in Frame /\ Running
  <2>1. calls \in Seq(Frame) /\ Running
    BY DEF Fit, TypeOK, Popped
  <2> QED
    BY <2>1, PoppedStack, TopFits, ElementOfSeq
<1>2. Keeps
  BY DEF Keeps
<1>3. FramesLoad'
  <2> SUFFICES ASSUME NEW i \in 1 .. Len(calls') PROVE FrameLoads(calls[i])'
    BY <1>1 DEF FramesLoad
  <2>1. PICK f \in Frame : f = calls[i] /\ FrameLoads(f)
    BY <1>1 DEF Loading, FramesLoad
  <2>2. FrameLoads(f)' /\ f = calls'[i]
    BY <1>1, <1>2, <2>1, FrameKeepsLoads
  <2> QED
    BY <2>2
<1>4. Loads' /\ NullCause'
  BY DEF Loading, Loads, BaseKnown, NullOf, IsArray, NullCause, NullBase
<1>5. Upper' /\ Distinct'
  BY <1>1 DEF Loading, Upper, Distinct
<1>6. CrashEnds'
  BY <1>1 DEF Loading, CrashEnds, Running
<1>7. Returned'
  <2> SUFFICES ASSUME Running' PROVE Returned'
    BY DEF Returned, At
  <2>1. Len(calls') \in Nat \ {0}
    BY EmptySeq DEF Running, Fit, TypeOK
  <2>2. PICK h \in Frame : h = calls[Len(calls) - 1]
    BY <1>1, <2>1
  <2>3. Top' = h /\ Adjacent(h, Top)
    BY <1>1, <2>1, <2>2 DEF Top, Fit, Stacked
  <2>4. PICK n \in Name : n = Top.name
    BY <1>1 DEF Frame
  <2>5. Len(calls) # 1
    BY <1>1, <2>1
  <2>6. ASSUME h.at \in {"alias", "base"} PROVE Given(n, v) /\ n = cfg[h.name].base
    <3>1. CASE Top.at \in Adding
      <4>1. cfg[n] # NoEntry
        BY <1>1, <2>4, <3>1, TopIs DEF FrameFits
      <4> QED
        BY <2>3, <2>4, <2>6, <3>1, <4>1, AddedIsGiven DEF Adjacent
    <3>2. CASE Top.at \notin Adding
      BY <2>3, <2>4, <2>5, <2>6, <3>2 DEF Adjacent
    <3> QED
      BY <3>1, <3>2
  <2>7. ASSUME h.at \in {"default", "added"}
        PROVE  Added(n, v) /\ n = IF h.at = "default" THEN Default ELSE h.name
    BY <2>3, <2>4, <2>7 DEF Adjacent
  <2>8. (At("default") => Added(Default, ret))'
    BY <2>3, <2>7 DEF At, Added, Fails, Obj
  <2>9. (At("added") => Added(Top.name, ret))'
    BY <2>3, <2>7 DEF At, Added, Fails, Obj
  <2>10. (At("alias") \/ At("base") => Given(cfg[Top.name].base, ret))'
    BY <2>3, <2>6 DEF At, Given, NullOf
  <2> QED
    BY <2>8, <2>9, <2>10 DEF Returned
<1> QED
  BY <1>3, <1>4, <1>5, <1>6, <1>7 DEF Loading

(* Nothing above a call that adds a module has that module's name. *)
LEMMA DistinctBelow ==
  ASSUME Fit, Loading, Running, Top.at = "set" => current[Top.name] = 0,
         NEW i \in 1 .. Len(calls) - 1, calls[i].at \in Working
  PROVE  calls[i].name # Top.name
<1>1. i \in 1 .. Len(calls) /\ i < Len(calls) /\ Len(calls) \in 1 .. Len(calls)
  BY DEF Fit, TypeOK
<1> QED
  BY <1>1, WorkingIsLoaded DEF Loading, Distinct, Top

LEMMA CrashKeepsLoading ==
  ASSUME Loading, calls' = <<>>, Loads', NullCause'
  PROVE  Loading'
<1>1. Len(calls') = 0
  BY EmptySeq
<1> QED
  BY <1>1 DEF Loading, FramesLoad, Upper, Distinct, Returned, CrashEnds, At, Running

LEMMA WentKeepsLoading ==
  ASSUME Fit, Fit', Loading, Keeps, Loads', UNCHANGED crashed,
         NEW f \in Frame, Went(f), f.at \in {"add", "requires"}, FrameLoads(f)',
         f.name = Top.name, Top.at = "set" => current[Top.name] = 0,
         \A m \in Name : m # Top.name => current'[m] = current[m]
  PROVE  Loading'
<1>0. calls \in Seq(Frame) /\ Running
  BY DEF Fit, TypeOK, Went
<1>1. /\ Len(calls') = Len(calls) /\ Len(calls) \in Nat \ {0}
      /\ \A i \in 1 .. Len(calls) - 1 : calls'[i] = calls[i]
      /\ \A i \in 1 .. Len(calls) : calls[i] \in Frame
      /\ calls'[Len(calls)] = f
  BY <1>0, WentStack, TopFits, ElementOfSeq
<1>2. FramesLoad'
  <2> SUFFICES ASSUME NEW i \in 1 .. Len(calls) PROVE FrameLoads(calls[i])'
    BY <1>1 DEF FramesLoad
  <2>1. CASE i = Len(calls)
    BY <1>1, <2>1
  <2>2. CASE i \in 1 .. Len(calls) - 1
    <3>1. PICK g \in Frame : g = calls[i] /\ FrameLoads(g)
      BY <1>1 DEF Loading, FramesLoad
    <3>2. g.at \in Working => current'[g.name] = current[g.name]
      BY <1>0, <2>2, <3>1, DistinctBelow DEF Frame
    <3> QED
      BY <1>1, <2>2, <3>1, <3>2, FrameKeepsLoads
  <2> QED
    BY <1>1, <2>1, <2>2
<1>3. NullCause' /\ CrashEnds'
  BY <1>0 DEF Loading, NullCause, NullBase, CrashEnds, Keeps, Running
<1>4. Upper'
  BY <1>1 DEF Loading, Upper
<1>5. Distinct'
  <2> SUFFICES ASSUME NEW i \in 1 .. Len(calls), NEW j \in 1 .. Len(calls), i < j,
                      calls'[i].at \in Working, calls'[j].at # "set"
               PROVE  calls'[i].name # calls'[j].name
    BY <1>1 DEF Distinct
  <2>1. CASE j = Len(calls)
    BY <1>0, <1>1, <2>1, DistinctBelow
  <2>2. CASE j # Len(calls)
    BY <1>1, <2>2 DEF Loading, Distinct
  <2> QED
    BY <2>1, <2>2
<1>6. Top' = f
  BY <1>1 DEF Top
<1>7. Returned'
  BY <1>6 DEF Returned, At
<1> QED
  BY <1>2, <1>3, <1>4, <1>5, <1>7 DEF Loading

LEMMA NestKeepsLoading ==
  ASSUME Fit, Fit', Loading, Running, Keeps, Loads', NEW f \in Frame, FrameLoads(f)', f.name = Top.name,
         NEW n \in Name, NEW at \in {"set", "add"},
         \/ Nested(f, Call(n, at)) /\ UNCHANGED crashed
         \/ calls' = <<>> /\ crashed' = "stack",
         f.at = "default" => Len(calls) = 1,
         f.at \in {"alias", "added"} /\ Len(calls) # 1 => f.name # Default,
         Top.at = "set" => current[Top.name] = 0,
         at = "add" => /\ BaseKnown(n)' /\ f.at \notin Working
                       /\ n = Default \/ current'[Default] # 0
                       /\ n = f.name \/ Len(calls) = 1,
         \A m \in Name : m # Top.name => current'[m] = current[m]
  PROVE  Loading'
<1>1. CASE calls' = <<>> /\ crashed' = "stack"
  BY <1>1, CrashKeepsLoading DEF NullCause
<1>2. CASE Nested(f, Call(n, at)) /\ UNCHANGED crashed
  <2>1. PICK g \in Frame : g = Call(n, at) /\ g.name = n /\ g.at = at
    BY CallIsFrame
  <2>2. /\ Len(calls') = Len(calls) + 1 /\ Len(calls) \in Nat \ {0}
        /\ \A i \in 1 .. Len(calls) - 1 : calls'[i] = calls[i]
        /\ \A i \in 1 .. Len(calls) : calls[i] \in Frame
        /\ calls'[Len(calls)] = f /\ calls'[Len(calls) + 1] = g
    <3>1. calls \in Seq(Frame) /\ Nested(f, g)
      BY <1>2, <2>1 DEF Fit, TypeOK
    <3> QED
      BY <3>1, NestedStack, TopFits, ElementOfSeq
  <2>3. FrameLoads(g)'
    BY <2>1 DEF FrameLoads, Adding, Working
  <2>4. FramesLoad'
    <3> SUFFICES ASSUME NEW i \in 1 .. Len(calls) + 1 PROVE FrameLoads(calls[i])'
      BY <2>2 DEF FramesLoad
    <3>1. CASE i \in {Len(calls), Len(calls) + 1}
      BY <2>2, <2>3, <3>1
    <3>2. CASE i \in 1 .. Len(calls) - 1
      <4>1. PICK h \in Frame : h = calls[i] /\ FrameLoads(h)
        BY <2>2, <3>2 DEF Loading, FramesLoad
      <4>2. h.at \in Working => current'[h.name] = current[h.name]
        BY <3>2, <4>1, DistinctBelow DEF Frame
      <4> QED
        BY <2>2, <3>2, <4>1, <4>2, FrameKeepsLoads
    <3> QED
      BY <2>2, <3>1, <3>2
  <2>5. NullCause' /\ CrashEnds'
    BY <1>2 DEF Loading, NullCause, NullBase, CrashEnds, Keeps, Running
  <2>6. Upper'
    BY <2>1, <2>2 DEF Loading, Upper
  <2>7. Distinct'
    <3> SUFFICES ASSUME NEW i \in 1 .. Len(calls) + 1, NEW j \in 1 .. Len(calls) + 1, i < j,
                        calls'[i].at \in Working, calls'[j].at # "set"
                 PROVE  calls'[i].name # calls'[j].name
      BY <2>2 DEF Distinct
    <3>1. CASE j = Len(calls)
      BY <2>2, <3>1, DistinctBelow
    <3>2. CASE j = Len(calls) + 1
      BY <2>1, <2>2, <3>2, DistinctBelow
    <3>3. CASE j < Len(calls)
      BY <2>2, <3>3 DEF Loading, Distinct
    <3>4. j = Len(calls) \/ j = Len(calls) + 1 \/ j < Len(calls)
      BY <2>2
    <3> QED
      BY <3>1, <3>2, <3>3, <3>4
  <2>8. Top' = g
    BY <2>2 DEF Top
  <2>9. Returned'
    BY <2>1, <2>8 DEF Returned, At
  <2> QED
    BY <2>4, <2>5, <2>6, <2>7, <2>9 DEF Loading
<1> QED
  BY <1>1, <1>2
-----------------------------------------------------------------------------
LEMMA UnmadeLoads ==
  ASSUME Loading, UNCHANGED <<cfg, current>>
  PROVE  /\ Keeps /\ Loads'
         /\ \A f : FrameLoads(f)' <=> FrameLoads(f)
<1>1. Loads'
  BY DEF Loading, Loads, BaseKnown, NullOf, IsArray
<1> QED
  BY <1>1 DEF Keeps, FrameLoads, BaseKnown, NullOf, IsArray, Obj

LEMMA TopLoads ==
  ASSUME Fit, Loading, Running
  PROVE  /\ FrameLoads(Top) /\ Len(calls) \in Nat \ {0}
         /\ Len(calls) # 1 /\ Top.at \notin Adding => current[Default] # 0
         /\ Len(calls) # 1 => /\ Top.at # "default"
                              /\ Top.at \in {"alias", "added"} => Top.name # Default
<1>1. Len(calls) \in Nat \ {0}
  BY EmptySeq DEF Running, Fit, TypeOK
<1>2. FrameLoads(Top)
  BY <1>1 DEF Loading, FramesLoad, Top
<1>3. ASSUME Len(calls) # 1 PROVE Len(calls) \in 2 .. Len(calls)
  <2>1. PICK k \in Nat \ {0} : k = Len(calls)
    BY <1>1
  <2>2. k \in 2 .. k
    BY <1>3, <2>1
  <2> QED
    BY <2>1, <2>2
<1>4. Len(calls) # 1 /\ Top.at \notin Adding => current[Default] # 0
  BY <1>3, BelowHasDefault DEF Top
<1>5. Len(calls) # 1 => /\ Top.at # "default"
                        /\ Top.at \in {"alias", "added"} => Top.name # Default
  BY <1>3 DEF Loading, Upper, Top
<1> QED
  BY <1>1, <1>2, <1>4, <1>5

LEMMA SetLoadedLoads ==
  ASSUME Fit, Fit', Loading, SetLoaded
  PROVE  Loading'
<1>1. /\ Running /\ Top.at = "set" /\ Popped /\ UNCHANGED <<cfg, current, crashed>>
      /\ Top.name \in Name /\ current[Top.name] # 0
  BY TopIs DEF SetLoaded, At, Popped, Return, Frame
<1>2. PICK v \in Object : v = Obj(Top.name) /\ v.name = Top.name
  BY <1>1, ObjIsMade DEF Fit
<1>3. ret' = v
  BY <1>2 DEF SetLoaded, Return
<1>4. Given(Top.name, v)
  BY <1>2, ModulesAssumption DEF Given, Failures
<1> QED
  BY <1>1, <1>3, <1>4, PopKeepsLoading DEF Adding, Working

LEMMA SetDefaultLoads ==
  ASSUME Fit, Fit', Loading, SetDefault
  PROVE  Loading'
<1> USE DEF SetDefault
<1>0. Running /\ Top.at = "set" /\ Top.at \notin Adding /\ Top \in Frame
  BY TopIs DEF At, Adding, Working
<1>1. Running /\ Top.at = "set" /\ Top.at \notin Adding /\ Top \in Frame /\ Len(calls) = 1
  <2>1. Len(calls) \in Nat \ {0} /\ Len(calls) = 1
    BY <1>0, TopLoads
  <2> QED
    BY <1>0, <2>1
<1>2. CASE cfg[Default] = NoEntry
  <2>1. Popped /\ ret' = Error /\ UNCHANGED <<cfg, current, crashed>>
    BY <1>1, <1>2 DEF Return, Popped
  <2> QED
    BY <1>1, <2>1, PopKeepsLoading
<1>3. CASE cfg[Default] # NoEntry
  <2>1. PICK f \in Frame : f = [Top EXCEPT !.at = "default"]
    BY <1>1 DEF Frame
  <2>2. /\ f.at = "default" /\ f.name = Top.name
        /\ Nest(f, Call(Default, "add"))
    BY <1>1, <1>3, <2>1 DEF Frame
  <2>3. \/ Nested(f, Call(Default, "add")) /\ UNCHANGED crashed
        \/ calls' = <<>> /\ crashed' = "stack"
    BY <1>1, <2>2, NestIs, ModulesAssumption DEF Fit, TypeOK
  <2>4. BaseKnown(Default)' /\ FrameLoads(f)
    BY <2>2 DEF BaseKnown, FrameLoads, Adding, Working
  <2> QED
    BY <1>1, <2>2, <2>3, <2>4, UnmadeLoads, NestKeepsLoading, ModulesAssumption DEF Working
<1> QED
  BY <1>2, <1>3

LEMMA DefaultFailsLoads ==
  ASSUME Fit, Fit', Loading, DefaultFails
  PROVE  Loading'
<1> USE DEF DefaultFails
<1>1. /\ Running /\ Popped /\ Top.at = "default" /\ Top.at \notin Adding
      /\ UNCHANGED <<cfg, current, crashed, ret>>
  BY DEF At, Popped, Return, Adding, Working
<1>2. PICK v : v = ret
  OBVIOUS
<1>3. Len(calls) = 1
  BY <1>1, TopLoads
<1> QED
  BY <1>1, <1>2, <1>3, PopKeepsLoading

(* The name that is set is not loaded yet, unless it was while the default *)
(* module was.                                                             *)
LEMMA SetGoesOn ==
  ASSUME Fit, Loading, HaveDefault
  PROVE  /\ Top.at = "set" => current[Top.name] = 0
         /\ Len(calls) # 1 => current[Top.name] = 0 /\ Top.name # Default
<1>1. Running /\ Top.at \notin Adding /\ current[Default] # 0 /\ Top.at \in {"set", "default"}
  BY InSetOf DEF HaveDefault, At
<1>2. Len(calls) # 1 => Top.at = "set"
  BY <1>1, TopLoads
<1>3. Top.at = "set" => current[Top.name] = 0
  BY <1>1 DEF HaveDefault, At
<1> QED
  BY <1>1, <1>2, <1>3

LEMMA SetDirLoads ==
  ASSUME Fit, Fit', Loading, SetDir
  PROVE  Loading'
<1> USE DEF SetDir
<1>1. Running /\ Top.name \in Name /\ current[Default] # 0 /\ IsDir(Top.name)
  BY InSetOf
<1>2. PICK f \in Frame : f = Call(Top.name, "add") /\ f.name = Top.name /\ f.at = "add"
  BY <1>1, CallIsFrame
<1>3. Went(f)
  BY <1>1, <1>2 DEF Went
<1>4. FrameLoads(f)
  BY <1>1, <1>2, EntryIs DEF FrameLoads, BaseKnown, IsArray, IsDir, Adding, Working
<1> QED
  BY <1>1, <1>2, <1>3, <1>4, SetGoesOn, UnmadeLoads, WentKeepsLoading

LEMMA SetOtherLoads ==
  ASSUME Fit, Fit', Loading, SetOther
  PROVE  Loading'
<1> USE DEF SetOther
<1>1. /\ Running /\ Top.at \notin Adding /\ Popped /\ UNCHANGED <<cfg, current, crashed>>
      /\ current[Default] # 0
  BY InSetOf DEF Popped, Return
<1>2. PICK v \in Object : v = Obj(Default) /\ v.name = Default
  BY <1>1, ObjIsMade, ModulesAssumption DEF Fit
<1>3. ret' = v
  BY <1>2 DEF Return
<1>4. Top.name = Default \/ cfg[Top.name] = NoEntry
  <2>1. Top.name \in Name /\ ~IsArray(Top.name) /\ (Top.name = Default \/ ~IsDir(Top.name))
    BY InSetOf
  <2> QED
    BY <2>1, EntryIs DEF IsArray, IsDir, Fit
<1>5. Given(Top.name, v)
  BY <1>2, <1>4, ModulesAssumption DEF Given, Failures
<1> QED
  BY <1>1, <1>3, <1>5, PopKeepsLoading

LEMMA AddWithLoads ==
  ASSUME Fit, Fit', Loading, Running, Top.at \notin Adding, IsArray(Top.name),
         current[Default] # 0, BaseKnown(Top.name),
         Top.at = "set" => current[Top.name] = 0,
         Len(calls) # 1 => Top.name # Default,
         NEW o, o = Null \/ IsMade(o), AddWith(o),
         o = Null => NullOf(cfg[Top.name].base),
         o # Null => o.name \in {cfg[Top.name].base, Default},
         UNCHANGED <<cfg, made, current, active, again, asked>>
  PROVE  Loading'
<1>1. Top \in Frame /\ Top.name \in Name /\ cfg[Top.name] # NoEntry /\ o \in Object \cup {Null}
  BY TopIs DEF Frame, IsArray, IsMade
<1>2. PICK f \in Frame : f = [Top EXCEPT !.at = "added", !.obj = o]
  BY <1>1 DEF Frame
<1>3. /\ f.at = "added" /\ f.name = Top.name /\ f.obj = o
      /\ Nest(f, Call(Top.name, "add"))
  BY <1>1, <1>2 DEF Frame, AddWith
<1>4. \/ Nested(f, Call(Top.name, "add")) /\ UNCHANGED crashed
      \/ calls' = <<>> /\ crashed' = "stack"
  BY <1>1, <1>3, NestIs DEF Fit, TypeOK
<1>5. PICK n \in Name : n = Top.name
  BY <1>1
<1>6. FrameLoads(f)
  BY <1>3 DEF FrameLoads, Adding, Working
<1>7. BaseKnown(n)'
  BY <1>5, UnmadeLoads, BaseStaysKnown
<1>8. /\ \/ Nested(f, Call(n, "add")) /\ UNCHANGED crashed
         \/ calls' = <<>> /\ crashed' = "stack"
      /\ f.at = "added" /\ f.name = n /\ n = Top.name
      /\ Len(calls) # 1 => n # Default
      /\ Top.at = "set" => current[n] = 0
  BY <1>3, <1>4, <1>5
<1> QED
  BY <1>5, <1>6, <1>7, <1>8, UnmadeLoads, NestKeepsLoading DEF Working

LEMMA SetArrayLoads ==
  ASSUME Fit, Fit', Loading, SetArray
  PROVE  Loading'
<1> USE DEF SetArray
<1>1. /\ Running /\ Top.name \in Name /\ Top.at \notin Adding /\ IsArray(Top.name)
      /\ cfg[Top.name] # NoEntry /\ Top \in Frame /\ current[Default] # 0
      /\ Top.at = "set" => current[Top.name] = 0
      /\ Len(calls) # 1 => Top.name # Default
  BY InSetOf, TopIs, SetGoesOn DEF IsArray
<1>2. CASE cfg[Top.name].base = NoName
  <2>1. PICK o \in Object : o = Obj(Default) /\ IsMade(o) /\ o.name = Default
    BY <1>1, ObjIsMade, ModulesAssumption DEF Fit
  <2>2. BaseKnown(Top.name) /\ o # Null
    BY <1>2, ModulesAssumption DEF BaseKnown
  <2> QED
    BY <1>1, <1>2, <2>1, <2>2, AddWithLoads
<1>3. CASE cfg[Top.name].base # NoName
  <2>0. PICK b \in Name : b = cfg[Top.name].base
    BY <1>1, <1>3, EntryIs DEF Fit
  <2>1. PICK f \in Frame : f = [Top EXCEPT !.at = "alias"]
    BY <1>1 DEF Frame
  <2>2. f.at = "alias" /\ f.name = Top.name /\ Nest(f, Call(b, "set"))
    BY <1>1, <1>3, <2>0, <2>1 DEF Frame
  <2>3. \/ Nested(f, Call(b, "set")) /\ UNCHANGED crashed
        \/ calls' = <<>> /\ crashed' = "stack"
    BY <1>1, <2>2, NestIs DEF Fit, TypeOK
  <2>4. FrameLoads(f)
    BY <1>1, <2>2 DEF FrameLoads, Adding, Working
  <2> QED
    BY <1>1, <2>2, <2>3, <2>4, UnmadeLoads, NestKeepsLoading
<1> QED
  BY <1>2, <1>3

LEMMA SetAliasedLoads ==
  ASSUME Fit, Fit', Loading, SetAliased
  PROVE  Loading'
<1> USE DEF SetAliased
<1>1. /\ Running /\ Top.at = "alias" /\ Top.at \notin Adding /\ IsArray(Top.name)
      /\ cfg[Top.name].base \in Name /\ Top.name \in Name /\ cfg[Top.name] # NoEntry
      /\ current[Default] # 0
      /\ Len(calls) # 1 => Top.name # Default
  BY TopIs, TopLoads DEF At, FrameFits, FrameLoads, Adding, Working, IsArray, Frame
<1>2. PICK n \in Name : n = Top.name
  BY <1>1
<1>3. PICK b \in Name : b = cfg[n].base
  BY <1>1, <1>2
<1>4. Given(b, ret) /\ IsArray(n) /\ cfg[n] # NoEntry /\ b = cfg[Top.name].base
  BY <1>1, <1>2, <1>3 DEF Loading, Returned, At
<1>5. CASE ret = Error
  <2>1. Popped /\ ret' = Error /\ UNCHANGED <<cfg, current, crashed>>
    BY <1>1, <1>5 DEF Return, Popped
  <2>2. current[b] = 0 /\ cfg[b] # NoEntry /\ cfg[b].makes # "nothing"
    BY <1>4, <1>5 DEF Given
  <2>3. n # Default => ~BaseKnown(n)
    BY <1>3, <1>4, <2>2 DEF BaseKnown, NullOf
  <2>4. n # Default => current[n] = 0
    BY <2>3 DEF Loading, Loads
  <2>5. cfg[n].makes # "nothing"
    BY <1>4, EntryIs DEF IsArray, Fit
  <2>6. Len(calls) # 1 => Given(Top.name, Error)
    BY <1>1, <1>2, <1>4, <2>4, <2>5, ModulesAssumption DEF Given, Failures
  <2> QED
    BY <1>1, <2>1, <2>6, PopKeepsLoading
<1>6. CASE ret # Error
  <2>1. PICK o : o = ret
    OBVIOUS
  <2>2. o = Null \/ IsMade(o)
    BY <1>6, <2>1 DEF Fit, Objects, Failures
  <2>3. /\ o = Null => NullOf(b)
        /\ o # Null => o.name = b \/ (o.name = Default /\ cfg[b] = NoEntry)
    BY <1>4, <1>6, <2>1 DEF Given, Failures
  <2>4. BaseKnown(n)
    <3>1. CASE o = Null
      BY <1>3, <2>3, <3>1 DEF BaseKnown
    <3>2. CASE o # Null /\ o.name = b
      BY <1>3, <2>2, <3>2 DEF BaseKnown, IsMade, Object, Fit, Numbers, TypeOK
    <3>3. CASE cfg[b] = NoEntry
      BY <1>3, <3>3 DEF BaseKnown
    <3> QED
      BY <1>6, <2>1, <2>2, <2>3, <3>1, <3>2, <3>3
  <2> QED
    BY <1>1, <1>2, <1>4, <1>6, <2>1, <2>2, <2>3, <2>4, AddWithLoads
<1> QED
  BY <1>5, <1>6

LEMMA SetAddedLoads ==
  ASSUME Fit, Fit', Loading, SetAdded
  PROVE  Loading'
<1> USE DEF SetAdded
<1>1. /\ Running /\ Top.at = "added" /\ Top.at \notin Adding /\ FrameFits(Top)
      /\ FrameLoads(Top) /\ Top.name \in Name
  BY TopIs, TopLoads DEF At, Adding, Working, Frame
<1>2. PICK n \in Name : n = Top.name
  BY <1>1
<1>3. Added(n, ret) /\ cfg[n] # NoEntry
  BY <1>1, <1>2 DEF Loading, Returned, At, FrameFits, IsArray
<1>4. PICK v : v = ret
  OBVIOUS
<1>5. Given(Top.name, v)
  BY <1>2, <1>3, <1>4, AddedIsGiven
<1>6. UNCHANGED <<cfg, current>>
  OBVIOUS
<1>7. CASE Return(ret)
  BY <1>1, <1>4, <1>5, <1>6, <1>7, PopKeepsLoading DEF Return, Popped
<1>8. CASE Crash("null") /\ Top.obj = Null
  <2>1. NullBase
    BY <1>1, <1>2, <1>3, <1>8 DEF FrameLoads, NullBase, NullOf
  <2>2. NullCause'
    BY <1>6, <2>1 DEF NullCause, NullBase
  <2> QED
    BY <1>6, <1>8, <2>2, UnmadeLoads, CrashKeepsLoading DEF Crash
<1> QED
  BY <1>7, <1>8

LEMMA AddFailsLoads ==
  ASSUME Fit, Fit', Loading, AddFails
  PROVE  Loading'
<1> USE DEF AddFails
<1>1. Running /\ Popped /\ UNCHANGED <<cfg, current, crashed>> /\ Top.at \in Adding
  BY DEF At, Popped, Return, Adding
<1>2. PICK v \in Failures : v = Fails(Top.name)
  BY DEF Fails, Failures
<1>3. ret' = v /\ Added(Top.name, v)
  BY <1>2 DEF Return, Added
<1> QED
  BY <1>1, <1>3, PopKeepsLoading

LEMMA AddMakesLoads ==
  ASSUME Fit, Fit', Loading, AddMakes
  PROVE  Loading'
<1>1. PICK n : n = Top.name
  OBVIOUS
<1>2. /\ Running /\ n \in Name /\ cfg[n] # NoEntry /\ Top.at = "add"
      /\ cfg[n].makes = "module"
      /\ current' = [current EXCEPT ![n] = Len(made[n]) + 1]
      /\ Len(made[n]) \in Nat
      /\ Top \in Frame /\ FrameLoads(Top) /\ cfg' = cfg
  <2>1. Running /\ Top.at = "add" /\ cfg[n].makes = "module" /\ cfg' = cfg
    BY <1>1 DEF AddMakes, At
  <2>2. Top \in Frame /\ FrameLoads(Top) /\ cfg[n] # NoEntry /\ n \in Name
    BY <1>1, <2>1, TopIs, TopLoads DEF FrameFits, Adding, Frame
  <2>3. current' = [current EXCEPT ![n] = Len(made[n]) + 1]
    BY <1>1 DEF AddMakes, Put
  <2>4. Len(made[n]) \in Nat
    BY <2>2 DEF Fit, TypeOK
  <2> QED
    BY <2>1, <2>2, <2>3, <2>4
<1>3. PICK e : e = cfg[n]
  OBVIOUS
<1>4. PICK k \in Nat \ {0} : k = Len(made[n]) + 1
  BY <1>2
<1>5. PICK o : o = [name |-> n, nth |-> k]
  OBVIOUS
<1>6. o \in Object /\ o = Obj(n)'
  BY <1>2, <1>4, <1>5 DEF Object, Obj, Fit, TypeOK
<1>7. current'[n] = k /\ \A m \in Name : m # n => current'[m] = current[m]
  BY <1>2, <1>4 DEF Fit, TypeOK
<1>8. Keeps
  BY <1>2, <1>7 DEF Keeps
<1>9. BaseKnown(n)' /\ (n = Default \/ current'[Default] # 0)
  BY <1>1, <1>2, <1>7, <1>8, BaseStaysKnown, ModulesAssumption DEF FrameLoads, Adding, Keeps
<1>10. Loads'
  <2> SUFFICES ASSUME NEW m \in Name, current'[m] # 0
               PROVE  /\ cfg[m] # NoEntry /\ cfg[m].makes = "module"
                      /\ BaseKnown(m)' /\ current'[Default] # 0
    BY <1>2 DEF Loads
  <2>1. CASE m = n
    BY <1>2, <1>7, <1>9, <2>1
  <2>2. CASE m # n
    <3>1. /\ cfg[m] # NoEntry /\ cfg[m].makes = "module"
          /\ BaseKnown(m) /\ current[Default] # 0
      BY <1>7, <2>2 DEF Loading, Loads
    <3> QED
      BY <1>8, <3>1, BaseStaysKnown, ModulesAssumption DEF Keeps
  <2> QED
    BY <2>1, <2>2
<1>11. CASE e.base \in {NoName, Default}
  <2>1. PICK r \in Seq(Name) : r = List(e.requires)
    BY <1>2, <1>3, EntryIs, ListIs DEF Fit
  <2>2. PICK f \in Frame : f = [[Top EXCEPT !.obj = o] EXCEPT !.at = "requires", !.rest = r]
    BY <1>2, <1>6, <2>1 DEF Frame
  <2>3. f.at = "requires" /\ f.name = n /\ f.obj = o
    BY <1>1, <1>2, <2>2 DEF Frame
  <2>4. Went(f) /\ UNCHANGED <<ret, crashed>>
    BY <1>1, <1>2, <1>3, <1>4, <1>5, <1>11, <2>1, <2>2 DEF AddMakes, Went
  <2>5. FrameLoads(f)'
    BY <1>6, <1>9, <2>3 DEF FrameLoads, Adding, Working
  <2> QED
    BY <1>1, <1>2, <1>7, <1>8, <1>10, <2>3, <2>4, <2>5, WentKeepsLoading
<1>12. CASE e.base \notin {NoName, Default}
  <2>1. PICK b \in Name : b = e.base
    BY <1>2, <1>3, <1>12, EntryIs DEF Fit
  <2>2. PICK f \in Frame : f = [[Top EXCEPT !.obj = o] EXCEPT !.at = "base"]
    BY <1>2, <1>6 DEF Frame
  <2>3. f.at = "base" /\ f.name = n /\ f.obj = o
    BY <1>1, <1>2, <2>2 DEF Frame
  <2>4. Nest(f, Call(b, "set"))
    BY <1>1, <1>2, <1>3, <1>4, <1>5, <1>12, <2>1, <2>2 DEF AddMakes
  <2>5. \/ Nested(f, Call(b, "set")) /\ UNCHANGED crashed
        \/ calls' = <<>> /\ crashed' = "stack"
    BY <1>2, <2>4, NestIs DEF Fit, TypeOK
  <2>6. FrameLoads(f)'
    BY <1>6, <1>9, <2>3 DEF FrameLoads, Adding, Working
  <2> QED
    BY <1>1, <1>2, <1>7, <1>8, <1>10, <2>3, <2>5, <2>6, NestKeepsLoading
<1> QED
  BY <1>11, <1>12

LEMMA BaseDoneLoads ==
  ASSUME Fit, Fit', Loading, BaseDone
  PROVE  Loading'
<1> USE DEF BaseDone
<1>1. /\ Running /\ Top.at = "base" /\ Top.at \in Adding /\ Top \in Frame /\ FrameFits(Top)
      /\ IsMade(Top.obj) /\ Top.obj \in Object /\ Top.obj.name = Top.name
      /\ FrameLoads(Top) /\ Top.obj = Obj(Top.name)
      /\ cfg[Top.name] # NoEntry
      /\ UNCHANGED <<cfg, current>>
  BY TopIs, TopLoads DEF At, FrameFits, FrameLoads, Working, Adding, IsMade
<1>2. PICK v \in Object : v = Top.obj
  BY <1>1
<1>3. CASE ret = Error /\ Return(Top.obj)
  <2>1. Popped /\ ret' = v /\ UNCHANGED <<cfg, current, crashed>>
    BY <1>1, <1>2, <1>3 DEF Return, Popped
  <2>2. Added(Top.name, v)
    BY <1>1, <1>2, ModulesAssumption DEF Added, Failures
  <2> QED
    BY <1>1, <2>1, <2>2, PopKeepsLoading
<1>4. CASE ret = Null /\ Crash("null")
  <2>1. NullOf(cfg[Top.name].base)
    BY <1>1, <1>4 DEF Loading, Returned, At, Given
  <2>2. NullBase
    BY <1>1, <2>1 DEF NullBase, NullOf, Frame
  <2>3. NullCause'
    BY <1>1, <2>2 DEF NullCause, NullBase
  <2> QED
    BY <1>1, <1>4, <2>3, UnmadeLoads, CrashKeepsLoading DEF Crash
<1>5. CASE /\ calls' = Append(Below, [Top EXCEPT !.at = "requires",
                                !.rest = List(made'[Top.name][Top.obj.nth])])
           /\ UNCHANGED <<ret, crashed>>
  <2>1. PICK r : r = List(made'[Top.name][Top.obj.nth])
    OBVIOUS
  <2>2. PICK f : f = [Top EXCEPT !.at = "requires", !.rest = r]
    OBVIOUS
  <2>3. Went(f)
    BY <1>1, <1>5, <2>1, <2>2 DEF Went
  <2>4. f \in Frame
    <3>1. calls' \in Seq(Frame) /\ calls' = Append(Below, f) /\ Len(Below) \in Nat /\ Below \in Seq(Frame)
      BY <1>1, <2>3, TopFits DEF Went, Fit, TypeOK
    <3>2. PICK r2 \in Seq(Name) : r2 = r
      <4>1. made'[Top.name] \in Seq(Lists \cup {Unset}) /\ Top.obj.nth \in 1 .. Len(made'[Top.name])
        <5>1. Top.name \in Name /\ Top.obj.nth \in Nat \ {0} /\ Top.obj.nth = current'[Top.name]
          BY <1>1 DEF Obj, Object, Frame
        <5> QED
          BY <5>1 DEF Fit, Numbers, TypeOK
      <4>2. PICK u \in Lists \cup {Unset} : u = made'[Top.name][Top.obj.nth]
        BY <4>1, ElementOfSeq
      <4> QED
        BY <2>1, <4>2, ListIs
    <3> QED
      BY <1>1, <2>2, <3>2 DEF Frame
  <2>5. f.at = "requires" /\ f.name = Top.name /\ f.obj = v
    BY <1>1, <1>2, <2>2 DEF Frame
  <2>6. FrameLoads(f)
    BY <1>1, <1>2, <2>5 DEF FrameLoads, Adding, Working
  <2> QED
    BY <1>1, <1>5, <2>3, <2>4, <2>5, <2>6, UnmadeLoads, WentKeepsLoading
<1> QED
  BY <1>3, <1>4, <1>5

LEMMA RequireLoads ==
  ASSUME Fit, Fit', Loading, Require
  PROVE  Loading'
<1> USE DEF Require
<1>1. /\ Running /\ Top.at = "requires" /\ Top \in Frame /\ FrameLoads(Top)
      /\ Top.rest \in Seq(Name) /\ Top.rest # <<>>
  BY TopIs, TopLoads DEF At, Frame
<1>2. PICK r \in Name : r = Head(Top.rest)
  BY <1>1, HeadTailProperties
<1>3. PICK f \in Frame : f = [Top EXCEPT !.rest = Onward(@)]
  BY <1>1, HeadTailProperties DEF Frame, Onward
<1>4. f.at = "requires" /\ f.name = Top.name /\ f.obj = Top.obj /\ Nest(f, Call(r, "set"))
  BY <1>1, <1>2, <1>3 DEF Frame
<1>5. \/ Nested(f, Call(r, "set")) /\ UNCHANGED crashed
      \/ calls' = <<>> /\ crashed' = "stack"
  BY <1>1, <1>4, NestIs DEF Fit, TypeOK
<1>6. FrameLoads(f)
  BY <1>1, <1>4 DEF FrameLoads, Adding, Working
<1> QED
  BY <1>1, <1>4, <1>5, <1>6, UnmadeLoads, NestKeepsLoading

LEMMA AddDoneLoads ==
  ASSUME Fit, Fit', Loading, AddDone
  PROVE  Loading'
<1> USE DEF AddDone
<1>1. /\ Running /\ Top.at = "requires" /\ Top.at \in Adding
      /\ IsMade(Top.obj) /\ Top.obj = Obj(Top.name)
  BY TopIs, TopLoads DEF At, FrameFits, FrameLoads, Working, Adding
<1>2. PICK v \in Object : v = Top.obj
  BY <1>1 DEF IsMade
<1>3. Popped /\ ret' = v /\ UNCHANGED <<cfg, current, crashed>>
  BY <1>1, <1>2 DEF Return, Popped
<1>4. Added(Top.name, v)
  BY <1>1, <1>2, ModulesAssumption DEF Added, Failures
<1> QED
  BY <1>1, <1>3, <1>4, PopKeepsLoading

LEMMA StartLoads ==
  ASSUME Fit', Loading, NEW n \in Name, calls' = <<Call(n, "set")>>,
         UNCHANGED <<cfg, made, current, active, crashed>>, crashed = "no"
  PROVE  Loading'
<1>1. PICK f \in Frame : f = Call(n, "set") /\ f.at = "set"
  BY CallIsFrame
<1>2. Len(calls') = 1 /\ calls'[1] = f
  BY <1>1
<1>3. FrameLoads(f)
  BY <1>1 DEF FrameLoads, Adding, Working
<1>4. FramesLoad' /\ Upper' /\ Distinct' /\ Returned'
  BY <1>1, <1>2, <1>3, UnmadeLoads DEF FramesLoad, Upper, Distinct, Returned, At, Top
<1> QED
  BY <1>4, UnmadeLoads DEF Loading, CrashEnds, NullCause

LEMMA NewRequestLoads ==
  ASSUME Fit', Loading, NewRequest
  PROVE  Loading'
<1>1. Len(calls') = 0 /\ calls' = <<>> /\ crashed' = "no" /\ \A n \in Name : current'[n] = 0
  BY EmptySeq DEF NewRequest
<1> QED
  BY <1>1 DEF Loading, FramesLoad, Loads, Upper, Distinct, Returned, At, Running, CrashEnds, NullCause

LEMMA LoadingStep ==
  ASSUME Fit, Fit', Loading, [Next]_vars
  PROVE  Loading'
<1>1. CASE UNCHANGED vars
  <2>1. UNCHANGED <<cfg, current, calls, ret, crashed>>
    BY <1>1 DEF vars
  <2>2. FramesLoad' /\ Loads'
    BY <2>1, UnmadeLoads DEF Loading, FramesLoad
  <2>3. Upper' /\ Distinct'
    BY <2>1 DEF Loading, Upper, Distinct
  <2>4. Returned'
    BY <2>1 DEF Loading, Returned, At, Running, Top, Added, Given, Fails, Obj, NullOf
  <2>5. CrashEnds' /\ NullCause'
    BY <2>1 DEF Loading, CrashEnds, NullCause, NullBase
  <2> QED
    BY <2>2, <2>3, <2>4, <2>5 DEF Loading
<1>2. ASSUME NEW n \in Name, SetModule(n) PROVE Loading'
  BY <1>2, StartLoads DEF SetModule, Idle
<1>3. ASSUME NEW n \in Name, Dispatch(n) PROVE Loading'
  BY <1>3, StartLoads DEF Dispatch, Idle
<1>4. CASE SetAgain
  <2>1. PICK n \in Name : n = again
    BY <1>4 DEF SetAgain, Fit, TypeOK
  <2> QED
    BY <1>4, <2>1, StartLoads DEF SetAgain
<1> QED
  BY <1>1, <1>2, <1>3, <1>4, SetLoadedLoads, SetDefaultLoads, DefaultFailsLoads, SetDirLoads,
     SetOtherLoads, SetArrayLoads, SetAliasedLoads, SetAddedLoads, AddFailsLoads, AddMakesLoads,
     BaseDoneLoads, RequireLoads, AddDoneLoads, NewRequestLoads DEF Next, Step
-----------------------------------------------------------------------------
(***************************************************************************)
(* What each of the actions that go on does to the stack: the last call    *)
(* becomes f, or becomes f and has a call above it, or there is no room.   *)
(***************************************************************************)
Nests(f, n, at) == \/ Nested(f, Call(n, at)) /\ UNCHANGED crashed
                   \/ calls' = <<>> /\ crashed' = "stack"

LEMMA SetDefaultShape ==
  ASSUME Fit, Loading, SetDefault, cfg[Default] # NoEntry
  PROVE  /\ Running /\ Top.at = "set" /\ Len(calls) = 1 /\ Top.name \in Name
         /\ current[Top.name] = 0 /\ current[Default] = 0 /\ Default \in Name
         /\ \E f \in Frame : f.at = "default" /\ f.name = Top.name /\ Nests(f, Default, "add")
<1> USE DEF SetDefault
<1>0. Running /\ Top.at = "set" /\ Top.at \notin Adding /\ Top \in Frame
  BY TopIs DEF At, Adding, Working
<1>1. Len(calls) = 1
  BY <1>0, TopLoads
<1>2. PICK f \in Frame : f = [Top EXCEPT !.at = "default"]
  BY <1>0 DEF Frame
<1>3. /\ f.at = "default" /\ f.name = Top.name
      /\ Nest(f, Call(Default, "add"))
  BY <1>0, <1>2 DEF Frame
<1>4. Nests(f, Default, "add")
  BY <1>0, <1>3, NestIs, ModulesAssumption DEF Fit, TypeOK, Nests
<1> QED
  BY <1>0, <1>1, <1>3, <1>4, ModulesAssumption DEF Frame

LEMMA SetDirShape ==
  ASSUME Fit, Loading, SetDir
  PROVE  /\ Running /\ Top.name \in Name /\ IsDir(Top.name) /\ Top.name # Default
         /\ Top.at \in {"set", "default"} /\ current[Default] # 0
         /\ Top.at = "set" => current[Top.name] = 0
         /\ Len(calls) # 1 => current[Top.name] = 0
         /\ \E f \in Frame : f.at = "add" /\ f.name = Top.name /\ Went(f)
<1> USE DEF SetDir
<1>1. Running /\ Top.name \in Name /\ current[Default] # 0 /\ Top.at \in {"set", "default"}
  BY InSetOf DEF HaveDefault, At
<1>2. PICK f \in Frame : f = Call(Top.name, "add") /\ f.name = Top.name /\ f.at = "add"
  BY <1>1, CallIsFrame
<1>3. Went(f)
  BY <1>1, <1>2 DEF Went
<1> QED
  BY <1>1, <1>2, <1>3, SetGoesOn

LEMMA AddWithShape ==
  ASSUME Fit, Running, NEW o \in Object \cup {Null}, AddWith(o)
  PROVE  \E f \in Frame : /\ f.at = "added" /\ f.name = Top.name /\ f.obj = o
                          /\ Nests(f, Top.name, "add")
<1>1. Top \in Frame /\ Top.name \in Name
  BY TopIs DEF Frame
<1>2. PICK f \in Frame : f = [Top EXCEPT !.at = "added", !.obj = o]
  BY <1>1 DEF Frame
<1>3. /\ f.at = "added" /\ f.name = Top.name /\ f.obj = o
      /\ Nest(f, Call(Top.name, "add"))
  BY <1>1, <1>2 DEF Frame, AddWith
<1>4. Nests(f, Top.name, "add")
  BY <1>1, <1>3, NestIs DEF Fit, TypeOK, Nests
<1> QED
  BY <1>3, <1>4

LEMMA SetArrayShape ==
  ASSUME Fit, Loading, SetArray
  PROVE  /\ Running /\ Top.name \in Name /\ IsArray(Top.name) /\ cfg[Top.name] # NoEntry
         /\ Top.at \in {"set", "default"} /\ current[Default] # 0
         /\ Top.at = "set" => current[Top.name] = 0
         /\ Len(calls) # 1 => current[Top.name] = 0 /\ Top.name # Default
         /\ \/ /\ cfg[Top.name].base = NoName
               /\ \E f \in Frame : /\ f.at = "added" /\ f.name = Top.name /\ f.obj = Obj(Default)
                                   /\ Nests(f, Top.name, "add")
            \/ \E b \in Name : /\ b = cfg[Top.name].base
                               /\ \E f \in Frame : /\ f.at = "alias" /\ f.name = Top.name
                                                   /\ Nests(f, b, "set")
<1> USE DEF SetArray
<1>1. /\ Running /\ Top.name \in Name /\ IsArray(Top.name)
      /\ cfg[Top.name] # NoEntry /\ Top \in Frame /\ current[Default] # 0
      /\ Top.at \in {"set", "default"}
  BY InSetOf, TopIs DEF IsArray, HaveDefault, At
<1>2. CASE cfg[Top.name].base = NoName
  <2>1. PICK o \in Object : o = Obj(Default)
    BY <1>1, ObjIsMade, ModulesAssumption DEF Fit
  <2> QED
    BY <1>1, <1>2, <2>1, AddWithShape, SetGoesOn
<1>3. CASE cfg[Top.name].base # NoName
  <2>0. PICK b \in Name : b = cfg[Top.name].base
    BY <1>1, <1>3, EntryIs DEF Fit
  <2>1. PICK f \in Frame : f = [Top EXCEPT !.at = "alias"]
    BY <1>1 DEF Frame
  <2>2. f.at = "alias" /\ f.name = Top.name /\ Nest(f, Call(b, "set"))
    BY <1>1, <1>3, <2>0, <2>1 DEF Frame
  <2>3. Nests(f, b, "set")
    BY <1>1, <2>2, NestIs DEF Fit, TypeOK, Nests
  <2> QED
    BY <1>1, <2>0, <2>2, <2>3, SetGoesOn
<1> QED
  BY <1>2, <1>3

LEMMA SetAliasedShape ==
  ASSUME Fit, Loading, SetAliased
  PROVE  /\ Running /\ Top.at = "alias" /\ Top.name \in Name /\ IsArray(Top.name)
         /\ cfg[Top.name].base \in Name /\ current[Default] # 0
         /\ Given(cfg[Top.name].base, ret)
         /\ ret # Error =>
              \E f \in Frame : /\ f.at = "added" /\ f.name = Top.name /\ f.obj = ret
                               /\ Nests(f, Top.name, "add")
<1> USE DEF SetAliased
<1>1. /\ Running /\ Top.at = "alias" /\ Top.name \in Name /\ IsArray(Top.name)
      /\ cfg[Top.name].base \in Name /\ current[Default] # 0
  BY TopIs, TopLoads DEF At, FrameFits, FrameLoads, Adding, Working, Frame
<1>2. Given(cfg[Top.name].base, ret)
  BY <1>1 DEF Loading, Returned, At
<1>3. ASSUME ret # Error
      PROVE  \E f \in Frame : /\ f.at = "added" /\ f.name = Top.name /\ f.obj = ret
                               /\ Nests(f, Top.name, "add")
  <2>1. PICK o \in Object \cup {Null} : o = ret
    BY <1>3 DEF Fit, TypeOK
  <2> QED
    BY <1>1, <1>3, <2>1, AddWithShape
<1> QED
  BY <1>1, <1>2, <1>3

LEMMA AddMakesShape ==
  ASSUME Fit, Loading, AddMakes
  PROVE  /\ Running /\ Top.at = "add" /\ Top.name \in Name /\ cfg[Top.name] # NoEntry
         /\ cfg[Top.name].makes = "module" /\ Keeps
         /\ current' = [current EXCEPT ![Top.name] = Len(made[Top.name]) + 1]
         /\ current'[Top.name] # 0
         /\ \A m \in Name : m # Top.name => current'[m] = current[m]
         /\ made' = [made EXCEPT ![Top.name] = Append(@, cfg[Top.name].requires)]
         /\ \/ /\ cfg[Top.name].base \in {NoName, Default}
               /\ \E f \in Frame : /\ f.at = "requires" /\ f.name = Top.name
                                   /\ f.rest = List(cfg[Top.name].requires) /\ Went(f)
            \/ \E b \in Name \ {Default} :
                 /\ b = cfg[Top.name].base
                 /\ \E f \in Frame : /\ f.at = "base" /\ f.name = Top.name
                                     /\ Nests(f, b, "set")
<1>0. PICK n : n = Top.name
  OBVIOUS
<1>1. /\ Running /\ Top.at = "add" /\ cfg[n].makes = "module" /\ cfg' = cfg
      /\ current' = [current EXCEPT ![n] = Len(made[n]) + 1]
      /\ made' = [made EXCEPT ![n] = Append(@, cfg[n].requires)]
  BY <1>0 DEF AddMakes, At, Put
<1>2. Top \in Frame /\ cfg[n] # NoEntry /\ n \in Name
  BY <1>0, <1>1, TopIs DEF FrameFits, Adding, Frame
<1>3. PICK k \in Nat \ {0} : k = Len(made[n]) + 1
  BY <1>2 DEF Fit, TypeOK
<1>4. current'[n] = k /\ \A m \in Name : m # n => current'[m] = current[m]
  BY <1>1, <1>2, <1>3 DEF Fit, TypeOK
<1>5. Keeps
  BY <1>1, <1>4 DEF Keeps
<1>6. PICK e : e = cfg[n]
  OBVIOUS
<1>7. PICK o \in Object : o = [name |-> n, nth |-> k]
  BY <1>2, <1>3 DEF Object
<1>8. CASE e.base \in {NoName, Default}
  <2>1. PICK r \in Seq(Name) : r = List(e.requires)
    BY <1>2, <1>6, EntryIs, ListIs DEF Fit
  <2>2. PICK f \in Frame : f = [[Top EXCEPT !.obj = o] EXCEPT !.at = "requires", !.rest = r]
    BY <1>2, <1>7, <2>1 DEF Frame
  <2>3. f.at = "requires" /\ f.name = n /\ f.rest = r
    BY <1>0, <1>2, <2>2 DEF Frame
  <2>4. Went(f)
    BY <1>0, <1>1, <1>3, <1>6, <1>7, <1>8, <2>1, <2>2 DEF AddMakes, Went
  <2> QED
    BY <1>0, <1>1, <1>2, <1>4, <1>5, <1>6, <1>8, <2>1, <2>3, <2>4
<1>9. CASE e.base \notin {NoName, Default}
  <2>1. PICK b \in Name \ {Default} : b = e.base
    BY <1>2, <1>6, <1>9, EntryIs DEF Fit
  <2>2. PICK f \in Frame : f = [[Top EXCEPT !.obj = o] EXCEPT !.at = "base"]
    BY <1>2, <1>7 DEF Frame
  <2>3. f.at = "base" /\ f.name = n
    BY <1>0, <1>2, <2>2 DEF Frame
  <2>4. Nest(f, Call(b, "set"))
    BY <1>0, <1>1, <1>3, <1>6, <1>7, <1>9, <2>1, <2>2 DEF AddMakes
  <2>5. Nests(f, b, "set")
    BY <1>1, <2>4, NestIs DEF Fit, TypeOK, Nests
  <2> QED
    BY <1>0, <1>1, <1>2, <1>4, <1>5, <1>6, <2>1, <2>3, <2>5
<1> QED
  BY <1>8, <1>9

LEMMA BaseDoneShape ==
  ASSUME Fit, Fit', Loading, BaseDone
  PROVE  /\ Running /\ Top.at = "base" /\ Top.name \in Name
         /\ Top.obj = Obj(Top.name) /\ IsMade(Top.obj) /\ Top.obj.name = Top.name
         /\ Top.obj.nth \in 1 .. Len(made[Top.name])
         /\ cfg[Top.name].base \in Name \ {Default}
         /\ Given(cfg[Top.name].base, ret)
         /\ current[Top.name] # 0 /\ UNCHANGED <<cfg, current>>
         /\ ret \notin Failures =>
              \E f \in Frame : /\ f.at = "requires" /\ f.name = Top.name
                               /\ f.rest = List(made'[Top.name][Top.obj.nth])
                               /\ Went(f) /\ UNCHANGED crashed
<1> USE DEF BaseDone
<1>0. PICK n : n = Top.name
  OBVIOUS
<1>1. /\ Running /\ Top.at = "base" /\ Top \in Frame /\ n \in Name
      /\ IsMade(Top.obj) /\ Top.obj.name = Top.name /\ Top.obj = Obj(Top.name)
      /\ cfg[n].base \in Name \ {Default}
      /\ UNCHANGED <<cfg, current>>
  BY <1>0, TopIs, TopLoads DEF At, FrameFits, FrameLoads, Working, Adding, Frame
<1>2. PICK k \in Nat \ {0} : k = Top.obj.nth
  BY <1>1 DEF IsMade, Object
<1>3. k = current[n] /\ k = Len(made[n]) /\ k = Len(made'[n])
  BY <1>0, <1>1, <1>2 DEF Obj, Fit, Numbers
<1>4. Given(cfg[Top.name].base, ret)
  BY <1>1 DEF Loading, Returned, At
<1>5. ASSUME ret \notin Failures
      PROVE  \E f \in Frame : /\ f.at = "requires" /\ f.name = Top.name
                              /\ f.rest = List(made'[Top.name][Top.obj.nth])
                              /\ Went(f) /\ UNCHANGED crashed
  <2>1. PICK u \in Lists \cup {Unset} : u = made'[n][k]
    BY <1>1, <1>2, <1>3, ElementOfSeq, SMTT(30) DEF Fit, TypeOK
  <2>2. PICK r \in Seq(Name) : r = List(u)
    BY ListIs
  <2>3. PICK f \in Frame : f = [Top EXCEPT !.at = "requires", !.rest = r]
    BY <1>1, <2>2 DEF Frame
  <2>4. f.at = "requires" /\ f.name = Top.name /\ f.rest = r
    BY <1>1, <2>3 DEF Frame
  <2>5. r = List(made'[Top.name][Top.obj.nth])
    BY <1>0, <1>2, <2>1, <2>2
  <2>6. Went(f) /\ UNCHANGED crashed
    BY <1>1, <1>5, <2>3, <2>5 DEF Went, Failures
  <2> QED
    BY <2>4, <2>5, <2>6
<1> QED
  BY <1>0, <1>1, <1>2, <1>3, <1>4, <1>5

LEMMA RequireShape ==
  ASSUME Fit, Loading, Require
  PROVE  /\ Running /\ Top.at = "requires" /\ Top.name \in Name
         /\ \E r \in Name, f \in Frame :
              /\ r = Head(Top.rest) /\ f.at = "requires" /\ f.name = Top.name
              /\ f.rest \in Seq(Name) /\ Range(Top.rest) = Range(f.rest) \cup {r}
              /\ Nests(f, r, "set")
<1> USE DEF Require
<1>1. /\ Running /\ Top.at = "requires" /\ Top \in Frame /\ Top.name \in Name
      /\ Top.rest \in Seq(Name) /\ Top.rest # <<>>
  BY TopIs DEF At, Frame
<1>2. PICK r \in Name : r = Head(Top.rest)
  BY <1>1, HeadTailProperties
<1>3. PICK q \in Seq(Name) : q = Tail(Top.rest)
  BY <1>1, HeadTailProperties
<1>4. PICK f \in Frame : f = [Top EXCEPT !.rest = q]
  BY <1>1 DEF Frame
<1>5. f.at = "requires" /\ f.name = Top.name /\ f.rest = q /\ Nest(f, Call(r, "set"))
  BY <1>1, <1>2, <1>3, <1>4 DEF Frame, Onward
<1>6. Nests(f, r, "set")
  BY <1>1, <1>5, NestIs DEF Fit, TypeOK, Nests
<1>7. Range(Top.rest) = Range(q) \cup {r}
  BY <1>1, <1>2, <1>3, HeadAndTail
<1> QED
  BY <1>1, <1>2, <1>5, <1>6, <1>7
-----------------------------------------------------------------------------
(***************************************************************************)
(* The third part of the invariant: the module that dispatch sets twice.   *)
(* After the first time it is loaded, or never will be.                    *)
(***************************************************************************)
Doomed(n) ==
  \/ cfg[n] = NoEntry \/ cfg[n].makes # "module"
  \/ cfg[Default] = NoEntry \/ cfg[Default].makes # "module"

Tried(n) == n = Default \/ IsDir(n) => current[n] # 0 \/ Doomed(n)

Asked ==
  /\ again \in {asked, NoName}
  /\ asked # NoName /\ Running => calls[1].name = asked
  /\ Running /\ calls[1].at \in Adding => IsDir(calls[1].name)
  /\ asked # NoName /\ crashed = "no" /\ (~Running \/ again = NoName) => Tried(asked)
  /\ asked # NoName /\ again = NoName /\ Running /\ calls[1].at # "set"
       => (asked = Default \/ IsDir(asked) => Doomed(asked))

Dispatched == Asked /\ DispatchedIsActive

GoesTo(f) == Went(f) \/ (\E n \in Name, at \in {"set", "add"} : Nests(f, n, at))

LEMMA FirstCall ==
  ASSUME Fit, NEW f \in Frame, GoesTo(f), calls' # <<>>
  PROVE  Running /\ Running' /\ calls'[1] = IF Len(calls) = 1 THEN f ELSE calls[1]
<1>0. calls \in Seq(Frame) /\ Running'
  BY DEF Fit, TypeOK, Running
<1>1. CASE Went(f)
  <2>1. PICK k \in Nat \ {0} : k = Len(calls) /\ Running
    BY <1>0, <1>1, TopFits DEF Went
  <2>2. (\A i \in 1 .. k - 1 : calls'[i] = calls[i]) /\ calls'[k] = f
    BY <1>0, <1>1, <2>1, WentStack
  <2>3. calls'[1] = IF k = 1 THEN f ELSE calls[1]
    BY <2>1, <2>2
  <2> QED
    BY <1>0, <2>1, <2>3
<1>2. CASE \E n \in Name, at \in {"set", "add"} : Nests(f, n, at)
  <2>1. PICK n \in Name, at \in {"set", "add"} : Nested(f, Call(n, at))
    BY <1>2 DEF Nests
  <2>2. PICK g \in Frame : g = Call(n, at)
    BY CallIsFrame
  <2>3. PICK k \in Nat \ {0} : k = Len(calls) /\ Running /\ Nested(f, g)
    BY <1>0, <2>1, <2>2, TopFits DEF Nested
  <2>4. (\A i \in 1 .. k - 1 : calls'[i] = calls[i]) /\ calls'[k] = f
    BY <1>0, <2>3, NestedStack
  <2> QED
    BY <1>0, <2>3, <2>4, SMTT(30)
<1> QED
  BY <1>1, <1>2 DEF GoesTo

LEMMA LoadedIsNotDoomed ==
  ASSUME Loading, NEW n \in Name, Doomed(n)
  PROVE  current[n] = 0
BY ModulesAssumption DEF Loading, Loads, Doomed

LEMMA TriedStays ==
  ASSUME Keeps, NEW n \in Name
  PROVE  /\ Tried(n) => Tried(n)'
         /\ Doomed(n)' <=> Doomed(n)
         /\ IsDir(n)' <=> IsDir(n)
BY DEF Keeps, Tried, Doomed, IsDir

LEMMA CrashDispatched ==
  ASSUME Dispatched, calls' = <<>>, crashed' # "no", UNCHANGED <<again, asked>>
  PROVE  Dispatched'
BY DEF Dispatched, Asked, DispatchedIsActive, Idle, Running

LEMMA GoesToDispatched ==
  ASSUME Fit, Loading, Dispatched, Keeps, UNCHANGED <<again, asked>>,
         NEW f \in Frame, GoesTo(f), f.name = Top.name,
         Top.at = "set" => current[Top.name] = 0,
         f.at \in Adding => Top.at \in Adding \/ IsDir(Top.name)
  PROVE  Dispatched'
<1>1. CASE calls' = <<>>
  <2>1. ~Went(f)
    <3> SUFFICES ASSUME Went(f) PROVE FALSE
      OBVIOUS
    <3>1. calls' \in Seq(Frame) /\ Len(calls') = Len(calls) /\ Len(calls) # 0
      BY WentStack, TopFits DEF Fit, TypeOK, Went
    <3> QED
      BY <1>1, <3>1, EmptySeq
  <2>2. PICK n \in Name, at \in {"set", "add"} : Nests(f, n, at)
    BY <2>1 DEF GoesTo
  <2>3. ~Nested(f, Call(n, at))
    <3> SUFFICES ASSUME Nested(f, Call(n, at)) PROVE FALSE
      OBVIOUS
    <3>1. PICK g \in Frame : g = Call(n, at)
      BY CallIsFrame
    <3>2. calls' \in Seq(Frame) /\ Len(calls') = Len(calls) + 1 /\ Len(calls) \in Nat
      BY <3>1, NestedStack, TopFits DEF Fit, TypeOK, Nested
    <3> QED
      BY <1>1, <3>2, EmptySeq
  <2> QED
    BY <2>2, <2>3, CrashDispatched DEF Nests
<1>2. CASE calls' # <<>>
  <2>1. Running /\ Running' /\ calls'[1] = IF Len(calls) = 1 THEN f ELSE calls[1]
    BY <1>2, FirstCall
  <2>2. calls[1] \in Frame /\ (Len(calls) = 1 => Top = calls[1])
    BY <2>1, TopFits, ElementOfSeq DEF Fit, TypeOK, Top
  <2>3. PICK n \in Name : n = calls[1].name
    BY <2>2 DEF Frame
  <2>4. calls'[1].name = n
    BY <2>1, <2>2, <2>3
  <2>5. crashed = "no"
    BY <2>1 DEF Loading, CrashEnds, Running
  <2>6. (Running /\ calls[1].at \in Adding => IsDir(calls[1].name))'
    <3>1. calls'[1].at \in Adding => IsDir(n)
      BY <2>1, <2>2, <2>3 DEF Dispatched, Asked
    <3> QED
      BY <2>3, <2>4, <3>1, TriedStays
  <2>7. (asked # NoName /\ crashed = "no" /\ (~Running \/ again = NoName) => Tried(asked))'
    <3> SUFFICES ASSUME asked # NoName, again = NoName PROVE Tried(asked)'
      BY <2>1
    <3>1. PICK m \in Name : m = asked
      BY DEF Fit, TypeOK
    <3>2. Tried(m)
      BY <2>5, <3>1 DEF Dispatched, Asked
    <3> QED
      BY <3>1, <3>2, TriedStays
  <2>8. (asked # NoName /\ again = NoName /\ Running /\ calls[1].at # "set"
           => (asked = Default \/ IsDir(asked) => Doomed(asked)))'
    <3> SUFFICES ASSUME n = asked, asked # NoName, again = NoName, calls'[1].at # "set",
                        n = Default \/ IsDir(n)
                 PROVE  Doomed(n)
      BY <2>1, <2>3, TriedStays DEF Dispatched, Asked
    <3>1. CASE calls[1].at # "set"
      BY <2>1, <3>1 DEF Dispatched, Asked
    <3>2. CASE calls[1].at = "set"
      <4>1. Top = calls[1] /\ current[n] = 0
        BY <2>1, <2>2, <2>3, <3>2
      <4> QED
        BY <2>5, <4>1 DEF Dispatched, Asked, Tried
    <3> QED
      BY <3>1, <3>2
  <2>9. Asked'
    BY <2>1, <2>3, <2>4, <2>6, <2>7, <2>8 DEF Dispatched, Asked
  <2>10. DispatchedIsActive'
    BY <2>1 DEF DispatchedIsActive, Idle, Running
  <2> QED
    BY <2>9, <2>10 DEF Dispatched
<1> QED
  BY <1>1, <1>2

LEMMA PopDispatched ==
  ASSUME Fit, Loading, Dispatched, Popped, UNCHANGED <<cfg, current, again, asked, crashed>>,
         Len(calls) = 1 => /\ Tried(Top.name)
                           /\ again = NoName /\ asked = Top.name /\ current[Top.name] # 0
                                => active' = Obj(Top.name)
  PROVE  Dispatched'
<1>1. /\ calls \in Seq(Frame) /\ Running /\ Len(calls) \in Nat \ {0}
      /\ calls' \in Seq(Frame) /\ Len(calls') = Len(calls) - 1
      /\ \A i \in 1 .. Len(calls') : calls'[i] = calls[i]
  BY PoppedStack, TopFits DEF Popped, Fit, TypeOK
<1>2. crashed = "no" /\ crashed' = "no"
  BY <1>1 DEF Loading, CrashEnds, Running
<1>3. CASE Len(calls) = 1
  <2>1. calls' = <<>> /\ Top = calls[1]
    BY <1>1, <1>3, EmptySeq DEF Top
  <2>2. asked # NoName => Tried(asked)
    BY <1>1, <1>3, <2>1 DEF Dispatched, Asked
  <2>3. Asked'
    BY <2>1, <2>2 DEF Dispatched, Asked, Running, Tried, IsDir, Doomed
  <2>4. again = NoName /\ asked # NoName /\ current[asked] # 0 => active' = Obj(asked)
    BY <1>1, <1>3, <2>1 DEF Dispatched, Asked
  <2>5. DispatchedIsActive'
    BY <1>2, <2>1, <2>4 DEF DispatchedIsActive, Idle, Obj
  <2> QED
    BY <2>3, <2>5 DEF Dispatched
<1>4. CASE Len(calls) # 1
  <2>1. calls'[1] = calls[1] /\ calls' # <<>>
    <3>1. PICK k \in Nat \ {0} : k = Len(calls)
      BY <1>1
    <3>2. Len(calls') = k - 1 /\ 1 \in 1 .. k - 1
      BY <1>1, <1>4, <3>1
    <3> QED
      BY <1>1, <3>2, EmptySeq
  <2>2. Asked'
    BY <1>1, <2>1 DEF Dispatched, Asked, Running, Tried, IsDir, Doomed
  <2>3. DispatchedIsActive'
    BY <2>1 DEF DispatchedIsActive, Idle
  <2> QED
    BY <2>2, <2>3 DEF Dispatched
<1> QED
  BY <1>3, <1>4

LEMMA SetLoadedDispatched ==
  ASSUME Fit, Loading, Dispatched, SetLoaded
  PROVE  Dispatched'
<1>1. /\ Running /\ Popped /\ current[Top.name] # 0 /\ active' = Obj(Top.name)
      /\ UNCHANGED <<cfg, current, again, asked, crashed>>
  BY DEF SetLoaded, At, Popped, Return
<1> QED
  BY <1>1, PopDispatched DEF Tried

LEMMA SetDefaultDispatched ==
  ASSUME Fit, Loading, Dispatched, SetDefault
  PROVE  Dispatched'
<1>1. UNCHANGED <<cfg, current, active, again, asked>>
  BY DEF SetDefault
<1>2. CASE cfg[Default] = NoEntry
  <2>1. Running /\ Popped /\ current[Top.name] = 0 /\ UNCHANGED crashed
    BY <1>2 DEF SetDefault, At, Popped, Return
  <2>2. Tried(Top.name)
    BY <1>2 DEF Tried, Doomed
  <2> QED
    BY <1>1, <2>1, <2>2, PopDispatched
<1>3. CASE cfg[Default] # NoEntry
  <2>1. PICK f \in Frame : f.at = "default" /\ f.name = Top.name /\ Nests(f, Default, "add")
    BY <1>3, SetDefaultShape
  <2>2. GoesTo(f) /\ current[Top.name] = 0 /\ f.at \notin Adding
    BY <1>3, <2>1, SetDefaultShape DEF GoesTo, Adding, Working
  <2> QED
    BY <1>1, <2>1, <2>2, GoesToDispatched DEF Keeps
<1> QED
  BY <1>2, <1>3

LEMMA DefaultFailsDispatched ==
  ASSUME Fit, Loading, Dispatched, DefaultFails
  PROVE  Dispatched'
<1>1. /\ Running /\ Popped /\ UNCHANGED <<cfg, current, active, again, asked, crashed>>
      /\ Added(Default, ret) /\ ret \in Failures /\ Top.name \in Name
  BY TopIs DEF DefaultFails, At, Popped, Return, Loading, Returned, Failures, Frame
<1>2. Doomed(Top.name)
  BY <1>1 DEF Added, Doomed
<1>3. current[Top.name] = 0
  BY <1>1, <1>2, LoadedIsNotDoomed
<1> QED
  BY <1>1, <1>2, <1>3, PopDispatched DEF Tried

LEMMA SetDirDispatched ==
  ASSUME Fit, Loading, Dispatched, SetDir
  PROVE  Dispatched'
<1>1. PICK f \in Frame : f.at = "add" /\ f.name = Top.name /\ Went(f)
  BY SetDirShape
<1>2. /\ GoesTo(f) /\ (Top.at = "set" => current[Top.name] = 0) /\ IsDir(Top.name)
      /\ Keeps /\ UNCHANGED <<again, asked>>
  BY <1>1, SetDirShape DEF GoesTo, Keeps, SetDir
<1> QED
  BY <1>1, <1>2, GoesToDispatched

LEMMA SetOtherDispatched ==
  ASSUME Fit, Loading, Dispatched, SetOther
  PROVE  Dispatched'
<1>1. /\ Running /\ Popped /\ active' = Obj(Default) /\ current[Default] # 0
      /\ UNCHANGED <<cfg, current, again, asked, crashed>> /\ Top.name \in Name
  BY InSetOf DEF SetOther, Popped, Return
<1>2. CASE Top.name = Default
  BY <1>1, <1>2, PopDispatched DEF Tried
<1>3. CASE Top.name # Default
  <2>1. ~IsDir(Top.name) /\ ~IsArray(Top.name)
    BY <1>3 DEF SetOther
  <2>2. cfg[Top.name] = NoEntry
    BY <1>1, <2>1, EntryIs DEF IsDir, IsArray, Fit
  <2>3. current[Top.name] = 0
    BY <1>1, <2>2 DEF Loading, Loads
  <2> QED
    BY <1>1, <1>3, <2>1, <2>3, PopDispatched DEF Tried
<1> QED
  BY <1>2, <1>3

LEMMA SetArrayDispatched ==
  ASSUME Fit, Loading, Dispatched, SetArray
  PROVE  Dispatched'
<1>1. PICK f \in Frame : /\ f.name = Top.name /\ f.at \in {"alias", "added"}
                         /\ \E n \in Name, at \in {"set", "add"} : Nests(f, n, at)
  BY SetArrayShape
<1>2. /\ GoesTo(f) /\ (Top.at = "set" => current[Top.name] = 0)
      /\ Keeps /\ UNCHANGED <<again, asked>> /\ f.at \notin Adding
  BY <1>1, SetArrayShape DEF GoesTo, Keeps, SetArray, Adding, Working
<1> QED
  BY <1>1, <1>2, GoesToDispatched

(* An array module whose alias fails is not loaded before either. *)
LEMMA AliasFailed ==
  ASSUME Fit, Loading, SetAliased, ret = Error, Top.name # Default
  PROVE  current[Top.name] = 0
<1>1. PICK n \in Name : n = Top.name
  BY SetAliasedShape
<1>2. PICK b \in Name : b = cfg[n].base
  BY <1>1, SetAliasedShape
<1>3. current[b] = 0 /\ cfg[b] # NoEntry /\ cfg[b].makes # "nothing" /\ IsArray(n)
  BY <1>1, <1>2, SetAliasedShape DEF Given
<1>4. ~BaseKnown(n)
  BY <1>1, <1>2, <1>3 DEF BaseKnown, NullOf
<1> QED
  BY <1>1, <1>4 DEF Loading, Loads

LEMMA SetAliasedDispatched ==
  ASSUME Fit, Loading, Dispatched, SetAliased
  PROVE  Dispatched'
<1>1. /\ Top.name \in Name /\ Top.at = "alias" /\ IsArray(Top.name) /\ current[Default] # 0
      /\ Running /\ UNCHANGED <<cfg, current, active, again, asked>>
  BY SetAliasedShape DEF SetAliased
<1>2. CASE ret = Error
  <2>1. Popped /\ UNCHANGED crashed
    BY <1>1, <1>2 DEF SetAliased, Return, Popped
  <2>2. Tried(Top.name)
    BY <1>1 DEF Tried, IsDir, IsArray
  <2>3. ASSUME Len(calls) = 1, again = NoName, asked = Top.name, current[Top.name] # 0
        PROVE  FALSE
    <3>1. Top.name = Default
      BY <1>2, <2>3, AliasFailed
    <3>2. Top = calls[1] /\ asked # NoName
      BY <1>1, <2>3, ModulesAssumption DEF Top
    <3>3. Doomed(Top.name)
      BY <1>1, <2>3, <3>1, <3>2 DEF Dispatched, Asked
    <3> QED
      BY <1>1, <2>3, <3>3, LoadedIsNotDoomed
  <2> QED
    BY <1>1, <2>1, <2>2, <2>3, PopDispatched
<1>3. CASE ret # Error
  <2>1. PICK f \in Frame : f.at = "added" /\ f.name = Top.name /\ Nests(f, Top.name, "add")
    BY <1>3, SetAliasedShape
  <2>2. GoesTo(f) /\ f.at \notin Adding /\ Keeps
    BY <1>1, <2>1 DEF GoesTo, Adding, Working, Keeps
  <2> QED
    BY <1>1, <2>1, <2>2, GoesToDispatched
<1> QED
  BY <1>2, <1>3

LEMMA SetAddedDispatched ==
  ASSUME Fit, Loading, Dispatched, SetAdded
  PROVE  Dispatched'
<1>1. /\ Running /\ Top.at = "added" /\ IsArray(Top.name) /\ current[Default] # 0
      /\ Top.name \in Name /\ UNCHANGED <<cfg, current, again, asked>>
      /\ Added(Top.name, ret)
  BY TopIs, TopLoads DEF SetAdded, At, FrameFits, FrameLoads, Frame, Loading, Returned
<1>2. Tried(Top.name)
  BY <1>1 DEF Tried, IsDir, IsArray
<1>3. CASE ret \in Failures /\ Return(ret)
  <2>1. current[Top.name] = 0
    BY <1>1, <1>3 DEF Added, Loading, Loads
  <2> QED
    BY <1>1, <1>2, <1>3, <2>1, PopDispatched DEF Return, Popped
<1>4. CASE Crash("null")
  BY <1>1, <1>4, CrashDispatched DEF Crash
<1>5. CASE ret \notin Failures /\ active' = ret /\ Return(ret)
  <2>1. active' = Obj(Top.name)
    BY <1>1, <1>5 DEF Added
  <2> QED
    BY <1>1, <1>2, <1>5, <2>1, PopDispatched DEF Return, Popped
<1> QED
  BY <1>3, <1>4, <1>5 DEF SetAdded, Failures

LEMMA AddFailsDispatched ==
  ASSUME Fit, Loading, Dispatched, AddFails
  PROVE  Dispatched'
<1>1. /\ Running /\ Popped /\ cfg[Top.name].makes # "module" /\ Top.name \in Name
      /\ UNCHANGED <<cfg, current, active, again, asked, crashed>>
  BY TopIs DEF AddFails, At, Popped, Return, Frame
<1>2. current[Top.name] = 0 /\ Tried(Top.name)
  BY <1>1 DEF Loading, Loads, Tried, Doomed
<1> QED
  BY <1>1, <1>2, PopDispatched

LEMMA AddMakesDispatched ==
  ASSUME Fit, Loading, Dispatched, AddMakes
  PROVE  Dispatched'
<1>1. PICK f \in Frame :
        /\ f.name = Top.name
        /\ Went(f) \/ \E n \in Name, at \in {"set", "add"} : Nests(f, n, at)
  BY AddMakesShape
<1>2. GoesTo(f) /\ Top.at = "add" /\ Keeps /\ UNCHANGED <<again, asked>>
  BY <1>1, AddMakesShape DEF GoesTo, AddMakes
<1> QED
  BY <1>1, <1>2, GoesToDispatched DEF Adding

(* What is added from outside, other than the default module and arrays,   *)
(* is not active when it returns; but then it was not loaded the first     *)
(* time, and is not now.                                                   *)
LEMMA WorkingReturns ==
  ASSUME Fit, Loading, Dispatched, Popped, Top.at \in Working,
         UNCHANGED <<cfg, current, again, asked, crashed>>
  PROVE  Dispatched'
<1>1. Running /\ Len(calls) \in Nat \ {0} /\ Top = calls[Len(calls)]
  BY TopFits DEF Popped, Fit, TypeOK, Top
<1>2. Top.name \in Name /\ current[Top.name] # 0
  BY <1>1, WorkingIsLoaded
<1>3. ASSUME Len(calls) = 1, again = NoName, asked = Top.name
      PROVE  FALSE
  <2>1. calls[1] = Top /\ asked # NoName /\ IsDir(Top.name)
    BY <1>1, <1>2, <1>3, ModulesAssumption DEF Dispatched, Asked, Adding
  <2>2. Doomed(Top.name)
    BY <1>1, <1>3, <2>1 DEF Dispatched, Asked, Working
  <2> QED
    BY <1>2, <2>2, LoadedIsNotDoomed
<1> QED
  BY <1>2, <1>3, PopDispatched DEF Tried

LEMMA BaseDoneDispatched ==
  ASSUME Fit, Fit', Loading, Dispatched, BaseDone
  PROVE  Dispatched'
<1>1. /\ Running /\ Top.at = "base" /\ UNCHANGED <<cfg, current, again, asked>>
  BY DEF BaseDone, At
<1>2. CASE Return(Top.obj)
  BY <1>1, <1>2, WorkingReturns DEF Return, Popped, Working
<1>3. CASE Crash("null")
  BY <1>1, <1>3, CrashDispatched DEF Crash
<1>4. CASE ret \notin Failures
  <2>1. PICK f \in Frame : f.at = "requires" /\ f.name = Top.name /\ Went(f)
    BY <1>4, BaseDoneShape
  <2> QED
    BY <1>1, <2>1, GoesToDispatched DEF GoesTo, Keeps, Adding, Working
<1> QED
  BY <1>2, <1>3, <1>4 DEF BaseDone, Failures

LEMMA RequireDispatched ==
  ASSUME Fit, Loading, Dispatched, Require
  PROVE  Dispatched'
<1>1. PICK r \in Name, f \in Frame : f.at = "requires" /\ f.name = Top.name /\ Nests(f, r, "set")
  BY RequireShape
<1>2. Top.at = "requires" /\ Keeps /\ UNCHANGED <<again, asked>>
  BY DEF Require, At, Keeps
<1> QED
  BY <1>1, <1>2, GoesToDispatched DEF GoesTo, Adding, Working

LEMMA AddDoneDispatched ==
  ASSUME Fit, Loading, Dispatched, AddDone
  PROVE  Dispatched'
BY WorkingReturns DEF AddDone, At, Return, Popped, Working

LEMMA StartDispatched ==
  ASSUME Fit', Dispatched, NEW n \in Name, calls' = <<Call(n, "set")>>, UNCHANGED <<cfg, current>>,
         crashed = "no", ~Running,
         \/ asked' = NoName /\ again' = NoName
         \/ asked' = n /\ again' = n
         \/ UNCHANGED asked /\ asked = n /\ again = n /\ again' = NoName
              /\ (asked # NoName => Tried(asked))
         \/ UNCHANGED asked /\ asked = NoName /\ again' = NoName
  PROVE  Dispatched'
<1>1. PICK f \in Frame : f = Call(n, "set") /\ f.at = "set" /\ f.name = n
  BY CallIsFrame
<1>2. calls'[1] = f /\ calls' # <<>>
  BY <1>1
<1>3. DispatchedIsActive'
  BY <1>2 DEF DispatchedIsActive, Idle
<1>4. Asked'
  BY <1>1, <1>2, ModulesAssumption DEF Asked, Running, Adding, Working, Tried, IsDir, Doomed
<1> QED
  BY <1>3, <1>4 DEF Dispatched

LEMMA DispatchedStep ==
  ASSUME Fit, Fit', Loading, Dispatched, [Next]_vars
  PROVE  Dispatched'
<1>1. CASE UNCHANGED vars
  BY <1>1 DEF vars, Dispatched, Asked, DispatchedIsActive, Idle, Running, Tried, Doomed, IsDir, Obj
<1>2. ASSUME NEW n \in Name, SetModule(n) PROVE Dispatched'
  BY <1>2, StartDispatched DEF SetModule, Idle, Running
<1>3. ASSUME NEW n \in Name, Dispatch(n) PROVE Dispatched'
  BY <1>3, StartDispatched DEF Dispatch, Idle, Running, Twice
<1>4. CASE SetAgain
  <2>1. PICK n \in Name : n = again
    BY <1>4 DEF SetAgain, Fit, TypeOK
  <2>2. asked = n /\ Tried(asked) /\ ~Running
    BY <1>4, <2>1, ModulesAssumption DEF SetAgain, Dispatched, Asked, Running
  <2> QED
    BY <1>4, <2>1, <2>2, StartDispatched DEF SetAgain
<1>5. CASE NewRequest
  BY <1>5 DEF NewRequest, Dispatched, Asked, DispatchedIsActive, Running
<1> QED
  BY <1>1, <1>2, <1>3, <1>4, <1>5, SetLoadedDispatched, SetDefaultDispatched,
     DefaultFailsDispatched, SetDirDispatched, SetOtherDispatched, SetArrayDispatched,
     SetAliasedDispatched, SetAddedDispatched, AddFailsDispatched, AddMakesDispatched,
     BaseDoneDispatched, RequireDispatched, AddDoneDispatched DEF Next, Step
-----------------------------------------------------------------------------
(***************************************************************************)
(* The fourth part of the invariant: of what a module requires, what can   *)
(* be loaded is loaded, is being loaded, or is still on the list.          *)
(***************************************************************************)
Loadable(r) == \E S \in Usable : r \in S

MadeSays ==
  \A n \in Name : \A k \in 1 .. Len(made[n]) :
    cfg[n].requires # Unset => made[n][k] = cfg[n].requires

GivenLoaded ==
  At("alias") \/ At("base") =>
    (Loadable(cfg[Top.name].base) => current[cfg[Top.name].base] # 0)

BaseGood(n)  == cfg[n].base \in {NoName, Default} \/ Loadable(cfg[n].base)
Required(n)  == {r \in Range(List(cfg[n].requires)) : Loadable(r)}
AllLoaded(R) == \A r \in R : current[r] # 0

Doing ==
  \A i \in 1 .. Len(calls) : calls[i].at = "requires" =>
    \A r \in Required(calls[i].name) :
      \/ current[r] # 0 \/ r \in Range(calls[i].rest)
      \/ i < Len(calls) /\ calls[i + 1].name = r

IsWorkedOn(n) == \E i \in 1 .. Len(calls) : calls[i].name = n /\ calls[i].at \in Working

Done(n) == current[n] # 0 /\ BaseGood(n) => IsWorkedOn(n) \/ AllLoaded(Required(n))

Requiring == /\ MadeSays /\ GivenLoaded /\ Doing
             /\ crashed = "no" => \A n \in Name : Done(n)

LEMMA LoadableIs ==
  ASSUME NEW r, Loadable(r)
  PROVE  /\ r \in Name /\ cfg[r] # NoEntry /\ cfg[r].makes = "module"
         /\ IsArray(r) => \/ cfg[r].base \in {NoName, Default}
                          \/ Loadable(cfg[r].base)
                          \/ cfg[cfg[r].base] = NoEntry
<1>1. PICK S \in Usable : r \in S
  BY DEF Loadable
<1>2. /\ S \subseteq Name /\ cfg[r] # NoEntry /\ cfg[r].makes = "module"
      /\ cfg[r].kind = "array" =>
           \/ cfg[r].base \in S \cup {NoName, Default}
           \/ cfg[cfg[r].base] = NoEntry
  BY <1>1 DEF Usable
<1> QED
  BY <1>1, <1>2 DEF Loadable, IsArray

LEMMA SaysTheSame ==
  ASSUME cfg' = cfg
  PROVE  /\ \A r : Loadable(r)' <=> Loadable(r)
         /\ \A n : BaseGood(n)' <=> BaseGood(n)
         /\ \A n : Required(n)' = Required(n)
<1>1. Usable' = Usable
  BY DEF Usable
<1>2. \A r : Loadable(r)' <=> Loadable(r)
  BY <1>1 DEF Loadable
<1> QED
  BY <1>2 DEF BaseGood, Required

LEMMA GoesToStack ==
  ASSUME Fit, NEW f \in Frame, GoesTo(f)
  PROVE  \/ calls' = <<>> /\ crashed' = "stack"
         \/ \E k \in Nat \ {0} :
              /\ k = Len(calls) /\ Running
              /\ \A i \in 1 .. k - 1 : calls'[i] = calls[i]
              /\ calls'[k] = f
              /\ \/ Went(f) /\ Len(calls') = k
                 \/ \E n \in Name, at \in {"set", "add"} :
                      /\ Nested(f, Call(n, at)) /\ Len(calls') = k + 1
                      /\ calls'[k + 1] = Call(n, at)
<1>0. calls \in Seq(Frame)
  BY DEF Fit, TypeOK
<1>1. CASE Went(f)
  <2>1. PICK k \in Nat \ {0} : k = Len(calls) /\ Running
    BY <1>0, <1>1, TopFits DEF Went
  <2>2. (\A i \in 1 .. k - 1 : calls'[i] = calls[i]) /\ calls'[k] = f /\ Len(calls') = k
    BY <1>0, <1>1, <2>1, WentStack
  <2> QED
    BY <1>1, <2>1, <2>2
<1>2. CASE \E n \in Name, at \in {"set", "add"} : Nests(f, n, at)
  <2>1. PICK n \in Name, at \in {"set", "add"} : Nests(f, n, at)
    BY <1>2
  <2>2. CASE Nested(f, Call(n, at))
    <3>1. PICK g \in Frame : g = Call(n, at)
      BY CallIsFrame
    <3>2. PICK k \in Nat \ {0} : k = Len(calls) /\ Running /\ Nested(f, g)
      BY <1>0, <2>2, <3>1, TopFits DEF Nested
    <3>3. /\ \A i \in 1 .. k - 1 : calls'[i] = calls[i]
          /\ calls'[k] = f /\ calls'[k + 1] = g /\ Len(calls') = k + 1
      BY <1>0, <3>2, NestedStack
    <3> QED
      BY <2>2, <3>1, <3>2, <3>3
  <2> QED
    BY <2>1, <2>2 DEF Nests
<1> QED
  BY <1>1, <1>2 DEF GoesTo

LEMMA NestsOrWent ==
  ASSUME Fit, NEW f \in Frame, NEW n \in Name, NEW at \in {"set", "add"}, Nests(f, n, at)
  PROVE  /\ ~Went(f) /\ GoesTo(f)
         /\ UNCHANGED crashed \/ calls' = <<>>
<1>0. calls \in Seq(Frame)
  BY DEF Fit, TypeOK
<1>1. ASSUME Went(f) PROVE FALSE
  <2>1. PICK k \in Nat \ {0} : k = Len(calls) /\ Len(calls') = k
    BY <1>0, <1>1, WentStack, TopFits DEF Went
  <2>2. calls' # <<>>
    BY <2>1, EmptySeq
  <2>3. PICK g \in Frame : g = Call(n, at)
    BY CallIsFrame
  <2>4. Nested(f, g)
    BY <2>2, <2>3 DEF Nests
  <2>5. Len(calls') = k + 1
    BY <1>0, <2>1, <2>4, NestedStack
  <2> QED
    BY <2>1, <2>5
<1> QED
  BY <1>1 DEF Nests, GoesTo

LEMMA NothingListed ==
  Range(<<>>) = {} /\ Range(List(Unset)) = {}
<1>1. DOMAIN <<>> = {}
  BY EmptySeq
<1> QED
  BY <1>1 DEF Range, List

LEMMA PopRequiring ==
  ASSUME Fit, Fit', Loading, Requiring, Popped, UNCHANGED <<cfg, current, crashed>>,
         MadeSays',
         Len(calls) # 1 /\ Loadable(Top.name) => current[Top.name] # 0,
         Top.at \in Working /\ BaseGood(Top.name) => AllLoaded(Required(Top.name))
  PROVE  Requiring'
<1>0. calls \in Seq(Frame)
  BY DEF Fit, TypeOK
<1>1. PICK k \in Nat \ {0} :
        /\ k = Len(calls) /\ Len(calls') = k - 1 /\ Top = calls[k]
        /\ \A i \in 1 .. k - 1 : calls'[i] = calls[i]
        /\ calls' \in Seq(Frame)
  BY <1>0, PoppedStack, TopFits DEF Popped, Top
<1>2. GivenLoaded'
  <2> SUFFICES ASSUME NEW h, h = Top', calls' # <<>>, h.at \in {"alias", "base"},
                      Loadable(cfg[h.name].base)'
               PROVE  current[cfg[h.name].base] # 0
    BY DEF GivenLoaded, At, Running
  <2>1. Len(calls') # 0
    BY <1>1, EmptySeq
  <2>2. PICK j \in Nat \ {0} : j = k - 1 /\ j + 1 = k
    <3>1. k # 1
      BY <1>1, <2>1
    <3>2. k - 1 \in Nat \ {0} /\ (k - 1) + 1 = k
      BY <3>1
    <3> QED
      BY <3>2
  <2>3. h = calls[j] /\ Adjacent(calls[j], Top) /\ k # 1
    BY <1>1, <2>2 DEF Top, Fit, Stacked
  <2>4. Top.name = cfg[h.name].base
    BY <2>3 DEF Adjacent
  <2> QED
    BY <1>1, <2>3, <2>4, SaysTheSame
<1>3. Doing'
  <2> SUFFICES ASSUME NEW i \in 1 .. k - 1, calls[i].at = "requires",
                      NEW r \in Required(calls[i].name), current[r] = 0,
                      r \notin Range(calls[i].rest)
               PROVE  i < k - 1 /\ calls'[i + 1].name = r
    BY <1>1, SaysTheSame DEF Doing
  <2>1. calls[i + 1].name = r /\ i \in 1 .. k
    BY <1>1 DEF Requiring, Doing
  <2>2. CASE i = k - 1
    <3>1. Top.name = r /\ k # 1
      BY <1>1, <2>1, <2>2
    <3> QED
      BY <1>1, <3>1 DEF Required
  <2>3. CASE i # k - 1
    BY <1>1, <2>1, <2>3
  <2> QED
    BY <2>2, <2>3
<1>4. ASSUME crashed = "no", NEW n \in Name PROVE Done(n)'
  <2> SUFFICES ASSUME current[n] # 0, BaseGood(n), ~AllLoaded(Required(n))
               PROVE  IsWorkedOn(n)'
    BY SaysTheSame DEF Done, AllLoaded
  <2>1. PICK i \in 1 .. k : calls[i].name = n /\ calls[i].at \in Working
    BY <1>1, <1>4 DEF Requiring, Done, IsWorkedOn
  <2>2. i # k
    BY <1>1, <2>1
  <2> QED
    BY <1>1, <2>1, <2>2 DEF IsWorkedOn
<1> QED
  BY <1>2, <1>3, <1>4 DEF Requiring

LEMMA CrashRequiring ==
  ASSUME calls' = <<>>, crashed' # "no", MadeSays'
  PROVE  Requiring'
<1>1. Len(calls') = 0
  BY EmptySeq
<1> QED
  BY <1>1 DEF Requiring, GivenLoaded, Doing, At, Running

LEMMA GoRequiring ==
  ASSUME Fit, Fit', Loading, Requiring, Keeps, MadeSays', NEW f \in Frame, GoesTo(f),
         f.name = Top.name, Top.at \in Working => f.at \in Working,
         Went(f) => f.at \in {"add", "requires"},
         f.at = "requires" =>
           \A r \in Required(f.name) :
             \/ current'[r] # 0 \/ r \in Range(f.rest)
             \/ \E at \in {"set", "add"} : Nested(f, Call(r, at)),
         \A m \in Name : m # Top.name => current'[m] = current[m],
         current'[Top.name] = current[Top.name] \/ f.at \in Working,
         UNCHANGED crashed \/ calls' = <<>>
  PROVE  Requiring'
<1>0. cfg' = cfg
  BY DEF Keeps
<1>1. CASE calls' = <<>> /\ crashed' = "stack"
  BY <1>1, CrashRequiring
<1>2. CASE \E k \in Nat \ {0} :
              /\ k = Len(calls) /\ Running
              /\ \A i \in 1 .. k - 1 : calls'[i] = calls[i]
              /\ calls'[k] = f
              /\ \/ Went(f) /\ Len(calls') = k
                 \/ \E n \in Name, at \in {"set", "add"} :
                      /\ Nested(f, Call(n, at)) /\ Len(calls') = k + 1
                      /\ calls'[k + 1] = Call(n, at)
  <2>1. PICK k \in Nat \ {0} :
              /\ k = Len(calls) /\ Running
              /\ \A i \in 1 .. k - 1 : calls'[i] = calls[i]
              /\ calls'[k] = f
              /\ \/ Went(f) /\ Len(calls') = k
                 \/ \E n \in Name, at \in {"set", "add"} :
                      /\ Nested(f, Call(n, at)) /\ Len(calls') = k + 1
                      /\ calls'[k + 1] = Call(n, at)
    BY <1>2
  <2>2. Top = calls[k] /\ Len(calls') \in {k, k + 1}
    BY <2>1 DEF Top
  <2>3. Top'.at \in {"set", "add", "requires"}
    <3>1. CASE Went(f) /\ Len(calls') = k
      BY <2>1, <3>1 DEF Top
    <3>2. CASE \E n \in Name, at \in {"set", "add"} :
                      /\ Nested(f, Call(n, at)) /\ Len(calls') = k + 1
                      /\ calls'[k + 1] = Call(n, at)
      <4>1. PICK n \in Name, at \in {"set", "add"} :
                      Len(calls') = k + 1 /\ calls'[k + 1] = Call(n, at)
        BY <3>2
      <4>2. Top' = Call(n, at)
        BY <4>1 DEF Top
      <4> QED
        BY <4>2, CallIsFrame
    <3> QED
      BY <2>1, <3>1, <3>2
  <2>4. GivenLoaded'
    BY <2>3 DEF GivenLoaded, At
  <2>5. Doing'
    <3> SUFFICES ASSUME NEW i \in 1 .. Len(calls'), calls'[i].at = "requires",
                        NEW r \in Required(calls'[i].name), current'[r] = 0,
                        r \notin Range(calls'[i].rest)
                 PROVE  i < Len(calls') /\ calls'[i + 1].name = r
      BY <1>0, SaysTheSame DEF Doing
    <3>1. CASE i \in 1 .. k - 1
      <4>1. calls[i].at = "requires" /\ r \in Required(calls[i].name) /\ r \notin Range(calls[i].rest)
        BY <2>1, <3>1
      <4>2. r \in Name /\ current[r] = 0
        BY <4>1, LoadableIs DEF Required, Keeps
      <4>3. calls[i + 1].name = r
        BY <2>1, <3>1, <4>1, <4>2 DEF Requiring, Doing
      <4>4. calls'[i + 1].name = calls[i + 1].name
        BY <2>1, <2>2, <3>1
      <4> QED
        BY <2>2, <3>1, <4>3, <4>4
    <3>2. CASE i = k
      <4>1. \E at \in {"set", "add"} : Nested(f, Call(r, at))
        BY <2>1, <3>2
      <4>2. PICK at \in {"set", "add"} : Nested(f, Call(r, at))
        BY <4>1
      <4>3. r \in Name
        BY LoadableIs DEF Required
      <4>4. PICK g \in Frame : g = Call(r, at) /\ g.name = r
        BY <4>3, CallIsFrame
      <4>5. Nested(f, g) /\ calls \in Seq(Frame)
        BY <4>2, <4>4 DEF Fit, TypeOK
      <4>6. Len(calls') = k + 1 /\ calls'[k + 1] = g
        BY <2>1, <4>5, NestedStack
      <4> QED
        BY <3>2, <4>4, <4>6
    <3>3. CASE i = k + 1
      <4>1. \E n \in Name, at \in {"set", "add"} : calls'[k + 1] = Call(n, at)
        BY <2>1, <3>3
      <4>2. calls'[k + 1].at # "requires"
        BY <4>1, CallIsFrame
      <4> QED
        BY <3>3, <4>2
    <3> QED
      BY <2>2, <3>1, <3>2, <3>3
  <2>6. ASSUME crashed' = "no", NEW n \in Name PROVE Done(n)'
    <3> SUFFICES ASSUME current'[n] # 0, BaseGood(n), ~AllLoaded(Required(n))'
                 PROVE  IsWorkedOn(n)'
      BY <1>0, SaysTheSame DEF Done
    <3>1. ~AllLoaded(Required(n))
      BY <1>0, SaysTheSame, LoadableIs DEF AllLoaded, Keeps, Required
    <3>2. k \in 1 .. Len(calls')
      BY <2>2
    <3>3. CASE n = Top.name /\ f.at \in Working
      BY <2>1, <3>2, <3>3 DEF IsWorkedOn
    <3>4. CASE ~(n = Top.name /\ f.at \in Working)
      <4>1. current[n] # 0 /\ crashed = "no"
        BY <2>1, <2>6, <3>4 DEF Loading, CrashEnds, Running
      <4>2. PICK i \in 1 .. k : calls[i].name = n /\ calls[i].at \in Working
        BY <2>1, <3>1, <4>1 DEF Requiring, Done, IsWorkedOn
      <4>3. i # k
        BY <2>2, <3>4, <4>2
      <4>4. i \in 1 .. k - 1 /\ i \in 1 .. Len(calls')
        BY <2>2, <4>3
      <4>5. calls'[i] = calls[i]
        BY <2>1, <4>4
      <4> QED
        BY <4>2, <4>4, <4>5 DEF IsWorkedOn
    <3> QED
      BY <3>3, <3>4
  <2> QED
    BY <2>4, <2>5, <2>6 DEF Requiring
<1> QED
  BY <1>1, <1>2, GoesToStack

LEMMA DefaultsSay ==
  ASSUME Fit, MadeSays, cfg' = cfg, NEW o, NEW from, IsMade(o), IsMade(from), AddDefaults(o, from)
  PROVE  MadeSays'
<1>1. PICK n \in Name : n = o.name
  BY DEF IsMade, Object
<1>2. PICK k \in Nat \ {0} : k = o.nth /\ k <= Len(made[n])
  BY <1>1 DEF IsMade, Object
<1>3. PICK s \in Seq(Lists \cup {Unset}) : s = made[n] /\ k \in 1 .. Len(s)
  BY <1>2 DEF Fit, TypeOK
<1>4. PICK v : v = IF s[k] = Unset THEN made[from.name][from.nth] ELSE s[k]
  OBVIOUS
<1>5. made' = [made EXCEPT ![n] = [s EXCEPT ![k] = v]]
  BY <1>1, <1>2, <1>3, <1>4 DEF AddDefaults
<1>6. \A m \in Name : Len(made'[m]) = Len(made[m])
  BY DefaultsAdded DEF Fit
<1> SUFFICES ASSUME NEW m \in Name, NEW j \in 1 .. Len(made[m]), cfg[m].requires # Unset
             PROVE  made'[m][j] = cfg[m].requires
  BY <1>6 DEF MadeSays
<1>7. made[m][j] = cfg[m].requires
  BY DEF MadeSays
<1>8. CASE m = n /\ j = k
  <2>1. made'[m] = [s EXCEPT ![k] = v] /\ v = s[k]
    BY <1>3, <1>4, <1>5, <1>7, <1>8 DEF Fit, TypeOK
  <2> QED
    BY <1>3, <1>7, <1>8, <2>1
<1>9. CASE m = n /\ j # k
  <2>1. made'[m] = [s EXCEPT ![k] = v]
    BY <1>5, <1>9 DEF Fit, TypeOK
  <2> QED
    BY <1>3, <1>7, <1>9, <2>1
<1>10. CASE m # n
  BY <1>5, <1>7, <1>10 DEF Fit, TypeOK
<1> QED
  BY <1>8, <1>9, <1>10

LEMMA MakesSay ==
  ASSUME Fit, Loading, MadeSays, AddMakes
  PROVE  MadeSays'
<1>1. PICK n \in Name : /\ n = Top.name /\ cfg[n] # NoEntry
                        /\ made' = [made EXCEPT ![n] = Append(@, cfg[n].requires)]
  BY AddMakesShape
<1>2. PICK s \in Seq(Lists \cup {Unset}) : s = made[n]
  BY DEF Fit, TypeOK
<1>3. PICK q \in Lists \cup {Unset} : q = cfg[n].requires
  BY <1>1, EntryIs DEF Fit
<1>4. /\ made'[n] = Append(s, q) /\ Len(Append(s, q)) = Len(s) + 1
      /\ \A i \in 1 .. Len(s) : Append(s, q)[i] = s[i]
      /\ Append(s, q)[Len(s) + 1] = q
  BY <1>1, <1>2, <1>3, AppendProperties DEF Fit, TypeOK
<1>5. cfg' = cfg /\ \A m \in Name : m # n => made'[m] = made[m]
  BY <1>1 DEF AddMakes, Fit, TypeOK
<1> SUFFICES ASSUME NEW m \in Name, NEW j \in 1 .. Len(made'[m]), cfg[m].requires # Unset
             PROVE  made'[m][j] = cfg[m].requires
  BY <1>5 DEF MadeSays
<1>6. CASE m = n
  <2>1. PICK k \in Nat : k = Len(s)
    BY <1>2
  <2>2. j \in 1 .. k + 1
    BY <1>4, <1>6, <2>1
  <2>3. CASE j = k + 1
    BY <1>3, <1>4, <1>6, <2>1, <2>3
  <2>4. CASE j # k + 1
    <3>1. j \in 1 .. k
      BY <2>2, <2>4
    <3> QED
      BY <1>2, <1>4, <1>6, <2>1, <3>1 DEF MadeSays
  <2> QED
    BY <2>3, <2>4
<1>7. CASE m # n
  BY <1>5, <1>7 DEF MadeSays
<1> QED
  BY <1>6, <1>7

LEMMA SaysStill ==
  ASSUME Requiring, UNCHANGED <<cfg, made>>
  PROVE  MadeSays'
BY DEF Requiring, MadeSays

(* What pops without having worked on a module. *)
LEMMA SetReturns ==
  ASSUME Fit, Fit', Loading, Requiring, Popped, UNCHANGED <<cfg, current, crashed>>, MadeSays',
         Top.at \notin Working,
         Len(calls) # 1 /\ Loadable(Top.name) => current[Top.name] # 0
  PROVE  Requiring'
BY PopRequiring

LEMMA SetLoadedRequiring ==
  ASSUME Fit, Fit', Loading, Requiring, SetLoaded
  PROVE  Requiring'
BY SetReturns, SaysStill DEF SetLoaded, At, Popped, Return, Working

LEMMA SetDefaultRequiring ==
  ASSUME Fit, Fit', Loading, Requiring, SetDefault
  PROVE  Requiring'
<1>0. Running /\ Top.at = "set" /\ MadeSays' /\ UNCHANGED <<cfg, current>>
  BY SaysStill DEF SetDefault, At
<1>1. CASE cfg[Default] = NoEntry
  <2>1. Len(calls) = 1
    BY <1>0, TopLoads DEF SetDefault, Adding, Working
  <2> QED
    BY <1>0, <1>1, <2>1, SetReturns DEF SetDefault, Popped, Return, Working
<1>2. CASE cfg[Default] # NoEntry
  <2>1. PICK f \in Frame : f.at = "default" /\ f.name = Top.name /\ Nests(f, Default, "add")
    BY <1>2, SetDefaultShape
  <2>2. GoesTo(f) /\ (UNCHANGED crashed \/ calls' = <<>>) /\ ~Went(f)
    BY <2>1, NestsOrWent, ModulesAssumption
  <2> QED
    BY <1>0, <2>1, <2>2, GoRequiring DEF Keeps, Working
<1> QED
  BY <1>1, <1>2

LEMMA DefaultFailsRequiring ==
  ASSUME Fit, Fit', Loading, Requiring, DefaultFails
  PROVE  Requiring'
<1>1. /\ Running /\ Popped /\ Top.at = "default" /\ MadeSays'
      /\ UNCHANGED <<cfg, current, crashed>>
  BY SaysStill DEF DefaultFails, At, Popped, Return
<1>2. Len(calls) = 1
  BY <1>1, TopLoads
<1> QED
  BY <1>1, <1>2, SetReturns DEF Working

LEMMA SetDirRequiring ==
  ASSUME Fit, Fit', Loading, Requiring, SetDir
  PROVE  Requiring'
<1>1. PICK f \in Frame : f.at = "add" /\ f.name = Top.name /\ Went(f)
  BY SetDirShape
<1>2. /\ GoesTo(f) /\ Keeps /\ UNCHANGED <<current, crashed>> /\ MadeSays'
      /\ Top.at \notin Working
  BY <1>1, SetDirShape, SaysStill DEF GoesTo, Keeps, SetDir, Working
<1> QED
  BY <1>1, <1>2, GoRequiring

LEMMA SetOtherRequiring ==
  ASSUME Fit, Fit', Loading, Requiring, SetOther
  PROVE  Requiring'
<1>1. /\ Running /\ Popped /\ current[Default] # 0 /\ Top.name \in Name /\ Top.at \notin Working
      /\ UNCHANGED <<cfg, current, crashed>> /\ MadeSays'
  BY InSetOf, SaysStill DEF SetOther, Popped, Return, Adding
<1>2. Loadable(Top.name) => current[Top.name] # 0
  <2> SUFFICES ASSUME Top.name # Default PROVE ~Loadable(Top.name)
    BY <1>1
  <2>1. ~IsDir(Top.name) /\ ~IsArray(Top.name)
    BY DEF SetOther
  <2>2. cfg[Top.name] = NoEntry
    BY <1>1, <2>1, EntryIs DEF IsDir, IsArray, Fit
  <2> QED
    BY <2>2, LoadableIs
<1> QED
  BY <1>1, <1>2, SetReturns

LEMMA SetArrayRequiring ==
  ASSUME Fit, Fit', Loading, Requiring, SetArray
  PROVE  Requiring'
<1>1. PICK f \in Frame, n \in Name, at \in {"set", "add"} :
        f.name = Top.name /\ f.at \in {"alias", "added"} /\ Nests(f, n, at)
  BY SetArrayShape
<1>2. /\ GoesTo(f) /\ (UNCHANGED crashed \/ calls' = <<>>) /\ ~Went(f)
  BY <1>1, NestsOrWent
<1>3. Keeps /\ UNCHANGED current /\ MadeSays' /\ Top.at \notin Working
  BY SetArrayShape, SaysStill DEF Keeps, SetArray, Working
<1> QED
  BY <1>1, <1>2, <1>3, GoRequiring

LEMMA SetAliasedRequiring ==
  ASSUME Fit, Fit', Loading, Requiring, SetAliased
  PROVE  Requiring'
<1>1. /\ Running /\ Top.at = "alias" /\ Top.at \notin Working /\ IsArray(Top.name)
      /\ cfg[Top.name].base \in Name /\ current[Default] # 0
      /\ UNCHANGED <<cfg, current>> /\ MadeSays'
      /\ Given(cfg[Top.name].base, ret)
  BY SetAliasedShape, SaysStill DEF SetAliased, Working
<1>2. CASE ret = Error
  <2>1. Popped /\ UNCHANGED crashed
    BY <1>1, <1>2 DEF SetAliased, Return, Popped
  <2>2. PICK b \in Name : b = cfg[Top.name].base
    BY <1>1
  <2>3. current[b] = 0 /\ cfg[b] # NoEntry
    BY <1>1, <1>2, <2>2 DEF Given
  <2>4. ~Loadable(Top.name)
    <3> SUFFICES ASSUME Loadable(Top.name) PROVE FALSE
      OBVIOUS
    <3>1. Loadable(b)
      BY <1>1, <2>2, <2>3, LoadableIs, ModulesAssumption
    <3> QED
      BY <1>1, <2>2, <2>3, <3>1 DEF Requiring, GivenLoaded, At
  <2> QED
    BY <1>1, <2>1, <2>4, SetReturns
<1>3. CASE ret # Error
  <2>1. PICK f \in Frame, n \in Name :
          f.at = "added" /\ f.name = Top.name /\ n = Top.name /\ Nests(f, n, "add")
    BY <1>3, SetAliasedShape
  <2>2. /\ GoesTo(f) /\ (UNCHANGED crashed \/ calls' = <<>>) /\ ~Went(f)
    BY <2>1, NestsOrWent
  <2> QED
    BY <1>1, <2>1, <2>2, GoRequiring DEF Keeps
<1> QED
  BY <1>2, <1>3

LEMMA SetAddedRequiring ==
  ASSUME Fit, Fit', Loading, Requiring, SetAdded
  PROVE  Requiring'
<1>1. /\ Running /\ Top.at = "added" /\ Top.at \notin Working /\ Top.name \in Name
      /\ UNCHANGED <<cfg, current>> /\ Added(Top.name, ret)
      /\ Top.obj # Null => IsMade(Top.obj)
  BY TopIs DEF SetAdded, At, FrameFits, Frame, Loading, Returned, Working
<1>2. CASE ret \in Failures /\ Return(ret) /\ UNCHANGED made
  <2>1. ~Loadable(Top.name)
    BY <1>1, <1>2, LoadableIs DEF Added
  <2> QED
    BY <1>1, <1>2, <2>1, SetReturns, SaysStill DEF Return, Popped
<1>3. CASE Crash("null") /\ UNCHANGED made
  BY <1>1, <1>3, CrashRequiring, SaysStill DEF Crash
<1>4. CASE ret \notin Failures /\ Top.obj # Null /\ AddDefaults(ret, Top.obj) /\ Return(ret)
  <2>1. IsMade(ret) /\ ret = Obj(Top.name)
    BY <1>1, <1>4 DEF Fit, Objects, Added
  <2>2. MadeSays'
    BY <1>1, <1>4, <2>1, DefaultsSay DEF Requiring
  <2>3. current[Top.name] # 0
    BY <2>1 DEF IsMade, Object, Obj
  <2> QED
    BY <1>1, <1>4, <2>2, <2>3, SetReturns DEF Return, Popped
<1> QED
  BY <1>2, <1>3, <1>4 DEF SetAdded, Failures

LEMMA AddFailsRequiring ==
  ASSUME Fit, Fit', Loading, Requiring, AddFails
  PROVE  Requiring'
<1>1. /\ Running /\ Popped /\ Top.at \notin Working /\ ~Loadable(Top.name) /\ MadeSays'
      /\ UNCHANGED <<cfg, current, crashed>>
  BY LoadableIs, SaysStill DEF AddFails, At, Popped, Return, Working
<1> QED
  BY <1>1, SetReturns

LEMMA AddMakesRequiring ==
  ASSUME Fit, Fit', Loading, Requiring, AddMakes
  PROVE  Requiring'
<1>1. /\ Top.at \notin Working /\ Keeps /\ MadeSays'
      /\ \A m \in Name : m # Top.name => current'[m] = current[m]
  BY AddMakesShape, MakesSay DEF Requiring, Working
<1>2. CASE \E f \in Frame : /\ f.at = "requires" /\ f.name = Top.name
                            /\ f.rest = List(cfg[Top.name].requires) /\ Went(f)
  <2>1. PICK f \in Frame : /\ f.at = "requires" /\ f.name = Top.name
                           /\ f.rest = List(cfg[Top.name].requires) /\ Went(f)
    BY <1>2
  <2>2. \A r \in Required(f.name) : r \in Range(f.rest)
    BY <2>1 DEF Required
  <2>3. GoesTo(f) /\ f.at \in Working
    BY <2>1 DEF GoesTo, Working
  <2>4. UNCHANGED crashed \/ calls' = <<>>
    BY DEF AddMakes, Nest, Crash
  <2> QED
    BY <1>1, <2>1, <2>2, <2>3, <2>4, GoRequiring
<1>3. CASE \E b \in Name \ {Default}, f \in Frame :
             f.at = "base" /\ f.name = Top.name /\ Nests(f, b, "set")
  <2>1. PICK b \in Name, f \in Frame : f.at = "base" /\ f.name = Top.name /\ Nests(f, b, "set")
    BY <1>3
  <2>2. /\ GoesTo(f) /\ (UNCHANGED crashed \/ calls' = <<>>) /\ ~Went(f) /\ f.at \in Working
    BY <2>1, NestsOrWent DEF Working
  <2> QED
    BY <1>1, <2>1, <2>2, GoRequiring
<1> QED
  BY <1>2, <1>3, AddMakesShape

LEMMA BaseDoneRequiring ==
  ASSUME Fit, Fit', Loading, Requiring, BaseDone
  PROVE  Requiring'
<1>1. /\ Running /\ Top.at = "base" /\ Top.name \in Name
      /\ IsMade(Top.obj) /\ Top.obj.name = Top.name
      /\ Top.obj.nth \in 1 .. Len(made[Top.name])
      /\ cfg[Top.name].base \in Name \ {Default} /\ Given(cfg[Top.name].base, ret)
      /\ current[Top.name] # 0 /\ UNCHANGED <<cfg, current>>
  BY BaseDoneShape
<1>2. CASE ret = Error /\ Return(Top.obj) /\ UNCHANGED made
  <2>1. current[cfg[Top.name].base] = 0
    BY <1>1, <1>2 DEF Given
  <2>2. ~BaseGood(Top.name)
    BY <1>1, <2>1, ModulesAssumption DEF BaseGood, Requiring, GivenLoaded, At
  <2> QED
    BY <1>1, <1>2, <2>2, PopRequiring, SaysStill DEF Return, Popped
<1>3. CASE Crash("null") /\ UNCHANGED made
  BY <1>1, <1>3, CrashRequiring, SaysStill DEF Crash
<1>4. CASE ret \notin Failures /\ AddDefaults(Top.obj, ret)
  <2>1. IsMade(ret)
    BY <1>4 DEF Fit, Objects
  <2>2. MadeSays' /\ \A m \in Name : Len(made'[m]) = Len(made[m])
    BY <1>1, <1>4, <2>1, DefaultsSay, DefaultsAdded DEF Requiring, Fit
  <2>3. PICK f \in Frame : /\ f.at = "requires" /\ f.name = Top.name
                           /\ f.rest = List(made'[Top.name][Top.obj.nth])
                           /\ Went(f) /\ UNCHANGED crashed
    BY <1>4, BaseDoneShape
  <2>4. \A r \in Required(f.name) : r \in Range(f.rest)
    <3>1. CASE cfg[Top.name].requires = Unset
      BY <2>3, <3>1, NothingListed DEF Required
    <3>2. CASE cfg[Top.name].requires # Unset
      <4>1. made'[Top.name][Top.obj.nth] = cfg[Top.name].requires
        BY <1>1, <2>2, <3>2 DEF MadeSays
      <4> QED
        BY <2>3, <4>1 DEF Required
    <3> QED
      BY <3>1, <3>2
  <2> QED
    BY <1>1, <2>2, <2>3, <2>4, GoRequiring DEF GoesTo, Keeps, Working
<1> QED
  BY <1>2, <1>3, <1>4 DEF BaseDone, Failures

LEMMA RequireRequiring ==
  ASSUME Fit, Fit', Loading, Requiring, Require
  PROVE  Requiring'
<1>1. PICK r \in Name, f \in Frame : /\ f.at = "requires" /\ f.name = Top.name
                                     /\ Range(Top.rest) = Range(f.rest) \cup {r}
                                     /\ Nests(f, r, "set")
  BY RequireShape
<1>2. /\ GoesTo(f) /\ (UNCHANGED crashed \/ calls' = <<>>) /\ ~Went(f) /\ f.at \in Working
  BY <1>1, NestsOrWent DEF Working
<1>3. Running /\ Top.at = "requires" /\ UNCHANGED <<cfg, current>> /\ MadeSays'
  BY SaysStill DEF Require, At
<1>4. CASE calls' = <<>>
  <2>1. crashed' # "no"
    <3>1. ~Nested(f, Call(r, "set"))
      <4>1. PICK g \in Frame : g = Call(r, "set")
        BY CallIsFrame
      <4>2. Nested(f, g) => Len(calls') = Len(calls) + 1 /\ Len(calls) \in Nat
        BY NestedStack, TopFits, <1>3 DEF Fit, TypeOK
      <4> QED
        BY <1>4, <4>1, <4>2, EmptySeq
    <3> QED
      BY <1>1, <3>1 DEF Nests
  <2> QED
    BY <1>3, <1>4, <2>1, CrashRequiring
<1>5. CASE calls' # <<>>
  <2>1. Nested(f, Call(r, "set"))
    BY <1>1, <1>5 DEF Nests
  <2>2. ASSUME NEW q \in Required(f.name)
        PROVE  current[q] # 0 \/ q \in Range(f.rest) \/ q = r
    <3>1. Len(calls) \in 1 .. Len(calls) /\ Top = calls[Len(calls)]
      BY <1>3, TopFits DEF Fit, TypeOK, Top
    <3>2. current[q] # 0 \/ q \in Range(Top.rest)
      BY <1>1, <1>3, <2>2, <3>1 DEF Requiring, Doing
    <3> QED
      BY <1>1, <3>2
  <2> QED
    BY <1>1, <1>2, <1>3, <2>1, <2>2, GoRequiring DEF Keeps
<1> QED
  BY <1>4, <1>5

LEMMA AddDoneRequiring ==
  ASSUME Fit, Fit', Loading, Requiring, AddDone
  PROVE  Requiring'
<1>1. /\ Running /\ Popped /\ Top.at = "requires" /\ Top.rest = <<>> /\ MadeSays'
      /\ UNCHANGED <<cfg, current, crashed>>
  BY SaysStill DEF AddDone, At, Popped, Return
<1>2. PICK k \in Nat \ {0} : k = Len(calls) /\ Top = calls[k]
  BY <1>1, TopFits DEF Fit, TypeOK, Top
<1>3. current[Top.name] # 0
  BY <1>1, <1>2, WorkingIsLoaded DEF Working
<1>4. AllLoaded(Required(Top.name))
  <2> SUFFICES ASSUME NEW r \in Required(Top.name) PROVE current[r] # 0
    BY DEF AllLoaded
  <2>1. current[r] # 0 \/ r \in Range(Top.rest)
    BY <1>1, <1>2 DEF Requiring, Doing
  <2> QED
    BY <1>1, <2>1, NothingListed
<1> QED
  BY <1>1, <1>3, <1>4, PopRequiring

LEMMA StartRequiring ==
  ASSUME Fit', Requiring, calls = <<>>, NEW n \in Name, calls' = <<Call(n, "set")>>,
         UNCHANGED <<cfg, made, current, crashed>>, crashed = "no"
  PROVE  Requiring'
<1>1. PICK f \in Frame : f = Call(n, "set") /\ f.at = "set" /\ f.name = n
  BY CallIsFrame
<1>2. Len(calls') = 1 /\ calls'[1] = f /\ Top' = f /\ Len(calls) = 0
  BY <1>1, EmptySeq DEF Top
<1>3. GivenLoaded' /\ Doing'
  BY <1>1, <1>2 DEF GivenLoaded, Doing, At
<1>4. ASSUME NEW m \in Name PROVE Done(m)'
  <2>1. Done(m) /\ ~IsWorkedOn(m)
    BY <1>2 DEF Requiring, IsWorkedOn
  <2> QED
    BY <2>1, SaysTheSame DEF Done, AllLoaded
<1> QED
  BY <1>3, <1>4, SaysStill DEF Requiring

LEMMA NewRequestRequiring ==
  ASSUME NewRequest
  PROVE  Requiring'
<1>1. /\ Len(calls') = 0 /\ calls' = <<>>
      /\ \A n \in Name : current'[n] = 0 /\ Len(made'[n]) = 0
  BY EmptySeq DEF NewRequest
<1> QED
  BY <1>1 DEF Requiring, MadeSays, GivenLoaded, Doing, Done, At, Running

LEMMA RequiringStep ==
  ASSUME Fit, Fit', Loading, Requiring, [Next]_vars
  PROVE  Requiring'
<1>1. CASE UNCHANGED vars
  <2>1. UNCHANGED <<cfg, made, current, calls, ret, crashed>>
    BY <1>1 DEF vars
  <2>2. MadeSays' /\ Doing' /\ GivenLoaded'
    BY <2>1, SaysStill, SaysTheSame DEF Requiring, Doing, GivenLoaded, At, Running, Top
  <2>3. \A n \in Name : Done(n)' <=> Done(n)
    BY <2>1, SaysTheSame DEF Done, AllLoaded, IsWorkedOn
  <2> QED
    BY <2>1, <2>2, <2>3 DEF Requiring
<1>2. ASSUME NEW n \in Name, SetModule(n) PROVE Requiring'
  BY <1>2, StartRequiring DEF SetModule, Idle
<1>3. ASSUME NEW n \in Name, Dispatch(n) PROVE Requiring'
  BY <1>3, StartRequiring DEF Dispatch, Idle
<1>4. CASE SetAgain
  <2>1. PICK n \in Name : n = again
    BY <1>4 DEF SetAgain, Fit, TypeOK
  <2> QED
    BY <1>4, <2>1, StartRequiring DEF SetAgain
<1> QED
  BY <1>1, <1>2, <1>3, <1>4, SetLoadedRequiring, SetDefaultRequiring,
     DefaultFailsRequiring, SetDirRequiring, SetOtherRequiring, SetArrayRequiring,
     SetAliasedRequiring, SetAddedRequiring, AddFailsRequiring, AddMakesRequiring,
     BaseDoneRequiring, RequireRequiring, AddDoneRequiring, NewRequestRequiring DEF Next, Step
-----------------------------------------------------------------------------
(***************************************************************************)
(* The fifth part of the invariant: the names that a call leads to.        *)
(***************************************************************************)
Closures == {T \in SUBSET Name : /\ Uses(Default) \subseteq T
                                 /\ \A m \in T : Uses(m) \subseteq T}

Straight(n) == /\ \E T \in Closures : Uses(n) \subseteq T /\ n \notin T
               /\ ~(n = Default /\ IsArray(n))

MadeIn ==
  \A T \in Closures, n \in Name : Uses(n) \subseteq T =>
    \A k \in 1 .. Len(made[n]) : Range(List(made[n][k])) \subseteq T

RestIn ==
  \A T \in Closures, i \in 1 .. Len(calls) :
    calls[i].at = "requires" /\ Uses(calls[i].name) \subseteq T
      => Range(calls[i].rest) \subseteq T

Inside ==
  \A T \in Closures, i, j \in 1 .. Len(calls) :
    i < j /\ calls[i].at \in {"alias", "default"} /\ Uses(calls[i].name) \subseteq T
      => calls[j].name \in T \cup {Default}

Before(f) == f.at \in {"alias", "add"} \/ (f.at = "default" /\ f.name # Default)

NotYet ==
  \A i \in 1 .. Len(calls) :
    Before(calls[i]) /\ Straight(calls[i].name) => current[calls[i].name] = 0

Single == /\ MadeIn /\ RestIn /\ Inside /\ NotYet
          /\ \A n \in Name : Straight(n) => current[n] <= 1

LEMMA UsesTheSame ==
  ASSUME cfg' = cfg
  PROVE  /\ \A n : Uses(n)' = Uses(n)
         /\ Closures' = Closures
         /\ \A n : Straight(n)' <=> Straight(n)
<1>1. \A n : Uses(n)' = Uses(n)
  BY DEF Uses
<1>2. Closures' = Closures
  BY <1>1 DEF Closures
<1> QED
  BY <1>1, <1>2 DEF Straight, IsArray

LEMMA InClosure ==
  ASSUME NEW T \in Closures, NEW n \in T \cup {Default}
  PROVE  Uses(n) \subseteq T
BY DEF Closures

LEMMA PopSingle ==
  ASSUME Fit, Single, Popped, UNCHANGED <<cfg, current>>, MadeIn'
  PROVE  Single'
<1>1. /\ Len(calls') = Len(calls) - 1 /\ Len(calls) \in Nat
      /\ \A i \in 1 .. Len(calls') : calls'[i] = calls[i]
  BY PoppedStack DEF Fit, TypeOK
<1>2. RestIn' /\ Inside' /\ NotYet'
  BY <1>1, UsesTheSame DEF Single, RestIn, Inside, NotYet, Before
<1> QED
  BY <1>2, UsesTheSame DEF Single

LEMMA CrashSingle ==
  ASSUME Single, calls' = <<>>, UNCHANGED <<cfg, current>>, MadeIn'
  PROVE  Single'
<1>1. Len(calls') = 0
  BY EmptySeq
<1> QED
  BY <1>1, UsesTheSame DEF Single, RestIn, Inside, NotYet

CurrentGoes ==
  \/ current' = current
  \/ /\ Top.at = "add"
     /\ current'[Top.name] = current[Top.name] + 1
     /\ \A m \in Name : m # Top.name => current'[m] = current[m]

(* A module that is made while it is called under an alias of its own has  *)
(* come back to itself.                                                    *)
LEMMA NotBeforeMade ==
  ASSUME Fit, Single, Running, Top.at = "add", NEW i \in 1 .. Len(calls) - 1,
         Before(calls[i]), Straight(calls[i].name)
  PROVE  calls[i].name # Top.name
<1> SUFFICES ASSUME calls[i].name = Top.name PROVE FALSE
  OBVIOUS
<1>1. PICK k \in Nat \ {0} : k = Len(calls) /\ Top = calls[k]
  BY TopFits DEF Fit, TypeOK, Top
<1>2. /\ Adjacent(calls[i], calls[i + 1]) /\ FrameFits(calls[i]) /\ calls[i] \in Frame
      /\ i \in 1 .. k /\ k \in 1 .. k /\ i < k
  BY <1>1 DEF Fit, Stacked, FramesFit, TypeOK
<1>3. calls[i].at \in {"alias", "default"}
  BY <1>2 DEF Adjacent, Before
<1>4. PICK T \in Closures : Uses(calls[i].name) \subseteq T /\ calls[i].name \notin T
  BY DEF Straight
<1>5. Top.name \in T \cup {Default}
  BY <1>1, <1>2, <1>3, <1>4 DEF Single, Inside
<1>6. Top.name = Default /\ calls[i].at = "alias" /\ IsArray(calls[i].name)
  BY <1>2, <1>3, <1>4, <1>5 DEF Before, FrameFits
<1> QED
  BY <1>6 DEF Straight

LEMMA GoSingle ==
  ASSUME Fit, Fit', Single, Running, cfg' = cfg, MadeIn', CurrentGoes,
         NEW f \in Frame, NEW n \in Name, NEW at \in {"set", "add"},
         Went(f) \/ Nests(f, n, at), f.name = Top.name,
         f.at = "requires" =>
           \A T \in Closures : Uses(f.name) \subseteq T => Range(f.rest) \subseteq T,
         \/ \A T \in Closures : Uses(f.name) \subseteq T => n \in T \cup {Default}
         \/ f.at = "added" /\ n = f.name,
         Before(f) /\ Straight(f.name) => current'[f.name] = 0,
         at = "add" /\ Straight(n) => current'[n] = 0
  PROVE  Single'
<1>0. PICK k \in Nat \ {0} : k = Len(calls) /\ Top = calls[k] /\ calls \in Seq(Frame)
  BY TopFits DEF Fit, TypeOK, Top
<1>1. PICK g \in Frame : g = Call(n, at) /\ g.name = n /\ g.at = at
  BY CallIsFrame
<1>2. CASE calls' = <<>>
  <2>1. Len(calls') = 0
    BY <1>2, EmptySeq
  <2>2. RestIn' /\ Inside' /\ NotYet'
    BY <2>1 DEF RestIn, Inside, NotYet
  <2>3. ASSUME NEW m \in Name, Straight(m) PROVE current'[m] <= 1
    <3>1. current[m] <= 1 /\ current[m] \in Nat
      BY <2>3 DEF Single, Fit, TypeOK
    <3>2. Top.at = "add" /\ m = Top.name => current[m] = 0
      BY <1>0, <2>3 DEF Single, NotYet, Before
    <3> QED
      BY <3>1, <3>2 DEF CurrentGoes
  <2> QED
    BY <2>2, <2>3, UsesTheSame DEF Single
<1>3. CASE calls' # <<>>
  <2>1. /\ \A i \in 1 .. k - 1 : calls'[i] = calls[i]
        /\ calls'[k] = f
        /\ \/ Len(calls') = k
           \/ Len(calls') = k + 1 /\ calls'[k + 1] = g
    <3>1. CASE Went(f)
      BY <1>0, <3>1, WentStack
    <3>2. CASE Nested(f, g)
      BY <1>0, <3>2, NestedStack
    <3> QED
      BY <1>1, <1>3, <3>1, <3>2 DEF Nests
  <2>2. RestIn'
    <3> SUFFICES ASSUME NEW T \in Closures, NEW i \in 1 .. Len(calls'),
                        calls'[i].at = "requires", Uses(calls'[i].name) \subseteq T
                 PROVE  Range(calls'[i].rest) \subseteq T
      BY UsesTheSame DEF RestIn
    <3>1. CASE i \in 1 .. k - 1
      BY <1>0, <2>1, <3>1 DEF Single, RestIn
    <3>2. CASE i = k
      BY <2>1, <3>2
    <3>3. CASE i = k + 1 /\ Len(calls') = k + 1
      BY <1>1, <2>1, <3>3
    <3> QED
      BY <2>1, <3>1, <3>2, <3>3
  <2>3. Inside'
    <3> SUFFICES ASSUME NEW T \in Closures, NEW i \in 1 .. Len(calls'), NEW j \in 1 .. Len(calls'),
                        i < j, calls'[i].at \in {"alias", "default"},
                        Uses(calls'[i].name) \subseteq T
                 PROVE  calls'[j].name \in T \cup {Default}
      BY UsesTheSame DEF Inside
    <3>1. i \in 1 .. k
      BY <2>1
    <3>2. CASE j \in 1 .. k
      <4>1. i \in 1 .. k - 1 /\ calls'[j].name = calls[j].name
        BY <1>0, <2>1, <3>2
      <4> QED
        BY <1>0, <2>1, <3>2, <4>1 DEF Single, Inside
    <3>3. CASE j = k + 1 /\ Len(calls') = k + 1
      <4>1. calls'[j] = g
        BY <2>1, <3>3
      <4>2. CASE i = k
        BY <1>1, <2>1, <4>1, <4>2
      <4>3. CASE i \in 1 .. k - 1
        <5>1. Top.name \in T \cup {Default}
          BY <1>0, <2>1, <4>3 DEF Single, Inside
        <5> QED
          BY <1>1, <4>1, <5>1, InClosure
      <4> QED
        BY <3>1, <4>2, <4>3
    <3> QED
      BY <2>1, <3>2, <3>3
  <2>4. NotYet'
    <3> SUFFICES ASSUME NEW i \in 1 .. Len(calls'), Before(calls'[i]), Straight(calls'[i].name)
                 PROVE  current'[calls'[i].name] = 0
      BY UsesTheSame DEF NotYet, Before
    <3>1. CASE i \in 1 .. k - 1
      <4>1. calls'[i] = calls[i] /\ i \in 1 .. Len(calls) /\ calls[i].name \in Name
        <5>1. calls'[i] = calls[i] /\ i \in 1 .. Len(calls)
          BY <1>0, <2>1, <3>1
        <5>2. calls[i] \in Frame
          BY <1>0, <5>1, ElementOfSeq
        <5> QED
          BY <5>1, <5>2 DEF Frame
      <4>2. current[calls[i].name] = 0
        BY <4>1 DEF Single, NotYet
      <4>3. Top.at = "add" => calls[i].name # Top.name
        BY <1>0, <3>1, <4>1, NotBeforeMade
      <4> QED
        BY <4>1, <4>2, <4>3 DEF CurrentGoes
    <3>2. CASE i = k
      BY <2>1, <3>2
    <3>3. CASE i = k + 1 /\ Len(calls') = k + 1
      BY <1>1, <2>1, <3>3 DEF Before
    <3> QED
      BY <2>1, <3>1, <3>2, <3>3
  <2>5. ASSUME NEW m \in Name, Straight(m) PROVE current'[m] <= 1
    <3>1. current[m] <= 1 /\ current[m] \in Nat
      BY <2>5 DEF Single, Fit, TypeOK
    <3>2. Top.at = "add" /\ m = Top.name => current[m] = 0
      BY <1>0, <2>5 DEF Single, NotYet, Before
    <3> QED
      BY <3>1, <3>2 DEF CurrentGoes
  <2> QED
    BY <2>2, <2>3, <2>4, <2>5, UsesTheSame DEF Single
<1> QED
  BY <1>2, <1>3

LEMMA UsesIs ==
  ASSUME NEW n \in Name, cfg[n] # NoEntry
  PROVE  /\ cfg[n].base \in Name => cfg[n].base \in Uses(n)
         /\ Range(List(cfg[n].requires)) \subseteq Uses(n)
BY DEF Uses

LEMMA MadeStillIn ==
  ASSUME Single, UNCHANGED <<cfg, made>>
  PROVE  MadeIn'
BY UsesTheSame DEF Single, MadeIn

LEMMA DefaultsIn ==
  ASSUME Fit, MadeIn, cfg' = cfg, NEW o, NEW from, IsMade(o), IsMade(from), AddDefaults(o, from),
         \A T \in Closures : Uses(o.name) \subseteq T => Uses(from.name) \subseteq T
  PROVE  MadeIn'
<1>1. PICK n \in Name : n = o.name
  BY DEF IsMade, Object
<1>2. PICK k \in Nat \ {0} : k = o.nth /\ k <= Len(made[n])
  BY <1>1 DEF IsMade, Object
<1>3. PICK s \in Seq(Lists \cup {Unset}) : s = made[n] /\ k \in 1 .. Len(s)
  BY <1>2 DEF Fit, TypeOK
<1>4. PICK v : v = IF s[k] = Unset THEN made[from.name][from.nth] ELSE s[k]
  OBVIOUS
<1>5. made' = [made EXCEPT ![n] = [s EXCEPT ![k] = v]]
  BY <1>1, <1>2, <1>3, <1>4 DEF AddDefaults
<1>6. \A m \in Name : Len(made'[m]) = Len(made[m])
  BY DefaultsAdded DEF Fit
<1> SUFFICES ASSUME NEW T \in Closures, NEW m \in Name, Uses(m) \subseteq T,
                    NEW j \in 1 .. Len(made[m])
             PROVE  Range(List(made'[m][j])) \subseteq T
  BY <1>6, UsesTheSame DEF MadeIn
<1>7. CASE m = n /\ j = k
  <2>1. made'[m] = [s EXCEPT ![k] = v]
    BY <1>5, <1>7 DEF Fit, TypeOK
  <2>2. made'[m][j] = v
    BY <1>3, <1>7, <2>1
  <2>3. Range(List(s[k])) \subseteq T
    BY <1>3, <1>7 DEF MadeIn
  <2>4. /\ from.name \in Name /\ Uses(from.name) \subseteq T
        /\ from.nth \in 1 .. Len(made[from.name])
    <3>1. /\ from.name \in Name /\ from.nth \in Nat \ {0}
          /\ from.nth <= Len(made[from.name])
      BY DEF IsMade, Object
    <3>2. Len(made[from.name]) \in Nat
      BY <3>1 DEF Fit, TypeOK
    <3> QED
      BY <1>1, <1>7, <3>1, <3>2
  <2>5. Range(List(made[from.name][from.nth])) \subseteq T
    BY <2>4 DEF MadeIn
  <2> QED
    BY <1>4, <2>2, <2>3, <2>5
<1>8. CASE m = n /\ j # k
  <2>1. made'[m] = [s EXCEPT ![k] = v]
    BY <1>5, <1>8 DEF Fit, TypeOK
  <2>2. made'[m][j] = made[m][j]
    BY <1>3, <1>8, <2>1
  <2> QED
    BY <2>2 DEF MadeIn
<1>9. CASE m # n
  <2>1. made'[m][j] = made[m][j]
    BY <1>5, <1>9 DEF Fit, TypeOK
  <2> QED
    BY <2>1 DEF MadeIn
<1> QED
  BY <1>7, <1>8, <1>9

LEMMA MakesIn ==
  ASSUME Fit, Loading, MadeIn, AddMakes
  PROVE  MadeIn'
<1>1. PICK n \in Name : /\ n = Top.name /\ cfg[n] # NoEntry
                        /\ made' = [made EXCEPT ![n] = Append(@, cfg[n].requires)]
  BY AddMakesShape
<1>2. PICK s \in Seq(Lists \cup {Unset}) : s = made[n]
  BY DEF Fit, TypeOK
<1>3. PICK q \in Lists \cup {Unset} : q = cfg[n].requires
  BY <1>1, EntryIs DEF Fit
<1>4. /\ made'[n] = Append(s, q) /\ Len(Append(s, q)) = Len(s) + 1
      /\ \A i \in 1 .. Len(s) : Append(s, q)[i] = s[i]
      /\ Append(s, q)[Len(s) + 1] = q
  BY <1>1, <1>2, <1>3, AppendProperties DEF Fit, TypeOK
<1>5. cfg' = cfg /\ \A m \in Name : m # n => made'[m] = made[m]
  BY <1>1 DEF AddMakes, Fit, TypeOK
<1> SUFFICES ASSUME NEW T \in Closures, NEW m \in Name, Uses(m) \subseteq T,
                    NEW j \in 1 .. Len(made'[m])
             PROVE  Range(List(made'[m][j])) \subseteq T
  BY <1>5, UsesTheSame DEF MadeIn
<1>6. CASE m = n
  <2>1. PICK k \in Nat : k = Len(s)
    BY <1>2
  <2>2. j \in 1 .. k + 1
    BY <1>4, <1>6, <2>1
  <2>3. CASE j = k + 1
    <3>1. made'[m][j] = cfg[n].requires
      BY <1>3, <1>4, <1>6, <2>1, <2>3
    <3> QED
      BY <1>1, <1>6, <3>1, UsesIs
  <2>4. CASE j # k + 1
    <3>1. j \in 1 .. k
      BY <2>2, <2>4
    <3>2. made'[m][j] = made[m][j] /\ j \in 1 .. Len(made[m])
      BY <1>2, <1>4, <1>6, <2>1, <3>1
    <3> QED
      BY <3>2 DEF MadeIn
  <2> QED
    BY <2>3, <2>4
<1>7. CASE m # n
  BY <1>5, <1>7 DEF MadeIn
<1> QED
  BY <1>6, <1>7

LEMMA SetLoadedSingle ==
  ASSUME Fit, Single, SetLoaded
  PROVE  Single'
BY PopSingle, MadeStillIn DEF SetLoaded, At, Popped, Return

LEMMA SetDefaultSingle ==
  ASSUME Fit, Fit', Loading, Single, SetDefault
  PROVE  Single'
<1>0. Running /\ MadeIn' /\ UNCHANGED <<cfg, current>>
  BY MadeStillIn DEF SetDefault, At
<1>1. CASE cfg[Default] = NoEntry
  BY <1>0, <1>1, PopSingle DEF SetDefault, Popped, Return
<1>2. CASE cfg[Default] # NoEntry
  <2>1. PICK f \in Frame : f.at = "default" /\ f.name = Top.name /\ Nests(f, Default, "add")
    BY <1>2, SetDefaultShape
  <2>2. current[Top.name] = 0 /\ current[Default] = 0 /\ Default \in Name
    BY <1>2, SetDefaultShape
  <2> QED
    BY <1>0, <2>1, <2>2, GoSingle DEF CurrentGoes
<1> QED
  BY <1>1, <1>2

LEMMA DefaultFailsSingle ==
  ASSUME Fit, Single, DefaultFails
  PROVE  Single'
BY PopSingle, MadeStillIn DEF DefaultFails, At, Popped, Return

(* What setModule goes on with is not loaded, unless it is the default.    *)
LEMMA SetIsBefore ==
  ASSUME Fit, Single, Running, Top.at \in {"set", "default"},
         Top.at = "set" => current[Top.name] = 0,
         Top.name # Default \/ IsArray(Top.name), Straight(Top.name)
  PROVE  current[Top.name] = 0
<1>1. PICK k \in Nat \ {0} : k = Len(calls) /\ Top = calls[k]
  BY TopFits DEF Fit, TypeOK, Top
<1>2. CASE Top.at = "default"
  <2>1. Top.name # Default
    BY DEF Straight
  <2> QED
    BY <1>1, <1>2, <2>1 DEF Single, NotYet, Before
<1> QED
  BY <1>2

LEMMA SetDirSingle ==
  ASSUME Fit, Fit', Loading, Single, SetDir
  PROVE  Single'
<1>1. PICK f \in Frame : f.at = "add" /\ f.name = Top.name /\ Went(f)
  BY SetDirShape
<1>2. Running /\ MadeIn' /\ UNCHANGED <<cfg, current>>
  BY MadeStillIn, SetDirShape DEF SetDir
<1>3. Straight(f.name) => current[f.name] = 0
  BY <1>1, SetDirShape, SetIsBefore
<1> QED
  BY <1>1, <1>2, <1>3, GoSingle, ModulesAssumption DEF CurrentGoes

LEMMA SetOtherSingle ==
  ASSUME Fit, Single, SetOther
  PROVE  Single'
BY PopSingle, MadeStillIn, InSetOf DEF SetOther, Popped, Return

LEMMA SetArraySingle ==
  ASSUME Fit, Fit', Loading, Single, SetArray
  PROVE  Single'
<1>1. /\ Running /\ MadeIn' /\ UNCHANGED <<cfg, current>> /\ Top.name \in Name
      /\ cfg[Top.name] # NoEntry /\ CurrentGoes
  BY MadeStillIn, SetArrayShape DEF SetArray, CurrentGoes
<1>2. Straight(Top.name) => current[Top.name] = 0
  BY SetArrayShape, SetIsBefore
<1>3. CASE \E f \in Frame : /\ f.at = "added" /\ f.name = Top.name
                            /\ Nests(f, Top.name, "add")
  <2>1. PICK f \in Frame : /\ f.at = "added" /\ f.name = Top.name
                           /\ Nests(f, Top.name, "add")
    BY <1>3
  <2>2. PICK n \in Name : n = Top.name
    BY <1>1
  <2> QED
    BY <1>1, <1>2, <2>1, <2>2, GoSingle
<1>4. CASE \E b \in Name, f \in Frame : /\ b = cfg[Top.name].base /\ f.at = "alias"
                                        /\ f.name = Top.name /\ Nests(f, b, "set")
  <2>1. PICK b \in Name, f \in Frame : /\ b = cfg[Top.name].base /\ f.at = "alias"
                                       /\ f.name = Top.name /\ Nests(f, b, "set")
    BY <1>4
  <2>2. b \in Uses(f.name)
    BY <1>1, <2>1, UsesIs
  <2> QED
    BY <1>1, <1>2, <2>1, <2>2, GoSingle
<1> QED
  BY <1>3, <1>4, SetArrayShape

LEMMA SetAliasedSingle ==
  ASSUME Fit, Fit', Loading, Single, SetAliased
  PROVE  Single'
<1>1. /\ Running /\ Top.at = "alias" /\ MadeIn' /\ UNCHANGED <<cfg, current>> /\ Top.name \in Name
      /\ CurrentGoes
  BY MadeStillIn, SetAliasedShape DEF SetAliased, CurrentGoes
<1>2. CASE ret = Error
  BY <1>1, <1>2, PopSingle DEF SetAliased, Popped, Return
<1>3. CASE ret # Error
  <2>1. PICK n \in Name, f \in Frame :
          n = Top.name /\ f.at = "added" /\ f.name = Top.name /\ Nests(f, n, "add")
    BY <1>3, SetAliasedShape
  <2>2. Len(calls) \in 1 .. Len(calls) /\ Top = calls[Len(calls)]
    BY <1>1, TopFits DEF Fit, TypeOK, Top
  <2>3. Straight(n) => current[n] = 0
    BY <1>1, <2>1, <2>2 DEF Single, NotYet, Before
  <2> QED
    BY <1>1, <2>1, <2>3, GoSingle DEF Before
<1> QED
  BY <1>2, <1>3

LEMMA SetAddedSingle ==
  ASSUME Fit, Loading, Single, SetAdded
  PROVE  Single'
<1>1. /\ Running /\ Top.at = "added" /\ Top.name \in Name /\ IsArray(Top.name)
      /\ UNCHANGED <<cfg, current>> /\ Added(Top.name, ret)
      /\ Top.obj # Null => IsMade(Top.obj) /\ Top.obj.name \in {cfg[Top.name].base, Default}
  BY TopIs, TopLoads DEF SetAdded, At, FrameFits, FrameLoads, Frame, Loading, Returned
<1>2. CASE Return(ret) /\ UNCHANGED made
  BY <1>1, <1>2, PopSingle, MadeStillIn DEF Return, Popped
<1>3. CASE Crash("null") /\ UNCHANGED made
  BY <1>1, <1>3, CrashSingle, MadeStillIn DEF Crash
<1>4. CASE ret \notin Failures /\ Top.obj # Null /\ AddDefaults(ret, Top.obj) /\ Return(ret)
  <2>1. IsMade(ret) /\ ret = Obj(Top.name) /\ ret.name = Top.name
    BY <1>1, <1>4 DEF Fit, Objects, Added, Obj
  <2>2. Top.obj.name \in Uses(Top.name) \cup {Default}
    <3>1. Top.obj.name \in Name /\ cfg[Top.name] # NoEntry
      BY <1>1, <1>4 DEF IsMade, Object, IsArray
    <3> QED
      BY <1>1, <1>4, <3>1, UsesIs
  <2>3. \A T \in Closures : Uses(ret.name) \subseteq T => Uses(Top.obj.name) \subseteq T
    BY <2>1, <2>2, InClosure
  <2>4. MadeIn'
    BY <1>1, <1>4, <2>1, <2>3, DefaultsIn DEF Single
  <2> QED
    BY <1>1, <1>4, <2>4, PopSingle DEF Return, Popped
<1> QED
  BY <1>2, <1>3, <1>4 DEF SetAdded, Failures

LEMMA AddFailsSingle ==
  ASSUME Fit, Single, AddFails
  PROVE  Single'
BY PopSingle, MadeStillIn DEF AddFails, At, Popped, Return

LEMMA AddMakesSingle ==
  ASSUME Fit, Fit', Loading, Single, AddMakes
  PROVE  Single'
<1>1. /\ Running /\ Top.at = "add" /\ MadeIn' /\ cfg' = cfg /\ Top.name \in Name
      /\ cfg[Top.name] # NoEntry
  BY MakesIn, AddMakesShape DEF AddMakes, Single
<1>2. CurrentGoes
  <2>1. current[Top.name] = Len(made[Top.name]) /\ current[Top.name] \in Nat
    BY <1>1 DEF Fit, Numbers, TypeOK
  <2>2. current' = [current EXCEPT ![Top.name] = Len(made[Top.name]) + 1]
    BY AddMakesShape
  <2> QED
    BY <1>1, <2>1, <2>2, AddMakesShape DEF CurrentGoes, Fit, TypeOK
<1>3. CASE \E f \in Frame : /\ f.at = "requires" /\ f.name = Top.name
                            /\ f.rest = List(cfg[Top.name].requires) /\ Went(f)
  <2>1. PICK f \in Frame : /\ f.at = "requires" /\ f.name = Top.name
                           /\ f.rest = List(cfg[Top.name].requires) /\ Went(f)
    BY <1>3
  <2>2. Range(f.rest) \subseteq Uses(f.name)
    BY <1>1, <2>1, UsesIs
  <2> QED
    BY <1>1, <1>2, <2>1, <2>2, GoSingle, ModulesAssumption DEF Before
<1>4. CASE \E b \in Name, f \in Frame : /\ b = cfg[Top.name].base /\ f.at = "base"
                                        /\ f.name = Top.name /\ Nests(f, b, "set")
  <2>1. PICK b \in Name, f \in Frame : /\ b = cfg[Top.name].base /\ f.at = "base"
                                       /\ f.name = Top.name /\ Nests(f, b, "set")
    BY <1>4
  <2>2. b \in Uses(f.name)
    BY <1>1, <2>1, UsesIs
  <2> QED
    BY <1>1, <1>2, <2>1, <2>2, GoSingle DEF Before
<1> QED
  BY <1>3, <1>4, AddMakesShape

LEMMA BaseDoneSingle ==
  ASSUME Fit, Fit', Loading, Single, BaseDone
  PROVE  Single'
<1>1. /\ Running /\ Top.at = "base" /\ Top.name \in Name
      /\ IsMade(Top.obj) /\ Top.obj.name = Top.name
      /\ Top.obj.nth \in 1 .. Len(made[Top.name])
      /\ cfg[Top.name].base \in Name /\ Given(cfg[Top.name].base, ret)
      /\ UNCHANGED <<cfg, current>>
  BY BaseDoneShape
<1>2. CASE Return(Top.obj) /\ UNCHANGED made
  BY <1>1, <1>2, PopSingle, MadeStillIn DEF Return, Popped
<1>3. CASE Crash("null") /\ UNCHANGED made
  BY <1>1, <1>3, CrashSingle, MadeStillIn DEF Crash
<1>4. CASE ret \notin Failures /\ AddDefaults(Top.obj, ret)
  <2>1. IsMade(ret) /\ ret.name \in {cfg[Top.name].base, Default}
    BY <1>1, <1>4 DEF Fit, Objects, Given
  <2>2. cfg[Top.name] # NoEntry
    BY <1>1, TopIs DEF FrameFits, Adding, Working
  <2>3. \A T \in Closures : Uses(Top.obj.name) \subseteq T => Uses(ret.name) \subseteq T
    BY <1>1, <2>1, <2>2, UsesIs, InClosure
  <2>4. MadeIn' /\ \A m \in Name : Len(made'[m]) = Len(made[m])
    BY <1>1, <1>4, <2>1, <2>3, DefaultsIn, DefaultsAdded DEF Single, Fit
  <2>5. PICK f \in Frame : /\ f.at = "requires" /\ f.name = Top.name
                           /\ f.rest = List(made'[Top.name][Top.obj.nth])
                           /\ Went(f) /\ UNCHANGED crashed
    BY <1>4, BaseDoneShape
  <2>6. \A T \in Closures : Uses(f.name) \subseteq T => Range(f.rest) \subseteq T
    BY <1>1, <2>4, <2>5, UsesTheSame DEF MadeIn
  <2> QED
    BY <1>1, <2>4, <2>5, <2>6, GoSingle, ModulesAssumption DEF CurrentGoes, Before
<1> QED
  BY <1>2, <1>3, <1>4 DEF BaseDone, Failures

LEMMA RequireSingle ==
  ASSUME Fit, Fit', Loading, Single, Require
  PROVE  Single'
<1>1. PICK r \in Name, f \in Frame : /\ f.at = "requires" /\ f.name = Top.name
                                     /\ Range(Top.rest) = Range(f.rest) \cup {r}
                                     /\ Nests(f, r, "set")
  BY RequireShape
<1>2. Running /\ Top.at = "requires" /\ UNCHANGED <<cfg, current>> /\ MadeIn' /\ CurrentGoes
  BY MadeStillIn DEF Require, At, CurrentGoes
<1>3. Len(calls) \in 1 .. Len(calls) /\ Top = calls[Len(calls)]
  BY <1>2, TopFits DEF Fit, TypeOK, Top
<1>4. \A T \in Closures : Uses(f.name) \subseteq T => Range(f.rest) \subseteq T /\ r \in T
  BY <1>1, <1>2, <1>3 DEF Single, RestIn
<1> QED
  BY <1>1, <1>2, <1>4, GoSingle DEF Before

LEMMA AddDoneSingle ==
  ASSUME Fit, Single, AddDone
  PROVE  Single'
BY PopSingle, MadeStillIn DEF AddDone, At, Popped, Return

LEMMA StartSingle ==
  ASSUME Single, NEW n \in Name, calls' = <<Call(n, "set")>>, UNCHANGED <<cfg, made, current>>
  PROVE  Single'
<1>1. PICK f \in Frame : f = Call(n, "set") /\ f.at = "set" /\ f.name = n
  BY CallIsFrame
<1>2. Len(calls') = 1 /\ calls'[1] = f
  BY <1>1
<1>3. RestIn' /\ Inside' /\ NotYet'
  BY <1>1, <1>2 DEF RestIn, Inside, NotYet, Before
<1> QED
  BY <1>3, MadeStillIn, UsesTheSame DEF Single

LEMMA NewRequestSingle ==
  ASSUME NewRequest
  PROVE  Single'
<1>1. /\ Len(calls') = 0 /\ \A n \in Name : current'[n] = 0 /\ Len(made'[n]) = 0
  BY EmptySeq DEF NewRequest
<1> QED
  BY <1>1 DEF Single, MadeIn, RestIn, Inside, NotYet

LEMMA SingleStep ==
  ASSUME Fit, Fit', Loading, Single, [Next]_vars
  PROVE  Single'
<1>1. CASE UNCHANGED vars
  <2>1. UNCHANGED <<cfg, made, current, calls>>
    BY <1>1 DEF vars
  <2>2. RestIn' /\ Inside' /\ NotYet'
    BY <2>1, UsesTheSame DEF Single, RestIn, Inside, NotYet, Before
  <2> QED
    BY <2>1, <2>2, MadeStillIn, UsesTheSame DEF Single
<1>2. ASSUME NEW n \in Name, SetModule(n) PROVE Single'
  BY <1>2, StartSingle DEF SetModule
<1>3. ASSUME NEW n \in Name, Dispatch(n) PROVE Single'
  BY <1>3, StartSingle DEF Dispatch
<1>4. CASE SetAgain
  <2>1. PICK n \in Name : n = again
    BY <1>4 DEF SetAgain, Fit, TypeOK
  <2> QED
    BY <1>4, <2>1, StartSingle DEF SetAgain
<1> QED
  BY <1>1, <1>2, <1>3, <1>4, SetLoadedSingle, SetDefaultSingle, DefaultFailsSingle,
     SetDirSingle, SetOtherSingle, SetArraySingle, SetAliasedSingle, SetAddedSingle,
     AddFailsSingle, AddMakesSingle, BaseDoneSingle, RequireSingle, AddDoneSingle,
     NewRequestSingle DEF Next, Step
-----------------------------------------------------------------------------
(***************************************************************************)
(* How deep the calls go.  Between two calls that add a module only        *)
(* aliases wait, each for the next; the modules that are added are not the *)
(* same.  So a call has a place: how many are added below it, its name and *)
(* where it is.  Two calls with one place are on a circle of aliases.      *)
(***************************************************************************)
Ats == {"set", "default", "alias", "added", "add", "base", "requires"}

Works(i) == {m \in 1 .. i - 1 : calls[m].at \in Working}

DepthNeeded == (Cardinality(Name) + 1) * (Cardinality(Name) * 7)

LEMMA AtsAre ==
  IsFiniteSet(Ats) /\ Cardinality(Ats) \in Nat /\ Cardinality(Ats) <= 7
<1> DEFINE nth(a) == IF a = "set" THEN 1 ELSE IF a = "default" THEN 2
                     ELSE IF a = "alias" THEN 3 ELSE IF a = "added" THEN 4
                     ELSE IF a = "add" THEN 5 ELSE IF a = "base" THEN 6 ELSE 7
<1>1. PICK f : f = [a \in Ats |-> nth(a)]
  OBVIOUS
<1>2. \A a \in Ats : f[a] = nth(a) /\ nth(a) \in 1 .. 7
  BY <1>1
<1>3. \A a, b \in Ats : nth(a) = nth(b) => a = b
  BY DEF Ats
<1>4. f \in [Ats -> 1 .. 7]
  BY <1>1, <1>2
<1>5. f \in Injection(Ats, 1 .. 7)
  BY <1>2, <1>3, <1>4 DEF Injection, IsInjective
<1>6. PICK z \in Nat : z = 7
  OBVIOUS
<1>7. IsFiniteSet(1 .. z) /\ Cardinality(1 .. z) = z
  BY FS_Interval
<1>8. IsFiniteSet(Ats) /\ Cardinality(Ats) <= Cardinality(1 .. 7)
  BY <1>5, <1>6, <1>7, FS_Injection
<1> QED
  BY <1>6, <1>7, <1>8, FS_CardinalityType

LEMMA WorksAreFew ==
  ASSUME Fit, Loading, NEW i \in 1 .. Len(calls)
  PROVE  /\ IsFiniteSet(Works(i))
         /\ Cardinality(Works(i)) \in 0 .. Cardinality(Name)
<1>1. PICK f \in [Works(i) -> Name] : f = [m \in Works(i) |-> calls[m].name]
  <2>1. ASSUME NEW m \in Works(i) PROVE calls[m].name \in Name
    <3>1. m \in 1 .. Len(calls) /\ calls \in Seq(Frame)
      BY DEF Works, Fit, TypeOK
    <3>2. calls[m] \in Frame
      BY <3>1, ElementOfSeq
    <3> QED
      BY <3>2 DEF Frame
  <2> QED
    BY <2>1
<1>2. ASSUME NEW a \in Works(i), NEW b \in Works(i), a < b PROVE f[a] # f[b]
  <2>1. /\ a \in 1 .. Len(calls) /\ b \in 1 .. Len(calls)
        /\ calls[a].at \in Working /\ calls[b].at \in Working
    BY DEF Works, Fit, TypeOK
  <2>2. calls[a].name # calls[b].name
    BY <1>2, <2>1 DEF Loading, Distinct, Working
  <2> QED
    BY <1>1, <2>2
<1>3. \A a, b \in Works(i) : a < b \/ b < a \/ a = b
  BY DEF Works
<1>4. f \in Injection(Works(i), Name)
  BY <1>1, <1>2, <1>3 DEF Injection, IsInjective
<1>5. IsFiniteSet(Works(i)) /\ Cardinality(Works(i)) <= Cardinality(Name)
  BY <1>4, FS_Injection, ModulesAssumption
<1>6. Cardinality(Works(i)) \in Nat /\ Cardinality(Name) \in Nat
  BY <1>5, FS_CardinalityType, ModulesAssumption
<1> QED
  BY <1>5, <1>6

LEMMA SamePlace ==
  ASSUME Fit, Loading, NEW i \in 1 .. Len(calls), NEW j \in 1 .. Len(calls), i < j,
         Cardinality(Works(i)) = Cardinality(Works(j)),
         calls[i].name = calls[j].name, calls[i].at = calls[j].at
  PROVE  AliasCircle
<1>0. PICK k \in Nat : k = Len(calls) /\ i < k
  BY DEF Fit, TypeOK
<1>1. \A m \in 1 .. k : calls[m] \in Frame /\ FrameFits(calls[m])
  BY <1>0, ElementOfSeq DEF Fit, TypeOK, FramesFit
<1>2. \A m \in 1 .. k - 1 : Adjacent(calls[m], calls[m + 1])
  BY <1>0 DEF Fit, Stacked
<1>3. Works(i) = Works(j)
  <2>1. Works(i) \subseteq Works(j) /\ IsFiniteSet(Works(j))
    BY WorksAreFew DEF Works
  <2> QED
    BY <2>1, FS_Subset
<1>4. \A m \in i .. j - 1 : calls[m].at \notin Working
  <2> SUFFICES ASSUME NEW m \in i .. j - 1, calls[m].at \in Working PROVE FALSE
    OBVIOUS
  <2>1. m \in Works(j) /\ m \notin Works(i)
    BY DEF Works
  <2> QED
    BY <1>3, <2>1
<1>5. \A m \in i .. j - 1 : /\ m \in 1 .. k - 1 /\ m + 1 \in 1 .. k
                            /\ calls[m].at \in {"default", "alias", "added"}
  <2> SUFFICES ASSUME NEW m \in i .. j - 1
               PROVE  /\ m \in 1 .. k - 1 /\ m + 1 \in 1 .. k
                      /\ calls[m].at \in {"default", "alias", "added"}
    OBVIOUS
  <2>1. m \in 1 .. k - 1 /\ m \in 1 .. k /\ m + 1 \in 1 .. k
    BY <1>0
  <2>2. calls[m].at \notin Working /\ calls[m].at \notin {"set", "add"} /\ calls[m] \in Frame
    BY <1>1, <1>2, <1>4, <2>1 DEF Adjacent
  <2> QED
    BY <2>1, <2>2 DEF Frame, Working
<1>6. \A m \in i .. j - 1 : calls[m].at = "alias"
  <2> SUFFICES ASSUME NEW m \in i .. j - 1, calls[m].at # "alias" PROVE FALSE
    OBVIOUS
  <2>1. calls[m + 1].at \in Adding
    BY <1>2, <1>5 DEF Adjacent
  <2>2. CASE m + 1 = j
    <3>1. calls[i].at \in Adding /\ i \in i .. j - 1
      BY <2>1, <2>2
    <3> QED
      BY <1>5, <3>1 DEF Adding, Working
  <2>3. CASE m + 1 # j
    <3>1. m + 1 \in i .. j - 1
      BY <2>3
    <3> QED
      BY <1>5, <2>1, <3>1 DEF Adding, Working
  <2> QED
    BY <2>2, <2>3
<1>7. i \in i .. j - 1 /\ calls[j].at = "alias"
  BY <1>6
<1>8. \A m \in i .. j - 1 : calls[m].name \in Name \ {Default}
  <2>1. \A m \in 2 .. k : calls[m].at = "alias" => calls[m].name # Default
    BY <1>0 DEF Loading, Upper
  <2>2. calls[j].name # Default
    <3>1. j \in 2 .. k
      BY <1>0
    <3> QED
      BY <1>7, <2>1, <3>1
  <2> SUFFICES ASSUME NEW m \in i .. j - 1 PROVE calls[m].name \in Name \ {Default}
    OBVIOUS
  <2>3. calls[m].name \in Name
    BY <1>1, <1>5 DEF Frame
  <2>4. CASE m = i
    BY <2>2, <2>3, <2>4
  <2>5. CASE m # i
    <3>1. m \in 2 .. k
      BY <1>0, <2>5
    <3> QED
      BY <1>6, <2>1, <2>3, <3>1
  <2> QED
    BY <2>4, <2>5
<1>9. PICK C \in SUBSET (Name \ {Default}) : C = {calls[m].name : m \in i .. j - 1}
  BY <1>8
<1>10. C # {}
  BY <1>7, <1>9
<1>11. ASSUME NEW n \in C PROVE IsArray(n) /\ cfg[n].base \in C
  <2>1. PICK m \in i .. j - 1 : n = calls[m].name
    BY <1>9
  <2>2. calls[m].at = "alias" /\ m \in 1 .. k /\ m \in 1 .. k - 1
    BY <1>5, <1>6
  <2>3. IsArray(n) /\ calls[m + 1].name = cfg[n].base
    BY <1>1, <1>2, <2>1, <2>2 DEF FrameFits, Adjacent
  <2>4. CASE m + 1 = j
    BY <1>7, <1>9, <2>3, <2>4
  <2>5. CASE m + 1 # j
    <3>1. m + 1 \in i .. j - 1
      BY <2>5
    <3> QED
      BY <1>9, <2>3, <3>1
  <2> QED
    BY <2>4, <2>5
<1> QED
  BY <1>10, <1>11 DEF AliasCircle

LEMMA DepthIsBounded ==
  ASSUME Fit, Loading, ~AliasCircle
  PROVE  Len(calls) <= DepthNeeded
<1> DEFINE P == (0 .. Cardinality(Name)) \X (Name \X Ats)
<1>0. PICK k \in Nat : k = Len(calls)
  BY DEF Fit, TypeOK
<1>1. PICK c \in Nat : c = Cardinality(Name)
  BY FS_CardinalityType, ModulesAssumption
<1>2. PICK a \in Nat : a = Cardinality(Ats) /\ a <= 7
  BY AtsAre
<1>3. IsFiniteSet(P) /\ Cardinality(P) = (c + 1) * (c * a)
  <2>1. IsFiniteSet(0 .. c) /\ Cardinality(0 .. c) = c + 1
    BY FS_Interval
  <2>2. IsFiniteSet(Name \X Ats) /\ Cardinality(Name \X Ats) = c * a
    BY <1>1, <1>2, AtsAre, FS_Product, ModulesAssumption
  <2>3. /\ IsFiniteSet(0 .. Cardinality(Name))
        /\ Cardinality(0 .. Cardinality(Name)) = c + 1
    BY <1>1, <2>1
  <2>4. /\ IsFiniteSet(P)
        /\ Cardinality(P) = Cardinality(0 .. Cardinality(Name)) * Cardinality(Name \X Ats)
    BY ONLY <2>2, <2>3, FS_Product
  <2> QED
    BY <2>2, <2>3, <2>4
<1>4. \A i \in 1 .. k : <<Cardinality(Works(i)), <<calls[i].name, calls[i].at>>>> \in P
  <2> SUFFICES ASSUME NEW i \in 1 .. k
               PROVE  <<Cardinality(Works(i)), <<calls[i].name, calls[i].at>>>> \in P
    OBVIOUS
  <2>1. calls[i] \in Frame
    BY <1>0, ElementOfSeq DEF Fit, TypeOK
  <2>2. calls[i].name \in Name /\ calls[i].at \in Ats
    BY <2>1 DEF Frame, Ats
  <2> QED
    BY <1>0, <2>2, WorksAreFew
<1>5. PICK f \in [1 .. k -> P] :
        f = [i \in 1 .. k |-> <<Cardinality(Works(i)), <<calls[i].name, calls[i].at>>>>]
  BY <1>4
<1>6. \A i, j \in 1 .. k : i < j => f[i] # f[j]
  BY <1>0, <1>5, SamePlace
<1>7. f \in Injection(1 .. k, P)
  <2>1. \A i, j \in 1 .. k : f[i] = f[j] => i = j
    BY <1>6
  <2> QED
    BY <2>1 DEF Injection, IsInjective
<1>8. Cardinality(1 .. k) <= Cardinality(P) /\ Cardinality(1 .. k) = k
  BY <1>3, <1>7, FS_Injection, FS_Interval
<1>9. k <= (c + 1) * (c * a)
  BY <1>3, <1>8
<1>10. c * a <= c * 7
  BY <1>2
<1>11. (c + 1) * (c * a) <= (c + 1) * (c * 7)
  BY <1>10
<1>12. (c + 1) * (c * 7) = DepthNeeded
  BY <1>1 DEF DepthNeeded
<1> QED
  BY <1>0, <1>9, <1>11, <1>12
-----------------------------------------------------------------------------
(***************************************************************************)
(* The invariant, and the theorems.                                        *)
(***************************************************************************)
IInv == Fit /\ Loading /\ Dispatched /\ Requiring /\ Single

LEMMA InitIInv ==
  ASSUME Init
  PROVE  IInv
<1>1. /\ calls = <<>> /\ Len(calls) = 0 /\ active = Null /\ ret = Null
      /\ again = NoName /\ crashed = "no" /\ asked = NoName
      /\ \A n \in Name : current[n] = 0 /\ made[n] = <<>> /\ Len(made[n]) = 0
  BY EmptySeq DEF Init
<1>2. TypeOK
  <2>1. made \in [Name -> Seq(Lists \cup {Unset})] /\ current \in [Name -> Nat]
    BY EmptySeq DEF Init
  <2> QED
    BY <1>1, <2>1, EmptySeq DEF Init, TypeOK
<1>3. Fit
  BY <1>1, <1>2 DEF Fit, Numbers, Objects, FramesFit, Stacked, DefaultGiven, At, Running, Failures
<1>4. Loading
  BY <1>1 DEF Loading, FramesLoad, Loads, Upper, Distinct, Returned, At, Running, CrashEnds, NullCause
<1>5. Dispatched
  BY <1>1 DEF Dispatched, Asked, DispatchedIsActive, Running
<1>6. Requiring
  BY <1>1 DEF Requiring, MadeSays, GivenLoaded, Doing, Done, At, Running
<1>7. Single
  BY <1>1 DEF Single, MadeIn, RestIn, Inside, NotYet
<1> QED
  BY <1>3, <1>4, <1>5, <1>6, <1>7 DEF IInv

LEMMA NextIInv ==
  ASSUME IInv, [Next]_vars
  PROVE  IInv'
BY FitStep, LoadingStep, DispatchedStep, RequiringStep, SingleStep DEF IInv

(* The five parts hold of every call that is under way (setModule,         *)
(* addModule, Module::activate), whatever calls it is nested in.           *)
THEOREM Invariance == Spec => []IInv
<1>1. Init => IInv
  BY InitIInv
<1>2. IInv /\ [Next]_vars => IInv'
  BY NextIInv
<1> QED
  BY <1>1, <1>2, PTL DEF Spec

(* A call is where it may be, the objects that the application keeps are   *)
(* ones that were made (TypeOK of Modules).                                *)
THEOREM TypeCorrect == Spec => []TypeOK
<1>1. IInv => TypeOK
  BY DEF IInv, Fit
<1> QED
  BY <1>1, Invariance, PTL

(* The module that dispatch asked for is the active one when the handler   *)
(* runs: that prepare_call set it before does not lose it (Dispatch::      *)
(* dispatch, Assets::setModule).                                           *)
THEOREM TheAskedIsActive == Spec => []DispatchedIsActive
<1>1. IInv => DispatchedIsActive
  BY DEF IInv, Dispatched
<1> QED
  BY <1>1, Invariance, PTL

(* When no call runs, a module that is loaded has loaded what it requires, *)
(* as far as that can be (Module::activate).                               *)
THEOREM WhatIsRequiredIsLoaded == Spec => []RequiredAreLoaded
<1>1. IInv => RequiredAreLoaded
  <2> SUFFICES ASSUME IInv, Idle, NEW n \in Name, NEW S \in Usable, current[n] # 0,
                      cfg[n].base \in {NoName, Default} \cup S,
                      NEW r \in Range(List(cfg[n].requires)) \cap S
               PROVE  current[r] # 0
    BY DEF RequiredAreLoaded
  <2>1. Len(calls) = 0 /\ crashed = "no"
    BY EmptySeq DEF Idle
  <2>2. ~IsWorkedOn(n)
    BY <2>1 DEF IsWorkedOn
  <2>3. BaseGood(n) /\ r \in Required(n)
    BY DEF BaseGood, Required, Loadable
  <2> QED
    BY <2>1, <2>2, <2>3 DEF IInv, Requiring, Done, AllLoaded
<1> QED
  BY <1>1, Invariance, PTL

(* Only a module that comes back to itself is made twice (addModule).      *)
THEOREM AModuleIsMadeOnce == Spec => []MadeOnce
<1>1. IInv => MadeOnce
  <2> SUFFICES ASSUME IInv, NEW n \in Name, NEW S \in SUBSET Name,
                      Uses(n) \cup Uses(Default) \subseteq S,
                      \A m \in S : Uses(m) \subseteq S, n \notin S,
                      ~(n = Default /\ IsArray(n))
               PROVE  Len(made[n]) <= 1
    BY DEF MadeOnce
  <2>1. S \in Closures
    BY DEF Closures
  <2>2. Straight(n)
    BY <2>1 DEF Straight
  <2> QED
    BY <2>2 DEF IInv, Single, Fit, Numbers
<1> QED
  BY <1>1, Invariance, PTL

(* The calls run out of stack for a circle of aliases alone, when the      *)
(* stack has room for as many calls as there are places.                   *)
StackCause == crashed = "stack" => AliasCircle

LEMMA StackStep ==
  ASSUME IInv, StackCause, [Next]_vars, MaxDepth > DepthNeeded
  PROVE  StackCause'
<1> USE DEF StackCause
<1>1. AliasCircle' <=> AliasCircle
  <2>1. cfg' = cfg
    BY DEF Next, Step, vars, SetLoaded, SetDefault, DefaultFails, SetDir, SetOther, SetArray,
       SetAliased, SetAdded, AddFails, AddMakes, BaseDone, Require, AddDone, SetAgain,
       SetModule, Dispatch, NewRequest
  <2> QED
    BY <2>1 DEF AliasCircle, IsArray
<1> SUFFICES ASSUME ~AliasCircle PROVE crashed' # "stack"
  BY <1>1
<1>2. Len(calls) < MaxDepth
  <2>1. Len(calls) <= DepthNeeded /\ Len(calls) \in Nat
    BY DepthIsBounded DEF IInv, Fit, TypeOK
  <2>2. DepthNeeded \in Nat
    <3>1. PICK c \in Nat : c = Cardinality(Name)
      BY FS_CardinalityType, ModulesAssumption
    <3> QED
      BY <3>1 DEF DepthNeeded
  <2> QED
    BY <2>1, <2>2, ModulesAssumption
<1>3. crashed # "stack"
  OBVIOUS
<1>4. \A f, g : Nest(f, g) => crashed' = crashed
  BY <1>2 DEF Nest
<1>5. CASE UNCHANGED vars
  BY <1>3, <1>5 DEF vars
<1>6. CASE SetLoaded \/ DefaultFails \/ SetOther \/ AddFails \/ AddDone
  BY <1>3, <1>6 DEF SetLoaded, DefaultFails, SetOther, AddFails, AddDone, Return
<1>7. CASE SetDefault \/ SetDir \/ SetArray \/ SetAliased \/ Require
  BY <1>3, <1>4, <1>7 DEF SetDefault, SetDir, SetArray, SetAliased, Require, AddWith, Return
<1>8. CASE SetAdded \/ BaseDone
  BY <1>3, <1>8 DEF SetAdded, BaseDone, Return, Crash
<1>9. CASE AddMakes
  BY <1>3, <1>4, <1>9 DEF AddMakes
<1>10. CASE SetAgain \/ (\E n \in Name : SetModule(n) \/ Dispatch(n)) \/ NewRequest
  BY <1>3, <1>10 DEF SetAgain, SetModule, Dispatch, NewRequest
<1> QED
  BY <1>5, <1>6, <1>7, <1>8, <1>9, <1>10 DEF Next, Step

(* The process ends for a cause alone (activate's use of what setModule    *)
(* returned, and the recursion of setModule over aliases).                 *)
THEOREM ACrashHasACause ==
  ASSUME MaxDepth > DepthNeeded
  PROVE  Spec => []CrashHasCause
<1>1. Init => StackCause
  BY DEF Init, StackCause
<1>2. IInv /\ StackCause /\ [Next]_vars => StackCause'
  BY StackStep
<1>3. Spec => []StackCause
  BY <1>1, <1>2, Invariance, PTL DEF Spec
<1>4. IInv /\ StackCause => CrashHasCause
  BY DEF IInv, Loading, NullCause, StackCause, CrashHasCause
<1> QED
  BY <1>3, <1>4, Invariance, PTL
=============================================================================
