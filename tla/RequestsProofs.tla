--------------------------- MODULE RequestsProofs ---------------------------
(***************************************************************************)
(* Proofs about a PHP request: its dispatch (Requests), and the session    *)
(* its user data come from (UserSession), in the second half.              *)
(*                                                                         *)
(* For any site and however deep handlers call back: a dispatch runs the   *)
(* object and method of its route, for a user who has its roles, one body  *)
(* goes out, and a call that ends well leaves nothing of its answer        *)
(* behind.  The handlers are told apart by whether what they go on with    *)
(* may have been changed: only the one on top can be in a beforeCall from  *)
(* which nothing was called.                                               *)
(***************************************************************************)
EXTENDS Requests, UserSession, SequenceTheorems, TLAPS

SiteOK == table \in [Route -> Target] /\ user \in BOOLEAN

(* What a handler that runs was called with.                               *)
FrameOK(f) ==
  /\ /\ f.by = "dispatch"
     /\ table[f.route].roles /\ table[f.route].form \in {"keys", "object"}
     => user
  /\ f.by = "dispatch" /\ table[f.route].form # "closure" =>
       /\ table[f.route].cls # NoName => f.cls = table[f.route].cls
       /\ f.at = "method" /\ ~f.forwarded /\ table[f.route].mth # NoName =>
            f.mth = table[f.route].mth

(* The RouteMatch still has the method the handler f will go on with.      *)
Fresh(f, mth) ==
  f.by = "dispatch" /\ table[f.route].form # "closure"
    /\ table[f.route].mth # NoName => mth = table[f.route].mth

Frames ==
  \A i \in 1 .. Len(calls) :
    /\ FrameOK(calls[i])
    /\ calls[i].at = "before" /\ ~calls[i].forwarded =>
         i = Len(calls) /\ Fresh(calls[i], rm.mth)

Sendings ==
  /\ ~resent => bodies = 0 \/ (bodies = 1 /\ resp.sent)
  /\ resp.sent => headers /\ bodies > 0
  /\ EndsInAnswer

IInv == TypeOK /\ SiteOK /\ Frames /\ Sendings
-----------------------------------------------------------------------------
LEMMA TopType ==
  ASSUME TypeOK, calls # <<>>
  PROVE  /\ calls \in Seq(Frame)
         /\ Len(calls) \in 1 .. Len(calls) /\ Len(calls) \in Nat \ {0}
         /\ Top \in Frame /\ Top = calls[Len(calls)]
<1>1. calls \in Seq(Frame) /\ Len(calls) \in 1 .. Len(calls)
  BY DEF TypeOK
<1> QED
  BY <1>1 DEF Top

LEMMA ForwardedType ==
  ASSUME NEW f \in Frame
  PROVE  [f EXCEPT !.forwarded = TRUE] \in Frame
  BY DEF Frame

(* Marking the handler on top changes nothing else of it.                  *)
LEMMA MarkedFrames ==
  ASSUME TypeOK, Frames
  PROVE  /\ Marked \in Seq(Frame) /\ Len(Marked) = Len(calls)
         /\ \A i \in 1 .. Len(calls) :
              /\ FrameOK(Marked[i])
              /\ Marked[i].at = "before" => Marked[i].forwarded
<1>1. calls \in Seq(Frame) /\ Len(calls) \in Nat
  BY DEF TypeOK
<1>2. \A i \in 1 .. Len(calls) : calls[i] \in Frame
  BY <1>1
<1>3. \A f \in Frame : f.forwarded \in BOOLEAN /\ f.at \in {"before", "method"}
  BY DEF Frame
<1>4. CASE ~(calls # <<>> /\ Top.at = "before")
  <2>1. Marked = calls
    BY <1>4 DEF Marked
  <2>2. \A i \in 1 .. Len(calls) : FrameOK(calls[i])
    BY DEF Frames
  <2>3. \A i \in 1 .. Len(calls) : calls[i].at = "before" => calls[i].forwarded
    <3> TAKE i \in 1 .. Len(calls)
    <3> SUFFICES ASSUME calls[i].at = "before", ~calls[i].forwarded
                 PROVE  FALSE
      BY <1>2, <1>3
    <3>1. i = Len(calls)
      BY DEF Frames
    <3>2. calls # <<>>
      BY <1>1
    <3> QED
      BY <3>1, <3>2, <1>4 DEF Top
  <2> QED
    BY <1>1, <2>1, <2>2, <2>3
<1>5. CASE calls # <<>> /\ Top.at = "before"
  <2> DEFINE n == Len(calls)
             t == [Top EXCEPT !.forwarded = TRUE]
  <2>1. n \in 1 .. n /\ Top = calls[n] /\ Top \in Frame
    BY <1>5, TopType
  <2>2. t \in Frame
    BY <2>1, ForwardedType
  <2>3. Marked = [calls EXCEPT ![n] = t]
    BY <1>5, <2>1 DEF Marked
  <2>4. /\ Marked \in Seq(Frame) /\ Len(Marked) = n
        /\ \A i \in 1 .. n : Marked[i] = IF i = n THEN t ELSE calls[i]
    <3> HIDE DEF t
    <3> QED
      BY <1>1, <2>1, <2>2, <2>3
  <2>5. t.forwarded = TRUE /\ t.at = "before" /\ t.by = Top.by
        /\ t.route = Top.route /\ t.cls = Top.cls
    BY <2>1, <1>5 DEF Frame
  <2>6. FrameOK(t)
    <3>1. FrameOK(Top)
      BY <2>1 DEF Frames
    <3> HIDE DEF t
    <3> QED
      BY <3>1, <2>5 DEF FrameOK
  <2>7. ASSUME NEW i \in 1 .. n, i # n
        PROVE  /\ FrameOK(calls[i])
               /\ calls[i].at = "before" => calls[i].forwarded
    BY <2>7, <1>2, <1>3 DEF Frames
  <2> HIDE DEF t
  <2> QED
    BY <2>4, <2>5, <2>6, <2>7
<1> QED
  BY <1>4, <1>5

LEMMA SiteKept ==
  ASSUME UNCHANGED site, SiteOK, NEW f
  PROVE  FrameOK(f)' <=> FrameOK(f)
  BY DEF site, FrameOK

(* The four ways in which the handlers change.                             *)
LEMMA MarkKeeps ==
  ASSUME TypeOK, Frames, UNCHANGED site, SiteOK, calls' = Marked
  PROVE  Frames' /\ calls' \in Seq(Frame)
<1>1. /\ calls' \in Seq(Frame) /\ Len(calls') = Len(calls)
      /\ \A i \in 1 .. Len(calls) :
              /\ FrameOK(calls'[i])
              /\ calls'[i].at = "before" => calls'[i].forwarded
  BY MarkedFrames
<1>2. \A i \in 1 .. Len(calls') : FrameOK(calls[i])' <=> FrameOK(calls'[i])
  BY DEF site, FrameOK
<1> QED
  BY <1>1, <1>2 DEF Frames

LEMMA PushKeeps ==
  ASSUME TypeOK, Frames, UNCHANGED site, SiteOK, NEW f \in Frame,
         calls' = Append(Marked, f), FrameOK(f),
         f.at = "before" => Fresh(f, rm'.mth)
  PROVE  Frames' /\ calls' \in Seq(Frame)
<1>1. /\ Marked \in Seq(Frame) /\ Len(Marked) = Len(calls)
      /\ \A i \in 1 .. Len(calls) :
              /\ FrameOK(Marked[i])
              /\ Marked[i].at = "before" => Marked[i].forwarded
  BY MarkedFrames
<1>2. /\ calls' \in Seq(Frame) /\ Len(calls') = Len(calls) + 1
      /\ Len(calls) \in Nat
      /\ \A i \in 1 .. Len(calls) : calls'[i] = Marked[i]
      /\ calls'[Len(calls')] = f
  BY <1>1
<1>3. \A i \in 1 .. Len(calls') : FrameOK(calls[i])' <=> FrameOK(calls'[i])
  BY DEF site, FrameOK
<1>4. Fresh(f, rm'.mth) => Fresh(calls[Len(calls)], rm.mth)'
  BY <1>2 DEF site, Fresh
<1>5. \A i \in 1 .. Len(calls') : i \in 1 .. Len(calls) \/ i = Len(calls')
  BY <1>2
<1>6. ASSUME NEW i \in 1 .. Len(calls), i # Len(calls')
      PROVE  /\ FrameOK(calls[i])'
             /\ calls'[i].at = "before" => calls'[i].forwarded
  <2>1. i \in 1 .. Len(calls')
    BY <1>2
  <2> QED
    BY <2>1, <1>1, <1>2, <1>3
<1>7. Len(calls') \in 1 .. Len(calls')
  BY <1>2
<1>8. FrameOK(calls[Len(calls)])'
  BY <1>2, <1>3, <1>7
<1> QED
  BY <1>2, <1>4, <1>5, <1>6, <1>8 DEF Frames

LEMMA FrontShape ==
  ASSUME NEW S, NEW s \in Seq(S), NEW t, t = SubSeq(s, 1, Len(s) - 1),
         Len(s) \in Nat \ {0}
  PROVE  /\ t \in Seq(S) /\ Len(t) = Len(s) - 1
         /\ \A i \in 1 .. Len(t) : t[i] = s[i]
<1>1. /\ 1 \in Int /\ Len(s) - 1 \in Int
      /\ \A i \in 1 .. Len(s) - 1 : s[i] \in S
  OBVIOUS
<1>2. /\ t \in Seq(S)
      /\ Len(t) = IF 1 <= Len(s) - 1 THEN Len(s) - 1 - 1 + 1 ELSE 0
      /\ \A i \in 1 .. Len(s) - 1 - 1 + 1 : t[i] = s[1 + i - 1]
  BY <1>1, SubSeqProperties
<1>3. \A n \in Nat \ {0} : (IF 1 <= n - 1 THEN n - 1 - 1 + 1 ELSE 0) = n - 1
  OBVIOUS
<1>4. Len(t) = Len(s) - 1
  BY <1>2, <1>3
<1>5. ASSUME NEW i \in 1 .. Len(t) PROVE t[i] = s[i]
  <2>1. i \in 1 .. Len(s) - 1 - 1 + 1 /\ 1 + i - 1 = i
    BY <1>4
  <2> QED
    BY <1>2, <2>1
<1> QED
  BY <1>2, <1>4, <1>5

LEMMA PopKeeps ==
  ASSUME TypeOK, Frames, UNCHANGED site, SiteOK, calls # <<>>, calls' = Below
  PROVE  Frames' /\ calls' \in Seq(Frame)
<1>1. calls \in Seq(Frame) /\ Len(calls) \in Nat \ {0}
  BY TopType
<1>2. /\ calls' \in Seq(Frame) /\ Len(calls') = Len(calls) - 1
      /\ \A i \in 1 .. Len(calls') :
           i \in 1 .. Len(calls) /\ i # Len(calls) /\ calls'[i] = calls[i]
  <2>1. calls' = SubSeq(calls, 1, Len(calls) - 1)
    BY DEF Below
  <2>2. /\ calls' \in Seq(Frame) /\ Len(calls') = Len(calls) - 1
        /\ \A i \in 1 .. Len(calls') : calls'[i] = calls[i]
    BY <1>1, <2>1, FrontShape, ZenonT(40)
  <2> QED
    BY <1>1, <2>2
<1>3. \A i \in 1 .. Len(calls') : FrameOK(calls[i])' <=> FrameOK(calls'[i])
  BY DEF site, FrameOK
<1>4. ASSUME NEW i \in 1 .. Len(calls')
      PROVE  /\ FrameOK(calls[i])'
             /\ ~(calls'[i].at = "before" /\ ~calls'[i].forwarded)
  BY <1>2, <1>3 DEF Frames
<1> QED
  BY <1>2, <1>4 DEF Frames

GoOn(f, mth) == [f EXCEPT !.at = "method", !.mth = mth]

LEMMA FrameShape ==
  ASSUME NEW f \in Frame, NEW mth \in Method \cup {Closure}, f.at = "before"
  PROVE  /\ GoOn(f, mth) \in Frame
         /\ GoOn(f, mth).by = f.by /\ GoOn(f, mth).route = f.route
         /\ GoOn(f, mth).cls = f.cls
         /\ GoOn(f, mth).at = "method" /\ GoOn(f, mth).mth = mth
         /\ (GoOn(f, mth).forwarded = TRUE) <=> (f.forwarded = TRUE)
  BY DEF Frame, GoOn

LEMMA GoesOnKeeps ==
  ASSUME TypeOK, SiteOK, Frames, BeforeGoesOn
  PROVE  Frames' /\ calls' \in Seq(Frame)
<1> DEFINE n == Len(calls)
           g == GoOn(Top, rm.mth)
<1>1. /\ calls \in Seq(Frame) /\ n \in 1 .. n /\ n \in Nat
      /\ Top \in Frame /\ Top = calls[n] /\ Top.at = "before"
  BY TopType DEF BeforeGoesOn
<1>2. rm.mth \in Method
  BY DEF BeforeGoesOn, TypeOK, Match
<1>3. /\ g \in Frame /\ g.by = Top.by /\ g.route = Top.route
      /\ g.cls = Top.cls /\ g.at = "method" /\ g.mth = rm.mth
      /\ (g.forwarded = TRUE) <=> (Top.forwarded = TRUE)
  <2>1. Top \in Frame /\ rm.mth \in Method \cup {Closure} /\ Top.at = "before"
    BY <1>1, <1>2
  <2> QED
    BY <2>1, FrameShape
<1>4. calls' = [calls EXCEPT ![n] = g]
  BY <1>1 DEF BeforeGoesOn, GoOn
<1> HIDE DEF g
<1>4a. Top.forwarded \in BOOLEAN /\ g.forwarded \in BOOLEAN
  BY <1>1, <1>3 DEF Frame
<1>5. FrameOK(g)
  <2>1. FrameOK(Top) /\ (~Top.forwarded => Fresh(Top, rm.mth))
    BY <1>1 DEF Frames
  <2>2. CASE Top.forwarded
    BY <1>3, <1>4a, <2>1, <2>2 DEF FrameOK
  <2>3. CASE ~Top.forwarded
    BY <1>3, <1>4a, <2>1, <2>3 DEF FrameOK, Fresh
  <2> QED
    BY <2>2, <2>3
<1>6. /\ calls' \in Seq(Frame) /\ Len(calls') = n
      /\ \A i \in 1 .. n : calls'[i] = IF i = n THEN g ELSE calls[i]
  BY <1>1, <1>3, <1>4
<1>7. \A i \in 1 .. n : FrameOK(calls[i])' <=> FrameOK(calls'[i])
  BY <1>6 DEF BeforeGoesOn, site, FrameOK
<1>8. ASSUME NEW i \in 1 .. n
      PROVE  /\ FrameOK(calls[i])'
             /\ ~(calls'[i].at = "before" /\ ~calls'[i].forwarded)
  <2>1. CASE i = n
    BY <2>1, <1>3, <1>5, <1>6, <1>7
  <2>2. CASE i # n
    BY <2>2, <1>6, <1>7 DEF Frames
  <2> QED
    BY <2>1, <2>2
<1> QED
  BY <1>6, <1>8 DEF Frames
-----------------------------------------------------------------------------
(* Preparing a call.                                                       *)
LEMMA NamedType ==
  ASSUME TypeOK, SiteOK, NEW r \in Route
  PROVE  /\ Named(r) \in Match /\ Named(r).route = r
         /\ table[r].form # "closure" =>
              /\ table[r].cls # NoName => Named(r).cls = table[r].cls
              /\ table[r].mth # NoName => Named(r).mth = table[r].mth
<1> DEFINE t == table[r]
<1>1. /\ t.form \in Form /\ t.cls \in Class \cup {NoName}
      /\ t.mth \in Method \cup {NoName}
      /\ t.module \in BOOLEAN /\ t.roles \in BOOLEAN /\ t.params \in BOOLEAN
  BY DEF SiteOK, Target
<1>2. rm \in Match
  BY DEF TypeOK
<1> DEFINE c == Overrides(t, rm.cls, t.cls)
           m == Overrides(t, rm.mth, t.mth)
           d == CASE t.form = "object" -> t.module \/ t.roles
                  [] t.form = "keys"   -> rm.module \/ t.module
                  [] OTHER             -> rm.module
<1>3. c \in Class \cup {NoName} /\ m \in Method \cup {NoName}
  BY <1>1, <1>2 DEF Overrides, Match
<1>4. d \in BOOLEAN
  BY <1>1, <1>2 DEF Match, Form
<1>5. Named(r) = [rm EXCEPT !.route = r, !.closure = (t.form = "closure"),
                            !.cls = c, !.mth = m, !.module = d]
  BY <1>2 DEF Named, Match
<1>6. t.form # "closure" =>
              /\ t.cls # NoName => c = t.cls
              /\ t.mth # NoName => m = t.mth
  BY DEF Overrides
<1> HIDE DEF t, c, m, d
<1>7. /\ Named(r) \in Match /\ Named(r).route = r
      /\ Named(r).cls = c /\ Named(r).mth = m
  BY <1>2, <1>3, <1>4, <1>5 DEF Match
<1> QED
  BY <1>6, <1>7 DEF t

LEMMA PrepareType ==
  ASSUME TypeOK, SiteOK, NEW r \in Route, NEW ok \in BOOLEAN, Prepare(r, ok)
  PROVE  /\ rm' \in Match /\ bound' \subseteq Route /\ rm'.route = r
         /\ ok => /\ rm' = Named(r)
                  /\ table[r].form # "closure" => Named(r).cls # NoName
                  /\ table[r].roles /\ table[r].form \in {"keys", "object"}
                     => user
<1>1. CASE ArgsFit(r)
  <2>1. rm' = Named(r) /\ bound' \subseteq Route
    BY <1>1 DEF Prepare, TypeOK
  <2>2. ok => /\ table[r].form # "closure" => Named(r).cls # NoName
              /\ table[r].roles /\ table[r].form \in {"keys", "object"}
                 => user
    BY <1>1 DEF Prepare, HasRoles
  <2> QED
    BY <2>1, <2>2, NamedType
<1>2. CASE ~ArgsFit(r)
  <2>1. /\ rm' = [rm EXCEPT !.route = r, !.closure = (table[r].form = "closure")]
        /\ bound' = bound /\ ~ok
    BY <1>2 DEF Prepare
  <2>2. rm' \in Match /\ rm'.route = r
    BY <2>1 DEF TypeOK, Match
  <2> QED
    BY <2>1, <2>2 DEF TypeOK
<1> QED
  BY <1>1, <1>2
-----------------------------------------------------------------------------
(* Calling the object.                                                     *)

(* The route of m is the one the user may run, and m names its object.     *)
Good(m) ==
  /\ table[m.route].roles /\ table[m.route].form \in {"keys", "object"} => user
  /\ table[m.route].form # "closure" =>
       /\ m.cls # NoName
       /\ table[m.route].cls # NoName => m.cls = table[m.route].cls
       /\ table[m.route].mth # NoName => m.mth = table[m.route].mth

LEMMA CalledShape ==
  ASSUME NEW m \in Match, NEW by \in By, NEW at \in Stages(m),
         m.route # NoRoute, ObjectOf(m) # NoName
  PROVE  /\ Called(by, at, m) \in Frame
         /\ Called(by, at, m).by = by /\ Called(by, at, m).at = at
         /\ Called(by, at, m).route = m.route
         /\ m.cls # NoName =>
              /\ Called(by, at, m).cls = m.cls
              /\ at = "method" => Called(by, at, m).mth = m.mth
<1>1. /\ m.route \in Route /\ m.cls \in Class \cup {NoName}
      /\ m.mth \in Method \cup {NoName}
  BY DEF Match
<1>2. m.cls # NoName => ObjectOf(m) = m.cls /\ m.cls \in Class
  BY <1>1 DEF ObjectOf
<1>3. m.cls = NoName => ObjectOf(m) = Closure
  BY DEF ObjectOf
<1>4. CASE m.cls # NoName
  <2>1. ObjectOf(m) = m.cls /\ m.cls \in Class /\ m.cls # Closure
    BY <1>2, <1>4, RequestsAssumption
  <2>2. CASE at = "before"
    <3>1. Called(by, at, m) =
            [by |-> by, at |-> "before", route |-> m.route, cls |-> m.cls,
             mth |-> NoName, forwarded |-> FALSE]
      BY <2>1, <2>2 DEF Called
    <3> QED
      BY <3>1, <2>1, <2>2, <1>1 DEF Frame
  <2>3. CASE at # "before"
    <3>1. at = "method" /\ m.mth \in Method
      BY <2>1, <2>3, <1>1 DEF Stages
    <3>2. Called(by, at, m) =
            [by |-> by, at |-> "method", route |-> m.route, cls |-> m.cls,
             mth |-> m.mth, forwarded |-> FALSE]
      BY <2>1, <3>1 DEF Called
    <3>3. Called(by, at, m) \in Frame
      <4>1. /\ by \in By /\ m.route \in Route /\ m.cls \in Class \cup {Closure}
            /\ m.mth \in Method \cup {Closure}
        BY <3>1, <2>1, <1>1
      <4> QED
        BY <3>2, <4>1 DEF Frame
    <3> QED
      BY <3>1, <3>2, <3>3
  <2> QED
    BY <2>2, <2>3
<1>5. CASE m.cls = NoName
  <2>1. at = "method" /\ ObjectOf(m) = Closure
    BY <1>3, <1>5 DEF Stages
  <2>2. Called(by, at, m) =
          [by |-> by, at |-> "method", route |-> m.route, cls |-> Closure,
           mth |-> Closure, forwarded |-> FALSE]
    BY <2>1 DEF Called
  <2>3. Called(by, at, m) \in Frame
    BY <1>1, <2>2 DEF Frame
  <2> QED
    BY <1>5, <2>1, <2>2, <2>3
<1> QED
  BY <1>4, <1>5

LEMMA ObcallKeeps ==
  ASSUME TypeOK, SiteOK, Frames, UNCHANGED site, NEW by \in By,
         NEW m \in Match, m.mth = rm'.mth, by = "dispatch" => Good(m),
         Obcall(by, m)
  PROVE  /\ Frames' /\ calls' \in Seq(Frame)
         /\ reply' \in Reply /\ reply' # "answered"
<1>1. CASE calls' = Marked /\ reply' = Failed(by)
  <2>1. reply' \in Reply /\ reply' # "answered"
    BY <1>1 DEF Failed, Reply
  <2> QED
    BY <1>1, <2>1, MarkKeeps
<1>2. ASSUME m.route # NoRoute, ObjectOf(m) # NoName, reply' = "none",
             NEW at \in Stages(m), calls' = Append(Marked, Called(by, at, m))
      PROVE  /\ Frames' /\ calls' \in Seq(Frame)
             /\ reply' \in Reply /\ reply' # "answered"
  <2> DEFINE f == Called(by, at, m)
  <2>1. /\ f \in Frame /\ f.by = by /\ f.at = at /\ f.route = m.route
        /\ m.cls # NoName => /\ f.cls = m.cls
                             /\ at = "method" => f.mth = m.mth
    BY <1>2, CalledShape
  <2>2. calls' = Append(Marked, f)
    BY <1>2
  <2> HIDE DEF f
  <2>3. FrameOK(f)
    <3>1. by = "dispatch" => Good(m)
      OBVIOUS
    <3> QED
      BY <2>1, <3>1 DEF FrameOK, Good
  <2>4. Fresh(f, rm'.mth)
    BY <2>1 DEF Fresh, Good
  <2>5. Frames' /\ calls' \in Seq(Frame)
    BY <2>1, <2>2, <2>3, <2>4, PushKeeps
  <2> QED
    BY <1>2, <2>5 DEF Reply
<1> QED
  BY <1>1, <1>2 DEF Obcall
-----------------------------------------------------------------------------
(* Sending.                                                                *)
LEMMA GoesOutKeeps ==
  ASSUME TypeOK, Sendings, ~resp.sent, UNCHANGED resent,
         NEW content \in BOOLEAN, GoesOut(content)
  PROVE  resp' \in Answer /\ bodies' \in 0 .. 2 /\ headers' \in BOOLEAN
         /\ Sendings'
<1>1. /\ resp \in Answer /\ bodies \in 0 .. 2 /\ headers \in BOOLEAN
      /\ headers' = (headers \/ resp.status \/ content)
      /\ resp' = [resp EXCEPT !.content = content,
                             !.sent = resp.sent \/ content]
      /\ bodies' = IF content /\ bodies < 2 THEN bodies + 1 ELSE bodies
  BY DEF TypeOK, GoesOut
<1>2. /\ resp' \in Answer /\ resp'.sent = content
      /\ resp'.content = content /\ resp'.status = resp.status
      /\ resp.status \in BOOLEAN
  BY <1>1 DEF Answer
<1>3. /\ bodies' \in 0 .. 2 /\ (content => bodies' > 0)
      /\ bodies = 0 => bodies' = IF content THEN 1 ELSE 0
  BY <1>1
<1>4. ~resent => bodies = 0
  BY DEF Sendings
<1> QED
  BY <1>1, <1>2, <1>3, <1>4 DEF Sendings, EndsInAnswer

LEMMA KeptBackKeeps ==
  ASSUME TypeOK, Sendings, UNCHANGED resent, reply' # "answered",
         NEW content \in BOOLEAN, KeptBack(content)
  PROVE  resp' \in Answer /\ bodies' \in 0 .. 2 /\ headers' \in BOOLEAN
         /\ Sendings'
<1>1. /\ resp \in Answer /\ UNCHANGED out
      /\ resp' = [resp EXCEPT !.content = content]
  BY DEF TypeOK, KeptBack
<1>2. resp' \in Answer /\ resp'.sent = resp.sent
  BY <1>1 DEF Answer
<1> QED
  BY <1>1, <1>2 DEF Sendings, EndsInAnswer, TypeOK, out

(* respond, with the answer of the call that asked for it.                 *)
LEMMA RespondKeeps ==
  ASSUME TypeOK, Sendings, UNCHANGED resent, NEW value \in Value, NEW how \in Reply,
         Respond(value, how), reply' = how
  PROVE  resp' \in Answer /\ bodies' \in 0 .. 2 /\ headers' \in BOOLEAN
         /\ Sendings'
<1>1. CASE UNCHANGED <<resp, out>> /\ (how = "answered" => resp.sent)
  BY <1>1 DEF TypeOK, Sendings, EndsInAnswer, out
<1>2. ASSUME NEW content \in BOOLEAN, ~resp.sent, Sends(content, how)
      PROVE  resp' \in Answer /\ bodies' \in 0 .. 2 /\ headers' \in BOOLEAN
             /\ Sendings'
  BY <1>2, GoesOutKeeps, KeptBackKeeps DEF Sends
<1>3. resp.content \in BOOLEAN /\ resp.sent \in BOOLEAN
  BY DEF TypeOK, Answer
<1>4. CASE resp.sent
  BY <1>1, <1>4 DEF Respond, Open
<1>5. CASE ~resp.sent
  <2>1. CASE \E content \in BOOLEAN : Sends(content, how)
    BY <2>1, <1>2, <1>5
  <2>2. CASE how # "answered" /\ UNCHANGED <<resp, out>>
    BY <2>2, <1>1
  <2>3. (\E content \in BOOLEAN : Sends(content, how))
        \/ (how # "answered" /\ UNCHANGED <<resp, out>>)
    <3>1. value \in Value
      OBVIOUS
    <3> QED
      BY <3>1, <1>3, <1>5 DEF Respond, Open, Value
  <2> QED
    BY <2>1, <2>2, <2>3
<1> QED
  BY <1>3, <1>4, <1>5

LEMMA SendKeeps ==
  ASSUME TypeOK, Sendings, Send
  PROVE  resp' \in Answer /\ bodies' \in 0 .. 2 /\ headers' \in BOOLEAN
         /\ resent' \in BOOLEAN /\ Sendings'
<1>1. /\ resp \in Answer /\ bodies \in 0 .. 2 /\ headers \in BOOLEAN
      /\ resent \in BOOLEAN /\ resp.content \in BOOLEAN
      /\ resp.sent \in BOOLEAN
  BY DEF TypeOK, Answer
<1>2. resent' = (resent \/ resp.sent) /\ reply' = "none"
  BY DEF Send
<1>3. CASE KeptBack(resp.content)
  <2>1. resp' = [resp EXCEPT !.content = resp.content] /\ UNCHANGED out
    BY <1>3 DEF KeptBack
  <2>2. resp' \in Answer /\ resp'.sent = resp.sent
    BY <2>1, <1>1 DEF Answer
  <2> QED
    BY <1>1, <1>2, <2>1, <2>2 DEF Sendings, EndsInAnswer, out
<1>4. CASE GoesOut(resp.content)
  <2>1. /\ headers' = (headers \/ resp.status \/ resp.content)
        /\ resp' = [resp EXCEPT !.content = resp.content,
                                !.sent = resp.sent \/ resp.content]
        /\ bodies' = IF resp.content /\ bodies < 2 THEN bodies + 1 ELSE bodies
    BY <1>4 DEF GoesOut
  <2>2. resp' \in Answer /\ resp'.sent = (resp.sent \/ resp.content)
    BY <2>1, <1>1 DEF Answer
  <2>3. /\ bodies' \in 0 .. 2
        /\ resp.content \/ bodies > 0 => bodies' > 0
        /\ bodies = 0 => bodies' = IF resp.content THEN 1 ELSE 0
    BY <1>1, <2>1
  <2>4. ~resent' => bodies = 0
    BY <1>1, <1>2 DEF Sendings
  <2> QED
    BY <1>1, <1>2, <2>1, <2>2, <2>3, <2>4 DEF Sendings, EndsInAnswer
<1> QED
  BY <1>3, <1>4 DEF Send
-----------------------------------------------------------------------------
LEMMA InitIInv == ASSUME Init PROVE IInv
<1>1. SiteOK
  BY RequestsAssumption DEF Init, SiteOK
<1>2. rm \in Match /\ resp \in Answer /\ bound \subseteq Route
  BY DEF Init, Match, Answer
<1>3. calls \in Seq(Frame)
  BY DEF Init
<1>4. /\ reply \in Reply /\ headers \in BOOLEAN /\ bodies \in 0 .. 2
      /\ resent \in BOOLEAN
  <2>1. reply = "none" /\ headers = FALSE /\ bodies = 0 /\ resent = FALSE
    BY DEF Init
  <2>2. reply \in Reply
    BY <2>1 DEF Reply
  <2>3. bodies \in 0 .. 2
    BY <2>1
  <2>4. headers \in BOOLEAN /\ resent \in BOOLEAN
    BY <2>1
  <2> QED
    BY <2>2, <2>3, <2>4
<1>5. TypeOK
  BY <1>2, <1>3, <1>4 DEF TypeOK
<1> QED
  BY <1>1, <1>5 DEF Init, IInv, Frames, Sendings, EndsInAnswer

LEMMA SiteStep == ASSUME SiteOK, UNCHANGED site PROVE SiteOK'
  BY DEF SiteOK, site

LEMMA StepIInv == ASSUME IInv, [Next]_vars PROVE IInv'
<1> USE DEF IInv
<1>1. ASSUME NEW r \in Route \cup {NoRoute}, Find(r)
      PROVE  IInv'
  <2>1. rm \in Match
    BY DEF TypeOK
  <2>2. rm' \in Match /\ rm'.mth = rm.mth
    <3>1. CASE r = NoRoute
      BY <1>1, <2>1, <3>1 DEF Find, Match
    <3>2. CASE r # NoRoute
      <4>1. table[r].params \in BOOLEAN /\ r \in Route
        BY <1>1, <3>2 DEF SiteOK, Target
      <4> QED
        BY <1>1, <2>1, <3>2, <4>1 DEF Find, Match
    <3> QED
      BY <3>1, <3>2
  <2>3. TypeOK'
    BY <1>1, <2>2 DEF Find, TypeOK, sent, out, Reply
  <2>4. Frames'
    BY <1>1, <2>2 DEF Find, Frames, FrameOK, Fresh, site
  <2>5. Sendings'
    BY <1>1 DEF Find, Sendings, EndsInAnswer, sent, out
  <2> QED
    BY <1>1, <2>3, <2>4, <2>5, SiteStep DEF Find
<1>2. ASSUME NEW r \in Route, SetRoute(r)
      PROVE  IInv'
  <2>1. PICK ok \in BOOLEAN : Prepare(r, ok) /\ reply' = IF ok THEN "none" ELSE "error"
    BY <1>2 DEF SetRoute
  <2>2. rm' \in Match /\ bound' \subseteq Route
    BY <2>1, PrepareType
  <2>3. UNCHANGED site /\ calls' = Marked /\ UNCHANGED sent
    BY <1>2 DEF SetRoute
  <2>4. Frames' /\ calls' \in Seq(Frame)
    BY <2>3, MarkKeeps
  <2>5. TypeOK'
    BY <2>1, <2>2, <2>3, <2>4 DEF TypeOK, sent, out, Reply
  <2>6. Sendings'
    BY <2>1, <2>3 DEF Sendings, EndsInAnswer, sent, out
  <2> QED
    BY <2>3, <2>4, <2>5, <2>6, SiteStep
<1>3. CASE SetStatus \/ SetContent
  <2>1. /\ resp' \in Answer /\ resp'.sent = resp.sent
    BY <1>3 DEF TypeOK, Answer, SetStatus, SetContent
  <2>2. /\ UNCHANGED <<site, bound, rm, calls, out, resent>> /\ reply' = "none"
    BY <1>3 DEF SetStatus, SetContent
  <2>3. TypeOK'
    BY <2>1, <2>2 DEF TypeOK, out, Reply
  <2>4. Frames'
    BY <2>2 DEF Frames, FrameOK, Fresh, site
  <2>5. Sendings'
    BY <2>1, <2>2 DEF Sendings, EndsInAnswer, out
  <2> QED
    BY <2>2, <2>3, <2>4, <2>5, SiteStep
<1>4. CASE Send
  <2>1. /\ UNCHANGED <<site, bound, rm, calls>> /\ reply' = "none"
    BY <1>4 DEF Send
  <2>2. /\ resp' \in Answer /\ bodies' \in 0 .. 2 /\ headers' \in BOOLEAN
        /\ resent' \in BOOLEAN /\ Sendings'
    BY <1>4, SendKeeps
  <2>3. TypeOK'
    BY <2>1, <2>2 DEF TypeOK, Reply
  <2>4. Frames'
    BY <2>1 DEF Frames, FrameOK, Fresh, site
  <2> QED
    BY <2>1, <2>2, <2>3, <2>4, SiteStep
<1>5. CASE Dispatch
  <2>1. PICK ok \in BOOLEAN :
          /\ Prepare(rm.route, ok)
          /\ \/ reply' = "error" /\ calls' = Marked
             \/ ok /\ rm'.module /\ Obcall("dispatch", rm')
    BY <1>5 DEF Dispatch
  <2>2. /\ rm.route \in Route /\ UNCHANGED site /\ UNCHANGED sent
    BY <1>5 DEF Dispatch, TypeOK, Match
  <2>3. /\ rm' \in Match /\ bound' \subseteq Route /\ rm'.route = rm.route
        /\ ok => Good(rm')
    <3>1. /\ rm' \in Match /\ bound' \subseteq Route /\ rm'.route = rm.route
          /\ ok => /\ rm' = Named(rm.route)
                   /\ table[rm.route].form # "closure" =>
                        Named(rm.route).cls # NoName
                   /\ table[rm.route].roles
                      /\ table[rm.route].form \in {"keys", "object"} => user
      BY <2>1, <2>2, PrepareType
    <3>2. table[rm.route].form # "closure" =>
              /\ table[rm.route].cls # NoName =>
                   Named(rm.route).cls = table[rm.route].cls
              /\ table[rm.route].mth # NoName =>
                   Named(rm.route).mth = table[rm.route].mth
      BY <2>2, NamedType
    <3> QED
      BY <3>1, <3>2 DEF Good
  <2>4. /\ Frames' /\ calls' \in Seq(Frame)
        /\ reply' \in Reply /\ reply' # "answered"
    <3>1. CASE reply' = "error" /\ calls' = Marked
      BY <3>1, <2>2, MarkKeeps DEF Reply
    <3>2. CASE ok /\ Obcall("dispatch", rm')
      <4>1. "dispatch" \in By
        BY DEF By
      <4> QED
        BY <3>2, <4>1, <2>2, <2>3, ObcallKeeps
    <3> QED
      BY <2>1, <3>1, <3>2
  <2>5. TypeOK'
    BY <2>2, <2>3, <2>4 DEF TypeOK, sent, out
  <2>6. Sendings'
    BY <2>2, <2>4 DEF Sendings, EndsInAnswer, sent, out
  <2> QED
    BY <2>2, <2>4, <2>5, <2>6, SiteStep
<1>6. ASSUME NEW c \in Class, NEW m \in Method, Action(c, m) \/ DispatchError(c, m)
      PROVE  IInv'
  <2>1. rm' \in Match
    BY <1>6 DEF Action, DispatchError, CallInfo, TypeOK, Match
  <2>2. PICK by \in {"action", "error"} : Obcall(by, rm')
    BY <1>6 DEF Action, DispatchError
  <2>3. UNCHANGED <<site, bound, sent>>
    BY <1>6 DEF Action, DispatchError
  <2>4. /\ Frames' /\ calls' \in Seq(Frame)
        /\ reply' \in Reply /\ reply' # "answered"
    <3>1. by \in By /\ by # "dispatch"
      BY <2>2 DEF By
    <3> QED
      BY <2>1, <2>2, <2>3, <3>1, ObcallKeeps
  <2>5. TypeOK'
    BY <2>1, <2>3, <2>4 DEF TypeOK, sent, out
  <2>6. Sendings'
    BY <2>3, <2>4 DEF Sendings, EndsInAnswer, sent, out
  <2> QED
    BY <2>3, <2>4, <2>5, <2>6, SiteStep
<1>7. CASE Throws
  <2>1. /\ UNCHANGED <<site, bound, rm, sent>> /\ calls # <<>> /\ calls' = Below
        /\ reply' \in Reply /\ reply' # "answered"
    BY <1>7 DEF Throws, Failed, Reply
  <2>2. Frames' /\ calls' \in Seq(Frame)
    BY <2>1, PopKeeps
  <2>3. TypeOK'
    BY <2>1, <2>2 DEF TypeOK, sent, out
  <2>4. Sendings'
    BY <2>1 DEF Sendings, EndsInAnswer, sent, out
  <2> QED
    BY <2>1, <2>2, <2>3, <2>4, SiteStep
<1>8. ASSUME NEW value \in Value, calls # <<>>, Answers(value)
      PROVE  IInv'
  <2>1. Respond(value, reply')
    BY <1>8 DEF Answers
  <2>2. /\ UNCHANGED <<site, bound, rm, resent>> /\ calls' = Below
    BY <1>8 DEF Answers
  <2>3. reply' \in Reply
    BY <2>1 DEF Respond, Sends, Reply
  <2>4. /\ resp' \in Answer /\ bodies' \in 0 .. 2 /\ headers' \in BOOLEAN
        /\ Sendings'
    BY <2>1, <2>2, <2>3, RespondKeeps
  <2>5. Frames' /\ calls' \in Seq(Frame)
    BY <1>8, <2>2, PopKeeps
  <2>6. TypeOK'
    BY <2>2, <2>3, <2>4, <2>5 DEF TypeOK
  <2> QED
    BY <2>2, <2>4, <2>5, <2>6, SiteStep
<1>9. CASE BeforeGoesOn
  <2>1. UNCHANGED <<site, bound, rm, sent, reply>>
    BY <1>9 DEF BeforeGoesOn
  <2>2. Frames' /\ calls' \in Seq(Frame)
    BY <1>9, GoesOnKeeps
  <2>3. TypeOK'
    BY <2>1, <2>2 DEF TypeOK, sent, out
  <2>4. Sendings'
    BY <2>1 DEF Sendings, EndsInAnswer, sent, out
  <2> QED
    BY <2>1, <2>2, <2>3, <2>4, SiteStep
<1>10. CASE UNCHANGED vars
  BY <1>10 DEF vars, TypeOK, SiteOK, Frames, FrameOK, Fresh, Sendings,
             EndsInAnswer
<1>11. ASSUME NEW v \in Value, MethodReturns(v) \/ BeforeStops(v)
       PROVE  IInv'
  BY <1>8, <1>11 DEF MethodReturns, BeforeStops
<1>12. {"other", "response"} \subseteq Value
  BY DEF Value
<1> QED
  BY <1>1, <1>2, <1>3, <1>4, <1>5, <1>6, <1>7, <1>9, <1>10, <1>11, <1>12
  DEF Next

LEMMA IInvHolds == Spec => []IInv
  BY InitIInv, StepIInv, PTL DEF Spec

(* The RouteMatch, the Response and the handlers keep their types.         *)
THEOREM TypeCorrect == Spec => []TypeOK
<1>1. IInv => TypeOK
  BY DEF IInv
<1> QED
  BY <1>1, IInvHolds, PTL

(* A handler run by dispatch is of the class and method of its route, if   *)
(* no forward came between (RouteMatch::prepare_call, RouteMatch::call).   *)
THEOREM DispatchRunsRoute == Spec => []RunsItsRoute
<1>1. IInv => RunsItsRoute
  <2> SUFFICES ASSUME IInv, NEW i \in DOMAIN calls
               PROVE  LET f == calls[i]
                          t == table[f.route]
                      IN  f.by = "dispatch" /\ t.form # "closure" =>
                            /\ t.cls # NoName => f.cls = t.cls
                            /\ f.at = "method" /\ ~f.forwarded /\ t.mth # NoName
                               => f.mth = t.mth
    BY DEF RunsItsRoute
  <2>1. i \in 1 .. Len(calls)
    BY DEF IInv, TypeOK
  <2>2. FrameOK(calls[i])
    BY <2>1 DEF IInv, Frames
  <2> QED
    BY <2>2 DEF FrameOK
<1> QED
  BY <1>1, IInvHolds, PTL

(* No handler of a route that asks for roles runs for a user without them  *)
(* (RouteMatch::allow_call).                                               *)
THEOREM RolesAreAsked == Spec => []RolesHold
<1>1. IInv => RolesHold
  <2> SUFFICES ASSUME IInv, NEW i \in DOMAIN calls
               PROVE  LET t == table[calls[i].route]
                      IN  /\ calls[i].by = "dispatch"
                          /\ t.roles /\ t.form \in {"keys", "object"}
                          => user
    BY DEF RolesHold
  <2>1. i \in 1 .. Len(calls)
    BY DEF IInv, TypeOK
  <2>2. FrameOK(calls[i])
    BY <2>1 DEF IInv, Frames
  <2> QED
    BY <2>2 DEF FrameOK
<1> QED
  BY <1>1, IInvHolds, PTL

(* One body goes out, unless a script sends a response that was sent       *)
(* (Dispatch::respond, Response::send).                                    *)
THEOREM OneBodyGoesOut == Spec => []OneBody
<1>1. IInv => OneBody
  BY DEF IInv, Sendings, OneBody
<1> QED
  BY <1>1, IInvHolds, PTL

(* When a call has ended well and its response was not kept back, what the *)
(* response has has gone out (Dispatch::respond, Response::send).          *)
THEOREM AnsweredMeansSent == Spec => []EndsInAnswer
<1>1. IInv => EndsInAnswer
  BY DEF IInv, Sendings
<1> QED
  BY <1>1, IInvHolds, PTL
-----------------------------------------------------------------------------
(***************************************************************************)
(* The session, for any number of overlapping requests: what UserSession   *)
(* holds is what is saved, and a logout holds until a request that         *)
(* overlapped it saves.  GoodSession is about one request on its own;      *)
(* FreshSession is about the login its user data come from.  Each function *)
(* on request states keeps both (the first lemmas), so each call does, and *)
(* only the steps that end or begin a request, or log out, need an         *)
(* argument of their own.                                                  *)
(***************************************************************************)

\* what the user data of one request have to do with its session
GoodSession(s) ==
  /\ s.linked => s.sess = s.data /\ s.data # Null
  /\ s.at = "script" /\ s.wasRead /\ ~s.ended => s.linked /\ s.active
  /\ s.at = "script" /\ ~s.ended => s.local = None
  /\ s.at = "caches" /\ s.wasRead /\ ~s.ended /\ ~s.active => s.local = s.data
  /\ s.ended => ~s.session
  /\ s.at \in {"idle", "nodata"} => s.local = None /\ ~s.active /\ s.data = Null

\* user data of the login that is current
Current(d) == d \in UserData => d.login = logouts

\* nothing the request may still save is of an earlier login
FreshSession(s) ==
  /\ Current(s.local)
  /\ s.active => Current(s.sess)
  /\ ~s.ended => Current(s.data)

SessionIInv ==
  /\ SessionTypeOK
  /\ \A r \in Request : GoodSession(q[r])
  /\ ~revived => /\ Current(package)
                 /\ \A r \in Request \ late : FreshSession(q[r])

\* a request in its script
Script(s) == s \in RequestState /\ s.at = "script" /\ GoodSession(s)
-----------------------------------------------------------------------------
(* The functions on request states.                                        *)

USE UserSessionAssumption DEF Session

\* Only the login of an object counts, and a change keeps it.
LEMMA ChangeKeeps ==
  ASSUME NEW s, Script(s), NEW d \in UserData, s.data # Null,
         d.login = s.data.login
  PROVE  /\ Script(Change(s, d))
         /\ FreshSession(s) => FreshSession(Change(s, d))
         /\ Change(s, d).data # Null
<1>1. s \in RequestState /\ s.data \in UserData
  BY DEF Script, RequestState
<1>2. Change(s, d) \in RequestState
  BY <1>1 DEF Change, RequestState
<1>3. GoodSession(Change(s, d)) /\ Change(s, d).at = "script"
  BY <1>1 DEF Change, RequestState, Script, GoodSession
<1>4. FreshSession(s) => FreshSession(Change(s, d))
  BY <1>1 DEF Change, RequestState, Script, GoodSession, FreshSession, Current
<1>5. Change(s, d).data # Null
  BY <1>1 DEF Change, RequestState
<1>6. QED BY <1>2, <1>3, <1>4, <1>5 DEF Script

LEMMA DirtyKeeps ==
  ASSUME NEW s, Script(s)
  PROVE  Script(Dirty(s)) /\ (FreshSession(s) => FreshSession(Dirty(s)))
         /\ Dirty(s).data = s.data
BY DEF Script, RequestState, Dirty, GoodSession, FreshSession

\* The user data in hand become those of the session.
LEMMA PutKeeps ==
  ASSUME NEW s, Script(s), ~s.ended
  PROVE  Script(Put(s)) /\ (FreshSession(s) => FreshSession(Put(s)))
<1>1. CASE s.active
  <2>1. s \in RequestState /\ s.data \in UserData \cup {Null}
    BY DEF Script, RequestState
  <2>2. Put(s) \in RequestState
    BY <1>1, <2>1 DEF Put, RequestState
  <2>3. GoodSession(Put(s)) /\ Put(s).at = "script"
    BY <1>1, <2>1 DEF Put, RequestState, Script, GoodSession
  <2>4. FreshSession(s) => FreshSession(Put(s))
    BY <1>1, <2>1 DEF Put, RequestState, FreshSession
  <2>5. QED BY <2>2, <2>3, <2>4 DEF Script
<1>2. CASE ~s.active
  BY <1>2 DEF Put
<1>3. QED BY <1>1, <1>2

LEMMA GetSessionKeeps ==
  ASSUME NEW s, Script(s), NEW t \in GetSession(s)
  PROVE  /\ Script(t) /\ (FreshSession(s) => FreshSession(t))
         /\ t.ended = s.ended /\ t.wasRead = s.wasRead
         /\ t.session => ~t.ended
<1>1. s \in RequestState /\ GoodSession(s) /\ s.at = "script"
  BY DEF Script
<1>2. CASE s.session \/ s.ended
  BY <1>1, <1>2 DEF GetSession, Script, GoodSession
<1>3. CASE ~(s.session \/ s.ended)
  <2>1. t = [s EXCEPT !.session = TRUE]
    BY <1>3 DEF GetSession
  <2>2. QED BY <1>1, <1>3, <2>1 DEF Script, RequestState, GoodSession, FreshSession
<1>4. QED BY <1>2, <1>3

LEMMA WriteKeeps ==
  ASSUME NEW s, Script(s), NEW force \in BOOLEAN, NEW t \in Write(s, force)
  PROVE  Script(t) /\ (FreshSession(s) => FreshSession(t))
<1> DEFINE c == [s EXCEPT !.doWrite = FALSE]
<1>1. Script(c) /\ (FreshSession(s) => FreshSession(c))
  BY DEF Script, RequestState, GoodSession, FreshSession
<1>2. t = s \/ t = c \/ \E u \in GetSession(c) : t = IF u.session THEN Put(u) ELSE u
  BY DEF Write, GetSessionFails
<1>3. ASSUME NEW u \in GetSession(c), t = IF u.session THEN Put(u) ELSE u
      PROVE  Script(t) /\ (FreshSession(s) => FreshSession(t))
  <2>1. Script(u) /\ (FreshSession(c) => FreshSession(u)) /\ (u.session => ~u.ended)
    BY <1>1, GetSessionKeeps
  <2>2. CASE u.session
    BY <1>1, <1>3, <2>1, <2>2, PutKeeps
  <2>3. CASE ~u.session
    BY <1>1, <1>3, <2>1, <2>3
  <2>4. QED BY <2>2, <2>3
<1>4. QED BY <1>1, <1>2, <1>3

\* A session that starts brings what the package or the memory layer has.
LEMMA StartKeeps ==
  ASSUME NEW s, Script(s), ~s.active, SessionTypeOK
  PROVE  /\ Started(s) \in RequestState
         /\ GoodSession(Started(s)) /\ Started(s).at = "script"
         /\ Started(s).active
         /\ FreshSession(s) /\ Current(package) => FreshSession(Started(s))
<1>1. s \in RequestState /\ package \in Session \cup {None}
  BY DEF Script, SessionTypeOK
<1>2. Loaded(s) \in Session
  BY <1>1 DEF Loaded, RequestState
<1>3. Started(s) \in RequestState /\ Started(s).active
  BY <1>1, <1>2 DEF Started, RequestState
<1>4. GoodSession(Started(s)) /\ Started(s).at = "script"
  BY <1>1 DEF Started, RequestState, Script, GoodSession
<1>5. FreshSession(s) /\ Current(package) => Current(Loaded(s))
  BY <1>1 DEF FreshSession, Current, Loaded
<1>6. FreshSession(s) /\ Current(package) => FreshSession(Started(s))
  BY <1>1, <1>5 DEF FreshSession, Started, RequestState
<1>7. QED BY <1>3, <1>4, <1>6

LEMMA NewUserDataType ==
  ASSUME SessionTypeOK
  PROVE  NewUserData \in UserData /\ Current(NewUserData)
BY DEF NewUserData, UserData, SessionTypeOK, Current

LEMMA AdoptedKeeps ==
  ASSUME SessionTypeOK, NEW s, Script(s), s.active, ~s.ended, ~s.wasRead,
         NEW t \in Adopted(s)
  PROVE  Script(t) /\ t.wasRead /\ (FreshSession(s) => FreshSession(t))
<1>1. s \in RequestState
  BY DEF Script
<1>2. CASE s.sess \in UserData
  <2>1. PICK b \in BOOLEAN :
          t = [s EXCEPT !.data = s.sess, !.linked = TRUE, !.wasRead = TRUE,
                        !.doWrite = b]
    BY <1>2 DEF Adopted
  <2>2. t \in RequestState /\ t.wasRead
    BY <1>1, <1>2, <2>1 DEF RequestState
  <2>3. GoodSession(t) /\ t.at = "script"
    BY <1>1, <1>2, <2>1 DEF RequestState, Script, GoodSession
  <2>4. FreshSession(s) => FreshSession(t)
    BY <1>1, <2>1 DEF RequestState, FreshSession
  <2>5. QED BY <2>2, <2>3, <2>4 DEF Script
<1>3. CASE s.sess \notin UserData
  <2> DEFINE n == [s EXCEPT !.data = NewUserData, !.wasRead = TRUE]
  <2>1. t = Dirty(Put(n))
    BY <1>3 DEF Adopted
  <2>2. NewUserData \in UserData /\ NewUserData # Null /\ Current(NewUserData)
    BY NewUserDataType
  <2>3. Put(n) = [s EXCEPT !.data = NewUserData, !.wasRead = TRUE,
                           !.sess = NewUserData, !.linked = TRUE]
    BY <1>1, <2>2 DEF Put, RequestState
  <2>4. Put(n) \in RequestState /\ Put(n).wasRead
    BY <1>1, <2>2, <2>3, ZenonT(30) DEF RequestState
  <2>5. GoodSession(Put(n)) /\ Put(n).at = "script"
    BY <1>1, <2>2, <2>3, ZenonT(30) DEF RequestState, Script, GoodSession
  <2>6. FreshSession(s) => FreshSession(Put(n))
    BY <1>1, <2>2, <2>3 DEF RequestState, FreshSession
  <2>7. Script(Put(n))
    BY <2>4, <2>5 DEF Script
  <2>8. t.wasRead
    BY <2>1, <2>4 DEF Dirty, RequestState
  <2>9. QED BY <2>1, <2>6, <2>7, <2>8, DirtyKeeps
<1>4. QED BY <1>2, <1>3

LEMMA ReadKeeps ==
  ASSUME SessionTypeOK, NEW s, Script(s), NEW t \in Read(s)
  PROVE  Script(t) /\ (FreshSession(s) /\ Current(package) => FreshSession(t))
<1>1. CASE s.wasRead \/ s.ended
  BY <1>1 DEF Read
<1>2. CASE ~(s.wasRead \/ s.ended)
  <2> DEFINE c == [s EXCEPT !.doWrite = FALSE]
  <2>1. Script(c) /\ ~c.wasRead /\ ~c.ended /\ (FreshSession(s) => FreshSession(c))
    BY <1>2 DEF Script, RequestState, GoodSession, FreshSession
  <2>2. \/ t = c
        \/ \E u \in GetSession(c) : t = [u EXCEPT !.data = Null, !.linked = FALSE]
        \/ \E u \in GetSession(c) : ~u.active /\ t \in Adopted(Started(u))
    BY <1>2 DEF Read, GetSessionFails
  <2>3. ASSUME NEW u \in GetSession(c)
        PROVE  /\ Script(u) /\ ~u.ended /\ ~u.wasRead
               /\ FreshSession(c) => FreshSession(u)
    BY <2>1, GetSessionKeeps
  <2>4. ASSUME NEW u \in GetSession(c),
               t = [u EXCEPT !.data = Null, !.linked = FALSE]
        PROVE  Script(t) /\ (FreshSession(s) => FreshSession(t))
    <3>1. Script(u) /\ ~u.ended /\ ~u.wasRead /\ (FreshSession(s) => FreshSession(u))
      BY <2>1, <2>3
    <3>2. t \in RequestState /\ t.at = "script" /\ GoodSession(t)
      BY <2>4, <3>1 DEF Script, RequestState, GoodSession
    <3>3. FreshSession(u) => FreshSession(t)
      BY <2>4, <3>1 DEF Script, RequestState, FreshSession, Current
    <3>4. QED BY <3>1, <3>2, <3>3 DEF Script
  <2>5. ASSUME NEW u \in GetSession(c), ~u.active, t \in Adopted(Started(u))
        PROVE  Script(t) /\ (FreshSession(s) /\ Current(package) => FreshSession(t))
    <3>1. Script(u) /\ ~u.ended /\ ~u.wasRead /\ (FreshSession(s) => FreshSession(u))
      BY <2>1, <2>3
    <3>2. /\ Script(Started(u)) /\ Started(u).active
          /\ FreshSession(u) /\ Current(package) => FreshSession(Started(u))
      BY <2>5, <3>1, StartKeeps DEF Script
    <3>3. ~Started(u).ended /\ ~Started(u).wasRead
      BY <3>1 DEF Started, Script, RequestState
    <3>4. QED BY <2>5, <3>1, <3>2, <3>3, AdoptedKeeps
  <2>6. QED BY <2>1, <2>2, <2>4, <2>5
<1>3. QED BY <1>1, <1>2

LEMMA ValidUserKeeps ==
  ASSUME NEW s, Script(s), s.data # Null, NEW roles \in SUBSET Role
  PROVE  /\ Script(ValidUser(s, roles))
         /\ FreshSession(s) => FreshSession(ValidUser(s, roles))
         /\ ValidUser(s, roles).data # Null
<1> DEFINE d == [s.data EXCEPT !.keys = NoKeys, !.roles = roles]
<1>1. s.data \in UserData
  BY DEF Script, RequestState
<1>2. d \in UserData /\ d.login = s.data.login
  BY <1>1 DEF UserData
<1>3. QED BY <1>2, ChangeKeeps DEF ValidUser

LEMMA WipedKeeps ==
  ASSUME NEW s, Script(s), s.data # Null
  PROVE  Script(Wiped(s)) /\ (FreshSession(s) => FreshSession(Wiped(s)))
<1>1. {Guest} \in SUBSET Role
  OBVIOUS
<1>2. QED BY <1>1, ValidUserKeeps, DirtyKeeps DEF Wiped
-----------------------------------------------------------------------------
(* The steps.                                                              *)

LEMMA SessionInitial == SessionInit => SessionIInv
<1> SUFFICES ASSUME SessionInit PROVE SessionIInv
  OBVIOUS
<1>1. NewUserData \in UserData
  BY DEF SessionInit, NewUserData, UserData
<1>2. Gone("idle") \in RequestState
  BY <1>1 DEF Gone, NewRequest, RequestState
<1>3. SessionTypeOK
  BY <1>2 DEF SessionInit, SessionTypeOK
<1>4. GoodSession(Gone("idle")) /\ FreshSession(Gone("idle"))
  BY <1>1 DEF Gone, NewRequest, GoodSession, FreshSession, Current
<1>5. Current(package)
  BY DEF SessionInit, Current
<1>6. QED BY <1>3, <1>4, <1>5 DEF SessionInit, SessionIInv

\* One request changes, and what it may save stays as fresh as it was.
LEMMA BecomesStep ==
  ASSUME SessionIInv, NEW r \in Request, NEW s \in RequestState, Becomes(r, s),
         GoodSession(s), ~revived /\ r \notin late => FreshSession(s),
         UNCHANGED <<package, ghost>>
  PROVE  SessionIInv'
<1>1. q' = [q EXCEPT ![r] = s] /\ q \in [Request -> RequestState]
  BY DEF Becomes, SessionIInv, SessionTypeOK
<1>2. UNCHANGED <<package, logouts, late, revived>>
  BY DEF ghost
<1>3. SessionTypeOK'
  BY <1>1, <1>2 DEF SessionIInv, SessionTypeOK
<1>4. \A x \in Request : GoodSession(q'[x])
  BY <1>1 DEF SessionIInv
<1>5. \A x \in Request : x # r => q'[x] = q[x]
  BY <1>1
<1>6. ASSUME ~revived
      PROVE  /\ Current(package)
             /\ \A x \in Request \ late : FreshSession(q'[x])
  BY <1>1, <1>5, <1>6 DEF SessionIInv
<1>7. (~revived => /\ Current(package)
                   /\ \A x \in Request \ late : FreshSession(q[x]))'
  BY <1>2, <1>6 DEF Current, FreshSession
<1>8. (\A x \in Request : GoodSession(q[x]))'
  BY <1>4 DEF GoodSession
<1>9. QED BY <1>3, <1>7, <1>8 DEF SessionIInv

\* The same, when it stays in its script.
LEMMA ScriptStep ==
  ASSUME SessionIInv, NEW r \in Request, Running(r), NEW s, Script(s), Becomes(r, s),
         FreshSession(q[r]) /\ Current(package) => FreshSession(s),
         UNCHANGED <<package, ghost>>
  PROVE  SessionIInv'
<1>1. ~revived /\ r \notin late => FreshSession(s)
  BY DEF SessionIInv
<1>2. QED BY <1>1, BecomesStep DEF Script

LEMMA RunningScript ==
  ASSUME SessionIInv, NEW r \in Request, Running(r)
  PROVE  SessionTypeOK /\ Script(q[r])
BY DEF SessionIInv, SessionTypeOK, Running, Script

LEMMA GoneKept ==
  ASSUME SessionIInv, NEW at \in {"idle", "nodata"}
  PROVE  Gone(at) \in RequestState /\ GoodSession(Gone(at)) /\ FreshSession(Gone(at))
<1>1. NewUserData \in UserData
  BY NewUserDataType DEF SessionIInv
<1>2. Gone(at) \in RequestState
  BY <1>1 DEF Gone, NewRequest, RequestState
<1>3. GoodSession(Gone(at)) /\ FreshSession(Gone(at))
  BY DEF Gone, NewRequest, GoodSession, FreshSession, Current
<1>4. QED BY <1>2, <1>3

\* A request that is gone has nothing left to save.
LEMMA DiesStep ==
  ASSUME SessionIInv, NEW r \in Request, NEW at \in {"idle", "nodata"}, Dies(r, at)
  PROVE  SessionIInv'
<1>1. /\ q' = [q EXCEPT ![r] = Gone(at)] /\ q \in [Request -> RequestState]
      /\ late' = late \ {r} /\ UNCHANGED <<package, logouts, revived>>
  BY DEF Dies, Becomes, SessionIInv, SessionTypeOK
<1>2. Gone(at) \in RequestState /\ GoodSession(Gone(at)) /\ FreshSession(Gone(at))
  BY GoneKept
<1>3. SessionTypeOK'
  BY <1>1, <1>2 DEF SessionIInv, SessionTypeOK
<1>4. \A x \in Request : GoodSession(q'[x])
  BY <1>1, <1>2 DEF SessionIInv
<1>5. ~revived => /\ Current(package)
                  /\ \A x \in Request \ late' : FreshSession(q'[x])
  <2> SUFFICES ASSUME ~revived, NEW x \in Request \ late'
               PROVE  Current(package) /\ FreshSession(q'[x])
    BY DEF SessionIInv
  <2>1. CASE x = r
    BY <1>1, <1>2, <2>1 DEF SessionIInv
  <2>2. CASE x # r
    BY <1>1, <2>2 DEF SessionIInv
  <2>3. QED BY <2>1, <2>2
<1>6. (~revived => /\ Current(package)
                   /\ \A x \in Request \ late : FreshSession(q[x]))'
  BY <1>1, <1>5 DEF Current, FreshSession
<1>7. (\A x \in Request : GoodSession(q[x]))'
  BY <1>4 DEF GoodSession
<1>8. QED BY <1>3, <1>6, <1>7 DEF SessionIInv

LEMMA NullDataStep ==
  ASSUME SessionIInv, NEW r \in Request, NEW call, NullData(r, call)
  PROVE  SessionIInv'
BY DiesStep DEF NullData

LEMMA CallStep ==
  ASSUME SessionIInv, NEW r \in Request, Call(r), ~Nullify(r)
  PROVE  SessionIInv'
<1> DEFINE s == q[r]
<1>0. Running(r) => SessionTypeOK /\ Script(s)
  BY RunningScript
<1>1. CASE Start(r)
  <2>1. Running(r) /\ ~s.active /\ Becomes(r, Started(s))
        /\ UNCHANGED <<package, ghost>>
    BY <1>1 DEF Start
  <2>2. Script(Started(s)) /\ (FreshSession(s) /\ Current(package) => FreshSession(Started(s)))
    BY <1>0, <2>1, StartKeeps DEF Script
  <2>3. QED BY <2>1, <2>2, ScriptStep
<1>2. CASE ReadCall(r)
  <2>1. PICK t \in Read(s) : Becomes(r, t)
    BY <1>2 DEF ReadCall
  <2>2. Running(r) /\ UNCHANGED <<package, ghost>>
    BY <1>2 DEF ReadCall
  <2>3. QED BY <1>0, <2>1, <2>2, ReadKeeps, ScriptStep
<1>3. ASSUME NEW call, GetUserData(r, call)
      PROVE  SessionIInv'
  <2>1. PICK t \in Read(s) :
          IF t.data = Null THEN NullData(r, call)
          ELSE Becomes(r, t) /\ UNCHANGED <<package, ghost>>
    BY <1>3 DEF GetUserData
  <2>2. Running(r)
    BY <1>3 DEF GetUserData
  <2>3. CASE t.data = Null
    BY <2>1, <2>3, NullDataStep
  <2>4. CASE t.data # Null
    BY <1>0, <2>1, <2>2, <2>4, ReadKeeps, ScriptStep
  <2>5. QED BY <2>3, <2>4
<1>4. ASSUME NEW roles \in SUBSET Role, AddUserRoles(r, roles)
      PROVE  SessionIInv'
  <2>1. Running(r)
    BY <1>4 DEF AddUserRoles
  <2>2. PICK t \in Read(s) :
          IF t.data = Null THEN NullData(r, "getUserData")
          ELSE LET u == Change(t, [t.data EXCEPT !.roles = @ \cup roles]) IN
               /\ Becomes(r, IF roles \subseteq t.data.roles THEN u ELSE Dirty(u))
               /\ UNCHANGED <<package, ghost>>
    BY <1>4 DEF AddUserRoles
  <2>3. CASE t.data = Null
    BY <2>2, <2>3, NullDataStep
  <2>4. CASE t.data # Null
    <3> DEFINE d == [t.data EXCEPT !.roles = @ \cup roles]
    <3>1. Script(t) /\ (FreshSession(s) /\ Current(package) => FreshSession(t))
      BY <1>0, <2>1, ReadKeeps
    <3>2. t.data \in UserData
      BY <2>4, <3>1 DEF Script, RequestState
    <3>3. d \in UserData /\ d.login = t.data.login
      BY <3>2 DEF UserData
    <3>4. Script(Change(t, d)) /\ (FreshSession(t) => FreshSession(Change(t, d)))
      BY <2>4, <3>1, <3>3, ChangeKeeps
    <3>5. /\ Script(Dirty(Change(t, d)))
          /\ FreshSession(Change(t, d)) => FreshSession(Dirty(Change(t, d)))
      BY <3>4, DirtyKeeps
    <3>6. UNCHANGED <<package, ghost>>
      BY <2>2, <2>4
    <3>7. CASE roles \subseteq t.data.roles
      <4>1. Becomes(r, Change(t, d))
        BY <2>2, <2>4, <3>7
      <4>2. QED BY <2>1, <3>1, <3>4, <3>6, <4>1, ScriptStep
    <3>8. CASE ~(roles \subseteq t.data.roles)
      <4>1. Becomes(r, Dirty(Change(t, d)))
        BY <2>2, <2>4, <3>8
      <4>2. QED BY <2>1, <3>1, <3>4, <3>5, <3>6, <4>1, ScriptStep
    <3>9. QED BY <3>7, <3>8
  <2>5. QED BY <2>3, <2>4
<1>5. ASSUME NEW v \in KeyValue \cup {NoKeys}, NEW b \in BOOLEAN, SetKey(r, v, b)
      PROVE  SessionIInv'
  <2>1. Running(r)
    BY <1>5 DEF SetKey
  <2>2. CASE s.data = Null
    BY <1>5, <2>2, NullDataStep DEF SetKey
  <2>3. CASE s.data # Null
    <3> DEFINE d == [s.data EXCEPT !.keys = v]
    <3>1. Script(s) /\ s.data \in UserData
      BY <1>0, <2>1, <2>3 DEF Script, RequestState
    <3>2. d \in UserData /\ d.login = s.data.login
      BY <3>1 DEF UserData
    <3>3. Script(Change(s, d)) /\ (FreshSession(s) => FreshSession(Change(s, d)))
      BY <2>3, <3>1, <3>2, ChangeKeeps
    <3>4. /\ Script(Dirty(Change(s, d)))
          /\ FreshSession(Change(s, d)) => FreshSession(Dirty(Change(s, d)))
      BY <3>3, DirtyKeeps
    <3>5. UNCHANGED <<package, ghost>>
      BY <1>5, <2>3 DEF SetKey
    <3>6. Becomes(r, Change(s, d)) \/ Becomes(r, Dirty(Change(s, d)))
      BY <1>5, <2>3 DEF SetKey
    <3>7. QED BY <2>1, <3>3, <3>4, <3>5, <3>6, ScriptStep
  <2>4. QED BY <2>2, <2>3
<1>6. ASSUME NEW roles \in SUBSET Role, SetValidUser(r, roles)
      PROVE  SessionIInv'
  <2>1. Running(r)
    BY <1>6 DEF SetValidUser
  <2>2. CASE s.data = Null
    BY <1>6, <2>2, NullDataStep DEF SetValidUser
  <2>3. CASE s.data # Null
    <3>1. Becomes(r, ValidUser(s, roles)) /\ UNCHANGED <<package, ghost>>
      BY <1>6, <2>3 DEF SetValidUser
    <3>2. QED BY <1>0, <2>1, <2>3, <3>1, ValidUserKeeps, ScriptStep
  <2>4. QED BY <2>2, <2>3
<1>7. CASE GuestSession(r)
  <2>1. Running(r)
    BY <1>7 DEF GuestSession
  <2>2. CASE s.data = Null
    BY <1>7, <2>2, NullDataStep DEF GuestSession
  <2>3. CASE s.data # Null
    <3>1. PICK t \in Write(Wiped(s), FALSE) : Becomes(r, t)
      BY <1>7, <2>3 DEF GuestSession
    <3>2. UNCHANGED <<package, ghost>>
      BY <1>7, <2>3 DEF GuestSession
    <3>3. Script(Wiped(s)) /\ (FreshSession(s) => FreshSession(Wiped(s)))
      BY <1>0, <2>1, <2>3, WipedKeeps
    <3>4. Script(t) /\ (FreshSession(s) => FreshSession(t))
      BY <3>1, <3>3, WriteKeeps
    <3>5. QED BY <2>1, <3>1, <3>2, <3>4, ScriptStep
  <2>4. QED BY <2>2, <2>3
<1>8. CASE Wipe(r)
  <2>1. Running(r)
    BY <1>8 DEF Wipe
  <2>2. CASE s.data = Null
    BY <1>8, <2>2, NullDataStep DEF Wipe
  <2>3. CASE s.data # Null
    <3>1. Becomes(r, Wiped(s)) /\ UNCHANGED <<package, ghost>>
      BY <1>8, <2>3 DEF Wipe
    <3>2. QED BY <1>0, <2>1, <2>3, <3>1, WipedKeeps, ScriptStep
  <2>4. QED BY <2>2, <2>3
<1>9. CASE DelayWrite(r)
  <2>1. Running(r) /\ Becomes(r, Dirty(s)) /\ UNCHANGED <<package, ghost>>
    BY <1>9 DEF DelayWrite
  <2>2. QED BY <1>0, <2>1, DirtyKeeps, ScriptStep
<1>10. ASSUME NEW b \in BOOLEAN, WriteCall(r, b)
       PROVE  SessionIInv'
  <2>1. PICK t \in Write(s, b) : Becomes(r, t)
    BY <1>10 DEF WriteCall
  <2>2. Running(r) /\ UNCHANGED <<package, ghost>>
    BY <1>10 DEF WriteCall
  <2>3. QED BY <1>0, <2>1, <2>2, WriteKeeps, ScriptStep
<1>11. CASE Activate(r)
  <2>1. PICK t \in Write(Dirty(s), FALSE) : Becomes(r, t)
    BY <1>11 DEF Activate
  <2>2. Running(r) /\ UNCHANGED <<package, ghost>>
    BY <1>11 DEF Activate
  <2>3. Script(Dirty(s)) /\ (FreshSession(s) => FreshSession(Dirty(s)))
    BY <1>0, <2>2, DirtyKeeps
  <2>4. Script(t) /\ (FreshSession(s) => FreshSession(t))
    BY <2>1, <2>3, WriteKeeps
  <2>5. QED BY <2>1, <2>2, <2>4, ScriptStep
<1>12. CASE Updated(r)
  <2>1. PICK t \in GetSession(s) : Becomes(r, IF t.session THEN Put(t) ELSE t)
    BY <1>12 DEF Updated
  <2>2. Running(r) /\ UNCHANGED <<package, ghost>>
    BY <1>12 DEF Updated
  <2>3. Script(t) /\ (FreshSession(s) => FreshSession(t)) /\ (t.session => ~t.ended)
    BY <1>0, <2>2, GetSessionKeeps
  <2>4. CASE t.session
    <3>1. Script(Put(t)) /\ (FreshSession(t) => FreshSession(Put(t)))
      BY <2>3, <2>4, PutKeeps
    <3>2. QED BY <2>1, <2>2, <2>3, <2>4, <3>1, ScriptStep
  <2>5. CASE ~t.session
    BY <2>1, <2>2, <2>3, <2>5, ScriptStep
  <2>6. QED BY <2>4, <2>5
<1>13. QED
  BY <1>1, <1>2, <1>3, <1>4, <1>5, <1>6, <1>7, <1>8, <1>9, <1>10, <1>11, <1>12
     DEF Call

\* Logging out: nothing is left that this request could save, and who else
\* could is late.
LEMMA NullifyStep ==
  ASSUME SessionIInv, NEW r \in Request, Nullify(r)
  PROVE  SessionIInv'
<1>1. Running(r) /\ SessionTypeOK /\ Script(q[r])
  BY RunningScript DEF Nullify
<1>2. PICK s \in Read(q[r]) :
       IF s.data = Null
       THEN NullData(r, "nullify")
       ELSE LET w == IF s.data.roles = {} THEN s ELSE Wiped(s)
                e == [w EXCEPT !.session = FALSE, !.ended = TRUE] IN
            IF s.session /\ s.active
            THEN /\ logouts < MaxLogout
                 /\ logouts' = logouts + 1
                 /\ package' = Destroyed
                 /\ Becomes(r, [e EXCEPT !.active = FALSE, !.sess = Absent,
                                         !.linked = FALSE])
                 /\ late' = {x \in Request \ {r} : ~Idle(x)}
                 /\ revived' = FALSE
            ELSE /\ Becomes(r, Closed(e))
                 /\ UNCHANGED <<package, ghost>>
  BY DEF Nullify
<1>3. Script(s) /\ (FreshSession(q[r]) /\ Current(package) => FreshSession(s))
  BY <1>1, ReadKeeps
<1>4. CASE s.data = Null
  BY <1>2, <1>4, NullDataStep
<1>5. CASE s.data # Null
  <2> DEFINE w == IF s.data.roles = {} THEN s ELSE Wiped(s)
             e == [w EXCEPT !.session = FALSE, !.ended = TRUE]
             n == [e EXCEPT !.active = FALSE, !.sess = Absent, !.linked = FALSE]
  <2>1. Script(w) /\ (FreshSession(s) => FreshSession(w))
    BY <1>3, <1>5, WipedKeeps
  <2>2. w.local = s.local
    BY <1>3 DEF Wiped, Dirty, ValidUser, Change, Script, RequestState
  <2>3. CASE s.session /\ s.active
    <3>1. /\ logouts' = logouts + 1 /\ package' = None /\ Becomes(r, n)
          /\ late' = {x \in Request \ {r} : ~Idle(x)} /\ revived' = FALSE
      BY <1>2, <1>5, <2>3 DEF Destroyed
    <3>2. w.local = None
      BY <1>3, <2>2, <2>3 DEF Script, GoodSession
    <3>3. n \in RequestState
      BY <2>1, ZenonT(40) DEF Script, RequestState
    <3>4. n.local = None /\ ~n.active /\ n.ended /\ ~n.linked /\ ~n.session
          /\ n.at = "script"
      BY <2>1, <3>2 DEF Script, RequestState
    <3>5. GoodSession(n)
      BY <3>4 DEF GoodSession
    <3>6. q' = [q EXCEPT ![r] = n] /\ q \in [Request -> RequestState]
      BY <1>1, <3>1 DEF Becomes, SessionTypeOK
    <3>7. SessionTypeOK'
      <4>1. q' \in [Request -> RequestState]
        BY <3>3, <3>6
      <4>2. logouts' \in Nat /\ late' \subseteq Request
        BY <1>1, <3>1 DEF SessionTypeOK
      <4>3. package' \in Session \cup {None} /\ revived' \in BOOLEAN
        BY <3>1
      <4>4. QED BY <4>1, <4>2, <4>3 DEF SessionTypeOK
    <3>8. (\A x \in Request : GoodSession(q[x]))'
      BY <3>5, <3>6 DEF SessionIInv, GoodSession
    <3>9. Current(package)'
      BY <3>1 DEF Current
    <3>10. ASSUME NEW x \in Request \ late'
           PROVE  q'[x].local = None /\ ~q'[x].active
                  /\ (q'[x].ended \/ q'[x].data = Null)
      <4>1. CASE x = r
        BY <3>4, <3>6, <4>1
      <4>2. CASE x # r
        <5>1. q'[x] = q[x] /\ q[x].at \in {"idle", "nodata"} /\ GoodSession(q[x])
          BY <3>1, <3>6, <4>2 DEF Idle, SessionIInv
        <5>2. QED BY <5>1 DEF GoodSession
      <4>3. QED BY <4>1, <4>2
    <3>11. (\A x \in Request \ late : FreshSession(q[x]))'
      BY <3>10 DEF FreshSession, Current
    <3>12. QED BY <3>7, <3>8, <3>9, <3>11 DEF SessionIInv
  <2>4. CASE ~(s.session /\ s.active)
    <3>1. Becomes(r, Closed(e)) /\ UNCHANGED <<package, ghost>>
      BY <1>2, <1>5, <2>4
    <3>2. Closed(e) \in RequestState /\ Closed(e).at = "script"
      BY <2>1, ZenonT(40) DEF Closed, Script, RequestState
    <3>3. GoodSession(Closed(e))
      BY <2>1 DEF Closed, Script, RequestState, GoodSession
    <3>4. FreshSession(w) => FreshSession(Closed(e))
      BY <2>1 DEF Closed, Script, RequestState, FreshSession
    <3>5. QED BY <1>1, <1>3, <2>1, <3>1, <3>2, <3>3, <3>4, ScriptStep DEF Script
  <2>5. QED BY <2>3, <2>4
<1>6. QED BY <1>4, <1>5

LEMMA BeginStep ==
  ASSUME SessionIInv, NEW r \in Request, Begin(r)
  PROVE  SessionIInv'
<1>1. NewUserData \in UserData /\ Current(NewUserData)
  BY NewUserDataType DEF SessionIInv
<1>2. NewRequest \in RequestState /\ GoodSession(NewRequest) /\ FreshSession(NewRequest)
  BY <1>1 DEF NewRequest, RequestState, GoodSession, FreshSession, Current
<1>3. QED BY <1>2, BecomesStep DEF Begin

\* What Run::shutdown closes is what the request held.
LEMMA ShutdownStep ==
  ASSUME SessionIInv, NEW r \in Request, Shutdown(r)
  PROVE  SessionIInv'
<1>1. CASE ShutdownSession(r)
  <2> DEFINE s == [q[r] EXCEPT !.at = "caches"]
  <2>1. Script(q[r])
    BY <1>1, RunningScript DEF ShutdownSession
  <2>2. /\ Becomes(r, s) \/ Becomes(r, Closed(s))
        /\ Becomes(r, s) => s.active \/ ~Saved(s) \/ Becomes(r, Closed(s))
        /\ Becomes(r, Closed(s)) => Saved(s) \/ Becomes(r, s)
        /\ UNCHANGED <<package, ghost>>
    BY <1>1 DEF ShutdownSession
  <2>3. CASE Saved(s) /\ Becomes(r, Closed(s))
    <3>1. Closed(s) \in RequestState
      BY <2>1, ZenonT(40) DEF Closed, Script, RequestState
    <3>2. GoodSession(Closed(s))
      BY <2>1, <2>3 DEF Closed, Saved, Script, RequestState, GoodSession
    <3>3. FreshSession(q[r]) => FreshSession(Closed(s))
      BY <2>1, <2>3 DEF Closed, Saved, Script, RequestState, FreshSession
    <3>4. ~revived /\ r \notin late => FreshSession(q[r])
      BY DEF SessionIInv
    <3>5. QED BY <2>2, <2>3, <3>1, <3>2, <3>3, <3>4, BecomesStep
  <2>4. CASE (s.active \/ ~Saved(s)) /\ Becomes(r, s)
    <3>1. s \in RequestState
      BY <2>1 DEF Script, RequestState
    <3>2. GoodSession(s)
      BY <2>1, <2>4 DEF Saved, Script, RequestState, GoodSession
    <3>3. FreshSession(q[r]) => FreshSession(s)
      BY <2>1 DEF Script, RequestState, FreshSession
    <3>4. ~revived /\ r \notin late => FreshSession(q[r])
      BY DEF SessionIInv
    <3>5. QED BY <2>2, <2>4, <3>1, <3>2, <3>3, <3>4, BecomesStep
  <2>5. QED BY <1>1, <2>3, <2>4 DEF ShutdownSession
<1>2. CASE FlushCaches(r)
  <2>1. /\ q' = [q EXCEPT ![r] = Gone("idle")] /\ q \in [Request -> RequestState]
        /\ package' = IF q[r].local # None THEN q[r].local ELSE package
        /\ revived' = (revived \/ (r \in late /\ q[r].local # None))
        /\ late' = late \ {r} /\ logouts' = logouts
    BY <1>2 DEF FlushCaches, Becomes, SessionIInv, SessionTypeOK
  <2>2. /\ Gone("idle") \in RequestState /\ GoodSession(Gone("idle"))
        /\ FreshSession(Gone("idle"))
    BY GoneKept
  <2>3. q[r] \in RequestState
    BY <2>1
  <2>4. package' \in Session \cup {None}
    BY <2>1, <2>3 DEF RequestState, SessionIInv, SessionTypeOK
  <2>5. SessionTypeOK'
    BY <2>1, <2>2, <2>4 DEF SessionIInv, SessionTypeOK
  <2>6. (\A x \in Request : GoodSession(q[x]))'
    BY <2>1, <2>2 DEF SessionIInv, GoodSession
  <2>7. ASSUME ~revived'
        PROVE  Current(package)' /\ (\A x \in Request \ late : FreshSession(q[x]))'
    <3>1. ~revived /\ (q[r].local # None => r \notin late)
      BY <2>1, <2>7 DEF SessionIInv, SessionTypeOK
    <3>2. Current(package')
      BY <2>1, <3>1 DEF SessionIInv, FreshSession
    <3>3. \A x \in Request \ late' : FreshSession(q'[x])
      <4> SUFFICES ASSUME NEW x \in Request \ late'
                   PROVE  FreshSession(q'[x])
        OBVIOUS
      <4>1. CASE x = r
        BY <2>1, <2>2, <4>1
      <4>2. CASE x # r
        BY <2>1, <3>1, <4>2 DEF SessionIInv
      <4>3. QED BY <4>1, <4>2
    <3>4. QED BY <2>1, <3>2, <3>3 DEF Current, FreshSession
  <2>8. QED BY <2>5, <2>6, <2>7 DEF SessionIInv
<1>3. CASE Abort(r)
  BY <1>3, DiesStep DEF Abort
<1>4. QED BY <1>1, <1>2, <1>3 DEF Shutdown

LEMMA LoseStep == SessionIInv /\ Lose => SessionIInv'
<1> SUFFICES ASSUME SessionIInv, Lose PROVE SessionIInv'
  OBVIOUS
<1>1. package' = None /\ UNCHANGED <<q, logouts, late, revived>>
  BY DEF Lose, ghost
<1>2. SessionTypeOK' /\ (\A r \in Request : GoodSession(q[r]))'
  BY <1>1 DEF SessionIInv, SessionTypeOK, GoodSession
<1>3. (~revived => Current(package) /\ \A r \in Request \ late : FreshSession(q[r]))'
  BY <1>1 DEF SessionIInv, FreshSession, Current
<1>4. QED BY <1>2, <1>3 DEF SessionIInv

LEMMA SessionInductive == SessionIInv /\ [SessionNext]_sessionVars => SessionIInv'
<1> SUFFICES ASSUME SessionIInv, [SessionNext]_sessionVars PROVE SessionIInv'
  OBVIOUS
<1>1. CASE UNCHANGED sessionVars
  <2>1. SessionTypeOK' /\ (\A r \in Request : GoodSession(q[r]))'
    BY <1>1 DEF sessionVars, SessionIInv, SessionTypeOK, GoodSession
  <2>2. (~revived => Current(package) /\ \A r \in Request \ late : FreshSession(q[r]))'
    BY <1>1 DEF sessionVars, SessionIInv, FreshSession, Current
  <2>3. QED BY <2>1, <2>2 DEF SessionIInv
<1>2. CASE Lose
  BY <1>2, LoseStep
<1>3. ASSUME NEW r \in Request, Begin(r) \/ Call(r) \/ Shutdown(r)
      PROVE  SessionIInv'
  BY <1>3, BeginStep, CallStep, NullifyStep, ShutdownStep
<1>4. QED BY <1>1, <1>2, <1>3 DEF SessionNext

LEMMA SessionInvariance == SessionSpec => []SessionIInv
BY SessionInitial, SessionInductive, PTL DEF SessionSpec

(* Every variable has its type, however requests overlap.                  *)
THEOREM SessionTypeCorrect == SessionSpec => []SessionTypeOK
<1>1. SessionIInv => SessionTypeOK
  BY DEF SessionIInv
<1>2. QED BY <1>1, SessionInvariance, PTL

(* What a request holds after it read the session is what Run::shutdown    *)
(* leaves in the cache.                                                    *)
THEOREM SavedIsHeldAlways == SessionSpec => []SavedIsHeld
<1>1. SessionIInv => SavedIsHeld
  BY DEF SessionIInv, SavedIsHeld, GoodSession
<1>2. QED BY <1>1, SessionInvariance, PTL

(* A logout holds until a request that was running then saves the session. *)
THEOREM LogoutHoldsAlways == SessionSpec => []LogoutHolds
<1>1. SessionIInv => LogoutHolds
  BY DEF SessionIInv, LogoutHolds, Current
<1>2. QED BY <1>1, SessionInvariance, PTL
=============================================================================
