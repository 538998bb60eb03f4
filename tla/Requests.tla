------------------------------ MODULE Requests ------------------------------
(***************************************************************************)
(* One PHP request: the RouteMatch that is asked which route fits and      *)
(* prepares its call (route_match.cpp), the Dispatch that makes the call   *)
(* (dispatch.cpp) and the Response it answers with (global_response.cpp).  *)
(* A handler is PHP code: while it runs, as the beforeCall of an object or *)
(* as its method, it may forward, dispatch again or write the response     *)
(* itself, on the same three objects.  An action is a call a script makes, *)
(* from its entry to its end or to the first handler it runs.              *)
(***************************************************************************)
EXTENDS Naturals, Sequences, FiniteSets

CONSTANTS
  Route,      \* the routes of the site
  Class,      \* classes of handlers
  Method,     \* names of methods
  Tables,     \* what the routes may say, functions from Route to Target
  NoRoute,    \* no route
  NoName,     \* a class or method that has not been set
  Closure,    \* what runs when a route names a PHP function
  MaxNest     \* handlers that run inside each other

\* The forms of a target: a list of module, class, method and arguments, an
\* array with keys, a Target object, or a closure.
Form   == {"list", "keys", "object", "closure"}
Target == [form : Form, cls : Class \cup {NoName}, mth : Method \cup {NoName},
           module : BOOLEAN, roles : BOOLEAN, params : BOOLEAN]

ASSUME RequestsAssumption ==
  /\ Tables \subseteq [Route -> Target]
  /\ NoRoute \notin Route
  /\ NoName \notin Class /\ NoName \notin Method
  /\ Closure \notin Class /\ Closure # NoName
  /\ MaxNest \in Nat /\ MaxNest > 0

VARIABLES
  table,    \* the targets of the routes
  bound,    \* the routes whose params_ hold values, no longer positions
  user,     \* UserData has the roles the routes ask for
  held,     \* output is buffered, or PHP runs on the command line
  rm,       \* the RouteMatch
  resp,     \* the Response
  calls,    \* the handlers that run, each inside the one before
  reply,    \* how the last call of a script ended
  headers,  \* ghost: headers have gone out
  bodies,   \* ghost: how many bodies have, counted up to two
  resent    \* ghost: a script called send() on a response that was sent

vars == <<table, bound, user, held, rm, resp, calls, reply, headers, bodies,
          resent>>
site == <<table, user, held>>
out  == <<headers, bodies>>
sent == <<resp, out, resent>>

Match == [route : Route \cup {NoRoute}, matched : BOOLEAN, module : BOOLEAN,
          cls : Class \cup {NoName}, mth : Method \cup {NoName},
          closure : BOOLEAN]
Answer == [status : BOOLEAN, content : BOOLEAN, sent : BOOLEAN]
\* A call of a handler ends well, without a word, or with an error.
Reply  == {"none", "answered", "quiet", "error"}
By     == {"dispatch", "action", "error"}
Frame  == [by : By, at : {"before"}, route : Route, cls : Class,
           mth : {NoName}, forwarded : BOOLEAN]
          \cup [by : By, at : {"method"}, route : Route,
                cls : Class \cup {Closure}, mth : Method \cup {Closure},
                forwarded : BOOLEAN]

Top   == calls[Len(calls)]
Below == SubSeq(calls, 1, Len(calls) - 1)
\* A script runs: the site's own, or a handler that has called back.
CanCall == Len(calls) < MaxNest

Init ==
  /\ table \in Tables
  /\ bound = {}
  /\ user \in BOOLEAN
  /\ held \in BOOLEAN
  /\ rm = [route |-> NoRoute, matched |-> FALSE, module |-> FALSE,
           cls |-> NoName, mth |-> NoName, closure |-> FALSE]
  /\ resp = [status |-> FALSE, content |-> FALSE, sent |-> FALSE]
  /\ calls = <<>>
  /\ reply = "none"
  /\ headers = FALSE /\ bodies = 0 /\ resent = FALSE
-----------------------------------------------------------------------------
(* RouteMatch: finding a route and preparing its call.                     *)

\* findRoute: a route with parameters is found by its pattern, which leaves
\* the pieces in match_args_; any other by its path, which empties them.
\* When nothing fits only route_ is forgotten.
Find(r) ==
  /\ CanCall
  /\ rm' = IF r = NoRoute
           THEN [rm EXCEPT !.route = NoRoute]
           ELSE [rm EXCEPT !.route = r, !.matched = table[r].params]
  /\ reply' = "none"
  /\ UNCHANGED <<site, bound, sent, calls>>

\* fetchArgs: params_ give the place of each piece, until prepare_call puts
\* the values there, which fetchArgs then takes for places.
ArgsFit(r) == table[r].params => rm.matched /\ r \notin bound

\* mutant: a name that is set is not set again
KeepsFirst(t, old, new) == IF old # NoName THEN old ELSE new

\* What an array does not say stays as it was, and a closure says nothing.
Overrides(t, old, new) ==
  IF t.form = "closure" \/ (t.form # "object" /\ new = NoName)
  THEN old ELSE new

\* prepare_call on the names.  A list gives its module only to a RouteMatch
\* that has one; an object always says which, if only the default.
Named(r) ==
  LET t == table[r] IN
  [rm EXCEPT !.route = r, !.closure = (t.form = "closure"),
             !.cls = Overrides(t, @, t.cls),
             !.mth = Overrides(t, @, t.mth),
             !.module = CASE t.form = "object" -> t.module \/ t.roles
                          [] t.form = "keys"   -> @ \/ t.module
                          [] OTHER             -> @]

\* mutant: the roles of an object target are not asked for
RolesOfArrays(r) == table[r].form = "keys" /\ table[r].roles

\* A list has no place for roles, and a closure is not asked for any.
HasRoles(r) == table[r].form \in {"keys", "object"} /\ table[r].roles

\* prepare_call.  What it needs besides (assets, user data, the arguments of
\* the method, which the query may lack) may be missing.
Prepare(r, ok) ==
  IF ArgsFit(r)
  THEN /\ bound' = IF table[r].params THEN bound \cup {r} ELSE bound
       /\ rm' = Named(r)
       /\ \/ ok /\ table[r].form = "closure"
          \/ /\ table[r].form # "closure"
             /\ ok => /\ Named(r).cls # NoName /\ Named(r).mth # NoName
                      /\ HasRoles(r) => user
  ELSE /\ ~ok
       /\ rm' = [rm EXCEPT !.route = r,
                           !.closure = (table[r].form = "closure")]
       /\ UNCHANGED bound

\* Whoever calls from a beforeCall may change what its call goes on with.
Marked == IF calls # <<>> /\ Top.at = "before"
          THEN [calls EXCEPT ![Len(calls)].forwarded = TRUE] ELSE calls

SetRoute(r) ==
  /\ CanCall
  /\ \E ok \in BOOLEAN :
       Prepare(r, ok) /\ reply' = IF ok THEN "none" ELSE "error"
  /\ calls' = Marked
  /\ UNCHANGED <<site, sent>>
-----------------------------------------------------------------------------
(* Response.                                                               *)

\* send: an event may refuse it, and headers do not go out once output has.
\* Without content nothing counts as sent, and a response that has no headers
\* either is sent without a word going out.  (There is no file to send.)
KeptBack(content) ==
  /\ resp' = [resp EXCEPT !.content = content]
  /\ UNCHANGED out

GoesOut(content) ==
  /\ held \/ bodies = 0
  /\ headers' = (headers \/ resp.status \/ content)
  /\ bodies' = IF content /\ bodies < 2 THEN bodies + 1 ELSE bodies
  /\ resp' = [resp EXCEPT !.content = content, !.sent = resp.sent \/ content]

\* setStatusCode, redirect, and Dispatch::forward to an address
SetStatus ==
  /\ CanCall
  /\ resp' = [resp EXCEPT !.status = TRUE]
  /\ reply' = "none"
  /\ UNCHANGED <<site, bound, rm, calls, out, resent>>

SetContent ==
  /\ CanCall
  /\ resp' = [resp EXCEPT !.content = TRUE]
  /\ reply' = "none"
  /\ UNCHANGED <<site, bound, rm, calls, out, resent>>

\* A script that sends what was sent gets an exception, but not before it
\* has been sent again.
Send ==
  /\ CanCall
  /\ KeptBack(resp.content) \/ GoesOut(resp.content)
  /\ resent' = (resent \/ resp.sent)
  /\ reply' = "none"
  /\ UNCHANGED <<site, bound, rm, calls>>

\* mutant: respond does not ask whether the response has been sent
AlwaysOpen == TRUE

\* mutant: a response that has a status counts as sent
OpenWithoutStatus == ~resp.status

Open == ~resp.sent

\* respond sends; nobody learns when the response is kept back.
Sends(content, how) ==
  \/ how = "answered" /\ GoesOut(content)
  \/ how = "quiet" /\ KeptBack(content)

\* respond, on what a handler returned.  For null it asks for content or a
\* status, but what getStatusCode returns counts as true whatever it holds:
\* it always sends, and never says that there is no status.
Respond(value, how) ==
  IF ~Open
  THEN how = "answered" /\ UNCHANGED <<resp, out>>
  ELSE \/ value \in {"null", "response"} /\ Sends(resp.content, how)
       \/ value = "text" /\ Sends(TRUE, how)
       \/ value = "other" /\ how = "quiet" /\ UNCHANGED <<resp, out>>
-----------------------------------------------------------------------------
(* Dispatch: calling the object.                                           *)

\* RouteMatch::call asks for the class first: the closure of a route runs
\* only when no class was ever set.
ObjectOf(m) == IF m.cls # NoName THEN m.cls
               ELSE IF m.closure THEN Closure ELSE NoName

\* dispatchError gives up without a word.
Failed(by) == IF by = "error" THEN "quiet" ELSE "error"

\* What a call may begin with: a closure has no beforeCall, and an object
\* is called by the name of a method.
Stages(m) == IF ObjectOf(m) = Closure THEN {"method"}
             ELSE {"before"} \cup IF m.mth = NoName THEN {} ELSE {"method"}

Called(by, at, m) ==
  [by |-> by, at |-> at, route |-> m.route, cls |-> ObjectOf(m),
   mth |-> CASE at = "before"          -> NoName
             [] ObjectOf(m) = Closure  -> Closure
             [] OTHER                  -> m.mth,
   forwarded |-> FALSE]

\* obcall on the RouteMatch as it is now: there is nothing to call, or the
\* object cannot be made, or a handler runs.
Obcall(by, m) ==
  \/ /\ m.route = NoRoute \/ ObjectOf(m) # Closure
     /\ reply' = Failed(by) /\ calls' = Marked
  \/ /\ m.route # NoRoute /\ ObjectOf(m) # NoName
     /\ \E at \in Stages(m) : calls' = Append(Marked, Called(by, at, m))
     /\ reply' = "none"

\* Between prepare_call and obcall a module is asked for and made active and
\* the template engine set up; each may fail.  Without a route there is
\* nothing to dispatch: the process would end on a null pointer.
Dispatch ==
  /\ CanCall /\ rm.route # NoRoute
  /\ \E ok \in BOOLEAN :
       /\ Prepare(rm.route, ok)
       /\ \/ reply' = "error" /\ calls' = Marked
          \/ ok /\ rm'.module /\ Obcall("dispatch", rm')
  /\ UNCHANGED <<site, sent>>

CallInfo(c, m) == [rm EXCEPT !.cls = c, !.mth = m]

\* action, and forward to an array: the module is set on the RouteMatch, no
\* roles are asked for.
Action(c, m) ==
  /\ CanCall
  /\ rm' = [CallInfo(c, m) EXCEPT !.module = TRUE]
  /\ Obcall("action", rm')
  /\ UNCHANGED <<site, bound, sent>>

\* dispatchError gives up when obcall does, without a word.
DispatchError(c, m) ==
  /\ CanCall
  /\ rm' = CallInfo(c, m)
  /\ Obcall("error", rm')
  /\ UNCHANGED <<site, bound, sent>>
-----------------------------------------------------------------------------
(* How a handler ends.                                                     *)

\* An exception is the error of the call, and so is a method with no name.
Throws ==
  /\ calls # <<>>
  /\ calls' = Below
  /\ reply' = Failed(Top.by)
  /\ UNCHANGED <<site, bound, rm, sent>>

\* respond, which reports no error.  (There is a Response to be had.)
Answers(value) ==
  /\ Respond(value, reply')
  /\ calls' = Below
  /\ UNCHANGED <<site, bound, rm, resent>>

MethodReturns(value) == calls # <<>> /\ Top.at = "method" /\ Answers(value)

\* beforeCall stops the call with false or with an object, which is then
\* what respond is given.
BeforeStops(value) == calls # <<>> /\ Top.at = "before" /\ Answers(value)

\* Any other result lets the call go on, with the method and arguments the
\* RouteMatch has by now, on the object that was made before.
BeforeGoesOn ==
  /\ calls # <<>> /\ Top.at = "before" /\ rm.mth # NoName
  /\ calls' = [calls EXCEPT ![Len(calls)].at = "method",
                            ![Len(calls)].mth = rm.mth]
  /\ UNCHANGED <<site, bound, rm, sent, reply>>

Value == {"null", "text", "response", "other"}

Next ==
  \/ \E r \in Route \cup {NoRoute} : Find(r)
  \/ \E r \in Route : SetRoute(r)
  \/ SetStatus \/ SetContent \/ Send
  \/ Dispatch
  \/ \E c \in Class, m \in Method : Action(c, m) \/ DispatchError(c, m)
  \/ Throws
  \/ \E v \in Value : MethodReturns(v)
  \/ \E v \in {"other", "response"} : BeforeStops(v)
  \/ BeforeGoesOn

Spec == Init /\ [][Next]_vars
-----------------------------------------------------------------------------
TypeOK ==
  /\ bound \subseteq Route
  /\ rm \in Match
  /\ resp \in Answer
  /\ calls \in Seq(Frame)
  /\ reply \in Reply
  /\ headers \in BOOLEAN /\ bodies \in 0 .. 2
  /\ resent \in BOOLEAN

(* However handlers forward and dispatch from inside each other, one body  *)
(* goes out, unless a script calls send() on a response that was sent.     *)
OneBody == ~resent => bodies <= 1

(* When a call has ended well and its response was not kept back, nothing  *)
(* the response has is left behind, whoever of the handlers set it and     *)
(* whoever sent: with content a body has gone out, with a status headers.  *)
(* A response that has neither is left unsent without an error.            *)
EndsInAnswer ==
  reply = "answered" =>
    /\ resp.content => bodies > 0
    /\ resp.status => headers

(* Whatever the RouteMatch was used for before, a dispatch runs an object  *)
(* of its route's class, with the route's method if the beforeCall did not *)
(* forward.                                                                *)
RunsItsRoute ==
  \A i \in DOMAIN calls :
    LET f == calls[i]
        t == table[f.route]
    IN  f.by = "dispatch" /\ t.form # "closure" =>
          /\ t.cls # NoName => f.cls = t.cls
          /\ f.at = "method" /\ ~f.forwarded /\ t.mth # NoName =>
               f.mth = t.mth

(* A route that asks for roles is only dispatched for a user who has them. *)
RolesHold ==
  \A i \in DOMAIN calls :
    LET t == table[calls[i].route]
    IN  /\ calls[i].by = "dispatch"
        /\ t.roles /\ t.form \in {"keys", "object"}
        => user
=============================================================================
