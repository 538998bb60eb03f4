------------------------------- MODULE Routes -------------------------------
(***************************************************************************)
(* The routes of an application: RouteSet (route_set.cpp) compiles the     *)
(* patterns of its Routes (route.cpp) and groups them, RouteMatch          *)
(* (route_match.cpp) looks for the route of a request and takes its        *)
(* arguments from the URI, and the set may be stored (serialize) by one    *)
(* request and read by a later one.  What a match does after it has its    *)
(* arguments is the module Requests.                                       *)
(*                                                                         *)
(* A path is the sequence of the words between its slashes, "/" the path   *)
(* of one empty word.  A pattern is a sequence of literals and parameters. *)
(* A serialized set and an object that a script still holds are equal in   *)
(* what they keep of a route, so the copies of a route share its name.     *)
(***************************************************************************)
EXTENDS Naturals, Sequences, FiniteSets, SequencesExt

CONSTANTS
  Words,       \* words of a path, names of parameters
  Empty,       \* the word of no letters
  Blank,       \* a word of blanks at the end of a pattern
  Raw,         \* "{x}" left in a URL
  Fillable,    \* names that routeUrl knows: a letter, then letters and digits
  Lower,       \* to_lower
  Decode,      \* php_url_decode
  Route,       \* Route objects
  Declared,    \* what a script made each of: pattern, verbs, ajax, name
  PrefixWords,    \* prefixes that addRoutes is given
  Asks,        \* what requests ask for: uri, verbs, ajax
  Given,       \* words that a URL is made with
  None,        \* no route, no name, no prefix
  OwnCompile,  \* routes that a script may compile itself
  OwnChoice,   \* routes that a script may set without a search
  MaxAdds,     \* bound on the routes added in one request
  MaxTimes,    \* bound on how often one route is added
  MaxLength,   \* bound on a pattern
  MaxRequests  \* bound on the requests

\* A segment of blanks is no parameter: what makes it one is a letter.
Segment == ({"literal"} \X (Words \cup {Blank})) \cup ({"parameter"} \X Words)
Ask     == [uri: Seq(Words), verbs: SUBSET {"GET", "POST"},
            ajax: SUBSET {"plain", "ajax"}]

ASSUME RoutesAssumption ==
  /\ {Empty, Raw} \subseteq Words /\ Blank \notin Words /\ Fillable \subseteq Words
  /\ Lower \in [Words -> Words] /\ \A w \in Words: Lower[Lower[w]] = Lower[w]
  /\ Decode \in [Words -> Words]
  /\ \A r \in Route: Declared[r].pattern \in Seq(Segment) /\ Len(Declared[r].pattern) > 0
  /\ Asks \subseteq Ask /\ PrefixWords \subseteq Words /\ None \notin PrefixWords \cup Route
  /\ OwnCompile \subseteq Route /\ OwnChoice \subseteq Route
  /\ Given \subseteq Words
  /\ {MaxAdds, MaxTimes, MaxLength, MaxRequests} \subseteq Nat /\ MaxRequests > 0

VARIABLES
  object,    \* the fields of each Route
  prefix,    \* prefix_
  fixed,     \* fixed_: groups of routes without parameters, in order
  vary,      \* vary_: groups of routes with parameters, in order
  index,     \* nameIndex_
  match,     \* the RouteMatch
  requests,  \* how many requests there were
  added,     \* ghost: the routes of the set, with their keys, as they came
  indexed,   \* ghost: how many of them were there when index was made
  spent,     \* ghost: routes whose positions a match has overwritten
  moved      \* ghost: routes compiled again while they were in the set

vars == <<object, prefix, fixed, vary, index, match, requests,
          added, indexed, spent, moved>>
ghosts == <<added, indexed, spent, moved>>

IsParameter(s) == s[1] = "parameter"
Literal(uri)   == [i \in DOMAIN uri |-> <<"literal", uri[i]>>]
Root           == Literal(<<Empty>>)
Parameters(p)  == {i \in DOMAIN p: IsParameter(p[i])}
Names(p)       == {p[i][2]: i \in Parameters(p)}
Rank(p, i)     == Cardinality({j \in Parameters(p): j <= i})

-----------------------------------------------------------------------------
(* compile: lower case, the prefix before it, a position for each name.    *)

Compiles(p) == \A i \in DOMAIN p: p[i][2] # Blank
Path(pre)   == IF pre = None THEN <<>> ELSE Literal(<<pre>>)

\* mutant: the names of parameters keep their case.
PrefixedKeepsNames(pre, p) ==
  IF p = Root THEN IF pre = None THEN Root ELSE Path(pre)
  ELSE Path(pre) \o [i \in DOMAIN p |-> IF IsParameter(p[i]) THEN p[i] ELSE <<p[i][1], Lower[p[i][2]]>>]

Prefixed(pre, p) ==
  IF p = Root THEN IF pre = None THEN Root ELSE Path(pre)
  ELSE Path(pre) \o [i \in DOMAIN p |-> <<p[i][1], Lower[p[i][2]]>>]

\* A name that comes twice keeps its last position.
Positions(p) == [n \in Names(p) |-> Max({Rank(p, i): i \in {j \in Parameters(p): p[j][2] = n}})]

\* compiled_, the regular expression: the names are gone from it.
Key(p) == [i \in DOMAIN p |-> IF IsParameter(p[i]) THEN <<"parameter", Empty>> ELSE p[i]]

Compiled(pre, o) ==
  LET p == Prefixed(pre, o.pattern) IN
  IF ~Compiles(o.pattern) THEN o
  ELSE [pattern |-> p, done |-> TRUE,
        params |-> IF Names(p) = {} THEN o.params ELSE Positions(p),
        used |-> IF Names(p) = {} THEN o.used ELSE FALSE]

-----------------------------------------------------------------------------
(* appendRoute: a table in the order of its keys, a list under each.       *)

AppendRoute(groups, key, r) ==
  LET g == SelectInSeq(groups, LAMBDA e: e.key = key) IN
  IF g = 0 THEN Append(groups, [key |-> key, routes |-> <<r>>])
  ELSE [groups EXCEPT ![g].routes = Append(@, r)]

Fields(r) == [pattern |-> Declared[r].pattern, done |-> FALSE, params |-> <<>>, used |-> FALSE]
HasParams(o) == DOMAIN o.params # {}

\* addRoute: the result of compile is not looked at.
Add(pre, r) ==
  LET o   == IF object[r].done THEN object[r] ELSE Compiled(pre, object[r])
      key == IF HasParams(o) THEN Key(o.pattern) ELSE o.pattern
  IN /\ Len(added) < MaxAdds
     /\ Cardinality({i \in DOMAIN added: added[i].route = r}) < MaxTimes
     /\ object' = [object EXCEPT ![r] = o]
     /\ IF HasParams(o) THEN vary' = AppendRoute(vary, key, r) /\ fixed' = fixed
                        ELSE fixed' = AppendRoute(fixed, key, r) /\ vary' = vary
     /\ added' = Append(added, [route |-> r, key |-> key])
     /\ UNCHANGED <<index, match, requests, indexed, spent, moved>>

AddRoute(r) == Add(prefix, r) /\ UNCHANGED prefix

\* addRoutes for one route: a route that does not compile is left out.
AddRoutes(pre, r) ==
  /\ prefix' = pre
  /\ IF object[r].done \/ Compiles(object[r].pattern) THEN Add(pre, r)
     ELSE UNCHANGED <<object, fixed, vary, index, match, requests, ghosts>>

\* RouteSet::compile, called by a script.
Compile(r) ==
  /\ Compiles(object[r].pattern)
  /\ Len(Prefixed(prefix, object[r].pattern)) <= MaxLength
  /\ object' = [object EXCEPT ![r] = Compiled(prefix, @)]
  /\ spent' = IF HasParams(object'[r]) THEN spent \ {r} ELSE spent
  /\ moved' = IF object'[r].pattern # object[r].pattern /\ \E i \in DOMAIN added: added[i].route = r
              THEN moved \cup {r} ELSE moved
  /\ UNCHANGED <<prefix, fixed, vary, index, match, requests, added, indexed>>

-----------------------------------------------------------------------------
(* getRoute: the index is made when it is empty; later names come last.    *)

Members(groups) == FlattenSeq([g \in DOMAIN groups |-> groups[g].routes])
Listed == Members(fixed) \o Members(vary)
IdOf(r) == Declared[r].name

\* mutant: the routes with parameters are left out.
IndexFixedRoutes ==
  LET list  == Members(fixed)
      named == {i \in DOMAIN list: IdOf(list[i]) # None} IN
  [n \in {IdOf(list[i]): i \in named} |-> list[Max({i \in named: IdOf(list[i]) = n})]]

IndexRoutes ==
  LET named == {i \in DOMAIN Listed: IdOf(Listed[i]) # None} IN
  [n \in {IdOf(Listed[i]): i \in named} |->
     Listed[Max({i \in named: IdOf(Listed[i]) = n})]]

GetRoute ==
  /\ DOMAIN index = {}
  /\ index' = IndexRoutes
  /\ indexed' = Len(added)
  /\ UNCHANGED <<object, prefix, fixed, vary, match, requests, added, spent, moved>>

At(p, j) == CHOOSE i \in Parameters(p): Rank(p, i) = j

\* The expression of routeUrl knows fewer names than that of compile, which
\* also takes "my-id", "a.b", "_x" and "1": a parameter of such a name is no
\* hole in the URL, and stands there as it stands in the pattern.
Holes(p)   == {i \in Parameters(p): p[i][2] \in Fillable}
Hole(p, j) == CHOOSE i \in Holes(p): Cardinality({k \in Holes(p): k <= i}) = j

\* Mutant: a route whose positions are overwritten counts as one without.
RouteUrlUnfilled(o, values) ==
  LET text == [i \in DOMAIN o.pattern |-> IF IsParameter(o.pattern[i]) THEN Raw ELSE o.pattern[i][2]]
  IN IF ~HasParams(o) \/ o.used THEN text
     ELSE FlattenSeq([i \in DOMAIN o.pattern |->
            IF i \in Holes(o.pattern) THEN <<values[o.pattern[i][2]]>> ELSE <<text[i]>>])

\* routeUrl.  param_replace (preg.cpp) puts out what is left of the pattern
\* after every hole, not only after the last one.
RouteUrl(o, values) ==
  LET p    == o.pattern
      from == [j \in 1..Cardinality(Holes(p)) |-> IF j = 1 THEN 0 ELSE Hole(p, j - 1)]
      text == [i \in DOMAIN p |-> IF IsParameter(p[i]) THEN Raw ELSE p[i][2]]
  IN IF ~HasParams(o) \/ Holes(p) = {} THEN text
     ELSE FlattenSeq([j \in DOMAIN from |->
            SubSeq(text, from[j] + 1, Hole(p, j) - 1)
              \o <<IF p[Hole(p, j)][2] \in DOMAIN values THEN values[p[Hole(p, j)][2]] ELSE Empty>>
              \o SubSeq(text, Hole(p, j) + 1, Len(p))])

-----------------------------------------------------------------------------
(* RouteMatch.                                                             *)

\* testRoute, firstMatch.
Fits(r, ask) ==
  Declared[r].verbs \cap ask.verbs # {} /\ Declared[r].ajax \cap ask.ajax # {}

FirstMatch(routes, ask) ==
  LET i == SelectInSeq(routes, LAMBDA r: Fits(r, ask)) IN IF i = 0 THEN None ELSE routes[i]

Matches(key, uri) ==
  /\ Len(key) = Len(uri)
  /\ \A i \in DOMAIN key: IsParameter(key[i]) \/ key[i][2] = uri[i]

Captures(key, uri) ==
  [j \in 1..Cardinality(Parameters(key)) |-> uri[At(key, j)]]

\* mutant: the first pattern that matches decides, whatever its verbs.
SearchOnce(ask, margs) ==
  LET f == SelectInSeq(fixed, LAMBDA g: /\ g.key = Literal(ask.uri)
                                        /\ FirstMatch(g.routes, ask) # None)
      v == SelectInSeq(vary, LAMBDA g: Matches(g.key, ask.uri))
  IN IF f # 0 THEN [route |-> FirstMatch(fixed[f].routes, ask), margs |-> <<>>]
     ELSE IF v # 0 THEN [route |-> FirstMatch(vary[v].routes, ask),
                         margs |-> Captures(vary[v].key, ask.uri)]
     ELSE [route |-> None, margs |-> margs]

\* A search that finds nothing leaves the captures of the one before.
Search(ask, margs) ==
  LET f == SelectInSeq(fixed, LAMBDA g: /\ g.key = Literal(ask.uri)
                                        /\ FirstMatch(g.routes, ask) # None)
      v == SelectInSeq(vary, LAMBDA g: /\ Matches(g.key, ask.uri)
                                       /\ FirstMatch(g.routes, ask) # None)
  IN IF f # 0 THEN [route |-> FirstMatch(fixed[f].routes, ask), margs |-> <<>>]
     ELSE IF v # 0 THEN [route |-> FirstMatch(vary[v].routes, ask),
                         margs |-> Captures(vary[v].key, ask.uri)]
     ELSE [route |-> None, margs |-> margs]

NoMatch(ask) == [ask |-> ask, route |-> None, margs |-> <<>>, args |-> <<>>,
                 by |-> "none", phase |-> "new"]

NewMatch(ask) ==
  /\ match' = NoMatch(ask)
  /\ UNCHANGED <<object, prefix, fixed, vary, index, requests, ghosts>>

FindRoute ==
  LET s == Search(match.ask, match.margs) IN
  /\ match' = [match EXCEPT !.route = s.route, !.margs = s.margs, !.by = "find",
                            !.phase = IF s.route = None THEN "missed" ELSE "found"]
  /\ UNCHANGED <<object, prefix, fixed, vary, index, requests, ghosts>>

\* mutant: the match as a whole is counted, too.
FetchFailsByOne(o, margs) ==
  HasParams(o) /\ (Len(margs) + 1 # Cardinality(DOMAIN o.params) \/ o.used)

\* fetchArgs: the positions must be numbers, and captures must lie there.
FetchFails(o, margs) ==
  /\ HasParams(o)
  /\ \/ Len(margs) # Cardinality(DOMAIN o.params)
     \/ o.used
     \/ \E n \in DOMAIN o.params: o.params[n] > Len(margs)

\* prepare_call up to the target: the values take the place of the positions.
Prepare(m) ==
  LET o == object[m.route] IN
  /\ IF FetchFails(o, m.margs)
     THEN /\ match' = [m EXCEPT !.phase = "refused"]
          /\ UNCHANGED <<object, spent>>
     ELSE /\ match' = [m EXCEPT !.phase = "prepared",
                                !.args = [n \in DOMAIN o.params |-> Decode[m.margs[o.params[n]]]]]
          /\ object' = [object EXCEPT ![m.route].used = HasParams(o)]
          /\ spent' = IF HasParams(o) THEN spent \cup {m.route} ELSE spent
  /\ UNCHANGED <<prefix, fixed, vary, index, requests, added, indexed, moved>>

PrepareCall == match.route # None /\ Prepare(match)

SetRoute(r) == Prepare([match EXCEPT !.route = r, !.by = "set"])

-----------------------------------------------------------------------------
(* serialize keeps the groups and the routes in them, not the prefix and   *)
(* not the index; a later request reads them into a new set.  What the     *)
(* request that stored them does afterwards changes its own objects only,  *)
(* so the next request follows at once.                                    *)

NextRequest ==
  /\ requests < MaxRequests
  /\ requests' = requests + 1
  /\ LET in == {added[i].route: i \in DOMAIN added} IN
       /\ object' = [r \in Route |-> IF r \in in THEN object[r] ELSE Fields(r)]
       /\ spent' = spent \cap in
  /\ prefix' = None /\ index' = <<>> /\ indexed' = 0
  /\ \E ask \in Asks: match' = NoMatch(ask)
  /\ UNCHANGED <<fixed, vary, added, moved>>

Init ==
  /\ object = [r \in Route |-> Fields(r)] /\ prefix = None
  /\ fixed = <<>> /\ vary = <<>> /\ index = <<>>
  /\ match \in {NoMatch(ask): ask \in Asks}
  /\ requests = 1
  /\ added = <<>> /\ indexed = 0 /\ spent = {} /\ moved = {}

Next ==
  \/ \E r \in Route: AddRoute(r)
  \/ \E r \in OwnCompile: Compile(r)
  \/ \E r \in OwnChoice: SetRoute(r)
  \/ \E r \in Route, pre \in PrefixWords \cup {None}: AddRoutes(pre, r)
  \/ \E ask \in Asks: NewMatch(ask)
  \/ GetRoute \/ FindRoute \/ PrepareCall
  \/ NextRequest

Spec == Init /\ [][Next]_vars

-----------------------------------------------------------------------------
Groups == Seq([key: Seq(Segment), routes: Seq(Route)])

\* Every variable has its type.
TypeOK ==
  /\ \A r \in Route: /\ DOMAIN object[r] = {"pattern", "done", "params", "used"}
                     /\ object[r].pattern \in Seq(Segment)
                     /\ object[r].done \in BOOLEAN /\ object[r].used \in BOOLEAN
                     /\ \A n \in DOMAIN object[r].params:
                          n \in Words /\ object[r].params[n] \in 1..Len(object[r].pattern)
  /\ prefix \in PrefixWords \cup {None}
  /\ fixed \in Groups /\ vary \in Groups
  /\ \A n \in DOMAIN index: index[n] \in Route
  /\ match.ask \in Asks /\ match.route \in Route \cup {None}
  /\ match.margs \in Seq(Words) /\ match.by \in {"none", "find", "set"}
  /\ match.phase \in {"new", "found", "missed", "prepared", "refused"}
  /\ requests \in 1..MaxRequests
  /\ Len(added) <= MaxAdds /\ indexed \in 0..Len(added)
  /\ spent \subseteq Route /\ moved \subseteq Route

(* What findRoute gives is what the order of the additions says: a route   *)
(* without parameters before any other; of two patterns the one that was   *)
(* added first, with every route that was added to it since; of one        *)
(* pattern the first route that takes the verb.  A set that was stored and *)
(* read keeps that order (route_match.cpp 229, route_set.cpp 324).         *)
Better(i, j) ==
  LET open(k)  == Parameters(added[k].key) # {}
      first(k) == Min({l \in DOMAIN added: added[l].key = added[k].key})
  IN \/ ~open(i) /\ open(j)
     \/ open(i) = open(j) /\ first(i) < first(j)
     \/ open(i) = open(j) /\ first(i) = first(j) /\ i <= j

Wanted(ask) ==
  LET fit == {i \in DOMAIN added: Matches(added[i].key, ask.uri) /\ Fits(added[i].route, ask)}
  IN IF fit = {} THEN None
     ELSE added[CHOOSE i \in fit: \A j \in fit: Better(i, j)].route

FindsTheFirst ==
  [][match'.phase \in {"found", "missed"} /\ match' # match
       => match'.route = Wanted(match.ask)]_vars

(* The arguments of a route that was found are the decoded words of the    *)
(* URI that stand where its script declared them; those of a route that    *)
(* was set are words of the URI under the names of that route, also when a *)
(* search for another one left its captures (route_match.cpp 250, 591).    *)
ArgsStandWhereDeclared ==
  match.phase = "prepared" =>
    LET uri == match.ask.uri
        p   == Declared[match.route].pattern
        off == Len(uri) - Len(p)
    IN /\ DOMAIN match.args \subseteq {Lower[n]: n \in Names(p)}
       /\ \A n \in DOMAIN match.args: \E i \in DOMAIN uri: match.args[n] = Decode[uri[i]]
       /\ match.by = "find" =>
            /\ DOMAIN match.args = {Lower[n]: n \in Names(p)}
            /\ \A i \in Parameters(p): match.args[Lower[p[i][2]]] = Decode[uri[off + i]]

(* A route that was found is refused its arguments only when two of its    *)
(* parameters have one name, or when a match has put values in the place   *)
(* of its positions before: in this request, or before the set was stored  *)
(* (route_match.cpp 825).                                                  *)
RefusedHasCause ==
  [][match'.phase = "refused" /\ match' # match /\ match'.by = "find" =>
       LET p == Declared[match'.route].pattern IN
       \/ match'.route \in spent
       \/ \E i, j \in Parameters(p): i # j /\ Lower[p[i][2]] = Lower[p[j][2]]]_vars

(* A name leads to a route of that name in the set, and to none only when  *)
(* the route was added after the first getRoute that found a name          *)
(* (route_set.cpp 252).                                                    *)
MissingNameIsLater ==
  DOMAIN index # {} =>
    /\ \A n \in DOMAIN index: /\ IdOf(index[n]) = n
                              /\ \E i \in DOMAIN added: added[i].route = index[n]
    /\ \A i \in DOMAIN added: LET n == IdOf(added[i].route) IN
         n # None /\ n \notin DOMAIN index => i > indexed

(* The URL made from a route of the set with at most one hole leads to a   *)
(* route of the set, if the route takes a verb at all, and its expression  *)
(* gives back the value that was put there, also after a match has used    *)
(* the route and after the set was stored, unless a script compiled the    *)
(* route again: pattern and expression are made side by side               *)
(* (route_set.cpp 576, route.cpp 380).                                     *)
(* The value of a parameter is lost if only compile knows its name         *)
(* (route_set.cpp 73, route.cpp 391), and a URL with two holes repeats     *)
(* parts of the pattern (preg.cpp 341).                                    *)
UrlLeadsBack ==
  \A i \in DOMAIN added:
    LET r == added[i].route
        o == object[r]
    IN o.done /\ r \notin moved /\ Cardinality(Holes(o.pattern)) <= 1 =>
         \A values \in [Names(o.pattern) \cap Fillable -> Given]:
           LET url == RouteUrl(o, values)
               ask == [uri |-> url, verbs |-> Declared[r].verbs, ajax |-> Declared[r].ajax]
           IN /\ Fits(r, ask) => Search(ask, <<>>).route # None
              /\ Matches(added[i].key, url)
              /\ \A n \in DOMAIN values:
                   Captures(added[i].key, url)[o.params[n]] = values[n]
=============================================================================
