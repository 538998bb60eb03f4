----------------------------- MODULE MCScripts ------------------------------
(***************************************************************************)
(* What the script of a request calls: the container, a database driver    *)
(* and the routes.  Each module is about any order of calls of its own     *)
(* part, with whatever an exception thrown elsewhere does to it.  The      *)
(* parts share no variable, so that each reaches the same states whether   *)
(* or not the others move: a behaviour is about one of them, its subject.  *)
(***************************************************************************)
EXTENDS Services, Transactions, Routes, TLC

-----------------------------------------------------------------------------
\* The container: one name, one closure, one class and obj, its object.
CONSTANTS svc, fn, cls, obj
ObjectOfC == [v \in {obj} |-> cls]

-----------------------------------------------------------------------------
BothKinds == {"pdo", "pgsql"}

-----------------------------------------------------------------------------
\* The routes: a literal in upper case, one parameter, two parameters, of
\* which twin gives both one name, so that pair and twin are one expression
\* for two verbs, and a pattern that does not compile.  The name "my-id" is
\* one that routeUrl does not know.
CONSTANTS home, show, pair, twin, bad

Lit(w) == <<"literal", w>>
Par(n) == <<"parameter", n>>
Made(p, verb, name) == [pattern |-> p, verbs |-> {verb}, ajax |-> {"plain"}, name |-> name]

Table ==
  home :> Made(<<Lit("About")>>, "GET", "home")
  @@ show :> Made(<<Par("X")>>, "GET", "show")
  @@ pair :> Made(<<Par("X"), Par("my-id")>>, "GET", "pair")
  @@ twin :> Made(<<Par("y"), Par("y")>>, "POST", None)
  @@ bad :> Made(<<Lit("About"), Lit(Blank)>>, "GET", "bad")

AllWords == {"", "{}", "About", "about", "X", "x", "y", "my-id", "p", "a+b", "a b"}
LowerOf  == [w \in AllWords |-> IF w = "About" THEN "about" ELSE IF w = "X" THEN "x" ELSE w]
KnownNames == {"X", "x", "y"}
DecodeOf == [w \in AllWords |-> IF w = "a+b" THEN "a b" ELSE w]

For(uri, verb) == [uri |-> uri, verbs |-> {verb}, ajax |-> {"plain"}]
Wishes == {For(<<"p", "about">>, "GET"), For(<<"a+b", "y">>, "POST")}

-----------------------------------------------------------------------------
VARIABLE subject

scriptsVars == <<subject, servicesVars, transactionsVars, vars>>

ScriptsInit ==
  /\ subject \in {"container", "driver", "routes"}
  /\ ServicesInit /\ TransactionsInit /\ Init
  /\ subject # "driver" => kind = "pdo"
  /\ subject # "routes" => match = NoMatch(CHOOSE ask \in Asks : TRUE)

ScriptsNext ==
  /\ UNCHANGED subject
  /\ \/ subject = "container" /\ ServicesNext /\ UNCHANGED <<transactionsVars, vars>>
     \/ subject = "driver" /\ TransactionsNext /\ UNCHANGED <<servicesVars, vars>>
     \/ subject = "routes" /\ Next /\ UNCHANGED <<servicesVars, transactionsVars>>

ScriptsSpec == ScriptsInit /\ [][ScriptsNext]_scriptsVars
=============================================================================
