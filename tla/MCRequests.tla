----------------------------- MODULE MCRequests -----------------------------
(* Two routes to a class each, or to a class and a closure.                *)
EXTENDS Requests
CONSTANTS r1, r2, a, b, m, n

List      == [form |-> "list", cls |-> a, mth |-> m, module |-> TRUE,
              roles |-> FALSE, params |-> FALSE]
Object(p) == [form |-> "object", cls |-> a, mth |-> m, module |-> TRUE,
              roles |-> TRUE, params |-> p]
Keys(c)   == [form |-> "keys", cls |-> c, mth |-> n, module |-> FALSE,
              roles |-> c = b, params |-> FALSE]
Plain     == [form |-> "closure", cls |-> NoName, mth |-> NoName,
              module |-> FALSE, roles |-> FALSE, params |-> FALSE]

Both(x, y) == [r \in Route |-> IF r = r1 THEN x ELSE y]
SmallTables == {Both(List, Keys(b)), Both(Object(TRUE), Keys(NoName)),
                Both(Object(FALSE), Plain)}
=============================================================================
