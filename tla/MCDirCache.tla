---------------------------- MODULE MCDirCache ----------------------------
(* Small instances of DirCache. *)
EXTENDS DirCache, TLC

CONSTANTS w1, w2, k1, k2, f1, f2, f3

\* a memory layer and immediate writes into a directory tree; a session key
\* is written when the request ends
SoleOptions ==
  {[keepLocal |-> TRUE, deferWrite |-> FALSE, dirTree |-> TRUE]}

\* immediate writes without a memory layer, and deferred writes
SharedOptions ==
  {[keepLocal |-> FALSE, deferWrite |-> FALSE, dirTree |-> TRUE],
   [keepLocal |-> TRUE,  deferWrite |-> TRUE,  dirTree |-> FALSE]}

\* one writer for each of a plain key and a session key
SoleWriter == (k1 :> {w1}) @@ (k2 :> {w2})

\* one key both workers write
SharedWriters == (k1 :> {w1, w2})
=============================================================================
