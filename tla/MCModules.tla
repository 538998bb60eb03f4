------------------------------ MODULE MCModules ------------------------------
(* Three modules, each of which requires all of them or says nothing of it. *)
EXTENDS Modules
CONSTANTS x, y

AllOfThem == {<<y, x>>}
=============================================================================
