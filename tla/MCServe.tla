------------------------------ MODULE MCServe ------------------------------
(* Serve with two askers, one directory of three files and one node.       *)
EXTENDS Serve
CONSTANTS a1, a2, d1, f1, f2, f3, t1
=============================================================================
