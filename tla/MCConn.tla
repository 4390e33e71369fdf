------------------------------- MODULE MCConn -------------------------------
(* Instances of Conn for TLC.                                              *)
EXTENDS Conn

CONSTANTS p1, p2
=============================================================================
