---------------------------- MODULE MCTmpStatus ----------------------------
(* TmpStatus with small files.  1016 bytes to a record and 24 to a node    *)
(* are, in words of 8 bytes, 127 and 3: a record is one more than a        *)
(* multiple of a node, as 4 cells are of 3; 1024 records are, as 4, 7 or   *)
(* 10 are, one more than a multiple of 3.                                  *)
EXTENDS TmpStatus, TLC

NameSymmetry == Permutations(Name)
=============================================================================
