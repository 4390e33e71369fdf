----------------------------- MODULE MCTracker -----------------------------
(* Tracker with a CS of each ISP, in directory order.                      *)
EXTENDS Tracker, TLC

CONSTANTS c1, c3

PairIspOf == (c1 :> "TEL") @@ (c3 :> "CNC")
PairRank  == (c1 :> 0) @@ (c3 :> 1)
=============================================================================
