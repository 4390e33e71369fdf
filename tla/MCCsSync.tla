------------------------------ MODULE MCCsSync ------------------------------
(* CsSync with a server of each kind: a mate with a smaller ip, a CS of    *)
(* another ISP, and the FCS.                                               *)
EXTENDS CsSync, TLC
CONSTANTS m1, x1
=============================================================================
