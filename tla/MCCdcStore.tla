----------------------------- MODULE MCCdcStore -----------------------------
(* Two reports of one server about a file that nobody else has, or that has *)
(* its two slots taken by others; the later report is of an older source   *)
(* (a fetch from a source whose clock was set back).                       *)
EXTENDS CdcStore, TLC
CONSTANTS h1, h2, h3, l1, l2
MCHostOf == (l1 :> h1) @@ (l2 :> h1)
MCTimeOf == (l1 :> 1) @@ (l2 :> 2)
MCSourceOf == (l1 :> 2) @@ (l2 :> 1)
MCStatusOf == (l1 :> "UNKNOWN") @@ (l2 :> "OK")
MCDayOf == (l1 :> 1) @@ (l2 :> 1)
MCOthers == <<[ip |-> h2, mtime |-> 1, st |-> "OK"], [ip |-> h3, mtime |-> 1, st |-> "OK"]>>
=============================================================================
