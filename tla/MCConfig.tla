------------------------------ MODULE MCConfig ------------------------------
(* Lists of four servers for TLC.  d1 has this server and a, which is also *)
(* an archive of d1 in two lists; d2 has a, named twice, b and this server *)
(* as its third, with which its rows begin again; v is the master.         *)
(* The server a was not told of an operator's word and connects by itself. *)
EXTENDS Config

CONSTANTS self, a, b, v, d1, d2

Line(d, h, isp, arch) == [d |-> d, ip |-> h, isp |-> isp, arch |-> arch]

Usual ==
    [missing |-> FALSE,
     cs      |-> <<Line(d1, self, "TEL", "FCS"), Line(d1, a, "CNC", "FCS"),
                   Line(d2, a, "CNC", "FCS"), Line(d2, a, "TEL", "FCS"),
                   Line(d2, b, "TEL", "FCS"), Line(d2, self, "TEL", "FCS")>>,
     hot     |-> <<a, v>>,
     archive |-> <<Line(d1, a, "TEL", "ARCHIVE"), Line(d1, a, "TEL", "ARCHIVE2"),
                   Line(d2, b, "TEL", "ARCHIVE")>>,
     tracker |-> <<>>, fcs |-> <<>>, afcs |-> <<>>, voss |-> <<v>>]

(* This server is no longer listed; b has become an FCS.                   *)
Gone ==
    [Usual EXCEPT !.cs = <<Line(d1, a, "CNC", "FCS")>>, !.archive = <<>>,
                  !.hot = <<>>, !.tracker = <<a>>, !.fcs = <<b>>]

Broken == [Usual EXCEPT !.missing = TRUE]

MCLists == {Usual, Gone, Broken}
=============================================================================
