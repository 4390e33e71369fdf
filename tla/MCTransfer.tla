----------------------------- MODULE MCTransfer -----------------------------
(* Transfer with a mate and the origin, two versions of two chunks each.   *)
EXTENDS Transfer
CONSTANTS t1, t2, c1, m1
TwoChunks == <<2, 2>>
Announced ==
  {<<Origin, "SOURCE", "add">>, <<Origin, "SOURCE", "link">>,
   <<Origin, "SYNC_ISDIR", "add">>, <<m1, "SRC_NOSYNC", "add">>,
   <<m1, "SRC_NOSYNC", "del">>}
=============================================================================
