----------------------------- MODULE MCCdcHash -----------------------------
(* Two files of one hash, an overflow node, and one slot for two servers.  *)
EXTENDS CdcHash, TLC
CONSTANTS k1, k2, h1, h2
MCHeads == (k1 :> 0) @@ (k2 :> 0)
Alike == Permutations({k1, k2}) \union Permutations({h1, h2})
=============================================================================
