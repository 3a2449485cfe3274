----------------------------- MODULE MCPriceCache -----------------------------
(***************************************************************************)
(* Instances of PriceCache for TLC: three loads, the least at which two    *)
(* writers and a reader overlap, and a series of two or three buffers.     *)
(***************************************************************************)
EXTENDS PriceCache, TLC

CONSTANTS l1, l2, l3

Alike == Permutations({l1, l2, l3})

=============================================================================
