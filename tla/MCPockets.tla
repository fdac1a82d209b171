----------------------------- MODULE MCPockets -----------------------------
(* Small sets of pockets and orders for TLC.                               *)
EXTENDS Pockets, TLC

PocketSymmetry == Permutations(PocketIds) \cup Permutations(Bids) \cup Permutations(Asks)
=============================================================================
