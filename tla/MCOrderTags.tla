----------------------------- MODULE MCOrderTags -----------------------------
(***************************************************************************)
(* Small instances of OrderTags: two status tags, one order.               *)
(***************************************************************************)
EXTENDS OrderTags, TLC

CONSTANTS c1, c2, pending, shipped
Symm == Permutations({c1, c2}) \cup Permutations({pending, shipped})
=============================================================================
