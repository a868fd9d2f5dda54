----------------------------- MODULE MCAudience -----------------------------
(***************************************************************************)
(* Small instances of Audience.                                            *)
(***************************************************************************)
EXTENDS Audience, TLC

CONSTANTS c1, c2
Symm == Permutations({c1, c2})
=============================================================================
