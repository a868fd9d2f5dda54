----------------------------- MODULE MCSeeding -----------------------------
(***************************************************************************)
(* Small instances of Seeding.                                             *)
(***************************************************************************)
EXTENDS Seeding, TLC

CONSTANTS c1, c2
Symm == Permutations({c1, c2})
=============================================================================
