---------------------------- MODULE MCConfirmation ----------------------------
(***************************************************************************)
(* Small instances of Confirmation: two orders of one customer.            *)
(***************************************************************************)
EXTENDS Confirmation, TLC

CONSTANTS o1, o2, h1, h2

Symmetry == Permutations(Orders) \cup Permutations(Handlers)
=============================================================================
