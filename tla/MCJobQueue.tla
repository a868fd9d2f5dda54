------------------------------ MODULE MCJobQueue ------------------------------
(***************************************************************************)
(* Small instances of JobQueue: two jobs for one customer, two or three   *)
(* goroutines.                                                             *)
(***************************************************************************)
EXTENDS JobQueue, TLC

CONSTANTS j1, j2, c1, g1, g2, g3

OneCustomer == [j \in Jobs |-> c1]

Symmetry == Permutations(Goroutines)
=============================================================================
