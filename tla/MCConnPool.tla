----------------------------- MODULE MCConnPool -----------------------------
(***************************************************************************)
(* Small instances of ConnPool.                                            *)
(***************************************************************************)
EXTENDS ConnPool

CONSTANTS g1, g2
=============================================================================
