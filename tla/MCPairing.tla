------------------------------ MODULE MCPairing ------------------------------
(***************************************************************************)
(* Small instances of Pairing: one QR flow, one phone flow.                *)
(***************************************************************************)
EXTENDS Pairing, TLC

CONSTANTS f1, f2, r1
=============================================================================
