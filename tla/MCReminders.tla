---------------------------- MODULE MCReminders ----------------------------
(***************************************************************************)
(* Small instances of Reminders.                                           *)
(***************************************************************************)
EXTENDS Reminders

CONSTANTS r1, s1, s2, s3
=============================================================================
