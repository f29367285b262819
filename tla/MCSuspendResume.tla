---------------------------- MODULE MCSuspendResume ----------------------------
(***************************************************************************)
(* Small instances of SuspendResume for TLC: threads and places in the     *)
(* program are model values, given in the .cfg files.                      *)
(***************************************************************************)
EXTENDS SuspendResume

===============================================================================
