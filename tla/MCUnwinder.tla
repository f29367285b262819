------------------------------- MODULE MCUnwinder ------------------------------
(***************************************************************************)
(* Small instances of Unwinder for TLC: every caller relation over a few   *)
(* instruction pointers.                                                   *)
(***************************************************************************)
EXTENDS Unwinder

===============================================================================
