------------------------------- MODULE MCMachWalk ------------------------------
(***************************************************************************)
(* Small instances of MachWalk for TLC: every stack over a few instruction *)
(* pointers.                                                               *)
(***************************************************************************)
EXTENDS MachWalk

===============================================================================
