---------------------------- MODULE MCSignalHandler ----------------------------
(***************************************************************************)
(* Small instances of SignalHandler for TLC.                               *)
(***************************************************************************)
EXTENDS SignalHandler

===============================================================================
