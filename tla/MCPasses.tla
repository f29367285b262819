-------------------------------- MODULE MCPasses --------------------------------
(***************************************************************************)
(* Small instances of Passes for TLC: two threads beside the one that      *)
(* samples, or one.                                                        *)
(***************************************************************************)
EXTENDS Passes

===============================================================================
