------------------------------- MODULE MCSymbolize ------------------------------
(***************************************************************************)
(* A small instance of Symbolize for TLC.                                  *)
(***************************************************************************)
EXTENDS Symbolize, TLC

CONSTANTS short, long

\* Two versions of one symbol file, of different lengths.
Versions == {short, long}
Sizes == [v \in Versions |-> IF v = short THEN 1 ELSE 2]

Symmetry == Permutations(Module) \cup Permutations(Generator)

===============================================================================
