----------------------------- MODULE MCPliValues -----------------------------
(***************************************************************************)
(* TLC instance of PliValues: what int() makes of the values it changes.   *)
(* One fraction comes to 0, as 0.5 does. The cells are interchangeable.    *)
(***************************************************************************)
EXTENDS PliValues, TLC

CONSTANTS number, zero, small

WholeOf == [v \in Rounded |-> IF v = small THEN zero ELSE number]
AnyCells == Permutations(Cells)
=============================================================================
