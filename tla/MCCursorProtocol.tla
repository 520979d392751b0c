------------------------- MODULE MCCursorProtocol -------------------------
(***************************************************************************)
(* Model-checking instance of CursorProtocol: callers are model values,   *)
(* interchangeable, so states are identified up to their permutation.     *)
(***************************************************************************)
EXTENDS CursorProtocol, TLC

CONSTANTS c1, c2

MCCallers == {c1, c2}

CallerSymmetry == Permutations(Callers)

=============================================================================
