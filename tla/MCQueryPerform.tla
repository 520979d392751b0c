-------------------------- MODULE MCQueryPerform --------------------------
(***************************************************************************)
(* Model-checking instance of QueryPerform: the callers are model values  *)
(* and interchangeable, so TLC may identify states up to a permutation    *)
(* of them.                                                                *)
(***************************************************************************)
EXTENDS QueryPerform, TLC

CONSTANTS p1, p2, p3

MCProcs == {p1, p2}

MCProcs3 == {p1, p2, p3}

ProcSymmetry == Permutations(Procs)

=============================================================================
