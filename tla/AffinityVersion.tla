-------------------------- MODULE AffinityVersion --------------------------
(***************************************************************************)
(* What the client's affinity version promises (spec sections 3 and 9):   *)
(* one process-wide (major, minor) pair, changed only by an atomic "raise *)
(* if greater" with the version a response announces.  `applied` records *)
(* the versions announced so far.  QueryPerform implements this           *)
(* specification when its callers are asyncio tasks.                      *)
(***************************************************************************)
EXTENDS Naturals

CONSTANT Versions   \* the (major, minor) pairs a response may announce

VARIABLES aff, applied

\* Python's tuple comparison of two versions.
Greater(a, b) == a[1] > b[1] \/ (a[1] = b[1] /\ a[2] > b[2])

Init ==
    /\ aff = <<0, 0>>
    /\ applied = {}

\* A response announcing v is processed: the version becomes v if v is
\* greater, in one indivisible step.
RaiseIfGreater(v) ==
    /\ aff' = IF Greater(v, aff) THEN v ELSE aff
    /\ applied' = applied \cup {v}

Next == \E v \in Versions : RaiseIfGreater(v)

Spec == Init /\ [][Next]_<<aff, applied>>

=============================================================================
