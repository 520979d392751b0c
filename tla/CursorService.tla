--------------------------- MODULE CursorService ---------------------------
(***************************************************************************)
(* What a paged query promises each caller (spec sections 4.5 and 8): the  *)
(* rows of the cache arrive in order from the first, at most a page at a   *)
(* time, and the end is reported exactly when the last row has arrived.   *)
(* A caller may start a new query, dropping the rows it had, and may stop *)
(* a query whose end it has seen.  How the rows travel (cursor handles,   *)
(* the server's positions, requests that fail, other callers) is left    *)
(* out; CursorProtocol implements this specification.                    *)
(***************************************************************************)
EXTENDS Naturals, Sequences

CONSTANTS Callers, NRows, PageSize

VARIABLES
    rows,   \* rows[c]: the rows caller c has received in its query
    done    \* done[c]: c has been told that no rows remain

Init ==
    /\ rows = [c \in Callers |-> <<>>]
    /\ done = [c \in Callers |-> FALSE]

\* c opens a new query.
Start(c) ==
    /\ rows' = [rows EXCEPT ![c] = <<>>]
    /\ done' = [done EXCEPT ![c] = FALSE]

\* The next k rows reach c, and with them whether rows remain.
Deliver(c) ==
    /\ ~done[c]
    /\ \E k \in 0..PageSize :
          LET n == Len(rows[c]) IN
          /\ n + k <= NRows
          /\ rows' = [rows EXCEPT ![c] = @ \o [i \in 1..k |-> n + i]]
          /\ done' = [done EXCEPT ![c] = (n + k = NRows)]

\* c is done with a query it has read to the end.
Stop(c) ==
    /\ done[c]
    /\ done' = [done EXCEPT ![c] = FALSE]
    /\ UNCHANGED rows

Next == \E c \in Callers : Start(c) \/ Deliver(c) \/ Stop(c)

Spec == Init /\ [][Next]_<<rows, done>>

=============================================================================
