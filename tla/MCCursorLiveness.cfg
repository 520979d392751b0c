\* The paging scenario of MCCursorProtocol.cfg, one query per caller, under
\* the fairness of LiveSpec.  No symmetry: it is unsound with a liveness property.
CONSTANTS
    c1 = c1
    c2 = c2
    Garbled = Garbled
    Callers <- MCCallers
    NRows = 5
    PageSize = 2
    Width = 2
    MaxQueries = 1

SPECIFICATION LiveSpec

PROPERTY QueryCompletes
