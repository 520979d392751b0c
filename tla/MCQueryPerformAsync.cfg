\* asyncio callers: the read-compare-write of the affinity version runs
\* without a suspension point.
CONSTANTS
    p1 = p1
    p2 = p2
    p3 = p3
    Procs <- MCProcs3
    Cooperative = TRUE
    ExpirySupported = FALSE
    MaxQueries = 2
    MaxMajor = 2
    MaxMinor = 1

SPECIFICATION Spec

SYMMETRY ProcSymmetry

INVARIANT TypeOK
INVARIANT NoLostUpdate
PROPERTY ImplementsAffinity
PROPERTY AffinityNeverRegresses

