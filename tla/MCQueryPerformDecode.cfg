\* asyncio callers, with a response whose fields fail to decode: the version
\* announced in its header has already been written when to_python raises.
CONSTANTS
    p1 = p1
    p2 = p2
    p3 = p3
    Procs <- MCProcs
    Cooperative = TRUE
    ExpirySupported = FALSE
    MaxQueries = 1
    MaxMajor = 2
    MaxMinor = 1

SPECIFICATION Spec

SYMMETRY ProcSymmetry

PROPERTY DecodeFailureLeavesAffinity
