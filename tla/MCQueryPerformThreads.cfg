\* Blocking path used from several threads sharing one client: a thread may
\* be preempted between reading and writing the affinity version.
CONSTANTS
    p1 = p1
    p2 = p2
    p3 = p3
    Procs <- MCProcs
    Cooperative = FALSE
    ExpirySupported = FALSE
    MaxQueries = 2
    MaxMajor = 2
    MaxMinor = 1

SPECIFICATION Spec

SYMMETRY ProcSymmetry

PROPERTY AffinityNeverRegresses
