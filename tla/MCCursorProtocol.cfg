\* Five rows read in pages of two (the scenario of the spec, section 8):
\* first page 2 rows, then 2, then 1 with more = false.  Two callers, two
\* queries each, so cursor handles of both are live at once and each
\* caller opens a second cursor after the first is closed or drained.
CONSTANTS
    c1 = c1
    c2 = c2
    Garbled = Garbled
    Callers <- MCCallers
    NRows = 5
    PageSize = 2
    Width = 2
    MaxQueries = 2

SPECIFICATION Spec

SYMMETRY CallerSymmetry

INVARIANT TypeOK
INVARIANT PagesExact
INVARIANT NoFault
PROPERTY ImplementsService
