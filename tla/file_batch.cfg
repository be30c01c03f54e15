\* A batch of two, and a delete of one of its files.
SPECIFICATION Spec
CONSTANTS
    Keys = {k1, k2}
    Requests = {r1, r2}
    MaxFiles = 2
    AnswersGetLost = FALSE
SYMMETRY Symmetry
INVARIANTS RowsHaveObjects
\* The keys run out.
CHECK_DEADLOCK FALSE
