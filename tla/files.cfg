\* Batches of one and two files, two overlapping requests, and a database that
\* answers.
SPECIFICATION Spec
CONSTANTS
    Keys = {k1, k2, k3}
    Requests = {r1, r2}
    MaxFiles = 2
    AnswersGetLost = FALSE
INVARIANTS TypeOK WholeBatchesHaveObjects ExtraObjectsHaveACause
PROPERTIES RowsHaveObjectsIfDeletesWait
\* The keys run out.
CHECK_DEADLOCK FALSE
