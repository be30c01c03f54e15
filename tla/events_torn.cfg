\* Two events are enough: the first is torn, the logger comes back.
SPECIFICATION Spec
CONSTANTS
    ApiEvents = {created}
    ConfirmedEvents = {}
    WorkerEvents = {potential}
    PotentialEvents = {potential}
CHECK_DEADLOCK FALSE
INVARIANT LinesAreRecords
