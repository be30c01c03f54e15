\* Two events that both subscribers are bound to; an item.* event goes where a
\* match.confirmed goes before the notifier's queue is bound.
SPECIFICATION FairSpec
CONSTANTS
    ApiEvents = {confirmed}
    ConfirmedEvents = {confirmed}
    WorkerEvents = {potential}
    PotentialEvents = {potential}
CHECK_DEADLOCK FALSE
INVARIANT TypeOK
PROPERTIES
    ImplementsChannels
    QueuesDrain
    HalfLineSpoilsItsOwnEvent
