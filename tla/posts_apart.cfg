\* Two requests that overlap and are apart.
\* Ends when every id is used and every location deleted: a bound, not a hang;
\* NoRequestHangs of posts_concurrent is about hangs.
CHECK_DEADLOCK FALSE
SPECIFICATION SpecApart
CONSTANTS
    LostItems = {lost1}
    FoundItems = {found1, found2}
    MatchIds = {m1, m2}
    Locations = {union, library}
    NoLocation = NoLocation
    Requests = {r1, r2}
SYMMETRY Symmetry
INVARIANTS
    OneMatchPerPost
    StatusAgreesWithMatches
PROPERTIES
    ImplementsLifecycle
    ReturnedIsFinal
