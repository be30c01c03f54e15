\* Two overlapping requests.
\* Ends when every id is used and every location deleted: a bound, not a hang;
\* a request that hangs breaks NoRequestHangs.
CHECK_DEADLOCK FALSE
SPECIFICATION Spec
CONSTANTS
    LostItems = {lost1}
    FoundItems = {found1, found2}
    MatchIds = {m1, m2, m3}
    Locations = {union}
    NoLocation = NoLocation
    Requests = {r1, r2}
SYMMETRY Symmetry
INVARIANTS
    TypeOK
    MatchesAreSound
    PostsHaveAPlace
    NoPostStranded
    NoRequestHangs
PROPERTIES
    ImplementsBoard
