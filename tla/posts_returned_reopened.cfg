\* A return and an unmatch of the same match.
CHECK_DEADLOCK FALSE
SPECIFICATION Spec
CONSTANTS
    LostItems = {lost1}
    FoundItems = {found1, found2}
    MatchIds = {m1, m2, m3}
    Locations = {union}
    NoLocation = NoLocation
    Requests = {r1, r2}
PROPERTY ReturnedIsFinal
