\* One lost and two found posts, one word, room for one suggestion,
\* two requests at a time.  The search by itself: two words, up to three of them
\* in the post and four candidates, for a heap of one to three.
SPECIFICATION Spec
CONSTANTS
    LostItems = {l1}
    FoundItems = {f1, f2}
    Words = {w}
    Requests = {r1, r2}
    MaxSuggestions = 1
    MaxJobs = 2
    HeapSizes = {1, 2, 3}
    Vocabulary = {w, v}
    MaxWords = 3
    MaxPosts = 4
SYMMETRY Symmetry
CHECK_DEADLOCK FALSE
INVARIANTS
    TypeOK
    SuggestionsHavePosts
    AnnouncedOnce
    NoPairMissed
    NoStaleSuggestion
    WorkerKeepsTheBest
