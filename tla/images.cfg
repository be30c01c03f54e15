\* Two uploads of one post, one API request at a time beside the worker.
SPECIFICATION FairSpec
CONSTANTS
    Uploads = {u1, u2}
    Requests = {r1}
    MaxJobs = 2
INVARIANTS TypeOK ReadyHasPhoto OnePhoto
PROPERTIES JobsAreDone ProcessingHasJobUnlessAhead NoExtraPhotosUnlessStopped
\* The upload ids run out.
CHECK_DEADLOCK FALSE
