\* One upload and one request.
SPECIFICATION FairSpec
CONSTANTS
    Uploads = {u1}
    Requests = {r1}
    MaxJobs = 1
PROPERTIES ProcessingEnds
\* The upload ids run out.
CHECK_DEADLOCK FALSE
