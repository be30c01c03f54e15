------------------------------ MODULE Matching ------------------------------
(***************************************************************************)
(* Suggested matches.  The API queues a search whenever a post is created  *)
(* or goes back to open; the matching worker takes the searches one at a   *)
(* time, scores the open posts of the other type by the words their        *)
(* descriptions share, replaces the post's rows in potential_matches by    *)
(* the best ones, and announces the pairs that are new.  Posts change in   *)
(* the meantime, jobs get lost, the worker stops.                          *)
(*                                                                         *)
(* Of a post's status only "open" matters to a search: "closed" stands for *)
(* matched, returned, withdrawn and expired.  Posts.tla has the requests   *)
(* that change it in full; here each is its commit, followed by what it    *)
(* queues.  Which candidates score best is left open: Matcher.tla.         *)
(***************************************************************************)
EXTENDS Integers, Sequences, FiniteSets

CONSTANTS
    LostItems,       \* ids of posts of type LOST
    FoundItems,      \* ids of posts of type FOUND
    Words,           \* words that say something about an item
    Requests,        \* API requests that may be in progress together
    MaxSuggestions,  \* MAX_SUGGESTIONS of matcher.py
    MaxJobs          \* bound: jobs queued or about to be queued

ASSUME MatchingAssumption ==
    /\ LostItems \cap FoundItems = {}
    /\ MaxSuggestions \in Nat \ {0} /\ MaxJobs \in Nat

Items == LostItems \cup FoundItems
Pairs == LostItems \X FoundItems

VARIABLES
    status,     \* item id -> "unused", "open", "closed" or "deleted"
    text,       \* item id -> the words of its description
    rows,       \* the pairs in table potential_matches
    queue,      \* jobs.item_matcher; the worker holds its head until the ack
    worker,     \* where the worker is, and what it has read
    requests,   \* request -> the posts it still has to queue a search for
    announced,  \* history: pairs announced since they got their row
    outranked,  \* history: pairs the last search of a post had no room for
    owed        \* history: posts whose search got lost or which were edited

posts == <<status, text>>
past == <<announced, outranked, owed>>
vars == <<status, text, rows, queue, worker, requests, announced, outranked, owed>>

\* A post is closed and reopened by itself, or with the one it is matched to.
Together == {{i} : i \in Items} \cup {{p[1], p[2]} : p \in Pairs}

\* The posts, as far as the search sees them.
B == INSTANCE Board WITH board <- status

HasRow(i) == status[i] \in {"open", "closed"}
Job == Head(queue)

\* Mutant: the post searched for is always taken for the lost one.
PairLostFirst(i, candidate) == <<i, candidate>>

\* The row that suggests the candidate for the post searched for.
Pair(i, candidate) ==
    IF i \in LostItems THEN <<i, candidate>> ELSE <<candidate, i>>
Involves(p, i) == i \in {p[1], p[2]}
OfPost(set, i) == {p \in set : Involves(p, i)}
OtherType(i) == IF i \in LostItems THEN FoundItems ELSE LostItems

\* A score above 0: the descriptions share a word.
Similar(a, b) == a \cap b # {}

Idle == [at |-> "idle", of |-> {}]
Nothing == [at |-> "idle", text |-> {}, kept |-> {}, left |-> {},
            before |-> {}, news |-> {}]

TypeOK ==
    /\ status \in [Items -> {"unused", "open", "closed", "deleted"}]
    /\ text \in [Items -> SUBSET Words]
    /\ rows \subseteq Pairs
    /\ queue \in Seq(Items)
    /\ worker \in [at : {"down", "idle", "readCandidates", "readBefore",
                         "replace", "announce"},
                   text : SUBSET Words, kept : SUBSET Pairs, left : SUBSET Pairs,
                   before : SUBSET Pairs, news : SUBSET Pairs]
    /\ worker.at \notin {"down", "idle"} => queue # <<>>
    /\ requests \in [Requests -> [at : {"idle", "queueMatching", "matchSearch"},
                                 of : SUBSET Items]]
    /\ announced \subseteq Pairs /\ outranked \subseteq Pairs /\ owed \subseteq Items

Init ==
    /\ status = [i \in Items |-> "unused"]
    /\ text = [i \in Items |-> {}]
    /\ rows = {}
    /\ queue = <<>>
    /\ worker = Nothing
    /\ requests = [r \in Requests |-> Idle]
    /\ announced = {} /\ outranked = {} /\ owed = {}

Go(r, slot) == requests' = [requests EXCEPT ![r] = slot]

\* The request has committed; queue_matching is called for these posts.
QueueMatching(r, of) ==
    Go(r, IF of = {} THEN Idle ELSE [at |-> "queueMatching", of |-> of])

\* Bound: room in the queue for the jobs already on their way.
JobsLeft(n) ==
    Len(queue) + n
      + Cardinality({s \in Requests \X Items : s[2] \in requests[s[1]].of})
        <= MaxJobs

-----------------------------------------------------------------------------
(* The API: what its commits do to posts, and the jobs they are followed by *)

\* POST /items
CreateItem(r, i, words) ==
    /\ requests[r] = Idle /\ JobsLeft(1)
    /\ B!Post(i)
    /\ text' = [text EXCEPT ![i] = words]
    /\ QueueMatching(r, {i})
    /\ UNCHANGED <<rows, queue, worker, past>>

\* PATCH /items/{id}, of a post that may have left EDITABLE_STATUSES since it was
\* read.  No search is queued, whatever the new description says.
EditItem(i, words) ==
    /\ HasRow(i)
    /\ text[i] # words
    /\ text' = [text EXCEPT ![i] = words]
    /\ owed' = owed \cup {i}
    /\ UNCHANGED <<status, rows, queue, worker, requests, announced, outranked>>

\* PATCH to withdrawn or expired, DELETE /items/{id}, and POST /matches, which
\* closes a lost and a found post together.
CloseItems(of) ==
    /\ B!Close(of)
    /\ UNCHANGED <<text, rows, queue, worker, requests, past>>

\* Mutant: an unmatch forgets to queue the searches.
ReopenUnsearched(r, of) ==
    /\ requests[r] = Idle /\ JobsLeft(Cardinality(of))
    /\ B!Reopen(of)
    /\ QueueMatching(r, IF Cardinality(of) = 1 THEN of ELSE {})
    /\ UNCHANGED <<text, rows, queue, worker, past>>

\* PATCH to open, and DELETE /matches/{id}, which reopens up to two posts.  A
\* post that another request has reopened meanwhile is written all the same.
ReopenItems(r, of) ==
    /\ requests[r] = Idle /\ JobsLeft(Cardinality(of))
    /\ B!Reopen(of)
    /\ QueueMatching(r, of)
    /\ UNCHANGED <<text, rows, queue, worker, past>>

\* DELETE /items/{id}/hard.  The suggestions cascade.
DeleteItem(i) ==
    /\ B!Remove(i)
    /\ text' = [text EXCEPT ![i] = {}]
    /\ rows' = rows \ OfPost(rows, i)
    /\ announced' = announced \ OfPost(announced, i)
    /\ outranked' = outranked \ OfPost(outranked, i)
    /\ owed' = owed \ {i}
    /\ UNCHANGED <<queue, worker, requests>>

\* queue_matching, the lost post of an unmatch first.  A broker that is down
\* costs the job, and an API that stops here costs all that are left.
PublishJob(r) ==
    /\ requests[r].at = "queueMatching"
    /\ LET left == requests[r].of
       IN \/ \E i \in left :
                /\ i \in LostItems \/ left \subseteq FoundItems
                /\ QueueMatching(r, left \ {i})
                /\ \/ queue' = Append(queue, i) /\ UNCHANGED owed
                   \/ owed' = owed \cup {i} /\ UNCHANGED queue
          \/ Go(r, Idle) /\ owed' = owed \cup left /\ UNCHANGED queue
    /\ UNCHANGED <<posts, rows, worker, announced, outranked>>

\* POST /items/{id}/match-search: the check, then the job or a 503.
BeginMatchSearch(r, i) ==
    /\ requests[r] = Idle /\ JobsLeft(1)
    /\ status[i] = "open"
    /\ Go(r, [at |-> "matchSearch", of |-> {i}])
    /\ UNCHANGED <<posts, rows, queue, worker, past>>

QueueMatchSearch(r) ==
    /\ requests[r].at = "matchSearch"
    /\ \/ \E i \in requests[r].of : queue' = Append(queue, i)
       \/ UNCHANGED queue
    /\ Go(r, Idle)
    /\ UNCHANGED <<posts, rows, worker, past>>

-----------------------------------------------------------------------------
(* The matching worker *)

Now(at) == worker' = [Nothing EXCEPT !.at = at]

\* A post that is gone or not open needs no search.
TakeJob ==
    /\ worker.at = "idle" /\ queue # <<>>
    /\ IF status[Job] = "open"
       THEN /\ worker' = [Nothing EXCEPT !.at = "readCandidates", !.text = text[Job]]
            /\ owed' = owed \ {Job}
       ELSE Now("announce") /\ UNCHANGED owed
    /\ UNCHANGED <<posts, rows, queue, requests, announced, outranked>>

\* The open posts of the other type that share a word with what was read.
Candidates ==
    {i \in OtherType(Job) : status[i] = "open" /\ Similar(worker.text, text[i])}

\* The best of them, MaxSuggestions if there are more.
Best(pairs) ==
    {kept \in SUBSET pairs :
        \/ kept = pairs /\ Cardinality(pairs) <= MaxSuggestions
        \/ Cardinality(kept) = MaxSuggestions}

Chosen(kept, left) ==
    worker' = [worker EXCEPT !.at = "readBefore", !.kept = kept, !.left = left]

\* get_potential_matches selects the post again: if it is gone there are none.
ReadCandidates ==
    /\ worker.at = "readCandidates"
    /\ \/ LET pairs == {Pair(Job, i) : i \in Candidates}
          IN \E kept \in Best(pairs) : Chosen(kept, pairs \ kept)
       \/ ~HasRow(Job) /\ Chosen({}, {})
    /\ UNCHANGED <<posts, rows, queue, requests, past>>

\* Mutant: the rows are read after the DELETE.
ReadBeforeDeleted ==
    /\ worker.at = "readBefore"
    /\ worker' = [worker EXCEPT !.at = "replace"]
    /\ UNCHANGED <<posts, rows, queue, requests, past>>

ReadBefore ==
    /\ worker.at = "readBefore"
    /\ worker' = [worker EXCEPT !.at = "replace", !.before = OfPost(rows, Job)]
    /\ UNCHANGED <<posts, rows, queue, requests, past>>

\* Mutant: nothing refuses a row for a post that is gone (no foreign key).
ReplaceUnchecked ==
    /\ worker.at = "replace"
    /\ rows' = (rows \ OfPost(rows, Job)) \cup worker.kept
    /\ announced' = announced \ (OfPost(announced, Job) \ worker.kept)
    /\ outranked' = (outranked \ OfPost(outranked, Job)) \cup worker.left
    /\ worker' = [Nothing EXCEPT !.at = "announce", !.news = worker.kept \ worker.before]
    /\ UNCHANGED <<posts, queue, requests, owed>>

\* Mutant: the new rows are added to the old ones.
ReplaceNothing ==
    /\ worker.at = "replace"
    /\ IF \A p \in worker.kept : HasRow(p[1]) /\ HasRow(p[2])
       THEN /\ rows' = rows \cup worker.kept
            /\ worker' = [Nothing EXCEPT !.at = "announce",
                                         !.news = worker.kept \ worker.before]
            /\ outranked' = (outranked \ OfPost(outranked, Job)) \cup worker.left
       ELSE Now("down") /\ UNCHANGED <<rows, outranked>>
    /\ UNCHANGED <<posts, queue, requests, announced, owed>>

\* DELETE, INSERT and commit.  A post that has gone makes the foreign key refuse
\* its row, which stops the worker.
Replace ==
    /\ worker.at = "replace"
    /\ IF \A p \in worker.kept : HasRow(p[1]) /\ HasRow(p[2])
       THEN /\ rows' = (rows \ OfPost(rows, Job)) \cup worker.kept
            /\ announced' = announced \ (OfPost(announced, Job) \ worker.kept)
            /\ outranked' = (outranked \ OfPost(outranked, Job)) \cup worker.left
            /\ worker' = [Nothing EXCEPT !.at = "announce",
                                         !.news = worker.kept \ worker.before]
       ELSE Now("down") /\ UNCHANGED <<rows, announced, outranked>>
    /\ UNCHANGED <<posts, queue, requests, owed>>

\* emit_event, one pair at a time; a broker that is down costs the event.
Announce ==
    /\ worker.at = "announce"
    /\ \E p \in worker.news :
          /\ worker' = [worker EXCEPT !.news = @ \ {p}]
          /\ announced' \in {announced, announced \cup {p}}
    /\ UNCHANGED <<posts, rows, queue, requests, outranked, owed>>

Ack ==
    /\ worker.at = "announce" /\ worker.news = {}
    /\ queue' = Tail(queue)
    /\ Now("idle")
    /\ UNCHANGED <<posts, rows, requests, past>>

\* The worker dies, or loses its connection, or the database fails, or a row it
\* reads back after its commit is gone.
StopWorker ==
    /\ worker.at # "down"
    /\ Now("down")
    /\ UNCHANGED <<posts, rows, queue, requests, past>>

StartWorker ==
    /\ worker.at = "down"
    /\ Now("idle")
    /\ UNCHANGED <<posts, rows, queue, requests, past>>

-----------------------------------------------------------------------------
Change ==
    \/ \E i \in Items, words \in SUBSET Words : EditItem(i, words)
    \/ \E of \in Together : CloseItems(of)
    \/ \E i \in Items : DeleteItem(i)

Request(r) ==
    \/ \E i \in Items, words \in SUBSET Words : CreateItem(r, i, words)
    \/ \E of \in Together : ReopenItems(r, of)
    \/ \E i \in Items : BeginMatchSearch(r, i)
    \/ PublishJob(r) \/ QueueMatchSearch(r)

Work ==
    \/ TakeJob \/ ReadCandidates \/ ReadBefore \/ Replace \/ Announce \/ Ack

Next ==
    \/ Change
    \/ \E r \in Requests : Request(r)
    \/ Work \/ StopWorker \/ StartWorker

Spec == Init /\ [][Next]_vars

-----------------------------------------------------------------------------
(* Properties *)

\* Every suggestion pairs a lost post with a found post and both still exist,
\* although the worker chose it from rows it read earlier: GET
\* /items/{id}/potential-matches never meets a post that is gone.
SuggestionsHavePosts ==
    \A p \in rows : HasRow(p[1]) /\ HasRow(p[2])

\* What process promises: while a pair stays suggested it is announced once,
\* whatever is redelivered and from whichever of its posts it is found again.
AnnouncedOnce == worker.news \cap announced = {}

\* A search that will begin, or has begun and not committed.
Due(i) ==
    \/ \E r \in Requests : requests[r].at = "queueMatching" /\ i \in requests[r].of
    \/ \E n \in 1 .. Len(queue) :
          /\ queue[n] = i
          /\ n = 1 => worker.at # "announce"

\* Two open posts with a word in common are suggested to each other, unless one
\* of them has a search to come, or its search was lost or it was edited since
\* its last one, or a search found better ones.  This is what queueing a search
\* of one post, after its commit, has to ensure for both.
NoPairMissed ==
    \A l \in LostItems, f \in FoundItems :
       /\ status[l] = "open" /\ status[f] = "open"
       /\ Similar(text[l], text[f])
       /\ {l, f} \cap owed = {}
       => <<l, f>> \in rows \cup outranked \/ Due(l) \/ Due(f)

\* And the other way round: two open posts that are suggested to each other have
\* a word in common, although both may be edited at any time, unless one of them
\* has a search to come, or its search was lost or it was edited since its last
\* one.  So a search that comes leaves no suggestion of an old description.
NoStaleSuggestion ==
    \A p \in rows :
       /\ status[p[1]] = "open" /\ status[p[2]] = "open"
       /\ {p[1], p[2]} \cap owed = {}
       => Similar(text[p[1]], text[p[2]]) \/ Due(p[1]) \/ Due(p[2])

=============================================================================
