--------------------------- MODULE MatchingProofs ---------------------------
(***************************************************************************)
(* For any number of posts, words, jobs and requests, however often posts  *)
(* change and the worker stops: suggestions have their posts, a suggested  *)
(* pair is announced once, and no pair of similar open posts is missed     *)
(* without a search to come or a loss to blame.  No suggestion goes stale  *)
(* without such a cause either, and their number is bounded.  And a search *)
(* of any candidates for any description returns the best of them, which   *)
(* is what the worker then suggests.                                       *)
(***************************************************************************)
EXTENDS Suggestions, SequenceTheorems, FiniteSetTheorems, FunctionTheorems, TLAPS

\* Where a proof expands an action on posts, it expands the step of Board in it.
USE DEF B!OnBoard, B!Post, B!Close, B!Reopen, B!Remove

-----------------------------------------------------------------------------
(* Jobs *)

LEMMA JobIsPost ==
    ASSUME queue \in Seq(Items), queue # <<>>
    PROVE  Job \in Items
BY HeadTailProperties DEF Job

\* A job that is queued goes behind the others.
LEMMA QueuedLast ==
    ASSUME queue \in Seq(Items), NEW i \in Items, queue' = Append(queue, i)
    PROVE  /\ queue' \in Seq(Items) /\ queue' # <<>>
           /\ Len(queue) \in Nat /\ Len(queue') = Len(queue) + 1
           /\ queue'[Len(queue) + 1] = i
           /\ \A n \in 1 .. Len(queue) : queue'[n] = queue[n]
           /\ queue # <<>> => Job' = Job
<1>1. /\ queue' \in Seq(Items) /\ Len(queue') = Len(queue) + 1
      /\ queue'[Len(queue) + 1] = i
      /\ \A n \in 1 .. Len(queue) : queue'[n] = queue[n]
  BY AppendProperties
<1>2. Len(queue) \in Nat /\ (queue # <<>> => Len(queue) \in Nat \ {0})
  BY EmptySeq, LenProperties
<1> QED
  BY <1>1, <1>2 DEF Job

\* The pair a candidate gives is one of the post searched for.
LEMMA PairProperties ==
    ASSUME NEW i \in Items, NEW c \in OtherType(i)
    PROVE  /\ Pair(i, c) \in Pairs /\ Involves(Pair(i, c), i)
BY MatchingAssumption DEF Pair, Pairs, Involves, OtherType, Items

-----------------------------------------------------------------------------
(* Types *)

Slots == [at : {"idle", "queueMatching", "matchSearch"}, of : SUBSET Items]

WorkerStates ==
    [at : {"down", "idle", "readCandidates", "readBefore", "replace", "announce"},
     text : SUBSET Words, kept : SUBSET Pairs, left : SUBSET Pairs,
     before : SUBSET Pairs, news : SUBSET Pairs]

LEMMA QueueMatchingType ==
    ASSUME TypeOK, NEW r \in Requests, NEW of \in SUBSET Items, QueueMatching(r, of)
    PROVE  requests' \in [Requests -> Slots]
BY DEF TypeOK, QueueMatching, Go, Idle, Slots

LEMMA TogetherArePosts == Together \subseteq SUBSET Items
BY DEF Together, Pairs, Items

LEMMA ChangeKeepsType ==
    ASSUME TypeOK, Change
    PROVE  TypeOK'
<1>1. ASSUME NEW i \in Items, NEW words \in SUBSET Words, EditItem(i, words)
      PROVE  TypeOK'
  BY <1>1 DEF EditItem, TypeOK
<1>2. ASSUME NEW of \in Together, CloseItems(of)
      PROVE  TypeOK'
  <2>1. status' \in [Items -> {"unused", "open", "closed", "deleted"}]
    BY <1>2 DEF CloseItems, TypeOK
  <2> QED
    BY <1>2, <2>1 DEF CloseItems, TypeOK, past
<1>3. ASSUME NEW i \in Items, DeleteItem(i)
      PROVE  TypeOK'
  <2>1. /\ rows' \subseteq Pairs /\ announced' \subseteq Pairs
        /\ outranked' \subseteq Pairs /\ owed' \subseteq Items
    BY <1>3 DEF DeleteItem, TypeOK
  <2> QED
    BY <1>3, <2>1 DEF DeleteItem, TypeOK
<1> QED
  BY <1>1, <1>2, <1>3 DEF Change

LEMMA RequestKeepsType ==
    ASSUME TypeOK, NEW r \in Requests, Request(r)
    PROVE  TypeOK'
<1>1. ASSUME NEW i \in Items, NEW words \in SUBSET Words, CreateItem(r, i, words)
      PROVE  TypeOK'
  <2>1. requests' \in [Requests -> Slots]
    BY <1>1, QueueMatchingType DEF CreateItem
  <2> QED
    BY <1>1, <2>1 DEF CreateItem, TypeOK, past, Slots
<1>2. ASSUME NEW of \in Together, ReopenItems(r, of)
      PROVE  TypeOK'
  <2>1. requests' \in [Requests -> Slots]
    BY <1>2, TogetherArePosts, QueueMatchingType DEF ReopenItems
  <2>2. status' \in [Items -> {"unused", "open", "closed", "deleted"}]
    BY <1>2 DEF ReopenItems, TypeOK
  <2> QED
    BY <1>2, <2>1, <2>2 DEF ReopenItems, TypeOK, past, Slots
<1>3. ASSUME NEW i \in Items, BeginMatchSearch(r, i)
      PROVE  TypeOK'
  <2>1. requests' \in [Requests -> Slots]
    BY <1>3 DEF BeginMatchSearch, Go, TypeOK, Slots
  <2> QED
    BY <1>3, <2>1 DEF BeginMatchSearch, TypeOK, past, posts, Slots
<1>4. CASE PublishJob(r)
  <2>1. requests[r].of \subseteq Items
    BY DEF TypeOK
  <2>2. requests' \in [Requests -> Slots]
    <3>1. Idle \in Slots
      BY DEF Slots, Idle
    <3> QED
      BY <1>4, <2>1, <3>1, QueueMatchingType DEF PublishJob, Go, TypeOK, Slots
  <2>3. queue' \in Seq(Items) /\ (queue # <<>> => queue' # <<>>)
    BY <1>4, <2>1, QueuedLast DEF PublishJob, TypeOK
  <2>4. owed' \subseteq Items
    BY <1>4, <2>1 DEF PublishJob, TypeOK
  <2> QED
    BY <1>4, <2>2, <2>3, <2>4 DEF PublishJob, TypeOK, posts, Slots
<1>5. CASE QueueMatchSearch(r)
  <2>1. requests' \in [Requests -> Slots]
    BY <1>5 DEF QueueMatchSearch, Go, Idle, TypeOK, Slots
  <2>2. requests[r].of \subseteq Items
    BY DEF TypeOK
  <2>3. queue' \in Seq(Items) /\ (queue # <<>> => queue' # <<>>)
    BY <1>5, <2>2, QueuedLast DEF QueueMatchSearch, TypeOK
  <2> QED
    BY <1>5, <2>1, <2>3 DEF QueueMatchSearch, TypeOK, posts, past, Slots
<1> QED
  BY <1>1, <1>2, <1>3, <1>4, <1>5 DEF Request

\* The worker keeps some of the candidates and leaves the rest.
LEMMA ReadCandidatesChooses ==
    ASSUME ReadCandidates
    PROVE  \E kept, left :
              /\ Chosen(kept, left)
              /\ \/ kept \cup left = {Pair(Job, i) : i \in Candidates}
                 \/ ~HasRow(Job) /\ kept = {} /\ left = {}
<1> DEFINE pairs == {Pair(Job, i) : i \in Candidates}
<1>1. CASE \E kept \in Best(pairs) : Chosen(kept, pairs \ kept)
  <2>1. PICK kept \in Best(pairs) : Chosen(kept, pairs \ kept)
    BY <1>1
  <2>2. kept \subseteq pairs
    BY <2>1 DEF Best
  <2>3. kept \cup (pairs \ kept) = pairs
    BY <2>2
  <2> QED
    BY <2>1, <2>3
<1>2. CASE ~HasRow(Job) /\ Chosen({}, {})
  BY <1>2
<1> QED
  BY <1>1, <1>2 DEF ReadCandidates

LEMMA WorkerKeepsType ==
    ASSUME TypeOK, Work \/ StopWorker \/ StartWorker
    PROVE  TypeOK'
<1>1. \A at \in {"down", "idle", "announce"} : Now(at) => worker' \in WorkerStates
  BY DEF Now, Nothing, WorkerStates
<1>2. CASE TakeJob
  <2>1. worker' \in WorkerStates
    <3>1. Job \in Items
      BY <1>2, JobIsPost DEF TakeJob, TypeOK
    <3>2. text[Job] \subseteq Words
      BY <3>1 DEF TypeOK
    <3> QED
      BY <1>1, <1>2, <3>2 DEF TakeJob, Nothing, WorkerStates
  <2> QED
    BY <1>2, <2>1 DEF TakeJob, TypeOK, posts, WorkerStates
<1>3. CASE ReadCandidates
  <2>1. Job \in Items
    BY <1>3, JobIsPost DEF ReadCandidates, TypeOK
  <2>2. {Pair(Job, i) : i \in Candidates} \subseteq Pairs
    BY <2>1, PairProperties DEF Candidates
  <2>3. PICK kept, left :
           Chosen(kept, left) /\ kept \subseteq Pairs /\ left \subseteq Pairs
    BY <1>3, <2>2, ReadCandidatesChooses
  <2>4. worker' \in WorkerStates /\ queue # <<>>
    BY <1>3, <2>3 DEF ReadCandidates, Chosen, TypeOK, WorkerStates
  <2> QED
    BY <1>3, <2>4 DEF ReadCandidates, TypeOK, posts, past, WorkerStates
<1>4. CASE ReadBefore
  <2>1. OfPost(rows, Job) \subseteq Pairs
    BY DEF OfPost, TypeOK
  <2>2. worker' \in WorkerStates /\ queue # <<>>
    BY <1>4, <2>1 DEF ReadBefore, TypeOK, WorkerStates
  <2> QED
    BY <1>4, <2>2 DEF ReadBefore, TypeOK, posts, past, WorkerStates
<1>5. CASE Replace
  <2>1. worker' \in WorkerStates /\ queue # <<>>
    <3>1. worker.kept \ worker.before \subseteq Pairs /\ queue # <<>>
      BY <1>5 DEF Replace, TypeOK
    <3>2. [Nothing EXCEPT !.at = "announce", !.news = worker.kept \ worker.before]
            \in WorkerStates
      BY <3>1 DEF Nothing, WorkerStates
    <3>3. Now("down") => worker' \in WorkerStates
      BY <1>1
    <3> QED
      BY <1>5, <3>1, <3>2, <3>3 DEF Replace
  <2>2. rows' \subseteq Pairs /\ announced' \subseteq Pairs /\ outranked' \subseteq Pairs
    BY <1>5 DEF Replace, TypeOK
  <2> QED
    BY <1>5, <2>1, <2>2 DEF Replace, TypeOK, posts, WorkerStates
<1>6. CASE Announce
  <2>1. worker' \in WorkerStates /\ queue # <<>> /\ announced' \subseteq Pairs
    BY <1>6, SMTT(60) DEF Announce, TypeOK, WorkerStates
  <2> QED
    BY <1>6, <2>1 DEF Announce, TypeOK, posts, WorkerStates
<1>7. CASE Ack
  <2>1. queue' \in Seq(Items)
    BY <1>7, HeadTailProperties DEF Ack, TypeOK
  <2> QED
    BY <1>1, <1>7, <2>1 DEF Ack, Now, Nothing, TypeOK, posts, past, WorkerStates
<1>8. CASE StopWorker \/ StartWorker
  BY <1>1, <1>8 DEF StopWorker, StartWorker, Now, Nothing, TypeOK, posts, past, WorkerStates
<1> QED
  BY <1>2, <1>3, <1>4, <1>5, <1>6, <1>7, <1>8 DEF Work

\* Rows, jobs and what the worker holds keep their types, and a worker in the
\* middle of a job still has it on the queue (process of matching_worker.py).
THEOREM MatchingTypeCorrect == Spec => []TypeOK
<1>1. Init => TypeOK
  BY DEF Init, TypeOK, Nothing, Idle
<1>2. TypeOK /\ [Next]_vars => TypeOK'
  <2> SUFFICES ASSUME TypeOK, [Next]_vars PROVE TypeOK'
    OBVIOUS
  <2>1. CASE UNCHANGED vars
    BY <2>1 DEF vars, TypeOK
  <2> QED
    BY <2>1, ChangeKeepsType, RequestKeepsType, WorkerKeepsType DEF Next
<1> QED
  BY <1>1, <1>2, PTL DEF Spec

-----------------------------------------------------------------------------
(* Suggestions have their posts, and are announced once *)

\* One of the posts has been deleted.  Its id is never used again.
Gone(p) == "deleted" \in {status[p[1]], status[p[2]]}

\* Between reading the old rows and the commit nobody adds a row, so what the
\* worker read covers the rows it replaces; and whatever was announced, or is
\* about to be, still has its row, or a post that can get no row again.
AnnounceInv ==
    /\ TypeOK
    /\ SuggestionsHavePosts
    /\ AnnouncedOnce
    /\ worker.at = "replace" =>
          /\ \A p \in worker.kept : Involves(p, Job)
          /\ OfPost(rows, Job) \subseteq worker.before
    /\ worker.at = "readBefore" => \A p \in worker.kept : Involves(p, Job)
    /\ worker.at # "announce" => worker.news = {}
    /\ \A p \in announced \cup worker.news : p \in rows \/ Gone(p)

LEMMA ChangeKeepsAnnounceInv ==
    ASSUME AnnounceInv, Change
    PROVE  AnnounceInv'
<1>1. TypeOK'
  BY ChangeKeepsType DEF AnnounceInv
<1>2. ASSUME NEW p \in Pairs
      PROVE  p[1] \in Items /\ p[2] \in Items
  BY DEF Pairs, Items
<1>3. rows \subseteq Pairs /\ announced \subseteq Pairs /\ worker.news \subseteq Pairs
  BY DEF AnnounceInv, TypeOK
<1>4. ASSUME UNCHANGED <<rows, queue, worker, announced>>,
             \A i \in Items : /\ HasRow(i) => HasRow(i)'
                              /\ status[i] = "deleted" => status'[i] = "deleted"
      PROVE  AnnounceInv'
  <2>1. SuggestionsHavePosts'
    BY <1>2, <1>3, <1>4 DEF AnnounceInv, SuggestionsHavePosts
  <2>2. \A p \in announced \cup worker.news : Gone(p) => Gone(p)'
    BY <1>2, <1>3, <1>4 DEF Gone
  <2> QED
    BY <1>1, <1>4, <2>1, <2>2 DEF AnnounceInv, AnnouncedOnce, OfPost, Job
<1>5. ASSUME NEW i \in Items, NEW words \in SUBSET Words, EditItem(i, words)
      PROVE  AnnounceInv'
  BY <1>4, <1>5 DEF EditItem, HasRow
<1>6. ASSUME NEW of \in Together, CloseItems(of)
      PROVE  AnnounceInv'
  <2>1. of \subseteq Items
    BY TogetherArePosts
  <2>2. \A i \in Items : /\ HasRow(i) => HasRow(i)'
                         /\ status[i] = "deleted" => status'[i] = "deleted"
    BY <1>6, <2>1 DEF CloseItems, HasRow
  <2> QED
    BY <1>4, <1>6, <2>2 DEF CloseItems, past
<1>7. ASSUME NEW i \in Items, DeleteItem(i)
      PROVE  AnnounceInv'
  <2>1. /\ UNCHANGED <<queue, worker>>
        /\ rows' \subseteq rows /\ announced' \subseteq announced
        /\ status'[i] = "deleted"
        /\ \A j \in Items : j # i => status'[j] = status[j]
    BY <1>7 DEF DeleteItem, AnnounceInv, TypeOK
  <2>2. \A p \in rows' : p \in rows /\ ~Involves(p, i)
    BY <1>7 DEF DeleteItem, OfPost
  <2>3. SuggestionsHavePosts'
    BY <1>2, <1>3, <2>1, <2>2 DEF AnnounceInv, SuggestionsHavePosts, Involves, HasRow
  <2>4. ASSUME NEW p \in announced' \cup worker'.news
        PROVE  p \in rows' \/ Gone(p)'
    <3>1. p \in Pairs /\ (p \in rows \/ Gone(p))
      BY <1>3, <2>1, <2>4 DEF AnnounceInv
    <3>2. CASE Gone(p)
      BY <1>2, <2>1, <3>1, <3>2 DEF Gone
    <3>3. CASE p \in rows /\ ~Involves(p, i)
      BY <1>7, <3>3 DEF DeleteItem, OfPost
    <3>4. CASE Involves(p, i)
      BY <2>1, <3>4 DEF Gone, Involves
    <3> QED
      BY <3>1, <3>2, <3>3, <3>4
  <2>5. AnnouncedOnce'
    BY <2>1 DEF AnnounceInv, AnnouncedOnce
  <2>6. OfPost(rows', Job) \subseteq OfPost(rows, Job) /\ Job' = Job
    BY <2>1 DEF OfPost, Job
  <2> QED
    BY <1>1, <2>1, <2>3, <2>4, <2>5, <2>6 DEF AnnounceInv, OfPost
<1> QED
  BY <1>5, <1>6, <1>7 DEF Change

LEMMA RequestKeepsAnnounceInv ==
    ASSUME AnnounceInv, NEW r \in Requests, Request(r)
    PROVE  AnnounceInv'
<1>1. TypeOK'
  BY RequestKeepsType DEF AnnounceInv
<1>2. ASSUME NEW p \in Pairs
      PROVE  p[1] \in Items /\ p[2] \in Items
  BY DEF Pairs, Items
<1>3. rows \subseteq Pairs /\ announced \subseteq Pairs /\ worker.news \subseteq Pairs
  BY DEF AnnounceInv, TypeOK
<1>4. UNCHANGED <<rows, worker, announced>>
  BY DEF Request, CreateItem, ReopenItems, BeginMatchSearch, PublishJob,
         QueueMatchSearch, posts, past
<1>5. queue # <<>> => Job' = Job
  <2>1. requests[r].of \subseteq Items /\ queue \in Seq(Items)
    BY DEF AnnounceInv, TypeOK
  <2>2. queue' = queue \/ \E i \in Items : queue' = Append(queue, i)
    BY <2>1 DEF Request, CreateItem, ReopenItems, BeginMatchSearch, PublishJob,
                QueueMatchSearch, posts, past
  <2> QED
    BY <2>1, <2>2, QueuedLast DEF Job
<1>6. ASSUME NEW i \in Items
      PROVE  /\ HasRow(i) => HasRow(i)'
             /\ status[i] = "deleted" => status'[i] = "deleted"
  <2>1. ASSUME NEW j \in Items, NEW words \in SUBSET Words, CreateItem(r, j, words)
        PROVE  /\ HasRow(i) => HasRow(i)'
               /\ status[i] = "deleted" => status'[i] = "deleted"
    BY <2>1 DEF CreateItem, HasRow, AnnounceInv, TypeOK
  <2>2. ASSUME NEW of \in Together, ReopenItems(r, of)
        PROVE  /\ HasRow(i) => HasRow(i)'
               /\ status[i] = "deleted" => status'[i] = "deleted"
    BY <2>2 DEF ReopenItems, HasRow
  <2>3. CASE status' = status
    BY <2>3 DEF HasRow
  <2> QED
    BY <2>1, <2>2, <2>3 DEF Request, BeginMatchSearch, PublishJob, QueueMatchSearch, posts
<1>7. SuggestionsHavePosts'
  BY <1>2, <1>3, <1>4, <1>6 DEF AnnounceInv, SuggestionsHavePosts
<1>8. \A p \in announced \cup worker.news : Gone(p) => Gone(p)'
  BY <1>2, <1>3, <1>6 DEF Gone
<1>9. worker.at \in {"readBefore", "replace"} => Job' = Job
  BY <1>5 DEF AnnounceInv, TypeOK
<1> QED
  BY <1>1, <1>4, <1>7, <1>8, <1>9 DEF AnnounceInv, AnnouncedOnce, OfPost

LEMMA WorkerKeepsAnnounceInv ==
    ASSUME AnnounceInv, Work \/ StopWorker \/ StartWorker
    PROVE  AnnounceInv'
<1>1. TypeOK'
  BY WorkerKeepsType DEF AnnounceInv
<1>2. UNCHANGED posts
  BY DEF Work, TakeJob, ReadCandidates, ReadBefore, Replace, Announce, Ack,
         StopWorker, StartWorker
<1>3. \A p : Gone(p)' = Gone(p) /\ \A i : HasRow(i)' = HasRow(i)
  BY <1>2 DEF Gone, HasRow, posts
<1>4. ASSUME UNCHANGED <<rows, announced>>, worker'.news = {},
             worker'.at \notin {"readBefore", "replace"}
      PROVE  AnnounceInv'
  BY <1>1, <1>3, <1>4 DEF AnnounceInv, SuggestionsHavePosts, AnnouncedOnce
<1>5. \A at \in {"down", "idle", "announce"} :
         Now(at) => worker'.news = {} /\ worker'.at = at
  BY DEF Now, Nothing
<1>6. CASE TakeJob
  <2>1. worker'.news = {} /\ worker'.at \in {"readCandidates", "announce"}
    BY <1>5, <1>6 DEF TakeJob, Nothing
  <2> QED
    BY <1>4, <1>6, <2>1 DEF TakeJob
<1>7. CASE ReadCandidates
  <2>1. Job \in Items /\ Job' = Job
    BY <1>7, JobIsPost DEF ReadCandidates, AnnounceInv, TypeOK, Job
  <2>2. \A i \in Candidates : Involves(Pair(Job, i), Job)
    BY <2>1, PairProperties DEF Candidates
  <2>3. PICK kept, left :
           Chosen(kept, left) /\ \A p \in kept : Involves(p, Job)
    BY <1>7, <2>2, ReadCandidatesChooses
  <2>4. /\ worker'.at = "readBefore" /\ worker'.kept = kept
        /\ worker'.news = {} /\ UNCHANGED <<rows, announced>>
    BY <1>7, <2>3 DEF ReadCandidates, Chosen, AnnounceInv, TypeOK, past
  <2> QED
    BY <1>1, <1>3, <2>1, <2>3, <2>4 DEF AnnounceInv, SuggestionsHavePosts, AnnouncedOnce
<1>8. CASE ReadBefore
  <2>1. /\ worker'.at = "replace" /\ worker'.kept = worker.kept
        /\ worker'.before = OfPost(rows, Job) /\ worker'.news = {}
        /\ UNCHANGED <<rows, announced, queue>>
    BY <1>8 DEF ReadBefore, AnnounceInv, TypeOK, past
  <2> QED
    BY <1>1, <1>3, <1>8, <2>1
    DEF AnnounceInv, SuggestionsHavePosts, AnnouncedOnce, ReadBefore, OfPost, Job
<1>9. CASE Replace
  <2>1. CASE ~Now("down")
    <3>1. /\ \A p \in worker.kept : HasRow(p[1]) /\ HasRow(p[2])
          /\ rows' = (rows \ OfPost(rows, Job)) \cup worker.kept
          /\ announced' = announced \ (OfPost(announced, Job) \ worker.kept)
          /\ worker' = [Nothing EXCEPT !.at = "announce",
                                       !.news = worker.kept \ worker.before]
      BY <1>9, <2>1 DEF Replace
    <3>2. worker'.at = "announce" /\ worker'.news = worker.kept \ worker.before
      BY <3>1 DEF Nothing
    <3>3. SuggestionsHavePosts'
      BY <1>3, <3>1 DEF AnnounceInv, SuggestionsHavePosts
    <3>4. ASSUME NEW p \in announced'
          PROVE  p \in rows' \/ Gone(p)'
      <4>1. p \in rows \/ Gone(p)
        BY <3>1, <3>4 DEF AnnounceInv
      <4>2. p \in OfPost(rows, Job) => p \in worker.kept
        BY <3>1, <3>4 DEF OfPost
      <4> QED
        BY <1>3, <3>1, <4>1, <4>2
    <3>5. ASSUME NEW p \in worker.kept \ worker.before, p \in announced
          PROVE  FALSE
      <4>1. p \in rows
        BY <3>1, <3>5 DEF AnnounceInv, Gone, HasRow
      <4>2. p \in worker.before
        BY <1>9, <3>5, <4>1 DEF AnnounceInv, OfPost, Replace
      <4> QED
        BY <3>5, <4>2
    <3>6. AnnouncedOnce'
      BY <3>1, <3>2, <3>5 DEF AnnouncedOnce
    <3>7. \A p \in worker'.news : p \in rows'
      BY <3>1, <3>2
    <3> QED
      BY <1>1, <3>2, <3>3, <3>4, <3>6, <3>7 DEF AnnounceInv
  <2>2. CASE Now("down") /\ UNCHANGED <<rows, announced>>
    BY <1>4, <1>5, <2>2
  <2>3. CASE Now("down") /\ ~UNCHANGED <<rows, announced>>
    <3>1. worker' = [Nothing EXCEPT !.at = "announce",
                                    !.news = worker.kept \ worker.before]
      BY <1>9, <2>3 DEF Replace
    <3> QED
      BY <2>3, <3>1 DEF Now, Nothing
  <2> QED
    BY <2>1, <2>2, <2>3
<1>10. CASE Announce
  <2>1. PICK p \in worker.news :
           /\ worker' = [worker EXCEPT !.news = @ \ {p}]
           /\ announced' \in {announced, announced \cup {p}}
    BY <1>10 DEF Announce
  <2>2. worker'.at = "announce" /\ worker'.news = worker.news \ {p} /\ rows' = rows
    BY <1>10, <2>1 DEF Announce, AnnounceInv, TypeOK
  <2> QED
    BY <1>1, <1>3, <2>1, <2>2 DEF AnnounceInv, SuggestionsHavePosts, AnnouncedOnce
<1>11. CASE Ack \/ StopWorker \/ StartWorker
  BY <1>4, <1>5, <1>11 DEF Ack, StopWorker, StartWorker, past
<1> QED
  BY <1>6, <1>7, <1>8, <1>9, <1>10, <1>11 DEF Work

\* The two properties below are inductive together with what the worker knows.
THEOREM MatchingAnnounceInvariant == Spec => []AnnounceInv
<1>1. Init => AnnounceInv
  BY DEF Init, AnnounceInv, TypeOK, Nothing, Idle, SuggestionsHavePosts, AnnouncedOnce
<1>2. AnnounceInv /\ [Next]_vars => AnnounceInv'
  <2> SUFFICES ASSUME AnnounceInv, [Next]_vars PROVE AnnounceInv'
    OBVIOUS
  <2>1. CASE UNCHANGED vars
    BY <2>1 DEF vars, AnnounceInv, TypeOK, SuggestionsHavePosts, AnnouncedOnce,
               HasRow, Gone, OfPost, Job
  <2> QED
    BY <2>1, ChangeKeepsAnnounceInv, RequestKeepsAnnounceInv, WorkerKeepsAnnounceInv DEF Next
<1> QED
  BY <1>1, <1>2, PTL DEF Spec

\* A suggestion never outlives its posts: the worker's commit checks the foreign
\* keys of what it read earlier, and a delete cascades (crud.py:172-194).
THEOREM MatchingSuggestionsHavePosts == Spec => []SuggestionsHavePosts
<1>1. AnnounceInv => SuggestionsHavePosts
  BY DEF AnnounceInv
<1> QED
  BY <1>1, MatchingAnnounceInvariant, PTL

\* A pair that stays suggested is announced once, whatever is redelivered
\* (process of matching_worker.py).
THEOREM MatchingAnnouncedOnce == Spec => []AnnouncedOnce
<1>1. AnnounceInv => AnnouncedOnce
  BY DEF AnnounceInv
<1> QED
  BY <1>1, MatchingAnnounceInvariant, PTL

-----------------------------------------------------------------------------
(* No pair is missed *)

\* A pair that ought to be suggested.
Wanted(l, f) ==
    /\ status[l] = "open" /\ status[f] = "open"
    /\ Similar(text[l], text[f])
    /\ {l, f} \cap owed = {}

\* A search other than the one the worker may be busy with.
Asked(i) ==
    \E r \in Requests : requests[r].at = "queueMatching" /\ i \in requests[r].of
Behind(i) == \E n \in 2 .. Len(queue) : queue[n] = i
Later(i) == Asked(i) \/ Behind(i)
AtHead(i) == queue # <<>> /\ queue[1] = i /\ worker.at # "announce"

\* While the worker searches, its own job makes NoPairMissed true.  What it has
\* read must do so by the time it commits: it scored the words the post has,
\* unless the post was edited, and a pair it did not see has a search to come.
MissInv ==
    /\ TypeOK
    /\ NoPairMissed
    /\ worker.at = "readCandidates" =>
          \/ status[Job] = "deleted" \/ Job \in owed
          \/ HasRow(Job) /\ worker.text = text[Job]
    /\ worker.at \in {"readBefore", "replace"} =>
          \A l \in LostItems, f \in FoundItems :
             Wanted(l, f) /\ Job \in {l, f} =>
                <<l, f>> \in worker.kept \cup worker.left \/ Later(l) \/ Later(f)

LEMMA DueMeans ==
    ASSUME TypeOK, NEW i
    PROVE  Due(i) <=> Later(i) \/ AtHead(i)
<1>1. Len(queue) \in Nat /\ (queue # <<>> <=> Len(queue) # 0)
  BY EmptySeq, LenProperties DEF TypeOK
<1> QED
  BY <1>1 DEF Due, Later, Asked, Behind, AtHead

\* NoPairMissed in these terms, in every state.
Covered ==
    \A l \in LostItems, f \in FoundItems :
       Wanted(l, f) =>
          \/ <<l, f>> \in rows \cup outranked
          \/ Later(l) \/ Later(f) \/ AtHead(l) \/ AtHead(f)

LEMMA MissedMeans == TypeOK => (NoPairMissed <=> Covered)
BY DueMeans DEF NoPairMissed, Wanted, Covered

LEMMA MissedMeansNext == TypeOK' => (NoPairMissed' <=> Covered')
BY MissedMeans, PTL

\* Nobody but the worker takes a search away without saying so in owed.
LEMMA SearchesStay ==
    ASSUME TypeOK, NEW r \in Requests, Request(r), NEW i \in Items
    PROVE  /\ Later(i) => Later(i)' \/ AtHead(i)' \/ i \in owed'
           /\ Later(i) /\ queue # <<>> => Later(i)' \/ i \in owed'
           /\ AtHead(i) => AtHead(i)'
           /\ queue # <<>> => Job' = Job
<1>1. /\ queue \in Seq(Items) /\ requests \in [Requests -> Slots]
      /\ requests[r].of \subseteq Items
      /\ queue = <<>> => worker.at # "announce"
  BY DEF TypeOK, Slots
<1>2. worker' = worker /\ owed \subseteq owed'
  BY DEF Request, CreateItem, ReopenItems, BeginMatchSearch, PublishJob,
         QueueMatchSearch, posts, past
<1>3. \A q \in Requests : q # r => requests'[q] = requests[q]
  BY <1>1 DEF Request, CreateItem, ReopenItems, BeginMatchSearch, PublishJob,
              QueueMatchSearch, QueueMatching, Go
<1>4. ASSUME NEW j \in Items, queue' = Append(queue, j)
      PROVE  /\ Behind(i) => Behind(i)'
             /\ AtHead(i) => AtHead(i)'
             /\ j = i => AtHead(i)' \/ Behind(i)'
             /\ j = i /\ queue # <<>> => Behind(i)'
             /\ queue # <<>> => Job' = Job
  <2>1. queue # <<>> => Len(queue) \in Nat \ {0}
    BY <1>1, EmptySeq, LenProperties
  <2>2. queue = <<>> => Len(queue) = 0
    OBVIOUS
  <2> QED
    BY <1>1, <1>2, <1>4, <2>1, <2>2, QueuedLast DEF Behind, AtHead
<1>5. ASSUME queue' = queue
      PROVE  /\ Behind(i) => Behind(i)'
             /\ AtHead(i) => AtHead(i)'
             /\ queue # <<>> => Job' = Job
  BY <1>2, <1>5 DEF Behind, AtHead, Job
<1>6. queue' = queue \/ \E j \in Items : queue' = Append(queue, j)
  BY <1>1 DEF Request, CreateItem, ReopenItems, BeginMatchSearch, PublishJob,
              QueueMatchSearch, posts, past
<1>7. Asked(i) => \/ Asked(i)' \/ i \in owed' \/ queue' = Append(queue, i)
  <2>1. SUFFICES ASSUME requests[r].at = "queueMatching", i \in requests[r].of
                 PROVE  \/ Asked(i)' \/ i \in owed' \/ queue' = Append(queue, i)
    BY <1>3 DEF Asked
  <2>2. PublishJob(r)
    <3>1. requests[r] # Idle /\ requests[r].at # "matchSearch"
      BY <2>1 DEF Idle
    <3> QED
      BY <3>1 DEF Request, CreateItem, ReopenItems, BeginMatchSearch, QueueMatchSearch
  <2>3. CASE owed' = owed \cup requests[r].of
    BY <2>1, <2>3
  <2>4. ASSUME NEW j \in requests[r].of, QueueMatching(r, requests[r].of \ {j}),
               queue' = Append(queue, j) \/ owed' = owed \cup {j}
        PROVE  \/ Asked(i)' \/ i \in owed' \/ queue' = Append(queue, i)
    <3>1. CASE i = j
      BY <2>4, <3>1
    <3>2. CASE i # j
      <4>1. requests'[r] = [at |-> "queueMatching", of |-> requests[r].of \ {j}]
        BY <1>1, <2>1, <2>4, <3>2 DEF QueueMatching, Go
      <4> QED
        BY <2>1, <3>2, <4>1 DEF Asked
    <3> QED
      BY <3>1, <3>2
  <2> QED
    BY <2>2, <2>3, <2>4 DEF PublishJob
<1>8. ASSUME queue' = Append(queue, i)
      PROVE  /\ Later(i) => Later(i)' \/ AtHead(i)' \/ i \in owed'
             /\ Later(i) /\ queue # <<>> => Later(i)'
             /\ AtHead(i) => AtHead(i)'
             /\ queue # <<>> => Job' = Job
  <2>1. /\ AtHead(i)' \/ Behind(i)'
        /\ queue # <<>> => Behind(i)'
        /\ AtHead(i) => AtHead(i)'
        /\ queue # <<>> => Job' = Job
    BY <1>4, <1>8
  <2> QED
    BY <2>1 DEF Later
<1>9. ASSUME NEW j \in Items, queue' = Append(queue, j), queue' # Append(queue, i)
      PROVE  /\ Later(i) => Later(i)' \/ i \in owed'
             /\ AtHead(i) => AtHead(i)'
             /\ queue # <<>> => Job' = Job
  <2>1. /\ Behind(i) => Behind(i)'
        /\ AtHead(i) => AtHead(i)'
        /\ queue # <<>> => Job' = Job
    BY <1>4, <1>9
  <2> QED
    BY <1>7, <1>9, <2>1 DEF Later
<1>10. ASSUME queue' = queue
       PROVE  /\ Later(i) => Later(i)' \/ i \in owed' \/ queue' = Append(queue, i)
              /\ AtHead(i) => AtHead(i)'
              /\ queue # <<>> => Job' = Job
  BY <1>5, <1>7, <1>10 DEF Later
<1> QED
  BY <1>6, <1>8, <1>9, <1>10

\* A request makes a pair wanted only by opening a post it will queue.
LEMMA NewlyWanted ==
    ASSUME TypeOK, NEW r \in Requests, Request(r),
           NEW l \in LostItems, NEW f \in FoundItems, Wanted(l, f)'
    PROVE  Wanted(l, f) \/ Later(l)' \/ Later(f)'
<1>1. l \in Items /\ f \in Items /\ requests \in [Requests -> Slots]
  BY DEF Items, TypeOK, Slots
<1>2. ASSUME NEW of \in SUBSET Items, QueueMatching(r, of), l \in of \/ f \in of
      PROVE  Later(l)' \/ Later(f)'
  <2>1. requests'[r] = [at |-> "queueMatching", of |-> of]
    BY <1>1, <1>2 DEF QueueMatching, Go
  <2> QED
    BY <1>2, <2>1 DEF Later, Asked
<1>3. ASSUME UNCHANGED <<status, text>>, owed \subseteq owed'
      PROVE  Wanted(l, f)
  BY <1>3 DEF Wanted
<1>4. ASSUME NEW i \in Items, NEW words \in SUBSET Words, CreateItem(r, i, words)
      PROVE  Wanted(l, f) \/ Later(l)' \/ Later(f)'
  <2>1. CASE i \in {l, f}
    BY <1>2, <1>4, <2>1 DEF CreateItem
  <2>2. CASE i \notin {l, f}
    BY <1>1, <1>4, <2>2 DEF CreateItem, Wanted, past, TypeOK
  <2> QED
    BY <2>1, <2>2
<1>5. ASSUME NEW of \in Together, ReopenItems(r, of)
      PROVE  Wanted(l, f) \/ Later(l)' \/ Later(f)'
  <2>1. CASE l \in of \/ f \in of
    BY <1>2, <1>5, <2>1, TogetherArePosts DEF ReopenItems
  <2>2. CASE l \notin of /\ f \notin of
    BY <1>1, <1>5, <2>2 DEF ReopenItems, Wanted, past
  <2> QED
    BY <2>1, <2>2
<1> QED
  BY <1>3, <1>4, <1>5 DEF Request, BeginMatchSearch, PublishJob, QueueMatchSearch, posts, past

LEMMA RequestKeepsPost ==
    ASSUME TypeOK, NEW r \in Requests, Request(r), NEW i \in Items
    PROVE  /\ status[i] = "deleted" => status'[i] = "deleted"
           /\ HasRow(i) => HasRow(i)' /\ text'[i] = text[i]
<1>1. ASSUME NEW j \in Items, NEW words \in SUBSET Words, CreateItem(r, j, words)
      PROVE  /\ status[i] = "deleted" => status'[i] = "deleted"
             /\ HasRow(i) => HasRow(i)' /\ text'[i] = text[i]
  BY <1>1 DEF CreateItem, HasRow, TypeOK
<1>2. ASSUME NEW of \in Together, ReopenItems(r, of)
      PROVE  /\ status[i] = "deleted" => status'[i] = "deleted"
             /\ HasRow(i) => HasRow(i)' /\ text'[i] = text[i]
  BY <1>2 DEF ReopenItems, HasRow
<1> QED
  BY <1>1, <1>2 DEF Request, BeginMatchSearch, PublishJob, QueueMatchSearch, posts, HasRow

LEMMA RequestKeepsMissInv ==
    ASSUME MissInv, NEW r \in Requests, Request(r)
    PROVE  MissInv'
<1>1. TypeOK /\ TypeOK'
  BY RequestKeepsType DEF MissInv
<1>2. /\ UNCHANGED <<rows, outranked, worker>>
      /\ owed \subseteq owed'
  BY DEF Request, CreateItem, ReopenItems, BeginMatchSearch, PublishJob,
         QueueMatchSearch, posts, past
<1>3. ASSUME NEW l \in LostItems, NEW f \in FoundItems, Wanted(l, f)'
      PROVE  /\ l \in Items /\ f \in Items
             /\ l \notin owed' /\ f \notin owed'
             /\ Wanted(l, f) \/ Later(l)' \/ Later(f)'
  BY <1>1, <1>3, NewlyWanted DEF Wanted, Items
<1>4. NoPairMissed'
  <2>1. ASSUME NEW l \in LostItems, NEW f \in FoundItems, Wanted(l, f)'
        PROVE  \/ <<l, f>> \in (rows \cup outranked)'
               \/ Later(l)' \/ Later(f)' \/ AtHead(l)' \/ AtHead(f)'
    <3>1. CASE Wanted(l, f)
      <4>1. \/ <<l, f>> \in rows \cup outranked
            \/ Later(l) \/ Later(f) \/ AtHead(l) \/ AtHead(f)
        BY <1>1, <3>1, MissedMeans DEF MissInv, Covered
      <4> QED
        BY <1>1, <1>2, <1>3, <2>1, <4>1, SearchesStay
    <3> QED
      BY <1>3, <2>1, <3>1
  <2> QED
    BY <1>1, <2>1, MissedMeansNext DEF Covered
<1>5. worker.at \in {"readCandidates", "readBefore", "replace"} => queue # <<>> /\ Job' = Job
  <2>1. worker.at \in {"readCandidates", "readBefore", "replace"} => queue # <<>>
    BY <1>1 DEF TypeOK
  <2>2. Items # {} => (queue # <<>> => Job' = Job)
    BY <1>1, SearchesStay
  <2> QED
    BY <1>1, <2>1, <2>2, JobIsPost DEF TypeOK
<1>6. ASSUME worker'.at = "readCandidates"
      PROVE  (\/ status[Job] = "deleted" \/ Job \in owed
              \/ HasRow(Job) /\ worker.text = text[Job])'
  <2>1. Job \in Items /\ queue # <<>> /\ Job' = Job
    BY <1>1, <1>2, <1>5, <1>6, JobIsPost DEF TypeOK
  <2>2. /\ status[Job] = "deleted" => status'[Job] = "deleted"
        /\ HasRow(Job) => HasRow(Job)' /\ text'[Job] = text[Job]
    BY <1>1, <2>1, RequestKeepsPost
  <2>3. \/ status[Job] = "deleted" \/ Job \in owed
        \/ HasRow(Job) /\ worker.text = text[Job]
    BY <1>2, <1>6 DEF MissInv
  <2> QED
    BY <1>2, <2>1, <2>2, <2>3
<1>7. ASSUME worker'.at \in {"readBefore", "replace"},
             NEW l \in LostItems, NEW f \in FoundItems,
             Wanted(l, f)', Job' \in {l, f}
      PROVE  <<l, f>> \in (worker.kept \cup worker.left)' \/ Later(l)' \/ Later(f)'
  <2>1. queue # <<>> /\ Job \in {l, f}
    BY <1>2, <1>5, <1>7
  <2>2. CASE Wanted(l, f)
    <3>1. <<l, f>> \in worker.kept \cup worker.left \/ Later(l) \/ Later(f)
      BY <1>2, <1>7, <2>1, <2>2 DEF MissInv
    <3> QED
      BY <1>1, <1>2, <1>3, <1>7, <2>1, <3>1, SearchesStay
  <2> QED
    BY <1>3, <1>7, <2>2
<1> QED
  BY <1>1, <1>4, <1>6, <1>7 DEF MissInv

LEMMA ChangeKeepsMissInv ==
    ASSUME MissInv, Change
    PROVE  MissInv'
<1>1. TypeOK /\ TypeOK'
  BY ChangeKeepsType DEF MissInv
<1>2. UNCHANGED <<queue, worker, requests>>
  BY DEF Change, EditItem, CloseItems, DeleteItem, past
<1>3. Job' = Job /\ \A i : Later(i)' = Later(i) /\ AtHead(i)' = AtHead(i)
  BY <1>2 DEF Job, Later, Asked, Behind, AtHead
<1>4. ASSUME NEW l \in LostItems, NEW f \in FoundItems, Wanted(l, f)'
      PROVE  /\ Wanted(l, f)
             /\ <<l, f>> \in rows \cup outranked => <<l, f>> \in (rows \cup outranked)'
  <2>1. l \in Items /\ f \in Items
    BY DEF Items
  <2>2. ASSUME NEW i \in Items, NEW words \in SUBSET Words, EditItem(i, words)
        PROVE  Wanted(l, f) /\ UNCHANGED <<rows, outranked>>
    <3>1. i \notin {l, f} /\ status' = status /\ {l, f} \cap owed = {}
      BY <1>4, <2>2 DEF EditItem, Wanted
    <3>2. text'[l] = text[l] /\ text'[f] = text[f]
      BY <1>1, <2>1, <2>2, <3>1 DEF EditItem, TypeOK
    <3> QED
      BY <1>4, <2>2, <3>1, <3>2 DEF EditItem, Wanted
  <2>3. ASSUME NEW of \in Together, CloseItems(of)
        PROVE  Wanted(l, f) /\ UNCHANGED <<rows, outranked>>
    <3>1. status[l] = "open" /\ status[f] = "open"
      BY <1>4, <2>1, <2>3 DEF CloseItems, Wanted
    <3> QED
      BY <1>4, <2>3, <3>1 DEF CloseItems, Wanted, past
  <2>4. ASSUME NEW i \in Items, DeleteItem(i)
        PROVE  /\ Wanted(l, f)
               /\ <<l, f>> \in rows \cup outranked => <<l, f>> \in (rows \cup outranked)'
    <3>1. i # l /\ i # f
      BY <1>1, <1>4, <2>1, <2>4 DEF DeleteItem, Wanted, TypeOK
    <3>2. Wanted(l, f)
      BY <1>1, <1>4, <2>1, <2>4, <3>1 DEF DeleteItem, Wanted, TypeOK
    <3>3. ~Involves(<<l, f>>, i)
      BY <3>1 DEF Involves
    <3> QED
      BY <2>4, <3>2, <3>3 DEF DeleteItem, OfPost
  <2> QED
    BY <2>2, <2>3, <2>4 DEF Change
<1>5. NoPairMissed'
  BY <1>1, <1>3, <1>4, MissedMeans, MissedMeansNext DEF MissInv, Covered
<1>6. ASSUME worker'.at = "readCandidates"
      PROVE  (\/ status[Job] = "deleted" \/ Job \in owed
              \/ HasRow(Job) /\ worker.text = text[Job])'
  <2>1. Job \in Items
    BY <1>1, <1>2, <1>6, JobIsPost DEF TypeOK
  <2>2. \/ status[Job] = "deleted" \/ Job \in owed
        \/ HasRow(Job) /\ worker.text = text[Job]
    BY <1>2, <1>6 DEF MissInv
  <2>3. ASSUME NEW i \in Items, NEW words \in SUBSET Words, EditItem(i, words)
        PROVE  \/ status'[Job] = "deleted" \/ Job \in owed'
               \/ HasRow(Job)' /\ worker.text = text'[Job]
    BY <1>1, <1>3, <2>1, <2>2, <2>3 DEF EditItem, HasRow, TypeOK
  <2>4. ASSUME NEW of \in Together, CloseItems(of)
        PROVE  \/ status'[Job] = "deleted" \/ Job \in owed'
               \/ HasRow(Job)' /\ worker.text = text'[Job]
    BY <1>3, <2>1, <2>2, <2>4 DEF CloseItems, HasRow, past
  <2>5. ASSUME NEW i \in Items, DeleteItem(i)
        PROVE  \/ status'[Job] = "deleted" \/ Job \in owed'
               \/ HasRow(Job)' /\ worker.text = text'[Job]
    <3>1. CASE i = Job
      BY <1>1, <2>1, <2>5, <3>1 DEF DeleteItem, TypeOK
    <3>2. CASE i # Job
      BY <1>1, <1>3, <2>1, <2>2, <2>5, <3>2 DEF DeleteItem, HasRow, TypeOK
    <3> QED
      BY <3>1, <3>2
  <2> QED
    BY <1>2, <1>3, <2>3, <2>4, <2>5 DEF Change
<1> QED
  BY <1>1, <1>2, <1>3, <1>4, <1>5, <1>6 DEF MissInv

\* A step of the worker that takes no search away and keeps what is suggested.
LEMMA WorkKeepsCovered ==
    ASSUME TypeOK, TypeOK', NoPairMissed,
           UNCHANGED <<status, text, owed, requests, queue, rows, outranked>>,
           worker.at = "announce" \/ worker'.at # "announce"
    PROVE  NoPairMissed'
<1>1. \A i : Later(i)' = Later(i) /\ (AtHead(i) => AtHead(i)')
  BY DEF Later, Asked, Behind, AtHead
<1>2. \A l, f : Wanted(l, f)' = Wanted(l, f)
  BY DEF Wanted
<1> QED
  BY <1>1, <1>2, MissedMeans, MissedMeansNext DEF Covered

\* Acknowledging a job brings the next one to the head.
LEMMA TailKeepsSearches ==
    ASSUME TypeOK, requests' = requests, worker.at = "announce",
           worker'.at = "idle", queue' = Tail(queue), NEW i, Later(i)
    PROVE  Later(i)' \/ AtHead(i)'
<1>1. /\ queue # <<>> /\ queue' \in Seq(Items)
      /\ Len(queue) \in Nat /\ Len(queue') = Len(queue) - 1
      /\ \A n \in 1 .. Len(queue') : queue'[n] = queue[n + 1]
  BY HeadTailProperties, LenProperties DEF TypeOK
<1>2. CASE Asked(i)
  BY <1>2 DEF Later, Asked
<1>3. CASE Behind(i)
  <2>1. PICK n \in 2 .. Len(queue) : queue[n] = i
    BY <1>3 DEF Behind
  <2>2. n - 1 \in 1 .. Len(queue') /\ queue'[n - 1] = i
    BY <1>1, <2>1
  <2>3. Len(queue') # 0
    BY <1>1, <2>2
  <2>5. queue' # <<>>
    BY <2>3, EmptySeq
  <2>4. n - 1 = 1 \/ n - 1 \in 2 .. Len(queue')
    BY <1>1, <2>1, <2>2
  <2> QED
    BY <2>2, <2>4, <2>5 DEF AtHead, Later, Behind
<1> QED
  BY <1>2, <1>3 DEF Later

\* The pair of a wanted couple is the one the worker makes of the other post.
LEMMA WantedIsCandidate ==
    ASSUME NEW l \in LostItems, NEW f \in FoundItems, Wanted(l, f), Job \in {l, f},
           worker.text = text[Job]
    PROVE  <<l, f>> \in {Pair(Job, i) : i \in Candidates}
<1>1. CASE Job = l
  <2>1. f \in Candidates
    BY <1>1 DEF Candidates, OtherType, Wanted, Similar
  <2>2. Pair(Job, f) = <<l, f>>
    BY <1>1 DEF Pair
  <2> QED
    BY <2>1, <2>2
<1>2. CASE Job = f
  <2>1. f \notin LostItems
    BY MatchingAssumption
  <2>2. l \in Candidates
    BY <1>2, <2>1 DEF Candidates, OtherType, Wanted, Similar
  <2>3. Pair(Job, l) = <<l, f>>
    BY <1>2, <2>1 DEF Pair
  <2> QED
    BY <2>2, <2>3
<1> QED
  BY <1>1, <1>2

LEMMA WorkerKeepsMissInv ==
    ASSUME MissInv, Work \/ StopWorker \/ StartWorker
    PROVE  MissInv'
<1>1. TypeOK /\ TypeOK' /\ NoPairMissed
  BY WorkerKeepsType DEF MissInv
<1>2. UNCHANGED <<status, text, requests>>
  BY DEF Work, TakeJob, ReadCandidates, ReadBefore, Replace, Announce, Ack,
         StopWorker, StartWorker, posts
<1>3. \A at \in {"down", "idle", "announce"} : Now(at) => worker'.at = at
  BY DEF Now, Nothing
<1>4. ASSUME NoPairMissed', worker'.at \in {"down", "idle", "announce"}
      PROVE  MissInv'
  BY <1>1, <1>4 DEF MissInv
<1>5. ASSUME NEW l \in LostItems, NEW f \in FoundItems, Wanted(l, f),
             Job \notin {l, f}
      PROVE  <<l, f>> \in rows \cup outranked \/ Later(l) \/ Later(f)
  <2>1. ~AtHead(l) /\ ~AtHead(f)
    BY <1>5 DEF AtHead, Job
  <2> QED
    BY <1>1, <1>5, <2>1, MissedMeans DEF Covered
<1>6. CASE TakeJob
  <2>1. queue # <<>> /\ UNCHANGED <<queue, rows, outranked>>
    BY <1>6 DEF TakeJob
  <2>2. \A i : Later(i)' = Later(i)
    BY <1>2, <2>1 DEF Later, Asked, Behind
  <2>3. CASE status[Job] = "open"
    <3>1. /\ worker'.at = "readCandidates" /\ worker'.text = text[Job]
          /\ owed' = owed \ {Job}
      BY <1>6, <2>3 DEF TakeJob, Nothing
    <3>2. ASSUME NEW l \in LostItems, NEW f \in FoundItems, Wanted(l, f)'
          PROVE  \/ <<l, f>> \in (rows \cup outranked)'
                 \/ Later(l)' \/ Later(f)' \/ AtHead(l)' \/ AtHead(f)'
      <4>1. CASE Job \in {l, f}
        BY <2>1, <3>1, <4>1 DEF AtHead, Job
      <4>2. CASE Job \notin {l, f}
        BY <1>2, <1>5, <2>1, <2>2, <3>1, <3>2, <4>2 DEF Wanted
      <4> QED
        BY <4>1, <4>2
    <3>3. NoPairMissed'
      BY <1>1, <3>2, MissedMeansNext DEF Covered
    <3>4. HasRow(Job)' /\ worker'.text = text'[Job'] /\ Job' = Job
      BY <1>2, <2>1, <2>3, <3>1 DEF HasRow, Job
    <3> QED
      BY <1>1, <3>1, <3>3, <3>4 DEF MissInv
  <2>4. CASE status[Job] # "open"
    <3>1. worker'.at = "announce" /\ owed' = owed
      BY <1>3, <1>6, <2>4 DEF TakeJob
    <3>2. ASSUME NEW l \in LostItems, NEW f \in FoundItems, Wanted(l, f)'
          PROVE  <<l, f>> \in (rows \cup outranked)' \/ Later(l)' \/ Later(f)'
      <4>1. Wanted(l, f) /\ Job \notin {l, f}
        BY <1>2, <2>4, <3>1, <3>2 DEF Wanted
      <4> QED
        BY <1>5, <2>1, <2>2, <4>1
    <3>3. NoPairMissed'
      BY <1>1, <3>2, MissedMeansNext DEF Covered
    <3> QED
      BY <1>4, <3>1, <3>3
  <2> QED
    BY <2>3, <2>4
<1>7. CASE ReadCandidates
  <2>1. PICK kept, left :
           /\ Chosen(kept, left)
           /\ kept \cup left = {Pair(Job, i) : i \in Candidates} \/ ~HasRow(Job)
    BY <1>7, ReadCandidatesChooses
  <2>2. /\ worker'.at = "readBefore" /\ worker'.kept = kept /\ worker'.left = left
        /\ UNCHANGED <<queue, rows, outranked, owed>>
    BY <1>1, <1>7, <2>1 DEF ReadCandidates, Chosen, TypeOK, past
  <2>3. NoPairMissed'
    BY <1>1, <1>2, <2>2, WorkKeepsCovered
  <2>4. ASSUME NEW l \in LostItems, NEW f \in FoundItems,
               Wanted(l, f)', Job' \in {l, f}
        PROVE  <<l, f>> \in (worker.kept \cup worker.left)'
    <3>1. Wanted(l, f) /\ Job \in {l, f}
      BY <1>2, <2>2, <2>4 DEF Wanted, Job
    <3>2. worker.text = text[Job] /\ HasRow(Job)
      BY <1>7, <3>1 DEF MissInv, ReadCandidates, Wanted, HasRow
    <3>3. <<l, f>> \in {Pair(Job, i) : i \in Candidates}
      BY <3>1, <3>2, WantedIsCandidate
    <3> QED
      BY <2>1, <2>2, <3>2, <3>3
  <2> QED
    BY <1>1, <2>2, <2>3, <2>4 DEF MissInv
<1>8. CASE ReadBefore
  <2>1. /\ worker.at = "readBefore" /\ worker'.at = "replace"
        /\ worker'.kept = worker.kept /\ worker'.left = worker.left
        /\ UNCHANGED <<queue, rows, outranked, owed>>
    BY <1>1, <1>8 DEF ReadBefore, TypeOK, past
  <2>2. NoPairMissed'
    BY <1>1, <1>2, <2>1, WorkKeepsCovered
  <2>3. \A i : Later(i)' = Later(i)
    BY <1>2, <2>1 DEF Later, Asked, Behind
  <2> QED
    BY <1>1, <1>2, <2>1, <2>2, <2>3 DEF MissInv, Wanted, Job
<1>9. CASE Replace
  <2>1. UNCHANGED <<queue, owed>>
    BY <1>9 DEF Replace
  <2>2. CASE UNCHANGED <<rows, outranked>> /\ worker'.at = "down"
    BY <1>1, <1>2, <1>4, <2>1, <2>2, WorkKeepsCovered
  <2>3. CASE ~(UNCHANGED <<rows, outranked>> /\ worker'.at = "down")
    <3>1. /\ rows' = (rows \ OfPost(rows, Job)) \cup worker.kept
          /\ outranked' = (outranked \ OfPost(outranked, Job)) \cup worker.left
          /\ worker'.at = "announce"
      BY <1>3, <1>9, <2>3 DEF Replace, Nothing
    <3>2. ASSUME NEW l \in LostItems, NEW f \in FoundItems, Wanted(l, f)'
          PROVE  <<l, f>> \in (rows \cup outranked)' \/ Later(l)' \/ Later(f)'
      <4>1. Wanted(l, f) /\ Later(l)' = Later(l) /\ Later(f)' = Later(f)
        BY <1>2, <2>1, <3>2 DEF Wanted, Later, Asked, Behind
      <4>2. CASE Job \in {l, f}
        <5>1. <<l, f>> \in worker.kept \cup worker.left \/ Later(l) \/ Later(f)
          BY <1>9, <4>1, <4>2 DEF MissInv, Replace
        <5> QED
          BY <3>1, <4>1, <5>1
      <4>3. CASE Job \notin {l, f}
        <5>1. ~Involves(<<l, f>>, Job)
          BY <4>3 DEF Involves
        <5> QED
          BY <1>5, <3>1, <4>1, <4>3, <5>1 DEF OfPost
      <4> QED
        BY <4>2, <4>3
    <3>3. NoPairMissed'
      BY <1>1, <3>2, MissedMeansNext DEF Covered
    <3> QED
      BY <1>4, <3>1, <3>3
  <2> QED
    BY <2>2, <2>3
<1>10. CASE Announce
  <2>1. PICK p \in worker.news : worker' = [worker EXCEPT !.news = @ \ {p}]
    BY <1>10 DEF Announce
  <2>2. worker'.at = "announce" /\ worker.at = "announce"
        /\ UNCHANGED <<queue, rows, outranked, owed>>
    BY <1>1, <1>10, <2>1 DEF Announce, TypeOK
  <2> QED
    BY <1>1, <1>2, <1>4, <2>2, WorkKeepsCovered
<1>11. CASE Ack
  <2>1. /\ worker.at = "announce" /\ worker'.at = "idle" /\ queue' = Tail(queue)
        /\ UNCHANGED <<rows, outranked, owed>>
    BY <1>3, <1>11 DEF Ack, past
  <2>3. \A i : Later(i) => Later(i)' \/ AtHead(i)'
    BY <1>1, <1>2, <2>1, TailKeepsSearches
  <2>4. NoPairMissed'
    <3>1. \A i : ~AtHead(i)
      BY <2>1 DEF AtHead
    <3>2. \A l, f : Wanted(l, f)' = Wanted(l, f)
      BY <1>2, <2>1 DEF Wanted
    <3> QED
      BY <1>1, <2>1, <2>3, <3>1, <3>2, MissedMeans, MissedMeansNext DEF Covered
  <2> QED
    BY <1>4, <2>1, <2>4
<1>12. CASE StopWorker \/ StartWorker
  <2>1. worker'.at \in {"down", "idle"} /\ UNCHANGED <<queue, rows, outranked, owed>>
    BY <1>3, <1>12 DEF StopWorker, StartWorker, past
  <2> QED
    BY <1>1, <1>2, <1>4, <2>1, WorkKeepsCovered
<1> QED
  BY <1>6, <1>7, <1>8, <1>9, <1>10, <1>11, <1>12 DEF Work

\* NoPairMissed is inductive together with what the worker has read.
THEOREM MatchingMissInvariant == Spec => []MissInv
<1>1. Init => MissInv
  <2>1. Init => TypeOK
    BY DEF Init, TypeOK, Nothing, Idle
  <2>2. Init => NoPairMissed
    <3> SUFFICES ASSUME Init, NEW l \in LostItems PROVE status[l] # "open"
      BY DEF NoPairMissed
    <3> QED
      BY DEF Init, Items
  <2>3. Init => worker.at = "idle"
    BY DEF Init, Nothing
  <2> QED
    BY <2>1, <2>2, <2>3 DEF MissInv
<1>2. MissInv /\ [Next]_vars => MissInv'
  <2> SUFFICES ASSUME MissInv, [Next]_vars PROVE MissInv'
    OBVIOUS
  <2>1. CASE UNCHANGED vars
    BY <2>1 DEF vars, MissInv, TypeOK, NoPairMissed, Wanted, Later, Asked, Behind,
               Due, HasRow, Job
  <2> QED
    BY <2>1, ChangeKeepsMissInv, RequestKeepsMissInv, WorkerKeepsMissInv DEF Next
<1> QED
  BY <1>1, <1>2, PTL DEF Spec

\* Queueing one search per post, after its commit, is enough for both posts of
\* every pair: nothing is missed unless a search was lost, a description edited
\* or better candidates found (items.py:45, items.py:169, matches.py:126).
THEOREM MatchingNoPairMissed == Spec => []NoPairMissed
<1>1. MissInv => NoPairMissed
  BY DEF MissInv
<1> QED
  BY <1>1, MatchingMissInvariant, PTL

-----------------------------------------------------------------------------
(* No suggestion goes stale without a cause *)

\* A pair whose open posts have no word in common and nobody to blame for it.
Stale(p) ==
    /\ status[p[1]] = "open" /\ status[p[2]] = "open"
    /\ {p[1], p[2]} \cap owed = {}
    /\ ~Similar(text[p[1]], text[p[2]])

\* What the worker is about to write down is right, or an edit has made it wrong.
\* Nothing but a search takes a post out of owed, and the worker does one at a time.
StillRight(p) ==
    \/ Similar(text[p[1]], text[p[2]])
    \/ {p[1], p[2]} \cap owed # {}
    \/ Gone(p)

Exist(p) == "unused" \notin {status[p[1]], status[p[2]]}

Excused(p) == Later(p[1]) \/ Later(p[2]) \/ AtHead(p[1]) \/ AtHead(p[2])

StaleInv ==
    /\ MissInv /\ SuggestionsHavePosts
    /\ \A p \in rows : Stale(p) => Excused(p)
    /\ worker.at \in {"readCandidates", "readBefore", "replace"} =>
          status[Job] # "unused"
    /\ worker.at \in {"readBefore", "replace"} =>
          \A p \in worker.kept : Involves(p, Job) /\ Exist(p) /\ StillRight(p)

LEMMA StaleMeans ==
    ASSUME TypeOK
    PROVE  NoStaleSuggestion <=> \A p \in rows : Stale(p) => Excused(p)
BY DueMeans DEF NoStaleSuggestion, Stale, Excused

LEMMA PairsArePosts ==
    ASSUME TypeOK, NEW p \in rows \cup worker.kept
    PROVE  p \in Pairs /\ p[1] \in Items /\ p[2] \in Items
BY DEF TypeOK, Pairs, Items

\* A request opens a post, or changes the words of one, only if that post had no
\* row or is queued.
LEMMA RequestLeavesPair ==
    ASSUME TypeOK, NEW r \in Requests, Request(r),
           NEW p \in Pairs, Exist(p)
    PROVE  /\ Exist(p)'
           /\ text'[p[1]] = text[p[1]] /\ text'[p[2]] = text[p[2]]
           /\ Gone(p) => Gone(p)'
           /\ Stale(p)' => Stale(p) \/ Later(p[1])' \/ Later(p[2])'
<1>1. p[1] \in Items /\ p[2] \in Items /\ requests \in [Requests -> Slots]
  BY DEF Pairs, Items, TypeOK, Slots
<1>2. ASSUME NEW of \in SUBSET Items, QueueMatching(r, of), p[1] \in of \/ p[2] \in of
      PROVE  Later(p[1])' \/ Later(p[2])'
  <2>1. requests'[r] = [at |-> "queueMatching", of |-> of]
    BY <1>1, <1>2 DEF QueueMatching, Go
  <2> QED
    BY <1>2, <2>1 DEF Later, Asked
<1>3. CASE UNCHANGED <<status, text>> /\ owed \subseteq owed'
  BY <1>3 DEF Stale, Exist, Gone
<1>4. ASSUME NEW i \in Items, NEW words \in SUBSET Words, CreateItem(r, i, words)
      PROVE  /\ status'[p[1]] = status[p[1]] /\ status'[p[2]] = status[p[2]]
             /\ text'[p[1]] = text[p[1]] /\ text'[p[2]] = text[p[2]]
             /\ owed' = owed
  <2>1. i # p[1] /\ i # p[2]
    BY <1>4 DEF CreateItem, Exist
  <2> QED
    BY <1>1, <1>4, <2>1 DEF CreateItem, TypeOK, past
<1>5. ASSUME NEW of \in Together, ReopenItems(r, of)
      PROVE  /\ Exist(p)'
             /\ text' = text
             /\ Gone(p) => Gone(p)'
             /\ Stale(p)' => Stale(p) \/ Later(p[1])' \/ Later(p[2])'
  <2>1. /\ of \in SUBSET Items /\ QueueMatching(r, of)
        /\ text' = text /\ owed' = owed
        /\ \A i \in of : HasRow(i)
        /\ \A i \in Items : status'[i] = IF i \in of THEN "open" ELSE status[i]
    BY <1>5, TogetherArePosts DEF ReopenItems, HasRow, past
  <2>2. CASE p[1] \in of \/ p[2] \in of
    <3>1. Later(p[1])' \/ Later(p[2])'
      BY <1>2, <2>1, <2>2
    <3>2. Exist(p)' /\ (Gone(p) => Gone(p)')
      BY <1>1, <2>1 DEF Exist, Gone, HasRow
    <3> QED
      BY <2>1, <3>1, <3>2
  <2>3. CASE p[1] \notin of /\ p[2] \notin of
    <3>1. status'[p[1]] = status[p[1]] /\ status'[p[2]] = status[p[2]]
      BY <1>1, <2>1, <2>3
    <3> QED
      BY <2>1, <3>1 DEF Stale, Exist, Gone
  <2> QED
    BY <2>2, <2>3
<1>6. CASE \E i \in Items, words \in SUBSET Words : CreateItem(r, i, words)
  <2>1. /\ status'[p[1]] = status[p[1]] /\ status'[p[2]] = status[p[2]]
        /\ text'[p[1]] = text[p[1]] /\ text'[p[2]] = text[p[2]]
        /\ owed' = owed
    BY <1>4, <1>6
  <2> QED
    BY <2>1 DEF Stale, Exist, Gone
<1>7. CASE \E of \in Together : ReopenItems(r, of)
  BY <1>5, <1>7
<1>8. CASE (\E i \in Items : BeginMatchSearch(r, i)) \/ PublishJob(r) \/ QueueMatchSearch(r)
  BY <1>3, <1>8 DEF BeginMatchSearch, PublishJob, QueueMatchSearch, posts, past
<1> QED
  BY <1>6, <1>7, <1>8 DEF Request

LEMMA RequestKeepsStaleInv ==
    ASSUME StaleInv, NEW r \in Requests, Request(r)
    PROVE  StaleInv'
<1>1. TypeOK /\ MissInv'
  BY RequestKeepsMissInv DEF StaleInv, MissInv
<1>2. UNCHANGED <<rows, worker>> /\ owed \subseteq owed'
  BY DEF Request, CreateItem, ReopenItems, BeginMatchSearch, PublishJob,
         QueueMatchSearch, posts, past
<1>3. ASSUME NEW p \in rows
      PROVE  p \in Pairs /\ p[1] \in Items /\ p[2] \in Items /\ Exist(p)
             /\ HasRow(p[1]) /\ HasRow(p[2])
  BY <1>1, PairsArePosts DEF StaleInv, SuggestionsHavePosts, Exist, HasRow
<1>4. SuggestionsHavePosts'
  BY <1>1, <1>2, <1>3, RequestKeepsPost DEF SuggestionsHavePosts
<1>5. ASSUME NEW p \in rows, Stale(p)'
      PROVE  Excused(p)'
  <2>1. p[1] \notin owed' /\ p[2] \notin owed'
    BY <1>5 DEF Stale
  <2>2. Stale(p) \/ Later(p[1])' \/ Later(p[2])'
    BY <1>1, <1>3, <1>5, RequestLeavesPair
  <2>3. CASE Stale(p)
    <3>1. Excused(p)
      BY <2>3 DEF StaleInv
    <3> QED
      BY <1>1, <1>3, <2>1, <3>1, SearchesStay DEF Excused
  <2> QED
    BY <2>2, <2>3 DEF Excused
<1>6. CASE worker.at \in {"readCandidates", "readBefore", "replace"}
  <2>1. queue # <<>> /\ Job \in Items
    BY <1>1, <1>6, JobIsPost DEF TypeOK
  <2>2. Job' = Job
    BY <1>1, <2>1, SearchesStay
  <2>3. status[Job] # "unused"
    BY <1>6 DEF StaleInv
  <2>4. status'[Job] # "unused"
    <3>1. HasRow(Job) \/ status[Job] = "deleted"
      BY <1>1, <2>1, <2>3 DEF HasRow, TypeOK
    <3> QED
      BY <1>1, <2>1, <3>1, RequestKeepsPost DEF HasRow
  <2>5. ASSUME worker.at \in {"readBefore", "replace"}, NEW p \in worker.kept
        PROVE  Involves(p, Job) /\ Exist(p)' /\ StillRight(p)'
    <3>1. Involves(p, Job) /\ Exist(p) /\ StillRight(p)
      BY <2>5 DEF StaleInv
    <3>2. p \in Pairs
      BY <1>1, <2>5, PairsArePosts
    <3>3. /\ Exist(p)'
          /\ text'[p[1]] = text[p[1]] /\ text'[p[2]] = text[p[2]]
          /\ Gone(p) => Gone(p)'
      BY <1>1, <3>1, <3>2, RequestLeavesPair
    <3> QED
      BY <1>2, <3>1, <3>3 DEF StillRight
  <2> QED
    BY <1>1, <1>2, <1>4, <1>5, <2>2, <2>4, <2>5 DEF StaleInv, Involves
<1>7. CASE worker.at \notin {"readCandidates", "readBefore", "replace"}
  BY <1>1, <1>2, <1>4, <1>5, <1>7 DEF StaleInv
<1> QED
  BY <1>6, <1>7

LEMMA ChangeKeepsStaleInv ==
    ASSUME StaleInv, SuggestionsHavePosts', Change
    PROVE  StaleInv'
<1>1. TypeOK /\ MissInv'
  BY ChangeKeepsMissInv DEF StaleInv, MissInv
<1>2. UNCHANGED <<queue, worker, requests>> /\ rows' \subseteq rows
  BY DEF Change, EditItem, CloseItems, DeleteItem, OfPost, past
<1>3. Job' = Job /\ \A i : Later(i)' = Later(i) /\ AtHead(i)' = AtHead(i)
  BY <1>2 DEF Job, Later, Asked, Behind, AtHead
<1>4. ASSUME NEW i \in Items, status[i] # "unused"
      PROVE  status'[i] # "unused"
  <2>1. ASSUME NEW of \in Together, CloseItems(of)
        PROVE  status'[i] # "unused"
    BY <1>4, <2>1 DEF CloseItems
  <2>2. ASSUME NEW j \in Items, DeleteItem(j)
        PROVE  status'[i] # "unused"
    BY <1>1, <1>4, <2>2 DEF DeleteItem, TypeOK
  <2>3. ASSUME NEW j \in Items, NEW words \in SUBSET Words, EditItem(j, words)
        PROVE  status'[i] # "unused"
    BY <1>4, <2>3 DEF EditItem
  <2> QED
    BY <2>1, <2>2, <2>3 DEF Change
<1>5. ASSUME NEW p \in Pairs, p[1] \in Items, p[2] \in Items
      PROVE  /\ StillRight(p) => StillRight(p)'
             /\ Stale(p)' => Stale(p)
  <2>1. ASSUME NEW i \in Items, NEW words \in SUBSET Words, EditItem(i, words)
        PROVE  /\ StillRight(p) => StillRight(p)'
               /\ Stale(p)' => Stale(p)
    <3>1. CASE i \in {p[1], p[2]}
      BY <2>1, <3>1 DEF EditItem, StillRight, Stale
    <3>2. CASE i \notin {p[1], p[2]}
      <4>1. text'[p[1]] = text[p[1]] /\ text'[p[2]] = text[p[2]]
        BY <1>1, <1>5, <2>1, <3>2 DEF EditItem, TypeOK
      <4> QED
        BY <2>1, <4>1 DEF EditItem, StillRight, Stale, Gone
    <3> QED
      BY <3>1, <3>2
  <2>2. ASSUME NEW of \in Together, CloseItems(of)
        PROVE  /\ StillRight(p) => StillRight(p)'
               /\ Stale(p)' => Stale(p)
    <3>1. UNCHANGED <<text, owed>>
      BY <2>2 DEF CloseItems, past
    <3>2. \A i \in Items : /\ status[i] = "deleted" => status'[i] = "deleted"
                           /\ status'[i] = "open" => status[i] = "open"
      BY <2>2 DEF CloseItems
    <3> QED
      BY <1>5, <3>1, <3>2 DEF StillRight, Stale, Gone
  <2>3. ASSUME NEW i \in Items, DeleteItem(i)
        PROVE  /\ StillRight(p) => StillRight(p)'
               /\ Stale(p)' => Stale(p)
    <3>1. CASE i \in {p[1], p[2]}
      <4>1. status'[i] = "deleted"
        BY <1>1, <2>3 DEF DeleteItem, TypeOK
      <4> QED
        BY <3>1, <4>1 DEF StillRight, Stale, Gone
    <3>2. CASE i \notin {p[1], p[2]}
      <4>1. /\ text'[p[1]] = text[p[1]] /\ text'[p[2]] = text[p[2]]
            /\ status'[p[1]] = status[p[1]] /\ status'[p[2]] = status[p[2]]
            /\ owed' = owed \ {i}
        BY <1>1, <1>5, <2>3, <3>2 DEF DeleteItem, TypeOK
      <4>2. {p[1], p[2]} \cap owed' = {p[1], p[2]} \cap owed
        BY <3>2, <4>1
      <4> QED
        BY <4>1, <4>2 DEF StillRight, Stale, Gone
    <3> QED
      BY <3>1, <3>2
  <2> QED
    BY <2>1, <2>2, <2>3 DEF Change
<1>6. \A p \in rows' : Stale(p)' => Excused(p)'
  BY <1>1, <1>2, <1>3, <1>5, PairsArePosts DEF StaleInv, Excused
<1>7. CASE worker.at \in {"readCandidates", "readBefore", "replace"}
  <2>1. Job \in Items /\ status[Job] # "unused"
    BY <1>1, <1>7, JobIsPost DEF StaleInv, TypeOK
  <2>2. ASSUME worker.at \in {"readBefore", "replace"}, NEW p \in worker.kept
        PROVE  Involves(p, Job) /\ Exist(p)' /\ StillRight(p)'
    <3>1. Involves(p, Job) /\ Exist(p) /\ StillRight(p)
      BY <2>2 DEF StaleInv
    <3>2. p \in Pairs /\ p[1] \in Items /\ p[2] \in Items
      BY <1>1, <2>2, PairsArePosts
    <3> QED
      BY <1>4, <1>5, <3>1, <3>2 DEF Exist
  <2> QED
    BY <1>1, <1>2, <1>3, <1>4, <1>6, <2>1, <2>2 DEF StaleInv, Involves
<1>8. CASE worker.at \notin {"readCandidates", "readBefore", "replace"}
  BY <1>1, <1>2, <1>6, <1>8 DEF StaleInv
<1> QED
  BY <1>7, <1>8

\* What the worker chooses shares a word with the words it scored.
LEMMA CandidateIsSimilar ==
    ASSUME Job \in Items, NEW i \in Candidates, worker.text = text[Job]
    PROVE  Similar(text[Pair(Job, i)[1]], text[Pair(Job, i)[2]])
BY DEF Candidates, Pair, Similar

\* A step of the worker that takes no search away and adds no row.
LEMMA WorkKeepsExcused ==
    ASSUME StaleInv,
           UNCHANGED <<status, text, owed, requests, queue, rows>>,
           worker.at = "announce" \/ worker'.at # "announce"
    PROVE  \A p \in rows' : Stale(p)' => Excused(p)'
<1>1. \A i : Later(i)' = Later(i) /\ (AtHead(i) => AtHead(i)')
  BY DEF Later, Asked, Behind, AtHead
<1>2. \A p : Stale(p)' = Stale(p)
  BY DEF Stale
<1> QED
  BY <1>1, <1>2 DEF StaleInv, Excused

LEMMA WorkerKeepsStaleInv ==
    ASSUME StaleInv, SuggestionsHavePosts', Work \/ StopWorker \/ StartWorker
    PROVE  StaleInv'
<1>1. TypeOK /\ TypeOK' /\ MissInv /\ MissInv'
  BY WorkerKeepsMissInv DEF StaleInv, MissInv
<1>2. UNCHANGED <<status, text, requests>>
  BY DEF Work, TakeJob, ReadCandidates, ReadBefore, Replace, Announce, Ack,
         StopWorker, StartWorker, posts
<1>3. \A at \in {"down", "idle", "announce"} : Now(at) => worker'.at = at
  BY DEF Now, Nothing
<1>4. ASSUME \A p \in rows' : Stale(p)' => Excused(p)',
             worker'.at \in {"down", "idle", "announce"}
      PROVE  StaleInv'
  BY <1>1, <1>4 DEF StaleInv
<1>5. ASSUME NEW p \in rows, Stale(p), ~Involves(p, Job)
      PROVE  Later(p[1]) \/ Later(p[2])
  <2>1. ~AtHead(p[1]) /\ ~AtHead(p[2])
    BY <1>5 DEF AtHead, Involves, Job
  <2> QED
    BY <1>5, <2>1 DEF StaleInv, Excused
<1>6. CASE TakeJob
  <2>1. queue # <<>> /\ UNCHANGED <<queue, rows>>
    BY <1>6 DEF TakeJob
  <2>2. Job' = Job /\ \A i : Later(i)' = Later(i)
    BY <1>2, <2>1 DEF Job, Later, Asked, Behind
  <2>3. CASE status[Job] = "open"
    <3>1. worker'.at = "readCandidates" /\ owed' = owed \ {Job}
      BY <1>6, <2>3 DEF TakeJob, Nothing
    <3>2. ASSUME NEW p \in rows, Stale(p)'
          PROVE  Excused(p)'
      <4>1. CASE Involves(p, Job)
        BY <2>1, <3>1, <4>1 DEF AtHead, Job, Involves, Excused
      <4>2. CASE ~Involves(p, Job)
        <5>1. Stale(p)
          BY <1>2, <3>1, <3>2, <4>2 DEF Stale, Involves
        <5> QED
          BY <1>5, <2>2, <4>2, <5>1 DEF Excused
      <4> QED
        BY <4>1, <4>2
    <3> QED
      BY <1>1, <1>2, <2>1, <2>2, <2>3, <3>1, <3>2 DEF StaleInv
  <2>4. CASE status[Job] # "open"
    <3>1. worker'.at = "announce" /\ owed' = owed
      BY <1>3, <1>6, <2>4 DEF TakeJob
    <3>2. ASSUME NEW p \in rows, Stale(p)'
          PROVE  Excused(p)'
      <4>1. Stale(p) /\ ~Involves(p, Job)
        BY <1>2, <2>4, <3>1, <3>2 DEF Stale, Involves
      <4> QED
        BY <1>5, <2>2, <4>1 DEF Excused
    <3> QED
      BY <1>4, <2>1, <3>1, <3>2
  <2> QED
    BY <2>3, <2>4
<1>7. CASE ReadCandidates
  <2>1. PICK kept, left :
           /\ Chosen(kept, left)
           /\ kept \subseteq {Pair(Job, i) : i \in Candidates}
    BY <1>7, ReadCandidatesChooses
  <2>2. /\ worker'.at = "readBefore" /\ worker'.kept = kept
        /\ UNCHANGED <<queue, rows, owed>>
    BY <1>1, <1>7, <2>1 DEF ReadCandidates, Chosen, TypeOK, past
  <2>3. \A p \in rows' : Stale(p)' => Excused(p)'
    BY <1>2, <2>2, WorkKeepsExcused
  <2>4. Job \in Items /\ Job' = Job /\ status[Job] # "unused"
    BY <1>1, <1>7, <2>2, JobIsPost DEF StaleInv, ReadCandidates, TypeOK, Job
  <2>5. ASSUME NEW p \in kept
        PROVE  Involves(p, Job) /\ Exist(p) /\ StillRight(p)
    <3>1. PICK i \in Candidates : p = Pair(Job, i)
      BY <2>1
    <3>2. i \in OtherType(Job) /\ status[i] = "open"
      BY DEF Candidates
    <3>3. Involves(p, Job) /\ {p[1], p[2]} = {Job, i}
      BY <2>4, <3>1, <3>2, PairProperties DEF Pair
    <3>4. Exist(p)
      BY <2>4, <3>2, <3>3 DEF Exist
    <3>5. status[Job] = "deleted" \/ Job \in owed \/ worker.text = text[Job]
      BY <1>1, <1>7 DEF MissInv, ReadCandidates
    <3>6. Similar(text[Pair(Job, i)[1]], text[Pair(Job, i)[2]]) <=>
             Similar(text[p[1]], text[p[2]])
      BY <3>1
    <3>7. CASE worker.text = text[Job]
      <4>1. Similar(text[Pair(Job, i)[1]], text[Pair(Job, i)[2]])
        BY <2>4, <3>7, CandidateIsSimilar
      <4> QED
        BY <3>3, <3>4, <3>6, <4>1 DEF StillRight
    <3>8. CASE status[Job] = "deleted" \/ Job \in owed
      BY <3>3, <3>4, <3>8 DEF Involves, StillRight, Gone
    <3> QED
      BY <3>3, <3>4, <3>5, <3>7, <3>8
  <2>6. \A p : /\ Exist(p)' = Exist(p)
               /\ StillRight(p)' = StillRight(p)
    BY <1>2, <2>2 DEF Exist, StillRight, Gone
  <2> QED
    BY <1>1, <1>2, <2>2, <2>3, <2>4, <2>5, <2>6 DEF StaleInv
<1>8. CASE ReadBefore
  <2>1. /\ worker.at = "readBefore" /\ worker'.at = "replace"
        /\ worker'.kept = worker.kept
        /\ UNCHANGED <<queue, rows, owed>>
    BY <1>1, <1>8 DEF ReadBefore, TypeOK, past
  <2>2. \A p \in rows' : Stale(p)' => Excused(p)'
    BY <1>2, <2>1, WorkKeepsExcused
  <2>3. Job' = Job /\ \A p : /\ Exist(p)' = Exist(p)
                             /\ StillRight(p)' = StillRight(p)
    BY <1>2, <2>1 DEF Job, Exist, StillRight, Gone
  <2> QED
    BY <1>1, <1>2, <2>1, <2>2, <2>3 DEF StaleInv
<1>9. CASE Replace
  <2>1. UNCHANGED <<queue, owed>>
    BY <1>9 DEF Replace
  <2>2. CASE rows' = rows /\ worker'.at = "down"
    BY <1>2, <1>4, <2>1, <2>2, WorkKeepsExcused
  <2>3. CASE ~(rows' = rows /\ worker'.at = "down")
    <3>1. /\ rows' = (rows \ OfPost(rows, Job)) \cup worker.kept
          /\ \A p \in worker.kept : HasRow(p[1]) /\ HasRow(p[2])
          /\ worker'.at = "announce"
      BY <1>3, <1>9, <2>3 DEF Replace, Nothing
    <3>2. ASSUME NEW p \in rows', Stale(p)'
          PROVE  Excused(p)'
      <4>1. Stale(p) /\ \A i : Later(i)' = Later(i)
        BY <1>2, <2>1, <3>2 DEF Stale, Later, Asked, Behind
      <4>2. p \notin worker.kept
        <5>1. ~StillRight(p)
          BY <4>1 DEF Stale, StillRight, Gone
        <5> QED
          BY <1>9, <5>1 DEF StaleInv, Replace
      <4>3. p \in rows /\ ~Involves(p, Job)
        BY <3>1, <4>2 DEF OfPost
      <4> QED
        BY <1>5, <4>1, <4>3 DEF Excused
    <3> QED
      BY <1>4, <3>1, <3>2
  <2> QED
    BY <2>2, <2>3
<1>10. CASE Announce
  <2>1. PICK p \in worker.news : worker' = [worker EXCEPT !.news = @ \ {p}]
    BY <1>10 DEF Announce
  <2>2. worker'.at = "announce" /\ worker.at = "announce"
        /\ UNCHANGED <<queue, rows, owed>>
    BY <1>1, <1>10, <2>1 DEF Announce, TypeOK
  <2> QED
    BY <1>2, <1>4, <2>2, WorkKeepsExcused
<1>11. CASE Ack
  <2>1. /\ worker.at = "announce" /\ worker'.at = "idle" /\ queue' = Tail(queue)
        /\ UNCHANGED <<rows, owed>>
    BY <1>3, <1>11 DEF Ack, past
  <2>2. \A i : Later(i) => Later(i)' \/ AtHead(i)'
    BY <1>1, <1>2, <2>1, TailKeepsSearches
  <2>3. \A i : ~AtHead(i)
    BY <2>1 DEF AtHead
  <2>4. \A p : Stale(p)' = Stale(p)
    BY <1>2, <2>1 DEF Stale
  <2> QED
    BY <1>4, <2>1, <2>2, <2>3, <2>4 DEF StaleInv, Excused
<1>12. CASE StopWorker \/ StartWorker
  <2>1. worker'.at \in {"down", "idle"} /\ UNCHANGED <<queue, rows, owed>>
    BY <1>3, <1>12 DEF StopWorker, StartWorker, past
  <2> QED
    BY <1>2, <1>4, <2>1, WorkKeepsExcused
<1> QED
  BY <1>6, <1>7, <1>8, <1>9, <1>10, <1>11, <1>12 DEF Work

THEOREM MatchingStaleInvariant == Spec => []StaleInv
<1>1. Init => rows = {} /\ worker.at = "idle"
  BY DEF Init, Nothing
<1>2. MissInv /\ SuggestionsHavePosts /\ rows = {} /\ worker.at = "idle" => StaleInv
  BY DEF StaleInv
<1>3. /\ StaleInv /\ SuggestionsHavePosts' /\ [Next]_vars
      => StaleInv'
  <2> SUFFICES ASSUME StaleInv, SuggestionsHavePosts', [Next]_vars PROVE StaleInv'
    OBVIOUS
  <2>1. CASE UNCHANGED vars
    <3>1. MissInv'
      BY <2>1 DEF vars, StaleInv, MissInv, TypeOK, NoPairMissed, Wanted, Later,
                 Asked, Behind, Due, HasRow, Job
    <3> QED
      BY <2>1, <3>1 DEF vars, StaleInv, Stale, Excused, Later, Asked, Behind, AtHead,
                 Exist, StillRight, Gone, Involves, Job
  <2> QED
    BY <2>1, ChangeKeepsStaleInv, RequestKeepsStaleInv, WorkerKeepsStaleInv DEF Next
<1> QED
  BY <1>1, <1>2, <1>3, MatchingMissInvariant, MatchingSuggestionsHavePosts, PTL DEF Spec

\* A search to come, a lost one or an edit since the last search is all that makes
\* a suggestion of two open posts wrong: the candidates the worker read while posts
\* were edited are no cause of their own (matching_worker.py:38-47, crud.py:172-194).
THEOREM MatchingNoStaleSuggestion == Spec => []NoStaleSuggestion
<1>1. StaleInv => NoStaleSuggestion
  BY StaleMeans DEF StaleInv, MissInv
<1> QED
  BY <1>1, MatchingStaleInvariant, PTL

-----------------------------------------------------------------------------
(* The table of suggestions is bounded, although a search bounds only its own *)

\* A set is no larger than the values of a function on it allow.
LEMMA Fibers ==
    ASSUME NEW S, NEW T, IsFiniteSet(T), NEW f \in [S -> T], NEW n \in Nat,
           \A t \in T : /\ IsFiniteSet({s \in S : f[s] = t})
                        /\ Cardinality({s \in S : f[s] = t}) <= n
    PROVE  IsFiniteSet(S) /\ Cardinality(S) <= Cardinality(T) * n
<1> DEFINE Fiber(t) == {s \in S : f[s] = t}
           number == [t \in T |-> CHOOSE g : g \in Injection(Fiber(t), 1 .. n)]
           place == [s \in S |-> <<f[s], number[f[s]][s]>>]
<1>1. ASSUME NEW t \in T
      PROVE  \E g : g \in Injection(Fiber(t), 1 .. n)
  <2>1. /\ Cardinality(Fiber(t)) \in Nat /\ Cardinality(Fiber(t)) <= n
        /\ ExistsBijection(1 .. Cardinality(Fiber(t)), Fiber(t))
    BY FS_CardinalityType
  <2>2. PICK g : g \in Bijection(Fiber(t), 1 .. Cardinality(Fiber(t)))
    BY <2>1, Fun_ExistsBijSymmetric DEF ExistsBijection
  <2>3. g \in [Fiber(t) -> 1 .. n] /\ IsInjective(g)
    BY <2>1, <2>2 DEF Bijection, Injection
  <2> QED
    BY <2>3 DEF Injection
<1>2. \A t \in T : number[t] \in Injection(Fiber(t), 1 .. n)
  BY <1>1
<1> HIDE DEF number
<1>3. \A s \in S : s \in Fiber(f[s]) /\ f[s] \in T
  OBVIOUS
<1>4. \A s \in S : number[f[s]][s] \in 1 .. n
  BY <1>2, <1>3 DEF Injection
<1>5. place \in [S -> T \X (1 .. n)]
  BY <1>3, <1>4
<1>6. ASSUME NEW a \in S, NEW b \in S, place[a] = place[b]
      PROVE  a = b
  <2>1. f[a] = f[b] /\ number[f[a]][a] = number[f[a]][b]
    <3>1. <<f[a], number[f[a]][a]>> = <<f[b], number[f[b]][b]>>
      BY <1>6
    <3> QED
      BY <3>1
  <2>2. a \in Fiber(f[a]) /\ b \in Fiber(f[a])
    BY <2>1
  <2>3. number[f[a]] \in Injection(Fiber(f[a]), 1 .. n)
    BY <1>2, <1>3
  <2> DEFINE g == number[f[a]]
  <2>4. g \in [Fiber(f[a]) -> 1 .. n] /\ \A x, y \in DOMAIN g : g[x] = g[y] => x = y
    BY <2>3 DEF Injection, IsInjective
  <2>5. a \in DOMAIN g /\ b \in DOMAIN g
    BY <2>2, <2>4
  <2>6. g[a] = g[b]
    BY <2>1
  <2> HIDE DEF g
  <2> QED
    BY <2>4, <2>5, <2>6
<1>7. place \in Injection(S, T \X (1 .. n))
  BY <1>5, <1>6 DEF Injection, IsInjective
<1>8. /\ IsFiniteSet(T \X (1 .. n))
      /\ Cardinality(T \X (1 .. n)) = Cardinality(T) * n
  <2>1. IsFiniteSet(1 .. n) /\ Cardinality(1 .. n) = n
    BY FS_Interval
  <2> QED
    BY <2>1, FS_Product
<1> HIDE DEF place
<1> QED
  BY <1>7, <1>8, FS_Injection

LEMMA FinitelyManyPairs == IsFiniteSet(Items) /\ IsFiniteSet(Pairs)
BY SuggestionsAssumption, FS_Union, FS_Product DEF Items, Pairs

\* Each row can be put down to one of its posts so that no post has more than one
\* search may keep.
PutDown(owner) ==
    /\ owner \in [rows -> Items]
    /\ \A p \in rows : Involves(p, owner[p])
    /\ \A i \in Items : Cardinality({p \in rows : owner[p] = i}) <= MaxSuggestions

RowsInv ==
    /\ AnnounceInv
    /\ \E owner : PutDown(owner)
    /\ worker.at \in {"readBefore", "replace"} => Cardinality(worker.kept) <= MaxSuggestions

\* Rows that go away leave room.
LEMMA RowsGo ==
    ASSUME TypeOK, rows' \subseteq rows, NEW owner, PutDown(owner)
    PROVE  \E left : PutDown(left)'
<1> DEFINE left == [p \in rows' |-> owner[p]]
<1>1. left \in [rows' -> Items] /\ \A p \in rows' : Involves(p, left[p])
  BY DEF PutDown, Involves
<1>2. ASSUME NEW i \in Items
      PROVE  Cardinality({p \in rows' : left[p] = i}) <= MaxSuggestions
  <2>1. {p \in rows' : left[p] = i} \in SUBSET {p \in rows : owner[p] = i}
    OBVIOUS
  <2>2. IsFiniteSet({p \in rows : owner[p] = i})
    BY FinitelyManyPairs, FS_Subset DEF TypeOK
  <2>3. /\ Cardinality({p \in rows' : left[p] = i}) \in Nat
        /\ Cardinality({p \in rows : owner[p] = i}) \in Nat
        /\ Cardinality({p \in rows' : left[p] = i}) <= Cardinality({p \in rows : owner[p] = i})
    BY <2>1, <2>2, FS_Subset, FS_CardinalityType
  <2> QED
    BY <2>3, MatchingAssumption DEF PutDown
<1> QED
  BY <1>1, <1>2 DEF PutDown

\* The rows that a search replaces are those of its post, whoever found them; the new
\* ones are put down to it, and the others stay where they were.
LEMMA ReplacePutsDown ==
    ASSUME RowsInv, Replace, rows' = (rows \ OfPost(rows, Job)) \cup worker.kept,
           NEW owner, PutDown(owner)
    PROVE  \E left : PutDown(left)'
<1> DEFINE left == [p \in rows' |-> IF p \in worker.kept THEN Job ELSE owner[p]]
<1>1. /\ TypeOK /\ Job \in Items /\ worker.kept \subseteq Pairs
      /\ \A p \in worker.kept : Involves(p, Job)
      /\ Cardinality(worker.kept) <= MaxSuggestions
  BY JobIsPost DEF RowsInv, AnnounceInv, Replace, TypeOK
<1>2. \A p \in rows' \ worker.kept : p \in rows /\ ~Involves(p, Job)
  BY DEF OfPost
<1>3. left \in [rows' -> Items] /\ \A p \in rows' : Involves(p, left[p])
  BY <1>1, <1>2 DEF PutDown, Involves
<1>4. ASSUME NEW i \in Items
      PROVE  Cardinality({p \in rows' : left[p] = i}) <= MaxSuggestions
  <2>1. CASE i = Job
    <3>1. {p \in rows' : left[p] = i} \in SUBSET worker.kept
      BY <1>2, <2>1 DEF PutDown
    <3>2. IsFiniteSet(worker.kept)
      BY <1>1, FinitelyManyPairs, FS_Subset
    <3>3. /\ Cardinality({p \in rows' : left[p] = i}) \in Nat
          /\ Cardinality(worker.kept) \in Nat
          /\ Cardinality({p \in rows' : left[p] = i}) <= Cardinality(worker.kept)
      BY <3>1, <3>2, FS_Subset, FS_CardinalityType
    <3> QED
      BY <1>1, <3>3, MatchingAssumption
  <2>2. CASE i # Job
    <3>1. {p \in rows' : left[p] = i} \in SUBSET {p \in rows : owner[p] = i}
      BY <1>2, <2>2
    <3>2. IsFiniteSet({p \in rows : owner[p] = i})
      BY <1>1, FinitelyManyPairs, FS_Subset DEF TypeOK
    <3>3. /\ Cardinality({p \in rows' : left[p] = i}) \in Nat
          /\ Cardinality({p \in rows : owner[p] = i}) \in Nat
          /\ Cardinality({p \in rows' : left[p] = i}) <= Cardinality({p \in rows : owner[p] = i})
      BY <3>1, <3>2, FS_Subset, FS_CardinalityType
    <3> QED
      BY <3>3, MatchingAssumption DEF PutDown
  <2> QED
    BY <2>1, <2>2
<1> QED
  BY <1>3, <1>4 DEF PutDown

LEMMA SearchKeepsFew ==
    ASSUME TypeOK, ReadCandidates
    PROVE  worker'.at = "readBefore" /\ Cardinality(worker'.kept) <= MaxSuggestions
<1>1. ASSUME NEW kept, NEW left, Chosen(kept, left)
      PROVE  worker'.at = "readBefore" /\ worker'.kept = kept
  BY <1>1 DEF Chosen, TypeOK
<1>2. Cardinality({}) <= MaxSuggestions
  BY FS_EmptySet, MatchingAssumption
<1>3. \A pairs : \A kept \in Best(pairs) : Cardinality(kept) <= MaxSuggestions
  BY MatchingAssumption DEF Best
<1> QED
  BY <1>1, <1>2, <1>3 DEF ReadCandidates

LEMMA RowsStep ==
    ASSUME RowsInv, AnnounceInv', [Next]_vars
    PROVE  RowsInv'
<1>1. TypeOK
  BY DEF RowsInv, AnnounceInv
<1>2. PICK owner : PutDown(owner)
  BY DEF RowsInv
<1>3. ASSUME rows' \subseteq rows,
             worker'.at \in {"readBefore", "replace"} =>
                Cardinality(worker'.kept) <= MaxSuggestions
      PROVE  RowsInv'
  BY <1>1, <1>2, <1>3, RowsGo DEF RowsInv
<1>4. CASE Change \/ (\E r \in Requests : Request(r)) \/ UNCHANGED vars
  <2>1. worker' = worker
    BY <1>4 DEF Change, EditItem, CloseItems, DeleteItem, Request, CreateItem, ReopenItems,
                BeginMatchSearch, PublishJob, QueueMatchSearch, vars
  <2>2. rows' \subseteq rows
    BY <1>4 DEF Change, EditItem, CloseItems, DeleteItem, Request, CreateItem, ReopenItems,
                BeginMatchSearch, PublishJob, QueueMatchSearch, vars
  <2> QED
    BY <1>3, <2>1, <2>2 DEF RowsInv
<1>5. CASE TakeJob \/ Announce \/ Ack \/ StopWorker \/ StartWorker
  <2>1. worker'.at \in {"readCandidates", "announce", "idle", "down"}
    BY <1>1, <1>5 DEF TakeJob, Announce, Ack, StopWorker, StartWorker, Now, Nothing, TypeOK
  <2>2. rows' = rows
    BY <1>5 DEF TakeJob, Announce, Ack, StopWorker, StartWorker
  <2> QED
    BY <1>3, <2>1, <2>2
<1>6. CASE ReadCandidates
  <2>1. rows' = rows
    BY <1>6 DEF ReadCandidates
  <2> QED
    BY <1>1, <1>3, <1>6, <2>1, SearchKeepsFew
<1>7. CASE ReadBefore
  <2>1. rows' = rows /\ worker'.kept = worker.kept /\ worker.at = "readBefore"
    BY <1>1, <1>7 DEF ReadBefore, TypeOK
  <2> QED
    BY <1>3, <2>1 DEF RowsInv
<1>8. CASE Replace
  <2>1. CASE rows' = (rows \ OfPost(rows, Job)) \cup worker.kept /\ worker'.at = "announce"
    BY <1>2, <1>8, <2>1, ReplacePutsDown DEF RowsInv
  <2>2. CASE rows' = rows /\ worker'.at = "down"
    BY <1>3, <2>2
  <2> QED
    BY <1>8, <2>1, <2>2 DEF Replace, Now, Nothing
<1> QED
  BY <1>4, <1>5, <1>6, <1>7, <1>8 DEF Next, Work

THEOREM MatchingRowsInvariant == Spec => []RowsInv
<1>1. Init => rows = {} /\ worker.at = "idle"
  BY DEF Init, Nothing
<1>2. AnnounceInv /\ rows = {} /\ worker.at = "idle" => RowsInv
  <2> SUFFICES ASSUME AnnounceInv, rows = {}, worker.at = "idle"
               PROVE  \E owner : PutDown(owner)
    BY DEF RowsInv
  <2> DEFINE nobody == [p \in {} |-> p]
  <2>1. nobody \in [rows -> Items] /\ \A p \in rows : Involves(p, nobody[p])
    OBVIOUS
  <2>2. \A i \in Items : {p \in rows : nobody[p] = i} = {}
    OBVIOUS
  <2>3. \A i \in Items : Cardinality({p \in rows : nobody[p] = i}) <= MaxSuggestions
    BY <2>2, FS_EmptySet, MatchingAssumption
  <2> QED
    BY <2>1, <2>3 DEF PutDown
<1>3. RowsInv /\ AnnounceInv' /\ [Next]_vars => RowsInv'
  BY RowsStep
<1> QED
  BY <1>1, <1>2, <1>3, MatchingAnnounceInvariant, PTL DEF Spec

\* potential_matches never has more than MAX_SUGGESTIONS rows for each post, although
\* MAX_SUGGESTIONS bounds one search (matcher.py:11), a row belongs to two posts, and
\* the searches of others may give a post any number of rows (crud.py:172-194).
FewSuggestions == Cardinality(rows) <= Cardinality(Items) * MaxSuggestions

THEOREM MatchingFewSuggestions == Spec => []FewSuggestions
<1>1. RowsInv => FewSuggestions
  <2> SUFFICES ASSUME RowsInv PROVE FewSuggestions
    OBVIOUS
  <2>1. PICK owner : PutDown(owner)
    BY DEF RowsInv
  <2>2. \A i \in Items : IsFiniteSet({p \in rows : owner[p] = i})
    <3>1. rows \subseteq Pairs
      BY DEF RowsInv, AnnounceInv, TypeOK
    <3> QED
      BY <3>1, FinitelyManyPairs, FS_Subset
  <2>3. owner \in [rows -> Items] /\ MaxSuggestions \in Nat
    BY <2>1, MatchingAssumption DEF PutDown
  <2>4. \A i \in Items : Cardinality({p \in rows : owner[p] = i}) <= MaxSuggestions
    BY <2>1 DEF PutDown
  <2> QED
    BY <2>2, <2>3, <2>4, FinitelyManyPairs, Fibers DEF FewSuggestions
<1> QED
  BY <1>1, MatchingRowsInvariant, PTL

-----------------------------------------------------------------------------
(* Induction over data.  The library's induction theorems are about a        *)
(* predicate, which the provers cannot instantiate; these are about a set,   *)
(* and follow from the order on Nat being well-founded.                      *)

\* A set of numbers has a least one.
LEMMA LeastNat ==
    ASSUME NEW T \in SUBSET Nat, T # {}
    PROVE  \E x \in T : \A y \in T : x <= y
<1> DEFINE Less == {p \in Nat \X Nat : p[1] < p[2]}
<1>1. IsWellFoundedOn(Less, Nat)
  BY NatLessThanWellFounded DEF OpToRel
<1>2. PICK x \in T : \A y \in T : <<y, x>> \notin Less
  <2> HIDE DEF Less
  <2> QED BY <1>1, WFMin
<1>3. ASSUME NEW y \in T
      PROVE  x <= y
  <2>1. <<y, x>> \in Less <=> y < x
    OBVIOUS
  <2> QED
    BY <1>2, <2>1
<1> QED
  BY <1>3

\* Induction along 0 .. N, for a set instead of a predicate.
LEMMA Along ==
    ASSUME NEW N \in Nat, NEW P, 0 \in P, \A n \in 1 .. N : n - 1 \in P => n \in P
    PROVE  \A n \in 0 .. N : n \in P
<1> DEFINE T == {n \in 0 .. N : n \notin P}
<1> SUFFICES ASSUME T # {} PROVE FALSE
  OBVIOUS
<1>1. PICK n \in T : \A k \in T : n <= k
  <2>1. T \in SUBSET Nat
    OBVIOUS
  <2> HIDE DEF T
  <2> QED
    BY <2>1, LeastNat
<1>2. n \in 1 .. N /\ n - 1 \in 0 .. N /\ n - 1 \notin T
  BY <1>1
<1> QED
  BY <1>1, <1>2

\* A recursion along 0 .. N has a solution.
Solutions(N, V, v, step) ==
    {g \in [0 .. N -> V] : g[0] = v /\ \A n \in 1 .. N : g[n] = step[n][g[n - 1]]}

LEMMA Recursion ==
    ASSUME NEW N \in Nat, NEW V, NEW v \in V, NEW step \in [1 .. N -> [V -> V]]
    PROVE  Solutions(N, V, v, step) # {}
<1> DEFINE Solves(g, k) ==
              g[0] = v /\ \A n \in 1 .. k : g[n] = step[n][g[n - 1]]
           P == {k \in 0 .. N : \E g \in [0 .. N -> V] : Solves(g, k)}
<1>1. 0 \in P
  <2> DEFINE g == [n \in 0 .. N |-> v]
  <2>1. g \in [0 .. N -> V] /\ Solves(g, 0)
    OBVIOUS
  <2> HIDE DEF g, Solves
  <2> QED
    BY <2>1
<1>2. ASSUME NEW k \in 1 .. N, k - 1 \in P
      PROVE  k \in P
  <2>1. PICK g \in [0 .. N -> V] : Solves(g, k - 1)
    BY <1>2
  <2> DEFINE h == [g EXCEPT ![k] = step[k][g[k - 1]]]
  <2>2. step[k][g[k - 1]] \in V
    <3>1. g[k - 1] \in V /\ step[k] \in [V -> V]
      OBVIOUS
    <3> QED
      BY <3>1
  <2>3. h \in [0 .. N -> V]
    BY <2>2
  <2>4. Solves(h, k)
    BY <2>1
  <2> HIDE DEF h, Solves
  <2> QED
    BY <2>3, <2>4
<1>3. N \in P
  <2>1. \A k \in 1 .. N : k - 1 \in P => k \in P
    BY <1>2
  <2> HIDE DEF P
  <2>2. \A k \in 0 .. N : k \in P
    BY <1>1, <2>1, Along
  <2> QED
    BY <2>2
<1>4. PICK g \in [0 .. N -> V] : Solves(g, N)
  BY <1>3
<1> QED
  BY <1>4 DEF Solutions

-----------------------------------------------------------------------------
(* The search (Matcher.tla) *)

Entries == [score : Nat, count : Nat]

\* The heap has the best of the entries that were added, and room only if it has all.
HasTheBest(size, heap, added) ==
    /\ heap \subseteq added
    /\ IsFiniteSet(heap) /\ Cardinality(heap) <= size
    /\ heap # added => Cardinality(heap) = size
    /\ \A a \in heap, b \in added \ heap : Before(b, a)

\* Of any entries one is least.
LEMMA HasLeast ==
    ASSUME NEW heap \in SUBSET Entries, heap # {}
    PROVE  /\ Least(heap) \in heap
           /\ \A b \in heap \ {Least(heap)} : Before(Least(heap), b)
<1>1. PICK s \in {e.score : e \in heap} : \A x \in {e.score : e \in heap} : s <= x
  <2>1. {e.score : e \in heap} \in SUBSET Nat /\ {e.score : e \in heap} # {}
    BY DEF Entries
  <2> QED
    BY <2>1, LeastNat
<1> DEFINE low == {e \in heap : e.score = s}
<1>2. PICK c \in {e.count : e \in low} : \A x \in {e.count : e \in low} : c <= x
  <2>1. {e.count : e \in low} \in SUBSET Nat /\ {e.count : e \in low} # {}
    BY <1>1 DEF Entries
  <2> QED
    BY <2>1, LeastNat
<1>3. PICK a \in heap : a.score = s /\ a.count = c
  BY <1>2
<1>4. ASSUME NEW b \in heap \ {a}
      PROVE  Before(a, b)
  <2>1. /\ a.score \in Nat /\ a.count \in Nat /\ b.score \in Nat /\ b.count \in Nat
        /\ b.score = a.score => b.count # a.count
    BY DEF Entries
  <2>2. s <= b.score
    BY <1>1
  <2>3. b.score = s => c <= b.count
    BY <1>2
  <2> QED
    BY <1>3, <2>1, <2>2, <2>3 DEF Before
<1> QED
  BY <1>4 DEF Least

\* Adding a candidate keeps the best, for every size of the heap and all scores: the
\* heap at its limit gives up its least entry, which heapq finds at the top, for a
\* newer one that is at least as good.
THEOREM AddKeepsTheBest ==
    ASSUME NEW size \in Nat \ {0}, NEW added \in SUBSET Entries, NEW heap,
           HasTheBest(size, heap, added),
           NEW entry \in Entries, \A a \in added : a.count < entry.count
    PROVE  HasTheBest(size, Add(size, heap, entry), added \cup {entry})
<1>1. /\ heap \subseteq added /\ heap \subseteq Entries
      /\ IsFiniteSet(heap) /\ Cardinality(heap) \in Nat /\ Cardinality(heap) <= size
      /\ entry \notin added
  BY FS_CardinalityType DEF HasTheBest, Entries
<1>2. CASE Cardinality(heap) < size
  <2>1. heap = added
    BY <1>1, <1>2 DEF HasTheBest
  <2>2. Add(size, heap, entry) = heap \cup {entry}
    BY <1>2 DEF Add
  <2>3. IsFiniteSet(heap \cup {entry}) /\ Cardinality(heap \cup {entry}) = Cardinality(heap) + 1
    BY <1>1, FS_AddElement
  <2>4. QED
    BY <1>1, <1>2, <2>1, <2>2, <2>3 DEF HasTheBest
<1>3. CASE Cardinality(heap) = size
  <2> DEFINE least == Least(heap)
  <2>1. heap # {}
    BY <1>1, <1>3, FS_EmptySet
  <2>2. least \in heap /\ \A b \in heap \ {least} : Before(least, b)
    BY <1>1, <2>1, HasLeast
  <2> HIDE DEF least
  <2>3. CASE entry.score >= least.score
    <3>1. Add(size, heap, entry) = (heap \ {least}) \cup {entry}
      BY <1>3, <2>3 DEF Add, least
    <3>2. /\ IsFiniteSet(heap \ {least}) /\ Cardinality(heap \ {least}) = size - 1
          /\ entry \notin heap \ {least}
      BY <1>1, <1>3, <2>2, FS_RemoveElement
    <3>3. /\ IsFiniteSet((heap \ {least}) \cup {entry})
          /\ Cardinality((heap \ {least}) \cup {entry}) = size
      <4>1. /\ IsFiniteSet((heap \ {least}) \cup {entry})
            /\ Cardinality((heap \ {least}) \cup {entry}) = Cardinality(heap \ {least}) + 1
        BY <3>2, FS_AddElement
      <4>2. QED
        BY <3>2, <4>1
    <3>4. Before(least, entry)
      BY <1>1, <2>2, <2>3 DEF Before, Entries
    <3>5. ASSUME NEW a \in (heap \ {least}) \cup {entry},
                 NEW b \in (added \cup {entry}) \ ((heap \ {least}) \cup {entry})
          PROVE  Before(b, a)
      <4>1. b = least \/ b \in added \ heap
        BY <2>2
      <4>2. Before(least, a)
        BY <2>2, <3>4
      <4>3. b # least => Before(b, least)
        BY <2>2, <4>1 DEF HasTheBest
      <4>4. a \in Entries /\ b \in Entries /\ least \in Entries
        BY <1>1, <2>2
      <4>5. QED
        BY <4>1, <4>2, <4>3, <4>4 DEF Before, Entries
    <3>6. QED
      BY <1>1, <3>1, <3>3, <3>5 DEF HasTheBest
  <2>4. CASE ~(entry.score >= least.score)
    <3>1. Add(size, heap, entry) = heap
      BY <1>3, <2>4 DEF Add, least
    <3>2. ASSUME NEW a \in heap PROVE Before(entry, a)
      <4>1. a = least \/ Before(least, a)
        BY <2>2
      <4>2. a \in Entries /\ least \in Entries
        BY <1>1, <2>2
      <4>3. QED
        BY <2>4, <4>1, <4>2 DEF Before, Entries
    <3>3. QED
      BY <1>1, <1>3, <3>1, <3>2 DEF HasTheBest
  <2>5. QED
    BY <2>3, <2>4
<1>4. QED
  BY <1>1, <1>2, <1>3

-----------------------------------------------------------------------------
(* The loop over the words of the post: calculate_match_score *)

\* What Worth counts, for the first n words.
SharedIn(words, candidate, n) == {k \in 1 .. n : words[k] \in candidate}
DistinctIn(words, candidate, n) == {words[k] : k \in SharedIn(words, candidate, n)}

LEMMA TallyUnfolds ==
    ASSUME NEW S, NEW words \in Seq(S), NEW candidate
    PROVE  Tally(words, candidate) =
              [n \in 0 .. Len(words) |->
                  IF n = 0 THEN [score |-> 0, matched |-> {}]
                  ELSE AddWord(candidate, Tally(words, candidate)[n - 1], words[n])]
<1> DEFINE V == [score : Nat, matched : SUBSET S]
           v == [score |-> 0, matched |-> {}]
           step == [n \in 1 .. Len(words) |-> [u \in V |-> AddWord(candidate, u, words[n])]]
<1>1. Len(words) \in Nat /\ \A n \in 1 .. Len(words) : words[n] \in S
  BY LenProperties, ElementOfSeq
<1>2. v \in V
  OBVIOUS
<1>3. \A u \in V, w \in S : AddWord(candidate, u, w) \in V
  BY DEF AddWord
<1>4. step \in [1 .. Len(words) -> [V -> V]]
  BY <1>1, <1>3
<1>5. PICK g \in [0 .. Len(words) -> V] :
         g[0] = v /\ \A n \in 1 .. Len(words) : g[n] = step[n][g[n - 1]]
  <2>1. Solutions(Len(words), V, v, step) # {}
    <3> HIDE DEF V, v, step
    <3> QED
      BY <1>1, <1>2, <1>4, Recursion
  <2> HIDE DEF V, v, step
  <2> QED
    BY <2>1 DEF Solutions
<1>6. g = [n \in 0 .. Len(words) |->
             IF n = 0 THEN v ELSE AddWord(candidate, g[n - 1], words[n])]
  <2>1. ASSUME NEW n \in 1 .. Len(words)
        PROVE  g[n] = AddWord(candidate, g[n - 1], words[n])
    <3>1. g[n - 1] \in V
      BY <1>1
    <3> QED
      BY <1>5, <3>1
  <2> HIDE DEF step, V, v
  <2> QED
    BY <1>1, <1>5, <2>1
<1> HIDE DEF step, V
<1> QED
  BY <1>6, Zenon DEF Tally

\* The score when the words d have been met, at the places s.
Counted(d, s) == [score |-> 15 * Cardinality(d) + 10 * Cardinality(s), matched |-> d]

LEMMA Hundredths ==
    ASSUME NEW x \in Nat, NEW y \in Nat
    PROVE  /\ 15 * x + 10 * y \in Nat
           /\ (15 * x + 10 * y) + 10 = 15 * x + 10 * (y + 1)
           /\ (15 * x + 10 * y) + 25 = 15 * (x + 1) + 10 * (y + 1)
           /\ x = 0 /\ y = 0 => 15 * x + 10 * y = 0
           /\ x > 0 \/ y > 0 => 15 * x + 10 * y > 0
OBVIOUS

LEMMA AddWordCounts ==
    ASSUME NEW d, NEW s, IsFiniteSet(d) /\ IsFiniteSet(s),
           NEW candidate, NEW w \in candidate, NEW n, n \notin s
    PROVE  AddWord(candidate, Counted(d, s), w) = Counted(d \cup {w}, s \cup {n})
<1>1. /\ Cardinality(s \cup {n}) = Cardinality(s) + 1
      /\ Cardinality(s) \in Nat /\ Cardinality(d) \in Nat
  BY FS_AddElement, FS_CardinalityType
<1>2. CASE w \in d
  <2>1. d \cup {w} = d
    BY <1>2
  <2>2. AddWord(candidate, Counted(d, s), w)
          = [score |-> (15 * Cardinality(d) + 10 * Cardinality(s)) + 10, matched |-> d]
    BY <1>2 DEF AddWord, Counted
  <2>3. (15 * Cardinality(d) + 10 * Cardinality(s)) + 10
          = 15 * Cardinality(d) + 10 * Cardinality(s \cup {n})
    BY <1>1, Hundredths
  <2>4. Counted(d \cup {w}, s \cup {n})
          = [score |-> (15 * Cardinality(d) + 10 * Cardinality(s)) + 10, matched |-> d]
    BY <2>1, <2>3 DEF Counted
  <2> QED
    BY <2>2, <2>4
<1>3. CASE w \notin d
  <2>1. Cardinality(d \cup {w}) = Cardinality(d) + 1
    BY <1>3, FS_AddElement
  <2>2. AddWord(candidate, Counted(d, s), w)
          = [score |-> (15 * Cardinality(d) + 10 * Cardinality(s)) + 25,
             matched |-> d \cup {w}]
    BY <1>3 DEF AddWord, Counted
  <2>3. (15 * Cardinality(d) + 10 * Cardinality(s)) + 25
          = 15 * Cardinality(d \cup {w}) + 10 * Cardinality(s \cup {n})
    BY <1>1, <2>1, Hundredths
  <2> QED
    BY <2>2, <2>3 DEF Counted
<1> QED
  BY <1>2, <1>3

\* The loop's invariant: a quarter for the first time a shared word is met, a tenth
\* for each other time.
LEMMA TallyCounts ==
    ASSUME NEW S, NEW words \in Seq(S), NEW candidate
    PROVE  \A n \in 0 .. Len(words) :
              /\ IsFiniteSet(SharedIn(words, candidate, n))
              /\ IsFiniteSet(DistinctIn(words, candidate, n))
              /\ Tally(words, candidate)[n] = Counted(DistinctIn(words, candidate, n),
                                                     SharedIn(words, candidate, n))
<1> DEFINE Right(n) ==
              /\ IsFiniteSet(SharedIn(words, candidate, n))
              /\ IsFiniteSet(DistinctIn(words, candidate, n))
              /\ Tally(words, candidate)[n] = Counted(DistinctIn(words, candidate, n),
                                                     SharedIn(words, candidate, n))
           P == {n \in 0 .. Len(words) : Right(n)}
           T == Tally(words, candidate)
<1>1. /\ Len(words) \in Nat
      /\ T = [n \in 0 .. Len(words) |-> IF n = 0 THEN [score |-> 0, matched |-> {}]
                                        ELSE AddWord(candidate, T[n - 1], words[n])]
  BY LenProperties, TallyUnfolds
<1> HIDE DEF T
<1>2. Right(0)
  <2>1. SharedIn(words, candidate, 0) = {} /\ DistinctIn(words, candidate, 0) = {}
    BY DEF SharedIn, DistinctIn
  <2>2. T[0] = [score |-> 0, matched |-> {}]
    BY <1>1
  <2>3. Counted({}, {}) = [score |-> 0, matched |-> {}]
    <3>1. 15 * Cardinality({}) + 10 * Cardinality({}) = 0
      BY FS_EmptySet, Hundredths
    <3> QED
      BY <3>1 DEF Counted
  <2> QED
    BY <2>1, <2>2, <2>3, FS_EmptySet DEF T
<1>3. ASSUME NEW n \in 1 .. Len(words), Right(n - 1)
      PROVE  Right(n)
  <2> DEFINE w == words[n]
             s == SharedIn(words, candidate, n - 1)
             d == DistinctIn(words, candidate, n - 1)
  <2>1. n - 1 \in 0 .. Len(words) /\ n \in 0 .. Len(words) /\ n # 0
    BY <1>1
  <2>2. T[n] = AddWord(candidate, T[n - 1], w)
    BY <1>1, <2>1
  <2>3. IsFiniteSet(s) /\ IsFiniteSet(d) /\ T[n - 1] = Counted(d, s)
    BY <1>3 DEF T
  <2>4. CASE w \notin candidate
    <3>1. SharedIn(words, candidate, n) = s
      BY <1>1, <2>4 DEF SharedIn
    <3>2. DistinctIn(words, candidate, n) = d
      BY <3>1 DEF DistinctIn
    <3>3. T[n] = T[n - 1]
      BY <2>2, <2>4 DEF AddWord
    <3> QED
      BY <2>3, <3>1, <3>2, <3>3 DEF T
  <2>5. CASE w \in candidate
    <3>1. SharedIn(words, candidate, n) = s \cup {n} /\ n \notin s
      BY <1>1, <2>5 DEF SharedIn
    <3>2. DistinctIn(words, candidate, n) = d \cup {w}
      BY <3>1 DEF DistinctIn
    <3> HIDE DEF s, d, w
    <3>3. IsFiniteSet(d \cup {w}) /\ IsFiniteSet(s \cup {n})
      BY <2>3, FS_AddElement
    <3>4. AddWord(candidate, Counted(d, s), w) = Counted(d \cup {w}, s \cup {n})
      <4>1. IsFiniteSet(s) /\ IsFiniteSet(d)
        BY <2>3
      <4>2. n \notin s
        BY <3>1
      <4>3. w \in candidate
        BY <2>5 DEF w
      <4> QED
        BY <4>1, <4>2, <4>3, AddWordCounts
    <3> QED
      BY <2>2, <2>3, <3>1, <3>2, <3>3, <3>4 DEF T
  <2> QED
    BY <2>4, <2>5
<1>4. \A n \in 0 .. Len(words) : n \in P
  <2>1. 0 \in P
    BY <1>1, <1>2
  <2>2. \A n \in 1 .. Len(words) : n - 1 \in P => n \in P
    BY <1>1, <1>3
  <2> HIDE DEF P
  <2> QED
    BY <1>1, <2>1, <2>2, Along
<1> QED
  BY <1>4

\* The score of a candidate is what the words it shares are worth, for descriptions
\* of any length; and it is positive if there are any.
THEOREM ScoreIsWorth ==
    ASSUME NEW S, NEW words \in Seq(S), NEW candidate
    PROVE  /\ Score(words, candidate) = Worth(words, candidate)
           /\ Worth(words, candidate) \in Nat
           /\ Worth(words, candidate) > 0 <=> Distinct(words, candidate) # {}
<1> DEFINE s == Shared(words, candidate)
           d == Distinct(words, candidate)
<1>1. Len(words) \in Nat /\ DOMAIN words = 1 .. Len(words)
  BY LenProperties
<1>2. /\ SharedIn(words, candidate, Len(words)) = s
      /\ DistinctIn(words, candidate, Len(words)) = d
  BY <1>1 DEF SharedIn, DistinctIn, Shared, Distinct
<1>3. IsFiniteSet(s) /\ IsFiniteSet(d) /\ Tally(words, candidate)[Len(words)] = Counted(d, s)
  <2>1. Len(words) \in 0 .. Len(words)
    BY <1>1
  <2> QED
    BY <1>2, <2>1, TallyCounts
<1>4. d = {} <=> s = {}
  BY DEF Distinct
<1> HIDE DEF s, d
<1>5. /\ Cardinality(s) \in Nat /\ Cardinality(d) \in Nat
      /\ Cardinality(s) = 0 <=> s = {}
      /\ Cardinality(d) = 0 <=> d = {}
  BY <1>3, FS_CardinalityType, FS_EmptySet
<1>6. Worth(words, candidate) = 15 * Cardinality(d) + 10 * Cardinality(s)
  BY DEF Worth, s, d
<1>7. Score(words, candidate) = 15 * Cardinality(d) + 10 * Cardinality(s)
  BY <1>3 DEF Score, Counted
<1>8. /\ Worth(words, candidate) \in Nat
      /\ Worth(words, candidate) > 0 <=> d # {}
  <2>1. /\ Worth(words, candidate) \in Nat
        /\ Cardinality(d) = 0 /\ Cardinality(s) = 0 => Worth(words, candidate) = 0
        /\ Cardinality(d) > 0 \/ Cardinality(s) > 0 => Worth(words, candidate) > 0
    BY <1>5, <1>6, Hundredths
  <2> QED
    BY <1>4, <1>5, <2>1
<1> QED
  BY <1>6, <1>7, <1>8 DEF d

-----------------------------------------------------------------------------
(* The loop over the candidates: get_potential_matches *)

\* What the first n candidates enter, if they share a word.
Entry(words, candidates, n) == [score |-> Worth(words, candidates[n]), count |-> n]
Sharing(words, candidates, n) == {m \in 1 .. n : Distinct(words, candidates[m]) # {}}
EntriesUpTo(words, candidates, n) ==
    {Entry(words, candidates, m) : m \in Sharing(words, candidates, n)}

LEMMA SeeType ==
    ASSUME NEW S, NEW words \in Seq(S), NEW size, NEW candidates,
           NEW heap \in SUBSET Entries, NEW n \in Nat
    PROVE  See(size, words, candidates, heap, n) \in SUBSET Entries
<1>1. Score(words, candidates[n]) \in Nat
  BY ScoreIsWorth
<1>2. [score |-> Score(words, candidates[n]), count |-> n] \in Entries
  BY <1>1 DEF Entries
<1> QED
  BY <1>2 DEF See, Add

LEMMA HeapsUnfolds ==
    ASSUME NEW S, NEW words \in Seq(S), NEW size, NEW C, NEW candidates \in Seq(C)
    PROVE  Heaps(size, words, candidates) =
              [n \in 0 .. Len(candidates) |->
                  IF n = 0 THEN {}
                  ELSE See(size, words, candidates,
                           Heaps(size, words, candidates)[n - 1], n)]
<1> DEFINE V == SUBSET Entries
           N == Len(candidates)
           v == {}
           step == [n \in 1 .. N |-> [u \in V |-> See(size, words, candidates, u, n)]]
<1>1. N \in Nat
  BY LenProperties
<1>2. v \in V
  OBVIOUS
<1> HIDE DEF N
<1>3. \A n \in 1 .. N, u \in V : See(size, words, candidates, u, n) \in V
  BY <1>1, SeeType
<1>4. step \in [1 .. N -> [V -> V]]
  BY <1>3
<1>5. PICK g \in [0 .. N -> V] : g[0] = v /\ \A n \in 1 .. N : g[n] = step[n][g[n - 1]]
  <2> HIDE DEF V, v, step
  <2>1. Solutions(N, V, v, step) # {}
    BY <1>1, <1>2, <1>4, Recursion
  <2> QED
    BY <2>1 DEF Solutions
<1>6. g = [n \in 0 .. N |-> IF n = 0 THEN {} ELSE See(size, words, candidates, g[n - 1], n)]
  <2>1. ASSUME NEW n \in 1 .. N
        PROVE  g[n] = See(size, words, candidates, g[n - 1], n)
    <3>1. g[n - 1] \in V
      BY <1>1
    <3> QED
      BY <1>5, <3>1
  <2> HIDE DEF step, V
  <2> QED
    BY <1>1, <1>5, <2>1
<1> HIDE DEF step, V
<1> QED
  BY <1>6, Zenon DEF Heaps, N

\* The loop's invariant: the heap has the best of what was entered so far.
LEMMA HeapsHaveTheBest ==
    ASSUME NEW S, NEW words \in Seq(S), NEW size \in Nat \ {0},
           NEW C, NEW candidates \in Seq(C)
    PROVE  \A n \in 0 .. Len(candidates) :
              HasTheBest(size, Heaps(size, words, candidates)[n],
                         EntriesUpTo(words, candidates, n))
<1> DEFINE H == Heaps(size, words, candidates)
           E(n) == EntriesUpTo(words, candidates, n)
           N == Len(candidates)
           P == {n \in 0 .. N : HasTheBest(size, H[n], E(n))}
<1>1. /\ N \in Nat
      /\ H = [n \in 0 .. N |-> IF n = 0 THEN {} ELSE See(size, words, candidates, H[n - 1], n)]
  BY LenProperties, HeapsUnfolds
<1> HIDE DEF H, N
<1>2. HasTheBest(size, H[0], E(0))
  <2>1. H[0] = {} /\ E(0) = {}
    BY <1>1 DEF EntriesUpTo, Sharing
  <2> QED
    BY <2>1, FS_EmptySet DEF HasTheBest
<1>3. ASSUME NEW n \in 1 .. N, HasTheBest(size, H[n - 1], E(n - 1))
      PROVE  HasTheBest(size, H[n], E(n))
  <2> DEFINE entry == Entry(words, candidates, n)
             score == Score(words, candidates[n])
  <2>1. /\ n \in Nat /\ n - 1 \in 0 .. N /\ n \in 0 .. N /\ n # 0
        /\ 1 .. n = (1 .. n - 1) \cup {n}
    BY <1>1
  <2>2. H[n] = See(size, words, candidates, H[n - 1], n)
    BY <1>1, <2>1
  <2>3. /\ score = Worth(words, candidates[n]) /\ score \in Nat
        /\ score > 0 <=> Distinct(words, candidates[n]) # {}
    BY ScoreIsWorth
  <2>4. CASE Distinct(words, candidates[n]) = {}
    <3>1. H[n] = H[n - 1]
      BY <2>2, <2>3, <2>4 DEF See
    <3>2. Sharing(words, candidates, n) = Sharing(words, candidates, n - 1)
      BY <2>1, <2>4 DEF Sharing
    <3> QED
      BY <1>3, <3>1, <3>2 DEF EntriesUpTo
  <2>5. CASE Distinct(words, candidates[n]) # {}
    <3>1. H[n] = Add(size, H[n - 1], entry)
      BY <2>2, <2>3, <2>5 DEF See, Entry
    <3>2. Sharing(words, candidates, n) = Sharing(words, candidates, n - 1) \cup {n}
      BY <2>1, <2>5 DEF Sharing
    <3>3. E(n) = E(n - 1) \cup {entry}
      BY <3>2 DEF EntriesUpTo
    <3>4. entry \in Entries /\ entry.count = n
      BY <2>1, <2>3 DEF Entry, Entries
    <3>5. E(n - 1) \in SUBSET Entries /\ \A a \in E(n - 1) : a.count < n
      <4>1. ASSUME NEW m \in 1 .. n - 1
            PROVE  /\ Entry(words, candidates, m) \in Entries
                   /\ Entry(words, candidates, m).count < n
        <5>1. Worth(words, candidates[m]) \in Nat
          BY ScoreIsWorth
        <5> QED
          BY <2>1, <5>1 DEF Entry, Entries
      <4> QED
        BY <4>1 DEF EntriesUpTo, Sharing
    <3> DEFINE heap == H[n - 1]
               added == E(n - 1)
    <3>6. /\ HasTheBest(size, heap, added) /\ added \in SUBSET Entries
          /\ entry \in Entries /\ \A a \in added : a.count < entry.count
      BY <1>3, <3>4, <3>5
    <3> HIDE DEF heap, added, entry
    <3>7. HasTheBest(size, Add(size, heap, entry), added \cup {entry})
      BY <3>6, AddKeepsTheBest
    <3> QED
      BY <3>1, <3>3, <3>7 DEF heap, added
  <2> QED
    BY <2>4, <2>5
<1>4. \A n \in 0 .. N : n \in P
  <2>1. 0 \in P
    BY <1>1, <1>2
  <2>2. ASSUME NEW n \in 1 .. N, n - 1 \in P
        PROVE  n \in P
    <3>1. HasTheBest(size, H[n - 1], E(n - 1)) /\ n \in 0 .. N
      BY <1>1, <2>2
    <3> HIDE DEF E
    <3> QED
      BY <1>3, <3>1
  <2> HIDE DEF P
  <2> QED
    BY <1>1, <2>1, <2>2, Along
<1> QED
  BY <1>4 DEF H, N

\* Different entries have different counts.
LEMMA CountsOfEntries ==
    ASSUME NEW words, NEW candidates, NEW N, NEW heap,
           heap \subseteq EntriesUpTo(words, candidates, N), IsFiniteSet(heap)
    PROVE  /\ IsFiniteSet({e.count : e \in heap})
           /\ Cardinality({e.count : e \in heap}) = Cardinality(heap)
<1> DEFINE counts == {e.count : e \in heap}
           f == [e \in heap |-> e.count]
<1>1. \A e \in heap : e = Entry(words, candidates, e.count)
  BY DEF EntriesUpTo, Entry
<1>2. f \in Bijection(heap, counts)
  <2>1. \A d, e \in heap : f[d] = f[e] => d = e
    BY <1>1
  <2>2. f \in [heap -> counts] /\ \A c \in counts : \E e \in heap : f[e] = c
    OBVIOUS
  <2> HIDE DEF f, counts
  <2> QED
    BY <2>1, <2>2 DEF Bijection, Injection, Surjection, IsInjective
<1>3. ExistsBijection(heap, counts)
  BY <1>2 DEF ExistsBijection
<1> QED
  BY <1>3, FS_Bijection

\* The search keeps the best candidates, and all of them if there is room: for posts
\* and candidates of any length and number, and every size of the heap.
THEOREM SearchIsBest ==
    ASSUME NEW S, NEW words \in Seq(S), NEW size \in Nat \ {0},
           NEW C, NEW candidates \in Seq(C)
    PROVE  Search(size, words, candidates) = BestOf(size, words, candidates)
<1> DEFINE N == Len(candidates)
           heap == Heaps(size, words, candidates)[N]
           added == EntriesUpTo(words, candidates, N)
           counts == {e.count : e \in heap}
           entry(n) == Entry(words, candidates, n)
           over(n) == {m \in DOMAIN candidates : Better(words, candidates, m, n)}
<1>1. N \in Nat /\ DOMAIN candidates = 1 .. N
  BY LenProperties
<1>2. HasTheBest(size, heap, added)
  BY <1>1, HeapsHaveTheBest
<1>3. Search(size, words, candidates) = counts
  BY DEF Search
<1> HIDE DEF N, heap, counts
<1>4. /\ IsFiniteSet(counts) /\ Cardinality(counts) = Cardinality(heap)
      /\ Cardinality(heap) <= size
      /\ heap # added => Cardinality(heap) = size
  <2>1. heap \subseteq added /\ IsFiniteSet(heap)
    BY <1>2 DEF HasTheBest
  <2> QED
    BY <1>2, <2>1, CountsOfEntries DEF HasTheBest, counts
<1>5. \A m \in 1 .. N : Worth(words, candidates[m]) \in Nat
                       /\ (Worth(words, candidates[m]) > 0
                             <=> Distinct(words, candidates[m]) # {})
  BY ScoreIsWorth
<1>6. \A n \in counts : n \in 1 .. N /\ Distinct(words, candidates[n]) # {}
                       /\ entry(n) \in heap
  <2>1. ASSUME NEW e \in heap
        PROVE  /\ e.count \in 1 .. N /\ Distinct(words, candidates[e.count]) # {}
               /\ entry(e.count) = e
    BY <1>2 DEF HasTheBest, EntriesUpTo, Sharing, Entry
  <2> QED
    BY <2>1 DEF counts
<1>7. \A n \in 1 .. N : entry(n) \in heap => n \in counts
  <2>1. \A n \in 1 .. N : entry(n).count = n
    BY DEF Entry
  <2> QED
    BY <2>1 DEF counts
<1>8. \A n \in 1 .. N : Distinct(words, candidates[n]) # {} => entry(n) \in added
  BY DEF EntriesUpTo, Sharing
\* Better and Before are the same order.
<1>9. \A m, n \in 1 .. N :
         /\ Better(words, candidates, m, n) <=> Before(entry(n), entry(m))
         /\ Better(words, candidates, m, n) => ~Better(words, candidates, n, m)
         /\ Better(words, candidates, m, n) /\ Distinct(words, candidates[n]) # {}
              => Distinct(words, candidates[m]) # {}
  BY <1>1, <1>5 DEF Better, Before, Entry
<1>10. ASSUME NEW n \in 1 .. N
       PROVE  IsFiniteSet(over(n)) /\ Cardinality(over(n)) \in Nat
  <2>1. IsFiniteSet(1 .. N)
    BY <1>1, FS_Interval
  <2> QED
    BY <1>1, <2>1, FS_Subset, FS_CardinalityType
<1>11. ASSUME NEW n \in counts
       PROVE  n \in BestOf(size, words, candidates)
  <2>1. n \in 1 .. N /\ Distinct(words, candidates[n]) # {} /\ entry(n) \in heap
    BY <1>6
  <2>2. over(n) \subseteq counts \ {n}
    <3>1. ASSUME NEW m \in 1 .. N, Better(words, candidates, m, n)
          PROVE  m \in counts \ {n}
      <4>1. entry(m) \in added
        BY <1>8, <1>9, <2>1, <3>1
      <4>2. ~Before(entry(m), entry(n))
        BY <1>9, <2>1, <3>1
      <4>3. entry(m) \in heap
        BY <1>2, <2>1, <4>1, <4>2 DEF HasTheBest
      <4>4. m # n
        BY <1>9, <2>1, <3>1
      <4> QED
        BY <1>7, <4>3, <4>4
    <3> QED
      BY <1>1, <3>1
  <2>3. /\ IsFiniteSet(counts \ {n})
        /\ Cardinality(counts \ {n}) = Cardinality(counts) - 1
    BY <1>4, FS_RemoveElement
  <2>4. Cardinality(over(n)) <= Cardinality(counts \ {n})
    <3> DEFINE better == over(n)
               others == counts \ {n}
    <3>1. IsFiniteSet(others) /\ better \in SUBSET others
      BY <2>2, <2>3
    <3> HIDE DEF better, others
    <3>2. Cardinality(better) <= Cardinality(others)
      BY <3>1, FS_Subset
    <3> QED
      BY <3>2 DEF better, others
  <2>5. Cardinality(counts) \in Nat
    BY <1>4, FS_CardinalityType
  <2>6. Cardinality(over(n)) < size
    <3>1. Cardinality(over(n)) \in Nat
      BY <1>10, <2>1
    <3> HIDE DEF over
    <3> QED
      BY <1>4, <2>3, <2>4, <2>5, <3>1
  <2> QED
    BY <1>1, <2>1, <2>6 DEF BestOf
<1>12. ASSUME NEW n \in BestOf(size, words, candidates)
       PROVE  n \in counts
  <2>1. /\ n \in 1 .. N /\ entry(n) \in added /\ Cardinality(over(n)) < size
    BY <1>1, <1>8 DEF BestOf
  <2>2. SUFFICES ASSUME entry(n) \notin heap PROVE FALSE
    BY <1>7, <2>1
  <2>3. counts \subseteq over(n)
    <3>1. ASSUME NEW m \in counts PROVE m \in 1 .. N /\ Better(words, candidates, m, n)
      <4>1. m \in 1 .. N /\ entry(m) \in heap
        BY <1>6
      <4>2. Before(entry(n), entry(m))
        BY <1>2, <2>1, <2>2, <4>1 DEF HasTheBest
      <4> QED
        BY <1>9, <2>1, <4>1, <4>2
    <3> QED
      BY <1>1, <3>1
  <2>4. Cardinality(counts) = size
    BY <1>4, <2>1, <2>2
  <2>5. IsFiniteSet(over(n)) /\ Cardinality(over(n)) \in Nat
    BY <1>10, <2>1
  <2>6. Cardinality(counts) <= Cardinality(over(n))
    BY <2>3, <2>5, FS_Subset
  <2> QED
    BY <2>1, <2>4, <2>5, <2>6
<1> QED
  BY <1>3, <1>11, <1>12

\* What the worker's run checks of the search holds for all its bounds.
THEOREM SearchKeepsTheBestAlways == SearchKeepsTheBest
<1>1. ASSUME NEW V, NEW n \in Nat, NEW s \in BoundedSeq(V, n)
      PROVE  s \in Seq(V)
  <2>1. PICK m \in 0 .. n : s \in [1 .. m -> V]
    BY DEF BoundedSeq, SeqOf
  <2> QED
    BY <2>1
<1>2. \A size \in HeapSizes : size \in Nat \ {0}
  BY MatcherAssumption
<1> QED
  BY <1>1, <1>2, MatcherAssumption, SearchIsBest DEF SearchKeepsTheBest

-----------------------------------------------------------------------------
(* The worker with its search (Suggestions.tla) *)

\* What is left out is left out for want of room.
LEMMA SearchFills ==
    ASSUME NEW S, NEW words \in Seq(S), NEW size \in Nat \ {0},
           NEW C, NEW candidates \in Seq(C)
    PROVE  LET found == Search(size, words, candidates) IN
           /\ IsFiniteSet(found) /\ Cardinality(found) <= size
           /\ \A n \in found : n \in DOMAIN candidates
                              /\ Distinct(words, candidates[n]) # {}
           /\ \A n \in DOMAIN candidates \ found :
                 Distinct(words, candidates[n]) # {} => Cardinality(found) = size
<1> DEFINE N == Len(candidates)
           heap == Heaps(size, words, candidates)[N]
           added == EntriesUpTo(words, candidates, N)
           found == {e.count : e \in heap}
<1>1. N \in Nat /\ DOMAIN candidates = 1 .. N
  BY LenProperties
<1>2. HasTheBest(size, heap, added)
  BY <1>1, HeapsHaveTheBest
<1>3. Search(size, words, candidates) = found
  BY DEF Search
<1> HIDE DEF N, heap
<1>4. /\ IsFiniteSet(found) /\ Cardinality(found) = Cardinality(heap)
      /\ Cardinality(heap) <= size
      /\ heap # added => Cardinality(heap) = size
  <2>1. heap \subseteq added /\ IsFiniteSet(heap)
    BY <1>2 DEF HasTheBest
  <2> QED
    BY <1>2, <2>1, CountsOfEntries DEF HasTheBest
<1>5. ASSUME NEW n \in found
      PROVE  n \in DOMAIN candidates /\ Distinct(words, candidates[n]) # {}
  BY <1>1, <1>2 DEF HasTheBest, EntriesUpTo, Sharing, Entry
<1>6. ASSUME NEW n \in DOMAIN candidates \ found, Distinct(words, candidates[n]) # {}
      PROVE  Cardinality(found) = size
  <2>1. Entry(words, candidates, n) \in added
    BY <1>1, <1>6 DEF EntriesUpTo, Sharing
  <2>2. Entry(words, candidates, n) \notin heap
    <3>1. Entry(words, candidates, n).count = n
      BY DEF Entry
    <3> QED
      BY <1>6, <3>1
  <2> QED
    BY <1>4, <2>1, <2>2
<1> QED
  BY <1>3, <1>4, <1>5, <1>6

\* An order of a finite set has each of its elements once.
LEMMA OrderProperties ==
    ASSUME NEW T, IsFiniteSet(T), NEW order \in SetToSeqs(T)
    PROVE  /\ order \in Seq(T)
           /\ \A m, n \in DOMAIN order : order[m] = order[n] => m = n
           /\ \A x \in T : \E n \in DOMAIN order : order[n] = x
<1> DEFINE c == Cardinality(T)
<1>1. c \in Nat
  BY FS_CardinalityType
<1> HIDE DEF c
<1>2. order \in [1 .. c -> T] /\ \A m, n \in 1 .. c : m # n => order[m] # order[n]
  BY DEF SetToSeqs, c
<1>3. order \in Injection(1 .. c, T)
  BY <1>2 DEF Injection, IsInjective
<1>4. Cardinality(1 .. c) = c
  BY <1>1, FS_Interval
<1>5. order \in Surjection(1 .. c, T)
  BY <1>3, <1>4, FS_Injection DEF c
<1> QED
  BY <1>1, <1>2, <1>5 DEF Surjection

\* What the worker keeps is one of the choices that ReadCandidates has, for any posts,
\* descriptions and order of the rows; and the best of them (matcher.py:110).
THEOREM MatchingWorkerKeepsTheBest == Spec => []WorkerKeepsTheBest
<1>1. ASSUME TypeOK PROVE WorkerKeepsTheBest
  <2> SUFFICES ASSUME worker.at = "readCandidates",
                      NEW order \in SetToSeqs(OpenOthers),
                      NEW words \in BoundedSeq(worker.text, MaxWords),
                      {words[k] : k \in DOMAIN words} = worker.text
               PROVE  Suggested(words, order) \in Best({Pair(Job, i) : i \in Candidates})
    BY SearchKeepsTheBestAlways DEF WorkerKeepsTheBest
  <2> DEFINE candidates == [n \in DOMAIN order |-> text[order[n]]]
             found == Search(MaxSuggestions, words, candidates)
             pairs == {Pair(Job, i) : i \in Candidates}
             kept == Suggested(words, order)
             p(n) == Pair(Job, order[n])
  <2>1. Job \in Items
    BY <1>1, JobIsPost DEF TypeOK
  <2>2. OpenOthers \subseteq OtherType(Job) /\ IsFiniteSet(OpenOthers)
    <3>1. IsFiniteSet(OtherType(Job))
      BY SuggestionsAssumption DEF OtherType
    <3>2. OpenOthers \in SUBSET OtherType(Job)
      BY DEF OpenOthers
    <3> QED
      BY <3>1, <3>2, FS_Subset
  <2>3. /\ order \in Seq(OpenOthers)
        /\ \A m, n \in DOMAIN order : order[m] = order[n] => m = n
        /\ \A x \in OpenOthers : \E n \in DOMAIN order : order[n] = x
    BY <2>2, OrderProperties
  <2>4. words \in Seq(worker.text)
    <3>1. PICK m \in 0 .. MaxWords : words \in [1 .. m -> worker.text]
      BY DEF BoundedSeq, SeqOf
    <3> QED
      BY <3>1, MatcherAssumption
  <2>5. candidates \in Seq(SUBSET Words) /\ DOMAIN candidates = DOMAIN order
    <3>1. /\ Len(order) \in Nat /\ DOMAIN order = 1 .. Len(order)
          /\ \A n \in DOMAIN order : order[n] \in OpenOthers
      BY <2>3, LenProperties, ElementOfSeq
    <3>2. \A i \in OpenOthers : text[i] \in SUBSET Words
      BY <1>1, <2>2 DEF TypeOK, OtherType, Items
    <3> QED
      BY <3>1, <3>2
  <2>6. /\ IsFiniteSet(found) /\ Cardinality(found) <= MaxSuggestions
        /\ \A n \in found : n \in DOMAIN order /\ Distinct(words, candidates[n]) # {}
        /\ \A n \in DOMAIN order \ found :
              Distinct(words, candidates[n]) # {} => Cardinality(found) = MaxSuggestions
    <3> HIDE DEF candidates
    <3> QED
      BY <2>4, <2>5, SearchFills, MatchingAssumption
  <2>7. \A n \in DOMAIN order : Distinct(words, candidates[n]) # {} <=> order[n] \in Candidates
    <3>1. ASSUME NEW n \in DOMAIN order
          PROVE  Distinct(words, candidates[n]) # {} <=> Similar(worker.text, text[order[n]])
      BY DEF Distinct, Shared, Similar
    <3>2. \A n \in DOMAIN order : order[n] \in OpenOthers
      BY <2>3, ElementOfSeq, LenProperties
    <3> QED
      BY <3>1, <3>2 DEF Candidates, OpenOthers
  <2>8. kept = {p(n) : n \in found}
    BY DEF Suggested
  <2>9. \A n \in found : n \in DOMAIN order /\ order[n] \in Candidates
    BY <2>6, <2>7
  <2>10. IsFiniteSet(kept) /\ Cardinality(kept) = Cardinality(found)
    <3> DEFINE f == [n \in found |-> p(n)]
    <3>1. \A m, n \in found : f[m] = f[n] => m = n
      <4>1. \A i, j \in OtherType(Job) : Pair(Job, i) = Pair(Job, j) => i = j
        BY DEF Pair
      <4>2. \A n \in found : order[n] \in OtherType(Job)
        BY <2>9 DEF Candidates
      <4> QED
        BY <2>3, <2>9, <4>1, <4>2
    <3>2. f \in [found -> kept] /\ \A k \in kept : \E n \in found : f[n] = k
      BY <2>8
    <3> HIDE DEF f, kept, found
    <3>3. f \in Bijection(found, kept)
      BY <3>1, <3>2 DEF Bijection, Injection, Surjection, IsInjective
    <3> QED
      BY <2>6, <3>3, FS_Bijection DEF ExistsBijection
  <2>11. kept \subseteq pairs
    BY <2>8, <2>9
  <2>12. CASE kept = pairs
    BY <2>6, <2>10, <2>12 DEF Best
  <2>13. CASE kept # pairs
    <3>1. PICK i \in Candidates : Pair(Job, i) \notin kept
      BY <2>11, <2>13
    <3>2. PICK n \in DOMAIN order : order[n] = i
      BY <2>3 DEF Candidates, OpenOthers
    <3>3. n \notin found
      BY <2>8, <3>1, <3>2
    <3>4. Cardinality(kept) = MaxSuggestions
      BY <2>6, <2>7, <2>10, <3>2, <3>3
    <3> QED
      BY <2>11, <3>4 DEF Best
  <2> QED
    BY <2>12, <2>13
<1> QED
  BY <1>1, MatchingTypeCorrect, PTL

=============================================================================
