# Lost & Found: specifications, model checks and proofs

TLA+ modules of the Campus Seekr lost-and-found backend (`src/app`), the TLC
configurations that check them, and the proofs that TLAPS checks. Paths such
as `crud.py:120` are under `src/app/`.

## 1. The system

| part | code | state it keeps | what changes it |
|---|---|---|---|
| Posts | `routers/items.py`, `crud.py` | `items` rows: status, location, type | create, edit, status change, withdraw, hard delete |
| Confirmed matches | `routers/matches.py` | `matches` rows | `POST /matches`, `DELETE /matches/{id}`; both also write two posts |
| Locations | `routers/locations.py` | `locations` rows: active flag | create, rename, retire, restore, hard delete |
| Item photos | `routers/images.py`, `image_worker.py` | `images` rows, objects under `uploads/pending/` and `items/`, queue `jobs.image_processor` | upload link, client's PUT, `/complete`, worker, hard delete of the post |
| Proof files | `routers/files.py` | `files` rows, objects under `users/` | single and batch upload, delete |
| Suggested matches | `matching_worker.py`, `matching/` | `potential_matches` rows, queue `jobs.item_matcher` | matching worker; jobs queued by create, reopen, unmatch, match-search |
| Events | `messaging.py`, `logger.py`, `notifier.py` | topic exchange, two queues, `events.jsonl` | `emit_event` after each commit; the subscribers |
| Accounts | `routers/users.py`, `manage.py`, `crud.py:398-474` | `users`, `roles`, `user_roles` | registration, edits, role commands, seeding at startup |
| Startup | `api.py` (`lifespan`), `demo_data.py` | a database that is new is filled with demo data | start and stop of the API |
| Sign-in | `routers/auth.py`, `auth.py`, `tokens.py`, `password_util.py` | none; a token carries the id | - |
| Edge | `errors.py`, `schemas.py`, `presenters.py`, `api.py` | none | conversion of requests, rows and exceptions |

How they interact. The API is one container (`compose.yml`), which may be scaled: then
`gateway.conf` balances (`src/evidence/06-distribution.txt` runs three). Its handlers are synchronous functions that FastAPI runs on a
thread pool, so requests overlap, each with a session of its own on one Postgres
at READ COMMITTED. No row is locked between a SELECT and the commit, there is no
version column, and an UPDATE names only the id, so a handler acts on what it
read. Two workers and two subscribers, one process each with
`prefetch_count=1` and manual acks, take jobs and events from durable queues. An
exception nobody catches stops such a process, and nothing restarts it
(`compose.yml`). Postgres, the object store and RabbitMQ share no transaction.

What is hard, part by part, and the property that says it is right:

* **Posts, matches, locations.** Two requests that interleave between SELECT
  and commit; three-table transactions; RESTRICT keys as the second check.
  A post is in one match at most, its status agrees with the matches, returned
  is final, matches and posts never refer to rows that are gone.
* **Photos.** Jobs published before the row says so, duplicated by a lost
  confirm or redelivered after a stop; a hard delete under the worker. A post
  has one photo at most, its row points at an object that exists, every job
  ends, and so does every `processing`. The store keeps no photo nobody will show,
  except where the worker was stopped with it in hand or overtook a request.
* **Files.** Failure at every store call and at the commit, deletes during an
  upload. No row points at nothing, and no object is left without a cause.
* **Suggestions.** Suggestions computed from rows that changed meanwhile, jobs
  lost between a commit and the publish, redelivered jobs. Every suggestion has
  both its posts, is announced once, and no pair of similar open posts falls
  between two searches; nor does a suggestion outlive the words it was made for,
  other than by an edit after the last search or a search that is due or lost. The heap of bounded size ends up with the best
  candidates, whatever order they come in.
* **Events.** Queues declared by whoever starts first, redelivery after a stop, a
  line half written. What was queued is written down in order, none skipped.
* **Accounts and startup.** Requests, `manage.py` and the app's startup insert the
  same roles, users and grants, and wait for each other on unique keys and rows
  whose order no code fixes; the API stops while it fills the database. Others see
  only whole registrations, renames and grants; the loser of a race finds its work
  done, and a 409 says the truth; only edits that swap names wait in a circle; an
  API that serves has all of its demo data, unless one stopped on the way.

`PROJECT.json` lists the hazards at their lines, with the properties that
watch them.

## 2. Plan

In order of weight. The first nine are done; the last is left open.

1. `ItemStatus`, `Lifecycle` (abstract), `Posts` (the handlers as they run);
   `Posts` implements `Lifecycle` while overlapping requests stay out of each
   other's posts.
2. `ImageUpload`: the photo of a post.
3. `FileStore`: proof files.
4. `Matching`: job queue, worker and `potential_matches` over posts that change.
5. `Channel` (abstract), `EventBus`: commit, publish, queue declaration,
   subscribers and redelivery; `EventBus` implements `Channel` twice.
6. `Matcher`: scores and heap of `matching/matcher.py` against what "the best
   candidates" means; `Matching` leaves the choice open.
7. `Directory` (abstract), `Accounts`: seeding, registration, renames and role
   commands as transactions that wait for each other, and the demo data;
   `Accounts` implements `Directory`.
8. `Suggestions`: the worker of `Matching` with the search of `Matcher` in it.
9. `Board` (abstract): the posts as a search sees them. `Matching` takes its posts
   from it and `Posts` implements it, so that what is checked of a search holds for
   the statuses that overlapping requests leave.
10. The rename of a location and its unique name.

## 3. Modules and code

| module | what it is |
|---|---|
| `ItemStatus` | ids, statuses, `CLIENT_TRANSITIONS`, `EDITABLE_STATUSES` |
| `Lifecycle` | abstract: every request of posts, matches and locations as one atomic step, as the docstrings and `docs/Error Contract.md` tell it |
| `Board` | abstract: posts that are open or closed, and which of them one commit may change |
| `Posts` | concrete: every SELECT and every commit of those handlers is a step |
| `ImageUpload` | upload link, PUT, `/complete`, queue, image worker, hard delete |
| `FileStore` | `save`, `discard` and `delete_file` of `routers/files.py` |
| `Matching` | what the API's commits do to posts and which searches they queue, the queue, the matching worker |
| `Channel` | abstract: what a queue and its subscriber promise together |
| `EventBus` | commits and `emit_event`, the exchange, startup of API, logger and notifier, the log file |
| `Matcher` | the search by itself: score of a candidate, heap of bounded size, and what it is meant to compute |
| `Suggestions` | `Matching` and `Matcher` together: what the worker's step leaves open is what the search computes |
| `Directory` | abstract: registration, rename, seeding and role commands as atomic steps |
| `Accounts` | concrete: sessions of API requests, `manage.py` and the startup, statement by statement; start and stop of the API; the demo data |
| `MC*` | symmetry sets for TLC |
| `*Proofs` | the theorems about the module in their name; `MatchingProofs` is also about `Matcher` and `Suggestions`, `ApartProofs` about the refinement of `Lifecycle` by `Posts` |

**Posts.** `status`, `place`, `matches` and `locations` are the tables; a status
also says `"unused"` or `"deleted"` for an id without a row. `requests[r]` is a
handler's local state: `at` names its next database call, the other fields are
what later code uses of the rows it read. `Begin...` actions are the first
SELECT with the checks up to the next one; the others go on from there. A check
that fails, an `IntegrityError` and a `StaleDataError` (an UPDATE that finds no
row) all end in `Refuse`: rolled back, slot free. A DELETE that finds no row is
only a warning in SQLAlchemy, and so it is here. `DELETE /items/{id}` is the
status change to `"withdrawn"` under the same table of transitions. `Apart` says that
no two requests in progress are about the same post and that no location is retired
under a request that checks it; `SpecApart` lets a request begin only if that stays
so, and leaves all else as it is.

**ImageUpload.** `images` are the rows of one post, `pending` and `photos` what is
in the store, `queue` the job queue whose head the worker holds until its ack,
`worker.at` the next call of `process`. `PublishJob` has three outcomes: confirmed,
refused, and queued with the confirm lost. `StopWorker` may happen at every step;
the job stays at the head. A commit that finds its row gone stops the worker.

**FileStore.** A file is its key (uuid4). `batches` are the uploads, `rows` and
`objects` the two places a file is in, `leftovers` a history variable: keys whose
clean-up a failure of the store or the API cut short. `AnswersGetLost` says
whether Postgres may be cut off between a commit and what follows. `DeletesWait` says
that no delete has begun on a file whose upload is still reading its rows back.

**Matching.** `rows` is `potential_matches`, `queue` the job queue, `worker.at` the
next database call of `process` with what it has read (`text`, `kept`, `before`).
Of a status only "open" matters here: posts are those of `Board`, one or a lost and a
found one at a time. `ImplementsBoard` says of `Posts` that its requests, however they
overlap, change posts in no other way (`Shown`); the search that some of them queue
is added here. `requests[r]` holds the posts a request has
committed and not yet queued a search for, so that a job can be lost or late.
`CreateItem`, `ReopenItems`, `BeginMatchSearch` queue searches, `EditItem` does not:
this is the code. `announced`, `outranked` and `owed` are history variables.

**Matcher.** `Tally` is the loop of `calculate_match_score` with `AddWord` as its body,
`Add` is `ItemMatcher.add`, `Heaps` is the loop of `get_potential_matches` with `See`
as its body; both loops are recursive functions of the number of rounds. A heap is the set of its
entries; what heapq guarantees, that the least one is known, is `Least`. Scores are
hundredths: the code's float sums are equal for equal counts up to five words in
common, and from six on may differ in the last bit with the order of the words, which can turn a
tie. `get_sorted` is left out: the order of the suggestions is not kept. In
`Suggestions`, `WorkerKeepsTheBest` says where the worker of `Matching` chooses among
its candidates that the search's result, for the rows as they are, in any order of the
query's rows and for any description with the post's words, is one of the choices the
model has.

**Accounts.** `roles`, `names` (by user id) and `grants` are the committed tables.
`sessions[c]` is one database session: `task` says what it is for, `at` its next
statement, `made` the roles it has inserted and not committed. What else it holds
follows from `task` and `at` (`HoldsName`, `HoldsGrant`, `LocksUser`, `SharesUser`),
and `WaitsFor` says whom a statement waits for, as a unique index or a row lock
makes it wait. A statement that need not wait fails if its key is in the table
(`Fail`, rolled back). `Commit` shows the work to others. `Deadlock` ends one of the
sessions that wait in a circle. `Kill` is an interrupted command; `StopApi` ends the
startup and every request. Until `lifespan` is through nothing is served
(`StartApi`, `Serve`). `demo` counts the commits of `demo_data.seed` after its users,
the first of which, the locations, makes a later start skip it; `cutShort` is a
history variable.

**EventBus.** An event is one change with its `emit_event`: saved, then sent or lost.
`bound` are the exchange's bindings, `todo` what a starting process still has to
bind. `lines[s]` is what a subscriber has written, a line that repeats the one
before it left out; a repeat that came later would show. `torn` are the events
whose half line `events.jsonl` ends in, `garbled` those behind such a line.

## 4. What TLC checks

| run | instance | properties | result |
|---|---|---|---|
| `posts_apart` | 1 lost, 2 found posts, 2 matches, 2 locations, 2 requests that stay apart | `OneMatchPerPost`, `StatusAgreesWithMatches`, `ImplementsLifecycle`, `ReturnedIsFinal` | hold |
| `posts_concurrent` | 1 lost, 2 found, 3 matches, 1 location, 2 requests | `TypeOK`, `MatchesAreSound`, `PostsHaveAPlace`, `NoPostStranded`, `NoRequestHangs`, `ImplementsBoard` | hold |
| `posts_double_match` | as above | `OneMatchPerPost` | violated |
| `posts_returned_reopened` | as above | `ReturnedIsFinal` | violated |
| `images` | 2 uploads, 1 request, 2 jobs | `TypeOK`, `ReadyHasPhoto`, `OnePhoto`, `JobsAreDone`, `ProcessingHasJobUnlessAhead`, `NoExtraPhotosUnlessStopped` | hold |
| `images_stuck` | 1 upload, 1 request, 1 job | `ProcessingEnds` | violated |
| `files` | 3 files, batches up to 2, 2 requests | `TypeOK`, `WholeBatchesHaveObjects`, `ExtraObjectsHaveACause`, `RowsHaveObjectsIfDeletesWait` | hold |
| `file_batch` | 2 files, batches up to 2, 2 requests | `RowsHaveObjects` | violated |
| `matching` | 1 lost, 2 found posts, 1 word, 1 suggestion per search, 2 requests, 2 jobs | `TypeOK`, `SuggestionsHavePosts`, `AnnouncedOnce`, `NoPairMissed`, `NoStaleSuggestion` | hold |
| | heaps of 1 to 3, 2 words, up to 3 in the post, up to 4 candidates | `WorkerKeepsTheBest` | holds |
| `events` | 1 `match.confirmed`, 1 `match.potential_found` | `TypeOK`, `ImplementsChannels`, `QueuesDrain`, `HalfLineSpoilsItsOwnEvent` | hold |
| `events_torn` | 1 `item.created`, 1 `match.potential_found` | `LinesAreRecords` | violated |
| `accounts` | the startup and 2 other sessions, 3 names (the admin's, a demo user's, another), 2 demo rows, the role `admin` in commands | `TypeOK`, `CirclesAreSwaps`, `DemoIsWholeOrCutShort`, `NameTakenIsTrue`, `FailedCommandsAreDone`, `ImplementsDirectory` | hold |

**Bounds.** Ids that are used up are the only bound on length (`ItemIdLeft`,
`MatchIdLeft`, `ImageIdLeft`, `JobLeft` keep an insert on its way from finding
none), so these runs end in a state where nothing is left to do, and deadlock is
not checked there; a request that hangs would break `NoRequestHangs` instead: whatever
the others have done, each request in progress has a next step, and no handler takes
more than four.
`accounts` can always go on, and there TLC does check for deadlock: sessions that
wait for each other and that Postgres would not end would show.
Two found posts and one lost post are enough for two matches that share a
post; a third match id lets a pair be matched, unmatched and matched again while
an old unmatch is on its way. Two overlapping requests are what the SELECT and
commit of one handler need to be disturbed by another; the theorems below lift
the bound for the properties that hold. Two uploads are the least for a photo that
replaces another (one request at a time runs beside the worker; the theorems
about `ReadyHasPhoto` and `OnePhoto` are for any number), two jobs the least for one
upload queued twice or two queued together, and two files the least for a batch that is half deleted. (`files` and `images` check
temporal properties and use no symmetry; so does `events`.) The worker's
stops, the client's PUTs and the failures of the store are not bounded.
Two found posts that compete for one place (`MaxSuggestions` is 5 in the code) are
the least for a search that leaves a pair out; `MaxJobs` bounds the jobs queued or
about to be, and a post can still be closed, reopened and edited without end.
Two events are the least for an order, and both subscribers are bound to both; an
`item.*` event takes the way a `match.confirmed` takes while the notifier's queue is
not bound. Stops and starts of every process are not bounded.
A heap of 1 to 3 and up to 4 candidates are enough for it to fill up, to meet a tie
with its least entry and to replace that entry more than once; 3 words of 2 kinds
have repetitions.
In `accounts` the unique names bound the users, who are never deleted; two sessions
beside the startup swap names, and three race for one role. Grants by command are of `admin`
(`RoleArgs`), since the plain role is given at registration. Two demo rows are the
least for a start that is cut short between them. The theorems about `Accounts` lift
all of these bounds; the one API process is no bound but part of the model.

**Fairness.** `Posts` has none: it says that a request can always go on, and nothing
makes it wait. `ImageUpload`: `WF(Continue(r))`, since a handler's thread runs on once
it began, and `WF(Work)`, since a worker that is up
goes on with its job. Starting a worker is not fair, because nobody is obliged
to; so the liveness properties say "or the worker stops". `EventBus`: `WF(Serve(s))` for
the same reason, from the startup of a subscriber on. Requests, PUTs, stops
and failures have no fairness. `Accounts` has none: its properties are about
safety, and a session waits for as long as the one it waits for takes, unless
Postgres ends it (`Deadlock`).

**What the violations show.**

* `posts_double_match`: two `POST /matches` that share a post both see it open and
  both commit. The unique index refuses only the same pair.
* `posts_returned_reopened`: `delete_match` or an edit that read a post before it
  was returned writes it afterwards. `HappensApart` says of both violations that they
  need two requests about one post, or a location retired under a request.
* `images_stuck`: the worker finishes between `publish_image_job` and
  `set_image_status(PROCESSING)`; the result is overwritten, and as `/complete`
  does nothing for a row in processing, it stays there. `ProcessingHasJobUnlessAhead`
  and `ImagesStuckIsOvertaken` say that there is no other way to a stuck photo.
* `file_batch`: `add_files` refreshes rows after its commit; if one is deleted by
  then, `save` discards the objects of the whole batch, the committed rows of the
  others included. `RowsHaveObjectsIfDeletesWait` says that this overlap is the only
  cause, as long as the database answers.
* `events_torn`: a write that fails part way stops the logger; after a restart the
  redelivered event is appended behind the half line and acknowledged. An event
  that arrived is then in no readable line. `HalfLineSpoilsItsOwnEvent` bounds the
  damage: no other event's record is lost.

The mutants named in `PROJECT.json` are operators marked "Mutant" beside the
definition they replace. Each one breaks the property it is listed with.

## 5. What is proved

For every value of the constants: any number of posts, ids, uploads, files, names
and overlapping requests.

| module | theorems |
|---|---|
| `LifecycleProofs` | `LifecycleInvariant`, `LifecycleIsConsistent`, `LifecycleReturnedIsFinal` |
| `PostsProofs` | `PostsTypeCorrect`, `PostsKeepTheirPlace`, `PostsMatchInvariant`, `PostsMatchesAreSound`, `PostsNoneStranded`, `PostsImplementBoard` |
| `ApartProofs` | `ApartStays`, `ApartImplementsLifecycle`, `ApartOneMatchPerPost`, `ApartStatusAgrees`, `ApartReturnedIsFinal`, `HappensApart`, `SerialImplementsLifecycle` |
| `ImageUploadProofs` | `ImagesTypeCorrect`, `ImagesReadyHasPhoto`, `ImagesOnePhoto`, `ImagesProcessingHasJob`, `ImagesStuckIsOvertaken`, `ImagesNoExtraPhotos` |
| `FileStoreProofs` | `FilesTypeCorrect`, `FilesExtraObjects`, `FilesWholeBatches`, `FilesRowsHaveObjects` |
| `MatchingProofs` | `MatchingTypeCorrect`, `MatchingSuggestionsHavePosts`, `MatchingAnnounceInvariant`, `MatchingAnnouncedOnce`, `MatchingMissInvariant`, `MatchingNoPairMissed`, `MatchingStaleInvariant`, `MatchingNoStaleSuggestion`, `MatchingRowsInvariant`, `MatchingFewSuggestions`; `AddKeepsTheBest`, `ScoreIsWorth`, `SearchIsBest`, `SearchKeepsTheBestAlways`, `MatchingWorkerKeepsTheBest` |
| `EventBusProofs` | `EventsTypeCorrect`, `EventsImplementChannels`, `EventsHalfLineSpoilsItsOwn` |
| `AccountsProofs` | `AccountsInvariant`, `AccountsTypeCorrect`, `AccountsDemo`, `AccountsCirclesAreSwaps`, `AccountsNameTaken`, `AccountsCommandsDone`, `AccountsImplementDirectory` |

**Posts.** `PostsHaveAPlace` is inductive with the types: the foreign key is checked
in the step that writes. `MatchesAreSound` and `NoPostStranded` are not.
An unmatch decides what to reopen long before it deletes its match, so the
invariant has to say what is true of the requests on their way (`MatchInv`): the
match an unmatch holds was created, ids are never handed out again, and the posts
of a match stay. `PostsImplementBoard` is the refinement of `Board`: a commit writes the
ids it read, so it has to be shown that each still has its row, or the commit fails,
and that an unmatch reopens no more than the two posts of its match (`UnmatchInv`).
A status change of a post that is closed already is a stutter, and a confirmation
that shares a post with another closes the one that is left (`PartOfTogether`).

**Apart.** The refinement of `Lifecycle`, for any number of requests that overlap.
`FreshInv` lists, for each place a request can be at, the check it has passed: what it
read is still so when it commits, because another request writes only posts that it
touches itself (`ContinueWritesOwn`) and those are not this one's, and because a
location is only retired by a request that `Apart` keeps away. A location that is
deleted needs no such rule: the foreign key is checked in the commit. Then a commit
is a step of `Lifecycle`, and every other step is a stutter. What `LifecycleProofs`
proves of the lifecycle carries over. `HappensApart` says the same of every behaviour of
the handlers in which requests happen to be apart, so nothing has to hold them back;
one request at a time (`OneAtATime`) is the simplest case.

**ImageUpload.** `PhotoInv` strengthens the two properties by where the worker
is: from `readReplaced` on its photo is written or the post is gone; at `markReady`
it knows every other ready row, because only the worker makes rows ready; at
`dropReplaced` none of the photos it deletes has a ready row. `DeletedInv` says
that objects are deleted only after the post is gone and that it gets no new rows.
`JobInv` is the invariant of `ProcessingHasJobUnlessAhead`: a request that will write
"processing" has its job on the queue or finds the worker done, and the worker
acknowledges only jobs whose row it is done with, or is gone. `WorkerNeverAhead` is the
hypothesis of the step `RecordProcessing` and of no other.
`ExtraInv` adds to `PhotoInv` that the upload in the worker's hand is not finished
until the worker finishes it (`UnfinishedJob`), since nobody else does. Its two
hypotheses are needed for the two ways in which the code does leave a photo:
`WorkerNeverAhead` where `RecordProcessing` overwrites a ready row, and
`StopsLeaveNothing` in the steps after which the worker is down. Without either TLC
finds a counterexample.

**FileStore.** The invariant keeps the keys of the requests in progress apart, so
that no request deletes what another one wrote. `FilesWholeBatches` and
`FilesRowsHaveObjects` are for a database that answers (`~AnswersGetLost`). The second
rests on `WaitInv`: a request that discards objects has none of its rows committed,
which a refresh can break only if a delete took one of them before.

**Matching.** Four inductive invariants. `AnnounceInv`: announced pairs have their row,
and what the worker read as `before` still covers the rows of its post, since it is
the only writer and a hard delete only takes away. `MissInv`: while the worker
searches for a post, its own job excuses the pairs of that post, so what it has
read must be good enough by the time it commits: it scored the words the post
has, unless the post was edited, and an open candidate it did not see was opened
by a request that still has a search to come. `StaleInv` says the same of the rows that
are there and of those the worker holds: a stale row has a search to come, and a pair the
worker keeps still has a word in common, or an edit or a hard delete came since it was read.
`RowsInv` bounds the table. A search keeps `MaxSuggestions`, but the searches of other
posts add rows for the same post, so a post may have more; what is inductive is that
every row can be put down to one of its posts (`PutDown`), none of which has more than
a search keeps: the replaced rows go away whole, and the new ones are put down to
the post of the job. Counting the rows by the post they are put down to (`Fibers`) is
`MatchingFewSuggestions`.

**Matcher.** `ScoreIsWorth` and `SearchIsBest` are about descriptions and candidates of any
length. The body of each loop has a lemma of its own: `AddWordCounts` (one word adds
what `Worth` counts of it) and `AddKeepsTheBest` (a heap that holds the best of what it
was given does so with one more entry, the newer one when they tie). The loops
unfold (`TallyUnfolds`, `HeapsUnfolds`: `Recursion` shows that the recursive function
exists), and `Along` goes through their rounds: the rounds after which something is
wrong would have a first one (`LeastNat`), since "<" on the naturals is well-founded. That is the induction these provers can do: over a set, not over
a predicate. `MatchingWorkerKeepsTheBest` then puts the search into the worker.

**EventBus.** `ChannelInv`, through `InOrder`: the queue is the end of what it was
given, the lines are the beginning, together they leave nothing out, and only the
head of the queue may have its line already. That no event is published twice
makes `WithLine` tell a redelivery from the next event. `TornInHand` says that a half
line is of the message at the head of the logger's queue, not acknowledged: so it is the
next one written.

**Accounts.** `AccountsInv` is inductive. It has the tables (names are unique, the
foreign keys of grants hold), the demo data (whoever serves has it, or one was
cut short), for each session what it may assume at its statement (`Shape` says which
task can be where, `KnowsRoles` which roles it has seen, `Fits` what its held keys mean for the
tables), and that no two sessions hold the same key. From it, a commit is a step of
`Directory` and every other step a stutter, and a statement that fails on its key
finds that key committed. `CirclesAreSwaps` needs an order of the keys: "user" before
"admin" among the roles, and every other key is the last one its session takes, except
the new name of an edit. So whoever waits for a role or a grant waits for somebody
who comes to an end; what is left to close a circle are edits.

**Assumptions.** `PostsAssumption`: lost and found posts are different ids and
`NoLocation` is no location. `ImageUploadAssumption`, `FileStoreAssumption`: the
bounds are numbers. `MatchingAssumption`: lost and found posts are different ids,
and there is room for a suggestion. `EventBusAssumption`: each event has one kind.
`MatcherAssumption`,
`SuggestionsAssumption`: heaps have room for an entry, bounds are numbers, and there are
finitely many posts (`MatchingFewSuggestions` counts them). `AccountsAssumption`: the startup's session is no other's, the configured names are
names, there is some demo data, and roles in commands are the two that exist. The proofs need nothing else, and no fairness.

**Only model-checked.** The liveness properties `JobsAreDone` and `QueuesDrain`, and
`NoRequestHangs`, since TLAPS does not reason about fairness and ENABLED here.
`ImagesStuckIsOvertaken` takes `JobsAreDone` as a hypothesis for that reason. The five
violations are TLC's. `FewSuggestions` is the one thing that is proved only: `matching`
has fewer pairs than it allows rows.

## 6. What is not modelled

* Sign-in and ownership: they only read, and refuse a request before anything is
  read that another request changes. A login reads one row; every request reads its
  user and roles from the database, and the token carries only the id. No code
  changes `is_active`. Hashing and token formats are data.
* The contents of users and demo data: other fields than the name, and what the
  demo rows say, since nothing depends on them. The events and the job that
  `demo_data.seed` sends at its end are those of `EventBus` and `Matching`.
* Several API processes, where it matters that they start and stop by themselves. The
  handlers do not care: a slot of `Posts`, `ImageUpload` or `FileStore` is a request
  in any process, since they share nothing but the database, the store and the broker.
  `EventBus` and `Accounts` have one startup of the API. For the demo data it matters:
  of two processes that start on a new database, one may find the other's first
  location, skip the demo data and serve before the other is through with it. So
  `DemoIsWholeOrCutShort` is about the deployment of `compose.yml` only.
* The tables' creation at the first start (`api.py:71`): two processes that start on an
  empty database may both create a table, and one fails; the next start finds them.
* `GET /metrics` and `routers/meta.py`: counters the application never reads, and a
  health check.
* Wording, the search in lists, paging and response models: no state depends on them. The
  rename of a location and the uniqueness of names belong here.
* Status codes. One consequence is kept out: `docs/Error Contract.md` says every
  foreign key is also caught as an `IntegrityError`, and `create_item`,
  `update_item` and `create_image` do not catch it, so a location or post deleted
  in between gives a 500. The tables stay right.
* Decoding of photos: an upload is good or bad. The ten minutes of an upload link:
  the client may PUT at any time.
* `scripts/`, `monitoring/`, `adapters/`, `gateway.conf`: configuration and tools.
