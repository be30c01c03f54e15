---------------------------- MODULE ImageUpload ----------------------------
(***************************************************************************)
(* The photo of one post: the upload link, the client's PUT, /complete, the *)
(* job queue, the image worker and the hard delete of the post.  Postgres, *)
(* the object store and the queue share no transaction, so every SELECT,   *)
(* commit, store call and publish is a step, and the API's threads, the    *)
(* client and the worker interleave between them.                          *)
(*                                                                         *)
(* There is one image worker (compose.yml), with prefetch_count 1 and      *)
(* manual acks: its job is the head of the queue, and stays there until    *)
(* the ack.  An exception nobody catches stops the worker; the job is then *)
(* redelivered once somebody starts it again.                              *)
(*                                                                         *)
(* What file -k and the decoder make of the bytes is data: an upload is    *)
(* "good" or "bad".  The link's ten minutes are not modelled: the client   *)
(* may PUT at any time after it got the link.                              *)
(***************************************************************************)
EXTENDS Naturals, Sequences, FiniteSets

CONSTANTS
    Uploads,   \* upload ids
    Requests,  \* slots for API requests in progress
    MaxJobs    \* bound: jobs on the queue

ASSUME ImageUploadAssumption == MaxJobs \in Nat

VARIABLES
    item,      \* the post: "editable", "returned" or "deleted"
    images,    \* upload id -> its row's status, "none" or "deleted"
    pending,   \* upload id -> what is at uploads/pending/{id}, or "nothing"
    photos,    \* the uploads with an object at items/{item}/{id}/photo.jpg
    queue,     \* jobs.image_processor
    worker,    \* the image worker: what it does next, and the photos it replaces
    requests   \* slot -> the request running in it

stored == <<item, images, pending, photos>>
vars == <<item, images, pending, photos, queue, worker, requests>>

ImageStatuses == {"awaiting_upload", "processing", "ready", "rejected"}
Finished == {"ready", "rejected"}

HasRow(u) == images[u] \in ImageStatuses
Job == Head(queue)
IsBusy == worker.at \notin {"down", "idle"}
ReadyRows == {u \in Uploads : images[u] = "ready"}

Idle == [at |-> "idle"]
Slot ==
    {Idle}
      \cup [at : {"insertImage"}]
      \cup [at : {"checkUpload", "publishJob", "recordProcessing"}, upload : Uploads]
      \cup [at : {"listUploads"}]
      \cup [at : {"deleteItem", "deletePending", "deletePhotos"},
            uploads : SUBSET Uploads]

\* What the program can hold.  A busy worker still has its job on the queue.
TypeOK ==
    /\ item \in {"editable", "returned", "deleted"}
    /\ images \in [Uploads -> ImageStatuses \cup {"none", "deleted"}]
    /\ pending \in [Uploads -> {"nothing", "good", "bad"}]
    /\ photos \subseteq Uploads
    /\ queue \in Seq(Uploads)
    /\ worker \in [at : {"down", "idle", "readUpload", "reject", "writePhoto",
                         "readReplaced", "markReady", "dropReplaced",
                         "dropPending", "ack"},
                   old : SUBSET Uploads]
    /\ IsBusy => queue # <<>>
    /\ requests \in [Requests -> Slot]

\* A post without photos, and nothing going on.
Init ==
    /\ item = "editable"
    /\ images = [u \in Uploads |-> "none"]
    /\ pending = [u \in Uploads |-> "nothing"]
    /\ photos = {}
    /\ queue = <<>>
    /\ worker = [at |-> "idle", old |-> {}]
    /\ requests = [r \in Requests |-> Idle]

Go(r, slot) == requests' = [requests EXCEPT ![r] = slot]
Finish(r) == Go(r, Idle)

\* The request fails, or is refused.
Refuse(r) == Finish(r) /\ UNCHANGED <<stored, queue, worker>>

\* Bounds: rows and jobs left for the requests already on their way.
ImageIdLeft ==
    Cardinality({r \in Requests : requests[r].at = "insertImage"})
      < Cardinality({u \in Uploads : images[u] = "none"})
JobLeft ==
    Len(queue) + Cardinality({r \in Requests :
                                requests[r].at \in {"checkUpload", "publishJob"}})
      < MaxJobs

-----------------------------------------------------------------------------
(* The post, and the client's PUT to the presigned URL *)

\* Somebody else's request hands the item back: PATCH /items/{id}/status.
ReturnItem ==
    /\ item = "editable"
    /\ item' = "returned"
    /\ UNCHANGED <<images, pending, photos, queue, worker, requests>>

Put(u, bytes) ==
    /\ images[u] # "none"
    /\ pending' = [pending EXCEPT ![u] = bytes]
    /\ UNCHANGED <<item, images, photos, queue, worker, requests>>

-----------------------------------------------------------------------------
(* POST /items/{id}/images *)

BeginStartUpload(r) ==
    /\ requests[r] = Idle /\ ImageIdLeft
    /\ item = "editable"
    /\ Go(r, [at |-> "insertImage"])
    /\ UNCHANGED <<stored, queue, worker>>

\* The foreign key refuses the row if the post has gone since.
InsertImage(r) ==
    /\ requests[r].at = "insertImage"
    /\ IF item = "deleted"
       THEN Refuse(r)
       ELSE /\ \E u \in Uploads :
                  /\ images[u] = "none"
                  /\ images' = [images EXCEPT ![u] = "awaiting_upload"]
            /\ Finish(r)
            /\ UNCHANGED <<item, pending, photos, queue, worker>>

-----------------------------------------------------------------------------
(* POST /items/{id}/images/{upload_id}/complete *)

\* An upload that is queued or finished is returned as it is.
BeginComplete(r, u) ==
    /\ requests[r] = Idle /\ JobLeft
    /\ images[u] = "awaiting_upload"
    /\ Go(r, [at |-> "checkUpload", upload |-> u])
    /\ UNCHANGED <<stored, queue, worker>>

\* Refused if nothing was uploaded, or if the store does not answer.
CheckUpload(r) ==
    /\ requests[r].at = "checkUpload"
    /\ LET u == requests[r].upload IN
          \/ Refuse(r)
          \/ /\ pending[u] # "nothing"
             /\ Go(r, [at |-> "publishJob", upload |-> u])
             /\ UNCHANGED <<stored, queue, worker>>

\* Mutant: a publish that fails is let pass, as emit_event does.
PublishJobBestEffort(r) ==
    /\ requests[r].at = "publishJob"
    /\ LET u == requests[r].upload IN
          /\ queue' \in {queue, Append(queue, u)}
          /\ Go(r, [at |-> "recordProcessing", upload |-> u])
          /\ UNCHANGED <<stored, worker>>

\* The broker has the job and confirms it; or it is down; or it has the job and
\* the confirm is lost, so publish_image_job raises all the same.
PublishJob(r) ==
    /\ requests[r].at = "publishJob"
    /\ LET u == requests[r].upload IN
          \/ /\ queue' = Append(queue, u)
             /\ Go(r, [at |-> "recordProcessing", upload |-> u])
             /\ UNCHANGED <<stored, worker>>
          \/ /\ queue' = Append(queue, u)
             /\ Finish(r)
             /\ UNCHANGED <<stored, worker>>
          \/ Refuse(r)

\* UPDATE ... WHERE id = ...: whatever the row says by now.
RecordProcessing(r) ==
    /\ requests[r].at = "recordProcessing"
    /\ LET u == requests[r].upload IN
          IF HasRow(u)
          THEN /\ images' = [images EXCEPT ![u] = "processing"]
               /\ Finish(r)
               /\ UNCHANGED <<item, pending, photos, queue, worker>>
          ELSE Refuse(r)

-----------------------------------------------------------------------------
(* DELETE /items/{id}/hard, as far as photos are concerned *)

BeginDeleteItem(r) ==
    /\ requests[r] = Idle
    /\ item # "deleted"
    /\ Go(r, [at |-> "listUploads"])
    /\ UNCHANGED <<stored, queue, worker>>

ListUploads(r) ==
    /\ requests[r].at = "listUploads"
    /\ Go(r, [at |-> "deleteItem", uploads |-> {u \in Uploads : HasRow(u)}])
    /\ UNCHANGED <<stored, queue, worker>>

\* The image rows cascade.  RESTRICT refuses a post that is in a match.  Posts
\* without an upload have no objects to delete.
DeleteItem(r) ==
    /\ requests[r].at = "deleteItem"
    /\ \/ /\ item' = "deleted"
          /\ images' = [u \in Uploads |->
                           IF HasRow(u) THEN "deleted" ELSE images[u]]
          /\ IF requests[r].uploads = {}
             THEN Finish(r)
             ELSE Go(r, [requests[r] EXCEPT !.at = "deletePending"])
          /\ UNCHANGED <<pending, photos, queue, worker>>
       \/ Refuse(r)

\* A store that fails on the way leaves the rest; the answer is 204 anyway.
DeletePending(r) ==
    /\ requests[r].at = "deletePending"
    /\ \E gone \in SUBSET requests[r].uploads :
          /\ pending' = [u \in Uploads |-> IF u \in gone THEN "nothing"
                                           ELSE pending[u]]
          /\ IF gone = requests[r].uploads
             THEN Go(r, [requests[r] EXCEPT !.at = "deletePhotos"])
             ELSE Finish(r)
    /\ UNCHANGED <<item, images, photos, queue, worker>>

DeletePhotos(r) ==
    /\ requests[r].at = "deletePhotos"
    /\ \E gone \in SUBSET photos : photos' = photos \ gone
    /\ Finish(r)
    /\ UNCHANGED <<item, images, pending, queue, worker>>

-----------------------------------------------------------------------------
(* The image worker *)

Now(at) == worker' = [at |-> at, old |-> {}]

\* Mutant: the job is acknowledged when it is delivered (auto_ack).
TakeJobAutoAck ==
    /\ worker.at = "idle" /\ queue # <<>>
    /\ Now(IF HasRow(Job) /\ images[Job] \notin Finished THEN "readUpload" ELSE "ack")
    /\ queue' = Tail(queue)
    /\ UNCHANGED <<stored, requests>>

\* Mutant: an upload that needs no work is put back on the queue.
TakeJobRequeue ==
    /\ worker.at = "idle" /\ queue # <<>>
    /\ HasRow(Job) /\ images[Job] \notin Finished
    /\ Now("readUpload")
    /\ UNCHANGED <<stored, queue, requests>>

\* A row that is gone or finished needs no work.
TakeJob ==
    /\ worker.at = "idle" /\ queue # <<>>
    /\ Now(IF HasRow(Job) /\ images[Job] \notin Finished THEN "readUpload" ELSE "ack")
    /\ UNCHANGED <<stored, queue, requests>>

ReadUpload ==
    /\ worker.at = "readUpload"
    /\ Now(IF pending[Job] = "good" THEN "writePhoto" ELSE "reject")
    /\ UNCHANGED <<stored, queue, requests>>

\* A commit that finds the row gone (StaleDataError) stops the worker.
MarkRejected ==
    /\ worker.at = "reject"
    /\ IF HasRow(Job)
       THEN /\ images' = [images EXCEPT ![Job] = "rejected"]
            /\ Now("dropPending")
       ELSE Now("down") /\ UNCHANGED images
    /\ UNCHANGED <<item, pending, photos, queue, requests>>

WritePhoto ==
    /\ worker.at = "writePhoto"
    /\ photos' = photos \cup {Job}
    /\ Now("readReplaced")
    /\ UNCHANGED <<item, images, pending, queue, requests>>

\* Mutant: the old photo is deleted before the commit that replaces it.
DropThenReplace ==
    /\ worker.at = "readReplaced"
    /\ worker' = [at |-> "markReady", old |-> ReadyRows \ {Job}]
    /\ photos' = photos \ (ReadyRows \ {Job})
    /\ UNCHANGED <<item, images, pending, queue, requests>>

ReadReplaced ==
    /\ worker.at = "readReplaced"
    /\ worker' = [at |-> "markReady", old |-> ReadyRows \ {Job}]
    /\ UNCHANGED <<stored, queue, requests>>

\* Mutant: the rows of the replaced photos stay.
MarkReadyOnly ==
    /\ worker.at = "markReady"
    /\ IF HasRow(Job)
       THEN /\ images' = [images EXCEPT ![Job] = "ready"]
            /\ worker' = [worker EXCEPT !.at = "dropReplaced"]
       ELSE Now("down") /\ UNCHANGED images
    /\ UNCHANGED <<item, pending, photos, queue, requests>>

MarkReady ==
    /\ worker.at = "markReady"
    /\ IF HasRow(Job)
       THEN /\ images' = [u \in Uploads |-> CASE u = Job -> "ready"
                                              [] u \in worker.old -> "deleted"
                                              [] OTHER -> images[u]]
            /\ worker' = [worker EXCEPT !.at = "dropReplaced"]
       ELSE Now("down") /\ UNCHANGED images
    /\ UNCHANGED <<item, pending, photos, queue, requests>>

\* Mutant: only the pending object is deleted, as after a rejected upload.
DropNoPhoto ==
    /\ worker.at = "dropReplaced"
    /\ Now("dropPending")
    /\ UNCHANGED <<stored, queue, requests>>

DropReplaced ==
    /\ worker.at = "dropReplaced"
    /\ photos' = photos \ worker.old
    /\ Now("dropPending")
    /\ UNCHANGED <<item, images, pending, queue, requests>>

DropPending ==
    /\ worker.at = "dropPending"
    /\ pending' = [pending EXCEPT ![Job] = "nothing"]
    /\ Now("ack")
    /\ UNCHANGED <<item, images, photos, queue, requests>>

Ack ==
    /\ worker.at = "ack"
    /\ queue' = Tail(queue)
    /\ Now("idle")
    /\ UNCHANGED <<stored, requests>>

\* The worker dies, or loses its connection, or the store or the database fails.
StopWorker ==
    /\ worker.at # "down"
    /\ Now("down")
    /\ UNCHANGED <<stored, queue, requests>>

StartWorker ==
    /\ worker.at = "down"
    /\ Now("idle")
    /\ UNCHANGED <<stored, queue, requests>>

-----------------------------------------------------------------------------
Begin(r) ==
    \/ BeginStartUpload(r)
    \/ \E u \in Uploads : BeginComplete(r, u)
    \/ BeginDeleteItem(r)

Continue(r) ==
    \/ InsertImage(r)
    \/ CheckUpload(r) \/ PublishJob(r) \/ RecordProcessing(r)
    \/ ListUploads(r) \/ DeleteItem(r) \/ DeletePending(r) \/ DeletePhotos(r)

Work ==
    \/ TakeJob
    \/ ReadUpload \/ MarkRejected
    \/ WritePhoto \/ ReadReplaced \/ MarkReady \/ DropReplaced
    \/ DropPending \/ Ack

Next ==
    \/ \E r \in Requests : Begin(r) \/ Continue(r)
    \/ ReturnItem
    \/ \E u \in Uploads, bytes \in {"good", "bad"} : Put(u, bytes)
    \/ Work
    \/ StopWorker \/ StartWorker

Spec == Init /\ [][Next]_vars

\* A worker that is up goes on with its job, and a request that has begun is
\* not abandoned.  Nothing restarts a worker that stopped: no fairness there.
FairSpec ==
    /\ Spec
    /\ WF_vars(Work)
    /\ \A r \in Requests : WF_vars(Continue(r))

-----------------------------------------------------------------------------
\* STORAGE_DESIGN.md, "Write order": a row that makes the API hand out a URL
\* never points at nothing, wherever the worker is stopped and whatever job is
\* redelivered.
ReadyHasPhoto == \A u \in Uploads : images[u] = "ready" => u \in photos

\* crud.mark_image_ready: an item never has two photos, also when several
\* uploads are queued, queued twice, or the worker is stopped half way.
OnePhoto == \A u, v \in ReadyRows : u = v

IsQueued(u) == \E n \in DOMAIN queue : queue[n] = u

\* Every job on the queue is acknowledged at some point, whatever is redelivered
\* and even when its row goes away under the worker, or else the worker stops:
\* no job makes the worker go round for ever.
JobIsDone(u) == IsQueued(u) ~> ~IsQueued(u) \/ worker.at = "down"
JobsAreDone == \A u \in Uploads : JobIsDone(u)

\* As long as the worker is never done with an upload before the request that
\* queued it has written "processing", an upload in processing has a job on the
\* queue, whatever confirm is lost, whoever completes it twice and wherever the
\* worker stops.  So a photo is stuck behind a working worker for that reason only.
WorkerNeverAhead ==
    \A r \in Requests :
        requests[r].at = "recordProcessing" => images[requests[r].upload] \notin Finished
ProcessingHasJob == \A u \in Uploads : images[u] = "processing" => IsQueued(u)
ProcessingHasJobUnlessAhead == []WorkerNeverAhead => []ProcessingHasJob

\* The photos the worker will make ready or delete if it is not stopped.
InHand ==
    {u \in Uploads : \/ worker.at \in {"readReplaced", "markReady"} /\ u = Job
                     \/ worker.at = "dropReplaced" /\ u \in worker.old}

\* The store holds no photo of the post that nobody will show or delete.  A worker
\* that stops with a photo in hand may leave one, since its job, delivered again,
\* finds the row finished; so may one that is ahead of a request, since its ready
\* row is overwritten.  Nothing else does: not an upload that is completed twice,
\* nor a stop at any other place, nor the failures of the API.
NoExtraPhotos == item # "deleted" => photos \subseteq ReadyRows \cup InHand
StopsLeaveNothing == worker.at = "down" => NoExtraPhotos
NoExtraPhotosUnlessStopped ==
    [](WorkerNeverAhead /\ StopsLeaveNothing) => []NoExtraPhotos

\* WALKTHROUGH.md, "A photo stays `processing`: the image worker didn't finish
\* the job": as long as the worker runs, no upload stays in processing.
ProcessingOfEnds(u) ==
    images[u] = "processing" ~> images[u] # "processing" \/ worker.at = "down"
ProcessingEnds == \A u \in Uploads : ProcessingOfEnds(u)

=============================================================================
