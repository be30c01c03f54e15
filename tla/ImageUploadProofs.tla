------------------------- MODULE ImageUploadProofs -------------------------
(***************************************************************************)
(* For any number of uploads, jobs and overlapping requests, and however   *)
(* often the worker stops and starts again: a post has at most one photo,  *)
(* its row never points at an object that is not there, an upload is stuck *)
(* in processing only if the worker was done with it before the request    *)
(* that queued it, and the store keeps a photo that nobody shows only for  *)
(* that reason or because the worker was stopped with it in hand.          *)
(***************************************************************************)
EXTENDS ImageUpload, SequenceTheorems, TLAPS

-----------------------------------------------------------------------------
(* Requests, and the job of the worker *)

LEMMA UploadSlot ==
    ASSUME TypeOK, NEW r \in Requests
    PROVE  /\ requests[r].at \in {"checkUpload", "publishJob", "recordProcessing"} =>
                 requests[r].upload \in Uploads
           /\ requests[r].at \in {"deleteItem", "deletePending", "deletePhotos"} =>
                 /\ requests[r].uploads \subseteq Uploads
                 /\ requests[r] \in [at : {"deleteItem", "deletePending", "deletePhotos"},
                                     uploads : SUBSET Uploads]
<1>1. requests[r] \in Slot
  BY DEF TypeOK
<1> HIDE DEF TypeOK
<1> QED
  BY <1>1 DEF Slot, Idle

LEMMA GoKeepsType ==
    ASSUME TypeOK, NEW r \in Requests, NEW slot \in Slot, Go(r, slot)
    PROVE  /\ requests' \in [Requests -> Slot]
           /\ requests'[r] = slot
           /\ \A q \in Requests : q # r => requests'[q] = requests[q]
BY DEF Go, TypeOK

LEMMA FinishKeepsType ==
    ASSUME TypeOK, NEW r \in Requests, Finish(r)
    PROVE  /\ requests' \in [Requests -> Slot]
           /\ requests'[r].at = "idle"
           /\ \A q \in Requests : q # r => requests'[q] = requests[q]
<1>1. Idle \in Slot /\ Idle.at = "idle"
  BY DEF Slot, Idle
<1> QED
  BY <1>1, GoKeepsType DEF Finish

\* A job that is published does not disturb the one the worker has.
LEMMA PublishKeepsJob ==
    ASSUME TypeOK, NEW u \in Uploads, queue' = Append(queue, u)
    PROVE  queue' \in Seq(Uploads) /\ queue' # <<>> /\ (queue # <<>> => Job' = Job)
<1>1. queue \in Seq(Uploads)
  BY DEF TypeOK
<1>2. /\ queue' \in Seq(Uploads) /\ Len(queue') = Len(queue) + 1
      /\ \A n \in 1 .. Len(queue) : queue'[n] = queue[n]
  BY <1>1, AppendProperties
<1>3. queue # <<>> => Len(queue) \in Nat \ {0}
  BY <1>1, EmptySeq, LenProperties
<1> QED
  BY <1>1, <1>2, <1>3 DEF Job

LEMMA JobIsUpload ==
    ASSUME TypeOK, queue # <<>>
    PROVE  Job \in Uploads
BY HeadTailProperties DEF TypeOK, Job

-----------------------------------------------------------------------------
(* Types *)

WorkerAts == {"down", "idle", "readUpload", "reject", "writePhoto", "readReplaced",
              "markReady", "dropReplaced", "dropPending", "ack"}

\* A request moves on, and may write to the store, the database or the queue.
LEMMA RequestKeepsType ==
    ASSUME TypeOK, requests' \in [Requests -> Slot], worker' = worker,
           item' \in {"editable", "returned", "deleted"},
           images' \in [Uploads -> ImageStatuses \cup {"none", "deleted"}],
           pending' \in [Uploads -> {"nothing", "good", "bad"}],
           photos' \subseteq Uploads, queue' \in Seq(Uploads),
           queue # <<>> => queue' # <<>>
    PROVE  TypeOK'
BY DEF TypeOK, IsBusy

\* The worker moves on.
LEMMA WorkKeepsType ==
    ASSUME TypeOK, UNCHANGED <<requests, item, queue>>,
           NEW at \in WorkerAts, NEW old \in SUBSET Uploads,
           worker' = [at |-> at, old |-> old],
           at \notin {"down", "idle"} => queue # <<>>,
           images' \in [Uploads -> ImageStatuses \cup {"none", "deleted"}],
           pending' \in [Uploads -> {"nothing", "good", "bad"}],
           photos' \subseteq Uploads
    PROVE  TypeOK'
BY DEF TypeOK, IsBusy, WorkerAts

LEMMA BeginKeepsType ==
    ASSUME TypeOK, NEW r \in Requests, Begin(r)
    PROVE  TypeOK'
<1>1. UNCHANGED <<stored, queue, worker>>
  BY DEF Begin, BeginStartUpload, BeginComplete, BeginDeleteItem
<1>2. PICK slot \in Slot : Go(r, slot)
  <2>1. CASE BeginStartUpload(r)
    <3>1. [at |-> "insertImage"] \in Slot
      BY DEF Slot
    <3> QED
      BY <2>1, <3>1 DEF BeginStartUpload
  <2>2. ASSUME NEW u \in Uploads, BeginComplete(r, u)
        PROVE  \E slot \in Slot : Go(r, slot)
    <3>1. [at |-> "checkUpload", upload |-> u] \in Slot
      BY DEF Slot
    <3> QED
      BY <2>2, <3>1 DEF BeginComplete
  <2>3. CASE BeginDeleteItem(r)
    <3>1. [at |-> "listUploads"] \in Slot
      BY DEF Slot
    <3> QED
      BY <2>3, <3>1 DEF BeginDeleteItem
  <2> QED
    BY <2>1, <2>2, <2>3 DEF Begin
<1>3. requests' \in [Requests -> Slot]
  BY <1>2, GoKeepsType
<1> QED
  BY <1>1, <1>3 DEF TypeOK, IsBusy, stored

LEMMA ContinueKeepsType ==
    ASSUME TypeOK, NEW r \in Requests, Continue(r)
    PROVE  TypeOK'
<1>1. /\ item \in {"editable", "returned", "deleted"}
      /\ images \in [Uploads -> ImageStatuses \cup {"none", "deleted"}]
      /\ pending \in [Uploads -> {"nothing", "good", "bad"}]
      /\ photos \subseteq Uploads /\ queue \in Seq(Uploads)
  BY DEF TypeOK
<1>2. Finish(r) => requests' \in [Requests -> Slot]
  BY FinishKeepsType
<1>3. Refuse(r) => TypeOK'
  BY <1>1, <1>2, RequestKeepsType DEF Refuse, stored
<1>4. CASE InsertImage(r)
  <2>1. CASE ~Refuse(r)
    <3>1. /\ images' \in [Uploads -> ImageStatuses \cup {"none", "deleted"}]
          /\ Finish(r) /\ UNCHANGED <<item, pending, photos, queue, worker>>
      BY <1>1, <1>4, <2>1 DEF InsertImage, ImageStatuses
    <3> QED
      BY <1>1, <1>2, <3>1, RequestKeepsType
  <2> QED
    BY <1>3, <2>1
<1>5. CASE CheckUpload(r)
  <2>1. requests[r].upload \in Uploads
    BY <1>5, UploadSlot DEF CheckUpload
  <2>2. [at |-> "publishJob", upload |-> requests[r].upload] \in Slot
    BY <2>1 DEF Slot
  <2>3. Go(r, [at |-> "publishJob", upload |-> requests[r].upload]) =>
           requests' \in [Requests -> Slot]
    BY <2>2, GoKeepsType
  <2> QED
    BY <1>1, <1>3, <1>5, <2>3, RequestKeepsType DEF CheckUpload, stored
<1>6. CASE PublishJob(r)
  <2>1. requests[r].upload \in Uploads
    BY <1>6, UploadSlot DEF PublishJob
  <2>2. [at |-> "recordProcessing", upload |-> requests[r].upload] \in Slot
    BY <2>1 DEF Slot
  <2>3. Go(r, [at |-> "recordProcessing", upload |-> requests[r].upload]) =>
           requests' \in [Requests -> Slot]
    BY <2>2, GoKeepsType
  <2>4. CASE ~Refuse(r)
    <3>1. /\ queue' = Append(queue, requests[r].upload) /\ UNCHANGED <<stored, worker>>
          /\ requests' \in [Requests -> Slot]
      BY <1>2, <1>6, <2>3, <2>4 DEF PublishJob
    <3>2. queue' \in Seq(Uploads) /\ queue' # <<>>
      BY <2>1, <3>1, PublishKeepsJob
    <3> QED
      BY <1>1, <3>1, <3>2, RequestKeepsType DEF stored
  <2> QED
    BY <1>3, <2>4
<1>7. CASE RecordProcessing(r)
  <2>1. requests[r].upload \in Uploads
    BY <1>7, UploadSlot DEF RecordProcessing
  <2>2. CASE ~Refuse(r)
    <3>1. /\ images' = [images EXCEPT ![requests[r].upload] = "processing"]
          /\ Finish(r) /\ UNCHANGED <<item, pending, photos, queue, worker>>
      BY <1>7, <2>2 DEF RecordProcessing
    <3>2. images' \in [Uploads -> ImageStatuses \cup {"none", "deleted"}]
      BY <1>1, <3>1 DEF ImageStatuses
    <3> QED
      BY <1>1, <1>2, <3>1, <3>2, RequestKeepsType
  <2> QED
    BY <1>3, <2>2
<1>8. CASE ListUploads(r)
  <2>1. [at |-> "deleteItem", uploads |-> {u \in Uploads : HasRow(u)}] \in Slot
    BY DEF Slot
  <2>2. requests' \in [Requests -> Slot]
    BY <1>8, <2>1, GoKeepsType DEF ListUploads
  <2> QED
    BY <1>1, <1>8, <2>2, RequestKeepsType DEF ListUploads, stored
<1>9. CASE DeleteItem(r)
  <2>1. CASE ~Refuse(r)
    <3>1. /\ item' = "deleted"
          /\ images' = [u \in Uploads |-> IF HasRow(u) THEN "deleted" ELSE images[u]]
          /\ Finish(r) \/ Go(r, [requests[r] EXCEPT !.at = "deletePending"])
          /\ UNCHANGED <<pending, photos, queue, worker>>
      BY <1>9, <2>1 DEF DeleteItem
    <3>2. [requests[r] EXCEPT !.at = "deletePending"] \in Slot
      <4>1. requests[r] \in [at : {"deleteItem", "deletePending", "deletePhotos"},
                             uploads : SUBSET Uploads]
        BY <1>9, UploadSlot DEF DeleteItem
      <4> QED
        BY <4>1 DEF Slot
    <3>3. requests' \in [Requests -> Slot]
      BY <1>2, <3>1, <3>2, GoKeepsType
    <3>4. images' \in [Uploads -> ImageStatuses \cup {"none", "deleted"}]
      BY <1>1, <3>1
    <3> QED
      BY <1>1, <3>1, <3>3, <3>4, RequestKeepsType
  <2> QED
    BY <1>3, <2>1
<1>10. CASE DeletePending(r)
  <2>1. PICK gone \in SUBSET requests[r].uploads :
           /\ pending' = [u \in Uploads |-> IF u \in gone THEN "nothing" ELSE pending[u]]
           /\ Finish(r) \/ Go(r, [requests[r] EXCEPT !.at = "deletePhotos"])
    BY <1>10 DEF DeletePending
  <2>2. [requests[r] EXCEPT !.at = "deletePhotos"] \in Slot
    <3>1. requests[r] \in [at : {"deleteItem", "deletePending", "deletePhotos"},
                           uploads : SUBSET Uploads]
      BY <1>10, UploadSlot DEF DeletePending
    <3> QED
      BY <3>1 DEF Slot
  <2>3. requests' \in [Requests -> Slot]
    BY <1>2, <2>1, <2>2, GoKeepsType
  <2>4. pending' \in [Uploads -> {"nothing", "good", "bad"}]
    BY <1>1, <2>1
  <2> QED
    BY <1>1, <1>10, <2>3, <2>4, RequestKeepsType DEF DeletePending
<1>11. CASE DeletePhotos(r)
  <2>1. photos' \subseteq Uploads
    BY <1>1, <1>11 DEF DeletePhotos
  <2> QED
    BY <1>1, <1>2, <1>11, <2>1, RequestKeepsType DEF DeletePhotos
<1> QED
  BY <1>4, <1>5, <1>6, <1>7, <1>8, <1>9, <1>10, <1>11 DEF Continue

LEMMA WorkerKeepsType ==
    ASSUME TypeOK, Work \/ StopWorker \/ StartWorker
    PROVE  TypeOK'
<1>1. /\ images \in [Uploads -> ImageStatuses \cup {"none", "deleted"}]
      /\ pending \in [Uploads -> {"nothing", "good", "bad"}]
      /\ photos \subseteq Uploads /\ queue \in Seq(Uploads)
      /\ worker.at \in WorkerAts /\ worker.old \subseteq Uploads
      /\ worker = [at |-> worker.at, old |-> worker.old]
  BY DEF TypeOK, WorkerAts
<1>2. /\ worker.at \notin {"down", "idle"} => queue # <<>>
      /\ queue # <<>> => Job \in Uploads
  BY JobIsUpload DEF TypeOK, IsBusy
<1>3. ASSUME NEW at \in WorkerAts, Now(at), UNCHANGED <<requests, item, queue>>,
             at \notin {"down", "idle"} => queue # <<>>,
             images' \in [Uploads -> ImageStatuses \cup {"none", "deleted"}],
             pending' \in [Uploads -> {"nothing", "good", "bad"}],
             photos' \subseteq Uploads
      PROVE  TypeOK'
  BY <1>3, WorkKeepsType DEF Now
<1>4. CASE TakeJob \/ ReadUpload \/ StopWorker \/ StartWorker
  <2>1. \E at \in WorkerAts : Now(at) /\ (at \notin {"down", "idle"} => queue # <<>>)
    BY <1>2, <1>4 DEF TakeJob, ReadUpload, StopWorker, StartWorker, WorkerAts
  <2> QED
    BY <1>1, <1>3, <1>4, <2>1 DEF TakeJob, ReadUpload, StopWorker, StartWorker, stored
<1>5. CASE MarkRejected
  <2>1. images' \in [Uploads -> ImageStatuses \cup {"none", "deleted"}]
    BY <1>1, <1>5 DEF MarkRejected, ImageStatuses
  <2>2. \E at \in {"dropPending", "down"} : Now(at)
    BY <1>5 DEF MarkRejected
  <2>3. queue # <<>>
    BY <1>2, <1>5 DEF MarkRejected
  <2> QED
    BY <1>1, <1>3, <1>5, <2>1, <2>2, <2>3 DEF MarkRejected, WorkerAts
<1>6. CASE WritePhoto
  <2>1. queue # <<>> /\ photos' \subseteq Uploads
    BY <1>1, <1>2, <1>6 DEF WritePhoto
  <2> QED
    BY <1>1, <1>3, <1>6, <2>1 DEF WritePhoto, WorkerAts
<1>7. CASE ReadReplaced
  <2>1. queue # <<>> /\ ReadyRows \ {Job} \subseteq Uploads
    BY <1>2, <1>7 DEF ReadReplaced, ReadyRows
  <2> QED
    BY <1>1, <1>7, <2>1, WorkKeepsType DEF ReadReplaced, WorkerAts, stored
<1>8. CASE MarkReady
  <2>1. queue # <<>>
    BY <1>2, <1>8 DEF MarkReady
  <2>2. CASE HasRow(Job)
    <3>1. images' \in [Uploads -> ImageStatuses \cup {"none", "deleted"}]
      BY <1>1, <1>8, <2>2 DEF MarkReady, ImageStatuses
    <3>2. worker' = [at |-> "dropReplaced", old |-> worker.old]
      BY <1>1, <1>8, <2>2 DEF MarkReady
    <3> QED
      BY <1>1, <1>8, <2>1, <3>1, <3>2, WorkKeepsType DEF MarkReady, WorkerAts
  <2>3. CASE ~HasRow(Job)
    BY <1>1, <1>3, <1>8, <2>3 DEF MarkReady, WorkerAts
  <2> QED
    BY <2>2, <2>3
<1>9. CASE DropReplaced
  <2>1. queue # <<>> /\ photos' \subseteq Uploads
    BY <1>1, <1>2, <1>9 DEF DropReplaced
  <2> QED
    BY <1>1, <1>3, <1>9, <2>1 DEF DropReplaced, WorkerAts
<1>10. CASE DropPending
  <2>1. queue # <<>> /\ pending' \in [Uploads -> {"nothing", "good", "bad"}]
    BY <1>1, <1>2, <1>10 DEF DropPending
  <2> QED
    BY <1>1, <1>3, <1>10, <2>1 DEF DropPending, WorkerAts
<1>11. CASE Ack
  <2>1. queue # <<>>
    BY <1>2, <1>11 DEF Ack
  <2>2. queue' \in Seq(Uploads)
    BY <1>1, <1>11, <2>1, HeadTailProperties DEF Ack
  <2> QED
    BY <1>11, <2>2 DEF Ack, Now, TypeOK, IsBusy, stored
<1> QED
  BY <1>4, <1>5, <1>6, <1>7, <1>8, <1>9, <1>10, <1>11 DEF Work

LEMMA TypeStep == TypeOK /\ [Next]_vars => TypeOK'
<1> SUFFICES ASSUME TypeOK, [Next]_vars
             PROVE  TypeOK'
  OBVIOUS
<1>1. CASE ReturnItem \/ \E u \in Uploads, bytes \in {"good", "bad"} : Put(u, bytes)
  BY <1>1 DEF ReturnItem, Put, TypeOK, IsBusy
<1>2. CASE UNCHANGED vars
  BY <1>2 DEF vars, TypeOK, IsBusy
<1> QED
  BY <1>1, <1>2, BeginKeepsType, ContinueKeepsType, WorkerKeepsType DEF Next

\* The rows, objects, jobs and requests have their types, and a busy worker still
\* has its job on the queue.
THEOREM ImagesTypeCorrect == Spec => []TypeOK
<1>1. Init => TypeOK
  BY EmptySeq DEF Init, TypeOK, IsBusy, Slot, Idle
<1> QED
  BY <1>1, TypeStep, PTL DEF Spec

-----------------------------------------------------------------------------
(* The photo *)

\* The job's photo is there until its row is ready, or the post is gone.
\* Whatever became ready since is in worker.old; nothing else makes rows ready.
WorkerInv ==
    /\ worker.at \in {"readReplaced", "markReady"} => Job \in photos \/ item = "deleted"
    /\ worker.at = "markReady" => ReadyRows \ {Job} \subseteq worker.old /\ Job \notin worker.old
    /\ worker.at = "dropReplaced" => worker.old \cap ReadyRows = {}

\* The objects are deleted after the rows.
DeletedInv ==
    /\ item = "deleted" => \A u \in Uploads : ~HasRow(u)
    /\ \A r \in Requests :
          requests[r].at \in {"deletePending", "deletePhotos"} => item = "deleted"

PhotoInv == TypeOK /\ ReadyHasPhoto /\ OnePhoto /\ WorkerInv /\ DeletedInv

\* A step of the API, the client or the worker that makes no row ready and takes
\* no photo away.
LEMMA PlainStep ==
    ASSUME PhotoInv, ReadyRows' \subseteq ReadyRows, photos \subseteq photos', item' = item,
           worker' = worker, queue # <<>> => Job' = Job
    PROVE  ReadyHasPhoto' /\ OnePhoto' /\ WorkerInv'
<1>1. worker.at \in {"readReplaced", "markReady", "dropReplaced"} => Job' = Job
  BY DEF PhotoInv, TypeOK, IsBusy
<1>2. ReadyHasPhoto' /\ OnePhoto'
  BY DEF PhotoInv, ReadyHasPhoto, OnePhoto, ReadyRows
<1>3. WorkerInv'
  BY <1>1 DEF PhotoInv, WorkerInv
<1> QED
  BY <1>2, <1>3


\* The requests of the API.  Only DeleteItem and DeletePhotos are not plain.
LEMMA RequestStep ==
    ASSUME PhotoInv, NEW r \in Requests, Begin(r) \/ Continue(r)
    PROVE  ReadyHasPhoto' /\ OnePhoto' /\ WorkerInv'
<1>1. TypeOK /\ ReadyHasPhoto /\ OnePhoto /\ WorkerInv /\ DeletedInv
  BY DEF PhotoInv
<1>2. images \in [Uploads -> ImageStatuses \cup {"none", "deleted"}]
  BY <1>1 DEF TypeOK
<1>3. ASSUME UNCHANGED <<stored, queue, worker>>
      PROVE  ReadyHasPhoto' /\ OnePhoto' /\ WorkerInv'
  BY <1>3, PlainStep DEF stored, ReadyRows, Job
<1>4. Refuse(r) => ReadyHasPhoto' /\ OnePhoto' /\ WorkerInv'
  BY <1>3 DEF Refuse
<1>5. CASE Begin(r)
  BY <1>3, <1>5 DEF Begin, BeginStartUpload, BeginComplete, BeginDeleteItem
<1>6. CASE InsertImage(r)
  <2>1. CASE ~Refuse(r)
    <3>1. /\ \E u \in Uploads : images' = [images EXCEPT ![u] = "awaiting_upload"]
          /\ UNCHANGED <<item, photos, queue, worker>>
      BY <1>6, <2>1 DEF InsertImage
    <3>2. ReadyRows' \subseteq ReadyRows
      BY <1>2, <3>1 DEF ReadyRows
    <3> QED
      BY <3>1, <3>2, PlainStep DEF Job
  <2> QED
    BY <1>4, <2>1
<1>7. CASE CheckUpload(r) \/ ListUploads(r)
  BY <1>3, <1>4, <1>7 DEF CheckUpload, ListUploads
<1>8. CASE PublishJob(r)
  <2>1. CASE ~Refuse(r)
    <3>1. queue' = Append(queue, requests[r].upload) /\ UNCHANGED <<stored, worker>>
      BY <1>8, <2>1 DEF PublishJob
    <3>2. requests[r].upload \in Uploads
      BY <1>1, <1>8, UploadSlot DEF PublishJob
    <3>3. queue # <<>> => Job' = Job
      BY <1>1, <3>1, <3>2, PublishKeepsJob
    <3> QED
      BY <3>1, <3>3, PlainStep DEF stored, ReadyRows
  <2> QED
    BY <1>4, <2>1
<1>9. CASE RecordProcessing(r)
  <2>1. CASE ~Refuse(r)
    <3>1. /\ images' = [images EXCEPT ![requests[r].upload] = "processing"]
          /\ UNCHANGED <<item, photos, queue, worker>>
      BY <1>9, <2>1 DEF RecordProcessing
    <3>2. ReadyRows' \subseteq ReadyRows
      BY <1>2, <3>1 DEF ReadyRows
    <3> QED
      BY <3>1, <3>2, PlainStep DEF Job
  <2> QED
    BY <1>4, <2>1
<1>10. CASE DeleteItem(r)
  <2>1. CASE ~Refuse(r)
    <3>1. /\ item' = "deleted"
          /\ images' = [u \in Uploads |-> IF HasRow(u) THEN "deleted" ELSE images[u]]
          /\ UNCHANGED <<photos, queue, worker>>
      BY <1>10, <2>1 DEF DeleteItem
    <3>2. ReadyRows' = {}
      BY <1>2, <3>1 DEF ReadyRows, HasRow, ImageStatuses
    <3>3. ReadyHasPhoto' /\ OnePhoto'
      BY <3>2 DEF ReadyHasPhoto, OnePhoto, ReadyRows
    <3>4. Job' = Job
      BY <3>1 DEF Job
    <3> QED
      BY <1>1, <3>1, <3>2, <3>3, <3>4 DEF WorkerInv
  <2> QED
    BY <1>4, <2>1
<1>11. CASE DeletePending(r)
  <2>1. UNCHANGED <<item, images, photos, queue, worker>>
    BY <1>11 DEF DeletePending
  <2> QED
    BY <2>1, PlainStep DEF ReadyRows, Job
<1>12. CASE DeletePhotos(r)
  <2>1. item = "deleted" /\ UNCHANGED <<item, images, queue, worker>>
    BY <1>1, <1>12 DEF DeletePhotos, DeletedInv
  <2>2. ReadyRows' = {} /\ ReadyRows = {}
    BY <1>1, <2>1 DEF DeletedInv, ReadyRows, HasRow, ImageStatuses
  <2>3. ReadyHasPhoto' /\ OnePhoto'
    BY <2>2 DEF ReadyHasPhoto, OnePhoto, ReadyRows
  <2>4. Job' = Job
    BY <2>1 DEF Job
  <2> QED
    BY <1>1, <2>1, <2>2, <2>3, <2>4 DEF WorkerInv
<1> QED
  BY <1>5, <1>6, <1>7, <1>8, <1>9, <1>10, <1>11, <1>12 DEF Continue

\* The worker: the photo is written before its row is ready, and the photos it
\* replaces go after their rows.
LEMMA WorkerStep ==
    ASSUME PhotoInv, Work \/ StopWorker \/ StartWorker
    PROVE  ReadyHasPhoto' /\ OnePhoto' /\ WorkerInv'
<1>1. TypeOK /\ ReadyHasPhoto /\ OnePhoto /\ WorkerInv /\ DeletedInv
  BY DEF PhotoInv
<1>2. /\ images \in [Uploads -> ImageStatuses \cup {"none", "deleted"}]
      /\ worker = [at |-> worker.at, old |-> worker.old]
  BY <1>1 DEF TypeOK
<1>3. ASSUME ReadyRows' \subseteq ReadyRows, photos \subseteq photos'
      PROVE  ReadyHasPhoto' /\ OnePhoto'
  BY <1>1, <1>3 DEF ReadyHasPhoto, OnePhoto, ReadyRows
<1>4. ASSUME worker'.at \notin {"readReplaced", "markReady", "dropReplaced"}
      PROVE  WorkerInv'
  BY <1>4 DEF WorkerInv
<1>5. CASE TakeJob \/ ReadUpload \/ Ack \/ StopWorker \/ StartWorker
  <2>1. worker'.at \notin {"readReplaced", "markReady", "dropReplaced"}
    BY <1>5 DEF TakeJob, ReadUpload, Ack, StopWorker, StartWorker, Now
  <2>2. UNCHANGED <<images, photos>>
    BY <1>5 DEF TakeJob, ReadUpload, Ack, StopWorker, StartWorker, stored
  <2> QED
    BY <1>3, <1>4, <2>1, <2>2 DEF ReadyRows
<1>6. CASE MarkRejected
  <2>1. worker'.at \notin {"readReplaced", "markReady", "dropReplaced"}
    BY <1>6 DEF MarkRejected, Now
  <2>2. ReadyRows' \subseteq ReadyRows /\ photos' = photos
    BY <1>2, <1>6 DEF MarkRejected, ReadyRows
  <2> QED
    BY <1>3, <1>4, <2>1, <2>2
<1>7. CASE WritePhoto
  <2>1. /\ ReadyRows' = ReadyRows /\ photos' = photos \cup {Job} /\ Job' = Job
        /\ worker'.at = "readReplaced"
    BY <1>7 DEF WritePhoto, ReadyRows, Job, Now
  <2> QED
    BY <1>3, <2>1 DEF WorkerInv
<1>8. CASE ReadReplaced
  <2>1. /\ ReadyRows' = ReadyRows /\ photos' = photos /\ Job' = Job /\ item' = item
        /\ worker'.at = "markReady" /\ worker'.old = ReadyRows \ {Job}
        /\ Job \in photos \/ item = "deleted"
    BY <1>1, <1>8 DEF ReadReplaced, stored, ReadyRows, Job, WorkerInv
  <2> QED
    BY <1>3, <2>1 DEF WorkerInv
<1>9. CASE MarkReady
  <2>1. CASE HasRow(Job)
    <3>1. /\ images' = [u \in Uploads |-> CASE u = Job -> "ready"
                                            [] u \in worker.old -> "deleted"
                                            [] OTHER -> images[u]]
          /\ worker'.at = "dropReplaced" /\ worker'.old = worker.old
          /\ photos' = photos
          /\ ReadyRows \ {Job} \subseteq worker.old /\ Job \notin worker.old
      BY <1>1, <1>2, <1>9, <2>1 DEF MarkReady, WorkerInv
    <3>2. Job \in Uploads /\ Job \in photos
      <4>1. Job \in Uploads
        BY <1>1, <1>9, JobIsUpload DEF MarkReady, TypeOK, IsBusy
      <4> QED
        BY <1>1, <1>9, <2>1, <4>1 DEF MarkReady, WorkerInv, DeletedInv
    <3>3. ReadyRows' \subseteq {Job}
      BY <3>1 DEF ReadyRows
    <3>4. ReadyHasPhoto' /\ OnePhoto'
      BY <3>1, <3>2, <3>3 DEF ReadyHasPhoto, OnePhoto, ReadyRows
    <3>5. WorkerInv'
      BY <3>1, <3>3 DEF WorkerInv
    <3> QED
      BY <3>4, <3>5
  <2>2. CASE ~HasRow(Job)
    <3>1. worker'.at = "down" /\ UNCHANGED <<images, photos>>
      BY <1>9, <2>2 DEF MarkReady, Now
    <3> QED
      BY <1>3, <1>4, <3>1 DEF ReadyRows
  <2> QED
    BY <2>1, <2>2
<1>10. CASE DropReplaced
  <2>1. /\ worker'.at = "dropPending" /\ images' = images
        /\ photos' = photos \ worker.old /\ worker.old \cap ReadyRows = {}
    BY <1>1, <1>10 DEF DropReplaced, WorkerInv, Now
  <2>2. ReadyHasPhoto' /\ OnePhoto'
    BY <1>1, <2>1 DEF ReadyHasPhoto, OnePhoto, ReadyRows
  <2> QED
    BY <1>4, <2>1, <2>2
<1>11. CASE DropPending
  <2>1. worker'.at = "ack" /\ UNCHANGED <<images, photos>>
    BY <1>11 DEF DropPending, Now
  <2> QED
    BY <1>3, <1>4, <2>1 DEF ReadyRows
<1> QED
  BY <1>5, <1>6, <1>7, <1>8, <1>9, <1>10, <1>11 DEF Work

\* A post that is gone has no rows, and gets none.
LEMMA DeletedStep ==
    ASSUME PhotoInv, [Next]_vars
    PROVE  DeletedInv'
<1>1. TypeOK /\ DeletedInv /\ WorkerInv
  BY DEF PhotoInv
<1>2. images \in [Uploads -> ImageStatuses \cup {"none", "deleted"}]
  BY <1>1 DEF TypeOK
<1>3. ASSUME item' = item \/ item' = "returned",
             \A u \in Uploads : HasRow(u)' => HasRow(u) \/ item # "deleted",
             item = "deleted" => item' = item,
             \A q \in Requests : \/ requests'[q] = requests[q]
                                 \/ requests'[q].at \notin {"deletePending", "deletePhotos"}
                                 \/ item = "deleted"
      PROVE  DeletedInv'
  BY <1>1, <1>3 DEF DeletedInv
<1>4. ASSUME NEW r \in Requests, Begin(r)
      PROVE  DeletedInv'
  <2>1. UNCHANGED <<item, images>>
    BY <1>4 DEF Begin, BeginStartUpload, BeginComplete, BeginDeleteItem, stored
  <2>2. \E slot \in Slot : /\ Go(r, slot)
                           /\ slot.at \in {"insertImage", "checkUpload", "listUploads"}
    <3>1. /\ [at |-> "insertImage"] \in Slot /\ [at |-> "listUploads"] \in Slot
          /\ \A u \in Uploads : [at |-> "checkUpload", upload |-> u] \in Slot
      BY DEF Slot
    <3> QED
      BY <1>4, <3>1 DEF Begin, BeginStartUpload, BeginComplete, BeginDeleteItem
  <2>3. \A q \in Requests : \/ requests'[q] = requests[q]
                            \/ requests'[q].at \notin {"deletePending", "deletePhotos"}
    BY <1>1, <2>2, GoKeepsType
  <2> QED
    BY <1>3, <2>1, <2>3 DEF HasRow
<1>5. ASSUME NEW r \in Requests, Continue(r)
      PROVE  DeletedInv'
  <2>1. Finish(r) => \A q \in Requests :
                         \/ requests'[q] = requests[q]
                         \/ requests'[q].at \notin {"deletePending", "deletePhotos"}
    BY <1>1, FinishKeepsType
  <2>2. Refuse(r) => DeletedInv'
    BY <1>3, <2>1 DEF Refuse, stored, HasRow
  <2>3. CASE InsertImage(r)
    <3>1. CASE ~Refuse(r)
      <4>1. item # "deleted" /\ Finish(r) /\ item' = item
        BY <2>3, <3>1 DEF InsertImage
      <4> QED
        BY <1>3, <2>1, <4>1
    <3> QED
      BY <2>2, <3>1
  <2>4. CASE CheckUpload(r) \/ PublishJob(r)
    <3>1. UNCHANGED <<item, images>>
      BY <2>4 DEF CheckUpload, PublishJob, Refuse, stored
    <3>2. requests[r].upload \in Uploads
      BY <1>1, <2>4, UploadSlot DEF CheckUpload, PublishJob
    <3>3. /\ [at |-> "publishJob", upload |-> requests[r].upload] \in Slot
          /\ [at |-> "recordProcessing", upload |-> requests[r].upload] \in Slot
      BY <3>2 DEF Slot
    <3>4. \/ Finish(r)
          \/ Go(r, [at |-> "publishJob", upload |-> requests[r].upload])
          \/ Go(r, [at |-> "recordProcessing", upload |-> requests[r].upload])
      BY <2>4 DEF CheckUpload, PublishJob, Refuse
    <3>5. \A q \in Requests : \/ requests'[q] = requests[q]
                              \/ requests'[q].at \notin {"deletePending", "deletePhotos"}
      BY <1>1, <2>1, <3>3, <3>4, GoKeepsType
    <3> QED
      BY <1>3, <3>1, <3>5 DEF HasRow
  <2>5. CASE RecordProcessing(r)
    <3>1. CASE ~Refuse(r)
      <4>1. /\ images' = [images EXCEPT ![requests[r].upload] = "processing"]
            /\ HasRow(requests[r].upload) /\ Finish(r) /\ item' = item
        BY <2>5, <3>1 DEF RecordProcessing
      <4>2. \A u \in Uploads : HasRow(u)' => HasRow(u)
        BY <1>2, <4>1 DEF HasRow
      <4> QED
        BY <1>3, <2>1, <4>1, <4>2
    <3> QED
      BY <2>2, <3>1
  <2>6. CASE ListUploads(r)
    <3>1. [at |-> "deleteItem", uploads |-> {u \in Uploads : HasRow(u)}] \in Slot
      BY DEF Slot
    <3>2. \A q \in Requests : \/ requests'[q] = requests[q]
                              \/ requests'[q].at \notin {"deletePending", "deletePhotos"}
      BY <1>1, <2>6, <3>1, GoKeepsType DEF ListUploads
    <3> QED
      BY <1>3, <2>6, <3>2 DEF ListUploads, stored, HasRow
  <2>7. CASE DeleteItem(r)
    <3>1. CASE ~Refuse(r)
      <4>1. /\ item' = "deleted"
            /\ images' = [u \in Uploads |-> IF HasRow(u) THEN "deleted" ELSE images[u]]
        BY <2>7, <3>1 DEF DeleteItem
      <4>2. \A u \in Uploads : ~HasRow(u)'
        BY <1>2, <4>1 DEF HasRow, ImageStatuses
      <4> QED
        BY <4>1, <4>2 DEF DeletedInv
    <3> QED
      BY <2>2, <3>1
  <2>8. CASE DeletePending(r) \/ DeletePhotos(r)
    <3>1. item = "deleted" /\ UNCHANGED <<item, images>>
      BY <1>1, <2>8 DEF DeletePending, DeletePhotos, DeletedInv
    <3> QED
      BY <1>3, <3>1 DEF HasRow
  <2> QED
    BY <1>5, <2>3, <2>4, <2>5, <2>6, <2>7, <2>8 DEF Continue
<1>6. CASE ReturnItem \/ \E u \in Uploads, bytes \in {"good", "bad"} : Put(u, bytes)
  <2>1. UNCHANGED <<images, requests>> /\ (item' = item \/ (item' = "returned" /\ item # "deleted"))
    BY <1>6 DEF ReturnItem, Put
  <2> QED
    BY <1>3, <2>1 DEF HasRow
<1>7. CASE Work \/ StopWorker \/ StartWorker
  <2>1. UNCHANGED <<item, requests>>
    BY <1>7 DEF Work, TakeJob, ReadUpload, MarkRejected, WritePhoto, ReadReplaced, MarkReady,
                DropReplaced, DropPending, Ack, StopWorker, StartWorker, stored
  <2>2. \A u \in Uploads : HasRow(u)' => HasRow(u)
    <3>1. CASE UNCHANGED images
      BY <3>1 DEF HasRow
    <3>2. CASE MarkRejected
      BY <1>2, <3>2 DEF MarkRejected, HasRow
    <3>3. CASE MarkReady
      BY <1>2, <3>3 DEF MarkReady, HasRow, ImageStatuses
    <3> QED
      BY <1>7, <3>1, <3>2, <3>3
         DEF Work, TakeJob, ReadUpload, WritePhoto, ReadReplaced, DropReplaced,
             DropPending, Ack, StopWorker, StartWorker, stored
  <2> QED
    BY <1>3, <2>1, <2>2
<1>8. CASE UNCHANGED vars
  BY <1>3, <1>8 DEF vars, HasRow
<1> QED
  BY <1>4, <1>5, <1>6, <1>7, <1>8 DEF Next

LEMMA PhotoStep == PhotoInv /\ [Next]_vars => PhotoInv'
<1> SUFFICES ASSUME PhotoInv, [Next]_vars
             PROVE  PhotoInv'
  OBVIOUS
<1>1. TypeOK' /\ DeletedInv'
  BY TypeStep, DeletedStep DEF PhotoInv
<1>2. CASE ReturnItem
  <2>1. /\ UNCHANGED <<images, photos, queue, worker>> /\ item # "deleted"
    BY <1>2 DEF ReturnItem
  <2> QED
    BY <1>1, <2>1 DEF PhotoInv, ReadyHasPhoto, OnePhoto, WorkerInv, ReadyRows, Job
<1>3. CASE \/ \E u \in Uploads, bytes \in {"good", "bad"} : Put(u, bytes)
           \/ UNCHANGED vars
  <2>1. UNCHANGED <<item, images, photos, queue, worker>>
    BY <1>3 DEF Put, vars
  <2> QED
    BY <1>1, <2>1, PlainStep DEF PhotoInv, ReadyRows, Job
<1> QED
  BY <1>1, <1>2, <1>3, RequestStep, WorkerStep DEF Next, PhotoInv

LEMMA PhotoInvariant == Spec => []PhotoInv
<1>1. Init => PhotoInv
  <2>1. Init => TypeOK
    BY EmptySeq DEF Init, TypeOK, IsBusy, Slot, Idle
  <2> QED
    BY <2>1 DEF Init, PhotoInv, ReadyHasPhoto, OnePhoto, WorkerInv, DeletedInv,
                ReadyRows, HasRow, ImageStatuses, Idle
<1> QED
  BY <1>1, PhotoStep, PTL DEF Spec

\* No row that makes the API hand out a URL ever points at nothing, however many
\* uploads, redelivered jobs and overlapping requests there are.
THEOREM ImagesReadyHasPhoto == Spec => []ReadyHasPhoto
<1>1. PhotoInv => ReadyHasPhoto
  BY DEF PhotoInv
<1> QED
  BY <1>1, PhotoInvariant, PTL

\* A post never has two photos.
THEOREM ImagesOnePhoto == Spec => []OnePhoto
<1>1. PhotoInv => OnePhoto
  BY DEF PhotoInv
<1> QED
  BY <1>1, PhotoInvariant, PTL

-----------------------------------------------------------------------------
(* The job of an upload in processing *)

\* The worker is done with the upload, or its row is gone.
Settled(u) == images[u] \in Finished \cup {"deleted"}

Completing == {"checkUpload", "publishJob", "recordProcessing"}

\* An upload whose row will say "processing" has its job on the queue until the
\* worker is done with it.
JobInv ==
    /\ ProcessingHasJob
    /\ \A r \in Requests :
          requests[r].at \in Completing =>
             /\ images[requests[r].upload] # "none"
             /\ requests[r].at = "recordProcessing" =>
                   IsQueued(requests[r].upload) \/ Settled(requests[r].upload)
    /\ \A u \in Uploads : IsQueued(u) => images[u] # "none"
    /\ worker.at \in {"dropReplaced", "dropPending", "ack"} => Settled(Job)

\* The request was there before, or what it needs is there.
HasItsJob(r) ==
    \/ requests'[r] = requests[r]
    \/ requests'[r].at \notin Completing
    \/ /\ requests'[r].upload \in Uploads /\ images'[requests'[r].upload] # "none"
       /\ requests'[r].at = "recordProcessing" => IsQueued(requests[r].upload)'

\* A step keeps the invariant if uploads that are settled stay so, jobs go only for
\* those, and what is new in processing or on the queue may be there.
LEMMA JobsFrame ==
    ASSUME TypeOK, JobInv,
           \A u \in Uploads :
              /\ Settled(u) => Settled(u)'
              /\ images[u] # "none" => images'[u] # "none"
              /\ IsQueued(u) => IsQueued(u)' \/ Settled(u)'
              /\ IsQueued(u)' => IsQueued(u) \/ images'[u] # "none"
              /\ images'[u] = "processing" => images[u] = "processing" \/ IsQueued(u),
           \A q \in Requests : HasItsJob(q),
           worker'.at \in {"dropReplaced", "dropPending", "ack"} => Settled(Job)'
    PROVE  JobInv'
<1>1. \A u \in Uploads : images'[u] = "processing" => ~Settled(u)'
  BY DEF Settled, Finished
<1>2. ProcessingHasJob'
  BY <1>1 DEF JobInv, ProcessingHasJob
<1>3. \A u \in Uploads : IsQueued(u)' => images'[u] # "none"
  BY DEF JobInv
<1>4. ASSUME NEW q \in Requests, requests'[q].at \in Completing
      PROVE  /\ images'[requests'[q].upload] # "none"
             /\ requests'[q].at = "recordProcessing" =>
                   IsQueued(requests[q].upload)' \/ Settled(requests[q].upload)'
  <2>1. CASE requests'[q] = requests[q]
    <3>1. PICK u \in Uploads : u = requests[q].upload /\ u = requests'[q].upload
      BY <1>4, <2>1, UploadSlot DEF Completing
    <3>2. /\ images[u] # "none"
          /\ requests[q].at = "recordProcessing" => IsQueued(u) \/ Settled(u)
      BY <1>4, <2>1, <3>1 DEF JobInv
    <3>3. /\ images'[u] # "none"
          /\ requests'[q].at = "recordProcessing" => IsQueued(u)' \/ Settled(u)'
      BY <2>1, <3>2
    <3> QED
      BY <3>1, <3>3 DEF IsQueued, Settled
  <2> QED
    BY <1>4, <2>1 DEF HasItsJob
<1> QED
  BY <1>2, <1>3, <1>4 DEF JobInv, IsQueued, Settled

LEMMA QueueAppended ==
    ASSUME TypeOK, NEW u \in Uploads, queue' = Append(queue, u)
    PROVE  \A v \in Uploads : IsQueued(v)' <=> IsQueued(v) \/ v = u
<1>1. queue \in Seq(Uploads) /\ Len(queue) \in Nat
  BY LenProperties DEF TypeOK
<1>2. /\ queue' \in Seq(Uploads) /\ Len(queue') = Len(queue) + 1
      /\ \A n \in 1 .. Len(queue) : queue'[n] = queue[n]
      /\ queue'[Len(queue) + 1] = u
  BY <1>1, AppendProperties
<1>3. DOMAIN queue = 1 .. Len(queue) /\ DOMAIN queue' = 1 .. Len(queue) + 1
  BY <1>1, <1>2
<1> QED
  BY <1>1, <1>2, <1>3 DEF IsQueued

LEMMA QueueTaken ==
    ASSUME TypeOK, queue # <<>>, queue' = Tail(queue)
    PROVE  \A v \in Uploads : /\ IsQueued(v)' => IsQueued(v)
                              /\ IsQueued(v) => IsQueued(v)' \/ v = Job
<1>1. queue \in Seq(Uploads) /\ Len(queue) \in Nat
  BY LenProperties DEF TypeOK
<1>2. /\ queue' \in Seq(Uploads) /\ Len(queue') = Len(queue) - 1
      /\ \A n \in 1 .. Len(queue') : queue'[n] = queue[n + 1]
      /\ Job = queue[1]
  BY <1>1, HeadTailProperties DEF Job
<1>3. DOMAIN queue = 1 .. Len(queue) /\ DOMAIN queue' = 1 .. Len(queue) - 1
  BY <1>1, <1>2
<1>4. ASSUME NEW v \in Uploads, NEW n \in DOMAIN queue, queue[n] = v, v # Job
      PROVE  IsQueued(v)'
  <2>1. n - 1 \in DOMAIN queue' /\ queue'[n - 1] = v
    BY <1>1, <1>2, <1>3, <1>4
  <2> QED
    BY <2>1 DEF IsQueued
<1>5. ASSUME NEW v \in Uploads, NEW n \in DOMAIN queue', queue'[n] = v
      PROVE  IsQueued(v)
  <2>1. n + 1 \in DOMAIN queue /\ queue[n + 1] = v
    BY <1>1, <1>2, <1>3, <1>5
  <2> QED
    BY <2>1 DEF IsQueued
<1> QED
  BY <1>4, <1>5 DEF IsQueued

\* A step of the API.  It is RecordProcessing that the hypothesis is for.
LEMMA RequestsKeepJobs ==
    ASSUME TypeOK, JobInv, WorkerNeverAhead, NEW r \in Requests, Begin(r) \/ Continue(r)
    PROVE  JobInv'
<1>1. images \in [Uploads -> ImageStatuses \cup {"none", "deleted"}]
  BY DEF TypeOK
<1>2. worker' = worker
  BY DEF Begin, BeginStartUpload, BeginComplete, BeginDeleteItem, Continue, InsertImage,
         CheckUpload, PublishJob, RecordProcessing, ListUploads, DeleteItem,
         DeletePending, DeletePhotos, Refuse
<1>3. worker.at \in {"dropReplaced", "dropPending", "ack"} =>
         queue # <<>> /\ Job \in Uploads /\ Settled(Job)
  BY JobIsUpload DEF TypeOK, IsBusy, JobInv
<1>4. ASSUME UNCHANGED queue, \A q \in Requests : HasItsJob(q),
             \A u \in Uploads :
                /\ Settled(u) => Settled(u)'
                /\ images[u] # "none" => images'[u] # "none"
                /\ images'[u] = "processing" => images[u] = "processing" \/ IsQueued(u)
      PROVE  JobInv'
  <2>1. Job' = Job /\ \A u \in Uploads : IsQueued(u)' <=> IsQueued(u)
    BY <1>4 DEF Job, IsQueued
  <2>2. worker.at \in {"dropReplaced", "dropPending", "ack"} => Settled(Job)'
    <3>1. Settled(Job) /\ Job \in Uploads => Settled(Job)'
      BY <1>4, <2>1 DEF Settled
    <3> QED
      BY <1>3, <3>1
  <2>3. \A u \in Uploads : IsQueued(u)' => IsQueued(u) \/ images'[u] # "none"
    BY <2>1
  <2>4. \A u \in Uploads : IsQueued(u) => IsQueued(u)' \/ Settled(u)'
    BY <2>1
  <2> QED
    BY <1>2, <1>4, <2>2, <2>3, <2>4, JobsFrame
<1>5. ASSUME UNCHANGED images
      PROVE  \A u \in Uploads :
                /\ Settled(u) => Settled(u)'
                /\ images[u] # "none" => images'[u] # "none"
                /\ images'[u] = "processing" => images[u] = "processing" \/ IsQueued(u)
  BY <1>5 DEF Settled
<1>6. ASSUME NEW slot \in Slot, Go(r, slot),
             \/ slot.at \notin Completing
             \/ /\ slot.upload \in Uploads /\ images'[slot.upload] # "none"
                /\ slot.at = "recordProcessing" => IsQueued(slot.upload)'
      PROVE  \A q \in Requests : HasItsJob(q)
  <2>1. requests'[r] = slot /\ \A q \in Requests : q # r => requests'[q] = requests[q]
    BY <1>6, GoKeepsType
  <2> QED
    BY <1>6, <2>1 DEF HasItsJob, IsQueued
<1>7. ASSUME Finish(r) PROVE \A q \in Requests : HasItsJob(q)
  BY <1>7, FinishKeepsType DEF HasItsJob, Completing
<1>8. Refuse(r) => JobInv'
  BY <1>4, <1>5, <1>7 DEF Refuse, stored
<1>9. CASE Begin(r)
  <2>1. UNCHANGED <<images, queue>>
    BY <1>9 DEF Begin, BeginStartUpload, BeginComplete, BeginDeleteItem, stored
  <2>2. CASE BeginStartUpload(r) \/ BeginDeleteItem(r)
    <3>1. /\ [at |-> "insertImage"] \in Slot /\ [at |-> "listUploads"] \in Slot
      BY DEF Slot
    <3>2. \A q \in Requests : HasItsJob(q)
      BY <1>6, <2>2, <3>1 DEF BeginStartUpload, BeginDeleteItem, Completing
    <3> QED
      BY <1>4, <1>5, <2>1, <3>2
  <2>3. ASSUME NEW u \in Uploads, BeginComplete(r, u)
        PROVE  JobInv'
    <3>1. [at |-> "checkUpload", upload |-> u] \in Slot
      BY DEF Slot
    <3>2. images'[u] # "none" /\ Go(r, [at |-> "checkUpload", upload |-> u])
      BY <2>1, <2>3 DEF BeginComplete
    <3>3. \A q \in Requests : HasItsJob(q)
      BY <1>6, <3>1, <3>2
    <3> QED
      BY <1>4, <1>5, <2>1, <3>3
  <2> QED
    BY <1>9, <2>2, <2>3 DEF Begin
<1>10. CASE InsertImage(r)
  <2>1. CASE ~Refuse(r)
    <3>1. PICK u \in Uploads : /\ images[u] = "none"
                               /\ images' = [images EXCEPT ![u] = "awaiting_upload"]
      BY <1>10, <2>1 DEF InsertImage
    <3>2. Finish(r) /\ UNCHANGED queue
      BY <1>10, <2>1 DEF InsertImage
    <3>3. \A v \in Uploads :
             /\ Settled(v) => Settled(v)'
             /\ images[v] # "none" => images'[v] # "none"
             /\ images'[v] = "processing" => images[v] = "processing" \/ IsQueued(v)
      BY <1>1, <3>1 DEF Settled, Finished
    <3> QED
      BY <1>4, <1>7, <3>2, <3>3
  <2> QED
    BY <1>8, <2>1
<1>11. CASE CheckUpload(r)
  <2>1. CASE ~Refuse(r)
    <3>1. /\ requests[r].upload \in Uploads /\ images[requests[r].upload] # "none"
      BY <1>11, UploadSlot DEF CheckUpload, JobInv, Completing
    <3>2. [at |-> "publishJob", upload |-> requests[r].upload] \in Slot
      BY <3>1 DEF Slot
    <3>3. /\ Go(r, [at |-> "publishJob", upload |-> requests[r].upload])
          /\ UNCHANGED <<images, queue>>
      BY <1>11, <2>1 DEF CheckUpload, stored
    <3>4. \A q \in Requests : HasItsJob(q)
      BY <1>6, <3>1, <3>2, <3>3
    <3> QED
      BY <1>4, <1>5, <3>3, <3>4
  <2> QED
    BY <1>8, <2>1
<1>12. CASE PublishJob(r)
  <2>1. CASE ~Refuse(r)
    <3>1. PICK u \in Uploads : u = requests[r].upload
      BY <1>12, UploadSlot DEF PublishJob
    <3>2. images[u] # "none"
      BY <1>12, <3>1 DEF PublishJob, JobInv, Completing
    <3>3. [at |-> "recordProcessing", upload |-> u] \in Slot
      BY <3>2 DEF Slot
    <3>4. /\ Go(r, [at |-> "recordProcessing", upload |-> u]) \/ Finish(r)
          /\ queue' = Append(queue, u) /\ UNCHANGED images
      BY <1>12, <2>1, <3>1 DEF PublishJob, stored
    <3>5. \A v \in Uploads : IsQueued(v)' <=> IsQueued(v) \/ v = u
      BY <3>2, <3>4, QueueAppended
    <3>6. queue # <<>> => Job' = Job
      BY <3>2, <3>4, PublishKeepsJob
    <3>7. worker'.at \in {"dropReplaced", "dropPending", "ack"} => Settled(Job)'
      BY <1>2, <1>3, <3>4, <3>6 DEF Settled
    <3>8. \A q \in Requests : HasItsJob(q)
      <4>1. IsQueued(u)'
        BY <3>2, <3>5
      <4>2. CASE Go(r, [at |-> "recordProcessing", upload |-> u])
        <5>1. /\ requests'[r] = [at |-> "recordProcessing", upload |-> u]
              /\ \A q \in Requests : q # r => requests'[q] = requests[q]
          BY <3>3, <4>2, GoKeepsType
        <5>2. HasItsJob(r)
          BY <3>2, <3>4, <4>1, <5>1 DEF HasItsJob, IsQueued
        <5> QED
          BY <5>1, <5>2 DEF HasItsJob
      <4> QED
        BY <1>7, <3>4, <4>2
    <3>9. \A v \in Uploads :
             /\ Settled(v) => Settled(v)'
             /\ images[v] # "none" => images'[v] # "none"
             /\ IsQueued(v) => IsQueued(v)' \/ Settled(v)'
             /\ IsQueued(v)' => IsQueued(v) \/ images'[v] # "none"
             /\ images'[v] = "processing" => images[v] = "processing" \/ IsQueued(v)
      BY <3>2, <3>4, <3>5 DEF Settled
    <3> QED
      BY <3>7, <3>8, <3>9, JobsFrame
  <2> QED
    BY <1>8, <2>1
<1>13. CASE RecordProcessing(r)
  <2>1. CASE ~Refuse(r)
    <3> DEFINE u == requests[r].upload
    <3>1. /\ HasRow(u) /\ images' = [images EXCEPT ![u] = "processing"]
          /\ Finish(r) /\ UNCHANGED queue
      BY <1>13, <2>1 DEF RecordProcessing
    <3>2. u \in Uploads /\ (IsQueued(u) \/ Settled(u))
      BY <1>13, UploadSlot DEF RecordProcessing, JobInv, Completing
    <3>3. ~Settled(u)
      BY <1>13, <3>1 DEF RecordProcessing, WorkerNeverAhead, Settled, HasRow, ImageStatuses
    <3>4. \A v \in Uploads :
             /\ Settled(v) => Settled(v)'
             /\ images[v] # "none" => images'[v] # "none"
             /\ images'[v] = "processing" => images[v] = "processing" \/ IsQueued(v)
      BY <1>1, <3>1, <3>2, <3>3 DEF Settled
    <3> QED
      BY <1>4, <1>7, <3>1, <3>4
  <2> QED
    BY <1>8, <2>1
<1>14. CASE ListUploads(r)
  <2>1. [at |-> "deleteItem", uploads |-> {u \in Uploads : HasRow(u)}] \in Slot
    BY DEF Slot
  <2>2. \A q \in Requests : HasItsJob(q)
    BY <1>6, <1>14, <2>1 DEF ListUploads, Completing
  <2> QED
    BY <1>4, <1>5, <1>14, <2>2 DEF ListUploads, stored
<1>15. CASE DeleteItem(r)
  <2>1. CASE ~Refuse(r)
    <3>1. /\ images' = [u \in Uploads |-> IF HasRow(u) THEN "deleted" ELSE images[u]]
          /\ Finish(r) \/ Go(r, [requests[r] EXCEPT !.at = "deletePending"])
          /\ UNCHANGED queue
      BY <1>15, <2>1 DEF DeleteItem
    <3>2. [requests[r] EXCEPT !.at = "deletePending"] \in Slot
      <4>1. requests[r] \in [at : {"deleteItem", "deletePending", "deletePhotos"},
                             uploads : SUBSET Uploads]
        BY <1>15, UploadSlot DEF DeleteItem
      <4> QED
        BY <4>1 DEF Slot
    <3>3. [requests[r] EXCEPT !.at = "deletePending"].at = "deletePending"
      <4>1. requests[r] \in [at : {"deleteItem", "deletePending", "deletePhotos"},
                             uploads : SUBSET Uploads]
        BY <1>15, UploadSlot DEF DeleteItem
      <4> QED
        BY <4>1
    <3>4. \A q \in Requests : HasItsJob(q)
      BY <1>6, <1>7, <3>1, <3>2, <3>3 DEF Completing
    <3>5. \A v \in Uploads :
             /\ Settled(v) => Settled(v)'
             /\ images[v] # "none" => images'[v] # "none"
             /\ images'[v] = "processing" => images[v] = "processing" \/ IsQueued(v)
      BY <1>1, <3>1 DEF Settled, Finished
    <3> QED
      BY <1>4, <3>1, <3>4, <3>5
  <2> QED
    BY <1>8, <2>1
<1>16. CASE DeletePending(r)
  <2>1. \/ Finish(r)
        \/ Go(r, [requests[r] EXCEPT !.at = "deletePhotos"])
    BY <1>16 DEF DeletePending
  <2>2. requests[r] \in [at : {"deleteItem", "deletePending", "deletePhotos"},
                         uploads : SUBSET Uploads]
    BY <1>16, UploadSlot DEF DeletePending
  <2>3. /\ [requests[r] EXCEPT !.at = "deletePhotos"] \in Slot
        /\ [requests[r] EXCEPT !.at = "deletePhotos"].at = "deletePhotos"
    BY <2>2 DEF Slot
  <2>4. \A q \in Requests : HasItsJob(q)
    BY <1>6, <1>7, <2>1, <2>3 DEF Completing
  <2> QED
    BY <1>4, <1>5, <1>16, <2>4 DEF DeletePending
<1>17. CASE DeletePhotos(r)
  BY <1>4, <1>5, <1>7, <1>17 DEF DeletePhotos
<1> QED
  BY <1>9, <1>10, <1>11, <1>12, <1>13, <1>14, <1>15, <1>16, <1>17 DEF Continue

\* The worker acknowledges a job when it is done with the upload.
LEMMA WorkerKeepsJobs ==
    ASSUME TypeOK, JobInv, Work \/ StopWorker \/ StartWorker
    PROVE  JobInv'
<1>1. images \in [Uploads -> ImageStatuses \cup {"none", "deleted"}]
  BY DEF TypeOK
<1>2. worker.at \notin {"down", "idle"} => queue # <<>> /\ Job \in Uploads
  BY JobIsUpload DEF TypeOK, IsBusy
<1>3. \A q \in Requests : HasItsJob(q)
  BY DEF Work, TakeJob, ReadUpload, MarkRejected, WritePhoto, ReadReplaced, MarkReady,
         DropReplaced, DropPending, Ack, StopWorker, StartWorker, HasItsJob
<1>4. \A u \in Uploads :
         /\ Settled(u) => Settled(u)'
         /\ images[u] # "none" => images'[u] # "none"
         /\ images'[u] = "processing" => images[u] = "processing"
  <2>1. CASE UNCHANGED images
    BY <2>1 DEF Settled
  <2>2. CASE MarkRejected
    BY <1>1, <2>2 DEF MarkRejected, Settled, Finished
  <2>3. CASE MarkReady
    BY <1>1, <2>3 DEF MarkReady, Settled, Finished
  <2> QED
    BY <2>1, <2>2, <2>3 DEF Work, TakeJob, ReadUpload, WritePhoto, ReadReplaced,
       DropReplaced, DropPending, Ack, StopWorker, StartWorker, stored
<1>5. CASE Ack
  <2>1. queue # <<>> /\ Job \in Uploads /\ queue' = Tail(queue) /\ worker'.at = "idle"
    BY <1>2, <1>5 DEF Ack, Now
  <2>2. Settled(Job)
    BY <1>5 DEF Ack, JobInv
  <2>3. \A u \in Uploads : /\ IsQueued(u)' => IsQueued(u)
                           /\ IsQueued(u) => IsQueued(u)' \/ u = Job
    BY <2>1, QueueTaken
  <2>4. \A u \in Uploads : /\ IsQueued(u) => IsQueued(u)' \/ Settled(u)'
                           /\ IsQueued(u)' => IsQueued(u) \/ images'[u] # "none"
    BY <1>4, <2>2, <2>3
  <2> QED
    BY <1>3, <1>4, <2>1, <2>4, JobsFrame
<1>6. CASE UNCHANGED queue
  <2>1. Job' = Job /\ \A u \in Uploads : IsQueued(u)' <=> IsQueued(u)
    BY <1>6 DEF Job, IsQueued
  <2>2. worker'.at \in {"dropReplaced", "dropPending", "ack"} => Settled(Job)'
    <3>1. Job \in Uploads /\ Settled(Job) => Settled(Job)'
      BY <1>4, <2>1 DEF Settled
    <3>2. CASE TakeJob
      <4>1. Job \in Uploads
        BY <3>2, JobIsUpload DEF TakeJob
      <4>2. worker'.at = "ack" => images[Job] = "none" \/ Settled(Job)
        BY <1>1, <3>2, <4>1 DEF TakeJob, Now, Settled, HasRow
      <4>3. images[Job] # "none"
        <5>1. 1 \in DOMAIN queue /\ queue[1] = Job
          BY <3>2, EmptySeq, LenProperties DEF TakeJob, TypeOK, Job
        <5> QED
          BY <4>1, <5>1 DEF IsQueued, JobInv
      <4> QED
        BY <3>1, <3>2, <4>1, <4>2, <4>3 DEF TakeJob, Now
    <3>3. CASE MarkRejected
      <4>1. Job \in Uploads
        BY <1>2, <3>3 DEF MarkRejected
      <4> QED
        BY <1>1, <2>1, <3>3, <4>1 DEF MarkRejected, Now, Settled, Finished
    <3>4. CASE MarkReady
      <4>1. Job \in Uploads
        BY <1>2, <3>4 DEF MarkReady
      <4>2. CASE HasRow(Job)
        <5>1. images' = [u \in Uploads |-> CASE u = Job -> "ready"
                                              [] u \in worker.old -> "deleted"
                                              [] OTHER -> images[u]]
          BY <3>4, <4>2 DEF MarkReady
        <5>2. images'[Job] \in {"ready", "deleted"}
          BY <4>1, <5>1
        <5> QED
          BY <2>1, <5>2 DEF Settled, Finished
      <4>3. CASE ~HasRow(Job)
        BY <3>4, <4>3 DEF MarkReady, Now
      <4> QED
        BY <4>2, <4>3
    <3>5. CASE DropReplaced \/ DropPending
      <4>1. Job \in Uploads /\ Settled(Job)
        BY <1>2, <3>5 DEF DropReplaced, DropPending, JobInv
      <4> QED
        BY <3>1, <4>1
    <3>6. CASE ReadUpload \/ WritePhoto \/ ReadReplaced \/ StopWorker \/ StartWorker \/ Ack
      BY <3>6 DEF ReadUpload, WritePhoto, ReadReplaced, StopWorker, StartWorker, Ack, Now
    <3> QED
      BY <3>2, <3>3, <3>4, <3>5, <3>6 DEF Work
  <2> QED
    BY <1>3, <1>4, <2>1, <2>2, JobsFrame
<1> QED
  BY <1>5, <1>6 DEF Work, TakeJob, ReadUpload, MarkRejected, WritePhoto, ReadReplaced,
     MarkReady, DropReplaced, DropPending, StopWorker, StartWorker

LEMMA JobsStep ==
    ASSUME TypeOK, JobInv, WorkerNeverAhead, [Next]_vars
    PROVE  JobInv'
<1>1. CASE ReturnItem \/ \E u \in Uploads, bytes \in {"good", "bad"} : Put(u, bytes)
  BY <1>1 DEF ReturnItem, Put, JobInv, ProcessingHasJob, IsQueued, Settled, Job
<1>2. CASE UNCHANGED vars
  BY <1>2 DEF vars, JobInv, ProcessingHasJob, IsQueued, Settled, Job
<1> QED
  BY <1>1, <1>2, RequestsKeepJobs, WorkerKeepsJobs DEF Next

\* As long as the worker is never done with an upload before the request that queued
\* it has written "processing", an upload in processing has its job on the queue.
THEOREM ImagesProcessingHasJob == Spec => ProcessingHasJobUnlessAhead
<1>1. Init => JobInv
  BY DEF Init, JobInv, ProcessingHasJob, IsQueued, Completing, Idle
<1>2. TypeOK /\ JobInv /\ WorkerNeverAhead /\ [Next]_vars => JobInv'
  BY JobsStep
<1>3. JobInv => ProcessingHasJob
  BY DEF JobInv
<1> QED
  BY <1>1, <1>2, <1>3, ImagesTypeCorrect, PTL DEF Spec, ProcessingHasJobUnlessAhead

\* So that overtaking is the only way to a photo that stays in processing: without it,
\* and if every job is acknowledged or the worker stops, no photo does.
THEOREM ImagesStuckIsOvertaken ==
    Spec /\ []WorkerNeverAhead /\ JobsAreDone => ProcessingEnds
<1>1. ASSUME NEW u \in Uploads
      PROVE  Spec /\ []WorkerNeverAhead /\ JobsAreDone => ProcessingOfEnds(u)
  <2>1. ProcessingHasJob => images[u] # "processing" \/ IsQueued(u)
    BY DEF ProcessingHasJob
  <2>2. JobsAreDone => JobIsDone(u)
    BY DEF JobsAreDone
  <2>3. images[u] # "processing" <=> ~(images[u] = "processing")
    OBVIOUS
  <2> QED
    BY <2>1, <2>2, <2>3, ImagesProcessingHasJob, PTL
       DEF ProcessingHasJobUnlessAhead, JobIsDone, ProcessingOfEnds
<1> QED
  BY <1>1 DEF ProcessingEnds

-----------------------------------------------------------------------------
(* The photos nobody will show *)

Undecided == {"readUpload", "reject", "writePhoto", "readReplaced", "markReady"}

\* Only the worker finishes an upload, so what it read when it took its job, that the
\* row is not finished, stays true until it finishes it.
UnfinishedJob == worker.at \in Undecided => images[Job] \notin Finished

ExtraInv == PhotoInv /\ UnfinishedJob /\ NoExtraPhotos

\* A step of the API or the client that takes no row out of "ready", finishes no upload
\* and writes no photo.
LEMMA QuietStep ==
    ASSUME ExtraInv, worker' = worker, queue # <<>> => Job' = Job,
           item' # "deleted" => item # "deleted" /\ ReadyRows \subseteq ReadyRows',
           photos' \subseteq photos,
           \A u \in Uploads : images'[u] \in Finished => images[u] \in Finished
    PROVE  UnfinishedJob' /\ NoExtraPhotos'
<1>1. worker.at \notin {"down", "idle"} => Job' = Job /\ Job \in Uploads
  BY JobIsUpload DEF ExtraInv, PhotoInv, TypeOK, IsBusy
<1>2. UnfinishedJob'
  BY <1>1 DEF ExtraInv, UnfinishedJob, Undecided
<1>3. InHand' = InHand
  BY <1>1 DEF InHand
<1>4. NoExtraPhotos'
  BY <1>3 DEF ExtraInv, NoExtraPhotos
<1> QED
  BY <1>2, <1>4

LEMMA RequestLeavesNoPhoto ==
    ASSUME ExtraInv, WorkerNeverAhead, NEW r \in Requests, Begin(r) \/ Continue(r)
    PROVE  UnfinishedJob' /\ NoExtraPhotos'
<1>1. TypeOK /\ DeletedInv
  BY DEF ExtraInv, PhotoInv
<1>2. images \in [Uploads -> ImageStatuses \cup {"none", "deleted"}]
  BY <1>1 DEF TypeOK
<1>3. ASSUME UNCHANGED <<item, images, photos, queue, worker>>
      PROVE  UnfinishedJob' /\ NoExtraPhotos'
  BY <1>3, QuietStep DEF ExtraInv, NoExtraPhotos, ReadyRows, Job
<1>4. Refuse(r) => UnfinishedJob' /\ NoExtraPhotos'
  BY <1>3 DEF Refuse, stored
<1>5. CASE Begin(r)
  BY <1>3, <1>5 DEF Begin, BeginStartUpload, BeginComplete, BeginDeleteItem, stored
<1>6. CASE InsertImage(r) \/ RecordProcessing(r)
  <2>1. CASE ~Refuse(r)
    <3>1. PICK u \in Uploads, s \in {"awaiting_upload", "processing"} :
             /\ images[u] \notin Finished /\ images' = [images EXCEPT ![u] = s]
             /\ UNCHANGED <<item, photos, queue, worker>>
      <4>1. CASE InsertImage(r)
        BY <2>1, <4>1 DEF InsertImage, Finished
      <4>2. CASE RecordProcessing(r)
        BY <1>1, <2>1, <4>2, UploadSlot DEF RecordProcessing, WorkerNeverAhead
      <4> QED
        BY <1>6, <4>1, <4>2
    <3>2. ReadyRows' = ReadyRows
      BY <1>2, <3>1 DEF ReadyRows, Finished
    <3>3. \A v \in Uploads : images'[v] \in Finished => images[v] \in Finished
      BY <1>2, <3>1 DEF Finished
    <3> QED
      BY <3>1, <3>2, <3>3, QuietStep DEF Job
  <2> QED
    BY <1>4, <2>1
<1>7. CASE CheckUpload(r) \/ ListUploads(r) \/ DeletePending(r)
  BY <1>3, <1>4, <1>7 DEF CheckUpload, ListUploads, DeletePending, stored
<1>8. CASE PublishJob(r)
  <2>1. CASE ~Refuse(r)
    <3>1. queue' = Append(queue, requests[r].upload) /\ UNCHANGED <<stored, worker>>
      BY <1>8, <2>1 DEF PublishJob
    <3>2. requests[r].upload \in Uploads
      BY <1>1, <1>8, UploadSlot DEF PublishJob
    <3>3. queue # <<>> => Job' = Job
      BY <1>1, <3>1, <3>2, PublishKeepsJob
    <3> QED
      BY <3>1, <3>3, QuietStep DEF stored, ReadyRows
  <2> QED
    BY <1>4, <2>1
<1>9. CASE DeleteItem(r)
  <2>1. CASE ~Refuse(r)
    <3>1. /\ item' = "deleted" /\ UNCHANGED <<photos, queue, worker>>
          /\ images' = [u \in Uploads |-> IF HasRow(u) THEN "deleted" ELSE images[u]]
      BY <1>9, <2>1 DEF DeleteItem
    <3>2. \A v \in Uploads : images'[v] \in Finished => images[v] \in Finished
      BY <3>1 DEF Finished
    <3> QED
      BY <3>1, <3>2, QuietStep DEF Job
  <2> QED
    BY <1>4, <2>1
<1>10. CASE DeletePhotos(r)
  <2>1. /\ item' = "deleted" /\ UNCHANGED <<images, queue, worker>>
        /\ photos' \subseteq photos
    BY <1>1, <1>10 DEF DeletePhotos, DeletedInv
  <2> QED
    BY <2>1, QuietStep DEF Job
<1> QED
  BY <1>5, <1>6, <1>7, <1>8, <1>9, <1>10 DEF Continue

\* A photo the worker writes is in its hand until its row is ready, and so are the
\* photos that row replaces, until they are deleted.
LEMMA WorkerLeavesNoPhoto ==
    ASSUME ExtraInv, TypeOK', StopsLeaveNothing', Work \/ StopWorker \/ StartWorker
    PROVE  UnfinishedJob' /\ NoExtraPhotos'
<1>1. /\ images \in [Uploads -> ImageStatuses \cup {"none", "deleted"}]
      /\ worker = [at |-> worker.at, old |-> worker.old]
      /\ WorkerInv /\ UnfinishedJob /\ NoExtraPhotos
  BY DEF ExtraInv, PhotoInv, TypeOK
<1>2. worker.at \notin {"down", "idle"} => queue # <<>> /\ Job \in Uploads
  BY JobIsUpload DEF ExtraInv, PhotoInv, TypeOK, IsBusy
<1>3. worker'.at = "down" => UnfinishedJob' /\ NoExtraPhotos'
  BY DEF StopsLeaveNothing, UnfinishedJob, Undecided
<1>4. item' = item
  BY DEF Work, TakeJob, ReadUpload, MarkRejected, WritePhoto, ReadReplaced, MarkReady,
         DropReplaced, DropPending, Ack, StopWorker, StartWorker, stored
<1>5. CASE TakeJob \/ ReadUpload \/ DropPending \/ Ack \/ StartWorker
  <2>1. UNCHANGED <<images, photos>>
    BY <1>5 DEF TakeJob, ReadUpload, DropPending, Ack, StartWorker, stored
  <2>2. InHand = {} /\ InHand' = {}
    BY <1>5 DEF TakeJob, ReadUpload, DropPending, Ack, StartWorker, Now, InHand
  <2>3. NoExtraPhotos'
    BY <1>1, <1>4, <2>1, <2>2 DEF NoExtraPhotos, ReadyRows
  <2>4. UnfinishedJob'
    BY <1>1, <1>5 DEF TakeJob, ReadUpload, DropPending, Ack, StartWorker, Now, stored,
                      UnfinishedJob, Undecided, Job
  <2> QED
    BY <2>3, <2>4
<1>6. CASE MarkRejected
  <2>1. CASE HasRow(Job)
    <3>1. /\ images' = [images EXCEPT ![Job] = "rejected"] /\ photos' = photos
          /\ worker'.at = "dropPending"
      BY <1>6, <2>1 DEF MarkRejected, Now
    <3>2. images[Job] \notin Finished /\ InHand = {} /\ InHand' = {}
      BY <1>1, <1>6, <3>1 DEF MarkRejected, UnfinishedJob, Undecided, InHand
    <3>3. ReadyRows' = ReadyRows
      BY <1>1, <3>1, <3>2 DEF ReadyRows, Finished
    <3> QED
      BY <1>1, <1>4, <3>1, <3>2, <3>3 DEF NoExtraPhotos, UnfinishedJob, Undecided
  <2> QED
    BY <1>3, <1>6, <2>1 DEF MarkRejected, Now
<1>7. CASE WritePhoto \/ ReadReplaced
  <2>1. /\ photos' \subseteq photos \cup {Job} /\ UNCHANGED <<images, queue>>
        /\ worker'.at \in {"readReplaced", "markReady"}
        /\ worker.at \in {"writePhoto", "readReplaced"}
    BY <1>7 DEF WritePhoto, ReadReplaced, Now, stored
  <2>2. Job' = Job /\ Job \in Uploads /\ ReadyRows' = ReadyRows
    BY <1>2, <2>1 DEF Job, ReadyRows
  <2>3. InHand \subseteq {Job} /\ InHand' = {Job}
    BY <2>1, <2>2 DEF InHand
  <2> QED
    BY <1>1, <1>4, <2>1, <2>2, <2>3 DEF NoExtraPhotos, UnfinishedJob, Undecided
<1>8. CASE MarkReady
  <2>1. CASE HasRow(Job)
    <3>1. /\ images' = [u \in Uploads |-> CASE u = Job -> "ready"
                                            [] u \in worker.old -> "deleted"
                                            [] OTHER -> images[u]]
          /\ worker' = [worker EXCEPT !.at = "dropReplaced"] /\ photos' = photos
          /\ worker.at = "markReady"
      BY <1>8, <2>1 DEF MarkReady
    <3>2. worker'.at = "dropReplaced" /\ worker'.old = worker.old
      BY <1>1, <3>1
    <3>3. /\ Job \in Uploads /\ InHand = {Job}
          /\ ReadyRows \ {Job} \subseteq worker.old /\ Job \notin worker.old
      BY <1>1, <1>2, <3>1 DEF InHand, WorkerInv
    <3>4. Job \in ReadyRows' /\ ReadyRows \ {Job} \subseteq InHand'
      <4>1. images'[Job] = "ready"
        BY <3>1, <3>3
      <4>2. \A u \in Uploads : u \in worker.old => u \in InHand'
        BY <3>2 DEF InHand
      <4> QED
        BY <3>3, <4>1, <4>2 DEF ReadyRows
    <3> QED
      BY <1>1, <1>4, <3>1, <3>2, <3>3, <3>4 DEF NoExtraPhotos, UnfinishedJob, Undecided
  <2> QED
    BY <1>3, <1>8, <2>1 DEF MarkReady, Now
<1>9. CASE DropReplaced
  <2>1. /\ photos' = photos \ worker.old /\ images' = images
        /\ worker.at = "dropReplaced" /\ worker'.at = "dropPending"
    BY <1>9 DEF DropReplaced, Now
  <2>2. InHand \subseteq worker.old /\ InHand' = {} /\ ReadyRows' = ReadyRows
    BY <2>1 DEF InHand, ReadyRows
  <2> QED
    BY <1>1, <1>4, <2>1, <2>2 DEF NoExtraPhotos, UnfinishedJob, Undecided
<1>10. CASE StopWorker
  BY <1>3, <1>10 DEF StopWorker, Now
<1> QED
  BY <1>5, <1>6, <1>7, <1>8, <1>9, <1>10 DEF Work

LEMMA ExtraStep ==
    ASSUME ExtraInv, WorkerNeverAhead, StopsLeaveNothing', [Next]_vars
    PROVE  ExtraInv'
<1>1. PhotoInv' /\ TypeOK'
  BY PhotoStep DEF ExtraInv, PhotoInv
<1>2. CASE \/ ReturnItem \/ UNCHANGED vars
           \/ \E u \in Uploads, bytes \in {"good", "bad"} : Put(u, bytes)
  <2>1. /\ UNCHANGED <<images, photos, queue, worker>>
        /\ item' # "deleted" => item # "deleted"
    BY <1>2 DEF ReturnItem, Put, vars
  <2>2. UnfinishedJob' /\ NoExtraPhotos'
    BY <2>1, QuietStep DEF ReadyRows, Job
  <2> QED
    BY <1>1, <2>2 DEF ExtraInv
<1> QED
  BY <1>1, <1>2, RequestLeavesNoPhoto, WorkerLeavesNoPhoto DEF Next, ExtraInv

\* As long as the worker overtakes no request and leaves no photo behind when it stops,
\* nobody does: whatever is completed twice, redelivered, replaced or refused, each
\* photo of a post that is there is the one it shows or is in the worker's hand.
THEOREM ImagesNoExtraPhotos == Spec => NoExtraPhotosUnlessStopped
<1>1. Init => ExtraInv
  <2>1. Init => TypeOK
    BY EmptySeq DEF Init, TypeOK, IsBusy, Slot, Idle
  <2> QED
    BY <2>1 DEF Init, ExtraInv, PhotoInv, ReadyHasPhoto, OnePhoto, WorkerInv, DeletedInv,
                ReadyRows, HasRow, ImageStatuses, Idle, UnfinishedJob, Undecided,
                NoExtraPhotos
<1>2. ExtraInv /\ WorkerNeverAhead /\ StopsLeaveNothing' /\ [Next]_vars => ExtraInv'
  BY ExtraStep
<1>3. ExtraInv => NoExtraPhotos
  BY DEF ExtraInv
<1> QED
  BY <1>1, <1>2, <1>3, PTL DEF Spec, NoExtraPhotosUnlessStopped

=============================================================================
