----------------------------- MODULE FileStore -----------------------------
(***************************************************************************)
(* Proof-of-ownership files: POST /files, POST /files/batch and DELETE     *)
(* /files/{id}.  An upload writes its objects to the store one by one,     *)
(* commits its rows in one transaction, reads each row back, and on any    *)
(* exception deletes every object it wrote.  A delete commits first and    *)
(* then deletes the object.                                                *)
(*                                                                         *)
(* The store, Postgres and the API itself may fail at every step.  The     *)
(* checks of size and type come before anything is written and leave       *)
(* nothing behind, so a refused upload is not modelled.  A file is its     *)
(* key: uuid4 makes it unique, and one row and one object carry it.        *)
(***************************************************************************)
EXTENDS Naturals, FiniteSets

CONSTANTS
    Keys,          \* object keys, one per uploaded file
    Requests,      \* slots for API requests in progress
    MaxFiles,      \* most files in one batch
    AnswersGetLost \* may Postgres be cut off between a commit and what follows?

ASSUME FileStoreAssumption ==
    /\ MaxFiles \in Nat \ {0}
    /\ AnswersGetLost \in BOOLEAN

VARIABLES
    batches,   \* the uploads so far, each the set of its keys
    rows,      \* keys with a row in table files
    objects,   \* keys with an object in the store
    leftovers, \* keys whose clean-up was cut short: the store or the API failed
    requests   \* slot -> the request running in it

vars == <<batches, rows, objects, leftovers, requests>>

\* Keys handed out so far.
used == UNION batches

Idle == [at |-> "idle"]

\* batch: the keys of the request; rest: those the current loop has left.
Slot ==
    {Idle}
      \cup [at : {"write", "commit", "readBack", "discard"},
            batch : SUBSET Keys, rest : SUBSET Keys]
      \cup [at : {"deleteRow", "deleteObject"}, key : Keys]

\* What the program can hold.
TypeOK ==
    /\ batches \subseteq SUBSET Keys
    /\ rows \subseteq used
    /\ objects \subseteq used
    /\ leftovers \subseteq used
    /\ requests \in [Requests -> Slot]

Init ==
    /\ batches = {}
    /\ rows = {}
    /\ objects = {}
    /\ leftovers = {}
    /\ requests = [r \in Requests |-> Idle]

Go(r, slot) == requests' = [requests EXCEPT ![r] = slot]
Finish(r) == Go(r, Idle)

-----------------------------------------------------------------------------
(* POST /files and /files/batch: save *)

\* Mutant: the key is the client's filename.
UploadByName(r, batch) ==
    /\ requests[r] = Idle
    /\ batch # {} /\ Cardinality(batch) <= MaxFiles
    /\ Go(r, [at |-> "write", batch |-> {}, rest |-> batch])
    /\ UNCHANGED <<batches, rows, objects, leftovers>>

BeginUpload(r, batch) ==
    /\ requests[r] = Idle
    /\ batch # {} /\ Cardinality(batch) <= MaxFiles
    /\ batch \cap used = {}
    /\ batches' = batches \cup {batch}
    /\ Go(r, [at |-> "write", batch |-> {}, rest |-> batch])
    /\ UNCHANGED <<rows, objects, leftovers>>

\* An exception: whatever was written is to be discarded.
Fail(r) ==
    Go(r, [at |-> "discard", batch |-> requests[r].batch,
           rest |-> requests[r].batch])

\* A PUT that fails has not written, or it has and only the answer is lost:
\* then no list of keys knows of the object.
WriteObject(r) ==
    /\ requests[r].at = "write"
    /\ \E k \in requests[r].rest :
          \/ /\ objects' = objects \cup {k}
             /\ LET batch == requests[r].batch \cup {k}
                    rest == requests[r].rest \ {k}
                IN  IF rest = {}
                    THEN Go(r, [at |-> "commit", batch |-> batch, rest |-> {}])
                    ELSE Go(r, [at |-> "write", batch |-> batch, rest |-> rest])
             /\ UNCHANGED leftovers
          \/ /\ Fail(r)
             /\ UNCHANGED <<objects, leftovers>>
          \/ /\ objects' = objects \cup {k}
             /\ leftovers' = leftovers \cup {k}
             /\ Fail(r)
    /\ UNCHANGED <<batches, rows>>

\* One transaction for the whole batch.  One that is committed looks failed
\* when its answer is lost.
CommitRows(r) ==
    /\ requests[r].at = "commit"
    /\ LET batch == requests[r].batch IN
          \/ /\ rows' = rows \cup batch
             /\ \E next \in {"readBack"} \cup (IF AnswersGetLost THEN {"discard"}
                                             ELSE {}) :
                   Go(r, [at |-> next, batch |-> batch, rest |-> batch])
          \/ /\ Fail(r)
             /\ UNCHANGED rows
    /\ UNCHANGED <<batches, objects, leftovers>>

\* crud.add_files refreshes each row, which raises if the row is gone by now.
\* The exception leads to the same handler as a failed commit.
ReadBack(r) ==
    /\ requests[r].at = "readBack"
    /\ \E k \in requests[r].rest :
          \/ /\ k \in rows
             /\ IF requests[r].rest = {k}
                THEN Finish(r)
                ELSE Go(r, [requests[r] EXCEPT !.rest = @ \ {k}])
          \/ /\ k \notin rows \/ AnswersGetLost
             /\ Fail(r)
    /\ UNCHANGED <<batches, rows, objects, leftovers>>

\* Mutant: the first key the store refuses to delete ends the loop.
DiscardUntilRefused(r) ==
    /\ requests[r].at = "discard"
    /\ IF requests[r].rest = {}
       THEN Finish(r) /\ UNCHANGED <<objects, leftovers>>
       ELSE \E k \in requests[r].rest :
               \/ /\ Go(r, [requests[r] EXCEPT !.rest = @ \ {k}])
                  /\ objects' = objects \ {k}
                  /\ UNCHANGED leftovers
               \/ /\ Finish(r)
                  /\ leftovers' = leftovers \cup {k}
                  /\ UNCHANGED objects
    /\ UNCHANGED <<batches, rows>>

\* Each key is tried; one the store refuses to delete is logged and left.
DiscardObjects(r) ==
    /\ requests[r].at = "discard"
    /\ IF requests[r].rest = {}
       THEN Finish(r) /\ UNCHANGED <<objects, leftovers>>
       ELSE \E k \in requests[r].rest :
               /\ Go(r, [requests[r] EXCEPT !.rest = @ \ {k}])
               /\ \/ /\ objects' = objects \ {k}
                     /\ UNCHANGED leftovers
                  \/ /\ leftovers' = leftovers \cup {k}
                     /\ UNCHANGED objects
    /\ UNCHANGED <<batches, rows>>

-----------------------------------------------------------------------------
(* DELETE /files/{id} *)

BeginDelete(r, k) ==
    /\ requests[r] = Idle
    /\ k \in rows
    /\ Go(r, [at |-> "deleteRow", key |-> k])
    /\ UNCHANGED <<batches, rows, objects, leftovers>>

\* Mutant: the object goes before the row.
DeleteObjectFirst(r) ==
    /\ requests[r].at = "deleteRow"
    /\ objects' = objects \ {requests[r].key}
    /\ \/ /\ rows' = rows \ {requests[r].key}
          /\ Go(r, [requests[r] EXCEPT !.at = "deleteObject"])
       \/ /\ Finish(r)
          /\ UNCHANGED rows
    /\ UNCHANGED <<batches, leftovers>>

\* The commit; a row that is gone already is only a warning.  A failure here
\* answers with an error and deletes nothing (or it deletes the row and the
\* answer is lost, which is this step and then a crash).
DeleteRow(r) ==
    /\ requests[r].at = "deleteRow"
    /\ \/ /\ rows' = rows \ {requests[r].key}
          /\ Go(r, [requests[r] EXCEPT !.at = "deleteObject"])
       \/ /\ Finish(r)
          /\ UNCHANGED rows
    /\ UNCHANGED <<batches, objects, leftovers>>

DeleteObject(r) ==
    /\ requests[r].at = "deleteObject"
    /\ LET k == requests[r].key IN
          \/ /\ objects' = objects \ {k}
             /\ UNCHANGED leftovers
          \/ /\ leftovers' = leftovers \cup {k}
             /\ UNCHANGED objects
    /\ Finish(r)
    /\ UNCHANGED <<batches, rows>>

-----------------------------------------------------------------------------
\* The objects only request r knows to be without a row.
Held(r) ==
    CASE requests[r].at \in {"write", "commit"} -> requests[r].batch
      [] requests[r].at = "discard" -> requests[r].rest
      [] requests[r].at = "deleteObject" -> {requests[r].key}
      [] OTHER -> {}

\* The API's process dies under request r, and nobody takes its objects over.
Crash(r) ==
    /\ requests[r] # Idle
    /\ leftovers' = leftovers \cup Held(r)
    /\ Finish(r)
    /\ UNCHANGED <<batches, rows, objects>>

Begin(r) ==
    \/ \E batch \in SUBSET Keys : BeginUpload(r, batch)
    \/ \E k \in rows : BeginDelete(r, k)

Continue(r) ==
    \/ WriteObject(r) \/ CommitRows(r) \/ ReadBack(r) \/ DiscardObjects(r)
    \/ DeleteRow(r) \/ DeleteObject(r)

Next == \E r \in Requests : Begin(r) \/ Continue(r) \/ Crash(r)

Spec == Init /\ [][Next]_vars

-----------------------------------------------------------------------------
\* As long as the database answers, a row points at nothing only beside a
\* deleted row of the same upload.  So an upload of one file never leaves one,
\* however it overlaps with the delete of that file and wherever it fails.
WholeBatchesHaveObjects == \A b \in batches : b \subseteq rows => b \subseteq objects

\* routers/files.py: if something fails partway we end up with an extra object
\* and not a row pointing at nothing.
RowsHaveObjects == rows \subseteq objects

\* No delete has begun on a file whose upload is still reading its rows back.
DeletesWait ==
    \A r, q \in Requests :
        requests[r].at = "deleteRow" /\ requests[q].at = "readBack" =>
            requests[r].key \notin requests[q].batch

\* And that is the only cause there is while the database answers: rows always have
\* their objects, whatever else fails, if deletes wait for the answer to the upload.
\* (A commit whose answer is lost leaves rows that save takes for refused.)
RowsHaveObjectsIfDeletesWait == []DeletesWait => []RowsHaveObjects

\* An extra object has a cause: some request is still busy with it, or a store
\* or API failure cut its clean-up short.  Overlapping uploads and deletes of
\* the same files never lose track of one.
ExtraObjectsHaveACause ==
    objects \ rows \subseteq leftovers \cup UNION {Held(r) : r \in Requests}

=============================================================================
