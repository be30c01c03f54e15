-------------------------- MODULE FileStoreProofs --------------------------
(***************************************************************************)
(* For any number of keys, batches and overlapping requests: extra objects *)
(* always have a cause, and, as long as the database answers, a batch with *)
(* all its rows has all its objects.  Every row has its object unless some *)
(* delete overtakes the upload it is about.                                *)
(***************************************************************************)
EXTENDS FileStore, TLAPS

-----------------------------------------------------------------------------
(* Types *)

\* A loop goes on with fewer keys, a delete with its object.
LEMMA NextRest ==
    ASSUME TypeOK, NEW r \in Requests, NEW rest,
           NEW at \in {"write", "commit", "readBack", "discard"},
           requests[r].at = at
    PROVE  [requests[r] EXCEPT !.rest = rest] =
              [at |-> at, batch |-> requests[r].batch, rest |-> rest]
<1>1. requests[r] \in [at : {"write", "commit", "readBack", "discard"},
                       batch : SUBSET Keys, rest : SUBSET Keys]
  BY DEF TypeOK, Slot, Idle
<1> QED
  BY <1>1

LEMMA NextAt ==
    ASSUME TypeOK, NEW r \in Requests, requests[r].at = "deleteRow"
    PROVE  [requests[r] EXCEPT !.at = "deleteObject"] =
              [at |-> "deleteObject", key |-> requests[r].key]
<1>1. requests[r] \in [at : {"deleteRow", "deleteObject"}, key : Keys]
  BY DEF TypeOK, Slot, Idle
<1> QED
  BY <1>1

\* The keys a request holds were handed out: part of the invariant below.
SlotKeys(r) ==
    CASE requests[r].at \in {"write", "commit", "readBack", "discard"} ->
             requests[r].batch \cup requests[r].rest
      [] requests[r].at \in {"deleteRow", "deleteObject"} -> {requests[r].key}
      [] OTHER -> {}

TypeInv ==
    /\ TypeOK
    /\ \A r \in Requests : SlotKeys(r) \subseteq used

\* Request r gets the record slot, whose keys were handed out.
LEMMA MoveKeepsType ==
    ASSUME TypeInv, NEW r \in Requests, NEW slot \in Slot, Go(r, slot),
           batches' \subseteq SUBSET Keys, batches \subseteq batches',
           rows' \subseteq used', objects' \subseteq used', leftovers' \subseteq used',
           slot.at \in {"write", "commit", "readBack", "discard"} =>
              slot.batch \cup slot.rest \subseteq used',
           slot.at \in {"deleteRow", "deleteObject"} => slot.key \in used'
    PROVE  TypeInv'
<1>1. /\ requests' \in [Requests -> Slot]
      /\ requests'[r] = slot
      /\ \A q \in Requests : q # r => requests'[q] = requests[q]
  BY DEF Go, TypeInv, TypeOK
<1>2. used \subseteq used'
  BY DEF used
<1>3. \A q \in Requests : SlotKeys(q)' \subseteq used'
  <2> TAKE q \in Requests
  <2>1. CASE q = r
    BY <1>1, <2>1 DEF SlotKeys
  <2>2. CASE q # r
    BY <1>1, <1>2, <2>2 DEF SlotKeys, TypeInv
  <2> QED
    BY <2>1, <2>2
<1> QED
  BY <1>1, <1>3 DEF TypeInv, TypeOK

LEMMA BatchSlot ==
    ASSUME NEW at \in {"write", "commit", "readBack", "discard"},
           NEW batch \in SUBSET Keys, NEW rest \in SUBSET Keys
    PROVE  [at |-> at, batch |-> batch, rest |-> rest] \in Slot
BY DEF Slot

LEMMA KeySlot ==
    ASSUME NEW at \in {"deleteRow", "deleteObject"}, NEW k \in Keys
    PROVE  [at |-> at, key |-> k] \in Slot
BY DEF Slot

LEMMA IdleSlot == Idle \in Slot /\ Idle.at = "idle"
BY DEF Slot, Idle

LEMMA FinishKeepsType ==
    ASSUME TypeInv, NEW r \in Requests, Finish(r), batches' = batches,
           rows' \subseteq used, objects' \subseteq used, leftovers' \subseteq used
    PROVE  TypeInv'
<1>1. used' = used /\ batches \subseteq SUBSET Keys
  BY DEF used, TypeInv, TypeOK
<1> QED
  BY <1>1, IdleSlot, MoveKeepsType DEF Finish

LEMMA BatchKeepsType ==
    ASSUME TypeInv, NEW r \in Requests, batches' = batches,
           NEW at \in {"write", "commit", "readBack", "discard"},
           NEW batch \in SUBSET used, NEW rest \in SUBSET used,
           Go(r, [at |-> at, batch |-> batch, rest |-> rest]),
           rows' \subseteq used, objects' \subseteq used, leftovers' \subseteq used
    PROVE  TypeInv'
<1>1. used' = used /\ used \subseteq Keys /\ batches \subseteq SUBSET Keys
  BY DEF used, TypeInv, TypeOK
<1>2. [at |-> at, batch |-> batch, rest |-> rest] \in Slot
  BY <1>1, BatchSlot
<1> QED
  BY <1>1, <1>2, MoveKeepsType

LEMMA TypeInvStep == TypeInv /\ [Next]_vars => TypeInv'
<1> SUFFICES ASSUME TypeInv, [Next]_vars
             PROVE  TypeInv'
  OBVIOUS
<1>1. CASE UNCHANGED vars
  BY <1>1 DEF TypeInv, TypeOK, SlotKeys, used, vars
<1>2. ASSUME NEW r \in Requests, Begin(r) \/ Continue(r) \/ Crash(r)
      PROVE  TypeInv'
  <2>1. /\ rows \subseteq used /\ objects \subseteq used /\ leftovers \subseteq used
        /\ batches \subseteq SUBSET Keys /\ used \subseteq Keys
    BY DEF TypeInv, TypeOK, used
  <2>2. /\ requests[r].at \in {"write", "commit", "readBack", "discard"} =>
              requests[r].batch \subseteq used /\ requests[r].rest \subseteq used
        /\ requests[r].at \in {"deleteRow", "deleteObject"} =>
              requests[r].key \in used
    BY DEF TypeInv, SlotKeys
  <2>3. Fail(r) /\ requests[r].at \in {"write", "commit", "readBack"}
          /\ batches' = batches /\ rows' \subseteq used /\ objects' \subseteq used
          /\ leftovers' \subseteq used => TypeInv'
    BY <2>2, BatchKeepsType DEF Fail
  <2>4. ASSUME NEW batch \in SUBSET Keys, BeginUpload(r, batch)
        PROVE  TypeInv'
    <3>1. /\ batches' = batches \cup {batch}
          /\ Go(r, [at |-> "write", batch |-> {}, rest |-> batch])
          /\ UNCHANGED <<rows, objects, leftovers>>
      BY <2>4 DEF BeginUpload
    <3>2. used' = used \cup batch
      BY <3>1 DEF used
    <3>3. [at |-> "write", batch |-> {}, rest |-> batch] \in Slot
      BY BatchSlot
    <3> QED
      BY <2>1, <3>1, <3>2, <3>3, MoveKeepsType
  <2>5. ASSUME NEW k \in rows, BeginDelete(r, k)
        PROVE  TypeInv'
    <3>1. [at |-> "deleteRow", key |-> k] \in Slot
      BY <2>1, KeySlot
    <3>2. used' = used
      BY <2>5 DEF BeginDelete, used
    <3> QED
      BY <2>1, <2>5, <3>1, <3>2, MoveKeepsType DEF BeginDelete
  <2>6. CASE WriteObject(r)
    <3>1. PICK k \in requests[r].rest :
             /\ batches' = batches /\ rows' = rows
             /\ objects' \subseteq objects \cup {k}
             /\ leftovers' \subseteq leftovers \cup {k}
             /\ \/ Fail(r)
                \/ Go(r, [at |-> "commit", batch |-> requests[r].batch \cup {k},
                          rest |-> {}])
                \/ Go(r, [at |-> "write", batch |-> requests[r].batch \cup {k},
                          rest |-> requests[r].rest \ {k}])
      BY <2>6 DEF WriteObject
    <3>2. requests[r].at = "write" /\ k \in used
      BY <2>2, <2>6, <3>1 DEF WriteObject
    <3>3. CASE Fail(r)
      BY <2>1, <2>3, <3>1, <3>2, <3>3
    <3>4. CASE Go(r, [at |-> "commit", batch |-> requests[r].batch \cup {k},
                      rest |-> {}])
      BY <2>1, <2>2, <3>1, <3>2, <3>4, BatchKeepsType
    <3>5. CASE Go(r, [at |-> "write", batch |-> requests[r].batch \cup {k},
                      rest |-> requests[r].rest \ {k}])
      BY <2>1, <2>2, <3>1, <3>2, <3>5, BatchKeepsType
    <3> QED
      BY <3>1, <3>3, <3>4, <3>5
  <2>7. CASE CommitRows(r)
    <3>1. /\ requests[r].at = "commit"
          /\ UNCHANGED <<batches, objects, leftovers>>
          /\ rows' \subseteq rows \cup requests[r].batch
          /\ \/ Fail(r)
             \/ \E next \in {"readBack", "discard"} :
                   Go(r, [at |-> next, batch |-> requests[r].batch,
                          rest |-> requests[r].batch])
      BY <2>7 DEF CommitRows
    <3>2. CASE Fail(r)
      BY <2>1, <2>2, <2>3, <3>1, <3>2
    <3>3. ASSUME NEW next \in {"readBack", "discard"},
                 Go(r, [at |-> next, batch |-> requests[r].batch,
                        rest |-> requests[r].batch])
          PROVE  TypeInv'
      BY <2>1, <2>2, <3>1, <3>3, BatchKeepsType
    <3> QED
      BY <3>1, <3>2, <3>3
  <2>8. CASE ReadBack(r)
    <3>1. /\ requests[r].at = "readBack"
          /\ UNCHANGED <<batches, rows, objects, leftovers>>
      BY <2>8 DEF ReadBack
    <3>2. PICK k \in requests[r].rest :
             \/ Finish(r)
             \/ Go(r, [requests[r] EXCEPT !.rest = @ \ {k}])
             \/ Fail(r)
      BY <2>8 DEF ReadBack
    <3>3. [requests[r] EXCEPT !.rest = @ \ {k}] =
             [at |-> "readBack", batch |-> requests[r].batch,
              rest |-> requests[r].rest \ {k}]
      BY <3>1, NextRest DEF TypeInv
    <3>4. CASE Go(r, [requests[r] EXCEPT !.rest = @ \ {k}])
      BY <2>1, <2>2, <3>1, <3>3, <3>4, BatchKeepsType
    <3> QED
      BY <2>1, <2>3, <3>1, <3>2, <3>4, FinishKeepsType
  <2>9. CASE DiscardObjects(r)
    <3>1. /\ requests[r].at = "discard"
          /\ UNCHANGED <<batches, rows>>
          /\ objects' \subseteq objects
          /\ leftovers' \subseteq leftovers \cup requests[r].rest
      BY <2>9 DEF DiscardObjects
    <3>2. ASSUME NEW k \in requests[r].rest,
                 Go(r, [requests[r] EXCEPT !.rest = @ \ {k}])
          PROVE  TypeInv'
      <4>1. [requests[r] EXCEPT !.rest = @ \ {k}] =
               [at |-> "discard", batch |-> requests[r].batch,
                rest |-> requests[r].rest \ {k}]
        BY <3>1, NextRest DEF TypeInv
      <4> QED
        BY <2>1, <2>2, <3>1, <3>2, <4>1, BatchKeepsType
    <3> QED
      BY <2>1, <2>2, <2>9, <3>1, <3>2, FinishKeepsType DEF DiscardObjects
  <2>10. CASE DeleteRow(r)
    <3>1. /\ requests[r].at = "deleteRow"
          /\ UNCHANGED <<batches, objects, leftovers>>
          /\ rows' \subseteq rows
          /\ Finish(r) \/ Go(r, [requests[r] EXCEPT !.at = "deleteObject"])
      BY <2>10 DEF DeleteRow
    <3>2. CASE Go(r, [requests[r] EXCEPT !.at = "deleteObject"])
      <4>1. [requests[r] EXCEPT !.at = "deleteObject"] =
               [at |-> "deleteObject", key |-> requests[r].key]
        BY <3>1, NextAt DEF TypeInv
      <4>2. used' = used /\ requests[r].key \in used
        BY <2>2, <3>1 DEF used
      <4> HIDE DEF used
      <4>3. [at |-> "deleteObject", key |-> requests[r].key] \in Slot
        BY <2>1, <4>2, KeySlot
      <4> QED
        BY <2>1, <3>1, <3>2, <4>1, <4>2, <4>3, MoveKeepsType
    <3> QED
      BY <2>1, <3>1, <3>2, FinishKeepsType
  <2>11. CASE DeleteObject(r)
    BY <2>1, <2>2, <2>11, FinishKeepsType DEF DeleteObject
  <2>12. CASE Crash(r)
    <3>1. Held(r) \subseteq used
      BY <2>2 DEF Held
    <3> QED
      BY <2>1, <2>12, <3>1, FinishKeepsType DEF Crash
  <2> QED
    BY <1>2, <2>4, <2>5, <2>6, <2>7, <2>8, <2>9, <2>10, <2>11, <2>12
       DEF Begin, Continue
<1> QED
  BY <1>1, <1>2 DEF Next

\* Every table, object and request only names keys that were handed out.
THEOREM FilesTypeCorrect == Spec => []TypeOK
<1>1. Init => TypeInv
  BY IdleSlot DEF Init, TypeInv, TypeOK, SlotKeys, used
<1>2. TypeInv => TypeOK
  BY DEF TypeInv
<1> QED
  BY <1>1, <1>2, TypeInvStep, PTL DEF Spec

LEMMA OthersKeepTheirSlot ==
    ASSUME TypeInv, NEW r \in Requests, Begin(r) \/ Continue(r) \/ Crash(r)
    PROVE  \A q \in Requests : q # r => requests'[q] = requests[q]
<1>1. \E slot : Go(r, slot)
  <2>1. CASE Begin(r)
    BY <2>1 DEF Begin, BeginUpload, BeginDelete
  <2>2. CASE WriteObject(r)
    BY <2>2 DEF WriteObject, Fail
  <2>3. CASE CommitRows(r)
    BY <2>3 DEF CommitRows, Fail
  <2>4. CASE ReadBack(r)
    BY <2>4 DEF ReadBack, Finish, Fail
  <2>5. CASE DiscardObjects(r) \/ DeleteRow(r) \/ DeleteObject(r) \/ Crash(r)
    BY <2>5 DEF DiscardObjects, DeleteRow, DeleteObject, Crash, Finish
  <2> QED
    BY <2>1, <2>2, <2>3, <2>4, <2>5 DEF Continue
<1>2. PICK slot : requests' = [requests EXCEPT ![r] = slot]
  BY <1>1 DEF Go
<1>3. requests \in [Requests -> Slot]
  BY DEF TypeInv, TypeOK
<1> QED
  BY <1>2, <1>3

-----------------------------------------------------------------------------
(* Extra objects *)

ExtraInv == TypeInv /\ ExtraObjectsHaveACause

LEMMA ExtraStep ==
    ASSUME ExtraInv, NEW r \in Requests, Begin(r) \/ Continue(r) \/ Crash(r)
    PROVE  ExtraObjectsHaveACause'
<1>1. \A q \in Requests : q # r => requests'[q] = requests[q]
  BY OthersKeepTheirSlot DEF ExtraInv
<1>2. \A q \in Requests : q # r => Held(q)' = Held(q)
  BY <1>1 DEF Held
\* It is enough to follow the keys of the request that makes the step.
<1>3. SUFFICES ASSUME NEW k, k \in objects', k \notin rows', k \notin leftovers',
                      \A q \in Requests : q # r => k \notin Held(q)
               PROVE  k \in Held(r)'
  BY <1>2 DEF ExtraObjectsHaveACause
<1>4. k \in objects /\ k \notin rows /\ k \notin leftovers => k \in Held(r)
  BY <1>3 DEF ExtraInv, ExtraObjectsHaveACause
<1>5. requests \in [Requests -> Slot]
  BY DEF ExtraInv, TypeInv, TypeOK
<1>6. CASE Begin(r)
  <2>1. requests[r] = Idle /\ UNCHANGED <<rows, objects, leftovers>>
    BY <1>6 DEF Begin, BeginUpload, BeginDelete
  <2>2. Held(r) = {}
    BY <2>1 DEF Held, Idle
  <2> QED
    BY <1>3, <1>4, <2>1, <2>2
<1>7. Fail(r) => Held(r)' = requests[r].batch
  BY <1>5 DEF Fail, Go, Held
<1>8. CASE WriteObject(r)
  <2>1. PICK o \in requests[r].rest :
           /\ rows' = rows /\ leftovers \subseteq leftovers'
           /\ \/ /\ objects' = objects \cup {o}
                 /\ \E at \in {"write", "commit"}, rest \in {{}, requests[r].rest \ {o}} :
                       Go(r, [at |-> at, batch |-> requests[r].batch \cup {o},
                              rest |-> rest])
              \/ Fail(r) /\ objects' \subseteq objects \cup leftovers'
    BY <1>8 DEF WriteObject
  <2>2. requests[r].at = "write"
    BY <1>8 DEF WriteObject
  <2>3. k \in objects => k \in requests[r].batch
    BY <1>3, <1>4, <2>1, <2>2 DEF Held
  <2>4. CASE Fail(r) /\ objects' \subseteq objects \cup leftovers'
    BY <1>3, <1>7, <2>3, <2>4
  <2>5. ASSUME objects' = objects \cup {o}, NEW at \in {"write", "commit"}, NEW rest,
               Go(r, [at |-> at, batch |-> requests[r].batch \cup {o}, rest |-> rest])
        PROVE  k \in Held(r)'
    <3>1. requests'[r] = [at |-> at, batch |-> requests[r].batch \cup {o}, rest |-> rest]
      BY <1>5, <2>5 DEF Go
    <3>2. Held(r)' = requests[r].batch \cup {o}
      BY <3>1 DEF Held
    <3> QED
      BY <1>3, <2>3, <2>5, <3>2
  <2> QED
    BY <2>1, <2>4, <2>5
<1>9. CASE CommitRows(r)
  BY <1>3, <1>4, <1>7, <1>9 DEF CommitRows, Held
<1>10. CASE ReadBack(r)
  BY <1>3, <1>4, <1>10 DEF ReadBack, Held
<1>11. CASE DiscardObjects(r)
  <2>1. /\ requests[r].at = "discard" /\ rows' = rows
        /\ objects' \subseteq objects /\ leftovers \subseteq leftovers'
    BY <1>11 DEF DiscardObjects
  <2>2. k \in requests[r].rest
    BY <1>3, <1>4, <2>1 DEF Held
  <2>3. PICK o \in requests[r].rest :
           /\ Go(r, [requests[r] EXCEPT !.rest = @ \ {o}])
           /\ objects' = objects \ {o} \/ o \in leftovers'
    BY <1>11, <2>2 DEF DiscardObjects
  <2>4. requests'[r] = [at |-> "discard", batch |-> requests[r].batch,
                        rest |-> requests[r].rest \ {o}]
    BY <1>5, <2>1, <2>3, NextRest DEF Go, ExtraInv, TypeInv
  <2>5. Held(r)' = requests[r].rest \ {o}
    BY <2>4 DEF Held
  <2> QED
    BY <1>3, <2>2, <2>3, <2>5
<1>12. CASE DeleteRow(r)
  <2>1. requests[r].at = "deleteRow" /\ objects' = objects /\ leftovers' = leftovers
    BY <1>12 DEF DeleteRow
  <2>2. /\ rows' = rows \ {requests[r].key}
        /\ Go(r, [requests[r] EXCEPT !.at = "deleteObject"])
    BY <1>3, <1>4, <1>12, <2>1 DEF DeleteRow, Held
  <2>3. requests'[r] = [at |-> "deleteObject", key |-> requests[r].key]
    BY <1>5, <2>1, <2>2, NextAt DEF Go, ExtraInv, TypeInv
  <2>4. Held(r)' = {requests[r].key}
    BY <2>3 DEF Held
  <2> QED
    BY <1>3, <1>4, <2>1, <2>2, <2>4 DEF Held
<1>13. CASE DeleteObject(r)
  BY <1>3, <1>4, <1>13 DEF DeleteObject, Held
<1>14. CASE Crash(r)
  BY <1>3, <1>4, <1>14 DEF Crash
<1> QED
  BY <1>6, <1>8, <1>9, <1>10, <1>11, <1>12, <1>13, <1>14 DEF Continue

\* Overlapping uploads and deletes never lose track of an object.
THEOREM FilesExtraObjects == Spec => []ExtraObjectsHaveACause
<1>1. Init => ExtraInv
  BY IdleSlot DEF Init, ExtraInv, TypeInv, TypeOK, SlotKeys, used,
                  ExtraObjectsHaveACause
<1>2. ExtraInv /\ [Next]_vars => ExtraInv'
  <2> SUFFICES ASSUME ExtraInv, [Next]_vars
               PROVE  ExtraObjectsHaveACause'
    BY TypeInvStep DEF ExtraInv
  <2>1. CASE UNCHANGED vars
    BY <2>1 DEF vars, ExtraInv, ExtraObjectsHaveACause, Held
  <2> QED
    BY <2>1, ExtraStep DEF Next
<1> QED
  BY <1>1, <1>2, PTL DEF Spec, ExtraInv

-----------------------------------------------------------------------------
(* Rows and their objects *)

Writing(r) == requests[r].at \in {"write", "commit"}
Whole(r) == requests[r].batch \cup requests[r].rest
InFlight == {Whole(r) : r \in {q \in Requests : Writing(q)}}

\* A batch on its way has no rows yet; a discarded one never gets all of them.
SlotInv(r) ==
    /\ Writing(r) =>
          /\ Whole(r) \in batches /\ Whole(r) # {}
          /\ Whole(r) \cap rows = {}
          /\ requests[r].batch \subseteq objects
    /\ requests[r].at = "commit" => requests[r].rest = {}
    /\ requests[r].at = "readBack" =>
          /\ requests[r].batch \in batches \ InFlight
          /\ requests[r].rest \subseteq requests[r].batch
    /\ requests[r].at = "discard" =>
          \E b \in batches \ InFlight : requests[r].rest \subseteq b /\ ~(b \subseteq rows)
    /\ requests[r].at \in {"deleteRow", "deleteObject"} =>
          requests[r].key \notin UNION InFlight
    /\ requests[r].at = "deleteObject" => requests[r].key \notin rows

BatchInv ==
    /\ TypeInv
    /\ \A b, c \in batches : b = c \/ b \cap c = {}
    /\ \A r, q \in Requests : r # q /\ Writing(r) /\ Writing(q) => Whole(r) # Whole(q)
    /\ \A r \in Requests : SlotInv(r)
    /\ WholeBatchesHaveObjects

\* The other requests do not mind a step of request r that starts no upload and
\* adds no row.
LEMMA OthersKeepSlotInv ==
    ASSUME BatchInv, NEW r \in Requests, NEW q \in Requests, q # r,
           requests'[q] = requests[q],
           batches' = batches, rows' \subseteq rows, InFlight' \subseteq InFlight,
           \A b \in InFlight : b \cap objects \subseteq objects'
    PROVE  SlotInv(q)'
<1>1. SlotInv(q)
  BY DEF BatchInv
<1>2. Writing(q)' = Writing(q) /\ Whole(q)' = Whole(q)
  BY DEF Writing, Whole
<1>3. Writing(q) => Whole(q) \in InFlight /\ requests[q].batch \subseteq Whole(q)
  BY DEF InFlight, Whole
<1>4. Writing(q) =>
         /\ Whole(q) \in batches' /\ Whole(q) # {} /\ Whole(q) \cap rows' = {}
         /\ requests[q].batch \subseteq objects'
  BY <1>1, <1>3 DEF SlotInv
<1>5. requests[q].at = "discard" =>
         \E b \in batches' \ InFlight' :
            requests[q].rest \subseteq b /\ ~(b \subseteq rows')
  BY <1>1 DEF SlotInv
<1>6. requests[q].at = "commit" => requests[q].rest = {}
  BY <1>1 DEF SlotInv
<1>7. requests[q].at = "readBack" =>
         /\ requests[q].batch \in batches' \ InFlight'
         /\ requests[q].rest \subseteq requests[q].batch
  BY <1>1 DEF SlotInv
<1>8. /\ requests[q].at \in {"deleteRow", "deleteObject"} =>
            requests[q].key \notin UNION (InFlight')
      /\ requests[q].at = "deleteObject" => requests[q].key \notin rows'
  BY <1>1 DEF SlotInv
<1> QED
  BY <1>2, <1>4, <1>5, <1>6, <1>7, <1>8 DEF SlotInv

\* So it is enough to look at request r.
LEMMA QuietStep ==
    ASSUME BatchInv, TypeInv', NEW r \in Requests,
           \A q \in Requests : q # r => requests'[q] = requests[q],
           batches' = batches, rows' \subseteq rows,
           Writing(r)' => Writing(r) /\ Whole(r)' = Whole(r),
           \A b \in InFlight : b \cap objects \subseteq objects',
           SlotInv(r)', WholeBatchesHaveObjects'
    PROVE  BatchInv'
<1>1. \A q \in Requests : Writing(q)' => Writing(q) /\ Whole(q)' = Whole(q)
  BY DEF Writing, Whole
<1>2. InFlight' \subseteq InFlight
  BY <1>1 DEF InFlight
<1>3. \A q \in Requests : SlotInv(q)'
  BY <1>2, OthersKeepSlotInv
<1>4. \A p, q \in Requests : p # q /\ Writing(p)' /\ Writing(q)' => Whole(p)' # Whole(q)'
  BY <1>1 DEF BatchInv
<1>5. \A b, c \in batches' : b = c \/ b \cap c = {}
  BY DEF BatchInv
<1> QED
  BY <1>3, <1>4, <1>5 DEF BatchInv

LEMMA BeginUploadStep ==
    ASSUME BatchInv, TypeInv', NEW r \in Requests, NEW batch \in SUBSET Keys,
           BeginUpload(r, batch)
    PROVE  BatchInv'
<1>1. /\ batch # {} /\ batch \cap used = {} /\ batches' = batches \cup {batch}
      /\ UNCHANGED <<rows, objects>>
      /\ requests[r] = Idle
      /\ requests'[r] = [at |-> "write", batch |-> {}, rest |-> batch]
      /\ \A q \in Requests : q # r => requests'[q] = requests[q]
  BY DEF BeginUpload, Go, BatchInv, TypeInv, TypeOK
<1>2. rows \subseteq used /\ \A b \in batches : b \subseteq used
  BY DEF BatchInv, TypeInv, TypeOK, used
<1>3. ~Writing(r) /\ Writing(r)' /\ Whole(r)' = batch
  BY <1>1 DEF Writing, Whole, Idle
<1>4. \A q \in Requests : q # r => Writing(q)' = Writing(q) /\ Whole(q)' = Whole(q)
  BY <1>1 DEF Writing, Whole
<1>5. \A q \in Requests : Writing(q) => Whole(q) \in batches
  BY DEF BatchInv, SlotInv
<1>6. InFlight' \subseteq InFlight \cup {batch}
  BY <1>3, <1>4 DEF InFlight
<1>7. batch \notin batches
  BY <1>1, <1>2
<1>8. \A p, q \in Requests : p # q /\ Writing(p)' /\ Writing(q)' => Whole(p)' # Whole(q)'
  BY <1>3, <1>4, <1>5, <1>7 DEF BatchInv
<1>9. SlotInv(r)'
  <2>1. batch \cap rows' = {}
    BY <1>1, <1>2
  <2> QED
    BY <1>1, <1>3, <2>1 DEF SlotInv
<1>10. ASSUME NEW q \in Requests, q # r
       PROVE  SlotInv(q)'
  <2>1. SlotInv(q) /\ requests'[q] = requests[q]
    BY <1>1, <1>10 DEF BatchInv
  <2>2. requests[q].at \in {"deleteRow", "deleteObject"} => requests[q].key \in used
    BY DEF BatchInv, TypeInv, SlotKeys
  <2>3. requests[q].at \in {"deleteRow", "deleteObject"} =>
           requests[q].key \notin UNION (InFlight')
    BY <1>1, <1>6, <2>1, <2>2 DEF SlotInv
  <2>4. requests[q].at = "readBack" => requests[q].batch \in batches' \ InFlight'
    BY <1>1, <1>6, <1>7, <2>1 DEF SlotInv
  <2>5. requests[q].at = "discard" =>
           \E b \in batches' \ InFlight' :
              requests[q].rest \subseteq b /\ ~(b \subseteq rows')
    BY <1>1, <1>6, <1>7, <2>1 DEF SlotInv
  <2>6. Writing(q)' = Writing(q) /\ Whole(q)' = Whole(q)
    BY <1>4, <1>10
  <2> QED
    BY <1>1, <2>1, <2>3, <2>4, <2>5, <2>6 DEF SlotInv
<1>11. \A b, c \in batches' : b = c \/ b \cap c = {}
  BY <1>1, <1>2 DEF BatchInv
<1>12. WholeBatchesHaveObjects'
  BY <1>1, <1>2 DEF BatchInv, WholeBatchesHaveObjects
<1> QED
  BY <1>8, <1>9, <1>10, <1>11, <1>12 DEF BatchInv

\* After an exception the request discards a batch that has not all its rows.
LEMMA FailStep ==
    ASSUME BatchInv, TypeInv', NEW r \in Requests, Fail(r),
           \A q \in Requests : q # r => requests'[q] = requests[q],
           UNCHANGED <<batches, rows>>, objects \subseteq objects',
           Writing(r) \/ /\ requests[r].at = "readBack"
                         /\ ~(requests[r].batch \subseteq rows)
    PROVE  BatchInv'
<1>1. requests'[r] = [at |-> "discard", batch |-> requests[r].batch,
                      rest |-> requests[r].batch]
  BY DEF Fail, Go, BatchInv, TypeInv, TypeOK
<1>2. ~Writing(r)'
  BY <1>1 DEF Writing
<1>3. \A q \in Requests : q # r => Writing(q)' = Writing(q) /\ Whole(q)' = Whole(q)
  BY DEF Writing, Whole
<1>4. InFlight' \subseteq InFlight /\ (Writing(r) => Whole(r) \notin InFlight')
  BY <1>2, <1>3 DEF InFlight, BatchInv
<1>5. \E b \in batches' \ InFlight' :
         requests[r].batch \subseteq b /\ ~(b \subseteq rows')
  <2>1. CASE Writing(r)
    <3>1. /\ Whole(r) \in batches /\ Whole(r) # {} /\ Whole(r) \cap rows = {}
      BY <2>1 DEF BatchInv, SlotInv
    <3>2. requests[r].batch \subseteq Whole(r) /\ ~(Whole(r) \subseteq rows)
      BY <3>1 DEF Whole
    <3> QED
      BY <1>4, <2>1, <3>1, <3>2
  <2>2. CASE requests[r].at = "readBack" /\ ~(requests[r].batch \subseteq rows)
    BY <1>4, <2>2 DEF BatchInv, SlotInv
  <2> QED
    BY <2>1, <2>2
<1>6. SlotInv(r)'
  BY <1>1, <1>5 DEF SlotInv, Writing
<1>7. WholeBatchesHaveObjects'
  BY DEF WholeBatchesHaveObjects, BatchInv
<1> QED
  BY <1>2, <1>6, <1>7, QuietStep

LEMMA CommitStep ==
    ASSUME BatchInv, TypeInv', NEW r \in Requests, CommitRows(r), ~AnswersGetLost
    PROVE  BatchInv'
<1>1. \A q \in Requests : q # r => requests'[q] = requests[q]
  BY OthersKeepTheirSlot DEF BatchInv, Continue
<1>2. /\ requests[r].at = "commit" /\ Writing(r)
      /\ UNCHANGED <<batches, objects>>
  BY DEF CommitRows, Writing
<1>3. CASE Fail(r) /\ UNCHANGED rows
  BY <1>1, <1>2, <1>3, FailStep
<1>4. CASE /\ rows' = rows \cup requests[r].batch
           /\ Go(r, [at |-> "readBack", batch |-> requests[r].batch,
                     rest |-> requests[r].batch])
  <2> DEFINE batch == requests[r].batch
  <2>1. requests'[r] = [at |-> "readBack", batch |-> batch, rest |-> batch]
    BY <1>4 DEF Go, BatchInv, TypeInv, TypeOK
  <2>2. /\ batch = Whole(r) /\ batch \in batches /\ batch \subseteq objects
    <3>1. SlotInv(r)
      BY DEF BatchInv
    <3>2. requests[r].rest = {} /\ Whole(r) \in batches /\ batch \subseteq objects
      BY <1>2, <3>1 DEF SlotInv
    <3> QED
      BY <3>2 DEF Whole
  <2>3. ~Writing(r)'
    BY <2>1 DEF Writing
  <2>4. \A q \in Requests : q # r => Writing(q)' = Writing(q) /\ Whole(q)' = Whole(q)
    BY <1>1 DEF Writing, Whole
  <2>5. InFlight' \subseteq InFlight /\ batch \notin InFlight' /\ batch \in InFlight
    BY <1>2, <2>2, <2>3, <2>4 DEF InFlight, BatchInv
  <2>6. \A b \in batches : b = batch \/ b \cap batch = {}
    BY <2>2 DEF BatchInv
  <2>7. \A b \in batches : b # batch /\ ~(b \subseteq rows) => ~(b \subseteq rows')
    BY <1>4, <2>6
  <2> HIDE DEF batch
  <2>8. SlotInv(r)'
    BY <1>2, <2>1, <2>2, <2>5 DEF SlotInv, Writing
  <2>9. ASSUME NEW q \in Requests, q # r
        PROVE  SlotInv(q)'
    <3>1. /\ SlotInv(q) /\ requests'[q] = requests[q]
          /\ Writing(q)' = Writing(q) /\ Whole(q)' = Whole(q)
      BY <1>1, <2>4, <2>9 DEF BatchInv
    <3>2. Writing(q) => Whole(q) \cap rows' = {}
      <4>1. Writing(q) => Whole(q) # batch /\ Whole(q) \in batches
        BY <1>2, <2>2, <2>9, <3>1 DEF BatchInv, SlotInv
      <4> QED
        BY <1>4, <2>6, <3>1, <4>1 DEF SlotInv, batch
    <3>3. requests[q].at = "discard" =>
             \E b \in batches' \ InFlight' :
                requests[q].rest \subseteq b /\ ~(b \subseteq rows')
      BY <1>2, <2>5, <2>7, <3>1 DEF SlotInv
    <3>4. requests[q].at = "deleteObject" => requests[q].key \notin rows'
      BY <1>4, <2>5, <3>1 DEF SlotInv, batch
    <3>5. requests[q].at \in {"deleteRow", "deleteObject"} =>
             requests[q].key \notin UNION (InFlight')
      BY <2>5, <3>1 DEF SlotInv
    <3>6. requests[q].at = "readBack" => requests[q].batch \in batches' \ InFlight'
      BY <1>2, <2>5, <3>1 DEF SlotInv
    <3> QED
      BY <1>2, <3>1, <3>2, <3>3, <3>4, <3>5, <3>6 DEF SlotInv
  <2>10. WholeBatchesHaveObjects'
    <3> SUFFICES ASSUME NEW b \in batches, b \subseteq rows'
                 PROVE  b \subseteq objects
      BY <1>2 DEF WholeBatchesHaveObjects
    <3>1. b # batch => b \subseteq rows
      BY <2>7
    <3> QED
      BY <2>2, <3>1 DEF BatchInv, WholeBatchesHaveObjects
  <2>11. \A p, q \in Requests : p # q /\ Writing(p)' /\ Writing(q)' => Whole(p)' # Whole(q)'
    BY <2>3, <2>4 DEF BatchInv
  <2>12. \A b, c \in batches' : b = c \/ b \cap c = {}
    BY <1>2 DEF BatchInv
  <2> QED
    BY <2>8, <2>9, <2>10, <2>11, <2>12 DEF BatchInv
<1> QED
  BY <1>3, <1>4 DEF CommitRows

LEMMA BatchInvStep ==
    ASSUME BatchInv, ~AnswersGetLost, [Next]_vars
    PROVE  BatchInv'
<1>1. TypeInv'
  BY TypeInvStep DEF BatchInv
<1>2. CASE UNCHANGED vars
  <2>1. /\ UNCHANGED <<batches, rows, objects, requests>>
        /\ \A r \in Requests : Writing(r)' = Writing(r) /\ Whole(r)' = Whole(r)
    BY <1>2 DEF vars, Writing, Whole
  <2>2. InFlight' = InFlight
    BY <2>1 DEF InFlight
  <2>3. \A r \in Requests : SlotInv(r)'
    BY <2>1, <2>2 DEF BatchInv, SlotInv
  <2>4. WholeBatchesHaveObjects'
    BY <2>1 DEF BatchInv, WholeBatchesHaveObjects
  <2> QED
    BY <1>1, <2>1, <2>3, <2>4 DEF BatchInv
<1>3. ASSUME NEW r \in Requests, Begin(r) \/ Continue(r) \/ Crash(r)
      PROVE  BatchInv'
  <2>1. \A q \in Requests : q # r => requests'[q] = requests[q]
    BY <1>3, OthersKeepTheirSlot DEF BatchInv
  <2>2. /\ requests \in [Requests -> Slot]
        /\ SlotInv(r) /\ WholeBatchesHaveObjects
        /\ \A b, c \in batches : b = c \/ b \cap c = {}
        /\ \A q \in Requests : Writing(q) => Whole(q) \in batches
    BY DEF BatchInv, TypeInv, TypeOK, SlotInv
  <2>3. InFlight \subseteq batches
    BY <2>2 DEF InFlight
  <2>4. \A q \in Requests : Writing(q) => Whole(q) \cap rows = {}
    BY DEF BatchInv, SlotInv
  \* A request that is answered leaves the invariant to the others.
  <2>5. Finish(r) /\ batches' = batches /\ rows' \subseteq rows
          /\ (\A b \in InFlight : b \cap objects \subseteq objects')
          /\ WholeBatchesHaveObjects' => BatchInv'
    <3>1. Finish(r) => requests'[r].at = "idle"
      BY <2>2 DEF Finish, Go, Idle
    <3>2. Finish(r) => SlotInv(r)' /\ ~Writing(r)'
      BY <3>1 DEF SlotInv, Writing
    <3> QED
      BY <1>1, <2>1, <3>2, QuietStep
  <2>6. ASSUME NEW batch \in SUBSET Keys, BeginUpload(r, batch)
        PROVE  BatchInv'
    BY <1>1, <2>6, BeginUploadStep
  <2>7. ASSUME NEW k \in rows, BeginDelete(r, k)
        PROVE  BatchInv'
    <3>1. requests'[r] = [at |-> "deleteRow", key |-> k] /\ ~Writing(r)'
      BY <2>2, <2>7 DEF BeginDelete, Go, Writing
    <3>2. UNCHANGED <<batches, rows, objects>>
      BY <2>7 DEF BeginDelete
    <3>3. k \notin UNION InFlight
      BY <2>4 DEF InFlight
    <3>4. InFlight' \subseteq InFlight
      BY <2>1, <3>1 DEF InFlight, Writing, Whole
    <3>5. SlotInv(r)'
      BY <3>1, <3>3, <3>4 DEF SlotInv
    <3>6. WholeBatchesHaveObjects'
      BY <2>2, <3>2 DEF WholeBatchesHaveObjects
    <3> QED
      BY <1>1, <2>1, <3>1, <3>2, <3>5, <3>6, QuietStep
  <2>8. CASE WriteObject(r)
    <3>1. /\ requests[r].at = "write" /\ Writing(r)
          /\ UNCHANGED <<batches, rows>> /\ objects \subseteq objects'
      BY <2>8 DEF WriteObject, Writing
    <3>2. CASE Fail(r)
      BY <1>1, <2>1, <3>1, <3>2, FailStep
    <3>3. CASE ~Fail(r)
      <4>1. PICK k \in requests[r].rest :
               /\ objects' = objects \cup {k}
               /\ \/ /\ requests[r].rest \ {k} = {}
                     /\ Go(r, [at |-> "commit", batch |-> requests[r].batch \cup {k},
                               rest |-> {}])
                  \/ Go(r, [at |-> "write", batch |-> requests[r].batch \cup {k},
                            rest |-> requests[r].rest \ {k}])
        BY <2>8, <3>3 DEF WriteObject
      <4>2. /\ requests'[r].at \in {"write", "commit"}
            /\ requests'[r].batch = requests[r].batch \cup {k}
            /\ requests'[r].rest = requests[r].rest \ {k}
            /\ requests'[r].at = "commit" => requests'[r].rest = {}
        BY <2>2, <4>1 DEF Go
      <4>3. Writing(r)' /\ Whole(r)' = Whole(r)
        BY <4>1, <4>2 DEF Writing, Whole
      <4>4. SlotInv(r)'
        BY <2>2, <3>1, <4>1, <4>2, <4>3 DEF SlotInv
      <4>5. WholeBatchesHaveObjects'
        BY <2>2, <3>1 DEF WholeBatchesHaveObjects
      <4> QED
        BY <1>1, <2>1, <3>1, <4>3, <4>4, <4>5, QuietStep
    <3> QED
      BY <3>2, <3>3
  <2>9. CASE CommitRows(r)
    BY <1>1, <2>9, CommitStep
  <2>10. CASE ReadBack(r)
    <3>1. requests[r].at = "readBack" /\ UNCHANGED <<batches, rows, objects>>
      BY <2>10 DEF ReadBack
    <3>2. PICK k \in requests[r].rest :
             \/ Finish(r)
             \/ Go(r, [requests[r] EXCEPT !.rest = @ \ {k}])
             \/ k \notin rows /\ Fail(r)
      BY <2>10 DEF ReadBack
    <3>3. WholeBatchesHaveObjects'
      BY <2>2, <3>1 DEF WholeBatchesHaveObjects
    <3>4. CASE Finish(r)
      BY <2>5, <3>1, <3>3, <3>4
    <3>5. CASE Go(r, [requests[r] EXCEPT !.rest = @ \ {k}])
      <4>1. requests'[r] = [at |-> "readBack", batch |-> requests[r].batch,
                            rest |-> requests[r].rest \ {k}]
        BY <2>2, <3>1, <3>5, NextRest, ZenonT(60) DEF Go, BatchInv, TypeInv
      <4>2. ~Writing(r)'
        BY <4>1 DEF Writing
      <4>3. InFlight' \subseteq InFlight
        BY <2>1, <4>2 DEF InFlight, Writing, Whole
      <4>4. SlotInv(r)'
        BY <2>2, <3>1, <4>1, <4>2, <4>3 DEF SlotInv
      <4> QED
        BY <1>1, <2>1, <3>1, <3>3, <4>2, <4>4, QuietStep
    <3>6. CASE k \notin rows /\ Fail(r)
      <4>1. ~(requests[r].batch \subseteq rows)
        BY <2>2, <3>1, <3>2, <3>6 DEF SlotInv
      <4> QED
        BY <1>1, <2>1, <3>1, <3>6, <4>1, FailStep
    <3> QED
      BY <3>2, <3>4, <3>5, <3>6
  <2>11. CASE DiscardObjects(r)
    <3>1. /\ requests[r].at = "discard" /\ UNCHANGED <<batches, rows>>
          /\ objects \ requests[r].rest \subseteq objects'
      BY <2>11 DEF DiscardObjects
    <3>2. PICK own \in batches \ InFlight :
             requests[r].rest \subseteq own /\ ~(own \subseteq rows)
      BY <2>2, <3>1 DEF SlotInv
    <3>3. \A b \in batches : b # own => b \cap objects \subseteq objects'
      BY <2>2, <3>1, <3>2
    <3>4. \A b \in InFlight : b \cap objects \subseteq objects'
      BY <2>3, <3>2, <3>3
    <3>5. WholeBatchesHaveObjects'
      BY <2>2, <3>1, <3>2, <3>3 DEF WholeBatchesHaveObjects
    <3>6. CASE Finish(r)
      BY <2>5, <3>1, <3>4, <3>5, <3>6
    <3>7. ASSUME NEW k \in requests[r].rest,
                 Go(r, [requests[r] EXCEPT !.rest = @ \ {k}])
          PROVE  BatchInv'
      <4>1. requests'[r] = [at |-> "discard", batch |-> requests[r].batch,
                            rest |-> requests[r].rest \ {k}]
        <5>1. [requests[r] EXCEPT !.rest = @ \ {k}] =
                 [at |-> "discard", batch |-> requests[r].batch,
                  rest |-> requests[r].rest \ {k}]
          BY <3>1, NextRest DEF BatchInv, TypeInv
        <5> QED
          BY <2>2, <3>7, <5>1 DEF Go
      <4>2. ~Writing(r)'
        BY <4>1 DEF Writing
      <4>3. InFlight' \subseteq InFlight
        BY <2>1, <4>2 DEF InFlight, Writing, Whole
      <4>4. SlotInv(r)'
        BY <3>1, <3>2, <4>1, <4>2, <4>3 DEF SlotInv
      <4> QED
        BY <1>1, <2>1, <3>1, <3>4, <3>5, <4>2, <4>4, QuietStep
    <3> QED
      BY <2>11, <3>6, <3>7 DEF DiscardObjects
  <2>12. CASE DeleteRow(r)
    <3>1. /\ requests[r].at = "deleteRow" /\ UNCHANGED <<batches, objects>>
          /\ rows' \subseteq rows
      BY <2>12 DEF DeleteRow
    <3>2. WholeBatchesHaveObjects'
      BY <2>2, <3>1 DEF WholeBatchesHaveObjects
    <3>3. CASE Finish(r)
      BY <2>5, <3>1, <3>2, <3>3
    <3>4. CASE /\ rows' = rows \ {requests[r].key}
               /\ Go(r, [requests[r] EXCEPT !.at = "deleteObject"])
      <4>1. requests'[r] = [at |-> "deleteObject", key |-> requests[r].key]
        BY <2>2, <3>1, <3>4, NextAt DEF Go, BatchInv, TypeInv
      <4>2. ~Writing(r)'
        BY <4>1 DEF Writing
      <4>3. InFlight' \subseteq InFlight
        BY <2>1, <4>2 DEF InFlight, Writing, Whole
      <4>4. SlotInv(r)'
        BY <2>2, <3>1, <3>4, <4>1, <4>2, <4>3 DEF SlotInv
      <4> QED
        BY <1>1, <2>1, <3>1, <3>2, <4>2, <4>4, QuietStep
    <3> QED
      BY <2>12, <3>3, <3>4 DEF DeleteRow
  <2>13. CASE DeleteObject(r)
    <3>1. /\ requests[r].at = "deleteObject" /\ UNCHANGED <<batches, rows>> /\ Finish(r)
          /\ objects \ {requests[r].key} \subseteq objects'
      BY <2>13 DEF DeleteObject
    <3>2. requests[r].key \notin UNION InFlight /\ requests[r].key \notin rows
      BY <2>2, <3>1 DEF SlotInv
    <3>3. \A b \in InFlight : b \cap objects \subseteq objects'
      BY <3>1, <3>2
    <3>4. WholeBatchesHaveObjects'
      BY <2>2, <3>1, <3>2 DEF WholeBatchesHaveObjects
    <3> QED
      BY <2>5, <3>1, <3>3, <3>4
  <2>14. CASE Crash(r)
    <3>1. Finish(r) /\ UNCHANGED <<batches, rows, objects>>
      BY <2>14 DEF Crash
    <3>2. WholeBatchesHaveObjects'
      BY <2>2, <3>1 DEF WholeBatchesHaveObjects
    <3> QED
      BY <2>5, <3>1, <3>2
  <2> QED
    BY <1>3, <2>6, <2>7, <2>8, <2>9, <2>10, <2>11, <2>12, <2>13, <2>14
       DEF Begin, Continue
<1> QED
  BY <1>2, <1>3 DEF Next

LEMMA BatchInvInit == Init => BatchInv
<1> SUFFICES ASSUME Init
             PROVE  BatchInv
  OBVIOUS
<1>1. \A r \in Requests : requests[r].at = "idle"
  BY DEF Init, Idle
<1>2. TypeInv
  BY IdleSlot DEF Init, TypeInv, TypeOK, SlotKeys, used
<1> QED
  BY <1>1, <1>2 DEF Init, BatchInv, SlotInv, Writing, WholeBatchesHaveObjects

\* As long as the database answers, a batch with all its rows has all its
\* objects.
THEOREM FilesWholeBatches ==
    ASSUME ~AnswersGetLost
    PROVE  Spec => []WholeBatchesHaveObjects
<1>1. Init => BatchInv
  BY BatchInvInit
<1>2. BatchInv => WholeBatchesHaveObjects
  BY DEF BatchInv
<1> QED
  BY <1>1, <1>2, BatchInvStep, PTL DEF Spec

-----------------------------------------------------------------------------
(* Rows and their objects, while deletes wait *)

\* A batch that is read back still has its rows, so a clean-up never comes from
\* there, and what it discards has none.
WaitInv ==
    /\ BatchInv
    /\ RowsHaveObjects
    /\ \A r \in Requests :
          /\ requests[r].at = "readBack" => requests[r].batch \subseteq rows
          /\ requests[r].at = "discard" => requests[r].rest \cap rows = {}

\* The keys a clean-up has left are not those a commit gives rows to.
LEMMA DiscardedApart ==
    ASSUME BatchInv, NEW r \in Requests, requests[r].at = "commit",
           NEW q \in Requests, requests[q].at = "discard"
    PROVE  requests[q].rest \cap requests[r].batch = {}
<1>1. Whole(r) \in InFlight /\ Whole(r) \in batches /\ requests[r].batch \subseteq Whole(r)
  BY DEF BatchInv, SlotInv, InFlight, Writing, Whole
<1>2. PICK b \in batches \ InFlight : requests[q].rest \subseteq b
  BY DEF BatchInv, SlotInv
<1>3. b \cap Whole(r) = {}
  BY <1>1, <1>2 DEF BatchInv
<1> QED
  BY <1>1, <1>2, <1>3

LEMMA WaitInvStep ==
    ASSUME WaitInv, ~AnswersGetLost, DeletesWait, [Next]_vars
    PROVE  WaitInv'
<1>1. BatchInv'
  BY BatchInvStep DEF WaitInv
<1>2. CASE UNCHANGED vars
  BY <1>1, <1>2 DEF WaitInv, RowsHaveObjects, vars
<1>3. ASSUME NEW r \in Requests, Begin(r) \/ Continue(r) \/ Crash(r)
      PROVE  WaitInv'
  <2>1. \A q \in Requests : q # r => requests'[q] = requests[q]
    BY <1>3, OthersKeepTheirSlot DEF WaitInv, BatchInv
  <2>2. /\ requests \in [Requests -> Slot] /\ SlotInv(r) /\ rows \subseteq objects
        /\ requests[r].at = "readBack" => requests[r].batch \subseteq rows
        /\ requests[r].at = "discard" => requests[r].rest \cap rows = {}
    BY DEF WaitInv, BatchInv, TypeInv, TypeOK, RowsHaveObjects
  <2> DEFINE Mine == /\ requests'[r].at = "readBack" => requests'[r].batch \subseteq rows'
                     /\ requests'[r].at = "discard" => requests'[r].rest \cap rows' = {}
  \* A step that adds no row and takes none from an upload concerns only request r.
  <2>3. ASSUME rows' \subseteq rows, rows' \subseteq objects', Mine,
               \A q \in Requests : requests[q].at = "readBack" /\ q # r =>
                  requests[q].batch \cap rows \subseteq rows'
        PROVE  WaitInv'
    BY <1>1, <2>1, <2>3 DEF WaitInv, RowsHaveObjects
  <2>4. CASE Begin(r)
    <3>1. UNCHANGED <<rows, objects>> /\ requests'[r].at \in {"write", "deleteRow"}
      BY <2>2, <2>4 DEF Begin, BeginUpload, BeginDelete, Go
    <3> QED
      BY <2>2, <2>3, <3>1
  <2>5. Fail(r) => /\ requests'[r].at = "discard"
                   /\ requests'[r].rest = requests[r].batch
    BY <2>2 DEF Fail, Go
  <2>6. Finish(r) => requests'[r].at = "idle"
    BY <2>2 DEF Finish, Go, Idle
  <2>7. CASE WriteObject(r)
    <3>1. /\ requests[r].at = "write" /\ rows' = rows /\ objects \subseteq objects'
          /\ Fail(r) \/ requests'[r].at \in {"write", "commit"}
      BY <2>2, <2>7 DEF WriteObject, Go
    <3>2. requests[r].batch \cap rows = {}
      BY <2>2, <3>1 DEF SlotInv, Writing, Whole
    <3>3. Mine
      BY <2>5, <3>1, <3>2
    <3> QED
      BY <2>2, <2>3, <3>1, <3>3
  <2>8. CASE CommitRows(r)
    <3>1. requests[r].at = "commit" /\ objects' = objects
      BY <2>8 DEF CommitRows
    <3>2. requests[r].batch \cap rows = {} /\ requests[r].batch \subseteq objects
      BY <2>2, <3>1 DEF SlotInv, Writing, Whole
    <3>3. CASE Fail(r) /\ UNCHANGED rows
      BY <2>2, <2>3, <2>5, <3>1, <3>2, <3>3
    <3>4. CASE /\ rows' = rows \cup requests[r].batch
               /\ Go(r, [at |-> "readBack", batch |-> requests[r].batch,
                         rest |-> requests[r].batch])
      <4>1. Mine
        BY <2>2, <3>4 DEF Go
      <4>2. rows' \subseteq objects'
        BY <2>2, <3>1, <3>2, <3>4
      <4>3. ASSUME NEW q \in Requests, q # r
            PROVE  /\ requests'[q].at = "readBack" => requests'[q].batch \subseteq rows'
                   /\ requests'[q].at = "discard" => requests'[q].rest \cap rows' = {}
        <5>1. requests[q].at = "discard" => requests[q].rest \cap requests[r].batch = {}
          BY <3>1, DiscardedApart DEF WaitInv
        <5> QED
          BY <2>1, <3>4, <4>3, <5>1 DEF WaitInv
      <4> QED
        BY <1>1, <4>1, <4>2, <4>3 DEF WaitInv, RowsHaveObjects
    <3> QED
      BY <2>8, <3>3, <3>4 DEF CommitRows
  <2>9. CASE ReadBack(r)
    <3>1. requests[r].at = "readBack" /\ UNCHANGED <<rows, objects>>
      BY <2>9 DEF ReadBack
    <3>2. requests[r].rest \subseteq rows
      BY <2>2, <3>1 DEF SlotInv
    <3>3. PICK k \in requests[r].rest :
             Finish(r) \/ Go(r, [requests[r] EXCEPT !.rest = @ \ {k}])
      BY <2>9, <3>2 DEF ReadBack
    <3>4. [requests[r] EXCEPT !.rest = @ \ {k}] =
             [at |-> "readBack", batch |-> requests[r].batch,
              rest |-> requests[r].rest \ {k}]
      BY <3>1, NextRest DEF WaitInv, BatchInv, TypeInv
    <3>5. Mine
      BY <2>2, <2>6, <3>1, <3>3, <3>4 DEF Go
    <3> QED
      BY <2>2, <2>3, <3>1, <3>5
  <2>10. CASE DiscardObjects(r)
    <3>1. /\ requests[r].at = "discard" /\ rows' = rows
          /\ objects \ requests[r].rest \subseteq objects'
      BY <2>10 DEF DiscardObjects
    <3>2. Finish(r) \/ \E k \in requests[r].rest : Go(r, [requests[r] EXCEPT !.rest = @ \ {k}])
      BY <2>10 DEF DiscardObjects
    <3>3. ASSUME NEW k \in requests[r].rest, Go(r, [requests[r] EXCEPT !.rest = @ \ {k}])
          PROVE  Mine
      <4>1. [requests[r] EXCEPT !.rest = @ \ {k}] =
               [at |-> "discard", batch |-> requests[r].batch,
                rest |-> requests[r].rest \ {k}]
        BY <3>1, NextRest DEF WaitInv, BatchInv, TypeInv
      <4> QED
        BY <2>2, <3>1, <3>3, <4>1 DEF Go
    <3>4. Mine
      BY <2>6, <3>2, <3>3
    <3> QED
      BY <2>2, <2>3, <3>1, <3>4
  <2>11. CASE DeleteRow(r)
    <3>1. /\ requests[r].at = "deleteRow" /\ objects' = objects
          /\ rows \ {requests[r].key} \subseteq rows' /\ rows' \subseteq rows
          /\ Finish(r) \/ Go(r, [requests[r] EXCEPT !.at = "deleteObject"])
      BY <2>11 DEF DeleteRow
    <3>2. [requests[r] EXCEPT !.at = "deleteObject"] =
             [at |-> "deleteObject", key |-> requests[r].key]
      BY <3>1, NextAt DEF WaitInv, BatchInv, TypeInv
    <3>3. Mine
      BY <2>2, <2>6, <3>1, <3>2 DEF Go
    <3>4. \A q \in Requests : requests[q].at = "readBack" => requests[r].key \notin requests[q].batch
      BY <3>1 DEF DeletesWait
    <3> QED
      BY <2>2, <2>3, <3>1, <3>3, <3>4
  <2>12. CASE DeleteObject(r)
    <3>1. /\ requests[r].at = "deleteObject" /\ rows' = rows /\ Finish(r)
          /\ objects \ {requests[r].key} \subseteq objects'
      BY <2>12 DEF DeleteObject
    <3>2. requests[r].key \notin rows
      BY <2>2, <3>1 DEF SlotInv
    <3> QED
      BY <2>2, <2>3, <2>6, <3>1, <3>2
  <2>13. CASE Crash(r)
    BY <2>2, <2>3, <2>6, <2>13 DEF Crash
  <2> QED
    BY <1>3, <2>4, <2>7, <2>8, <2>9, <2>10, <2>11, <2>12, <2>13 DEF Continue
<1> QED
  BY <1>2, <1>3 DEF Next

\* As long as the database answers and deletes wait for the answer to the upload,
\* a row never points at nothing.
THEOREM FilesRowsHaveObjects ==
    ASSUME ~AnswersGetLost
    PROVE  Spec => RowsHaveObjectsIfDeletesWait
<1>1. Init => WaitInv
  BY BatchInvInit DEF Init, WaitInv, RowsHaveObjects, Idle
<1>2. WaitInv /\ DeletesWait /\ [Next]_vars => WaitInv'
  BY WaitInvStep
<1>3. WaitInv => RowsHaveObjects
  BY DEF WaitInv
<1> QED
  BY <1>1, <1>2, <1>3, PTL DEF Spec, RowsHaveObjectsIfDeletesWait

=============================================================================
