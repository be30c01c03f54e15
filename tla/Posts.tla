------------------------------- MODULE Posts -------------------------------
(***************************************************************************)
(* The API's handlers for posts, matches and locations as they run: in the *)
(* thread pool, on one Postgres at READ COMMITTED, each with a session of  *)
(* its own.  A handler is a few SELECTs, Python checks on the rows they    *)
(* returned, and one commit.  Nothing locks a row between a SELECT and the *)
(* commit, and a commit writes "UPDATE ... WHERE id = ...", so it acts on  *)
(* what the request READ.  Here every SELECT is a step and every commit is *)
(* a step; between them the request is a record in requests[r] that holds  *)
(* what the rest of the handler will still use.                            *)
(*                                                                         *)
(* A request that a check refuses (404, 409, 422), or that the database    *)
(* refuses (409 or 500, rolled back), leaves the tables alone and gives    *)
(* its slot back.  When that happens at the very first SELECT nothing is   *)
(* worth a step, so a Begin action is simply not enabled.                  *)
(*                                                                         *)
(* Left to other modules: the photos of a post (ImageUpload), the jobs and *)
(* events published after a commit, sign-in and ownership.                 *)
(***************************************************************************)
EXTENDS ItemStatus, Integers, FiniteSets

CONSTANT
    Requests     \* slots for requests in progress

VARIABLES
    status,      \* item id -> its row's status, "unused" or "deleted"
    place,       \* item id -> its row's location_id
    matches,     \* the rows of table matches
    usedIds,     \* match ids handed out so far; a sequence never goes back
    locations,   \* location id -> "active", "retired", "unused" or "deleted"
    requests     \* slot -> the request running in it

items == <<status, place>>
tables == <<status, place, matches, usedIds, locations>>
vars == <<status, place, matches, usedIds, locations, requests>>

HasRow(i) == status[i] \in Statuses
Exists(l) == locations[l] \in {"active", "retired"}

-----------------------------------------------------------------------------
(* Requests in progress: what each still has to do, and with what. *)

Idle == [at |-> "idle"]

InsertItemSlot   == [at : {"insertItem"}, location : Locations]
ReadPlaceSlot    == [at : {"readNewPlace"}, item : Items, location : Locations]
UpdateItemSlot   == [at : {"updateItem"}, item : Items,
                     location : Locations \cup {NoLocation}]
ReopenSlot       == [at : {"readOwnPlace"}, item : Items, location : Locations]
SetStatusSlot    == [at : {"setItemStatus"}, item : Items, new : Statuses]
DeleteItemSlot   == [at : {"deleteItem"}, item : Items]
ReadFoundSlot    == [at : {"readFound"}, lost : Items, found : Items,
                     lostOpen : BOOLEAN]
InsertMatchSlot  == [at : {"insertMatch"}, lost : Items, found : Items]
UnmatchLostSlot  == [at : {"unmatchLost"}, match : MatchRow]
UnmatchFoundSlot == [at : {"unmatchFound"}, match : MatchRow,
                     reopen : SUBSET Items]
DeleteMatchSlot  == [at : {"deleteMatch"}, match : MatchRow,
                     reopen : SUBSET Items]
SetActiveSlot    == [at : {"setActive"}, location : Locations,
                     new : {"active", "retired"}]
CountItemsSlot   == [at : {"countItems"}, location : Locations]
DeletePlaceSlot  == [at : {"deleteLocation"}, location : Locations]

Slot ==
    {Idle} \cup InsertItemSlot \cup ReadPlaceSlot \cup UpdateItemSlot
      \cup ReopenSlot \cup SetStatusSlot \cup DeleteItemSlot
      \cup ReadFoundSlot \cup InsertMatchSlot
      \cup UnmatchLostSlot \cup UnmatchFoundSlot \cup DeleteMatchSlot
      \cup SetActiveSlot \cup CountItemsSlot \cup DeletePlaceSlot

\* The rows and requests the program can hold.
TypeOK ==
    /\ status \in [Items -> Statuses \cup {"unused", "deleted"}]
    /\ place \in [Items -> Locations \cup {NoLocation}]
    /\ matches \subseteq MatchRow
    /\ usedIds \subseteq MatchIds
    /\ locations \in [Locations -> {"unused", "active", "retired", "deleted"}]
    /\ requests \in [Requests -> Slot]

\* An empty database and no request.
Init ==
    /\ status = [i \in Items |-> "unused"]
    /\ place = [i \in Items |-> NoLocation]
    /\ matches = {}
    /\ usedIds = {}
    /\ locations = [l \in Locations |-> "unused"]
    /\ requests = [r \in Requests |-> Idle]

\* Request r starts, or goes on, with the record slot.
Go(r, slot) == requests' = [requests EXCEPT ![r] = slot]

\* Request r is answered.
Finish(r) == Go(r, Idle)

\* Request r is answered with an error; whatever it flushed is rolled back.
Refuse(r) == Finish(r) /\ UNCHANGED tables

\* Bounds: the ids left are enough for the inserts already on their way.
ItemIdLeft ==
    Cardinality({r \in Requests : requests[r].at = "insertItem"})
      < Cardinality({i \in Items : status[i] = "unused"})
MatchIdLeft ==
    Cardinality({r \in Requests : requests[r].at \in {"readFound", "insertMatch"}})
      < Cardinality(MatchIds \ usedIds)

-----------------------------------------------------------------------------
(* POST /items *)

BeginCreateItem(r, l) ==
    /\ requests[r] = Idle /\ ItemIdLeft
    /\ locations[l] = "active"
    /\ Go(r, [at |-> "insertItem", location |-> l])
    /\ UNCHANGED tables

\* The INSERT.  Its foreign key is the second check of the location: a location
\* retired since is accepted, a location deleted since is an IntegrityError.
InsertItem(r) ==
    /\ requests[r].at = "insertItem"
    /\ LET l == requests[r].location IN
          IF Exists(l)
          THEN /\ \E i \in Items :
                     /\ status[i] = "unused"
                     /\ status' = [status EXCEPT ![i] = "open"]
                     /\ place' = [place EXCEPT ![i] = l]
               /\ Finish(r)
               /\ UNCHANGED <<matches, usedIds, locations>>
          ELSE Refuse(r)

-----------------------------------------------------------------------------
(* PATCH /items/{id}: l is the location_id of the payload, or NoLocation.   *)
(* Wording is not modelled, so an edit of the wording alone writes nothing. *)

\* Mutant: a returned post may be edited.
EditableWhenReturned(i) == HasRow(i)

Editable(i) == status[i] \in EditableStatuses

\* Mutant: a payload without location_id is looked up like one with it.
LookUpMissingLocation(r, i, l) ==
    /\ requests[r] = Idle
    /\ Editable(i)
    /\ Go(r, [at |-> "readNewPlace", item |-> i, location |-> l])
    /\ UNCHANGED tables

BeginUpdateItem(r, i, l) ==
    /\ requests[r] = Idle
    /\ Editable(i)
    /\ IF l \in {NoLocation, place[i]}
       THEN Go(r, [at |-> "updateItem", item |-> i, location |-> NoLocation])
       ELSE Go(r, [at |-> "readNewPlace", item |-> i, location |-> l])
    /\ UNCHANGED tables

ReadNewPlace(r) ==
    /\ requests[r].at = "readNewPlace"
    /\ IF locations[requests[r].location] = "active"
       THEN /\ Go(r, [at |-> "updateItem", item |-> requests[r].item,
                      location |-> requests[r].location])
            /\ UNCHANGED tables
       ELSE Refuse(r)

UpdateItem(r) ==
    /\ requests[r].at = "updateItem"
    /\ LET i == requests[r].item
           l == requests[r].location
       IN  IF HasRow(i) /\ (l = NoLocation \/ Exists(l))
           THEN /\ place' = IF l = NoLocation THEN place
                            ELSE [place EXCEPT ![i] = l]
                /\ Finish(r)
                /\ UNCHANGED <<status, matches, usedIds, locations>>
           ELSE Refuse(r)

-----------------------------------------------------------------------------
(* PATCH /items/{id}/status, and DELETE /items/{id}, which asks for         *)
(* "withdrawn" under the same transition table.                             *)

\* Mutant: every post may be withdrawn, also one in a match.
MayWithdrawMatched(i, new) ==
    HasRow(i) /\ new \in ClientTransitions[status[i]] \cup {"withdrawn"}

MayChange(i, new) == HasRow(i) /\ new \in ClientTransitions[status[i]]

BeginSetStatus(r, i, new) ==
    /\ requests[r] = Idle
    /\ MayChange(i, new)
    /\ IF new = "open"
       THEN Go(r, [at |-> "readOwnPlace", item |-> i, location |-> place[i]])
       ELSE Go(r, [at |-> "setItemStatus", item |-> i, new |-> new])
    /\ UNCHANGED tables

\* Mutant: a reopening at a retired location is neither done nor refused.
WaitForPlace(r) ==
    /\ requests[r].at = "readOwnPlace"
    /\ locations[requests[r].location] = "active"
    /\ Go(r, [at |-> "setItemStatus", item |-> requests[r].item, new |-> "open"])
    /\ UNCHANGED tables

\* Reopening loads item.location and refuses a retired one (and fails on one
\* that is gone by now).
ReadOwnPlace(r) ==
    /\ requests[r].at = "readOwnPlace"
    /\ IF locations[requests[r].location] = "active"
       THEN /\ Go(r, [at |-> "setItemStatus", item |-> requests[r].item,
                      new |-> "open"])
            /\ UNCHANGED tables
       ELSE Refuse(r)

\* Mutant: the change is written like a new row, whether or not there is one.
MergeItemStatus(r) ==
    /\ requests[r].at = "setItemStatus"
    /\ status' = [status EXCEPT ![requests[r].item] = requests[r].new]
    /\ Finish(r)
    /\ UNCHANGED <<place, matches, usedIds, locations>>

SetItemStatus(r) ==
    /\ requests[r].at = "setItemStatus"
    /\ IF HasRow(requests[r].item)
       THEN /\ status' = [status EXCEPT ![requests[r].item] = requests[r].new]
            /\ Finish(r)
            /\ UNCHANGED <<place, matches, usedIds, locations>>
       ELSE Refuse(r)

-----------------------------------------------------------------------------
(* DELETE /items/{id}/hard *)

BeginDeleteItem(r, i) ==
    /\ requests[r] = Idle
    /\ HasRow(i)
    /\ Go(r, [at |-> "deleteItem", item |-> i])
    /\ UNCHANGED tables

\* matches references items with ON DELETE RESTRICT.
Referenced(i) == \E m \in matches : i \in Partners(m)

\* Deleting a row that is gone already is a warning, not an error.
DeleteItem(r) ==
    /\ requests[r].at = "deleteItem"
    /\ LET i == requests[r].item IN
          IF HasRow(i) /\ ~Referenced(i)
          THEN /\ status' = [status EXCEPT ![i] = "deleted"]
               /\ place' = [place EXCEPT ![i] = NoLocation]
               /\ Finish(r)
               /\ UNCHANGED <<matches, usedIds, locations>>
          ELSE Refuse(r)

-----------------------------------------------------------------------------
(* POST /matches *)

BeginCreateMatch(r, lost, found) ==
    /\ requests[r] = Idle /\ MatchIdLeft
    /\ lost # found
    /\ HasRow(lost)
    /\ Go(r, [at |-> "readFound", lost |-> lost, found |-> found,
              lostOpen |-> status[lost] = "open"])
    /\ UNCHANGED tables

\* Mutant: only the found post has to be open.
FoundIsOpen(lost, found, lostOpen) ==
    /\ HasRow(found)
    /\ lost \in LostItems
    /\ found \in FoundItems
    /\ status[found] = "open"

\* The types are columns of the rows just read; status is what this SELECT
\* finds for one post and what the earlier one found for the other.
Pairable(lost, found, lostOpen) ==
    /\ HasRow(found)
    /\ lost \in LostItems
    /\ found \in FoundItems
    /\ lostOpen
    /\ status[found] = "open"

ReadFound(r) ==
    /\ requests[r].at = "readFound"
    /\ LET s == requests[r] IN
          IF Pairable(s.lost, s.found, s.lostOpen)
          THEN /\ Go(r, [at |-> "insertMatch", lost |-> s.lost, found |-> s.found])
               /\ UNCHANGED tables
          ELSE Refuse(r)

\* Mutant: no unique index on the pair.
InsertMatchTwice(r) ==
    /\ requests[r].at = "insertMatch"
    /\ LET lost == requests[r].lost
           found == requests[r].found
       IN  /\ HasRow(lost) /\ HasRow(found)
           /\ \E id \in MatchIds \ usedIds :
                 /\ usedIds' = usedIds \cup {id}
                 /\ matches' = matches \cup
                       {[id |-> id, lost |-> lost, found |-> found]}
           /\ status' = [status EXCEPT ![lost] = "matched", ![found] = "matched"]
           /\ Finish(r)
           /\ UNCHANGED <<place, locations>>

\* Two UPDATEs and an INSERT in one transaction.  An UPDATE that finds no row
\* (StaleDataError) or a pair that is already there (uq_matches_item_pair)
\* rolls all three back.
InsertMatch(r) ==
    /\ requests[r].at = "insertMatch"
    /\ LET lost == requests[r].lost
           found == requests[r].found
           taken == \E m \in matches : m.lost = lost /\ m.found = found
       IN  IF HasRow(lost) /\ HasRow(found) /\ ~taken
           THEN /\ \E id \in MatchIds \ usedIds :
                      /\ usedIds' = usedIds \cup {id}
                      /\ matches' = matches \cup
                            {[id |-> id, lost |-> lost, found |-> found]}
                /\ status' = [status EXCEPT ![lost] = "matched",
                                            ![found] = "matched"]
                /\ Finish(r)
                /\ UNCHANGED <<place, locations>>
           ELSE Refuse(r)

-----------------------------------------------------------------------------
(* DELETE /matches/{id}: three SELECTs (the match, and each post as the     *)
(* handler first touches it), then one transaction.                         *)

BeginDeleteMatch(r, m) ==
    /\ requests[r] = Idle
    /\ Go(r, [at |-> "unmatchLost", match |-> m])
    /\ UNCHANGED tables

\* Mutant: both posts of a deleted match go back to open.
ReopenAlways(i) == {i}

\* The posts crud.delete_match moves back to open: those it read as matched.
ToReopen(i) == IF status[i] = "matched" THEN {i} ELSE {}

ReadLostOfMatch(r) ==
    /\ requests[r].at = "unmatchLost"
    /\ LET m == requests[r].match IN
          Go(r, [at |-> "unmatchFound", match |-> m, reopen |-> ToReopen(m.lost)])
    /\ UNCHANGED tables

ReadFoundOfMatch(r) ==
    /\ requests[r].at = "unmatchFound"
    /\ LET m == requests[r].match IN
          Go(r, [at |-> "deleteMatch", match |-> m,
                 reopen |-> requests[r].reopen \cup ToReopen(m.found)])
    /\ UNCHANGED tables

\* Mutant: the match to delete is found by its pair, not by its id.
DeleteMatchByPair(r) ==
    /\ requests[r].at = "deleteMatch"
    /\ LET m == requests[r].match
           reopen == requests[r].reopen
       IN  /\ \A i \in reopen : HasRow(i)
           /\ matches' = {n \in matches : Partners(n) # Partners(m)}
           /\ status' = [i \in Items |->
                            IF i \in reopen THEN "open" ELSE status[i]]
           /\ Finish(r)
           /\ UNCHANGED <<place, usedIds, locations>>

\* The UPDATEs fail if a post is gone; the DELETE of a match that is gone
\* already only warns.
DeleteMatch(r) ==
    /\ requests[r].at = "deleteMatch"
    /\ LET m == requests[r].match
           reopen == requests[r].reopen
       IN  IF \A i \in reopen : HasRow(i)
           THEN /\ matches' = {n \in matches : n.id # m.id}
                /\ status' = [i \in Items |->
                                 IF i \in reopen THEN "open" ELSE status[i]]
                /\ Finish(r)
                /\ UNCHANGED <<place, usedIds, locations>>
           ELSE Refuse(r)

-----------------------------------------------------------------------------
(* Locations *)

\* POST /locations: one INSERT, nothing read before it.
CreateLocation(l) ==
    /\ locations[l] = "unused"
    /\ locations' = [locations EXCEPT ![l] = "active"]
    /\ UNCHANGED <<status, place, matches, usedIds, requests>>

\* DELETE /locations/{id} and POST /locations/{id}/restore.  A row that already
\* has the flag is not dirty, so nothing is written.
BeginSetActive(r, l, new) ==
    /\ requests[r] = Idle
    /\ Exists(l) /\ locations[l] # new
    /\ Go(r, [at |-> "setActive", location |-> l, new |-> new])
    /\ UNCHANGED tables

SetLocationActive(r) ==
    /\ requests[r].at = "setActive"
    /\ LET l == requests[r].location IN
          IF Exists(l)
          THEN /\ locations' = [locations EXCEPT ![l] = requests[r].new]
               /\ Finish(r)
               /\ UNCHANGED <<status, place, matches, usedIds>>
          ELSE Refuse(r)

\* DELETE /locations/{id}/hard: the row, then how many posts use it, then the
\* DELETE, which RESTRICT refuses if one uses it by now.
BeginDeleteLocation(r, l) ==
    /\ requests[r] = Idle
    /\ Exists(l)
    /\ Go(r, [at |-> "countItems", location |-> l])
    /\ UNCHANGED tables

InUse(l) == \E i \in Items : place[i] = l

CountItems(r) ==
    /\ requests[r].at = "countItems"
    /\ LET l == requests[r].location IN
          IF InUse(l)
          THEN Refuse(r)
          ELSE /\ Go(r, [at |-> "deleteLocation", location |-> l])
               /\ UNCHANGED tables

\* Mutant: the count of posts is the only check.
DeleteCountedLocation(r) ==
    /\ requests[r].at = "deleteLocation"
    /\ locations' = [locations EXCEPT ![requests[r].location] = "deleted"]
    /\ Finish(r)
    /\ UNCHANGED <<status, place, matches, usedIds>>

DeleteLocation(r) ==
    /\ requests[r].at = "deleteLocation"
    /\ LET l == requests[r].location IN
          IF Exists(l) /\ ~InUse(l)
          THEN /\ locations' = [locations EXCEPT ![l] = "deleted"]
               /\ Finish(r)
               /\ UNCHANGED <<status, place, matches, usedIds>>
          ELSE Refuse(r)

-----------------------------------------------------------------------------
\* A new request arrives at slot r.
Begin(r) ==
    \/ \E l \in Locations : BeginCreateItem(r, l)
    \/ \E i \in Items, l \in Locations \cup {NoLocation} : BeginUpdateItem(r, i, l)
    \/ \E i \in Items, new \in Statuses : BeginSetStatus(r, i, new)
    \/ \E i \in Items : BeginDeleteItem(r, i)
    \/ \E lost, found \in Items : BeginCreateMatch(r, lost, found)
    \/ \E m \in matches : BeginDeleteMatch(r, m)
    \/ \E l \in Locations, new \in {"active", "retired"} : BeginSetActive(r, l, new)
    \/ \E l \in Locations : BeginDeleteLocation(r, l)

\* The request in slot r goes on: its next SELECT, or its commit.
Continue(r) ==
    \/ InsertItem(r)
    \/ ReadNewPlace(r) \/ UpdateItem(r)
    \/ ReadOwnPlace(r) \/ SetItemStatus(r)
    \/ DeleteItem(r)
    \/ ReadFound(r) \/ InsertMatch(r)
    \/ ReadLostOfMatch(r) \/ ReadFoundOfMatch(r) \/ DeleteMatch(r)
    \/ SetLocationActive(r)
    \/ CountItems(r) \/ DeleteLocation(r)

Next ==
    \/ \E r \in Requests : Begin(r) \/ Continue(r)
    \/ \E l \in Locations : CreateLocation(l)

Spec == Init /\ [][Next]_vars

-----------------------------------------------------------------------------
(* What holds however requests overlap *)

\* A match always pairs two posts that still exist, a lost one with a found
\* one, and no pair is matched twice, whatever a hard delete, an unmatch and
\* other confirmations do between this request's SELECTs and its commit.
MatchesAreSound ==
    /\ \A m \in matches :
          /\ m.lost \in LostItems /\ HasRow(m.lost)
          /\ m.found \in FoundItems /\ HasRow(m.found)
    /\ \A m, n \in matches : m.lost = n.lost /\ m.found = n.found => m = n

\* Every post is at a location that exists: hard deleting a location never
\* leaves a post behind, also not one created or moved there meanwhile.
PostsHaveAPlace ==
    \A i \in Items : HasRow(i) => place[i] \in Locations /\ Exists(place[i])

\* A post shown as matched is in some match, so unmatching can always reopen
\* it: no order of confirmations and unmatches strands a post.
NoPostStranded ==
    \A i \in Items : status[i] = "matched" => Referenced(i)

\* No request gets stuck between its SELECTs and its commit, whatever the
\* others do to the rows it works on: each next call has an outcome, if only a
\* refusal.
NoRequestHangs ==
    \A r \in Requests : requests[r] # Idle => ENABLED Continue(r)

\* A post as the search for matches sees it: crud asks only whether it is open.
Shown ==
    [i \in Items |->
        IF status[i] \in {"unused", "open", "deleted"} THEN status[i] ELSE "closed"]

\* The posts of one commit: those of PATCH, POST and DELETE /items, and those a
\* match is made for or undone.
Together ==
    {{i} : i \in Items}
      \cup {{lost, found} : lost \in LostItems, found \in FoundItems}

B == INSTANCE Board WITH board <- Shown

\* The search for matches may take the posts to change as Board says, however
\* requests overlap: a deleted post never comes back, though a request that read
\* it before still writes it, and one commit opens or closes one post, or a lost
\* one with a found one.
ImplementsBoard == B!Spec

-----------------------------------------------------------------------------
(* What holds only while requests do not get in each other's way: no two    *)
(* are about one post, and no location is retired under a request that      *)
(* checks it.                                                               *)

Unmatching(slot) == slot.at \in {"unmatchLost", "unmatchFound", "deleteMatch"}

\* The request reads or writes post i.
Touches(slot, i) ==
    \/ /\ slot.at \in {"readNewPlace", "updateItem", "readOwnPlace",
                       "setItemStatus", "deleteItem"}
       /\ i = slot.item
    \/ /\ slot.at \in {"readFound", "insertMatch"}
       /\ i \in {slot.lost, slot.found}
    \/ /\ Unmatching(slot)
       /\ i \in Partners(slot.match)

\* The request has checked, or will check, that location l is active.
ReliesOn(slot, l) ==
    \/ /\ slot.at \in {"insertItem", "readNewPlace", "updateItem", "readOwnPlace"}
       /\ l = slot.location
    \/ /\ slot.at = "setItemStatus" /\ slot.new = "open"
       /\ l = place[slot.item]

Retires(slot, l) ==
    slot.at = "setActive" /\ slot.location = l /\ slot.new = "retired"

\* The requests in progress overlap, but are apart.  A location that is hard
\* deleted while posts are put there, or deleted twice, needs no such rule: the
\* foreign key settles it in the commit.
Apart ==
    \A q, r \in Requests : q # r =>
        /\ \A i \in Items : ~(Touches(requests[q], i) /\ Touches(requests[r], i))
        /\ \A l \in Locations :
              ~(ReliesOn(requests[q], l) /\ Retires(requests[r], l))

\* A request begins only when it is apart from those in progress.
NextApart ==
    \/ \E r \in Requests : (Begin(r) /\ Apart') \/ Continue(r)
    \/ \E l \in Locations : CreateLocation(l)

SpecApart == Init /\ [][NextApart]_vars

L == INSTANCE Lifecycle

\* The handlers implement the lifecycle the documentation describes.
ImplementsLifecycle == L!Spec

\* routers/matches.py and the error contract: a post that is not open is
\* refused with 409 ITEM_NOT_OPEN, so no post is in two matches.
OneMatchPerPost == L!OneMatchPerPost

\* The status column and the matches table agree.
StatusAgreesWithMatches == L!StatusAgreesWithMatches

\* "One already marked 'returned' stays returned": crud.delete_match.
ReturnedIsFinal == L!ReturnedIsFinal

=============================================================================
