----------------------------- MODULE PostsProofs -----------------------------
(***************************************************************************)
(* What holds of the posts, matches and locations for any number of        *)
(* overlapping requests: the types, the foreign keys as the handlers rely  *)
(* on them, that no post is stranded as matched, and that the search for   *)
(* matches sees posts change only as Board says.                           *)
(***************************************************************************)
EXTENDS Posts, TLAPS

-----------------------------------------------------------------------------
(* Requests in progress *)

\* What TypeOK says of a request, by where it is.
LEMMA SlotFields ==
    ASSUME TypeOK, NEW r \in Requests
    PROVE  /\ requests[r] \in Slot
           /\ requests[r].at \in {"insertItem", "countItems", "deleteLocation"} =>
                 requests[r].location \in Locations
           /\ requests[r].at = "setActive" =>
                 /\ requests[r].location \in Locations
                 /\ requests[r].new \in {"active", "retired"}
           /\ requests[r].at \in {"readNewPlace", "readOwnPlace"} =>
                 /\ requests[r].item \in Items
                 /\ requests[r].location \in Locations
           /\ requests[r].at = "updateItem" =>
                 /\ requests[r].item \in Items
                 /\ requests[r].location \in Locations \cup {NoLocation}
           /\ requests[r].at = "setItemStatus" =>
                 /\ requests[r].item \in Items
                 /\ requests[r].new \in Statuses
           /\ requests[r].at = "deleteItem" => requests[r].item \in Items
           /\ requests[r].at \in {"readFound", "insertMatch"} =>
                 requests[r].lost \in Items /\ requests[r].found \in Items
           /\ requests[r].at \in {"unmatchLost", "unmatchFound", "deleteMatch"} =>
                 requests[r].match \in MatchRow
           /\ requests[r].at \in {"unmatchFound", "deleteMatch"} =>
                 requests[r].reopen \subseteq Items
<1>1. requests[r] \in Slot
  BY DEF TypeOK
<1> HIDE DEF TypeOK
<1> QED
  BY <1>1 DEF Slot, Idle, InsertItemSlot, ReadPlaceSlot, UpdateItemSlot,
       ReopenSlot, SetStatusSlot, DeleteItemSlot, ReadFoundSlot,
       InsertMatchSlot, UnmatchLostSlot, UnmatchFoundSlot, DeleteMatchSlot,
       SetActiveSlot, CountItemsSlot, DeletePlaceSlot

\* Requests keep their type when one of them gets a slot of Slot.
LEMMA GoKeepsType ==
    ASSUME TypeOK, NEW r \in Requests, NEW slot \in Slot, Go(r, slot)
    PROVE  requests' \in [Requests -> Slot]
BY DEF Go, TypeOK

LEMMA IdleIsSlot == Idle \in Slot
BY DEF Slot

\* A step that only moves a request on, or refuses it, keeps types and places.
LEMMA ReadKeepsType ==
    ASSUME TypeOK, PostsHaveAPlace, requests' \in [Requests -> Slot],
           UNCHANGED tables
    PROVE  TypeOK' /\ PostsHaveAPlace'
BY DEF TypeOK, PostsHaveAPlace, HasRow, Exists, tables

-----------------------------------------------------------------------------
(* Types and foreign keys of the tables *)

LEMMA BeginKeepsType ==
    ASSUME TypeOK, PostsHaveAPlace, NEW r \in Requests, Begin(r)
    PROVE  TypeOK' /\ PostsHaveAPlace'
<1> SUFFICES /\ requests' \in [Requests -> Slot]
             /\ UNCHANGED tables
  BY ReadKeepsType
<1>1. ASSUME NEW l \in Locations, BeginCreateItem(r, l)
      PROVE  requests' \in [Requests -> Slot] /\ UNCHANGED tables
  <2>1. [at |-> "insertItem", location |-> l] \in Slot
    BY DEF Slot, InsertItemSlot
  <2> QED
    BY <1>1, <2>1, GoKeepsType DEF BeginCreateItem
<1>2. ASSUME NEW i \in Items, NEW l \in Locations \cup {NoLocation},
             BeginUpdateItem(r, i, l)
      PROVE  requests' \in [Requests -> Slot] /\ UNCHANGED tables
  <2>1. [at |-> "updateItem", item |-> i, location |-> NoLocation] \in Slot
    BY DEF Slot, UpdateItemSlot
  <2>2. l # NoLocation =>
           [at |-> "readNewPlace", item |-> i, location |-> l] \in Slot
    BY DEF Slot, ReadPlaceSlot
  <2> QED
    BY <1>2, <2>1, <2>2, GoKeepsType DEF BeginUpdateItem
<1>3. ASSUME NEW i \in Items, NEW new \in Statuses, BeginSetStatus(r, i, new)
      PROVE  requests' \in [Requests -> Slot] /\ UNCHANGED tables
  <2>1. place[i] \in Locations
    BY <1>3 DEF BeginSetStatus, MayChange, PostsHaveAPlace
  <2>2. [at |-> "readOwnPlace", item |-> i, location |-> place[i]] \in Slot
    BY <2>1 DEF Slot, ReopenSlot
  <2>3. [at |-> "setItemStatus", item |-> i, new |-> new] \in Slot
    BY DEF Slot, SetStatusSlot
  <2> QED
    BY <1>3, <2>2, <2>3, GoKeepsType DEF BeginSetStatus
<1>4. ASSUME NEW i \in Items, BeginDeleteItem(r, i)
      PROVE  requests' \in [Requests -> Slot] /\ UNCHANGED tables
  <2>1. [at |-> "deleteItem", item |-> i] \in Slot
    BY DEF Slot, DeleteItemSlot
  <2> QED
    BY <1>4, <2>1, GoKeepsType DEF BeginDeleteItem
<1>5. ASSUME NEW lost \in Items, NEW found \in Items,
             BeginCreateMatch(r, lost, found)
      PROVE  requests' \in [Requests -> Slot] /\ UNCHANGED tables
  <2>1. [at |-> "readFound", lost |-> lost, found |-> found,
         lostOpen |-> status[lost] = "open"] \in Slot
    BY DEF Slot, ReadFoundSlot
  <2> QED
    BY <1>5, <2>1, GoKeepsType DEF BeginCreateMatch
<1>6. ASSUME NEW m \in matches, BeginDeleteMatch(r, m)
      PROVE  requests' \in [Requests -> Slot] /\ UNCHANGED tables
  <2>1. [at |-> "unmatchLost", match |-> m] \in Slot
    BY DEF Slot, UnmatchLostSlot, TypeOK
  <2> QED
    BY <1>6, <2>1, GoKeepsType DEF BeginDeleteMatch
<1>7. ASSUME NEW l \in Locations, NEW new \in {"active", "retired"},
             BeginSetActive(r, l, new)
      PROVE  requests' \in [Requests -> Slot] /\ UNCHANGED tables
  <2>1. [at |-> "setActive", location |-> l, new |-> new] \in Slot
    BY DEF Slot, SetActiveSlot
  <2> QED
    BY <1>7, <2>1, GoKeepsType DEF BeginSetActive
<1>8. ASSUME NEW l \in Locations, BeginDeleteLocation(r, l)
      PROVE  requests' \in [Requests -> Slot] /\ UNCHANGED tables
  <2>1. [at |-> "countItems", location |-> l] \in Slot
    BY DEF Slot, CountItemsSlot
  <2> QED
    BY <1>8, <2>1, GoKeepsType DEF BeginDeleteLocation
<1> QED
  BY <1>1, <1>2, <1>3, <1>4, <1>5, <1>6, <1>7, <1>8 DEF Begin

LEMMA ContinueKeepsType ==
    ASSUME TypeOK, PostsHaveAPlace, NEW r \in Requests, Continue(r)
    PROVE  TypeOK' /\ PostsHaveAPlace'
<1>1. Finish(r) => requests' \in [Requests -> Slot]
  BY GoKeepsType, IdleIsSlot DEF Finish
<1>2. Refuse(r) => TypeOK' /\ PostsHaveAPlace'
  BY <1>1, ReadKeepsType DEF Refuse
<1>3. CASE InsertItem(r)
  <2>1. CASE Exists(requests[r].location)
    <3> DEFINE l == requests[r].location
    <3>1. l \in Locations
      BY <1>3, SlotFields DEF InsertItem
    <3>2. PICK i \in Items :
             /\ status' = [status EXCEPT ![i] = "open"]
             /\ place' = [place EXCEPT ![i] = l]
      BY <1>3, <2>1 DEF InsertItem
    <3>3. Finish(r) /\ UNCHANGED <<matches, usedIds, locations>>
      BY <1>3, <2>1 DEF InsertItem
    <3>4. TypeOK'
      BY <1>1, <3>1, <3>2, <3>3 DEF TypeOK, Statuses
    <3>5. PostsHaveAPlace'
      BY <2>1, <3>1, <3>2, <3>3 DEF TypeOK, PostsHaveAPlace, HasRow, Exists
    <3> QED
      BY <3>4, <3>5
  <2> QED
    BY <1>2, <1>3, <2>1 DEF InsertItem
<1>4. CASE ReadNewPlace(r)
  <2>1. [at |-> "updateItem", item |-> requests[r].item,
         location |-> requests[r].location] \in Slot
    BY <1>4, SlotFields DEF ReadNewPlace, Slot, UpdateItemSlot
  <2> QED
    BY <1>2, <1>4, <2>1, GoKeepsType, ReadKeepsType DEF ReadNewPlace
<1>5. CASE UpdateItem(r)
  <2> DEFINE i == requests[r].item
             l == requests[r].location
  <2>1. i \in Items /\ l \in Locations \cup {NoLocation}
    BY <1>5, SlotFields DEF UpdateItem
  <2>2. CASE HasRow(i) /\ (l = NoLocation \/ Exists(l))
    <3>1. /\ place' = IF l = NoLocation THEN place ELSE [place EXCEPT ![i] = l]
          /\ Finish(r)
          /\ UNCHANGED <<status, matches, usedIds, locations>>
      BY <1>5, <2>2 DEF UpdateItem
    <3>2. TypeOK'
      BY <1>1, <2>1, <3>1 DEF TypeOK
    <3>3. PostsHaveAPlace'
      BY <2>1, <2>2, <3>1 DEF TypeOK, PostsHaveAPlace, HasRow, Exists
    <3> QED
      BY <3>2, <3>3
  <2> QED
    BY <1>2, <1>5, <2>2 DEF UpdateItem
<1>6. CASE ReadOwnPlace(r)
  <2>1. [at |-> "setItemStatus", item |-> requests[r].item, new |-> "open"]
           \in Slot
    BY <1>6, SlotFields DEF ReadOwnPlace, Slot, SetStatusSlot, Statuses
  <2> QED
    BY <1>2, <1>6, <2>1, GoKeepsType, ReadKeepsType DEF ReadOwnPlace
<1>7. CASE SetItemStatus(r)
  <2>1. requests[r].item \in Items /\ requests[r].new \in Statuses
    BY <1>7, SlotFields DEF SetItemStatus
  <2>2. CASE HasRow(requests[r].item)
    <3>1. /\ status' = [status EXCEPT ![requests[r].item] = requests[r].new]
          /\ Finish(r)
          /\ UNCHANGED <<place, matches, usedIds, locations>>
      BY <1>7, <2>2 DEF SetItemStatus
    <3> QED
      BY <1>1, <2>1, <2>2, <3>1 DEF TypeOK, PostsHaveAPlace, HasRow, Exists
  <2> QED
    BY <1>2, <1>7, <2>2 DEF SetItemStatus
<1>8. CASE DeleteItem(r)
  <2> DEFINE i == requests[r].item
  <2>1. i \in Items
    BY <1>8, SlotFields DEF DeleteItem
  <2>2. CASE HasRow(i) /\ ~Referenced(i)
    <3>1. /\ status' = [status EXCEPT ![i] = "deleted"]
          /\ place' = [place EXCEPT ![i] = NoLocation]
          /\ Finish(r)
          /\ UNCHANGED <<matches, usedIds, locations>>
      BY <1>8, <2>2 DEF DeleteItem
    <3> QED
      BY <1>1, <2>1, <3>1 DEF TypeOK, PostsHaveAPlace, HasRow, Exists, Statuses
  <2> QED
    BY <1>2, <1>8, <2>2 DEF DeleteItem
<1>9. CASE ReadFound(r)
  <2>1. [at |-> "insertMatch", lost |-> requests[r].lost,
         found |-> requests[r].found] \in Slot
    BY <1>9, SlotFields DEF ReadFound, Slot, InsertMatchSlot
  <2> QED
    BY <1>2, <1>9, <2>1, GoKeepsType, ReadKeepsType DEF ReadFound
<1>10. CASE InsertMatch(r)
  <2> DEFINE lost == requests[r].lost
             found == requests[r].found
             taken == \E m \in matches : m.lost = lost /\ m.found = found
  <2>1. lost \in Items /\ found \in Items
    BY <1>10, SlotFields DEF InsertMatch
  <2>2. CASE HasRow(lost) /\ HasRow(found) /\ ~taken
    <3>1. /\ \E id \in MatchIds \ usedIds :
                /\ usedIds' = usedIds \cup {id}
                /\ matches' = matches \cup
                      {[id |-> id, lost |-> lost, found |-> found]}
          /\ status' = [status EXCEPT ![lost] = "matched", ![found] = "matched"]
          /\ Finish(r)
          /\ UNCHANGED <<place, locations>>
      BY <1>10, <2>2 DEF InsertMatch
    <3>2. usedIds' \subseteq MatchIds /\ matches' \subseteq MatchRow
      BY <2>1, <3>1 DEF TypeOK, MatchRow
    <3>3. /\ status' \in [Items -> Statuses \cup {"unused", "deleted"}]
          /\ \A i \in Items : status'[i] \in Statuses => status[i] \in Statuses
      BY <2>1, <2>2, <3>1 DEF TypeOK, HasRow, Statuses
    <3>4. TypeOK'
      BY <1>1, <3>1, <3>2, <3>3 DEF TypeOK
    <3>5. PostsHaveAPlace'
      BY <3>1, <3>3 DEF PostsHaveAPlace, HasRow, Exists
    <3> QED
      BY <3>4, <3>5
  <2> QED
    BY <1>2, <1>10, <2>2 DEF InsertMatch
<1>11. CASE ReadLostOfMatch(r)
  <2> DEFINE m == requests[r].match
  <2>1. m \in MatchRow
    BY <1>11, SlotFields DEF ReadLostOfMatch
  <2>2. [at |-> "unmatchFound", match |-> m, reopen |-> ToReopen(m.lost)] \in Slot
    BY <2>1 DEF Slot, UnmatchFoundSlot, ToReopen, MatchRow
  <2> QED
    BY <1>11, <2>2, GoKeepsType, ReadKeepsType DEF ReadLostOfMatch
<1>12. CASE ReadFoundOfMatch(r)
  <2> DEFINE m == requests[r].match
  <2>1. m \in MatchRow /\ requests[r].reopen \subseteq Items
    BY <1>12, SlotFields DEF ReadFoundOfMatch
  <2>2. [at |-> "deleteMatch", match |-> m,
         reopen |-> requests[r].reopen \cup ToReopen(m.found)] \in Slot
    BY <2>1 DEF Slot, DeleteMatchSlot, ToReopen, MatchRow
  <2> QED
    BY <1>12, <2>2, GoKeepsType, ReadKeepsType DEF ReadFoundOfMatch
<1>13. CASE DeleteMatch(r)
  <2> DEFINE reopen == requests[r].reopen
  <2>1. CASE \A i \in reopen : HasRow(i)
    <3>1. /\ matches' \subseteq matches
          /\ status' = [i \in Items |-> IF i \in reopen THEN "open" ELSE status[i]]
          /\ Finish(r)
          /\ UNCHANGED <<place, usedIds, locations>>
      BY <1>13, <2>1 DEF DeleteMatch
    <3>2. \A i \in Items : status'[i] \in Statuses => status[i] \in Statuses
      BY <2>1, <3>1 DEF HasRow
    <3>3. TypeOK'
      BY <1>1, <3>1 DEF TypeOK, Statuses
    <3>4. PostsHaveAPlace'
      BY <3>1, <3>2 DEF PostsHaveAPlace, HasRow, Exists
    <3> QED
      BY <3>3, <3>4
  <2> QED
    BY <1>2, <1>13, <2>1 DEF DeleteMatch
<1>14. CASE SetLocationActive(r)
  <2> DEFINE l == requests[r].location
  <2>1. l \in Locations /\ requests[r].new \in {"active", "retired"}
    BY <1>14, SlotFields DEF SetLocationActive
  <2>2. CASE Exists(l)
    <3>1. /\ locations' = [locations EXCEPT ![l] = requests[r].new]
          /\ Finish(r)
          /\ UNCHANGED <<status, place, matches, usedIds>>
      BY <1>14, <2>2 DEF SetLocationActive
    <3> QED
      BY <1>1, <2>1, <3>1 DEF TypeOK, PostsHaveAPlace, HasRow, Exists
  <2> QED
    BY <1>2, <1>14, <2>2 DEF SetLocationActive
<1>15. CASE CountItems(r)
  <2>1. [at |-> "deleteLocation", location |-> requests[r].location] \in Slot
    BY <1>15, SlotFields DEF CountItems, Slot, DeletePlaceSlot
  <2> QED
    BY <1>2, <1>15, <2>1, GoKeepsType, ReadKeepsType DEF CountItems
<1>16. CASE DeleteLocation(r)
  <2> DEFINE l == requests[r].location
  <2>1. l \in Locations
    BY <1>16, SlotFields DEF DeleteLocation
  <2>2. CASE Exists(l) /\ ~InUse(l)
    <3>1. /\ locations' = [locations EXCEPT ![l] = "deleted"]
          /\ Finish(r)
          /\ UNCHANGED <<status, place, matches, usedIds>>
      BY <1>16, <2>2 DEF DeleteLocation
    <3>2. \A i \in Items : place[i] # l
      BY <2>2 DEF InUse
    <3> QED
      BY <1>1, <2>1, <3>1, <3>2 DEF TypeOK, PostsHaveAPlace, HasRow, Exists
  <2> QED
    BY <1>2, <1>16, <2>2 DEF DeleteLocation
<1> QED
  BY <1>3, <1>4, <1>5, <1>6, <1>7, <1>8, <1>9, <1>10, <1>11, <1>12, <1>13,
     <1>14, <1>15, <1>16 DEF Continue

LEMMA TypeInitStep ==
    /\ Init => TypeOK /\ PostsHaveAPlace
    /\ TypeOK /\ PostsHaveAPlace /\ [Next]_vars => (TypeOK /\ PostsHaveAPlace)'
<1>1. Init => TypeOK /\ PostsHaveAPlace
  BY IdleIsSlot DEF Init, TypeOK, PostsHaveAPlace, HasRow, Statuses
<1>2. ASSUME TypeOK, PostsHaveAPlace, NEW l \in Locations, CreateLocation(l)
      PROVE  TypeOK' /\ PostsHaveAPlace'
  BY <1>2 DEF CreateLocation, TypeOK, PostsHaveAPlace, HasRow, Exists
<1>3. TypeOK /\ PostsHaveAPlace /\ UNCHANGED vars => (TypeOK /\ PostsHaveAPlace)'
  BY DEF TypeOK, PostsHaveAPlace, HasRow, Exists, vars
<1> QED
  BY <1>1, <1>2, <1>3, BeginKeepsType, ContinueKeepsType DEF Next

\* The tables and the requests in progress keep their types, whatever a
\* request has read and however long ago.
THEOREM PostsTypeCorrect == Spec => []TypeOK
<1> QED
  BY TypeInitStep, PTL DEF Spec

\* The foreign key from posts to locations: hard deleting a location never
\* leaves a post behind, for any number of requests.
THEOREM PostsKeepTheirPlace == Spec => []PostsHaveAPlace
<1> QED
  BY TypeInitStep, PTL DEF Spec

-----------------------------------------------------------------------------
(* Matches.  NoPostStranded is not inductive: deleting a match may strand a *)
(* post the request read as not matched.  The reason it does not is that    *)
(* the confirmation that made the post matched came after that read, so it  *)
(* left another match, one that no unmatch in progress has read past.  That *)
(* match is the witness NoneForgotten keeps.                                *)

\* The request has read post i of match m, and not as matched.
PassesOver(slot, m, i) ==
    \/ /\ slot.at = "unmatchFound" /\ slot.match = m
       /\ i = m.lost /\ i \notin slot.reopen
    \/ /\ slot.at = "deleteMatch" /\ slot.match = m
       /\ i \in Partners(m) /\ i \notin slot.reopen

NoneForgotten ==
    \A i \in Items : status[i] = "matched" =>
        \E m \in matches :
            /\ i \in Partners(m)
            /\ \A q \in Requests : ~PassesOver(requests[q], m, i)

\* What a request carries to its commit.
SlotIsSound(slot) ==
    /\ slot.at = "insertMatch" => slot.lost \in LostItems /\ slot.found \in FoundItems
    /\ slot.at = "setItemStatus" => slot.new # "matched"
    /\ Unmatching(slot) =>
          /\ slot.match.id \in usedIds
          /\ \A m \in matches : m.id = slot.match.id => m = slot.match

IdsNameRows ==
    /\ \A m \in matches : m.id \in usedIds
    /\ \A m, n \in matches : m.id = n.id => m = n

MatchInv ==
    /\ MatchesAreSound
    /\ IdsNameRows
    /\ \A q \in Requests : SlotIsSound(requests[q])
    /\ NoneForgotten

\* A step of request r that leaves the matches alone, makes no post matched,
\* and passes over no matched post.
LEMMA MatchesUntouched ==
    ASSUME TypeOK, MatchInv, NEW r \in Requests, NEW slot, Go(r, slot),
           SlotIsSound(slot), matches' = matches, usedIds' = usedIds,
           \A i \in Items : status'[i] = "matched" =>
              /\ status[i] = "matched"
              /\ \A m \in matches :
                    PassesOver(slot, m, i) => PassesOver(requests[r], m, i),
           \A i \in Items : HasRow(i) /\ Referenced(i) => status'[i] \in Statuses
    PROVE  MatchInv'
<1>1. \A q \in Requests : requests'[q] = IF q = r THEN slot ELSE requests[q]
  BY DEF Go, TypeOK
<1>2. MatchesAreSound'
  BY DEF MatchInv, MatchesAreSound, HasRow, Referenced, Partners, Items
<1>3. IdsNameRows'
  BY DEF MatchInv, IdsNameRows
<1>4. \A q \in Requests : SlotIsSound(requests[q])'
  BY <1>1 DEF MatchInv, SlotIsSound, Unmatching
<1>5. NoneForgotten'
  <2> SUFFICES ASSUME NEW i \in Items, status'[i] = "matched"
               PROVE  \E m \in matches' :
                         /\ i \in Partners(m)
                         /\ \A q \in Requests : ~PassesOver(requests'[q], m, i)
    BY DEF NoneForgotten, PassesOver, Partners
  <2>1. PICK m \in matches :
           /\ i \in Partners(m)
           /\ \A q \in Requests : ~PassesOver(requests[q], m, i)
    BY DEF MatchInv, NoneForgotten
  <2>2. ~PassesOver(slot, m, i)
    BY <2>1
  <2> QED
    BY <1>1, <2>1, <2>2
<1> QED
  BY <1>2, <1>3, <1>4, <1>5 DEF MatchInv

\* A new match is a witness for its two posts: its id is new, so no unmatch in
\* progress is about it.
LEMMA InsertMatchStep ==
    ASSUME TypeOK, MatchInv, NEW r \in Requests, requests[r].at = "insertMatch",
           NEW id \in MatchIds \ usedIds, NEW row,
           row = [id |-> id, lost |-> requests[r].lost, found |-> requests[r].found],
           HasRow(row.lost), HasRow(row.found),
           \A m \in matches : ~(m.lost = row.lost /\ m.found = row.found),
           usedIds' = usedIds \cup {id},
           matches' = matches \cup {row},
           status' = [status EXCEPT ![row.lost] = "matched",
                                    ![row.found] = "matched"],
           Finish(r)
    PROVE  MatchInv'
<1>1. \A q \in Requests : requests'[q] = IF q = r THEN Idle ELSE requests[q]
  BY DEF Finish, Go, TypeOK
<1>2. row.lost \in LostItems /\ row.found \in FoundItems /\ row.id = id
  BY DEF MatchInv, SlotIsSound
<1>3. \A i \in Items : status'[i] = IF i \in Partners(row) THEN "matched"
                                     ELSE status[i]
  BY <1>2 DEF TypeOK, Partners, Items
<1>4. MatchesAreSound'
  <2>1. \A i \in Items : HasRow(i) => status'[i] \in Statuses
    BY <1>3 DEF HasRow, Statuses
  <2>2. \A m \in matches' :
           /\ m.lost \in LostItems /\ status'[m.lost] \in Statuses
           /\ m.found \in FoundItems /\ status'[m.found] \in Statuses
    BY <1>2, <2>1 DEF MatchInv, MatchesAreSound, Items
  <2>3. \A m, n \in matches' : m.lost = n.lost /\ m.found = n.found => m = n
    BY DEF MatchInv, MatchesAreSound
  <2> QED
    BY <2>2, <2>3 DEF MatchesAreSound, HasRow
<1>5. IdsNameRows'
  BY <1>2 DEF MatchInv, IdsNameRows
<1>6. \A q \in Requests : SlotIsSound(requests[q])'
  BY <1>1, <1>2 DEF MatchInv, SlotIsSound, Unmatching, Idle
<1>7. \A q \in Requests : \A i : ~PassesOver(requests'[q], row, i)
  <2> SUFFICES ASSUME NEW q \in Requests, Unmatching(requests'[q])
               PROVE  requests'[q].match # row
    BY DEF PassesOver, Unmatching
  <2>1. requests'[q] = requests[q]
    BY <1>1 DEF Unmatching, Idle
  <2> QED
    BY <1>2, <2>1 DEF MatchInv, SlotIsSound
<1>8. NoneForgotten'
  <2> SUFFICES ASSUME NEW i \in Items, status'[i] = "matched"
               PROVE  \E m \in matches' :
                         /\ i \in Partners(m)
                         /\ \A q \in Requests : ~PassesOver(requests'[q], m, i)
    BY DEF NoneForgotten, PassesOver, Partners
  <2>1. CASE i \in Partners(row)
    BY <2>1, <1>7
  <2>2. CASE i \notin Partners(row)
    <3>1. PICK m \in matches :
             /\ i \in Partners(m)
             /\ \A q \in Requests : ~PassesOver(requests[q], m, i)
      BY <2>2, <1>3 DEF MatchInv, NoneForgotten
    <3>2. \A q \in Requests : ~PassesOver(requests'[q], m, i)
      BY <1>1, <3>1 DEF PassesOver, Idle
    <3> QED
      BY <3>1, <3>2
  <2> QED
    BY <2>1, <2>2
<1> QED
  BY <1>4, <1>5, <1>6, <1>8 DEF MatchInv

\* Deleting a match: a post that stays matched was not read as matched by this
\* request, so its witness is another match.
LEMMA DeleteMatchStep ==
    ASSUME TypeOK, MatchInv, NEW r \in Requests, requests[r].at = "deleteMatch",
           \A i \in requests[r].reopen : HasRow(i),
           matches' = {n \in matches : n.id # requests[r].match.id},
           status' = [i \in Items |-> IF i \in requests[r].reopen
                                      THEN "open" ELSE status[i]],
           usedIds' = usedIds,
           Finish(r)
    PROVE  MatchInv'
<1> DEFINE gone == requests[r].match
<1>1. \A q \in Requests : requests'[q] = IF q = r THEN Idle ELSE requests[q]
  BY DEF Finish, Go, TypeOK
<1>2. \A m \in matches : m.id = gone.id => m = gone
  BY DEF MatchInv, SlotIsSound, Unmatching
<1>3. MatchesAreSound'
  BY DEF MatchInv, MatchesAreSound, HasRow, Statuses, Items
<1>4. IdsNameRows'
  BY DEF MatchInv, IdsNameRows
<1>5. \A q \in Requests : SlotIsSound(requests[q])'
  BY <1>1 DEF MatchInv, SlotIsSound, Unmatching, Idle
<1>6. NoneForgotten'
  <2> SUFFICES ASSUME NEW i \in Items, status'[i] = "matched"
               PROVE  \E m \in matches' :
                         /\ i \in Partners(m)
                         /\ \A q \in Requests : ~PassesOver(requests'[q], m, i)
    BY DEF NoneForgotten, PassesOver, Partners
  <2>1. status[i] = "matched" /\ i \notin requests[r].reopen
    OBVIOUS
  <2>2. PICK m \in matches :
           /\ i \in Partners(m)
           /\ \A q \in Requests : ~PassesOver(requests[q], m, i)
    BY <2>1 DEF MatchInv, NoneForgotten
  <2>3. m # gone
    BY <2>1, <2>2 DEF PassesOver
  <2>4. m \in matches'
    BY <1>2, <2>2, <2>3
  <2>5. \A q \in Requests : ~PassesOver(requests'[q], m, i)
    BY <1>1, <2>2 DEF PassesOver, Idle
  <2> QED
    BY <2>2, <2>4, <2>5
<1> QED
  BY <1>3, <1>4, <1>5, <1>6 DEF MatchInv

\* "matched" is in no entry of CLIENT_TRANSITIONS.
LEMMA ClientsCannotMatch ==
    ASSUME NEW s \in Statuses
    PROVE  "matched" \notin ClientTransitions[s]
BY DEF ClientTransitions, Statuses

\* New requests: an unmatch starts from a row of matches.
LEMMA BeginKeepsMatches ==
    ASSUME TypeOK, MatchInv, NEW r \in Requests, Begin(r)
    PROVE  MatchInv'
<1> SUFFICES ASSUME NEW slot, Go(r, slot), UNCHANGED tables, SlotIsSound(slot),
                    \A m, i : ~PassesOver(slot, m, i)
             PROVE  MatchInv'
  <2>1. ASSUME NEW l \in Locations, BeginCreateItem(r, l)
        PROVE  MatchInv'
    BY <2>1 DEF BeginCreateItem, SlotIsSound, Unmatching, PassesOver
  <2>2. ASSUME NEW i \in Items, NEW l \in Locations \cup {NoLocation},
               BeginUpdateItem(r, i, l)
        PROVE  MatchInv'
    <3>1. CASE l \in {NoLocation, place[i]}
      BY <2>2, <3>1 DEF BeginUpdateItem, SlotIsSound, Unmatching, PassesOver
    <3>2. CASE l \notin {NoLocation, place[i]}
      BY <2>2, <3>2 DEF BeginUpdateItem, SlotIsSound, Unmatching, PassesOver
    <3> QED
      BY <3>1, <3>2
  <2>3. ASSUME NEW i \in Items, NEW new \in Statuses, BeginSetStatus(r, i, new)
        PROVE  MatchInv'
    <3>1. new # "matched"
      BY <2>3, ClientsCannotMatch DEF BeginSetStatus, MayChange, HasRow
    <3>2. CASE new = "open"
      BY <2>3, <3>2 DEF BeginSetStatus, SlotIsSound, Unmatching, PassesOver
    <3>3. CASE new # "open"
      BY <2>3, <3>1, <3>3 DEF BeginSetStatus, SlotIsSound, Unmatching, PassesOver
    <3> QED
      BY <3>2, <3>3
  <2>4. ASSUME NEW i \in Items, BeginDeleteItem(r, i)
        PROVE  MatchInv'
    BY <2>4 DEF BeginDeleteItem, SlotIsSound, Unmatching, PassesOver
  <2>5. ASSUME NEW lost \in Items, NEW found \in Items,
               BeginCreateMatch(r, lost, found)
        PROVE  MatchInv'
    BY <2>5 DEF BeginCreateMatch, SlotIsSound, Unmatching, PassesOver
  <2>6. ASSUME NEW m \in matches, BeginDeleteMatch(r, m)
        PROVE  MatchInv'
    <3> DEFINE slot == [at |-> "unmatchLost", match |-> m]
    <3>1. SlotIsSound(slot)
      BY DEF SlotIsSound, Unmatching, MatchInv, IdsNameRows
    <3>2. \A n, i : ~PassesOver(slot, n, i)
      BY DEF PassesOver
    <3> QED
      BY <2>6, <3>1, <3>2 DEF BeginDeleteMatch
  <2>7. ASSUME NEW l \in Locations, NEW new \in {"active", "retired"},
               BeginSetActive(r, l, new)
        PROVE  MatchInv'
    BY <2>7 DEF BeginSetActive, SlotIsSound, Unmatching, PassesOver
  <2>8. ASSUME NEW l \in Locations, BeginDeleteLocation(r, l)
        PROVE  MatchInv'
    BY <2>8 DEF BeginDeleteLocation, SlotIsSound, Unmatching, PassesOver
  <2> QED
    BY <2>1, <2>2, <2>3, <2>4, <2>5, <2>6, <2>7, <2>8 DEF Begin
<1> QED
  BY MatchesUntouched DEF tables, HasRow

LEMMA ContinueKeepsMatches ==
    ASSUME TypeOK, MatchInv, NEW r \in Requests, Continue(r)
    PROVE  MatchInv'
<1>1. SlotIsSound(Idle) /\ \A m, i : ~PassesOver(Idle, m, i)
  BY DEF SlotIsSound, Idle, Unmatching, PassesOver
\* A request that ends after changing no post to matched and removing no row
\* of a post in a match.
<1>2. ASSUME Finish(r), matches' = matches, usedIds' = usedIds,
             \A i \in Items : status'[i] = "matched" => status[i] = "matched",
             \A i \in Items : HasRow(i) /\ Referenced(i) => status'[i] \in Statuses
      PROVE  MatchInv'
  BY <1>1, <1>2, MatchesUntouched DEF Finish
<1>3. Finish(r) /\ UNCHANGED <<status, matches, usedIds>> => MatchInv'
  BY <1>2 DEF HasRow
<1>4. Refuse(r) => MatchInv'
  BY <1>3 DEF Refuse, tables
\* A read that passes over no post.
<1>5. ASSUME NEW slot, Go(r, slot), UNCHANGED tables, SlotIsSound(slot),
             \A i \in Items, m \in matches : status[i] = "matched" =>
                (PassesOver(slot, m, i) => PassesOver(requests[r], m, i))
      PROVE  MatchInv'
  BY <1>5, MatchesUntouched DEF tables, HasRow
<1>6. SlotIsSound(requests[r])
  BY DEF MatchInv
<1>7. CASE InsertItem(r)
  <2>1. ASSUME NEW i \in Items, status[i] = "unused",
               status' = [status EXCEPT ![i] = "open"], Finish(r),
               UNCHANGED <<matches, usedIds, locations>>
        PROVE  MatchInv'
    <3>1. \A j \in Items : status'[j] = IF j = i THEN "open" ELSE status[j]
      BY <2>1 DEF TypeOK
    <3> QED
      BY <1>2, <2>1, <3>1 DEF HasRow, Statuses
  <2> QED
    BY <1>4, <1>7, <2>1 DEF InsertItem
<1>8. CASE ReadNewPlace(r)
  <2> DEFINE slot == [at |-> "updateItem", item |-> requests[r].item,
                      location |-> requests[r].location]
  <2>1. SlotIsSound(slot) /\ \A m, i : ~PassesOver(slot, m, i)
    BY DEF SlotIsSound, Unmatching, PassesOver
  <2> QED
    BY <1>4, <1>5, <1>8, <2>1 DEF ReadNewPlace
<1>9. CASE UpdateItem(r)
  BY <1>3, <1>4, <1>9 DEF UpdateItem
<1>10. CASE ReadOwnPlace(r)
  <2> DEFINE slot == [at |-> "setItemStatus", item |-> requests[r].item,
                      new |-> "open"]
  <2>1. SlotIsSound(slot) /\ \A m, i : ~PassesOver(slot, m, i)
    BY DEF SlotIsSound, Unmatching, PassesOver
  <2> QED
    BY <1>4, <1>5, <1>10, <2>1 DEF ReadOwnPlace
<1>11. CASE SetItemStatus(r)
  <2>1. CASE HasRow(requests[r].item)
    <3>1. /\ requests[r].item \in Items
          /\ requests[r].new \in Statuses \ {"matched"}
      BY <1>6, <1>11, SlotFields DEF SetItemStatus, SlotIsSound
    <3>2. \A j \in Items : status'[j] = IF j = requests[r].item
                                        THEN requests[r].new ELSE status[j]
      BY <1>11, <2>1 DEF SetItemStatus, TypeOK
    <3> QED
      BY <1>2, <1>11, <2>1, <3>1, <3>2 DEF SetItemStatus, HasRow
  <2> QED
    BY <1>4, <1>11, <2>1 DEF SetItemStatus
<1>12. CASE DeleteItem(r)
  <2> DEFINE i == requests[r].item
  <2>1. CASE HasRow(i) /\ ~Referenced(i)
    <3>1. \A j \in Items : status'[j] = IF j = i THEN "deleted" ELSE status[j]
      BY <1>12, <2>1 DEF DeleteItem, TypeOK
    <3>2. \A j \in Items : HasRow(j) /\ Referenced(j) => status'[j] \in Statuses
      BY <2>1, <3>1 DEF HasRow
    <3>3. /\ Finish(r)
          /\ UNCHANGED <<matches, usedIds, locations>>
      BY <1>12, <2>1 DEF DeleteItem
    <3> QED
      BY <1>2, <3>1, <3>2, <3>3
  <2> QED
    BY <1>4, <1>12, <2>1 DEF DeleteItem
<1>13. CASE ReadFound(r)
  <2> DEFINE slot == [at |-> "insertMatch", lost |-> requests[r].lost,
                      found |-> requests[r].found]
  <2>1. CASE Pairable(requests[r].lost, requests[r].found, requests[r].lostOpen)
    <3>1. SlotIsSound(slot) /\ \A m, i : ~PassesOver(slot, m, i)
      BY <2>1 DEF Pairable, SlotIsSound, Unmatching, PassesOver
    <3> QED
      BY <1>5, <1>13, <2>1, <3>1 DEF ReadFound
  <2> QED
    BY <1>4, <1>13, <2>1 DEF ReadFound
<1>14. CASE InsertMatch(r)
  <2> DEFINE lost == requests[r].lost
             found == requests[r].found
             taken == \E m \in matches : m.lost = lost /\ m.found = found
  <2>1. CASE HasRow(lost) /\ HasRow(found) /\ ~taken
    <3>1. PICK id \in MatchIds \ usedIds :
             /\ usedIds' = usedIds \cup {id}
             /\ matches' = matches \cup {[id |-> id, lost |-> lost, found |-> found]}
      BY <1>14, <2>1 DEF InsertMatch
    <3>2. /\ status' = [status EXCEPT ![lost] = "matched", ![found] = "matched"]
          /\ Finish(r)
          /\ requests[r].at = "insertMatch"
      BY <1>14, <2>1 DEF InsertMatch
    <3> DEFINE row == [id |-> id, lost |-> lost, found |-> found]
    <3>3. row.lost = lost /\ row.found = found
      OBVIOUS
    <3>4. HasRow(row.lost) /\ HasRow(row.found)
      BY <2>1, <3>3
    <3>5. \A m \in matches : ~(m.lost = row.lost /\ m.found = row.found)
      BY <2>1, <3>3
    <3>6. status' = [status EXCEPT ![row.lost] = "matched",
                                   ![row.found] = "matched"]
      BY <3>2, <3>3
    <3> HIDE DEF row
    <3>7. row = [id |-> id, lost |-> lost, found |-> found]
      BY DEF row
    <3> QED
      BY <3>1, <3>2, <3>4, <3>5, <3>6, <3>7, InsertMatchStep
  <2> QED
    BY <1>4, <1>14, <2>1 DEF InsertMatch
<1>15. CASE ReadLostOfMatch(r)
  <2> DEFINE m == requests[r].match
             slot == [at |-> "unmatchFound", match |-> m,
                      reopen |-> ToReopen(m.lost)]
  <2>1. SlotIsSound(slot)
    BY <1>6, <1>15 DEF ReadLostOfMatch, SlotIsSound, Unmatching
  <2>2. \A i \in Items, n \in matches : status[i] = "matched" =>
           ~PassesOver(slot, n, i)
    BY DEF PassesOver, ToReopen
  <2> QED
    BY <1>5, <1>15, <2>1, <2>2 DEF ReadLostOfMatch
<1>16. CASE ReadFoundOfMatch(r)
  <2> DEFINE m == requests[r].match
             slot == [at |-> "deleteMatch", match |-> m,
                      reopen |-> requests[r].reopen \cup ToReopen(m.found)]
  <2>1. SlotIsSound(slot)
    BY <1>6, <1>16 DEF ReadFoundOfMatch, SlotIsSound, Unmatching
  <2>2. \A i \in Items, n \in matches : status[i] = "matched" =>
           (PassesOver(slot, n, i) => PassesOver(requests[r], n, i))
    BY <1>16 DEF ReadFoundOfMatch, PassesOver, ToReopen, Partners
  <2> QED
    BY <1>5, <1>16, <2>1, <2>2 DEF ReadFoundOfMatch
<1>17. CASE DeleteMatch(r)
  <2>1. CASE \A i \in requests[r].reopen : HasRow(i)
    BY <1>17, <2>1, DeleteMatchStep DEF DeleteMatch
  <2> QED
    BY <1>4, <1>17, <2>1 DEF DeleteMatch
<1>18. CASE SetLocationActive(r)
  BY <1>3, <1>4, <1>18 DEF SetLocationActive
<1>19. CASE CountItems(r)
  <2> DEFINE slot == [at |-> "deleteLocation", location |-> requests[r].location]
  <2>1. SlotIsSound(slot) /\ \A m, i : ~PassesOver(slot, m, i)
    BY DEF SlotIsSound, Unmatching, PassesOver
  <2> QED
    BY <1>4, <1>5, <1>19, <2>1 DEF CountItems
<1>20. CASE DeleteLocation(r)
  BY <1>3, <1>4, <1>20 DEF DeleteLocation
<1> QED
  BY <1>7, <1>8, <1>9, <1>10, <1>11, <1>12, <1>13, <1>14, <1>15, <1>16, <1>17,
     <1>18, <1>19, <1>20 DEF Continue

LEMMA MatchInvStep ==
    /\ Init => MatchInv
    /\ TypeOK /\ MatchInv /\ [Next]_vars => MatchInv'
<1>1. Init => MatchInv
  BY DEF Init, MatchInv, MatchesAreSound, IdsNameRows, SlotIsSound, Unmatching,
         NoneForgotten, Idle
<1>2. ASSUME MatchInv, UNCHANGED <<status, matches, usedIds, requests>>
      PROVE  MatchInv'
  BY <1>2 DEF MatchInv, MatchesAreSound, HasRow, IdsNameRows, SlotIsSound,
              Unmatching, NoneForgotten, PassesOver, Partners
<1>3. ASSUME NEW l \in Locations, CreateLocation(l)
      PROVE  UNCHANGED <<status, matches, usedIds, requests>>
  BY <1>3 DEF CreateLocation
<1> QED
  BY <1>1, <1>2, <1>3, BeginKeepsMatches, ContinueKeepsMatches DEF Next, vars

\* The invariant behind the two theorems below.
THEOREM PostsMatchInvariant == Spec => []MatchInv
<1> QED
  BY TypeInitStep, MatchInvStep, PTL DEF Spec

\* A match joins a lost and a found post that exist, once, for any number of
\* overlapping confirmations, unmatches and hard deletes.
THEOREM PostsMatchesAreSound == Spec => []MatchesAreSound
<1>1. MatchInv => MatchesAreSound
  BY DEF MatchInv
<1> QED
  BY <1>1, PostsMatchInvariant, PTL

\* No post is left matched without a match, although DELETE /matches reopens
\* only the posts it read as matched, some time before it commits.
THEOREM PostsNoneStranded == Spec => []NoPostStranded
<1>1. MatchInv => NoPostStranded
  BY DEF MatchInv, NoneForgotten, NoPostStranded, Referenced
<1> QED
  BY <1>1, PostsMatchInvariant, PTL

-----------------------------------------------------------------------------
(* The posts as the search for matches sees them.  Matching does not follow *)
(* the requests that change posts; it takes the changes from Board, and     *)
(* this refinement is what entitles it to.  An unmatch must not reopen more *)
(* than the two posts of its match, one lost and one found: UnmatchInv.     *)

UnmatchIsSound(slot) ==
    /\ Unmatching(slot) =>
          slot.match.lost \in LostItems /\ slot.match.found \in FoundItems
    /\ slot.at = "unmatchFound" => slot.reopen \subseteq {slot.match.lost}
    /\ slot.at = "deleteMatch" => slot.reopen \subseteq Partners(slot.match)

UnmatchInv == \A r \in Requests : UnmatchIsSound(requests[r])

LEMMA UnmatchKept ==
    ASSUME TypeOK, UnmatchInv, NEW r \in Requests, NEW slot, Go(r, slot),
           UnmatchIsSound(slot)
    PROVE  UnmatchInv'
<1>1. \A q \in Requests : requests'[q] = IF q = r THEN slot ELSE requests[q]
  BY DEF Go, TypeOK
<1> QED
  BY <1>1 DEF UnmatchInv, UnmatchIsSound, Unmatching, Partners

\* Requests that are not about a match.
LEMMA OthersAreSound ==
    ASSUME NEW slot, ~Unmatching(slot)
    PROVE  UnmatchIsSound(slot)
BY DEF UnmatchIsSound, Unmatching

LEMMA BeginKeepsUnmatch ==
    ASSUME TypeOK, MatchesAreSound, UnmatchInv, NEW r \in Requests, Begin(r)
    PROVE  UnmatchInv'
<1>1. ASSUME NEW m \in matches, BeginDeleteMatch(r, m)
      PROVE  UnmatchInv'
  <2>1. UnmatchIsSound([at |-> "unmatchLost", match |-> m])
    BY DEF MatchesAreSound, UnmatchIsSound
  <2> QED
    BY <1>1, <2>1, UnmatchKept DEF BeginDeleteMatch
<1>2. ASSUME NEW slot, Go(r, slot), ~Unmatching(slot)
      PROVE  UnmatchInv'
  BY <1>2, OthersAreSound, UnmatchKept
<1>3. ASSUME NEW l \in Locations, BeginCreateItem(r, l)
      PROVE  UnmatchInv'
  BY <1>2, <1>3 DEF BeginCreateItem, Unmatching
<1>4. ASSUME NEW i \in Items, NEW l \in Locations \cup {NoLocation},
             BeginUpdateItem(r, i, l)
      PROVE  UnmatchInv'
  <2>1. CASE l \in {NoLocation, place[i]}
    BY <1>2, <1>4, <2>1 DEF BeginUpdateItem, Unmatching
  <2>2. CASE l \notin {NoLocation, place[i]}
    BY <1>2, <1>4, <2>2 DEF BeginUpdateItem, Unmatching
  <2> QED
    BY <2>1, <2>2
<1>5. ASSUME NEW i \in Items, NEW new \in Statuses, BeginSetStatus(r, i, new)
      PROVE  UnmatchInv'
  <2>1. CASE new = "open"
    BY <1>2, <1>5, <2>1 DEF BeginSetStatus, Unmatching
  <2>2. CASE new # "open"
    BY <1>2, <1>5, <2>2 DEF BeginSetStatus, Unmatching
  <2> QED
    BY <2>1, <2>2
<1>6. ASSUME NEW i \in Items, BeginDeleteItem(r, i)
      PROVE  UnmatchInv'
  BY <1>2, <1>6 DEF BeginDeleteItem, Unmatching
<1>7. ASSUME NEW lost \in Items, NEW found \in Items,
             BeginCreateMatch(r, lost, found)
      PROVE  UnmatchInv'
  BY <1>2, <1>7 DEF BeginCreateMatch, Unmatching
<1>8. ASSUME NEW l \in Locations, NEW new \in {"active", "retired"},
             BeginSetActive(r, l, new)
      PROVE  UnmatchInv'
  BY <1>2, <1>8 DEF BeginSetActive, Unmatching
<1>9. ASSUME NEW l \in Locations, BeginDeleteLocation(r, l)
      PROVE  UnmatchInv'
  BY <1>2, <1>9 DEF BeginDeleteLocation, Unmatching
<1> QED
  BY <1>1, <1>3, <1>4, <1>5, <1>6, <1>7, <1>8, <1>9 DEF Begin

LEMMA ContinueKeepsUnmatch ==
    ASSUME TypeOK, UnmatchInv, NEW r \in Requests, Continue(r)
    PROVE  UnmatchInv'
<1>1. UnmatchIsSound(requests[r])
  BY DEF UnmatchInv
<1>2. ASSUME NEW slot, Go(r, slot), ~Unmatching(slot)
      PROVE  UnmatchInv'
  BY <1>2, OthersAreSound, UnmatchKept
<1>3. Finish(r) => UnmatchInv'
  BY <1>2 DEF Finish, Idle, Unmatching
<1>4. Refuse(r) => UnmatchInv'
  BY <1>3 DEF Refuse
<1>5. CASE ReadLostOfMatch(r)
  <2> DEFINE m == requests[r].match
             slot == [at |-> "unmatchFound", match |-> m,
                      reopen |-> ToReopen(m.lost)]
  <2>1. Go(r, slot) /\ Unmatching(requests[r])
    BY <1>5 DEF ReadLostOfMatch, Unmatching
  <2>2. UnmatchIsSound(slot)
    BY <1>1, <2>1 DEF UnmatchIsSound, Unmatching, ToReopen
  <2> QED
    BY <2>1, <2>2, UnmatchKept
<1>6. CASE ReadFoundOfMatch(r)
  <2> DEFINE m == requests[r].match
             slot == [at |-> "deleteMatch", match |-> m,
                      reopen |-> requests[r].reopen \cup ToReopen(m.found)]
  <2>1. Go(r, slot) /\ Unmatching(requests[r]) /\ requests[r].at = "unmatchFound"
    BY <1>6 DEF ReadFoundOfMatch, Unmatching
  <2>2. UnmatchIsSound(slot)
    BY <1>1, <2>1 DEF UnmatchIsSound, Unmatching, ToReopen, Partners
  <2> QED
    BY <2>1, <2>2, UnmatchKept
<1>7. CASE ReadNewPlace(r)
  BY <1>2, <1>4, <1>7 DEF ReadNewPlace, Unmatching
<1>8. CASE ReadOwnPlace(r)
  BY <1>2, <1>4, <1>8 DEF ReadOwnPlace, Unmatching
<1>9. CASE ReadFound(r)
  BY <1>2, <1>4, <1>9 DEF ReadFound, Unmatching
<1>10. CASE CountItems(r)
  BY <1>2, <1>4, <1>10 DEF CountItems, Unmatching
<1>11. CASE \/ InsertItem(r) \/ UpdateItem(r) \/ SetItemStatus(r)
            \/ DeleteItem(r) \/ InsertMatch(r) \/ DeleteMatch(r)
            \/ SetLocationActive(r) \/ DeleteLocation(r)
  BY <1>3, <1>4, <1>11 DEF InsertItem, UpdateItem, SetItemStatus, DeleteItem,
       InsertMatch, DeleteMatch, SetLocationActive, DeleteLocation
<1> QED
  BY <1>5, <1>6, <1>7, <1>8, <1>9, <1>10, <1>11 DEF Continue

LEMMA UnmatchInvStep ==
    /\ Init => UnmatchInv
    /\ TypeOK /\ MatchesAreSound /\ UnmatchInv /\ [Next]_vars => UnmatchInv'
<1>1. Init => UnmatchInv
  BY OthersAreSound DEF Init, UnmatchInv, Idle, Unmatching
<1>2. ASSUME UnmatchInv, requests' = requests
      PROVE  UnmatchInv'
  BY <1>2 DEF UnmatchInv, UnmatchIsSound, Unmatching, Partners
<1>3. ASSUME NEW l \in Locations, CreateLocation(l)
      PROVE  requests' = requests
  BY <1>3 DEF CreateLocation
<1> QED
  BY <1>1, <1>2, <1>3, BeginKeepsUnmatch, ContinueKeepsUnmatch DEF Next, vars

\* What one commit may change, it may change in part.
LEMMA PartOfTogether ==
    ASSUME NEW of \in Together, NEW part, part \subseteq of, part # {}
    PROVE  part \in Together
<1>1. ASSUME NEW i \in Items, of = {i}
      PROVE  part = {i}
  BY <1>1
<1>2. ASSUME NEW lost \in LostItems, NEW found \in FoundItems,
             of = {lost, found}
      PROVE  part \in {{lost}, {found}, {lost, found}}
  BY <1>2
<1> QED
  BY <1>1, <1>2 DEF Together, Items

\* A commit that gives the posts of a set, all of which have rows, a status.
LEMMA SetTogether ==
    ASSUME TypeOK, NEW of \in Together, \A i \in of : HasRow(i),
           NEW new \in Statuses,
           status' = [i \in Items |-> IF i \in of THEN new ELSE status[i]]
    PROVE  [B!Next]_Shown
<1>1. \A i \in of : i \in Items /\ Shown[i] \in {"open", "closed"}
  BY DEF Together, Items, Shown, HasRow, Statuses
<1>2. CASE new = "open"
  <2>1. Shown' = [i \in Items |-> IF i \in of THEN "open" ELSE Shown[i]]
    BY <1>2 DEF Shown
  <2>2. B!Reopen(of)
    BY <1>1, <2>1 DEF B!Reopen, B!OnBoard
  <2> QED
    BY <2>2 DEF B!Next
<1>3. CASE new # "open"
  <2> DEFINE closed == {i \in of : status[i] = "open"}
  <2>1. \A i \in Items : Shown'[i] = IF i \in closed THEN "closed" ELSE Shown[i]
    BY <1>3 DEF Shown, HasRow, Statuses
  <2>2. Shown' = [i \in Items |-> IF i \in closed THEN "closed" ELSE Shown[i]]
    BY <2>1 DEF Shown
  <2>3. CASE closed = {}
    <3>1. Shown' = Shown
      BY <2>1, <2>3 DEF Shown
    <3> QED
      BY <3>1
  <2>4. CASE closed # {}
    <3>1. closed \in Together
      BY <2>4, PartOfTogether
    <3>2. \A i \in closed : Shown[i] = "open"
      BY <1>1 DEF Shown
    <3>3. B!Close(closed)
      BY <2>2, <3>2 DEF B!Close
    <3> QED
      BY <3>1, <3>3 DEF B!Next
  <2> QED
    BY <2>3, <2>4
<1> QED
  BY <1>2, <1>3

LEMMA StatusKept ==
    ASSUME status' = status
    PROVE  [B!Next]_Shown
<1>1. Shown' = Shown
  BY DEF Shown
<1> QED
  BY <1>1

LEMMA ContinueOnBoard ==
    ASSUME TypeOK, MatchInv, UnmatchInv, NEW r \in Requests, Continue(r)
    PROVE  [B!Next]_Shown
<1>1. SlotIsSound(requests[r]) /\ UnmatchIsSound(requests[r])
  BY DEF MatchInv, UnmatchInv
<1>2. Refuse(r) => [B!Next]_Shown
  BY StatusKept DEF Refuse, tables
<1>3. CASE InsertItem(r)
  <2>1. CASE Exists(requests[r].location)
    <3>1. PICK i \in Items :
             status[i] = "unused" /\ status' = [status EXCEPT ![i] = "open"]
      BY <1>3, <2>1 DEF InsertItem
    <3>2. \A j \in Items : Shown'[j] = IF j = i THEN "open" ELSE Shown[j]
      BY <3>1 DEF TypeOK, Shown
    <3>3. Shown' = [Shown EXCEPT ![i] = "open"]
      BY <3>2 DEF Shown
    <3>4. B!Post(i)
      BY <3>1, <3>3 DEF B!Post, Shown
    <3> QED
      BY <3>4 DEF B!Next
  <2> QED
    BY <1>2, <1>3, <2>1 DEF InsertItem
<1>4. CASE SetItemStatus(r)
  <2> DEFINE i == requests[r].item
             new == requests[r].new
  <2>1. i \in Items /\ new \in Statuses
    BY <1>4, SlotFields DEF SetItemStatus
  <2>2. CASE HasRow(i)
    <3>1. status' = [j \in Items |-> IF j \in {i} THEN new ELSE status[j]]
      BY <1>4, <2>1, <2>2 DEF SetItemStatus, TypeOK
    <3>2. {i} \in Together
      BY <2>1 DEF Together
    <3> QED
      BY <2>1, <2>2, <3>1, <3>2, SetTogether
  <2> QED
    BY <1>2, <1>4, <2>2 DEF SetItemStatus
<1>5. CASE DeleteItem(r)
  <2> DEFINE i == requests[r].item
  <2>1. i \in Items
    BY <1>5, SlotFields DEF DeleteItem
  <2>2. CASE HasRow(i) /\ ~Referenced(i)
    <3>1. status' = [status EXCEPT ![i] = "deleted"]
      BY <1>5, <2>2 DEF DeleteItem
    <3>2. \A j \in Items : Shown'[j] = IF j = i THEN "deleted" ELSE Shown[j]
      BY <2>1, <3>1 DEF TypeOK, Shown
    <3>3. Shown' = [Shown EXCEPT ![i] = "deleted"]
      BY <3>2 DEF Shown
    <3>4. Shown[i] \in {"open", "closed"}
      BY <2>1, <2>2 DEF Shown, HasRow, Statuses
    <3>5. B!Remove(i)
      BY <3>3, <3>4 DEF B!Remove, B!OnBoard
    <3> QED
      BY <2>1, <3>5 DEF B!Next
  <2> QED
    BY <1>2, <1>5, <2>2 DEF DeleteItem
<1>6. CASE InsertMatch(r)
  <2> DEFINE lost == requests[r].lost
             found == requests[r].found
             taken == \E m \in matches : m.lost = lost /\ m.found = found
  <2>1. lost \in LostItems /\ found \in FoundItems
    BY <1>1, <1>6 DEF InsertMatch, SlotIsSound
  <2>2. CASE HasRow(lost) /\ HasRow(found) /\ ~taken
    <3>1. status' = [status EXCEPT ![lost] = "matched", ![found] = "matched"]
      BY <1>6, <2>2 DEF InsertMatch
    <3>2. status' = [j \in Items |-> IF j \in {lost, found} THEN "matched"
                                     ELSE status[j]]
      BY <2>1, <3>1 DEF TypeOK, Items
    <3>3. {lost, found} \in Together
      BY <2>1 DEF Together
    <3>4. "matched" \in Statuses
      BY DEF Statuses
    <3> QED
      BY <2>2, <3>2, <3>3, <3>4, SetTogether
  <2> QED
    BY <1>2, <1>6, <2>2 DEF InsertMatch
<1>7. CASE DeleteMatch(r)
  <2> DEFINE reopen == requests[r].reopen
             m == requests[r].match
  <2>1. /\ m.lost \in LostItems /\ m.found \in FoundItems
        /\ reopen \subseteq {m.lost, m.found}
    BY <1>1, <1>7 DEF DeleteMatch, UnmatchIsSound, Unmatching, Partners
  <2>2. CASE \A i \in reopen : HasRow(i)
    <3>1. status' = [i \in Items |-> IF i \in reopen THEN "open" ELSE status[i]]
      BY <1>7, <2>2 DEF DeleteMatch
    <3>2. CASE reopen = {}
      BY <3>1, <3>2, StatusKept DEF TypeOK
    <3>3. CASE reopen # {}
      <4>1. {m.lost, m.found} \in Together
        BY <2>1 DEF Together
      <4>2. reopen \in Together
        BY <2>1, <3>3, <4>1, PartOfTogether
      <4>3. "open" \in Statuses
        BY DEF Statuses
      <4> QED
        BY <2>2, <3>1, <4>2, <4>3, SetTogether
    <3> QED
      BY <3>2, <3>3
  <2> QED
    BY <1>2, <1>7, <2>2 DEF DeleteMatch
<1>8. CASE \/ ReadNewPlace(r) \/ UpdateItem(r) \/ ReadOwnPlace(r)
           \/ ReadFound(r) \/ ReadLostOfMatch(r) \/ ReadFoundOfMatch(r)
           \/ SetLocationActive(r) \/ CountItems(r) \/ DeleteLocation(r)
  <2>1. status' = status
    BY <1>8 DEF ReadNewPlace, UpdateItem, ReadOwnPlace, ReadFound,
         ReadLostOfMatch, ReadFoundOfMatch, SetLocationActive, CountItems,
         DeleteLocation, Refuse, tables
  <2> QED
    BY <2>1, StatusKept
<1> QED
  BY <1>3, <1>4, <1>5, <1>6, <1>7, <1>8 DEF Continue

LEMMA BeginOnBoard ==
    ASSUME NEW r \in Requests, Begin(r)
    PROVE  [B!Next]_Shown
<1>1. status' = status
  BY DEF Begin, BeginCreateItem, BeginUpdateItem, BeginSetStatus, BeginDeleteItem,
         BeginCreateMatch, BeginDeleteMatch, BeginSetActive, BeginDeleteLocation,
         tables
<1> QED
  BY <1>1, StatusKept

\* Every commit of an overlapping request changes the posts as Board allows: the
\* search for matches never meets a deleted post again, and sees no more than one
\* post, or a lost and a found one, open or close at once.
THEOREM PostsImplementBoard == Spec => ImplementsBoard
<1>1. Init => B!Init
  BY DEF Init, Shown, B!Init
<1>2. ASSUME TypeOK, MatchInv, UnmatchInv, [Next]_vars
      PROVE  [B!Next]_Shown
  <2>1. ASSUME NEW l \in Locations, CreateLocation(l)
        PROVE  [B!Next]_Shown
    BY <2>1, StatusKept DEF CreateLocation
  <2> QED
    BY <1>2, <2>1, BeginOnBoard, ContinueOnBoard, StatusKept DEF Next, vars
<1>3. MatchInv => MatchesAreSound
  BY DEF MatchInv
<1> QED
  BY <1>1, <1>2, <1>3, PostsTypeCorrect, PostsMatchInvariant, UnmatchInvStep, PTL
     DEF Spec, ImplementsBoard, B!Spec

=============================================================================
