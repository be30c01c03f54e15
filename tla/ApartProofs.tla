---------------------------- MODULE ApartProofs -----------------------------
(***************************************************************************)
(* Requests may overlap as they like: as long as no two are about one post *)
(* and no location is retired under a request that checks it, the handlers *)
(* implement the lifecycle, and so inherit its guarantees.  The invariant  *)
(* says that what a request in progress has read is still so.  Another     *)
(* request writes only the posts it touches itself (ContinueWritesOwn),    *)
(* and those are not this one's.                                           *)
(***************************************************************************)
EXTENDS PostsProofs

\* What the request has read, and its commit does not check again, still holds.
\* A location it read as active may be gone, but then the commit fails.
Fresh(slot) ==
    /\ slot.at = "insertItem" => locations[slot.location] \in {"active", "deleted"}
    /\ slot.at = "readNewPlace" => Editable(slot.item)
    /\ slot.at = "updateItem" =>
          /\ Editable(slot.item)
          /\ \/ slot.location = NoLocation
             \/ locations[slot.location] \in {"active", "deleted"}
    /\ slot.at = "readOwnPlace" =>
          MayChange(slot.item, "open") /\ slot.location = place[slot.item]
    /\ slot.at = "setItemStatus" =>
          /\ MayChange(slot.item, slot.new)
          /\ slot.new = "open" => locations[place[slot.item]] = "active"
    /\ slot.at = "readFound" /\ slot.lostOpen => status[slot.lost] = "open"
    /\ slot.at = "insertMatch" =>
          /\ status[slot.lost] = "open"
          /\ status[slot.found] = "open"
    /\ Unmatching(slot) => slot.match \in matches
    /\ slot.at = "unmatchFound" => slot.reopen = ToReopen(slot.match.lost)
    /\ slot.at = "deleteMatch" =>
          slot.reopen = ToReopen(slot.match.lost) \cup ToReopen(slot.match.found)

AllFresh == \A r \in Requests : Fresh(requests[r])

FreshInv == TypeOK /\ PostsHaveAPlace /\ MatchInv /\ AllFresh

ApartInv == FreshInv /\ Apart

-----------------------------------------------------------------------------
(* A request writes what it touches. *)

\* Request r writes no post that is not its own, no match but the one it
\* unmatches, and no location but the one it is about.
WritesOwn(r) ==
    /\ \A i \in Items : HasRow(i) /\ ~Touches(requests[r], i) =>
          status'[i] = status[i] /\ place'[i] = place[i]
    /\ \A m \in matches :
          \/ m \in matches'
          \/ requests[r].at = "deleteMatch" /\ m = requests[r].match
    /\ \A l \in Locations :
          \/ locations'[l] = locations[l]
          \/ Exists(l) /\ locations'[l] = "active"
          \/ Exists(l) /\ locations'[l] = "deleted" /\ ~InUse(l)
          \/ Exists(l) /\ Retires(requests[r], l)

LEMMA ContinueWritesOwn ==
    ASSUME FreshInv, NEW r \in Requests, Continue(r)
    PROVE  WritesOwn(r)
<1>0. TypeOK /\ Fresh(requests[r])
  BY DEF FreshInv, AllFresh
<1>1. UNCHANGED tables => WritesOwn(r)
  BY DEF WritesOwn, tables
<1>2. Refuse(r) => WritesOwn(r)
  BY <1>1 DEF Refuse
<1>3. CASE \/ ReadNewPlace(r) \/ ReadOwnPlace(r) \/ ReadFound(r)
           \/ ReadLostOfMatch(r) \/ ReadFoundOfMatch(r) \/ CountItems(r)
  BY <1>1, <1>2, <1>3 DEF ReadNewPlace, ReadOwnPlace, ReadFound, ReadLostOfMatch,
                          ReadFoundOfMatch, CountItems
<1>4. CASE InsertItem(r)
  <2>1. CASE Exists(requests[r].location)
    <3>1. PICK i \in Items :
             /\ status[i] = "unused"
             /\ status' = [status EXCEPT ![i] = "open"]
             /\ place' = [place EXCEPT ![i] = requests[r].location]
             /\ UNCHANGED <<matches, usedIds, locations>>
      BY <1>4, <2>1 DEF InsertItem
    <3>2. ~HasRow(i)
      BY <3>1 DEF HasRow, Statuses
    <3> QED
      BY <1>0, <3>1, <3>2 DEF WritesOwn, TypeOK
  <2> QED
    BY <1>2, <1>4, <2>1 DEF InsertItem
<1>5. CASE UpdateItem(r)
  <2>1. Touches(requests[r], requests[r].item)
    BY <1>5 DEF UpdateItem, Touches
  <2> QED
    BY <1>0, <1>2, <1>5, <2>1 DEF UpdateItem, WritesOwn, TypeOK
<1>6. CASE SetItemStatus(r)
  <2>1. Touches(requests[r], requests[r].item)
    BY <1>6 DEF SetItemStatus, Touches
  <2> QED
    BY <1>0, <1>2, <1>6, <2>1 DEF SetItemStatus, WritesOwn, TypeOK
<1>7. CASE DeleteItem(r)
  <2>1. Touches(requests[r], requests[r].item)
    BY <1>7 DEF DeleteItem, Touches
  <2> QED
    BY <1>0, <1>2, <1>7, <2>1 DEF DeleteItem, WritesOwn, TypeOK
<1>8. CASE InsertMatch(r)
  <2>1. /\ Touches(requests[r], requests[r].lost)
        /\ Touches(requests[r], requests[r].found)
    BY <1>8 DEF InsertMatch, Touches
  <2>2. ASSUME ~Refuse(r)
        PROVE  /\ matches \subseteq matches'
               /\ status' = [status EXCEPT ![requests[r].lost] = "matched",
                                           ![requests[r].found] = "matched"]
               /\ UNCHANGED <<place, locations>>
    BY <1>8, <2>2 DEF InsertMatch
  <2> QED
    BY <1>0, <1>2, <2>1, <2>2 DEF WritesOwn, TypeOK
<1>9. CASE DeleteMatch(r)
  <2> DEFINE m == requests[r].match
             reopen == requests[r].reopen
  <2>1. m \in matches /\ reopen = ToReopen(m.lost) \cup ToReopen(m.found)
    BY <1>0, <1>9 DEF DeleteMatch, Fresh, Unmatching
  <2>2. \A i \in reopen : Touches(requests[r], i)
    BY <1>9, <2>1 DEF DeleteMatch, Touches, Unmatching, Partners, ToReopen
  <2>3. \A n \in matches : n.id = m.id => n = m
    BY <2>1 DEF FreshInv, MatchInv, IdsNameRows
  <2>4. ASSUME ~Refuse(r)
        PROVE  /\ matches' = {n \in matches : n.id # m.id}
               /\ status' = [i \in Items |->
                               IF i \in reopen THEN "open" ELSE status[i]]
               /\ UNCHANGED <<place, locations>>
    BY <1>9, <2>4 DEF DeleteMatch
  <2> QED
    BY <1>2, <1>9, <2>2, <2>3, <2>4 DEF DeleteMatch, WritesOwn
<1>10. CASE SetLocationActive(r)
  <2>1. requests[r].new \in {"active", "retired"}
    BY <1>0, <1>10, SlotFields DEF SetLocationActive
  <2> QED
    BY <1>0, <1>2, <1>10, <2>1 DEF SetLocationActive, WritesOwn, Retires, TypeOK
<1>11. CASE DeleteLocation(r)
  BY <1>0, <1>2, <1>11 DEF DeleteLocation, WritesOwn, TypeOK
<1> QED
  BY <1>3, <1>4, <1>5, <1>6, <1>7, <1>8, <1>9, <1>10, <1>11 DEF Continue

-----------------------------------------------------------------------------
(* What has been read stays so. *)

\* What others may do to the rows of request q without its noticing.
Undisturbed(q) ==
    /\ \A i \in Items : HasRow(i) /\ Touches(requests[q], i) =>
          status'[i] = status[i] /\ place'[i] = place[i]
    /\ Unmatching(requests[q]) /\ requests[q].match \in matches =>
          requests[q].match \in matches'
    /\ \A l \in Locations : ReliesOn(requests[q], l) =>
          /\ locations[l] = "active" =>
                \/ locations'[l] = "active"
                \/ locations'[l] = "deleted" /\ ~InUse(l)
          /\ locations[l] = "deleted" => locations'[l] = "deleted"

LEMMA UndisturbedStaysFresh ==
    ASSUME FreshInv, NEW q \in Requests, requests'[q] = requests[q], Undisturbed(q)
    PROVE  Fresh(requests[q])'
<1> DEFINE slot == requests[q]
<1>0. TypeOK /\ Fresh(slot)
  BY DEF FreshInv, AllFresh
<1>1. CASE slot.at = "insertItem"
  <2>1. slot.location \in Locations /\ ReliesOn(slot, slot.location)
    BY <1>0, <1>1, SlotFields DEF ReliesOn
  <2> QED
    BY <1>0, <1>1, <2>1 DEF Fresh, Undisturbed, Unmatching
<1>2. CASE slot.at \in {"readNewPlace", "updateItem", "readOwnPlace", "setItemStatus"}
  <2> DEFINE i == slot.item
  <2>1. i \in Items /\ Touches(slot, i) /\ ~Unmatching(slot)
    BY <1>0, <1>2, SlotFields DEF Touches, Unmatching
  <2>2. HasRow(i)
    BY <1>0, <1>2 DEF Fresh, Editable, MayChange, HasRow, EditableStatuses, Statuses
  <2>3. status'[i] = status[i] /\ place'[i] = place[i]
    BY <2>1, <2>2 DEF Undisturbed
  <2>4. CASE slot.at = "readNewPlace" \/ slot.at = "readOwnPlace"
    BY <1>0, <2>1, <2>3, <2>4 DEF Fresh, Editable, MayChange, HasRow, Unmatching
  <2>5. CASE slot.at = "updateItem"
    <3>1. slot.location \in Locations \cup {NoLocation}
      BY <1>0, <2>5, SlotFields
    <3>2. slot.location # NoLocation =>
             slot.location \in Locations /\ ReliesOn(slot, slot.location)
      BY <2>5, <3>1 DEF ReliesOn
    <3>3. slot.location # NoLocation =>
             locations'[slot.location] \in {"active", "deleted"}
      BY <1>0, <2>5, <3>2 DEF Fresh, Undisturbed
    <3> QED
      BY <1>0, <2>1, <2>3, <2>5, <3>3 DEF Fresh, Editable, Unmatching
  <2>6. CASE slot.at = "setItemStatus"
    <3>1. slot.new = "open" => locations'[place[i]] = "active"
      <4> SUFFICES ASSUME slot.new = "open"
                   PROVE  locations'[place[i]] = "active"
        OBVIOUS
      <4>1. place[i] \in Locations
        BY <2>1, <2>2 DEF FreshInv, PostsHaveAPlace
      <4>2. ReliesOn(slot, place[i]) /\ InUse(place[i])
        BY <2>1, <2>6 DEF ReliesOn, InUse
      <4>3. locations[place[i]] = "active"
        BY <1>0, <2>6 DEF Fresh
      <4> QED
        BY <4>1, <4>2, <4>3 DEF Undisturbed
    <3> QED
      BY <1>0, <2>1, <2>3, <2>6, <3>1 DEF Fresh, MayChange, HasRow, Unmatching
  <2> QED
    BY <1>2, <2>4, <2>5, <2>6
<1>3. CASE slot.at \in {"readFound", "insertMatch"}
  <2>1. /\ slot.lost \in Items /\ slot.found \in Items
        /\ Touches(slot, slot.lost) /\ Touches(slot, slot.found)
    BY <1>0, <1>3, SlotFields DEF Touches
  <2>2. \A i \in {slot.lost, slot.found} : status[i] = "open" => status'[i] = "open"
    BY <2>1 DEF Undisturbed, HasRow, Statuses
  <2> QED
    BY <1>0, <1>3, <2>2 DEF Fresh, Unmatching
<1>4. CASE Unmatching(slot)
  <2> DEFINE m == slot.match
  <2>1. m \in matches /\ m \in matches'
    BY <1>0, <1>4 DEF Fresh, Undisturbed
  <2>2. /\ m.lost \in Items /\ HasRow(m.lost) /\ Touches(slot, m.lost)
        /\ m.found \in Items /\ HasRow(m.found) /\ Touches(slot, m.found)
    BY <1>4, <2>1 DEF FreshInv, MatchInv, MatchesAreSound, Items, Touches, Partners
  <2>3. status'[m.lost] = status[m.lost] /\ status'[m.found] = status[m.found]
    BY <2>2 DEF Undisturbed
  <2> QED
    BY <1>0, <1>4, <2>1, <2>3 DEF Fresh, Unmatching, ToReopen
<1>5. CASE /\ slot.at \notin {"insertItem", "readNewPlace", "updateItem",
                              "readOwnPlace", "setItemStatus", "readFound",
                              "insertMatch"}
           /\ ~Unmatching(slot)
  BY <1>5 DEF Fresh, Unmatching
<1> QED
  BY <1>1, <1>2, <1>3, <1>4, <1>5

\* A read, or the first step of a request.
LEMMA ReadStaysFresh ==
    ASSUME FreshInv, NEW r \in Requests, NEW slot, Go(r, slot),
           UNCHANGED tables, Fresh(slot)
    PROVE  AllFresh'
<1>1. \A q \in Requests : requests'[q] = slot \/ requests'[q] = requests[q]
  BY DEF Go, FreshInv, TypeOK
<1>2. \A q \in Requests : Fresh(requests'[q])
  BY <1>1 DEF FreshInv, AllFresh
<1> QED
  BY <1>2 DEF AllFresh, Fresh, Editable, MayChange, HasRow, Unmatching, ToReopen,
              tables

LEMMA BeginStaysFresh ==
    ASSUME FreshInv, NEW r \in Requests, Begin(r)
    PROVE  AllFresh'
<1> SUFFICES ASSUME NEW slot, Go(r, slot), UNCHANGED tables, Fresh(slot)
             PROVE  AllFresh'
  <2> USE DEF Fresh, Unmatching
  <2>1. ASSUME NEW l \in Locations, BeginCreateItem(r, l)
        PROVE  AllFresh'
    BY <2>1 DEF BeginCreateItem
  <2>2. ASSUME NEW i \in Items, NEW l \in Locations \cup {NoLocation},
               BeginUpdateItem(r, i, l)
        PROVE  AllFresh'
    <3>1. CASE l \in {NoLocation, place[i]}
      BY <2>2, <3>1 DEF BeginUpdateItem
    <3>2. CASE l \notin {NoLocation, place[i]}
      BY <2>2, <3>2 DEF BeginUpdateItem
    <3> QED
      BY <3>1, <3>2
  <2>3. ASSUME NEW i \in Items, NEW new \in Statuses, BeginSetStatus(r, i, new)
        PROVE  AllFresh'
    <3>1. CASE new = "open"
      BY <2>3, <3>1 DEF BeginSetStatus
    <3>2. CASE new # "open"
      BY <2>3, <3>2 DEF BeginSetStatus
    <3> QED
      BY <3>1, <3>2
  <2>4. ASSUME NEW i \in Items, BeginDeleteItem(r, i)
        PROVE  AllFresh'
    BY <2>4 DEF BeginDeleteItem
  <2>5. ASSUME NEW lost \in Items, NEW found \in Items,
               BeginCreateMatch(r, lost, found)
        PROVE  AllFresh'
    BY <2>5 DEF BeginCreateMatch
  <2>6. ASSUME NEW m \in matches, BeginDeleteMatch(r, m)
        PROVE  AllFresh'
    BY <2>6 DEF BeginDeleteMatch
  <2>7. ASSUME NEW l \in Locations, NEW new \in {"active", "retired"},
               BeginSetActive(r, l, new)
        PROVE  AllFresh'
    BY <2>7 DEF BeginSetActive
  <2>8. ASSUME NEW l \in Locations, BeginDeleteLocation(r, l)
        PROVE  AllFresh'
    BY <2>8 DEF BeginDeleteLocation
  <2> QED
    BY <2>1, <2>2, <2>3, <2>4, <2>5, <2>6, <2>7, <2>8 DEF Begin
<1> QED
  BY ReadStaysFresh

\* The request that goes on: what it reads now joins what it has read, and when
\* it is answered nothing is left.
LEMMA OwnStaysFresh ==
    ASSUME FreshInv, NEW r \in Requests, Continue(r)
    PROVE  Fresh(requests[r])'
<1>0. TypeOK /\ Fresh(requests[r])
  BY DEF FreshInv, AllFresh
<1>1. ASSUME Refuse(r) \/ Finish(r)
      PROVE  Fresh(requests[r])'
  <2>1. requests'[r] = Idle
    BY <1>0, <1>1 DEF Refuse, Finish, Go, TypeOK
  <2> QED
    BY <2>1 DEF Fresh, Idle, Unmatching
<1>2. ASSUME NEW slot, Go(r, slot), UNCHANGED tables, Fresh(slot)
      PROVE  Fresh(requests[r])'
  BY <1>2, ReadStaysFresh DEF AllFresh
<1>4. CASE ReadNewPlace(r)
  <2>1. CASE locations[requests[r].location] = "active"
    BY <1>0, <1>2, <1>4, <2>1 DEF ReadNewPlace, Fresh, Unmatching
  <2> QED
    BY <1>1, <1>4, <2>1 DEF ReadNewPlace
<1>5. CASE ReadOwnPlace(r)
  <2>1. CASE locations[requests[r].location] = "active"
    BY <1>0, <1>2, <1>5, <2>1 DEF ReadOwnPlace, Fresh, Unmatching
  <2> QED
    BY <1>1, <1>5, <2>1 DEF ReadOwnPlace
<1>6. CASE ReadFound(r)
  <2>1. CASE Pairable(requests[r].lost, requests[r].found, requests[r].lostOpen)
    BY <1>0, <1>2, <1>6, <2>1 DEF ReadFound, Pairable, Fresh, Unmatching
  <2> QED
    BY <1>1, <1>6, <2>1 DEF ReadFound
<1>7. CASE ReadLostOfMatch(r)
  BY <1>0, <1>2, <1>7 DEF ReadLostOfMatch, Fresh, Unmatching
<1>8. CASE ReadFoundOfMatch(r)
  BY <1>0, <1>2, <1>8 DEF ReadFoundOfMatch, Fresh, Unmatching
<1>9. CASE CountItems(r)
  BY <1>1, <1>2, <1>9 DEF CountItems, Fresh, Unmatching
<1>10. CASE \/ InsertItem(r) \/ UpdateItem(r) \/ SetItemStatus(r) \/ DeleteItem(r)
            \/ InsertMatch(r) \/ DeleteMatch(r) \/ SetLocationActive(r)
            \/ DeleteLocation(r)
  BY <1>1, <1>10 DEF InsertItem, UpdateItem, SetItemStatus, DeleteItem,
       InsertMatch, DeleteMatch, SetLocationActive, DeleteLocation
<1> QED
  BY <1>4, <1>5, <1>6, <1>7, <1>8, <1>9, <1>10 DEF Continue

\* The requests go on one at a time; the others keep their slots.
LEMMA OthersKeepTheirSlots ==
    ASSUME TypeOK, NEW r \in Requests, Begin(r) \/ Continue(r)
    PROVE  \A q \in Requests : q # r => requests'[q] = requests[q]
<1> SUFFICES ASSUME NEW slot, Go(r, slot)
             PROVE  \A q \in Requests : q # r => requests'[q] = requests[q]
  <2>1. Begin(r) => \E slot : Go(r, slot)
    BY DEF Begin, BeginCreateItem, BeginUpdateItem, BeginSetStatus,
           BeginDeleteItem, BeginCreateMatch, BeginDeleteMatch, BeginSetActive,
           BeginDeleteLocation
  <2>2. Continue(r) => \E slot : Go(r, slot)
    BY DEF Continue, Refuse, Finish, InsertItem, ReadNewPlace, UpdateItem,
           ReadOwnPlace, SetItemStatus, DeleteItem, ReadFound, InsertMatch,
           ReadLostOfMatch, ReadFoundOfMatch, DeleteMatch, SetLocationActive,
           CountItems, DeleteLocation
  <2> QED
    BY <2>1, <2>2
<1> QED
  BY DEF Go, TypeOK

\* Requests that are apart do not disturb each other.
LEMMA ApartIsUndisturbed ==
    ASSUME ApartInv, NEW r \in Requests, NEW q \in Requests, q # r, WritesOwn(r)
    PROVE  Undisturbed(q)
<1>1. \A i \in Items : ~(Touches(requests[q], i) /\ Touches(requests[r], i))
  BY DEF ApartInv, Apart
<1>2. \A l \in Locations : ReliesOn(requests[q], l) => ~Retires(requests[r], l)
  BY DEF ApartInv, Apart
<1>3. ASSUME Unmatching(requests[q]), requests[q].match \in matches
      PROVE  requests[q].match \in matches'
  <2> DEFINE m == requests[q].match
  <2>1. m.lost \in Items /\ Touches(requests[q], m.lost)
    BY <1>3 DEF ApartInv, FreshInv, MatchInv, MatchesAreSound, Items, Touches,
                Partners
  <2>2. ~(requests[r].at = "deleteMatch" /\ m = requests[r].match)
    BY <1>1, <2>1 DEF Touches, Unmatching, Partners
  <2> QED
    BY <1>3, <2>2 DEF WritesOwn
<1>4. \A l \in Locations : locations[l] = "deleted" => ~Exists(l)
  BY DEF Exists
<1> QED
  BY <1>1, <1>2, <1>3, <1>4 DEF WritesOwn, Undisturbed

LEMMA ContinueStaysFresh ==
    ASSUME ApartInv, NEW r \in Requests, Continue(r)
    PROVE  AllFresh'
<1>1. FreshInv /\ TypeOK
  BY DEF ApartInv, FreshInv
<1>2. ASSUME NEW q \in Requests, q # r
      PROVE  Fresh(requests[q])'
  BY <1>1, <1>2, ContinueWritesOwn, ApartIsUndisturbed, OthersKeepTheirSlots,
     UndisturbedStaysFresh
<1> QED
  BY <1>1, <1>2, OwnStaysFresh DEF AllFresh

\* POST /locations disturbs nobody.
LEMMA CreateLocationStaysFresh ==
    ASSUME FreshInv, NEW l \in Locations, CreateLocation(l)
    PROVE  AllFresh'
<1>1. \A k \in Locations : locations[k] # "unused" => locations'[k] = locations[k]
  BY DEF CreateLocation, FreshInv, TypeOK
<1>2. UNCHANGED <<status, place, matches, requests>>
  BY DEF CreateLocation
<1>3. \A q \in Requests : Undisturbed(q)
  BY <1>1, <1>2 DEF Undisturbed
<1> QED
  BY <1>2, <1>3, UndisturbedStaysFresh DEF AllFresh

-----------------------------------------------------------------------------
(* Once admitted, requests stay apart: going on, a request touches and      *)
(* relies on less and less.                                                 *)

LEMMA ContinueStaysApart ==
    ASSUME ApartInv, NEW r \in Requests, Continue(r)
    PROVE  Apart'
<1>0. FreshInv /\ TypeOK /\ Fresh(requests[r])
  BY DEF ApartInv, FreshInv, AllFresh
<1>1. /\ \A i : Touches(requests'[r], i) => Touches(requests[r], i)
      /\ \A l : ReliesOn(requests[r], l)' => ReliesOn(requests[r], l)
      /\ \A l : Retires(requests'[r], l) => Retires(requests[r], l)
  <2> USE <1>0
  <2> USE DEF Touches, ReliesOn, Retires, Unmatching, Go, TypeOK
  <2>1. CASE Finish(r)
    BY <2>1 DEF Finish, Idle
  <2>2. CASE Refuse(r)
    BY <2>1, <2>2 DEF Refuse
  <2>3. CASE ReadNewPlace(r)
    BY <2>2, <2>3 DEF ReadNewPlace
  <2>4. CASE ReadOwnPlace(r)
    BY <2>2, <2>4 DEF ReadOwnPlace, Fresh, tables
  <2>5. CASE ReadFound(r)
    BY <2>2, <2>5 DEF ReadFound
  <2>6. CASE ReadLostOfMatch(r)
    BY <2>6 DEF ReadLostOfMatch
  <2>7. CASE ReadFoundOfMatch(r)
    BY <2>7 DEF ReadFoundOfMatch
  <2>8. CASE CountItems(r)
    BY <2>2, <2>8 DEF CountItems
  <2>9. CASE \/ InsertItem(r) \/ UpdateItem(r) \/ SetItemStatus(r)
             \/ DeleteItem(r) \/ InsertMatch(r) \/ DeleteMatch(r)
             \/ SetLocationActive(r) \/ DeleteLocation(r)
    BY <2>1, <2>2, <2>9 DEF InsertItem, UpdateItem, SetItemStatus, DeleteItem,
         InsertMatch, DeleteMatch, SetLocationActive, DeleteLocation
  <2> QED
    BY <2>3, <2>4, <2>5, <2>6, <2>7, <2>8, <2>9 DEF Continue
<1>2. ASSUME NEW q \in Requests, q # r
      PROVE  /\ requests'[q] = requests[q]
             /\ \A l : ReliesOn(requests[q], l)' => ReliesOn(requests[q], l)
  <2>1. requests'[q] = requests[q]
    BY <1>0, <1>2, OthersKeepTheirSlots
  <2>2. requests[q].at = "setItemStatus" =>
           place'[requests[q].item] = place[requests[q].item]
    <3> SUFFICES ASSUME requests[q].at = "setItemStatus"
                 PROVE  place'[requests[q].item] = place[requests[q].item]
      OBVIOUS
    <3>1. requests[q].item \in Items /\ HasRow(requests[q].item)
      BY <1>0, SlotFields DEF FreshInv, AllFresh, Fresh, MayChange
    <3>2. Touches(requests[q], requests[q].item)
      BY DEF Touches
    <3> QED
      BY <1>0, <1>2, <3>1, <3>2, ContinueWritesOwn, ApartIsUndisturbed
         DEF Undisturbed
  <2> QED
    BY <2>1, <2>2 DEF ReliesOn
<1>3. \A q \in Requests :
         /\ \A i : Touches(requests'[q], i) => Touches(requests[q], i)
         /\ \A l : ReliesOn(requests[q], l)' => ReliesOn(requests[q], l)
         /\ \A l : Retires(requests'[q], l) => Retires(requests[q], l)
  BY <1>1, <1>2
<1> HIDE DEF Touches, ReliesOn, Retires
<1>4. SUFFICES ASSUME NEW p \in Requests, NEW q \in Requests, p # q
      PROVE  /\ \A i \in Items :
                   ~(Touches(requests'[p], i) /\ Touches(requests'[q], i))
             /\ \A l \in Locations :
                   ~(ReliesOn(requests[p], l)' /\ Retires(requests'[q], l))
  BY DEF Apart, Touches, Retires, Unmatching, Partners
<1>5. /\ \A i \in Items : ~(Touches(requests[p], i) /\ Touches(requests[q], i))
      /\ \A l \in Locations :
            ~(ReliesOn(requests[p], l) /\ Retires(requests[q], l))
  BY <1>4 DEF ApartInv, Apart
<1> QED
  BY <1>3, <1>5

LEMMA UnchangedStaysApart ==
    ASSUME Apart, UNCHANGED <<place, requests>>
    PROVE  Apart'
BY DEF Apart, Touches, ReliesOn, Retires, Unmatching, Partners

LEMMA ApartInvStep ==
    /\ Init => ApartInv
    /\ ApartInv /\ [NextApart]_vars => ApartInv'
<1>1. Init => AllFresh /\ Apart
  BY DEF Init, AllFresh, Fresh, Idle, Unmatching, Apart, Touches, ReliesOn
<1>2. ASSUME ApartInv, UNCHANGED vars
      PROVE  AllFresh' /\ Apart'
  <2>1. AllFresh'
    BY <1>2 DEF ApartInv, FreshInv, AllFresh, Fresh, Editable, MayChange, HasRow,
                Unmatching, ToReopen, vars
  <2> QED
    BY <1>2, <2>1, UnchangedStaysApart DEF ApartInv, vars
<1>3. ASSUME ApartInv, NextApart
      PROVE  AllFresh' /\ Apart'
  <2>1. FreshInv /\ Apart
    BY <1>3 DEF ApartInv
  <2>2. ASSUME NEW l \in Locations, CreateLocation(l)
        PROVE  AllFresh' /\ Apart'
    BY <2>1, <2>2, CreateLocationStaysFresh, UnchangedStaysApart DEF CreateLocation
  <2> QED
    BY <1>3, <2>1, <2>2, BeginStaysFresh, ContinueStaysFresh, ContinueStaysApart
       DEF NextApart
<1>4. [NextApart]_vars => [Next]_vars
  BY DEF NextApart, Next
<1> QED
  BY <1>1, <1>2, <1>3, <1>4, TypeInitStep, MatchInvStep DEF ApartInv, FreshInv

-----------------------------------------------------------------------------
(* Every step is a step of the lifecycle, or none. *)

LEMMA BeginIsStutter ==
    ASSUME NEW r \in Requests, Begin(r)
    PROVE  UNCHANGED tables
BY DEF Begin, BeginCreateItem, BeginUpdateItem, BeginSetStatus, BeginDeleteItem,
       BeginCreateMatch, BeginDeleteMatch, BeginSetActive, BeginDeleteLocation

LEMMA ContinueImplements ==
    ASSUME FreshInv, NEW r \in Requests, Continue(r)
    PROVE  L!Next \/ UNCHANGED tables
<1>1. Fresh(requests[r])
  BY DEF FreshInv, AllFresh
<1>2. TypeOK
  BY DEF FreshInv
<1>3. Refuse(r) => UNCHANGED tables
  BY DEF Refuse
<1>4. CASE InsertItem(r)
  <2> DEFINE l == requests[r].location
  <2>1. l \in Locations /\ (Exists(l) => locations[l] = "active")
    BY <1>1, <1>2, <1>4, SlotFields DEF InsertItem, Fresh, Exists
  <2>2. CASE Exists(l)
    <3>1. PICK i \in Items : L!CreateItem(i, l)
      BY <1>4, <2>1, <2>2 DEF InsertItem, L!CreateItem
    <3> QED
      BY <2>1, <3>1 DEF L!Next, L!Items, Items
  <2> QED
    BY <1>3, <1>4, <2>2 DEF InsertItem
<1>5. CASE UpdateItem(r)
  <2> DEFINE i == requests[r].item
             l == requests[r].location
  <2>1. i \in Items /\ l \in Locations \cup {NoLocation}
    BY <1>2, <1>5, SlotFields DEF UpdateItem
  <2>2. Editable(i) /\ (l = NoLocation \/ (Exists(l) => locations[l] = "active"))
    BY <1>1, <1>5 DEF UpdateItem, Fresh, Exists
  <2>3. CASE l = NoLocation
    BY <1>3, <1>5, <2>3 DEF UpdateItem, tables
  <2>4. CASE l # NoLocation
    <3>1. CASE HasRow(i) /\ (l = NoLocation \/ Exists(l))
      <4>1. L!MoveItem(i, l)
        BY <1>5, <2>2, <2>4, <3>1 DEF UpdateItem, L!MoveItem, Editable,
           EditableStatuses, L!EditableStatuses
      <4> QED
        BY <2>1, <2>4, <4>1 DEF L!Next, L!Items, Items
    <3> QED
      BY <1>3, <1>5, <3>1 DEF UpdateItem
  <2> QED
    BY <2>3, <2>4
<1>6. CASE SetItemStatus(r)
  <2> DEFINE i == requests[r].item
             new == requests[r].new
  <2>1. i \in Items /\ new \in Statuses
    BY <1>2, <1>6, SlotFields DEF SetItemStatus
  <2>2. MayChange(i, new) /\ (new = "open" => locations[place[i]] = "active")
    BY <1>1, <1>6 DEF SetItemStatus, Fresh
  <2>3. L!SetItemStatus(i, new)
    BY <1>6, <2>2 DEF SetItemStatus, MayChange, L!SetItemStatus, L!HasRow, HasRow,
         Statuses, L!Statuses, ClientTransitions, L!ClientTransitions
  <2> QED
    BY <2>1, <2>3 DEF L!Next, L!Items, Items, Statuses, L!Statuses
<1>7. CASE DeleteItem(r)
  <2> DEFINE i == requests[r].item
  <2>1. i \in Items
    BY <1>2, <1>7, SlotFields DEF DeleteItem
  <2>2. CASE HasRow(i) /\ ~Referenced(i)
    <3>1. L!DeleteItem(i)
      BY <1>7, <2>2 DEF DeleteItem, Referenced, Partners, L!DeleteItem, L!HasRow,
                        HasRow, L!Partners, Statuses, L!Statuses
    <3> QED
      BY <2>1, <3>1 DEF L!Next, L!Items, Items
  <2> QED
    BY <1>3, <1>7, <2>2 DEF DeleteItem
<1>8. CASE InsertMatch(r)
  <2> DEFINE lost == requests[r].lost
             found == requests[r].found
             taken == \E m \in matches : m.lost = lost /\ m.found = found
  <2>1. lost \in LostItems /\ found \in FoundItems
    BY <1>8 DEF InsertMatch, FreshInv, MatchInv, SlotIsSound
  <2>2. status[lost] = "open" /\ status[found] = "open"
    BY <1>1, <1>8 DEF InsertMatch, Fresh
  <2>3. CASE HasRow(lost) /\ HasRow(found) /\ ~taken
    <3>1. PICK id \in MatchIds \ usedIds : L!CreateMatch(id, lost, found)
      BY <1>8, <2>1, <2>2, <2>3 DEF InsertMatch, L!CreateMatch
    <3> QED
      BY <2>1, <3>1 DEF L!Next, L!Items, Items
  <2> QED
    BY <1>3, <1>8, <2>3 DEF InsertMatch
<1>9. CASE DeleteMatch(r)
  <2> DEFINE m == requests[r].match
             reopen == requests[r].reopen
  <2>1. m \in matches /\ reopen = ToReopen(m.lost) \cup ToReopen(m.found)
    BY <1>1, <1>9 DEF DeleteMatch, Fresh, Unmatching
  <2>2. {n \in matches : n.id # m.id} = matches \ {m}
    BY <2>1 DEF FreshInv, MatchInv, IdsNameRows
  <2>3. CASE \A i \in reopen : HasRow(i)
    <3>1. \A i : i \in reopen <=> i \in Partners(m) /\ status[i] = "matched"
      BY <2>1 DEF ToReopen, Partners
    <3>2. status' = [i \in Items |-> IF i \in reopen THEN "open" ELSE status[i]]
      BY <1>9, <2>3 DEF DeleteMatch
    <3>3. status' = [i \in L!Items |->
                        IF i \in L!Partners(m) /\ status[i] = "matched"
                        THEN "open" ELSE status[i]]
      BY <3>1, <3>2 DEF L!Items, Items, L!Partners, Partners
    <3>4. /\ matches' = matches \ {m}
          /\ UNCHANGED <<place, usedIds, locations>>
      BY <1>9, <2>2, <2>3 DEF DeleteMatch
    <3> QED
      BY <2>1, <3>3, <3>4 DEF L!Next, L!DeleteMatch
  <2> QED
    BY <1>3, <1>9, <2>3 DEF DeleteMatch
<1>10. CASE SetLocationActive(r)
  <2> DEFINE l == requests[r].location
             new == requests[r].new
  <2>1. l \in Locations /\ new \in {"active", "retired"}
    BY <1>2, <1>10, SlotFields DEF SetLocationActive
  <2>2. CASE Exists(l)
    <3>1. L!SetLocationActive(l, new)
      BY <1>10, <2>1, <2>2 DEF SetLocationActive, L!SetLocationActive, L!Exists,
                               Exists
    <3> QED
      BY <2>1, <3>1 DEF L!Next
  <2> QED
    BY <1>3, <1>10, <2>2 DEF SetLocationActive
<1>11. CASE DeleteLocation(r)
  <2> DEFINE l == requests[r].location
  <2>1. l \in Locations
    BY <1>2, <1>11, SlotFields DEF DeleteLocation
  <2>2. CASE Exists(l) /\ ~InUse(l)
    <3>1. L!DeleteLocation(l)
      BY <1>11, <2>2 DEF DeleteLocation, InUse, L!DeleteLocation, L!Exists, Exists,
                         L!Items, Items
    <3> QED
      BY <2>1, <3>1 DEF L!Next
  <2> QED
    BY <1>3, <1>11, <2>2 DEF DeleteLocation
<1>12. CASE \/ ReadNewPlace(r) \/ ReadOwnPlace(r) \/ ReadFound(r)
            \/ ReadLostOfMatch(r) \/ ReadFoundOfMatch(r) \/ CountItems(r)
  BY <1>3, <1>12 DEF ReadNewPlace, ReadOwnPlace, ReadFound, ReadLostOfMatch,
                     ReadFoundOfMatch, CountItems
<1> QED
  BY <1>4, <1>5, <1>6, <1>7, <1>8, <1>9, <1>10, <1>11, <1>12 DEF Continue

LEMMA StepImplements == ApartInv /\ [NextApart]_vars => [L!Next]_(L!vars)
<1> SUFFICES ASSUME FreshInv, [NextApart]_vars
             PROVE  L!Next \/ UNCHANGED tables
  BY DEF L!vars, tables, ApartInv
<1>1. ASSUME NEW l \in Locations, CreateLocation(l)
      PROVE  L!Next
  BY <1>1 DEF CreateLocation, L!Next, L!CreateLocation
<1>2. CASE UNCHANGED vars
  BY <1>2 DEF vars, tables
<1> QED
  BY <1>1, <1>2, BeginIsStutter, ContinueImplements DEF NextApart

\* Whoever begins apart stays apart.
THEOREM ApartStays == SpecApart => []Apart
<1>1. ApartInv => Apart
  BY DEF ApartInv
<1> QED
  BY <1>1, ApartInvStep, PTL DEF SpecApart

\* As long as requests begin apart, the handlers implement the lifecycle, for
\* any number of requests that overlap, posts, matches and locations: what each
\* handler checks before it writes is enough.
THEOREM ApartImplementsLifecycle == SpecApart => ImplementsLifecycle
<1>1. Init => L!Init
  BY DEF Init, L!Init, L!Items, Items
<1> QED
  BY <1>1, ApartInvStep, StepImplements, PTL
     DEF SpecApart, L!Spec, ImplementsLifecycle

-----------------------------------------------------------------------------
(* What the lifecycle's theorems then say of the handlers. *)

LP == INSTANCE LifecycleProofs

LEMMA SameLifecycle ==
    /\ L!Init <=> LP!Init
    /\ [L!Next]_(L!vars) <=> [LP!Next]_(LP!vars)
<1>1. L!Init <=> LP!Init
  BY DEF L!Init, LP!Init, L!Items, LP!Items
<1>2. L!Next <=> LP!Next
  BY DEF L!Next, LP!Next, L!CreateItem, LP!CreateItem, L!MoveItem, LP!MoveItem,
         L!SetItemStatus, LP!SetItemStatus, L!DeleteItem, LP!DeleteItem,
         L!CreateMatch, LP!CreateMatch, L!DeleteMatch, LP!DeleteMatch,
         L!CreateLocation, LP!CreateLocation, L!SetLocationActive,
         LP!SetLocationActive, L!DeleteLocation, LP!DeleteLocation,
         L!HasRow, LP!HasRow, L!Exists, LP!Exists, L!Partners, LP!Partners,
         L!Items, LP!Items, L!Statuses, LP!Statuses, L!ClientTransitions,
         LP!ClientTransitions, L!EditableStatuses, LP!EditableStatuses
<1> QED
  BY <1>1, <1>2 DEF L!vars, LP!vars

\* No post is in two matches, as long as no two requests are about one post.
THEOREM ApartOneMatchPerPost == SpecApart => []OneMatchPerPost
<1>1. L!Spec => LP!Spec
  BY SameLifecycle, PTL DEF L!Spec, LP!Spec
<1>2. LP!Spec => [](LP!OneMatchPerPost /\ LP!StatusAgreesWithMatches)
  BY LP!LifecycleIsConsistent, PostsAssumption
<1>3. LP!OneMatchPerPost /\ LP!StatusAgreesWithMatches => OneMatchPerPost
  BY DEF OneMatchPerPost, LP!OneMatchPerPost, L!OneMatchPerPost, L!Partners,
         LP!Partners
<1> QED
  BY <1>1, <1>2, <1>3, ApartImplementsLifecycle, PTL DEF ImplementsLifecycle

\* A post in a match is matched or returned, and a matched post is in a match: what the
\* statuses tell a client and what the table says never disagree.
THEOREM ApartStatusAgrees == SpecApart => []StatusAgreesWithMatches
<1>1. L!Spec => LP!Spec
  BY SameLifecycle, PTL DEF L!Spec, LP!Spec
<1>2. LP!Spec => [](LP!OneMatchPerPost /\ LP!StatusAgreesWithMatches)
  BY LP!LifecycleIsConsistent, PostsAssumption
<1>3. LP!OneMatchPerPost /\ LP!StatusAgreesWithMatches => StatusAgreesWithMatches
  BY DEF StatusAgreesWithMatches, LP!StatusAgreesWithMatches,
         L!StatusAgreesWithMatches, L!Partners, LP!Partners, L!Items, LP!Items
<1> QED
  BY <1>1, <1>2, <1>3, ApartImplementsLifecycle, PTL DEF ImplementsLifecycle

\* A post handed back to its owner never changes again, except by being removed:
\* an unmatch or an edit that was on its way would have to be about that post.
THEOREM ApartReturnedIsFinal == SpecApart => ReturnedIsFinal
<1>1. L!Spec => LP!Spec
  BY SameLifecycle, PTL DEF L!Spec, LP!Spec
<1>2. LP!Spec => LP!ReturnedIsFinal
  BY LP!LifecycleReturnedIsFinal, PostsAssumption
<1>3. LP!ReturnedIsFinal => ReturnedIsFinal
  BY PTL DEF ReturnedIsFinal, LP!ReturnedIsFinal, L!ReturnedIsFinal,
             LP!vars, L!vars, LP!Items, L!Items
<1> QED
  BY <1>1, <1>2, <1>3, ApartImplementsLifecycle, PTL DEF ImplementsLifecycle

-----------------------------------------------------------------------------
(* Two cases in which requests are apart *)

\* In a behaviour of the handlers in which the requests happen to be apart they
\* implement the lifecycle: nothing has to hold a request back.
THEOREM HappensApart == Spec /\ []Apart => ImplementsLifecycle
<1>1. Apart' /\ [Next]_vars => [NextApart]_vars
  BY DEF Next, NextApart
<1> QED
  BY <1>1, ApartImplementsLifecycle, PTL DEF Spec, SpecApart

\* Requests do not overlap at all: there is one slot at most.
OneAtATime == \A q, r \in Requests : q = r

\* Without overlap the handlers implement the lifecycle.
THEOREM SerialImplementsLifecycle ==
    ASSUME OneAtATime
    PROVE  Spec => ImplementsLifecycle
<1>1. Apart
  BY DEF OneAtATime, Apart
<1> QED
  BY <1>1, HappensApart, PTL

=============================================================================
