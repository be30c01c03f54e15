----------------------------- MODULE Lifecycle -----------------------------
(***************************************************************************)
(* What the API promises about posts, matches and locations: every request *)
(* is one step that reads and writes the current rows.  This is the        *)
(* lifecycle the docstrings, the comments and the error contract describe, *)
(* with no room between a handler's SELECT and its commit.  Posts.tla      *)
(* models the handlers as they run, and implements this module as long as  *)
(* requests do not overlap.                                                *)
(***************************************************************************)
EXTENDS ItemStatus

VARIABLES
    status,      \* item id -> its row's status, "unused" or "deleted"
    place,       \* item id -> its row's location_id
    matches,     \* the rows of table matches
    usedIds,     \* match ids handed out so far; a sequence never goes back
    locations    \* location id -> "active", "retired", "unused" or "deleted"

vars == <<status, place, matches, usedIds, locations>>

HasRow(i) == status[i] \in Statuses
Exists(l) == locations[l] \in {"active", "retired"}

TypeOK ==
    /\ status \in [Items -> Statuses \cup {"unused", "deleted"}]
    /\ place \in [Items -> Locations \cup {NoLocation}]
    /\ matches \subseteq MatchRow
    /\ usedIds \subseteq MatchIds
    /\ locations \in [Locations -> {"unused", "active", "retired", "deleted"}]

Init ==
    /\ status = [i \in Items |-> "unused"]
    /\ place = [i \in Items |-> NoLocation]
    /\ matches = {}
    /\ usedIds = {}
    /\ locations = [l \in Locations |-> "unused"]

-----------------------------------------------------------------------------
(* Posts *)

CreateItem(i, l) ==
    /\ status[i] = "unused"
    /\ locations[l] = "active"
    /\ status' = [status EXCEPT ![i] = "open"]
    /\ place' = [place EXCEPT ![i] = l]
    /\ UNCHANGED <<matches, usedIds, locations>>

MoveItem(i, l) ==
    /\ status[i] \in EditableStatuses
    /\ locations[l] = "active"
    /\ place' = [place EXCEPT ![i] = l]
    /\ UNCHANGED <<status, matches, usedIds, locations>>

SetItemStatus(i, new) ==
    /\ HasRow(i)
    /\ new \in ClientTransitions[status[i]]
    /\ new = "open" => locations[place[i]] = "active"
    /\ status' = [status EXCEPT ![i] = new]
    /\ UNCHANGED <<place, matches, usedIds, locations>>

DeleteItem(i) ==
    /\ HasRow(i)
    /\ \A m \in matches : i \notin Partners(m)
    /\ status' = [status EXCEPT ![i] = "deleted"]
    /\ place' = [place EXCEPT ![i] = NoLocation]
    /\ UNCHANGED <<matches, usedIds, locations>>

-----------------------------------------------------------------------------
(* Matches *)

CreateMatch(id, lost, found) ==
    /\ lost \in LostItems /\ status[lost] = "open"
    /\ found \in FoundItems /\ status[found] = "open"
    /\ id \notin usedIds
    /\ matches' = matches \cup {[id |-> id, lost |-> lost, found |-> found]}
    /\ usedIds' = usedIds \cup {id}
    /\ status' = [status EXCEPT ![lost] = "matched", ![found] = "matched"]
    /\ UNCHANGED <<place, locations>>

\* A partner already marked returned stays returned.
DeleteMatch(m) ==
    /\ m \in matches
    /\ matches' = matches \ {m}
    /\ status' = [i \in Items |->
                     IF i \in Partners(m) /\ status[i] = "matched"
                     THEN "open" ELSE status[i]]
    /\ UNCHANGED <<place, usedIds, locations>>

-----------------------------------------------------------------------------
(* Locations *)

CreateLocation(l) ==
    /\ locations[l] = "unused"
    /\ locations' = [locations EXCEPT ![l] = "active"]
    /\ UNCHANGED <<status, place, matches, usedIds>>

\* Retire and restore.
SetLocationActive(l, new) ==
    /\ Exists(l)
    /\ new \in {"active", "retired"}
    /\ locations' = [locations EXCEPT ![l] = new]
    /\ UNCHANGED <<status, place, matches, usedIds>>

DeleteLocation(l) ==
    /\ Exists(l)
    /\ \A i \in Items : place[i] # l
    /\ locations' = [locations EXCEPT ![l] = "deleted"]
    /\ UNCHANGED <<status, place, matches, usedIds>>

-----------------------------------------------------------------------------
Next ==
    \/ \E i \in Items, l \in Locations : CreateItem(i, l) \/ MoveItem(i, l)
    \/ \E i \in Items, new \in Statuses : SetItemStatus(i, new)
    \/ \E i \in Items : DeleteItem(i)
    \/ \E id \in MatchIds, lost \in Items, found \in Items :
          CreateMatch(id, lost, found)
    \/ \E m \in matches : DeleteMatch(m)
    \/ \E l \in Locations : CreateLocation(l) \/ DeleteLocation(l)
    \/ \E l \in Locations, new \in {"active", "retired"} :
          SetLocationActive(l, new)

Spec == Init /\ [][Next]_vars

-----------------------------------------------------------------------------
(* What the lifecycle guarantees *)

\* A post is in at most one match: POST /matches answers 409 ITEM_NOT_OPEN for
\* a post that is already paired.
OneMatchPerPost ==
    \A m, n \in matches : m # n => Partners(m) \cap Partners(n) = {}

\* Everything in a match is matched or returned, and everything matched is in a
\* match: the status column and the matches table never disagree.
StatusAgreesWithMatches ==
    /\ \A m \in matches : \A i \in Partners(m) :
          status[i] \in {"matched", "returned"}
    /\ \A i \in Items :
          status[i] = "matched" => \E m \in matches : i \in Partners(m)

\* A post handed back to its owner never changes again except by being removed.
ReturnedIsFinal ==
    [][\A i \in Items : status[i] = "returned" =>
          \/ status'[i] = "returned" /\ place'[i] = place[i]
          \/ status'[i] = "deleted"]_vars

=============================================================================
