----------------------------- MODULE ItemStatus -----------------------------
(***************************************************************************)
(* The vocabulary of the item lifecycle: the ids, the states a post goes   *)
(* through (database/models.py) and the policy crud.py states about them.  *)
(* Lifecycle.tla and Posts.tla extend this module.                         *)
(***************************************************************************)

CONSTANTS
    LostItems,   \* ids of posts of type LOST
    FoundItems,  \* ids of posts of type FOUND
    MatchIds,    \* ids the matches sequence hands out
    Locations,   \* ids of locations
    NoLocation   \* no location: an id without a row, or an edit that keeps it

ASSUME PostsAssumption ==
    /\ LostItems \cap FoundItems = {}
    /\ NoLocation \notin Locations

Items == LostItems \cup FoundItems

\* A row of table matches, and the posts it pairs.
MatchRow == [id : MatchIds, lost : Items, found : Items]
Partners(m) == {m.lost, m.found}

Statuses == {"open", "matched", "returned", "withdrawn", "expired"}

\* The changes PATCH /items/{id}/status may make.  "matched" is reached, and
\* left for "open", only by creating and deleting a match.
ClientTransitions ==
    [s \in Statuses |->
        CASE s = "open"      -> {"withdrawn", "expired"}
          [] s = "matched"   -> {"returned"}
          [] s = "withdrawn" -> {"open"}
          [] s = "expired"   -> {"open"}
          [] s = "returned"  -> {}]

EditableStatuses == {"open", "matched", "withdrawn", "expired"}

=============================================================================
