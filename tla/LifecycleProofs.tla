--------------------------- MODULE LifecycleProofs ---------------------------
(***************************************************************************)
(* The lifecycle's guarantees hold for any posts, matches and locations.   *)
(* OneMatchPerPost and StatusAgreesWithMatches are proved together: two    *)
(* matches stay apart because a post in a match is not open, and a post in *)
(* a match stays matched or returned because it is in only one.            *)
(***************************************************************************)
EXTENDS Lifecycle, TLAPS

\* The inductive invariant: each row of matches joins a lost and a found post.
RowsAreTyped ==
    \A m \in matches : m.lost \in LostItems /\ m.found \in FoundItems

Inv == TypeOK /\ RowsAreTyped /\ OneMatchPerPost /\ StatusAgreesWithMatches

\* No client may set "matched"; only a matched post may become "returned";
\* a returned one may become nothing.
LEMMA TransitionFacts ==
    ASSUME NEW s \in Statuses, NEW new \in ClientTransitions[s]
    PROVE  /\ new \in Statuses
           /\ new # "matched"
           /\ s # "returned"
           /\ s = "matched" => new = "returned"
           /\ new = "returned" => s = "matched"
<1>1. ClientTransitions[s] =
          CASE s = "open"      -> {"withdrawn", "expired"}
            [] s = "matched"   -> {"returned"}
            [] s = "withdrawn" -> {"open"}
            [] s = "expired"   -> {"open"}
            [] s = "returned"  -> {}
  BY DEF ClientTransitions
<1> QED
  BY <1>1 DEF Statuses

LEMMA InitInv == Init => Inv
BY DEF Init, Inv, TypeOK, RowsAreTyped, OneMatchPerPost,
       StatusAgreesWithMatches, Statuses

\* Every step keeps the rows of the right types.
LEMMA TypeStep ==
    ASSUME TypeOK, [Next]_vars
    PROVE  TypeOK'
<1> USE DEF TypeOK
<1>1. ASSUME NEW i \in Items, NEW l \in Locations, CreateItem(i, l)
      PROVE  TypeOK'
  BY <1>1 DEF CreateItem, Statuses
<1>2. ASSUME NEW i \in Items, NEW l \in Locations, MoveItem(i, l)
      PROVE  TypeOK'
  BY <1>2 DEF MoveItem
<1>3. ASSUME NEW i \in Items, NEW new \in Statuses, SetItemStatus(i, new)
      PROVE  TypeOK'
  BY <1>3 DEF SetItemStatus
<1>4. ASSUME NEW i \in Items, DeleteItem(i)
      PROVE  TypeOK'
  BY <1>4 DEF DeleteItem
<1>5. ASSUME NEW id \in MatchIds, NEW lost \in Items, NEW found \in Items,
             CreateMatch(id, lost, found)
      PROVE  TypeOK'
  <2>1. [id |-> id, lost |-> lost, found |-> found] \in MatchRow
    BY DEF MatchRow
  <2>2. status' \in [Items -> Statuses \cup {"unused", "deleted"}]
    BY <1>5 DEF CreateMatch, Statuses
  <2> QED
    BY <1>5, <2>1, <2>2 DEF CreateMatch
<1>6. ASSUME NEW m \in matches, DeleteMatch(m)
      PROVE  TypeOK'
  BY <1>6 DEF DeleteMatch, Statuses
<1>7. ASSUME NEW l \in Locations, CreateLocation(l)
      PROVE  TypeOK'
  BY <1>7 DEF CreateLocation
<1>8. ASSUME NEW l \in Locations, DeleteLocation(l)
      PROVE  TypeOK'
  BY <1>8 DEF DeleteLocation
<1>9. ASSUME NEW l \in Locations, NEW new \in {"active", "retired"},
             SetLocationActive(l, new)
      PROVE  TypeOK'
  BY <1>9 DEF SetLocationActive
<1>10. CASE UNCHANGED vars
  BY <1>10 DEF vars
<1> QED
  BY <1>1, <1>2, <1>3, <1>4, <1>5, <1>6, <1>7, <1>8, <1>9, <1>10 DEF Next

\* Confirming a match: both posts were open, so neither is in another match.
LEMMA CreateMatchStep ==
    ASSUME Inv, NEW id \in MatchIds, NEW lost \in Items, NEW found \in Items,
           CreateMatch(id, lost, found)
    PROVE  RowsAreTyped' /\ OneMatchPerPost' /\ StatusAgreesWithMatches'
<1> DEFINE row == [id |-> id, lost |-> lost, found |-> found]
<1>1. /\ matches' = matches \cup {row}
      /\ status[lost] = "open" /\ status[found] = "open"
      /\ lost \in LostItems /\ found \in FoundItems
      /\ Partners(row) = {lost, found}
  BY DEF CreateMatch, Partners
<1>2. \A i \in Items :
         status'[i] = IF i \in {lost, found} THEN "matched" ELSE status[i]
  BY DEF CreateMatch, Inv, TypeOK
<1>3. \A n \in matches : Partners(n) \subseteq Items
                         /\ Partners(n) \cap {lost, found} = {}
  BY <1>1 DEF Inv, TypeOK, MatchRow, Partners, StatusAgreesWithMatches
<1>4. RowsAreTyped'
  BY <1>1 DEF Inv, RowsAreTyped
<1>5. OneMatchPerPost'
  <2> SUFFICES ASSUME NEW m \in matches', NEW n \in matches', m # n
               PROVE  Partners(m) \cap Partners(n) = {}
    BY DEF OneMatchPerPost, Partners
  <2>1. CASE m \in matches /\ n \in matches
    BY <2>1 DEF Inv, OneMatchPerPost
  <2>2. CASE m = row \/ n = row
    BY <2>2, <1>1, <1>3
  <2> QED
    BY <2>1, <2>2, <1>1
<1>6. StatusAgreesWithMatches'
  <2>1. ASSUME NEW m \in matches', NEW i \in Partners(m)
        PROVE  status'[i] \in {"matched", "returned"}
    <3>1. CASE m \in matches
      <4>1. i \in Items /\ i \notin {lost, found}
        BY <3>1, <1>3
      <4>2. status[i] \in {"matched", "returned"}
        BY <3>1 DEF Inv, StatusAgreesWithMatches
      <4> QED
        BY <4>1, <4>2, <1>2
    <3>2. CASE m = row
      BY <3>2, <1>1, <1>2
    <3> QED
      BY <3>1, <3>2, <1>1
  <2>2. ASSUME NEW i \in Items, status'[i] = "matched"
        PROVE  \E m \in matches' : i \in Partners(m)
    <3>1. CASE i \in {lost, found}
      BY <3>1, <1>1
    <3>2. CASE i \notin {lost, found}
      BY <3>2, <2>2, <1>1, <1>2 DEF Inv, StatusAgreesWithMatches
    <3> QED
      BY <3>1, <3>2
  <2> QED
    BY <2>1, <2>2 DEF StatusAgreesWithMatches, Partners
<1> QED
  BY <1>4, <1>5, <1>6

\* Unmatching: the posts of the other matches are not touched, because no
\* post is in two.
LEMMA DeleteMatchStep ==
    ASSUME Inv, NEW m \in matches, DeleteMatch(m)
    PROVE  RowsAreTyped' /\ OneMatchPerPost' /\ StatusAgreesWithMatches'
<1>1. matches' = matches \ {m}
  BY DEF DeleteMatch
<1>2. \A i \in Items :
         status'[i] = IF i \in Partners(m) /\ status[i] = "matched"
                      THEN "open" ELSE status[i]
  BY DEF DeleteMatch
<1>3. RowsAreTyped' /\ OneMatchPerPost'
  BY <1>1 DEF Inv, RowsAreTyped, OneMatchPerPost, Partners
<1>4. ASSUME NEW n \in matches', NEW i \in Partners(n)
      PROVE  status'[i] \in {"matched", "returned"}
  <2>1. n \in matches /\ n # m /\ i \in Items
    BY <1>1 DEF Inv, TypeOK, MatchRow, Partners
  <2>2. i \notin Partners(m)
    BY <2>1 DEF Inv, OneMatchPerPost
  <2> QED
    BY <1>2, <2>1, <2>2 DEF Inv, StatusAgreesWithMatches
<1>5. ASSUME NEW i \in Items, status'[i] = "matched"
      PROVE  \E n \in matches' : i \in Partners(n)
  <2>1. status[i] = "matched" /\ i \notin Partners(m)
    BY <1>2, <1>5
  <2> QED
    BY <2>1, <1>1 DEF Inv, StatusAgreesWithMatches
<1> QED
  BY <1>3, <1>4, <1>5 DEF StatusAgreesWithMatches, Partners

LEMMA NextInv == Inv /\ [Next]_vars => Inv'
<1> SUFFICES ASSUME Inv, [Next]_vars
             PROVE  Inv'
  OBVIOUS
<1>0. TypeOK'
  BY TypeStep DEF Inv
<1>1. ASSUME NEW i \in Items, NEW l \in Locations, CreateItem(i, l)
      PROVE  RowsAreTyped' /\ OneMatchPerPost' /\ StatusAgreesWithMatches'
  <2>1. matches' = matches
    BY <1>1 DEF CreateItem
  <2>2. \A j \in Items : status'[j] = IF j = i THEN "open" ELSE status[j]
    BY <1>1 DEF CreateItem, Inv, TypeOK
  <2>3. \A m \in matches : Partners(m) \subseteq Items /\ i \notin Partners(m)
    BY <1>1 DEF CreateItem, Inv, TypeOK, MatchRow, Partners,
                StatusAgreesWithMatches
  <2> QED
    BY <2>1, <2>2, <2>3 DEF Inv, RowsAreTyped, OneMatchPerPost,
                            StatusAgreesWithMatches, Partners
<1>2. ASSUME NEW i \in Items, NEW l \in Locations, MoveItem(i, l)
      PROVE  RowsAreTyped' /\ OneMatchPerPost' /\ StatusAgreesWithMatches'
  BY <1>2 DEF MoveItem, Inv, RowsAreTyped, OneMatchPerPost,
              StatusAgreesWithMatches, Partners
<1>3. ASSUME NEW i \in Items, NEW new \in Statuses, SetItemStatus(i, new)
      PROVE  RowsAreTyped' /\ OneMatchPerPost' /\ StatusAgreesWithMatches'
  <2>1. matches' = matches
    BY <1>3 DEF SetItemStatus
  <2>2. \A j \in Items : status'[j] = IF j = i THEN new ELSE status[j]
    BY <1>3 DEF SetItemStatus, Inv, TypeOK
  <2>3. /\ new # "matched"
        /\ status[i] # "returned"
        /\ status[i] = "matched" => new = "returned"
    BY <1>3, TransitionFacts DEF SetItemStatus, HasRow
  <2>4. \A m \in matches : Partners(m) \subseteq Items
    BY DEF Inv, TypeOK, MatchRow, Partners
  <2> QED
    BY <2>1, <2>2, <2>3, <2>4 DEF Inv, RowsAreTyped, OneMatchPerPost,
                                  StatusAgreesWithMatches, Partners
<1>4. ASSUME NEW i \in Items, DeleteItem(i)
      PROVE  RowsAreTyped' /\ OneMatchPerPost' /\ StatusAgreesWithMatches'
  <2>1. matches' = matches /\ \A m \in matches : i \notin Partners(m)
    BY <1>4 DEF DeleteItem
  <2>2. \A j \in Items : status'[j] = IF j = i THEN "deleted" ELSE status[j]
    BY <1>4 DEF DeleteItem, Inv, TypeOK
  <2>3. \A m \in matches : Partners(m) \subseteq Items
    BY DEF Inv, TypeOK, MatchRow, Partners
  <2> QED
    BY <2>1, <2>2, <2>3 DEF Inv, RowsAreTyped, OneMatchPerPost,
                            StatusAgreesWithMatches, Partners
<1>5. ASSUME NEW id \in MatchIds, NEW lost \in Items, NEW found \in Items,
             CreateMatch(id, lost, found)
      PROVE  RowsAreTyped' /\ OneMatchPerPost' /\ StatusAgreesWithMatches'
  BY <1>5, CreateMatchStep
<1>6. ASSUME NEW m \in matches, DeleteMatch(m)
      PROVE  RowsAreTyped' /\ OneMatchPerPost' /\ StatusAgreesWithMatches'
  BY <1>6, DeleteMatchStep
<1>7. ASSUME UNCHANGED <<status, matches>>
      PROVE  RowsAreTyped' /\ OneMatchPerPost' /\ StatusAgreesWithMatches'
  BY <1>7 DEF Inv, RowsAreTyped, OneMatchPerPost, StatusAgreesWithMatches,
              Partners
<1>8. (\E l \in Locations : CreateLocation(l) \/ DeleteLocation(l))
        \/ (\E l \in Locations, new \in {"active", "retired"} :
               SetLocationActive(l, new))
        \/ UNCHANGED vars
      => UNCHANGED <<status, matches>>
  BY DEF CreateLocation, DeleteLocation, SetLocationActive, vars
<1> QED
  BY <1>0, <1>1, <1>2, <1>3, <1>4, <1>5, <1>6, <1>7, <1>8 DEF Inv, Next

\* Every reachable state satisfies the inductive invariant.
THEOREM LifecycleInvariant == Spec => []Inv
<1> QED
  BY InitInv, NextInv, PTL DEF Spec

\* A post is in at most one match, and the status column agrees with the
\* matches table: what POST and DELETE /matches promise, for any number of
\* posts and matches.
THEOREM LifecycleIsConsistent ==
    Spec => [](OneMatchPerPost /\ StatusAgreesWithMatches)
<1>1. Inv => OneMatchPerPost /\ StatusAgreesWithMatches
  BY DEF Inv
<1> QED
  BY <1>1, LifecycleInvariant, PTL

\* The body of ReturnedIsFinal.
ReturnedStays ==
    \A i \in Items : status[i] = "returned" =>
        \/ status'[i] = "returned" /\ place'[i] = place[i]
        \/ status'[i] = "deleted"

\* Terminal means terminal: nothing but a hard delete changes a returned post.
THEOREM LifecycleReturnedIsFinal == Spec => ReturnedIsFinal
<1>1. ASSUME TypeOK, [Next]_vars
      PROVE  [ReturnedStays]_vars
  <2> SUFFICES ASSUME NEW j \in Items, status[j] = "returned", Next
               PROVE  (status'[j] = "returned" /\ place'[j] = place[j])
                        \/ status'[j] = "deleted"
    BY <1>1 DEF ReturnedStays
  <2> USE <1>1 DEF TypeOK
  <2>1. ASSUME NEW i \in Items, NEW l \in Locations, CreateItem(i, l)
        PROVE  status'[j] = "returned" /\ place'[j] = place[j]
    BY <2>1 DEF CreateItem
  <2>2. ASSUME NEW i \in Items, NEW l \in Locations, MoveItem(i, l)
        PROVE  status'[j] = "returned" /\ place'[j] = place[j]
    BY <2>2 DEF MoveItem, EditableStatuses
  <2>3. ASSUME NEW i \in Items, NEW new \in Statuses, SetItemStatus(i, new)
        PROVE  status'[j] = "returned" /\ place'[j] = place[j]
    <3>1. status[i] # "returned"
      BY <2>3, TransitionFacts DEF SetItemStatus, HasRow
    <3> QED
      BY <2>3, <3>1 DEF SetItemStatus
  <2>4. ASSUME NEW i \in Items, DeleteItem(i)
        PROVE  \/ status'[j] = "returned" /\ place'[j] = place[j]
               \/ status'[j] = "deleted"
    BY <2>4 DEF DeleteItem
  <2>5. ASSUME NEW id \in MatchIds, NEW lost \in Items, NEW found \in Items,
               CreateMatch(id, lost, found)
        PROVE  status'[j] = "returned" /\ place'[j] = place[j]
    BY <2>5 DEF CreateMatch
  <2>6. ASSUME NEW m \in matches, DeleteMatch(m)
        PROVE  status'[j] = "returned" /\ place'[j] = place[j]
    BY <2>6 DEF DeleteMatch
  <2>7. ASSUME NEW l \in Locations,
               \/ CreateLocation(l) \/ DeleteLocation(l)
               \/ \E new \in {"active", "retired"} : SetLocationActive(l, new)
        PROVE  status'[j] = "returned" /\ place'[j] = place[j]
    BY <2>7 DEF CreateLocation, DeleteLocation, SetLocationActive
  <2> QED
    BY <2>1, <2>2, <2>3, <2>4, <2>5, <2>6, <2>7 DEF Next
<1>2. Inv => TypeOK
  BY DEF Inv
<1> QED
  BY <1>1, <1>2, LifecycleInvariant, PTL DEF Spec, ReturnedIsFinal, ReturnedStays

=============================================================================
