------------------------------- MODULE Board --------------------------------
(***************************************************************************)
(* The posts as the search for matches sees them: open, or there but not   *)
(* open.  Matching.tla takes its posts from this module, and Posts.tla     *)
(* implements it, however its requests overlap.                            *)
(***************************************************************************)
CONSTANTS
    Items,    \* ids of posts
    Together  \* the sets of posts whose status one commit may change

VARIABLE board  \* item id -> "unused", "open", "closed" or "deleted"

OnBoard(i) == board[i] \in {"open", "closed"}

Init == board = [i \in Items |-> "unused"]

Post(i) ==
    /\ board[i] = "unused"
    /\ board' = [board EXCEPT ![i] = "open"]

\* A post is withdrawn or expires, or two posts are matched.
Close(of) ==
    /\ \A i \in of : board[i] = "open"
    /\ board' = [i \in Items |-> IF i \in of THEN "closed" ELSE board[i]]

\* A post is reopened, or both posts of a match that is undone.  A post that is
\* open again already is written all the same.
Reopen(of) ==
    /\ \A i \in of : OnBoard(i)
    /\ board' = [i \in Items |-> IF i \in of THEN "open" ELSE board[i]]

\* The id of a post that is deleted is never used again.
Remove(i) ==
    /\ OnBoard(i)
    /\ board' = [board EXCEPT ![i] = "deleted"]

Next ==
    \/ \E i \in Items : Post(i) \/ Remove(i)
    \/ \E of \in Together : Close(of) \/ Reopen(of)

Spec == Init /\ [][Next]_board

=============================================================================
