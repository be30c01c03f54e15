------------------------------ MODULE MCPosts ------------------------------
(* Posts on small instances. *)
EXTENDS Posts, TLC

\* Ids are interchangeable, and so are the request slots.
Symmetry ==
    Permutations(LostItems) \cup Permutations(FoundItems)
      \cup Permutations(MatchIds) \cup Permutations(Locations)
      \cup Permutations(Requests)
=============================================================================
