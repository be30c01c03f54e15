----------------------------- MODULE MCMatching -----------------------------
(* Suggestions on small instances: found posts are alike, and so are requests. *)
EXTENDS Suggestions, TLC

Symmetry == Permutations(FoundItems) \cup Permutations(Requests)

=============================================================================
