---------------------------- MODULE MCFileStore ----------------------------
(* FileStore on a small instance. *)
EXTENDS FileStore, TLC

\* Keys and request slots are interchangeable.
Symmetry == Permutations(Keys) \cup Permutations(Requests)

=============================================================================
