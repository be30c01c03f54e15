--------------------------- MODULE MCImageUpload ---------------------------
(* ImageUpload on a small instance. *)
EXTENDS ImageUpload, TLC

\* Uploads and request slots are interchangeable.
Symmetry == Permutations(Uploads) \cup Permutations(Requests)

=============================================================================
