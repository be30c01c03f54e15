----------------------------- MODULE MCAccounts -----------------------------
(* Accounts.tla for TLC.  Requests and commands may run in either slot. *)
EXTENDS Accounts, TLC

Symmetry == Permutations(Slots)

=============================================================================
