----------------------------- MODULE MCEventBus -----------------------------
(* EventBus.tla for TLC.  Liveness is checked, so there is no symmetry. *)
EXTENDS EventBus

=============================================================================
