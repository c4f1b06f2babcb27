-------------------------- MODULE MCNodeLifecycle ---------------------------
(* NodeLifecycle for TLC; liveness is checked, hence no symmetry. *)
EXTENDS NodeLifecycle
=============================================================================
