------------------------- MODULE MCBatchedDescribe --------------------------
(* BatchedDescribe for TLC; liveness is checked, hence no symmetry. *)
EXTENDS BatchedDescribe
=============================================================================
