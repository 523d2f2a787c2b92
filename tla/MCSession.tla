----------------------------- MODULE MCSession -----------------------------
(* Instances of the session for TLC.  No symmetry among the workers, since  *)
(* liveness is checked too.                                                 *)
EXTENDS Session
=============================================================================
