--------------------------- MODULE MCSingleInstance ---------------------------
(* Instances of the activation socket for TLC: the configurations give the  *)
(* processes.  No symmetry, since one of them checks liveness.              *)
EXTENDS SingleInstance
=============================================================================
