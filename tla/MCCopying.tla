----------------------------- MODULE MCCopying -----------------------------
(* Instances of the probe and the clipboard thread for TLC.                 *)
EXTENDS Copying
=============================================================================
