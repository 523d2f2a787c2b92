---------------------------- MODULE MCClipboard ----------------------------
(* Instances of the clipboard thread for TLC: MaxHolds and MaxReads are     *)
(* given in the configurations.                                             *)
EXTENDS Clipboard
=============================================================================
