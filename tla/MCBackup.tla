------------------------------- MODULE MCBackup -------------------------------
EXTENDS Backup, TLC

(* A backup of another store, in the old format and with a password only.  *)
ForeignKey == CHOOSE k \in Keys : TRUE
ForeignBackup ==
  [main |-> Sealed("old", ForeignKey),
   files |-> [n \in Names |-> IF n \in Passwords THEN ForeignKey
                              ELSE IF n \in Totps THEN None
                              ELSE CHOOSE c \in Confs : TRUE]]
OneBackup == {ForeignBackup}
Interchangeable == Permutations(Procs) \cup Permutations(Inodes)
=============================================================================
