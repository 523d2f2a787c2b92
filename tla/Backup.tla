-------------------------------- MODULE Backup --------------------------------
(***************************************************************************)
(* Backup and restore (src/src/backup.rs) among the other commands that    *)
(* use the same directory: a backup reads the key file and every entry one *)
(* after the other, a restore writes them so, and nothing keeps a second   *)
(* process from working in between.                                        *)
(***************************************************************************)
EXTENDS MainKey, Naturals

CONSTANTS
  Passwords, Totps,  \* files of entries
  Confs,             \* contents of settings.conf
  Texts,             \* backup files there are at first
  MaxJobs            \* bound on the operations begun, plain loads aside

Entries == Passwords \cup Totps
Names == Entries \cup {"conf"}

(* None is no file; an entry is known by the key it is sealed under.       *)
Values == Keys \cup Confs \cup {None, Torn}
BackupTexts == [main : Contents, files : [Names -> Values]]

ASSUME BackupAssumption ==
  /\ Texts \subseteq {t \in BackupTexts : t.files["conf"] # None}
  /\ "conf" \notin Entries /\ "removed" \notin Names /\ None \notin Names \cup Confs

VARIABLES
  disk,      \* what is in the other files
  job,       \* what a process does to them
  saved,     \* the backup file
  disturbed, \* processes whose files another one changed since they began
  jobs       \* operations begun

bookkeeping == <<disturbed, jobs>>
storeVars == <<keyVars, disk, job, saved, bookkeeping>>

NoText == [main |-> Torn, files |-> [n \in Names |-> None]]
NoJob == [does |-> "nothing", at |-> "end", force |-> FALSE,
          text |-> NoText, todo |-> {}, open |-> None]

Init ==
  /\ KeyInit
  /\ disk \in [Names -> Values]
  /\ disk["conf"] \in Confs
  /\ \A e \in Entries : disk[e] \in {None} \cup (IF Initialized THEN {MainFile.key} ELSE {})
  /\ job = [p \in Procs |-> NoJob] /\ saved \in Texts
  /\ disturbed = {} /\ jobs = 0

At(p, does, at) == job[p].does = does /\ job[p].at = at
Disturbs(p) == disturbed' = disturbed \cup (Procs \ {p}) /\ UNCHANGED jobs

Begin(p, does, at, force, text, todo) ==
  /\ job[p] = NoJob /\ pc[p] = "idle" /\ jobs < MaxJobs
  /\ job' = [job EXCEPT ![p] = [does |-> does, at |-> at, force |-> force,
                                text |-> text, todo |-> todo, open |-> None]]
  /\ disturbed' = disturbed \ {p} /\ jobs' = jobs + 1

(* An error, a kill, or the end of the report. *)
Drop(p) == job' = [job EXCEPT ![p] = NoJob]

(* Settings::load: a cut file gives its first lines, and defaults for the  *)
(* rest (module Settings).                                                 *)
LoadedConfs == IF disk["conf"] = Torn THEN Confs ELSE {disk["conf"]}

-----------------------------------------------------------------------------
(* backup_to_string.  The names of a kind are listed, then read one by one. *)

(* A command loads the settings; a window, which is the process that holds  *)
(* the key, records those it has in memory, saved or not.                  *)
RecordedConfs(p) == IF mem[p] = None THEN LoadedConfs ELSE Confs

BeginBackup(p) ==
  /\ \E c \in RecordedConfs(p) :
       Begin(p, "backup", "key", FALSE, [NoText EXCEPT !.files["conf"] = c], {})
  /\ UNCHANGED <<keyVars, disk, saved>>

ReadKey(p) ==
  /\ At(p, "backup", "key")
  /\ IF Initialized
       THEN job' = [job EXCEPT ![p].at = "listPasswords", ![p].text.main = MainFile]
       ELSE Drop(p)
  /\ UNCHANGED <<keyVars, disk, saved, bookkeeping>>

Present(kind) == {e \in kind : disk[e] # None}

List(p) ==
  /\ job[p].does = "backup"
  /\ \/ /\ job[p].at = "listPasswords"
        /\ job' = [job EXCEPT ![p].at = "passwords", ![p].todo = Present(Passwords)]
     \/ /\ job[p].at = "passwords" /\ job[p].todo = {}
        /\ job' = [job EXCEPT ![p].at = "totps", ![p].todo = Present(Totps)]
  /\ UNCHANGED <<keyVars, disk, saved, bookkeeping>>

(* An entry removed since the listing ends the backup. *)
ReadEntry(p, e) ==
  /\ job[p].does = "backup" /\ e \in job[p].todo
  /\ IF disk[e] = None
       THEN Drop(p)
       ELSE job' = [job EXCEPT ![p].todo = @ \ {e}, ![p].text.files[e] = disk[e]]
  /\ UNCHANGED <<keyVars, disk, saved, bookkeeping>>

(* Mutant: the codes are left out. *)
SavedWithoutTotps(p) ==
  /\ At(p, "backup", "totps")
  /\ job' = [job EXCEPT ![p].at = "end", ![p].todo = {}]
  /\ saved' = job[p].text
  /\ UNCHANGED <<keyVars, disk, bookkeeping>>

Saved(p) ==
  /\ At(p, "backup", "totps") /\ job[p].todo = {}
  /\ job' = [job EXCEPT ![p].at = "end"]
  /\ saved' = job[p].text
  /\ UNCHANGED <<keyVars, disk, bookkeeping>>

-----------------------------------------------------------------------------
(* restore_from_str.  Without --force three looks find the store empty.    *)

BeginUnforced(p) ==
  /\ Begin(p, "restore", "lookPasswords", FALSE, saved, {})
  /\ BeginRestore(p, FALSE)
  /\ UNCHANGED <<disk, saved>>

BeginForced(p) ==
  /\ Begin(p, "restore", "key", TRUE, saved, {})
  /\ BeginRestore(p, TRUE)
  /\ UNCHANGED <<disk, saved>>

Look(p) ==
  /\ job[p].does = "restore"
  /\ \/ /\ job[p].at = "lookPasswords"
        /\ job' = [job EXCEPT ![p].at = "lookTotps", ![p].todo = Present(Passwords)]
     \/ /\ job[p].at = "lookTotps"
        /\ job' = [job EXCEPT ![p].at = "compare", ![p].todo = @ \cup Present(Totps)]
  /\ UNCHANGED <<keyVars, disk, saved, bookkeeping>>

Compare(p) ==
  /\ At(p, "restore", "compare")
  /\ IF job[p].todo = {}
       THEN job' = [job EXCEPT ![p].at = "key"] /\ UNCHANGED keyVars
       ELSE Drop(p) /\ Refused(p)
  /\ UNCHANGED <<disk, saved, bookkeeping>>

OpenKey(p) ==
  /\ At(p, "restore", "key")
  /\ \E i \in Inodes : OpenCopy(p, i)
  /\ Disturbs(p) /\ UNCHANGED <<disk, job, saved>>

(* Mutant: a restore that knows no codes. *)
NamesInKnown(text) == {n \in Passwords \cup {"conf"} : text.files[n] # None}

NamesIn(text) == {n \in Names : text.files[n] # None}

(* Passwords first, then the codes, the settings last. *)
Due(todo) ==
  IF todo \cap Passwords # {} THEN todo \cap Passwords
  ELSE IF todo \cap Totps # {} THEN todo \cap Totps ELSE todo

WriteKey(p) ==
  /\ At(p, "restore", "key")
  /\ WriteCopy(p, job[p].text.main)
  /\ job' = [job EXCEPT ![p].at = "files", ![p].todo = NamesIn(job[p].text)]
  /\ Disturbs(p) /\ UNCHANGED <<disk, saved>>

(* The report; a window then locks. *)
Restored(p) ==
  /\ At(p, "restore", "files")
  /\ job[p].todo = {} /\ job[p].open = None
  /\ job' = [job EXCEPT ![p].at = "end"]
  /\ Forgets(p)
  /\ UNCHANGED <<disk, saved, bookkeeping>>

-----------------------------------------------------------------------------
(* store_password, store_totp, Settings::save: one file.                   *)

BeginStore(p, n) ==
  /\ n \in Entries => mem[p] # None
  /\ \E c \in Confs :
       LET text == [NoText EXCEPT !.files[n] = IF n \in Entries THEN mem[p] ELSE c]
       IN  Begin(p, "store", "files", FALSE, text, {n})
  /\ UNCHANGED <<keyVars, disk, saved>>

(* fs::write in its two halves.  A file removed in between takes what is   *)
(* written with it, and two contents of different lengths may mix.         *)
OpenFile(p, n) ==
  /\ job[p].at = "files" /\ job[p].open = None /\ n \in Due(job[p].todo)
  /\ job' = [job EXCEPT ![p].todo = @ \ {n}, ![p].open = n]
  /\ disk' = [disk EXCEPT ![n] = Torn]
  /\ Disturbs(p) /\ UNCHANGED <<keyVars, saved>>

FillFile(p) ==
  LET n == job[p].open IN
  /\ n # None
  /\ job' = [job EXCEPT ![p].open = None, ![p].at = IF job[p].does = "store" THEN "end" ELSE @]
  /\ IF n = "removed"
       THEN UNCHANGED disk
       ELSE \E v \in {job[p].text.files[n]} \cup (IF disk[n] = Torn THEN {} ELSE {Torn}) :
              disk' = [disk EXCEPT ![n] = v]
  /\ Disturbs(p) /\ UNCHANGED <<keyVars, saved>>

Remove(p, e) ==
  /\ job[p] = NoJob /\ pc[p] = "idle" /\ mem[p] # None /\ jobs < MaxJobs
  /\ disk[e] # None
  /\ disk' = [disk EXCEPT ![e] = None]
  /\ job' = [q \in Procs |-> IF job[q].open = e THEN [job[q] EXCEPT !.open = "removed"] ELSE job[q]]
  /\ disturbed' = disturbed \cup (Procs \ {p}) /\ jobs' = jobs + 1
  /\ UNCHANGED <<keyVars, saved>>

-----------------------------------------------------------------------------
(* The end of the command, its failure or its end by a signal.             *)
JobEnds(p) ==
  /\ job[p] # NoJob
  /\ Drop(p)
  /\ IF pc[p] = "idle" THEN UNCHANGED keyVars ELSE Stops(p)
  /\ IF job[p].open \in Names
       THEN disk' = [disk EXCEPT ![job[p].open] = Torn]
       ELSE UNCHANGED disk
  /\ IF Writing(p) \/ job[p].open # None THEN Disturbs(p) ELSE UNCHANGED bookkeeping
  /\ UNCHANGED saved

OnlyKey(p) ==
  /\ job[p] = NoJob /\ KeyStep(p)
  /\ disturbed' = IF files' = files THEN disturbed ELSE disturbed \cup (Procs \ {p})
  /\ IF pc[p] = "idle" /\ pc'[p] # "idle" THEN jobs < MaxJobs /\ jobs' = jobs + 1
                                          ELSE UNCHANGED jobs
  /\ UNCHANGED <<disk, job, saved>>

Step(p) ==
  \/ BeginBackup(p) \/ ReadKey(p) \/ List(p) \/ Saved(p)
  \/ BeginUnforced(p) \/ BeginForced(p) \/ Look(p) \/ Compare(p)
  \/ OpenKey(p) \/ WriteKey(p) \/ Restored(p)
  \/ \E n \in Names : BeginStore(p, n) \/ OpenFile(p, n)
  \/ \E e \in Entries : ReadEntry(p, e) \/ Remove(p, e)
  \/ FillFile(p) \/ JobEnds(p) \/ OnlyKey(p)

Next == \E p \in Procs : Step(p)

Spec == Init /\ [][Next]_storeVars

-----------------------------------------------------------------------------
Jobs == [does : {"nothing", "backup", "restore", "store"},
         at : {"key", "listPasswords", "passwords", "totps", "lookPasswords",
               "lookTotps", "compare", "files", "end"},
         force : BOOLEAN, text : BackupTexts,
         todo : SUBSET Names, open : Names \cup {None, "removed"}]

(* Every component of the state stays within the values the code gives it. *)
TypeOK ==
  /\ KeyTypeOK
  /\ disk \in [Names -> Values] /\ saved \in BackupTexts
  /\ job \in [Procs -> Jobs] /\ disturbed \subseteq Procs

Undisturbed(p) == p \notin disturbed

(* A restore that reports success, and that nobody disturbed, has put the   *)
(* whole backup in place: the key, each entry and the settings; without     *)
(* --force nothing else is left beside them (backup.rs 122-226).            *)
RestoreIsComplete ==
  \A p \in Procs : At(p, "restore", "end") /\ Undisturbed(p) =>
    LET text == job[p].text IN
    /\ Initialized /\ MainFile = text.main
    /\ \A n \in Names : text.files[n] # None => disk[n] = text.files[n]
    /\ ~job[p].force => \A n \in Names : text.files[n] = None => disk[n] = None

(* A backup that succeeds, and that nobody disturbed, is the store: the key *)
(* file as it is and exactly the entries there are (68-120); a command's    *)
(* has the settings as they load (main.rs 811-816).                         *)
BackupIsExact ==
  \A p \in Procs : At(p, "backup", "end") /\ Undisturbed(p) =>
    LET text == job[p].text IN
    /\ Initialized /\ text.main = MainFile
    /\ \A e \in Entries : text.files[e] = disk[e]
    /\ text.files["conf"] \in RecordedConfs(p)
=============================================================================
