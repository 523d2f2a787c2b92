------------------------------- MODULE MainKey -------------------------------
(***************************************************************************)
(* The encrypted main key on disk (first part of src/src/keystore.rs) and  *)
(* the processes that create, load, migrate and replace it.  A file is a   *)
(* name for an inode; who has opened a file keeps the inode, wherever its  *)
(* name goes.  A process is a command, or one operation of the window.     *)
(* Passwords are right: a wrong one changes nothing.                       *)
(***************************************************************************)
CONSTANTS Procs, Keys, Inodes, None

ASSUME MainKeyAssumption == None \notin Keys \cup Inodes

(* A file of neither length, an empty one included, decrypts to nothing.   *)
Torn == [format |-> "torn", key |-> None]
Sealed(format, k) == [format |-> format, key |-> k]
Contents == {Torn} \cup [format : {"old", "new"}, key : Keys]

VARIABLES
  dir,    \* inode of main.key.encrypted and of main.key.tmp
  data,   \* what is in an inode
  pc,     \* where a process is in what it does to the key
  mem,    \* the key it generated or decrypted
  fd,     \* the file it has open for writing
  \* history
  created,    \* a key was to be created, or replaced
  overlapped, \* two migrations had the temporary file at once
  spoiled     \* a write was left half done, or left what does not load

files == <<dir, data>>
procs == <<pc, mem, fd>>
history == <<created, overlapped, spoiled>>
keyVars == <<files, procs, history>>

(* is_initialized: the file exists, whatever is in it. *)
Initialized == dir.main # None
MainFile == data[dir.main]
Loadable == Initialized /\ MainFile # Torn

KeyInit ==
  /\ dir \in [main : Inodes \cup {None}, tmp : {None}]
  /\ data \in [Inodes -> Contents]
  /\ \A i \in Inodes : data[i] = Torn <=> i # dir.main
  /\ pc = [p \in Procs |-> "idle"] /\ mem = [p \in Procs |-> None]
  /\ fd = [p \in Procs |-> None]
  /\ created = FALSE /\ overlapped = FALSE /\ spoiled = FALSE

Local(p, step, k, file) ==
  /\ pc' = [pc EXCEPT ![p] = step]
  /\ mem' = [mem EXCEPT ![p] = k]
  /\ fd' = [fd EXCEPT ![p] = file]

(* No name leads to it and no process writes it. *)
Unused(i) == i \notin {dir.main, dir.tmp} \cup {fd[p] : p \in Procs}

(* open with O_CREAT and O_TRUNC, the first half of fs::write. *)
OpenToWrite(name, i) ==
  /\ IF dir[name] = None THEN Unused(i) ELSE i = dir[name]
  /\ dir' = [dir EXCEPT ![name] = i]
  /\ data' = [data EXCEPT ![i] = Torn]

(* The second half, into the file opened.  What somebody wrote there in the *)
(* meantime, if longer, shows behind it.                                   *)
Write(p, content) ==
  LET result == IF data[fd[p]] # Torn /\ data[fd[p]].format = "new" /\ content.format # "new"
                  THEN Torn ELSE content
  IN  /\ data' = [data EXCEPT ![fd[p]] = result]
      /\ spoiled' = (spoiled \/ result = Torn)

-----------------------------------------------------------------------------
(* load_main_key *)

LoadCurrent(p) ==
  /\ pc[p] = "idle" /\ Loadable /\ MainFile.format = "new"
  /\ Local(p, "idle", MainFile.key, None)
  /\ UNCHANGED <<files, history>>

(* Mutant: the plain text is zeroed before it is sealed again. *)
LoadOldClearing(p) ==
  /\ pc[p] = "idle" /\ Loadable /\ MainFile.format = "old"
  /\ Local(p, "migrate", None, None)
  /\ UNCHANGED <<files, history>>

(* The old format: decrypted, and sealed again under a fresh salt. *)
LoadOld(p) ==
  /\ pc[p] = "idle" /\ Loadable /\ MainFile.format = "old"
  /\ Local(p, "migrate", MainFile.key, None)
  /\ UNCHANGED <<files, history>>

Migrating(p) == pc[p] \in {"write", "rename"}

(* Mutant: the file itself is written. *)
OpenInPlace(p, i) ==
  /\ pc[p] = "migrate"
  /\ OpenToWrite("main", i)
  /\ Local(p, "write", mem[p], i)
  /\ overlapped' = (overlapped \/ \E q \in Procs : Migrating(q))
  /\ UNCHANGED <<created, spoiled>>

(* write_new_format_atomic: the temporary file has one name for everybody. *)
OpenTmp(p, i) ==
  /\ pc[p] = "migrate"
  /\ OpenToWrite("tmp", i)
  /\ Local(p, "write", mem[p], i)
  /\ overlapped' = (overlapped \/ \E q \in Procs : Migrating(q))
  /\ UNCHANGED <<created, spoiled>>

(* Mutant: a failed write is not noticed. *)
WriteTmpUnchecked(p) ==
  /\ pc[p] = "write"
  /\ Write(p, Sealed("new", mem[p])) \/ UNCHANGED <<data, spoiled>>
  /\ Local(p, "rename", mem[p], None)
  /\ UNCHANGED <<dir, created, overlapped>>

WriteTmp(p) ==
  /\ pc[p] = "write"
  /\ Write(p, Sealed("new", mem[p]))
  /\ Local(p, "rename", mem[p], None)
  /\ UNCHANGED <<dir, created, overlapped>>

(* Whatever is called main.key.tmp by now; without one, load fails.        *)
RenameTmp(p) ==
  /\ pc[p] = "rename"
  /\ IF dir.tmp = None
       THEN UNCHANGED dir /\ Local(p, "idle", None, None)
       ELSE dir' = [main |-> dir.tmp, tmp |-> None] /\ Local(p, "idle", mem[p], None)
  /\ UNCHANGED <<data, history>>

-----------------------------------------------------------------------------
(* init_main_key, after cli_init or unlock_key_with_init has looked; a load *)
(* follows.                                                                *)

BeginInit(p, force) ==
  /\ pc[p] = "idle" /\ (force \/ ~Initialized)
  /\ Local(p, "create", None, None)
  /\ created' = TRUE
  /\ UNCHANGED <<files, overlapped, spoiled>>

OpenMain(p, i) ==
  /\ pc[p] = "create"
  /\ OpenToWrite("main", i)
  /\ \E k \in Keys : Local(p, "fill", k, i)
  /\ UNCHANGED history

WriteMain(p) ==
  /\ pc[p] = "fill"
  /\ Write(p, Sealed("new", mem[p]))
  /\ Local(p, "idle", None, None)
  /\ UNCHANGED <<dir, created, overlapped>>

-----------------------------------------------------------------------------
(* The key's part in restore_from_str: the file of the backup, as it is.   *)

BeginRestore(p, force) ==
  /\ pc[p] = "idle" /\ (force \/ ~Initialized)
  /\ Local(p, "copy", mem[p], None)
  /\ created' = TRUE
  /\ UNCHANGED <<files, overlapped, spoiled>>

OpenCopy(p, i) ==
  /\ pc[p] = "copy"
  /\ OpenToWrite("main", i)
  /\ Local(p, "paste", mem[p], i)
  /\ UNCHANGED history

WriteCopy(p, content) ==
  /\ pc[p] = "paste"
  /\ Write(p, content)
  /\ Local(p, "idle", mem[p], None)
  /\ UNCHANGED <<dir, created, overlapped>>

(* Without --force, a restore that finds entries leaves them alone.        *)
Refused(p) ==
  /\ pc[p] = "copy"
  /\ Local(p, "idle", mem[p], None)
  /\ UNCHANGED <<files, history>>

(* drop_key. *)
Forgets(p) ==
  /\ pc[p] = "idle"
  /\ Local(p, "idle", None, None)
  /\ UNCHANGED <<files, history>>

-----------------------------------------------------------------------------
Writing(p) == pc[p] \in {"write", "fill", "paste"}

(* The process is killed, or the disk is full. *)
Stops(p) ==
  /\ pc[p] # "idle"
  /\ Local(p, "idle", None, None)
  /\ IF Writing(p) THEN data' = [data EXCEPT ![fd[p]] = Torn] /\ spoiled' = TRUE
                   ELSE UNCHANGED <<data, spoiled>>
  /\ UNCHANGED <<dir, created, overlapped>>

(* All of it but the restore, which does more than the key. *)
KeyStep(p) ==
  \/ LoadCurrent(p) \/ LoadOld(p) \/ WriteTmp(p) \/ RenameTmp(p)
  \/ \E i \in Inodes : OpenTmp(p, i) \/ OpenMain(p, i)
  \/ \E force \in BOOLEAN : BeginInit(p, force)
  \/ WriteMain(p) \/ Stops(p)

KeyNext ==
  \E p \in Procs :
    \/ KeyStep(p)
    \/ \E force \in BOOLEAN : BeginRestore(p, force)
    \/ Refused(p) \/ Forgets(p)
    \/ \E i \in Inodes : OpenCopy(p, i)
    \/ \E content \in Contents : WriteCopy(p, content)

KeySpec == KeyInit /\ [][KeyNext]_keyVars

-----------------------------------------------------------------------------
Idle == \A p \in Procs : pc[p] = "idle"

(* Every component of the key's state stays within the values the code      *)
(* gives it, and only writers have a file open.                             *)
KeyTypeOK ==
  /\ dir \in [main : Inodes \cup {None}, tmp : Inodes \cup {None}]
  /\ data \in [Inodes -> Contents]
  /\ pc \in [Procs -> {"idle", "migrate", "write", "rename", "create", "fill", "copy", "paste"}]
  /\ mem \in [Procs -> Keys \cup {None}] /\ fd \in [Procs -> Inodes \cup {None}]
  /\ \A p \in Procs : Writing(p) <=> fd[p] # None
  /\ \A p \in Procs : pc[p] \in {"migrate", "write", "rename", "fill"} => mem[p] # None
  /\ created \in BOOLEAN /\ overlapped \in BOOLEAN /\ spoiled \in BOOLEAN

(* "Writing atomically so a crash mid-write doesn't corrupt the existing    *)
(* file": a migration that has the temporary file to itself leaves, at any  *)
(* moment and wherever it stops, a main key that loads, and it is the one   *)
(* every unlocked session holds (keystore.rs 87-128, 508-519).              *)
MigrationIsAtomic ==
  ~created /\ ~overlapped =>
    /\ Initialized => Loadable
    /\ \A p \in Procs : mem[p] # None => Loadable /\ MainFile.key = mem[p]

(* However initialisations, migrations and restores overlap on the two      *)
(* names, what is left when all are through can be loaded, unless a write   *)
(* stopped half way or the backup held no key (keystore.rs 57-79, 494-519,  *)
(* backup.rs 166-173).                                                      *)
RestIsLoadable == Idle /\ ~spoiled => (Initialized => Loadable)
=============================================================================
