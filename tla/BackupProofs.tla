----------------------------- MODULE BackupProofs -----------------------------
(***************************************************************************)
(* Proofs about the main key file, and about backups and restores among    *)
(* other commands, for any number of processes, entries, keys and files.   *)
(***************************************************************************)
EXTENDS Backup, TLAPS

-----------------------------------------------------------------------------
(* The main key file by itself: steps of module MainKey.                    *)

(* As long as no write went wrong, a torn file that has a name is being     *)
(* written.                                                                 *)
TornInv ==
  ~spoiled => \A name \in {"main", "tmp"} :
    dir[name] # None /\ data[dir[name]] = Torn => \E p \in Procs : fd[p] = dir[name]

(* A migration that has the temporary file to itself: the writer has it     *)
(* open, and who is about to rename it has filled it.                       *)
TmpInv ==
  ~created /\ ~overlapped =>
    /\ \A p \in Procs : pc[p] \in {"idle", "migrate", "write", "rename"}
    /\ \A p, q \in Procs : Migrating(p) /\ Migrating(q) => p = q
    /\ dir.tmp # None => dir.tmp # dir.main
    /\ \A p \in Procs : pc[p] = "write" => fd[p] = dir.tmp
    /\ \A p \in Procs : pc[p] = "rename" =>
         dir.tmp # None /\ data[dir.tmp] = Sealed("new", mem[p])

-----------------------------------------------------------------------------
USE DEF keyVars, files, procs, history

LEMMA ContentFacts ==
  /\ Torn \in Contents
  /\ \A k \in Keys : Sealed("new", k) \in Contents /\ Sealed("new", k) # Torn
  /\ \A c \in Contents : c # Torn => c.key \in Keys
  BY DEF Contents, Torn, Sealed

LEMMA OpenFacts ==
  ASSUME KeyTypeOK, NEW name \in {"main", "tmp"}, NEW i \in Inodes, OpenToWrite(name, i)
  PROVE  /\ dir' \in [main : Inodes \cup {None}, tmp : Inodes \cup {None}]
         /\ data' \in [Inodes -> Contents]
         /\ dir'[name] = i /\ data'[i] = Torn
         /\ \A n \in {"main", "tmp"} : n # name => dir'[n] = dir[n]
         /\ \A j \in Inodes : j # i => data'[j] = data[j]
         /\ dir[name] = None => Unused(i)
         /\ dir[name] # None => i = dir[name]
  BY ContentFacts DEF OpenToWrite, KeyTypeOK

LEMMA WriteFacts ==
  ASSUME KeyTypeOK, NEW p \in Procs, Writing(p), NEW content \in Contents,
         Write(p, content)
  PROVE  /\ data' \in [Inodes -> Contents] /\ spoiled' \in BOOLEAN
         /\ spoiled => spoiled'
         /\ fd[p] \in Inodes
         /\ \A j \in Inodes : j # fd[p] => data'[j] = data[j]
         /\ ~spoiled' => data'[fd[p]] # Torn
         /\ content.format = "new" => data'[fd[p]] = content
  <1>1. fd[p] \in Inodes
    BY DEF KeyTypeOK
  <1>2. QED
    BY <1>1, ContentFacts DEF Write, KeyTypeOK

LEMMA LocalFacts ==
  ASSUME KeyTypeOK, NEW p \in Procs, NEW step, NEW k, NEW file, Local(p, step, k, file)
  PROVE  /\ pc'[p] = step /\ mem'[p] = k /\ fd'[p] = file
         /\ \A q \in Procs : q # p => pc'[q] = pc[q] /\ mem'[q] = mem[q] /\ fd'[q] = fd[q]
  BY DEF Local, KeyTypeOK

LEMMA MainFacts ==
  ASSUME KeyTypeOK, Loadable
  PROVE  dir.main \in Inodes /\ MainFile \in Contents /\ MainFile.key \in Keys
  <1>1. dir.main \in Inodes
    BY DEF KeyTypeOK, Loadable, Initialized
  <1>2. MainFile \in Contents
    BY <1>1 DEF KeyTypeOK, MainFile
  <1>3. QED
    BY <1>1, <1>2, ContentFacts DEF Loadable

-----------------------------------------------------------------------------
LEMMA KeyInits == KeyInit => KeyTypeOK /\ TornInv /\ TmpInv /\ MigrationIsAtomic
  <1> SUFFICES ASSUME KeyInit PROVE KeyTypeOK /\ TornInv /\ TmpInv /\ MigrationIsAtomic
    OBVIOUS
  <1>1. KeyTypeOK
    BY DEF KeyInit, KeyTypeOK, Writing
  <1>2. TornInv
    BY DEF KeyInit, TornInv
  <1>3. TmpInv
    BY DEF KeyInit, TmpInv, Migrating
  <1>4. MigrationIsAtomic
    BY DEF KeyInit, MigrationIsAtomic, Initialized, Loadable, MainFile
  <1>5. QED
    BY <1>1, <1>2, <1>3, <1>4

LEMMA KeyTypeStep == KeyTypeOK /\ [KeyNext]_keyVars => KeyTypeOK'
  <1> SUFFICES ASSUME KeyTypeOK, [KeyNext]_keyVars PROVE KeyTypeOK'
    OBVIOUS
  <1> USE MainKeyAssumption
  <1>1. CASE UNCHANGED keyVars
    BY <1>1 DEF KeyTypeOK, Writing
  <1>2. ASSUME NEW p \in Procs, LoadCurrent(p) \/ LoadOld(p) PROVE KeyTypeOK'
    <2>1. MainFile.key \in Keys
      BY <1>2, MainFacts DEF LoadCurrent, LoadOld
    <2>2. QED
      BY <1>2, <2>1 DEF LoadCurrent, LoadOld, Local, KeyTypeOK, Writing
  <1>3. ASSUME NEW p \in Procs, NEW i \in Inodes,
               OpenTmp(p, i) \/ OpenMain(p, i) \/ OpenCopy(p, i)
        PROVE KeyTypeOK'
    <2>1. /\ dir' \in [main : Inodes \cup {None}, tmp : Inodes \cup {None}]
          /\ data' \in [Inodes -> Contents]
      BY <1>3, OpenFacts DEF OpenTmp, OpenMain, OpenCopy
    <2>2. CASE OpenTmp(p, i)
      BY <2>1, <2>2 DEF OpenTmp, Local, KeyTypeOK, Writing
    <2>3. CASE OpenMain(p, i)
      BY <2>1, <2>3 DEF OpenMain, Local, KeyTypeOK, Writing
    <2>4. CASE OpenCopy(p, i)
      BY <2>1, <2>4 DEF OpenCopy, Local, KeyTypeOK, Writing
    <2>5. QED
      BY <1>3, <2>2, <2>3, <2>4
  <1>4. ASSUME NEW p \in Procs, WriteTmp(p) \/ WriteMain(p) PROVE KeyTypeOK'
    <2>1. mem[p] \in Keys /\ Writing(p)
      BY <1>4 DEF WriteTmp, WriteMain, KeyTypeOK, Writing
    <2>2. data' \in [Inodes -> Contents] /\ spoiled' \in BOOLEAN
      BY <1>4, <2>1, WriteFacts, ContentFacts DEF WriteTmp, WriteMain
    <2>3. QED
      BY <1>4, <2>1, <2>2 DEF WriteTmp, WriteMain, Local, KeyTypeOK, Writing
  <1>5. ASSUME NEW p \in Procs, NEW content \in Contents, WriteCopy(p, content)
        PROVE KeyTypeOK'
    <2>1. data' \in [Inodes -> Contents] /\ spoiled' \in BOOLEAN
      BY <1>5, WriteFacts DEF WriteCopy, Writing
    <2>2. QED
      BY <1>5, <2>1 DEF WriteCopy, Local, KeyTypeOK, Writing
  <1>6. ASSUME NEW p \in Procs, RenameTmp(p) PROVE KeyTypeOK'
    BY <1>6 DEF RenameTmp, Local, KeyTypeOK, Writing
  <1>7. ASSUME NEW p \in Procs, NEW force \in BOOLEAN,
               BeginInit(p, force) \/ BeginRestore(p, force)
        PROVE KeyTypeOK'
    BY <1>7 DEF BeginInit, BeginRestore, Local, KeyTypeOK, Writing
  <1>8. ASSUME NEW p \in Procs, Stops(p) PROVE KeyTypeOK'
    <2>1. data' \in [Inodes -> Contents] /\ spoiled' \in BOOLEAN
      <3>1. CASE Writing(p)
        <4>1. data' = [data EXCEPT ![fd[p]] = Torn] /\ spoiled' = TRUE
          BY <1>8, <3>1, Zenon DEF Stops
        <4>2. QED
          BY <4>1, ContentFacts DEF KeyTypeOK
      <3>2. CASE ~Writing(p)
        <4>1. UNCHANGED <<data, spoiled>>
          BY <1>8, <3>2, Zenon DEF Stops
        <4>2. QED
          BY <4>1 DEF KeyTypeOK
      <3>3. QED
        BY <3>1, <3>2
    <2>2. QED
      BY <1>8, <2>1 DEF Stops, Local, KeyTypeOK, Writing
  <1>9. ASSUME NEW p \in Procs, Refused(p) \/ Forgets(p) PROVE KeyTypeOK'
    BY <1>9 DEF Refused, Forgets, Local, KeyTypeOK, Writing
  <1>10. QED
    BY <1>1, <1>2, <1>3, <1>4, <1>5, <1>6, <1>7, <1>8, <1>9 DEF KeyNext, KeyStep

(* The key's state stays within the values the code gives it, for any       *)
(* number of processes.                                                     *)
THEOREM KeyTypeCorrect == KeySpec => []KeyTypeOK
  BY KeyInits, KeyTypeStep, PTL DEF KeySpec

-----------------------------------------------------------------------------
LEMMA TornStep == KeyTypeOK /\ TornInv /\ [KeyNext]_keyVars => TornInv'
  <1> SUFFICES ASSUME KeyTypeOK, TornInv, [KeyNext]_keyVars, ~spoiled',
                      NEW name \in {"main", "tmp"},
                      dir'[name] # None, data'[dir'[name]] = Torn
               PROVE  \E q \in Procs : fd'[q] = dir'[name]
    BY DEF TornInv
  <1> USE MainKeyAssumption
  <1>1. CASE UNCHANGED keyVars
    BY <1>1 DEF TornInv
  <1>2. ASSUME NEW p \in Procs, fd[p] = None, UNCHANGED <<dir, data, spoiled>>,
               NEW step, NEW k, NEW file, Local(p, step, k, file)
        PROVE \E q \in Procs : fd'[q] = dir'[name]
    BY <1>2, LocalFacts DEF TornInv
  <1>3. ASSUME NEW p \in Procs,
               \/ LoadCurrent(p) \/ LoadOld(p) \/ Refused(p) \/ Forgets(p)
               \/ \E force \in BOOLEAN : BeginInit(p, force) \/ BeginRestore(p, force)
        PROVE \E q \in Procs : fd'[q] = dir'[name]
    BY <1>2, <1>3 DEF LoadCurrent, LoadOld, Refused, Forgets, BeginInit, BeginRestore, KeyTypeOK, Writing
  <1>4. ASSUME NEW p \in Procs, NEW i \in Inodes, NEW opened \in {"main", "tmp"},
               NEW step, NEW k, fd[p] = None, OpenToWrite(opened, i),
               Local(p, step, k, i), UNCHANGED spoiled
        PROVE \E q \in Procs : fd'[q] = dir'[name]
    <2>1. CASE dir'[name] = i
      BY <1>4, <2>1, LocalFacts
    <2>2. CASE dir'[name] # i
      <3>1. dir'[name] = dir[name] /\ data'[dir[name]] = data[dir[name]]
        BY <1>4, <2>2, OpenFacts DEF KeyTypeOK
      <3>2. QED
        BY <1>4, <3>1, LocalFacts DEF TornInv
    <2>3. QED
      BY <2>1, <2>2
  <1>5. ASSUME NEW p \in Procs, NEW i \in Inodes,
               OpenTmp(p, i) \/ OpenMain(p, i) \/ OpenCopy(p, i)
        PROVE \E q \in Procs : fd'[q] = dir'[name]
    <2>1. fd[p] = None
      BY <1>5 DEF OpenTmp, OpenMain, OpenCopy, KeyTypeOK, Writing
    <2>2. QED
      BY <1>4, <1>5, <2>1 DEF OpenTmp, OpenMain, OpenCopy
  <1>6. ASSUME NEW p \in Procs, Writing(p), NEW content \in Contents, Write(p, content),
               NEW step, NEW k, Local(p, step, k, None), UNCHANGED dir
        PROVE \E q \in Procs : fd'[q] = dir'[name]
    <2>1. dir[name] # fd[p] /\ data[dir[name]] = Torn /\ ~spoiled
      BY <1>6, WriteFacts DEF KeyTypeOK
    <2>2. QED
      BY <1>6, <2>1, LocalFacts DEF TornInv
  <1>7. ASSUME NEW p \in Procs,
               \/ WriteTmp(p) \/ WriteMain(p)
               \/ \E content \in Contents : WriteCopy(p, content)
        PROVE \E q \in Procs : fd'[q] = dir'[name]
    <2>1. Writing(p) /\ (WriteTmp(p) \/ WriteMain(p) => Sealed("new", mem[p]) \in Contents)
      BY <1>7, ContentFacts DEF WriteTmp, WriteMain, WriteCopy, KeyTypeOK, Writing
    <2>2. QED
      BY <1>6, <1>7, <2>1 DEF WriteTmp, WriteMain, WriteCopy
  <1>8. ASSUME NEW p \in Procs, RenameTmp(p)
        PROVE \E q \in Procs : fd'[q] = dir'[name]
    <2>1. fd[p] = None /\ \A q \in Procs : q # p => fd'[q] = fd[q]
      BY <1>8 DEF RenameTmp, Local, KeyTypeOK, Writing
    <2>2. \E old \in {"main", "tmp"} : dir'[name] = dir[old]
      BY <1>8 DEF RenameTmp
    <2>3. QED
      BY <1>8, <2>1, <2>2 DEF RenameTmp, TornInv
  <1>9. ASSUME NEW p \in Procs, Stops(p)
        PROVE \E q \in Procs : fd'[q] = dir'[name]
    <2>1. ~Writing(p) /\ UNCHANGED <<dir, data, spoiled>> /\ fd[p] = None
      BY <1>9 DEF Stops, KeyTypeOK
    <2>2. QED
      BY <1>2, <1>9, <2>1 DEF Stops
  <1>10. QED
    BY <1>1, <1>3, <1>5, <1>7, <1>8, <1>9 DEF KeyNext, KeyStep

(* When nobody is at work, and no write was broken off, the key loads.      *)
THEOREM RestedKeysLoad == KeySpec => []RestIsLoadable
  <1>1. KeyTypeOK /\ TornInv => RestIsLoadable
    BY MainKeyAssumption DEF KeyTypeOK, TornInv, RestIsLoadable, Idle, Initialized, Loadable,
       MainFile, Writing
  <1>2. QED
    BY <1>1, KeyInits, KeyTypeStep, TornStep, PTL DEF KeySpec

-----------------------------------------------------------------------------
(* One process at a time is between opening the temporary file and renaming *)
(* it, so what it renames is what it wrote.                                 *)
LEMMA MigrationStep ==
  KeyTypeOK /\ TmpInv /\ MigrationIsAtomic /\ [KeyNext]_keyVars
    => TmpInv' /\ MigrationIsAtomic'
  <1> DEFINE Goal == TmpInv' /\ MigrationIsAtomic'
  <1> SUFFICES ASSUME KeyTypeOK, TmpInv, MigrationIsAtomic, [KeyNext]_keyVars,
                      ~created', ~overlapped'
               PROVE  Goal
    BY DEF TmpInv, MigrationIsAtomic
  <1> USE MainKeyAssumption
  <1>0. ~created /\ ~overlapped
    <2>1. ASSUME NEW p \in Procs,
                 \/ LoadCurrent(p) \/ LoadOld(p) \/ WriteTmp(p) \/ RenameTmp(p)
                 \/ \E i \in Inodes : OpenMain(p, i) \/ OpenCopy(p, i)
                 \/ WriteMain(p) \/ Stops(p) \/ Refused(p) \/ Forgets(p)
                 \/ \E content \in Contents : WriteCopy(p, content)
          PROVE ~created /\ ~overlapped
      <3>1. UNCHANGED <<created, overlapped>>
        BY <2>1, Zenon DEF LoadCurrent, LoadOld, WriteTmp, RenameTmp, OpenMain, OpenCopy,
           WriteMain, Stops, Refused, Forgets, WriteCopy
      <3>2. QED
        BY <3>1
    <2>2. ASSUME NEW p \in Procs, NEW force \in BOOLEAN,
                 BeginInit(p, force) \/ BeginRestore(p, force)
          PROVE FALSE
      BY <2>2, Zenon DEF BeginInit, BeginRestore
    <2>3. ASSUME NEW p \in Procs, NEW i \in Inodes, OpenTmp(p, i)
          PROVE ~created /\ ~overlapped
      BY <2>3, Zenon DEF OpenTmp
    <2>4. CASE UNCHANGED keyVars
      BY <2>4
    <2>5. CASE KeyNext
      BY <2>1, <2>2, <2>3, <2>5, Zenon DEF KeyNext, KeyStep
    <2>6. QED
      BY <2>4, <2>5
  <1>1. CASE UNCHANGED keyVars
    BY <1>1, <1>0 DEF TmpInv, MigrationIsAtomic, Migrating, Initialized, Loadable, MainFile
  <1>2. ASSUME NEW p \in Procs, LoadCurrent(p) \/ LoadOld(p) PROVE Goal
    <2>1. /\ pc[p] = "idle" /\ Loadable /\ UNCHANGED <<dir, data>>
          /\ pc'[p] \in {"idle", "migrate"} /\ mem'[p] = MainFile.key
          /\ \A q \in Procs : q # p => pc'[q] = pc[q] /\ mem'[q] = mem[q] /\ fd'[q] = fd[q]
      BY <1>2 DEF LoadCurrent, LoadOld, Local, KeyTypeOK
    <2>2. TmpInv'
      BY <1>0, <2>1 DEF TmpInv, Migrating
    <2>3. MigrationIsAtomic'
      BY <1>0, <2>1 DEF MigrationIsAtomic, Initialized, Loadable, MainFile
    <2>4. QED
      BY <2>2, <2>3
  <1>3. ASSUME NEW p \in Procs, NEW i \in Inodes, OpenTmp(p, i) PROVE Goal
    <2>1. /\ pc[p] = "migrate" /\ ~\E q \in Procs : Migrating(q)
          /\ pc'[p] = "write" /\ mem'[p] = mem[p] /\ fd'[p] = i
          /\ \A q \in Procs : q # p => pc'[q] = pc[q] /\ mem'[q] = mem[q] /\ fd'[q] = fd[q]
      BY <1>3, <1>0 DEF OpenTmp, Local, KeyTypeOK
    <2>2. /\ dir'.main = dir.main /\ dir'.tmp = i
          /\ \A j \in Inodes : j # i => data'[j] = data[j]
          /\ dir.tmp = None => Unused(i)
          /\ dir.tmp # None => i = dir.tmp
      BY <1>3, OpenFacts DEF OpenTmp
    <2>3. i # dir.main
      BY <1>0, <2>2 DEF TmpInv, Unused
    <2>4. dir.main # None => data'[dir.main] = data[dir.main]
      BY <2>2, <2>3 DEF KeyTypeOK
    <2>5. TmpInv'
      BY <1>0, <2>1, <2>2, <2>3 DEF TmpInv, Migrating
    <2>6. MigrationIsAtomic'
      BY <1>0, <2>1, <2>2, <2>4 DEF MigrationIsAtomic, Initialized, Loadable, MainFile
    <2>7. QED
      BY <2>5, <2>6
  <1>4. ASSUME NEW p \in Procs, WriteTmp(p) PROVE Goal
    <2>1. /\ pc[p] = "write" /\ Writing(p) /\ mem[p] \in Keys /\ UNCHANGED dir
          /\ pc'[p] = "rename" /\ mem'[p] = mem[p]
          /\ \A q \in Procs : q # p => pc'[q] = pc[q] /\ mem'[q] = mem[q] /\ fd'[q] = fd[q]
      BY <1>4 DEF WriteTmp, Local, KeyTypeOK, Writing
    <2>2. /\ fd[p] \in Inodes /\ data'[fd[p]] = Sealed("new", mem[p])
          /\ \A j \in Inodes : j # fd[p] => data'[j] = data[j]
      BY <1>4, <2>1, WriteFacts, ContentFacts DEF WriteTmp, Sealed
    <2>3. fd[p] = dir.tmp /\ dir.tmp # None /\ dir.tmp # dir.main
      BY <1>0, <2>1, <2>2 DEF TmpInv
    <2>4. dir.main # None => data'[dir.main] = data[dir.main]
      BY <2>2, <2>3 DEF KeyTypeOK
    <2>5. TmpInv'
      BY <1>0, <2>1, <2>2, <2>3 DEF TmpInv, Migrating
    <2>6. MigrationIsAtomic'
      BY <1>0, <2>1, <2>4 DEF MigrationIsAtomic, Initialized, Loadable, MainFile
    <2>7. QED
      BY <2>5, <2>6
  <1>5. ASSUME NEW p \in Procs, RenameTmp(p) PROVE Goal
    <2>1. pc[p] = "rename" /\ mem[p] \in Keys
      BY <1>5 DEF RenameTmp, KeyTypeOK
    <2>2. dir.tmp \in Inodes /\ data[dir.tmp] = Sealed("new", mem[p])
      BY <1>0, <2>1 DEF TmpInv, KeyTypeOK
    <2>3. dir' = [main |-> dir.tmp, tmp |-> None] /\ Local(p, "idle", mem[p], None)
      BY <1>5, <2>2, Zenon DEF RenameTmp
    <2>4. /\ dir'.main = dir.tmp /\ dir'.tmp = None /\ UNCHANGED data
          /\ pc'[p] = "idle" /\ mem'[p] = mem[p]
          /\ \A q \in Procs : q # p => pc'[q] = pc[q] /\ mem'[q] = mem[q] /\ fd'[q] = fd[q]
      BY <1>5, <2>3, LocalFacts DEF RenameTmp
    <2>5. \A q \in Procs : q # p => ~Migrating(q)
      BY <1>0, <2>1 DEF TmpInv, Migrating
    <2>6. TmpInv'
      BY <1>0, <2>1, <2>4, <2>5 DEF TmpInv, Migrating
    <2>7. MainFile' = Sealed("new", mem[p]) /\ Loadable'
      BY <2>1, <2>2, <2>4, ContentFacts DEF MainFile, Loadable, Initialized
    <2>8. \A q \in Procs : mem[q] # None => mem[q] = mem[p]
      BY <1>0, <2>1 DEF MigrationIsAtomic
    <2>9. MigrationIsAtomic'
      BY <1>0, <2>4, <2>7, <2>8 DEF MigrationIsAtomic, Sealed
    <2>10. QED
      BY <2>6, <2>9
  <1>6. ASSUME NEW p \in Procs, Stops(p) PROVE Goal
    <2>1. /\ UNCHANGED dir
          /\ pc'[p] = "idle" /\ mem'[p] = None
          /\ \A q \in Procs : q # p => pc'[q] = pc[q] /\ mem'[q] = mem[q] /\ fd'[q] = fd[q]
      BY <1>6, LocalFacts DEF Stops
    <2>2. CASE Writing(p)
      <3>1. data' = [data EXCEPT ![fd[p]] = Torn]
        BY <1>6, <2>2, Zenon DEF Stops
      <3>2. pc[p] = "write" /\ fd[p] = dir.tmp /\ dir.tmp \in Inodes /\ dir.tmp # dir.main
        BY <1>0, <2>2 DEF TmpInv, Writing, KeyTypeOK
      <3>3. \A q \in Procs : q # p => ~Migrating(q)
        BY <1>0, <3>2 DEF TmpInv, Migrating
      <3>4. dir.main # None => data'[dir.main] = data[dir.main]
        BY <3>1, <3>2 DEF KeyTypeOK
      <3>5. TmpInv'
        BY <1>0, <2>1, <3>3 DEF TmpInv, Migrating
      <3>6. MigrationIsAtomic'
        BY <1>0, <2>1, <3>4 DEF MigrationIsAtomic, Initialized, Loadable, MainFile
      <3>7. QED
        BY <3>5, <3>6
    <2>3. CASE ~Writing(p)
      <3>1. UNCHANGED data
        BY <1>6, <2>3, Zenon DEF Stops
      <3>2. TmpInv'
        BY <1>0, <2>1, <3>1 DEF TmpInv, Migrating
      <3>3. MigrationIsAtomic'
        BY <1>0, <2>1, <3>1 DEF MigrationIsAtomic, Initialized, Loadable, MainFile
      <3>4. QED
        BY <3>2, <3>3
    <2>4. QED
      BY <2>2, <2>3
  <1>7. ASSUME NEW p \in Procs,
               \/ \E force \in BOOLEAN : BeginInit(p, force) \/ BeginRestore(p, force)
               \/ \E i \in Inodes : OpenMain(p, i) \/ OpenCopy(p, i)
               \/ WriteMain(p) \/ \E content \in Contents : WriteCopy(p, content)
               \/ Refused(p)
        PROVE FALSE
    BY <1>0, <1>7 DEF TmpInv, BeginInit, BeginRestore, OpenMain, OpenCopy, WriteMain,
       WriteCopy, Refused
  <1>8. ASSUME NEW p \in Procs, Forgets(p) PROVE Goal
    <2>1. /\ UNCHANGED <<dir, data>> /\ pc[p] = "idle" /\ pc'[p] = "idle" /\ mem'[p] = None
          /\ \A q \in Procs : q # p => pc'[q] = pc[q] /\ mem'[q] = mem[q] /\ fd'[q] = fd[q]
      BY <1>8, LocalFacts DEF Forgets
    <2>2. TmpInv'
      BY <1>0, <2>1 DEF TmpInv, Migrating
    <2>3. MigrationIsAtomic'
      BY <1>0, <2>1 DEF MigrationIsAtomic, Initialized, Loadable, MainFile
    <2>4. QED
      BY <2>2, <2>3
  <1>9. QED
    BY <1>1, <1>2, <1>3, <1>4, <1>5, <1>6, <1>7, <1>8 DEF KeyNext, KeyStep

(* A migration on its own leaves, wherever it stops, a main key that loads, *)
(* and the one that every unlocked process holds.                           *)
THEOREM MigrationsAreAtomic == KeySpec => []MigrationIsAtomic
  BY KeyInits, KeyTypeStep, MigrationStep, PTL DEF KeySpec

-----------------------------------------------------------------------------
(* Whatever a command does to the key file is a step of module MainKey.    *)

LEMMA ValueFacts ==
  /\ None \in Values /\ Torn \in Values
  /\ Keys \subseteq Values /\ Confs \subseteq Values
  /\ NoText \in BackupTexts /\ NoJob \in Jobs
  /\ Entries \subseteq Names /\ "conf" \in Names
  <1>1. /\ None \in Values /\ Torn \in Values /\ Keys \subseteq Values /\ Confs \subseteq Values
        /\ Entries \subseteq Names /\ "conf" \in Names
    BY DEF Values, Names
  <1>2. NoText \in BackupTexts
    BY <1>1, ContentFacts DEF NoText, BackupTexts
  <1>3. NoJob \in Jobs
    BY <1>2 DEF NoJob, Jobs
  <1>4. QED
    BY <1>1, <1>2, <1>3

LEMMA StepIsKeyStep == TypeOK /\ [Next]_storeVars => [KeyNext]_keyVars
  <1> SUFFICES ASSUME TypeOK, [Next]_storeVars PROVE KeyNext \/ UNCHANGED keyVars
    OBVIOUS
  <1>1. CASE UNCHANGED storeVars
    BY <1>1 DEF storeVars
  <1>2. ASSUME NEW p \in Procs, BeginUnforced(p) \/ BeginForced(p)
        PROVE KeyNext
    BY <1>2 DEF BeginUnforced, BeginForced, KeyNext
  <1>3. ASSUME NEW p \in Procs, Compare(p) PROVE KeyNext \/ UNCHANGED keyVars
    BY <1>3, Zenon DEF Compare, KeyNext
  <1>4. ASSUME NEW p \in Procs, OpenKey(p) PROVE KeyNext
    BY <1>4 DEF OpenKey, KeyNext
  <1>5. ASSUME NEW p \in Procs, WriteKey(p) PROVE KeyNext
    <2>1. job[p].text.main \in Contents
      BY DEF TypeOK, Jobs, BackupTexts
    <2>2. QED
      BY <1>5, <2>1 DEF WriteKey, KeyNext
  <1>6. ASSUME NEW p \in Procs, Restored(p) PROVE KeyNext
    BY <1>6 DEF Restored, KeyNext
  <1>7. ASSUME NEW p \in Procs, JobEnds(p) PROVE KeyNext \/ UNCHANGED keyVars
    BY <1>7, Zenon DEF JobEnds, KeyNext, KeyStep
  <1>8. ASSUME NEW p \in Procs, OnlyKey(p) PROVE KeyNext
    BY <1>8 DEF OnlyKey, KeyNext
  <1>9. ASSUME NEW p \in Procs,
               \/ BeginBackup(p) \/ ReadKey(p) \/ List(p) \/ Saved(p) \/ Look(p) \/ FillFile(p)
               \/ \E n \in Names : BeginStore(p, n) \/ OpenFile(p, n)
               \/ \E e \in Entries : ReadEntry(p, e) \/ Remove(p, e)
        PROVE UNCHANGED keyVars
    BY <1>9, Zenon DEF BeginBackup, ReadKey, List, Saved, Look, FillFile, BeginStore, OpenFile,
       ReadEntry, Remove
  <1>10. QED
    BY <1>1, <1>2, <1>3, <1>4, <1>5, <1>6, <1>7, <1>8, <1>9 DEF Next, Step

-----------------------------------------------------------------------------
LEMMA Inits == Init => TypeOK
  <1> SUFFICES ASSUME Init PROVE TypeOK
    OBVIOUS
  <1>1. KeyTypeOK
    BY KeyInits DEF Init
  <1>2. saved \in BackupTexts
    BY BackupAssumption DEF Init
  <1>3. QED
    BY <1>1, <1>2, ValueFacts DEF Init, TypeOK

(* What a command does to one field of its job. *)
LEMMA JobUpdates ==
  ASSUME NEW J \in Jobs,
         NEW at \in {"key", "listPasswords", "passwords", "totps", "lookPasswords",
                     "lookTotps", "compare", "files", "end"},
         NEW text \in BackupTexts, NEW todo \in SUBSET Names,
         NEW open \in Names \cup {None, "removed"}
  PROVE  /\ [J EXCEPT !.at = at] \in Jobs
         /\ [J EXCEPT !.text = text] \in Jobs
         /\ [J EXCEPT !.todo = todo] \in Jobs
         /\ [J EXCEPT !.open = open] \in Jobs
  BY DEF Jobs

LEMMA JobFacts ==
  ASSUME TypeOK, NEW p \in Procs
  PROVE  /\ job[p] \in Jobs
         /\ job[p].at \in {"key", "listPasswords", "passwords", "totps", "lookPasswords",
                           "lookTotps", "compare", "files", "end"}
         /\ job[p].text \in BackupTexts /\ job[p].todo \in SUBSET Names
         /\ job[p].open \in Names \cup {None, "removed"}
  <1>1. job[p] \in Jobs
    BY DEF TypeOK
  <1>2. QED
    BY <1>1 DEF Jobs

LEMMA NewJobs ==
  ASSUME NEW text \in BackupTexts
  PROVE  /\ [does |-> "backup", at |-> "key", force |-> FALSE,
             text |-> text, todo |-> {}, open |-> None] \in Jobs
         /\ [does |-> "restore", at |-> "lookPasswords", force |-> FALSE,
             text |-> text, todo |-> {}, open |-> None] \in Jobs
         /\ [does |-> "restore", at |-> "key", force |-> TRUE,
             text |-> text, todo |-> {}, open |-> None] \in Jobs
         /\ \A n \in Names :
              [does |-> "store", at |-> "files", force |-> FALSE,
               text |-> text, todo |-> {n}, open |-> None] \in Jobs
  BY DEF Jobs

LEMMA TypeStep == TypeOK /\ [Next]_storeVars => TypeOK'
  <1> SUFFICES ASSUME TypeOK, [Next]_storeVars PROVE TypeOK'
    OBVIOUS
  <1>1. KeyTypeOK'
    BY StepIsKeyStep, KeyTypeStep DEF TypeOK
  <1> DEFINE Rest == /\ disk' \in [Names -> Values] /\ saved' \in BackupTexts
                     /\ job' \in [Procs -> Jobs] /\ disturbed' \subseteq Procs
  <1>2. CASE UNCHANGED storeVars
    BY <1>2, <1>1 DEF storeVars, bookkeeping, TypeOK
  <1>3. \A c \in Values, n \in Names : [NoText EXCEPT !.files[n] = c] \in BackupTexts
    BY ValueFacts DEF BackupTexts, NoText
  <1>4. ASSUME NEW p \in Procs, BeginBackup(p) PROVE Rest
    <2>1. PICK c \in RecordedConfs(p) :
             Begin(p, "backup", "key", FALSE, [NoText EXCEPT !.files["conf"] = c], {})
      BY <1>4, Zenon DEF BeginBackup
    <2>2. c \in Values
      BY <2>1, ValueFacts DEF RecordedConfs, LoadedConfs, TypeOK
    <2>3. [NoText EXCEPT !.files["conf"] = c] \in BackupTexts
      BY <2>2, <1>3, ValueFacts
    <2>4. job' \in [Procs -> Jobs] /\ disturbed' \subseteq Procs
      BY <2>1, <2>3, NewJobs DEF Begin, TypeOK
    <2>5. QED
      BY <1>4, <2>4 DEF BeginBackup, TypeOK
  <1>5. ASSUME NEW p \in Procs, BeginUnforced(p) \/ BeginForced(p) PROVE Rest
    <2>1. saved \in BackupTexts
      BY DEF TypeOK
    <2>2. job' \in [Procs -> Jobs] /\ disturbed' \subseteq Procs
      BY <1>5, <2>1, NewJobs DEF BeginUnforced, BeginForced, Begin, TypeOK
    <2>3. QED
      BY <1>5, <2>2 DEF BeginUnforced, BeginForced, TypeOK
  <1>6. ASSUME NEW p \in Procs, NEW n \in Names, BeginStore(p, n) PROVE Rest
    <2>1. PICK c \in Confs :
             Begin(p, "store", "files", FALSE,
                   [NoText EXCEPT !.files[n] = IF n \in Entries THEN mem[p] ELSE c], {n})
      BY <1>6, Zenon DEF BeginStore
    <2>2. (IF n \in Entries THEN mem[p] ELSE c) \in Values
      BY ValueFacts DEF TypeOK, KeyTypeOK
    <2>3. job' \in [Procs -> Jobs] /\ disturbed' \subseteq Procs
      <3> DEFINE v == IF n \in Entries THEN mem[p] ELSE c
      <3>1. [NoText EXCEPT !.files[n] = v] \in BackupTexts
        BY <2>2, <1>3
      <3> HIDE DEF v
      <3>2. QED
        BY <2>1, <3>1, NewJobs DEF Begin, TypeOK, v
    <2>4. QED
      BY <1>6, <2>3 DEF BeginStore, TypeOK
  <1>7. ASSUME NEW p \in Procs, ReadKey(p) PROVE Rest
    <2>1. CASE Initialized
      <3>1. job' = [job EXCEPT ![p].at = "listPasswords", ![p].text.main = MainFile]
        BY <1>7, <2>1, Zenon DEF ReadKey
      <3>2. MainFile \in Contents
        BY <2>1 DEF Initialized, MainFile, TypeOK, KeyTypeOK
      <3>3. job' \in [Procs -> Jobs]
        <4>1. [job[p].text EXCEPT !.main = MainFile] \in BackupTexts
          BY <3>2, JobFacts DEF BackupTexts
        <4>2. [[job[p] EXCEPT !.at = "listPasswords"]
                 EXCEPT !.text = [job[p].text EXCEPT !.main = MainFile]] \in Jobs
          BY <4>1, JobFacts, JobUpdates
        <4>3. job' = [job EXCEPT ![p] =
                        [[job[p] EXCEPT !.at = "listPasswords"]
                           EXCEPT !.text = [job[p].text EXCEPT !.main = MainFile]]]
          BY <3>1 DEF TypeOK
        <4>4. QED
          BY <4>2, <4>3 DEF TypeOK
      <3>4. QED
        BY <1>7, <3>3 DEF ReadKey, bookkeeping, TypeOK
    <2>2. CASE ~Initialized
      <3>1. Drop(p)
        BY <1>7, <2>2, Zenon DEF ReadKey
      <3>2. QED
        BY <1>7, <3>1, ValueFacts DEF ReadKey, Drop, bookkeeping, TypeOK
    <2>3. QED
      BY <2>1, <2>2
  <1>8. ASSUME NEW p \in Procs, List(p) \/ Look(p) PROVE Rest
    <2>1. job' \in [Procs -> Jobs]
      BY <1>8 DEF List, Look, Present, TypeOK, Jobs, Names, Entries
    <2>2. QED
      BY <1>8, <2>1 DEF List, Look, bookkeeping, TypeOK
  <1>9. ASSUME NEW p \in Procs, NEW e \in Entries, ReadEntry(p, e) PROVE Rest
    <2>1. CASE disk[e] = None
      <3>1. Drop(p)
        BY <1>9, <2>1, Zenon DEF ReadEntry
      <3>2. QED
        BY <1>9, <3>1, ValueFacts DEF ReadEntry, Drop, bookkeeping, TypeOK
    <2>2. CASE disk[e] # None
      <3>1. job' = [job EXCEPT ![p].todo = @ \ {e}, ![p].text.files[e] = disk[e]]
        BY <1>9, <2>2, Zenon DEF ReadEntry
      <3>2. job' \in [Procs -> Jobs]
        <4>1. [job[p].text EXCEPT !.files[e] = disk[e]] \in BackupTexts
          BY JobFacts, ValueFacts DEF TypeOK, BackupTexts
        <4>2. [[job[p] EXCEPT !.todo = job[p].todo \ {e}]
                 EXCEPT !.text = [job[p].text EXCEPT !.files[e] = disk[e]]] \in Jobs
          BY <4>1, JobFacts, JobUpdates
        <4>3. job' = [job EXCEPT ![p] =
                        [[job[p] EXCEPT !.todo = job[p].todo \ {e}]
                           EXCEPT !.text = [job[p].text EXCEPT !.files[e] = disk[e]]]]
          BY <3>1 DEF TypeOK
        <4>4. QED
          BY <4>2, <4>3 DEF TypeOK
      <3>3. QED
        BY <1>9, <3>2 DEF ReadEntry, bookkeeping, TypeOK
    <2>3. QED
      BY <2>1, <2>2
  <1>10. ASSUME NEW p \in Procs, Saved(p) PROVE Rest
    BY <1>10 DEF Saved, bookkeeping, TypeOK, Jobs
  <1>11. ASSUME NEW p \in Procs, Compare(p) PROVE Rest
    <2>1. job' = [job EXCEPT ![p].at = "key"] \/ Drop(p)
      BY <1>11, Zenon DEF Compare
    <2>2. job' \in [Procs -> Jobs]
      BY <2>1, ValueFacts DEF Drop, TypeOK, Jobs
    <2>3. QED
      BY <1>11, <2>2 DEF Compare, bookkeeping, TypeOK
  <1>12. ASSUME NEW p \in Procs, OpenKey(p) PROVE Rest
    BY <1>12 DEF OpenKey, Disturbs, TypeOK
  <1>13. ASSUME NEW p \in Procs, WriteKey(p) PROVE Rest
    <2>1. job' \in [Procs -> Jobs]
      <3>1. [[job[p] EXCEPT !.at = "files"] EXCEPT !.todo = NamesIn(job[p].text)] \in Jobs
        BY JobFacts, JobUpdates DEF NamesIn
      <3>2. job' = [job EXCEPT ![p] =
                      [[job[p] EXCEPT !.at = "files"] EXCEPT !.todo = NamesIn(job[p].text)]]
        BY <1>13 DEF WriteKey, TypeOK
      <3>3. QED
        BY <3>1, <3>2 DEF TypeOK
    <2>2. QED
      BY <1>13, <2>1 DEF WriteKey, Disturbs, TypeOK
  <1>14. ASSUME NEW p \in Procs, Restored(p) PROVE Rest
    BY <1>14 DEF Restored, bookkeeping, TypeOK, Jobs
  <1>15. ASSUME NEW p \in Procs, NEW n \in Names, OpenFile(p, n) PROVE Rest
    <2>1. job' \in [Procs -> Jobs]
      <3>1. [[job[p] EXCEPT !.todo = job[p].todo \ {n}] EXCEPT !.open = n] \in Jobs
        BY JobFacts, JobUpdates
      <3>2. job' = [job EXCEPT ![p] =
                      [[job[p] EXCEPT !.todo = job[p].todo \ {n}] EXCEPT !.open = n]]
        BY <1>15 DEF OpenFile, TypeOK
      <3>3. QED
        BY <3>1, <3>2 DEF TypeOK
    <2>2. QED
      BY <1>15, <2>1, ValueFacts DEF OpenFile, Disturbs, TypeOK
  <1>16. ASSUME NEW p \in Procs, FillFile(p) PROVE Rest
    <2> DEFINE n == job[p].open
    <2>1. n \in Names \cup {"removed"}
      BY <1>16 DEF FillFile, TypeOK, Jobs
    <2>2. job' \in [Procs -> Jobs]
      <3> DEFINE at == IF job[p].does = "store" THEN "end" ELSE job[p].at
      <3>1. [[job[p] EXCEPT !.open = None] EXCEPT !.at = at] \in Jobs
        BY JobFacts, JobUpdates
      <3>2. job' = [job EXCEPT ![p] = [[job[p] EXCEPT !.open = None] EXCEPT !.at = at]]
        BY <1>16 DEF FillFile, TypeOK
      <3>3. QED
        BY <3>1, <3>2 DEF TypeOK
    <2>3. CASE n = "removed"
      <3>1. UNCHANGED disk
        BY <1>16, <2>3, Zenon DEF FillFile
      <3>2. QED
        BY <1>16, <2>2, <3>1 DEF FillFile, Disturbs, TypeOK
    <2>4. CASE n # "removed"
      <3>1. PICK v \in {job[p].text.files[n]} \cup (IF disk[n] = Torn THEN {} ELSE {Torn}) :
               disk' = [disk EXCEPT ![n] = v]
        BY <1>16, <2>4, Zenon DEF FillFile
      <3>2. v \in Values
        BY <3>1, <2>1, <2>4, ValueFacts DEF TypeOK, Jobs, BackupTexts
      <3>3. QED
        BY <1>16, <2>2, <3>1, <3>2 DEF FillFile, Disturbs, TypeOK
    <2>5. QED
      BY <2>3, <2>4
  <1>17. ASSUME NEW p \in Procs, NEW e \in Entries, Remove(p, e) PROVE Rest
    <2>1. job' \in [Procs -> Jobs]
      BY <1>17 DEF Remove, TypeOK, Jobs
    <2>2. QED
      BY <1>17, <2>1, ValueFacts DEF Remove, TypeOK
  <1>18. ASSUME NEW p \in Procs, JobEnds(p) PROVE Rest
    <2>1. disk' \in [Names -> Values]
      <3>1. (\E n \in Names : disk' = [disk EXCEPT ![n] = Torn]) \/ UNCHANGED disk
        BY <1>18, Zenon DEF JobEnds
      <3>2. QED
        BY <3>1, ValueFacts DEF TypeOK
    <2>2. disturbed' \subseteq Procs
      <3>1. Disturbs(p) \/ UNCHANGED bookkeeping
        BY <1>18, Zenon DEF JobEnds
      <3>2. QED
        BY <3>1 DEF Disturbs, bookkeeping, TypeOK
    <2>3. QED
      BY <1>18, <2>1, <2>2, ValueFacts DEF JobEnds, Drop, TypeOK
  <1>19. ASSUME NEW p \in Procs, OnlyKey(p) PROVE Rest
    BY <1>19 DEF OnlyKey, TypeOK
  <1>20. QED
    <2>1. Rest => TypeOK'
      BY <1>1 DEF TypeOK
    <2>2. QED
      BY <2>1, <1>2, <1>4, <1>5, <1>6, <1>7, <1>8, <1>9, <1>10, <1>11, <1>12, <1>13, <1>14,
         <1>15, <1>16, <1>17, <1>18, <1>19 DEF Next, Step

(* Every reachable state of backups, restores and the commands beside them  *)
(* is well typed.                                                           *)
THEOREM TypeCorrect == Spec => []TypeOK
  BY Inits, TypeStep, PTL DEF Spec

(* Nothing a backup, a restore or a store does to the key file goes beyond  *)
(* the steps of module MainKey (backup.rs 68-226, keystore.rs 52-170).      *)
THEOREM ImplementsMainKey == Spec => KeySpec
  <1>1. Init => KeyInit
    BY DEF Init
  <1>2. QED
    BY <1>1, Inits, TypeStep, StepIsKeyStep, PTL DEF Spec, KeySpec

(* Whatever backups, restores, stores and initialisations do beside it, a   *)
(* migration that has its temporary file to itself is atomic.               *)
THEOREM MigrationsStayAtomic == Spec => []MigrationIsAtomic
  BY ImplementsMainKey, MigrationsAreAtomic

(* When all of them are through, and no write was broken off, the key loads. *)
THEOREM KeysStayLoadable == Spec => []RestIsLoadable
  BY ImplementsMainKey, RestedKeysLoad

-----------------------------------------------------------------------------
USE DEF keyVars, files, procs, history, bookkeeping

(* A process sees its files as they were, or is counted as disturbed.       *)
LEMMA OthersKeep ==
  ASSUME TypeOK, NEW q \in Procs, Step(q), NEW p \in Procs, p # q, p \notin disturbed'
  PROVE  /\ p \notin disturbed
         /\ UNCHANGED <<dir, data, disk>>
         /\ job'[p] = job[p] /\ pc'[p] = pc[p] /\ fd'[p] = fd[p] /\ mem'[p] = mem[p]
  <1> DEFINE Kept == /\ p \notin disturbed /\ UNCHANGED <<dir, data, disk>>
                     /\ job'[p] = job[p] /\ pc'[p] = pc[p] /\ fd'[p] = fd[p] /\ mem'[p] = mem[p]
  <1>1. ASSUME NEW does, NEW at, NEW force, NEW text, NEW todo,
               Begin(q, does, at, force, text, todo)
        PROVE p \notin disturbed /\ job'[p] = job[p]
    BY <1>1 DEF Begin, TypeOK
  <1>2. CASE Disturbs(q)
    BY <1>2 DEF Disturbs
  <1>3. CASE BeginBackup(q) \/ \E n \in Names : BeginStore(q, n)
    BY <1>1, <1>3 DEF BeginBackup, BeginStore
  <1>4. CASE BeginUnforced(q) \/ BeginForced(q)
    BY <1>1, <1>4 DEF BeginUnforced, BeginForced, BeginRestore, Local, TypeOK, KeyTypeOK
  <1>5. CASE \/ ReadKey(q) \/ List(q) \/ Saved(q) \/ Look(q)
             \/ \E e \in Entries : ReadEntry(q, e)
    <2>1. UNCHANGED keyVars /\ UNCHANGED disk /\ UNCHANGED bookkeeping
      BY <1>5, Zenon DEF ReadKey, List, Saved, Look, ReadEntry
    <2>2. job'[p] = job[p]
      BY <1>5 DEF ReadKey, List, Saved, Look, ReadEntry, Drop, TypeOK
    <2>3. QED
      BY <2>1, <2>2 DEF bookkeeping
  <1>6. CASE Compare(q)
    <2>1. job'[p] = job[p] /\ UNCHANGED disk /\ UNCHANGED bookkeeping
      BY <1>6 DEF Compare, Drop, TypeOK
    <2>2. UNCHANGED keyVars \/ Refused(q)
      BY <1>6, Zenon DEF Compare
    <2>3. QED
      BY <2>1, <2>2 DEF Refused, Local, bookkeeping, TypeOK, KeyTypeOK
  <1>7. CASE Restored(q)
    BY <1>7 DEF Restored, Forgets, Local, bookkeeping, TypeOK, KeyTypeOK
  <1>8. CASE \E e \in Entries : Remove(q, e)
    BY <1>8 DEF Remove
  <1>9. CASE JobEnds(q)
    <2>1. ~Writing(q) /\ job[q].open = None /\ UNCHANGED bookkeeping
      <3>1. ~Disturbs(q)
        BY DEF Disturbs
      <3>2. QED
        BY <1>9, <3>1, Zenon DEF JobEnds
    <2>2. job'[p] = job[p] /\ p \notin disturbed
      BY <1>9, <2>1 DEF JobEnds, Drop, bookkeeping, TypeOK
    <2>3. UNCHANGED disk
      <3>1. job[q].open \notin Names
        BY <2>1, BackupAssumption
      <3>2. QED
        BY <1>9, <3>1, Zenon DEF JobEnds
    <2>4. UNCHANGED keyVars \/ Stops(q)
      BY <1>9, Zenon DEF JobEnds
    <2>5. QED
      BY <2>1, <2>2, <2>3, <2>4 DEF Stops, Local, TypeOK, KeyTypeOK
  <1>10. CASE OnlyKey(q)
    <2>1. UNCHANGED files /\ UNCHANGED disturbed /\ UNCHANGED <<disk, job>>
      BY <1>10 DEF OnlyKey
    <2>2. \E step, k, file : Local(q, step, k, file)
      BY <1>10, Zenon DEF OnlyKey, KeyStep, LoadCurrent, LoadOld, WriteTmp, RenameTmp, OpenTmp,
         OpenMain, BeginInit, WriteMain, Stops
    <2>3. QED
      BY <2>1, <2>2 DEF Local, TypeOK, KeyTypeOK
  <1>11. QED
    <2>1. OpenKey(q) \/ WriteKey(q) \/ FillFile(q) \/ (\E n \in Names : OpenFile(q, n))
            => Disturbs(q)
      BY Zenon DEF OpenKey, WriteKey, FillFile, OpenFile
    <2>2. QED
      BY <2>1, <1>2, <1>3, <1>4, <1>5, <1>6, <1>7, <1>8, <1>9, <1>10 DEF Step

-----------------------------------------------------------------------------
(* No backup file is without settings, and no store once it has some.       *)
HasConf(J) ==
  J.does \in {"backup", "restore"} \/ "conf" \in J.todo \cup {J.open}
    => J.text.files["conf"] # None

ConfInv ==
  /\ saved.files["conf"] # None
  /\ disk["conf"] = None => disk["conf"] = Torn
  /\ \A p \in Procs : HasConf(job[p])

(* A restore without --force goes on only from a store without entries; one *)
(* that has written the key has that key in place, and of the files it has  *)
(* still to write, none that the backup does not hold.                      *)
RestoreInv(p) ==
  Undisturbed(p) /\ job[p].does = "restore" =>
    LET J == job[p] IN
    /\ J.at \in {"lookPasswords", "lookTotps", "compare", "key", "files", "end"}
    /\ J.at \in {"lookPasswords", "lookTotps", "compare"} => pc[p] = "copy"
    /\ J.at # "files" => J.open = None
    /\ J.at = "lookTotps" => Present(Passwords) \subseteq J.todo
    /\ J.at = "compare" => Present(Entries) \subseteq J.todo
    /\ J.at = "key" /\ ~J.force => Present(Entries) = {}
    /\ J.at = "key" /\ pc[p] = "paste" =>
         dir.main # None /\ fd[p] = dir.main /\ data[dir.main] = Torn
    /\ J.at \in {"files", "end"} =>
         /\ Initialized /\ MainFile = J.text.main
         /\ ~J.force => \A e \in Entries : J.text.files[e] = None => disk[e] = None
         /\ J.todo \subseteq NamesIn(J.text) /\ J.open \in NamesIn(J.text) \cup {None}
         /\ J.open # None => disk[J.open] = Torn
         /\ \A n \in NamesIn(J.text) :
              n \notin J.todo \cup {J.open} => disk[n] = J.text.files[n]
    /\ J.at = "end" => J.todo = {}

(* A backup holds what it has read as it is in the store, and everything but *)
(* what it has still to read.                                               *)
BackupInv(p) ==
  Undisturbed(p) /\ job[p].does = "backup" =>
    LET J == job[p] IN
    /\ J.at \in {"key", "listPasswords", "passwords", "totps", "end"}
    /\ J.open = None
    /\ J.text.files["conf"] \in RecordedConfs(p)
    /\ \A e \in Entries : J.text.files[e] # None => J.text.files[e] = disk[e]
    /\ J.at # "key" => Initialized /\ J.text.main = MainFile
    /\ J.at = "passwords" => \A e \in Present(Passwords) \ J.todo : J.text.files[e] = disk[e]
    /\ J.at = "totps" => \A e \in Present(Entries) \ J.todo : J.text.files[e] = disk[e]
    /\ J.at = "end" => \A e \in Present(Entries) : J.text.files[e] = disk[e]

-----------------------------------------------------------------------------
LEMMA InvInits ==
  Init => ConfInv /\ \A p \in Procs : RestoreInv(p) /\ BackupInv(p)
  <1> SUFFICES ASSUME Init PROVE ConfInv /\ \A p \in Procs : RestoreInv(p) /\ BackupInv(p)
    OBVIOUS
  <1>1. ConfInv
    BY BackupAssumption DEF Init, ConfInv, HasConf, NoJob, Names
  <1>2. \A p \in Procs : RestoreInv(p) /\ BackupInv(p)
    BY DEF Init, RestoreInv, BackupInv, NoJob
  <1>3. QED
    BY <1>1, <1>2

LEMMA ConfStep == TypeOK /\ ConfInv /\ [Next]_storeVars => ConfInv'
  <1> SUFFICES ASSUME TypeOK, ConfInv, [Next]_storeVars PROVE ConfInv'
    OBVIOUS
  <1> USE BackupAssumption
  <1>1. CASE UNCHANGED storeVars
    BY <1>1 DEF storeVars, ConfInv
  <1>2. ASSUME NEW p \in Procs, UNCHANGED <<disk, saved>>, HasConf(job'[p]),
               \A q \in Procs : q # p => job'[q] = job[q]
        PROVE ConfInv'
    BY <1>2 DEF ConfInv
  <1>3. HasConf(NoJob)
    BY DEF HasConf, NoJob, Names
  <1>4. ASSUME NEW p \in Procs, Drop(p)
        PROVE HasConf(job'[p]) /\ \A q \in Procs : q # p => job'[q] = job[q]
    BY <1>3, <1>4 DEF Drop, TypeOK
  <1>5. ASSUME NEW p \in Procs, BeginBackup(p) PROVE ConfInv'
    <2>1. PICK c \in RecordedConfs(p) :
             Begin(p, "backup", "key", FALSE, [NoText EXCEPT !.files["conf"] = c], {})
      BY <1>5, Zenon DEF BeginBackup
    <2>2. c # None
      BY <2>1 DEF RecordedConfs, LoadedConfs, ConfInv
    <2>3. [NoText EXCEPT !.files["conf"] = c].files["conf"] = c
      BY DEF NoText, Names
    <2>4. HasConf(job'[p]) /\ \A q \in Procs : q # p => job'[q] = job[q]
      BY <2>1, <2>2, <2>3 DEF Begin, TypeOK, HasConf
    <2>5. QED
      BY <1>2, <1>5, <2>4 DEF BeginBackup
  <1>6. ASSUME NEW p \in Procs, BeginUnforced(p) \/ BeginForced(p) PROVE ConfInv'
    <2>1. HasConf(job'[p]) /\ \A q \in Procs : q # p => job'[q] = job[q]
      <3>1. /\ job'[p].does = "restore" /\ job'[p].text = saved
            /\ \A q \in Procs : q # p => job'[q] = job[q]
        <4>1. \E at, force :
                job' = [job EXCEPT ![p] = [does |-> "restore", at |-> at, force |-> force,
                                           text |-> saved, todo |-> {}, open |-> None]]
          BY <1>6, Zenon DEF BeginUnforced, BeginForced, Begin
        <4>2. QED
          BY <4>1 DEF TypeOK
      <3>2. QED
        BY <3>1 DEF HasConf, ConfInv
    <2>2. QED
      BY <1>2, <1>6, <2>1 DEF BeginUnforced, BeginForced
  <1>7. ASSUME NEW p \in Procs, NEW n \in Names, BeginStore(p, n) PROVE ConfInv'
    <2>1. PICK c \in Confs :
             Begin(p, "store", "files", FALSE,
                   [NoText EXCEPT !.files[n] = IF n \in Entries THEN mem[p] ELSE c], {n})
      BY <1>7, Zenon DEF BeginStore
    <2>2. n = "conf" => [NoText EXCEPT !.files[n] = IF n \in Entries THEN mem[p] ELSE c]
                          .files["conf"] = c
      BY DEF NoText, Names
    <2>3. HasConf(job'[p]) /\ \A q \in Procs : q # p => job'[q] = job[q]
      BY <2>1, <2>2 DEF Begin, TypeOK, HasConf, Names
    <2>4. QED
      BY <1>2, <1>7, <2>3 DEF BeginStore
  <1>8. ASSUME NEW p \in Procs, ReadKey(p) \/ \E e \in Entries : ReadEntry(p, e) PROVE ConfInv'
    <2>1. CASE Drop(p)
      BY <1>2, <1>4, <1>8, <2>1 DEF ReadKey, ReadEntry
    <2>2. CASE ~Drop(p)
      <3>1. /\ job[p].does = "backup"
            /\ \/ job' = [job EXCEPT ![p].at = "listPasswords", ![p].text.main = MainFile]
               \/ \E e \in Entries :
                    job' = [job EXCEPT ![p].todo = @ \ {e}, ![p].text.files[e] = disk[e]]
        BY <1>8, <2>2, Zenon DEF ReadKey, ReadEntry, At
      <3>2. job[p].text.files["conf"] # None /\ job[p].text.files \in [Names -> Values]
        BY <3>1, JobFacts DEF ConfInv, HasConf, BackupTexts
      <3>3. /\ \/ job'[p].text.files = job[p].text.files
               \/ \E e \in Entries : job'[p].text.files = [job[p].text.files EXCEPT ![e] = disk[e]]
            /\ \A q \in Procs : q # p => job'[q] = job[q]
        <4>1. CASE job' = [job EXCEPT ![p].at = "listPasswords", ![p].text.main = MainFile]
          BY <4>1, JobFacts DEF TypeOK, Jobs, BackupTexts
        <4>2. ASSUME NEW e \in Entries,
                     job' = [job EXCEPT ![p].todo = @ \ {e}, ![p].text.files[e] = disk[e]]
              PROVE  /\ job'[p].text.files = [job[p].text.files EXCEPT ![e] = disk[e]]
                     /\ \A q \in Procs : q # p => job'[q] = job[q]
          BY <4>2, JobFacts DEF TypeOK, Jobs, BackupTexts
        <4>3. QED
          BY <3>1, <4>1, <4>2
      <3>4. job'[p].text.files["conf"] # None
        BY <3>2, <3>3 DEF Names
      <3>5. QED
        BY <1>2, <1>8, <3>3, <3>4 DEF ReadKey, ReadEntry, HasConf
    <2>3. QED
      BY <2>1, <2>2
  <1>9. ASSUME NEW p \in Procs,
               List(p) \/ Look(p) \/ OpenKey(p) \/ WriteKey(p) \/ Restored(p)
        PROVE ConfInv'
    <2>1. /\ job'[p].does = job[p].does /\ job'[p].text = job[p].text
          /\ job'[p].open = job[p].open
          /\ job[p].does \in {"backup", "restore"}
          /\ \A q \in Procs : q # p => job'[q] = job[q]
      <3>1. CASE List(p) \/ Look(p)
        <4>1. /\ \E at, todo : job' = [job EXCEPT ![p].at = at, ![p].todo = todo]
              /\ job[p].does \in {"backup", "restore"}
          BY <3>1 DEF List, Look
        <4>2. QED
          BY <4>1 DEF TypeOK, Jobs
      <3>3. CASE OpenKey(p)
        BY <3>3 DEF OpenKey, At
      <3>4. CASE WriteKey(p)
        BY <3>4 DEF WriteKey, At, TypeOK
      <3>5. CASE Restored(p)
        BY <3>5 DEF Restored, At, TypeOK
      <3>6. QED
        BY <1>9, <3>1, <3>3, <3>4, <3>5
    <2>2. HasConf(job'[p])
      BY <2>1 DEF ConfInv, HasConf
    <2>3. QED
      BY <1>2, <1>9, <2>1, <2>2 DEF List, Look, OpenKey, WriteKey, Restored
  <1>10. ASSUME NEW p \in Procs, Saved(p) PROVE ConfInv'
    <2>1. job[p].text.files["conf"] # None
      BY <1>10 DEF Saved, At, ConfInv, HasConf
    <2>2. /\ job'[p].does = job[p].does /\ job'[p].text = job[p].text
          /\ job'[p].open = job[p].open /\ job'[p].todo = job[p].todo
          /\ \A q \in Procs : q # p => job'[q] = job[q]
      BY <1>10 DEF Saved, TypeOK
    <2>3. QED
      BY <1>10, <2>1, <2>2 DEF Saved, ConfInv, HasConf
  <1>11. ASSUME NEW p \in Procs, Compare(p) PROVE ConfInv'
    <2>1. CASE Drop(p)
      BY <1>2, <1>4, <1>11, <2>1 DEF Compare
    <2>2. CASE ~Drop(p)
      <3>1. job' = [job EXCEPT ![p].at = "key"]
        BY <1>11, <2>2, Zenon DEF Compare
      <3>2. HasConf(job'[p]) /\ \A q \in Procs : q # p => job'[q] = job[q]
        BY <3>1 DEF TypeOK, ConfInv, HasConf
      <3>3. QED
        BY <1>2, <1>11, <3>2 DEF Compare
    <2>3. QED
      BY <2>1, <2>2
  <1>12. ASSUME NEW p \in Procs, NEW n \in Names, OpenFile(p, n) PROVE ConfInv'
    <2>1. n \in job[p].todo
      BY <1>12 DEF OpenFile, Due
    <2>2. /\ job'[p].does = job[p].does /\ job'[p].text = job[p].text
          /\ job'[p].open = n /\ job'[p].todo = job[p].todo \ {n}
          /\ \A q \in Procs : q # p => job'[q] = job[q]
      BY <1>12 DEF OpenFile, TypeOK
    <2>3. HasConf(job'[p])
      BY <2>1, <2>2 DEF ConfInv, HasConf
    <2>4. disk'["conf"] = None => disk'["conf"] = Torn
      BY <1>12 DEF OpenFile, TypeOK, ConfInv, Names
    <2>5. QED
      BY <1>12, <2>2, <2>3, <2>4 DEF OpenFile, ConfInv
  <1>13. ASSUME NEW p \in Procs, FillFile(p) PROVE ConfInv'
    <2> DEFINE n == job[p].open
    <2>1. /\ job'[p].does = job[p].does /\ job'[p].text = job[p].text
          /\ job'[p].open = None /\ job'[p].todo = job[p].todo
          /\ \A q \in Procs : q # p => job'[q] = job[q]
      BY <1>13 DEF FillFile, TypeOK
    <2>2. HasConf(job'[p])
      BY <2>1 DEF ConfInv, HasConf, Names
    <2>3. disk'["conf"] = None => disk'["conf"] = Torn
      <3>1. UNCHANGED disk \/ \E v \in {job[p].text.files[n], Torn} : disk' = [disk EXCEPT ![n] = v]
        BY <1>13, Zenon DEF FillFile
      <3>2. n = "conf" => job[p].text.files[n] # None
        BY DEF ConfInv, HasConf
      <3>3. QED
        BY <3>1, <3>2 DEF ConfInv, TypeOK, Names
    <2>4. QED
      BY <1>13, <2>1, <2>2, <2>3 DEF FillFile, ConfInv
  <1>14. ASSUME NEW p \in Procs, NEW e \in Entries, Remove(p, e) PROVE ConfInv'
    <2>1. disk'["conf"] = disk["conf"]
      BY <1>14 DEF Remove, TypeOK, Names
    <2>2. \A q \in Procs : HasConf(job'[q])
      BY <1>14 DEF Remove, ConfInv, HasConf, TypeOK, Jobs
    <2>3. QED
      BY <1>14, <2>1, <2>2 DEF Remove, ConfInv
  <1>15. ASSUME NEW p \in Procs, JobEnds(p) PROVE ConfInv'
    <2>1. (\E n \in Names : disk' = [disk EXCEPT ![n] = Torn]) \/ UNCHANGED disk
      BY <1>15, Zenon DEF JobEnds
    <2>2. disk'["conf"] = None => disk'["conf"] = Torn
      BY <2>1 DEF ConfInv, TypeOK, Names
    <2>3. QED
      BY <1>4, <1>15, <2>2 DEF JobEnds, ConfInv
  <1>16. ASSUME NEW p \in Procs, OnlyKey(p) PROVE ConfInv'
    BY <1>16 DEF OnlyKey, ConfInv
  <1>17. QED
    BY <1>1, <1>5, <1>6, <1>7, <1>8, <1>9, <1>10, <1>11, <1>12, <1>13, <1>14, <1>15, <1>16
       DEF Next, Step

-----------------------------------------------------------------------------
(* Only a process that begins anew stops being disturbed.                   *)
LEMMA StaysDisturbed ==
  ASSUME NEW p \in Procs, NEW q \in Procs, Step(q), p \in disturbed, p \notin disturbed'
  PROVE  \/ BeginBackup(p) \/ BeginUnforced(p) \/ BeginForced(p)
         \/ \E n \in Names : BeginStore(p, n)
  <1>1. ASSUME NEW does, NEW at, NEW force, NEW text, NEW todo,
               Begin(q, does, at, force, text, todo)
        PROVE  p = q
    BY <1>1 DEF Begin
  <1>2. CASE \/ BeginBackup(q) \/ BeginUnforced(q) \/ BeginForced(q)
             \/ \E n \in Names : BeginStore(q, n)
    <2>1. p = q
      BY <1>1, <1>2, Zenon DEF BeginBackup, BeginUnforced, BeginForced, BeginStore
    <2>2. QED
      BY <1>2, <2>1
  <1>3. CASE ~(\/ BeginBackup(q) \/ BeginUnforced(q) \/ BeginForced(q)
               \/ \E n \in Names : BeginStore(q, n))
    <2>1. ASSUME Disturbs(q) \/ UNCHANGED bookkeeping PROVE FALSE
      BY <2>1 DEF Disturbs
    <2>2. CASE \/ ReadKey(q) \/ List(q) \/ Saved(q) \/ Look(q) \/ Compare(q)
               \/ OpenKey(q) \/ WriteKey(q) \/ Restored(q) \/ FillFile(q) \/ JobEnds(q)
               \/ \E n \in Names : OpenFile(q, n)
               \/ \E e \in Entries : ReadEntry(q, e)
      BY <2>1, <2>2, Zenon DEF ReadKey, List, Saved, Look, Compare, OpenKey, WriteKey, Restored,
         FillFile, JobEnds, OpenFile, ReadEntry
    <2>3. CASE OnlyKey(q) \/ \E e \in Entries : Remove(q, e)
      BY <2>3 DEF OnlyKey, Remove
    <2>4. QED
      BY <1>3, <2>2, <2>3 DEF Step
  <1>4. QED
    BY <1>2, <1>3

(* What a process does itself keeps what its restore has reached.           *)
LEMMA RestoreStep ==
  ASSUME TypeOK, ConfInv, NEW p \in Procs, RestoreInv(p), [Next]_storeVars
  PROVE  RestoreInv(p)'
  <1> DEFINE J == job[p]
  <1> SUFFICES ASSUME p \notin disturbed', job'[p].does = "restore" PROVE RestoreInv(p)'
    BY DEF RestoreInv, Undisturbed
  <1> USE BackupAssumption, MainKeyAssumption
  <1>1. ASSUME p \notin disturbed, UNCHANGED <<dir, data, disk>>,
               job'[p] = job[p], pc'[p] = pc[p], fd'[p] = fd[p]
        PROVE  RestoreInv(p)'
    BY <1>1 DEF RestoreInv, Undisturbed, Present, Initialized, MainFile
  <1>2. CASE UNCHANGED storeVars
    BY <1>1, <1>2 DEF storeVars
  <1>3. ASSUME NEW q \in Procs, Step(q), q # p PROVE RestoreInv(p)'
    BY <1>1, <1>3, OthersKeep
  <1>4. CASE BeginUnforced(p) \/ BeginForced(p)
    <2>1. \/ /\ BeginRestore(p, FALSE)
             /\ job' = [job EXCEPT ![p] =
                          [does |-> "restore", at |-> "lookPasswords", force |-> FALSE,
                           text |-> saved, todo |-> {}, open |-> None]]
          \/ /\ BeginRestore(p, TRUE)
             /\ job' = [job EXCEPT ![p] =
                          [does |-> "restore", at |-> "key", force |-> TRUE,
                           text |-> saved, todo |-> {}, open |-> None]]
      BY <1>4, Zenon DEF BeginUnforced, BeginForced, Begin
    <2>2. pc'[p] = "copy"
      BY <2>1 DEF BeginRestore, Local, TypeOK, KeyTypeOK
    <2>3. CASE job'[p] = [does |-> "restore", at |-> "lookPasswords", force |-> FALSE,
                          text |-> saved, todo |-> {}, open |-> None]
      BY <2>2, <2>3 DEF RestoreInv
    <2>4. CASE job'[p] = [does |-> "restore", at |-> "key", force |-> TRUE,
                          text |-> saved, todo |-> {}, open |-> None]
      BY <2>2, <2>4 DEF RestoreInv
    <2>5. QED
      BY <2>1, <2>3, <2>4 DEF TypeOK
  <1>5. ASSUME \/ BeginBackup(p) \/ ReadKey(p) \/ List(p) \/ Saved(p) \/ JobEnds(p) \/ OnlyKey(p)
               \/ \E n \in Names : BeginStore(p, n)
               \/ \E e \in Entries : ReadEntry(p, e) \/ Remove(p, e)
        PROVE  FALSE
    <2>1. ASSUME NEW does \in {"backup", "store"}, NEW at, NEW force, NEW text, NEW todo,
                 Begin(p, does, at, force, text, todo)
          PROVE  FALSE
      BY <2>1 DEF Begin, TypeOK
    <2>2. ~(BeginBackup(p) \/ \E n \in Names : BeginStore(p, n))
      BY <2>1 DEF BeginBackup, BeginStore
    <2>3. ~Drop(p)
      BY DEF Drop, NoJob, TypeOK
    <2>4. ASSUME ReadKey(p) \/ \E e \in Entries : ReadEntry(p, e) PROVE FALSE
      <3>1. /\ job[p].does = "backup"
            /\ \/ job' = [job EXCEPT ![p].at = "listPasswords", ![p].text.main = MainFile]
               \/ \E e \in Entries :
                    job' = [job EXCEPT ![p].todo = @ \ {e}, ![p].text.files[e] = disk[e]]
        BY <2>3, <2>4, Zenon DEF ReadKey, ReadEntry, At
      <3>2. CASE job' = [job EXCEPT ![p].at = "listPasswords", ![p].text.main = MainFile]
        BY <3>1, <3>2 DEF TypeOK, Jobs
      <3>3. ASSUME NEW e \in Entries,
                   job' = [job EXCEPT ![p].todo = @ \ {e}, ![p].text.files[e] = disk[e]]
            PROVE  FALSE
        BY <3>1, <3>3 DEF TypeOK, Jobs
      <3>4. QED
        BY <3>1, <3>2, <3>3
    <2>5. ASSUME List(p) \/ Saved(p) PROVE FALSE
      <3>1. /\ \E at, todo : job' = [job EXCEPT ![p].at = at, ![p].todo = todo]
            /\ job[p].does = "backup"
        BY <2>5, JobFacts DEF List, Saved, At, TypeOK, Jobs
      <3>2. QED
        BY <3>1 DEF TypeOK, Jobs
    <2>6. ASSUME OnlyKey(p) \/ \E e \in Entries : Remove(p, e) PROVE FALSE
      <3>1. job[p] = NoJob /\ job'[p].does = job[p].does
        BY <2>6 DEF OnlyKey, Remove, TypeOK, Jobs
      <3>2. QED
        BY <3>1 DEF NoJob
    <2>7. ~JobEnds(p)
      BY <2>3 DEF JobEnds
    <2>8. QED
      BY <1>5, <2>2, <2>4, <2>5, <2>6, <2>7
  <1>6. ASSUME Step(p), p \in disturbed PROVE RestoreInv(p)'
    BY <1>4, <1>5, <1>6, StaysDisturbed
  <1>7. ASSUME p \notin disturbed, Look(p) PROVE RestoreInv(p)'
    <2>1. CASE J.at = "lookPasswords"
      <3>1. job' = [job EXCEPT ![p].at = "lookTotps", ![p].todo = Present(Passwords)]
        BY <1>7, <2>1, Zenon DEF Look
      <3>2. QED
        BY <1>7, <2>1, <3>1 DEF Look, RestoreInv, Undisturbed, Present, TypeOK, Jobs
    <2>2. CASE J.at = "lookTotps"
      <3>1. job' = [job EXCEPT ![p].at = "compare", ![p].todo = @ \cup Present(Totps)]
        BY <1>7, <2>2, Zenon DEF Look
      <3>2. QED
        BY <1>7, <2>2, <3>1 DEF Look, RestoreInv, Undisturbed, Present, Entries, TypeOK, Jobs
    <2>3. QED
      BY <1>7, <2>1, <2>2 DEF Look
  <1>8. ASSUME p \notin disturbed, Compare(p) PROVE RestoreInv(p)'
    <2>1. J.todo = {} /\ job' = [job EXCEPT ![p].at = "key"] /\ UNCHANGED keyVars
      <3>1. ~Drop(p)
        BY DEF Drop, NoJob, TypeOK
      <3>2. QED
        BY <1>8, <3>1, Zenon DEF Compare
    <2>2. QED
      BY <1>8, <2>1 DEF Compare, At, RestoreInv, Undisturbed, Present, TypeOK, Jobs
  <1>9. ASSUME p \notin disturbed, OpenKey(p) PROVE RestoreInv(p)'
    <2>1. PICK i \in Inodes : OpenCopy(p, i)
      BY <1>9 DEF OpenKey
    <2>2. dir'.main = i /\ data'[i] = Torn
      BY <2>1, OpenFacts DEF OpenCopy, TypeOK
    <2>3. pc'[p] = "paste" /\ fd'[p] = i
      BY <2>1 DEF OpenCopy, Local, TypeOK, KeyTypeOK
    <2>4. QED
      BY <1>9, <2>2, <2>3 DEF OpenKey, At, RestoreInv, Undisturbed, Present
  <1>10. ASSUME p \notin disturbed, WriteKey(p) PROVE RestoreInv(p)'
    <2>1. J.at = "key" /\ J.does = "restore" /\ pc[p] = "paste"
      BY <1>10 DEF WriteKey, WriteCopy, At
    <2>2. dir.main \in Inodes /\ fd[p] = dir.main /\ data[dir.main] = Torn
      BY <1>10, <2>1 DEF RestoreInv, Undisturbed, TypeOK, KeyTypeOK
    <2>3. data' = [data EXCEPT ![dir.main] = J.text.main] /\ UNCHANGED dir
      BY <1>10, <2>2 DEF WriteKey, WriteCopy, Write
    <2>4. Initialized' /\ MainFile' = J.text.main
      BY <2>2, <2>3 DEF Initialized, MainFile, TypeOK, KeyTypeOK
    <2>5. job'[p].at = "files" /\ job'[p].todo = NamesIn(J.text) /\ job'[p].text = J.text
          /\ job'[p].open = None /\ job'[p].force = J.force
      BY <1>10, <2>1 DEF WriteKey, RestoreInv, Undisturbed, TypeOK, Jobs
    <2>6. ~J.force => \A e \in Entries : disk'[e] = None
      BY <1>10, <2>1 DEF WriteKey, RestoreInv, Undisturbed, Present
    <2>7. QED
      BY <2>4, <2>5, <2>6 DEF RestoreInv
  <1>11. ASSUME p \notin disturbed, Restored(p) PROVE RestoreInv(p)'
    <2>1. /\ job'[p] = [J EXCEPT !.at = "end"] /\ J.at = "files" /\ J.does = "restore"
          /\ J.todo = {} /\ J.open = None /\ UNCHANGED <<dir, data, disk>>
      BY <1>11 DEF Restored, At, Forgets, TypeOK, Jobs
    <2>2. QED
      BY <1>11, <2>1, JobFacts DEF RestoreInv, Undisturbed, Initialized, MainFile, Jobs
  <1>12. ASSUME p \notin disturbed, NEW n \in Names, OpenFile(p, n) PROVE RestoreInv(p)'
    <2>1. /\ job'[p] = [[J EXCEPT !.todo = J.todo \ {n}] EXCEPT !.open = n]
          /\ disk' = [disk EXCEPT ![n] = Torn] /\ UNCHANGED <<dir, data>>
          /\ J.at = "files" /\ J.open = None /\ n \in J.todo
      BY <1>12 DEF OpenFile, Due, TypeOK
    <2>2. /\ job'[p].does = J.does /\ job'[p].at = J.at /\ job'[p].force = J.force
          /\ job'[p].text = J.text /\ job'[p].todo = J.todo \ {n} /\ job'[p].open = n
      BY <2>1, JobFacts DEF Jobs
    <2>3. QED
      BY <1>12, <2>1, <2>2 DEF RestoreInv, Undisturbed, Initialized, MainFile, TypeOK, NamesIn, Names
  <1>13. ASSUME p \notin disturbed, FillFile(p) PROVE RestoreInv(p)'
    <2> DEFINE n == J.open
    <2>1. /\ job'[p].does = J.does /\ job'[p].force = J.force
          /\ job'[p].text = J.text /\ job'[p].todo = J.todo /\ job'[p].open = None
          /\ (J.does # "store" => job'[p].at = J.at)
          /\ UNCHANGED <<dir, data>> /\ n # None
      BY <1>13 DEF FillFile, TypeOK, Jobs
    <2>2. /\ J.does = "restore" /\ J.at = "files"
          /\ n \in NamesIn(J.text) /\ disk[n] = Torn
      BY <1>13, <2>1 DEF RestoreInv, Undisturbed
    <2>3. disk' = [disk EXCEPT ![n] = J.text.files[n]]
      <3>1. n # "removed"
        BY <2>2 DEF NamesIn
      <3>2. \E v \in {J.text.files[n]} \cup (IF disk[n] = Torn THEN {} ELSE {Torn}) :
               disk' = [disk EXCEPT ![n] = v]
        BY <1>13, <3>1, Zenon DEF FillFile
      <3>3. QED
        BY <2>2, <3>2
    <2>4. QED
      BY <1>13, <2>1, <2>2, <2>3 DEF RestoreInv, Undisturbed, Initialized, MainFile, TypeOK,
         NamesIn, Names
  <1>14. QED
    <2>1. CASE UNCHANGED storeVars
      BY <1>2, <2>1
    <2>2. ASSUME NEW q \in Procs, Step(q) PROVE RestoreInv(p)'
      <3>1. CASE q # p
        BY <1>3, <2>2, <3>1
      <3>2. CASE q = p
        BY <1>4, <1>5, <1>6, <1>7, <1>8, <1>9, <1>10, <1>11, <1>12, <1>13, <2>2, <3>2 DEF Step
      <3>3. QED
        BY <3>1, <3>2
    <2>3. QED
      BY <2>1, <2>2 DEF Next

(* What a backup holds of the store, it holds after each of its steps.      *)
LEMMA BackupStep ==
  ASSUME TypeOK, ConfInv, NEW p \in Procs, BackupInv(p), [Next]_storeVars
  PROVE  BackupInv(p)'
  <1> DEFINE J == job[p]
  <1> SUFFICES ASSUME p \notin disturbed', job'[p].does = "backup" PROVE BackupInv(p)'
    BY DEF BackupInv, Undisturbed
  <1> USE BackupAssumption, MainKeyAssumption
  <1>1. ASSUME p \notin disturbed, UNCHANGED <<dir, data, disk>>, job'[p] = job[p],
               mem'[p] = mem[p]
        PROVE  BackupInv(p)'
    BY <1>1 DEF BackupInv, Undisturbed, Present, RecordedConfs, LoadedConfs, Initialized, MainFile
  <1>2. CASE UNCHANGED storeVars
    BY <1>1, <1>2 DEF storeVars
  <1>3. ASSUME NEW q \in Procs, Step(q), q # p PROVE BackupInv(p)'
    BY <1>1, <1>3, OthersKeep
  <1>4. CASE BeginBackup(p)
    <2>1. PICK c \in RecordedConfs(p) :
             Begin(p, "backup", "key", FALSE, [NoText EXCEPT !.files["conf"] = c], {})
      BY <1>4, Zenon DEF BeginBackup
    <2>2. /\ job'[p].at = "key" /\ job'[p].open = None
          /\ job'[p].text = [NoText EXCEPT !.files["conf"] = c]
      BY <2>1 DEF Begin, TypeOK
    <2>3. /\ job'[p].text.files["conf"] = c
          /\ \A e \in Entries : job'[p].text.files[e] = None
      BY <2>2 DEF NoText, Names
    <2>4. c \in RecordedConfs(p)'
      BY <1>4 DEF BeginBackup, RecordedConfs, LoadedConfs
    <2>5. QED
      BY <2>2, <2>3, <2>4 DEF BackupInv
  <1>5. ASSUME \/ BeginUnforced(p) \/ BeginForced(p) \/ Look(p) \/ Compare(p) \/ OpenKey(p)
               \/ WriteKey(p) \/ Restored(p) \/ JobEnds(p) \/ OnlyKey(p)
               \/ \E n \in Names : BeginStore(p, n)
               \/ \E e \in Entries : Remove(p, e)
        PROVE  FALSE
    <2>1. ASSUME NEW does \in {"restore", "store"}, NEW at, NEW force, NEW text, NEW todo,
                 Begin(p, does, at, force, text, todo)
          PROVE  FALSE
      BY <2>1 DEF Begin, TypeOK
    <2>2. ~(BeginUnforced(p) \/ BeginForced(p) \/ \E n \in Names : BeginStore(p, n))
      BY <2>1 DEF BeginUnforced, BeginForced, BeginStore
    <2>3. ~Drop(p)
      BY DEF Drop, NoJob, TypeOK
    <2>4. ASSUME Look(p) \/ Compare(p) \/ OpenKey(p) \/ WriteKey(p) \/ Restored(p) PROVE FALSE
      <3>1. CASE Look(p)
        <4>1. /\ \E at, todo : job' = [job EXCEPT ![p].at = at, ![p].todo = todo]
              /\ job[p].does = "restore"
          BY <3>1 DEF Look
        <4>2. QED
          BY <4>1 DEF TypeOK, Jobs
      <3>2. CASE Compare(p)
        <4>1. job' = [job EXCEPT ![p].at = "key"] /\ job[p].does = "restore"
          BY <2>3, <3>2, Zenon DEF Compare, At
        <4>2. QED
          BY <4>1 DEF TypeOK, Jobs
      <3>3. CASE OpenKey(p)
        BY <3>3 DEF OpenKey, At
      <3>4. CASE WriteKey(p)
        BY <3>4 DEF WriteKey, At, TypeOK, Jobs
      <3>5. CASE Restored(p)
        BY <3>5 DEF Restored, At, TypeOK, Jobs
      <3>6. QED
        BY <2>4, <3>1, <3>2, <3>3, <3>4, <3>5
    <2>5. ASSUME OnlyKey(p) \/ \E e \in Entries : Remove(p, e) PROVE FALSE
      <3>1. job[p] = NoJob /\ job'[p].does = job[p].does
        BY <2>5 DEF OnlyKey, Remove, TypeOK, Jobs
      <3>2. QED
        BY <3>1 DEF NoJob
    <2>6. ~JobEnds(p)
      BY <2>3 DEF JobEnds
    <2>7. QED
      BY <1>5, <2>2, <2>4, <2>5, <2>6
  <1>6. ASSUME Step(p), p \in disturbed PROVE BackupInv(p)'
    BY <1>4, <1>5, <1>6, StaysDisturbed
  <1>7. ASSUME p \notin disturbed, J.does = "backup",
               UNCHANGED <<dir, data, disk>>, mem'[p] = mem[p], job'[p].open = J.open,
               job'[p].text.files = J.text.files
        PROVE  /\ job'[p].open = None /\ job'[p].text.files["conf"] \in RecordedConfs(p)'
               /\ \A e \in Entries :
                    job'[p].text.files[e] # None => job'[p].text.files[e] = disk'[e]
    BY <1>7 DEF BackupInv, Undisturbed, RecordedConfs, LoadedConfs
  <1>8. ASSUME p \notin disturbed, ReadKey(p) PROVE BackupInv(p)'
    <2>1. /\ Initialized /\ J.does = "backup"
          /\ job' = [job EXCEPT ![p].at = "listPasswords", ![p].text.main = MainFile]
          /\ UNCHANGED <<dir, data, disk>> /\ mem'[p] = mem[p]
      <3>1. ~Drop(p)
        BY DEF Drop, NoJob, TypeOK
      <3>2. QED
        BY <1>8, <3>1, Zenon DEF ReadKey, At
    <2>2. /\ job'[p].at = "listPasswords" /\ job'[p].open = J.open
          /\ job'[p].text.files = J.text.files /\ job'[p].text.main = MainFile
      BY <2>1, JobFacts DEF TypeOK, Jobs, BackupTexts
    <2>3. QED
      BY <1>7, <1>8, <2>1, <2>2 DEF BackupInv, Initialized, MainFile
  <1>9. ASSUME p \notin disturbed, List(p) PROVE BackupInv(p)'
    <2>1. J.does = "backup" /\ UNCHANGED <<dir, data, disk>> /\ mem'[p] = mem[p]
      BY <1>9 DEF List
    <2>2. CASE J.at = "listPasswords"
      <3>1. job' = [job EXCEPT ![p].at = "passwords", ![p].todo = Present(Passwords)]
        BY <1>9, <2>2, Zenon DEF List
      <3>2. /\ job'[p].at = "passwords" /\ job'[p].todo = Present(Passwords)
            /\ job'[p].open = J.open /\ job'[p].text = J.text
        BY <3>1 DEF TypeOK, Jobs
      <3>3. QED
        BY <1>7, <1>9, <2>1, <2>2, <3>2
           DEF BackupInv, Undisturbed, Present, Initialized, MainFile
    <2>3. CASE J.at = "passwords"
      <3>1. J.todo = {} /\ job' = [job EXCEPT ![p].at = "totps", ![p].todo = Present(Totps)]
        BY <1>9, <2>3, Zenon DEF List
      <3>2. /\ job'[p].at = "totps" /\ job'[p].todo = Present(Totps)
            /\ job'[p].open = J.open /\ job'[p].text = J.text
        BY <3>1 DEF TypeOK, Jobs
      <3>3. \A e \in Present(Passwords) : J.text.files[e] = disk[e]
        BY <1>9, <2>1, <2>3, <3>1 DEF BackupInv, Undisturbed
      <3>4. \A e \in Present(Entries) \ job'[p].todo : job'[p].text.files[e] = disk[e]
        BY <3>2, <3>3 DEF Present, Entries
      <3>5. Present(Entries)' = Present(Entries)
        BY <2>1 DEF Present
      <3>6. Initialized' /\ job'[p].text.main = MainFile'
        BY <1>9, <2>1, <2>3, <3>2 DEF BackupInv, Undisturbed, Initialized, MainFile
      <3>7. QED
        BY <1>7, <1>9, <2>1, <3>2, <3>4, <3>5, <3>6 DEF BackupInv
    <2>4. QED
      BY <1>9, <2>2, <2>3 DEF List
  <1>10. ASSUME p \notin disturbed, NEW e \in Entries, ReadEntry(p, e) PROVE BackupInv(p)'
    <2>1. /\ disk[e] # None /\ J.does = "backup"
          /\ job' = [job EXCEPT ![p].todo = @ \ {e}, ![p].text.files[e] = disk[e]]
          /\ UNCHANGED <<dir, data, disk>> /\ mem'[p] = mem[p]
      <3>1. ~Drop(p)
        BY DEF Drop, NoJob, TypeOK
      <3>2. QED
        BY <1>10, <3>1, Zenon DEF ReadEntry
    <2>2. J.text.files \in [Names -> Values]
      BY JobFacts DEF BackupTexts
    <2>3. /\ job'[p].at = J.at /\ job'[p].open = J.open /\ job'[p].todo = J.todo \ {e}
          /\ job'[p].text.main = J.text.main
          /\ job'[p].text.files = [J.text.files EXCEPT ![e] = disk[e]]
      BY <2>1, JobFacts DEF TypeOK, Jobs, BackupTexts
    <2>4. /\ job'[p].text.files["conf"] = J.text.files["conf"]
          /\ job'[p].text.files[e] = disk[e]
          /\ \A f \in Entries : f # e => job'[p].text.files[f] = J.text.files[f]
      BY <2>2, <2>3 DEF Names
    <2>5. BackupInv(p) /\ Undisturbed(p) /\ UNCHANGED <<dir, data, disk>>
      BY <1>10, <2>1 DEF Undisturbed
    <2>6. /\ job'[p].open = None /\ RecordedConfs(p)' = RecordedConfs(p)
          /\ job'[p].text.files["conf"] \in RecordedConfs(p)
          /\ job'[p].at # "key" => Initialized' /\ job'[p].text.main = MainFile'
      BY <2>1, <2>3, <2>4, <2>5 DEF BackupInv, RecordedConfs, LoadedConfs, Initialized, MainFile
    <2>7. \A f \in Entries : job'[p].text.files[f] # None => job'[p].text.files[f] = disk'[f]
      BY <2>1, <2>4, <2>5 DEF BackupInv
    <2>8. \A S \in {Passwords, Entries} :
             /\ Present(S)' = Present(S) /\ Present(S) \subseteq Entries
             /\ (\A f \in Present(S) \ J.todo : J.text.files[f] = disk[f])
                  => \A f \in Present(S) \ job'[p].todo : job'[p].text.files[f] = disk'[f]
             /\ (\A f \in Present(S) : J.text.files[f] = disk[f])
                  => \A f \in Present(S) : job'[p].text.files[f] = disk'[f]
      BY <2>1, <2>3, <2>4 DEF Present, Entries
    <2>9. QED
      BY <2>1, <2>3, <2>5, <2>6, <2>7, <2>8 DEF BackupInv
  <1>11. ASSUME p \notin disturbed, Saved(p) PROVE BackupInv(p)'
    <2>1. /\ J.does = "backup" /\ J.at = "totps" /\ J.todo = {} /\ UNCHANGED <<dir, data, disk>>
          /\ mem'[p] = mem[p] /\ job'[p].at = "end" /\ job'[p].open = J.open /\ job'[p].text = J.text
      BY <1>11 DEF Saved, At, TypeOK, Jobs
    <2>2. QED
      BY <1>7, <1>11, <2>1 DEF BackupInv, Undisturbed, Present, Initialized, MainFile
  <1>12. ASSUME p \notin disturbed, FillFile(p) \/ \E n \in Names : OpenFile(p, n) PROVE FALSE
    <2>1. J.open # None \/ J.at = "files"
      BY <1>12 DEF FillFile, OpenFile
    <2>2. J.does = "backup"
      <3>1. CASE FillFile(p)
        BY <3>1 DEF FillFile, TypeOK, Jobs
      <3>2. CASE \E n \in Names : OpenFile(p, n)
        BY <3>2 DEF OpenFile, TypeOK, Jobs
      <3>3. QED
        BY <1>12, <3>1, <3>2
    <2>3. QED
      BY <1>12, <2>1, <2>2 DEF BackupInv, Undisturbed
  <1>13. QED
    <2>1. ASSUME NEW q \in Procs, Step(q) PROVE BackupInv(p)'
      <3>1. CASE q # p
        BY <1>3, <2>1, <3>1
      <3>2. CASE q = p
        BY <1>4, <1>5, <1>6, <1>8, <1>9, <1>10, <1>11, <1>12, <2>1, <3>2 DEF Step
      <3>3. QED
        BY <3>1, <3>2
    <2>2. QED
      BY <1>2, <2>1 DEF Next

-----------------------------------------------------------------------------
StoreInv == ConfInv /\ \A p \in Procs : RestoreInv(p) /\ BackupInv(p)

LEMMA StoreStep == TypeOK /\ StoreInv /\ [Next]_storeVars => StoreInv'
  <1> SUFFICES ASSUME TypeOK, StoreInv, [Next]_storeVars PROVE StoreInv'
    OBVIOUS
  <1>1. ConfInv'
    BY ConfStep DEF StoreInv
  <1>2. ASSUME NEW p \in Procs PROVE RestoreInv(p)' /\ BackupInv(p)'
    BY RestoreStep, BackupStep DEF StoreInv
  <1>3. QED
    BY <1>1, <1>2 DEF StoreInv

(* A restore that reports success has put the whole backup in place, if     *)
(* nobody changed its files meanwhile, and without --force nothing else is  *)
(* left, whatever the entries, the keys and the other commands.             *)
THEOREM RestoresAreComplete == Spec => []RestoreIsComplete
  <1>1. TypeOK /\ StoreInv => RestoreIsComplete
    <2> SUFFICES ASSUME TypeOK, StoreInv, NEW p \in Procs, At(p, "restore", "end"), Undisturbed(p)
                 PROVE  LET text == job[p].text IN
                        /\ Initialized /\ MainFile = text.main
                        /\ \A n \in Names : text.files[n] # None => disk[n] = text.files[n]
                        /\ ~job[p].force => \A n \in Names : text.files[n] = None => disk[n] = None
      BY DEF RestoreIsComplete
    <2>1. RestoreInv(p) /\ job[p].text.files["conf"] # None
      BY DEF StoreInv, ConfInv, HasConf, At
    <2>2. QED
      BY <2>1, BackupAssumption DEF RestoreInv, At, NamesIn, Names
  <1>2. Init => StoreInv
    BY InvInits DEF StoreInv
  <1>3. QED
    BY <1>1, <1>2, Inits, TypeStep, StoreStep, PTL DEF Spec

(* A backup that succeeds holds the key file and exactly the entries of the *)
(* store, if nobody changed them meanwhile.                                 *)
THEOREM BackupsAreExact == Spec => []BackupIsExact
  <1>1. TypeOK /\ StoreInv => BackupIsExact
    BY DEF StoreInv, BackupInv, BackupIsExact, At, Present
  <1>2. Init => StoreInv
    BY InvInits DEF StoreInv
  <1>3. QED
    BY <1>1, <1>2, Inits, TypeStep, StoreStep, PTL DEF Spec
=============================================================================
