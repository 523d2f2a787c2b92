---------------------------- MODULE KeystoreProofs ----------------------------
(***************************************************************************)
(* Proofs about Keystore for every set of names, every pair of encodings   *)
(* whose results encode to themselves, and every set of secrets: of the    *)
(* operations by themselves and of the window that runs them.              *)
(***************************************************************************)
EXTENDS EntryLists, TLAPS

Disks == [Kinds -> [Stems -> {Absent} \cup Contents]]

(* Every path the keystore computes is one of the stems.                    *)
LEMMA PathsAreStems ==
  /\ \A n \in Names : FileOf[n] \in Stems /\ LegacyOf[n] \in Stems
  /\ \A n \in Names, kind \in Kinds : Legacy(kind, n) \in Stems
  /\ Stems \subseteq Names
  /\ \A fs, kind \in Kinds, n \in Names : Resolve(fs, kind, n) \in Stems
<1>1. \A n \in Names : FileOf[n] \in Stems /\ LegacyOf[n] \in Stems
  BY DEF Stems
<1>2. Stems \subseteq Names
  BY NamesAssumption
<1> QED
  BY <1>1, <1>2 DEF Legacy, Resolve

(* What the three changes of the disk make of each file.                    *)
LEMMA WrittenFile ==
  ASSUME NEW fs \in Disks, NEW kind \in Kinds, NEW n \in Names,
         NEW c \in Contents
  PROVE  /\ Written(fs, kind, n, c) \in Disks
         /\ \A k \in Kinds, s \in Stems :
              Written(fs, kind, n, c)[k][s] =
                IF k # kind THEN fs[k][s]
                ELSE IF s = FileOf[n] THEN c
                ELSE IF s = Legacy(kind, n) THEN Absent ELSE fs[k][s]
BY PathsAreStems DEF Written, Disks

LEMMA RemovedFile ==
  ASSUME NEW fs \in Disks, NEW kind \in Kinds, NEW n \in Names
  PROVE  /\ Removed(fs, kind, n) \in Disks
         /\ \A k \in Kinds, s \in Stems :
              Removed(fs, kind, n)[k][s] =
                IF k = kind /\ s \in {Resolve(fs, kind, n), Legacy(kind, n)}
                  THEN Absent ELSE fs[k][s]
BY PathsAreStems DEF Removed, Disks

LEMMA RenamedFile ==
  ASSUME NEW fs \in Disks, NEW kind \in Kinds, NEW old \in Names,
         NEW new \in Names
  PROVE  /\ Renamed(fs, kind, old, new) \in Disks
         /\ \A k \in Kinds, s \in Stems :
              Renamed(fs, kind, old, new)[k][s] =
                IF k # kind THEN fs[k][s]
                ELSE IF s = FileOf[new] THEN Read(fs, kind, old)
                ELSE IF s \in {Resolve(fs, kind, old), Legacy(kind, old),
                               Legacy(kind, new)} THEN Absent
                ELSE fs[k][s]
<1> DEFINE moved == [s \in Stems |->
                      IF s = FileOf[new] THEN Read(fs, kind, old)
                      ELSE IF s \in {Resolve(fs, kind, old), Legacy(kind, old),
                                     Legacy(kind, new)} THEN Absent
                      ELSE fs[kind][s]]
<1>1. Renamed(fs, kind, old, new) = [fs EXCEPT ![kind] = moved]
  BY DEF Renamed, Read
<1>2. Resolve(fs, kind, old) \in Stems
  BY PathsAreStems DEF Resolve
<1>3. Read(fs, kind, old) \in {Absent} \cup Contents
  BY <1>2 DEF Read, Disks
<1>4. moved \in [Stems -> {Absent} \cup Contents]
  BY <1>3 DEF Disks
<1>5. \A s \in Stems : moved[s] =
         IF s = FileOf[new] THEN Read(fs, kind, old)
         ELSE IF s \in {Resolve(fs, kind, old), Legacy(kind, old),
                        Legacy(kind, new)} THEN Absent
         ELSE fs[kind][s]
  OBVIOUS
<1> HIDE DEF moved
<1> QED
  BY <1>1, <1>4, <1>5 DEF Disks

(* Every operation leaves files of the keystore behind and no others.       *)
LEMMA FilesTyped ==
  ASSUME TypeOK, Next
  PROVE  TypeOK'
<1> USE DEF TypeOK, Disks
<1>1. ASSUME NEW n \in Names, NEW kind \in Kinds, NEW c \in Contents,
             files' = Written(files, kind, n, c)
      PROVE  TypeOK'
  BY <1>1, WrittenFile
<1>2. ASSUME NEW old \in Stems, NEW new \in Names, NEW kind \in Kinds,
             EditName(kind, old, new)
      PROVE  TypeOK'
  BY <1>2, RenamedFile, PathsAreStems DEF EditName
<1>3. ASSUME NEW old \in Stems, NEW new \in Names, NEW kind \in Kinds,
             NEW c \in Secrets, EditSecret(kind, old, new, c)
      PROVE  TypeOK'
  <2>1. Written(files, kind, new, c) \in Disks
    BY WrittenFile DEF Contents
  <2>2. old \in Names
    BY PathsAreStems
  <2> QED
    BY <1>3, <2>1, <2>2, RemovedFile DEF EditSecret
<1>4. ASSUME NEW n \in Stems, RemoveEntry(n)
      PROVE  TypeOK'
  <2>1. PICK kind \in Kinds : files' = Removed(files, kind, n)
    BY <1>4 DEF RemoveEntry, Kinds
  <2> QED
    BY <2>1, RemovedFile, PathsAreStems
<1> QED
  BY <1>1, <1>2, <1>3, <1>4
  DEF Next, StoreEntry, StoreBreaks, EditBreaks, CliStore, Contents

(* TypeOK: every operation of the window and of the command line leaves     *)
(* files of the keystore behind and no others.                              *)
THEOREM TypeCorrect == Spec => []TypeOK
<1>1. Init => TypeOK
  BY DEF Init, TypeOK, Contents
<1>2. TypeOK /\ [Next]_files => TypeOK'
  BY FilesTyped DEF TypeOK
<1> QED
  BY <1>1, <1>2, PTL DEF Spec

LEMMA StoreReads ==
  TypeOK =>
    [\A kind \in Kinds, n \in Names, c \in Secrets :
       StoreEntry(kind, n, c) \/ CliStore(kind, n, c)
         => Read(files', kind, n) = c]_files
<1>1. ASSUME TypeOK, NEW kind \in Kinds, NEW n \in Names, NEW c \in Secrets,
             StoreEntry(kind, n, c) \/ CliStore(kind, n, c)
      PROVE  Read(files', kind, n) = c
  <2>1. files' = Written(files, kind, n, c) /\ files \in Disks /\ c \in Contents
    BY <1>1 DEF StoreEntry, CliStore, TypeOK, Disks, Contents
  <2>2. files'[kind][FileOf[n]] = c
    BY <2>1, WrittenFile, PathsAreStems
  <2>3. c # Absent
    BY NamesAssumption
  <2> QED
    BY <2>2, <2>3 DEF Read, Resolve
<1> QED
  BY <1>1

(* StoredIsRead: no older encoding and no other entry's file stands between *)
(* a name and what was last stored under it.                                *)
THEOREM StoresAreRead == Spec => StoredIsRead
  BY StoreReads, TypeCorrect, PTL DEF Spec, StoredIsRead

LEMMA RenameReads ==
  TypeOK =>
    [\A kind \in Kinds, old \in Stems, new \in Names :
       EditName(kind, old, new)
         => Read(files', kind, new) = Read(files, kind, old)]_files
<1>1. ASSUME TypeOK, NEW kind \in Kinds, NEW old \in Stems, NEW new \in Names,
             EditName(kind, old, new)
      PROVE  Read(files', kind, new) = Read(files, kind, old)
  <2>1. CASE old = new
    BY <1>1, <2>1 DEF EditName
  <2>2. CASE old # new
    <3>1. /\ files' = Renamed(files, kind, old, new) /\ files \in Disks
          /\ Read(files, kind, old) # Absent
      BY <1>1, <2>2 DEF EditName, TypeOK, Disks, Has
    <3>2. old \in Names /\ FileOf[new] \in Stems
      BY PathsAreStems
    <3>3. files'[kind][FileOf[new]] = Read(files, kind, old)
      BY <3>1, <3>2, RenamedFile
    <3> QED
      BY <3>1, <3>3 DEF Read, Resolve
  <2> QED
    BY <2>1, <2>2
<1> QED
  BY <1>1

(* RenameKeepsSecret, for two names that lead to the same file too.         *)
THEOREM RenamesKeepSecrets == Spec => RenameKeepsSecret
  BY RenameReads, TypeCorrect, PTL DEF Spec, RenameKeepsSecret

LEMMA NewEntryTouches ==
  TypeOK =>
    [\A kind \in Kinds, n \in Names, c \in Secrets :
       StoreEntry(kind, n, c) =>
         \A k \in Kinds, s \in Stems :
           files[k][s] # Absent => files'[k][s] = files[k][s]]_files
<1>1. ASSUME TypeOK, NEW kind \in Kinds, NEW n \in Names, NEW c \in Secrets,
             StoreEntry(kind, n, c), NEW k \in Kinds, NEW s \in Stems,
             files[k][s] # Absent
      PROVE  files'[k][s] = files[k][s]
  <2>1. /\ files' = Written(files, kind, n, c) /\ files \in Disks
        /\ c \in Contents /\ Read(files, kind, n) = Absent
    BY <1>1 DEF StoreEntry, Free, Has, TypeOK, Disks, Contents
  <2>2. files[kind][FileOf[n]] = Absent /\ files[kind][Legacy(kind, n)] = Absent
    BY <2>1 DEF Read, Resolve
  <2> QED
    BY <1>1, <2>1, <2>2, WrittenFile
<1> QED
  BY <1>1

(* NewEntryTouchesNothing: the check for a name in use is as wide as what   *)
(* storing under that name removes or replaces.                             *)
THEOREM NewEntriesTouchNothing == Spec => NewEntryTouchesNothing
  BY NewEntryTouches, TypeCorrect, PTL DEF Spec, NewEntryTouchesNothing

LEMMA EditTouches ==
  TypeOK =>
    [\A kind \in Kinds, old \in Stems, new \in Names :
       \/ EditName(kind, old, new)
       \/ \E c \in Secrets : EditSecret(kind, old, new, c)
       \/ \E c \in Contents : EditBreaks(kind, old, new, c)
       => \A k \in Kinds, s \in Stems :
            files'[k][s] # files[k][s] =>
              k = kind /\ s \in {old, FileOf[new], LegacyOf[new]}]_files
<1>1. ASSUME TypeOK, NEW kind \in Kinds, NEW old \in Stems, NEW new \in Names,
             \/ EditName(kind, old, new)
             \/ \E c \in Secrets : EditSecret(kind, old, new, c)
             \/ \E c \in Contents : EditBreaks(kind, old, new, c),
             NEW k \in Kinds, NEW s \in Stems, files'[k][s] # files[k][s]
      PROVE  k = kind /\ s \in {old, FileOf[new], LegacyOf[new]}
  <2>1. old \in Names /\ files \in Disks /\ Secrets \subseteq Contents
    BY <1>1, PathsAreStems DEF TypeOK, Disks, Contents
  <2>2. /\ FileOf[old] = old /\ Legacy(kind, old) = old
        /\ \A fs : Resolve(fs, kind, old) = old
    BY <1>1, NamesAssumption DEF Legacy, Resolve
  <2>3. Legacy(kind, new) \in {FileOf[new], LegacyOf[new]}
    BY DEF Legacy
  <2>4. CASE EditName(kind, old, new)
    BY <1>1, <2>1, <2>2, <2>3, <2>4, RenamedFile DEF EditName
  <2>5. ASSUME NEW c \in Secrets, EditSecret(kind, old, new, c)
        PROVE  k = kind /\ s \in {old, FileOf[new], LegacyOf[new]}
    <3> DEFINE stored == Written(files, kind, new, c)
    <3>1. stored \in Disks
      BY <2>1, WrittenFile
    <3>2. files'[k][s] # stored[k][s] => k = kind /\ s = old
      BY <2>1, <2>2, <2>5, <3>1, RemovedFile DEF EditSecret
    <3>3. stored[k][s] # files[k][s]
            => k = kind /\ s \in {FileOf[new], LegacyOf[new]}
      BY <2>1, <2>3, WrittenFile
    <3> QED
      BY <1>1, <3>2, <3>3
  <2>6. ASSUME NEW c \in Contents, EditBreaks(kind, old, new, c)
        PROVE  k = kind /\ s \in {old, FileOf[new], LegacyOf[new]}
    BY <1>1, <2>1, <2>3, <2>6, WrittenFile DEF EditBreaks
  <2> QED
    BY <1>1, <2>4, <2>5, <2>6
<1> QED
  BY <1>1

(* EditTouchesItsNames: it rests on listed stems encoding to themselves.    *)
THEOREM EditsTouchTheirNames == Spec => EditTouchesItsNames
  BY EditTouches, TypeCorrect, PTL DEF Spec, EditTouchesItsNames

(* Where an edit does what it says: if the new name is not stored in the    *)
(* old entry's own file, or the name stays, the new secret is read under    *)
(* the new name, and an old name that was given up reads nothing.           *)
EditMoves ==
  \A kind \in Kinds, old \in Stems, new \in Names :
    /\ \A c \in Secrets :
         EditSecret(kind, old, new, c) /\ (FileOf[new] = old => old = new)
           => Read(files', kind, new) = c
    /\ /\ EditName(kind, old, new) \/ \E c \in Secrets : EditSecret(kind, old, new, c)
       /\ FileOf[new] # old
       => Read(files', kind, old) = Absent

LEMMA EditMovesStep == TypeOK => [EditMoves]_files
<1>1. ASSUME TypeOK, NEW kind \in Kinds, NEW old \in Stems, NEW new \in Names
      PROVE  /\ old \in Names /\ FileOf[new] \in Stems /\ files \in Disks
             /\ FileOf[old] = old /\ Legacy(kind, old) = old
             /\ \A fs : Resolve(fs, kind, old) = old
             /\ Secrets \subseteq Contents /\ Absent \notin Secrets
  BY <1>1, PathsAreStems, NamesAssumption DEF TypeOK, Disks, Contents, Legacy, Resolve
<1>2. ASSUME TypeOK, NEW kind \in Kinds, NEW old \in Stems, NEW new \in Names,
             NEW c \in Secrets, EditSecret(kind, old, new, c)
      PROVE  /\ (FileOf[new] = old => old = new) => Read(files', kind, new) = c
             /\ FileOf[new] # old => Read(files', kind, old) = Absent
  <2> DEFINE stored == Written(files, kind, new, c)
  <2>1. /\ stored \in Disks /\ stored[kind][FileOf[new]] = c
    BY <1>1, <1>2, WrittenFile
  <2>2. CASE old = new
    BY <1>1, <1>2, <2>1, <2>2 DEF EditSecret, Read, Resolve
  <2>3. CASE FileOf[new] # old
    <3>1. old # new
      BY <1>1, <1>2, <2>3
    <3>2. files' = Removed(stored, kind, old)
      BY <1>2, <3>1, Zenon DEF EditSecret
    <3>3. files'[kind][FileOf[new]] = c /\ files'[kind][old] = Absent
      BY <1>1, <1>2, <2>1, <2>3, <3>2, RemovedFile
    <3> QED
      BY <1>1, <1>2, <2>3, <3>3 DEF Read, Resolve
  <2> QED
    BY <2>2, <2>3
<1>3. ASSUME TypeOK, NEW kind \in Kinds, NEW old \in Stems, NEW new \in Names,
             EditName(kind, old, new), FileOf[new] # old
      PROVE  Read(files', kind, old) = Absent
  <2>1. files' = Renamed(files, kind, old, new)
    BY <1>1, <1>3 DEF EditName
  <2>2. files'[kind][old] = Absent
    BY <1>1, <1>3, <2>1, RenamedFile
  <2> QED
    BY <1>1, <1>3, <2>2 DEF Read
<1> QED
  BY <1>2, <1>3, Zenon DEF EditMoves

(* The names that lead to one file are all that EditKeepsSecret has to      *)
(* except (keystore.rs 537-568, main.rs 1719-1843).                         *)
THEOREM EditsMoveEntries == Spec => [][EditMoves]_files
  BY EditMovesStep, TypeCorrect, PTL DEF Spec

-----------------------------------------------------------------------------
(* The window over the store. *)
RestoresFiles ==
  \E entries \in SUBSET (Stems \X Kinds), c \in Contents : Restored(entries, c)

LEMMA WindowStep == [WindowNext]_allVars => [Next \/ RestoresFiles]_files
<1> SUFFICES ASSUME [WindowNext]_allVars
             PROVE  Next \/ RestoresFiles \/ UNCHANGED files
  OBVIOUS
<1>1. CASE Derive \/ Unlock \/ InitUnlock \/ Lock \/ Restart \/ Refresh \/ Rejected
  BY <1>1 DEF Derive, Unlock, InitUnlock, Lock, Restart, Refresh, Rejected
<1>2. ASSUME NEW entries \in SUBSET (Stems \X Kinds), NEW c \in Contents,
             Restore(entries, c)
      PROVE  RestoresFiles
  BY <1>2, Zenon DEF Restore, RestoresFiles
<1>3. ASSUME NEW matched \in SUBSET Stems, FilterChanged(matched)
      PROVE  UNCHANGED files
  BY <1>3 DEF FilterChanged
<1>4. CASE Succeeds
  BY <1>4, Zenon DEF Succeeds, Next
<1>5. CASE Breaks
  BY <1>5, Zenon DEF Breaks, Next
<1>6. ASSUME NEW n \in Names, NEW kind \in Kinds, NEW c \in Contents,
             CliStore(kind, n, c)
      PROVE  Next
  BY <1>6, Zenon DEF Next
<1>7. CASE UNCHANGED allVars
  BY <1>7 DEF allVars
<1> QED
  BY <1>1, <1>2, <1>3, <1>4, <1>5, <1>6, <1>7, Zenon DEF WindowNext

(* Whatever is listed, searched, locked or started again, the window's      *)
(* disk changes as the store's operations and restores change it.           *)
THEOREM WindowIsKeystore == WindowSpec => Init /\ [][Next \/ RestoresFiles]_files
  BY WindowStep, PTL DEF WindowSpec, WindowInit

LEMMA RestoredTyped ==
  ASSUME TypeOK, RestoresFiles
  PROVE  TypeOK'
  BY DEF TypeOK, RestoresFiles, Restored

(* What the store promises of an operation holds in the window as well,     *)
(* between restores, half-done edits and stores of other processes          *)
(* (main.rs 1622-1860).                                                     *)
THEOREM WindowKeepsPromises ==
  WindowSpec => /\ []TypeOK
                /\ StoredIsRead /\ RenameKeepsSecret /\ NewEntryTouchesNothing
                /\ EditTouchesItsNames /\ [][EditMoves]_files
<1>1. Init => TypeOK
  BY DEF Init, TypeOK, Contents
<1>2. TypeOK /\ [Next \/ RestoresFiles]_files => TypeOK'
  BY FilesTyped, RestoredTyped DEF TypeOK
<1>3. WindowSpec => []TypeOK
  BY <1>1, <1>2, WindowIsKeystore, PTL
<1>4. WindowSpec => [][Next \/ RestoresFiles]_files
  BY WindowIsKeystore, PTL
<1> QED
  BY <1>3, <1>4, StoreReads, RenameReads, NewEntryTouches, EditTouches,
     EditMovesStep, PTL
  DEF StoredIsRead, RenameKeepsSecret, NewEntryTouchesNothing, EditTouchesItsNames

-----------------------------------------------------------------------------
(* What a listing by refresh leaves: one list three times over.             *)
Listed == winEntries = appEntries /\ allEntries = appEntries

(* The completion of a derivation, the only step that shows entries which   *)
(* App.entries need not have.                                              *)
Completes == Unlock \/ InitUnlock

(* What lasts of it until then: nothing is shown or searched that           *)
(* App.entries, which any callback may copy, has not.                      *)
Covered ==
  /\ winEntries \subseteq appEntries /\ allEntries \subseteq appEntries
  /\ SearchFindsShown

(* A callback of the window leaves the search as App.entries is, whether    *)
(* its listing was made or not.                                            *)
LEMMA RefreshedCovers ==
  ASSUME Covered, Refreshed
  PROVE  Covered'
<1>1. CASE NotRefreshed
  BY <1>1 DEF NotRefreshed, Covered, SearchFindsShown
<1>2. CASE winEntries' = appEntries' /\ allEntries' = appEntries'
  BY <1>2 DEF Covered, SearchFindsShown
<1> QED
  BY <1>1, <1>2 DEF Refreshed

LEMMA CoveredStep ==
  ASSUME Covered, [WindowNext]_allVars, [~Completes]_allVars
  PROVE  Covered'
<1>1. CASE UNCHANGED allVars
  BY <1>1 DEF allVars, lists, Covered, SearchFindsShown
<1>2. CASE Derive
  BY <1>2 DEF Derive, lists, Covered, SearchFindsShown
<1>3. CASE Lock
  BY <1>3 DEF Lock, lists, Covered, SearchFindsShown
<1>4. CASE Restart
  BY <1>4 DEF Restart, Covered, SearchFindsShown
<1>5. CASE Refreshed
  BY <1>5, RefreshedCovers
<1>6. CASE Refresh \/ Rejected \/ NotRefreshed
  BY <1>6, RefreshedCovers DEF Refresh, Rejected, Refreshed
<1>7. ASSUME NEW entries \in SUBSET (Stems \X Kinds), NEW c \in Contents,
             Restore(entries, c)
      PROVE  Covered'
  <2>1. CASE UNCHANGED <<unlocked, lists>>
    BY <2>1 DEF lists, Covered, SearchFindsShown
  <2>2. CASE unlocked' = FALSE /\ allEntries' = {} /\ UNCHANGED <<winEntries, appEntries>>
    BY <2>2 DEF Covered, SearchFindsShown
  <2> QED
    BY <1>7, <2>1, <2>2 DEF Restore
<1>8. ASSUME NEW matched \in SUBSET Stems, FilterChanged(matched)
      PROVE  Covered'
  BY <1>8 DEF FilterChanged, Covered, SearchFindsShown
<1>9. CASE UNCHANGED <<unlocked, lists>>
  BY <1>9 DEF lists, Covered, SearchFindsShown
<1> QED
  BY <1>1, <1>2, <1>3, <1>4, <1>5, <1>6, <1>7, <1>8, <1>9, Zenon
  DEF WindowNext, Completes

(* The other side of the violated SearchFindsShown: once a listing by       *)
(* refresh was shown, and until the next derivation completes, all that is  *)
(* shown can be found, whatever is rejected, breaks off, cannot be listed,  *)
(* is typed, locked or restored, in this process or the next                *)
(* (main.rs 1201-1414, 1862-1874).  The search falls behind only from an    *)
(* unlock to the first refresh after it.                                    *)
THEOREM ListedIsFound ==
  WindowSpec => [](Listed /\ [][~Completes]_allVars => []SearchFindsShown)
<1>1. Listed => Covered
  BY DEF Listed, Covered, SearchFindsShown
<1>2. Covered /\ [WindowNext]_allVars /\ [~Completes]_allVars => Covered'
  BY CoveredStep
<1>3. Covered => SearchFindsShown
  BY DEF Covered
<1> QED
  BY <1>1, <1>2, <1>3, PTL DEF WindowSpec
=============================================================================
