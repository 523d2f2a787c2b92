------------------------------- MODULE Keystore -------------------------------
(***************************************************************************)
(* The entry files of src/src/keystore.rs and everyone who changes them:   *)
(* the window's store, edit and remove (src/src/main.rs) and the command   *)
(* line of another process.                                                *)
(*                                                                         *)
(* A name typed by the user reaches a file through its current encoding    *)
(* FileOf or, for passwords, through the older one LegacyOf.  A listed     *)
(* entry is called by its file's stem, which is a name in its own right.   *)
(***************************************************************************)
CONSTANTS Names,     \* what a user may type, the stems included
          FileOf,    \* sanitize_filename
          LegacyOf,  \* sanitize_filename_legacy
          Secrets,
          Absent, Torn  \* no such file; one that a failed write left behind

Stems == {FileOf[n] : n \in Names} \cup {LegacyOf[n] : n \in Names}

ASSUME NamesAssumption ==
  /\ DOMAIN FileOf = Names /\ DOMAIN LegacyOf = Names
  /\ \A s \in Stems : s \in Names /\ FileOf[s] = s /\ LegacyOf[s] = s
  /\ {Absent, Torn} \cap Secrets = {} /\ Absent # Torn

Kinds == {"key", "totp"}
Contents == Secrets \cup {Torn}

VARIABLE files  \* content of <stem>.key and <stem>.totp

(* Password files have an older name, TOTP files never had one. *)
Legacy(kind, n) == IF kind = "key" THEN LegacyOf[n] ELSE FileOf[n]

(* The path a name is found under: the current one if it exists. *)
Resolve(fs, kind, n) ==
  IF fs[kind][FileOf[n]] # Absent THEN FileOf[n] ELSE Legacy(kind, n)
Read(fs, kind, n) == fs[kind][Resolve(fs, kind, n)]

(* Mutant: only the current path is looked at. *)
HasCurrent(fs, kind, n) == fs[kind][FileOf[n]] # Absent
Has(fs, kind, n) == Read(fs, kind, n) # Absent

(* Mutant: the legacy file is removed last, even if it is the same file. *)
WrittenFirst(fs, kind, n, c) ==
  [fs EXCEPT ![kind][FileOf[n]] = c, ![kind][Legacy(kind, n)] = Absent]

(* The legacy file goes first, then the current one is written. *)
Written(fs, kind, n, c) ==
  [fs EXCEPT ![kind][Legacy(kind, n)] = Absent, ![kind][FileOf[n]] = c]

Removed(fs, kind, n) ==
  [fs EXCEPT ![kind][Resolve(fs, kind, n)] = Absent,
             ![kind][Legacy(kind, n)] = Absent]

(* Mutant: copy and delete in place of rename. *)
RenamedByCopy(fs, kind, old, new) ==
  Removed([fs EXCEPT ![kind][FileOf[new]] = Read(fs, kind, old)], kind, old)
(* Mutant: the new name is used as it was typed. *)
RenamedUnsanitized(fs, kind, old, new) ==
  LET from == Resolve(fs, kind, old) IN
  [fs EXCEPT ![kind] =
    [s \in Stems \cup {new} |->
      IF s = new THEN fs[kind][from]
      ELSE IF s \in {from, Legacy(kind, old), Legacy(kind, new)} THEN Absent
      ELSE fs[kind][s]]]

(* rename(2) onto the new path, then the legacy files of both names go. *)
Renamed(fs, kind, old, new) ==
  LET from == Resolve(fs, kind, old)
      to == FileOf[new] IN
  [fs EXCEPT ![kind] =
    [s \in Stems |->
      IF s = to THEN fs[kind][from]
      ELSE IF s \in {from, Legacy(kind, old), Legacy(kind, new)} THEN Absent
      ELSE fs[kind][s]]]

Init == files \in [Kinds -> [Stems -> {Absent} \cup Secrets]]

-----------------------------------------------------------------------------
(* The window's operations.  The old name comes from a list that another   *)
(* process may have made stale, so its file need not exist any more.       *)

(* A name in use is refused, under either encoding and as either kind. *)
Free(n) == \A kind \in Kinds : ~Has(files, kind, n)

StoreEntry(kind, n, c) ==
  /\ Free(n)
  /\ files' = Written(files, kind, n, c)

(* The write failed after it truncated the file; the legacy file is gone.  *)
StoreBreaks(kind, n) ==
  /\ Free(n)
  /\ files' = Written(files, kind, n, Torn)

(* Edit with the secret left empty. *)
EditName(kind, old, new) ==
  /\ old # new => Has(files, kind, old)
  /\ files' = IF old = new THEN files ELSE Renamed(files, kind, old, new)

(* Mutant: the old name is removed as the remove button does. *)
EditSecretRemovingAny(kind, old, new, c) ==
  LET stored == Written(files, kind, new, c)
      gone == IF Has(stored, "totp", old) THEN "totp" ELSE "key" IN
  files' = IF old = new THEN stored ELSE Removed(stored, gone, old)

(* Edit with a secret that reports success: stored under the new name,     *)
(* then removed under the old one.                                         *)
EditSecret(kind, old, new, c) ==
  LET stored == Written(files, kind, new, c) IN
  /\ old # new => Has(stored, kind, old)
  /\ files' = IF old = new THEN stored ELSE Removed(stored, kind, old)

(* Edit that reports an error although files changed: the new file is torn *)
(* or written, and removing the old one failed or there was none to remove *)
(* because storing had taken its file for a legacy one.                    *)
EditBreaks(kind, old, new, c) ==
  /\ c = Torn \/ old # new
  /\ files' = Written(files, kind, new, c)

(* The button knows the kind of its row, remove_password does not ask.     *)
RemoveEntry(n) ==
  LET kind == IF Has(files, "totp", n) THEN "totp" ELSE "key" IN
  /\ Has(files, kind, n)
  /\ files' = Removed(files, kind, n)

(* `store` and `store-totp` do not ask whether the name is in use. *)
CliStore(kind, n, c) == files' = Written(files, kind, n, c)

Next ==
  \/ \E n \in Names, kind \in Kinds :
       \/ \E c \in Secrets : StoreEntry(kind, n, c)
       \/ StoreBreaks(kind, n)
       \/ \E c \in Contents : CliStore(kind, n, c)
  \/ \E old \in Stems, new \in Names, kind \in Kinds :
       \/ EditName(kind, old, new)
       \/ \E c \in Secrets : EditSecret(kind, old, new, c)
       \/ \E c \in Contents : EditBreaks(kind, old, new, c)
  \/ \E n \in Stems : RemoveEntry(n)

Spec == Init /\ [][Next]_files

-----------------------------------------------------------------------------
(* Every component of the state stays within the values the code gives it. *)
TypeOK == files \in [Kinds -> [Stems -> {Absent} \cup Contents]]

(* What was stored under a name is what that name reads afterwards, even if *)
(* files under its older encoding were there and whatever else they belong  *)
(* to (keystore.rs 156-192, 371-389).                                       *)
StoredIsRead ==
  [][\A kind \in Kinds, n \in Names, c \in Secrets :
       StoreEntry(kind, n, c) \/ CliStore(kind, n, c)
         => Read(files', kind, n) = c]_files

(* A change of the name alone keeps the secret: the new name reads what the *)
(* old one did, also when both lead to the same file (248-286).             *)
RenameKeepsSecret ==
  [][\A kind \in Kinds, old \in Stems, new \in Names :
       EditName(kind, old, new)
         => Read(files', kind, new) = Read(files, kind, old)]_files

(* Storing a new entry through the window changes no file that exists: the  *)
(* check for the name covers all that storing would replace or remove       *)
(* (main.rs 1622-1717, keystore.rs 166-172).                                *)
NewEntryTouchesNothing ==
  [][\A kind \in Kinds, n \in Names, c \in Secrets :
       StoreEntry(kind, n, c) =>
         \A k \in Kinds, s \in Stems :
           files[k][s] # Absent => files'[k][s] = files[k][s]]_files

(* Editing an entry, whether it succeeds, fails or breaks off, changes no   *)
(* file but those its two names can stand for, and none of the other kind   *)
(* (main.rs 1719-1843).                                                     *)
EditTouchesItsNames ==
  [][\A kind \in Kinds, old \in Stems, new \in Names :
       \/ EditName(kind, old, new)
       \/ \E c \in Secrets : EditSecret(kind, old, new, c)
       \/ \E c \in Contents : EditBreaks(kind, old, new, c)
       => \A k \in Kinds, s \in Stems :
            files'[k][s] # files[k][s] =>
              k = kind /\ s \in {old, FileOf[new], LegacyOf[new]}]_files

(* "Different names never map to the same filename": an edit that gives an  *)
(* entry another name and another secret and reports success leaves that    *)
(* secret under the new name.                                               *)
EditKeepsSecret ==
  [][\A kind \in Kinds, old \in Stems, new \in Names, c \in Secrets :
       EditSecret(kind, old, new, c) => Read(files', kind, new) = c]_files
=============================================================================
