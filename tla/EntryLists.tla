------------------------------ MODULE EntryLists ------------------------------
(***************************************************************************)
(* The window over the keystore: the three lists of entries that run_gui   *)
(* keeps (src/src/main.rs) and what each operation of Keystore does to     *)
(* them.  Every callback that changes entries ends by copying App.entries  *)
(* into all_entries, whether refresh() ran or not.                         *)
(***************************************************************************)
EXTENDS Keystore

VARIABLES
  unlocked,    \* the window shows its entries
  needsInit,   \* MainWindow.needs_init
  inits,       \* first keys were asked for: needsInit was set at the start
  derived,     \* listings made by derivations that have yet to unlock
  winEntries,  \* MainWindow.entries: what is shown
  allEntries,  \* all_entries: what the search looks through
  appEntries   \* App.entries: the last listing made by refresh

lists == <<winEntries, allEntries, appEntries>>
derivations == <<needsInit, inits, derived>>
allVars == <<files, unlocked, lists, derivations>>

Listing(fs) == {e \in Stems \X Kinds : fs[e[2]][e[1]] # Absent}

WindowInit ==
  /\ Init /\ unlocked = FALSE
  /\ winEntries = {} /\ allEntries = {} /\ appEntries = {}
  /\ needsInit \in BOOLEAN /\ inits = needsInit /\ derived = {}

NotRefreshed == allEntries' = appEntries /\ UNCHANGED <<winEntries, appEntries>>

(* refresh() and the copy after it; its directory may fail to be read.     *)
Refreshed ==
  \/ /\ appEntries' = Listing(files')
     /\ winEntries' = Listing(files') /\ allEntries' = Listing(files')
  \/ NotRefreshed

(* A derivation, asked for at the lock screen however long ago, lists the  *)
(* entries off the event loop, or none if that fails.                      *)
Derive ==
  /\ ~needsInit
  /\ \E listing \in {Listing(files), {}} : derived' = derived \cup {listing}
  /\ UNCHANGED <<files, unlocked, lists, needsInit, inits>>

(* Its completion shows them, over whatever is shown by then; App.entries  *)
(* is not set.                                                             *)
Unlock ==
  /\ unlocked' = TRUE
  /\ \E listing \in derived :
       /\ winEntries' = listing /\ allEntries' = listing
       /\ derived' = derived \ {listing}
  /\ UNCHANGED <<files, appEntries, needsInit, inits>>

(* Every way of locking leaves the lists behind the lock screen. *)
Lock ==
  /\ unlocked /\ unlocked' = FALSE
  /\ UNCHANGED <<files, lists, derivations>>

(* The process ends, at any point, and another one starts.  What had no    *)
(* main key may have one by now.                                           *)
Restart ==
  /\ unlocked' = FALSE
  /\ winEntries' = {} /\ allEntries' = {} /\ appEntries' = {}
  /\ needsInit' \in {needsInit, FALSE} /\ inits' = needsInit' /\ derived' = {}
  /\ UNCHANGED files

Refresh ==
  unlocked /\ UNCHANGED <<files, unlocked, derivations>> /\ Refreshed

(* The text typed matches some names; the empty text, which showing the     *)
(* window from the tray or by a second launch puts there, all of them.     *)
FilterChanged(matched) ==
  /\ winEntries' = {e \in allEntries : e[1] \in matched}
  /\ UNCHANGED <<files, unlocked, allEntries, appEntries, derivations>>

(* Nothing was written: the name is empty or taken, the parameters or the  *)
(* secret are invalid, the key expired, the file to change is not there or *)
(* a system call failed before it did anything.                            *)
Rejected ==
  unlocked /\ NotRefreshed /\ UNCHANGED <<files, unlocked, derivations>>

(* A main key was created, and perhaps not by the first press of the        *)
(* button; the lists are not touched, whatever is stored.                  *)
InitUnlock ==
  /\ inits
  /\ unlocked' = TRUE /\ needsInit' = FALSE
  /\ UNCHANGED <<files, lists, inits, derived>>

(* restore_from_str writes entries under the names they are listed by.      *)
Restored(entries, c) ==
  files' = [kind \in Kinds |-> [s \in Stems |-> IF <<s, kind>> \in entries THEN c ELSE files[kind][s]]]

(* Complete, it locks and empties the list of the search; broken off, it    *)
(* leaves all lists as they were.                                          *)
Restore(entries, c) ==
  /\ unlocked /\ Restored(entries, c) /\ UNCHANGED derivations
  /\ \/ c # Torn /\ unlocked' = FALSE /\ allEntries' = {} /\ UNCHANGED <<winEntries, appEntries>>
     \/ UNCHANGED <<unlocked, lists>>

Shown(kind, old) == <<old, kind>> \in winEntries

Succeeds ==
  \/ \E n \in Names, kind \in Kinds, c \in Secrets : StoreEntry(kind, n, c)
  \/ \E old \in Stems, new \in Names, kind \in Kinds :
       /\ Shown(kind, old)
       /\ \/ EditName(kind, old, new)
          \/ \E c \in Secrets : EditSecret(kind, old, new, c)
  \/ \E n \in Stems : (\E kind \in Kinds : Shown(kind, n)) /\ RemoveEntry(n)

Breaks ==
  \/ \E n \in Names, kind \in Kinds : StoreBreaks(kind, n)
  \/ \E old \in Stems, new \in Names, kind \in Kinds, c \in Contents :
       Shown(kind, old) /\ EditBreaks(kind, old, new, c)

WindowNext ==
  \/ Derive \/ Unlock \/ InitUnlock \/ Lock \/ Restart \/ Refresh \/ Rejected
  \/ \E entries \in SUBSET (Stems \X Kinds), c \in Contents : Restore(entries, c)
  \/ \E matched \in SUBSET Stems : FilterChanged(matched)
  \/ unlocked /\ Succeeds /\ Refreshed /\ UNCHANGED <<unlocked, derivations>>
  \/ unlocked /\ Breaks /\ NotRefreshed /\ UNCHANGED <<unlocked, derivations>>
  \/ /\ \E n \in Names, kind \in Kinds, c \in Contents : CliStore(kind, n, c)
     /\ UNCHANGED <<unlocked, lists, derivations>>

WindowSpec == WindowInit /\ [][WindowNext]_allVars

-----------------------------------------------------------------------------
(* "Type to search": whatever the unlocked window shows, the search can     *)
(* find.                                                                    *)
SearchFindsShown == unlocked => winEntries \subseteq allEntries
=============================================================================
