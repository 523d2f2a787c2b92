# Verification of CyberCuris

CyberCuris is a password manager for Linux desktops: entries encrypted under a
main key, a window (Slint) that unlocks them, a Wayland clipboard that hands a
password out exactly once, and a command line over the same store. This
directory holds TLA+ models of the parts of it that keep state, the TLC
configurations that check them, and TLAPS proofs of what matters most.

Paths below are relative to the repository's root (`src/` holds the program).

## 1. Inventory

| Part | Source | State | Operations | What makes it correct |
|---|---|---|---|---|
| Clipboard thread | `src/clipboard.rs` | data source, held ciphertext, done sender, flags `consumed`, `pending_destroy`, job channel, self-pipe | `hold`, `hold_and_wait`, drop of the handle, Wayland events Send and Cancelled, destruction pass | a secret is pasted at most once, in order, is gone afterwards, and nobody waits for a wake-up that never comes |
| GUI session | `src/main.rs` 67-114, 825-1526 | cached key, its age and timeout, clipboard handle, lock screen, derivation threads, SIGUSR1 pipe, timer | unlock, initialise, lock (button, signal, timer, restore), copy, store, settings, quit | a locked session has no key and no clipboard handle, and what it copied cannot be pasted for long; a lock holds; a session ends |
| Clipboard manager probe | `src/clipboard.rs` 135-236; `src/main.rs` 749-756, 834-838 | throwaway source, consumed flag, deadline | probe, once per command or window | who reads every selection never sees a secret; nothing stays behind |
| Entry store | `src/keystore.rs` 156-390, 537-568; `src/main.rs` 1622-1860 | files under `passwords/`, in a current and a legacy spelling | store, read, remove, rename, edit, list | an operation changes the entry it names and no other |
| Entry lists | `src/main.rs` 1201-1414, 1862-1892 | `App.entries`, `all_entries`, `MainWindow.entries` | unlock, refresh, search, restore, every operation of the store | what is shown can be searched |
| Single instance | `src/single_instance.rs`, `src/main.rs` 583-591, 1503-1526 | socket file, listener thread, shutdown flag, connections | activate, bind, replace a stale file, serve, drop of the guard | a second launch shows the first one's window; nobody waits for ever; an orderly exit cleans up |
| Main key file | `src/keystore.rs` 38-154, 494-519 | one file in an old or a new format, a temporary file | initialise, load, migrate | the key survives a crash and a migration |
| Backup, restore | `src/backup.rs` | a YAML file; all of the store | backup, restore | a backup is the store; a restore is the backup |
| Settings | `src/settings.rs`, `src/main.rs` 864-901 | timeout, two shortcut keys, on disk, in memory, in force | load, save | what is reported saved is in force and is loaded next time |
| Command line | `src/main.rs` 594-823 | none | init, store, show, clip, list, backup, restore | what it reports is what it did |
| MemoryGuard | `src/memory_guard.rs` | locked pages | new, drop | secrets are locked while they live and cleared after |
| TOTP | `src/totp.rs` | none | parse, validate, encode, decode, generate | what was typed is what codes are made from |
| Dates of backup names | `src/main.rs` 922-937, 1904-1917 | none | `civil_from_days` | names follow the calendar |
| Prompts, dialogs, layout | `src/main.rs`, `src/ui` | none | | |

How they interact. The window's event loop owns the session. An unlock runs on
a thread of its own, starts a clipboard thread and posts its result to the event
loop as a closure; a SIGUSR1 handler writes to a pipe whose reader posts a lock;
a timer of the event loop locks expired sessions. Copies go to the clipboard
thread through a channel, with a byte in a pipe to interrupt its `poll`; dropping
the handle stops it. The command line runs the same store and the same clipboard
thread in another process, so the store and the socket file are shared by
processes that know nothing of one another.

What is hard: two threads, a compositor and other clients around one selection;
flags read in one iteration of a loop and used in the next; completions that
arrive after what they complete has been overtaken; operations of several file
system calls that stop half way; two spellings of one name on one disk;
processes that die with a socket file behind them. `PROJECT.json` lists each such
hazard at its line with the properties that would show it.

## 2. Modules

| Module | Role |
|---|---|
| `Clipboard` | thread, handle, channel, pipe and compositor |
| `OneShot` | what the clipboard promises, without any of these; `Clipboard` implements it |
| `Probe` | the search for a clipboard manager, against a compositor and other clients |
| `Copying` | `Probe`, then `Clipboard`: what a window and a command do with the result |
| `ClipboardProofs`, `CopyingProofs`, `OneShotProofs` | theorems about the clipboard, about the clipboard behind the probe, about `OneShot` itself |
| `Session` | the unlocked session of the window |
| `SessionProofs` | theorems about it |
| `FileNames` | the two encodings of an entry name, on sequences of characters |
| `Keystore` | the files of the store and the operations on them, for any names and encodings |
| `EntryLists` | `Keystore` with the window's three lists around every operation |
| `KeystoreProofs` | theorems about the two |
| `MainKey` | the key file: two formats, in-place and atomic writes, several processes |
| `Backup` | `MainKey` with the other files of the directory: backup and restore among other commands |
| `BackupProofs` | theorems about the two, and that `Backup` implements `MainKey` |
| `SingleInstance` | the activation socket, for any number of processes |
| `SingleInstanceProofs` | theorems about it |
| `Totp`, `Settings`, `Pages`, `CivilDays` | four small parts, each on its own |
| `ValuesProofs` | theorems about all four and about `FileNames` |
| `MC...` | instances for TLC; `MCValues` puts the four small parts side by side |

**Clipboard.** `pc` follows `run_clipboard_loop` from one blocking or observable
point to the next: head of the loop (`Snapshot`), `dispatch_pending` one event at
a time, `try_recv` one job at a time (`RecvHold` is `set_selection`), destruction
pass (`Teardown`), `Flush`, and the three ways `poll` returns. `source`, `held`,
`doneTx`, `consumed`, `pendingDestroy` are the fields of `ClipboardState`,
`shouldDestroy` is the loop's local; `queue` and `pipe` are the channel and the
self-pipe. The owner is a window (`mode = "gui"`, any number of holds) or a
command (`"cli"`, one `hold_and_wait`). A secret is named by the number of the
call that copied it and its data source carries that number. The compositor is
external: it takes requests in order from one socket and puts events in another,
so a request on its way and an event on its way cross, and it may vanish. The
thread may die at every `?` and the process at any step. `wl` events of a source
the client has destroyed are not dispatched, as in libwayland.

**Probe, Copying.** The probe has a connection of its own: `psock` holds its events and
its requests, `unread` what `prepare_read` has taken off the socket and
`dispatch_pending` has not seen. An `eager` manager is one that reads a new selection
before the deadline of `PROBE_TIMEOUT_MS` (10 ms); another client may copy, and the
user may paste, while the probe runs. `DeadlinePasses` is the clock. With
`Preempted = FALSE` it does not pass between an event's arrival and the look at it;
with `TRUE` it does, see section 4. `Copying` lets the thread start only where
`cli_clip` and `run_gui` do: a command stops at a manager and at an error, a window
refuses each copy (`clipboard_blocked`) and runs its thread all the same.

**Session.** A main key is the number of the write that put it on disk, an entry is
known by the key it is encrypted under, so "readable" is an equation. A derivation is a
worker with a stage; its completion and the watcher's lock are closures in `evq`, run in
order. `overtaken` is history: the requests made before the last lock. Of the clipboard
there is what tells a lock apart from its effect: dropping the handle (`DropHandle`) only
queues a shutdown behind the secrets sent, and the thread, now `"closing"`, publishes
those and withdraws at a time of its own. `age` is the time since the key was loaded
and `sinceTick` the time since the expiry timer was last served: the key may be loaded at
any point of the timer's period (`TimerPeriod`), and the timer may be served up to
`MaxDelay` late, by an event loop that is busy or shows a file dialog.

**Keystore.** `FileOf` and `LegacyOf` are parameters: any two encodings such that a
listed stem, typed back, leads to its own file. The instance takes them from
`FileNames`, the translation of `sanitize_filename` and `sanitize_filename_legacy`,
on the names of the comment there (`a/b`, `a_b`) and the one that `a/b` is encoded
to (`a_2f_b`); that they are such encodings is a theorem (`StemsStay`), and an
assumption of `MCKeystore` has TLC see it on every name of up to four characters. A torn write is a third content of a file.
The initial states are all disks, legacy files included, so the action
properties are checked from every state of the store.

**EntryLists** wraps the operations of `Keystore` in the callbacks of `run_gui`:
those that succeed end in `refresh`, those that do not still copy `App.entries`
over `all_entries`, and so do those whose `refresh` fails at listing. Unlocking fills what
is shown and searched but not `App.entries`, with a listing made by the derivation however
long before (`derived`), or with nothing if that failed; the completion of a first key,
which may be the second one of its kind, touches no list whatever is stored; a restore
locks and empties the search.

**MainKey.** A file is a name for an inode, since the temporary file is renamed over
the key file while another process may have either open. A write is two steps, open
with truncation and fill, with any other process between them; contents are a format
and a key, or `Torn` for anything of no format's length. `created`, `overlapped` and
`spoiled` are history variables that name the exceptions of the properties: a
key being initialised or restored in place, two migrations at once, a write that
broke off.

**Backup.** Extends `MainKey` with the entries and `settings.conf`, and with a job per
process: `backup_to_string` reads the key, then lists and reads the passwords, then
the codes; `restore_from_str` does its checks, the key, the entries in the order of
the code and the settings. Every file operation is a step, other processes store,
remove, initialise and migrate between any two, and a job may stop at each.
A backup by a command records the settings as they load, one by the window, which is
the process that holds the key, those it has in memory. What is
promised of a job is promised of one that nobody `disturbed`: the program has no lock
between processes that would promise more.

**Totp, Settings, Pages, CivilDays.** `Totp` follows one secret from the text typed
through `resolve_secret`, `encode_entry` and `decode_entry` to the bytes codes are made
from; base32 is computed as the code does, with an accumulator of bounded width, and
compared with RFC 4648 stated on bits. `Settings` holds the three places a setting
lives in, with writes that break off and seconds that wrap. `Pages` places guards
anywhere in a small memory and lets the kernel mark whole pages without counting.
`CivilDays` lets a clock run and compares each name with the one a second, or a day,
before.

**SingleInstance.** `main[p]` and `listener[p]` are the two threads of process `p`;
`path` says whose socket file is at the path. `bind` creates the file and `listen`
makes it connectable in two steps, as the system calls do. A kill closes the
sockets and leaves the file. The wait for the event loop before a "show" is
queued only delays `Serve` and is part of it.

## 3. What the runs check

| Run | Bounds | Result |
|---|---|---|
| `clipboard` | 3 copies, 2 reads, a probe before them, fair | passes: types, paste once, no lost wake-up, no spent secret at rest, offer matches what is held, done signals exact, `OneShot` implemented, no secret for an eager manager, no throwaway left; copies are served, pasted secrets withdrawn, a lock withdraws for good, the probe ends |
| `clipboard_unread` | 2 copies, 1 read | `UnreadIsKept` violated |
| `session` | 1 entry, 2 workers, 1 key, 2 signals, timeouts 1 and 3, timer period 2, delay 1, other processes, fair | passes: types, a lock closes the session, age of a key bounded, signals lock, a locked session's clipboard goes quiet, sessions end |
| `session_lock` | 1 entry, 1 worker, 2 keys, 2 signals | `LockHolds` violated |
| `session_restore` | as `session_lock` | `StoresAreReadable` violated |
| `keystore_safety` | 3 names, 2 kinds, all disks | passes: stored is read, rename keeps, new entries and edits keep to their names |
| `keystore_edit` | as above | `EditKeepsSecret` violated |
| `entries_search` | as above | `SearchFindsShown` violated |
| `disk` | 2 processes, 2 keys, 3 inodes, 1 password, 1 code, 2 settings, 3 operations | passes: types, migrations atomic, a key at rest loads, restores complete, backups exact |
| `values` | below | passes: base32 canonical, entries keep their code, a URI is never a key, saved settings are kept, guarded pages stay locked and out of dumps, the calendar turns |
| `instance` | 3 processes, fair | passes: no file left by an orderly exit, nobody forgotten, every wait ends |
| `instance_shown` | 2 processes | `ActivatedIsShown` violated |

Why the bounds are enough. Clipboard: three copies make a secret that replaces
and is replaced, two reads make a second reader race the first; of the probe's other clients each
acts once, which is all its flag can notice. Session: two
workers make two completions of which one is overtaken, two signals one that comes before
the watcher has read the other; a timer period of two units lets a key be loaded between
two ticks, a delay of one lets a tick come late, and of the two timeouts, changed in each
direction, one is shorter than the period and one longer. Which main key it is matters to
`StoresAreReadable` only, whose run has two keys. Keystore: the
three names are the smallest set in which one name's encoding is another name,
and one name's legacy file another's current one; contents beyond two secrets
are not told apart. SingleInstance: two processes race for the file, the third
comes as a client or as the third to bind. Disk: two processes make every
overlap of two operations, the third operation is what finds the result; three
inodes are the key file, the temporary one and one that is open under no name;
the backup there at first is of another store, in the old format and without the
code, so that a restore both changes and leaves files. Values: every day of the
400 years after which the calendar repeats and every second of one day; texts of
every length class and ending of base32, the encodings of all short secrets over
two bytes, and paddings, spaces and foreign characters; minutes whose seconds fit,
wrap to nothing and wrap to little; three guards on three pages. `MaxHolds`, `MaxReads`, `MaxKeys`,
`MaxSignals`, `Workers`, `MaxJobs` and `MaxGuards` bound the counters in the guards, and
`MaxDelay` how late the timer is served, without which nothing bounds a key's age.
`disk` uses the symmetry of processes and of inodes; it checks no liveness. Deadlock is not
checked: each of these systems may come to rest (the process has ended, the
user does nothing more).

Fairness. The clipboard thread, the code of a handle's call after its first step,
and the compositor are scheduled (weak fairness); nobody has to copy, paste or
lock. Before it the probe, its deadline and the compositor's answers to it are scheduled,
and an eager manager reads: that is what eager means. In the session the watcher thread,
the event loop's queue and timer and the clipboard threads are scheduled; neither the user
nor a derivation's disk is. `UnlockedEnds` says "while time goes on", since a suspended machine's clock stands still. Of an instance the
two threads are scheduled, each by itself.

Every property of a passing run has a mutant: an operator next to the definition
it alters, marked `Mutant:`, with which the property fails.

## 4. Where the code disagrees with its documents

1. `clipboard.rs` 297: a secret copied in the iteration that destroys the previous
   one is destroyed unread (`clipboard_unread`).
2. `main.rs` 1075: an unlock in flight undoes a lock (`session_lock`).
3. `main.rs` 1016: a restore that fails behind the key leaves a session that stores
   what nothing can read; the same happens when another process replaces the key,
   or when initialisation is requested twice (`session_restore`).
4. `keystore.rs` 549: distinct names share a file, and an edit between two such
   names loses the entry (`keystore_edit`).
5. `main.rs` 1241: an operation that is rejected, or whose listing fails, empties the
   search (`entries_search`).
6. `single_instance.rs` 33: the end of the stream counts as an acknowledgement
   (`instance_shown`).

Two more are in the models as exceptions of what passes, without a run of their own:

7. `clipboard.rs` 186: a probe descheduled over the deadline while the manager's read waits
   in the socket leaves its loop without a last dispatch and gives a clean result, of which
   `clipboard.rs` 150 says "no manager consumed the probe". `clipboard` excludes it; with
   `Preempted = TRUE` TLC shows `NoSecretForManagers` violated.
8. `memory_guard.rs` 115: `munlock` unlocks a page for every guard on it, so what another
   guard keeps there may be swapped from then on, against "prevent memory been swap to
   disk" of the program's README, line 40. `AloneStaysLocked` excepts such pages, which
   `parted` names.

## 5. What is proved

The theorems hold for every value of the constants that satisfies the named
assumption of the module.

- `ClipboardProofs` (from `BoundsAssumption`): `TypeCorrect`, `SpentSecretsGo`,
  `JobsWakeTheThread`, `SecretsPastedOnce`. `TypeOK` is inductive. Paste-once is not:
  the strengthening says that queued holds are numbered in increasing order
  above every hold published so far, that holds not yet published have no
  copies, and that a held secret that is not consumed has none. The wake-up
  invariant follows the byte: where the thread may come to block with a job in
  the channel, a byte is in the pipe or its sender has not reached the write.
  `WaitersAreTold`, `OffersMatchHeld`, `ClipboardIsOneShot`: `DoneExact` is about a
  command, which copies once; it needs that the thread's done sender is the held
  secret's and, from the order of the queue, that a number is not queued twice.
  `OfferMatchesHeld` is about two empty buffers; the strengthening looks into them: as
  long as the connection is up, every selection but the secret held, made or still on
  its way, has a request behind it that takes it away. The refinement maps a secret's
  phase to where its number is: not handed out, queued, held, consumed or gone; each
  step of the thread moves at most one number on, except the end of the thread, which
  is `OneShot`'s `Close`. `UnreadSecretsStay` is the other side of `clipboard_unread`: if no
  secret is taken from the channel in an iteration that ends in a destruction
  pass, what is about to be destroyed was read (`UnreadInv`), and nothing else loses a
  secret unread.
- `CopyingProofs` (from that and `PreemptedAssumption`): `CopyingIsClipboard`, every step of
  the probe and the thread together is a step of `Clipboard` or leaves the thread alone,
  so that `CopiesKeepPromises` follows without another induction. `ThrowawaysGo` needs
  `Withdrawn`, what is left of the probe's requests at each of its steps: once it has
  returned, the withdrawal is in the socket or has been served. `ManagersSeeNothing`
  holds if the probe is not descheduled over its deadline (`~Preempted`; section 4
  says what happens if it is). `NoticedInv` says of an eager manager that, while the
  throwaway is up, its read is still to come, in the socket, taken off it, or seen; so
  the probe cannot return a clean result, and `ManagerInv` that a process whose probe did not has
  never queued a copy, or has no connection to offer one on.
- `OneShotProofs` (from nothing): `OneShotPromise`, at most one live secret and at
  most one copy of each; the strengthening ties the number of copies to the phase.
- `KeystoreProofs` (from `NamesAssumption`): `TypeCorrect` and the four action
  properties of `keystore_safety` for all names and encodings. They need no
  invariant but the type: four lemmas say what a write, a removal and a rename
  make of each file. `EditsMoveEntries` is the other side of the run `keystore_edit`:
  unless the new name is stored in the old entry's own file, an edit that reports
  success leaves the new secret under the new name and nothing under the old one, so
  that the collision of names is all that is wrong with an edit. `WindowIsKeystore`: the
  window of `EntryLists` changes the disk by operations of the store and by restores only,
  and `WindowKeepsPromises`, all of the above holds between them as well.
  `ListedIsFound` is the other side of `entries_search`: from a listing by `refresh` on, and
  until the next derivation completes, all that is shown can be found, whatever is rejected,
  breaks off, cannot be listed, is typed, locked or restored. The invariant is that nothing is
  shown or searched which `App.entries` has not (`Covered`): any callback may copy it. The
  search can only fall behind between an unlock and the first refresh after it.
- `SessionProofs` (from `SessionAssumption`): `TypeCorrect`, `LocksClose`, `KeysAge`.
  `LockClosesSession` is not inductive: a completion must bring a key, which needs
  that every queued completion belongs to a worker still waiting for it, that no
  worker has two in the queue, and that a derivation that has loaded has a key; and
  what is said of keys outside the session needs the converse, that a worker that has
  posted is in the queue. `KeyAgeBounded` says less than that a key goes at its timeout, since
  the code promises less: the check runs every 30 s from the window's start, not from the
  moment of the load. `AgeInv` is what holds between two ticks: a key is younger than the
  longest timeout and the time since the last tick together, because that tick dropped it,
  found it valid or came before it.
  `StoresReadableAtRest` is the other side of `session_restore`: it assumes of the steps
  that the key on disk is only replaced where the session gives up its own
  in the same step and no derivation has loaded the old one. `KeyInForce` then keeps the
  cached key, and every key on its way to a completion, equal to the one on disk. A restore
  that ends with no derivation in flight meets the assumption, and so does a first key; the
  three cases of section 4 do not.
- `SingleInstanceProofs` (from `NoFileAssumption`): `TypeCorrect`, `OrderlyExits`,
  `ClientsAreKept`. An orderly exit needs that a guard is only dropped behind an ended
  listener, so that nobody binds for a process that is done. `NobodyForgotten` speaks
  of a sequence made of two; the proof is on its set form, kept by each move of a
  connection from the backlog to the one being served to the answered.
- `BackupProofs`, about the key file alone (from `MainKeyAssumption`): `KeyTypeCorrect`,
  `RestedKeysLoad`, `MigrationsAreAtomic`. `RestIsLoadable` needs `TornInv`: a torn file
  under either name is open somewhere, or something was spoiled. `MigrationIsAtomic` needs
  `TmpInv`: while nobody created a key and no two migrations overlapped, whoever
  is about to rename has a complete temporary file with the key of the main one, and
  the two names lead to different inodes. About the whole directory (from that and
  `BackupAssumption`): `TypeCorrect`; `ImplementsMainKey`, every
  step on the whole directory is a step of the key file or leaves it alone, from which
  `MigrationsStayAtomic` and `KeysStayLoadable` follow without another induction;
  `RestoresAreComplete` and `BackupsAreExact`. The last two say, job by job, how far it has
  come: which part of the text is on the disk already, or of the disk in the text. The
  argument that others do not break it is one lemma, `OthersKeep`: a step of another
  process changes neither the job nor, unless it marks the job as disturbed, a file.
- `ValuesProofs`. Pages (from `PagesAssumption`): `BuffersStayLocked`, `BuffersStayOutOfDumps`,
  `PagesAreUnlocked`, for any page size. What they rest on is arithmetic: the range that
  `MemoryGuard::new` rounds to pages covers the page of every byte of the buffer
  (`RangeCoversBuffer`); the invariant adds that all that is locked lies in the range of a live
  buffer. Settings (from `SettingsAssumption`): `SavedSettingsAreKept`, for any width
  of the integers; `SavedInv` ties what was reported to the file and the timeout in force to
  both, unless the seconds wrapped to zero. Dates (from `DaysAssumption`): `NamesFollowTheCalendar`,
  for every day from 1970 without end, where the run goes through 400 years. A day is
  the place (era, year, day) it has in years that begin in March; `YearOfEraFacts` is what the
  divisions by 1460, 36524 and 146096 amount to, `OnePlace` that a day has one place, and
  `DatesFollow` compares the places of two days in a row with the calendar's rules, inside
  a year, at its last day and at the last day of an era.
  Secrets (from `TotpAssumption`): `DecodeInverts`, for texts of any length, and from it
  `DecodingIsCanonical`, `CodesAreKept` and `UrisAreParsed`. The two loops over characters are
  recursive functions; that they exist, and what they end with, is an induction, which
  comes from `LeastElement`: a set of numbers has a least one, and a set stands for the predicate
  the provers could not take. The loop's invariant is `Scanned`: bit for bit the
  bytes hold the beginning of the text and the accumulator the rest. `TakenBits`,
  `ByteBits` and `TrailingZeros` are the shift, the cast and the final mask; `GoodLengths`, that the
  three refused lengths are exactly those no number of bytes takes. `PayloadReads`, that
  `decode_entry` undoes `encode_entry`, carries the secret through the entry. File names (from
  `FileNamesAssumption`, no hexadecimal digit is an underscore and no two characters have one code):
  `StemsStay`, what `NamesAssumption` asks of the encodings, and `PlainNamesAreDistinct`: the
  comment at `sanitize_filename`, "different names never map to the same filename", is true of
  names of any length without an underscore. Both are inductions over the name; the second reads
  the file name from its start, where no encoding is the beginning of another (`OneCharacter`).

Only model-checked: liveness (fairness and ENABLED are out of the prover's reach),
which is `HoldServed`, `PastedIsWithdrawn`, `LockWithdraws`, `ProbeEnds`, `SignalLocks`,
`LockedGoesQuiet`, `UnlockedEnds` and `EveryWaitEnds`. The violated properties have counterexamples (of
`UnreadIsKept`, `StoresAreReadable`, `EditKeepsSecret` and `SearchFindsShown` a theorem says
where they hold).

## 6. Plan

Written in this order: `Clipboard` and `OneShot`, `Session`, `Keystore` and `EntryLists`,
`SingleInstance`; then `MainKey` and `Backup`, `Probe` and `Copying`, the four small
parts; then the proofs about each. What is left, by what it would add:

1. A restore and the session on one disk: `Session` sees a restore as one step that may
   stop behind the key, `Backup` has its steps but no session that listens to them.
2. The refusals of the command line as one module: `cli_clip` and `cli_store` are steps of
   `Copying` and `Keystore`, their prompts and exit codes of none.

## 7. What is not modelled, and why

Cryptography is an equation between key numbers, and the HMAC of a code is left to its
library. That bytes are zeroed is a property of the compiler's output. The Slint
markup, the terminal prompts and the file dialogs keep no state beyond what
`Session` and `EntryLists` take from them. Entry names are taken as given: their
characters matter only in `FileNames`. The query string of an otpauth URI is a record,
and so are the YAML and base64 texts of a backup. `cli_list` changes nothing. The flag
that a signal sets while a command asks for the password drops no key, since there
is none yet.

Section 4 lists where the code and a line of the repository part. Some more of what the
code does is in the models and no run claims it to be wrong, since no line that we found
speaks of it. A reader of the code should know it:

- The probe's last `set_selection(None)` also wipes a selection another client has
  made meanwhile (`clipboard.rs` 215-219).
- Two processes that migrate at once share `main.key.tmp`: the second rename may fail
  although the key is migrated (`keystore.rs` 508-519).
- `minutes * 60` wraps around in a release build (`main.rs` 885): `SavedIsKept` excepts it.
- An otpauth URI in mixed case is recognised and then refused (`totp.rs` 239).
- A backup taken while an entry is stored can record a half-written entry
  (`backup.rs` 86-108).
- Settings restored from a backup, or cut short, may give the two shortcuts one
  key (`settings.rs` 28-59); only saving checks it.
- A rename or an edit onto a name in use replaces that entry without a question
  (`keystore.rs` 257).
- `cli_clip` prints that it copied even if the clipboard thread failed
  (`main.rs` 757-795): `hold_and_wait` does not tell the cases apart.

## Running

    tlc -workers 2 -config clipboard.cfg MCCopying
    tlapm ClipboardProofs.tla
