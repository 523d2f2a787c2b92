------------------------------- MODULE Session -------------------------------
(***************************************************************************)
(* The unlocked session of the window application (run_gui in              *)
(* src/src/main.rs): the cached main key and its timeout, the clipboard    *)
(* handle that lives and dies with it, the workers that derive keys off    *)
(* the event loop, SIGUSR1 and its watcher thread, the periodic expiry     *)
(* check, and the operations that need the key or replace it on disk.      *)
(*                                                                         *)
(* A main key is the number of the write that put it on disk; an entry     *)
(* file is known by the key it was encrypted under.  Of the clipboard      *)
(* (module Clipboard has its steps) there is here whether a thread has     *)
(* secrets in its channel and whose thread owns the selection: the thread  *)
(* of the open handle, or one whose handle was dropped and that has yet to *)
(* see it.  The expiry timer runs free of the moment a key is loaded.      *)
(***************************************************************************)
EXTENDS Integers, Sequences

CONSTANTS
  Entries,         \* entry names
  Totps,           \* those that hold a TOTP secret
  Workers,         \* bound: derivations in flight at once
  Timeouts,        \* timeouts a user may configure, in units of time
  TimerPeriod,     \* period of the expiry check (30 s), in units of time
  MaxDelay,        \* bound: how late the event loop serves it
  MaxKeys,         \* bound: main keys ever created
  MaxSignals,      \* bound: SIGUSR1 deliveries
  OtherProcesses   \* whether commands of other processes replace the key

ASSUME SessionAssumption ==
  /\ Totps \subseteq Entries
  /\ Timeouts \subseteq Nat \ {0}
  /\ \E longest \in Timeouts : \A t \in Timeouts : t <= longest
  /\ TimerPeriod \in Nat \ {0} /\ MaxDelay \in Nat
  /\ MaxKeys \in Nat /\ MaxSignals \in Nat
  /\ OtherProcesses \in BOOLEAN

NoKey == 0
Threads == {"open", "closing"}
Keys == 1..MaxKeys
LongestTimeout == CHOOSE t \in Timeouts : \A u \in Timeouts : u <= t

VARIABLES
  diskKey, enc,             \* main key file; key each entry file is under
  cachedKey, age, timeout,  \* CachedKey; age is the time since loaded_at
  clip,                     \* key of the clipboard handle
  sent, selection,          \* threads with secrets to publish; whose is published
  locked, needsInit,        \* window properties
  blocked,                  \* clipboard_blocked
  worker,                   \* the derivation threads
  evq,                      \* closures queued for the event loop
  pipe, signals,            \* bytes in the self-pipe; signals so far
  sinceTick,                \* time since the periodic timer was served
  running,                  \* the event loop
  overtaken                 \* history: unlock requests made before the last lock

disk == <<diskKey, enc>>
session == <<cachedKey, age, clip, locked>>
clipboard == <<sent, selection>>
events == <<worker, evq, pipe, signals>>
vars == <<disk, session, clipboard, timeout, needsInit, blocked, events,
          sinceTick, running, overtaken>>

Idle == [stage |-> "idle", kind |-> "unlock", key |-> NoKey]
InFlight == {w \in Workers : worker[w].stage # "idle"}

(* is_valid / is_expired. *)
Valid == cachedKey # NoKey /\ age < timeout
(* Mutant: the comparison is strict. *)
ExpiredStrictly == cachedKey # NoKey /\ age > timeout
Expired == cachedKey # NoKey /\ age >= timeout

Init ==
  /\ diskKey \in {NoKey, 1} \cap (Keys \cup {NoKey})
  /\ enc = [e \in Entries |-> NoKey]
  /\ cachedKey = NoKey /\ age = 0 /\ timeout \in Timeouts
  /\ clip = NoKey /\ sent = {} /\ selection = "none"
  /\ locked = TRUE /\ needsInit = (diskKey = NoKey)
  /\ blocked \in BOOLEAN
  /\ worker = [w \in Workers |-> Idle]
  /\ evq = <<>> /\ pipe = 0 /\ signals = 0
  /\ sinceTick = 0 /\ running = TRUE /\ overtaken = {}

(* Mutant: the thread is not woken, and its poll has no timeout. *)
DropHandleSilently == UNCHANGED clipboard

(* Drop of a ClipboardHandle queues Shutdown behind the secrets sent; the  *)
(* thread publishes those, withdraws and ends when it gets there.          *)
DropHandle ==
  /\ sent' = {"closing" : t \in sent}
  /\ selection' = IF selection = "open" THEN "closing" ELSE selection

(* Mutant: the handle outlives the key.                                    *)
LockSessionKeepingHandle ==
  /\ cachedKey' = NoKey /\ age' = 0
  /\ UNCHANGED <<clip, clipboard>>
  /\ locked' = TRUE
  /\ overtaken' = InFlight

(* What every way of locking does: drop_key, drop the handle, set_locked.  *)
LockSession ==
  /\ cachedKey' = NoKey /\ age' = 0
  /\ clip' = NoKey /\ DropHandle
  /\ locked' = TRUE
  /\ overtaken' = InFlight

-----------------------------------------------------------------------------
(* Requests from the lock screen, derived on a worker thread. *)

Start(w, kind) ==
  /\ running /\ locked /\ worker[w].stage = "idle"
  /\ needsInit = (kind = "init")
  /\ worker' = [worker EXCEPT ![w] = [Idle EXCEPT !.stage = "start", !.kind = kind]]
  /\ UNCHANGED <<disk, session, clipboard, timeout, needsInit, blocked, evq,
                 pipe, signals, sinceTick, running, overtaken>>

UnlockPassword(w) == Start(w, "unlock")
SetInitPassword(w) == Start(w, "init")

Created == {diskKey, cachedKey} \cup {enc[e] : e \in Entries}
             \cup {worker[w].key : w \in Workers}
(* A key nobody has seen: the generator draws 4096 random bytes. *)
FreshKey(k) == k \in Keys /\ k \notin Created

(* init_main_key: it does not look whether a key exists by now. *)
WorkerInit(w) ==
  /\ worker[w].stage = "start" /\ worker[w].kind = "init"
  /\ \E k \in Keys : FreshKey(k) /\ diskKey' = k
  /\ worker' = [worker EXCEPT ![w].stage = "initialized"]
  /\ UNCHANGED <<enc, session, clipboard, timeout, needsInit, blocked, evq, pipe,
                 signals, sinceTick, running, overtaken>>

(* load_main_key with the right password, clipboard thread, entry list. *)
WorkerLoad(w) ==
  /\ \/ worker[w].stage = "start" /\ worker[w].kind = "unlock"
     \/ worker[w].stage = "initialized"
  /\ diskKey # NoKey
  /\ worker' = [worker EXCEPT ![w].stage = "loaded", ![w].key = diskKey]
  /\ UNCHANGED <<disk, session, clipboard, timeout, needsInit, blocked, evq,
                 pipe, signals, sinceTick, running, overtaken>>

(* Wrong password or I/O error: only the status line changes. *)
WorkerFail(w) ==
  /\ worker[w].stage \in {"start", "initialized"}
  /\ worker' = [worker EXCEPT ![w] = Idle]
  /\ overtaken' = overtaken \ {w}
  /\ UNCHANGED <<disk, session, clipboard, timeout, needsInit, blocked, evq,
                 pipe, signals, sinceTick, running>>

(* upgrade_in_event_loop. *)
WorkerPost(w) ==
  /\ worker[w].stage = "loaded"
  /\ worker' = [worker EXCEPT ![w].stage = "posted"]
  /\ evq' = Append(evq, [run |-> "complete", by |-> w])
  /\ UNCHANGED <<disk, session, clipboard, timeout, needsInit, blocked, pipe,
                 signals, sinceTick, running, overtaken>>

(* The completion: a new handle replaces the old one, the key is cached    *)
(* now, and the window is unlocked whatever happened since the request.    *)
RunComplete(w) ==
  /\ clip' = worker[w].key /\ DropHandle
  /\ cachedKey' = worker[w].key /\ age' = 0
  /\ locked' = FALSE
  /\ needsInit' = (needsInit /\ worker[w].kind # "init")
  /\ worker' = [worker EXCEPT ![w] = Idle]
  /\ overtaken' = overtaken \ {w}

(* The event loop runs the oldest queued closure. *)
RunEvent ==
  /\ running /\ evq # <<>>
  /\ evq' = Tail(evq)
  /\ \/ Head(evq).run = "complete" /\ RunComplete(Head(evq).by)
     \/ Head(evq).run = "lock" /\ LockSession /\ UNCHANGED <<needsInit, worker>>
  /\ UNCHANGED <<disk, timeout, blocked, pipe, signals, sinceTick, running>>

-----------------------------------------------------------------------------
(* Locking. *)

(* The lock button. *)
Lock ==
  /\ running /\ ~locked
  /\ LockSession
  /\ UNCHANGED <<disk, timeout, needsInit, blocked, events, sinceTick, running>>

(* handle_sigusr1 writes a byte on whatever thread it interrupts. *)
Signal ==
  /\ running /\ signals < MaxSignals
  /\ signals' = signals + 1 /\ pipe' = pipe + 1
  /\ UNCHANGED <<disk, session, clipboard, timeout, needsInit, blocked, worker,
                 evq, sinceTick, running, overtaken>>

(* Mutant: the watcher reads and queues nothing. *)
WatcherSilent ==
  /\ running /\ pipe > 0
  /\ pipe' = 0
  /\ UNCHANGED <<disk, session, clipboard, timeout, needsInit, blocked, worker,
                 evq, signals, sinceTick, running, overtaken>>

(* The watcher drains the pipe and queues one lock for all it read. *)
Watcher ==
  /\ running /\ pipe > 0
  /\ pipe' = 0
  /\ evq' = Append(evq, [run |-> "lock"])
  /\ UNCHANGED <<disk, session, clipboard, timeout, needsInit, blocked, worker,
                 signals, sinceTick, running, overtaken>>

(* Time passes, and with it the age of a key loaded at whatever moment.    *)
(* The event loop may be busy, with a file dialog say, when the timer is   *)
(* due.                                                                    *)
Elapse ==
  /\ running /\ sinceTick < TimerPeriod + MaxDelay
  /\ sinceTick' = sinceTick + 1
  /\ age' = IF cachedKey = NoKey THEN 0 ELSE age + 1
  /\ UNCHANGED <<disk, cachedKey, clip, locked, clipboard, timeout, needsInit,
                 blocked, events, running, overtaken>>

TimerTick ==
  /\ running /\ sinceTick >= TimerPeriod
  /\ sinceTick' = 0
  /\ IF Expired THEN LockSession ELSE UNCHANGED <<session, clipboard, overtaken>>
  /\ UNCHANGED <<disk, timeout, needsInit, blocked, events, running>>

(* Tray or menu: drop_key, then the process ends with the loop. *)
Quit ==
  /\ running
  /\ running' = FALSE /\ cachedKey' = NoKey /\ age' = 0
  /\ UNCHANGED <<disk, clip, locked, clipboard, timeout, needsInit, blocked,
                 events, sinceTick, overtaken>>

-----------------------------------------------------------------------------
(* What the unlocked window offers. *)

(* Mutant: use of the session restarts the clock. *)
CopyTouching(e) ==
  /\ running /\ ~locked /\ ~blocked /\ clip # NoKey
  /\ enc[e] # NoKey
  /\ sent' = sent \cup {"open"} /\ age' = 0
  /\ UNCHANGED <<disk, cachedKey, clip, locked, selection, timeout, needsInit,
                 blocked, events, sinceTick, running, overtaken>>

(* hold() takes the file as it is for a password and without a look at the *)
(* key's age; a TOTP code is computed with the cached key, valid or not    *)
(* copied at all.                                                          *)
Copy(e) ==
  /\ running /\ ~locked /\ ~blocked /\ clip # NoKey
  /\ enc[e] # NoKey
  /\ e \in Totps => Valid /\ enc[e] = cachedKey
  /\ sent' = sent \cup {"open"}
  /\ UNCHANGED <<disk, session, selection, timeout, needsInit, blocked, events,
                 sinceTick, running, overtaken>>

Outside == <<disk, session, timeout, needsInit, blocked, events, sinceTick,
             running, overtaken>>

(* The clipboard thread publishes what it was sent, told to stop or not; a *)
(* thread that has failed loses it.                                        *)
Publish(t) ==
  /\ running /\ t \in sent
  /\ sent' = sent \ {t}
  /\ selection' \in {t, selection}
  /\ UNCHANGED Outside

(* The secret was delivered, or another client has the selection. *)
Consumed ==
  /\ running /\ selection = "open"
  /\ selection' = "none"
  /\ UNCHANGED <<sent, Outside>>

(* A thread told to stop gives up its selection as it ends, read or not. *)
Withdraw ==
  /\ running /\ selection = "closing"
  /\ selection' = "none"
  /\ UNCHANGED <<sent, Outside>>

(* Store a new entry or edit one: both need as_slice() to yield the key. *)
Store(e) ==
  /\ running /\ ~locked /\ Valid
  /\ enc' = [enc EXCEPT ![e] = cachedKey]
  /\ UNCHANGED <<diskKey, session, clipboard, timeout, needsInit, blocked, events,
                 sinceTick, running, overtaken>>

Remove(e) ==
  /\ running /\ ~locked /\ enc[e] # NoKey
  /\ enc' = [enc EXCEPT ![e] = NoKey]
  /\ UNCHANGED <<diskKey, session, clipboard, timeout, needsInit, blocked, events,
                 sinceTick, running, overtaken>>

(* Mutant: the conversion to seconds truncates. *)
SaveSettingsTruncating(t) ==
  /\ running /\ ~locked
  /\ timeout' = t - 1
  /\ UNCHANGED <<disk, session, clipboard, needsInit, blocked, events, sinceTick,
                 running, overtaken>>

(* A valid new timeout that could be written; the key keeps its age, so an *)
(* expired one that the timer has not seen may become valid again.         *)
SaveSettings(t) ==
  /\ running /\ ~locked
  /\ timeout' = t
  /\ UNCHANGED <<disk, session, clipboard, needsInit, blocked, events, sinceTick,
                 running, overtaken>>

(* A backup holds a main key and entries under it. *)
RestoreFiles(k, restored) ==
  /\ diskKey' = k
  /\ enc' = [e \in Entries |-> IF e \in restored THEN k ELSE enc[e]]

(* The whole backup was written: settings are reloaded, the session locks. *)
Restore(k, restored, t) ==
  /\ running /\ ~locked
  /\ RestoreFiles(k, restored)
  /\ timeout' = t
  /\ LockSession
  /\ UNCHANGED <<needsInit, blocked, events, sinceTick, running>>

(* An entry did not decode or a write failed after the key was written:    *)
(* the error arm sets the status line and nothing else.                    *)
RestoreFails(k, restored) ==
  /\ running /\ ~locked
  /\ RestoreFiles(k, restored)
  /\ UNCHANGED <<session, clipboard, timeout, needsInit, blocked, events,
                 sinceTick, running, overtaken>>

(* `cybercuris init --force` or `restore --force` in another process. *)
ReplaceKeyElsewhere ==
  /\ OtherProcesses /\ running
  /\ \E k \in Keys : FreshKey(k) /\ diskKey' = k
  /\ UNCHANGED <<enc, session, clipboard, timeout, needsInit, blocked, events,
                 sinceTick, running, overtaken>>

-----------------------------------------------------------------------------
WorkerStep(w) == WorkerInit(w) \/ WorkerLoad(w) \/ WorkerFail(w) \/ WorkerPost(w)

Next ==
  \/ \E w \in Workers : UnlockPassword(w) \/ SetInitPassword(w) \/ WorkerStep(w)
  \/ RunEvent \/ Lock \/ Signal \/ Watcher \/ Elapse \/ TimerTick \/ Quit
  \/ \E e \in Entries : Copy(e) \/ Store(e) \/ Remove(e)
  \/ \E t \in Threads : Publish(t)
  \/ Consumed \/ Withdraw
  \/ \E t \in Timeouts : SaveSettings(t)
  \/ \E k \in Keys, restored \in SUBSET Entries :
       \/ \E t \in Timeouts : Restore(k, restored, t)
       \/ RestoreFails(k, restored)
  \/ ReplaceKeyElsewhere

Spec == Init /\ [][Next]_vars

(* The watcher thread, the event loop and the clipboard threads are        *)
(* scheduled; nothing obliges the user, a worker's disk or other processes.*)
FairSpec == /\ Spec
            /\ WF_vars(RunEvent) /\ WF_vars(Watcher) /\ WF_vars(TimerTick)
            /\ WF_vars(\E t \in Threads : Publish(t)) /\ WF_vars(Withdraw)

-----------------------------------------------------------------------------
Closures == [run : {"complete"}, by : Workers] \cup [run : {"lock"}]
WorkerStates == [stage : {"idle", "start", "initialized", "loaded", "posted"},
                 kind : {"unlock", "init"}, key : Keys \cup {NoKey}]

(* Every component of the state stays within the values the code gives it. *)
TypeOK ==
  /\ diskKey \in Keys \cup {NoKey} /\ enc \in [Entries -> Keys \cup {NoKey}]
  /\ cachedKey \in Keys \cup {NoKey} /\ age \in Nat /\ timeout \in Timeouts
  /\ clip \in Keys \cup {NoKey}
  /\ sent \subseteq Threads /\ selection \in Threads \cup {"none"}
  /\ locked \in BOOLEAN /\ needsInit \in BOOLEAN /\ blocked \in BOOLEAN
  /\ worker \in [Workers -> WorkerStates] /\ evq \in Seq(Closures)
  /\ pipe \in Nat /\ signals \in 0..MaxSignals
  /\ sinceTick \in 0..TimerPeriod + MaxDelay
  /\ running \in BOOLEAN /\ overtaken \subseteq Workers

Queued(w) == \E i \in DOMAIN evq : evq[i] = [run |-> "complete", by |-> w]

(* The lock screen means what it says, as far as it goes: it is up exactly  *)
(* when the session has neither key nor clipboard handle, whose key is the  *)
(* same; every clipboard thread with a secret has then been told to stop;   *)
(* and the only keys left in memory are those of derivations under way,     *)
(* each of which still gets its turn in the event loop (main.rs 1064-1085,  *)
(* 1146-1152, 1182-1190, 1462-1470, 1487-1497, 1003-1007).                  *)
LockClosesSession ==
  running =>
    /\ locked <=> cachedKey = NoKey
    /\ clip = cachedKey
    /\ locked => "open" \notin sent /\ selection # "open"
    /\ \A w \in Workers : worker[w].key # NoKey =>
         \/ worker[w].stage = "loaded"
         \/ worker[w].stage = "posted" /\ Queued(w)

(* What was copied cannot be pasted for long behind the lock screen: unless *)
(* the window is unlocked first, what was sent to the threads is published  *)
(* and withdrawn, in whatever order the lock and the copies reached them    *)
(* (clipboard.rs 91-98, 283-296, 368-378).                                  *)
LockedGoesQuiet ==
  locked ~> (sent = {} /\ selection = "none") \/ ~locked \/ ~running

(* However the timeout is changed and whenever the key was loaded, the main *)
(* key is given up less than one period of the timer, and the delay of the  *)
(* event loop, after the longest timeout (main.rs 82-91, 1479-1499).        *)
KeyAgeBounded ==
  cachedKey # NoKey => age < LongestTimeout + TimerPeriod + MaxDelay

(* SIGUSR1 locks: once the byte is written the session gets locked, without *)
(* the user and without waiting for it to expire (main.rs 39-51, 1440-1474).*)
SignalLocks == pipe > 0 ~> locked \/ ~running

(* No session stays unlocked for ever, whatever it is used for: as long as  *)
(* time goes on, it locks (main.rs 1476-1501).                              *)
UnlockedEnds ==
  []<>(sinceTick = 0) /\ []<>(sinceTick # 0) => (~locked ~> locked)

(* "`killall -s USR1 cybercuris` will lock the password again": only a      *)
(* request made after the lock unlocks again.                               *)
LockHolds ==
  [][\A w \in Workers : w \in overtaken /\ worker[w].stage = "posted"
       /\ worker'[w].stage = "idle" => locked']_vars

(* "Lock the current session since data changed": what an unlocked session  *)
(* stores is readable with the main key that is on disk.                    *)
StoresAreReadable ==
  [][\A e \in Entries : enc'[e] # enc[e] /\ enc'[e] # NoKey
       => enc'[e] = diskKey']_vars
=============================================================================
