------------------------------ MODULE Clipboard ------------------------------
(***************************************************************************)
(* The paste-once clipboard thread of src/src/clipboard.rs, its handle,    *)
(* the job queue and self-pipe between them, and the Wayland compositor    *)
(* as far as the thread can observe it.                                    *)
(*                                                                         *)
(* A secret is named by the number of the hold() call that published it.   *)
(* A data source is created for exactly one secret and carries its number; *)
(* None stands for the Option that is empty.                               *)
(***************************************************************************)
EXTENDS Integers, Sequences

CONSTANTS MaxHolds,   \* bound: hold() calls in one life of the handle
          MaxReads    \* bound: read requests other clients make

ASSUME BoundsAssumption == MaxHolds \in Nat /\ MaxReads \in Nat

Holds == 1..MaxHolds
None  == 0

VARIABLES
  \* the clipboard thread: program counter and ClipboardState
  pc, running, source, held, doneTx, consumed, pendingDestroy, shouldDestroy,
  \* events read off the socket, requests not yet flushed
  inq, out,
  \* mpsc channel and self-pipe (1 with a byte in it)
  queue, pipe,
  \* the owner of the ClipboardHandle
  mode, hpc, next,
  \* the compositor: sockets in both directions, its selection, reads made
  wire, reqs, sel, connUp, reads,
  \* history: bytes of each secret written out, done signals raised
  delivered, signalled

secret == <<source, held, doneTx>>
flags == <<consumed, pendingDestroy, shouldDestroy>>
thread == <<pc, running, secret, flags, inq, out>>
channel == <<queue, pipe>>
owner == <<mode, hpc, next>>
sockets == <<wire, reqs, connUp>>
compositor == <<sockets, sel, reads>>
world == <<channel, owner, compositor>>
history == <<delivered, signalled>>
vars == <<thread, channel, owner, compositor, history>>

Dead == {"exited", "failed", "killed"}

Hold(h, wait) == [job |-> "Hold", id |-> h, done |-> wait]
Shutdown == [job |-> "Shutdown", id |-> None, done |-> FALSE]
Jobs == [job : {"Hold"}, id : Holds, done : BOOLEAN] \cup {Shutdown}

Events == [ev : {"Send", "SendOther", "Cancelled"}, src : Holds]
Requests == [op : {"Set", "Destroy"}, src : Holds]
              \cup [op : {"Disconnect"}, src : {None}]

(* Raising a done signal consumes the sender (done_tx.take()). *)
Signal(tx) == signalled \cup ({tx} \ {None})

(* Mutant: destroys whether or not there is a source. *)
DestroyUnchecked(s) == <<[op |-> "Destroy", src |-> s]>>
(* source.take() followed by destroy(): nothing when there is no source. *)
DestroyReq(s) == IF s = None THEN <<>> ELSE <<[op |-> "Destroy", src |-> s]>>
Disconnect == [op |-> "Disconnect", src |-> None]

Init ==
  /\ pc = "start" /\ running = TRUE
  /\ source = None /\ held = None /\ doneTx = None
  /\ consumed = FALSE /\ pendingDestroy = FALSE /\ shouldDestroy = FALSE
  /\ inq = <<>> /\ out = <<>>
  /\ queue = <<>> /\ pipe = 0
  /\ mode \in {"gui", "cli"} /\ hpc = "idle" /\ next = 1
  /\ wire = <<>> /\ reqs = <<>> /\ sel = None /\ connUp \in BOOLEAN /\ reads = 0
  /\ delivered = [h \in Holds |-> 0] /\ signalled = {}

-----------------------------------------------------------------------------
(* The clipboard thread.                                                     *)

(* Leaving run_clipboard_loop drops the receiver, the secret, every queued *)
(* job with its done sender, and the connection: the compositor sees the   *)
(* requests already flushed and then the end of the stream.                *)
Gone(flushed, raised) ==
  /\ source' = None /\ held' = None /\ doneTx' = None
  /\ inq' = <<>> /\ out' = <<>> /\ queue' = <<>>
  /\ reqs' = IF connUp THEN reqs \o flushed \o <<Disconnect>> ELSE <<>>
  /\ signalled' = raised \cup {queue[i].id : i \in
                                 {j \in DOMAIN queue : queue[j].done}}

(* Connecting, binding the globals and the first roundtrip. *)
Connect ==
  /\ pc = "start" /\ connUp
  /\ pc' = "loop"
  /\ UNCHANGED <<running, secret, flags, inq, out, world, history>>

(* Any `?` of run_clipboard_loop once the compositor is gone. *)
Fail ==
  /\ pc \in {"start", "dispatch", "flush"} /\ ~connUp
  /\ pc' = "failed"
  /\ Gone(<<>>, Signal(doneTx))
  /\ UNCHANGED <<running, flags, pipe, owner, wire, sel, connUp, reads,
                 delivered>>

(* Head of the loop: snapshot and clear before dispatch. *)
Snapshot ==
  /\ pc = "loop"
  /\ pc' = "dispatch"
  /\ shouldDestroy' = pendingDestroy
  /\ pendingDestroy' = FALSE
  /\ UNCHANGED <<running, secret, consumed, inq, out, world, history>>

(* dispatch_pending hands over the events read so far, oldest first. *)
Dispatching(kind) == /\ pc = "dispatch" /\ inq # <<>>
                     /\ Head(inq).ev = kind /\ Head(inq).src = source

(* Events of a source this client destroyed never reach the handlers.  The *)
(* backend drops them as it reads; between the read and the end of the     *)
(* dispatch only a Cancelled destroys, and what is queued behind it finds  *)
(* held empty, so dropping them here is the same.                          *)
DispatchDead ==
  /\ pc = "dispatch" /\ inq # <<>> /\ Head(inq).src # source
  /\ inq' = Tail(inq)
  /\ UNCHANGED <<pc, running, secret, flags, out, world, history>>

(* Mutant: the consumed flag is not looked at. *)
DispatchSendAgain ==
  /\ Dispatching("Send")
  /\ inq' = Tail(inq)
  /\ IF held # None
       THEN /\ delivered' = [delivered EXCEPT ![held] = @ + 1]
            /\ consumed' = TRUE /\ pendingDestroy' = TRUE
       ELSE UNCHANGED <<delivered, consumed, pendingDestroy>>
  /\ UNCHANGED <<pc, running, secret, shouldDestroy, out, world, signalled>>

(* The first text read gets the decrypted secret, a later one reads empty. *)
DispatchSend ==
  /\ Dispatching("Send")
  /\ inq' = Tail(inq)
  /\ IF ~consumed /\ held # None
       THEN /\ delivered' = [delivered EXCEPT ![held] = @ + 1]
            /\ consumed' = TRUE
            /\ pendingDestroy' = TRUE
       ELSE UNCHANGED <<delivered, consumed, pendingDestroy>>
  /\ UNCHANGED <<pc, running, secret, shouldDestroy, out, world, signalled>>

(* A read of another MIME type is answered by dropping the descriptor. *)
DispatchSendOther ==
  /\ Dispatching("SendOther")
  /\ inq' = Tail(inq)
  /\ UNCHANGED <<pc, running, secret, flags, out, world, history>>

(* Mutant: the selection is given up without telling the waiter. *)
DispatchCancelledSilently ==
  /\ Dispatching("Cancelled")
  /\ inq' = Tail(inq)
  /\ out' = out \o DestroyReq(source)
  /\ source' = None /\ held' = None
  /\ UNCHANGED <<pc, running, doneTx, flags, world, history>>

(* Another client took the selection. *)
DispatchCancelled ==
  /\ Dispatching("Cancelled")
  /\ inq' = Tail(inq)
  /\ out' = out \o DestroyReq(source)
  /\ source' = None /\ held' = None /\ doneTx' = None
  /\ signalled' = Signal(doneTx)
  /\ UNCHANGED <<pc, running, flags, world, delivered>>

(* Mutant: the flag is cleared after the dispatch instead of before it. *)
DispatchDoneClearing ==
  /\ pc = "dispatch" /\ inq = <<>>
  /\ pc' = "recv" /\ pendingDestroy' = FALSE
  /\ UNCHANGED <<running, secret, consumed, shouldDestroy, inq, out, world,
                 history>>

DispatchDone ==
  /\ pc = "dispatch" /\ inq = <<>>
  /\ pc' = "recv"
  /\ UNCHANGED <<running, secret, flags, inq, out, world, history>>

(* Mutant: set_selection leaves consumed as the previous secret left it. *)
RecvHoldKeepingConsumed ==
  /\ pc = "recv" /\ queue # <<>> /\ Head(queue).job = "Hold"
  /\ LET h == Head(queue).id IN
       /\ out' = out \o DestroyReq(source) \o <<[op |-> "Set", src |-> h]>>
       /\ source' = h /\ held' = h
       /\ doneTx' = IF Head(queue).done THEN h ELSE None
  /\ signalled' = Signal(doneTx)
  /\ pendingDestroy' = FALSE
  /\ queue' = Tail(queue)
  /\ UNCHANGED <<pc, running, consumed, shouldDestroy, inq, pipe, owner,
                 compositor, delivered>>

(* One Ok(Hold) of the try_recv loop: set_selection.  Replacing done_tx    *)
(* drops the previous sender, which its waiter sees as the end of the wait.*)
RecvHold ==
  /\ pc = "recv" /\ queue # <<>> /\ Head(queue).job = "Hold"
  /\ LET h == Head(queue).id IN
       /\ out' = out \o DestroyReq(source) \o <<[op |-> "Set", src |-> h]>>
       /\ source' = h /\ held' = h
       /\ doneTx' = IF Head(queue).done THEN h ELSE None
  /\ signalled' = Signal(doneTx)
  /\ pendingDestroy' = FALSE /\ consumed' = FALSE
  /\ queue' = Tail(queue)
  /\ UNCHANGED <<pc, running, shouldDestroy, inq, pipe, owner, compositor,
                 delivered>>

(* Mutant: Shutdown breaks the receive loop but not the thread's loop. *)
RecvShutdownRunning ==
  /\ pc = "recv" /\ queue # <<>> /\ Head(queue).job = "Shutdown"
  /\ queue' = Tail(queue)
  /\ pc' = "teardown"
  /\ UNCHANGED <<running, secret, flags, inq, out, pipe, owner, compositor,
                 history>>

(* Shutdown ends the loop; jobs behind it are never looked at. *)
RecvShutdown ==
  /\ pc = "recv" /\ queue # <<>> /\ Head(queue).job = "Shutdown"
  /\ running' = FALSE
  /\ queue' = Tail(queue)
  /\ pc' = "teardown"
  /\ UNCHANGED <<secret, flags, inq, out, pipe, owner, compositor, history>>

RecvEmpty ==
  /\ pc = "recv" /\ queue = <<>>
  /\ pc' = "teardown"
  /\ UNCHANGED <<running, secret, flags, inq, out, world, history>>

(* Mutant: the secret is forgotten, the source is not destroyed. *)
TeardownKeepingSource ==
  /\ pc = "teardown"
  /\ pc' = "flush"
  /\ IF shouldDestroy
       THEN /\ source' = None /\ held' = None /\ doneTx' = None
            /\ signalled' = Signal(doneTx)
       ELSE UNCHANGED <<secret, signalled>>
  /\ UNCHANGED <<running, flags, inq, out, world, delivered>>

(* The destruction pass for the flag that was snapshot at the loop's head. *)
Teardown ==
  /\ pc = "teardown"
  /\ pc' = "flush"
  /\ IF shouldDestroy
       THEN /\ out' = out \o DestroyReq(source)
            /\ source' = None /\ held' = None /\ doneTx' = None
            /\ signalled' = Signal(doneTx)
       ELSE UNCHANGED <<out, secret, signalled>>
  /\ UNCHANGED <<running, flags, inq, world, delivered>>

(* Mutant: the pipe is drained before the poll instead of after it. *)
FlushDraining ==
  /\ pc = "flush" /\ connUp /\ running
  /\ reqs' = reqs \o out /\ out' = <<>>
  /\ pc' = "poll" /\ pipe' = 0
  /\ UNCHANGED <<running, secret, flags, inq, queue, owner, wire, sel, connUp,
                 reads, history>>

(* flush, then prepare_read: the queue of read events is empty here. *)
Flush ==
  /\ pc = "flush" /\ connUp /\ running
  /\ reqs' = reqs \o out /\ out' = <<>>
  /\ pc' = "poll"
  /\ UNCHANGED <<running, secret, flags, inq, channel, owner, wire, sel,
                 connUp, reads, history>>

(* flush, then the exit path: destroy, forget, signal, flush once more. *)
Exit ==
  /\ pc = "flush" /\ connUp /\ ~running
  /\ pc' = "exited"
  /\ Gone(out \o DestroyReq(source), Signal(doneTx))
  /\ UNCHANGED <<running, flags, pipe, owner, wire, sel, connUp, reads,
                 delivered>>

(* A descriptor is ready: the socket has events or was hung up, the pipe   *)
(* has a byte, or its write end was closed.                                *)
Ready == wire # <<>> \/ ~connUp \/ pipe > 0 \/ hpc = "closed"

(* poll returns; the socket is read dry if it is readable, and the pipe by *)
(* up to 64 bytes, more than pile up in it, so how many does not matter.   *)
PollReady ==
  /\ pc = "poll" /\ Ready
  /\ inq' = wire
  /\ wire' = <<>>
  /\ pipe' = 0
  /\ pc' = "loop"
  /\ UNCHANGED <<running, secret, flags, out, queue, owner, reqs, sel, connUp,
                 reads, history>>

(* Mutant: the poll is bounded by the flag of the previous iteration. *)
PollTimeoutStale ==
  /\ pc = "poll" /\ shouldDestroy /\ ~Ready
  /\ pc' = "loop"
  /\ UNCHANGED <<running, secret, flags, inq, out, world, history>>

(* PASTE_ONCE_POLL_MS elapses; only a pending destruction bounds the poll. *)
PollTimeout ==
  /\ pc = "poll" /\ pendingDestroy /\ ~Ready
  /\ pc' = "loop"
  /\ UNCHANGED <<running, secret, flags, inq, out, world, history>>

(* A signal handler ran on this thread: EINTR, nothing is read. *)
PollInterrupted ==
  /\ pc = "poll"
  /\ pc' = "loop"
  /\ UNCHANGED <<running, secret, flags, inq, out, world, history>>

ThreadStep ==
  \/ Connect \/ Fail \/ Snapshot
  \/ DispatchDead \/ DispatchSend \/ DispatchSendOther \/ DispatchCancelled
  \/ DispatchDone
  \/ RecvHold \/ RecvShutdown \/ RecvEmpty
  \/ Teardown \/ Flush \/ Exit
  \/ PollReady \/ PollTimeout

-----------------------------------------------------------------------------
(* The owner of the handle: the GUI keeps it while unlocked and calls hold *)
(* at will, the command line calls hold_and_wait once and drops it.        *)

(* A send to a dropped receiver fails and is ignored: the job, and the     *)
(* done sender in it, are dropped.                                         *)
Send(job) == queue' = IF pc \in Dead THEN queue ELSE Append(queue, job)

SendHold ==
  /\ hpc = "idle" /\ next \in Holds
  /\ mode = "cli" => next = 1
  /\ Send(Hold(next, mode = "cli"))
  /\ signalled' = IF mode = "cli" /\ pc \in Dead THEN signalled \cup {next}
                                                  ELSE signalled
  /\ next' = next + 1
  /\ hpc' = "wake"
  /\ UNCHANGED <<mode, thread, pipe, compositor, delivered>>

(* Mutant: no byte is written. *)
WakeSilently ==
  /\ hpc = "wake"
  /\ hpc' = IF mode = "cli" THEN "wait" ELSE "idle"
  /\ UNCHANGED <<mode, next, thread, channel, compositor, history>>

Wake ==
  /\ hpc = "wake"
  /\ pipe' = 1
  /\ hpc' = IF mode = "cli" THEN "wait" ELSE "idle"
  /\ UNCHANGED <<mode, next, thread, queue, compositor, history>>

(* recv_timeout: the signal, the dropped sender or ten seconds, all alike. *)
WaitSignalled ==
  /\ hpc = "wait" /\ (next - 1) \in signalled
  /\ hpc' = "idle"
  /\ UNCHANGED <<mode, next, thread, channel, compositor, history>>

WaitTimeout ==
  /\ hpc = "wait" /\ (next - 1) \notin signalled
  /\ hpc' = "idle"
  /\ UNCHANGED <<mode, next, thread, channel, compositor, history>>

(* Drop for ClipboardHandle: Shutdown, then wake and close the write end. *)
DropSend ==
  /\ hpc = "idle"
  /\ Send(Shutdown)
  /\ hpc' = "closing"
  /\ UNCHANGED <<mode, next, thread, pipe, compositor, history>>

DropClose ==
  /\ hpc = "closing"
  /\ pipe' = 1
  /\ hpc' = "closed"
  /\ UNCHANGED <<mode, next, thread, queue, compositor, history>>

(* The process ends, by returning from main without joining the thread or  *)
(* by being killed.                                                        *)
ProcessExit ==
  /\ hpc # "exited"
  /\ hpc' = "exited"
  /\ IF pc \in Dead
       THEN UNCHANGED <<thread, queue, reqs, signalled>>
       ELSE /\ pc' = "killed"
            /\ Gone(<<>>, Signal(doneTx))
            /\ UNCHANGED <<running, flags>>
  /\ UNCHANGED <<mode, next, pipe, wire, sel, connUp, reads, delivered>>

OwnerStep == Wake \/ WaitSignalled \/ WaitTimeout \/ DropClose

-----------------------------------------------------------------------------
(* The compositor and the other clients (external).                        *)

(* The oldest request takes effect. *)
ServeRequest ==
  /\ reqs # <<>>
  /\ sel' = LET r == Head(reqs) IN
              CASE r.op = "Set" -> r.src
                [] r.op = "Destroy" -> IF sel = r.src THEN None ELSE sel
                [] r.op = "Disconnect" -> None
  /\ reqs' = Tail(reqs)
  /\ UNCHANGED <<wire, connUp, reads, thread, channel, owner, history>>

(* A client pastes, or asks for a type that is not plain text. *)
Read(kind) ==
  /\ connUp /\ sel # None /\ pc \notin Dead
  /\ reads < MaxReads
  /\ reads' = reads + 1
  /\ wire' = Append(wire, [ev |-> kind, src |-> sel])
  /\ UNCHANGED <<reqs, sel, connUp, thread, channel, owner, history>>

Paste == Read("Send")
ReadOtherType == Read("SendOther")

(* Another client sets the selection. *)
ForeignCopy ==
  /\ connUp /\ sel # None /\ pc \notin Dead
  /\ wire' = Append(wire, [ev |-> "Cancelled", src |-> sel])
  /\ sel' = None
  /\ UNCHANGED <<reqs, connUp, reads, thread, channel, owner, history>>

(* The compositor ends: both sockets are gone and so is the selection. *)
CompositorExit ==
  /\ connUp
  /\ connUp' = FALSE /\ sel' = None /\ wire' = <<>> /\ reqs' = <<>>
  /\ UNCHANGED <<reads, thread, channel, owner, history>>

Next ==
  \/ ThreadStep \/ PollInterrupted
  \/ SendHold \/ DropSend \/ OwnerStep \/ ProcessExit
  \/ ServeRequest \/ Paste \/ ReadOtherType \/ ForeignCopy \/ CompositorExit

Spec == Init /\ [][Next]_vars

(* The thread and the code after a send are always scheduled, and the      *)
(* compositor serves its clients; nothing obliges anyone to copy, paste,   *)
(* lock or quit.                                                           *)
FairSpec == /\ Spec
            /\ WF_vars(ThreadStep) /\ WF_vars(OwnerStep)
            /\ WF_vars(ServeRequest)

-----------------------------------------------------------------------------
Queued(h) == \E i \in DOMAIN queue : queue[i].job = "Hold" /\ queue[i].id = h

FlagTypes ==
  /\ running \in BOOLEAN /\ consumed \in BOOLEAN /\ connUp \in BOOLEAN
  /\ pendingDestroy \in BOOLEAN /\ shouldDestroy \in BOOLEAN

DataTypes ==
  /\ pc \in {"start", "loop", "dispatch", "recv", "teardown", "flush", "poll"}
              \cup Dead
  /\ source \in Holds \cup {None} /\ held \in Holds \cup {None}
  /\ doneTx \in Holds \cup {None} /\ sel \in Holds \cup {None}
  /\ inq \in Seq(Events) /\ wire \in Seq(Events)
  /\ out \in Seq(Requests) /\ reqs \in Seq(Requests)
  /\ queue \in Seq(Jobs) /\ pipe \in {0, 1}
  /\ mode \in {"gui", "cli"}
  /\ hpc \in {"idle", "wake", "wait", "closing", "closed", "exited"}
  /\ next \in 1..(MaxHolds + 1) /\ reads \in 0..MaxReads
  /\ delivered \in [Holds -> Nat] /\ signalled \subseteq Holds

(* Every component of the state stays within the values the code gives it. *)
TypeOK == FlagTypes /\ DataTypes

(* Paste-once: no sequence of copies, pastes, cancellations and timeouts    *)
(* writes the same secret to two readers (clipboard.rs 233-237, 484-503).   *)
PasteOnce == \A h \in Holds : delivered[h] <= 1

(* The thread never sleeps on a job: when it is blocked in poll without a   *)
(* timeout and the channel is not empty, a byte is in the pipe or the       *)
(* sender has not yet reached its wake() (clipboard.rs 60-99, 341-365).     *)
NoLostWakeup ==
  pc = "poll" /\ queue # <<>> =>
    Ready \/ pendingDestroy \/ hpc \in {"wake", "closing"}

(* A secret that was pasted is never kept across an unbounded wait: the     *)
(* thread blocks without a timeout only when it holds nothing or something  *)
(* nobody has read (clipboard.rs 275-305, 322-326).                         *)
NoSpentSecretAtRest ==
  pc = "poll" /\ ~pendingDestroy => ~(held # None /\ consumed)

(* What the compositor offers is what the thread holds: once the requests   *)
(* are served, no selection outlives the secret behind it, whichever of the *)
(* four places took the source away (297-305, 368-373, 386-388, 506-513).   *)
OfferMatchesHeld ==
  connUp /\ out = <<>> /\ reqs = <<>> => sel \in {None, held}

(* hold_and_wait is told exactly once its secret is withdrawn: the done     *)
(* signal of a hold is outstanding while it is queued or held and raised    *)
(* otherwise, on every path (302-304, 372-374, 511-513, dropped receiver).  *)
DoneExact ==
  mode = "cli" => \A h \in 1..(next - 1) :
                    h \in signalled <=> ~(Queued(h) \/ held = h)

(* The thread catches up: whatever was copied, a moment comes when every    *)
(* hold() has left the queue, published or dropped with the thread.         *)
HoldServed == []<>(queue = <<>>)

(* Once a secret was pasted the thread gives it up and the compositor stops *)
(* offering it, although nobody copies, pastes or locks again.              *)
Spent(h) == h # None /\ delivered[h] > 0
PastedIsWithdrawn == []<>(~Spent(held) /\ ~Spent(sel))

(* Dropping the handle (lock, quit, end of the command) ends the thread and *)
(* takes the selection away for good.                                       *)
LockWithdraws == hpc = "closed" ~> [](pc \in Dead /\ sel = None)

(* The thread, its channel and the compositor implement OneShot: requests   *)
(* are offered in order, one at a time, and never offered again.            *)
Phase(h) == IF h >= next THEN "new"
            ELSE IF Queued(h) THEN "requested"
            ELSE IF held # h THEN "withdrawn"
            ELSE IF consumed THEN "delivered" ELSE "offered"

Abstract == INSTANCE OneShot
              WITH phase <- [h \in Holds |-> Phase(h)], copies <- delivered
ImplementsOneShot == Abstract!Spec

(* A selection nobody has read is withdrawn only because another one        *)
(* replaced it, another client took over, or the thread stops: the comments *)
(* at clipboard.rs 238-240 tie destruction to the first Send event.         *)
UnreadIsKept ==
  [][held # None /\ ~consumed /\ held' = None
       => ~running \/ pc = "dispatch" \/ pc' \in Dead]_vars
=============================================================================
