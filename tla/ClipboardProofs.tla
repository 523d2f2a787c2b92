--------------------------- MODULE ClipboardProofs ---------------------------
(***************************************************************************)
(* Proofs about the clipboard thread, for any number of copies and reads.  *)
(***************************************************************************)
EXTENDS Clipboard, SequenceTheorems, TLAPS

(* Secrets still queued are younger than the one held and keep their order; *)
(* numbers not handed out yet are younger than both.                        *)
QueueOrder ==
  /\ held < next /\ source = held
  /\ \A i \in DOMAIN queue : queue[i].job = "Hold" =>
       /\ held < queue[i].id /\ queue[i].id < next
       /\ delivered[queue[i].id] = 0
  /\ \A i, j \in DOMAIN queue :
       i < j /\ queue[i].job = "Hold" /\ queue[j].job = "Hold"
         => queue[i].id < queue[j].id

(* A secret whose number was not handed out, and one held and not consumed, *)
(* was not written out.                                                     *)
Unused == \A h \in Holds : h >= next => delivered[h] = 0
Unread == held # None /\ ~consumed => delivered[held] = 0

PasteInv == QueueOrder /\ Unused /\ Unread /\ PasteOnce

(* After try_recv found the channel empty, whatever arrives in it is        *)
(* announced before the thread can block.                                   *)
WakeInv ==
  /\ pc \in {"start", "loop", "dispatch", "recv", "poll"} => running
  /\ pc \in {"teardown", "flush", "poll"} /\ running /\ queue # <<>> =>
       pipe = 1 \/ hpc \in {"wake", "closing", "closed"}

(* A consumed secret is in the hands of one of the two flags. *)
SpentInv ==
  held # None /\ consumed =>
    pendingDestroy \/ (shouldDestroy /\ pc \in {"dispatch", "recv", "teardown"})

-----------------------------------------------------------------------------
(* Sequence facts used for the channel and the sockets. *)
LEMMA TailFacts ==
  ASSUME NEW S, NEW s \in Seq(S), s # <<>>
  PROVE  /\ Tail(s) \in Seq(S) /\ Head(s) \in S /\ Head(s) = s[1]
         /\ DOMAIN s = 1..Len(s) /\ 1 \in DOMAIN s
         /\ DOMAIN Tail(s) = 1..(Len(s) - 1)
         /\ \A i \in DOMAIN Tail(s) : Tail(s)[i] = s[i + 1] /\ i + 1 \in DOMAIN s
  OBVIOUS

LEMMA AppendFacts ==
  ASSUME NEW S, NEW s \in Seq(S), NEW e \in S
  PROVE  /\ Append(s, e) \in Seq(S) /\ Append(s, e) # <<>>
         /\ DOMAIN s = 1..Len(s) /\ Len(s) \in Nat
         /\ DOMAIN Append(s, e) = 1..(Len(s) + 1)
         /\ \A i \in DOMAIN s : Append(s, e)[i] = s[i]
         /\ Append(s, e)[Len(s) + 1] = e
  OBVIOUS

LEMMA RequestTypes ==
  ASSUME NEW s \in Holds \cup {None}
  PROVE  DestroyReq(s) \in Seq(Requests) /\ <<Disconnect>> \in Seq(Requests)
  <1>1. Disconnect \in Requests
    BY DEF Disconnect, Requests
  <1>2. s # None => [op |-> "Destroy", src |-> s] \in Requests
    BY DEF Requests
  <1>3. \A S : \A e \in S : <<e>> \in Seq(S) /\ <<>> \in Seq(S)
    OBVIOUS
  <1>4. <<Disconnect>> \in Seq(Requests)
    BY <1>1, <1>3
  <1>5. DestroyReq(s) \in Seq(Requests)
    BY <1>2, <1>3, <1>4 DEF DestroyReq
  <1>6. QED
    BY <1>4, <1>5

LEMMA SetRequest ==
  ASSUME NEW h \in Holds
  PROVE  <<[op |-> "Set", src |-> h]>> \in Seq(Requests)
  <1>1. [op |-> "Set", src |-> h] \in Requests
    BY DEF Requests
  <1>2. QED
    BY <1>1

(* Leaving the loop, in whichever way, keeps the types of what it touches. *)
LEMMA GoneTypes ==
  ASSUME DataTypes, NEW flushed \in Seq(Requests), NEW raised \in SUBSET Holds,
         Gone(flushed, raised)
  PROVE  /\ source' = None /\ held' = None /\ doneTx' = None
         /\ inq' = <<>> /\ out' = <<>> /\ queue' = <<>>
         /\ reqs' \in Seq(Requests) /\ signalled' \subseteq Holds
  <1>1. reqs' \in Seq(Requests)
    BY RequestTypes, None \in Holds \cup {None} DEF Gone, DataTypes
  <1>2. \A i \in DOMAIN queue : queue[i].done => queue[i].id \in Holds
    BY DEF DataTypes, Jobs, Shutdown
  <1>3. signalled' \subseteq Holds
    BY <1>2 DEF Gone
  <1>4. QED
    BY <1>1, <1>3 DEF Gone

-----------------------------------------------------------------------------
USE DEF secret, flags, thread, channel, owner, sockets, compositor, world,
        history, vars

LEMMA FlagStep == FlagTypes /\ [Next]_vars => FlagTypes'
  <1> SUFFICES ASSUME FlagTypes, [Next]_vars PROVE FlagTypes'
    OBVIOUS
  <1> USE DEF FlagTypes
  <1>1. CASE Connect \/ DispatchDead \/ DispatchSendOther \/ DispatchCancelled
             \/ DispatchDone \/ RecvEmpty \/ Flush
    BY <1>1, Zenon DEF Connect, DispatchDead, DispatchSendOther,
       DispatchCancelled, DispatchDone, RecvEmpty, Flush
  <1>2. CASE Fail \/ Exit \/ Teardown \/ Snapshot \/ RecvShutdown
    BY <1>2, Zenon DEF Fail, Exit, Teardown, Snapshot, RecvShutdown
  <1>3. CASE DispatchSend \/ RecvHold
    BY <1>3, Zenon DEF DispatchSend, RecvHold
  <1>4. CASE PollReady \/ PollTimeout \/ PollInterrupted
    BY <1>4, Zenon DEF PollReady, PollTimeout, PollInterrupted
  <1>5. CASE SendHold \/ DropSend \/ OwnerStep \/ ProcessExit
    BY <1>5, Zenon DEF SendHold, DropSend, OwnerStep, Wake, WaitSignalled,
       WaitTimeout, DropClose, ProcessExit
  <1>6. CASE ServeRequest \/ Paste \/ ReadOtherType \/ ForeignCopy
             \/ CompositorExit
    BY <1>6, Zenon DEF ServeRequest, Paste, ReadOtherType, Read, ForeignCopy,
       CompositorExit
  <1>7. CASE UNCHANGED vars
    BY <1>7, Zenon
  <1>8. QED
    BY <1>1, <1>2, <1>3, <1>4, <1>5, <1>6, <1>7, Zenon DEF Next, ThreadStep

LEMMA DataStep == DataTypes /\ [Next]_vars => DataTypes'
  <1> SUFFICES ASSUME DataTypes, [Next]_vars PROVE DataTypes'
    OBVIOUS
  <1> USE DEF DataTypes, Dead
    <1>1. CASE Connect
    BY <1>1 DEF Connect
  <1>2. CASE Fail
    <2>1. Signal(doneTx) \in SUBSET Holds /\ <<>> \in Seq(Requests)
      BY DEF Signal
    <2>2. /\ source' = None /\ held' = None /\ doneTx' = None
          /\ inq' = <<>> /\ out' = <<>> /\ queue' = <<>>
          /\ reqs' \in Seq(Requests) /\ signalled' \subseteq Holds
      BY <1>2, <2>1, GoneTypes, Zenon DEF Fail
    <2>3. QED
      BY <1>2, <2>2 DEF Fail
  <1>3. CASE Snapshot
    BY <1>3 DEF Snapshot
  <1>4. CASE DispatchDead
    BY <1>4, TailFacts DEF DispatchDead
  <1>5. CASE DispatchSend
    <2>1. Tail(inq) \in Seq(Events)
      BY <1>5, TailFacts DEF DispatchSend, Dispatching
    <2>2. delivered' \in [Holds -> Nat]
      BY <1>5 DEF DispatchSend
    <2>3. QED
      BY <1>5, <2>1, <2>2 DEF DispatchSend, Dispatching
  <1>6. CASE DispatchSendOther
    BY <1>6, TailFacts DEF DispatchSendOther, Dispatching
  <1>7. CASE DispatchCancelled
    <2>1. Tail(inq) \in Seq(Events)
      BY <1>7, TailFacts DEF DispatchCancelled, Dispatching
    <2>2. out \o DestroyReq(source) \in Seq(Requests) /\ Signal(doneTx) \subseteq Holds
      BY RequestTypes DEF Signal
    <2>3. QED
      BY <1>7, <2>1, <2>2 DEF DispatchCancelled, Dispatching
  <1>8. CASE DispatchDone
    BY <1>8 DEF DispatchDone
  <1>9. CASE RecvHold
    <2>1. /\ Head(queue).id \in Holds /\ Tail(queue) \in Seq(Jobs)
          /\ Signal(doneTx) \subseteq Holds
      BY <1>9, TailFacts DEF RecvHold, Jobs, Shutdown, Signal
    <2>2. <<[op |-> "Set", src |-> Head(queue).id]>> \in Seq(Requests)
      BY <2>1, SetRequest
    <2>3. out' \in Seq(Requests)
      BY <1>9, <2>2, RequestTypes DEF RecvHold
    <2>4. QED
      BY <1>9, <2>1, <2>3 DEF RecvHold
  <1>10. CASE RecvShutdown
    BY <1>10, TailFacts DEF RecvShutdown
  <1>11. CASE RecvEmpty
    BY <1>11 DEF RecvEmpty
  <1>12. CASE Teardown
    <2>1. /\ out \o DestroyReq(source) \in Seq(Requests)
          /\ Signal(doneTx) \subseteq Holds
      BY RequestTypes DEF Signal
    <2>2. CASE shouldDestroy
      BY <1>12, <2>1, <2>2 DEF Teardown
    <2>3. CASE ~shouldDestroy
      BY <1>12, <2>3 DEF Teardown
    <2>4. QED
      BY <2>2, <2>3
  <1>13. CASE Flush
    BY <1>13 DEF Flush
  <1>14. CASE Exit
    <2>1. /\ Signal(doneTx) \in SUBSET Holds
          /\ out \o DestroyReq(source) \in Seq(Requests)
      BY RequestTypes DEF Signal
    <2>2. /\ source' = None /\ held' = None /\ doneTx' = None
          /\ inq' = <<>> /\ out' = <<>> /\ queue' = <<>>
          /\ reqs' \in Seq(Requests) /\ signalled' \subseteq Holds
      BY <1>14, <2>1, GoneTypes, Zenon DEF Exit
    <2>3. QED
      BY <1>14, <2>2 DEF Exit
  <1>15. CASE PollReady
    BY <1>15 DEF PollReady
  <1>16. CASE PollTimeout
    BY <1>16 DEF PollTimeout
  <1>17. CASE PollInterrupted
    BY <1>17 DEF PollInterrupted
  <1>18. CASE SendHold
    <2>1. Hold(next, mode = "cli") \in Jobs
      BY <1>18 DEF SendHold, Hold, Jobs
    <2>2. queue' \in Seq(Jobs)
      BY <1>18, <2>1, AppendFacts DEF SendHold, Send
    <2>3. next' \in 1..(MaxHolds + 1)
      BY <1>18, BoundsAssumption DEF SendHold, Holds
    <2>4. QED
      BY <1>18, <2>2, <2>3 DEF SendHold
  <1>19. CASE DropSend
    <2>1. Shutdown \in Jobs
      BY DEF Jobs
    <2>2. QED
      BY <1>19, <2>1, AppendFacts DEF DropSend, Send
  <1>20. CASE OwnerStep
    <2>1. CASE Wake
      BY <2>1 DEF Wake
    <2>2. CASE WaitSignalled \/ WaitTimeout
      BY <2>2 DEF WaitSignalled, WaitTimeout
    <2>3. CASE DropClose
      BY <2>3 DEF DropClose
    <2>4. QED
      BY <1>20, <2>1, <2>2, <2>3 DEF OwnerStep
  <1>21. CASE ProcessExit
    <2>1. Signal(doneTx) \in SUBSET Holds /\ <<>> \in Seq(Requests)
      BY DEF Signal
    <2>2. CASE pc \in Dead
      BY <1>21, <2>2 DEF ProcessExit
    <2>3. CASE pc \notin Dead
      <3>1. /\ source' = None /\ held' = None /\ doneTx' = None
            /\ inq' = <<>> /\ out' = <<>> /\ queue' = <<>>
            /\ reqs' \in Seq(Requests) /\ signalled' \subseteq Holds
        BY <1>21, <2>1, <2>3, GoneTypes, Zenon DEF ProcessExit
      <3>2. QED
        BY <1>21, <2>3, <3>1 DEF ProcessExit
    <2>4. QED
      BY <2>2, <2>3
  <1>22. CASE ServeRequest
    BY <1>22, TailFacts DEF ServeRequest, Requests
  <1>23. CASE Paste \/ ReadOtherType
    <2>1. \A k \in {"Send", "SendOther"} :
            sel # None => [ev |-> k, src |-> sel] \in Events
      BY DEF Events
    <2>2. PICK k \in {"Send", "SendOther"} : Read(k)
      BY <1>23 DEF Paste, ReadOtherType
    <2>3. wire' \in Seq(Events)
      BY <2>1, <2>2, AppendFacts DEF Read
    <2>4. reads' \in 0..MaxReads
      BY <2>2, BoundsAssumption DEF Read
    <2>5. QED
      BY <2>2, <2>3, <2>4 DEF Read
  <1>24. CASE ForeignCopy
    <2>1. sel # None => [ev |-> "Cancelled", src |-> sel] \in Events
      BY DEF Events
    <2>2. QED
      BY <1>24, <2>1, AppendFacts DEF ForeignCopy
  <1>25. CASE CompositorExit
    BY <1>25 DEF CompositorExit
  <1>26. CASE UNCHANGED vars
    BY <1>26 DEF vars
  <1>27. QED
    BY <1>1, <1>2, <1>3, <1>4, <1>5, <1>6, <1>7, <1>8, <1>9, <1>10, <1>11,
       <1>12, <1>13, <1>14, <1>15, <1>16, <1>17, <1>18, <1>19, <1>20, <1>21,
       <1>22, <1>23, <1>24, <1>25, <1>26 DEF Next, ThreadStep

(* Every reachable state has the values the code can give it (the state of  *)
(* clipboard.rs 225-242 and of what surrounds the thread).                  *)
THEOREM TypeCorrect == Spec => []TypeOK
  <1>1. Init => FlagTypes
    BY Zenon DEF Init, FlagTypes
  <1>2. Init => DataTypes
    BY BoundsAssumption DEF Init, DataTypes, None, Holds
  <1>3. TypeOK /\ [Next]_vars => TypeOK'
    BY FlagStep, DataStep DEF TypeOK
  <1>4. QED
    BY <1>1, <1>2, <1>3, PTL DEF Spec, TypeOK

-----------------------------------------------------------------------------
LEMMA SpentStep == SpentInv /\ [Next]_vars => SpentInv'
  <1> SUFFICES ASSUME SpentInv, [Next]_vars PROVE SpentInv'
    OBVIOUS
  <1> USE DEF SpentInv
  <1>1. CASE Fail \/ Exit
    BY <1>1, Zenon DEF Fail, Exit, Gone
  <1>2. CASE Snapshot
    BY <1>2, Zenon DEF Snapshot
  <1>3. CASE DispatchSend
    BY <1>3, Zenon DEF DispatchSend, Dispatching
  <1>4. CASE Connect \/ DispatchDead \/ DispatchSendOther \/ DispatchDone
    BY <1>4, Zenon DEF Connect, DispatchDead, DispatchSendOther, DispatchDone,
       Dispatching
  <1>5. CASE DispatchCancelled
    BY <1>5, Zenon DEF DispatchCancelled
  <1>6. CASE RecvHold
    BY <1>6, Zenon DEF RecvHold
  <1>7. CASE RecvShutdown \/ RecvEmpty
    BY <1>7, Zenon DEF RecvShutdown, RecvEmpty
  <1>8. CASE Teardown
    BY <1>8, Zenon DEF Teardown
  <1>9. CASE Flush \/ PollReady \/ PollTimeout \/ PollInterrupted
    BY <1>9, Zenon DEF Flush, PollReady, PollTimeout, PollInterrupted
  <1>10. CASE SendHold \/ DropSend \/ OwnerStep
    BY <1>10, Zenon DEF SendHold, DropSend, OwnerStep, Wake, WaitSignalled,
       WaitTimeout, DropClose
  <1>11. CASE ProcessExit
    BY <1>11, Zenon DEF ProcessExit, Gone
  <1>12. CASE ServeRequest \/ Paste \/ ReadOtherType \/ ForeignCopy
              \/ CompositorExit
    BY <1>12, Zenon DEF ServeRequest, Paste, ReadOtherType, Read, ForeignCopy,
       CompositorExit
  <1>13. CASE UNCHANGED vars
    BY <1>13, Zenon
  <1>14. QED
    BY <1>1, <1>2, <1>3, <1>4, <1>5, <1>6, <1>7, <1>8, <1>9, <1>10, <1>11,
       <1>12, <1>13, Zenon DEF Next, ThreadStep

(* A pasted secret is never kept across an unbounded poll: it is destroyed  *)
(* in the iteration after the paste (clipboard.rs 275-305, 322-326).        *)
THEOREM SpentSecretsGo == Spec => []NoSpentSecretAtRest
  <1>1. Init => SpentInv
    BY Zenon DEF Init, SpentInv
  <1>2. SpentInv => NoSpentSecretAtRest
    BY Zenon DEF SpentInv, NoSpentSecretAtRest
  <1>3. QED
    BY <1>1, <1>2, SpentStep, PTL DEF Spec

-----------------------------------------------------------------------------
LEMMA WakeStep == TypeOK /\ WakeInv /\ [Next]_vars => WakeInv'
  <1> SUFFICES ASSUME TypeOK, WakeInv, [Next]_vars PROVE WakeInv'
    OBVIOUS
  <1> USE DEF WakeInv, Dead
  <1>1. CASE Fail \/ Exit
    BY <1>1, Zenon DEF Fail, Exit
  <1>2. CASE Connect \/ Snapshot
    BY <1>2, Zenon DEF Connect, Snapshot
  <1>3. CASE DispatchDead \/ DispatchSend \/ DispatchSendOther
             \/ DispatchCancelled \/ DispatchDone
    BY <1>3, Zenon DEF DispatchDead, DispatchSend, DispatchSendOther,
       DispatchCancelled, DispatchDone, Dispatching
  <1>4. CASE RecvHold \/ RecvShutdown \/ RecvEmpty
    BY <1>4, Zenon DEF RecvHold, RecvShutdown, RecvEmpty
  <1>5. CASE Teardown \/ Flush
    <2>1. /\ UNCHANGED <<running, queue, pipe, hpc>>
          /\ \/ pc = "teardown" /\ pc' = "flush"
             \/ pc = "flush" /\ pc' = "poll" /\ running
      BY <1>5, Zenon DEF Teardown, Flush
    <2>2. QED
      BY <2>1, Zenon
  <1>6. CASE PollReady \/ PollTimeout \/ PollInterrupted
    BY <1>6, Zenon DEF PollReady, PollTimeout, PollInterrupted
  <1>7. CASE SendHold \/ DropSend
    BY <1>7, Zenon DEF SendHold, DropSend
  <1>8. CASE OwnerStep
    <2>1. /\ UNCHANGED <<pc, running, queue>>
          /\ \/ pipe' = 1
             \/ pipe' = pipe /\ hpc = "wait"
      BY <1>8, Zenon DEF OwnerStep, Wake, WaitSignalled, WaitTimeout, DropClose
    <2>2. QED
      BY <2>1, Zenon
  <1>9. CASE ProcessExit
    BY <1>9, Zenon DEF ProcessExit, Gone
  <1>10. CASE ServeRequest \/ Paste \/ ReadOtherType \/ ForeignCopy
              \/ CompositorExit
    <2>1. UNCHANGED <<pc, running, queue, pipe, hpc>>
      BY <1>10, Zenon DEF ServeRequest, Paste, ReadOtherType, Read, ForeignCopy,
         CompositorExit
    <2>2. QED
      BY <2>1, Zenon
  <1>11. CASE UNCHANGED vars
    BY <1>11, Zenon
  <1>12. QED
    BY <1>1, <1>2, <1>3, <1>4, <1>5, <1>6, <1>7, <1>8, <1>9, <1>10, <1>11,
       Zenon DEF Next, ThreadStep

(* The thread never blocks for good on a job that was sent: a byte is in    *)
(* the pipe or its sender is about to write one (clipboard.rs 60-99).       *)
THEOREM JobsWakeTheThread == Spec => []NoLostWakeup
  <1>1. Init => WakeInv
    BY Zenon DEF Init, WakeInv
  <1>2. WakeInv => NoLostWakeup
    BY 1 > 0, Zenon DEF WakeInv, NoLostWakeup, Ready
  <1>3. QED
    BY <1>1, <1>2, WakeStep, TypeCorrect, PTL DEF Spec

-----------------------------------------------------------------------------
(* Giving up the secret that is held, or everything, keeps the order. *)
LEMMA DropHeld ==
  ASSUME DataTypes, QueueOrder, held' = None, source' = None,
         queue' = queue \/ queue' = <<>>, UNCHANGED <<next, delivered>>
  PROVE  QueueOrder'
  <1>1. \A i \in DOMAIN queue : queue[i] \in Jobs
    BY DEF DataTypes
  <1>2. \A i \in DOMAIN queue : queue[i].job = "Hold" => queue[i].id > 0
    BY <1>1 DEF Jobs, Shutdown, Holds
  <1>3. 0 < next
    BY BoundsAssumption DEF DataTypes
  <1>4. QED
    BY <1>2, <1>3 DEF QueueOrder, None

(* A job appended for a number not handed out yet, or Shutdown, keeps it. *)
LEMMA AppendYounger ==
  ASSUME QueueOrder, queue \in Seq(Jobs), next \in Nat, held \in Int,
         \A i \in DOMAIN queue : queue[i].job = "Hold" => queue[i].id \in Holds,
         NEW e \in Jobs, queue' = Append(queue, e),
         next' \in Nat, next' >= next, UNCHANGED <<held, source, delivered>>,
         e.job = "Hold" => e.id = next /\ next' > next /\ delivered[next] = 0
  PROVE  QueueOrder'
  <1>1. /\ DOMAIN queue = 1..Len(queue) /\ Len(queue) \in Nat
        /\ DOMAIN queue' = 1..(Len(queue) + 1)
        /\ \A i \in DOMAIN queue : queue'[i] = queue[i]
        /\ queue'[Len(queue) + 1] = e
    BY AppendFacts
  <1>2. \A i \in DOMAIN queue' : i \in DOMAIN queue \/ i = Len(queue) + 1
    BY <1>1
  <1>3. held' < next' /\ source' = held'
    BY DEF QueueOrder
  <1>4. ASSUME NEW i \in DOMAIN queue', queue'[i].job = "Hold"
        PROVE  /\ held' < queue'[i].id /\ queue'[i].id < next'
               /\ delivered'[queue'[i].id] = 0
    <2>1. CASE i \in DOMAIN queue
      BY <1>1, <1>4, <2>1 DEF QueueOrder, Holds
    <2>2. CASE i = Len(queue) + 1
      BY <1>1, <1>4, <2>2 DEF QueueOrder
    <2>3. QED
      BY <1>2, <2>1, <2>2
  <1>5. ASSUME NEW i \in DOMAIN queue', NEW j \in DOMAIN queue', i < j,
               queue'[i].job = "Hold", queue'[j].job = "Hold"
        PROVE  queue'[i].id < queue'[j].id
    <2>1. i \in DOMAIN queue
      BY <1>1, <1>5
    <2>2. CASE j \in DOMAIN queue
      BY <1>1, <1>5, <2>1, <2>2 DEF QueueOrder
    <2>3. CASE j = Len(queue) + 1
      BY <1>1, <1>5, <2>1, <2>3 DEF QueueOrder
    <2>4. QED
      BY <1>2, <2>2, <2>3
  <1>6. QED
    BY <1>3, <1>4, <1>5 DEF QueueOrder

LEMMA QueueOrderStep ==
  ASSUME DataTypes, QueueOrder, Unused, [Next]_vars
  PROVE  QueueOrder'
  <1> DEFINE Same == UNCHANGED <<source, held, queue, next, delivered>>
  <1>0. Same => QueueOrder'
    BY DEF QueueOrder
  <1>t. /\ next \in Nat /\ next > 0 /\ held \in Int /\ queue \in Seq(Jobs)
        /\ \A i \in DOMAIN queue : queue[i].job = "Hold" => queue[i].id \in Holds
    BY BoundsAssumption DEF DataTypes, Holds, None, Jobs, Shutdown
  <1>1. CASE Fail \/ Exit
    <2>1. /\ held' = None /\ source' = None /\ queue' = <<>>
          /\ UNCHANGED <<next, delivered>>
      BY <1>1, Zenon DEF Fail, Exit, Gone
    <2>2. QED
      BY <2>1, DropHeld
  <1>2. CASE Connect \/ Snapshot \/ DispatchDead \/ DispatchSendOther
             \/ DispatchDone \/ RecvEmpty \/ Flush
    <2>1. Same
      BY <1>2, Zenon DEF Connect, Snapshot, DispatchDead, DispatchSendOther,
         DispatchDone, RecvEmpty, Flush
    <2>2. QED
      BY <1>0, <2>1
  <1>3. CASE DispatchSend
    <2>1. /\ UNCHANGED <<source, held, queue, next>>
          /\ \/ UNCHANGED delivered
             \/ delivered' = [delivered EXCEPT ![held] = @ + 1]
      BY <1>3, Zenon DEF DispatchSend
    <2>2. \A i \in DOMAIN queue :
            queue[i].job = "Hold" => delivered'[queue[i].id] = 0
      <3>1. TAKE i \in DOMAIN queue
      <3>2. HAVE queue[i].job = "Hold"
      <3>3. /\ queue[i].id \in Holds /\ queue[i].id # held
            /\ delivered[queue[i].id] = 0
        BY <1>t, <3>2 DEF QueueOrder, Holds
      <3>4. QED
        BY <2>1, <3>3 DEF DataTypes
    <2>3. QED
      BY <2>1, <2>2 DEF QueueOrder
  <1>4. CASE DispatchCancelled
    <2>1. /\ held' = None /\ source' = None
          /\ UNCHANGED <<queue, next, delivered>>
      BY <1>4, Zenon DEF DispatchCancelled
    <2>2. QED
      BY <2>1, DropHeld
  <1>5. CASE RecvHold
    <2>1. /\ queue # <<>> /\ Head(queue).job = "Hold"
          /\ held' = Head(queue).id /\ source' = held' /\ queue' = Tail(queue)
          /\ UNCHANGED <<next, delivered>>
      BY <1>5, Zenon DEF RecvHold
    <2>2. QED
      BY <1>t, <2>1, TailFacts DEF QueueOrder
  <1>6. CASE RecvShutdown
    <2>1. /\ queue # <<>> /\ queue' = Tail(queue)
          /\ UNCHANGED <<held, source, next, delivered>>
      BY <1>6, Zenon DEF RecvShutdown
    <2>2. QED
      BY <1>t, <2>1, TailFacts DEF QueueOrder
  <1>7. CASE Teardown
    <2>1. \/ Same
          \/ /\ held' = None /\ source' = None
             /\ UNCHANGED <<queue, next, delivered>>
      BY <1>7, Zenon DEF Teardown
    <2>2. QED
      BY <1>0, <2>1, DropHeld
  <1>8. CASE PollReady \/ PollTimeout \/ PollInterrupted
    <2>1. Same
      BY <1>8, Zenon DEF PollReady, PollTimeout, PollInterrupted
    <2>2. QED
      BY <1>0, <2>1
  <1>9. CASE SendHold
    <2>1. /\ next \in Holds /\ next' = next + 1
          /\ UNCHANGED <<held, source, delivered>>
          /\ \/ UNCHANGED queue
             \/ queue' = Append(queue, Hold(next, mode = "cli"))
      BY <1>9, Zenon DEF SendHold, Send
    <2>2. delivered[next] = 0
      BY <1>t, <2>1 DEF Unused
    <2>3. /\ Hold(next, mode = "cli") \in Jobs
          /\ Hold(next, mode = "cli").id = next
      BY <2>1 DEF Hold, Jobs
    <2>4. CASE UNCHANGED queue
      BY <1>t, <2>1, <2>4 DEF QueueOrder, Holds
    <2>5. CASE queue' = Append(queue, Hold(next, mode = "cli"))
      BY <1>t, <2>1, <2>2, <2>3, <2>5, AppendYounger
    <2>6. QED
      BY <2>1, <2>4, <2>5
  <1>10. CASE DropSend
    <2>1. /\ UNCHANGED <<held, source, next, delivered>>
          /\ queue' = queue \/ queue' = Append(queue, Shutdown)
      BY <1>10, Zenon DEF DropSend, Send
    <2>2. Shutdown \in Jobs /\ Shutdown.job # "Hold"
      BY DEF Jobs, Shutdown
    <2>3. QED
      <3>1. CASE queue' = queue
        BY <1>0, <2>1, <3>1
      <3>2. CASE queue' = Append(queue, Shutdown)
        BY <1>t, <2>1, <2>2, <3>2, AppendYounger
      <3>3. QED
        BY <2>1, <3>1, <3>2
  <1>11. CASE OwnerStep
    <2>1. Same
      BY <1>11, Zenon DEF OwnerStep, Wake, WaitSignalled, WaitTimeout, DropClose
    <2>2. QED
      BY <1>0, <2>1
  <1>12. CASE ProcessExit
    <2>1. \/ Same
          \/ /\ held' = None /\ source' = None /\ queue' = <<>>
             /\ UNCHANGED <<next, delivered>>
      BY <1>12, Zenon DEF ProcessExit, Gone
    <2>2. QED
      BY <1>0, <2>1, DropHeld
  <1>13. CASE ServeRequest \/ Paste \/ ReadOtherType \/ ForeignCopy
              \/ CompositorExit
    <2>1. Same
      BY <1>13, Zenon DEF ServeRequest, Paste, ReadOtherType, Read, ForeignCopy,
         CompositorExit
    <2>2. QED
      BY <1>0, <2>1
  <1>14. CASE UNCHANGED vars
    BY <1>0, <1>14, Zenon
  <1>15. QED
    BY <1>1, <1>2, <1>3, <1>4, <1>5, <1>6, <1>7, <1>8, <1>9, <1>10, <1>11,
       <1>12, <1>13, <1>14, Zenon DEF Next, ThreadStep

(* What a step does to the counts: only a paste of an unread secret raises  *)
(* one, by one, and marks the secret consumed.                              *)
LEMMA CountStep ==
  ASSUME [Next]_vars
  PROVE  \/ UNCHANGED delivered /\ next' \in {next, next + 1}
         \/ /\ held # None /\ ~consumed
            /\ delivered' = [delivered EXCEPT ![held] = @ + 1]
            /\ consumed' = TRUE /\ UNCHANGED <<held, next>>
  <1>1. CASE DispatchSend
    BY <1>1, Zenon DEF DispatchSend
  <1>2. CASE SendHold
    BY <1>2, Zenon DEF SendHold
  <1>3. CASE Connect \/ Fail \/ Snapshot \/ DispatchDead \/ DispatchSendOther
             \/ DispatchCancelled \/ DispatchDone
    BY <1>3, Zenon DEF Connect, Fail, Snapshot, DispatchDead, DispatchSendOther,
       DispatchCancelled, DispatchDone
  <1>4. CASE RecvHold \/ RecvShutdown \/ RecvEmpty \/ Teardown \/ Flush \/ Exit
    BY <1>4, Zenon DEF RecvHold, RecvShutdown, RecvEmpty, Teardown, Flush, Exit
  <1>5. CASE PollReady \/ PollTimeout \/ PollInterrupted
    BY <1>5, Zenon DEF PollReady, PollTimeout, PollInterrupted
  <1>6. CASE DropSend \/ OwnerStep \/ ProcessExit
    BY <1>6, Zenon DEF DropSend, OwnerStep, Wake, WaitSignalled, WaitTimeout,
       DropClose, ProcessExit
  <1>7. CASE ServeRequest \/ Paste \/ ReadOtherType \/ ForeignCopy
             \/ CompositorExit
    BY <1>7, Zenon DEF ServeRequest, Paste, ReadOtherType, Read, ForeignCopy,
       CompositorExit
  <1>8. CASE UNCHANGED vars
    BY <1>8, Zenon
  <1>9. QED
    BY <1>1, <1>2, <1>3, <1>4, <1>5, <1>6, <1>7, <1>8, Zenon
       DEF Next, ThreadStep

(* Where a step that writes nothing leaves the secret that is held. *)
LEMMA HeldStep ==
  ASSUME [Next]_vars
  PROVE  \/ held' = None
         \/ UNCHANGED held /\ consumed' = consumed
         \/ UNCHANGED held /\ consumed' = TRUE
         \/ /\ queue # <<>> /\ Head(queue).job = "Hold"
            /\ held' = Head(queue).id /\ UNCHANGED delivered
  <1>1. CASE DispatchSend
    BY <1>1, Zenon DEF DispatchSend
  <1>2. CASE RecvHold
    BY <1>2, Zenon DEF RecvHold
  <1>3. CASE Connect \/ Snapshot \/ DispatchDead \/ DispatchSendOther
             \/ DispatchCancelled \/ DispatchDone \/ Fail
    BY <1>3, Zenon DEF Connect, Snapshot, DispatchDead, DispatchSendOther,
       DispatchCancelled, DispatchDone, Fail, Gone
  <1>4. CASE RecvShutdown \/ RecvEmpty \/ Teardown \/ Flush \/ Exit
    BY <1>4, Zenon DEF RecvShutdown, RecvEmpty, Teardown, Flush, Exit, Gone
  <1>5. CASE PollReady \/ PollTimeout \/ PollInterrupted
    BY <1>5, Zenon DEF PollReady, PollTimeout, PollInterrupted
  <1>6. CASE SendHold \/ DropSend \/ OwnerStep \/ ProcessExit
    BY <1>6, Zenon DEF SendHold, DropSend, OwnerStep, Wake, WaitSignalled,
       WaitTimeout, DropClose, ProcessExit, Gone
  <1>7. CASE ServeRequest \/ Paste \/ ReadOtherType \/ ForeignCopy
             \/ CompositorExit
    BY <1>7, Zenon DEF ServeRequest, Paste, ReadOtherType, Read, ForeignCopy,
       CompositorExit
  <1>8. CASE UNCHANGED vars
    BY <1>8, Zenon
  <1>9. QED
    BY <1>1, <1>2, <1>3, <1>4, <1>5, <1>6, <1>7, <1>8, Zenon
       DEF Next, ThreadStep

LEMMA PasteStep == TypeOK /\ PasteInv /\ [Next]_vars => PasteInv'
  <1> SUFFICES ASSUME TypeOK, PasteInv, [Next]_vars PROVE PasteInv'
    OBVIOUS
  <1>1. QueueOrder'
    BY QueueOrderStep DEF TypeOK, PasteInv
  <1>t. /\ next \in Nat /\ held \in Holds \cup {None} /\ held < next
        /\ delivered \in [Holds -> Nat] /\ Holds \subseteq Nat
        /\ queue \in Seq(Jobs)
    BY BoundsAssumption DEF TypeOK, DataTypes, PasteInv, QueueOrder, Holds
  <1>2. CASE UNCHANGED delivered /\ next' \in {next, next + 1}
    <2>1. Unused' /\ PasteOnce'
      BY <1>2, <1>t DEF PasteInv, Unused, PasteOnce
    <2>2. Unread'
      <3>1. CASE /\ queue # <<>> /\ Head(queue).job = "Hold"
                 /\ held' = Head(queue).id
        <4>1. delivered[Head(queue).id] = 0
          BY <1>t, <3>1, TailFacts DEF PasteInv, QueueOrder
        <4>2. QED
          BY <1>2, <3>1, <4>1, Zenon DEF Unread
      <3>2. QED
        BY <1>2, <3>1, HeldStep, Zenon DEF PasteInv, Unread
    <2>3. QED
      BY <1>1, <2>1, <2>2 DEF PasteInv
  <1>3. CASE /\ held # None /\ ~consumed
             /\ delivered' = [delivered EXCEPT ![held] = @ + 1]
             /\ consumed' = TRUE /\ UNCHANGED <<held, next>>
    <2>1. delivered[held] = 0
      BY <1>3, Zenon DEF PasteInv, Unread
    <2>2. Unread'
      BY <1>3, Zenon DEF Unread
    <2>3. delivered' = [delivered EXCEPT ![held] = @ + 1] /\ next' = next
          /\ held \in Holds
      BY <1>3, <1>t, Zenon DEF None
    <2>4. Unused' /\ PasteOnce'
      BY <1>t, <2>1, <2>3 DEF PasteInv, Unused, PasteOnce
    <2>5. QED
      BY <1>1, <2>2, <2>4 DEF PasteInv
  <1>4. QED
    BY <1>2, <1>3, CountStep

(* Paste-once for any number of copies, pastes and interleavings: no secret *)
(* is ever written to a second reader (clipboard.rs 233-237, 484-503).      *)
THEOREM SecretsPastedOnce == Spec => []PasteOnce
  <1>1. Init => QueueOrder /\ Unused /\ PasteOnce
    BY BoundsAssumption
       DEF Init, QueueOrder, Unused, PasteOnce, None, Holds
  <1>2. Init => Unread
    BY Zenon DEF Init, Unread
  <1>3. PasteInv => PasteOnce
    BY DEF PasteInv
  <1>4. QED
    BY <1>1, <1>2, <1>3, PasteStep, TypeCorrect, PTL DEF Spec, PasteInv

-----------------------------------------------------------------------------
(* What the thread promises those around it: the command that waits for     *)
(* its secret to be pasted, and the clients that see what is offered.       *)

(* The done signal.  The command copies once; its sender is in the queue,   *)
(* in done_tx beside the secret, or was raised.                             *)
DoneInv ==
  mode = "cli" =>
    /\ next \in {1, 2} /\ doneTx = held
    /\ \A i \in DOMAIN queue : queue[i].job = "Hold" => queue[i].done
    /\ 1 \in signalled <=> next = 2 /\ ~Queued(1) /\ held # 1

LEMMA DoneStep ==
  ASSUME TypeOK, PasteInv, DoneInv, [Next]_vars
  PROVE  DoneInv'
  <1> DEFINE Same == UNCHANGED <<mode, next, queue, held, doneTx, signalled>>
  <1>0. Same => DoneInv'
    BY DEF DoneInv, Queued
  <1> SUFFICES ASSUME mode' = "cli" PROVE DoneInv'
    BY DEF DoneInv
  <1>t. /\ queue \in Seq(Jobs) /\ next \in Nat /\ held \in Nat /\ held < next
        /\ \A i \in DOMAIN queue : queue[i].job = "Hold" =>
             held < queue[i].id /\ queue[i].id < next /\ queue[i].id \in Nat
        /\ \A i, j \in DOMAIN queue :
             queue[i].job = "Hold" /\ queue[j].job = "Hold" /\ i < j => queue[i].id < queue[j].id
        /\ \A i \in DOMAIN queue : queue[i].done => queue[i].job = "Hold"
    BY BoundsAssumption DEF TypeOK, DataTypes, Holds, None, PasteInv, QueueOrder, Jobs, Shutdown
  <1>1. ASSUME NEW flushed, Gone(flushed, Signal(doneTx)), UNCHANGED <<mode, next>>
        PROVE  DoneInv'
    <2>1. held' = None /\ doneTx' = None /\ queue' = <<>> /\ ~Queued(1)'
      BY <1>1 DEF Gone, Queued
    <2>2. 1 \in signalled' <=> 1 \in signalled \/ doneTx = 1 \/ \E i \in DOMAIN queue :
                                 queue[i].done /\ queue[i].id = 1
      BY <1>1 DEF Gone, Signal, None
    <2>3. 1 \in signalled' <=> next = 2
      BY <1>1, <1>t, <2>2 DEF DoneInv, Queued
    <2>4. QED
      BY <1>1, <2>1, <2>3 DEF DoneInv, None
  <1>2. CASE Fail \/ Exit
    BY <1>1, <1>2, Zenon DEF Fail, Exit
  <1>3. CASE Connect \/ Snapshot \/ DispatchDead \/ DispatchSend \/ DispatchSendOther
             \/ DispatchDone \/ RecvEmpty \/ Flush
    <2>1. Same
      BY <1>3, Zenon DEF Connect, Snapshot, DispatchDead, DispatchSend, DispatchSendOther,
         DispatchDone, RecvEmpty, Flush
    <2>2. QED
      BY <1>0, <2>1
  <1>4. ASSUME held' = None, doneTx' = None, signalled' = Signal(doneTx),
               UNCHANGED <<mode, next, queue>>
        PROVE  DoneInv'
    BY <1>4, <1>t DEF DoneInv, Signal, Queued, None
  <1>5. CASE DispatchCancelled
    BY <1>4, <1>5, Zenon DEF DispatchCancelled
  <1>6. CASE Teardown
    <2>1. \/ Same
          \/ /\ held' = None /\ doneTx' = None /\ signalled' = Signal(doneTx)
             /\ UNCHANGED <<mode, next, queue>>
      BY <1>6, Zenon DEF Teardown
    <2>2. QED
      BY <1>0, <1>4, <2>1
  <1>7. CASE RecvHold
    <2>1. /\ queue # <<>> /\ Head(queue).job = "Hold" /\ held' = Head(queue).id
          /\ doneTx' = (IF Head(queue).done THEN held' ELSE None)
          /\ signalled' = Signal(doneTx) /\ queue' = Tail(queue)
          /\ UNCHANGED <<mode, next>>
      BY <1>7, Zenon DEF RecvHold
    <2>2. Head(queue) = queue[1] /\ 1 \in DOMAIN queue
          /\ \A i \in DOMAIN queue' : queue'[i] = queue[i + 1] /\ i + 1 \in DOMAIN queue /\ 1 < i + 1
      BY <1>t, <2>1, TailFacts
    <2>3. held' = 1 /\ next = 2 /\ held = 0 /\ doneTx' = 1 /\ Queued(1)
      BY <1>t, <2>1, <2>2 DEF DoneInv, Queued
    <2>4. signalled' = signalled
      BY <2>1, <2>3 DEF Signal, DoneInv, None
    <2>5. ~Queued(1)'
      BY <1>t, <2>1, <2>2, <2>3 DEF Queued
    <2>6. \A i \in DOMAIN queue' : queue'[i].job = "Hold" => queue'[i].done
      BY <2>1, <2>2 DEF DoneInv
    <2>7. QED
      BY <2>1, <2>3, <2>4, <2>5, <2>6 DEF DoneInv
  <1>8. CASE RecvShutdown
    <2>1. /\ queue # <<>> /\ Head(queue).job = "Shutdown" /\ queue' = Tail(queue)
          /\ UNCHANGED <<mode, next, held, doneTx, signalled>>
      BY <1>8, Zenon DEF RecvShutdown
    <2>2. /\ Head(queue) = queue[1] /\ DOMAIN queue = 1..Len(queue)
          /\ DOMAIN queue' = 1..(Len(queue) - 1) /\ Len(queue) \in Nat
          /\ \A i \in DOMAIN queue' : queue'[i] = queue[i + 1] /\ i + 1 \in DOMAIN queue
      BY <1>t, <2>1, TailFacts
    <2>3. \A i \in DOMAIN queue : i = 1 \/ (i - 1 \in DOMAIN queue' /\ queue'[i - 1] = queue[i])
      BY <2>2
    <2>4. Queued(1)' <=> Queued(1)
      <3>1. ASSUME Queued(1)' PROVE Queued(1)
        <4>1. PICK i \in DOMAIN queue' : queue'[i].job = "Hold" /\ queue'[i].id = 1
          BY <3>1 DEF Queued
        <4>2. QED
          BY <2>2, <4>1 DEF Queued
      <3>2. ASSUME Queued(1) PROVE Queued(1)'
        <4>1. PICK i \in DOMAIN queue : queue[i].job = "Hold" /\ queue[i].id = 1
          BY <3>2 DEF Queued
        <4>2. i # 1
          BY <2>1, <2>2, <4>1
        <4>3. QED
          BY <2>3, <4>1, <4>2 DEF Queued
      <3>3. QED
        BY <3>1, <3>2
    <2>5. QED
      BY <2>1, <2>2, <2>4 DEF DoneInv
  <1>9. CASE PollReady \/ PollTimeout \/ PollInterrupted
    <2>1. Same
      BY <1>9, Zenon DEF PollReady, PollTimeout, PollInterrupted
    <2>2. QED
      BY <1>0, <2>1
  <1>10. CASE SendHold
    <2>1. /\ mode = "cli" /\ next = 1 /\ next' = 2
          /\ UNCHANGED <<mode, held, doneTx>>
      BY <1>10 DEF SendHold
    <2>2. held = 0 /\ ~Queued(1) /\ 1 \notin signalled
      BY <1>t, <2>1 DEF Queued, DoneInv
    <2>3. CASE pc \in Dead
      <3>1. queue' = queue /\ signalled' = signalled \cup {next}
        BY <1>10, <2>1, <2>3, Zenon DEF SendHold, Send
      <3>2. QED
        BY <2>1, <2>2, <3>1 DEF DoneInv, Queued
    <2>4. CASE pc \notin Dead
      <3> DEFINE e == Hold(next, mode = "cli")
      <3>1. queue' = Append(queue, e) /\ signalled' = signalled
        BY <1>10, <2>4, Zenon DEF SendHold, Send
      <3>2. e \in Jobs /\ e.job = "Hold" /\ e.id = 1 /\ e.done
        BY <1>10, <2>1 DEF SendHold, Hold, Jobs
      <3> HIDE DEF e
      <3>3. /\ DOMAIN queue = 1..Len(queue) /\ Len(queue) \in Nat
            /\ DOMAIN queue' = 1..(Len(queue) + 1)
            /\ \A i \in DOMAIN queue : queue'[i] = queue[i]
            /\ queue'[Len(queue) + 1] = e
        BY <1>t, <3>1, <3>2, AppendFacts
      <3>4. Queued(1)'
        BY <3>2, <3>3 DEF Queued
      <3>5. \A i \in DOMAIN queue' : queue'[i].job = "Hold" => queue'[i].done
        <4>1. \A i \in DOMAIN queue' : i \in DOMAIN queue \/ i = Len(queue) + 1
          BY <3>3
        <4>2. QED
          BY <2>1, <3>2, <3>3, <4>1 DEF DoneInv
      <3>6. QED
        BY <2>1, <2>2, <3>1, <3>4, <3>5 DEF DoneInv
    <2>5. QED
      BY <2>3, <2>4
  <1>11. CASE DropSend
    <2>1. UNCHANGED <<mode, next, held, doneTx, signalled>>
          /\ (queue' = queue \/ queue' = Append(queue, Shutdown))
      BY <1>11, Zenon DEF DropSend, Send
    <2>2. CASE queue' = Append(queue, Shutdown)
      <3>1. Shutdown \in Jobs /\ Shutdown.job # "Hold"
        BY DEF Jobs, Shutdown
      <3>2. /\ DOMAIN queue = 1..Len(queue) /\ Len(queue) \in Nat
            /\ DOMAIN queue' = 1..(Len(queue) + 1)
            /\ \A i \in DOMAIN queue : queue'[i] = queue[i]
            /\ queue'[Len(queue) + 1] = Shutdown
        BY <1>t, <2>2, <3>1, AppendFacts
      <3>3. \A i \in DOMAIN queue' : i \in DOMAIN queue \/ i = Len(queue) + 1
        BY <3>2
      <3>4. Queued(1)' <=> Queued(1)
        BY <3>1, <3>2, <3>3 DEF Queued
      <3>5. QED
        BY <2>1, <3>1, <3>2, <3>3, <3>4 DEF DoneInv
    <2>3. QED
      BY <1>0, <2>1, <2>2
  <1>12. CASE OwnerStep
    <2>1. Same
      BY <1>12, Zenon DEF OwnerStep, Wake, WaitSignalled, WaitTimeout, DropClose
    <2>2. QED
      BY <1>0, <2>1
  <1>13. CASE ProcessExit
    <2>1. Same \/ (Gone(<<>>, Signal(doneTx)) /\ UNCHANGED <<mode, next>>)
      BY <1>13, Zenon DEF ProcessExit
    <2>2. QED
      BY <1>0, <1>1, <2>1
  <1>14. CASE ServeRequest \/ Paste \/ ReadOtherType \/ ForeignCopy \/ CompositorExit
    <2>1. Same
      BY <1>14, Zenon DEF ServeRequest, Paste, ReadOtherType, Read, ForeignCopy, CompositorExit
    <2>2. QED
      BY <1>0, <2>1
  <1>15. CASE UNCHANGED vars
    BY <1>0, <1>15, Zenon
  <1>16. QED
    BY <1>2, <1>3, <1>5, <1>6, <1>7, <1>8, <1>9, <1>10, <1>11, <1>12, <1>13, <1>14, <1>15,
       Zenon DEF Next, ThreadStep

(* What holds of the queue and the secrets at first, for every proof here.  *)
LEMMA PasteInits == Init => PasteInv
  BY BoundsAssumption DEF Init, PasteInv, QueueOrder, Unused, Unread, PasteOnce, None, Holds

(* The command that waits is told once its secret is gone, on every path    *)
(* and not before.                                                          *)
THEOREM WaitersAreTold == Spec => []DoneExact
  <1>1. Init => DoneInv
    BY DEF Init, DoneInv, Queued, None
  <1>2. TypeOK /\ PasteInv /\ DoneInv => DoneExact
    BY DEF TypeOK, DataTypes, DoneInv, DoneExact
  <1>3. QED
    BY <1>1, <1>2, PasteInits, PasteStep, DoneStep, TypeCorrect, PTL DEF Spec

-----------------------------------------------------------------------------
(* What the compositor offers.  Every selection that is not the secret held, *)
(* made or still to be made, has a request behind it that takes it away.    *)
Pending == reqs \o out
Ends(r, s) == r.op = "Disconnect" \/ (r.op = "Destroy" /\ r.src = s)
TakenAway(P, s, h) ==
  /\ s \notin {None, h} => \E j \in DOMAIN P : Ends(P[j], s)
  /\ \A i \in DOMAIN P : P[i].op = "Set" /\ P[i].src # h =>
       \E j \in DOMAIN P : i < j /\ Ends(P[j], P[i].src)
OfferInv == connUp => TakenAway(Pending, sel, held)

LEMMA ConcatFacts ==
  ASSUME NEW P \in Seq(Requests), NEW X \in Seq(Requests)
  PROVE  /\ P \o X \in Seq(Requests)
         /\ \A i \in DOMAIN P : i \in DOMAIN (P \o X) /\ (P \o X)[i] = P[i]
         /\ \A j \in DOMAIN X : /\ Len(P) + j \in DOMAIN (P \o X)
                                /\ (P \o X)[Len(P) + j] = X[j]
                                /\ \A i \in DOMAIN P : i < Len(P) + j
         /\ \A i \in DOMAIN (P \o X) : i \in DOMAIN P \/ \E j \in DOMAIN X : i = Len(P) + j
  <1>1. /\ P \o X \in Seq(Requests) /\ Len(P) \in Nat /\ Len(X) \in Nat
        /\ Len(P \o X) = Len(P) + Len(X)
        /\ DOMAIN P = 1..Len(P) /\ DOMAIN X = 1..Len(X)
        /\ DOMAIN (P \o X) = 1..(Len(P) + Len(X))
    OBVIOUS
  <1>2. \A i \in 1..(Len(P) + Len(X)) :
          (P \o X)[i] = IF i <= Len(P) THEN P[i] ELSE X[i - Len(P)]
    BY ConcatProperties
  <1>3. \A i \in DOMAIN P : i \in DOMAIN (P \o X) /\ (P \o X)[i] = P[i]
    BY <1>1, <1>2
  <1>4. \A j \in DOMAIN X : /\ Len(P) + j \in DOMAIN (P \o X)
                            /\ (P \o X)[Len(P) + j] = X[j]
                            /\ \A i \in DOMAIN P : i < Len(P) + j
    BY <1>1, <1>2
  <1>5. ASSUME NEW i \in DOMAIN (P \o X), i \notin DOMAIN P
        PROVE  \E j \in DOMAIN X : i = Len(P) + j
    <2>1. i - Len(P) \in DOMAIN X /\ i = Len(P) + (i - Len(P))
      BY <1>1, <1>5
    <2>2. QED
      BY <2>1
  <1>6. QED
    BY <1>1, <1>3, <1>4, <1>5

LEMMA ConcatRequests ==
  \A P, X, Y \in Seq(Requests) : P \o (X \o Y) = (P \o X) \o Y
  BY ConcatAssociative

LEMMA Extend ==
  ASSUME NEW P \in Seq(Requests), NEW X \in Seq(Requests), NEW s, NEW h, NEW h2,
         TakenAway(P, s, h),
         h \notin {None, h2} => \E j \in DOMAIN X : Ends(X[j], h),
         \A i \in DOMAIN X : X[i].op = "Set" => X[i].src = h2,
         \A i \in DOMAIN P : P[i].op = "Set" => P[i].src # None
  PROVE  TakenAway(P \o X, s, h2)
  <1> DEFINE Q == P \o X
  <1>1. /\ \A i \in DOMAIN P : i \in DOMAIN Q /\ Q[i] = P[i]
        /\ \A j \in DOMAIN X : /\ Len(P) + j \in DOMAIN Q /\ Q[Len(P) + j] = X[j]
                               /\ \A i \in DOMAIN P : i < Len(P) + j
        /\ \A i \in DOMAIN Q : i \in DOMAIN P \/ \E j \in DOMAIN X : i = Len(P) + j
    BY ConcatFacts
  <1> HIDE DEF Q
  <1>2. s \notin {None, h2} => \E j \in DOMAIN Q : Ends(Q[j], s)
    BY <1>1 DEF TakenAway
  <1>3. ASSUME NEW i \in DOMAIN Q, Q[i].op = "Set", Q[i].src # h2
        PROVE  \E j \in DOMAIN Q : i < j /\ Ends(Q[j], Q[i].src)
    <2>1. i \in DOMAIN P /\ Q[i] = P[i]
      BY <1>1, <1>3
    <2>2. CASE P[i].src = h
      BY <1>1, <1>3, <2>1, <2>2
    <2>3. CASE P[i].src # h
      BY <1>1, <1>3, <2>1, <2>3 DEF TakenAway
    <2>4. QED
      BY <2>2, <2>3
  <1>4. TakenAway(Q, s, h2)
    BY <1>2, <1>3 DEF TakenAway
  <1>5. QED
    BY <1>4 DEF Q

(* A connection that ends takes everything away. *)
LEMMA Cut ==
  ASSUME NEW P \in Seq(Requests), NEW s, NEW h
  PROVE  TakenAway(P \o <<Disconnect>>, s, h)
  <1> DEFINE Q == P \o <<Disconnect>>
  <1>1. <<Disconnect>> \in Seq(Requests) /\ DOMAIN <<Disconnect>> = {1} /\ <<Disconnect>>[1] = Disconnect
    BY RequestTypes, None \in Holds \cup {None}
  <1>2. /\ Len(P) + 1 \in DOMAIN Q /\ Q[Len(P) + 1] = Disconnect
        /\ \A i \in DOMAIN P : i < Len(P) + 1 /\ Q[i] = P[i]
        /\ \A i \in DOMAIN Q : i \in DOMAIN P \/ i = Len(P) + 1
    BY <1>1, ConcatFacts
  <1> HIDE DEF Q
  <1>3. Disconnect.op = "Disconnect"
    BY DEF Disconnect
  <1>4. \A i \in DOMAIN Q : Q[i].op = "Set" => i < Len(P) + 1
    BY <1>2, <1>3
  <1>5. \A u : Ends(Q[Len(P) + 1], u)
    BY <1>2, <1>3 DEF Ends
  <1>6. TakenAway(Q, s, h)
    BY <1>2, <1>4, <1>5 DEF TakenAway
  <1>7. QED
    BY <1>6 DEF Q

(* The compositor serves the oldest request. *)
LEMMA Serve ==
  ASSUME NEW P \in Seq(Requests), P # <<>>, NEW s, NEW t, NEW h, TakenAway(P, s, h),
         P[1].op = "Set" => t = P[1].src,
         P[1].op # "Set" => t \in {None, s} /\ (Ends(P[1], s) => t = None)
  PROVE  TakenAway(Tail(P), t, h)
  <1> DEFINE T == Tail(P)
  <1>1. /\ DOMAIN P = 1..Len(P) /\ Len(P) \in Nat /\ 1 \in DOMAIN P
        /\ \A i \in DOMAIN T : T[i] = P[i + 1] /\ i + 1 \in DOMAIN P /\ i \in Nat
        /\ \A j \in DOMAIN P : j > 1 => j - 1 \in DOMAIN T /\ T[j - 1] = P[j]
    BY TailFacts
  <1> HIDE DEF T
  <1>2. ASSUME t \notin {None, h} PROVE \E j \in DOMAIN T : Ends(T[j], t)
    <2>1. CASE P[1].op = "Set"
      <3>1. PICK j \in DOMAIN P : 1 < j /\ Ends(P[j], t)
        BY <1>1, <1>2, <2>1 DEF TakenAway
      <3>2. QED
        BY <1>1, <3>1
    <2>2. CASE P[1].op # "Set"
      <3>1. t = s /\ ~Ends(P[1], s)
        BY <1>2, <2>2
      <3>2. PICK j \in DOMAIN P : Ends(P[j], s)
        BY <1>2, <3>1 DEF TakenAway
      <3>3. j > 1
        BY <1>1, <3>1, <3>2
      <3>4. QED
        BY <1>1, <3>1, <3>2, <3>3
    <2>3. QED
      BY <2>1, <2>2
  <1>3. ASSUME NEW i \in DOMAIN T, T[i].op = "Set", T[i].src # h
        PROVE  \E j \in DOMAIN T : i < j /\ Ends(T[j], T[i].src)
    <2>1. PICK j \in DOMAIN P : i + 1 < j /\ Ends(P[j], P[i + 1].src)
      BY <1>1, <1>3 DEF TakenAway
    <2>2. j - 1 \in DOMAIN T /\ T[j - 1] = P[j] /\ i < j - 1
      BY <1>1, <2>1
    <2>3. QED
      BY <1>1, <2>1, <2>2
  <1>4. TakenAway(T, t, h)
    BY <1>2, <1>3 DEF TakenAway
  <1>5. QED
    BY <1>4 DEF T

LEMMA OfferStep ==
  ASSUME TypeOK, PasteInv, OfferInv, [Next]_vars
  PROVE  OfferInv'
  <1> DEFINE Same == UNCHANGED <<reqs, out, sel, held, connUp>>
  <1>0. Same => OfferInv'
    BY DEF OfferInv, Pending, TakenAway
  <1> SUFFICES ASSUME connUp' PROVE OfferInv'
    BY DEF OfferInv
  <1>t. /\ reqs \in Seq(Requests) /\ out \in Seq(Requests) /\ Pending \in Seq(Requests)
        /\ source = held /\ held \in Holds \cup {None} /\ DestroyReq(held) \in Seq(Requests)
        /\ \A P \in Seq(Requests) : \A i \in DOMAIN P : P[i].op = "Set" => P[i].src # None
    <2>1. /\ reqs \in Seq(Requests) /\ out \in Seq(Requests) /\ held \in Holds \cup {None}
          /\ source = held
      BY DEF TypeOK, DataTypes, PasteInv, QueueOrder
    <2>2. \A P \in Seq(Requests) : \A i \in DOMAIN P : P[i].op = "Set" => P[i].src # None
      <3>1. \A r \in Requests : r.op = "Set" => r.src # None
        BY DEF Requests, Holds, None
      <3>2. QED
        BY <3>1
    <2>3. QED
      BY <2>1, <2>2, RequestTypes DEF Pending
  <1>1. ASSUME NEW flushed \in Seq(Requests), NEW raised, Gone(flushed, raised),
               UNCHANGED <<connUp, sel>>
        PROVE  OfferInv'
    <2>1. reqs' = (reqs \o flushed) \o <<Disconnect>> /\ out' = <<>>
      BY <1>1 DEF Gone
    <2>2. reqs \o flushed \in Seq(Requests) /\ reqs' \in Seq(Requests)
      BY <1>1, <1>t, <2>1, RequestTypes
    <2>3. Pending' = reqs'
      BY <2>1, <2>2, ConcatEmptySeq DEF Pending
    <2>4. TakenAway(reqs', sel', held')
      BY <2>1, <2>2, Cut
    <2>5. QED
      BY <2>3, <2>4 DEF OfferInv
  <1>2. CASE Fail
    BY <1>2 DEF Fail
  <1>3. CASE Exit
    <2>1. Gone(out \o DestroyReq(source), Signal(doneTx)) /\ UNCHANGED <<connUp, sel>>
      BY <1>3, Zenon DEF Exit
    <2>2. out \o DestroyReq(source) \in Seq(Requests)
      BY <1>t
    <2>3. QED
      BY <1>1, <2>1, <2>2
  <1>4. CASE ProcessExit
    <2>1. Same \/ (Gone(<<>>, Signal(doneTx)) /\ UNCHANGED <<connUp, sel>>)
      <3>1. CASE pc \in Dead
        BY <1>4, <3>1 DEF ProcessExit
      <3>2. CASE pc \notin Dead
        BY <1>4, <3>2, Zenon DEF ProcessExit
      <3>3. QED
        BY <3>1, <3>2
    <2>2. <<>> \in Seq(Requests)
      OBVIOUS
    <2>3. QED
      BY <1>0, <1>1, <2>1, <2>2
  <1>5. TakenAway(Pending, sel, held) => TakenAway(Pending \o DestroyReq(held), sel, None)
    <2>1. held # None => \E j \in DOMAIN DestroyReq(held) : Ends(DestroyReq(held)[j], held)
      BY DEF DestroyReq, Ends
    <2>2. \A i \in DOMAIN DestroyReq(held) : DestroyReq(held)[i].op # "Set"
      BY DEF DestroyReq
    <2>3. QED
      BY <1>t, <2>1, <2>2, Extend
  <1>6. ASSUME held' = None, out' = out \o DestroyReq(source), UNCHANGED <<reqs, sel, connUp>>
        PROVE  OfferInv'
    <2>1. Pending' = Pending \o DestroyReq(held)
      BY <1>6, <1>t, ConcatAssociative DEF Pending
    <2>2. QED
      BY <1>5, <1>6, <2>1 DEF OfferInv
  <1>7. CASE DispatchCancelled
    BY <1>6, <1>7, Zenon DEF DispatchCancelled
  <1>8. CASE Teardown
    <2>1. \/ Same
          \/ /\ held' = None /\ out' = out \o DestroyReq(source)
             /\ UNCHANGED <<reqs, sel, connUp>>
      BY <1>8, Zenon DEF Teardown
    <2>2. QED
      BY <1>0, <1>6, <2>1
  <1>9. CASE RecvHold
    <2> DEFINE h == Head(queue).id
               S == <<[op |-> "Set", src |-> h]>>
    <2>1. /\ queue # <<>> /\ Head(queue).job = "Hold" /\ held' = h
          /\ out' = (out \o DestroyReq(source)) \o S /\ UNCHANGED <<reqs, sel, connUp>>
      BY <1>9, Zenon DEF RecvHold
    <2>2. h \in Holds
      <3>1. Head(queue) \in Jobs
        BY <2>1, TailFacts DEF TypeOK, DataTypes
      <3>2. QED
        BY <2>1, <3>1 DEF Jobs, Shutdown
    <2>3. S \in Seq(Requests)
      BY <2>2, SetRequest
    <2>4. \A i \in DOMAIN S : S[i].op = "Set" => S[i].src = h
      OBVIOUS
    <2> HIDE DEF S, h
    <2>5. Pending \o DestroyReq(held) \in Seq(Requests) /\ out \o DestroyReq(held) \in Seq(Requests)
      BY <1>t
    <2>6. Pending' = (Pending \o DestroyReq(held)) \o S
      <3>1. Pending \o DestroyReq(held) = reqs \o (out \o DestroyReq(held))
        BY <1>t, ConcatAssociative DEF Pending
      <3>2. Pending' = reqs \o ((out \o DestroyReq(held)) \o S)
        BY <1>t, <2>1 DEF Pending
      <3>3. reqs \o ((out \o DestroyReq(held)) \o S) = (reqs \o (out \o DestroyReq(held))) \o S
        <4> DEFINE X == out \o DestroyReq(held)
        <4>1. X \in Seq(Requests)
          BY <2>5
        <4> HIDE DEF X
        <4>2. reqs \in Seq(Requests) /\ S \in Seq(Requests)
          BY <1>t, <2>3
        <4>3. reqs \o (X \o S) = (reqs \o X) \o S
          BY ONLY <4>1, <4>2, ConcatRequests
        <4>4. QED
          BY <4>3 DEF X
      <3>4. QED
        BY <3>1, <3>2, <3>3
    <2>7. TakenAway(Pending \o DestroyReq(held), sel, None)
      BY <1>5, <2>1 DEF OfferInv
    <2>8. TakenAway((Pending \o DestroyReq(held)) \o S, sel, h)
      BY <1>t, <2>3, <2>4, <2>5, <2>7, Extend
    <2>9. QED
      BY <2>1, <2>6, <2>8 DEF OfferInv
  <1>10. CASE Flush
    <2>1. reqs' = Pending /\ out' = <<>> /\ UNCHANGED <<sel, held, connUp>>
      BY <1>10 DEF Flush, Pending
    <2>2. Pending' = Pending
      BY <1>t, <2>1, ConcatEmptySeq DEF Pending
    <2>3. QED
      BY <2>1, <2>2 DEF OfferInv
  <1>11. CASE ServeRequest
    <2>1. /\ reqs # <<>> /\ reqs' = Tail(reqs) /\ UNCHANGED <<out, held, connUp>>
          /\ sel' = LET r == Head(reqs) IN
                      CASE r.op = "Set" -> r.src
                        [] r.op = "Destroy" -> IF sel = r.src THEN None ELSE sel
                        [] r.op = "Disconnect" -> None
      BY <1>11, Zenon DEF ServeRequest
    <2>2. Head(reqs) \in Requests /\ Head(reqs) = reqs[1] /\ 1 \in DOMAIN reqs
      BY <1>t, <2>1, TailFacts
    <2>3. Head(reqs).op \in {"Set", "Destroy", "Disconnect"}
      BY <2>2 DEF Requests
    <2>4. /\ Head(reqs).op = "Set" => sel' = Head(reqs).src
          /\ Head(reqs).op # "Set" =>
               sel' \in {None, sel} /\ (Ends(Head(reqs), sel) => sel' = None)
      BY <2>1, <2>3 DEF Ends
    <2>5. Pending[1] = Head(reqs) /\ Pending # <<>>
      BY <1>t, <2>2, ConcatFacts DEF Pending
    <2>6. Pending' = Tail(Pending)
      BY <1>t, <2>1 DEF Pending
    <2>7. TakenAway(Pending, sel, held)
      BY <2>1 DEF OfferInv
    <2>8. TakenAway(Tail(Pending), sel', held)
      BY <1>t, <2>4, <2>5, <2>7, Serve
    <2>9. QED
      BY <2>1, <2>6, <2>8 DEF OfferInv
  <1>12. CASE ForeignCopy
    <2>1. sel' = None /\ UNCHANGED <<reqs, out, held, connUp>>
      BY <1>12, Zenon DEF ForeignCopy
    <2>2. QED
      BY <2>1 DEF OfferInv, Pending, TakenAway
  <1>13. CASE CompositorExit
    BY <1>13 DEF CompositorExit
  <1>14. CASE Connect \/ Snapshot \/ DispatchDead \/ DispatchSend \/ DispatchSendOther
              \/ DispatchDone \/ RecvShutdown \/ RecvEmpty
    <2>1. Same
      BY <1>14, Zenon DEF Connect, Snapshot, DispatchDead, DispatchSend, DispatchSendOther,
         DispatchDone, RecvShutdown, RecvEmpty
    <2>2. QED
      BY <1>0, <2>1
  <1>15. CASE PollReady \/ PollTimeout \/ PollInterrupted \/ SendHold \/ DropSend \/ OwnerStep
              \/ Paste \/ ReadOtherType
    <2>1. Same
      BY <1>15, Zenon DEF PollReady, PollTimeout, PollInterrupted, SendHold, DropSend, OwnerStep,
         Wake, WaitSignalled, WaitTimeout, DropClose, Paste, ReadOtherType, Read
    <2>2. QED
      BY <1>0, <2>1
  <1>16. CASE UNCHANGED vars
    BY <1>0, <1>16, Zenon
  <1>17. QED
    BY <1>2, <1>3, <1>4, <1>7, <1>8, <1>9, <1>10, <1>11, <1>12, <1>13, <1>14, <1>15, <1>16,
       Zenon DEF Next, ThreadStep

(* What the compositor offers, once the requests are served, is what the    *)
(* thread holds, however the source went away.                              *)
THEOREM OffersMatchHeld == Spec => []OfferMatchesHeld
  <1>1. Init => OfferInv
    BY DEF Init, OfferInv, Pending, TakenAway
  <1>2. TypeOK /\ OfferInv => OfferMatchesHeld
    BY DEF OfferInv, TakenAway, Pending, OfferMatchesHeld
  <1>3. QED
    BY <1>1, <1>2, PasteInits, PasteStep, OfferStep, TypeCorrect, PTL DEF Spec

-----------------------------------------------------------------------------
(* The refinement.  A step of the thread, its channel or the compositor is  *)
(* a step of OneShot or changes nothing it knows of.                        *)
LEMMA TailQueued ==
  ASSUME queue \in Seq(Jobs), queue # <<>>, queue' = Tail(queue), NEW g
  PROVE  Queued(g) <=> Queued(g)' \/ (Head(queue).job = "Hold" /\ Head(queue).id = g)
  <1>1. /\ Head(queue) = queue[1] /\ DOMAIN queue = 1..Len(queue) /\ 1 \in DOMAIN queue
        /\ DOMAIN queue' = 1..(Len(queue) - 1) /\ Len(queue) \in Nat
        /\ \A i \in DOMAIN queue' : queue'[i] = queue[i + 1] /\ i + 1 \in DOMAIN queue
    BY TailFacts
  <1>2. \A i \in DOMAIN queue : i = 1 \/ (i - 1 \in DOMAIN queue' /\ queue'[i - 1] = queue[i])
    BY <1>1
  <1>3. ASSUME Queued(g)' PROVE Queued(g)
    <2>1. PICK i \in DOMAIN queue' : queue'[i].job = "Hold" /\ queue'[i].id = g
      BY <1>3 DEF Queued
    <2>2. QED
      BY <1>1, <2>1 DEF Queued
  <1>4. ASSUME Head(queue).job = "Hold", Head(queue).id = g PROVE Queued(g)
    BY <1>1, <1>4 DEF Queued
  <1>5. ASSUME Queued(g) PROVE Queued(g)' \/ (Head(queue).job = "Hold" /\ Head(queue).id = g)
    <2>1. PICK i \in DOMAIN queue : queue[i].job = "Hold" /\ queue[i].id = g
      BY <1>5 DEF Queued
    <2>2. CASE i = 1
      BY <1>1, <2>1, <2>2
    <2>3. CASE i # 1
      BY <1>2, <2>1, <2>3 DEF Queued
    <2>4. QED
      BY <2>2, <2>3
  <1>6. QED
    BY <1>3, <1>4, <1>5

LEMMA AppendQueued ==
  ASSUME queue \in Seq(Jobs), NEW e \in Jobs, queue' = Append(queue, e), NEW g
  PROVE  Queued(g)' <=> Queued(g) \/ (e.job = "Hold" /\ e.id = g)
  <1>1. /\ DOMAIN queue = 1..Len(queue) /\ Len(queue) \in Nat
        /\ DOMAIN queue' = 1..(Len(queue) + 1)
        /\ \A i \in DOMAIN queue : queue'[i] = queue[i]
        /\ queue'[Len(queue) + 1] = e
    BY AppendFacts
  <1>2. \A i \in DOMAIN queue' : i \in DOMAIN queue \/ i = Len(queue) + 1
    BY <1>1
  <1>3. ASSUME Queued(g)' PROVE Queued(g) \/ (e.job = "Hold" /\ e.id = g)
    <2>1. PICK i \in DOMAIN queue' : queue'[i].job = "Hold" /\ queue'[i].id = g
      BY <1>3 DEF Queued
    <2>2. QED
      BY <1>1, <1>2, <2>1 DEF Queued
  <1>4. ASSUME Queued(g) PROVE Queued(g)'
    BY <1>1, <1>4 DEF Queued
  <1>5. ASSUME e.job = "Hold", e.id = g PROVE Queued(g)'
    BY <1>1, <1>5 DEF Queued
  <1>6. QED
    BY <1>3, <1>4, <1>5

(* The numbers queued and held are numbers handed out, and differ. *)
LEMMA QueuedFacts ==
  ASSUME TypeOK, PasteInv
  PROVE  /\ queue \in Seq(Jobs) /\ next \in Nat /\ held \in Nat /\ held < next
         /\ next \in 1..(MaxHolds + 1) /\ held \in Holds \cup {None}
         /\ \A g : Queued(g) => g \in Holds /\ held < g /\ g < next
         /\ queue # <<>> /\ Head(queue).job = "Hold" =>
              LET h == Head(queue).id IN
              /\ h \in Holds /\ Queued(h) /\ \A g : Queued(g) => g = h \/ h < g
  <1>1. /\ queue \in Seq(Jobs) /\ next \in 1..(MaxHolds + 1) /\ held \in Holds \cup {None}
        /\ next \in Nat /\ held \in Nat /\ held < next
        /\ \A i \in DOMAIN queue : queue[i].job = "Hold" =>
             queue[i].id \in Holds /\ held < queue[i].id /\ queue[i].id < next
        /\ \A i, j \in DOMAIN queue :
             queue[i].job = "Hold" /\ queue[j].job = "Hold" /\ i < j => queue[i].id < queue[j].id
    BY BoundsAssumption DEF TypeOK, DataTypes, Holds, None, PasteInv, QueueOrder, Jobs, Shutdown
  <1>2. \A g : Queued(g) => g \in Holds /\ held < g /\ g < next
    BY <1>1 DEF Queued
  <1>3. ASSUME queue # <<>>, Head(queue).job = "Hold"
        PROVE  LET h == Head(queue).id IN
               /\ h \in Holds /\ Queued(h) /\ \A g : Queued(g) => g = h \/ h < g
    <2>1. Head(queue) = queue[1] /\ 1 \in DOMAIN queue /\ DOMAIN queue = 1..Len(queue)
      BY <1>1, <1>3, TailFacts
    <2>2. \A i \in DOMAIN queue : i = 1 \/ 1 < i
      BY <1>1, <2>1
    <2>3. QED
      BY <1>1, <1>3, <2>1, <2>2 DEF Queued
  <1>4. QED
    BY <1>1, <1>2, <1>3

LEMMA StepIsOneShotStep ==
  ASSUME TypeOK, PasteInv, [Next]_vars
  PROVE  [Abstract!Next]_Abstract!vars
  <1> DEFINE ph == [h \in Holds |-> Phase(h)]
             Stutter == ph' = ph /\ UNCHANGED delivered
             Goal == Stutter \/ Abstract!Next
  <1> SUFFICES Goal
    BY DEF Abstract!vars
  <1>q. /\ queue \in Seq(Jobs) /\ next \in Nat /\ held \in Nat /\ held < next
        /\ next \in 1..(MaxHolds + 1) /\ held \in Holds \cup {None} /\ Holds \subseteq Nat
        /\ \A g : Queued(g) => g \in Holds /\ held < g /\ g < next
    BY QueuedFacts, BoundsAssumption DEF Holds
  <1>0. ASSUME UNCHANGED <<next, held, delivered>>, held = None \/ consumed' = consumed,
               \A g \in Holds : Queued(g)' <=> Queued(g)
        PROVE  Goal
    <2>1. \A g \in Holds : Phase(g)' = Phase(g)
      BY <1>0, <1>q DEF Phase, Holds, None
    <2>2. QED
      BY <1>0, <2>1
  <1>1. ASSUME NEW flushed, NEW raised, Gone(flushed, raised), UNCHANGED <<next, delivered>>
        PROVE  Goal
    <2>1. held' = None /\ \A g \in Holds : ~Queued(g)'
      BY <1>1 DEF Gone, Queued
    <2>2. \A g \in Holds : Phase(g)' = IF Phase(g) = "new" THEN "new" ELSE "withdrawn"
      BY <1>1, <1>q, <2>1 DEF Phase, Holds, None
    <2>3. Abstract!Close
      BY <1>1, <2>2 DEF Abstract!Close, Abstract!Holds, Holds
    <2>4. QED
      BY <2>3 DEF Abstract!Next
  <1>2. CASE Fail \/ Exit
    BY <1>1, <1>2, Zenon DEF Fail, Exit
  <1>3. CASE ProcessExit
    <2>1. \/ UNCHANGED <<next, held, delivered, consumed, queue>>
          \/ (Gone(<<>>, Signal(doneTx)) /\ UNCHANGED <<next, delivered>>)
      BY <1>3, Zenon DEF ProcessExit
    <2>2. QED
      BY <1>0, <1>1, <2>1 DEF Queued
  <1>4. ASSUME held' = None, UNCHANGED <<next, queue, delivered, consumed>> PROVE Goal
    <2>1. CASE held = None
      BY <1>0, <1>4, <2>1 DEF Queued
    <2>2. CASE held # None
      <3>1. \A g \in Holds : Phase(g)' = IF g = held THEN "withdrawn" ELSE Phase(g)
        BY <1>4, <1>q, <2>2 DEF Phase, Queued, Holds, None
      <3>2. held \in Holds /\ Phase(held) \in {"offered", "delivered"}
        BY <1>q, <2>2 DEF Phase
      <3>3. Abstract!Withdraw(held)
        BY <1>4, <3>1, <3>2 DEF Abstract!Withdraw, Abstract!Live
      <3>4. QED
        BY <3>2, <3>3 DEF Abstract!Next, Abstract!Holds, Holds
    <2>3. QED
      BY <2>1, <2>2
  <1>5. CASE DispatchCancelled
    BY <1>4, <1>5, Zenon DEF DispatchCancelled
  <1>6. CASE Teardown
    <2>1. \/ held' = None /\ UNCHANGED <<next, queue, delivered, consumed>>
          \/ UNCHANGED <<next, held, delivered, consumed, queue>>
      BY <1>6, Zenon DEF Teardown
    <2>2. QED
      BY <1>0, <1>4, <2>1 DEF Queued
  <1>7. CASE DispatchSend
    <2>1. /\ UNCHANGED <<next, held, queue>>
          /\ \/ UNCHANGED <<delivered, consumed>>
             \/ /\ ~consumed /\ held # None /\ consumed' = TRUE
                /\ delivered' = [delivered EXCEPT ![held] = @ + 1]
      BY <1>7, Zenon DEF DispatchSend
    <2>2. CASE UNCHANGED <<delivered, consumed>>
      BY <1>0, <2>1, <2>2 DEF Queued
    <2>3. CASE /\ ~consumed /\ held # None /\ consumed' = TRUE
               /\ delivered' = [delivered EXCEPT ![held] = @ + 1]
      <3>1. held \in Holds /\ Phase(held) = "offered"
        BY <1>q, <2>3 DEF Phase
      <3>2. \A g \in Holds : Phase(g)' = IF g = held THEN "delivered" ELSE Phase(g)
        BY <1>q, <2>1, <2>3 DEF Phase, Queued, Holds
      <3>3. Abstract!Deliver(held)
        BY <2>3, <3>1, <3>2 DEF Abstract!Deliver
      <3>4. QED
        BY <3>1, <3>3 DEF Abstract!Next, Abstract!Holds, Holds
    <2>4. QED
      BY <2>1, <2>2, <2>3
  <1>8. CASE RecvHold
    <2>11. /\ queue # <<>> /\ Head(queue).job = "Hold" /\ held' = Head(queue).id
           /\ consumed' = FALSE /\ queue' = Tail(queue) /\ UNCHANGED <<next, delivered>>
      BY <1>8, Zenon DEF RecvHold
    <2>12. Head(queue).id \in Holds
      BY <2>11, QueuedFacts
    <2> PICK h \in Holds : h = Head(queue).id
      BY <2>12
    <2>1. /\ queue # <<>> /\ Head(queue).job = "Hold" /\ held' = h /\ consumed' = FALSE
          /\ queue' = Tail(queue) /\ UNCHANGED <<next, delivered>>
      BY <2>11
    <2>2. h \in Holds /\ Queued(h) /\ \A g : Queued(g) => g = h \/ h < g
      BY <2>1, QueuedFacts
    <2>3. held \in Holds => Phase(held) \in {"offered", "delivered"}
      BY <1>q DEF Phase, Holds, None
    <2>4. \A g : Queued(g) <=> Queued(g)' \/ g = h
      BY <1>q, <2>1, TailQueued
    <2>5. ~Queued(h)'
      <3>1. QueueOrder'
        BY QueueOrderStep DEF TypeOK, PasteInv
      <3>2. \A i \in DOMAIN queue' : queue'[i].job = "Hold" => h < queue'[i].id
        BY <2>1, <3>1 DEF QueueOrder
      <3>3. h \in Nat /\ ~(h < h)
        BY <1>q, <2>2
      <3>4. QED
        BY <3>2, <3>3, Zenon DEF Queued
    <2>6. \A g \in Holds : Phase(g)' = IF g = h THEN "offered"
                                       ELSE IF Phase(g) \in {"offered", "delivered"} THEN "withdrawn"
                                       ELSE Phase(g)
      <3> SUFFICES ASSUME NEW g \in Holds
                   PROVE  Phase(g)' = IF g = h THEN "offered"
                                      ELSE IF Phase(g) \in {"offered", "delivered"} THEN "withdrawn"
                                      ELSE Phase(g)
        OBVIOUS
      <3>1. CASE g = h
        BY <1>q, <2>1, <2>2, <2>5, <3>1 DEF Phase
      <3>2. CASE g # h /\ Queued(g)
        <4>1. Queued(g)' /\ g < next /\ held < g /\ g \in Nat
          BY <1>q, <2>4, <3>2
        <4>2. Phase(g) = "requested" /\ Phase(g)' = "requested"
          BY <1>q, <2>1, <3>2, <4>1 DEF Phase
        <4>3. QED
          BY <3>2, <4>2
      <3>3. CASE g # h /\ ~Queued(g)
        <4>1. ~Queued(g)' /\ held' # g /\ g \in Nat
          BY <1>q, <2>1, <2>4, <3>3
        <4>2. Phase(g)' = IF g >= next THEN "new" ELSE "withdrawn"
          BY <2>1, <4>1 DEF Phase
        <4>3. QED
          BY <1>q, <3>3, <4>1, <4>2 DEF Phase
      <3>4. QED
        BY <3>1, <3>2, <3>3
    <2>7. Phase(h) = "requested" /\ \A g \in Holds : g < h => Phase(g) # "requested"
      BY <1>q, <2>2 DEF Phase, Holds
    <2>8. Abstract!Offer(h)
      BY <2>1, <2>2, <2>6, <2>7 DEF Abstract!Offer, Abstract!Live, Abstract!Holds, Holds
    <2>9. QED
      BY <2>2, <2>8 DEF Abstract!Next, Abstract!Holds, Holds
  <1>9. CASE RecvShutdown
    <2>1. /\ queue # <<>> /\ Head(queue).job = "Shutdown" /\ queue' = Tail(queue)
          /\ UNCHANGED <<next, held, delivered, consumed>>
      BY <1>9, Zenon DEF RecvShutdown
    <2>2. \A g : Queued(g)' <=> Queued(g)
      BY <1>q, <2>1, TailQueued
    <2>3. QED
      BY <1>0, <2>1, <2>2
  <1>10. CASE SendHold
    <2>1. next \in Holds /\ next' = next + 1 /\ UNCHANGED <<held, delivered, consumed>>
      BY <1>10, Zenon DEF SendHold
    <2>2. Phase(next) = "new" /\ \A g \in Holds : g < next => Phase(g) # "new"
      BY <1>q DEF Phase, Holds
    <2>3. ~Queued(next) /\ held # next
      BY <1>q
    <2>4. CASE pc \in Dead
      <3>1. queue' = queue
        BY <1>10, <2>4, Zenon DEF SendHold, Send
      <3>2. \A g \in Holds : Phase(g)' = IF g = next THEN "withdrawn" ELSE Phase(g)
        BY <1>q, <2>1, <2>3, <3>1 DEF Phase, Queued, Holds
      <3>3. Abstract!Refuse(next)
        BY <2>1, <2>2, <3>2 DEF Abstract!Refuse, Abstract!FirstNew, Abstract!Holds, Holds
      <3>4. QED
        BY <2>1, <3>3 DEF Abstract!Next, Abstract!Holds, Holds
    <2>5. CASE pc \notin Dead
      <3> DEFINE e == Hold(next, mode = "cli")
      <3>1. queue' = Append(queue, e)
        BY <1>10, <2>5, Zenon DEF SendHold, Send
      <3>2. e \in Jobs /\ e.job = "Hold" /\ e.id = next
        BY <2>1 DEF Hold, Jobs
      <3> HIDE DEF e
      <3>3. \A g : Queued(g)' <=> Queued(g) \/ g = next
        BY <1>q, <3>1, <3>2, AppendQueued
      <3>4. \A g \in Holds : Phase(g)' = IF g = next THEN "requested" ELSE Phase(g)
        BY <1>q, <2>1, <2>3, <3>3 DEF Phase, Holds
      <3>5. Abstract!Request(next)
        BY <2>1, <2>2, <3>4 DEF Abstract!Request, Abstract!FirstNew, Abstract!Holds, Holds
      <3>6. QED
        BY <2>1, <3>5 DEF Abstract!Next, Abstract!Holds, Holds
    <2>6. QED
      BY <2>4, <2>5
  <1>11. CASE DropSend
    <2>1. /\ UNCHANGED <<next, held, delivered, consumed>>
          /\ (queue' = queue \/ queue' = Append(queue, Shutdown))
      BY <1>11, Zenon DEF DropSend, Send
    <2>2. Shutdown \in Jobs /\ Shutdown.job # "Hold"
      BY DEF Jobs, Shutdown
    <2>3. CASE queue' = Append(queue, Shutdown)
      <3>1. \A g : Queued(g)' <=> Queued(g)
        BY <1>q, <2>2, <2>3, AppendQueued
      <3>2. QED
        BY <1>0, <2>1, <3>1
    <2>4. QED
      BY <1>0, <2>1, <2>3 DEF Queued
  <1>12. CASE Connect \/ Snapshot \/ DispatchDead \/ DispatchSendOther \/ DispatchDone
              \/ RecvEmpty \/ Flush \/ PollReady \/ PollTimeout \/ PollInterrupted
    <2>1. UNCHANGED <<next, held, delivered, consumed, queue>>
      BY <1>12, Zenon DEF Connect, Snapshot, DispatchDead, DispatchSendOther, DispatchDone,
         RecvEmpty, Flush, PollReady, PollTimeout, PollInterrupted
    <2>2. QED
      BY <1>0, <2>1 DEF Queued
  <1>13. CASE OwnerStep \/ ServeRequest \/ Paste \/ ReadOtherType \/ ForeignCopy \/ CompositorExit
              \/ UNCHANGED vars
    <2>1. UNCHANGED <<next, held, delivered, consumed, queue>>
      BY <1>13, Zenon DEF OwnerStep, Wake, WaitSignalled, WaitTimeout, DropClose, ServeRequest,
         Paste, ReadOtherType, Read, ForeignCopy, CompositorExit
    <2>2. QED
      BY <1>0, <2>1 DEF Queued
  <1>14. QED
    BY <1>2, <1>3, <1>5, <1>6, <1>7, <1>8, <1>9, <1>10, <1>11, <1>12, <1>13,
       Zenon DEF Next, ThreadStep

(* The clipboard thread, its channel and the compositor are an              *)
(* implementation of OneShot, for any number of copies and reads.           *)
THEOREM ClipboardIsOneShot == Spec => ImplementsOneShot
  <1>1. Init => Abstract!Init
    <2> SUFFICES ASSUME Init PROVE Abstract!Init
      OBVIOUS
    <2>1. \A g \in Holds : Phase(g) = "new"
      BY DEF Init, Phase, Holds
    <2>2. QED
      BY <2>1 DEF Init, Abstract!Init, Abstract!Holds, Holds
  <1>2. QED
    BY <1>1, PasteInits, PasteStep, StepIsOneShotStep, TypeCorrect, PTL
       DEF Spec, ImplementsOneShot, Abstract!Spec

-----------------------------------------------------------------------------
(* What is about to be destroyed was read, or is nothing.                   *)
UnreadInv == pendingDestroy \/ shouldDestroy => consumed \/ held = None

(* No secret is taken from the channel on its way to a destruction pass.    *)
ReceivedApart == RecvHold => ~shouldDestroy

LEMMA UnreadStep == UnreadInv /\ [Next]_vars /\ [ReceivedApart]_vars => UnreadInv'
  <1> SUFFICES ASSUME UnreadInv, [Next]_vars, [ReceivedApart]_vars PROVE UnreadInv'
    OBVIOUS
  <1> USE DEF UnreadInv
  <1>1. CASE UNCHANGED vars
    BY <1>1, Zenon
  <1>2. CASE ~UNCHANGED vars
    <2>0. ReceivedApart
      BY <1>2, Zenon
    <2>1. CASE Fail \/ Exit
      BY <2>1, Zenon DEF Fail, Exit, Gone
    <2>2. CASE Snapshot
      BY <2>2, Zenon DEF Snapshot
    <2>3. CASE DispatchSend
      BY <2>3, Zenon DEF DispatchSend, Dispatching
    <2>4. CASE Connect \/ DispatchDead \/ DispatchSendOther \/ DispatchDone
      BY <2>4, Zenon DEF Connect, DispatchDead, DispatchSendOther, DispatchDone,
         Dispatching
    <2>5. CASE DispatchCancelled
      BY <2>5, Zenon DEF DispatchCancelled
    <2>6. CASE RecvHold
      BY <2>0, <2>6 DEF RecvHold, ReceivedApart
    <2>7. CASE RecvShutdown \/ RecvEmpty
      BY <2>7, Zenon DEF RecvShutdown, RecvEmpty
    <2>8. CASE Teardown
      BY <2>8, Zenon DEF Teardown
    <2>9. CASE Flush \/ PollReady \/ PollTimeout \/ PollInterrupted
      BY <2>9, Zenon DEF Flush, PollReady, PollTimeout, PollInterrupted
    <2>10. CASE SendHold \/ DropSend \/ OwnerStep
      BY <2>10, Zenon DEF SendHold, DropSend, OwnerStep, Wake, WaitSignalled,
         WaitTimeout, DropClose
    <2>11. CASE ProcessExit
      BY <2>11, Zenon DEF ProcessExit, Gone
    <2>12. CASE ServeRequest \/ Paste \/ ReadOtherType \/ ForeignCopy
                \/ CompositorExit
      BY <2>12, Zenon DEF ServeRequest, Paste, ReadOtherType, Read, ForeignCopy,
         CompositorExit
    <2>13. QED
      BY <1>2, <2>1, <2>2, <2>3, <2>4, <2>5, <2>6, <2>7, <2>8, <2>9, <2>10,
         <2>11, <2>12, Zenon DEF Next, ThreadStep
  <1>3. QED
    BY <1>1, <1>2

LEMMA UnreadDrop ==
  ASSUME TypeOK, UnreadInv, [Next]_vars, held # None, ~consumed, held' = None
  PROVE  pc = "dispatch" \/ pc' \in Dead
  <1>1. CASE Fail \/ Exit
    BY <1>1, Zenon DEF Fail, Exit, Dead
  <1>2. CASE DispatchCancelled
    BY <1>2, Zenon DEF DispatchCancelled, Dispatching
  <1>3. CASE RecvHold
    <2>1. queue \in Seq(Jobs) /\ queue # <<>> /\ Head(queue).job = "Hold"
      BY <1>3 DEF RecvHold, TypeOK, DataTypes
    <2>2. Head(queue) \in Jobs
      BY <2>1
    <2>3. Head(queue).id \in Holds
      BY <2>1, <2>2 DEF Jobs, Shutdown
    <2>4. held' = Head(queue).id
      BY <1>3 DEF RecvHold
    <2>5. QED
      BY <2>3, <2>4 DEF Holds, None
  <1>4. CASE Teardown
    BY <1>4, Zenon DEF Teardown, UnreadInv
  <1>5. CASE ProcessExit
    BY <1>5, Zenon DEF ProcessExit, Dead
  <1>6. CASE \/ Connect \/ Snapshot \/ DispatchDead \/ DispatchSend \/ DispatchSendOther
             \/ DispatchDone \/ RecvShutdown \/ RecvEmpty \/ Flush \/ PollReady
             \/ PollTimeout \/ PollInterrupted
    BY <1>6, Zenon DEF Connect, Snapshot, DispatchDead, DispatchSend, DispatchSendOther,
       DispatchDone, RecvShutdown, RecvEmpty, Flush, PollReady, PollTimeout,
       PollInterrupted
  <1>7. CASE SendHold \/ DropSend \/ OwnerStep
    BY <1>7, Zenon DEF SendHold, DropSend, OwnerStep, Wake, WaitSignalled,
       WaitTimeout, DropClose
  <1>8. CASE ServeRequest \/ Paste \/ ReadOtherType \/ ForeignCopy \/ CompositorExit
             \/ UNCHANGED vars
    BY <1>8, Zenon DEF ServeRequest, Paste, ReadOtherType, Read, ForeignCopy,
       CompositorExit
  <1>9. QED
    BY <1>1, <1>2, <1>3, <1>4, <1>5, <1>6, <1>7, <1>8, Zenon DEF Next, ThreadStep

(* The other side of the violated UnreadIsKept: unless a secret is taken    *)
(* from the channel in an iteration that destroys the one before it, none   *)
(* is lost unread but to another client, a shutdown or the end of the       *)
(* thread (clipboard.rs 275-305).                                           *)
THEOREM UnreadSecretsStay == Spec /\ [][ReceivedApart]_vars => UnreadIsKept
  <1>1. Init => UnreadInv
    BY Zenon DEF Init, UnreadInv
  <1>2. TypeOK /\ UnreadInv /\ [Next]_vars
          => [held # None /\ ~consumed /\ held' = None
                => ~running \/ pc = "dispatch" \/ pc' \in Dead]_vars
    BY UnreadDrop, Zenon
  <1>3. QED
    BY <1>1, <1>2, TypeCorrect, UnreadStep, PTL DEF Spec, UnreadIsKept
=============================================================================
