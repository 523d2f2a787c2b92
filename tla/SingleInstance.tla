---------------------------- MODULE SingleInstance ----------------------------
(***************************************************************************)
(* The socket by which a second launch activates the running instance      *)
(* (src/src/single_instance.rs), used by every process of the program, any *)
(* of which may be killed at any point.  The path of the socket holds the  *)
(* file of one process's socket or nothing; a file outlives its process.   *)
(***************************************************************************)
EXTENDS Sequences

CONSTANTS Procs, NoFile

ASSUME NoFileAssumption == NoFile \notin Procs

VARIABLES
  main,      \* main thread: see Mains
  listener,  \* listener thread: see Listeners
  shutdown,  \* the guard's shutdown flag
  path,      \* whose socket file is at the path
  backlog,   \* connections not accepted yet: who connected, and what for
  serving,   \* the connection in handle_connection
  answered,  \* clients that read "ok" or the end of the stream
  shown      \* history: clients for whom an event loop took the callback

queues == <<backlog, serving, answered>>
vars == <<main, listener, shutdown, path, queues, shown>>

Mains == {"new", "activating", "activated", "starting", "loop", "quitting",
          "joining", "removing", "done", "killed"}
Listeners == {"none", "bind", "check", "stale", "rebind", "listen", "accept",
              "serve", "ended"}
Conns == [from : Procs, asks : {"show", "nothing"}]

Listening(p) == listener[p] \in {"accept", "serve"}
(* connect() succeeds: the file is there and somebody listens behind it.   *)
Connectable == path # NoFile /\ Listening(path)

Init ==
  /\ main = [p \in Procs |-> "new"] /\ listener = [p \in Procs |-> "none"]
  /\ shutdown = [p \in Procs |-> FALSE]
  /\ path = NoFile
  /\ backlog = [p \in Procs |-> <<>>] /\ serving = [p \in Procs |-> <<>>]
  /\ answered = {} /\ shown = {}

Go(p, step) == main' = [main EXCEPT ![p] = step]
Turn(p, step) == listener' = [listener EXCEPT ![p] = step]
Connect(p, asks) ==
  backlog' = [backlog EXCEPT ![path] = Append(@, [from |-> p, asks |-> asks])]

(* Who waits for an answer on the connections cs. *)
Clients(cs) == {cs[i].from : i \in {j \in DOMAIN cs : cs[j].asks = "show"}}

-----------------------------------------------------------------------------
(* The main thread. *)

(* try_activate_existing: connect and send "show". *)
TryActivate(p) ==
  /\ main[p] = "new" /\ Connectable
  /\ Connect(p, "show") /\ Go(p, "activating")
  /\ UNCHANGED <<listener, shutdown, path, serving, answered, shown>>

(* The acknowledgement or the end of the stream: true in both cases. *)
Activated(p) ==
  /\ main[p] = "activating" /\ p \in answered
  /\ Go(p, "activated")
  /\ UNCHANGED <<listener, shutdown, path, queues, shown>>

(* Nobody answers: run_gui, up to start_listener, which spawns the thread. *)
BecomeInstance(p) ==
  /\ main[p] = "new" /\ ~Connectable
  /\ Go(p, "starting")
  /\ UNCHANGED <<listener, shutdown, path, queues, shown>>

StartListener(p) ==
  /\ main[p] = "starting" /\ listener[p] = "none"
  /\ Turn(p, "bind")
  /\ UNCHANGED <<main, shutdown, path, queues, shown>>

EnterLoop(p) ==
  /\ main[p] = "starting" /\ listener[p] # "none"
  /\ Go(p, "loop")
  /\ UNCHANGED <<listener, shutdown, path, queues, shown>>

(* The event loop ends, or show() failed and run_gui returns early. *)
Quit(p) ==
  /\ main[p] = "loop" \/ (main[p] = "starting" /\ listener[p] # "none")
  /\ Go(p, "quitting")
  /\ UNCHANGED <<listener, shutdown, path, queues, shown>>

(* Drop for InstanceGuard: the flag, then a connection to wake whoever     *)
(* listens at the path, then the join, then the file.                      *)
DropWakes(p) ==
  /\ main[p] = "quitting"
  /\ shutdown' = [shutdown EXCEPT ![p] = TRUE]
  /\ IF Connectable THEN Connect(p, "nothing") ELSE UNCHANGED backlog
  /\ Go(p, "joining")
  /\ UNCHANGED <<listener, path, serving, answered, shown>>

(* Mutant: the listener is left to itself. *)
DropJoinsNot(p) ==
  /\ main[p] = "joining"
  /\ Go(p, "removing")
  /\ UNCHANGED <<listener, shutdown, path, queues, shown>>

DropJoins(p) ==
  /\ main[p] = "joining" /\ listener[p] = "ended"
  /\ Go(p, "removing")
  /\ UNCHANGED <<listener, shutdown, path, queues, shown>>

(* Whatever socket the file belongs to. *)
DropRemoves(p) ==
  /\ main[p] = "removing"
  /\ path' = NoFile /\ Go(p, "done")
  /\ UNCHANGED <<listener, shutdown, queues, shown>>

(* Killed: sockets close, the file stays. *)
Killed(p) ==
  /\ main[p] \notin {"new", "activated", "done", "killed"}
  /\ Go(p, "killed") /\ Turn(p, "ended")
  /\ answered' = answered \cup Clients(backlog[p] \o serving[p])
  /\ backlog' = [backlog EXCEPT ![p] = <<>>]
  /\ serving' = [serving EXCEPT ![p] = <<>>]
  /\ UNCHANGED <<shutdown, path, shown>>

MainStep(p) ==
  \/ Activated(p) \/ StartListener(p) \/ EnterLoop(p)
  \/ DropWakes(p) \/ DropJoins(p) \/ DropRemoves(p)

-----------------------------------------------------------------------------
(* The listener thread. *)

BindFirst(p) ==
  /\ listener[p] = "bind"
  /\ IF path = NoFile THEN path' = p /\ Turn(p, "listen")
                      ELSE UNCHANGED path /\ Turn(p, "check")
  /\ UNCHANGED <<main, shutdown, queues, shown>>

(* A connection that succeeds is dropped and the thread ends. *)
BindCheck(p) ==
  /\ listener[p] = "check"
  /\ IF Connectable THEN Connect(p, "nothing") /\ Turn(p, "ended")
                    ELSE UNCHANGED backlog /\ Turn(p, "stale")
  /\ UNCHANGED <<main, shutdown, path, serving, answered, shown>>

BindRemove(p) ==
  /\ listener[p] = "stale"
  /\ path' = NoFile /\ Turn(p, "rebind")
  /\ UNCHANGED <<main, shutdown, queues, shown>>

BindAgain(p) ==
  /\ listener[p] = "rebind"
  /\ IF path = NoFile THEN path' = p /\ Turn(p, "listen")
                      ELSE UNCHANGED path /\ Turn(p, "ended")
  /\ UNCHANGED <<main, shutdown, queues, shown>>

(* bind() has created the file; only listen() makes it connectable. *)
Listen(p) ==
  /\ listener[p] = "listen" /\ Turn(p, "accept")
  /\ UNCHANGED <<main, shutdown, path, queues, shown>>

(* Mutant: the socket stays open when the thread ends. *)
ListenerEndsLeaking(p) ==
  /\ listener[p] = "accept" /\ shutdown[p]
  /\ Turn(p, "ended")
  /\ UNCHANGED <<main, shutdown, path, queues, shown>>

(* The flag is looked at before every accept; leaving the loop closes the  *)
(* socket on those who are still queued.                                   *)
ListenerEnds(p) ==
  /\ listener[p] = "accept" /\ shutdown[p]
  /\ Turn(p, "ended")
  /\ answered' = answered \cup Clients(backlog[p])
  /\ backlog' = [backlog EXCEPT ![p] = <<>>]
  /\ UNCHANGED <<main, shutdown, path, serving, shown>>

Accept(p) ==
  /\ listener[p] = "accept" /\ ~shutdown[p] /\ backlog[p] # <<>>
  /\ serving' = [serving EXCEPT ![p] = <<Head(backlog[p])>>]
  /\ backlog' = [backlog EXCEPT ![p] = Tail(@)]
  /\ Turn(p, "serve")
  /\ UNCHANGED <<main, shutdown, path, answered, shown>>

(* Mutant: the answer waits for the event loop, however long it takes. *)
ServeWhenReady(p) ==
  LET conn == Head(serving[p]) IN
  /\ listener[p] = "serve" /\ main[p] = "loop"
  /\ serving' = [serving EXCEPT ![p] = <<>>] /\ Turn(p, "accept")
  /\ \/ /\ conn.asks = "show"
        /\ answered' = answered \cup {conn.from}
        /\ shown' = shown \cup {conn.from}
     \/ conn.asks = "nothing" /\ UNCHANGED <<answered, shown>>
  /\ UNCHANGED <<main, shutdown, path, backlog>>

(* Mutant: the stream is not dropped at the end. *)
ServeKeepingConn(p) ==
  LET conn == Head(serving[p]) IN
  /\ listener[p] = "serve" /\ Turn(p, "accept")
  /\ answered' = IF conn.asks = "show" THEN answered \cup {conn.from}
                                       ELSE answered
  /\ UNCHANGED <<main, shutdown, path, backlog, serving, shown>>

(* handle_connection: a "show" is queued for the event loop once that is   *)
(* ready or after five seconds, and acknowledged whether queueing it       *)
(* worked or not; it need not work unless the event loop runs.  Waiting    *)
(* for event_loop_ready only delays this step.                             *)
Serve(p) ==
  LET conn == Head(serving[p]) IN
  /\ listener[p] = "serve"
  /\ serving' = [serving EXCEPT ![p] = <<>>] /\ Turn(p, "accept")
  /\ \/ /\ conn.asks = "show"
        /\ answered' = answered \cup {conn.from}
        /\ \/ shown' = shown \cup {conn.from}
           \/ main[p] # "loop" /\ UNCHANGED shown
     \/ conn.asks = "nothing" /\ UNCHANGED <<answered, shown>>
  /\ UNCHANGED <<main, shutdown, path, backlog>>

ListenerStep(p) ==
  \/ BindFirst(p) \/ BindCheck(p) \/ BindRemove(p) \/ BindAgain(p) \/ Listen(p)
  \/ ListenerEnds(p) \/ Accept(p) \/ Serve(p)

Next ==
  \E p \in Procs :
    \/ TryActivate(p) \/ BecomeInstance(p) \/ MainStep(p) \/ Quit(p) \/ Killed(p)
    \/ ListenerStep(p)

Spec == Init /\ [][Next]_vars

(* Threads are scheduled; nothing obliges the user to launch or to quit.   *)
FairSpec ==
  /\ Spec
  /\ \A p \in Procs : WF_vars(MainStep(p)) /\ WF_vars(ListenerStep(p))

-----------------------------------------------------------------------------
(* Every component of the state stays within the values the code gives it. *)
TypeOK ==
  /\ main \in [Procs -> Mains] /\ listener \in [Procs -> Listeners]
  /\ shutdown \in [Procs -> BOOLEAN]
  /\ path \in Procs \cup {NoFile}
  /\ backlog \in [Procs -> Seq(Conns)] /\ serving \in [Procs -> Seq(Conns)]
  /\ \A p \in Procs : listener[p] = "serve" <=> serving[p] # <<>>
  /\ answered \subseteq Procs /\ shown \subseteq Procs

(* A process that ended in an orderly way leaves no socket file of its own  *)
(* for later launches to stumble over, whatever its listener was doing when *)
(* the guard was dropped (single_instance.rs 48-64, 92-130).                *)
OrderlyExitLeavesNoFile == \A p \in Procs : main[p] = "done" => path # p

(* Removing the socket file, as stale or on the way out, never strands a    *)
(* client that is already connected: it was answered, or its connection is  *)
(* with a listener that still runs (48-64, 120-143, 162-183).               *)
NobodyForgotten ==
  \A p \in Procs : main[p] = "activating" /\ p \notin answered =>
    \E q \in Procs : /\ Listening(q)
                     /\ p \in Clients(backlog[q] \o serving[q])

(* Nobody waits for ever, although neither wait has a limit: the client for *)
(* the acknowledgement, whatever happens to the instance meanwhile, and the *)
(* quitting process for its listener, whatever that is doing (24-38, 48-64).*)
EveryWaitEnds ==
  \A p \in Procs :
    main[p] \in {"activating", "quitting"}
      ~> main[p] \in {"activated", "done", "killed"}

(* "Returns `true` if the existing instance was successfully notified":     *)
(* a launch that took itself for activated has its window shown.            *)
ActivatedIsShown == \A p \in Procs : main[p] = "activated" => p \in shown
=============================================================================
