-------------------------------- MODULE Probe --------------------------------
(***************************************************************************)
(* probe_clipboard_manager of src/src/clipboard.rs: a throwaway selection  *)
(* is published and watched for a short while; who reads it would read     *)
(* secrets too.  The probe has a connection of its own and runs before the *)
(* clipboard thread is started.                                            *)
(***************************************************************************)
EXTENDS Sequences

CONSTANT Preempted  \* whether time is up before an event in time is looked at

ASSUME PreemptedAssumption == Preempted \in BOOLEAN

VARIABLES
  ppc,       \* where the probe is
  seen,      \* ProbeState.consumed
  expired,   \* the deadline has passed
  found,     \* what the probe returned
  psock,     \* sockets: events to the probe, requests from it
  unread,    \* events read off the socket and not dispatched
  psel,      \* who owns the selection
  up,        \* the compositor is there and knows wlr-data-control
  eager,     \* a clipboard manager reads every new selection in time
  eagerRead, \* it has read this one
  stray      \* another client has pasted during the probe

probeVars == <<ppc, seen, expired, found, psock, unread, psel, up, eager,
               eagerRead, stray>>
others == <<up, eager, eagerRead, stray>>

ProbeInit ==
  /\ ppc = "connect" /\ seen = FALSE /\ expired = FALSE /\ found = "nothing"
  /\ psock = [in |-> <<>>, out |-> <<>>] /\ unread = <<>>
  /\ psel \in {"none", "other"} /\ up \in BOOLEAN
  /\ eager \in BOOLEAN /\ eagerRead = FALSE /\ stray = FALSE

Request(r) == psock' = [psock EXCEPT !.out = Append(@, r)]
Event(e) == [psock EXCEPT !.in = Append(@, e)]

(* The function returns and drops its connection; requests already flushed *)
(* are still served.                                                       *)
Return(result) ==
  /\ ppc' = "done" /\ found' = result
  /\ seen' = FALSE /\ expired' = FALSE /\ unread' = <<>> /\ stray' = FALSE

(* A `?` of the probe: no compositor, no support, or the connection broke. *)
ProbeFails ==
  /\ ppc \in {"connect", "head"} /\ ~up
  /\ Return("error")
  /\ psock' = [in |-> <<>>, out |-> <<>>]
  /\ UNCHANGED <<psel, up, eager, eagerRead>>

(* Globals, first roundtrip, the source offered, flush; the clock starts.  *)
Publish ==
  /\ ppc = "connect" /\ up
  /\ Request("set") /\ ppc' = "head"
  /\ UNCHANGED <<seen, expired, found, unread, psel, others>>

(* The source's events: every Send counts, of either type; Cancelled does  *)
(* not.                                                                    *)
Consumed == seen \/ "Send" \in {unread[i] : i \in DOMAIN unread}

(* Mutant: the deadline is looked at before what was read is dispatched.   *)
LookAtClockFirst ==
  /\ ppc = "head"
  /\ IF expired THEN /\ ppc' = "cleanup" /\ UNCHANGED <<seen, unread>>
                ELSE /\ seen' = Consumed
                     /\ unread' = <<>>
                     /\ ppc' = IF seen' THEN "cleanup" ELSE "poll"
  /\ UNCHANGED <<expired, found, psock, psel, others>>

(* One turn of the loop up to the poll: dispatch_pending, then the clock.  *)
Look ==
  /\ ppc = "head"
  /\ seen' = Consumed
  /\ unread' = <<>>
  /\ ppc' = IF seen' \/ expired THEN "cleanup" ELSE "poll"
  /\ UNCHANGED <<expired, found, psock, psel, others>>

(* poll returns with events and they are read. *)
PollReads ==
  /\ ppc = "poll" /\ psock.in # <<>>
  /\ unread' = psock.in /\ psock' = [psock EXCEPT !.in = <<>>]
  /\ ppc' = "head"
  /\ UNCHANGED <<seen, expired, found, psel, others>>

(* Mutant: the poll is not bounded by what remains of the time. *)
PollReturnsNever ==
  /\ ppc = "poll" /\ psock.in = <<>> /\ ~up
  /\ ppc' = "head"
  /\ UNCHANGED <<seen, expired, found, psock, unread, psel, others>>

(* poll returns without: time is up or the socket was hung up. *)
PollReturns ==
  /\ ppc = "poll" /\ psock.in = <<>> /\ (expired \/ ~up)
  /\ ppc' = "head"
  /\ UNCHANGED <<seen, expired, found, psock, unread, psel, others>>

(* EINTR, which poll reports only when nothing is there to be read. *)
ProbeInterrupted ==
  /\ ppc = "poll" /\ psock.in = <<>>
  /\ ppc' = "head"
  /\ UNCHANGED <<seen, expired, found, psock, unread, psel, others>>

(* Mutant: the throwaway source is left to the end of the connection, and  *)
(* so is the selection.                                                    *)
CleanupNot ==
  /\ ppc = "cleanup"
  /\ Return(IF seen THEN "manager" ELSE "clean")
  /\ UNCHANGED <<psock, psel, up, eager, eagerRead>>

(* set_selection(None), destroy, flush: whoever owns the selection by now. *)
Cleanup ==
  /\ ppc = "cleanup"
  /\ Return(IF seen THEN "manager" ELSE "clean")
  /\ psock' = [in |-> <<>>,
               out |-> IF up THEN Append(psock.out, "unset") ELSE <<>>]
  /\ UNCHANGED <<psel, up, eager, eagerRead>>

ProbeStep ==
  \/ ProbeFails \/ Publish \/ Look \/ PollReads \/ PollReturns \/ Cleanup

(* The clock.  An eager manager is one that answers before the deadline;   *)
(* unless the process is preempted its answer is read before the deadline. *)
DeadlinePasses ==
  /\ ppc \in {"head", "poll"} /\ ~expired
  /\ eager /\ up => eagerRead
  /\ ~Preempted => ppc = "poll" \/ psock.in = <<>>
  /\ expired' = TRUE
  /\ UNCHANGED <<ppc, seen, found, psock, unread, psel, others>>

-----------------------------------------------------------------------------
(* The compositor and the other clients (external). *)

ServeProbe ==
  /\ psock.out # <<>>
  /\ psel' = IF Head(psock.out) = "set" THEN "probe" ELSE "none"
  /\ psock' = [psock EXCEPT !.out = Tail(@)]
  /\ UNCHANGED <<ppc, seen, expired, found, unread, others>>

ManagerReads ==
  /\ eager /\ ~eagerRead /\ psel = "probe" /\ up
  /\ eagerRead' = TRUE
  /\ psock' = IF ppc = "done" THEN psock ELSE Event("Send")
  /\ UNCHANGED <<ppc, seen, expired, found, unread, psel, up, eager, stray>>

(* The user pastes at this very moment. *)
StrayRead ==
  /\ ~stray /\ psel = "probe" /\ up /\ ppc # "done"
  /\ stray' = TRUE /\ psock' = Event("Send")
  /\ UNCHANGED <<ppc, seen, expired, found, unread, psel, up, eager, eagerRead>>

(* Another client sets the selection; an eager manager was faster. *)
OtherCopies ==
  /\ psel = "probe" /\ up /\ ppc # "done" /\ (eager => eagerRead)
  /\ psel' = "other" /\ psock' = Event("Cancelled")
  /\ UNCHANGED <<ppc, seen, expired, found, unread, others>>

CompositorGone ==
  /\ up' = FALSE /\ psel' = "none"
  /\ psock' = [in |-> <<>>, out |-> <<>>]
  /\ UNCHANGED <<ppc, seen, expired, found, unread, eager, eagerRead, stray>>

ProbeNext ==
  \/ ProbeStep \/ ProbeInterrupted \/ DeadlinePasses \/ ServeProbe
  \/ ManagerReads \/ StrayRead \/ OtherCopies
=============================================================================
