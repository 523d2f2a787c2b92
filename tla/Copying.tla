------------------------------- MODULE Copying -------------------------------
(***************************************************************************)
(* From the probe to the clipboard thread: cli_clip and run_gui of         *)
(* src/src/main.rs probe first, on a connection of their own, and start    *)
(* the clipboard thread later if at all.                                   *)
(***************************************************************************)
EXTENDS Clipboard, Probe

allVars == <<vars, probeVars>>

CopyingInit == Init /\ ProbeInit /\ up = connUp

(* The command gives up on a manager and on an error, the window on        *)
(* neither.  The compositor serves the probe's last requests no later than *)
(* the roundtrip with which the thread begins.                             *)
MayStart == /\ ppc = "done" /\ psock.out = <<>>
            /\ mode = "cli" => found = "clean"

(* clipboard_blocked: the window refuses each copy. *)
MayCopy == found # "manager"

Running ==
  \/ ThreadStep \/ PollInterrupted
  \/ MayCopy /\ SendHold
  \/ DropSend \/ OwnerStep \/ ProcessExit
  \/ ServeRequest \/ Paste \/ ReadOtherType \/ ForeignCopy

CopyingNext ==
  \/ ProbeNext /\ UNCHANGED vars
  \/ MayStart /\ Running /\ UNCHANGED probeVars
  \/ CompositorExit /\ CompositorGone

CopyingSpec == CopyingInit /\ [][CopyingNext]_allVars

(* As in Clipboard, once it runs; before that the probe is scheduled, the  *)
(* compositor serves it, an eager manager reads, and time passes.          *)
FairCopying ==
  /\ CopyingSpec
  /\ WF_allVars(UNCHANGED vars /\ ProbeStep)
  /\ WF_allVars(UNCHANGED vars /\ ServeProbe)
  /\ WF_allVars(UNCHANGED vars /\ (DeadlinePasses \/ ManagerReads))
  /\ WF_allVars(MayStart /\ UNCHANGED probeVars /\ ThreadStep)
  /\ WF_allVars(MayStart /\ UNCHANGED probeVars /\ OwnerStep)
  /\ WF_allVars(MayStart /\ UNCHANGED probeVars /\ ServeRequest)

-----------------------------------------------------------------------------
(* A clipboard manager that reads every new selection never gets to see a   *)
(* secret: the probe, its error included, keeps the window and the command  *)
(* from ever offering one (clipboard.rs 135-155, main.rs 749-755, 836-838). *)
NoSecretForManagers ==
  eager => sel = None /\ \A h \in Holds : delivered[h] = 0

(* However the probe ends, its throwaway selection is gone when copying can *)
(* begin (clipboard.rs 215-219).                                            *)
ThrowawayGone == found # "nothing" /\ psock.out = <<>> => psel # "probe"

(* The probe, which the window waits for before it is shown, ends: nobody   *)
(* reads, somebody else copies, signals arrive, the compositor goes away.   *)
ProbeEnds == <>(ppc = "done")
=============================================================================
