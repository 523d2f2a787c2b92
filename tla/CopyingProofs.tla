---------------------------- MODULE CopyingProofs ----------------------------
(***************************************************************************)
(* Proofs about the probe and the clipboard thread after it, for any       *)
(* number of copies and reads.                                             *)
(***************************************************************************)
EXTENDS Copying, ClipboardProofs

USE DEF probeVars, others, allVars

-----------------------------------------------------------------------------
(* The probe's own connection: one request to publish, one to withdraw.     *)
ProbeTypes ==
  /\ ppc \in {"connect", "head", "poll", "cleanup", "done"}
  /\ seen \in BOOLEAN /\ expired \in BOOLEAN /\ up \in BOOLEAN
  /\ eager \in BOOLEAN /\ eagerRead \in BOOLEAN
  /\ found \in {"nothing", "error", "clean", "manager"}
  /\ found = "nothing" <=> ppc # "done"
  /\ psock = [in |-> psock.in, out |-> psock.out]
  /\ psock.in \in Seq({"Send", "Cancelled"}) /\ psock.out \in Seq({"set", "unset"})
  /\ unread \in Seq({"Send", "Cancelled"})

(* Who asked for the selection has asked for its end when it is done.       *)
Withdrawn ==
  /\ ~up => psel # "probe" /\ psock.out = <<>>
  /\ ppc = "connect" => psel # "probe" /\ psock.out = <<>>
  /\ ppc \in {"head", "poll", "cleanup"} => psock.out \in {<<>>, <<"set">>}
  /\ ppc = "done" => \/ psel # "probe" /\ psock.out = <<>>
                     \/ psock.out \in {<<"unset">>, <<"set", "unset">>}

Sent(events) == "Send" \in {events[i] : i \in DOMAIN events}

(* An eager manager's read is noticed or on its way, and is no longer on    *)
(* its way when the probe looks at it in time.                              *)
NoticedInv ==
  eager /\ up =>
    /\ expired => eagerRead
    /\ eagerRead /\ ppc \in {"head", "poll", "cleanup"} =>
         seen \/ Sent(unread) \/ Sent(psock.in)
    /\ ppc = "poll" => ~seen /\ unread = <<>>
    /\ ppc = "head" /\ expired => seen \/ Sent(unread)
    /\ ppc = "cleanup" => seen
    /\ ppc = "connect" => ~expired /\ ~eagerRead
    /\ ppc = "done" => found = "manager"

-----------------------------------------------------------------------------
(* The thread: not started, or never given a secret, or without compositor. *)
Unpublished == \A h \in Holds : delivered[h] = 0

NoSet(requests) == \A i \in DOMAIN requests : requests[i].op # "Set"

NotStarted == /\ pc = "start" /\ next = 1 /\ sel = None
              /\ reqs = <<>> /\ out = <<>> /\ Unpublished

NeverCopied == next = 1 /\ sel = None /\ NoSet(reqs) /\ NoSet(out) /\ Unpublished

CutOff == /\ ~connUp /\ pc \in {"start"} \cup Dead
          /\ sel = None /\ reqs = <<>> /\ Unpublished

ManagerInv ==
  /\ up = connUp
  /\ ppc # "done" => NotStarted
  /\ eager /\ ppc = "done" => CutOff \/ (found = "manager" /\ NeverCopied)

-----------------------------------------------------------------------------
(* A step of the whole is a step of the thread's side, of the probe's, or   *)
(* the end of the compositor that both see.                                 *)
LEMMA StepSplits ==
  ASSUME [CopyingNext]_allVars
  PROVE  [Next]_vars /\ (ProbeNext \/ CompositorGone \/ UNCHANGED probeVars)
  <1>1. CASE ProbeNext /\ UNCHANGED vars
    BY <1>1
  <1>2. CASE MayStart /\ Running /\ UNCHANGED probeVars
    BY <1>2 DEF Running, Next
  <1>3. CASE CompositorExit /\ CompositorGone
    BY <1>3, Zenon DEF Next
  <1>4. CASE UNCHANGED allVars
    BY <1>4
  <1>5. QED
    BY <1>1, <1>2, <1>3, <1>4, Zenon DEF CopyingNext

(* The thread behind a probe is the thread of module Clipboard.             *)
THEOREM CopyingIsClipboard == CopyingSpec => Spec
  <1>1. CopyingInit => Init
    BY DEF CopyingInit
  <1>2. [CopyingNext]_allVars => [Next]_vars
    BY StepSplits
  <1>3. QED
    BY <1>1, <1>2, PTL DEF CopyingSpec, Spec

(* So it keeps what the thread promises, after whatever probe.             *)
THEOREM CopiesKeepPromises ==
  CopyingSpec => /\ [](PasteOnce /\ NoSpentSecretAtRest /\ OfferMatchesHeld /\ DoneExact)
                 /\ ImplementsOneShot
  BY CopyingIsClipboard, SecretsPastedOnce, SpentSecretsGo, OffersMatchHeld, WaitersAreTold,
     ClipboardIsOneShot, PTL

-----------------------------------------------------------------------------
LEMMA AppendIn ==
  ASSUME NEW S, NEW s \in Seq(S), NEW e \in S
  PROVE  /\ Append(s, e) \in Seq(S)
         /\ Sent(s) => Sent(Append(s, e))
         /\ e = "Send" => Sent(Append(s, e))
  <1>1. /\ Append(s, e) \in Seq(S) /\ DOMAIN Append(s, e) = 1..(Len(s) + 1)
        /\ DOMAIN s = 1..Len(s) /\ Len(s) \in Nat
        /\ Append(s, e)[Len(s) + 1] = e /\ \A i \in 1..Len(s) : Append(s, e)[i] = s[i]
    OBVIOUS
  <1>2. /\ Len(s) + 1 \in DOMAIN Append(s, e)
        /\ \A i \in DOMAIN s : i \in DOMAIN Append(s, e) /\ Append(s, e)[i] = s[i]
    BY <1>1
  <1>3. QED
    BY <1>1, <1>2 DEF Sent

(* What each step makes of the probe's connection.                          *)
LEMMA SocketFacts ==
  ASSUME ProbeTypes
  PROVE  /\ \A r : Request(r) =>
              psock' = [in |-> psock.in, out |-> Append(psock.out, r)]
         /\ \A e : Event(e) = [in |-> Append(psock.in, e), out |-> psock.out]
         /\ [psock EXCEPT !.in = <<>>] = [in |-> <<>>, out |-> psock.out]
         /\ [psock EXCEPT !.out = Tail(@)] = [in |-> psock.in, out |-> Tail(psock.out)]
  <1>1. psock = [in |-> psock.in, out |-> psock.out]
    BY DEF ProbeTypes
  <1>2. \A x : /\ [psock EXCEPT !.in = x] = [in |-> x, out |-> psock.out]
              /\ [psock EXCEPT !.out = x] = [in |-> psock.in, out |-> x]
    BY <1>1
  <1>3. QED
    BY <1>2, Zenon DEF Request, Event

LEMMA ProbeSeqs ==
  ASSUME ProbeTypes
  PROVE  /\ <<>> \in Seq({"Send", "Cancelled"}) /\ <<>> \in Seq({"set", "unset"})
         /\ \A e \in {"Send", "Cancelled"} : Append(psock.in, e) \in Seq({"Send", "Cancelled"})
         /\ \A r \in {"set", "unset"} : Append(psock.out, r) \in Seq({"set", "unset"})
         /\ psock.out # <<>> => Tail(psock.out) \in Seq({"set", "unset"})
  <1>1. psock.in \in Seq({"Send", "Cancelled"}) /\ psock.out \in Seq({"set", "unset"})
    BY DEF ProbeTypes
  <1>2. QED
    BY <1>1

LEMMA OutFacts ==
  /\ Append(<<>>, "set") = <<"set">> /\ Append(<<>>, "unset") = <<"unset">>
  /\ Append(<<"set">>, "unset") = <<"set", "unset">>
  /\ Tail(<<"set">>) = <<>> /\ Tail(<<"unset">>) = <<>>
  /\ Tail(<<"set", "unset">>) = <<"unset">>
  /\ Head(<<"set">>) = "set" /\ Head(<<"unset">>) = "unset"
  /\ Head(<<"set", "unset">>) = "set"
  /\ <<"set">> # <<>> /\ <<"unset">> # <<>> /\ <<"set", "unset">> # <<>>
  <1>1. /\ Append(<<>>, "set") = <<"set">> /\ Append(<<>>, "unset") = <<"unset">>
        /\ Append(<<"set">>, "unset") = <<"set", "unset">>
    <2>1. /\ <<"set">> \in Seq({"set", "unset"}) /\ <<>> \in Seq({"set", "unset"})
          /\ Len(<<"set">>) = 1 /\ Len(<<>>) = 0 /\ <<"set">>[1] = "set"
          /\ <<"unset">> \in Seq({"set", "unset"})
          /\ Len(<<"unset">>) = 1 /\ <<"unset">>[1] = "unset"
          /\ <<"set", "unset">> \in Seq({"set", "unset"})
          /\ Len(<<"set", "unset">>) = 2
          /\ <<"set", "unset">>[1] = "set" /\ <<"set", "unset">>[2] = "unset"
      OBVIOUS
    <2>2. \A s \in Seq({"set", "unset"}), e \in {"set", "unset"} :
            /\ Append(s, e) \in Seq({"set", "unset"}) /\ Len(Append(s, e)) = Len(s) + 1
            /\ Append(s, e)[Len(s) + 1] = e
            /\ \A i \in 1..Len(s) : Append(s, e)[i] = s[i]
      OBVIOUS
    <2>3. \A i \in 1..2 : Append(<<"set">>, "unset")[i] = <<"set", "unset">>[i]
      BY <2>1, <2>2
    <2>4. Append(<<"set">>, "unset") = <<"set", "unset">>
      <3>1. /\ Append(<<"set">>, "unset") \in Seq({"set", "unset"})
            /\ Len(Append(<<"set">>, "unset")) = 2
        BY <2>1, <2>2
      <3>2. QED
        BY <2>1, <2>3, <3>1, SeqEqual
    <2>5. Append(<<>>, "set") = <<"set">>
      BY <2>1, <2>2, SeqEqual
    <2>6. Append(<<>>, "unset") = <<"unset">>
      BY <2>1, <2>2, SeqEqual
    <2>7. QED
      BY <2>4, <2>5, <2>6
  <1>2. /\ Head(<<"set">>) = "set" /\ Head(<<"unset">>) = "unset"
        /\ Head(<<"set", "unset">>) = "set"
        /\ <<"set">> # <<>> /\ <<"unset">> # <<>> /\ <<"set", "unset">> # <<>>
    OBVIOUS
  <1>3. Tail(<<"set">>) = <<>> /\ Tail(<<"unset">>) = <<>>
    OBVIOUS
  <1>4. Tail(<<"set", "unset">>) = <<"unset">>
    <2>1. /\ Tail(<<"set", "unset">>) \in Seq({"set", "unset"})
          /\ Len(Tail(<<"set", "unset">>)) = 1 /\ Tail(<<"set", "unset">>)[1] = "unset"
      OBVIOUS
    <2>2. /\ <<"unset">> \in Seq({"set", "unset"})
          /\ Len(<<"unset">>) = 1 /\ <<"unset">>[1] = "unset"
      OBVIOUS
    <2>3. QED
      BY <2>1, <2>2, SeqEqual
  <1>5. QED
    BY <1>1, <1>2, <1>3, <1>4

LEMMA ProbeInits == ProbeInit => ProbeTypes /\ Withdrawn /\ NoticedInv
  <1> SUFFICES ASSUME ProbeInit PROVE ProbeTypes /\ Withdrawn /\ NoticedInv
    OBVIOUS
  <1>1. psock.in = <<>> /\ psock.out = <<>>
    BY DEF ProbeInit
  <1>2. psock = [in |-> psock.in, out |-> psock.out] /\ unread = <<>>
    BY <1>1 DEF ProbeInit
  <1>3. /\ psock.in \in Seq({"Send", "Cancelled"}) /\ psock.out \in Seq({"set", "unset"})
        /\ unread \in Seq({"Send", "Cancelled"})
    BY <1>1, <1>2
  <1>4. ProbeTypes
    BY <1>2, <1>3, Zenon DEF ProbeInit, ProbeTypes
  <1>5. QED
    BY <1>1, <1>4 DEF ProbeInit, Withdrawn, NoticedInv

LEMMA ProbeTypeStep ==
  ASSUME ProbeTypes, ProbeNext \/ CompositorGone \/ UNCHANGED probeVars
  PROVE  ProbeTypes'
  <1>0. CASE UNCHANGED probeVars
    BY <1>0 DEF ProbeTypes
  <1>1. CASE ProbeFails
    <2>1. psock'.in = <<>> /\ psock'.out = <<>> /\ psock' = [in |-> psock'.in, out |-> psock'.out]
      BY <1>1 DEF ProbeFails
    <2>2. QED
      BY <1>1, <2>1, ProbeSeqs DEF ProbeFails, Return, ProbeTypes
  <1>2. CASE Publish
    <2>1. /\ psock'.in = psock.in /\ psock'.out = Append(psock.out, "set")
          /\ psock' = [in |-> psock'.in, out |-> psock'.out]
      BY <1>2, SocketFacts DEF Publish
    <2>2. QED
      BY <1>2, <2>1, ProbeSeqs DEF Publish, ProbeTypes
  <1>3. CASE Look
    BY <1>3, ProbeSeqs DEF Look, Consumed, ProbeTypes
  <1>4. CASE PollReads
    <2>1. /\ psock'.in = <<>> /\ psock'.out = psock.out
          /\ psock' = [in |-> psock'.in, out |-> psock'.out]
      BY <1>4, SocketFacts DEF PollReads
    <2>2. QED
      BY <1>4, <2>1, ProbeSeqs DEF PollReads, ProbeTypes
  <1>5. CASE PollReturns \/ ProbeInterrupted
    BY <1>5 DEF PollReturns, ProbeInterrupted, ProbeTypes
  <1>6. CASE Cleanup
    <2>1. /\ psock'.in = <<>> /\ psock'.out = IF up THEN Append(psock.out, "unset") ELSE <<>>
          /\ psock' = [in |-> psock'.in, out |-> psock'.out]
      BY <1>6 DEF Cleanup
    <2>2. QED
      BY <1>6, <2>1, ProbeSeqs DEF Cleanup, Return, ProbeTypes
  <1>7. CASE DeadlinePasses
    BY <1>7 DEF DeadlinePasses, ProbeTypes
  <1>8. CASE ServeProbe
    <2>1. /\ psock'.in = psock.in /\ psock'.out = Tail(psock.out)
          /\ psock' = [in |-> psock'.in, out |-> psock'.out]
      BY <1>8, SocketFacts DEF ServeProbe
    <2>2. QED
      BY <1>8, <2>1, ProbeSeqs DEF ServeProbe, ProbeTypes
  <1>9. CASE ManagerReads
    <2>1. /\ psock'.in = IF ppc = "done" THEN psock.in ELSE Append(psock.in, "Send")
          /\ psock'.out = psock.out /\ psock' = [in |-> psock'.in, out |-> psock'.out]
      <3>1. psock' = IF ppc = "done" THEN psock ELSE Event("Send")
        BY <1>9 DEF ManagerReads
      <3>2. psock = [in |-> psock.in, out |-> psock.out]
        BY DEF ProbeTypes
      <3>3. CASE ppc = "done"
        BY <3>1, <3>2, <3>3
      <3>4. CASE ppc # "done"
        BY <3>1, <3>4, SocketFacts
      <3>5. QED
        BY <3>3, <3>4
    <2>2. QED
      BY <1>9, <2>1, ProbeSeqs DEF ManagerReads, ProbeTypes
  <1>10. CASE StrayRead \/ OtherCopies
    <2>1. /\ \E e \in {"Send", "Cancelled"} : psock'.in = Append(psock.in, e)
          /\ psock'.out = psock.out /\ psock' = [in |-> psock'.in, out |-> psock'.out]
      BY <1>10, SocketFacts DEF StrayRead, OtherCopies
    <2>2. QED
      BY <1>10, <2>1, ProbeSeqs DEF StrayRead, OtherCopies, ProbeTypes
  <1>11. CASE CompositorGone
    <2>1. psock'.in = <<>> /\ psock'.out = <<>> /\ psock' = [in |-> psock'.in, out |-> psock'.out]
      BY <1>11 DEF CompositorGone
    <2>2. QED
      BY <1>11, <2>1, ProbeSeqs DEF CompositorGone, ProbeTypes
  <1>12. QED
    BY <1>0, <1>1, <1>2, <1>3, <1>4, <1>5, <1>6, <1>7, <1>8, <1>9, <1>10, <1>11, Zenon
       DEF ProbeNext, ProbeStep

LEMMA WithdrawnStep ==
  ASSUME ProbeTypes, Withdrawn, ProbeNext \/ CompositorGone \/ UNCHANGED probeVars
  PROVE  Withdrawn'
  <1>0. CASE UNCHANGED probeVars
    BY <1>0 DEF ProbeTypes, Withdrawn
  <1>1. CASE ProbeFails
    <2>1. psock'.in = <<>> /\ psock'.out = <<>> /\ psock' = [in |-> psock'.in, out |-> psock'.out]
      BY <1>1 DEF ProbeFails
    <2>2. QED
      BY <1>1, <2>1, ProbeSeqs, OutFacts DEF ProbeFails, Return, ProbeTypes, Withdrawn
  <1>2. CASE Publish
    <2>1. /\ psock'.in = psock.in /\ psock'.out = Append(psock.out, "set")
          /\ psock' = [in |-> psock'.in, out |-> psock'.out]
      BY <1>2, SocketFacts DEF Publish
    <2>2. QED
      BY <1>2, <2>1, ProbeSeqs, OutFacts DEF Publish, ProbeTypes, Withdrawn
  <1>3. CASE Look
    BY <1>3, ProbeSeqs, OutFacts DEF Look, Consumed, ProbeTypes, Withdrawn
  <1>4. CASE PollReads
    <2>1. /\ psock'.in = <<>> /\ psock'.out = psock.out
          /\ psock' = [in |-> psock'.in, out |-> psock'.out]
      BY <1>4, SocketFacts DEF PollReads
    <2>2. QED
      BY <1>4, <2>1, ProbeSeqs, OutFacts DEF PollReads, ProbeTypes, Withdrawn
  <1>5. CASE PollReturns \/ ProbeInterrupted
    BY <1>5 DEF PollReturns, ProbeInterrupted, ProbeTypes, Withdrawn
  <1>6. CASE Cleanup
    <2>1. /\ psock'.in = <<>> /\ psock'.out = IF up THEN Append(psock.out, "unset") ELSE <<>>
          /\ psock' = [in |-> psock'.in, out |-> psock'.out]
      BY <1>6 DEF Cleanup
    <2>2. QED
      BY <1>6, <2>1, ProbeSeqs, OutFacts DEF Cleanup, Return, ProbeTypes, Withdrawn
  <1>7. CASE DeadlinePasses
    BY <1>7 DEF DeadlinePasses, ProbeTypes, Withdrawn
  <1>8. CASE ServeProbe
    <2>1. /\ psock'.in = psock.in /\ psock'.out = Tail(psock.out)
          /\ psock' = [in |-> psock'.in, out |-> psock'.out]
      BY <1>8, SocketFacts DEF ServeProbe
    <2>2. QED
      BY <1>8, <2>1, ProbeSeqs, OutFacts DEF ServeProbe, ProbeTypes, Withdrawn
  <1>9. CASE ManagerReads
    <2>1. /\ psock'.in = IF ppc = "done" THEN psock.in ELSE Append(psock.in, "Send")
          /\ psock'.out = psock.out /\ psock' = [in |-> psock'.in, out |-> psock'.out]
      <3>1. psock' = IF ppc = "done" THEN psock ELSE Event("Send")
        BY <1>9 DEF ManagerReads
      <3>2. psock = [in |-> psock.in, out |-> psock.out]
        BY DEF ProbeTypes
      <3>3. CASE ppc = "done"
        BY <3>1, <3>2, <3>3
      <3>4. CASE ppc # "done"
        BY <3>1, <3>4, SocketFacts
      <3>5. QED
        BY <3>3, <3>4
    <2>2. QED
      BY <1>9, <2>1, ProbeSeqs, OutFacts DEF ManagerReads, ProbeTypes, Withdrawn
  <1>10. CASE StrayRead \/ OtherCopies
    <2>1. /\ \E e \in {"Send", "Cancelled"} : psock'.in = Append(psock.in, e)
          /\ psock'.out = psock.out /\ psock' = [in |-> psock'.in, out |-> psock'.out]
      BY <1>10, SocketFacts DEF StrayRead, OtherCopies
    <2>2. QED
      BY <1>10, <2>1, ProbeSeqs, OutFacts DEF StrayRead, OtherCopies, ProbeTypes, Withdrawn
  <1>11. CASE CompositorGone
    <2>1. psock'.in = <<>> /\ psock'.out = <<>> /\ psock' = [in |-> psock'.in, out |-> psock'.out]
      BY <1>11 DEF CompositorGone
    <2>2. QED
      BY <1>11, <2>1, ProbeSeqs, OutFacts DEF CompositorGone, ProbeTypes, Withdrawn
  <1>12. QED
    BY <1>0, <1>1, <1>2, <1>3, <1>4, <1>5, <1>6, <1>7, <1>8, <1>9, <1>10, <1>11, Zenon
       DEF ProbeNext, ProbeStep

LEMMA NoticedStep ==
  ASSUME ~Preempted, ProbeTypes, Withdrawn, NoticedInv,
         ProbeNext \/ CompositorGone \/ UNCHANGED probeVars
  PROVE  NoticedInv'
  <1>0. CASE UNCHANGED probeVars
    BY <1>0 DEF ProbeTypes, NoticedInv, Sent
  <1>1. CASE ProbeFails
    <2>1. psock'.in = <<>> /\ psock'.out = <<>> /\ psock' = [in |-> psock'.in, out |-> psock'.out]
      BY <1>1 DEF ProbeFails
    <2>2. QED
      BY <1>1, <2>1 DEF ProbeFails, Return, ProbeTypes, NoticedInv, Sent
  <1>2. CASE Publish
    <2>1. /\ psock'.in = psock.in /\ psock'.out = Append(psock.out, "set")
          /\ psock' = [in |-> psock'.in, out |-> psock'.out]
      BY <1>2, SocketFacts DEF Publish
    <2>2. QED
      BY <1>2, <2>1 DEF Publish, ProbeTypes, NoticedInv
  <1>3. CASE Look
    BY <1>3 DEF Look, Consumed, ProbeTypes, NoticedInv, Sent
  <1>4. CASE PollReads
    <2>1. /\ psock'.in = <<>> /\ psock'.out = psock.out
          /\ psock' = [in |-> psock'.in, out |-> psock'.out]
      BY <1>4, SocketFacts DEF PollReads
    <2>2. QED
      BY <1>4, <2>1 DEF PollReads, ProbeTypes, NoticedInv, Sent
  <1>5. CASE PollReturns \/ ProbeInterrupted
    BY <1>5 DEF PollReturns, ProbeInterrupted, ProbeTypes, NoticedInv, Sent
  <1>6. CASE Cleanup
    <2>1. /\ psock'.in = <<>> /\ psock'.out = IF up THEN Append(psock.out, "unset") ELSE <<>>
          /\ psock' = [in |-> psock'.in, out |-> psock'.out]
      BY <1>6 DEF Cleanup
    <2>2. QED
      BY <1>6, <2>1 DEF Cleanup, Return, ProbeTypes, NoticedInv, Sent
  <1>7. CASE DeadlinePasses
    BY <1>7 DEF DeadlinePasses, ProbeTypes, NoticedInv, Sent
  <1>8. CASE ServeProbe
    <2>1. /\ psock'.in = psock.in /\ psock'.out = Tail(psock.out)
          /\ psock' = [in |-> psock'.in, out |-> psock'.out]
      BY <1>8, SocketFacts DEF ServeProbe
    <2>2. QED
      BY <1>8, <2>1 DEF ServeProbe, ProbeTypes, NoticedInv, Sent
  <1>9. CASE ManagerReads
    <2>1. /\ psock'.in = IF ppc = "done" THEN psock.in ELSE Append(psock.in, "Send")
          /\ psock'.out = psock.out /\ psock' = [in |-> psock'.in, out |-> psock'.out]
      <3>1. psock' = IF ppc = "done" THEN psock ELSE Event("Send")
        BY <1>9 DEF ManagerReads
      <3>2. psock = [in |-> psock.in, out |-> psock.out]
        BY DEF ProbeTypes
      <3>3. CASE ppc = "done"
        BY <3>1, <3>2, <3>3
      <3>4. CASE ppc # "done"
        BY <3>1, <3>4, SocketFacts
      <3>5. QED
        BY <3>3, <3>4
    <2>2. Sent(Append(psock.in, "Send"))
      BY AppendIn DEF ProbeTypes
    <2>3. QED
      BY <1>9, <2>1, <2>2 DEF ManagerReads, ProbeTypes, NoticedInv, Withdrawn
  <1>10. CASE StrayRead \/ OtherCopies
    <2>1. /\ \E e \in {"Send", "Cancelled"} : psock'.in = Append(psock.in, e)
          /\ psock'.out = psock.out /\ psock' = [in |-> psock'.in, out |-> psock'.out]
      BY <1>10, SocketFacts DEF StrayRead, OtherCopies
    <2>2. Sent(psock.in) => Sent(psock'.in)
      BY <2>1, AppendIn DEF ProbeTypes
    <2>3. QED
      BY <1>10, <2>1, <2>2 DEF StrayRead, OtherCopies, ProbeTypes, NoticedInv
  <1>11. CASE CompositorGone
    <2>1. psock'.in = <<>> /\ psock'.out = <<>> /\ psock' = [in |-> psock'.in, out |-> psock'.out]
      BY <1>11 DEF CompositorGone
    <2>2. QED
      BY <1>11, <2>1 DEF CompositorGone, ProbeTypes, NoticedInv, Sent
  <1>12. QED
    BY <1>0, <1>1, <1>2, <1>3, <1>4, <1>5, <1>6, <1>7, <1>8, <1>9, <1>10, <1>11, Zenon
       DEF ProbeNext, ProbeStep

(* The selection that the probe published is gone before anything is        *)
(* copied, however the probe ended (clipboard.rs 215-219).                  *)
THEOREM ThrowawaysGo == CopyingSpec => []ThrowawayGone
  <1>1. CopyingInit => ProbeTypes /\ Withdrawn
    BY ProbeInits DEF CopyingInit
  <1>2. ProbeTypes /\ Withdrawn /\ [CopyingNext]_allVars => (ProbeTypes /\ Withdrawn)'
    BY StepSplits, ProbeTypeStep, WithdrawnStep
  <1>3. ProbeTypes /\ Withdrawn => ThrowawayGone
    BY DEF ProbeTypes, Withdrawn, ThrowawayGone
  <1>4. QED
    BY <1>1, <1>2, <1>3, PTL DEF CopyingSpec

-----------------------------------------------------------------------------
(* Steps of the thread's side after a probe that found a manager.           *)
USE DEF secret, flags, thread, channel, owner, sockets, compositor, world,
        history, vars

LEMMA RunningKeepsCompositor == Running => connUp' = connUp
  <1> SUFFICES ASSUME Running PROVE connUp' = connUp
    OBVIOUS
  <1>1. CASE Connect \/ Snapshot \/ DispatchDead \/ DispatchSend \/ DispatchSendOther
             \/ DispatchCancelled \/ DispatchDone \/ RecvHold \/ RecvShutdown \/ RecvEmpty
    BY <1>1, Zenon DEF Connect, Snapshot, DispatchDead, DispatchSend, DispatchSendOther,
       DispatchCancelled, DispatchDone, RecvHold, RecvShutdown, RecvEmpty
  <1>2. CASE Fail \/ Teardown \/ Flush \/ Exit \/ PollReady \/ PollTimeout \/ PollInterrupted
    BY <1>2, Zenon DEF Fail, Teardown, Flush, Exit, PollReady, PollTimeout, PollInterrupted
  <1>3. CASE SendHold \/ DropSend \/ OwnerStep \/ ProcessExit
    BY <1>3, Zenon DEF SendHold, DropSend, OwnerStep, Wake, WaitSignalled, WaitTimeout,
       DropClose, ProcessExit
  <1>4. CASE ServeRequest \/ Paste \/ ReadOtherType \/ ForeignCopy
    BY <1>4, Zenon DEF ServeRequest, Paste, ReadOtherType, Read, ForeignCopy
  <1>5. QED
    BY <1>1, <1>2, <1>3, <1>4, Zenon DEF Running, ThreadStep

LEMMA NoSetFacts ==
  ASSUME NEW P \in Seq(Requests), NEW X \in Seq(Requests), NoSet(P), NoSet(X)
  PROVE  NoSet(P \o X)
  <1>1. \A i \in DOMAIN (P \o X) : \/ i \in DOMAIN P /\ (P \o X)[i] = P[i]
                                   \/ \E j \in DOMAIN X : (P \o X)[i] = X[j]
    BY ConcatFacts
  <1>2. QED
    BY <1>1 DEF NoSet

(* Without a copy nothing is published, whatever else happens.              *)
LEMMA NeverCopiedStep ==
  ASSUME TypeOK, PasteInv, NeverCopied, Running, ~MayCopy
  PROVE  NeverCopied'
  <1> DEFINE Kept == UNCHANGED <<next, sel, reqs, out, delivered>>
  <1>0. Kept => NeverCopied'
    BY DEF NeverCopied, NoSet, Unpublished
  <1>t. /\ reqs \in Seq(Requests) /\ out \in Seq(Requests) /\ <<>> \in Seq(Requests)
        /\ NoSet(reqs) /\ NoSet(out) /\ NoSet(<<>>) /\ Unpublished
        /\ held = None /\ source = None /\ next = 1 /\ sel = None
        /\ \A i \in DOMAIN queue : queue[i].job # "Hold"
    <2>1. /\ held < next /\ source = held /\ held \in Nat
          /\ \A i \in DOMAIN queue : queue[i].job = "Hold" =>
               held < queue[i].id /\ queue[i].id < next /\ queue[i].id \in Nat
      BY DEF TypeOK, DataTypes, Holds, None, PasteInv, QueueOrder, Jobs, Shutdown
    <2>2. NoSet(<<>>) /\ <<>> \in Seq(Requests)
      BY DEF NoSet
    <2>3. next = 1 /\ sel = None /\ NoSet(reqs) /\ NoSet(out) /\ Unpublished
      BY DEF NeverCopied
    <2>4. held = 0 /\ \A i \in DOMAIN queue : queue[i].job # "Hold"
      BY <2>1, <2>3
    <2>5. reqs \in Seq(Requests) /\ out \in Seq(Requests)
      BY DEF TypeOK, DataTypes
    <2>6. QED
      BY <2>1, <2>2, <2>3, <2>4, <2>5, Zenon DEF None
  <1>d. DestroyReq(source) = <<>> /\ out \o DestroyReq(source) = out
    BY <1>t, ConcatEmptySeq DEF DestroyReq
  <1>1. ASSUME NEW flushed \in Seq(Requests), NEW raised, Gone(flushed, raised),
               NoSet(flushed), UNCHANGED <<next, sel, delivered>>
        PROVE  NeverCopied'
    <2>1. out' = <<>> /\ reqs' \in {<<>>, (reqs \o flushed) \o <<Disconnect>>}
      BY <1>1 DEF Gone
    <2>2. <<Disconnect>> \in Seq(Requests) /\ NoSet(<<Disconnect>>)
      BY RequestTypes, None \in Holds \cup {None} DEF NoSet, Disconnect
    <2>3. reqs \o flushed \in Seq(Requests) /\ NoSet(reqs \o flushed)
      BY <1>1, <1>t, NoSetFacts
    <2>4. NoSet((reqs \o flushed) \o <<Disconnect>>)
      BY <2>2, <2>3, NoSetFacts
    <2>5. QED
      BY <1>1, <1>t, <2>1, <2>4 DEF NeverCopied, Unpublished
  <1>2. CASE Fail
    BY <1>1, <1>2, <1>t DEF Fail
  <1>3. CASE Exit
    BY <1>1, <1>3, <1>t, <1>d DEF Exit
  <1>4. CASE ProcessExit
    <2>1. CASE pc \in Dead
      BY <1>4, <2>1, <1>t DEF ProcessExit, NeverCopied, Unpublished
    <2>2. CASE pc \notin Dead
      <3>1. Gone(<<>>, Signal(doneTx)) /\ UNCHANGED <<next, sel, delivered>>
        BY <1>4, <2>2, Zenon DEF ProcessExit
      <3>2. QED
        BY <1>1, <1>t, <3>1
    <2>3. QED
      BY <2>1, <2>2
  <1>5. CASE DispatchCancelled
    <2>1. out' = out \o DestroyReq(source) /\ UNCHANGED <<next, sel, reqs, delivered>>
      BY <1>5, Zenon DEF DispatchCancelled
    <2>2. QED
      BY <1>0, <1>d, <2>1
  <1>6. CASE Teardown
    <2>1. /\ UNCHANGED <<next, sel, reqs, delivered>>
          /\ out' = out \/ out' = out \o DestroyReq(source)
      BY <1>6, Zenon DEF Teardown
    <2>2. QED
      BY <1>0, <1>d, <2>1
  <1>7. CASE DispatchSend
    <2>1. Kept
      BY <1>7, <1>t, Zenon DEF DispatchSend
    <2>2. QED
      BY <1>0, <2>1
  <1>8. CASE RecvHold
    <2>1. queue # <<>> /\ Head(queue).job = "Hold"
      BY <1>8, Zenon DEF RecvHold
    <2>2. Head(queue) = queue[1] /\ 1 \in DOMAIN queue
      BY <2>1, TailFacts DEF TypeOK, DataTypes
    <2>3. QED
      BY <1>t, <2>1, <2>2
  <1>9. CASE Flush
    <2>1. reqs' = reqs \o out /\ out' = <<>> /\ UNCHANGED <<next, sel, delivered>>
      BY <1>9, Zenon DEF Flush
    <2>2. NoSet(reqs \o out)
      BY <1>t, NoSetFacts
    <2>3. QED
      BY <1>t, <2>1, <2>2 DEF NeverCopied, Unpublished
  <1>10. CASE ServeRequest
    <2>1. /\ reqs # <<>> /\ reqs' = Tail(reqs) /\ UNCHANGED <<next, out, delivered>>
          /\ sel' = LET r == Head(reqs) IN
                      CASE r.op = "Set" -> r.src
                        [] r.op = "Destroy" -> IF sel = r.src THEN None ELSE sel
                        [] r.op = "Disconnect" -> None
      BY <1>10, Zenon DEF ServeRequest
    <2>2. /\ Head(reqs) \in Requests /\ Head(reqs) = reqs[1] /\ 1 \in DOMAIN reqs
          /\ \A i \in DOMAIN reqs' : reqs'[i] = reqs[i + 1] /\ i + 1 \in DOMAIN reqs
      BY <1>t, <2>1, TailFacts
    <2>3. Head(reqs).op \in {"Destroy", "Disconnect"}
      BY <1>t, <2>2 DEF Requests, NoSet
    <2>4. sel' = None
      BY <1>t, <2>1, <2>3
    <2>5. NoSet(reqs')
      BY <1>t, <2>2 DEF NoSet
    <2>6. QED
      BY <1>t, <2>1, <2>4, <2>5 DEF NeverCopied, Unpublished
  <1>11. CASE Paste \/ ReadOtherType \/ ForeignCopy
    BY <1>11, <1>t, Zenon DEF Paste, ReadOtherType, Read, ForeignCopy
  <1>12. CASE Connect \/ Snapshot \/ DispatchDead \/ DispatchSendOther \/ DispatchDone
              \/ RecvShutdown \/ RecvEmpty
    <2>1. Kept
      BY <1>12, Zenon DEF Connect, Snapshot, DispatchDead, DispatchSendOther, DispatchDone,
         RecvShutdown, RecvEmpty
    <2>2. QED
      BY <1>0, <2>1
  <1>13. CASE PollReady \/ PollTimeout \/ PollInterrupted \/ DropSend \/ OwnerStep
    <2>1. Kept
      BY <1>13, Zenon DEF PollReady, PollTimeout, PollInterrupted, DropSend, OwnerStep,
         Wake, WaitSignalled, WaitTimeout, DropClose
    <2>2. QED
      BY <1>0, <2>1
  <1>14. QED
    BY <1>2, <1>3, <1>4, <1>5, <1>6, <1>7, <1>8, <1>9, <1>10, <1>11, <1>12, <1>13,
       Zenon DEF Running, ThreadStep

(* Without a compositor the thread never connects. *)
LEMMA CutOffStep ==
  ASSUME CutOff, Running
  PROVE  CutOff'
  <1>t. /\ ~connUp /\ pc \in {"start", "exited", "failed", "killed"}
        /\ sel = None /\ reqs = <<>> /\ Unpublished
    BY DEF CutOff, Dead
  <1>c. ~connUp'
    BY <1>t, RunningKeepsCompositor
  <1>1. CASE UNCHANGED <<sel, reqs, delivered>> /\ pc' \in {pc, "failed", "killed"}
    BY <1>1, <1>t, <1>c DEF CutOff, Unpublished, Dead
  <1>2. CASE Fail
    BY <1>1, <1>2, <1>t DEF Fail, Gone
  <1>3. CASE ProcessExit
    <2>1. CASE pc \in Dead
      BY <1>1, <1>3, <2>1 DEF ProcessExit
    <2>2. CASE pc \notin Dead
      <3>1. Gone(<<>>, Signal(doneTx)) /\ pc' = "killed" /\ UNCHANGED <<sel, delivered>>
        BY <1>3, <2>2, Zenon DEF ProcessExit
      <3>2. QED
        BY <1>1, <1>t, <3>1 DEF Gone
    <2>3. QED
      BY <2>1, <2>2
  <1>4. CASE SendHold \/ DropSend \/ OwnerStep
    <2>1. UNCHANGED <<sel, reqs, delivered>> /\ pc' = pc
      BY <1>4, Zenon DEF SendHold, DropSend, OwnerStep, Wake, WaitSignalled, WaitTimeout, DropClose
    <2>2. QED
      BY <1>1, <2>1
  <1>5. CASE ServeRequest \/ Paste \/ ReadOtherType \/ ForeignCopy
    BY <1>5, <1>t, Zenon DEF ServeRequest, Paste, ReadOtherType, Read, ForeignCopy
  <1>6. CASE Connect \/ Snapshot \/ DispatchDead \/ DispatchSend \/ DispatchSendOther
             \/ DispatchCancelled \/ DispatchDone \/ RecvHold \/ RecvShutdown \/ RecvEmpty
             \/ Teardown \/ Flush \/ Exit \/ PollReady \/ PollTimeout \/ PollInterrupted
    BY <1>6, <1>t DEF Connect, Snapshot, DispatchDead, DispatchSend, DispatchSendOther, Dispatching,
       DispatchCancelled, DispatchDone, RecvHold, RecvShutdown, RecvEmpty, Teardown, Flush,
       Exit, PollReady, PollTimeout, PollInterrupted
  <1>7. QED
    BY <1>2, <1>3, <1>4, <1>5, <1>6, Zenon DEF Running, ThreadStep

(* The probe leaves the compositor and the manager alone, and its own       *)
(* result once it returned.                                                 *)
LEMMA ProbeMoves ==
  ASSUME ProbeNext
  PROVE  /\ UNCHANGED <<up, eager>>
         /\ ppc = "done" => ppc' = "done" /\ found' = found
  <1>1. CASE ProbeFails \/ Publish \/ Look \/ PollReads
    BY <1>1 DEF ProbeFails, Publish, Look, PollReads, Return
  <1>2. CASE PollReturns \/ Cleanup \/ ProbeInterrupted \/ DeadlinePasses
    BY <1>2 DEF PollReturns, Cleanup, Return, ProbeInterrupted, DeadlinePasses
  <1>3. CASE ServeProbe \/ ManagerReads \/ StrayRead \/ OtherCopies
    BY <1>3, Zenon DEF ServeProbe, ManagerReads, StrayRead, OtherCopies
  <1>4. QED
    BY <1>1, <1>2, <1>3, Zenon DEF ProbeNext, ProbeStep

LEMMA ManagerStep ==
  ASSUME TypeOK, PasteInv, NoticedInv', ManagerInv, [CopyingNext]_allVars
  PROVE  ManagerInv'
  <1>1. CASE ProbeNext /\ UNCHANGED vars
    <2>1. up' = connUp' /\ eager' = eager /\ (ppc = "done" => ppc' = "done" /\ found' = found)
      BY <1>1, ProbeMoves DEF ManagerInv
    <2>2. NotStarted' <=> NotStarted
      BY <1>1, Zenon DEF NotStarted, Unpublished
    <2>3. (CutOff' <=> CutOff) /\ (NeverCopied' <=> NeverCopied)
      BY <1>1, Zenon DEF CutOff, NeverCopied, NoSet, Unpublished
    <2>4. NotStarted => NeverCopied /\ (connUp \/ CutOff)
      BY DEF NotStarted, NeverCopied, NoSet, CutOff
    <2>5. connUp' = connUp
      BY <1>1
    <2>6. eager' /\ up' /\ ppc' = "done" => found' = "manager"
      BY DEF NoticedInv
    <2>7. QED
      BY <2>1, <2>2, <2>3, <2>4, <2>5, <2>6 DEF ManagerInv
  <1>2. CASE MayStart /\ Running /\ UNCHANGED probeVars
    <2>1. ppc = "done" /\ ppc' = "done" /\ up' = connUp' /\ eager' = eager /\ found' = found
      BY <1>2, RunningKeepsCompositor DEF MayStart, ManagerInv
    <2>2. eager => CutOff' \/ (found = "manager" /\ NeverCopied')
      BY <1>2, <2>1, CutOffStep, NeverCopiedStep DEF ManagerInv, MayCopy
    <2>3. QED
      BY <2>1, <2>2 DEF ManagerInv
  <1>3. CASE CompositorExit /\ CompositorGone
    <2>1. /\ up' = FALSE /\ connUp' = FALSE /\ connUp /\ UNCHANGED <<ppc, eager, found>>
          /\ sel' = None /\ reqs' = <<>> /\ UNCHANGED <<pc, next, out, delivered>>
      BY <1>3, Zenon DEF CompositorExit, CompositorGone
    <2>2. NotStarted => NotStarted'
      BY <2>1 DEF NotStarted, Unpublished
    <2>3. ~CutOff /\ (NeverCopied => NeverCopied')
      BY <2>1 DEF CutOff, NeverCopied, NoSet, Unpublished
    <2>4. QED
      BY <2>1, <2>2, <2>3 DEF ManagerInv
  <1>4. CASE UNCHANGED allVars
    BY <1>4 DEF ManagerInv, NotStarted, CutOff, NeverCopied, NoSet, Unpublished
  <1>5. QED
    BY <1>1, <1>2, <1>3, <1>4, Zenon DEF CopyingNext

(* Unless the process is held up for the whole of the probe's time, a       *)
(* manager that reads every selection is offered no secret, with any number *)
(* of copies: by the command that gives up, by the window that refuses each *)
(* copy, and by the thread that finds no compositor.                        *)
THEOREM ManagersSeeNothing == ~Preempted => (CopyingSpec => []NoSecretForManagers)
  <1> SUFFICES ASSUME ~Preempted PROVE CopyingSpec => []NoSecretForManagers
    OBVIOUS
  <1>1. CopyingInit => /\ ProbeTypes /\ Withdrawn /\ NoticedInv
                       /\ TypeOK /\ PasteInv /\ ManagerInv
    <2> SUFFICES ASSUME CopyingInit
                 PROVE  TypeOK /\ ManagerInv
      BY ProbeInits, PasteInits DEF CopyingInit
    <2>1. ManagerInv
      BY DEF CopyingInit, Init, ProbeInit, ManagerInv, NotStarted, Unpublished
    <2>2. FlagTypes
      BY Zenon DEF CopyingInit, Init, FlagTypes
    <2>3. DataTypes
      BY BoundsAssumption DEF CopyingInit, Init, DataTypes, None, Holds
    <2>4. QED
      BY <2>1, <2>2, <2>3 DEF TypeOK
  <1>2. /\ ProbeTypes /\ Withdrawn /\ NoticedInv /\ TypeOK /\ PasteInv /\ ManagerInv
        /\ [CopyingNext]_allVars
        => (ProbeTypes /\ Withdrawn /\ NoticedInv /\ TypeOK /\ PasteInv /\ ManagerInv)'
    <2> SUFFICES ASSUME ProbeTypes, Withdrawn, NoticedInv, TypeOK, PasteInv, ManagerInv,
                        [CopyingNext]_allVars
                 PROVE  (ProbeTypes /\ Withdrawn /\ NoticedInv /\ TypeOK /\ PasteInv /\ ManagerInv)'
      OBVIOUS
    <2>1. ProbeTypes' /\ Withdrawn' /\ NoticedInv'
      BY StepSplits, ProbeTypeStep, WithdrawnStep, NoticedStep
    <2>2. TypeOK' /\ PasteInv'
      BY StepSplits, FlagStep, DataStep, PasteStep DEF TypeOK
    <2>3. QED
      BY <2>1, <2>2, ManagerStep
  <1>3. ManagerInv => NoSecretForManagers
    BY DEF ManagerInv, NotStarted, CutOff, NeverCopied, Unpublished, NoSecretForManagers
  <1>4. QED
    BY <1>1, <1>2, <1>3, PTL DEF CopyingSpec
=============================================================================
