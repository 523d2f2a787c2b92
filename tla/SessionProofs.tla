---------------------------- MODULE SessionProofs ----------------------------
(***************************************************************************)
(* Proofs about the unlocked session, for any entries, workers, timeouts   *)
(* and keys.                                                               *)
(***************************************************************************)
EXTENDS Session, TLAPS

(* A derivation has a key from its load to its completion, a queued         *)
(* completion is the only one of a worker that waits for it, and every      *)
(* worker that waits has one.                                               *)
LoadedHaveKeys ==
  \A w \in Workers : worker[w].stage \in {"loaded", "posted"}
                       <=> worker[w].key # NoKey
PostedAreQueued ==
  \A w \in Workers : worker[w].stage = "posted" => Queued(w)
QueuedArePosted ==
  \A i \in DOMAIN evq : evq[i].run = "complete"
                          => worker[evq[i].by].stage = "posted"
QueuedOnce ==
  \A i, j \in DOMAIN evq :
    evq[i].run = "complete" /\ evq[j].run = "complete" /\ evq[i].by = evq[j].by
      => i = j
Completions ==
  LoadedHaveKeys /\ PostedAreQueued /\ QueuedArePosted /\ QueuedOnce

(* Since it was last found valid the key has aged as long as the timer has  *)
(* not been served; one loaded since is younger.                            *)
AgeInv == cachedKey # NoKey => age < LongestTimeout + sinceTick

-----------------------------------------------------------------------------
LEMMA Longest ==
  LongestTimeout \in Timeouts /\ \A t \in Timeouts : t <= LongestTimeout
  BY SessionAssumption DEF LongestTimeout

LEMMA TailFacts ==
  ASSUME NEW S, NEW s \in Seq(S), s # <<>>
  PROVE  /\ Tail(s) \in Seq(S) /\ Head(s) \in S /\ Head(s) = s[1]
         /\ 1 \in DOMAIN s
         /\ \A i \in DOMAIN Tail(s) : /\ i \in Nat \ {0}
                                      /\ Tail(s)[i] = s[i + 1]
                                      /\ i + 1 \in DOMAIN s
         /\ \A i \in DOMAIN s : i # 1 => /\ i - 1 \in DOMAIN Tail(s)
                                          /\ Tail(s)[i - 1] = s[i]
  OBVIOUS

LEMMA AppendFacts ==
  ASSUME NEW S, NEW s \in Seq(S), NEW e \in S
  PROVE  /\ Append(s, e) \in Seq(S) /\ Len(s) \in Nat
         /\ DOMAIN s = 1..Len(s)
         /\ DOMAIN Append(s, e) = 1..(Len(s) + 1)
         /\ \A i \in DOMAIN s : Append(s, e)[i] = s[i]
         /\ Append(s, e)[Len(s) + 1] = e
  OBVIOUS

LEMMA ClosureTypes ==
  /\ [run |-> "lock"] \in Closures
  /\ \A w \in Workers : [run |-> "complete", by |-> w] \in Closures
  /\ \A c \in Closures : c.run = "complete" => c.by \in Workers
  /\ Idle \in WorkerStates
  BY DEF Closures, Idle, WorkerStates, NoKey

-----------------------------------------------------------------------------
(* Every state of the session is well typed (main.rs 825-1526). *)
THEOREM TypeCorrect == Spec => []TypeOK
<1>1. Init => TypeOK
  <2> SUFFICES ASSUME Init PROVE TypeOK
    OBVIOUS
  <2>1. worker \in [Workers -> WorkerStates]
    BY ClosureTypes DEF Init
  <2>2. diskKey \in Keys \cup {NoKey} /\ NoKey \in Keys \cup {NoKey}
    BY DEF Init
  <2>3. /\ evq \in Seq(Closures) /\ signals \in 0..MaxSignals
        /\ sinceTick \in 0..TimerPeriod + MaxDelay
    BY SessionAssumption DEF Init
  <2> QED
    BY <2>1, <2>2, <2>3 DEF Init, TypeOK
<1>2. ASSUME TypeOK, [Next]_vars PROVE TypeOK'
  <2>0. DropHandle => /\ sent' \subseteq Threads
                      /\ selection' \in Threads \cup {"none"}
    BY <1>2 DEF DropHandle, Threads, TypeOK
  <2>1. LockSession => /\ cachedKey' = NoKey /\ age' = 0 /\ clip' = NoKey
                       /\ sent' \subseteq Threads
                       /\ selection' \in Threads \cup {"none"}
                       /\ locked' = TRUE /\ overtaken' \subseteq Workers
    BY <2>0 DEF LockSession, InFlight
  <2>2. ASSUME NEW w \in Workers, NEW kind \in {"unlock", "init"}, Start(w, kind)
        PROVE TypeOK'
    <3>1. [Idle EXCEPT !.stage = "start", !.kind = kind] \in WorkerStates
      BY DEF Idle, WorkerStates
    <3>2. worker' \in [Workers -> WorkerStates]
      BY <1>2, <2>2, <3>1 DEF Start, TypeOK
    <3> QED
      BY <1>2, <2>2, <3>2 DEF Start, TypeOK, disk, session, clipboard
  <2>3. ASSUME NEW w \in Workers, WorkerInit(w) PROVE TypeOK'
    <3>1. worker' \in [Workers -> WorkerStates]
      BY <1>2, <2>3 DEF WorkerInit, TypeOK, WorkerStates
    <3> QED
      BY <1>2, <2>3, <3>1 DEF WorkerInit, FreshKey, TypeOK, session, clipboard
  <2>4. ASSUME NEW w \in Workers, WorkerLoad(w) PROVE TypeOK'
    <3>1. worker' \in [Workers -> WorkerStates]
      BY <1>2, <2>4 DEF WorkerLoad, TypeOK, WorkerStates
    <3> QED
      BY <1>2, <2>4, <3>1 DEF WorkerLoad, TypeOK, disk, session, clipboard
  <2>5. ASSUME NEW w \in Workers, WorkerFail(w) PROVE TypeOK'
    BY <1>2, <2>5, ClosureTypes DEF WorkerFail, TypeOK, disk, session, clipboard
  <2>6. ASSUME NEW w \in Workers, WorkerPost(w) PROVE TypeOK'
    <3>1. worker' \in [Workers -> WorkerStates]
      BY <1>2, <2>6 DEF WorkerPost, TypeOK, WorkerStates
    <3>2. evq' \in Seq(Closures)
      BY <1>2, <2>6, ClosureTypes, AppendFacts DEF WorkerPost, TypeOK
    <3> QED
      BY <1>2, <2>6, <3>1, <3>2 DEF WorkerPost, TypeOK, disk, session, clipboard
  <2>7. CASE RunEvent
    <3>1. Head(evq) \in Closures /\ evq' \in Seq(Closures)
      BY <1>2, <2>7, TailFacts DEF RunEvent, TypeOK
    <3>2. CASE Head(evq).run = "complete" /\ RunComplete(Head(evq).by)
      <4>1. Head(evq).by \in Workers
        BY <3>1, <3>2, ClosureTypes
      <4>2. worker[Head(evq).by].key \in Keys \cup {NoKey}
        BY <1>2, <4>1 DEF TypeOK, WorkerStates
      <4>3. worker' \in [Workers -> WorkerStates]
        BY <1>2, <3>2, ClosureTypes DEF RunComplete, TypeOK
      <4> QED
        BY <1>2, <2>0, <2>7, <3>1, <3>2, <4>2, <4>3
        DEF RunEvent, RunComplete, TypeOK, disk
    <3>3. CASE LockSession /\ UNCHANGED <<needsInit, worker>>
      BY <1>2, <2>1, <2>7, <3>1, <3>3 DEF RunEvent, TypeOK, disk
    <3> QED
      BY <2>7, <3>2, <3>3 DEF RunEvent
  <2>8. CASE Lock
    BY <1>2, <2>1, <2>8 DEF Lock, TypeOK, disk, events
  <2>9. CASE Signal
    BY <1>2, <2>9, SessionAssumption DEF Signal, TypeOK, disk, session, clipboard
  <2>10. CASE Watcher
    <3>1. evq' \in Seq(Closures)
      BY <1>2, <2>10, ClosureTypes, AppendFacts DEF Watcher, TypeOK
    <3> QED
      BY <1>2, <2>10, <3>1 DEF Watcher, TypeOK, disk, session, clipboard
  <2>11. CASE Elapse
    <3>1. sinceTick' \in 0..TimerPeriod + MaxDelay
      BY <1>2, <2>11, SessionAssumption DEF Elapse, TypeOK
    <3> QED
      BY <1>2, <2>11, <3>1 DEF Elapse, TypeOK, disk, events, clipboard
  <2>12. CASE TimerTick
    <3>1. CASE Expired
      <4>1. LockSession
        BY <2>12, <3>1, Zenon DEF TimerTick
      <4>2. /\ sinceTick' = 0 /\ 0 \in 0..TimerPeriod + MaxDelay
            /\ UNCHANGED <<disk, timeout, needsInit, blocked, events, running>>
        <5>1. 0 \in 0..TimerPeriod + MaxDelay
          BY SessionAssumption
        <5> QED
          BY <2>12, <5>1, Zenon DEF TimerTick
      <4> QED
        BY <1>2, <2>1, <4>1, <4>2 DEF TypeOK, disk, events
    <3>2. CASE ~Expired
      <4>1. 0 \in 0..TimerPeriod + MaxDelay
        BY SessionAssumption
      <4> QED
        BY <1>2, <2>12, <3>2, <4>1
        DEF TimerTick, TypeOK, disk, events, session, clipboard
    <3> QED
      BY <3>1, <3>2
  <2>13. CASE Quit
    BY <1>2, <2>13 DEF Quit, TypeOK, disk, events, clipboard
  <2>14. ASSUME NEW e \in Entries, Copy(e) \/ Store(e) \/ Remove(e)
         PROVE TypeOK'
    BY <1>2, <2>14
    DEF Copy, Store, Remove, Threads, TypeOK, disk, events, session, clipboard
  <2>15. CASE Consumed \/ Withdraw \/ \E th \in Threads : Publish(th)
    BY <1>2, <2>15
    DEF Consumed, Withdraw, Publish, Outside, TypeOK, disk, events, session
  <2>16. ASSUME NEW t \in Timeouts, SaveSettings(t) PROVE TypeOK'
    BY <1>2, <2>16 DEF SaveSettings, TypeOK, disk, events, session, clipboard
  <2>17. ASSUME NEW k \in Keys, NEW restored \in SUBSET Entries,
                RestoreFiles(k, restored)
         PROVE  diskKey' \in Keys /\ enc' \in [Entries -> Keys \cup {NoKey}]
    BY <1>2, <2>17 DEF RestoreFiles, TypeOK
  <2>18. ASSUME NEW k \in Keys, NEW restored \in SUBSET Entries,
                NEW t \in Timeouts, Restore(k, restored, t)
         PROVE TypeOK'
    BY <1>2, <2>1, <2>17, <2>18 DEF Restore, TypeOK, events
  <2>19. ASSUME NEW k \in Keys, NEW restored \in SUBSET Entries,
                RestoreFails(k, restored)
         PROVE TypeOK'
    BY <1>2, <2>17, <2>19 DEF RestoreFails, TypeOK, events, session, clipboard
  <2>20. CASE ReplaceKeyElsewhere
    BY <1>2, <2>20
    DEF ReplaceKeyElsewhere, FreshKey, TypeOK, events, session, clipboard
  <2>21. CASE UNCHANGED vars
    BY <1>2, <2>21 DEF vars, disk, session, clipboard, events, TypeOK
  <2> QED
    BY <1>2, <2>2, <2>3, <2>4, <2>5, <2>6, <2>7, <2>8, <2>9, <2>10, <2>11,
       <2>12, <2>13, <2>14, <2>15, <2>16, <2>18, <2>19, <2>20, <2>21
    DEF Next, UnlockPassword, SetInitPassword, WorkerStep
<1> QED
  BY <1>1, <1>2, PTL DEF Spec

-----------------------------------------------------------------------------
(* What leaves the workers and the event queue alone. *)
LEMMA CompletionsKept ==
  ASSUME Completions, UNCHANGED <<worker, evq>>
  PROVE  Completions'
  BY DEF Completions, LoadedHaveKeys, PostedAreQueued, Queued, QueuedArePosted,
         QueuedOnce

(* A step of a worker that is not posted, queueing nothing. *)
LEMMA WorkerMoves ==
  ASSUME TypeOK, Completions, UNCHANGED evq,
         NEW w \in Workers, NEW state \in WorkerStates,
         worker[w].stage # "posted", worker' = [worker EXCEPT ![w] = state],
         state.stage # "posted", state.stage = "loaded" <=> state.key # NoKey
  PROVE  Completions'
  <1>1. LoadedHaveKeys'
    BY DEF TypeOK, Completions, LoadedHaveKeys
  <1>2. \A i \in DOMAIN evq : evq[i].run = "complete" => evq[i].by \in Workers
    BY ClosureTypes DEF TypeOK
  <1>3. QueuedArePosted'
    BY <1>2 DEF TypeOK, Completions, QueuedArePosted
  <1>4. PostedAreQueued'
    BY DEF TypeOK, Completions, PostedAreQueued, Queued
  <1> QED
    BY <1>1, <1>3, <1>4 DEF Completions, QueuedOnce

LEMMA CompletionsStep ==
  ASSUME TypeOK, Completions, [Next]_vars
  PROVE  Completions'
<1>0. \A i \in DOMAIN evq : evq[i].run = "complete" => evq[i].by \in Workers
  BY ClosureTypes DEF TypeOK
<1>1. ASSUME NEW w \in Workers, NEW kind \in {"unlock", "init"}, Start(w, kind)
      PROVE Completions'
  <2> DEFINE state == [Idle EXCEPT !.stage = "start", !.kind = kind]
  <2>1. state \in WorkerStates /\ state.stage = "start" /\ state.key = NoKey
    BY DEF Idle, WorkerStates
  <2> QED
    BY <1>1, <2>1, WorkerMoves DEF Start
<1>2. ASSUME NEW w \in Workers, WorkerInit(w) PROVE Completions'
  <2> DEFINE state == [worker[w] EXCEPT !.stage = "initialized"]
  <2>1. /\ state \in WorkerStates /\ state.stage = "initialized"
        /\ state.key = NoKey
    BY <1>2 DEF WorkerInit, TypeOK, WorkerStates, Completions, LoadedHaveKeys
  <2>2. worker' = [worker EXCEPT ![w] = state]
    BY <1>2 DEF WorkerInit, TypeOK
  <2> QED
    BY <1>2, <2>1, <2>2, WorkerMoves DEF WorkerInit
<1>3. ASSUME NEW w \in Workers, WorkerLoad(w) PROVE Completions'
  <2> DEFINE state == [worker[w] EXCEPT !.stage = "loaded", !.key = diskKey]
  <2>1. /\ state \in WorkerStates /\ state.stage = "loaded"
        /\ state.key # NoKey
    BY <1>3 DEF WorkerLoad, TypeOK, WorkerStates
  <2>2. worker' = [worker EXCEPT ![w] = state]
    BY <1>3 DEF WorkerLoad, TypeOK
  <2> QED
    BY <1>3, <2>1, <2>2, WorkerMoves DEF WorkerLoad
<1>4. ASSUME NEW w \in Workers, WorkerFail(w) PROVE Completions'
  BY <1>4, ClosureTypes, WorkerMoves DEF WorkerFail, Idle
<1>5. ASSUME NEW w \in Workers, WorkerPost(w) PROVE Completions'
  <2> DEFINE done == [run |-> "complete", by |-> w]
  <2>1. /\ Len(evq) \in Nat /\ DOMAIN evq = 1..Len(evq)
        /\ DOMAIN evq' = 1..(Len(evq) + 1)
        /\ \A i \in DOMAIN evq : evq'[i] = evq[i]
        /\ evq'[Len(evq) + 1] = done
    BY <1>5, ClosureTypes, AppendFacts DEF WorkerPost, TypeOK
  <2>2. /\ worker'[w].stage = "posted" /\ worker'[w].key = worker[w].key
        /\ \A v \in Workers : v # w => worker'[v] = worker[v]
        /\ worker[w].stage = "loaded"
    BY <1>5 DEF WorkerPost, TypeOK, WorkerStates
  <2>3. LoadedHaveKeys'
    BY <2>2 DEF Completions, LoadedHaveKeys
  <2>4. QueuedArePosted'
    BY <1>0, <2>1, <2>2 DEF Completions, QueuedArePosted
  <2>5. QueuedOnce'
    <3>1. \A i \in DOMAIN evq : evq[i].run = "complete" => evq[i].by # w
      BY <1>0, <2>2 DEF Completions, QueuedArePosted
    <3> QED
      BY <2>1, <3>1 DEF Completions, QueuedOnce
  <2>6. PostedAreQueued'
    <3>1. Queued(w)'
      BY <2>1 DEF Queued
    <3>2. \A v \in Workers : Queued(v) => Queued(v)'
      BY <2>1 DEF Queued
    <3> QED
      BY <2>2, <3>1, <3>2 DEF Completions, PostedAreQueued
  <2> QED
    BY <2>3, <2>4, <2>5, <2>6 DEF Completions
<1>6. CASE RunEvent
  <2>1. /\ Head(evq) = evq[1] /\ Head(evq) \in Closures /\ 1 \in DOMAIN evq
        /\ \A i \in DOMAIN evq' : /\ i \in Nat \ {0} /\ i + 1 \in DOMAIN evq
                                  /\ evq'[i] = evq[i + 1]
        /\ \A i \in DOMAIN evq : i # 1 => /\ i - 1 \in DOMAIN evq'
                                          /\ evq'[i - 1] = evq[i]
    BY <1>6, TailFacts DEF RunEvent, TypeOK
  <2>0. ASSUME NEW v \in Workers, Queued(v),
               evq[1] # [run |-> "complete", by |-> v]
        PROVE  Queued(v)'
    <3>1. PICK i \in DOMAIN evq : evq[i] = [run |-> "complete", by |-> v]
      BY <2>0 DEF Queued
    <3>2. i # 1
      BY <2>0, <3>1
    <3>3. i - 1 \in DOMAIN evq' /\ evq'[i - 1] = [run |-> "complete", by |-> v]
      BY <2>1, <3>1, <3>2
    <3> QED
      BY <3>3 DEF Queued
  <2>2. QueuedOnce'
    BY <2>1 DEF Completions, QueuedOnce
  <2>3. CASE Head(evq).run = "complete" /\ RunComplete(Head(evq).by)
    <3> DEFINE w == Head(evq).by
    <3>1. w \in Workers /\ \A v \in Workers : v # w => worker'[v] = worker[v]
      BY <2>1, <2>3, ClosureTypes DEF RunComplete, TypeOK
    <3>2. worker'[w] = Idle
      BY <2>3, <3>1 DEF RunComplete, TypeOK
    <3>3. LoadedHaveKeys'
      BY <3>1, <3>2 DEF Completions, LoadedHaveKeys, Idle
    <3>4. \A i \in DOMAIN evq : i # 1 /\ evq[i].run = "complete" => evq[i].by # w
      BY <2>1, <2>3 DEF Completions, QueuedOnce
    <3>5. ASSUME NEW i \in DOMAIN evq', evq'[i].run = "complete"
          PROVE  worker'[evq'[i].by].stage = "posted"
      <4>1. i + 1 \in DOMAIN evq /\ i + 1 # 1 /\ evq[i + 1] = evq'[i]
        BY <2>1
      <4>2. evq[i + 1].by # w /\ evq[i + 1].by \in Workers
        BY <1>0, <3>4, <3>5, <4>1
      <4> QED
        BY <3>1, <3>5, <4>1, <4>2 DEF Completions, QueuedArePosted
    <3>6. PostedAreQueued'
      <4>1. \A v \in Workers : v # w => evq[1] # [run |-> "complete", by |-> v]
        BY <2>1
      <4>2. ASSUME NEW v \in Workers, worker'[v].stage = "posted"
            PROVE  Queued(v)'
        <5>1. v # w
          BY <3>2, <4>2 DEF Idle
        <5>2. Queued(v)
          BY <3>1, <4>2, <5>1 DEF Completions, PostedAreQueued
        <5> QED
          BY <2>0, <4>1, <5>1, <5>2
      <4> QED
        BY <4>2 DEF PostedAreQueued
    <3> QED
      BY <2>2, <3>3, <3>5, <3>6 DEF Completions, QueuedArePosted
  <2>4. CASE Head(evq).run = "lock" /\ LockSession /\ UNCHANGED <<needsInit, worker>>
    <3>1. \A v \in Workers : evq[1] # [run |-> "complete", by |-> v]
      BY <2>1, <2>4
    <3>2. PostedAreQueued'
      BY <2>0, <2>4, <3>1 DEF Completions, PostedAreQueued
    <3> QED
      BY <2>1, <2>2, <2>4, <3>2 DEF Completions, LoadedHaveKeys, QueuedArePosted
  <2> QED
    BY <1>6, <2>3, <2>4 DEF RunEvent
<1>7. CASE Watcher
  <2>1. /\ Len(evq) \in Nat /\ DOMAIN evq = 1..Len(evq)
        /\ DOMAIN evq' = 1..(Len(evq) + 1)
        /\ \A i \in DOMAIN evq : evq'[i] = evq[i]
        /\ evq'[Len(evq) + 1].run = "lock"
        /\ UNCHANGED worker
    BY <1>7, ClosureTypes, AppendFacts DEF Watcher, TypeOK
  <2>2. \A v \in Workers : Queued(v) => Queued(v)'
    BY <2>1 DEF Queued
  <2> QED
    BY <2>1, <2>2
    DEF Completions, LoadedHaveKeys, PostedAreQueued, QueuedArePosted, QueuedOnce
<1>8. ASSUME \/ Lock \/ Signal \/ Elapse \/ TimerTick \/ Quit
             \/ Consumed \/ Withdraw \/ (\E t \in Threads : Publish(t))
             \/ ReplaceKeyElsewhere
             \/ \E e \in Entries : Copy(e) \/ Store(e) \/ Remove(e)
             \/ \E t \in Timeouts : SaveSettings(t)
             \/ \E k \in Keys, restored \in SUBSET Entries :
                  \/ \E t \in Timeouts : Restore(k, restored, t)
                  \/ RestoreFails(k, restored)
             \/ UNCHANGED vars
      PROVE Completions'
  <2>1. UNCHANGED <<worker, evq>>
    BY <1>8
    DEF Lock, Signal, Elapse, TimerTick, Quit, Consumed, Withdraw, Publish,
        Outside, ReplaceKeyElsewhere, Copy, Store, Remove, SaveSettings,
        Restore, RestoreFails, vars, events
  <2> QED
    BY <2>1, CompletionsKept
<1> QED
  BY <1>1, <1>2, <1>3, <1>4, <1>5, <1>6, <1>7, <1>8
  DEF Next, UnlockPassword, SetInitPassword, WorkerStep

LEMMA InitCompletions == Init => Completions
  BY DEF Init, Completions, LoadedHaveKeys, PostedAreQueued, QueuedArePosted,
         QueuedOnce, Idle

LEMMA HandlesAreTold ==
  ASSUME TypeOK, DropHandle
  PROVE  "open" \notin sent' /\ selection' # "open"
  BY DEF DropHandle, TypeOK, Threads

LEMMA LockSessionEmpties ==
  LockSession => /\ cachedKey' = NoKey /\ clip' = NoKey /\ DropHandle
                 /\ locked' = TRUE
  BY DEF LockSession

(* What the lock screen says of the session, without the derivations.       *)
ScreenInv ==
  running =>
    /\ locked <=> cachedKey = NoKey
    /\ clip = cachedKey
    /\ locked => "open" \notin sent /\ selection # "open"

LEMMA LockCloses ==
  ASSUME TypeOK, LockSession
  PROVE  ScreenInv'
  BY LockSessionEmpties, HandlesAreTold DEF ScreenInv

LEMMA ScreenStep ==
  ASSUME TypeOK, Completions, ScreenInv, [Next]_vars
  PROVE  ScreenInv'
<1>1. CASE RunEvent
  <2>1. running /\ Head(evq) = evq[1] /\ Head(evq) \in Closures /\ 1 \in DOMAIN evq
    BY <1>1, TailFacts DEF RunEvent, TypeOK
  <2>2. CASE Head(evq).run = "complete" /\ RunComplete(Head(evq).by)
    <3> DEFINE w == Head(evq).by
    <3>1. w \in Workers /\ worker[w].key # NoKey
      BY <2>1, <2>2, ClosureTypes
      DEF Completions, QueuedArePosted, LoadedHaveKeys
    <3>2. /\ cachedKey' = worker[w].key /\ clip' = worker[w].key
          /\ locked' = FALSE
      BY <2>2 DEF RunComplete
    <3> QED
      BY <3>1, <3>2 DEF ScreenInv
  <2>3. CASE LockSession
    BY <2>3, LockCloses
  <2> QED
    BY <1>1, <2>2, <2>3 DEF RunEvent
<1>2. CASE Lock
  BY <1>2, LockCloses DEF Lock
<1>3. ASSUME NEW k \in Keys, NEW restored \in SUBSET Entries, NEW t \in Timeouts,
             Restore(k, restored, t)
      PROVE ScreenInv'
  BY <1>3, LockCloses DEF Restore
<1>4. CASE TimerTick
  <2>1. CASE Expired
    <3>1. LockSession
      BY <1>4, <2>1, Zenon DEF TimerTick
    <3> QED
      BY <3>1, LockCloses
  <2>2. CASE ~Expired
    <3>1. UNCHANGED <<session, clipboard>> /\ UNCHANGED running
      BY <1>4, <2>2, Zenon DEF TimerTick
    <3> QED
      BY <3>1 DEF session, clipboard, ScreenInv
  <2> QED
    BY <2>1, <2>2
<1>5. CASE Quit
  BY <1>5 DEF Quit, ScreenInv
<1>6. ASSUME NEW e \in Entries, Copy(e) PROVE ScreenInv'
  BY <1>6 DEF Copy, session, ScreenInv
<1>7. CASE Consumed \/ Withdraw
  BY <1>7 DEF Consumed, Withdraw, Outside, session, ScreenInv
<1>8. ASSUME NEW t \in Threads, Publish(t) PROVE ScreenInv'
  BY <1>8 DEF Publish, Outside, session, ScreenInv
<1>9. ASSUME \/ \E w \in Workers : \/ UnlockPassword(w) \/ SetInitPassword(w)
                                   \/ WorkerStep(w)
             \/ Signal \/ Watcher \/ Elapse \/ ReplaceKeyElsewhere
             \/ \E e \in Entries : Store(e) \/ Remove(e)
             \/ \E t \in Timeouts : SaveSettings(t)
             \/ \E k \in Keys, restored \in SUBSET Entries :
                  RestoreFails(k, restored)
             \/ UNCHANGED vars
      PROVE ScreenInv'
  <2>1. UNCHANGED <<cachedKey, clip, clipboard, locked, running>>
    BY <1>9
    DEF UnlockPassword, SetInitPassword, Start, WorkerStep, WorkerInit,
        WorkerLoad, WorkerFail, WorkerPost, Signal, Watcher, Elapse,
        ReplaceKeyElsewhere, Store, Remove, SaveSettings, RestoreFails, vars,
        session
  <2> QED
    BY <2>1 DEF clipboard, ScreenInv
<1> QED
  BY <1>1, <1>2, <1>3, <1>4, <1>5, <1>6, <1>7, <1>8, <1>9 DEF Next

(* Whatever order completions, signals, timer ticks, restores and the       *)
(* clipboard threads come in: behind the lock screen there is no session    *)
(* key, no open handle and no clipboard thread with a secret that has not   *)
(* been told to stop, and a key in a derivation has its completion coming   *)
(* (main.rs 1064-1085, 1146-1152, 1182-1190, 1462-1470, 1487-1497).         *)
THEOREM LocksClose == Spec => []LockClosesSession
<1>1. Init => ScreenInv
  BY DEF Init, ScreenInv
<1>2. TypeOK /\ Completions /\ ScreenInv /\ [Next]_vars
        => Completions' /\ ScreenInv'
  BY CompletionsStep, ScreenStep
<1>3. Completions /\ ScreenInv => LockClosesSession
  BY DEF Completions, LoadedHaveKeys, PostedAreQueued, ScreenInv,
         LockClosesSession
<1> QED
  BY <1>1, <1>2, <1>3, InitCompletions, TypeCorrect, PTL DEF Spec

-----------------------------------------------------------------------------
LEMMA AgeStep ==
  ASSUME TypeOK, AgeInv, [Next]_vars
  PROVE  AgeInv'
<1>0. /\ LongestTimeout \in Nat /\ 0 < LongestTimeout
      /\ timeout \in Nat /\ timeout <= LongestTimeout
      /\ sinceTick \in Nat /\ age \in Nat
  BY Longest, SessionAssumption DEF TypeOK
<1>1. LockSession => cachedKey' = NoKey
  BY LockSessionEmpties
<1>2. CASE RunEvent
  <2>1. CASE Head(evq).run = "complete" /\ RunComplete(Head(evq).by)
    BY <1>0, <1>2, <2>1 DEF RunEvent, RunComplete, AgeInv
  <2>2. CASE LockSession /\ UNCHANGED <<needsInit, worker>>
    BY <1>1, <2>2 DEF AgeInv
  <2> QED
    BY <1>2, <2>1, <2>2 DEF RunEvent
<1>3. CASE Lock
  BY <1>1, <1>3 DEF Lock, AgeInv
<1>4. ASSUME NEW k \in Keys, NEW restored \in SUBSET Entries, NEW t \in Timeouts,
             Restore(k, restored, t)
      PROVE AgeInv'
  BY <1>1, <1>4 DEF Restore, AgeInv
<1>5. CASE TimerTick
  <2>1. CASE Expired
    <3>1. LockSession
      BY <1>5, <2>1, Zenon DEF TimerTick
    <3> QED
      BY <1>1, <3>1 DEF AgeInv
  <2>2. CASE ~Expired
    <3>1. UNCHANGED session /\ sinceTick' = 0
      BY <1>5, <2>2, Zenon DEF TimerTick
    <3>2. cachedKey # NoKey => age < timeout
      BY <1>0, <2>2 DEF Expired, TypeOK
    <3> QED
      BY <1>0, <3>1, <3>2 DEF session, AgeInv, TypeOK
  <2> QED
    BY <2>1, <2>2
<1>6. CASE Elapse
  BY <1>0, <1>6 DEF Elapse, AgeInv, TypeOK
<1>7. CASE Quit
  BY <1>7 DEF Quit, AgeInv
<1>8. ASSUME \/ \E w \in Workers : \/ UnlockPassword(w) \/ SetInitPassword(w)
                                   \/ WorkerStep(w)
             \/ Signal \/ Watcher \/ ReplaceKeyElsewhere
             \/ Consumed \/ Withdraw \/ (\E t \in Threads : Publish(t))
             \/ \E e \in Entries : Copy(e) \/ Store(e) \/ Remove(e)
             \/ \E t \in Timeouts : SaveSettings(t)
             \/ \E k \in Keys, restored \in SUBSET Entries :
                  RestoreFails(k, restored)
             \/ UNCHANGED vars
      PROVE AgeInv'
  <2>1. UNCHANGED <<cachedKey, age, sinceTick>>
    BY <1>8
    DEF UnlockPassword, SetInitPassword, Start, WorkerStep, WorkerInit,
        WorkerLoad, WorkerFail, WorkerPost, Signal, Watcher, Consumed, Withdraw,
        Publish, Outside, Copy, ReplaceKeyElsewhere, Store, Remove, SaveSettings, RestoreFails, vars,
        session
  <2> QED
    BY <2>1 DEF AgeInv
<1> QED
  BY <1>2, <1>3, <1>4, <1>5, <1>6, <1>7, <1>8 DEF Next

(* However the timeout is changed and at whatever moment of the timer's     *)
(* period the key was loaded, it is given up less than one period and the   *)
(* event loop's delay after the longest timeout (main.rs 82-95, 1479-1499). *)
THEOREM KeysAge == Spec => []KeyAgeBounded
<1>1. Init => AgeInv
  BY DEF Init, AgeInv
<1>2. TypeOK /\ AgeInv /\ [Next]_vars => AgeInv'
  BY AgeStep
<1>3. TypeOK /\ AgeInv => KeyAgeBounded
  BY Longest, SessionAssumption DEF TypeOK, AgeInv, KeyAgeBounded
<1> QED
  BY <1>1, <1>2, <1>3, TypeCorrect, PTL DEF Spec

-----------------------------------------------------------------------------
(* The key in force is the key on disk.                                     *)
KeyInForce ==
  /\ cachedKey \in {NoKey, diskKey}
  /\ \A w \in Workers : worker[w].stage \in {"loaded", "posted"}
                          => worker[w].key = diskKey

(* The key on disk is only replaced where nobody holds the one before it:   *)
(* the session gives it up in the same step, no derivation has loaded it.   *)
ReplacedAtRest ==
  diskKey' # diskKey =>
    /\ cachedKey' = NoKey
    /\ \A w \in Workers : worker[w].stage \notin {"loaded", "posted"}

(* A step of a worker, or none, that leaves both keys alone.                *)
LEMMA KeyKept ==
  ASSUME TypeOK, KeyInForce, UNCHANGED <<diskKey, cachedKey>>,
         NEW w \in Workers, NEW state \in WorkerStates,
         worker' = [worker EXCEPT ![w] = state],
         state.stage \in {"loaded", "posted"} => state.key = diskKey
  PROVE  KeyInForce'
  BY DEF KeyInForce, TypeOK

(* The session's side of a step: no worker loads a key.                     *)
LEMMA KeyDropped ==
  ASSUME KeyInForce, ReplacedAtRest, UNCHANGED worker,
         cachedKey' = NoKey \/ UNCHANGED cachedKey
  PROVE  KeyInForce'
  BY DEF KeyInForce, ReplacedAtRest

LEMMA KeyInForceStep ==
  ASSUME TypeOK, Completions, KeyInForce, [Next]_vars, ReplacedAtRest
  PROVE  KeyInForce'
<1>1. ASSUME NEW w \in Workers, NEW kind \in {"unlock", "init"}, Start(w, kind)
      PROVE KeyInForce'
  <2> DEFINE state == [Idle EXCEPT !.stage = "start", !.kind = kind]
  <2>1. state \in WorkerStates /\ state.stage = "start"
    BY DEF Idle, WorkerStates
  <2> QED
    BY <1>1, <2>1, KeyKept DEF Start, disk, session
<1>2. ASSUME NEW w \in Workers, WorkerInit(w) PROVE KeyInForce'
  <2>1. /\ cachedKey' = cachedKey /\ worker'[w].stage = "initialized"
        /\ \A v \in Workers : v # w => worker'[v] = worker[v]
    BY <1>2 DEF WorkerInit, session, TypeOK, WorkerStates
  <2>2. CASE diskKey' = diskKey
    BY <2>1, <2>2 DEF KeyInForce
  <2>3. CASE diskKey' # diskKey
    BY <2>1, <2>3 DEF KeyInForce, ReplacedAtRest
  <2> QED
    BY <2>2, <2>3
<1>3. ASSUME NEW w \in Workers, WorkerLoad(w) PROVE KeyInForce'
  <2> DEFINE state == [worker[w] EXCEPT !.stage = "loaded", !.key = diskKey]
  <2>1. state \in WorkerStates /\ state.key = diskKey
    BY DEF TypeOK, WorkerStates
  <2>2. worker' = [worker EXCEPT ![w] = state]
    BY <1>3 DEF WorkerLoad, TypeOK
  <2> QED
    BY <1>3, <2>1, <2>2, KeyKept DEF WorkerLoad, disk, session
<1>4. ASSUME NEW w \in Workers, WorkerFail(w) PROVE KeyInForce'
  BY <1>4, ClosureTypes, KeyKept DEF WorkerFail, Idle, disk, session
<1>5. ASSUME NEW w \in Workers, WorkerPost(w) PROVE KeyInForce'
  <2> DEFINE state == [worker[w] EXCEPT !.stage = "posted"]
  <2>1. state \in WorkerStates /\ state.key = diskKey
    BY <1>5 DEF WorkerPost, TypeOK, WorkerStates, KeyInForce
  <2>2. worker' = [worker EXCEPT ![w] = state]
    BY <1>5 DEF WorkerPost, TypeOK
  <2> QED
    BY <1>5, <2>1, <2>2, KeyKept DEF WorkerPost, disk, session
<1>6. CASE RunEvent
  <2>1. Head(evq) = evq[1] /\ Head(evq) \in Closures /\ 1 \in DOMAIN evq
    BY <1>6, TailFacts DEF RunEvent, TypeOK
  <2>2. CASE Head(evq).run = "complete" /\ RunComplete(Head(evq).by)
    <3> DEFINE w == Head(evq).by
    <3>1. w \in Workers /\ worker[w].key = diskKey
      BY <2>1, <2>2, ClosureTypes DEF Completions, QueuedArePosted, KeyInForce
    <3>2. /\ cachedKey' = worker[w].key /\ worker' = [worker EXCEPT ![w] = Idle]
          /\ diskKey' = diskKey
      BY <1>6, <2>2 DEF RunComplete, RunEvent, disk
    <3> QED
      BY <3>1, <3>2, ClosureTypes DEF KeyInForce, TypeOK, Idle
  <2>3. CASE LockSession /\ UNCHANGED <<needsInit, worker>>
    BY <2>3, KeyDropped, LockSessionEmpties
  <2> QED
    BY <1>6, <2>2, <2>3 DEF RunEvent
<1>7. ASSUME \/ Lock \/ Quit \/ Signal \/ Watcher \/ Elapse
             \/ Consumed \/ Withdraw \/ (\E t \in Threads : Publish(t))
             \/ ReplaceKeyElsewhere
             \/ \E e \in Entries : Copy(e) \/ Store(e) \/ Remove(e)
             \/ \E t \in Timeouts : SaveSettings(t)
             \/ \E k \in Keys, restored \in SUBSET Entries :
                  \/ \E t \in Timeouts : Restore(k, restored, t)
                  \/ RestoreFails(k, restored)
             \/ UNCHANGED vars
      PROVE KeyInForce'
  <2>1. UNCHANGED worker /\ (cachedKey' = NoKey \/ UNCHANGED cachedKey)
    BY <1>7, LockSessionEmpties
    DEF Lock, Quit, Signal, Watcher, Elapse, Consumed, Withdraw, Publish,
        Outside, ReplaceKeyElsewhere, Copy, Store, Remove, SaveSettings,
        Restore, RestoreFails, vars, events, session
  <2> QED
    BY <2>1, KeyDropped
<1>8. CASE TimerTick
  <2>1. UNCHANGED worker
    BY <1>8, Zenon DEF TimerTick, events
  <2>2. cachedKey' = NoKey \/ UNCHANGED cachedKey
    <3>1. LockSession \/ UNCHANGED session
      BY <1>8, Zenon DEF TimerTick
    <3> QED
      BY <3>1, LockSessionEmpties DEF session
  <2> QED
    BY <2>1, <2>2, KeyDropped
<1> QED
  BY <1>1, <1>2, <1>3, <1>4, <1>5, <1>6, <1>7, <1>8
  DEF Next, UnlockPassword, SetInitPassword, WorkerStep

LEMMA StoredUnderDiskKey ==
  ASSUME TypeOK, KeyInForce, [Next]_vars,
         NEW e \in Entries, enc'[e] # enc[e], enc'[e] # NoKey
  PROVE  enc'[e] = diskKey'
<1>1. ASSUME NEW f \in Entries, Store(f) PROVE enc'[e] = diskKey'
  <2>1. cachedKey = diskKey
    BY <1>1 DEF Store, Valid, KeyInForce
  <2> QED
    BY <1>1, <2>1 DEF Store, TypeOK
<1>2. ASSUME NEW f \in Entries, Remove(f) PROVE FALSE
  BY <1>2 DEF Remove, TypeOK
<1>3. ASSUME NEW k \in Keys, NEW restored \in SUBSET Entries,
             RestoreFiles(k, restored)
      PROVE enc'[e] = diskKey'
  BY <1>3 DEF RestoreFiles, TypeOK
<1>4. ASSUME \/ \E w \in Workers : \/ UnlockPassword(w) \/ SetInitPassword(w)
                                   \/ WorkerStep(w)
             \/ RunEvent \/ Lock \/ Quit \/ Signal \/ Watcher \/ Elapse
             \/ TimerTick \/ Consumed \/ Withdraw \/ ReplaceKeyElsewhere
             \/ (\E t \in Threads : Publish(t))
             \/ \E f \in Entries : Copy(f)
             \/ \E t \in Timeouts : SaveSettings(t)
             \/ UNCHANGED vars
      PROVE FALSE
  <2>1. UNCHANGED enc
    BY <1>4, Zenon
    DEF UnlockPassword, SetInitPassword, Start, WorkerStep, WorkerInit,
        WorkerLoad, WorkerFail, WorkerPost, RunEvent, Lock, Quit, Signal,
        Watcher, Elapse, TimerTick, Consumed, Withdraw, Publish, Outside,
        ReplaceKeyElsewhere, Copy, SaveSettings, vars, disk
  <2> QED
    BY <2>1
<1> QED
  BY <1>1, <1>2, <1>3, <1>4 DEF Next, Restore, RestoreFails

(* The other side of the violated StoresAreReadable: a session stores what  *)
(* can be read, restores included, if the key on disk is never replaced     *)
(* under a session or under a derivation that has loaded it (main.rs        *)
(* 1003-1033, 1622-1717).                                                   *)
THEOREM StoresReadableAtRest == Spec /\ [][ReplacedAtRest]_vars => StoresAreReadable
<1>1. Init => KeyInForce
  BY DEF Init, KeyInForce, Idle
<1>2. TypeOK /\ Completions /\ KeyInForce /\ [Next]_vars /\ [ReplacedAtRest]_vars
        => Completions' /\ KeyInForce'
  <2>1. UNCHANGED vars => ReplacedAtRest
    BY DEF vars, disk, ReplacedAtRest
  <2> QED
    BY <2>1, CompletionsStep, KeyInForceStep
<1>3. TypeOK /\ KeyInForce /\ [Next]_vars
        => [\A e \in Entries : enc'[e] # enc[e] /\ enc'[e] # NoKey
              => enc'[e] = diskKey']_vars
  BY StoredUnderDiskKey
<1> QED
  BY <1>1, <1>2, <1>3, InitCompletions, TypeCorrect, PTL DEF Spec, StoresAreReadable
=============================================================================
