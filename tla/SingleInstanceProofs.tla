------------------------ MODULE SingleInstanceProofs ------------------------
(***************************************************************************)
(* Proofs about the single-instance socket, for any number of launches.    *)
(***************************************************************************)
EXTENDS SingleInstance, Integers, TLAPS

(* A guard past its join has no listener left that could bind again. *)
GuardInv == \A p \in Procs : main[p] \in {"removing", "done"} => listener[p] = "ended"

(* One connection is served at a time. *)
ServeInv == \A p \in Procs : serving[p] = <<>> \/ \E c \in Conns : serving[p] = <<c>>

-----------------------------------------------------------------------------
(* Who waits, under what the queues do. *)
LEMMA ClientsMember ==
  ASSUME NEW cs \in Seq(Conns), NEW x
  PROVE  x \in Clients(cs) <=>
           \E i \in 1..Len(cs) : cs[i].asks = "show" /\ cs[i].from = x
  BY DEF Clients

LEMMA ClientsType ==
  ASSUME NEW cs \in Seq(Conns) PROVE Clients(cs) \subseteq Procs
  <1>1. \A i \in 1..Len(cs) : cs[i] \in Conns
    OBVIOUS
  <1>2. \A i \in 1..Len(cs) : cs[i].from \in Procs
    BY <1>1 DEF Conns
  <1>3. QED
    BY <1>2, ClientsMember

LEMMA ClientsEmpty == Clients(<<>>) = {}
  BY DEF Clients

LEMMA ClientsConcat ==
  ASSUME NEW s \in Seq(Conns), NEW t \in Seq(Conns)
  PROVE  /\ s \o t \in Seq(Conns)
         /\ Clients(s \o t) = Clients(s) \cup Clients(t)
  <1>1. s \o t \in Seq(Conns) /\ Len(s \o t) = Len(s) + Len(t)
    OBVIOUS
  <1>2. ASSUME NEW x, x \in Clients(s \o t) PROVE x \in Clients(s) \cup Clients(t)
    <2>1. PICK i \in 1..Len(s \o t) : (s \o t)[i].asks = "show" /\ (s \o t)[i].from = x
      BY <1>1, <1>2, ClientsMember
    <2>2. CASE i <= Len(s)
      <3>1. i \in 1..Len(s) /\ (s \o t)[i] = s[i]
        BY <2>2
      <3>2. QED
        BY <2>1, <3>1, ClientsMember
    <2>3. CASE i > Len(s)
      <3>1. i - Len(s) \in 1..Len(t) /\ (s \o t)[i] = t[i - Len(s)]
        BY <1>1, <2>3
      <3>2. QED
        BY <2>1, <3>1, ClientsMember
    <2>4. QED
      BY <2>2, <2>3
  <1>3. ASSUME NEW x, x \in Clients(s) PROVE x \in Clients(s \o t)
    <2>1. PICK i \in 1..Len(s) : s[i].asks = "show" /\ s[i].from = x
      BY <1>3, ClientsMember
    <2>2. i \in 1..Len(s \o t) /\ (s \o t)[i] = s[i]
      BY <1>1
    <2>3. QED
      BY <1>1, <2>1, <2>2, ClientsMember
  <1>4. ASSUME NEW x, x \in Clients(t) PROVE x \in Clients(s \o t)
    <2>1. PICK i \in 1..Len(t) : t[i].asks = "show" /\ t[i].from = x
      BY <1>4, ClientsMember
    <2>2. Len(s) + i \in 1..Len(s \o t) /\ (s \o t)[Len(s) + i] = t[i]
      BY <1>1
    <2>3. QED
      BY <1>1, <2>1, <2>2, ClientsMember
  <1>5. QED
    BY <1>1, <1>2, <1>3, <1>4

LEMMA ClientsOne ==
  ASSUME NEW c \in Conns
  PROVE  /\ <<c>> \in Seq(Conns)
         /\ Clients(<<c>>) = IF c.asks = "show" THEN {c.from} ELSE {}
  <1>1. <<c>> \in Seq(Conns) /\ Len(<<c>>) = 1 /\ <<c>>[1] = c
    OBVIOUS
  <1>2. ASSUME NEW x
        PROVE x \in Clients(<<c>>) <=> c.asks = "show" /\ c.from = x
    <2>1. x \in Clients(<<c>>) <=>
            \E i \in 1..Len(<<c>>) : <<c>>[i].asks = "show" /\ <<c>>[i].from = x
      BY <1>1, ClientsMember
    <2>2. 1..Len(<<c>>) = {1}
      BY <1>1
    <2>3. QED
      BY <1>1, <2>1, <2>2
  <1>3. QED
    BY <1>1, <1>2

LEMMA ClientsAppend ==
  ASSUME NEW s \in Seq(Conns), NEW c \in Conns
  PROVE  /\ Append(s, c) \in Seq(Conns)
         /\ Clients(Append(s, c)) = Clients(s) \cup IF c.asks = "show" THEN {c.from} ELSE {}
  <1>1. Append(s, c) = s \o <<c>>
    OBVIOUS
  <1>2. QED
    BY <1>1, ClientsOne, ClientsConcat

LEMMA ClientsHead ==
  ASSUME NEW s \in Seq(Conns), s # <<>>
  PROVE  /\ Head(s) \in Conns /\ Tail(s) \in Seq(Conns)
         /\ Clients(s) = Clients(<<Head(s)>>) \cup Clients(Tail(s))
  <1>1. Head(s) \in Conns /\ Tail(s) \in Seq(Conns) /\ s = <<Head(s)>> \o Tail(s)
    OBVIOUS
  <1>2. QED
    BY <1>1, ClientsOne, ClientsConcat

-----------------------------------------------------------------------------
USE DEF vars, queues

LEMMA TypeInit == Init => TypeOK /\ ServeInv /\ GuardInv
  <1>1. \A S : <<>> \in Seq(S)
    OBVIOUS
  <1>2. QED
    BY <1>1 DEF Init, TypeOK, Mains, Listeners, ServeInv, GuardInv

(* Connecting adds one connection to the listener at the path. *)
LEMMA ConnectTypes ==
  ASSUME TypeOK, NEW p \in Procs, NEW asks \in {"show", "nothing"},
         Connectable, Connect(p, asks)
  PROVE  /\ path \in Procs /\ Listening(path)
         /\ [from |-> p, asks |-> asks] \in Conns
         /\ backlog' \in [Procs -> Seq(Conns)]
         /\ backlog'[path] = Append(backlog[path], [from |-> p, asks |-> asks])
         /\ \A q \in Procs : q # path => backlog'[q] = backlog[q]
  <1>1. path \in Procs /\ Listening(path)
    BY DEF Connectable, TypeOK
  <1>2. [from |-> p, asks |-> asks] \in Conns
    BY DEF Conns
  <1>3. backlog \in [Procs -> Seq(Conns)] /\ backlog[path] \in Seq(Conns)
    BY <1>1 DEF TypeOK
  <1>4. Append(backlog[path], [from |-> p, asks |-> asks]) \in Seq(Conns)
    BY <1>2, <1>3, ClientsAppend
  <1>5. QED
    BY <1>1, <1>2, <1>3, <1>4 DEF Connect

LEMMA TypeStep == TypeOK /\ [Next]_vars => TypeOK'
  <1> SUFFICES ASSUME TypeOK, [Next]_vars PROVE TypeOK'
    OBVIOUS
  <1>1. CASE UNCHANGED vars
    BY <1>1 DEF TypeOK
  <1>2. ASSUME NEW p \in Procs, TryActivate(p) PROVE TypeOK'
    BY <1>2, ConnectTypes DEF TryActivate, Go, TypeOK, Mains
  <1>3. ASSUME NEW p \in Procs, DropWakes(p) PROVE TypeOK'
    <2>1. backlog' \in [Procs -> Seq(Conns)]
      BY <1>3, ConnectTypes DEF DropWakes, TypeOK
    <2>2. QED
      BY <1>3, <2>1 DEF DropWakes, Go, TypeOK, Mains
  <1>4. ASSUME NEW p \in Procs, BindCheck(p) PROVE TypeOK'
    <2>1. backlog' \in [Procs -> Seq(Conns)]
      BY <1>4, ConnectTypes DEF BindCheck, TypeOK
    <2>2. QED
      BY <1>4, <2>1 DEF BindCheck, Turn, TypeOK, Listeners
  <1>5. ASSUME NEW p \in Procs,
               Activated(p) \/ BecomeInstance(p) \/ EnterLoop(p) \/ Quit(p)
                 \/ DropJoins(p) \/ DropRemoves(p)
        PROVE TypeOK'
    BY <1>5 DEF Activated, BecomeInstance, EnterLoop, Quit, DropJoins,
       DropRemoves, Go, TypeOK, Mains
  <1>6. ASSUME NEW p \in Procs,
               StartListener(p) \/ BindFirst(p) \/ BindRemove(p)
                 \/ BindAgain(p) \/ Listen(p)
        PROVE TypeOK'
    BY <1>6 DEF StartListener, BindFirst, BindRemove, BindAgain, Listen, Turn,
       TypeOK, Listeners
  <1>7. ASSUME NEW p \in Procs, Killed(p) PROVE TypeOK'
    <2>1. Clients(backlog[p] \o serving[p]) \subseteq Procs
      BY ClientsConcat, ClientsType DEF TypeOK
    <2>2. <<>> \in Seq(Conns)
      OBVIOUS
    <2>3. QED
      BY <1>7, <2>1, <2>2 DEF Killed, Go, Turn, TypeOK, Mains, Listeners
  <1>8. ASSUME NEW p \in Procs, ListenerEnds(p) PROVE TypeOK'
    <2>1. Clients(backlog[p]) \subseteq Procs
      BY ClientsType DEF TypeOK
    <2>2. <<>> \in Seq(Conns)
      OBVIOUS
    <2>3. QED
      BY <1>8, <2>1, <2>2 DEF ListenerEnds, Turn, TypeOK, Listeners
  <1>9. ASSUME NEW p \in Procs, Accept(p) PROVE TypeOK'
    <2>1. /\ Tail(backlog[p]) \in Seq(Conns)
          /\ <<Head(backlog[p])>> \in Seq(Conns) /\ <<Head(backlog[p])>> # <<>>
      BY <1>9, ClientsHead, ClientsOne DEF Accept, TypeOK
    <2>2. QED
      BY <1>9, <2>1 DEF Accept, Turn, TypeOK, Listeners
  <1>10. ASSUME NEW p \in Procs, Serve(p) PROVE TypeOK'
    <2>1. Head(serving[p]) \in Conns /\ Head(serving[p]).from \in Procs
      BY <1>10, ClientsHead DEF Serve, TypeOK, Conns
    <2>2. <<>> \in Seq(Conns)
      OBVIOUS
    <2>3. QED
      BY <1>10, <2>1, <2>2 DEF Serve, Turn, TypeOK, Listeners
  <1>11. QED
    BY <1>1, <1>2, <1>3, <1>4, <1>5, <1>6, <1>7, <1>8, <1>9, <1>10
       DEF Next, MainStep, ListenerStep

(* The state stays within the values the code gives it, for any processes. *)
THEOREM TypeCorrect == Spec => []TypeOK
  BY TypeInit, TypeStep, PTL DEF Spec

-----------------------------------------------------------------------------
LEMMA GuardStep ==
  TypeOK /\ GuardInv /\ OrderlyExitLeavesNoFile /\ [Next]_vars
    => GuardInv' /\ OrderlyExitLeavesNoFile'
  <1> SUFFICES ASSUME TypeOK, GuardInv, OrderlyExitLeavesNoFile, [Next]_vars
               PROVE GuardInv' /\ OrderlyExitLeavesNoFile'
    OBVIOUS
  <1> USE DEF TypeOK, GuardInv, OrderlyExitLeavesNoFile
  <1>1. CASE UNCHANGED vars
    BY <1>1
  <1>2. ASSUME NEW p \in Procs,
               \/ TryActivate(p) \/ Activated(p) \/ BecomeInstance(p)
               \/ EnterLoop(p) \/ Quit(p) \/ DropWakes(p) \/ DropJoins(p)
        PROVE GuardInv' /\ OrderlyExitLeavesNoFile'
    BY <1>2 DEF TryActivate, Activated, BecomeInstance, EnterLoop, Quit,
       DropWakes, DropJoins, Go
  <1>3. ASSUME NEW p \in Procs, DropRemoves(p)
        PROVE GuardInv' /\ OrderlyExitLeavesNoFile'
    BY <1>3, NoFileAssumption DEF DropRemoves, Go
  <1>4. ASSUME NEW p \in Procs, Killed(p)
        PROVE GuardInv' /\ OrderlyExitLeavesNoFile'
    BY <1>4 DEF Killed, Go, Turn
  <1>5. ASSUME NEW p \in Procs,
               \/ StartListener(p) \/ BindCheck(p) \/ Listen(p)
               \/ ListenerEnds(p) \/ Accept(p) \/ Serve(p)
        PROVE GuardInv' /\ OrderlyExitLeavesNoFile'
    BY <1>5 DEF StartListener, BindCheck, Listen, ListenerEnds, Accept, Serve,
       Turn
  <1>6. ASSUME NEW p \in Procs, BindFirst(p) \/ BindRemove(p) \/ BindAgain(p)
        PROVE GuardInv' /\ OrderlyExitLeavesNoFile'
    BY <1>6, NoFileAssumption DEF BindFirst, BindRemove, BindAgain, Turn
  <1>7. QED
    BY <1>1, <1>2, <1>3, <1>4, <1>5, <1>6 DEF Next, MainStep, ListenerStep

(* However launches, kills and exits interleave, a process that ended in an *)
(* orderly way has left no socket file of its own.                          *)
THEOREM OrderlyExits == Spec => []OrderlyExitLeavesNoFile
  <1>1. Init => GuardInv /\ OrderlyExitLeavesNoFile
    BY DEF Init, GuardInv, OrderlyExitLeavesNoFile
  <1>2. QED
    BY <1>1, TypeCorrect, GuardStep, PTL DEF Spec

-----------------------------------------------------------------------------
(* NobodyForgotten, queue by queue. *)
Held(p, q) == /\ Listening(q)
              /\ p \in Clients(backlog[q]) \/ p \in Clients(serving[q])
Waited == \A p \in Procs : main[p] = "activating" /\ p \notin answered =>
            \E q \in Procs : Held(p, q)

LEMMA WaitedIsNobodyForgotten == TypeOK => (Waited <=> NobodyForgotten)
  <1>1. ASSUME TypeOK, NEW q \in Procs
        PROVE Clients(backlog[q] \o serving[q]) = Clients(backlog[q]) \cup Clients(serving[q])
    BY <1>1, ClientsConcat DEF TypeOK
  <1>2. QED
    BY <1>1 DEF Waited, Held, NobodyForgotten

LEMMA ServeStep == TypeOK /\ ServeInv /\ [Next]_vars => ServeInv'
  <1> SUFFICES ASSUME TypeOK, ServeInv, [Next]_vars PROVE ServeInv'
    OBVIOUS
  <1>1. CASE UNCHANGED serving
    BY <1>1 DEF ServeInv
  <1>2. ASSUME NEW p \in Procs, Killed(p) \/ Serve(p) PROVE ServeInv'
    BY <1>2 DEF Killed, Serve, ServeInv, TypeOK
  <1>3. ASSUME NEW p \in Procs, Accept(p) PROVE ServeInv'
    <2>1. Head(backlog[p]) \in Conns
      BY <1>3, ClientsHead DEF Accept, TypeOK
    <2>2. QED
      BY <1>3, <2>1 DEF Accept, ServeInv, TypeOK
  <1>4. CASE UNCHANGED vars \/ \E p \in Procs :
               \/ TryActivate(p) \/ Activated(p) \/ BecomeInstance(p)
               \/ StartListener(p) \/ EnterLoop(p) \/ Quit(p) \/ DropWakes(p)
               \/ DropJoins(p) \/ DropRemoves(p) \/ BindFirst(p) \/ BindCheck(p)
               \/ BindRemove(p) \/ BindAgain(p) \/ Listen(p) \/ ListenerEnds(p)
    BY <1>4, <1>1 DEF TryActivate, Activated, BecomeInstance, StartListener,
       EnterLoop, Quit, DropWakes, DropJoins, DropRemoves, BindFirst, BindCheck,
       BindRemove, BindAgain, Listen, ListenerEnds
  <1>5. QED
    BY <1>2, <1>3, <1>4 DEF Next, MainStep, ListenerStep

(* Steps that take nobody out of a queue that is listened to. *)
LEMMA KeepWaiting ==
  ASSUME TypeOK, Waited, NEW p \in Procs,
         \/ TryActivate(p) \/ Activated(p) \/ BecomeInstance(p)
         \/ StartListener(p) \/ EnterLoop(p) \/ Quit(p) \/ DropWakes(p)
         \/ DropJoins(p) \/ DropRemoves(p) \/ BindFirst(p) \/ BindCheck(p)
         \/ BindRemove(p) \/ BindAgain(p) \/ Listen(p)
  PROVE  Waited'
  <1>1. ASSUME NEW q \in Procs
        PROVE  /\ Listening(q) => Listening(q)'
               /\ Clients(backlog[q]) \subseteq Clients(backlog[q])'
               /\ serving'[q] = serving[q] /\ answered' = answered
    <2>1. CASE backlog' = backlog
      BY <2>1 DEF TryActivate, Activated, BecomeInstance, StartListener, EnterLoop,
         Quit, DropWakes, DropJoins, DropRemoves, BindFirst, BindCheck, BindRemove,
         BindAgain, Listen, Turn, Listening, TypeOK
    <2>2. ASSUME NEW asks \in {"show", "nothing"}, Connectable, Connect(p, asks)
          PROVE  Clients(backlog[q]) \subseteq Clients(backlog[q])'
      <3>1. CASE q = path
        <4>1. /\ backlog[q] \in Seq(Conns) /\ [from |-> p, asks |-> asks] \in Conns
              /\ backlog'[q] = Append(backlog[q], [from |-> p, asks |-> asks])
          BY <2>2, <3>1, ConnectTypes DEF TypeOK
        <4>2. Clients(backlog[q]) \subseteq Clients(backlog'[q])
          BY <4>1, ClientsAppend
        <4>3. QED
          BY <4>2
      <3>2. CASE q # path
        BY <2>2, <3>2, ConnectTypes
      <3>3. QED
        BY <3>1, <3>2
    <2>3. CASE TryActivate(p)
      BY <2>2, <2>3 DEF TryActivate, Listening
    <2>4. CASE DropWakes(p)
      BY <2>1, <2>2, <2>4 DEF DropWakes, Listening
    <2>5. CASE BindCheck(p)
      BY <2>1, <2>2, <2>5 DEF BindCheck, Turn, Listening, TypeOK
    <2>6. QED
      BY <2>1, <2>3, <2>4, <2>5 DEF Activated, BecomeInstance, StartListener,
         EnterLoop, Quit, DropJoins, DropRemoves, BindFirst, BindRemove,
         BindAgain, Listen
  <1>2. ASSUME NEW x \in Procs, main'[x] = "activating", x \notin answered',
               main[x] = "activating"
        PROVE  \E q \in Procs : Held(x, q)'
    <2>1. PICK q \in Procs : Held(x, q)
      BY <1>1, <1>2 DEF Waited
    <2>2. QED
      BY <1>1, <2>1 DEF Held
  <1>3. ASSUME NEW x \in Procs, main'[x] = "activating", main[x] # "activating"
        PROVE  \E q \in Procs : Held(x, q)'
    <2>1. x = p /\ TryActivate(p)
      BY <1>3 DEF Activated, BecomeInstance, StartListener, EnterLoop, Quit,
         DropWakes, DropJoins, DropRemoves, BindFirst, BindCheck, BindRemove,
         BindAgain, Listen, Go, TryActivate, TypeOK
    <2>2. PICK q \in Procs : q = path
      BY <2>1, ConnectTypes DEF TryActivate
    <2>3. /\ Listening(q) /\ backlog[q] \in Seq(Conns)
          /\ [from |-> p, asks |-> "show"] \in Conns
          /\ backlog'[q] = Append(backlog[q], [from |-> p, asks |-> "show"])
      BY <2>1, <2>2, ConnectTypes DEF TryActivate, TypeOK
    <2>4. p \in Clients(backlog'[q])
      BY <2>3, ClientsAppend
    <2>5. QED
      BY <1>1, <2>1, <2>3, <2>4 DEF Held
  <1>4. QED
    BY <1>2, <1>3 DEF Waited

(* The steps that do leave nobody but those they have answered. *)
LEMMA WaitStep == TypeOK /\ ServeInv /\ Waited /\ [Next]_vars => Waited'
  <1> SUFFICES ASSUME TypeOK, ServeInv, Waited, [Next]_vars PROVE Waited'
    OBVIOUS
  <1>1. CASE UNCHANGED vars
    BY <1>1 DEF Waited, Held, Listening
  <1>2. ASSUME NEW p \in Procs,
               /\ answered \subseteq answered'
               /\ \A x \in Procs : main'[x] = "activating" => main[x] = "activating"
               /\ \A q \in Procs \ {p} : backlog'[q] = backlog[q] /\ serving'[q] = serving[q]
                                       /\ listener'[q] = listener[q]
               /\ \A x \in Procs : Held(x, p) => x \in answered' \/ Held(x, p)'
        PROVE Waited'
    <2>1. \A x \in Procs, q \in Procs : Held(x, q) => x \in answered' \/ Held(x, q)'
      BY <1>2 DEF Held, Listening
    <2>2. QED
      BY <1>2, <2>1 DEF Waited
  <1>3. ASSUME NEW p \in Procs, Killed(p) PROVE Waited'
    <2>1. Clients(backlog[p] \o serving[p]) = Clients(backlog[p]) \cup Clients(serving[p])
      BY ClientsConcat DEF TypeOK
    <2>2. QED
      BY <1>2, <1>3, <2>1 DEF Killed, Go, Turn, Held, TypeOK
  <1>4. ASSUME NEW p \in Procs, ListenerEnds(p) PROVE Waited'
    <2>1. serving[p] = <<>>
      BY <1>4 DEF ListenerEnds, TypeOK
    <2>2. QED
      BY <1>2, <1>4, <2>1, ClientsEmpty DEF ListenerEnds, Turn, Held, TypeOK
  <1>5. ASSUME NEW p \in Procs, Accept(p) PROVE Waited'
    <2>1. serving[p] = <<>>
      BY <1>5 DEF Accept, TypeOK
    <2>2. Clients(backlog[p]) = Clients(<<Head(backlog[p])>>) \cup Clients(Tail(backlog[p]))
      BY <1>5, ClientsHead DEF Accept, TypeOK
    <2>3. /\ backlog'[p] = Tail(backlog[p]) /\ serving'[p] = <<Head(backlog[p])>>
          /\ listener'[p] = "serve" /\ answered' = answered /\ main' = main
      BY <1>5 DEF Accept, Turn, TypeOK
    <2>4. \A x \in Procs : Held(x, p) => Held(x, p)'
      BY <2>1, <2>2, <2>3, ClientsEmpty DEF Held, Listening
    <2>5. QED
      BY <1>2, <1>5, <2>3, <2>4 DEF Accept, Turn, TypeOK
  <1>6. ASSUME NEW p \in Procs, Serve(p) PROVE Waited'
    <2>1. PICK c \in Conns : serving[p] = <<c>>
      BY <1>6 DEF Serve, ServeInv, TypeOK
    <2>2. Head(serving[p]) = c
      BY <2>1
    <2>3. \A x \in Clients(serving[p]) : c.asks = "show" /\ x = c.from
      BY <2>1, ClientsOne
    <2>4. \A x \in Clients(serving[p]) : x \in answered'
      BY <1>6, <2>2, <2>3 DEF Serve
    <2>5. /\ backlog'[p] = backlog[p] /\ listener'[p] = "accept"
          /\ answered \subseteq answered' /\ main' = main
      BY <1>6 DEF Serve, Turn, TypeOK
    <2>6. \A x \in Procs : Held(x, p) => x \in answered' \/ Held(x, p)'
      BY <2>4, <2>5 DEF Held, Listening
    <2>7. QED
      BY <1>2, <1>6, <2>5, <2>6 DEF Serve, Turn, TypeOK
  <1>7. QED
    BY <1>1, <1>3, <1>4, <1>5, <1>6, KeepWaiting DEF Next, MainStep, ListenerStep

(* However the socket file is removed, replaced or left behind, no client   *)
(* that connected is lost: it was answered, or a running listener has it.   *)
THEOREM ClientsAreKept == Spec => []NobodyForgotten
  <1>1. Init => TypeOK /\ ServeInv /\ Waited
    BY TypeInit DEF Init, Waited
  <1>2. Spec => [](TypeOK /\ Waited)
    BY <1>1, TypeStep, ServeStep, WaitStep, PTL DEF Spec
  <1>3. TypeOK /\ Waited => NobodyForgotten
    BY WaitedIsNobodyForgotten
  <1>4. QED
    BY <1>2, <1>3, PTL
=============================================================================
