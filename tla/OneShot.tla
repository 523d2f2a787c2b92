------------------------------- MODULE OneShot -------------------------------
(***************************************************************************)
(* What the clipboard promises its user, without threads, queues, pipes or *)
(* a compositor: secrets are offered in the order they were copied, at     *)
(* most one at a time, each is read at most once, and a secret that left   *)
(* the clipboard never comes back.                                         *)
(***************************************************************************)
EXTENDS Integers

CONSTANT MaxHolds

Holds == 1..MaxHolds
Phases == {"new", "requested", "offered", "delivered", "withdrawn"}
Live == {"offered", "delivered"}

VARIABLES phase, copies
vars == <<phase, copies>>

Init == /\ phase = [h \in Holds |-> "new"]
        /\ copies = [h \in Holds |-> 0]

(* Secrets are numbered in the order of the copies. *)
FirstNew(h) == phase[h] = "new" /\ \A g \in Holds : g < h => phase[g] # "new"

Request(h) == /\ FirstNew(h)
              /\ phase' = [phase EXCEPT ![h] = "requested"]
              /\ UNCHANGED copies

(* Nobody is left to take the request. *)
Refuse(h) == /\ FirstNew(h)
             /\ phase' = [phase EXCEPT ![h] = "withdrawn"]
             /\ UNCHANGED copies

(* The oldest request is served; it replaces the live secret, if any. *)
Offer(h) ==
  /\ phase[h] = "requested"
  /\ \A g \in Holds : g < h => phase[g] # "requested"
  /\ phase' = [g \in Holds |-> IF g = h THEN "offered"
                               ELSE IF phase[g] \in Live THEN "withdrawn"
                               ELSE phase[g]]
  /\ UNCHANGED copies

Deliver(h) == /\ phase[h] = "offered"
              /\ phase' = [phase EXCEPT ![h] = "delivered"]
              /\ copies' = [copies EXCEPT ![h] = @ + 1]

(* The live secret is withdrawn. *)
Withdraw(h) == /\ phase[h] \in Live
               /\ phase' = [phase EXCEPT ![h] = "withdrawn"]
               /\ UNCHANGED copies

(* The clipboard closes: whatever was requested or live is gone. *)
Close == /\ phase' = [h \in Holds |-> IF phase[h] = "new" THEN "new"
                                      ELSE "withdrawn"]
         /\ UNCHANGED copies

Next == \/ \E h \in Holds : Request(h) \/ Refuse(h) \/ Offer(h) \/ Deliver(h)
                              \/ Withdraw(h)
        \/ Close

Spec == Init /\ [][Next]_vars

-----------------------------------------------------------------------------
(* At most one secret is live, and each has been read at most once: the     *)
(* promise in terms of the abstract state.                                  *)
OneLiveOneCopy ==
  /\ \A g, h \in Holds : phase[g] \in Live /\ phase[h] \in Live => g = h
  /\ \A h \in Holds : copies[h] <= 1
=============================================================================
