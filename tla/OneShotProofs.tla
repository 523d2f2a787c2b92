----------------------------- MODULE OneShotProofs -----------------------------
(***************************************************************************)
(* The promise of OneShot, for any number of secrets.                      *)
(***************************************************************************)
EXTENDS OneShot, TLAPS

TypeInv == phase \in [Holds -> Phases] /\ copies \in [Holds -> Nat]

(* A copy is counted exactly when the secret leaves "offered" by delivery,  *)
(* so a secret still to be delivered has none.                              *)
CopiesFollowPhase ==
  \A h \in Holds : /\ copies[h] <= 1
                   /\ phase[h] \in {"new", "requested", "offered"} => copies[h] = 0

OneLive == \A g, h \in Holds : phase[g] \in Live /\ phase[h] \in Live => g = h

IInv == TypeInv /\ CopiesFollowPhase /\ OneLive

LEMMA Initially == Init => IInv
BY DEF Init, IInv, TypeInv, CopiesFollowPhase, OneLive, Phases, Live

LEMMA Inductive == IInv /\ [Next]_vars => IInv'
<1> SUFFICES ASSUME IInv, [Next]_vars PROVE IInv'
  OBVIOUS
<1> USE DEF IInv, TypeInv, CopiesFollowPhase, OneLive, Phases, Live
<1>1. ASSUME NEW h \in Holds, Request(h) PROVE IInv'
  BY <1>1 DEF Request, FirstNew
<1>2. ASSUME NEW h \in Holds, Refuse(h) PROVE IInv'
  BY <1>2 DEF Refuse, FirstNew
<1>3. ASSUME NEW h \in Holds, Offer(h) PROVE IInv'
  BY <1>3 DEF Offer
<1>4. ASSUME NEW h \in Holds, Deliver(h) PROVE IInv'
  BY <1>4 DEF Deliver
<1>5. ASSUME NEW h \in Holds, Withdraw(h) PROVE IInv'
  BY <1>5 DEF Withdraw
<1>6. CASE Close
  BY <1>6 DEF Close
<1>7. CASE UNCHANGED vars
  BY <1>7 DEF vars
<1> QED
  BY <1>1, <1>2, <1>3, <1>4, <1>5, <1>6, <1>7 DEF Next

(* OneLiveOneCopy: what any implementation of OneShot inherits, the         *)
(* clipboard thread of clipboard.rs among them.                             *)
THEOREM OneShotPromise == Spec => []OneLiveOneCopy
<1>1. IInv => OneLiveOneCopy
  BY DEF IInv, OneLive, CopiesFollowPhase, OneLiveOneCopy
<1> QED
  BY <1>1, Initially, Inductive, PTL DEF Spec
=============================================================================
