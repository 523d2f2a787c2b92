--------------------------------- MODULE Pages ---------------------------------
(***************************************************************************)
(* Memory guards (src/src/memory_guard.rs): buffers whose pages are locked *)
(* in memory and kept out of core dumps while they live.  The kernel keeps *)
(* these marks by the page and does not count; the allocator puts buffers  *)
(* wherever there is room.                                                 *)
(***************************************************************************)
EXTENDS Naturals, FiniteSets

CONSTANTS PageSize, MemorySize, MaxGuards

ASSUME PagesAssumption == PageSize \in Nat \ {0} /\ MemorySize \in Nat

VARIABLES
  guards, \* live buffers, as first and one past the last address
  locked, \* pages locked
  nodump, \* pages left out of core dumps
  parted  \* pages unlocked for one buffer while another lived there

pageVars == <<guards, locked, nodump, parted>>

PagesInit == guards = {} /\ locked = {} /\ nodump = {} /\ parted = {}

(* Mutant: the length is not rounded up. *)
AlignedEndFloor(end) == end - (end % PageSize)

(* next_multiple_of *)
AlignedEnd(end) == IF end % PageSize = 0 THEN end ELSE end - (end % PageSize) + PageSize

(* The range given to mlock, madvise and munlock, in pages. *)
Aligned(g) == {p \in 0..MemorySize : g.base - (g.base % PageSize) <= p * PageSize
                                      /\ p * PageSize < AlignedEnd(g.end)}

(* The pages a buffer is in. *)
Own(g) == {a \div PageSize : a \in g.base..g.end - 1}

Apart(g, h) == g.end <= h.base \/ h.end <= g.base

(* munlock takes the page from everybody. *)
Munlock(g, others) ==
  /\ locked' = locked \ Aligned(g)
  /\ parted' = parted \cup {p \in Aligned(g) : \E h \in others : p \in Own(h)}

New(g) ==
  /\ \A h \in guards : Apart(g, h)
  /\ guards' = guards \cup {g}
  /\ locked' = locked \cup Aligned(g) /\ nodump' = nodump \cup Aligned(g)
  /\ parted' = parted \ Aligned(g)

(* mlock succeeded and madvise did not. *)
NewFails(g) ==
  /\ \A h \in guards : Apart(g, h)
  /\ Munlock(g, guards)
  /\ UNCHANGED <<guards, nodump>>

(* Mutant: the pages are given back to core dumps as well. *)
DropDumping(g) ==
  /\ guards' = guards \ {g}
  /\ Munlock(g, guards \ {g})
  /\ nodump' = nodump \ Aligned(g)

Drop(g) ==
  /\ guards' = guards \ {g}
  /\ Munlock(g, guards \ {g})
  /\ UNCHANGED nodump

Buffers == {g \in [base : 0..MemorySize, end : 0..MemorySize] : g.base < g.end}

PagesNext ==
  \/ \E g \in Buffers : (Cardinality(guards) < MaxGuards /\ New(g)) \/ NewFails(g)
  \/ \E g \in guards : Drop(g)

PagesSpec == PagesInit /\ [][PagesNext]_pageVars

-----------------------------------------------------------------------------
(* Every byte of a live buffer is on a locked page, unless a buffer on the  *)
(* same page was dropped or failed since: only there do buffers meet, and   *)
(* their ends are counted in (memory_guard.rs 47-77, 90-117).               *)
AloneStaysLocked == \A g \in guards : Own(g) \subseteq locked \cup parted

(* No byte of a live buffer gets into a core dump, whatever was dropped     *)
(* beside it (63-76).                                                       *)
NeverDumped == \A g \in guards : Own(g) \subseteq nodump

(* No page stays locked when the last buffer is gone, through failures and  *)
(* buffers that shared it (71-74, 90-117).                                  *)
NothingStaysLocked == guards = {} => locked = {}
=============================================================================
