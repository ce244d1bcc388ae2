------------------------------ MODULE PageRefs ------------------------------
(***************************************************************************)
(* What the page allocator promises its clients, with no free list and no  *)
(* lock: every physical page is free, or counted by the references its     *)
(* clients hold, or in limbo between the drop of its last reference and    *)
(* its return to the free memory.  Kalloc implements this specification;   *)
(* CowVM is built on it.                                                   *)
(***************************************************************************)
EXTENDS Naturals

CONSTANT Page

VARIABLES free, ref, limbo

pvars == <<free, ref, limbo>>

(* kinit hands every page to the allocator. *)
Init ==
  /\ free = Page
  /\ ref = [p \in Page |-> 0]
  /\ limbo = {}

(* kalloc_contig: some free pages get one reference each. *)
Alloc(S) ==
  /\ S # {} /\ S \subseteq free
  /\ free' = free \ S
  /\ ref' = [p \in Page |-> IF p \in S THEN 1 ELSE ref[p]]
  /\ UNCHANGED limbo

(* incref by a holder of the page. *)
Grab(p) ==
  /\ ref[p] > 0
  /\ ref' = [ref EXCEPT ![p] = @ + 1]
  /\ UNCHANGED <<free, limbo>>

(* decref: the count falls and nothing else happens, even at zero. *)
Drop(p) ==
  /\ ref[p] > 0
  /\ ref' = [ref EXCEPT ![p] = @ - 1]
  /\ UNCHANGED <<free, limbo>>

(* First critical section of kfree_contig: one reference of each page is    *)
(* dropped; the pages nobody references any more await insertion.           *)
Release(S) ==
  /\ S # {} /\ \A p \in S : ref[p] > 0
  /\ ref' = [p \in Page |-> IF p \in S THEN ref[p] - 1 ELSE ref[p]]
  /\ limbo' = limbo \cup {p \in S : ref[p] = 1}
  /\ UNCHANGED free

(* Second critical section of kfree_contig. *)
Return(S) ==
  /\ S # {} /\ S \subseteq limbo
  /\ limbo' = limbo \ S
  /\ free' = free \cup S
  /\ UNCHANGED ref

Next ==
  \/ \E S \in SUBSET Page : Alloc(S) \/ Release(S) \/ Return(S)
  \/ \E p \in Page : Grab(p) \/ Drop(p)

Spec == Init /\ [][Next]_pvars

TypeOK ==
  /\ free \subseteq Page
  /\ ref \in [Page -> Nat]
  /\ limbo \subseteq Page

(* A page that is free or on its way to the free memory has no reference   *)
(* left, and no page is both: kalloc never hands out a page somebody uses. *)
FreeUnreferenced ==
  /\ \A p \in free \cup limbo : ref[p] = 0
  /\ free \cap limbo = {}

=============================================================================
