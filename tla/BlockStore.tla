----------------------------- MODULE BlockStore -----------------------------
(***************************************************************************)
(* What the buffer cache promises its callers: between bread and brelse a  *)
(* thread has the block to itself and finds in it what was put there last, *)
(* whatever buffers are recycled and whatever the disk does meanwhile.     *)
(***************************************************************************)
EXTENDS Naturals

CONSTANTS Threads, Blocks, Values, Nobody

VARIABLES content, holder

Grant(t, k) ==
  /\ holder[k] = Nobody
  /\ holder' = [holder EXCEPT ![k] = t] /\ UNCHANGED content

Modify(t, k, v) ==
  /\ holder[k] = t
  /\ content' = [content EXCEPT ![k] = v]
  /\ holder' \in {holder, [holder EXCEPT ![k] = Nobody]}

Release(t, k) ==
  /\ holder[k] = t
  /\ holder' = [holder EXCEPT ![k] = Nobody] /\ UNCHANGED content

SNext == \E t \in Threads, k \in Blocks :
           Grant(t, k) \/ Release(t, k) \/ \E v \in Values : Modify(t, k, v)

SSpec == /\ holder = [k \in Blocks |-> Nobody]
         /\ content \in [Blocks -> Values]
         /\ [][SNext]_<<content, holder>>
=============================================================================
