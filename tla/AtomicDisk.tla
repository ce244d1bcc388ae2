----------------------------- MODULE AtomicDisk -----------------------------
(***************************************************************************)
(* What the log promises the file system: system calls change the blocks   *)
(* in memory, and the disk moves at once from one state between system     *)
(* calls to a later one.  A crash falls back to the last such state.       *)
(***************************************************************************)
EXTENDS Naturals

CONSTANTS BlockNo, Value, Blank

VARIABLES
  mem,      \* the blocks as the running system sees them
  stable,   \* the blocks a crash falls back to
  ops       \* system calls under way

avars == <<mem, stable, ops>>

Init ==
  /\ mem = [b \in BlockNo |-> Blank]
  /\ stable = mem
  /\ ops = 0

Begin == ops' = ops + 1 /\ UNCHANGED <<mem, stable>>

Write ==
  /\ ops > 0
  /\ \E b \in BlockNo, x \in Value : mem' = [mem EXCEPT ![b] = x]
  /\ UNCHANGED <<stable, ops>>

End == ops > 0 /\ ops' = ops - 1 /\ UNCHANGED <<mem, stable>>

Commit == ops = 0 /\ stable' = mem /\ UNCHANGED <<mem, ops>>

Crash == mem' = stable /\ ops' = 0 /\ UNCHANGED stable

Next == Begin \/ Write \/ End \/ Commit \/ Crash

Spec == Init /\ [][Next]_avars

=============================================================================
