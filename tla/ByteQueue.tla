------------------------------ MODULE ByteQueue ------------------------------
(***************************************************************************)
(* What a pipe promises: a bounded first-in first-out queue of bytes.  A   *)
(* read takes the oldest bytes, in the order in which they were put; none  *)
(* is lost or doubled until both ends are closed and the queue disappears. *)
(***************************************************************************)
EXTENDS Naturals, Sequences

CONSTANTS Byte, Capacity

VARIABLES queue, open

Put(b) ==
  /\ open /\ Len(queue) < Capacity
  /\ queue' = Append(queue, b) /\ UNCHANGED open

Get(k) ==
  /\ open
  /\ queue' = SubSeq(queue, k + 1, Len(queue)) /\ UNCHANGED open

Create == ~open /\ open' = TRUE /\ queue' = <<>>
Destroy == open /\ open' = FALSE /\ queue' = <<>>

QInit == queue = <<>> /\ open = FALSE

QNext ==
  \/ \E b \in Byte : Put(b)
  \/ \E k \in 1 .. Len(queue) : Get(k)
  \/ Create \/ Destroy

QSpec == QInit /\ [][QNext]_<<queue, open>>
=============================================================================
