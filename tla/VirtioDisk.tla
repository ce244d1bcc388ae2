----------------------------- MODULE VirtioDisk -----------------------------
(***************************************************************************)
(* The disk driver (kernel/virtio_disk.c): a request takes three           *)
(* descriptors, is handed to the device, and its thread sleeps until the   *)
(* interrupt handler has seen it in the used ring.  The device completes   *)
(* requests in any order and raises its interrupt again while the handler  *)
(* runs.  Everything between acquire(vdisk_lock) and sleep or release is   *)
(* one step of a thread; only the handler keeps the lock over several.     *)
(***************************************************************************)
EXTENDS Naturals, Sequences, FiniteSets, FiniteSetsExt

CONSTANTS Thread, Buf, Block, Val, None,
          Sizes   \* the values of NUM, the number of descriptors, to look at

ASSUME VirtioAssumption == Sizes \subseteq Nat /\ \A n \in Sizes : n >= 3

VARIABLES
  num,       \* NUM: a constant, chosen at the start
  disk,      \* the blocks on the medium
  data, blockno, bdisk,   \* of each buffer: data, blockno and disk
  free,      \* disk.free
  next,      \* disk.desc[i].next, None without VRING_DESC_F_NEXT
  ops,       \* per head: request type, sector and address of the data
  info,      \* disk.info[head].b
  todo,      \* heads in the avail ring the device has not completed
  used,      \* heads in the used ring the driver has not seen
  irq,       \* the device's interrupt is pending
  intr,      \* virtio_disk_intr is running and holds vdisk_lock
  req        \* each thread's call of virtio_disk_rw

medium == <<disk, data, blockno, bdisk>>
queue == <<num, free, next, ops, info, todo, used, irq, intr>>

Desc == 0 .. num - 1
NoReq == [at |-> "none", buf |-> None, write |-> FALSE, head |-> None]

DiskInit ==
  /\ num \in Sizes
  /\ disk \in [Block -> {CHOOSE v \in Val : TRUE}]
  /\ data = [b \in Buf |-> CHOOSE v \in Val : TRUE]
  /\ blockno = [b \in Buf |-> None] /\ bdisk = [b \in Buf |-> FALSE]
  /\ free = Desc /\ next = [d \in Desc |-> None]
  /\ ops = [d \in Desc |-> None] /\ info = [d \in Desc |-> None]
  /\ todo = {} /\ used = <<>> /\ irq = FALSE /\ intr = FALSE
  /\ req = [t \in Thread |-> NoReq]

(* alloc3_desc takes three descriptors or, having freed what it took, none. *)
Enough == Cardinality(free) >= 3

(* wakeup of the threads that wait in place at, for buffer b if b # None. *)
Wake(r, at, b, to) ==
  [t \in Thread |-> IF r[t].at = at /\ b \in {None, r[t].buf}
                    THEN [r[t] EXCEPT !.at = to] ELSE r[t]]

(* virtio_disk_rw up to its sleep: on free[0] without descriptors (the     *)
(* descriptors freed again wake the other waiters), on b with them.        *)
Submit(t) ==
  LET b == req[t].buf
      i0 == Min(free)
      i1 == Min(free \ {i0})
      i2 == Min(free \ {i0, i1})
  IN  /\ req[t].at = "start" /\ ~intr
      /\ IF Enough
           THEN /\ free' = free \ {i0, i1, i2}
                /\ next' = [next EXCEPT ![i0] = i1, ![i1] = i2, ![i2] = None]
                /\ ops' = [ops EXCEPT ![i0] = [write |-> req[t].write,
                                               sector |-> blockno[b], addr |-> b]]
                /\ info' = [info EXCEPT ![i0] = b]
                /\ bdisk' = [bdisk EXCEPT ![b] = TRUE]
                /\ todo' = todo \cup {i0}
                /\ req' = [req EXCEPT ![t].at = "io", ![t].head = i0]
           ELSE /\ req' = [(IF free = {} THEN req ELSE Wake(req, "nodesc", None, "start"))
                             EXCEPT ![t].at = "nodesc"]
                /\ UNCHANGED <<free, next, ops, info, bdisk, todo>>
      /\ UNCHANGED <<num, disk, data, blockno, used, irq, intr>>

(* The device performs a request, puts it in the used ring, interrupts. *)
Device(h) ==
  /\ h \in todo /\ todo' = todo \ {h}
  /\ IF ops[h].write
       THEN disk' = [disk EXCEPT ![ops[h].sector] = data[ops[h].addr]] /\ UNCHANGED data
       ELSE data' = [data EXCEPT ![ops[h].addr] = disk[ops[h].sector]] /\ UNCHANGED disk
  /\ used' = Append(used, h)
  /\ irq' = TRUE
  /\ UNCHANGED <<num, blockno, bdisk, free, next, ops, info, intr, req>>

(* virtio_disk_intr: acknowledge, then every entry of the used ring, those *)
(* included that the device adds meanwhile.                                *)
IntrEnter ==
  /\ irq /\ ~intr
  /\ irq' = FALSE /\ intr' = TRUE
  /\ UNCHANGED <<num, medium, free, next, ops, info, todo, used, req>>

(* Faulty variant: the handler stops before the ring is empty. *)
IntrExitEarly ==
  /\ intr /\ intr' = FALSE
  /\ UNCHANGED <<num, medium, free, next, ops, info, todo, used, irq, req>>

IntrEntry ==
  LET b == info[Head(used)]
  IN  /\ intr /\ used # <<>>
      /\ bdisk' = [bdisk EXCEPT ![b] = FALSE]
      /\ req' = Wake(req, "io", b, "done")
      /\ used' = Tail(used)
      /\ UNCHANGED <<num, disk, data, blockno, free, next, ops, info, todo, irq, intr>>

IntrExit ==
  /\ intr /\ used = <<>> /\ intr' = FALSE
  /\ UNCHANGED <<num, medium, free, next, ops, info, todo, used, irq, req>>

Chain(h) ==
  LET then(S) == S \cup {next[d] : d \in {e \in S : next[e] # None}}
  IN  then(then({h}))

(* free_chain follows next; freed descriptors wake the waiters. *)
Freed(h) == Chain(h)

(* The rest of virtio_disk_rw once b->disk is 0; the caller goes on. *)
Finish(t) ==
  LET gone == Freed(req[t].head)
  IN  /\ req[t].at = "done" /\ ~intr /\ ~bdisk[req[t].buf]
      /\ free' = free \cup gone
      /\ next' = [d \in Desc |-> IF d \in gone THEN None ELSE next[d]]
      /\ info' = [info EXCEPT ![req[t].head] = None]
      /\ ops' = [ops EXCEPT ![req[t].head] = None]
      /\ req' = [Wake(req, "nodesc", None, "start") EXCEPT ![t] = NoReq]
      /\ UNCHANGED <<num, medium, todo, used, irq, intr>>

DeviceStep == \/ \E h \in Desc : Device(h)
              \/ IntrEnter \/ IntrEntry \/ IntrExit

-----------------------------------------------------------------------------
InFlight == {t \in Thread : req[t].at \in {"io", "done"}}

(* Descriptors are conserved: each is free or in the chain of exactly one  *)
(* request in flight, whose three descriptors are distinct; free_desc      *)
(* never frees a free one, and none leaks.                                 *)
DescriptorsConserved ==
  /\ \A t \in InFlight : Cardinality(Chain(req[t].head)) = 3
  /\ \A t, u \in InFlight :
       t # u => Chain(req[t].head) \cap Chain(req[u].head) = {}
  /\ free = Desc \ UNION {Chain(req[t].head) : t \in InFlight}
=============================================================================
