------------------------------- MODULE Bcache -------------------------------
(***************************************************************************)
(* The buffer cache (kernel/bio.c) with the sleep locks of its buffers     *)
(* (kernel/sleeplock.c), over the disk driver.  A thread reads a block,    *)
(* uses it as the file system and the log do (look at it; change it and    *)
(* bwrite; change it and bpin, log_write; write a pinned one out and       *)
(* bunpin, install_trans) and releases it.                                 *)
(***************************************************************************)
EXTENDS VirtioDisk, SequencesExt

CONSTANT MaxPins   \* blocks pinned at one time

VARIABLES
  valid, refcnt,
  lk,        \* b->lock: the thread that holds it
  lru,       \* the list from bcache.head.next on
  pc, cur,   \* each thread: where it is, its buffer
  pinned     \* buffers the log has pinned

cache == <<valid, refcnt, lk, lru, pinned>>
vars == <<medium, queue, req, cache, pc, cur>>

(* binit links every buffer at the head in turn. *)
Init ==
  /\ DiskInit
  /\ valid = [b \in Buf |-> FALSE] /\ refcnt = [b \in Buf |-> 0]
  /\ lk = [b \in Buf |-> None]
  /\ lru = SetToSeq(Buf)
  /\ pc = [t \in Thread |-> "idle"] /\ cur = [t \in Thread |-> None]
  /\ pinned = {}

(* The caller's side of the bound NBUF: begin_op admits no more operations *)
(* than there are buffers for the blocks they use and the pinned ones.     *)
Held == {blockno[cur[t]] : t \in {u \in Thread : pc[u] # "idle"}}
          \cup {blockno[b] : b \in pinned}
Admitted(k) == Cardinality(Held \cup {k}) <= Cardinality(Buf)

Cached(k) == {b \in Buf : blockno[b] = k}

(* Faulty variants: a recycled buffer stays valid; its lock is looked at   *)
(* instead of its reference count.                                         *)
RecycledValid(b) == valid
VictimsUnlocked == {j \in DOMAIN lru : lk[lru[j]] = None}

Recycled(b) == [valid EXCEPT ![b] = FALSE]
Victims == {j \in DOMAIN lru : refcnt[lru[j]] = 0}

(* bget under bcache.lock: the cached buffer, or the least recently used   *)
(* one without references.                                                 *)
Bget(t, k) ==
  /\ pc[t] = "idle" /\ Admitted(k)
  /\ \/ \E b \in Cached(k) :
          /\ refcnt' = [refcnt EXCEPT ![b] = @ + 1]
          /\ cur' = [cur EXCEPT ![t] = b]
          /\ UNCHANGED <<valid, blockno>>
     \/ /\ Cached(k) = {} /\ Victims # {}
        /\ LET b == lru[Max(Victims)]
           IN  /\ blockno' = [blockno EXCEPT ![b] = k]
               /\ valid' = Recycled(b)
               /\ refcnt' = [refcnt EXCEPT ![b] = 1]
               /\ cur' = [cur EXCEPT ![t] = b]
  /\ pc' = [pc EXCEPT ![t] = "lock"]
  /\ UNCHANGED <<disk, data, bdisk, queue, req, lk, lru, pinned>>

Locked(b) == lk[b] # None

(* acquiresleep: one look at the lock under lk->lk; then, in bread, a      *)
(* buffer that is not valid is read from the disk.                         *)
AcquireSleep(t) ==
  LET b == cur[t]
  IN  /\ pc[t] = "lock"
      /\ IF Locked(b)
           THEN pc' = [pc EXCEPT ![t] = "asleep"] /\ UNCHANGED <<lk, req>>
           ELSE /\ lk' = [lk EXCEPT ![b] = t]
                /\ IF valid[b]
                     THEN pc' = [pc EXCEPT ![t] = "use"] /\ UNCHANGED req
                     ELSE /\ pc' = [pc EXCEPT ![t] = "bread"]
                          /\ req' = [req EXCEPT ![t] = [NoReq EXCEPT !.at = "start", !.buf = b]]
      /\ UNCHANGED <<medium, queue, valid, refcnt, lru, pinned, cur>>

(* bread, after the disk read. *)
BreadDone(t) ==
  /\ pc[t] = "bread" /\ req[t] = NoReq
  /\ valid' = [valid EXCEPT ![cur[t]] = TRUE]
  /\ pc' = [pc EXCEPT ![t] = "use"]
  /\ UNCHANGED <<medium, queue, req, refcnt, lk, lru, pinned, cur>>

Look(t) ==
  /\ pc[t] = "use" /\ pc' = [pc EXCEPT ![t] = "release"]
  /\ UNCHANGED <<medium, queue, req, cache, cur>>

(* A change that goes straight to the disk (log blocks, the log header). *)
ChangeWrite(t, v) ==
  /\ pc[t] = "use" /\ cur[t] \notin pinned
  /\ data' = [data EXCEPT ![cur[t]] = v]
  /\ pc' = [pc EXCEPT ![t] = "bwrite"]
  /\ req' = [req EXCEPT ![t] = [NoReq EXCEPT !.at = "start", !.buf = cur[t], !.write = TRUE]]
  /\ UNCHANGED <<disk, blockno, bdisk, queue, cache, cur>>

(* A change recorded by log_write: bpin once per transaction. *)
ChangePin(t, v) ==
  LET b == cur[t]
  IN  /\ pc[t] = "use" /\ (b \in pinned \/ Cardinality(pinned) < MaxPins)
      /\ data' = [data EXCEPT ![b] = v]
      /\ refcnt' = IF b \in pinned THEN refcnt ELSE [refcnt EXCEPT ![b] = @ + 1]
      /\ pinned' = pinned \cup {b}
      /\ pc' = [pc EXCEPT ![t] = "release"]
      /\ UNCHANGED <<disk, blockno, bdisk, queue, req, valid, lk, lru, cur>>

(* install_trans: bwrite, then bunpin. *)
Install(t) ==
  /\ pc[t] = "use" /\ cur[t] \in pinned
  /\ pc' = [pc EXCEPT ![t] = "bwrite"]
  /\ req' = [req EXCEPT ![t] = [NoReq EXCEPT !.at = "start", !.buf = cur[t], !.write = TRUE]]
  /\ UNCHANGED <<medium, queue, cache, cur>>

BwriteDone(t) ==
  LET b == cur[t]
  IN  /\ pc[t] = "bwrite" /\ req[t] = NoReq
      /\ refcnt' = IF b \in pinned THEN [refcnt EXCEPT ![b] = @ - 1] ELSE refcnt
      /\ pinned' = pinned \ {b}
      /\ pc' = [pc EXCEPT ![t] = "release"]
      /\ UNCHANGED <<medium, queue, req, valid, lk, lru, cur>>

Woken(b) == [u \in Thread |-> IF pc[u] = "asleep" /\ cur[u] = b THEN "lock" ELSE pc[u]]

(* brelse: releasesleep, then, under bcache.lock, the reference. *)
ReleaseSleep(t) ==
  /\ pc[t] = "release"
  /\ lk' = [lk EXCEPT ![cur[t]] = None]
  /\ pc' = [Woken(cur[t]) EXCEPT ![t] = "put"]
  /\ UNCHANGED <<medium, queue, req, valid, refcnt, lru, pinned, cur>>

ToFront(b) == <<b>> \o Remove(lru, b)

Brelse(t) ==
  LET b == cur[t]
  IN  /\ pc[t] = "put"
      /\ refcnt' = [refcnt EXCEPT ![b] = @ - 1]
      /\ lru' = IF refcnt[b] = 1 THEN ToFront(b) ELSE lru
      /\ pc' = [pc EXCEPT ![t] = "idle"] /\ cur' = [cur EXCEPT ![t] = None]
      /\ UNCHANGED <<medium, queue, req, valid, lk, pinned>>

Use(t) == Look(t) \/ Install(t) \/ \E v \in Val : ChangeWrite(t, v) \/ ChangePin(t, v)
Driver(t) == (Submit(t) \/ Finish(t)) /\ UNCHANGED <<cache, pc, cur>>
Step(t) == \/ AcquireSleep(t) \/ BreadDone(t) \/ BwriteDone(t)
           \/ ReleaseSleep(t) \/ Brelse(t) \/ Driver(t) \/ Use(t)
Hardware == DeviceStep /\ UNCHANGED <<cache, pc, cur>>

Next == Hardware \/ \E t \in Thread : Step(t) \/ \E k \in Block : Bget(t, k)

Spec == Init /\ [][Next]_vars

-----------------------------------------------------------------------------
TypeOK ==
  /\ disk \in [Block -> Val] /\ data \in [Buf -> Val]
  /\ blockno \in [Buf -> Block \cup {None}] /\ bdisk \in [Buf -> BOOLEAN]
  /\ free \subseteq Desc /\ next \in [Desc -> Desc \cup {None}]
  /\ info \in [Desc -> Buf \cup {None}] /\ todo \subseteq Desc
  /\ used \in Seq(Desc) /\ irq \in BOOLEAN /\ intr \in BOOLEAN
  /\ valid \in [Buf -> BOOLEAN] /\ refcnt \in [Buf -> 0 .. Cardinality(Thread) + 1]
  /\ lk \in [Buf -> Thread \cup {None}] /\ pinned \subseteq Buf
  /\ cur \in [Thread -> Buf \cup {None}]
  /\ lru \in [1 .. Cardinality(Buf) -> Buf]

(* bget, brelse, bpin and bunpin count exactly: a reference for every      *)
(* thread between bget and brelse and one for the log's pin; the list      *)
(* keeps every buffer once; no block has two buffers.                      *)
CountedOnce ==
  /\ \A b \in Buf : refcnt[b] = Cardinality({t \in Thread : cur[t] = b})
                                + (IF b \in pinned THEN 1 ELSE 0)
  /\ Range(lru) = Buf
  /\ \A b, c \in Buf : b # c /\ blockno[b] # None => blockno[b] # blockno[c]

(* bget never panics for lack of buffers when the callers respect the bound. *)
BufferFound ==
  \A t \in Thread, k \in Block :
    pc[t] = "idle" /\ Admitted(k) => Cached(k) # {} \/ Victims # {}

(* While the device has a buffer (b->disk), the thread that asked for the  *)
(* transfer holds its sleep lock and the buffer keeps its block: no other  *)
(* thread sees it and it is not recycled under the device.                 *)
DeviceOwns ==
  \A h \in todo : \E t \in Thread :
    /\ req[t].head = h /\ req[t].buf = ops[h].addr /\ bdisk[ops[h].addr]
    /\ lk[ops[h].addr] = t /\ blockno[ops[h].addr] = ops[h].sector

(* The cache over the driver implements a store of blocks with exclusive   *)
(* access: nothing written is lost when a buffer is recycled, and a thread *)
(* that bread lets through sees the last contents of its block.            *)
Content == [k \in Block |->
              IF \E b \in Cached(k) : valid[b]
              THEN data[CHOOSE b \in Cached(k) : TRUE] ELSE disk[k]]
Holder == [k \in Block |->
             IF \E t \in Thread : pc[t] \in {"use", "bwrite", "release"} /\ blockno[cur[t]] = k
             THEN CHOOSE t \in Thread : pc[t] \in {"use", "bwrite", "release"} /\ blockno[cur[t]] = k
             ELSE None]
Store == INSTANCE BlockStore WITH content <- Content, holder <- Holder,
           Threads <- Thread, Blocks <- Block, Values <- Val, Nobody <- None
ImplementsBlockStore == Store!SSpec

(* Whoever sleeps has someone to wake them: the holder of the sleep lock,  *)
(* a request in flight whose descriptors will be freed, or a completion    *)
(* that the device has yet to make or the handler has yet to see.          *)
SleepersHaveWaker ==
  \A t \in Thread :
    /\ pc[t] = "asleep" => lk[cur[t]] \notin {None, t}
    /\ req[t].at = "nodesc" => InFlight # {}
    /\ req[t].at = "io" =>
         \/ req[t].head \in todo
         \/ req[t].head \in Range(used) /\ (irq \/ intr)

(* The driver's descriptors are conserved, the device and the cache agree on *)
(* who has a buffer, and bget finds one: the statements above, together.     *)
BuffersSound == TypeOK /\ DescriptorsConserved /\ CountedOnce /\ BufferFound /\ DeviceOwns

=============================================================================
