------------------------------- MODULE FsLog --------------------------------
(***************************************************************************)
(* The file system log (kernel/log.c): system calls between begin_op and   *)
(* end_op, group commit, installation, crashes at every disk write and     *)
(* recovery.  A disk block is written atomically; the buffer cache holds   *)
(* one copy of a block, reread from its home after an eviction.            *)
(***************************************************************************)
EXTENDS Naturals, Sequences, FiniteSets

CONSTANTS
  Thread, BlockNo, Value, Blank,
  MAXOPBLOCKS, LOGBLOCKS,
  OpBlocks       \* how many different blocks a system call writes

(* What the constants of the file system satisfy. *)
LogAssumption ==
  /\ MAXOPBLOCKS \in Nat \ {0} /\ LOGBLOCKS \in Nat /\ LOGBLOCKS >= MAXOPBLOCKS
  /\ OpBlocks \in Nat /\ OpBlocks <= MAXOPBLOCKS
  /\ Blank \in Value /\ IsFiniteSet(Thread) /\ IsFiniteSet(BlockNo)

VARIABLES
  home,         \* disk: the blocks at their home locations
  logdata,      \* disk: the blocks of the log area
  head,         \* disk: the log header, a sequence of block numbers
  cache,        \* memory: the contents of the buffer cache
  pinned,       \* memory: blocks that bpin keeps in the cache
  lh,           \* memory: log.lh
  outstanding, committing,
  at,           \* where each thread is
  wrote,        \* blocks written by the system call of each thread
  stage, tail   \* progress of the commit, or of the recovery at boot

disk == <<home, logdata, head>>
memory == <<cache, pinned, lh>>
logvars == <<disk, memory, outstanding, committing, at, wrote, stage, tail>>

LogInit ==
  /\ home = [b \in BlockNo |-> Blank]
  /\ logdata = [i \in 1 .. LOGBLOCKS |-> Blank]
  /\ head = <<>>
  /\ cache = home /\ pinned = {} /\ lh = <<>>
  /\ outstanding = 0 /\ committing = FALSE
  /\ at = [t \in Thread |-> "idle"]
  /\ wrote = [t \in Thread |-> {}]
  /\ stage = "none" /\ tail = 1

Goto(t, l) == at' = [at EXCEPT ![t] = l]

(* wakeup(&log): the sleepers look again; t itself moves on to l. *)
WakeAndGoto(t, l) ==
  at' = [u \in Thread |-> IF u = t THEN l ELSE IF at[u] = "asleep" THEN "begin" ELSE at[u]]

Up == stage \notin {"recover", "erase"}

-----------------------------------------------------------------------------
(* Faulty variant: the space of the new system call is not reserved. *)
BeginOpUnreserved(t) ==
  /\ Up /\ at[t] \in {"idle", "begin"}
  /\ IF committing \/ Len(lh) + outstanding * MAXOPBLOCKS > LOGBLOCKS
     THEN Goto(t, "asleep") /\ UNCHANGED outstanding
     ELSE Goto(t, "op") /\ outstanding' = outstanding + 1
  /\ UNCHANGED <<disk, memory, committing, wrote, stage, tail>>

BeginOp(t) ==
  /\ Up /\ at[t] \in {"idle", "begin"}
  /\ IF committing \/ Len(lh) + (outstanding + 1) * MAXOPBLOCKS > LOGBLOCKS
     THEN Goto(t, "asleep") /\ UNCHANGED outstanding
     ELSE Goto(t, "op") /\ outstanding' = outstanding + 1
  /\ UNCHANGED <<disk, memory, committing, wrote, stage, tail>>

(* Log absorption: the header already lists the block. *)
Absorbed(h, b) == \E i \in 1 .. Len(h) : h[i] = b

(* Faulty variant: the block is not pinned. *)
LogWriteUnpinned(t, b, x) ==
  /\ at[t] = "op" /\ outstanding >= 1
  /\ Cardinality(wrote[t] \cup {b}) <= OpBlocks
  /\ Len(lh) < LOGBLOCKS
  /\ cache' = [cache EXCEPT ![b] = x]
  /\ lh' = IF Absorbed(lh, b) THEN lh ELSE Append(lh, b)
  /\ wrote' = [wrote EXCEPT ![t] = @ \cup {b}]
  /\ UNCHANGED <<disk, pinned, outstanding, committing, at, stage, tail>>

(* A system call changes a block in the cache and calls log_write, which   *)
(* panics when the header is full.                                         *)
LogWrite(t, b, x) ==
  /\ at[t] = "op" /\ outstanding >= 1
  /\ Cardinality(wrote[t] \cup {b}) <= OpBlocks
  /\ Len(lh) < LOGBLOCKS
  /\ cache' = [cache EXCEPT ![b] = x]
  /\ lh' = IF Absorbed(lh, b) THEN lh ELSE Append(lh, b)
  /\ pinned' = pinned \cup {b}
  /\ wrote' = [wrote EXCEPT ![t] = @ \cup {b}]
  /\ UNCHANGED <<disk, outstanding, committing, at, stage, tail>>

(* A buffer that nobody uses and that is not pinned is recycled. *)
Evict(b) ==
  /\ Up /\ b \notin pinned
  /\ cache' = [cache EXCEPT ![b] = home[b]]
  /\ UNCHANGED <<disk, pinned, lh, outstanding, committing, at, wrote, stage, tail>>

(* The last system call to end commits for all. *)
EndOp(t) ==
  /\ at[t] = "op"
  /\ outstanding' = outstanding - 1
  /\ wrote' = [wrote EXCEPT ![t] = {}]
  /\ IF outstanding = 1
     THEN /\ committing' = TRUE /\ Goto(t, "commit")
          /\ stage' = IF lh # <<>> THEN "writelog" ELSE "done"
     ELSE WakeAndGoto(t, "idle") /\ UNCHANGED <<committing, stage>>
  /\ UNCHANGED <<disk, memory, tail>>

-----------------------------------------------------------------------------
(* commit(), without log.lock: one disk write per step. *)

Advance(next) ==
  IF tail < Len(lh) THEN tail' = tail + 1 /\ UNCHANGED stage
                    ELSE tail' = 1 /\ stage' = next

(* write_log: the cached blocks go to the log area. *)
WriteLog ==
  /\ stage = "writelog"
  /\ logdata' = [logdata EXCEPT ![tail] = cache[lh[tail]]]
  /\ Advance("writehead")
  /\ UNCHANGED <<home, head, memory, outstanding, committing, at, wrote>>

(* write_head: the transaction is committed. *)
WriteHead ==
  /\ stage = "writehead"
  /\ head' = lh
  /\ stage' = "install"
  /\ UNCHANGED <<home, logdata, memory, outstanding, committing, at, wrote, tail>>

(* install_trans(0): the logged blocks go home and are unpinned. *)
Install ==
  /\ stage = "install"
  /\ cache' = [cache EXCEPT ![lh[tail]] = logdata[tail]]
  /\ home' = [home EXCEPT ![lh[tail]] = logdata[tail]]
  /\ pinned' = pinned \ {lh[tail]}
  /\ Advance("clear")
  /\ UNCHANGED <<logdata, head, lh, outstanding, committing, at, wrote>>

(* The second write_head erases the transaction. *)
ClearHead ==
  /\ stage = "clear"
  /\ lh' = <<>> /\ head' = <<>>
  /\ stage' = "done"
  /\ UNCHANGED <<home, logdata, cache, pinned, outstanding, committing, at, wrote, tail>>

(* Faulty variant: nobody is woken after the commit. *)
EndCommitSilent(t) ==
  /\ at[t] = "commit" /\ stage = "done"
  /\ committing' = FALSE /\ stage' = "none"
  /\ Goto(t, "idle")
  /\ UNCHANGED <<disk, memory, outstanding, wrote, tail>>

EndCommit(t) ==
  /\ at[t] = "commit" /\ stage = "done"
  /\ committing' = FALSE /\ stage' = "none"
  /\ WakeAndGoto(t, "idle")
  /\ UNCHANGED <<disk, memory, outstanding, wrote, tail>>

-----------------------------------------------------------------------------
(* A crash loses the memory; initlog reads the header and recovers. *)

Crash ==
  /\ cache' = home /\ pinned' = {} /\ lh' = head
  /\ outstanding' = 0 /\ committing' = FALSE
  /\ at' = [t \in Thread |-> "idle"]
  /\ wrote' = [t \in Thread |-> {}]
  /\ stage' = IF head # <<>> THEN "recover" ELSE "erase"
  /\ tail' = 1
  /\ UNCHANGED disk

(* install_trans(1) *)
Recover ==
  /\ stage = "recover"
  /\ cache' = [cache EXCEPT ![lh[tail]] = logdata[tail]]
  /\ home' = [home EXCEPT ![lh[tail]] = logdata[tail]]
  /\ Advance("erase")
  /\ UNCHANGED <<logdata, head, pinned, lh, outstanding, committing, at, wrote>>

RecoverEnd ==
  /\ stage = "erase"
  /\ lh' = <<>> /\ head' = <<>>
  /\ stage' = "none"
  /\ UNCHANGED <<home, logdata, cache, pinned, outstanding, committing, at, wrote, tail>>

-----------------------------------------------------------------------------
CommitStep == WriteLog \/ WriteHead \/ Install \/ ClearHead \/ Recover \/ RecoverEnd

LogNext ==
  \/ \E t \in Thread : \/ BeginOp(t) \/ EndOp(t) \/ EndCommit(t)
                       \/ \E b \in BlockNo, x \in Value : LogWrite(t, b, x)
  \/ \E b \in BlockNo : Evict(b)
  \/ CommitStep \/ Crash

LogSpec == LogInit /\ [][LogNext]_logvars

-----------------------------------------------------------------------------
LogTypeOK ==
  /\ home \in [BlockNo -> Value] /\ cache \in [BlockNo -> Value]
  /\ logdata \in [1 .. LOGBLOCKS -> Value]
  /\ pinned \subseteq BlockNo
  /\ lh \in Seq(BlockNo) /\ head \in Seq(BlockNo)
  /\ outstanding \in 0 .. Cardinality(Thread) /\ committing \in BOOLEAN
  /\ at \in [Thread -> {"idle", "begin", "asleep", "op", "commit"}]
  /\ wrote \in [Thread -> SUBSET BlockNo]
  /\ stage \in {"none", "writelog", "writehead", "install", "clear", "done",
                "recover", "erase"}
  /\ tail \in 1 .. LOGBLOCKS

(* The log entries that the system calls under way may still fill. *)
Reserved ==
  {r \in Thread \X (1 .. MAXOPBLOCKS) : at[r[1]] = "op" /\ Cardinality(wrote[r[1]]) < r[2]}

(* Reserved space: what is in the log and what the system calls under way  *)
(* may still add fits in it, so a new block always finds a free entry.     *)
SpaceReserved == Len(lh) + Cardinality(Reserved) <= LOGBLOCKS

(* What a crash falls back to: the header's transaction laid over the homes. *)
Overlay == [b \in BlockNo |->
  IF \E i \in 1 .. Len(head) : head[i] = b
  THEN logdata[CHOOSE i \in 1 .. Len(head) : head[i] = b] ELSE home[b]]

Abstract == INSTANCE AtomicDisk WITH
  mem <- IF Up THEN cache ELSE Overlay, stable <- Overlay, ops <- outstanding

(* commit, install_trans and recover_from_log, with a crash between any    *)
(* two disk writes, implement the atomic disk.                             *)
ImplementsAtomicDisk == Abstract!Spec

(* A thread that sleeps in begin_op is woken: the end of a system call or  *)
(* of the commit it waits for is not missed.                               *)
SleepersWoken == \A t \in Thread : at[t] = "asleep" ~> at[t] # "asleep"

(* The log has room for what begin_op has admitted, and its state keeps    *)
(* its type.                                                               *)
LogSpaceSound == LogTypeOK /\ SpaceReserved

=============================================================================
