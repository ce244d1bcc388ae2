---------------------------- MODULE FsLogProofs -----------------------------
(***************************************************************************)
(* The log for every number of threads, blocks and log entries: it never   *)
(* overflows, and with its crashes and recovery it implements the atomic   *)
(* disk.                                                                   *)
(***************************************************************************)
EXTENDS FsLog, FiniteSetTheorems, TLAPS

Ops == {t \in Thread : at[t] = "op"}

-----------------------------------------------------------------------------
(* log.outstanding counts the system calls under way, and the blocks one   *)
(* has written, at most OpBlocks, are in the header.                       *)
OpsInv ==
  /\ outstanding = Cardinality(Ops)
  /\ \A t \in Thread : /\ at[t] # "op" => wrote[t] = {}
                       /\ Cardinality(wrote[t]) <= OpBlocks
                       /\ \A b \in wrote[t] : Absorbed(lh, b)

(* No system call is under way while the log is committed or recovered,    *)
(* and tail points into the header while its entries are copied.           *)
StageInv ==
  /\ committing <=> stage \in {"writelog", "writehead", "install", "clear", "done"}
  /\ Ops # {} => stage = "none"
  /\ stage \in {"writelog", "writehead", "install", "recover"} => tail <= Len(lh)
  /\ stage \notin {"writelog", "install", "recover"} => tail = 1

(* log_write absorbs: a block is in the header once.                       *)
LhInv ==
  /\ Len(lh) <= LOGBLOCKS
  /\ \A i, j \in 1 .. Len(lh) : lh[i] = lh[j] => i = j

(* The header on disk is empty until it is written, and from then on the   *)
(* one in memory, until both are erased.                                   *)
HeadInv ==
  /\ stage \in {"none", "writelog", "writehead", "done"} => head = <<>>
  /\ stage \in {"install", "clear", "recover", "erase"} => head = lh
  /\ stage = "done" => lh = <<>>

(* Write-ahead: what has been copied to the log area, and what has been    *)
(* installed from there.                                                   *)
CopyInv ==
  /\ stage = "writelog" => \A i \in 1 .. Len(lh) : i < tail => logdata[i] = cache[lh[i]]
  /\ stage \in {"writehead", "install"} => \A i \in 1 .. Len(lh) : logdata[i] = cache[lh[i]]
  /\ stage \in {"install", "recover"} =>
       \A i \in 1 .. Len(lh) : i < tail => home[lh[i]] = logdata[i]
  /\ stage \in {"clear", "erase"} => \A i \in 1 .. Len(lh) : home[lh[i]] = logdata[i]

(* Only pinned blocks differ from their homes, and they are in the part of *)
(* the log that has not been installed.                                    *)
CacheInv ==
  /\ \A b \in BlockNo : b \notin pinned => cache[b] = home[b]
  /\ \A b \in pinned : \E i \in 1 .. Len(lh) : lh[i] = b /\ (stage = "install" => tail <= i)
  /\ stage \in {"clear", "recover", "erase"} => pinned = {}

Inv ==
  /\ LogTypeOK /\ OpsInv /\ StageInv /\ LhInv /\ HeadInv /\ CopyInv /\ CacheInv
  /\ SpaceReserved

-----------------------------------------------------------------------------
(* The sets counted are finite.                                            *)
LEMMA Finite ==
  ASSUME LogAssumption, LogTypeOK
  PROVE  /\ IsFiniteSet(Ops) /\ Cardinality(Ops) \in 0 .. Cardinality(Thread)
         /\ IsFiniteSet(Reserved) /\ Cardinality(Reserved) \in Nat
         /\ \A t \in Thread : IsFiniteSet(wrote[t]) /\ Cardinality(wrote[t]) \in Nat
<1>1. IsFiniteSet(Ops) /\ Cardinality(Ops) \in 0 .. Cardinality(Thread)
  <2>1. Ops \in SUBSET Thread /\ IsFiniteSet(Thread)
    BY DEF Ops, LogAssumption
  <2>2. IsFiniteSet(Ops) /\ Cardinality(Ops) <= Cardinality(Thread)
    BY <2>1, FS_Subset
  <2>3. Cardinality(Ops) \in Nat /\ Cardinality(Thread) \in Nat
    BY <2>1, <2>2, FS_CardinalityType
  <2> QED
    BY <2>2, <2>3
<1>2. IsFiniteSet(Reserved) /\ Cardinality(Reserved) \in Nat
  <2>1. IsFiniteSet(Thread) /\ IsFiniteSet(1 .. MAXOPBLOCKS)
    BY FS_Interval DEF LogAssumption
  <2>2. IsFiniteSet(Thread \X (1 .. MAXOPBLOCKS))
    BY <2>1, FS_Product
  <2>3. Reserved \in SUBSET (Thread \X (1 .. MAXOPBLOCKS))
    BY DEF Reserved
  <2>4. IsFiniteSet(Reserved)
    BY <2>2, <2>3, FS_Subset
  <2> QED
    BY <2>4, FS_CardinalityType
<1>3. ASSUME NEW t \in Thread PROVE IsFiniteSet(wrote[t]) /\ Cardinality(wrote[t]) \in Nat
  <2>1. wrote[t] \in SUBSET BlockNo /\ IsFiniteSet(BlockNo)
    BY DEF LogTypeOK, LogAssumption
  <2>2. IsFiniteSet(wrote[t])
    BY <2>1, FS_Subset
  <2> QED
    BY <2>2, FS_CardinalityType
<1> QED
  BY <1>1, <1>2, <1>3

(* Before the first system call.                                           *)
LEMMA InitInv == ASSUME LogAssumption, LogInit PROVE Inv
<1> USE DEF LogInit, LogAssumption
<1>1. Ops = {} /\ Reserved = {}
  BY DEF Ops, Reserved
<1>2. Cardinality({}) = 0 /\ Cardinality(Thread) \in Nat
  BY FS_EmptySet, FS_CardinalityType
<1>3. LogTypeOK
  <2>1. lh \in Seq(BlockNo) /\ head \in Seq(BlockNo)
    OBVIOUS
  <2>2. outstanding \in 0 .. Cardinality(Thread) /\ tail \in 1 .. LOGBLOCKS
    BY <1>2
  <2>3. wrote \in [Thread -> SUBSET BlockNo]
    OBVIOUS
  <2> QED
    BY <2>1, <2>2, <2>3 DEF LogTypeOK
<1>4. OpsInv
  BY <1>1, <1>2 DEF OpsInv
<1>5. StageInv /\ LhInv /\ HeadInv /\ CopyInv
  BY <1>1 DEF StageInv, LhInv, HeadInv, CopyInv
<1>6. CacheInv
  BY DEF CacheInv
<1>7. SpaceReserved
  BY <1>1, <1>2 DEF SpaceReserved
<1> QED
  BY <1>3, <1>4, <1>5, <1>6, <1>7 DEF Inv

(* begin_op: a system call is let in only when the log has room for all    *)
(* the blocks that it and the ones under way may write.                    *)
LEMMA BeginOpStep == ASSUME LogAssumption, Inv, NEW t \in Thread, BeginOp(t) PROVE Inv'
<1> USE DEF LogAssumption
<1>0. CASE UNCHANGED outstanding /\ Goto(t, "asleep")
  <2>1. Ops' = Ops /\ Reserved' = Reserved
    BY <1>0 DEF BeginOp, Goto, Ops, Reserved, Inv, LogTypeOK
  <2>2. LogTypeOK'
    BY <1>0 DEF BeginOp, Goto, Inv, LogTypeOK, disk, memory
  <2>3. OpsInv' /\ StageInv' /\ SpaceReserved'
    BY <1>0, <2>1 DEF BeginOp, Goto, Inv, LogTypeOK, OpsInv, StageInv, SpaceReserved, disk, memory
  <2>4. LhInv' /\ HeadInv' /\ CopyInv' /\ CacheInv'
    BY DEF BeginOp, Inv, LhInv, HeadInv, CopyInv, CacheInv, disk, memory
  <2> QED
    BY <2>2, <2>3, <2>4 DEF Inv
<1>1. CASE ~committing /\ Goto(t, "op") /\ outstanding' = outstanding + 1
           /\ Len(lh) + (outstanding + 1) * MAXOPBLOCKS <= LOGBLOCKS
  <2>1. stage = "none"
    BY <1>1 DEF BeginOp, Up, Inv, LogTypeOK, StageInv
  <2>2. Ops' = Ops \cup {t} /\ t \notin Ops
    BY <1>1 DEF BeginOp, Goto, Ops, Inv, LogTypeOK
  <2>3. Cardinality(Ops') = outstanding + 1 /\ IsFiniteSet(Ops')
    BY <2>2, Finite, FS_AddElement DEF Inv, OpsInv
  <2>4. Cardinality(Ops') <= Cardinality(Thread) /\ Cardinality(Thread) \in Nat
    <3>1. Ops' \in SUBSET Thread
      BY <2>2 DEF Ops
    <3> QED
      BY <3>1, FS_Subset, FS_CardinalityType
  <2>5. LogTypeOK'
    BY <1>1, <2>3, <2>4 DEF BeginOp, Goto, Inv, LogTypeOK, disk, memory
  <2>6. OpsInv' /\ StageInv'
    BY <1>1, <2>1, <2>3 DEF BeginOp, Goto, Inv, LogTypeOK, OpsInv, StageInv, disk, memory
  <2>7. LhInv' /\ HeadInv' /\ CopyInv' /\ CacheInv'
    BY DEF BeginOp, Inv, LhInv, HeadInv, CopyInv, CacheInv, disk, memory
  <2>8. SpaceReserved'
    <3>1. Reserved' \in SUBSET (Ops' \X (1 .. MAXOPBLOCKS))
      BY DEF Reserved, Ops
    <3>2. IsFiniteSet(1 .. MAXOPBLOCKS) /\ Cardinality(1 .. MAXOPBLOCKS) = MAXOPBLOCKS
      BY FS_Interval
    <3>3. /\ IsFiniteSet(Ops' \X (1 .. MAXOPBLOCKS))
          /\ Cardinality(Ops' \X (1 .. MAXOPBLOCKS)) = (outstanding + 1) * MAXOPBLOCKS
      <4>1. /\ IsFiniteSet(Ops' \X (1 .. MAXOPBLOCKS))
            /\ Cardinality(Ops' \X (1 .. MAXOPBLOCKS))
                 = Cardinality(Ops') * Cardinality(1 .. MAXOPBLOCKS)
        BY <2>3, <3>2, FS_Product
      <4> QED
        BY <4>1, <2>3, <3>2
    <3>4. Cardinality(Reserved') <= (outstanding + 1) * MAXOPBLOCKS
      BY <3>1, <3>3, FS_Subset
    <3>5. Cardinality(Reserved') \in Nat
      BY <3>1, <3>3, FS_Subset, FS_CardinalityType
    <3>6. (outstanding + 1) * MAXOPBLOCKS \in Nat /\ Len(lh) \in Nat /\ lh' = lh
      BY <2>3, Finite DEF BeginOp, memory, Inv, LogTypeOK, OpsInv
    <3> QED
      BY <1>1, <3>4, <3>5, <3>6 DEF SpaceReserved
  <2> QED
    BY <2>5, <2>6, <2>7, <2>8 DEF Inv
<1> QED
  <2>1. Len(lh) \in Nat /\ outstanding \in Nat
    BY Finite DEF Inv, LogTypeOK, OpsInv
  <2> QED
    BY <2>1, <1>0, <1>1 DEF BeginOp

(* The header after log_write of b: b is in it, and in it once.            *)
LEMMA HeaderWith ==
  ASSUME LogTypeOK, LhInv, NEW b \in BlockNo, Len(lh) < LOGBLOCKS, LOGBLOCKS \in Nat,
         lh' = IF Absorbed(lh, b) THEN lh ELSE Append(lh, b)
  PROVE  /\ lh' \in Seq(BlockNo) /\ Len(lh') \in Nat /\ Len(lh) <= Len(lh')
         /\ Len(lh') <= IF Absorbed(lh, b) THEN Len(lh) ELSE Len(lh) + 1
         /\ \A i \in 1 .. Len(lh) : lh'[i] = lh[i]
         /\ \E i \in 1 .. Len(lh') : lh'[i] = b
         /\ \A i, j \in 1 .. Len(lh') : lh'[i] = lh'[j] => i = j
<1>1. CASE Absorbed(lh, b)
  BY <1>1 DEF LogTypeOK, LhInv, Absorbed
<1>2. CASE ~Absorbed(lh, b)
  <2>1. /\ lh' \in Seq(BlockNo) /\ Len(lh') = Len(lh) + 1 /\ Len(lh) \in Nat
        /\ \A i \in 1 .. Len(lh) : lh'[i] = lh[i]
        /\ lh'[Len(lh) + 1] = b
    BY <1>2 DEF LogTypeOK
  <2>2. \A i \in 1 .. Len(lh) : lh[i] # b
    BY <1>2 DEF Absorbed
  <2> QED
    BY <1>2, <2>1, <2>2 DEF LhInv
<1> QED
  BY <1>1, <1>2

(* log_write, in a system call: the block takes one of the entries that    *)
(* the call has reserved, unless it is in the header already.              *)
LEMMA LogWriteStep ==
  ASSUME LogAssumption, Inv, NEW t \in Thread, NEW b \in BlockNo, NEW x \in Value, LogWrite(t, b, x)
  PROVE  Inv'
<1> USE DEF LogAssumption
<1>1. /\ lh' \in Seq(BlockNo) /\ Len(lh') \in Nat /\ Len(lh) <= Len(lh')
      /\ Len(lh') <= IF Absorbed(lh, b) THEN Len(lh) ELSE Len(lh) + 1
      /\ \A i \in 1 .. Len(lh) : lh'[i] = lh[i]
      /\ \E i \in 1 .. Len(lh') : lh'[i] = b
      /\ \A i, j \in 1 .. Len(lh') : lh'[i] = lh'[j] => i = j
  BY HeaderWith DEF LogWrite, Inv
<1>2. Ops' = Ops /\ t \in Ops /\ stage = "none" /\ stage' = stage /\ tail' = tail
  BY DEF LogWrite, Ops, Inv, StageInv
<1>3. Len(lh) \in Nat /\ Len(lh') <= LOGBLOCKS
  BY <1>1 DEF Inv, LogTypeOK, LogWrite
<1>4. LogTypeOK'
  BY <1>1 DEF LogWrite, Inv, LogTypeOK, disk
<1>5. \A u \in Thread, c \in BlockNo : Absorbed(lh, c) => Absorbed(lh', c)
  BY <1>1, <1>3 DEF Absorbed
<1>6. OpsInv'
  <2>1. ASSUME NEW u \in Thread
        PROVE  /\ at'[u] # "op" => wrote'[u] = {}
               /\ Cardinality(wrote'[u]) <= OpBlocks
               /\ \A c \in wrote'[u] : Absorbed(lh', c)
    <3>1. CASE u = t
      <4>1. wrote'[t] = wrote[t] \cup {b} /\ at'[t] = "op"
        BY DEF LogWrite, Inv, LogTypeOK
      <4>2. Absorbed(lh', b)
        BY <1>1 DEF Absorbed
      <4> QED
        BY <3>1, <4>1, <4>2, <1>5 DEF LogWrite, Inv, OpsInv, LogTypeOK
    <3>2. CASE u # t
      BY <3>2, <1>5 DEF LogWrite, Inv, OpsInv, LogTypeOK
    <3> QED
      BY <3>1, <3>2
  <2> QED
    BY <2>1, <1>2 DEF LogWrite, Inv, OpsInv
<1>7. StageInv' /\ LhInv' /\ HeadInv' /\ CopyInv'
  BY <1>1, <1>2, <1>3 DEF LogWrite, Inv, StageInv, LhInv, HeadInv, CopyInv, disk
<1>8. CacheInv'
  <2>1. \A c \in BlockNo : c \notin pinned' => cache'[c] = home'[c]
    BY DEF LogWrite, disk, Inv, LogTypeOK, CacheInv
  <2>2. \A c \in pinned' : \E i \in 1 .. Len(lh') : lh'[i] = c
    BY <1>1, <1>3 DEF LogWrite, Inv, CacheInv
  <2> QED
    BY <2>1, <2>2, <1>2 DEF CacheInv
<1>9. SpaceReserved'
  <2>1. CASE b \in wrote[t]
    <3>1. wrote' = wrote /\ lh' = lh
      BY <2>1 DEF LogWrite, Inv, OpsInv, LogTypeOK
    <3>2. Reserved' = Reserved
      BY <3>1 DEF LogWrite, Reserved
    <3> QED
      BY <3>1, <3>2 DEF Inv, SpaceReserved
  <2>2. CASE b \notin wrote[t]
    <3> DEFINE k == Cardinality(wrote[t]) + 1
    <3>1. Cardinality(wrote[t] \cup {b}) = k /\ k \in Nat \ {0}
      <4>1. IsFiniteSet(wrote[t]) /\ Cardinality(wrote[t]) \in Nat
        BY Finite DEF Inv
      <4>2. Cardinality(wrote[t] \cup {b}) = Cardinality(wrote[t]) + 1
        BY <2>2, <4>1, FS_AddElement
      <4> QED
        BY <4>1, <4>2
    <3>2. k \in 1 .. MAXOPBLOCKS
      BY <3>1 DEF LogWrite
    <3>3. <<t, k>> \in Reserved
      <4>1. Cardinality(wrote[t]) < k
        BY Finite DEF Inv
      <4> QED
        BY <3>2, <4>1 DEF Reserved, LogWrite
    <3>4. Reserved' = Reserved \ {<<t, k>>}
      <4>1. ASSUME NEW u \in Thread, NEW n \in 1 .. MAXOPBLOCKS
            PROVE  <<u, n>> \in Reserved' <=> <<u, n>> \in Reserved /\ <<u, n>> # <<t, k>>
        <5>1. CASE u = t
          <6>1. at'[t] = "op" /\ at[t] = "op" /\ Cardinality(wrote'[t]) = k
            BY <3>1 DEF LogWrite, Inv, LogTypeOK
          <6>2. <<t, n>> \in Reserved' <=> k < n
            BY <6>1 DEF Reserved
          <6>3. <<t, n>> \in Reserved <=> k - 1 < n
            BY <6>1, Finite DEF Reserved, Inv
          <6> QED
            BY <5>1, <6>2, <6>3, <3>1, <3>2
        <5>2. CASE u # t
          BY <5>2 DEF LogWrite, Reserved, Inv, LogTypeOK
        <5> QED
          BY <5>1, <5>2
      <4>2. Reserved \subseteq Thread \X (1 .. MAXOPBLOCKS) /\ Reserved' \subseteq Thread \X (1 .. MAXOPBLOCKS)
        BY DEF Reserved
      <4> QED
        BY <4>1, <4>2
    <3>5. Cardinality(Reserved') = Cardinality(Reserved) - 1 /\ Cardinality(Reserved) \in Nat
      <4>1. IsFiniteSet(Reserved) /\ Cardinality(Reserved) \in Nat
        BY Finite DEF Inv
      <4>2. \A e \in Reserved : Cardinality(Reserved \ {e}) = Cardinality(Reserved) - 1
        BY <4>1, FS_RemoveElement
      <4>3. Cardinality(Reserved \ {<<t, k>>}) = Cardinality(Reserved) - 1
        BY <3>3, <4>2, Zenon
      <4> QED
        BY <3>4, <4>1, <4>3
    <3> QED
      BY <3>5, <1>1, <1>3 DEF Inv, SpaceReserved
  <2> QED
    BY <2>1, <2>2
<1> QED
  BY <1>4, <1>6, <1>7, <1>8, <1>9 DEF Inv

(* An eviction changes nothing: only pinned blocks differ from their homes. *)
LEMMA EvictStutters ==
  ASSUME LogAssumption, Inv, NEW b \in BlockNo, Evict(b)
  PROVE  UNCHANGED logvars
<1>1. cache' = cache
  BY DEF Evict, Inv, LogTypeOK, CacheInv
<1> QED
  BY <1>1 DEF Evict, logvars, disk, memory

(* Whatever leaves the variables alone leaves the invariant.               *)
LEMMA StutterStep == ASSUME Inv, UNCHANGED logvars PROVE Inv'
BY DEF logvars, disk, memory, Inv, LogTypeOK, OpsInv, Ops, StageInv, LhInv, HeadInv, CopyInv, CacheInv,
       SpaceReserved, Reserved

(* end_op: the last system call begins the commit.                         *)
LEMMA EndOpStep == ASSUME LogAssumption, Inv, NEW t \in Thread, EndOp(t) PROVE Inv'
<1> USE DEF LogAssumption
<1>1. t \in Ops /\ stage = "none" /\ tail = 1
  BY DEF EndOp, Ops, Inv, StageInv
<1>2. Ops' = Ops \ {t}
  BY DEF EndOp, Ops, Goto, WakeAndGoto, Inv, LogTypeOK
<1>3. Cardinality(Ops') = outstanding - 1 /\ IsFiniteSet(Ops') /\ outstanding' = outstanding - 1
  BY <1>1, <1>2, Finite, FS_RemoveElement DEF EndOp, Inv, OpsInv
<1>4. Cardinality(Ops') \in Nat /\ outstanding \in 0 .. Cardinality(Thread)
  BY <1>3, Finite, FS_CardinalityType DEF Inv, OpsInv
<1>5. outstanding = 1 => Ops' = {}
  BY <1>3, FS_EmptySet
<1>6. LogTypeOK'
  <2>1. outstanding' \in 0 .. Cardinality(Thread)
    BY <1>3, <1>4, FS_CardinalityType
  <2>2. wrote' \in [Thread -> SUBSET BlockNo]
    BY DEF EndOp, Inv, LogTypeOK
  <2>3. at' \in [Thread -> {"idle", "begin", "asleep", "op", "commit"}]
    BY DEF EndOp, Goto, WakeAndGoto, Inv, LogTypeOK
  <2> QED
    BY <2>1, <2>2, <2>3 DEF EndOp, disk, memory, Inv, LogTypeOK
<1>7. OpsInv'
  <2>1. \A u \in Thread : wrote'[u] = IF u = t THEN {} ELSE wrote[u]
    BY DEF EndOp, Inv, LogTypeOK
  <2>2. \A u \in Thread : u # t => (at'[u] # "op" => at[u] # "op")
    BY DEF EndOp, Goto, WakeAndGoto, Inv, LogTypeOK
  <2>3. Cardinality({}) = 0
    BY FS_EmptySet
  <2> QED
    BY <2>1, <2>2, <2>3, <1>3 DEF EndOp, memory, Inv, OpsInv
<1>8. StageInv'
  BY <1>1, <1>5 DEF EndOp, memory, Inv, LogTypeOK, StageInv
<1>9. LhInv' /\ HeadInv' /\ CopyInv' /\ CacheInv'
  BY <1>1 DEF EndOp, disk, memory, Inv, LogTypeOK, LhInv, HeadInv, CopyInv, CacheInv
<1>10. SpaceReserved'
  <2>1. Reserved' \in SUBSET Reserved
    BY <1>2 DEF EndOp, Goto, WakeAndGoto, Reserved, Inv, LogTypeOK
  <2>2. Cardinality(Reserved') <= Cardinality(Reserved) /\ Cardinality(Reserved') \in Nat
    BY <2>1, Finite, FS_Subset, FS_CardinalityType DEF Inv
  <2>3. Len(lh') = Len(lh) /\ Len(lh) \in Nat
    BY DEF EndOp, memory, Inv, LogTypeOK
  <2> QED
    BY <2>2, <2>3, Finite DEF Inv, SpaceReserved
<1> QED
  BY <1>6, <1>7, <1>8, <1>9, <1>10 DEF Inv

(* Steps of the commit and of the recovery that leave the header alone     *)
(* leave the accounts of the system calls.                                 *)
LEMMA SameOps ==
  ASSUME Inv, UNCHANGED <<lh, outstanding, at, wrote>>
  PROVE  OpsInv' /\ SpaceReserved' /\ LhInv' /\ Ops' = Ops
BY DEF Inv, OpsInv, Ops, SpaceReserved, Reserved, LhInv

(* write_log.                                                              *)
LEMMA WriteLogStep == ASSUME LogAssumption, Inv, WriteLog PROVE Inv'
<1> USE DEF WriteLog, Advance
<1>1. tail \in 1 .. Len(lh) /\ Len(lh) \in Nat /\ lh[tail] \in BlockNo /\ tail \in 1 .. LOGBLOCKS
  BY DEF Inv, LogTypeOK, StageInv
<1>2. OpsInv' /\ SpaceReserved' /\ LhInv' /\ Ops' = Ops
  BY SameOps DEF memory
<1>3. LogTypeOK'
  BY <1>1 DEF Inv, LogTypeOK, LhInv, memory, LogAssumption
<1>4. StageInv' /\ HeadInv'
  BY <1>1, <1>2 DEF Inv, StageInv, HeadInv, memory
<1>5. CopyInv'
  BY <1>1 DEF Inv, LogTypeOK, LhInv, CopyInv, memory
<1>6. CacheInv'
  BY DEF Inv, CacheInv, memory
<1> QED
  BY <1>2, <1>3, <1>4, <1>5, <1>6 DEF Inv

(* write_head: the commit point.                                           *)
LEMMA WriteHeadStep == ASSUME LogAssumption, Inv, WriteHead PROVE Inv'
<1> USE DEF WriteHead
<1>1. OpsInv' /\ SpaceReserved' /\ LhInv' /\ Ops' = Ops
  BY SameOps DEF memory
<1>2. LogTypeOK'
  BY DEF Inv, LogTypeOK, memory
<1>4. StageInv' /\ HeadInv'
  BY <1>1 DEF Inv, LogTypeOK, StageInv, HeadInv, memory
<1>5. CopyInv' /\ CacheInv'
  BY DEF Inv, LogTypeOK, StageInv, CopyInv, CacheInv, memory
<1> QED
  BY <1>1, <1>2, <1>4, <1>5 DEF Inv

(* install_trans in commit: an entry goes home and is unpinned.            *)
LEMMA InstallStep == ASSUME LogAssumption, Inv, Install PROVE Inv'
<1> USE DEF Install, Advance
<1>1. tail \in 1 .. Len(lh) /\ Len(lh) \in Nat /\ lh[tail] \in BlockNo /\ tail \in 1 .. LOGBLOCKS
  BY DEF Inv, LogTypeOK, StageInv
<1>2. OpsInv' /\ SpaceReserved' /\ LhInv' /\ Ops' = Ops
  BY SameOps
<1>3. logdata[tail] = cache[lh[tail]] /\ logdata[tail] \in Value
  BY <1>1 DEF Inv, LogTypeOK, CopyInv
<1>4. cache' = cache
  BY <1>3 DEF Inv, LogTypeOK
<1>5. LogTypeOK'
  BY <1>1, <1>3, <1>4 DEF Inv, LogTypeOK, LhInv, LogAssumption
<1>6. StageInv' /\ HeadInv'
  BY <1>1, <1>2 DEF Inv, StageInv, HeadInv
<1>7. \A i \in 1 .. Len(lh) : home'[lh[i]] = IF i = tail THEN logdata[tail] ELSE home[lh[i]]
  BY <1>1 DEF Inv, LogTypeOK, LhInv
<1>8. CopyInv'
  BY <1>1, <1>4, <1>7 DEF Inv, CopyInv
<1>9. CacheInv'
  <2>1. \A b \in BlockNo : b \notin pinned' => cache'[b] = home'[b]
    BY <1>1, <1>3, <1>4 DEF Inv, LogTypeOK, CacheInv
  <2>2. \A b \in pinned' : \E i \in 1 .. Len(lh) : lh[i] = b /\ tail < i
    BY <1>1 DEF Inv, CacheInv
  <2> QED
    BY <1>1, <2>1, <2>2 DEF CacheInv
<1> QED
  BY <1>2, <1>5, <1>6, <1>8, <1>9 DEF Inv

(* The second write_head of commit.                                        *)
LEMMA ClearHeadStep == ASSUME LogAssumption, Inv, ClearHead PROVE Inv'
<1> USE DEF ClearHead
<1>1. Ops' = Ops /\ Reserved' = Reserved /\ Ops = {} /\ Len(lh') = 0 /\ Len(lh) \in Nat
  BY DEF Ops, Reserved, Inv, StageInv, LogTypeOK
<1>2. \A t \in Thread : wrote[t] = {}
  BY <1>1 DEF Ops, Inv, OpsInv
<1>3. LogTypeOK'
  BY DEF Inv, LogTypeOK
<1>4. OpsInv'
  BY <1>1, <1>2 DEF Inv, OpsInv
<1>5. StageInv' /\ LhInv' /\ HeadInv' /\ CopyInv'
  BY <1>1 DEF Inv, StageInv, LhInv, HeadInv, CopyInv, LogAssumption
<1>6. CacheInv'
  BY DEF Inv, CacheInv
<1>7. SpaceReserved'
  BY <1>1, Finite DEF Inv, SpaceReserved, LogAssumption
<1> QED
  BY <1>3, <1>4, <1>5, <1>6, <1>7 DEF Inv

(* The end of the commit, in end_op.                                       *)
LEMMA EndCommitStep == ASSUME LogAssumption, Inv, NEW t \in Thread, EndCommit(t) PROVE Inv'
<1> USE DEF EndCommit, WakeAndGoto
<1>1. \A u \in Thread : at'[u] = "op" <=> at[u] = "op"
  OBVIOUS
<1>2. Ops' = Ops /\ Reserved' = Reserved /\ Ops = {}
  BY <1>1 DEF Ops, Reserved, Inv, StageInv
<1>3. LogTypeOK'
  BY DEF Inv, LogTypeOK, disk, memory
<1>4. OpsInv' /\ SpaceReserved' /\ LhInv'
  BY <1>1, <1>2 DEF Inv, OpsInv, SpaceReserved, LhInv, memory
<1>5. StageInv' /\ HeadInv' /\ CopyInv' /\ CacheInv'
  BY <1>2 DEF Inv, StageInv, HeadInv, CopyInv, CacheInv, disk, memory
<1> QED
  BY <1>3, <1>4, <1>5 DEF Inv

(* A crash: what is left is the disk.                                      *)
LEMMA CrashStep == ASSUME LogAssumption, Inv, Crash PROVE Inv'
<1> USE DEF Crash, disk
<1>1. head = <<>> \/ head = lh
  BY DEF Inv, LogTypeOK, HeadInv
<1>2. Ops' = {} /\ Reserved' = {} /\ Cardinality({}) = 0 /\ Cardinality(Thread) \in Nat
  BY FS_EmptySet, FS_CardinalityType DEF Ops, Reserved, LogAssumption
<1>3. Len(head) \in Nat /\ Len(head) <= LOGBLOCKS /\ (head # <<>> => 1 <= Len(head))
  BY <1>1 DEF Inv, LogTypeOK, LhInv, LogAssumption
<1>4. LogTypeOK'
  <2>1. outstanding' \in 0 .. Cardinality(Thread) /\ tail' \in 1 .. LOGBLOCKS
    BY <1>2 DEF LogAssumption
  <2>2. wrote' \in [Thread -> SUBSET BlockNo]
    OBVIOUS
  <2> QED
    BY <2>1, <2>2 DEF Inv, LogTypeOK
<1>5. OpsInv' /\ SpaceReserved'
  BY <1>2, <1>3 DEF OpsInv, SpaceReserved, LogAssumption
<1>6. LhInv'
  BY <1>1, <1>3 DEF Inv, LhInv
<1>7. StageInv' /\ HeadInv'
  BY <1>2, <1>3 DEF StageInv, HeadInv
<1>8. CopyInv' /\ CacheInv'
  BY DEF CopyInv, CacheInv
<1> QED
  BY <1>4, <1>5, <1>6, <1>7, <1>8 DEF Inv

(* install_trans in recovery.                                              *)
LEMMA RecoverStep == ASSUME LogAssumption, Inv, Recover PROVE Inv'
<1> USE DEF Recover, Advance
<1>1. tail \in 1 .. Len(lh) /\ Len(lh) \in Nat /\ lh[tail] \in BlockNo /\ tail \in 1 .. LOGBLOCKS
  BY DEF Inv, LogTypeOK, StageInv
<1>2. OpsInv' /\ SpaceReserved' /\ LhInv' /\ Ops' = Ops
  BY SameOps
<1>3. LogTypeOK'
  BY <1>1 DEF Inv, LogTypeOK, LhInv, LogAssumption
<1>4. StageInv' /\ HeadInv'
  BY <1>1, <1>2 DEF Inv, StageInv, HeadInv
<1>5. \A i \in 1 .. Len(lh) : home'[lh[i]] = IF i = tail THEN logdata[tail] ELSE home[lh[i]]
  BY <1>1 DEF Inv, LogTypeOK, LhInv
<1>6. CopyInv'
  BY <1>1, <1>5 DEF Inv, CopyInv
<1>7. CacheInv'
  BY <1>1 DEF Inv, LogTypeOK, CacheInv
<1> QED
  BY <1>2, <1>3, <1>4, <1>6, <1>7 DEF Inv

(* The write_head that ends recovery.                                      *)
LEMMA RecoverEndStep == ASSUME LogAssumption, Inv, RecoverEnd PROVE Inv'
<1> USE DEF RecoverEnd
<1>1. Ops' = Ops /\ Reserved' = Reserved /\ Ops = {} /\ Len(lh') = 0 /\ Len(lh) \in Nat
  BY DEF Ops, Reserved, Inv, StageInv, LogTypeOK
<1>2. \A t \in Thread : wrote[t] = {}
  BY <1>1 DEF Ops, Inv, OpsInv
<1>3. LogTypeOK'
  BY DEF Inv, LogTypeOK
<1>4. OpsInv'
  BY <1>1, <1>2 DEF Inv, OpsInv
<1>5. StageInv' /\ LhInv' /\ HeadInv' /\ CopyInv'
  BY <1>1 DEF Inv, StageInv, LhInv, HeadInv, CopyInv, LogAssumption
<1>6. CacheInv'
  BY DEF Inv, CacheInv
<1>7. SpaceReserved'
  BY <1>1, Finite DEF Inv, SpaceReserved, LogAssumption
<1> QED
  BY <1>3, <1>4, <1>5, <1>6, <1>7 DEF Inv

(* Every step keeps the invariant.                                         *)
LEMMA NextStep == ASSUME LogAssumption, Inv, [LogNext]_logvars PROVE Inv'
<1>1. CASE UNCHANGED logvars
  BY <1>1, StutterStep
<1>2. ASSUME NEW b \in BlockNo, Evict(b) PROVE Inv'
  BY <1>2, EvictStutters, StutterStep
<1>3. CASE CommitStep
  BY <1>3, WriteLogStep, WriteHeadStep, InstallStep, ClearHeadStep, RecoverStep, RecoverEndStep
     DEF CommitStep
<1> QED
  BY <1>1, <1>2, <1>3, BeginOpStep, EndOpStep, EndCommitStep, LogWriteStep, CrashStep DEF LogNext

-----------------------------------------------------------------------------
(* Blocks of a header laid over others: a block of the header comes from   *)
(* its log entry, any other from its home.                                 *)
Laid(h, d, m) == [b \in BlockNo |->
  IF \E i \in 1 .. Len(h) : h[i] = b
  THEN d[CHOOSE i \in 1 .. Len(h) : h[i] = b] ELSE m[b]]
Distinct(h) == \A i, j \in 1 .. Len(h) : h[i] = h[j] => i = j

LEMMA LaidOver ==
  ASSUME NEW h \in Seq(BlockNo), Distinct(h), NEW d, NEW m
  PROVE  /\ \A i \in 1 .. Len(h) : Laid(h, d, m)[h[i]] = d[i]
         /\ \A b \in BlockNo : (\A i \in 1 .. Len(h) : h[i] # b) => Laid(h, d, m)[b] = m[b]
<1>1. ASSUME NEW i \in 1 .. Len(h) PROVE Laid(h, d, m)[h[i]] = d[i]
  <2> DEFINE j == CHOOSE k \in 1 .. Len(h) : h[k] = h[i]
  <2>1. j \in 1 .. Len(h) /\ h[j] = h[i]
    OBVIOUS
  <2>2. j = i
    BY <2>1 DEF Distinct
  <2>3. Laid(h, d, m)[h[i]] = d[j]
    BY DEF Laid
  <2> QED
    BY <2>2, <2>3
<1> QED
  BY <1>1 DEF Laid

(* So they are another table of blocks when they agree with it.            *)
LEMMA LaidAgrees ==
  ASSUME NEW h \in Seq(BlockNo), Distinct(h), NEW d, NEW m, NEW t \in [BlockNo -> Value],
         \A i \in 1 .. Len(h) : t[h[i]] = d[i],
         \A b \in BlockNo : (\A i \in 1 .. Len(h) : h[i] # b) => t[b] = m[b]
  PROVE  Laid(h, d, m) = t
<1>1. ASSUME NEW b \in BlockNo PROVE Laid(h, d, m)[b] = t[b]
  <2>1. CASE \A i \in 1 .. Len(h) : h[i] # b
    BY <2>1, LaidOver
  <2>2. CASE \E i \in 1 .. Len(h) : h[i] = b
    BY <2>2, LaidOver
  <2> QED
    BY <2>1, <2>2
<1>2. Laid(h, d, m) = [b \in BlockNo |-> Laid(h, d, m)[b]]
  BY DEF Laid
<1> QED
  BY <1>1, <1>2

(* With nothing in the header, or with everything installed, the homes are *)
(* what a crash falls back to.                                             *)
LEMMA OverlayHome ==
  ASSUME Inv, stage \notin {"install", "recover"}
  PROVE  Overlay = home
<1>1. CASE head = <<>>
  BY <1>1 DEF Overlay, Inv, LogTypeOK
<1>2. CASE stage \in {"clear", "erase"}
  <2>1. head = lh /\ lh \in Seq(BlockNo) /\ home \in [BlockNo -> Value]
    BY <1>2 DEF Inv, LogTypeOK, HeadInv
  <2>2. Distinct(lh) /\ \A i \in 1 .. Len(lh) : home[lh[i]] = logdata[i]
    BY <1>2 DEF Inv, LhInv, CopyInv, Distinct
  <2>3. Overlay = Laid(lh, logdata, home)
    BY <2>1 DEF Overlay, Laid
  <2> QED
    BY <2>1, <2>2, <2>3, LaidAgrees
<1> QED
  BY <1>1, <1>2 DEF Inv, LogTypeOK, HeadInv

(* The commit point: once the header is written, a crash falls back to     *)
(* what the system calls have made of the blocks.                          *)
LEMMA CommitPoint == ASSUME Inv, WriteHead PROVE Overlay' = cache
<1>1. /\ lh \in Seq(BlockNo) /\ cache \in [BlockNo -> Value]
      /\ head' = lh /\ logdata' = logdata /\ home' = home
  BY DEF WriteHead, Inv, LogTypeOK
<1>2. Distinct(lh) /\ \A i \in 1 .. Len(lh) : cache[lh[i]] = logdata[i]
  BY DEF WriteHead, Inv, LhInv, CopyInv, Distinct
<1>3. \A b \in BlockNo : (\A i \in 1 .. Len(lh) : lh[i] # b) => cache[b] = home[b]
  BY DEF Inv, CacheInv
<1>4. Overlay' = Laid(lh, logdata, home)
  BY <1>1 DEF Overlay, Laid
<1> QED
  BY <1>1, <1>2, <1>3, <1>4, LaidAgrees

(* Installing a block of the header changes nothing a crash falls back to. *)
LEMMA InstallStutters == ASSUME Inv, Install \/ Recover PROVE Overlay' = Overlay
<1>1. /\ tail \in 1 .. Len(lh) /\ head = lh /\ head' = head /\ logdata' = logdata
      /\ home' = [home EXCEPT ![lh[tail]] = logdata[tail]]
  BY DEF Install, Recover, Inv, LogTypeOK, StageInv, HeadInv
<1>2. \A b \in BlockNo : (\A i \in 1 .. Len(head) : head[i] # b) => home'[b] = home[b]
  BY <1>1 DEF Inv, LogTypeOK
<1> QED
  BY <1>1, <1>2 DEF Overlay

(* Every step of the log is a step of the atomic disk or none at all.      *)
LEMMA StepRefines ==
  ASSUME LogAssumption, Inv, Inv', [LogNext]_logvars
  PROVE  [Abstract!Next]_(Abstract!avars)
<1> DEFINE mem == IF Up THEN cache ELSE Overlay
<1> USE DEF Abstract!Next, Abstract!avars
<1>1. ASSUME UNCHANGED logvars PROVE UNCHANGED <<mem, Overlay, outstanding>>
  BY <1>1 DEF logvars, disk, memory, Up, Overlay
<1>2. ASSUME NEW t \in Thread, BeginOp(t)
      PROVE Abstract!Begin \/ UNCHANGED <<mem, Overlay, outstanding>>
  BY <1>2 DEF BeginOp, Abstract!Begin, disk, memory, Up, Overlay
<1>3. ASSUME NEW t \in Thread, EndOp(t) PROVE Abstract!End
  <2>1. Up /\ Up'
    BY <1>3 DEF EndOp, Up, Inv, StageInv, Ops
  <2>2. outstanding > 0 /\ outstanding' = outstanding - 1
    <3>1. Ops # {} /\ outstanding' = outstanding - 1
      BY <1>3 DEF EndOp, Ops
    <3>2. IsFiniteSet(Ops) /\ Cardinality(Ops) \in Nat
      BY Finite DEF Inv
    <3>3. Cardinality(Ops) # 0
      BY <3>1, <3>2, FS_EmptySet
    <3> QED
      BY <3>1, <3>2, <3>3 DEF Inv, OpsInv
  <2> QED
    BY <1>3, <2>1, <2>2 DEF EndOp, Abstract!End, disk, memory, Overlay
<1>4. ASSUME NEW t \in Thread, EndCommit(t) PROVE UNCHANGED <<mem, Overlay, outstanding>>
  BY <1>4 DEF EndCommit, disk, memory, Up, Overlay
<1>5. ASSUME NEW t \in Thread, NEW b \in BlockNo, NEW x \in Value, LogWrite(t, b, x)
      PROVE Abstract!Write
  <2>1. Up /\ Up'
    BY <1>5 DEF LogWrite, Up, Inv, StageInv, Ops
  <2>2. Overlay' = Overlay /\ outstanding' = outstanding /\ outstanding > 0
    BY <1>5 DEF LogWrite, disk, Overlay, Inv, LogTypeOK
  <2>3. mem' = [mem EXCEPT ![b] = x]
    BY <1>5, <2>1 DEF LogWrite
  <2> QED
    BY <2>2, <2>3 DEF Abstract!Write
<1>6. ASSUME NEW b \in BlockNo, Evict(b) PROVE UNCHANGED <<mem, Overlay, outstanding>>
  BY <1>1, <1>6, EvictStutters
<1>7. ASSUME WriteLog PROVE UNCHANGED <<mem, Overlay, outstanding>>
  <2>1. Overlay = home /\ Overlay' = home' /\ home' = home
    <3>1. head = <<>> /\ head' = <<>> /\ home' = home
      BY <1>7 DEF WriteLog, Inv, HeadInv
    <3> QED
      BY <3>1 DEF Overlay, Inv, LogTypeOK
  <2> QED
    BY <1>7, <2>1 DEF WriteLog, Advance, memory, Up
<1>8. ASSUME WriteHead PROVE Abstract!Commit
  <2>1. outstanding = 0
    BY <1>8, FS_EmptySet DEF WriteHead, Inv, StageInv, OpsInv
  <2> QED
    BY <1>8, <2>1, CommitPoint DEF WriteHead, Abstract!Commit, memory, Up
<1>9. ASSUME Install PROVE UNCHANGED <<mem, Overlay, outstanding>>
  <2>1. cache' = cache
    BY <1>9 DEF Install, Inv, LogTypeOK, CopyInv, StageInv
  <2> QED
    BY <1>9, <2>1, InstallStutters DEF Install, Advance, Up
<1>10. ASSUME ClearHead PROVE UNCHANGED <<mem, Overlay, outstanding>>
  <2>1. Overlay = home /\ home' = home /\ Overlay' = home'
    BY <1>10, OverlayHome DEF ClearHead, Overlay, Inv, LogTypeOK
  <2> QED
    BY <1>10, <2>1 DEF ClearHead, Up
<1>11. ASSUME Recover PROVE UNCHANGED <<mem, Overlay, outstanding>>
  BY <1>11, InstallStutters DEF Recover, Advance, Up
<1>12. ASSUME RecoverEnd PROVE UNCHANGED <<mem, Overlay, outstanding>>
  <2>1. Overlay = home /\ home' = home /\ Overlay' = home'
    BY <1>12, OverlayHome DEF RecoverEnd, Overlay, Inv, LogTypeOK
  <2>2. cache = home
    BY <1>12 DEF RecoverEnd, Inv, LogTypeOK, CacheInv
  <2> QED
    BY <1>12, <2>1, <2>2 DEF RecoverEnd, Up
<1>13. ASSUME Crash PROVE Abstract!Crash
  BY <1>13 DEF Crash, Abstract!Crash, disk, Up, Overlay
<1> QED
  BY <1>1, <1>2, <1>3, <1>4, <1>5, <1>6, <1>7, <1>8, <1>9, <1>10, <1>11, <1>12, <1>13
     DEF LogNext, CommitStep

-----------------------------------------------------------------------------
(* The log never holds more than it has room for, whatever the number of   *)
(* system calls that share it: begin_op's test (log.c) reserves enough.    *)
THEOREM LogNeverOverflows == LogAssumption => (LogSpec => []LogSpaceSound)
<1> SUFFICES ASSUME LogAssumption PROVE LogSpec => []LogSpaceSound
  OBVIOUS
<1>1. LogInit => Inv
  BY InitInv
<1>2. Inv /\ [LogNext]_logvars => Inv'
  BY NextStep
<1>3. Inv => LogSpaceSound
  BY DEF Inv, LogSpaceSound
<1> QED
  BY <1>1, <1>2, <1>3, PTL DEF LogSpec

(* System calls are atomic under crashes: group commit, installation,      *)
(* a crash between any two disk writes and the recovery of initlog         *)
(* implement a disk that moves at once between states with no system call  *)
(* under way.                                                              *)
THEOREM LogIsAtomic == LogAssumption => (LogSpec => ImplementsAtomicDisk)
<1> SUFFICES ASSUME LogAssumption PROVE LogSpec => ImplementsAtomicDisk
  OBVIOUS
<1>1. LogInit => Inv
  BY InitInv
<1>2. Inv /\ [LogNext]_logvars => Inv'
  BY NextStep
<1>3. LogInit => Abstract!Init
  BY DEF LogInit, Abstract!Init, Overlay, Up
<1>4. Inv /\ Inv' /\ [LogNext]_logvars => [Abstract!Next]_(Abstract!avars)
  BY StepRefines
<1> QED
  BY <1>1, <1>2, <1>3, <1>4, PTL DEF LogSpec, ImplementsAtomicDisk, Abstract!Spec

=============================================================================
