------------------------------ MODULE FsBlocks ------------------------------
(***************************************************************************)
(* The content of files: block allocation, bmap, itrunc, readi and writei  *)
(* (src/kernel/fs.c), and the chunks in which filewrite calls writei       *)
(* (src/kernel/file.c).  Each thread has one file open.  A step is a chunk *)
(* begun, one block of it written, or a chunk finished; the inode lock is  *)
(* held from the first to the last.  A byte written is the pair of the     *)
(* call that wrote it and its place in the caller's buffer.                *)
(***************************************************************************)
EXTENDS Integers, FiniteSets, FiniteSetsExt

CONSTANTS Thread, File,
          None,        \* no thread
          NBLOCK,      \* data blocks, numbered from 1; 0 is no block
          BPB,         \* blocks described by one block of the free map
          BSIZE, NDIRECT, NINDIRECT, MAXOPBLOCKS,
          Count,       \* lengths of the writes
          MaxCalls     \* bound: calls of write and truncations

VARIABLES free, addrs, size, data, ptr, lk, of, pos, th, told, calls

vars == <<free, addrs, size, data, ptr, lk, of, pos, th, told, calls>>

Block == 1 .. NBLOCK
MAXFILE == NDIRECT + NINDIRECT
Zero == <<0, 0>>
NoData == [o \in 0 .. BSIZE - 1 |-> Zero]
NoPtr == [j \in 0 .. NINDIRECT - 1 |-> 0]
NoAddr == [j \in 0 .. NDIRECT |-> 0]
Idle == [pc |-> "idle", call |-> 0, n |-> 0, i |-> 0, n1 |-> 0, tot |-> 0,
         logged |-> {}]

Init ==
  /\ free = Block
  /\ addrs = [f \in File |-> NoAddr]
  /\ size = [f \in File |-> 0]
  /\ data = [b \in Block |-> NoData]
  /\ ptr = [b \in Block |-> NoPtr]
  /\ lk = [f \in File |-> None]
  /\ of \in [Thread -> File]
  /\ pos = [t \in Thread |-> 0]
  /\ th = [t \in Thread |-> Idle]
  /\ told = [f \in File |-> [o \in 0 .. MAXFILE * BSIZE - 1 |-> Zero]]
  /\ calls = 0

MaxChunkLong == ((MAXOPBLOCKS - 1 - 1) \div 2) * BSIZE

\* The most filewrite gives to one transaction.
MaxChunk == ((MAXOPBLOCKS - 1 - 1 - 2) \div 2) * BSIZE

\* The blocks a transaction logs.
Content(b) == <<"data", b>>
Bitmap(b) == <<"bitmap", b \div BPB>>

\* write(fd, buf, n)
Write(t, n) ==
  /\ th[t].pc = "idle" /\ calls < MaxCalls
  /\ calls' = calls + 1
  /\ th' = [th EXCEPT ![t] = [Idle EXCEPT !.pc = "begin", !.n = n,
                                          !.call = calls + 1]]
  /\ UNCHANGED <<free, addrs, size, data, ptr, lk, of, pos, told>>

\* One turn of the loop of filewrite, up to the tests of writei, which refuses
\* to leave a hole or to pass the largest file.
Chunk(t) ==
  LET f == of[t]
      n1 == Min({th[t].n - th[t].i, MaxChunk})
  IN /\ th[t].pc = "begin" /\ lk[f] = None
     /\ IF pos[t] > size[f] \/ pos[t] + n1 > MAXFILE * BSIZE
        THEN th' = [th EXCEPT ![t] = Idle] /\ UNCHANGED lk
        ELSE /\ th' = [th EXCEPT ![t].pc = "block", ![t].n1 = n1, ![t].tot = 0,
                                 ![t].logged = {}]
             /\ lk' = [lk EXCEPT ![f] = t]
     /\ UNCHANGED <<free, addrs, size, data, ptr, of, pos, told, calls>>

\* bmap of block bn of f: the indirect block, the block, and those of the two
\* that balloc has just taken; 0 where the disk is full.
Bmap(f, bn) ==
  LET indirect == bn >= NDIRECT
      Balloc(S) == IF S = {} THEN 0 ELSE Min(S)
      a == IF ~indirect THEN 0
           ELSE IF addrs[f][NDIRECT] # 0 THEN addrs[f][NDIRECT] ELSE Balloc(free)
      taken == IF indirect /\ addrs[f][NDIRECT] = 0 THEN {a} \ {0} ELSE {}
      old == IF ~indirect THEN addrs[f][bn]
             ELSE IF a = 0 \/ a \in taken THEN 0 ELSE ptr[a][bn - NDIRECT]
      b == IF old # 0 \/ (indirect /\ a = 0) THEN old ELSE Balloc(free \ taken)
  IN [ind |-> a, addr |-> b, fresh |-> taken \union ({b} \ {old, 0})]

\* Where in its block the byte at off is.
At(off) == off % BSIZE

\* Balloc zeroes what it takes; bmap enters it in the inode or in the indirect
\* block, which is then logged.
Mapped(f, bn, m) ==
  /\ free' = free \ m.fresh
  /\ addrs' = IF bn < NDIRECT THEN [addrs EXCEPT ![f][bn] = m.addr]
              ELSE [addrs EXCEPT ![f][NDIRECT] = m.ind]
  /\ ptr' = [b \in Block |->
               LET p == IF b \in m.fresh THEN NoPtr ELSE ptr[b] IN
               IF b = m.ind /\ m.addr # 0
               THEN [p EXCEPT ![bn - NDIRECT] = m.addr] ELSE p]

\* One turn of the loop of writei.  It ends early if the disk is full, or if
\* the user's memory cannot be read after the first k bytes.
WriteBlock(t) ==
  LET f == of[t]
      c == th[t]
      off == pos[t] + c.tot
      bn == off \div BSIZE
      m == Bmap(f, bn)
      len == Min({c.n1 - c.tot, BSIZE - At(off)})
      base == [b \in Block |-> IF b \in m.fresh THEN NoData ELSE data[b]]
      noted == {Content(b) : b \in m.fresh} \union {Bitmap(b) : b \in m.fresh}
               \union (IF m.addr \in m.fresh /\ m.ind # 0
                       THEN {Content(m.ind)} ELSE {})
      Copy(k) ==
        /\ data' = [base EXCEPT ![m.addr] = [o \in 0 .. BSIZE - 1 |->
              IF o \in At(off) .. At(off) + k - 1
              THEN <<c.call, c.i + c.tot + o - At(off)>> ELSE @[o]]]
        /\ told' = [told EXCEPT ![f] = [o \in DOMAIN @ |->
              IF o \in off .. off + k - 1
              THEN <<c.call, c.i + c.tot + o - off>> ELSE @[o]]]
  IN /\ c.pc = "block" /\ c.tot < c.n1
     /\ Mapped(f, bn, m)
     /\ \/ /\ m.addr = 0
           /\ th' = [th EXCEPT ![t].pc = "done", ![t].logged = @ \union noted]
           /\ data' = base /\ UNCHANGED told
        \/ /\ m.addr # 0
           /\ Copy(len)
           /\ th' = [th EXCEPT ![t].tot = @ + len,
                               ![t].logged = @ \union noted \union {Content(m.addr)}]
        \/ /\ m.addr # 0
           /\ \E k \in 0 .. len - 1 : Copy(k)
           /\ th' = [th EXCEPT ![t].pc = "done", ![t].logged = @ \union noted]
     /\ UNCHANGED <<size, lk, of, pos, calls>>

\* The end of writei and of the turn of filewrite: the size and the inode, the
\* offset of the open file, and whether another chunk follows.
WriteEnd(t) ==
  LET f == of[t]
      c == th[t]
      more == c.tot = c.n1 /\ c.i + c.tot < c.n
  IN /\ c.pc = "done" \/ (c.pc = "block" /\ c.tot = c.n1)
     /\ size' = [size EXCEPT ![f] = Max({@, pos[t] + c.tot})]
     /\ pos' = [pos EXCEPT ![t] = @ + c.tot]
     /\ lk' = [lk EXCEPT ![f] = None]
     /\ th' = [th EXCEPT ![t] = [@ EXCEPT !.pc = IF more THEN "begin" ELSE "idle",
                                          !.i = @ + c.tot,
                                          !.logged = @ \union {<<"inode", f>>}]]
     /\ UNCHANGED <<free, addrs, data, ptr, of, told, calls>>

\* The blocks of f: its direct ones, those its indirect block lists, and that.
Direct(f) == {addrs[f][j] : j \in 0 .. NDIRECT - 1}
Listed(f) == IF addrs[f][NDIRECT] = 0 THEN {}
             ELSE {ptr[addrs[f][NDIRECT]][j] : j \in 0 .. NINDIRECT - 1}

\* What itrunc frees.
Freed(f) == (Direct(f) \union Listed(f) \union {addrs[f][NDIRECT]}) \ {0}

\* open with O_TRUNC: the descriptor is at the start of an empty file.
Itrunc(t) ==
  LET f == of[t] IN
  /\ th[t].pc = "idle" /\ calls < MaxCalls /\ lk[f] = None
  /\ calls' = calls + 1
  /\ free' = free \union Freed(f)
  /\ addrs' = [addrs EXCEPT ![f] = NoAddr]
  /\ size' = [size EXCEPT ![f] = 0]
  /\ pos' = [pos EXCEPT ![t] = 0]
  /\ told' = [told EXCEPT ![f] = [o \in DOMAIN @ |-> Zero]]
  /\ UNCHANGED <<data, ptr, lk, of, th>>

Next ==
  \E t \in Thread :
    \/ \E n \in Count : Write(t, n)
    \/ Chunk(t) \/ WriteBlock(t) \/ WriteEnd(t) \/ Itrunc(t)

Spec == Init /\ [][Next]_vars

\* The block of byte off of f as readi finds it, without bmap's allocation.
BlockOf(f, off) ==
  LET bn == off \div BSIZE IN
  IF bn < NDIRECT THEN addrs[f][bn]
  ELSE IF addrs[f][NDIRECT] = 0 THEN 0
  ELSE ptr[addrs[f][NDIRECT]][bn - NDIRECT]

\* readi: the n bytes at off, cut at the end of the file.
Readi(f, off, n) ==
  IF off > size[f] THEN <<>>
  ELSE [k \in 1 .. Min({n, size[f] - off}) |->
          data[BlockOf(f, off + k - 1)][At(off + k - 1)]]

-----------------------------------------------------------------------------

BlocksTypeOK ==
  /\ free \subseteq Block
  /\ addrs \in [File -> [0 .. NDIRECT -> Block \union {0}]]
  /\ size \in [File -> 0 .. MAXFILE * BSIZE]
  /\ ptr \in [Block -> [0 .. NINDIRECT - 1 -> Block \union {0}]]
  /\ lk \in [File -> Thread \union {None}]
  /\ pos \in [Thread -> 0 .. MAXFILE * BSIZE]

\* A file reads as the bytes last written to each place of it, at any offset,
\* whatever blocks it was given, however the writes of two threads and their
\* chunks interleave, and after writes that failed half way.
ReadsWhatWasWritten ==
  \A f \in File : \A off \in 0 .. size[f] :
    Readi(f, off, 3) = [k \in 1 .. Min({3, size[f] - off}) |->
                          told[f][off + k - 1]]

\* The free map is exact: every block is free or is in one place of one file,
\* also when bmap gets the indirect block and then no block for the data.
BlocksAccounted ==
  LET Used(f) == (Direct(f) \union Listed(f) \union {addrs[f][NDIRECT]}) \ {0}
      places(f) == Cardinality({j \in 0 .. NDIRECT : addrs[f][j] # 0})
                   + (IF addrs[f][NDIRECT] = 0 THEN 0
                      ELSE Cardinality({j \in 0 .. NINDIRECT - 1 :
                                          ptr[addrs[f][NDIRECT]][j] # 0}))
  IN /\ UNION {Used(f) : f \in File} = Block \ free
     /\ \A f, g \in File : f # g => Used(f) \cap Used(g) = {}
     /\ \A f \in File : Cardinality(Used(f)) = places(f)

\* "write a few blocks at a time to avoid exceeding the maximum log
\* transaction size" (file.c): no chunk logs more blocks than begin_op has
\* reserved for it, not even one that starts inside a block and needs an
\* indirect block.
ChunkFits == \A t \in Thread : Cardinality(th[t].logged) <= MAXOPBLOCKS
=============================================================================
