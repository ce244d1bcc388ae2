-------------------------------- MODULE Mkfs --------------------------------
(* mkfs/mkfs.c: the image the kernel boots from. A block holds BSIZE units:  *)
(* a unit of a file is a byte, a unit of the root directory an entry.        *)
EXTENDS Integers, Sequences

CONSTANTS
  BSIZE, NDIRECT, NINDIRECT,
  NMETA,      \* boot, super, log, inode and bitmap blocks
  FSSIZE,     \* blocks of the image
  Inputs      \* the files given: sequences of [name, data]

ROOTINO == 1
Meta == 0..NMETA - 1

VARIABLES
  files,      \* the files given
  taken,      \* how many of them are in the image
  inode,      \* inodes by number, ialloc'd ones in 1..freeinode-1
  block,      \* data blocks: units, or for an indirect block addresses
  freeblock,  \* first block not given out
  bitmap,     \* blocks the bitmap marks
  stage       \* "start", "files", "done" or "died"

fvars == <<files, taken, inode, block, freeblock, bitmap, stage>>

NewInode(type) == [type |-> type, nlink |-> 1, size |-> 0, addrs |-> [i \in 0..NDIRECT |-> 0]]

(* The state iappend works on, and the block it writes for file block fbn:   *)
(* given out on first use, behind the indirect block from NDIRECT on.        *)
Image == [inode |-> inode, block |-> block, free |-> freeblock]
Zeroes == [i \in 1..BSIZE |-> 0]
GivenDirect(m, ino, fbn) ==
  IF m.inode[ino].addrs[fbn] # 0 THEN [m |-> m, x |-> m.inode[ino].addrs[fbn]]
  ELSE [m |-> [m EXCEPT !.inode[ino].addrs[fbn] = m.free, !.free = @ + 1], x |-> m.free]
GivenIndirect(m, ino, fbn) ==
  LET g == GivenDirect(m, ino, NDIRECT)
      slot == fbn - NDIRECT + 1
  IN IF g.m.block[g.x][slot] # 0 THEN [m |-> g.m, x |-> g.m.block[g.x][slot]]
     ELSE [m |-> [g.m EXCEPT !.block[g.x][slot] = g.m.free, !.free = @ + 1], x |-> g.m.free]
Given(m, ino, fbn) ==
  IF fbn < NDIRECT THEN GivenDirect(m, ino, fbn) ELSE GivenIndirect(m, ino, fbn)

(* iappend: block by block, each read, filled from the file's end on and     *)
(* written. Beyond MAXFILE the assertion stops mkfs: free = -1.              *)
RECURSIVE Iappend(_, _, _)
Iappend(m, ino, data) ==
  IF data = <<>> \/ m.free = -1 THEN m
  ELSE LET off == m.inode[ino].size
           fbn == off \div BSIZE
           n1 == IF Len(data) < (fbn + 1) * BSIZE - off THEN Len(data) ELSE (fbn + 1) * BSIZE - off
           g == Given(m, ino, fbn)
           at == off - fbn * BSIZE
           filled == [i \in 1..BSIZE |-> IF i \in at + 1..at + n1 THEN data[i - at] ELSE g.m.block[g.x][i]]
       IN IF fbn >= NDIRECT + NINDIRECT THEN [m EXCEPT !.free = -1]
          ELSE Iappend([g.m EXCEPT !.block[g.x] = filled, !.inode[ino].size = off + n1],
                       ino, SubSeq(data, n1 + 1, Len(data)))

Becomes(m) == inode' = m.inode /\ block' = m.block /\ freeblock' = m.free

(* The blocks 0..used-1 are marked.                                          *)
Balloc(used) == 0..used - 1

Entry(ino, name) == <<[ino |-> ino, name |-> name]>>

FInit ==
  /\ files \in Inputs /\ taken = 0 /\ stage = "start"
  /\ inode = <<>> /\ block = [b \in NMETA..FSSIZE - 1 |-> Zeroes]
  /\ freeblock = NMETA /\ bitmap = {}

MakeRoot ==
  /\ stage = "start" /\ stage' = "files"
  /\ Becomes(Iappend(Iappend([Image EXCEPT !.inode = <<NewInode("dir")>>], ROOTINO, Entry(ROOTINO, ".")),
                     ROOTINO, Entry(ROOTINO, "..")))
  /\ UNCHANGED <<files, taken, bitmap>>

(* One round of the loop over the arguments: inode, entry, content.          *)
AddFile ==
  /\ stage = "files" /\ taken < Len(files)
  /\ LET f == files[taken + 1]
         ino == Len(inode) + 1
         m == Iappend(Iappend([Image EXCEPT !.inode = Append(inode, NewInode("file"))],
                              ROOTINO, Entry(ino, f.name)), ino, f.data)
     IN Becomes(m) /\ stage' = IF m.free = -1 THEN "died" ELSE "files"
  /\ taken' = taken + 1
  /\ UNCHANGED <<files, bitmap>>

(* The root's size is rounded up to blocks, and the bitmap is written.       *)
Finish ==
  /\ stage = "files" /\ taken = Len(files) /\ stage' = "done"
  /\ inode' = [inode EXCEPT ![ROOTINO].size = ((@ \div BSIZE) + 1) * BSIZE]
  /\ bitmap' = Balloc(freeblock)
  /\ UNCHANGED <<files, taken, block, freeblock>>

FNext == MakeRoot \/ AddFile \/ Finish
FSpec == FInit /\ [][FNext]_fvars

-----------------------------------------------------------------------------
(* What the kernel finds at file block fbn of an inode, by its own bmap.     *)
Bmap(ip, fbn) ==
  IF fbn < NDIRECT THEN ip.addrs[fbn]
  ELSE IF ip.addrs[NDIRECT] = 0 THEN 0 ELSE block[ip.addrs[NDIRECT]][fbn - NDIRECT + 1]
Content(ip, n) ==
  [i \in 1..n |-> LET b == Bmap(ip, (i - 1) \div BSIZE)
                  IN IF b \in DOMAIN block THEN block[b][((i - 1) % BSIZE) + 1] ELSE 0]
Entries == 2 + Len(files)
Owned(ip) == {<<i, ip.addrs[i]>> : i \in {j \in 0..NDIRECT : ip.addrs[j] # 0}}
  \union (IF ip.addrs[NDIRECT] = 0 THEN {}
          ELSE {<<NDIRECT + i, block[ip.addrs[NDIRECT]][i]>> :
                  i \in {j \in 1..NINDIRECT : block[ip.addrs[NDIRECT]][j] # 0}})

(* The finished image names every file given, in order after . and .., and   *)
(* the kernel reads under each name exactly the file's bytes, whichever of   *)
(* its blocks are behind the indirect block.                                 *)
ImageHoldsFiles ==
  stage = "done" =>
    LET root == Content(inode[ROOTINO], Entries)
    IN /\ SubSeq(root, 1, 2) = Entry(ROOTINO, ".") \o Entry(ROOTINO, "..")
       /\ \A i \in 1..Len(files) :
            LET ip == inode[root[i + 2].ino]
            IN root[i + 2].name = files[i].name /\ Content(ip, ip.size) = files[i].data

(* The bitmap marks the metadata and the blocks inodes own, and nothing      *)
(* else, and no block has two owners: the kernel's balloc starts from an     *)
(* image where a free bit means free.                                        *)
BitmapExact ==
  stage = "done" =>
    LET owned == {<<n, o>> : n \in 1..Len(inode), o \in UNION {Owned(inode[k]) : k \in 1..Len(inode)}}
        own == {x \in owned : x[2] \in Owned(inode[x[1]])}
    IN /\ bitmap = Meta \union {x[2][2] : x \in own}
       /\ \A x, y \in own : x[2][2] = y[2][2] => x = y
=============================================================================
