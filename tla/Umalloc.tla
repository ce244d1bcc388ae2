------------------------------ MODULE Umalloc ------------------------------
(* The allocator of user/umalloc.c: a ring of free blocks ordered by address *)
(* that grows by sbrk. Memory is counted in headers; address 0 is the static *)
(* header base, which lies below the heap, and address 1 starts the heap.    *)
EXTENDS Integers, FiniteSets, Sequences

CONSTANTS
  Top,        \* headers the process can reach before sbrk fails
  MINCORE,    \* headers morecore asks for at least (4096)
  Units,      \* sizes asked for, in headers with the block's own
  MaxOps      \* calls made

VARIABLES
  h,          \* the ring: ptr and size by header, and freep (-1 before the first malloc)
  brk,        \* the next address sbrk would give
  live,       \* blocks handed out: header and size promised
  foreign,    \* headers of memory the program took with sbrk itself
  ops

wvars == <<h, brk, live, foreign, ops>>

Base == 0
Addr == 0..Top

(* The place of bp in the ring: the block before it, or the last one when bp *)
(* is below the first or above the last.                                     *)
RECURSIVE Seek(_, _, _)
Seek(r, bp, p) ==
  LET next == r.ptr[p] IN
  IF (bp > p /\ bp < next) \/ (p >= next /\ (bp > p \/ bp < next)) THEN p ELSE Seek(r, bp, next)

(* free joins the block to the one after it, then to the one before it.      *)
JoinsNone(r, p, bp) == FALSE
Joins(r, p, bp) == p + r.size[p] = bp
Free(r, bp) ==
  LET p == Seek(r, bp, r.freep)
      next == r.ptr[p]
      up == IF bp + r.size[bp] = next
            THEN [r EXCEPT !.size[bp] = @ + r.size[next], !.ptr[bp] = r.ptr[next]]
            ELSE [r EXCEPT !.ptr[bp] = next]
      low == IF Joins(up, p, bp)
             THEN [up EXCEPT !.size[p] = @ + up.size[bp], !.ptr[p] = up.ptr[bp]]
             ELSE [up EXCEPT !.ptr[p] = bp]
  IN [low EXCEPT !.freep = p]

Asked(n) == IF n < MINCORE THEN MINCORE ELSE n

(* The search from freep round the ring, with morecore when it comes back.   *)
(* A block larger than asked is cut at its end. Returns the ring, the break  *)
(* and the header found, or -1.                                              *)
Cut(r, p, n) == [r EXCEPT !.size[p] = @ - n, !.size[p + r.size[p] - n] = n]
RECURSIVE Search(_, _, _, _, _)
Search(r, b, n, prevp, p) ==
  IF r.size[p] = n THEN [r |-> [r EXCEPT !.ptr[prevp] = r.ptr[p], !.freep = prevp], b |-> b, at |-> p]
  ELSE IF r.size[p] > n
  THEN [r |-> [Cut(r, p, n) EXCEPT !.freep = prevp], b |-> b, at |-> p + r.size[p] - n]
  ELSE IF p # r.freep THEN Search(r, b, n, p, r.ptr[p])
  ELSE IF b + Asked(n) > Top + 1 THEN [r |-> r, b |-> b, at |-> -1]
  ELSE LET m == Free([r EXCEPT !.size[b] = Asked(n)], b)
       IN Search(m, b + Asked(n), n, m.freep, m.ptr[m.freep])

Started(r) ==
  IF r.freep = -1 THEN [r EXCEPT !.ptr[Base] = Base, !.size[Base] = 0, !.freep = Base] ELSE r

WInit ==
  /\ h = [ptr |-> [a \in Addr |-> 0], size |-> [a \in Addr |-> 0], freep |-> -1]
  /\ brk = 1 /\ live = {} /\ foreign = {} /\ ops = 0

Malloc ==
  /\ \E n \in Units :
       LET r == Started(h)
           s == Search(r, brk, n, r.freep, r.ptr[r.freep])
       IN /\ h' = s.r /\ brk' = s.b
          /\ live' = IF s.at = -1 THEN live ELSE live \union {<<s.at, n>>}
  /\ UNCHANGED foreign

FreeOne ==
  /\ \E x \in live : h' = Free(h, x[1]) /\ live' = live \ {x}
  /\ UNCHANGED <<brk, foreign>>

(* The program takes memory with sbrk, so that the next morecore does not    *)
(* continue the heap.                                                        *)
OwnSbrk ==
  /\ brk <= Top /\ foreign' = foreign \union {brk} /\ brk' = brk + 1
  /\ UNCHANGED <<h, live>>

WNext == ops < MaxOps /\ ops' = ops + 1 /\ (Malloc \/ FreeOne \/ OwnSbrk)
WSpec == WInit /\ [][WNext]_wvars

-----------------------------------------------------------------------------
RECURSIVE Ring(_, _)
Ring(p, seen) == IF h.ptr[p] = Base \/ h.ptr[p] \in seen THEN seen \union {p}
                 ELSE Ring(h.ptr[p], seen \union {p})
FreeBlocks == IF h.freep = -1 THEN {} ELSE Ring(Base, {Base}) \ {Base}
Span(a, n) == a..a + n - 1

(* Every header of the heap is in exactly one block, free or handed out with *)
(* the size asked for: no block is given twice, overlaps another or is lost, *)
(* also after splits, joins and a heap with gaps.                            *)
EachHeaderOnce ==
  LET blocks == {<<a, h.size[a]>> : a \in FreeBlocks} \union live
  IN /\ \A x, y \in blocks : x # y => Span(x[1], x[2]) \intersect Span(y[1], y[2]) = {}
     /\ UNION {Span(x[1], x[2]) : x \in blocks} = (1..brk - 1) \ foreign
     /\ \A x \in live : h.size[x[1]] = x[2]

(* The free blocks form one ring in address order from base, and no two of   *)
(* them touch: free always joins neighbours, so a request that fits in free  *)
(* contiguous memory never asks for more.                                    *)
RingJoined ==
  /\ \A a \in FreeBlocks \union (IF h.freep = -1 THEN {} ELSE {Base}) :
       LET above == {b \in FreeBlocks : b > a}
       IN h.ptr[a] = IF above = {} THEN Base ELSE CHOOSE b \in above : \A c \in above : b <= c
  /\ \A a, b \in FreeBlocks : a + h.size[a] # b
  /\ h.freep # -1 => h.freep \in FreeBlocks \union {Base}
=============================================================================
