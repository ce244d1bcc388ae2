------------------------------- MODULE Kalloc -------------------------------
(***************************************************************************)
(* The physical page allocator (kernel/kalloc.c): the address-ordered list *)
(* of free blocks, the reference counts, the reverse map and compaction.   *)
(* Addresses are page frame numbers, so PA2IDX is the identity and         *)
(* ref_count is indexed by the frame, while reverse_map is indexed by the  *)
(* frame relative to KERNBASE, exactly as in the code.                     *)
(* One critical section of kmem.lock is one step.  compact_memory holds    *)
(* the lock across its loop, one step per iteration; the lock is held      *)
(* exactly while curr # 0.                                                 *)
(***************************************************************************)
EXTENDS Integers, FiniteSets, SequencesExt

CONSTANTS
  KERNBASE,   \* first frame of RAM
  end,        \* first frame after the kernel image
  PHYSTOP,    \* first frame after RAM
  Thread,     \* kernel threads; each has one user page table
  Sizes,      \* the block sizes requested
  NoTable,    \* reverse_map[i].pagetable = 0
  Shared      \* reverse_map[i].pagetable = -1

ASSUME LayoutAssumption ==
  /\ KERNBASE \in Nat /\ end \in Nat /\ PHYSTOP \in Nat
  /\ KERNBASE <= end /\ end < PHYSTOP
  /\ PHYSTOP - KERNBASE <= KERNBASE      \* memlayout.h: 128 MB of RAM at 2 GB
  /\ Sizes \subseteq Nat \ {0} /\ IsFiniteSet(Thread)
  /\ NoTable \notin Thread /\ Shared \notin Thread /\ NoTable # Shared

VARIABLES
  freelist,     \* kmem.freelist, the linked list as a sequence of blocks
  ref_count,    \* per frame
  reverse_map,  \* page table recorded for a frame, relative to KERNBASE
  hold,         \* the references each thread's tables and variables hold
  op,           \* the call each thread is in the middle of
  curr          \* compact_memory's cursor, 0 when no compaction runs

vars == <<freelist, ref_count, reverse_map, hold, op, curr>>

Page == end .. PHYSTOP - 1
Frame == 0 .. PHYSTOP - 1
Block(pa, n) == [pa |-> pa, num_pages |-> n]
Pages(b) == b.pa .. b.pa + b.num_pages - 1
FreePages == UNION {Pages(freelist[i]) : i \in 1 .. Len(freelist)}

Idle == [kind |-> "idle"]
Freeing(b) == [kind |-> "kfree", block |-> b]
Sharing(u, pa) == [kind |-> "share", to |-> u, pa |-> pa]

Init ==
  /\ freelist = <<Block(end, PHYSTOP - end)>>
  /\ ref_count = [f \in Frame |-> 0]
  /\ reverse_map = [i \in 0 .. PHYSTOP - KERNBASE - 1 |-> NoTable]
  /\ hold = [t \in Thread |-> {}]
  /\ op = [t \in Thread |-> Idle]
  /\ curr = 0

-----------------------------------------------------------------------------
(* kalloc_contig *)

(* Where the search of kalloc_contig stops: the smallest block that is     *)
(* large enough, the lowest one among equals.                              *)
BestFit(n, k) ==
  /\ freelist[k].num_pages >= n
  /\ \A j \in 1 .. Len(freelist) : freelist[j].num_pages >= n =>
       \/ freelist[k].num_pages < freelist[j].num_pages
       \/ freelist[k].num_pages = freelist[j].num_pages /\ k <= j

(* Faulty variant: the split remainder keeps the size of the whole block. *)
CarveKeepsSize(n, k) ==
  LET b == freelist[k]
  IN  IF b.num_pages = n
      THEN RemoveAt(freelist, k)
      ELSE [freelist EXCEPT ![k].pa = @ + n]

(* The list once n pages are cut from the low end of block k. *)
Carve(n, k) ==
  LET b == freelist[k]
  IN  IF b.num_pages = n
      THEN RemoveAt(freelist, k)
      ELSE [freelist EXCEPT ![k] = Block(b.pa + n, b.num_pages - n)]

KallocContig(t, n) ==
  /\ curr = 0 /\ op[t] = Idle
  /\ \E k \in 1 .. Len(freelist) :
       LET got == Pages(Block(freelist[k].pa, n))
       IN  /\ BestFit(n, k)
           /\ freelist' = Carve(n, k)
           /\ ref_count' = [f \in Frame |-> IF f \in got THEN 1 ELSE ref_count[f]]
           /\ hold' = [hold EXCEPT ![t] = @ \cup got]
  /\ UNCHANGED <<reverse_map, op, curr>>

-----------------------------------------------------------------------------
(* The reverse map: entries are written without kmem.lock. *)

Rmap(pa) == reverse_map[pa - KERNBASE]

RecordRmap(pa, t) ==
  reverse_map' = [reverse_map EXCEPT ![pa - KERNBASE] =
                    IF @ = NoTable THEN t ELSE IF @ # t THEN Shared ELSE @]

(* mappages of a freshly allocated page as user memory. *)
MapUser(t, pa) ==
  /\ op[t] = Idle /\ pa \in hold[t] /\ Rmap(pa) = NoTable
  /\ ref_count[pa] = 1
  /\ RecordRmap(pa, t)
  /\ UNCHANGED <<freelist, ref_count, hold, op, curr>>

(* uvmcopy of one page: mappages into the child's table, then incref. *)
ShareMap(t, u, pa) ==
  /\ op[t] = Idle /\ t # u
  /\ \A v \in Thread : op[v].kind = "share" => op[v].to # u
  /\ pa \in hold[t] \ hold[u] /\ Rmap(pa) # NoTable
  /\ RecordRmap(pa, u)
  /\ op' = [op EXCEPT ![t] = Sharing(u, pa)]
  /\ UNCHANGED <<freelist, ref_count, hold, curr>>

Incref(t) ==
  /\ curr = 0 /\ op[t].kind = "share"
  /\ ref_count' = [ref_count EXCEPT ![op[t].pa] = @ + 1]
  /\ hold' = [hold EXCEPT ![op[t].to] = @ \cup {op[t].pa}]
  /\ op' = [op EXCEPT ![t] = Idle]
  /\ UNCHANGED <<freelist, reverse_map, curr>>

(* decref, called by vmfault once a private copy has replaced a shared     *)
(* page.  The getref that justified the call ran in an earlier critical    *)
(* section, so the count may meanwhile be 1; the page is not freed then.   *)
Decref(t, pa) ==
  /\ curr = 0 /\ op[t] = Idle
  /\ pa \in hold[t] /\ Rmap(pa) = Shared
  /\ ref_count' = [ref_count EXCEPT ![pa] = @ - 1]
  /\ hold' = [hold EXCEPT ![t] = @ \ {pa}]
  /\ UNCHANGED <<freelist, reverse_map, op, curr>>

-----------------------------------------------------------------------------
(* kfree_contig *)

(* First critical section.  Blocks of several pages must be unshared, or   *)
(* the kernel panics: that is the caller's obligation.                     *)
KfreeBegin(t, b) ==
  /\ curr = 0 /\ op[t] = Idle
  /\ Pages(b) \subseteq hold[t]
  /\ b.num_pages > 1 => \A f \in Pages(b) : ref_count[f] = 1
  /\ ref_count' = [f \in Frame |-> ref_count[f] - IF f \in Pages(b) THEN 1 ELSE 0]
  /\ hold' = [hold EXCEPT ![t] = @ \ Pages(b)]
  /\ op' = IF ref_count[b.pa] > 1 THEN op ELSE [op EXCEPT ![t] = Freeing(b)]
  /\ UNCHANGED <<freelist, reverse_map, curr>>

(* The place of block b in the address order of list fl. *)
InsertPos(fl, b) ==
  CHOOSE k \in 1 .. Len(fl) + 1 :
    /\ \A j \in 1 .. k - 1 : fl[j].pa < b.pa
    /\ k <= Len(fl) => fl[k].pa >= b.pa

(* Block k absorbs its right neighbour when they touch. *)
Coalesce(fl, k) ==
  IF k \in 1 .. Len(fl) - 1 /\ fl[k].pa + fl[k].num_pages = fl[k + 1].pa
  THEN RemoveAt([fl EXCEPT ![k] = Block(fl[k].pa, fl[k].num_pages + fl[k + 1].num_pages)],
                k + 1)
  ELSE fl

(* Faulty variant: only the right neighbour is merged. *)
InsertBlockRightOnly(fl, b) ==
  LET k == InsertPos(fl, b)
  IN  Coalesce(InsertAt(fl, k, b), k)

InsertBlock(fl, b) ==
  LET k == InsertPos(fl, b)
  IN  Coalesce(Coalesce(InsertAt(fl, k, b), k), k - 1)

(* The unlocked clear_rmap and memset, then the second critical section.   *)
(* Nobody references the pages any more, so no other thread touches their  *)
(* contents or their reverse-map entries in between.                       *)
KfreeEnd(t) ==
  /\ curr = 0 /\ op[t].kind = "kfree"
  /\ freelist' = InsertBlock(freelist, op[t].block)
  /\ reverse_map' = [i \in DOMAIN reverse_map |->
        IF i + KERNBASE \in Pages(op[t].block) THEN NoTable ELSE reverse_map[i]]
  /\ op' = [op EXCEPT ![t] = Idle]
  /\ UNCHANGED <<ref_count, hold, curr>>

-----------------------------------------------------------------------------
(* compact_memory *)

CompactBegin ==
  /\ curr = 0 /\ freelist # <<>>
  /\ curr' = 1
  /\ UNCHANGED <<freelist, ref_count, reverse_map, hold, op>>

(* Faulty variant: the count is looked up with the frame number. *)
MovableByFrame(used) ==
  reverse_map[used - KERNBASE] \in Thread /\ ref_count[used] = 1

(* The guard of the move.  The count is looked up with the index of the    *)
(* reverse map, as the code does.                                          *)
Movable(used) ==
  LET pfn_used == used - KERNBASE
  IN  reverse_map[pfn_used] \in Thread /\ ref_count[pfn_used] = 1

(* The used page and the hole change places: counts, contents and page     *)
(* table entry, reverse map, and the hole's place in the list.             *)
Shift(k, used) ==
  LET hole == freelist[k].pa
      t == Rmap(used)
  IN  /\ freelist' = Coalesce([freelist EXCEPT ![k].pa = @ + 1], k)
      /\ ref_count' = [ref_count EXCEPT ![hole] = ref_count[used],
                                        ![used] = ref_count[hole]]
      /\ hold' = [hold EXCEPT ![t] = (@ \ {used}) \cup {hole}]
      /\ reverse_map' = [reverse_map EXCEPT ![hole - KERNBASE] = t,
                                            ![used - KERNBASE] = NoTable]

(* One iteration of the loop at block curr. *)
CompactStep ==
  LET used == freelist[curr].pa + freelist[curr].num_pages
      next == IF curr < Len(freelist) THEN curr + 1 ELSE 0
      touching == curr < Len(freelist) /\ freelist[curr + 1].pa = used
      move == used < PHYSTOP /\ ~touching /\ Movable(used)
  IN  /\ curr # 0
      /\ curr' = IF used >= PHYSTOP THEN 0 ELSE IF move THEN 1 ELSE next
      /\ IF move THEN Shift(curr, used)
                 ELSE UNCHANGED <<freelist, ref_count, reverse_map, hold>>
      /\ UNCHANGED op

-----------------------------------------------------------------------------
Next ==
  \/ \E t \in Thread, n \in Sizes :
       \/ KallocContig(t, n)
       \/ \E pa \in Page : KfreeBegin(t, Block(pa, n))
  \/ \E t \in Thread, pa \in Page :
       MapUser(t, pa) \/ Decref(t, pa) \/ \E u \in Thread : ShareMap(t, u, pa)
  \/ \E t \in Thread : Incref(t) \/ KfreeEnd(t)
  \/ CompactBegin
  \/ CompactStep

Spec == Init /\ [][Next]_vars

-----------------------------------------------------------------------------
TypeOK ==
  /\ freelist \in Seq([pa : Page, num_pages : Nat \ {0}])
  /\ ref_count \in [Frame -> Nat]
  /\ reverse_map \in [0 .. PHYSTOP - KERNBASE - 1 -> Thread \cup {NoTable, Shared}]
  /\ hold \in [Thread -> SUBSET Page]
  /\ curr \in 0 .. Len(freelist)

(* The free list stays ordered by address and fully coalesced: consecutive *)
(* blocks never overlap and never even touch, whatever the order of the    *)
(* splits of kalloc_contig and the insertions of kfree_contig.             *)
FreeListOrdered ==
  \A i \in 1 .. Len(freelist) :
    LET after == freelist[i].pa + freelist[i].num_pages
    IN  /\ after <= PHYSTOP
        /\ i < Len(freelist) => after < freelist[i + 1].pa

(* ref_count is exact: it is the number of threads whose tables refer to   *)
(* the page, through allocation, sharing, decref and both halves of kfree. *)
RefCountExact ==
  \A pa \in Page : ref_count[pa] = Cardinality({t \in Thread : pa \in hold[t]})

LimboPages == UNION {Pages(op[t].block) : t \in {u \in Thread : op[u].kind = "kfree"}}

(* The allocator with its list and its two-step free implements the        *)
(* abstract page pool: pages handed out are free ones, a page reaches the  *)
(* list only after its last reference is gone, compaction changes nothing. *)
Refs == INSTANCE PageRefs WITH
  free <- FreePages, ref <- [p \in Page |-> ref_count[p]], limbo <- LimboPages
ImplementsPageRefs == Refs!Spec

(* No page that is free, or that a kfree is about to insert, is referenced *)
(* by anyone.                                                              *)
FreeUnreferenced == Refs!FreeUnreferenced

(* A reverse-map entry that names one page table is the truth: no other    *)
(* table refers to the page (compact_memory rewrites only that table).     *)
RmapSound ==
  \A pa \in Page, t \in Thread : Rmap(pa) \in Thread /\ pa \in hold[t] => Rmap(pa) = t

(* compact_memory never relocates a page: its guard looks up ref_count     *)
(* with a frame number relative to KERNBASE, below every allocatable page. *)
CompactionNeverRelocates ==
  [][curr # 0 => UNCHANGED <<freelist, ref_count, hold>>]_vars

(* The allocator is sound: the statements above on its list, its counts     *)
(* and its reverse map, together.                                          *)
AllocatorSound ==
  TypeOK /\ FreeListOrdered /\ RefCountExact /\ FreeUnreferenced /\ RmapSound

(* What compaction is for (kalloc.c:253, "Only compact unshared pages for  *)
(* safety"; README.md, "Eliminates external fragmentation"): when it is    *)
(* done, no hole is followed by an unshared page that could be moved down. *)
CompactionClosesHoles ==
  [][curr # 0 /\ curr' = 0 =>
       \A i \in 1 .. Len(freelist') :
         LET used == freelist'[i].pa + freelist'[i].num_pages
         IN  used < PHYSTOP => ~(Rmap(used) \in Thread /\ ref_count[used] = 1)]_vars

=============================================================================
