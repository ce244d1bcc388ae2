---------------------------- MODULE KallocProofs ----------------------------
(***************************************************************************)
(* Proofs about the page allocator for every memory layout that satisfies  *)
(* LayoutAssumption, every set of threads and every set of request sizes.  *)
(***************************************************************************)
EXTENDS Kalloc, WellFoundedInduction, SequenceTheorems, FiniteSetTheorems, TLAPS

(* A block inside the allocatable memory. *)
BlockT == {b \in [pa : Page, num_pages : Nat \ {0}] : b.pa + b.num_pages <= PHYSTOP}

OpT == {Idle} \cup {Freeing(b) : b \in BlockT}
              \cup {Sharing(u, pa) : u \in Thread, pa \in Page}

(* The inductive invariant: the list holds blocks of allocatable memory,   *)
(* the calls under way name such blocks and pages, and the frames below    *)
(* the first allocatable one have never been counted.                      *)
LowInv ==
  /\ freelist \in Seq(BlockT)
  /\ ref_count \in [Frame -> Int]
  /\ hold \in [Thread -> SUBSET Page]
  /\ op \in [Thread -> OpT]
  /\ curr \in 0 .. Len(freelist)
  /\ \A f \in Frame : f < end => ref_count[f] = 0

(* RemoveAt, as kalloc_contig and the coalescing use it, keeps the element *)
(* type of a list.                                                         *)
LEMMA RemoveAtType ==
  ASSUME NEW S, NEW s \in Seq(S), NEW k \in 1 .. Len(s)
  PROVE  RemoveAt(s, k) \in Seq(S)
  BY DEF RemoveAt

(* InsertAt, as kfree_contig uses it, keeps the element type of a list. *)
LEMMA InsertAtType ==
  ASSUME NEW S, NEW s \in Seq(S), NEW k \in 1 .. Len(s) + 1, NEW e \in S
  PROVE  InsertAt(s, k, e) \in Seq(S)
  BY DEF InsertAt

(* What a block constructor and a block of the type say of each other. *)
LEMMA BlockType ==
  /\ \A pa \in Page, n \in Nat \ {0} : pa + n <= PHYSTOP => Block(pa, n) \in BlockT
  /\ \A b \in BlockT : /\ b.pa \in Page /\ b.num_pages \in Nat \ {0}
                       /\ b.pa + b.num_pages <= PHYSTOP
  <1>1. ASSUME NEW pa \in Page, NEW n \in Nat \ {0}, pa + n <= PHYSTOP
        PROVE  Block(pa, n) \in BlockT
    <2>1. Block(pa, n) \in [pa : Page, num_pages : Nat \ {0}]
      BY DEF Block
    <2>2. Block(pa, n).pa + Block(pa, n).num_pages <= PHYSTOP
      BY <1>1 DEF Block
    <2>3. QED
      BY <2>1, <2>2 DEF BlockT
  <1>2. QED
    BY <1>1 DEF BlockT

(* Sizes of adjacent blocks add up, and a block's size can be split.       *)
LEMMA Extents ==
  /\ \A a, m, c, n \in Nat : a + m = c => a + (m + n) = c + n
  /\ \A a, m, n \in Nat : n <= m => m - n \in Nat /\ (a + n) + (m - n) = a + m
  /\ \A a, m, n, l, h \in Nat : n < m /\ l <= a /\ a + m <= h => a + n \in l .. h - 1
  OBVIOUS

(* Merging two neighbours that touch yields a block of allocatable memory. *)
LEMMA CoalesceType ==
  ASSUME NEW fl \in Seq(BlockT), NEW k \in Int
  PROVE  Coalesce(fl, k) \in Seq(BlockT)
  <1>1. CASE k \in 1 .. Len(fl) - 1 /\ fl[k].pa + fl[k].num_pages = fl[k + 1].pa
    <2> DEFINE m == Block(fl[k].pa, fl[k].num_pages + fl[k + 1].num_pages)
               g == [fl EXCEPT ![k] = m]
    <2>1. fl[k] \in BlockT /\ fl[k + 1] \in BlockT
      BY <1>1
    <2>2. m \in BlockT
      <3>1. /\ fl[k].pa \in Page /\ fl[k].num_pages \in Nat \ {0} /\ fl[k].pa \in Nat
            /\ fl[k + 1].num_pages \in Nat \ {0} /\ fl[k + 1].pa + fl[k + 1].num_pages <= PHYSTOP
        BY <2>1, BlockType, LayoutAssumption DEF Page
      <3>2. fl[k].pa + (fl[k].num_pages + fl[k + 1].num_pages) <= PHYSTOP
        <4>1. fl[k + 1].pa \in Nat /\ fl[k].pa + fl[k].num_pages = fl[k + 1].pa
          BY <1>1, <2>1, BlockType, LayoutAssumption DEF Page
        <4>2. fl[k].pa + (fl[k].num_pages + fl[k + 1].num_pages)
                = fl[k + 1].pa + fl[k + 1].num_pages
          BY <3>1, <4>1, Extents
        <4> QED
          BY <3>1, <4>2
      <3> QED
        BY <3>1, <3>2, BlockType
    <2>3. g \in Seq(BlockT) /\ Len(g) = Len(fl)
      BY <1>1, <2>2
    <2>4. k + 1 \in 1 .. Len(g)
      BY <1>1, <2>3
    <2>5. Coalesce(fl, k) = RemoveAt(g, k + 1)
      BY <1>1 DEF Coalesce
    <2> HIDE DEF g
    <2>6. QED
      BY <2>3, <2>4, <2>5, RemoveAtType
  <1>2. CASE ~(k \in 1 .. Len(fl) - 1 /\ fl[k].pa + fl[k].num_pages = fl[k + 1].pa)
    BY <1>2 DEF Coalesce
  <1>3. QED
    BY <1>1, <1>2

(* Every nonempty set of natural numbers has a least element. *)
LEMMA LeastElement ==
  ASSUME NEW T, T \subseteq Nat, T # {}
  PROVE  \E x \in T : \A y \in T : x <= y
  <1>1. \E x \in T : \A y \in T : ~(<<y, x>> \in OpToRel(<, Nat))
    BY NatLessThanWellFounded, WFMin
  <1>2. \A x, y \in Nat : ~(<<y, x>> \in OpToRel(<, Nat)) => x <= y
    BY DEF OpToRel
  <1>3. QED
    BY <1>1, <1>2

(* The walk of kfree_contig along the list always stops somewhere. *)
LEMMA InsertPosExists ==
  ASSUME NEW fl \in Seq(BlockT), NEW b \in BlockT
  PROVE  /\ InsertPos(fl, b) \in 1 .. Len(fl) + 1
         /\ \A j \in 1 .. InsertPos(fl, b) - 1 : fl[j].pa < b.pa
         /\ InsertPos(fl, b) <= Len(fl) => fl[InsertPos(fl, b)].pa >= b.pa
  <1> DEFINE T == {k \in 1 .. Len(fl) + 1 : k <= Len(fl) => fl[k].pa >= b.pa}
             Q(k) == /\ \A j \in 1 .. k - 1 : fl[j].pa < b.pa
                     /\ k <= Len(fl) => fl[k].pa >= b.pa
  <1>1. T # {} /\ T \subseteq Nat
    <2>1. Len(fl) + 1 \in T
      OBVIOUS
    <2>2. QED
      BY <2>1
  <1>2. PICK k \in T : \A y \in T : k <= y
    BY <1>1, LeastElement
  <1>3. \A j \in 1 .. Len(fl) : fl[j].pa \in Int /\ b.pa \in Int
    BY BlockType, LayoutAssumption DEF Page
  <1>4. k \in 1 .. Len(fl) + 1 /\ Q(k)
    <2>1. ASSUME NEW j \in 1 .. k - 1
          PROVE  fl[j].pa < b.pa
      <3>1. j \notin T /\ j \in 1 .. Len(fl)
        BY <1>2
      <3>2. QED
        BY <3>1, <1>3
    <2>2. QED
      BY <2>1, <1>2
  <1>5. InsertPos(fl, b) = CHOOSE i \in 1 .. Len(fl) + 1 : Q(i)
    BY DEF InsertPos
  <1> HIDE DEF Q
  <1>6. InsertPos(fl, b) \in 1 .. Len(fl) + 1 /\ Q(InsertPos(fl, b))
    BY <1>4, <1>5
  <1>7. QED
    BY <1>6 DEF Q

(* The insertion of kfree_contig finds a place, and the list it leaves     *)
(* holds blocks of allocatable memory.                                     *)
LEMMA InsertBlockType ==
  ASSUME NEW fl \in Seq(BlockT), NEW b \in BlockT
  PROVE  InsertBlock(fl, b) \in Seq(BlockT)
  <1> DEFINE k == InsertPos(fl, b)
  <1>1. InsertAt(fl, k, b) \in Seq(BlockT)
    BY InsertAtType, InsertPosExists
  <1>2. Coalesce(InsertAt(fl, k, b), k) \in Seq(BlockT)
    BY <1>1, CoalesceType, InsertPosExists
  <1>3. Coalesce(Coalesce(InsertAt(fl, k, b), k), k - 1) \in Seq(BlockT)
    BY <1>2, CoalesceType, InsertPosExists
  <1>4. QED
    BY <1>3 DEF InsertBlock

(* Cutting pages from the low end of a block leaves such a list. *)
LEMMA CarveType ==
  ASSUME freelist \in Seq(BlockT), NEW n \in Nat \ {0},
         NEW k \in 1 .. Len(freelist), freelist[k].num_pages >= n
  PROVE  Carve(n, k) \in Seq(BlockT)
  <1> DEFINE b == freelist[k]
             r == Block(b.pa + n, b.num_pages - n)
  <1>1. b \in BlockT
    OBVIOUS
  <1>2. CASE b.num_pages = n
    BY <1>2, RemoveAtType DEF Carve
  <1>3. CASE b.num_pages # n
    <2>1. r \in BlockT
      <3>1. /\ b.pa \in Nat /\ end <= b.pa /\ b.num_pages \in Nat \ {0}
            /\ b.pa + b.num_pages <= PHYSTOP
        BY <1>1, BlockType, LayoutAssumption DEF Page
      <3>2. b.num_pages - n \in Nat \ {0} /\ (b.pa + n) + (b.num_pages - n) <= PHYSTOP
        <4>1. n <= b.num_pages /\ b.num_pages - n # 0
          BY <1>3, <3>1
        <4> HIDE DEF b
        <4>2. b.num_pages - n \in Nat /\ (b.pa + n) + (b.num_pages - n) = b.pa + b.num_pages
          BY <3>1, <4>1, Extents
        <4> QED
          BY <3>1, <4>1, <4>2
      <3>3. b.pa + n \in Page
        <4>1. n < b.num_pages
          BY <1>3, <3>1
        <4> HIDE DEF b
        <4> QED
          BY <3>1, <4>1, Extents, LayoutAssumption DEF Page
      <3> HIDE DEF b
      <3> QED
        BY <3>2, <3>3, BlockType
    <2>2. [freelist EXCEPT ![k] = r] \in Seq(BlockT)
      BY <2>1
    <2>3. QED
      BY <1>3, <2>2 DEF Carve
  <1>4. QED
    BY <1>2, <1>3

-----------------------------------------------------------------------------
(* The pages of a block are allocatable. *)
LEMMA PagesType == \A b \in BlockT : Pages(b) \subseteq Page /\ b.pa \in Pages(b)
  BY BlockType, LayoutAssumption DEF Pages, Page

(* What a thread in the middle of a call is working on. *)
LEMMA OpType ==
  ASSUME op \in [Thread -> OpT], NEW t \in Thread
  PROVE  /\ op[t].kind = "kfree" => op[t].block \in BlockT
         /\ op[t].kind = "share" => op[t].to \in Thread /\ op[t].pa \in Page
  BY DEF OpT, Idle, Freeing, Sharing

(* The hole of compact_memory's loop is never followed by a page it would  *)
(* move: the index of its guard is below every counted frame.              *)
LEMMA NeverMovable ==
  ASSUME LowInv, NEW used \in Int, end <= used, used < PHYSTOP
  PROVE  ~Movable(used)
  BY LayoutAssumption DEF LowInv, Movable, Frame

(* kinit establishes the invariant: one block holds all allocatable memory *)
(* and no frame has been counted.                                          *)
THEOREM LowInvInit == Init => LowInv
  <1> SUFFICES ASSUME Init PROVE LowInv
    OBVIOUS
  <1>1. Block(end, PHYSTOP - end) \in BlockT
    BY BlockType, LayoutAssumption DEF Page
  <1>2. freelist \in Seq(BlockT) /\ Len(freelist) = 1
    BY <1>1 DEF Init
  <1>3. QED
    BY <1>2, LayoutAssumption DEF Init, LowInv, OpT, Frame

(* Every step of the allocator keeps the invariant: only frames between    *)
(* end and PHYSTOP are ever counted, shared, freed or inserted.            *)
LEMMA LowInvStep == LowInv /\ [Next]_vars => LowInv'
  <1> SUFFICES ASSUME LowInv, [Next]_vars PROVE LowInv'
    OBVIOUS
  <1> USE DEF LowInv
  <1>1. ASSUME NEW t \in Thread, NEW n \in Sizes, KallocContig(t, n)
        PROVE  LowInv'
    <2>1. n \in Nat \ {0}
      BY LayoutAssumption
    <2>2. PICK k \in 1 .. Len(freelist) :
             LET got == Pages(Block(freelist[k].pa, n))
             IN  /\ BestFit(n, k)
                 /\ freelist' = Carve(n, k)
                 /\ ref_count' = [f \in Frame |-> IF f \in got THEN 1 ELSE ref_count[f]]
                 /\ hold' = [hold EXCEPT ![t] = @ \cup got]
      BY <1>1 DEF KallocContig
    <2>3. freelist[k].num_pages >= n /\ freelist[k] \in BlockT
      BY <2>2 DEF BestFit
    <2>4. freelist' \in Seq(BlockT)
      BY <2>1, <2>2, <2>3, CarveType
    <2>5. Block(freelist[k].pa, n) \in BlockT
      BY <2>1, <2>3, BlockType, LayoutAssumption DEF Page
    <2>6. Pages(Block(freelist[k].pa, n)) \subseteq Page
      BY <2>5, PagesType
    <2>7. curr' = 0 /\ op' = op
      BY <1>1 DEF KallocContig
    <2>8. QED
      BY <2>2, <2>4, <2>6, <2>7, LayoutAssumption DEF Page, Frame
  <1>2. ASSUME NEW t \in Thread, NEW n \in Sizes, NEW pa \in Page,
               KfreeBegin(t, Block(pa, n))
        PROVE  LowInv'
    <2>1. Block(pa, n) \in BlockT
      <3>1. n \in Nat \ {0} /\ pa \in Int
        BY LayoutAssumption DEF Page
      <3>2. pa + n - 1 \in Page
        BY <1>2, <3>1 DEF KfreeBegin, Pages, Block
      <3>3. QED
        BY <3>1, <3>2, BlockType, LayoutAssumption DEF Page
    <2>2. Pages(Block(pa, n)) \subseteq Page
      BY <2>1, PagesType
    <2>3. op' \in [Thread -> OpT]
      <3>1. Freeing(Block(pa, n)) \in OpT
        BY <2>1 DEF OpT
      <3>2. op' = op \/ op' = [op EXCEPT ![t] = Freeing(Block(pa, n))]
        BY <1>2 DEF KfreeBegin
      <3>3. QED
        BY <3>1, <3>2
    <2>4. QED
      BY <1>2, <2>2, <2>3, LayoutAssumption DEF KfreeBegin, Page, Frame
  <1>3. ASSUME NEW t \in Thread, NEW pa \in Page, MapUser(t, pa)
        PROVE  LowInv'
    BY <1>3 DEF MapUser
  <1>4. ASSUME NEW t \in Thread, NEW pa \in Page, Decref(t, pa)
        PROVE  LowInv'
    BY <1>4, LayoutAssumption DEF Decref, Page, Frame
  <1>5. ASSUME NEW t \in Thread, NEW pa \in Page, NEW u \in Thread, ShareMap(t, u, pa)
        PROVE  LowInv'
    BY <1>5 DEF ShareMap, OpT
  <1>6. ASSUME NEW t \in Thread, Incref(t)
        PROVE  LowInv'
    <2>1. op[t].to \in Thread /\ op[t].pa \in Page
      BY <1>6, OpType DEF Incref
    <2>2. op' \in [Thread -> OpT]
      BY <1>6 DEF Incref, OpT
    <2>3. QED
      BY <1>6, <2>1, <2>2, LayoutAssumption DEF Incref, Page, Frame
  <1>7. ASSUME NEW t \in Thread, KfreeEnd(t)
        PROVE  LowInv'
    <2>1. op[t].block \in BlockT
      BY <1>7, OpType DEF KfreeEnd
    <2>2. freelist' \in Seq(BlockT)
      BY <1>7, <2>1, InsertBlockType DEF KfreeEnd
    <2>3. op' \in [Thread -> OpT]
      BY <1>7 DEF KfreeEnd, OpT
    <2>4. QED
      BY <1>7, <2>2, <2>3 DEF KfreeEnd
  <1>8. CASE CompactBegin
    BY <1>8 DEF CompactBegin
  <1>9. CASE CompactStep
    <2> DEFINE used == freelist[curr].pa + freelist[curr].num_pages
    <2>1. curr \in 1 .. Len(freelist) /\ freelist[curr] \in BlockT
      BY <1>9 DEF CompactStep
    <2>2. used \in Int /\ end <= used
      BY <2>1, BlockType, LayoutAssumption DEF Page
    <2>3. used < PHYSTOP => ~Movable(used)
      BY <2>2, NeverMovable
    <2>4. UNCHANGED <<freelist, ref_count, hold, op>>
      BY <1>9, <2>3 DEF CompactStep
    <2>5. curr' \in 0 .. Len(freelist)
      BY <1>9, <2>1, <2>3 DEF CompactStep
    <2>6. QED
      BY <2>4, <2>5
  <1>10. CASE UNCHANGED vars
    BY <1>10 DEF vars
  <1>11. QED
    BY <1>1, <1>2, <1>3, <1>4, <1>5, <1>6, <1>7, <1>8, <1>9, <1>10 DEF Next

(* Compaction relocates nothing, whatever the layout: while compact_memory *)
(* holds kmem.lock the list, the counts and the page tables stay as they   *)
(* are.                                                                    *)
THEOREM CompactionIsInert == Spec => CompactionNeverRelocates
  <1>1. LowInv /\ [Next]_vars => [curr # 0 => UNCHANGED <<freelist, ref_count, hold>>]_vars
    <2> SUFFICES ASSUME LowInv, [Next]_vars, curr # 0
                 PROVE  UNCHANGED <<freelist, ref_count, hold>>
      OBVIOUS
    <2>1. CASE CompactStep
      <3> DEFINE used == freelist[curr].pa + freelist[curr].num_pages
      <3>1. curr \in 1 .. Len(freelist) /\ freelist[curr] \in BlockT
        BY DEF LowInv
      <3>2. used \in Int /\ end <= used
        BY <3>1, BlockType, LayoutAssumption DEF Page
      <3>3. used < PHYSTOP => ~Movable(used)
        BY <3>2, NeverMovable
      <3>4. QED
        BY <2>1, <3>3 DEF CompactStep
    <2>2. QED
      BY <2>1 DEF Next, KallocContig, KfreeBegin, MapUser, Decref, ShareMap,
                  Incref, KfreeEnd, CompactBegin, vars
  <1>2. QED
    BY <1>1, LowInvInit, LowInvStep, PTL DEF Spec, CompactionNeverRelocates

-----------------------------------------------------------------------------
(* The elements RemoveAt leaves.                                           *)
LEMMA RemoveAtElems ==
  ASSUME NEW S, NEW s \in Seq(S), NEW k \in 1 .. Len(s)
  PROVE  /\ Len(RemoveAt(s, k)) = Len(s) - 1
         /\ \A j \in 1 .. Len(s) - 1 : RemoveAt(s, k)[j] = IF j < k THEN s[j] ELSE s[j + 1]
  <1> DEFINE a == SubSeq(s, 1, k - 1)
             c == SubSeq(s, k + 1, Len(s))
  <1>1. a \in Seq(S) /\ Len(a) = k - 1 /\ \A j \in 1 .. k - 1 : a[j] = s[j]
    OBVIOUS
  <1>2. c \in Seq(S) /\ Len(c) = Len(s) - k /\ \A j \in 1 .. Len(s) - k : c[j] = s[k + j]
    OBVIOUS
  <1>3. RemoveAt(s, k) = a \o c
    BY DEF RemoveAt
  <1> HIDE DEF a, c
  <1>4. /\ Len(a \o c) = Len(a) + Len(c)
        /\ \A j \in 1 .. Len(a) + Len(c) : (a \o c)[j] = IF j <= Len(a) THEN a[j] ELSE c[j - Len(a)]
    BY <1>1, <1>2, ConcatProperties
  <1>5. ASSUME NEW j \in 1 .. Len(s) - 1
        PROVE  (a \o c)[j] = IF j < k THEN s[j] ELSE s[j + 1]
    <2>1. CASE j < k
      BY <1>1, <1>2, <1>4, <2>1
    <2>2. CASE j >= k
      <3>1. (a \o c)[j] = c[j - (k - 1)]
        BY <1>1, <1>2, <1>4, <2>2
      <3>2. j - (k - 1) \in 1 .. Len(s) - k /\ k + (j - (k - 1)) = j + 1
        BY <2>2
      <3> QED
        BY <1>2, <2>2, <3>1, <3>2
    <2>3. j \in Int /\ k \in Int
      OBVIOUS
    <2>4. j < k \/ j >= k
      BY <2>3
    <2> QED
      BY <2>1, <2>2, <2>4, Zenon
  <1> QED
    BY <1>1, <1>2, <1>3, <1>4, <1>5

(* The elements InsertAt leaves.                                           *)
LEMMA InsertAtElems ==
  ASSUME NEW S, NEW s \in Seq(S), NEW k \in 1 .. Len(s) + 1, NEW e \in S
  PROVE  /\ Len(InsertAt(s, k, e)) = Len(s) + 1
         /\ \A j \in 1 .. Len(s) + 1 :
              InsertAt(s, k, e)[j] = IF j < k THEN s[j] ELSE IF j = k THEN e ELSE s[j - 1]
  <1> DEFINE a == SubSeq(s, 1, k - 1) \o <<e>>
             c == SubSeq(s, k, Len(s))
  <1>1. a \in Seq(S) /\ Len(a) = k /\ a[k] = e /\ \A j \in 1 .. k - 1 : a[j] = s[j]
    <2>1. /\ SubSeq(s, 1, k - 1) \in Seq(S) /\ Len(SubSeq(s, 1, k - 1)) = k - 1
          /\ \A j \in 1 .. k - 1 : SubSeq(s, 1, k - 1)[j] = s[j]
      OBVIOUS
    <2> QED
      BY <2>1
  <1>2. /\ c \in Seq(S) /\ Len(c) = Len(s) - k + 1
        /\ \A j \in 1 .. Len(s) - k + 1 : c[j] = s[k + j - 1]
    OBVIOUS
  <1>3. InsertAt(s, k, e) = a \o c
    BY DEF InsertAt
  <1> HIDE DEF a, c
  <1>4. /\ Len(a \o c) = Len(a) + Len(c)
        /\ \A j \in 1 .. Len(a) + Len(c) : (a \o c)[j] = IF j <= Len(a) THEN a[j] ELSE c[j - Len(a)]
    BY <1>1, <1>2, ConcatProperties
  <1>5. ASSUME NEW j \in 1 .. Len(s) + 1
        PROVE  (a \o c)[j] = IF j < k THEN s[j] ELSE IF j = k THEN e ELSE s[j - 1]
    <2>1. CASE j <= k
      BY <1>1, <1>2, <1>4, <2>1
    <2>2. CASE j > k
      <3>1. (a \o c)[j] = c[j - k]
        BY <1>1, <1>2, <1>4, <2>2
      <3>2. j - k \in 1 .. Len(s) - k + 1 /\ k + (j - k) - 1 = j - 1
        BY <2>2
      <3> QED
        BY <1>2, <2>2, <3>1, <3>2
    <2>3. j \in Int /\ k \in Int
      OBVIOUS
    <2>4. j <= k \/ j > k
      BY <2>3
    <2> QED
      BY <2>1, <2>2, <2>4, Zenon
  <1> QED
    BY <1>1, <1>2, <1>3, <1>4, <1>5

(* The first frame after a block.                                          *)
After(b) == b.pa + b.num_pages

(* The pages of a list of blocks.                                          *)
PagesOf(fl) == UNION {Pages(fl[i]) : i \in 1 .. Len(fl)}

(* A list in the order of addresses, where neighbours touch at most at the *)
(* places of S.                                                            *)
OrderedBut(fl, S) ==
  \A i \in 1 .. Len(fl) - 1 : /\ After(fl[i]) <= fl[i + 1].pa
                              /\ i \notin S => After(fl[i]) < fl[i + 1].pa

(* A page lies in a block exactly between its ends.                        *)
LEMMA BlockEnds ==
  ASSUME NEW b \in BlockT
  PROVE  /\ b.pa \in Int /\ After(b) \in Int /\ b.pa < After(b) /\ After(b) <= PHYSTOP
         /\ \A p : p \in Pages(b) <=> p \in Int /\ b.pa <= p /\ p < After(b)
  <1>1. b.pa \in Nat /\ b.num_pages \in Nat \ {0} /\ b.pa + b.num_pages <= PHYSTOP
    BY BlockType, LayoutAssumption DEF Page
  <1> QED
    BY <1>1, LayoutAssumption DEF Pages, After

(* The list after two neighbours have been merged.                         *)
LEMMA CoalesceElems ==
  ASSUME NEW fl \in Seq(BlockT), NEW k \in 1 .. Len(fl) - 1, After(fl[k]) = fl[k + 1].pa
  PROVE  /\ Coalesce(fl, k) \in Seq(BlockT) /\ Len(Coalesce(fl, k)) = Len(fl) - 1
         /\ Coalesce(fl, k)[k].pa = fl[k].pa
         /\ After(Coalesce(fl, k)[k]) = After(fl[k + 1])
         /\ \A j \in 1 .. k - 1 : Coalesce(fl, k)[j] = fl[j]
         /\ \A j \in k + 1 .. Len(fl) - 1 : Coalesce(fl, k)[j] = fl[j + 1]
  <1> DEFINE m == Block(fl[k].pa, fl[k].num_pages + fl[k + 1].num_pages)
             g == [fl EXCEPT ![k] = m]
             c == Coalesce(fl, k)
  <1>1. c \in Seq(BlockT)
    BY CoalesceType
  <1>2. fl[k] \in BlockT /\ fl[k + 1] \in BlockT
    OBVIOUS
  <1>3. m \in BlockT /\ m.pa = fl[k].pa /\ After(m) = After(fl[k + 1])
    <2>1. fl[k].pa \in Nat /\ fl[k].num_pages \in Nat \ {0} /\ fl[k].pa \in Page
      BY <1>2, BlockType, LayoutAssumption DEF Page
    <2>2. /\ fl[k + 1].pa \in Nat /\ fl[k + 1].num_pages \in Nat \ {0}
          /\ fl[k + 1].pa + fl[k + 1].num_pages <= PHYSTOP
      BY <1>2, BlockType, LayoutAssumption DEF Page
    <2>3. m.pa = fl[k].pa /\ m.num_pages = fl[k].num_pages + fl[k + 1].num_pages
      BY DEF Block
    <2>4. fl[k].pa + fl[k].num_pages = fl[k + 1].pa
      BY DEF After
    <2>5. fl[k].pa + (fl[k].num_pages + fl[k + 1].num_pages) <= PHYSTOP
      BY <2>1, <2>2, <2>4, LayoutAssumption
    <2>6. m \in BlockT
      BY <2>1, <2>2, <2>5, BlockType
    <2> HIDE DEF m
    <2> QED
      BY <2>1, <2>2, <2>3, <2>4, <2>6 DEF After
  <1>4. c = RemoveAt(g, k + 1)
    BY DEF Coalesce, After
  <1> HIDE DEF m
  <1>5. /\ g \in Seq(BlockT) /\ Len(g) = Len(fl) /\ g[k] = m
        /\ \A j \in 1 .. Len(fl) : j # k => g[j] = fl[j]
    BY <1>3
  <1> HIDE DEF g
  <1>6. /\ Len(c) = Len(fl) - 1
        /\ \A j \in 1 .. Len(fl) - 1 : c[j] = IF j < k + 1 THEN g[j] ELSE g[j + 1]
    <2>1. k + 1 \in 1 .. Len(g)
      BY <1>5
    <2>2. /\ Len(RemoveAt(g, k + 1)) = Len(g) - 1
          /\ \A j \in 1 .. Len(g) - 1 :
               RemoveAt(g, k + 1)[j] = IF j < k + 1 THEN g[j] ELSE g[j + 1]
      BY <1>5, <2>1, RemoveAtElems
    <2> QED
      BY <1>4, <1>5, <2>2
  <1> HIDE DEF c
  <1>7. c[k] = m
    BY <1>5, <1>6
  <1>8. \A j \in 1 .. k - 1 : c[j] = fl[j]
    BY <1>5, <1>6
  <1>9. \A j \in k + 1 .. Len(fl) - 1 : c[j] = fl[j + 1]
    BY <1>5, <1>6
  <1> QED
    BY <1>1, <1>3, <1>6, <1>7, <1>8, <1>9 DEF c

(* Merging neighbours keeps the pages of the list, and the order: a place  *)
(* where neighbours touched is gone.                                       *)
LEMMA CoalesceKeeps ==
  ASSUME NEW fl \in Seq(BlockT), NEW k \in Int, NEW S, \A i \in S : i \in Int /\ i < k,
         OrderedBut(fl, S \cup {k})
  PROVE  /\ PagesOf(Coalesce(fl, k)) = PagesOf(fl)
         /\ OrderedBut(Coalesce(fl, k), S)
  <1>1. CASE k \in 1 .. Len(fl) - 1 /\ After(fl[k]) = fl[k + 1].pa
    <2> DEFINE c == Coalesce(fl, k)
    <2>1. /\ c \in Seq(BlockT) /\ Len(c) = Len(fl) - 1
          /\ c[k].pa = fl[k].pa /\ After(c[k]) = After(fl[k + 1])
          /\ \A j \in 1 .. k - 1 : c[j] = fl[j]
          /\ \A j \in k + 1 .. Len(fl) - 1 : c[j] = fl[j + 1]
      BY <1>1, CoalesceElems
    <2> HIDE DEF c
    <2>2. c[k] \in BlockT /\ fl[k] \in BlockT /\ fl[k + 1] \in BlockT
      BY <1>1, <2>1
    <2>3. Pages(c[k]) = Pages(fl[k]) \cup Pages(fl[k + 1])
      <3>1. \A p : p \in Pages(c[k]) <=> p \in Int /\ fl[k].pa <= p /\ p < After(fl[k + 1])
        BY <2>1, <2>2, BlockEnds
      <3>3. \A p : p \in Pages(fl[k]) <=> p \in Int /\ fl[k].pa <= p /\ p < After(fl[k])
        BY <2>2, BlockEnds
      <3>4. \A p : p \in Pages(fl[k + 1]) <=>
                    p \in Int /\ After(fl[k]) <= p /\ p < After(fl[k + 1])
        BY <1>1, <2>2, BlockEnds
      <3>2. /\ fl[k].pa \in Int /\ fl[k].pa < After(fl[k]) /\ fl[k + 1].pa < After(fl[k + 1])
            /\ After(fl[k]) \in Int /\ After(fl[k + 1]) \in Int
        BY <2>2, BlockEnds
      <3> QED
        <4>1. fl[k].pa < After(fl[k]) /\ After(fl[k]) < After(fl[k + 1])
          BY <1>1, <3>2
        <4>2. \A p : p \in Pages(c[k]) <=> p \in Pages(fl[k]) \/ p \in Pages(fl[k + 1])
          BY <3>1, <3>2, <3>3, <3>4, <4>1
        <4> QED
          BY <4>2
    <2>4. ASSUME NEW p, NEW j \in 1 .. Len(c), p \in Pages(c[j])
          PROVE  \E i \in 1 .. Len(fl) : p \in Pages(fl[i])
      BY <1>1, <2>1, <2>3, <2>4
    <2>5. ASSUME NEW p, NEW i \in 1 .. Len(fl), p \in Pages(fl[i])
          PROVE  \E j \in 1 .. Len(c) : p \in Pages(c[j])
      <3>1. CASE i < k
        BY <1>1, <2>1, <2>5, <3>1
      <3>2. CASE i \in {k, k + 1}
        BY <1>1, <2>1, <2>3, <2>5, <3>2
      <3>3. CASE i > k + 1
        <4>1. i - 1 \in 1 .. Len(c) /\ c[i - 1] = fl[i]
          BY <1>1, <2>1, <3>3
        <4> QED
          BY <2>5, <4>1
      <3> QED
        BY <1>1, <3>1, <3>2, <3>3
    <2>6. PagesOf(c) = PagesOf(fl)
      BY <2>4, <2>5 DEF PagesOf
    <2>7. ASSUME NEW i \in 1 .. Len(c) - 1
          PROVE  After(c[i]) <= c[i + 1].pa /\ (i \notin S => After(c[i]) < c[i + 1].pa)
      <3>1. CASE i < k - 1
        <4>1. c[i] = fl[i] /\ c[i + 1] = fl[i + 1] /\ i \in 1 .. Len(fl) - 1 /\ i # k
          BY <1>1, <2>1, <3>1
        <4> QED
          BY <4>1 DEF OrderedBut
      <3>2. CASE i = k - 1
        <4>1. c[i] = fl[i] /\ c[i + 1].pa = fl[i + 1].pa /\ i \in 1 .. Len(fl) - 1 /\ i # k
          BY <1>1, <2>1, <3>2
        <4> QED
          BY <4>1 DEF OrderedBut
      <3>3. CASE i >= k
        <4>0. /\ i + 1 \in 1 .. Len(fl) - 1 /\ (i + 1) + 1 = i + 2
              /\ i + 1 \in k + 1 .. Len(fl) - 1 /\ i + 1 \notin S \cup {k}
          BY <1>1, <2>1, <3>3
        <4>3. c[i + 1] = fl[i + 2]
          BY <2>1, <4>0
        <4>4. After(c[i]) = After(fl[i + 1])
          BY <1>1, <2>1, <3>3
        <4>1. /\ After(c[i]) = After(fl[i + 1]) /\ c[i + 1] = fl[i + 2]
              /\ i + 1 \in 1 .. Len(fl) - 1 /\ i + 1 \notin S \cup {k} /\ (i + 1) + 1 = i + 2
          BY <4>0, <4>3, <4>4
        <4>2. After(fl[i + 1]) < fl[(i + 1) + 1].pa /\ After(fl[i + 1]) <= fl[(i + 1) + 1].pa
          BY <4>1 DEF OrderedBut
        <4> QED
          BY <4>1, <4>2
      <3> QED
        BY <1>1, <3>1, <3>2, <3>3
    <2>8. OrderedBut(c, S)
      BY <2>7 DEF OrderedBut
    <2> QED
      BY <2>6, <2>8 DEF c
  <1>2. CASE ~(k \in 1 .. Len(fl) - 1 /\ After(fl[k]) = fl[k + 1].pa)
    <2>1. Coalesce(fl, k) = fl
      BY <1>2 DEF Coalesce, After
    <2>2. ASSUME NEW i \in 1 .. Len(fl) - 1
          PROVE  After(fl[i]) <= fl[i + 1].pa /\ (i \notin S => After(fl[i]) < fl[i + 1].pa)
      <3>1. fl[i] \in BlockT /\ fl[i + 1] \in BlockT
        OBVIOUS
      <3>2. After(fl[i]) \in Int /\ fl[i + 1].pa \in Int
        BY <3>1, BlockEnds
      <3> QED
        BY <1>2, <3>2 DEF OrderedBut
    <2> QED
      BY <2>1, <2>2 DEF OrderedBut
  <1> QED
    BY <1>1, <1>2

(* The insertion of kfree_contig adds the pages of the block, and leaves a *)
(* list in order whose blocks do not touch.                                *)
LEMMA InsertBlockKeeps ==
  ASSUME NEW fl \in Seq(BlockT), NEW b \in BlockT, OrderedBut(fl, {}),
         Pages(b) \cap PagesOf(fl) = {}
  PROVE  /\ PagesOf(InsertBlock(fl, b)) = PagesOf(fl) \cup Pages(b)
         /\ OrderedBut(InsertBlock(fl, b), {})
  <1> DEFINE k == InsertPos(fl, b)
             s == InsertAt(fl, k, b)
  <1>1. /\ k \in 1 .. Len(fl) + 1
        /\ \A j \in 1 .. k - 1 : fl[j].pa < b.pa
        /\ k <= Len(fl) => fl[k].pa >= b.pa
    BY InsertPosExists
  <1> HIDE DEF k
  <1>2. /\ s \in Seq(BlockT) /\ Len(s) = Len(fl) + 1 /\ s[k] = b
        /\ \A j \in 1 .. k - 1 : s[j] = fl[j]
        /\ \A j \in k + 1 .. Len(fl) + 1 : s[j] = fl[j - 1]
    <2>1. s \in Seq(BlockT)
      BY <1>1, InsertAtType
    <2>2. /\ Len(s) = Len(fl) + 1
          /\ \A j \in 1 .. Len(fl) + 1 :
               s[j] = IF j < k THEN fl[j] ELSE IF j = k THEN b ELSE fl[j - 1]
      BY <1>1, InsertAtElems
    <2> HIDE DEF s
    <2> QED
      BY <1>1, <2>1, <2>2
  <1> HIDE DEF s
  <1>3. PagesOf(s) = PagesOf(fl) \cup Pages(b)
    <2>1. ASSUME NEW p, NEW j \in 1 .. Len(s), p \in Pages(s[j])
          PROVE  p \in Pages(b) \/ \E i \in 1 .. Len(fl) : p \in Pages(fl[i])
      <3>1. CASE j < k
        BY <1>1, <1>2, <2>1, <3>1
      <3>2. CASE j = k
        BY <1>1, <1>2, <2>1, <3>2
      <3>3. CASE j > k
        <4>1. j - 1 \in 1 .. Len(fl) /\ s[j] = fl[j - 1]
          BY <1>1, <1>2, <3>3
        <4> QED
          BY <2>1, <4>1
      <3> QED
        BY <1>1, <3>1, <3>2, <3>3
    <2>2. ASSUME NEW p, NEW i \in 1 .. Len(fl), p \in Pages(fl[i])
          PROVE  \E j \in 1 .. Len(s) : p \in Pages(s[j])
      <3>1. CASE i < k
        BY <1>1, <1>2, <2>2, <3>1
      <3>2. CASE i >= k
        <4>1. i + 1 \in k + 1 .. Len(fl) + 1 /\ (i + 1) - 1 = i
          BY <1>1, <3>2
        <4>2. s[i + 1] = fl[(i + 1) - 1]
          BY <1>2, <4>1
        <4>3. i + 1 \in 1 .. Len(s) /\ s[i + 1] = fl[i]
          BY <1>1, <1>2, <4>1, <4>2
        <4> QED
          BY <2>2, <4>3
      <3> QED
        BY <1>1, <3>1, <3>2
    <2>3. k \in 1 .. Len(s) /\ s[k] = b
      BY <1>1, <1>2
    <2> QED
      BY <2>1, <2>2, <2>3 DEF PagesOf
  <1>4. \A i \in 1 .. Len(fl) : After(b) <= fl[i].pa \/ After(fl[i]) <= b.pa
    <2> SUFFICES ASSUME NEW i \in 1 .. Len(fl)
                 PROVE  After(b) <= fl[i].pa \/ After(fl[i]) <= b.pa
      OBVIOUS
    <2>1. fl[i] \in BlockT
      OBVIOUS
    <2>2. /\ b.pa \in Int /\ After(b) \in Int /\ b.pa < After(b)
          /\ fl[i].pa \in Int /\ After(fl[i]) \in Int /\ fl[i].pa < After(fl[i])
      BY <2>1, BlockEnds
    <2>3. b.pa \notin Pages(fl[i]) /\ fl[i].pa \notin Pages(b)
      <3>1. b.pa \in Pages(b) /\ fl[i].pa \in Pages(fl[i])
        BY <2>1, BlockEnds
      <3>2. Pages(fl[i]) \subseteq PagesOf(fl)
        BY DEF PagesOf
      <3> QED
        BY <3>1, <3>2
    <2> QED
      BY <2>1, <2>2, <2>3, BlockEnds
  <1>5. OrderedBut(s, {k - 1} \cup {k})
    <2> SUFFICES ASSUME NEW i \in 1 .. Len(s) - 1
                 PROVE  /\ After(s[i]) <= s[i + 1].pa
                        /\ i \notin {k - 1} \cup {k} => After(s[i]) < s[i + 1].pa
      BY DEF OrderedBut
    <2>1. CASE i < k - 1
      <3>1. s[i] = fl[i] /\ s[i + 1] = fl[i + 1] /\ i \in 1 .. Len(fl) - 1
        BY <1>1, <1>2, <2>1
      <3> QED
        BY <3>1 DEF OrderedBut
    <2>2. CASE i = k - 1
      <3>1. s[i] = fl[i] /\ s[i + 1] = b /\ i \in 1 .. Len(fl) /\ fl[i].pa < b.pa
        BY <1>1, <1>2, <2>2
      <3>2. fl[i] \in BlockT
        BY <3>1
      <3>3. b.pa \in Int /\ After(b) \in Int /\ b.pa < After(b) /\ fl[i].pa \in Int
        BY <3>2, BlockEnds
      <3> QED
        BY <1>4, <2>2, <3>1, <3>3
    <2>3. CASE i = k
      <3>1. s[i] = b /\ s[i + 1] = fl[i] /\ i \in 1 .. Len(fl) /\ fl[i].pa >= b.pa
        BY <1>1, <1>2, <2>3
      <3>2. fl[i] \in BlockT
        BY <3>1
      <3>3. /\ b.pa \in Int /\ fl[i].pa \in Int
            /\ After(fl[i]) \in Int /\ fl[i].pa < After(fl[i])
        BY <3>2, BlockEnds
      <3> QED
        BY <1>4, <2>3, <3>1, <3>3
    <2>4. CASE i > k
      <3>1. s[i] = fl[i - 1] /\ s[i + 1] = fl[i] /\ i - 1 \in 1 .. Len(fl) - 1 /\ (i - 1) + 1 = i
        BY <1>1, <1>2, <2>4
      <3>2. After(fl[i - 1]) <= fl[(i - 1) + 1].pa /\ After(fl[i - 1]) < fl[(i - 1) + 1].pa
        BY <3>1 DEF OrderedBut
      <3> QED
        BY <3>1, <3>2
    <2> QED
      BY <1>1, <2>1, <2>2, <2>3, <2>4
  <1>6. k \in Int /\ k - 1 \in Int /\ k - 1 < k
    BY <1>1
  <1> DEFINE c == Coalesce(s, k)
  <1>7. /\ c \in Seq(BlockT) /\ PagesOf(c) = PagesOf(s) /\ OrderedBut(c, {k - 1})
    <2>1. \A i \in {k - 1} : i \in Int /\ i < k
      BY <1>6
    <2>2. c \in Seq(BlockT)
      BY <1>2, <1>6, CoalesceType
    <2>3. s \in Seq(BlockT)
      BY <1>2
    <2>4. PagesOf(c) = PagesOf(s) /\ OrderedBut(c, {k - 1})
      BY <1>5, <1>6, <2>1, <2>3, CoalesceKeeps
    <2> QED
      BY <2>2, <2>4
  <1> HIDE DEF c
  <1>8. OrderedBut(c, {} \cup {k - 1})
    BY <1>7
  <1>9. PagesOf(Coalesce(c, k - 1)) = PagesOf(c) /\ OrderedBut(Coalesce(c, k - 1), {})
    BY <1>6, <1>7, <1>8, CoalesceKeeps
  <1>10. InsertBlock(fl, b) = Coalesce(c, k - 1)
    BY DEF InsertBlock, c, s, k
  <1> QED
    BY <1>3, <1>7, <1>9, <1>10

(* In an ordered list every block lies below all later ones.               *)
LEMMA LaterHigher ==
  ASSUME NEW fl \in Seq(BlockT), OrderedBut(fl, {}),
         NEW i \in 1 .. Len(fl), NEW j \in 1 .. Len(fl), i < j
  PROVE  After(fl[i]) < fl[j].pa
  <1> DEFINE T == {x \in 1 .. Len(fl) : i < x /\ ~(After(fl[i]) < fl[x].pa)}
  <1>1. SUFFICES ASSUME T # {}
                 PROVE  FALSE
    BY <1>1
  <1>2. T \subseteq Nat
    OBVIOUS
  <1>3. PICK x \in T : \A y \in T : x <= y
    BY <1>1, <1>2, LeastElement
  <1>4. x \in 1 .. Len(fl) /\ i < x /\ ~(After(fl[i]) < fl[x].pa) /\ x - 1 \notin T
    BY <1>3
  <1>5. x - 1 \in 1 .. Len(fl) - 1 /\ (x - 1) + 1 = x
    BY <1>4
  <1>6. After(fl[x - 1]) < fl[(x - 1) + 1].pa
    BY <1>5 DEF OrderedBut
  <1>7. fl[x - 1] \in BlockT /\ fl[x] \in BlockT /\ fl[i] \in BlockT
    BY <1>4, <1>5
  <1>8. /\ fl[x - 1].pa \in Int /\ After(fl[x - 1]) \in Int /\ fl[x - 1].pa < After(fl[x - 1])
        /\ fl[x].pa \in Int /\ After(fl[i]) \in Int
    BY <1>7, BlockEnds
  <1>9. CASE x - 1 = i
    BY <1>4, <1>5, <1>6, <1>9
  <1>10. CASE x - 1 # i
    <2>1. i < x - 1
      BY <1>4, <1>10
    <2>2. After(fl[i]) < fl[x - 1].pa
      BY <1>4, <1>5, <2>1
    <2>3. After(fl[x - 1]) < fl[x].pa
      BY <1>5, <1>6
    <2> QED
      BY <1>4, <1>8, <2>2, <2>3
  <1> QED
    BY <1>9, <1>10

(* So its blocks share no page.                                            *)
LEMMA BlocksApart ==
  ASSUME NEW fl \in Seq(BlockT), OrderedBut(fl, {}),
         NEW i \in 1 .. Len(fl), NEW j \in 1 .. Len(fl), i # j
  PROVE  Pages(fl[i]) \cap Pages(fl[j]) = {}
  <1>1. fl[i] \in BlockT /\ fl[j] \in BlockT
    OBVIOUS
  <1>2. After(fl[i]) < fl[j].pa \/ After(fl[j]) < fl[i].pa
    <2>1. i < j \/ j < i
      OBVIOUS
    <2> QED
      BY <2>1, LaterHigher
  <1>3. /\ \A p : p \in Pages(fl[i]) <=> p \in Int /\ fl[i].pa <= p /\ p < After(fl[i])
        /\ fl[i].pa \in Int /\ After(fl[i]) \in Int
    BY <1>1, BlockEnds
  <1>4. /\ \A p : p \in Pages(fl[j]) <=> p \in Int /\ fl[j].pa <= p /\ p < After(fl[j])
        /\ fl[j].pa \in Int /\ After(fl[j]) \in Int
    BY <1>1, BlockEnds
  <1> HIDE DEF BlockT
  <1>5. \A p : ~(p \in Pages(fl[i]) /\ p \in Pages(fl[j]))
    BY <1>2, <1>3, <1>4
  <1> QED
    BY <1>5

(* kalloc_contig takes exactly the pages it hands out from the list.       *)
LEMMA CarveKeeps ==
  ASSUME freelist \in Seq(BlockT), OrderedBut(freelist, {}), NEW n \in Nat \ {0},
         NEW k \in 1 .. Len(freelist), freelist[k].num_pages >= n
  PROVE  /\ Pages(Block(freelist[k].pa, n)) \subseteq PagesOf(freelist)
         /\ PagesOf(Carve(n, k)) = PagesOf(freelist) \ Pages(Block(freelist[k].pa, n))
         /\ OrderedBut(Carve(n, k), {})
  <1> DEFINE b == freelist[k]
             got == Pages(Block(b.pa, n))
             c == Carve(n, k)
  <1>1. b \in BlockT
    OBVIOUS
  <1>2. /\ b.pa \in Nat /\ b.num_pages \in Nat \ {0} /\ After(b) = b.pa + b.num_pages
        /\ b.pa \in Page /\ b.pa + b.num_pages <= PHYSTOP
    BY <1>1, BlockType, LayoutAssumption DEF Page, After
  <1>3. \A p : p \in got <=> p \in Int /\ b.pa <= p /\ p < b.pa + n
    <2>1. Block(b.pa, n).pa = b.pa /\ Block(b.pa, n).num_pages = n
      BY DEF Block
    <2> QED
      BY <1>2, <2>1 DEF Pages
  <1>4. \A p : p \in Pages(b) <=> p \in Int /\ b.pa <= p /\ p < After(b)
    BY <1>1, BlockEnds
  <1> HIDE DEF got
  <1>5. got \subseteq Pages(b)
    BY <1>2, <1>3, <1>4
  <1>6. \A j \in 1 .. Len(freelist) : j # k => Pages(freelist[j]) \cap got = {}
    BY <1>5, BlocksApart
  <1>7. got \subseteq PagesOf(freelist)
    BY <1>5 DEF PagesOf
  <1>8. CASE b.num_pages = n
    <2>1. got = Pages(b)
      BY <1>2, <1>3, <1>4, <1>8
    <2>2. c = RemoveAt(freelist, k)
      BY <1>8 DEF Carve
    <2>3. /\ Len(c) = Len(freelist) - 1
          /\ \A j \in 1 .. Len(freelist) - 1 :
               c[j] = IF j < k THEN freelist[j] ELSE freelist[j + 1]
      BY <2>2, RemoveAtElems
    <2> HIDE DEF b, c
    <2>4. PagesOf(c) = PagesOf(freelist) \ got
      <3>1. ASSUME NEW p, NEW j \in 1 .. Len(c), p \in Pages(c[j])
            PROVE  p \notin got /\ \E i \in 1 .. Len(freelist) : p \in Pages(freelist[i])
        <4>1. PICK i \in 1 .. Len(freelist) : i # k /\ c[j] = freelist[i]
          <5>1. CASE j < k
            BY <2>3, <5>1
          <5>2. CASE j >= k
            BY <2>3, <5>2
          <5> QED
            BY <2>3, <5>1, <5>2
        <4> QED
          BY <1>6, <3>1, <4>1
      <3>2. ASSUME NEW p, NEW i \in 1 .. Len(freelist), p \in Pages(freelist[i]), p \notin got
            PROVE  \E j \in 1 .. Len(c) : p \in Pages(c[j])
        <4>1. i # k
          BY <2>1, <3>2 DEF b
        <4>2. CASE i < k
          BY <2>3, <3>2, <4>2
        <4>3. CASE i > k
          <5>1. i - 1 \in 1 .. Len(c) /\ ~(i - 1 < k) /\ (i - 1) + 1 = i
            BY <2>3, <4>3
          <5>2. c[i - 1] = freelist[(i - 1) + 1]
            BY <2>3, <5>1
          <5> QED
            BY <3>2, <5>1, <5>2
        <4> QED
          BY <4>1, <4>2, <4>3
      <3> QED
        BY <3>1, <3>2 DEF PagesOf
    <2>5. OrderedBut(c, {})
      <3> SUFFICES ASSUME NEW i \in 1 .. Len(c) - 1
                   PROVE  After(c[i]) < c[i + 1].pa /\ After(c[i]) <= c[i + 1].pa
        BY DEF OrderedBut
      <3>1. \E x, y \in 1 .. Len(freelist) :
              x < y /\ c[i] = freelist[x] /\ c[i + 1] = freelist[y]
        <4>1. CASE i < k - 1
          <5>1. c[i] = freelist[i] /\ c[i + 1] = freelist[i + 1]
            BY <2>3, <4>1
          <5> QED
            BY <2>3, <5>1
        <4>2. CASE i = k - 1
          <5>1. c[i] = freelist[i] /\ c[i + 1] = freelist[i + 2]
            BY <2>3, <4>2
          <5> QED
            BY <2>3, <5>1
        <4>3. CASE i >= k
          <5>1. c[i] = freelist[i + 1] /\ c[i + 1] = freelist[i + 2]
            BY <2>3, <4>3
          <5> QED
            BY <2>3, <5>1
        <4> QED
          BY <4>1, <4>2, <4>3
      <3>2. PICK x, y \in 1 .. Len(freelist) :
              x < y /\ c[i] = freelist[x] /\ c[i + 1] = freelist[y]
        BY <3>1
      <3>3. After(freelist[x]) < freelist[y].pa
        BY <3>2, LaterHigher
      <3>4. freelist[x] \in BlockT /\ freelist[y] \in BlockT
        OBVIOUS
      <3>5. After(freelist[x]) \in Int /\ freelist[y].pa \in Int
        BY <3>4, BlockEnds
      <3> QED
        BY <3>2, <3>3, <3>5
    <2> QED
      BY <1>7, <2>4, <2>5 DEF b, c, got
  <1>9. CASE b.num_pages # n
    <2> DEFINE r == Block(b.pa + n, b.num_pages - n)
    <2>1. c = [freelist EXCEPT ![k] = r] /\ c \in Seq(BlockT)
      BY <1>9, CarveType DEF Carve
    <2>2. /\ Len(c) = Len(freelist) /\ c[k] = r
          /\ \A j \in 1 .. Len(freelist) : j # k => c[j] = freelist[j]
      BY <2>1
    <2>3. r.pa = b.pa + n /\ After(r) = After(b)
      <3>1. r.pa = b.pa + n /\ r.num_pages = b.num_pages - n
        BY DEF Block
      <3> HIDE DEF r, b
      <3> QED
        BY <1>2, <3>1 DEF After
    <2>4. r \in BlockT
      BY <2>1, <2>2
    <2>5. \A p : p \in Pages(r) <=> p \in Int /\ b.pa + n <= p /\ p < After(b)
      BY <2>3, <2>4, BlockEnds
    <2> HIDE DEF r, c
    <2>6. Pages(r) = Pages(b) \ got
      <3> HIDE DEF b
      <3>1. \A p : p \in Pages(r) <=> p \in Pages(b) /\ p \notin got
        BY <1>2, <1>3, <1>4, <2>5
      <3> QED
        BY <3>1
    <2>7. PagesOf(c) = PagesOf(freelist) \ got
      <3>1. ASSUME NEW j \in 1 .. Len(freelist)
            PROVE  Pages(c[j]) = Pages(freelist[j]) \ got
        <4>1. CASE j = k
          BY <2>2, <2>6, <4>1
        <4>2. CASE j # k
          BY <1>6, <2>2, <4>2
        <4> QED
          BY <4>1, <4>2
      <3> QED
        BY <2>2, <3>1 DEF PagesOf
    <2>8. OrderedBut(c, {})
      <3> SUFFICES ASSUME NEW i \in 1 .. Len(freelist) - 1
                   PROVE  After(c[i]) < c[i + 1].pa /\ After(c[i]) <= c[i + 1].pa
        BY <2>2 DEF OrderedBut
      <3>1. After(freelist[i]) < freelist[i + 1].pa
        BY DEF OrderedBut
      <3>2. After(c[i]) = After(freelist[i])
        BY <2>2, <2>3
      <3>3. c[i + 1].pa >= freelist[i + 1].pa /\ c[i + 1].pa \in Int
        <4>1. CASE i + 1 = k
          BY <1>2, <2>2, <2>3, <4>1
        <4>2. CASE i + 1 # k
          <5>1. freelist[i + 1] \in BlockT /\ c[i + 1] = freelist[i + 1]
            BY <2>2, <4>2
          <5> QED
            BY <5>1, BlockEnds
        <4> QED
          BY <4>1, <4>2
      <3>4. freelist[i] \in BlockT /\ freelist[i + 1] \in BlockT
        OBVIOUS
      <3>5. After(freelist[i]) \in Int /\ freelist[i + 1].pa \in Int
        BY <3>4, BlockEnds
      <3> QED
        BY <3>1, <3>2, <3>3, <3>5
    <2> QED
      BY <1>7, <2>7, <2>8 DEF b, c, got
  <1> QED
    BY <1>8, <1>9

=============================================================================
