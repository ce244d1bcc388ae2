-------------------------- MODULE KallocPoolProofs --------------------------
(***************************************************************************)
(* Proofs that the page allocator is a sound pool of counted pages: its    *)
(* free list, counts and reverse map agree with what the threads hold, and *)
(* every step of it is a step of PageRefs.                                 *)
(***************************************************************************)
EXTENDS KallocProofs

(* The pages a thread is about to insert.                                  *)
Limbo(t) == IF op[t].kind = "kfree" THEN Pages(op[t].block) ELSE {}

Holders(pa) == {t \in Thread : pa \in hold[t]}

RmapType == reverse_map \in [0 .. PHYSTOP - KERNBASE - 1 -> Thread \cup {NoTable, Shared}]

(* Free pages and pages in limbo are distinct and have no reference, and   *)
(* the reverse map of a free page has been cleared.                        *)
PoolInv ==
  /\ OrderedBut(freelist, {})
  /\ \A p \in FreePages : ref_count[p] = 0 /\ Rmap(p) = NoTable
  /\ \A t \in Thread : \A p \in Limbo(t) : ref_count[p] = 0 /\ p \notin FreePages
  /\ \A t, u \in Thread : t # u => Limbo(t) \cap Limbo(u) = {}

Shares(t, u, pa) == op[t].kind = "share" /\ op[t].to = u /\ op[t].pa = pa

(* Between uvmcopy's mappages and its incref the parent still refers to    *)
(* the page, the child is not yet counted, and the reverse map says shared.*)
ShareInv ==
  \A t, u \in Thread, pa \in Page : Shares(t, u, pa) =>
    /\ u # t /\ pa \in hold[t] /\ pa \notin hold[u] /\ Rmap(pa) = Shared
    /\ \A v \in Thread \ {t}, p \in Page : ~Shares(v, u, p)

PInv == LowInv /\ RmapType /\ PoolInv /\ RefCountExact /\ RmapSound /\ ShareInv

(* The calls a thread can be in tell each other apart.                     *)
LEMMA OpKinds ==
  ASSUME NEW o \in OpT
  PROVE  /\ o.kind \in {"idle", "kfree", "share"} /\ (o.kind = "idle" <=> o = Idle)
         /\ o.kind = "kfree" => o.block \in BlockT
         /\ o.kind = "share" => o.to \in Thread /\ o.pa \in Page
  <1>1. CASE o = Idle
    BY <1>1 DEF Idle
  <1>2. CASE \E b \in BlockT : o = Freeing(b)
    BY <1>2 DEF Idle, Freeing
  <1>3. CASE \E u \in Thread, pa \in Page : o = Sharing(u, pa)
    BY <1>3 DEF Idle, Sharing
  <1> QED
    BY <1>1, <1>2, <1>3 DEF OpT

(* What they record.                                                       *)
LEMMA OpFields ==
  /\ Idle.kind = "idle"
  /\ \A b : Freeing(b).kind = "kfree" /\ Freeing(b).block = b
  /\ \A u, pa : Sharing(u, pa).kind = "share" /\ Sharing(u, pa).to = u /\ Sharing(u, pa).pa = pa
  BY DEF Idle, Freeing, Sharing

(* The free and the waiting pages in terms of lists and threads.           *)
LEMMA PoolSets ==
  /\ FreePages = PagesOf(freelist)
  /\ \A p : p \in LimboPages <=> \E t \in Thread : p \in Limbo(t)
  /\ freelist \in Seq(BlockT) => FreePages \subseteq Page
  /\ \A t \in Thread : op \in [Thread -> OpT] => Limbo(t) \subseteq Page
  <1>1. FreePages = PagesOf(freelist)
    BY DEF FreePages, PagesOf
  <1>2. ASSUME NEW p PROVE p \in LimboPages <=> \E t \in Thread : p \in Limbo(t)
    BY DEF LimboPages, Limbo
  <1>3. ASSUME freelist \in Seq(BlockT) PROVE FreePages \subseteq Page
    <2>1. \A i \in 1 .. Len(freelist) : Pages(freelist[i]) \subseteq Page
      BY <1>3, PagesType
    <2> QED
      BY <2>1 DEF FreePages
  <1>4. ASSUME NEW t \in Thread, op \in [Thread -> OpT] PROVE Limbo(t) \subseteq Page
    BY <1>4, OpKinds, PagesType DEF Limbo
  <1> QED
    BY <1>1, <1>2, <1>3, <1>4

(* The set of a page's holders is finite.                                  *)
LEMMA HoldersFinite ==
  \A pa : IsFiniteSet(Holders(pa)) /\ Cardinality(Holders(pa)) \in Nat
  <1>1. \A pa : IsFiniteSet(Holders(pa))
    BY FS_Subset, LayoutAssumption DEF Holders
  <1> QED
    BY <1>1, FS_CardinalityType

(* What the exact counts say of a page somebody holds, or holds alone.     *)
LEMMA HeldCounted ==
  ASSUME RefCountExact, NEW pa \in Page
  PROVE  /\ ref_count[pa] \in Nat /\ ref_count[pa] = Cardinality(Holders(pa))
         /\ \A t \in Thread : pa \in hold[t] => ref_count[pa] > 0
         /\ \A t, u \in Thread : ref_count[pa] = 1 /\ pa \in hold[t] /\ pa \in hold[u] => t = u
  <1>1. ref_count[pa] \in Nat /\ ref_count[pa] = Cardinality(Holders(pa))
    BY HoldersFinite DEF RefCountExact, Holders
  <1>2. ASSUME NEW t \in Thread, pa \in hold[t] PROVE ref_count[pa] > 0
    <2>1. Holders(pa) # {}
      BY <1>2 DEF Holders
    <2>2. Cardinality(Holders(pa)) # 0
      BY <2>1, HoldersFinite, FS_EmptySet
    <2> QED
      BY <1>1, <2>2
  <1>3. ASSUME NEW t \in Thread, NEW u \in Thread,
               ref_count[pa] = 1, pa \in hold[t], pa \in hold[u]
        PROVE  t = u
    <2>1. PICK x : Holders(pa) = {x}
      BY <1>1, <1>3, HoldersFinite, FS_Singleton
    <2>2. t \in Holders(pa) /\ u \in Holders(pa)
      BY <1>3 DEF Holders
    <2> QED
      BY <2>1, <2>2
  <1> QED
    BY <1>1, <1>2, <1>3

(* A thread that gets pages it did not hold is one more holder of each.    *)
LEMMA HoldersGain ==
  ASSUME hold \in [Thread -> SUBSET Page], NEW t \in Thread, NEW G,
         hold' = [hold EXCEPT ![t] = @ \cup G], G \cap hold[t] = {}
  PROVE  \A pa \in Page : Cardinality(Holders(pa)')
           = Cardinality(Holders(pa)) + (IF pa \in G THEN 1 ELSE 0)
  <1> SUFFICES ASSUME NEW pa \in Page
               PROVE  Cardinality(Holders(pa)')
                        = Cardinality(Holders(pa)) + (IF pa \in G THEN 1 ELSE 0)
    OBVIOUS
  <1>1. Cardinality(Holders(pa)) \in Nat
    BY HoldersFinite
  <1>2. CASE pa \in G
    <2>1. Holders(pa)' = Holders(pa) \cup {t} /\ t \notin Holders(pa)
      BY <1>2 DEF Holders
    <2>2. Cardinality(Holders(pa) \cup {t}) = Cardinality(Holders(pa)) + 1
      BY <2>1, HoldersFinite, FS_AddElement
    <2> QED
      BY <1>2, <2>1, <2>2
  <1>3. CASE pa \notin G
    <2>1. Holders(pa)' = Holders(pa)
      BY <1>3 DEF Holders
    <2> QED
      BY <1>1, <1>3, <2>1
  <1> QED
    BY <1>2, <1>3

(* One that gives pages up is one less.                                    *)
LEMMA HoldersLose ==
  ASSUME hold \in [Thread -> SUBSET Page], NEW t \in Thread, NEW G,
         hold' = [hold EXCEPT ![t] = @ \ G], G \subseteq hold[t]
  PROVE  \A pa \in Page : Cardinality(Holders(pa)')
           = Cardinality(Holders(pa)) - (IF pa \in G THEN 1 ELSE 0)
  <1> SUFFICES ASSUME NEW pa \in Page
               PROVE  Cardinality(Holders(pa)')
                        = Cardinality(Holders(pa)) - (IF pa \in G THEN 1 ELSE 0)
    OBVIOUS
  <1>1. Cardinality(Holders(pa)) \in Nat
    BY HoldersFinite
  <1>2. CASE pa \in G
    <2>1. Holders(pa)' = Holders(pa) \ {t} /\ t \in Holders(pa)
      BY <1>2 DEF Holders
    <2>2. Cardinality(Holders(pa) \ {t}) = Cardinality(Holders(pa)) - 1
      BY <2>1, HoldersFinite, FS_RemoveElement
    <2> QED
      BY <1>2, <2>1, <2>2
  <1>3. CASE pa \notin G
    <2>1. Holders(pa)' = Holders(pa)
      BY <1>3 DEF Holders
    <2> QED
      BY <1>1, <1>3, <2>1
  <1> QED
    BY <1>2, <1>3

(* An entry of the reverse map that is recorded changes, and no other.     *)
LEMMA RmapRecorded ==
  ASSUME RmapType, NEW pa \in Page, NEW t \in Thread, RecordRmap(pa, t)
  PROVE  /\ RmapType'
         /\ Rmap(pa)' = (IF Rmap(pa) = NoTable THEN t ELSE IF Rmap(pa) # t THEN Shared ELSE t)
         /\ \A p \in Page \ {pa} : Rmap(p)' = Rmap(p)
  <1>1. \A p \in Page : p - KERNBASE \in 0 .. PHYSTOP - KERNBASE - 1 /\ p \in Int
    BY LayoutAssumption DEF Page
  <1>2. \A p \in Page \ {pa} : p - KERNBASE # pa - KERNBASE
    BY <1>1, LayoutAssumption
  <1> QED
    BY <1>1, <1>2 DEF RmapType, RecordRmap, Rmap

-----------------------------------------------------------------------------
(* kalloc_contig keeps the invariant, and hands out free pages.            *)
LEMMA KallocContigKeeps ==
  ASSUME PInv, LowInv', NEW t \in Thread, NEW n \in Sizes, KallocContig(t, n)
  PROVE  PInv' /\ \E S \in SUBSET Page : Refs!Alloc(S)
  <1>1. n \in Nat \ {0}
    BY LayoutAssumption
  <1>2. PICK k \in 1 .. Len(freelist) :
          /\ freelist[k].num_pages >= n
          /\ freelist' = Carve(n, k)
          /\ ref_count' = [f \in Frame |->
                             IF f \in Pages(Block(freelist[k].pa, n)) THEN 1 ELSE ref_count[f]]
          /\ hold' = [hold EXCEPT ![t] = @ \cup Pages(Block(freelist[k].pa, n))]
    BY DEF KallocContig, BestFit
  <1>3. PICK got : got = Pages(Block(freelist[k].pa, n))
    OBVIOUS
  <1>4. op' = op /\ reverse_map' = reverse_map
    BY DEF KallocContig
  <1>5. freelist \in Seq(BlockT) /\ OrderedBut(freelist, {})
    BY DEF PInv, LowInv, PoolInv
  <1>6. /\ got \subseteq PagesOf(freelist) /\ PagesOf(freelist') = PagesOf(freelist) \ got
        /\ OrderedBut(freelist', {})
    BY <1>1, <1>2, <1>3, <1>5, CarveKeeps
  <1>7. /\ got \subseteq FreePages /\ FreePages' = FreePages \ got /\ FreePages \subseteq Page
    BY <1>5, <1>6, PoolSets DEF FreePages, PagesOf
  <1>8. got # {}
    <2>1. freelist[k] \in BlockT
      BY <1>5
    <2>2. freelist[k].pa \in Nat
      BY <2>1, BlockType, LayoutAssumption DEF Page
    <2>3. Block(freelist[k].pa, n).pa = freelist[k].pa /\ Block(freelist[k].pa, n).num_pages = n
      BY DEF Block
    <2>4. freelist[k].pa \in got
      BY <1>1, <1>3, <2>2, <2>3 DEF Pages
    <2> QED
      BY <2>4
  <1>9. \A p \in Page : ref_count'[p] = IF p \in got THEN 1 ELSE ref_count[p]
    BY <1>2, <1>3, LayoutAssumption DEF Page, Frame
  <1>10. \A p \in got : ref_count[p] = 0 /\ Rmap(p) = NoTable /\ \A u \in Thread : p \notin hold[u]
    <2>1. \A p \in got : ref_count[p] = 0 /\ Rmap(p) = NoTable
      BY <1>7 DEF PInv, PoolInv
    <2>2. \A p \in got, u \in Thread : p \in hold[u] => ref_count[p] > 0
      BY <1>7, HeldCounted DEF PInv
    <2> QED
      BY <2>1, <2>2
  <1>11. \A u \in Thread : hold'[u] = IF u = t THEN hold[u] \cup got ELSE hold[u]
    BY <1>2, <1>3 DEF PInv, LowInv
  <1>12. \A u \in Thread : Limbo(u)' = Limbo(u)
    BY <1>4 DEF Limbo
  <1>13. \A p : Rmap(p)' = Rmap(p)
    BY <1>4 DEF Rmap
  <1>14. RmapType'
    BY <1>4 DEF PInv, RmapType
  <1>15. PoolInv'
    <2>1. \A p \in FreePages' : ref_count'[p] = 0 /\ Rmap(p)' = NoTable
      BY <1>7, <1>9, <1>13 DEF PInv, PoolInv
    <2>2. \A u \in Thread : \A p \in Limbo(u) : p \in Page /\ p \notin got
      BY <1>7, PoolSets DEF PInv, LowInv, PoolInv
    <2>3. \A u \in Thread : \A p \in Limbo(u)' : ref_count'[p] = 0 /\ p \notin FreePages'
      BY <1>7, <1>9, <1>12, <2>2 DEF PInv, PoolInv
    <2> QED
      BY <1>6, <1>12, <2>1, <2>3 DEF PInv, PoolInv
  <1>16. RefCountExact'
    <2>1. \A pa \in Page : Cardinality(Holders(pa)')
            = Cardinality(Holders(pa)) + (IF pa \in got THEN 1 ELSE 0)
      <3>1. got \cap hold[t] = {}
        BY <1>10
      <3>2. hold' = [hold EXCEPT ![t] = @ \cup got]
        BY <1>2, <1>3
      <3>3. hold \in [Thread -> SUBSET Page]
        BY DEF PInv, LowInv
      <3> QED
        BY <3>1, <3>2, <3>3, HoldersGain
    <2>2. \A pa \in Page : ref_count[pa] \in Nat /\ ref_count[pa] = Cardinality(Holders(pa))
      BY HeldCounted DEF PInv
    <2>3. \A pa \in Page : ref_count'[pa] = Cardinality(Holders(pa)')
      BY <1>9, <1>10, <2>1, <2>2
    <2> QED
      BY <2>3 DEF RefCountExact, Holders
  <1>17. RmapSound'
    <2>1. NoTable \notin Thread
      BY LayoutAssumption
    <2> QED
      BY <1>10, <1>11, <1>13, <2>1 DEF PInv, RmapSound
  <1>18. ShareInv'
    <2>1. \A u, v \in Thread, pa \in Page : Shares(u, v, pa)' <=> Shares(u, v, pa)
      BY <1>4 DEF Shares
    <2>2. \A u, v \in Thread, pa \in Page : Shares(u, v, pa) => pa \notin got
      BY <1>10 DEF PInv, ShareInv
    <2> SUFFICES ASSUME NEW u \in Thread, NEW v \in Thread, NEW pa \in Page, Shares(u, v, pa)'
                 PROVE  /\ v # u /\ pa \in hold'[u] /\ pa \notin hold'[v] /\ Rmap(pa)' = Shared
                        /\ \A w \in Thread \ {u}, p \in Page : ~Shares(w, v, p)'
      BY DEF ShareInv
    <2>3. Shares(u, v, pa)
      BY <2>1
    <2>4. /\ v # u /\ pa \in hold[u] /\ pa \notin hold[v] /\ Rmap(pa) = Shared
          /\ \A w \in Thread \ {u}, p \in Page : ~Shares(w, v, p)
      BY <2>3 DEF PInv, ShareInv
    <2> QED
      BY <1>11, <1>13, <2>1, <2>2, <2>3, <2>4
  <1>19. LimboPages' = LimboPages
    BY <1>4 DEF LimboPages
  <1>20. [p \in Page |-> ref_count'[p]]
           = [p \in Page |-> IF p \in got THEN 1 ELSE [q \in Page |-> ref_count[q]][p]]
    BY <1>9
  <1>21. Refs!Alloc(got)
    BY <1>7, <1>8, <1>19, <1>20 DEF Refs!Alloc
  <1>22. got \in SUBSET Page
    BY <1>7
  <1> QED
    BY <1>14, <1>15, <1>16, <1>17, <1>18, <1>21, <1>22 DEF PInv

(* mappages keeps it.                                                      *)
LEMMA MapUserKeeps ==
  ASSUME PInv, LowInv', NEW t \in Thread, NEW pa \in Page, MapUser(t, pa)
  PROVE  PInv' /\ UNCHANGED <<FreePages, ref_count, LimboPages>>
  <1>1. /\ op[t] = Idle /\ pa \in hold[t] /\ Rmap(pa) = NoTable /\ ref_count[pa] = 1
        /\ RecordRmap(pa, t) /\ UNCHANGED <<freelist, ref_count, hold, op, curr>>
    BY DEF MapUser
  <1>2. RmapType' /\ Rmap(pa)' = t /\ \A p \in Page \ {pa} : Rmap(p)' = Rmap(p)
    BY <1>1, RmapRecorded DEF PInv
  <1>3. FreePages' = FreePages /\ LimboPages' = LimboPages
    BY <1>1 DEF FreePages, LimboPages
  <1>4. \A u \in Thread : Limbo(u)' = Limbo(u)
    BY <1>1 DEF Limbo
  <1>5. FreePages \subseteq Page /\ pa \notin FreePages
    BY <1>1, PoolSets DEF PInv, LowInv, PoolInv
  <1>6. PoolInv'
    BY <1>1, <1>2, <1>3, <1>4, <1>5 DEF PInv, PoolInv
  <1>7. RefCountExact'
    BY <1>1 DEF PInv, RefCountExact
  <1>8. \A u \in Thread : pa \in hold[u] => u = t
    BY <1>1, HeldCounted DEF PInv
  <1>9. RmapSound'
    BY <1>1, <1>2, <1>8 DEF PInv, RmapSound
  <1>10. ShareInv'
    <2>1. NoTable # Shared
      BY LayoutAssumption
    <2>2. \A u, v \in Thread, p \in Page : Shares(u, v, p)' <=> Shares(u, v, p)
      BY <1>1 DEF Shares
    <2>3. \A u, v \in Thread, p \in Page : Shares(u, v, p) => p # pa
      BY <1>1, <2>1 DEF PInv, ShareInv
    <2> QED
      BY <1>1, <1>2, <2>2, <2>3 DEF PInv, ShareInv
  <1> QED
    BY <1>1, <1>2, <1>3, <1>6, <1>7, <1>9, <1>10 DEF PInv

(* The mapping of a shared page keeps it.                                  *)
LEMMA ShareMapKeeps ==
  ASSUME PInv, LowInv', NEW t \in Thread, NEW u \in Thread, NEW pa \in Page, ShareMap(t, u, pa)
  PROVE  PInv' /\ UNCHANGED <<FreePages, ref_count, LimboPages>>
  <1>1. /\ op[t] = Idle /\ t # u /\ \A v \in Thread : op[v].kind = "share" => op[v].to # u
        /\ pa \in hold[t] /\ pa \notin hold[u] /\ Rmap(pa) # NoTable
        /\ RecordRmap(pa, u) /\ op' = [op EXCEPT ![t] = Sharing(u, pa)]
        /\ UNCHANGED <<freelist, ref_count, hold, curr>>
    BY DEF ShareMap
  <1>2. Rmap(pa) # u
    BY <1>1 DEF PInv, RmapSound
  <1>3. RmapType' /\ Rmap(pa)' = Shared /\ \A p \in Page \ {pa} : Rmap(p)' = Rmap(p)
    BY <1>1, <1>2, RmapRecorded DEF PInv
  <1>4. /\ op'[t].kind = "share" /\ op'[t].to = u /\ op'[t].pa = pa
        /\ \A v \in Thread \ {t} : op'[v] = op[v]
    BY <1>1, OpFields DEF PInv, LowInv
  <1>5. op[t].kind = "idle"
    BY <1>1, OpFields
  <1>6. \A v \in Thread : Limbo(v)' = Limbo(v)
    BY <1>4, <1>5 DEF Limbo
  <1>7. FreePages' = FreePages /\ LimboPages' = LimboPages
    <2>1. \A p : p \in LimboPages' <=> \E v \in Thread : p \in Limbo(v)'
      BY DEF LimboPages, Limbo
    <2>2. LimboPages' = LimboPages
      BY <1>6, <2>1, PoolSets
    <2> QED
      BY <1>1, <2>2 DEF FreePages
  <1>8. FreePages \subseteq Page /\ pa \notin FreePages
    BY <1>1, PoolSets DEF PInv, LowInv, PoolInv
  <1>9. PoolInv'
    BY <1>1, <1>3, <1>6, <1>7, <1>8 DEF PInv, PoolInv
  <1>10. RefCountExact'
    BY <1>1 DEF PInv, RefCountExact
  <1>11. RmapSound'
    <2>1. Shared \notin Thread
      BY LayoutAssumption
    <2> QED
      BY <1>1, <1>3, <2>1 DEF PInv, RmapSound
  <1>12. ShareInv'
    <2>1. \A v, w \in Thread, p \in Page : Shares(v, w, p)'
            <=> (IF v = t THEN w = u /\ p = pa ELSE Shares(v, w, p))
      BY <1>4 DEF Shares
    <2>2. \A v \in Thread, p \in Page : ~Shares(v, u, p)
      BY <1>1 DEF Shares
    <2>3. \A v, w \in Thread, p \in Page : Shares(v, w, p) => Rmap(p)' = Shared
      BY <1>3 DEF PInv, ShareInv
    <2> SUFFICES ASSUME NEW v \in Thread, NEW w \in Thread, NEW p \in Page, Shares(v, w, p)'
                 PROVE  /\ w # v /\ p \in hold'[v] /\ p \notin hold'[w] /\ Rmap(p)' = Shared
                        /\ \A x \in Thread \ {v}, q \in Page : ~Shares(x, w, q)'
      BY DEF ShareInv
    <2>4. CASE v = t
      BY <1>1, <1>3, <2>1, <2>2, <2>4
    <2>5. CASE v # t
      <3>1. Shares(v, w, p) /\ w # u
        BY <2>1, <2>2, <2>5
      <3>2. /\ w # v /\ p \in hold[v] /\ p \notin hold[w]
            /\ \A x \in Thread \ {v}, q \in Page : ~Shares(x, w, q)
        BY <3>1 DEF PInv, ShareInv
      <3> QED
        BY <1>1, <2>1, <2>3, <3>1, <3>2
    <2> QED
      BY <2>4, <2>5
  <1> QED
    BY <1>1, <1>3, <1>7, <1>9, <1>10, <1>11, <1>12 DEF PInv

(* A change of one frame's count, as a change of the pages' counts.        *)
LEMMA CountChanged ==
  ASSUME NEW pa \in Page, \A p \in Page : ref_count[p] \in Int
  PROVE  /\ (\A p \in Page : ref_count'[p] = ref_count[p] + (IF p = pa THEN 1 ELSE 0)) =>
              [p \in Page |-> ref_count'[p]] = [[p \in Page |-> ref_count[p]] EXCEPT ![pa] = @ + 1]
         /\ (\A p \in Page : ref_count'[p] = ref_count[p] - (IF p = pa THEN 1 ELSE 0)) =>
              [p \in Page |-> ref_count'[p]] = [[p \in Page |-> ref_count[p]] EXCEPT ![pa] = @ - 1]
  <1> DEFINE F == [p \in Page |-> ref_count[p]]
  <1>1. F = [p \in Page |-> ref_count[p]] /\ F \in [Page -> Int] /\ \A p \in Page : F[p] = ref_count[p]
    OBVIOUS
  <1> HIDE DEF F
  <1>2. /\ [F EXCEPT ![pa] = @ + 1] = [p \in Page |-> IF p = pa THEN F[p] + 1 ELSE F[p]]
        /\ [F EXCEPT ![pa] = @ - 1] = [p \in Page |-> IF p = pa THEN F[p] - 1 ELSE F[p]]
    BY <1>1
  <1>3. ASSUME \A p \in Page : ref_count'[p] = ref_count[p] + (IF p = pa THEN 1 ELSE 0)
        PROVE  [p \in Page |-> ref_count'[p]] = [F EXCEPT ![pa] = @ + 1]
    <2>1. \A p \in Page : ref_count'[p] = IF p = pa THEN F[p] + 1 ELSE F[p]
      BY <1>1, <1>3
    <2> QED
      BY <1>2, <2>1
  <1>4. ASSUME \A p \in Page : ref_count'[p] = ref_count[p] - (IF p = pa THEN 1 ELSE 0)
        PROVE  [p \in Page |-> ref_count'[p]] = [F EXCEPT ![pa] = @ - 1]
    <2>1. \A p \in Page : ref_count'[p] = IF p = pa THEN F[p] - 1 ELSE F[p]
      BY <1>1, <1>4
    <2> QED
      BY <1>2, <2>1
  <1> QED
    BY <1>1, <1>3, <1>4

(* incref keeps it, and adds a reference to a page that has one.           *)
LEMMA IncrefKeeps ==
  ASSUME PInv, LowInv', NEW t \in Thread, Incref(t)
  PROVE  PInv' /\ \E p \in Page : Refs!Grab(p)
  <1>0. PICK u, pa : u = op[t].to /\ pa = op[t].pa
    OBVIOUS
  <1>1. /\ op[t].kind = "share" /\ ref_count' = [ref_count EXCEPT ![pa] = @ + 1]
        /\ hold' = [hold EXCEPT ![u] = @ \cup {pa}] /\ op' = [op EXCEPT ![t] = Idle]
        /\ UNCHANGED <<freelist, reverse_map, curr>>
    BY <1>0 DEF Incref
  <1>2. u \in Thread /\ pa \in Page /\ Shares(t, u, pa)
    BY <1>0, <1>1, OpKinds DEF PInv, LowInv, Shares
  <1>3. /\ u # t /\ pa \in hold[t] /\ pa \notin hold[u] /\ Rmap(pa) = Shared
        /\ \A v \in Thread \ {t}, p \in Page : ~Shares(v, u, p)
    BY <1>2 DEF PInv, ShareInv
  <1>4. \A v \in Thread : hold'[v] = IF v = u THEN hold[v] \cup {pa} ELSE hold[v]
    BY <1>1 DEF PInv, LowInv
  <1>5. op'[t].kind = "idle" /\ \A v \in Thread \ {t} : op'[v] = op[v]
    BY <1>1, OpFields DEF PInv, LowInv
  <1>6. \A p \in Page : ref_count'[p] = ref_count[p] + (IF p = pa THEN 1 ELSE 0)
    <2>1. pa \in Frame /\ Page \subseteq Frame /\ ref_count \in [Frame -> Int]
      BY <1>2, LayoutAssumption DEF Page, Frame, PInv, LowInv
    <2> QED
      BY <1>1, <2>1
  <1>7. ref_count[pa] > 0
    BY <1>2, <1>3, HeldCounted DEF PInv
  <1>8. \A v \in Thread : Limbo(v)' = Limbo(v)
    BY <1>1, <1>5 DEF Limbo
  <1>9. FreePages' = FreePages /\ LimboPages' = LimboPages
    <2>1. \A p : p \in LimboPages' <=> \E v \in Thread : p \in Limbo(v)'
      BY DEF LimboPages, Limbo
    <2>2. LimboPages' = LimboPages
      BY <1>8, <2>1, PoolSets
    <2> QED
      BY <1>1, <2>2 DEF FreePages
  <1>10. RmapType' /\ \A p : Rmap(p)' = Rmap(p)
    BY <1>1 DEF PInv, RmapType, Rmap
  <1>11. PoolInv'
    <2>1. FreePages \subseteq Page /\ \A v \in Thread : Limbo(v) \subseteq Page
      BY PoolSets DEF PInv, LowInv
    <2>2. \A p \in Page : ref_count[p] = 0 => ref_count'[p] = 0
      BY <1>6, <1>7
    <2> QED
      BY <1>1, <1>8, <1>9, <1>10, <2>1, <2>2 DEF PInv, PoolInv
  <1>12. RefCountExact'
    <2>1. {pa} \cap hold[u] = {} /\ hold \in [Thread -> SUBSET Page]
      BY <1>3 DEF PInv, LowInv
    <2>2. \A p \in Page : Cardinality(Holders(p)')
            = Cardinality(Holders(p)) + (IF p \in {pa} THEN 1 ELSE 0)
      BY <1>1, <1>2, <2>1, HoldersGain
    <2>3. \A p \in Page : ref_count[p] = Cardinality(Holders(p))
      BY HeldCounted DEF PInv
    <2>4. \A p \in Page : ref_count'[p] = Cardinality(Holders(p)')
      BY <1>6, <2>2, <2>3
    <2> QED
      BY <2>4 DEF RefCountExact, Holders
  <1>13. RmapSound'
    <2>1. Shared \notin Thread
      BY LayoutAssumption
    <2> QED
      BY <1>3, <1>4, <1>10, <2>1 DEF PInv, RmapSound
  <1>14. ShareInv'
    <2>1. \A v, w \in Thread, p \in Page : Shares(v, w, p)' <=> v # t /\ Shares(v, w, p)
      BY <1>5 DEF Shares
    <2> SUFFICES ASSUME NEW v \in Thread, NEW w \in Thread, NEW p \in Page, Shares(v, w, p)'
                 PROVE  /\ w # v /\ p \in hold'[v] /\ p \notin hold'[w] /\ Rmap(p)' = Shared
                        /\ \A x \in Thread \ {v}, q \in Page : ~Shares(x, w, q)'
      BY DEF ShareInv
    <2>2. v # t /\ Shares(v, w, p) /\ w # u
      BY <1>3, <2>1
    <2>3. /\ w # v /\ p \in hold[v] /\ p \notin hold[w] /\ Rmap(p) = Shared
          /\ \A x \in Thread \ {v}, q \in Page : ~Shares(x, w, q)
      BY <2>2 DEF PInv, ShareInv
    <2> QED
      BY <1>4, <1>10, <2>1, <2>2, <2>3
  <1>15. [p \in Page |-> ref_count'[p]]
           = [[p \in Page |-> ref_count[p]] EXCEPT ![pa] = @ + 1]
    <2>1. \A p \in Page : ref_count[p] \in Int
      BY HeldCounted DEF PInv
    <2> QED
      BY <1>2, <1>6, <2>1, CountChanged
  <1>16. Refs!Grab(pa)
    BY <1>2, <1>7, <1>9, <1>15 DEF Refs!Grab
  <1> QED
    BY <1>2, <1>10, <1>11, <1>12, <1>13, <1>14, <1>16 DEF PInv

(* decref keeps it, and takes one reference away.                          *)
LEMMA DecrefKeeps ==
  ASSUME PInv, LowInv', NEW t \in Thread, NEW pa \in Page, Decref(t, pa)
  PROVE  PInv' /\ Refs!Drop(pa)
  <1>1. /\ op[t] = Idle /\ pa \in hold[t] /\ ref_count' = [ref_count EXCEPT ![pa] = @ - 1]
        /\ hold' = [hold EXCEPT ![t] = @ \ {pa}] /\ UNCHANGED <<freelist, reverse_map, op, curr>>
    BY DEF Decref
  <1>2. \A v \in Thread : hold'[v] = IF v = t THEN hold[v] \ {pa} ELSE hold[v]
    BY <1>1 DEF PInv, LowInv
  <1>3. \A p \in Page : ref_count'[p] = ref_count[p] - (IF p = pa THEN 1 ELSE 0)
    <2>1. pa \in Frame /\ Page \subseteq Frame /\ ref_count \in [Frame -> Int]
      BY LayoutAssumption DEF Page, Frame, PInv, LowInv
    <2> QED
      BY <1>1, <2>1
  <1>4. ref_count[pa] > 0
    BY <1>1, HeldCounted DEF PInv
  <1>5. \A v \in Thread : Limbo(v)' = Limbo(v)
    BY <1>1 DEF Limbo
  <1>6. FreePages' = FreePages /\ LimboPages' = LimboPages
    BY <1>1 DEF FreePages, LimboPages
  <1>7. RmapType' /\ \A p : Rmap(p)' = Rmap(p)
    BY <1>1 DEF PInv, RmapType, Rmap
  <1>8. PoolInv'
    <2>1. FreePages \subseteq Page /\ \A v \in Thread : Limbo(v) \subseteq Page
      BY PoolSets DEF PInv, LowInv
    <2>2. \A p \in Page : ref_count[p] = 0 => ref_count'[p] = 0
      BY <1>3, <1>4
    <2> QED
      BY <1>1, <1>5, <1>6, <1>7, <2>1, <2>2 DEF PInv, PoolInv
  <1>9. RefCountExact'
    <2>1. {pa} \subseteq hold[t] /\ hold \in [Thread -> SUBSET Page]
      BY <1>1 DEF PInv, LowInv
    <2>2. \A p \in Page : Cardinality(Holders(p)')
            = Cardinality(Holders(p)) - (IF p \in {pa} THEN 1 ELSE 0)
      BY <1>1, <2>1, HoldersLose
    <2>3. \A p \in Page : ref_count[p] = Cardinality(Holders(p))
      BY HeldCounted DEF PInv
    <2>4. \A p \in Page : ref_count'[p] = Cardinality(Holders(p)')
      BY <1>3, <2>2, <2>3
    <2> QED
      BY <2>4 DEF RefCountExact, Holders
  <1>10. RmapSound'
    BY <1>2, <1>7 DEF PInv, RmapSound
  <1>11. ShareInv'
    <2>1. \A v, w \in Thread, p \in Page : Shares(v, w, p)' <=> Shares(v, w, p)
      BY <1>1 DEF Shares
    <2>2. \A w \in Thread, p \in Page : ~Shares(t, w, p)
      BY <1>1, OpFields DEF Shares
    <2> SUFFICES ASSUME NEW v \in Thread, NEW w \in Thread, NEW p \in Page, Shares(v, w, p)'
                 PROVE  /\ w # v /\ p \in hold'[v] /\ p \notin hold'[w] /\ Rmap(p)' = Shared
                        /\ \A x \in Thread \ {v}, q \in Page : ~Shares(x, w, q)'
      BY DEF ShareInv
    <2>3. v # t /\ Shares(v, w, p)
      BY <2>1, <2>2
    <2>4. /\ w # v /\ p \in hold[v] /\ p \notin hold[w] /\ Rmap(p) = Shared
          /\ \A x \in Thread \ {v}, q \in Page : ~Shares(x, w, q)
      BY <2>3 DEF PInv, ShareInv
    <2> QED
      BY <1>2, <1>7, <2>1, <2>3, <2>4
  <1>12. [p \in Page |-> ref_count'[p]]
           = [[p \in Page |-> ref_count[p]] EXCEPT ![pa] = @ - 1]
    <2>1. \A p \in Page : ref_count[p] \in Int
      BY HeldCounted DEF PInv
    <2> QED
      BY <1>3, <2>1, CountChanged
  <1>13. Refs!Drop(pa)
    BY <1>4, <1>6, <1>12 DEF Refs!Drop
  <1> QED
    BY <1>7, <1>8, <1>9, <1>10, <1>11, <1>13 DEF PInv

(* The first half of kfree_contig keeps it: the pages it puts in limbo had *)
(* their only reference with the caller.                                   *)
LEMMA KfreeBeginKeeps ==
  ASSUME PInv, LowInv', NEW t \in Thread, NEW n \in Sizes, NEW a \in Page,
         KfreeBegin(t, Block(a, n))
  PROVE  PInv' /\ \E S \in SUBSET Page : Refs!Release(S)
  <1>0. PICK b : b = Block(a, n)
    OBVIOUS
  <1>1. /\ op[t] = Idle /\ Pages(b) \subseteq hold[t]
        /\ b.num_pages > 1 => \A f \in Pages(b) : ref_count[f] = 1
        /\ ref_count' = [f \in Frame |-> ref_count[f] - IF f \in Pages(b) THEN 1 ELSE 0]
        /\ hold' = [hold EXCEPT ![t] = @ \ Pages(b)]
        /\ op' = IF ref_count[b.pa] > 1 THEN op ELSE [op EXCEPT ![t] = Freeing(b)]
        /\ UNCHANGED <<freelist, reverse_map, curr>>
    BY <1>0 DEF KfreeBegin
  <1>2. n \in Nat \ {0} /\ a \in Int /\ b.pa = a /\ b.num_pages = n
    BY <1>0, LayoutAssumption DEF Page, Block
  <1>3. PICK S : S = Pages(b)
    OBVIOUS
  <1>4. S \subseteq Page /\ a \in S /\ (n = 1 => S = {a})
    <2>1. S \subseteq Page
      BY <1>1, <1>3 DEF PInv, LowInv
    <2> QED
      BY <1>2, <1>3, <2>1 DEF Pages
  <1>5. \A p \in Page : ref_count[p] \in Nat /\ (p \in S => ref_count[p] > 0)
    BY <1>1, <1>3, HeldCounted DEF PInv
  <1>6. \A p \in Page : ref_count'[p] = ref_count[p] - (IF p \in S THEN 1 ELSE 0)
    BY <1>1, <1>3, LayoutAssumption DEF Page, Frame
  <1>7. \A v \in Thread : hold'[v] = IF v = t THEN hold[v] \ S ELSE hold[v]
    BY <1>1, <1>3 DEF PInv, LowInv
  <1>8. \A v \in Thread \ {t} : op'[v] = op[v]
    BY <1>1 DEF PInv, LowInv
  <1>9. PICK L : /\ L = {p \in S : ref_count[p] = 1}
                 /\ Limbo(t) = {} /\ Limbo(t)' = L /\ op'[t].kind # "share"
    <2>1. Limbo(t) = {}
      BY <1>1, OpFields DEF Limbo
    <2>2. CASE ref_count[a] > 1
      <3>1. {p \in S : ref_count[p] = 1} = {}
        BY <1>1, <1>2, <1>3, <1>4, <2>2
      <3>2. op' = op
        BY <1>1, <1>2, <2>2
      <3> QED
        BY <1>1, <2>1, <3>1, <3>2, OpFields DEF Limbo
    <2>3. CASE ~(ref_count[a] > 1)
      <3>1. ref_count[a] = 1
        BY <1>4, <1>5, <2>3
      <3>2. \A p \in S : ref_count[p] = 1
        BY <1>1, <1>2, <1>3, <1>4, <3>1
      <3>3. op'[t] = Freeing(b)
        BY <1>1, <1>2, <2>3 DEF PInv, LowInv
      <3>4. Limbo(t)' = S /\ op'[t].kind = "kfree"
        BY <1>3, <3>3, OpFields DEF Limbo
      <3> QED
        BY <2>1, <3>2, <3>4
    <2> QED
      BY <2>2, <2>3
  <1>10. \A v \in Thread \ {t} : Limbo(v)' = Limbo(v)
    BY <1>8 DEF Limbo
  <1>11. FreePages' = FreePages /\ LimboPages' = LimboPages \cup L
    <2>1. \A p : p \in LimboPages' <=> \E v \in Thread : p \in Limbo(v)'
      BY DEF LimboPages, Limbo
    <2>2. LimboPages' = LimboPages \cup L
      BY <1>9, <1>10, <2>1, PoolSets
    <2> QED
      BY <1>1, <2>2 DEF FreePages
  <1>12. RmapType' /\ \A p : Rmap(p)' = Rmap(p)
    BY <1>1 DEF PInv, RmapType, Rmap
  <1>13. PoolInv'
    <2>1. FreePages \subseteq Page /\ \A v \in Thread : Limbo(v) \subseteq Page
      BY PoolSets DEF PInv, LowInv
    <2>2. \A p \in Page : ref_count[p] = 0 => p \notin S /\ ref_count'[p] = 0
      BY <1>5, <1>6
    <2>3. \A p \in L : p \in Page /\ ref_count[p] # 0 /\ ref_count'[p] = 0
      BY <1>4, <1>6, <1>9
    <2>4. \A p \in FreePages' : ref_count'[p] = 0 /\ Rmap(p)' = NoTable
      BY <1>11, <1>12, <2>1, <2>2 DEF PInv, PoolInv
    <2>5. \A v \in Thread : \A p \in Limbo(v)' : ref_count'[p] = 0 /\ p \notin FreePages'
      BY <1>9, <1>10, <1>11, <2>1, <2>2, <2>3 DEF PInv, PoolInv
    <2>6. \A v, w \in Thread : v # w => Limbo(v)' \cap Limbo(w)' = {}
      <3>1. \A v \in Thread \ {t} : Limbo(v)' \cap L = {}
        BY <1>10, <2>3 DEF PInv, PoolInv
      <3>2. \A v, w \in Thread \ {t} : v # w => Limbo(v)' \cap Limbo(w)' = {}
        BY <1>10 DEF PInv, PoolInv
      <3> SUFFICES ASSUME NEW v \in Thread, NEW w \in Thread, v # w
                   PROVE  Limbo(v)' \cap Limbo(w)' = {}
        OBVIOUS
      <3>3. CASE v = t
        BY <1>9, <3>1, <3>3
      <3>4. CASE w = t
        BY <1>9, <3>1, <3>4
      <3>5. CASE v # t /\ w # t
        BY <3>2, <3>5
      <3> QED
        BY <3>3, <3>4, <3>5
    <2>7. OrderedBut(freelist', {})
      BY <1>1 DEF PInv, PoolInv
    <2> QED
      BY <2>4, <2>5, <2>6, <2>7 DEF PoolInv
  <1>14. RefCountExact'
    <2>1. S \subseteq hold[t] /\ hold \in [Thread -> SUBSET Page] /\ hold' = [hold EXCEPT ![t] = @ \ S]
      BY <1>1, <1>3 DEF PInv, LowInv
    <2>2. \A p \in Page : Cardinality(Holders(p)')
            = Cardinality(Holders(p)) - (IF p \in S THEN 1 ELSE 0)
      BY <2>1, HoldersLose
    <2>3. \A p \in Page : ref_count[p] = Cardinality(Holders(p))
      BY HeldCounted DEF PInv
    <2>4. \A p \in Page : ref_count'[p] = Cardinality(Holders(p)')
      BY <1>6, <2>2, <2>3
    <2> QED
      BY <2>4 DEF RefCountExact, Holders
  <1>15. RmapSound'
    BY <1>7, <1>12 DEF PInv, RmapSound
  <1>16. ShareInv'
    <2>1. \A v, w \in Thread, p \in Page : Shares(v, w, p)' => v # t /\ Shares(v, w, p)
      BY <1>8, <1>9 DEF Shares
    <2> SUFFICES ASSUME NEW v \in Thread, NEW w \in Thread, NEW p \in Page, Shares(v, w, p)'
                 PROVE  /\ w # v /\ p \in hold'[v] /\ p \notin hold'[w] /\ Rmap(p)' = Shared
                        /\ \A x \in Thread \ {v}, q \in Page : ~Shares(x, w, q)'
      BY DEF ShareInv
    <2>2. v # t /\ Shares(v, w, p)
      BY <2>1
    <2>3. /\ w # v /\ p \in hold[v] /\ p \notin hold[w] /\ Rmap(p) = Shared
          /\ \A x \in Thread \ {v}, q \in Page : ~Shares(x, w, q)
      BY <2>2 DEF PInv, ShareInv
    <2> QED
      BY <1>7, <1>12, <2>1, <2>2, <2>3
  <1>17. Refs!Release(S)
    <2>1. S # {} /\ \A p \in S : p \in Page /\ [q \in Page |-> ref_count[q]][p] = ref_count[p]
      BY <1>4
    <2>2. [p \in Page |-> ref_count'[p]] = [p \in Page |->
             IF p \in S THEN [q \in Page |-> ref_count[q]][p] - 1
                        ELSE [q \in Page |-> ref_count[q]][p]]
      BY <1>5, <1>6
    <2>3. L = {p \in S : [q \in Page |-> ref_count[q]][p] = 1}
      BY <1>9, <2>1
    <2>4. \A p \in S : [q \in Page |-> ref_count[q]][p] > 0
      BY <1>5, <2>1
    <2> QED
      BY <1>11, <2>1, <2>2, <2>3, <2>4 DEF Refs!Release
  <1>18. S \in SUBSET Page
    BY <1>4
  <1> QED
    BY <1>12, <1>13, <1>14, <1>15, <1>16, <1>17, <1>18 DEF PInv

(* The second half of kfree_contig keeps it: nobody refers to the pages    *)
(* it inserts, and no other call is about to insert them.                  *)
LEMMA KfreeEndKeeps ==
  ASSUME PInv, LowInv', NEW t \in Thread, KfreeEnd(t)
  PROVE  PInv' /\ \E S \in SUBSET Page : Refs!Return(S)
  <1>0. PICK b, S : b = op[t].block /\ S = Pages(b)
    OBVIOUS
  <1>1. /\ op[t].kind = "kfree" /\ freelist' = InsertBlock(freelist, b)
        /\ reverse_map' = [i \in DOMAIN reverse_map |->
             IF i + KERNBASE \in S THEN NoTable ELSE reverse_map[i]]
        /\ op' = [op EXCEPT ![t] = Idle] /\ ref_count' = ref_count /\ hold' = hold
    BY <1>0 DEF KfreeEnd
  <1>2. b \in BlockT /\ S \subseteq Page /\ S # {}
    <2>1. b \in BlockT
      BY <1>0, <1>1, OpKinds DEF PInv, LowInv
    <2> QED
      BY <1>0, <2>1, PagesType
  <1>3. Limbo(t) = S /\ \A p \in S : ref_count[p] = 0 /\ p \notin FreePages
    <2>1. Limbo(t) = S
      BY <1>0, <1>1 DEF Limbo
    <2> QED
      BY <2>1 DEF PInv, PoolInv
  <1>4. op'[t].kind = "idle" /\ \A v \in Thread \ {t} : op'[v] = op[v]
    BY <1>1, OpFields DEF PInv, LowInv
  <1>5. Limbo(t)' = {} /\ \A v \in Thread \ {t} : Limbo(v)' = Limbo(v)
    BY <1>4 DEF Limbo
  <1>6. FreePages' = FreePages \cup S /\ OrderedBut(freelist', {})
    <2>1. freelist \in Seq(BlockT) /\ OrderedBut(freelist, {})
      BY DEF PInv, LowInv, PoolInv
    <2>2. Pages(b) \cap PagesOf(freelist) = {}
      BY <1>0, <1>3, PoolSets
    <2>3. PagesOf(freelist') = PagesOf(freelist) \cup S /\ OrderedBut(freelist', {})
      BY <1>0, <1>1, <1>2, <2>1, <2>2, InsertBlockKeeps
    <2>4. FreePages' = PagesOf(freelist')
      BY DEF FreePages, PagesOf
    <2> QED
      BY <2>3, <2>4, PoolSets
  <1>7. LimboPages' = LimboPages \ S /\ S \subseteq LimboPages
    <2>1. \A p : p \in LimboPages' <=> \E v \in Thread : p \in Limbo(v)'
      BY DEF LimboPages, Limbo
    <2>2. \A v \in Thread \ {t} : Limbo(v) \cap S = {}
      BY <1>3 DEF PInv, PoolInv
    <2>3. \A p : p \in LimboPages' <=> \E v \in Thread \ {t} : p \in Limbo(v)
      BY <1>5, <2>1
    <2>4. \A p : p \in LimboPages <=> p \in S \/ \E v \in Thread \ {t} : p \in Limbo(v)
      BY <1>3, PoolSets
    <2>5. \A p : p \in LimboPages' <=> p \in LimboPages /\ p \notin S
      BY <2>2, <2>3, <2>4
    <2> QED
      BY <2>4, <2>5
  <1>8. RmapType' /\ \A p \in Page : Rmap(p)' = IF p \in S THEN NoTable ELSE Rmap(p)
    <2>1. \A p \in Page : p - KERNBASE \in 0 .. PHYSTOP - KERNBASE - 1 /\ (p - KERNBASE) + KERNBASE = p
      BY LayoutAssumption DEF Page
    <2>2. reverse_map \in [0 .. PHYSTOP - KERNBASE - 1 -> Thread \cup {NoTable, Shared}]
      BY DEF PInv, RmapType
    <2>3. RmapType'
      BY <1>1, <2>2 DEF RmapType
    <2> QED
      BY <1>1, <2>1, <2>2, <2>3 DEF Rmap
  <1>9. PoolInv'
    <2>1. FreePages \subseteq Page
      BY PoolSets DEF PInv, LowInv
    <2>2. \A p \in FreePages' : ref_count'[p] = 0 /\ Rmap(p)' = NoTable
      BY <1>1, <1>2, <1>3, <1>6, <1>8, <2>1 DEF PInv, PoolInv
    <2>3. \A v \in Thread : \A p \in Limbo(v)' : ref_count'[p] = 0 /\ p \notin FreePages'
      BY <1>1, <1>3, <1>5, <1>6 DEF PInv, PoolInv
    <2>4. \A v, w \in Thread : v # w => Limbo(v)' \cap Limbo(w)' = {}
      BY <1>5 DEF PInv, PoolInv
    <2> QED
      BY <1>6, <2>2, <2>3, <2>4 DEF PoolInv
  <1>10. RefCountExact'
    BY <1>1 DEF PInv, RefCountExact
  <1>11. RmapSound'
    <2>1. NoTable \notin Thread
      BY LayoutAssumption
    <2> QED
      BY <1>1, <1>8, <2>1 DEF PInv, RmapSound
  <1>12. ShareInv'
    <2>1. \A v, w \in Thread, p \in Page : Shares(v, w, p)' => Shares(v, w, p)
      BY <1>4 DEF Shares
    <2> SUFFICES ASSUME NEW v \in Thread, NEW w \in Thread, NEW p \in Page, Shares(v, w, p)'
                 PROVE  /\ w # v /\ p \in hold'[v] /\ p \notin hold'[w] /\ Rmap(p)' = Shared
                        /\ \A x \in Thread \ {v}, q \in Page : ~Shares(x, w, q)'
      BY DEF ShareInv
    <2>2. Shares(v, w, p)
      BY <2>1
    <2>3. /\ w # v /\ p \in hold[v] /\ p \notin hold[w] /\ Rmap(p) = Shared
          /\ \A x \in Thread \ {v}, q \in Page : ~Shares(x, w, q)
      BY <2>2 DEF PInv, ShareInv
    <2>4. p \notin S
      <3>1. ref_count[p] > 0
        BY <2>3, HeldCounted DEF PInv
      <3> QED
        BY <1>3, <3>1
    <2> QED
      BY <1>1, <1>8, <2>1, <2>3, <2>4
  <1>13. Refs!Return(S)
    BY <1>1, <1>2, <1>6, <1>7 DEF Refs!Return
  <1>14. S \in SUBSET Page
    BY <1>2
  <1> QED
    BY <1>8, <1>9, <1>10, <1>11, <1>12, <1>13, <1>14 DEF PInv

(* A step that leaves the list, the counts, the reverse map and the calls  *)
(* alone, as compaction's are, keeps it.                                   *)
LEMMA QuietKeeps ==
  ASSUME PInv, LowInv', UNCHANGED <<freelist, ref_count, reverse_map, hold, op>>
  PROVE  PInv' /\ UNCHANGED <<FreePages, [p \in Page |-> ref_count[p]], LimboPages>>
  <1>1. RmapType' /\ RefCountExact' /\ RmapSound'
    BY DEF PInv, RmapType, RefCountExact, RmapSound, Rmap
  <1>2. \A p : Rmap(p)' = Rmap(p)
    BY DEF Rmap
  <1>3. \A v \in Thread : Limbo(v)' = Limbo(v)
    BY DEF Limbo
  <1>4. FreePages' = FreePages /\ LimboPages' = LimboPages
    BY DEF FreePages, LimboPages
  <1>5. PoolInv'
    BY <1>2, <1>3, <1>4 DEF PInv, PoolInv
  <1>6. \A v, w \in Thread, p \in Page : Shares(v, w, p)' <=> Shares(v, w, p)
    BY DEF Shares
  <1>7. ShareInv'
    BY <1>2, <1>6 DEF PInv, ShareInv
  <1> QED
    BY <1>1, <1>4, <1>5, <1>7 DEF PInv

-----------------------------------------------------------------------------
(* kinit establishes the invariant.                                        *)
LEMMA PoolInit == Init => PInv /\ Refs!Init
  <1> SUFFICES ASSUME Init PROVE PInv /\ Refs!Init
    OBVIOUS
  <1>1. LowInv
    BY LowInvInit
  <1>2. freelist = <<Block(end, PHYSTOP - end)>> /\ Len(freelist) = 1
    BY DEF Init
  <1>3. /\ Block(end, PHYSTOP - end).pa = end
        /\ Block(end, PHYSTOP - end).num_pages = PHYSTOP - end
    BY DEF Block
  <1>4. FreePages = Page
    <2>1. Pages(freelist[1]) = Page
      BY <1>2, <1>3, LayoutAssumption DEF Pages, Page
    <2> QED
      BY <1>2, <2>1 DEF FreePages
  <1>5. \A p \in Page : ref_count[p] = 0 /\ Rmap(p) = NoTable
    BY LayoutAssumption DEF Init, Page, Frame, Rmap
  <1>6. \A t \in Thread : hold[t] = {} /\ op[t].kind = "idle"
    BY OpFields DEF Init
  <1>7. (\A t \in Thread : Limbo(t) = {}) /\ LimboPages = {}
    BY <1>6, PoolSets DEF Limbo
  <1>8. OrderedBut(freelist, {})
    BY <1>2 DEF OrderedBut
  <1>9. PoolInv
    BY <1>4, <1>5, <1>7, <1>8 DEF PoolInv
  <1>10. RefCountExact
    <2>1. \A p : {t \in Thread : p \in hold[t]} = {}
      BY <1>6
    <2> QED
      BY <1>5, <2>1, FS_EmptySet DEF RefCountExact
  <1>11. RmapType
    BY DEF Init, RmapType
  <1>12. RmapSound /\ ShareInv
    <2>1. RmapSound
      BY <1>6 DEF RmapSound
    <2>2. ShareInv
      BY <1>6 DEF ShareInv, Shares
    <2> QED
      BY <2>1, <2>2
  <1>13. Refs!Init
    <2>1. [p \in Page |-> ref_count[p]] = [p \in Page |-> 0]
      BY <1>5
    <2> QED
      BY <1>4, <1>7, <2>1 DEF Refs!Init
  <1> QED
    BY <1>1, <1>9, <1>10, <1>11, <1>12, <1>13 DEF PInv

(* Every step of the allocator keeps the invariant and is a step of the    *)
(* page pool or leaves the pool alone.                                     *)
LEMMA PoolStep == PInv /\ [Next]_vars => PInv' /\ [Refs!Next]_(Refs!pvars)
  <1> SUFFICES ASSUME PInv, [Next]_vars PROVE PInv' /\ [Refs!Next]_(Refs!pvars)
    OBVIOUS
  <1>0. LowInv'
    BY LowInvStep DEF PInv
  <1>1. ASSUME NEW t \in Thread, NEW n \in Sizes, KallocContig(t, n)
        PROVE  PInv' /\ Refs!Next
    BY <1>0, <1>1, KallocContigKeeps DEF Refs!Next
  <1>2. ASSUME NEW t \in Thread, NEW n \in Sizes, NEW pa \in Page, KfreeBegin(t, Block(pa, n))
        PROVE  PInv' /\ Refs!Next
    BY <1>0, <1>2, KfreeBeginKeeps DEF Refs!Next
  <1>3. ASSUME NEW t \in Thread, NEW pa \in Page, MapUser(t, pa)
        PROVE  PInv' /\ UNCHANGED Refs!pvars
    BY <1>0, <1>3, MapUserKeeps DEF Refs!pvars
  <1>4. ASSUME NEW t \in Thread, NEW pa \in Page, Decref(t, pa)
        PROVE  PInv' /\ Refs!Next
    BY <1>0, <1>4, DecrefKeeps DEF Refs!Next
  <1>5. ASSUME NEW t \in Thread, NEW pa \in Page, NEW u \in Thread, ShareMap(t, u, pa)
        PROVE  PInv' /\ UNCHANGED Refs!pvars
    BY <1>0, <1>5, ShareMapKeeps DEF Refs!pvars
  <1>6. ASSUME NEW t \in Thread, Incref(t)
        PROVE  PInv' /\ Refs!Next
    BY <1>0, <1>6, IncrefKeeps DEF Refs!Next
  <1>7. ASSUME NEW t \in Thread, KfreeEnd(t)
        PROVE  PInv' /\ Refs!Next
    BY <1>0, <1>7, KfreeEndKeeps DEF Refs!Next
  <1>8. CASE CompactBegin
    BY <1>0, <1>8, QuietKeeps DEF CompactBegin, Refs!pvars
  <1>9. CASE CompactStep
    <2> DEFINE used == freelist[curr].pa + freelist[curr].num_pages
    <2>1. curr \in 1 .. Len(freelist) /\ freelist[curr] \in BlockT
      BY <1>9 DEF CompactStep, PInv, LowInv
    <2>2. used \in Int /\ end <= used
      BY <2>1, BlockType, LayoutAssumption DEF Page
    <2>3. used < PHYSTOP => ~Movable(used)
      BY <2>2, NeverMovable DEF PInv
    <2>4. UNCHANGED <<freelist, ref_count, reverse_map, hold, op>>
      BY <1>9, <2>3 DEF CompactStep
    <2> QED
      BY <1>0, <2>4, QuietKeeps DEF Refs!pvars
  <1>10. CASE UNCHANGED vars
    BY <1>0, <1>10, QuietKeeps DEF vars, Refs!pvars
  <1> QED
    BY <1>1, <1>2, <1>3, <1>4, <1>5, <1>6, <1>7, <1>8, <1>9, <1>10 DEF Next

(* The invariant implies what AllocatorSound says.                         *)
LEMMA PoolSound == PInv => AllocatorSound
  <1> SUFFICES ASSUME PInv PROVE AllocatorSound
    OBVIOUS
  <1> USE DEF PInv, LowInv
  <1>1. TypeOK
    <2>1. \A f \in Frame : f >= end => f \in Page
      BY LayoutAssumption DEF Frame, Page
    <2>2. \A f \in Frame : ref_count[f] \in Nat
      <3> SUFFICES ASSUME NEW f \in Frame PROVE ref_count[f] \in Nat
        OBVIOUS
      <3>1. CASE f < end
        BY <3>1
      <3>2. CASE f \in Page
        BY <3>2, HeldCounted
      <3>3. f < end \/ f >= end
        BY LayoutAssumption DEF Frame
      <3> QED
        BY <2>1, <3>1, <3>2, <3>3
    <2>3. ref_count \in [Frame -> Nat]
      BY <2>2
    <2>4. freelist \in Seq([pa : Page, num_pages : Nat \ {0}])
      <3>1. BlockT \subseteq [pa : Page, num_pages : Nat \ {0}]
        BY DEF BlockT
      <3> HIDE DEF PInv, LowInv
      <3>2. freelist \in Seq(BlockT)
        BY DEF PInv, LowInv
      <3> QED
        BY <3>1, <3>2, SeqMonotonic, Zenon
    <2> QED
      BY <2>3, <2>4 DEF TypeOK, RmapType
  <1>2. FreeListOrdered
    <2> SUFFICES ASSUME NEW i \in 1 .. Len(freelist)
                 PROVE  /\ freelist[i].pa + freelist[i].num_pages <= PHYSTOP
                        /\ i < Len(freelist) =>
                             freelist[i].pa + freelist[i].num_pages < freelist[i + 1].pa
      BY DEF FreeListOrdered
    <2>1. freelist[i].pa + freelist[i].num_pages <= PHYSTOP
      BY BlockType
    <2>2. ASSUME i < Len(freelist)
          PROVE  freelist[i].pa + freelist[i].num_pages < freelist[i + 1].pa
      <3>1. i \in 1 .. Len(freelist) - 1
        BY <2>2
      <3> HIDE DEF PInv, LowInv
      <3>2. OrderedBut(freelist, {})
        BY DEF PInv, PoolInv
      <3> QED
        BY <3>1, <3>2 DEF OrderedBut, After
    <2> QED
      BY <2>1, <2>2
  <1>3. FreeUnreferenced
    <2>1. FreePages \subseteq Page /\ LimboPages \subseteq Page
      BY PoolSets
    <2>2. \A p \in FreePages \cup LimboPages : ref_count[p] = 0
      BY PoolSets DEF PoolInv
    <2>3. FreePages \cap LimboPages = {}
      BY PoolSets DEF PoolInv
    <2> QED
      BY <2>1, <2>2, <2>3 DEF FreeUnreferenced, Refs!FreeUnreferenced
  <1> QED
    BY <1>1, <1>2, <1>3 DEF AllocatorSound

(* In every execution, whatever the layout, the threads and the sizes they *)
(* ask for, the free list of kalloc.c is ordered and coalesced, ref_count  *)
(* is the number of holders of a page, free pages and pages between the    *)
(* two halves of kfree_contig have no holder, and a table named in the     *)
(* reverse map is the only one that refers to the page.                    *)
THEOREM AllocatorIsSound == Spec => []AllocatorSound
  <1>1. Init => PInv
    BY PoolInit
  <1>2. PInv /\ [Next]_vars => PInv'
    BY PoolStep
  <1> QED
    BY <1>1, <1>2, PoolSound, PTL DEF Spec

(* The allocator with its list, its two-step free and its compaction       *)
(* implements the abstract page pool that the copy-on-write code uses.     *)
THEOREM AllocatorIsPool == Spec => ImplementsPageRefs
  <1>1. Init => PInv /\ Refs!Init
    BY PoolInit
  <1>2. PInv /\ [Next]_vars => PInv' /\ [Refs!Next]_(Refs!pvars)
    BY PoolStep
  <1> QED
    BY <1>1, <1>2, PTL DEF Spec, ImplementsPageRefs, Refs!Spec

=============================================================================
