------------------------------- MODULE CowVM --------------------------------
(***************************************************************************)
(* User memory with copy-on-write fork and lazy allocation (kernel/vm.c,   *)
(* growproc, sys_sbrk, the memory part of kfork and of kexit), on top of   *)
(* the page pool of PageRefs, which Kalloc implements.  Each process runs  *)
(* its system calls and page faults in kernel steps that interleave with   *)
(* those of the others; a page table is only touched by its process (by    *)
(* the parent while the child is being made).                              *)
(***************************************************************************)
EXTENDS Naturals, FiniteSets, Functions

CONSTANTS Proc, Initial, Page,
          Guard, \* the guard page among the pages 0 .. Size-1 of the first process
          Size,
          Value, Zero,
          Junk,  \* what kfree fills a page with
          NVA    \* size of the user address space, in pages

VARIABLES
  free, ref, limbo,   \* the page pool
  mem,                \* contents of the physical pages
  pt,                 \* user page tables
  sz,                 \* p->sz in pages
  alive,              \* processes that can run
  op                  \* the kernel step each process is in

vars == <<free, ref, limbo, mem, pt, sz, alive, op>>

Pool == INSTANCE PageRefs

VA == 0 .. NVA - 1
NoPte == [V |-> FALSE]
Pte(pa, w, cow, u) == [V |-> TRUE, pa |-> pa, W |-> w, COW |-> cow, U |-> u]
PteType == {Pte(pa, w, cow, u) : pa \in Page, w, cow, u \in BOOLEAN}

Idle == [kind |-> "idle"]
At(kind, va) == [kind |-> kind, va |-> va]
Forking(kind, child, va) == [kind |-> kind, child |-> child, va |-> va]
(* uvmunmap of the pages va .. hi-1 of tgt; then says who called it. *)
Unmapping(kind, tgt, va, hi, then) ==
  [kind |-> kind, tgt |-> tgt, va |-> va, hi |-> hi, then |-> then]

Become(p, o) == op' = [op EXCEPT ![p] = o]
Ready(p) == p \in alive /\ op[p] = Idle
Unused(p) == /\ p \notin alive /\ op[p] = Idle
             /\ \A q \in Proc : /\ op[q].kind \in {"forkmap", "forkref"} => op[q].child # p
                                /\ op[q].kind \in {"unmap", "return"} => op[q].tgt # p

(* kexec has loaded the first process: data pages, and below the stack a   *)
(* guard page that uvmclear has made inaccessible.                         *)
Init ==
  \E f \in Injection(0 .. Size - 1, Page) :
    LET used == {f[v] : v \in 0 .. Size - 1}
    IN  /\ free = Page \ used
        /\ ref = [x \in Page |-> IF x \in used THEN 1 ELSE 0]
        /\ limbo = {}
        /\ mem = [x \in Page |-> IF x \in used THEN Zero ELSE Junk]
        /\ pt = [p \in Proc |-> [v \in VA |->
                   IF p = Initial /\ v < Size THEN Pte(f[v], TRUE, FALSE, v # Guard) ELSE NoPte]]
        /\ sz = [p \in Proc |-> IF p = Initial THEN Size ELSE 0]
        /\ alive = {Initial}
        /\ op = [p \in Proc |-> Idle]

-----------------------------------------------------------------------------
(* Stores that succeed: by the program, or by copyout on its behalf.  Both *)
(* need a mapped page that is the user's and writable.                     *)
CopyoutAccepts(pte) == pte.V /\ pte.U /\ pte.W

UserWrite(p, v, x) ==
  /\ Ready(p) /\ CopyoutAccepts(pt[p][v])
  /\ mem' = [mem EXCEPT ![pt[p][v].pa] = x]
  /\ UNCHANGED <<free, ref, limbo, pt, sz, alive, op>>

-----------------------------------------------------------------------------
(* vmfault, called by usertrap (a failure kills the process) or by copyout *)
(* and copyin (a failure returns -1).                                      *)

ExitOp(p) == Unmapping("unmap", p, 0, sz[p], "exit")
FaultFails(p) == Become(p, Idle) \/ Become(p, ExitOp(p))

(* An access traps if the page is not mapped for the user, and a store     *)
(* also if it is not writable.                                             *)
Traps(pte) == ~CopyoutAccepts(pte)

FaultRefused(p, v) ==
  LET pte == pt[p][v]
  IN  /\ Ready(p) /\ Traps(pte)
      /\ \/ v >= sz[p]
         \/ ~pte.V /\ free = {}
         \/ pte.V /\ ~(pte.COW /\ ~pte.W)
      /\ FaultFails(p)
      /\ UNCHANGED <<free, ref, limbo, mem, pt, sz, alive>>

(* Faulty variant: the new page is not cleared. *)
FaultLazyDirty(p, v) ==
  /\ Ready(p) /\ v < sz[p] /\ ~pt[p][v].V
  /\ \E x \in free :
       /\ Pool!Alloc({x})
       /\ pt' = [pt EXCEPT ![p][v] = Pte(x, TRUE, FALSE, TRUE)]
  /\ UNCHANGED <<mem, sz, alive, op>>

(* Case 1: a page of the heap that sbrk has only promised. *)
FaultLazy(p, v) ==
  /\ Ready(p) /\ v < sz[p] /\ ~pt[p][v].V
  /\ \E x \in free :
       /\ Pool!Alloc({x})
       /\ mem' = [mem EXCEPT ![x] = Zero]
       /\ pt' = [pt EXCEPT ![p][v] = Pte(x, TRUE, FALSE, TRUE)]
  /\ UNCHANGED <<sz, alive, op>>

(* Case 2: a copy-on-write page.  getref reads the count under kmem.lock;  *)
(* what follows uses the value read.                                       *)
FaultCow(p, v) ==
  LET pte == pt[p][v]
  IN  /\ Ready(p) /\ v < sz[p] /\ pte.V
      /\ pte.COW /\ ~pte.W
      /\ Become(p, At(IF ref[pte.pa] > 1 THEN "copy" ELSE "promote", v))
      /\ UNCHANGED <<free, ref, limbo, mem, pt, sz, alive>>

(* The last reference: the page becomes writable in place. *)
CowPromote(p) ==
  LET v == op[p].va
  IN  /\ op[p].kind = "promote"
      /\ pt' = [pt EXCEPT ![p][v] = Pte(pt[p][v].pa, TRUE, FALSE, pt[p][v].U)]
      /\ Become(p, Idle)
      /\ UNCHANGED <<free, ref, limbo, mem, sz, alive>>

CowNoMemory(p) ==
  /\ op[p].kind = "copy" /\ free = {}
  /\ FaultFails(p)
  /\ UNCHANGED <<free, ref, limbo, mem, pt, sz, alive>>

(* kalloc a page of one's own ... *)
CowAlloc(p) ==
  /\ op[p].kind = "copy"
  /\ \E x \in free : Pool!Alloc({x}) /\ Become(p, [kind |-> "fill", va |-> op[p].va, new |-> x])
  /\ UNCHANGED <<mem, pt, sz, alive>>

(* Faulty variant: the contents are not copied. *)
CowFillNoCopy(p) ==
  LET v == op[p].va
  IN  /\ op[p].kind = "fill"
      /\ pt' = [pt EXCEPT ![p][v] = Pte(op[p].new, TRUE, FALSE, TRUE)]
      /\ Become(p, [kind |-> "drop", pa |-> pt[p][v].pa])
      /\ UNCHANGED <<free, ref, limbo, mem, sz, alive>>

(* ... copy, and install it, user-accessible and writable ... *)
CowFill(p) ==
  LET v == op[p].va
      pa == pt[p][v].pa
  IN  /\ op[p].kind = "fill"
      /\ mem' = [mem EXCEPT ![op[p].new] = mem[pa]]
      /\ pt' = [pt EXCEPT ![p][v] = Pte(op[p].new, TRUE, FALSE, TRUE)]
      /\ Become(p, [kind |-> "drop", pa |-> pa])
      /\ UNCHANGED <<free, ref, limbo, sz, alive>>

(* ... then decref the shared one, which frees nothing. *)
CowDrop(p) ==
  /\ op[p].kind = "drop"
  /\ Pool!Drop(op[p].pa)
  /\ Become(p, Idle)
  /\ UNCHANGED <<mem, pt, sz, alive>>

-----------------------------------------------------------------------------
(* kfork: uvmcopy shares the pages one by one, with the count raised after *)
(* the child's mapping is made.                                            *)

ForkBegin(p, c) ==
  /\ Ready(p) /\ Unused(c)
  /\ Become(p, Forking("forkmap", c, 0))
  /\ UNCHANGED <<free, ref, limbo, mem, pt, sz, alive>>

Shared(pte) == IF pte.W THEN Pte(pte.pa, FALSE, TRUE, pte.U) ELSE pte

ForkMap(p) ==
  LET c == op[p].child
      v == op[p].va
      pte == pt[p][v]
  IN  /\ op[p].kind = "forkmap" /\ v < sz[p]
      /\ IF pte.V
         THEN /\ pt' = [pt EXCEPT ![p][v] = Shared(pte), ![c][v] = Shared(pte)]
              /\ Become(p, Forking("forkref", c, v))
         ELSE Become(p, Forking("forkmap", c, v + 1)) /\ UNCHANGED pt
      /\ UNCHANGED <<free, ref, limbo, mem, sz, alive>>

(* Faulty variant: the child's mapping is not counted. *)
ForkIncrefForgotten(p) ==
  /\ op[p].kind = "forkref"
  /\ Become(p, Forking("forkmap", op[p].child, op[p].va + 1))
  /\ UNCHANGED <<free, ref, limbo, mem, pt, sz, alive>>

ForkIncref(p) ==
  /\ op[p].kind = "forkref"
  /\ Pool!Grab(pt[p][op[p].va].pa)
  /\ Become(p, Forking("forkmap", op[p].child, op[p].va + 1))
  /\ UNCHANGED <<mem, pt, sz, alive>>

(* mappages finds no memory for a page-table page: the parent's page is    *)
(* already copy-on-write, the child's mappings made so far are undone.     *)
ForkFail(p) ==
  LET v == op[p].va
  IN  /\ op[p].kind = "forkmap" /\ v < sz[p] /\ pt[p][v].V
      /\ pt' = [pt EXCEPT ![p][v] = Shared(pt[p][v])]
      /\ Become(p, Unmapping("unmap", op[p].child, 0, v, "fork"))
      /\ UNCHANGED <<free, ref, limbo, mem, sz, alive>>

ForkEnd(p) ==
  LET c == op[p].child
  IN  /\ op[p].kind = "forkmap" /\ op[p].va = sz[p]
      /\ sz' = [sz EXCEPT ![c] = sz[p]]
      /\ alive' = alive \cup {c}
      /\ Become(p, Idle)
      /\ UNCHANGED <<free, ref, limbo, mem, pt>>

-----------------------------------------------------------------------------
(* uvmunmap: kfree in its two critical sections, with the memset between   *)
(* them, then the PTE is cleared.                                          *)

Clear(o) == pt' = [pt EXCEPT ![o.tgt][o.va] = NoPte]
Onward(o) == Unmapping("unmap", o.tgt, o.va + 1, o.hi, o.then)

(* Faulty variant: the PTE of a page that others still use is kept. *)
UnmapPageKept(p) ==
  LET o == op[p]
      pte == pt[o.tgt][o.va]
      last == ref[pte.pa] = 1
  IN  /\ o.kind = "unmap" /\ o.va < o.hi
      /\ IF ~pte.V THEN Become(p, Onward(o)) /\ UNCHANGED <<free, ref, limbo, pt>>
         ELSE /\ Pool!Release({pte.pa})
              /\ Become(p, IF last THEN [o EXCEPT !.kind = "return"] ELSE Onward(o))
              /\ UNCHANGED pt
      /\ UNCHANGED <<mem, sz, alive>>

UnmapPage(p) ==
  LET o == op[p]
      pte == pt[o.tgt][o.va]
      last == ref[pte.pa] = 1
  IN  /\ o.kind = "unmap" /\ o.va < o.hi
      /\ IF ~pte.V THEN Become(p, Onward(o)) /\ UNCHANGED <<free, ref, limbo, pt>>
         ELSE /\ Pool!Release({pte.pa})
              /\ IF last THEN Become(p, [o EXCEPT !.kind = "return"]) /\ UNCHANGED pt
                         ELSE Become(p, Onward(o)) /\ Clear(o)
      /\ UNCHANGED <<mem, sz, alive>>

UnmapReturn(p) ==
  LET o == op[p]
  IN  /\ o.kind = "return"
      /\ Pool!Return({pt[o.tgt][o.va].pa})
      /\ mem' = [mem EXCEPT ![pt[o.tgt][o.va].pa] = Junk]
      /\ Clear(o) /\ Become(p, Onward(o))
      /\ UNCHANGED <<sz, alive>>

UnmapEnd(p) ==
  LET o == op[p]
  IN  /\ o.kind = "unmap" /\ o.va >= o.hi
      /\ Become(p, Idle)
      /\ alive' = IF o.then = "exit" THEN alive \ {p} ELSE alive
      /\ sz' = IF o.then = "exit" THEN [sz EXCEPT ![p] = 0] ELSE sz
      /\ UNCHANGED <<free, ref, limbo, mem, pt>>

Exit(p) ==
  /\ Ready(p)
  /\ Become(p, ExitOp(p))
  /\ UNCHANGED <<free, ref, limbo, mem, pt, sz, alive>>

-----------------------------------------------------------------------------
(* sbrk by one page. *)

SbrkLazy(p) ==
  /\ Ready(p) /\ sz[p] < NVA
  /\ sz' = [sz EXCEPT ![p] = @ + 1]
  /\ UNCHANGED <<free, ref, limbo, mem, pt, alive, op>>

SbrkEager(p) ==
  /\ Ready(p) /\ sz[p] < NVA
  /\ \E x \in free :
       /\ Pool!Alloc({x})
       /\ mem' = [mem EXCEPT ![x] = Zero]
       /\ pt' = [pt EXCEPT ![p][sz[p]] = Pte(x, TRUE, FALSE, TRUE)]
  /\ sz' = [sz EXCEPT ![p] = @ + 1]
  /\ UNCHANGED <<alive, op>>

(* growproc sets p->sz after uvmdealloc; the order is invisible to others. *)
SbrkShrink(p) ==
  /\ Ready(p) /\ sz[p] > 0
  /\ sz' = [sz EXCEPT ![p] = @ - 1]
  /\ Become(p, Unmapping("unmap", p, sz[p] - 1, sz[p], "sbrk"))
  /\ UNCHANGED <<free, ref, limbo, mem, pt, alive>>

-----------------------------------------------------------------------------
Next ==
  \E p \in Proc :
    \/ \E v \in VA : \/ \E x \in Value : UserWrite(p, v, x)
                     \/ FaultRefused(p, v) \/ FaultLazy(p, v) \/ FaultCow(p, v)
    \/ CowPromote(p) \/ CowNoMemory(p) \/ CowAlloc(p) \/ CowFill(p) \/ CowDrop(p)
    \/ \E c \in Proc : ForkBegin(p, c)
    \/ ForkMap(p) \/ ForkIncref(p) \/ ForkFail(p) \/ ForkEnd(p)
    \/ UnmapPage(p) \/ UnmapReturn(p) \/ UnmapEnd(p) \/ Exit(p)
    \/ SbrkLazy(p) \/ SbrkEager(p) \/ SbrkShrink(p)

Spec == Init /\ [][Next]_vars

-----------------------------------------------------------------------------
TypeOK ==
  /\ Pool!TypeOK
  /\ mem \in [Page -> Value]
  /\ pt \in [Proc -> [VA -> PteType \cup {NoPte}]]
  /\ sz \in [Proc -> 0 .. NVA]
  /\ alive \subseteq Proc
  /\ \A p \in Proc : op[p].kind \in {"idle", "promote", "copy", "fill", "drop",
                                     "forkmap", "forkref", "unmap", "return"}

Mapping == {m \in Proc \X VA : pt[m[1]][m[2]].V}
Frame(m) == pt[m[1]][m[2]].pa

(* A kfree'd page keeps its mapping until the unmapping step clears it. *)
Dying(m) == \E p \in Proc : /\ op[p].kind = "return"
                            /\ <<op[p].tgt, op[p].va>> = m

(* No mapping ever refers to a page that is free, on its way to the free   *)
(* list or not counted: uvmcopy raises the count after mapping the page,   *)
(* vmfault drops it after replacing the mapping, while others fault, fork  *)
(* and exit on the same page.                                              *)
MappedPagesHeld ==
  \A m \in Mapping : (Frame(m) \notin free \cup limbo /\ ref[Frame(m)] > 0) \/ Dying(m)

(* A page that some table maps writable is mapped nowhere else: fork takes *)
(* the parent's write permission away before the child can run, and the    *)
(* promotion in place happens only when nobody shares the page.            *)
WritableIsPrivate ==
  \A m, n \in Mapping : m # n /\ pt[m[1]][m[2]].W => Frame(m) # Frame(n)

(* What a process finds in its memory. *)
View(p, v) == IF pt[p][v].V THEN mem[pt[p][v].pa] ELSE Zero

(* Copy-on-write is invisible: a step changes what a live process finds in *)
(* a page of its memory only if that process stores to it.  Forks, faults, *)
(* copies and exits of the others never show.                              *)
MemoryIsolated ==
  [][\A p \in alive \cap alive' : \A v \in VA :
       \/ View(p, v)' = View(p, v)
       \/ op[p].kind \in {"unmap", "return"}
       \/ \E x \in Value : UserWrite(p, v, x)]_vars

(* The pages are accounted for: one that is neither free nor about to be   *)
(* returned is mapped or held by a process in a system call (usertests.c,  *)
(* countfree: "lost some free pages").                                     *)
HeldInCall(x) == \E p \in Proc : \/ op[p].kind = "fill" /\ op[p].new = x
                                 \/ op[p].kind = "drop" /\ op[p].pa = x
NoLostPages ==
  \A x \in Page : \/ x \in free \cup limbo
                  \/ HeldInCall(x)
                  \/ \E m \in Mapping : Frame(m) = x

(* vm.c: copyout refuses read-only text pages; it accepts every page the   *)
(* process itself may store to.                                            *)
CopyoutLikeStore ==
  \A m \in Mapping : LET pte == pt[m[1]][m[2]]
                     IN  Ready(m[1]) /\ pte.U /\ (pte.W \/ pte.COW) => CopyoutAccepts(pte)

(* Sharing is sound: the first two statements, and the types.              *)
SharingSound == TypeOK /\ MappedPagesHeld /\ WritableIsPrivate

=============================================================================
