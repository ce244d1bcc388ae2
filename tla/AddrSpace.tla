----------------------------- MODULE AddrSpace ------------------------------
(***************************************************************************)
(* User address spaces: page tables, growth, lazy allocation, the copies   *)
(* between kernel and user (src/kernel/vm.c), exec (src/kernel/exec.c) and *)
(* fork's copy-on-write page tables.  A process changes only its own space *)
(* and that of the child it is making, so an operation is one step, and is *)
(* written as a function on a record s: the frames' reference counts and   *)
(* contents, the table t being worked on, and the results pa, n and ok.    *)
(* Interleaved fork and fault are the subject of CowVM.                    *)
(***************************************************************************)
EXTENDS Integers, FiniteSets, FiniteSetsExt, SequencesExt

CONSTANTS Proc,
          First,       \* the process that exists at boot
          Frames,      \* sizes of memory, in frames
          PGSIZE, FAN, \* bytes to a page, entries to a page-table page
          USERSTACK, ALIGN, PTR,
          Boot,        \* the program First runs
          Programs,    \* the programs to exec
          Args,        \* the lengths of the arguments, for exec
          Delta,       \* the arguments of sbrk
          Addr,        \* addresses used
          Lens,        \* lengths copied
          MaxOps       \* bound: operations

VARIABLES phys,        \* [ref, mem, panic]
          tbl, sz,     \* of each process
          told,        \* what each process's memory should hold, byte by byte
          last,        \* the last operation and its result
          ops

avars == <<phys, tbl, sz, told, last, ops>>

Vpn == 0 .. FAN^3 - 1
TRAMPOLINE == FAN^3 - 1
TRAPFRAME == FAN^3 - 2
Byte == 0 .. TRAPFRAME * PGSIZE - 1
Node == {<<1, k>> : k \in 0 .. FAN - 1} \union {<<2, k>> : k \in 0 .. FAN^2 - 1}
Kernel == -1                        \* the trampoline and the trapframe
NoPte == [pa |-> 0, w |-> FALSE, u |-> FALSE, cow |-> FALSE]
UserPte(pa, w) == [pa |-> pa, w |-> w, u |-> TRUE, cow |-> FALSE]
NoTable == [root |-> 0, node |-> [n \in Node |-> 0], leaf |-> [v \in Vpn |-> NoPte]]
Fill(x) == [o \in 0 .. PGSIZE - 1 |-> x]
Junk == -1
Pages(x) == (x + PGSIZE - 1) \div PGSIZE        \* PGROUNDUP, in pages
Span(i, j) == [k \in 1 .. j - i |-> i + k - 1]  \* i, i+1, ..., j-1

Fresh(n) == [ref |-> [f \in 1 .. n |-> 0], mem |-> [f \in 1 .. n |-> Fill(Junk)],
             panic |-> FALSE]
Work(ph, t) == [ref |-> ph.ref, mem |-> ph.mem, panic |-> ph.panic,
                t |-> t, pa |-> 0, n |-> 0, ok |-> TRUE]
Phys(s) == [ref |-> s.ref, mem |-> s.mem, panic |-> s.panic]

Kalloc(s) ==
  LET free == {f \in DOMAIN s.ref : s.ref[f] = 0} IN
  IF free = {} THEN [s EXCEPT !.pa = 0]
  ELSE [s EXCEPT !.pa = Min(free), !.ref[Min(free)] = 1, !.mem[Min(free)] = Fill(Junk)]

Kfree(s, f) == [s EXCEPT !.ref[f] = @ - 1,
                         !.mem[f] = IF s.ref[f] = 1 THEN Fill(Junk) ELSE @]

\* walk with alloc: the page-table pages on the way to v, as far as they can
\* be had.
Level(l, v) == <<l, v \div FAN^(3 - l)>>
Walk(s, v) ==
  LET Made(k, l) == IF k.pa = 0 THEN [k EXCEPT !.ok = FALSE]
                    ELSE [k EXCEPT !.t.node[Level(l, v)] = k.pa]
      Down(x, l) == IF ~x.ok \/ x.t.node[Level(l, v)] # 0 THEN x ELSE Made(Kalloc(x), l)
  IN Down(Down([s EXCEPT !.ok = TRUE], 1), 2)

\* mappages, of one page.
MapPage(s, v, pte) ==
  LET Mapped(x) == IF ~x.ok THEN x
                   ELSE IF x.t.leaf[v] # NoPte THEN [x EXCEPT !.panic = TRUE]
                   ELSE [x EXCEPT !.t.leaf[v] = pte]
  IN Mapped(Walk(s, v))

Uvmunmap(s, v0, npages, free) ==
  LET Clear(x, v) ==
        LET pte == x.t.leaf[v] IN
        IF pte = NoPte THEN x
        ELSE [(IF free THEN Kfree(x, pte.pa) ELSE x) EXCEPT !.t.leaf[v] = NoPte]
  IN FoldLeft(Clear, s, Span(v0, v0 + npages))

Uvmdealloc(s, old, new) ==
  IF new >= old THEN [s EXCEPT !.n = old]
  ELSE [Uvmunmap(s, Pages(new), Pages(old) - Pages(new), TRUE) EXCEPT !.n = new]

\* The page uvmalloc starts from.
FirstPage(old) == Pages(old)

\* A frame for which there was no room in the page table is given back.
UnmadeKept(s, f) == s
Unmade(s, f) == Kfree(s, f)

Zeroed(k) == [k EXCEPT !.mem[k.pa] = Fill(0)]

\* uvmalloc: the result n is the new size, or 0.
Uvmalloc(s, old, new, w) ==
  LET a0 == FirstPage(old)
      Back(x, v) == [Uvmunmap(x, a0, v - a0, TRUE) EXCEPT !.n = 0, !.ok = FALSE]
      Made(y, v, f) == IF ~y.ok THEN Back(Unmade(y, f), v) ELSE y
      Had(k, v) == IF k.pa = 0 THEN Back(k, v)
                   ELSE Made(MapPage(Zeroed(k), v, UserPte(k.pa, w)), v, k.pa)
      Grow(x, v) == IF ~x.ok THEN x ELSE Had(Kalloc(x), v)
      z == FoldLeft(Grow, [s EXCEPT !.ok = TRUE, !.n = new], Span(a0, Pages(new)))
  IN IF new < old THEN [s EXCEPT !.n = old, !.ok = TRUE] ELSE z

\* freewalk panics if it meets a leaf.
Freewalk(s) ==
  LET held == {s.t.root} \union {s.t.node[n] : n \in {m \in Node : s.t.node[m] # 0}}
      x == FoldSet(LAMBDA f, y : Kfree(y, f), s, held)
  IN [x EXCEPT !.t = NoTable,
               !.panic = @ \/ \E v \in Vpn : s.t.leaf[v] # NoPte]

Uvmfree(s, size) == Freewalk(Uvmunmap(s, 0, Pages(size), TRUE))

ProcFreePagetable(s, size) ==
  Uvmfree(Uvmunmap(Uvmunmap(s, TRAMPOLINE, 1, FALSE), TRAPFRAME, 1, FALSE), size)

ProcPagetable(ph) ==
  LET k == Kalloc(Work(ph, NoTable))
      own == [NoPte EXCEPT !.pa = Kernel]
      Undone(s) == [Uvmfree(s, 0) EXCEPT !.ok = FALSE]
      Two(y) == IF ~y.ok THEN Undone(Uvmunmap(y, TRAMPOLINE, 1, FALSE)) ELSE y
      One(x) == IF ~x.ok THEN Undone(x) ELSE Two(MapPage(x, TRAPFRAME, own))
  IN IF k.pa = 0 THEN [k EXCEPT !.ok = FALSE]
     ELSE One(MapPage([k EXCEPT !.t.root = k.pa], TRAMPOLINE, own))

\* vmfault, for a page below the size: a lazy page is made, a copy-on-write
\* page is copied or, by its last user, kept.
Vmfault(s, va, size) ==
  LET v == va \div PGSIZE
      pte == s.t.leaf[v]
      Made(y, f) == IF ~y.ok THEN Unmade(y, f) ELSE y
      Lazy(k) == IF k.pa = 0 THEN [k EXCEPT !.ok = FALSE]
                 ELSE Made(MapPage(Zeroed(k), v, UserPte(k.pa, TRUE)), k.pa)
      Copied(k) == IF k.pa = 0 THEN [k EXCEPT !.ok = FALSE]
                   ELSE [Kfree([k EXCEPT !.mem[k.pa] = s.mem[pte.pa]], pte.pa)
                           EXCEPT !.t.leaf[v] = UserPte(k.pa, TRUE)]
  IN IF va >= size THEN [s EXCEPT !.ok = FALSE]
     ELSE IF pte = NoPte THEN Lazy(Kalloc(s))
     ELSE IF pte.cow /\ ~pte.w
     THEN IF s.ref[pte.pa] = 1
          THEN [s EXCEPT !.t.leaf[v].w = TRUE, !.t.leaf[v].cow = FALSE, !.ok = TRUE]
          ELSE Copied(Kalloc(s))
     ELSE [s EXCEPT !.ok = FALSE]

\* walkaddr finds the page, or else copyin and copyout call vmfault.
Reached(s, v, size) ==
  IF s.t.leaf[v].u THEN [s EXCEPT !.ok = TRUE] ELSE Vmfault(s, v * PGSIZE, size)

\* The pages of len bytes at va.
Across(va, len) == IF len = 0 THEN <<>> ELSE Span(va \div PGSIZE, Pages(va + len))

\* copyout of the bytes b, which stops at the first page it may not write.
Put(y, v, va, b) ==
  IF ~y.ok \/ ~y.t.leaf[v].w THEN [y EXCEPT !.ok = FALSE]
  ELSE [y EXCEPT !.mem[y.t.leaf[v].pa] = [o \in DOMAIN @ |->
          IF v * PGSIZE + o \in va .. va + Len(b) - 1
          THEN b[v * PGSIZE + o - va + 1] ELSE @[o]]]
Copyout(s, va, b, size) ==
  LET One(x, v) == IF ~x.ok THEN x ELSE Put(Reached(x, v, size), v, va, b)
  IN FoldLeft(One, [s EXCEPT !.ok = TRUE], Across(va, Len(b)))

\* What a process sees at address a: a lazy page will read as zeros.
View(ph, t, a) ==
  LET pte == t.leaf[a \div PGSIZE] IN
  IF pte = NoPte THEN 0 ELSE ph.mem[pte.pa][a % PGSIZE]

\* copyin
Copyin(s, va, len, size) ==
  LET Get(x, v) == IF x.ok THEN Reached(x, v, size) ELSE x
  IN FoldLeft(Get, [s EXCEPT !.ok = TRUE], Across(va, len))

\* copyinstr: walkaddr alone, page by page, until a NUL or max bytes.
Copyinstr(s, va, max) ==
  LET Nul(a) == View(s, s.t, a) = 0
      end == {a \in va .. va + max - 1 : a \in Byte /\ s.t.leaf[a \div PGSIZE].u /\ Nul(a)}
      upto == IF end = {} THEN va + max - 1 ELSE Min(end)
  IN [s EXCEPT !.ok = /\ end # {}
                      /\ \A a \in va .. upto : s.t.leaf[a \div PGSIZE].u]

\* Byte o of a program's file.
FileByte(o) == 100 + o

\* loadseg
Loadseg(s, g, elf) ==
  LET Read(x, i) ==
        LET pte == x.t.leaf[g.vaddr \div PGSIZE + i]
            n == Min({g.filesz - i * PGSIZE, PGSIZE})
            o0 == g.off + i * PGSIZE
        IN IF ~x.ok THEN x
           ELSE IF ~pte.u THEN [x EXCEPT !.panic = TRUE]
           ELSE IF o0 + n > elf.len THEN [x EXCEPT !.ok = FALSE]
           ELSE [x EXCEPT !.mem[pte.pa] =
                   [o \in DOMAIN @ |-> IF o < n THEN FileByte(o0 + o) ELSE @[o]]]
  IN FoldLeft(Read, s, Span(0, Pages(g.filesz)))

\* One program header; size is the size of the space before it.
BadHeader(g) == g.memsz < g.filesz \/ g.vaddr % PGSIZE # 0
Segment(e, g, elf) ==
  LET Loaded(x) == IF x.n = 0 THEN [e EXCEPT !.s = [x EXCEPT !.ok = FALSE]]
                   ELSE [s |-> Loadseg(x, g, elf), size |-> x.n]
  IN IF ~e.s.ok \/ ~g.load THEN e
     ELSE IF BadHeader(g) THEN [e EXCEPT !.s.ok = FALSE]
     ELSE Loaded(Uvmalloc(e.s, e.size, g.vaddr + g.memsz, g.w))

\* Where the next n bytes go on the stack.
Push(sp, n) == ((sp - n) \div ALIGN) * ALIGN
ArgByte(i) == 200 + i
ArgString(i, len) == [k \in 1 .. len + 1 |-> IF k <= len THEN ArgByte(i) ELSE 0]

\* The argument strings, then the array of pointers to them.  In e, at is
\* the list of their addresses.
PushArg(e, i, args, base, size) ==
  LET sp == Push(e.sp, args[i] + 1)
      x == Copyout(e.s, sp, ArgString(i, args[i]), size)
  IN IF ~e.s.ok THEN e
     ELSE IF sp < base THEN [e EXCEPT !.s.ok = FALSE]
     ELSE [s |-> x, sp |-> sp, at |-> Append(e.at, sp)]

PushArgv(e, base, size) ==
  LET sp == Push(e.sp, (Len(e.at) + 1) * PTR) IN
  IF ~e.s.ok THEN e.s
  ELSE IF sp < base THEN [e.s EXCEPT !.ok = FALSE]
  ELSE [Copyout(e.s, sp, Append(e.at, 0), size) EXCEPT !.pa = sp]
PushArgs(s, args, top, base, size) ==
  LET One(e, i) == PushArg(e, i, args, base, size) IN
  PushArgv(FoldLeft(One, [s |-> s, sp |-> top, at |-> <<>>], Span(1, Len(args) + 1)),
           base, size)

Uvmclear(s, v) == [s EXCEPT !.t.leaf[v].u = FALSE]

\* kexec, up to its commit, by a process of size old: n is the size of the new
\* space and pa its stack pointer.  It goes on with what the segments left in
\* e, with the stack's pages in a, and gives up at Bad.
Bad(s, size) == [ProcFreePagetable(s, size) EXCEPT !.ok = FALSE]
KexecArgs(a, args, old) ==
  LET guard == a.n \div PGSIZE - (USERSTACK + 1)
      Done(z) == IF ~z.ok THEN Bad(z, a.n) ELSE [z EXCEPT !.n = a.n]
  IN Done(PushArgs(Uvmclear(a, guard), args, a.n, a.n - USERSTACK * PGSIZE, old))
KexecStack(e, args, old) ==
  LET top == Pages(e.size) * PGSIZE
      Had(a) == IF a.n = 0 THEN Bad(a, e.size) ELSE KexecArgs(a, args, old)
  IN IF ~e.s.ok THEN Bad(e.s, e.size)
     ELSE Had(Uvmalloc(e.s, top, top + (USERSTACK + 1) * PGSIZE, TRUE))
KexecLoad(p, elf, args, old) ==
  LET One(e, g) == Segment(e, g, elf) IN
  IF ~p.ok THEN p
  ELSE KexecStack(FoldLeft(One, [s |-> p, size |-> 0], elf.segs), args, old)
Kexec(ph, elf, args, old) ==
  IF ~elf.magic THEN [Work(ph, NoTable) EXCEPT !.ok = FALSE]
  ELSE KexecLoad(ProcPagetable(ph), elf, args, old)

\* uvmcopy, of one page: the parent's entry is in o, the child's in s.t.
SharePteOpen(pte) == pte
SharePte(pte) == IF pte.w THEN [pte EXCEPT !.w = FALSE, !.cow = TRUE] ELSE pte
Share(e, v) ==
  LET pte == SharePte(e.o.leaf[v])
      Mapped(x) == IF ~x.ok THEN [Uvmunmap(x, 0, v, TRUE) EXCEPT !.ok = FALSE]
                   ELSE [x EXCEPT !.ref[pte.pa] = @ + 1]
  IN IF ~e.s.ok \/ e.o.leaf[v] = NoPte THEN e
     ELSE [o |-> [e.o EXCEPT !.leaf[v] = pte], s |-> Mapped(MapPage(e.s, v, pte))]

\* What the memory of a program should hold, the stack apart.
Linked(elf, a) ==
  LET over == {i \in DOMAIN elf.segs :
                 /\ elf.segs[i].load
                 /\ a - elf.segs[i].vaddr \in 0 .. elf.segs[i].filesz - 1}
      g == elf.segs[Max(over)]
  IN IF over = {} THEN 0 ELSE FileByte(g.off + a - g.vaddr)

Image(elf, s) ==
  [a \in Byte |-> IF a >= s.n \/ a >= s.n - USERSTACK * PGSIZE
                  THEN View(s, s.t, a) ELSE Linked(elf, a)]

Result(op, p, ret) == [op |-> op, p |-> p, ret |-> ret]

Init ==
  \E n \in Frames :
    LET s == Kexec(Fresh(n), Boot, <<>>, 0) IN
    /\ phys = Phys(s)
    /\ tbl = [p \in Proc |-> IF p = First THEN s.t ELSE NoTable]
    /\ sz = [p \in Proc |-> IF p = First THEN s.n ELSE 0]
    /\ told = [p \in Proc |-> IF p = First THEN Image(Boot, s) ELSE [a \in Byte |-> 0]]
    /\ last = Result("boot", First, 0)
    /\ ops = 0

Runs(p) == tbl[p].root # 0 /\ ops < MaxOps /\ ~phys.panic
Counted == ops' = ops + 1

\* exec: the new image is committed, then the old one freed.
Exec(p, elf, args) ==
  LET Commit(s) ==
        /\ phys' = Phys(ProcFreePagetable([s EXCEPT !.t = tbl[p]], sz[p]))
        /\ tbl' = [tbl EXCEPT ![p] = s.t]
        /\ sz' = [sz EXCEPT ![p] = s.n]
        /\ told' = [told EXCEPT ![p] = Image(elf, s)]
        /\ last' = [op |-> "exec", p |-> p, ret |-> 0, sp |-> s.pa, args |-> args]
      Fail(s) ==
        /\ phys' = Phys(s)
        /\ last' = Result("exec", p, -1)
        /\ UNCHANGED <<tbl, sz, told>>
      Done(s) == IF s.ok THEN Commit(s) ELSE Fail(s)
  IN Runs(p) /\ Counted /\ Done(Kexec(phys, elf, args, sz[p]))

\* Bytes in a page given up, and in one newly had, are told as 0.
Resized(p, old, new) ==
  [told EXCEPT ![p] = [a \in Byte |-> IF a >= Pages(Min({old, new})) * PGSIZE
                                      THEN 0 ELSE @[a]]]

\* sys_sbrk with growproc.  The new size wraps if n is below -sz, and is then
\* no shrinking.
GrowLimit == TRAPFRAME * PGSIZE
Sbrk(p, n, eager) ==
  LET w == Work(phys, tbl[p])
      s == IF n > 0 THEN Uvmalloc(w, sz[p], sz[p] + n, TRUE)
           ELSE IF sz[p] + n < 0 THEN [w EXCEPT !.n = sz[p]]
           ELSE Uvmdealloc(w, sz[p], sz[p] + n)
      Refuse == last' = Result("sbrk", p, -1) /\ UNCHANGED <<sz, told>>
      Set(new) == /\ last' = Result("sbrk", p, sz[p])
                  /\ sz' = [sz EXCEPT ![p] = new]
                  /\ told' = Resized(p, sz[p], new)
  IN /\ Runs(p) /\ Counted
     /\ IF n > 0 /\ sz[p] + n > GrowLimit THEN Refuse /\ UNCHANGED <<phys, tbl>>
        ELSE IF eager \/ n < 0
        THEN /\ phys' = Phys(s)
             /\ tbl' = [tbl EXCEPT ![p] = s.t]
             /\ IF n > 0 /\ s.n = 0 THEN Refuse ELSE Set(s.n)
        ELSE Set(sz[p] + n) /\ UNCHANGED <<phys, tbl>>

\* Freeproc, of a process that exits.
Gone(p, s) ==
  LET f == ProcFreePagetable([s EXCEPT !.t = tbl[p]], sz[p]) IN
  /\ phys' = Phys(f)
  /\ tbl' = [tbl EXCEPT ![p] = NoTable]
  /\ sz' = [sz EXCEPT ![p] = 0]
  /\ told' = [told EXCEPT ![p] = [a \in Byte |-> 0]]

Exit(p) ==
  /\ Runs(p) /\ Counted
  /\ Gone(p, Work(phys, tbl[p]))
  /\ last' = Result("exit", p, 0)

\* A load or a store of the user's: usertrap kills the process if vmfault
\* can do nothing.
Access(p, a, store) ==
  LET pte == tbl[p].leaf[a \div PGSIZE]
      open == pte.u /\ (store => pte.w)
      w == Work(phys, tbl[p])
      s == IF open THEN w ELSE Vmfault(w, a, sz[p])
      new == s.t.leaf[a \div PGSIZE]
      x == 10 + ops
  IN /\ Runs(p) /\ Counted
     /\ last' = Result(IF store THEN "store" ELSE "load", p, IF s.ok THEN 0 ELSE -1)
     /\ IF ~s.ok THEN Gone(p, s)
        ELSE /\ tbl' = [tbl EXCEPT ![p] = s.t]
             /\ phys' = IF store THEN [Phys(s) EXCEPT !.mem[new.pa][a % PGSIZE] = x]
                        ELSE Phys(s)
             /\ told' = IF store THEN [told EXCEPT ![p][a] = x] ELSE told
             /\ UNCHANGED sz

\* The copies a system call makes.  What a copyout that fails leaves behind is
\* not told.
KernelRead(p, a, len) ==
  LET s == Copyin(Work(phys, tbl[p]), a, len, sz[p]) IN
  /\ Runs(p) /\ Counted
  /\ phys' = Phys(s) /\ tbl' = [tbl EXCEPT ![p] = s.t]
  /\ last' = Result("copyin", p, IF s.ok THEN 0 ELSE -1)
  /\ UNCHANGED <<sz, told>>

KernelString(p, a, len) ==
  LET s == Copyinstr(Work(phys, tbl[p]), a, len) IN
  /\ Runs(p) /\ Counted
  /\ last' = Result("copyinstr", p, IF s.ok THEN 0 ELSE -1)
  /\ UNCHANGED <<phys, tbl, sz, told>>

KernelWrite(p, a, len) ==
  LET s == Copyout(Work(phys, tbl[p]), a, [i \in 1 .. len |-> 50 + ops], sz[p]) IN
  /\ Runs(p) /\ Counted
  /\ phys' = Phys(s) /\ tbl' = [tbl EXCEPT ![p] = s.t]
  /\ told' = [told EXCEPT ![p] = [b \in Byte |->
       IF b \notin a .. a + len - 1 THEN @[b]
       ELSE IF s.ok THEN 50 + ops ELSE View(s, s.t, b)]]
  /\ last' = Result("copyout", p, IF s.ok THEN 0 ELSE -1)
  /\ UNCHANGED sz

\* fork: a table for the child, then uvmcopy; the parent's entries stay
\* copy-on-write if it fails.
Fork(p, q) ==
  LET c == ProcPagetable(phys)
      e == FoldLeft(Share, [o |-> tbl[p], s |-> c], Span(0, Pages(sz[p])))
  IN /\ Runs(p) /\ tbl[q].root = 0 /\ Counted
     /\ IF ~c.ok THEN /\ phys' = Phys(c) /\ last' = Result("fork", p, -1)
                      /\ UNCHANGED <<tbl, sz, told>>
        ELSE IF ~e.s.ok
        THEN /\ phys' = Phys(ProcFreePagetable(e.s, 0))
             /\ tbl' = [tbl EXCEPT ![p] = e.o]
             /\ last' = Result("fork", p, -1)
             /\ UNCHANGED <<sz, told>>
        ELSE /\ phys' = Phys(e.s)
             /\ tbl' = [tbl EXCEPT ![p] = e.o, ![q] = e.s.t]
             /\ sz' = [sz EXCEPT ![q] = sz[p]]
             /\ told' = [told EXCEPT ![q] = told[p]]
             /\ last' = Result("fork", p, 0)

Next ==
  \E p \in Proc :
    \/ \E elf \in Programs, args \in Args : Exec(p, elf, args)
    \/ \E n \in Delta, eager \in BOOLEAN : Sbrk(p, n, eager)
    \/ Exit(p)
    \/ \E a \in Addr, store \in BOOLEAN : Access(p, a, store)
    \/ \E a \in Addr, len \in Lens :
         KernelRead(p, a, len) \/ KernelString(p, a, len) \/ KernelWrite(p, a, len)
    \/ \E q \in Proc : Fork(p, q)

Spec == Init /\ [][Next]_avars
-----------------------------------------------------------------------------
\* No sequence of exec, sbrk, fork, faults and exits reaches a panic of vm.c or
\* exec.c: mappages of a page already mapped, freewalk with a leaf left,
\* loadseg of a page that is not there.
NoPanic == ~phys.panic

\* Each frame's reference count is the number of page tables' entries that
\* lead to it, so that every path out of exec, fork, sbrk and vmfault, the
\* failing ones included, gives back just what it took.
FramesConserved ==
  \A f \in DOMAIN phys.ref :
    phys.ref[f] = Cardinality({p \in Proc : tbl[p].root = f})
                  + Cardinality({x \in Proc \X Node : tbl[x[1]].node[x[2]] = f})
                  + Cardinality({x \in Proc \X Vpn : tbl[x[1]].leaf[x[2]].pa = f})

\* A process reads in its memory what it, or the kernel for it, last stored
\* there, what exec loaded or zeros, whatever was grown, shrunk, faulted in or
\* forked in between, and whatever the other process stores.
MemoryAsTold ==
  \A p \in Proc, a \in Byte :
    LET pte == tbl[p].leaf[a \div PGSIZE] IN
    a < sz[p] /\ (pte = NoPte \/ pte.u) => View(phys, tbl[p], a) = told[p][a]

\* After exec the stack pointer leads to the list of pointers to the argument
\* strings, each followed by a NUL, all above the guard page, which is closed.
ArgvReadable ==
  last.op = "exec" /\ last.ret = 0 =>
    LET p == last.p
        V(a) == View(phys, tbl[p], a)
        Str(i) == V(last.sp + (i - 1) * PTR)
        base == sz[p] - USERSTACK * PGSIZE
    IN /\ last.sp >= base
       /\ V(last.sp + Len(last.args) * PTR) = 0
       /\ \A i \in DOMAIN last.args :
            /\ Str(i) >= last.sp + (Len(last.args) + 1) * PTR
            /\ \A k \in 0 .. last.args[i] :
                 V(Str(i) + k) = IF k < last.args[i] THEN ArgByte(i) ELSE 0
       /\ ~tbl[p].leaf[base \div PGSIZE - 1].u

\* Exec makes the page below the stack inaccessible (exec.c:84-92), and a user's
\* access to it is fatal: within one address space it is never opened again.
GuardClosed ==
  \A p \in Proc, v \in Vpn :
    /\ tbl[p].root # 0 /\ tbl'[p].root = tbl[p].root
    /\ tbl[p].leaf[v] # NoPte /\ ~tbl[p].leaf[v].u
    => ~tbl'[p].leaf[v].u
=============================================================================
