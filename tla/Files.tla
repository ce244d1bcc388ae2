------------------------------- MODULE Files --------------------------------
(***************************************************************************)
(* Open files (kernel/file.c, sysfile.c) with the in-memory files of       *)
(* MiniOS and their garbage collector (gc.c): descriptors of processes,    *)
(* the file table under ftable.lock, the table of in-memory files under    *)
(* mftable.lock, and the pages they take from the page pool.  A critical   *)
(* section with the local work after it is one step.  Which free entry of  *)
(* a table is taken is left open.                                          *)
(***************************************************************************)
EXTENDS Integers, FiniteSets

CONSTANTS
  Proc, Initial,
  FD,         \* descriptors, 0 .. NOFILE-1
  File,       \* entries of ftable
  Memfile,    \* entries of mftable
  Page,       \* pages the allocator has for files
  None,
  PGSIZE,     \* capacity of an in-memory file
  MaxOff      \* bound on the offset in a file on disk

ASSUME FilesAssumption ==
  /\ Initial \in Proc /\ PGSIZE \in Nat \ {0} /\ MaxOff \in Nat
  /\ IsFiniteSet(Proc) /\ IsFiniteSet(FD) /\ IsFiniteSet(File)
  /\ None \notin File \cup Memfile \cup Page

VARIABLES
  ofile,      \* p->ofile
  file,       \* ftable
  mftable,
  free,       \* free pages
  alive,      \* processes that exist
  op,         \* the system call each process is in
  failed      \* history: some memfile_create has failed

vars == <<ofile, file, mftable, free, alive, op, failed>>

Idle == [kind |-> "idle"]
Exiting == [kind |-> "exit"]
Creating(f) == [kind |-> "create", f |-> f]
Dropping(m, then) == [kind |-> "drop", m |-> m, then |-> then]
Become(p, o) == op' = [op EXCEPT ![p] = o]

(* A process may start a system call.  After a memcreate that found no     *)
(* room a descriptor dangles, and later system calls are not followed.     *)
Ready(p) == p \in alive /\ op[p] = Idle /\ ~failed

Closed == [type |-> "FD_NONE", ref |-> 0, memf |-> None, off |-> 0]
Slot == [ref_count |-> 0, size |-> 0, data |-> None, is_marked_deleted |-> FALSE]

Init ==
  /\ ofile = [p \in Proc |-> [d \in FD |-> None]]
  /\ file = [f \in File |-> Closed]
  /\ mftable = [m \in Memfile |-> Slot]
  /\ free = Page
  /\ alive = {Initial}
  /\ op = [p \in Proc |-> Idle]
  /\ failed = FALSE

FreeFds(p) == {d \in FD : ofile[p][d] = None}

(* fdalloc takes the lowest free descriptor. *)
Fdalloc(p, d) == d \in FreeFds(p) /\ \A e \in FreeFds(p) : d <= e

-----------------------------------------------------------------------------
(* sys_open of a file on disk: the offset starts at 0. *)
Open(p) ==
  /\ Ready(p)
  /\ \E f \in File, d \in FD :
       /\ file[f].ref = 0 /\ Fdalloc(p, d)
       /\ file' = [file EXCEPT ![f].ref = 1, ![f].type = "FD_INODE", ![f].off = 0]
       /\ ofile' = [ofile EXCEPT ![p][d] = f]
  /\ UNCHANGED <<mftable, free, alive, op, failed>>

(* sys_memcreate up to fdalloc.  Without a free descriptor the entry is    *)
(* closed again.                                                           *)
MemcreateFile(p) ==
  /\ Ready(p)
  /\ \E f \in File, d \in FD :
       /\ file[f].ref = 0 /\ Fdalloc(p, d)
       /\ file' = [file EXCEPT ![f].ref = 1]
       /\ ofile' = [ofile EXCEPT ![p][d] = f]
       /\ Become(p, Creating(f))
  /\ UNCHANGED <<mftable, free, alive, failed>>

Vacant == {m \in Memfile : mftable[m].ref_count = 0 /\ ~mftable[m].is_marked_deleted}

(* memfile_create, then the binding.  The offset of the entry stays as its *)
(* last user left it, and so does the page a closed file has not given up. *)
MemcreateBind(p) ==
  /\ op[p].kind = "create"
  /\ \E m \in Vacant, x \in free :
       /\ mftable' = [mftable EXCEPT ![m] = [Slot EXCEPT !.ref_count = 1, !.data = x]]
       /\ free' = free \ {x}
       /\ file' = [file EXCEPT ![op[p].f].type = "FD_MEM", ![op[p].f].memf = m]
  /\ Become(p, Idle)
  /\ UNCHANGED <<ofile, alive, failed>>

(* No entry or no page: the file is closed, but the descriptor stays. *)
MemcreateFail(p) ==
  /\ op[p].kind = "create"
  /\ Vacant = {} \/ free = {}
  /\ file[op[p].f].ref = 1
  /\ file' = [file EXCEPT ![op[p].f].ref = 0, ![op[p].f].type = "FD_NONE"]
  /\ Become(p, Idle)
  /\ failed' = TRUE
  /\ UNCHANGED <<ofile, mftable, free, alive>>

-----------------------------------------------------------------------------
(* fileread and filewrite of a file on disk move the offset. *)
InodeIO(p, d) ==
  /\ Ready(p) /\ ofile[p][d] # None
  /\ LET f == ofile[p][d]
     IN  /\ file[f].type = "FD_INODE" /\ file[f].off < MaxOff
         /\ file' = [file EXCEPT ![f].off = @ + 1]
  /\ UNCHANGED <<ofile, mftable, free, alive, op, failed>>

IsMem(p, d) == ofile[p][d] # None /\ file[ofile[p][d]].type = "FD_MEM"
Mem(p, d) == file[ofile[p][d]].memf

(* fileread of an in-memory file always starts at 0. *)
MemRead(p, d) ==
  /\ Ready(p) /\ IsMem(p, d) /\ ~mftable[Mem(p, d)].is_marked_deleted
  /\ \E n \in 0 .. mftable[Mem(p, d)].size : file' = [file EXCEPT ![ofile[p][d]].off = n]
  /\ UNCHANGED <<ofile, mftable, free, alive, op, failed>>

(* filewrite of an in-memory file at the offset, cut at the page's end. *)
MemWrite(p, d) ==
  /\ Ready(p) /\ IsMem(p, d) /\ ~mftable[Mem(p, d)].is_marked_deleted
  /\ LET f == ofile[p][d]
     IN  \E n \in file[f].off + 1 .. PGSIZE :
           /\ file' = [file EXCEPT ![f].off = n]
           /\ mftable' = [mftable EXCEPT ![Mem(p, d)].size = IF n > @ THEN n ELSE @]
  /\ UNCHANGED <<ofile, free, alive, op, failed>>

-----------------------------------------------------------------------------

(* sys_dup *)
Dup(p, d) ==
  /\ Ready(p) /\ ofile[p][d] # None
  /\ file[ofile[p][d]].ref >= 1
  /\ file' = [file EXCEPT ![ofile[p][d]].ref = @ + 1]
  /\ \E e \in FD : Fdalloc(p, e) /\ ofile' = [ofile EXCEPT ![p][e] = ofile[p][d]]
  /\ UNCHANGED <<mftable, free, alive, op, failed>>

(* kfork: every descriptor of the parent is duplicated. *)
Fork(p, q) ==
  /\ Ready(p) /\ q \notin alive
  /\ \A d \in FD : ofile[p][d] # None => file[ofile[p][d]].ref >= 1
  /\ file' = [f \in File |->
        [file[f] EXCEPT !.ref = @ + Cardinality({d \in FD : ofile[p][d] = f})]]
  /\ ofile' = [ofile EXCEPT ![q] = ofile[p]]
  /\ alive' = alive \cup {q}
  /\ UNCHANGED <<mftable, free, op, failed>>

-----------------------------------------------------------------------------
(* fileclose of descriptor d, in sys_close or in kexit: the last reference *)
(* frees the entry, and a copy of it is used to finish.  memf is not read  *)
(* again before it is set.                                                 *)
FileClose(p, d) ==
  /\ Ready(p) \/ (op[p] = Exiting /\ ~failed)
  /\ ofile[p][d] # None
  /\ LET f == ofile[p][d]
     IN  /\ file[f].ref >= 1
         /\ ofile' = [ofile EXCEPT ![p][d] = None]
         /\ IF file[f].ref > 1
            THEN file' = [file EXCEPT ![f].ref = @ - 1] /\ UNCHANGED op
            ELSE /\ file' = [file EXCEPT ![f] = [Closed EXCEPT !.off = file[f].off]]
                 /\ IF file[f].type = "FD_MEM"
                    THEN Become(p, Dropping(file[f].memf, op[p]))
                    ELSE UNCHANGED op
  /\ UNCHANGED <<mftable, free, alive, failed>>

FileCloseDropForgotten(p) ==   \* mutant: the in-memory file keeps its count
  /\ op[p].kind = "drop"
  /\ Become(p, op[p].then)
  /\ UNCHANGED <<ofile, file, mftable, free, alive, failed>>

(* The second half of fileclose, under mftable.lock. *)
FileCloseDrop(p) ==
  /\ op[p].kind = "drop"
  /\ mftable' = [mftable EXCEPT ![op[p].m].ref_count = @ - 1]
  /\ Become(p, op[p].then)
  /\ UNCHANGED <<ofile, file, free, alive, failed>>

ExitBegin(p) ==
  /\ Ready(p) /\ p # Initial
  /\ Become(p, Exiting)
  /\ UNCHANGED <<ofile, file, mftable, free, alive, failed>>

ExitEnd(p) ==
  /\ op[p] = Exiting /\ \A d \in FD : ofile[p][d] = None
  /\ alive' = alive \ {p}
  /\ Become(p, Idle)
  /\ UNCHANGED <<ofile, file, mftable, free, failed>>

(* sys_memdelete only marks the file. *)
MemDelete(p, d) ==
  /\ Ready(p) /\ IsMem(p, d) /\ mftable[Mem(p, d)].ref_count >= 1
  /\ mftable' = [mftable EXCEPT ![Mem(p, d)].is_marked_deleted = TRUE]
  /\ UNCHANGED <<ofile, file, free, alive, op, failed>>

-----------------------------------------------------------------------------
DeadOpen == {m \in Memfile : mftable[m].is_marked_deleted}   \* mutant: open files too

(* The files garbage_collect frees. *)
Dead == {m \in Memfile : mftable[m].is_marked_deleted /\ mftable[m].ref_count = 0}

GarbageCollectKeeps ==   \* mutant: the page is freed, the entry is not reset
  /\ Dead # {}
  /\ free' = free \cup {mftable[m].data : m \in Dead}
  /\ mftable' = [m \in Memfile |->
       IF m \in Dead THEN [mftable[m] EXCEPT !.is_marked_deleted = FALSE] ELSE mftable[m]]
  /\ UNCHANGED <<ofile, file, alive, op, failed>>

(* garbage_collect, on an idle CPU. *)
GarbageCollect ==
  /\ Dead # {}
  /\ free' = free \cup {mftable[m].data : m \in Dead}
  /\ mftable' = [m \in Memfile |-> IF m \in Dead THEN Slot ELSE mftable[m]]
  /\ UNCHANGED <<ofile, file, alive, op, failed>>

-----------------------------------------------------------------------------
SysStep(p) ==
  \/ Open(p) \/ MemcreateFile(p) \/ MemcreateBind(p) \/ MemcreateFail(p)
  \/ \E d \in FD : \/ InodeIO(p, d) \/ MemRead(p, d) \/ MemWrite(p, d)
                   \/ Dup(p, d) \/ FileClose(p, d) \/ MemDelete(p, d)
  \/ \E q \in Proc : Fork(p, q)
  \/ FileCloseDrop(p) \/ ExitBegin(p) \/ ExitEnd(p)

Next == GarbageCollect \/ \E p \in Proc : SysStep(p)

Spec == Init /\ [][Next]_vars

(* A system call ends, and the CPU is idle again and again. *)
FairSpec == /\ Spec
            /\ WF_vars(GarbageCollect)
            /\ \A p \in Proc : WF_vars(MemcreateBind(p) \/ MemcreateFail(p) \/ FileCloseDrop(p))

-----------------------------------------------------------------------------
TypeOK ==
  /\ ofile \in [Proc -> [FD -> File \cup {None}]]
  /\ file \in [File -> [type : {"FD_NONE", "FD_INODE", "FD_MEM"}, ref : Nat,
                        memf : Memfile \cup {None}, off : 0 .. MaxOff \cup 0 .. PGSIZE]]
  /\ mftable \in [Memfile -> [ref_count : Nat, size : 0 .. PGSIZE,
                              data : Page \cup {None}, is_marked_deleted : BOOLEAN]]
  /\ free \subseteq Page

Descriptors(f) == {pd \in Proc \X FD : ofile[pd[1]][pd[2]] = f}

(* The reference count of an open file is the number of descriptors that   *)
(* refer to it, so an entry of ftable is given to a new file only when no  *)
(* descriptor is left (sysfile.c:39, fdalloc "Takes over file reference    *)
(* from caller on success.").                                              *)
DescriptorsCounted == \A f \in File : file[f].ref = Cardinality(Descriptors(f))

(* That is so through every open, memcreate, dup, fork, close and exit, up *)
(* to the first memcreate that finds no room.                              *)
CountedWithRoom == ~failed => DescriptorsCounted

Bound(m) == {f \in File : file[f].type = "FD_MEM" /\ file[f].memf = m}
Droppers(m) == {p \in Proc : op[p].kind = "drop" /\ op[p].m = m}

(* The count of an in-memory file is the number of file entries bound to   *)
(* it and of closes that have freed their entry but not yet dropped it, so *)
(* an entry of mftable is not reused between the two halves of fileclose.  *)
MemfileCounted ==
  \A m \in Memfile : mftable[m].ref_count = Cardinality(Bound(m)) + Cardinality(Droppers(m))

(* The data of an open in-memory file is a page of its own: garbage        *)
(* collection has not freed it, whatever was deleted, closed and created   *)
(* in between.                                                             *)
OpenDataIntact ==
  \A m \in Memfile : Bound(m) # {} =>
    /\ mftable[m].data \in Page \ free
    /\ \A n \in Memfile \ {m} : mftable[n].data # mftable[m].data

(* A file deleted and closed is collected (README.md:19): its memory comes *)
(* back when the system is idle.                                           *)
DeletedCollected == \A m \in Memfile : m \in Dead ~> mftable[m].data = None

(* The counts are right: of open files and of in-memory files, with the    *)
(* types.                                                                  *)
FilesCounted == TypeOK /\ CountedWithRoom /\ MemfileCounted

=============================================================================
