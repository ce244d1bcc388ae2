----------------------------- MODULE FilesProofs -----------------------------
(***************************************************************************)
(* Open files for every number of processes, descriptors, table entries    *)
(* and pages: the counts of open files and of in-memory files are exact,   *)
(* and the garbage collector never takes the page of an open file.         *)
(***************************************************************************)
EXTENDS Files, FiniteSetTheorems, TLAPS

-----------------------------------------------------------------------------
(* The system calls a process can be in.                                   *)
Op == {Idle, Exiting} \cup {Creating(f) : f \in File}
        \cup {Dropping(m, then) : m \in Memfile, then \in {Idle, Exiting}}

(* The entries of ftable and of mftable.                                   *)
FileT == [type : {"FD_NONE", "FD_INODE", "FD_MEM"}, ref : Nat,
          memf : Memfile \cup {None}, off : 0 .. MaxOff \cup 0 .. PGSIZE]
MemT == [ref_count : Nat, size : 0 .. PGSIZE,
         data : Page \cup {None}, is_marked_deleted : BOOLEAN]

TypeInv == TypeOK /\ op \in [Proc -> Op] /\ alive \subseteq Proc /\ failed \in BOOLEAN

(* A slot without a process is in no system call and holds no descriptor.  *)
AliveInv ==
  \A p \in Proc : p \notin alive => op[p] = Idle /\ \A d \in FD : ofile[p][d] = None

Creates(p, f) == op[p].kind = "create" /\ op[p].f = f

(* Between sys_memcreate's fdalloc and the binding the entry has no type,  *)
(* counts once, and is known to no other process.                          *)
CreateInv ==
  \A p \in Proc, f \in File : Creates(p, f) =>
    /\ file[f].type = "FD_NONE" /\ file[f].ref = 1
    /\ \A q \in Proc \ {p} : ~Creates(q, f) /\ \A d \in FD : ofile[q][d] # f

(* A free entry has no type, and one of an in-memory file names it.        *)
FileInv ==
  \A f \in File :
    /\ file[f].ref = 0 => file[f].type = "FD_NONE"
    /\ file[f].type = "FD_MEM" => file[f].memf \in Memfile

(* A page is free or belongs to one in-memory file, and one that is open,  *)
(* or waits to be collected, has a page.                                   *)
PageInv ==
  /\ \A m \in Memfile : mftable[m].data \notin free
  /\ \A m, n \in Memfile : m # n /\ mftable[m].data # None => mftable[n].data # mftable[m].data
  /\ \A m \in Memfile : mftable[m].ref_count > 0 \/ mftable[m].is_marked_deleted =>
       mftable[m].data # None

Inv == /\ TypeInv /\ AliveInv /\ CreateInv /\ FileInv
       /\ CountedWithRoom /\ MemfileCounted /\ PageInv

-----------------------------------------------------------------------------
(* The phases of a system call tell each other apart.                      *)
LEMMA OpKinds ==
  ASSUME NEW o \in Op
  PROVE  /\ o.kind \in {"idle", "exit", "create", "drop"}
         /\ o.kind = "idle" <=> o = Idle
         /\ o.kind = "exit" <=> o = Exiting
         /\ o.kind = "create" => o.f \in File
         /\ o.kind = "drop" => o.m \in Memfile /\ o.then \in {Idle, Exiting}
  <1>1. CASE o = Idle
    BY <1>1 DEF Idle, Exiting
  <1>2. CASE o = Exiting
    BY <1>2 DEF Idle, Exiting
  <1>3. CASE \E f \in File : o = Creating(f)
    BY <1>3 DEF Idle, Exiting, Creating
  <1>4. CASE \E m \in Memfile, then \in {Idle, Exiting} : o = Dropping(m, then)
    <2>1. PICK m \in Memfile, then \in {Idle, Exiting} : o = Dropping(m, then)
      BY <1>4
    <2>2. o.kind = "drop" /\ o.m = m /\ o.then = then
      BY <2>1 DEF Dropping
    <2>3. Idle.kind = "idle" /\ Exiting.kind = "exit"
      BY DEF Idle, Exiting
    <2> QED
      BY <2>2, <2>3
  <1> QED
    BY <1>1, <1>2, <1>3, <1>4 DEF Op

(* What each of them records.                                              *)
LEMMA OpFields ==
  /\ Idle \in Op /\ Idle.kind = "idle"
  /\ Exiting \in Op /\ Exiting.kind = "exit"
  /\ \A f \in File : Creating(f) \in Op /\ Creating(f).kind = "create" /\ Creating(f).f = f
  /\ \A m \in Memfile, then \in {Idle, Exiting} :
       /\ Dropping(m, then) \in Op /\ Dropping(m, then).kind = "drop"
       /\ Dropping(m, then).m = m /\ Dropping(m, then).then = then
  <1>1. Idle \in Op /\ Exiting \in Op
    BY DEF Op
  <1>2. \A f \in File : Creating(f) \in Op
    BY DEF Op
  <1>3. \A m \in Memfile, then \in {Idle, Exiting} : Dropping(m, then) \in Op
    BY DEF Op
  <1>4. Idle.kind = "idle" /\ Exiting.kind = "exit"
    BY DEF Idle, Exiting
  <1>5. \A f \in File : Creating(f).kind = "create" /\ Creating(f).f = f
    BY DEF Creating
  <1>6. \A m, then : /\ Dropping(m, then).kind = "drop"
                     /\ Dropping(m, then).m = m /\ Dropping(m, then).then = then
    BY DEF Dropping
  <1> QED
    BY <1>1, <1>2, <1>3, <1>4, <1>5, <1>6

(* The type invariant in these terms.                                      *)
LEMMA Entries == TypeOK => file \in [File -> FileT] /\ mftable \in [Memfile -> MemT]
  BY DEF TypeOK, FileT, MemT

(* The sets that are counted are finite.                                   *)
LEMMA Finite ==
  /\ \A f : IsFiniteSet(Descriptors(f)) /\ Cardinality(Descriptors(f)) \in Nat
  /\ \A m : IsFiniteSet(Bound(m)) /\ Cardinality(Bound(m)) \in Nat
  /\ \A m : IsFiniteSet(Droppers(m)) /\ Cardinality(Droppers(m)) \in Nat
  <1>1. IsFiniteSet(Proc \X FD)
    BY FS_Product, FilesAssumption
  <1>2. \A f : IsFiniteSet(Descriptors(f))
    BY <1>1, FS_Subset DEF Descriptors
  <1>3. \A m : IsFiniteSet(Bound(m))
    BY FS_Subset, FilesAssumption DEF Bound
  <1>4. \A m : IsFiniteSet(Droppers(m))
    BY FS_Subset, FilesAssumption DEF Droppers
  <1> QED
    BY <1>2, <1>3, <1>4, FS_CardinalityType

(* A descriptor that is filled adds one to those of its file.              *)
LEMMA FdFilled ==
  ASSUME TypeOK, NEW p \in Proc, NEW d \in FD, NEW g \in File,
         ofile[p][d] = None, ofile' = [ofile EXCEPT ![p][d] = g]
  PROVE  /\ Cardinality(Descriptors(g)') = Cardinality(Descriptors(g)) + 1
         /\ \A f \in File \ {g} : Descriptors(f)' = Descriptors(f)
         /\ ofile' \in [Proc -> [FD -> File \cup {None}]]
  <1>1. ofile' \in [Proc -> [FD -> File \cup {None}]]
    BY DEF TypeOK
  <1>2. \A q \in Proc, e \in FD :
          ofile'[q][e] = IF q = p /\ e = d THEN g ELSE ofile[q][e]
    BY DEF TypeOK
  <1>3. None \notin File
    BY FilesAssumption
  <1>4. \A f \in File \ {g} : Descriptors(f)' = Descriptors(f)
    BY <1>2, <1>3 DEF Descriptors
  <1>5. Descriptors(g)' = Descriptors(g) \cup {<<p, d>>}
    BY <1>2 DEF Descriptors
  <1>6. <<p, d>> \notin Descriptors(g)
    BY <1>3 DEF Descriptors
  <1>7. Cardinality(Descriptors(g) \cup {<<p, d>>}) = Cardinality(Descriptors(g)) + 1
    BY <1>6, Finite, FS_AddElement
  <1> QED
    BY <1>1, <1>4, <1>5, <1>7

(* One that is cleared takes one away.                                     *)
LEMMA FdCleared ==
  ASSUME TypeOK, NEW p \in Proc, NEW d \in FD, NEW g \in File,
         ofile[p][d] = g, ofile' = [ofile EXCEPT ![p][d] = None]
  PROVE  /\ Cardinality(Descriptors(g)') = Cardinality(Descriptors(g)) - 1
         /\ \A f \in File \ {g} : Descriptors(f)' = Descriptors(f)
         /\ ofile' \in [Proc -> [FD -> File \cup {None}]]
  <1>1. ofile' \in [Proc -> [FD -> File \cup {None}]]
    BY DEF TypeOK
  <1>2. \A q \in Proc, e \in FD :
          ofile'[q][e] = IF q = p /\ e = d THEN None ELSE ofile[q][e]
    BY DEF TypeOK
  <1>3. None \notin File
    BY FilesAssumption
  <1>4. \A f \in File \ {g} : Descriptors(f)' = Descriptors(f)
    BY <1>2, <1>3 DEF Descriptors
  <1>5. Descriptors(g)' = Descriptors(g) \ {<<p, d>>}
    BY <1>2, <1>3 DEF Descriptors
  <1>6. <<p, d>> \in Descriptors(g)
    BY DEF Descriptors
  <1>7. Cardinality(Descriptors(g) \ {<<p, d>>}) = Cardinality(Descriptors(g)) - 1
    BY <1>6, Finite, FS_RemoveElement
  <1> QED
    BY <1>1, <1>4, <1>5, <1>7

(* A fork gives the child one descriptor for each of its parent's.         *)
LEMMA FdsCopied ==
  ASSUME TypeOK, NEW p \in Proc, NEW q \in Proc, p # q,
         \A d \in FD : ofile[q][d] = None, ofile' = [ofile EXCEPT ![q] = ofile[p]],
         NEW f \in File
  PROVE  /\ Cardinality({d \in FD : ofile[p][d] = f}) \in Nat
         /\ Cardinality(Descriptors(f)')
              = Cardinality(Descriptors(f)) + Cardinality({d \in FD : ofile[p][d] = f})
  <1> DEFINE S == {d \in FD : ofile[p][d] = f}
  <1>1. IsFiniteSet(S) /\ Cardinality(S) \in Nat
    BY FS_Subset, FS_CardinalityType, FilesAssumption
  <1>2. IsFiniteSet({q}) /\ Cardinality({q}) = 1
    BY FS_Singleton
  <1>3. IsFiniteSet({q} \X S) /\ Cardinality({q} \X S) = Cardinality(S)
    <2>1. IsFiniteSet({q} \X S) /\ Cardinality({q} \X S) = Cardinality({q}) * Cardinality(S)
      BY <1>1, <1>2, FS_Product
    <2> HIDE DEF S
    <2> QED
      BY <2>1, <1>1, <1>2
  <1>4. \A r \in Proc, e \in FD : ofile'[r][e] = IF r = q THEN ofile[p][e] ELSE ofile[r][e]
    BY DEF TypeOK
  <1>5. None # f
    BY FilesAssumption
  <1>6. Descriptors(f)' = Descriptors(f) \cup ({q} \X S)
    BY <1>4, <1>5 DEF Descriptors
  <1>7. Descriptors(f) \cap ({q} \X S) = {}
    BY <1>5 DEF Descriptors
  <1>8. Cardinality(Descriptors(f) \cup ({q} \X S))
          = Cardinality(Descriptors(f)) + Cardinality({q} \X S)
            - Cardinality(Descriptors(f) \cap ({q} \X S))
    BY <1>3, Finite, FS_Union
  <1>9. Cardinality(Descriptors(f) \cap ({q} \X S)) = 0
    BY <1>7, FS_EmptySet
  <1>10. Cardinality(Descriptors(f)) \in Nat
    BY Finite
  <1> HIDE DEF S
  <1>11. Cardinality(Descriptors(f)') = Cardinality(Descriptors(f)) + Cardinality(S)
    BY <1>1, <1>3, <1>6, <1>8, <1>9, <1>10
  <1> QED
    BY <1>1, <1>11 DEF S

-----------------------------------------------------------------------------
(* The counts of in-memory files stay right when no count, no binding and  *)
(* no pending drop changes.                                                *)
LEMMA MemKept ==
  ASSUME MemfileCounted,
         \A m \in Memfile : mftable'[m].ref_count = mftable[m].ref_count,
         \A f \in File : /\ file'[f].type = "FD_MEM" <=> file[f].type = "FD_MEM"
                         /\ file[f].type = "FD_MEM" => file'[f].memf = file[f].memf,
         \A p \in Proc : /\ op'[p].kind = "drop" <=> op[p].kind = "drop"
                         /\ op[p].kind = "drop" => op'[p].m = op[p].m
  PROVE  MemfileCounted'
  <1>1. \A m \in Memfile : Bound(m)' = Bound(m)
    BY DEF Bound
  <1>2. \A m \in Memfile : Droppers(m)' = Droppers(m)
    BY DEF Droppers
  <1> QED
    BY <1>1, <1>2 DEF MemfileCounted

(* A free entry of ftable is known to nobody.                              *)
LEMMA FreshEntry ==
  ASSUME Inv, ~failed, NEW f \in File, file[f].ref = 0
  PROVE  /\ file[f].type = "FD_NONE" /\ Cardinality(Descriptors(f)) = 0
         /\ \A q \in Proc : ~Creates(q, f) /\ \A e \in FD : ofile[q][e] # f
  <1>1. file[f].type = "FD_NONE"
    BY DEF Inv, FileInv
  <1>2. Cardinality(Descriptors(f)) = 0
    BY DEF Inv, CountedWithRoom, DescriptorsCounted
  <1>3. Descriptors(f) = {}
    BY <1>2, Finite, FS_EmptySet
  <1>4. \A q \in Proc : ~Creates(q, f)
    BY DEF Inv, CreateInv
  <1>5. ASSUME NEW q \in Proc, NEW e \in FD, ofile[q][e] = f
        PROVE  FALSE
    <2>1. <<q, e>> \in Descriptors(f)
      BY <1>5 DEF Descriptors
    <2> QED
      BY <1>3, <2>1
  <1> QED
    BY <1>1, <1>2, <1>4, <1>5

-----------------------------------------------------------------------------
(* The tables as fileinit leaves them.                                     *)
LEMMA InitInv == Init => Inv
  <1> SUFFICES ASSUME Init
               PROVE  Inv
    OBVIOUS
  <1>1. TypeInv
    <2>1. Closed \in FileT
      BY FilesAssumption DEF Closed, FileT
    <2>2. Slot \in MemT
      BY FilesAssumption DEF Slot, MemT
    <2>3. TypeOK
      BY <2>1, <2>2 DEF Init, TypeOK, FileT, MemT
    <2> QED
      BY <2>3, OpFields, FilesAssumption DEF Init, TypeInv
  <1>2. AliveInv
    BY DEF Init, AliveInv
  <1>3. CreateInv
    BY OpFields DEF Init, CreateInv, Creates
  <1>4. FileInv
    BY DEF Init, FileInv, Closed
  <1>5. CountedWithRoom
    <2>1. \A f \in File : Descriptors(f) = {}
      BY FilesAssumption DEF Init, Descriptors
    <2>2. \A f \in File : file[f].ref = 0
      BY DEF Init, Closed
    <2> QED
      BY <2>1, <2>2, FS_EmptySet DEF CountedWithRoom, DescriptorsCounted
  <1>6. MemfileCounted
    <2>1. \A m \in Memfile : Bound(m) = {}
      BY DEF Init, Bound, Closed
    <2>2. \A m \in Memfile : Droppers(m) = {}
      BY OpFields DEF Init, Droppers
    <2>3. \A m \in Memfile : mftable[m].ref_count = 0
      BY DEF Init, Slot
    <2> QED
      BY <2>1, <2>2, <2>3, FS_EmptySet DEF MemfileCounted
  <1>7. PageInv
    BY FilesAssumption DEF Init, PageInv, Slot
  <1> QED
    BY <1>1, <1>2, <1>3, <1>4, <1>5, <1>6, <1>7 DEF Inv

(* A step that moves offsets, changes sizes or marks open files.           *)
LEMMA QuietStep ==
  ASSUME Inv, TypeOK', UNCHANGED <<ofile, op, alive, failed, free>>,
         \A f \in File : /\ file'[f].type = file[f].type
                         /\ file'[f].ref = file[f].ref
                         /\ file'[f].memf = file[f].memf,
         \A m \in Memfile : /\ mftable'[m].ref_count = mftable[m].ref_count
                            /\ mftable'[m].data = mftable[m].data
                            /\ mftable'[m].is_marked_deleted =>
                                 mftable[m].is_marked_deleted \/ mftable[m].ref_count > 0
  PROVE  Inv'
  <1>1. TypeInv'
    BY DEF Inv, TypeInv
  <1>2. AliveInv'
    BY DEF Inv, AliveInv
  <1>3. CreateInv'
    BY DEF Inv, CreateInv, Creates
  <1>4. FileInv'
    BY DEF Inv, FileInv
  <1>5. CountedWithRoom'
    <2>1. \A f \in File : Descriptors(f)' = Descriptors(f)
      BY DEF Descriptors
    <2> QED
      BY <2>1 DEF Inv, CountedWithRoom, DescriptorsCounted
  <1>6. MemfileCounted'
    BY MemKept DEF Inv
  <1>7. PageInv'
    BY DEF Inv, PageInv
  <1> QED
    BY <1>1, <1>2, <1>3, <1>4, <1>5, <1>6, <1>7 DEF Inv

(* Reads and writes of files on disk keep the invariant.                   *)
LEMMA InodeIOInv ==
  ASSUME Inv, NEW p \in Proc, NEW d \in FD, InodeIO(p, d)
  PROVE  Inv'
  <1> DEFINE f == ofile[p][d]
  <1>1. f \in File
    BY DEF Inv, TypeInv, TypeOK, InodeIO
  <1>2. file' = [file EXCEPT ![f].off = @ + 1] /\ file[f].off < MaxOff
    BY DEF InodeIO
  <1>3. file[f].off + 1 \in 0 .. MaxOff
    BY <1>1, <1>2, FilesAssumption DEF Inv, TypeInv, TypeOK
  <1>4. TypeOK'
    <2>1. file \in [File -> FileT]
      BY Entries DEF Inv, TypeInv
    <2>2. [file[f] EXCEPT !.off = @ + 1] \in FileT
      BY <1>1, <1>3, <2>1 DEF FileT
    <2>3. file' \in [File -> FileT]
      BY <1>1, <1>2, <2>1, <2>2
    <2> QED
      BY <2>3 DEF Inv, TypeInv, TypeOK, FileT, InodeIO
  <1>5. \A g \in File : /\ file'[g].type = file[g].type
                        /\ file'[g].ref = file[g].ref
                        /\ file'[g].memf = file[g].memf
    BY <1>1, <1>2 DEF Inv, TypeInv, TypeOK
  <1> QED
    BY <1>4, <1>5, QuietStep DEF InodeIO

(* Reads of in-memory files keep it.                                       *)
LEMMA MemReadInv ==
  ASSUME Inv, NEW p \in Proc, NEW d \in FD, MemRead(p, d)
  PROVE  Inv'
  <1> DEFINE f == ofile[p][d]
  <1>1. f \in File /\ Mem(p, d) \in Memfile
    BY DEF Inv, TypeInv, TypeOK, FileInv, MemRead, IsMem, Mem
  <1>2. PICK n \in 0 .. mftable[Mem(p, d)].size : file' = [file EXCEPT ![f].off = n]
    BY DEF MemRead
  <1>3. n \in 0 .. PGSIZE
    BY <1>1, <1>2, FilesAssumption DEF Inv, TypeInv, TypeOK
  <1>4. TypeOK'
    <2>1. file \in [File -> FileT]
      BY Entries DEF Inv, TypeInv
    <2>2. [file[f] EXCEPT !.off = n] \in FileT
      BY <1>1, <1>3, <2>1 DEF FileT
    <2>3. file' \in [File -> FileT]
      BY <1>1, <1>2, <2>1, <2>2
    <2> QED
      BY <2>3 DEF Inv, TypeInv, TypeOK, FileT, MemRead
  <1>5. \A g \in File : /\ file'[g].type = file[g].type
                        /\ file'[g].ref = file[g].ref
                        /\ file'[g].memf = file[g].memf
    BY <1>1, <1>2 DEF Inv, TypeInv, TypeOK
  <1> QED
    BY <1>4, <1>5, QuietStep DEF MemRead

(* Writes of in-memory files keep it, and stay in the page.                *)
LEMMA MemWriteInv ==
  ASSUME Inv, NEW p \in Proc, NEW d \in FD, MemWrite(p, d)
  PROVE  Inv'
  <1> DEFINE f == ofile[p][d]
             m == Mem(p, d)
  <1>1. f \in File /\ m \in Memfile
    BY DEF Inv, TypeInv, TypeOK, FileInv, MemWrite, IsMem, Mem
  <1>2. PICK n \in file[f].off + 1 .. PGSIZE :
          /\ file' = [file EXCEPT ![f].off = n]
          /\ mftable' = [mftable EXCEPT ![m].size = IF n > @ THEN n ELSE @]
    BY DEF MemWrite
  <1> HIDE DEF m
  <1>3. n \in 0 .. PGSIZE
    BY <1>1, <1>2, FilesAssumption DEF Inv, TypeInv, TypeOK
  <1>4. file' \in [File -> FileT]
    <2>1. file \in [File -> FileT]
      BY Entries DEF Inv, TypeInv
    <2>2. [file[f] EXCEPT !.off = n] \in FileT
      BY <1>1, <1>3, <2>1 DEF FileT
    <2> QED
      BY <1>1, <1>2, <2>1, <2>2
  <1>5. mftable' \in [Memfile -> MemT]
    <2>1. mftable \in [Memfile -> MemT]
      BY Entries DEF Inv, TypeInv
    <2>2. [mftable[m] EXCEPT !.size = IF n > @ THEN n ELSE @] \in MemT
      BY <1>1, <1>3, <2>1 DEF MemT
    <2> QED
      BY <1>1, <1>2, <2>1, <2>2
  <1>6. TypeOK'
    BY <1>4, <1>5 DEF Inv, TypeInv, TypeOK, FileT, MemT, MemWrite
  <1>7. \A g \in File : /\ file'[g].type = file[g].type
                        /\ file'[g].ref = file[g].ref
                        /\ file'[g].memf = file[g].memf
    BY <1>1, <1>2 DEF Inv, TypeInv, TypeOK
  <1>8. \A n1 \in Memfile : /\ mftable'[n1].ref_count = mftable[n1].ref_count
                            /\ mftable'[n1].data = mftable[n1].data
                            /\ mftable'[n1].is_marked_deleted = mftable[n1].is_marked_deleted
    BY <1>1, <1>2 DEF Inv, TypeInv, TypeOK
  <1> QED
    BY <1>6, <1>7, <1>8, QuietStep DEF MemWrite

(* sys_memdelete keeps it: only an open file is marked.                    *)
LEMMA MemDeleteInv ==
  ASSUME Inv, NEW p \in Proc, NEW d \in FD, MemDelete(p, d)
  PROVE  Inv'
  <1> DEFINE m == Mem(p, d)
  <1>1. m \in Memfile /\ mftable[m].ref_count > 0
    BY DEF Inv, TypeInv, TypeOK, FileInv, MemDelete, IsMem, Mem
  <1>2. mftable' = [mftable EXCEPT ![m].is_marked_deleted = TRUE]
    BY DEF MemDelete
  <1> HIDE DEF m
  <1>3. TypeOK'
    <2>1. mftable \in [Memfile -> MemT]
      BY Entries DEF Inv, TypeInv
    <2>2. [mftable[m] EXCEPT !.is_marked_deleted = TRUE] \in MemT
      BY <1>1, <2>1 DEF MemT
    <2>3. mftable' \in [Memfile -> MemT]
      BY <1>1, <1>2, <2>1, <2>2
    <2> QED
      BY <2>3 DEF Inv, TypeInv, TypeOK, MemT, MemDelete
  <1>4. \A n \in Memfile : /\ mftable'[n].ref_count = mftable[n].ref_count
                           /\ mftable'[n].data = mftable[n].data
                           /\ mftable'[n].is_marked_deleted =>
                                mftable[n].is_marked_deleted \/ mftable[n].ref_count > 0
    BY <1>1, <1>2 DEF Inv, TypeInv, TypeOK
  <1> QED
    BY <1>3, <1>4, QuietStep DEF MemDelete

-----------------------------------------------------------------------------
(* sys_open keeps the invariant.                                           *)
LEMMA OpenInv ==
  ASSUME Inv, NEW p \in Proc, Open(p)
  PROVE  Inv'
  <1>1. PICK f \in File, d \in FD :
          /\ file[f].ref = 0 /\ ofile[p][d] = None
          /\ file' = [file EXCEPT ![f].ref = 1, ![f].type = "FD_INODE", ![f].off = 0]
          /\ ofile' = [ofile EXCEPT ![p][d] = f]
    BY DEF Open, Fdalloc, FreeFds
  <1>2. p \in alive /\ ~failed /\ UNCHANGED <<mftable, free, alive, op, failed>>
    BY DEF Open, Ready
  <1>3. /\ file[f].type = "FD_NONE" /\ Cardinality(Descriptors(f)) = 0
        /\ \A q \in Proc : ~Creates(q, f) /\ \A e \in FD : ofile[q][e] # f
    BY <1>1, <1>2, FreshEntry
  <1>4. /\ Cardinality(Descriptors(f)') = Cardinality(Descriptors(f)) + 1
        /\ \A g \in File \ {f} : Descriptors(g)' = Descriptors(g)
        /\ ofile' \in [Proc -> [FD -> File \cup {None}]]
    BY <1>1, FdFilled DEF Inv, TypeInv
  <1>5. /\ file'[f].ref = 1 /\ file'[f].type = "FD_INODE"
        /\ \A g \in File \ {f} : file'[g] = file[g]
    BY <1>1 DEF Inv, TypeInv, TypeOK
  <1>6. TypeInv'
    <2>1. file' \in [File -> FileT]
      <3>1. file \in [File -> FileT]
        BY Entries DEF Inv, TypeInv
      <3>2. [file[f] EXCEPT !.ref = 1, !.type = "FD_INODE", !.off = 0] \in FileT
        <4>1. 0 \in 0 .. MaxOff
          BY FilesAssumption
        <4>2. file[f] \in FileT
          BY <3>1
        <4>3. [file[f] EXCEPT !.ref = 1, !.type = "FD_INODE"] \in FileT
          BY <4>2 DEF FileT
        <4>4. \A r \in FileT : [r EXCEPT !.off = 0] \in FileT
          BY <4>1 DEF FileT
        <4> QED
          BY <4>3, <4>4
      <3> QED
        BY <1>1, <3>1, <3>2
    <2> QED
      BY <1>2, <1>4, <2>1 DEF Inv, TypeInv, TypeOK, FileT, MemT
  <1>7. AliveInv'
    BY <1>1, <1>2 DEF Inv, TypeInv, TypeOK, AliveInv
  <1>8. CreateInv'
    <2>1. \A q \in Proc, e \in FD : ofile'[q][e] \in {ofile[q][e], f}
      BY <1>1 DEF Inv, TypeInv, TypeOK
    <2> QED
      BY <1>2, <1>3, <1>5, <2>1 DEF Inv, CreateInv, Creates
  <1>9. FileInv'
    BY <1>5 DEF Inv, FileInv
  <1>10. CountedWithRoom'
    BY <1>2, <1>3, <1>4, <1>5 DEF Inv, CountedWithRoom, DescriptorsCounted
  <1>11. MemfileCounted'
    BY <1>2, <1>3, <1>5, MemKept DEF Inv
  <1>12. PageInv'
    BY <1>2 DEF Inv, PageInv
  <1> QED
    BY <1>6, <1>7, <1>8, <1>9, <1>10, <1>11, <1>12 DEF Inv

(* The first half of sys_memcreate keeps it.                               *)
LEMMA MemcreateFileInv ==
  ASSUME Inv, NEW p \in Proc, MemcreateFile(p)
  PROVE  Inv'
  <1>1. PICK f \in File, d \in FD :
          /\ file[f].ref = 0 /\ ofile[p][d] = None
          /\ file' = [file EXCEPT ![f].ref = 1]
          /\ ofile' = [ofile EXCEPT ![p][d] = f]
          /\ op' = [op EXCEPT ![p] = Creating(f)]
    BY DEF MemcreateFile, Fdalloc, FreeFds, Become
  <1>2. /\ p \in alive /\ ~failed /\ op[p] = Idle
        /\ UNCHANGED <<mftable, free, alive, failed>>
    BY DEF MemcreateFile, Ready
  <1>3. /\ file[f].type = "FD_NONE" /\ Cardinality(Descriptors(f)) = 0
        /\ \A q \in Proc : ~Creates(q, f) /\ \A e \in FD : ofile[q][e] # f
    BY <1>1, <1>2, FreshEntry
  <1>4. /\ Cardinality(Descriptors(f)') = Cardinality(Descriptors(f)) + 1
        /\ \A g \in File \ {f} : Descriptors(g)' = Descriptors(g)
        /\ ofile' \in [Proc -> [FD -> File \cup {None}]]
    BY <1>1, FdFilled DEF Inv, TypeInv
  <1>5. /\ file'[f].ref = 1 /\ file'[f].type = "FD_NONE"
        /\ \A g \in File \ {f} : file'[g] = file[g]
    BY <1>1, <1>3 DEF Inv, TypeInv, TypeOK
  <1>6. /\ op' \in [Proc -> Op] /\ op'[p].kind = "create" /\ op'[p].f = f
        /\ \A q \in Proc \ {p} : op'[q] = op[q]
    BY <1>1, OpFields DEF Inv, TypeInv
  <1>7. TypeInv'
    <2>1. file' \in [File -> FileT]
      <3>1. file \in [File -> FileT]
        BY Entries DEF Inv, TypeInv
      <3>2. [file[f] EXCEPT !.ref = 1] \in FileT
        BY <3>1 DEF FileT
      <3> QED
        BY <1>1, <3>1, <3>2
    <2> QED
      BY <1>2, <1>4, <1>6, <2>1 DEF Inv, TypeInv, TypeOK, FileT, MemT
  <1>8. AliveInv'
    BY <1>1, <1>2, <1>6 DEF Inv, TypeInv, TypeOK, AliveInv
  <1>9. CreateInv'
    <2>1. \A q \in Proc, e \in FD :
            ofile'[q][e] = ofile[q][e] \/ (q = p /\ ofile'[q][e] = f)
      BY <1>1 DEF Inv, TypeInv, TypeOK
    <2>2. \A q \in Proc, g \in File :
            Creates(q, g)' <=> (IF q = p THEN g = f ELSE Creates(q, g))
      BY <1>6 DEF Creates
    <2> QED
      BY <1>3, <1>5, <2>1, <2>2 DEF Inv, CreateInv
  <1>10. FileInv'
    BY <1>5 DEF Inv, FileInv
  <1>11. CountedWithRoom'
    BY <1>2, <1>3, <1>4, <1>5 DEF Inv, CountedWithRoom, DescriptorsCounted
  <1>12. MemfileCounted'
    BY <1>2, <1>3, <1>5, <1>6, MemKept, OpFields DEF Inv
  <1>13. PageInv'
    BY <1>2 DEF Inv, PageInv
  <1> QED
    BY <1>7, <1>8, <1>9, <1>10, <1>11, <1>12, <1>13 DEF Inv

(* The binding keeps it: the entry of mftable was in use by nobody.        *)
LEMMA MemcreateBindInv ==
  ASSUME Inv, NEW p \in Proc, MemcreateBind(p)
  PROVE  Inv'
  <1>0. PICK f : f = op[p].f
    OBVIOUS
  <1>1. PICK m \in Vacant, x \in free :
          /\ mftable' = [mftable EXCEPT ![m] = [Slot EXCEPT !.ref_count = 1, !.data = x]]
          /\ free' = free \ {x}
          /\ file' = [file EXCEPT ![f].type = "FD_MEM", ![f].memf = m]
    BY <1>0 DEF MemcreateBind
  <1>2. /\ op[p].kind = "create" /\ op' = [op EXCEPT ![p] = Idle]
        /\ UNCHANGED <<ofile, alive, failed>>
    BY DEF MemcreateBind, Become
  <1>3. f \in File /\ Creates(p, f)
    BY <1>0, <1>2, OpKinds DEF Inv, TypeInv, Creates
  <1>4. m \in Memfile /\ mftable[m].ref_count = 0 /\ x \in Page
    BY DEF Vacant, Inv, TypeInv, TypeOK
  <1>5. /\ file[f].type = "FD_NONE" /\ file[f].ref = 1
        /\ \A q \in Proc \ {p} : ~Creates(q, f)
    BY <1>3 DEF Inv, CreateInv
  <1>6. /\ file'[f].type = "FD_MEM" /\ file'[f].memf = m /\ file'[f].ref = 1
        /\ \A g \in File \ {f} : file'[g] = file[g]
    BY <1>1, <1>3, <1>5 DEF Inv, TypeInv, TypeOK
  <1>7. /\ mftable'[m].ref_count = 1 /\ mftable'[m].data = x
        /\ mftable'[m].is_marked_deleted = FALSE
        /\ \A n \in Memfile \ {m} : mftable'[n] = mftable[n]
    BY <1>1, <1>4 DEF Inv, TypeInv, TypeOK, Slot
  <1>8. /\ op' \in [Proc -> Op] /\ op'[p] = Idle
        /\ \A q \in Proc \ {p} : op'[q] = op[q]
    BY <1>2, OpFields DEF Inv, TypeInv
  <1>9. TypeInv'
    <2>1. file' \in [File -> FileT]
      <3>1. file \in [File -> FileT]
        BY Entries DEF Inv, TypeInv
      <3>2. [file[f] EXCEPT !.type = "FD_MEM", !.memf = m] \in FileT
        BY <3>1, <1>3, <1>4 DEF FileT
      <3> QED
        BY <1>1, <1>3, <3>1, <3>2
    <2>2. mftable' \in [Memfile -> MemT]
      <3>1. mftable \in [Memfile -> MemT]
        BY Entries DEF Inv, TypeInv
      <3>2. [Slot EXCEPT !.ref_count = 1, !.data = x] \in MemT
        <4>1. Slot \in MemT
          BY FilesAssumption DEF Slot, MemT
        <4> QED
          BY <1>4, <4>1 DEF MemT
      <3> QED
        BY <1>1, <1>4, <3>1, <3>2
    <2> QED
      BY <1>1, <1>2, <1>8, <2>1, <2>2 DEF Inv, TypeInv, TypeOK, FileT, MemT
  <1>10. AliveInv'
    BY <1>2, <1>8 DEF Inv, AliveInv
  <1>11. CreateInv'
    <2>1. \A q \in Proc, g \in File : Creates(q, g)' => q # p /\ Creates(q, g) /\ g # f
      BY <1>5, <1>8, OpFields DEF Creates
    <2> QED
      BY <1>2, <1>6, <2>1 DEF Inv, CreateInv
  <1>12. FileInv'
    BY <1>4, <1>6 DEF Inv, FileInv
  <1>13. CountedWithRoom'
    <2>1. \A g \in File : Descriptors(g)' = Descriptors(g)
      BY <1>2 DEF Descriptors
    <2> QED
      BY <1>2, <1>5, <1>6, <2>1 DEF Inv, CountedWithRoom, DescriptorsCounted
  <1>14. MemfileCounted'
    <2>1. Cardinality(Bound(m)) = 0 /\ Cardinality(Droppers(m)) = 0
      BY <1>4, Finite DEF Inv, MemfileCounted
    <2>2. Bound(m) = {} /\ Droppers(m) = {}
      BY <2>1, Finite, FS_EmptySet
    <2>3. Bound(m)' = {f}
      BY <1>3, <1>6, <2>2 DEF Bound
    <2>4. \A n \in Memfile \ {m} : Bound(n)' = Bound(n)
      BY <1>3, <1>5, <1>6 DEF Bound
    <2>5. \A n \in Memfile : Droppers(n)' = Droppers(n)
      BY <1>2, <1>8, OpFields DEF Droppers
    <2>6. Cardinality({f}) = 1
      BY FS_Singleton
    <2>7. mftable'[m].ref_count = Cardinality(Bound(m)') + Cardinality(Droppers(m)')
      BY <1>4, <1>7, <2>1, <2>3, <2>5, <2>6
    <2> QED
      BY <1>7, <2>4, <2>5, <2>7 DEF Inv, MemfileCounted
  <1>15. PageInv'
    <2>1. x # None /\ \A n \in Memfile \ {m} : mftable[n].data # x
      BY <1>1, <1>4, FilesAssumption DEF Inv, PageInv
    <2> QED
      BY <1>1, <1>4, <1>7, <2>1 DEF Inv, PageInv
  <1> QED
    BY <1>9, <1>10, <1>11, <1>12, <1>13, <1>14, <1>15 DEF Inv

(* Its failure keeps it.                                                   *)
LEMMA MemcreateFailInv ==
  ASSUME Inv, NEW p \in Proc, MemcreateFail(p)
  PROVE  Inv'
  <1>0. PICK f : f = op[p].f
    OBVIOUS
  <1>1. failed' = TRUE /\ UNCHANGED <<ofile, mftable, free, alive>>
    BY DEF MemcreateFail
  <1>a. /\ op[p].kind = "create" /\ op' = [op EXCEPT ![p] = Idle]
        /\ file' = [file EXCEPT ![f].ref = 0, ![f].type = "FD_NONE"]
    BY <1>0 DEF MemcreateFail, Become
  <1>2. f \in File /\ Creates(p, f)
    BY <1>0, <1>a, OpKinds DEF Inv, TypeInv, Creates
  <1>3. file[f].type = "FD_NONE" /\ \A q \in Proc \ {p} : ~Creates(q, f)
    BY <1>2 DEF Inv, CreateInv
  <1>4. /\ file'[f].type = "FD_NONE" /\ \A g \in File \ {f} : file'[g] = file[g]
    BY <1>2, <1>a DEF Inv, TypeInv, TypeOK
  <1>5. /\ op' \in [Proc -> Op] /\ op'[p] = Idle
        /\ \A q \in Proc \ {p} : op'[q] = op[q]
    BY <1>a, OpFields DEF Inv, TypeInv
  <1>6. TypeInv'
    <2>1. file' \in [File -> FileT]
      <3>1. file \in [File -> FileT]
        BY Entries DEF Inv, TypeInv
      <3>2. [file[f] EXCEPT !.ref = 0, !.type = "FD_NONE"] \in FileT
        BY <3>1, <1>2 DEF FileT
      <3> QED
        BY <1>2, <1>a, <3>1, <3>2
    <2> QED
      BY <1>1, <1>5, <2>1 DEF Inv, TypeInv, TypeOK, FileT, MemT
  <1>7. AliveInv'
    BY <1>1, <1>5 DEF Inv, AliveInv
  <1>8. CreateInv'
    <2>1. \A q \in Proc, g \in File : Creates(q, g)' => q # p /\ Creates(q, g) /\ g # f
      BY <1>3, <1>5, OpFields DEF Creates
    <2> QED
      BY <1>1, <1>4, <2>1 DEF Inv, CreateInv
  <1>9. FileInv'
    BY <1>4 DEF Inv, FileInv
  <1>10. CountedWithRoom'
    BY <1>1 DEF CountedWithRoom
  <1>11. MemfileCounted'
    <2>1. op[p].kind # "drop" /\ op'[p].kind # "drop"
      BY <1>5, <1>a, OpFields
    <2> QED
      BY <1>1, <1>3, <1>4, <1>5, <2>1, MemKept DEF Inv
  <1>12. PageInv'
    BY <1>1 DEF Inv, PageInv
  <1> QED
    BY <1>6, <1>7, <1>8, <1>9, <1>10, <1>11, <1>12 DEF Inv

-----------------------------------------------------------------------------
(* sys_dup keeps the invariant.                                            *)
LEMMA DupInv ==
  ASSUME Inv, NEW p \in Proc, NEW d \in FD, Dup(p, d)
  PROVE  Inv'
  <1>0. PICK f : f = ofile[p][d]
    OBVIOUS
  <1>1. PICK e \in FD : ofile[p][e] = None /\ ofile' = [ofile EXCEPT ![p][e] = f]
    BY <1>0 DEF Dup, Fdalloc, FreeFds
  <1>2. /\ p \in alive /\ op[p] = Idle /\ f # None
        /\ file' = [file EXCEPT ![f].ref = @ + 1]
        /\ UNCHANGED <<mftable, free, alive, op, failed>>
    BY <1>0 DEF Dup, Ready
  <1>3. f \in File
    BY <1>0, <1>2 DEF Inv, TypeInv, TypeOK
  <1>4. \A q \in Proc : ~Creates(q, f)
    BY <1>0, <1>2, <1>3, OpFields DEF Inv, CreateInv, Creates
  <1>5. /\ Cardinality(Descriptors(f)') = Cardinality(Descriptors(f)) + 1
        /\ \A g \in File \ {f} : Descriptors(g)' = Descriptors(g)
        /\ ofile' \in [Proc -> [FD -> File \cup {None}]]
    BY <1>1, <1>3, FdFilled DEF Inv, TypeInv
  <1>6. /\ file[f].ref \in Nat /\ file'[f].ref = file[f].ref + 1
        /\ file'[f].type = file[f].type /\ file'[f].memf = file[f].memf
        /\ \A g \in File \ {f} : file'[g] = file[g]
    BY <1>2, <1>3 DEF Inv, TypeInv, TypeOK
  <1>7. TypeInv'
    <2>1. file' \in [File -> FileT]
      <3>1. file \in [File -> FileT]
        BY Entries DEF Inv, TypeInv
      <3>2. [file[f] EXCEPT !.ref = @ + 1] \in FileT
        BY <3>1, <1>3, <1>6 DEF FileT
      <3> QED
        BY <1>2, <1>3, <3>1, <3>2
    <2> QED
      BY <1>2, <1>5, <2>1 DEF Inv, TypeInv, TypeOK, FileT, MemT
  <1>8. AliveInv'
    BY <1>1, <1>2 DEF Inv, TypeInv, TypeOK, AliveInv
  <1>9. CreateInv'
    <2>1. \A q \in Proc, e1 \in FD : ofile'[q][e1] \in {ofile[q][e1], f}
      BY <1>1 DEF Inv, TypeInv, TypeOK
    <2> QED
      BY <1>2, <1>4, <1>6, <2>1 DEF Inv, CreateInv, Creates
  <1>10. FileInv'
    BY <1>6 DEF Inv, FileInv
  <1>11. CountedWithRoom'
    BY <1>2, <1>3, <1>5, <1>6 DEF Inv, CountedWithRoom, DescriptorsCounted
  <1>12. MemfileCounted'
    BY <1>2, <1>6, MemKept DEF Inv
  <1>13. PageInv'
    BY <1>2 DEF Inv, PageInv
  <1> QED
    BY <1>7, <1>8, <1>9, <1>10, <1>11, <1>12, <1>13 DEF Inv

(* kfork keeps it.                                                         *)
LEMMA ForkInv ==
  ASSUME Inv, NEW p \in Proc, NEW q \in Proc, Fork(p, q)
  PROVE  Inv'
  <1> DEFINE held(f) == Cardinality({d \in FD : ofile[p][d] = f})
  <1>1. /\ p \in alive /\ op[p] = Idle /\ q \notin alive
        /\ file' = [f \in File |-> [file[f] EXCEPT !.ref = @ + held(f)]]
        /\ ofile' = [ofile EXCEPT ![q] = ofile[p]] /\ alive' = alive \cup {q}
        /\ UNCHANGED <<mftable, free, op, failed>>
    BY DEF Fork, Ready
  <1>2. p # q /\ op[q] = Idle /\ \A d \in FD : ofile[q][d] = None
    BY <1>1 DEF Inv, AliveInv
  <1>3. \A f \in File : /\ held(f) \in Nat
                        /\ Cardinality(Descriptors(f)') = Cardinality(Descriptors(f)) + held(f)
    BY <1>1, <1>2, FdsCopied DEF Inv, TypeInv
  <1>4. ASSUME NEW r \in Proc, NEW f \in File, Creates(r, f)
        PROVE  r # p /\ r # q /\ held(f) = 0
    <2>1. r # p /\ r # q
      BY <1>1, <1>2, <1>4, OpFields DEF Creates
    <2>2. {d \in FD : ofile[p][d] = f} = {}
      BY <1>4, <2>1 DEF Inv, CreateInv
    <2> QED
      BY <2>1, <2>2, FS_EmptySet
  <1> HIDE DEF held
  <1>5. \A f \in File : /\ file[f].ref \in Nat /\ file'[f].ref = file[f].ref + held(f)
                        /\ file'[f].type = file[f].type /\ file'[f].memf = file[f].memf
    BY <1>1 DEF Inv, TypeInv, TypeOK
  <1>6. \A r \in Proc : ofile'[r] = IF r = q THEN ofile[p] ELSE ofile[r]
    BY <1>1 DEF Inv, TypeInv, TypeOK
  <1>7. TypeInv'
    <2>1. \A f \in File : file[f].ref + held(f) \in Nat
      BY <1>3, <1>5
    <2>2. file' \in [File -> FileT]
      <3>1. file \in [File -> FileT]
        BY Entries DEF Inv, TypeInv
      <3>2. \A f \in File : [file[f] EXCEPT !.ref = @ + held(f)] \in FileT
        BY <2>1, <3>1 DEF FileT
      <3> QED
        BY <1>1, <3>2
    <2>3. ofile' \in [Proc -> [FD -> File \cup {None}]]
      BY <1>1 DEF Inv, TypeInv, TypeOK
    <2> QED
      BY <1>1, <2>2, <2>3 DEF Inv, TypeInv, TypeOK, FileT, MemT
  <1>8. AliveInv'
    BY <1>1, <1>6 DEF Inv, AliveInv
  <1>9. CreateInv'
    <2> SUFFICES ASSUME NEW r \in Proc, NEW f \in File, Creates(r, f)'
                 PROVE  /\ file'[f].type = "FD_NONE" /\ file'[f].ref = 1
                        /\ \A s \in Proc \ {r} : /\ ~Creates(s, f)'
                                                 /\ \A d \in FD : ofile'[s][d] # f
      BY DEF CreateInv
    <2>1. Creates(r, f) /\ \A s \in Proc : Creates(s, f)' <=> Creates(s, f)
      BY <1>1 DEF Creates
    <2>2. r # p /\ r # q /\ held(f) = 0
      BY <1>4, <2>1
    <2>3. /\ file[f].type = "FD_NONE" /\ file[f].ref = 1
          /\ \A s \in Proc \ {r} : ~Creates(s, f) /\ \A d \in FD : ofile[s][d] # f
      BY <2>1 DEF Inv, CreateInv
    <2> QED
      BY <1>5, <1>6, <2>1, <2>2, <2>3
  <1>10. FileInv'
    BY <1>3, <1>5 DEF Inv, FileInv
  <1>11. CountedWithRoom'
    BY <1>1, <1>3, <1>5 DEF Inv, CountedWithRoom, DescriptorsCounted
  <1>12. MemfileCounted'
    BY <1>1, <1>5, MemKept DEF Inv
  <1>13. PageInv'
    BY <1>1 DEF Inv, PageInv
  <1> QED
    BY <1>7, <1>8, <1>9, <1>10, <1>11, <1>12, <1>13 DEF Inv

(* The first half of fileclose keeps it: the count of an in-memory file    *)
(* passes from the entry that is freed to the process that frees it.       *)
LEMMA FileCloseInv ==
  ASSUME Inv, NEW p \in Proc, NEW d \in FD, FileClose(p, d)
  PROVE  Inv'
  <1>0. PICK f : f = ofile[p][d]
    OBVIOUS
  <1>1. /\ op[p] \in {Idle, Exiting} /\ ~failed /\ f # None /\ file[f].ref >= 1
        /\ ofile' = [ofile EXCEPT ![p][d] = None]
        /\ UNCHANGED <<mftable, free, alive, failed>>
    BY <1>0 DEF FileClose, Ready
  <1>2. p \in alive
    BY <1>0, <1>1 DEF Inv, AliveInv
  <1>3. f \in File
    BY <1>0, <1>1 DEF Inv, TypeInv, TypeOK
  <1>4. \A q \in Proc : ~Creates(q, f)
    BY <1>0, <1>1, <1>3, OpFields DEF Inv, CreateInv, Creates
  <1>5. /\ Cardinality(Descriptors(f)') = Cardinality(Descriptors(f)) - 1
        /\ \A g \in File \ {f} : Descriptors(g)' = Descriptors(g)
        /\ ofile' \in [Proc -> [FD -> File \cup {None}]]
    BY <1>0, <1>1, <1>3, FdCleared DEF Inv, TypeInv
  <1>6. file[f].ref = Cardinality(Descriptors(f)) /\ file[f].ref \in Nat
    BY <1>1, <1>3 DEF Inv, TypeInv, TypeOK, CountedWithRoom, DescriptorsCounted
  <1>7. \A q \in Proc, e \in FD : ofile'[q][e] \in {ofile[q][e], None}
    BY <1>1 DEF Inv, TypeInv, TypeOK
  <1>8. IF file[f].ref > 1
        THEN file' = [file EXCEPT ![f].ref = @ - 1] /\ UNCHANGED op
        ELSE /\ file' = [file EXCEPT ![f] = [Closed EXCEPT !.off = file[f].off]]
             /\ IF file[f].type = "FD_MEM"
                THEN op' = [op EXCEPT ![p] = Dropping(file[f].memf, op[p])]
                ELSE UNCHANGED op
    BY <1>0 DEF FileClose, Become
  <1>9. /\ file'[f].ref = file[f].ref - 1 /\ \A g \in File \ {f} : file'[g] = file[g]
        /\ file[f].ref > 1 => file'[f].type = file[f].type /\ file'[f].memf = file[f].memf
        /\ file[f].ref = 1 => file'[f].type = "FD_NONE"
    BY <1>1, <1>3, <1>6, <1>8 DEF Inv, TypeInv, TypeOK, Closed
  <1>10. file' \in [File -> FileT]
    <2>1. file \in [File -> FileT]
      BY Entries DEF Inv, TypeInv
    <2>2. file[f].ref > 1 => [file[f] EXCEPT !.ref = @ - 1] \in FileT
      BY <1>3, <1>6, <2>1 DEF FileT
    <2>3. [Closed EXCEPT !.off = file[f].off] \in FileT
      BY <1>3, <2>1 DEF Closed, FileT
    <2> QED
      BY <1>3, <1>8, <2>1, <2>2, <2>3
  <1>11. file[f].type = "FD_MEM" => file[f].memf \in Memfile
    BY <1>3 DEF Inv, FileInv
  <1>12. /\ op' \in [Proc -> Op] /\ \A q \in Proc \ {p} : op'[q] = op[q]
         /\ op'[p] = IF file[f].ref = 1 /\ file[f].type = "FD_MEM"
                     THEN Dropping(file[f].memf, op[p]) ELSE op[p]
    BY <1>1, <1>6, <1>8, <1>11, OpFields DEF Inv, TypeInv
  <1>13. TypeInv'
    BY <1>1, <1>5, <1>10, <1>12 DEF Inv, TypeInv, TypeOK, FileT
  <1>14. AliveInv'
    BY <1>1, <1>2, <1>7, <1>12 DEF Inv, AliveInv
  <1>15. CreateInv'
    <2>1. op[p].kind # "create" /\ op'[p].kind # "create"
      BY <1>1, <1>11, <1>12, OpFields
    <2>2. \A q \in Proc, g \in File : Creates(q, g)' <=> Creates(q, g)
      BY <1>12, <2>1 DEF Creates
    <2>3. None \notin File
      BY FilesAssumption
    <2>4. \A g \in File \ {f} : file'[g] = file[g]
      BY <1>9
    <2> QED
      BY <1>4, <1>7, <2>2, <2>3, <2>4 DEF Inv, CreateInv
  <1>16. FileInv'
    BY <1>1, <1>3, <1>6, <1>9, <1>11 DEF Inv, FileInv
  <1>17. CountedWithRoom'
    BY <1>1, <1>3, <1>5, <1>6, <1>9 DEF Inv, CountedWithRoom, DescriptorsCounted
  <1>18. MemfileCounted'
    <2>1. op[p].kind # "drop"
      BY <1>1, OpFields
    <2>2. CASE file[f].ref = 1 /\ file[f].type = "FD_MEM"
      <3>0. PICK m : m = file[f].memf
        OBVIOUS
      <3>1. m \in Memfile /\ op'[p].kind = "drop" /\ op'[p].m = m
        BY <3>0, <1>1, <1>11, <1>12, <2>2, OpFields
      <3>2. f \in Bound(m) /\ Bound(m)' = Bound(m) \ {f}
        BY <3>0, <1>3, <1>9, <2>2 DEF Bound
      <3>3. p \notin Droppers(m) /\ Droppers(m)' = Droppers(m) \cup {p}
        BY <3>0, <1>12, <2>1, <3>1 DEF Droppers
      <3>4. \A n \in Memfile \ {m} : Bound(n)' = Bound(n)
        BY <3>0, <1>3, <1>9, <2>2 DEF Bound
      <3>5. \A n \in Memfile \ {m} : Droppers(n)' = Droppers(n)
        BY <3>0, <1>12, <2>1, <3>1 DEF Droppers
      <3>6. Cardinality(Bound(m)') = Cardinality(Bound(m)) - 1
        BY <3>2, Finite, FS_RemoveElement
      <3>7. Cardinality(Droppers(m)') = Cardinality(Droppers(m)) + 1
        BY <3>3, Finite, FS_AddElement
      <3>8. mftable'[m].ref_count = Cardinality(Bound(m)') + Cardinality(Droppers(m)')
        BY <1>1, <3>1, <3>6, <3>7, Finite DEF Inv, MemfileCounted
      <3> QED
        BY <1>1, <3>4, <3>5, <3>8 DEF Inv, MemfileCounted
    <2>3. CASE ~(file[f].ref = 1 /\ file[f].type = "FD_MEM")
      <3>1. op' = op
        BY <1>12, <2>3 DEF Inv, TypeInv
      <3>2. \A g \in File : /\ file'[g].type = "FD_MEM" <=> file[g].type = "FD_MEM"
                            /\ file[g].type = "FD_MEM" => file'[g].memf = file[g].memf
        BY <1>1, <1>6, <1>9, <2>3
      <3> QED
        BY <1>1, <3>1, <3>2, MemKept DEF Inv
    <2> QED
      BY <2>2, <2>3
  <1>19. PageInv'
    BY <1>1 DEF Inv, PageInv
  <1> QED
    BY <1>13, <1>14, <1>15, <1>16, <1>17, <1>18, <1>19 DEF Inv

(* Its second half keeps it.                                               *)
LEMMA FileCloseDropInv ==
  ASSUME Inv, NEW p \in Proc, FileCloseDrop(p)
  PROVE  Inv'
  <1>0. PICK m : m = op[p].m
    OBVIOUS
  <1>1. /\ op[p].kind = "drop" /\ op' = [op EXCEPT ![p] = op[p].then]
        /\ mftable' = [mftable EXCEPT ![m].ref_count = @ - 1]
        /\ UNCHANGED <<ofile, file, free, alive, failed>>
    BY <1>0 DEF FileCloseDrop, Become
  <1>2. m \in Memfile /\ op[p].then \in {Idle, Exiting}
    BY <1>0, <1>1, OpKinds DEF Inv, TypeInv
  <1>3. p \in Droppers(m)
    BY <1>0, <1>1 DEF Droppers
  <1>4. /\ op' \in [Proc -> Op] /\ op'[p].kind \in {"idle", "exit"}
        /\ \A q \in Proc \ {p} : op'[q] = op[q]
    BY <1>1, <1>2, OpFields DEF Inv, TypeInv
  <1>5. op[p] # Idle
    BY <1>1, OpFields
  <1>6. Cardinality(Droppers(m)) # 0
    BY <1>3, Finite, FS_EmptySet
  <1>7. mftable[m].ref_count \in Nat \ {0}
    BY <1>2, <1>6, Finite DEF Inv, MemfileCounted
  <1>8. /\ mftable'[m].ref_count = mftable[m].ref_count - 1
        /\ mftable'[m].data = mftable[m].data
        /\ mftable'[m].is_marked_deleted = mftable[m].is_marked_deleted
        /\ \A n \in Memfile \ {m} : mftable'[n] = mftable[n]
    BY <1>1, <1>2 DEF Inv, TypeInv, TypeOK
  <1>9. TypeInv'
    <2>1. mftable[m].ref_count - 1 \in Nat
      BY <1>7
    <2>2. mftable' \in [Memfile -> MemT]
      <3>1. mftable \in [Memfile -> MemT]
        BY Entries DEF Inv, TypeInv
      <3>2. [mftable[m] EXCEPT !.ref_count = @ - 1] \in MemT
        BY <1>2, <2>1, <3>1 DEF MemT
      <3> QED
        BY <1>1, <1>2, <3>1, <3>2
    <2> QED
      BY <1>1, <1>4, <2>2 DEF Inv, TypeInv, TypeOK, FileT, MemT
  <1>10. AliveInv'
    BY <1>1, <1>4, <1>5 DEF Inv, AliveInv
  <1>11. CreateInv'
    <2>1. \A q \in Proc, g \in File : Creates(q, g)' <=> Creates(q, g)
      BY <1>1, <1>4 DEF Creates
    <2> QED
      BY <1>1, <2>1 DEF Inv, CreateInv
  <1>12. FileInv'
    BY <1>1 DEF Inv, FileInv
  <1>13. CountedWithRoom'
    <2>1. \A g \in File : Descriptors(g)' = Descriptors(g)
      BY <1>1 DEF Descriptors
    <2> QED
      BY <1>1, <2>1 DEF Inv, CountedWithRoom, DescriptorsCounted
  <1>14. MemfileCounted'
    <2>1. Droppers(m)' = Droppers(m) \ {p}
      BY <1>4 DEF Droppers
    <2>2. \A n \in Memfile \ {m} : Droppers(n)' = Droppers(n)
      BY <1>3, <1>4 DEF Droppers
    <2>3. \A n \in Memfile : Bound(n)' = Bound(n)
      BY <1>1 DEF Bound
    <2>4. Cardinality(Droppers(m)') = Cardinality(Droppers(m)) - 1
      BY <1>3, <2>1, Finite, FS_RemoveElement
    <2>5. mftable'[m].ref_count = Cardinality(Bound(m)') + Cardinality(Droppers(m)')
      BY <1>2, <1>8, <2>3, <2>4, Finite DEF Inv, MemfileCounted
    <2> QED
      BY <1>8, <2>2, <2>3, <2>5 DEF Inv, MemfileCounted
  <1>15. PageInv'
    <2>1. mftable'[m].ref_count > 0 => mftable[m].ref_count > 0
      BY <1>7, <1>8
    <2> QED
      BY <1>1, <1>2, <1>8, <2>1 DEF Inv, PageInv
  <1> QED
    BY <1>9, <1>10, <1>11, <1>12, <1>13, <1>14, <1>15 DEF Inv

(* An exit that begins, or ends with no descriptor left, keeps it.         *)
LEMMA ExitInv ==
  ASSUME Inv, NEW p \in Proc, ExitBegin(p) \/ ExitEnd(p)
  PROVE  Inv'
  <1>1. /\ UNCHANGED <<ofile, file, mftable, free, failed>>
        /\ op[p] \in {Idle, Exiting}
        /\ \/ p \in alive /\ alive' = alive /\ op' = [op EXCEPT ![p] = Exiting]
           \/ /\ alive' = alive \ {p} /\ op' = [op EXCEPT ![p] = Idle]
              /\ \A d \in FD : ofile[p][d] = None
    BY DEF ExitBegin, ExitEnd, Ready, Become
  <1>2. /\ op' \in [Proc -> Op] /\ op'[p] \in {Idle, Exiting}
        /\ \A q \in Proc \ {p} : op'[q] = op[q]
    BY <1>1, OpFields DEF Inv, TypeInv
  <1>3. op[p].kind \in {"idle", "exit"} /\ op'[p].kind \in {"idle", "exit"}
    BY <1>1, <1>2, OpFields
  <1>4. TypeInv'
    BY <1>1, <1>2 DEF Inv, TypeInv, TypeOK
  <1>5. AliveInv'
    BY <1>1 DEF Inv, TypeInv, AliveInv
  <1>6. CreateInv'
    <2>1. \A q \in Proc, g \in File : Creates(q, g)' <=> Creates(q, g)
      BY <1>2, <1>3 DEF Creates
    <2> QED
      BY <1>1, <2>1 DEF Inv, CreateInv
  <1>7. FileInv'
    BY <1>1 DEF Inv, FileInv
  <1>8. CountedWithRoom'
    <2>1. \A g \in File : Descriptors(g)' = Descriptors(g)
      BY <1>1 DEF Descriptors
    <2> QED
      BY <1>1, <2>1 DEF Inv, CountedWithRoom, DescriptorsCounted
  <1>9. MemfileCounted'
    BY <1>1, <1>2, <1>3, MemKept DEF Inv
  <1>10. PageInv'
    BY <1>1 DEF Inv, PageInv
  <1> QED
    BY <1>4, <1>5, <1>6, <1>7, <1>8, <1>9, <1>10 DEF Inv

(* garbage_collect keeps it: what it frees belonged to no open file.       *)
LEMMA GarbageCollectInv ==
  ASSUME Inv, GarbageCollect
  PROVE  Inv'
  <1>1. /\ free' = free \cup {mftable[m].data : m \in Dead}
        /\ mftable' = [m \in Memfile |-> IF m \in Dead THEN Slot ELSE mftable[m]]
    BY DEF GarbageCollect
  <1>a. UNCHANGED <<ofile, file, alive, op, failed>>
    BY DEF GarbageCollect
  <1>2. \A m \in Dead : /\ m \in Memfile /\ mftable[m].ref_count = 0
                        /\ mftable[m].data # None
    BY DEF Dead, Inv, PageInv
  <1>3. \A m \in Memfile :
          /\ m \in Dead => /\ mftable'[m].ref_count = 0 /\ mftable'[m].data = None
                           /\ ~mftable'[m].is_marked_deleted
          /\ m \notin Dead => mftable'[m] = mftable[m]
    BY <1>1 DEF Slot
  <1>4. TypeInv'
    <2>1. Slot \in MemT
      BY FilesAssumption DEF Slot, MemT
    <2>2. mftable' \in [Memfile -> MemT]
      BY <1>1, <2>1, Entries DEF Inv, TypeInv
    <2>3. \A m \in Dead : mftable[m].data \in Page
      BY <1>2 DEF Inv, TypeInv, TypeOK
    <2>4. free' \subseteq Page
      BY <1>1, <2>3 DEF Inv, TypeInv, TypeOK
    <2> QED
      BY <1>a, <2>2, <2>4 DEF Inv, TypeInv, TypeOK, FileT, MemT
  <1>5. AliveInv'
    BY <1>a DEF Inv, AliveInv
  <1>6. CreateInv'
    BY <1>a DEF Inv, CreateInv, Creates
  <1>7. FileInv'
    BY <1>a DEF Inv, FileInv
  <1>8. CountedWithRoom'
    <2>1. \A g \in File : Descriptors(g)' = Descriptors(g)
      BY <1>a DEF Descriptors
    <2> QED
      BY <1>a, <2>1 DEF Inv, CountedWithRoom, DescriptorsCounted
  <1>9. MemfileCounted'
    BY <1>2, <1>3, <1>a, MemKept DEF Inv
  <1>10. PageInv'
    <2>1. None \notin free'
      BY <1>4, FilesAssumption DEF TypeInv, TypeOK
    <2>2. \A m \in Memfile \ Dead : mftable[m].data \notin free'
      BY <1>1, <1>2 DEF Inv, PageInv
    <2> QED
      BY <1>3, <2>1, <2>2 DEF Inv, PageInv
  <1> QED
    BY <1>4, <1>5, <1>6, <1>7, <1>8, <1>9, <1>10 DEF Inv

-----------------------------------------------------------------------------
(* Every step keeps the invariant.                                         *)
LEMMA StepInv == Inv /\ [Next]_vars => Inv'
  <1> SUFFICES ASSUME Inv, [Next]_vars
               PROVE  Inv'
    OBVIOUS
  <1>1. CASE GarbageCollect
    BY <1>1, GarbageCollectInv
  <1>2. ASSUME NEW p \in Proc, SysStep(p)
        PROVE  Inv'
    <2>1. CASE Open(p) \/ MemcreateFile(p) \/ MemcreateBind(p) \/ MemcreateFail(p)
      BY <2>1, OpenInv, MemcreateFileInv, MemcreateBindInv, MemcreateFailInv
    <2>2. ASSUME NEW d \in FD,
                 \/ InodeIO(p, d) \/ MemRead(p, d) \/ MemWrite(p, d)
                 \/ Dup(p, d) \/ FileClose(p, d) \/ MemDelete(p, d)
          PROVE  Inv'
      BY <2>2, InodeIOInv, MemReadInv, MemWriteInv, DupInv, FileCloseInv, MemDeleteInv
    <2>3. ASSUME NEW q \in Proc, Fork(p, q)
          PROVE  Inv'
      BY <2>3, ForkInv
    <2>4. CASE FileCloseDrop(p) \/ ExitBegin(p) \/ ExitEnd(p)
      BY <2>4, FileCloseDropInv, ExitInv
    <2> QED
      BY <1>2, <2>1, <2>2, <2>3, <2>4 DEF SysStep
  <1>3. CASE UNCHANGED vars
    <2>1. UNCHANGED <<ofile, file, mftable, free, alive, op, failed>>
      BY <1>3 DEF vars
    <2>2. TypeOK'
      BY <2>1 DEF Inv, TypeInv, TypeOK
    <2> QED
      BY <2>1, <2>2, QuietStep
  <1> QED
    BY <1>1, <1>2, <1>3 DEF Next

(* An in-memory file that is open has a page that is its own.              *)
LEMMA OpenHasPage == Inv => OpenDataIntact
  <1> SUFFICES ASSUME Inv, NEW m \in Memfile, Bound(m) # {}
               PROVE  /\ mftable[m].data \in Page \ free
                      /\ \A n \in Memfile \ {m} : mftable[n].data # mftable[m].data
    BY DEF OpenDataIntact
  <1>1. Cardinality(Bound(m)) # 0
    BY Finite, FS_EmptySet
  <1>2. mftable[m].ref_count > 0
    BY <1>1, Finite DEF Inv, MemfileCounted
  <1>3. mftable[m].data # None /\ mftable[m].data \in Page \cup {None}
    BY <1>2 DEF Inv, PageInv, TypeInv, TypeOK
  <1> QED
    BY <1>3 DEF Inv, PageInv

(* The reference count of an open file is the number of its descriptors,   *)
(* up to the first memcreate that finds no room, and that of an in-memory  *)
(* file the number of entries bound to it and of closes between the halves *)
(* of fileclose (file.c, sysfile.c).                                       *)
THEOREM CountsAreExact == Spec => []FilesCounted
  <1>1. Init => Inv
    BY InitInv
  <1>2. Inv /\ [Next]_vars => Inv'
    BY StepInv
  <1>3. Inv => FilesCounted
    BY DEF Inv, TypeInv, FilesCounted
  <1> QED
    BY <1>1, <1>2, <1>3, PTL DEF Spec

(* garbage_collect never frees the page of an in-memory file some          *)
(* descriptor still refers to, and no two files share a page (gc.c).       *)
THEOREM CollectorSparesOpenFiles == Spec => []OpenDataIntact
  <1>1. Init => Inv
    BY InitInv
  <1>2. Inv /\ [Next]_vars => Inv'
    BY StepInv
  <1> QED
    BY <1>1, <1>2, OpenHasPage, PTL DEF Spec

=============================================================================
