-------------------------------- MODULE Pipe --------------------------------
(***************************************************************************)
(* A pipe (kernel/pipe.c, sys_pipe): a ring of PIPESIZE bytes between the  *)
(* processes that hold its read end and those that hold its write end.     *)
(* pi->lock is held from the start of a call until it sleeps or returns;   *)
(* kkill takes only p->lock, so a kill can fall between any two steps.     *)
(***************************************************************************)
EXTENDS Naturals, Sequences, FiniteSets

CONSTANTS
  Proc, First,  \* the processes; the one that exists at the start
  None,         \* nobody
  PIPESIZE,
  UINT,         \* nread and nwrite are unsigned: they wrap at UINT (2^32)
  Count,        \* the values of n in a read or write
  MaxKills      \* how many processes are killed in a run

(* UINT is 2^32 and PIPESIZE 512 in the code. *)
ASSUME PipeAssumption ==
  /\ Proc \subseteq Nat /\ First \in Proc /\ None \notin Proc
  /\ PIPESIZE \in Nat \ {0} /\ UINT \in Nat
  /\ UINT % PIPESIZE = 0 /\ UINT > PIPESIZE
  /\ Count \subseteq Nat /\ MaxKills \in Nat

VARIABLES
  pi,           \* struct pipe
  lock,         \* pi->lock: its holder
  ends,         \* the ends a process has descriptors for: "r", "w"
  pc,           \* where a process is
  n, i,         \* the count it asked for; the bytes it has written
  killed,       \* p->killed
  untold        \* a killed writer left bytes in the ring without a wakeup

vars == <<pi, lock, ends, pc, n, i, killed, untold>>

End == {"r", "w"}
Byte == 0 .. UINT - 1
NoPipe == [page |-> FALSE, nread |-> 0, nwrite |-> 0,
           data |-> [k \in 0 .. PIPESIZE - 1 |-> 0],
           readopen |-> FALSE, writeopen |-> FALSE]

(* Faulty variant: off by one. *)
FullLate == pi.nwrite = (pi.nread + PIPESIZE + 1) % UINT

Empty == pi.nread = pi.nwrite
Full == pi.nwrite = (pi.nread + PIPESIZE) % UINT
Bump(c) == (c + 1) % UINT

(* The bytes between the two counters, oldest first. *)
Contents ==
  [k \in 1 .. (pi.nwrite + UINT - pi.nread) % UINT |->
     pi.data[((pi.nread + k - 1) % UINT) % PIPESIZE]]

(* A sleeper that runs again first takes pi->lock back. *)
Resume(at) == CASE at = "asleepR" -> "lockR" [] at = "asleepW" -> "lockW"
                [] OTHER -> at

(* Faulty variant: one sleeper only. *)
WokenOne(at, chan) ==
  LET one == CHOOSE q \in Proc : at[q] = chan \/ \A r \in Proc : at[r] # chan
  IN  [at EXCEPT ![one] = IF @ = chan THEN Resume(@) ELSE @]

(* wakeup(chan), as it changes where the processes are. *)
Woken(at, chan) == [q \in Proc |-> IF at[q] = chan THEN Resume(at[q]) ELSE at[q]]

Init ==
  /\ pi = NoPipe /\ lock = None
  /\ ends = [p \in Proc |-> {}]
  /\ pc = [p \in Proc |-> IF p = First THEN "user" ELSE "unborn"]
  /\ n = [p \in Proc |-> 0] /\ i = [p \in Proc |-> 0]
  /\ killed = [p \in Proc |-> FALSE] /\ untold = FALSE

-----------------------------------------------------------------------------
(* pipealloc found two file entries and a page.  A sys_pipe that finds no  *)
(* descriptor, or whose copyout fails, then closes both files: two Closes. *)
PipeAlloc(p) ==
  /\ pc[p] = "user" /\ ~killed[p] /\ ~pi.page
  /\ pi' = [NoPipe EXCEPT !.page = TRUE, !.readopen = TRUE, !.writeopen = TRUE]
  /\ ends' = [ends EXCEPT ![p] = End]
  /\ UNCHANGED <<pc, lock, n, i, killed, untold>>

(* kfork duplicates the descriptors; allocproc takes the first free slot. *)
Fork(p, q) ==
  /\ pc[p] = "user" /\ ~killed[p] /\ pc[q] = "unborn"
  /\ \A r \in Proc : pc[r] = "unborn" => q <= r
  /\ ends' = [ends EXCEPT ![q] = ends[p]]
  /\ pc' = [pc EXCEPT ![q] = "user"]
  /\ UNCHANGED <<pi, lock, n, i, killed, untold>>

(* Faulty variant: the wrong side is woken. *)
OtherSideSwapped(e) == IF e = "r" THEN "asleepR" ELSE "asleepW"

OtherSide(e) == IF e = "w" THEN "asleepR" ELSE "asleepW"
Shut(e) == [pi EXCEPT !.readopen = @ /\ e # "r", !.writeopen = @ /\ e # "w"]

(* The last descriptor of an end: the other side is woken, and the page is *)
(* freed with the second end.                                              *)
PipeClose(p, e) ==
  /\ lock = None
  /\ pi' = IF Shut(e).readopen \/ Shut(e).writeopen THEN Shut(e) ELSE NoPipe
  /\ pc' = Woken(pc, OtherSide(e))
  /\ untold' = (untold /\ pi'.page /\ OtherSide(e) # "asleepR")

(* close, or the exit of a killed process. *)
Close(p, e) ==
  /\ pc[p] = "user" /\ e \in ends[p]
  /\ ends' = [ends EXCEPT ![p] = @ \ {e}]
  /\ IF \A q \in Proc \ {p} : e \notin ends[q] THEN PipeClose(p, e)
     ELSE UNCHANGED <<pi, pc, untold>>
  /\ UNCHANGED <<lock, n, i, killed>>

(* kkill: a sleeper becomes runnable, in the middle of sleep(). *)
Kill(p) ==
  /\ pc[p] # "unborn" /\ ~killed[p]
  /\ Cardinality({q \in Proc : killed[q]}) < MaxKills
  /\ killed' = [killed EXCEPT ![p] = TRUE]
  /\ pc' = [pc EXCEPT ![p] = Resume(@)]
  /\ UNCHANGED <<pi, lock, ends, n, i, untold>>

-----------------------------------------------------------------------------
(* acquire(&pi->lock) at the start of piperead and pipewrite, and at the   *)
(* end of sleep().                                                         *)
Call(p, e, at) ==
  /\ lock = None /\ lock' = p
  /\ pc[p] = "user" /\ ~killed[p] /\ e \in ends[p]
  /\ \E k \in Count : n' = [n EXCEPT ![p] = k]
  /\ pc' = [pc EXCEPT ![p] = at]
  /\ UNCHANGED <<pi, ends, i, killed, untold>>

Relock(p) ==
  /\ lock = None /\ lock' = p
  /\ pc[p] \in {"lockR", "lockW"}
  /\ pc' = [pc EXCEPT ![p] = IF @ = "lockR" THEN "waitR" ELSE "loopW"]
  /\ UNCHANGED <<pi, ends, n, i, killed, untold>>

Return(p, at) ==
  /\ lock' = None
  /\ pc' = [at EXCEPT ![p] = "user"]
  /\ n' = [n EXCEPT ![p] = 0] /\ i' = [i EXCEPT ![p] = 0]

(* sleep() releases pi->lock and lets p sleep in one step: wakeup() needs  *)
(* p->lock.                                                                *)
Sleep(p) ==
  /\ pc[p] \in {"sleepR", "sleepW"}
  /\ pc' = [pc EXCEPT ![p] = IF @ = "sleepR" THEN "asleepR" ELSE "asleepW"]
  /\ lock' = None
  /\ UNCHANGED <<pi, ends, n, i, killed, untold>>

(* piperead, while the pipe is empty and has a writer: sleep, or give up   *)
(* when killed.                                                            *)
ReadWait(p) ==
  /\ pc[p] = "waitR"
  /\ IF Empty /\ pi.writeopen /\ killed[p] THEN Return(p, pc)
     ELSE /\ pc' = [pc EXCEPT ![p] = IF Empty /\ pi.writeopen THEN "sleepR" ELSE "copyR"]
          /\ UNCHANGED <<lock, n, i>>
  /\ UNCHANGED <<pi, ends, killed, untold>>

(* The copy loop runs with the lock held and looks at nothing that others  *)
(* change: it takes k bytes, up to n or to the end of the ring, or fewer   *)
(* when a copyout fails; then the writers are woken.                       *)
ReadCopy(p) ==
  /\ pc[p] = "copyR"
  /\ \E k \in 0 .. n[p] :
       /\ k <= Len(Contents)
       /\ pi' = [pi EXCEPT !.nread = (@ + k) % UINT]
  /\ Return(p, Woken(pc, "asleepW"))
  /\ untold' = (untold /\ pi'.nread # pi'.nwrite)
  /\ UNCHANGED <<ends, killed>>

(* pipewrite looks for a reader and for a kill before every byte; a writer *)
(* that gives up returns -1 without a wakeup.                              *)
Refused(p) == ~pi.readopen \/ killed[p]
Writing(p) == pc[p] = "loopW" /\ i[p] < n[p]

WriteRefused(p) ==
  /\ Writing(p) /\ Refused(p)
  /\ untold' = (untold \/ i[p] > 0)
  /\ Return(p, pc)
  /\ UNCHANGED <<pi, ends, killed>>

(* The code never looks at a byte, so each is labelled with its place in   *)
(* the order of writing.                                                   *)
WriteByte(p) ==
  /\ Writing(p) /\ ~Refused(p) /\ ~Full
  /\ pi' = [pi EXCEPT !.data[pi.nwrite % PIPESIZE] = pi.nwrite, !.nwrite = Bump(@)]
  /\ i' = [i EXCEPT ![p] = @ + 1]
  /\ UNCHANGED <<lock, ends, pc, n, killed, untold>>

WriteFull(p) ==
  /\ Writing(p) /\ ~Refused(p) /\ Full
  /\ pc' = [Woken(pc, "asleepR") EXCEPT ![p] = "sleepW"]
  /\ untold' = FALSE
  /\ UNCHANGED <<pi, lock, ends, n, i, killed>>

(* All bytes written, or a copyin failed. *)
WriteDone(p) ==
  /\ pc[p] = "loopW"
  /\ i[p] = n[p] \/ (~Refused(p) /\ ~Full)
  /\ Return(p, Woken(pc, "asleepR"))
  /\ untold' = FALSE
  /\ UNCHANGED <<pi, ends, killed>>

-----------------------------------------------------------------------------
Step(p) ==
  \/ Relock(p) \/ ReadWait(p) \/ Sleep(p) \/ ReadCopy(p)
  \/ WriteByte(p) \/ WriteRefused(p) \/ WriteFull(p) \/ WriteDone(p)

Next ==
  \E p \in Proc :
    \/ PipeAlloc(p) \/ Kill(p) \/ Step(p)
    \/ Call(p, "r", "waitR") \/ Call(p, "w", "loopW")
    \/ \E q \in Proc : Fork(p, q)
    \/ \E e \in End : Close(p, e)

(* The scheduler lets every process run on, and pi->lock, held only for a  *)
(* bounded time, is obtained by whoever keeps trying.                      *)
Fairness == \A p \in Proc : WF_vars(Step(p)) /\ SF_vars(Relock(p))

Spec == Init /\ [][Next]_vars /\ Fairness

-----------------------------------------------------------------------------
InCall(p) == pc[p] \notin {"user", "unborn"}

TypeOK ==
  /\ pi \in [page : BOOLEAN, nread : Byte, nwrite : Byte,
             data : [0 .. PIPESIZE - 1 -> Byte],
             readopen : BOOLEAN, writeopen : BOOLEAN]
  /\ lock \in Proc \cup {None}
  /\ ends \in [Proc -> SUBSET End]
  /\ pc \in [Proc -> {"unborn", "user", "waitR", "sleepR", "asleepR", "lockR",
                      "copyR", "loopW", "sleepW", "asleepW", "lockW"}]
  /\ n \in [Proc -> Count \cup {0}]
  /\ i \in [Proc -> Nat] /\ \A p \in Proc : i[p] <= n[p]
  /\ killed \in [Proc -> BOOLEAN] /\ untold \in BOOLEAN

(* The ring with its two wrapping counters (pipewrite, piperead) behaves as *)
(* a bounded queue of bytes: no byte is lost, doubled or reordered by calls *)
(* of several processes, by sleeping half-way or by a failing copy.         *)
Q == INSTANCE ByteQueue WITH queue <- Contents, open <- pi.page,
                             Capacity <- PIPESIZE
ImplementsByteQueue == Q!QSpec

(* No wakeup is missed: a reader sleeps on a pipe with bytes, or a writer  *)
(* on one with room, only while a process inside the call that will wake   *)
(* it holds pi->lock.  The one exception is the bytes a killed writer left *)
(* behind without calling wakeup (the early return of pipewrite).          *)
NoMissedWakeup ==
  /\ (\E p \in Proc : pc[p] = "asleepR") =>
       Empty \/ untold \/ (lock # None /\ pc[lock] = "loopW")
  /\ (\E p \in Proc : pc[p] = "asleepW") =>
       Full \/ (lock # None /\ pc[lock] = "copyR")

(* pipeclose frees the page when the last descriptor of the second end goes *)
(* and never while a process is inside piperead or pipewrite: the page is   *)
(* there exactly as long as some process holds an end.                      *)
PageWhileHeld ==
  /\ pi.page <=> \E p \in Proc : ends[p] # {}
  /\ pi.readopen <=> \E p \in Proc : "r" \in ends[p]
  /\ pi.writeopen <=> \E p \in Proc : "w" \in ends[p]
  /\ \A p \in Proc : InCall(p) => ends[p] # {}

(* A process in piperead or pipewrite when the other side closes returns to *)
(* user mode, asleep or not: end of file for a reader, an error for a       *)
(* writer.                                                                  *)
HangupNoticed ==
  \A p \in Proc : (InCall(p) /\ ~(pi.readopen /\ pi.writeopen)) ~> ~InCall(p)

(* The wakeups, the page and the ends of a pipe: the statements above.      *)
PipeSound == TypeOK /\ NoMissedWakeup /\ PageWhileHeld

=============================================================================
