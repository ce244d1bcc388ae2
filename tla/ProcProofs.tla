----------------------------- MODULE ProcProofs -----------------------------
(***************************************************************************)
(* The process table for every number of slots and pids: it stays sound,   *)
(* and no exit is missed by a parent that waits.                           *)
(***************************************************************************)
EXTENDS ProcLife, TLAPS

-----------------------------------------------------------------------------
(* wait_lock is held exactly from kexit's and kwait's acquire to their     *)
(* release.                                                                *)
LockInv ==
  \A p \in Proc : pc[p] \in {"exiting", "zombify", "scan", "tosleep"} <=> wait_lock = p

(* Where a process can be, by the state of its slot.                       *)
PlaceInv ==
  \A p \in Proc :
    /\ state[p] \in {"UNUSED", "USED"} => pc[p] = "none"
    /\ state[p] = "ZOMBIE" => pc[p] \in {"none", "leave"}
    /\ state[p] = "RUNNABLE" => pc[p] \notin {"none", "leave"}
    /\ state[p] = "SLEEPING" => pc[p] = "waiting" /\ chan[p] = p

Forking(p) == pc[p] \in {"copying", "copied", "publish"}

(* A fork fills a slot of its own, and the slot has no parent before       *)
(* wait_lock has been taken for it.                                        *)
ForkInv ==
  /\ \A p \in Proc : Forking(p) => child[p] \in Proc /\ state[child[p]] = "USED"
  /\ \A p, q \in Proc : Forking(p) /\ Forking(q) /\ child[p] = child[q] => p = q
  /\ \A p \in Proc : pc[p] = "publish" => parent[child[p]] = p
  /\ \A q \in Proc : state[q] = "USED" /\ parent[q] # None =>
       pc[parent[q]] = "publish" /\ child[parent[q]] = q

Gone(p) == pc[p] \in {"none", "exiting", "zombify", "leave"}

(* Nobody's parent has begun to exit, and only unused slots, forks under   *)
(* way and init have none.                                                 *)
KinInv ==
  /\ ~Gone(init)
  /\ \A q \in Proc : parent[q] # None => ~Gone(parent[q])
  /\ \A q \in Proc : state[q] = "UNUSED" => parent[q] = None
  /\ \A q \in Proc : state[q] \notin {"UNUSED", "USED"} /\ q # init => parent[q] # None

(* Pids are given once, and a kill stays with the pid it named.            *)
PidInv ==
  /\ \A p \in Proc : pid[p] < nextpid /\ (pid[p] = 0 <=> state[p] = "UNUSED")
  /\ \A p, q \in Proc : pid[p] = pid[q] /\ p # q => pid[p] = 0
  /\ \A p \in Proc : killed[p] => pid[p] # 0 /\ pid[p] \in targeted
  /\ 1 < nextpid

(* A parent that sleeps, or is about to, has no zombie, and one whose      *)
(* child is about to become a zombie has been woken.                       *)
SleepInv ==
  /\ \A p, q \in Proc : state[q] = "ZOMBIE" /\ parent[q] = p =>
       state[p] # "SLEEPING" /\ pc[p] # "tosleep"
  /\ \A q \in Proc : pc[q] = "zombify" /\ parent[q] # None => state[parent[q]] # "SLEEPING"

Inv == PTypeOK /\ LockInv /\ PlaceInv /\ ForkInv /\ KinInv /\ PidInv /\ SleepInv

-----------------------------------------------------------------------------
(* The table as procinit and userinit leave it.                            *)
LEMMA InitInv == ASSUME ProcAssumption PROVE PInit => Inv
<1> SUFFICES ASSUME PInit PROVE Inv
  OBVIOUS
<1>1. PTypeOK
  BY DEF ProcAssumption, PInit, PTypeOK
<1>2. LockInv /\ PlaceInv /\ KinInv /\ SleepInv
  BY DEF ProcAssumption, PInit, LockInv, PlaceInv, KinInv, SleepInv, Gone
<1>3. ForkInv
  BY DEF ProcAssumption, PInit, ForkInv, Forking
<1>4. PidInv
  BY DEF ProcAssumption, PInit, PidInv
<1> QED
  BY <1>1, <1>2, <1>3, <1>4 DEF Inv

(* allocproc: the new slot is locked, so no other fork fills it.           *)
LEMMA ForkAllocStep == ASSUME ProcAssumption, Inv, NEW p \in Proc, NEW c \in Proc, ForkAlloc(p, c) PROVE Inv'
<1> USE DEF ForkAlloc, Calls, User, Locked, Goto, slots
<1>1. PTypeOK'
  BY DEF ProcAssumption, Inv, PTypeOK
<1>2. LockInv'
  BY DEF Inv, PTypeOK, LockInv
<1>3. PlaceInv'
  BY DEF Inv, PTypeOK, PlaceInv
<1>4. ForkInv'
  BY DEF Inv, PTypeOK, ForkInv, Forking, KinInv, Gone
<1>5. KinInv'
  BY DEF Inv, PTypeOK, KinInv, Gone
<1>6. PidInv'
  BY DEF Inv, PTypeOK, PidInv
<1>7. SleepInv'
  BY DEF Inv, PTypeOK, SleepInv
<1> QED
  BY <1>1, <1>2, <1>3, <1>4, <1>5, <1>6, <1>7 DEF Inv

(* kfork without memory: freeproc of the slot it was filling.              *)
LEMMA ForkFailStep == ASSUME ProcAssumption, Inv, NEW p \in Proc, ForkFail(p) PROVE Inv'
<1> USE DEF ForkFail, Freed, Goto, slots
<1>1. PTypeOK'
  BY DEF ProcAssumption, Inv, PTypeOK, ForkInv, Forking
<1>2. LockInv'
  BY DEF Inv, PTypeOK, LockInv
<1>3. PlaceInv'
  BY DEF Inv, PTypeOK, PlaceInv, ForkInv, Forking
<1>4. ForkInv'
  BY DEF Inv, PTypeOK, ForkInv, Forking
<1>5. KinInv'
  BY DEF Inv, PTypeOK, KinInv, Gone
<1>6. PidInv'
  BY DEF Inv, PTypeOK, PidInv
<1>7. SleepInv'
  BY DEF Inv, PTypeOK, SleepInv
<1> QED
  BY <1>1, <1>2, <1>3, <1>4, <1>5, <1>6, <1>7 DEF Inv

(* kfork releases the lock of the new slot.                                *)
LEMMA ForkCopiedStep == ASSUME ProcAssumption, Inv, NEW p \in Proc, ForkCopied(p) PROVE Inv'
<1> USE DEF ForkCopied, Goto, slots
<1>1. PTypeOK'
  BY DEF Inv, PTypeOK
<1>2. LockInv'
  BY DEF Inv, PTypeOK, LockInv
<1>3. PlaceInv'
  BY DEF Inv, PTypeOK, PlaceInv
<1>4. ForkInv'
  BY DEF Inv, PTypeOK, ForkInv, Forking
<1>5. KinInv'
  BY DEF Inv, PTypeOK, KinInv, Gone
<1>6. PidInv'
  BY DEF Inv, PTypeOK, PidInv
<1>7. SleepInv'
  BY DEF Inv, PTypeOK, SleepInv
<1> QED
  BY <1>1, <1>2, <1>3, <1>4, <1>5, <1>6, <1>7 DEF Inv

(* kfork sets the parent, with wait_lock.                                  *)
LEMMA ForkParentStep == ASSUME ProcAssumption, Inv, NEW p \in Proc, ForkParent(p) PROVE Inv'
<1> USE DEF ForkParent, Goto, slots
<1>1. PTypeOK'
  BY DEF Inv, PTypeOK
<1>2. LockInv'
  BY DEF Inv, PTypeOK, LockInv
<1>3. PlaceInv'
  BY DEF Inv, PTypeOK, PlaceInv
<1>4. ForkInv'
  BY DEF Inv, PTypeOK, ForkInv, Forking
<1>5. KinInv'
  BY DEF Inv, PTypeOK, ForkInv, Forking, KinInv, Gone
<1>6. PidInv'
  BY DEF Inv, PTypeOK, PidInv
<1>7. SleepInv'
  BY DEF Inv, PTypeOK, PlaceInv, SleepInv
<1> QED
  BY <1>1, <1>2, <1>3, <1>4, <1>5, <1>6, <1>7 DEF Inv

(* kfork makes the child RUNNABLE.                                         *)
LEMMA ForkPublishStep == ASSUME ProcAssumption, Inv, NEW p \in Proc, ForkPublish(p) PROVE Inv'
<1> USE DEF ForkPublish, Goto, slots
<1>1. PTypeOK'
  BY DEF Inv, PTypeOK
<1>2. LockInv'
  BY DEF Inv, PTypeOK, LockInv, PlaceInv, ForkInv, Forking
<1>3. PlaceInv'
  BY DEF Inv, PTypeOK, PlaceInv
<1>4. ForkInv'
  BY DEF Inv, PTypeOK, PlaceInv, ForkInv, Forking
<1>5. KinInv'
  BY DEF ProcAssumption, Inv, PTypeOK, ForkInv, Forking, KinInv, Gone
<1>6. PidInv'
  BY DEF Inv, PTypeOK, ForkInv, Forking, PidInv
<1>7. SleepInv'
  BY DEF Inv, PTypeOK, SleepInv
<1> QED
  BY <1>1, <1>2, <1>3, <1>4, <1>5, <1>6, <1>7 DEF Inv

(* kexit takes wait_lock and gives its children to init.                   *)
LEMMA ExitReparentStep == ASSUME ProcAssumption, Inv, NEW p \in Proc, ExitReparent(p) PROVE Inv'
<1> USE DEF ExitReparent, User, Woken, Goto, slots
<1>1. PTypeOK'
  BY DEF ProcAssumption, Inv, PTypeOK
<1>2. LockInv'
  BY DEF ProcAssumption, Inv, PTypeOK, LockInv
<1>3. PlaceInv'
  BY DEF Inv, PTypeOK, PlaceInv
<1>4. ForkInv'
  BY DEF ProcAssumption, Inv, PTypeOK, ForkInv, Forking
<1>5. KinInv'
  BY DEF ProcAssumption, Inv, PTypeOK, KinInv, Gone
<1>6. PidInv'
  BY DEF Inv, PTypeOK, PidInv
<1>7. SleepInv'
  BY DEF ProcAssumption, Inv, PTypeOK, LockInv, PlaceInv, ForkInv, Forking, KinInv, Gone, SleepInv
<1> QED
  BY <1>1, <1>2, <1>3, <1>4, <1>5, <1>6, <1>7 DEF Inv

(* kexit wakes the parent.                                                 *)
LEMMA ExitWakeupStep == ASSUME ProcAssumption, Inv, NEW p \in Proc, ExitWakeup(p) PROVE Inv'
<1> USE DEF ExitWakeup, Woken, Goto, slots
<1>1. PTypeOK'
  BY DEF Inv, PTypeOK
<1>2. LockInv'
  BY DEF Inv, PTypeOK, LockInv
<1>3. PlaceInv'
  BY DEF Inv, PTypeOK, PlaceInv
<1>4. ForkInv'
  BY DEF Inv, PTypeOK, ForkInv, Forking
<1>5. KinInv'
  BY DEF Inv, PTypeOK, KinInv, Gone
<1>6. PidInv'
  BY DEF Inv, PTypeOK, PidInv
<1>7. SleepInv'
  BY DEF Inv, PTypeOK, PlaceInv, SleepInv
<1> QED
  BY <1>1, <1>2, <1>3, <1>4, <1>5, <1>6, <1>7 DEF Inv

(* kexit becomes a zombie and releases wait_lock.                          *)
LEMMA ExitZombieStep == ASSUME ProcAssumption, Inv, NEW p \in Proc, ExitZombie(p) PROVE Inv'
<1> USE DEF ExitZombie, Goto, slots
<1>1. PTypeOK'
  BY DEF Inv, PTypeOK
<1>2. LockInv'
  BY DEF ProcAssumption, Inv, PTypeOK, LockInv
<1>3. PlaceInv'
  BY DEF Inv, PTypeOK, PlaceInv
<1>4. ForkInv'
  BY DEF Inv, PTypeOK, PlaceInv, ForkInv, Forking
<1>5. KinInv'
  BY DEF Inv, PTypeOK, PlaceInv, KinInv, Gone
<1>6. PidInv'
  BY DEF Inv, PTypeOK, PlaceInv, PidInv
<1>7. SleepInv'
  BY DEF ProcAssumption, Inv, PTypeOK, LockInv, SleepInv
<1> QED
  BY <1>1, <1>2, <1>3, <1>4, <1>5, <1>6, <1>7 DEF Inv

(* The scheduler leaves the stack of a zombie.                             *)
LEMMA LeaveStep == ASSUME ProcAssumption, Inv, NEW p \in Proc, Leave(p) PROVE Inv'
<1> USE DEF Leave, Goto, slots
<1>1. PTypeOK'
  BY DEF Inv, PTypeOK
<1>2. LockInv'
  BY DEF Inv, PTypeOK, LockInv
<1>3. PlaceInv'
  BY DEF Inv, PTypeOK, PlaceInv
<1>4. ForkInv'
  BY DEF Inv, PTypeOK, ForkInv, Forking
<1>5. KinInv'
  BY DEF Inv, PTypeOK, KinInv, Gone
<1>6. PidInv'
  BY DEF Inv, PTypeOK, PidInv
<1>7. SleepInv'
  BY DEF Inv, PTypeOK, SleepInv
<1> QED
  BY <1>1, <1>2, <1>3, <1>4, <1>5, <1>6, <1>7 DEF Inv

(* kwait takes wait_lock, at the start or woken.                           *)
LEMMA WaitBeginStep == ASSUME ProcAssumption, Inv, NEW p \in Proc, WaitBegin(p) PROVE Inv'
<1> USE DEF WaitBegin, Calls, User, Goto, slots
<1>1. PTypeOK'
  BY DEF Inv, PTypeOK
<1>2. LockInv'
  BY DEF ProcAssumption, Inv, PTypeOK, LockInv
<1>3. PlaceInv'
  BY DEF Inv, PTypeOK, PlaceInv
<1>4. ForkInv'
  BY DEF Inv, PTypeOK, ForkInv, Forking
<1>5. KinInv'
  BY DEF Inv, PTypeOK, KinInv, Gone
<1>6. PidInv'
  BY DEF Inv, PTypeOK, PidInv
<1>7. SleepInv'
  BY DEF Inv, PTypeOK, SleepInv
<1> QED
  BY <1>1, <1>2, <1>3, <1>4, <1>5, <1>6, <1>7 DEF Inv

(* kwait frees a zombie.                                                   *)
LEMMA WaitReapStep == ASSUME ProcAssumption, Inv, NEW p \in Proc, WaitReap(p) PROVE Inv'
<1> USE DEF WaitReap, Freed, Zombies, Kids, Locked, Goto, slots
<1>1. PTypeOK'
  BY DEF ProcAssumption, Inv, PTypeOK
<1>2. LockInv'
  BY DEF ProcAssumption, Inv, PTypeOK, LockInv
<1>3. PlaceInv'
  BY DEF Inv, PTypeOK, PlaceInv
<1>4. ForkInv'
  BY DEF Inv, PTypeOK, ForkInv, Forking
<1>5. KinInv'
  BY DEF Inv, PTypeOK, KinInv, Gone
<1>6. PidInv'
  BY DEF Inv, PTypeOK, PidInv
<1>7. SleepInv'
  BY DEF Inv, PTypeOK, SleepInv
<1> QED
  BY <1>1, <1>2, <1>3, <1>4, <1>5, <1>6, <1>7 DEF Inv

(* kwait cannot copy the status out.                                       *)
LEMMA WaitNoCopyStep == ASSUME ProcAssumption, Inv, NEW p \in Proc, WaitNoCopy(p) PROVE Inv'
<1> USE DEF WaitNoCopy, Goto, slots
<1>1. PTypeOK'
  BY DEF Inv, PTypeOK
<1>2. LockInv'
  BY DEF ProcAssumption, Inv, PTypeOK, LockInv
<1>3. PlaceInv'
  BY DEF Inv, PTypeOK, PlaceInv
<1>4. ForkInv'
  BY DEF Inv, PTypeOK, ForkInv, Forking
<1>5. KinInv'
  BY DEF Inv, PTypeOK, KinInv, Gone
<1>6. PidInv'
  BY DEF Inv, PTypeOK, PidInv
<1>7. SleepInv'
  BY DEF Inv, PTypeOK, SleepInv
<1> QED
  BY <1>1, <1>2, <1>3, <1>4, <1>5, <1>6, <1>7 DEF Inv

(* kwait finds no zombie.                                                  *)
LEMMA WaitEmptyStep == ASSUME ProcAssumption, Inv, NEW p \in Proc, WaitEmpty(p) PROVE Inv'
<1> USE DEF WaitEmpty, Zombies, Kids, Goto, slots
<1>1. PTypeOK'
  BY DEF Inv, PTypeOK
<1>2. LockInv'
  BY DEF ProcAssumption, Inv, PTypeOK, LockInv
<1>3. PlaceInv'
  BY DEF Inv, PTypeOK, PlaceInv
<1>4. ForkInv'
  BY DEF Inv, PTypeOK, ForkInv, Forking
<1>5. KinInv'
  BY DEF ProcAssumption, Inv, PTypeOK, KinInv, Gone
<1>6. PidInv'
  BY DEF Inv, PTypeOK, PidInv
<1>7. SleepInv'
  BY DEF Inv, PTypeOK, SleepInv
<1> QED
  BY <1>1, <1>2, <1>3, <1>4, <1>5, <1>6, <1>7 DEF Inv

(* kwait goes to sleep.                                                    *)
LEMMA WaitSleepStep == ASSUME ProcAssumption, Inv, NEW p \in Proc, WaitSleep(p) PROVE Inv'
<1> USE DEF WaitSleep, Goto, slots
<1>1. PTypeOK'
  BY DEF Inv, PTypeOK
<1>2. LockInv'
  BY DEF ProcAssumption, Inv, PTypeOK, LockInv
<1>3. PlaceInv'
  BY DEF Inv, PTypeOK, PlaceInv
<1>4. ForkInv'
  BY DEF Inv, PTypeOK, PlaceInv, ForkInv, Forking
<1>5. KinInv'
  BY DEF Inv, PTypeOK, PlaceInv, KinInv, Gone
<1>6. PidInv'
  BY DEF Inv, PTypeOK, PlaceInv, PidInv
<1>7. SleepInv'
  BY DEF Inv, PTypeOK, LockInv, SleepInv
<1> QED
  BY <1>1, <1>2, <1>3, <1>4, <1>5, <1>6, <1>7 DEF Inv

(* kkill.                                                                  *)
LEMMA KillStep == ASSUME ProcAssumption, Inv, NEW p \in Proc, NEW n \in KillPids, Kill(p, n) PROVE Inv'
<1> USE DEF Kill, Calls, User, Locked, Goto, slots
<1>1. PTypeOK'
  <2>1. state' \in [Proc -> {"UNUSED", "USED", "SLEEPING", "RUNNABLE", "ZOMBIE"}]
    BY DEF Inv, PTypeOK
  <2>2. killed' \in [Proc -> BOOLEAN]
    BY DEF Inv, PTypeOK
  <2> QED
    BY <2>1, <2>2 DEF Inv, PTypeOK
<1>2. LockInv'
  BY DEF Inv, PTypeOK, LockInv
<1>3. PlaceInv'
  BY DEF Inv, PTypeOK, PlaceInv
<1>4. ForkInv'
  BY DEF Inv, PTypeOK, ForkInv, Forking
<1>5. KinInv'
  BY DEF Inv, PTypeOK, KinInv, Gone
<1>6. PidInv'
  BY DEF ProcAssumption, Inv, PTypeOK, PidInv
<1>7. SleepInv'
  BY DEF Inv, PTypeOK, SleepInv
<1> QED
  BY <1>1, <1>2, <1>3, <1>4, <1>5, <1>6, <1>7 DEF Inv

-----------------------------------------------------------------------------
(* One step of any process, and a step that changes nothing.               *)
LEMMA NextStep == ASSUME ProcAssumption, Inv, [PNext]_pvars PROVE Inv'
<1>1. CASE UNCHANGED pvars
  BY <1>1 DEF pvars, Inv, PTypeOK, LockInv, PlaceInv, ForkInv, Forking, KinInv, Gone, PidInv, SleepInv
<1>2. CASE PNext
  <2> PICK p \in Proc :
        \/ \E c \in Proc : ForkAlloc(p, c)
        \/ ForkFail(p) \/ ForkCopied(p) \/ ForkParent(p) \/ ForkPublish(p)
        \/ ExitReparent(p) \/ ExitWakeup(p) \/ ExitZombie(p) \/ Leave(p)
        \/ WaitBegin(p) \/ WaitReap(p) \/ WaitNoCopy(p) \/ WaitEmpty(p) \/ WaitSleep(p)
        \/ \E n \in KillPids : Kill(p, n)
    BY <1>2 DEF PNext
  <2> QED
    BY ForkAllocStep, ForkFailStep, ForkCopiedStep, ForkParentStep, ForkPublishStep,
       ExitReparentStep, ExitWakeupStep, ExitZombieStep, LeaveStep, WaitBeginStep,
       WaitReapStep, WaitNoCopyStep, WaitEmptyStep, WaitSleepStep, KillStep
<1> QED
  BY <1>1, <1>2

(* Inv is the inductive strengthening of both properties.                  *)
LEMMA InvImplies == ASSUME ProcAssumption, Inv PROVE TableSound /\ NoMissedExit
<1>1. ParentAlive
  BY DEF Inv, PTypeOK, ParentAlive, KinInv, PlaceInv, Gone
<1>2. SlotsSound /\ KilledByPid
  BY DEF Inv, PTypeOK, SlotsSound, KilledByPid, PlaceInv, PidInv
<1>3. NoMissedExit
  BY DEF Inv, PTypeOK, NoMissedExit, Zombies, Kids, SleepInv
<1> QED
  BY <1>1, <1>2, <1>3 DEF TableSound, Inv

(* The process table is sound for every number of slots and pids: the      *)
(* parent of every process lives, a slot is reused only when its process   *)
(* has left it, pids are given once, and only processes named in a kill    *)
(* are killed (proc.c allocproc, kfork, kexit, kwait, kkill).              *)
THEOREM TableIsSound == ProcAssumption => (PSpec => []TableSound)
<1> SUFFICES ASSUME ProcAssumption PROVE PSpec => []TableSound
  OBVIOUS
<1>1. PInit => Inv
  BY InitInv
<1>2. Inv /\ [PNext]_pvars => Inv'
  BY NextStep
<1>3. Inv => TableSound
  BY InvImplies
<1> QED
  BY <1>1, <1>2, <1>3, PTL DEF PSpec

(* No exit is missed, for every number of slots and pids: a parent that    *)
(* sleeps in kwait while wait_lock is free has no zombie child.            *)
THEOREM NoExitIsMissed == ProcAssumption => (PSpec => []NoMissedExit)
<1> SUFFICES ASSUME ProcAssumption PROVE PSpec => []NoMissedExit
  OBVIOUS
<1>1. PInit => Inv
  BY InitInv
<1>2. Inv /\ [PNext]_pvars => Inv'
  BY NextStep
<1>3. Inv => NoMissedExit
  BY InvImplies
<1> QED
  BY <1>1, <1>2, <1>3, PTL DEF PSpec

=============================================================================
