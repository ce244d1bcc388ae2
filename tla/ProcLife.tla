------------------------------ MODULE ProcLife ------------------------------
(***************************************************************************)
(* The life of processes (kernel/proc.c): kfork, kexit, kwait, kkill,      *)
(* sleep and wakeup, with wait_lock and the lock of each slot where their  *)
(* extent matters.  RUNNABLE stands for RUNNING as well: Sched models the  *)
(* choice between processes.  A slot's step is a kernel step of the        *)
(* process in it.                                                          *)
(***************************************************************************)
EXTENDS Naturals, FiniteSets

CONSTANTS
  Proc,       \* slots of the process table
  init,       \* initproc
  None,       \* no process
  MaxPid,     \* bound on the pids handed out
  KillPids    \* the arguments of sys_kill; not 0, the pid of an unused slot, nor that of init

(* The slots include that of the initial process, and kills name processes *)
(* (see KillPids).                                                         *)
ProcAssumption ==
  /\ init \in Proc /\ None \notin Proc
  /\ MaxPid \in Nat /\ MaxPid >= 1
  /\ 0 \notin KillPids

VARIABLES
  state, parent, pid, killed, chan,
  nextpid,
  wait_lock,   \* the process that holds wait_lock
  pc,          \* where the process of the slot is in the kernel
  child,       \* the slot a fork is filling
  targeted     \* pids that some kill has named

pvars == <<state, parent, pid, killed, chan, nextpid, wait_lock, pc, child, targeted>>
slots == <<state, parent, pid, killed, chan>>

PInit ==
  /\ state = [p \in Proc |-> IF p = init THEN "RUNNABLE" ELSE "UNUSED"]
  /\ parent = [p \in Proc |-> None]
  /\ pid = [p \in Proc |-> IF p = init THEN 1 ELSE 0]
  /\ killed = [p \in Proc |-> FALSE]
  /\ chan = [p \in Proc |-> None]
  /\ nextpid = 2
  /\ wait_lock = None
  /\ pc = [p \in Proc |-> IF p = init THEN "user" ELSE "none"]
  /\ child = [p \in Proc |-> None]
  /\ targeted = {}

Goto(p, l) == pc' = [pc EXCEPT ![p] = l]

(* A process in user mode enters the kernel; a killed one only to exit. *)
User(p) == state[p] = "RUNNABLE" /\ pc[p] = "user"
Calls(p) == User(p) /\ ~killed[p]

(* The lock of slot p is held by the fork filling it or by an exit that    *)
(* has not left its stack.                                                 *)
Locked(p) == pc[p] = "leave" \/ \E q \in Proc : pc[q] = "copying" /\ child[q] = p

(* wakeup(c), from state s *)
Woken(s, c) == [p \in Proc |-> IF s[p] = "SLEEPING" /\ chan[p] = c THEN "RUNNABLE" ELSE s[p]]

-----------------------------------------------------------------------------

(* allocproc takes an UNUSED slot and keeps its lock. *)
ForkAlloc(p, c) ==
  /\ Calls(p) /\ nextpid <= MaxPid
  /\ state[c] = "UNUSED" /\ ~Locked(c)
  /\ state' = [state EXCEPT ![c] = "USED"]
  /\ pid' = [pid EXCEPT ![c] = nextpid]
  /\ nextpid' = nextpid + 1
  /\ child' = [child EXCEPT ![p] = c]
  /\ Goto(p, "copying")
  /\ UNCHANGED <<parent, killed, chan, wait_lock, targeted>>

(* freeproc *)
Freed(c) ==
  /\ state' = [state EXCEPT ![c] = "UNUSED"]
  /\ pid' = [pid EXCEPT ![c] = 0]
  /\ parent' = [parent EXCEPT ![c] = None]
  /\ killed' = [killed EXCEPT ![c] = FALSE]
  /\ chan' = [chan EXCEPT ![c] = None]

(* No memory: the slot is freed again. *)
ForkFail(p) ==
  /\ pc[p] = "copying"
  /\ Freed(child[p])
  /\ child' = [child EXCEPT ![p] = None]
  /\ Goto(p, "user")
  /\ UNCHANGED <<nextpid, wait_lock, targeted>>

(* The copy is done; np->lock is released before the parent is known. *)
ForkCopied(p) ==
  /\ pc[p] = "copying"
  /\ Goto(p, "copied")
  /\ UNCHANGED <<slots, nextpid, wait_lock, child, targeted>>

ForkParent(p) ==
  /\ pc[p] = "copied" /\ wait_lock = None
  /\ parent' = [parent EXCEPT ![child[p]] = p]
  /\ Goto(p, "publish")
  /\ UNCHANGED <<state, pid, killed, chan, nextpid, wait_lock, child, targeted>>

ForkPublish(p) ==
  /\ pc[p] = "publish"
  /\ state' = [state EXCEPT ![child[p]] = "RUNNABLE"]
  /\ pc' = [pc EXCEPT ![p] = "user", ![child[p]] = "user"]
  /\ child' = [child EXCEPT ![p] = None]
  /\ UNCHANGED <<parent, pid, killed, chan, nextpid, wait_lock, targeted>>

-----------------------------------------------------------------------------
ExitReparentSilent(p) ==   \* mutant: init is not woken for its new children
  /\ User(p) /\ p # init /\ wait_lock = None
  /\ wait_lock' = p
  /\ parent' = [q \in Proc |-> IF parent[q] = p THEN init ELSE parent[q]]
  /\ Goto(p, "exiting")
  /\ UNCHANGED <<state, pid, killed, chan, nextpid, child, targeted>>

(* kexit, called by the program or because the process was killed: the     *)
(* children go to init, which is woken.                                    *)
ExitReparent(p) ==
  /\ User(p) /\ p # init /\ wait_lock = None
  /\ wait_lock' = p
  /\ parent' = [q \in Proc |-> IF parent[q] = p THEN init ELSE parent[q]]
  /\ state' = IF \E q \in Proc : parent[q] = p THEN Woken(state, init) ELSE state
  /\ Goto(p, "exiting")
  /\ UNCHANGED <<pid, killed, chan, nextpid, child, targeted>>

ExitWakeupForgotten(p) ==   \* mutant: the parent is not woken
  /\ pc[p] = "exiting"
  /\ Goto(p, "zombify")
  /\ UNCHANGED <<slots, nextpid, wait_lock, child, targeted>>

ExitWakeup(p) ==
  /\ pc[p] = "exiting"
  /\ state' = Woken(state, parent[p])
  /\ Goto(p, "zombify")
  /\ UNCHANGED <<parent, pid, killed, chan, nextpid, wait_lock, child, targeted>>

(* p->lock is taken and kept until the scheduler has left the stack of p. *)
ExitZombie(p) ==
  /\ pc[p] = "zombify"
  /\ state' = [state EXCEPT ![p] = "ZOMBIE"]
  /\ wait_lock' = None
  /\ Goto(p, "leave")
  /\ UNCHANGED <<parent, pid, killed, chan, nextpid, child, targeted>>

Leave(p) ==
  /\ pc[p] = "leave"
  /\ Goto(p, "none")
  /\ UNCHANGED <<slots, nextpid, wait_lock, child, targeted>>

-----------------------------------------------------------------------------
WaitBegin(p) ==
  /\ \/ Calls(p)
     \/ state[p] = "RUNNABLE" /\ pc[p] = "waiting"   \* woken in kwait
  /\ wait_lock = None
  /\ wait_lock' = p
  /\ chan' = [chan EXCEPT ![p] = None]
  /\ Goto(p, "scan")
  /\ UNCHANGED <<state, parent, pid, killed, nextpid, child, targeted>>

Kids(p) == {q \in Proc : parent[q] = p}
Zombies(p) == {q \in Kids(p) : state[q] = "ZOMBIE"}

WaitReapUnlocked(p) ==   \* mutant: the lock of the zombie is not taken
  /\ pc[p] = "scan"
  /\ \E q \in Zombies(p) : Freed(q)
  /\ wait_lock' = None
  /\ Goto(p, "user")
  /\ UNCHANGED <<nextpid, child, targeted>>

(* The scan has found a zombie, whose lock it waits for. *)
WaitReap(p) ==
  /\ pc[p] = "scan"
  /\ \E q \in Zombies(p) : ~Locked(q) /\ Freed(q)
  /\ wait_lock' = None
  /\ Goto(p, "user")
  /\ UNCHANGED <<nextpid, child, targeted>>

(* copyout of the exit status fails: the zombie stays.  The initial        *)
(* process asks for no status.                                             *)
WaitNoCopy(p) ==
  /\ pc[p] = "scan" /\ p # init
  /\ \E q \in Zombies(p) : ~Locked(q)
  /\ wait_lock' = None
  /\ Goto(p, "user")
  /\ UNCHANGED <<slots, nextpid, child, targeted>>

(* No zombie: return without children or if killed, and otherwise sleep.   *)
(* The kill flag is read before p->lock is taken to go to sleep.           *)
WaitEmpty(p) ==
  /\ pc[p] = "scan" /\ Zombies(p) = {}
  /\ IF Kids(p) = {} \/ killed[p]
     THEN Goto(p, "user") /\ wait_lock' = None
     ELSE Goto(p, "tosleep") /\ UNCHANGED wait_lock
  /\ UNCHANGED <<slots, nextpid, child, targeted>>

(* sleep: with p->lock held, wait_lock is released and p is SLEEPING. *)
WaitSleep(p) ==
  /\ pc[p] = "tosleep"
  /\ state' = [state EXCEPT ![p] = "SLEEPING"]
  /\ chan' = [chan EXCEPT ![p] = p]
  /\ wait_lock' = None
  /\ Goto(p, "waiting")
  /\ UNCHANGED <<parent, pid, killed, nextpid, child, targeted>>

-----------------------------------------------------------------------------
(* kkill visits the slots and stops at the first with that pid. *)
Kill(p, n) ==
  /\ Calls(p)
  /\ targeted' = targeted \cup {n}
  /\ \/ /\ \A q \in Proc : pid[q] # n
        /\ UNCHANGED <<state, killed>>
     \/ \E q \in Proc :
          /\ pid[q] = n /\ ~Locked(q)
          /\ killed' = [killed EXCEPT ![q] = TRUE]
          /\ state' = IF state[q] = "SLEEPING" THEN [state EXCEPT ![q] = "RUNNABLE"] ELSE state
  /\ UNCHANGED <<parent, pid, chan, nextpid, wait_lock, pc, child>>

-----------------------------------------------------------------------------
PNext ==
  \E p \in Proc :
    \/ \E c \in Proc : ForkAlloc(p, c)
    \/ ForkFail(p) \/ ForkCopied(p) \/ ForkParent(p) \/ ForkPublish(p)
    \/ ExitReparent(p) \/ ExitWakeup(p) \/ ExitZombie(p) \/ Leave(p)
    \/ WaitBegin(p) \/ WaitReap(p) \/ WaitNoCopy(p) \/ WaitEmpty(p) \/ WaitSleep(p)
    \/ \E n \in KillPids : Kill(p, n)

PSpec == PInit /\ [][PNext]_pvars

(* The steps of a process in the kernel, which goes on. *)
KernelStep(p) ==
  \/ ForkFail(p) \/ ForkCopied(p) \/ ForkParent(p) \/ ForkPublish(p)
  \/ ExitWakeup(p) \/ ExitZombie(p) \/ Leave(p)
  \/ WaitReap(p) \/ WaitEmpty(p) \/ WaitSleep(p)

-----------------------------------------------------------------------------
PTypeOK ==
  /\ state \in [Proc -> {"UNUSED", "USED", "SLEEPING", "RUNNABLE", "ZOMBIE"}]
  /\ parent \in [Proc -> Proc \cup {None}]
  /\ pid \in [Proc -> 0 .. MaxPid]
  /\ killed \in [Proc -> BOOLEAN]
  /\ chan \in [Proc -> Proc \cup {None}]
  /\ nextpid \in 1 .. MaxPid + 1
  /\ wait_lock \in Proc \cup {None}
  /\ pc \in [Proc -> {"none", "user", "copying", "copied", "publish", "exiting",
                      "zombify", "leave", "scan", "tosleep", "waiting"}]
  /\ child \in [Proc -> Proc \cup {None}]

(* No lost wakeup between exit and wait: while wait_lock is free, a parent *)
(* that sleeps in kwait has no zombie child.  kexit wakes the parent       *)
(* before it becomes a zombie, and reparenting wakes init.                 *)
NoMissedExit ==
  \A p \in Proc :
    wait_lock = None /\ state[p] = "SLEEPING" /\ chan[p] = p => Zombies(p) = {}

(* No orphans: the parent of a process that runs or is a zombie is a live  *)
(* process, so somebody can reap it; nobody is adopted by a slot that is   *)
(* dead or reused.                                                         *)
ParentAlive ==
  \A q \in Proc : state[q] \in {"RUNNABLE", "SLEEPING", "ZOMBIE"} /\ q # init =>
    /\ parent[q] # None
    /\ state[parent[q]] \in {"RUNNABLE", "SLEEPING"}

(* A slot is freed, and can be given to a new process, only when its old   *)
(* process has left the kernel stack, and no two processes share a pid.    *)
SlotsSound ==
  /\ \A p \in Proc : state[p] = "UNUSED" => pc[p] = "none"
  /\ \A p, q \in Proc : p # q /\ pid[p] = pid[q] => pid[p] = 0

(* Zombies are reaped: one that belongs to init does not stay for ever. *)
InitReaps == \A q \in Proc : state[q] = "ZOMBIE" /\ parent[q] = init ~> state[q] = "UNUSED"

(* kkill kills "the process with the given pid" (proc.c:680): a process is *)
(* killed only if somebody named its pid, however often its slot has been  *)
(* used before.  The callers name pids from 1 on; see KillPids.            *)
KilledByPid ==
  \A p \in Proc : state[p] # "UNUSED" /\ killed[p] => pid[p] \in targeted

(* The process table is sound: the four statements above, together.        *)
TableSound == PTypeOK /\ ParentAlive /\ SlotsSound /\ KilledByPid

=============================================================================
