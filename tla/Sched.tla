------------------------------- MODULE Sched --------------------------------
(***************************************************************************)
(* The dynamic priority scheduler (kernel/proc.c, scheduler) run by every  *)
(* CPU, with the lock it holds while it scans (wait_lock), the lock of     *)
(* each process, and the ways a process enters and leaves the CPU (yield,  *)
(* sleep, wakeup, kfork, kexit and the timer interrupt).                   *)
(* One visit of a table slot is one step: the other CPUs run in between.   *)
(***************************************************************************)
EXTENDS Integers, FiniteSets

CONSTANTS
  NPROC,          \* size of the process table
  CPU,            \* the CPUs
  None,           \* no CPU
  SCHED_ALPHA, SCHED_BETA, SCHED_DEFAULT, SCHED_MAX, SCHED_MIN,
  SCHED_WMAX, SCHED_TCPU_MAX, SCHED_W,
  WaitCap         \* wait_ticks is not counted beyond this bound

Proc == 1 .. NPROC

ASSUME SchedAssumption ==
  /\ NPROC \in Nat \ {0}
  /\ IsFiniteSet(CPU) /\ None \notin CPU
  /\ SCHED_ALPHA \in Nat /\ SCHED_BETA \in Nat
  /\ SCHED_MIN \in Int /\ SCHED_DEFAULT \in Int /\ SCHED_MAX \in Int
  /\ SCHED_MIN <= SCHED_DEFAULT /\ SCHED_DEFAULT <= SCHED_MAX
  /\ SCHED_WMAX \in Nat \ {0}
  /\ SCHED_TCPU_MAX \in Nat /\ SCHED_W \in Nat \ {0}
  /\ WaitCap \in Nat /\ WaitCap >= SCHED_WMAX + NPROC

VARIABLES
  state,        \* UNUSED (stands for USED and ZOMBIE too), SLEEPING, RUNNABLE, RUNNING
  priority, wait_ticks, cpu_ticks,
  lock,         \* p->lock: the CPU that holds it
  wait_lock,    \* the CPU that holds wait_lock
  pc,           \* where each CPU's scheduler loop is
  slot,         \* its loop index p
  best,         \* its variable best; the process on the CPU while pc = "run"
  window_tick,  \* shared by all CPUs, no lock
  loaded        \* the value of window_tick a CPU is incrementing

vars == <<state, priority, wait_ticks, cpu_ticks, lock, wait_lock, pc, slot,
          best, window_tick, loaded>>
procs == <<state, priority, wait_ticks, cpu_ticks>>

Lesser(a, b) == IF a < b THEN a ELSE b
Greater(a, b) == IF a > b THEN a ELSE b

(* userinit: the first process is runnable, every CPU enters scheduler(). *)
Init ==
  /\ state = [p \in Proc |-> IF p = 1 THEN "RUNNABLE" ELSE "UNUSED"]
  /\ priority = [p \in Proc |-> SCHED_DEFAULT]
  /\ wait_ticks = [p \in Proc |-> 0]
  /\ cpu_ticks = [p \in Proc |-> 0]
  /\ lock = [p \in Proc |-> None]
  /\ wait_lock = None
  /\ pc = [c \in CPU |-> "top"]
  /\ slot = [c \in CPU |-> 1]
  /\ best = [c \in CPU |-> 0]
  /\ window_tick = 0
  /\ loaded = [c \in CPU |-> 0]

-----------------------------------------------------------------------------
(* Phase 1: find the process to run, holding wait_lock and best->lock. *)

Enter(c) ==
  /\ pc[c] = "top" /\ wait_lock = None
  /\ wait_lock' = c
  /\ pc' = [pc EXCEPT ![c] = "scan"]
  /\ slot' = [slot EXCEPT ![c] = 1]
  /\ best' = [best EXCEPT ![c] = 0]
  /\ UNCHANGED <<procs, lock, window_tick, loaded>>

Starved(p) == state[p] = "RUNNABLE" /\ wait_ticks[p] >= SCHED_WMAX

(* p replaces the candidate of CPU c, whose lock is released. *)
Prefer(c, p) ==
  /\ lock' = [q \in Proc |-> IF q = p THEN c
                             ELSE IF q = best[c] THEN None ELSE lock[q]]
  /\ best' = [best EXCEPT ![c] = p]

(* Faulty variant: a starved process gets no precedence. *)
ScanNoRescue(c) ==
  LET p == slot[c]
      better == /\ state[p] = "RUNNABLE"
                /\ best[c] = 0 \/ priority[p] > priority[best[c]]
  IN  /\ pc[c] = "scan" /\ p <= NPROC /\ lock[p] = None
      /\ IF better THEN Prefer(c, p) ELSE UNCHANGED <<lock, best>>
      /\ slot' = [slot EXCEPT ![c] = p + 1]
      /\ UNCHANGED <<procs, pc, wait_lock, window_tick, loaded>>

Scan(c) ==
  LET p == slot[c]
      better == /\ state[p] = "RUNNABLE"
                /\ best[c] = 0 \/ priority[p] > priority[best[c]]
  IN  /\ pc[c] = "scan" /\ p <= NPROC /\ lock[p] = None
      /\ IF Starved(p) \/ better THEN Prefer(c, p) ELSE UNCHANGED <<lock, best>>
      /\ IF Starved(p)
         THEN pc' = [pc EXCEPT ![c] = "age"] /\ slot' = [slot EXCEPT ![c] = 1]
         ELSE slot' = [slot EXCEPT ![c] = p + 1] /\ UNCHANGED pc
      /\ UNCHANGED <<procs, wait_lock, window_tick, loaded>>

(* The scan is over: age the others, or release wait_lock and idle. *)
ScanEnd(c) ==
  /\ pc[c] = "scan" /\ slot[c] > NPROC
  /\ IF best[c] # 0
     THEN pc' = [pc EXCEPT ![c] = "age"] /\ UNCHANGED wait_lock
     ELSE pc' = [pc EXCEPT ![c] = "top"] /\ wait_lock' = None
  /\ slot' = [slot EXCEPT ![c] = 1]
  /\ UNCHANGED <<procs, lock, best, window_tick, loaded>>

-----------------------------------------------------------------------------
(* Phase 2: age the RUNNABLE processes that were passed over. *)

(* Faulty variant: aging raises the priority but forgets the waiting time. *)
AgeWithoutWait(c) ==
  LET p == slot[c]
      aged == p # best[c] /\ state[p] = "RUNNABLE"
  IN  /\ pc[c] = "age" /\ p <= NPROC
      /\ p # best[c] => lock[p] = None
      /\ priority' = IF aged THEN [priority EXCEPT ![p] = Lesser(@ + SCHED_ALPHA, SCHED_MAX)]
                             ELSE priority
      /\ slot' = [slot EXCEPT ![c] = p + 1]
      /\ UNCHANGED <<state, wait_ticks, cpu_ticks, lock, wait_lock, pc, best, window_tick, loaded>>

Age(c) ==
  LET p == slot[c]
      aged == p # best[c] /\ state[p] = "RUNNABLE"
  IN  /\ pc[c] = "age" /\ p <= NPROC
      /\ p # best[c] => lock[p] = None
      /\ wait_ticks' = IF aged THEN [wait_ticks EXCEPT ![p] = Lesser(@ + 1, WaitCap)]
                               ELSE wait_ticks
      /\ priority' = IF aged THEN [priority EXCEPT ![p] = Lesser(@ + SCHED_ALPHA, SCHED_MAX)]
                             ELSE priority
      /\ slot' = [slot EXCEPT ![c] = p + 1]
      /\ UNCHANGED <<state, cpu_ticks, lock, wait_lock, pc, best, window_tick, loaded>>

(* Faulty variant: the waiting time survives the dispatch. *)
DispatchKeepsWait(c) ==
  LET p == best[c]
  IN  /\ pc[c] = "age" /\ slot[c] > NPROC
      /\ state' = [state EXCEPT ![p] = "RUNNING"]
      /\ wait_lock' = None
      /\ lock' = [lock EXCEPT ![p] = None]
      /\ pc' = [pc EXCEPT ![c] = "run"]
      /\ slot' = [slot EXCEPT ![c] = 1]
      /\ UNCHANGED <<priority, wait_ticks, cpu_ticks, best, window_tick, loaded>>

(* The winner runs.  It releases its own lock first thing after the switch *)
(* (yield, sleep or forkret).                                              *)
Dispatch(c) ==
  LET p == best[c]
  IN  /\ pc[c] = "age" /\ slot[c] > NPROC
      /\ state' = [state EXCEPT ![p] = "RUNNING"]
      /\ wait_ticks' = [wait_ticks EXCEPT ![p] = 0]
      /\ wait_lock' = None
      /\ lock' = [lock EXCEPT ![p] = None]
      /\ pc' = [pc EXCEPT ![c] = "run"]
      /\ slot' = [slot EXCEPT ![c] = 1]
      /\ UNCHANGED <<priority, cpu_ticks, best, window_tick, loaded>>

-----------------------------------------------------------------------------
(* The process on CPU c takes its own lock, changes its state and switches *)
(* back to the scheduler of c.                                             *)

(* Faulty variant: p->lock is released before the switch. *)
SwitchOutUnlocked(c, s) ==
  LET p == best[c]
  IN  /\ pc[c] = "run" /\ lock[p] = None
      /\ state' = [state EXCEPT ![p] = s]
      /\ pc' = [pc EXCEPT ![c] = "post"]
      /\ UNCHANGED <<priority, wait_ticks, lock, wait_lock, slot, best, window_tick, loaded>>

SwitchOut(c, s) ==
  LET p == best[c]
  IN  /\ pc[c] = "run" /\ lock[p] = None
      /\ lock' = [lock EXCEPT ![p] = c]
      /\ state' = [state EXCEPT ![p] = s]
      /\ pc' = [pc EXCEPT ![c] = "post"]
      /\ UNCHANGED <<priority, wait_ticks, wait_lock, slot, best, window_tick, loaded>>

(* cpu_ticks is only compared with SCHED_TCPU_MAX: one more is enough. *)
Ticked(n) == Lesser(n + 1, SCHED_TCPU_MAX + 1)

(* Timer interrupt in user or kernel mode: cpu_ticks++ and yield. *)
TimerTick(c) ==
  /\ SwitchOut(c, "RUNNABLE")
  /\ cpu_ticks' = [cpu_ticks EXCEPT ![best[c]] = Ticked(@)]

Sleep(c) == SwitchOut(c, "SLEEPING") /\ UNCHANGED cpu_ticks

(* kexit; the initial process never exits. *)
Exit(c) == best[c] # 1 /\ SwitchOut(c, "UNUSED") /\ UNCHANGED cpu_ticks

(* kfork: the child inherits the priority and starts with clean counters. *)
Fork(c, q) ==
  /\ pc[c] = "run" /\ state[q] = "UNUSED" /\ lock[q] = None
  /\ state' = [state EXCEPT ![q] = "RUNNABLE"]
  /\ priority' = [priority EXCEPT ![q] = priority[best[c]]]
  /\ wait_ticks' = [wait_ticks EXCEPT ![q] = 0]
  /\ cpu_ticks' = [cpu_ticks EXCEPT ![q] = 0]
  /\ UNCHANGED <<lock, wait_lock, pc, slot, best, window_tick, loaded>>

(* wakeup or kkill of a sleeping process, by any process or interrupt. *)
Wakeup(q) ==
  /\ state[q] = "SLEEPING" /\ lock[q] = None
  /\ state' = [state EXCEPT ![q] = "RUNNABLE"]
  /\ UNCHANGED <<priority, wait_ticks, cpu_ticks, lock, wait_lock, pc, slot,
                 best, window_tick, loaded>>

-----------------------------------------------------------------------------
(* Back in the scheduler, still holding best->lock. *)

(* The tick counters and the penalty.  window_tick++ has no lock: a CPU    *)
(* loads it here and stores it in a later step.                            *)
Post(c) ==
  LET p == best[c]
      used == Ticked(cpu_ticks[p])
  IN  /\ pc[c] = "post"
      /\ cpu_ticks' = [cpu_ticks EXCEPT ![p] = used]
      /\ priority' = IF used > SCHED_TCPU_MAX
                     THEN [priority EXCEPT ![p] = Greater(@ - SCHED_BETA, SCHED_MIN)]
                     ELSE priority
      /\ loaded' = [loaded EXCEPT ![c] = window_tick]
      /\ pc' = [pc EXCEPT ![c] = "store"]
      /\ UNCHANGED <<state, wait_ticks, lock, wait_lock, slot, best, window_tick>>

(* window_tick is only compared with SCHED_W: it is not counted beyond it. *)
Store(c) ==
  /\ pc[c] = "store"
  /\ window_tick' = Lesser(loaded[c] + 1, SCHED_W)
  /\ loaded' = [loaded EXCEPT ![c] = 0]
  /\ lock' = [lock EXCEPT ![best[c]] = None]
  /\ best' = [best EXCEPT ![c] = 0]
  /\ pc' = [pc EXCEPT ![c] = "check"]
  /\ UNCHANGED <<procs, wait_lock, slot>>

Check(c) ==
  /\ pc[c] = "check"
  /\ window_tick' = IF window_tick >= SCHED_W THEN 0 ELSE window_tick
  /\ pc' = [pc EXCEPT ![c] = IF window_tick >= SCHED_W THEN "reset" ELSE "top"]
  /\ UNCHANGED <<procs, lock, wait_lock, slot, best, loaded>>

(* The window is over: every cpu_ticks is cleared, one lock at a time.     *)
(* The timer interrupt increments cpu_ticks without the lock, and may      *)
(* overwrite the reset of a process that is RUNNING.                       *)
Reset(c) ==
  LET p == slot[c]
  IN  /\ pc[c] = "reset" /\ lock[p] = None
      /\ \/ cpu_ticks' = [cpu_ticks EXCEPT ![p] = 0]
         \/ state[p] = "RUNNING" /\ UNCHANGED cpu_ticks
      /\ slot' = [slot EXCEPT ![c] = IF p < NPROC THEN p + 1 ELSE 1]
      /\ pc' = [pc EXCEPT ![c] = IF p < NPROC THEN "reset" ELSE "top"]
      /\ UNCHANGED <<state, priority, wait_ticks, lock, wait_lock, best, window_tick, loaded>>

-----------------------------------------------------------------------------
SchedStep(c) ==
  Enter(c) \/ Scan(c) \/ ScanEnd(c) \/ Age(c) \/ Dispatch(c) \/ Post(c)
  \/ Store(c) \/ Check(c) \/ Reset(c)

Next ==
  \/ \E c \in CPU :
       \/ SchedStep(c)
       \/ TimerTick(c) \/ Sleep(c) \/ Exit(c)
       \/ \E q \in Proc : Fork(c, q)
  \/ \E q \in Proc : Wakeup(q)

Spec == Init /\ [][Next]_vars

(* The scheduler loop runs whenever it can, and the timer interrupts the   *)
(* process on every CPU (clockintr re-arms it), so no process keeps a CPU. *)
Fairness == \A c \in CPU : WF_vars(SchedStep(c)) /\ WF_vars(TimerTick(c))

FairSpec == Spec /\ Fairness

-----------------------------------------------------------------------------
TypeOK ==
  /\ state \in [Proc -> {"UNUSED", "SLEEPING", "RUNNABLE", "RUNNING"}]
  /\ priority \in [Proc -> SCHED_MIN .. SCHED_MAX]
  /\ wait_ticks \in [Proc -> 0 .. WaitCap]
  /\ cpu_ticks \in [Proc -> 0 .. SCHED_TCPU_MAX + 1]
  /\ lock \in [Proc -> CPU \cup {None}]
  /\ wait_lock \in CPU \cup {None}
  /\ pc \in [CPU -> {"top", "scan", "age", "run", "post", "store", "check", "reset"}]
  /\ slot \in [CPU -> 1 .. NPROC + 1]
  /\ best \in [CPU -> 0 .. NPROC]
  /\ window_tick \in 0 .. SCHED_W
  /\ loaded \in [CPU -> 0 .. SCHED_W]

(* A CPU owns a process (its kernel stack, its saved context) from the     *)
(* dispatch until the scheduler has released best->lock.                   *)
Owned(c) == IF pc[c] \in {"run", "post", "store"} THEN {best[c]} ELSE {}

(* No two CPUs ever own the same process, a process is RUNNING exactly     *)
(* while one CPU runs it, and no CPU has chosen a process that another     *)
(* still owns, although yield makes it RUNNABLE before its CPU leaves it.  *)
OneCpuPerProcess ==
  /\ \A c, d \in CPU : c # d => Owned(c) \cap (Owned(d) \cup
        IF pc[d] \in {"scan", "age"} THEN {best[d]} ELSE {}) = {}
  /\ \A p \in Proc : state[p] = "RUNNING" <=> \E c \in CPU : pc[c] = "run" /\ best[c] = p

(* Starvation bound: while there are at most SCHED_WMAX + 1 processes, no  *)
(* RUNNABLE process is passed over SCHED_WMAX + NPROC times: the processes *)
(* that reached SCHED_WMAX are served in table order, each once.           *)
BoundedWait == \A p \in Proc : wait_ticks[p] < SCHED_WMAX + NPROC

(* What the scan chooses: a starved process if there is one, and otherwise *)
(* no process that has been waiting since an earlier round has a higher    *)
(* priority, although processes become RUNNABLE behind the scan.           *)
RightChoice ==
  [][\A c \in CPU : pc[c] = "scan" /\ pc'[c] = "age" =>
       \/ Starved(best'[c])
       \/ \A p \in Proc : wait_ticks[p] > 0 =>
            ~Starved(p) /\ priority[p] <= priority[best'[c]]]_vars

(* Every RUNNABLE process is eventually run (README.md, "aging to prevent  *)
(* starvation").                                                           *)
NoStarvation == \A p \in Proc : state[p] = "RUNNABLE" ~> state[p] = "RUNNING"

=============================================================================
