------------------------------ MODULE MCSched -------------------------------
(* The scheduler and the log, which share no state in the models: a          *)
(* behaviour picks one of Parts and is a behaviour of that component, the    *)
(* other staying in its initial state.  The threads of the log have the      *)
(* numbers of the CPUs, which are numbers of processes.                      *)
EXTENDS Sched, FsLog

CONSTANT Parts   \* of "sched", "log"

VARIABLE which

ASSUME Constants == LogAssumption /\ Thread = CPU /\ CPU \subseteq Proc

-----------------------------------------------------------------------------
all == <<which, vars, logvars>>

InSched(A) == which = "sched" /\ A /\ UNCHANGED <<which, logvars>>
InLog(A) == which = "log" /\ A /\ UNCHANGED <<which, vars>>

BothInit == which \in Parts /\ Init /\ LogInit
BothNext == InSched(Next) \/ InLog(LogNext)

(* The fairness of each component, of its own steps: CPUs go on and take     *)
(* their timer interrupts; system calls end, the disk completes writes and   *)
(* the committer goes on, and nothing forces a thread to call begin_op.      *)
(* Only one of the two disjuncts can be enabled in a behaviour, so each      *)
(* conjunct is a condition on the component picked.                          *)
BothFairness ==
  /\ \A c \in CPU :
       /\ WF_all(InSched(SchedStep(c)) \/ InLog(EndOp(c)))
       /\ WF_all(InSched(TimerTick(c)) \/ InLog(EndCommit(c)))
  /\ WF_all(InLog(CommitStep))

BothSpec == BothInit /\ [][BothNext]_all /\ BothFairness

(* A workload of processes that compute without ever blocking or exiting     *)
(* (user/starve.c): the initial process forks, everybody runs to the tick.   *)
CpuBoundNext ==
  \E c \in CPU : SchedStep(c) \/ TimerTick(c) \/ \E q \in Proc : best[c] = 1 /\ Fork(c, q)
CpuBoundSpec == BothInit /\ [][InSched(CpuBoundNext)]_all /\ BothFairness

-----------------------------------------------------------------------------
(* Every RUNNABLE process is eventually run (README.md, "aging to prevent    *)
(* starvation"), and a thread that sleeps in begin_op is woken (log.c): the  *)
(* statements NoStarvation of Sched and SleepersWoken of FsLog.              *)
Waits(p) ==
  CASE which = "sched" -> state[p] = "RUNNABLE" [] which = "log" -> p \in CPU /\ at[p] = "asleep"
Served(p) ==
  CASE which = "sched" -> state[p] = "RUNNING" [] which = "log" -> p \in CPU => at[p] # "asleep"
NobodyStarves == \A p \in Proc : Waits(p) ~> Served(p)

=============================================================================
