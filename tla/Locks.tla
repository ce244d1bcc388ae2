------------------------------- MODULE Locks --------------------------------
(***************************************************************************)
(* Spin locks and interrupts (src/kernel/spinlock.c), the switch between a *)
(* process and its CPU's scheduler (sched, src/kernel/proc.c), the traps   *)
(* that preempt (src/kernel/trap.c), and the clock on which sys_pause      *)
(* waits.  A thread is a process's kernel thread or a CPU's scheduler, and *)
(* code[t] is what it still has to do, one record to a step; an interrupt  *)
(* puts its handler in front.  A process in user mode has no code.         *)
(***************************************************************************)
EXTENDS Integers, Sequences, FiniteSets

CONSTANTS Cpu, Cpu0, Proc,
          Sch,          \* the scheduler's thread of each CPU
          None,
          UINT,         \* ticks is counted modulo UINT
          Wait,         \* arguments of pause
          MaxCalls,     \* bound: system calls
          MaxTimer      \* bound: timer interrupts

VARIABLES locked, owner,        \* spinlock.locked, spinlock.cpu
          intr,                 \* sstatus.SIE of each CPU
          noff, intena, cur,    \* struct cpu; cur is the thread it runs
          code, state, ticks,
          panic, left

lvars == <<locked, owner, intr, noff, intena, cur, code, state, ticks, panic, left>>

tickslock == None
Lock == Proc \union {tickslock}         \* p stands for p->lock
Kthread == Proc \union {Sch[c] : c \in Cpu}

Do(op) == [op |-> op, l |-> None, x |-> 0]
On(op, l) == [op |-> op, l |-> l, x |-> 0]
With(op, x) == [op |-> op, l |-> None, x |-> x]

Acquire(l) == <<Do("old"), On("tas", l), On("own", l)>>
Release(l) == <<On("unlock", l)>>
Yield(p) == Acquire(p) \o <<With("sched", "RUNNABLE")>> \o Release(p)
Sleep(p, l) == Acquire(p) \o Release(l) \o <<With("sched", "SLEEPING")>>
               \o Release(p) \o Acquire(l)
Return(from) == <<With("intr_off", from), Do("uret")>>       \* prepare_return

LInit ==
  /\ locked = [l \in Lock |-> FALSE] /\ owner = [l \in Lock |-> None]
  /\ intr = [c \in Cpu |-> FALSE] /\ noff = [c \in Cpu |-> 0]
  /\ intena = [c \in Cpu |-> FALSE]
  /\ cur = [c \in Cpu |-> Sch[c]]
  /\ code = [t \in Kthread |-> IF t \in Proc THEN Release(t) \o Return(0) ELSE <<>>]
  /\ state = [p \in Proc |-> "RUNNABLE"]
  /\ ticks = UINT - 1
  /\ panic = FALSE
  /\ left = [calls |-> MaxCalls, timer |-> MaxTimer]

\* The step of thread t on CPU c is op; holding(l)
Head1(c) == cur[c] # None /\ code[cur[c]] # <<>> /\ ~panic
At(c, op) == Head1(c) /\ Head(code[cur[c]]).op = op
Arg(c) == Head(code[cur[c]])
Then(c, ops) == code' = [code EXCEPT ![cur[c]] = ops \o Tail(@)]
Holding(c, l) == locked[l] /\ owner[l] = c
Panic == panic' = TRUE /\ UNCHANGED <<locked, owner, intr, noff, intena, cur, code, state, ticks, left>>

\* push_off reads the interrupt flag, and only then clears it; the thread may
\* be preempted in between, and go on on another CPU.
Old(c) ==
  /\ At(c, "old")
  /\ Then(c, <<With("off", intr[c])>>)
  /\ UNCHANGED <<locked, owner, intr, noff, intena, cur, state, ticks, panic, left>>

Off(c) == FALSE
IntenaSaved(c, old) == IF noff[c] = 0 THEN old ELSE intena[c]
PushOff(c) ==
  /\ At(c, "off")
  /\ intr' = [intr EXCEPT ![c] = Off(c)]
  /\ intena' = [intena EXCEPT ![c] = IntenaSaved(c, Arg(c).x)]
  /\ noff' = [noff EXCEPT ![c] = @ + 1]
  /\ Then(c, <<>>)
  /\ UNCHANGED <<locked, owner, cur, state, ticks, panic, left>>

\* acquire: the swap, which succeeds when the lock is free.
TestAndSet(c) ==
  LET l == Arg(c).l IN
  /\ At(c, "tas")
  /\ IF Holding(c, l) THEN Panic
     ELSE /\ ~locked[l]
          /\ locked' = [locked EXCEPT ![l] = TRUE]
          /\ Then(c, <<>>)
          /\ UNCHANGED <<owner, intr, noff, intena, cur, state, ticks, panic, left>>

Own(c) ==
  /\ At(c, "own")
  /\ owner' = [owner EXCEPT ![Arg(c).l] = c]
  /\ Then(c, <<>>)
  /\ UNCHANGED <<locked, intr, noff, intena, cur, state, ticks, panic, left>>

\* release: lk->cpu, then the lock, is cleared, and pop_off undoes one push_off.
\* One step: lk->cpu matters to no other CPU.
Unlock(c) ==
  LET l == Arg(c).l IN
  /\ At(c, "unlock")
  /\ IF ~Holding(c, l) \/ intr[c] \/ noff[c] < 1 THEN Panic
     ELSE /\ owner' = [owner EXCEPT ![l] = None]
          /\ locked' = [locked EXCEPT ![l] = FALSE]
          /\ noff' = [noff EXCEPT ![c] = @ - 1]
          /\ intr' = [intr EXCEPT ![c] = noff[c] = 1 /\ intena[c]]
          /\ Then(c, <<>>)
          /\ UNCHANGED <<intena, cur, state, ticks, panic, left>>

IntrSet(c) ==
  /\ At(c, "intr_on") \/ At(c, "intr_off")
  /\ intr' = [intr EXCEPT ![c] = Arg(c).op = "intr_on"]
  /\ Then(c, <<>>)
  /\ UNCHANGED <<locked, owner, noff, intena, cur, state, ticks, panic, left>>

\* The state is set and sched called, with p->lock held.  intena is the thread's,
\* so sched keeps it on its stack over swtch.
SavedIntenaNot(c) == <<>>
SavedIntena(c) == <<With("intena", intena[c])>>
SchedBad(c) == ~Holding(c, cur[c]) \/ noff[c] # 1 \/ intr[c]
Switch(c) ==
  /\ At(c, "sched")
  /\ IF SchedBad(c) THEN Panic
     ELSE /\ Then(c, SavedIntena(c))
          /\ state' = [state EXCEPT ![cur[c]] = Arg(c).x]
          /\ cur' = [cur EXCEPT ![c] = Sch[c]]
          /\ UNCHANGED <<locked, owner, intr, noff, intena, ticks, panic, left>>

Restore(c) ==
  /\ At(c, "intena")
  /\ intena' = [intena EXCEPT ![c] = Arg(c).x]
  /\ Then(c, <<>>)
  /\ UNCHANGED <<locked, owner, intr, noff, cur, state, ticks, panic, left>>

\* One round of scheduler(), for whichever process p it turns to (Sched says
\* which it prefers).
Schedule(c, p) ==
  /\ cur[c] = Sch[c] /\ code[Sch[c]] = <<>> /\ ~panic
  /\ code' = [code EXCEPT ![Sch[c]] = <<Do("intr_on"), Do("intr_off")>> \o Acquire(p)
                                      \o <<On("run", p)>> \o Release(p)]
  /\ UNCHANGED <<locked, owner, intr, noff, intena, cur, state, ticks, panic, left>>

Run(c) ==
  LET p == Arg(c).l IN
  /\ At(c, "run")
  /\ Then(c, <<>>)
  /\ IF state[p] = "RUNNABLE"
     THEN state' = [state EXCEPT ![p] = "RUNNING"] /\ cur' = [cur EXCEPT ![c] = p]
     ELSE UNCHANGED <<state, cur>>
  /\ UNCHANGED <<locked, owner, intr, noff, intena, ticks, panic, left>>

\* clockintr, on CPU 0: one tick, and wakeup of every other process.
Handler(c) ==
  LET WakeAll[S \in SUBSET Proc] ==
        IF S = {} THEN <<>>
        ELSE LET p == CHOOSE p \in S : TRUE
             IN Acquire(p) \o <<On("wake", p)>> \o Release(p) \o WakeAll[S \ {p}]
  IN IF c = Cpu0
     THEN Acquire(tickslock) \o <<Do("tick")>> \o WakeAll[Proc \ {cur[c]}] \o Release(tickslock)
     ELSE <<>>

\* A timer interrupt, taken when interrupts are on: kerneltrap, or usertrap for
\* a process in user mode.  The hardware turns interrupts off; both yield.
Preempts(c) == IF cur[c] \in Proc THEN Yield(cur[c]) ELSE <<>>
Timer(c) ==
  LET t == cur[c]
      user == t \in Proc /\ code[t] = <<>>
  IN /\ intr[c] /\ left.timer > 0 /\ ~panic
     /\ left' = [left EXCEPT !.timer = @ - 1]
     /\ intr' = [intr EXCEPT ![c] = FALSE]
     /\ code' = [code EXCEPT ![t] = Handler(c) \o Preempts(c)
                                    \o (IF user THEN Return(0) ELSE <<Do("sret")>>) \o @]
     /\ UNCHANGED <<locked, owner, noff, intena, cur, state, ticks, panic>>

\* sret restores the flag the trap saved: on.  It was on in user mode too.
Sret(c) ==
  /\ At(c, "sret") \/ At(c, "uret")
  /\ intr' = [intr EXCEPT ![c] = TRUE]
  /\ Then(c, <<>>)
  /\ UNCHANGED <<locked, owner, noff, intena, cur, state, ticks, panic, left>>

Tick(c) ==
  /\ At(c, "tick")
  /\ ticks' = (ticks + 1) % UINT
  /\ Then(c, <<>>)
  /\ UNCHANGED <<locked, owner, intr, noff, intena, cur, state, panic, left>>

Wake(c) ==
  LET p == Arg(c).l IN
  /\ At(c, "wake")
  /\ state' = [state EXCEPT ![p] = IF @ = "SLEEPING" THEN "RUNNABLE" ELSE @]
  /\ Then(c, <<>>)
  /\ UNCHANGED <<locked, owner, intr, noff, intena, cur, ticks, panic, left>>

\* A system call of the process on c: usertrap turns interrupts on.
Syscall(c, body) ==
  LET t == cur[c] IN
  /\ t \in Proc /\ code[t] = <<>> /\ intr[c] /\ left.calls > 0 /\ ~panic
  /\ left' = [left EXCEPT !.calls = @ - 1]
  /\ intr' = [intr EXCEPT ![c] = FALSE]
  /\ code' = [code EXCEPT ![t] = <<Do("intr_on")>> \o body \o Return(1)]
  /\ UNCHANGED <<locked, owner, noff, intena, cur, state, ticks, panic>>

SysUptime(c) == Syscall(c, Acquire(tickslock) \o Release(tickslock))
SysPause(c, n) == Syscall(c, Acquire(tickslock) \o <<With("ticks0", n)>>)

Ticks0(c) ==
  /\ At(c, "ticks0")
  /\ Then(c, <<With("while", <<ticks, Arg(c).x>>)>>)
  /\ UNCHANGED <<locked, owner, intr, noff, intena, cur, state, ticks, panic, left>>

\* while(ticks - ticks0 < n), in unsigned arithmetic.
StillEarly(t0, n) == (ticks - t0) % UINT < n
PauseLoop(c) ==
  LET x == Arg(c).x IN
  /\ At(c, "while")
  /\ Then(c, IF StillEarly(x[1], x[2])
             THEN Sleep(cur[c], tickslock) \o <<Arg(c)>> ELSE Release(tickslock))
  /\ UNCHANGED <<locked, owner, intr, noff, intena, cur, state, ticks, panic, left>>

CpuStep(c) ==
  \/ Old(c) \/ PushOff(c) \/ TestAndSet(c) \/ Own(c) \/ Unlock(c)
  \/ IntrSet(c) \/ Switch(c) \/ Restore(c) \/ Run(c)
  \/ Sret(c) \/ Tick(c) \/ Wake(c) \/ Ticks0(c) \/ PauseLoop(c)

LNext == \E c \in Cpu :
  \/ CpuStep(c)
  \/ \E p \in Proc : Schedule(c, p)
  \/ Timer(c)
  \/ SysUptime(c)
  \/ \E n \in Wait : SysPause(c, n)

LSpec == LInit /\ [][LNext]_lvars
-----------------------------------------------------------------------------
\* The first of the operations ops that t has still to do.
First(t, ops) ==
  LET S == {i \in DOMAIN code[t] : code[t][i].op \in ops} IN
  IF S = {} THEN Do("none") ELSE code[t][CHOOSE i \in S : \A j \in S : i <= j]
Count(t, ops) == Cardinality({i \in DOMAIN code[t] : code[t][i].op \in ops})
Depth(t) == Count(t, {"unlock", "while", "ticks0"}) - Count(t, {"tas"})
Running(c, t) == cur[c] = t

\* No interleaving of locking, interrupts and switches reaches a panic of
\* acquire, release, pop_off or sched: no CPU takes a lock it has or gives back
\* one it has not, and no process gives up the CPU with a second lock or with
\* interrupts on.
LocksNoPanic == ~panic

\* One thread at a time has tickslock, and it is running with interrupts off:
\* it is never switched out, nor interrupted by the clock, whose handler would
\* spin on the lock for ever.
HolderRuns ==
  LET In(t) == \/ First(t, {"tas", "own", "unlock", "ticks0", "while"}).op
                    \in {"ticks0", "while"}
               \/ LET mine == SelectSeq(code[t], LAMBDA o : o.l = tickslock
                                       /\ o.op \in {"tas", "own", "unlock"})
                  IN mine # <<>> /\ Head(mine).op # "tas"
  IN /\ \A t, u \in Kthread : In(t) /\ In(u) => t = u
     /\ \A t \in Kthread : In(t) => locked[tickslock]
          /\ \E c \in Cpu : Running(c, t) /\ ~intr[c]

\* A process in a system call can be interrupted whenever it is in no critical
\* section: whether interrupts come back on after pop_off goes with the thread,
\* over sched and from one CPU to another.
SyscallPreemptible ==
  \A c \in Cpu : \A p \in Proc :
    Running(c, p)
    /\ First(p, {"sret", "intr_off", "intr_on"}) = With("intr_off", 1)
    /\ Depth(p) = 0 /\ First(p, {"old", "off", "tas", "intr_off"}).op # "tas"
    => intr[c] /\ noff[c] = 0
=============================================================================
