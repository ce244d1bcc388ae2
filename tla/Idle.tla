-------------------------------- MODULE Idle --------------------------------
(* The idle branch of the scheduler loop in proc.c: two CPUs share the       *)
(* static idle_start_tick without a lock and decide from it when to collect  *)
(* memory files and compact memory. What the two jobs do is in Files and     *)
(* Kalloc.                                                                   *)
EXTENDS Integers

CONSTANTS
  Cpu, Cpu0,  \* the CPUs, and the one whose timer counts ticks
  UINT,       \* ticks wraps at this value (2^32)
  GCAT,       \* idle ticks after which to collect (5)
  COMPACTAT   \* idle ticks after which to compact (10)

VARIABLES
  ticks,
  idle_start_tick,
  pc,         \* per CPU: look, run, tick, test, gc, compact or wfi
  cur,        \* per CPU: current_tick, 0 outside the branch
  old,        \* per CPU: the value idle_start_tick was last loaded with, likewise
  ready,      \* some process is RUNNABLE
  did         \* what the last step did: none, gc or compact

ivars == <<ticks, idle_start_tick, pc, cur, old, ready, did>>

At(c, from, to) == pc[c] = from /\ pc' = [pc EXCEPT ![c] = to]
Waits(c, from) == At(c, from, "wfi") /\ cur' = [cur EXCEPT ![c] = 0] /\ old' = [old EXCEPT ![c] = 0]
Since(c, start) == (cur[c] - start) % UINT

IInit ==
  /\ ticks = 0 /\ idle_start_tick = 0 /\ ready = TRUE /\ did = "none"
  /\ pc = [c \in Cpu |-> "look"] /\ cur = [c \in Cpu |-> 0] /\ old = [c \in Cpu |-> 0]

(* CPU 0 counts a tick where it takes interrupts: in wfi, which this ends,   *)
(* or in a process, which then yields.                                       *)
Tick ==
  /\ pc[Cpu0] \in {"wfi", "run"}
  /\ ticks' = (ticks + 1) % UINT
  /\ pc' = [pc EXCEPT ![Cpu0] = "look"]
  /\ ready' = (ready \/ pc[Cpu0] = "run")
  /\ did' = "none" /\ UNCHANGED <<idle_start_tick, cur, old>>

(* Another CPU's timer.                                                      *)
Timer(c) ==
  /\ c # Cpu0 /\ pc[c] \in {"wfi", "run"} /\ pc' = [pc EXCEPT ![c] = "look"]
  /\ ready' = (ready \/ pc[c] = "run")
  /\ did' = "none" /\ UNCHANGED <<ticks, idle_start_tick, cur, old>>

(* The process running on c sleeps or exits; a device makes one runnable.    *)
Leaves(c) ==
  /\ At(c, "run", "look") /\ did' = "none"
  /\ UNCHANGED <<ticks, idle_start_tick, cur, old, ready>>
Arrives ==
  /\ ~ready /\ ready' = TRUE /\ did' = "none"
  /\ UNCHANGED <<ticks, idle_start_tick, pc, cur, old>>

(* Phase 1, under wait_lock and the process locks.                           *)
Look(c) ==
  /\ IF ready THEN At(c, "look", "run") /\ ready' = FALSE /\ idle_start_tick' = 0
     ELSE At(c, "look", "tick") /\ UNCHANGED <<ready, idle_start_tick>>
  /\ did' = "none" /\ UNCHANGED <<ticks, cur, old>>

ReadTick(c) ==
  /\ At(c, "tick", "test") /\ cur' = [cur EXCEPT ![c] = ticks]
  /\ did' = "none" /\ UNCHANGED <<ticks, idle_start_tick, old, ready>>

MarkAlways(c) == TRUE
Mark(c) == idle_start_tick = 0
Test(c) ==
  /\ IF Mark(c) THEN Waits(c, "test") /\ idle_start_tick' = cur[c]
     ELSE /\ At(c, "test", "gc") /\ old' = [old EXCEPT ![c] = idle_start_tick]
          /\ UNCHANGED <<cur, idle_start_tick>>
  /\ did' = "none" /\ UNCHANGED <<ticks, ready>>

(* The variable is not atomic: a later use is of the value loaded before or  *)
(* of a new load, but the call of garbage_collect forces a new one.          *)
Gc(c) ==
  /\ At(c, "gc", "compact")
  /\ \E start \in {old[c], idle_start_tick} :
       /\ did' = IF Since(c, start) >= GCAT THEN "gc" ELSE "none"
       /\ old' = [old EXCEPT ![c] = start]
  /\ UNCHANGED <<ticks, idle_start_tick, cur, ready>>

Compact(c) ==
  /\ Waits(c, "compact")
  /\ \E start \in {idle_start_tick} \union (IF Since(c, old[c]) >= GCAT THEN {} ELSE {old[c]}) :
       IF Since(c, start) >= COMPACTAT THEN did' = "compact" /\ idle_start_tick' = cur[c]
       ELSE did' = "none" /\ UNCHANGED idle_start_tick
  /\ UNCHANGED <<ticks, ready>>

Step(c) == Look(c) \/ ReadTick(c) \/ Test(c) \/ Gc(c) \/ Compact(c)
INext == Tick \/ Arrives \/ \E c \in Cpu : Step(c) \/ Timer(c) \/ Leaves(c)

(* A CPU keeps executing, and its timer keeps firing.                        *)
ISpec == IInit /\ [][INext]_ivars /\ WF_ivars(Tick) /\ \A c \in Cpu : WF_ivars(Step(c)) /\ WF_ivars(Timer(c))

-----------------------------------------------------------------------------
Quiet == ~ready /\ \A c \in Cpu : pc[c] # "run"

(* Once nothing is runnable any more, the system keeps collecting and keeps  *)
(* compacting, although the CPUs read and write the mark without a lock, the *)
(* mark 0 also means no mark, and ticks wraps.                               *)
KeepsCollecting == (<>[]Quiet) => ([]<>(did = "gc") /\ []<>(did = "compact"))

(* The comment at the call: "System securely idle, run GC".                  *)
CollectsOnlyIdle == did \in {"gc", "compact"} => Quiet
=============================================================================
