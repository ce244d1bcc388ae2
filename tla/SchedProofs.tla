---------------------------- MODULE SchedProofs -----------------------------
(***************************************************************************)
(* Two results about the scheduler for every number of processes and CPUs  *)
(* and every value of the tuning constants: no process is ever run by two  *)
(* CPUs, and the starvation bound.                                         *)
(***************************************************************************)
EXTENDS Sched, FiniteSetTheorems, TLAPS

-----------------------------------------------------------------------------
(* Who holds which lock at each point of the loop, and what is known about *)
(* the process a CPU has chosen, runs or is leaving.                       *)
Scanning(c) == pc[c] = "scan" \/ pc[c] = "age"

LockInv ==
  /\ \A c \in CPU : Scanning(c) <=> wait_lock = c
  /\ \A c \in CPU : pc[c] \in {"age", "run", "post", "store"} => best[c] # 0
  /\ \A c \in CPU : Scanning(c) /\ best[c] # 0 =>
       lock[best[c]] = c /\ state[best[c]] = "RUNNABLE"
  /\ \A c \in CPU : pc[c] \in {"post", "store"} => lock[best[c]] = c /\ state[best[c]] # "RUNNING"
  /\ \A c \in CPU : pc[c] = "run" => state[best[c]] = "RUNNING"
  /\ \A c, d \in CPU : pc[c] = "run" /\ pc[d] = "run" /\ c # d => best[c] # best[d]
  /\ \A p \in Proc : state[p] = "RUNNING" => \E c \in CPU : pc[c] = "run" /\ best[c] = p

(* The constants and saturations stay in the declared ranges. *)
LEMMA Ranges ==
  /\ 0 \in 0 .. WaitCap /\ 0 \in 0 .. SCHED_TCPU_MAX + 1 /\ 0 \in 0 .. NPROC
  /\ 1 \in 1 .. NPROC + 1 /\ Proc \subseteq 0 .. NPROC
  /\ \A n \in 0 .. WaitCap : Lesser(n + 1, WaitCap) \in 0 .. WaitCap
  /\ \A n \in 0 .. SCHED_TCPU_MAX + 1 : Ticked(n) \in 0 .. SCHED_TCPU_MAX + 1
  /\ \A n \in SCHED_MIN .. SCHED_MAX :
       /\ Lesser(n + SCHED_ALPHA, SCHED_MAX) \in SCHED_MIN .. SCHED_MAX
       /\ Greater(n - SCHED_BETA, SCHED_MIN) \in SCHED_MIN .. SCHED_MAX
  /\ \A n \in 1 .. NPROC + 1 : n <= NPROC => n \in Proc /\ n + 1 \in 1 .. NPROC + 1
  /\ \A n \in 1 .. NPROC + 1 : n < NPROC => n <= NPROC
  /\ 0 \in 0 .. SCHED_W /\ \A n \in 0 .. SCHED_W : Lesser(n + 1, SCHED_W) \in 0 .. SCHED_W
  /\ \A n \in 0 .. NPROC : n # 0 => n \in Proc
  BY SchedAssumption DEF Proc, Lesser, Greater, Ticked

(* The slots of the table are the numbers from 1 to NPROC, in the order in *)
(* which the loops visit them.                                             *)
LEMMA SlotOrder ==
  /\ NPROC \in Nat /\ SCHED_WMAX \in Nat /\ 0 < SCHED_WMAX /\ None \notin CPU
  /\ 0 \notin Proc /\ \A q \in Proc : 1 <= q /\ ~(q < 1) /\ (q < 2 => q = 1)
  /\ \A q \in Proc : q \in Nat /\ q <= NPROC
  /\ 1 .. NPROC + 1 \subseteq Nat
  BY SchedAssumption DEF Proc

(* Every step keeps the variables in their ranges: the aging and the       *)
(* penalty saturate, the loop indices stay within the table.               *)
LEMMA TypeStep == TypeOK /\ LockInv /\ [Next]_vars => TypeOK'
<1> SUFFICES ASSUME TypeOK, LockInv, [Next]_vars PROVE TypeOK'
  OBVIOUS
<1>0. \A c \in CPU : pc[c] \in {"run", "post", "store"} => best[c] \in Proc
  BY Ranges DEF TypeOK, LockInv
<1>1. ASSUME NEW c \in CPU, Enter(c) PROVE TypeOK'
  BY <1>1, <1>0, Ranges DEF TypeOK, Enter, procs
<1>2. ASSUME NEW c \in CPU, Scan(c) PROVE TypeOK'
  <2>1. /\ pc' \in [CPU -> {"top", "scan", "age", "run", "post", "store", "check", "reset"}]
        /\ slot' \in [CPU -> 1 .. NPROC + 1]
    BY <1>2, Ranges DEF TypeOK, Scan
  <2>2. lock' \in [Proc -> CPU \cup {None}] /\ best' \in [CPU -> 0 .. NPROC]
    <3>1. CASE Prefer(c, slot[c])
      <4>1. slot[c] \in 0 .. NPROC
        BY <1>2, Ranges DEF TypeOK, Scan
      <4>2. best' \in [CPU -> 0 .. NPROC]
        BY <3>1, <4>1 DEF TypeOK, Prefer
      <4>3. lock' \in [Proc -> CPU \cup {None}]
        BY <3>1 DEF TypeOK, Prefer
      <4> QED
        BY <4>2, <4>3
    <3>2. CASE UNCHANGED <<lock, best>>
      BY <3>2 DEF TypeOK
    <3> QED
      BY <1>2, <3>1, <3>2 DEF Scan
  <2> QED
    BY <1>2, <2>1, <2>2 DEF TypeOK, Scan, procs
<1>3. ASSUME NEW c \in CPU, ScanEnd(c) PROVE TypeOK'
  BY <1>3, <1>0, Ranges DEF TypeOK, ScanEnd, procs
<1>4. ASSUME NEW c \in CPU, Age(c) PROVE TypeOK'
  BY <1>4, <1>0, Ranges DEF TypeOK, Age
<1>5. ASSUME NEW c \in CPU, Dispatch(c) PROVE TypeOK'
  BY <1>5, <1>0, Ranges DEF TypeOK, Dispatch
<1>6. ASSUME NEW c \in CPU, Post(c) PROVE TypeOK'
  BY <1>6, <1>0, Ranges DEF TypeOK, Post
<1>7. ASSUME NEW c \in CPU, Store(c) PROVE TypeOK'
  BY <1>7, <1>0, Ranges DEF TypeOK, Store, procs
<1>8. ASSUME NEW c \in CPU, Check(c) PROVE TypeOK'
  BY <1>8, <1>0, Ranges DEF TypeOK, Check, procs
<1>9. ASSUME NEW c \in CPU, Reset(c) PROVE TypeOK'
  <2>1. slot' \in [CPU -> 1 .. NPROC + 1]
    BY <1>9, Ranges DEF TypeOK, Reset
  <2>2. /\ pc' \in [CPU -> {"top", "scan", "age", "run", "post", "store", "check", "reset"}]
        /\ cpu_ticks' \in [Proc -> 0 .. SCHED_TCPU_MAX + 1]
    BY <1>9, Ranges DEF TypeOK, Reset
  <2> QED
    BY <1>9, <2>1, <2>2 DEF TypeOK, Reset
<1>10. ASSUME NEW c \in CPU, TimerTick(c) PROVE TypeOK'
  BY <1>10, <1>0, Ranges DEF TypeOK, TimerTick, SwitchOut
<1>11. ASSUME NEW c \in CPU, Sleep(c) PROVE TypeOK'
  BY <1>11, <1>0, Ranges DEF TypeOK, Sleep, SwitchOut
<1>12. ASSUME NEW c \in CPU, Exit(c) PROVE TypeOK'
  BY <1>12, <1>0, Ranges DEF TypeOK, Exit, SwitchOut
<1>13. ASSUME NEW c \in CPU, NEW q \in Proc, Fork(c, q) PROVE TypeOK'
  BY <1>13, <1>0, Ranges DEF TypeOK, Fork
<1>14. ASSUME NEW q \in Proc, Wakeup(q) PROVE TypeOK'
  BY <1>14, <1>0, Ranges DEF TypeOK, Wakeup
<1>15. CASE UNCHANGED vars
  BY <1>15 DEF TypeOK, vars
<1> QED
  BY <1>1, <1>2, <1>3, <1>4, <1>5, <1>6, <1>7, <1>8, <1>9, <1>10, <1>11,
     <1>12, <1>13, <1>14, <1>15 DEF Next, SchedStep

(* Every step of the scheduler and of the processes keeps the locks and    *)
(* the chosen processes consistent.                                        *)
LEMMA LockInvStep == TypeOK /\ LockInv /\ [Next]_vars => LockInv'
<1> SUFFICES ASSUME TypeOK, LockInv, [Next]_vars PROVE LockInv'
  OBVIOUS
<1>0. /\ None \notin CPU
      /\ \A c \in CPU : best[c] # 0 => best[c] \in Proc
      /\ \A c \in CPU : slot[c] <= NPROC => slot[c] \in Proc
      /\ 0 \notin Proc
  <2>1. None \notin CPU /\ 0 \notin Proc
    BY SchedAssumption DEF Proc
  <2> QED
    BY <2>1, Ranges DEF TypeOK
<1>1. ASSUME NEW c \in CPU, Enter(c) PROVE LockInv'
  BY <1>1, <1>0 DEF TypeOK, LockInv, Scanning, Enter, procs
<1>2. ASSUME NEW c \in CPU, Scan(c) PROVE LockInv'
  BY <1>2, <1>0 DEF TypeOK, LockInv, Scanning, Scan, procs, Prefer, Starved
<1>3. ASSUME NEW c \in CPU, ScanEnd(c) PROVE LockInv'
  BY <1>3, <1>0 DEF TypeOK, LockInv, Scanning, ScanEnd, procs
<1>4. ASSUME NEW c \in CPU, Age(c) PROVE LockInv'
  BY <1>4, <1>0 DEF TypeOK, LockInv, Scanning, Age
<1>5. ASSUME NEW c \in CPU, Dispatch(c) PROVE LockInv'
  BY <1>5, <1>0 DEF TypeOK, LockInv, Scanning, Dispatch
<1>6. ASSUME NEW c \in CPU, Post(c) PROVE LockInv'
  BY <1>6, <1>0 DEF TypeOK, LockInv, Scanning, Post
<1>7. ASSUME NEW c \in CPU, Store(c) PROVE LockInv'
  BY <1>7, <1>0 DEF TypeOK, LockInv, Scanning, Store, procs
<1>8. ASSUME NEW c \in CPU, Check(c) PROVE LockInv'
  BY <1>8, <1>0 DEF TypeOK, LockInv, Scanning, Check, procs
<1>9. ASSUME NEW c \in CPU, Reset(c) PROVE LockInv'
  BY <1>9, <1>0 DEF TypeOK, LockInv, Scanning, Reset
<1>10. ASSUME NEW c \in CPU, TimerTick(c) PROVE LockInv'
  BY <1>10, <1>0 DEF TypeOK, LockInv, Scanning, TimerTick, SwitchOut
<1>11. ASSUME NEW c \in CPU, Sleep(c) PROVE LockInv'
  BY <1>11, <1>0 DEF TypeOK, LockInv, Scanning, Sleep, SwitchOut
<1>12. ASSUME NEW c \in CPU, Exit(c) PROVE LockInv'
  BY <1>12, <1>0 DEF TypeOK, LockInv, Scanning, Exit, SwitchOut
<1>13. ASSUME NEW c \in CPU, NEW q \in Proc, Fork(c, q) PROVE LockInv'
  BY <1>13, <1>0 DEF TypeOK, LockInv, Scanning, Fork
<1>14. ASSUME NEW q \in Proc, Wakeup(q) PROVE LockInv'
  BY <1>14, <1>0 DEF TypeOK, LockInv, Scanning, Wakeup
<1>15. CASE UNCHANGED vars
  BY <1>15 DEF LockInv, Scanning, vars
<1> QED
  BY <1>1, <1>2, <1>3, <1>4, <1>5, <1>6, <1>7, <1>8, <1>9, <1>10, <1>11,
     <1>12, <1>13, <1>14, <1>15 DEF Next, SchedStep

(* Initially every CPU is at the top of its loop and holds no lock. *)
LEMMA LockInvInit == Init => TypeOK /\ LockInv
<1> SUFFICES ASSUME Init PROVE TypeOK /\ LockInv
  OBVIOUS
<1>1. TypeOK
  <2>1. SCHED_DEFAULT \in SCHED_MIN .. SCHED_MAX /\ 0 \in 0 .. SCHED_W
    BY SchedAssumption
  <2> QED
    BY <2>1, Ranges DEF Init, TypeOK
<1>2. LockInv
  BY SchedAssumption DEF Init, LockInv, Scanning
<1> QED
  BY <1>1, <1>2

(* For every number of processes and CPUs the variables of the scheduler   *)
(* stay in their ranges and the locking discipline holds in every state.   *)
THEOREM LocksConsistent == Spec => [](TypeOK /\ LockInv)
<1>1. (TypeOK /\ LockInv) /\ [Next]_vars => (TypeOK /\ LockInv)'
  BY TypeStep, LockInvStep
<1> QED
  BY <1>1, LockInvInit, PTL DEF Spec

(* For every number of processes and CPUs: no two CPUs ever own a process, *)
(* and a process is RUNNING exactly while a CPU runs it (scheduler, yield, *)
(* sleep and kexit hand p->lock over the switch).                          *)
THEOREM NeverOnTwoCpus == Spec => []OneCpuPerProcess
<1>1. TypeOK /\ LockInv => OneCpuPerProcess
  BY SchedAssumption DEF TypeOK, LockInv, OneCpuPerProcess, Owned, Scanning
<1> QED
  BY <1>1, LocksConsistent, PTL

-----------------------------------------------------------------------------
(* The starvation bound.  The processes that have waited SCHED_WMAX + k    *)
(* rounds must have seen k others served in the last rounds: for every k   *)
(* at least k processes have waited less than k rounds.                    *)
Spread(u) ==
  \A k \in 1 .. NPROC : \A p \in Proc :
    u[p] >= SCHED_WMAX + k => Cardinality({q \in Proc : u[q] < k}) >= k

(* The set of processes below a bound is finite, and monotone. *)
LEMMA BelowGrows ==
  ASSUME NEW A \in SUBSET Proc, NEW B \in SUBSET Proc, A \subseteq B
  PROVE  /\ IsFiniteSet(A) /\ IsFiniteSet(B)
         /\ Cardinality(A) \in Nat /\ Cardinality(B) \in Nat
         /\ Cardinality(A) <= Cardinality(B)
<1>1. IsFiniteSet(Proc)
  BY FS_Interval, SchedAssumption DEF Proc
<1> QED
  BY <1>1, FS_Subset, FS_CardinalityType

(* Serving a process, or not aging it, keeps the spread. *)
LEMMA SpreadLess ==
  ASSUME NEW u \in [Proc -> Nat], NEW v \in [Proc -> Nat], Spread(u),
         \A q \in Proc : v[q] <= u[q]
  PROVE  Spread(v)
<1> SUFFICES ASSUME NEW k \in 1 .. NPROC, NEW p \in Proc, v[p] >= SCHED_WMAX + k
             PROVE  Cardinality({q \in Proc : v[q] < k}) >= k
  BY DEF Spread
<1>1. u[p] >= SCHED_WMAX + k
  BY SchedAssumption
<1>2. Cardinality({q \in Proc : u[q] < k}) >= k
  BY <1>1 DEF Spread
<1>3. {q \in Proc : u[q] < k} \subseteq {q \in Proc : v[q] < k}
  OBVIOUS
<1> HIDE DEF Proc
<1> QED
  BY <1>2, <1>3, BelowGrows

(* One round: b is served, all others wait once more.  If some process had *)
(* waited SCHED_WMAX rounds then so had b.                                 *)
LEMMA SpreadRound ==
  ASSUME NPROC <= SCHED_WMAX + 1,
         NEW u \in [Proc -> Nat], Spread(u), NEW b \in Proc,
         u[b] >= SCHED_WMAX \/ \A q \in Proc : u[q] < SCHED_WMAX,
         NEW v \in [Proc -> Nat],
         v = [q \in Proc |-> IF q = b THEN 0 ELSE u[q] + 1]
  PROVE  Spread(v)
<1> SUFFICES ASSUME NEW k \in 1 .. NPROC, NEW p \in Proc, v[p] >= SCHED_WMAX + k
             PROVE  Cardinality({q \in Proc : v[q] < k}) >= k
  BY DEF Spread
<1> DEFINE A == {q \in Proc : u[q] < k - 1}
           B == {q \in Proc : v[q] < k}
<1>0. k \in Nat /\ k >= 1 /\ k <= NPROC /\ NPROC \in Nat /\ SCHED_WMAX \in Nat
  BY SchedAssumption
<1>1. p # b /\ u[p] >= SCHED_WMAX + (k - 1)
  BY <1>0
<1>2. u[b] >= SCHED_WMAX
  BY <1>0, <1>1
<1>3. Cardinality(A) >= k - 1
  <2>1. CASE k = 1
    BY <2>1, BelowGrows
  <2>2. CASE k # 1
    <3>1. k - 1 \in 1 .. NPROC
      BY <1>0, <2>2
    <3> QED
      BY <1>1, <3>1 DEF Spread
  <2> QED
    BY <2>1, <2>2
<1>4. b \notin A
  BY <1>0, <1>2
<1>5. A \cup {b} \subseteq B
  BY <1>0
<1> HIDE DEF A, B
<1>6. A \in SUBSET Proc /\ B \in SUBSET Proc
  BY DEF A, B
<1>7. Cardinality(A \cup {b}) = Cardinality(A) + 1
  BY <1>4, <1>6, BelowGrows, FS_AddElement
<1>8. Cardinality(A \cup {b}) <= Cardinality(B)
  BY <1>5, <1>6, BelowGrows
<1>9. Cardinality(A) \in Nat /\ Cardinality(B) \in Nat
  BY <1>6, BelowGrows
<1>10. Cardinality(B) >= k
  BY <1>0, <1>3, <1>7, <1>8, <1>9
<1> QED
  BY <1>10 DEF B

(* No spread table contains a process at the bound: all NPROC processes    *)
(* would have waited less than NPROC rounds, that one included.            *)
LEMMA SpreadBounds ==
  ASSUME NEW u \in [Proc -> Nat], Spread(u), NEW p \in Proc
  PROVE  u[p] < SCHED_WMAX + NPROC
<1> SUFFICES ASSUME u[p] >= SCHED_WMAX + NPROC PROVE FALSE
  BY SchedAssumption
<1> DEFINE A == {q \in Proc : u[q] < NPROC}
<1>0. NPROC \in Nat /\ NPROC \in 1 .. NPROC
  BY SchedAssumption
<1>1. Cardinality(A) >= NPROC
  BY <1>0 DEF Spread
<1>2. Cardinality(Proc) = NPROC /\ IsFiniteSet(Proc)
  BY FS_Interval, SchedAssumption DEF Proc
<1>3. p \notin A
  BY SchedAssumption
<1> HIDE DEF A
<1>4. A \in SUBSET Proc
  BY DEF A
<1>5. Cardinality(A) < Cardinality(Proc)
  <2>1. A \subseteq Proc \ {p}
    BY <1>3, <1>4
  <2>2. Cardinality(Proc \ {p}) = Cardinality(Proc) - 1
    BY <1>2, FS_RemoveElement
  <2> QED
    BY <1>0, <1>2, <2>1, <2>2, BelowGrows
<1> QED
  BY <1>0, <1>1, <1>2, <1>4, <1>5, BelowGrows

-----------------------------------------------------------------------------
(* What wait_ticks will be when the aging round under way is over. *)
Due ==
  [q \in Proc |-> IF \E c \in CPU : pc[c] = "age" /\ best[c] = q THEN 0
                  ELSE IF \E c \in CPU : pc[c] = "age" /\ slot[c] <= q
                       THEN wait_ticks[q] + 1 ELSE wait_ticks[q]]

(* Only a RUNNABLE process has waited, and the part of the table already   *)
(* scanned holds no starved process.                                       *)
Waiting ==
  /\ \A p \in Proc : wait_ticks[p] > 0 => state[p] = "RUNNABLE"
  /\ \A c \in CPU : pc[c] = "scan" =>
       \A q \in Proc : q < slot[c] => wait_ticks[q] < SCHED_WMAX

(* Both facts survive every step: a process that leaves RUNNABLE has just  *)
(* been served, and the scan stops at the first starved process.           *)
LEMMA WaitingStep == TypeOK /\ LockInv /\ Waiting /\ [Next]_vars => Waiting'
<1> SUFFICES ASSUME TypeOK, LockInv, Waiting, [Next]_vars PROVE Waiting'
  OBVIOUS
<1>0. /\ None \notin CPU /\ 0 < SCHED_WMAX /\ ~(0 > 0)
      /\ \A c \in CPU : best[c] # 0 => best[c] \in Proc
      /\ \A c \in CPU : slot[c] <= NPROC => slot[c] \in Proc
      /\ \A q \in Proc : ~(q < 1) /\ (q < 2 => q = 1)
      /\ \A c \in CPU : \A q \in Proc : q < slot[c] + 1 => q < slot[c] \/ q = slot[c]
      /\ \A q \in Proc : wait_ticks[q] < SCHED_WMAX \/ wait_ticks[q] >= SCHED_WMAX
      /\ \A q \in Proc : wait_ticks[q] >= SCHED_WMAX => wait_ticks[q] > 0
  <2>1. None \notin CPU /\ 0 < SCHED_WMAX /\ ~(0 > 0)
    BY SchedAssumption
  <2>2. \A q \in Proc : ~(q < 1) /\ (q < 2 => q = 1)
    BY SlotOrder
  <2>3. \A c \in CPU : \A q \in Proc : q < slot[c] + 1 => q < slot[c] \/ q = slot[c]
    <3> TAKE c \in CPU
    <3> TAKE q \in Proc
    <3>1. slot[c] \in Nat /\ q \in Nat
      BY SlotOrder DEF TypeOK
    <3> QED
      BY <3>1
  <2>4. \A q \in Proc : /\ wait_ticks[q] < SCHED_WMAX \/ wait_ticks[q] >= SCHED_WMAX
                        /\ wait_ticks[q] >= SCHED_WMAX => wait_ticks[q] > 0
    BY SchedAssumption DEF TypeOK
  <2> QED
    BY <2>1, <2>2, <2>3, <2>4, Ranges DEF TypeOK
<1>1. ASSUME NEW c \in CPU, Enter(c) PROVE Waiting'
  BY <1>1, <1>0 DEF TypeOK, LockInv, Scanning, Waiting, Enter, procs
<1>2. ASSUME NEW c \in CPU, Scan(c) PROVE Waiting'
  BY <1>2, <1>0 DEF TypeOK, LockInv, Scanning, Waiting, Scan, procs, Prefer, Starved
<1>3. ASSUME NEW c \in CPU, ScanEnd(c) PROVE Waiting'
  BY <1>3, <1>0 DEF TypeOK, LockInv, Scanning, Waiting, ScanEnd, procs
<1>4. ASSUME NEW c \in CPU, Age(c) PROVE Waiting'
  BY <1>4, <1>0 DEF TypeOK, LockInv, Scanning, Waiting, Age
<1>5. ASSUME NEW c \in CPU, Dispatch(c) PROVE Waiting'
  BY <1>5, <1>0 DEF TypeOK, LockInv, Scanning, Waiting, Dispatch
<1>6. ASSUME NEW c \in CPU, Post(c) PROVE Waiting'
  BY <1>6, <1>0 DEF TypeOK, LockInv, Scanning, Waiting, Post
<1>7. ASSUME NEW c \in CPU, Store(c) PROVE Waiting'
  BY <1>7, <1>0 DEF TypeOK, LockInv, Scanning, Waiting, Store, procs
<1>8. ASSUME NEW c \in CPU, Check(c) PROVE Waiting'
  BY <1>8, <1>0 DEF TypeOK, LockInv, Scanning, Waiting, Check, procs
<1>9. ASSUME NEW c \in CPU, Reset(c) PROVE Waiting'
  BY <1>9, <1>0 DEF TypeOK, LockInv, Scanning, Waiting, Reset
<1>10. ASSUME NEW c \in CPU, TimerTick(c) PROVE Waiting'
  BY <1>10, <1>0 DEF TypeOK, LockInv, Scanning, Waiting, TimerTick, SwitchOut
<1>11. ASSUME NEW c \in CPU, Sleep(c) PROVE Waiting'
  BY <1>11, <1>0 DEF TypeOK, LockInv, Scanning, Waiting, Sleep, SwitchOut
<1>12. ASSUME NEW c \in CPU, Exit(c) PROVE Waiting'
  BY <1>12, <1>0 DEF TypeOK, LockInv, Scanning, Waiting, Exit, SwitchOut
<1>13. ASSUME NEW c \in CPU, NEW q \in Proc, Fork(c, q) PROVE Waiting'
  BY <1>13, <1>0 DEF TypeOK, LockInv, Scanning, Waiting, Fork
<1>14. ASSUME NEW q \in Proc, Wakeup(q) PROVE Waiting'
  BY <1>14, <1>0 DEF TypeOK, LockInv, Scanning, Waiting, Wakeup
<1>15. CASE UNCHANGED vars
  BY <1>15 DEF Waiting, vars
<1> QED
  BY <1>1, <1>2, <1>3, <1>4, <1>5, <1>6, <1>7, <1>8, <1>9, <1>10, <1>11,
     <1>12, <1>13, <1>14, <1>15 DEF Next, SchedStep

(* Due is a table of natural numbers. *)
LEMMA DueType == TypeOK => Due \in [Proc -> Nat]
<1> SUFFICES ASSUME TypeOK PROVE Due \in [Proc -> Nat]
  OBVIOUS
<1>1. \A q \in Proc : wait_ticks[q] \in Nat /\ wait_ticks[q] + 1 \in Nat
  BY SchedAssumption DEF TypeOK
<1> QED
  BY <1>1 DEF Due

(* wait_lock admits one CPU at a time to the scan and to the ageing round. *)
LEMMA OneChooser ==
  ASSUME LockInv, NEW c \in CPU, NEW d \in CPU, Scanning(c), Scanning(d) PROVE c = d
<1>1. \A e \in CPU : Scanning(e) <=> wait_lock = e
  BY DEF LockInv
<1> QED
  BY <1>1

(* A step that moves no ageing round: no CPU enters or leaves phase 2 or   *)
(* goes on in it, and a waiting time stays or is cleared.                  *)
Quiet ==
  /\ \A q \in Proc : wait_ticks'[q] = wait_ticks[q] \/ wait_ticks'[q] = 0
  /\ \A c \in CPU : pc'[c] = "age" <=> pc[c] = "age"
  /\ \A c \in CPU : pc[c] = "age" => slot'[c] = slot[c] /\ best'[c] = best[c]

(* The scan of CPU c ends with a chosen process. *)
Choose(c) == (Scan(c) \/ ScanEnd(c)) /\ pc[c] = "scan" /\ pc'[c] = "age"

(* Only the choice, the ageing and the dispatch move an ageing round. *)
LEMMA StepKinds ==
  ASSUME TypeOK, [Next]_vars
  PROVE  Quiet \/ \E c \in CPU : Age(c) \/ Dispatch(c) \/ Choose(c)
<1>1. ASSUME NEW c \in CPU, Enter(c) PROVE Quiet
  BY <1>1 DEF TypeOK, Quiet, Enter, procs
<1>2. ASSUME NEW c \in CPU, Scan(c) PROVE Quiet \/ Choose(c)
  <2>1. pc[c] = "scan" /\ wait_ticks' = wait_ticks
    BY <1>2 DEF Scan, procs
  <2>2. CASE pc'[c] = "age"
    BY <1>2, <2>1, <2>2 DEF Choose
  <2>3. CASE pc'[c] # "age"
    <3>1. \A d \in CPU : d # c => pc'[d] = pc[d] /\ slot'[d] = slot[d]
      BY <1>2 DEF TypeOK, Scan
    <3>2. \A d \in CPU : d # c => best'[d] = best[d]
      BY <1>2 DEF TypeOK, Scan, Prefer
    <3> QED
      BY <2>1, <2>3, <3>1, <3>2 DEF Quiet
  <2> QED
    BY <2>2, <2>3
<1>3. ASSUME NEW c \in CPU, ScanEnd(c) PROVE Quiet \/ Choose(c)
  <2>1. pc[c] = "scan" /\ wait_ticks' = wait_ticks /\ best' = best
    BY <1>3 DEF ScanEnd, procs
  <2>2. CASE pc'[c] = "age"
    BY <1>3, <2>1, <2>2 DEF Choose
  <2>3. CASE pc'[c] # "age"
    <3>1. \A d \in CPU : d # c => pc'[d] = pc[d] /\ slot'[d] = slot[d]
      BY <1>3 DEF TypeOK, ScanEnd
    <3> QED
      BY <2>1, <2>3, <3>1 DEF Quiet
  <2> QED
    BY <2>2, <2>3
<1>6. ASSUME NEW c \in CPU, Post(c) PROVE Quiet
  BY <1>6 DEF TypeOK, Quiet, Post
<1>7. ASSUME NEW c \in CPU, Store(c) PROVE Quiet
  BY <1>7 DEF TypeOK, Quiet, Store, procs
<1>8. ASSUME NEW c \in CPU, Check(c) PROVE Quiet
  BY <1>8 DEF TypeOK, Quiet, Check, procs
<1>9. ASSUME NEW c \in CPU, Reset(c) PROVE Quiet
  BY <1>9 DEF TypeOK, Quiet, Reset
<1>10. ASSUME NEW c \in CPU, NEW s, SwitchOut(c, s) PROVE Quiet
  BY <1>10 DEF TypeOK, Quiet, SwitchOut
<1>13. ASSUME NEW c \in CPU, NEW q \in Proc, Fork(c, q) PROVE Quiet
  BY <1>13 DEF TypeOK, Quiet, Fork
<1>14. ASSUME NEW q \in Proc, Wakeup(q) PROVE Quiet
  BY <1>14 DEF Quiet, Wakeup
<1>15. CASE UNCHANGED vars
  BY <1>15 DEF Quiet, vars
<1>16. ASSUME NEW c \in CPU, TimerTick(c) \/ Sleep(c) \/ Exit(c) PROVE Quiet
  BY <1>10, <1>16 DEF TimerTick, Sleep, Exit
<1> QED
  BY <1>1, <1>2, <1>3, <1>6, <1>7, <1>8, <1>9, <1>13, <1>14, <1>15, <1>16 DEF Next, SchedStep

(* No step but the choice of a process makes anybody due for more. *)
LEMMA DueStep ==
  ASSUME TypeOK, TypeOK', LockInv, LockInv', [Next]_vars,
         \A c \in CPU : ~(pc[c] = "scan" /\ pc'[c] = "age")
  PROVE  \A q \in Proc : Due'[q] <= Due[q]
<1> TAKE q \in Proc
<1>0. wait_ticks[q] \in Nat /\ wait_ticks'[q] \in Nat /\ q \in Nat
  BY SlotOrder, SchedAssumption DEF TypeOK
<1>1. CASE Quiet
  <2>1. (\E c \in CPU : pc'[c] = "age" /\ best'[c] = q) <=> (\E c \in CPU : pc[c] = "age" /\ best[c] = q)
    BY <1>1 DEF Quiet
  <2>2. (\E c \in CPU : pc'[c] = "age" /\ slot'[c] <= q) <=> (\E c \in CPU : pc[c] = "age" /\ slot[c] <= q)
    BY <1>1 DEF Quiet
  <2>3. wait_ticks'[q] = wait_ticks[q] \/ wait_ticks'[q] = 0
    BY <1>1 DEF Quiet
  <2> QED
    BY <1>0, <2>1, <2>2, <2>3 DEF Due
<1>2. ASSUME NEW c \in CPU, Age(c) PROVE Due'[q] <= Due[q]
  <2>0. pc[c] = "age"
    BY <1>2 DEF Age
  <2>1. pc[c] = "age" /\ \A d \in CPU : pc[d] = "age" => d = c
    BY <2>0, OneChooser DEF Scanning
  <2>2. pc' = pc /\ best' = best /\ slot'[c] = slot[c] + 1
    BY <1>2 DEF Age, TypeOK
  <2>3. slot[c] \in Nat
    BY SlotOrder DEF TypeOK
  <2>4. Due[q] = IF best[c] = q THEN 0 ELSE IF slot[c] <= q THEN wait_ticks[q] + 1 ELSE wait_ticks[q]
    BY <2>1 DEF Due
  <2>5. Due'[q] = IF best[c] = q THEN 0 ELSE IF slot[c] + 1 <= q THEN wait_ticks'[q] + 1 ELSE wait_ticks'[q]
    BY <2>1, <2>2 DEF Due
  <2>6. CASE q = slot[c] /\ q # best[c]
    <3>1. wait_ticks'[q] = wait_ticks[q] \/ wait_ticks'[q] = Lesser(wait_ticks[q] + 1, WaitCap)
      BY <1>2, <2>6 DEF Age, TypeOK
    <3>2. wait_ticks'[q] <= wait_ticks[q] + 1
      BY <1>0, <3>1, SchedAssumption DEF Lesser
    <3> QED
      BY <1>0, <2>3, <2>4, <2>5, <2>6, <3>2
  <2>7. CASE ~(q = slot[c] /\ q # best[c])
    <3>1. wait_ticks'[q] = wait_ticks[q]
      BY <1>2, <2>7 DEF Age, TypeOK
    <3>2. q = best[c] \/ (slot[c] <= q <=> slot[c] + 1 <= q)
      BY <1>0, <2>3, <2>7
    <3>3. Due'[q] = Due[q]
      BY <2>4, <2>5, <3>1, <3>2
    <3>4. Due[q] \in Nat
      BY <1>0, <2>4
    <3> QED
      BY <3>3, <3>4
  <2> QED
    BY <2>6, <2>7
<1>3. ASSUME NEW c \in CPU, Dispatch(c) PROVE Due'[q] <= Due[q]
  <2>0. pc[c] = "age"
    BY <1>3 DEF Dispatch
  <2>1. pc[c] = "age" /\ \A d \in CPU : pc[d] = "age" => d = c
    BY <2>0, OneChooser DEF Scanning
  <2>2. \A d \in CPU : pc'[d] # "age"
    BY <1>3, <2>1 DEF Dispatch, TypeOK
  <2>3. ~(slot[c] <= q)
    <3>1. slot[c] > NPROC
      BY <1>3 DEF Dispatch
    <3>2. slot[c] \in Nat /\ NPROC \in Nat /\ q <= NPROC
      BY SlotOrder DEF TypeOK
    <3> QED
      BY <1>0, <3>1, <3>2
  <2>4. Due[q] = IF best[c] = q THEN 0 ELSE wait_ticks[q]
    BY <2>1, <2>3 DEF Due
  <2>5. Due'[q] = wait_ticks'[q]
    BY <2>2 DEF Due
  <2>6. wait_ticks'[q] = IF best[c] = q THEN 0 ELSE wait_ticks[q]
    BY <1>3 DEF Dispatch, TypeOK
  <2> QED
    BY <1>0, <2>4, <2>5, <2>6
<1> QED
  BY <1>1, <1>2, <1>3, StepKinds DEF Choose

(* The choice ends the scan: the chosen process is starved, or nobody is.  *)
LEMMA ChoiceStep ==
  ASSUME TypeOK, LockInv, Waiting, [Next]_vars,
         NEW c \in CPU, pc[c] = "scan", pc'[c] = "age"
  PROVE  /\ best'[c] \in Proc
         /\ wait_ticks[best'[c]] >= SCHED_WMAX \/ \A q \in Proc : wait_ticks[q] < SCHED_WMAX
         /\ Due = wait_ticks
         /\ Due' = [q \in Proc |-> IF q = best'[c] THEN 0 ELSE wait_ticks[q] + 1]
<1>1. Scan(c) \/ ScanEnd(c)
  <2>1. ~Quiet
    BY DEF Quiet
  <2>2. ASSUME NEW d \in CPU, Age(d) \/ Dispatch(d) PROVE FALSE
    BY <2>2 DEF TypeOK, Age, Dispatch
  <2>3. ASSUME NEW d \in CPU, Scan(d) \/ ScanEnd(d) PROVE d = c
    BY <2>3 DEF TypeOK, Scan, ScanEnd
  <2> QED
    BY <2>1, <2>2, <2>3, StepKinds DEF Choose
<1>0. /\ best[c] # 0 => best[c] \in Proc
      /\ slot[c] <= NPROC => slot[c] \in Proc
      /\ 0 \notin Proc /\ \A q \in Proc : 1 <= q
      /\ slot[c] > NPROC => \A q \in Proc : q < slot[c]
  <2>1. 0 \notin Proc /\ \A q \in Proc : 1 <= q
    BY SlotOrder
  <2>2. slot[c] > NPROC => \A q \in Proc : q < slot[c]
    <3> SUFFICES ASSUME slot[c] > NPROC, NEW q \in Proc PROVE q < slot[c]
      OBVIOUS
    <3>1. slot[c] \in Nat /\ NPROC \in Nat /\ q \in Nat /\ q <= NPROC
      BY SlotOrder DEF TypeOK
    <3> QED
      BY <3>1
  <2> QED
    BY <2>1, <2>2, Ranges DEF TypeOK
<1>2. \A d \in CPU : pc[d] # "age"
  BY OneChooser DEF Scanning
<1>3. Due = wait_ticks
  BY <1>2 DEF Due, TypeOK
<1>4. \A d \in CPU : pc'[d] = "age" => d = c
  BY <1>1, <1>2 DEF Scan, ScanEnd, TypeOK
<1>5. slot'[c] = 1 /\ wait_ticks' = wait_ticks
  BY <1>1 DEF Scan, ScanEnd, procs, TypeOK
<1>6. best'[c] \in Proc
  BY <1>0, <1>1 DEF Scan, ScanEnd, Prefer, TypeOK
<1>7. wait_ticks[best'[c]] >= SCHED_WMAX \/ \A q \in Proc : wait_ticks[q] < SCHED_WMAX
  BY <1>0, <1>1 DEF Scan, ScanEnd, Prefer, Starved, TypeOK, Waiting
<1>8. Due' = [q \in Proc |-> IF q = best'[c] THEN 0 ELSE wait_ticks[q] + 1]
  BY <1>0, <1>4, <1>5 DEF Due
<1> QED
  BY <1>3, <1>6, <1>7, <1>8

WaitInv == Waiting /\ Spread(Due) /\ BoundedWait

(* With at most SCHED_WMAX + 1 processes a step keeps the spread of the    *)
(* waiting times, and with it the bound.                                   *)
LEMMA WaitInvStep ==
  ASSUME NPROC <= SCHED_WMAX + 1, TypeOK, TypeOK', LockInv, LockInv', WaitInv, [Next]_vars
  PROVE  WaitInv'
<1>1. Waiting'
  BY WaitingStep DEF WaitInv
<1>2. Due \in [Proc -> Nat] /\ Due' \in [Proc -> Nat]
  <2>1. TypeOK' => (Due \in [Proc -> Nat])'
    BY DueType, PTL
  <2> QED
    BY <2>1, DueType
<1>3. Spread(Due')
  <2>1. CASE \A c \in CPU : ~(pc[c] = "scan" /\ pc'[c] = "age")
    <3>1. \A q \in Proc : Due'[q] <= Due[q]
      BY <2>1, DueStep DEF WaitInv
    <3> QED
      BY <1>2, <3>1, SpreadLess DEF WaitInv
  <2>2. ASSUME NEW c \in CPU, pc[c] = "scan", pc'[c] = "age" PROVE Spread(Due')
    <3>1. /\ best'[c] \in Proc
          /\ wait_ticks[best'[c]] >= SCHED_WMAX \/ \A q \in Proc : wait_ticks[q] < SCHED_WMAX
          /\ Due = wait_ticks
          /\ Due' = [q \in Proc |-> IF q = best'[c] THEN 0 ELSE wait_ticks[q] + 1]
      BY <2>2, ChoiceStep DEF WaitInv
    <3>2. /\ Due[best'[c]] >= SCHED_WMAX \/ \A q \in Proc : Due[q] < SCHED_WMAX
          /\ Due' = [q \in Proc |-> IF q = best'[c] THEN 0 ELSE Due[q] + 1]
      BY <3>1
    <3> QED
      BY <1>2, <3>1, <3>2, SpreadRound DEF WaitInv
  <2> QED
    BY <2>1, <2>2
<1>4. BoundedWait'
  <2> SUFFICES ASSUME NEW p \in Proc PROVE wait_ticks'[p] < SCHED_WMAX + NPROC
    BY DEF BoundedWait
  <2>0. /\ wait_ticks[p] \in Nat /\ wait_ticks'[p] \in Nat
        /\ SCHED_WMAX \in Nat /\ NPROC \in Nat /\ NPROC >= 1
    BY SchedAssumption DEF TypeOK
  <2>1. wait_ticks[p] < SCHED_WMAX + NPROC /\ Due[p] < SCHED_WMAX + NPROC
    BY <1>2, SpreadBounds DEF WaitInv, BoundedWait
  <2>2. wait_ticks'[p] <= wait_ticks[p] \/ wait_ticks'[p] <= Due[p]
    <3>1. ASSUME NEW c \in CPU, Age(c) PROVE wait_ticks'[p] <= wait_ticks[p] \/ wait_ticks'[p] <= Due[p]
      <4>1. CASE p = slot[c] /\ p # best[c] /\ state[p] = "RUNNABLE"
        <5>0. pc[c] = "age"
          BY <3>1 DEF Age
        <5>1. \A d \in CPU : pc[d] = "age" => d = c
          BY <5>0, OneChooser DEF Scanning
        <5>2. slot[c] <= p
          <6>1. p \in Nat
            BY SlotOrder
          <6> QED
            BY <6>1, <4>1
        <5>3. Due[p] = wait_ticks[p] + 1
          BY <4>1, <5>0, <5>1, <5>2 DEF Due
        <5>4. wait_ticks'[p] = Lesser(wait_ticks[p] + 1, WaitCap)
          BY <3>1, <4>1 DEF Age, TypeOK
        <5> QED
          BY <2>0, <5>3, <5>4, SchedAssumption DEF Lesser
      <4>2. CASE ~(p = slot[c] /\ p # best[c] /\ state[p] = "RUNNABLE")
        <5>1. wait_ticks'[p] = wait_ticks[p]
          BY <3>1, <4>2 DEF Age, TypeOK
        <5> QED
          BY <2>0, <5>1
      <4> QED
        BY <4>1, <4>2
    <3>2. ASSUME \A c \in CPU : ~Age(c) PROVE wait_ticks'[p] = wait_ticks[p] \/ wait_ticks'[p] = 0
      <4>1. CASE Quiet
        BY <4>1 DEF Quiet
      <4>2. ASSUME NEW c \in CPU, Dispatch(c) PROVE wait_ticks'[p] = wait_ticks[p] \/ wait_ticks'[p] = 0
        BY <4>2 DEF Dispatch, TypeOK
      <4>3. ASSUME NEW c \in CPU, Choose(c) PROVE wait_ticks'[p] = wait_ticks[p]
        BY <4>3 DEF Choose, Scan, ScanEnd, procs
      <4> QED
        BY <3>2, <4>1, <4>2, <4>3, StepKinds
    <3> QED
      BY <2>0, <3>1, <3>2
  <2>3. Due[p] \in Nat
    BY <1>2
  <2> QED
    BY <2>0, <2>1, <2>2, <2>3
<1> QED
  BY <1>1, <1>3, <1>4 DEF WaitInv

(* Initially nobody has waited. *)
LEMMA WaitInvInit == Init => WaitInv
<1> SUFFICES ASSUME Init PROVE WaitInv
  OBVIOUS
<1>0. 0 < SCHED_WMAX /\ 0 < SCHED_WMAX + NPROC /\ \A k \in 1 .. NPROC : ~(0 >= SCHED_WMAX + k)
  BY SchedAssumption
<1>1. Due = [q \in Proc |-> 0]
  BY DEF Init, Due
<1>2. Spread(Due)
  BY <1>0, <1>1 DEF Spread
<1>3. Waiting /\ BoundedWait
  BY <1>0 DEF Init, Waiting, BoundedWait
<1> QED
  BY <1>2, <1>3 DEF WaitInv

(* The starvation bound for every configuration: with at most SCHED_WMAX+1 *)
(* process slots in use, on any number of CPUs, with any priorities, no    *)
(* RUNNABLE process is passed over SCHED_WMAX + NPROC times.               *)
THEOREM WaitingIsBounded ==
  ASSUME NPROC <= SCHED_WMAX + 1
  PROVE  Spec => []BoundedWait
<1> DEFINE Inv == TypeOK /\ LockInv /\ WaitInv
<1>1. Init => Inv
  BY LockInvInit, WaitInvInit
<1>2. Inv /\ [Next]_vars => Inv'
  BY TypeStep, LockInvStep, WaitInvStep
<1>3. Inv => BoundedWait
  BY DEF WaitInv
<1> QED
  BY <1>1, <1>2, <1>3, PTL DEF Spec

=============================================================================
