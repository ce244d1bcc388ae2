----------------------------- MODULE PipeProofs -----------------------------
(***************************************************************************)
(* Pipes of every size between any number of processes: no wakeup is       *)
(* missed, the page lives exactly as long as an end is open, and the ring  *)
(* with its wrapping counters is a bounded queue.                          *)
(***************************************************************************)
EXTENDS Pipe, Integers, SequenceTheorems, TLAPS

Place == {"unborn", "user", "waitR", "sleepR", "asleepR", "lockR",
          "copyR", "loopW", "sleepW", "asleepW", "lockW"}
PipeType == [page : BOOLEAN, nread : Byte, nwrite : Byte,
             data : [0 .. PIPESIZE - 1 -> Byte],
             readopen : BOOLEAN, writeopen : BOOLEAN]
Holding == {"waitR", "sleepR", "copyR", "loopW", "sleepW"}
InRead == {"waitR", "sleepR", "asleepR", "lockR", "copyR"}
InWrite == {"loopW", "sleepW", "asleepW", "lockW"}

-----------------------------------------------------------------------------
(* pi->lock is held by the process at work on the pipe.                    *)
LockInv == \A p \in Proc : pc[p] \in Holding <=> lock = p

(* A process in a call has the end it was called with.                     *)
EndsInv ==
  \A p \in Proc : /\ pc[p] \in InRead => "r" \in ends[p]
                  /\ pc[p] \in InWrite => "w" \in ends[p]
                  /\ pc[p] = "unborn" => ends[p] = {}

(* readopen, writeopen and the page follow the descriptors.                *)
OpenInv ==
  /\ pi.page <=> \E p \in Proc : ends[p] # {}
  /\ pi.readopen <=> \E p \in Proc : "r" \in ends[p]
  /\ pi.writeopen <=> \E p \in Proc : "w" \in ends[p]

(* Bytes are counted during a write only.                                  *)
CountInv == \A p \in Proc : pc[p] \notin InWrite => i[p] = 0

(* Who goes to sleep, or sleeps, has a reason or someone to wake them; a   *)
(* writer that has put no byte owes nobody a wakeup.                       *)
SleepInv ==
  /\ \A p \in Proc : pc[p] = "sleepR" => Empty
  /\ \A p \in Proc : pc[p] = "sleepW" => Full
  /\ \A p \in Proc : pc[p] = "asleepR" =>
       Empty \/ untold \/ (lock # None /\ pc[lock] = "loopW" /\ i[lock] > 0)
  /\ \A p \in Proc : pc[p] = "asleepW" =>
       Full \/ (lock # None /\ pc[lock] = "copyR")

Inv == TypeOK /\ LockInv /\ EndsInv /\ OpenInv /\ CountInv /\ SleepInv

-----------------------------------------------------------------------------
(* The remainders of numbers below twice the divisor.                      *)
LEMMA ModSmall == ASSUME NEW u \in Nat, NEW x \in 0 .. u - 1 PROVE x % u = x
  OBVIOUS

LEMMA ModOver ==
  ASSUME NEW u \in Nat \ {0}, NEW x \in u .. 2 * u - 1 PROVE x % u = x - u
  OBVIOUS

(* Division with remainder.                                                *)
LEMMA ModIs ==
  ASSUME NEW u \in Nat \ {0}, NEW x \in Nat
  PROVE  x = (x \div u) * u + (x % u) /\ x % u \in 0 .. u - 1 /\ x \div u \in Int
  OBVIOUS

(* No multiple of a number lies strictly between zero and it.              *)
LEMMA NoMultiple ==
  ASSUME NEW u \in Nat \ {0}, NEW z \in Int PROVE z * u \notin 1 .. u - 1
  OBVIOUS

(* A counter that moves on by less than a whole turn.                      *)
LEMMA Wrap ==
  ASSUME NEW u \in Nat \ {0}, NEW a \in 0 .. u - 1, NEW k \in 0 .. u - 1
  PROVE  (a + k) % u = IF a + k < u THEN a + k ELSE a + k - u
  BY ModSmall, ModOver

(* The way from one counter to another.                                    *)
LEMMA Distance ==
  ASSUME NEW u \in Nat \ {0}, NEW a \in 0 .. u - 1, NEW b \in 0 .. u - 1
  PROVE  (b + u - a) % u = IF a <= b THEN b - a ELSE b + u - a
  BY ModSmall, ModOver

(* Counters less than PIPESIZE apart use different slots, also across the  *)
(* wrap: PIPESIZE divides 2^32.                                            *)
LEMMA SlotsDiffer ==
  ASSUME NEW P \in Nat \ {0}, NEW U \in Nat \ {0}, U % P = 0,
         NEW x \in Nat, NEW y \in Nat, NEW d \in 1 .. P - 1,
         y - x = d \/ y - x = d - U
  PROVE  x % P # y % P
<1>1. PICK m \in Int : U = m * P + (U % P)
  BY ModIs
<1>2. PICK v \in Int : x = v * P + (x % P)
  BY ModIs
<1>3. PICK w \in Int : y = w * P + (y % P)
  BY ModIs
<1>4. SUFFICES ASSUME x % P = y % P PROVE FALSE
  OBVIOUS
<1>5. y - x = w * P - v * P /\ U = m * P
  BY <1>1, <1>2, <1>3, <1>4, ModIs
<1>6. w * P - v * P = (w - v) * P /\ (w * P - v * P) + m * P = ((w - v) + m) * P
  OBVIOUS
<1>7. d = (w - v) * P \/ d = ((w - v) + m) * P
  BY <1>5, <1>6
<1> QED
  BY <1>7, NoMultiple

(* What is used of the constants, but for the one fact about remainders.   *)
LEMMA Sizes ==
  /\ PIPESIZE \in Nat \ {0} /\ UINT \in Nat \ {0} /\ UINT > PIPESIZE
  /\ None \notin Proc /\ First \in Proc /\ Count \subseteq Nat
  BY PipeAssumption

(* Remainders are counters, and places in the ring.                        *)
LEMMA Remainders ==
  ASSUME NEW x \in Nat PROVE x % UINT \in Byte /\ x % PIPESIZE \in 0 .. PIPESIZE - 1
  BY ModIs, Sizes DEF Byte

-----------------------------------------------------------------------------
(* wakeup, as a table.                                                     *)
LEMMA WokenIs ==
  ASSUME NEW a \in [Proc -> Place]
  PROVE  /\ Woken(a, "asleepR") = [q \in Proc |-> IF a[q] = "asleepR" THEN "lockR" ELSE a[q]]
         /\ Woken(a, "asleepW") = [q \in Proc |-> IF a[q] = "asleepW" THEN "lockW" ELSE a[q]]
  BY DEF Woken, Resume

(* The end of a call that wakes the other side.                            *)
LEMMA ReturnIs ==
  ASSUME NEW p \in Proc, pc \in [Proc -> Place]
  PROVE  /\ Return(p, Woken(pc, "asleepR")) =>
              pc' = [q \in Proc |-> IF q = p THEN "user"
                                   ELSE IF pc[q] = "asleepR" THEN "lockR" ELSE pc[q]]
         /\ Return(p, Woken(pc, "asleepW")) =>
              pc' = [q \in Proc |-> IF q = p THEN "user"
                                   ELSE IF pc[q] = "asleepW" THEN "lockW" ELSE pc[q]]
  BY WokenIs DEF Return

(* The ends a process can have.                                            *)
LEMMA SomeEnd == ASSUME NEW S \in SUBSET End PROVE S # {} <=> "r" \in S \/ "w" \in S
  BY DEF End

(* A pipe just made, and one that is gone, is empty and not full.          *)
LEMMA NoPipeIs ==
  NoPipe \in PipeType /\ NoPipe.nread = NoPipe.nwrite
  BY Sizes DEF NoPipe, PipeType, Byte

(* The first process alone, no pipe.                                       *)
LEMMA InitInv == ASSUME Init PROVE Inv
<1>1. TypeOK
  <2>1. /\ lock \in Proc \cup {None} /\ ends \in [Proc -> SUBSET End]
        /\ pc \in [Proc -> Place]
    BY DEF Init, Place
  <2>2. /\ n \in [Proc -> Count \cup {0}] /\ i \in [Proc -> Nat]
        /\ \A p \in Proc : i[p] <= n[p]
    BY DEF Init
  <2>3. killed \in [Proc -> BOOLEAN] /\ untold \in BOOLEAN /\ pi \in PipeType
    BY NoPipeIs DEF Init
  <2> QED
    BY <2>1, <2>2, <2>3 DEF TypeOK, PipeType, Place
<1>2. LockInv /\ EndsInv /\ CountInv /\ SleepInv
  BY Sizes DEF Init, LockInv, EndsInv, CountInv, SleepInv, Holding, InRead, InWrite
<1>3. OpenInv
  BY DEF Init, OpenInv, NoPipe
<1> QED
  BY <1>1, <1>2, <1>3 DEF Inv

(* The bytes asked for and written.                                        *)
LEMMA Counted ==
  ASSUME Inv, NEW r \in Proc
  PROVE  /\ n[r] \in Nat /\ n[r] \in Count \cup {0} /\ i[r] \in Nat /\ i[r] <= n[r]
         /\ pc[r] \notin InWrite => i[r] = 0
<1>1. n[r] \in Count \cup {0} /\ i[r] \in Nat /\ i[r] <= n[r]
  BY DEF Inv, TypeOK
<1>2. n[r] \in Nat
  BY <1>1, Sizes
<1> QED
  BY <1>1, <1>2 DEF Inv, CountInv

(* pipealloc.                                                              *)
LEMMA PipeAllocStep == ASSUME Inv, NEW p \in Proc, PipeAlloc(p) PROVE Inv'
<1> USE DEF PipeAlloc, End
<1>1. pi' \in PipeType
  BY NoPipeIs DEF Inv, TypeOK, PipeType
<1>2. lock' \in Proc \cup {None} /\ ends' \in [Proc -> SUBSET End] /\ pc' \in [Proc -> Place]
  BY DEF Inv, TypeOK, Place
<1>3. /\ n' \in [Proc -> Count \cup {0}] /\ i' \in [Proc -> Nat]
      /\ \A r \in Proc : i'[r] <= n'[r]
  BY DEF Inv, TypeOK
<1>4. killed' \in [Proc -> BOOLEAN] /\ untold' \in BOOLEAN
  BY DEF Inv, TypeOK
<1>5. TypeOK'
  BY <1>1, <1>2, <1>3, <1>4 DEF TypeOK, PipeType, Place
<1>6. LockInv'
  BY DEF Inv, TypeOK, LockInv, Holding
<1>7. EndsInv'
  BY DEF Inv, TypeOK, EndsInv, InRead, InWrite
<1>8. OpenInv'
  BY DEF Inv, TypeOK, OpenInv
<1>9. CountInv'
  BY DEF Inv, TypeOK, InWrite, CountInv
<1>10. SleepInv'
  BY DEF Inv, SleepInv, InWrite, EndsInv, InRead, OpenInv
<1> QED
  BY <1>5, <1>6, <1>7, <1>8, <1>9, <1>10 DEF Inv

(* kfork.                                                                  *)
LEMMA ForkStep == ASSUME Inv, NEW p \in Proc, NEW q \in Proc, Fork(p, q) PROVE Inv'
<1> USE DEF Fork
<1>1. pi' \in PipeType
  BY DEF Inv, TypeOK, PipeType
<1>2. lock' \in Proc \cup {None} /\ ends' \in [Proc -> SUBSET End] /\ pc' \in [Proc -> Place]
  BY DEF Inv, TypeOK, Place
<1>3. /\ n' \in [Proc -> Count \cup {0}] /\ i' \in [Proc -> Nat]
      /\ \A r \in Proc : i'[r] <= n'[r]
  BY DEF Inv, TypeOK
<1>4. killed' \in [Proc -> BOOLEAN] /\ untold' \in BOOLEAN
  BY DEF Inv, TypeOK
<1>5. TypeOK'
  BY <1>1, <1>2, <1>3, <1>4 DEF TypeOK, PipeType, Place
<1>6. LockInv'
  BY DEF Inv, TypeOK, LockInv, Holding
<1>7. EndsInv'
  BY DEF Inv, TypeOK, EndsInv, InRead, InWrite
<1>8. OpenInv'
  BY DEF Inv, TypeOK, EndsInv, OpenInv
<1>9. CountInv'
  BY DEF Inv, TypeOK, InWrite, CountInv
<1>10. SleepInv'
  BY DEF Inv, SleepInv, Empty, Full
<1> QED
  BY <1>5, <1>6, <1>7, <1>8, <1>9, <1>10 DEF Inv

(* kkill.                                                                  *)
LEMMA KillStep == ASSUME Inv, NEW p \in Proc, Kill(p) PROVE Inv'
<1> USE DEF Kill, Resume
<1>1. pi' \in PipeType
  BY DEF Inv, TypeOK, PipeType
<1>2. lock' \in Proc \cup {None} /\ ends' \in [Proc -> SUBSET End] /\ pc' \in [Proc -> Place]
  BY DEF Inv, TypeOK, Place
<1>3. /\ n' \in [Proc -> Count \cup {0}] /\ i' \in [Proc -> Nat]
      /\ \A r \in Proc : i'[r] <= n'[r]
  BY DEF Inv, TypeOK
<1>4. killed' \in [Proc -> BOOLEAN] /\ untold' \in BOOLEAN
  BY DEF Inv, TypeOK
<1>5. TypeOK'
  BY <1>1, <1>2, <1>3, <1>4 DEF TypeOK, PipeType, Place
<1>6. LockInv'
  BY DEF Inv, TypeOK, LockInv, Holding
<1>7. EndsInv'
  BY DEF Inv, TypeOK, EndsInv, InRead, InWrite
<1>8. OpenInv'
  BY DEF Inv, OpenInv
<1>9. CountInv'
  BY DEF Inv, TypeOK, InWrite, CountInv
<1>10. SleepInv'
  BY DEF Inv, SleepInv, Empty, Full
<1> QED
  BY <1>5, <1>6, <1>7, <1>8, <1>9, <1>10 DEF Inv

(* piperead takes pi->lock.                                                *)
LEMMA CallReadStep == ASSUME Inv, NEW p \in Proc, Call(p, "r", "waitR") PROVE Inv'
<1> USE DEF Call
<1>1. pi' \in PipeType
  BY DEF Inv, TypeOK, PipeType
<1>2. lock' \in Proc \cup {None} /\ ends' \in [Proc -> SUBSET End] /\ pc' \in [Proc -> Place]
  BY DEF Inv, TypeOK, Place
<1>3. /\ n' \in [Proc -> Count \cup {0}] /\ i' \in [Proc -> Nat]
      /\ \A r \in Proc : i'[r] <= n'[r]
  <2>1. PICK k \in Count : n' = [n EXCEPT ![p] = k]
    OBVIOUS
  <2>2. k \in Nat /\ i[p] = 0 /\ i' = i
    BY Sizes, Counted DEF InWrite
  <2> QED
    BY <2>1, <2>2, Counted DEF Inv, TypeOK
<1>4. killed' \in [Proc -> BOOLEAN] /\ untold' \in BOOLEAN
  BY DEF Inv, TypeOK
<1>5. TypeOK'
  BY <1>1, <1>2, <1>3, <1>4 DEF TypeOK, PipeType, Place
<1>6. LockInv'
  BY Sizes DEF Inv, TypeOK, LockInv, Holding
<1>7. EndsInv'
  BY DEF Inv, TypeOK, EndsInv, InRead, InWrite
<1>8. OpenInv'
  BY DEF Inv, OpenInv
<1>9. CountInv'
  BY DEF Inv, TypeOK, InWrite, CountInv
<1>10. SleepInv'
  BY DEF Inv, SleepInv, Empty, Full
<1> QED
  BY <1>5, <1>6, <1>7, <1>8, <1>9, <1>10 DEF Inv

(* pipewrite takes pi->lock.                                               *)
LEMMA CallWriteStep == ASSUME Inv, NEW p \in Proc, Call(p, "w", "loopW") PROVE Inv'
<1> USE DEF Call
<1>1. pi' \in PipeType
  BY DEF Inv, TypeOK, PipeType
<1>2. lock' \in Proc \cup {None} /\ ends' \in [Proc -> SUBSET End] /\ pc' \in [Proc -> Place]
  BY DEF Inv, TypeOK, Place
<1>3. /\ n' \in [Proc -> Count \cup {0}] /\ i' \in [Proc -> Nat]
      /\ \A r \in Proc : i'[r] <= n'[r]
  <2>1. PICK k \in Count : n' = [n EXCEPT ![p] = k]
    OBVIOUS
  <2>2. k \in Nat /\ i[p] = 0 /\ i' = i
    BY Sizes, Counted DEF InWrite
  <2> QED
    BY <2>1, <2>2, Counted DEF Inv, TypeOK
<1>4. killed' \in [Proc -> BOOLEAN] /\ untold' \in BOOLEAN
  BY DEF Inv, TypeOK
<1>5. TypeOK'
  BY <1>1, <1>2, <1>3, <1>4 DEF TypeOK, PipeType, Place
<1>6. LockInv'
  BY Sizes DEF Inv, TypeOK, LockInv, Holding
<1>7. EndsInv'
  BY DEF Inv, TypeOK, EndsInv, InRead, InWrite
<1>8. OpenInv'
  BY DEF Inv, OpenInv
<1>9. CountInv'
  BY DEF Inv, TypeOK, InWrite, CountInv
<1>10. SleepInv'
  BY DEF Inv, SleepInv, Empty, Full
<1> QED
  BY <1>5, <1>6, <1>7, <1>8, <1>9, <1>10 DEF Inv

(* A sleeper takes pi->lock back.                                          *)
LEMMA RelockStep == ASSUME Inv, NEW p \in Proc, Relock(p) PROVE Inv'
<1> USE DEF Relock
<1>1. pi' \in PipeType
  BY DEF Inv, TypeOK, PipeType
<1>2. lock' \in Proc \cup {None} /\ ends' \in [Proc -> SUBSET End] /\ pc' \in [Proc -> Place]
  BY DEF Inv, TypeOK, Place
<1>3. /\ n' \in [Proc -> Count \cup {0}] /\ i' \in [Proc -> Nat]
      /\ \A r \in Proc : i'[r] <= n'[r]
  BY DEF Inv, TypeOK
<1>4. killed' \in [Proc -> BOOLEAN] /\ untold' \in BOOLEAN
  BY DEF Inv, TypeOK
<1>5. TypeOK'
  BY <1>1, <1>2, <1>3, <1>4 DEF TypeOK, PipeType, Place
<1>6. LockInv'
  BY Sizes DEF Inv, TypeOK, LockInv, Holding
<1>7. EndsInv'
  BY DEF Inv, TypeOK, EndsInv, InRead, InWrite
<1>8. OpenInv'
  BY DEF Inv, OpenInv
<1>9. CountInv'
  BY DEF Inv, TypeOK, InWrite, CountInv
<1>10. SleepInv'
  BY DEF Inv, SleepInv, Empty, Full
<1> QED
  BY <1>5, <1>6, <1>7, <1>8, <1>9, <1>10 DEF Inv

(* sleep on the pipe.                                                      *)
LEMMA SleepStep == ASSUME Inv, NEW p \in Proc, Sleep(p) PROVE Inv'
<1> USE DEF Sleep
<1>1. pi' \in PipeType
  BY DEF Inv, TypeOK, PipeType
<1>2. lock' \in Proc \cup {None} /\ ends' \in [Proc -> SUBSET End] /\ pc' \in [Proc -> Place]
  BY DEF Inv, TypeOK, Place
<1>3. /\ n' \in [Proc -> Count \cup {0}] /\ i' \in [Proc -> Nat]
      /\ \A r \in Proc : i'[r] <= n'[r]
  BY DEF Inv, TypeOK
<1>4. killed' \in [Proc -> BOOLEAN] /\ untold' \in BOOLEAN
  BY DEF Inv, TypeOK
<1>5. TypeOK'
  BY <1>1, <1>2, <1>3, <1>4 DEF TypeOK, PipeType, Place
<1>6. LockInv'
  BY Sizes DEF Inv, TypeOK, LockInv, Holding
<1>7. EndsInv'
  BY DEF Inv, TypeOK, EndsInv, InRead, InWrite
<1>8. OpenInv'
  BY DEF Inv, OpenInv
<1>9. CountInv'
  BY DEF Inv, TypeOK, InWrite, CountInv
<1>10. SleepInv'
  BY DEF Inv, LockInv, Holding, SleepInv, Empty, Full
<1> QED
  BY <1>5, <1>6, <1>7, <1>8, <1>9, <1>10 DEF Inv

(* piperead's loop.                                                        *)
LEMMA ReadWaitStep == ASSUME Inv, NEW p \in Proc, ReadWait(p) PROVE Inv'
<1> USE DEF ReadWait, Return
<1>1. pi' \in PipeType
  BY DEF Inv, TypeOK, PipeType
<1>2. lock' \in Proc \cup {None} /\ ends' \in [Proc -> SUBSET End] /\ pc' \in [Proc -> Place]
  BY DEF Inv, TypeOK, Place
<1>3. /\ n' \in [Proc -> Count \cup {0}] /\ i' \in [Proc -> Nat]
      /\ \A r \in Proc : i'[r] <= n'[r]
  <2>1. CASE UNCHANGED <<n, i>>
    BY <2>1 DEF Inv, TypeOK
  <2>2. CASE n' = [n EXCEPT ![p] = 0] /\ i' = [i EXCEPT ![p] = 0]
    BY <2>2 DEF Inv, TypeOK
  <2> QED
    BY <2>1, <2>2
<1>4. killed' \in [Proc -> BOOLEAN] /\ untold' \in BOOLEAN
  BY DEF Inv, TypeOK
<1>5. TypeOK'
  BY <1>1, <1>2, <1>3, <1>4 DEF TypeOK, PipeType, Place
<1>6. LockInv'
  BY Sizes DEF Inv, TypeOK, LockInv, Holding
<1>7. EndsInv'
  BY DEF Inv, TypeOK, EndsInv, InRead, InWrite
<1>8. OpenInv'
  BY DEF Inv, OpenInv
<1>9. CountInv'
  BY DEF Inv, TypeOK, InWrite, CountInv
<1>10. SleepInv'
  BY DEF Inv, TypeOK, SleepInv, LockInv, Holding, InWrite, EndsInv, Empty, Full, OpenInv
<1> QED
  BY <1>5, <1>6, <1>7, <1>8, <1>9, <1>10 DEF Inv

(* pipewrite puts a byte.                                                  *)
LEMMA WriteByteStep == ASSUME Inv, NEW p \in Proc, WriteByte(p) PROVE Inv'
<1> USE DEF WriteByte, Writing
<1>1. pi' \in PipeType
  <2>1. pi \in PipeType /\ pi.nwrite \in Byte /\ pi.nwrite \in Nat
    BY Sizes DEF Inv, TypeOK, PipeType, Byte
  <2>2. pi.nwrite % PIPESIZE \in 0 .. PIPESIZE - 1 /\ Bump(pi.nwrite) \in Byte
    BY <2>1, Remainders DEF Bump
  <2> QED
    BY <2>1, <2>2 DEF PipeType
<1>2. lock' \in Proc \cup {None} /\ ends' \in [Proc -> SUBSET End] /\ pc' \in [Proc -> Place]
  BY DEF Inv, TypeOK, Place
<1>3. /\ n' \in [Proc -> Count \cup {0}] /\ i' \in [Proc -> Nat]
      /\ \A r \in Proc : i'[r] <= n'[r]
  BY Counted DEF Inv, TypeOK
<1>4. killed' \in [Proc -> BOOLEAN] /\ untold' \in BOOLEAN
  BY DEF Inv, TypeOK
<1>5. TypeOK'
  BY <1>1, <1>2, <1>3, <1>4 DEF TypeOK, PipeType, Place
<1>6. LockInv'
  BY DEF Inv, TypeOK, LockInv, Holding
<1>7. EndsInv'
  BY DEF Inv, TypeOK, EndsInv, InRead, InWrite
<1>8. OpenInv'
  BY DEF Inv, OpenInv
<1>9. CountInv'
  BY DEF Inv, TypeOK, InWrite, CountInv
<1>10. SleepInv'
  BY Sizes DEF Inv, TypeOK, SleepInv, LockInv, Holding
<1> QED
  BY <1>5, <1>6, <1>7, <1>8, <1>9, <1>10 DEF Inv

(* pipewrite gives up.                                                     *)
LEMMA WriteRefusedStep == ASSUME Inv, NEW p \in Proc, WriteRefused(p) PROVE Inv'
<1> USE DEF WriteRefused, Writing, Return
<1>1. pi' \in PipeType
  BY DEF Inv, TypeOK, PipeType
<1>2. lock' \in Proc \cup {None} /\ ends' \in [Proc -> SUBSET End] /\ pc' \in [Proc -> Place]
  BY DEF Inv, TypeOK, Place
<1>3. /\ n' \in [Proc -> Count \cup {0}] /\ i' \in [Proc -> Nat]
      /\ \A r \in Proc : i'[r] <= n'[r]
  BY DEF Inv, TypeOK
<1>4. killed' \in [Proc -> BOOLEAN] /\ untold' \in BOOLEAN
  BY DEF Inv, TypeOK
<1>5. TypeOK'
  BY <1>1, <1>2, <1>3, <1>4 DEF TypeOK, PipeType, Place
<1>6. LockInv'
  BY Sizes DEF Inv, TypeOK, LockInv, Holding
<1>7. EndsInv'
  BY DEF Inv, TypeOK, EndsInv, InRead, InWrite
<1>8. OpenInv'
  BY DEF Inv, OpenInv
<1>9. CountInv'
  BY DEF Inv, TypeOK, InWrite, CountInv
<1>10. SleepInv'
  BY DEF Inv, TypeOK, SleepInv, LockInv, Holding, Empty, Full
<1> QED
  BY <1>5, <1>6, <1>7, <1>8, <1>9, <1>10 DEF Inv

(* pipewrite finds the ring full.                                          *)
LEMMA WriteFullStep == ASSUME Inv, NEW p \in Proc, WriteFull(p) PROVE Inv'
<1> USE DEF WriteFull, Writing
<1>0. /\ pc' = [q \in Proc |-> IF q = p THEN "sleepW"
                               ELSE IF pc[q] = "asleepR" THEN "lockR" ELSE pc[q]]
      /\ lock = p /\ \A q \in Proc : q # p => pc[q] \notin Holding
  <2>1. pc \in [Proc -> Place]
    BY DEF Inv, TypeOK, Place
  <2>2. pc' = [q \in Proc |-> IF q = p THEN "sleepW"
                              ELSE IF pc[q] = "asleepR" THEN "lockR" ELSE pc[q]]
    BY <2>1, WokenIs
  <2> QED
    BY <2>2, Sizes DEF Inv, LockInv, Holding
<1>1. pi' \in PipeType
  BY DEF Inv, TypeOK, PipeType
<1>2. lock' \in Proc \cup {None} /\ ends' \in [Proc -> SUBSET End] /\ pc' \in [Proc -> Place]
  BY <1>0 DEF Inv, TypeOK, Place
<1>3. /\ n' \in [Proc -> Count \cup {0}] /\ i' \in [Proc -> Nat]
      /\ \A r \in Proc : i'[r] <= n'[r]
  BY DEF Inv, TypeOK
<1>4. killed' \in [Proc -> BOOLEAN] /\ untold' \in BOOLEAN
  BY DEF Inv, TypeOK
<1>5. TypeOK'
  BY <1>1, <1>2, <1>3, <1>4 DEF TypeOK, PipeType, Place
<1>6. LockInv'
  BY <1>0 DEF Inv, TypeOK, LockInv, Holding
<1>7. EndsInv'
  BY <1>0 DEF Inv, TypeOK, EndsInv, InRead, InWrite
<1>8. OpenInv'
  BY <1>0 DEF Inv, OpenInv
<1>9. CountInv'
  BY <1>0 DEF Inv, TypeOK, InWrite, CountInv
<1>10. SleepInv'
  BY <1>0 DEF Inv, SleepInv, Empty, Full
<1> QED
  BY <1>5, <1>6, <1>7, <1>8, <1>9, <1>10 DEF Inv

(* pipewrite ends.                                                         *)
LEMMA WriteDoneStep == ASSUME Inv, NEW p \in Proc, WriteDone(p) PROVE Inv'
<1> USE DEF WriteDone, Return
<1>0. /\ pc' = [q \in Proc |-> IF q = p THEN "user"
                               ELSE IF pc[q] = "asleepR" THEN "lockR" ELSE pc[q]]
      /\ lock = p /\ \A q \in Proc : q # p => pc[q] \notin Holding
  <2>1. pc \in [Proc -> Place]
    BY DEF Inv, TypeOK, Place
  <2>2. pc' = [q \in Proc |-> IF q = p THEN "user"
                              ELSE IF pc[q] = "asleepR" THEN "lockR" ELSE pc[q]]
    BY <2>1, ReturnIs
  <2> QED
    BY <2>2, Sizes DEF Inv, LockInv, Holding
<1>1. pi' \in PipeType
  BY DEF Inv, TypeOK, PipeType
<1>2. lock' \in Proc \cup {None} /\ ends' \in [Proc -> SUBSET End] /\ pc' \in [Proc -> Place]
  BY <1>0 DEF Inv, TypeOK, Place
<1>3. /\ n' \in [Proc -> Count \cup {0}] /\ i' \in [Proc -> Nat]
      /\ \A r \in Proc : i'[r] <= n'[r]
  BY DEF Inv, TypeOK
<1>4. killed' \in [Proc -> BOOLEAN] /\ untold' \in BOOLEAN
  BY DEF Inv, TypeOK
<1>5. TypeOK'
  BY <1>1, <1>2, <1>3, <1>4 DEF TypeOK, PipeType, Place
<1>6. LockInv'
  BY <1>0, Sizes DEF Inv, TypeOK, LockInv, Holding
<1>7. EndsInv'
  BY <1>0 DEF Inv, TypeOK, EndsInv, InRead, InWrite
<1>8. OpenInv'
  BY <1>0 DEF Inv, OpenInv
<1>9. CountInv'
  BY <1>0 DEF Inv, TypeOK, InWrite, CountInv
<1>10. SleepInv'
  BY <1>0 DEF Inv, SleepInv, Empty, Full
<1> QED
  BY <1>5, <1>6, <1>7, <1>8, <1>9, <1>10 DEF Inv

(* piperead copies and ends.                                               *)
LEMMA ReadCopyStep == ASSUME Inv, NEW p \in Proc, ReadCopy(p) PROVE Inv'
<1> USE DEF ReadCopy, Return
<1>0. /\ pc' = [q \in Proc |-> IF q = p THEN "user"
                               ELSE IF pc[q] = "asleepW" THEN "lockW" ELSE pc[q]]
      /\ lock = p /\ \A q \in Proc : q # p => pc[q] \notin Holding
  <2>1. pc \in [Proc -> Place]
    BY DEF Inv, TypeOK, Place
  <2>2. pc' = [q \in Proc |-> IF q = p THEN "user"
                              ELSE IF pc[q] = "asleepW" THEN "lockW" ELSE pc[q]]
    BY <2>1, ReturnIs
  <2> QED
    BY <2>2, Sizes DEF Inv, LockInv, Holding
<1>1. pi' \in PipeType
  <2>1. pi \in PipeType /\ pi.nread \in Nat
    BY Sizes DEF Inv, TypeOK, PipeType, Byte
  <2>2. PICK k \in Nat : pi' = [pi EXCEPT !.nread = (@ + k) % UINT]
    BY Counted
  <2>3. (pi.nread + k) % UINT \in Byte
    BY <2>1, Remainders
  <2> QED
    BY <2>1, <2>2, <2>3 DEF PipeType
<1>2. lock' \in Proc \cup {None} /\ ends' \in [Proc -> SUBSET End] /\ pc' \in [Proc -> Place]
  BY <1>0 DEF Inv, TypeOK, Place
<1>3. /\ n' \in [Proc -> Count \cup {0}] /\ i' \in [Proc -> Nat]
      /\ \A r \in Proc : i'[r] <= n'[r]
  BY DEF Inv, TypeOK
<1>4. killed' \in [Proc -> BOOLEAN] /\ untold' \in BOOLEAN
  BY DEF Inv, TypeOK
<1>5. TypeOK'
  BY <1>1, <1>2, <1>3, <1>4 DEF TypeOK, PipeType, Place
<1>6. LockInv'
  BY <1>0, Sizes DEF Inv, TypeOK, LockInv, Holding
<1>7. EndsInv'
  BY <1>0 DEF Inv, TypeOK, EndsInv, InRead, InWrite
<1>8. OpenInv'
  BY <1>0 DEF Inv, OpenInv
<1>9. CountInv'
  BY <1>0 DEF Inv, TypeOK, InWrite, CountInv
<1>10. SleepInv'
  <2>3. Empty => Empty'
    <3> SUFFICES ASSUME Empty PROVE Empty'
      OBVIOUS
    <3>1. pi \in PipeType /\ pi.nread \in Byte /\ pi.nread \in Nat /\ pi.nwrite = pi.nread
      BY Sizes DEF Inv, TypeOK, PipeType, Byte, Empty
    <3>2. Len(Contents) = 0
      <4>1. (pi.nread + UINT - pi.nread) % UINT = 0
        BY <3>1, Distance, Sizes DEF Byte
      <4>2. Contents = <<>>
        BY <3>1, <4>1 DEF Contents
      <4> QED
        BY <4>2
    <3>3. pi' = [pi EXCEPT !.nread = (@ + 0) % UINT]
      BY <3>2, Counted
    <3>4. (pi.nread + 0) % UINT = pi.nread
      BY <3>1, ModSmall, Sizes DEF Byte
    <3> QED
      BY <3>1, <3>3, <3>4 DEF PipeType, Empty
  <2>4. Empty' \/ untold' \/ (~Empty /\ ~untold)
    BY <2>3 DEF Empty, Inv, TypeOK
  <2>5. \A q \in Proc : pc'[q] = "asleepR" => Empty' \/ untold'
    BY <1>0, <2>4 DEF Inv, SleepInv
  <2> QED
    BY <1>0, <2>5 DEF SleepInv, Holding
<1> QED
  BY <1>5, <1>6, <1>7, <1>8, <1>9, <1>10 DEF Inv

(* close: the last descriptor of an end wakes the other side.              *)
LEMMA CloseStep ==
  ASSUME Inv, NEW p \in Proc, NEW e \in End, Close(p, e) PROVE Inv'
<1> USE Sizes, WokenIs DEF Close
<1>1. CASE \E q \in Proc \ {p} : e \in ends[q]
  <2> USE <1>1
  <2>0. UNCHANGED <<pi, pc, untold>>
    OBVIOUS
  <2>1. TypeOK'
    BY <2>0 DEF Inv, TypeOK
  <2>2. LockInv' /\ CountInv' /\ SleepInv'
    BY <2>0 DEF Inv, LockInv, CountInv, SleepInv, Empty, Full
  <2>3. EndsInv'
    BY <2>0 DEF Inv, TypeOK, EndsInv, InRead, InWrite
  <2>4. OpenInv'
    BY <2>0 DEF Inv, TypeOK, OpenInv, End
  <2> QED
    BY <2>1, <2>2, <2>3, <2>4 DEF Inv
<1>2. CASE \A q \in Proc \ {p} : e \notin ends[q]
  <2> USE <1>2
  <2>0. PipeClose(p, e)
    OBVIOUS
  <2>1. pc' = [q \in Proc |-> IF e = "w" /\ pc[q] = "asleepR" THEN "lockR"
                              ELSE IF e = "r" /\ pc[q] = "asleepW" THEN "lockW" ELSE pc[q]]
    <3>1. CASE e = "w"
      BY <2>0, <3>1 DEF PipeClose, OtherSide, Inv, TypeOK, Place
    <3>2. CASE e = "r"
      BY <2>0, <3>2 DEF PipeClose, OtherSide, Inv, TypeOK, Place
    <3> QED
      BY <3>1, <3>2 DEF End
  <2>2. ends' = [ends EXCEPT ![p] = @ \ {e}] /\ lock' = lock /\ lock = None
    BY <2>0 DEF PipeClose
  <2>3. pi' = IF Shut(e).readopen \/ Shut(e).writeopen THEN Shut(e) ELSE NoPipe
    BY <2>0 DEF PipeClose
  <2>4. TypeOK'
    <3>1. pi' \in PipeType
      BY <2>3, NoPipeIs DEF Inv, TypeOK, PipeType, Shut
    <3>2. ends' \in [Proc -> SUBSET End] /\ pc' \in [Proc -> Place]
      BY <2>1, <2>2 DEF Inv, TypeOK, Place
    <3>3. untold' \in BOOLEAN
      BY <2>0 DEF PipeClose
    <3> QED
      BY <3>1, <3>2, <3>3, <2>2 DEF Inv, TypeOK, PipeType, Place
  <2>5. LockInv' /\ CountInv'
    BY <2>1, <2>2 DEF Inv, TypeOK, LockInv, CountInv, Holding, InWrite
  <2>6. EndsInv'
    BY <2>1, <2>2 DEF Inv, TypeOK, EndsInv, InRead, InWrite
  <2>7. OpenInv'
    <3>1. /\ "r" \in ends'[p] <=> "r" \in ends[p] /\ e # "r"
          /\ "w" \in ends'[p] <=> "w" \in ends[p] /\ e # "w"
          /\ \A q \in Proc : q # p => ends'[q] = ends[q]
      BY <2>2 DEF Inv, TypeOK
    <3>2. /\ Shut(e).readopen <=> \E q \in Proc : "r" \in ends'[q]
          /\ Shut(e).writeopen <=> \E q \in Proc : "w" \in ends'[q]
          /\ Shut(e).page = pi.page /\ pi.page
      <4>1. /\ Shut(e).readopen <=> pi.readopen /\ e # "r"
            /\ Shut(e).writeopen <=> pi.writeopen /\ e # "w"
            /\ Shut(e).page = pi.page
        BY DEF Inv, TypeOK, Shut
      <4>2. pi.page
        BY DEF Inv, OpenInv
      <4>3. (\E q \in Proc : "r" \in ends'[q]) <=> (\E q \in Proc : "r" \in ends[q]) /\ e # "r"
        BY <3>1 DEF End
      <4>4. (\E q \in Proc : "w" \in ends'[q]) <=> (\E q \in Proc : "w" \in ends[q]) /\ e # "w"
        BY <3>1 DEF End
      <4> QED
        BY <4>1, <4>2, <4>3, <4>4 DEF Inv, OpenInv
    <3>3. \A q \in Proc : ends'[q] # {} <=> "r" \in ends'[q] \/ "w" \in ends'[q]
      BY <2>4, SomeEnd DEF TypeOK
    <3> QED
      BY <2>3, <3>2, <3>3 DEF OpenInv, NoPipe
  <2>8. SleepInv'
    BY <2>0, <2>1, <2>2, <2>3, <2>6, <2>7 DEF PipeClose, OtherSide, Inv, TypeOK, SleepInv,
       OpenInv, EndsInv, InRead, InWrite, LockInv, Holding, End, Shut, NoPipe, Empty, Full
  <2> QED
    BY <2>4, <2>5, <2>6, <2>7, <2>8 DEF Inv
<1> QED
  BY <1>1, <1>2

(* Every step, and stuttering, keeps the invariant.                        *)
LEMMA NextStep == ASSUME Inv, [Next]_vars PROVE Inv'
<1>1. CASE Next
  BY <1>1, PipeAllocStep, ForkStep, KillStep, CallReadStep, CallWriteStep, RelockStep,
     SleepStep, ReadWaitStep, ReadCopyStep, WriteByteStep, WriteRefusedStep, WriteFullStep,
     WriteDoneStep, CloseStep DEF Next, Step
<1>2. CASE UNCHANGED vars
  BY <1>2 DEF vars, Inv, TypeOK, LockInv, EndsInv, OpenInv, CountInv, SleepInv, Empty, Full
<1> QED
  BY <1>1, <1>2

(* In a pipe of any size, used by any number of processes, nobody sleeps   *)
(* through bytes or room (but for the bytes of a killed writer), and the   *)
(* page is there exactly as long as an end is open (piperead, pipewrite,   *)
(* pipeclose).                                                             *)
THEOREM NoWakeupIsMissed == Spec => []PipeSound
<1>1. Init => Inv
  BY InitInv
<1>2. Inv /\ [Next]_vars => Inv'
  BY NextStep
<1>3. Inv => PipeSound
  <2> SUFFICES ASSUME Inv PROVE PipeSound
    OBVIOUS
  <2>1. NoMissedWakeup
    BY DEF Inv, SleepInv, NoMissedWakeup
  <2>2. PageWhileHeld
    BY DEF Inv, TypeOK, EndsInv, OpenInv, PageWhileHeld, InCall, InRead, InWrite
  <2> QED
    BY <2>1, <2>2 DEF Inv, PipeSound
<1> QED
  BY <1>1, <1>2, <1>3, PTL DEF Spec

-----------------------------------------------------------------------------
Gap(a, b) == (b + UINT - a) % UINT
Moved(a, k) == (a + k) % UINT

(* The ring never holds more than PIPESIZE bytes.                          *)
RingInv == Gap(pi.nread, pi.nwrite) <= PIPESIZE

(* What the two counters say, without remainders.                          *)
LEMMA Counters ==
  /\ \A a, b \in Byte : Gap(a, b) = IF a <= b THEN b - a ELSE b + UINT - a
  /\ \A a, k \in Byte : Moved(a, k) = IF a + k < UINT THEN a + k ELSE a + k - UINT
  BY Wrap, Distance, Sizes DEF Gap, Moved, Byte

(* Full, a byte more, and k bytes less, in terms of the gap.               *)
LEMMA GapFacts ==
  ASSUME NEW a \in Byte, NEW b \in Byte
  PROVE  /\ Gap(a, b) \in Byte /\ Gap(a, a) = 0
         /\ b = Moved(a, PIPESIZE) <=> Gap(a, b) = PIPESIZE
         /\ Gap(a, b) < PIPESIZE => Moved(b, 1) \in Byte /\ Gap(a, Moved(b, 1)) = Gap(a, b) + 1
<1> USE DEF Byte
<1>1. Gap(a, b) \in Byte /\ Gap(a, a) = 0
  BY Counters, Sizes
<1>2. b = Moved(a, PIPESIZE) <=> Gap(a, b) = PIPESIZE
  <2>1. PIPESIZE \in Byte
    BY Sizes
  <2>2. Moved(a, PIPESIZE) = IF a + PIPESIZE < UINT THEN a + PIPESIZE ELSE a + PIPESIZE - UINT
    BY <2>1, Counters
  <2>3. Gap(a, b) = IF a <= b THEN b - a ELSE b + UINT - a
    BY Counters
  <2> QED
    BY <2>1, <2>2, <2>3, Sizes
<1>3. ASSUME Gap(a, b) < PIPESIZE
      PROVE  Moved(b, 1) \in Byte /\ Gap(a, Moved(b, 1)) = Gap(a, b) + 1
  <2>1. 1 \in Byte
    BY Sizes
  <2>2. Moved(b, 1) = IF b + 1 < UINT THEN b + 1 ELSE b + 1 - UINT
    BY <2>1, Counters
  <2>3. Moved(b, 1) \in Byte
    BY <2>2, Sizes
  <2>4. Gap(a, b) = IF a <= b THEN b - a ELSE b + UINT - a
    BY Counters
  <2>5. Gap(a, Moved(b, 1)) =
          IF a <= Moved(b, 1) THEN Moved(b, 1) - a ELSE Moved(b, 1) + UINT - a
    BY <2>3, Counters
  <2> QED
    BY <1>3, <2>2, <2>3, <2>4, <2>5, Sizes
<1> QED
  BY <1>1, <1>2, <1>3

(* A reader that moves on by k bytes of those there are.                   *)
LEMMA MovedFacts ==
  ASSUME NEW a \in Byte, NEW b \in Byte, NEW k \in 0 .. Gap(a, b)
  PROVE  /\ k \in Byte /\ Moved(a, k) \in Byte
         /\ Gap(Moved(a, k), b) = Gap(a, b) - k
         /\ b - Moved(a, k) = Gap(a, b) - k \/ b - Moved(a, k) = (Gap(a, b) - k) - UINT
<1> USE DEF Byte
<1>1. Gap(a, b) \in Byte /\ k \in Byte
  BY GapFacts, Sizes
<1>2. Moved(a, k) = IF a + k < UINT THEN a + k ELSE a + k - UINT
  BY <1>1, Counters
<1>3. Moved(a, k) \in Byte
  BY <1>1, <1>2, Sizes
<1>4. Gap(a, b) = IF a <= b THEN b - a ELSE b + UINT - a
  BY Counters
<1>5. Gap(Moved(a, k), b) = IF Moved(a, k) <= b THEN b - Moved(a, k) ELSE b + UINT - Moved(a, k)
  BY <1>3, Counters
<1> QED
  BY <1>1, <1>2, <1>3, <1>4, <1>5, Sizes

(* A counter that moves on twice.                                          *)
LEMMA MovedTwice ==
  ASSUME NEW a \in Byte, NEW k \in Byte, NEW h \in Byte, k + h \in Byte
  PROVE  Moved(Moved(a, k), h) = Moved(a, k + h)
<1>1. Moved(a, k) = IF a + k < UINT THEN a + k ELSE a + k - UINT
  BY Counters
<1>2. Moved(a, k + h) = IF a + (k + h) < UINT THEN a + (k + h) ELSE a + (k + h) - UINT
  BY Counters
<1>3. Moved(a, k) \in Byte
  BY <1>1, Sizes DEF Byte
<1>4. Moved(Moved(a, k), h) =
        IF Moved(a, k) + h < UINT THEN Moved(a, k) + h ELSE Moved(a, k) + h - UINT
  BY <1>3, Counters
<1> QED
  BY <1>1, <1>2, <1>3, <1>4, Sizes DEF Byte

(* The k-th byte from the reader's side is in a slot of its own.           *)
LEMMA SlotFacts ==
  ASSUME NEW a \in Byte, NEW b \in Byte, Gap(a, b) < PIPESIZE
  PROVE  /\ Moved(a, Gap(a, b)) = b
         /\ \A k \in 0 .. Gap(a, b) - 1 : Moved(a, k) % PIPESIZE # b % PIPESIZE
<1>1. Gap(a, b) \in Nat /\ Gap(a, b) \in 0 .. Gap(a, b)
  BY GapFacts, Sizes DEF Byte
<1>2. Moved(a, Gap(a, b)) = b
  <2>1. /\ Moved(a, Gap(a, b)) \in Byte
        /\ b - Moved(a, Gap(a, b)) = Gap(a, b) - Gap(a, b)
             \/ b - Moved(a, Gap(a, b)) = (Gap(a, b) - Gap(a, b)) - UINT
    BY <1>1, MovedFacts
  <2> QED
    BY <1>1, <2>1, Sizes DEF Byte
<1>3. ASSUME NEW k \in 0 .. Gap(a, b) - 1 PROVE Moved(a, k) % PIPESIZE # b % PIPESIZE
  <2>1. k \in 0 .. Gap(a, b) /\ Gap(a, b) - k \in 1 .. PIPESIZE - 1
    BY <1>1, Sizes
  <2>2. /\ Moved(a, k) \in Byte
        /\ b - Moved(a, k) = Gap(a, b) - k \/ b - Moved(a, k) = (Gap(a, b) - k) - UINT
    BY <2>1, MovedFacts
  <2>3. Moved(a, k) \in Nat /\ b \in Nat
    BY <2>2, Sizes DEF Byte
  <2>4. PIPESIZE \in Nat \ {0} /\ UINT \in Nat \ {0} /\ UINT % PIPESIZE = 0
    BY PipeAssumption
  <2> QED
    BY <2>1, <2>2, <2>3, <2>4, SlotsDiffer
<1> QED
  BY <1>2, <1>3

(* The contents, as a function of struct pipe.                             *)
Held(r) == Gap(r.nread, r.nwrite)
Ring(r) == [k \in 1 .. Held(r) |-> r.data[Moved(r.nread, k - 1) % PIPESIZE]]

LEMMA RingForm ==
  ASSUME NEW r \in PipeType
  PROVE  Ring(r) = [k \in 1 .. (r.nwrite + UINT - r.nread) % UINT |->
                      r.data[((r.nread + k - 1) % UINT) % PIPESIZE]]
<1>1. r.nread \in Nat /\ r.nwrite \in Nat
  BY Sizes DEF PipeType, Byte
<1>2. \A k \in 1 .. Held(r) : (r.nread + k - 1) % UINT = Moved(r.nread, k - 1)
  <2>1. \A k \in 1 .. Held(r) : r.nread + k - 1 = r.nread + (k - 1)
    BY <1>1
  <2> QED
    BY <2>1 DEF Moved
<1> QED
  BY <1>2 DEF Ring, Held, Gap

LEMMA ContentsIs ==
  /\ pi \in PipeType => Contents = Ring(pi)
  /\ pi' \in PipeType => Contents' = Ring(pi')
  BY RingForm DEF Contents

(* They are a sequence of bytes.                                           *)
LEMMA RingIs ==
  ASSUME NEW r \in PipeType
  PROVE  /\ r.nread \in Byte /\ r.nwrite \in Byte /\ Held(r) \in Byte /\ Held(r) \in Nat
         /\ Ring(r) \in Seq(Byte) /\ Len(Ring(r)) = Held(r)
         /\ \A k \in 1 .. Held(r) :
              /\ Ring(r)[k] = r.data[Moved(r.nread, k - 1) % PIPESIZE]
              /\ Moved(r.nread, k - 1) % PIPESIZE \in 0 .. PIPESIZE - 1
<1>1. r.nread \in Byte /\ r.nwrite \in Byte
  BY DEF PipeType
<1>2. Held(r) \in Byte /\ Held(r) \in Nat
  <2>1. Held(r) \in Byte
    BY <1>1, GapFacts DEF Held
  <2> QED
    BY <2>1, Sizes DEF Byte
<1>3. ASSUME NEW k \in 1 .. Held(r)
      PROVE  Moved(r.nread, k - 1) % PIPESIZE \in 0 .. PIPESIZE - 1
  <2>1. k - 1 \in 0 .. Gap(r.nread, r.nwrite)
    BY <1>2 DEF Held
  <2>2. Moved(r.nread, k - 1) \in Nat
    BY <1>1, <2>1, MovedFacts, Sizes DEF Byte
  <2> QED
    BY <2>2, Remainders
<1>4. Ring(r) \in [1 .. Held(r) -> Byte]
  BY <1>3 DEF Ring, PipeType
<1>5. Ring(r) \in Seq(Byte) /\ Len(Ring(r)) = Held(r)
  BY <1>2, <1>4, SeqDef
<1> QED
  BY <1>1, <1>2, <1>3, <1>5 DEF Ring

(* pipewrite's two assignments append a byte.                              *)
LEMMA RingPut ==
  ASSUME NEW r \in PipeType, Held(r) < PIPESIZE, NEW s \in PipeType,
         s = [r EXCEPT !.data[r.nwrite % PIPESIZE] = r.nwrite, !.nwrite = Bump(@)]
  PROVE  Ring(s) = Append(Ring(r), r.nwrite) /\ Held(s) = Held(r) + 1
<1>1. /\ s.nread = r.nread /\ s.nwrite = Moved(r.nwrite, 1)
      /\ s.data = [r.data EXCEPT ![r.nwrite % PIPESIZE] = r.nwrite]
  BY DEF PipeType, Bump, Moved
<1>2. Held(s) = Held(r) + 1 /\ Held(r) \in Nat /\ r.nwrite \in Byte
  BY <1>1, GapFacts DEF PipeType, Held, Byte
<1>3. /\ Append(Ring(r), r.nwrite) \in Seq(Byte)
      /\ Len(Append(Ring(r), r.nwrite)) = Held(s)
      /\ \A k \in 1 .. Held(r) : Append(Ring(r), r.nwrite)[k] = Ring(r)[k]
      /\ Append(Ring(r), r.nwrite)[Held(s)] = r.nwrite
  BY <1>2, RingIs, AppendProperties
<1>4. ASSUME NEW k \in 1 .. Held(r) PROVE Ring(s)[k] = Ring(r)[k]
  <2>1. k - 1 \in 0 .. Held(r) - 1 /\ k \in 1 .. Held(s)
    BY <1>2
  <2>2. Moved(r.nread, k - 1) % PIPESIZE # r.nwrite % PIPESIZE
    BY <2>1, SlotFacts DEF PipeType, Held
  <2>4. Moved(r.nread, k - 1) % PIPESIZE \in 0 .. PIPESIZE - 1
    BY RingIs
  <2>5. s.data[Moved(r.nread, k - 1) % PIPESIZE] = r.data[Moved(r.nread, k - 1) % PIPESIZE]
    BY <1>1, <2>2, <2>4 DEF PipeType
  <2>6. Ring(s)[k] = s.data[Moved(s.nread, k - 1) % PIPESIZE]
    BY <2>1, RingIs
  <2>7. Ring(r)[k] = r.data[Moved(r.nread, k - 1) % PIPESIZE]
    BY RingIs
  <2> QED
    BY <1>1, <2>5, <2>6, <2>7
<1>5. Ring(s)[Held(s)] = r.nwrite
  <2>1. Moved(r.nread, Held(s) - 1) = r.nwrite
    BY <1>2, SlotFacts DEF PipeType, Held
  <2>2. r.nwrite % PIPESIZE \in 0 .. PIPESIZE - 1
    BY RingIs, Remainders, Sizes DEF Byte
  <2>3. s.data[Moved(s.nread, Held(s) - 1) % PIPESIZE] = r.nwrite
    BY <1>1, <2>1, <2>2 DEF PipeType
  <2>4. Held(s) \in 1 .. Held(s)
    BY <1>2
  <2> QED
    BY <2>3, <2>4, RingIs
<1>6. \A k \in 1 .. Held(s) : Ring(s)[k] = Append(Ring(r), r.nwrite)[k]
  BY <1>2, <1>3, <1>4, <1>5
<1> QED
  BY <1>2, <1>3, <1>6, RingIs, SeqEqual

(* piperead's loop takes the oldest bytes.                                 *)
LEMMA RingGet ==
  ASSUME NEW r \in PipeType, NEW k \in 0 .. Held(r), NEW s \in PipeType,
         s = [r EXCEPT !.nread = (@ + k) % UINT]
  PROVE  /\ Ring(s) = SubSeq(Ring(r), k + 1, Len(Ring(r)))
         /\ Held(s) = Held(r) - k
<1>1. s.nread = Moved(r.nread, k) /\ s.nwrite = r.nwrite /\ s.data = r.data
  BY DEF PipeType, Moved
<1>2. /\ Held(r) \in Nat /\ Held(r) < UINT /\ k \in Nat
      /\ r.nread \in Byte /\ r.nwrite \in Byte /\ k \in 0 .. Gap(r.nread, r.nwrite)
  BY RingIs, Sizes DEF Held, Byte
<1>3. k \in Byte /\ Moved(r.nread, k) \in Byte /\ Held(s) = Held(r) - k
  BY <1>1, <1>2, MovedFacts DEF Held
<1>4. ASSUME NEW j \in 1 .. Held(s) PROVE Ring(s)[j] = Ring(r)[k + j]
  <2>1. /\ k + (j - 1) \in Byte /\ j - 1 \in Byte /\ k + j \in 1 .. Held(r)
        /\ (k + j) - 1 = k + (j - 1)
    BY <1>2, <1>3, Sizes DEF Byte
  <2>2. Moved(Moved(r.nread, k), j - 1) = Moved(r.nread, k + (j - 1))
    BY <1>2, <1>3, <2>1, MovedTwice
  <2>3. Ring(s)[j] = r.data[Moved(r.nread, k + (j - 1)) % PIPESIZE]
    BY <1>1, <2>2, RingIs
  <2>4. Ring(r)[k + j] = r.data[Moved(r.nread, (k + j) - 1) % PIPESIZE]
    BY <2>1, RingIs
  <2> QED
    BY <2>1, <2>3, <2>4
<1>5. /\ SubSeq(Ring(r), k + 1, Held(r)) \in Seq(Byte)
      /\ Len(SubSeq(Ring(r), k + 1, Held(r))) = Held(s)
      /\ \A j \in 1 .. Held(s) : SubSeq(Ring(r), k + 1, Held(r))[j] = Ring(r)[k + j]
  <2>1. \A j \in k + 1 .. Held(r) : Ring(r)[j] \in Byte
    BY <1>2, RingIs
  <2>2. k + 1 \in Int /\ Held(r) \in Int
    BY <1>2
  <2>3. /\ SubSeq(Ring(r), k + 1, Held(r)) \in Seq(Byte)
        /\ Len(SubSeq(Ring(r), k + 1, Held(r))) =
             IF k + 1 <= Held(r) THEN Held(r) - (k + 1) + 1 ELSE 0
        /\ \A j \in 1 .. Held(r) - (k + 1) + 1 :
             SubSeq(Ring(r), k + 1, Held(r))[j] = Ring(r)[k + 1 + j - 1]
    BY <2>1, <2>2, SubSeqProperties
  <2>4. /\ Held(r) - (k + 1) + 1 = Held(s) /\ \A j \in 1 .. Held(s) : k + 1 + j - 1 = k + j
        /\ (IF k + 1 <= Held(r) THEN Held(r) - (k + 1) + 1 ELSE 0) = Held(s)
    BY <1>2, <1>3
  <2> QED
    BY <2>3, <2>4
<1> QED
  <2>1. Ring(s) \in Seq(Byte) /\ Len(Ring(s)) = Held(s) /\ Len(Ring(r)) = Held(r)
    BY RingIs
  <2>2. \A j \in 1 .. Len(Ring(s)) : Ring(s)[j] = SubSeq(Ring(r), k + 1, Held(r))[j]
    BY <1>4, <1>5, <2>1
  <2>3. Ring(s) = SubSeq(Ring(r), k + 1, Held(r))
    BY <1>5, <2>1, <2>2, SeqEqual
  <2> QED
    BY <1>3, <2>1, <2>3

-----------------------------------------------------------------------------
(* Each step is one of the queue's, or leaves the queue alone.             *)
LEMMA PipeAllocQ ==
  ASSUME Inv, Inv', NEW p \in Proc, PipeAlloc(p) PROVE RingInv' /\ Q!Create
<1>1. Held(pi') = 0 /\ pi'.page = TRUE /\ ~pi.page
  <2>1. 0 \in Byte /\ pi'.nread = 0 /\ pi'.nwrite = 0 /\ pi'.page = TRUE /\ ~pi.page
    BY Sizes DEF PipeAlloc, NoPipe, Byte
  <2> QED
    BY <2>1, GapFacts DEF Held
<1>2. pi' \in PipeType
  BY DEF Inv, TypeOK, PipeType
<1>3. Contents' = <<>>
  BY <1>1, <1>2, RingIs, ContentsIs, EmptySeq
<1> QED
  BY <1>1, <1>3, Sizes DEF RingInv, Held, Q!Create

LEMMA WriteByteQ ==
  ASSUME Inv, Inv', RingInv, NEW p \in Proc, WriteByte(p)
  PROVE  RingInv' /\ \E b \in Byte : Q!Put(b)
<1>1. pi \in PipeType /\ pi' \in PipeType
  BY DEF Inv, TypeOK, PipeType
<1>2. Held(pi) < PIPESIZE
  BY <1>1, GapFacts, Sizes DEF RingInv, WriteByte, Full, Moved, PipeType, Held, Byte
<1>3. Ring(pi') = Append(Ring(pi), pi.nwrite) /\ Held(pi') = Held(pi) + 1
  BY <1>1, <1>2, RingPut DEF WriteByte
<1>4. pi.page /\ pi'.page = pi.page
  <2>1. "w" \in ends[p]
    BY DEF Inv, EndsInv, InWrite, WriteByte, Writing
  <2> QED
    BY <1>1, <2>1 DEF Inv, OpenInv, WriteByte, PipeType
<1>5. Len(Contents) < PIPESIZE /\ Contents' = Append(Contents, pi.nwrite)
  BY <1>1, <1>2, <1>3, RingIs, ContentsIs
<1> QED
  <2>1. RingInv'
    BY <1>1, <1>2, <1>3, RingIs, Sizes DEF RingInv, Held
  <2>2. pi.nwrite \in Byte
    BY <1>1, RingIs
  <2> QED
    BY <1>4, <1>5, <2>1, <2>2 DEF Q!Put

LEMMA ReadCopyQ ==
  ASSUME Inv, Inv', RingInv, NEW p \in Proc, ReadCopy(p)
  PROVE  /\ RingInv'
         /\ \/ \E k \in 1 .. Len(Contents) : Q!Get(k)
            \/ UNCHANGED <<Contents, pi.page>>
<1>1. pi \in PipeType /\ pi' \in PipeType
  BY DEF Inv, TypeOK, PipeType
<1>2. Contents = Ring(pi) /\ Contents' = Ring(pi') /\ Len(Contents) = Held(pi)
  BY <1>1, RingIs, ContentsIs
<1>3. PICK k \in 0 .. Held(pi) : pi' = [pi EXCEPT !.nread = (@ + k) % UINT]
  <2>1. PICK k \in 0 .. n[p] : k <= Len(Contents) /\ pi' = [pi EXCEPT !.nread = (@ + k) % UINT]
    BY DEF ReadCopy
  <2>2. k \in 0 .. Held(pi)
    BY <1>1, <1>2, <2>1, RingIs, Counted
  <2> QED
    BY <2>1, <2>2
<1>4. Ring(pi') = SubSeq(Ring(pi), k + 1, Len(Ring(pi))) /\ Held(pi') = Held(pi) - k
  BY <1>1, <1>3, RingGet
<1>5. pi.page /\ pi'.page = pi.page
  <2>1. "r" \in ends[p]
    BY DEF Inv, EndsInv, InRead, ReadCopy
  <2> QED
    BY <1>1, <1>3, <2>1 DEF Inv, OpenInv, PipeType
<1>6. RingInv'
  BY <1>1, <1>4, RingIs, Sizes DEF RingInv, Held, Byte
<1>7. CASE k = 0
  <2>1. pi' = pi
    BY <1>1, <1>3, <1>7, ModSmall, Sizes DEF PipeType, Byte
  <2> QED
    BY <1>2, <1>6, <2>1
<1>8. CASE k # 0
  BY <1>2, <1>4, <1>5, <1>6, <1>8 DEF Q!Get
<1> QED
  BY <1>7, <1>8

LEMMA CloseQ ==
  ASSUME Inv, Inv', RingInv, NEW p \in Proc, NEW e \in End, Close(p, e)
  PROVE  RingInv' /\ (Q!Destroy \/ UNCHANGED <<Contents, pi.page>>)
<1>1. pi \in PipeType /\ pi' \in PipeType
  BY DEF Inv, TypeOK, PipeType
<1>2. Contents = Ring(pi) /\ Contents' = Ring(pi')
  BY <1>1, ContentsIs
<1>3. pi.page
  BY DEF Close, Inv, OpenInv
<1>4. CASE pi' = NoPipe
  <2>1. Held(pi') = 0 /\ pi'.page = FALSE
    <3>1. 0 \in Byte /\ pi'.nread = 0 /\ pi'.nwrite = 0 /\ pi'.page = FALSE
      BY <1>4, Sizes DEF NoPipe, Byte
    <3> QED
      BY <3>1, GapFacts DEF Held
  <2>2. Contents' = <<>>
    BY <1>1, <1>2, <2>1, RingIs, EmptySeq
  <2> QED
    <3>1. RingInv'
      BY <2>1, Sizes DEF RingInv, Held
    <3> QED
      BY <1>3, <2>1, <2>2, <3>1 DEF Q!Destroy
<1>5. CASE pi' # NoPipe
  <2>1. pi' = pi \/ pi' = Shut(e)
    BY <1>5 DEF Close, PipeClose
  <2>2. /\ pi'.page = pi.page /\ pi'.nread = pi.nread
        /\ pi'.nwrite = pi.nwrite /\ pi'.data = pi.data
    BY <1>1, <2>1 DEF Shut, PipeType
  <2> QED
    BY <1>2, <2>2 DEF RingInv, Ring, Held
<1> QED
  BY <1>4, <1>5

(* All steps.                                                              *)
LEMMA QueueStep ==
  ASSUME Inv, Inv', RingInv, [Next]_vars
  PROVE  RingInv' /\ [Q!QNext]_<<Contents, pi.page>>
<1>1. CASE \E p \in Proc : PipeAlloc(p)
  BY <1>1, PipeAllocQ DEF Q!QNext
<1>2. CASE \E p \in Proc : WriteByte(p)
  BY <1>2, WriteByteQ DEF Q!QNext
<1>3. CASE \E p \in Proc : ReadCopy(p)
  BY <1>3, ReadCopyQ DEF Q!QNext
<1>4. CASE \E p \in Proc : \E e \in End : Close(p, e)
  BY <1>4, CloseQ DEF Q!QNext
<1>5. CASE pi' = pi
  BY <1>5 DEF RingInv, Contents
<1>6. \/ \E p \in Proc : \/ PipeAlloc(p) \/ WriteByte(p) \/ ReadCopy(p)
                         \/ \E e \in End : Close(p, e)
      \/ pi' = pi
  BY DEF Next, Step, vars, Kill, Relock, ReadWait, Sleep, WriteRefused, WriteFull,
     WriteDone, Call, Fork
<1> QED
  BY <1>1, <1>2, <1>3, <1>4, <1>5, <1>6

(* The ring and its wrapping counters are a bounded first-in first-out     *)
(* queue, for every size that divides the range of the counters            *)
(* (pipewrite, piperead, pipealloc, pipeclose).                            *)
THEOREM RingIsQueue == Spec => ImplementsByteQueue
<1>1. Init => Inv
  BY InitInv
<1>2. Inv /\ [Next]_vars => Inv'
  BY NextStep
<1>3. Init => RingInv /\ Q!QInit
  <2> SUFFICES ASSUME Init PROVE RingInv /\ Q!QInit
    OBVIOUS
  <2>1. Held(pi) = 0 /\ pi \in PipeType /\ pi.page = FALSE
    BY GapFacts, NoPipeIs DEF Init, Held, NoPipe, PipeType
  <2>2. Contents = <<>>
    BY <1>1, <2>1, RingIs, ContentsIs, EmptySeq
  <2> QED
    BY <2>1, <2>2, Sizes DEF RingInv, Held, Q!QInit
<1>4. Inv /\ Inv' /\ RingInv /\ [Next]_vars => RingInv' /\ [Q!QNext]_<<Contents, pi.page>>
  BY QueueStep
<1> QED
  BY <1>1, <1>2, <1>3, <1>4, PTL DEF Spec, ImplementsByteQueue, Q!QSpec

=============================================================================
