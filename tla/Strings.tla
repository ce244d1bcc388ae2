------------------------------ MODULE Strings ------------------------------
(* The copies and comparisons of kernel/string.c and user/ulib.c, one byte   *)
(* at a time over a small memory, each checked against what its caller       *)
(* relies on. Byte 0 is NUL.                                                 *)
EXTENDS Integers, Sequences

CONSTANTS
  Size,       \* bytes of memory
  Chars,      \* bytes of a string other than NUL
  DIRSIZ      \* bytes of a directory entry's name

VARIABLES
  call,       \* the call made
  mem,        \* memory, by address
  ret         \* what the call returned, or "none" before it

tvars == <<call, mem, ret>>

Names == UNION {[1..n -> Chars] : n \in 1..DIRSIZ + 2}
Stored(s) == s \o <<0>>

(* Copy n bytes upward, or downward from the end: one byte per round, each   *)
(* reading the memory the earlier rounds wrote.                              *)
Upward(m, d, s, n) ==
  LET after[i \in 0..n] == IF i = 0 THEN m
                           ELSE [after[i - 1] EXCEPT ![d + i - 1] = after[i - 1][s + i - 1]]
  IN after[n]

Downward(m, d, s, n) ==
  LET after[i \in 0..n] == IF i = 0 THEN m
                           ELSE [after[i - 1] EXCEPT ![d + n - i] = after[i - 1][s + n - i]]
  IN after[n]

OverlapsUp(d, s, n) == s < d /\ s + n > d

KernelMemmove(m, d, s, n) == IF OverlapsUp(d, s, n) THEN Downward(m, d, s, n) ELSE Upward(m, d, s, n)
UserMemmove(m, d, s, n) == IF s > d THEN Upward(m, d, s, n) ELSE Downward(m, d, s, n)

(* The bytes of t up to and with its NUL, at most n; the rest of n is NUL.   *)
Strncpy(t, n) == [i \in 1..n |-> IF i <= Len(t) THEN t[i] ELSE 0]

(* Copies while a byte of room beyond the NUL is left.                       *)
Room(i, n) == i < n
Safestrcpy(m, d, t, n) ==
  LET RECURSIVE go(_, _)
      go(mm, i) == IF Room(i, n) /\ t[i] # 0 THEN go([mm EXCEPT ![d + i - 1] = t[i]], i + 1)
                   ELSE [mm EXCEPT ![d + i - 1] = 0]
  IN IF n <= 0 THEN m ELSE go(m, 1)

(* Compares until a difference, a NUL in p, or n bytes.                      *)
StrncmpWhole(p, q, n) ==
  LET RECURSIVE go(_)
      go(i) == IF i > Len(p) THEN -q[i] ELSE IF p[i] # 0 /\ p[i] = q[i] THEN go(i + 1) ELSE p[i] - q[i]
  IN go(1)
Strncmp(p, q, n) ==
  LET RECURSIVE go(_)
      go(i) == IF i > n THEN 0 ELSE IF p[i] # 0 /\ p[i] = q[i] THEN go(i + 1) ELSE p[i] - q[i]
  IN go(1)

Moves == [f : {"kernel", "user"}, d : 0..Size - 1, s : 0..Size - 1, n : 0..Size]
Calls ==
  {c \in Moves : c.d + c.n <= Size /\ c.s + c.n <= Size}
  \union [f : {"name"}, s : Names, t : Names]
  \union [f : {"safe"}, d : {0, 1}, t : Names, n : 0..Size - 1]

TInit == call \in Calls /\ mem = [a \in 0..Size - 1 |-> a + 100] /\ ret = "none"

Memmove ==
  /\ call.f \in {"kernel", "user"}
  /\ mem' = IF call.f = "kernel" THEN KernelMemmove(mem, call.d, call.s, call.n)
            ELSE UserMemmove(mem, call.d, call.s, call.n)
  /\ ret' = "moved"

(* dirlink stores a name in an entry with strncpy, and namecmp looks it up.  *)
Namecmp ==
  /\ call.f = "name"
  /\ ret' = IF Strncmp(Strncpy(Stored(call.s), DIRSIZ), Stored(call.t), DIRSIZ) = 0 THEN "same" ELSE "differ"
  /\ UNCHANGED mem

CopyName ==
  /\ call.f = "safe" /\ mem' = Safestrcpy(mem, call.d, Stored(call.t), call.n) /\ ret' = "copied"

TNext == ret = "none" /\ UNCHANGED call /\ (Memmove \/ Namecmp \/ CopyName)
TSpec == TInit /\ [][TNext]_tvars

-----------------------------------------------------------------------------
(* Both memmoves leave in the destination what the source held before the    *)
(* call, however the two overlap, and change nothing else.                   *)
MovesAtOnce ==
  ret = "moved" =>
    mem = [a \in 0..Size - 1 |->
             IF a \in call.d..call.d + call.n - 1 THEN a - call.d + call.s + 100 ELSE a + 100]

(* A name stored in a directory entry, which has no NUL when it fills the    *)
(* entry, is found by exactly the names with its first DIRSIZ bytes: namecmp *)
(* never reads past the entry to decide.                                     *)
NameFound ==
  ret \in {"same", "differ"} =>
    LET first(x) == SubSeq(x, 1, IF Len(x) < DIRSIZ THEN Len(x) ELSE DIRSIZ)
    IN (ret = "same") <=> (first(call.s) = first(call.t))

(* safestrcpy, with which the kernel keeps process names, stores as much of  *)
(* the string as fits with a NUL, and writes no byte past the n given.       *)
CopyTerminated ==
  ret = "copied" /\ call.n > 0 =>
    LET k == IF Len(call.t) < call.n THEN Len(call.t) ELSE call.n - 1
    IN mem = [a \in 0..Size - 1 |->
                CASE a \in call.d..call.d + k - 1 -> call.t[a - call.d + 1]
                  [] a = call.d + k -> 0
                  [] OTHER -> a + 100]
=============================================================================
