------------------------------- MODULE Console -------------------------------
(***************************************************************************)
(* Console input (src/kernel/console.c): the line discipline in the        *)
(* interrupt handler and the processes that read lines.  A step runs from  *)
(* one release of cons.lock, or place where it is held while the user's    *)
(* memory is written, to the next.  The characters are "x", newline "nl",  *)
(* end of file "eof", erase "bs" and erase line "kill".                    *)
(***************************************************************************)
EXTENDS Integers, Sequences

CONSTANTS Reader, None,
          INPUT_BUF_SIZE,
          UINT,         \* values of an unsigned int; a multiple of the former
          Key,          \* characters typed
          Want,         \* lengths asked for by read
          MaxTyped,     \* bound: characters typed
          MaxReads      \* bound: calls of read

VARIABLES buf, r, w, e, lock,      \* struct cons
          rd,                      \* the calls of consoleread
          cooked, line,            \* characters for readers, and still edited
          typed, reads

cvars == <<buf, r, w, e, lock, rd, cooked, line, typed, reads>>

Plus(a, b) == (a + b + UINT) % UINT
Slot(i) == i % INPUT_BUF_SIZE
Between(a, b) == [k \in 1 .. Plus(b, -a) |-> buf[Slot(Plus(a, k - 1))]]
Ended(c) == c \in {"nl", "eof"}
NoRead == [pc |-> "idle", left |-> 0, target |-> 0, killed |-> FALSE]

\* The indices are those of a console that has been used: the next character
\* but one makes them wrap.
CInit ==
  /\ buf = [i \in 0 .. INPUT_BUF_SIZE - 1 |-> "x"]
  /\ r = UINT - 2 /\ w = r /\ e = r /\ lock = None
  /\ rd = [p \in Reader |-> NoRead]
  /\ cooked = <<>> /\ line = <<>> /\ typed = 0 /\ reads = 0

-----------------------------------------------------------------------------

\* There is room for another character.
Room == Plus(e, -r) < INPUT_BUF_SIZE

CompleteLine(c, e1) == Ended(c)

\* Readers are given the line: it has ended or the buffer is full.
Complete(c, e1) == Ended(c) \/ Plus(e1, -r) = INPUT_BUF_SIZE

\* wakeup(&cons.r): every sleeping reader runs again.
Woken == [p \in Reader |-> IF rd[p].pc = "asleep"
                           THEN [rd[p] EXCEPT !.pc = "run"] ELSE rd[p]]

\* consoleintr for the erase characters: back to w or to the last newline.
IntrErase(c) ==
  LET n == Plus(e, -w)
      kept == IF c = "bs" THEN n - 1
              ELSE CHOOSE k \in 0 .. n :
                     /\ k = 0 \/ Between(w, e)[k] = "nl"
                     /\ \A j \in k + 1 .. n : Between(w, e)[j] # "nl"
  IN /\ c \in {"bs", "kill"} /\ e # w
     /\ e' = Plus(w, kept) /\ line' = SubSeq(line, 1, Len(line) - n + kept)
     /\ UNCHANGED <<buf, w, rd, cooked>>

\* consoleintr for any other character.
IntrStore(c) ==
  LET e1 == Plus(e, 1) IN
  /\ c \notin {"bs", "kill"} /\ Room
  /\ buf' = [buf EXCEPT ![Slot(e)] = c]
  /\ e' = e1
  /\ IF Complete(c, e1)
     THEN /\ w' = e1 /\ rd' = Woken
          /\ cooked' = cooked \o Append(line, c) /\ line' = <<>>
     ELSE line' = Append(line, c) /\ UNCHANGED <<w, rd, cooked>>

\* uartintr hands a character to consoleintr; one that finds nothing to erase
\* or no room changes nothing.
ConsoleIntr(c) ==
  /\ lock = None /\ typed < MaxTyped
  /\ typed' = typed + 1
  /\ \/ IntrErase(c) \/ IntrStore(c)
     \/ /\ IF c \in {"bs", "kill"} THEN e = w ELSE ~Room
        /\ UNCHANGED <<buf, w, e, rd, cooked, line>>
  /\ UNCHANGED <<r, lock, reads>>

-----------------------------------------------------------------------------
\* consoleread: n characters are wanted.
ConsoleRead(p, n) ==
  /\ rd[p].pc = "idle" /\ ~rd[p].killed /\ reads < MaxReads
  /\ reads' = reads + 1
  /\ rd' = [rd EXCEPT ![p].pc = "run", ![p].left = n, ![p].target = n]
  /\ UNCHANGED <<buf, r, w, e, lock, cooked, line, typed>>

\* acquire, on entry and in sleep; then nothing to read: give up or sleep.
Acquire(p) ==
  /\ rd[p].pc = "run" /\ lock = None
  /\ IF r # w THEN lock' = p /\ rd' = [rd EXCEPT ![p].pc = "copy"]
     ELSE /\ rd' = [rd EXCEPT ![p].pc = IF rd[p].killed THEN "idle" ELSE "asleep"]
          /\ UNCHANGED lock
  /\ UNCHANGED <<buf, r, w, e, cooked, line, typed, reads>>

\* An end of file after other characters is left for the next read.
Back(p) == rd[p].left < rd[p].target

\* The read returns.
Done(p) == [NoRead EXCEPT !.killed = rd[p].killed]

\* A character is taken.  It ends the read if it ends the line, if it is the
\* last one wanted, or if the user's memory cannot be written; if nothing is
\* left before that, the reader sleeps.
Copy(p) ==
  LET c == buf[Slot(r)]
      kept == c = "eof" /\ Back(p)
      left == IF c = "eof" THEN rd[p].left ELSE rd[p].left - 1
      r1 == IF kept THEN r ELSE Plus(r, 1)
  IN /\ rd[p].pc = "copy"
     /\ r' = r1
     /\ cooked' = IF kept THEN cooked ELSE Tail(cooked)
     /\ \/ /\ Ended(c) \/ left = 0
           /\ rd' = [rd EXCEPT ![p] = Done(p)] /\ lock' = None
        \/ /\ c # "eof"
           /\ rd' = [rd EXCEPT ![p] = Done(p)] /\ lock' = None
        \/ /\ ~Ended(c) /\ left > 0 /\ r1 # w
           /\ rd' = [rd EXCEPT ![p].left = left] /\ UNCHANGED lock
        \/ /\ ~Ended(c) /\ left > 0 /\ r1 = w
           /\ rd' = [rd EXCEPT ![p].left = left,
                               ![p].pc = IF rd[p].killed THEN "idle" ELSE "asleep"]
           /\ lock' = None
     /\ UNCHANGED <<buf, w, e, line, typed, reads>>

\* kill: a sleeping reader runs again.
Kill(p) ==
  /\ ~rd[p].killed /\ rd[p].pc # "idle"
  /\ rd' = [rd EXCEPT ![p].killed = TRUE,
                      ![p].pc = IF @ = "asleep" THEN "run" ELSE @]
  /\ UNCHANGED <<buf, r, w, e, lock, cooked, line, typed, reads>>

CNext ==
  \/ \E c \in Key : ConsoleIntr(c)
  \/ \E p \in Reader : (\E n \in Want : ConsoleRead(p, n)) \/ Acquire(p)
                        \/ Copy(p) \/ Kill(p)

CSpec == CInit /\ [][CNext]_cvars

-----------------------------------------------------------------------------
\* What readers will get, and what can still be erased, are the characters
\* typed, in order, through every wrap of the buffer and of the indices, line
\* edit, full buffer and end of file that a reader puts back.
LineDiscipline == Between(r, w) = cooked /\ Between(w, e) = line

\* No reader sleeps while there is a line for it.
NoMissedLine == \A p \in Reader : rd[p].pc = "asleep" => r = w

\* A full buffer can be read: otherwise nothing more could be typed, nor be
\* read, and only erasing would help.
FullIsReadable == Plus(e, -r) = INPUT_BUF_SIZE => w = e
=============================================================================
