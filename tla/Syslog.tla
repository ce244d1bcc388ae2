------------------------------- MODULE Syslog -------------------------------
(***************************************************************************)
(* Kernel messages and the system log (src/kernel/printf.c).  printf sends *)
(* each character to the console and then to a ring buffer that the        *)
(* syslog call drains.  A message is a number, which printint prints.      *)
(***************************************************************************)
EXTENDS Integers, Sequences, SequencesExt

CONSTANTS Cpu, None,
          LOG_BUF_SIZE,
          Arg,          \* numbers printed: the value, and whether it is signed
          BITS,         \* their width
          PRINTBUF,     \* characters in the buffer of printint
          MaxLen,       \* bytes a call of readsyslog may ask for
          MaxMsgs       \* bound: messages printed

VARIABLES panicking, panicked,
          pr,                     \* holder of pr.lock
          lbuf, lr, lw,           \* logkeeper
          pf,                     \* the calls of printf
          out, logged, msgs       \* console output, characters logged

svars == <<panicking, panicked, pr, lbuf, lr, lw, pf, out, logged, msgs>>

\* The loop of printint ends with the last digit.
DigitsDone(x, base) == x \div base = 0

\* The characters are the digits and the sign.
Minus == -1

\* printint: the digits of x, least significant first, then the sign, printed
\* from the last to the first.  xx has the given number of bits.
PrintInt(xx, sign, base, bits) ==
  LET x == IF sign /\ xx < 0 THEN -xx ELSE (xx + 2^bits) % 2^bits
      digits[y \in Nat] ==
        <<y % base>> \o IF DigitsDone(y, base) THEN <<>> ELSE digits[y \div base]
  IN Reverse(IF sign /\ xx < 0 THEN Append(digits[x], Minus) ELSE digits[x])

NoCall == [pc |-> "idle", msg |-> 0, k |-> 0, arg |-> <<0, FALSE>>,
           text |-> <<>>, last |-> FALSE]

SInit ==
  /\ panicking = FALSE /\ panicked = FALSE /\ pr = None
  /\ lbuf = [i \in 0 .. LOG_BUF_SIZE - 1 |-> <<0, 0>>]
  /\ lr = 0 /\ lw = 0
  /\ pf = [c \in Cpu |-> NoCall]
  /\ out = <<>> /\ logged = <<>> /\ msgs = 0

\* pr.lock, unless a panic message is being printed.
Enter(c) ==
  IF panicking THEN UNCHANGED pr ELSE pr = None /\ pr' = c

\* printf("%d") of xx.  last: it is the message of a panic.
Printf(c, xx, last) ==
  /\ msgs < MaxMsgs /\ msgs' = msgs + 1
  /\ pf' = [pf EXCEPT ![c] = [pc |-> "console", msg |-> msgs', k |-> 1, arg |-> xx,
                              text |-> PrintInt(xx[1], xx[2], 10, BITS),
                              last |-> last]]

Start(c, xx) ==
  /\ pf[c].pc = "idle"
  /\ Printf(c, xx, FALSE) /\ Enter(c)
  /\ UNCHANGED <<panicking, panicked, lbuf, lr, lw, out, logged>>

\* panic: its message is printed without the lock.
Panic(c, xx) ==
  /\ pf[c].pc = "idle" /\ ~panicking
  /\ panicking' = TRUE
  /\ Printf(c, xx, TRUE)
  /\ UNCHANGED <<panicked, pr, lbuf, lr, lw, out, logged>>

\* Every consputc is followed by putc_log.
ThenLog(c) == "log"

\* consputc: another CPU that finds panicked set spins for ever.
PutConsole(c) ==
  /\ pf[c].pc = "console" /\ ~panicked
  /\ out' = Append(out, <<pf[c].msg, pf[c].k>>)
  /\ pf' = [pf EXCEPT ![c].pc = ThenLog(c)]
  /\ UNCHANGED <<panicking, panicked, pr, lbuf, lr, lw, logged, msgs>>

OldestStays(r, w) == r

\* The oldest character goes when one is written to a full buffer.
Oldest(r, w) == IF w - r > LOG_BUF_SIZE THEN w - LOG_BUF_SIZE ELSE r

\* printf holds pr.lock from one character to the next.
Held == pr

\* putc_log
PutLog(c) ==
  /\ pf[c].pc = "log"
  /\ lbuf' = [lbuf EXCEPT ![lw % LOG_BUF_SIZE] = <<pf[c].msg, pf[c].k>>]
  /\ lw' = lw + 1 /\ lr' = Oldest(lr, lw + 1)
  /\ logged' = Append(logged, <<pf[c].msg, pf[c].k>>)
  /\ pf' = [pf EXCEPT ![c].pc = IF pf[c].k = Len(pf[c].text) THEN "end" ELSE "console",
                      ![c].k = @ + 1]
  /\ pr' = Held
  /\ UNCHANGED <<panicking, panicked, out, msgs>>

\* The end of printf, and of panic, which freezes the output.
End(c) ==
  /\ pf[c].pc = "end"
  /\ pf' = [pf EXCEPT ![c] = IF pf[c].last THEN [@ EXCEPT !.pc = "halted"]
                             ELSE NoCall]
  /\ panicked' = (panicked \/ pf[c].last)
  /\ pr' = IF panicking THEN pr ELSE None
  /\ UNCHANGED <<panicking, lbuf, lr, lw, out, logged, msgs>>

\* readsyslog: up to MaxLen characters, fewer if one cannot be copied out.
ReadSyslog ==
  /\ lr < lw
  /\ lr' \in lr .. (IF lw - lr < MaxLen THEN lw ELSE lr + MaxLen)
  /\ UNCHANGED <<panicking, panicked, pr, lbuf, lw, pf, out, logged, msgs>>

SNext ==
  \/ \E c \in Cpu : \/ \E xx \in Arg : Start(c, xx) \/ Panic(c, xx)
                    \/ PutConsole(c) \/ PutLog(c) \/ End(c)
  \/ ReadSyslog

SSpec == SInit /\ [][SNext]_svars

-----------------------------------------------------------------------------
\* The log holds the latest characters in the order in which they were logged,
\* and nothing that was read or overwritten.
LogHoldsLatest ==
  /\ lr \in 0 .. lw /\ lw - lr <= LOG_BUF_SIZE /\ lw = Len(logged)
  /\ [k \in 1 .. lw - lr |-> lbuf[(lr + k - 1) % LOG_BUF_SIZE]]
       = SubSeq(logged, lr + 1, lw)

\* "lock to avoid interleaving concurrent printf's" (printf.c): until a panic
\* no message has characters of another in it, on the console or in the log.
MessagesWhole ==
  LET Whole(s) == \A i \in 1 .. Len(s) - 1 :
                    s[i + 1] \in {<<s[i][1], s[i][2] + 1>>}
                                 \union {<<m, 1>> : m \in 1 .. msgs}
  IN ~panicking => Whole(out) /\ Whole(logged)

\* The log is a record of the console: the characters logged are those
\* printed, in the same order, also while a panic cuts across a message.
LogFollowsConsole ==
  /\ ToSet(logged) \subseteq ToSet(out)
  /\ ~panicking => IsPrefix(logged, out)

\* printint prints the value it is given and stays within its buffer, which
\* the longest number fills to the last character.
IntPrinted ==
  \A c \in Cpu :
    LET s == pf[c].text
        Value(t) == FoldLeft(LAMBDA v, d : 10 * v + d, 0, t)
    IN s # <<>> => /\ Len(s) <= PRINTBUF
                   /\ pf[c].arg[1] = IF s[1] = Minus THEN -Value(Tail(s)) ELSE Value(s)
=============================================================================
