-------------------------------- MODULE Uart --------------------------------
(***************************************************************************)
(* The UART (src/kernel/uart.c): processes writing with interrupts, kernel *)
(* messages and echo written by spinning, the interrupt handler and the    *)
(* device.  A step runs from one release of tx_lock, or test in a spin     *)
(* loop, to the next.                                                      *)
(***************************************************************************)
EXTENDS Integers

CONSTANTS Writer,       \* processes that write
          UartLen,      \* lengths of the writes
          MaxWrites,    \* bound: calls of uartwrite
          MaxPrints,    \* bound: characters printed by the kernel
          MaxInput      \* bound: characters that arrive

VARIABLES thr,          \* the device is sending
          irq,          \* the device has an interrupt pending
          rx,           \* a character has arrived
          tx_busy, wr, intr, todo

uvars == <<thr, irq, rx, tx_busy, wr, intr, todo>>

UInit ==
  /\ thr = FALSE /\ irq = FALSE /\ rx = FALSE
  /\ tx_busy = FALSE
  /\ wr = [p \in Writer |-> [pc |-> "idle", left |-> 0]]
  /\ intr = "off"
  /\ todo = [writes |-> MaxWrites, prints |-> MaxPrints, input |-> MaxInput]

\* The device raises an interrupt when it has sent what it was given, and when
\* a character arrives.
Sent ==
  /\ thr /\ thr' = FALSE /\ irq' = TRUE
  /\ UNCHANGED <<rx, tx_busy, wr, intr, todo>>

Arrives ==
  /\ todo.input > 0 /\ ~rx
  /\ rx' = TRUE /\ irq' = TRUE
  /\ todo' = [todo EXCEPT !.input = @ - 1]
  /\ UNCHANGED <<thr, tx_busy, wr, intr>>

\* uartwrite: take up n characters; then, turn by turn of its loop, wait for
\* tx_busy to be 0 and send one.
UartWrite(p, n) ==
  /\ wr[p].pc = "idle" /\ todo.writes > 0
  /\ todo' = [todo EXCEPT !.writes = @ - 1]
  /\ wr' = [wr EXCEPT ![p] = [pc |-> "run", left |-> n]]
  /\ UNCHANGED <<thr, irq, rx, tx_busy, intr>>

SendChar(p) ==
  /\ wr[p].pc = "run"
  /\ IF tx_busy
     THEN wr' = [wr EXCEPT ![p].pc = "asleep"] /\ UNCHANGED <<tx_busy, thr>>
     ELSE /\ wr' = [wr EXCEPT ![p].left = @ - 1,
                              ![p].pc = IF wr[p].left = 1 THEN "idle" ELSE @]
          /\ tx_busy' = TRUE /\ thr' = TRUE
  /\ UNCHANGED <<irq, rx, intr, todo>>

\* LSR_TX_IDLE
Idle == ~thr

\* uartputc_sync, for printf: spin until the device is idle; neither tx_lock
\* nor tx_busy is looked at.
PutcSync ==
  /\ todo.prints > 0 /\ Idle
  /\ todo' = [todo EXCEPT !.prints = @ - 1]
  /\ thr' = TRUE
  /\ UNCHANGED <<irq, rx, tx_busy, wr, intr>>

\* wakeup(&tx_chan): every sleeper runs again.
Woken(ps) == [p \in Writer |-> IF ps[p].pc = "asleep"
                               THEN [ps[p] EXCEPT !.pc = "run"] ELSE ps[p]]

\* uartintr: acknowledge, then see whether the device can take more, then read
\* what has arrived and echo it.
IntrAck ==
  /\ intr = "off" /\ irq
  /\ irq' = FALSE /\ intr' = "tx"
  /\ UNCHANGED <<thr, rx, tx_busy, wr, todo>>

IntrTx ==
  /\ intr = "tx" /\ intr' = "rx"
  /\ IF Idle THEN tx_busy' = FALSE /\ wr' = Woken(wr)
     ELSE UNCHANGED <<tx_busy, wr>>
  /\ UNCHANGED <<thr, irq, rx, todo>>

IntrRx ==
  /\ intr = "rx" /\ rx' = FALSE
  /\ intr' = IF rx THEN "echo" ELSE "off"
  /\ UNCHANGED <<thr, irq, tx_busy, wr, todo>>

EchoesQuiet == ~thr /\ ~tx_busy

\* consputc spins for the device, not for the writers.
Echoes == Idle

IntrEcho ==
  /\ intr = "echo" /\ Echoes
  /\ thr' = TRUE /\ intr' = "rx"
  /\ UNCHANGED <<irq, rx, tx_busy, wr, todo>>

Handler == IntrAck \/ IntrTx \/ IntrRx \/ IntrEcho

UNext ==
  \/ Sent \/ Arrives \/ PutcSync \/ Handler
  \/ \E p \in Writer : (\E n \in UartLen : UartWrite(p, n)) \/ SendChar(p)

\* The device goes on sending, its interrupts are taken, and processes in a
\* call are scheduled.
UFairness ==
  /\ WF_uvars(Sent) /\ WF_uvars(Handler)
  /\ \A p \in Writer : WF_uvars(SendChar(p))

USpec == UInit /\ [][UNext]_uvars /\ UFairness

-----------------------------------------------------------------------------
\* A writer that sleeps in uartwrite has someone to wake it, although
\* uartputc_sync uses the device behind tx_busy: the device is sending, or has
\* an interrupt pending, or the handler has still to look.
WriterHasWaker ==
  (\E p \in Writer : wr[p].pc = "asleep") => tx_busy /\ (thr \/ irq \/ intr = "tx")

\* Every write to the console ends.
WritesEnd == \A p \in Writer : wr[p].pc # "idle" ~> wr[p].pc = "idle"
=============================================================================
