------------------------------ MODULE MCKernel ------------------------------
(* The page allocator, the life of processes, the UART, the idle branch of   *)
(* the scheduler and the shell, which share no state in the models: a        *)
(* behaviour picks one of Parts and is a behaviour of that component, the    *)
(* others staying in their initial states (the shell's variables 0).         *)
EXTENDS Kalloc, ProcLife

CONSTANT Parts   \* of "pages", "life", "uart", "idle", "shell"

VARIABLES
  which,
  thr, irq, rx, tx_busy, wr, intr, todo,
  ticks, idle_start_tick, ipc, cur, old, ready, did,
  line, proc, npipe

ASSUME ProcConstants == ProcAssumption

U == INSTANCE Uart WITH Writer <- {"w1", "w2"}, UartLen <- {1, 3}, MaxWrites <- 3, MaxPrints <- 2, MaxInput <- 2

D == INSTANCE Idle WITH Cpu <- {"c0", "c1"}, Cpu0 <- "c0", UINT <- 5, GCAT <- 2, COMPACTAT <- 3, pc <- ipc

(* The commands of two levels over one program, and lines that are none.     *)
Program == {[t |-> "exec", argv |-> <<<<"a">>, <<"a", "b">>>>]}
Over(S) ==
  {[t |-> "redir", c |-> c, file |-> <<"f">>, how |-> x] : c \in S, x \in {"<", ">", "+"}}
  \union {[t |-> x, l |-> l, r |-> r] : x \in {"pipe", "list"}, l \in S, r \in S}
  \union {[t |-> "back", c |-> c] : c \in S}
MCLines == LET one == Program \union Over(Program) IN one \union Over(one)
MCWrong == {<<"a", "&", "b">>, <<"a", " ", ")">>, <<"(", "a", ";", "b">>, <<"a", ">", "|", "b">>,
            <<"a", ">", " ", ">", "f">>, <<"a", "(", "b", ")">>}

H == INSTANCE Shell WITH Lines <- MCLines, Wrong <- MCWrong, MaxProc <- 5

-----------------------------------------------------------------------------
uv == <<thr, irq, rx, tx_busy, wr, intr, todo>>
dv == <<ticks, idle_start_tick, ipc, cur, old, ready, did>>
hv == <<line, proc, npipe>>
all == <<which, vars, pvars, uv, dv, hv>>

KernelInit ==
  /\ which \in Parts
  /\ Init /\ PInit /\ U!UInit /\ D!IInit
  /\ IF which = "shell" THEN H!HInit ELSE line = 0 /\ proc = 0 /\ npipe = 0

(* A step of one component.                                                  *)
InPages(A) == which = "pages" /\ A /\ UNCHANGED <<which, pvars, uv, dv, hv>>
InLife(A) == which = "life" /\ A /\ UNCHANGED <<which, vars, uv, dv, hv>>
InUart(A) == which = "uart" /\ A /\ UNCHANGED <<which, vars, pvars, dv, hv>>
InIdle(A) == which = "idle" /\ A /\ UNCHANGED <<which, vars, pvars, uv, hv>>
InShell(A) == which = "shell" /\ A /\ UNCHANGED <<which, vars, pvars, uv, dv>>

(* Writers finish and a line is done; processes never all stop.              *)
Rest == which # "life" /\ UNCHANGED all

KernelNext ==
  \/ InPages(Next) \/ InLife(PNext)
  \/ InUart(U!UNext) \/ InIdle(D!INext) \/ InShell(H!HNext) \/ Rest

(* The fairness of each component, of its own steps.  The initial process    *)
(* calls wait for ever (user/init.c) and gets wait_lock if that is free      *)
(* again and again.                                                          *)
KernelFairness ==
  /\ \A p \in Proc : WF_all(InLife(KernelStep(p)))
  /\ SF_all(InLife(WaitBegin(init))) /\ SF_all(InLife(ForkParent(init)))
  /\ WF_all(InUart(U!Sent)) /\ WF_all(InUart(U!Handler))
  /\ \A p \in {"w1", "w2"} : WF_all(InUart(U!SendChar(p)))
  /\ WF_all(InIdle(D!Tick))
  /\ \A c \in {"c0", "c1"} : WF_all(InIdle(D!Step(c))) /\ WF_all(InIdle(D!Timer(c)))
  /\ \A p \in 0 .. 5 : WF_all(InShell(H!Step(p))) /\ WF_all(InShell(H!InitReaps(p)))

KernelSpec == KernelInit /\ [][KernelNext]_all /\ KernelFairness

-----------------------------------------------------------------------------
(* Every write to the console ends, although prints and echo use the device  *)
(* without the lock and the handler wakes writers only when it finds the     *)
(* device idle (uart.c).                                                     *)
WritesEnd == U!WritesEnd

(* An idle system keeps collecting and compacting, although the CPUs share   *)
(* idle_start_tick without a lock (proc.c scheduler).                        *)
KeepsCollecting == D!KeepsCollecting
(* The comment at the call: "System securely idle, run GC" (proc.c:542).     *)
CollectsOnlyIdle == D!CollectsOnlyIdle

(* The parser makes of a line the command that was written, and a program    *)
(* has the ends of pipes its place in the line gives it, and no other (sh.c, *)
(* parsecmd and runcmd).                                                     *)
ShellSound == which = "shell" => H!ParsedAsWritten /\ H!ProgramHasItsEnds
(* The prompt comes back and every process of the line goes.                 *)
LineEnds == <>[](which = "shell" => H!LineDone)
=============================================================================
