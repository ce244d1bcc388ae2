-------------------------------- MODULE Shell -------------------------------
(***************************************************************************)
(* The shell (src/user/sh.c): its parser, as functions on a line given as  *)
(* a sequence of one-letter strings, and runcmd, as the processes that run *)
(* one line.  A process's step is one case of runcmd up to the next system *)
(* call that can block or that forks.  A program a process execs reads its *)
(* input to the end and exits.                                             *)
(***************************************************************************)
EXTENDS Integers, Sequences, FiniteSets, FiniteSetsExt

CONSTANTS Lines,      \* the commands typed
          Wrong,      \* lines that are no commands
          MaxProc     \* processes there is room for

VARIABLES line, proc, npipe

hvars == <<line, proc, npipe>>

Word == {"a", "b", "f"}
Execcmd(argv) == [t |-> "exec", argv |-> argv]
Redircmd(c, file, how) == [t |-> "redir", c |-> c, file |-> file, how |-> how]
Pipecmd(l, r) == [t |-> "pipe", l |-> l, r |-> r]
Listcmd(l, r) == [t |-> "list", l |-> l, r |-> r]
Backcmd(c) == [t |-> "back", c |-> c]
Bad == [t |-> "panic"]

\* peek and gettoken, at place i of line s.
Skip(s, i) == LET past == {j \in i .. Len(s) : s[j] # " "} \union {Len(s) + 1} IN Min(past)
Ch(s, i) == IF i <= Len(s) THEN s[i] ELSE "end"
Peek(s, i, toks) == Ch(s, Skip(s, i)) \in toks
Token(s, k) ==
  LET c == Ch(s, k)
      out == {j \in k .. Len(s) : s[j] \notin Word} \union {Len(s) + 1}
      e == IF c \in Word THEN Min(out)
           ELSE IF c = ">" /\ Ch(s, k + 1) = ">" THEN k + 2
           ELSE IF c = "end" THEN k ELSE k + 1
  IN [tok |-> IF c \in Word THEN "word" ELSE IF e = k + 2 THEN "+" ELSE c,
      text |-> SubSeq(s, k, e - 1), at |-> Skip(s, e)]
Gettoken(s, i) == Token(s, Skip(s, i))

\* A parser's result is a command and where it stopped; a panic has no place.
Got(c, i) == [c |-> c, i |-> i]
Stops(s, i) == Peek(s, i, {"|", ")", "&", ";"})

RECURSIVE Parseredirs(_, _, _), Parseline(_, _), Parsepipe(_, _), Parseargs(_, _, _, _),
          Parseback(_, _, _)

Parseredirs(c, s, i) ==
  LET t == Gettoken(s, i)
      f == Gettoken(s, t.at)
  IN IF ~Peek(s, i, {"<", ">"}) THEN Got(c, i)
     ELSE IF f.tok # "word" THEN Got(Bad, 0)
     ELSE Parseredirs(Redircmd(c, f.text, t.tok), s, f.at)

\* The execcmd is inside the redirections read so far: argv is put in at the end.
RECURSIVE Filled(_, _)
Filled(c, argv) == IF c.t = "exec" THEN Execcmd(argv) ELSE [c EXCEPT !.c = Filled(@, argv)]

Parseargs(r, argv, s, i) ==
  LET t == Gettoken(s, i)
      x == Parseredirs(r, s, t.at)
  IN IF r = Bad THEN Got(Bad, 0)
     ELSE IF Stops(s, i) \/ t.tok = "end" THEN Got(Filled(r, argv), i)
     ELSE IF t.tok # "word" THEN Got(Bad, 0)
     ELSE Parseargs(x.c, Append(argv, t.text), s, x.i)

Parseblock(s, i) ==
  LET x == Parseline(s, Gettoken(s, i).at) IN
  IF x.c = Bad \/ ~Peek(s, x.i, {")"}) THEN Got(Bad, 0)
  ELSE Parseredirs(x.c, s, Gettoken(s, x.i).at)

Parseexec(s, i) ==
  LET x == Parseredirs(Execcmd(<<>>), s, i) IN
  IF Peek(s, i, {"("}) THEN Parseblock(s, i) ELSE Parseargs(x.c, <<>>, s, x.i)

Joined(y, Cmd(_)) == IF y.c = Bad THEN y ELSE Got(Cmd(y.c), y.i)
Piped(s, x) ==
  IF x.c = Bad \/ ~Peek(s, x.i, {"|"}) THEN x
  ELSE Joined(Parsepipe(s, Gettoken(s, x.i).at), LAMBDA r : Pipecmd(x.c, r))
Parsepipe(s, i) == Piped(s, Parseexec(s, i))

Parseback(c, s, i) ==
  IF Peek(s, i, {"&"}) THEN Parseback(Backcmd(c), s, Gettoken(s, i).at) ELSE Got(c, i)

Listed(s, b) ==
  IF ~Peek(s, b.i, {";"}) THEN b
  ELSE Joined(Parseline(s, Gettoken(s, b.i).at), LAMBDA r : Listcmd(b.c, r))
Backed(s, x) == IF x.c = Bad THEN x ELSE Listed(s, Parseback(x.c, s, x.i))
Parseline(s, i) == Backed(s, Parsepipe(s, i))

Parsecmd(s) ==
  LET x == Parseline(s, 1) IN
  IF x.c = Bad \/ Skip(s, x.i) # Len(s) + 1 THEN Bad ELSE x.c

\* How a command is written, with parentheses where the grammar needs them.
RECURSIVE Written(_), Plain(_)
Block(c) == <<"(">> \o Written(c) \o <<" ", ")">>
Plain(c) == c.t = "exec" \/ (c.t = "redir" /\ Plain(c.c))
Sign(how) == IF how = "+" THEN <<">", ">">> ELSE <<how>>
Written(c) ==
  LET Exec(x) == IF Plain(x) \/ x.t = "redir" THEN Written(x) ELSE Block(x)
      Pipe(x) == IF x.t = "pipe" THEN Written(x) ELSE Exec(x)
      Back(x) == IF x.t = "back" THEN Written(x) ELSE Pipe(x)
  IN CASE c.t = "exec" -> IF Len(c.argv) = 1 THEN c.argv[1]
                          ELSE c.argv[1] \o <<" ", " ">> \o c.argv[2]
       [] c.t = "redir" -> Exec(c.c) \o Sign(c.how) \o <<" ">> \o c.file
       [] c.t = "pipe" -> Exec(c.l) \o <<"|">> \o Pipe(c.r)
       [] c.t = "back" -> Back(c.c) \o <<" ", "&">>
       [] c.t = "list" -> Back(c.l) \o <<";">> \o Written(c.r)
-----------------------------------------------------------------------------
NoFile == <<"none", 0>>
Fd == 0 .. 6
Lowest(fds) == Min({d \in Fd : fds[d] = NoFile})
Open(fds, e) == [fds EXCEPT ![Lowest(fds)] = e]
Close(fds, d) == [fds EXCEPT ![d] = NoFile]

\* The start of main: the console is opened until a descriptor is 3, and that
\* one closed.
RECURSIVE EnsureThree(_)
EnsureThree(fds) ==
  IF Lowest(fds) >= 3 THEN fds ELSE EnsureThree(Open(fds, <<"console", 0>>))

\* A process: what it runs, its descriptors, the pipe it made, the input and
\* output it should give a program, and its parent.
InitProc == -1
Ready(c, fds, want, up) == [pc |-> "run", c |-> c, fds |-> fds, p |-> {}, want |-> want,
                            up |-> up]
Empty == [Ready(Bad, [d \in Fd |-> NoFile], <<NoFile, NoFile>>, InitProc) EXCEPT !.pc = "unused"]

\* The shell is process 0; it has forked process 1 for the line, parsed there.
HInit ==
  LET fds == EnsureThree([d \in Fd |-> NoFile]) IN
  /\ \/ \E c \in Lines : line = [typed |-> c, cmd |-> Parsecmd(Written(c))]
     \/ \E s \in Wrong : line = [typed |-> Bad, cmd |-> Parsecmd(s)]
  /\ proc = [p \in 0 .. MaxProc |->
               CASE p = 0 -> [Ready(Bad, fds, <<fds[0], fds[1]>>, InitProc) EXCEPT !.pc = "wait1"]
                 [] p = 1 -> Ready(line.cmd, fds, <<fds[0], fds[1]>>, 0)
                 [] OTHER -> Empty]
  /\ npipe = 0

Case(p, t) == proc[p].pc = "run" /\ proc[p].c.t = t
\* exit: the descriptors are closed, and the children go to init.
Exited(p) ==
  [q \in 0 .. MaxProc |->
     IF q = p THEN [Empty EXCEPT !.pc = "zombie", !.up = proc[p].up]
     ELSE IF proc[q].up = p THEN [proc[q] EXCEPT !.up = InitProc] ELSE proc[q]]
Free == {q \in 1 .. MaxProc : proc[q].pc = "unused"}

\* fork1, with what parent and child go on with; it panics if there is no room.
Fork1(p, now, child) ==
  proc' = IF Free = {} THEN Exited(p) ELSE [proc EXCEPT ![p] = now, ![Min(Free)] = child]

\* EXEC: the program runs with the descriptors as they are, or is not found.
RunExec(p) ==
  /\ Case(p, "exec")
  /\ \/ proc' = [proc EXCEPT ![p].pc = "program"]
     \/ proc' = Exited(p)
  /\ UNCHANGED <<line, npipe>>

\* REDIR: close, then open, which takes the lowest descriptor.
RunRedir(p) ==
  LET c == proc[p].c
      fd == IF c.how = "<" THEN 0 ELSE 1
      f == <<"file", IF c.how = "+" THEN 2 ELSE fd>>
  IN /\ Case(p, "redir")
     /\ \/ proc' = [proc EXCEPT ![p].c = c.c, ![p].fds = Open(Close(@, fd), f),
                                ![p].want[fd + 1] = f]
        \/ proc' = Exited(p)
     /\ UNCHANGED <<line, npipe>>

RunList(p) ==
  LET x == proc[p] IN
  /\ Case(p, "list")
  /\ Fork1(p, [x EXCEPT !.pc = "wait", !.c = x.c.r], Ready(x.c.l, x.fds, x.want, p))
  /\ UNCHANGED <<line, npipe>>

\* BACK: the parent exits at once.
RunBack(p) ==
  LET x == proc[p] IN
  /\ Case(p, "back")
  /\ proc' = IF Free = {} THEN Exited(p)
             ELSE [Exited(p) EXCEPT ![Min(Free)] = Ready(x.c.c, x.fds, x.want, InitProc)]
  /\ UNCHANGED <<line, npipe>>

\* PIPE.  The end e becomes descriptor d of a child, which closes the two
\* descriptors of the pipe.
Without(fds, ends) == [x \in Fd |-> IF x \in ends THEN NoFile ELSE fds[x]]
ChildEndsOne(fds, d, e, ends) == Without(Open(Close(fds, d), e), {Max(ends)})
ChildEnds(fds, d, e, ends) == Without(Open(Close(fds, d), e), ends)
ParentEndsOne(fds, ends) == Without(fds, {Min(ends)})
ParentEnds(fds, ends) == Without(fds, ends)

RunPipe(p) ==
  LET x == proc[p]
      rd == <<"read", npipe + 1>>
      wr == <<"write", npipe + 1>>
      both == Open(Open(x.fds, rd), wr)
      ends == {d \in Fd : both[d] \in {rd, wr}}
  IN /\ Case(p, "pipe")
     /\ npipe' = npipe + 1
     /\ Fork1(p, [x EXCEPT !.pc = "right", !.fds = both, !.p = ends],
              Ready(x.c.l, ChildEnds(both, 1, wr, ends), [x.want EXCEPT ![2] = wr], p))
     /\ UNCHANGED line

RunRight(p) ==
  LET x == proc[p]
      rd == x.fds[Min(x.p)]
  IN /\ x.pc = "right"
     /\ Fork1(p, [x EXCEPT !.pc = "wait2", !.fds = ParentEnds(x.fds, x.p)],
              Ready(x.c.r, ChildEnds(x.fds, 0, rd, x.p), [x.want EXCEPT ![1] = rd], p))
     /\ UNCHANGED <<line, npipe>>

\* wait: a child that has exited, or at once if there is none.
Kids(p) == {q \in 1 .. MaxProc : proc[q].pc # "unused" /\ proc[q].up = p}
Wait(p) ==
  LET x == proc[p]
      next == IF x.pc = "wait2" THEN [x EXCEPT !.pc = "wait1"]
              ELSE IF x.pc = "wait" THEN [x EXCEPT !.pc = "run"]
              ELSE IF p = 0 THEN [x EXCEPT !.pc = "prompt"]
              ELSE [Empty EXCEPT !.pc = "zombie", !.up = x.up]
  IN /\ x.pc \in {"wait", "wait1", "wait2"}
     /\ \/ \E q \in Kids(p) : /\ proc[q].pc = "zombie"
                              /\ proc' = [proc EXCEPT ![q] = Empty, ![p] = next]
        \/ Kids(p) = {} /\ proc' = [proc EXCEPT ![p] = next]
     /\ UNCHANGED <<line, npipe>>

\* A command that is not one, or the end of a program: at the end of its input,
\* if that is a pipe.
Writers(k) == {q \in 0 .. MaxProc : \E d \in Fd : proc[q].fds[d] = <<"write", k>>}
Finish(p) ==
  /\ \/ Case(p, "panic")
     \/ /\ proc[p].pc = "program"
        /\ proc[p].fds[0][1] = "read" => Writers(proc[p].fds[0][2]) = {}
  /\ proc' = Exited(p)
  /\ UNCHANGED <<line, npipe>>

\* init reaps the children it has been given.
InitReaps(p) ==
  /\ proc[p].pc = "zombie" /\ proc[p].up = InitProc
  /\ proc' = [proc EXCEPT ![p] = Empty]
  /\ UNCHANGED <<line, npipe>>

Step(p) ==
  \/ RunExec(p) \/ RunRedir(p) \/ RunList(p) \/ RunBack(p) \/ RunPipe(p) \/ RunRight(p)
  \/ Wait(p) \/ Finish(p)

HNext == \E p \in 0 .. MaxProc : Step(p) \/ InitReaps(p)

\* The kernel schedules every process, and init is one.
HSpec == HInit /\ [][HNext]_hvars
         /\ \A p \in 0 .. MaxProc : WF_hvars(Step(p)) /\ WF_hvars(InitReaps(p))
-----------------------------------------------------------------------------
\* The command the parser makes of a line is the one that was written, with the
\* nesting of pipes, lists, background commands, blocks and redirections; a
\* line that is no command is refused.
ParsedAsWritten == line.cmd = line.typed

\* A program starts with the input and output its place in the line says, and
\* with no other end of a pipe, which would keep a reader waiting.
ProgramHasItsEnds ==
  \A p \in 1 .. MaxProc : proc[p].pc = "program" =>
    /\ proc[p].fds[0] = proc[p].want[1] /\ proc[p].fds[1] = proc[p].want[2]
    /\ \A d \in Fd \ {0, 1} : proc[p].fds[d][1] \notin {"read", "write"}

\* The shell's prompt comes back, and in the end every process of the line, the
\* ones in the background too, is gone, though a program reads its input until
\* no process has the other end of the pipe.
LineDone == proc[0].pc = "prompt" /\ \A p \in 1 .. MaxProc : proc[p].pc = "unused"
LineEnds == <>[]LineDone
=============================================================================
