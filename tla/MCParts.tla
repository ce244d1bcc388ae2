------------------------------ MODULE MCParts -------------------------------
(* Components that share no state, checked one beside the other: a behaviour *)
(* picks one of Parts and is a behaviour of that component alone.  v1, v2... *)
(* are the variables of the component picked, and 0 from there on.           *)
EXTENDS Integers, Sequences, TLC

CONSTANTS
  Parts,      \* of "tree", "blocks", "mkfs", "names", "memory", "locks", "log", "console",
              \* "malloc", "quiz", "grep", "calc"
  Thread,     \* processes in calls of the directory tree
  None

VARIABLES
  which,
  v1, v2, v3, v4, v5, v6, v7, v8, v9, v10, v11, v12, v13, v14, v15

-----------------------------------------------------------------------------
(* Calls from the root and from /a/b, on names there and on its parent.      *)
MCCalls ==
  ({"open", "mkdir", "unlink"} \X {<<"a">>, <<"/", "a", "b">>} \X {<<>>})
  \union ({"create", "mknod", "chdir"} \X {<<"/", "a", "b">>} \X {<<>>})
  \union ({"unlink", "chdir"} \X {<<"..">>} \X {<<>>})
  \union {<<"link", <<"/", "a", "b">>, <<"b">>>>}

T == INSTANCE FsTree WITH
       Inum <- {1, 2, 3}, Name <- {"a", "b"}, Calls <- MCCalls, MaxCalls <- 3, MaxCrashes <- 1,
       ino <- v1, dir <- v2, mem <- v3, valid <- v4, ref <- v5, lk <- v6, th <- v7, cwd <- v8,
       fd <- v9, dur <- v10, mode <- v11, stray <- v12, hasty <- v13, calls <- v14,
       crashes <- v15

Symmetry == Permutations(Thread)

B == INSTANCE FsBlocks WITH
       File <- {"f1", "f2"}, NBLOCK <- 5, BPB <- 3, BSIZE <- 2, NDIRECT <- 1, NINDIRECT <- 3,
       MAXOPBLOCKS <- 6, Count <- {1, 5}, MaxCalls <- 3,
       free <- v1, addrs <- v2, size <- v3, data <- v4, ptr <- v5, lk <- v6, of <- v7,
       pos <- v8, th <- v9, told <- v10, calls <- v11

(* Up to three files, of up to nine bytes: more than the largest file holds. *)
Given(name, n) == [name |-> name, data |-> [i \in 1..n |-> 100 + i]]
MCInputs ==
  {<<>>} \union {<<Given("a", n)>> : n \in 0..9}
  \union {<<Given("a", n), Given("b", k)>> : n \in 0..9, k \in 0..9}
  \union {<<Given("a", n), Given("b", k), Given("c", 3)>> : n \in 0..9, k \in 0..9}

M == INSTANCE Mkfs WITH
       BSIZE <- 2, NDIRECT <- 2, NINDIRECT <- 2, NMETA <- 3, FSSIZE <- 22, Inputs <- MCInputs,
       files <- v1, taken <- v2, inode <- v3, block <- v4, freeblock <- v5, bitmap <- v6,
       stage <- v7

N == INSTANCE Strings WITH
       Size <- 6, Chars <- {1, 2}, DIRSIZ <- 2,
       call <- v1, mem <- v2, ret <- v3

Seg(v, f, m, rw) == [load |-> TRUE, off |-> v + 1, vaddr |-> v, filesz |-> f, memsz |-> m, w |-> rw]
Elf(n, s) == [magic |-> TRUE, len |-> n, segs |-> s]
MCPrograms ==
  {Elf(20, <<Seg(0, 2, 3, FALSE), Seg(4, 1, 5, TRUE)>>),
   Elf(20, <<Seg(4, 4, 4, TRUE), [Seg(0, 4, 4, FALSE) EXCEPT !.load = FALSE], Seg(0, 3, 3, FALSE)>>),
   Elf(5, <<Seg(0, 2, 2, FALSE), Seg(4, 3, 3, TRUE)>>)}

A == INSTANCE AddrSpace WITH
       Proc <- {"p", "q"}, First <- "p", Frames <- {10, 15, 20}, PGSIZE <- 4, FAN <- 2,
       USERSTACK <- 1, ALIGN <- 2, PTR <- 1, Boot <- Elf(20, <<Seg(0, 1, 1, FALSE)>>),
       Programs <- MCPrograms, Args <- {<<>>, <<2>>}, Delta <- {3, 5, -6}, Addr <- {1, 5, 10},
       Lens <- {3}, MaxOps <- 4,
       phys <- v1, tbl <- v2, sz <- v3, told <- v4, last <- v5, ops <- v6

L == INSTANCE Locks WITH
       Cpu <- {"c0", "c1"}, Cpu0 <- "c0", Proc <- {"p", "q"}, Sch <- [c0 |-> "s0", c1 |-> "s1"],
       None <- "none", UINT <- 4, Wait <- {1}, MaxCalls <- 1, MaxTimer <- 2,
       locked <- v1, owner <- v2, intr <- v3, noff <- v4, intena <- v5, cur <- v6, code <- v7,
       state <- v8, ticks <- v9, panic <- v10, left <- v11

S == INSTANCE Syslog WITH
       Cpu <- {"c0", "c1"}, None <- "none", LOG_BUF_SIZE <- 3,
       Arg <- {<<-64, TRUE>>, <<127, FALSE>>, <<9, TRUE>>}, BITS <- 7, PRINTBUF <- 3,
       MaxLen <- 2, MaxMsgs <- 2,
       panicking <- v1, panicked <- v2, pr <- v3, lbuf <- v4, lr <- v5, lw <- v6, pf <- v7,
       out <- v8, logged <- v9, msgs <- v10

C == INSTANCE Console WITH
       Reader <- {"r1", "r2"}, None <- "none", INPUT_BUF_SIZE <- 2, UINT <- 4,
       Key <- {"x", "nl", "eof", "bs", "kill"}, Want <- {1, 2}, MaxTyped <- 5, MaxReads <- 4,
       buf <- v1, r <- v2, w <- v3, e <- v4, lock <- v5, rd <- v6, cooked <- v7, line <- v8,
       typed <- v9, reads <- v10

W == INSTANCE Umalloc WITH
       Top <- 12, MINCORE <- 4, Units <- {2, 3, 5}, MaxOps <- 8,
       h <- v1, brk <- v2, live <- v3, foreign <- v4, ops <- v5

Q == INSTANCE Quiz WITH
       BANK <- 2, CUT <- 2, MAXQ <- 2, Subject <- {"IC", "M"}, Letter <- {"a", "b"},
       Students <- {2}, Seconds <- {0, 9}, MaxRuns <- 3,
       files <- v1, good <- v2, hist <- v3, runs <- v4

(* Every short pattern on a file of one line, two patterns on every short    *)
(* file.                                                                     *)
UpTo(X, n) == UNION {[1..k -> X] : k \in 0..n}
MCRuns ==
  (UpTo({"a", "b", ".", "*", "^", "$"}, 4) \X {<<"a", "nl">>})
  \union ({<<"a">>, <<"^", "a", "*", "$">>} \X UpTo({"a", "b", "nl"}, 5))

G == INSTANCE Grep WITH
       BUF <- 4, Runs <- MCRuns, Texts <- UpTo({"a", "b"}, 3),
       pattern <- v1, file <- v2, left <- v3, buf <- v4, out <- v5, done <- v6

(* The expressions of two operators, after a line that assigns the variable  *)
(* they use.                                                                 *)
Num(t, v) == [op |-> "num", text |-> t, value |-> v]
Leaf == {Num(<<"1", "2">>, 12), Num(<<"5">>, 5), [op |-> "var", text |-> <<"a">>]}
Grown(X, Y) ==
  {[op |-> o, l |-> x, r |-> y] : o \in {"+", "-", "*", "/", "%"}, x \in X, y \in Y}
  \union {[op |-> "neg", of |-> x] : x \in X}
MCExprs == LET one == Leaf \union Grown(Leaf, Leaf) IN Leaf \union Grown(one, Leaf) \union Grown(Leaf, one)
MCSessions ==
  {<<[to |-> "a", e |-> x], [to |-> y, e |-> z]>> :
     x \in {Num(<<"3">>, 3), [op |-> "neg", of |-> Num(<<"7">>, 7)]}, y \in {"none", "b"}, z \in MCExprs}

K == INSTANCE Calc WITH
       Sessions <- MCSessions,
       vars <- v1, session <- v2, asked <- v3, answer <- v4

-----------------------------------------------------------------------------
(* The variables a component of n variables leaves.                          *)
After11 == <<v12, v13, v14, v15>>
After10 == <<v11, After11>>
After7 == <<v8, v9, v10, After10>>
After6 == <<v7, After7>>
After5 == <<v6, After6>>
After4 == <<v5, After5>>
After3 == <<v4, After4>>

Zero11 == v12 = 0 /\ v13 = 0 /\ v14 = 0 /\ v15 = 0
Zero10 == v11 = 0 /\ Zero11
Zero7 == v8 = 0 /\ v9 = 0 /\ v10 = 0 /\ Zero10
Zero6 == v7 = 0 /\ Zero7
Zero5 == v6 = 0 /\ Zero6
Zero4 == v5 = 0 /\ Zero5
Zero3 == v4 = 0 /\ Zero4

all == <<which, v1, v2, v3, After3>>

Init ==
  /\ which \in Parts
  /\ \/ which = "tree" /\ T!Init
     \/ which = "blocks" /\ B!Init /\ Zero11
     \/ which = "mkfs" /\ M!FInit /\ Zero7
     \/ which = "names" /\ N!TInit /\ Zero3
     \/ which = "memory" /\ A!Init /\ Zero6
     \/ which = "locks" /\ L!LInit /\ Zero11
     \/ which = "log" /\ S!SInit /\ Zero10
     \/ which = "console" /\ C!CInit /\ Zero10
     \/ which = "malloc" /\ W!WInit /\ Zero5
     \/ which = "quiz" /\ Q!QInit /\ Zero4
     \/ which = "grep" /\ G!GInit /\ Zero6
     \/ which = "calc" /\ K!KInit /\ Zero4

Tree == which = "tree" /\ T!Next /\ UNCHANGED which
Blocks == which = "blocks" /\ B!Next /\ UNCHANGED <<which, After11>>
MakeImage == which = "mkfs" /\ M!FNext /\ UNCHANGED <<which, After7>>
Names == which = "names" /\ N!TNext /\ UNCHANGED <<which, After3>>
Memory == which = "memory" /\ A!Next /\ UNCHANGED <<which, After6>>
SpinLocks == which = "locks" /\ L!LNext /\ UNCHANGED <<which, After11>>
SystemLog == which = "log" /\ S!SNext /\ UNCHANGED <<which, After10>>
Input == which = "console" /\ C!CNext /\ UNCHANGED <<which, After10>>
Heap == which = "malloc" /\ W!WNext /\ UNCHANGED <<which, After5>>
Quizzes == which = "quiz" /\ Q!QNext /\ UNCHANGED <<which, After4>>
Search == which = "grep" /\ G!GNext /\ UNCHANGED <<which, After6>>
Calculator == which = "calc" /\ K!KNext /\ UNCHANGED <<which, After4>>

Next ==
  \/ Tree \/ Blocks \/ MakeImage \/ Names
  \/ Memory \/ SpinLocks \/ SystemLog \/ Input
  \/ Heap \/ Quizzes \/ Search \/ Calculator
Spec == Init /\ [][Next]_all

-----------------------------------------------------------------------------
(* An in-memory inode's ref counts the calls, descriptors and directories in *)
(* use that hold it; a name in a directory has an allocated inode whose link *)
(* count covers it; an inode without a name is held by someone, or ireclaim  *)
(* will find it (fs.c iget, idup, iput, ireclaim; sysfile.c).                *)
TreeSound == which = "tree" => T!TypeOK /\ T!RefsExact /\ T!NamesCovered /\ T!OrphansHeld
(* What a crash leaves is a tree with exact link counts.                     *)
DurableTree == which = "tree" => T!DurableTree
(* Calls never wait for each other's inode locks in a circle, and iput takes *)
(* the sleep lock only where it cannot block, fs.c: "so this acquiresleep()  *)
(* won't block (or deadlock)."                                               *)
NoLockCycle == which = "tree" => T!NoLockCycle /\ T!IputWontBlock
(* iput frees an inode with no links when its last reference goes: fs.c,     *)
(* "ialloc() allocates, and iput() frees if the reference and link counts    *)
(* have fallen to zero."                                                     *)
IputFrees == which = "tree" => T!IputFrees
(* ilock never meets an inode that was freed.                                *)
LockedInodeHasType == which = "tree" => T!LockedInodeHasType

(* readi returns what writei stored, across block boundaries; a block is     *)
(* free or in one place of one file; a transaction of filewrite fits in the  *)
(* log space reserved for it.                                                *)
ContentSound ==
  which = "blocks" => B!BlocksTypeOK /\ B!ReadsWhatWasWritten /\ B!BlocksAccounted /\ B!ChunkFits

(* The kernel reads from the image the files mkfs was given, and the bitmap  *)
(* marks the blocks in use, each used once; a directory entry is found by    *)
(* its name and no other, and memmove and safestrcpy copy what they should   *)
(* (mkfs.c; string.c, ulib.c).                                               *)
ImageSound ==
  /\ which = "mkfs" => M!ImageHoldsFiles /\ M!BitmapExact
  /\ which = "names" => N!NameFound /\ N!MovesAtOnce /\ N!CopyTerminated

(* Every frame is free or in use once, whichever step of exec, fork, sbrk or *)
(* a fault fails, and none of them reaches a panic of vm.c or exec.c.        *)
FramesConserved == which = "memory" => A!FramesConserved /\ A!NoPanic
(* A process's memory holds what it and its parent stored, and the arguments *)
(* exec pushed where the program looks for them.                             *)
MemoryAsTold == which = "memory" => A!MemoryAsTold /\ A!ArgvReadable
(* The guard page below the stack stays closed: exec.c, "Make the first      *)
(* inaccessible as a stack guard."                                           *)
GuardStaysClosed == [][which = "memory" => A!GuardClosed]_all

(* The holder of a spin lock runs, so that a CPU that spins waits for        *)
(* someone; a system call can be preempted on whichever CPU it resumes; no   *)
(* panic of spinlock.c or of sched is reached.                               *)
LocksSound == which = "locks" => L!HolderRuns /\ L!SyscallPreemptible /\ L!LocksNoPanic

(* The log holds the latest characters of what the console shows, in order;  *)
(* messages of two CPUs do not mix; numbers are printed right at every width *)
(* (printf.c).                                                               *)
LogSound ==
  which = "log" => S!LogHoldsLatest /\ S!LogFollowsConsole /\ S!MessagesWhole /\ S!IntPrinted

(* Readers get the lines typed, none sleeps on a line that is there, and a   *)
(* full input buffer can be read (console.c).                                *)
ConsoleSound == which = "console" => C!LineDiscipline /\ C!NoMissedLine /\ C!FullIsReadable

(* Every header of the heap is in one block, and the free ring is in address *)
(* order and joined (umalloc.c).                                             *)
HeapSound == which = "malloc" => W!EachHeaderOnce /\ W!RingJoined

(* The programs compute what they should: a quiz is marked by the key of its *)
(* questions, and its report and histogram are complete; grep prints the     *)
(* lines its pattern describes, however reads cut them; the calculator       *)
(* prints the value of the expression.                                       *)
ProgramsRight ==
  /\ which = "quiz" => Q!KeyMatchesQuestions /\ Q!RowsComplete /\ Q!HistogramRight
  /\ which = "grep" => G!PrintsMatches /\ G!MatcherRight
  /\ which = "calc" => K!AnswersRight
=============================================================================
