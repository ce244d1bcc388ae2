------------------------------- MODULE FsTree -------------------------------
(***************************************************************************)
(* Inodes, directories and path names (src/kernel/fs.c) and the system     *)
(* calls that change the tree (src/kernel/sysfile.c).                      *)
(*                                                                         *)
(* A step runs from one point where a thread may wait, or where it has     *)
(* given up a lock, to the next.  ino is the dinode and dir the directory  *)
(* content as the buffers hold them; mem, valid, ref and lk are the fields *)
(* of the inode table entry.  dur is the state of the last commit: end_op  *)
(* commits when no other operation is outstanding, and a crash goes back   *)
(* to it (FsLog shows that the log does this).                             *)
(***************************************************************************)
EXTENDS Integers, Sequences, FiniteSets, SequencesExt

CONSTANTS Thread,    \* processes in system calls
          None,      \* no thread
          Inum,      \* inode numbers; 0 is no inode
          Name,      \* names other than "." and ".."
          Calls,     \* the calls to make: <<op, path, new>>; op is open, create,
                     \* mkdir, mknod, unlink, chdir or link, a path is a sequence
                     \* of names, "/" first if absolute, new is the one link gives
          MaxCalls,  \* bound: system calls made
          MaxCrashes \* bound: crashes

ROOTINO == 1

VARIABLES ino, dir, mem, valid, ref, lk, th, cwd, fd, dur, mode, stray,
          hasty, calls, crashes

table == <<mem, valid, ref, lk>>
vars == <<ino, dir, table, th, cwd, fd, dur, mode, stray, hasty, calls, crashes>>

Dots == {".", ".."}
Fields == [type : {"free", "file", "dir", "device"}, nlink : Nat]
NoEntry == [n \in Name \union Dots |-> 0]
Idle == [pc |-> "idle", op |-> "none", path |-> <<>>, new |-> <<>>, at |-> 0,
         dp |-> 0, ip |-> 0, rel |-> <<>>, stage |-> "decide"]

(***************************************************************************)
(* The tree holds a directory /a, and perhaps /a/b with a process in it.   *)
(***************************************************************************)
Init ==
  /\ \E k \in {2, 3}, t \in Thread :
       /\ ino = [i \in Inum |-> IF i <= k THEN [type |-> "dir",
                                               nlink |-> IF i < k THEN 2 ELSE 1]
                                ELSE [type |-> "free", nlink |-> 0]]
       /\ dir = [i \in Inum |->
            IF i > k THEN NoEntry
            ELSE [n \in Name \union Dots |->
                    CASE n = "." -> i
                      [] n = ".." -> IF i = 3 THEN 2 ELSE ROOTINO
                      [] n = "a" /\ i = 1 -> 2
                      [] n = "b" /\ i = 2 /\ k = 3 -> 3
                      [] OTHER -> 0]]
       /\ cwd = [u \in Thread |-> IF k = 3 /\ u = t THEN 3 ELSE ROOTINO]
  /\ mem = ino
  /\ valid = [i \in Inum |-> FALSE]
  /\ ref = [i \in Inum |-> Cardinality({u \in Thread : cwd[u] = i})]
  /\ lk = [i \in Inum |-> None]
  /\ th = [t \in Thread |-> Idle]
  /\ fd = [t \in Thread |-> 0]
  /\ dur = [ino |-> ino, dir |-> dir]
  /\ mode = "run" /\ stray = FALSE /\ hasty = {} /\ calls = 0 /\ crashes = 0

\* The directories that names lead to from the root.
Attached(fs) ==
  LET Below(S) == {i \in Inum : /\ fs.ino[i].type = "dir"
                                /\ \E d \in S, n \in Name : fs.dir[d][n] = i}
      reach[k \in 0 .. Cardinality(Inum)] ==
        IF k = 0 THEN {ROOTINO} ELSE reach[k - 1] \union Below(reach[k - 1])
  IN reach[Cardinality(Inum)]

Now == [ino |-> ino, dir |-> dir]

IgetAnew(i) ==
  /\ ref' = [ref EXCEPT ![i] = 1]
  /\ valid' = [valid EXCEPT ![i] = FALSE]

\* iget: the entry of i gains a reference; an entry nobody holds is recycled.
Iget(i) ==
  /\ ref' = [ref EXCEPT ![i] = @ + 1]
  /\ valid' = [valid EXCEPT ![i] = @ /\ ref[i] > 0]

\* What ilock leaves in the entry: read from the disk unless valid.
Loaded(i) == IF valid[i] THEN mem[i] ELSE ino[i]

\* The inode the thread locks next.
Target(t) ==
  CASE th[t].pc = "walk" -> th[t].at
    [] th[t].pc = "parent" -> th[t].dp
    [] th[t].pc \in {"found", "exists", "fill", "victim", "bad"} -> th[t].ip
    [] OTHER -> 0

\* ilock can go through: the sleep lock is free and the inode has a type.
Ilock(t, pc) ==
  /\ mode = "run"
  /\ th[t].pc = pc /\ th[t].rel = <<>>
  /\ lk[Target(t)] = None
  /\ Loaded(Target(t)).type # "free"

\* iupdate: the fields of i in the entry and in its dinode.
Iupdate(i, f) ==
  /\ mem' = [mem EXCEPT ![i] = f]
  /\ ino' = [ino EXCEPT ![i] = f]

\* ilock without a change of the fields.
Load(i) == mem' = [mem EXCEPT ![i] = Loaded(i)] /\ UNCHANGED ino

Start(t, path) == IF path[1] = "/" THEN ROOTINO ELSE cwd[t]
Elems(path) == IF path[1] = "/" THEN Tail(path) ELSE path

Parental(op) == op \in {"create", "mkdir", "mknod", "unlink"}

\* A system call with a path: begin_op, then namex from the root or the cwd.
Begin(t, op, path, new) ==
  /\ mode = "run" /\ th[t].pc = "idle" /\ calls < MaxCalls
  /\ calls' = calls + 1
  /\ th' = [th EXCEPT ![t] = [Idle EXCEPT !.pc = "walk", !.op = op,
                                !.path = Elems(path), !.new = new,
                                !.at = Start(t, path)]]
  /\ Iget(Start(t, path))
  /\ UNCHANGED <<ino, dir, mem, lk, cwd, fd, dur, mode, stray, hasty, crashes>>

\* fileclose of an inode file: begin_op, iput, end_op.
Close(t) ==
  /\ mode = "run" /\ th[t].pc = "idle" /\ fd[t] # 0
  /\ th' = [th EXCEPT ![t] = [Idle EXCEPT !.pc = "end", !.rel = <<fd[t]>>]]
  /\ fd' = [fd EXCEPT ![t] = 0]
  /\ UNCHANGED <<ino, dir, table, cwd, dur, mode, stray, hasty, calls, crashes>>

\* Where a failing lookup goes: sys_link has its own way out.
Failed(t) == IF th[t].ip # 0 THEN "bad" ELSE "end"

\* One turn of the loop of namex: a directory is left for what its entry
\* names, for good when the path ends there.  The parent is wanted by create and unlink,
\* and by link once it has the inode to link.
Namex(t) ==
  LET i == th[t].at
      stop == (Parental(th[t].op) \/ th[t].ip # 0) /\ Len(th[t].path) = 1
      found == dir[i][th[t].path[1]]
      lost == Loaded(i).type # "dir" \/ (~stop /\ found = 0)
      next == IF lost \/ stop THEN 0 ELSE found
  IN /\ Ilock(t, "walk")
     /\ Load(i)
     /\ ref' = [j \in Inum |-> ref[j] + IF j = next THEN 1 ELSE 0]
     /\ valid' = [j \in Inum |-> j = i \/ (valid[j] /\ (j = next => ref[j] > 0))]
     /\ th' = [th EXCEPT ![t] =
          CASE lost -> [@ EXCEPT !.pc = Failed(t), !.at = 0, !.rel = <<i>>]
            [] ~lost /\ stop -> [@ EXCEPT !.pc = "parent", !.at = 0, !.dp = i]
            [] ~lost /\ ~stop /\ Len(th[t].path) = 1 ->
                 [@ EXCEPT !.pc = "found", !.at = 0, !.ip = next, !.rel = <<i>>]
            [] OTHER -> [@ EXCEPT !.at = next, !.path = Tail(@), !.rel = <<i>>]]
     /\ UNCHANGED <<dir, lk, cwd, fd, dur, mode, stray, hasty, calls, crashes>>

\* The rest of sys_open once it has the inode locked.
Opened(t, i) ==
  IF fd[t] = 0
  THEN /\ fd' = [fd EXCEPT ![t] = i]
       /\ th' = [th EXCEPT ![t].pc = "end", ![t].ip = 0]
  ELSE /\ th' = [th EXCEPT ![t].pc = "end", ![t].ip = 0, ![t].rel = @ \o <<i>>]
       /\ UNCHANGED fd

Quiet == UNCHANGED <<dir, cwd, dur, mode, stray, hasty, calls, crashes>>

\* sys_open without O_CREATE; a directory opens for reading only.
OpenFound(t) ==
  LET i == th[t].ip IN
  /\ Ilock(t, "found") /\ th[t].op = "open"
  /\ Load(i) /\ valid' = [valid EXCEPT ![i] = TRUE]
  /\ \/ Opened(t, i)
     \/ /\ Loaded(i).type = "dir"
        /\ th' = [th EXCEPT ![t].pc = "end", ![t].ip = 0, ![t].rel = <<i>>]
        /\ UNCHANGED fd
  /\ UNCHANGED <<ref, lk>> /\ Quiet

\* sys_chdir: the old directory is put inside the transaction.
ChdirFound(t) ==
  LET i == th[t].ip
      isdir == Loaded(i).type = "dir"
  IN /\ Ilock(t, "found") /\ th[t].op = "chdir"
     /\ Load(i) /\ valid' = [valid EXCEPT ![i] = TRUE]
     /\ th' = [th EXCEPT ![t].pc = "end", ![t].ip = 0,
                         ![t].rel = <<IF isdir THEN cwd[t] ELSE i>>]
     /\ cwd' = IF isdir THEN [cwd EXCEPT ![t] = i] ELSE cwd
     /\ UNCHANGED <<dir, ref, lk, fd, dur, mode, stray, hasty, calls, crashes>>

\* sys_link, first half: count the new link, then look for the directory.
LinkFound(t) ==
  LET i == th[t].ip
      f == Loaded(i)
      s == Start(t, th[t].new)
  IN /\ Ilock(t, "found") /\ th[t].op = "link"
     /\ IF f.type = "dir"
        THEN /\ Load(i)
             /\ th' = [th EXCEPT ![t].pc = "end", ![t].ip = 0, ![t].rel = <<i>>]
             /\ valid' = [valid EXCEPT ![i] = TRUE] /\ UNCHANGED ref
        ELSE /\ Iupdate(i, [f EXCEPT !.nlink = @ + 1])
             /\ th' = [th EXCEPT ![t].pc = "walk", ![t].at = s,
                                 ![t].path = Elems(th[t].new)]
             /\ ref' = [ref EXCEPT ![s] = @ + 1]
             /\ valid' = [valid EXCEPT ![i] = TRUE]
     /\ UNCHANGED <<lk, fd>> /\ Quiet

\* A new name in a directory the root does not lead to.
Strays(d) == d \notin Attached(Now)

\* sys_link, second half; dirlink fails if the name exists or the disk is full.
LinkParent(t) ==
  LET d == th[t].dp
      i == th[t].ip
      n == Last(th[t].path)
  IN /\ Ilock(t, "parent") /\ th[t].op = "link"
     /\ Load(d) /\ valid' = [valid EXCEPT ![d] = TRUE]
     /\ \/ /\ th' = [th EXCEPT ![t].pc = "bad", ![t].dp = 0, ![t].rel = <<d>>]
           /\ UNCHANGED <<dir, stray>>
        \/ /\ dir[d][n] = 0
           /\ dir' = [dir EXCEPT ![d][n] = i]
           /\ stray' = (stray \/ Strays(d))
           /\ th' = [th EXCEPT ![t].pc = "end", ![t].dp = 0, ![t].ip = 0,
                               ![t].rel = <<d, i>>]
     /\ UNCHANGED <<ref, lk, cwd, fd, dur, mode, hasty, calls, crashes>>

\* One link less.
Less(f) == [f EXCEPT !.nlink = @ - 1]

\* sys_link, the way out "bad": the link is not counted after all.
LinkBad(t) ==
  LET i == th[t].ip IN
  /\ Ilock(t, "bad")
  /\ Iupdate(i, Less(Loaded(i)))
  /\ valid' = [valid EXCEPT ![i] = TRUE]
  /\ th' = [th EXCEPT ![t].pc = "end", ![t].ip = 0, ![t].rel = <<i>>]
  /\ UNCHANGED <<ref, lk, fd>> /\ Quiet

TypeOf(op) == CASE op = "create" -> "file" [] op = "mkdir" -> "dir"
                [] op = "mknod" -> "device" [] OTHER -> "none"

\* ialloc: the first dinode without a type is marked allocated on the disk.
Spare == {i \in Inum : ino[i].type = "free"}
Ialloc(i, op) == ino' = [ino EXCEPT ![i] = [type |-> TypeOf(op), nlink |-> 0]]

\* create, in the directory: look the name up, and if it is not there take an
\* inode for it and keep the directory locked.
CreateParent(t) ==
  LET d == th[t].dp
      e == dir[d][Last(th[t].path)]
      i == IF e # 0 \/ Spare = {} THEN e
           ELSE CHOOSE j \in Spare : \A k \in Spare : j <= k
  IN /\ Ilock(t, "parent") /\ TypeOf(th[t].op) # "none"
     /\ mem' = [mem EXCEPT ![d] = Loaded(d)]
     /\ ref' = [j \in Inum |-> ref[j] + IF j = i THEN 1 ELSE 0]
     /\ valid' = [j \in Inum |-> j = d \/ (valid[j] /\ (j = i => ref[j] > 0))]
     /\ CASE e # 0 ->
               /\ th' = [th EXCEPT ![t].pc = "exists", ![t].dp = 0,
                                   ![t].ip = i, ![t].rel = <<d>>]
               /\ UNCHANGED <<ino, lk, hasty>>
          [] e = 0 /\ i # 0 ->
               /\ th' = [th EXCEPT ![t].pc = "fill", ![t].ip = i]
               /\ Ialloc(i, th[t].op)
               /\ hasty' = IF ref[i] > 0 THEN hasty \union {i} ELSE hasty
               /\ lk' = [lk EXCEPT ![d] = t]
          [] OTHER ->
               /\ th' = [th EXCEPT ![t].pc = "end", ![t].dp = 0, ![t].rel = <<d>>]
               /\ UNCHANGED <<ino, lk, hasty>>
     /\ UNCHANGED <<dir, cwd, fd, dur, mode, stray, calls, crashes>>

\* create: a name that exists is returned if it can be opened as a file.
CreateExists(t) ==
  LET i == th[t].ip IN
  /\ Ilock(t, "exists")
  /\ Load(i) /\ valid' = [valid EXCEPT ![i] = TRUE]
  /\ IF th[t].op = "create" /\ Loaded(i).type # "dir"
     THEN Opened(t, i)
     ELSE /\ th' = [th EXCEPT ![t].pc = "end", ![t].ip = 0, ![t].rel = <<i>>]
          /\ UNCHANGED fd
  /\ UNCHANGED <<ref, lk>> /\ Quiet

\* create, with both inodes locked: the link count and the names.  A dirlink
\* fails when the disk is full; then the inode is put with no link.
Fill(t, full) ==
  LET d == th[t].dp
      i == th[t].ip
      isdir == th[t].op = "mkdir"
      f == [Loaded(i) EXCEPT !.nlink = IF full THEN 0 ELSE 1]
      up == [mem[d] EXCEPT !.nlink = @ + 1]
  IN /\ Ilock(t, "fill")
     /\ valid' = [valid EXCEPT ![i] = TRUE]
     /\ IF full
        THEN /\ Iupdate(i, f)
             /\ th' = [th EXCEPT ![t].pc = "end", ![t].dp = 0, ![t].ip = 0,
                                 ![t].rel = <<i, d>>]
             /\ lk' = [lk EXCEPT ![i] = t]
             /\ UNCHANGED <<dir, fd, stray>>
        ELSE /\ mem' = [mem EXCEPT ![i] = f, ![d] = IF isdir THEN up ELSE @]
             /\ ino' = [ino EXCEPT ![i] = f, ![d] = IF isdir THEN up ELSE @]
             /\ dir' = [dir EXCEPT ![d][Last(th[t].path)] = i,
                          ![i] = IF isdir
                                 THEN [@ EXCEPT !["."] = i, ![".."] = d] ELSE @]
             /\ stray' = (stray \/ Strays(d))
             /\ lk' = [lk EXCEPT ![i] = t]
             /\ IF th[t].op = "create" /\ fd[t] = 0
                THEN /\ fd' = [fd EXCEPT ![t] = i]
                     /\ th' = [th EXCEPT ![t].pc = "end", ![t].dp = 0,
                                         ![t].ip = 0, ![t].rel = <<d>>]
                ELSE /\ th' = [th EXCEPT ![t].pc = "end", ![t].dp = 0,
                                         ![t].ip = 0, ![t].rel = <<d, i>>]
                     /\ UNCHANGED fd
     /\ UNCHANGED <<ref, cwd, dur, mode, hasty, calls, crashes>>

RefusedNever(n) == FALSE

\* "." and ".." cannot be unlinked.
Refused(n) == n \in Dots

\* sys_unlink: find the entry with the directory locked.
UnlinkParent(t) ==
  LET d == th[t].dp
      n == Last(th[t].path)
      i == IF Refused(n) THEN 0 ELSE dir[d][n]
  IN /\ Ilock(t, "parent") /\ th[t].op = "unlink"
     /\ Load(d)
     /\ IF i = 0
        THEN /\ th' = [th EXCEPT ![t].pc = "end", ![t].dp = 0, ![t].rel = <<d>>]
             /\ valid' = [valid EXCEPT ![d] = TRUE] /\ UNCHANGED <<ref, lk>>
        ELSE /\ th' = [th EXCEPT ![t].pc = "victim", ![t].ip = i]
             /\ lk' = [lk EXCEPT ![d] = t]
             /\ ref' = [ref EXCEPT ![i] = @ + 1]
             /\ valid' = [j \in Inum |->
                            j = d \/ (valid[j] /\ (j = i => ref[j] > 0))]
     /\ UNCHANGED fd /\ Quiet

IsDirEmpty(i) == \A n \in Name : dir[i][n] = 0

\* sys_unlink with both locked: the entry goes, then the counts.
UnlinkVictim(t) ==
  LET d == th[t].dp
      i == th[t].ip
      f == Loaded(i)
      keep == f.type = "dir" /\ ~IsDirEmpty(i)
      down == IF f.type = "dir" THEN Less(mem[d]) ELSE mem[d]
  IN /\ Ilock(t, "victim") /\ f.nlink > 0
     /\ valid' = [valid EXCEPT ![i] = TRUE]
     /\ lk' = [lk EXCEPT ![i] = t]
     /\ IF keep
        THEN /\ Load(i)
             /\ th' = [th EXCEPT ![t].pc = "end", ![t].dp = 0, ![t].ip = 0,
                                 ![t].rel = <<i, d>>]
             /\ UNCHANGED dir
        ELSE /\ dir' = [dir EXCEPT ![d][Last(th[t].path)] = 0]
             /\ mem' = [mem EXCEPT ![i] = Less(f), ![d] = down]
             /\ ino' = [ino EXCEPT ![i] = Less(f), ![d] = down]
             /\ th' = [th EXCEPT ![t].pc = "end", ![t].dp = 0, ![t].ip = 0,
                                 ![t].rel = <<d, i>>]
     /\ UNCHANGED <<ref, cwd, fd, dur, mode, stray, hasty, calls, crashes>>

\* iput, under itable.lock: the last reference to an inode without links
\* frees it, which takes its sleep lock; any other is just dropped.  A lock
\* the thread still has on the inode goes with it (iunlockput).
Dead(i) == ref[i] = 1 /\ valid[i] /\ mem[i].nlink = 0

IputDecide(t) ==
  LET i == Head(th[t].rel) IN
  /\ mode = "run" /\ th[t].rel # <<>> /\ th[t].stage = "decide"
  /\ IF Dead(i)
     THEN /\ lk[i] \in {None, t} /\ lk' = [lk EXCEPT ![i] = t]
          /\ th' = [th EXCEPT ![t].stage = "free"]
          /\ UNCHANGED ref
     ELSE /\ lk' = [lk EXCEPT ![i] = IF @ = t THEN None ELSE @]
          /\ ref' = [ref EXCEPT ![i] = @ - 1]
          /\ th' = [th EXCEPT ![t].rel = Tail(@)]
  /\ UNCHANGED <<ino, mem, valid, fd>> /\ Quiet

\* iput: itrunc, the type cleared and written; then valid = 0 and unlock;
\* then the reference, under itable.lock again.
IputFree(t) ==
  LET i == Head(th[t].rel) IN
  /\ mode = "run" /\ th[t].stage = "free"
  /\ Iupdate(i, [mem[i] EXCEPT !.type = "free"])
  /\ dir' = [dir EXCEPT ![i] = NoEntry]
  /\ th' = [th EXCEPT ![t].stage = "drop"]
  /\ UNCHANGED <<valid, ref, lk, cwd, fd, dur, mode, stray, hasty, calls, crashes>>

IputDrop(t) ==
  LET i == Head(th[t].rel) IN
  /\ mode = "run" /\ th[t].stage = "drop"
  /\ valid' = [valid EXCEPT ![i] = FALSE]
  /\ lk' = [lk EXCEPT ![i] = None]
  /\ th' = [th EXCEPT ![t].stage = "put"]
  /\ UNCHANGED <<ino, mem, ref, fd>> /\ Quiet

IputPut(t) ==
  /\ mode = "run" /\ th[t].stage = "put"
  /\ ref' = [ref EXCEPT ![Head(th[t].rel)] = @ - 1]
  /\ th' = [th EXCEPT ![t].stage = "decide", ![t].rel = Tail(@)]
  /\ UNCHANGED <<ino, mem, valid, lk, fd>> /\ Quiet

CommitsAlways(t) == TRUE

\* end_op commits when no other operation is outstanding.
Commits(t) == \A u \in Thread \ {t} : th[u].pc = "idle"

\* iunlock of what the call returns locked, and end_op.
EndOp(t) ==
  /\ mode = "run" /\ th[t].pc = "end" /\ th[t].rel = <<>>
  /\ th' = [th EXCEPT ![t] = Idle]
  /\ lk' = [i \in Inum |-> IF lk[i] = t THEN None ELSE lk[i]]
  /\ dur' = IF Commits(t) THEN Now ELSE dur
  /\ UNCHANGED <<ino, dir, mem, valid, ref, cwd, fd, mode, stray, hasty, calls, crashes>>

\* The lock is free but the inode read from the disk has no type: ilock
\* panics.  So does sys_unlink when the inode it found has no link.
Typeless(t) ==
  /\ mode = "run" /\ Target(t) # 0 /\ th[t].rel = <<>>
  /\ lk[Target(t)] = None /\ Loaded(Target(t)).type = "free"
Linkless(t) ==
  th[t].pc = "victim" /\ lk[th[t].ip] = None /\ Loaded(th[t].ip).nlink = 0

Panic(t) ==
  /\ mode = "run" /\ (Typeless(t) \/ Linkless(t))
  /\ mode' = "panic"
  /\ UNCHANGED <<ino, dir, table, th, cwd, fd, dur, stray, hasty, calls, crashes>>

\* Power fails, or the machine is restarted after a panic: what was not
\* committed is lost, and so is everything in memory.
Crash ==
  /\ crashes < MaxCrashes /\ crashes' = crashes + 1
  /\ mode' = "boot"
  /\ ino' = dur.ino /\ dir' = dur.dir /\ mem' = dur.ino
  /\ valid' = [i \in Inum |-> FALSE]
  /\ ref' = [i \in Inum |-> 0]
  /\ lk' = [i \in Inum |-> None]
  /\ th' = [t \in Thread |-> Idle]
  /\ cwd' = [t \in Thread |-> ROOTINO]
  /\ fd' = [t \in Thread |-> 0]
  /\ hasty' = {}
  /\ UNCHANGED <<dur, stray, calls>>

\* fsinit: ireclaim frees the inodes that have a type and no link, in order,
\* each in a transaction of its own; then the processes start.
Orphans == {i \in Inum : ino[i].type # "free" /\ ino[i].nlink = 0}

Ireclaim ==
  LET i == CHOOSE j \in Orphans : \A k \in Orphans : j <= k IN
  /\ mode = "boot" /\ Orphans # {}
  /\ Iupdate(i, [type |-> "free", nlink |-> 0])
  /\ dir' = [dir EXCEPT ![i] = NoEntry]
  /\ dur' = [ino |-> ino', dir |-> dir']
  /\ UNCHANGED <<valid, ref, lk, th, cwd, fd, mode, stray, hasty, calls, crashes>>

Boot ==
  /\ mode = "boot" /\ Orphans = {}
  /\ mode' = "run"
  /\ ref' = [ref EXCEPT ![ROOTINO] = Cardinality(Thread)]
  /\ UNCHANGED <<ino, dir, mem, valid, lk, th, cwd, fd, dur, stray, hasty, calls, crashes>>

Call(t) ==
  \/ \E c \in Calls : Begin(t, c[1], c[2], c[3])
  \/ Close(t)

Step(t) ==
  \/ Call(t)
  \/ Namex(t)
  \/ OpenFound(t) \/ ChdirFound(t)
  \/ LinkFound(t) \/ LinkParent(t) \/ LinkBad(t)
  \/ CreateParent(t) \/ CreateExists(t)
  \/ \E full \in BOOLEAN : Fill(t, full)
  \/ UnlinkParent(t) \/ UnlinkVictim(t)
  \/ IputDecide(t) \/ IputFree(t) \/ IputDrop(t) \/ IputPut(t)
  \/ EndOp(t) \/ Panic(t)

Next == (\E t \in Thread : Step(t)) \/ Crash \/ Ireclaim \/ Boot

Spec == Init /\ [][Next]_vars

-----------------------------------------------------------------------------

TypeOK ==
  /\ ino \in [Inum -> Fields] /\ mem \in [Inum -> Fields]
  /\ dir \in [Inum -> [Name \union Dots -> Inum \union {0}]]
  /\ valid \in [Inum -> BOOLEAN] /\ ref \in [Inum -> Nat]
  /\ lk \in [Inum -> Thread \union {None}]
  /\ cwd \in [Thread -> Inum] /\ fd \in [Thread -> Inum \union {0}]
  /\ mode \in {"run", "boot", "panic"}

\* The reference count of an entry is the number of pointers to it: the
\* descriptors, the current directories, what the calls in progress hold and
\* still have to put.
RefsExact ==
  mode = "run" =>
    \A i \in Inum :
      ref[i] = LET Of(f) == {t \in Thread : f[t] = i}
                   put == {<<t, k>> \in Thread \X (1 .. 2) :
                             k <= Len(th[t].rel) /\ th[t].rel[k] = i}
               IN Cardinality(Of(fd)) + Cardinality(Of(cwd)) + Cardinality(put)
                  + Cardinality({t \in Thread : th[t].at = i})
                  + Cardinality({t \in Thread : th[t].dp = i})
                  + Cardinality({t \in Thread : th[t].ip = i})

\* The links to i in the tree below the root: names, and the ".." of the
\* directories in i.
Links(fs, A, i) ==
  Cardinality({e \in A \X Name : fs.dir[e[1]][e[2]] = i})
  + (IF i \in A THEN Cardinality({d \in A \ {ROOTINO} : fs.dir[d][".."] = i})
     ELSE 0)
  + (IF i = ROOTINO THEN 1 ELSE 0)

\* Whatever the calls in progress have done so far, every name in the tree is
\* covered by the link count of the inode it names, and that inode is
\* allocated: no call, and no iput that frees, leaves a name that leads to a
\* free inode.
NamesCovered ==
  LET A == Attached(Now) IN
  \A d \in A, n \in Name \union Dots :
    LET i == dir[d][n] IN
    i # 0 => ino[i].type # "free" /\ Links(Now, A, i) <= ino[i].nlink

\* Every state a crash can go back to is a tree with exact link counts, as
\* long as nothing was created in a directory that had been removed: link
\* and mkdir change a count and an entry in two steps, but in one
\* transaction.
DurableTree ==
  LET A == Attached(dur) IN
  ~stray => \A i \in Inum :
    Links(dur, A, i) = IF dur.ino[i].type = "free" THEN 0 ELSE dur.ino[i].nlink

\* "iput() frees if the reference and link counts have fallen to zero"
\* (fs.c): an allocated inode without links is in use.
IputFrees == mode = "run" => \A i \in Orphans : ref[i] > 0

\* An allocated inode without links is in use or waiting for ireclaim, in
\* spite of lookups, failing creates, unlinks of open files and crashes,
\* unless ialloc handed its number out while an iput was still to drop the
\* reference with which it had freed it: that iput does not look again.
OrphansHeld == mode = "run" => \A i \in Orphans \ hasty : ref[i] > 0

\* "ip->ref == 1 means no other process can have ip locked, so this
\* acquiresleep() won't block" (fs.c): it is called with a spin lock held.
IputWontBlock ==
  mode = "run" =>
    \A t \in Thread :
      /\ th[t].rel # <<>> /\ th[t].stage = "decide"
      /\ Dead(Head(th[t].rel))
      => lk[Head(th[t].rel)] \in {None, t}

\* Inode locks are taken parent before child and a path walk holds one at a
\* time, so the threads never wait for each other's inode locks in a circle.
NoLockCycle ==
  LET waits == {e \in Thread \X Thread :
                  /\ Target(e[1]) # 0 /\ th[e[1]].rel = <<>>
                  /\ lk[Target(e[1])] = e[2]}
  IN \A e \in waits : <<e[2], e[1]>> \notin waits

\* ilock panics when an inode it reads has no type: the references that
\* lookups hand out lead to allocated inodes.
LockedInodeHasType == \A t \in Thread : ~Typeless(t)
=============================================================================
