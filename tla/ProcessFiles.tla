---------------------------- MODULE ProcessFiles ----------------------------
(***************************************************************************)
(* The file descriptors of the simulated processes: FDTable, its use in    *)
(* sys/rvthread.cpp and the system calls of sys/multicore.cpp that open,   *)
(* duplicate and close.  Every guest descriptor stands for one of the      *)
(* simulator's own; which file that is, the host knows.                    *)
(***************************************************************************)
EXTENDS Integers, FiniteSets, Functions

CONSTANTS
  FdProcs,     \* bounds the processes ever forked: 1 .. FdProcs
  HostFds,     \* bounds the descriptors of the simulator: 3 .. HostFds
  MaxFiles,    \* bounds the files ever opened
  UsedFds,     \* the descriptors that are closed and duplicated, of 0 .. SimFds
  SimFds       \* the last descriptor of a process (0x3fffffff in fdtable_insert)

ASSUME FdAssumption ==
  FdProcs \in Nat \ {0} /\ HostFds \in Nat /\ UsedFds \subseteq Nat /\ SimFds \in Nat

Clients == 1 .. FdProcs
Std == 0 .. 2
NoFd == 0 - 1

VARIABLES
  fds,         \* fds[p]: FDTable.tb, guest descriptor -> host descriptor
  alloc_fd,    \* alloc_fd[p]: the guest descriptor tried next
  hostFile,    \* host descriptor -> the open file it stands for
  opened,      \* how many files have been opened
  means        \* means[p]: guest descriptor -> the file p opened it for

fileVars == <<fds, alloc_fd, hostFile, opened, means>>

Nothing == [f \in {} |-> 0]
StdFiles == [f \in Std |-> f]
fileInit ==
  /\ fds = [p \in Clients |-> IF p = 1 THEN StdFiles ELSE Nothing]
  /\ alloc_fd = [p \in Clients |-> 3]
  /\ hostFile = StdFiles
  /\ opened = 2
  /\ means = [p \in Clients |-> IF p = 1 THEN StdFiles ELSE Nothing]

\* A table with one more entry, or another one at f.
With(tb, f, x) == [g \in DOMAIN tb \cup {f} |-> IF g = f THEN x ELSE tb[g]]

Exists(p) == DOMAIN fds[p] # {}
\* The host gives the lowest descriptors that are free.
HostFree(hs) == {h \in 3 .. HostFds : h \notin DOMAIN hs}
Lowest(hs, S) == \A g \in S, h \in HostFree(hs) : h < g => h \in S

fdtable_trans(p, f) ==
  IF f \in DOMAIN fds[p] THEN fds[p][f] ELSE IF f > 0 THEN NoFd ELSE f

\* fdtable_insert gives f: the first from alloc_fd on, around at the end, without an entry.
After(f) == (f + 1) % (SimFds + 1)
fdtable_insert(tb, alloc, f) == \E k \in 0 .. SimFds :
  /\ f = (alloc + k) % (SimFds + 1) /\ f \notin DOMAIN tb
  /\ \A j \in 0 .. k - 1 : (alloc + j) % (SimFds + 1) \in DOMAIN tb

\* openat, socket: a file of p's own.
openat(p) == \E h \in HostFree(hostFile), f \in 0 .. SimFds :
  /\ Exists(p) /\ Lowest(hostFile, {h}) /\ fdtable_insert(fds[p], alloc_fd[p], f)
  /\ opened < MaxFiles /\ opened' = opened + 1
  /\ hostFile' = With(hostFile, h, opened + 1)
  /\ fds' = [fds EXCEPT ![p] = With(@, f, h)]
  /\ means' = [means EXCEPT ![p] = With(@, f, opened + 1)]
  /\ alloc_fd' = [alloc_fd EXCEPT ![p] = After(f)]

\* pipe2, socketpair: two ends, entered one after the other.  Where the host fails the code
\* enters what is in the array it gave the host; that is left out.
pipe2(p) == \E r, w \in HostFree(hostFile), f, g \in 0 .. SimFds :
  /\ Exists(p) /\ r < w /\ Lowest(hostFile, {r, w})
  /\ fdtable_insert(fds[p], alloc_fd[p], f)
  /\ fdtable_insert(With(fds[p], f, r), After(f), g)
  /\ opened + 1 < MaxFiles /\ opened' = opened + 2
  /\ hostFile' = With(With(hostFile, r, opened + 1), w, opened + 2)
  /\ fds' = [fds EXCEPT ![p] = With(With(@, f, r), g, w)]
  /\ means' = [means EXCEPT ![p] = With(With(@, f, opened + 1), g, opened + 2)]
  /\ alloc_fd' = [alloc_fd EXCEPT ![p] = After(g)]

\* close: the host descriptor goes with its entry, the standard ones excepted.
Closed(hs, h) == IF h > 2 THEN Restrict(hs, DOMAIN hs \ {h}) ELSE hs
close(p) == \E f \in UsedFds :
  /\ Exists(p) /\ Cardinality(DOMAIN fds[p]) > 1
  /\ hostFile' = Closed(hostFile, fdtable_trans(p, f))
  /\ fds' = [fds EXCEPT ![p] = Restrict(@, DOMAIN @ \ {f})]
  /\ means' = [means EXCEPT ![p] = Restrict(@, DOMAIN @ \ {f})]
  /\ UNCHANGED <<alloc_fd, opened>>

\* dup3: newfd is closed and then stands for a duplicate of what oldfd stands for.
\* An oldfd that stands for host descriptor 0 is refused, one that stands for nothing
\* is not: newfd then has an entry, and stands for nothing.
SameFd(hs, h) == {h}   \* (faulty: the same host descriptor twice)
Duplicates(hs, h) == {g \in HostFree(hs) : Lowest(hs, {g})}
dup3(p) == \E old, new \in UsedFds :
  LET h == fdtable_trans(p, old)
      after == Closed(hostFile, fdtable_trans(p, new))
  IN
  /\ Exists(p) /\ old # new /\ h # 0
  /\ \/ \E dup \in Duplicates(after, h) :
          /\ h # NoFd
          /\ hostFile' = With(after, dup, after[h])
          /\ fds' = [fds EXCEPT ![p] = With(@, new, dup)]
          /\ means' = [means EXCEPT ![p] = With(@, new, means[p][old])]
     \/ /\ h = NoFd
        /\ hostFile' = after
        /\ fds' = [fds EXCEPT ![p] = With(@, new, NoFd)]
        /\ means' = [means EXCEPT ![p] = Restrict(@, DOMAIN @ \ {new})]
  /\ UNCHANGED <<alloc_fd, opened>>

\* fork without CLONE_FILES: the child duplicates all but the standard descriptors,
\* which are those of the simulator, in the order of a hash table.
Copied(p) == {f \in DOMAIN fds[p] \ Std : fds[p][f] # NoFd}
Copies(hs, fs) == {c \in [fs -> HostFree(hs)] : IsInjective(c) /\ Lowest(hs, Range(c))}
Original(c, h) == CHOOSE f \in DOMAIN c : c[f] = h
forkFiles(p) == \E child \in Clients : \E c \in Copies(hostFile, Copied(p)) :
  /\ Exists(p) /\ ~Exists(child)
  /\ fds' = [fds EXCEPT ![child] = [f \in DOMAIN fds[p] \cup Std |->
       IF f \in Copied(p) THEN c[f] ELSE IF f \in Std THEN f ELSE NoFd]]
  /\ hostFile' = [h \in DOMAIN hostFile \cup Range(c) |->
       IF h \in Range(c) THEN hostFile[fds[p][Original(c, h)]] ELSE hostFile[h]]
  /\ means' = [means EXCEPT ![child] = [f \in Copied(p) \cup Std |->
       IF f \in Copied(p) THEN means[p][f] ELSE f]]
  /\ alloc_fd' = [alloc_fd EXCEPT ![child] = alloc_fd[p]]
  /\ UNCHANGED opened

\* The process ends; its host descriptors stay open.
endFiles(p) ==
  /\ Exists(p) /\ p # 1
  /\ fds' = [fds EXCEPT ![p] = Nothing]
  /\ means' = [means EXCEPT ![p] = Nothing]
  /\ UNCHANGED <<alloc_fd, hostFile, opened>>

fileNext == \E p \in Clients :
  openat(p) \/ pipe2(p) \/ close(p) \/ dup3(p) \/ forkFiles(p) \/ endFiles(p)
fileSpec == fileInit /\ [][fileNext]_fileVars
-----------------------------------------------------------------------------
\* A descriptor p opened, duplicated or inherited stands for the file it was opened
\* for until p closes it, whatever others close: no other entry leads to the same
\* host descriptor, and it is open.  (The standard ones a child does not inherit.)
FdsMeanFiles ==
  \A p \in Clients : \A f \in DOMAIN means[p] \ Std :
    /\ fds[p][f] \in DOMAIN hostFile /\ hostFile[fds[p][f]] = means[p][f]
    /\ \A r \in Clients : \A g \in DOMAIN fds[r] :
         fds[r][g] = fds[p][f] => r = p /\ g = f
=============================================================================
