----------------------------- MODULE Scheduler -----------------------------
(***************************************************************************)
(* SimSystemMultiCore (sys/multicore.cpp): the simulated threads on the    *)
(* simulated CPUs, and every system call that ends, starts, blocks or      *)
(* wakes one.  CPUs call in with ecall, ebreak and exception; DMA and the  *)
(* host threads that wait for the guest call back.                         *)
(*                                                                         *)
(* ecall, ebreak, exception and the DMA callback hold global_lock, so they *)
(* are one step each, except where a host thread, which takes sch_lock     *)
(* only, can get in between: call says how far such an ecall has come.     *)
(***************************************************************************)
EXTENDS Integers, Sequences, FiniteSets, SequencesExt, FiniteSetsExt, Functions

CONSTANTS
  NumCpus,      \* cpu_num
  NumThreads,   \* bounds the threads ever created: tids are not used again
  Futexes,      \* physical addresses of futex words and clear_child_tid words
  Masks,        \* bit sets of FUTEX_WAIT_BITSET and FUTEX_WAKE_BITSET
  MaxReqs,      \* MaxReqs[t]: the DMA requests of one execve or mmap of thread t
  Kinds,        \* Kinds[t]: the blocking host calls, of AllKinds, that thread t makes
  Faulting,     \* the threads that page fault
  Clearing,     \* the threads with a clear_child_tid word
  HostRaces     \* whether a host thread may act while an ecall is not over, and
                \* exit_group may find one at work for another thread of its group

AllKinds == {"poll", "select", "sleep", "blkread", "socksend", "sockrecv"}

ASSUME SchedulerAssumption ==
  /\ NumCpus \in Nat \ {0} /\ NumThreads \in Nat \ {0} /\ MaxReqs \in [1 .. NumThreads -> Nat]
  /\ Kinds \in [1 .. NumThreads -> SUBSET AllKinds] 
  /\ Faulting \cup Clearing \subseteq 1 .. NumThreads /\ HostRaces \in BOOLEAN
  /\ 0 \notin Futexes /\ Masks \subseteq Nat \ {0}

Cpus == 0 .. NumCpus - 1
Threads == 1 .. NumThreads
NoThread == 0
NoFutex == 0

VARIABLES
  sch,       \* what switch_next_thread_nolock and insert_ready_thread_nolock change:
             \*   exec[c]   the thread of CPU c, or NoThread;  on[c]  it is not halted
             \*   ready, waiting   ready_threads, waiting_threads
             \*   frames[t]        context_stack: what t is to return to
             \*   stopped          stop_sim_and_exit was called
  futexWait, \* futexWait[f]: futex_wait_threads, records [t, mask, cpu]
  dma,       \* dma[t]: dma_wait_threads, [ref, cpu], ref = 0 if t is not there
  requests,  \* requests[t]: requests of t the DMA device has not finished
  waitMap,   \* waitMap[k]: threads with an entry in the map of host calls of kind k
  hosts,     \* host threads at work: [t, cpu, kind, done]
  call,      \* the ecall that is not over: NoCall, or [cpu, at]
             \* once its host thread has been started
  born, alive, group, clearTid, doClear   \* the RVThreads there are

schVars == <<sch, futexWait, dma, requests, waitMap, hosts, call,
             born, alive, group, clearTid, doClear>>

NotInDMA == [ref |-> 0, cpu |-> 0]
NoCall == [cpu |-> 0, at |-> "-"]
Kept == <<dma, requests, waitMap, hosts>>
People == <<born, alive, group, clearTid, doClear>>

Init ==
  /\ sch = [exec |-> [c \in Cpus |-> IF c = 0 THEN 1 ELSE NoThread],
            on |-> [c \in Cpus |-> c = 0], ready |-> <<>>, waiting |-> {},
            frames |-> [t \in Threads |-> <<>>], stopped |-> FALSE]
  /\ futexWait = [f \in Futexes |-> <<>>]
  /\ dma = [t \in Threads |-> NotInDMA]
  /\ requests = [t \in Threads |-> 0]
  /\ waitMap = [k \in AllKinds |-> {}]
  /\ hosts = {}
  /\ call = NoCall
  /\ born = 1 /\ alive = {1}
  /\ group = [t \in Threads |-> t]
  /\ clearTid = [t \in Threads |-> NoFutex]
  /\ doClear = [t \in Threads |-> FALSE]
-----------------------------------------------------------------------------
(* The scheduler. *)

Saved(s, t, how) == [s EXCEPT !.frames[t] = Append(@, how)]
Resumed(s, t) == [s EXCEPT !.frames[t] = Front(@)]

\* CPU c goes on with thread t.
Dispatched(s, c, t) ==
  [Resumed(s, t) EXCEPT !.exec[c] = t, !.on[c] = TRUE]

InsertReadyKeeping(s, t, prefered) ==   \* (faulty: never looks for an idle CPU)
  [s EXCEPT !.ready = Append(@, t)]
InsertReady(s, t, prefered) ==
  LET idle == {c \in Cpus : s.exec[c] = NoThread}
      c == IF prefered \in idle THEN prefered ELSE Min(idle)
  IN  IF idle = {}
      THEN [s EXCEPT !.ready = Append(@, t)]
      ELSE [Dispatched(s, c, t) EXCEPT !.waiting = @ \ {t}]

\* The CPU whose thread has gone takes the first ready one; without one it stays on
\* until the caller halts it.
TakeReady(s, c) ==
  IF s.ready = <<>> THEN [s EXCEPT !.exec[c] = NoThread]
  ELSE Dispatched([s EXCEPT !.ready = Tail(@)], c, Head(s.ready))

SwitchWait(s, c) == TakeReady([s EXCEPT !.waiting = @ \cup {s.exec[c]}], c)

SwitchYield(s, c) == TakeReady([s EXCEPT !.ready = Append(@, s.exec[c])], c)

SwitchExitEager(s, c) ==   \* (faulty: the threads that wait are not looked at)
  LET n == TakeReady(s, c)
  IN  [n EXCEPT !.stopped = @ \/ (s.ready = <<>> /\ \A d \in Cpus : n.exec[d] = NoThread)]
SwitchExit(s, c) ==
  LET n == TakeReady(s, c)
      none == /\ s.waiting = {} /\ s.ready = <<>>
              /\ \A d \in Cpus : n.exec[d] = NoThread
  IN  [n EXCEPT !.stopped = @ \/ none]

\* Thread t on CPU c calls into the system: the others wait for global_lock.
Calls(c, t) == /\ call = NoCall /\ ~sch.stopped
               /\ t # NoThread /\ sch.exec[c] = t /\ sch.on[c]
InUser(t) == sch.frames[t] = <<>>
InProxy(t) == sch.frames[t] = <<"proxy">>

\* The end of an ecall that switched: without a thread the CPU halts.  A redirect of
\* the same tick wins over the halt, in either order, in both CPU models.
Leave(s, c) ==
  /\ sch' = [s EXCEPT !.on[c] = s.exec[c] # NoThread]
  /\ call' = NoCall
-----------------------------------------------------------------------------
(* Calls that neither block nor wake. *)

\* A system call the proxy library handles in the guest, and its return.
EnterProxy(c) == \E t \in Threads :
  /\ Calls(c, t) /\ InUser(t)
  /\ sch' = Saved(sch, t, "proxy")
  /\ UNCHANGED <<futexWait, call, Kept, People>>

\* A page fault is handled by the proxy library on top of whatever runs.
PageFault(c) == \E t \in Threads :
  /\ Calls(c, t) /\ t \in Faulting /\ "fault" \notin Range(sch.frames[t])
  /\ sch' = Saved(sch, t, "fault")
  /\ UNCHANGED <<futexWait, call, Kept, People>>

ebreak(c) == \E t \in Threads :
  /\ Calls(c, t) /\ sch.frames[t] # <<>>
  /\ sch' = Resumed(sch, t)
  /\ UNCHANGED <<futexWait, call, Kept, People>>

SetTidAddress(c) == \E t \in Threads, f \in Futexes :
  /\ Calls(c, t) /\ InUser(t) /\ t \in Clearing
  /\ clearTid' = [clearTid EXCEPT ![t] = f]
  /\ UNCHANGED <<sch, futexWait, call, Kept, born, alive, group, doClear>>

sched_yield(c) == \E t \in Threads :
  /\ Calls(c, t) /\ InUser(t)
  /\ sch' = SwitchYield(Saved(sch, t, "switch"), c)
  /\ UNCHANGED <<futexWait, call, Kept, People>>
-----------------------------------------------------------------------------
(* Threads come and go. *)

\* The new thread starts at the same place, under the frames of its parent.
NewThread(c) == \E t \in Threads, f \in Futexes \cup {NoFutex}, thread \in BOOLEAN :
  LET n == born + 1 IN
  /\ Calls(c, t) /\ InProxy(t) /\ n \in Threads /\ (f # NoFutex => n \in Clearing)
  /\ born' = n /\ alive' = alive \cup {n}
  /\ group' = [group EXCEPT ![n] = IF thread THEN group[t] ELSE n]
  /\ clearTid' = [clearTid EXCEPT ![n] = f]
  /\ doClear' = [doClear EXCEPT ![n] = f # NoFutex]
  /\ sch' = InsertReady([sch EXCEPT !.frames[n] = Append(sch.frames[t], "switch")], n, c)
  /\ UNCHANGED <<futexWait, call, Kept>>
host_clone(c) == NewThread(c)
host_clone3(c) == NewThread(c)   \* its arguments are read from memory

\* The waiters ws become ready, in this order.
Woken(s, ws) ==
  LET after[k \in 0 .. Len(ws)] ==
        IF k = 0 THEN s ELSE InsertReady(after[k - 1], ws[k].t, ws[k].cpu)
  IN  after[Len(ws)]

\* The calls of the threads ts return a result.
Returning(s, ts) ==
  [s EXCEPT !.frames = [t \in Threads |->
     IF t \in ts THEN [@[t] EXCEPT ![Len(s.frames[t])] = "result"] ELSE @[t]]]
ThreadsOf(ws) == {ws[k].t : k \in DOMAIN ws}
Released(s, ws) == Woken(Returning(s, ThreadsOf(ws)), ws)

\* The entries of a list at the places ks, in the order of the list.
Rank(ks, k) == Cardinality({j \in ks : j <= k})
At(ws, ks) == [n \in 1 .. Cardinality(ks) |-> ws[CHOOSE k \in ks : Rank(ks, k) = n]]

WaitersOf(f) == IF f = NoFutex THEN <<>> ELSE futexWait[f]

Deleted(s, gone) == [s EXCEPT !.frames = [t \in Threads |->
                                            IF t \in gone THEN <<>> ELSE @[t]]]
Gone(gone) ==
  /\ alive' = alive \ gone
  /\ group' = [t \in Threads |-> IF t \in gone THEN t ELSE group[t]]
  /\ clearTid' = [t \in Threads |-> IF t \in gone THEN NoFutex ELSE clearTid[t]]
  /\ doClear' = [t \in Threads |-> doClear[t] /\ t \notin gone]
  /\ UNCHANGED born

host_exit(c) == \E t \in Threads :
  LET f == clearTid[t] IN
  /\ Calls(c, t) /\ InProxy(t)
  /\ Leave(SwitchExit(Deleted(Released(sch, WaitersOf(f)), {t}), c), c)
  /\ futexWait' = [g \in Futexes |-> IF g = f THEN <<>> ELSE futexWait[g]]
  /\ Gone({t})
  /\ UNCHANGED Kept

\* exit_group first takes the other threads of the group from wherever they are.
CancelledHalf(s, gone) ==   \* (faulty: they stay in ready_threads)
  [s EXCEPT !.exec = [c \in Cpus |-> IF @[c] \in gone THEN NoThread ELSE @[c]],
            !.on = [c \in Cpus |-> @[c] /\ s.exec[c] \notin gone],
            !.waiting = @ \ gone]
Cancelled(s, gone) ==
  [s EXCEPT !.exec = [c \in Cpus |-> IF @[c] \in gone THEN NoThread ELSE @[c]],
            !.on = [c \in Cpus |-> @[c] /\ s.exec[c] \notin gone],
            !.ready = At(@, {k \in DOMAIN @ : @[k] \notin gone}),
            !.waiting = @ \ gone]

exitgroup(c) == \E t \in Threads :
  LET gone == {u \in alive \ {t} : group[u] = group[t]}
      f == IF doClear[t] THEN clearTid[t] ELSE NoFutex
      others(ws) == At(ws, {k \in DOMAIN ws : ws[k].t \notin gone})
      woken == Released(Cancelled(sch, gone), others(WaitersOf(f)))
  IN
  /\ Calls(c, t) /\ InUser(t)
  /\ HostRaces \/ \A h \in hosts : h.t \notin gone
  /\ Leave(SwitchExit(Deleted(woken, gone \cup {t}), c), c)
  /\ futexWait' = [g \in Futexes |-> IF g = f THEN <<>> ELSE others(futexWait[g])]
  /\ dma' = [u \in Threads |-> IF u \in gone THEN NotInDMA ELSE dma[u]]
  /\ waitMap' = [k \in AllKinds |-> waitMap[k] \ gone]
  /\ Gone(gone \cup {t})
  /\ UNCHANGED <<requests, hosts>>
-----------------------------------------------------------------------------
(* Futexes. *)

\* FUTEX_WAIT (mask 0) and FUTEX_WAIT_BITSET, once the value has been compared.
FutexWait(c) == \E t \in Threads, f \in Futexes, m \in Masks \cup {0} :
  /\ Calls(c, t) /\ InProxy(t)
  /\ futexWait' = [futexWait EXCEPT ![f] = Append(@, [t |-> t, mask |-> m, cpu |-> c])]
  /\ Leave(SwitchWait(Saved(sch, t, "switch"), c), c)
  /\ UNCHANGED <<Kept, People>>

\* The first n waiters that fit: a mask fits its equals, no mask fits all.
Fitting(ws, m, n) ==
  LET fit == {k \in DOMAIN ws : m = 0 \/ ws[k].mask = m}
  IN  {k \in fit : Rank(fit, k) <= n}

FutexWake(c) == \E t \in Threads, f \in Futexes, m \in Masks \cup {0}, n \in 1 .. 2 :
  LET ws == futexWait[f]
      popped == Fitting(ws, m, n)
  IN
  /\ Calls(c, t) /\ InProxy(t) /\ popped # {}
  /\ sch' = Woken(sch, At(ws, popped))
  /\ futexWait' = [futexWait EXCEPT ![f] = At(ws, DOMAIN ws \ popped)]
  /\ UNCHANGED <<call, Kept, People>>
-----------------------------------------------------------------------------
(* DMA: execve (from the proxy) and mmap of a file (from the user). *)

LoadPages(c, t) == \E n \in 1 .. MaxReqs[t] :
  /\ requests' = [requests EXCEPT ![t] = @ + n]
  /\ dma' = [dma EXCEPT ![t] = [ref |-> n, cpu |-> c]]
  /\ Leave(SwitchWait(Saved(sch, t, "switch"), c), c)
  /\ UNCHANGED <<futexWait, waitMap, hosts, born, alive, group>>

\* The new image forgets what clone and set_tid_address asked for.
host_execve(c) == \E t \in Threads :
  /\ Calls(c, t) /\ InProxy(t)
  /\ LoadPages(c, t)
  /\ clearTid' = [clearTid EXCEPT ![t] = NoFutex]
  /\ doClear' = [doClear EXCEPT ![t] = FALSE]

mmap(c) == \E t \in Threads :
  /\ Calls(c, t) /\ InUser(t)
  /\ LoadPages(c, t)
  /\ UNCHANGED <<clearTid, doClear>>

\* The thread goes on when its last request is done.
LastRequest(r) == r <= 1
dma_complete_callback(t) ==
  /\ call = NoCall /\ requests[t] > 0
  /\ requests' = [requests EXCEPT ![t] = @ - 1]
  /\ IF dma[t].ref > 0 /\ LastRequest(dma[t].ref)
     THEN /\ sch' = InsertReady(sch, t, dma[t].cpu)
          /\ dma' = [dma EXCEPT ![t] = NotInDMA]
     ELSE /\ dma' = [dma EXCEPT ![t].ref = IF @ > 0 THEN @ - 1 ELSE 0]
          /\ UNCHANGED sch
  /\ UNCHANGED <<futexWait, call, waitMap, hosts, People>>
-----------------------------------------------------------------------------
(* Host calls that block: a host thread makes them.  The call itself decides whether  *)
(* to block: what returns at once changes nothing here.                               *)

\* The host thread is started first, the guest thread is switched out afterwards.
BlockOnHost(c, k) == \E t \in Threads :
  /\ Calls(c, t) /\ InProxy(t) /\ k \in Kinds[t]
  /\ waitMap' = [waitMap EXCEPT ![k] = @ \cup {t}]
  /\ hosts' = hosts \cup {[t |-> t, cpu |-> c, kind |-> k, done |-> FALSE]}
  /\ call' = [cpu |-> c, at |-> "started"]
  /\ UNCHANGED <<sch, futexWait, dma, requests, People>>

host_read(c) == BlockOnHost(c, "blkread")
host_pselect6(c) == BlockOnHost(c, "select")
host_ppoll(c) == BlockOnHost(c, "poll")
host_clock_nanosleep(c) == BlockOnHost(c, "sleep")
host_sendto(c) == BlockOnHost(c, "socksend")
host_recvmsg(c) == BlockOnHost(c, "sockrecv")

BlockSwitch ==
  LET t == sch.exec[call.cpu] IN
  /\ call.at = "started" /\ t # NoThread
  /\ Leave(SwitchWait(Saved(sch, t, "switch"), call.cpu), call.cpu)
  /\ UNCHANGED <<futexWait, Kept, People>>

\* The host call returns: its result goes into the top frame, without a lock.
HostReturn(t, k) == \E h \in hosts :
  /\ h.t = t /\ h.kind = k /\ ~h.done
  /\ HostRaces \/ call = NoCall
  /\ hosts' = (hosts \ {h}) \cup {[h EXCEPT !.done = TRUE]}
  /\ sch' = Returning(sch, {t})
  /\ UNCHANGED <<futexWait, dma, requests, waitMap, call, People>>

\* It takes the thread out of the map of calls of kind erased and makes it ready.
HostWake(t, k, erased) == \E h \in hosts :
  /\ h.t = t /\ h.kind = k /\ h.done
  /\ HostRaces \/ call = NoCall
  /\ hosts' = hosts \ {h}
  /\ waitMap' = [waitMap EXCEPT ![erased] = @ \ {t}]
  /\ sch' = InsertReady(sch, t, h.cpu)
  /\ UNCHANGED <<futexWait, dma, requests, call, People>>

poll_wait_thread_function(t) == HostReturn(t, "poll") \/ HostWake(t, "poll", "poll")
select_wait_thread_function(t) == HostReturn(t, "select") \/ HostWake(t, "select", "select")
sleep_wait_thread_function(t) == HostReturn(t, "sleep") \/ HostWake(t, "sleep", "poll")
BlkreadErasesPoll(t) ==   \* (faulty: takes the entry from the map of polls)
  HostReturn(t, "blkread") \/ HostWake(t, "blkread", "poll")
blkread_wait_thread_function(t) ==
  HostReturn(t, "blkread") \/ HostWake(t, "blkread", "blkread")
socksend_wait_thread_function(t) ==
  HostReturn(t, "socksend") \/ HostWake(t, "socksend", "socksend")
sockrecv_wait_thread_function(t) ==
  HostReturn(t, "sockrecv") \/ HostWake(t, "sockrecv", "sockrecv")
HostThread(t) ==
  \/ poll_wait_thread_function(t) \/ select_wait_thread_function(t)
  \/ sleep_wait_thread_function(t) \/ blkread_wait_thread_function(t)
  \/ socksend_wait_thread_function(t) \/ sockrecv_wait_thread_function(t)
-----------------------------------------------------------------------------
Ecall(c) ==
  \/ EnterProxy(c) \/ PageFault(c) \/ ebreak(c) \/ SetTidAddress(c) \/ sched_yield(c)
  \/ host_clone(c) \/ host_clone3(c) \/ host_exit(c) \/ exitgroup(c)
  \/ FutexWait(c) \/ FutexWake(c) \/ host_execve(c) \/ mmap(c)
  \/ host_read(c) \/ host_pselect6(c) \/ host_ppoll(c) \/ host_clock_nanosleep(c)
  \/ host_sendto(c) \/ host_recvmsg(c)

Next ==
  \/ \E c \in Cpus : Ecall(c)
  \/ BlockSwitch
  \/ \E t \in Threads : dma_complete_callback(t) \/ HostThread(t)

Spec == Init /\ [][Next]_schVars

\* An ecall that has begun ends, and the DMA device and the host calls finish, however
\* often an ecall holds the lock at that moment: the device works in every tick and a
\* CPU makes one call in a tick.  Nothing makes a guest thread call.
Fairness == /\ WF_schVars(BlockSwitch)
            /\ \A t \in Threads : SF_schVars(dma_complete_callback(t))
            /\ \A t \in Threads : SF_schVars(HostThread(t))
FairSpec == Spec /\ Fairness
-----------------------------------------------------------------------------
SchedulerTypeOK ==
  /\ sch.exec \in [Cpus -> Threads \cup {NoThread}] /\ sch.on \in [Cpus -> BOOLEAN]
  /\ Range(sch.ready) \subseteq Threads /\ sch.waiting \subseteq Threads
  /\ \A t \in Threads : Range(sch.frames[t]) \subseteq {"proxy", "fault", "switch", "result"}
  /\ \A f \in Futexes : \A w \in Range(futexWait[f]) : w.t \in Threads /\ w.cpu \in Cpus
  /\ \A t \in Threads : dma[t].ref \in 0 .. MaxReqs[t] /\ requests[t] \in Nat
  /\ alive \subseteq 1 .. born /\ born \in Threads

\* How often t is on a CPU, in ready_threads, or where something will wake it.
Places(t) ==
  Cardinality({c \in Cpus : sch.exec[c] = t})
  + Cardinality({k \in DOMAIN sch.ready : sch.ready[k] = t})
  + Cardinality({q \in Futexes \X (1 .. NumThreads) :
                   q[2] \in DOMAIN futexWait[q[1]] /\ futexWait[q[1]][q[2]].t = t})
  + (IF dma[t].ref > 0 THEN 1 ELSE 0)
  + Cardinality({h \in hosts : h.t = t /\ ~(call.at = "started" /\ sch.exec[call.cpu] = t)})

\* A thread is in exactly one place, a deleted one is nowhere: run twice, lost, or
\* reached through a dangling pointer otherwise.
OnePlace ==
  \A t \in Threads : Places(t) = IF t \in alive THEN 1 ELSE 0

\* What runs has left no frame of a wait behind, and what is to run has one on top:
\* each goes on where it was stopped, with the result of its call if it has one.
FramesBalanced ==
  /\ \A c \in Cpus : sch.exec[c] # NoThread =>
       Range(sch.frames[sch.exec[c]]) \subseteq {"proxy", "fault"}
  /\ \A t \in alive : t \notin Range(sch.exec) =>
       sch.frames[t] # <<>> /\ Last(sch.frames[t]) \in {"switch", "result"}
  /\ \A h \in hosts : h.done => Last(sch.frames[h.t]) = "result"

\* Every thread that lives is in one place and goes on there where it was stopped.
ThreadsKept == OnePlace /\ FramesBalanced

\* A CPU with a thread runs, halted it would keep it for ever; and while a thread is ready
\* some CPU has a thread, so somebody's next call to the scheduler can take it.
NoneStranded ==
  /\ \A c \in Cpus : sch.exec[c] # NoThread => sch.on[c]
  /\ sch.ready # <<>> => \E c \in Cpus : sch.exec[c] # NoThread

\* The simulation is stopped only when every thread has ended.
StopsWhenDone == sch.stopped => alive = {}

\* Only a thread that waits has an entry in a map of host calls: emplace keeps an
\* old one, and the next such call of that thread would be made with its arguments.
\* (sleep_wait_thread_function leaves its own behind.)
WaitMapsExact ==
  \A k \in AllKinds \ {"sleep"} : waitMap[k] \subseteq {h.t : h \in hosts}
=============================================================================
