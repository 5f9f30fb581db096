------------------------------ MODULE SimRoot ------------------------------
(***************************************************************************)
(* The tick engine (src/src/simroot.cpp): N worker threads run the two     *)
(* halves of every tick, on_current_tick and apply_next_tick, of the       *)
(* simulated objects assigned to them, with the SpinBarrier between the    *)
(* halves; start_sim creates and joins them, stop_sim_and_exit ends them.  *)
(*                                                                         *)
(* What the simulated objects do in a half tick is theirs; here a half is  *)
(* an interval (the thread is in "cur" or in "apl") and the only effect    *)
(* that reaches back is stop_sim_and_exit, called by a guest program that  *)
(* exits.                                                                  *)
(***************************************************************************)
EXTENDS SpinBarrier

CONSTANTS
  Objects,   \* the SimObjects with a latency, all_sim_objs
  TaskOf,    \* the thread whose task list holds each object
  Latency,   \* entry.latency
  TickMod,   \* current_tick is a uint64_t: it counts modulo TickMod (2^64)
  Stoppers   \* the objects (CPUs) whose guest may call stop_sim_and_exit

ASSUME ObjectsAssumption ==
  /\ TaskOf \in [Objects -> Threads]
  /\ Latency \in [Objects -> Nat \ {0}]
  /\ Stoppers \subseteq Objects
ASSUME TickModAssumption ==
  TickMod \in Nat \ {0, 1}

VARIABLES
  pc,             \* where each thread is in simroot_thread_function
  created,        \* how many threads start_sim has created ...
  joined,         \* ... and joined
  is_processing,
  current_tick,
  countdown       \* entry.current

rootVars == <<pc, created, joined, is_processing, current_tick, countdown>>
vars == <<barrierVars, rootVars>>

PC == {"new", "check", "cur", "sync_cur", "apl", "sync_apl", "exited"}

Init ==
  /\ BarrierInit
  /\ pc = [t \in Threads |-> "new"]
  /\ created = 0
  /\ joined = 0
  /\ is_processing = TRUE
  /\ current_tick = 0
  /\ countdown = [o \in Objects |-> Latency[o] - 1]

Goto(t, from, to) ==
  /\ pc[t] = from
  /\ pc' = [pc EXCEPT ![t] = to]

\* start_sim: pthread_create in order, then pthread_join in order.
CreateThread ==
  /\ created < N
  /\ Goto(created, "new", "check")
  /\ created' = created + 1
  /\ UNCHANGED <<barrierVars, joined, is_processing, current_tick, countdown>>

JoinThread ==
  /\ created = N
  /\ joined < N
  /\ pc[joined] = "exited"
  /\ joined' = joined + 1
  /\ UNCHANGED <<barrierVars, pc, created, is_processing, current_tick, countdown>>

\* (faulty: while(true))
CheckNothing(t) ==
  /\ Goto(t, "check", "cur")
  /\ UNCHANGED <<barrierVars, created, joined, is_processing, current_tick, countdown>>

\* while(root->is_processing)
CheckProcessing(t) ==
  /\ Goto(t, "check", IF is_processing THEN "cur" ELSE "exited")
  /\ UNCHANGED <<barrierVars, created, joined, is_processing, current_tick, countdown>>

Due(t) == {o \in Objects : TaskOf[o] = t /\ countdown[o] = 0}

\* on_current_tick of every due object of the thread; the simulation may be
\* stopped by one of them.
OnCurrentTick(t) ==
  /\ Goto(t, "cur", "sync_cur")
  /\ \/ UNCHANGED is_processing
     \/ /\ Due(t) \cap Stoppers # {}
        /\ is_processing' = FALSE
  /\ UNCHANGED <<barrierVars, created, joined, current_tick, countdown>>

\* (faulty: the countdown is reloaded with one too many)
ReloadedLate(o) == IF countdown[o] = 0 THEN Latency[o] ELSE countdown[o] - 1

\* A due object is reloaded with its latency, then every object counts down.
Reloaded(o) == (IF countdown[o] = 0 THEN Latency[o] ELSE countdown[o]) - 1

\* apply_next_tick of every due object, the countdowns, and the tick counter.
ApplyNextTick(t) ==
  /\ Goto(t, "apl", "sync_apl")
  /\ countdown' = [o \in Objects |->
       IF TaskOf[o] = t THEN Reloaded(o) ELSE countdown[o]]
  /\ current_tick' = IF t # 0 THEN current_tick
                     ELSE IF current_tick = TickMod - 1 THEN 0
                     ELSE current_tick + 1
  /\ UNCHANGED <<barrierVars, created, joined, is_processing>>

\* sync_cur() and sync_apl(): root->barrier.wait()
Sync(t) ==
  /\ pc[t] \in {"sync_cur", "sync_apl"}
  /\ \/ LoadStep(t) /\ UNCHANGED pc
     \/ FetchAdd(t) /\ UNCHANGED pc
     \/ ResetCount(t) /\ UNCHANGED pc
     \/ /\ StoreStep(t) \/ SpinExit(t)
        /\ pc' = [pc EXCEPT ![t] = IF @ = "sync_cur" THEN "apl" ELSE "check"]
  /\ UNCHANGED <<created, joined, is_processing, current_tick, countdown>>

Worker(t) ==
  CheckProcessing(t) \/ OnCurrentTick(t) \/ ApplyNextTick(t) \/ Sync(t)

Next == CreateThread \/ JoinThread \/ \E t \in Threads : Worker(t)

Spec == Init /\ [][Next]_vars

\* Every thread, and the main thread, gets host CPU time for ever.
Fairness ==
  /\ WF_vars(CreateThread)
  /\ WF_vars(JoinThread)
  /\ \A t \in Threads : WF_vars(Worker(t))

FairSpec == Spec /\ Fairness

-----------------------------------------------------------------------------
TypeOK ==
  /\ BarrierTypeOK
  /\ pc \in [Threads -> PC]
  /\ created \in 0 .. N
  /\ joined \in 0 .. N
  /\ is_processing \in BOOLEAN
  /\ current_tick \in 0 .. TickMod - 1
  /\ countdown \in [Objects -> Nat]

\* A thread is on the side of the half tick it works in, or waits to leave;
\* a thread let go by the barrier is on the other side before it has noticed.
OnCurSide(t) ==
  \/ pc[t] \in {"new", "check", "cur", "exited"}
  \/ pc[t] = "sync_cur" /\ t \notin Released
  \/ pc[t] = "sync_apl" /\ t \in Released

OnAplSide(t) ==
  \/ pc[t] = "apl"
  \/ pc[t] = "sync_apl" /\ t \notin Released
  \/ pc[t] = "sync_cur" /\ t \in Released

\* No object runs apply_next_tick while an object of another thread still runs
\* on_current_tick: what every double-buffered component relies on.
PhaseIsolation ==
  \A t, u \in Threads : ~(pc[t] = "cur" /\ pc[u] = "apl")

\* The lockstep of the threads, of which PhaseIsolation is a part.
Lockstep == (\A t \in Threads : OnCurSide(t)) \/ (\A t \in Threads : OnAplSide(t))

\* Whichever thread an object is assigned to, it is due exactly in the ticks
\* that complete a multiple of its latency (TickMod a multiple of the latencies).
Cadence ==
  (\A t \in Threads : OnCurSide(t)) =>
    \A o \in Objects : (current_tick + 1 + countdown[o]) % Latency[o] = 0

\* get_current_tick is the same for every reader during a whole on_current_tick
\* half: the counter is written only while nobody is in it.
TickStableInCur ==
  [][current_tick' # current_tick => \A t \in Threads : pc[t] # "cur"]_vars

\* Once start_sim has begun, simulated time never stops while nobody asks it to.
TimeAdvances ==
  <>(created > 0) =>
    []<>(~is_processing) \/ \A t \in Threads : []<>(pc[t] = "cur") /\ []<>(pc[t] = "apl")

\* A stop requested while every thread is inside the tick (none before the
\* test of is_processing) ends the simulation in this tick, for every thread.
InsideTick(t) ==
  \/ pc[t] \in {"cur", "sync_cur", "apl"}
  \/ pc[t] = "sync_apl" /\ t \notin Released

\* A stop from inside a tick ends the simulation, as stop_sim_and_exit is meant to.
StopInsideTickJoins ==
  (~is_processing /\ \A t \in Threads : InsideTick(t)) ~> (joined = N)

\* stop_sim_and_exit ends the simulation: start_sim joins every thread.
StopJoins == ~is_processing ~> (joined = N)
=============================================================================
