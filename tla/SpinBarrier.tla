---------------------------- MODULE SpinBarrier ----------------------------
(***************************************************************************)
(* SpinBarrier::wait (src/src/spinlocks.h): the barrier that separates the *)
(* two halves of a tick.  One action per atomic access: step_.load,        *)
(* nwait_.fetch_add, nwait_.store(0), step_.store, and the spinning load.  *)
(***************************************************************************)
EXTENDS Integers, FiniteSets

CONSTANTS
  N,        \* n_: how many threads wait() must collect
  StepMod   \* step_ is an unsigned int: it counts modulo StepMod (2^32)

ASSUME NAssumption == N \in Nat \ {0}
ASSUME StepModAssumption == StepMod \in Nat \ {0, 1}

Threads == 0 .. N - 1

VARIABLES
  nwait,    \* nwait_
  step,     \* step_
  bpc,      \* where in wait() each thread is; "out": not in it
  lstep     \* the local variable "step" of wait()

barrierVars == <<nwait, step, bpc, lstep>>

BarrierInit ==
  /\ nwait = 0
  /\ step = 0
  /\ bpc = [t \in Threads |-> "out"]
  /\ lstep = [t \in Threads |-> 0]

\* The unsigned increment.
Succ(s) == IF s = StepMod - 1 THEN 0 ELSE s + 1

LoadStep(t) ==
  /\ bpc[t] = "out"
  /\ lstep' = [lstep EXCEPT ![t] = step]
  /\ bpc' = [bpc EXCEPT ![t] = "add"]
  /\ UNCHANGED <<nwait, step>>

\* (A faulty variant, to show that a property notices it: the barrier opens one
\* thread too early.  So are the definitions marked "faulty" below.)
FetchAddEarly(t) ==
  /\ bpc[t] = "add"
  /\ nwait' = nwait + 1
  /\ bpc' = [bpc EXCEPT ![t] = IF nwait = N - 2 THEN "reset" ELSE "spin"]
  /\ UNCHANGED <<step, lstep>>

FetchAdd(t) ==
  /\ bpc[t] = "add"
  /\ nwait' = nwait + 1
  /\ bpc' = [bpc EXCEPT ![t] = IF nwait = N - 1 THEN "reset" ELSE "spin"]
  /\ UNCHANGED <<step, lstep>>

ResetCount(t) ==
  /\ bpc[t] = "reset"
  /\ nwait' = 0
  /\ bpc' = [bpc EXCEPT ![t] = "release"]
  /\ UNCHANGED <<step, lstep>>

\* (faulty: step_.store(step))
StoreStepSame(t) ==
  /\ bpc[t] = "release"
  /\ step' = lstep[t]
  /\ bpc' = [bpc EXCEPT ![t] = "out"]
  /\ UNCHANGED <<nwait, lstep>>

\* step_.store(step + 1): the waiters go, and the last to arrive returns.
StoreStep(t) ==
  /\ bpc[t] = "release"
  /\ step' = Succ(lstep[t])
  /\ bpc' = [bpc EXCEPT ![t] = "out"]
  /\ UNCHANGED <<nwait, lstep>>

\* (faulty: does not wait for step_ to change)
SpinExitAtOnce(t) ==
  /\ bpc[t] = "spin"
  /\ bpc' = [bpc EXCEPT ![t] = "out"]
  /\ UNCHANGED <<nwait, step, lstep>>

\* A load of step_ that differs ends the spinning; one that does not is a
\* stuttering step.
SpinExit(t) ==
  /\ bpc[t] = "spin"
  /\ step # lstep[t]
  /\ bpc' = [bpc EXCEPT ![t] = "out"]
  /\ UNCHANGED <<nwait, step, lstep>>

\* A step inside wait(), after it was called.
Inside(t) == FetchAdd(t) \/ ResetCount(t) \/ StoreStep(t) \/ SpinExit(t)

\* Any number of threads calling wait() over and over.
BarrierNext == \E t \in Threads : LoadStep(t) \/ Inside(t)

BarrierSpec ==
  /\ BarrierInit
  /\ [][BarrierNext]_barrierVars
  /\ \A t \in Threads : WF_barrierVars(Inside(t))

-----------------------------------------------------------------------------
BarrierTypeOK ==
  /\ nwait \in 0 .. N
  /\ step \in 0 .. StepMod - 1
  /\ bpc \in [Threads -> {"out", "add", "reset", "release", "spin"}]
  /\ lstep \in [Threads -> 0 .. StepMod - 1]

\* In the round being filled: still spinning on the current step_, or the last
\* to arrive and busy opening the barrier.
Waiting == {t \in Threads : bpc[t] = "spin" /\ lstep[t] = step}
Opening == {t \in Threads : bpc[t] \in {"reset", "release"}}
Released == {t \in Threads : bpc[t] = "spin" /\ lstep[t] # step}

\* The counter is the number of threads of this round, except between the two
\* stores of the thread that opens the barrier, and while one opens it everybody
\* else is held: the reason a fast thread that comes round again cannot be counted
\* into the old round or lose its count to nwait_.store(0).
CounterExact ==
  /\ (\A t \in Threads : bpc[t] # "release") =>
        nwait = Cardinality(Waiting \cup Opening)
  /\ \A t \in Threads : bpc[t] = "release" => nwait = 0
  /\ \A t \in Opening : Threads \ {t} \subseteq Waiting

\* The round number a thread holds is never out of date while it arrives, and
\* never more than one behind while it leaves (so modulo StepMod it cannot be
\* mistaken for the current one).
StepFresh ==
  \A t \in Threads :
    /\ bpc[t] \in {"add", "reset", "release"} => lstep[t] = step
    /\ bpc[t] = "spin" => lstep[t] = step \/ step = Succ(lstep[t])

\* The promise of the abstract barrier.
Abs == INSTANCE CyclicBarrier
         WITH arrived <- Waiting \cup Opening, leaving <- Released

\* wait() keeps the promise of a barrier that is used again and again: nobody leaves
\* a round before all have come, and the next opens only when all have left it.
AbstractBarrier == Abs!Spec

\* Once every thread has called wait() in the same round, every thread returns.
AllLeave ==
  \A t \in Threads :
    (\A u \in Threads : bpc[u] # "out" /\ lstep[u] = step) ~> (bpc[t] = "out")
=============================================================================
