--------------------------- MODULE SimRootProofs ---------------------------
(***************************************************************************)
(* The tick engine for every number of threads, every set of objects and   *)
(* every assignment of objects to threads.                                 *)
(***************************************************************************)
EXTENDS SimRoot, FiniteSetTheorems, TLAPS

(* The barrier of a tick: its inductive invariant, and that it implements the
   abstract barrier of CyclicBarrier.tla. *)

\* The conjunction that is inductive: the counter is exact only because no round
\* number is stale, and the round numbers are fresh only because the counter lets
\* nobody open the barrier early.
BarrierIInv == BarrierTypeOK /\ CounterExact /\ StepFresh

\* The threads a round has collected.
Collected == Waiting \cup Opening

-----------------------------------------------------------------------------
\* The wrap-around increment stays in range and moves, whatever the width.
LEMMA SuccMoves ==
  ASSUME NEW s \in 0 .. StepMod - 1
  PROVE  Succ(s) \in 0 .. StepMod - 1 /\ Succ(s) # s
BY StepModAssumption DEF Succ

LEMMA ThreadsFinite ==
  /\ IsFiniteSet(Threads)
  /\ Cardinality(Threads) = N
<1>1. 0 \in Int /\ N - 1 \in Int /\ N - 1 >= 0
  BY NAssumption
<1>2. IsFiniteSet(0 .. N - 1) /\ Cardinality(0 .. N - 1) = (N - 1) - 0 + 1
  BY <1>1, FS_Interval
<1>. QED  BY <1>2, NAssumption DEF Threads

LEMMA CollectedFinite ==
  /\ IsFiniteSet(Collected)
  /\ Cardinality(Collected) \in 0 .. N
<1>1. Collected \in SUBSET Threads
  BY DEF Collected, Waiting, Opening
<1>2. IsFiniteSet(Collected) /\ Cardinality(Collected) <= N
  BY <1>1, ThreadsFinite, FS_Subset
<1>3. Cardinality(Collected) \in Nat
  BY <1>2, FS_CardinalityType
<1>. QED  BY <1>2, <1>3, NAssumption

\* nwait_.fetch_add returning n_-1 says that everybody else is held in the round.
LEMMA LastIsLast ==
  ASSUME BarrierIInv, NEW t \in Threads, bpc[t] = "add"
  PROVE  /\ nwait = Cardinality(Collected)
         /\ nwait \in 0 .. N - 1
         /\ Opening = {}
         /\ nwait = N - 1 => Threads \ {t} = Waiting
<1>1. t \notin Collected
  BY DEF Collected, Waiting, Opening
<1>2. Opening = {}
  BY <1>1 DEF BarrierIInv, CounterExact, Collected, Waiting, Opening
<1>3. nwait = Cardinality(Collected)
  BY <1>2 DEF BarrierIInv, CounterExact, Collected, Opening
<1>4. /\ IsFiniteSet(Threads \ {t})
      /\ Cardinality(Threads \ {t}) = N - 1
  BY ThreadsFinite, FS_RemoveElement
<1>5. Collected \in SUBSET (Threads \ {t})
  BY <1>1 DEF Collected, Waiting, Opening
<1>6. /\ Cardinality(Collected) <= Cardinality(Threads \ {t})
      /\ Cardinality(Threads \ {t}) = Cardinality(Collected)
           => Threads \ {t} = Collected
  BY <1>4, <1>5, FS_Subset
<1>7. nwait = N - 1 => Threads \ {t} = Waiting
  BY <1>2, <1>3, <1>4, <1>6 DEF Collected
<1>. QED  BY <1>2, <1>3, <1>4, <1>6, <1>7, CollectedFinite, NAssumption

-----------------------------------------------------------------------------
\* The initial state and each atomic access of wait() keep the invariant.
LEMMA BarrierInitInv == BarrierInit => BarrierIInv
<1> SUFFICES ASSUME BarrierInit PROVE BarrierIInv
  OBVIOUS
<1>1. BarrierTypeOK
  BY NAssumption, StepModAssumption DEF BarrierInit, BarrierTypeOK
<1>2. Waiting \cup Opening = {}
  BY DEF BarrierInit, Waiting, Opening
<1>3. CounterExact
  BY <1>2, FS_EmptySet DEF BarrierInit, CounterExact, Opening
<1>4. StepFresh
  BY DEF BarrierInit, StepFresh
<1>. QED  BY <1>1, <1>3, <1>4 DEF BarrierIInv

LEMMA LoadStepInv ==
  ASSUME BarrierIInv, NEW t \in Threads, LoadStep(t)
  PROVE  BarrierIInv'
<1> USE DEF BarrierIInv, LoadStep
<1>1. BarrierTypeOK'
  BY DEF BarrierTypeOK
<1>2. Waiting' = Waiting /\ Opening' = Opening
  BY DEF BarrierTypeOK, Waiting, Opening
<1>3. CounterExact'
  BY <1>2 DEF BarrierTypeOK, CounterExact
<1>4. StepFresh'
  BY DEF BarrierTypeOK, StepFresh
<1>. QED  BY <1>1, <1>3, <1>4

LEMMA FetchAddInv ==
  ASSUME BarrierIInv, NEW t \in Threads, FetchAdd(t)
  PROVE  BarrierIInv'
<1> USE DEF BarrierIInv, FetchAdd
<1>1. /\ nwait = Cardinality(Collected)
      /\ nwait \in 0 .. N - 1
      /\ Opening = {}
      /\ nwait = N - 1 => Threads \ {t} = Waiting
  BY LastIsLast
<1>2. BarrierTypeOK'
  BY <1>1, NAssumption DEF BarrierTypeOK
<1>3. lstep[t] = step
  BY DEF StepFresh
<1>4. Collected' = Collected \cup {t} /\ t \notin Collected
  BY <1>3 DEF BarrierTypeOK, Collected, Waiting, Opening
<1>5. nwait' = Cardinality(Collected')
  BY <1>1, <1>4, CollectedFinite, FS_AddElement
<1>6. Waiting \subseteq Waiting'
  BY DEF BarrierTypeOK, Waiting
<1>7. Opening' = IF nwait = N - 1 THEN {t} ELSE {}
  BY <1>1 DEF BarrierTypeOK, Opening
<1>8. \A u \in Threads : bpc'[u] # "release"
  BY <1>1 DEF BarrierTypeOK, Opening
<1>9. CounterExact'
  BY <1>1, <1>5, <1>6, <1>7, <1>8 DEF CounterExact, Collected
<1>10. StepFresh'
  BY <1>3 DEF BarrierTypeOK, StepFresh
<1>. QED  BY <1>2, <1>9, <1>10

LEMMA ResetCountInv ==
  ASSUME BarrierIInv, NEW t \in Threads, ResetCount(t)
  PROVE  BarrierIInv'
<1> USE DEF BarrierIInv, ResetCount
<1>1. BarrierTypeOK'
  BY NAssumption DEF BarrierTypeOK
<1>2. Waiting' = Waiting /\ Opening' = Opening
  BY DEF BarrierTypeOK, Waiting, Opening
<1>3. CounterExact'
  BY <1>2 DEF BarrierTypeOK, CounterExact
<1>4. StepFresh'
  BY DEF BarrierTypeOK, StepFresh
<1>. QED  BY <1>1, <1>3, <1>4

\* Opening the barrier: nobody but the waiters and t is inside, so nobody holds a
\* round number that the store makes stale by more than one.
LEMMA StoreStepInv ==
  ASSUME BarrierIInv, NEW t \in Threads, StoreStep(t)
  PROVE  /\ BarrierIInv'
         /\ Collected = Threads
         /\ Collected' = {}
         /\ Released' = Threads \ {t}
<1> USE DEF BarrierIInv, StoreStep
<1>1. lstep[t] = step /\ step \in 0 .. StepMod - 1
  BY DEF StepFresh, BarrierTypeOK
<1>2. step' = Succ(step) /\ step' # step /\ step' \in 0 .. StepMod - 1
  BY <1>1, SuccMoves
<1>3. BarrierTypeOK'
  BY <1>2 DEF BarrierTypeOK
<1>4. t \in Opening /\ Threads \ {t} \subseteq Waiting /\ nwait = 0
  BY DEF CounterExact, Opening
<1>5. \A u \in Threads \ {t} : bpc[u] = "spin" /\ lstep[u] = step
  BY <1>4 DEF Waiting
<1>6. \A u \in Threads \ {t} : bpc'[u] = "spin" /\ lstep'[u] = step
  BY <1>5 DEF BarrierTypeOK
<1>7. bpc'[t] = "out"
  BY DEF BarrierTypeOK
<1>8. Waiting' = {} /\ Opening' = {} /\ Released' = Threads \ {t}
  BY <1>2, <1>6, <1>7 DEF Waiting, Opening, Released
<1>9. CounterExact'
  <2>1. nwait' = Cardinality(Waiting' \cup Opening')
    BY <1>4, <1>8, FS_EmptySet
  <2>2. \A u \in Threads : bpc'[u] # "release"
    BY <1>6, <1>7
  <2>. QED  BY <1>8, <2>1, <2>2 DEF CounterExact
<1>10. StepFresh'
  BY <1>2, <1>6, <1>7 DEF StepFresh
<1>11. Collected = Threads /\ Collected' = {}
  BY <1>4, <1>8 DEF Collected, Waiting, Opening
<1>. QED  BY <1>3, <1>8, <1>9, <1>10, <1>11

LEMMA SpinExitInv ==
  ASSUME BarrierIInv, NEW t \in Threads, SpinExit(t)
  PROVE  /\ BarrierIInv'
         /\ Collected' = Collected
         /\ Released' = Released \ {t}
         /\ t \in Released
<1> USE DEF BarrierIInv, SpinExit
<1>1. BarrierTypeOK'
  BY DEF BarrierTypeOK
<1>2. Waiting' = Waiting /\ Opening' = Opening
  BY DEF BarrierTypeOK, Waiting, Opening
<1>3. CounterExact'
  BY <1>2 DEF BarrierTypeOK, CounterExact
<1>4. StepFresh'
  BY DEF BarrierTypeOK, StepFresh
<1>5. Released' = Released \ {t} /\ t \in Released
  BY DEF BarrierTypeOK, Released
<1>. QED  BY <1>1, <1>2, <1>3, <1>4, <1>5 DEF Collected

-----------------------------------------------------------------------------
\* A step that leaves the barrier alone keeps its invariant.
LEMMA BarrierStutterInv ==
  ASSUME BarrierIInv, UNCHANGED barrierVars
  PROVE  BarrierIInv'
BY DEF barrierVars, BarrierIInv, BarrierTypeOK, CounterExact, StepFresh,
       Waiting, Opening

LEMMA BarrierStepInv ==
  ASSUME BarrierIInv, NEW t \in Threads, LoadStep(t) \/ Inside(t)
  PROVE  BarrierIInv'
BY LoadStepInv, FetchAddInv, ResetCountInv, StoreStepInv, SpinExitInv DEF Inside

\* SpinBarrier::wait, for any number of threads and any width of step_: the counter
\* is exact, everybody else is held while one thread opens the barrier, and no
\* round number is stale by more than one round.
THEOREM BarrierSafe == BarrierSpec => [](BarrierTypeOK /\ CounterExact /\ StepFresh)
<1>1. BarrierInit => BarrierIInv
  BY BarrierInitInv
<1>2. BarrierIInv /\ [BarrierNext]_barrierVars => BarrierIInv'
  BY BarrierStepInv, BarrierStutterInv DEF BarrierNext
<1>3. BarrierIInv => BarrierTypeOK /\ CounterExact /\ StepFresh
  BY DEF BarrierIInv
<1>. QED  BY <1>1, <1>2, <1>3, PTL DEF BarrierSpec

-----------------------------------------------------------------------------
\* Each atomic access is a step of the abstract barrier or leaves it unchanged.
LEMMA BarrierStepRefines ==
  ASSUME BarrierIInv, NEW t \in Threads, LoadStep(t) \/ Inside(t)
  PROVE  \/ Abs!Next
         \/ UNCHANGED <<Waiting \cup Opening, Released>>
<1> USE DEF Abs!Next, Abs!Arrive, Abs!Open, Abs!Return
<1>1. CASE LoadStep(t)
  BY <1>1 DEF LoadStep, BarrierIInv, BarrierTypeOK, Waiting, Opening, Released
<1>2. CASE FetchAdd(t)
  <2>1. lstep[t] = step /\ bpc[t] = "add"
    BY <1>2 DEF FetchAdd, BarrierIInv, StepFresh
  <2>2. t \notin (Waiting \cup Opening) \cup Released
    BY <2>1 DEF Waiting, Opening, Released
  <2>3. (Waiting \cup Opening)' = (Waiting \cup Opening) \cup {t}
    BY <1>2, <2>1 DEF FetchAdd, BarrierIInv, BarrierTypeOK, Waiting, Opening
  <2>4. Released' = Released
    BY <1>2, <2>1 DEF FetchAdd, BarrierIInv, BarrierTypeOK, Released
  <2>. QED  BY <2>2, <2>3, <2>4
<1>3. CASE ResetCount(t)
  BY <1>3 DEF ResetCount, BarrierIInv, BarrierTypeOK, Waiting, Opening, Released
<1>4. CASE StoreStep(t)
  BY <1>4, StoreStepInv DEF Collected
<1>5. CASE SpinExit(t)
  BY <1>5, SpinExitInv DEF Collected
<1>. QED  BY <1>1, <1>2, <1>3, <1>4, <1>5 DEF Inside

\* The spinning barrier implements the abstract one: nobody returns from wait()
\* before all n_ threads have called it, and nobody is let through twice.
THEOREM BarrierRefines == BarrierSpec => AbstractBarrier
<1>1. BarrierInit => Abs!Init
  BY DEF BarrierInit, Abs!Init, Waiting, Opening, Released
<1>2. BarrierIInv /\ [BarrierNext]_barrierVars
        => [Abs!Next]_<<Waiting \cup Opening, Released>>
  <2> SUFFICES ASSUME BarrierIInv, [BarrierNext]_barrierVars
               PROVE  [Abs!Next]_<<Waiting \cup Opening, Released>>
    OBVIOUS
  <2>1. CASE BarrierNext
    BY <2>1, BarrierStepRefines DEF BarrierNext
  <2>2. CASE UNCHANGED barrierVars
    BY <2>2 DEF barrierVars, Waiting, Opening, Released
  <2>. QED  BY <2>1, <2>2
<1>3. BarrierSpec => []BarrierIInv
  BY BarrierSafe DEF BarrierIInv
<1>. QED  BY <1>1, <1>2, <1>3, PTL DEF BarrierSpec, AbstractBarrier, Abs!Spec

-----------------------------------------------------------------------------
(* The tick engine: types, the isolation of the two halves of a tick, and when the
   objects work. *)

\* PhaseIsolation is not inductive: it needs the side of the threads that are in
\* the barrier (Lockstep), what the barrier knows of them (BarrierIInv), and that
\* only a thread in sync_cur or sync_apl is in the barrier.
OnlySyncInBarrier ==
  \A t \in Threads : bpc[t] # "out" => pc[t] \in {"sync_cur", "sync_apl"}

RootIInv == TypeOK /\ BarrierIInv /\ Lockstep /\ OnlySyncInBarrier

-----------------------------------------------------------------------------
LEMMA InitInv == Init => RootIInv
<1> SUFFICES ASSUME Init PROVE RootIInv
  OBVIOUS
<1>1. BarrierIInv
  BY BarrierInitInv DEF Init
<1>2. TypeOK
  BY <1>1, NAssumption, TickModAssumption, ObjectsAssumption
     DEF Init, TypeOK, BarrierIInv, PC
<1>3. Lockstep
  BY DEF Init, Lockstep, OnCurSide
<1>4. OnlySyncInBarrier
  BY DEF Init, BarrierInit, OnlySyncInBarrier
<1>. QED  BY <1>1, <1>2, <1>3, <1>4 DEF RootIInv

\* A step of one thread outside the barrier that stays on its side.
LEMMA SameSide ==
  ASSUME RootIInv, UNCHANGED barrierVars,
         NEW t \in Threads, NEW from, NEW to \in PC, Goto(t, from, to),
         bpc[t] = "out",
         OnCurSide(t) => to \in {"check", "cur", "sync_cur", "exited"},
         OnAplSide(t) => to \in {"apl", "sync_apl"}
  PROVE  Lockstep' /\ OnlySyncInBarrier' /\ pc' \in [Threads -> PC] /\ BarrierIInv'
<1>1. pc \in [Threads -> PC] /\ bpc \in [Threads -> {"out", "add", "reset", "release", "spin"}]
  BY DEF RootIInv, TypeOK, BarrierTypeOK
<1>2. pc' \in [Threads -> PC] /\ pc'[t] = to
  BY <1>1 DEF Goto
<1>3. Released' = Released /\ t \notin Released
  BY DEF barrierVars, Released
<1>4. \A u \in Threads : OnCurSide(u) => OnCurSide(u)'
  BY <1>1, <1>2, <1>3 DEF Goto, OnCurSide
<1>5. \A u \in Threads : OnAplSide(u) => OnAplSide(u)'
  BY <1>1, <1>2, <1>3 DEF Goto, OnAplSide
<1>6. Lockstep'
  BY <1>4, <1>5 DEF RootIInv, Lockstep
<1>7. OnlySyncInBarrier'
  BY <1>1, <1>2 DEF RootIInv, OnlySyncInBarrier, Goto, barrierVars
<1>8. BarrierIInv'
  BY BarrierStutterInv DEF RootIInv
<1>. QED  BY <1>2, <1>6, <1>7, <1>8

\* Outside sync_cur and sync_apl a thread is not in the barrier, and what pc says
\* of its side is exact.
LEMMA SideOfPc ==
  ASSUME RootIInv, NEW t \in Threads
  PROVE  /\ pc[t] \notin {"sync_cur", "sync_apl"} => bpc[t] = "out"
         /\ pc[t] \in {"new", "check", "cur", "exited"} => ~OnAplSide(t)
         /\ pc[t] = "apl" => ~OnCurSide(t)
BY DEF RootIInv, OnlySyncInBarrier, OnCurSide, OnAplSide

\* start_sim's own steps.
LEMMA CreateInv == ASSUME RootIInv, CreateThread PROVE RootIInv'
<1>1. created \in Threads
  BY NAssumption DEF CreateThread, RootIInv, TypeOK, Threads
<1>2. Goto(created, "new", "check") /\ pc[created] = "new" /\ UNCHANGED barrierVars
  BY DEF CreateThread, Goto
<1>3. bpc[created] = "out" /\ ~OnAplSide(created)
  BY <1>1, <1>2, SideOfPc
<1>4. "check" \in PC
  BY DEF PC
<1>5. Lockstep' /\ OnlySyncInBarrier' /\ pc' \in [Threads -> PC] /\ BarrierIInv'
  BY <1>1, <1>2, <1>3, <1>4, SameSide
<1>6. created' \in 0 .. N
  BY NAssumption DEF CreateThread, RootIInv, TypeOK
<1>7. TypeOK'
  BY <1>5, <1>6 DEF CreateThread, RootIInv, TypeOK, BarrierIInv
<1>. QED  BY <1>5, <1>7 DEF RootIInv

LEMMA JoinInv == ASSUME RootIInv, JoinThread PROVE RootIInv'
<1>1. BarrierIInv'
  BY BarrierStutterInv DEF JoinThread, RootIInv
<1>2. TypeOK'
  BY <1>1, NAssumption DEF JoinThread, RootIInv, TypeOK, BarrierIInv
<1>3. Lockstep' /\ OnlySyncInBarrier'
  BY DEF JoinThread, RootIInv, Lockstep, OnlySyncInBarrier, OnCurSide, OnAplSide,
         Released, barrierVars
<1>. QED  BY <1>1, <1>2, <1>3 DEF RootIInv

\* The three steps of the thread function that are not in the barrier.
LEMMA CheckInv ==
  ASSUME RootIInv, NEW t \in Threads, CheckProcessing(t) PROVE RootIInv'
<1> DEFINE to == IF is_processing THEN "cur" ELSE "exited"
<1>1. Goto(t, "check", to) /\ pc[t] = "check" /\ UNCHANGED barrierVars
  BY DEF CheckProcessing, Goto
<1>2. bpc[t] = "out" /\ ~OnAplSide(t)
  BY <1>1, SideOfPc
<1>3. to \in PC /\ to \in {"check", "cur", "sync_cur", "exited"}
  BY DEF PC
<1>4. Lockstep' /\ OnlySyncInBarrier' /\ pc' \in [Threads -> PC] /\ BarrierIInv'
  BY <1>1, <1>2, <1>3, SameSide
<1>5. TypeOK'
  BY <1>4 DEF CheckProcessing, RootIInv, TypeOK, BarrierIInv
<1>. QED  BY <1>4, <1>5 DEF RootIInv

LEMMA OnCurrentTickInv ==
  ASSUME RootIInv, NEW t \in Threads, OnCurrentTick(t) PROVE RootIInv'
<1>1. Goto(t, "cur", "sync_cur") /\ pc[t] = "cur" /\ UNCHANGED barrierVars
  BY DEF OnCurrentTick, Goto
<1>2. bpc[t] = "out" /\ ~OnAplSide(t)
  BY <1>1, SideOfPc
<1>3. "sync_cur" \in PC
  BY DEF PC
<1>4. Lockstep' /\ OnlySyncInBarrier' /\ pc' \in [Threads -> PC] /\ BarrierIInv'
  BY <1>1, <1>2, <1>3, SameSide
<1>5. is_processing' \in BOOLEAN
  BY DEF OnCurrentTick, RootIInv, TypeOK
<1>6. TypeOK'
  BY <1>4, <1>5 DEF OnCurrentTick, RootIInv, TypeOK, BarrierIInv
<1>. QED  BY <1>4, <1>6 DEF RootIInv

LEMMA ApplyNextTickInv ==
  ASSUME RootIInv, NEW t \in Threads, ApplyNextTick(t) PROVE RootIInv'
<1>1. Goto(t, "apl", "sync_apl") /\ pc[t] = "apl" /\ UNCHANGED barrierVars
  BY DEF ApplyNextTick, Goto
<1>2. bpc[t] = "out" /\ ~OnCurSide(t)
  BY <1>1, SideOfPc
<1>3. "sync_apl" \in PC
  BY DEF PC
<1>4. Lockstep' /\ OnlySyncInBarrier' /\ pc' \in [Threads -> PC] /\ BarrierIInv'
  BY <1>1, <1>2, <1>3, SameSide
<1>5. current_tick' \in 0 .. TickMod - 1
  BY TickModAssumption DEF ApplyNextTick, RootIInv, TypeOK
<1>6. countdown' \in [Objects -> Nat]
  <2>1. \A o \in Objects : Latency[o] \in Nat \ {0} /\ countdown[o] \in Nat
    BY ObjectsAssumption DEF RootIInv, TypeOK
  <2>. QED  BY <2>1 DEF ApplyNextTick, Reloaded
<1>7. TypeOK'
  BY <1>4, <1>5, <1>6 DEF ApplyNextTick, Reloaded, RootIInv, TypeOK, BarrierIInv
<1>. QED  BY <1>4, <1>7 DEF RootIInv

\* Inside the barrier.  Opening it turns the side of every thread at once: all of
\* them are collected, so all of them wait on the same side.
LEMMA SyncInv ==
  ASSUME RootIInv, NEW t \in Threads, Sync(t) PROVE RootIInv'
<1> DEFINE Step == LoadStep(t) \/ Inside(t)
<1>1. Step /\ BarrierIInv'
  BY BarrierStepInv DEF Sync, Inside, RootIInv
<1>2. pc \in [Threads -> PC] /\ bpc \in [Threads -> {"out", "add", "reset", "release", "spin"}]
  BY DEF RootIInv, TypeOK, BarrierTypeOK
<1>3. pc' \in [Threads -> PC]
  BY <1>2 DEF Sync, PC
<1>4. TypeOK'
  BY <1>1, <1>3 DEF Sync, RootIInv, TypeOK, BarrierIInv
<1>5. OnlySyncInBarrier'
  BY <1>2 DEF Sync, RootIInv, OnlySyncInBarrier, LoadStep, FetchAdd, ResetCount,
              StoreStep, SpinExit
<1>6. Lockstep'
  <2>1. CASE (LoadStep(t) \/ FetchAdd(t) \/ ResetCount(t)) /\ UNCHANGED pc
    <3>1. bpc[t] = "add" => lstep[t] = step
      BY DEF RootIInv, BarrierIInv, StepFresh
    <3>2. Released' = Released
      BY <1>2, <2>1, <3>1 DEF LoadStep, FetchAdd, ResetCount, Released, RootIInv, TypeOK,
                              BarrierTypeOK
    <3>. QED  BY <2>1, <3>2 DEF RootIInv, Lockstep, OnCurSide, OnAplSide
  <2>2. CASE /\ StoreStep(t)
             /\ pc' = [pc EXCEPT ![t] = IF @ = "sync_cur" THEN "apl" ELSE "check"]
    <3>1. Collected = Threads /\ Released' = Threads \ {t}
      BY <2>2, StoreStepInv DEF RootIInv
    <3>2. \A u \in Threads : u \notin Released /\ pc[u] \in {"sync_cur", "sync_apl"}
      BY <3>1 DEF Collected, Waiting, Opening, Released, RootIInv, OnlySyncInBarrier
    <3>3. CASE \A u \in Threads : OnCurSide(u)
      <4>1. \A u \in Threads : pc[u] = "sync_cur"
        BY <3>2, <3>3 DEF OnCurSide
      <4>2. \A u \in Threads : OnAplSide(u)'
        BY <1>2, <2>2, <3>1, <4>1 DEF OnAplSide
      <4>. QED  BY <4>2 DEF Lockstep
    <3>4. CASE \A u \in Threads : OnAplSide(u)
      <4>1. \A u \in Threads : pc[u] = "sync_apl"
        BY <3>2, <3>4 DEF OnAplSide
      <4>2. \A u \in Threads : OnCurSide(u)'
        BY <1>2, <2>2, <3>1, <4>1 DEF OnCurSide
      <4>. QED  BY <4>2 DEF Lockstep
    <3>. QED  BY <3>3, <3>4 DEF RootIInv, Lockstep
  <2>3. CASE /\ SpinExit(t)
             /\ pc' = [pc EXCEPT ![t] = IF @ = "sync_cur" THEN "apl" ELSE "check"]
    <3>1. t \in Released /\ Released' = Released \ {t}
      BY <2>3, SpinExitInv DEF RootIInv
    <3>2. pc[t] \in {"sync_cur", "sync_apl"}
      BY DEF Sync
    <3>3. \A u \in Threads : OnCurSide(u) => OnCurSide(u)'
      BY <1>2, <2>3, <3>1, <3>2 DEF OnCurSide
    <3>4. \A u \in Threads : OnAplSide(u) => OnAplSide(u)'
      BY <1>2, <2>3, <3>1, <3>2 DEF OnAplSide
    <3>. QED  BY <3>3, <3>4 DEF RootIInv, Lockstep
  <2>. QED  BY <2>1, <2>2, <2>3 DEF Sync
<1>. QED  BY <1>1, <1>4, <1>5, <1>6 DEF RootIInv

LEMMA RootStepInv == RootIInv /\ [Next]_vars => RootIInv'
<1> SUFFICES ASSUME RootIInv, [Next]_vars PROVE RootIInv'
  OBVIOUS
<1>1. CASE Next
  BY <1>1, CreateInv, JoinInv, CheckInv, OnCurrentTickInv, ApplyNextTickInv, SyncInv
     DEF Next, Worker
<1>2. CASE UNCHANGED vars
  <2>1. BarrierIInv'
    BY <1>2, BarrierStutterInv DEF vars, RootIInv
  <2>. QED
    BY <1>2, <2>1 DEF vars, rootVars, barrierVars, RootIInv, TypeOK, BarrierTypeOK, Lockstep,
                      OnlySyncInBarrier, OnCurSide, OnAplSide, Released
<1>. QED  BY <1>1, <1>2

LEMMA RootInvariant == Spec => []RootIInv
BY InitInv, RootStepInv, PTL DEF Spec

-----------------------------------------------------------------------------
\* The state of the engine keeps its types, for every constant.
THEOREM TypeCorrect == Spec => []TypeOK
<1>1. RootIInv => TypeOK
  BY DEF RootIInv
<1>. QED  BY <1>1, RootInvariant, PTL

\* All threads are in the same half of a tick at any time.
THEOREM LockstepHolds == Spec => []Lockstep
<1>1. RootIInv => Lockstep
  BY DEF RootIInv
<1>. QED  BY <1>1, RootInvariant, PTL

\* No thread runs apply_next_tick while another runs on_current_tick.
THEOREM PhasesIsolated == Spec => []PhaseIsolation
<1>1. RootIInv => PhaseIsolation
  BY DEF RootIInv, Lockstep, PhaseIsolation, OnCurSide, OnAplSide
<1>. QED  BY <1>1, RootInvariant, PTL

\* current_tick does not change while any thread is in its on_current_tick half.
THEOREM TickStable == Spec => TickStableInCur
<1>1. RootIInv /\ [Next]_vars =>
        [current_tick' # current_tick => \A t \in Threads : pc[t] # "cur"]_vars
  <2> SUFFICES ASSUME RootIInv, Next, current_tick' # current_tick, NEW u \in Threads
               PROVE  pc[u] # "cur"
    BY DEF vars
  <2>1. PICK t \in Threads : ApplyNextTick(t)
    BY DEF Next, Worker, CreateThread, JoinThread, CheckProcessing, OnCurrentTick, Sync
  <2>2. pc[t] = "apl"
    BY <2>1 DEF ApplyNextTick, Goto
  <2>3. \A v \in Threads : OnAplSide(v)
    BY <2>2, SideOfPc DEF RootIInv, Lockstep
  <2>. QED  BY <2>3, SideOfPc
<1>. QED  BY <1>1, RootInvariant, PTL DEF Spec, TickStableInCur
-----------------------------------------------------------------------------
(* The cadence.  While the threads are in their second halves, some have counted   *)
(* down and some have not, and thread 0 may have advanced the tick or not; the sum *)
(* that Cadence speaks of is off by the difference.                                *)

Applied(t) == pc[t] = "sync_apl" /\ t \notin Released
Moved(t) == IF Applied(t) THEN 1 ELSE 0
Sum(o) == current_tick + 1 + countdown[o] + Moved(TaskOf[o]) - Moved(0)
CadenceInv == \A o \in Objects : \E k \in Int : Sum(o) = k * Latency[o]
TickModFits == \A o \in Objects : TickMod % Latency[o] = 0

\* A multiple leaves no remainder, and what leaves none is a multiple.
LEMMA MultipleMod ==
  ASSUME NEW L \in Nat \ {0}, NEW k \in Int PROVE  (k * L) % L = 0
<1> DEFINE q == (k * L) \div L
           r == (k * L) % L
<1>1. q \in Int /\ r \in 0 .. L - 1 /\ k * L = L * q + r
  OBVIOUS
<1> HIDE DEF q, r
<1>2. L * (k - q) = r
  BY <1>1
<1>3. k - q = 0 \/ k - q >= 1 \/ k - q <= 0 - 1
  BY <1>1
<1>4. ASSUME NEW d \in Int, d >= 1 PROVE L * d >= L
  BY <1>4
<1>5. CASE k - q >= 1
  BY <1>1, <1>2, <1>4, <1>5
<1>6. CASE k - q <= 0 - 1
  <2>1. L * (q - k) >= L
    BY <1>1, <1>4, <1>6
  <2>2. L * (k - q) = 0 - L * (q - k)
    BY <1>1
  <2> QED BY <2>1, <2>2, <1>1, <1>2
<1>7. CASE k - q = 0
  BY <1>1, <1>2, <1>7
<1> QED BY <1>3, <1>5, <1>6, <1>7
LEMMA ModMultiple ==
  ASSUME NEW L \in Nat \ {0}, NEW n \in Nat, n % L = 0 PROVE \E k \in Int : n = k * L
<1>1. n \div L \in Int /\ n = L * (n \div L) + (n % L)
  OBVIOUS
<1> QED BY <1>1

\* Steps that do not count down change Moved for nobody, or, when the barrier lets the
\* threads into the next tick, for all of them.
LEMMA OthersMove ==
  ASSUME RootIInv, [Next]_vars, \A t \in Threads : ~ApplyNextTick(t)
  PROVE  /\ current_tick' = current_tick /\ countdown' = countdown
         /\ \/ \A u \in Threads : Applied(u)' = Applied(u)
            \/ \A u \in Threads : Applied(u) /\ ~Applied(u)'
<1>1. current_tick' = current_tick /\ countdown' = countdown
  BY DEF Next, Worker, vars, rootVars, CreateThread, JoinThread, CheckProcessing, OnCurrentTick, Sync
<1>2. /\ pc \in [Threads -> PC]
      /\ bpc \in [Threads -> {"out", "add", "reset", "release", "spin"}]
  BY DEF RootIInv, TypeOK, BarrierTypeOK
<1>3. CASE UNCHANGED barrierVars /\ \A u \in Threads : pc'[u] = "sync_apl" <=> pc[u] = "sync_apl"
  BY <1>1, <1>3 DEF barrierVars, Applied, Released
<1>4. CASE UNCHANGED vars
  BY <1>3, <1>4 DEF vars, rootVars
<1>5. CASE CreateThread \/ JoinThread
  <2>1. \A u \in Threads : pc'[u] = "sync_apl" <=> pc[u] = "sync_apl"
    BY <1>2, <1>5 DEF CreateThread, JoinThread, Goto
  <2> QED
    BY <1>3, <1>5, <2>1 DEF CreateThread, JoinThread
<1>6. CASE \E t \in Threads : CheckProcessing(t) \/ OnCurrentTick(t)
  <2>1. \A u \in Threads : pc'[u] = "sync_apl" <=> pc[u] = "sync_apl"
    BY <1>2, <1>6 DEF CheckProcessing, OnCurrentTick, Goto
  <2> QED
    BY <1>3, <1>6, <2>1 DEF CheckProcessing, OnCurrentTick
<1>7. ASSUME NEW t \in Threads, Sync(t)
      PROVE  \/ \A u \in Threads : Applied(u)' = Applied(u)
             \/ \A u \in Threads : Applied(u) /\ ~Applied(u)'
  <2>1. CASE (LoadStep(t) \/ FetchAdd(t) \/ ResetCount(t)) /\ UNCHANGED pc
    <3>1. bpc[t] = "add" => lstep[t] = step
      BY DEF RootIInv, BarrierIInv, StepFresh
    <3>2. Released' = Released
      BY <1>2, <2>1, <3>1 DEF LoadStep, FetchAdd, ResetCount, Released, RootIInv, TypeOK,
                              BarrierTypeOK
    <3> QED
      BY <2>1, <3>2 DEF Applied
  <2>2. CASE /\ StoreStep(t)
             /\ pc' = [pc EXCEPT ![t] = IF @ = "sync_cur" THEN "apl" ELSE "check"]
    <3>1. Collected = Threads /\ Released' = Threads \ {t}
      BY <2>2, StoreStepInv DEF RootIInv
    <3>2. \A u \in Threads : u \notin Released /\ pc[u] \in {"sync_cur", "sync_apl"}
      BY <3>1 DEF Collected, Waiting, Opening, Released, RootIInv, OnlySyncInBarrier
    <3>3. \A u \in Threads : ~Applied(u)'
      BY <1>2, <2>2, <3>1 DEF Applied
    <3>4. (\A u \in Threads : pc[u] = "sync_cur") \/ (\A u \in Threads : pc[u] = "sync_apl")
      BY <3>2 DEF RootIInv, Lockstep, OnCurSide, OnAplSide
    <3> QED
      BY <3>2, <3>3, <3>4 DEF Applied
  <2>3. CASE /\ SpinExit(t)
             /\ pc' = [pc EXCEPT ![t] = IF @ = "sync_cur" THEN "apl" ELSE "check"]
    <3>1. t \in Released /\ Released' = Released \ {t}
      BY <2>3, SpinExitInv DEF RootIInv
    <3> QED
      BY <1>2, <2>3, <3>1 DEF Applied
  <2> QED
    BY <1>7, <2>1, <2>2, <2>3 DEF Sync
<1> QED
  BY <1>1, <1>4, <1>5, <1>6, <1>7 DEF Next, Worker

\* A thread counts down: its objects' sums change by their latency or not at all; thread 0
\* advances the tick for everybody's, by TickMod less when it wraps around.
LEMMA CountsDown ==
  ASSUME RootIInv, CadenceInv, TickModFits, NEW t \in Threads, ApplyNextTick(t)
  PROVE  CadenceInv'
<1>1. pc[t] = "apl" /\ pc \in [Threads -> PC] /\ UNCHANGED barrierVars
      /\ pc' = [pc EXCEPT ![t] = "sync_apl"]
  BY DEF ApplyNextTick, Goto, RootIInv, TypeOK
<1>2. Released' = Released /\ t \notin Released
  BY <1>1, SideOfPc DEF barrierVars, Released
<1>3. Moved(t) = 0 /\ Moved(t)' = 1 /\ \A u \in Threads \ {t} : Moved(u)' = Moved(u)
  BY <1>1, <1>2 DEF Moved, Applied
<1>4. 0 \in Threads /\ \A u \in Threads : Moved(u) \in {0, 1}
  BY NAssumption DEF Threads, Moved
<1>5. ASSUME NEW o \in Objects PROVE \E k \in Int : Sum(o)' = k * Latency[o]
  <2>1. /\ Latency[o] \in Nat \ {0} /\ TaskOf[o] \in Threads
        /\ countdown[o] \in Nat /\ current_tick \in 0 .. TickMod - 1 /\ TickMod \in Nat
    BY ObjectsAssumption, TickModAssumption DEF RootIInv, TypeOK
  <2>2. PICK k \in Int : Sum(o) = k * Latency[o]
    BY DEF CadenceInv
  <2>3. PICK m \in Int : TickMod = m * Latency[o]
    BY <2>1, ModMultiple DEF TickModFits
  <2> DEFINE c == countdown'[o] + Moved(TaskOf[o])'
             w == current_tick' - Moved(0)'
  <2>4. c = countdown[o] + Moved(TaskOf[o]) \/ c = countdown[o] + Moved(TaskOf[o]) + Latency[o]
    <3>1. CASE TaskOf[o] = t
      BY <1>3, <2>1, <3>1 DEF ApplyNextTick, Reloaded
    <3>2. CASE TaskOf[o] # t
      BY <1>3, <1>4, <2>1, <3>2 DEF ApplyNextTick
    <3> QED
      BY <3>1, <3>2
  <2>5. w = current_tick - Moved(0) \/ w = current_tick - Moved(0) - TickMod
    <3>1. CASE t = 0
      BY <1>3, <2>1, <3>1 DEF ApplyNextTick
    <3>2. CASE t # 0
      BY <1>3, <1>4, <2>1, <3>2 DEF ApplyNextTick
    <3> QED
      BY <3>1, <3>2
  <2>6. /\ c \in Int /\ w \in Int
        /\ Sum(o)' = w + 1 + c
        /\ Sum(o) = (current_tick - Moved(0)) + 1 + (countdown[o] + Moved(TaskOf[o]))
    <3>1. Moved(0) \in {0, 1} /\ Moved(TaskOf[o]) \in {0, 1}
      BY <1>4, <2>1
    <3>2. c \in Int /\ w \in Int
      BY <2>1, <2>4, <2>5, <3>1
    <3>3. Moved(0)' \in {0, 1} /\ Moved(TaskOf[o])' \in {0, 1}
      BY DEF Moved
    <3>4. countdown'[o] \in Int /\ current_tick' \in Int
      BY <2>1, ObjectsAssumption, TickModAssumption DEF ApplyNextTick, Reloaded
    <3> QED
      BY <2>1, <3>1, <3>2, <3>3, <3>4 DEF Sum
  <2> HIDE DEF c, w
  <2>7. \E d, e \in {0, 1} : Sum(o)' = k * Latency[o] + d * Latency[o] - e * (m * Latency[o])
    <3>1. Moved(0) \in {0, 1} /\ Moved(TaskOf[o]) \in {0, 1}
      BY <1>4, <2>1
    <3> DEFINE a == current_tick - Moved(0)
               b == countdown[o] + Moved(TaskOf[o])
               x == k * Latency[o]
               y == m * Latency[o]
    <3>2. a \in Int /\ b \in Int /\ x \in Int /\ y \in Int /\ Latency[o] \in Int
      BY <2>1, <3>1
    <3>3. /\ Sum(o)' = w + 1 + c /\ x = a + 1 + b
          /\ c = b \/ c = b + Latency[o]
          /\ w = a \/ w = a - y
      BY <2>2, <2>3, <2>4, <2>5, <2>6
    <3> HIDE DEF a, b, x, y
    <3>4. \E d, e \in {0, 1} : Sum(o)' = x + d * Latency[o] - e * y
      BY <3>2, <3>3, <2>6
    <3> QED
      BY <3>4 DEF x, y
  <2>8. PICK d, e \in {0, 1} :
          Sum(o)' = k * Latency[o] + d * Latency[o] - e * (m * Latency[o])
    BY <2>7
  <2>9. CASE e = 0
    <3>1. k + d \in Int /\ (k + d) * Latency[o] = k * Latency[o] + d * Latency[o]
      BY <2>1
    <3>2. Sum(o)' = k * Latency[o] + d * Latency[o]
      BY <2>1, <2>8, <2>9
    <3> QED
      BY <3>1, <3>2
  <2>10. CASE e = 1
    <3>1. k + d - m \in Int
          /\ (k + d - m) * Latency[o] = k * Latency[o] + d * Latency[o] - m * Latency[o]
      BY <2>1
    <3>2. Sum(o)' = k * Latency[o] + d * Latency[o] - m * Latency[o]
      BY <2>1, <2>8, <2>10
    <3> QED
      BY <3>1, <3>2
  <2> QED
    BY <2>9, <2>10
<1> QED
  BY <1>5, ObjectsAssumption DEF CadenceInv

LEMMA CadenceStep == RootIInv /\ CadenceInv /\ TickModFits /\ [Next]_vars => CadenceInv'
<1> SUFFICES ASSUME RootIInv, CadenceInv, TickModFits, [Next]_vars PROVE CadenceInv'
  OBVIOUS
<1>1. CASE \E t \in Threads : ApplyNextTick(t)
  BY <1>1, CountsDown
<1>2. CASE \A t \in Threads : ~ApplyNextTick(t)
  <2>1. 0 \in Threads /\ \A o \in Objects : TaskOf[o] \in Threads
    BY NAssumption, ObjectsAssumption DEF Threads
  <2>2. /\ current_tick' = current_tick /\ countdown' = countdown
        /\ \/ \A u \in Threads : Applied(u)' = Applied(u)
           \/ \A u \in Threads : Applied(u) /\ ~Applied(u)'
    BY <1>2, OthersMove
  <2>3. \A o \in Objects : Latency[o] \in Nat /\ countdown[o] \in Nat /\ current_tick \in Int
    BY ObjectsAssumption, TickModAssumption DEF RootIInv, TypeOK
  <2>4. \A o \in Objects : Sum(o)' = Sum(o)
    <3>1. \/ \A u \in Threads : Moved(u)' = Moved(u)
          \/ \A u \in Threads : Moved(u) = 1 /\ Moved(u)' = 0
      BY <2>2 DEF Moved
    <3> QED
      BY <2>1, <2>2, <2>3, <3>1 DEF Sum
  <2> QED
    BY <2>4 DEF CadenceInv
<1> QED
  BY <1>1, <1>2

\* An object runs exactly in the ticks that complete a multiple of its latency, whichever
\* thread it is assigned to and however the threads run (simroot.cpp's entry.current), as
\* long as the tick counter's wrap-around is a multiple, too.
THEOREM CadenceHolds == TickModFits => (Spec => []Cadence)
<1> SUFFICES ASSUME TickModFits PROVE Spec => []Cadence
  OBVIOUS
<1>1. Init => CadenceInv
  <2> SUFFICES ASSUME Init, NEW o \in Objects PROVE \E k \in Int : Sum(o) = k * Latency[o]
    BY DEF CadenceInv
  <2>1. Moved(0) = 0 /\ Moved(TaskOf[o]) = 0 /\ Latency[o] \in Nat \ {0}
    BY NAssumption, ObjectsAssumption DEF Init, Moved, Applied, Threads
  <2>2. Sum(o) = 1 * Latency[o]
    BY <2>1 DEF Init, Sum
  <2> QED
    BY <2>2
<1>2. RootIInv /\ CadenceInv /\ [Next]_vars => CadenceInv'
  BY CadenceStep
<1>3. RootIInv /\ CadenceInv => Cadence
  <2> SUFFICES ASSUME RootIInv, CadenceInv, \A t \in Threads : OnCurSide(t), NEW o \in Objects
               PROVE  (current_tick + 1 + countdown[o]) % Latency[o] = 0
    BY DEF Cadence
  <2>1. /\ 0 \in Threads /\ TaskOf[o] \in Threads /\ Latency[o] \in Nat \ {0}
        /\ countdown[o] \in Nat /\ current_tick \in Int
    BY NAssumption, ObjectsAssumption, TickModAssumption DEF Threads, RootIInv, TypeOK
  <2>2. Moved(0) = 0 /\ Moved(TaskOf[o]) = 0
    BY <2>1 DEF Moved, Applied, OnCurSide
  <2>3. PICK k \in Int : Sum(o) = k * Latency[o]
    BY DEF CadenceInv
  <2>4. current_tick + 1 + countdown[o] = k * Latency[o]
    BY <2>1, <2>2, <2>3 DEF Sum
  <2> QED
    BY <2>1, <2>4, MultipleMod
<1> QED
  BY <1>1, <1>2, <1>3, RootInvariant, PTL DEF Spec
=============================================================================
