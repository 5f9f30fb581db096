----------------------------- MODULE SpinRWLock -----------------------------
(***************************************************************************)
(* SpinRWLock (spinlocks.cpp), which guards the MSHR arrays: an integer    *)
(* that counts the readers, or is -1 for a writer.  An attempt is a load   *)
(* and a compare and exchange that may fail for no reason; between the two *)
(* the others go on.                                                       *)
(***************************************************************************)
EXTENDS Integers, FiniteSets

CONSTANT RWThreads   \* the host threads that use the lock

ASSUME RWThreadsAssumption == IsFiniteSet(RWThreads)

VARIABLES
  lock,      \* the readers in it, -1 for a writer
  rwAt,      \* rwAt[t]: what t is at
  loaded,    \* the threads between their load and their exchange, and
  expected   \* expected[t]: what t loaded
rwVars == <<lock, rwAt, loaded, expected>>

rwInit ==
  /\ lock = 0 /\ loaded = {}
  /\ rwAt = [t \in RWThreads |-> "out"]
  /\ expected = [t \in RWThreads |-> 0]

Begins(t) ==
  /\ rwAt[t] = "out"
  /\ \E at \in {"read_lock", "write_lock"} : rwAt' = [rwAt EXCEPT ![t] = at]
  /\ UNCHANGED <<lock, loaded, expected>>

\* A lock that does not fit is loaded again by those who wait for it.
Load(t, at, fits) ==
  /\ rwAt[t] = at /\ t \notin loaded /\ fits
  /\ loaded' = loaded \cup {t}
  /\ expected' = [expected EXCEPT ![t] = lock]
  /\ UNCHANGED <<lock, rwAt>>

Assigned(t) == TRUE   \* (faulty: a store in place of the exchange)
Unchanged(t) == lock = expected[t]

Exchange(t, at, desired, to) ==
  /\ rwAt[t] = at /\ t \in loaded
  /\ loaded' = loaded \ {t}
  /\ \/ Unchanged(t) /\ lock' = desired /\ rwAt' = [rwAt EXCEPT ![t] = to]
     \/ UNCHANGED <<lock, rwAt>>
  /\ expected' = [expected EXCEPT ![t] = 0]   \* a local variable, done with

read_lock(t) ==
  \/ Load(t, "read_lock", lock >= 0)
  \/ Exchange(t, "read_lock", expected[t] + 1, "reading")
read_unlock(t) ==
  \/ Load(t, "reading", lock > 0)
  \/ Exchange(t, "reading", expected[t] - 1, "out")
write_lock(t) ==
  \/ Load(t, "write_lock", lock = 0)
  \/ Exchange(t, "write_lock", 0 - 1, "writing")
write_unlock(t) ==
  \/ Load(t, "writing", lock = 0 - 1)
  \/ Exchange(t, "writing", 0, "out")

rwNext ==
  \E t \in RWThreads :
    Begins(t) \/ read_lock(t) \/ read_unlock(t) \/ write_lock(t) \/ write_unlock(t)
rwSpec == rwInit /\ [][rwNext]_rwVars
-----------------------------------------------------------------------------
Readers == {t \in RWThreads : rwAt[t] = "reading"}
Writers == {t \in RWThreads : rwAt[t] = "writing"}

rwTypeOK ==
  /\ lock \in Int
  /\ rwAt \in [RWThreads -> {"out", "read_lock", "reading", "write_lock", "writing"}]
  /\ loaded \subseteq RWThreads
  /\ expected \in [RWThreads -> Int]

\* A writer is alone in the lock, and the assertions of the unlocks hold: the integer
\* is what an unlock must find, whoever locked and unlocked meanwhile.
RWExclusive ==
  /\ \A t \in Writers : Readers = {} /\ Writers = {t} /\ lock = 0 - 1
  /\ Readers # {} => lock = Cardinality(Readers)
=============================================================================
