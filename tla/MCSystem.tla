------------------------------ MODULE MCSystem ------------------------------
(***************************************************************************)
(* What SimSystemMultiCore keeps, each table on its own small instance:    *)
(* the threads on the CPUs, the memory of the processes, their             *)
(* descriptors, and the memory shared with the proxy library.  They have   *)
(* no state in common here, so a behaviour is one of the tables at work.   *)
(***************************************************************************)
EXTENDS Scheduler, ProcessMemory, ProcessFiles, SystemMemory

VARIABLE table

\* Every thread makes host calls of kinds of its own.
MCKinds == <<{"sleep"}, {"select"}, {"blkread", "socksend", "sockrecv", "poll"}>>
MCReqs == <<0, 2, 0>>

MCInit ==
  /\ Init /\ memInit /\ fileInit /\ smemInit
  /\ table \in {"threads", "memory", "files", "system"}
MCNext ==
  \/ table = "threads" /\ Next /\ UNCHANGED <<memVars, fileVars, smemVars, table>>
  \/ table = "memory" /\ memNext /\ UNCHANGED <<schVars, fileVars, smemVars, table>>
  \/ table = "files" /\ fileNext /\ UNCHANGED <<schVars, memVars, smemVars, table>>
  \/ table = "system" /\ smemNext /\ UNCHANGED <<schVars, memVars, fileVars, table>>
MCSpec == MCInit /\ [][MCNext]_<<schVars, memVars, fileVars, smemVars, table>>
=============================================================================
