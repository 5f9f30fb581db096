----------------------------- MODULE MCSimRoot -----------------------------
(***************************************************************************)
(* SimRoot on small instances: a CPU and a cache of latency 1 on threads 0 *)
(* and 1, and a slow object of latency 2 on the last thread.               *)
(***************************************************************************)
EXTENDS SimRoot

CONSTANTS cpu, l1, slow

MCObjects == {cpu, l1, slow}
MCTaskOf ==
  [o \in MCObjects |-> CASE o = cpu -> 0
                         [] o = l1 -> IF N > 1 THEN 1 ELSE 0
                         [] o = slow -> N - 1]
MCLatency == [o \in MCObjects |-> IF o = slow THEN 2 ELSE 1]
MCStoppers == {cpu, l1}
=============================================================================
