------------------------------ MODULE TickFifo ------------------------------
(***************************************************************************)
(* What SimpleTickQueue (tickqueue.h) promises its producer and its        *)
(* consumer: a queue whose entries become visible at a tick, at most owid  *)
(* at a time, and which gives the producer iwid credits that come back at  *)
(* a tick when qsize more entries have room behind the visible ones.       *)
(***************************************************************************)
EXTENDS Naturals, Sequences

CONSTANT Items

VARIABLES
  items,              \* what was pushed and not yet popped, oldest first
  shown,              \* how many of them the consumer may take in this tick
  accepted,           \* how many of them have given their credit back
  iwid, owid, qsize   \* the constructor's arguments

vars == <<items, shown, accepted, iwid, owid, qsize>>

Lesser(a, b) == IF a <= b THEN a ELSE b

Init == items = <<>> /\ shown = 0 /\ accepted = 0

Push(v) ==
  /\ Len(items) - accepted < iwid
  /\ items' = Append(items, v)
  /\ UNCHANGED <<shown, accepted, iwid, owid, qsize>>

Pop ==
  /\ shown > 0
  /\ items' = Tail(items)
  /\ shown' = shown - 1
  /\ accepted' = accepted - 1
  /\ UNCHANGED <<iwid, owid, qsize>>

Tick ==
  /\ shown' = Lesser(owid, Len(items))
  /\ accepted' = Lesser(shown' + qsize, Len(items))
  /\ UNCHANGED <<items, iwid, owid, qsize>>

Clear ==
  /\ items' = <<>> /\ shown' = 0 /\ accepted' = 0
  /\ UNCHANGED <<iwid, owid, qsize>>

Next == Pop \/ Tick \/ Clear \/ \E v \in Items : Push(v)

Spec == Init /\ [][Next]_vars
=============================================================================
