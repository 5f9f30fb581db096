------------------------------ MODULE TickQueue -----------------------------
(***************************************************************************)
(* SimpleTickQueue (src/src/tickqueue.h), through which the simulated      *)
(* components hand work to each other: one ring buffer that holds three    *)
(* regions in a row, the entries the consumer may take (pop), those that   *)
(* wait (q) and those pushed in this tick (push).                          *)
(***************************************************************************)
EXTENDS Integers, Sequences

CONSTANTS
  Items,     \* what is queued
  Shapes,    \* the arguments <<input_wid, output_wid, queue_size>> of the constructor
  Unit       \* the multiple to which the buffer's length is rounded up, 16 in the code

ASSUME ShapesAssumption == Shapes \subseteq (Nat \ {0}) \X (Nat \ {0}) \X Nat
ASSUME UnitAssumption == Unit \in Nat \ {0}

VARIABLES
  iwid, owid, qsize,
  buf,
  bottom, q_bottom, push_bottom, ptr,   \* where pop, q and push begin, where push ends
  pop_sz, q_sz, push_sz

shape == <<iwid, owid, qsize>>
pointers == <<bottom, q_bottom, push_bottom, ptr>>
sizes == <<pop_sz, q_sz, push_sz>>
queueVars == <<shape, buf, pointers, sizes>>

Lesser(a, b) == IF a <= b THEN a ELSE b

ALIGN(n) == Unit * ((n + Unit - 1) \div Unit)
len == ALIGN((iwid + owid + qsize) * 2)

Size == pop_sz + q_sz + push_sz

queueInit ==
  /\ \E s \in Shapes : iwid = s[1] /\ owid = s[2] /\ qsize = s[3]
  /\ \E v \in Items : buf = [i \in 0 .. len - 1 |-> v]
  /\ bottom = 0 /\ q_bottom = 0 /\ push_bottom = 0 /\ ptr = 0
  /\ pop_sz = 0 /\ q_sz = 0 /\ push_sz = 0

push(v) ==
  /\ push_sz < iwid
  /\ buf' = [buf EXCEPT ![ptr] = v]
  /\ ptr' = (ptr + 1) % len
  /\ push_sz' = push_sz + 1
  /\ UNCHANGED <<shape, bottom, q_bottom, push_bottom, pop_sz, q_sz>>

pop ==
  /\ pop_sz > 0
  /\ bottom' = (bottom + 1) % len
  /\ pop_sz' = pop_sz - 1
  /\ UNCHANGED <<shape, buf, q_bottom, push_bottom, ptr, q_sz, push_sz>>

\* What a tick moves. The code's branch for qsize = 0 is this one with nothing in q.
q2pop == Lesser(owid - pop_sz, q_sz)
push2pop == Lesser(owid - pop_sz - q2pop, push_sz)

\* Faulty: the room in q is taken from before the tick.
push2qStale == Lesser(qsize - q_sz, push_sz - push2pop)

push2q == Lesser(qsize - (q_sz - q2pop), push_sz - push2pop)

PushMoved == (((push_bottom + push2pop) % len) + push2q) % len

apply_next_tick ==
  /\ q_bottom' = (((q_bottom + q2pop) % len) + push2pop) % len
  /\ push_bottom' = PushMoved
  /\ pop_sz' = pop_sz + q2pop + push2pop
  /\ q_sz' = q_sz - q2pop + push2q
  /\ push_sz' = push_sz - push2pop - push2q
  /\ UNCHANGED <<shape, buf, bottom, ptr>>

clear ==
  /\ bottom' = 0 /\ q_bottom' = 0 /\ push_bottom' = 0 /\ ptr' = 0
  /\ pop_sz' = 0 /\ q_sz' = 0 /\ push_sz' = 0
  /\ UNCHANGED <<shape, buf>>

queueNext == pop \/ apply_next_tick \/ clear \/ \E v \in Items : push(v)

queueSpec == queueInit /\ [][queueNext]_queueVars

\* What clear(out) and dbg_get_all hand out, and empty() asks about: the walk from
\* bottom to ptr.
WalkLength == (ptr + len - bottom) % len

(* Properties. *)
queueTypeOK ==
  /\ shape \in Shapes
  /\ buf \in [0 .. len - 1 -> Items]
  /\ {bottom, q_bottom, push_bottom, ptr} \subseteq 0 .. len - 1
  /\ pop_sz \in 0 .. owid /\ q_sz \in 0 .. qsize /\ push_sz \in 0 .. iwid

\* The four pointers, which every operation moves on its own, cut the ring into
\* regions of the sizes that are counted apart from them.
RegionsAgree ==
  /\ q_bottom = (bottom + pop_sz) % len
  /\ push_bottom = (q_bottom + q_sz) % len
  /\ ptr = (push_bottom + push_sz) % len

\* The walk from bottom to ptr sees every entry, however full the queue is: empty()
\* is right and clear(out) loses nothing, though both look at the pointers only.
WalkExact == WalkLength = Size

Contents == [k \in 1 .. Size |-> buf[(bottom + k - 1) % len]]

Fifo == INSTANCE TickFifo WITH
  items <- Contents, shown <- pop_sz, accepted <- pop_sz + q_sz

\* The ring buffer is the queue its users expect: first in first out, nothing lost,
\* overwritten or doubled, one tick of delay, credits as promised.
ImplementsFifo == Fifo!Spec
=============================================================================
