------------------------------ MODULE MoesiMsg ------------------------------
(***************************************************************************)
(* The messages of the MOESI directory protocol (src/src/cache/moesi/      *)
(* protocal.h) and the bus they travel on.                                 *)
(*                                                                         *)
(* A node sends on one of three channels.  Between two nodes a channel is  *)
(* FIFO, and a message overtakes an earlier one only on a channel of lower *)
(* number: the bus serves ACK before RESP before REQ at every hop, on the  *)
(* same route.  A message that waits in the sender's send_buf is in the    *)
(* queue too: that buffer is drained in order, one message per channel.    *)
(***************************************************************************)
EXTENDS Integers, Sequences, SequencesExt, FiniteSets

CONSTANTS
  NumL1,    \* how many L1 caches (request nodes)
  Lines,    \* the cache lines
  MaxData   \* the contents of a line: successive stores count modulo MaxData + 1

ASSUME NumL1Assumption == NumL1 \in Nat \ {0}
ASSUME DataAssumption == MaxData \in Nat \ {0}

\* Bus ports: the L1 caches, the last level cache and the memory node.
L1s == 0 .. NumL1 - 1
LLC == NumL1
MEM == NumL1 + 1
Nodes == 0 .. MEM

ACK == 0
RESP == 1
REQ == 2

\* Messages that carry a line have its data; the data of the others is NoData.
NoData == 0

Msg(type, cha, src, dst, line, arg, data) ==
  [type |-> type, cha |-> cha, src |-> src, dst |-> dst,
   line |-> line, arg |-> arg, data |-> data]

VARIABLE net    \* net[n][d]: the messages from n to d, in sending order

NetInit == net = [n \in Nodes |-> [d \in Nodes |-> <<>>]]

\* What a node sends in a step: out[d] goes to node d, in order.
Nothing == [d \in Nodes |-> <<>>]
Also(out, m) == [out EXCEPT ![m.dst] = Append(@, m)]
Just(m) == Also(Nothing, m)

\* The queues after n sends out.
Sent(queues, n, out) == [queues EXCEPT ![n] = [d \in Nodes |-> queues[n][d] \o out[d]]]

\* The k-th message from n to d can arrive: nothing before it must go first.
Deliverable(n, d, k) == \A j \in 1 .. k - 1 : net[n][d][j].cha > net[n][d][k].cha

\* The messages that d may receive next.
Arriving(d) ==
  UNION {{[from |-> n, pos |-> k] : k \in {i \in 1 .. Len(net[n][d]) : Deliverable(n, d, i)}}
         : n \in Nodes}

MsgAt(d, r) == net[r.from][d][r.pos]

\* The queues after d takes the message at r.
Taken(d, r) == [net EXCEPT ![r.from][d] = RemoveAt(@, r.pos)]

InFlight == UNION {UNION {{net[n][d][k] : k \in 1 .. Len(net[n][d])} : d \in Nodes} : n \in Nodes}
=============================================================================
