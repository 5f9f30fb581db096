-------------------------------- MODULE Bus --------------------------------
(***************************************************************************)
(* The multi channel bus (bus/symmulcha) and the route tables it is given  *)
(* (bus/routetable).  A message sent at a port is cut into packets that    *)
(* every tick may go on by one edge; a node takes one packet a tick.       *)
(***************************************************************************)
EXTENDS Integers, Sequences, FiniteSets, SequencesExt, FiniteSetsExt

CONSTANTS
  BusTopologies, \* the layouts a bus is built on: [kind, x, y, double]
  BusPort2Node,  \* BusPort2Node[p]: the place of port p in the list of nodes
  BusWidths,     \* the packet width of each channel, and
  BusWidth,      \* what an edge moves in a tick
  BusPacks,      \* the numbers of packets a message is cut into
  BusMessages,   \* how many messages are sent
  BusThreads     \* the ports are used by more than one host thread

BusPorts == DOMAIN BusPort2Node
Channels == DOMAIN BusWidths
NoPack == [xmtid |-> 0 - 1]
BusNone == 0 - 1

VARIABLES
  wiring,       \* what the constructor built: [route, rxs, local]
  send_buf,     \* send_buf[p][c], recv_buf[p][c]: the packets of port p on channel c
  recv_buf,
  node,         \* node[n]: [rx_ptr, sd_ptr, pipeline, order_buf]
  edge,         \* edge[<<m, n>>]: [input, output], a packet or NoPack per channel
  xmtid_alloc,  \* the next transmission number, and
  xmtid_taken,  \* those of this tick
  sent,         \* how many messages were sent
  owed          \* owed[<<p, q, c>>]: what p sent to q on c that q has not received
busVars == <<wiring, send_buf, recv_buf, node, edge, xmtid_alloc, xmtid_taken, sent, owed>>
-----------------------------------------------------------------------------
(* The route tables: the neighbour of src on the way to dst; the nodes are *)
(* numbered as in the vector they are given in.                            *)

NodesOf(t) == 0 .. t.x * t.y - 1

AroundWrong(a, b, cnt, both) ==   \* (faulty: the half is measured backward)
  IF (a - b + cnt) % cnt <= cnt \div 2 \/ ~both THEN (a + 1) % cnt ELSE (a + cnt - 1) % cnt
\* From place a to place b on a circle of cnt, forward for at most the half.
Around(a, b, cnt, both) ==
  IF (b - a + cnt) % cnt <= cnt \div 2 \/ ~both THEN (a + 1) % cnt ELSE (a + cnt - 1) % cnt

genroute_single_ring(t) == [src, dst \in NodesOf(t) |-> Around(src, dst, t.x, FALSE)]
genroute_double_ring(t) == [src, dst \in NodesOf(t) |-> Around(src, dst, t.x, TRUE)]
genroute_mesh2d_xy(t) ==
  [src, dst \in NodesOf(t) |->
     LET sx == src % t.x  sy == src \div t.x
         dx == dst % t.x  dy == dst \div t.x
     IN  IF sx # dx THEN Around(sx, dx, t.x, t.double) + sy * t.x
         ELSE sx + Around(sy, dy, t.y, t.double) * t.x]
Routes(t) ==
  CASE t.kind = "single_ring" -> genroute_single_ring(t)
    [] t.kind = "double_ring" -> genroute_double_ring(t)
    [] t.kind = "mesh2d_xy" -> genroute_mesh2d_xy(t)

\* Where the route from a to b has come after at most n jumps: the constructor wants b.
Reached(r, a, b, n) ==
  LET at[k \in 0 .. n] == IF k = 0 THEN a
                          ELSE IF at[k - 1] = b THEN b ELSE r[at[k - 1], b]
  IN  at[n]
RouteValid(r, nodes) == \A a, b \in nodes : Reached(r, a, b, Cardinality(nodes)) = b

\* Every edge of a route runs both ways; a node looks at the edges into it in order.
EdgesOf(r, nodes) ==
  LET hops == {<<a, r[a, b]>> : <<a, b>> \in {e \in nodes \X nodes : e[1] # e[2]}}
  IN  hops \cup {<<e[2], e[1]>> : e \in hops}
EdgesInto(n, edges) == SetToSortSeq({e \in edges : e[2] = n}, LAMBDA a, b : a[1] < b[1])
Wired(t) ==
  LET r == Routes(t) IN
  [route |-> r,
   rxs |-> [n \in NodesOf(t) |-> EdgesInto(n, EdgesOf(r, NodesOf(t)))],
   local |-> [n \in NodesOf(t) |-> SetToSortSeq({p \in BusPorts : BusPort2Node[p] = n}, <)]]
Nodes == DOMAIN wiring.rxs
LocalPorts(n) == wiring.local[n]
Rxs(n) == wiring.rxs[n]

busInit ==
  /\ \E t \in BusTopologies : wiring = Wired(t)
  /\ send_buf = [p \in BusPorts |-> [c \in Channels |-> <<>>]]
  /\ recv_buf = send_buf
  /\ node = [n \in Nodes |-> [rx_ptr |-> 0, sd_ptr |-> 0, pipeline |-> <<>>, order_buf |-> {}]]
  /\ edge = [e \in UNION {Range(Rxs(n)) : n \in Nodes} |-> [input |-> [c \in Channels |-> NoPack],
                                         output |-> [c \in Channels |-> NoPack]]]
  /\ xmtid_alloc = 0 /\ xmtid_taken = {} /\ sent = 0
  /\ owed = [k \in BusPorts \X BusPorts \X Channels |-> <<>>]
-----------------------------------------------------------------------------
\* xmtid_alloc++ of two host threads may give out one number twice.
xmtids == {xmtid_alloc} \cup (IF BusThreads THEN xmtid_taken ELSE {})

Cut(p, q, c, id, cnt) ==
  [k \in 1 .. cnt |-> [src |-> p, dst |-> q, tgt |-> BusPort2Node[q], cha |-> c,
                       xmtid |-> id, idx |-> k - 1, cnt |-> cnt, msg |-> sent]]

send(p, c) ==
  /\ sent < BusMessages /\ send_buf[p][c] = <<>>
  /\ \E q \in BusPorts \ {p}, cnt \in BusPacks, id \in xmtids :
       /\ send_buf' = [send_buf EXCEPT ![p][c] = Cut(p, q, c, id, cnt)]
       /\ xmtid_alloc' = id + 1 /\ xmtid_taken' = xmtid_taken \cup {id}
       /\ owed' = [owed EXCEPT ![<<p, q, c>>] = Append(@, sent)]
  /\ sent' = sent + 1
  /\ UNCHANGED <<wiring, recv_buf, node, edge>>

can_recv(p, c) ==
  recv_buf[p][c] # <<>> /\ Len(recv_buf[p][c]) >= Head(recv_buf[p][c]).cnt
recv(p, c) ==
  LET h == Head(recv_buf[p][c]) IN
  /\ can_recv(p, c)
  /\ recv_buf' = [recv_buf EXCEPT ![p][c] = SubSeq(@, h.cnt + 1, Len(@))]
  /\ owed' = [owed EXCEPT ![<<h.src, p, c>>] = SelectSeq(@, LAMBDA m : m # h.msg)]
  /\ UNCHANGED <<wiring, send_buf, node, edge, xmtid_alloc, xmtid_taken, sent>>
-----------------------------------------------------------------------------
(* process_node: the packet node n takes, if any, [pack, by, rx, sd, cha]: *)
(* from an edge, or, when all are empty, from a port.  The pointers stay   *)
(* where a packet was found.                                               *)

\* The first place from ptr on, around n places, that Has something; or BusNone.
FirstFrom(ptr, n, Has(_)) ==
  LET found == {j \in 0 .. n - 1 : Has((ptr + j) % n)}
  IN  IF found = {} THEN BusNone ELSE (ptr + Min(found)) % n

RxEdge(n, k) == Rxs(n)[k + 1]
Arrived(n, k) == {c \in Channels : edge[RxEdge(n, k)].output[c] # NoPack}
Unsent(n, k) == {c \in Channels : send_buf[LocalPorts(n)[k + 1]][c] # <<>>}

Takes(n) ==
  LET rx == FirstFrom(node[n].rx_ptr, Len(Rxs(n)), LAMBDA k : Arrived(n, k) # {})
      sd == FirstFrom(node[n].sd_ptr, Len(LocalPorts(n)), LAMBDA k : Unsent(n, k) # {})
  IN
  IF rx # BusNone
  THEN LET c == Min(Arrived(n, rx)) IN
       [pack |-> edge[RxEdge(n, rx)].output[c], by |-> "rx", at |-> rx, cha |-> c]
  ELSE IF sd # BusNone
  THEN LET c == Min(Unsent(n, sd)) IN
       [pack |-> Head(send_buf[LocalPorts(n)[sd + 1]][c]), by |-> "sd", at |-> sd, cha |-> c]
  ELSE [pack |-> NoPack, by |-> "none", at |-> 0, cha |-> 0]

\* The packets of one transmission wait in order_buf until all are there.
SameSource(n, pack) ==   \* (faulty: the packets of one port are gathered)
  {o \in node[n].order_buf : o.src = pack.src} \cup {pack}
Same(n, pack) == {o \in node[n].order_buf : o.xmtid = pack.xmtid} \cup {pack}
Completes(n, pack) == Cardinality(Same(n, pack)) = pack.cnt
Sorted(packs) == SetToSortSeq(packs, LAMBDA a, b : a.idx < b.idx)

\* A packet that is not for this node goes into the pipeline; what it must wait
\* there (route_latency) the loop of the same tick counts down.  Of the packets for
\* one edge and channel the first one leaves, when the edge is free.
Pipeline(n, t) ==
  node[n].pipeline \o
    (IF t.pack # NoPack /\ t.pack.tgt # n THEN <<t.pack>> ELSE <<>>)
Way(n, pack) == <<n, wiring.route[n, pack.tgt]>>
Leaves(n, pipe) ==
  {k \in DOMAIN pipe :
     /\ edge[Way(n, pipe[k])].input[pipe[k].cha] = NoPack
     /\ \A j \in 1 .. k - 1 : pipe[j].cha # pipe[k].cha \/ Way(n, pipe[j]) # Way(n, pipe[k])}

process_node(n, t) ==
  LET here == t.pack # NoPack /\ t.pack.tgt = n
      pipe == Pipeline(n, t)
      gone == Leaves(n, pipe)
  IN
  [rx_ptr |-> IF t.by = "rx" THEN t.at ELSE node[n].rx_ptr,
   sd_ptr |-> IF t.by = "sd" THEN t.at ELSE node[n].sd_ptr,
   pipeline |-> FoldLeftDomain(LAMBDA acc, k : IF k \in gone THEN acc ELSE Append(acc, pipe[k]),
                               <<>>, pipe),
   order_buf |-> IF ~here \/ t.pack.cnt = 1 THEN node[n].order_buf
                 ELSE IF Completes(n, t.pack) THEN node[n].order_buf \ Same(n, t.pack)
                 ELSE node[n].order_buf \cup {t.pack}]

\* What reaches port p on channel c when its node takes t.
Received(p, c, t) ==
  IF t.pack = NoPack \/ t.pack.tgt # BusPort2Node[p] \/ t.pack.dst # p \/ t.pack.cha # c THEN <<>>
  ELSE IF t.pack.cnt = 1 THEN <<t.pack>>
  ELSE IF Completes(BusPort2Node[p], t.pack) THEN Sorted(Same(BusPort2Node[p], t.pack))
  ELSE <<>>

\* process_edge: channels move on, the first ones first, while the width lasts.
Moved(e) ==
  LET can == {c \in Channels : e.input[c] # NoPack /\ e.output[c] = NoPack}
      before(c) == MapThenSumSet(LAMBDA d : BusWidths[d], {d \in can : d < c})
  IN  {c \in can : before(c) < BusWidth}
process_edge(e) ==
  [input |-> [c \in Channels |-> IF c \in Moved(e) THEN NoPack ELSE e.input[c]],
   output |-> [c \in Channels |-> IF c \in Moved(e) THEN e.input[c] ELSE e.output[c]]]

\* The edge between both: emptied at its end, filled at its start.
Between(e, t) ==
  LET m == e[1]
      pipe == Pipeline(m, t[m])
      put(c) == {k \in Leaves(m, pipe) : Way(m, pipe[k]) = e /\ pipe[k].cha = c}
      taken(c) == t[e[2]].by = "rx" /\ RxEdge(e[2], t[e[2]].at) = e /\ t[e[2]].cha = c
  IN
  [input |-> [c \in Channels |-> IF put(c) = {} THEN edge[e].input[c]
                                 ELSE pipe[CHOOSE k \in put(c) : TRUE]],
   output |-> [c \in Channels |-> IF taken(c) THEN NoPack ELSE edge[e].output[c]]]

bus_apply_next_tick ==
  \E t \in {[n \in Nodes |-> Takes(n)]} :
  /\ node' = [n \in Nodes |-> process_node(n, t[n])]
  /\ edge' = [e \in DOMAIN edge |-> process_edge(Between(e, t))]
  /\ send_buf' = [p \in BusPorts |-> [c \in Channels |->
       LET n == BusPort2Node[p] IN
       IF t[n].by = "sd" /\ LocalPorts(n)[t[n].at + 1] = p /\ t[n].cha = c
       THEN Tail(send_buf[p][c]) ELSE send_buf[p][c]]]
  /\ recv_buf' = [p \in BusPorts |-> [c \in Channels |->
                    recv_buf[p][c] \o Received(p, c, t[BusPort2Node[p]])]]
  /\ xmtid_taken' = {}
  /\ UNCHANGED <<wiring, xmtid_alloc, sent, owed>>

busNext ==
  \/ bus_apply_next_tick
  \/ \E p \in BusPorts, c \in Channels : send(p, c) \/ recv(p, c)
busFairness == WF_busVars(bus_apply_next_tick)
busSpec == busInit /\ [][busNext]_busVars /\ busFairness
-----------------------------------------------------------------------------
\* recv, "Un-ordered package sequence": what a port can receive is one whole message.
MessagesWhole ==
  \A p \in BusPorts, c \in Channels : can_recv(p, c) =>
    LET h == Head(recv_buf[p][c]) IN
    \A k \in 1 .. h.cnt : recv_buf[p][c][k] = [h EXCEPT !.idx = k - 1]

\* The messages of a port to another on a channel are received in the order sent
\* (test_sym_mul_cha_bus compares them with a list per channel), and no route is a dead end.
MessagesInOrder ==
  /\ RouteValid(wiring.route, Nodes) /\ MessagesWhole
  /\ \A p \in BusPorts, c \in Channels : can_recv(p, c) =>
       LET h == Head(recv_buf[p][c]) IN Head(owed[<<h.src, p, c>>]) = h.msg

\* Nothing stays in the bus forever: in the end all that was sent can be received.
MessagesArrive ==
  []<>(\A k \in DOMAIN owed :
         Len(owed[k]) = Cardinality({j \in DOMAIN recv_buf[k[2]][k[3]] :
                          /\ recv_buf[k[2]][k[3]][j].src = k[1]
                          /\ recv_buf[k[2]][k[3]][j].idx = 0}))
=============================================================================
