------------------------------ MODULE PrivL1L2 ------------------------------
(***************************************************************************)
(* The private L2 cache with its L1 data and instruction caches,           *)
(* PrivL1L2Moesi (cache/moesi/l1l2v2.cpp), in place of the L1 caches of    *)
(* MoesiL1 before the same last level cache.                               *)
(*                                                                         *)
(* The L1s have one outstanding request each.  p1_fetch queues a message   *)
(* or a request, p2_index works on it; no two of one line are in the       *)
(* queue.  A message is queued and worked on in one step here, a request   *)
(* in two: it may change, and other lines be worked on, in between.        *)
(***************************************************************************)
EXTENDS MoesiLLC

CONSTANTS
  PrivL2Ways, PrivL1Ways,  \* lines the set of the L2 and of each L1 holds
  PrivMSHRs,               \* mshr_num
  PrivPrograms  \* what the CPUs may be at: for each node the lines it loads, stores,
                \* fetches, and reserves with LR for an SC

\* 0 stands for no line: a victim, a request and a reservation may have none.
ASSUME PrivAssumption ==
  /\ {PrivL2Ways, PrivL1Ways, PrivMSHRs} \subseteq Nat \ {0} /\ 0 \notin Lines
  /\ PrivPrograms \subseteq [L1s -> [loads : SUBSET Lines, stores : SUBSET Lines,
                                    fetches : SUBSET Lines, reserves : SUBSET Lines]]

VARIABLES
  priv,       \* priv[i]: the caches of node i, see PrivNode
  privGolden, \* privGolden[l]: what the last store to l wrote     } history
  privLost,   \* the nodes whose reserved line another has stored to  }
  program     \* one of PrivPrograms
privVars == <<priv, privGolden, privLost, program>>

NoReq == [type |-> "none", line |-> 0, indexing |-> FALSE]
NoL2 == [st |-> "I", data |-> NoData, flag |-> {}]
NoL1D == [in |-> FALSE, write |-> FALSE, dirty |-> FALSE, data |-> NoData]
NoEntryL2 == [st |-> "-", data |-> NoData, flag |-> {}, finish |-> {},
              hasData |-> FALSE, hasNeed |-> FALSE, need |-> 0, acks |-> 0]

\* flag says which L1s have the line (L2FLG_IN_I, IN_D, IN_D_W); finish what waits for
\* a transaction (MSHR_FIFLG_L1IREQ, L1DREQS, L1DREQM); out and aborts are what the
\* step sends and whether an assertion fails in it.
PrivNode ==
  [l2 |-> [l \in Lines |-> NoL2], mshr |-> [l \in Lines |-> NoEntryL2],
   l1d |-> [l \in Lines |-> NoL1D], l1i |-> {}, dreq |-> NoReq, ireq |-> NoReq,
   queue |-> <<>>, reserved |-> 0, out |-> Nothing, aborts |-> FALSE]

privInit ==
  /\ priv = [i \in L1s |-> PrivNode]
  /\ privGolden = [l \in Lines |-> 0] /\ privLost = {}
  /\ program \in PrivPrograms

InL2(n) == {l \in Lines : n.l2[l].st # "I"}
InL1D(n) == {l \in Lines : n.l1d[l].in}
InMSHR(n) == {l \in Lines : n.mshr[l].st # "-"}
Posts(n, m) == [n EXCEPT !.out = Also(@, m)]
EndsNever(n, l) == n   \* (faulty: a reservation outlives its line)
Ends(n, l) == [n EXCEPT !.reserved = IF @ = l THEN 0 ELSE @]
-----------------------------------------------------------------------------
(* The L1s as p2_index sees them.  v is the line that is replaced, 0 when  *)
(* nothing is.                                                             *)

\* The lines an insertion of l into a set of the given ways may replace.
Replaceable(in, l, ways) == IF l \in in \/ Cardinality(in) < ways THEN {0} ELSE in

\* Its line is here: a request for writing goes on waiting if it came for reading.
Answered(req, l, writable) ==
  IF req.line # l THEN req
  ELSE IF req.type = "GETM" /\ ~writable THEN [req EXCEPT !.indexing = FALSE]
  ELSE NoReq

insert_to_l1d(n, l, data, writable, v) ==
  LET a == [n EXCEPT !.dreq = Answered(@, l, writable),
                     !.l1d[l] = [in |-> TRUE, write |-> writable, dirty |-> FALSE, data |-> data]]
      dirty == n.l1d[v].dirty
  IN
  IF v = 0 THEN a
  ELSE [Ends(a, v) EXCEPT
          !.l1d[v] = NoL1D,
          !.l2[v] = IF @.st = "I" THEN @
                    ELSE [st |-> IF dirty THEN "M" ELSE @.st,
                          data |-> IF dirty THEN n.l1d[v].data ELSE @.data,
                          flag |-> @.flag \ {"D", "W"}],
          \* a dirty line of an L2 that may not write, or one without an L2 line: the
          \* pointer to it is used when an MSHR has it
          !.aborts = @ \/ (dirty /\ n.l2[v].st \notin {"I", "E", "M"}) \/ v \in InMSHR(n)]

insert_to_l1i(n, l, v) ==
  LET a == [n EXCEPT !.ireq = Answered(@, l, TRUE), !.l1i = @ \cup {l}] IN
  IF v = 0 THEN a
  ELSE [a EXCEPT !.l1i = @ \ {v}, !.l2[v].flag = @ \ {"I"}, !.mshr[v].flag = @ \ {"I"}]

Flushed(n, l, data) == IF n.l1d[l].dirty THEN n.l1d[l].data ELSE data
SnoopForgets(n, l) ==   \* (faulty: the L1 may go on writing)
  Ends([n EXCEPT !.l1d[l].dirty = FALSE], l)
snoop_l1d_and_set_readonly(n, l) ==
  Ends([n EXCEPT !.l1d[l].dirty = FALSE, !.l1d[l].write = FALSE], l)
DataSnooped(n, l) == Ends([n EXCEPT !.l1d[l] = NoL1D], l)   \* (faulty: not the L1I's)
snoop_l1_and_invalid(n, l) == Ends([n EXCEPT !.l1d[l] = NoL1D, !.l1i = @ \ {l}], l)
-----------------------------------------------------------------------------
(* handle_new_line_nolock *)

\* A line of the L2 is evicted: with it its copies in the L1s.
PutType2 == [E |-> "PUTE", M |-> "PUTM", S |-> "PUTS", O |-> "PUTO"]
EvictState2 == [E |-> "ETOI", M |-> "MTOI", S |-> "STOI", O |-> "OTOI"]
CopiesStay(n, i, v, line) ==   \* (faulty: the L1s keep their copies)
  LET m == Msg(PutType2[line.st], REQ, i, LLC, v, i,
               IF line.st \in {"M", "O"} THEN line.data ELSE NoData)
  IN  Posts([n EXCEPT !.l2[v] = NoL2,
                      !.mshr[v] = [NoEntryL2 EXCEPT !.st = EvictState2[line.st],
                                                    !.data = line.data]], m)
EvictL2(n, i, v, line) ==
  LET inD == "D" \in line.flag
      dirty == inD /\ n.l1d[v].dirty
      st == IF dirty THEN "M" ELSE line.st
      data == IF inD THEN Flushed(n, v, line.data) ELSE line.data
      a == IF inD THEN Ends([n EXCEPT !.l1d[v] = NoL1D], v) ELSE n
      m == Msg(PutType2[st], REQ, i, LLC, v, i, IF st \in {"M", "O"} THEN data ELSE NoData)
  IN
  Posts([a EXCEPT
           !.l1i = IF "I" \in line.flag THEN @ \ {v} ELSE @,
           !.l2[v] = NoL2,
           !.mshr[v] = [NoEntryL2 EXCEPT !.st = EvictState2[st], !.data = data],
           !.aborts = @ \/ v \in InMSHR(n) \/ (inD /\ ~n.l1d[v].in)
                      \/ (dirty /\ line.st \notin {"M", "E"})], m)

\* Does the new line go to the L1 data cache, writable, and to the instruction cache?
ToD(e, st) == "D" \in e.flag \/ "S" \in e.finish \/ (st = "M" /\ "M" \in e.finish)
ForWriting(e, st) == st = "M" /\ ("M" \in e.finish \/ "D" \in e.flag)
ToI(e) == "I" \in e.flag \/ "I" \in e.finish

NewFlags(e, st) ==
  e.flag \cup (IF ToD(e, st) THEN {"D"} ELSE {})
         \cup (IF ForWriting(e, st) THEN {"W"} ELSE {}) \cup (IF ToI(e) THEN {"I"} ELSE {})

\* The line l node n waits for arrives with data, and vd, vi and v are replaced.
Placed(n, i, l, st, data, vd, vi, v) ==
  LET e == n.mshr[l]
      a == IF ToD(e, st) THEN insert_to_l1d(n, l, data, ForWriting(e, st), vd) ELSE n
      b == IF ToI(e) THEN insert_to_l1i(a, l, vi) ELSE a
      c == [b EXCEPT !.mshr[l] = NoEntryL2,
                     !.l2[l] = [st |-> st, data |-> data, flag |-> NewFlags(e, st)]]
  IN  IF v = 0 THEN c ELSE EvictL2(c, i, v, b.l2[v])

NewLine2(n, i, l, st, data) ==
  LET e == n.mshr[l] IN
  {Placed(n, i, l, st, data, vd, vi, v) :
     vd \in IF ToD(e, st) THEN Replaceable(InL1D(n), l, PrivL1Ways) ELSE {0},
     vi \in IF ToI(e) THEN Replaceable(n.l1i, l, PrivL1Ways) ELSE {0},
     v \in Replaceable(InL2(n), l, PrivL2Ways)}
-----------------------------------------------------------------------------
(* p2_index on a message: the nodes n may become.                          *)

GetAckFrom(i, l) == Msg("GET_ACK", ACK, i, LLC, l, i, NoData)
Aborted(n) == {[n EXCEPT !.aborts = TRUE]}

HasLineData2(e) == e.st \in {"STOM", "OTOM"} \/ e.hasData
Collecting2(e) == e.st \in {"ITOM", "STOM", "OTOM"}
Finished(n, i, l) == NewLine2(Posts(n, GetAckFrom(i, l)), i, l, "M", n.mshr[l].data)

OnInvalid(n, i, m) ==
  LET l == m.line
      a == Posts([n EXCEPT !.l2[l] = NoL2, !.l1i = @ \ {l}, !.l1d[l] = NoL1D],
                 Msg("INVALID_ACK", ACK, i, m.arg, l, 0, NoData))
      st == n.mshr[l].st
  IN  IF st \in {"ITOS", "ETOI", "ITOI"} THEN Aborted(n)
      ELSE {Ends([a EXCEPT !.mshr[l].st =
                     CASE st \in {"STOI", "MTOI", "OTOI"} -> "ITOI"
                       [] st \in {"OTOM", "STOM"} -> "ITOM"
                       [] OTHER -> st], l)}

OnInvalidAck(n, i, l) ==
  LET e == n.mshr[l] IN
  IF e.st = "-" THEN Aborted(n)
  ELSE IF ~Collecting2(e) THEN {n}
  ELSE IF e.hasNeed /\ e.need = e.acks + 1 /\ HasLineData2(e) THEN Finished(n, i, l)
  ELSE {[n EXCEPT !.mshr[l].acks = @ + 1]}

OnGetMAck(n, i, m) ==
  LET l == m.line  e == n.mshr[l] IN
  IF e.st = "-" THEN Aborted(n)
  ELSE IF ~Collecting2(e) THEN {n}
  ELSE IF m.arg = e.acks /\ HasLineData2(e) THEN Finished(n, i, l)
  ELSE {[n EXCEPT !.mshr[l].hasNeed = TRUE, !.mshr[l].need = m.arg]}

\* The line is in the L2, or in an MSHR that has its data: not both.
HasUpgrading(n, l) == n.mshr[l].st \in {"STOM", "OTOM"}   \* (faulty: not an evicted line)
HasInMSHR(n, l) == n.mshr[l].st \in {"STOM", "MTOI", "STOI", "ETOI", "OTOM", "OTOI"}
Forwardable(n, l) == (n.l2[l].st # "I") # HasInMSHR(n, l)
ForwardData(n, l) == Flushed(n, l, IF n.l2[l].st # "I" THEN n.l2[l].data ELSE n.mshr[l].data)

OnGetSForward(n, i, m) ==
  LET l == m.line  d == ForwardData(n, l)
      a == Posts(snoop_l1d_and_set_readonly(n, l), Msg("GETS_RESP", RESP, i, m.arg, l, 1, d))
  IN  IF ~Forwardable(n, l) THEN Aborted(n)
      ELSE IF n.l2[l].st # "I" THEN {[a EXCEPT !.l2[l].st = "O", !.l2[l].data = d]}
      ELSE {[a EXCEPT !.mshr[l].data = d,
                      !.mshr[l].st = IF @ \in {"MTOI", "ETOI", "STOI"} THEN "OTOI" ELSE @]}

OnGetMForward(n, i, m) ==
  LET l == m.line
      a == Posts(snoop_l1_and_invalid(n, l),
                 Msg("GETM_RESP", RESP, i, m.arg, l, 0, ForwardData(n, l)))
  IN  IF ~Forwardable(n, l) THEN Aborted(n)
      ELSE IF n.l2[l].st # "I" THEN {[a EXCEPT !.l2[l] = NoL2]}
      ELSE {[a EXCEPT !.mshr[l].st = IF @ \in {"STOM", "OTOM"} THEN "ITOM" ELSE "ITOI"]}

OnGetSResp(n, i, m) ==
  IF n.mshr[m.line].st = "-" THEN Aborted(n)
  ELSE IF m.arg > 0 THEN NewLine2(Posts(n, GetAckFrom(i, m.line)), i, m.line, "S", m.data)
  ELSE NewLine2(n, i, m.line, "E", m.data)

OnGetMResp(n, i, m) ==
  LET l == m.line  e == n.mshr[l] IN
  IF e.st # "ITOM" THEN Aborted(n)
  ELSE IF m.arg = 0 /\ (~e.hasNeed \/ e.need # e.acks)
       THEN {[n EXCEPT !.mshr[l].data = m.data, !.mshr[l].hasData = TRUE]}
       ELSE NewLine2(IF m.arg = 0 THEN Posts(n, GetAckFrom(i, l)) ELSE n, i, l, "M", m.data)

OnGetRespMem(n, i, m) ==
  LET a == Posts(n, GetAckFrom(i, m.line))  st == n.mshr[m.line].st IN
  CASE st = "ITOM" -> NewLine2(a, i, m.line, "M", m.data)
    [] st = "ITOS" -> NewLine2(a, i, m.line, "E", m.data)
    [] OTHER -> Aborted(n)

\* The eviction is over: what asked for the line meanwhile is sent off now.
AsksFor(n, i, l, st, finish, flag) ==
  Posts([n EXCEPT !.mshr[l] = [NoEntryL2 EXCEPT !.st = st, !.finish = finish, !.flag = flag]],
        Msg(IF st = "ITOM" THEN "GETM" ELSE "GETS", REQ, i, LLC, l, i, NoData))
OnPutAck(n, i, l) ==
  LET finish == n.mshr[l].finish  a == [n EXCEPT !.mshr[l] = NoEntryL2] IN
  IF n.mshr[l].st \notin {"ITOI", "MTOI", "STOI", "ETOI", "OTOI"} THEN Aborted(n)
  ELSE IF finish = {} THEN {a}
  ELSE {AsksFor(a, i, l, IF "M" \in finish THEN "ITOM" ELSE "ITOS", finish, {})}

OnMessage(n, i, m) ==
  CASE m.type = "INVALID" -> OnInvalid(n, i, m)
    [] m.type = "INVALID_ACK" -> OnInvalidAck(n, i, m.line)
    [] m.type = "GETM_ACK" -> OnGetMAck(n, i, m)
    [] m.type = "GETS_FORWARD" -> OnGetSForward(n, i, m)
    [] m.type = "GETM_FORWARD" -> OnGetMForward(n, i, m)
    [] m.type = "GETS_RESP" -> OnGetSResp(n, i, m)
    [] m.type = "GETM_RESP" -> OnGetMResp(n, i, m)
    [] m.type = "GET_RESP_MEM" -> OnGetRespMem(n, i, m)
    [] m.type = "PUT_ACK" -> OnPutAck(n, i, m.line)

\* A line whose request is in the queue keeps its messages waiting.
PrivReceive(i) ==
  \E r \in Arriving(i) :
    /\ MsgAt(i, r).line \notin ToSet(priv[i].queue)
    /\ \E n \in OnMessage(priv[i], i, MsgAt(i, r)) :
         /\ priv' = [priv EXCEPT ![i] = [n EXCEPT !.out = Nothing]]
         /\ net' = Sent(Taken(i, r), i, n.out)
    /\ UNCHANGED <<privGolden, privLost, program>>
-----------------------------------------------------------------------------
(* p1_fetch and p2_index on a request of an L1.                            *)

Fetchable(n, req) ==
  req.type # "none" /\ ~req.indexing /\ req.line \notin ToSet(n.queue)

PrivFetch(i) ==
  LET n == priv[i] IN
  /\ Len(n.queue) < 2
  /\ \/ /\ Fetchable(n, n.dreq)
        /\ priv' = [priv EXCEPT ![i].queue = Append(@, n.dreq.line), ![i].dreq.indexing = TRUE]
     \/ /\ ~Fetchable(n, n.dreq) /\ Fetchable(n, n.ireq)
        /\ priv' = [priv EXCEPT ![i].queue = Append(@, n.ireq.line), ![i].ireq.indexing = TRUE]
  /\ UNCHANGED <<privGolden, privLost, program, net>>

ForI(n, l) == n.ireq.type = "GETS" /\ n.ireq.line = l
ForD(n, l) == n.dreq.type # "none" /\ n.dreq.line = l
Retry(n, l) == [n EXCEPT !.ireq.indexing = @ /\ ~ForI(n, l), !.dreq.indexing = @ /\ ~ForD(n, l)]

\* The L1s that ask for l read it from data: what n may become.
ReadBy(n, l, data, vi, vd) ==
  LET a == IF ForI(n, l) THEN insert_to_l1i(n, l, vi) ELSE n
  IN  IF ForD(n, l) THEN insert_to_l1d(a, l, data, FALSE, vd) ELSE a
BothRead(n, l, data) ==
  {ReadBy(n, l, data, vi, vd) :
     vi \in IF ForI(n, l) THEN Replaceable(n.l1i, l, PrivL1Ways) ELSE {0},
     vd \in IF ForD(n, l) THEN Replaceable(InL1D(n), l, PrivL1Ways) ELSE {0}}

Readers(n, l, d) == (IF ForI(n, l) THEN {"I"} ELSE {}) \cup (IF ForD(n, l) THEN {d} ELSE {})

IndexRead(n, i, l) ==
  LET e == n.mshr[l] IN
  IF n.l2[l].st # "I"
  THEN BothRead([n EXCEPT !.l2[l].flag = @ \cup Readers(n, l, "D")], l, n.l2[l].data)
  ELSE IF e.st \in {"OTOM", "STOM"}
  THEN BothRead([n EXCEPT !.mshr[l].flag = @ \cup Readers(n, l, "D")], l, e.data)
  ELSE IF e.st # "-"
  THEN {[n EXCEPT !.mshr[l].finish = @ \cup Readers(n, l, "S")]}
  ELSE IF Cardinality(InMSHR(n)) < PrivMSHRs
  THEN {AsksFor(n, i, l, "ITOS", Readers(n, l, "S"), {})}
  ELSE {Retry(n, l)}

\* For writing, the data cache only.
Waits2(n, l) == [n EXCEPT !.dreq.indexing = FALSE]
Upgrading(n, i, l) ==
  LET line == n.l2[l]
      a == AsksFor(n, i, l, "ITOM", {"M"}, line.flag \cup {"D", "W"})
  IN  IF line.st = "I" THEN a
      ELSE [a EXCEPT !.l2[l] = NoL2, !.mshr[l].data = line.data,
                     !.mshr[l].st = IF line.st = "S" THEN "STOM" ELSE "OTOM"]

IndexWrite(n, i, l) ==
  LET e == n.mshr[l] IN
  IF n.l2[l].st \in {"E", "M"}
  THEN {insert_to_l1d([n EXCEPT !.l2[l].flag = @ \cup {"D", "W"}], l, n.l2[l].data, TRUE, v) :
          v \in Replaceable(InL1D(n), l, PrivL1Ways)}
  ELSE IF n.l2[l].st = "I" /\ e.st # "-"
  THEN IF Collecting2(e)
       THEN {[n EXCEPT !.mshr[l].flag = @ \cup {"D", "W"}, !.mshr[l].finish = @ \cup {"M"}]}
       ELSE {Waits2(n, l)}
  ELSE IF e.st = "-" /\ Cardinality(InMSHR(n)) < PrivMSHRs THEN {Upgrading(n, i, l)}
  ELSE {Waits2(n, l)}

PrivIndex(i) ==
  LET n == [priv[i] EXCEPT !.queue = Tail(@)]  l == Head(priv[i].queue)
      next == IF ~ForI(n, l) /\ ~ForD(n, l) THEN {n}
              ELSE IF ForD(n, l) /\ n.dreq.type = "GETM" THEN IndexWrite(n, i, l)
              ELSE IndexRead(n, i, l)
  IN
  /\ priv[i].queue # <<>>
  /\ \E a \in next :
       /\ priv' = [priv EXCEPT ![i] = [a EXCEPT !.out = Nothing]]
       /\ net' = Sent(net, i, a.out)
  /\ UNCHANGED <<privGolden, privLost, program>>
-----------------------------------------------------------------------------
(* The CPU.  An access that hits for reading leaves the caches as they are *)

l1i_load(i, l) ==
  /\ l \notin priv[i].l1i /\ priv[i].ireq.type = "none"
  /\ priv' = [priv EXCEPT ![i].ireq = [type |-> "GETS", line |-> l, indexing |-> FALSE]]
  /\ UNCHANGED <<privGolden, privLost, program, net>>

l1d_load(i, l) ==
  /\ ~priv[i].l1d[l].in /\ priv[i].dreq.type = "none"
  /\ priv' = [priv EXCEPT ![i].dreq = [type |-> "GETS", line |-> l, indexing |-> FALSE]]
  /\ UNCHANGED <<privGolden, privLost, program, net>>

l1d_load_reserved(i, l) ==
  /\ priv[i].l1d[l].in
  /\ priv' = [priv EXCEPT ![i].reserved = l] /\ privLost' = privLost \ {i}
  /\ UNCHANGED <<privGolden, program, net>>

l1d_store(i, l) ==
  LET d == (privGolden[l] + 1) % (MaxData + 1) IN
  \/ /\ priv[i].l1d[l].write
     /\ priv' = [priv EXCEPT ![i].l1d[l].data = d, ![i].l1d[l].dirty = TRUE, ![i].reserved = 0]
     /\ privGolden' = [privGolden EXCEPT ![l] = d]
     /\ privLost' = (privLost \cup {j \in L1s : priv[j].reserved = l}) \ {i}
     /\ UNCHANGED <<program, net>>
  \/ /\ ~priv[i].l1d[l].write
     /\ priv[i].dreq.type = "none" \/ (priv[i].dreq.type = "GETS" /\ priv[i].dreq.line = l)
     /\ priv' = [priv EXCEPT ![i].dreq = [type |-> "GETM", line |-> l, indexing |-> FALSE]]
     /\ UNCHANGED <<privGolden, privLost, program, net>>

l1d_store_conditional(i, l) == priv[i].reserved = l /\ l1d_store(i, l)

PrivCPU(i) ==
  \/ \E l \in program[i].loads : l1d_load(i, l)
  \/ \E l \in program[i].stores : l1d_store(i, l)
  \/ \E l \in program[i].fetches : l1i_load(i, l)
  \/ \E l \in program[i].reserves : l1d_load_reserved(i, l) \/ l1d_store_conditional(i, l)

privNext ==
  \/ (\E i \in L1s : (PrivCPU(i) \/ PrivFetch(i) \/ PrivIndex(i) \/ PrivReceive(i)))
     /\ UNCHANGED llcVars
  \/ ((\E r \in Arriving(LLC) : P1Receive(r)) \/ P1Dispatch \/ P2Index
      \/ (\E k \in 1 .. Len(process_buf) : P3Process(k))
      \/ (\E r \in Arriving(MEM) : MemHandle(r)))
     /\ UNCHANGED privVars

privSpec == NetInit /\ LLCInit /\ privInit /\ [][privNext]_<<net, privVars, llcVars>>
-----------------------------------------------------------------------------
\* What the L1s of node i let its CPU do with a line.
PrivPermission(i, l) ==
  IF priv[i].l1d[l].write THEN "write"
  ELSE IF priv[i].l1d[l].in \/ l \in priv[i].l1i THEN "read" ELSE "none"

PrivMemory == INSTANCE CoherentMemory WITH
  Caches <- L1s, Values <- 0 .. MaxData, Initial <- 0,
  perm <- [i \in L1s |-> [l \in Lines |-> PrivPermission(i, l)]], val <- privGolden

\* To the CPUs the nodes, each with three caches, are the memory that plain L1s are: a line
\* has one writing node or many that read it, and changes only by the store of a writer.
PrivCoherent == PrivMemory!Spec

\* Whatever node stored last, every copy a load can hit has its data; a line a data
\* cache may write is in no other node.
PrivReadsLatest ==
  \A i \in L1s : \A l \in InL1D(priv[i]) :
    /\ priv[i].l1d[l].data = privGolden[l]
    /\ priv[i].l1d[l].write => \A j \in L1s \ {i} : l \notin InL1D(priv[j]) \cup InL2(priv[j])

\* A line of an L1 is in the L2, or in an MSHR that has its data, and known there:
\* else the directory could forget the node while an L1 goes on using the line.
Included(n, l, f) ==
  \/ n.l2[l].st # "I" /\ f \in n.l2[l].flag
  \/ n.mshr[l].st \in {"STOM", "OTOM"} /\ f \in n.mshr[l].flag
PrivInclusive ==
  \A i \in L1s : (\A l \in InL1D(priv[i]) : Included(priv[i], l, "D"))
              /\ (\A l \in priv[i].l1i : Included(priv[i], l, "I"))

\* No assertion of the node fails.
PrivNeverAborts == \A i \in L1s : ~priv[i].aborts

\* A store conditional that can succeed has seen every store to its line.
PrivReservation ==
  \A i \in L1s : priv[i].reserved # 0 /\ priv[i].l1d[priv[i].reserved].write => i \notin privLost
=============================================================================
