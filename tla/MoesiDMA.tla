------------------------------ MODULE MoesiDMA ------------------------------
(***************************************************************************)
(* The DMA device, DMAL1MoesiDirNoi (src/src/cache/moesi/dmaasl1.cpp),     *)
(* among the L1 caches and the last level cache.                           *)
(*                                                                         *)
(* A request to copy between host and simulated memory is cut into units   *)
(* of at most a line.  For each the device fetches the line as an L1 would,*)
(* to read or to write, copies when it has it, and writes it back at once. *)
(* Its callback tells the system when the last unit is done.  Between      *)
(* lines of simulated memory a unit is fetched, put back, and fetched      *)
(* again at its destination.                                               *)
(***************************************************************************)
EXTENDS MoesiSystem

CONSTANTS
  DmaPort,       \* the port of the device on the bus, in place of an L1
  DmaWorkloads,  \* [lines, reqs]: the lines each CPU uses meanwhile, and the requests that
                 \* are pushed, [kind, src, dst, size]
  DmaLineWords,  \* words of a line; addresses count words
  DmaMSHRs       \* the device's MSHRs

ASSUME DmaAssumption ==
  /\ DmaPort \in L1s
  /\ DmaLineWords \in Nat \ {0} /\ DmaMSHRs \in Nat \ {0}

VARIABLES
  dmaReqs,        \* the requests pushed; a request is known by its index
  cpuLines,       \* the lines the CPUs use
  arrival_reqs,   \* pushed, to be taken over by apply_next_tick
  dma_req_queue,
  current,        \* the request whose units are being started, or 0
  line_todo,      \* line_todo[q]: its units not yet started
  line_wait,      \* line_wait[q]: its units started and not finished
  dmaMshr,        \* dmaMshr[l]: the MSHR of line l, state "-" when there is none
  moved,          \* the words copied for each request, by source and destination  } history
  calls,          \* how often its callback was called                             }
  stale           \* a line was copied or changed that was not the newest          }

dmaOwn == <<arrival_reqs, dma_req_queue, current, line_todo, line_wait, dmaMshr, moved, calls, stale>>
dmaGiven == <<dmaReqs, cpuLines>>
dmaVars == <<dmaGiven, dmaOwn>>

NoUnit == [src |-> 0, dst |-> 0, off |-> 0, len |-> 0]
NotKept == -1
NoDmaMSHR == [st |-> "-", data |-> NoData, kept |-> NotKept, hasData |-> FALSE, hasNeed |-> FALSE,
              need |-> 0, acks |-> 0, unit |-> NoUnit, req |-> 0]

LineOf(a) == a \div DmaLineWords

\* The units of a request: up to the end of the first line if it begins inside it, then
\* line by line.  Between two places in simulated memory both begin at the same offset.
Rest(q, cur) == Min({DmaLineWords, q.size - cur})
Units(q) ==
  LET off == (IF q.kind = "in" THEN q.dst ELSE q.src) % DmaLineWords
      first == IF off = 0 THEN 0 ELSE DmaLineWords - off
      lines == IF q.size > first THEN (q.size - first + DmaLineWords - 1) \div DmaLineWords ELSE 0
      whole(k) == LET cur == first + (k - 1) * DmaLineWords
                  IN [src |-> q.src + cur, dst |-> q.dst + cur, off |-> 0, len |-> Rest(q, cur)]
  IN (IF off = 0 THEN <<>>
      ELSE <<[src |-> q.src - off, dst |-> q.dst - off, off |-> off, len |-> Min({first, q.size})]>>)
     \o [k \in 1 .. lines |-> whole(k)]

dmaInit ==
  /\ \E w \in DmaWorkloads : dmaReqs = w.reqs /\ cpuLines = w.lines
  /\ arrival_reqs = [q \in DOMAIN dmaReqs |-> q] /\ dma_req_queue = <<>> /\ current = 0
  /\ line_todo = [q \in DOMAIN dmaReqs |-> <<>>]
  /\ line_wait = [q \in DOMAIN dmaReqs |-> {}]
  /\ dmaMshr = [l \in Lines |-> NoDmaMSHR]
  /\ moved = [q \in DOMAIN dmaReqs |-> {}]
  /\ calls = [q \in DOMAIN dmaReqs |-> 0]
  /\ stale = FALSE

Kind(q) == dmaReqs[q].kind
Requested(q) == {<<dmaReqs[q].src + k, dmaReqs[q].dst + k>> : k \in 0 .. dmaReqs[q].size - 1}
WordsOf(u) == {<<u.src + o, u.dst + o>> : o \in u.off .. u.off + u.len - 1}
-----------------------------------------------------------------------------
\* apply_next_tick takes over what was pushed.
DmaArrives ==
  /\ arrival_reqs # <<>>
  /\ dma_req_queue' = dma_req_queue \o arrival_reqs /\ arrival_reqs' = <<>>
  /\ UNCHANGED <<dmaGiven, current, line_todo, line_wait, dmaMshr, moved, calls, stale>>
  /\ UNCHANGED vars

\* From host to host a request is done at once.
DmaTakes ==
  /\ current = 0 /\ dma_req_queue # <<>>
  /\ dma_req_queue' = Tail(dma_req_queue)
  /\ LET q == Head(dma_req_queue) IN
     IF Kind(q) = "host"
     THEN /\ moved' = [moved EXCEPT ![q] = Requested(q)]
          /\ calls' = [calls EXCEPT ![q] = @ + 1]
          /\ UNCHANGED <<current, line_todo>>
     ELSE /\ current' = q
          /\ line_todo' = [line_todo EXCEPT ![q] = Units(dmaReqs[q])]
          /\ UNCHANGED <<moved, calls>>
  /\ UNCHANGED <<dmaGiven, arrival_reqs, line_wait, dmaMshr, stale>>
  /\ UNCHANGED vars

DmaBusy == {l \in Lines : dmaMshr[l].st # "-"}
CanAlloc(l) == l \notin DmaBusy /\ Cardinality(DmaBusy) < DmaMSHRs
DmaMsg(type, cha, dst, l, arg, data) == Msg(type, cha, DmaPort, dst, l, arg, data)
ToHome(type, cha, l, data) == DmaMsg(type, cha, LLC, l, DmaPort, data)

\* The next unit of the current request, once its line is in no other MSHR.
DmaStarts ==
  /\ current # 0
  /\ LET q == current
         u == Head(line_todo[q])
         writes == Kind(q) = "in"
         l == LineOf(IF writes THEN u.dst ELSE u.src)
     IN
     /\ line_todo[q] # <<>> /\ CanAlloc(l)
     /\ line_todo' = [line_todo EXCEPT ![q] = Tail(@)]
     /\ line_wait' = [line_wait EXCEPT ![q] = @ \cup {u}]
     /\ dmaMshr' = [dmaMshr EXCEPT ![l] = [NoDmaMSHR EXCEPT
                      !.st = IF writes THEN "ITOM" ELSE "ITOS", !.unit = u, !.req = q]]
     /\ net' = Sent(net, DmaPort, Just(ToHome(IF writes THEN "GETM" ELSE "GETS", REQ, l, NoData)))
     /\ current' = IF Len(line_todo[q]) = 1 THEN 0 ELSE q
  /\ UNCHANGED <<dmaGiven, arrival_reqs, dma_req_queue, moved, calls, stale, l1Vars, llcVars>>
-----------------------------------------------------------------------------
\* handle_recv_msg.  What its assertions demand:
DmaExpects(m) ==
  LET e == dmaMshr[m.line] IN
  /\ e.st # "-"
  /\ m.type \in {"INVALID_ACK", "GETM_ACK", "GETM_RESP"} => e.st = "ITOM"
  /\ m.type = "GETS_RESP" => e.st = "ITOS"

DmaGets(r, types) == MsgAt(DmaPort, r).type \in types /\ DmaExpects(MsgAt(DmaPort, r))
DmaReplies(r, out) == net' = Sent(Taken(DmaPort, r), DmaPort, out)

\* Other caches are answered from the MSHR, whose copy stays what it is.
DmaAnswers(r) ==
  LET m == MsgAt(DmaPort, r)  data == dmaMshr[m.line].data IN
  /\ DmaGets(r, {"INVALID", "GETS_FORWARD", "GETM_FORWARD"})
  /\ DmaReplies(r,
       CASE m.type = "INVALID" -> Just(DmaMsg("INVALID_ACK", ACK, m.arg, m.line, 0, NoData))
         [] m.type = "GETS_FORWARD" -> Just(DmaMsg("GETS_RESP", RESP, m.arg, m.line, 1, data))
         [] m.type = "GETM_FORWARD" -> Just(DmaMsg("GETM_RESP", RESP, m.arg, m.line, 0, data)))
  /\ UNCHANGED <<dmaOwn, l1Vars, llcVars>>

\* A part of an answer that is not the last.
DmaCollects(r) ==
  LET m == MsgAt(DmaPort, r)  e == dmaMshr[m.line] IN
  /\ \/ /\ DmaGets(r, {"INVALID_ACK"})
        /\ ~(e.hasNeed /\ e.need = e.acks + 1 /\ e.hasData)
        /\ dmaMshr' = [dmaMshr EXCEPT ![m.line].acks = @ + 1]
     \/ /\ DmaGets(r, {"GETM_ACK"})
        /\ m.arg # e.acks \/ ~e.hasData
        /\ dmaMshr' = [dmaMshr EXCEPT ![m.line].hasNeed = TRUE, ![m.line].need = m.arg]
     \/ /\ DmaGets(r, {"GETM_RESP"})
        /\ m.arg = 0 /\ (~e.hasNeed \/ e.need # e.acks)
        /\ dmaMshr' = [dmaMshr EXCEPT ![m.line].data = m.data, ![m.line].hasData = TRUE]
  /\ DmaReplies(r, Nothing)
  /\ UNCHANGED <<arrival_reqs, dma_req_queue, current, line_todo, line_wait, moved, calls, stale,
                 l1Vars, llcVars>>

\* The line is there, with data d: the unit is copied and the line written back.  A write
\* to it ends the reservations on it as a store does.
Reads(e) == Kind(e.req) = "out" \/ (Kind(e.req) = "copy" /\ e.kept = NotKept)
DmaHas(r, l, d, acks) ==
  LET e == dmaMshr[l]
      new == NextData(golden[l])
  IN
  /\ stale' = (stale \/ d # golden[l])
  /\ IF Reads(e)
     THEN /\ dmaMshr' = [dmaMshr EXCEPT ![l].data = d, ![l].st = "STOI"]
          /\ DmaReplies(r, Also(acks, ToHome("PUTS", REQ, l, NoData)))
          /\ UNCHANGED <<golden, overwritten>>
     ELSE /\ dmaMshr' = [dmaMshr EXCEPT ![l].data = new, ![l].st = "MTOI"]
          /\ DmaReplies(r, Also(acks, ToHome("PUTM", REQ, l, new)))
          /\ golden' = [golden EXCEPT ![l] = new]
          /\ overwritten' = overwritten \cup {j \in L1s : reserved[j] = l}
  /\ moved' = IF Kind(e.req) = "copy" /\ Reads(e) THEN moved
              ELSE [moved EXCEPT ![e.req] = @ \cup WordsOf(e.unit)]
  /\ UNCHANGED <<arrival_reqs, dma_req_queue, current, line_todo, line_wait, calls,
                 block, mshr, reserved, llcVars>>

DmaFinishes(r) ==
  LET m == MsgAt(DmaPort, r)  e == dmaMshr[m.line]
      ack == Just(ToHome("GET_ACK", ACK, m.line, NoData))
  IN
  \/ /\ DmaGets(r, {"INVALID_ACK"})
     /\ e.hasNeed /\ e.need = e.acks + 1 /\ e.hasData
     /\ DmaHas(r, m.line, e.data, ack)
  \/ /\ DmaGets(r, {"GETM_ACK"})
     /\ m.arg = e.acks /\ e.hasData
     /\ DmaHas(r, m.line, e.data, ack)
  \/ /\ DmaGets(r, {"GETM_RESP"})
     /\ ~(m.arg = 0 /\ (~e.hasNeed \/ e.need # e.acks))
     /\ DmaHas(r, m.line, m.data, IF m.arg = 0 THEN ack ELSE Nothing)
  \/ /\ DmaGets(r, {"GETS_RESP"})
     /\ DmaHas(r, m.line, m.data, IF m.arg > 0 THEN ack ELSE Nothing)
  \/ /\ DmaGets(r, {"GET_RESP_MEM"})
     /\ DmaHas(r, m.line, m.data, ack)

\* The line is back.  A copy goes on with the line at its destination (the entry removed
\* is used further; the allocator gives its memory to the new one); else the unit is done,
\* and with the last one the request.
LastUnitAlone(q, u) == line_todo[q] = <<>>   \* (faulty: does not wait for the units under way)
LastUnit(q, u) == line_todo[q] = <<>> /\ line_wait[q] = {u}
DmaPutBack(r) ==
  LET m == MsgAt(DmaPort, r)  l == m.line  e == dmaMshr[l]
      q == e.req  to == LineOf(e.unit.dst)
      again == Kind(q) = "copy" /\ e.kept = NotKept
  IN
  /\ DmaGets(r, {"PUT_ACK"})
  /\ IF again
     THEN /\ to = l \/ dmaMshr[to].st = "-"
          /\ dmaMshr' = [dmaMshr EXCEPT ![l] = NoDmaMSHR,
               ![to] = [NoDmaMSHR EXCEPT !.st = "ITOM", !.unit = e.unit, !.req = q, !.kept = e.data]]
          /\ DmaReplies(r, Just(ToHome("GETM", REQ, to, NoData)))
          /\ UNCHANGED <<line_wait, calls>>
     ELSE /\ dmaMshr' = [dmaMshr EXCEPT ![l] = NoDmaMSHR]
          /\ line_wait' = [line_wait EXCEPT ![q] = @ \ {e.unit}]
          /\ calls' = IF LastUnit(q, e.unit) THEN [calls EXCEPT ![q] = @ + 1] ELSE calls
          /\ DmaReplies(r, Nothing)
  /\ UNCHANGED <<arrival_reqs, dma_req_queue, current, line_todo, moved, stale, l1Vars, llcVars>>

DmaHandles(r) == DmaAnswers(r) \/ DmaCollects(r) \/ DmaFinishes(r) \/ DmaPutBack(r)
DmaDelivers == (\E r \in Arriving(DmaPort) : DmaHandles(r)) /\ UNCHANGED dmaGiven

dmaNext ==
  \/ DmaArrives \/ DmaTakes \/ DmaStarts \/ DmaDelivers
  \/ /\ \/ \E i \in L1s \ {DmaPort} : \E l \in cpuLines[i] : L1Access(i, l) /\ UNCHANGED llcVars
        \/ \E i \in L1s \ {DmaPort}, n \in Nodes : L1Deliver(i, n)
        \/ \E n \in L1s : LLCDeliver(n)
        \/ LLCDispatch \/ LLCIndex \/ LLCProcess \/ MemDeliver
     /\ UNCHANGED dmaVars
-----------------------------------------------------------------------------
\* What a request copies is what its words are when they are copied, all its words and no
\* others, from inside the line that was fetched; its callback comes once, after the last.
DmaExact ==
  /\ ~stale
  /\ \A q \in DOMAIN dmaReqs :
       /\ moved[q] \subseteq Requested(q)
       /\ \A u \in line_wait[q] : u.off + u.len <= DmaLineWords
       /\ calls[q] <= 1
       /\ calls[q] = 1 => moved[q] = Requested(q)

\* Every message finds the device, and the caches, in a state their assertions allow.
DmaNeverAborts ==
  /\ \A r \in Arriving(DmaPort) : DmaExpects(MsgAt(DmaPort, r))
  /\ \A i \in L1s \ {DmaPort} : \A r \in Arriving(i) : L1Expects(i, MsgAt(i, r))
=============================================================================
