---------------------------- MODULE MoesiSystem ----------------------------
(***************************************************************************)
(* L1 caches, last level cache and memory of the MOESI protocol together.  *)
(*                                                                         *)
(* Each L1 is driven by a CPU that reads and writes any line at any time.  *)
(* Successive stores write successive values, so golden[l] is what a read  *)
(* of l must return.                                                       *)
(***************************************************************************)
EXTENDS MoesiL1, MoesiLLC

vars == <<net, l1Vars, llcVars>>

Init == NetInit /\ L1Init /\ LLCInit

L1Deliver(i, n) ==
  /\ \E r \in Arriving(i) : r.from = n /\ L1Handle(i, r)
  /\ UNCHANGED llcVars
CPU(i) == (\E l \in Accesses[i] : L1Access(i, l)) /\ UNCHANGED llcVars

LLCDeliver(n) ==
  /\ \E r \in Arriving(LLC) : r.from = n /\ P1Receive(r)
  /\ UNCHANGED l1Vars
LLCDispatch == P1Dispatch /\ UNCHANGED l1Vars
LLCIndex == P2Index /\ UNCHANGED l1Vars
LLCProcess == (\E k \in 1 .. Len(process_buf) : P3Process(k)) /\ UNCHANGED l1Vars

MemDeliver == (\E r \in Arriving(MEM) : MemHandle(r)) /\ UNCHANGED l1Vars

Next ==
  \/ \E i \in L1s : CPU(i)
  \/ \E i \in L1s, n \in Nodes : L1Deliver(i, n)
  \/ \E n \in L1s : LLCDeliver(n)
  \/ LLCDispatch
  \/ LLCIndex
  \/ LLCProcess
  \/ MemDeliver

\* Every node works in every tick and the bus brings every message.  Nothing makes
\* a CPU access its cache.
Fairness ==
  /\ \A i \in L1s, n \in Nodes : WF_vars(L1Deliver(i, n))
  /\ \A n \in L1s : WF_vars(LLCDeliver(n))
  /\ WF_vars(LLCDispatch) /\ WF_vars(LLCIndex) /\ WF_vars(LLCProcess)
  /\ WF_vars(MemDeliver)

Spec == Init /\ [][Next]_vars
FairSpec == Spec /\ Fairness
-----------------------------------------------------------------------------
Data == 0 .. MaxData

\* The types; an acknowledgement count never exceeds the other L1s there are.
TypeOK ==
  /\ block \in [L1s -> [Lines -> [st : CacheStates, data : Data]]]
  /\ \A i \in L1s, l \in Lines :
       LET e == mshr[i][l] IN
       /\ e.st \in MSHRStates /\ e.data \in Data
       /\ {e.hasData, e.hasNeed} \subseteq BOOLEAN
       /\ {e.need, e.acks} \subseteq 0 .. NumL1 - 1
  /\ reserved \in [L1s -> Lines \cup {NoLine}]
  /\ overwritten \subseteq L1s
  /\ {golden, mem} \subseteq [Lines -> Data]
  /\ blk \in [Lines -> Data \cup {NotHere}]
  /\ dir \in [Lines -> [exists : SUBSET L1s, owner : L1s, dirty : BOOLEAN]]
  /\ processing \cup pinned \subseteq Lines
  /\ lru \in [Lines -> Nat]
  /\ Len(recv_buf) <= RecvBufSize /\ Len(queue_index) <= QueueIndexSize
  /\ Len(process_buf) <= ProcBufSize
  /\ \A m \in InFlight : m.line \in Lines /\ m.data \in Data
                         /\ (m.type = "GETM_ACK" => m.arg < NumL1)

\* The caches are a coherent memory: of two caches that hold a line neither may
\* write it (states E, M), and only a cache that may write changes the line.  An
\* upgrade (STOM, OTOM) still reads from its MSHR entry.
Permission(i, l) ==
  IF CanWrite(i, l) THEN "write" ELSE IF CanRead(i, l) THEN "read" ELSE "none"

Memory == INSTANCE CoherentMemory WITH
  Caches <- L1s, Values <- 0 .. MaxData, Initial <- 0,
  perm <- [i \in L1s |-> [l \in Lines |-> Permission(i, l)]], val <- golden

\* What the caches give the CPUs is a memory in which a line has one writer or
\* many readers, who all see the value stored last (SWMR and data value).
Coherent == Memory!Spec

\* No copy a load can hit is stale: it has what the last store to the line wrote,
\* in whatever cache that store was.
ReadsLatest ==
  \A l \in Lines, i \in L1s :
    /\ block[i][l].st # "I" => block[i][l].data = golden[l]
    /\ mshr[i][l].st \in {"STOM", "OTOM"} => mshr[i][l].data = golden[l]

\* The entry of a line once what waits for write-back is written.
Entry(l) ==
  IF \E p \in ToSet(queue_writeback) : p.line = l
  THEN (CHOOSE p \in ToSet(queue_writeback) : p.line = l).entry ELSE dir[l]

\* The directory knows every holder of a line that is not locked (or its entry waits
\* for write-back): a holder it forgot would miss the next invalidation.
DirKnowsHolders ==
  \A l \in Lines \ processing, i \in L1s :
    block[i][l].st # "I" => i \in Entry(l).exists

\* A message finds its receiver in a state the simroot_asserts of its handler allow,
\* however it was delayed (handle_received_msg_nolock), and a line to be evicted is in no
\* MSHR: alloc cannot fail (handle_new_line_nolock).
L1NeverAborts ==
  /\ \A i \in L1s : \A r \in Arriving(i) : L1Expects(i, MsgAt(i, r))
  /\ \A i \in L1s : Present(i) \cap Busy(i) = {}

\* p2_index finds the directory entry of a line that is written back dirty.
LLCNeverAborts == CanIndex({"PUTM", "PUTO"}) => DirHit(Head(queue_index).line)

\* When the LLC takes nothing in, one of the requests it holds can go on: else the
\* acknowledgement that would unlock their lines is kept out for ever.  (It is, when more L1s
\* ask for a line than recv_buf has places: MoesiWedge.)
NeverWedged ==
  ~Room /\ queue_index = <<>> /\ process_buf = <<>> /\ queue_writeback = <<>>
    => \E k \in 1 .. Len(recv_buf) : recv_buf[k].line \notin processing

\* A store conditional that would succeed has seen every store to its line.
ReservationHonest ==
  \A i \in L1s, l \in Lines :
    reserved[i] = l /\ CanWrite(i, l) => i \notin overwritten

\* Every miss, upgrade and eviction ends.
MSHRsFreed ==
  \A i \in L1s, l \in Lines : mshr[i][l].st # "-" ~> mshr[i][l].st = "-"
=============================================================================
