----------------------------- MODULE MoesiLLC -----------------------------
(***************************************************************************)
(* The last level cache and directory, LLCMoesiDirNoi                      *)
(* (src/src/cache/moesi/lastlevelcache.cpp), and the memory node behind it *)
(* (memnode.cpp).                                                          *)
(*                                                                         *)
(* A request waits in recv_buf until its line is free, is locked and goes  *)
(* through queue_index (P1Dispatch), reads and updates block and directory *)
(* (the Index actions), sends its messages (P3Process) and commits its     *)
(* directory entry (P2Writeback), which has priority over indexing.  When  *)
(* an L1 must still answer (delay), its GET_ACK releases the line.         *)
(***************************************************************************)
EXTENDS MoesiMsg, FiniteSetsExt

CONSTANTS
  RecvBufSize,   \* recv_buf_size: requests waiting at the LLC
  ProcBufSize,   \* process_buf_size
  BlkWays,       \* lines the (one) set of the block array holds
  DirWays,       \* lines the (one) set of the directory holds
  MemDepth       \* messages the bus and the memory node's buffer take from the LLC

ASSUME LLCAssumption == {RecvBufSize, ProcBufSize, BlkWays, DirWays, MemDepth} \subseteq Nat \ {0}

VARIABLES
  recv_buf,         \* requests not yet dispatched, in arrival order
  processing,       \* the locked lines
  queue_index,      \* dispatched requests
  process_buf,      \* indexed requests with messages to send
  queue_writeback,  \* requests whose directory entry is to be written
  dir,              \* dir[l]: the directory entry, exists = {} when there is none
  blk,              \* blk[l]: the data of a line in the block array, else NotHere
  lru,              \* lru[l]: how often the LRU list names l
  pinned,           \* lines pin() took out of the LRU list
  mem               \* mem[l]: the data in memory

llcVars == <<recv_buf, processing, queue_index, process_buf, queue_writeback,
             dir, blk, lru, pinned, mem>>

QueueIndexSize == 2
NotHere == -1
NoEntry == [exists |-> {}, owner |-> 0, dirty |-> FALSE]

LLCInit ==
  /\ recv_buf = <<>> /\ queue_index = <<>> /\ process_buf = <<>> /\ queue_writeback = <<>>
  /\ processing = {} /\ pinned = {}
  /\ dir = [l \in Lines |-> NoEntry]
  /\ blk = [l \in Lines |-> NotHere]
  /\ lru = [l \in Lines |-> 0]
  /\ mem = [l \in Lines |-> 0]

DirHit(l) == dir[l].exists # {}
BlkHit(l) == blk[l] # NotHere
InBlk == {l \in Lines : BlkHit(l)}

-----------------------------------------------------------------------------
\* The LRU list of the block array (cachecommon.h).

\* pin() takes one naming of the line out of the list.
Pin(l) ==
  IF lru[l] > 0
  THEN lru' = [lru EXCEPT ![l] = @ - 1] /\ pinned' = pinned \cup {l}
  ELSE UNCHANGED <<lru, pinned>>

\* unpin() puts it back.
Unpin(l) ==
  IF l \in pinned
  THEN lru' = [lru EXCEPT ![l] = @ + 1] /\ pinned' = pinned \ {l}
  ELSE UNCHANGED <<lru, pinned>>

\* get_line(l, .., true): a hit makes the line the most recent.
Touch(l) ==
  /\ lru' = IF BlkHit(l) THEN [lru EXCEPT ![l] = 1] ELSE lru
  /\ UNCHANGED <<blk, pinned>>

\* remove_line
Drop(l) ==
  /\ blk' = [blk EXCEPT ![l] = NotHere]
  /\ lru' = [lru EXCEPT ![l] = 0]
  /\ pinned' = pinned \ {l}

-----------------------------------------------------------------------------
\* p1_fetch

Unlock(l) == processing' = processing \ {l} /\ Unpin(l)

Request(m) == m.type \in {"GETS", "GETM", "PUTS", "PUTE", "PUTM", "PUTO"}

Room == Len(recv_buf) < RecvBufSize

\* Without room for a request nothing is received, not even an acknowledgement.
P1Receive(r) ==
  LET m == MsgAt(LLC, r) IN
  /\ Room
  /\ net' = Taken(LLC, r)
  /\ IF Request(m) THEN /\ recv_buf' = Append(recv_buf, m)
                        /\ UNCHANGED <<processing, lru, pinned>>
     ELSE /\ m.type \in {"GET_ACK", "INVALID_ACK"}
          /\ IF m.type = "GET_ACK" THEN Unlock(m.line)
                                   ELSE UNCHANGED <<processing, lru, pinned>>
          /\ UNCHANGED recv_buf
  /\ UNCHANGED <<queue_index, process_buf, queue_writeback, dir, blk, mem>>

\* The first waiting request whose line is free.
P1Dispatch ==
  /\ Len(queue_index) < QueueIndexSize
  /\ \E k \in 1 .. Len(recv_buf) :
       LET l == recv_buf[k].line IN
       /\ l \notin processing
       /\ \A j \in 1 .. k - 1 : recv_buf[j].line \in processing
       /\ queue_index' = Append(queue_index, recv_buf[k])
       /\ recv_buf' = RemoveAt(recv_buf, k)
       /\ processing' = processing \cup {l}
       /\ Pin(l)
  /\ UNCHANGED <<process_buf, queue_writeback, dir, blk, mem, net>>

-----------------------------------------------------------------------------
\* p2_index, which looks at queue_index only when nothing waits for write-back.

Only(i) == [exists |-> {i}, owner |-> i, dirty |-> TRUE]

\* The entry with i among the sharers.
WithoutRequester(e, i) == e   \* (faulty)
With(e, i) == [e EXCEPT !.exists = @ \cup {i}]

\* The entry without i, and with its owner handed to the sharer of lowest index.
Without(e, i) == [e EXCEPT !.exists = @ \ {i}]
HandedOver(e) == [e EXCEPT !.owner = IF e.exists # {} THEN Min(e.exists) ELSE @]

\* The request at the head of queue_index becomes a package in process_buf.
Indexed(entry, delay, sends) ==
  /\ queue_index' = Tail(queue_index)
  /\ process_buf' = Append(process_buf, [line |-> Head(queue_index).line, entry |-> entry,
                                         delay |-> delay, sends |-> sends])
  /\ UNCHANGED <<recv_buf, processing, queue_writeback, mem, net>>

CanIndex(types) ==
  /\ queue_writeback = <<>>
  /\ queue_index # <<>> /\ Head(queue_index).type \in types
  /\ Len(process_buf) < ProcBufSize

FromLLC(type, cha, dst, l, arg, data) == Msg(type, cha, LLC, dst, l, arg, data)

IndexGetS ==
  /\ CanIndex({"GETS"})
  /\ LET l == Head(queue_index).line  i == Head(queue_index).arg IN
     /\ Touch(l)
     /\ CASE DirHit(l) ->
               Indexed(With(dir[l], i), TRUE,
                       Just(FromLLC("GETS_FORWARD", REQ, dir[l].owner, l, i, NoData)))
          [] ~DirHit(l) /\ BlkHit(l) ->
               Indexed(Only(i), FALSE, Just(FromLLC("GETS_RESP", RESP, i, l, 0, blk[l])))
          [] OTHER ->
               Indexed(Only(i), TRUE, Just(FromLLC("GETS_FORWARD", REQ, MEM, l, i, NoData)))
     /\ UNCHANGED dir

\* When the data must come from the owner it gets GETM_FORWARD; the other holders of
\* the line but for the one that asks get INVALID.
Invalidated(e, i) == e.exists \ (IF i \in e.exists THEN {i} ELSE {e.owner})

\* Each of the holders gets INVALID, whose acknowledgement is for node n.
Invalids(holders, l, n) ==
  [d \in Nodes |-> IF d \in holders THEN <<FromLLC("INVALID", RESP, d, l, n, NoData)>> ELSE <<>>]

\* What a GETM of i for a line with entry e sends.
ForGetM(e, l, i) ==
  LET invalids == Invalids(Invalidated(e, i), l, i) IN
  Also(IF i \in e.exists THEN invalids
       ELSE Also(invalids, FromLLC("GETM_FORWARD", REQ, e.owner, l, i, NoData)),
       FromLLC("GETM_ACK", RESP, i, l, Cardinality(Invalidated(e, i)), NoData))

IndexGetM ==
  /\ CanIndex({"GETM"})
  /\ LET l == Head(queue_index).line  i == Head(queue_index).arg IN
     /\ IF DirHit(l) /\ BlkHit(l) THEN Drop(l) ELSE Touch(l)
     /\ CASE DirHit(l) -> Indexed(Only(i), TRUE, ForGetM(dir[l], l, i))
          [] ~DirHit(l) /\ BlkHit(l) ->
               Indexed(Only(i), FALSE, Just(FromLLC("GETM_RESP", RESP, i, l, 1, blk[l])))
          [] OTHER ->
               Indexed(Only(i), TRUE, Just(FromLLC("GETM_FORWARD", REQ, MEM, l, i, NoData)))
     /\ UNCHANGED dir

PutAck(m) == FromLLC("PUT_ACK", ACK, m.arg, m.line, 0, NoData)

\* A clean line leaves the cache of m's sender.
CleanPutEntry(m) ==
  LET rest == Without(dir[m.line], m.arg) IN
  IF m.arg = rest.owner THEN HandedOver(rest) ELSE rest

IndexPutClean ==
  /\ CanIndex({"PUTS", "PUTE"})
  /\ LET m == Head(queue_index) IN Indexed(CleanPutEntry(m), FALSE, Just(PutAck(m)))
  /\ UNCHANGED <<dir, blk, lru, pinned>>

\* The entry of a line its owner wrote back is clean: the block array has the data.
OwnerKept(m) == Without(dir[m.line], m.arg)   \* (faulty: no new owner)
PutEntry(m) ==
  LET e == dir[m.line] IN
  HandedOver(Without([e EXCEPT !.dirty = e.owner # m.arg], m.arg))

\* insert_line finds the line or a free way.
PutFits(m) == BlkHit(m.line) \/ Cardinality(InBlk) < BlkWays

\* p2_index asserts that the line of a PUTM or PUTO has an entry.
IndexPutDirty ==
  /\ CanIndex({"PUTM", "PUTO"})
  /\ LET m == Head(queue_index)  l == m.line IN
     /\ DirHit(l)
     /\ \/ /\ dir[l].owner # m.arg
           /\ Indexed(PutEntry(m), FALSE, Just(PutAck(m)))
           /\ UNCHANGED <<dir, blk, lru, pinned>>
        \/ /\ dir[l].owner = m.arg /\ PutFits(m)
           /\ blk' = [blk EXCEPT ![l] = m.data]
           /\ lru' = [lru EXCEPT ![l] = 1]
           /\ Indexed(PutEntry(m), FALSE, Just(PutAck(m)))
           /\ UNCHANGED <<dir, pinned>>

WriteBackVictim(v) == FromLLC("PUTM", REQ, MEM, v, LLC, blk[v])

\* With the set full, a line the LRU list names leaves for memory; if its directory
\* entry is clean the entry goes too, and its sharers are told.
IndexPutReplacing ==
  /\ CanIndex({"PUTM", "PUTO"})
  /\ LET m == Head(queue_index)  l == m.line IN
     /\ DirHit(l) /\ dir[l].owner = m.arg /\ ~PutFits(m)
     /\ \E v \in {x \in InBlk : lru[x] > 0} :
          LET clean == DirHit(v) /\ ~dir[v].dirty
              sharers == IF clean THEN dir[v].exists ELSE {}
          IN
          /\ blk' = [blk EXCEPT ![l] = m.data, ![v] = NotHere]
          /\ lru' = [lru EXCEPT ![l] = 1, ![v] = 0]
          /\ pinned' = pinned \ {v}
          /\ dir' = IF clean THEN [dir EXCEPT ![v] = NoEntry] ELSE dir
          /\ Indexed(PutEntry(m), FALSE,
               Also(Also(Invalids(sharers, v, LLC), WriteBackVictim(v)), PutAck(m)))

\* p2_index asserts that the entry replaces no other.
EntryFits(p) ==
  p.entry.exists = {} \/ Cardinality({l \in Lines : DirHit(l)} \cup {p.line}) <= DirWays

Written(p) == IF p.entry.exists = {} THEN NoEntry ELSE p.entry

\* A package with an empty sharer set removes the entry, any other writes it.
P2Writeback ==
  /\ queue_writeback # <<>>
  /\ LET p == Head(queue_writeback) IN
     /\ EntryFits(p)
     /\ dir' = [dir EXCEPT ![p.line] = Written(p)]
     /\ IF p.delay THEN UNCHANGED <<processing, lru, pinned>> ELSE Unlock(p.line)
  /\ queue_writeback' = Tail(queue_writeback)
  /\ UNCHANGED <<recv_buf, queue_index, process_buf, blk, mem, net>>

P2Index ==
  \/ IndexGetS
  \/ IndexGetM
  \/ IndexPutClean
  \/ IndexPutDirty
  \/ IndexPutReplacing
  \/ P2Writeback

-----------------------------------------------------------------------------
\* p3_process: the first message of each channel goes first.  Write-backs to memory
\* are the only messages no answer limits: the bus refuses what it has no room for.

BusAccepts(sends) == sends[MEM] # <<>> => Len(net[LLC][MEM]) < MemDepth

Channels(sends) == UNION {{sends[d][k].cha : k \in 1 .. Len(sends[d])} : d \in Nodes}

P3Process(k) ==
  /\ k \in 1 .. Len(process_buf)
  /\ \A j \in 1 .. k - 1 :
       Channels(process_buf[j].sends) \cap Channels(process_buf[k].sends) = {}
  /\ BusAccepts(process_buf[k].sends)
  /\ net' = Sent(net, LLC, process_buf[k].sends)
  /\ queue_writeback' = Append(queue_writeback, [process_buf[k] EXCEPT !.sends = Nothing])
  /\ process_buf' = RemoveAt(process_buf, k)
  /\ UNCHANGED <<recv_buf, processing, queue_index, dir, blk, lru, pinned, mem>>

-----------------------------------------------------------------------------
\* The memory node serves its requests one after the other.

MemHandle(r) ==
  LET m == MsgAt(MEM, r) IN
  /\ \/ /\ m.type = "PUTM"
        /\ mem' = [mem EXCEPT ![m.line] = m.data]
        /\ net' = Taken(MEM, r)
     \/ /\ m.type \in {"GETS_FORWARD", "GETM_FORWARD"}
        /\ net' = Sent(Taken(MEM, r), MEM,
                       Just(Msg("GET_RESP_MEM", RESP, MEM, m.arg, m.line, 0, mem[m.line])))
        /\ UNCHANGED mem
  /\ UNCHANGED <<recv_buf, processing, queue_index, process_buf, queue_writeback,
                 dir, blk, lru, pinned>>
=============================================================================
