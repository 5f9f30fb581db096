----------------------------- MODULE MoesiLine -----------------------------
(***************************************************************************)
(* The MOESI protocol as one line sees it: its copies in the L1 caches,    *)
(* their MSHR entries, the messages about it, and what the directory will  *)
(* say of it.  Where a message waits (on the bus, in recv_buf, in          *)
(* queue_index, in a package of process_buf) makes no difference here, nor *)
(* do the other lines; that a queue is FIFO only means that an answer of   *)
(* the LLC arrives before what the LLC sends after it.                     *)
(*                                                                         *)
(* LineInv is what holds of every line while no block is replaced in the   *)
(* LLC, and LineStep what a step of MoesiSystem may do to a line.          *)
(***************************************************************************)
EXTENDS MoesiSystem

\* The messages in the packages of process_buf.
Packaged ==
  UNION {UNION {ToSet(process_buf[k].sends[d]) : d \in Nodes} : k \in 1 .. Len(process_buf)}
MsgsOf(l) ==
  {m \in InFlight \cup ToSet(recv_buf) \cup ToSet(queue_index) \cup Packaged : m.line = l}

\* The entry of a line when the packages on their way to write-back are written.
Packages == ToSet(process_buf) \cup ToSet(queue_writeback)
EntryOf(l) ==
  IF \E p \in Packages : p.line = l THEN Written(CHOOSE p \in Packages : p.line = l) ELSE dir[l]

\* The line is locked until an L1 sends GET_ACK.
Owed(l) ==
  /\ l \in processing
  /\ \A m \in ToSet(queue_index) : m.line # l
  /\ \A p \in Packages : p.line = l => p.delay

View(l) ==
  [cache |-> [i \in L1s |-> block[i][l]], mshr |-> [i \in L1s |-> mshr[i][l]],
   msgs |-> MsgsOf(l), entry |-> EntryOf(l), owed |-> Owed(l),
   blk |-> blk[l], mem |-> mem[l], golden |-> golden[l]]
-----------------------------------------------------------------------------
\* Data the LLC sends from its block array: nobody else has a copy.
Grant(m) == m.src = LLC /\ m.type \in {"GETS_RESP", "GETM_RESP"}

\* The messages of a transaction that a GET_ACK ends, and the L1 that asked for it.
Owing(m) ==
  \/ m.type \in {"GETS_FORWARD", "GETM_FORWARD", "INVALID", "INVALID_ACK", "GETM_ACK",
                 "GET_RESP_MEM", "GET_ACK"}
  \/ m.type \in {"GETS_RESP", "GETM_RESP"} /\ m.src # LLC
Requester(m) ==
  IF m.type \in {"GETS_FORWARD", "GETM_FORWARD", "INVALID"} THEN m.arg
  ELSE IF m.type = "GET_ACK" THEN m.src ELSE m.dst

\* Of these a transaction has one, and then no other message.
Token(m) ==
  \/ m.type \in {"GETS_FORWARD", "GET_RESP_MEM", "GET_ACK"}
  \/ m.type = "GETS_RESP" /\ m.src # LLC
  \/ m.type = "GETM_FORWARD" /\ m.dst = MEM
\* The way of the data to an L1 that asked to write, from the L1 that has them.
Carrying(m) ==
  \/ m.type = "GETM_FORWARD" /\ m.dst # MEM
  \/ m.type = "GETM_RESP" /\ m.src # LLC

Puts == {"PUTS", "PUTE", "PUTM", "PUTO"}
Leaving == {"ITOI", "MTOI", "STOI", "ETOI", "OTOI"}
Asks(s, i) == \E m \in s.msgs : Request(m) /\ m.src = i
Granted(s, i) == \E m \in s.msgs : Grant(m) /\ m.dst = i
Evicts(s, i, states) == s.mshr[i].st \in states /\ Asks(s, i)

\* Cache i has a copy that counts for the directory; it has the only one.
Holds(s, i) ==
  \/ s.cache[i].st # "I"
  \/ s.mshr[i].st \in {"STOM", "OTOM"}
  \/ Evicts(s, i, Leaving \ {"ITOI"})
  \/ Granted(s, i)
Exclusive(s, i) ==
  \/ s.cache[i].st \in {"E", "M"}
  \/ Evicts(s, i, {"MTOI", "ETOI"})
  \/ Granted(s, i)

\* The caches that have yet to give up the line, or whose INVALID_ACK is on its way.
Unacknowledged(s) ==
  {k \in L1s : \E m \in s.msgs : \/ m.type = "INVALID" /\ m.dst = k
                                 \/ m.type = "INVALID_ACK" /\ m.src = k}

\* Every message has the form its type calls for.
MessageTypes ==
  {"GETS", "GETM", "PUTS", "PUTE", "PUTM", "PUTO", "GET_ACK", "INVALID_ACK", "GETS_RESP", "GETM_RESP",
   "GETS_FORWARD", "GETM_FORWARD", "INVALID", "GETM_ACK", "PUT_ACK", "GET_RESP_MEM"}
WellFormed(l, m) ==
  /\ m.line = l /\ m.type \in MessageTypes /\ m.data \in Data
  /\ Request(m) \/ m.type = "GET_ACK" => m.src \in L1s /\ m.dst = LLC /\ m.arg = m.src
  /\ m.type = "INVALID_ACK" => m.src \in L1s /\ m.dst \in L1s
  /\ m.type \in {"GETS_RESP", "GETM_RESP"} => m.src \in L1s \cup {LLC} /\ m.dst \in L1s
  /\ m.type = "GETS_RESP" => m.arg = IF m.src = LLC THEN 0 ELSE 1
  /\ m.type = "GETM_RESP" => m.arg = IF m.src = LLC THEN 1 ELSE 0
  /\ m.type \in {"GETS_FORWARD", "GETM_FORWARD"} =>
       m.src = LLC /\ m.dst \in L1s \cup {MEM} /\ m.arg \in L1s
  /\ m.type = "INVALID" => m.src = LLC /\ m.dst \in L1s /\ m.arg \in L1s
  /\ m.type = "GETM_ACK" => m.src = LLC /\ m.dst \in L1s /\ m.arg \in Nat
  /\ m.type = "PUT_ACK" => m.src = LLC /\ m.dst \in L1s
  /\ m.type = "GET_RESP_MEM" => m.src = MEM /\ m.dst \in L1s

\* What the MSHR entry of the L1 that asked is when m is on its way.
Expected(m, st) ==
  /\ m.type \in {"GETS", "GETS_FORWARD", "GETS_RESP"} => st = "ITOS"
  /\ m.type \in {"GETM_RESP", "GETM_FORWARD"} => st = "ITOM"
  /\ m.type \in {"GETM", "INVALID", "INVALID_ACK", "GETM_ACK"} => st \in {"ITOM", "STOM", "OTOM"}
  /\ m.type = "GET_RESP_MEM" => st \in {"ITOS", "ITOM"}
  /\ m.type \in Puts \cup {"PUT_ACK"} => st \in Leaving

MSHREntry ==
  [st : MSHRStates, data : Data, hasData : BOOLEAN, hasNeed : BOOLEAN, need : Nat, acks : Nat]

LineTypes(l, s) ==
  /\ s.cache \in [L1s -> [st : CacheStates, data : Data]]
  /\ s.mshr \in [L1s -> MSHREntry]
  /\ s.entry \in [exists : SUBSET L1s, owner : L1s, dirty : BOOLEAN]
  /\ s.owed \in BOOLEAN
  /\ s.blk \in Data \cup {NotHere} /\ {s.mem, s.golden} \subseteq Data
WellFormedMsgs(l, s) == \A m \in s.msgs : WellFormed(l, m)

\* A line is in the cache or in an MSHR.
OnePlace(s) ==
  \A i \in L1s :
    /\ s.cache[i].st # "I" => s.mshr[i].st = "-"
    /\ s.mshr[i].st = "-" => s.mshr[i] = NoMSHR

\* No message is doubled, and no L1 has two requests on their way.
Distinct(s) == \A m, n \in s.msgs : m.type = n.type /\ m.src = n.src /\ m.dst = n.dst => m = n
OneRequest(s) == \A m, n \in s.msgs : Request(m) /\ Request(n) /\ m.src = n.src => m = n

\* Whose transaction a message belongs to: its MSHR is in a state for which the message
\* makes sense, and while its request waits nothing else is on its way for it.
Client(m) == IF Request(m) THEN m.src ELSE Requester(m)
Clients(s) == \A m \in s.msgs : Expected(m, s.mshr[Client(m)].st)
AskedFirst(s) == \A m \in s.msgs : ~Request(m) /\ m.type # "GET_ACK" => ~Asks(s, Client(m))
NothingCollected(s) ==
  \A m \in s.msgs :
    LET e == s.mshr[m.src] IN Request(m) => ~e.hasData /\ ~e.hasNeed /\ e.acks = 0
OwingNotGranted(s) == \A m \in s.msgs : Owing(m) => ~Granted(s, Requester(m))

\* One transaction at a time.
OneRequester(s) ==
  \A m, n \in s.msgs : Owing(m) /\ Owing(n) => Requester(m) = Requester(n)
TokenAlone(s) == \A m, n \in s.msgs : Owing(m) /\ Owing(n) /\ Token(m) => m = n
OneCarrier(s) ==
  /\ \A m, n \in s.msgs : Carrying(m) /\ Carrying(n) => m = n
  /\ \A m \in s.msgs : Carrying(m) => ~s.mshr[Requester(m)].hasData
OwingOwed(s) == \A m \in s.msgs : Owing(m) => s.owed

\* An L1 that has a part of its answers waits for the rest of them.
Engaged(s, i) == s.owed /\ \A m \in s.msgs : Owing(m) => Requester(m) = i /\ m.type # "GET_ACK"
Collected(s) ==
  \A i \in L1s :
    LET e == s.mshr[i] IN
    /\ e.hasData => e.st = "ITOM"
    /\ e.hasNeed \/ e.acks # 0 => Collecting(e)
    /\ e.hasData \/ e.hasNeed \/ e.acks # 0 => Engaged(s, i)
Counted(s) ==
  /\ \A i \in L1s : s.mshr[i].hasNeed =>
       s.mshr[i].need = s.mshr[i].acks + Cardinality(Unacknowledged(s))
  /\ \A m \in s.msgs : m.type = "GETM_ACK" =>
       /\ ~s.mshr[m.dst].hasNeed
       /\ m.arg = s.mshr[m.dst].acks + Cardinality(Unacknowledged(s))

\* The directory knows who has a copy, but for those it has told to give it up; whom
\* it knows has a copy, but for the one that is being served.
Dismissed(s, i) == \E m \in s.msgs : m.type \in {"INVALID", "GETM_FORWARD"} /\ m.dst = i
HoldersKnown(s) == \A i \in L1s : Holds(s, i) => i \in s.entry.exists \/ Dismissed(s, i)
Served(s, i) == Engaged(s, i) /\ s.mshr[i].st \in {"ITOS", "ITOM"} /\ ~Asks(s, i)
KnownHold(s) == \A i \in s.entry.exists : Holds(s, i) \/ Served(s, i)
OwnerKnown(s) == s.entry.exists # {} => s.entry.owner \in s.entry.exists

\* One writer or many readers.
OneWriter(s) == \A i, j \in L1s : Exclusive(s, i) /\ Holds(s, j) => i = j

\* A message reaches an L1 that is in a state for it.
InvalidSound(s) ==
  \A m \in s.msgs : m.type = "INVALID" =>
    /\ m.dst # m.arg /\ Holds(s, m.dst) /\ ~Exclusive(s, m.dst)
    /\ \A n \in s.msgs : n.type = "GETM_FORWARD" => n.dst # m.dst
AckSound(s) == \A m \in s.msgs : m.type = "INVALID_ACK" => m.src # m.dst /\ ~Holds(s, m.src)
GetMSound(s) ==
  \A m \in s.msgs : m.type = "GETM_FORWARD" /\ m.dst # MEM => Holds(s, m.dst) /\ m.dst # m.arg
GetSSound(s) ==
  \A m \in s.msgs : m.type = "GETS_FORWARD" /\ m.dst # MEM =>
    /\ m.dst # m.arg /\ Holds(s, m.dst) /\ {m.arg, m.dst} \subseteq s.entry.exists
    /\ \A k \in L1s \ {m.dst} : ~Exclusive(s, k)
RespSound(s) ==
  \A m \in s.msgs : m.type = "GETS_RESP" /\ m.src # LLC =>
    m.dst \in s.entry.exists /\ \A k \in L1s : ~Exclusive(s, k)

\* While the line goes to a new owner the directory knows that one only; while it comes
\* from memory nobody has it.
OwnerToBe(s) ==
  \A m \in s.msgs :
    Owing(m) /\ m.type \notin {"GETS_FORWARD", "GETS_RESP", "GET_ACK"} => s.entry.exists = {Requester(m)}
FromMemory(m) == m.dst = MEM \/ m.type = "GET_RESP_MEM"
MemorySound(s) ==
  \A m \in s.msgs : FromMemory(m) =>
    s.entry.exists = {Requester(m)} /\ \A k \in L1s : ~Holds(s, k)

LineInv(l, s) ==
  /\ LineTypes(l, s) /\ WellFormedMsgs(l, s) /\ OnePlace(s) /\ Distinct(s) /\ OneRequest(s)
  /\ Clients(s) /\ AskedFirst(s) /\ NothingCollected(s) /\ OwingNotGranted(s)
  /\ OneRequester(s) /\ TokenAlone(s) /\ OneCarrier(s) /\ OwingOwed(s)
  /\ Collected(s) /\ Counted(s)
  /\ HoldersKnown(s) /\ KnownHold(s) /\ OwnerKnown(s) /\ OneWriter(s)
  /\ InvalidSound(s) /\ AckSound(s) /\ GetMSound(s) /\ GetSSound(s) /\ RespSound(s)
  /\ OwnerToBe(s) /\ MemorySound(s)
LinesInv == \A l \in Lines : LineInv(l, View(l))
-----------------------------------------------------------------------------
(* The steps.  An L1 acts: its line becomes c, its MSHR entry e, messages  *)
(* go and new ones come.                                                   *)

AtL1(s, t, i, c, e, gone, new) ==
  /\ t.cache = [s.cache EXCEPT ![i] = c]
  /\ t.mshr = [s.mshr EXCEPT ![i] = e]
  /\ t.msgs = (s.msgs \ gone) \cup new
  /\ t.entry = s.entry /\ t.owed = s.owed /\ t.blk = s.blk /\ t.mem = s.mem

LineLoads(l, s, t, i) ==
  /\ s.cache[i].st = "I" /\ s.mshr[i].st = "-"
  /\ AtL1(s, t, i, s.cache[i], Waits("ITOS"), {}, {Msg("GETS", REQ, i, LLC, l, i, NoData)})
  /\ t.golden = s.golden

LineStores(l, s, t, i) ==
  /\ s.cache[i].st \in {"E", "M"}
  /\ AtL1(s, t, i, [st |-> "M", data |-> t.golden], s.mshr[i], {}, {})
  /\ t.golden = NextData(s.golden)

\* The entry of a store that misses.
Upgrade(c) ==
  IF c.st = "S" THEN [Waits("STOM") EXCEPT !.data = c.data]
  ELSE IF c.st = "O" THEN [Waits("OTOM") EXCEPT !.data = c.data] ELSE Waits("ITOM")
LineAsksToStore(l, s, t, i) ==
  /\ s.cache[i].st \notin {"E", "M"} /\ s.mshr[i].st = "-"
  /\ \E ch \in {RESP, REQ} :
       AtL1(s, t, i, Absent, Upgrade(s.cache[i]), {}, {Msg("GETM", ch, i, LLC, l, i, NoData)})
  /\ t.golden = s.golden

LineEvicted(l, s, t, i) ==
  LET c == s.cache[i] IN
  /\ c.st # "I"
  /\ AtL1(s, t, i, Absent, Evicting(c), {},
          {Msg(PutType[c.st], REQ, i, LLC, l, i, IF c.st \in {"M", "O"} THEN c.data ELSE NoData)})
  /\ t.golden = s.golden

\* i takes m in, and sends new.
LineHandles(s, t, i, m, c, e, new) ==
  /\ m \in s.msgs /\ m.dst = i
  /\ AtL1(s, t, i, c, e, {m}, new)
  /\ t.golden = s.golden
LineEnters(s, t, i, m, st, data, new) ==
  LineHandles(s, t, i, m, [st |-> st, data |-> data], NoMSHR, new)

LineInvalid(l, s, t, i, m) ==
  /\ m.type = "INVALID" /\ ~Granted(s, i)
  /\ LineHandles(s, t, i, m, Absent, [s.mshr[i] EXCEPT !.st = AfterInvalid(@)],
                 {Msg("INVALID_ACK", ACK, i, m.arg, l, 0, NoData)})

LineInvalidAck(l, s, t, i, m) ==
  LET e == s.mshr[i] IN
  /\ m.type = "INVALID_ACK"
  /\ \/ LastAck(e) /\ LineEnters(s, t, i, m, "M", e.data, {GetAck(i, l)})
     \/ /\ ~LastAck(e)
        /\ LineHandles(s, t, i, m, s.cache[i],
             [e EXCEPT !.acks = IF Collecting(e) THEN @ + 1 ELSE @], {})

LineGetMAck(l, s, t, i, m) ==
  LET e == s.mshr[i]  all == m.arg = e.acks /\ HasLineData(e) IN
  /\ m.type = "GETM_ACK"
  /\ \/ all /\ LineEnters(s, t, i, m, "M", e.data, {GetAck(i, l)})
     \/ /\ ~all
        /\ LineHandles(s, t, i, m, s.cache[i],
             IF Collecting(e) THEN [e EXCEPT !.hasNeed = TRUE, !.need = m.arg] ELSE e, {})

DataOf(s, i) == IF s.cache[i].st # "I" THEN s.cache[i].data ELSE s.mshr[i].data

LineGetSForward(l, s, t, i, m) ==
  LET c == s.cache[i]  e == s.mshr[i] IN
  /\ m.type = "GETS_FORWARD" /\ ~Granted(s, i)
  /\ LineHandles(s, t, i, m, IF c.st # "I" THEN Owned(c) ELSE c,
       IF c.st = "I" /\ e.st \in {"MTOI", "ETOI", "STOI"} THEN [e EXCEPT !.st = "OTOI"] ELSE e,
       {Msg("GETS_RESP", RESP, i, m.arg, l, 1, DataOf(s, i))})

LineGetMForward(l, s, t, i, m) ==
  LET c == s.cache[i]  e == s.mshr[i] IN
  /\ m.type = "GETM_FORWARD" /\ ~Granted(s, i)
  /\ LineHandles(s, t, i, m, Absent,
       IF c.st # "I" THEN e ELSE [e EXCEPT !.st = AfterGetM(@)],
       {Msg("GETM_RESP", RESP, i, m.arg, l, 0, DataOf(s, i))})

LineGetSResp(l, s, t, i, m) ==
  /\ m.type = "GETS_RESP"
  /\ IF m.arg > 0 THEN LineEnters(s, t, i, m, "S", m.data, {GetAck(i, l)})
                  ELSE LineEnters(s, t, i, m, "E", m.data, {})

LineGetMResp(l, s, t, i, m) ==
  LET e == s.mshr[i]  early == m.arg = 0 /\ (~e.hasNeed \/ e.need # e.acks) IN
  /\ m.type = "GETM_RESP"
  /\ \/ early /\ LineHandles(s, t, i, m, s.cache[i],
                             [e EXCEPT !.data = m.data, !.hasData = TRUE], {})
     \/ ~early /\ LineEnters(s, t, i, m, "M", m.data, IF m.arg = 0 THEN {GetAck(i, l)} ELSE {})

LineGetRespMem(l, s, t, i, m) ==
  /\ m.type = "GET_RESP_MEM"
  /\ LineEnters(s, t, i, m, IF s.mshr[i].st = "ITOM" THEN "M" ELSE "E", m.data, {GetAck(i, l)})

LinePutAck(l, s, t, i, m) ==
  /\ m.type = "PUT_ACK"
  /\ LineHandles(s, t, i, m, s.cache[i], NoMSHR, {})

\* A private L2 asks at once for the line again if one of its L1s wants it meanwhile.
Freed(s, i, m) ==
  [cache |-> [s.cache EXCEPT ![i] = @], mshr |-> [s.mshr EXCEPT ![i] = NoMSHR],
   msgs |-> s.msgs \ {m}, entry |-> s.entry, owed |-> s.owed,
   blk |-> s.blk, mem |-> s.mem, golden |-> s.golden]
LineAsksAgain(l, s, t, i, m) ==
  LET u == Freed(s, i, m) IN
  LinePutAck(l, s, u, i, m) /\ (LineLoads(l, u, t, i) \/ LineAsksToStore(l, u, t, i))
-----------------------------------------------------------------------------
(* The directory serves a request, or unlocks the line; the memory node    *)
(* answers.                                                                *)

AtLLC(s, t, m, new, entry, owed) ==
  /\ m \in s.msgs
  /\ t.cache = s.cache /\ t.mshr = s.mshr /\ t.golden = s.golden
  /\ t.msgs = (s.msgs \ {m}) \cup new
  /\ t.entry = entry /\ t.owed = owed

LineGetS(l, s, t, m) ==
  /\ m.type = "GETS" /\ ~s.owed
  /\ t.blk = s.blk /\ t.mem = s.mem
  /\ IF s.entry.exists # {}
     THEN AtLLC(s, t, m, {FromLLC("GETS_FORWARD", REQ, s.entry.owner, l, m.arg, NoData)},
               With(s.entry, m.arg), TRUE)
     ELSE IF s.blk # NotHere
     THEN AtLLC(s, t, m, {FromLLC("GETS_RESP", RESP, m.arg, l, 0, s.blk)}, Only(m.arg), FALSE)
     ELSE AtLLC(s, t, m, {FromLLC("GETS_FORWARD", REQ, MEM, l, m.arg, NoData)}, Only(m.arg), TRUE)

MsgsForGetM(e, l, i) ==
  {FromLLC("INVALID", RESP, d, l, i, NoData) : d \in Invalidated(e, i)}
  \cup (IF i \in e.exists THEN {} ELSE {FromLLC("GETM_FORWARD", REQ, e.owner, l, i, NoData)})
  \cup {FromLLC("GETM_ACK", RESP, i, l, Cardinality(Invalidated(e, i)), NoData)}

LineGetM(l, s, t, m) ==
  /\ m.type = "GETM" /\ ~s.owed
  /\ t.blk = (IF s.entry.exists # {} THEN NotHere ELSE s.blk) /\ t.mem = s.mem
  /\ IF s.entry.exists # {}
     THEN AtLLC(s, t, m, MsgsForGetM(s.entry, l, m.arg), Only(m.arg), TRUE)
     ELSE IF s.blk # NotHere
     THEN AtLLC(s, t, m, {FromLLC("GETM_RESP", RESP, m.arg, l, 1, s.blk)}, Only(m.arg), FALSE)
     ELSE AtLLC(s, t, m, {FromLLC("GETM_FORWARD", REQ, MEM, l, m.arg, NoData)}, Only(m.arg), TRUE)

\* An entry without holders is no entry.
Entered(e) == IF e.exists = {} THEN NoEntry ELSE e
CleanedBy(e, i) ==
  LET rest == Without(e, i) IN Entered(IF i = rest.owner THEN HandedOver(rest) ELSE rest)
WrittenBy(e, i) == Entered(HandedOver(Without([e EXCEPT !.dirty = e.owner # i], i)))

LinePutClean(l, s, t, m) ==
  /\ m.type \in {"PUTS", "PUTE"} /\ ~s.owed
  /\ t.blk = s.blk /\ t.mem = s.mem
  /\ AtLLC(s, t, m, {FromLLC("PUT_ACK", ACK, m.arg, l, 0, NoData)}, CleanedBy(s.entry, m.arg), FALSE)

LinePutDirty(l, s, t, m) ==
  /\ m.type \in {"PUTM", "PUTO"} /\ ~s.owed /\ s.entry.exists # {}
  /\ t.blk = (IF s.entry.owner = m.arg THEN m.data ELSE s.blk) /\ t.mem = s.mem
  /\ AtLLC(s, t, m, {FromLLC("PUT_ACK", ACK, m.arg, l, 0, NoData)}, WrittenBy(s.entry, m.arg), FALSE)

LineUnlocked(l, s, t, m) ==
  /\ m.type = "GET_ACK"
  /\ t.blk = s.blk /\ t.mem = s.mem
  /\ AtLLC(s, t, m, {}, s.entry, FALSE)

LineFromMemory(l, s, t, m) ==
  /\ m.type \in {"GETS_FORWARD", "GETM_FORWARD"} /\ m.dst = MEM
  /\ t.blk = s.blk /\ t.mem = s.mem
  /\ AtLLC(s, t, m, {Msg("GET_RESP_MEM", RESP, MEM, m.arg, l, 0, s.mem)}, s.entry, s.owed)

LineStep(l, s, t) ==
  \/ \E i \in L1s : LineLoads(l, s, t, i) \/ LineStores(l, s, t, i)
                    \/ LineAsksToStore(l, s, t, i) \/ LineEvicted(l, s, t, i)
  \/ \E i \in L1s, m \in s.msgs :
       \/ LineInvalid(l, s, t, i, m) \/ LineInvalidAck(l, s, t, i, m)
       \/ LineGetMAck(l, s, t, i, m) \/ LineGetSForward(l, s, t, i, m)
       \/ LineGetMForward(l, s, t, i, m) \/ LineGetSResp(l, s, t, i, m)
       \/ LineGetMResp(l, s, t, i, m) \/ LineGetRespMem(l, s, t, i, m)
       \/ LinePutAck(l, s, t, i, m) \/ LineAsksAgain(l, s, t, i, m)
  \/ \E m \in s.msgs :
       \/ LineGetS(l, s, t, m) \/ LineGetM(l, s, t, m)
       \/ LinePutClean(l, s, t, m) \/ LinePutDirty(l, s, t, m)
       \/ LineUnlocked(l, s, t, m) \/ LineFromMemory(l, s, t, m)

\* Every line makes such a step or none.
LinesMove == \A l \in Lines : View(l)' = View(l) \/ LineStep(l, View(l), View(l)')
LinesStep == [][LinesMove]_vars
-----------------------------------------------------------------------------
(* Where the messages wait.                                                *)

\* Grants, invalidations and forwards keep their order on the way to an L1.
Channelled(m) ==
  /\ m.type \in {"GETS_RESP", "GETM_RESP"} => m.cha = RESP
  /\ m.type \in {"INVALID", "GETS_FORWARD", "GETM_FORWARD"} => m.cha \in {RESP, REQ}
Message ==
  {m \in [type : MessageTypes, cha : {ACK, RESP, REQ}, src : Nodes, dst : Nodes,
          line : Lines, arg : Nat, data : Data] : Channelled(m)}

\* The messages in the queues q of a bus, and in the messages out that a node sends.
OutSet(out) == UNION {ToSet(out[d]) : d \in Nodes}
InNet(q) == UNION {OutSet(q[n]) : n \in Nodes}

\* What node n sends; no message is doubled.
Sends(n, out) ==
  /\ out \in [Nodes -> Seq(Message)]
  /\ \A d \in Nodes : IsInjective(out[d]) /\ \A m \in ToSet(out[d]) : m.src = n /\ m.dst = d

\* An L1 has taken in what it was granted before it is asked to give the line up.
Precedes(q) ==
  \A j, k \in 1 .. Len(q) : Grant(q[j]) /\ Owing(q[k]) /\ q[j].line = q[k].line => j < k
Carried(q) ==
  /\ q \in [Nodes -> [Nodes -> Seq(Message)]]
  /\ \A n \in Nodes : Sends(n, q[n])
  /\ \A n, d \in Nodes : Precedes(q[n][d])

Package ==
  [line : Lines, entry : [exists : SUBSET L1s, owner : L1s, dirty : BOOLEAN],
   delay : BOOLEAN, sends : [Nodes -> Seq(Message)]]

Queued ==
  /\ recv_buf \in Seq(Message) /\ IsInjective(recv_buf)
  /\ queue_index \in Seq(Message)
  /\ process_buf \in Seq(Package) /\ queue_writeback \in Seq(Package)
  /\ processing \subseteq Lines
  /\ \A m \in ToSet(recv_buf) \cup ToSet(queue_index) : Request(m)

\* A package tells its line's caches; only one that a GET_ACK ends has them owe it, and
\* one that grants the line does not wait.
Packed ==
  /\ \A p \in ToSet(process_buf) :
       /\ Sends(LLC, p.sends)
       /\ \A m \in OutSet(p.sends) : m.line = p.line /\ (Grant(m) => ~p.delay)
       /\ p.delay => \E m \in OutSet(p.sends) : Owing(m)
  /\ \A p \in ToSet(queue_writeback) : p.sends = Nothing

\* No message is in two places.
Apart ==
  /\ InNet(net) \cap (ToSet(recv_buf) \cup ToSet(queue_index) \cup Packaged) = {}
  /\ ToSet(recv_buf) \cap ToSet(queue_index) = {}

\* The LLC works once at a line, which it has locked.
OneEach(q) == \A j, k \in 1 .. Len(q) : q[j].line = q[k].line => j = k
Locked ==
  /\ OneEach(queue_index) /\ OneEach(process_buf) /\ OneEach(queue_writeback)
  /\ \A m \in ToSet(queue_index) : m.line \in processing
  /\ \A p \in ToSet(process_buf) :
       /\ p.line \in processing
       /\ \A m \in ToSet(queue_index) : m.line # p.line
       /\ \A o \in ToSet(queue_writeback) : o.line # p.line
  /\ \A p \in ToSet(queue_writeback) :
       ~p.delay => p.line \in processing /\ \A m \in ToSet(queue_index) : m.line # p.line

\* Caches, directory and memory know every line.
Shaped ==
  /\ block = [i \in L1s |-> [l \in Lines |-> block[i][l]]]
  /\ mshr = [i \in L1s |-> [l \in Lines |-> mshr[i][l]]]
  /\ golden = [l \in Lines |-> golden[l]]
  /\ dir = [l \in Lines |-> dir[l]]
  /\ blk = [l \in Lines |-> blk[l]]
  /\ mem = [l \in Lines |-> mem[l]]

\* The invariant of the protocol while no block is replaced in the LLC.
MoesiInv == LinesInv /\ Carried(net) /\ Queued /\ Packed /\ Apart /\ Locked /\ Shaped
-----------------------------------------------------------------------------
(* What the copies hold.                                                   *)

\* Every copy that a load can hit, that another L1 may be sent, or that is on its way,
\* is what the last store wrote.
WriteBack(m) == m.type \in {"PUTM", "PUTO"}
Supplies(s, i) ==
  \/ s.mshr[i].st \in {"STOM", "OTOM"} \/ s.mshr[i].hasData
  \/ Evicts(s, i, Leaving \ {"ITOI"})
FreshCopies(s) ==
  \A i \in L1s :
    /\ s.cache[i].st # "I" => s.cache[i].data = s.golden
    /\ Supplies(s, i) => s.mshr[i].data = s.golden
FreshMsgs(s) ==
  \A m \in s.msgs :
    /\ m.type \in {"GETS_RESP", "GETM_RESP", "GET_RESP_MEM"} => m.data = s.golden
    /\ WriteBack(m) /\ s.mshr[m.src].st # "ITOI" => m.data = s.golden
    /\ m.dst = MEM => s.mem = s.golden

\* An L1 that must write the line back, or that gets it to write it.
Responsible(s, i) ==
  \/ s.cache[i].st \in {"M", "O"}
  \/ s.mshr[i].st = "OTOM"
  \/ s.mshr[i].st \in {"ITOM", "STOM"} /\ ~Asks(s, i)
  \/ s.mshr[i].st # "ITOI" /\ \E m \in s.msgs : WriteBack(m) /\ m.src = i

\* What the last store wrote is in the LLC, or else in memory, or the owner has it.
Backed(s) == (IF s.blk # NotHere THEN s.blk ELSE s.mem) = s.golden
Sourced(s) == Backed(s) \/ (s.entry.exists # {} /\ Responsible(s, s.entry.owner))

\* The only holder is the owner; an L1 that has got its data is the only one known.
HolderOwns(s) ==
  \A i \in L1s :
    /\ Exclusive(s, i) /\ i \in s.entry.exists => s.entry.owner = i
    /\ s.mshr[i].hasData => s.entry.exists = {i}

DataInv(s) == FreshCopies(s) /\ FreshMsgs(s) /\ Sourced(s) /\ HolderOwns(s)
LinesFresh == \A l \in Lines : DataInv(View(l))

\* A write-back from an L1 that is not the owner gives the line another owner.
StaleWriteBack(l, s, t) ==
  \E m \in s.msgs :
    LinePutDirty(l, s, t, m) /\ m.arg # s.entry.owner /\ t.entry.owner # s.entry.owner
NoStaleWriteBack == \A l \in Lines : ~StaleWriteBack(l, View(l), View(l)')
-----------------------------------------------------------------------------
\* The executions in which the block array of the LLC has room for every write-back.
UnreplacedSpec == Init /\ [][Next /\ ~IndexPutReplacing]_vars

\* It always has when it has room for every line.
RoomForAll == IsFiniteSet(Lines) /\ Cardinality(Lines) <= BlkWays
=============================================================================
