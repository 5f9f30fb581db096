--------------------------- MODULE MoesiLineProofs ---------------------------
(***************************************************************************)
(* Every step a line may make keeps its invariant (LineKeeps), for any     *)
(* number of caches, any contents, any sizes.  One lemma for each kind of  *)
(* step; what several kinds share (a cache gives the line up, an answer is *)
(* noted, a transaction ends) is a lemma of its own.                       *)
(***************************************************************************)
EXTENDS MoesiLine, FiniteSetTheorems, TLAPS

\* The ports of the bus are different.
LEMMA L1Facts == LLC \notin L1s /\ MEM \notin L1s /\ LLC # MEM /\ L1s \subseteq Nat
  BY NumL1Assumption DEF L1s, LLC, MEM

\* The fields of a message.
LEMMA MsgFacts ==
  ASSUME NEW ty, NEW ch, NEW sr, NEW ds, NEW l, NEW ar, NEW da
  PROVE  LET x == Msg(ty, ch, sr, ds, l, ar, da) IN
         /\ x.type = ty /\ x.cha = ch /\ x.src = sr /\ x.dst = ds /\ x.line = l /\ x.arg = ar
         /\ x.data = da
  BY DEF Msg

\* A fresh MSHR entry has collected nothing.
LEMMA WaitsFacts ==
  ASSUME NEW st \in MSHRStates
  PROVE  /\ Waits(st) \in MSHREntry /\ Waits(st).st = st /\ ~Waits(st).hasData
         /\ ~Waits(st).hasNeed /\ Waits(st).need = 0 /\ Waits(st).acks = 0
<1>1. NoMSHR \in MSHREntry
  BY DataAssumption DEF NoMSHR, MSHREntry, MSHRStates, NoData, Data
<1>2. Waits(st) = [NoMSHR EXCEPT !.st = st]
  BY DEF Waits
<1>3. Waits(st) \in MSHREntry
  BY <1>1, <1>2 DEF MSHREntry
<1>4. /\ NoMSHR.hasData = FALSE /\ NoMSHR.hasNeed = FALSE /\ NoMSHR.need = 0 /\ NoMSHR.acks = 0
      /\ NoMSHR.st = "-"
  BY DEF NoMSHR
<1> QED
  BY <1>1, <1>2, <1>3, <1>4 DEF MSHREntry

\* What the invariant says of a message.
LEMMA About ==
  ASSUME NEW l, NEW s, LineInv(l, s), NEW m \in s.msgs
  PROVE  /\ WellFormed(l, m)
         /\ Client(m) \in L1s
         /\ Owing(m) => ~Request(m) /\ Requester(m) = Client(m)
         /\ Grant(m) => ~Request(m) /\ ~Owing(m) /\ Client(m) = m.dst
         /\ Carrying(m) => Owing(m)
         /\ Token(m) => Owing(m)
         /\ m.type # "GET_ACK" => s.mshr[Client(m)].st # "-"
         /\ m.type \in {"INVALID", "INVALID_ACK", "GETM_ACK", "GETS_RESP", "GETM_RESP", "PUT_ACK",
                       "GET_RESP_MEM"} => m.dst \in L1s
         /\ m.type \in {"GETS_FORWARD", "GETM_FORWARD"} => m.dst \in L1s \cup {MEM}
         /\ m.type = "INVALID_ACK" => m.src \in L1s
<1>1. WellFormed(l, m) /\ Expected(m, s.mshr[Client(m)].st)
  BY DEF LineInv, WellFormedMsgs, Clients
<1>2. Client(m) \in L1s
  BY <1>1 DEF WellFormed, Client, Requester, Request, MessageTypes
<1>3. /\ Owing(m) => ~Request(m) /\ Requester(m) = Client(m)
      /\ Grant(m) => ~Request(m) /\ ~Owing(m) /\ Client(m) = m.dst
  BY <1>1, L1Facts DEF WellFormed, Client, Requester, Request, Owing, Grant
<1>4. (Carrying(m) => Owing(m)) /\ (Token(m) => Owing(m))
  BY <1>1, L1Facts DEF WellFormed, Carrying, Token, Owing
<1>5. m.type # "GET_ACK" => s.mshr[Client(m)].st # "-"
  BY <1>1 DEF WellFormed, Expected, MessageTypes, Puts, Leaving
<1>6. /\ m.type \in {"INVALID", "INVALID_ACK", "GETM_ACK", "GETS_RESP", "GETM_RESP", "PUT_ACK",
                      "GET_RESP_MEM"} => m.dst \in L1s
      /\ m.type \in {"GETS_FORWARD", "GETM_FORWARD"} => m.dst \in L1s \cup {MEM}
      /\ m.type = "INVALID_ACK" => m.src \in L1s
  BY <1>1 DEF WellFormed
<1> QED
  BY <1>1, <1>2, <1>3, <1>4, <1>5, <1>6

\* An L1 that sends a request: its copy of the line moves to an MSHR entry, or stays away.
LEMMA RequestSent ==
  ASSUME NEW l, NEW s, NEW t, LineInv(l, s), NEW i \in L1s, NEW x,
         WellFormed(l, x), Request(x), x.src = i,
         \A y : y \in t.msgs <=> y \in s.msgs \/ y = x,
         s.mshr[i].st = "-", LineTypes(l, t), OnePlace(t),
         \A k \in L1s \ {i} : t.cache[k] = s.cache[k] /\ t.mshr[k] = s.mshr[k],
         Expected(x, t.mshr[i].st), ~t.mshr[i].hasData, ~t.mshr[i].hasNeed, t.mshr[i].acks = 0,
         t.entry = s.entry, t.owed = s.owed,
         Holds(t, i) <=> Holds(s, i), Exclusive(t, i) => Exclusive(s, i)
  PROVE  LineInv(l, t)
<1>x. /\ ~Owing(x) /\ ~Carrying(x) /\ ~Token(x) /\ ~Grant(x) /\ ~FromMemory(x) /\ Client(x) = i
      /\ x.type \notin {"GETM_ACK", "INVALID", "INVALID_ACK", "GETM_FORWARD", "GETS_FORWARD", "GETS_RESP", "GETM_RESP", "GET_ACK"}
  BY L1Facts DEF Owing, Request, Carrying, Token, Grant, FromMemory, Client, WellFormed
<1>s. \A m \in s.msgs : /\ WellFormed(l, m) /\ Client(m) \in L1s
                        /\ Owing(m) => Requester(m) = Client(m)
                        /\ m.type = "GET_ACK" \/ Client(m) # i
                        /\ m.type \in {"INVALID", "GETS_RESP", "GETM_ACK"} => m.dst \in L1s
                        /\ m.type \in {"GETS_FORWARD", "GETM_FORWARD"} => m.dst \in L1s \cup {MEM}
                        /\ m.type = "INVALID_ACK" => m.src \in L1s
  BY About
<1>r. \A m \in s.msgs : Request(m) => m.src # i
  BY <1>s DEF Client, Request
<1>a. \A k \in L1s : Asks(t, k) <=> Asks(s, k) \/ k = i
  BY DEF Asks
<1>b. \A k \in L1s : Granted(t, k) <=> Granted(s, k)
  BY <1>x DEF Granted
<1>h. \A k \in L1s : (Holds(t, k) <=> Holds(s, k)) /\ (Exclusive(t, k) => Exclusive(s, k))
  BY <1>a, <1>b DEF Holds, Exclusive, Evicts
<1>u. Unacknowledged(t) = Unacknowledged(s)
  BY <1>x DEF Unacknowledged
<1>e. \A k \in L1s : Engaged(t, k) <=> Engaged(s, k)
  BY <1>x DEF Engaged
<1>1. WellFormedMsgs(l, t) /\ Distinct(t) /\ OneRequest(t)
  <2>1. WellFormedMsgs(l, t)
    BY DEF WellFormedMsgs, LineInv
  <2>2. Distinct(t)
    BY <1>r DEF Distinct, LineInv, Request
  <2>3. OneRequest(t)
    BY <1>r DEF OneRequest, LineInv
  <2> QED BY <2>1, <2>2, <2>3
<1>2. Clients(t)
  BY <1>s, <1>x DEF Clients, LineInv, Expected, Puts
<1>3. AskedFirst(t) /\ OwingNotGranted(t)
  BY <1>s, <1>x, <1>a, <1>b DEF AskedFirst, OwingNotGranted, LineInv
<1>4. NothingCollected(t)
  BY <1>s, <1>r DEF NothingCollected, LineInv, Client
<1>5. OneRequester(t) /\ TokenAlone(t) /\ OwingOwed(t)
  BY <1>x DEF OneRequester, TokenAlone, OwingOwed, LineInv
<1>6. OneCarrier(t)
  BY <1>x, <1>s, About DEF OneCarrier, LineInv
<1>7. Collected(t)
  BY <1>e DEF Collected, LineInv
<1>8. Counted(t)
  BY <1>u, <1>x, <1>s DEF Counted, LineInv, WellFormed, Client, Requester, Request
<1>9. HoldersKnown(t)
  BY <1>h DEF HoldersKnown, Dismissed, LineInv
<1>10. KnownHold(t)
  <2>1. \A k \in L1s : Served(s, k) => Served(t, k)
    BY <1>e, <1>a DEF Served
  <2> QED
    BY <2>1, <1>h DEF KnownHold, LineInv, LineTypes
<1>11. OwnerKnown(t) /\ OneWriter(t)
  BY <1>h DEF OwnerKnown, OneWriter, LineInv
<1>12. InvalidSound(t) /\ AckSound(t)
  BY <1>h, <1>x, <1>s DEF InvalidSound, AckSound, LineInv
<1>13. GetMSound(t) /\ GetSSound(t) /\ RespSound(t)
  <2>1. GetMSound(t)
    BY <1>h, <1>x, <1>s DEF GetMSound, LineInv
  <2>2. GetSSound(t)
    BY <1>h, <1>x, <1>s DEF GetSSound, LineInv
  <2>3. RespSound(t)
    BY <1>h, <1>x, <1>s DEF RespSound, LineInv
  <2> QED BY <2>1, <2>2, <2>3
<1>14. OwnerToBe(t) /\ MemorySound(t)
  BY <1>h, <1>x DEF OwnerToBe, MemorySound, LineInv
<1> QED BY <1>1, <1>2, <1>3, <1>4, <1>5, <1>6, <1>7, <1>8, <1>9, <1>10, <1>11, <1>12, <1>13, <1>14 DEF LineInv

\* The contents of a line.
LEMMA DataFacts ==
  NoData \in Data /\ NotHere \notin Data /\ \A d \in Data : NextData(d) \in Data
<1>1. NoData \in Data /\ NotHere \notin Data
  BY DataAssumption DEF Data, NoData, NotHere
<1>4. ASSUME NEW d \in Data PROVE NextData(d) \in Data
  <2> DEFINE a == d + 1
             n == MaxData + 1
  <2>1. a \in Int /\ n \in Nat \ {0} /\ MaxData \in Nat
    BY DataAssumption DEF Data
  <2>2. NextData(d) = a % n /\ n - 1 = MaxData
    BY <2>1 DEF NextData
  <2> HIDE DEF a
  <2>3. a % n \in 0 .. MaxData
    BY <2>1, <2>2
  <2> QED BY <2>2, <2>3 DEF Data
<1> QED BY <1>1, <1>4

\* load that misses.
LEMMA LoadsKeep ==
  ASSUME NEW l, NEW s, NEW t, NEW i \in L1s, LineInv(l, s), LineLoads(l, s, t, i)
  PROVE  LineInv(l, t)
<1> DEFINE x == Msg("GETS", REQ, i, LLC, l, i, NoData)
<1>x. /\ x.type = "GETS" /\ x.src = i /\ x.dst = LLC /\ x.arg = i /\ x.line = l /\ x.data \in Data
  BY MsgFacts, DataFacts
<1>m. \A y : y \in t.msgs <=> y \in s.msgs \/ y = x
  BY DEF LineLoads, AtL1
<1> HIDE DEF x
<1>w. "ITOS" \in MSHRStates
  BY DEF MSHRStates
<1>c. /\ t.cache \in [L1s -> [st : CacheStates, data : Data]] /\ t.mshr \in [L1s -> MSHREntry]
      /\ \A k \in L1s : t.cache[k] = s.cache[k]
      /\ \A k \in L1s \ {i} : t.mshr[k] = s.mshr[k]
      /\ t.mshr[i].st = "ITOS" /\ ~t.mshr[i].hasData /\ ~t.mshr[i].hasNeed /\ t.mshr[i].acks = 0
      /\ s.mshr[i].st = "-" /\ s.cache[i].st = "I"
      /\ t.entry = s.entry /\ t.owed = s.owed /\ t.blk = s.blk /\ t.mem = s.mem /\ t.golden = s.golden
  BY <1>w, WaitsFacts DEF LineLoads, AtL1, LineInv, LineTypes
<1>1. WellFormed(l, x) /\ Request(x)
  BY <1>x DEF WellFormed, Request, MessageTypes
<1>2. LineTypes(l, t) /\ OnePlace(t)
  <2>1. LineTypes(l, t)
    BY <1>c DEF LineInv, LineTypes
  <2>2. OnePlace(t)
    <3>1. OnePlace(s)
      BY DEF LineInv
    <3> QED BY <1>c, <3>1 DEF OnePlace
  <2> QED BY <2>1, <2>2
<1>3. Expected(x, t.mshr[i].st)
  BY <1>x, <1>c DEF Expected, Puts
<1>4. Granted(t, i) <=> Granted(s, i)
  BY <1>m, <1>x DEF Granted, Grant
<1>5. (Holds(t, i) <=> Holds(s, i)) /\ (Exclusive(t, i) => Exclusive(s, i))
  BY <1>4, <1>c DEF Holds, Exclusive, Evicts, Leaving
<1> QED
  BY <1>x, <1>m, <1>c, <1>1, <1>2, <1>3, <1>5, RequestSent

\* The MSHR entry of a store keeps the copy it upgrades.
LEMMA UpgradeFacts ==
  ASSUME NEW c \in [st : CacheStates, data : Data]
  PROVE  /\ Upgrade(c) \in MSHREntry
         /\ ~Upgrade(c).hasData /\ ~Upgrade(c).hasNeed /\ Upgrade(c).acks = 0
         /\ c.st \in {"I", "E", "M"} => Upgrade(c).st = "ITOM"
         /\ c.st = "S" => Upgrade(c).st = "STOM"
         /\ c.st = "O" => Upgrade(c).st = "OTOM"
         /\ c.st \in {"S", "O"} => Upgrade(c).data = c.data
<1>1. {"ITOM", "STOM", "OTOM"} \subseteq MSHRStates
  BY DEF MSHRStates
<1>2. CASE c.st = "S"
  <2> DEFINE e == Waits("STOM")
  <2>1. e \in MSHREntry /\ e.st = "STOM" /\ ~e.hasData /\ ~e.hasNeed /\ e.acks = 0
    BY <1>1, WaitsFacts
  <2>2. Upgrade(c) = [e EXCEPT !.data = c.data]
    BY <1>2 DEF Upgrade
  <2> HIDE DEF e
  <2> QED
    BY <2>1, <2>2, <1>2 DEF MSHREntry
<1>3. CASE c.st = "O"
  <2> DEFINE e == Waits("OTOM")
  <2>1. e \in MSHREntry /\ e.st = "OTOM" /\ ~e.hasData /\ ~e.hasNeed /\ e.acks = 0
    BY <1>1, WaitsFacts
  <2>2. Upgrade(c) = [e EXCEPT !.data = c.data]
    BY <1>3 DEF Upgrade
  <2> HIDE DEF e
  <2> QED
    BY <2>1, <2>2, <1>3 DEF MSHREntry
<1>4. CASE c.st \notin {"S", "O"}
  BY <1>1, <1>4, WaitsFacts DEF Upgrade
<1> QED BY <1>2, <1>3, <1>4

\* The line that is not there.
LEMMA AbsentFacts ==
  Absent \in [st : CacheStates, data : Data] /\ Absent.st = "I"
  BY DataAssumption DEF Absent, CacheStates, Data, NoData

\* store that must first ask.
LEMMA AsksToStoreKeeps ==
  ASSUME NEW l, NEW s, NEW t, NEW i \in L1s, LineInv(l, s), LineAsksToStore(l, s, t, i)
  PROVE  LineInv(l, t)
<1>p. PICK ch \in {RESP, REQ} :
        AtL1(s, t, i, Absent, Upgrade(s.cache[i]), {}, {Msg("GETM", ch, i, LLC, l, i, NoData)})
  BY DEF LineAsksToStore
<1> DEFINE x == Msg("GETM", ch, i, LLC, l, i, NoData)
<1>x. /\ x.type = "GETM" /\ x.src = i /\ x.dst = LLC /\ x.arg = i /\ x.line = l /\ x.data \in Data
  BY MsgFacts, DataFacts
<1>m. \A y : y \in t.msgs <=> y \in s.msgs \/ y = x
  BY <1>p DEF AtL1
<1>q. AtL1(s, t, i, Absent, Upgrade(s.cache[i]), {}, {x})
  BY <1>p
<1> HIDE DEF x
<1>a. s.cache \in [L1s -> [st : CacheStates, data : Data]] /\ s.mshr \in [L1s -> MSHREntry]
  BY DEF LineInv, LineTypes
<1>b. /\ t.cache = [s.cache EXCEPT ![i] = Absent]
      /\ t.mshr = [s.mshr EXCEPT ![i] = Upgrade(s.cache[i])]
      /\ s.mshr[i].st = "-" /\ s.cache[i].st \in {"I", "S", "O"}
      /\ t.entry = s.entry /\ t.owed = s.owed /\ t.blk = s.blk /\ t.mem = s.mem /\ t.golden = s.golden
  BY <1>a, <1>q DEF LineAsksToStore, AtL1, CacheStates
<1>c. /\ t.cache \in [L1s -> [st : CacheStates, data : Data]] /\ t.mshr \in [L1s -> MSHREntry]
      /\ \A k \in L1s \ {i} : t.mshr[k] = s.mshr[k] /\ t.cache[k] = s.cache[k]
      /\ t.cache[i].st = "I" /\ t.mshr[i] = Upgrade(s.cache[i])
      /\ ~t.mshr[i].hasData /\ ~t.mshr[i].hasNeed /\ t.mshr[i].acks = 0
  BY <1>a, <1>b, AbsentFacts, UpgradeFacts
<1>1. WellFormed(l, x) /\ Request(x)
  BY <1>x DEF WellFormed, Request, MessageTypes
<1>u. /\ t.mshr[i].st \in {"ITOM", "STOM", "OTOM"}
      /\ t.mshr[i].st = "ITOM" <=> s.cache[i].st = "I"
  BY <1>a, <1>b, <1>c, UpgradeFacts
<1>2. LineTypes(l, t) /\ OnePlace(t)
  BY <1>a, <1>b, <1>c, <1>u DEF LineInv, LineTypes, OnePlace
<1>3. Expected(x, t.mshr[i].st)
  BY <1>x, <1>u DEF Expected, Puts
<1>4. Granted(t, i) <=> Granted(s, i)
  BY <1>m, <1>x DEF Granted, Grant
<1>5. (Holds(t, i) <=> Holds(s, i)) /\ (Exclusive(t, i) => Exclusive(s, i))
  BY <1>4, <1>b, <1>c, <1>u DEF Holds, Exclusive, Evicts, Leaving
<1> QED
  BY <1>x, <1>m, <1>b, <1>c, <1>1, <1>2, <1>3, <1>5, RequestSent

\* The MSHR entry of an eviction keeps the line, and the PUT says in what state it was.
LEMMA EvictingFacts ==
  ASSUME NEW c \in [st : CacheStates, data : Data], c.st # "I"
  PROVE  /\ Evicting(c) \in MSHREntry
         /\ ~Evicting(c).hasData /\ ~Evicting(c).hasNeed /\ Evicting(c).acks = 0
         /\ Evicting(c).data = c.data
         /\ c.st = "E" => Evicting(c).st = "ETOI" /\ PutType[c.st] = "PUTE"
         /\ c.st = "M" => Evicting(c).st = "MTOI" /\ PutType[c.st] = "PUTM"
         /\ c.st = "S" => Evicting(c).st = "STOI" /\ PutType[c.st] = "PUTS"
         /\ c.st = "O" => Evicting(c).st = "OTOI" /\ PutType[c.st] = "PUTO"
<1>1. {"ETOI", "MTOI", "STOI", "OTOI"} \subseteq MSHRStates
  BY DEF MSHRStates
<1> DEFINE v == EvictState[c.st]
<1>2. /\ c.st = "E" => v = "ETOI" /\ PutType[c.st] = "PUTE"
      /\ c.st = "M" => v = "MTOI" /\ PutType[c.st] = "PUTM"
      /\ c.st = "S" => v = "STOI" /\ PutType[c.st] = "PUTS"
      /\ c.st = "O" => v = "OTOI" /\ PutType[c.st] = "PUTO"
  BY DEF EvictState, PutType
<1>3. v \in {"ETOI", "MTOI", "STOI", "OTOI"}
  BY <1>2 DEF CacheStates
<1> DEFINE e == Waits(v)
<1>4. Evicting(c) = [e EXCEPT !.data = c.data]
  BY DEF Evicting
<1>5. e \in MSHREntry /\ e.st = v /\ ~e.hasData /\ ~e.hasNeed /\ e.acks = 0
  BY <1>1, <1>3, WaitsFacts
<1> HIDE DEF e, v
<1> QED
  BY <1>2, <1>3, <1>4, <1>5 DEF MSHREntry

\* A line leaves the cache for an MSHR (handle_new_line_nolock).
LEMMA EvictedKeeps ==
  ASSUME NEW l, NEW s, NEW t, NEW i \in L1s, LineInv(l, s), LineEvicted(l, s, t, i)
  PROVE  LineInv(l, t)
<1> DEFINE c == s.cache[i]
           x == Msg(PutType[c.st], REQ, i, LLC, l, i, IF c.st \in {"M", "O"} THEN c.data ELSE NoData)
<1>x. /\ x.type = PutType[c.st] /\ x.src = i /\ x.dst = LLC /\ x.arg = i /\ x.line = l
      /\ x.data = IF c.st \in {"M", "O"} THEN c.data ELSE NoData
  BY MsgFacts
<1>m. \A y : y \in t.msgs <=> y \in s.msgs \/ y = x
  BY DEF LineEvicted, AtL1
<1> HIDE DEF x
<1>a. s.cache \in [L1s -> [st : CacheStates, data : Data]] /\ s.mshr \in [L1s -> MSHREntry]
  BY DEF LineInv, LineTypes
<1>b. /\ t.cache = [s.cache EXCEPT ![i] = Absent]
      /\ t.mshr = [s.mshr EXCEPT ![i] = Evicting(c)]
      /\ s.mshr[i].st = "-" /\ c.st \in {"E", "M", "S", "O"}
      /\ t.entry = s.entry /\ t.owed = s.owed /\ t.blk = s.blk /\ t.mem = s.mem /\ t.golden = s.golden
  BY <1>a DEF LineEvicted, AtL1, CacheStates, LineInv, OnePlace
<1>e. /\ Evicting(c) \in MSHREntry
      /\ ~Evicting(c).hasData /\ ~Evicting(c).hasNeed /\ Evicting(c).acks = 0
      /\ c.st = "E" => Evicting(c).st = "ETOI" /\ PutType[c.st] = "PUTE"
      /\ c.st = "M" => Evicting(c).st = "MTOI" /\ PutType[c.st] = "PUTM"
      /\ c.st = "S" => Evicting(c).st = "STOI" /\ PutType[c.st] = "PUTS"
      /\ c.st = "O" => Evicting(c).st = "OTOI" /\ PutType[c.st] = "PUTO"
  BY <1>a, <1>b, EvictingFacts
<1>c. /\ t.cache \in [L1s -> [st : CacheStates, data : Data]] /\ t.mshr \in [L1s -> MSHREntry]
      /\ \A k \in L1s \ {i} : t.mshr[k] = s.mshr[k] /\ t.cache[k] = s.cache[k]
      /\ t.cache[i].st = "I" /\ t.mshr[i] = Evicting(c)
      /\ ~t.mshr[i].hasData /\ ~t.mshr[i].hasNeed /\ t.mshr[i].acks = 0
  BY <1>a, <1>b, <1>e, AbsentFacts
<1>d. x.data \in Data
  BY <1>x, <1>a, DataFacts
<1>1. WellFormed(l, x) /\ Request(x) /\ x.type \in Puts
  BY <1>x, <1>b, <1>d, <1>e DEF WellFormed, Request, MessageTypes, Puts
<1>2. LineTypes(l, t) /\ OnePlace(t)
  BY <1>a, <1>b, <1>c, <1>e DEF LineInv, LineTypes, OnePlace
<1>3. Expected(x, t.mshr[i].st)
  BY <1>1, <1>b, <1>c, <1>e DEF Expected, Puts, Leaving
<1>4. Granted(t, i) <=> Granted(s, i)
  BY <1>m, <1>1 DEF Granted, Grant, Puts
<1>5. Asks(t, i)
  BY <1>1, <1>m, <1>x DEF Asks
<1>6. (Holds(t, i) <=> Holds(s, i)) /\ (Exclusive(t, i) => Exclusive(s, i))
  BY <1>4, <1>5, <1>b, <1>c, <1>e DEF Holds, Exclusive, Evicts, Leaving
<1> QED
  BY <1>x, <1>m, <1>b, <1>c, <1>1, <1>2, <1>3, <1>6, RequestSent

\* store that hits.
LEMMA StoresKeep ==
  ASSUME NEW l, NEW s, NEW t, NEW i \in L1s, LineInv(l, s), LineStores(l, s, t, i)
  PROVE  LineInv(l, t)
<1>a. s.cache \in [L1s -> [st : CacheStates, data : Data]] /\ s.mshr \in [L1s -> MSHREntry]
  BY DEF LineInv, LineTypes
<1>b. /\ t.cache = [s.cache EXCEPT ![i] = [st |-> "M", data |-> t.golden]]
      /\ t.mshr = s.mshr /\ t.msgs = s.msgs /\ t.entry = s.entry /\ t.owed = s.owed
      /\ t.blk = s.blk /\ t.mem = s.mem /\ t.golden \in Data
      /\ s.cache[i].st \in {"E", "M"}
  BY <1>a, DataFacts DEF LineStores, AtL1, LineInv, LineTypes
<1>c. /\ t.cache \in [L1s -> [st : CacheStates, data : Data]]
      /\ \A k \in L1s \ {i} : t.cache[k] = s.cache[k]
      /\ t.cache[i].st = "M"
  BY <1>a, <1>b DEF CacheStates
<1>h. \A k \in L1s : (Holds(t, k) <=> Holds(s, k)) /\ (Exclusive(t, k) <=> Exclusive(s, k))
  BY <1>b, <1>c DEF Holds, Exclusive, Evicts, Granted, Asks
<1>1. LineTypes(l, t) /\ WellFormedMsgs(l, t) /\ OnePlace(t)
  BY <1>b, <1>c DEF LineInv, LineTypes, WellFormedMsgs, OnePlace
<1>2. /\ Distinct(t) /\ OneRequest(t) /\ Clients(t) /\ AskedFirst(t) /\ NothingCollected(t)
      /\ OwingNotGranted(t)
  BY <1>b DEF LineInv, Distinct, OneRequest, Clients, AskedFirst, NothingCollected,
              OwingNotGranted, Asks, Granted
<1>3. /\ OneRequester(t) /\ TokenAlone(t) /\ OneCarrier(t) /\ OwingOwed(t)
  BY <1>b DEF LineInv, OneRequester, TokenAlone, OneCarrier, OwingOwed
<1>4. Collected(t) /\ Counted(t)
  BY <1>b DEF LineInv, Collected, Counted, Engaged, Unacknowledged
<1>5. HoldersKnown(t) /\ KnownHold(t) /\ OwnerKnown(t) /\ OneWriter(t)
  BY <1>b, <1>h DEF LineInv, LineTypes, HoldersKnown, KnownHold, OwnerKnown, OneWriter, Dismissed, Served,
              Engaged, Asks
<1>s. \A m \in s.msgs : WellFormed(l, m)
  BY About
<1>6. InvalidSound(t) /\ AckSound(t) /\ GetMSound(t)
  BY <1>b, <1>h, <1>s DEF LineInv, InvalidSound, AckSound, GetMSound, WellFormed
<1>7. GetSSound(t) /\ RespSound(t) /\ OwnerToBe(t) /\ MemorySound(t)
  BY <1>b, <1>h, <1>s DEF LineInv, GetSSound, RespSound, OwnerToBe, MemorySound, WellFormed
<1> QED
  BY <1>1, <1>2, <1>3, <1>4, <1>5, <1>6, <1>7 DEF LineInv

\* The last message of a transaction arrives: the L1 takes the line in and sends GET_ACK.
LEMMA Completes ==
  ASSUME NEW l, NEW s, NEW t, LineInv(l, s), NEW i \in L1s, NEW m \in s.msgs, NEW x,
         Owing(m), Requester(m) = i,
         m.type \notin {"GET_ACK", "GETS_FORWARD", "GETM_FORWARD", "INVALID"},
         \A n \in s.msgs : Owing(n) => n = m,
         WellFormed(l, x), x.type = "GET_ACK", x.src = i,
         \A y : y \in t.msgs <=> (y \in s.msgs /\ y # m) \/ y = x,
         LineTypes(l, t), t.entry = s.entry, t.owed = s.owed,
         \A k \in L1s \ {i} : t.cache[k] = s.cache[k] /\ t.mshr[k] = s.mshr[k],
         t.mshr[i] = NoMSHR, t.cache[i].st \in {"S", "E", "M"},
         i \in s.entry.exists, \A k \in L1s \ {i} : ~Exclusive(s, k),
         t.cache[i].st # "S" => \A k \in L1s \ {i} : ~Holds(s, k)
  PROVE  LineInv(l, t)
<1>n. /\ NoMSHR.st = "-" /\ ~NoMSHR.hasData /\ ~NoMSHR.hasNeed /\ NoMSHR.acks = 0
      /\ ~Collecting(NoMSHR)
  BY DEF NoMSHR, Collecting
<1>x. /\ Owing(x) /\ ~Carrying(x) /\ ~Grant(x) /\ ~Request(x) /\ ~FromMemory(x)
      /\ Client(x) = i /\ Requester(x) = i /\ x.dst = LLC
      /\ x.type \notin {"GETM_ACK", "INVALID", "INVALID_ACK", "GETM_FORWARD", "GETS_FORWARD", "GETS_RESP", "GETM_RESP"}
  BY L1Facts DEF Owing, Request, Carrying, Grant, FromMemory, Client, Requester, WellFormed
<1>s. \A n \in s.msgs : /\ WellFormed(l, n) /\ Client(n) \in L1s
                        /\ Owing(n) => Requester(n) = Client(n) /\ ~Request(n)
                        /\ Grant(n) => ~Request(n) /\ ~Owing(n) /\ Client(n) = n.dst
                        /\ n.type # "GET_ACK" => s.mshr[Client(n)].st # "-"
                        /\ Carrying(n) => Owing(n)
                        /\ Token(n) => Owing(n)
  BY About
<1>m. Client(m) = i /\ ~Grant(m) /\ ~Request(m) /\ s.owed
  BY <1>s DEF LineInv, OwingOwed
<1>i. ~Asks(s, i) /\ ~Granted(s, i)
  BY <1>m DEF LineInv, AskedFirst, OwingNotGranted
<1>a. \A k \in L1s : Asks(t, k) <=> Asks(s, k)
  BY <1>m, <1>x DEF Asks
<1>b. \A k \in L1s : Granted(t, k) <=> Granted(s, k)
  BY <1>m, <1>x DEF Granted
<1>h. \A k \in L1s \ {i} : (Holds(t, k) <=> Holds(s, k)) /\ (Exclusive(t, k) <=> Exclusive(s, k))
  BY <1>a, <1>b DEF Holds, Exclusive, Evicts
<1>o. \A y \in t.msgs : Owing(y) => y = x
  BY <1>x
<1>c. \A k \in L1s : ~t.mshr[k].hasData /\ ~t.mshr[k].hasNeed /\ t.mshr[k].acks = 0
  <2>1. \A k \in L1s \ {i} : ~Engaged(s, k)
    BY DEF Engaged
  <2> QED BY <2>1, <1>n DEF LineInv, Collected
<1>e. Expected(m, s.mshr[i].st)
  BY <1>m DEF LineInv, Clients
<1>d. \A y \in s.msgs : y # m => Client(y) # i
  <2> SUFFICES ASSUME NEW y \in s.msgs, y # m, Client(y) = i PROVE FALSE
    OBVIOUS
  <2>1. ~Owing(y)
    OBVIOUS
  <2>2. ~Request(y)
    BY <1>i DEF Asks, Client
  <2>3. ~Grant(y)
    BY <1>i, <1>s DEF Granted
  <2>4. y.type = "PUT_ACK"
    BY <2>1, <2>2, <2>3, <1>s DEF WellFormed, MessageTypes, Owing, Grant, Request
  <2>5. s.mshr[i].st \in Leaving
    BY <2>4 DEF LineInv, Clients, Expected
  <2>6. s.mshr[i].st \in {"ITOS", "ITOM", "STOM", "OTOM"}
    BY <1>e, <1>m DEF Expected, Owing
  <2> QED BY <2>5, <2>6 DEF Leaving
<1>1. WellFormedMsgs(l, t) /\ OnePlace(t) /\ Distinct(t) /\ OneRequest(t)
  <2>1. WellFormedMsgs(l, t) /\ OnePlace(t)
    BY <1>n DEF WellFormedMsgs, OnePlace, LineInv
  <2>2. Distinct(t) /\ OneRequest(t)
    BY <1>x, <1>o DEF Distinct, OneRequest, LineInv, Owing
  <2> QED BY <2>1, <2>2
<1>2. Clients(t)
  BY <1>s, <1>x, <1>d DEF Clients, LineInv, Expected, Puts
<1>3. AskedFirst(t) /\ NothingCollected(t) /\ OwingNotGranted(t)
  <2>1. AskedFirst(t) /\ OwingNotGranted(t)
    BY <1>x, <1>a, <1>b, <1>i, <1>s, <1>o DEF AskedFirst, OwingNotGranted, LineInv
  <2>2. NothingCollected(t)
    BY <1>x, <1>s, <1>d DEF NothingCollected, LineInv, Client
  <2> QED BY <2>1, <2>2
<1>4. OneRequester(t) /\ TokenAlone(t) /\ OwingOwed(t) /\ OneCarrier(t)
  BY <1>o, <1>m, <1>x, <1>s DEF OneRequester, TokenAlone, OwingOwed, OneCarrier
<1>5. Collected(t) /\ Counted(t)
  <2>1. \A y \in t.msgs : y.type # "GETM_ACK"
    BY <1>o, <1>x DEF Owing
  <2>2. Counted(t)
    BY <2>1, <1>c DEF Counted
  <2>3. Collected(t)
    BY <1>c DEF Collected
  <2> QED BY <2>2, <2>3
<1>6. HoldersKnown(t)
  <2>1. \A k \in L1s : ~Dismissed(s, k)
    BY DEF Dismissed, Owing
  <2> QED BY <2>1, <1>h DEF HoldersKnown, LineInv
<1>7. KnownHold(t) /\ OwnerKnown(t)
  <2>1. \A k \in L1s \ {i} : ~Served(s, k)
    BY DEF Served, Engaged
  <2>2. Holds(t, i)
    BY DEF Holds
  <2> QED BY <2>1, <2>2, <1>h DEF KnownHold, OwnerKnown, LineInv, LineTypes
<1>8. OneWriter(t)
  <2>1. Exclusive(t, i) => t.cache[i].st # "S"
    BY <1>n, <1>i, <1>b DEF Exclusive, Evicts
  <2> QED BY <2>1, <1>h DEF OneWriter
<1>9. InvalidSound(t) /\ AckSound(t) /\ GetMSound(t) /\ GetSSound(t) /\ RespSound(t)
  BY <1>o, <1>x DEF InvalidSound, AckSound, GetMSound, GetSSound, RespSound, Owing
<1>10. OwnerToBe(t) /\ MemorySound(t)
  <2>1. \A y \in t.msgs : ~FromMemory(y)
    BY <1>o, <1>x, <1>s, L1Facts DEF FromMemory, Owing, WellFormed, MessageTypes, Request
  <2> QED BY <2>1, <1>o, <1>x DEF OwnerToBe, MemorySound
<1> QED BY <1>1, <1>2, <1>3, <1>4, <1>5, <1>6, <1>7, <1>8, <1>9, <1>10 DEF LineInv

\* GET_ACK has the form it must have.
LEMMA GetAckFacts ==
  ASSUME NEW i \in L1s, NEW l
  PROVE  WellFormed(l, GetAck(i, l)) /\ GetAck(i, l).type = "GET_ACK" /\ GetAck(i, l).src = i
<1> DEFINE x == GetAck(i, l)
<1>1. /\ x.type = "GET_ACK" /\ x.src = i /\ x.dst = LLC /\ x.arg = i /\ x.line = l /\ x.data \in Data
  BY MsgFacts, DataFacts DEF GetAck
<1> HIDE DEF x
<1>2. WellFormed(l, x)
  BY <1>1 DEF WellFormed, Request, MessageTypes
<1> QED BY <1>1, <1>2 DEF x

\* The same, for the step in which the line enters the cache.
LEMMA EntersKeep ==
  ASSUME NEW l, NEW s, NEW t, LineInv(l, s), NEW i \in L1s, NEW m \in s.msgs,
         NEW st \in {"S", "E", "M"}, NEW d \in Data,
         LineEnters(s, t, i, m, st, d, {GetAck(i, l)}),
         Owing(m), Requester(m) = i,
         m.type \notin {"GET_ACK", "GETS_FORWARD", "GETM_FORWARD", "INVALID"},
         \A n \in s.msgs : Owing(n) => n = m,
         i \in s.entry.exists, \A k \in L1s \ {i} : ~Exclusive(s, k),
         st # "S" => \A k \in L1s \ {i} : ~Holds(s, k)
  PROVE  LineInv(l, t)
<1> DEFINE x == GetAck(i, l)
<1>1. WellFormed(l, x) /\ x.type = "GET_ACK" /\ x.src = i
  BY GetAckFacts
<1> HIDE DEF x
<1>2. /\ t.cache = [s.cache EXCEPT ![i] = [st |-> st, data |-> d]]
      /\ t.mshr = [s.mshr EXCEPT ![i] = NoMSHR]
      /\ t.msgs = (s.msgs \ {m}) \cup {x}
      /\ t.entry = s.entry /\ t.owed = s.owed /\ t.blk = s.blk /\ t.mem = s.mem
      /\ t.golden = s.golden
  BY DEF LineEnters, LineHandles, AtL1, x
<1>3. s.cache \in [L1s -> [st : CacheStates, data : Data]] /\ s.mshr \in [L1s -> MSHREntry]
  BY DEF LineInv, LineTypes
<1>4. NoMSHR \in MSHREntry
  BY DataFacts DEF NoMSHR, MSHREntry, MSHRStates
<1>5. /\ t.cache \in [L1s -> [st : CacheStates, data : Data]] /\ t.mshr \in [L1s -> MSHREntry]
      /\ t.mshr[i] = NoMSHR /\ t.cache[i].st = st
      /\ \A k \in L1s \ {i} : t.cache[k] = s.cache[k] /\ t.mshr[k] = s.mshr[k]
  BY <1>2, <1>3, <1>4 DEF CacheStates
<1>6. LineTypes(l, t)
  BY <1>2, <1>5 DEF LineInv, LineTypes
<1>7. \A y : y \in t.msgs <=> (y \in s.msgs /\ y # m) \/ y = x
  BY <1>2
<1> QED
  BY <1>1, <1>2, <1>5, <1>6, <1>7, Completes

\* The sets of caches are finite.
LEMMA L1sFinite == IsFiniteSet(L1s) /\ \A S \in SUBSET L1s : IsFiniteSet(S) /\ Cardinality(S) \in Nat
<1>1. IsFiniteSet(L1s)
  BY NumL1Assumption, FS_Interval DEF L1s
<1>2. ASSUME NEW S \in SUBSET L1s PROVE IsFiniteSet(S) /\ Cardinality(S) \in Nat
  BY <1>1, FS_Subset, FS_CardinalityType
<1> QED BY <1>1, <1>2

\* GETS_RESP from another L1.
LEMMA GetSRespKeeps ==
  ASSUME NEW l, NEW s, NEW t, LineInv(l, s), NEW i \in L1s, NEW m \in s.msgs,
         LineGetSResp(l, s, t, i, m), m.arg > 0
  PROVE  LineInv(l, t)
<1>1. LineEnters(s, t, i, m, "S", m.data, {GetAck(i, l)}) /\ m.type = "GETS_RESP" /\ m.dst = i
  BY DEF LineGetSResp, LineEnters, LineHandles
<1>2. WellFormed(l, m)
  BY About
<1>3. m.src # LLC /\ m.data \in Data
  BY <1>1, <1>2 DEF WellFormed
<1>4. Owing(m) /\ Token(m) /\ Requester(m) = i
  BY <1>1, <1>3 DEF Owing, Token, Requester
<1>5. \A n \in s.msgs : Owing(n) => n = m
  BY <1>4 DEF LineInv, TokenAlone
<1>6. i \in s.entry.exists /\ \A k \in L1s : ~Exclusive(s, k)
  BY <1>1, <1>3 DEF LineInv, RespSound
<1> QED
  BY <1>1, <1>3, <1>4, <1>5, <1>6, EntersKeep

\* The only copy is a copy.
LEMMA ExclusiveHolds ==
  ASSUME NEW s, NEW k, Exclusive(s, k)
  PROVE  Holds(s, k)
  BY DEF Exclusive, Holds, Evicts, Leaving

\* GET_RESP_MEM.
LEMMA GetRespMemKeeps ==
  ASSUME NEW l, NEW s, NEW t, LineInv(l, s), NEW i \in L1s, NEW m \in s.msgs,
         LineGetRespMem(l, s, t, i, m)
  PROVE  LineInv(l, t)
<1> DEFINE st == IF s.mshr[i].st = "ITOM" THEN "M" ELSE "E"
<1>1. /\ LineEnters(s, t, i, m, st, m.data, {GetAck(i, l)})
      /\ m.type = "GET_RESP_MEM" /\ m.dst = i /\ st \in {"S", "E", "M"}
  BY DEF LineGetRespMem, LineEnters, LineHandles
<1> HIDE DEF st
<1>2. m.data \in Data
  BY About DEF WellFormed
<1>4. Owing(m) /\ Token(m) /\ Requester(m) = i
  BY <1>1 DEF Owing, Token, Requester
<1>5. \A n \in s.msgs : Owing(n) => n = m
  BY <1>4 DEF LineInv, TokenAlone
<1>6. i \in s.entry.exists /\ \A k \in L1s : ~Holds(s, k)
  BY <1>1, <1>4 DEF LineInv, MemorySound, FromMemory
<1>7. \A k \in L1s : ~Exclusive(s, k)
  BY <1>6, ExclusiveHolds
<1> QED
  BY <1>1, <1>2, <1>4, <1>5, <1>6, <1>7, EntersKeep

\* The last answer to a GETM, whichever message brings it.
LEMMA LastAnswer ==
  ASSUME NEW l, NEW s, NEW t, LineInv(l, s), NEW i \in L1s, NEW m \in s.msgs,
         m.type \in {"INVALID_ACK", "GETM_ACK", "GETM_RESP"}, Owing(m), Requester(m) = i,
         NEW d \in Data, LineEnters(s, t, i, m, "M", d, {GetAck(i, l)}),
         \A n \in s.msgs : n.type \in {"INVALID", "INVALID_ACK", "GETM_ACK"} => n = m,
         \A n \in s.msgs : Carrying(n) => n = m
  PROVE  LineInv(l, t)
<1>1. \A n \in s.msgs : Owing(n) => n = m
  <2> SUFFICES ASSUME NEW n \in s.msgs, Owing(n), n # m PROVE FALSE
    OBVIOUS
  <2>1. ~Token(n)
    BY DEF LineInv, TokenAlone
  <2>2. ~Carrying(n) /\ n.type \notin {"INVALID", "INVALID_ACK", "GETM_ACK"}
    OBVIOUS
  <2>3. WellFormed(l, n)
    BY About
  <2> QED BY <2>1, <2>2, <2>3 DEF Owing, Token, Carrying, WellFormed, MessageTypes
<1>2. s.entry.exists = {i}
  BY DEF LineInv, OwnerToBe
<1>3. \A k \in L1s : ~Dismissed(s, k)
  BY <1>1 DEF Dismissed, Owing
<1>4. \A k \in L1s \ {i} : ~Holds(s, k)
  BY <1>2, <1>3 DEF LineInv, HoldersKnown
<1>5. \A k \in L1s \ {i} : ~Exclusive(s, k)
  BY <1>4, ExclusiveHolds
<1> QED
  BY <1>1, <1>2, <1>4, <1>5, EntersKeep

\* Counting down to the last acknowledgement.
LEMMA NoneLeft ==
  ASSUME NEW S \in SUBSET L1s
  PROVE  /\ Cardinality(S) = 0 => S = {}
         /\ \A k \in S : Cardinality(S \ {k}) = Cardinality(S) - 1
         /\ \A k \in S : Cardinality(S) = 1 => S = {k}
<1>1. IsFiniteSet(S) /\ Cardinality(S) \in Nat
  BY L1sFinite
<1>2. Cardinality(S) = 0 => S = {}
  BY <1>1, FS_EmptySet
<1>3. \A k \in S : Cardinality(S \ {k}) = Cardinality(S) - 1
  BY <1>1, FS_RemoveElement
<1>4. ASSUME NEW k \in S, Cardinality(S) = 1 PROVE S = {k}
  <2>1. Cardinality(S \ {k}) = 0 /\ IsFiniteSet(S \ {k})
    BY <1>1, <1>3, <1>4, FS_Subset
  <2>2. S \ {k} = {}
    BY <2>1, FS_EmptySet
  <2> QED BY <2>2
<1> QED BY <1>2, <1>3, <1>4

\* A cache is asked once to give the line up, and acknowledges once.
LEMMA AwaitedFacts ==
  ASSUME NEW l, NEW s, LineInv(l, s)
  PROVE  /\ Unacknowledged(s) \in SUBSET L1s
         /\ \A m \in s.msgs : m.type = "INVALID" => m.dst \in Unacknowledged(s)
         /\ \A m \in s.msgs : m.type = "INVALID_ACK" => m.src \in Unacknowledged(s)
         /\ \A m, n \in s.msgs : m.type = "INVALID_ACK" /\ n.type = "INVALID" => n.dst # m.src
         /\ \A m, n \in s.msgs :
              m.type = "INVALID_ACK" /\ n.type = "INVALID_ACK" /\ m.src = n.src => m = n
<1>1. \A m \in s.msgs :
        /\ m.type = "INVALID" => m.dst \in L1s
        /\ m.type = "INVALID_ACK" => m.src \in L1s /\ Requester(m) = m.dst /\ Owing(m)
  BY About DEF Requester, Owing
<1>2. \A m, n \in s.msgs :
        m.type = "INVALID_ACK" /\ n.type = "INVALID_ACK" /\ m.src = n.src => m = n
  <2> SUFFICES ASSUME NEW m \in s.msgs, NEW n \in s.msgs,
                      m.type = "INVALID_ACK", n.type = "INVALID_ACK", m.src = n.src
               PROVE  m = n
    OBVIOUS
  <2>1. m.dst = n.dst
    BY <1>1 DEF LineInv, OneRequester
  <2> QED BY <2>1 DEF LineInv, Distinct
<1>3. \A m, n \in s.msgs : m.type = "INVALID_ACK" /\ n.type = "INVALID" => n.dst # m.src
  BY <1>1 DEF LineInv, InvalidSound, AckSound
<1> QED BY <1>1, <1>2, <1>3 DEF Unacknowledged

\* An answer that is not the last is noted in the MSHR entry.
LEMMA Collects ==
  ASSUME NEW l, NEW s, NEW t, LineInv(l, s), NEW i \in L1s, NEW m \in s.msgs,
         m.type \in {"INVALID_ACK", "GETM_ACK", "GETM_RESP"}, Owing(m), Requester(m) = i,
         \A y : y \in t.msgs <=> y \in s.msgs /\ y # m,
         t.cache = s.cache, t.entry = s.entry, t.owed = s.owed, LineTypes(l, t), Counted(t),
         \A k \in L1s \ {i} : t.mshr[k] = s.mshr[k],
         t.mshr[i].st = s.mshr[i].st,
         t.mshr[i].hasData => s.mshr[i].hasData \/ m.type = "GETM_RESP"
  PROVE  LineInv(l, t)
<1>s. \A n \in s.msgs : /\ WellFormed(l, n) /\ Client(n) \in L1s
                        /\ Owing(n) => Requester(n) = Client(n) /\ ~Request(n)
                        /\ Grant(n) => ~Request(n) /\ ~Owing(n) /\ Client(n) = n.dst
                        /\ Carrying(n) => Owing(n)
                        /\ Token(n) => Owing(n)
                        /\ n.type \in {"INVALID", "GETS_RESP", "GETM_ACK"} => n.dst \in L1s
                        /\ n.type \in {"GETS_FORWARD", "GETM_FORWARD"} => n.dst \in L1s \cup {MEM}
                        /\ n.type = "INVALID_ACK" => n.src \in L1s
  BY About
<1>m. Client(m) = i /\ ~Grant(m) /\ ~Request(m) /\ s.owed
  BY <1>s DEF LineInv, OwingOwed
<1>e. /\ s.mshr[i].st \in {"ITOM", "STOM", "OTOM"}
      /\ m.type = "GETM_RESP" => s.mshr[i].st = "ITOM"
  BY <1>m DEF LineInv, Clients, Expected
<1>i. ~Asks(s, i) /\ ~Granted(s, i)
  BY <1>m DEF LineInv, AskedFirst, OwingNotGranted
<1>a. \A k \in L1s : Asks(t, k) <=> Asks(s, k)
  BY <1>m DEF Asks
<1>b. \A k \in L1s : Granted(t, k) <=> Granted(s, k)
  BY <1>m DEF Granted
<1>st. \A k \in L1s : t.mshr[k].st = s.mshr[k].st
  OBVIOUS
<1>h. \A k \in L1s : (Holds(t, k) <=> Holds(s, k)) /\ (Exclusive(t, k) <=> Exclusive(s, k))
  BY <1>a, <1>b, <1>st DEF Holds, Exclusive, Evicts
<1>g. \A k \in L1s : Engaged(s, k) => Engaged(t, k)
  BY DEF Engaged
<1>gi. Engaged(t, i)
  <2>1. \A y \in t.msgs : Owing(y) => Requester(y) = i
    BY DEF LineInv, OneRequester
  <2>2. \A y \in t.msgs : Owing(y) => y.type # "GET_ACK"
    BY DEF LineInv, TokenAlone, Token
  <2> QED BY <2>1, <2>2, <1>m DEF Engaged
<1>1. WellFormedMsgs(l, t) /\ OnePlace(t) /\ Distinct(t) /\ OneRequest(t)
  <2>1. s.mshr[i].st # "-" /\ \A k \in L1s : t.mshr[k].st = "-" => t.mshr[k] = s.mshr[k]
    BY <1>e
  <2>2. OnePlace(t)
    BY <2>1, <1>st DEF OnePlace, LineInv
  <2>3. WellFormedMsgs(l, t) /\ Distinct(t) /\ OneRequest(t)
    BY DEF WellFormedMsgs, Distinct, OneRequest, LineInv
  <2> QED BY <2>2, <2>3
<1>2. Clients(t)
  BY <1>s, <1>st DEF Clients, LineInv
<1>3. AskedFirst(t) /\ NothingCollected(t) /\ OwingNotGranted(t)
  <2>1. AskedFirst(t) /\ OwingNotGranted(t)
    BY <1>a, <1>b, <1>s DEF AskedFirst, OwingNotGranted, LineInv
  <2>2. \A y \in s.msgs : Request(y) => y.src \in L1s \ {i}
    BY <1>i, <1>s DEF Asks, Client
  <2>3. NothingCollected(t)
    BY <2>2 DEF NothingCollected, LineInv
  <2> QED BY <2>1, <2>3
<1>4. OneRequester(t) /\ TokenAlone(t) /\ OwingOwed(t)
  BY DEF OneRequester, TokenAlone, OwingOwed, LineInv
<1>5. OneCarrier(t)
  <2>1. m.type = "GETM_RESP" => Carrying(m)
    BY DEF Owing, Carrying
  <2>2. \A y \in t.msgs : Carrying(y) => m.type # "GETM_RESP" /\ ~s.mshr[Requester(y)].hasData
    BY <2>1 DEF LineInv, OneCarrier
  <2>3. \A y \in t.msgs : Carrying(y) => Requester(y) \in L1s
    BY <1>s
  <2> QED BY <2>2, <2>3 DEF OneCarrier, LineInv
<1>6. Collected(t)
  BY <1>e, <1>g, <1>gi, <1>st DEF Collected, LineInv, Collecting
<1>7. HoldersKnown(t) /\ KnownHold(t)
  <2>1. \A k \in L1s : (Dismissed(s, k) => Dismissed(t, k)) /\ (Served(s, k) => Served(t, k))
    BY <1>st, <1>a, <1>g DEF Dismissed, Served
  <2> QED BY <2>1, <1>h DEF HoldersKnown, KnownHold, LineInv, LineTypes
<1>8. OwnerKnown(t) /\ OneWriter(t)
  BY <1>h DEF OneWriter, OwnerKnown, LineInv
<1>9. InvalidSound(t) /\ AckSound(t)
  BY <1>h, <1>s DEF InvalidSound, AckSound, LineInv
<1>10. GetMSound(t) /\ GetSSound(t) /\ RespSound(t)
  <2>1. GetMSound(t)
    BY <1>h, <1>s DEF GetMSound, LineInv
  <2>2. GetSSound(t)
    BY <1>h, <1>s DEF GetSSound, LineInv
  <2>3. RespSound(t)
    BY <1>h, <1>s DEF RespSound, LineInv
  <2> QED BY <2>1, <2>2, <2>3
<1>11. OwnerToBe(t) /\ MemorySound(t)
  BY <1>h DEF OwnerToBe, MemorySound, LineInv
<1> QED BY <1>1, <1>2, <1>3, <1>4, <1>5, <1>6, <1>7, <1>8, <1>9, <1>10, <1>11 DEF LineInv

\* The types of an MSHR entry.
LEMMA EntryFacts ==
  ASSUME NEW l, NEW s, LineInv(l, s), NEW i \in L1s
  PROVE  /\ s.mshr[i] \in MSHREntry /\ s.mshr[i].data \in Data
         /\ s.mshr[i].need \in Nat /\ s.mshr[i].acks \in Nat
         /\ s.mshr[i].hasData \in BOOLEAN /\ s.mshr[i].hasNeed \in BOOLEAN
         /\ s.mshr[i].st \in MSHRStates
<1>1. s.mshr[i] \in MSHREntry
  BY DEF LineInv, LineTypes
<1> QED BY <1>1 DEF MSHREntry

\* An L1 that has its data waits for no other.
LEMMA NoCarrierLeft ==
  ASSUME NEW l, NEW s, LineInv(l, s), NEW i \in L1s, HasLineData(s.mshr[i]),
         NEW m \in s.msgs, Owing(m), Requester(m) = i
  PROVE  \A n \in s.msgs : ~Carrying(n)
<1> SUFFICES ASSUME NEW n \in s.msgs, Carrying(n) PROVE FALSE
  OBVIOUS
<1>1. Owing(n) /\ Client(n) = Requester(n)
  BY About
<1>2. Requester(n) = i
  BY <1>1 DEF LineInv, OneRequester
<1>3. s.mshr[i].st = "ITOM"
  BY <1>1, <1>2 DEF LineInv, Clients, Expected, Carrying
<1>4. ~s.mshr[i].hasData
  BY <1>2 DEF LineInv, OneCarrier
<1> QED BY <1>3, <1>4 DEF HasLineData

\* INVALID_ACK, the last or not.
LEMMA InvalidAckKeeps ==
  ASSUME NEW l, NEW s, NEW t, LineInv(l, s), NEW i \in L1s, NEW m \in s.msgs,
         LineInvalidAck(l, s, t, i, m)
  PROVE  LineInv(l, t)
<1> DEFINE e == s.mshr[i]
           U == Unacknowledged(s)
<1>1. m.type = "INVALID_ACK" /\ m.dst = i /\ Owing(m) /\ Requester(m) = i /\ Client(m) = i
  BY DEF LineInvalidAck, LineEnters, LineHandles, Owing, Requester, Client, Request
<1>2. /\ U \in SUBSET L1s /\ m.src \in U
      /\ Cardinality(U) \in Nat
      /\ Cardinality(U \ {m.src}) = Cardinality(U) - 1
      /\ Cardinality(U) = 1 => U = {m.src}
  BY <1>1, AwaitedFacts, NoneLeft, L1sFinite
<1>3. e \in MSHREntry /\ e.data \in Data /\ e.need \in Nat /\ e.acks \in Nat
  BY EntryFacts
<1>4. e.hasNeed => e.need = e.acks + Cardinality(U)
  BY DEF LineInv, Counted
<1>5. e.st \in {"ITOM", "STOM", "OTOM"}
  BY <1>1 DEF LineInv, Clients, Expected
<1>c. \A n \in s.msgs : n.type = "GETM_ACK" =>
        n.dst = i /\ ~e.hasNeed /\ n.arg = e.acks + Cardinality(U)
  <2>1. \A n \in s.msgs : n.type = "GETM_ACK" => Owing(n) /\ Requester(n) = n.dst
    BY DEF Owing, Requester
  <2> QED BY <1>1, <2>1 DEF LineInv, OneRequester, Counted
<1>k. \A k \in L1s \ {i} : ~s.mshr[k].hasNeed
  BY <1>1 DEF LineInv, Collected, Engaged
<1>6. CASE LastAck(e) /\ LineEnters(s, t, i, m, "M", e.data, {GetAck(i, l)})
  <2>1. U = {m.src} /\ e.hasNeed /\ HasLineData(e)
    BY <1>6, <1>2, <1>3, <1>4 DEF LastAck
  <2>2. \A n \in s.msgs : n.type \in {"INVALID", "INVALID_ACK", "GETM_ACK"} => n = m
    BY <1>1, <1>c, <2>1, AwaitedFacts
  <2>3. \A n \in s.msgs : ~Carrying(n)
    BY <1>1, <2>1, NoCarrierLeft
  <2> QED BY <1>1, <1>3, <1>6, <2>2, <2>3, LastAnswer
<1>7. CASE /\ ~LastAck(e)
           /\ LineHandles(s, t, i, m, s.cache[i],
                [e EXCEPT !.acks = IF Collecting(e) THEN @ + 1 ELSE @], {})
  <2>1. /\ t.cache = [s.cache EXCEPT ![i] = s.cache[i]]
        /\ t.mshr = [s.mshr EXCEPT ![i] = [e EXCEPT !.acks = @ + 1]]
        /\ t.msgs = (s.msgs \ {m}) \cup {}
        /\ t.entry = s.entry /\ t.owed = s.owed /\ t.blk = s.blk /\ t.mem = s.mem
        /\ t.golden = s.golden
    BY <1>5, <1>7 DEF LineHandles, AtL1, Collecting
  <2>2. s.cache \in [L1s -> [st : CacheStates, data : Data]] /\ s.mshr \in [L1s -> MSHREntry]
    BY DEF LineInv, LineTypes
  <2>3. [e EXCEPT !.acks = @ + 1] \in MSHREntry
    BY <1>3 DEF MSHREntry
  <2>4. /\ t.cache = s.cache /\ t.mshr \in [L1s -> MSHREntry]
        /\ \A k \in L1s \ {i} : t.mshr[k] = s.mshr[k]
    BY <2>1, <2>2, <2>3
  <2>i. t.mshr[i] = [e EXCEPT !.acks = @ + 1]
    BY <2>1, <2>2, <2>3
  <2>5. /\ t.mshr[i].st = e.st /\ t.mshr[i].hasData = e.hasData /\ t.mshr[i].hasNeed = e.hasNeed
        /\ t.mshr[i].acks = e.acks + 1 /\ t.mshr[i].need = e.need
    BY <1>3, <2>i DEF MSHREntry
  <2>6. LineTypes(l, t)
    BY <2>1, <2>2, <2>4 DEF LineInv, LineTypes
  <2>7. \A y : y \in t.msgs <=> y \in s.msgs /\ y # m
    BY <2>1
  <2>8. Unacknowledged(t) = U \ {m.src}
    BY <1>1, <2>7, AwaitedFacts DEF Unacknowledged
  <2>9. Counted(t)
    <3>1. \A k \in L1s : t.mshr[k].hasNeed =>
             t.mshr[k].need = t.mshr[k].acks + Cardinality(Unacknowledged(t))
      BY <1>2, <1>3, <1>4, <1>k, <2>4, <2>5, <2>8
    <3>2. \A n \in t.msgs : n.type = "GETM_ACK" =>
            /\ ~t.mshr[n.dst].hasNeed
            /\ n.arg = t.mshr[n.dst].acks + Cardinality(Unacknowledged(t))
      BY <1>2, <1>3, <1>c, <2>5, <2>7, <2>8
    <3> QED BY <3>1, <3>2 DEF Counted
  <2>e. t.entry = s.entry /\ t.owed = s.owed
    BY <2>1
  <2> HIDE DEF e
  <2> QED BY <1>1, <2>e, <2>4, <2>5, <2>6, <2>7, <2>9, Collects DEF e
<1> QED BY <1>6, <1>7 DEF LineInvalidAck

\* GETM_ACK, which says how many acknowledgements there will be.
LEMMA GetMAckKeeps ==
  ASSUME NEW l, NEW s, NEW t, LineInv(l, s), NEW i \in L1s, NEW m \in s.msgs,
         LineGetMAck(l, s, t, i, m)
  PROVE  LineInv(l, t)
<1> DEFINE e == s.mshr[i]
           U == Unacknowledged(s)
<1>1. m.type = "GETM_ACK" /\ m.dst = i /\ Owing(m) /\ Requester(m) = i /\ Client(m) = i
  BY DEF LineGetMAck, LineEnters, LineHandles, Owing, Requester, Client, Request
<1>2. /\ U \in SUBSET L1s /\ Cardinality(U) \in Nat
      /\ Cardinality(U) = 0 => U = {}
  BY AwaitedFacts, NoneLeft, L1sFinite
<1>3. e \in MSHREntry /\ e.data \in Data /\ e.need \in Nat /\ e.acks \in Nat
  BY EntryFacts
<1>4. ~e.hasNeed /\ m.arg = e.acks + Cardinality(U)
  BY <1>1 DEF LineInv, Counted
<1>5. e.st \in {"ITOM", "STOM", "OTOM"} /\ m.arg \in Nat
  BY <1>1, About DEF LineInv, Clients, Expected, WellFormed
<1>c. \A n \in s.msgs : n.type = "GETM_ACK" => n = m
  <2>1. \A n \in s.msgs : n.type = "GETM_ACK" => Owing(n) /\ Requester(n) = n.dst /\ n.src = LLC
    BY About DEF Owing, Requester, WellFormed
  <2> QED BY <1>1, <2>1 DEF LineInv, OneRequester, Distinct
<1>k. \A k \in L1s \ {i} : ~s.mshr[k].hasNeed
  BY <1>1 DEF LineInv, Collected, Engaged
<1>6. CASE /\ m.arg = e.acks /\ HasLineData(e)
           /\ LineEnters(s, t, i, m, "M", e.data, {GetAck(i, l)})
  <2>1. U = {}
    BY <1>6, <1>2, <1>3, <1>4
  <2>2. \A n \in s.msgs : n.type \in {"INVALID", "INVALID_ACK", "GETM_ACK"} => n = m
    BY <1>1, <1>c, <2>1, AwaitedFacts
  <2>3. \A n \in s.msgs : ~Carrying(n)
    BY <1>1, <1>6, NoCarrierLeft
  <2> QED BY <1>1, <1>3, <1>6, <2>2, <2>3, LastAnswer
<1>7. CASE LineHandles(s, t, i, m, s.cache[i],
             IF Collecting(e) THEN [e EXCEPT !.hasNeed = TRUE, !.need = m.arg] ELSE e, {})
  <2>1. /\ t.cache = [s.cache EXCEPT ![i] = s.cache[i]]
        /\ t.mshr = [s.mshr EXCEPT ![i] = [e EXCEPT !.hasNeed = TRUE, !.need = m.arg]]
        /\ t.msgs = (s.msgs \ {m}) \cup {}
        /\ t.entry = s.entry /\ t.owed = s.owed /\ t.blk = s.blk /\ t.mem = s.mem
        /\ t.golden = s.golden
    BY <1>5, <1>7 DEF LineHandles, AtL1, Collecting
  <2>2. s.cache \in [L1s -> [st : CacheStates, data : Data]] /\ s.mshr \in [L1s -> MSHREntry]
    BY DEF LineInv, LineTypes
  <2>3. [e EXCEPT !.hasNeed = TRUE, !.need = m.arg] \in MSHREntry
    BY <1>3, <1>5 DEF MSHREntry
  <2>4. /\ t.cache = s.cache /\ t.mshr \in [L1s -> MSHREntry]
        /\ \A k \in L1s \ {i} : t.mshr[k] = s.mshr[k]
    BY <2>1, <2>2, <2>3
  <2>i. t.mshr[i] = [e EXCEPT !.hasNeed = TRUE, !.need = m.arg]
    BY <2>1, <2>2, <2>3
  <2>5. /\ t.mshr[i].st = e.st /\ t.mshr[i].hasData = e.hasData /\ t.mshr[i].hasNeed
        /\ t.mshr[i].acks = e.acks /\ t.mshr[i].need = m.arg
    BY <1>3, <2>i DEF MSHREntry
  <2>6. LineTypes(l, t)
    BY <2>1, <2>2, <2>4 DEF LineInv, LineTypes
  <2>7. \A y : y \in t.msgs <=> y \in s.msgs /\ y # m
    BY <2>1
  <2>8. Unacknowledged(t) = U
    BY <1>1, <2>7 DEF Unacknowledged
  <2>9. Counted(t)
    <3>1. \A k \in L1s : t.mshr[k].hasNeed =>
             t.mshr[k].need = t.mshr[k].acks + Cardinality(Unacknowledged(t))
      BY <1>2, <1>3, <1>4, <1>k, <2>4, <2>5, <2>8
    <3>2. \A n \in t.msgs : n.type # "GETM_ACK"
      BY <1>c, <2>7
    <3> QED BY <3>1, <3>2 DEF Counted
  <2>e. t.entry = s.entry /\ t.owed = s.owed
    BY <2>1
  <2> HIDE DEF e
  <2> QED BY <1>1, <2>e, <2>4, <2>5, <2>6, <2>7, <2>9, Collects DEF e
<1> QED BY <1>6, <1>7 DEF LineGetMAck

\* GETM_RESP from another L1.
LEMMA GetMRespKeeps ==
  ASSUME NEW l, NEW s, NEW t, LineInv(l, s), NEW i \in L1s, NEW m \in s.msgs,
         LineGetMResp(l, s, t, i, m), m.arg = 0
  PROVE  LineInv(l, t)
<1> DEFINE e == s.mshr[i]
           U == Unacknowledged(s)
<1>1. m.type = "GETM_RESP" /\ m.dst = i /\ m.src # LLC /\ m.data \in Data
  BY About DEF LineGetMResp, LineEnters, LineHandles, WellFormed
<1>2. Owing(m) /\ Carrying(m) /\ Requester(m) = i /\ Client(m) = i
  BY <1>1 DEF Owing, Carrying, Requester, Client, Request
<1>3. /\ U \in SUBSET L1s /\ Cardinality(U) \in Nat
      /\ Cardinality(U) = 0 => U = {}
  BY AwaitedFacts, NoneLeft, L1sFinite
<1>4. e \in MSHREntry /\ e.data \in Data /\ e.need \in Nat /\ e.acks \in Nat
  BY EntryFacts
<1>5. e.hasNeed => e.need = e.acks + Cardinality(U)
  BY DEF LineInv, Counted
<1>6. CASE /\ e.hasNeed /\ e.need = e.acks
           /\ LineEnters(s, t, i, m, "M", m.data, {GetAck(i, l)})
  <2>1. U = {}
    BY <1>3, <1>4, <1>5, <1>6
  <2>2. \A n \in s.msgs : n.type # "GETM_ACK"
    <3> SUFFICES ASSUME NEW n \in s.msgs, n.type = "GETM_ACK" PROVE FALSE
      OBVIOUS
    <3>1. Owing(n) /\ Requester(n) = n.dst
      BY DEF Owing, Requester
    <3> QED BY <1>2, <1>6, <3>1 DEF LineInv, OneRequester, Counted
  <2>3. \A n \in s.msgs : n.type \in {"INVALID", "INVALID_ACK", "GETM_ACK"} => n = m
    BY <2>1, <2>2, AwaitedFacts
  <2>4. \A n \in s.msgs : Carrying(n) => n = m
    BY <1>2 DEF LineInv, OneCarrier
  <2> QED BY <1>1, <1>2, <1>6, <2>3, <2>4, LastAnswer
<1>7. CASE LineHandles(s, t, i, m, s.cache[i], [e EXCEPT !.data = m.data, !.hasData = TRUE], {})
  <2>1. /\ t.cache = [s.cache EXCEPT ![i] = s.cache[i]]
        /\ t.mshr = [s.mshr EXCEPT ![i] = [e EXCEPT !.data = m.data, !.hasData = TRUE]]
        /\ t.msgs = (s.msgs \ {m}) \cup {}
        /\ t.entry = s.entry /\ t.owed = s.owed /\ t.blk = s.blk /\ t.mem = s.mem
        /\ t.golden = s.golden
    BY <1>7 DEF LineHandles, AtL1
  <2>2. s.cache \in [L1s -> [st : CacheStates, data : Data]] /\ s.mshr \in [L1s -> MSHREntry]
    BY DEF LineInv, LineTypes
  <2>3. [e EXCEPT !.data = m.data, !.hasData = TRUE] \in MSHREntry
    BY <1>1, <1>4 DEF MSHREntry
  <2>4. /\ t.cache = s.cache /\ t.mshr \in [L1s -> MSHREntry]
        /\ \A k \in L1s \ {i} : t.mshr[k] = s.mshr[k]
    BY <2>1, <2>2, <2>3
  <2>i. t.mshr[i] = [e EXCEPT !.data = m.data, !.hasData = TRUE]
    BY <2>1, <2>2, <2>3
  <2>5. /\ t.mshr[i].st = e.st /\ t.mshr[i].hasNeed = e.hasNeed
        /\ t.mshr[i].acks = e.acks /\ t.mshr[i].need = e.need
    BY <1>4, <2>i DEF MSHREntry
  <2>6. LineTypes(l, t)
    BY <2>1, <2>2, <2>4 DEF LineInv, LineTypes
  <2>7. \A y : y \in t.msgs <=> y \in s.msgs /\ y # m
    BY <2>1
  <2>8. Unacknowledged(t) = U
    BY <1>1, <2>7 DEF Unacknowledged
  <2>9. Counted(t)
    <3>1. \A k \in L1s : /\ t.mshr[k].hasNeed = s.mshr[k].hasNeed
                         /\ t.mshr[k].need = s.mshr[k].need /\ t.mshr[k].acks = s.mshr[k].acks
      BY <2>4, <2>5
    <3>2. \A n \in s.msgs : n.type = "GETM_ACK" => n.dst \in L1s
      BY About
    <3> HIDE DEF e
    <3> QED BY <3>1, <3>2, <2>7, <2>8 DEF Counted, LineInv
  <2>e. t.entry = s.entry /\ t.owed = s.owed
    BY <2>1
  <2> HIDE DEF e
  <2> QED BY <1>1, <1>2, <2>e, <2>4, <2>5, <2>6, <2>7, <2>9, Collects DEF e
<1> QED BY <1>6, <1>7 DEF LineGetMResp

\* A message that ends a transaction nobody acknowledges: a grant or PUT_ACK.
LEMMA Settles ==
  ASSUME NEW l, NEW s, NEW t, LineInv(l, s), NEW i \in L1s, NEW m \in s.msgs,
         ~Owing(m), ~Request(m), Client(m) = i,
         \A y \in s.msgs : y # m /\ Client(y) = i => y.type = "GET_ACK",
         m.type \in {"GETS_RESP", "GETM_RESP", "PUT_ACK"},
         \A y : y \in t.msgs <=> y \in s.msgs /\ y # m,
         t.entry = s.entry, t.owed = s.owed, LineTypes(l, t),
         \A k \in L1s \ {i} : t.mshr[k] = s.mshr[k] /\ t.cache[k] = s.cache[k],
         t.mshr[i] = NoMSHR,
         Holds(t, i) <=> Holds(s, i), Exclusive(t, i) => Exclusive(s, i),
         Served(s, i) => Holds(t, i)
  PROVE  LineInv(l, t)
<1>n. /\ NoMSHR.st = "-" /\ ~NoMSHR.hasData /\ ~NoMSHR.hasNeed /\ NoMSHR.acks = 0
      /\ ~Collecting(NoMSHR)
  BY DEF NoMSHR, Collecting
<1>s. \A n \in s.msgs : /\ WellFormed(l, n) /\ Client(n) \in L1s
                        /\ Owing(n) => Requester(n) = Client(n) /\ ~Request(n)
                        /\ Grant(n) => ~Request(n) /\ ~Owing(n) /\ Client(n) = n.dst
                        /\ Carrying(n) => Owing(n)
                        /\ Token(n) => Owing(n)
                        /\ n.type \in {"INVALID", "GETS_RESP", "GETM_ACK"} => n.dst \in L1s
                        /\ n.type \in {"GETS_FORWARD", "GETM_FORWARD"} => n.dst \in L1s \cup {MEM}
                        /\ n.type = "INVALID_ACK" => n.src \in L1s
  BY About
<1>a. \A k \in L1s : Asks(t, k) <=> Asks(s, k)
  BY DEF Asks
<1>b. \A k \in L1s \ {i} : Granted(t, k) <=> Granted(s, k)
  BY <1>s DEF Granted
<1>c. \A k \in L1s : Granted(t, k) => Granted(s, k)
  BY DEF Granted
<1>h. \A k \in L1s : (Holds(t, k) <=> Holds(s, k)) /\ (Exclusive(t, k) => Exclusive(s, k))
  BY <1>a, <1>b DEF Holds, Exclusive, Evicts
<1>g. \A k \in L1s : Engaged(s, k) => Engaged(t, k)
  BY DEF Engaged
<1>u. Unacknowledged(t) = Unacknowledged(s)
  BY DEF Unacknowledged
<1>d. \A y \in t.msgs : Client(y) = i => y.type = "GET_ACK"
  OBVIOUS
<1>1. WellFormedMsgs(l, t) /\ OnePlace(t) /\ Distinct(t) /\ OneRequest(t)
  <2>1. OnePlace(t)
    BY <1>n DEF OnePlace, LineInv
  <2>2. WellFormedMsgs(l, t) /\ Distinct(t) /\ OneRequest(t)
    BY DEF WellFormedMsgs, Distinct, OneRequest, LineInv
  <2> QED BY <2>1, <2>2
<1>2. Clients(t)
  BY <1>s, <1>d DEF Clients, LineInv, Expected, Puts
<1>3. AskedFirst(t) /\ NothingCollected(t) /\ OwingNotGranted(t)
  <2>1. AskedFirst(t)
    BY <1>a, <1>s DEF AskedFirst, LineInv
  <2>2. OwingNotGranted(t)
    BY <1>c, <1>s DEF OwingNotGranted, LineInv
  <2>3. \A y \in t.msgs : Request(y) => y.src \in L1s \ {i}
    BY <1>d, <1>s DEF Client, Request
  <2>4. NothingCollected(t)
    BY <2>3 DEF NothingCollected, LineInv
  <2> QED BY <2>1, <2>2, <2>4
<1>4. OneRequester(t) /\ TokenAlone(t) /\ OwingOwed(t)
  BY DEF OneRequester, TokenAlone, OwingOwed, LineInv
<1>5. OneCarrier(t)
  <2>1. \A y \in t.msgs : Carrying(y) => Requester(y) \in L1s \ {i}
    BY <1>s, <1>d DEF Carrying
  <2> QED BY <2>1 DEF OneCarrier, LineInv
<1>6. Collected(t)
  BY <1>n, <1>g DEF Collected, LineInv
<1>7. Counted(t)
  <2>1. \A y \in t.msgs : y.type = "GETM_ACK" => y.dst \in L1s \ {i}
    BY <1>s, <1>d DEF Client, Requester, Request
  <2> QED BY <1>n, <1>u, <2>1 DEF Counted, LineInv
<1>8. HoldersKnown(t) /\ KnownHold(t)
  <2>1. \A k \in L1s : Dismissed(s, k) => Dismissed(t, k)
    BY DEF Dismissed
  <2>2. \A k \in L1s \ {i} : Served(s, k) => Served(t, k)
    BY <1>a, <1>g DEF Served
  <2> QED BY <2>1, <2>2, <1>h DEF HoldersKnown, KnownHold, LineInv, LineTypes
<1>9. OwnerKnown(t) /\ OneWriter(t)
  BY <1>h DEF OneWriter, OwnerKnown, LineInv
<1>10. InvalidSound(t) /\ AckSound(t)
  BY <1>h, <1>s DEF InvalidSound, AckSound, LineInv
<1>11. GetMSound(t) /\ GetSSound(t) /\ RespSound(t)
  <2>1. GetMSound(t)
    BY <1>h, <1>s DEF GetMSound, LineInv
  <2>2. GetSSound(t)
    BY <1>h, <1>s DEF GetSSound, LineInv
  <2>3. RespSound(t)
    BY <1>h, <1>s DEF RespSound, LineInv
  <2> QED BY <2>1, <2>2, <2>3
<1>12. OwnerToBe(t) /\ MemorySound(t)
  BY <1>h DEF OwnerToBe, MemorySound, LineInv
<1> QED BY <1>1, <1>2, <1>3, <1>4, <1>5, <1>6, <1>7, <1>8, <1>9, <1>10, <1>11, <1>12 DEF LineInv

\* The MSHR entry that is not there.
LEMMA NoMSHRFacts == NoMSHR \in MSHREntry /\ NoMSHR.st = "-"
  BY DataFacts DEF NoMSHR, MSHREntry, MSHRStates

\* A line granted from the block array enters the cache.
LEMMA GrantKeeps ==
  ASSUME NEW l, NEW s, NEW t, LineInv(l, s), NEW i \in L1s, NEW m \in s.msgs,
         Grant(m), NEW st \in {"E", "M"}, LineEnters(s, t, i, m, st, m.data, {})
  PROVE  LineInv(l, t)
<1>1. /\ m.dst = i
      /\ t.cache = [s.cache EXCEPT ![i] = [st |-> st, data |-> m.data]]
      /\ t.mshr = [s.mshr EXCEPT ![i] = NoMSHR]
      /\ t.msgs = (s.msgs \ {m}) \cup {}
      /\ t.entry = s.entry /\ t.owed = s.owed /\ t.blk = s.blk /\ t.mem = s.mem
      /\ t.golden = s.golden
  BY DEF LineEnters, LineHandles, AtL1
<1>2. /\ WellFormed(l, m) /\ ~Owing(m) /\ ~Request(m) /\ Client(m) = i /\ m.data \in Data
      /\ m.type \in {"GETS_RESP", "GETM_RESP"}
  BY <1>1, About DEF WellFormed, Grant
<1>3. s.cache \in [L1s -> [st : CacheStates, data : Data]] /\ s.mshr \in [L1s -> MSHREntry]
  BY DEF LineInv, LineTypes
<1>4. /\ t.cache \in [L1s -> [st : CacheStates, data : Data]] /\ t.mshr \in [L1s -> MSHREntry]
      /\ t.cache[i].st = st /\ t.mshr[i] = NoMSHR
      /\ \A k \in L1s \ {i} : t.mshr[k] = s.mshr[k] /\ t.cache[k] = s.cache[k]
  BY <1>1, <1>2, <1>3, NoMSHRFacts DEF CacheStates
<1>5. LineTypes(l, t)
  BY <1>1, <1>4 DEF LineInv, LineTypes
<1>6. \A y : y \in t.msgs <=> y \in s.msgs /\ y # m
  BY <1>1
<1>7. Granted(s, i) /\ ~Asks(s, i)
  BY <1>1, <1>2 DEF Granted, LineInv, AskedFirst
<1>8. \A y \in s.msgs : y # m /\ Client(y) = i => y.type = "GET_ACK"
  <2> SUFFICES ASSUME NEW y \in s.msgs, y # m, Client(y) = i, y.type # "GET_ACK" PROVE FALSE
    OBVIOUS
  <2>1. WellFormed(l, y)
    BY About
  <2>2. ~Owing(y)
    BY <1>7, About DEF LineInv, OwingNotGranted
  <2>3. ~Request(y)
    BY <1>7 DEF Asks, Client
  <2>4. Expected(m, s.mshr[i].st) /\ Expected(y, s.mshr[i].st)
    BY <1>2 DEF LineInv, Clients
  <2>5. y.type # "PUT_ACK"
    BY <1>2, <2>4 DEF Expected, Leaving
  <2>6. Grant(y)
    BY <2>1, <2>2, <2>3, <2>5 DEF Grant, WellFormed, MessageTypes, Owing, Request
  <2>7. y.type = m.type
    BY <1>2, <2>4, <2>6 DEF Grant, Expected
  <2>8. y.dst = m.dst /\ y.src = m.src
    BY <1>1, <2>6, About DEF Grant
  <2> QED BY <2>7, <2>8 DEF LineInv, Distinct
<1>9. Holds(t, i) /\ Holds(s, i) /\ Exclusive(s, i)
  BY <1>4, <1>7 DEF Holds, Exclusive
<1> QED
  BY <1>1, <1>2, <1>4, <1>5, <1>6, <1>8, <1>9, Settles

\* PUT_ACK.
LEMMA PutAckKeeps ==
  ASSUME NEW l, NEW s, NEW t, LineInv(l, s), NEW i \in L1s, NEW m \in s.msgs,
         LinePutAck(l, s, t, i, m)
  PROVE  LineInv(l, t)
<1>1. /\ m.dst = i /\ m.type = "PUT_ACK"
      /\ t.cache = [s.cache EXCEPT ![i] = s.cache[i]]
      /\ t.mshr = [s.mshr EXCEPT ![i] = NoMSHR]
      /\ t.msgs = (s.msgs \ {m}) \cup {}
      /\ t.entry = s.entry /\ t.owed = s.owed /\ t.blk = s.blk /\ t.mem = s.mem
      /\ t.golden = s.golden
  BY DEF LinePutAck, LineHandles, AtL1
<1>2. WellFormed(l, m) /\ ~Owing(m) /\ ~Request(m) /\ Client(m) = i
  BY <1>1, About DEF Owing, Request, Client, Requester
<1>3. s.cache \in [L1s -> [st : CacheStates, data : Data]] /\ s.mshr \in [L1s -> MSHREntry]
  BY DEF LineInv, LineTypes
<1>4. /\ t.cache \in [L1s -> [st : CacheStates, data : Data]] /\ t.mshr \in [L1s -> MSHREntry]
      /\ t.cache = s.cache /\ t.mshr[i] = NoMSHR
      /\ \A k \in L1s \ {i} : t.mshr[k] = s.mshr[k]
  BY <1>1, <1>2, <1>3, NoMSHRFacts
<1>5. LineTypes(l, t)
  BY <1>1, <1>4 DEF LineInv, LineTypes
<1>6. \A y : y \in t.msgs <=> y \in s.msgs /\ y # m
  BY <1>1
<1>7. ~Asks(s, i) /\ s.mshr[i].st \in Leaving
  BY <1>1, <1>2 DEF LineInv, AskedFirst, Clients, Expected
<1>8. \A y \in s.msgs : y # m /\ Client(y) = i => y.type = "GET_ACK"
  <2> SUFFICES ASSUME NEW y \in s.msgs, y # m, Client(y) = i, y.type # "GET_ACK" PROVE FALSE
    OBVIOUS
  <2>1. WellFormed(l, y)
    BY About
  <2>2. ~Request(y)
    BY <1>7 DEF Asks, Client
  <2>3. Expected(y, s.mshr[i].st)
    BY DEF LineInv, Clients
  <2>4. y.type = "PUT_ACK"
    BY <1>7, <2>1, <2>2, <2>3 DEF Expected, WellFormed, MessageTypes, Request, Leaving
  <2>5. y.dst = i /\ y.src = m.src
    BY <1>1, <1>2, <2>1, <2>4 DEF WellFormed, Client, Requester, Request
  <2> QED BY <1>1, <2>4, <2>5 DEF LineInv, Distinct
<1>9. ~Granted(s, i) /\ ~Granted(t, i)
  <2>1. \A y \in s.msgs : Grant(y) /\ y.dst = i => FALSE
    BY <1>1, <1>8, About DEF Grant
  <2> QED BY <1>6, <2>1 DEF Granted
<1>10. s.cache[i].st = "I"
  BY <1>7 DEF LineInv, OnePlace, Leaving
<1>11. ~Holds(s, i) /\ ~Holds(t, i)
  BY <1>4, <1>7, <1>9, <1>10, NoMSHRFacts DEF Holds, Evicts, Leaving
<1>12. ~Served(s, i)
  BY <1>7 DEF Served, Leaving
<1> QED
  BY <1>1, <1>2, <1>4, <1>5, <1>6, <1>8, <1>11, <1>12, ExclusiveHolds, Settles

\* PUT_ACK, and the line is asked for again.
LEMMA AsksAgainKeeps ==
  ASSUME NEW l, NEW s, NEW t, LineInv(l, s), NEW i \in L1s, NEW m \in s.msgs,
         LineAsksAgain(l, s, t, i, m)
  PROVE  LineInv(l, t)
<1> DEFINE u == Freed(s, i, m)
<1>1. LinePutAck(l, s, u, i, m) /\ (LineLoads(l, u, t, i) \/ LineAsksToStore(l, u, t, i))
  BY DEF LineAsksAgain
<1> HIDE DEF u
<1>2. LineInv(l, u)
  BY <1>1, PutAckKeeps
<1> QED BY <1>1, <1>2, LoadsKeep, AsksToStoreKeeps

\* A cache that is told to gives up the line: INVALID, or GETM_FORWARD.
LEMMA GivesUp ==
  ASSUME NEW l, NEW s, NEW t, LineInv(l, s), NEW i \in L1s, NEW m \in s.msgs, NEW x,
         \/ m.type = "INVALID" /\ x.type = "INVALID_ACK"
         \/ m.type = "GETM_FORWARD" /\ x.type = "GETM_RESP",
         m.dst = i, ~Granted(s, i), WellFormed(l, x), x.src = i, x.dst = m.arg,
         \A y : y \in t.msgs <=> (y \in s.msgs /\ y # m) \/ y = x,
         t.entry = s.entry, t.owed = s.owed, LineTypes(l, t),
         \A k \in L1s \ {i} : t.mshr[k] = s.mshr[k] /\ t.cache[k] = s.cache[k],
         t.cache[i].st = "I",
         \/ t.mshr[i] = s.mshr[i] /\ s.mshr[i].st = "-"
         \/ s.mshr[i].st \in {"STOM", "OTOM"} /\ t.mshr[i].st = "ITOM"
         \/ s.mshr[i].st \in Leaving /\ t.mshr[i].st = "ITOI",
         /\ t.mshr[i].hasData = s.mshr[i].hasData /\ t.mshr[i].hasNeed = s.mshr[i].hasNeed
         /\ t.mshr[i].acks = s.mshr[i].acks
  PROVE  LineInv(l, t)
<1> DEFINE j == m.arg
<1>s. \A n \in s.msgs : /\ WellFormed(l, n) /\ Client(n) \in L1s
                        /\ Owing(n) => Requester(n) = Client(n) /\ ~Request(n)
                        /\ Grant(n) => ~Request(n) /\ ~Owing(n) /\ Client(n) = n.dst
                        /\ Carrying(n) => Owing(n)
                        /\ Token(n) => Owing(n)
                        /\ n.type \in {"INVALID", "GETS_RESP", "GETM_ACK"} => n.dst \in L1s
                        /\ n.type \in {"GETS_FORWARD", "GETM_FORWARD"} => n.dst \in L1s \cup {MEM}
                        /\ n.type = "INVALID_ACK" => n.src \in L1s
  BY About
<1>m. /\ Owing(m) /\ ~Request(m) /\ ~Grant(m) /\ Requester(m) = j /\ Client(m) = j /\ s.owed
      /\ j \in L1s /\ i # MEM
      /\ m.type = "GETM_FORWARD" => Carrying(m)
  BY <1>s, L1Facts DEF Owing, Request, Requester, Client, LineInv, OwingOwed, Grant, Carrying
<1>j. j # i /\ Holds(s, i) /\ s.entry.exists = {j}
  BY <1>m DEF LineInv, InvalidSound, GetMSound, OwnerToBe
<1>x. /\ Owing(x) /\ ~Token(x) /\ ~Grant(x) /\ ~Request(x) /\ Requester(x) = j /\ Client(x) = j
      /\ ~FromMemory(x) /\ x.type \in {"INVALID_ACK", "GETM_RESP"}
      /\ Carrying(x) => x.type = "GETM_RESP" /\ Carrying(m)
  BY <1>m, L1Facts DEF Owing, Token, Grant, Request, Requester, Client, FromMemory, Carrying
<1>a. \A k \in L1s : Asks(t, k) <=> Asks(s, k)
  BY <1>m, <1>x DEF Asks
<1>b. \A k \in L1s : Granted(t, k) <=> Granted(s, k)
  BY <1>m, <1>x DEF Granted
<1>hi. ~Holds(t, i)
  BY <1>b DEF Holds, Evicts, Leaving
<1>h. \A k \in L1s : /\ Holds(t, k) => Holds(s, k)
                     /\ k # i => (Holds(s, k) => Holds(t, k))
                     /\ Exclusive(t, k) => Exclusive(s, k)
  <2>1. \A k \in L1s \ {i} : (Holds(t, k) <=> Holds(s, k)) /\ (Exclusive(t, k) <=> Exclusive(s, k))
    BY <1>a, <1>b DEF Holds, Exclusive, Evicts
  <2> QED BY <2>1, <1>hi, ExclusiveHolds
<1>g. \A k \in L1s : Engaged(s, k) => Engaged(t, k)
  BY <1>m, <1>x DEF Engaged
<1>tok. \A y \in t.msgs : ~Token(y)
  BY <1>m, <1>x, <1>s DEF LineInv, TokenAlone, Token
<1>c. ~t.mshr[i].hasData /\ ~t.mshr[i].hasNeed /\ t.mshr[i].acks = 0
  BY <1>m, <1>j, EntryFacts DEF LineInv, Collected, Engaged
<1>1. WellFormedMsgs(l, t) /\ OnePlace(t) /\ Distinct(t) /\ OneRequest(t)
  <2>1. OnePlace(t)
    BY DEF OnePlace, LineInv
  <2>2. WellFormedMsgs(l, t) /\ OneRequest(t)
    BY <1>x DEF WellFormedMsgs, OneRequest, LineInv
  <2>3. \A y \in s.msgs : y # m => ~(y.type = x.type /\ y.src = x.src /\ y.dst = x.dst)
    <3> SUFFICES ASSUME NEW y \in s.msgs, y # m, y.type = x.type, y.src = i PROVE FALSE
      OBVIOUS
    <3>1. CASE y.type = "INVALID_ACK"
      BY <3>1, <1>j DEF LineInv, AckSound
    <3>2. CASE y.type = "GETM_RESP"
      BY <3>2, <1>m, <1>x, L1Facts DEF LineInv, OneCarrier, Carrying
    <3> QED BY <3>1, <3>2, <1>x
  <2>4. Distinct(t)
    BY <2>3 DEF Distinct, LineInv
  <2> QED BY <2>1, <2>2, <2>4
<1>2. Clients(t)
  <2>1. Expected(m, s.mshr[j].st)
    BY <1>m DEF Clients, LineInv
  <2>2. Expected(x, t.mshr[j].st)
    BY <2>1, <1>m, <1>j, <1>x DEF Expected, Puts
  <2>3. ASSUME NEW y \in s.msgs PROVE Expected(y, t.mshr[Client(y)].st)
    <3>1. Expected(y, s.mshr[Client(y)].st) /\ Client(y) \in L1s
      BY <1>s DEF Clients, LineInv
    <3>2. CASE Client(y) # i
      BY <3>1, <3>2
    <3>3. CASE Client(y) = i
      BY <3>1, <3>3 DEF Expected, Leaving, Puts
    <3> QED BY <3>2, <3>3
  <2> QED BY <2>2, <2>3, <1>x DEF Clients
<1>3. AskedFirst(t) /\ NothingCollected(t) /\ OwingNotGranted(t)
  <2>1. ~Asks(s, j) /\ ~Granted(s, j)
    BY <1>m DEF LineInv, AskedFirst, OwingNotGranted
  <2>2. AskedFirst(t)
    BY <1>a, <1>s, <1>x, <2>1, <1>m DEF AskedFirst, LineInv
  <2>3. OwingNotGranted(t)
    BY <1>b, <1>s, <1>x, <2>1, <1>m DEF OwingNotGranted, LineInv
  <2>4. \A y \in s.msgs : Request(y) => y.src \in L1s
    BY <1>s DEF WellFormed
  <2>5. NothingCollected(t)
    BY <2>4, <1>x, <1>c DEF NothingCollected, LineInv
  <2> QED BY <2>2, <2>3, <2>5
<1>4. OneRequester(t) /\ TokenAlone(t) /\ OwingOwed(t)
  BY <1>m, <1>x, <1>tok DEF OneRequester, TokenAlone, OwingOwed, LineInv
<1>5. OneCarrier(t)
  <2>1. \A y \in s.msgs : Carrying(y) /\ Carrying(x) => y = m
    BY <1>x DEF LineInv, OneCarrier
  <2>2. \A y \in t.msgs : Carrying(y) => Requester(y) = j
    BY <1>m, <1>x, <1>s DEF LineInv, OneRequester
  <2>3. \A y \in t.msgs : Carrying(y) => ~s.mshr[j].hasData
    BY <1>m, <1>x, <1>s, <2>2 DEF LineInv, OneCarrier
  <2> QED BY <2>1, <2>2, <2>3, <1>j, <1>m DEF OneCarrier, LineInv
<1>6. Collected(t)
  BY <1>c, <1>g DEF Collected, LineInv
<1>7. Counted(t)
  <2>1. Unacknowledged(t) = Unacknowledged(s)
    <3>1. CASE m.type = "INVALID" /\ x.type = "INVALID_ACK"
      BY <3>1 DEF Unacknowledged
    <3>2. CASE m.type = "GETM_FORWARD" /\ x.type = "GETM_RESP"
      BY <3>2 DEF Unacknowledged
    <3> QED BY <3>1, <3>2
  <2>2. \A y \in s.msgs : y.type = "GETM_ACK" => y.dst \in L1s \ {i}
    <3>1. \A y \in s.msgs : y.type = "GETM_ACK" => Owing(y) /\ Requester(y) = y.dst
      BY DEF Owing, Requester
    <3> QED BY <3>1, <1>m, <1>j, <1>s DEF LineInv, OneRequester
  <2> QED BY <2>1, <2>2, <1>c, <1>x DEF Counted, LineInv
<1>8. HoldersKnown(t) /\ KnownHold(t)
  <2>1. \A k \in L1s \ {i} : Dismissed(s, k) => Dismissed(t, k)
    BY DEF Dismissed
  <2>2. \A k \in L1s \ {i} : Served(s, k) => Served(t, k)
    BY <1>a, <1>g DEF Served
  <2>3. HoldersKnown(t)
    BY <1>h, <1>hi, <2>1 DEF HoldersKnown, LineInv
  <2>4. KnownHold(t)
    BY <1>h, <1>j, <1>m, <2>2 DEF KnownHold, LineInv
  <2> QED BY <2>3, <2>4
<1>9. OwnerKnown(t) /\ OneWriter(t)
  BY <1>h DEF OneWriter, OwnerKnown, LineInv
<1>10. InvalidSound(t)
  <2> SUFFICES ASSUME NEW y \in t.msgs, y.type = "INVALID"
               PROVE  /\ y.dst # y.arg /\ Holds(t, y.dst) /\ ~Exclusive(t, y.dst)
                      /\ \A n \in t.msgs : n.type = "GETM_FORWARD" => n.dst # y.dst
    BY DEF InvalidSound
  <2>1. y \in s.msgs /\ y # m /\ y.dst \in L1s
    BY <1>x, <1>s
  <2>2. y.dst # i
    <3>1. CASE m.type = "INVALID"
      <4>1. y.src = m.src
        BY <3>1, <2>1, <1>s DEF WellFormed
      <4> QED BY <4>1, <3>1, <2>1 DEF LineInv, Distinct
    <3>2. CASE m.type = "GETM_FORWARD"
      BY <3>2, <2>1 DEF LineInv, InvalidSound
    <3> QED BY <3>1, <3>2
  <2> QED BY <2>1, <2>2, <1>h, <1>x DEF LineInv, InvalidSound
<1>11. AckSound(t)
  BY <1>x, <1>h, <1>hi, <1>j, <1>s DEF LineInv, AckSound
<1>12. GetMSound(t)
  <2> SUFFICES ASSUME NEW y \in t.msgs, y.type = "GETM_FORWARD", y.dst # MEM
               PROVE  Holds(t, y.dst) /\ y.dst # y.arg
    BY DEF GetMSound
  <2>1. y \in s.msgs /\ y # m /\ y.dst \in L1s /\ Carrying(y)
    BY <1>x, <1>s DEF Carrying
  <2>2. y.dst # i
    <3>1. CASE m.type = "INVALID"
      BY <3>1, <2>1 DEF LineInv, InvalidSound
    <3>2. CASE m.type = "GETM_FORWARD"
      BY <3>2, <2>1, <1>m DEF LineInv, OneCarrier
    <3> QED BY <3>1, <3>2
  <2> QED BY <2>1, <2>2, <1>h DEF LineInv, GetMSound
<1>13. GetSSound(t) /\ RespSound(t)
  BY <1>tok DEF GetSSound, RespSound, Token
<1>14. OwnerToBe(t) /\ MemorySound(t)
  <2>1. OwnerToBe(t)
    BY <1>x, <1>j DEF OwnerToBe, LineInv
  <2>2. \A y \in t.msgs : ~FromMemory(y)
    BY <1>tok, <1>x, <1>s, L1Facts DEF FromMemory, Token, WellFormed, MessageTypes, Request
  <2> QED BY <2>1, <2>2 DEF MemorySound
<1> QED BY <1>1, <1>2, <1>3, <1>4, <1>5, <1>6, <1>7, <1>8, <1>9, <1>10, <1>11, <1>12, <1>13, <1>14 DEF LineInv

\* What becomes of a transaction whose copy is taken.
LEMMA AfterFacts ==
  /\ \A st \in {"STOI", "MTOI", "OTOI"} : AfterInvalid(st) = "ITOI"
  /\ \A st \in {"STOM", "OTOM"} : AfterInvalid(st) = "ITOM"
  /\ AfterInvalid("-") = "-"
<1>1. AfterInvalid("STOI") = "ITOI"
  BY Zenon DEF AfterInvalid
<1>2. AfterInvalid("MTOI") = "ITOI"
  BY Zenon DEF AfterInvalid
<1>3. AfterInvalid("OTOI") = "ITOI"
  BY Zenon DEF AfterInvalid
<1>4. AfterInvalid("STOM") = "ITOM"
  BY Zenon DEF AfterInvalid
<1>5. AfterInvalid("OTOM") = "ITOM"
  BY Zenon DEF AfterInvalid
<1>6. AfterInvalid("-") = "-"
  BY Zenon DEF AfterInvalid
<1> QED BY <1>1, <1>2, <1>3, <1>4, <1>5, <1>6

\* INVALID.
LEMMA InvalidKeeps ==
  ASSUME NEW l, NEW s, NEW t, LineInv(l, s), NEW i \in L1s, NEW m \in s.msgs,
         LineInvalid(l, s, t, i, m)
  PROVE  LineInv(l, t)
<1> DEFINE x == Msg("INVALID_ACK", ACK, i, m.arg, l, 0, NoData)
           e == s.mshr[i]
<1>x. /\ x.type = "INVALID_ACK" /\ x.src = i /\ x.dst = m.arg /\ x.line = l /\ x.arg = 0
      /\ x.data \in Data
  BY MsgFacts, DataFacts
<1>1. /\ m.type = "INVALID" /\ ~Granted(s, i) /\ m.dst = i
      /\ t.cache = [s.cache EXCEPT ![i] = Absent]
      /\ t.mshr = [s.mshr EXCEPT ![i] = [e EXCEPT !.st = AfterInvalid(@)]]
      /\ t.msgs = (s.msgs \ {m}) \cup {x}
      /\ t.entry = s.entry /\ t.owed = s.owed /\ t.blk = s.blk /\ t.mem = s.mem
      /\ t.golden = s.golden
  BY DEF LineInvalid, LineHandles, AtL1
<1> HIDE DEF x
<1>2. m.arg \in L1s /\ Holds(s, i) /\ ~Exclusive(s, i)
  BY <1>1, About DEF LineInv, InvalidSound, WellFormed
<1>3. WellFormed(l, x)
  BY <1>x, <1>2 DEF WellFormed, Request, MessageTypes
<1>4. s.cache \in [L1s -> [st : CacheStates, data : Data]] /\ s.mshr \in [L1s -> MSHREntry]
  BY DEF LineInv, LineTypes
<1>5. e.st \in {"-", "STOM", "OTOM", "STOI", "OTOI"}
  <2>1. s.cache[i].st # "I" => e.st = "-"
    BY DEF LineInv, OnePlace
  <2>2. e.st \in {"STOM", "OTOM"} \/ Evicts(s, i, Leaving \ {"ITOI"}) \/ s.cache[i].st # "I"
    BY <1>1, <1>2 DEF Holds
  <2>3. ~Evicts(s, i, {"MTOI", "ETOI"})
    BY <1>2 DEF Exclusive
  <2> QED BY <2>1, <2>2, <2>3 DEF Evicts, Leaving
<1> DEFINE st == AfterInvalid(e.st)
<1>6. /\ e.st = "-" => st = "-"
      /\ e.st \in {"STOM", "OTOM"} => st = "ITOM"
      /\ e.st \in {"STOI", "OTOI"} => st = "ITOI"
  BY AfterFacts
<1>7. t.mshr = [s.mshr EXCEPT ![i] = [e EXCEPT !.st = st]]
  BY <1>1
<1> HIDE DEF st
<1>8. st \in MSHRStates
  BY <1>5, <1>6 DEF MSHRStates
<1>9. e \in MSHREntry
  BY EntryFacts
<1> DEFINE f == [e EXCEPT !.st = st]
<1>10. /\ f \in MSHREntry /\ f.st = st /\ f.hasData = e.hasData /\ f.hasNeed = e.hasNeed
       /\ f.acks = e.acks
       /\ st = e.st => f = e
  BY <1>8, <1>9 DEF MSHREntry
<1>11. t.mshr = [s.mshr EXCEPT ![i] = f]
  BY <1>7
<1> HIDE DEF f
<1>12. /\ t.cache \in [L1s -> [st : CacheStates, data : Data]] /\ t.mshr \in [L1s -> MSHREntry]
       /\ t.cache[i].st = "I" /\ t.mshr[i] = f
       /\ \A k \in L1s \ {i} : t.mshr[k] = s.mshr[k] /\ t.cache[k] = s.cache[k]
  BY SMTT(30), <1>1, <1>4, <1>10, <1>11, AbsentFacts
<1>13. LineTypes(l, t)
  BY <1>1, <1>12 DEF LineInv, LineTypes
<1>14. \A y : y \in t.msgs <=> (y \in s.msgs /\ y # m) \/ y = x
  BY <1>1
<1>15. \/ t.mshr[i] = e /\ e.st = "-"
       \/ e.st \in {"STOM", "OTOM"} /\ t.mshr[i].st = "ITOM"
       \/ e.st \in Leaving /\ t.mshr[i].st = "ITOI"
  BY <1>5, <1>6, <1>10, <1>12 DEF Leaving
<1>16. t.entry = s.entry /\ t.owed = s.owed
  BY <1>1
<1>17. m.type = "INVALID" /\ ~Granted(s, i) /\ m.dst = i
  BY <1>1
<1> QED
  BY <1>x, <1>17, <1>3, <1>10, <1>12, <1>13, <1>14, <1>15, <1>16, GivesUp

\* A holder that is not about to take the line in has it in the cache or in an MSHR.
LEMMA HolderFacts ==
  ASSUME NEW l, NEW s, LineInv(l, s), NEW i \in L1s, Holds(s, i), ~Granted(s, i)
  PROVE  /\ s.cache[i] \in [st : CacheStates, data : Data]
         /\ s.cache[i].st # "I" => s.mshr[i].st = "-"
         /\ s.cache[i].st = "I" => \/ s.mshr[i].st \in {"STOM", "OTOM"}
                                   \/ s.mshr[i].st \in {"MTOI", "STOI", "ETOI", "OTOI"} /\ Asks(s, i)
         /\ DataOf(s, i) \in Data
<1>1. s.cache[i] \in [st : CacheStates, data : Data]
  BY DEF LineInv, LineTypes
<1>2. s.cache[i].st # "I" => s.mshr[i].st = "-"
  BY DEF LineInv, OnePlace
<1>3. s.cache[i].st = "I" => \/ s.mshr[i].st \in {"STOM", "OTOM"}
                             \/ s.mshr[i].st \in {"MTOI", "STOI", "ETOI", "OTOI"} /\ Asks(s, i)
  BY DEF Holds, Evicts, Leaving
<1>4. DataOf(s, i) \in Data
  BY <1>1, EntryFacts DEF DataOf
<1> QED BY <1>1, <1>2, <1>3, <1>4

\* GETM_FORWARD.
LEMMA GetMForwardKeeps ==
  ASSUME NEW l, NEW s, NEW t, LineInv(l, s), NEW i \in L1s, NEW m \in s.msgs,
         LineGetMForward(l, s, t, i, m)
  PROVE  LineInv(l, t)
<1> DEFINE x == Msg("GETM_RESP", RESP, i, m.arg, l, 0, DataOf(s, i))
           e == s.mshr[i]
           f == IF s.cache[i].st # "I" THEN e ELSE [e EXCEPT !.st = AfterGetM(@)]
<1>x. /\ x.type = "GETM_RESP" /\ x.src = i /\ x.dst = m.arg /\ x.line = l /\ x.arg = 0
      /\ x.data = DataOf(s, i)
  BY MsgFacts
<1>1. /\ m.type = "GETM_FORWARD" /\ ~Granted(s, i) /\ m.dst = i
      /\ t.cache = [s.cache EXCEPT ![i] = Absent]
      /\ t.mshr = [s.mshr EXCEPT ![i] = f]
      /\ t.msgs = (s.msgs \ {m}) \cup {x}
      /\ t.entry = s.entry /\ t.owed = s.owed /\ t.blk = s.blk /\ t.mem = s.mem
      /\ t.golden = s.golden
  BY DEF LineGetMForward, LineHandles, AtL1
<1> HIDE DEF x
<1>2. m.arg \in L1s /\ Holds(s, i)
  BY <1>1, About, L1Facts DEF LineInv, GetMSound, WellFormed
<1>h. /\ s.cache[i].st # "I" => e.st = "-"
      /\ s.cache[i].st = "I" => e.st \in {"STOM", "OTOM", "MTOI", "STOI", "ETOI", "OTOI"}
      /\ DataOf(s, i) \in Data
  BY <1>1, <1>2, HolderFacts
<1>3. WellFormed(l, x)
  BY <1>x, <1>2, <1>h, L1Facts DEF WellFormed, Request, MessageTypes
<1>4. s.cache \in [L1s -> [st : CacheStates, data : Data]] /\ s.mshr \in [L1s -> MSHREntry]
  BY DEF LineInv, LineTypes
<1>9. e \in MSHREntry
  BY EntryFacts
<1>10. /\ f \in MSHREntry /\ f.hasData = e.hasData /\ f.hasNeed = e.hasNeed /\ f.acks = e.acks
       /\ \/ f = e /\ e.st = "-"
          \/ e.st \in {"STOM", "OTOM"} /\ f.st = "ITOM"
          \/ e.st \in Leaving /\ f.st = "ITOI"
  <2>1. CASE s.cache[i].st # "I"
    BY <2>1, <1>9, <1>h
  <2>2. CASE s.cache[i].st = "I"
    <3> DEFINE st == AfterGetM(e.st)
    <3>1. \/ e.st \in {"STOM", "OTOM"} /\ st = "ITOM"
          \/ e.st \in Leaving /\ st = "ITOI"
      BY <2>2, <1>h DEF AfterGetM, Leaving
    <3>2. f = [e EXCEPT !.st = st]
      BY <2>2
    <3>3. st \in MSHRStates
      BY <3>1 DEF MSHRStates
    <3> HIDE DEF f, st
    <3>4. f \in MSHREntry /\ f.hasData = e.hasData /\ f.hasNeed = e.hasNeed /\ f.acks = e.acks
          /\ f.st = st
      BY <3>2, <3>3, <1>9 DEF MSHREntry
    <3> QED BY <3>1, <3>4
  <2> QED BY <2>1, <2>2
<1> HIDE DEF f
<1>12. /\ t.cache \in [L1s -> [st : CacheStates, data : Data]] /\ t.mshr \in [L1s -> MSHREntry]
       /\ t.cache[i].st = "I" /\ t.mshr[i] = f
       /\ \A k \in L1s \ {i} : t.mshr[k] = s.mshr[k] /\ t.cache[k] = s.cache[k]
  BY <1>1, <1>4, <1>10, AbsentFacts
<1>13. LineTypes(l, t)
  BY <1>1, <1>12 DEF LineInv, LineTypes
<1>14. \A y : y \in t.msgs <=> (y \in s.msgs /\ y # m) \/ y = x
  BY <1>1
<1>16. t.entry = s.entry /\ t.owed = s.owed
  BY <1>1
<1>17. m.type = "GETM_FORWARD" /\ ~Granted(s, i) /\ m.dst = i
  BY <1>1
<1> QED
  BY SMTT(30), <1>x, <1>17, <1>3, <1>10, <1>12, <1>13, <1>14, <1>16, GivesUp

\* A holder answers a read of another L1, as the owner.
LEMMA ServesRead ==
  ASSUME NEW l, NEW s, NEW t, LineInv(l, s), NEW i \in L1s, NEW m \in s.msgs, NEW x,
         m.type = "GETS_FORWARD", m.dst = i, ~Granted(s, i),
         WellFormed(l, x), x.type = "GETS_RESP", x.src = i, x.dst = m.arg,
         \A y : y \in t.msgs <=> (y \in s.msgs /\ y # m) \/ y = x,
         t.entry = s.entry, t.owed = s.owed, LineTypes(l, t),
         \A k \in L1s \ {i} : t.mshr[k] = s.mshr[k] /\ t.cache[k] = s.cache[k],
         \/ s.cache[i].st # "I" /\ t.cache[i].st = "O" /\ t.mshr[i] = s.mshr[i]
         \/ /\ s.cache[i].st = "I" /\ t.cache[i].st = "I"
            /\ \/ t.mshr[i].st = s.mshr[i].st /\ s.mshr[i].st \in {"STOM", "OTOM", "OTOI"}
               \/ t.mshr[i].st = "OTOI" /\ s.mshr[i].st \in Leaving
            /\ t.mshr[i].hasData = s.mshr[i].hasData /\ t.mshr[i].hasNeed = s.mshr[i].hasNeed
            /\ t.mshr[i].acks = s.mshr[i].acks
  PROVE  LineInv(l, t)
<1> DEFINE j == m.arg
<1>s. \A n \in s.msgs : /\ WellFormed(l, n) /\ Client(n) \in L1s
                        /\ Owing(n) => Requester(n) = Client(n) /\ ~Request(n)
                        /\ Grant(n) => ~Request(n) /\ ~Owing(n) /\ Client(n) = n.dst
                        /\ Carrying(n) => Owing(n)
                        /\ Token(n) => Owing(n)
  BY About
<1>m. /\ Owing(m) /\ Token(m) /\ ~Request(m) /\ ~Grant(m) /\ Requester(m) = j /\ Client(m) = j
      /\ s.owed /\ j \in L1s /\ i # MEM /\ i # LLC
  BY <1>s, L1Facts DEF Owing, Token, Request, Requester, Client, LineInv, OwingOwed, Grant
<1>o. \A y \in s.msgs : Owing(y) => y = m
  BY <1>m DEF LineInv, TokenAlone
<1>j. /\ j # i /\ Holds(s, i) /\ {i, j} \subseteq s.entry.exists
      /\ \A k \in L1s \ {i} : ~Exclusive(s, k)
  BY <1>m DEF LineInv, GetSSound
<1>x. /\ Owing(x) /\ Token(x) /\ ~Grant(x) /\ ~Request(x) /\ Requester(x) = j /\ Client(x) = j
      /\ ~FromMemory(x) /\ ~Carrying(x) /\ x.src # LLC
  BY <1>m, L1Facts DEF Owing, Token, Grant, Request, Requester, Client, FromMemory, Carrying
<1>ot. \A y \in t.msgs : Owing(y) => y = x
  BY <1>o
<1>a. \A k \in L1s : Asks(t, k) <=> Asks(s, k)
  BY <1>m, <1>x DEF Asks
<1>b. \A k \in L1s : Granted(t, k) <=> Granted(s, k)
  BY <1>m, <1>x DEF Granted
<1>p. /\ s.cache[i].st # "I" => s.mshr[i].st = "-"
      /\ s.cache[i].st = "I" => \/ s.mshr[i].st \in {"STOM", "OTOM"}
                                \/ s.mshr[i].st \in {"MTOI", "STOI", "ETOI", "OTOI"} /\ Asks(s, i)
  BY <1>j, HolderFacts
<1>hi. Holds(t, i) /\ ~Exclusive(t, i)
  <2>1. Holds(t, i)
    BY <1>p, <1>a DEF Holds, Evicts, Leaving
  <2>2. ~Exclusive(t, i)
    BY <1>p, <1>b DEF Exclusive, Evicts, Leaving
  <2> QED BY <2>1, <2>2
<1>h. \A k \in L1s : (Holds(t, k) <=> Holds(s, k)) /\ ~Exclusive(t, k)
  <2>1. \A k \in L1s \ {i} : (Holds(t, k) <=> Holds(s, k)) /\ (Exclusive(t, k) <=> Exclusive(s, k))
    BY <1>a, <1>b DEF Holds, Exclusive, Evicts
  <2> QED BY <2>1, <1>hi, <1>j
<1>g. \A k \in L1s : Engaged(s, k) => Engaged(t, k)
  BY <1>m, <1>x DEF Engaged
<1>e. s.mshr[j].st = "ITOS"
  BY <1>m DEF LineInv, Clients, Expected
<1>c. \A k \in L1s : ~t.mshr[k].hasData /\ ~t.mshr[k].hasNeed /\ t.mshr[k].acks = 0
  <2>1. \A k \in L1s \ {j} : ~Engaged(s, k)
    BY <1>m DEF Engaged
  <2>2. \A k \in L1s : ~s.mshr[k].hasData /\ ~s.mshr[k].hasNeed /\ s.mshr[k].acks = 0
    BY <2>1, <1>e DEF LineInv, Collected, Collecting
  <2>3. /\ t.mshr[i].hasData = s.mshr[i].hasData /\ t.mshr[i].hasNeed = s.mshr[i].hasNeed
        /\ t.mshr[i].acks = s.mshr[i].acks
    OBVIOUS
  <2> QED BY <2>2, <2>3
<1>1. WellFormedMsgs(l, t) /\ OnePlace(t) /\ Distinct(t) /\ OneRequest(t)
  <2>1. OnePlace(t)
    BY <1>p DEF OnePlace, LineInv, Leaving
  <2>2. WellFormedMsgs(l, t) /\ OneRequest(t)
    BY <1>x DEF WellFormedMsgs, OneRequest, LineInv
  <2>3. \A y \in s.msgs : y # m => ~(y.type = x.type /\ y.src = x.src /\ y.dst = x.dst)
    BY <1>o, <1>x DEF Owing
  <2>4. Distinct(t)
    BY <2>3 DEF Distinct, LineInv
  <2> QED BY <2>1, <2>2, <2>4
<1>2. Clients(t)
  <2>2. Expected(x, t.mshr[j].st)
    BY <1>e, <1>j, <1>m DEF Expected, Puts
  <2>3. ASSUME NEW y \in s.msgs PROVE Expected(y, t.mshr[Client(y)].st)
    <3>1. Expected(y, s.mshr[Client(y)].st) /\ Client(y) \in L1s
      BY <1>s DEF Clients, LineInv
    <3>2. CASE Client(y) # i
      BY <3>1, <3>2
    <3>3. CASE Client(y) = i
      BY <3>1, <3>3 DEF Expected, Leaving, Puts
    <3> QED BY <3>2, <3>3
  <2> QED BY <2>2, <2>3, <1>x DEF Clients
<1>3. AskedFirst(t) /\ NothingCollected(t) /\ OwingNotGranted(t)
  <2>1. ~Asks(s, j) /\ ~Granted(s, j)
    BY <1>m DEF LineInv, AskedFirst, OwingNotGranted
  <2>2. AskedFirst(t)
    BY <1>a, <1>s, <1>x, <2>1, <1>m DEF AskedFirst, LineInv
  <2>3. OwingNotGranted(t)
    BY <1>b, <1>ot, <1>x, <2>1, <1>m DEF OwingNotGranted
  <2>4. \A y \in s.msgs : Request(y) => y.src \in L1s
    BY <1>s DEF WellFormed
  <2>5. NothingCollected(t)
    BY <2>4, <1>x, <1>c DEF NothingCollected
  <2> QED BY <2>2, <2>3, <2>5
<1>4. OneRequester(t) /\ TokenAlone(t) /\ OwingOwed(t) /\ OneCarrier(t)
  BY <1>m, <1>x, <1>ot, <1>s DEF OneRequester, TokenAlone, OwingOwed, OneCarrier
<1>5. Collected(t) /\ Counted(t)
  <2>1. \A y \in t.msgs : y.type # "GETM_ACK"
    BY <1>ot DEF Owing
  <2>2. Counted(t)
    BY <2>1, <1>c DEF Counted
  <2>3. Collected(t)
    BY <1>c DEF Collected
  <2> QED BY <2>2, <2>3
<1>6. HoldersKnown(t) /\ KnownHold(t)
  <2>1. \A k \in L1s : Dismissed(s, k) => Dismissed(t, k)
    BY DEF Dismissed
  <2>2. \A k \in L1s : Served(s, k) => Served(t, k)
    BY <1>a, <1>g, <1>p DEF Served, Leaving
  <2> QED BY <2>1, <2>2, <1>h DEF HoldersKnown, KnownHold, LineInv, LineTypes
<1>7. OwnerKnown(t) /\ OneWriter(t)
  BY <1>h DEF OneWriter, OwnerKnown, LineInv
<1>8. InvalidSound(t) /\ AckSound(t) /\ GetMSound(t) /\ GetSSound(t)
  BY <1>ot DEF InvalidSound, AckSound, GetMSound, GetSSound, Owing
<1>9. RespSound(t)
  <2>1. \A y \in t.msgs : y.type = "GETS_RESP" /\ y.src # LLC => y = x
    BY <1>ot DEF Owing
  <2> QED BY <2>1, <1>h, <1>j DEF RespSound
<1>10. OwnerToBe(t) /\ MemorySound(t)
  <2>1. OwnerToBe(t)
    BY <1>ot DEF OwnerToBe
  <2>2. \A y \in t.msgs : ~FromMemory(y)
    BY <1>ot, <1>x, <1>s, L1Facts DEF FromMemory, Owing, WellFormed, MessageTypes, Request
  <2> QED BY <2>1, <2>2 DEF MemorySound
<1> QED BY <1>1, <1>2, <1>3, <1>4, <1>5, <1>6, <1>7, <1>8, <1>9, <1>10 DEF LineInv

\* GETS_FORWARD.
LEMMA GetSForwardKeeps ==
  ASSUME NEW l, NEW s, NEW t, LineInv(l, s), NEW i \in L1s, NEW m \in s.msgs,
         LineGetSForward(l, s, t, i, m)
  PROVE  LineInv(l, t)
<1> DEFINE x == Msg("GETS_RESP", RESP, i, m.arg, l, 1, DataOf(s, i))
           c == s.cache[i]
           e == s.mshr[i]
           d == IF c.st # "I" THEN Owned(c) ELSE c
           f == IF c.st = "I" /\ e.st \in {"MTOI", "ETOI", "STOI"} THEN [e EXCEPT !.st = "OTOI"] ELSE e
<1>x. /\ x.type = "GETS_RESP" /\ x.src = i /\ x.dst = m.arg /\ x.line = l /\ x.arg = 1
      /\ x.data = DataOf(s, i)
  BY MsgFacts
<1>1. /\ m.type = "GETS_FORWARD" /\ ~Granted(s, i) /\ m.dst = i
      /\ t.cache = [s.cache EXCEPT ![i] = d]
      /\ t.mshr = [s.mshr EXCEPT ![i] = f]
      /\ t.msgs = (s.msgs \ {m}) \cup {x}
      /\ t.entry = s.entry /\ t.owed = s.owed /\ t.blk = s.blk /\ t.mem = s.mem
      /\ t.golden = s.golden
  BY DEF LineGetSForward, LineHandles, AtL1
<1> HIDE DEF x
<1>2. m.arg \in L1s /\ Holds(s, i)
  BY <1>1, About, L1Facts DEF LineInv, GetSSound, WellFormed
<1>h. /\ c \in [st : CacheStates, data : Data]
      /\ c.st # "I" => e.st = "-"
      /\ c.st = "I" => e.st \in {"STOM", "OTOM", "MTOI", "STOI", "ETOI", "OTOI"}
      /\ DataOf(s, i) \in Data
  BY <1>1, <1>2, HolderFacts
<1>3. WellFormed(l, x)
  BY <1>x, <1>2, <1>h, L1Facts DEF WellFormed, Request, MessageTypes
<1>4. s.cache \in [L1s -> [st : CacheStates, data : Data]] /\ s.mshr \in [L1s -> MSHREntry]
  BY DEF LineInv, LineTypes
<1>5. e \in MSHREntry
  BY EntryFacts
<1>6. d \in [st : CacheStates, data : Data] /\ d.st = IF c.st # "I" THEN "O" ELSE "I"
  BY <1>h DEF Owned, CacheStates
<1>7. /\ f \in MSHREntry /\ f.hasData = e.hasData /\ f.hasNeed = e.hasNeed /\ f.acks = e.acks
      /\ c.st # "I" => f = e
      /\ c.st = "I" => \/ f.st = e.st /\ e.st \in {"STOM", "OTOM", "OTOI"}
                       \/ f.st = "OTOI" /\ e.st \in Leaving
  <2>1. CASE c.st = "I" /\ e.st \in {"MTOI", "ETOI", "STOI"}
    <3>1. f = [e EXCEPT !.st = "OTOI"]
      BY <2>1
    <3>2. "OTOI" \in MSHRStates /\ e.st \in Leaving
      BY <2>1 DEF MSHRStates, Leaving
    <3> HIDE DEF f
    <3>3. f \in MSHREntry /\ f.hasData = e.hasData /\ f.hasNeed = e.hasNeed /\ f.acks = e.acks
          /\ f.st = "OTOI"
      BY <3>1, <3>2, <1>5 DEF MSHREntry
    <3> QED BY <3>2, <3>3, <2>1
  <2>2. CASE ~(c.st = "I" /\ e.st \in {"MTOI", "ETOI", "STOI"})
    <3>1. f = e
      BY <2>2
    <3> QED BY <3>1, <2>2, <1>5, <1>h
  <2> QED BY <2>1, <2>2
<1> HIDE DEF d, f
<1>8. /\ t.cache \in [L1s -> [st : CacheStates, data : Data]] /\ t.mshr \in [L1s -> MSHREntry]
      /\ t.cache[i] = d /\ t.mshr[i] = f
      /\ \A k \in L1s \ {i} : t.mshr[k] = s.mshr[k] /\ t.cache[k] = s.cache[k]
  BY <1>1, <1>4, <1>6, <1>7
<1>9. LineTypes(l, t)
  BY <1>1, <1>8 DEF LineInv, LineTypes
<1>10. \A y : y \in t.msgs <=> (y \in s.msgs /\ y # m) \/ y = x
  BY <1>1
<1>11. m.type = "GETS_FORWARD" /\ ~Granted(s, i) /\ m.dst = i /\ t.entry = s.entry /\ t.owed = s.owed
  BY <1>1
<1> QED
  BY <1>x, <1>3, <1>6, <1>7, <1>8, <1>9, <1>10, <1>11, ServesRead

\* An unlocked line has no transaction on its way: the directory is exact.
LEMMA Quiet ==
  ASSUME NEW l, NEW s, LineInv(l, s), ~s.owed
  PROVE  /\ \A m \in s.msgs : ~Owing(m)
         /\ \A k \in L1s : Holds(s, k) <=> k \in s.entry.exists
         /\ \A k \in L1s : ~s.mshr[k].hasData /\ ~s.mshr[k].hasNeed /\ s.mshr[k].acks = 0
         /\ \A k \in L1s : ~Dismissed(s, k)
<1>1. \A m \in s.msgs : ~Owing(m)
  BY DEF LineInv, OwingOwed
<1>2. \A k \in L1s : ~Engaged(s, k)
  BY DEF Engaged
<1>3. \A k \in L1s : ~Dismissed(s, k)
  BY <1>1 DEF Dismissed, Owing
<1>4. \A k \in L1s : Holds(s, k) <=> k \in s.entry.exists
  BY <1>2, <1>3 DEF LineInv, HoldersKnown, KnownHold, Served
<1>5. \A k \in L1s : ~s.mshr[k].hasData /\ ~s.mshr[k].hasNeed /\ s.mshr[k].acks = 0
  BY <1>2 DEF LineInv, Collected
<1> QED BY <1>1, <1>3, <1>4, <1>5

\* The L1 whose request is served, and the others, whom it does not touch.
LEMMA AskerFacts ==
  ASSUME NEW l, NEW s, NEW t, LineInv(l, s), ~s.owed, NEW m \in s.msgs, Request(m), NEW N,
         t.cache = s.cache, t.mshr = s.mshr,
         \A y : y \in t.msgs <=> (y \in s.msgs /\ y # m) \/ y \in N,
         \A x \in N : ~Request(x) /\ Client(x) = m.src /\ (Grant(x) => x.dst = m.src)
  PROVE  /\ m.src \in L1s /\ m.arg = m.src /\ m.data \in Data
         /\ Expected(m, s.mshr[m.src].st) /\ s.mshr[m.src].st # "-"
         /\ \A y \in s.msgs : y # m => Client(y) # m.src
         /\ s.cache[m.src].st = "I" /\ ~Granted(s, m.src) /\ ~Asks(t, m.src)
         /\ \A k \in L1s \ {m.src} : /\ Asks(t, k) <=> Asks(s, k)
                                     /\ Granted(t, k) <=> Granted(s, k)
                                     /\ Holds(t, k) <=> Holds(s, k)
                                     /\ Exclusive(t, k) <=> Exclusive(s, k)
<1> DEFINE i == m.src
<1>1. WellFormed(l, m) /\ i \in L1s /\ m.arg = i /\ m.data \in Data /\ Client(m) = i
  BY About DEF WellFormed, Client
<1>2. Expected(m, s.mshr[i].st) /\ s.mshr[i].st # "-"
  <2>1. m.type # "GET_ACK"
    BY DEF Request
  <2> QED BY <1>1, <2>1, About DEF LineInv, Clients
<1>3. Asks(s, i)
  BY DEF Asks
<1>4. \A y \in s.msgs : y # m => Client(y) # i
  <2> SUFFICES ASSUME NEW y \in s.msgs, y # m, Client(y) = i PROVE FALSE
    OBVIOUS
  <2>1. ~Owing(y)
    BY Quiet
  <2>2. ~Request(y)
    BY DEF LineInv, OneRequest, Client
  <2>3. y.type # "GET_ACK"
    BY <2>1 DEF Owing
  <2> QED BY <1>3, <2>2, <2>3 DEF LineInv, AskedFirst
<1>5. ~Granted(s, i)
  BY <1>4, About DEF Granted
<1>6. s.cache[i].st = "I"
  BY <1>1, <1>2 DEF LineInv, OnePlace
<1>7. ~Asks(t, i)
  BY <1>4 DEF Asks, Client
<1>8. \A k \in L1s \ {i} : (Asks(t, k) <=> Asks(s, k)) /\ (Granted(t, k) <=> Granted(s, k))
  <2>1. \A k \in L1s \ {i} : Asks(t, k) <=> Asks(s, k)
    BY DEF Asks
  <2>2. ~Grant(m)
    BY DEF Grant, Request
  <2>3. \A k \in L1s \ {i} : Granted(t, k) <=> Granted(s, k)
    BY <2>2 DEF Granted
  <2> QED BY <2>1, <2>3
<1>9. \A k \in L1s \ {i} : (Holds(t, k) <=> Holds(s, k)) /\ (Exclusive(t, k) <=> Exclusive(s, k))
  BY <1>8 DEF Holds, Exclusive, Evicts
<1> QED BY <1>1, <1>2, <1>4, <1>5, <1>6, <1>7, <1>8, <1>9

\* The directory serves a request: what must hold of the messages it sends.
LEMMA Answers ==
  ASSUME NEW l, NEW s, NEW t, LineInv(l, s), ~s.owed, NEW m \in s.msgs, Request(m), NEW N,
         t.cache = s.cache, t.mshr = s.mshr, LineTypes(l, t),
         \A y : y \in t.msgs <=> (y \in s.msgs /\ y # m) \/ y \in N,
         \A x \in N : /\ WellFormed(l, x) /\ Client(x) = m.src /\ Expected(x, s.mshr[m.src].st)
                      /\ ~Request(x) /\ x.type \notin {"GET_ACK", "INVALID_ACK"}
                      /\ Grant(x) => x.dst = m.src
                      /\ x.type = "GETS_RESP" => x.src = LLC
                      /\ Owing(x) => t.owed /\ \A y \in N : ~Grant(y)
                      /\ x.type = "GETM_ACK" => x.arg = Cardinality(Unacknowledged(t)),
         \A x, y \in N : /\ x.type = y.type /\ x.dst = y.dst => x = y
                         /\ Token(x) => x = y
                         /\ Carrying(x) /\ Carrying(y) => x = y,
         HoldersKnown(t), KnownHold(t), OwnerKnown(t), OneWriter(t),
         InvalidSound(t), GetMSound(t), GetSSound(t), OwnerToBe(t), MemorySound(t)
  PROVE  LineInv(l, t)
<1> DEFINE i == m.src
<1>q. /\ \A y \in s.msgs : ~Owing(y)
      /\ \A k \in L1s : ~s.mshr[k].hasData /\ ~s.mshr[k].hasNeed /\ s.mshr[k].acks = 0
  BY Quiet
<1>f. /\ i \in L1s /\ ~Granted(s, i) /\ ~Asks(t, i)
      /\ \A y \in s.msgs : y # m => Client(y) # i
      /\ \A k \in L1s \ {i} : (Asks(t, k) <=> Asks(s, k)) /\ (Granted(t, k) <=> Granted(s, k))
  BY SMTT(30), AskerFacts
<1>s. \A n \in s.msgs : /\ WellFormed(l, n) /\ Client(n) \in L1s
                        /\ Grant(n) => ~Request(n) /\ ~Owing(n) /\ Client(n) = n.dst
                        /\ Carrying(n) => Owing(n)
                        /\ Token(n) => Owing(n)
  BY About
<1>x. \A x \in N : (Carrying(x) => Owing(x)) /\ (Token(x) => Owing(x)) /\ (Owing(x) => Requester(x) = i)
  <2> SUFFICES ASSUME NEW x \in N
               PROVE  (Carrying(x) => Owing(x)) /\ (Token(x) => Owing(x)) /\ (Owing(x) => Requester(x) = i)
    OBVIOUS
  <2>1. Owing(x) => Requester(x) = i
    BY DEF Client
  <2>2. Carrying(x) => Owing(x)
    BY DEF Carrying, Owing
  <2>3. Token(x) => Owing(x)
    BY DEF Token, Owing
  <2> QED BY <2>1, <2>2, <2>3
<1>o. \A y \in t.msgs : Owing(y) => y \in N
  BY <1>q
<1>1. WellFormedMsgs(l, t) /\ OnePlace(t) /\ OneRequest(t)
  <2>1. WellFormedMsgs(l, t)
    BY <1>s DEF WellFormedMsgs
  <2>2. OnePlace(t)
    BY DEF OnePlace, LineInv
  <2>3. OneRequest(t)
    BY DEF OneRequest, LineInv
  <2> QED BY <2>1, <2>2, <2>3
<1>2. Distinct(t)
  <2>1. ASSUME NEW x \in N, NEW y \in s.msgs, y # m, x.type = y.type, x.src = y.src, x.dst = y.dst
        PROVE  FALSE
    <3>1. ~Owing(y) /\ ~Request(y) /\ WellFormed(l, y) /\ WellFormed(l, x)
      BY <1>q, <1>s, <2>1 DEF Request
    <3>2. y.type \in {"GETS_RESP", "GETM_RESP", "PUT_ACK"}
      BY <3>1 DEF WellFormed, MessageTypes, Owing, Request
    <3>3. Client(y) = y.dst /\ Client(x) = x.dst
      BY <3>2, <2>1 DEF Client, Requester, Request
    <3> QED BY <3>3, <2>1, <1>f
  <2>2. \A x, y \in N : x.type = y.type /\ x.dst = y.dst => x = y
    OBVIOUS
  <2> QED BY <2>1, <2>2 DEF Distinct, LineInv
<1>3. Clients(t)
  BY DEF Clients, LineInv
<1>4. AskedFirst(t) /\ NothingCollected(t)
  <2>1. \A y \in s.msgs : Asks(t, Client(y)) => Asks(s, Client(y))
    BY <1>f, <1>s
  <2>2. AskedFirst(t)
    BY <2>1, <1>f DEF AskedFirst, LineInv
  <2>3. NothingCollected(t)
    BY DEF NothingCollected, LineInv
  <2> QED BY <2>2, <2>3
<1>5. OwingNotGranted(t)
  <2>1. \A y \in t.msgs : Owing(y) => ~Granted(t, i)
    BY <1>o, <1>f DEF Granted
  <2> QED BY <2>1, <1>o, <1>x DEF OwingNotGranted
<1>6. OneRequester(t) /\ TokenAlone(t) /\ OwingOwed(t)
  BY <1>o, <1>x DEF OneRequester, TokenAlone, OwingOwed
<1>7. OneCarrier(t)
  <2>1. \A y \in t.msgs : Carrying(y) => y \in N
    BY <1>q, <1>s
  <2> QED BY <2>1, <1>q, <1>x, <1>f DEF OneCarrier
<1>8. Collected(t) /\ Counted(t)
  <2>1. Collected(t)
    BY <1>q DEF Collected
  <2>2. \A y \in t.msgs : y.type = "GETM_ACK" => y \in N /\ y.dst = i
    BY <1>q DEF Owing, Client, Requester
  <2>4. Cardinality(Unacknowledged(t)) \in Nat
    BY L1sFinite DEF Unacknowledged
  <2>5. Counted(t)
    BY <1>q, <1>f, <2>2, <2>4 DEF Counted
  <2> QED BY <2>1, <2>5
<1>9. AckSound(t) /\ RespSound(t)
  <2>1. \A y \in t.msgs : y.type = "INVALID_ACK" => FALSE
    BY <1>q DEF Owing
  <2>2. \A y \in t.msgs : y.type = "GETS_RESP" /\ y.src # LLC => FALSE
    BY <1>q DEF Owing
  <2> QED BY <2>1, <2>2 DEF AckSound, RespSound
<1> QED BY <1>1, <1>2, <1>3, <1>4, <1>5, <1>6, <1>7, <1>8, <1>9 DEF LineInv

\* AskerFacts for one message.
LEMMA AskerOne ==
  ASSUME NEW l, NEW s, NEW t, LineInv(l, s), ~s.owed, NEW m \in s.msgs, Request(m), NEW x,
         t.cache = s.cache, t.mshr = s.mshr,
         \A y : y \in t.msgs <=> (y \in s.msgs /\ y # m) \/ y = x,
         ~Request(x), Client(x) = m.src, Grant(x) => x.dst = m.src
  PROVE  /\ Expected(m, s.mshr[m.src].st) /\ s.mshr[m.src].st # "-"
         /\ \A y \in s.msgs : y # m => Client(y) # m.src
         /\ s.cache[m.src].st = "I" /\ ~Granted(s, m.src) /\ ~Asks(t, m.src)
         /\ \A k \in L1s \ {m.src} : /\ Holds(t, k) <=> Holds(s, k)
                                     /\ Exclusive(t, k) <=> Exclusive(s, k)
<1> DEFINE N == {x}
<1>1. \A y : y \in t.msgs <=> (y \in s.msgs /\ y # m) \/ y \in N
  OBVIOUS
<1>2. \A z \in N : ~Request(z) /\ Client(z) = m.src /\ (Grant(z) => z.dst = m.src)
  OBVIOUS
<1> HIDE DEF N
<1> QED BY <1>1, <1>2, AskerFacts

\* Answers for one message.
LEMMA AnswersOne ==
  ASSUME NEW l, NEW s, NEW t, LineInv(l, s), ~s.owed, NEW m \in s.msgs, Request(m), NEW x,
         t.cache = s.cache, t.mshr = s.mshr, LineTypes(l, t),
         \A y : y \in t.msgs <=> (y \in s.msgs /\ y # m) \/ y = x,
         WellFormed(l, x), Client(x) = m.src, Expected(x, s.mshr[m.src].st), ~Request(x),
         x.type \notin {"GET_ACK", "INVALID_ACK", "GETM_ACK"},
         Grant(x) => x.dst = m.src,
         x.type = "GETS_RESP" => x.src = LLC,
         Owing(x) => t.owed /\ ~Grant(x),
         HoldersKnown(t), KnownHold(t), OwnerKnown(t), OneWriter(t),
         InvalidSound(t), GetMSound(t), GetSSound(t), OwnerToBe(t), MemorySound(t)
  PROVE  LineInv(l, t)
<1> DEFINE N == {x}
<1>1. \A y : y \in t.msgs <=> (y \in s.msgs /\ y # m) \/ y \in N
  OBVIOUS
<1>2. \A z \in N : /\ WellFormed(l, z) /\ Client(z) = m.src /\ Expected(z, s.mshr[m.src].st)
                   /\ ~Request(z) /\ z.type \notin {"GET_ACK", "INVALID_ACK"}
                   /\ Grant(z) => z.dst = m.src
                   /\ z.type = "GETS_RESP" => z.src = LLC
                   /\ Owing(z) => t.owed /\ \A y \in N : ~Grant(y)
                   /\ z.type = "GETM_ACK" => z.arg = Cardinality(Unacknowledged(t))
  OBVIOUS
<1>3. \A z, y \in N : z = y
  OBVIOUS
<1> HIDE DEF N
<1> QED BY <1>1, <1>2, <1>3, Answers

\* GETS or GETM of a line only the block array has.
LEMMA GrantedKeeps ==
  ASSUME NEW l, NEW s, NEW t, LineInv(l, s), ~s.owed, NEW m \in s.msgs,
         m.type \in {"GETS", "GETM"}, s.entry.exists = {}, s.blk # NotHere,
         t.blk = s.blk, t.mem = s.mem, NEW x,
         \/ m.type = "GETS" /\ x = FromLLC("GETS_RESP", RESP, m.arg, l, 0, s.blk)
         \/ m.type = "GETM" /\ x = FromLLC("GETM_RESP", RESP, m.arg, l, 1, s.blk),
         AtLLC(s, t, m, {x}, Only(m.arg), FALSE)
  PROVE  LineInv(l, t)
<1> DEFINE i == m.src
<1>1. Request(m) /\ m.arg = i /\ i \in L1s
  BY About DEF Request, WellFormed
<1>2. /\ x.src = LLC /\ x.dst = i /\ x.line = l /\ x.data = s.blk
      /\ \/ m.type = "GETS" /\ x.type = "GETS_RESP" /\ x.arg = 0
         \/ m.type = "GETM" /\ x.type = "GETM_RESP" /\ x.arg = 1
  BY <1>1, MsgFacts DEF FromLLC
<1>3. /\ t.cache = s.cache /\ t.mshr = s.mshr /\ t.golden = s.golden
      /\ t.entry = Only(i) /\ ~t.owed /\ t.owed = FALSE
      /\ \A y : y \in t.msgs <=> (y \in s.msgs /\ y # m) \/ y = x
  BY <1>1 DEF AtLLC
<1>4. Only(i).exists = {i} /\ Only(i).owner = i /\ Only(i) \in [exists : SUBSET L1s, owner : L1s, dirty : BOOLEAN]
  BY <1>1 DEF Only
<1>5. LineTypes(l, t)
  BY <1>3, <1>4 DEF LineInv, LineTypes
<1>6. WellFormed(l, x)
  <2>1. s.blk \in Data
    BY DEF LineInv, LineTypes
  <2> QED BY <1>1, <1>2, <2>1, L1Facts DEF WellFormed, MessageTypes, Request
<1>7. /\ ~Request(x) /\ Client(x) = i /\ Grant(x) /\ ~Owing(x) /\ ~Token(x) /\ ~Carrying(x)
      /\ ~FromMemory(x)
  BY <1>1, <1>2, L1Facts DEF Request, Client, Requester, Grant, Owing, Token, Carrying, FromMemory
<1>8. /\ Expected(m, s.mshr[i].st) /\ s.mshr[i].st # "-"
      /\ s.cache[i].st = "I" /\ ~Granted(s, i)
      /\ \A k \in L1s \ {i} : /\ Holds(t, k) <=> Holds(s, k)
                              /\ Exclusive(t, k) <=> Exclusive(s, k)
  BY <1>1, <1>3, <1>7, <1>2, AskerOne
<1>9. \A k \in L1s : ~Holds(s, k)
  BY Quiet
<1>10. Expected(x, s.mshr[i].st)
  <2>1. s.mshr[i].st \notin {"STOM", "OTOM"}
    BY <1>1, <1>9 DEF Holds
  <2> QED BY <1>2, <1>8, <2>1 DEF Expected, Puts
<1>11. Holds(t, i) /\ \A k \in L1s \ {i} : ~Holds(t, k) /\ ~Exclusive(t, k)
  <2>1. Granted(t, i)
    BY <1>3, <1>7, <1>2 DEF Granted
  <2> QED BY <2>1, <1>8, <1>9, ExclusiveHolds DEF Holds
<1>o. \A y \in t.msgs : ~Owing(y)
  BY <1>3, <1>7, Quiet
<1>s. \A y \in t.msgs : WellFormed(l, y)
  BY <1>3, <1>6, About
<1>12. HoldersKnown(t) /\ KnownHold(t) /\ OwnerKnown(t) /\ OneWriter(t)
  BY <1>3, <1>4, <1>11 DEF HoldersKnown, KnownHold, OwnerKnown, OneWriter
<1>13. InvalidSound(t) /\ GetMSound(t) /\ GetSSound(t) /\ OwnerToBe(t)
  BY <1>o DEF InvalidSound, GetMSound, GetSSound, OwnerToBe, Owing
<1>14. MemorySound(t)
  BY <1>o, <1>s, L1Facts DEF MemorySound, FromMemory, Owing, WellFormed, MessageTypes, Request
<1>15. /\ WellFormed(l, x) /\ Client(x) = m.src /\ Expected(x, s.mshr[m.src].st) /\ ~Request(x)
       /\ x.type \in {"GETS_RESP", "GETM_RESP"} /\ x.dst = m.src /\ x.src = LLC /\ ~Owing(x)
  BY <1>2, <1>6, <1>7, <1>10
<1> HIDE DEF i
<1> QED
  BY <1>1, <1>3, <1>5, <1>15, <1>12, <1>13, <1>14, AnswersOne

\* GETS or GETM of a line only memory has.
LEMMA FetchedKeeps ==
  ASSUME NEW l, NEW s, NEW t, LineInv(l, s), ~s.owed, NEW m \in s.msgs,
         m.type \in {"GETS", "GETM"}, s.entry.exists = {},
         t.blk = s.blk, t.mem = s.mem, NEW x,
         \/ m.type = "GETS" /\ x = FromLLC("GETS_FORWARD", REQ, MEM, l, m.arg, NoData)
         \/ m.type = "GETM" /\ x = FromLLC("GETM_FORWARD", REQ, MEM, l, m.arg, NoData),
         AtLLC(s, t, m, {x}, Only(m.arg), TRUE)
  PROVE  LineInv(l, t)
<1> DEFINE i == m.src
<1>1. Request(m) /\ m.arg = i /\ i \in L1s
  BY About DEF Request, WellFormed
<1>2. /\ x.src = LLC /\ x.dst = MEM /\ x.line = l /\ x.arg = i /\ x.data \in Data
      /\ \/ m.type = "GETS" /\ x.type = "GETS_FORWARD"
         \/ m.type = "GETM" /\ x.type = "GETM_FORWARD"
  BY <1>1, MsgFacts, DataFacts DEF FromLLC
<1>3. /\ t.cache = s.cache /\ t.mshr = s.mshr /\ t.golden = s.golden
      /\ t.entry = Only(i) /\ t.owed /\ t.owed = TRUE
      /\ \A y : y \in t.msgs <=> (y \in s.msgs /\ y # m) \/ y = x
  BY <1>1 DEF AtLLC
<1>4. Only(i).exists = {i} /\ Only(i).owner = i /\ Only(i) \in [exists : SUBSET L1s, owner : L1s, dirty : BOOLEAN]
  BY <1>1 DEF Only
<1>5. LineTypes(l, t)
  BY <1>3, <1>4 DEF LineInv, LineTypes
<1>6. WellFormed(l, x)
  BY <1>1, <1>2, L1Facts DEF WellFormed, MessageTypes, Request
<1>7. /\ ~Request(x) /\ Client(x) = i /\ ~Grant(x) /\ Owing(x) /\ Token(x) /\ ~Carrying(x)
      /\ Requester(x) = i
  BY <1>1, <1>2, L1Facts DEF Request, Client, Requester, Grant, Owing, Token, Carrying
<1>8. /\ Expected(m, s.mshr[i].st) /\ s.mshr[i].st # "-"
      /\ s.cache[i].st = "I" /\ ~Granted(s, i) /\ ~Asks(t, i)
      /\ \A k \in L1s \ {i} : /\ Holds(t, k) <=> Holds(s, k)
                              /\ Exclusive(t, k) <=> Exclusive(s, k)
  BY <1>1, <1>3, <1>7, <1>2, AskerOne
<1>9. \A k \in L1s : ~Holds(s, k)
  BY Quiet
<1>10. Expected(x, s.mshr[i].st) /\ s.mshr[i].st \in {"ITOS", "ITOM"}
  <2>1. s.mshr[i].st \notin {"STOM", "OTOM"}
    BY <1>1, <1>9 DEF Holds
  <2> QED BY <1>2, <1>8, <2>1 DEF Expected, Puts
<1>11. \A k \in L1s : ~Holds(t, k) /\ ~Exclusive(t, k)
  <2>1. ~Granted(t, i)
    BY <1>3, <1>7, <1>8 DEF Granted
  <2>2. ~Holds(t, i)
    BY <2>1, <1>3, <1>8, <1>10 DEF Holds, Evicts, Leaving
  <2> QED BY <2>2, <1>8, <1>9, ExclusiveHolds
<1>o. \A y \in t.msgs : Owing(y) => y = x
  BY <1>3, Quiet
<1>s. \A y \in t.msgs : WellFormed(l, y)
  BY <1>3, <1>6, About
<1>12. HoldersKnown(t) /\ KnownHold(t) /\ OwnerKnown(t) /\ OneWriter(t)
  <2>1. Served(t, i)
    BY <1>3, <1>o, <1>7, <1>2, <1>8, <1>10 DEF Served, Engaged
  <2> QED BY <2>1, <1>3, <1>4, <1>11 DEF HoldersKnown, KnownHold, OwnerKnown, OneWriter
<1>13. InvalidSound(t) /\ GetMSound(t) /\ GetSSound(t) /\ OwnerToBe(t)
  <2>1. InvalidSound(t)
    BY <1>o, <1>2 DEF InvalidSound, Owing
  <2>2. GetMSound(t) /\ GetSSound(t)
    BY <1>o, <1>2 DEF GetMSound, GetSSound, Owing
  <2>3. OwnerToBe(t)
    BY <1>o, <1>7, <1>3, <1>4 DEF OwnerToBe
  <2> QED BY <2>1, <2>2, <2>3
<1>14. MemorySound(t)
  <2>1. \A y \in t.msgs : FromMemory(y) => Owing(y)
    BY <1>s, L1Facts DEF FromMemory, Owing, WellFormed, MessageTypes, Request
  <2> QED BY <2>1, <1>o, <1>7, <1>3, <1>4, <1>11 DEF MemorySound
<1>15. /\ WellFormed(l, x) /\ Client(x) = m.src /\ Expected(x, s.mshr[m.src].st) /\ ~Request(x)
       /\ x.type \in {"GETS_FORWARD", "GETM_FORWARD"} /\ ~Grant(x) /\ t.owed
  BY <1>2, <1>3, <1>6, <1>7, <1>10
<1> HIDE DEF i
<1> QED
  BY <1>1, <1>3, <1>5, <1>15, <1>12, <1>13, <1>14, AnswersOne

\* GETS of a line some L1 holds.
LEMMA ForwardedKeeps ==
  ASSUME NEW l, NEW s, NEW t, LineInv(l, s), ~s.owed, NEW m \in s.msgs,
         m.type = "GETS", s.entry.exists # {}, t.blk = s.blk, t.mem = s.mem,
         AtLLC(s, t, m, {FromLLC("GETS_FORWARD", REQ, s.entry.owner, l, m.arg, NoData)},
               With(s.entry, m.arg), TRUE)
  PROVE  LineInv(l, t)
<1> DEFINE i == m.src
           o == s.entry.owner
           x == FromLLC("GETS_FORWARD", REQ, o, l, m.arg, NoData)
<1>1. Request(m) /\ m.arg = i /\ i \in L1s
  BY About DEF Request, WellFormed
<1>2. /\ x.src = LLC /\ x.dst = o /\ x.line = l /\ x.arg = i /\ x.data \in Data
      /\ x.type = "GETS_FORWARD"
  BY <1>1, MsgFacts, DataFacts DEF FromLLC
<1> HIDE DEF x
<1>3. /\ t.cache = s.cache /\ t.mshr = s.mshr /\ t.golden = s.golden
      /\ t.entry = With(s.entry, i) /\ t.owed /\ t.owed = TRUE
      /\ \A y : y \in t.msgs <=> (y \in s.msgs /\ y # m) \/ y = x
  BY <1>1 DEF AtLLC, x
<1>e. s.entry \in [exists : SUBSET L1s, owner : L1s, dirty : BOOLEAN] /\ o \in s.entry.exists /\ o \in L1s
  BY DEF LineInv, LineTypes, OwnerKnown
<1>4. /\ t.entry.exists = s.entry.exists \cup {i} /\ t.entry.owner = o
      /\ t.entry \in [exists : SUBSET L1s, owner : L1s, dirty : BOOLEAN]
  BY <1>1, <1>3, <1>e DEF With
<1>5. LineTypes(l, t)
  BY <1>3, <1>4 DEF LineInv, LineTypes
<1>6. WellFormed(l, x)
  BY <1>1, <1>2, <1>e, L1Facts DEF WellFormed, MessageTypes, Request
<1>7. /\ ~Request(x) /\ Client(x) = i /\ ~Grant(x) /\ Owing(x) /\ Token(x) /\ ~Carrying(x)
      /\ Requester(x) = i
  BY <1>1, <1>2, L1Facts DEF Request, Client, Requester, Grant, Owing, Token, Carrying
<1>8. /\ Expected(m, s.mshr[i].st) /\ s.mshr[i].st # "-"
      /\ s.cache[i].st = "I" /\ ~Granted(s, i) /\ ~Asks(t, i)
      /\ \A k \in L1s \ {i} : /\ Holds(t, k) <=> Holds(s, k)
                              /\ Exclusive(t, k) <=> Exclusive(s, k)
  BY <1>1, <1>3, <1>7, <1>2, AskerOne
<1>9. \A k \in L1s : Holds(s, k) <=> k \in s.entry.exists
  BY Quiet
<1>10. s.mshr[i].st = "ITOS" /\ Expected(x, s.mshr[i].st)
  BY <1>2, <1>8 DEF Expected, Puts
<1>11. ~Holds(s, i) /\ ~Holds(t, i)
  <2>1. ~Granted(t, i)
    BY <1>3, <1>7, <1>8 DEF Granted
  <2> QED BY <2>1, <1>3, <1>8, <1>10 DEF Holds, Evicts, Leaving
<1>12. o # i /\ Holds(t, o) /\ \A k \in L1s \ {o} : ~Exclusive(t, k)
  <2>1. o # i /\ Holds(s, o) /\ Holds(t, o)
    BY <1>e, <1>8, <1>9, <1>11
  <2>2. \A k \in L1s \ {o} : ~Exclusive(s, k)
    BY <2>1, <1>e DEF LineInv, OneWriter
  <2>3. ~Exclusive(t, i)
    BY <1>11, ExclusiveHolds
  <2> QED BY <2>1, <2>2, <2>3, <1>8
<1>o. \A y \in t.msgs : Owing(y) => y = x
  BY <1>3, Quiet
<1>s. \A y \in t.msgs : WellFormed(l, y)
  BY <1>3, <1>6, About
<1>13. HoldersKnown(t) /\ KnownHold(t) /\ OwnerKnown(t) /\ OneWriter(t)
  <2>1. Served(t, i)
    BY <1>3, <1>o, <1>7, <1>2, <1>8, <1>10 DEF Served, Engaged
  <2>2. HoldersKnown(t) /\ KnownHold(t) /\ OwnerKnown(t)
    BY <2>1, <1>4, <1>e, <1>8, <1>9, <1>11 DEF HoldersKnown, KnownHold, OwnerKnown
  <2>3. OneWriter(t)
    BY <1>8, <1>11, ExclusiveHolds DEF OneWriter, LineInv
  <2> QED BY <2>2, <2>3
<1>14. InvalidSound(t) /\ GetMSound(t) /\ GetSSound(t) /\ OwnerToBe(t) /\ MemorySound(t)
  <2>1. InvalidSound(t)
    BY <1>o, <1>2 DEF InvalidSound, Owing
  <2>2. GetMSound(t)
    BY <1>o, <1>2 DEF GetMSound, Owing
  <2>3. GetSSound(t)
    <3>1. \A y \in t.msgs : y.type = "GETS_FORWARD" => y = x
      BY <1>o DEF Owing
    <3> QED BY <3>1, <1>2, <1>4, <1>e, <1>12 DEF GetSSound
  <2>4. OwnerToBe(t)
    BY <1>o, <1>2 DEF OwnerToBe
  <2>5. \A y \in t.msgs : FromMemory(y) => Owing(y)
    BY <1>s, L1Facts DEF FromMemory, Owing, WellFormed, MessageTypes, Request
  <2>6. ~FromMemory(x)
    BY <1>2, <1>e, L1Facts DEF FromMemory
  <2> QED BY <2>1, <2>2, <2>3, <2>4, <2>5, <2>6, <1>o DEF MemorySound
<1>15. /\ WellFormed(l, x) /\ Client(x) = m.src /\ Expected(x, s.mshr[m.src].st) /\ ~Request(x)
       /\ x.type = "GETS_FORWARD" /\ ~Grant(x) /\ t.owed
  BY <1>2, <1>3, <1>6, <1>7, <1>10
<1> HIDE DEF i
<1> QED
  BY <1>1, <1>3, <1>5, <1>15, <1>13, <1>14, AnswersOne

\* What the directory sends for a GETM of a line that is held.
LEMMA GetMMessages ==
  ASSUME NEW l, NEW e \in [exists : SUBSET L1s, owner : L1s, dirty : BOOLEAN],
         e.owner \in e.exists, NEW i \in L1s
  PROVE  /\ Invalidated(e, i) \in SUBSET L1s /\ Invalidated(e, i) \subseteq e.exists
         /\ i \notin Invalidated(e, i)
         /\ \A x \in MsgsForGetM(e, l, i) :
              /\ WellFormed(l, x) /\ x.src = LLC
              /\ \/ x.type = "INVALID" /\ x.dst \in Invalidated(e, i) /\ x.arg = i
                 \/ x.type = "GETM_FORWARD" /\ i \notin e.exists /\ x.dst = e.owner /\ x.arg = i
                 \/ x.type = "GETM_ACK" /\ x.dst = i /\ x.arg = Cardinality(Invalidated(e, i))
         /\ \A d \in Invalidated(e, i) : \E x \in MsgsForGetM(e, l, i) : x.type = "INVALID" /\ x.dst = d
         /\ \A x, y \in MsgsForGetM(e, l, i) : x.type = y.type /\ x.dst = y.dst => x = y
<1> DEFINE V == Invalidated(e, i)
           Inval(d) == FromLLC("INVALID", RESP, d, l, i, NoData)
           fwd == FromLLC("GETM_FORWARD", REQ, e.owner, l, i, NoData)
           ack == FromLLC("GETM_ACK", RESP, i, l, Cardinality(V), NoData)
           N == MsgsForGetM(e, l, i)
<1>1. V \in SUBSET L1s /\ V \subseteq e.exists /\ i \notin V /\ Cardinality(V) \in Nat
  <2>1. V \in SUBSET L1s /\ V \subseteq e.exists /\ i \notin V
    BY DEF Invalidated
  <2> QED BY <2>1, L1sFinite
<1>2. \A x : x \in N <=> (\E d \in V : x = Inval(d)) \/ (i \notin e.exists /\ x = fwd) \/ x = ack
  BY DEF MsgsForGetM
<1>3. \A d : /\ Inval(d).type = "INVALID" /\ Inval(d).src = LLC /\ Inval(d).dst = d
             /\ Inval(d).arg = i /\ Inval(d).line = l /\ Inval(d).data \in Data
  BY MsgFacts, DataFacts DEF FromLLC
<1>4. /\ fwd.type = "GETM_FORWARD" /\ fwd.src = LLC /\ fwd.dst = e.owner /\ fwd.arg = i
      /\ fwd.line = l /\ fwd.data \in Data
  BY MsgFacts, DataFacts DEF FromLLC
<1>5. /\ ack.type = "GETM_ACK" /\ ack.src = LLC /\ ack.dst = i /\ ack.arg = Cardinality(V)
      /\ ack.line = l /\ ack.data \in Data
  BY MsgFacts, DataFacts DEF FromLLC
<1> HIDE DEF V, Inval, fwd, ack, N
<1>6. \A d \in V : WellFormed(l, Inval(d))
  BY <1>1, <1>3 DEF WellFormed, MessageTypes, Request
<1>7. WellFormed(l, fwd) /\ WellFormed(l, ack)
  BY <1>1, <1>4, <1>5 DEF WellFormed, MessageTypes, Request
<1>8. \A x \in N :
              /\ WellFormed(l, x) /\ x.src = LLC
              /\ \/ x.type = "INVALID" /\ x.dst \in V /\ x.arg = i
                 \/ x.type = "GETM_FORWARD" /\ i \notin e.exists /\ x.dst = e.owner /\ x.arg = i
                 \/ x.type = "GETM_ACK" /\ x.dst = i /\ x.arg = Cardinality(V)
  BY <1>2, <1>3, <1>4, <1>5, <1>6, <1>7
<1>9. \A d \in V : \E x \in N : x.type = "INVALID" /\ x.dst = d
  BY <1>2, <1>3
<1>11. \A x, y \in N : x.type = y.type /\ x.dst = y.dst => x = y
  BY <1>2, <1>3, <1>4, <1>5
<1> QED BY <1>1, <1>8, <1>9, <1>11 DEF V, N

\* Without a copy of its own the requester gets the data from the owner.
LEMMA GetMForwarded ==
  ASSUME NEW l, NEW e, NEW i, i \notin e.exists
  PROVE  \E x \in MsgsForGetM(e, l, i) : x.type = "GETM_FORWARD" /\ x.dst = e.owner
<1> DEFINE fwd == FromLLC("GETM_FORWARD", REQ, e.owner, l, i, NoData)
<1>1. fwd \in MsgsForGetM(e, l, i)
  BY DEF MsgsForGetM
<1>2. fwd.type = "GETM_FORWARD" /\ fwd.dst = e.owner
  BY MsgFacts DEF FromLLC
<1> QED BY <1>1, <1>2

\* GETM of a line some L1 holds.
LEMMA TakenOverKeeps ==
  ASSUME NEW l, NEW s, NEW t, LineInv(l, s), ~s.owed, NEW m \in s.msgs,
         m.type = "GETM", s.entry.exists # {}, t.blk = NotHere, t.mem = s.mem,
         AtLLC(s, t, m, MsgsForGetM(s.entry, l, m.arg), Only(m.arg), TRUE)
  PROVE  LineInv(l, t)
<1> DEFINE i == m.src
           o == s.entry.owner
           V == Invalidated(s.entry, i)
           N == MsgsForGetM(s.entry, l, i)
<1>1. Request(m) /\ m.arg = i /\ i \in L1s
  BY About DEF Request, WellFormed
<1>e. s.entry \in [exists : SUBSET L1s, owner : L1s, dirty : BOOLEAN] /\ o \in s.entry.exists /\ o \in L1s
  BY DEF LineInv, LineTypes, OwnerKnown
<1>v. V = s.entry.exists \ (IF i \in s.entry.exists THEN {i} ELSE {o})
  BY DEF Invalidated
<1>2. /\ V \in SUBSET L1s /\ V \subseteq s.entry.exists /\ i \notin V
      /\ \A x \in N :
           /\ WellFormed(l, x) /\ x.src = LLC
           /\ \/ x.type = "INVALID" /\ x.dst \in V /\ x.arg = i
              \/ x.type = "GETM_FORWARD" /\ i \notin s.entry.exists /\ x.dst = o /\ x.arg = i
              \/ x.type = "GETM_ACK" /\ x.dst = i /\ x.arg = Cardinality(V)
      /\ \A d \in V : \E x \in N : x.type = "INVALID" /\ x.dst = d
      /\ i \notin s.entry.exists => \E x \in N : x.type = "GETM_FORWARD" /\ x.dst = o
      /\ \A x, y \in N : x.type = y.type /\ x.dst = y.dst => x = y
  <2> DEFINE e == s.entry
  <2>1. e \in [exists : SUBSET L1s, owner : L1s, dirty : BOOLEAN] /\ e.owner \in e.exists /\ i \in L1s
    BY <1>1, <1>e
  <2> HIDE DEF e, i
  <2>2. /\ Invalidated(e, i) \in SUBSET L1s /\ Invalidated(e, i) \subseteq e.exists
        /\ i \notin Invalidated(e, i)
    BY <2>1, GetMMessages
  <2>3. \A x \in MsgsForGetM(e, l, i) :
              /\ WellFormed(l, x) /\ x.src = LLC
              /\ \/ x.type = "INVALID" /\ x.dst \in Invalidated(e, i) /\ x.arg = i
                 \/ x.type = "GETM_FORWARD" /\ i \notin e.exists /\ x.dst = e.owner /\ x.arg = i
                 \/ x.type = "GETM_ACK" /\ x.dst = i /\ x.arg = Cardinality(Invalidated(e, i))
    BY <2>1, GetMMessages
  <2>4. \A d \in Invalidated(e, i) : \E x \in MsgsForGetM(e, l, i) : x.type = "INVALID" /\ x.dst = d
    BY SMTT(30), <2>1, GetMMessages
  <2>5. i \notin e.exists =>
          \E x \in MsgsForGetM(e, l, i) : x.type = "GETM_FORWARD" /\ x.dst = e.owner
    BY GetMForwarded
  <2>6. \A x, y \in MsgsForGetM(e, l, i) : x.type = y.type /\ x.dst = y.dst => x = y
    BY <2>1, GetMMessages
  <2> HIDE DEF V, N
  <2>7. V = Invalidated(e, i) /\ N = MsgsForGetM(e, l, i) /\ o = e.owner /\ s.entry.exists = e.exists
    BY DEF V, N, e
  <2> QED BY <2>2, <2>3, <2>4, <2>5, <2>6, <2>7
<1>3. /\ t.cache = s.cache /\ t.mshr = s.mshr /\ t.golden = s.golden
      /\ t.entry = Only(i) /\ t.owed /\ t.owed = TRUE
      /\ \A y : y \in t.msgs <=> (y \in s.msgs /\ y # m) \/ y \in N
  BY <1>1 DEF AtLLC
<1> HIDE DEF N, V
<1>4. Only(i).exists = {i} /\ Only(i).owner = i /\ Only(i) \in [exists : SUBSET L1s, owner : L1s, dirty : BOOLEAN]
  BY <1>1 DEF Only
<1>5. LineTypes(l, t)
  BY <1>3, <1>4 DEF LineInv, LineTypes
<1>7. \A x \in N : /\ ~Request(x) /\ Client(x) = i /\ ~Grant(x) /\ Owing(x) /\ ~Token(x)
                   /\ Requester(x) = i /\ (Carrying(x) => x.type = "GETM_FORWARD")
                   /\ ~FromMemory(x)
  <2> SUFFICES ASSUME NEW x \in N
               PROVE  /\ ~Request(x) /\ Client(x) = i /\ ~Grant(x) /\ Owing(x) /\ ~Token(x)
                      /\ Requester(x) = i /\ (Carrying(x) => x.type = "GETM_FORWARD")
                      /\ ~FromMemory(x)
    OBVIOUS
  <2>1. CASE x.type = "INVALID" /\ x.dst \in V /\ x.arg = i
    BY <2>1, <1>2, L1Facts DEF Request, Client, Requester, Grant, Owing, Token, Carrying, FromMemory
  <2>2. CASE x.type = "GETM_FORWARD" /\ x.dst = o /\ x.arg = i
    BY <2>2, <1>e, L1Facts DEF Request, Client, Requester, Grant, Owing, Token, Carrying, FromMemory
  <2>3. CASE x.type = "GETM_ACK" /\ x.dst = i
    BY <2>3, <1>1, L1Facts DEF Request, Client, Requester, Grant, Owing, Token, Carrying, FromMemory
  <2> QED BY <2>1, <2>2, <2>3, <1>2
<1>8. /\ Expected(m, s.mshr[i].st) /\ s.mshr[i].st # "-"
      /\ s.cache[i].st = "I" /\ ~Granted(s, i) /\ ~Asks(t, i)
      /\ \A k \in L1s \ {i} : /\ Holds(t, k) <=> Holds(s, k)
                              /\ Exclusive(t, k) <=> Exclusive(s, k)
  BY <1>1, <1>3, <1>7, AskerFacts
<1>q. /\ \A y \in s.msgs : ~Owing(y)
      /\ \A k \in L1s : Holds(s, k) <=> k \in s.entry.exists
  BY Quiet
<1>9. s.mshr[i].st \in {"ITOM", "STOM", "OTOM"}
  BY <1>8 DEF Expected
<1>10. /\ Holds(t, i) <=> Holds(s, i)
       /\ ~Exclusive(t, i) /\ ~Exclusive(s, i)
       /\ i \notin s.entry.exists => s.mshr[i].st = "ITOM"
  <2>1. ~Granted(t, i)
    BY <1>3, <1>7, <1>8 DEF Granted
  <2>2. (Holds(t, i) <=> Holds(s, i)) /\ (~Holds(s, i) => s.mshr[i].st = "ITOM")
    BY <2>1, <1>3, <1>8, <1>9 DEF Holds, Evicts, Leaving
  <2>3. ~Exclusive(t, i) /\ ~Exclusive(s, i)
    BY <2>1, <1>3, <1>8, <1>9 DEF Exclusive, Evicts
  <2> QED BY <2>2, <2>3, <1>1, <1>q
<1>h. \A k \in L1s : (Holds(t, k) <=> k \in s.entry.exists) /\ (Exclusive(t, k) <=> Exclusive(s, k))
  BY <1>8, <1>10, <1>q
<1>11. \A x \in N : Expected(x, s.mshr[i].st)
  BY <1>2, <1>9, <1>10 DEF Expected, Puts
<1>12. Unacknowledged(t) = V
  <2>1. \A y \in t.msgs : y.type \in {"INVALID", "INVALID_ACK"} => y \in N /\ y.type = "INVALID" /\ y.dst \in V
    BY <1>2, <1>3, <1>q DEF Owing
  <2> QED BY <2>1, <1>2, <1>3 DEF Unacknowledged
<1>o. \A y \in t.msgs : Owing(y) => y \in N
  BY <1>3, <1>q
<1>13. HoldersKnown(t)
  <2> SUFFICES ASSUME NEW k \in L1s, Holds(t, k), k # i PROVE Dismissed(t, k)
    BY <1>3, <1>4 DEF HoldersKnown
  <2>1. k \in V \/ (i \notin s.entry.exists /\ k = o)
    BY <1>h, <1>v
  <2> QED BY <2>1, <1>2, <1>3 DEF Dismissed
<1>14. KnownHold(t) /\ OwnerKnown(t) /\ OneWriter(t)
  <2>1. Engaged(t, i)
    BY <1>3, <1>o, <1>7, <1>2 DEF Engaged
  <2>2. Holds(t, i) \/ Served(t, i)
    BY <2>1, <1>h, <1>1, <1>8, <1>10, <1>3 DEF Served
  <2>3. OneWriter(t)
    BY <1>h, <1>q DEF OneWriter, LineInv
  <2> QED BY <2>2, <2>3, <1>3, <1>4 DEF KnownHold, OwnerKnown
<1>15. InvalidSound(t)
  <2> SUFFICES ASSUME NEW y \in t.msgs, y.type = "INVALID"
               PROVE  /\ y.dst # y.arg /\ Holds(t, y.dst) /\ ~Exclusive(t, y.dst)
                      /\ \A n \in t.msgs : n.type = "GETM_FORWARD" => n.dst # y.dst
    BY DEF InvalidSound
  <2>1. y \in N /\ y.dst \in V /\ y.arg = i
    BY <1>o, <1>2 DEF Owing
  <2>2. Holds(t, y.dst) /\ y.dst # i /\ y.dst \in L1s
    BY <2>1, <1>2, <1>h
  <2>3. \E k \in s.entry.exists : k # y.dst /\ k \in L1s
    BY <2>1, <1>v, <1>e, <1>1
  <2>4. ~Exclusive(t, y.dst)
    BY <2>2, <2>3, <1>h, <1>q DEF OneWriter, LineInv
  <2>5. \A n \in t.msgs : n.type = "GETM_FORWARD" => n.dst # y.dst
    BY <1>o, <1>2, <1>v, <2>1 DEF Owing
  <2> QED BY <2>1, <2>2, <2>4, <2>5
<1>16. GetMSound(t) /\ GetSSound(t)
  <2>1. \A y \in t.msgs : y.type \in {"GETM_FORWARD", "GETS_FORWARD"} =>
           y \in N /\ y.type = "GETM_FORWARD" /\ y.dst = o /\ y.arg = i /\ i \notin s.entry.exists
    BY <1>o, <1>2 DEF Owing
  <2>2. o # i \/ i \in s.entry.exists
    BY <1>e
  <2> QED BY <2>1, <2>2, <1>h, <1>e DEF GetMSound, GetSSound
<1>17. OwnerToBe(t) /\ MemorySound(t)
  <2>1. OwnerToBe(t)
    BY <1>o, <1>7, <1>3, <1>4 DEF OwnerToBe
  <2>2. \A y \in t.msgs : WellFormed(l, y)
    BY <1>3, <1>2, About
  <2>3. \A y \in t.msgs : FromMemory(y) => Owing(y)
    BY <2>2, L1Facts DEF FromMemory, Owing, WellFormed, MessageTypes, Request
  <2> QED BY <2>1, <2>3, <1>o, <1>7 DEF MemorySound
<1>18. \A x \in N : /\ WellFormed(l, x) /\ Client(x) = m.src /\ Expected(x, s.mshr[m.src].st)
                    /\ ~Request(x) /\ x.type \notin {"GET_ACK", "INVALID_ACK"}
                    /\ Grant(x) => x.dst = m.src
                    /\ x.type = "GETS_RESP" => x.src = LLC
                    /\ Owing(x) => t.owed /\ \A y \in N : ~Grant(y)
                    /\ x.type = "GETM_ACK" => x.arg = Cardinality(Unacknowledged(t))
  BY <1>2, <1>3, <1>7, <1>11, <1>12
<1>19. \A x, y \in N : /\ x.type = y.type /\ x.dst = y.dst => x = y
                       /\ Token(x) => x = y
                       /\ Carrying(x) /\ Carrying(y) => x = y
  <2>1. \A x, y \in N : Carrying(x) /\ Carrying(y) => x.type = y.type /\ x.dst = y.dst
    BY <1>2, <1>7
  <2> QED BY <2>1, <1>2, <1>7
<1> HIDE DEF i
<1> QED
  BY <1>1, <1>3, <1>5, <1>18, <1>19, <1>13, <1>14, <1>15, <1>16, <1>17, Answers

\* The least of a set of naturals is in it: there is no infinite descent.
LEMMA LeastFacts ==
  ASSUME NEW S \in SUBSET Nat, S # {}
  PROVE  Min(S) \in S /\ \A n \in S : Min(S) <= n
<1> DEFINE Below(n) == {k \in S : k < n}
           F == {T \in SUBSET Nat : IsFiniteSet(T)}
           B == {Below(n) : n \in S}
           R == StrictSubsetOrdering(Nat)
<1>1. \A n \in S : IsFiniteSet(Below(n)) /\ Below(n) \in SUBSET Nat
  <2> TAKE n \in S
  <2>1. n \in Nat /\ IsFiniteSet(0 .. n - 1)
    BY FS_Interval
  <2>2. \A k \in Nat : k < n => k \in 0 .. n - 1
    BY <2>1
  <2>3. Below(n) \subseteq 0 .. n - 1
    BY <2>2
  <2> QED BY <2>1, <2>3, FS_Subset
<1>2. IsWellFoundedOn(R, F)
  BY FS_StrictSubsetOrderingWellFounded DEF FiniteSubsetsOf
<1>3. B \subseteq F /\ B # {}
  BY <1>1
<1> HIDE DEF R
<1>4. PICK T \in B : \A U \in B : ~(<<U, T>> \in R)
  <2> HIDE DEF B, F
  <2> QED BY <1>2, <1>3, WFMin
<1>5. PICK n \in S : T = Below(n)
  BY <1>4
<1>6. ASSUME NEW k \in S, k < n PROVE FALSE
  <2>a. k \in Nat /\ n \in Nat /\ ~(k < k) /\ \A j \in Nat : j < k => j < n
    BY <1>6
  <2>1. Below(k) \subseteq Below(n) /\ k \in Below(n) /\ k \notin Below(k)
    BY <1>6, <2>a
  <2>2. Below(k) \in SUBSET Nat /\ Below(n) \in SUBSET Nat /\ Below(k) # Below(n)
    BY <2>1
  <2>3. <<Below(k), Below(n)>> \in R
    <3> DEFINE p == <<Below(k), Below(n)>>
    <3>1. p \in (SUBSET Nat) \X (SUBSET Nat) /\ p[1] = Below(k) /\ p[2] = Below(n)
      BY <2>2
    <3> HIDE DEF p, Below
    <3> QED BY <3>1, <2>1, <2>2 DEF R, StrictSubsetOrdering, p
  <2>4. Below(k) \in B
    OBVIOUS
  <2> QED BY <2>3, <2>4, <1>4, <1>5
<1>7. \A k \in S : n <= k
  BY <1>6
<1> QED BY <1>7 DEF Min

\* A PUT takes its sender out of the entry, whether it still has the line or not.
LEMMA PutKeeps ==
  ASSUME NEW l, NEW s, NEW t, LineInv(l, s), ~s.owed, NEW m \in s.msgs, m.type \in Puts,
         t.cache = s.cache, t.mshr = s.mshr, LineTypes(l, t), ~t.owed,
         \A y : y \in t.msgs <=> \/ y \in s.msgs /\ y # m
                                 \/ y = FromLLC("PUT_ACK", ACK, m.arg, l, 0, NoData),
         t.entry.exists = s.entry.exists \ {m.arg}, OwnerKnown(t)
  PROVE  LineInv(l, t)
<1> DEFINE i == m.src
           x == FromLLC("PUT_ACK", ACK, m.arg, l, 0, NoData)
<1>1. Request(m) /\ m.arg = i /\ i \in L1s
  BY About DEF Request, WellFormed, Puts
<1>2. /\ x.src = LLC /\ x.dst = i /\ x.line = l /\ x.arg = 0 /\ x.data \in Data
      /\ x.type = "PUT_ACK"
  BY <1>1, MsgFacts, DataFacts DEF FromLLC
<1>3. \A y : y \in t.msgs <=> (y \in s.msgs /\ y # m) \/ y = x
  OBVIOUS
<1> HIDE DEF x
<1>6. WellFormed(l, x)
  BY <1>1, <1>2 DEF WellFormed, MessageTypes, Request
<1>7. ~Request(x) /\ Client(x) = i /\ ~Grant(x) /\ ~Owing(x)
  BY <1>1, <1>2, L1Facts DEF Request, Client, Requester, Grant, Owing
<1>8. /\ Expected(m, s.mshr[i].st) /\ s.mshr[i].st # "-"
      /\ s.cache[i].st = "I" /\ ~Granted(s, i) /\ ~Asks(t, i)
      /\ \A k \in L1s \ {i} : /\ Holds(t, k) <=> Holds(s, k)
                              /\ Exclusive(t, k) <=> Exclusive(s, k)
  BY <1>1, <1>3, <1>7, AskerOne
<1>9. \A k \in L1s : Holds(s, k) <=> k \in s.entry.exists
  BY Quiet
<1>10. s.mshr[i].st \in Leaving /\ Expected(x, s.mshr[i].st)
  BY <1>2, <1>8 DEF Expected, Puts
<1>11. ~Holds(t, i) /\ ~Exclusive(t, i)
  <2>1. ~Granted(t, i)
    BY <1>3, <1>7, <1>8 DEF Granted
  <2>2. ~Holds(t, i)
    BY <2>1, <1>8, <1>10 DEF Holds, Evicts, Leaving
  <2> QED BY <2>2, ExclusiveHolds
<1>o. \A y \in t.msgs : ~Owing(y)
  BY <1>3, <1>7, Quiet
<1>s. \A y \in t.msgs : WellFormed(l, y)
  BY <1>3, <1>6, About
<1>e. s.entry.exists \in SUBSET L1s
  BY DEF LineInv, LineTypes
<1>12. HoldersKnown(t) /\ KnownHold(t)
  BY <1>1, <1>8, <1>9, <1>11, <1>e DEF HoldersKnown, KnownHold
<1>13. OneWriter(t)
  BY <1>8, <1>11 DEF OneWriter, LineInv
<1>14. InvalidSound(t) /\ GetMSound(t) /\ GetSSound(t) /\ OwnerToBe(t)
  BY <1>o DEF InvalidSound, GetMSound, GetSSound, OwnerToBe, Owing
<1>15. MemorySound(t)
  BY <1>o, <1>s, L1Facts DEF MemorySound, FromMemory, Owing, WellFormed, MessageTypes, Request
<1>16. /\ WellFormed(l, x) /\ Client(x) = m.src /\ Expected(x, s.mshr[m.src].st) /\ ~Request(x)
       /\ x.type = "PUT_ACK" /\ ~Grant(x) /\ ~Owing(x)
  BY <1>2, <1>6, <1>7, <1>10
<1> HIDE DEF i
<1> QED
  BY <1>1, <1>3, <1>16, <1>12, <1>13, <1>14, <1>15, AnswersOne

\* The entry that is not there.
LEMMA NoEntryFacts ==
  /\ NoEntry \in [exists : SUBSET L1s, owner : L1s, dirty : BOOLEAN] /\ NoEntry.exists = {}
<1>1. 0 \in L1s
  BY NumL1Assumption DEF L1s
<1> QED BY <1>1 DEF NoEntry

\* The entry a PUT leaves has an owner among its holders.
LEMMA LeftEntry ==
  ASSUME NEW e \in [exists : SUBSET L1s, owner : L1s, dirty : BOOLEAN], NEW i \in L1s,
         e.exists # {} => e.owner \in e.exists
  PROVE  \A x \in {CleanedBy(e, i), WrittenBy(e, i)} :
           /\ x \in [exists : SUBSET L1s, owner : L1s, dirty : BOOLEAN]
           /\ x.exists = e.exists \ {i}
           /\ x.exists # {} => x.owner \in x.exists
<1> DEFINE E == [exists : SUBSET L1s, owner : L1s, dirty : BOOLEAN]
           clean == Without(e, i)
           d == [e EXCEPT !.dirty = e.owner # i]
           dirty == Without(d, i)
<1>1. \A f \in E : /\ Without(f, i) \in E /\ Without(f, i).exists = f.exists \ {i}
                   /\ Without(f, i).owner = f.owner
  BY DEF Without
<1>2. d \in E /\ d.exists = e.exists /\ d.owner = e.owner
  OBVIOUS
<1>3. \A f \in E : /\ HandedOver(f) \in E /\ HandedOver(f).exists = f.exists
                   /\ f.exists # {} => HandedOver(f).owner \in f.exists
  <2> TAKE f \in E
  <2>1. f.exists # {} => Min(f.exists) \in f.exists
    BY L1Facts, LeastFacts
  <2> DEFINE o == IF f.exists # {} THEN Min(f.exists) ELSE f.owner
  <2>2. o \in L1s /\ (f.exists # {} => o \in f.exists)
    BY <2>1
  <2>3. HandedOver(f) = [f EXCEPT !.owner = o]
    BY DEF HandedOver
  <2> HIDE DEF o
  <2> QED BY <2>2, <2>3
<1>4. \A f \in E : /\ Entered(f) \in E /\ Entered(f).exists = f.exists
                   /\ f.exists # {} => Entered(f) = f
  BY NoEntryFacts DEF Entered
<1>5. clean \in E /\ clean.exists = e.exists \ {i} /\ clean.owner = e.owner
  BY <1>1
<1>6. dirty \in E /\ dirty.exists = e.exists \ {i}
  BY <1>1, <1>2
<1> DEFINE left == IF i = clean.owner THEN HandedOver(clean) ELSE clean
           written == HandedOver(dirty)
<1>7. /\ left \in E /\ left.exists = e.exists \ {i}
      /\ left.exists # {} => left.owner \in left.exists
  <2>1. CASE i = clean.owner
    BY <2>1, <1>3, <1>5
  <2>2. CASE i # clean.owner
    BY <2>2, <1>5
  <2> QED BY <2>1, <2>2
<1>8. /\ written \in E /\ written.exists = e.exists \ {i}
      /\ written.exists # {} => written.owner \in written.exists
  BY <1>3, <1>6
<1> HIDE DEF left, written, E
<1>9. /\ Entered(left) \in E /\ Entered(left).exists = e.exists \ {i}
      /\ Entered(left).exists # {} => Entered(left).owner \in Entered(left).exists
  BY <1>4, <1>7
<1>10. /\ Entered(written) \in E /\ Entered(written).exists = e.exists \ {i}
       /\ Entered(written).exists # {} => Entered(written).owner \in Entered(written).exists
  BY <1>4, <1>8
<1>11. CleanedBy(e, i) = Entered(left) /\ WrittenBy(e, i) = Entered(written)
  BY DEF CleanedBy, WrittenBy, left, written
<1> QED BY <1>9, <1>10, <1>11 DEF E

\* PUTS and PUTE.
LEMMA PutCleanKeeps ==
  ASSUME NEW l, NEW s, NEW t, LineInv(l, s), NEW m \in s.msgs, LinePutClean(l, s, t, m)
  PROVE  LineInv(l, t)
<1> DEFINE e == s.entry
           left == CleanedBy(e, m.arg)
           E == [exists : SUBSET L1s, owner : L1s, dirty : BOOLEAN]
<1>1. /\ m.type \in Puts /\ ~s.owed /\ t.blk = s.blk /\ t.mem = s.mem
      /\ t.cache = s.cache /\ t.mshr = s.mshr /\ t.golden = s.golden
      /\ t.msgs = (s.msgs \ {m}) \cup {FromLLC("PUT_ACK", ACK, m.arg, l, 0, NoData)}
      /\ t.entry = left /\ t.owed = FALSE
  BY DEF LinePutClean, AtLLC, Puts
<1>2. m.arg \in L1s
  BY <1>1, About DEF WellFormed, Request, Puts
<1>3. e \in E /\ (e.exists # {} => e.owner \in e.exists)
  BY DEF LineInv, LineTypes, OwnerKnown
<1>4. /\ left \in E /\ left.exists = e.exists \ {m.arg}
      /\ left.exists # {} => left.owner \in left.exists
  BY <1>2, <1>3, LeftEntry
<1> HIDE DEF left, E
<1>5. LineTypes(l, t)
  BY <1>1, <1>4 DEF LineInv, LineTypes, E
<1>6. OwnerKnown(t)
  BY <1>1, <1>4 DEF OwnerKnown
<1> QED
  BY <1>1, <1>4, <1>5, <1>6, PutKeeps

\* PUTM and PUTO.
LEMMA PutDirtyKeeps ==
  ASSUME NEW l, NEW s, NEW t, LineInv(l, s), NEW m \in s.msgs, LinePutDirty(l, s, t, m)
  PROVE  LineInv(l, t)
<1> DEFINE e == s.entry
           left == WrittenBy(e, m.arg)
           E == [exists : SUBSET L1s, owner : L1s, dirty : BOOLEAN]
<1>1. /\ m.type \in Puts /\ ~s.owed /\ t.mem = s.mem
      /\ t.blk = (IF e.owner = m.arg THEN m.data ELSE s.blk)
      /\ t.cache = s.cache /\ t.mshr = s.mshr /\ t.golden = s.golden
      /\ t.msgs = (s.msgs \ {m}) \cup {FromLLC("PUT_ACK", ACK, m.arg, l, 0, NoData)}
      /\ t.entry = left /\ t.owed = FALSE
  BY DEF LinePutDirty, AtLLC, Puts
<1>2. m.arg \in L1s /\ m.data \in Data
  BY <1>1, About DEF WellFormed, Request, Puts
<1>3. e \in E /\ (e.exists # {} => e.owner \in e.exists)
  BY DEF LineInv, LineTypes, OwnerKnown
<1>4. /\ left \in E /\ left.exists = e.exists \ {m.arg}
      /\ left.exists # {} => left.owner \in left.exists
  BY <1>2, <1>3, LeftEntry
<1> HIDE DEF left, E
<1>5. LineTypes(l, t)
  <2>1. t.blk \in Data \cup {NotHere}
    BY <1>1, <1>2 DEF LineInv, LineTypes
  <2> QED BY <1>1, <1>4, <2>1 DEF LineInv, LineTypes, E
<1>6. OwnerKnown(t)
  BY <1>1, <1>4 DEF OwnerKnown
<1>7. /\ t.cache = s.cache /\ t.mshr = s.mshr /\ ~t.owed /\ ~s.owed /\ m.type \in Puts
      /\ \A y : y \in t.msgs <=> \/ y \in s.msgs /\ y # m
                                 \/ y = FromLLC("PUT_ACK", ACK, m.arg, l, 0, NoData)
      /\ t.entry.exists = s.entry.exists \ {m.arg}
  BY <1>1, <1>4
<1> QED
  BY <1>7, <1>5, <1>6, PutKeeps

\* GET_ACK.
LEMMA UnlockedKeeps ==
  ASSUME NEW l, NEW s, NEW t, LineInv(l, s), NEW m \in s.msgs, LineUnlocked(l, s, t, m)
  PROVE  LineInv(l, t)
<1>1. /\ m.type = "GET_ACK" /\ t.blk = s.blk /\ t.mem = s.mem
      /\ t.cache = s.cache /\ t.mshr = s.mshr /\ t.golden = s.golden
      /\ t.entry = s.entry /\ t.owed = FALSE
      /\ \A y : y \in t.msgs <=> y \in s.msgs /\ y # m
  BY DEF LineUnlocked, AtLLC
<1>s. \A n \in s.msgs : /\ WellFormed(l, n) /\ Client(n) \in L1s
                        /\ Carrying(n) => Owing(n)
                        /\ Token(n) => Owing(n)
  BY About
<1>2. Owing(m) /\ Token(m) /\ ~Request(m) /\ ~Grant(m)
  BY <1>1 DEF Owing, Token, Request, Grant
<1>o. /\ \A y \in s.msgs : Owing(y) => y = m
      /\ \A y \in t.msgs : ~Owing(y)
  BY <1>1, <1>2 DEF LineInv, TokenAlone
<1>3. \A k \in L1s : ~Engaged(s, k)
  BY <1>1, <1>2 DEF Engaged
<1>a. \A k \in L1s : (Asks(t, k) <=> Asks(s, k)) /\ (Granted(t, k) <=> Granted(s, k))
  BY <1>1, <1>2 DEF Asks, Granted
<1>h. \A k \in L1s : (Holds(t, k) <=> Holds(s, k)) /\ (Exclusive(t, k) <=> Exclusive(s, k))
  BY <1>1, <1>a DEF Holds, Exclusive, Evicts
<1>c. \A k \in L1s : ~t.mshr[k].hasData /\ ~t.mshr[k].hasNeed /\ t.mshr[k].acks = 0
  BY <1>1, <1>3 DEF LineInv, Collected
<1>4. LineTypes(l, t) /\ WellFormedMsgs(l, t) /\ OnePlace(t) /\ Distinct(t) /\ OneRequest(t)
  BY ZenonT(60), <1>1, <1>s DEF LineTypes, WellFormedMsgs, OnePlace, Distinct, OneRequest, LineInv
<1>5. Clients(t) /\ AskedFirst(t) /\ NothingCollected(t) /\ OwingNotGranted(t)
  <2>1. AskedFirst(t)
    BY <1>1, <1>a, <1>s DEF AskedFirst, LineInv
  <2> QED BY <2>1, <1>1, <1>o DEF Clients, NothingCollected, OwingNotGranted, LineInv
<1>6. OneRequester(t) /\ TokenAlone(t) /\ OneCarrier(t) /\ OwingOwed(t)
  BY <1>o, <1>s, <1>1 DEF OneRequester, TokenAlone, OneCarrier, OwingOwed
<1>7. Collected(t) /\ Counted(t)
  <2>1. \A y \in t.msgs : y.type # "GETM_ACK"
    BY <1>o DEF Owing
  <2>2. Collected(t)
    BY <1>c DEF Collected
  <2> QED BY <2>1, <2>2, <1>c DEF Counted
<1>8. HoldersKnown(t) /\ KnownHold(t) /\ OwnerKnown(t) /\ OneWriter(t)
  <2>1. \A k \in L1s : ~Dismissed(s, k)
    BY <1>o, <1>1 DEF Dismissed, Owing
  <2>2. \A k \in L1s : ~Served(s, k)
    BY <1>3 DEF Served
  <2> QED BY <2>1, <2>2, <1>1, <1>h DEF HoldersKnown, KnownHold, OwnerKnown, OneWriter, LineInv, LineTypes
<1>9. InvalidSound(t) /\ AckSound(t) /\ GetMSound(t) /\ GetSSound(t) /\ RespSound(t) /\ OwnerToBe(t)
  BY <1>o DEF InvalidSound, AckSound, GetMSound, GetSSound, RespSound, OwnerToBe, Owing
<1>10. MemorySound(t)
  BY <1>o, <1>1, <1>s, L1Facts DEF MemorySound, FromMemory, Owing, WellFormed, MessageTypes, Request
<1> QED BY <1>4, <1>5, <1>6, <1>7, <1>8, <1>9, <1>10 DEF LineInv

\* The memory node's answer.
LEMMA FromMemoryKeeps ==
  ASSUME NEW l, NEW s, NEW t, LineInv(l, s), NEW m \in s.msgs, LineFromMemory(l, s, t, m)
  PROVE  LineInv(l, t)
<1> DEFINE x == Msg("GET_RESP_MEM", RESP, MEM, m.arg, l, 0, s.mem)
           i == m.arg
<1>x. /\ x.type = "GET_RESP_MEM" /\ x.src = MEM /\ x.dst = i /\ x.line = l /\ x.arg = 0
      /\ x.data = s.mem
  BY MsgFacts
<1>1. /\ m.type \in {"GETS_FORWARD", "GETM_FORWARD"} /\ m.dst = MEM
      /\ t.blk = s.blk /\ t.mem = s.mem
      /\ t.cache = s.cache /\ t.mshr = s.mshr /\ t.golden = s.golden
      /\ t.entry = s.entry /\ t.owed = s.owed
      /\ \A y : y \in t.msgs <=> (y \in s.msgs /\ y # m) \/ y = x
  BY DEF LineFromMemory, AtLLC
<1> HIDE DEF x
<1>s. \A n \in s.msgs : /\ WellFormed(l, n) /\ Client(n) \in L1s
                        /\ Carrying(n) => Owing(n)
                        /\ Token(n) => Owing(n)
  BY About
<1>2. /\ Owing(m) /\ Token(m) /\ ~Request(m) /\ ~Grant(m) /\ Requester(m) = i /\ Client(m) = i
      /\ FromMemory(m) /\ i \in L1s /\ s.owed
  <2>1. i \in L1s
    BY <1>1, <1>s DEF WellFormed
  <2>2. Owing(m) /\ Token(m)
    BY <1>1 DEF Owing, Token
  <2> QED BY <1>1, <2>1, <2>2 DEF Request, Grant, Requester, Client, FromMemory, LineInv, OwingOwed
<1>3. WellFormed(l, x)
  <2>1. s.mem \in Data
    BY DEF LineInv, LineTypes
  <2> QED BY <1>x, <1>2, <2>1, L1Facts DEF WellFormed, Request, MessageTypes
<1>4. /\ Owing(x) /\ ~Carrying(x) /\ ~Grant(x) /\ ~Request(x) /\ Requester(x) = i /\ Client(x) = i
  BY <1>x DEF Owing, Carrying, Grant, Request, Requester, Client
<1>o. /\ \A y \in s.msgs : Owing(y) => y = m
      /\ \A y \in t.msgs : Owing(y) => y = x
  BY <1>1, <1>2 DEF LineInv, TokenAlone
<1>5. s.entry.exists = {i} /\ \A k \in L1s : ~Holds(s, k)
  BY <1>2 DEF LineInv, MemorySound
<1>6. ~Asks(s, i) /\ ~Granted(s, i) /\ s.mshr[i].st \in {"ITOS", "ITOM"}
  BY <1>1, <1>2 DEF LineInv, AskedFirst, OwingNotGranted, Clients, Expected
<1>a. \A k \in L1s : (Asks(t, k) <=> Asks(s, k)) /\ (Granted(t, k) <=> Granted(s, k))
  BY <1>1, <1>2, <1>4 DEF Asks, Granted
<1>h. \A k \in L1s : ~Holds(t, k) /\ ~Exclusive(t, k)
  <2>1. \A k \in L1s : ~Holds(t, k)
    BY <1>1, <1>a, <1>5 DEF Holds, Evicts
  <2> QED BY <2>1, ExclusiveHolds
<1>g. \A k \in L1s : Engaged(s, k) => Engaged(t, k)
  BY <1>1, <1>2, <1>4, <1>x DEF Engaged
<1>7. LineTypes(l, t) /\ WellFormedMsgs(l, t) /\ OnePlace(t) /\ Distinct(t) /\ OneRequest(t)
  <2>1. LineTypes(l, t) /\ OnePlace(t)
    BY <1>1 DEF LineTypes, OnePlace, LineInv
  <2>2. WellFormedMsgs(l, t)
    BY <1>1, <1>3, <1>s DEF WellFormedMsgs
  <2>3. Distinct(t)
    <3>1. \A y \in s.msgs : y.type = "GET_RESP_MEM" => y = m
      BY <1>o DEF Owing
    <3>2. \A y \in t.msgs : y.type = x.type => y = x
      BY <3>1, <1>1, <1>x
    <3> QED BY <3>2, <1>1 DEF Distinct, LineInv
  <2>4. OneRequest(t)
    BY <1>1, <1>4 DEF OneRequest, LineInv
  <2> QED BY <2>1, <2>2, <2>3, <2>4
<1>8. Clients(t) /\ AskedFirst(t) /\ NothingCollected(t) /\ OwingNotGranted(t)
  <2>1. Expected(x, t.mshr[Client(x)].st)
    <3> HIDE DEF i
    <3> QED BY <1>x, <1>6, <1>4, <1>1 DEF Expected, Puts
  <2>2. Clients(t)
    BY <2>1, <1>1 DEF Clients, LineInv
  <2>3. AskedFirst(t)
    <3>1. \A y \in s.msgs : ~Request(y) /\ y.type # "GET_ACK" => ~Asks(t, Client(y))
      BY <1>a, <1>s DEF AskedFirst, LineInv
    <3>2. ~Asks(t, Client(x))
      BY <1>a, <1>2, <1>6, <1>4
    <3> QED BY <3>1, <3>2, <1>1 DEF AskedFirst
  <2>4. NothingCollected(t)
    BY <1>1, <1>4 DEF NothingCollected, LineInv
  <2>5. OwingNotGranted(t)
    BY <1>1, <1>a, <1>o, <1>6, <1>4, <1>2 DEF OwingNotGranted
  <2> QED BY <2>2, <2>3, <2>4, <2>5
<1>9. OneRequester(t) /\ TokenAlone(t) /\ OneCarrier(t) /\ OwingOwed(t)
  <2>1. \A y \in t.msgs : ~Carrying(y)
    BY <1>1, <1>o, <1>s, <1>4
  <2> QED BY <2>1, <1>o, <1>1, <1>2 DEF OneRequester, TokenAlone, OneCarrier, OwingOwed
<1>10. Collected(t) /\ Counted(t)
  <2>1. Collected(t)
    BY <1>1, <1>g DEF Collected, LineInv
  <2>2. Unacknowledged(t) = Unacknowledged(s)
    <3>1. \A y : y.type \in {"INVALID", "INVALID_ACK"} => (y \in t.msgs <=> y \in s.msgs)
      BY <1>1, <1>x
    <3> QED BY <3>1 DEF Unacknowledged
  <2>3. \A y \in t.msgs : y.type # "GETM_ACK"
    BY <1>o, <1>x DEF Owing
  <2> QED BY <2>1, <2>2, <2>3, <1>1 DEF Counted, LineInv
<1>11. HoldersKnown(t) /\ KnownHold(t) /\ OwnerKnown(t) /\ OneWriter(t)
  <2>1. Engaged(t, i)
    BY <1>1, <1>o, <1>4, <1>2, <1>x DEF Engaged
  <2>2. Served(t, i)
    BY <2>1, <1>6, <1>a, <1>1, <1>2 DEF Served
  <2>3. KnownHold(t)
    BY <2>2, <1>5, <1>1 DEF KnownHold
  <2> QED BY <2>3, <1>1, <1>h DEF HoldersKnown, OwnerKnown, OneWriter, LineInv
<1>12. InvalidSound(t) /\ AckSound(t) /\ GetMSound(t) /\ GetSSound(t) /\ RespSound(t)
  <2>1. \A y \in t.msgs : y.type \notin {"INVALID", "INVALID_ACK", "GETM_FORWARD", "GETS_FORWARD"}
    BY <1>o, <1>x DEF Owing
  <2>2. \A y \in t.msgs : ~(y.type = "GETS_RESP" /\ y.src # LLC)
    BY <1>o, <1>x DEF Owing
  <2> QED BY <2>1, <2>2 DEF InvalidSound, AckSound, GetMSound, GetSSound, RespSound
<1>13. OwnerToBe(t)
  BY <1>o, <1>4, <1>5, <1>1 DEF OwnerToBe
<1>14. MemorySound(t)
  <2>1. \A y \in t.msgs : FromMemory(y) => y = x
    BY <1>o, <1>1, <1>s, <1>x, L1Facts DEF FromMemory, Owing, WellFormed, MessageTypes, Request
  <2> QED BY <2>1, <1>4, <1>5, <1>h, <1>1 DEF MemorySound
<1> QED BY <1>7, <1>8, <1>9, <1>10, <1>11, <1>12, <1>13, <1>14 DEF LineInv

\* A request names its sender.
LEMMA RequesterIsServed ==
  ASSUME NEW l, NEW s, LineInv(l, s), NEW m \in s.msgs, Request(m)
  PROVE  m.arg = m.src /\ m.src \in L1s
  BY About DEF WellFormed

\* GETS_RESP, from an L1 or the LLC.
LEMMA GetSRespLineKeeps ==
  ASSUME NEW l, NEW s, NEW t, LineInv(l, s), NEW i \in L1s, NEW m \in s.msgs,
         LineGetSResp(l, s, t, i, m)
  PROVE  LineInv(l, t)
<1>1. m.type = "GETS_RESP" /\ m.arg = IF m.src = LLC THEN 0 ELSE 1
  BY About DEF LineGetSResp, WellFormed
<1>2. CASE m.src = LLC
  <2>1. Grant(m) /\ LineEnters(s, t, i, m, "E", m.data, {})
    BY <1>1, <1>2 DEF Grant, LineGetSResp
  <2> QED BY <2>1, GrantKeeps
<1>3. CASE m.src # LLC
  BY <1>1, <1>3, GetSRespKeeps
<1> QED BY <1>2, <1>3

\* GETM_RESP, from an L1 or the LLC.
LEMMA GetMRespLineKeeps ==
  ASSUME NEW l, NEW s, NEW t, LineInv(l, s), NEW i \in L1s, NEW m \in s.msgs,
         LineGetMResp(l, s, t, i, m)
  PROVE  LineInv(l, t)
<1>1. m.type = "GETM_RESP" /\ m.arg = IF m.src = LLC THEN 1 ELSE 0
  BY About DEF LineGetMResp, WellFormed
<1>2. CASE m.src = LLC
  <2>1. Grant(m) /\ LineEnters(s, t, i, m, "M", m.data, {})
    BY <1>1, <1>2 DEF Grant, LineGetMResp
  <2> QED BY <2>1, GrantKeeps
<1>3. CASE m.src # LLC
  BY <1>1, <1>3, GetMRespKeeps
<1> QED BY <1>2, <1>3

\* GETS.
LEMMA GetSKeeps ==
  ASSUME NEW l, NEW s, NEW t, LineInv(l, s), NEW m \in s.msgs, LineGetS(l, s, t, m)
  PROVE  LineInv(l, t)
<1>1. m.type = "GETS" /\ ~s.owed /\ t.blk = s.blk /\ t.mem = s.mem
  BY DEF LineGetS
<1>2. CASE s.entry.exists # {}
  BY <1>1, <1>2, ForwardedKeeps DEF LineGetS
<1>3. CASE s.entry.exists = {} /\ s.blk # NotHere
  <2>1. AtLLC(s, t, m, {FromLLC("GETS_RESP", RESP, m.arg, l, 0, s.blk)}, Only(m.arg), FALSE)
    BY <1>3 DEF LineGetS
  <2> QED BY <1>1, <1>3, <2>1, GrantedKeeps
<1>4. CASE s.entry.exists = {} /\ s.blk = NotHere
  <2>1. AtLLC(s, t, m, {FromLLC("GETS_FORWARD", REQ, MEM, l, m.arg, NoData)}, Only(m.arg), TRUE)
    BY <1>4 DEF LineGetS
  <2> QED BY <1>1, <1>4, <2>1, FetchedKeeps
<1> QED BY <1>2, <1>3, <1>4

\* GETM.
LEMMA GetMKeeps ==
  ASSUME NEW l, NEW s, NEW t, LineInv(l, s), NEW m \in s.msgs, LineGetM(l, s, t, m)
  PROVE  LineInv(l, t)
<1>1. m.type = "GETM" /\ ~s.owed /\ t.mem = s.mem
      /\ t.blk = IF s.entry.exists # {} THEN NotHere ELSE s.blk
  BY DEF LineGetM
<1>2. CASE s.entry.exists # {}
  BY <1>1, <1>2, TakenOverKeeps DEF LineGetM
<1>3. CASE s.entry.exists = {} /\ s.blk # NotHere
  <2>1. AtLLC(s, t, m, {FromLLC("GETM_RESP", RESP, m.arg, l, 1, s.blk)}, Only(m.arg), FALSE)
    BY <1>3 DEF LineGetM
  <2> QED BY <1>1, <1>3, <2>1, GrantedKeeps
<1>4. CASE s.entry.exists = {} /\ s.blk = NotHere
  <2>1. AtLLC(s, t, m, {FromLLC("GETM_FORWARD", REQ, MEM, l, m.arg, NoData)}, Only(m.arg), TRUE)
    BY <1>4 DEF LineGetM
  <2> QED BY <1>1, <1>4, <2>1, FetchedKeeps
<1> QED BY <1>2, <1>3, <1>4

\* Whatever step of the protocol a line makes, its invariant holds again.
LEMMA LineKeeps ==
  ASSUME NEW l, NEW s, NEW t, LineInv(l, s), LineStep(l, s, t)
  PROVE  LineInv(l, t)
<1>1. CASE \E i \in L1s : LineLoads(l, s, t, i) \/ LineStores(l, s, t, i)
                          \/ LineAsksToStore(l, s, t, i) \/ LineEvicted(l, s, t, i)
  BY <1>1, LoadsKeep, StoresKeep, AsksToStoreKeeps, EvictedKeeps
<1>2. CASE \E i \in L1s, m \in s.msgs :
             \/ LineInvalid(l, s, t, i, m) \/ LineInvalidAck(l, s, t, i, m)
             \/ LineGetMAck(l, s, t, i, m) \/ LineGetSForward(l, s, t, i, m)
             \/ LineGetMForward(l, s, t, i, m) \/ LineGetSResp(l, s, t, i, m)
             \/ LineGetMResp(l, s, t, i, m) \/ LineGetRespMem(l, s, t, i, m)
             \/ LinePutAck(l, s, t, i, m) \/ LineAsksAgain(l, s, t, i, m)
  BY <1>2, InvalidKeeps, InvalidAckKeeps, GetMAckKeeps, GetSForwardKeeps, GetMForwardKeeps,
     GetSRespLineKeeps, GetMRespLineKeeps, GetRespMemKeeps, PutAckKeeps, AsksAgainKeeps
<1>3. CASE \E m \in s.msgs :
             \/ LineGetS(l, s, t, m) \/ LineGetM(l, s, t, m)
             \/ LinePutClean(l, s, t, m) \/ LinePutDirty(l, s, t, m)
             \/ LineUnlocked(l, s, t, m) \/ LineFromMemory(l, s, t, m)
  BY <1>3, GetSKeeps, GetMKeeps, PutCleanKeeps, PutDirtyKeeps, UnlockedKeeps, FromMemoryKeeps
<1> QED BY <1>1, <1>2, <1>3 DEF LineStep
====
