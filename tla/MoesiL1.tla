------------------------------ MODULE MoesiL1 ------------------------------
(***************************************************************************)
(* The L1 cache, L1CacheMoesiDirNoiV2 (src/src/cache/moesi/l1cachev2.cpp). *)
(*                                                                         *)
(* One action per access of the CPU that changes state (an access that     *)
(* hits for reading, or finds the line in an MSHR it must wait for, leaves *)
(* the cache as it is) and one per message handled.  A handler that finds  *)
(* the send_buf too full keeps the message for a later tick: here the      *)
(* action is not taken yet.  What simroot_assert demands of a handler is   *)
(* L1Expects; where it is false the simulator aborts.                      *)
(***************************************************************************)
EXTENDS MoesiMsg

CONSTANTS
  Ways,     \* lines the (one) set of the cache holds
  MSHRNum,  \* mshr_num: outstanding transactions
  Reservers,\* the caches whose CPU executes LR and SC
  Accesses  \* Accesses[i]: the lines the CPU of cache i uses

ASSUME WaysAssumption == Ways \in Nat \ {0}
ASSUME MSHRNumAssumption == MSHRNum \in Nat \ {0}
ASSUME ReserversAssumption == Reservers \subseteq L1s
ASSUME AccessesAssumption == Accesses \in [L1s -> SUBSET Lines]

VARIABLES
  block,     \* block[i][l]: the line in cache i, state "I" when it is absent
  mshr,      \* mshr[i][l]: its MSHR entry, state "-" when there is none
  reserved,  \* reserved[i]: the line whose LR reservation is valid, or NoLine
  golden,      \* what the last store to each line wrote        } history, for
  overwritten  \* whose reserved line another cache has stored to } the properties

l1Vars == <<block, mshr, reserved, golden, overwritten>>

CacheStates == {"I", "E", "S", "M", "O"}
MSHRStates == {"-", "ITOI", "ITOS", "ITOM", "STOM", "MTOI", "STOI", "ETOI", "OTOM", "OTOI"}
NoLine == 0

Absent == [st |-> "I", data |-> NoData]
NoMSHR == [st |-> "-", data |-> NoData, hasData |-> FALSE, hasNeed |-> FALSE,
           need |-> 0, acks |-> 0]

L1Init ==
  /\ block = [i \in L1s |-> [l \in Lines |-> Absent]]
  /\ mshr = [i \in L1s |-> [l \in Lines |-> NoMSHR]]
  /\ reserved = [i \in L1s |-> NoLine]
  /\ golden = [l \in Lines |-> 0]
  /\ overwritten = {}

Present(i) == {l \in Lines : block[i][l].st # "I"}
Busy(i) == {l \in Lines : mshr[i][l].st # "-"}

Waits(st) == [NoMSHR EXCEPT !.st = st]

\* block->remove_line
Removed(i, l) == [block EXCEPT ![i][l] = Absent]

-----------------------------------------------------------------------------
\* Accesses of the CPU.

CanRead(i, l) == block[i][l].st # "I" \/ mshr[i][l].st \in {"STOM", "OTOM"}
CanWrite(i, l) == block[i][l].st \in {"E", "M"}

\* load: neither in the cache nor in an MSHR.
LoadMiss(i, l) ==
  /\ block[i][l].st = "I" /\ mshr[i][l].st = "-"
  /\ Cardinality(Busy(i)) < MSHRNum
  /\ mshr' = [mshr EXCEPT ![i][l] = Waits("ITOS")]
  /\ net' = Sent(net, i, Just(Msg("GETS", REQ, i, LLC, l, i, NoData)))
  /\ UNCHANGED <<block, reserved, golden, overwritten>>

\* load_reserved that hits.
LoadReserved(i, l) ==
  /\ i \in Reservers /\ CanRead(i, l)
  /\ reserved' = [reserved EXCEPT ![i] = l]
  /\ overwritten' = overwritten \ {i}
  /\ UNCHANGED <<block, mshr, golden, net>>

\* store (or the store of an AMO) that hits; it ends any reservation.
NextData(d) == (d + 1) % (MaxData + 1)

StoreHit(i, l) ==
  /\ CanWrite(i, l)
  /\ block' = [block EXCEPT ![i][l] = [st |-> "M", data |-> NextData(golden[l])]]
  /\ golden' = [golden EXCEPT ![l] = NextData(@)]
  /\ reserved' = [reserved EXCEPT ![i] = NoLine]
  /\ overwritten' = (overwritten \cup {j \in L1s : reserved[j] = l}) \ {i}
  /\ UNCHANGED <<mshr, net>>

\* store that must first become the only holder; a readable copy moves to the MSHR.
StoreMiss(i, l) ==
  /\ ~CanWrite(i, l) /\ mshr[i][l].st = "-"
  /\ Cardinality(Busy(i)) < MSHRNum
  /\ mshr' = [mshr EXCEPT ![i][l] =
       CASE block[i][l].st = "S" -> [Waits("STOM") EXCEPT !.data = block[i][l].data]
         [] block[i][l].st = "O" -> [Waits("OTOM") EXCEPT !.data = block[i][l].data]
         [] OTHER -> Waits("ITOM")]
  /\ block' = Removed(i, l)
  /\ net' = Sent(net, i, Just(Msg("GETM", RESP, i, LLC, l, i, NoData)))
  /\ UNCHANGED <<reserved, golden, overwritten>>

\* store_conditional goes the way of store when the reservation is still valid and
\* otherwise fails without touching the cache.
StoreConditional(i, l) == reserved[i] = l /\ (StoreHit(i, l) \/ StoreMiss(i, l))

-----------------------------------------------------------------------------
\* Messages.

\* The owner's duties stay with the MSHR while it upgrades or evicts the line.
HoldsInMSHR(i, l) ==
  mshr[i][l].st \in {"STOM", "MTOI", "STOI", "ETOI", "OTOM", "OTOI"}

L1Expects(i, m) ==
  LET l == m.line  st == mshr[i][l].st IN
  CASE m.type = "INVALID" -> st \in {"-", "STOI", "MTOI", "OTOI", "OTOM", "STOM", "ITOM"}
    [] m.type \in {"GETS_FORWARD", "GETM_FORWARD"} ->
         (block[i][l].st # "I") # HoldsInMSHR(i, l)
    [] m.type \in {"INVALID_ACK", "GETM_ACK", "GETS_RESP"} -> st # "-"
    [] m.type = "GETM_RESP" -> st = "ITOM"
    [] m.type = "GET_RESP_MEM" -> st \in {"ITOM", "ITOS"}
    [] m.type = "PUT_ACK" -> st \in {"ITOI", "MTOI", "STOI", "ETOI", "OTOI"}
    [] OTHER -> FALSE

Reply(i, m, out) == net' = Sent(Taken(i, m), i, out)

\* handle_new_line_nolock: the line enters the cache and leaves its MSHR; if the set
\* is full a victim (any, for the LRU one) starts its eviction in an MSHR of its own.
EvictState == [E |-> "ETOI", M |-> "MTOI", S |-> "STOI", O |-> "OTOI"]
PutType == [E |-> "PUTE", M |-> "PUTM", S |-> "PUTS", O |-> "PUTO"]

EvictingEmpty(line) == Waits(EvictState[line.st])   \* (faulty: data not kept)
Evicting(line) == [Waits(EvictState[line.st]) EXCEPT !.data = line.data]

Put(i, v) ==
  LET line == block[i][v] IN
  Msg(PutType[line.st], REQ, i, LLC, v, i,
      IF line.st \in {"M", "O"} THEN line.data ELSE NoData)

NewLine(i, l, st, data, r, out) ==
  LET entered == [block EXCEPT ![i][l] = [st |-> st, data |-> data]] IN
  \/ /\ Cardinality(Present(i)) < Ways
     /\ block' = entered
     /\ mshr' = [mshr EXCEPT ![i][l] = NoMSHR]
     /\ Reply(i, r, out)
  \/ /\ Cardinality(Present(i)) = Ways
     /\ \E v \in Present(i) :
          /\ block' = [entered EXCEPT ![i][v] = Absent]
          /\ mshr' = [mshr EXCEPT ![i][l] = NoMSHR, ![i][v] = Evicting(block[i][v])]
          /\ Reply(i, r, Also(out, Put(i, v)))

GetAck(i, l) == Msg("GET_ACK", ACK, i, LLC, l, i, NoData)

\* The message of the given type that arrives at i at position r.
Receives(i, r, types) == MsgAt(i, r).type \in types /\ L1Expects(i, MsgAt(i, r))

\* A transaction whose copy of the line is taken from it goes on without.
AfterInvalid(st) ==
  CASE st \in {"STOI", "MTOI", "OTOI"} -> "ITOI"
    [] st \in {"OTOM", "STOM"} -> "ITOM"
    [] OTHER -> st

HandleInvalid(i, r) ==
  LET m == MsgAt(i, r)  l == m.line IN
  /\ Receives(i, r, {"INVALID"})
  /\ block' = Removed(i, l)
  /\ mshr' = [mshr EXCEPT ![i][l].st = AfterInvalid(@)]
  /\ reserved' = [reserved EXCEPT ![i] = IF @ = l THEN NoLine ELSE @]
  /\ Reply(i, r, Just(Msg("INVALID_ACK", ACK, i, m.arg, l, 0, NoData)))
  /\ UNCHANGED <<golden, overwritten>>

HasLineData(e) == e.st \in {"STOM", "OTOM"} \/ (e.st = "ITOM" /\ e.hasData)

\* The last INVALID_ACK or the GETM_ACK completes a GETM that has its data.
Complete(i, r) ==
  LET m == MsgAt(i, r)  l == m.line IN
  NewLine(i, l, "M", mshr[i][l].data, r, Just(GetAck(i, l)))

LastAckMissed(e) == e.hasNeed /\ e.need = e.acks /\ HasLineData(e)   \* (faulty)
LastAck(e) == e.hasNeed /\ e.need = e.acks + 1 /\ HasLineData(e)

Collecting(e) == e.st \in {"ITOM", "STOM", "OTOM"}

HandleInvalidAck(i, r) ==
  LET m == MsgAt(i, r)  l == m.line  e == mshr[i][l] IN
  /\ Receives(i, r, {"INVALID_ACK"})
  /\ IF LastAck(e)
     THEN Complete(i, r)
     ELSE /\ mshr' = [mshr EXCEPT ![i][l].acks =
                        IF Collecting(e) THEN @ + 1 ELSE @]
          /\ Reply(i, r, Nothing)
          /\ UNCHANGED block
  /\ UNCHANGED <<reserved, golden, overwritten>>

HandleGetMAck(i, r) ==
  LET m == MsgAt(i, r)  l == m.line  e == mshr[i][l] IN
  /\ Receives(i, r, {"GETM_ACK"})
  /\ IF m.arg = e.acks /\ HasLineData(e)
     THEN Complete(i, r)
     ELSE /\ mshr' = IF Collecting(e)
                     THEN [mshr EXCEPT ![i][l].hasNeed = TRUE, ![i][l].need = m.arg]
                     ELSE mshr
          /\ Reply(i, r, Nothing)
          /\ UNCHANGED block
  /\ UNCHANGED <<reserved, golden, overwritten>>

\* Another L1 reads: the holder, in the cache or on its way out, becomes the owner.
OwnerStays(line) == line   \* (faulty: an exclusive holder goes on as one)
Owned(line) == [line EXCEPT !.st = "O"]

HandleGetSForward(i, r) ==
  LET m == MsgAt(i, r)  l == m.line  hit == block[i][l].st # "I"
      data == IF hit THEN block[i][l].data ELSE mshr[i][l].data
  IN
  /\ Receives(i, r, {"GETS_FORWARD"})
  /\ block' = IF hit THEN [block EXCEPT ![i][l] = Owned(@)] ELSE block
  /\ mshr' = IF ~hit /\ mshr[i][l].st \in {"MTOI", "ETOI", "STOI"}
             THEN [mshr EXCEPT ![i][l].st = "OTOI"] ELSE mshr
  /\ Reply(i, r, Just(Msg("GETS_RESP", RESP, i, m.arg, l, 1, data)))
  /\ UNCHANGED <<reserved, golden, overwritten>>

AfterGetM(st) == IF st \in {"STOM", "OTOM"} THEN "ITOM" ELSE "ITOI"

\* Another L1 writes: the holder gives the line up.  A reservation on it stays.
HandleGetMForward(i, r) ==
  LET m == MsgAt(i, r)  l == m.line  hit == block[i][l].st # "I"
      data == IF hit THEN block[i][l].data ELSE mshr[i][l].data
  IN
  /\ Receives(i, r, {"GETM_FORWARD"})
  /\ block' = Removed(i, l)
  /\ mshr' = IF hit THEN mshr
             ELSE [mshr EXCEPT ![i][l].st = AfterGetM(@)]
  /\ Reply(i, r, Just(Msg("GETM_RESP", RESP, i, m.arg, l, 0, data)))
  /\ UNCHANGED <<reserved, golden, overwritten>>

HandleGetSResp(i, r) ==
  LET m == MsgAt(i, r)  l == m.line IN
  /\ Receives(i, r, {"GETS_RESP"})
  /\ IF m.arg > 0 THEN NewLine(i, l, "S", m.data, r, Just(GetAck(i, l)))
                  ELSE NewLine(i, l, "E", m.data, r, Nothing)
  /\ UNCHANGED <<reserved, golden, overwritten>>

HandleGetMResp(i, r) ==
  LET m == MsgAt(i, r)  l == m.line  e == mshr[i][l] IN
  /\ Receives(i, r, {"GETM_RESP"})
  /\ IF m.arg = 0 /\ (~e.hasNeed \/ e.need # e.acks)
     THEN /\ mshr' = [mshr EXCEPT ![i][l].data = m.data, ![i][l].hasData = TRUE]
          /\ Reply(i, r, Nothing)
          /\ UNCHANGED block
     ELSE NewLine(i, l, "M", m.data, r, IF m.arg = 0 THEN Just(GetAck(i, l)) ELSE Nothing)
  /\ UNCHANGED <<reserved, golden, overwritten>>

HandleGetRespMem(i, r) ==
  LET m == MsgAt(i, r)  l == m.line IN
  /\ Receives(i, r, {"GET_RESP_MEM"})
  /\ NewLine(i, l, IF mshr[i][l].st = "ITOM" THEN "M" ELSE "E", m.data, r, Just(GetAck(i, l)))
  /\ UNCHANGED <<reserved, golden, overwritten>>

HandlePutAck(i, r) ==
  LET l == MsgAt(i, r).line IN
  /\ Receives(i, r, {"PUT_ACK"})
  /\ mshr' = [mshr EXCEPT ![i][l] = NoMSHR]
  /\ Reply(i, r, Nothing)
  /\ UNCHANGED <<block, reserved, golden, overwritten>>

L1Handle(i, r) ==
  \/ HandleInvalid(i, r)
  \/ HandleInvalidAck(i, r)
  \/ HandleGetMAck(i, r)
  \/ HandleGetSForward(i, r)
  \/ HandleGetMForward(i, r)
  \/ HandleGetSResp(i, r)
  \/ HandleGetMResp(i, r)
  \/ HandleGetRespMem(i, r)
  \/ HandlePutAck(i, r)

L1Access(i, l) ==
  \/ LoadMiss(i, l)
  \/ LoadReserved(i, l)
  \/ StoreHit(i, l)
  \/ StoreMiss(i, l)
  \/ StoreConditional(i, l)
=============================================================================
