----------------------------- MODULE PrivProofs -----------------------------
(***************************************************************************)
(* What the private caches promise the CPUs, for any number of nodes,      *)
(* lines and ways and any CPUs.                                            *)
(*                                                                         *)
(* The directory sees a node as an L1 of MoesiL1 (Seen): of a line as the  *)
(* data cache has it if that has stored into it, else as the L2 has it.    *)
(* So PrivNodeProofs, whose lemmas are about executions that have both the *)
(* nodes and the L1s that stand for them, applies to those of privSpec.    *)
(***************************************************************************)
EXTENDS PrivL1L2, TLAPS

BlockAs(n, l) ==
  IF n.l1d[l].dirty THEN [st |-> "M", data |-> n.l1d[l].data]
  ELSE [st |-> n.l2[l].st, data |-> n.l2[l].data]
MshrAs(n, l) ==
  [st |-> n.mshr[l].st, data |-> n.mshr[l].data, hasData |-> n.mshr[l].hasData,
   hasNeed |-> n.mshr[l].hasNeed, need |-> n.mshr[l].need, acks |-> n.mshr[l].acks]

Seen == INSTANCE PrivNodeProofs WITH
  block <- [i \in L1s |-> [l \in Lines |-> BlockAs(priv[i], l)]],
  mshr <- [i \in L1s |-> [l \in Lines |-> MshrAs(priv[i], l)]],
  golden <- privGolden, reserved <- [i \in L1s |-> 0], overwritten <- {},
  Ways <- PrivL2Ways, MSHRNum <- PrivMSHRs, Reservers <- {}, Accesses <- [i \in L1s |-> {}]

\* The L1s that stand for the nodes do.
LEMMA NodesMapped == Seen!Mapped
  BY DEF Seen!Mapped, Seen!BlockOf, Seen!MshrOf, BlockAs, MshrAs, Seen!NoLine, L1s, Seen!L1s

\* The constants are as PrivNodeProofs assumes.
LEMMA ConstantsFit ==
  /\ NumL1 \in Nat \ {0} /\ MaxData \in Nat \ {0}
  /\ PrivL2Ways \in Nat \ {0} /\ PrivMSHRs \in Nat \ {0} /\ {} \subseteq Seen!L1s
  /\ [i \in L1s |-> {}] \in [Seen!L1s -> SUBSET Lines]
  /\ {RecvBufSize, ProcBufSize, BlkWays, DirWays, MemDepth} \subseteq Nat \ {0}
  /\ {PrivL2Ways, PrivL1Ways, PrivMSHRs} \subseteq Nat \ {0} /\ 0 \notin Lines
  /\ PrivPrograms \subseteq [Seen!L1s -> [loads : SUBSET Lines, stores : SUBSET Lines,
                                         fetches : SUBSET Lines, reserves : SUBSET Lines]]
  BY NumL1Assumption, DataAssumption, LLCAssumption, PrivAssumption DEF L1s, Seen!L1s
-----------------------------------------------------------------------------
(* The operators of the instance are those of PrivL1L2: what they speak of *)
(* is not substituted.                                                     *)

\* What the libraries define.
LEMMA SameCardinality == \A S : Seen!Cardinality(S) = Cardinality(S)
  BY DEF Seen!Cardinality, Cardinality
LEMMA SameRemoveAt == \A s, i : Seen!RemoveAt(s, i) = RemoveAt(s, i)
  BY DEF Seen!RemoveAt, RemoveAt
LEMMA SameToSet == \A s : Seen!ToSet(s) = ToSet(s)
  BY DEF Seen!ToSet, ToSet
LEMMA SameMin == \A S : Seen!Min(S) = Min(S)
  BY DEF Seen!Min, Min

\* The messages and their channels.
LEMMA SameLLC == Seen!LLC = LLC
  BY DEF Seen!LLC, LLC
LEMMA SameNodes == Seen!Nodes = Nodes
  BY DEF Seen!Nodes, Nodes, Seen!MEM, MEM
LEMMA SameMsg ==
  \A type, cha, src, dst, line, arg, data :
    Seen!Msg(type, cha, src, dst, line, arg, data) = Msg(type, cha, src, dst, line, arg, data)
  BY DEF Seen!Msg, Msg
LEMMA SameNetInit == Seen!NetInit <=> NetInit
  BY SameNodes DEF Seen!NetInit, NetInit
LEMMA SameNothing == Seen!Nothing = Nothing
  BY SameNodes DEF Seen!Nothing, Nothing
LEMMA SameAlso == \A out, m : Seen!Also(out, m) = Also(out, m)
  BY DEF Seen!Also, Also
LEMMA SameJust == \A m : Seen!Just(m) = Just(m)
  BY SameAlso, SameNothing DEF Seen!Just, Just
LEMMA SameSent == \A queues, n, out : Seen!Sent(queues, n, out) = Sent(queues, n, out)
  BY SameNodes DEF Seen!Sent, Sent
LEMMA SameArriving == \A d : Seen!Arriving(d) = Arriving(d)
  BY SameNodes DEF Seen!Arriving, Arriving, Seen!Deliverable, Deliverable
LEMMA SameMsgAt == \A d, r : Seen!MsgAt(d, r) = MsgAt(d, r)
  BY DEF Seen!MsgAt, MsgAt
LEMMA SameTaken == \A d, r : Seen!Taken(d, r) = Taken(d, r)
  BY SameRemoveAt DEF Seen!Taken, Taken

\* The directory: the steps of the LLC.
LEMMA SameLLCInit == Seen!LLCInit <=> LLCInit
  BY DEF Seen!LLCInit, LLCInit, Seen!NoEntry, NoEntry, Seen!NotHere, NotHere
LEMMA SameDirHit == \A l : Seen!DirHit(l) <=> DirHit(l)
  BY DEF Seen!DirHit, DirHit
LEMMA SameBlkHit == \A l : Seen!BlkHit(l) <=> BlkHit(l)
  BY DEF Seen!BlkHit, BlkHit, Seen!NotHere, NotHere
LEMMA SameTouch == \A l : Seen!Touch(l) <=> Touch(l)
  BY SameBlkHit DEF Seen!Touch, Touch
LEMMA SameDrop == \A l : Seen!Drop(l) <=> Drop(l)
  BY DEF Seen!Drop, Drop, Seen!NotHere, NotHere
LEMMA SameP1Receive == \A r : Seen!P1Receive(r) <=> P1Receive(r)
  BY SameMsgAt, SameLLC, SameTaken
  DEF Seen!P1Receive, P1Receive, Seen!Room, Room, Seen!Request, Request, Seen!Unlock, Unlock,
      Seen!Unpin, Unpin
LEMMA SameP1Dispatch == Seen!P1Dispatch <=> P1Dispatch
  BY SameRemoveAt
  DEF Seen!P1Dispatch, P1Dispatch, Seen!QueueIndexSize, QueueIndexSize, Seen!Pin, Pin
LEMMA SameWithout == \A e, i : Seen!Without(e, i) = Without(e, i)
  BY DEF Seen!Without, Without
LEMMA SameHandedOver == \A e : Seen!HandedOver(e) = HandedOver(e)
  BY SameMin DEF Seen!HandedOver, HandedOver
LEMMA SameIndexed ==
  \A entry, delay, sends :
    Seen!Indexed(entry, delay, sends) <=> Indexed(entry, delay, sends)
  BY DEF Seen!Indexed, Indexed
LEMMA SameFromLLC ==
  \A type, cha, dst, l, arg, data :
    Seen!FromLLC(type, cha, dst, l, arg, data) = FromLLC(type, cha, dst, l, arg, data)
  BY SameMsg, SameLLC DEF Seen!FromLLC, FromLLC
LEMMA SameIndexGetS == Seen!IndexGetS <=> IndexGetS
  BY SameTouch, SameDirHit, SameIndexed, SameJust, SameFromLLC, SameBlkHit
  DEF Seen!IndexGetS, IndexGetS, Seen!CanIndex, CanIndex, Seen!With, With, Seen!REQ, REQ,
      Seen!NoData, NoData, Seen!Only, Only, Seen!RESP, RESP, Seen!MEM, MEM
LEMMA SameInvalids == \A holders, l, n : Seen!Invalids(holders, l, n) = Invalids(holders, l, n)
  BY SameNodes, SameFromLLC DEF Seen!Invalids, Invalids, Seen!RESP, RESP, Seen!NoData, NoData
LEMMA SameForGetM == \A e, l, i : Seen!ForGetM(e, l, i) = ForGetM(e, l, i)
  BY SameInvalids, SameAlso, SameFromLLC, SameCardinality
  DEF Seen!ForGetM, ForGetM, Seen!Invalidated, Invalidated, Seen!REQ, REQ, Seen!NoData, NoData,
      Seen!RESP, RESP
LEMMA SameIndexGetM == Seen!IndexGetM <=> IndexGetM
  BY SameDirHit, SameBlkHit, SameDrop, SameTouch, SameIndexed, SameForGetM, SameJust,
     SameFromLLC
  DEF Seen!IndexGetM, IndexGetM, Seen!CanIndex, CanIndex, Seen!Only, Only, Seen!RESP, RESP,
      Seen!REQ, REQ, Seen!MEM, MEM, Seen!NoData, NoData
LEMMA SameIndexPutClean == Seen!IndexPutClean <=> IndexPutClean
  BY SameIndexed, SameWithout, SameHandedOver, SameJust, SameFromLLC
  DEF Seen!IndexPutClean, IndexPutClean, Seen!CanIndex, CanIndex, Seen!CleanPutEntry,
      CleanPutEntry, Seen!PutAck, PutAck, Seen!ACK, ACK, Seen!NoData, NoData
LEMMA SamePutEntry == \A m : Seen!PutEntry(m) = PutEntry(m)
  BY SameHandedOver, SameWithout DEF Seen!PutEntry, PutEntry
LEMMA SamePutFits == \A m : Seen!PutFits(m) <=> PutFits(m)
  BY SameBlkHit, SameCardinality DEF Seen!PutFits, PutFits, Seen!InBlk, InBlk
LEMMA SameIndexPutDirty == Seen!IndexPutDirty <=> IndexPutDirty
  BY SameDirHit, SameIndexed, SamePutEntry, SameJust, SameFromLLC, SamePutFits
  DEF Seen!IndexPutDirty, IndexPutDirty, Seen!CanIndex, CanIndex, Seen!PutAck, PutAck, Seen!ACK,
      ACK, Seen!NoData, NoData
LEMMA SameWriteBackVictim == \A v : Seen!WriteBackVictim(v) = WriteBackVictim(v)
  BY SameFromLLC, SameLLC
  DEF Seen!WriteBackVictim, WriteBackVictim, Seen!REQ, REQ, Seen!MEM, MEM
LEMMA SameIndexPutReplacing == Seen!IndexPutReplacing <=> IndexPutReplacing
  BY SameDirHit, SamePutFits, SameBlkHit, SameIndexed, SamePutEntry, SameAlso, SameInvalids,
     SameLLC, SameWriteBackVictim, SameFromLLC
  DEF Seen!IndexPutReplacing, IndexPutReplacing, Seen!CanIndex, CanIndex, Seen!InBlk, InBlk,
      Seen!NotHere, NotHere, Seen!NoEntry, NoEntry, Seen!PutAck, PutAck, Seen!ACK, ACK,
      Seen!NoData, NoData
LEMMA SameP2Writeback == Seen!P2Writeback <=> P2Writeback
  BY SameDirHit, SameCardinality
  DEF Seen!P2Writeback, P2Writeback, Seen!EntryFits, EntryFits, Seen!Written, Written,
      Seen!NoEntry, NoEntry, Seen!Unlock, Unlock, Seen!Unpin, Unpin
LEMMA SameP2Index == Seen!P2Index <=> P2Index
  BY SameIndexGetS, SameIndexGetM, SameIndexPutClean, SameIndexPutDirty, SameIndexPutReplacing,
     SameP2Writeback
  DEF Seen!P2Index, P2Index
LEMMA SameP3Process == \A k : Seen!P3Process(k) <=> P3Process(k)
  BY SameNodes, SameLLC, SameSent, SameNothing, SameRemoveAt
  DEF Seen!P3Process, P3Process, Seen!Channels, Channels, Seen!BusAccepts, BusAccepts, Seen!MEM,
      MEM

\* The memory.
LEMMA SameMemHandle == \A r : Seen!MemHandle(r) <=> MemHandle(r)
  BY SameMsgAt, SameTaken, SameSent, SameJust, SameMsg
  DEF Seen!MemHandle, MemHandle, Seen!MEM, MEM, Seen!RESP, RESP

\* The nodes: what they hold.
LEMMA SameNoReq == Seen!NoReq = NoReq
  BY DEF Seen!NoReq, NoReq
LEMMA SameNoL2 == Seen!NoL2 = NoL2
  BY DEF Seen!NoL2, NoL2, Seen!NoData, NoData
LEMMA SameNoL1D == Seen!NoL1D = NoL1D
  BY DEF Seen!NoL1D, NoL1D, Seen!NoData, NoData
LEMMA SameNoEntryL2 == Seen!NoEntryL2 = NoEntryL2
  BY DEF Seen!NoEntryL2, NoEntryL2, Seen!NoData, NoData
LEMMA SamePrivInit == Seen!privInit <=> privInit
  BY SameNoL2, SameNoEntryL2, SameNoL1D, SameNoReq, SameNothing
  DEF Seen!privInit, privInit, Seen!L1s, L1s, Seen!PrivNode, PrivNode
LEMMA SameInL2 == \A n : Seen!InL2(n) = InL2(n)
  BY DEF Seen!InL2, InL2
LEMMA SameInL1D == \A n : Seen!InL1D(n) = InL1D(n)
  BY DEF Seen!InL1D, InL1D
LEMMA SameInMSHR == \A n : Seen!InMSHR(n) = InMSHR(n)
  BY DEF Seen!InMSHR, InMSHR

\* What their L1s do.
LEMMA SamePosts == \A n, m : Seen!Posts(n, m) = Posts(n, m)
  BY SameAlso DEF Seen!Posts, Posts
LEMMA SameEnds == \A n, l : Seen!Ends(n, l) = Ends(n, l)
  BY DEF Seen!Ends, Ends
LEMMA SameReplaceable ==
  \A in, l, ways :
    Seen!Replaceable(in, l, ways) = Replaceable(in, l, ways)
  BY SameCardinality DEF Seen!Replaceable, Replaceable
LEMMA SameAnswered ==
  \A req, l, writable :
    Seen!Answered(req, l, writable) = Answered(req, l, writable)
  BY SameNoReq DEF Seen!Answered, Answered
LEMMA SameInsert_to_l1d ==
  \A n, l, data, writable, v :
    Seen!insert_to_l1d(n, l, data, writable, v) = insert_to_l1d(n, l, data, writable, v)
<1> TAKE n, l, data, writable, v
<1> DEFINE a == [n EXCEPT !.dreq = Answered(@, l, writable),
                     !.l1d[l] = [in |-> TRUE, write |-> writable, dirty |-> FALSE, data |-> data]]
             b == [n EXCEPT !.dreq = Seen!Answered(@, l, writable),
                     !.l1d[l] = [in |-> TRUE, write |-> writable, dirty |-> FALSE, data |-> data]]
<1>1. insert_to_l1d(n, l, data, writable, v) =
          IF v = 0 THEN a
          ELSE [Ends(a, v) EXCEPT
                  !.l1d[v] = NoL1D,
                  !.l2[v] = IF @.st = "I" THEN @
                            ELSE [st |-> IF n.l1d[v].dirty THEN "M" ELSE @.st,
                                  data |-> IF n.l1d[v].dirty THEN n.l1d[v].data ELSE @.data,
                                  flag |-> @.flag \ {"D", "W"}],
                  !.aborts = @ \/ (n.l1d[v].dirty /\ n.l2[v].st \notin {"I", "E", "M"})
                               \/ v \in InMSHR(n)]
    BY DEF insert_to_l1d
<1>2. Seen!insert_to_l1d(n, l, data, writable, v) =
          IF v = 0 THEN b
          ELSE [Seen!Ends(b, v) EXCEPT
                  !.l1d[v] = Seen!NoL1D,
                  !.l2[v] = IF @.st = "I" THEN @
                            ELSE [st |-> IF n.l1d[v].dirty THEN "M" ELSE @.st,
                                  data |-> IF n.l1d[v].dirty THEN n.l1d[v].data ELSE @.data,
                                  flag |-> @.flag \ {"D", "W"}],
                  !.aborts = @ \/ (n.l1d[v].dirty /\ n.l2[v].st \notin {"I", "E", "M"})
                               \/ v \in Seen!InMSHR(n)]
    BY DEF Seen!insert_to_l1d
<1>3. a = b
    <2>1. Seen!Answered(n.dreq, l, writable) = Answered(n.dreq, l, writable)
      BY SameAnswered
    <2> QED BY <2>1
<1> HIDE DEF a, b
<1>4. Seen!Ends(b, v) = Ends(a, v)
    BY <1>3, SameEnds
<1>5. Seen!InMSHR(n) = InMSHR(n)
    BY SameInMSHR
<1> QED BY <1>1, <1>2, <1>3, <1>4, <1>5, SameNoL1D
LEMMA SameInsert_to_l1i == \A n, l, v : Seen!insert_to_l1i(n, l, v) = insert_to_l1i(n, l, v)
<1> TAKE n, l, v
<1>1. Seen!Answered(n.ireq, l, TRUE) = Answered(n.ireq, l, TRUE)
    BY DEF Seen!Answered, Answered, Seen!NoReq, NoReq
<1> QED BY <1>1 DEF Seen!insert_to_l1i, insert_to_l1i
LEMMA SameFlushed == \A n, l, data : Seen!Flushed(n, l, data) = Flushed(n, l, data)
  BY DEF Seen!Flushed, Flushed
LEMMA SameSnoop_l1d_and_set_readonly ==
  \A n, l :
    Seen!snoop_l1d_and_set_readonly(n, l) = snoop_l1d_and_set_readonly(n, l)
  BY SameEnds DEF Seen!snoop_l1d_and_set_readonly, snoop_l1d_and_set_readonly
LEMMA SameSnoop_l1_and_invalid ==
  \A n, l :
    Seen!snoop_l1_and_invalid(n, l) = snoop_l1_and_invalid(n, l)
  BY SameEnds, SameNoL1D DEF Seen!snoop_l1_and_invalid, snoop_l1_and_invalid

\* What a new line replaces.
LEMMA SamePutType2 == Seen!PutType2 = PutType2
  BY DEF Seen!PutType2, PutType2
LEMMA SameEvictState2 == Seen!EvictState2 = EvictState2
  BY DEF Seen!EvictState2, EvictState2
LEMMA SameEvictL2 == \A n, i, v, line : Seen!EvictL2(n, i, v, line) = EvictL2(n, i, v, line)
<1> TAKE n, i, v, line
<1>1. Seen!InMSHR(n) = InMSHR(n)
    BY SameInMSHR
<1> QED BY <1>1, SameFlushed, SameEnds, SameNoL1D, SameMsg, SamePutType2, SameLLC, SamePosts,
             SameNoL2, SameNoEntryL2, SameEvictState2
          DEF Seen!EvictL2, EvictL2, Seen!REQ, REQ, Seen!NoData, NoData
LEMMA SameToD == \A e, st : Seen!ToD(e, st) <=> ToD(e, st)
  BY DEF Seen!ToD, ToD
LEMMA SameForWriting == \A e, st : Seen!ForWriting(e, st) <=> ForWriting(e, st)
  BY DEF Seen!ForWriting, ForWriting
LEMMA SameToI == \A e : Seen!ToI(e) <=> ToI(e)
  BY DEF Seen!ToI, ToI
LEMMA SameNewFlags == \A e, st : Seen!NewFlags(e, st) = NewFlags(e, st)
  BY SameToD, SameForWriting, SameToI DEF Seen!NewFlags, NewFlags
LEMMA SamePlaced ==
  \A n, i, l, st, data, vd, vi, v :
    Seen!Placed(n, i, l, st, data, vd, vi, v) = Placed(n, i, l, st, data, vd, vi, v)
<1> TAKE n, i, l, st, data, vd, vi, v
<1> DEFINE e == n.mshr[l]
             a == IF ToD(e, st) THEN insert_to_l1d(n, l, data, ForWriting(e, st), vd) ELSE n
             sa == IF Seen!ToD(e, st)
                   THEN Seen!insert_to_l1d(n, l, data, Seen!ForWriting(e, st), vd) ELSE n
             b == IF ToI(e) THEN insert_to_l1i(a, l, vi) ELSE a
             sb == IF Seen!ToI(e) THEN Seen!insert_to_l1i(sa, l, vi) ELSE sa
             c == [b EXCEPT !.mshr[l] = NoEntryL2,
                            !.l2[l] = [st |-> st, data |-> data, flag |-> NewFlags(e, st)]]
             sc == [sb EXCEPT !.mshr[l] = Seen!NoEntryL2,
                              !.l2[l] = [st |-> st, data |-> data, flag |-> Seen!NewFlags(e, st)]]
<1>1. Placed(n, i, l, st, data, vd, vi, v) = IF v = 0 THEN c ELSE EvictL2(c, i, v, b.l2[v])
    BY DEF Placed
<1>2. Seen!Placed(n, i, l, st, data, vd, vi, v)
          = IF v = 0 THEN sc ELSE Seen!EvictL2(sc, i, v, sb.l2[v])
    BY DEF Seen!Placed
<1>3. sa = a
    <2>1. Seen!ForWriting(e, st) = ForWriting(e, st)
      BY DEF Seen!ForWriting, ForWriting
    <2> DEFINE w == ForWriting(e, st)
    <2>2. Seen!insert_to_l1d(n, l, data, w, vd) = insert_to_l1d(n, l, data, w, vd)
      BY SameInsert_to_l1d
    <2>3. Seen!insert_to_l1d(n, l, data, Seen!ForWriting(e, st), vd) = insert_to_l1d(n, l, data, w, vd)
      BY <2>1, <2>2
    <2> QED BY <2>3, SameToD
<1> HIDE DEF a, sa
<1>4. sb = b
    BY <1>3, SameToI, SameInsert_to_l1i
<1> HIDE DEF b, sb
<1>5. sc = c
    BY <1>4, SameNoEntryL2, SameNewFlags
<1> HIDE DEF c, sc
<1> QED BY <1>1, <1>2, <1>4, <1>5, SameEvictL2
LEMMA SameNewLine2 ==
  \A n, i, l, st, data :
    Seen!NewLine2(n, i, l, st, data) = NewLine2(n, i, l, st, data)
  BY SamePlaced, SameToD, SameReplaceable, SameInL1D, SameToI, SameInL2
  DEF Seen!NewLine2, NewLine2

\* What a node does with a message.
LEMMA SameGetAckFrom == \A i, l : Seen!GetAckFrom(i, l) = GetAckFrom(i, l)
  BY SameMsg, SameLLC DEF Seen!GetAckFrom, GetAckFrom, Seen!ACK, ACK, Seen!NoData, NoData
LEMMA SameAborted == \A n : Seen!Aborted(n) = Aborted(n)
  BY DEF Seen!Aborted, Aborted
LEMMA SameHasLineData2 == \A e : Seen!HasLineData2(e) <=> HasLineData2(e)
  BY DEF Seen!HasLineData2, HasLineData2
LEMMA SameCollecting2 == \A e : Seen!Collecting2(e) <=> Collecting2(e)
  BY DEF Seen!Collecting2, Collecting2
LEMMA SameFinished == \A n, i, l : Seen!Finished(n, i, l) = Finished(n, i, l)
  BY SameNewLine2, SamePosts, SameGetAckFrom DEF Seen!Finished, Finished
LEMMA SameOnInvalid == \A n, i, m : Seen!OnInvalid(n, i, m) = OnInvalid(n, i, m)
<1> TAKE n, i, m
<1> DEFINE l == m.line
           st == n.mshr[l].st
           a == Posts([n EXCEPT !.l2[l] = NoL2, !.l1i = @ \ {l}, !.l1d[l] = NoL1D],
                      Msg("INVALID_ACK", ACK, i, m.arg, l, 0, NoData))
           sa == Seen!Posts([n EXCEPT !.l2[l] = Seen!NoL2, !.l1i = @ \ {l}, !.l1d[l] = Seen!NoL1D],
                            Seen!Msg("INVALID_ACK", Seen!ACK, i, m.arg, l, 0, Seen!NoData))
           after(x) == [x EXCEPT !.mshr[l].st =
                          CASE st \in {"STOI", "MTOI", "OTOI"} -> "ITOI"
                            [] st \in {"OTOM", "STOM"} -> "ITOM"
                            [] OTHER -> st]
<1>1. OnInvalid(n, i, m)
          = IF st \in {"ITOS", "ETOI", "ITOI"} THEN Aborted(n) ELSE {Ends(after(a), l)}
  BY DEF OnInvalid
<1>2. Seen!OnInvalid(n, i, m)
          = IF st \in {"ITOS", "ETOI", "ITOI"} THEN Seen!Aborted(n) ELSE {Seen!Ends(after(sa), l)}
  BY DEF Seen!OnInvalid
<1>3. sa = a
  BY SamePosts, SameNoL2, SameNoL1D, SameMsg DEF Seen!ACK, ACK, Seen!NoData, NoData
<1> HIDE DEF a, sa, after
<1> QED BY <1>1, <1>2, <1>3, SameAborted, SameEnds
LEMMA SameOnInvalidAck == \A n, i, l : Seen!OnInvalidAck(n, i, l) = OnInvalidAck(n, i, l)
  BY SameAborted, SameCollecting2, SameHasLineData2, SameFinished
  DEF Seen!OnInvalidAck, OnInvalidAck
LEMMA SameOnGetMAck == \A n, i, m : Seen!OnGetMAck(n, i, m) = OnGetMAck(n, i, m)
  BY SameAborted, SameCollecting2, SameHasLineData2, SameFinished DEF Seen!OnGetMAck, OnGetMAck
LEMMA SameHasInMSHR == \A n, l : Seen!HasInMSHR(n, l) <=> HasInMSHR(n, l)
  BY DEF Seen!HasInMSHR, HasInMSHR
LEMMA SameForwardable == \A n, l : Seen!Forwardable(n, l) <=> Forwardable(n, l)
  BY SameHasInMSHR DEF Seen!Forwardable, Forwardable
LEMMA SameForwardData == \A n, l : Seen!ForwardData(n, l) = ForwardData(n, l)
  BY SameFlushed DEF Seen!ForwardData, ForwardData
LEMMA SameOnGetSForward == \A n, i, m : Seen!OnGetSForward(n, i, m) = OnGetSForward(n, i, m)
<1> TAKE n, i, m
<1> DEFINE l == m.line
             d == ForwardData(n, l)
             a == Posts(snoop_l1d_and_set_readonly(n, l), Msg("GETS_RESP", RESP, i, m.arg, l, 1, d))
             sd == Seen!ForwardData(n, l)
             sa == Seen!Posts(Seen!snoop_l1d_and_set_readonly(n, l),
                              Seen!Msg("GETS_RESP", Seen!RESP, i, m.arg, l, 1, sd))
             after(x, y) ==
               IF n.l2[l].st # "I" THEN {[x EXCEPT !.l2[l].st = "O", !.l2[l].data = y]}
               ELSE {[x EXCEPT !.mshr[l].data = y,
                        !.mshr[l].st = IF @ \in {"MTOI", "ETOI", "STOI"} THEN "OTOI" ELSE @]}
<1>1. OnGetSForward(n, i, m) = IF ~Forwardable(n, l) THEN Aborted(n) ELSE after(a, d)
    BY DEF OnGetSForward
<1>2. Seen!OnGetSForward(n, i, m)
          = IF ~Seen!Forwardable(n, l) THEN Seen!Aborted(n) ELSE after(sa, sd)
    BY DEF Seen!OnGetSForward
<1>3. sd = d
    BY SameForwardData
<1> HIDE DEF d, sd
<1>4. sa = a
    BY <1>3, SamePosts, SameSnoop_l1d_and_set_readonly, SameMsg DEF Seen!RESP, RESP
<1> HIDE DEF a, sa, after
<1> QED BY <1>1, <1>2, <1>3, <1>4, SameForwardable, SameAborted
LEMMA SameOnGetMForward == \A n, i, m : Seen!OnGetMForward(n, i, m) = OnGetMForward(n, i, m)
<1> TAKE n, i, m
<1> DEFINE l == m.line
           a == Posts(snoop_l1_and_invalid(n, l),
                      Msg("GETM_RESP", RESP, i, m.arg, l, 0, ForwardData(n, l)))
           sa == Seen!Posts(Seen!snoop_l1_and_invalid(n, l),
                            Seen!Msg("GETM_RESP", Seen!RESP, i, m.arg, l, 0, Seen!ForwardData(n, l)))
           after(x, none) ==
             IF n.l2[l].st # "I" THEN {[x EXCEPT !.l2[l] = none]}
             ELSE {[x EXCEPT !.mshr[l].st = IF @ \in {"STOM", "OTOM"} THEN "ITOM" ELSE "ITOI"]}
<1>1. OnGetMForward(n, i, m) = IF ~Forwardable(n, l) THEN Aborted(n) ELSE after(a, NoL2)
  BY DEF OnGetMForward
<1>2. Seen!OnGetMForward(n, i, m)
          = IF ~Seen!Forwardable(n, l) THEN Seen!Aborted(n) ELSE after(sa, Seen!NoL2)
  BY DEF Seen!OnGetMForward
<1>3. sa = a
  BY SamePosts, SameSnoop_l1_and_invalid, SameMsg, SameForwardData DEF Seen!RESP, RESP
<1> HIDE DEF a, sa, after
<1> QED BY <1>1, <1>2, <1>3, SameForwardable, SameAborted, SameNoL2
LEMMA SameOnGetSResp == \A n, i, m : Seen!OnGetSResp(n, i, m) = OnGetSResp(n, i, m)
  BY SameAborted, SameNewLine2, SamePosts, SameGetAckFrom DEF Seen!OnGetSResp, OnGetSResp
LEMMA SameOnGetMResp == \A n, i, m : Seen!OnGetMResp(n, i, m) = OnGetMResp(n, i, m)
  BY SameAborted, SameNewLine2, SamePosts, SameGetAckFrom DEF Seen!OnGetMResp, OnGetMResp
LEMMA SameOnGetRespMem == \A n, i, m : Seen!OnGetRespMem(n, i, m) = OnGetRespMem(n, i, m)
  BY SamePosts, SameGetAckFrom, SameNewLine2, SameAborted DEF Seen!OnGetRespMem, OnGetRespMem
LEMMA SameAsksFor ==
  \A n, i, l, st, finish, flag :
    Seen!AsksFor(n, i, l, st, finish, flag) = AsksFor(n, i, l, st, finish, flag)
  BY SamePosts, SameNoEntryL2, SameMsg, SameLLC
  DEF Seen!AsksFor, AsksFor, Seen!REQ, REQ, Seen!NoData, NoData
LEMMA SameOnPutAck == \A n, i, l : Seen!OnPutAck(n, i, l) = OnPutAck(n, i, l)
  BY SameNoEntryL2, SameAborted, SameAsksFor DEF Seen!OnPutAck, OnPutAck
LEMMA SameOnMessage == \A n, i, m : Seen!OnMessage(n, i, m) = OnMessage(n, i, m)
<1> TAKE n, i, m
<1>1. Seen!OnInvalid(n, i, m) = OnInvalid(n, i, m)
  BY SameOnInvalid
<1>2. Seen!OnInvalidAck(n, i, m.line) = OnInvalidAck(n, i, m.line)
  BY SameOnInvalidAck
<1>3. Seen!OnGetMAck(n, i, m) = OnGetMAck(n, i, m)
  BY SameOnGetMAck
<1>4. Seen!OnGetSForward(n, i, m) = OnGetSForward(n, i, m)
  BY SameOnGetSForward
<1>5. Seen!OnGetMForward(n, i, m) = OnGetMForward(n, i, m)
  BY SameOnGetMForward
<1>6. Seen!OnGetSResp(n, i, m) = OnGetSResp(n, i, m)
  BY SameOnGetSResp
<1>7. Seen!OnGetMResp(n, i, m) = OnGetMResp(n, i, m)
  BY SameOnGetMResp
<1>8. Seen!OnGetRespMem(n, i, m) = OnGetRespMem(n, i, m)
  BY SameOnGetRespMem
<1>9. Seen!OnPutAck(n, i, m.line) = OnPutAck(n, i, m.line)
  BY SameOnPutAck
<1> QED BY <1>1, <1>2, <1>3, <1>4, <1>5, <1>6, <1>7, <1>8, <1>9 DEF Seen!OnMessage, OnMessage
LEMMA SamePrivReceive == \A i : Seen!PrivReceive(i) <=> PrivReceive(i)
  BY SameArriving, SameMsgAt, SameOnMessage, SameNothing, SameSent, SameTaken, SameToSet
  DEF Seen!PrivReceive, PrivReceive
LEMMA SamePrivFetch == \A i : Seen!PrivFetch(i) <=> PrivFetch(i)
  BY ZenonT(60), SameToSet DEF Seen!PrivFetch, PrivFetch, Seen!Fetchable, Fetchable
LEMMA SameForI == \A n, l : Seen!ForI(n, l) <=> ForI(n, l)
  BY DEF Seen!ForI, ForI
LEMMA SameForD == \A n, l : Seen!ForD(n, l) <=> ForD(n, l)
  BY DEF Seen!ForD, ForD
LEMMA SameRetry == \A n, l : Seen!Retry(n, l) = Retry(n, l)
  BY SameForI, SameForD DEF Seen!Retry, Retry
LEMMA SameReadBy ==
  \A n, l, data, vi, vd :
    Seen!ReadBy(n, l, data, vi, vd) = ReadBy(n, l, data, vi, vd)
<1> TAKE n, l, data, vi, vd
<1> DEFINE a == IF ForI(n, l) THEN insert_to_l1i(n, l, vi) ELSE n
           sa == IF Seen!ForI(n, l) THEN Seen!insert_to_l1i(n, l, vi) ELSE n
<1>1. ReadBy(n, l, data, vi, vd)
          = IF ForD(n, l) THEN insert_to_l1d(a, l, data, FALSE, vd) ELSE a
  BY DEF ReadBy
<1>2. Seen!ReadBy(n, l, data, vi, vd)
          = IF Seen!ForD(n, l) THEN Seen!insert_to_l1d(sa, l, data, FALSE, vd) ELSE sa
  BY DEF Seen!ReadBy
<1>3. sa = a
  BY SameForI, SameInsert_to_l1i
<1> HIDE DEF a, sa
<1> QED BY <1>1, <1>2, <1>3, SameForD, SameInsert_to_l1d
LEMMA SameBothRead == \A n, l, data : Seen!BothRead(n, l, data) = BothRead(n, l, data)
  BY SameReadBy, SameForI, SameReplaceable, SameForD, SameInL1D DEF Seen!BothRead, BothRead
LEMMA SameReaders == \A n, l, d : Seen!Readers(n, l, d) = Readers(n, l, d)
  BY SameForI, SameForD DEF Seen!Readers, Readers
LEMMA SameIndexRead == \A n, i, l : Seen!IndexRead(n, i, l) = IndexRead(n, i, l)
<1> TAKE n, i, l
<1> DEFINE e == n.mshr[l]
             a == BothRead([n EXCEPT !.l2[l].flag = @ \cup Readers(n, l, "D")], l, n.l2[l].data)
             sa == Seen!BothRead([n EXCEPT !.l2[l].flag = @ \cup Seen!Readers(n, l, "D")],
                                 l, n.l2[l].data)
             b == BothRead([n EXCEPT !.mshr[l].flag = @ \cup Readers(n, l, "D")], l, e.data)
             sb == Seen!BothRead([n EXCEPT !.mshr[l].flag = @ \cup Seen!Readers(n, l, "D")],
                                 l, e.data)
             c == {[n EXCEPT !.mshr[l].finish = @ \cup Readers(n, l, "S")]}
             sc == {[n EXCEPT !.mshr[l].finish = @ \cup Seen!Readers(n, l, "S")]}
             d == IF Cardinality(InMSHR(n)) < PrivMSHRs
                  THEN {AsksFor(n, i, l, "ITOS", Readers(n, l, "S"), {})} ELSE {Retry(n, l)}
             sd == IF Seen!Cardinality(Seen!InMSHR(n)) < PrivMSHRs
                   THEN {Seen!AsksFor(n, i, l, "ITOS", Seen!Readers(n, l, "S"), {})}
                   ELSE {Seen!Retry(n, l)}
             pick(w, x, y, z) == IF n.l2[l].st # "I" THEN w
                                 ELSE IF e.st \in {"OTOM", "STOM"} THEN x
                                 ELSE IF e.st # "-" THEN y ELSE z
<1>1. IndexRead(n, i, l) = pick(a, b, c, d)
    BY DEF IndexRead
<1>2. Seen!IndexRead(n, i, l) = pick(sa, sb, sc, sd)
    BY DEF Seen!IndexRead
<1>3. \A f : Seen!Readers(n, l, f) = Readers(n, l, f)
    BY SameReaders
<1>4. sa = a
    BY <1>3, SameBothRead
<1>5. sb = b
    BY <1>3, SameBothRead
<1>6. sc = c
    BY <1>3
<1>7. sd = d
    BY <1>3, SameInMSHR, SameCardinality, SameAsksFor, SameRetry
<1> HIDE DEF a, sa, b, sb, c, sc, d, sd, pick
<1> QED BY <1>1, <1>2, <1>4, <1>5, <1>6, <1>7
LEMMA SameWaits2 == \A n, l : Seen!Waits2(n, l) = Waits2(n, l)
  BY DEF Seen!Waits2, Waits2
LEMMA SameUpgrading == \A n, i, l : Seen!Upgrading(n, i, l) = Upgrading(n, i, l)
<1> TAKE n, i, l
<1> DEFINE line == n.l2[l]
             a == AsksFor(n, i, l, "ITOM", {"M"}, line.flag \cup {"D", "W"})
             sa == Seen!AsksFor(n, i, l, "ITOM", {"M"}, line.flag \cup {"D", "W"})
             after(x, none) ==
               IF line.st = "I" THEN x
               ELSE [x EXCEPT !.l2[l] = none, !.mshr[l].data = line.data,
                              !.mshr[l].st = IF line.st = "S" THEN "STOM" ELSE "OTOM"]
<1>1. Upgrading(n, i, l) = after(a, NoL2)
    BY DEF Upgrading
<1>2. Seen!Upgrading(n, i, l) = after(sa, Seen!NoL2)
    BY DEF Seen!Upgrading
<1>3. sa = a
    BY SameAsksFor
<1> HIDE DEF a, sa, after
<1> QED BY <1>1, <1>2, <1>3, SameNoL2
LEMMA SameIndexWrite == \A n, i, l : Seen!IndexWrite(n, i, l) = IndexWrite(n, i, l)
<1> TAKE n, i, l
<1> DEFINE e == n.mshr[l]
             m == [n EXCEPT !.l2[l].flag = @ \cup {"D", "W"}]
             a == {insert_to_l1d(m, l, n.l2[l].data, TRUE, v) :
                     v \in Replaceable(InL1D(n), l, PrivL1Ways)}
             sa == {Seen!insert_to_l1d(m, l, n.l2[l].data, TRUE, v) :
                      v \in Seen!Replaceable(Seen!InL1D(n), l, PrivL1Ways)}
             pick(x, collects, room, up, waits) ==
               IF n.l2[l].st \in {"E", "M"} THEN x
               ELSE IF n.l2[l].st = "I" /\ e.st # "-"
               THEN IF collects
                    THEN {[n EXCEPT !.mshr[l].flag = @ \cup {"D", "W"},
                                    !.mshr[l].finish = @ \cup {"M"}]}
                    ELSE waits
               ELSE IF e.st = "-" /\ room THEN up ELSE waits
             room == Cardinality(InMSHR(n)) < PrivMSHRs
             sroom == Seen!Cardinality(Seen!InMSHR(n)) < PrivMSHRs
<1>1. IndexWrite(n, i, l) = pick(a, Collecting2(e), room, {Upgrading(n, i, l)}, {Waits2(n, l)})
    BY DEF IndexWrite
<1>2. Seen!IndexWrite(n, i, l)
          = pick(sa, Seen!Collecting2(e), sroom, {Seen!Upgrading(n, i, l)}, {Seen!Waits2(n, l)})
    BY DEF Seen!IndexWrite
<1>3. sa = a
    <2> HIDE DEF m
    <2> DEFINE t == TRUE
    <2>1. \A v : Seen!insert_to_l1d(m, l, n.l2[l].data, t, v) = insert_to_l1d(m, l, n.l2[l].data, t, v)
      <3> HIDE DEF t
      <3> QED BY SameInsert_to_l1d
    <2>2. Seen!Replaceable(Seen!InL1D(n), l, PrivL1Ways) = Replaceable(InL1D(n), l, PrivL1Ways)
      BY SameReplaceable, SameInL1D
    <2> QED BY <2>1, <2>2
<1>4. Seen!Collecting2(e) <=> Collecting2(e)
    BY SameCollecting2
<1>5. sroom <=> room
    BY SameInMSHR, SameCardinality
<1>6. {Seen!Upgrading(n, i, l)} = {Upgrading(n, i, l)} /\ {Seen!Waits2(n, l)} = {Waits2(n, l)}
    BY SameUpgrading, SameWaits2
<1> HIDE DEF a, sa, room, sroom
<1> QED BY <1>1, <1>2, <1>3, <1>4, <1>5, <1>6
LEMMA SamePrivIndex == \A i : Seen!PrivIndex(i) <=> PrivIndex(i)
  BY SameForI, SameForD, SameIndexWrite, SameIndexRead, SameNothing, SameSent
  DEF Seen!PrivIndex, PrivIndex
LEMMA SamePrivCPU == \A i : Seen!PrivCPU(i) <=> PrivCPU(i)
  BY DEF Seen!PrivCPU, PrivCPU, Seen!l1d_load, l1d_load, Seen!l1d_store, l1d_store, Seen!L1s, L1s,
         Seen!l1i_load, l1i_load, Seen!l1d_load_reserved, l1d_load_reserved,
         Seen!l1d_store_conditional, l1d_store_conditional
LEMMA SamePrivNext == Seen!privNext <=> privNext
  BY SamePrivCPU, SamePrivFetch, SamePrivIndex, SamePrivReceive, SameArriving, SameLLC,
     SameP1Receive, SameP1Dispatch, SameP2Index, SameP3Process, SameMemHandle
  DEF Seen!privNext, privNext, Seen!L1s, L1s, Seen!llcVars, llcVars, Seen!MEM, MEM,
      Seen!privVars, privVars
LEMMA SamePrivReadsLatest == Seen!PrivReadsLatest <=> PrivReadsLatest
  BY SameInL1D, SameInL2 DEF Seen!PrivReadsLatest, PrivReadsLatest, Seen!L1s, L1s
LEMMA SamePrivNeverAborts == Seen!PrivNeverAborts <=> PrivNeverAborts
  BY DEF Seen!PrivNeverAborts, PrivNeverAborts, Seen!L1s, L1s
LEMMA SamePrivReservation == Seen!PrivReservation <=> PrivReservation
  BY DEF Seen!PrivReservation, PrivReservation, Seen!L1s, L1s
-----------------------------------------------------------------------------
(* What is shown of the nodes.                                             *)

\* The executions in which the block array of the LLC has room for every write-back.
privUnreplacedSpec ==
  NetInit /\ LLCInit /\ privInit /\ [][privNext /\ ~IndexPutReplacing]_<<net, privVars, llcVars>>

\* Both spell the same executions.
LEMMA SameSpec == (Seen!privSpec <=> privSpec) /\ (Seen!PrivUnreplaced <=> privUnreplacedSpec)
<1>1. <<net, Seen!privVars, Seen!llcVars>> = <<net, privVars, llcVars>>
  BY DEF Seen!privVars, privVars, Seen!llcVars, llcVars
<1>2. [Seen!privNext]_<<net, Seen!privVars, Seen!llcVars>> <=> [privNext]_<<net, privVars, llcVars>>
  BY SamePrivNext DEF Seen!privVars, privVars, Seen!llcVars, llcVars
<1>3. [Seen!privNext /\ ~Seen!IndexPutReplacing]_<<net, Seen!privVars, Seen!llcVars>>
      <=> [privNext /\ ~IndexPutReplacing]_<<net, privVars, llcVars>>
  BY SamePrivNext, SameIndexPutReplacing DEF Seen!privVars, privVars, Seen!llcVars, llcVars
<1> QED BY <1>2, <1>3, SameNetInit, SameLLCInit, SamePrivInit, PTL
        DEF privSpec, Seen!privSpec, privUnreplacedSpec, Seen!PrivUnreplaced

\* No assertion of a node fails, however its messages and requests are delayed and ordered
\* and whatever its caches replace; and a store conditional that can succeed has seen every
\* store to its line.
THEOREM PrivsNeverAbort == privUnreplacedSpec => [](PrivNeverAborts /\ PrivReservation)
<1>1. []Seen!Mapped
  BY NodesMapped, PTL
<1>2. Seen!PrivUnreplaced /\ []Seen!Mapped
      => [](Seen!PrivNeverAborts /\ Seen!PrivReservation /\ Seen!WritersAlone)
  BY ConstantsFit, Seen!MappedNeverAbort
<1> QED BY <1>1, <1>2, SameSpec, SamePrivNeverAborts, SamePrivReservation, PTL

\* The directory sees the nodes act as L1s of MoesiL1: every step does to each line what
\* the line protocol of MoesiLine lets happen to it, or nothing.  So the invariant of that
\* protocol holds of the nodes.
THEOREM PrivsActAsL1s ==
  privUnreplacedSpec => []Seen!MoesiInv /\ [][Seen!LinesMove]_<<net, privVars, llcVars>>
<1>1. []Seen!Mapped
  BY NodesMapped, PTL
<1>2. Seen!PrivUnreplaced /\ []Seen!Mapped
      => /\ [](Seen!MoesiInv /\ Seen!SoleWriter /\ Seen!PrivInv)
         /\ [][Seen!LinesMove /\ Seen!OneMoves]_<<net, Seen!privVars, Seen!llcVars>>
  BY ConstantsFit, Seen!MappedMoves
<1>3. <<net, Seen!privVars, Seen!llcVars>> = <<net, privVars, llcVars>>
  BY DEF Seen!privVars, privVars, Seen!llcVars, llcVars
<1>4. [Seen!LinesMove /\ Seen!OneMoves]_<<net, Seen!privVars, Seen!llcVars>>
      => [Seen!LinesMove]_<<net, privVars, llcVars>>
  BY DEF Seen!privVars, privVars, Seen!llcVars, llcVars
<1> QED BY <1>1, <1>2, <1>4, SameSpec, PTL

\* The L1s' rights agree with each other: a node writes alone.
Sole ==
  /\ privGolden \in [Lines -> 0 .. MaxData]
  /\ \A i \in L1s : \A l \in Lines :
       priv[i].l1d[l].write =>
         \A j \in L1s \ {i} : ~priv[j].l1d[l].in /\ ~priv[j].l1d[l].write /\ l \notin priv[j].l1i
Rights(i) == [l \in Lines |-> PrivPermission(i, l)]

\* A node that comes to hold other lines takes rights the others allow.
LEMMA HoldsAnewMoves ==
  ASSUME Sole', NEW i \in L1s, \A j \in L1s \ {i} : priv'[j] = priv[j], privGolden' = privGolden
  PROVE  PrivMemory!Move(i)
<1> DEFINE f == [l \in Lines |-> PrivPermission(i, l)']
<1>1. f \in [Lines -> PrivMemory!Perms]
  BY DEF PrivPermission, PrivMemory!Perms
<1>2. ASSUME NEW d \in L1s \ {i}, NEW l \in Lines PROVE PrivPermission(d, l)' = PrivPermission(d, l)
  BY DEF PrivPermission
<1>3. ASSUME NEW l \in Lines PROVE PrivMemory!Allowed(i, l, f[l])
  <2> SUFFICES ASSUME NEW d \in L1s \ {i}
               PROVE  /\ f[l] = "write" => PrivPermission(d, l) = "none"
                      /\ f[l] = "read" => PrivPermission(d, l) # "write"
    BY DEF PrivMemory!Allowed
  <2>1. /\ priv'[i].l1d[l].write => ~priv'[d].l1d[l].in /\ ~priv'[d].l1d[l].write /\ l \notin priv'[d].l1i
        /\ priv'[d].l1d[l].write => ~priv'[i].l1d[l].in /\ ~priv'[i].l1d[l].write /\ l \notin priv'[i].l1i
    BY DEF Sole
  <2>2. /\ PrivPermission(i, l)' = "write" => PrivPermission(d, l)' = "none"
        /\ PrivPermission(i, l)' = "read" => PrivPermission(d, l)' # "write"
    BY <2>1 DEF PrivPermission
  <2> QED BY <2>2, <1>2
<1>4. [k \in L1s |-> [l \in Lines |-> PrivPermission(k, l)']]
      = [[k \in L1s |-> [l \in Lines |-> PrivPermission(k, l)]] EXCEPT ![i] = f]
  BY <1>2
<1> QED BY <1>1, <1>3, <1>4 DEF PrivMemory!Move

\* A store is a store of the coherent memory.
LEMMA StoresAnewStores ==
  ASSUME Sole, NEW i \in L1s, NEW l \in Lines, priv[i].l1d[l].write,
         NEW d \in 0 .. MaxData, privGolden' = [privGolden EXCEPT ![l] = d],
         \A j \in L1s : /\ priv'[j].l1i = priv[j].l1i
                        /\ \A k \in Lines : /\ priv'[j].l1d[k].in <=> priv[j].l1d[k].in
                                            /\ priv'[j].l1d[k].write <=> priv[j].l1d[k].write
  PROVE  PrivMemory!Store(i, l)
<1>1. ASSUME NEW k \in L1s, NEW j \in Lines PROVE PrivPermission(k, j)' = PrivPermission(k, j)
  <2>1. /\ priv'[k].l1i = priv[k].l1i
        /\ priv'[k].l1d[j].in <=> priv[k].l1d[j].in
        /\ priv'[k].l1d[j].write <=> priv[k].l1d[j].write
    OBVIOUS
  <2>2. CASE priv[k].l1d[j].write
    BY <2>1, <2>2, Zenon DEF PrivPermission
  <2>3. CASE ~priv[k].l1d[j].write /\ priv[k].l1d[j].in
    BY <2>1, <2>3, Zenon DEF PrivPermission
  <2>4. CASE ~priv[k].l1d[j].write /\ ~priv[k].l1d[j].in
    BY <2>1, <2>4, Zenon DEF PrivPermission
  <2> QED BY <2>2, <2>3, <2>4
<1>2. PrivPermission(i, l) = "write"
  BY DEF PrivPermission
<1> QED BY <1>1, <1>2 DEF PrivMemory!Store

\* To the CPUs the nodes are a coherent memory: of a line there is one node whose data cache
\* may write it or many whose caches may read it, and only the former changes what the
\* line holds.
THEOREM PrivsCoherent == privUnreplacedSpec => PrivCoherent
<1>1. []Seen!Mapped
  BY NodesMapped, PTL
<1>2. Seen!PrivUnreplaced /\ []Seen!Mapped
      => /\ [](Seen!MoesiInv /\ Seen!SoleWriter /\ Seen!PrivInv)
         /\ [][Seen!LinesMove /\ Seen!OneMoves]_<<net, Seen!privVars, Seen!llcVars>>
  BY ConstantsFit, Seen!MappedMoves
<1>3. Seen!SoleWriter /\ Seen!PrivInv => Sole
  BY DEF Seen!SoleWriter, Seen!PrivInv, Seen!NodesInv, Sole, Seen!L1s, L1s, Seen!Data
<1>4. NetInit /\ LLCInit /\ privInit => PrivMemory!Init
  <2> SUFFICES ASSUME privInit PROVE PrivMemory!Init
    OBVIOUS
  <2>1. privGolden = [l \in Lines |-> 0]
    BY DEF privInit
  <2>2. \A k \in L1s, l \in Lines : PrivPermission(k, l) = "none"
    BY DEF privInit, PrivNode, NoL1D, PrivPermission
  <2> QED BY <2>1, <2>2 DEF PrivMemory!Init
<1>5. ASSUME Sole, Sole', [Seen!LinesMove /\ Seen!OneMoves]_<<net, Seen!privVars, Seen!llcVars>>
      PROVE  [PrivMemory!Next]_(PrivMemory!vars)
  <2>1. CASE UNCHANGED <<priv, privGolden>>
    BY <2>1 DEF PrivMemory!vars, PrivPermission
  <2>2. ASSUME NEW i \in L1s, Seen!HoldsAnew(i) PROVE PrivMemory!Next
    <3>1. PrivMemory!Move(i)
      BY <1>5, <2>2, HoldsAnewMoves DEF Seen!HoldsAnew, Seen!L1s, L1s
    <3> QED BY <3>1 DEF PrivMemory!Next
  <2>3. ASSUME NEW i \in L1s, NEW l \in Lines, Seen!StoresAnew(i, l) PROVE PrivMemory!Next
    <3>1. PrivMemory!Store(i, l)
      BY <1>5, <2>3, StoresAnewStores DEF Seen!StoresAnew, Seen!L1s, L1s, Seen!Data
    <3> QED BY <3>1 DEF PrivMemory!Next
  <2>4. UNCHANGED <<net, Seen!privVars, Seen!llcVars>> => UNCHANGED <<priv, privGolden>>
    BY DEF Seen!privVars
  <2>5. Seen!L1s = L1s
    BY DEF Seen!L1s, L1s
  <2> QED BY <1>5, <2>1, <2>2, <2>3, <2>4, <2>5 DEF Seen!OneMoves
<1> QED BY <1>1, <1>2, <1>3, <1>4, <1>5, SameSpec, PTL
        DEF PrivCoherent, PrivMemory!Spec, privUnreplacedSpec

\* Every copy a load can hit has what was stored last, in whatever node that was, as long
\* as nobody but the owner of a line has its write-back change the owner.
THEOREM PrivsReadLatest ==
  privUnreplacedSpec /\ [][Seen!NoStaleWriteBack]_<<net, privVars, llcVars>> => []PrivReadsLatest
<1>1. []Seen!Mapped
  BY NodesMapped, PTL
<1>2. Seen!PrivUnreplaced /\ []Seen!Mapped
        /\ [][Seen!NoStaleWriteBack]_<<net, Seen!privVars, Seen!llcVars>> => []Seen!PrivReadsLatest
  BY ConstantsFit, Seen!MappedReadLatest
<1>3. [Seen!NoStaleWriteBack]_<<net, privVars, llcVars>>
      => [Seen!NoStaleWriteBack]_<<net, Seen!privVars, Seen!llcVars>>
  BY DEF Seen!privVars, privVars, Seen!llcVars, llcVars
<1> QED BY <1>1, <1>2, <1>3, SameSpec, SamePrivReadsLatest, PTL

\* With two nodes there is no other write-back.
THEOREM TwoPrivsReadLatest ==
  ASSUME NumL1 <= 2
  PROVE  privUnreplacedSpec => []PrivReadsLatest
<1>1. []Seen!Mapped
  BY NodesMapped, PTL
<1>2. Seen!PrivUnreplaced /\ []Seen!Mapped => []Seen!PrivReadsLatest
  BY ConstantsFit, Seen!MappedTwoReadLatest
<1> QED BY <1>1, <1>2, SameSpec, SamePrivReadsLatest, PTL

\* All of it holds of every execution when the block array has a way for every line.
COROLLARY RoomyPrivs ==
  ASSUME IsFiniteSet(Lines), Cardinality(Lines) <= BlkWays
  PROVE  /\ privSpec => [](PrivNeverAborts /\ PrivReservation) /\ PrivCoherent
         /\ NumL1 <= 2 => (privSpec => []PrivReadsLatest)
<1>1. []Seen!Mapped
  BY NodesMapped, PTL
<1>2. Seen!RoomForAll
  BY SameCardinality DEF Seen!RoomForAll, Seen!IsFiniteSet, IsFiniteSet
<1>3. Seen!privSpec /\ []Seen!Mapped => Seen!PrivUnreplaced
  BY ConstantsFit, <1>2, Seen!MappedRoomSuffices
<1>4. privSpec => privUnreplacedSpec
  BY <1>1, <1>3, SameSpec, PTL
<1>5. NumL1 <= 2 => (privSpec => []PrivReadsLatest)
  BY <1>4, TwoPrivsReadLatest
<1> QED BY <1>4, <1>5, PrivsNeverAbort, PrivsCoherent, PTL
=============================================================================
