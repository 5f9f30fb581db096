------------------------------- MODULE XSLsu -------------------------------
(***************************************************************************)
(* The load/store unit of the out of order core.  Loads go ahead of older  *)
(* stores and of one another; what they missed is found out afterwards,    *)
(* by the checks of a store or a load that comes late.  Committed stores   *)
(* gather by lines in a buffer that is written to the cache in time.       *)
(*                                                                         *)
(* A page of RVMachine is one word here, a line one or two of them, the    *)
(* address of an access its rs1.  The cache takes two operations of a kind *)
(* at a time and answers them in the order it got them.                    *)
(***************************************************************************)
EXTENDS XSTypes

WordOf(s, id) == s.inst[id].a2
Room(q) == Len(q.in) < 2
Finish(s, id) == [s EXCEPT !.inst[id].fin = TRUE]
Older(S, id) == {x \in S : x.id <= id}

\* The line's words as memory holds them.
LineData(s, line) == [w \in {v \in Pages : Line(s, v) = line} |-> s.mem[w]]

-----------------------------------------------------------------------------
\* The cache (external): what it was asked a tick ago it answers now; `late' says for which
\* of its queues it does nothing, refuses, or has to fetch the line first.
NoCache ==
  [ldin |-> Q0, ldout |-> Q0, stin |-> Q0, stout |-> Q0, amoin |-> Q0, amoout |-> Q0,
   missing |-> {}, newl |-> Empty0, arr |-> Empty0]
CacheArrives(s) ==
  [s EXCEPT !.missing = {}, !.newl = [l \in s.missing |-> LineData(s, l)]]
CacheStores(s, late) ==
  LET op == Head(s.stin.out)
      refused == late \in {"st_busy", "st_miss"} \/ op.line \in s.missing
      answer == [line |-> op.line, words |-> op.words, last |-> op.last,
                 err |-> IF ~refused THEN "success" ELSE IF late = "st_miss" THEN "miss" ELSE "busy"]
  IN IF s.stin.out = <<>> THEN s
     ELSE [s EXCEPT !.stin = Popped(@), !.stout = Put(@, answer),
                    !.mem = IF refused THEN @ ELSE op.words @@ @]
CacheLoads(s, late) ==
  LET line == Head(s.ldin.out)
      err == IF late = "ld_busy" THEN "busy"
             ELSE IF late = "ld_miss" \/ line \in s.missing THEN "miss" ELSE "success"
  IN IF s.ldin.out = <<>> THEN s
     ELSE [s EXCEPT !.ldin = Popped(@), !.missing = IF err = "miss" THEN @ \cup {line} ELSE @,
             !.ldout = Put(@, [line |-> line, err |-> err, data |-> LineData(s, line)])]
\* An atomic operation finds its word or, an sc, its reservation lost.
CacheAmo(s, late, answer) ==
  LET id == Head(s.amoin.out)  x == s.inst[id]
      held == s.mem[x.a2]
      res == IF x.ins.op = "sc" THEN answer ELSE held
  IN IF s.amoin.out = <<>> THEN s
     ELSE IF late = "amo_busy"
     THEN [s EXCEPT !.amoin = Popped(@), !.amoout = Put(@, [err |-> "busy", value |-> 0])]
     ELSE [s EXCEPT !.amoin = Popped(@), !.amoout = Put(@, [err |-> "success", value |-> res]),
             !.mem[x.a2] = Stored(x.ins, x.a0, held, answer)]
cache_on_current_tick(s, late, answer) ==
  LET woken == IF late = "line_wait" \/ s.missing = {} THEN s ELSE CacheArrives(s)
      stored == CacheStores(CacheStores(woken, late), late)
  IN IF late = "cache_wait" THEN woken
     ELSE CacheAmo(CacheLoads(CacheLoads(stored, late), late), late, answer)
cache_apply_next_tick(s) ==
  [s EXCEPT !.ldin = Forward(@, 2), !.ldout = Forward(@, 2), !.stin = Forward(@, 2),
            !.stout = Forward(@, 2), !.amoin = Forward(@, 2), !.amoout = Forward(@, 2),
            !.arr = s.newl, !.newl = Empty0]
PortEmpty(s) ==
  Held(s.ldin) + Held(s.ldout) + Held(s.stin) + Held(s.stout) + Held(s.amoin) + Held(s.amoout) = 0

-----------------------------------------------------------------------------
\* (faulty: what has committed is taken to be in the cache)
BypassedPending(s, id, w) == {x \in Older(s.stby, id) : x.w = w}
\* What the older stores have for word w, if any has: the latest of those that will be
\* written and of those that are being.
Bypassed(s, id, w) == {x \in Older(s.stby \cup s.cstby, id) : x.w = w}
_do_store_bypass(s, e) ==
  LET found == Bypassed(s, e.id, WordOf(s, e.id))
  IN IF found = {} THEN e
     ELSE [e EXCEPT !.has = TRUE, !.v = (CHOOSE x \in found : \A y \in found : y.id <= x.id).v]

\* Loads later than id that are done with word w: those that have their result are to be
\* done again, those about to get it go round once more.
_ld_reorder_check(s, id, w, why) ==
  LET spoilt(j) == j > id /\ WordOf(s, j) = w
      again == SelectSeq(s.ldfin, spoilt)
  IN [s EXCEPT !.inst = [j \in DOMAIN @ |-> IF j \in s.finld /\ spoilt(j) THEN [@[j] EXCEPT !.err = why] ELSE @[j]],
               !.ldfin = SelectSeq(@, LAMBDA j : ~spoilt(j)),
               !.refire = @ \o again, !.ldsize = @ - Len(again)]

-----------------------------------------------------------------------------
\* Loads: those sent round again first, then any whose address is known.
GetRefired(s) ==
  IF Room(s.laq) /\ s.refire # <<>>
  THEN [s EXCEPT !.laq = Put(@, Head(s.refire)), !.refire = Tail(@)] ELSE s
FirstReady(s, q, Op(_)) == {k \in DOMAIN q.out : Op(s.inst[q.out[k]])}
GetLoad(s) ==
  LET R == FirstReady(s, s.ld, LAMBDA x : x.r1)
  IN IF Room(s.laq) /\ R # {}
     THEN [s EXCEPT !.laq = Put(@, s.ld.out[Min(R)]), !.ld.out = RemoveAt(@, Min(R))] ELSE s
\* (faulty: a load sent round again is not taken up)
_cur_get_ld_once(s) == Times(2, GetLoad, s)
_cur_get_ld_from_rs(s) == Times(2, GetLoad, Times(2, GetRefired, s))

LoadAddress(s) ==
  LET id == Head(s.laq.out)  w == Word(s.inst[id].a1)
  IN IF s.laq.out = <<>> \/ s.ldsize >= XSLoadQueue \/ ~Room(s.ldin) THEN s
     ELSE [s EXCEPT !.laq = Popped(@), !.inst[id].a2 = w, !.ldsize = @ + 1,
             !.ldqIn = Append(@, [id |-> id, v |-> 0, has |-> FALSE, fired |-> TRUE]),
             !.ldwait = Put(@, Line(s, w)), !.llchk = Append(@, id)]
_cur_ld_addr_trans(s) == Times(2, LoadAddress, s)

OfLine(s, line) == SelectSeq(s.ldq, LAMBDA e : Line(s, WordOf(s, e.id)) = line)
\* The entries `now' of a line take the place of those it had; the `done' ones get out.
Settled(s, line, now, done(_)) ==
  LET gone == SelectSeq(now, done)
      value == [id \in {gone[k].id : k \in DOMAIN gone} |-> (CHOOSE e \in ToSet(gone) : e.id = id).v]
  IN [s EXCEPT !.ldq = SelectSeq(@, LAMBDA e : Line(s, WordOf(s, e.id)) # line)
                        \o SelectSeq(now, LAMBDA e : ~done(e)),
               !.inst = [id \in DOMAIN value |-> [s.inst[id] EXCEPT !.a0 = value[id]]] @@ @,
               !.ldfin = @ \o [k \in DOMAIN gone |-> gone[k].id]]

\* A line arrives: what its loads did not get from a store they take from it, even when
\* an older store has come to the word meanwhile.
LineArrives(s, line) ==
  LET old == OfLine(s, line)
      now == [k \in DOMAIN old |->
                LET e == old[k]
                IN [e EXCEPT !.has = TRUE, !.v = IF e.has THEN @ ELSE s.arr[line][WordOf(s, e.id)]]]
      passes(e) == ~e.has /\ Bypassed(s, e.id, WordOf(s, e.id)) # {}
  IN [Settled(s, line, now, LAMBDA e : ~e.fired) EXCEPT !.passed = @ \/ \E e \in ToSet(old) : passes(e)]

\* The cache answers: every load of the line is served, or waits for the line.
LoadAnswered(s) ==
  LET a == Head(s.ldout.out)
      served(e) == _do_store_bypass(s,
                     IF a.err = "success"
                     THEN [e EXCEPT !.fired = FALSE, !.has = TRUE, !.v = a.data[WordOf(s, e.id)]]
                     ELSE [e EXCEPT !.fired = FALSE])
      old == OfLine(s, a.line)
      now == [k \in DOMAIN old |-> served(old[k])]
      rest == \E k \in DOMAIN now : ~now[k].has
      t == Settled(s, a.line, now, LAMBDA e : e.has)
  IN IF s.ldout.out = <<>> THEN s
     ELSE [t EXCEPT !.ldout = Popped(@),
                    !.ldwait.out = IF rest /\ a.err = "busy" THEN <<a.line>> \o @ ELSE @]
AskLine(s) ==
  IF s.ldwait.out = <<>> \/ ~Room(s.ldin) THEN s
  ELSE LET line == Last(s.ldwait.out)
       IN [s EXCEPT !.ldin = Put(@, line), !.ldwait.out = SelectSeq(@, LAMBDA l : l # line)]

\* Two results of loads go to the bypass network in a tick; those without one pass by.
Written(s) ==
  LET results == SelectSeq(s.wbl, LAMBDA id : WritesReg(s.inst[id].ins))
      late == ToSet(SubSeq(results, 3, Len(results)))
      now == ToSet(s.wbl) \ late
  IN [s EXCEPT !.wbl = SelectSeq(@, LAMBDA id : id \in late), !.lfin = @ \cup now,
        !.bypassIn = [p \in {s.inst[id].prd : id \in now \cap ToSet(results)} |->
                        s.inst[CHOOSE id \in now : s.inst[id].prd = p].a0] @@ @]
_cur_load_queue(s) ==
  LET arrived == FoldSet(LAMBDA l, t : LineArrives(t, l), s, DOMAIN s.arr)
  IN Written(Times(2, AskLine, Times(2, LoadAnswered, arrived)))

-----------------------------------------------------------------------------
\* Stores: the address by itself, the data once both are there.
GetAddress(s) ==
  LET R == FirstReady(s, s.sta, LAMBDA x : x.r1)
  IN IF Room(s.saq) /\ R # {}
     THEN [s EXCEPT !.saq = Put(@, s.sta.out[Min(R)]), !.sta.out = RemoveAt(@, Min(R))] ELSE s
_cur_get_sta_from_rs(s) == Times(2, GetAddress, s)

GetData(s) ==
  LET R == FirstReady(s, s.std, LAMBDA x : x.r2 /\ x.r3)
      id == s.std.out[Min(R)]
  IN IF Cardinality(s.stq \cup s.stqIn) >= XSStoreQueue \/ R = {} THEN s
     ELSE [s EXCEPT !.std.out = RemoveAt(@, Min(R)), !.stqIn = @ \cup {id}, !.lfin = @ \cup {id},
             !.stbyIn = @ \cup {[id |-> id, w |-> WordOf(s, id), v |-> s.inst[id].a0]},
             !.slchk = Append(@, id)]
_cur_get_std_from_rs(s) == Times(2, GetData, s)

StoreAddress(s) ==
  IF s.saq.out = <<>> THEN s
  ELSE LET id == Head(s.saq.out)
       IN [s EXCEPT !.saq = Popped(@), !.inst[id].a2 = Word(s.inst[id].a1), !.aready = @ \cup {id}]
_cur_st_addr_trans(s) == Times(2, StoreAddress, s)

-----------------------------------------------------------------------------
\* Nothing of the older accesses is left in the queues (the reservation stations are not
\* looked at).
pipeline_empty(s) ==
  /\ PortEmpty(s) /\ Held(s.laq) = 0 /\ Held(s.saq) = 0 /\ s.ldsize = 0
  /\ s.stq \cup s.stqIn = {} /\ s.sb = Empty0 /\ s.sbIn = Empty0 /\ s.sbcnt = 0
FenceDone(s) == s.fence.out # <<>> /\ pipeline_empty(s)
AmoStarts(s) ==
  IF s.amo.out # <<>> /\ ~s.inst[Head(s.amo.out)].fin /\ Ready(s.inst[Head(s.amo.out)])
  THEN [Finish(s, Head(s.amo.out)) EXCEPT !.amoState = "tlb"] ELSE s
lsu_on_current_tick(s) ==
  LET t == [s EXCEPT !.clr = @ \/ s.fence.out # <<>>]
  IN IF FenceDone(s) THEN [Finish(t, Head(s.fence.out)) EXCEPT !.fence = Popped(@)]
     ELSE _cur_st_addr_trans(_cur_get_std_from_rs(_cur_get_sta_from_rs(
            _cur_load_queue(_cur_ld_addr_trans(_cur_get_ld_from_rs(AmoStarts(t)))))))

-----------------------------------------------------------------------------
\* An atomic operation at the head of the reorder buffer goes one state further; it leaves
\* when it is free again.
BufferEmpty(s) == s.sb = Empty0 /\ s.sbIn = Empty0 /\ s.sbcnt = 0
AmoAnswered(s, id, a) ==
  IF a.err # "success" THEN [s EXCEPT !.amoout = Popped(@), !.amoState = "cache_req"]
  ELSE [s EXCEPT !.amoout = Popped(@), !.amoState = "finish", !.inst[id].a0 = a.value,
          !.bypassIn = IF WritesReg(s.inst[id].ins) THEN Upd(@, s.inst[id].prd, a.value) ELSE @]
cur_commit_amo(s, id) ==
  CASE s.amoState = "tlb" -> [s EXCEPT !.inst[id].a2 = Word(s.inst[id].a1), !.amoState = "pm"]
    [] s.amoState = "pm" ->
         [_ld_reorder_check(s, id, WordOf(s, id), "slreorder") EXCEPT !.amoState = "flush_sbuffer_req"]
    [] s.amoState = "flush_sbuffer_req" -> [s EXCEPT !.clr = TRUE, !.amoState = "flush_sbuffer_resp"]
    [] s.amoState = "flush_sbuffer_resp" ->
         IF BufferEmpty(s) THEN [s EXCEPT !.clr = FALSE, !.amoState = "cache_req"] ELSE s
    [] s.amoState = "cache_req" -> [s EXCEPT !.amoin = Put(@, id), !.amoState = "cache_resp"]
    [] s.amoState = "cache_resp" ->
         IF s.amoout.out = <<>> THEN s ELSE AmoAnswered(s, id, Head(s.amoout.out))
    [] s.amoState = "finish" -> [s EXCEPT !.amoState = "free", !.amo = Popped(@)]

_cur_commit_load(s, id) ==
  IF id \in s.finld THEN [s EXCEPT !.finld = @ \ {id}, !.ldsize = @ - 1] ELSE s

\* The store that commits is the oldest of its line's; its bytes join those of the line.
_cur_commit_store(s, id) ==
  LET x == s.inst[id]  line == Line(s, x.a2)
      mine == {y \in s.stby : Line(s, y.w) = line}
      old == IF line \in DOMAIN s.sbIn THEN s.sbIn[line] ELSE [last |-> id, words |-> Empty0]
  IN IF id \notin s.stq THEN s
     ELSE [s EXCEPT !.stq = @ \ {id},
             !.ok = @ /\ \E y \in mine : y.id = id /\ \A z \in mine : id <= z.id,
             !.stby = {y \in @ : y.id # id}, !.cstby = @ \cup {y \in s.stby : y.id = id},
             !.sbIn = Upd(@, line, [last |-> Max({id, old.last}), words |-> Upd(old.words, x.a2, x.a0)])]

\* Written lines let go of their bypass entries; refused ones join what came since, behind
\* it where both have a byte.
StoreAnswered(s) ==
  LET a == Head(s.stout.out)
      old == IF a.line \in DOMAIN s.sb THEN s.sb[a.line] ELSE [last |-> a.last, words |-> Empty0]
      t == [s EXCEPT !.stout = Popped(@), !.sbcnt = @ - 1]
      rest == SelectSeq(s.lru, LAMBDA l : l # a.line)
  IN IF s.stout.out = <<>> THEN s
     ELSE IF a.err = "success" THEN [t EXCEPT !.cstby = {y \in @ : Line(s, y.w) # a.line \/ y.id > a.last}]
     ELSE [t EXCEPT !.sb = Upd(@, a.line, [old EXCEPT !.words = @ @@ a.words]),
                    !.lru = IF a.err = "miss" THEN <<a.line>> \o rest ELSE Append(rest, a.line)]
WriteLine(s) ==
  LET line == Head(s.lru)
  IN IF \/ s.sb = Empty0 \/ ~Room(s.stin)
        \/ ~s.clr /\ (Cardinality(DOMAIN s.sb) + s.sbcnt) * 2 < XSStoreBuffer
     THEN s
     ELSE [s EXCEPT !.stin = Put(@, [line |-> line, words |-> s.sb[line].words, last |-> s.sb[line].last]),
                    !.sb = Drop(@, {line}), !.lru = Tail(@), !.sbcnt = @ + 1]
_cur_write_commited_store(s) == WriteLine(Times(2, StoreAnswered, s))

\* always_apply_next_tick: the bytes that commit go over those the line has already.
MergeLine(s, line) ==
  LET new == s.sbIn[line]
      old == IF line \in DOMAIN s.sb THEN s.sb[line].words ELSE Empty0
  IN [s EXCEPT !.sb = Upd(@, line, [last |-> new.last, words |-> new.words @@ old]),
               !.lru = Append(SelectSeq(@, LAMBDA l : l # line), line)]
always_apply_next_tick(s) ==
  [FoldSet(LAMBDA l, t : MergeLine(t, l), s, DOMAIN s.sbIn) EXCEPT !.sbIn = Empty0]

lsu_apply_next_tick(s) ==
  LET moved == [s EXCEPT !.laq = Forward(@, 2), !.saq = Forward(@, 2),
                         !.stby = @ \cup s.stbyIn, !.stbyIn = {}, !.ldwait = Forward(@, Unlimited),
                         !.ldq = @ \o s.ldqIn, !.ldqIn = <<>>, !.stq = @ \cup s.stqIn, !.stqIn = {},
                         !.inst = [j \in DOMAIN @ |-> IF j \in s.aready THEN [@[j] EXCEPT !.r3 = TRUE] ELSE @[j]],
                         !.aready = {}, !.llchk = <<>>, !.slchk = <<>>]
      checked == FoldLeft(LAMBDA t, id : _ld_reorder_check(t, id, WordOf(t, id), "slreorder"),
                   FoldLeft(LAMBDA t, id : _ld_reorder_check(t, id, WordOf(t, id), "llreorder"), moved, s.llchk),
                   s.slchk)
  IN [checked EXCEPT !.wbl = @ \o checked.ldfin, !.finld = @ \cup ToSet(checked.ldfin), !.ldfin = <<>>,
        !.inst = [j \in DOMAIN @ |-> IF j \in s.lfin THEN [@[j] EXCEPT !.fin = TRUE] ELSE @[j]],
        !.lfin = {}]
=============================================================================
