------------------------------ MODULE SimpleCC ------------------------------
(***************************************************************************)
(* The simple coherent cache (cache/simplecc): L1s that share one bundle   *)
(* of signals each with a last level cache that has the memory.  In a tick *)
(* every object first works on what the others showed (Current), then      *)
(* shows its own (Apply); the CPUs call their L1 in either half.           *)
(***************************************************************************)
EXTENDS Integers, Sequences, FiniteSets, SequencesExt, FiniteSetsExt

CONSTANTS
  SccL1s,      \* port_num
  SccLines,    \* positive numbers
  SccWays,     \* lines an L1 holds, and
  SccLLCWays,  \* lines the last level cache holds: one set each
  SccLoads,    \* SccLoads[i]: the lines the CPU of L1 i loads
  SccStores,   \* SccStores[i]: and stores
  SccReserving,\* the L1s whose CPU executes LR and SC
  SccBus, SccIndex, SccMem   \* the latencies, in ticks

Ports == 0 .. SccL1s - 1
SccNone == "none"
SccNoLine == 0
SccData == 0 .. 1

VARIABLES
  sccL1,     \* sccL1[i]: [cb, writeable, waiting, line, put, reserved]; cb lists what
             \* it holds, [line, data], most recently used first
  port,      \* port[i]: the bundle of L1 i
  llc,       \* [state, cb, mem, current, busy, snooping, need, who, from]
  half,      \* "current" or "apply": what comes next
  sccGolden  \* sccGolden[l]: what the last store to l wrote
sccVars == <<sccL1, port, llc, half, sccGolden>>

NoneHolds == [owner |-> 0 - 1, shared |-> {}]

sccInit ==
  /\ sccL1 = [i \in Ports |-> [cb |-> <<>>, writeable |-> {}, waiting |-> SccNone,
                               line |-> SccNoLine, put |-> 0, reserved |-> SccNoLine]]
  /\ port = [i \in Ports |->
       [req_next |-> SccNone, req_previous |-> SccNone, req_line_next |-> SccNoLine,
        req_resp |-> 0, snoop |-> SccNone, snoop_line |-> SccNoLine,
        req |-> SccNone, req_line |-> SccNoLine,
        resp_next |-> 0, resp_previous |-> 0,
        snoop_next |-> SccNone, snoop_previous |-> SccNone, snoop_line_next |-> SccNoLine,
        buf |-> 0, snoop_buf |-> 0]]
  /\ llc = [state |-> [l \in SccLines |-> NoneHolds], cb |-> <<>>,
            mem |-> [l \in SccLines |-> 0], current |-> 0, busy |-> 0,
            snooping |-> 0, need |-> FALSE, who |-> 0, from |-> 0]
  /\ half = "current"
  /\ sccGolden = [l \in SccLines |-> 0]
-----------------------------------------------------------------------------
(* GenericLRUCacheBlock, one set. *)

HasLine(cb, l) == \E k \in DOMAIN cb : cb[k].line = l
LineData(cb, l) == cb[CHOOSE k \in DOMAIN cb : cb[k].line = l].data
LessLine(cb, l) == SelectSeq(cb, LAMBDA e : e.line # l)
PutFirst(cb, l, d) == <<[line |-> l, data |-> d]>> \o LessLine(cb, l)
SccTouch(cb, l) == IF HasLine(cb, l) THEN PutFirst(cb, l, LineData(cb, l)) ELSE cb
Replaces(cb, l, ways) == ~HasLine(cb, l) /\ Len(cb) = ways
InsertLine(cb, l, d, ways) ==
  PutFirst(IF Replaces(cb, l, ways) THEN Front(cb) ELSE cb, l, d)
-----------------------------------------------------------------------------
(* The first half: SimpleCoherentL1::on_current_tick on [c |-> sccL1[i], p |-> port[i]]. *)

\* A request the other side has had for a tick is taken back.
Passed(b) ==
  IF b.p.req_previous # SccNone /\ b.p.req_previous = b.p.req_next
  THEN [b EXCEPT !.p.req_previous = SccNone, !.p.req_next = SccNone] ELSE b

InPut(c, l) == c.waiting = "put" /\ c.line = l

\* What a snoop for data must find (simroot_assert).
SnoopFinds(b) ==
  b.p.snoop \in {"share", "uniq"} =>
    InPut(b.c, b.p.snoop_line) \/ HasLine(b.c.cb, b.p.snoop_line)

Snooped(b) ==
  LET l == b.p.snoop_line
      data == IF InPut(b.c, l) THEN b.c.put ELSE LineData(b.c.cb, l)
      lost == [b EXCEPT !.p.snoop = SccNone, !.c.writeable = @ \ {l},
                 !.c.cb = IF b.p.snoop = "share" THEN @ ELSE LessLine(@, l)]
  IN  CASE b.p.snoop = SccNone -> b
        [] b.p.snoop = "inval" -> lost
        [] OTHER -> [lost EXCEPT !.p.snoop_buf = data]

\* The line asked for enters; the one it replaces is put back.
Entered(b) ==
  LET l == b.c.line
      c == [b.c EXCEPT !.cb = InsertLine(@, l, b.p.buf, SccWays),
                       !.writeable = IF b.c.waiting = "readu" THEN @ \cup {l} ELSE @]
      old == Last(b.c.cb)
  IN
  IF Replaces(b.c.cb, l, SccWays)
  THEN [c |-> [c EXCEPT !.waiting = "put", !.line = old.line, !.put = old.data,
                        !.writeable = @ \ {old.line}],
        p |-> [b.p EXCEPT !.req_resp = 0, !.req_next = "put",
                          !.req_line_next = old.line, !.buf = old.data]]
  ELSE [c |-> [c EXCEPT !.waiting = SccNone], p |-> [b.p EXCEPT !.req_resp = 0]]

Responded(b) ==
  IF b.p.req_resp = 0 \/ b.c.waiting = SccNone THEN b
  ELSE IF b.c.waiting = "put"
  THEN [b EXCEPT !.p.req_resp = 0, !.c.waiting = SccNone]
  ELSE Entered(b)

L1Tick(b) == Responded(Snooped(Passed(b)))
-----------------------------------------------------------------------------
(* SimpleCoherentLLCWithMem::on_current_tick on [ps |-> port, m |-> llc]. *)

LLCPassed(p) ==
  LET a == IF p.resp_next = p.resp_previous /\ p.resp_previous # 0
           THEN [p EXCEPT !.resp_next = 0, !.resp_previous = 0] ELSE p
  IN  IF a.snoop_next = a.snoop_previous /\ a.snoop_previous # SccNone
      THEN [a EXCEPT !.snoop_next = SccNone, !.snoop_previous = SccNone] ELSE a

Snoops(b, i, how, l) ==
  [b EXCEPT !.ps[i].snoop_next = how, !.ps[i].snoop_line_next = l, !.m.snooping = 2]

\* The data of the line will come from the owner's bundle.
FromOwner(b, idx, how, l) ==
  LET o == b.m.state[l].owner
  IN  [Snoops(b, o, how, l) EXCEPT !.m.need = TRUE, !.m.who = idx, !.m.from = o]

\* Nobody holds the line: it comes from here.
Fetched(b, idx, l) ==
  LET hit == HasLine(b.m.cb, l) IN
  [b EXCEPT !.m.state[l] = [owner |-> idx, shared |-> {}],
            !.m.cb = SccTouch(@, l),
            !.ps[idx].buf = IF hit THEN LineData(b.m.cb, l) ELSE b.m.mem[l],
            !.m.busy = 1 + SccIndex + (IF hit THEN SccBus ELSE 2 * SccBus + SccMem)]

handle_read(b, idx) ==
  LET l == b.ps[idx].req_line
      s == b.m.state[l]
  IN  IF s = NoneHolds THEN Fetched(b, idx, l)
      ELSE IF idx \in s.shared THEN [b EXCEPT !.m.busy = 1]
      ELSE [FromOwner(b, idx, "share", l) EXCEPT
              !.m.state[l].shared = @ \cup {idx}, !.m.busy = 1 + SccBus]

handle_readu(b, idx) ==
  LET l == b.ps[idx].req_line
      s == b.m.state[l]
      asked == FromOwner(b, idx, "uniq", l)
      told == IF s.shared \ {idx} = {} THEN asked ELSE Snoops(asked, s.owner, "inval", l)
  IN  IF s = NoneHolds THEN Fetched(b, idx, l)
      ELSE [told EXCEPT !.m.state[l] = [owner |-> idx, shared |-> {}],
                        !.m.busy = IF s.owner = idx THEN 1 ELSE 1 + SccBus]

\* A line put back by its owner belongs to one that shares it (whichever the hash set
\* names first), or is here again, and may replace another.
PutHere(m, l, d) ==
  [m EXCEPT !.state[l] = NoneHolds,
            !.cb = InsertLine(@, l, d, SccLLCWays),
            !.mem = IF Replaces(m.cb, l, SccLLCWays)
                    THEN [@ EXCEPT ![Last(m.cb).line] = Last(m.cb).data] ELSE @,
            !.busy = 1 + SccIndex + SccBus]
handle_put(b, idx, heir) ==
  LET l == b.ps[idx].req_line
      s == b.m.state[l]
  IN  IF s.owner # idx THEN [b EXCEPT !.m.state[l].shared = @ \ {idx}, !.m.busy = 1]
      ELSE IF s.shared = {} THEN [b EXCEPT !.m = PutHere(b.m, l, b.ps[idx].buf)]
      ELSE [b EXCEPT !.m.state[l] = [owner |-> heir, shared |-> s.shared \ {heir}],
                     !.m.busy = 1]

\* The next port with a request, from current on.
NextPort(b) ==
  LET asks == {j \in Ports : b.ps[(b.m.current + j) % SccL1s].req # SccNone}
  IN  IF asks = {} THEN b.m.current ELSE (b.m.current + Min(asks)) % SccL1s

Handled(b, heir) ==
  LET k == NextPort(b)
      a == [b EXCEPT !.m.current = k, !.ps[k].req = SccNone]
  IN  CASE b.ps[k].req = "read" -> handle_read(a, k)
        [] b.ps[k].req = "readu" -> handle_readu(a, k)
        [] b.ps[k].req = "put" -> handle_put(a, k, heir)
        [] OTHER -> a

NoSnoops(b) == [b EXCEPT !.ps = [i \in Ports |-> [@[i] EXCEPT !.snoop_next = SccNone]]]

LLCTick(b, heir) ==
  LET m == b.m IN
  CASE m.snooping > 1 -> NoSnoops([b EXCEPT !.m.snooping = @ - 1])
    [] m.snooping = 1 ->
         [b EXCEPT !.m.snooping = 0, !.m.need = FALSE,
                   !.ps[m.who].buf = IF m.need THEN b.ps[m.from].snoop_buf ELSE @]
    [] m.snooping = 0 /\ m.busy > 1 -> [b EXCEPT !.m.busy = @ - 1]
    [] m.snooping = 0 /\ m.busy = 1 ->
         [b EXCEPT !.ps[m.current].resp_next = 1, !.m.busy = 0,
                   !.m.current = (@ + 1) % SccL1s]
    [] OTHER -> Handled(b, heir)

Bundle(i) == [c |-> sccL1[i], p |-> port[i]]

\* All objects, in the first half; they work on different fields.
scc_on_current_tick ==
  /\ half = "current" /\ \A i \in Ports : SnoopFinds(Bundle(i))
  /\ \E heir \in Ports :
       LET ticked == [i \in Ports |-> L1Tick(Bundle(i))]
           asked == NextPort([ps |-> port, m |-> llc])
           b == LLCTick([ps |-> [i \in Ports |-> LLCPassed(ticked[i].p)], m |-> llc], heir)
           l == port[asked].req_line
       IN
       /\ IF port[asked].req = "put" /\ llc.state[l].shared # {}
          THEN heir \in llc.state[l].shared ELSE heir = 0
       /\ sccL1' = [i \in Ports |-> ticked[i].c]
       /\ port' = b.ps /\ llc' = b.m
  /\ half' = "apply"
  /\ UNCHANGED sccGolden

Shown(p) ==
  [p EXCEPT !.req = IF p.req_next # p.req_previous THEN p.req_next ELSE @,
            !.req_line = IF p.req_next # p.req_previous THEN p.req_line_next ELSE @,
            !.req_previous = p.req_next,
            !.req_resp = IF p.resp_next # p.resp_previous THEN p.resp_next ELSE @,
            !.resp_previous = p.resp_next,
            !.snoop = IF p.snoop_next # p.snoop_previous THEN p.snoop_next ELSE @,
            !.snoop_line = IF p.snoop_next # p.snoop_previous THEN p.snoop_line_next ELSE @,
            !.snoop_previous = p.snoop_next]
scc_apply_next_tick ==
  /\ half = "apply" /\ half' = "current"
  /\ port' = [i \in Ports |-> Shown(port[i])]
  /\ UNCHANGED <<sccL1, llc, sccGolden>>
-----------------------------------------------------------------------------
(* What the CPU of L1 i asks for; an access that must wait changes nothing. *)

Asks(i, req, l) ==
  /\ sccL1' = [sccL1 EXCEPT ![i].cb = SccTouch(@, l), ![i].waiting = req, ![i].line = l]
  /\ port' = [port EXCEPT ![i].req_next = req, ![i].req_line_next = l]

\* Where a load finds its line.
LoadHits(i, l) ==
  /\ sccL1[i].waiting \notin {"read", "readu"}
  /\ InPut(sccL1[i], l) \/ HasLine(sccL1[i].cb, l)
Loaded(i, l) == IF InPut(sccL1[i], l) THEN sccL1[i].put ELSE LineData(sccL1[i].cb, l)

load(i) == \E l \in SccLoads[i] :
  /\ IF LoadHits(i, l)
     THEN /\ sccL1' = [sccL1 EXCEPT ![i].cb = IF InPut(sccL1[i], l) THEN @ ELSE SccTouch(@, l)]
          /\ UNCHANGED port
     ELSE sccL1[i].waiting = SccNone /\ Asks(i, "read", l)
  /\ UNCHANGED <<llc, half, sccGolden>>

load_reserved(i) == \E l \in SccLoads[i] :
  /\ i \in SccReserving /\ LoadHits(i, l)
  /\ sccL1' = [sccL1 EXCEPT ![i].reserved = l]
  /\ UNCHANGED <<port, llc, half, sccGolden>>

StoreHits(i, l) == HasLine(sccL1[i].cb, l) /\ l \in sccL1[i].writeable
StoreTo(i, l) ==
  /\ sccL1[i].waiting = SccNone
  /\ IF StoreHits(i, l)
     THEN \E d \in SccData :
            /\ sccL1' = [sccL1 EXCEPT ![i].cb = PutFirst(@, l, d)]
            /\ sccGolden' = [sccGolden EXCEPT ![l] = d]
            /\ UNCHANGED port
     ELSE Asks(i, "readu", l) /\ UNCHANGED sccGolden
  /\ UNCHANGED <<llc, half>>
store(i) == \E l \in SccStores[i] : StoreTo(i, l)
store_conditional(i) == \E l \in SccStores[i] : sccL1[i].reserved = l /\ StoreTo(i, l)

sccNext ==
  \/ scc_on_current_tick \/ scc_apply_next_tick
  \/ \E i \in Ports : load(i) \/ load_reserved(i) \/ store(i) \/ store_conditional(i)
sccSpec == sccInit /\ [][sccNext]_sccVars
-----------------------------------------------------------------------------
\* The L1s the directory has on record for a line.
Recorded(l) == {llc.state[l].owner} \cup llc.state[l].shared


\* A snoop for data finds its line, and a response belongs to the line waited for.
SccNeverAborts ==
  half = "current" =>
    \A i \in Ports :
      /\ SnoopFinds(Bundle(i))
      /\ port[i].req_resp = 1 /\ sccL1[i].waiting # SccNone =>
           port[i].req_line_next = sccL1[i].line
=============================================================================
