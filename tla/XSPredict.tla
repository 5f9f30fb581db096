----------------------------- MODULE XSPredict -----------------------------
(***************************************************************************)
(* The branch prediction unit of the out of order core (xsbpu.cpp): three  *)
(* pipelined steps that guess the way of the program, each entry with a    *)
(* snapshot of the history of directions and of the return stack so that   *)
(* the unit can be set back to it.  The rest of the core is what corrects  *)
(* it: the check of a pack that was fetched, and commitment.               *)
(*                                                                         *)
(* Which direction or target the tables give is free here (see XSTage).    *)
(* Addresses wrap around at the end of the program.                        *)
(***************************************************************************)
EXTENDS XSFront

CONSTANTS
  PredCodes,  \* programs: what is at the addresses 1 .. n
  PredHist,   \* XSIFU_HIST_LEN: directions that are kept
  PredFolds,  \* the folded histories: [len, to], a number of directions folded into bits
  PredRas,    \* RAS_LEN
  PredFtq,    \* ftq_size
  PredDepth,  \* bound: calls the program has open at a time
  PredTargets \* what the table of targets may give for a jalr, 0 for nothing

ASSUME PredAssumption ==
  /\ PredRas > 1 /\ PredFtq >= 0
  /\ \A k \in DOMAIN PredFolds : PredFolds[k].to \in 1 .. PredFolds[k].len /\ PredFolds[k].len < PredHist

VARIABLES
  bpu,    \* the unit: its pc, p1_to_p2, p2_to_p3, p3_expected_pc, bhr, ras, ftb, update_reqs
  queue,  \* the fetch target queue: [start, end, brs, jmp, call, ret, target, hist, ras, pcs, checked]
  past,   \* (history) what has committed: the next pc, the last directions, the open calls,
          \* and whether they have been more than the return stack holds
  codeP   \* the program
predVars == <<bpu, queue, past, codeP>>

Wrap(a) == 1 + ((a - 1) % Len(codeP))
-----------------------------------------------------------------------------
(* BrHist: a ring of bits whose newest is at ptr, and the folds, kept up to *)
(* date with every bit.  A fold is the set of its bits that are one.       *)

NoHist == [data |-> {}, ptr |-> 0, fhs |-> [k \in DOMAIN PredFolds |-> {}]]
\* Exclusive or of sets of bits.
Xor(S, T) == (S \ T) \cup (T \ S)
Folded(f, v, in, out) ==
  Xor(Xor({(b + 1) % f.to : b \in v}, IF in THEN {0} ELSE {}), IF out THEN {f.len % f.to} ELSE {})
HistPush(h, taken) ==
  LET ptr == (h.ptr + PredHist - 1) % PredHist
      out(f) == (h.ptr + f.len - 1) % PredHist \in h.data
  IN [data |-> IF taken THEN h.data \cup {ptr} ELSE h.data \ {ptr}, ptr |-> ptr,
      fhs |-> [k \in DOMAIN PredFolds |-> Folded(PredFolds[k], h.fhs[k], taken, out(PredFolds[k]))]]
\* get(histlen, taglen), which folds the ring itself.
HistGet(h, len, to) ==
  {b \in 0 .. to - 1 : Cardinality({i \in 0 .. len - 1 : i % to = b /\ (h.ptr + i) % PredHist \in h.data}) % 2 = 1}

\* A pack pushes a direction for each branch up to the first that is taken.
Followed(h, brs) ==
  LET taken == {k \in DOMAIN brs : brs[k].taken}
      n == IF taken = {} THEN Len(brs) ELSE Min(taken)
  IN FoldLeft(LAMBDA g, k : HistPush(g, brs[k].taken), h, [k \in 1 .. n |-> k])
Untaken(h, n) == FoldLeft(LAMBDA g, k : HistPush(g, FALSE), h, [k \in 1 .. n |-> k])

(* RASSnapShot: a ring of return addresses with counts of repetition. *)
NoRas == [data |-> [k \in 0 .. PredRas - 1 |-> 0], cnt |-> [k \in 0 .. PredRas - 1 |-> 0], bottom |-> 0, top |-> 0]
RasPush(r, ra) ==
  LET top == (r.top + 1) % PredRas
      there == [r EXCEPT !.top = top, !.data[top] = ra, !.cnt[top] = 0]
  IN IF r.top = r.bottom THEN there
     ELSE IF r.data[r.top] = ra THEN [r EXCEPT !.cnt[r.top] = @ + 1]
     ELSE IF top = r.bottom THEN [there EXCEPT !.bottom = (@ + 1) % PredRas] ELSE there
RasTop(r) == IF r.top = r.bottom THEN 0 ELSE r.data[r.top]
RasPop(r) ==
  IF r.top = r.bottom THEN r
  ELSE IF r.cnt[r.top] > 0 THEN [r EXCEPT !.cnt[r.top] = @ - 1]
  ELSE [r EXCEPT !.top = (@ + PredRas - 1) % PredRas]

IsCall(ins) == IsJump(ins) /\ ins.rd = 1
IsReturn(ins) == ins.op = "jalr" /\ ins.rd # 1 /\ ins.rs1 = 1
BrOut(e) == \E k \in DOMAIN e.brs : e.brs[k].taken
\* What is the history and the return stack behind an entry.
HistAfter(e) == Followed(e.hist, e.brs)
RasAfter(e) ==
  IF BrOut(e) THEN e.ras ELSE IF e.call THEN RasPush(e.ras, e.end) ELSE IF e.ret THEN RasPop(e.ras) ELSE e.ras
-----------------------------------------------------------------------------
NoStart == 0
RedirectOnly(b, pc, hist, ras) ==   \* (faulty: goes on with the history of the wrong way)
  [b EXCEPT !.pc = pc, !.p1 = Q0, !.p2 = Q0, !.expected = NoStart]
apl_redirect(b, pc, hist, ras) ==
  [b EXCEPT !.pc = pc, !.hist = hist, !.ras = ras, !.p1 = Q0, !.p2 = Q0, !.expected = NoStart]

\* P1: the micro buffer, which knows some packs and what they may lead to.
UbtbNext(b) ==
  IF b.pc \notin DOMAIN b.ftb THEN {Wrap(b.pc + XSWidth)}
  ELSE LET e == b.ftb[b.pc]
       IN {IF e.jmp = "jal" THEN e.target ELSE e.end} \cup {br.to : br \in ToSet(e.brs)}
P1(b, w) == IF b.p1.in # <<>> THEN b ELSE [b EXCEPT !.p1 = Put(@, b.pc), !.pc = w.next]

\* P2: the entry, as far as the buffer knows the pack; the state goes on behind it.
Guessed(b, start, w) ==
  LET unknown == [start |-> start, end |-> Wrap(start + XSWidth), brs |-> <<>>, jmp |-> "", call |-> FALSE,
                  ret |-> FALSE, target |-> 0, hist |-> b.hist, ras |-> b.ras, pcs |-> <<>>, checked |-> FALSE]
      e == b.ftb[start]
      brs == IF e.always THEN e.brs ELSE [k \in DOMAIN e.brs |-> [e.brs[k] EXCEPT !.taken = w.taken[k]]]
      known == [unknown EXCEPT !.end = e.end, !.brs = brs, !.jmp = e.jmp, !.call = e.call, !.ret = e.ret]
      returned == IF e.ret /\ ~BrOut(known) THEN RasTop(b.ras) ELSE 0
  IN IF start \notin DOMAIN b.ftb THEN unknown
     ELSE [known EXCEPT !.target = CASE e.jmp = "jal" -> e.target
                                     [] e.jmp = "jalr" -> IF returned # 0 THEN returned ELSE w.target
                                     [] OTHER -> 0]
Predicts(b, e) == [b EXCEPT !.p1 = Popped(@), !.p2 = Put(@, e), !.hist = HistAfter(e), !.ras = RasAfter(e)]
do_pred(b, w) ==
  IF b.p1.out = <<>> \/ b.p2.in # <<>> THEN b ELSE Predicts(b, Guessed(b, Head(b.p1.out), w))

\* P3: an entry that does not begin where the one before it leads sets the unit back.
P3(b, q) ==
  IF b.p2.out = <<>> \/ Len(q) > PredFtq THEN [b |-> b, q |-> q]
  ELSE LET e == Head(b.p2.out)
       IN IF b.expected # NoStart /\ b.expected # e.start
          THEN [b |-> apl_redirect(b, b.expected, e.hist, e.ras), q |-> q]
          ELSE [b |-> [b EXCEPT !.p2 = Popped(@), !.expected = NextStart(e)], q |-> Append(q, e)]

\* An update takes the whole tick.
Learned(b, u) ==
  CASE u.type = "ftb" -> [b EXCEPT !.ftb = Upd(@, u.start, u.known)]
    [] u.type = "br" /\ u.start \in DOMAIN b.ftb -> [b EXCEPT !.ftb[u.start].always = FALSE]
    [] OTHER -> b
bpu_tick(b, q, w) ==
  IF b.upd.out # <<>> THEN [b |-> Learned([b EXCEPT !.upd = Popped(@)], Head(b.upd.out)), q |-> q]
  ELSE P3(do_pred(P1(b, w), w), q)
bpu_apply(b) ==
  [b EXCEPT !.p1 = Forward(@, 1), !.p2 = Forward(@, 1), !.upd = Forward(@, Unlimited)]
Requests(b, u) == [b EXCEPT !.upd = Put(@, u)]
-----------------------------------------------------------------------------
(* The check of a pack. *)

PackAt(pc) ==
  LET ends == {k \in 1 .. XSWidth : k = XSWidth \/ IsJump(codeP[Wrap(pc + k - 1)])}
  IN [k \in 1 .. Min(ends) |-> Wrap(pc + k - 1)]
Truth(e) ==
  LET pcs == PackAt(e.start)
      last == codeP[Last(pcs)]
      brs == BranchesOf(codeP, pcs)
  IN [e EXCEPT !.end = Wrap(Last(pcs) + 1), !.jmp = IF IsJump(last) THEN last.op ELSE "",
               !.call = IsCall(last), !.ret = IsReturn(last),
               !.target = IF last.op = "jal" THEN last.imm ELSE @, !.pcs = pcs, !.checked = TRUE,
               !.brs = [k \in DOMAIN brs |-> [brs[k] EXCEPT !.taken = k <= Len(e.brs) => e.brs[k].taken]]]
KnownAs(e) ==
  [end |-> e.end, brs |-> e.brs, jmp |-> e.jmp, call |-> e.call, ret |-> e.ret, always |-> TRUE,
   target |-> IF e.jmp = "jal" THEN e.target ELSE 0]
Right(e, t) == [e EXCEPT !.pcs = t.pcs, !.checked = TRUE] = t

\* Entry k was fetched; what follows one that was wrong goes.
PredCheck(c, k) ==
  LET e == c.q[k]  t == Truth(e)  q == [c.q EXCEPT ![k] = t]
  IN IF Right(e, t) THEN [c EXCEPT !.q = q]
     ELSE [b |-> apl_redirect(Requests(c.b, [type |-> "ftb", start |-> e.start, known |-> KnownAs(t)]),
                              NextStart(t), HistAfter(t), RasAfter(t)),
           q |-> SubSeq(q, 1, k)]
-----------------------------------------------------------------------------
(* Commitment, of a whole pack at a time. *)

\* Redirections from an instruction that has committed, or is to be done again.
Restart(c, pc, hist, ras) == [b |-> apl_redirect(c.b, pc, hist, ras), q |-> <<>>]
\* The branches that are executed when w.dirs says where they go.
UpTo(e, w) ==
  LET ends == {k \in DOMAIN e.brs : w.dirs[k] \/ e.brs[k].taken}
  IN IF ends = {} THEN Len(e.brs) ELSE Min(ends)
Wrong(e, n, w) == n > 0 /\ e.brs[n].taken # w.dirs[n]
Directions(n, w) == [k \in 1 .. n |-> w.dirs[k]]
BrTrained(b, e, n, w) ==
  IF n > 0 /\ (n = Len(e.brs) \/ Wrong(e, n, w))
  THEN Requests(b, [type |-> "br", start |-> e.start]) ELSE b
JumpTarget(e) == IF e.ret THEN (IF past.stack = <<>> THEN 1 ELSE Last(past.stack)) ELSE codeP[Last(e.pcs)].imm
CommitsPack(c, w) ==
  LET e == Head(c.q)
      n == UpTo(e, w)
      d == [c EXCEPT !.b = BrTrained(c.b, e, n, w), !.q = Tail(c.q)]
      before == Untaken(e.hist, n - 1)
      out == n > 0 /\ w.dirs[n]
      to == IF out THEN e.brs[n].to ELSE Wrap(e.brs[n].pc + 1)
      jalr == Requests(d.b, [type |-> "jalr", start |-> e.start])
  IN IF Wrong(e, n, w) THEN Restart(d, to, HistPush(before, w.dirs[n]), e.ras)
     ELSE IF out \/ e.jmp # "jalr" THEN d
     ELSE IF e.target = JumpTarget(e) THEN [d EXCEPT !.b = jalr]
     ELSE Restart([d EXCEPT !.b = jalr], JumpTarget(e), Untaken(e.hist, Len(e.brs)), RasAfter([e EXCEPT !.brs = <<>>]))

\* Instruction j, an access or a call of the system, is to be done again: what was before
\* it in the pack has committed.
BranchesBefore(e, j) == Cardinality({k \in DOMAIN e.brs : \E i \in 1 .. j - 1 : e.pcs[i] = e.brs[k].pc})
Repeats(c, j) ==
  LET e == Head(c.q)  n == BranchesBefore(e, j)
      none == [dirs |-> [k \in DOMAIN e.brs |-> FALSE]]
  IN Restart([c EXCEPT !.b = BrTrained(c.b, e, n, none)], e.pcs[j], Untaken(e.hist, n), e.ras)
-----------------------------------------------------------------------------
(* What the program itself has done. *)

PastPush(bits, dirs) == SubSeq(Reverse(dirs) \o bits, 1, PredHist)
Did(e, w) ==
  LET n == UpTo(e, w)
      bits == PastPush(past.bits, Directions(n, w))
      out == n > 0 /\ w.dirs[n]
      back == IF past.stack = <<>> THEN <<>> ELSE Front(past.stack)
      stack == IF e.call THEN Append(past.stack, e.end) ELSE IF e.ret THEN back ELSE past.stack
      through == ~out /\ ~Wrong(e, n, w)
  IN [pc |-> IF out THEN e.brs[n].to
             ELSE IF Wrong(e, n, w) THEN Wrap(e.brs[n].pc + 1)
             ELSE CASE e.jmp = "jal" -> e.target [] e.jmp = "jalr" -> JumpTarget(e) [] OTHER -> e.end,
      bits |-> bits, stack |-> IF through THEN stack ELSE past.stack,
      over |-> past.over \/ (through /\ Len(stack) >= PredRas)]

DidUpTo(e, j) ==
  [past EXCEPT !.pc = e.pcs[j], !.bits = PastPush(@, [k \in 1 .. BranchesBefore(e, j) |-> FALSE])]

Unchecked(q) == {k \in DOMAIN q : ~q[k].checked}
predInit ==
  /\ codeP \in PredCodes
  /\ bpu = [pc |-> 1, p1 |-> Q0, p2 |-> Q0, expected |-> NoStart, hist |-> NoHist, ras |-> NoRas,
            ftb |-> Empty0, upd |-> Q0]
  /\ queue = <<>>
  /\ past = [pc |-> 1, bits |-> [k \in 1 .. PredHist |-> FALSE], stack |-> <<>>, over |-> FALSE]

\* The tables are asked for a pack whose branches have been trained, or whose jalr does not return.
Asked(b) == b.p1.out # <<>> /\ Head(b.p1.out) \in DOMAIN b.ftb
Tables(b) ==
  LET e == b.ftb[Head(b.p1.out)]
  IN [taken : IF Asked(b) /\ ~e.always THEN [DOMAIN e.brs -> BOOLEAN] ELSE {<<>>},
      target : IF Asked(b) /\ e.jmp = "jalr" THEN PredTargets ELSE {0}]
\* What the core does of the entries as they were: it checks the next, or not yet, and
\* commits the oldest, or not yet, or has it done again from its instruction j.
Core(c, checks, does, w) ==
  LET d == IF checks THEN PredCheck(c, Min(Unchecked(queue))) ELSE c
  IN CASE does = "none" -> d
       [] does = "commit" -> CommitsPack(d, w)
       [] OTHER -> Repeats(d, w.from)
Allowed(does, w) ==
  \/ does = "none" /\ w.from = 1 /\ w.dirs = <<>>
  \/ /\ queue # <<>> /\ Head(queue).checked
     /\ \/ does = "commit" /\ w.from = 1 /\ DOMAIN w.dirs = DOMAIN Head(queue).brs
           /\ Len(Did(Head(queue), w).stack) <= PredDepth
        \/ does = "repeat" /\ w.from \in DOMAIN UpToTaken(Head(queue)) /\ w.dirs = <<>>
PredTick ==
  \E t \in Tables(bpu), next \in UbtbNext(bpu), checks \in BOOLEAN, does \in {"none", "commit", "repeat"},
     dirs \in UNION {[1 .. n -> BOOLEAN] : n \in 0 .. XSWidth}, from \in 1 .. XSWidth :
    LET w == [taken |-> t.taken, target |-> t.target, next |-> next, dirs |-> dirs, from |-> from]
        c == Core(bpu_tick(bpu, queue, w), checks, does, w)
    IN /\ checks => Unchecked(queue) # {}
       /\ Allowed(does, w)
       /\ bpu' = bpu_apply(c.b) /\ queue' = c.q
       /\ past' = CASE does = "commit" -> Did(Head(queue), w)
                    [] does = "repeat" -> DidUpTo(Head(queue), from)
                    [] OTHER -> past
       /\ UNCHANGED codeP
-----------------------------------------------------------------------------
(* Properties. *)

BitsOf(h) == [i \in 1 .. PredHist |-> (h.ptr + i - 1) % PredHist \in h.data]
FoldsAgree(h) == \A k \in DOMAIN PredFolds : h.fhs[k] = HistGet(h, PredFolds[k].len, PredFolds[k].to)
StackOf(r) ==
  LET n == (r.top + PredRas - r.bottom) % PredRas
      at(k) == (r.bottom + k) % PredRas
  IN FlattenSeq([k \in 1 .. n |-> [i \in 1 .. r.cnt[at(k)] + 1 |-> r.data[at(k)]]])
SeesPast(pc, hist, ras) ==
  /\ pc = past.pc /\ BitsOf(hist) = past.bits
  /\ IsSuffix(StackOf(ras), past.stack) /\ (~past.over => StackOf(ras) = past.stack)

\* Whatever was predicted, checked, committed, repeated or set back on the way, the oldest
\* entry of the fetch target queue begins where the program stands, with the history of the
\* directions it took and its open calls in the snapshots; each further entry begins where
\* the one before it leads, with what that does to the snapshots; and the folds of a
\* snapshot are those of its directions (nobody asserts any of this: a unit that is set
\* back wrongly only predicts worse, which the counters of a run do not show).
PredictionFollows ==
  /\ queue # <<>> => SeesPast(queue[1].start, queue[1].hist, queue[1].ras)
  /\ \A k \in 1 .. Len(queue) - 1 :
       LET e == queue[k]  f == queue[k + 1]
       IN /\ f.start = NextStart(e)
          /\ BitsOf(f.hist) = BitsOf(HistAfter(e)) /\ StackOf(f.ras) = StackOf(RasAfter(e))
  /\ \A k \in DOMAIN queue : FoldsAgree(queue[k].hist)
=============================================================================
