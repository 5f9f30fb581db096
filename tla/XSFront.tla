------------------------------ MODULE XSFront ------------------------------
(***************************************************************************)
(* The front end of the core: fetch target queue, fetch, the check of the  *)
(* prediction against what was fetched, and decode.  The predictor is here *)
(* what it promises the queue (XSPredict): entries that follow one another *)
(* or the last redirection, known packs from its buffer, any direction for *)
(* their branches and any target for a jalr.                               *)
(***************************************************************************)
EXTENDS XSTypes

\* An FTQEntry: where the pack begins and ends, its branches, its final jump and target (0
\* for none), the instructions fetched and how many of them have committed.
NewEntry(n, start, known) ==
  [n |-> n, start |-> start, end |-> known.end, brs |-> known.brs, jmp |-> known.jmp,
   target |-> known.target, pcs |-> <<>>, done |-> 0]
Unknown(start) == [end |-> start + XSWidth, brs |-> <<>>, jmp |-> "", target |-> 0]
PlaceOf(s, n) == CHOOSE k \in DOMAIN s.ftq : s.ftq[k].n = n
Entry(s, n) == s.ftq[PlaceOf(s, n)]
SetEntry(s, e) == [s EXCEPT !.ftq[PlaceOf(s, e.n)] = e]

\* nextpc(FTQEntry*): the first branch predicted taken, else the jump, else what follows.
NextStart(e) ==
  LET taken == {k \in DOMAIN e.brs : e.brs[k].taken}
  IN IF taken # {} THEN e.brs[Min(taken)].to ELSE IF e.target # 0 THEN e.target ELSE e.end

\* An update without news of a pack: it takes the predictor a tick all the same.
Trained == [start |-> 0, known |-> [Unknown(0) EXCEPT !.end = 0]]
\* The predictor puts out the next entry, or takes in one update instead.
Predicted(s, w) ==
  LET known == w.knows /\ s.bpc \in DOMAIN s.ftb
      e == NewEntry(s.nextEntry, s.bpc, IF known THEN s.ftb[s.bpc] ELSE Unknown(s.bpc))
      guess == [e EXCEPT !.brs = [k \in DOMAIN @ |-> [@[k] EXCEPT !.taken = w.taken]],
                         !.target = IF e.jmp = "jalr" THEN w.target ELSE @]
  IN [s EXCEPT !.ftq = Append(@, guess), !.nextEntry = @ + 1, !.bpc = NextStart(guess)]
bpu_on_current_tick(s, w) ==
  IF s.upd.out # <<>>
  THEN LET u == Head(s.upd.out)
       IN [s EXCEPT !.upd = Popped(@), !.ftb = IF u = Trained THEN @ ELSE Upd(@, u.start, u.known)]
  ELSE IF Len(s.ftq) <= XSWidth THEN Predicted(s, w) ELSE s

\* The pack that starts at pc: it ends with a jump, at its full width, or at an address
\* nothing is mapped at.
Pack(code, pc) ==
  LET fits(k) == \A i \in 0 .. k - 1 :
                   pc + i \in DOMAIN code /\ (i < k - 1 => ~IsJump(code[pc + i]))
  IN [i \in 1 .. Max({k \in 0 .. XSWidth : fits(k)}) |-> pc + i - 1]
Unmapped(code, pc, pack) == Len(pack) < XSWidth /\ pc + Len(pack) \notin DOMAIN code
                              /\ (pack # <<>> => ~IsJump(code[Last(pack)]))

_cur_fetch_one_pack(s, hit) ==
  IF s.pos >= Len(s.ftq) \/ s.fr.in # <<>> \/ ~hit THEN s
  ELSE LET e == s.ftq[s.pos + 1]
           pack == Pack(s.code, e.start)
           t == [s EXCEPT !.ierr = Unmapped(s.code, e.start, pack)]
       IN IF pack # <<>>
          THEN [t EXCEPT !.ftq[s.pos + 1].pcs = pack, !.fr = Put(@, e.n), !.pos = @ + 1]
          ELSE [t EXCEPT !.ftq = RemoveAt(@, s.pos + 1)]

_cur_predecode(s) ==
  IF s.fr.out # <<>> /\ s.pd.in = <<>> THEN [s EXCEPT !.fr = Popped(@), !.pd = Put(@, Head(s.fr.out))] ELSE s

\* What the instructions of the pack say of it, in the place of what the buffer said; the
\* target of a pack without a jal is not touched.
BranchesOf(code, pcs) ==
  LET B == SelectSeq(pcs, LAMBDA pc : code[pc].op = "branch")
  IN [k \in DOMAIN B |-> [pc |-> B[k], to |-> code[B[k]].imm, taken |-> TRUE]]
Places(brs) == [k \in DOMAIN brs |-> <<brs[k].pc, brs[k].to>>]
Corrected(s, e) ==
  LET last == s.code[Last(e.pcs)]
      brs == BranchesOf(s.code, e.pcs)
  IN [e EXCEPT !.end = e.start + Len(e.pcs), !.jmp = IF IsJump(last) THEN last.op ELSE "",
               !.target = IF last.op = "jal" THEN last.imm ELSE @,
               !.brs = [k \in DOMAIN brs |->
                          [brs[k] EXCEPT !.taken = k <= Len(e.brs) => e.brs[k].taken]]]
Agrees(s, e) ==
  LET c == Corrected(s, e)
  IN /\ e.end = c.end /\ e.jmp = c.jmp /\ e.target = c.target /\ Places(e.brs) = Places(c.brs)
Knows(e) == [end |-> e.end, brs |-> e.brs, jmp |-> e.jmp, target |-> IF e.jmp = "jal" THEN e.target ELSE 0]

\* What lies behind a branch predicted taken is not handed on.
UpToTaken(e) ==
  LET out == {k \in DOMAIN e.pcs : \E b \in ToSet(e.brs) : b.pc = e.pcs[k] /\ b.taken}
  IN IF out = {} THEN e.pcs ELSE SubSeq(e.pcs, 1, Min(out))
\* Entry e goes on as c, when there is room for all it has.
HandsOn(s, e, pcs) ==
  SetEntry([s EXCEPT !.pd = Popped(@), !.ib.in = @ \o [k \in DOMAIN pcs |-> <<pcs[k], e.n>>]],
           [e EXCEPT !.pcs = pcs, !.done = 0])
Checked(s, e) ==
  IF 1 + XSWidth - Len(s.ib.in) < Len(e.pcs) THEN s
  ELSE IF Agrees(s, e) THEN HandsOn(s, e, UpToTaken(e))
  ELSE LET c == Corrected(s, e)
       IN HandsOn([s EXCEPT !.bpuR = e.n, !.upd = Put(@, [start |-> e.start, known |-> Knows(c)])], c, UpToTaken(c))
_cur_pred_check(s) ==
  IF s.pd.out = <<>> THEN s ELSE Checked(s, Entry(s, Head(s.pd.out)))

ifu_on_current_tick(s, w) ==
  LET fetching == IF s.ierr \/ s.derr THEN s
                  ELSE _cur_fetch_one_pack(bpu_on_current_tick(s, w), w.icache)
  IN IF s.derr THEN s ELSE _cur_pred_check(_cur_predecode(fetching))

\* The front end goes on behind the entry whose information was wrong.
apl_bpu_redirect(s) ==
  IF s.bpuR = Nobody THEN s
  ELSE LET e == Entry(s, s.bpuR)
           k == PlaceOf(s, e.n)
       IN [s EXCEPT !.bpuR = Nobody, !.bpc = NextStart(e), !.fr = Q0, !.pd = Q0,
                    !.ftq = SubSeq(@, 1, k), !.pos = k, !.ierr = FALSE]

\* One instruction that must be alone keeps those behind it out until it commits.
Undecodable(ins) == ins.op = "junk"
DecodeOne(s) ==
  IF Len(s.d2r.in) >= XSWidth \/ s.ib.out = <<>> \/ s.unique \/ s.derr THEN s
  ELSE LET pc == Head(s.ib.out)[1]
           ins == s.code[pc]
           id == s.nextId
       IN IF Undecodable(ins) THEN [s EXCEPT !.derr = TRUE]
          ELSE [s EXCEPT !.ib = Popped(@), !.d2r = Put(@, id), !.nextId = @ + 1,
                  !.unique = IsUnique(ins),
                  !.inst = Upd(@, id, [pc |-> pc, n |-> Head(s.ib.out)[2], ins |-> ins,
                      prd |-> 0, p1 |-> 0, p2 |-> 0, stale |-> 0, a0 |-> 0, a1 |-> 0, a2 |-> 0,
                      r1 |-> FALSE, r2 |-> FALSE, r3 |-> FALSE, err |-> "", fin |-> FALSE, rs |-> ""])]
_cur_decode(s) == IF s.derr THEN s ELSE Times(XSWidth, DecodeOne, s)
=============================================================================
