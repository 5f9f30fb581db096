------------------------------- MODULE XSBack -------------------------------
(***************************************************************************)
(* The back end of the out of order core: registers are renamed,           *)
(* instructions wait for their operands in reservation stations and are    *)
(* done when they have them, and commit in the order of the program.  What *)
(* commits is also given to the sequential machine of RVMachine, in isa.   *)
(***************************************************************************)
EXTENDS XSFront, XSLsu

\* Rename: a branch or jalr keeps the table behind it, for when it was mispredicted.
RenameOne(s) ==
  LET id == Head(s.d2r.out)
      x == s.inst[id]
      ins == x.ins
      new == IF WritesReg(ins) THEN Head(s.free) ELSE 0
      table == IF WritesReg(ins) THEN [s.table EXCEPT ![ins.rd] = new] ELSE s.table
  IN IF \/ s.d2r.out = <<>> \/ Len(s.r2d.in) >= XSWidth
        \/ Checkpointed(ins) /\ Cardinality(DOMAIN s.cps) >= XSCheckpoints
        \/ HasRd(ins) /\ s.free = <<>>
     THEN s
     ELSE [s EXCEPT !.d2r = Popped(@), !.r2d = Put(@, id), !.table = table,
             !.free = IF WritesReg(ins) THEN Tail(@) ELSE @,
             !.inst[id] = [x EXCEPT !.p1 = IF ReadsRs1(ins) THEN s.table[ins.rs1] ELSE 0,
                                    !.p2 = IF ReadsRs2(ins) THEN s.table[ins.rs2] ELSE 0,
                                    !.prd = new, !.stale = IF WritesReg(ins) THEN s.table[ins.rd] ELSE 0],
             !.cps = IF Checkpointed(ins) THEN Upd(@, id, table) ELSE @]
_cur_rename(s) == Times(XSWidth, RenameOne, s)

\* Dispatch: a place in the reorder buffer; system instructions are done when they commit.
DispatchOne(s) ==
  LET id == Head(s.r2d.out)
      x == s.inst[id]
  IN IF \/ s.r2d.out = <<>> \/ Len(s.rob) + Len(s.robIn) >= XSRob
        \/ Len(s.di.in) >= XSWidth \/ Len(s.dl.in) >= XSWidth
     THEN s
     ELSE [s EXCEPT !.r2d = Popped(@), !.robIn = Append(@, id),
             !.di = IF IsSystem(x.ins) \/ OfMemory(x.ins) THEN @ ELSE Put(@, id),
             !.dl = IF OfMemory(x.ins) THEN Put(@, id) ELSE @,
             !.busy = IF WritesReg(x.ins) THEN @ \cup {x.prd} ELSE @,
             !.inst[id] = [x EXCEPT !.fin = IsSystem(x.ins), !.a0 = 0, !.a1 = 0,
                                    !.r1 = FALSE, !.r2 = FALSE, !.r3 = FALSE]]
_cur_dispatch(s) == Times(XSWidth, DispatchOne, s)

-----------------------------------------------------------------------------
\* Operands: from the register file, from the bypass network, or to be waited for.
Readable(s, p) == p \notin s.busy \/ p \in DOMAIN s.bypass
_do_try_get_reg(s, p) ==
  IF p = 0 THEN 0 ELSE IF p \notin s.busy THEN s.file[p] ELSE s.bypass[p]
\* An operand is called for by its source and has its place; accesses have them swapped.
ArgOf(x, src) == IF (src = 1) = OfMemory(x.ins) THEN "a1" ELSE "a0"
ReadyOf(src) == IF src = 1 THEN "r1" ELSE "r2"
GiveOperand(x, src, v) == [x EXCEPT ![ArgOf(x, src)] = v, ![ReadyOf(src)] = TRUE]
_do_reg_read(s, id) ==
  LET x == s.inst[id]
      src == {k \in {1, 2} : IF k = 1 THEN ReadsRs1(x.ins) ELSE ReadsRs2(x.ins)}
      p(k) == IF k = 1 THEN x.p1 ELSE x.p2
      now == {k \in src : p(k) = 0 \/ Readable(s, p(k))}
      read == FoldSet(LAMBDA k, y : GiveOperand(y, k, _do_try_get_reg(s, p(k))), x, now)
  IN [s EXCEPT !.inst[id] = read, !.waitsIn = @ \cup {[p |-> p(k), id |-> id, src |-> k] : k \in src \ now}]

StationSize(s, u) == Len(s.rs[u].in) + Cardinality(s.rs[u].unready) + Len(s.rs[u].ready)
UnitOf(s, ins) ==
  CASE ins.op = "branch" -> "misc"
    [] ins.op \in {"op", "opimm"} /\ ins.fn \in SlowOps -> "mdu"
    [] OTHER -> IF StationSize(s, "alu1") < StationSize(s, "alu2") THEN "alu1" ELSE "alu2"
ToStation(s) ==
  LET id == Head(s.di.out)  u == UnitOf(s, s.inst[id].ins)
  IN IF s.di.out = <<>> \/ StationSize(s, u) >= XSStation THEN s
     ELSE [_do_reg_read(s, id) EXCEPT !.di = Popped(@), !.rs[u].in = Append(@, id), !.inst[id].rs = u]
cur_int_disp2(s) == Times(XSWidth, ToStation, s)

\* An atomic operation or a fence keeps the accesses behind it out until it has left.
ToLsu(s) ==
  LET id == Head(s.dl.out)
      op == s.inst[id].ins.op
      t == [_do_reg_read(s, id) EXCEPT !.dl = Popped(@)]
      full(q) == Held(q) >= XSStation
  IN IF \/ s.dl.out = <<>> \/ Held(s.amo) + Held(s.fence) > 0
        \/ op = "load" /\ full(s.ld)
        \/ op = "store" /\ (full(s.sta) \/ full(s.std))
     THEN s
     ELSE CASE op = "load"  -> [t EXCEPT !.ld = Put(@, id)]
            [] op = "store" -> [t EXCEPT !.sta = Put(@, id), !.std = Put(@, id)]
            [] op = "fence" -> [t EXCEPT !.fence = Put(@, id)]
            [] op \in Atomics -> [t EXCEPT !.amo = Put(@, id)]
cur_mem_disp2(s) == Times(XSWidth, ToLsu, s)

\* Who waits for a register that is there now gets it, and is ready with its last one.
Wake(s, wait) ==
  LET x == GiveOperand(s.inst[wait.id], wait.src, _do_try_get_reg(s, wait.p))
      t == [s EXCEPT !.inst[wait.id] = x]
  IN IF x.rs = "" \/ ~Ready(x) THEN t
     ELSE [t EXCEPT !.rs[x.rs].unready = @ \ {wait.id}, !.rs[x.rs].ready = Append(@, wait.id)]
_cur_wakeup_exu_bypass(s) ==
  LET now == {w \in s.waits : w.p \in s.wakeup}
      order == SetToSortSeq(now, LAMBDA v, w : v.id < w.id \/ (v.id = w.id /\ v.src < w.src))
  IN [FoldLeft(Wake, s, order) EXCEPT !.waits = @ \ now, !.ok = @ /\ \A w \in now : Readable(s, w.p)]

\* The value and, of jumps and branches, the target.
_do_op_inst(x) ==
  [x EXCEPT !.a0 = CASE x.ins.op = "branch" -> IF Taken(x.ins, x.a0, x.a1) THEN 1 ELSE 0
                     [] OTHER -> Result(x.ins, x.pc, x.a0, x.a1, 0),
            !.a1 = CASE x.ins.op = "jalr" -> x.a0 + x.ins.imm
                     [] x.ins.op \in {"jal", "branch"} -> x.ins.imm
                     [] OTHER -> @]
Idle == [id |-> Nobody, left |-> 0]
\* A slot of a unit gets a tick further, then takes the next instruction if it is free.
SlotTick(s, u, k) ==
  LET slot == s.unit[u][k]
      id == slot.id
      done == id # Nobody /\ slot.left <= 1
      t == IF id = Nobody THEN s
           ELSE IF ~done THEN [s EXCEPT !.unit[u][k].left = @ - 1]
           ELSE [s EXCEPT !.unit[u][k] = Idle, !.fin = @ \cup {id},
                   !.bypassIn = IF WritesReg(s.inst[id].ins) THEN Upd(@, s.inst[id].prd, s.inst[id].a0) ELSE @]
      next == Head(s.rs[u].ready)
  IN IF t.unit[u][k].id # Nobody \/ s.rs[u].ready = <<>> THEN t
     ELSE [t EXCEPT !.unit[u][k] = [id |-> next, left |-> Latency(s.inst[next].ins)],
                    !.rs[u].ready = Tail(@), !.inst[next] = _do_op_inst(@)]
_cur_intfp_exu(s, u) == FoldLeft(LAMBDA t, k : SlotTick(t, u, k), s, [k \in DOMAIN s.unit[u] |-> k])
exu_on_current_tick(s) ==
  FoldLeft(_cur_intfp_exu, _cur_wakeup_exu_bypass(s), <<"mdu", "alu1", "alu2", "misc">>)

-----------------------------------------------------------------------------
\* The system (external): the call returns, goes on somewhere else, is put off and taken on
\* again by a redirection, or leaves the core idle.
Registers(s) == [r \in Regs |-> IF r = 0 THEN 0 ELSE s.file[s.ctable[r]]]
WithRegisters(file, table, regs) ==
  [p \in DOMAIN file |-> IF \E r \in Regs \ {0} : table[r] = p
                         THEN regs[CHOOSE r \in Regs \ {0} : table[r] = p] ELSE file[p]]
Calls(s, pc) ==
  LET goes == {"returns", "yields"}
  IN (IF pc + 1 \in DOMAIN s.code THEN goes ELSE {}) \cup {"blocks"}
     \cup (IF s.code[pc].imm \in DOMAIN s.code /\ s.code[pc].imm # 0 THEN {"jumps"} ELSE {})
ecall(s, id, how) ==
  LET pc == s.inst[id].pc
      regs == WithReg(Registers(s), 1, 1)
      to == IF how = "jumps" THEN s.code[pc].imm ELSE pc + 1
      answer == IF how \in {"returns", "jumps"} THEN regs ELSE Registers(s)
  IN [s EXCEPT !.inst[id].a1 = to, !.file = WithRegisters(@, s.ctable, answer),
        !.sysR = IF to # pc + 1 THEN id ELSE @,
        !.glob = IF how = "yields" THEN <<[pc |-> to, regs |-> regs]>> ELSE @,
        !.applyHalt = @ \/ how = "blocks",
        !.saved = IF how = "blocks" THEN <<[pc |-> to, regs |-> regs]>> ELSE @,
        !.isa = [@ EXCEPT !.pc = to, !.regs = WithReg(@, 1, 1)]]

\* What commits, as the sequential machine does it: it is the next one of the program.
Noted(s, id) ==
  LET x == s.inst[id]
  IN IF IsSystem(x.ins) THEN s
     ELSE [s EXCEPT !.isa = Executed(x.ins, @, x.a0)]

\* The predictor learns from a branch or a jalr that commits; what it says is free anyway.
Learns(s) == [s EXCEPT !.upd = Put(@, Trained)]
Mispredicted(s, id) == [s EXCEPT !.jmpR = id]
CommitBranch(s, id) ==
  LET x == s.inst[id]
      e == s.ftq[1]
      B == {k \in DOMAIN e.brs : e.brs[k].pc = x.pc}
      k == Min(B)
      taken == x.a0 # 0
      missed == e.brs[k].taken # taken
      t == IF k = Len(e.brs) \/ missed THEN Learns(s) ELSE s
  IN IF B = {} THEN [s EXCEPT !.ok = FALSE]
     ELSE IF missed THEN Mispredicted(t, id) ELSE [t EXCEPT !.cps = Drop(@, {id})]
CommitJalr(s, id) ==
  LET e == s.ftq[1]
      t == Learns([s EXCEPT !.ok = @ /\ e.done + 1 = Len(e.pcs), !.ftq[1].target = s.inst[id].a1])
  IN IF e.target # s.inst[id].a1 THEN Mispredicted(t, id) ELSE [t EXCEPT !.cps = Drop(@, {id})]

\* (faulty: the new register is given back)
RenamedAway(s, id) ==
  LET x == s.inst[id]
  IN IF ~WritesReg(x.ins) THEN s
     ELSE [s EXCEPT !.wb = Upd(@, x.prd, x.a0), !.free = Append(@, x.prd), !.ctable[x.ins.rd] = x.prd]
\* The register is written next tick, the one it had before is free again.
Renamed(s, id) ==
  LET x == s.inst[id]
  IN IF ~WritesReg(x.ins) THEN s
     ELSE [s EXCEPT !.wb = Upd(@, x.prd, x.a0), !.free = Append(@, x.stale), !.ctable[x.ins.rd] = x.prd]
\* The instruction is gone, and with its last one the entry.
Left(s, id) ==
  LET e == s.ftq[1]
      t == [s EXCEPT !.inst = Drop(@, {id}), !.rob = Tail(@)]
  IN IF e.done + 1 < Len(e.pcs) THEN [t EXCEPT !.ftq[1].done = @ + 1]
     ELSE [t EXCEPT !.ftq = Tail(@), !.ok = @ /\ s.pos > 0, !.pos = @ - 1]

\* What each kind of instruction does of its own.
CommitsOwn(s, x, id, how) ==
  CASE x.ins.op = "branch" -> CommitBranch(s, id)
    [] x.ins.op = "jalr"   -> CommitJalr(s, id)
    [] x.ins.op = "load"   -> _cur_commit_load(s, id)
    [] x.ins.op = "store"  -> _cur_commit_store(s, id)
    [] IsAtomic(x.ins)     -> cur_commit_amo(s, id)
    [] IsSystem(x.ins)     -> ecall(s, id, how)
    [] OTHER -> s
\* It leaves, but stays known as long as a redirection is to come from it.
Redirects(s, id) == id \in {s.jmpR, s.sysR, s.reoR}
Retired(s, x, id) ==
  LET free == [s EXCEPT !.unique = @ /\ ~IsUnique(x.ins)]
  IN IF Redirects(s, id) THEN [free EXCEPT !.rob = Tail(@)] ELSE Left(free, id)
LeavesRob(s, x, id) ==
  IF x.err # "" THEN [s EXCEPT !.reoR = id, !.rob = Tail(@)]
  ELSE Retired(Noted(Renamed(s, id), id), x, id)
\* t is the core after it, s before.
GoesOn(t, s, x, id) ==
  [s |-> [t EXCEPT !.ok = @ /\ x.pc = s.isa.pc],
   go |-> ~(Redirects(t, id) \/ IsUnique(x.ins) \/ x.ins.op = "jalr" \/ IsAtomic(x.ins)
            \/ s.ftq[1].done + 1 >= Len(s.ftq[1].pcs))]

\* One step of the loop; c.go says whether it goes round again.
CommitOne(c, n, how) ==
  LET s == c.s
      id == s.rob[1]
      x == s.inst[id]
      checked == [s EXCEPT !.ok = @ /\ s.ftq # <<>> /\ s.ftq[1].n = x.n]
      waits == IsAtomic(x.ins) /\ s.amoState # "finish"
  IN IF ~c.go \/ s.rob = <<>> THEN c
     ELSE IF ~x.fin \/ (IsSystem(x.ins) /\ n > 1) THEN [c EXCEPT !.go = FALSE]
     ELSE IF waits THEN [s |-> cur_commit_amo(checked, id), go |-> FALSE]
     ELSE GoesOn(LeavesRob(CommitsOwn(checked, x, id, how), x, id), s, x, id)
\* What could not be fetched or decoded is an error once nothing older is left.
FrontErrors(s) ==
  LET behind == s.rob = <<>> /\ s.robIn = <<>> /\ Held(s.d2r) = 0 /\ Held(s.r2d) = 0
      before == Held(s.ib) = 0 /\ Held(s.pd) = 0 /\ Held(s.fr) = 0
  IN s.jmpR = Nobody /\ behind /\ (s.derr \/ (s.ierr /\ before))
AfterCommits(c) == IF c.go /\ FrontErrors(c.s) THEN [c.s EXCEPT !.ok = FALSE] ELSE c.s
cur_commit(s, how) ==
  AfterCommits(FoldLeft(LAMBDA d, n : CommitOne(d, n, how), [s |-> s, go |-> TRUE], [n \in 1 .. XSWidth |-> n]))

-----------------------------------------------------------------------------
\* Redirections: everything that has not committed is dropped.
ListFree(table) == SetToSortSeq((0 .. XSPhys - 1) \ {table[r] : r \in Regs}, LAMBDA p, q : p < q)
_apl_clear_pipeline(s) ==
  LET t == ClearedFront @@ ClearedBack @@ ClearedLsu @@ NoRedirect @@ s
  IN [t EXCEPT !.table = s.ctable, !.free = ListFree(s.ctable), !.file = s.wb @@ @,
        !.ldin = Q0, !.ldout = Q0, !.amoin = Q0, !.amoout = Q0]
apl_global_redirect(s) ==
  IF s.glob = <<>> THEN s
  ELSE LET g == s.glob[1]
       IN _apl_clear_pipeline([s EXCEPT !.file = WithRegisters(@, s.ctable, g.regs),
                                        !.bpc = g.pc, !.halt = FALSE])
_apl_general_cpu_redirect(s, pc) == _apl_clear_pipeline([s EXCEPT !.bpc = pc])
apl_sys_redirect(s) ==
  IF s.sysR = Nobody THEN s ELSE _apl_general_cpu_redirect(s, s.inst[s.sysR].a1)
apl_jmp_redirect(s) ==
  IF s.jmpR = Nobody THEN s
  ELSE LET x == s.inst[s.jmpR]
       IN _apl_general_cpu_redirect([s EXCEPT !.ctable = s.cps[s.jmpR]],
            IF x.ins.op = "branch" /\ x.a0 = 0 THEN x.pc + 1 ELSE x.a1)
apl_reorder_redirect(s) ==
  IF s.reoR = Nobody THEN s ELSE _apl_general_cpu_redirect(s, s.inst[s.reoR].pc)

ToStations(s) ==
  LET sorted(u) == [in |-> <<>>,
                    unready |-> s.rs[u].unready \cup {id \in ToSet(s.rs[u].in) : ~Ready(s.inst[id])},
                    ready |-> s.rs[u].ready \o SelectSeq(s.rs[u].in, LAMBDA id : Ready(s.inst[id]))]
  IN [u \in Units |-> sorted(u)]
_apl_forward_pipeline(s) ==
  lsu_apply_next_tick(
    [s EXCEPT !.upd = Forward(@, Unlimited), !.fr = Forward(@, 1), !.pd = Forward(@, 1),
       !.ib = Forward(@, Unlimited), !.d2r = Forward(@, XSWidth), !.r2d = Forward(@, XSWidth),
       !.di = Forward(@, XSWidth), !.dl = Forward(@, XSWidth),
       !.wakeup = DOMAIN s.bypassIn, !.bypass = Drop(s.bypassIn @@ @, DOMAIN s.wb),
       !.file = s.wb @@ @, !.busy = @ \ DOMAIN s.wb, !.bypassIn = Empty0, !.wb = Empty0,
       !.rob = @ \o s.robIn, !.robIn = <<>>, !.waits = @ \cup s.waitsIn, !.waitsIn = {},
       !.rs = ToStations(s), !.fin = {},
       !.inst = [id \in DOMAIN @ |-> IF id \in s.fin THEN [@[id] EXCEPT !.fin = TRUE] ELSE @[id]],
       !.ld = Forward(@, Unlimited), !.sta = Forward(@, Unlimited), !.std = Forward(@, Unlimited),
       !.amo = Forward(@, Unlimited), !.fence = Forward(@, Unlimited)])
=============================================================================
