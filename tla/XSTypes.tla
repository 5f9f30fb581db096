------------------------------ MODULE XSTypes ------------------------------
(***************************************************************************)
(* The state of the out of order core (cpu/xiangshan).  The core is one    *)
(* object whose handlers all work on the same members, so its state is one *)
(* record s, a handler is an operator on it, and a half tick is their      *)
(* composition in the order of the code (XiangShan).  What a handler       *)
(* leaves for the next tick is kept in fields of its own, as in the code.  *)
(***************************************************************************)
EXTENDS RVMachine, Sequences, FiniteSets, SequencesExt, FiniteSetsExt, Functions

CONSTANTS
  XSCases,        \* records [code, ftb, late, lineWords]: the instruction at each pc, what
                  \* the fetch target buffer knows, what may go wrong on the way (see Odd), and
                  \* the words of a cache line: the pages of RVMachine are words here
  XSWidth,        \* decode_width and fetch_width_bytes
  XSRob,          \* rob_size
  XSPhys,         \* phys_ireg_cnt
  XSCheckpoints,  \* branch_inst_cnt
  XSStation,      \* int_rs_size and mem_rs_size: places of a reservation station
  XSStoreQueue,   \* store_queue_size
  XSLoadQueue,    \* load_queue_size
  XSStoreBuffer,  \* commited_store_buffer_size
  XSTargets,      \* what a jalr may be predicted to jump to, 0 for nothing
  XSDelays,       \* bound: how often in all a cache or the predictor does not do its best
  XSPatience      \* ticks within which an instruction commits

ASSUME XSAssumption ==
  /\ XSWidth \in Nat \ {0} /\ XSPhys > Cardinality(Regs) /\ XSCheckpoints > 0
  /\ XSStation > 0 /\ XSStoreQueue > 0 /\ XSLoadQueue > 0

\* SimpleTickQueue as its users see it: `in' is what was pushed and has not moved on.
Q0 == [in |-> <<>>, out |-> <<>>]
Put(q, x) == [q EXCEPT !.in = Append(@, x)]
Popped(q) == [q EXCEPT !.out = Tail(@)]
\* apply_next_tick, for at most n items ready to be popped (or waiting for that).
Forward(q, n) ==
  LET k == Min({Len(q.in), n - Len(q.out)})
  IN [in |-> SubSeq(q.in, k + 1, Len(q.in)), out |-> q.out \o SubSeq(q.in, 1, k)]
Unlimited == 100
Held(q) == Len(q.in) + Len(q.out)

\* A loop that goes round at most n times and stops when its guard fails.
Times(n, Op(_), s) == FoldLeft(LAMBDA t, k : Op(t), s, [k \in 1 .. n |-> k])

Nobody == 0                   \* ids of instructions and entries begin with 1
Empty0 == [x \in {} |-> 0]
Upd(f, x, v) == [y \in DOMAIN f \cup {x} |-> IF y = x THEN v ELSE f[y]]
Drop(f, S) == [y \in DOMAIN f \ S |-> f[y]]

Word(a) == Page(a)
Line(s, w) == w \div s.lineWords

\* The classes the stages tell apart.
IsJump(ins) == ins.op \in {"jal", "jalr"}
IsSystem(ins) == ins.op \in {"ecall", "ebreak"}
IsUnique(ins) == ins.op \in {"fence", "ecall", "ebreak"}
Checkpointed(ins) == ins.op \in {"branch", "jalr"}
WritesReg(ins) == HasRd(ins) /\ ins.rd # 0
IsAtomic(ins) == ins.op \in Atomics
OfMemory(ins) == ins.op \in MemOps \cup {"fence"}

Units == {"mdu", "alu1", "alu2", "misc"}
SlowOps == Divisions \cup {"MUL", "MULH", "MULHSU", "MULHU"}
Latency(ins) == IF ins.op \in {"op", "opimm"} /\ ins.fn \in SlowOps THEN 3 ELSE 1

\* inst_ready: the operands an instruction has are there.
Ready(x) == (ReadsRs1(x.ins) => x.r1) /\ (ReadsRs2(x.ins) => x.r2)

\* The members of the core after construction, and what _apl_clear_pipeline empties.
ClearedFront ==
  [ftq |-> <<>>, pos |-> 0, fr |-> Q0, pd |-> Q0, ib |-> Q0, ierr |-> FALSE, derr |-> FALSE]
ClearedBack ==
  [d2r |-> Q0, r2d |-> Q0, di |-> Q0, dl |-> Q0, unique |-> FALSE, inst |-> Empty0,
   rob |-> <<>>, robIn |-> <<>>, cps |-> Empty0,
   busy |-> {}, bypass |-> Empty0, wakeup |-> {}, wb |-> Empty0, bypassIn |-> Empty0,
   waits |-> {}, waitsIn |-> {},
   rs |-> [u \in Units |-> [in |-> <<>>, unready |-> {}, ready |-> <<>>]],
   unit |-> [u \in Units |-> [k \in 1 .. (IF u = "misc" THEN 1 ELSE 2) |-> [id |-> Nobody, left |-> 0]]],
   fin |-> {}]
ClearedLsu ==
  [ld |-> Q0, sta |-> Q0, std |-> Q0, amo |-> Q0, fence |-> Q0,
   amoState |-> "free", laq |-> Q0, saq |-> Q0, ldwait |-> Q0,
   stby |-> {}, stbyIn |-> {}, refire |-> <<>>, ldq |-> <<>>, ldqIn |-> <<>>, ldsize |-> 0,
   ldfin |-> <<>>, wbl |-> <<>>, finld |-> {}, stq |-> {}, stqIn |-> {}, lfin |-> {},
   llchk |-> <<>>, slchk |-> <<>>, aready |-> {}]
\* What the load and store unit keeps through a redirection: committed stores on their way.
NewLsu == [cstby |-> {}, sb |-> Empty0, sbIn |-> Empty0, lru |-> <<>>, sbcnt |-> 0, clr |-> FALSE]
NoRedirect == [glob |-> <<>>, sysR |-> Nobody, jmpR |-> Nobody, reoR |-> Nobody, bpuR |-> Nobody]
=============================================================================
