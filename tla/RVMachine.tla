----------------------------- MODULE RVMachine -----------------------------
(***************************************************************************)
(* What a core promises: the instructions of a program done one after the  *)
(* other.  An instruction is its class, its function and its operands; its *)
(* effect is that of cpu/operation.cpp on the registers, the pc and the    *)
(* memory of the program.  An address is a value modulo the number of      *)
(* pages, a page holds one value, and an instruction is one pc long.       *)
(***************************************************************************)
EXTENDS IntOperations

Regs == 0 .. 3
Pages == {0, 1}
Page(v) == v % 2

\* Classes: lui, opimm, op, load, store, lr, sc, amo, branch, jal, jalr, fence, ecall, ebreak.
Ins(op, fn, rd, rs1, rs2, imm) ==
  [op |-> op, fn |-> fn, rd |-> rd, rs1 |-> rs1, rs2 |-> rs2, imm |-> imm]

Atomics == {"lr", "sc", "amo"}
MemOps == {"load", "store"} \cup Atomics
HasRd(ins) == ins.op \in {"lui", "opimm", "op", "load", "jal", "jalr"} \cup Atomics
ReadsRs1(ins) == ins.op \notin {"lui", "jal", "fence", "ecall", "ebreak"}
ReadsRs2(ins) == ins.op \in {"op", "store", "sc", "amo", "branch"}

\* What ins leaves in rd; `found' is what it found in memory, or the answer of an sc.
Result(ins, pc, a, b, found) ==
  CASE ins.op = "lui"   -> ins.imm
    [] ins.op = "opimm" -> perform_int_op_64(ins.fn, a, ins.imm)
    [] ins.op = "op"    -> perform_int_op_64(ins.fn, a, b)
    [] ins.op \in {"jal", "jalr"} -> pc + 1
    [] OTHER            -> found

Taken(ins, a, b) == ins.op = "branch" /\ perform_branch_op_64(ins.fn, a, b)
NextPc(ins, pc, a, b) ==
  CASE ins.op = "jal"  -> ins.imm
    [] ins.op = "jalr" -> a + ins.imm
    [] OTHER           -> IF Taken(ins, a, b) THEN ins.imm ELSE pc + 1

\* What ins leaves at its address, where `old' is.
Stored(ins, b, old, answer) ==
  CASE ins.op = "store" -> b
    [] ins.op = "sc"  -> IF answer = 0 THEN b ELSE old
    [] ins.op = "amo" -> perform_amo_op(ins.fn, XLen, old, b)
    [] OTHER          -> old

WithReg(regs, rd, v) == IF rd = 0 THEN regs ELSE [regs EXCEPT ![rd] = v]

\* The machine s after ins; what an sc answers is left to the cache.
Executed(ins, s, answer) ==
  LET a == s.regs[ins.rs1]  b == s.regs[ins.rs2]  p == Page(a)
      found == IF ins.op = "sc" THEN answer ELSE s.mem[p]
  IN [pc   |-> NextPc(ins, s.pc, a, b),
      regs |-> IF HasRd(ins) THEN WithReg(s.regs, ins.rd, Result(ins, s.pc, a, b, found)) ELSE s.regs,
      mem  |-> IF ins.op \in MemOps THEN [s.mem EXCEPT ![p] = Stored(ins, b, @, answer)] ELSE s.mem]
=============================================================================
