------------------------------ MODULE RiscV64 ------------------------------
(***************************************************************************)
(* The second decoder and the second integer operations of the repository  *)
(* (src/riscv64), written for the next cores, which nothing calls yet.     *)
(* Where a decoder knows a word, it takes it for the same as the decoder   *)
(* in use (RVDecode), and the operations give the same (IntOperations).    *)
(***************************************************************************)
EXTENDS RVDecode, IntOperations

\* InstInfo; exe and op are ExeType and ExeOPType, the operation of one unit.
InfoZero == [ok |-> TRUE, opcode |-> OP.nop, dest |-> "NONE", src1 |-> "ZERO", src2 |-> "ZERO", src3 |-> "ZERO",
             rd |-> 0, rs1 |-> 0, rs2 |-> 0, rs3 |-> 0, imm |-> 0, exe |-> "ALU", op |-> 0]
InfoFails == [InfoZero EXCEPT !.ok = FALSE]
Info(opcode, exe, op, dest, src1, src2) ==
  [InfoZero EXCEPT !.opcode = opcode, !.exe = exe, !.op = op, !.dest = dest, !.src1 = src1, !.src2 = src2]
\* The fields an instruction takes.
D(i, inst) == [i EXCEPT !.rd = get_rd(inst)]
S1(i, inst) == [i EXCEPT !.rs1 = get_rs1(inst)]
S2(i, inst) == [i EXCEPT !.rs2 = get_rs2(inst)]
Imm(i, imm) == [i EXCEPT !.imm = imm]
When(known, i) == IF known THEN i ELSE InfoFails
get_rs3(inst) == GET_BITS_AT(inst, 27, 5)
Function(inst) == get_funct3(inst) + 8 * get_funct7(inst)

\* The numbers of the operations: the function of the instruction, 16 more for the words.
ALUOPType == {0, 256, 1, 2, 3, 4, 5, 261, 6, 7}
ALUOPTypeW == {0, 256, 1, 5, 261}
MULOPType == 8 .. 11
DIVOPType == 12 .. 15
JUMPOPType == [AUIPC |-> 0, JAL |-> 1, JALR |-> 2]
CSROPType == [EBREAK |-> 16, ECALL |-> 17, SRET |-> 18, MRET |-> 19, WFI |-> 22]
FENCEOPType == [FENCE |-> 0, FENCEI |-> 1, SFENCE |-> 2, FENCETSO |-> 3, PAUSE |-> 4]
\* funct7 without its two bits of ordering, and the width.
AMOOPType == {a + 32 * w : a \in {0, 1, 2, 3, 4, 8, 12, 16, 20, 24, 28}, w \in {2, 3}}
Unit(op) == IF op \in MULOPType THEN "MUL" ELSE IF op \in DIVOPType THEN "DIV" ELSE "ALU"

decode_load(inst) ==
  When(get_funct3(inst) <= 6,
       Imm(S1(D(Info(OP.load, "LOAD", get_funct3(inst), "IREG", "IREG", "ZERO"), inst), inst), get_imm_I(inst)))
decode_store(inst) ==
  When(get_funct3(inst) <= 3,
       Imm(S1(S2(Info(OP.store, "STORE", get_funct3(inst), "NONE", "IREG", "IREG"), inst), inst), get_imm_S(inst)))
decode_lui(inst) == Imm(D(Info(OP.lui, "ALU", RV64IntOP73.ADD, "IREG", "IMM", "ZERO"), inst), get_imm_U(inst))
decode_auipc(inst) == Imm(D(Info(OP.auipc, "JUMP", JUMPOPType.AUIPC, "IREG", "PC", "IMM"), inst), get_imm_U(inst))
decode_jal(inst) == Imm(D(Info(OP.jal, "JUMP", JUMPOPType.JAL, "IREG", "PC", "IMM"), inst), get_imm_J(inst))
decode_jalr(inst) ==
  Imm(S1(D(Info(OP.jalr, "JUMP", JUMPOPType.JALR, "IREG", "IREG", "IMM"), inst), inst), get_imm_I(inst))
decode_branch(inst) ==
  When(get_funct3(inst) \notin {2, 3},
       Imm(S1(S2(Info(OP.branch, "BRANCH", get_funct3(inst), "NONE", "IREG", "IREG"), inst), inst), get_imm_B(inst)))
\* The function takes the upper bits of the immediate in, as if it were one of registers.
decode_opimm73(op, inst, known, more) ==
  When(Function(inst) \in known,
       Imm(S1(D(Info(op, "ALU", Function(inst) + more, "IREG", "IREG", "IMM"), inst), inst), get_imm_I(inst)))
decode_op73(op, inst, known, more) ==
  When(Function(inst) \in known,
       S1(S2(D(Info(op, Unit(Function(inst)), Function(inst) + more, "IREG", "IREG", "IREG"), inst), inst), inst))
decode_amo_info(inst) ==
  LET op == get_funct7(inst) \div 4 + 32 * get_funct3(inst)
  IN When(op \in AMOOPType, S1(S2(D(Info(OP.amo, "AMO", op, "IREG", "IREG", "IREG"), inst), inst), inst))

\* sfence.vma says which of its registers count.
decode_system_info(inst) ==
  LET alone(op) == Info(OP.system, "CSR", op, "NONE", "ZERO", "ZERO")
      fence == FENCEOPType.SFENCE + (IF get_rs1(inst) # 0 THEN 256 ELSE 0) + (IF get_rs2(inst) # 0 THEN 512 ELSE 0)
      csr == Info(OP.system, "CSR", get_funct3(inst) + 256 * get_funct7(inst), "IREG",
                  IF get_funct3(inst) > 4 THEN "IMM" ELSE "IREG", "ZERO")
  IN CASE inst = 115       -> alone(CSROPType.ECALL)
       [] inst = 1048691   -> alone(CSROPType.EBREAK)
       [] inst = 270532723 -> alone(CSROPType.SRET)
       [] inst = 807403635 -> alone(CSROPType.MRET)
       [] inst = 273678451 -> alone(CSROPType.WFI)
       [] get_funct7(inst) = 9 -> S1(S2(Info(OP.system, "FENCE", fence, "NONE", "IREG", "IREG"), inst), inst)
       [] OTHER -> When(get_funct3(inst) \notin {0, 4}, Imm(S1(D(csr, inst), inst), get_rs1(inst)))
decode_miscmem_info(inst) ==
  LET fence(op) == Info(OP.miscmem, "FENCE", op, "NONE", "ZERO", "ZERO")
  IN CASE inst = -2094006257 -> fence(FENCEOPType.FENCETSO)
       [] inst = 16777231    -> fence(FENCEOPType.PAUSE)
       [] get_funct3(inst) = 0 -> fence(FENCEOPType.FENCE + 256 * GET_BITS_AT(inst, 20, 8))
       [] get_funct3(inst) = 1 -> fence(FENCEOPType.FENCEI)
       [] OTHER -> InfoFails

\* A width that is none of the floating point ones makes it an access of a vector: one place
\* after the other, at a stride, or at the places another vector has.
FpWidths == 1 .. 4
VectorOp(inst) == get_funct3(inst) + 8 * get_funct7(inst)
VectorSrc2(inst) == CASE GET_BITS_AT(inst, 26, 2) = 0 -> "ZERO"
                      [] GET_BITS_AT(inst, 26, 2) = 2 -> "IREG"
                      [] OTHER -> "VREG"
decode_loadfp(inst) ==
  IF get_funct3(inst) \in FpWidths
  THEN Imm(S1(D(Info(OP.loadfp, "FLOAD", get_funct3(inst), "FREG", "IREG", "ZERO"), inst), inst), get_imm_I(inst))
  ELSE S1(S2(D(Info(OP.loadfp, "VLOAD", VectorOp(inst), "VREG", "IREG", VectorSrc2(inst)), inst), inst), inst)
decode_storefp(inst) ==
  IF get_funct3(inst) \in FpWidths
  THEN Imm(S1(S2(Info(OP.storefp, "FSTORE", get_funct3(inst), "NONE", "IREG", "FREG"), inst), inst), get_imm_S(inst))
  ELSE [S1(S2(Info(OP.storefp, "VSTORE", VectorOp(inst), "NONE", "IREG", VectorSrc2(inst)), inst), inst)
          EXCEPT !.rs3 = get_rd(inst), !.src3 = "VREG"]

fp_detect_exe_type(op5) ==
  CASE op5 \in {0, 1, 4, 5} -> "FALU" [] op5 = 2 -> "FMUL" [] op5 = 3 -> "FDIV" [] op5 = 11 -> "FSQRT"
    [] op5 = 8 -> "FCVT" [] op5 = 20 -> "FCMP" [] op5 \in {24, 28} -> "F2I" [] op5 \in {26, 30} -> "I2F"
    [] OTHER -> "INVALID"
decode_fpop(inst) ==
  LET exe == fp_detect_exe_type(GET_BITS_AT(inst, 27, 5))
      i == Info(OP.opfp, exe, get_funct3(inst) + 8 * GET_BITS_AT(inst, 20, 12),
                IF exe \in {"FCMP", "F2I"} THEN "IREG" ELSE "FREG",
                IF exe = "I2F" THEN "IREG" ELSE "FREG",
                IF exe \in {"FALU", "FMUL", "FDIV", "FCMP"} THEN "FREG" ELSE "ZERO")
  IN When(exe # "INVALID", S1(S2(D(i, inst), inst), inst))
decode_fma_info(op, inst) ==
  LET fma == op + 128 * get_funct3(inst) + 1024 * GET_BITS_AT(inst, 25, 2)
  IN [S1(S2(D(Info(op, "FMA", fma, "FREG", "FREG", "FREG"), inst), inst), inst)
        EXCEPT !.rs3 = get_rs3(inst), !.src3 = "FREG"]
-----------------------------------------------------------------------------
(* The compressed formats *)

\* With registers given: rd, rs1, rs2.
WithRegs(i, rd, rs1, rs2) == [i EXCEPT !.rd = rd, !.rs1 = rs1, !.rs2 = rs2]
InfoOfImm(op, fn, rd, rs1, imm) == Imm(WithRegs(Info(op, "ALU", fn, "IREG", "IREG", "IMM"), rd, rs1, 0), imm)
InfoOfOp(op, fn, rd, rs2) == WithRegs(Info(op, "ALU", fn, "IREG", "IREG", "IREG"), rd, rd, rs2)
InfoOfLoad(op, fn, rd, rs1, src2, imm) ==
  Imm(WithRegs(Info(op, "LOAD", fn, IF op = OP.loadfp THEN "FREG" ELSE "IREG", "IREG", src2), rd, rs1, 0), imm)
InfoOfStore(op, fn, rs1, rs2, src2, imm) ==
  Imm(WithRegs(Info(op, "STORE", fn, "NONE", "IREG", src2), 0, rs1, rs2), imm)
InfoOfJalr(rd, rs1) ==
  WithRegs(Info(OP.jalr, "JUMP", JUMPOPType.JALR, IF rd = 0 THEN "NONE" ELSE "IREG", "IREG", "ZERO"), rd, rs1, 0)

decode_rvc_op0(inst) ==
  LET r == RegC(inst, 2)
      s == RegC(inst, 7)
      spn == 8 * GET_BITS_AT(inst, 5, 1) + 4 * GET_BITS_AT(inst, 6, 1) + 64 * GET_BITS_AT(inst, 7, 4)
             + 16 * GET_BITS_AT(inst, 11, 2)
      func == GET_BITS_AT(inst, 13, 3)
  IN CASE func = 0 -> [InfoOfImm(OP.opimm, RV64IntOP73.ADD, r, 2, spn) EXCEPT !.src2 = "ZERO"]
       [] func = 1 -> InfoOfLoad(OP.loadfp, LSDword, r, s, "ZERO", ImmD(inst))
       [] func = 2 -> InfoOfLoad(OP.load, LSWord, r, s, "ZERO", ImmW(inst))
       [] func = 3 -> InfoOfLoad(OP.load, LSDword, r, s, "ZERO", ImmD(inst))
       [] func = 4 -> InfoFails
       [] func = 5 -> InfoOfStore(OP.storefp, LSDword, s, r, "FREG", ImmD(inst))
       [] func = 6 -> InfoOfStore(OP.store, LSWord, s, r, "IREG", ImmW(inst))
       [] func = 7 -> InfoOfStore(OP.store, LSDword, s, r, "IREG", ImmD(inst))

decode_rvc_alu(inst) ==
  LET r == RegC(inst, 7)
      f1 == GET_BITS_AT(inst, 10, 2)
      two == <<[op |-> OP.op, fn |-> RV64IntOP73.SUB], [op |-> OP.op, fn |-> RV64IntOP73.XOR],
               [op |-> OP.op, fn |-> RV64IntOP73.OR], [op |-> OP.op, fn |-> RV64IntOP73.AND],
               [op |-> OP.op32, fn |-> RV64IntOP73.SUB + 16], [op |-> OP.op32, fn |-> RV64IntOP73.ADD + 16]>>
      f2 == GET_BITS_AT(inst, 5, 2) + 4 * SignC(inst) + 1
  IN CASE f1 = 0 -> InfoOfImm(OP.opimm, RV64IntOP73.SRL, r, r, Shamt(inst))
       [] f1 = 1 -> InfoOfImm(OP.opimm, RV64IntOP73.SRA, r, r, Shamt(inst))
       [] f1 = 2 -> InfoOfImm(OP.opimm, RV64IntOP73.AND, r, r, Imm6(inst))
       [] OTHER -> IF f2 \in DOMAIN two THEN InfoOfOp(two[f2].op, two[f2].fn, r, RegC(inst, 2)) ELSE InfoFails
decode_rvc_op1(inst) ==
  LET r == get_rd(inst)
      func == GET_BITS_AT(inst, 13, 3)
      \* one operand, the immediate
      alone(op, imm) == Imm([Info(op, "ALU", RV64IntOP73.ADD, "IREG", "IMM", "ZERO") EXCEPT !.rd = r], imm)
      sp16 == 16 * GET_BITS_AT(inst, 6, 1) + 32 * GET_BITS_AT(inst, 2, 1) + 64 * GET_BITS_AT(inst, 5, 1)
              + 128 * GET_BITS_AT(inst, 3, 2) - 512 * SignC(inst)
      branch(fn) == Imm([Info(OP.branch, "BRANCH", fn, "NONE", "IREG", "ZERO") EXCEPT !.rs1 = RegC(inst, 7)],
                        ImmCB(inst))
  IN CASE func = 0 -> InfoOfImm(OP.opimm, RV64IntOP73.ADD, r, r, Imm6(inst))
       [] func = 1 -> InfoOfImm(OP.opimm32, RV64IntOP73.ADD + 16, r, r, Imm6(inst))
       [] func = 2 -> alone(OP.opimm, Imm6(inst))
       [] func = 3 -> IF r = 2 THEN InfoOfImm(OP.opimm, RV64IntOP73.ADD, 2, 2, sp16) ELSE alone(OP.lui, 4096 * Imm6(inst))
       [] func = 4 -> decode_rvc_alu(inst)
       [] func = 5 -> Imm(Info(OP.jal, "JUMP", JUMPOPType.JAL, "NONE", "PC", "IMM"), ImmCJ(inst))
       [] func = 6 -> branch(BEQ)
       [] func = 7 -> branch(BNE)

\* c.mv takes rd for its source as well.
decode_rvc_jump(inst) ==
  LET r == get_rd(inst)
      s == GET_BITS_AT(inst, 2, 5)
  IN CASE r # 0 /\ s # 0 /\ SignC(inst) = 1 -> InfoOfOp(OP.op, RV64IntOP73.ADD, r, s)
       [] r # 0 /\ s # 0 /\ SignC(inst) = 0 -> [InfoOfImm(OP.opimm, RV64IntOP73.ADD, r, r, 0) EXCEPT !.src2 = "ZERO"]
       [] r # 0 /\ s = 0 -> InfoOfJalr(SignC(inst), r)
       [] r = 0 /\ s = 0 /\ SignC(inst) = 1 -> Info(OP.system, "CSR", CSROPType.EBREAK, "NONE", "ZERO", "ZERO")
       [] OTHER -> InfoFails
decode_rvc_op2(inst) ==
  LET r == get_rd(inst)
      s == GET_BITS_AT(inst, 2, 5)
      func == GET_BITS_AT(inst, 13, 3)
      lwsp == 64 * GET_BITS_AT(inst, 2, 2) + 4 * GET_BITS_AT(inst, 4, 3) + 32 * SignC(inst)
      swsp == 64 * GET_BITS_AT(inst, 7, 2) + 4 * GET_BITS_AT(inst, 9, 4)
  IN CASE func = 0 -> InfoOfImm(OP.opimm, RV64IntOP73.SLL, r, r, Shamt(inst))
       [] func = 1 -> InfoOfLoad(OP.loadfp, LSDword, r, 2, "IMM", ImmDSP(inst))
       [] func = 2 -> InfoOfLoad(OP.load, LSWord, r, 2, "IMM", lwsp)
       [] func = 3 -> InfoOfLoad(OP.load, LSDword, r, 2, "IMM", ImmDSP(inst))
       [] func = 4 -> decode_rvc_jump(inst)
       [] func = 5 -> InfoOfStore(OP.storefp, LSDword, 2, s, "FREG", ImmDSPStore(inst))
       [] func = 6 -> InfoOfStore(OP.store, LSWord, 2, s, "IREG", swsp)
       [] func = 7 -> InfoOfStore(OP.storefp, LSDword, 2, s, "IREG", ImmDSPStore(inst))
rvc_quadrant(inst) ==
  CASE inst % 4 = 0 -> decode_rvc_op0(inst)
    [] inst % 4 = 1 -> decode_rvc_op1(inst)
    [] inst % 4 = 2 -> decode_rvc_op2(inst)
\* Two of the three are cut off by the check before them.
decode_rvc_inst(inst) == IF inst % 4 # 0 THEN InfoFails ELSE rvc_quadrant(inst)

\* There is no case for branches.
decode_inst(inst) ==
  LET op == get_opcode(inst)
  IN CASE isRVC(inst)       -> decode_rvc_inst(inst)
       [] op = OP.load      -> decode_load(inst)
       [] op = OP.store     -> decode_store(inst)
       [] op = OP.lui       -> decode_lui(inst)
       [] op = OP.opimm     -> decode_opimm73(op, inst, ALUOPType, 0)
       [] op = OP.opimm32   -> decode_opimm73(op, inst, ALUOPTypeW, 16)
       [] op = OP.op        -> decode_op73(op, inst, ALUOPType \cup MULOPType \cup DIVOPType, 0)
       [] op = OP.op32      -> decode_op73(op, inst, ALUOPTypeW \cup {8} \cup DIVOPType, 16)
       [] op = OP.auipc     -> decode_auipc(inst)
       [] op = OP.jal       -> decode_jal(inst)
       [] op = OP.jalr      -> decode_jalr(inst)
       [] op = OP.amo       -> decode_amo_info(inst)
       [] op = OP.miscmem   -> decode_miscmem_info(inst)
       [] op = OP.system    -> decode_system_info(inst)
       [] op = OP.loadfp    -> decode_loadfp(inst)
       [] op = OP.storefp   -> decode_storefp(inst)
       [] op = OP.opfp      -> decode_fpop(inst)
       [] op \in {OP.madd, OP.msub, OP.nmsub, OP.nmadd} -> decode_fma_info(op, inst)
       [] OTHER             -> InfoFails
-----------------------------------------------------------------------------
(* The operations of the second set *)

\* A word operation gives an int32_t, extended; a division traps on what it has no result for.
FitWord(n) == Raw(Signed(n, WLen))
perform_alu_op(op, w, a, b) ==
  LET x == Signed(a, w)
      sh == 2 ^ (b % w)
      fit(n) == IF w = WLen THEN FitWord(n) ELSE Raw(n)
  IN CASE op = "ADD"  -> fit(x + Signed(b, w))
       [] op = "SUB"  -> fit(x - Signed(b, w))
       [] op = "SLL"  -> fit(x * sh)
       [] op = "SRL"  -> fit(Unsigned(a, w) \div sh)
       [] op = "SRA"  -> fit(x \div sh)
       [] op = "SLT"  -> IF x < Signed(b, w) THEN 1 ELSE 0
       [] op = "SLTU" -> IF a < b THEN 1 ELSE 0
       [] op \in {"XOR", "OR", "AND"} -> Logic(op, a, b)
perform_mul_op(op, w, a, b) ==
  LET s == Signed(a, w)
      t == Signed(b, w)
  IN CASE op = "MUL"    -> IF w = WLen THEN FitWord(s * t) ELSE Raw(s * t)
       [] op = "MULH"   -> Raw((s * t) \div Size(XLen))
       [] op = "MULHSU" -> Raw((s * b) \div Size(XLen))
       [] op = "MULHU"  -> (a * b) \div Size(XLen)
perform_div_op(op, w, a, b) ==
  LET s == Signed(a, w)
      t == Signed(b, w)
      m == Unsigned(a, w)
      n == Unsigned(b, w)
  IN CASE n = 0 \/ (op \in {"DIV", "REM"} /\ s = -Size(w - 1) /\ t = -1) -> NoResult
       [] op = "DIV"  -> Raw(CDiv(s, t))
       [] op = "DIVU" -> m \div n
       [] op = "REM"  -> Raw(CMod(s, t))
       [] op = "REMU" -> m % n
Performs(op, w, a, b) ==
  IF op \in Divisions THEN perform_div_op(op, w, a, b)
  ELSE IF op \in {"MUL", "MULH", "MULHSU", "MULHU"} THEN perform_mul_op(op, w, a, b) ELSE perform_alu_op(op, w, a, b)

second_amo_op(op, w, current, operand) ==
  LET x == Signed(current, w)
      y == Signed(operand, w)
      m == Unsigned(current, w)
      n == Unsigned(operand, w)
  IN CASE op = "ADD"  -> Raw(Signed(x + y, w))
       [] op = "SWAP" -> Raw(y)
       [] op \in {"XOR", "AND", "OR"} -> Logic(op, Raw(x), Raw(y))
       [] op = "MIN"  -> Raw(IF x < y THEN x ELSE y)
       [] op = "MAX"  -> Raw(IF x > y THEN x ELSE y)
       [] op = "MINU" -> IF m < n THEN m ELSE n
       [] op = "MAXU" -> IF m > n THEN m ELSE n
-----------------------------------------------------------------------------
VARIABLES
  info,   \* what the second decoder makes of the word, and what its part for compressed ones would
  second  \* what the second operations give
secondVars == <<info, second>>

secondInit == /\ info = [whole |-> InfoZero, rvc |-> InfoZero]
              /\ second = [int |-> NoResults, amo |-> NoResults]
DecodeBoth ==
  /\ DecodeWord
  /\ info' = [whole |-> decode_inst(word), rvc |-> IF isRVC(word) THEN rvc_quadrant(word) ELSE InfoFails]
  /\ UNCHANGED second
PerformBoth ==
  LET w == operands.w  a == operands.a  b == operands.b IN
  /\ perform
  /\ second' = [int |-> [op \in OpsOf(w) |-> Performs(op, w, a, b)],
                amo |-> [op \in AmoOps |-> second_amo_op(op, w, a, b)]]
  /\ UNCHANGED info
-----------------------------------------------------------------------------
\* The registers an instruction writes and reads, by either decoder; x0 does not count.
Uses1(d) ==
  {u \in {<<"RDINT", d.rd>>, <<"S1INT", d.rs1>>, <<"S2INT", d.rs2>>, <<"RDFP", d.rd>>, <<"S1FP", d.rs1>>,
          <<"S2FP", d.rs2>>, <<"S3FP", d.rs3>>} : u[1] \in d.flag /\ (u[2] # 0 \/ u[1] \in {"RDFP", "S1FP", "S2FP", "S3FP"})}
InFile(i, kind, reg, int, fp) ==
  (IF kind = "IREG" /\ reg # 0 THEN {<<int, reg>>} ELSE {}) \cup (IF kind = "FREG" THEN {<<fp, reg>>} ELSE {})
Uses2(i) ==
  InFile(i, i.dest, i.rd, "RDINT", "RDFP") \cup InFile(i, i.src1, i.rs1, "S1INT", "S1FP")
  \cup InFile(i, i.src2, i.rs2, "S2INT", "S2FP") \cup InFile(i, i.src3, i.rs3, "", "S3FP")
\* What the operation of a unit is, from what decode_rv64 has of it.
OpNumber(d, inst) ==
  CASE d.opcode \in {OP.opimm, OP.op}     -> d.param[1]
    [] d.opcode \in {OP.opimm32, OP.op32} -> d.param[1] + 16
    [] d.opcode = OP.lui                  -> RV64IntOP73.ADD
    [] d.opcode = OP.auipc                -> JUMPOPType.AUIPC
    [] d.opcode = OP.jal                  -> JUMPOPType.JAL
    [] d.opcode = OP.jalr                 -> JUMPOPType.JALR
    [] d.opcode = OP.amo                  -> d.param[1] + 32 * d.param[2]
    [] d.opcode = OP.opfp -> d.param[4] + 8 * (d.param[3] + 32 * d.param[2] + 128 * d.param[1])
    [] d.opcode \in {OP.madd, OP.msub, OP.nmsub, OP.nmadd} -> d.opcode + 128 * d.param[4] + 1024 * d.param[2]
    [] OTHER                              -> d.param[1]

\* What the second decoder makes of a word, its unreachable part included, is what the first
\* does: the operation, the registers and the immediate.  Named are the differences.  Fences
\* and system instructions are coded otherwise and compared by kind.
Vector(d) == d.opcode \in {OP.loadfp, OP.storefp} /\ ~isRVC(word) /\ d.param[1] \notin FpWidths
Other(d) == d.opcode \in {OP.miscmem, OP.system}
InfoDiffers(i, d) ==
  CASE isRVC(word) /\ word % 4 = 2 /\ i.opcode = OP.opimm /\ i.src2 = "ZERO" -> {"rs1"}   \* c.mv
    [] isRVC(word) /\ d.opcode \in {OP.loadfp, OP.storefp} -> {"regs"}    \* flags of c.fld, c.fldsp, c.fsdsp
    [] isRVC(word) /\ i.opcode = OP.storefp -> {"regs", "opcode"}         \* c.fsd here, c.sdsp there
    [] isRVC(word) /\ d.opcode = OP.lui /\ i.opcode = OP.opimm -> {"opcode"}   \* c.li
    [] d.opcode = OP.opimm /\ i.op = RV64IntOP73.SUB -> {"op"}            \* addi of 1024 .. 1055
    [] d.opcode = OP.opimm32 /\ i.op = RV64IntOP73.SUB + 16 -> {"op"}
    [] OTHER -> {}
InfoAgrees(i, d) ==
  LET but == InfoDiffers(i, d)
      shift == i.exe = "ALU" /\ d.opcode \in {OP.opimm, OP.opimm32} /\ i.op % 8 \in {1, 5}
  IN /\ i.opcode = d.opcode \/ "opcode" \in but
     /\ "op" \notin but => i.op = OpNumber(d, word)
     /\ but \cap {"rs1", "regs"} = {} => Uses2(i) = Uses1(d)
     /\ i.imm = d.imm \/ (shift /\ i.imm % 32 = d.imm)
SecondAgrees ==
  hint.len # 0 =>
    LET i == IF isRVC(word) THEN info.rvc ELSE info.whole
        small == \A w \in written : Immediate(w) \in 0 .. 31
    IN /\ i.ok /\ dec.ok /\ ~Other(dec) /\ ~Vector(dec) => InfoAgrees(i, dec)
       /\ i.ok /\ dec.ok /\ Other(dec) => /\ i.exe = "CSR" <=> dec.opcode = OP.system
                                          /\ i.op = CSROPType.ECALL /\ i.exe = "CSR" <=> "ECALL" \in dec.flag
                                          /\ i.op = CSROPType.EBREAK /\ i.exe = "CSR" <=> "EBREAK" \in dec.flag
                                          /\ i.op = FENCEOPType.FENCEI /\ i.exe = "FENCE" <=> "FENCEI" \in dec.flag
       \* every instruction of a format is known, but for branches, larger immediates, and moves and
       \* additions to x0
       /\ written # {} => \/ i.ok
                          \/ dec.opcode = OP.branch
                          \/ dec.opcode \in {OP.opimm, OP.opimm32} /\ ~small
                          \/ isRVC(word) /\ get_rd(word) = 0
\* The decoders and the predecoder make the same of a word, and what it was written for.
DecodersAgree == DecodesAsWritten /\ PredecodeAgrees /\ SecondAgrees

\* The second operations give what the first do, and so do the atomic ones, but for the
\* exclusive or and the swap of words, which the first ones lack and do not extend.
SecondSame ==
  /\ second.int = result.int
  /\ \A op \in DOMAIN second.amo : \/ op = "XOR" \/ (op = "SWAP" /\ operands.w = WLen)
                                   \/ second.amo[op] = result.amo[op]
\* Every integer operation gives what the instruction set says of it, wherever it is done: in
\* the cores, in the second operations, and in the simulator for an AMO on device memory.
OperationsAgree == OperationExact /\ BranchExact /\ SecondSame /\ DeviceSame
=============================================================================
