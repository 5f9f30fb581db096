------------------------------ MODULE RVDecode ------------------------------
(***************************************************************************)
(* What the cores make of an instruction word: decode_rv64, the decoder of *)
(* the decode stage (isa.cpp), and the quick looks at undecoded words      *)
(* (pdec_* of isa.h) by which the fetch stages follow jumps and the out of *)
(* order core cuts the program into packs.                                 *)
(*                                                                         *)
(* A word is the signed reading of its 32 bits, so that every word is an   *)
(* integer of the model checker; an immediate is signed as well.           *)
(***************************************************************************)
EXTENDS Integers, FiniteSets, SequencesExt

\* Bits len .. of n from offset on; the shift by 31 is left to n < 0.
GET_BITS_AT(n, offset, len) == (n \div 2^offset) % 2^len
isRVC(inst) == inst % 4 # 3
Negative(inst) == inst < 0

RV64OPCode == [load |-> 3, loadfp |-> 7, miscmem |-> 15, opimm |-> 19, auipc |-> 23, opimm32 |-> 27,
  store |-> 35, storefp |-> 39, amo |-> 47, op |-> 51, lui |-> 55, op32 |-> 59, madd |-> 67, msub |-> 71,
  nmsub |-> 75, nmadd |-> 79, opfp |-> 83, opv |-> 87, branch |-> 99, jalr |-> 103, jal |-> 111,
  system |-> 115, nop |-> 0]
OP == RV64OPCode
RV64IntOP73 == [ADD |-> 0, SUB |-> 256, SLL |-> 1, SLT |-> 2, SLTU |-> 3, XOR |-> 4, SRL |-> 5, SRA |-> 261,
  OR |-> 6, AND |-> 7]
LSWord == 2
LSDword == 3
BEQ == 0
BNE == 1
LR == 2
\* Floating point operations with an integer result, an integer operand, two operands.
rv64_fpop_is_i_rd == {20, 24, 28}
rv64_fpop_is_i_s1 == {26, 30}
rv64_fpop_has_s2 == {0, 1, 2, 3, 4, 5, 20}

\* param is a union: whatever part of it is set, from its first word on.
DecNop == [ok |-> TRUE, opcode |-> OP.nop, param |-> <<0>>, rd |-> 0, rs1 |-> 0, rs2 |-> 0, rs3 |-> 0,
           imm |-> 0, flag |-> {}]
\* What a decoder that fails has put in by then is of no use: both cores look at its answer
\* first, and one stops, the other raises an exception.
NotDecoded == [DecNop EXCEPT !.ok = FALSE]
-----------------------------------------------------------------------------
(* The fields of the full formats *)

get_opcode(inst) == GET_BITS_AT(inst, 0, 7)
get_funct3(inst) == GET_BITS_AT(inst, 12, 3)
get_funct7(inst) == GET_BITS_AT(inst, 25, 7)
get_rd(inst) == GET_BITS_AT(inst, 7, 5)
get_rs1(inst) == GET_BITS_AT(inst, 15, 5)
get_rs2(inst) == GET_BITS_AT(inst, 20, 5)

\* An immediate of so many bits and the ones above it, set when the word is negative.
Extended(inst, bits, n) == IF Negative(inst) THEN n - 2^bits ELSE n
get_imm_I(inst) == Extended(inst, 12, GET_BITS_AT(inst, 20, 12))
get_imm_S(inst) == Extended(inst, 12, GET_BITS_AT(inst, 7, 5) + 32 * GET_BITS_AT(inst, 25, 7))
get_imm_B(inst) == Extended(inst, 12,
  2 * GET_BITS_AT(inst, 8, 4) + 32 * GET_BITS_AT(inst, 25, 6) + 2048 * GET_BITS_AT(inst, 7, 1))
get_imm_U(inst) == inst - (inst % 4096)
get_imm_J(inst) == Extended(inst, 20,
  2 * GET_BITS_AT(inst, 21, 10) + 2048 * GET_BITS_AT(inst, 20, 1) + 4096 * GET_BITS_AT(inst, 12, 8))

parse_inst_R(op, inst) ==
  [DecNop EXCEPT !.opcode = op, !.rd = get_rd(inst), !.rs1 = get_rs1(inst), !.rs2 = get_rs2(inst)]
parse_inst_I(op, inst) ==
  [DecNop EXCEPT !.opcode = op, !.rd = get_rd(inst), !.rs1 = get_rs1(inst), !.imm = get_imm_I(inst),
                 !.param = <<get_funct3(inst)>>]
parse_inst_S(op, inst) ==
  [DecNop EXCEPT !.opcode = op, !.rs1 = get_rs1(inst), !.rs2 = get_rs2(inst), !.imm = get_imm_S(inst),
                 !.param = <<get_funct3(inst)>>]
parse_inst_B(op, inst) ==
  [DecNop EXCEPT !.opcode = op, !.rs1 = get_rs1(inst), !.rs2 = get_rs2(inst), !.imm = get_imm_B(inst),
                 !.param = <<get_funct3(inst)>>]
parse_inst_U(op, inst) == [DecNop EXCEPT !.opcode = op, !.rd = get_rd(inst), !.imm = get_imm_U(inst)]
parse_inst_J(op, inst) == [DecNop EXCEPT !.opcode = op, !.rd = get_rd(inst), !.imm = get_imm_J(inst)]

\* A shift keeps the bits of its amount, and bit 30 makes it arithmetic.
decode_opimm(op, raw) ==
  LET d == parse_inst_I(op, raw)
      right == d.param[1] = RV64IntOP73.SRL
      shift == right \/ d.param[1] = RV64IntOP73.SLL
  IN [d EXCEPT !.imm = IF shift THEN @ % (IF op = OP.opimm THEN 64 ELSE 32) ELSE @,
               !.param = IF right /\ GET_BITS_AT(raw, 30, 1) = 1 THEN <<RV64IntOP73.SRA>> ELSE @,
               !.flag = {"RDINT", "S1INT"}]
decode_op(op, raw) ==
  [parse_inst_R(op, raw) EXCEPT !.param = <<get_funct3(raw) + 8 * get_funct7(raw)>>,
                                !.flag = {"RDINT", "S1INT", "S2INT"}]
decode_amo(raw) ==
  LET op == get_funct7(raw) \div 4
  IN [parse_inst_R(OP.amo, raw) EXCEPT !.param = <<op, get_funct3(raw)>>,
        !.flag = {"RDINT", "S1INT"} \cup (IF op # LR THEN {"S2INT"} ELSE {})]
decode_opfp(raw) ==
  LET op == get_funct7(raw) \div 4
  IN [parse_inst_R(OP.opfp, raw) EXCEPT
        !.param = <<op, get_funct7(raw) % 4, get_rs2(raw), get_funct3(raw)>>,
        !.flag = {IF op \in rv64_fpop_is_i_rd THEN "RDINT" ELSE "RDFP",
                  IF op \in rv64_fpop_is_i_s1 THEN "S1INT" ELSE "S1FP"}
                 \cup (IF op \in rv64_fpop_has_s2 THEN {"S2FP"} ELSE {})]
decode_fma(op, raw) ==
  [parse_inst_R(op, raw) EXCEPT !.rs3 = get_funct7(raw) \div 4,
     !.param = <<0, get_funct7(raw) % 4, 0, get_funct3(raw)>>, !.flag = {"RDFP", "S1FP", "S2FP", "S3FP"}]
\* 0x8330000 has no opcode, so that no word is a fence.tso.
decode_miscmem(raw) ==
  LET d == [parse_inst_I(OP.miscmem, raw) EXCEPT !.param = <<0>>]
      kind == CASE get_funct3(raw) = 0 -> {IF raw = 137560064 THEN "FENCETSO"
                                           ELSE IF raw = 16777231 THEN "PAUSE" ELSE "FENCE"}
                [] get_funct3(raw) = 1 -> {"FENCEI"}
                [] OTHER               -> {"RDINT", "S1INT"}
  IN [d EXCEPT !.flag = {"UNIQUE"} \cup kind]
decode_system(raw) ==
  LET d == parse_inst_I(OP.system, raw)
      kind == CASE raw = 115     -> {"ECALL"}
                [] raw = 1048691 -> {"EBREAK"}
                [] OTHER         -> {"RDINT", "S1INT"}
  IN [d EXCEPT !.param = <<get_funct3(raw), d.imm % 4096>>, !.flag = {"UNIQUE"} \cup kind]
-----------------------------------------------------------------------------
(* The compressed formats *)

RegC(raw, offset) == GET_BITS_AT(raw, offset, 3) + 8
SignC(raw) == GET_BITS_AT(raw, 12, 1)
C(opcode, op, rd, rs1, imm) ==
  [DecNop EXCEPT !.opcode = opcode, !.param = <<op>>, !.rd = rd, !.rs1 = rs1, !.imm = imm,
                 !.flag = {"RVC", "RDINT", "S1INT"}]
StoreC(opcode, wid, rs1, rs2, imm) ==
  [DecNop EXCEPT !.opcode = opcode, !.param = <<wid>>, !.rs1 = rs1, !.rs2 = rs2, !.imm = imm,
                 !.flag = {"RVC", "S1INT", "S2INT"}]
\* Six bits with their sign.
Imm6(raw) == GET_BITS_AT(raw, 2, 5) - 32 * SignC(raw)
Shamt(raw) == GET_BITS_AT(raw, 2, 5) + 32 * SignC(raw)
ImmW(raw) == 64 * GET_BITS_AT(raw, 5, 1) + 4 * GET_BITS_AT(raw, 6, 1) + 8 * GET_BITS_AT(raw, 10, 3)
ImmD(raw) == 64 * GET_BITS_AT(raw, 5, 2) + 8 * GET_BITS_AT(raw, 10, 3)
ImmDSP(raw) == 64 * GET_BITS_AT(raw, 2, 3) + 8 * GET_BITS_AT(raw, 5, 2) + 32 * SignC(raw)
ImmDSPStore(raw) == 64 * GET_BITS_AT(raw, 7, 3) + 8 * GET_BITS_AT(raw, 10, 3)
ImmCJ(inst) ==
  32 * GET_BITS_AT(inst, 2, 1) + 2 * GET_BITS_AT(inst, 3, 3) + 128 * GET_BITS_AT(inst, 6, 1)
  + 64 * GET_BITS_AT(inst, 7, 1) + 1024 * GET_BITS_AT(inst, 8, 1) + 256 * GET_BITS_AT(inst, 9, 2)
  + 16 * GET_BITS_AT(inst, 11, 1) - 2048 * SignC(inst)
ImmCB(inst) ==
  32 * GET_BITS_AT(inst, 2, 1) + 2 * GET_BITS_AT(inst, 3, 2) + 64 * GET_BITS_AT(inst, 5, 2)
  + 8 * GET_BITS_AT(inst, 10, 2) - 256 * SignC(inst)

\* C.ADDI4SPN C.FLD C.LW C.LD C.FSD C.SW C.SD
decode_c0(raw, func) ==
  LET r == RegC(raw, 2)
      s == RegC(raw, 7)
      spn == 8 * GET_BITS_AT(raw, 5, 1) + 4 * GET_BITS_AT(raw, 6, 1) + 64 * GET_BITS_AT(raw, 7, 4)
             + 16 * GET_BITS_AT(raw, 11, 1) + 32 * GET_BITS_AT(raw, 12, 1)
  IN CASE func = 0 -> C(OP.opimm, RV64IntOP73.ADD, r, 2, spn)
       [] func = 1 -> C(OP.loadfp, LSDword, r, s, ImmD(raw))
       [] func = 2 -> C(OP.load, LSWord, r, s, ImmW(raw))
       [] func = 3 -> C(OP.load, LSDword, r, s, ImmD(raw))
       [] func = 4 -> NotDecoded
       [] func = 5 -> StoreC(OP.store, LSDword, s, r, ImmD(raw))
       [] func = 6 -> StoreC(OP.store, LSWord, s, r, ImmW(raw))
       [] func = 7 -> StoreC(OP.store, LSDword, s, r, ImmD(raw))

\* C.SRLI C.SRAI C.ANDI, and C.SUBW C.ADDW C.SUB C.XOR C.OR C.AND
decode_c1_op(raw) ==
  LET r == RegC(raw, 7)
      f1 == GET_BITS_AT(raw, 10, 2)
      ops == IF SignC(raw) = 1 THEN <<RV64IntOP73.SUB, RV64IntOP73.ADD>>
             ELSE <<RV64IntOP73.SUB, RV64IntOP73.XOR, RV64IntOP73.OR, RV64IntOP73.AND>>
      f2 == GET_BITS_AT(raw, 5, 2) + 1
  IN CASE f1 = 0 -> C(OP.opimm, RV64IntOP73.SRL, r, r, Shamt(raw))
       [] f1 = 1 -> C(OP.opimm, RV64IntOP73.SRA, r, r, Shamt(raw))
       [] f1 = 2 -> C(OP.opimm, RV64IntOP73.AND, r, r, Imm6(raw))
       [] OTHER -> IF f2 \notin DOMAIN ops THEN NotDecoded
                   ELSE [C(IF SignC(raw) = 1 THEN OP.op32 ELSE OP.op, ops[f2], r, r, 0)
                           EXCEPT !.rs2 = RegC(raw, 2), !.flag = @ \cup {"S2INT"}]
\* C.ADDI C.ADDIW C.LI C.ADDI16SP C.LUI C.J C.BEQZ C.BNEZ
decode_c1(raw, func) ==
  LET r == get_rd(raw)
      sp16 == 32 * GET_BITS_AT(raw, 2, 1) + 128 * GET_BITS_AT(raw, 3, 2) + 64 * GET_BITS_AT(raw, 5, 1)
              + 16 * GET_BITS_AT(raw, 6, 1) - 512 * SignC(raw)
      lui(imm) == [C(OP.lui, 0, r, 0, imm) EXCEPT !.flag = {"RVC", "RDINT"}]
  IN CASE func = 0 -> C(OP.opimm, RV64IntOP73.ADD, r, r, Imm6(raw))
       [] func = 1 -> C(OP.opimm32, RV64IntOP73.ADD, r, r, Imm6(raw))
       [] func = 2 -> IF r # 0 THEN lui(Imm6(raw)) ELSE NotDecoded
       [] func = 3 -> IF r = 2 THEN C(OP.opimm, RV64IntOP73.ADD, 2, 2, sp16)
                      ELSE IF r # 0 THEN lui(4096 * Imm6(raw)) ELSE NotDecoded
       [] func = 4 -> decode_c1_op(raw)
       [] func = 5 -> [C(OP.jal, 0, 0, 0, ImmCJ(raw)) EXCEPT !.flag = {"RVC", "RDINT"}]
       [] func \in {6, 7} -> StoreC(OP.branch, IF func = 6 THEN BEQ ELSE BNE, RegC(raw, 7), 0, ImmCB(raw))

\* C.MV C.JR, and C.ADD C.JALR C.EBREAK
decode_c2_jump(raw) ==
  LET r == get_rd(raw)
      s == GET_BITS_AT(raw, 2, 5)
  IN CASE SignC(raw) = 0 /\ s # 0 -> C(OP.opimm, RV64IntOP73.ADD, r, s, 0)
       [] SignC(raw) = 0 /\ s = 0 -> C(OP.jalr, 0, 0, r, 0)
       [] SignC(raw) = 1 /\ s # 0 -> [C(OP.op, RV64IntOP73.ADD, r, r, 0)
                                        EXCEPT !.rs2 = s, !.flag = @ \cup {"S2INT"}]
       [] SignC(raw) = 1 /\ s = 0 /\ r # 0 -> C(OP.jalr, 0, 1, r, 0)
       [] OTHER -> [C(OP.system, 0, 0, 0, 0) EXCEPT !.flag = {"RVC", "EBREAK", "UNIQUE"}]
\* C.SLLI C.FLDSP C.LWSP C.LDSP C.FSDSP C.SWSP C.SDSP
decode_c2(raw, func) ==
  LET r == get_rd(raw)
      s == GET_BITS_AT(raw, 2, 5)
      lwsp == 64 * GET_BITS_AT(raw, 2, 2) + 4 * GET_BITS_AT(raw, 4, 3) + 32 * SignC(raw)
      swsp == 64 * GET_BITS_AT(raw, 7, 2) + 4 * GET_BITS_AT(raw, 9, 4)
  IN CASE func = 0 -> IF r # 0 THEN C(OP.opimm, RV64IntOP73.SLL, r, r, Shamt(raw)) ELSE NotDecoded
       [] func = 1 -> C(OP.loadfp, LSDword, r, 2, ImmDSP(raw))
       [] func = 2 -> C(OP.load, LSWord, r, 2, lwsp)
       [] func = 3 -> C(OP.load, LSDword, r, 2, ImmDSP(raw))
       [] func = 4 -> decode_c2_jump(raw)
       [] func = 5 -> StoreC(OP.storefp, LSDword, 2, s, ImmDSPStore(raw))
       [] func = 6 -> StoreC(OP.store, LSWord, 2, s, swsp)
       [] func = 7 -> StoreC(OP.store, LSDword, 2, s, ImmDSPStore(raw))

decode_rv64c(raw) ==
  LET func == GET_BITS_AT(raw, 13, 3)
  IN CASE raw % 4 = 0 -> decode_c0(raw, func)
       [] raw % 4 = 1 -> decode_c1(raw, func)
       [] raw % 4 = 2 -> decode_c2(raw, func)

decode_full(raw) ==
  LET op == get_opcode(raw)
      with(d, flags) == [d EXCEPT !.flag = flags]
  IN CASE op \in {OP.lui, OP.auipc}      -> with(parse_inst_U(op, raw), {"RDINT"})
       [] op = OP.jal                    -> with(parse_inst_J(op, raw), {"RDINT"})
       [] op = OP.jalr -> [parse_inst_I(op, raw) EXCEPT !.param = <<0>>, !.flag = {"RDINT", "S1INT"}]
       [] op = OP.branch                 -> with(parse_inst_B(op, raw), {"S1INT", "S2INT"})
       [] op = OP.load                   -> with(parse_inst_I(op, raw), {"RDINT", "S1INT"})
       [] op = OP.loadfp                 -> with(parse_inst_I(op, raw), {"RDFP", "S1INT"})
       [] op = OP.store                  -> with(parse_inst_S(op, raw), {"S1INT", "S2INT"})
       [] op = OP.storefp                -> with(parse_inst_S(op, raw), {"S1INT", "S2FP"})
       [] op \in {OP.opimm, OP.opimm32}  -> decode_opimm(op, raw)
       [] op \in {OP.op, OP.op32}        -> decode_op(op, raw)
       [] op = OP.amo                    -> decode_amo(raw)
       [] op = OP.opfp                   -> decode_opfp(raw)
       [] op \in {OP.madd, OP.msub, OP.nmsub, OP.nmadd} -> decode_fma(op, raw)
       [] op = OP.miscmem                -> decode_miscmem(raw)
       [] op = OP.system                 -> decode_system(raw)
       [] OTHER                          -> NotDecoded
decode_rv64(raw) == IF isRVC(raw) THEN decode_rv64c(raw) ELSE decode_full(raw)
-----------------------------------------------------------------------------
(* The looks at undecoded words *)

FieldC(inst, func, low7) == GET_BITS_AT(inst, 13, 3) = func /\ GET_BITS_AT(inst, 0, 7) = low7
QuadC(inst, func) == inst % 4 = 1 /\ GET_BITS_AT(inst, 13, 3) = func

pdec_isifence(inst) == get_opcode(inst) = OP.miscmem /\ get_funct3(inst) = 1
pdec_isJ(inst) ==
  IF isRVC(inst) THEN QuadC(inst, 5) \/ FieldC(inst, 4, 2) ELSE get_opcode(inst) \in {OP.jal, OP.jalr}
pdec_isJR(inst) ==
  IF isRVC(inst) THEN FieldC(inst, 4, 2) /\ get_rd(inst) # 0 ELSE get_opcode(inst) = OP.jalr
pdec_isJI(inst) == IF isRVC(inst) THEN QuadC(inst, 5) ELSE get_opcode(inst) = OP.jal
pdec_isCALLI(inst) == get_opcode(inst) = OP.jal /\ get_rd(inst) = 1
\* (faulty: c.jr counts as a call as well)
CallsByAnyJump(inst) ==
  IF isRVC(inst) THEN FieldC(inst, 4, 2) /\ get_rd(inst) # 0
  ELSE get_opcode(inst) = OP.jalr /\ get_rd(inst) = 1
pdec_isCALLR(inst) ==
  IF isRVC(inst) THEN FieldC(inst, 4, 2) /\ SignC(inst) = 1 /\ get_rd(inst) # 0
  ELSE get_opcode(inst) = OP.jalr /\ get_rd(inst) = 1
pdec_isRET(inst) ==
  IF isRVC(inst) THEN FieldC(inst, 4, 2) /\ SignC(inst) = 0 /\ get_rd(inst) = 1
  ELSE get_opcode(inst) = OP.jalr /\ get_rd(inst) # 1 /\ get_rs1(inst) = 1
pdec_get_J_target(inst) == IF isRVC(inst) THEN ImmCJ(inst) ELSE get_imm_J(inst)
pdec_isB(inst) ==
  IF isRVC(inst) THEN QuadC(inst, 6) \/ QuadC(inst, 7) ELSE get_opcode(inst) = OP.branch
pdec_get_B_target(inst) == IF isRVC(inst) THEN ImmCB(inst) ELSE get_imm_B(inst)

\* What the check of a fetched pack takes each instruction for.
cur_pred_check_inst(inst) ==
  LET is == CASE pdec_isB(inst)  -> {"B"}
              [] pdec_isJI(inst) -> {"JAL"} \cup (IF pdec_isCALLI(inst) THEN {"CALL"} ELSE {})
              [] pdec_isJR(inst) -> {"JALR"} \cup (IF pdec_isCALLR(inst) THEN {"CALL"}
                                                  ELSE IF pdec_isRET(inst) THEN {"RET"} ELSE {})
              [] OTHER           -> {}
  IN [is |-> is, len |-> IF isRVC(inst) THEN 2 ELSE 4,
      target |-> IF "B" \in is THEN pdec_get_B_target(inst)
                 ELSE IF "JAL" \in is THEN pdec_get_J_target(inst) ELSE 0]
-----------------------------------------------------------------------------
(* The instruction set, as its manual has it: where a format keeps its     *)
(* registers and the bits of its immediate.                                *)

\* Bit n of a word or an immediate; bit 31 is the sign of a word.
Weight(n) == IF n = 31 THEN -(2^30) - 2^30 ELSE 2^n
BitsSum(B) == FoldSet(LAMBDA n, sum : sum + Weight(n), 0, B)
PlacedBits(v, at) == {at + n : n \in {m \in 0 .. 6 : GET_BITS_AT(v, m, 1) = 1}}
Down(a, b) == [k \in 1 .. a - b + 1 |-> a - k + 1]

\* Registers that take five bits at a place, or three for x8 to x15, or none for sp.
Some == {0, 1, 2, 21}
R5(at) == [at |-> at, from |-> 0, regs |-> Some]
N5(at) == [at |-> at, from |-> 0, regs |-> Some \ {0}]
R3(at) == [at |-> at, from |-> 8, regs |-> {8, 10, 15}]
Sp == [at |-> 0, from |-> 2, regs |-> {2}]

\* A format: what it is, its fixed bits, its registers and which of them (0 for x0) are rd,
\* rs1 and rs2; runs of bits of the word, each with the bits of the immediate it holds; the
\* bit of the immediate that is its sign, or 0.
Form(opcode, param, bits, regs, d, s1, s2, runs, sign) ==
  [opcode |-> opcode, param |-> param, bits |-> bits, regs |-> regs, d |-> d, s1 |-> s1, s2 |-> s2,
   runs |-> runs, sign |-> sign]
Cx(quad, func, more) == PlacedBits(quad, 0) \cup PlacedBits(func, 13) \cup more
Full(opcode, funct3, more) == PlacedBits(opcode, 0) \cup PlacedBits(funct3, 12) \cup more
I == RV64IntOP73
ImmC(a, b) == <<<<12, a>>, <<6, b>>>>
CB == <<<<12, <<8, 4, 3>>>>, <<6, <<7, 6, 2, 1, 5>>>>>>
IRuns == <<<<31, Down(11, 0)>>>>
SRuns == <<<<31, Down(11, 5)>>, <<11, Down(4, 0)>>>>
BRuns == <<<<31, <<12>> \o Down(10, 5)>>, <<11, Down(4, 1) \o <<11>>>>>>

CompressedForms == {
  Form(OP.opimm, I.ADD, Cx(0, 0, {}), <<R3(2), Sp>>, 1, 2, 0, <<<<12, <<5, 4, 9, 8, 7, 6, 2, 3>>>>>>, 0),
  Form(OP.loadfp, LSDword, Cx(0, 1, {}), <<R3(2), R3(7)>>, 1, 2, 0, ImmC(Down(5, 3), <<7, 6>>), 0),
  Form(OP.load, LSWord, Cx(0, 2, {}), <<R3(2), R3(7)>>, 1, 2, 0, ImmC(Down(5, 3), <<2, 6>>), 0),
  Form(OP.load, LSDword, Cx(0, 3, {}), <<R3(2), R3(7)>>, 1, 2, 0, ImmC(Down(5, 3), <<7, 6>>), 0),
  Form(OP.storefp, LSDword, Cx(0, 5, {}), <<R3(2), R3(7)>>, 0, 2, 1, ImmC(Down(5, 3), <<7, 6>>), 0),
  Form(OP.store, LSWord, Cx(0, 6, {}), <<R3(2), R3(7)>>, 0, 2, 1, ImmC(Down(5, 3), <<2, 6>>), 0),
  Form(OP.store, LSDword, Cx(0, 7, {}), <<R3(2), R3(7)>>, 0, 2, 1, ImmC(Down(5, 3), <<7, 6>>), 0),
  Form(OP.opimm, I.ADD, Cx(1, 0, {}), <<R5(7)>>, 1, 1, 0, ImmC(<<5>>, Down(4, 0)), 5),
  Form(OP.opimm32, I.ADD, Cx(1, 1, {}), <<R5(7)>>, 1, 1, 0, ImmC(<<5>>, Down(4, 0)), 5),
  Form(OP.lui, 0, Cx(1, 2, {}), <<N5(7)>>, 1, 0, 0, ImmC(<<5>>, Down(4, 0)), 5),
  Form(OP.opimm, I.ADD, Cx(1, 3, {8}), <<Sp>>, 1, 1, 0, ImmC(<<9>>, <<4, 6, 8, 7, 5>>), 9),
  Form(OP.lui, 0, Cx(1, 3, {}), <<[N5(7) EXCEPT !.regs = @ \ {2}]>>, 1, 0, 0, ImmC(<<17>>, Down(16, 12)), 17),
  Form(OP.opimm, I.SRL, Cx(1, 4, {}), <<R3(7)>>, 1, 1, 0, ImmC(<<5>>, Down(4, 0)), 0),
  Form(OP.opimm, I.SRA, Cx(1, 4, {10}), <<R3(7)>>, 1, 1, 0, ImmC(<<5>>, Down(4, 0)), 0),
  Form(OP.opimm, I.AND, Cx(1, 4, {11}), <<R3(7)>>, 1, 1, 0, ImmC(<<5>>, Down(4, 0)), 5),
  Form(OP.jal, 0, Cx(1, 5, {}), <<>>, 0, 0, 0, <<<<12, <<11, 4, 9, 8, 10, 6, 7, 3, 2, 1, 5>>>>>>, 11),
  Form(OP.branch, BEQ, Cx(1, 6, {}), <<R3(7)>>, 0, 1, 0, CB, 8),
  Form(OP.branch, BNE, Cx(1, 7, {}), <<R3(7)>>, 0, 1, 0, CB, 8),
  Form(OP.opimm, I.SLL, Cx(2, 0, {}), <<N5(7)>>, 1, 1, 0, ImmC(<<5>>, Down(4, 0)), 0),
  Form(OP.loadfp, LSDword, Cx(2, 1, {}), <<R5(7), Sp>>, 1, 2, 0, ImmC(<<5>>, <<4, 3, 8, 7, 6>>), 0),
  Form(OP.load, LSWord, Cx(2, 2, {}), <<R5(7), Sp>>, 1, 2, 0, ImmC(<<5>>, <<4, 3, 2, 7, 6>>), 0),
  Form(OP.load, LSDword, Cx(2, 3, {}), <<R5(7), Sp>>, 1, 2, 0, ImmC(<<5>>, <<4, 3, 8, 7, 6>>), 0),
  Form(OP.jalr, 0, Cx(2, 4, {}), <<N5(7)>>, 0, 1, 0, <<>>, 0),
  Form(OP.opimm, I.ADD, Cx(2, 4, {}), <<R5(7), N5(2)>>, 1, 2, 0, <<>>, 0),
  Form(OP.jalr, 0, Cx(2, 4, {12}), <<N5(7), [Sp EXCEPT !.from = 1, !.regs = {1}]>>, 2, 1, 0, <<>>, 0),
  Form(OP.op, I.ADD, Cx(2, 4, {12}), <<R5(7), N5(2)>>, 1, 1, 2, <<>>, 0),
  Form(OP.storefp, LSDword, Cx(2, 5, {}), <<R5(2), Sp>>, 0, 2, 1, <<<<12, <<5, 4, 3, 8, 7, 6>>>>>>, 0),
  Form(OP.store, LSWord, Cx(2, 6, {}), <<R5(2), Sp>>, 0, 2, 1, <<<<12, <<5, 4, 3, 2, 7, 6>>>>>>, 0),
  Form(OP.store, LSDword, Cx(2, 7, {}), <<R5(2), Sp>>, 0, 2, 1, <<<<12, <<5, 4, 3, 8, 7, 6>>>>>>, 0)}
  \cup {Form(IF 12 \in f.bits THEN OP.op32 ELSE OP.op, f.op, Cx(1, 4, {10, 11} \cup f.bits),
            <<R3(7), R3(2)>>, 1, 1, 2, <<>>, 0) :
          f \in {[op |-> I.SUB, bits |-> {}], [op |-> I.XOR, bits |-> {5}], [op |-> I.OR, bits |-> {6}],
                 [op |-> I.AND, bits |-> {5, 6}], [op |-> I.SUB, bits |-> {12}], [op |-> I.ADD, bits |-> {5, 12}]}}

RegsI == <<R5(7), R5(15)>>
RegsS == <<R5(15), R5(20)>>
RegsR == <<R5(7), R5(15), R5(20)>>
FullForms ==
  {Form(op, 0, Full(op, 0, {}), <<R5(7)>>, 1, 0, 0, <<<<31, Down(31, 12)>>>>, 31) : op \in {OP.lui, OP.auipc}}
  \cup {Form(OP.jal, 0, Full(OP.jal, 0, {}), <<R5(7)>>, 1, 0, 0,
             <<<<31, <<20>> \o Down(10, 1) \o <<11>> \o Down(19, 12)>>>>, 20)}
  \cup {Form(OP.jalr, 0, Full(OP.jalr, 0, {}), RegsI, 1, 2, 0, IRuns, 11)}
  \cup {Form(op, f, Full(op, f, {}), RegsI, 1, 2, 0, IRuns, 11) : op \in {OP.load, OP.loadfp}, f \in {2, 3}}
  \cup {Form(OP.opimm, f, Full(OP.opimm, f, {}), RegsI, 1, 2, 0, IRuns, 11) : f \in {I.ADD, I.AND}}
  \cup {Form(OP.opimm32, I.ADD, Full(OP.opimm32, I.ADD, {}), RegsI, 1, 2, 0, IRuns, 11)}
  \cup {Form(OP.opimm, f, Full(OP.opimm, f % 8, PlacedBits(f \div 8, 25)), RegsI, 1, 2, 0,
             <<<<25, Down(5, 0)>>>>, 0) : f \in {I.SLL, I.SRL, I.SRA}}
  \cup {Form(OP.opimm32, f, Full(OP.opimm32, f % 8, PlacedBits(f \div 8, 25)), RegsI, 1, 2, 0,
             <<<<24, Down(4, 0)>>>>, 0) : f \in {I.SLL, I.SRA}}
  \cup {Form(op, f, Full(op, f, {}), RegsS, 0, 1, 2, SRuns, 11) : op \in {OP.store, OP.storefp}, f \in {2, 3}}
  \cup {Form(OP.branch, f, Full(OP.branch, f, {}), RegsS, 0, 1, 2, BRuns, 12) : f \in {BEQ, BNE, 6}}
  \cup {Form(op, f, Full(op, f % 8, PlacedBits(f \div 8, 25)), RegsR, 1, 2, 3, <<>>, 0) :
           op \in {OP.op, OP.op32}, f \in {I.ADD, I.SUB, I.SRA, 8, 12}}

\* The registers an instruction has to do with.
Uses(form) ==
  LET op == form.opcode
  IN (IF op \in {OP.loadfp} THEN {"RDFP"}
      ELSE IF op \in {OP.store, OP.storefp, OP.branch} THEN {} ELSE {"RDINT"})
     \cup (IF op \in {OP.lui, OP.auipc, OP.jal} THEN {} ELSE {"S1INT"})
     \cup (IF op = OP.storefp THEN {"S2FP"}
           ELSE IF op \in {OP.store, OP.branch, OP.op, OP.op32} THEN {"S2INT"} ELSE {})
ImmBits(form) == UNION {ToSet(form.runs[k][2]) : k \in DOMAIN form.runs}
\* One register or two runs of choices at a time: every choice for each register.
Operands(form) ==
  CASE Len(form.regs) = 0 -> {<<>>}
    [] Len(form.regs) = 1 -> {<<a>> : a \in form.regs[1].regs}
    [] Len(form.regs) = 2 -> form.regs[1].regs \X form.regs[2].regs
    [] Len(form.regs) = 3 -> form.regs[1].regs \X form.regs[2].regs \X form.regs[3].regs
\* Immediates with no bit, one bit, or all: what moves a bit wrongly shows in one of them.
Immediates(form) == {{}, ImmBits(form)} \cup {{n} : n \in ImmBits(form)}
Formed ==
  UNION {[form : {f}, regs : Operands(f), imm : Immediates(f)] : f \in CompressedForms \cup FullForms}

Assembled(w) ==
  LET placed(k) == {w.form.runs[k][1] + 1 - n : n \in {m \in DOMAIN w.form.runs[k][2] :
                                                      w.form.runs[k][2][m] \in w.imm}}
      reg(k) == PlacedBits(w.regs[k] - w.form.regs[k].from, w.form.regs[k].at)
  IN BitsSum(w.form.bits \cup UNION {placed(k) : k \in DOMAIN w.form.runs}
                        \cup UNION {reg(k) : k \in DOMAIN w.regs})
Register(w, k) == IF k = 0 THEN 0 ELSE w.regs[k]
Immediate(w) ==
  IF w.form.sign \in w.imm /\ w.form.sign # 0
  THEN BitsSum(w.imm \ {w.form.sign}) - 2^(w.form.sign - 1) - 2^(w.form.sign - 1) ELSE BitsSum(w.imm)
-----------------------------------------------------------------------------
\* One word at a time is decoded.
CONSTANT DecWords  \* words besides the ones of the formats: system instructions, reserved ones

VARIABLES
  written, \* (history) the instruction that was assembled, or {} for a word of DecWords
  word,    \* its word
  hint,    \* what the fetch stage takes it for
  dec      \* what the decoder makes of it
decodeVars == <<written, word, hint, dec>>

StartsWith(ws, inst) == /\ written = ws /\ word = inst
                        /\ hint = [is |-> {}, len |-> 0, target |-> 0] /\ dec = DecNop
decodeInit == \/ \E w \in Formed : StartsWith({w}, Assembled(w))
              \/ \E inst \in DecWords : StartsWith({}, inst)
DecodeWord ==
  /\ hint.len = 0
  /\ hint' = cur_pred_check_inst(word)
  /\ dec' = decode_rv64(word)
  /\ UNCHANGED <<written, word>>

\* Every instruction, compressed or not, is decoded to what its format says: the operation,
\* the registers, whether it reads and writes them, and the immediate with its sign.  The
\* compressed floating point accesses are left with the flags of integer ones, c.fsd even
\* with the opcode: for these only registers, width and offset are right.
DecodesAsWritten ==
  hint.len # 0 => \A w \in written :
    LET compressed == isRVC(word)
        fp == compressed /\ w.form.opcode \in {OP.loadfp, OP.storefp}
    IN /\ dec.ok
       /\ <<dec.rd, dec.rs1, dec.rs2, dec.rs3>>
            = <<Register(w, w.form.d), Register(w, w.form.s1), Register(w, w.form.s2), 0>>
       /\ dec.imm = Immediate(w)
       /\ Head(dec.param) = IF w.form.opcode \in {OP.lui, OP.auipc, OP.jal, OP.jalr} THEN 0 ELSE w.form.param
       /\ ~fp => /\ dec.opcode = w.form.opcode
                 /\ dec.flag = Uses(w.form) \cup (IF compressed THEN {"RVC"} ELSE {})

\* What the fetch stage believes of a word is what the decoder makes of it: where the next
\* instruction is, whether it branches or jumps and whither, and whether it calls or returns,
\* which are jumps that leave ra or go to it.  The assertions of the out of order core and
\* its return stack rest on that; c.jr x0, which is reserved, is the one exception.
PredecodeAgrees ==
  hint.len # 0 /\ dec.ok =>
    LET jump == dec.opcode \in {OP.jal, OP.jalr}
        reserved == dec.opcode = OP.jalr /\ isRVC(word) /\ dec.rs1 = 0
    IN /\ hint.len = IF "RVC" \in dec.flag THEN 2 ELSE 4
       /\ "B" \in hint.is <=> dec.opcode = OP.branch
       /\ "JAL" \in hint.is <=> dec.opcode = OP.jal
       /\ "JALR" \in hint.is <=> dec.opcode = OP.jalr /\ ~reserved
       /\ "CALL" \in hint.is <=> jump /\ dec.rd = 1
       /\ "RET" \in hint.is <=> dec.opcode = OP.jalr /\ dec.rd # 1 /\ dec.rs1 = 1
       /\ hint.is \cap {"B", "JAL"} # {} => hint.target = dec.imm
       /\ pdec_isJ(word) <=> jump \/ (isRVC(word) /\ "EBREAK" \in dec.flag)
       /\ pdec_isifence(word) <=> "FENCEI" \in dec.flag
=============================================================================
