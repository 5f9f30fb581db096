--------------------------- MODULE IntOperations ---------------------------
(***************************************************************************)
(* The integer operations of cpu/operation.cpp, on registers of XLen bits  *)
(* and words of half of them (64 and 32 in the code), against what the     *)
(* instruction set says of them.  A register holds 0 .. 2^XLen - 1, the    *)
(* value of its bits; the code reads the same bits as signed or unsigned.  *)
(***************************************************************************)
EXTENDS Integers

CONSTANT XLen
ASSUME XLenAssumption == XLen \in Nat \ {0} /\ XLen % 2 = 0

WLen == XLen \div 2
Size(w) == 2 ^ w
Numbers == 0 .. Size(XLen) - 1

\* RAW_DATA_AS: the low w bits of v as an unsigned and as a signed number, and back.
Unsigned(v, w) == v % Size(w)
Signed(v, w) == LET n == Unsigned(v, w) IN IF n >= Size(w - 1) THEN n - Size(w) ELSE n
Raw(n) == n % Size(XLen)

Abs(n) == IF n < 0 THEN -n ELSE n
Sign(n) == IF n < 0 THEN -1 ELSE 1
\* The quotient and the remainder of C, which round towards zero.
CDiv(a, b) == Sign(a) * Sign(b) * (Abs(a) \div Abs(b))
CMod(a, b) == a - b * CDiv(a, b)

Bit(v, n) == (v \div 2 ^ n) % 2
Bitwise(f, w) == LET sum[n \in 0 .. w] == IF n = 0 THEN 0 ELSE sum[n - 1] + f[n - 1] * 2 ^ (n - 1)
                 IN sum[w]

NoResult == -1    \* SimError::devidebyzero and unsupported; the callers assert success

Logic(op, a, b) ==
  Bitwise([n \in 0 .. XLen - 1 |->
             CASE op = "XOR" -> (Bit(a, n) + Bit(b, n)) % 2
               [] op = "OR"  -> IF Bit(a, n) + Bit(b, n) > 0 THEN 1 ELSE 0
               [] op = "AND" -> Bit(a, n) * Bit(b, n)], XLen)

Divisions == {"DIV", "DIVU", "REM", "REMU"}
\* The divisor is compared with 0 at full width; the host traps on the other two.
NoDivision(op, a, b, w) ==
  \/ b = 0 \/ Unsigned(b, w) = 0
  \/ op \in {"DIV", "REM"} /\ Signed(a, w) = -Size(w - 1) /\ Signed(b, w) = -1
Divide(op, a, b, w) ==
  CASE NoDivision(op, a, b, w) -> NoResult
    [] op = "DIV"  -> Raw(CDiv(Signed(a, w), Signed(b, w)))
    [] op = "DIVU" -> Raw(Unsigned(a, w) \div Unsigned(b, w))
    [] op = "REM"  -> Raw(CMod(Signed(a, w), Signed(b, w)))
    [] op = "REMU" -> Raw(Unsigned(a, w) % Unsigned(b, w))

\* tmp_mulh: the product in twice the width, shifted down; >> rounds down, as \div does.
MulhNarrow(x, y) == Raw(Raw(x * y) \div Size(XLen))   \* (faulty: the product in a register's width)
Mulh(x, y) == Raw((x * y) \div Size(XLen))

perform_int_op_64(op, a, b) ==
  LET sh == 2 ^ (b % XLen) IN
  CASE op = "ADD"    -> Raw(a + b)
    [] op = "SUB"    -> Raw(a - b)
    [] op = "SLL"    -> Raw(a * sh)
    [] op = "SLT"    -> IF Signed(a, XLen) < Signed(b, XLen) THEN 1 ELSE 0
    [] op = "SLTU"   -> IF a < b THEN 1 ELSE 0
    [] op \in {"XOR", "OR", "AND"} -> Logic(op, a, b)
    [] op = "SRL"    -> a \div sh
    [] op = "SRA"    -> Raw(Signed(a, XLen) \div sh)
    [] op = "MUL"    -> Raw(a * b)
    [] op = "MULH"   -> Mulh(Signed(a, XLen), Signed(b, XLen))
    [] op = "MULHSU" -> Mulh(Signed(a, XLen), b)
    [] op = "MULHU"  -> Mulh(a, b)
    [] op \in Divisions -> Divide(op, a, b, XLen)

perform_int_op_32(op, a, b) ==
  LET sh == 2 ^ (b % WLen)
      x == Signed(a, WLen)  y == Signed(b, WLen) IN
  CASE op = "ADD" -> Raw(Signed(x + y, WLen))
    [] op = "SUB" -> Raw(Signed(x - y, WLen))
    [] op = "SLL" -> Raw(Signed(x * sh, WLen))
    [] op = "SRL" -> LET v == Unsigned(a, WLen) \div sh
                     IN IF v >= Size(WLen - 1) THEN v + Size(XLen) - Size(WLen) ELSE v
    [] op = "SRA" -> Raw(x \div sh)
    [] op = "MUL" -> Raw(Signed(x * y, WLen))
    [] op \in Divisions -> Divide(op, a, b, WLen)

perform_branch_op_64(op, a, b) ==
  CASE op = "BEQ"  -> a = b
    [] op = "BNE"  -> a # b
    [] op = "BLT"  -> Signed(a, XLen) < Signed(b, XLen)
    [] op = "BGE"  -> Signed(a, XLen) >= Signed(b, XLen)
    [] op = "BLTU" -> a < b
    [] op = "BGEU" -> a >= b

\* s1 is the value in memory, s2 the operand; the word operations have no XOR.
perform_amo_op(op, w, s1, s2) ==
  LET x == Signed(s1, w)  y == Signed(s2, w) IN
  CASE op = "ADD"  -> Raw(Signed(x + y, w))
    [] op \in {"AND", "OR"} -> Logic(op, Raw(x), Raw(y))
    [] op = "MAX"  -> Raw(IF x < y THEN y ELSE x)
    [] op = "MIN"  -> Raw(IF y < x THEN y ELSE x)
    [] op = "MAXU" -> IF Unsigned(s1, w) < Unsigned(s2, w) THEN Unsigned(s2, w) ELSE Unsigned(s1, w)
    [] op = "MINU" -> IF Unsigned(s2, w) < Unsigned(s1, w) THEN Unsigned(s2, w) ELSE Unsigned(s1, w)
    [] op = "SWAP" -> s2
    [] op = "XOR"  -> NoResult

\* The same on the memory shared with the proxy library, which the scheduler does itself: the
\* word that is there after it.  It knows no swap (the assertion fails), and the old word it
\* gives the register has no sign extended.
DevAmoOps == {"ADD", "AND", "OR", "MAX", "MIN", "MAXU", "MINU"}
dev_amo(op, w, mem, src) ==
  LET x == Signed(mem, w)    y == Signed(src, w)
      u == Unsigned(mem, w)  v == Unsigned(src, w) IN
  CASE op = "ADD"  -> Unsigned(mem + src, w)
    [] op \in {"AND", "OR"} -> Unsigned(Logic(op, mem, src), w)
    [] op = "MAX"  -> Unsigned(IF x < y THEN y ELSE x, w)
    [] op = "MIN"  -> Unsigned(IF y < x THEN y ELSE x, w)
    [] op = "MAXU" -> IF u < v THEN v ELSE u
    [] op = "MINU" -> IF v < u THEN v ELSE u
-----------------------------------------------------------------------------
\* Two operands, and what the operations on them give: of the integer units, of the atomic
\* memory operations, and of those the scheduler does itself.
VARIABLES operands, result
operationVars == <<operands, result>>

Widths == {XLen, WLen}
ShortOps == {"ADD", "SUB", "SLL", "SRL", "SRA", "MUL"} \cup Divisions
LongOps == ShortOps \cup {"SLT", "SLTU", "XOR", "OR", "AND", "MULH", "MULHSU", "MULHU"}
BranchOps == {"BEQ", "BNE", "BLT", "BGE", "BLTU", "BGEU"}
AmoOps == {"ADD", "SWAP", "XOR", "AND", "OR", "MIN", "MAX", "MINU", "MAXU"}
OpsOf(w) == IF w = XLen THEN LongOps ELSE ShortOps
Does(op, w, a, b) == IF w = XLen THEN perform_int_op_64(op, a, b) ELSE perform_int_op_32(op, a, b)

NoResults == [op \in {} |-> NoResult]
StartsWithOperands(o) ==
  /\ operands = o
  /\ result = [int |-> NoResults, branch |-> NoResults, amo |-> NoResults, dev |-> NoResults]
intInit == \E o \in [w : Widths, a : Numbers, b : Numbers] : StartsWithOperands(o)
perform ==
  LET w == operands.w  a == operands.a  b == operands.b IN
  /\ result.int = NoResults
  /\ result' = [int |-> [op \in OpsOf(w) |-> Does(op, w, a, b)],
                branch |-> [op \in BranchOps |-> perform_branch_op_64(op, a, b)],
                amo |-> [op \in AmoOps |-> perform_amo_op(op, w, a, b)],
                dev |-> [op \in DevAmoOps |-> dev_amo(op, w, a, b)]]
  /\ UNCHANGED operands

\* The bits of v, without end: zeros or copies of the sign follow.
BitOf(v, n, w, signed) == IF n < w THEN Bit(v, n) ELSE IF signed THEN Bit(v, w - 1) ELSE 0

\* Every operation gives what the instruction set says of it: a word operation a word
\* with its sign extended; a shift the bits in their new places; the two halves of a
\* product together the product; quotient and remainder a division that rounds towards
\* zero; comparisons the sign of the exact difference.  The divisions without a result
\* and the unsigned ones of words with the sign bit set, which the code leaves
\* without their sign, are named as they are.
OperationExact ==
  \A op \in DOMAIN result.int :
    LET w == operands.w  a == operands.a  b == operands.b
        r == result.int[op]
        other(o) == result.int[o]
        sh == b % w
        div(q, m, x, y) == /\ x = q * y + m /\ Abs(m) < Abs(y)
                           /\ m = 0 \/ Sign(m) = Sign(x)
        lost == op \in Divisions /\ NoDivision(op, a, b, w)
    IN /\ r = NoResult <=> lost
       /\ r # NoResult => r \in Numbers
       /\ w = WLen /\ ~(op \in {"DIVU", "REMU"} /\ r >= Size(WLen - 1)) /\ ~lost
            => r = Raw(Signed(r, WLen))
       /\ op \in {"ADD", "SUB"} => (r - (IF op = "ADD" THEN a + b ELSE a - b)) % Size(w) = 0
       /\ op \in {"SLL", "SRL", "SRA"} => \A n \in 0 .. w - 1 :
            Bit(r, n) = IF op = "SLL" THEN (IF n < sh THEN 0 ELSE Bit(a, n - sh))
                                      ELSE BitOf(a, n + sh, w, op = "SRA")
       /\ op = "SLT" => (r = 1 <=> Signed(a, w) - Signed(b, w) < 0)
       /\ op = "SLTU" => (r = 1 <=> a - b < 0)
       /\ op = "XOR" => \A n \in 0 .. w - 1 : Bit(r, n) = (Bit(a, n) - Bit(b, n)) % 2
       /\ op = "AND" => r + other("OR") = a + b
       /\ op = "MUL" => (r - a * b) % Size(w) = 0
       /\ op = "MULH"   => Signed(r, w) * Size(w) + other("MUL") = Signed(a, w) * Signed(b, w)
       /\ op = "MULHSU" => Signed(r, w) * Size(w) + other("MUL") = Signed(a, w) * b
       /\ op = "MULHU"  => r * Size(w) + other("MUL") = a * b
       /\ op = "DIV" /\ ~lost => div(Signed(r, w), Signed(other("REM"), w), Signed(a, w), Signed(b, w))
       /\ op = "DIVU" /\ ~lost =>
            div(Unsigned(r, w), Unsigned(other("REMU"), w), Unsigned(a, w), Unsigned(b, w))

\* A branch is taken when the comparison of the integer operations says so.
BranchExact ==
  \A op \in DOMAIN result.branch :
    LET a == operands.a  b == operands.b
        less == perform_int_op_64("SLT", a, b) = 1
        below == perform_int_op_64("SLTU", a, b) = 1
    IN result.branch[op] <=> CASE op = "BEQ" -> a = b [] op = "BNE" -> a # b
                               [] op = "BLT" -> less [] op = "BGE" -> ~less
                               [] op = "BLTU" -> below [] op = "BGEU" -> ~below

\* An atomic operation leaves the same word whether the core or the scheduler does it.
DeviceSame == \A op \in DOMAIN result.dev : result.dev[op] = Unsigned(result.amo[op], operands.w)
=============================================================================
