--------------------------- MODULE FabricProofs ----------------------------
(***************************************************************************)
(* The tick queues and the lock of the MSHR arrays, for any sizes and any  *)
(* number of threads.                                                      *)
(***************************************************************************)
EXTENDS TickQueue, SpinRWLock, SequenceTheorems, FiniteSetTheorems, TLAPS

(* SimpleTickQueue for every width, length and rounding of the buffer: its regions
   agree with its counters, a full queue is not taken for an empty one, and it is the
   queue TickFifo promises. *)

(* Arithmetic modulo the buffer's length. *)

LEMMA DivMod ==
  ASSUME NEW n \in Nat, NEW L \in Nat, L > 0
  PROVE  /\ n \div L \in Int
         /\ n % L \in 0 .. L - 1
         /\ n = L * (n \div L) + (n % L)
OBVIOUS

LEMMA ProductNat ==
  ASSUME NEW a \in Nat, NEW b \in Nat
  PROVE  a * b \in Nat
OBVIOUS

LEMMA ModBelow ==
  ASSUME NEW n \in Nat, NEW L \in Nat, n < L
  PROVE  n % L = n
<1> DEFINE d == n \div L
<1>1. d \in Int /\ n % L \in 0 .. L - 1 /\ n = L * d + (n % L)
  BY DivMod
<1> HIDE DEF d
<1>2. CASE d >= 1
  <2>1. L * (d - 1) \in Nat
    BY <1>1, <1>2, ProductNat
  <2> QED BY <2>1, <1>1
<1>3. CASE d <= -1
  <2>1. L * (-1 - d) \in Nat
    BY <1>1, <1>3, ProductNat
  <2> QED BY <2>1, <1>1
<1>4. CASE d = 0
  BY <1>1, <1>4
<1> QED BY <1>1, <1>2, <1>3, <1>4

LEMMA ModOnce ==
  ASSUME NEW n \in Nat, NEW L \in Nat, L <= n, n < 2 * L
  PROVE  n % L = n - L
<1> DEFINE d == n \div L
<1>1. d \in Int /\ n % L \in 0 .. L - 1 /\ n = L * d + (n % L)
  BY DivMod
<1> HIDE DEF d
<1>2. CASE d >= 2
  <2>1. L * (d - 2) \in Nat
    BY <1>1, <1>2, ProductNat
  <2> QED BY <2>1, <1>1
<1>3. CASE d <= 0
  <2>1. L * (0 - d) \in Nat
    BY <1>1, <1>3, ProductNat
  <2> QED BY <2>1, <1>1
<1>4. CASE d = 1
  BY <1>1, <1>4
<1> QED BY <1>1, <1>2, <1>3, <1>4

\* Moving a pointer of a ring of length L by at most L.
LEMMA Advance ==
  ASSUME NEW L \in Nat, NEW i \in 0 .. L - 1, NEW n \in 0 .. L
  PROVE  /\ (i + n) % L = IF i + n < L THEN i + n ELSE i + n - L
         /\ (i + n) % L \in 0 .. L - 1
<1>1. CASE i + n < L
  <2>1. (i + n) % L = i + n
    BY <1>1, ModBelow
  <2> QED BY <2>1, <1>1
<1>2. CASE ~(i + n < L)
  <2>1. i + n \in Nat /\ L <= i + n /\ i + n < 2 * L
    BY <1>2
  <2>2. (i + n) % L = i + n - L
    BY <2>1, ModOnce
  <2> QED BY <2>2, <1>2
<1> QED BY <1>1, <1>2

LEMMA AlignUp ==
  ASSUME NEW n \in Nat
  PROVE  ALIGN(n) \in Nat /\ ALIGN(n) >= n
<1> DEFINE m == n + Unit - 1
           d == m \div Unit
<1>1. m \in Nat /\ Unit \in Nat /\ Unit > 0
  BY UnitAssumption
<1>2. d \in Int /\ m % Unit \in 0 .. Unit - 1 /\ m = Unit * d + (m % Unit)
  BY <1>1, DivMod
<1> HIDE DEF d
<1>3. Unit * d \in Nat /\ Unit * d >= n
  BY <1>1, <1>2
<1> QED BY <1>3 DEF d, ALIGN

\* The buffer is at least twice as long as the queue can grow.
LEMMA LengthFits ==
  ASSUME shape \in Shapes
  PROVE  /\ iwid \in Nat /\ owid \in Nat /\ qsize \in Nat /\ iwid > 0 /\ owid > 0
         /\ len \in Nat /\ len >= 2 * (iwid + owid + qsize)
<1>1. iwid \in Nat \ {0} /\ owid \in Nat \ {0} /\ qsize \in Nat
  BY ShapesAssumption DEF shape
<1>2. (iwid + owid + qsize) * 2 \in Nat
  BY <1>1
<1>3. len \in Nat /\ len >= (iwid + owid + qsize) * 2
  BY <1>2, AlignUp DEF len
<1> QED BY <1>1, <1>3

(* The invariant. *)

QueueIInv == queueTypeOK /\ RegionsAgree

\* What the invariant says in terms of Advance's cases is used in every step.
LEMMA Ring ==
  ASSUME QueueIInv
  PROVE  /\ iwid \in Nat /\ owid \in Nat /\ qsize \in Nat /\ iwid > 0 /\ owid > 0
         /\ len \in Nat /\ len >= 2 * (iwid + owid + qsize)
         /\ bottom \in 0 .. len - 1 /\ q_bottom \in 0 .. len - 1
         /\ push_bottom \in 0 .. len - 1 /\ ptr \in 0 .. len - 1
         /\ pop_sz \in 0 .. owid /\ q_sz \in 0 .. qsize /\ push_sz \in 0 .. iwid
         /\ q_bottom = IF bottom + pop_sz < len THEN bottom + pop_sz
                                                ELSE bottom + pop_sz - len
         /\ push_bottom = IF q_bottom + q_sz < len THEN q_bottom + q_sz
                                                   ELSE q_bottom + q_sz - len
         /\ ptr = IF push_bottom + push_sz < len THEN push_bottom + push_sz
                                                 ELSE push_bottom + push_sz - len
<1>1. /\ iwid \in Nat /\ owid \in Nat /\ qsize \in Nat /\ iwid > 0 /\ owid > 0
      /\ len \in Nat /\ len >= 2 * (iwid + owid + qsize)
  BY LengthFits DEF QueueIInv, queueTypeOK
<1>2. /\ bottom \in 0 .. len - 1 /\ q_bottom \in 0 .. len - 1
      /\ push_bottom \in 0 .. len - 1 /\ ptr \in 0 .. len - 1
      /\ pop_sz \in 0 .. owid /\ q_sz \in 0 .. qsize /\ push_sz \in 0 .. iwid
  BY DEF QueueIInv, queueTypeOK
<1>3. pop_sz \in 0 .. len /\ q_sz \in 0 .. len /\ push_sz \in 0 .. len
  BY <1>1, <1>2
<1>4. /\ q_bottom = (bottom + pop_sz) % len
      /\ push_bottom = (q_bottom + q_sz) % len
      /\ ptr = (push_bottom + push_sz) % len
  BY DEF QueueIInv, RegionsAgree
<1>5. q_bottom = IF bottom + pop_sz < len THEN bottom + pop_sz
                                          ELSE bottom + pop_sz - len
  BY <1>1, <1>2, <1>3, <1>4, Advance
<1>6. push_bottom = IF q_bottom + q_sz < len THEN q_bottom + q_sz
                                             ELSE q_bottom + q_sz - len
  BY <1>1, <1>2, <1>3, <1>4, Advance
<1>7. ptr = IF push_bottom + push_sz < len THEN push_bottom + push_sz
                                           ELSE push_bottom + push_sz - len
  BY <1>1, <1>2, <1>3, <1>4, Advance
<1> QED BY <1>1, <1>2, <1>5, <1>6, <1>7

\* The amounts a tick moves between the regions are natural numbers (the subtractions
\* of the code do not wrap around), and together they are what TickFifo promises.
LEMMA Amounts ==
  ASSUME QueueIInv
  PROVE  /\ q2pop \in 0 .. q_sz
         /\ push2pop \in 0 .. push_sz
         /\ push2q \in 0 .. push_sz - push2pop
         /\ pop_sz + q2pop + push2pop = Lesser(owid, Size)
         /\ pop_sz + q_sz + push2pop + push2q
              = Lesser(pop_sz + q2pop + push2pop + qsize, Size)
         /\ q_sz - q2pop + push2q \in 0 .. qsize
<1>1. /\ owid \in Nat /\ qsize \in Nat /\ iwid \in Nat
      /\ pop_sz \in 0 .. owid /\ q_sz \in 0 .. qsize /\ push_sz \in 0 .. iwid
  BY Ring
<1>2. q2pop \in 0 .. q_sz /\ q2pop = Lesser(owid - pop_sz, q_sz)
  BY <1>1 DEF q2pop, Lesser
<1>3. push2pop \in 0 .. push_sz /\ push2pop = Lesser(owid - pop_sz - q2pop, push_sz)
  BY <1>1, <1>2 DEF push2pop, Lesser
<1>4. /\ push2q \in 0 .. push_sz - push2pop
      /\ push2q = Lesser(qsize - (q_sz - q2pop), push_sz - push2pop)
  BY <1>1, <1>2, <1>3 DEF push2q, Lesser
<1> QED BY <1>1, <1>2, <1>3, <1>4 DEF Lesser, Size

LEMMA PushInv ==
  ASSUME QueueIInv, NEW v \in Items, push(v)
  PROVE  QueueIInv'
<1> USE DEF push
<1>1. shape' = shape /\ len' = len
  BY DEF shape, len
<1>2. ptr' = IF ptr + 1 < len THEN ptr + 1 ELSE ptr + 1 - len
  <2>1. len \in Nat /\ ptr \in 0 .. len - 1 /\ 1 \in 0 .. len
    BY Ring
  <2> QED BY <2>1, Advance
<1>3. ptr' \in 0 .. len - 1 /\ push_sz' \in 0 .. iwid
  BY Ring, <1>2
<1>4. queueTypeOK'
  <2>1. buf' \in [0 .. len - 1 -> Items]
    BY DEF QueueIInv, queueTypeOK
  <2>2. shape' \in Shapes
    BY <1>1 DEF QueueIInv, queueTypeOK
  <2>3. {bottom, q_bottom, push_bottom, ptr}' \subseteq 0 .. len' - 1
    BY Ring, <1>1, <1>3
  <2>4. pop_sz' \in 0 .. owid' /\ q_sz' \in 0 .. qsize' /\ push_sz' \in 0 .. iwid'
    BY Ring, <1>3 DEF shape
  <2> QED BY <1>1, <2>1, <2>2, <2>3, <2>4 DEF queueTypeOK
<1>5. ptr' = (push_bottom + push_sz') % len
  <2>1. push_sz' \in 0 .. len /\ push_sz' = push_sz + 1
    BY Ring, <1>3
  <2>2. (push_bottom + push_sz') % len
          = IF push_bottom + push_sz' < len THEN push_bottom + push_sz'
                                            ELSE push_bottom + push_sz' - len
    BY Ring, <2>1, Advance
  <2> QED BY Ring, <1>2, <2>1, <2>2
<1>6. RegionsAgree'
  BY <1>1, <1>5 DEF RegionsAgree, QueueIInv
<1> QED BY <1>4, <1>6 DEF QueueIInv

LEMMA PopInv ==
  ASSUME QueueIInv, pop
  PROVE  QueueIInv'
<1> USE DEF pop
<1>1. shape' = shape /\ len' = len
  BY DEF shape, len
<1>2. bottom' = IF bottom + 1 < len THEN bottom + 1 ELSE bottom + 1 - len
  <2>1. len \in Nat /\ bottom \in 0 .. len - 1 /\ 1 \in 0 .. len
    BY Ring
  <2> QED BY <2>1, Advance
<1>3. bottom' \in 0 .. len - 1 /\ pop_sz' \in 0 .. owid
  BY Ring, <1>2
<1>4. queueTypeOK'
  <2>1. buf' \in [0 .. len' - 1 -> Items] /\ shape' \in Shapes
    BY <1>1 DEF QueueIInv, queueTypeOK
  <2>2. {bottom, q_bottom, push_bottom, ptr}' \subseteq 0 .. len' - 1
    BY Ring, <1>1, <1>3
  <2>3. pop_sz' \in 0 .. owid' /\ q_sz' \in 0 .. qsize' /\ push_sz' \in 0 .. iwid'
    BY Ring, <1>3 DEF shape
  <2> QED BY <2>1, <2>2, <2>3 DEF queueTypeOK
<1>5. q_bottom = (bottom' + pop_sz') % len
  <2>1. pop_sz' \in 0 .. len /\ pop_sz' = pop_sz - 1
    BY Ring, <1>3
  <2>2. (bottom' + pop_sz') % len
          = IF bottom' + pop_sz' < len THEN bottom' + pop_sz'
                                       ELSE bottom' + pop_sz' - len
    BY Ring, <1>3, <2>1, Advance
  <2> QED BY Ring, <1>2, <2>1, <2>2
<1>6. RegionsAgree'
  BY <1>1, <1>5 DEF RegionsAgree, QueueIInv
<1> QED BY <1>4, <1>6 DEF QueueIInv

LEMMA ApplyInv ==
  ASSUME QueueIInv, apply_next_tick
  PROVE  QueueIInv'
<1> DEFINE a == (q_bottom + q2pop) % len
           b == (push_bottom + push2pop) % len
<1>1. shape' = shape /\ len' = len /\ buf' = buf /\ bottom' = bottom /\ ptr' = ptr
  BY DEF apply_next_tick, shape, len
<1>2. /\ q_bottom' = (a + push2pop) % len /\ push_bottom' = (b + push2q) % len
      /\ pop_sz' = pop_sz + q2pop + push2pop
      /\ q_sz' = q_sz - q2pop + push2q
      /\ push_sz' = push_sz - push2pop - push2q
  BY DEF apply_next_tick, PushMoved
<1>3. /\ len \in Nat /\ q_bottom \in 0 .. len - 1 /\ push_bottom \in 0 .. len - 1
      /\ q2pop \in 0 .. len /\ push2pop \in 0 .. len /\ push2q \in 0 .. len
  BY Ring, Amounts
<1>4. a \in 0 .. len - 1 /\ a = IF q_bottom + q2pop < len THEN q_bottom + q2pop
                                                          ELSE q_bottom + q2pop - len
  BY <1>3, Advance
<1>5. b \in 0 .. len - 1 /\ b = IF push_bottom + push2pop < len
                                THEN push_bottom + push2pop
                                ELSE push_bottom + push2pop - len
  BY <1>3, Advance
<1> HIDE DEF a, b
<1>6. q_bottom' = IF a + push2pop < len THEN a + push2pop ELSE a + push2pop - len
  BY <1>2, <1>3, <1>4, Advance
<1>7. push_bottom' = IF b + push2q < len THEN b + push2q ELSE b + push2q - len
  BY <1>2, <1>3, <1>5, Advance
<1>8. q_bottom' \in 0 .. len - 1 /\ push_bottom' \in 0 .. len - 1
  BY <1>3, <1>4, <1>5, <1>6, <1>7
<1>9. pop_sz' \in 0 .. owid /\ q_sz' \in 0 .. qsize /\ push_sz' \in 0 .. iwid
  <2>1. q_sz' \in 0 .. qsize /\ push_sz' \in 0 .. iwid
    BY <1>2, Ring, Amounts
  <2>2. pop_sz' = Lesser(owid, Size)
    BY <1>2, Amounts
  <2>3. Size \in Nat
    BY Ring DEF Size
  <2> QED BY <2>1, <2>2, <2>3, Ring DEF Lesser
<1>10. queueTypeOK'
  <2>1. shape' \in Shapes /\ buf' \in [0 .. len' - 1 -> Items]
    BY <1>1 DEF QueueIInv, queueTypeOK
  <2>2. {bottom, q_bottom, push_bottom, ptr}' \subseteq 0 .. len' - 1
    BY Ring, <1>1, <1>8
  <2>3. pop_sz' \in 0 .. owid' /\ q_sz' \in 0 .. qsize' /\ push_sz' \in 0 .. iwid'
    BY <1>1, <1>9 DEF shape
  <2> QED BY <2>1, <2>2, <2>3 DEF queueTypeOK
<1>11. RegionsAgree'
  <2>1. pop_sz' \in 0 .. len /\ q_sz' \in 0 .. len /\ push_sz' \in 0 .. len
    BY Ring, <1>9
  <2>2. q_bottom' = (bottom + pop_sz') % len
    <3>1. (bottom + pop_sz') % len
            = IF bottom + pop_sz' < len THEN bottom + pop_sz' ELSE bottom + pop_sz' - len
      BY Ring, <2>1, Advance
    <3> QED BY Ring, Amounts, <1>2, <1>4, <1>6, <3>1
  <2>3. push_bottom' = (q_bottom' + q_sz') % len
    <3>1. (q_bottom' + q_sz') % len
            = IF q_bottom' + q_sz' < len THEN q_bottom' + q_sz'
                                         ELSE q_bottom' + q_sz' - len
      BY <1>3, <1>8, <2>1, Advance
    <3> QED BY Ring, Amounts, <1>2, <1>4, <1>5, <1>6, <1>7, <3>1
  <2>4. ptr = (push_bottom' + push_sz') % len
    <3>1. (push_bottom' + push_sz') % len
            = IF push_bottom' + push_sz' < len THEN push_bottom' + push_sz'
                                               ELSE push_bottom' + push_sz' - len
      BY <1>3, <1>8, <2>1, Advance
    <3> QED BY Ring, Amounts, <1>2, <1>5, <1>7, <3>1
  <2> QED BY <1>1, <2>2, <2>3, <2>4 DEF RegionsAgree
<1> QED BY <1>10, <1>11 DEF QueueIInv

LEMMA EmptyRegions ==
  ASSUME NEW L \in Nat, L > 0
  PROVE  (0 + 0) % L = 0
BY ModBelow

LEMMA ClearInv ==
  ASSUME QueueIInv, clear
  PROVE  QueueIInv'
<1>1. shape' = shape /\ len' = len /\ buf' = buf
  BY DEF clear, shape, len
<1>2. queueTypeOK'
  <2>1. shape' \in Shapes /\ buf' \in [0 .. len' - 1 -> Items]
    BY <1>1 DEF QueueIInv, queueTypeOK
  <2>2. {bottom, q_bottom, push_bottom, ptr}' \subseteq 0 .. len' - 1
    BY Ring, <1>1 DEF clear
  <2>3. pop_sz' \in 0 .. owid' /\ q_sz' \in 0 .. qsize' /\ push_sz' \in 0 .. iwid'
    BY Ring, <1>1 DEF clear, shape
  <2> QED BY <2>1, <2>2, <2>3 DEF queueTypeOK
<1>3. RegionsAgree'
  BY Ring, <1>1, EmptyRegions DEF RegionsAgree, clear
<1> QED BY <1>2, <1>3 DEF QueueIInv

LEMMA InitInv ==
  ASSUME queueInit
  PROVE  QueueIInv
<1>1. PICK s \in Shapes : iwid = s[1] /\ owid = s[2] /\ qsize = s[3]
  BY DEF queueInit
<1>2. shape = s
  BY <1>1, ShapesAssumption DEF shape
<1>3. shape \in Shapes
  BY <1>2
<1>4. queueTypeOK
  <2>1. buf \in [0 .. len - 1 -> Items]
    BY DEF queueInit
  <2> QED BY SMTT(30), <1>3, <2>1, LengthFits DEF queueInit, queueTypeOK
<1>5. RegionsAgree
  BY <1>3, LengthFits, EmptyRegions DEF queueInit, RegionsAgree
<1> QED BY <1>4, <1>5 DEF QueueIInv

LEMMA InvStep ==
  ASSUME QueueIInv, [queueNext]_queueVars
  PROVE  QueueIInv'
<1>1. CASE pop
  BY <1>1, PopInv
<1>2. CASE apply_next_tick
  BY <1>2, ApplyInv
<1>3. CASE clear
  BY <1>3, ClearInv
<1>4. ASSUME NEW v \in Items, push(v) PROVE QueueIInv'
  BY <1>4, PushInv
<1>5. CASE UNCHANGED queueVars
  BY <1>5 DEF queueVars, shape, pointers, sizes, QueueIInv, queueTypeOK, RegionsAgree, len
<1> QED BY <1>1, <1>2, <1>3, <1>4, <1>5 DEF queueNext

LEMMA WalkInv ==
  ASSUME QueueIInv
  PROVE  WalkExact
<1>1. Size \in Nat /\ Size < len
  BY Ring DEF Size
<1>2. ptr = IF bottom + Size < len THEN bottom + Size ELSE bottom + Size - len
  BY Ring DEF Size
<1>3. CASE bottom + Size < len
  <2>1. ptr + len - bottom = Size + len /\ ptr + len - bottom \in Nat
    BY <1>1, <1>2, <1>3, Ring
  <2>2. (ptr + len - bottom) % len = ptr + len - bottom - len
    BY <1>1, <2>1, Ring, ModOnce
  <2> QED BY <1>1, <2>1, <2>2, Ring DEF WalkExact, WalkLength
<1>4. CASE ~(bottom + Size < len)
  <2>1. ptr + len - bottom = Size
    BY <1>1, <1>2, <1>4, Ring
  <2>2. (ptr + len - bottom) % len = Size
    BY <1>1, <2>1, Ring, ModBelow
  <2> QED BY <2>2 DEF WalkExact, WalkLength
<1> QED BY <1>3, <1>4

\* Whatever the widths, the queue size and the rounding of the buffer: the regions fit
\* and follow each other, and the walk of empty(), clear(out) and dbg_get_all from
\* bottom to ptr meets every entry once.
THEOREM QueueSafe == queueSpec => [](queueTypeOK /\ RegionsAgree /\ WalkExact)
<1>1. queueInit => QueueIInv
  BY InitInv
<1>2. QueueIInv /\ [queueNext]_queueVars => QueueIInv'
  BY InvStep
<1>3. QueueIInv => queueTypeOK /\ RegionsAgree /\ WalkExact
  BY WalkInv DEF QueueIInv
<1> QED BY <1>1, <1>2, <1>3, PTL DEF queueSpec

(* The queue is what TickFifo promises. *)

\* Where the k-th entry is: the cells of the entries and the cell that push writes are
\* different cells.
LEMMA Cells ==
  ASSUME QueueIInv, NEW k \in 1 .. Size
  PROVE  /\ (bottom + k - 1) % len \in 0 .. len - 1
         /\ (bottom + k - 1) % len # ptr
<1>1. Size \in Nat /\ Size < len
  BY Ring DEF Size
<1>2. k - 1 \in 0 .. len /\ bottom + k - 1 = bottom + (k - 1)
  BY <1>1, Ring
<1>3. /\ (bottom + (k - 1)) % len \in 0 .. len - 1
      /\ (bottom + (k - 1)) % len = IF bottom + (k - 1) < len THEN bottom + (k - 1)
                                                         ELSE bottom + (k - 1) - len
  BY <1>2, Ring, Advance
<1>4. ptr = IF bottom + Size < len THEN bottom + Size ELSE bottom + Size - len
  BY Ring DEF Size
<1> QED BY <1>1, <1>2, <1>3, <1>4, Ring

LEMMA ContentsSeq ==
  ASSUME QueueIInv
  PROVE  /\ Contents \in Seq(Items) /\ Len(Contents) = Size
         /\ Size \in Nat /\ DOMAIN Contents = 1 .. Size
<1>1. Size \in Nat
  BY Ring DEF Size
<1>2. \A k \in 1 .. Size : buf[(bottom + k - 1) % len] \in Items
  BY Cells DEF QueueIInv, queueTypeOK
<1>3. Contents \in [1 .. Size -> Items]
  BY <1>2 DEF Contents
<1> QED BY <1>1, <1>3

LEMMA PushRefines ==
  ASSUME QueueIInv, NEW v \in Items, push(v)
  PROVE  Fifo!Push(v)
<1>1. Size' = Size + 1 /\ len' = len
  BY Ring DEF push, Size, len, shape
<1>2. Contents \in Seq(Items) /\ Len(Contents) = Size /\ Size \in Nat
  BY ContentsSeq
<1>3. ASSUME NEW k \in 1 .. Size PROVE Contents'[k] = Contents[k]
  <2>1. /\ Contents'[k] = buf'[(bottom' + k - 1) % len']
        /\ Contents[k] = buf[(bottom + k - 1) % len]
    BY <1>1, <1>2 DEF Contents
  <2> QED BY <1>1, <2>1, Cells DEF push, QueueIInv, queueTypeOK
<1>4. Contents'[Size + 1] = v
  <2>1. Contents'[Size + 1] = buf'[(bottom + Size) % len]
    BY <1>1, <1>2 DEF Contents, push
  <2>2. (bottom + Size) % len = ptr
    <3>1. Size \in 0 .. len
      BY Ring DEF Size
    <3>2. (bottom + Size) % len = IF bottom + Size < len THEN bottom + Size
                                                         ELSE bottom + Size - len
      BY <3>1, Ring, Advance
    <3> QED BY <3>2, Ring DEF Size
  <2> QED BY <2>1, <2>2, Ring DEF push, QueueIInv, queueTypeOK
<1>5. Contents' \in Seq(Items) /\ Len(Contents') = Size + 1
  <2>1. Contents' = [k \in 1 .. Size + 1 |-> Contents'[k]]
    BY <1>1 DEF Contents
  <2>2. \A k \in 1 .. Size : Contents[k] \in Items
    BY <1>2
  <2>3. \A k \in 1 .. Size + 1 : Contents'[k] \in Items
    BY <1>2, <1>3, <1>4, <2>2
  <2> HIDE DEF Contents
  <2> QED BY <1>2, <2>1, <2>3
<1>6. Contents' = Append(Contents, v)
  BY <1>2, <1>3, <1>4, <1>5
<1>7. Len(Contents) - (pop_sz + q_sz) < iwid
  <2>1. /\ pop_sz \in Nat /\ q_sz \in Nat /\ push_sz \in Nat /\ iwid \in Nat
        /\ push_sz < iwid
    BY Ring DEF push
  <2>2. Len(Contents) = pop_sz + q_sz + push_sz
    BY <1>2 DEF Size
  <2> QED BY <2>1, <2>2
<1> QED BY <1>6, <1>7 DEF Fifo!Push, push, shape

LEMMA PopRefines ==
  ASSUME QueueIInv, pop
  PROVE  Fifo!Pop
<1>1. Size' = Size - 1 /\ Size \in Nat /\ Size - 1 \in Nat /\ len' = len
  BY Ring DEF pop, Size, len, shape
<1>2. Contents \in Seq(Items) /\ Len(Contents) = Size /\ DOMAIN Contents = 1 .. Size
  BY ContentsSeq
<1>3. ASSUME NEW k \in 1 .. Size - 1 PROVE Contents'[k] = Contents[k + 1]
  <2>1. /\ Contents'[k] = buf[(bottom' + k - 1) % len]
        /\ Contents[k + 1] = buf[(bottom + k) % len]
    <3>1. k + 1 \in 1 .. Size /\ bottom + (k + 1) - 1 = bottom + k
      BY <1>1, Ring
    <3> QED BY <1>1, <3>1 DEF Contents, pop
  <2>2. len \in Nat /\ bottom \in 0 .. len - 1 /\ 1 \in 0 .. len
        /\ k \in 0 .. len /\ k - 1 \in 0 .. len
    BY <1>1, Ring DEF Size
  <2>3. /\ bottom' \in 0 .. len - 1
        /\ bottom' = IF bottom + 1 < len THEN bottom + 1 ELSE bottom + 1 - len
    BY <2>2, Advance DEF pop
  <2>4. (bottom + k) % len = IF bottom + k < len THEN bottom + k ELSE bottom + k - len
    BY <2>2, Advance
  <2>5. bottom' + k - 1 = bottom' + (k - 1)
    BY <2>2, <2>3
  <2>6. (bottom' + (k - 1)) % len
          = IF bottom' + (k - 1) < len THEN bottom' + (k - 1) ELSE bottom' + (k - 1) - len
    BY <2>2, <2>3, Advance
  <2>7. (bottom' + (k - 1)) % len = (bottom + k) % len
    BY <2>2, <2>3, <2>4, <2>6
  <2> QED BY <2>1, <2>5, <2>7
<1>4. Contents' = [k \in 1 .. Size - 1 |-> Contents[k + 1]]
  <2>1. Contents' = [k \in 1 .. Size - 1 |-> Contents'[k]]
    BY <1>1 DEF Contents
  <2> HIDE DEF Contents
  <2> QED BY <1>3, <2>1
<1>5. Contents' = Tail(Contents)
  <2> DEFINE T == Tail(Contents)
  <2>1. Contents # << >>
    BY <1>1, <1>2
  <2>2. /\ T \in Seq(Items) /\ Len(T) = Size - 1
        /\ \A k \in 1 .. Size - 1 : T[k] = Contents[k + 1]
    BY <1>2, <2>1, HeadTailProperties
  <2> HIDE DEF T
  <2>3. T = [k \in 1 .. Size - 1 |-> T[k]]
    BY <1>1, <2>2
  <2>4. Contents' = T
    BY <1>4, <2>2, <2>3
  <2> QED BY <2>4, Zenon DEF T
<1>6. (pop_sz + q_sz)' = (pop_sz + q_sz) - 1
  BY Ring DEF pop
<1>7. pop_sz > 0 /\ pop_sz' = pop_sz - 1 /\ UNCHANGED <<iwid, owid, qsize>>
  BY DEF pop, shape
<1> QED BY <1>5, <1>6, <1>7, Zenon DEF Fifo!Pop

LEMMA ApplyRefines ==
  ASSUME QueueIInv, apply_next_tick
  PROVE  Fifo!Tick
<1>1. Size' = Size /\ Size \in Nat /\ len' = len /\ buf' = buf /\ bottom' = bottom
  BY Ring, Amounts DEF apply_next_tick, Size, len, shape
<1>2. Contents' = Contents
  BY <1>1 DEF Contents
<1>3. Len(Contents) = Size
  BY ContentsSeq
<1>4. pop_sz' = Lesser(owid, Size)
  BY Amounts DEF apply_next_tick
<1>5. pop_sz' + q_sz' = Lesser(pop_sz' + qsize, Size)
  BY Ring, Amounts DEF apply_next_tick
<1> QED BY <1>2, <1>3, <1>4, <1>5 DEF Fifo!Tick, Fifo!Lesser, Lesser, apply_next_tick, shape

LEMMA ClearRefines ==
  ASSUME QueueIInv, clear
  PROVE  Fifo!Clear
<1>1. Size' = 0
  BY DEF clear, Size
<1>2. Contents' = << >>
  BY <1>1 DEF Contents
<1> QED BY <1>2 DEF Fifo!Clear, clear, shape

LEMMA InitRefines ==
  ASSUME queueInit
  PROVE  Fifo!Init
<1>1. Size = 0
  BY DEF queueInit, Size
<1>2. Contents = << >>
  BY <1>1 DEF Contents
<1> QED BY <1>2 DEF Fifo!Init, queueInit

\* SimpleTickQueue is the queue its users expect (tickqueue.h): first in first out,
\* nothing lost, overwritten or doubled, entries visible from the next tick on, at most
\* owid in a tick, and credits for iwid pushes that come back as TickFifo says.
THEOREM QueueRefines == queueSpec => ImplementsFifo
<1>1. queueInit => QueueIInv /\ Fifo!Init
  BY InitInv, InitRefines
<1>2. QueueIInv /\ [queueNext]_queueVars => QueueIInv'
  BY InvStep
<1>3. QueueIInv /\ [queueNext]_queueVars => [Fifo!Next]_(Fifo!vars)
  <2> SUFFICES ASSUME QueueIInv, [queueNext]_queueVars PROVE [Fifo!Next]_(Fifo!vars)
    OBVIOUS
  <2>1. CASE pop
    BY <2>1, PopRefines DEF Fifo!Next
  <2>2. CASE apply_next_tick
    BY <2>2, ApplyRefines DEF Fifo!Next
  <2>3. CASE clear
    BY <2>3, ClearRefines DEF Fifo!Next
  <2>4. ASSUME NEW v \in Items, push(v) PROVE Fifo!Next
    BY <2>4, PushRefines DEF Fifo!Next
  <2>5. CASE UNCHANGED queueVars
    BY <2>5 DEF queueVars, shape, pointers, sizes, Fifo!vars, Contents, Size, len
  <2> QED BY <2>1, <2>2, <2>3, <2>4, <2>5 DEF queueNext
<1> QED BY <1>1, <1>2, <1>3, PTL DEF queueSpec, ImplementsFifo, Fifo!Spec

-----------------------------------------------------------------------------
(* Readers and writers exclude each other.  The strengthening says what the integer
   is, and what a thread that loaded it may have seen: an exchange succeeds only on
   that. *)

\* What t loaded is what let it go on.
Fits(t) ==
  t \in loaded =>
    /\ rwAt[t] # "out"
    /\ rwAt[t] = "read_lock" => expected[t] >= 0
    /\ rwAt[t] = "reading" => expected[t] > 0
    /\ rwAt[t] = "write_lock" => expected[t] = 0
    /\ rwAt[t] = "writing" => expected[t] = 0 - 1

rwInv ==
  /\ rwTypeOK
  /\ \A t \in RWThreads : Fits(t)
  /\ \A s, t \in Writers : s = t
  /\ Writers # {} => lock = 0 - 1
  /\ Writers = {} => lock = Cardinality(Readers)
  /\ Writers # {} => Readers = {}

\* The readers can be counted.
LEMMA ReadersFinite == IsFiniteSet(Readers) /\ Cardinality(Readers) \in Nat
<1>1. Readers \subseteq RWThreads
  BY DEF Readers
<1> QED
  BY <1>1, RWThreadsAssumption, FS_Subset, FS_CardinalityType

\* The strengthened invariant holds at first.
LEMMA rwInitial == rwInit => rwInv
<1> SUFFICES ASSUME rwInit PROVE rwInv
  OBVIOUS
<1>1. Readers = {} /\ Writers = {}
  BY DEF rwInit, Readers, Writers
<1>2. Cardinality(Readers) = 0
  BY <1>1, FS_EmptySet
<1> QED
  BY <1>1, <1>2 DEF rwInit, rwInv, rwTypeOK, Fits

\* A thread that begins, loads or fails to exchange leaves those inside where they are.
LEMMA SameInside ==
  ASSUME rwInv, lock' = lock, Readers' = Readers, Writers' = Writers, rwTypeOK',
         \A t \in RWThreads : Fits(t)'
  PROVE  rwInv'
BY DEF rwInv

\* Every step keeps the strengthened invariant.
LEMMA rwStep == rwInv /\ [rwNext]_rwVars => rwInv'
<1> SUFFICES ASSUME rwInv, [rwNext]_rwVars PROVE rwInv'
  OBVIOUS
<1> USE DEF rwTypeOK, rwInv
<1>0. CASE UNCHANGED rwVars
  <2>1. Readers' = Readers /\ Writers' = Writers
    BY <1>0 DEF rwVars, Readers, Writers
  <2> QED
    BY <1>0, <2>1 DEF rwVars, Fits
<1> SUFFICES ASSUME NEW t \in RWThreads,
                    Begins(t) \/ read_lock(t) \/ read_unlock(t) \/ write_lock(t) \/ write_unlock(t)
             PROVE  rwInv'
  BY <1>0 DEF rwNext
<1>1. CASE Begins(t)
  <2>1. rwTypeOK' /\ lock' = lock
    BY <1>1 DEF Begins
  <2>2. Readers' = Readers /\ Writers' = Writers
    BY <1>1 DEF Begins, Readers, Writers
  <2>3. \A s \in RWThreads : Fits(s)'
    BY <1>1 DEF Begins, Fits
  <2> QED
    BY <2>1, <2>2, <2>3, SameInside
<1>2. ASSUME \/ Load(t, "read_lock", lock >= 0)
             \/ Load(t, "reading", lock > 0)
             \/ Load(t, "write_lock", lock = 0)
             \/ Load(t, "writing", lock = 0 - 1)
      PROVE  rwInv'
  <2>1. rwTypeOK' /\ lock' = lock
    BY <1>2 DEF Load
  <2>2. Readers' = Readers /\ Writers' = Writers
    BY <1>2 DEF Load, Readers, Writers
  <2>3. \A s \in RWThreads : Fits(s)'
    BY <1>2 DEF Load, Fits
  <2> QED
    BY <2>1, <2>2, <2>3, SameInside
<1>3. ASSUME loaded' = loaded \ {t}, UNCHANGED <<lock, rwAt>>,
             expected' = [expected EXCEPT ![t] = 0]
      PROVE  rwInv'
  <2>1. rwTypeOK'
    BY <1>3
  <2>2. Readers' = Readers /\ Writers' = Writers
    BY <1>3 DEF Readers, Writers
  <2>3. \A s \in RWThreads : Fits(s)'
    BY <1>3 DEF Fits
  <2> QED
    BY <1>3, <2>1, <2>2, <2>3, SameInside
<1>4. CASE read_lock(t)
  <2>1. CASE Load(t, "read_lock", lock >= 0)
    BY <2>1, <1>2
  <2>2. CASE Exchange(t, "read_lock", expected[t] + 1, "reading") /\ UNCHANGED <<lock, rwAt>>
    BY <2>2, <1>3 DEF Exchange
  <2>3. CASE Exchange(t, "read_lock", expected[t] + 1, "reading") /\ ~UNCHANGED <<lock, rwAt>>
    <3>1. /\ rwAt[t] = "read_lock" /\ t \in loaded /\ loaded' = loaded \ {t}
          /\ lock = expected[t] /\ lock' = lock + 1 /\ lock >= 0
          /\ rwAt' = [rwAt EXCEPT ![t] = "reading"] /\ expected' = [expected EXCEPT ![t] = 0]
      BY <2>3 DEF Exchange, Unchanged, Fits
    <3>2. Writers = {} /\ Writers' = {}
      BY <3>1 DEF Writers
    <3>3. Readers' = Readers \cup {t} /\ t \notin Readers
      BY <3>1 DEF Readers
    <3>4. Cardinality(Readers') = Cardinality(Readers) + 1
      BY <3>3, ReadersFinite, FS_AddElement
    <3>5. \A s \in RWThreads : Fits(s)'
      BY <3>1 DEF Fits
    <3> QED
      BY <3>1, <3>2, <3>4, <3>5
  <2> QED
    BY <1>4, <2>1, <2>2, <2>3 DEF read_lock
<1>5. CASE read_unlock(t)
  <2>1. CASE Load(t, "reading", lock > 0)
    BY <2>1, <1>2
  <2>2. CASE Exchange(t, "reading", expected[t] - 1, "out") /\ UNCHANGED <<lock, rwAt>>
    BY <2>2, <1>3 DEF Exchange
  <2>3. CASE Exchange(t, "reading", expected[t] - 1, "out") /\ ~UNCHANGED <<lock, rwAt>>
    <3>1. /\ rwAt[t] = "reading" /\ t \in loaded /\ loaded' = loaded \ {t}
          /\ lock = expected[t] /\ lock' = lock - 1 /\ lock > 0
          /\ rwAt' = [rwAt EXCEPT ![t] = "out"] /\ expected' = [expected EXCEPT ![t] = 0]
      BY <2>3 DEF Exchange, Unchanged, Fits
    <3>2. Writers = {} /\ Writers' = {}
      BY <3>1 DEF Writers
    <3>3. Readers' = Readers \ {t} /\ t \in Readers
      BY <3>1 DEF Readers
    <3>4. Cardinality(Readers') = Cardinality(Readers) - 1
      BY <3>3, ReadersFinite, FS_RemoveElement
    <3>5. \A s \in RWThreads : Fits(s)'
      BY <3>1 DEF Fits
    <3> QED
      BY <3>1, <3>2, <3>4, <3>5
  <2> QED
    BY <1>5, <2>1, <2>2, <2>3 DEF read_unlock
<1>6. CASE write_lock(t)
  <2>1. CASE Load(t, "write_lock", lock = 0)
    BY <2>1, <1>2
  <2>2. CASE Exchange(t, "write_lock", 0 - 1, "writing") /\ UNCHANGED <<lock, rwAt>>
    BY <2>2, <1>3 DEF Exchange
  <2>3. CASE Exchange(t, "write_lock", 0 - 1, "writing") /\ ~UNCHANGED <<lock, rwAt>>
    <3>1. /\ rwAt[t] = "write_lock" /\ t \in loaded /\ loaded' = loaded \ {t}
          /\ lock = 0 /\ lock' = 0 - 1
          /\ rwAt' = [rwAt EXCEPT ![t] = "writing"] /\ expected' = [expected EXCEPT ![t] = 0]
      BY <2>3 DEF Exchange, Unchanged, Fits
    <3>2. Writers = {} /\ Writers' = {t}
      BY <3>1 DEF Writers
    <3>3. Readers = {}
      BY <3>1, <3>2, ReadersFinite, FS_EmptySet
    <3>4. Readers' = {}
      BY <3>1, <3>3 DEF Readers
    <3>5. \A s \in RWThreads : Fits(s)'
      BY <3>1 DEF Fits
    <3> QED
      BY <3>1, <3>2, <3>4, <3>5
  <2> QED
    BY <1>6, <2>1, <2>2, <2>3 DEF write_lock
<1>7. CASE write_unlock(t)
  <2>1. CASE Load(t, "writing", lock = 0 - 1)
    BY <2>1, <1>2
  <2>2. CASE Exchange(t, "writing", 0, "out") /\ UNCHANGED <<lock, rwAt>>
    BY <2>2, <1>3 DEF Exchange
  <2>3. CASE Exchange(t, "writing", 0, "out") /\ ~UNCHANGED <<lock, rwAt>>
    <3>1. /\ rwAt[t] = "writing" /\ t \in loaded /\ loaded' = loaded \ {t}
          /\ lock' = 0
          /\ rwAt' = [rwAt EXCEPT ![t] = "out"] /\ expected' = [expected EXCEPT ![t] = 0]
      BY <2>3 DEF Exchange
    <3>2. Writers = {t} /\ Writers' = {}
      BY <3>1 DEF Writers
    <3>3. Readers' = {} /\ Cardinality(Readers') = 0
      BY <3>1, <3>2, FS_EmptySet DEF Readers
    <3>5. \A s \in RWThreads : Fits(s)'
      BY <3>1 DEF Fits
    <3> QED
      BY <3>1, <3>2, <3>3, <3>5
  <2> QED
    BY <1>7, <2>1, <2>2, <2>3 DEF write_unlock
<1> QED
  BY <1>1, <1>4, <1>5, <1>6, <1>7

\* SpinRWLock: no reader and no other writer is in the lock with a writer, for any
\* number of threads and whatever exchanges fail.
THEOREM RWLockExclusive == rwSpec => []RWExclusive
<1>1. rwInv => RWExclusive
  BY DEF rwInv, RWExclusive, Writers, Readers
<1> QED
  BY rwInitial, rwStep, <1>1, PTL DEF rwSpec
=============================================================================
