----------------------------- MODULE MoesiProofs -----------------------------
(***************************************************************************)
(* The protocol of MoesiSystem keeps MoesiInv as long as the LLC replaces  *)
(* no block, for any number of L1 caches and lines and any sizes of the    *)
(* caches, MSHR arrays and buffers: every action is a step of one line, or *)
(* of two when a line that enters a cache evicts another, and MoesiLine-   *)
(* Proofs says what a step of a line keeps; what is left to show here is   *)
(* that it is such a step, and where the messages are.                     *)
(*                                                                         *)
(* It follows that no handler of an L1 aborts, that the directory knows    *)
(* the holders of every line that is not locked, and that the caches       *)
(* implement the coherent memory.                                          *)
(***************************************************************************)
EXTENDS MoesiLineProofs, SequenceTheorems

-----------------------------------------------------------------------------
(* Sequences.                                                              *)

\* The elements of a sequence.
LEMMA ToSetFacts ==
  ASSUME NEW S, NEW q \in Seq(S)
  PROVE  /\ ToSet(q) \subseteq S
         /\ \A x : x \in ToSet(q) <=> \E k \in 1 .. Len(q) : q[k] = x
         /\ IsInjective(q) <=> \A j, k \in 1 .. Len(q) : q[j] = q[k] => j = k
  BY DEF ToSet, IsInjective

\* A sequence without its k-th element.
LEMMA RemoveAtFacts ==
  ASSUME NEW S, NEW q \in Seq(S), NEW k \in 1 .. Len(q)
  PROVE  /\ RemoveAt(q, k) \in Seq(S) /\ Len(RemoveAt(q, k)) = Len(q) - 1
         /\ \A j \in 1 .. Len(q) - 1 : RemoveAt(q, k)[j] = IF j < k THEN q[j] ELSE q[j + 1]
<1> DEFINE a == SubSeq(q, 1, k - 1)
           b == SubSeq(q, k + 1, Len(q))
           n == Len(q)
<1>1. n \in Nat /\ k \in 1 .. n
  BY LenProperties
<1>2. a \in Seq(S) /\ Len(a) = k - 1 /\ \A j \in 1 .. k - 1 : a[j] = q[j]
  <2>1. \A j \in 1 .. k - 1 : q[j] \in S
    BY <1>1, ElementOfSeq
  <2>2. /\ a \in Seq(S) /\ Len(a) = IF 1 <= k - 1 THEN k - 1 - 1 + 1 ELSE 0
        /\ \A j \in 1 .. k - 1 - 1 + 1 : a[j] = q[1 + j - 1]
    BY <2>1, <1>1, SubSeqProperties
  <2> HIDE DEF a
  <2> QED BY <2>2, <1>1
<1>3. b \in Seq(S) /\ Len(b) = n - k /\ \A j \in 1 .. n - k : b[j] = q[k + j]
  <2>1. \A j \in k + 1 .. n : q[j] \in S
    BY <1>1, ElementOfSeq
  <2>2. /\ b \in Seq(S) /\ Len(b) = IF k + 1 <= n THEN n - (k + 1) + 1 ELSE 0
        /\ \A j \in 1 .. n - (k + 1) + 1 : b[j] = q[k + 1 + j - 1]
    BY <2>1, <1>1, SubSeqProperties
  <2> HIDE DEF b, n
  <2> QED BY <2>2, <1>1
<1> HIDE DEF a, b
<1>4. /\ a \o b \in Seq(S) /\ Len(a \o b) = k - 1 + n - k
      /\ \A j \in 1 .. k - 1 + (n - k) : (a \o b)[j] = IF j <= k - 1 THEN a[j] ELSE b[j - (k - 1)]
  <2>1. a \in Seq(S) /\ b \in Seq(S)
    BY <1>2, <1>3
  <2>2. /\ a \o b \in Seq(S) /\ Len(a \o b) = Len(a) + Len(b)
        /\ \A j \in 1 .. Len(a) + Len(b) :
             (a \o b)[j] = IF j <= Len(a) THEN a[j] ELSE b[j - Len(a)]
    BY <2>1, ConcatProperties
  <2>3. Len(a) = k - 1 /\ Len(b) = n - k /\ k - 1 + (n - k) = k - 1 + n - k
    BY <1>1, <1>2, <1>3
  <2> HIDE DEF n
  <2> QED BY <2>2, <2>3
<1>5. RemoveAt(q, k) = a \o b
  BY DEF RemoveAt, a, b
<1> HIDE DEF n
<1>6. \A j \in 1 .. n - 1 : (a \o b)[j] = IF j < k THEN q[j] ELSE q[j + 1]
  <2> TAKE j \in 1 .. n - 1
  <2>1. CASE j < k
    BY <2>1, <1>1, <1>2, <1>4
  <2>2. CASE ~(j < k)
    <3>1. (a \o b)[j] = b[j - (k - 1)] /\ j - (k - 1) \in 1 .. n - k
      BY <2>2, <1>1, <1>4
    <3>2. b[j - (k - 1)] = q[k + (j - (k - 1))] /\ k + (j - (k - 1)) = j + 1
      BY <3>1, <1>1, <1>3
    <3> QED BY <2>2, <3>1, <3>2
  <2> QED BY <2>1, <2>2
<1>7. Len(a \o b) = n - 1
  BY <1>1, <1>4
<1> QED BY <1>4, <1>5, <1>6, <1>7 DEF n

\* A sequence without repetition loses the element that is removed.
LEMMA RemoveAtSet ==
  ASSUME NEW S, NEW q \in Seq(S), NEW k \in 1 .. Len(q), IsInjective(q)
  PROVE  /\ RemoveAt(q, k) \in Seq(S) /\ IsInjective(RemoveAt(q, k))
         /\ ToSet(RemoveAt(q, k)) = ToSet(q) \ {q[k]}
<1> DEFINE r == RemoveAt(q, k)
           n == Len(q)
<1>1. /\ r \in Seq(S) /\ Len(r) = n - 1
      /\ \A j \in 1 .. n - 1 : r[j] = IF j < k THEN q[j] ELSE q[j + 1]
  BY RemoveAtFacts
<1>2. n \in Nat /\ k \in 1 .. n /\ \A i, j \in 1 .. n : q[i] = q[j] => i = j
  BY LenProperties, ToSetFacts
<1> HIDE DEF r, n
<1>3. \A i, j \in 1 .. Len(r) : r[i] = r[j] => i = j
  <2> SUFFICES ASSUME NEW i \in 1 .. n - 1, NEW j \in 1 .. n - 1, r[i] = r[j] PROVE i = j
    BY <1>1
  <2> DEFINE f(h) == IF h < k THEN h ELSE h + 1
  <2>1. f(i) \in 1 .. n /\ f(j) \in 1 .. n /\ r[i] = q[f(i)] /\ r[j] = q[f(j)]
    BY SMTT(30), <1>1, <1>2
  <2>2. f(i) = f(j)
    BY <2>1, <1>2
  <2> QED BY <2>2, <1>2
<1>4. ASSUME NEW x PROVE x \in ToSet(r) <=> x \in ToSet(q) /\ x # q[k]
  <2>1. ASSUME NEW j \in 1 .. n - 1 PROVE r[j] \in ToSet(q) /\ r[j] # q[k]
    <3> DEFINE f == IF j < k THEN j ELSE j + 1
    <3>1. f \in 1 .. n /\ f # k /\ r[j] = q[f]
      BY <1>1, <1>2
    <3> HIDE DEF f
    <3> QED BY <3>1, <1>2, ToSetFacts DEF n
  <2>2. ASSUME NEW j \in 1 .. n, j # k PROVE q[j] \in ToSet(r)
    <3> DEFINE f == IF j < k THEN j ELSE j - 1
    <3>1. f \in 1 .. n - 1 /\ r[f] = q[j]
      BY <2>2, <1>1, <1>2
    <3> HIDE DEF f
    <3> QED BY <3>1, <1>1, ToSetFacts
  <2>3. \A j \in 1 .. n : q[j] # q[k] => q[j] \in ToSet(r)
    BY <2>2
  <2> QED BY SMTT(30), <2>1, <2>3, <1>1, ToSetFacts DEF n
<1>5. ToSet(r) = ToSet(q) \ {q[k]}
  BY <1>4
<1> QED BY <1>1, <1>3, <1>5, ToSetFacts DEF r

\* One sequence after the other.
LEMMA ConcatSet ==
  ASSUME NEW S, NEW a \in Seq(S), NEW b \in Seq(S)
  PROVE  /\ a \o b \in Seq(S) /\ ToSet(a \o b) = ToSet(a) \cup ToSet(b)
         /\ IsInjective(a) /\ IsInjective(b) /\ ToSet(a) \cap ToSet(b) = {} => IsInjective(a \o b)
<1> DEFINE c == a \o b
           m == Len(a)
           n == Len(b)
<1>1. /\ c \in Seq(S) /\ Len(c) = m + n /\ m \in Nat /\ n \in Nat
      /\ \A i \in 1 .. m + n : c[i] = IF i <= m THEN a[i] ELSE b[i - m]
  BY ConcatProperties, LenProperties
<1> HIDE DEF c, m, n
<1>2. /\ \A i \in 1 .. m : c[i] = a[i] /\ i \in 1 .. m + n
      /\ \A i \in 1 .. n : c[m + i] = b[i] /\ m + i \in 1 .. m + n
      /\ \A i \in 1 .. m + n : i > m => c[i] = b[i - m] /\ i - m \in 1 .. n
      /\ \A i \in 1 .. m + n : i <= m => c[i] = a[i] /\ i \in 1 .. m
  BY <1>1
<1>a. /\ \A x : x \in ToSet(a) <=> \E k \in 1 .. m : a[k] = x
      /\ \A x : x \in ToSet(b) <=> \E k \in 1 .. n : b[k] = x
      /\ \A x : x \in ToSet(c) <=> \E k \in 1 .. m + n : c[k] = x
  <2>1. \A x : x \in ToSet(a) <=> \E k \in 1 .. m : a[k] = x
    BY ToSetFacts DEF m
  <2>2. \A x : x \in ToSet(b) <=> \E k \in 1 .. n : b[k] = x
    BY ToSetFacts DEF n
  <2>3. \A x : x \in ToSet(c) <=> \E k \in 1 .. m + n : c[k] = x
    BY SMTT(30), <1>1, ToSetFacts
  <2> QED BY <2>1, <2>2, <2>3
<1>3. ASSUME NEW x PROVE x \in ToSet(c) <=> x \in ToSet(a) \/ x \in ToSet(b)
  <2>1. ASSUME x \in ToSet(c) PROVE x \in ToSet(a) \/ x \in ToSet(b)
    <3>1. PICK k \in 1 .. m + n : c[k] = x
      BY <2>1, <1>a
    <3>2. k > m \/ k <= m
      BY <1>1
    <3> QED BY <3>1, <3>2, <1>2, <1>a
  <2>2. x \in ToSet(a) => x \in ToSet(c)
    BY <1>a, <1>2
  <2>3. x \in ToSet(b) => x \in ToSet(c)
    BY <1>a, <1>2
  <2> QED BY <2>1, <2>2, <2>3
<1>4. ASSUME IsInjective(a), IsInjective(b), ToSet(a) \cap ToSet(b) = {} PROVE IsInjective(c)
  <2>1. /\ \A i, j \in 1 .. m : a[i] = a[j] => i = j
        /\ \A i, j \in 1 .. n : b[i] = b[j] => i = j
    BY <1>4, ToSetFacts DEF m, n
  <2>2. \A i \in 1 .. m, j \in 1 .. n : a[i] # b[j]
    BY <1>4, <1>a
  <2>3. ASSUME NEW i \in 1 .. m + n, NEW j \in 1 .. m + n, c[i] = c[j] PROVE i = j
    <3>1. CASE i <= m /\ j <= m
      BY <3>1, <2>3, <2>1, <1>2
    <3>2. CASE i > m /\ j > m
      <4>1. b[i - m] = b[j - m] /\ i - m \in 1 .. n /\ j - m \in 1 .. n
        BY <3>2, <2>3, <1>2
      <4>2. i - m = j - m
        BY <4>1, <2>1
      <4> QED BY <4>2, <1>1
    <3>3. CASE i <= m /\ j > m
      BY <3>3, <2>3, <2>2, <1>2
    <3>4. CASE i > m /\ j <= m
      BY SMTT(30), <3>4, <2>3, <2>2, <1>2
    <3> QED BY <3>1, <3>2, <3>3, <3>4, <1>1
  <2>4. \A i, j \in 1 .. Len(c) : c[i] = c[j] => i = j
    BY <2>3, <1>1
  <2> QED BY <2>4, <1>1, ToSetFacts
<1>5. ToSet(c) = ToSet(a) \cup ToSet(b)
  BY <1>3
<1> QED BY <1>1, <1>4, <1>5 DEF c

\* The empty sequence.
LEMMA EmptySet ==
  ASSUME NEW S
  PROVE  <<>> \in Seq(S) /\ ToSet(<<>>) = {} /\ IsInjective(<<>>)
  BY DEF ToSet, IsInjective

\* A sequence of one element.
LEMMA OneSet ==
  ASSUME NEW S, NEW x \in S
  PROVE  <<x>> \in Seq(S) /\ ToSet(<<x>>) = {x} /\ IsInjective(<<x>>)
<1>1. <<x>> \in Seq(S) /\ Len(<<x>>) = 1 /\ <<x>>[1] = x
  OBVIOUS
<1>2. DOMAIN <<x>> = {1}
  OBVIOUS
<1> QED BY <1>1, <1>2 DEF ToSet, IsInjective

\* A sequence and one more element.
LEMMA AppendSet ==
  ASSUME NEW S, NEW q \in Seq(S), NEW x \in S
  PROVE  /\ Append(q, x) \in Seq(S) /\ ToSet(Append(q, x)) = ToSet(q) \cup {x}
         /\ IsInjective(q) /\ x \notin ToSet(q) => IsInjective(Append(q, x))
<1>1. Append(q, x) = q \o <<x>>
  OBVIOUS
<1>2. <<x>> \in Seq(S) /\ ToSet(<<x>>) = {x} /\ IsInjective(<<x>>)
  BY OneSet
<1> DEFINE b == <<x>>
<1> HIDE DEF b
<1>3. /\ q \o b \in Seq(S) /\ ToSet(q \o b) = ToSet(q) \cup ToSet(b)
      /\ IsInjective(q) /\ IsInjective(b) /\ ToSet(q) \cap ToSet(b) = {} => IsInjective(q \o b)
  <2>1. b \in Seq(S)
    BY <1>2 DEF b
  <2> QED BY <2>1, ConcatSet
<1> QED BY <1>1, <1>2, <1>3 DEF b

\* A sequence without its head.
LEMMA TailSet ==
  ASSUME NEW S, NEW q \in Seq(S), q # <<>>
  PROVE  /\ Tail(q) \in Seq(S) /\ Head(q) \in ToSet(q) /\ Head(q) \in S
         /\ ToSet(Tail(q)) \subseteq ToSet(q)
         /\ ToSet(q) = ToSet(Tail(q)) \cup {Head(q)}
         /\ IsInjective(q) => IsInjective(Tail(q)) /\ ToSet(Tail(q)) = ToSet(q) \ {Head(q)}
<1> DEFINE r == RemoveAt(q, 1)
           n == Len(q)
<1>1. n \in Nat /\ n > 0 /\ 1 \in 1 .. Len(q)
  BY EmptySeq, LenProperties
<1>2. /\ Tail(q) \in Seq(S) /\ Len(Tail(q)) = n - 1 /\ Head(q) = q[1]
      /\ \A i \in 1 .. n - 1 : Tail(q)[i] = q[i + 1]
  BY HeadTailProperties
<1>3. /\ r \in Seq(S) /\ Len(r) = n - 1
      /\ \A j \in 1 .. n - 1 : r[j] = q[j + 1]
  BY <1>1, RemoveAtFacts
<1> HIDE DEF r
<1>4. Tail(q) = r
  BY <1>2, <1>3, SeqEqual
<1>5. ASSUME IsInjective(q) PROVE IsInjective(Tail(q)) /\ ToSet(Tail(q)) = ToSet(q) \ {Head(q)}
  <2>1. IsInjective(r) /\ ToSet(r) = ToSet(q) \ {q[1]}
    BY <1>5, <1>1, RemoveAtSet DEF r
  <2> QED BY <2>1, <1>4, <1>2
<1>6. \A x : x \in ToSet(q) <=> x \in ToSet(Tail(q)) \/ x = q[1]
  <2> TAKE x
  <2>1. x \in ToSet(q) <=> \E k \in 1 .. n : q[k] = x
    BY ToSetFacts
  <2>2. x \in ToSet(Tail(q)) <=> \E k \in 1 .. n - 1 : q[k + 1] = x
    <3>1. Len(Tail(q)) = n - 1 /\ Tail(q) \in Seq(S) /\ \A k \in 1 .. n - 1 : Tail(q)[k] = q[k + 1]
      BY <1>2
    <3> DEFINE u == Tail(q)
    <3> HIDE DEF u, n
    <3>2. u \in Seq(S) /\ Len(u) = n - 1 /\ \A k \in 1 .. n - 1 : u[k] = q[k + 1]
      BY <3>1 DEF u
    <3>3. x \in ToSet(u) <=> \E k \in 1 .. Len(u) : u[k] = x
      BY <3>2, ToSetFacts
    <3> QED BY <3>2, <3>3 DEF u
  <2>3. \A k \in 1 .. n : k # 1 => k - 1 \in 1 .. n - 1 /\ q[(k - 1) + 1] = q[k]
    BY <1>1
  <2>4. \A k \in 1 .. n - 1 : k + 1 \in 1 .. n
    BY <1>1
  <2> HIDE DEF n
  <2>5. x \in ToSet(q) => x \in ToSet(Tail(q)) \/ x = q[1]
    BY <2>1, <2>2, <2>3
  <2>6. x \in ToSet(Tail(q)) \/ x = q[1] => x \in ToSet(q)
    BY <2>1, <2>2, <2>4, <1>1 DEF n
  <2> QED BY <2>5, <2>6
<1>7. Head(q) \in S
  BY <1>1, <1>2, ElementOfSeq
<1> QED BY <1>2, <1>5, <1>6, <1>7

-----------------------------------------------------------------------------
(* The bus.                                                                *)

\* The messages on the bus.
LEMMA InNetMember ==
  ASSUME NEW q, NEW x
  PROVE  x \in InNet(q) <=> \E n, d \in Nodes : x \in ToSet(q[n][d])
  BY DEF InNet, OutSet

\* A queue of the bus.
LEMMA CarriedQueue ==
  ASSUME NEW q, Carried(q), NEW n \in Nodes, NEW d \in Nodes
  PROVE  /\ q[n][d] \in Seq(Message) /\ IsInjective(q[n][d])
         /\ \A m \in ToSet(q[n][d]) : m.src = n /\ m.dst = d /\ m \in InNet(q) /\ m \in Message
         /\ Precedes(q[n][d])
<1>1. q[n][d] \in Seq(Message) /\ Sends(n, q[n]) /\ Precedes(q[n][d])
  BY DEF Carried
<1>2. \A m \in ToSet(q[n][d]) : m \in InNet(q) /\ m \in Message
  BY <1>1, InNetMember, ToSetFacts
<1> QED BY <1>1, <1>2 DEF Sends

\* A message on the bus is in the queue from its sender to its receiver.
LEMMA InNetPlace ==
  ASSUME NEW q, Carried(q), NEW x \in InNet(q)
  PROVE  x.src \in Nodes /\ x.dst \in Nodes /\ x \in ToSet(q[x.src][x.dst]) /\ x \in Message
<1>1. PICK n \in Nodes, d \in Nodes : x \in ToSet(q[n][d])
  BY InNetMember
<1>2. x.src = n /\ x.dst = d /\ x \in Message
  BY <1>1, CarriedQueue
<1> QED BY <1>1, <1>2

\* The messages of a queue of the bus.
LEMMA FlightFacts ==
  ASSUME NEW q, Carried(q)
  PROVE  UNION {UNION {{q[n][d][k] : k \in 1 .. Len(q[n][d])} : d \in Nodes} : n \in Nodes} = InNet(q)
<1> DEFINE F == UNION {UNION {{q[n][d][k] : k \in 1 .. Len(q[n][d])} : d \in Nodes} : n \in Nodes}
<1>1. ASSUME NEW x PROVE x \in F <=> \E n, d \in Nodes : x \in ToSet(q[n][d])
  <2>1. x \in F <=> \E n, d \in Nodes : \E k \in 1 .. Len(q[n][d]) : q[n][d][k] = x
    OBVIOUS
  <2>2. \A n, d \in Nodes : x \in ToSet(q[n][d]) <=> \E k \in 1 .. Len(q[n][d]) : q[n][d][k] = x
    BY CarriedQueue, ToSetFacts
  <2> QED BY <2>1, <2>2
<1> HIDE DEF F
<1> QED BY <1>1, InNetMember DEF F

\* InFlight, as a union of sets of queues.
LEMMA InFlightIsNet ==
  /\ Carried(net) => InFlight = InNet(net)
  /\ Carried(net') => InFlight' = InNet(net')
  BY FlightFacts DEF InFlight

\* The order of a queue outlives the removal of a message.
LEMMA PrecedesWithout ==
  ASSUME NEW q \in Seq(Message), NEW k \in 1 .. Len(q), Precedes(q)
  PROVE  Precedes(RemoveAt(q, k))
<1> DEFINE r == RemoveAt(q, k)
           n == Len(q)
<1>1. /\ Len(r) = n - 1 /\ n \in Nat /\ k \in 1 .. n
      /\ \A j \in 1 .. n - 1 : r[j] = IF j < k THEN q[j] ELSE q[j + 1]
  BY RemoveAtFacts, LenProperties
<1> HIDE DEF r
<1> SUFFICES ASSUME NEW i \in 1 .. n - 1, NEW j \in 1 .. n - 1,
                    Grant(r[i]), Owing(r[j]), r[i].line = r[j].line
             PROVE  i < j
  BY <1>1 DEF Precedes, r
<1> DEFINE f == IF i < k THEN i ELSE i + 1
           g == IF j < k THEN j ELSE j + 1
<1>2. f \in 1 .. n /\ g \in 1 .. n /\ r[i] = q[f] /\ r[j] = q[g]
  BY <1>1
<1>3. f < g
  <2> HIDE DEF f, g
  <2> QED BY <1>2 DEF Precedes
<1> QED BY <1>1, <1>3

\* A node takes a message from the bus.
LEMMA TakenFacts ==
  ASSUME Carried(net), NEW d \in Nodes, NEW r \in Arriving(d)
  PROVE  LET m == MsgAt(d, r) IN
         /\ Carried(Taken(d, r)) /\ InNet(Taken(d, r)) = InNet(net) \ {m}
         /\ m \in InNet(net) /\ m \in Message /\ m.src = r.from /\ m.dst = d /\ r.from \in Nodes
<1> DEFINE n == r.from
           k == r.pos
           m == MsgAt(d, r)
           q == Taken(d, r)
<1>1. n \in Nodes /\ k \in 1 .. Len(net[n][d])
  BY DEF Arriving
<1>2. m = net[n][d][k]
  BY DEF MsgAt
<1>3. /\ net[n][d] \in Seq(Message) /\ IsInjective(net[n][d]) /\ Precedes(net[n][d])
      /\ \A x \in ToSet(net[n][d]) : x.src = n /\ x.dst = d
  BY <1>1, CarriedQueue
<1>4. m \in ToSet(net[n][d]) /\ m \in Message /\ m.src = n /\ m.dst = d /\ m \in InNet(net)
  BY <1>1, <1>2, CarriedQueue, ToSetFacts
<1> HIDE DEF m
<1>5. /\ RemoveAt(net[n][d], k) \in Seq(Message) /\ IsInjective(RemoveAt(net[n][d], k))
      /\ ToSet(RemoveAt(net[n][d], k)) = ToSet(net[n][d]) \ {m}
      /\ Precedes(RemoveAt(net[n][d], k))
  BY <1>1, <1>2, <1>3, RemoveAtSet, PrecedesWithout
<1> DEFINE rest == RemoveAt(net[n][d], k)
<1> HIDE DEF rest
<1>6. net \in [Nodes -> [Nodes -> Seq(Message)]]
  BY DEF Carried
<1>7. q = [net EXCEPT ![n][d] = rest]
  BY DEF Taken, rest
<1> HIDE DEF q, n, k
<1>8. /\ q \in [Nodes -> [Nodes -> Seq(Message)]] /\ q[n][d] = rest
      /\ \A a, b \in Nodes : ~(a = n /\ b = d) => q[a][b] = net[a][b]
  BY <1>1, <1>5, <1>6, <1>7 DEF rest
<1>9. \A a, b \in Nodes : /\ IsInjective(q[a][b]) /\ Precedes(q[a][b])
                          /\ ToSet(q[a][b]) = ToSet(net[a][b]) \ {m}
  <2> TAKE a, b \in Nodes
  <2>1. CASE a = n /\ b = d
    BY <2>1, <1>5, <1>8 DEF rest
  <2>2. CASE ~(a = n /\ b = d)
    <3>1. m \notin ToSet(net[a][b])
      BY <2>2, <1>4, CarriedQueue
    <3> QED BY SMTT(30), <2>2, <3>1, <1>8, CarriedQueue
  <2> QED BY <2>1, <2>2
<1>10. Carried(q)
  <2>1. \A a \in Nodes : Sends(a, q[a])
    <3>1. \A a, b \in Nodes : \A x \in ToSet(q[a][b]) : x.src = a /\ x.dst = b
      <4>1. \A a, b \in Nodes : \A x \in ToSet(net[a][b]) : x.src = a /\ x.dst = b
        BY CarriedQueue
      <4>2. \A a, b \in Nodes : ToSet(q[a][b]) \subseteq ToSet(net[a][b])
        BY <1>9
      <4> QED BY <4>1, <4>2
    <3> QED BY <3>1, <1>8, <1>9 DEF Sends
  <2> QED BY <2>1, <1>8, <1>9 DEF Carried
<1>11. InNet(q) = InNet(net) \ {m}
  <2>1. \A x : x \in InNet(q) <=> x \in InNet(net) /\ x # m
    <3>1. \A x : \A a, b \in Nodes : x \in ToSet(q[a][b]) <=> x \in ToSet(net[a][b]) /\ x # m
      BY <1>9
    <3>2. /\ \A x : x \in InNet(q) <=> \E a, b \in Nodes : x \in ToSet(q[a][b])
          /\ \A x : x \in InNet(net) <=> \E a, b \in Nodes : x \in ToSet(net[a][b])
      BY InNetMember
    <3> TAKE x
    <3> DEFINE new(a, b) == x \in ToSet(q[a][b])
               old(a, b) == x \in ToSet(net[a][b])
    <3>3. \A a, b \in Nodes : new(a, b) <=> old(a, b) /\ x # m
      BY <3>1
    <3>4. /\ x \in InNet(q) <=> \E a, b \in Nodes : new(a, b)
          /\ x \in InNet(net) <=> \E a, b \in Nodes : old(a, b)
      BY <3>2
    <3> HIDE DEF new, old, q, m
    <3> QED BY <3>3, <3>4
  <2> QED BY <2>1
<1> QED BY <1>1, <1>4, <1>10, <1>11 DEF m, q, n

\* Messages that may follow those in the queues of the bus.
Follows(q, out) ==
  /\ OutSet(out) \cap InNet(q) = {}
  /\ \A m \in OutSet(out), x \in InNet(q) \cup OutSet(out) :
       Grant(m) /\ Owing(x) => m.line # x.line

\* The order of a queue outlives sending, when no grant follows a call to give up.
LEMMA PrecedesAfter ==
  ASSUME NEW a \in Seq(Message), NEW b \in Seq(Message), Precedes(a),
         \A m \in ToSet(b), x \in ToSet(a) \cup ToSet(b) : Grant(m) /\ Owing(x) => m.line # x.line
  PROVE  Precedes(a \o b)
<1> DEFINE c == a \o b
           m == Len(a)
           n == Len(b)
<1>1. /\ c \in Seq(Message) /\ Len(c) = m + n /\ m \in Nat /\ n \in Nat
      /\ \A i \in 1 .. m + n : c[i] = IF i <= m THEN a[i] ELSE b[i - m]
  BY ConcatProperties, LenProperties
<1>2. /\ \A i \in 1 .. m : a[i] \in ToSet(a)
      /\ \A i \in 1 .. n : b[i] \in ToSet(b)
  BY ToSetFacts
<1> SUFFICES ASSUME NEW i \in 1 .. m + n, NEW j \in 1 .. m + n,
                    Grant(c[i]), Owing(c[j]), c[i].line = c[j].line
             PROVE  i < j
  <2>1. Len(c) = m + n
    BY <1>1
  <2> HIDE DEF c, m, n
  <2>2. Precedes(c)
    BY <2>1 DEF Precedes
  <2> QED BY <2>2 DEF c
<1> HIDE DEF c, m, n
<1>3. i <= m
  <2> SUFFICES ASSUME ~(i <= m) PROVE FALSE
    OBVIOUS
  <2>1. c[i] = b[i - m] /\ i - m \in 1 .. n
    BY <1>1
  <2>2. c[i] \in ToSet(b)
    BY <2>1, <1>2
  <2>3. c[j] \in ToSet(a) \cup ToSet(b)
    <3>1. CASE j <= m
      <4>1. c[j] = a[j] /\ j \in 1 .. m
        BY <3>1, <1>1
      <4> QED BY <4>1, <1>2
    <3>2. CASE ~(j <= m)
      <4>1. c[j] = b[j - m] /\ j - m \in 1 .. n
        BY <3>2, <1>1
      <4> QED BY <4>1, <1>2
    <3> QED BY <3>1, <3>2
  <2> QED BY <2>2, <2>3
<1>4. CASE j <= m
  <2>1. c[i] = a[i] /\ c[j] = a[j] /\ i \in 1 .. m /\ j \in 1 .. m
    BY <1>1, <1>3, <1>4
  <2> QED BY <2>1 DEF Precedes, m
<1>5. CASE j > m
  BY <1>1, <1>3, <1>5
<1> QED BY <1>1, <1>4, <1>5

\* A node sends.
LEMMA SentFacts ==
  ASSUME NEW q, Carried(q), NEW n \in Nodes, NEW out, Sends(n, out), Follows(q, out)
  PROVE  Carried(Sent(q, n, out)) /\ InNet(Sent(q, n, out)) = InNet(q) \cup OutSet(out)
<1> DEFINE p == Sent(q, n, out)
           row == [d \in Nodes |-> q[n][d] \o out[d]]
<1>1. q \in [Nodes -> [Nodes -> Seq(Message)]] /\ out \in [Nodes -> Seq(Message)]
  BY DEF Carried, Sends
<1>2. \A d \in Nodes :
        /\ q[n][d] \in Seq(Message) /\ out[d] \in Seq(Message)
        /\ IsInjective(q[n][d]) /\ IsInjective(out[d]) /\ Precedes(q[n][d])
        /\ ToSet(q[n][d]) \subseteq InNet(q) /\ ToSet(out[d]) \subseteq OutSet(out)
  <2>1. \A d \in Nodes : ToSet(out[d]) \subseteq OutSet(out) /\ IsInjective(out[d])
    BY DEF OutSet, Sends
  <2> QED BY <2>1, <1>1, CarriedQueue
<1>3. \A d \in Nodes :
        /\ q[n][d] \o out[d] \in Seq(Message) /\ IsInjective(q[n][d] \o out[d])
        /\ ToSet(q[n][d] \o out[d]) = ToSet(q[n][d]) \cup ToSet(out[d])
        /\ Precedes(q[n][d] \o out[d])
  <2> TAKE d \in Nodes
  <2> DEFINE a == q[n][d]
             b == out[d]
  <2>1. /\ a \in Seq(Message) /\ b \in Seq(Message) /\ IsInjective(a) /\ IsInjective(b)
        /\ Precedes(a) /\ ToSet(a) \subseteq InNet(q) /\ ToSet(b) \subseteq OutSet(out)
    BY <1>2
  <2>2. /\ ToSet(a) \cap ToSet(b) = {}
        /\ \A m \in ToSet(b), x \in ToSet(a) \cup ToSet(b) :
             Grant(m) /\ Owing(x) => m.line # x.line
    BY <2>1 DEF Follows
  <2> HIDE DEF a, b
  <2>3. /\ a \o b \in Seq(Message) /\ IsInjective(a \o b)
        /\ ToSet(a \o b) = ToSet(a) \cup ToSet(b)
    BY <2>1, <2>2, ConcatSet
  <2>4. Precedes(a \o b)
    BY <2>1, <2>2, PrecedesAfter
  <2> QED BY <2>3, <2>4 DEF a, b
<1>4. /\ row \in [Nodes -> Seq(Message)]
      /\ \A d \in Nodes : /\ IsInjective(row[d]) /\ Precedes(row[d])
                          /\ ToSet(row[d]) = ToSet(q[n][d]) \cup ToSet(out[d])
  BY <1>3
<1> HIDE DEF row
<1>5. /\ p \in [Nodes -> [Nodes -> Seq(Message)]] /\ p[n] = row
      /\ \A a \in Nodes \ {n} : p[a] = q[a]
  BY <1>1, <1>4 DEF Sent, row
<1> HIDE DEF p
<1>6. \A a, b \in Nodes : Precedes(p[a][b])
  BY ZenonT(60), <1>4, <1>5, CarriedQueue
<1>7. Sends(n, row)
  <2>1. \A d \in Nodes : \A m \in ToSet(row[d]) : m.src = n /\ m.dst = d
    <3>1. \A d \in Nodes : \A m \in ToSet(out[d]) : m.src = n /\ m.dst = d
      BY DEF Sends
    <3> QED BY <3>1, <1>4, CarriedQueue
  <2> QED BY <2>1, <1>4 DEF Sends
<1>8. \A a \in Nodes : Sends(a, p[a])
  BY <1>5, <1>7 DEF Carried
<1>9. Carried(p)
  BY <1>5, <1>6, <1>8 DEF Carried
<1>10. InNet(p) = InNet(q) \cup OutSet(out)
  <2>1. \A x : /\ x \in InNet(q) <=> \E a, b \in Nodes : x \in ToSet(q[a][b])
               /\ x \in InNet(p) <=> \E a, b \in Nodes : x \in ToSet(p[a][b])
    BY InNetMember
  <2>2. \A x : x \in OutSet(out) <=> \E b \in Nodes : x \in ToSet(out[b])
    BY DEF OutSet
  <2>3. \A b \in Nodes : ToSet(p[n][b]) = ToSet(q[n][b]) \cup ToSet(out[b])
    BY <1>4, <1>5
  <2>4. \A a \in Nodes \ {n} : \A b \in Nodes : ToSet(p[a][b]) = ToSet(q[a][b])
    BY <1>5
  <2>5. \A x : x \in InNet(p) <=> x \in InNet(q) \/ x \in OutSet(out)
    <3> TAKE x
    <3>1. ASSUME x \in InNet(p) PROVE x \in InNet(q) \/ x \in OutSet(out)
      <4>1. PICK a \in Nodes, b \in Nodes : x \in ToSet(p[a][b])
        BY <3>1, <2>1
      <4>2. CASE a = n
        BY <4>1, <4>2, <2>1, <2>2, <2>3
      <4>3. CASE a # n
        BY <4>1, <4>3, <2>1, <2>4
      <4> QED BY <4>2, <4>3
    <3>2. ASSUME x \in InNet(q) PROVE x \in InNet(p)
      <4>1. PICK a \in Nodes, b \in Nodes : x \in ToSet(q[a][b])
        BY <3>2, <2>1
      <4>2. CASE a = n
        BY <4>1, <4>2, <2>1, <2>3
      <4>3. CASE a # n
        BY <4>1, <4>3, <2>1, <2>4
      <4> QED BY <4>2, <4>3
    <3>3. ASSUME x \in OutSet(out) PROVE x \in InNet(p)
      BY <3>3, <2>1, <2>2, <2>3
    <3> QED BY <3>1, <3>2, <3>3
  <2> QED BY <2>5
<1> QED BY <1>9, <1>10 DEF p

-----------------------------------------------------------------------------
(* What a node sends.                                                      *)

\* The ports of the bus.
LEMMA NodeFacts ==
  /\ L1s \subseteq Nodes /\ LLC \in Nodes /\ MEM \in Nodes /\ Nodes = L1s \cup {LLC, MEM}
  /\ L1s \subseteq Nat /\ LLC \notin L1s /\ MEM \notin L1s /\ LLC # MEM
  BY NumL1Assumption DEF L1s, LLC, MEM, Nodes

\* A message that is built from the right parts.
LEMMA MessageFacts ==
  ASSUME NEW ty \in MessageTypes, NEW ch \in {ACK, RESP, REQ}, NEW sr \in Nodes, NEW ds \in Nodes,
         NEW l \in Lines, NEW ar \in Nat, NEW da \in Data,
         ty \in {"GETS_RESP", "GETM_RESP"} => ch = RESP,
         ty \in {"INVALID", "GETS_FORWARD", "GETM_FORWARD"} => ch \in {RESP, REQ}
  PROVE  Msg(ty, ch, sr, ds, l, ar, da) \in Message
<1> DEFINE x == Msg(ty, ch, sr, ds, l, ar, da)
           R == [type : MessageTypes, cha : {ACK, RESP, REQ}, src : Nodes, dst : Nodes,
                 line : Lines, arg : Nat, data : Data]
<1>1. x \in R
  BY DEF Msg
<1>2. x.type = ty /\ x.cha = ch
  BY MsgFacts
<1> HIDE DEF x, R
<1>3. Channelled(x)
  BY <1>2 DEF Channelled
<1> QED BY <1>1, <1>3 DEF Message, x, R

\* A message of the LLC.
LEMMA LLCMessageFacts ==
  ASSUME NEW ty \in MessageTypes, NEW ch \in {ACK, RESP, REQ}, NEW ds \in Nodes,
         NEW l \in Lines, NEW ar \in Nat, NEW da \in Data,
         ty \in {"GETS_RESP", "GETM_RESP"} => ch = RESP,
         ty \in {"INVALID", "GETS_FORWARD", "GETM_FORWARD"} => ch \in {RESP, REQ}
  PROVE  LET x == FromLLC(ty, ch, ds, l, ar, da) IN
         /\ x \in Message /\ x.type = ty /\ x.src = LLC /\ x.dst = ds /\ x.line = l
         /\ x.arg = ar /\ x.data = da
<1>1. Msg(ty, ch, LLC, ds, l, ar, da) \in Message
  BY NodeFacts, MessageFacts
<1> QED BY <1>1, MsgFacts DEF FromLLC

\* A forward or an invalidation.
LEMMA ForwardFacts ==
  ASSUME NEW ty \in {"INVALID", "GETS_FORWARD", "GETM_FORWARD"}, NEW ch \in {RESP, REQ},
         NEW ds \in Nodes, NEW l \in Lines, NEW i \in L1s
  PROVE  LET x == FromLLC(ty, ch, ds, l, i, NoData) IN
         /\ x \in Message /\ x.type = ty /\ x.src = LLC /\ x.dst = ds /\ x.line = l
<1>1. ty \in MessageTypes /\ ty \notin {"GETS_RESP", "GETM_RESP"} /\ ch \in {ACK, RESP, REQ}
  BY DEF MessageTypes
<1>2. i \in Nat /\ NoData \in Data
  BY NodeFacts, DataFacts
<1> QED BY <1>1, <1>2, LLCMessageFacts

\* An answer of the LLC.
LEMMA AnswerFacts ==
  ASSUME NEW ty \in {"GETS_RESP", "GETM_RESP", "GETM_ACK"}, NEW i \in L1s, NEW l \in Lines,
         NEW n \in Nat, NEW da \in Data
  PROVE  LET x == FromLLC(ty, RESP, i, l, n, da) IN
         /\ x \in Message /\ x.type = ty /\ x.src = LLC /\ x.dst = i /\ x.line = l
<1>1. ty \in MessageTypes /\ ty \notin {"INVALID", "GETS_FORWARD", "GETM_FORWARD"} /\ i \in Nodes
  BY NodeFacts DEF MessageTypes
<1> QED BY <1>1, LLCMessageFacts

\* Nothing to send.
LEMMA NothingSent ==
  ASSUME NEW n
  PROVE  Sends(n, Nothing) /\ OutSet(Nothing) = {}
<1>1. \A d \in Nodes : Nothing[d] = <<>>
  BY DEF Nothing
<1>2. <<>> \in Seq(Message) /\ ToSet(<<>>) = {} /\ IsInjective(<<>>)
  BY EmptySet
<1> QED BY <1>1, <1>2 DEF Sends, OutSet, Nothing

\* One message more to send.
LEMMA AlsoSent ==
  ASSUME NEW n \in Nodes, NEW out, Sends(n, out), NEW x \in Message, x.src = n, x \notin OutSet(out)
  PROVE  Sends(n, Also(out, x)) /\ OutSet(Also(out, x)) = OutSet(out) \cup {x}
<1> DEFINE o == Also(out, x)
           d == x.dst
           q == Append(out[d], x)
<1>1. d \in Nodes /\ out \in [Nodes -> Seq(Message)]
  BY DEF Message, Sends
<1>2. out[d] \in Seq(Message) /\ IsInjective(out[d]) /\ x \notin ToSet(out[d])
  BY <1>1 DEF OutSet, Sends
<1>3. q \in Seq(Message) /\ ToSet(q) = ToSet(out[d]) \cup {x} /\ IsInjective(q)
  <2> DEFINE b == out[d]
  <2> HIDE DEF b, d
  <2>1. b \in Seq(Message) /\ IsInjective(b) /\ x \notin ToSet(b)
    BY <1>2 DEF b
  <2>2. /\ Append(b, x) \in Seq(Message) /\ ToSet(Append(b, x)) = ToSet(b) \cup {x}
        /\ IsInjective(Append(b, x))
    <3>1. x \in Message
      OBVIOUS
    <3> HIDE DEF Message
    <3> QED BY ONLY <2>1, <3>1, AppendSet
  <2> QED BY <2>2 DEF b
<1>4. o = [out EXCEPT ![d] = q]
  BY DEF Also
<1> HIDE DEF o, q, d
<1>5. /\ o \in [Nodes -> Seq(Message)] /\ o[d] = q
      /\ \A k \in Nodes \ {d} : o[k] = out[k]
  BY <1>1, <1>3, <1>4
<1>6. Sends(n, o)
  <2>1. \A m \in ToSet(q) : m.src = n /\ m.dst = d
    BY <1>1, <1>3 DEF Sends, d
  <2> QED BY <2>1, <1>3, <1>5 DEF Sends
<1>7. \A y : y \in OutSet(o) <=> y \in OutSet(out) \/ y = x
  <2>1. \A y : /\ y \in OutSet(out) <=> \E k \in Nodes : y \in ToSet(out[k])
               /\ y \in OutSet(o) <=> \E k \in Nodes : y \in ToSet(o[k])
    BY DEF OutSet
  <2> QED BY <2>1, <1>1, <1>3, <1>5
<1> QED BY <1>6, <1>7 DEF o

\* One message to send.
LEMMA JustSent ==
  ASSUME NEW n \in Nodes, NEW x \in Message, x.src = n
  PROVE  Sends(n, Just(x)) /\ OutSet(Just(x)) = {x}
  BY NothingSent, AlsoSent DEF Just

\* INVALID to each of the holders.
LEMMA InvalidsSent ==
  ASSUME NEW S \in SUBSET L1s, NEW l \in Lines, NEW i \in L1s
  PROVE  /\ Sends(LLC, Invalids(S, l, i))
         /\ OutSet(Invalids(S, l, i)) = {FromLLC("INVALID", RESP, d, l, i, NoData) : d \in S}
<1> DEFINE o == Invalids(S, l, i)
           x(d) == FromLLC("INVALID", RESP, d, l, i, NoData)
<1>1. ASSUME NEW d \in Nodes
      PROVE x(d) \in Message /\ x(d).src = LLC /\ x(d).dst = d
  BY ForwardFacts
<1> HIDE DEF x
<1>2. \A d \in Nodes : o[d] = IF d \in S THEN <<x(d)>> ELSE <<>>
  BY DEF Invalids, x
<1>3. \A d \in Nodes : /\ o[d] \in Seq(Message) /\ IsInjective(o[d])
                       /\ ToSet(o[d]) = IF d \in S THEN {x(d)} ELSE {}
  <2> TAKE d \in Nodes
  <2>1. CASE d \in S
    BY ZenonT(60), <2>1, <1>1, <1>2, OneSet
  <2>2. CASE d \notin S
    BY <2>2, <1>2, EmptySet
  <2> QED BY <2>1, <2>2
<1>4. o \in [Nodes -> Seq(Message)]
  <2>1. o = [d \in Nodes |-> o[d]]
    BY DEF Invalids
  <2> HIDE DEF o
  <2> QED BY <2>1, <1>3
<1> HIDE DEF o
<1>5. Sends(LLC, o)
  BY <1>1, <1>3, <1>4 DEF Sends
<1>6. OutSet(o) = {x(d) : d \in S}
  <2>1. \A y : y \in OutSet(o) <=> \E d \in Nodes : y \in ToSet(o[d])
    BY DEF OutSet
  <2>2. S \subseteq Nodes
    BY NodeFacts
  <2>3. \A y : y \in OutSet(o) <=> \E d \in S : y = x(d)
    BY <2>1, <2>2, <1>3
  <2> QED BY <2>3
<1> QED BY <1>5, <1>6 DEF o, x

\* What the LLC sends for a GETM (p2_index) is what the line layer says.
LEMMA ForGetMSent ==
  ASSUME NEW e \in [exists : SUBSET L1s, owner : L1s, dirty : BOOLEAN], e.owner \in e.exists,
         NEW l \in Lines, NEW i \in L1s
  PROVE  Sends(LLC, ForGetM(e, l, i)) /\ OutSet(ForGetM(e, l, i)) = MsgsForGetM(e, l, i)
<1> DEFINE H == Invalidated(e, i)
           o == Invalids(H, l, i)
           f == FromLLC("GETM_FORWARD", REQ, e.owner, l, i, NoData)
           a == FromLLC("GETM_ACK", RESP, i, l, Cardinality(H), NoData)
           I == {FromLLC("INVALID", RESP, d, l, i, NoData) : d \in H}
<1>1. H \in SUBSET L1s /\ Cardinality(H) \in Nat
  <2>1. H \in SUBSET L1s
    BY DEF Invalidated
  <2> QED BY <2>1, L1sFinite
<1> HIDE DEF H
<1>2. Sends(LLC, o) /\ OutSet(o) = I
  BY <1>1, InvalidsSent
<1>3. /\ f \in Message /\ f.src = LLC /\ f.type = "GETM_FORWARD"
      /\ a \in Message /\ a.src = LLC /\ a.type = "GETM_ACK"
  <2>1. e.owner \in Nodes /\ NoData \in Data
    BY NodeFacts, DataFacts
  <2>2. f \in Message /\ f.src = LLC /\ f.type = "GETM_FORWARD"
    BY <2>1, ForwardFacts
  <2>3. a \in Message /\ a.src = LLC /\ a.type = "GETM_ACK"
    BY <1>1, <2>1, AnswerFacts
  <2> QED BY <2>2, <2>3
<1>4. \A x \in I : x.type = "INVALID"
  BY MsgFacts DEF FromLLC
<1> HIDE DEF I, f, a, o
<1> DEFINE p == IF i \in e.exists THEN o ELSE Also(o, f)
           P == I \cup (IF i \in e.exists THEN {} ELSE {f})
<1>5. Sends(LLC, p) /\ OutSet(p) = P
  <2>1. CASE i \in e.exists
    BY <2>1, <1>2
  <2>2. CASE i \notin e.exists
    <3>1. f \notin OutSet(o)
      BY <1>2, <1>3, <1>4
    <3>2. Sends(LLC, Also(o, f)) /\ OutSet(Also(o, f)) = OutSet(o) \cup {f}
      BY <3>1, <1>2, <1>3, NodeFacts, AlsoSent
    <3> QED BY <3>2, <2>2, <1>2
  <2> QED BY <2>1, <2>2
<1>6. a \notin OutSet(p)
  BY <1>3, <1>4, <1>5
<1> HIDE DEF p
<1>7. Sends(LLC, Also(p, a)) /\ OutSet(Also(p, a)) = P \cup {a}
  BY <1>5, <1>6, <1>3, NodeFacts, AlsoSent
<1>8. ForGetM(e, l, i) = Also(p, a)
  BY DEF ForGetM, p, o, f, a, H
<1>9. MsgsForGetM(e, l, i) = P \cup {a}
  BY DEF MsgsForGetM, I, f, a, H
<1> QED BY <1>7, <1>8, <1>9

-----------------------------------------------------------------------------
(* What a step changes of the lines.                                       *)

\* The invariant is kept, and every line makes a step or none.
Kept == MoesiInv' /\ LinesMove

\* If every line makes a step or none, every line keeps its invariant.
LEMMA LinesKept ==
  ASSUME LinesInv, LinesMove
  PROVE  LinesInv'
<1> SUFFICES ASSUME NEW l \in Lines PROVE LineInv(l, View(l)')
  BY DEF LinesInv
<1> DEFINE s == View(l)
           t == View(l)'
<1>1. LineInv(l, s) /\ (t = s \/ LineStep(l, s, t))
  BY DEF LinesInv, LinesMove
<1> HIDE DEF s, t
<1>2. LineInv(l, t)
  BY <1>1, LineKeeps
<1> QED BY <1>2 DEF t

\* The parts of a view.
LEMMA ViewFacts ==
  ASSUME NEW l
  PROVE  /\ View(l).cache = [i \in L1s |-> block[i][l]] /\ View(l).mshr = [i \in L1s |-> mshr[i][l]]
         /\ View(l).msgs = MsgsOf(l) /\ View(l).entry = EntryOf(l) /\ View(l).owed = Owed(l)
         /\ View(l).blk = blk[l] /\ View(l).mem = mem[l] /\ View(l).golden = golden[l]
  BY DEF View

\* What cache i has in a view.
LEMMA ViewAt ==
  ASSUME NEW l, NEW i \in L1s
  PROVE  View(l).cache[i] = block[i][l] /\ View(l).mshr[i] = mshr[i][l]
<1>1. View(l).cache = [k \in L1s |-> block[k][l]] /\ View(l).mshr = [k \in L1s |-> mshr[k][l]]
  BY ViewFacts
<1> DEFINE s == View(l)
<1> HIDE DEF s
<1>2. s.cache = [k \in L1s |-> block[k][l]] /\ s.mshr = [k \in L1s |-> mshr[k][l]]
  BY <1>1 DEF s
<1>3. s.cache[i] = block[i][l] /\ s.mshr[i] = mshr[i][l]
  BY <1>2
<1> QED BY <1>3 DEF s

\* The messages about a line, wherever they wait.
LEMMA MsgsFacts ==
  ASSUME Carried(net), NEW l, NEW m
  PROVE  m \in MsgsOf(l) <=> /\ m.line = l
                             /\ \/ m \in InNet(net) \/ m \in ToSet(recv_buf)
                                \/ m \in ToSet(queue_index) \/ m \in Packaged
  BY InFlightIsNet DEF MsgsOf

\* Those of the messages S that are about line l.
Of(S, l) == {m \in S : m.line = l}

\* Cache i acts; messages gone leave the bus and new ones enter it.
L1Acts(i, gone, new) ==
  /\ UNCHANGED llcVars /\ Carried(net')
  /\ gone \subseteq InNet(net) /\ InNet(net') = (InNet(net) \ gone) \cup new
  /\ \A k \in L1s \ {i} : block'[k] = block[k] /\ mshr'[k] = mshr[k]

\* An L1 acts: messages go, others come, all of them on the bus.
LEMMA L1Frame ==
  ASSUME MoesiInv, NEW i \in L1s, NEW gone, NEW new, L1Acts(i, gone, new), NEW l \in Lines
  PROVE  /\ AtL1(View(l), View(l)', i, block'[i][l], mshr'[i][l],
                 Of(gone, l), Of(new, l))
         /\ View(l)'.golden = golden'[l]
<1> DEFINE s == View(l)
           t == View(l)'
           g == {m \in gone : m.line = l}
           n == {m \in new : m.line = l}
<1>a. /\ UNCHANGED llcVars /\ Carried(net')
      /\ gone \subseteq InNet(net) /\ InNet(net') = (InNet(net) \ gone) \cup new
      /\ \A k \in L1s \ {i} : block'[k] = block[k] /\ mshr'[k] = mshr[k]
  BY DEF L1Acts
<1>1. /\ s.cache = [k \in L1s |-> block[k][l]] /\ s.mshr = [k \in L1s |-> mshr[k][l]]
      /\ s.msgs = MsgsOf(l) /\ s.entry = EntryOf(l) /\ s.owed = Owed(l)
      /\ s.blk = blk[l] /\ s.mem = mem[l] /\ s.golden = golden[l]
  BY ViewFacts
<1>2. /\ t.cache = [k \in L1s |-> block'[k][l]] /\ t.mshr = [k \in L1s |-> mshr'[k][l]]
      /\ t.msgs = MsgsOf(l)' /\ t.entry = EntryOf(l)' /\ t.owed = Owed(l)'
      /\ t.blk = blk'[l] /\ t.mem = mem'[l] /\ t.golden = golden'[l]
  BY DEF View
<1>3. /\ t.entry = s.entry /\ t.owed = s.owed /\ t.blk = s.blk /\ t.mem = s.mem
  <2>1. EntryOf(l)' = EntryOf(l)
    BY <1>a DEF EntryOf, Packages, llcVars
  <2>2. Owed(l)' = Owed(l)
    BY <1>a DEF Owed, Packages, llcVars
  <2>3. blk'[l] = blk[l] /\ mem'[l] = mem[l]
    BY <1>a DEF llcVars
  <2> HIDE DEF s, t
  <2> QED BY <1>1, <1>2, <2>1, <2>2, <2>3
<1>4. \A m : m \in MsgsOf(l)' <=> (m \in MsgsOf(l) /\ m \notin g) \/ m \in n
  <2> TAKE m
  <2>1. Carried(net) /\ InNet(net) \cap (ToSet(recv_buf) \cup ToSet(queue_index) \cup Packaged) = {}
    BY DEF MoesiInv, Apart
  <2>2. m \in MsgsOf(l) <=> /\ m.line = l
                            /\ \/ m \in InNet(net) \/ m \in ToSet(recv_buf)
                               \/ m \in ToSet(queue_index) \/ m \in Packaged
    BY <2>1, MsgsFacts
  <2>3. m \in MsgsOf(l)' <=> /\ m.line = l
                             /\ \/ m \in InNet(net') \/ m \in ToSet(recv_buf)
                                \/ m \in ToSet(queue_index) \/ m \in Packaged
    <3>1. InFlight' = InNet(net')
      BY <1>a, InFlightIsNet
    <3>2. ToSet(recv_buf)' = ToSet(recv_buf) /\ ToSet(queue_index)' = ToSet(queue_index) /\ Packaged' = Packaged
      BY <1>a DEF llcVars, Packaged
    <3> QED BY <3>1, <3>2 DEF MsgsOf
  <2> QED BY <2>1, <2>2, <2>3, <1>a
<1>5. t.msgs = (s.msgs \ g) \cup n
  <2> HIDE DEF s, t
  <2> QED BY <1>4, <1>1, <1>2
<1>6. /\ t.cache = [s.cache EXCEPT ![i] = block'[i][l]]
      /\ t.mshr = [s.mshr EXCEPT ![i] = mshr'[i][l]]
  <2>2. [k \in L1s |-> block'[k][l]] = [[k \in L1s |-> block[k][l]] EXCEPT ![i] = block'[i][l]]
    BY <1>a
  <2>3. [k \in L1s |-> mshr'[k][l]] = [[k \in L1s |-> mshr[k][l]] EXCEPT ![i] = mshr'[i][l]]
    BY <1>a
  <2> HIDE DEF s, t
  <2> QED BY <1>1, <1>2, <2>2, <2>3
<1>7. t.golden = golden'[l]
  BY <1>2
<1> HIDE DEF s, t, g, n, Of
<1>8. AtL1(s, t, i, block'[i][l], mshr'[i][l], g, n)
  BY <1>3, <1>5, <1>6 DEF AtL1
<1> QED BY <1>7, <1>8 DEF s, t, g, n, Of

-----------------------------------------------------------------------------
(* A message that is sent is on its way only once.                         *)

\* The invariant of one line.
LEMMA MoesiLine == MoesiInv => \A l \in Lines : LineInv(l, View(l))
  BY DEF MoesiInv, LinesInv

\* The messages in the packages.
LEMMA PackagedFacts ==
  ASSUME MoesiInv, NEW x
  PROVE  x \in Packaged <=> \E p \in ToSet(process_buf) : x \in OutSet(p.sends)
<1>1. process_buf \in Seq(Package)
  BY DEF MoesiInv, Queued
<1>2. \A p : p \in ToSet(process_buf) <=> \E k \in 1 .. Len(process_buf) : process_buf[k] = p
  BY <1>1, ToSetFacts
<1>3. x \in Packaged <=> \E k \in 1 .. Len(process_buf) : x \in OutSet(process_buf[k].sends)
  BY DEF Packaged, OutSet
<1> QED BY <1>2, <1>3

\* A message anywhere is in the view of its line.
LEMMA MessagesHere ==
  ASSUME MoesiInv, NEW x, x \in InNet(net) \/ x \in ToSet(recv_buf) \/ x \in ToSet(queue_index) \/ x \in Packaged
  PROVE  x \in Message /\ x.line \in Lines /\ x \in View(x.line).msgs
<1>1. Carried(net) /\ Queued /\ Packed
  BY DEF MoesiInv
<1>2. x \in Message
  <2>1. CASE x \in InNet(net)
    BY <2>1, <1>1, InNetPlace
  <2>2. CASE x \in ToSet(recv_buf)
    BY <2>2, <1>1, ToSetFacts DEF Queued
  <2>3. CASE x \in ToSet(queue_index)
    BY <2>3, <1>1, ToSetFacts DEF Queued
  <2>4. CASE x \in Packaged
    <3>1. PICK p \in ToSet(process_buf) : x \in OutSet(p.sends)
      BY <2>4, PackagedFacts
    <3>2. p.sends \in [Nodes -> Seq(Message)]
      BY <1>1 DEF Packed, Sends
    <3>3. PICK d \in Nodes : x \in ToSet(p.sends[d])
      BY <3>1 DEF OutSet
    <3>4. p.sends[d] \in Seq(Message)
      BY <3>2
    <3> QED BY <3>3, <3>4, ToSetFacts
  <2> QED BY <2>1, <2>2, <2>3, <2>4
<1>3. x.line \in Lines
  BY <1>2 DEF Message
<1>4. x \in MsgsOf(x.line)
  BY <1>1, MsgsFacts
<1> QED BY <1>2, <1>3, <1>4, ViewFacts

\* A request.
LEMMA FreshRequest ==
  ASSUME NEW l, NEW s, LineInv(l, s), NEW x, Request(x), s.mshr[x.src].st = "-"
  PROVE  x \notin s.msgs
<1> SUFFICES ASSUME x \in s.msgs PROVE FALSE
  OBVIOUS
<1>1. Client(x) = x.src /\ x.type # "GET_ACK"
  BY DEF Client, Request
<1> QED BY <1>1, About

\* What an L1 answers to m; of the rest of a transaction there is nothing else.
LEMMA FreshAnswer ==
  ASSUME NEW l, NEW s, LineInv(l, s), NEW m \in s.msgs, NEW x, Owing(m), Owing(x),
         Token(x) \/ Token(m), m.type # x.type
  PROVE  x \notin s.msgs
  BY DEF LineInv, TokenAlone

\* While an INVALID is on its way its INVALID_ACK is not.
LEMMA FreshAck ==
  ASSUME NEW l, NEW s, LineInv(l, s), NEW m \in s.msgs, m.type = "INVALID",
         NEW x, x.type = "INVALID_ACK", x.src = m.dst
  PROVE  x \notin s.msgs
  BY AwaitedFacts

\* Of the GETM_FORWARD and the data it makes an L1 send, one is on its way.
LEMMA FreshData ==
  ASSUME NEW l, NEW s, LineInv(l, s), NEW m \in s.msgs, Carrying(m), NEW x, Carrying(x), m.type # x.type
  PROVE  x \notin s.msgs
  BY DEF LineInv, OneCarrier

\* An L1 is asked to give up a line only after it has taken it in.
LEMMA TakenInFirst ==
  ASSUME MoesiInv, NEW i \in L1s, NEW r \in Arriving(i),
         MsgAt(i, r).type \in {"INVALID", "GETS_FORWARD", "GETM_FORWARD"}
  PROVE  ~Granted(View(MsgAt(i, r).line), i)
<1> DEFINE m == MsgAt(i, r)
           l == m.line
           s == View(l)
           k == r.pos
           q == net[LLC][i]
<1>1. /\ Carried(net) /\ Queued /\ Packed
  BY DEF MoesiInv
<1>2. i \in Nodes /\ LLC \in Nodes /\ LLC \notin L1s
  BY NodeFacts
<1>3. m \in InNet(net) /\ m \in Message /\ m.src = r.from /\ m.dst = i
  BY <1>1, <1>2, TakenFacts
<1>4. m \in s.msgs /\ l \in Lines /\ LineInv(l, s)
  BY <1>3, MessagesHere, MoesiLine
<1>5. m.src = LLC /\ Owing(m)
  <2>1. WellFormed(l, m)
    BY <1>4, About
  <2> QED BY <2>1 DEF WellFormed, Owing
<1>6. k \in 1 .. Len(q) /\ m = q[k] /\ \A j \in 1 .. k - 1 : q[j].cha > m.cha
  <2>1. r.from = LLC
    BY <1>3, <1>5
  <2>2. PICK n \in Nodes : \E j \in 1 .. Len(net[n][i]) : Deliverable(n, i, j) /\ r = [from |-> n, pos |-> j]
    BY DEF Arriving
  <2>3. n = LLC /\ k \in 1 .. Len(net[n][i]) /\ Deliverable(n, i, k)
    BY <2>1, <2>2
  <2>4. m = q[k]
    BY <2>1 DEF MsgAt
  <2> QED BY <2>3, <2>4 DEF Deliverable
<1>7. s.owed
  BY <1>4, <1>5 DEF LineInv, OwingOwed
<1> SUFFICES ASSUME NEW g \in s.msgs, Grant(g), g.dst = i PROVE FALSE
  BY DEF Granted
<1>8. /\ g.line = l
      /\ g \in InNet(net) \/ g \in ToSet(recv_buf) \/ g \in ToSet(queue_index) \/ g \in Packaged
  <2>1. s.msgs = MsgsOf(l)
    BY ViewFacts
  <2> HIDE DEF s, l
  <2> QED BY <2>1, <1>1, MsgsFacts
<1>9. CASE g \in InNet(net)
  <2>1. g.src = LLC /\ g \in ToSet(q)
    BY <1>9, <1>1, InNetPlace DEF Grant
  <2>2. q \in Seq(Message) /\ Precedes(q)
    BY <1>1, <1>2, CarriedQueue
  <2> HIDE DEF q, m, k
  <2>3. PICK j \in 1 .. Len(q) : q[j] = g
    BY <2>1, <2>2, ToSetFacts
  <2>4. j < k
    BY <2>2, <2>3, <1>5, <1>6, <1>8 DEF Precedes
  <2>5. Len(q) \in Nat
    BY <2>2, LenProperties
  <2>6. g.cha > m.cha
    BY <2>3, <2>4, <2>5, <1>6
  <2>7. g.cha = RESP
    <3>1. g \in Message
      BY <2>3, <2>2, ElementOfSeq
    <3> QED BY <3>1 DEF Message, Channelled, Grant
  <2>8. m.cha \in {RESP, REQ}
    BY <1>3 DEF Message, Channelled, m
  <2> QED BY <2>6, <2>7, <2>8 DEF RESP, REQ
<1>10. CASE g \in ToSet(recv_buf) \/ g \in ToSet(queue_index)
  <2>1. Request(g)
    BY <1>10, <1>1 DEF Queued
  <2> QED BY <2>1 DEF Request, Grant
<1>11. CASE g \in Packaged
  <2>1. PICK p \in ToSet(process_buf) : g \in OutSet(p.sends)
    BY <1>11, PackagedFacts
  <2>2. p.line = l /\ ~p.delay
    BY <2>1, <1>1, <1>8 DEF Packed
  <2>3. ~Owed(l)
    BY <2>1, <2>2 DEF Owed, Packages
  <2> QED BY <2>3, <1>7, ViewFacts
<1> QED BY <1>8, <1>9, <1>10, <1>11

-----------------------------------------------------------------------------
(* An L1 takes a message in.                                               *)

\* What an L1 does leaves the queues of the LLC alone.
LEMMA QueuesKept ==
  ASSUME MoesiInv, UNCHANGED llcVars, Carried(net'), NEW gone, NEW new,
         InNet(net') = (InNet(net) \ gone) \cup new, \A x \in new : x \notin View(x.line).msgs
  PROVE  Queued' /\ Packed' /\ Apart' /\ Locked'
<1>1. Queued' /\ Packed' /\ Locked'
  BY DEF MoesiInv, Queued, Packed, Locked, llcVars
<1>2. \A x \in new : ~(x \in ToSet(recv_buf) \/ x \in ToSet(queue_index) \/ x \in Packaged)
  BY MessagesHere
<1>3. /\ InNet(net) \cap (ToSet(recv_buf) \cup ToSet(queue_index) \cup Packaged) = {}
      /\ ToSet(recv_buf) \cap ToSet(queue_index) = {}
  BY DEF MoesiInv, Apart
<1>4. recv_buf' = recv_buf /\ queue_index' = queue_index /\ Packaged' = Packaged
  BY DEF llcVars, Packaged
<1>5. InNet(net') \cap (ToSet(recv_buf) \cup ToSet(queue_index) \cup Packaged) = {}
  BY <1>2, <1>3
<1>6. Apart'
  BY <1>3, <1>4, <1>5 DEF Apart
<1> QED BY <1>1, <1>6

\* A message that arrives at an L1 is one of its line.
LEMMA MessageArrives ==
  ASSUME MoesiInv, NEW i \in L1s, NEW r \in Arriving(i)
  PROVE  LET m == MsgAt(i, r) IN
         /\ m \in InNet(net) /\ m \in Message /\ m.dst = i /\ m.line \in Lines
         /\ m \in View(m.line).msgs /\ LineInv(m.line, View(m.line))
<1>1. MsgAt(i, r) \in InNet(net) /\ MsgAt(i, r).dst = i
  BY NodeFacts, TakenFacts DEF MoesiInv
<1>2. MsgAt(i, r) \in Message /\ MsgAt(i, r).line \in Lines /\ MsgAt(i, r) \in View(MsgAt(i, r).line).msgs
  BY <1>1, MessagesHere
<1> QED BY <1>1, <1>2, MoesiLine

\* An L1 takes a message and sends others.
LEMMA Replied ==
  ASSUME MoesiInv, NEW i \in L1s, NEW r \in Arriving(i), NEW out, Sends(i, out), Reply(i, r, out),
         UNCHANGED llcVars, \A x \in OutSet(out) : x \notin View(x.line).msgs
  PROVE  /\ Carried(net') /\ InNet(net') = (InNet(net) \ {MsgAt(i, r)}) \cup OutSet(out)
         /\ Queued' /\ Packed' /\ Apart' /\ Locked'
<1> DEFINE m == MsgAt(i, r)
           q == Taken(i, r)
<1>1. Carried(q) /\ InNet(q) = InNet(net) \ {m} /\ i \in Nodes
  BY NodeFacts, TakenFacts DEF MoesiInv
<1>2. net' = Sent(q, i, out)
  BY DEF Reply
<1> HIDE DEF q, m
<1>3. \A x \in OutSet(out) : x \notin InNet(net)
  BY MessagesHere
<1>4. \A x \in OutSet(out) : ~Grant(x)
  <2>1. \A x \in OutSet(out) : x.src = i
    BY DEF OutSet, Sends
  <2> QED BY <2>1, NodeFacts DEF Grant
<1>5. Follows(q, out)
  BY <1>1, <1>3, <1>4 DEF Follows
<1>6. Carried(net') /\ InNet(net') = (InNet(net) \ {m}) \cup OutSet(out)
  BY <1>1, <1>2, <1>5, SentFacts
<1> QED BY <1>6, QueuesKept DEF m

\* The state g of the lines in the caches, where line l of cache i becomes c.
Update(g, i, l, c) == [g EXCEPT ![i][l] = c]
Becomes(g, f, i, l, c) ==
  /\ f = [k \in L1s |-> [j \in Lines |-> f[k][j]]]
  /\ f[i][l] = c
  /\ \A k \in L1s \ {i} : f[k] = g[k]
  /\ \A j \in Lines \ {l} : f[i][j] = g[i][j]

\* One entry of a table changes.
LEMMA Updated ==
  ASSUME NEW g, g = [k \in L1s |-> [j \in Lines |-> g[k][j]]], NEW i \in L1s, NEW l \in Lines, NEW c
  PROVE  Becomes(g, Update(g, i, l, c), i, l, c)
<1> DEFINE f == Update(g, i, l, c)
<1> DEFINE row == [g[i] EXCEPT ![l] = c]
<1>1. row = [j \in Lines |-> IF j = l THEN c ELSE g[i][j]]
  <2>1. g[i] = [j \in Lines |-> g[i][j]]
    OBVIOUS
  <2> DEFINE h == g[i]
  <2> HIDE DEF h
  <2>2. h = [j \in Lines |-> h[j]]
    BY <2>1 DEF h
  <2>3. [h EXCEPT ![l] = c] = [j \in Lines |-> IF j = l THEN c ELSE h[j]]
    BY <2>2
  <2> QED BY <2>3 DEF h
<1>2. f = [g EXCEPT ![i] = row]
  BY DEF Update
<1> HIDE DEF row, f
<1>3. f = [k \in L1s |-> IF k = i THEN row ELSE g[k]]
  BY <1>2
<1>4. f[i] = row /\ \A k \in L1s \ {i} : f[k] = g[k]
  BY <1>3
<1>5. \A k \in L1s : f[k] = [j \in Lines |-> f[k][j]]
  <2> TAKE k \in L1s
  <2>1. CASE k = i
    BY <2>1, <1>1, <1>4
  <2>2. CASE k # i
    BY <2>2, <1>4
  <2> QED BY <2>1, <2>2
<1>6. f = [k \in L1s |-> [j \in Lines |-> f[k][j]]]
  BY <1>3, <1>5
<1>7. f[i][l] = c /\ \A j \in Lines \ {l} : f[i][j] = g[i][j]
  BY <1>1, <1>4
<1> QED BY <1>4, <1>6, <1>7 DEF f, Becomes

\* The tables of the L1s keep their shape.
LEMMA ShapedUpdate ==
  ASSUME Shaped, NEW i \in L1s, NEW l \in Lines, NEW c
  PROVE  Becomes(block, Update(block, i, l, c), i, l, c) /\ Becomes(mshr, Update(mshr, i, l, c), i, l, c)
  BY Updated DEF Shaped

\* A line of which cache i and its messages stay as they are.
LEMMA L1Elsewhere ==
  ASSUME MoesiInv, NEW i \in L1s, NEW gone, NEW new, L1Acts(i, gone, new), NEW l \in Lines, \A m \in gone \cup new : m.line # l,
         block'[i][l] = block[i][l], mshr'[i][l] = mshr[i][l], golden'[l] = golden[l]
  PROVE  View(l)' = View(l)
<1> DEFINE s == View(l)
           t == View(l)'
<1>1. AtL1(s, t, i, block'[i][l], mshr'[i][l], {}, {}) /\ t.golden = golden'[l]
  <2>1. Of(gone, l) = {} /\ Of(new, l) = {}
    BY DEF Of
  <2>2. /\ AtL1(s, t, i, block'[i][l], mshr'[i][l], Of(gone, l), Of(new, l))
        /\ t.golden = golden'[l]
    BY L1Frame
  <2> QED BY <2>1, <2>2
<1>2. s.cache = [k \in L1s |-> block[k][l]] /\ s.mshr = [k \in L1s |-> mshr[k][l]] /\ s.golden = golden[l]
  BY ViewFacts
<1>3. /\ s = [cache |-> s.cache, mshr |-> s.mshr, msgs |-> s.msgs, entry |-> s.entry,
              owed |-> s.owed, blk |-> s.blk, mem |-> s.mem, golden |-> s.golden]
      /\ t = [cache |-> t.cache, mshr |-> t.mshr, msgs |-> t.msgs, entry |-> t.entry,
              owed |-> t.owed, blk |-> t.blk, mem |-> t.mem, golden |-> t.golden]
  BY DEF View
<1> HIDE DEF s, t
<1>4. t.cache = s.cache /\ t.mshr = s.mshr /\ t.msgs = s.msgs /\ t.golden = s.golden
  <2>1. s.cache = [s.cache EXCEPT ![i] = block[i][l]]
    BY <1>2
  <2>2. s.mshr = [s.mshr EXCEPT ![i] = mshr[i][l]]
    BY <1>2
  <2> QED BY <2>1, <2>2, <1>1, <1>2 DEF AtL1
<1>5. t.entry = s.entry /\ t.owed = s.owed /\ t.blk = s.blk /\ t.mem = s.mem
  BY <1>1 DEF AtL1
<1> QED BY <1>3, <1>4, <1>5 DEF s, t

\* An L1 takes in a message of one line and acts on no other.
LEMMA HandledKeeps ==
  ASSUME MoesiInv, NEW i \in L1s, NEW r \in Arriving(i), NEW l, l = MsgAt(i, r).line,
         NEW out, Sends(i, out), Reply(i, r, out), UNCHANGED llcVars, golden' = golden,
         \A x \in OutSet(out) : x.line = l /\ x \notin View(l).msgs,
         NEW c, Becomes(block, block', i, l, c), NEW e, Becomes(mshr, mshr', i, l, e),
         LineHandles(View(l), View(l)', i, MsgAt(i, r), c, e, OutSet(out)) => LineStep(l, View(l), View(l)')
  PROVE  Kept
<1> DEFINE m == MsgAt(i, r)
           new == OutSet(out)
<1>1. m \in InNet(net) /\ m.dst = i /\ m.line = l /\ l \in Lines /\ m \in View(l).msgs
  BY MessageArrives
<1>2. /\ Carried(net') /\ InNet(net') = (InNet(net) \ {m}) \cup new
      /\ Queued' /\ Packed' /\ Apart' /\ Locked'
  BY Replied
<1>3. Shaped
  BY DEF MoesiInv
<1>4. /\ block'[i][l] = c /\ mshr'[i][l] = e
      /\ \A k \in L1s \ {i} : block'[k] = block[k] /\ mshr'[k] = mshr[k]
      /\ \A j \in Lines \ {l} : block'[i][j] = block[i][j] /\ mshr'[i][j] = mshr[i][j]
      /\ block' = [k \in L1s |-> [j \in Lines |-> block'[k][j]]]
      /\ mshr' = [k \in L1s |-> [j \in Lines |-> mshr'[k][j]]]
  BY DEF Becomes
<1>5. Shaped'
  BY <1>3, <1>4 DEF Shaped, llcVars
<1> DEFINE gone == {m}
<1>g. L1Acts(i, gone, new)
  <2>1. gone \subseteq InNet(net) /\ InNet(net') = (InNet(net) \ gone) \cup new
    BY <1>1, <1>2
  <2> HIDE DEF gone
  <2> QED BY <2>1, <1>2, <1>4 DEF L1Acts
<1> HIDE DEF m, new, gone
<1>6. LineStep(l, View(l), View(l)')
  <2>1. AtL1(View(l), View(l)', i, block'[i][l], mshr'[i][l], {m}, new) /\ View(l)'.golden = golden'[l]
    <3>1. Of(gone, l) = {m} /\ Of(new, l) = new
      BY <1>1 DEF new, gone, Of
    <3>3. /\ AtL1(View(l), View(l)', i, block'[i][l], mshr'[i][l], Of(gone, l), Of(new, l))
          /\ View(l)'.golden = golden'[l]
      BY <1>g, <1>1, L1Frame
    <3> QED BY <3>1, <3>3
  <2>2. View(l).golden = golden[l] /\ golden'[l] = golden[l]
    BY ViewFacts
  <2>3. LineHandles(View(l), View(l)', i, m, c, e, new)
    BY <2>1, <2>2, <1>1, <1>4 DEF LineHandles
  <2> QED BY <2>3 DEF m, new
<1>7. ASSUME NEW j \in Lines, j # l PROVE View(j)' = View(j)
  <2>1. \A y \in gone \cup new : y.line # j
    BY <1>1, <1>7 DEF new, gone
  <2>3. block'[i][j] = block[i][j] /\ mshr'[i][j] = mshr[i][j] /\ golden'[j] = golden[j]
    BY <1>4, <1>7
  <2> QED BY <2>1, <2>3, <1>g, L1Elsewhere
<1>8. LinesMove /\ LinesInv'
  <2>1. LinesMove
    BY <1>6, <1>7 DEF LinesMove
  <2> QED BY <2>1, LinesKept DEF MoesiInv
<1> QED BY <1>2, <1>5, <1>8 DEF MoesiInv, Kept

\* Two entries of a row change.
LEMMA UpdatedTwice ==
  ASSUME Shaped, NEW i \in L1s, NEW l \in Lines, NEW v \in Lines, v # l,
         NEW g \in {block, mshr}, NEW c, NEW d
  PROVE  LET f == Update(Update(g, i, l, c), i, v, d) IN
         /\ f = [k \in L1s |-> [j \in Lines |-> f[k][j]]]
         /\ f[i][l] = c /\ f[i][v] = d
         /\ \A k \in L1s \ {i} : f[k] = g[k]
         /\ \A j \in Lines \ {l, v} : f[i][j] = g[i][j]
<1> DEFINE h == Update(g, i, l, c)
           f == Update(h, i, v, d)
<1>1. Becomes(g, h, i, l, c)
  BY ShapedUpdate
<1> HIDE DEF h
<1>2. h = [k \in L1s |-> [j \in Lines |-> h[k][j]]]
  BY <1>1 DEF Becomes
<1>3. Becomes(h, f, i, v, d)
  BY <1>2, Updated
<1> HIDE DEF f
<1> QED BY <1>1, <1>3 DEF Becomes, f, h

\* The victim of a line that enters the cache has no request on its way yet.
LEMMA PutFacts ==
  ASSUME MoesiInv, NEW i \in L1s, NEW v \in Lines, block[i][v].st # "I"
  PROVE  LET x == Put(i, v) IN
         /\ x \in Message /\ x.src = i /\ x.line = v /\ x \notin View(v).msgs
         /\ x = Msg(PutType[block[i][v].st], REQ, i, LLC, v, i,
                    IF block[i][v].st \in {"M", "O"} THEN block[i][v].data ELSE NoData)
<1> DEFINE c == block[i][v]
           ty == PutType[c.st]
           da == IF c.st \in {"M", "O"} THEN c.data ELSE NoData
           x == Msg(ty, REQ, i, LLC, v, i, da)
           s == View(v)
<1>1. LineInv(v, s)
  BY MoesiLine
<1>2. s.cache[i] = c /\ s.mshr[i] = mshr[i][v]
  BY ViewAt
<1>3. c \in [st : CacheStates, data : Data] /\ mshr[i][v].st = "-"
  <2> HIDE DEF c, s
  <2> QED BY <1>1, <1>2 DEF LineInv, LineTypes, OnePlace, c
<1>4. ty \in Puts
  BY <1>3 DEF CacheStates, PutType, Puts
<1>5. da \in Data
  BY <1>3, DataFacts
<1>6. x = Put(i, v)
  BY DEF Put
<1> HIDE DEF c, ty, da
<1>7. x \in Message
  <2>1. ty \in MessageTypes /\ ty \notin {"GETS_RESP", "GETM_RESP", "INVALID", "GETS_FORWARD", "GETM_FORWARD"}
    BY <1>4 DEF MessageTypes, Puts
  <2> QED BY <2>1, <1>5, NodeFacts, MessageFacts
<1>8. x.type \in Puts /\ x.src = i /\ x.line = v
  BY <1>4, MsgFacts
<1> HIDE DEF x
<1>9. x \notin s.msgs
  <2>1. Request(x) /\ s.mshr[x.src].st = "-"
    BY <1>2, <1>3, <1>8 DEF Request, Puts
  <2> HIDE DEF s
  <2> QED BY <2>1, <1>1, FreshRequest
<1> QED BY <1>6, <1>7, <1>8, <1>9 DEF x, c, ty, da

\* Array g becomes f, where two lines of L1 i are others.
BecomesTwo(g, f, i, l, c, v, d) ==
  /\ f = [k \in L1s |-> [j \in Lines |-> f[k][j]]]
  /\ f[i][l] = c /\ f[i][v] = d
  /\ \A k \in L1s \ {i} : f[k] = g[k]
  /\ \A j \in Lines \ {l, v} : f[i][j] = g[i][j]
\* A line enters a cache, and another may leave it, whether there was room for it or not.
Enters(i, l, st, data, r, out) ==
  LET c == [st |-> st, data |-> data] IN
  \/ Becomes(block, block', i, l, c) /\ Becomes(mshr, mshr', i, l, NoMSHR) /\ Reply(i, r, out)
  \/ \E v \in Lines \ {l} :
       /\ block[i][v].st # "I"
       /\ BecomesTwo(block, block', i, l, c, v, Absent)
       /\ BecomesTwo(mshr, mshr', i, l, NoMSHR, v, Evicting(block[i][v]))
       /\ Reply(i, r, Also(out, Put(i, v)))

\* handle_new_line_nolock is such a step.
LEMMA NewLineEnters ==
  ASSUME MoesiInv, NEW i \in L1s, NEW r \in Arriving(i), NEW l, l = MsgAt(i, r).line,
         NEW out, NEW st, NEW data, NewLine(i, l, st, data, r, out),
         Client(MsgAt(i, r)) = i, MsgAt(i, r).type # "GET_ACK"
  PROVE  Enters(i, l, st, data, r, out)
<1> DEFINE m == MsgAt(i, r)
           c == [st |-> st, data |-> data]
<1>1. m \in InNet(net) /\ m.dst = i /\ m.line = l /\ l \in Lines /\ m \in View(l).msgs /\ LineInv(l, View(l))
  BY MessageArrives
<1>2. Shaped
  BY DEF MoesiInv
<1>3. block[i][l].st = "I"
  <2> DEFINE s == View(l)
  <2>1. s.cache[i] = block[i][l] /\ LineInv(l, s) /\ m \in s.msgs /\ Client(m) = i /\ m.type # "GET_ACK"
    BY <1>1, ViewAt
  <2> HIDE DEF s, m
  <2>2. s.mshr[i].st # "-"
    BY <2>1, About
  <2> QED BY <2>1, <2>2 DEF LineInv, OnePlace
<1>4. CASE /\ block' = [block EXCEPT ![i][l] = c]
           /\ mshr' = [mshr EXCEPT ![i][l] = NoMSHR]
           /\ Reply(i, r, out)
  <2>1. block' = Update(block, i, l, c) /\ mshr' = Update(mshr, i, l, NoMSHR)
    BY <1>4 DEF Update
  <2> HIDE DEF c
  <2>2. Becomes(block, block', i, l, c) /\ Becomes(mshr, mshr', i, l, NoMSHR)
    BY <2>1, <1>1, <1>2, ShapedUpdate
  <2> QED BY <2>2, <1>4 DEF Enters, c
<1>5. ASSUME NEW v \in Present(i),
             block' = [[block EXCEPT ![i][l] = c] EXCEPT ![i][v] = Absent],
             mshr' = [mshr EXCEPT ![i][l] = NoMSHR, ![i][v] = Evicting(block[i][v])],
             Reply(i, r, Also(out, Put(i, v)))
      PROVE  Enters(i, l, st, data, r, out)
  <2> DEFINE e == Evicting(block[i][v])
  <2>1. v \in Lines /\ v # l /\ block[i][v].st # "I"
    BY <1>3 DEF Present
  <2>2. block' = Update(Update(block, i, l, c), i, v, Absent) /\ mshr' = Update(Update(mshr, i, l, NoMSHR), i, v, e)
    BY <1>5 DEF Update
  <2> HIDE DEF e, c
  <2>3. BecomesTwo(block, block', i, l, c, v, Absent)
    BY <2>1, <2>2, <1>1, <1>2, UpdatedTwice DEF BecomesTwo
  <2>4. BecomesTwo(mshr, mshr', i, l, NoMSHR, v, e)
    BY <2>1, <2>2, <1>1, <1>2, UpdatedTwice DEF BecomesTwo
  <2> QED BY <2>1, <2>3, <2>4, <1>5 DEF Enters, c, e
<1> QED BY <1>4, <1>5 DEF NewLine

\* A line enters a cache, and another may leave it.
LEMMA NewLineKeeps ==
  ASSUME MoesiInv, NEW i \in L1s, NEW r \in Arriving(i), NEW l, l = MsgAt(i, r).line,
         NEW out, Sends(i, out), NEW st, NEW data, Enters(i, l, st, data, r, out),
         UNCHANGED llcVars, golden' = golden,
         \A x \in OutSet(out) : x.line = l /\ x \notin View(l).msgs,
         Client(MsgAt(i, r)) = i, MsgAt(i, r).type # "GET_ACK",
         LineEnters(View(l), View(l)', i, MsgAt(i, r), st, data, OutSet(out)) => LineStep(l, View(l), View(l)')
  PROVE  Kept
<1> DEFINE m == MsgAt(i, r)
           c == [st |-> st, data |-> data]
<1>1. m \in InNet(net) /\ m.dst = i /\ m.line = l /\ l \in Lines /\ m \in View(l).msgs /\ LineInv(l, View(l))
  BY MessageArrives
<1>2. Shaped
  BY DEF MoesiInv
<1>4. CASE Becomes(block, block', i, l, c) /\ Becomes(mshr, mshr', i, l, NoMSHR) /\ Reply(i, r, out)
  <2>1. LineHandles(View(l), View(l)', i, MsgAt(i, r), c, NoMSHR, OutSet(out)) => LineStep(l, View(l), View(l)')
    BY DEF LineEnters
  <2> HIDE DEF c
  <2> QED BY <1>4, <2>1, HandledKeeps
<1>5. ASSUME NEW v \in Lines \ {l}, block[i][v].st # "I",
             BecomesTwo(block, block', i, l, c, v, Absent),
             BecomesTwo(mshr, mshr', i, l, NoMSHR, v, Evicting(block[i][v])),
             Reply(i, r, Also(out, Put(i, v)))
      PROVE  Kept
  <2> DEFINE e == Evicting(block[i][v])
             x == Put(i, v)
             all == Also(out, x)
             new == OutSet(all)
             gone == {m}
  <2>1. v \in Lines /\ v # l /\ block[i][v].st # "I"
    BY <1>5
  <2>2. x \in Message /\ x.src = i /\ x.line = v /\ x \notin View(v).msgs
    BY <2>1, PutFacts
  <2>3. Sends(i, all) /\ new = OutSet(out) \cup {x}
    <3>1. i \in Nodes /\ x \notin OutSet(out)
      BY <2>1, <2>2, NodeFacts
    <3> HIDE DEF x
    <3> QED BY <2>2, <3>1, AlsoSent
  <2> HIDE DEF e, x, all, c
  <2>5. /\ block'[i][l] = c /\ block'[i][v] = Absent /\ mshr'[i][l] = NoMSHR /\ mshr'[i][v] = e
        /\ \A k \in L1s \ {i} : block'[k] = block[k] /\ mshr'[k] = mshr[k]
        /\ \A j \in Lines \ {l, v} : block'[i][j] = block[i][j] /\ mshr'[i][j] = mshr[i][j]
        /\ block' = [k \in L1s |-> [j \in Lines |-> block'[k][j]]]
        /\ mshr' = [k \in L1s |-> [j \in Lines |-> mshr'[k][j]]]
    BY <1>5 DEF BecomesTwo, e
  <2>6. /\ Carried(net') /\ InNet(net') = (InNet(net) \ {m}) \cup new
        /\ Queued' /\ Packed' /\ Apart' /\ Locked'
    <3>1. \A y \in new : y \notin View(y.line).msgs
      BY <2>2, <2>3
    <3>2. Reply(i, r, all)
      BY <1>5 DEF all, x
    <3> QED BY <3>1, <3>2, <2>3, Replied
  <2>7. Shaped'
    BY <1>2, <2>5 DEF Shaped, llcVars
  <2>8. L1Acts(i, gone, new)
    BY <1>1, <2>5, <2>6 DEF L1Acts
  <2>9. Of(gone, l) = {m} /\ Of(new, l) = OutSet(out) /\ Of(gone, v) = {} /\ Of(new, v) = {x}
    BY <1>1, <2>1, <2>2, <2>3 DEF Of
  <2> HIDE DEF gone, new, m
  <2>10. LineStep(l, View(l), View(l)')
    <3>1. AtL1(View(l), View(l)', i, block'[i][l], mshr'[i][l], Of(gone, l), Of(new, l)) /\ View(l)'.golden = golden'[l]
      BY <2>8, <1>1, L1Frame
    <3>2. View(l).golden = golden[l] /\ golden'[l] = golden[l]
      BY ViewFacts
    <3>3. LineHandles(View(l), View(l)', i, m, c, NoMSHR, OutSet(out))
      BY <3>1, <3>2, <1>1, <2>5, <2>9 DEF LineHandles
    <3> QED BY <3>3 DEF LineEnters, c, m
  <2>11. LineStep(v, View(v), View(v)')
    <3>1. AtL1(View(v), View(v)', i, block'[i][v], mshr'[i][v], Of(gone, v), Of(new, v)) /\ View(v)'.golden = golden'[v]
      BY <2>8, <2>1, L1Frame
    <3>2. View(v).golden = golden[v] /\ golden'[v] = golden[v] /\ View(v).cache[i] = block[i][v]
      BY ViewFacts, ViewAt
    <3>3. x = Msg(PutType[block[i][v].st], REQ, i, LLC, v, i,
                  IF block[i][v].st \in {"M", "O"} THEN block[i][v].data ELSE NoData)
      BY <2>1, PutFacts DEF x
    <3>4. LineEvicted(v, View(v), View(v)', i)
      BY <3>1, <3>2, <3>3, <2>1, <2>5, <2>9 DEF LineEvicted, e
    <3> QED BY <3>4 DEF LineStep
  <2>12. ASSUME NEW j \in Lines, j # l, j # v PROVE View(j)' = View(j)
    <3>1. \A y \in gone \cup new : y.line # j
      BY <1>1, <2>2, <2>3, <2>12 DEF gone
    <3>2. block'[i][j] = block[i][j] /\ mshr'[i][j] = mshr[i][j] /\ golden'[j] = golden[j]
      BY <2>5, <2>12
    <3> QED BY <2>8, <3>1, <3>2, L1Elsewhere
  <2>13. LinesMove /\ LinesInv'
    <3>1. LinesMove
      BY <2>10, <2>11, <2>12 DEF LinesMove
    <3> QED BY <3>1, LinesKept DEF MoesiInv
  <2> QED BY <2>6, <2>7, <2>13 DEF MoesiInv, Kept
<1> QED BY <1>4, <1>5 DEF Enters

-----------------------------------------------------------------------------
(* The handlers of an L1.                                                  *)

\* An entry that does not change.
LEMMA BecomesSame ==
  ASSUME Shaped, NEW i \in L1s, NEW l \in Lines
  PROVE  Becomes(block, block, i, l, block[i][l]) /\ Becomes(mshr, mshr, i, l, mshr[i][l])
  BY DEF Becomes, Shaped

\* One field of an MSHR entry changes.
LEMMA BecomesRecord ==
  ASSUME Shaped, NEW i \in L1s, NEW l \in Lines
  PROVE  /\ \A st : Becomes(mshr, [mshr EXCEPT ![i][l].st = st], i, l, [mshr[i][l] EXCEPT !.st = st])
         /\ \A n : Becomes(mshr, [mshr EXCEPT ![i][l].acks = n], i, l, [mshr[i][l] EXCEPT !.acks = n])
         /\ \A n : Becomes(mshr, [mshr EXCEPT ![i][l].hasNeed = TRUE, ![i][l].need = n], i, l,
                           [mshr[i][l] EXCEPT !.hasNeed = TRUE, !.need = n])
         /\ \A d : Becomes(mshr, [mshr EXCEPT ![i][l].data = d, ![i][l].hasData = TRUE], i, l,
                           [mshr[i][l] EXCEPT !.data = d, !.hasData = TRUE])
<1>1. ASSUME NEW st PROVE Becomes(mshr, [mshr EXCEPT ![i][l].st = st], i, l, [mshr[i][l] EXCEPT !.st = st])
  <2>1. [mshr EXCEPT ![i][l].st = st] = Update(mshr, i, l, [mshr[i][l] EXCEPT !.st = st])
    BY DEF Update
  <2> QED BY <2>1, ShapedUpdate
<1>2. ASSUME NEW n PROVE Becomes(mshr, [mshr EXCEPT ![i][l].acks = n], i, l, [mshr[i][l] EXCEPT !.acks = n])
  <2>1. [mshr EXCEPT ![i][l].acks = n] = Update(mshr, i, l, [mshr[i][l] EXCEPT !.acks = n])
    BY DEF Update
  <2> QED BY <2>1, ShapedUpdate
<1>3. ASSUME NEW n
      PROVE Becomes(mshr, [mshr EXCEPT ![i][l].hasNeed = TRUE, ![i][l].need = n], i, l,
                           [mshr[i][l] EXCEPT !.hasNeed = TRUE, !.need = n])
  <2>1. [mshr EXCEPT ![i][l].hasNeed = TRUE, ![i][l].need = n]
        = Update(mshr, i, l, [mshr[i][l] EXCEPT !.hasNeed = TRUE, !.need = n])
    BY ZenonT(60) DEF Update, Shaped
  <2> QED BY <2>1, ShapedUpdate
<1>4. ASSUME NEW d
      PROVE Becomes(mshr, [mshr EXCEPT ![i][l].data = d, ![i][l].hasData = TRUE], i, l,
                           [mshr[i][l] EXCEPT !.data = d, !.hasData = TRUE])
  <2>1. [mshr EXCEPT ![i][l].data = d, ![i][l].hasData = TRUE]
        = Update(mshr, i, l, [mshr[i][l] EXCEPT !.data = d, !.hasData = TRUE])
    BY ZenonT(60) DEF Update, Shaped
  <2> QED BY <2>1, ShapedUpdate
<1> QED BY <1>1, <1>2, <1>3, <1>4

\* The GET_ACK that ends a transaction.
LEMMA GetAckSent ==
  ASSUME MoesiInv, NEW i \in L1s, NEW l \in Lines, NEW m \in View(l).msgs, Owing(m), m.type # "GET_ACK"
  PROVE  /\ Sends(i, Just(GetAck(i, l))) /\ OutSet(Just(GetAck(i, l))) = {GetAck(i, l)}
         /\ GetAck(i, l).line = l /\ GetAck(i, l) \notin View(l).msgs
<1> DEFINE x == GetAck(i, l)
<1>1. x.type = "GET_ACK" /\ x.line = l /\ x.src = i /\ x \in Message
  <2>1. "GET_ACK" \in MessageTypes /\ i \in Nodes /\ LLC \in Nodes /\ i \in Nat /\ NoData \in Data
    BY NodeFacts, DataFacts DEF MessageTypes
  <2>2. Msg("GET_ACK", ACK, i, LLC, l, i, NoData) \in Message
    BY <2>1, MessageFacts
  <2> QED BY <2>2, MsgFacts DEF GetAck
<1> HIDE DEF x
<1>2. Sends(i, Just(x)) /\ OutSet(Just(x)) = {x}
  BY <1>1, NodeFacts, JustSent
<1>3. x \notin View(l).msgs
  <2> DEFINE s == View(l)
  <2>1. LineInv(l, s) /\ m \in s.msgs
    BY MoesiLine
  <2> HIDE DEF s
  <2>2. Owing(x) /\ Token(x)
    BY <1>1 DEF Owing, Token
  <2>3. x \notin s.msgs
    BY <2>1, <2>2, <1>1, FreshAnswer
  <2> QED BY <2>3 DEF s
<1> QED BY <1>1, <1>2, <1>3 DEF x

\* The receiver of an answer is who asked.
LEMMA ClientIs ==
  ASSUME NEW m, m.type \in {"INVALID_ACK", "GETM_ACK", "GETS_RESP", "GETM_RESP", "GET_RESP_MEM"}
  PROVE  Client(m) = m.dst
  BY DEF Client, Requester, Request

\* A handler whose answer is x.
LEMMA AnsweredKeeps ==
  ASSUME MoesiInv, NEW i \in L1s, NEW r \in Arriving(i), NEW l, l = MsgAt(i, r).line,
         NEW x \in Message, x.src = i, x.line = l, x \notin View(l).msgs,
         Reply(i, r, Just(x)), UNCHANGED llcVars, golden' = golden,
         NEW c, Becomes(block, block', i, l, c), NEW e, Becomes(mshr, mshr', i, l, e),
         LineHandles(View(l), View(l)', i, MsgAt(i, r), c, e, {x}) => LineStep(l, View(l), View(l)')
  PROVE  Kept
<1>1. Sends(i, Just(x)) /\ OutSet(Just(x)) = {x}
  BY NodeFacts, JustSent
<1> DEFINE o == Just(x)
<1>2. Sends(i, o) /\ OutSet(o) = {x} /\ Reply(i, r, o)
  BY <1>1
<1> HIDE DEF o
<1> QED BY <1>2, HandledKeeps

\* A handler that sends nothing.
LEMMA QuietKeeps ==
  ASSUME MoesiInv, NEW i \in L1s, NEW r \in Arriving(i), NEW l, l = MsgAt(i, r).line,
         Reply(i, r, Nothing), UNCHANGED llcVars, golden' = golden,
         NEW c, Becomes(block, block', i, l, c), NEW e, Becomes(mshr, mshr', i, l, e),
         LineHandles(View(l), View(l)', i, MsgAt(i, r), c, e, {}) => LineStep(l, View(l), View(l)')
  PROVE  Kept
<1>1. Sends(i, Nothing) /\ OutSet(Nothing) = {}
  BY NothingSent
<1> DEFINE o == Nothing
<1>2. Sends(i, o) /\ OutSet(o) = {} /\ Reply(i, r, o)
  BY <1>1
<1> HIDE DEF o
<1> QED BY <1>2, HandledKeeps

\* The line enters the cache, and a GET_ACK ends the transaction.
LEMMA EnteredKeeps ==
  ASSUME MoesiInv, NEW i \in L1s, NEW r \in Arriving(i), NEW l, l = MsgAt(i, r).line,
         MsgAt(i, r).type \in {"INVALID_ACK", "GETM_ACK", "GETS_RESP", "GETM_RESP", "GET_RESP_MEM"},
         NEW out, NEW new, UNCHANGED llcVars, golden' = golden,
         \/ out = Nothing /\ new = {}
         \/ out = Just(GetAck(i, l)) /\ new = {GetAck(i, l)} /\ Owing(MsgAt(i, r)),
         NEW st, NEW data, NewLine(i, l, st, data, r, out) \/ Enters(i, l, st, data, r, out),
         LineEnters(View(l), View(l)', i, MsgAt(i, r), st, data, new) => LineStep(l, View(l), View(l)')
  PROVE  Kept
<1>1. l \in Lines /\ MsgAt(i, r).dst = i /\ MsgAt(i, r) \in View(l).msgs
  BY MessageArrives
<1>2. Client(MsgAt(i, r)) = i /\ MsgAt(i, r).type # "GET_ACK"
  BY <1>1, ClientIs
<1>3. Sends(i, out) /\ OutSet(out) = new /\ \A x \in new : x.line = l /\ x \notin View(l).msgs
  <2>1. CASE out = Nothing /\ new = {}
    BY <2>1, NothingSent
  <2>2. CASE out = Just(GetAck(i, l)) /\ new = {GetAck(i, l)} /\ Owing(MsgAt(i, r))
    BY <2>2, <1>1, <1>2, GetAckSent
  <2> QED BY <2>1, <2>2
<1>4. Enters(i, l, st, data, r, out)
  BY <1>2, NewLineEnters
<1> QED BY <1>2, <1>3, <1>4, NewLineKeeps

\* How a handler leaves the line of its message: its copy in the cache is c and its entry e,
\* or it has entered the cache.
TakenIn(i, r, l, c, e, out) ==
  Becomes(block, block', i, l, c) /\ Becomes(mshr, mshr', i, l, e) /\ Reply(i, r, out) /\ golden' = golden
LineIn(i, r, l, st, data, out) ==
  (NewLine(i, l, st, data, r, out) \/ Enters(i, l, st, data, r, out)) /\ golden' = golden

InvalidTaken(i, r, l) ==
  LET m == MsgAt(i, r) IN
  /\ m.type = "INVALID"
  /\ TakenIn(i, r, l, Absent, [mshr[i][l] EXCEPT !.st = AfterInvalid(@)],
             Just(Msg("INVALID_ACK", ACK, i, m.arg, l, 0, NoData)))
InvalidAckTaken(i, r, l) ==
  LET e == mshr[i][l] IN
  /\ MsgAt(i, r).type = "INVALID_ACK"
  /\ IF LastAck(e) THEN LineIn(i, r, l, "M", e.data, Just(GetAck(i, l)))
     ELSE TakenIn(i, r, l, block[i][l], [e EXCEPT !.acks = IF Collecting(e) THEN @ + 1 ELSE @], Nothing)
GetMAckTaken(i, r, l) ==
  LET m == MsgAt(i, r)  e == mshr[i][l] IN
  /\ m.type = "GETM_ACK"
  /\ IF m.arg = e.acks /\ HasLineData(e) THEN LineIn(i, r, l, "M", e.data, Just(GetAck(i, l)))
     ELSE TakenIn(i, r, l, block[i][l],
                  IF Collecting(e) THEN [e EXCEPT !.hasNeed = TRUE, !.need = m.arg] ELSE e, Nothing)
GetSForwardTaken(i, r, l) ==
  LET m == MsgAt(i, r)  c == block[i][l]  e == mshr[i][l] IN
  /\ m.type = "GETS_FORWARD"
  /\ TakenIn(i, r, l, IF c.st # "I" THEN Owned(c) ELSE c,
             IF c.st = "I" /\ e.st \in {"MTOI", "ETOI", "STOI"} THEN [e EXCEPT !.st = "OTOI"] ELSE e,
             Just(Msg("GETS_RESP", RESP, i, m.arg, l, 1, IF c.st # "I" THEN c.data ELSE e.data)))
GetMForwardTaken(i, r, l) ==
  LET m == MsgAt(i, r)  c == block[i][l]  e == mshr[i][l] IN
  /\ m.type = "GETM_FORWARD"
  /\ TakenIn(i, r, l, Absent, IF c.st # "I" THEN e ELSE [e EXCEPT !.st = AfterGetM(@)],
             Just(Msg("GETM_RESP", RESP, i, m.arg, l, 0, IF c.st # "I" THEN c.data ELSE e.data)))
GetSRespTaken(i, r, l) ==
  LET m == MsgAt(i, r) IN
  /\ m.type = "GETS_RESP"
  /\ IF m.arg > 0 THEN LineIn(i, r, l, "S", m.data, Just(GetAck(i, l)))
                  ELSE LineIn(i, r, l, "E", m.data, Nothing)
GetMRespTaken(i, r, l) ==
  LET m == MsgAt(i, r)  e == mshr[i][l] IN
  /\ m.type = "GETM_RESP"
  /\ IF m.arg = 0 /\ (~e.hasNeed \/ e.need # e.acks)
     THEN TakenIn(i, r, l, block[i][l], [e EXCEPT !.data = m.data, !.hasData = TRUE], Nothing)
     ELSE LineIn(i, r, l, "M", m.data, IF m.arg = 0 THEN Just(GetAck(i, l)) ELSE Nothing)
GetRespMemTaken(i, r, l) ==
  LET m == MsgAt(i, r) IN
  /\ m.type = "GET_RESP_MEM"
  /\ LineIn(i, r, l, IF mshr[i][l].st = "ITOM" THEN "M" ELSE "E", m.data, Just(GetAck(i, l)))
PutAckTaken(i, r, l) ==
  MsgAt(i, r).type = "PUT_ACK" /\ TakenIn(i, r, l, block[i][l], NoMSHR, Nothing)

\* INVALID (l1cachev2.cpp, handle_received_msg_nolock).
LEMMA InvalidTakenKeeps ==
  ASSUME MoesiInv, NEW i \in L1s, NEW r \in Arriving(i), NEW l, l = MsgAt(i, r).line,
         InvalidTaken(i, r, l), UNCHANGED llcVars
  PROVE  Kept
<1> DEFINE m == MsgAt(i, r)
           s == View(l)
           t == View(l)'
           e == [mshr[i][l] EXCEPT !.st = AfterInvalid(@)]
           x == Msg("INVALID_ACK", ACK, i, m.arg, l, 0, NoData)
<1>1. /\ m.type = "INVALID" /\ golden' = golden /\ Reply(i, r, Just(x))
      /\ Becomes(block, block', i, l, Absent) /\ Becomes(mshr, mshr', i, l, e)
  BY DEF InvalidTaken, TakenIn
<1>2. m \in s.msgs /\ m.dst = i /\ l \in Lines /\ LineInv(l, s)
  BY MessageArrives
<1>3. WellFormed(l, m)
  <2> HIDE DEF m, s
  <2> QED BY <1>2, About
<1>4. x \in Message /\ x.type = "INVALID_ACK" /\ x.src = i /\ x.line = l
  <2>1. m.arg \in Nodes /\ i \in Nodes /\ NoData \in Data /\ "INVALID_ACK" \in MessageTypes
    BY <1>1, <1>3, NodeFacts, DataFacts DEF WellFormed, MessageTypes
  <2> HIDE DEF m
  <2> QED BY <1>2, <2>1, MessageFacts, MsgFacts
<1>5. ~Granted(s, i)
  BY <1>1, TakenInFirst
<1>6. x \notin s.msgs
  <2> HIDE DEF x, s, m
  <2> QED BY <1>1, <1>2, <1>4, FreshAck
<1>7. s.mshr[i] = mshr[i][l]
  BY ViewAt
<1>8. LineHandles(s, t, i, m, Absent, e, {x}) => LineStep(l, s, t)
  <2> HIDE DEF s, t, m
  <2> SUFFICES ASSUME LineHandles(s, t, i, m, Absent, e, {x}) PROVE LineInvalid(l, s, t, i, m)
    BY <1>2 DEF LineStep
  <2> QED BY <1>1, <1>5, <1>7 DEF LineInvalid
<1> HIDE DEF x, e
<1> QED BY <1>1, <1>4, <1>6, <1>8, AnsweredKeeps

\* INVALID_ACK.
LEMMA InvalidAckTakenKeeps ==
  ASSUME MoesiInv, NEW i \in L1s, NEW r \in Arriving(i), NEW l, l = MsgAt(i, r).line,
         InvalidAckTaken(i, r, l), UNCHANGED llcVars
  PROVE  Kept
<1> DEFINE m == MsgAt(i, r)
           s == View(l)
           t == View(l)'
           e == mshr[i][l]
           f == [e EXCEPT !.acks = IF Collecting(e) THEN @ + 1 ELSE @]
<1>1. m.type = "INVALID_ACK" /\ golden' = golden
  BY DEF InvalidAckTaken, TakenIn, LineIn
<1>2. m \in s.msgs /\ l \in Lines /\ s.mshr[i] = e /\ s.cache[i] = block[i][l]
  BY MessageArrives, ViewAt
<1>3. CASE LastAck(e) /\ LineIn(i, r, l, "M", e.data, Just(GetAck(i, l)))
  <2>1. NewLine(i, l, "M", e.data, r, Just(GetAck(i, l))) \/ Enters(i, l, "M", e.data, r, Just(GetAck(i, l)))
    BY <1>3 DEF LineIn
  <2>2. LineEnters(s, t, i, m, "M", e.data, {GetAck(i, l)}) => LineStep(l, s, t)
    <3> HIDE DEF s, t, m, e
    <3> SUFFICES ASSUME LineEnters(s, t, i, m, "M", e.data, {GetAck(i, l)}) PROVE LineInvalidAck(l, s, t, i, m)
      BY <1>2 DEF LineStep
    <3> QED BY <1>1, <1>2, <1>3 DEF LineInvalidAck
  <2>3. Owing(m)
    BY <1>1 DEF Owing
  <2> HIDE DEF e
  <2> QED BY <2>1, <2>2, <2>3, <1>1, EnteredKeeps
<1>4. CASE ~LastAck(e) /\ TakenIn(i, r, l, block[i][l], f, Nothing)
  <2>1. Becomes(block, block', i, l, block[i][l]) /\ Becomes(mshr, mshr', i, l, f) /\ Reply(i, r, Nothing)
    BY <1>4 DEF TakenIn
  <2>2. LineHandles(s, t, i, m, block[i][l], f, {}) => LineStep(l, s, t)
    <3> HIDE DEF s, t, m, e
    <3> SUFFICES ASSUME LineHandles(s, t, i, m, block[i][l], f, {}) PROVE LineInvalidAck(l, s, t, i, m)
      BY <1>2 DEF LineStep
    <3> QED BY <1>1, <1>2, <1>4 DEF LineInvalidAck
  <2> HIDE DEF f
  <2> QED BY <2>1, <2>2, <1>1, QuietKeeps
<1> QED BY <1>3, <1>4 DEF InvalidAckTaken

\* GETM_ACK.
LEMMA GetMAckTakenKeeps ==
  ASSUME MoesiInv, NEW i \in L1s, NEW r \in Arriving(i), NEW l, l = MsgAt(i, r).line,
         GetMAckTaken(i, r, l), UNCHANGED llcVars
  PROVE  Kept
<1> DEFINE m == MsgAt(i, r)
           s == View(l)
           t == View(l)'
           e == mshr[i][l]
           all == m.arg = e.acks /\ HasLineData(e)
           f == IF Collecting(e) THEN [e EXCEPT !.hasNeed = TRUE, !.need = m.arg] ELSE e
<1>1. m.type = "GETM_ACK" /\ golden' = golden
  BY DEF GetMAckTaken, TakenIn, LineIn
<1>2. m \in s.msgs /\ l \in Lines /\ s.mshr[i] = e /\ s.cache[i] = block[i][l]
  BY MessageArrives, ViewAt
<1>3. CASE all /\ LineIn(i, r, l, "M", e.data, Just(GetAck(i, l)))
  <2>1. NewLine(i, l, "M", e.data, r, Just(GetAck(i, l))) \/ Enters(i, l, "M", e.data, r, Just(GetAck(i, l)))
    BY <1>3 DEF LineIn
  <2>2. LineEnters(s, t, i, m, "M", e.data, {GetAck(i, l)}) => LineStep(l, s, t)
    <3> HIDE DEF s, t, m, e
    <3> SUFFICES ASSUME LineEnters(s, t, i, m, "M", e.data, {GetAck(i, l)}) PROVE LineGetMAck(l, s, t, i, m)
      BY <1>2 DEF LineStep
    <3> QED BY <1>1, <1>2, <1>3 DEF LineGetMAck
  <2>3. Owing(m)
    BY <1>1 DEF Owing
  <2> HIDE DEF e
  <2> QED BY <2>1, <2>2, <2>3, <1>1, EnteredKeeps
<1>4. CASE ~all /\ TakenIn(i, r, l, block[i][l], f, Nothing)
  <2>1. Becomes(block, block', i, l, block[i][l]) /\ Becomes(mshr, mshr', i, l, f) /\ Reply(i, r, Nothing)
    BY <1>4 DEF TakenIn
  <2>2. LineHandles(s, t, i, m, block[i][l], f, {}) => LineStep(l, s, t)
    <3> HIDE DEF s, t, m, e
    <3> SUFFICES ASSUME LineHandles(s, t, i, m, block[i][l], f, {}) PROVE LineGetMAck(l, s, t, i, m)
      BY <1>2 DEF LineStep
    <3> QED BY <1>1, <1>2, <1>4 DEF LineGetMAck
  <2> HIDE DEF f
  <2> QED BY <2>1, <2>2, <1>1, QuietKeeps
<1> QED BY <1>3, <1>4 DEF GetMAckTaken

\* What the holder of a line answers to a forward.
LEMMA ForwardAnswered ==
  ASSUME MoesiInv, NEW i \in L1s, NEW r \in Arriving(i), NEW l, l = MsgAt(i, r).line,
         MsgAt(i, r).type \in {"GETS_FORWARD", "GETM_FORWARD"}, NEW ty, NEW n,
         \/ MsgAt(i, r).type = "GETS_FORWARD" /\ ty = "GETS_RESP" /\ n = 1
         \/ MsgAt(i, r).type = "GETM_FORWARD" /\ ty = "GETM_RESP" /\ n = 0
  PROVE  LET x == Msg(ty, RESP, i, MsgAt(i, r).arg, l, n, DataOf(View(l), i)) IN
         x \in Message /\ x.src = i /\ x.line = l /\ x \notin View(l).msgs
<1> DEFINE m == MsgAt(i, r)
           s == View(l)
           x == Msg(ty, RESP, i, m.arg, l, n, DataOf(s, i))
<1>1. m \in s.msgs /\ m.dst = i /\ l \in Lines /\ LineInv(l, s)
  BY MessageArrives
<1> HIDE DEF m, s
<1>2. WellFormed(l, m)
  BY <1>1, About
<1>3. DataOf(s, i) \in Data
  <2>1. s.cache[i].data \in Data /\ s.mshr[i].data \in Data
    BY <1>1 DEF LineInv, LineTypes, MSHREntry
  <2> QED BY <2>1 DEF DataOf
<1>4. x \in Message /\ x.type = ty /\ x.src = i /\ x.line = l /\ x.dst = m.arg
  <2>1. /\ m.arg \in Nodes /\ i \in Nodes /\ n \in Nat
        /\ ty \in MessageTypes /\ ty \notin {"INVALID", "GETS_FORWARD", "GETM_FORWARD"}
    BY <1>2, NodeFacts DEF WellFormed, MessageTypes, m
  <2> QED BY <1>1, <1>3, <2>1, MessageFacts, MsgFacts
<1> HIDE DEF x
<1>5. x \notin s.msgs
  <2>0. x.src # LLC /\ m.dst # MEM
    BY <1>1, <1>4, NodeFacts
  <2>1. CASE m.type = "GETS_FORWARD" /\ ty = "GETS_RESP"
    <3>1. Owing(m) /\ Owing(x) /\ Token(x) /\ m.type # x.type
      BY <2>0, <2>1, <1>4 DEF Owing, Token
    <3> QED BY <3>1, <1>1, FreshAnswer
  <2>2. CASE m.type = "GETM_FORWARD" /\ ty = "GETM_RESP"
    <3>1. Carrying(m) /\ Carrying(x) /\ m.type # x.type
      BY <2>0, <2>2, <1>4 DEF Carrying
    <3> QED BY <3>1, <1>1, FreshData
  <2> QED BY <2>1, <2>2 DEF m
<1> QED BY <1>4, <1>5 DEF x, m, s

\* GETS_FORWARD.
LEMMA GetSForwardTakenKeeps ==
  ASSUME MoesiInv, NEW i \in L1s, NEW r \in Arriving(i), NEW l, l = MsgAt(i, r).line,
         GetSForwardTaken(i, r, l), UNCHANGED llcVars
  PROVE  Kept
<1> DEFINE m == MsgAt(i, r)
           s == View(l)
           t == View(l)'
           b == block[i][l]
           e == mshr[i][l]
           leaves == b.st = "I" /\ e.st \in {"MTOI", "ETOI", "STOI"}
           c == IF b.st # "I" THEN Owned(b) ELSE b
           f == IF leaves THEN [e EXCEPT !.st = "OTOI"] ELSE e
           x == Msg("GETS_RESP", RESP, i, m.arg, l, 1, DataOf(s, i))
<1>1. m \in s.msgs /\ l \in Lines /\ s.mshr[i] = e /\ s.cache[i] = b
  BY MessageArrives, ViewAt
<1>2. /\ m.type = "GETS_FORWARD" /\ golden' = golden
      /\ Reply(i, r, Just(Msg("GETS_RESP", RESP, i, m.arg, l, 1, IF b.st # "I" THEN b.data ELSE e.data)))
      /\ Becomes(block, block', i, l, c) /\ Becomes(mshr, mshr', i, l, f)
  BY DEF GetSForwardTaken, TakenIn
<1>3. Reply(i, r, Just(x))
  <2>1. DataOf(s, i) = IF b.st # "I" THEN b.data ELSE e.data
    <3> HIDE DEF s, b, e
    <3> QED BY <1>1 DEF DataOf
  <2> QED BY <1>2, <2>1
<1>4. x \in Message /\ x.src = i /\ x.line = l /\ x \notin s.msgs
  BY <1>2, ForwardAnswered
<1>5. ~Granted(s, i)
  BY <1>2, TakenInFirst
<1>6. LineHandles(s, t, i, m, c, f, {x}) => LineStep(l, s, t)
  <2> HIDE DEF s, t, m, e, b
  <2> SUFFICES ASSUME LineHandles(s, t, i, m, c, f, {x}) PROVE LineGetSForward(l, s, t, i, m)
    BY <1>1 DEF LineStep
  <2> QED BY <1>1, <1>2, <1>5 DEF LineGetSForward
<1> HIDE DEF x, c, f
<1> QED BY <1>2, <1>3, <1>4, <1>6, AnsweredKeeps

\* GETM_FORWARD.
LEMMA GetMForwardTakenKeeps ==
  ASSUME MoesiInv, NEW i \in L1s, NEW r \in Arriving(i), NEW l, l = MsgAt(i, r).line,
         GetMForwardTaken(i, r, l), UNCHANGED llcVars
  PROVE  Kept
<1> DEFINE m == MsgAt(i, r)
           s == View(l)
           t == View(l)'
           b == block[i][l]
           e == mshr[i][l]
           f == IF b.st # "I" THEN e ELSE [e EXCEPT !.st = AfterGetM(@)]
           x == Msg("GETM_RESP", RESP, i, m.arg, l, 0, DataOf(s, i))
<1>1. m \in s.msgs /\ l \in Lines /\ s.mshr[i] = e /\ s.cache[i] = b
  BY MessageArrives, ViewAt
<1>2. /\ m.type = "GETM_FORWARD" /\ golden' = golden
      /\ Reply(i, r, Just(Msg("GETM_RESP", RESP, i, m.arg, l, 0, IF b.st # "I" THEN b.data ELSE e.data)))
      /\ Becomes(block, block', i, l, Absent) /\ Becomes(mshr, mshr', i, l, f)
  BY DEF GetMForwardTaken, TakenIn
<1>3. Reply(i, r, Just(x))
  <2>1. DataOf(s, i) = IF b.st # "I" THEN b.data ELSE e.data
    <3> HIDE DEF s, b, e
    <3> QED BY <1>1 DEF DataOf
  <2> QED BY <1>2, <2>1
<1>4. x \in Message /\ x.src = i /\ x.line = l /\ x \notin s.msgs
  BY <1>2, ForwardAnswered
<1>5. ~Granted(s, i)
  BY <1>2, TakenInFirst
<1>6. LineHandles(s, t, i, m, Absent, f, {x}) => LineStep(l, s, t)
  <2> HIDE DEF s, t, m, e, b
  <2> SUFFICES ASSUME LineHandles(s, t, i, m, Absent, f, {x}) PROVE LineGetMForward(l, s, t, i, m)
    BY <1>1 DEF LineStep
  <2> QED BY <1>1, <1>2, <1>5 DEF LineGetMForward
<1> HIDE DEF x, f
<1> QED BY <1>2, <1>3, <1>4, <1>6, AnsweredKeeps

\* GETS_RESP.
LEMMA GetSRespTakenKeeps ==
  ASSUME MoesiInv, NEW i \in L1s, NEW r \in Arriving(i), NEW l, l = MsgAt(i, r).line,
         GetSRespTaken(i, r, l), UNCHANGED llcVars
  PROVE  Kept
<1> DEFINE m == MsgAt(i, r)
           s == View(l)
           t == View(l)'
<1>1. m \in s.msgs /\ l \in Lines /\ LineInv(l, s)
  BY MessageArrives
<1>2. m.type = "GETS_RESP" /\ golden' = golden
  BY DEF GetSRespTaken, LineIn
<1>3. CASE m.arg > 0 /\ LineIn(i, r, l, "S", m.data, Just(GetAck(i, l)))
  <2>1. LineEnters(s, t, i, m, "S", m.data, {GetAck(i, l)}) => LineStep(l, s, t)
    <3> HIDE DEF s, t, m
    <3> SUFFICES ASSUME LineEnters(s, t, i, m, "S", m.data, {GetAck(i, l)}) PROVE LineGetSResp(l, s, t, i, m)
      BY <1>1 DEF LineStep
    <3> QED BY <1>2, <1>3 DEF LineGetSResp
  <2>2. Owing(m)
    <3> HIDE DEF s, m
    <3>1. WellFormed(l, m)
      BY <1>1, About
    <3> QED BY <3>1, <1>2, <1>3 DEF WellFormed, Owing
  <2> DEFINE d == m.data
  <2>3. NewLine(i, l, "S", d, r, Just(GetAck(i, l))) \/ Enters(i, l, "S", d, r, Just(GetAck(i, l)))
    BY <1>3 DEF LineIn
  <2> HIDE DEF d
  <2> QED BY <2>1, <2>2, <2>3, <1>2, EnteredKeeps DEF d
<1>4. CASE ~(m.arg > 0) /\ LineIn(i, r, l, "E", m.data, Nothing)
  <2>1. LineEnters(s, t, i, m, "E", m.data, {}) => LineStep(l, s, t)
    <3> HIDE DEF s, t, m
    <3> SUFFICES ASSUME LineEnters(s, t, i, m, "E", m.data, {}) PROVE LineGetSResp(l, s, t, i, m)
      BY <1>1 DEF LineStep
    <3> QED BY <1>2, <1>4 DEF LineGetSResp
  <2> DEFINE d == m.data
  <2>2. NewLine(i, l, "E", d, r, Nothing) \/ Enters(i, l, "E", d, r, Nothing)
    BY <1>4 DEF LineIn
  <2> HIDE DEF d
  <2> QED BY <2>1, <2>2, <1>2, EnteredKeeps DEF d
<1> QED BY <1>3, <1>4 DEF GetSRespTaken

\* GETM_RESP.
LEMMA GetMRespTakenKeeps ==
  ASSUME MoesiInv, NEW i \in L1s, NEW r \in Arriving(i), NEW l, l = MsgAt(i, r).line,
         GetMRespTaken(i, r, l), UNCHANGED llcVars
  PROVE  Kept
<1> DEFINE m == MsgAt(i, r)
           s == View(l)
           t == View(l)'
           e == mshr[i][l]
           early == m.arg = 0 /\ (~e.hasNeed \/ e.need # e.acks)
           f == [e EXCEPT !.data = m.data, !.hasData = TRUE]
           out == IF m.arg = 0 THEN Just(GetAck(i, l)) ELSE Nothing
           new == IF m.arg = 0 THEN {GetAck(i, l)} ELSE {}
<1>1. m \in s.msgs /\ l \in Lines /\ LineInv(l, s) /\ s.mshr[i] = e /\ s.cache[i] = block[i][l]
  BY MessageArrives, ViewAt
<1>2. m.type = "GETM_RESP" /\ golden' = golden
  BY DEF GetMRespTaken, TakenIn, LineIn
<1>3. CASE ~early /\ LineIn(i, r, l, "M", m.data, out)
  <2>1. LineEnters(s, t, i, m, "M", m.data, new) => LineStep(l, s, t)
    <3> HIDE DEF s, t, m, e
    <3> SUFFICES ASSUME LineEnters(s, t, i, m, "M", m.data, new) PROVE LineGetMResp(l, s, t, i, m)
      BY <1>1 DEF LineStep
    <3> QED BY <1>1, <1>2, <1>3 DEF LineGetMResp
  <2>2. m.arg = 0 => Owing(m)
    <3> HIDE DEF s, m
    <3>1. WellFormed(l, m)
      BY <1>1, About
    <3> QED BY <3>1, <1>2 DEF WellFormed, Owing
  <2>3. \/ out = Nothing /\ new = {}
        \/ out = Just(GetAck(i, l)) /\ new = {GetAck(i, l)} /\ Owing(m)
    BY <2>2
  <2> DEFINE d == m.data
  <2>4. NewLine(i, l, "M", d, r, out) \/ Enters(i, l, "M", d, r, out)
    BY <1>3 DEF LineIn
  <2> HIDE DEF out, new, d
  <2> QED BY <2>1, <2>3, <2>4, <1>2, EnteredKeeps DEF d
<1>4. CASE early /\ TakenIn(i, r, l, block[i][l], f, Nothing)
  <2>1. Becomes(block, block', i, l, block[i][l]) /\ Becomes(mshr, mshr', i, l, f) /\ Reply(i, r, Nothing)
    BY <1>4 DEF TakenIn
  <2>2. LineHandles(s, t, i, m, block[i][l], f, {}) => LineStep(l, s, t)
    <3> HIDE DEF s, t, m, e
    <3> SUFFICES ASSUME LineHandles(s, t, i, m, block[i][l], f, {}) PROVE LineGetMResp(l, s, t, i, m)
      BY <1>1 DEF LineStep
    <3> QED BY <1>1, <1>2, <1>4 DEF LineGetMResp
  <2> HIDE DEF f
  <2> QED BY <2>1, <2>2, <1>2, QuietKeeps
<1> QED BY <1>3, <1>4 DEF GetMRespTaken

\* GET_RESP_MEM.
LEMMA GetRespMemTakenKeeps ==
  ASSUME MoesiInv, NEW i \in L1s, NEW r \in Arriving(i), NEW l, l = MsgAt(i, r).line,
         GetRespMemTaken(i, r, l), UNCHANGED llcVars
  PROVE  Kept
<1> DEFINE m == MsgAt(i, r)
           s == View(l)
           t == View(l)'
           st == IF mshr[i][l].st = "ITOM" THEN "M" ELSE "E"
           d == m.data
<1>1. m \in s.msgs /\ l \in Lines /\ s.mshr[i] = mshr[i][l]
  BY MessageArrives, ViewAt
<1>2. /\ m.type = "GET_RESP_MEM" /\ golden' = golden
      /\ NewLine(i, l, st, d, r, Just(GetAck(i, l))) \/ Enters(i, l, st, d, r, Just(GetAck(i, l)))
  BY DEF GetRespMemTaken, LineIn
<1>3. LineEnters(s, t, i, m, st, d, {GetAck(i, l)}) => LineStep(l, s, t)
  <2> HIDE DEF s, t, m
  <2> SUFFICES ASSUME LineEnters(s, t, i, m, st, d, {GetAck(i, l)}) PROVE LineGetRespMem(l, s, t, i, m)
    BY <1>1 DEF LineStep
  <2> QED BY <1>1, <1>2 DEF LineGetRespMem
<1>4. Owing(m)
  BY <1>2 DEF Owing
<1> HIDE DEF st, d
<1> QED BY <1>2, <1>3, <1>4, EnteredKeeps

\* PUT_ACK.
LEMMA PutAckTakenKeeps ==
  ASSUME MoesiInv, NEW i \in L1s, NEW r \in Arriving(i), NEW l, l = MsgAt(i, r).line,
         PutAckTaken(i, r, l), UNCHANGED llcVars
  PROVE  Kept
<1> DEFINE m == MsgAt(i, r)
           s == View(l)
           t == View(l)'
<1>1. m \in s.msgs /\ l \in Lines /\ s.cache[i] = block[i][l]
  BY MessageArrives, ViewAt
<1>2. /\ m.type = "PUT_ACK" /\ golden' = golden /\ Reply(i, r, Nothing)
      /\ Becomes(block, block', i, l, block[i][l]) /\ Becomes(mshr, mshr', i, l, NoMSHR)
  BY DEF PutAckTaken, TakenIn
<1>3. LineHandles(s, t, i, m, block[i][l], NoMSHR, {}) => LineStep(l, s, t)
  <2> HIDE DEF s, t, m
  <2> SUFFICES ASSUME LineHandles(s, t, i, m, block[i][l], NoMSHR, {}) PROVE LinePutAck(l, s, t, i, m)
    BY <1>1 DEF LineStep
  <2> QED BY <1>1, <1>2 DEF LinePutAck
<1> QED BY <1>2, <1>3, QuietKeeps

\* The handlers are such steps.
Taken1(i, r, l) ==
  \/ InvalidTaken(i, r, l) \/ InvalidAckTaken(i, r, l) \/ GetMAckTaken(i, r, l)
  \/ GetSForwardTaken(i, r, l) \/ GetMForwardTaken(i, r, l) \/ GetSRespTaken(i, r, l)
  \/ GetMRespTaken(i, r, l) \/ GetRespMemTaken(i, r, l) \/ PutAckTaken(i, r, l)
LEMMA HandleTaken ==
  ASSUME MoesiInv, NEW i \in L1s, NEW r \in Arriving(i), NEW l, l = MsgAt(i, r).line, L1Handle(i, r)
  PROVE  Taken1(i, r, l)
<1> DEFINE m == MsgAt(i, r)
           b == block[i][l]
           e == mshr[i][l]
<1>1. l \in Lines /\ Shaped
  BY MessageArrives DEF MoesiInv
<1>2. Becomes(block, block, i, l, b) /\ Becomes(mshr, mshr, i, l, e)
  BY <1>1, BecomesSame
<1>3. CASE HandleInvalid(i, r)
  <2>1. /\ m.type = "INVALID" /\ golden' = golden
        /\ Reply(i, r, Just(Msg("INVALID_ACK", ACK, i, m.arg, l, 0, NoData)))
        /\ block' = Update(block, i, l, Absent)
        /\ mshr' = [mshr EXCEPT ![i][l].st = AfterInvalid(e.st)]
    BY <1>3 DEF HandleInvalid, Receives, Removed, Update
  <2>2. Becomes(block, block', i, l, Absent)
    BY <2>1, <1>1, ShapedUpdate
  <2> DEFINE st == AfterInvalid(e.st)
  <2>3. mshr' = [mshr EXCEPT ![i][l].st = st]
    BY <2>1
  <2> HIDE DEF st
  <2>4. Becomes(mshr, mshr', i, l, [e EXCEPT !.st = st])
    BY <2>3, <1>1, BecomesRecord
  <2>5. Becomes(mshr, mshr', i, l, [e EXCEPT !.st = AfterInvalid(@)])
    BY <2>4 DEF st
  <2> QED BY <2>1, <2>2, <2>5 DEF InvalidTaken, TakenIn, Taken1
<1>4. CASE HandleInvalidAck(i, r)
  <2>1. m.type = "INVALID_ACK" /\ golden' = golden
    BY <1>4 DEF HandleInvalidAck, Receives
  <2>2. CASE LastAck(e)
    <3>1. NewLine(i, l, "M", e.data, r, Just(GetAck(i, l)))
      BY <1>4, <2>2 DEF HandleInvalidAck, Complete
    <3> QED BY <3>1, <2>1, <2>2 DEF InvalidAckTaken, LineIn, Taken1
  <2>3. CASE ~LastAck(e)
    <3> DEFINE n == IF Collecting(e) THEN e.acks + 1 ELSE e.acks
    <3>1. mshr' = [mshr EXCEPT ![i][l].acks = n] /\ Reply(i, r, Nothing) /\ block' = block
      BY <1>4, <2>3 DEF HandleInvalidAck
    <3> HIDE DEF n
    <3>2. Becomes(mshr, mshr', i, l, [e EXCEPT !.acks = n])
      BY <3>1, <1>1, BecomesRecord
    <3>3. Becomes(mshr, mshr', i, l, [e EXCEPT !.acks = IF Collecting(e) THEN @ + 1 ELSE @])
      BY <3>2 DEF n
    <3>4. Becomes(block, block', i, l, b)
      BY <3>1, <1>2
    <3> QED BY <3>1, <3>3, <3>4, <2>1, <2>3 DEF InvalidAckTaken, TakenIn, Taken1
  <2> QED BY <2>2, <2>3
<1>5. CASE HandleGetMAck(i, r)
  <2> DEFINE all == m.arg = e.acks /\ HasLineData(e)
             f == IF Collecting(e) THEN [e EXCEPT !.hasNeed = TRUE, !.need = m.arg] ELSE e
  <2>1. m.type = "GETM_ACK" /\ golden' = golden
    BY <1>5 DEF HandleGetMAck, Receives
  <2>2. CASE all
    <3>1. NewLine(i, l, "M", e.data, r, Just(GetAck(i, l)))
      BY <1>5, <2>2 DEF HandleGetMAck, Complete
    <3> QED BY <3>1, <2>1, <2>2 DEF GetMAckTaken, LineIn, Taken1
  <2>3. CASE ~all
    <3> DEFINE n == m.arg
    <3>1. /\ mshr' = IF Collecting(e) THEN [mshr EXCEPT ![i][l].hasNeed = TRUE, ![i][l].need = n] ELSE mshr
          /\ Reply(i, r, Nothing) /\ block' = block
      BY <1>5, <2>3 DEF HandleGetMAck
    <3> HIDE DEF n
    <3>2. CASE Collecting(e)
      <4>1. Becomes(mshr, mshr', i, l, [e EXCEPT !.hasNeed = TRUE, !.need = n])
        BY <3>1, <3>2, <1>1, BecomesRecord
      <4> QED BY <4>1, <3>1, <3>2, <2>1, <2>3, <1>2 DEF GetMAckTaken, TakenIn, Taken1, n
    <3>3. CASE ~Collecting(e)
      BY <3>1, <3>3, <2>1, <2>3, <1>2 DEF GetMAckTaken, TakenIn, Taken1
    <3> QED BY <3>2, <3>3
  <2> QED BY <2>2, <2>3
<1>6. CASE HandleGetSForward(i, r)
  <2> DEFINE leaves == b.st = "I" /\ e.st \in {"MTOI", "ETOI", "STOI"}
             c == IF b.st # "I" THEN Owned(b) ELSE b
             f == IF leaves THEN [e EXCEPT !.st = "OTOI"] ELSE e
  <2>1. /\ m.type = "GETS_FORWARD" /\ golden' = golden
        /\ Reply(i, r, Just(Msg("GETS_RESP", RESP, i, m.arg, l, 1, IF b.st # "I" THEN b.data ELSE e.data)))
        /\ block' = IF b.st # "I" THEN Update(block, i, l, Owned(b)) ELSE block
        /\ mshr' = IF leaves THEN [mshr EXCEPT ![i][l].st = "OTOI"] ELSE mshr
    BY <1>6 DEF HandleGetSForward, Receives, Update
  <2>2. Becomes(block, block', i, l, c)
    <3>1. CASE b.st # "I"
      BY <3>1, <2>1, <1>1, ShapedUpdate
    <3>2. CASE b.st = "I"
      BY <3>2, <2>1, <1>2
    <3> QED BY <3>1, <3>2
  <2>3. Becomes(mshr, mshr', i, l, f)
    <3>1. CASE leaves
      <4>1. Becomes(mshr, mshr', i, l, [e EXCEPT !.st = "OTOI"])
        BY <3>1, <2>1, <1>1, BecomesRecord
      <4> QED BY <4>1, <3>1
    <3>2. CASE ~leaves
      BY <3>2, <2>1, <1>2
    <3> QED BY <3>1, <3>2
  <2> QED BY <2>1, <2>2, <2>3 DEF GetSForwardTaken, TakenIn, Taken1
<1>7. CASE HandleGetMForward(i, r)
  <2> DEFINE f == IF b.st # "I" THEN e ELSE [e EXCEPT !.st = AfterGetM(@)]
             st == AfterGetM(e.st)
  <2>1. /\ m.type = "GETM_FORWARD" /\ golden' = golden
        /\ Reply(i, r, Just(Msg("GETM_RESP", RESP, i, m.arg, l, 0, IF b.st # "I" THEN b.data ELSE e.data)))
        /\ block' = Update(block, i, l, Absent)
        /\ mshr' = IF b.st # "I" THEN mshr ELSE [mshr EXCEPT ![i][l].st = st]
    BY <1>7 DEF HandleGetMForward, Receives, Removed, Update
  <2>2. Becomes(block, block', i, l, Absent)
    BY <2>1, <1>1, ShapedUpdate
  <2> HIDE DEF st
  <2>3. Becomes(mshr, mshr', i, l, f)
    <3>1. CASE b.st = "I"
      <4>1. Becomes(mshr, mshr', i, l, [e EXCEPT !.st = st])
        BY <3>1, <2>1, <1>1, BecomesRecord
      <4> QED BY <4>1, <3>1 DEF st
    <3>2. CASE b.st # "I"
      BY <3>2, <2>1, <1>2
    <3> QED BY <3>1, <3>2
  <2> QED BY <2>1, <2>2, <2>3 DEF GetMForwardTaken, TakenIn, Taken1
<1>8. CASE HandleGetSResp(i, r)
  BY <1>8 DEF HandleGetSResp, Receives, GetSRespTaken, LineIn, Taken1
<1>9. CASE HandleGetMResp(i, r)
  <2> DEFINE early == m.arg = 0 /\ (~e.hasNeed \/ e.need # e.acks)
             d == m.data
  <2>1. m.type = "GETM_RESP" /\ golden' = golden
    BY <1>9 DEF HandleGetMResp, Receives
  <2>2. CASE ~early
    <3>1. NewLine(i, l, "M", m.data, r, IF m.arg = 0 THEN Just(GetAck(i, l)) ELSE Nothing)
      BY <1>9, <2>2 DEF HandleGetMResp
    <3> QED BY <3>1, <2>1, <2>2 DEF GetMRespTaken, LineIn, Taken1
  <2>3. CASE early
    <3>1. /\ mshr' = [mshr EXCEPT ![i][l].data = d, ![i][l].hasData = TRUE]
          /\ Reply(i, r, Nothing) /\ block' = block
      BY <1>9, <2>3 DEF HandleGetMResp
    <3> HIDE DEF d
    <3>2. Becomes(mshr, mshr', i, l, [e EXCEPT !.data = d, !.hasData = TRUE])
      BY <3>1, <1>1, BecomesRecord
    <3> QED BY <3>1, <3>2, <2>1, <2>3, <1>2 DEF GetMRespTaken, TakenIn, Taken1, d
  <2> QED BY <2>2, <2>3
<1>10. CASE HandleGetRespMem(i, r)
  BY <1>10 DEF HandleGetRespMem, Receives, GetRespMemTaken, LineIn, Taken1
<1>11. CASE HandlePutAck(i, r)
  <2>1. /\ m.type = "PUT_ACK" /\ golden' = golden /\ Reply(i, r, Nothing) /\ block' = block
        /\ mshr' = Update(mshr, i, l, NoMSHR)
    BY <1>11 DEF HandlePutAck, Receives, Update
  <2>2. Becomes(mshr, mshr', i, l, NoMSHR)
    BY <2>1, <1>1, ShapedUpdate
  <2> QED BY <2>1, <2>2, <1>2 DEF PutAckTaken, TakenIn, Taken1
<1> QED BY <1>3, <1>4, <1>5, <1>6, <1>7, <1>8, <1>9, <1>10, <1>11 DEF L1Handle

\* Whatever an L1 takes in.
LEMMA TakenKeeps ==
  ASSUME MoesiInv, NEW i \in L1s, NEW r \in Arriving(i), NEW l, l = MsgAt(i, r).line,
         Taken1(i, r, l), UNCHANGED llcVars
  PROVE  Kept
  BY InvalidTakenKeeps, InvalidAckTakenKeeps, GetMAckTakenKeeps, GetSForwardTakenKeeps,
     GetMForwardTakenKeeps, GetSRespTakenKeeps, GetMRespTakenKeeps, GetRespMemTakenKeeps,
     PutAckTakenKeeps DEF Taken1

\* So does the handler itself.
LEMMA L1DeliverKeeps ==
  ASSUME MoesiInv, NEW i \in L1s, NEW n \in Nodes, L1Deliver(i, n)
  PROVE  Kept
<1>1. PICK r \in Arriving(i) : L1Handle(i, r) /\ UNCHANGED llcVars
  BY DEF L1Deliver
<1> QED BY <1>1, HandleTaken, TakenKeeps

-----------------------------------------------------------------------------
(* The accesses of a CPU.                                                  *)

\* A step that changes neither cache, bus nor LLC changes no view.
LEMMA Unmoved ==
  ASSUME MoesiInv, UNCHANGED <<net, block, mshr, golden, llcVars>>
  PROVE  Kept /\ \A l \in Lines : View(l)' = View(l)
<1>1. /\ net' = net /\ block' = block /\ mshr' = mshr /\ golden' = golden
      /\ recv_buf' = recv_buf /\ processing' = processing /\ queue_index' = queue_index
      /\ process_buf' = process_buf /\ queue_writeback' = queue_writeback
      /\ dir' = dir /\ blk' = blk /\ mem' = mem
  BY DEF llcVars
<1>2. Packaged' = Packaged /\ Packages' = Packages /\ InFlight' = InFlight
  BY <1>1 DEF Packaged, Packages, InFlight
<1>3. ASSUME NEW l \in Lines PROVE View(l)' = View(l)
  <2>1. MsgsOf(l)' = MsgsOf(l) /\ EntryOf(l)' = EntryOf(l) /\ Owed(l)' = Owed(l)
    BY <1>1, <1>2 DEF MsgsOf, EntryOf, Owed
  <2> QED BY <1>1, <2>1 DEF View
<1>4. LinesMove /\ LinesInv'
  <2>1. LinesMove
    BY <1>3 DEF LinesMove
  <2> QED BY <2>1, LinesKept DEF MoesiInv
<1>5. Carried(net)' /\ Queued' /\ Packed' /\ Apart' /\ Locked' /\ Shaped'
  BY <1>1, <1>2 DEF MoesiInv, Queued, Packed, Apart, Locked, Shaped
<1> QED BY <1>3, <1>4, <1>5 DEF MoesiInv, Kept

\* An L1 puts a request on the bus.
LEMMA Asked ==
  ASSUME MoesiInv, NEW i \in L1s, NEW x \in Message, x.src = i, x \notin View(x.line).msgs,
         net' = Sent(net, i, Just(x))
  PROVE  Carried(net') /\ InNet(net') = InNet(net) \cup {x}
<1>1. Sends(i, Just(x)) /\ OutSet(Just(x)) = {x} /\ i \in Nodes
  BY NodeFacts, JustSent
<1>2. x \notin InNet(net)
  BY MessagesHere
<1>3. ~Grant(x)
  BY NodeFacts DEF Grant
<1> DEFINE o == Just(x)
<1>4. Sends(i, o) /\ OutSet(o) = {x} /\ net' = Sent(net, i, o)
  BY <1>1
<1> HIDE DEF o
<1>5. Follows(net, o) /\ Carried(net)
  BY <1>2, <1>3, <1>4 DEF Follows, MoesiInv
<1> QED BY <1>1, <1>4, <1>5, SentFacts

\* An L1 that acts by itself and sends a request.
LEMMA AskedKeeps ==
  ASSUME MoesiInv, NEW i \in L1s, NEW l \in Lines,
         NEW x \in Message, x.src = i, x.line = l, x \notin View(l).msgs,
         net' = Sent(net, i, Just(x)), UNCHANGED llcVars, golden' = golden,
         NEW c, Becomes(block, block', i, l, c), NEW e, Becomes(mshr, mshr', i, l, e),
         AtL1(View(l), View(l)', i, c, e, {}, {x}) /\ View(l)'.golden = View(l).golden
           => LineStep(l, View(l), View(l)')
  PROVE  Kept
<1> DEFINE new == {x}
           gone == {}
<1>1. Carried(net') /\ InNet(net') = (InNet(net) \ gone) \cup new
  <2>1. Carried(net') /\ InNet(net') = InNet(net) \cup {x}
    BY Asked
  <2> QED BY <2>1
<1>2. \A y \in new : y \notin View(y.line).msgs
  OBVIOUS
<1> HIDE DEF new, gone
<1>3. Queued' /\ Packed' /\ Apart' /\ Locked'
  BY <1>1, <1>2, QueuesKept
<1>4. /\ block'[i][l] = c /\ mshr'[i][l] = e
      /\ \A k \in L1s \ {i} : block'[k] = block[k] /\ mshr'[k] = mshr[k]
      /\ \A j \in Lines \ {l} : block'[i][j] = block[i][j] /\ mshr'[i][j] = mshr[i][j]
      /\ block' = [k \in L1s |-> [j \in Lines |-> block'[k][j]]]
      /\ mshr' = [k \in L1s |-> [j \in Lines |-> mshr'[k][j]]]
  BY DEF Becomes
<1>5. Shaped'
  BY <1>4 DEF MoesiInv, Shaped, llcVars
<1>6. L1Acts(i, gone, new)
  BY <1>1, <1>4 DEF L1Acts, gone
<1>7. Of(gone, l) = {} /\ Of(new, l) = {x}
  BY DEF Of, gone, new
<1>8. LineStep(l, View(l), View(l)')
  <2>1. /\ AtL1(View(l), View(l)', i, block'[i][l], mshr'[i][l], Of(gone, l), Of(new, l))
        /\ View(l)'.golden = golden'[l]
    BY <1>6, L1Frame
  <2>2. View(l).golden = golden[l] /\ golden'[l] = golden[l]
    BY ViewFacts
  <2> QED BY <1>4, <1>7, <2>1, <2>2
<1>9. ASSUME NEW j \in Lines, j # l PROVE View(j)' = View(j)
  <2>1. \A y \in gone \cup new : y.line # j
    BY <1>9 DEF gone, new
  <2>2. block'[i][j] = block[i][j] /\ mshr'[i][j] = mshr[i][j] /\ golden'[j] = golden[j]
    BY <1>4, <1>9
  <2> QED BY <2>1, <2>2, <1>6, L1Elsewhere
<1>10. LinesMove /\ LinesInv'
  <2>1. LinesMove
    BY <1>8, <1>9 DEF LinesMove
  <2> QED BY <2>1, LinesKept DEF MoesiInv
<1> QED BY <1>1, <1>3, <1>5, <1>10 DEF MoesiInv, Kept

\* The request of an L1 for a line it has no transaction for.
LEMMA AskSent ==
  ASSUME MoesiInv, NEW i \in L1s, NEW l \in Lines, mshr[i][l].st = "-", NEW x, NEW ty, NEW ch,
         x = Msg(ty, ch, i, LLC, l, i, NoData), ty = "GETS" \/ ty = "GETM", ch = RESP \/ ch = REQ
  PROVE  x \in Message /\ x.src = i /\ x.line = l /\ x \notin View(l).msgs
<1> DEFINE s == View(l)
<1>1. LineInv(l, s) /\ s.mshr[i].st = "-"
  BY MoesiLine, ViewAt
<1>2. x \in Message /\ x.type = ty /\ x.src = i /\ x.line = l
  <2>1. /\ ty \in MessageTypes /\ ty \notin {"GETS_RESP", "GETM_RESP", "INVALID", "GETS_FORWARD", "GETM_FORWARD"}
        /\ ch \in {ACK, RESP, REQ} /\ i \in Nodes /\ LLC \in Nodes /\ i \in Nat /\ NoData \in Data
    BY NodeFacts, DataFacts DEF MessageTypes
  <2> QED BY <2>1, MessageFacts, MsgFacts
<1> HIDE DEF s
<1>3. Request(x)
  BY <1>2 DEF Request
<1>4. x \notin s.msgs
  BY <1>1, <1>2, <1>3, FreshRequest
<1> QED BY <1>2, <1>4 DEF s

\* load that misses.
LEMMA LoadMissKeeps ==
  ASSUME MoesiInv, NEW i \in L1s, NEW l \in Lines, LoadMiss(i, l), UNCHANGED llcVars
  PROVE  Kept
<1> DEFINE s == View(l)
           t == View(l)'
           x == Msg("GETS", REQ, i, LLC, l, i, NoData)
           e == Waits("ITOS")
<1>1. /\ block[i][l].st = "I" /\ mshr[i][l].st = "-" /\ golden' = golden
      /\ net' = Sent(net, i, Just(x)) /\ block' = block /\ mshr' = Update(mshr, i, l, e)
  BY DEF LoadMiss, Update
<1>2. Becomes(block, block', i, l, block[i][l]) /\ Becomes(mshr, mshr', i, l, e)
  <2>1. Shaped
    BY DEF MoesiInv
  <2> HIDE DEF e
  <2> QED BY <1>1, <2>1, BecomesSame, ShapedUpdate
<1>3. x \in Message /\ x.src = i /\ x.line = l /\ x \notin View(l).msgs
  <2> DEFINE y == x
  <2>1. y = x /\ mshr[i][l].st = "-"
    BY <1>1
  <2> HIDE DEF y
  <2>2. y \in Message /\ y.src = i /\ y.line = l /\ y \notin View(l).msgs
    BY <2>1, AskSent
  <2> QED BY <2>1, <2>2
<1>4. s.cache[i] = block[i][l] /\ s.mshr[i] = mshr[i][l]
  BY ViewAt
<1>5. AtL1(s, t, i, block[i][l], e, {}, {x}) /\ t.golden = s.golden => LineStep(l, s, t)
  <2> HIDE DEF s, t
  <2> SUFFICES ASSUME AtL1(s, t, i, block[i][l], e, {}, {x}), t.golden = s.golden
               PROVE  LineLoads(l, s, t, i)
    BY DEF LineStep
  <2> QED BY <1>1, <1>4 DEF LineLoads
<1> HIDE DEF x, e
<1> QED BY <1>1, <1>2, <1>3, <1>5, AskedKeeps

\* store that misses.
LEMMA StoreMissKeeps ==
  ASSUME MoesiInv, NEW i \in L1s, NEW l \in Lines, StoreMiss(i, l), UNCHANGED llcVars
  PROVE  Kept
<1> DEFINE s == View(l)
           t == View(l)'
           x == Msg("GETM", RESP, i, LLC, l, i, NoData)
           b == block[i][l]
           e == Upgrade(b)
<1>1. /\ b.st \notin {"E", "M"} /\ mshr[i][l].st = "-" /\ golden' = golden
      /\ net' = Sent(net, i, Just(x)) /\ block' = Update(block, i, l, Absent)
  BY DEF StoreMiss, CanWrite, Removed, Update
<1>2. mshr' = Update(mshr, i, l, e)
  <2>1. e = CASE b.st = "S" -> [Waits("STOM") EXCEPT !.data = b.data]
              [] b.st = "O" -> [Waits("OTOM") EXCEPT !.data = b.data]
              [] OTHER -> Waits("ITOM")
    <3> HIDE DEF b
    <3>1. CASE b.st = "S"
      BY <3>1, Zenon DEF Upgrade
    <3>2. CASE b.st = "O"
      <4>1. b.st # "S"
        BY <3>2
      <4> QED BY <3>2, <4>1, Zenon DEF Upgrade
    <3>3. CASE b.st \notin {"S", "O"}
      <4>1. b.st # "S" /\ b.st # "O"
        BY <3>3
      <4> QED BY <4>1, Zenon DEF Upgrade
    <3> QED BY <3>1, <3>2, <3>3
  <2> HIDE DEF e
  <2> QED BY <2>1 DEF StoreMiss, Update
<1>3. Becomes(block, block', i, l, Absent) /\ Becomes(mshr, mshr', i, l, e)
  <2>1. Shaped
    BY DEF MoesiInv
  <2> HIDE DEF e
  <2> QED BY <1>1, <1>2, <2>1, ShapedUpdate
<1>4. x \in Message /\ x.src = i /\ x.line = l /\ x \notin View(l).msgs
  <2> DEFINE y == x
  <2>1. y = x /\ mshr[i][l].st = "-"
    BY <1>1
  <2> HIDE DEF y
  <2>2. y \in Message /\ y.src = i /\ y.line = l /\ y \notin View(l).msgs
    BY <2>1, AskSent
  <2> QED BY <2>1, <2>2
<1>5. s.cache[i] = b /\ s.mshr[i] = mshr[i][l]
  BY ViewAt
<1>6. AtL1(s, t, i, Absent, e, {}, {x}) /\ t.golden = s.golden => LineStep(l, s, t)
  <2> HIDE DEF s, t, b
  <2> SUFFICES ASSUME AtL1(s, t, i, Absent, e, {}, {x}), t.golden = s.golden
               PROVE  LineAsksToStore(l, s, t, i)
    BY DEF LineStep
  <2>1. s.cache[i].st \notin {"E", "M"} /\ s.mshr[i].st = "-"
    BY <1>1, <1>5
  <2>2. \E ch \in {RESP, REQ} :
          AtL1(s, t, i, Absent, Upgrade(s.cache[i]), {}, {Msg("GETM", ch, i, LLC, l, i, NoData)})
    BY <1>5
  <2> QED BY <2>1, <2>2 DEF LineAsksToStore
<1> HIDE DEF x, e
<1> QED BY <1>1, <1>3, <1>4, <1>6, AskedKeeps

\* store that hits.
LEMMA StoreHitKeeps ==
  ASSUME MoesiInv, NEW i \in L1s, NEW l \in Lines, StoreHit(i, l), UNCHANGED llcVars
  PROVE  Kept
<1> DEFINE g == NextData(golden[l])
           c == [st |-> "M", data |-> g]
<1>1. /\ block[i][l].st \in {"E", "M"} /\ net' = net /\ mshr' = mshr
      /\ block' = Update(block, i, l, c) /\ golden' = [golden EXCEPT ![l] = g]
  BY DEF StoreHit, CanWrite, Update
<1>2. Shaped /\ Carried(net)
  BY DEF MoesiInv
<1> HIDE DEF g
<1>3. golden'[l] = g /\ (\A j \in Lines \ {l} : golden'[j] = golden[j])
      /\ golden' = [j \in Lines |-> golden'[j]]
  <2>1. golden = [j \in Lines |-> golden[j]]
    BY <1>2 DEF Shaped
  <2> DEFINE o == golden
             n == golden'
  <2>2. o = [j \in Lines |-> o[j]] /\ n = [o EXCEPT ![l] = g]
    BY <2>1, <1>1
  <2> HIDE DEF o, n
  <2>3. n = [j \in Lines |-> IF j = l THEN g ELSE o[j]]
    BY <2>2
  <2>4. n[l] = g /\ (\A j \in Lines \ {l} : n[j] = o[j]) /\ n = [j \in Lines |-> n[j]]
    BY <2>3
  <2> QED BY <2>4 DEF o, n
<1> HIDE DEF c
<1>4. Becomes(block, block', i, l, c) /\ Becomes(mshr, mshr', i, l, mshr[i][l])
  BY <1>1, <1>2, BecomesSame, ShapedUpdate
<1>5. /\ block'[i][l] = c /\ mshr'[i][l] = mshr[i][l]
      /\ \A k \in L1s \ {i} : block'[k] = block[k] /\ mshr'[k] = mshr[k]
      /\ \A j \in Lines \ {l} : block'[i][j] = block[i][j] /\ mshr'[i][j] = mshr[i][j]
      /\ block' = [k \in L1s |-> [j \in Lines |-> block'[k][j]]]
      /\ mshr' = [k \in L1s |-> [j \in Lines |-> mshr'[k][j]]]
  BY <1>4 DEF Becomes
<1> DEFINE new == {}
           gone == {}
<1>6. Carried(net') /\ InNet(net') = (InNet(net) \ gone) \cup new
      /\ (\A y \in new : y \notin View(y.line).msgs) /\ gone \subseteq InNet(net)
  BY <1>1, <1>2
<1>7. Of(gone, l) = {} /\ Of(new, l) = {} /\ \A j : \A y \in gone \cup new : y.line # j
  BY DEF Of
<1> HIDE DEF new, gone
<1>8. Queued' /\ Packed' /\ Apart' /\ Locked'
  BY <1>6, QueuesKept
<1>9. Shaped'
  BY <1>2, <1>3, <1>5 DEF Shaped, llcVars
<1>10. L1Acts(i, gone, new)
  BY <1>5, <1>6 DEF L1Acts
<1>11. LineStep(l, View(l), View(l)')
  <2> DEFINE s == View(l)
             t == View(l)'
  <2>1. /\ AtL1(s, t, i, block'[i][l], mshr'[i][l], Of(gone, l), Of(new, l))
        /\ t.golden = golden'[l]
    BY <1>10, L1Frame
  <2>2. s.golden = golden[l] /\ s.cache[i] = block[i][l] /\ s.mshr[i] = mshr[i][l]
    BY ViewFacts, ViewAt
  <2> HIDE DEF s, t
  <2>3. LineStores(l, s, t, i)
    BY <1>1, <1>3, <1>5, <1>7, <2>1, <2>2 DEF LineStores, c, g
  <2>4. LineStep(l, s, t)
    BY <2>3 DEF LineStep
  <2> QED BY <2>4 DEF s, t
<1>12. ASSUME NEW j \in Lines, j # l PROVE View(j)' = View(j)
  <2>1. \A y \in gone \cup new : y.line # j
    BY <1>7
  <2>2. block'[i][j] = block[i][j] /\ mshr'[i][j] = mshr[i][j] /\ golden'[j] = golden[j]
    BY <1>3, <1>5, <1>12
  <2> QED BY <2>1, <2>2, <1>10, L1Elsewhere
<1>13. LinesMove /\ LinesInv'
  <2>1. LinesMove
    BY <1>11, <1>12 DEF LinesMove
  <2> QED BY <2>1, LinesKept DEF MoesiInv
<1> QED BY <1>6, <1>8, <1>9, <1>13 DEF MoesiInv, Kept

\* Whatever a CPU does with its cache.
LEMMA CPUKeeps ==
  ASSUME MoesiInv, NEW i \in L1s, CPU(i)
  PROVE  Kept
<1>1. PICK l \in Accesses[i] : L1Access(i, l) /\ UNCHANGED llcVars
  BY DEF CPU
<1>2. l \in Lines
  BY AccessesAssumption
<1>3. CASE LoadReserved(i, l)
  <2>1. UNCHANGED <<net, block, mshr, golden, llcVars>>
    BY <1>1, <1>3 DEF LoadReserved
  <2> QED BY <2>1, Unmoved
<1>4. CASE LoadMiss(i, l)
  BY <1>1, <1>2, <1>4, LoadMissKeeps
<1>5. CASE StoreHit(i, l)
  BY <1>1, <1>2, <1>5, StoreHitKeeps
<1>6. CASE StoreMiss(i, l)
  BY <1>1, <1>2, <1>6, StoreMissKeeps
<1> QED BY <1>1, <1>3, <1>4, <1>5, <1>6 DEF L1Access, StoreConditional

-----------------------------------------------------------------------------
(* The LLC.                                                                *)

\* A queue with one element for each line.
LEMMA OneEachSet ==
  ASSUME NEW S, NEW q \in Seq(S), OneEach(q)
  PROVE  IsInjective(q) /\ \A x, y \in ToSet(q) : x.line = y.line => x = y
<1>1. \A x : x \in ToSet(q) <=> \E k \in 1 .. Len(q) : q[k] = x
  BY ToSetFacts
<1>2. IsInjective(q) <=> \A j, k \in 1 .. Len(q) : q[j] = q[k] => j = k
  BY ToSetFacts
<1> QED BY <1>1, <1>2 DEF OneEach

\* It takes in an element for another line,
LEMMA OneEachAppend ==
  ASSUME NEW S, NEW q \in Seq(S), OneEach(q), NEW x \in S, \A y \in ToSet(q) : y.line # x.line
  PROVE  OneEach(Append(q, x))
<1> DEFINE a == Append(q, x)
           n == Len(q)
<1>1. n \in Nat /\ Len(a) = n + 1 /\ a[n + 1] = x /\ \A k \in 1 .. n : a[k] = q[k]
  BY AppendProperties, LenProperties
<1>2. \A k \in 1 .. n : q[k] \in ToSet(q)
  BY ToSetFacts
<1> HIDE DEF a, n
<1>3. ASSUME NEW j \in 1 .. n + 1, NEW k \in 1 .. n + 1, a[j].line = a[k].line PROVE j = k
  <2>1. CASE j \in 1 .. n /\ k \in 1 .. n
    BY <2>1, <1>1, <1>3 DEF OneEach, n
  <2>2. CASE j \in 1 .. n /\ k = n + 1
    BY <2>2, <1>1, <1>2, <1>3
  <2>3. CASE j = n + 1 /\ k \in 1 .. n
    BY <2>3, <1>1, <1>2, <1>3
  <2>4. (j \in 1 .. n \/ j = n + 1) /\ (k \in 1 .. n \/ k = n + 1)
    BY <1>1
  <2> QED BY <2>1, <2>2, <2>3, <2>4
<1> QED BY <1>1, <1>3 DEF OneEach, a

\* loses one,
LEMMA OneEachRemove ==
  ASSUME NEW S, NEW q \in Seq(S), NEW k \in 1 .. Len(q), OneEach(q)
  PROVE  /\ RemoveAt(q, k) \in Seq(S) /\ OneEach(RemoveAt(q, k))
         /\ ToSet(RemoveAt(q, k)) = ToSet(q) \ {q[k]}
         /\ \A y \in ToSet(RemoveAt(q, k)) : y.line # q[k].line
<1> DEFINE r == RemoveAt(q, k)
           n == Len(q)
<1>1. /\ r \in Seq(S) /\ Len(r) = n - 1 /\ n \in Nat
      /\ \A j \in 1 .. n - 1 : r[j] = IF j < k THEN q[j] ELSE q[j + 1]
  BY RemoveAtFacts, LenProperties
<1>2. ToSet(r) = ToSet(q) \ {q[k]}
  BY OneEachSet, RemoveAtSet
<1>3. q[k] \in ToSet(q)
  BY ToSetFacts
<1> HIDE DEF r
<1>4. ASSUME NEW i \in 1 .. n - 1, NEW j \in 1 .. n - 1, r[i].line = r[j].line PROVE i = j
  <2> DEFINE a == IF i < k THEN i ELSE i + 1
             b == IF j < k THEN j ELSE j + 1
  <2>1. a \in 1 .. n /\ b \in 1 .. n /\ (a = b => i = j)
    BY <1>1
  <2>2. r[i] = q[a] /\ r[j] = q[b]
    BY <1>1
  <2> QED BY <2>1, <2>2, <1>4 DEF OneEach
<1>5. OneEach(r)
  BY <1>1, <1>4 DEF OneEach
<1>6. \A y \in ToSet(r) : y.line # q[k].line
  BY <1>2, <1>3, OneEachSet
<1> QED BY <1>1, <1>2, <1>5, <1>6 DEF r

\* or its head.
LEMMA OneEachTail ==
  ASSUME NEW S, NEW q \in Seq(S), q # <<>>, OneEach(q)
  PROVE  /\ Tail(q) \in Seq(S) /\ OneEach(Tail(q)) /\ Head(q) \in ToSet(q) /\ Head(q) \in S
         /\ ToSet(Tail(q)) = ToSet(q) \ {Head(q)}
         /\ \A y \in ToSet(Tail(q)) : y.line # Head(q).line
<1> DEFINE r == Tail(q)
           n == Len(q)
<1>1. n \in Nat \ {0}
  BY EmptySeq, LenProperties
<1>2. r \in Seq(S) /\ Len(r) = n - 1 /\ \A j \in 1 .. n - 1 : r[j] = q[j + 1]
  BY <1>1, HeadTailProperties
<1>3. IsInjective(q)
  BY OneEachSet
<1>4. ToSet(r) = ToSet(q) \ {Head(q)} /\ Head(q) \in ToSet(q) /\ Head(q) \in S
  BY <1>3, TailSet
<1> HIDE DEF r
<1>5. ASSUME NEW i \in 1 .. n - 1, NEW j \in 1 .. n - 1, r[i].line = r[j].line PROVE i = j
  <2>1. i + 1 \in 1 .. n /\ j + 1 \in 1 .. n
    BY <1>1
  <2>2. r[i] = q[i + 1] /\ r[j] = q[j + 1]
    BY <1>2
  <2>3. i + 1 = j + 1
    BY <2>1, <2>2, <1>5 DEF OneEach
  <2> QED BY <2>3
<1>6. OneEach(r)
  BY <1>2, <1>5 DEF OneEach
<1>7. \A y \in ToSet(r) : y.line # Head(q).line
  BY <1>4, OneEachSet
<1> QED BY <1>2, <1>4, <1>6, <1>7 DEF r

\* The entry of a line is that of its package, if it has one.
LEMMA OnePackage ==
  ASSUME Queued, Locked
  PROVE  \A p, o \in Packages : p.line = o.line => p = o
<1>1. /\ \A p, o \in ToSet(process_buf) : p.line = o.line => p = o
      /\ \A p, o \in ToSet(queue_writeback) : p.line = o.line => p = o
  BY OneEachSet DEF Queued, Locked
<1>2. \A p \in ToSet(process_buf), o \in ToSet(queue_writeback) : o.line # p.line
  BY DEF Locked
<1> QED BY <1>1, <1>2 DEF Packages

\* so that what is chosen is that package.
LEMMA PackageEntry ==
  ASSUME NEW P, \A p, o \in P : p.line = o.line => p = o, NEW l, NEW d, NEW e,
         e = IF \E p \in P : p.line = l THEN Written(CHOOSE p \in P : p.line = l) ELSE d
  PROVE  /\ \A p \in P : p.line = l => e = Written(p)
         /\ (\A p \in P : p.line # l) => e = d
<1>1. ASSUME NEW p \in P, p.line = l PROVE e = Written(p)
  <2>1. (CHOOSE o \in P : o.line = l) \in P /\ (CHOOSE o \in P : o.line = l).line = l
    BY <1>1
  <2>2. (CHOOSE o \in P : o.line = l) = p
    BY <2>1, <1>1
  <2> QED BY <2>2, <1>1
<1> QED BY <1>1

\* The entry of a line is that of its package, if it has one.
LEMMA EntryOfIs ==
  ASSUME Queued, Locked, NEW l
  PROVE  /\ \A p \in Packages : p.line = l => EntryOf(l) = Written(p)
         /\ (\A p \in Packages : p.line # l) => EntryOf(l) = dir[l]
<1>1. \A p, o \in Packages : p.line = o.line => p = o
  BY OnePackage
<1> QED BY <1>1, PackageEntry DEF EntryOf

\* The same for the entry after a step.
LEMMA NextEntryIs ==
  ASSUME Queued', Locked', NEW l
  PROVE  /\ \A p \in Packages' : p.line = l => EntryOf(l)' = Written(p)
         /\ (\A p \in Packages' : p.line # l) => EntryOf(l)' = dir'[l]
<1>1. \A p, o \in Packages' : p.line = o.line => p = o
  <2>1. /\ \A p, o \in ToSet(process_buf') : p.line = o.line => p = o
        /\ \A p, o \in ToSet(queue_writeback') : p.line = o.line => p = o
    BY OneEachSet DEF Queued, Locked
  <2>2. \A p \in ToSet(process_buf'), o \in ToSet(queue_writeback') : o.line # p.line
    BY DEF Locked
  <2> QED BY <2>1, <2>2 DEF Packages
<1>2. EntryOf(l)' = IF \E p \in Packages' : p.line = l
                    THEN Written(CHOOSE p \in Packages' : p.line = l) ELSE dir'[l]
  BY DEF EntryOf
<1> DEFINE P == Packages'
           d == dir'[l]
           e == EntryOf(l)'
<1>3. /\ \A p, o \in P : p.line = o.line => p = o
      /\ e = IF \E p \in P : p.line = l THEN Written(CHOOSE p \in P : p.line = l) ELSE d
  BY <1>1, <1>2
<1> HIDE DEF P, d, e
<1>4. /\ \A p \in P : p.line = l => e = Written(p)
      /\ (\A p \in P : p.line # l) => e = d
  BY <1>3, PackageEntry
<1> QED BY <1>4 DEF P, d, e

\* All the messages there are.
Here == InNet(net) \cup ToSet(recv_buf) \cup ToSet(queue_index) \cup Packaged

\* The messages of a line are those that are anywhere.
LEMMA HereIs ==
  ASSUME NEW l
  PROVE  /\ Carried(net) => MsgsOf(l) = Of(Here, l)
         /\ Carried(net') => MsgsOf(l)' = Of(Here', l)
<1>1. ASSUME Carried(net) PROVE MsgsOf(l) = Of(Here, l)
  <2>1. InFlight = InNet(net)
    BY <1>1, InFlightIsNet
  <2> QED BY <2>1 DEF MsgsOf, Of, Here
<1>2. ASSUME Carried(net') PROVE MsgsOf(l)' = Of(Here', l)
  <2>1. InFlight' = InNet(net')
    BY <1>2, InFlightIsNet
  <2> QED BY <2>1 DEF MsgsOf, Of, Here
<1> QED BY <1>1, <1>2

\* A step that moves messages, packages and entries, and changes no line.
LEMMA LLCUnseen ==
  ASSUME MoesiInv, UNCHANGED <<block, mshr, golden>>,
         (Carried(net) /\ Queued /\ Packed /\ Apart /\ Locked /\ Shaped)',
         Here' = Here, blk' = blk, mem' = mem,
         \A l \in Lines : EntryOf(l)' = EntryOf(l) /\ Owed(l)' = Owed(l)
  PROVE  Kept
<1>1. ASSUME NEW l \in Lines PROVE View(l)' = View(l)
  <2>1. MsgsOf(l)' = MsgsOf(l)
    BY HereIs DEF MoesiInv
  <2>2. EntryOf(l)' = EntryOf(l) /\ Owed(l)' = Owed(l)
    OBVIOUS
  <2> QED BY <2>1, <2>2 DEF View
<1>2. LinesMove /\ LinesInv'
  <2>1. LinesMove
    BY <1>1 DEF LinesMove
  <2> QED BY <2>1, LinesKept DEF MoesiInv
<1> QED BY <1>2 DEF MoesiInv, Kept

\* The LLC or the memory node takes the message m of line l in, and new ones come.
TakenAway(l, m, new) ==
  /\ m \in Here /\ m.line = l
  /\ Here' = (Here \ {m}) \cup new /\ \A x \in new : x.line = l
  /\ \A j \in Lines \ {l} :
       /\ EntryOf(j)' = EntryOf(j) /\ Owed(j)' = Owed(j)
       /\ blk'[j] = blk[j] /\ mem'[j] = mem[j]

\* A step of the LLC or the memory node that one line notices.
LEMMA LLCServes ==
  ASSUME MoesiInv, UNCHANGED <<block, mshr, golden>>,
         (Carried(net) /\ Queued /\ Packed /\ Apart /\ Locked /\ Shaped)',
         NEW l \in Lines, NEW m, NEW new, TakenAway(l, m, new),
         /\ AtLLC(View(l), View(l)', m, new, EntryOf(l)', Owed(l)')
         /\ View(l)'.blk = blk'[l] /\ View(l)'.mem = mem'[l]
         => LineStep(l, View(l), View(l)')
  PROVE  Kept
<1>1. /\ m \in Here /\ m.line = l
      /\ Here' = (Here \ {m}) \cup new /\ \A x \in new : x.line = l
  BY DEF TakenAway
<1>2. ASSUME NEW j \in Lines, j # l PROVE View(j)' = View(j)
  <2>1. Of(Here', j) = Of(Here, j)
    BY <1>1, <1>2 DEF Of
  <2>2. MsgsOf(j)' = MsgsOf(j)
    BY <2>1, HereIs DEF MoesiInv
  <2>3. EntryOf(j)' = EntryOf(j) /\ Owed(j)' = Owed(j) /\ blk'[j] = blk[j] /\ mem'[j] = mem[j]
    BY <1>2 DEF TakenAway
  <2> QED BY <2>2, <2>3 DEF View
<1>3. AtLLC(View(l), View(l)', m, new, EntryOf(l)', Owed(l)')
  <2> DEFINE s == View(l)
             t == View(l)'
  <2>1. /\ s.cache = [i \in L1s |-> block[i][l]] /\ s.mshr = [i \in L1s |-> mshr[i][l]]
        /\ s.msgs = MsgsOf(l) /\ s.golden = golden[l]
    BY ViewFacts
  <2>2. /\ t.cache = [i \in L1s |-> block[i][l]] /\ t.mshr = [i \in L1s |-> mshr[i][l]]
        /\ t.msgs = MsgsOf(l)' /\ t.golden = golden[l] /\ t.entry = EntryOf(l)' /\ t.owed = Owed(l)'
    BY DEF View
  <2>3. m \in MsgsOf(l) /\ MsgsOf(l)' = (MsgsOf(l) \ {m}) \cup new
    <3>1. m \in Of(Here, l) /\ Of(Here', l) = (Of(Here, l) \ {m}) \cup new
      BY <1>1 DEF Of
    <3> QED BY <3>1, HereIs DEF MoesiInv
  <2> DEFINE e == EntryOf(l)'
             o == Owed(l)'
  <2> HIDE DEF s, t, e, o
  <2>4. t.entry = e /\ t.owed = o
    BY <2>2 DEF e, o
  <2>5. AtLLC(s, t, m, new, e, o)
    BY <2>1, <2>2, <2>3, <2>4 DEF AtLLC
  <2> QED BY <2>5 DEF s, t, e, o
<1>4. View(l)'.blk = blk'[l] /\ View(l)'.mem = mem'[l]
  BY DEF View
<1>5. LineStep(l, View(l), View(l)')
  BY <1>3, <1>4
<1>6. LinesMove /\ LinesInv'
  <2>1. LinesMove
    BY <1>2, <1>5 DEF LinesMove
  <2> QED BY <2>1, LinesKept DEF MoesiInv
<1> QED BY <1>6 DEF MoesiInv, Kept

-----------------------------------------------------------------------------
(* p1_fetch.                                                               *)

\* A request arrives: its line notices nothing.
LEMMA ReceiveRequestKeeps ==
  ASSUME MoesiInv, NEW r \in Arriving(LLC), P1Receive(r), Request(MsgAt(LLC, r)), UNCHANGED l1Vars
  PROVE  Kept
<1> DEFINE m == MsgAt(LLC, r)
<1>1. /\ net' = Taken(LLC, r) /\ recv_buf' = Append(recv_buf, m) /\ processing' = processing
      /\ queue_index' = queue_index /\ process_buf' = process_buf /\ queue_writeback' = queue_writeback
      /\ dir' = dir /\ blk' = blk /\ mem' = mem
      /\ block' = block /\ mshr' = mshr /\ golden' = golden
  BY DEF P1Receive, l1Vars
<1>2. /\ Carried(net') /\ InNet(net') = InNet(net) \ {m} /\ m \in InNet(net) /\ m \in Message
  BY <1>1, NodeFacts, TakenFacts DEF MoesiInv
<1>3. /\ recv_buf \in Seq(Message) /\ IsInjective(recv_buf)
      /\ InNet(net) \cap (ToSet(recv_buf) \cup ToSet(queue_index) \cup Packaged) = {}
      /\ ToSet(recv_buf) \cap ToSet(queue_index) = {}
  BY DEF MoesiInv, Queued, Apart
<1> HIDE DEF m
<1>4. /\ recv_buf' \in Seq(Message) /\ IsInjective(recv_buf')
      /\ ToSet(recv_buf') = ToSet(recv_buf) \cup {m}
  <2>1. m \notin ToSet(recv_buf)
    BY <1>2, <1>3
  <2> HIDE DEF Message
  <2> QED BY <1>1, <1>2, <1>3, <2>1, AppendSet
<1>5. Packaged' = Packaged /\ Packages' = Packages
  BY <1>1 DEF Packaged, Packages
<1>6. Here' = Here
  BY <1>1, <1>2, <1>4, <1>5 DEF Here
<1>7. Apart'
  BY <1>1, <1>2, <1>3, <1>4, <1>5 DEF Apart
<1>8. Queued'
  BY <1>1, <1>4 DEF MoesiInv, Queued, m
<1>9. Packed' /\ Locked' /\ Shaped'
  BY <1>1 DEF MoesiInv, Packed, Locked, Shaped
<1>10. \A l \in Lines : EntryOf(l)' = EntryOf(l) /\ Owed(l)' = Owed(l)
  BY <1>1, <1>5 DEF EntryOf, Owed
<1> QED BY <1>1, <1>2, <1>6, <1>7, <1>8, <1>9, <1>10, LLCUnseen

\* GET_ACK arrives and unlocks the line.
LEMMA ReceiveAckKeeps ==
  ASSUME MoesiInv, NEW r \in Arriving(LLC), P1Receive(r), ~Request(MsgAt(LLC, r)), UNCHANGED l1Vars
  PROVE  Kept
<1> SUFFICES ASSUME NEW m, m = MsgAt(LLC, r) PROVE Kept
  OBVIOUS
<1> SUFFICES ASSUME NEW l, l = m.line PROVE Kept
  OBVIOUS
<1>1. /\ net' = Taken(LLC, r) /\ recv_buf' = recv_buf
      /\ queue_index' = queue_index /\ process_buf' = process_buf /\ queue_writeback' = queue_writeback
      /\ dir' = dir /\ blk' = blk /\ mem' = mem
      /\ block' = block /\ mshr' = mshr /\ golden' = golden
      /\ m.type \in {"GET_ACK", "INVALID_ACK"}
      /\ m.type = "GET_ACK" => processing' = processing \ {l}
  BY DEF P1Receive, l1Vars, Unlock
<1>2. /\ Carried(net') /\ InNet(net') = InNet(net) \ {m} /\ m \in InNet(net) /\ m \in Message /\ m.dst = LLC
  BY <1>1, NodeFacts, TakenFacts DEF MoesiInv
<1>3. l \in Lines /\ m \in View(l).msgs
  BY <1>2, MessagesHere
<1> DEFINE s == View(l)
<1>4. LineInv(l, s) /\ m \in s.msgs /\ s.owed = Owed(l)
  BY <1>3, MoesiLine, ViewFacts
<1> HIDE DEF s
<1>5. m.type = "GET_ACK" /\ Owing(m) /\ Token(m)
  <2>1. WellFormed(l, m)
    BY <1>4, About
  <2>2. m.type # "INVALID_ACK"
    BY <2>1, <1>2, NodeFacts DEF WellFormed
  <2> QED BY <2>2, <1>1 DEF Owing, Token
<1>6. Owed(l)
  BY <1>4, <1>5 DEF LineInv, OwingOwed
<1>7. \A p \in ToSet(process_buf) : p.line # l
  <2> SUFFICES ASSUME NEW p \in ToSet(process_buf), p.line = l PROVE FALSE
    OBVIOUS
  <2>1. p.delay
    BY <1>6 DEF Owed, Packages
  <2>2. PICK n \in OutSet(p.sends) : Owing(n) /\ n.line = l
    BY <2>1 DEF MoesiInv, Packed
  <2>3. n \in Packaged
    BY PackagedFacts
  <2>4. n \in s.msgs
    BY <2>2, <2>3, MessagesHere DEF s
  <2>5. n = m
    BY <2>2, <2>4, <1>4, <1>5 DEF LineInv, TokenAlone
  <2> QED BY <2>3, <2>5, <1>2 DEF MoesiInv, Apart
<1>8. Packaged' = Packaged /\ Packages' = Packages
  BY <1>1 DEF Packaged, Packages
<1>9. Apart' /\ Packed' /\ Shaped'
  <2>1. Apart'
    BY <1>1, <1>2, <1>8 DEF MoesiInv, Apart
  <2> QED BY <2>1, <1>1 DEF MoesiInv, Packed, Shaped
<1>10. Queued'
  BY <1>1, <1>5 DEF MoesiInv, Queued
<1>11. Locked'
  <2>1. \A x \in ToSet(queue_index) : x.line # l
    BY <1>6 DEF Owed
  <2>2. \A p \in ToSet(queue_writeback) : p.line = l => p.delay
    BY <1>6 DEF Owed, Packages
  <2>3. processing' = processing \ {l}
    BY <1>1, <1>5
  <2>4. Locked
    BY DEF MoesiInv
  <2> QED BY <2>1, <2>2, <2>3, <2>4, <1>1, <1>7 DEF Locked
<1>12. EntryOf(l)' = EntryOf(l) /\ Owed(l)' = FALSE
  BY <1>1, <1>5, <1>8 DEF EntryOf, Owed
<1>13. ASSUME NEW j \in Lines \ {l}
       PROVE  EntryOf(j)' = EntryOf(j) /\ Owed(j)' = Owed(j) /\ blk'[j] = blk[j] /\ mem'[j] = mem[j]
  BY <1>1, <1>5, <1>8 DEF EntryOf, Owed
<1>14. TakenAway(l, m, {})
  <2>1. m \in Here /\ Here' = Here \ {m}
    <3>1. m \notin ToSet(recv_buf) \cup ToSet(queue_index) \cup Packaged
      BY <1>2 DEF MoesiInv, Apart
    <3> QED BY <3>1, <1>1, <1>2, <1>8 DEF Here
  <2> QED BY <2>1, <1>13 DEF TakenAway
<1>15. /\ AtLLC(View(l), View(l)', m, {}, EntryOf(l)', Owed(l)')
       /\ View(l)'.blk = blk'[l] /\ View(l)'.mem = mem'[l]
       => LineStep(l, View(l), View(l)')
  <2> DEFINE t == View(l)'
             o == Owed(l)'
             e == EntryOf(l)'
  <2>1. s.blk = blk'[l] /\ s.mem = mem'[l] /\ s.entry = e
    BY <1>1, <1>12, ViewFacts DEF s
  <2>2. o = FALSE
    BY <1>12
  <2> HIDE DEF t, o, e
  <2>3. ASSUME AtLLC(s, t, m, {}, e, o), t.blk = blk'[l], t.mem = mem'[l] PROVE LineUnlocked(l, s, t, m)
    BY <2>1, <2>2, <2>3, <1>5 DEF LineUnlocked
  <2>4. ASSUME LineUnlocked(l, s, t, m) PROVE LineStep(l, s, t)
    BY <2>4, <1>4 DEF LineStep
  <2> QED BY <2>3, <2>4 DEF s, t, o, e
<1> QED BY <1>1, <1>2, <1>3, <1>9, <1>10, <1>11, <1>14, <1>15, LLCServes

\* p1_fetch locks the line of a request: nobody owes it yet.
LEMMA DispatchKeeps ==
  ASSUME MoesiInv, P1Dispatch, UNCHANGED l1Vars
  PROVE  Kept
<1>1. PICK k \in 1 .. Len(recv_buf) :
        /\ recv_buf[k].line \notin processing
        /\ queue_index' = Append(queue_index, recv_buf[k]) /\ recv_buf' = RemoveAt(recv_buf, k)
        /\ processing' = processing \cup {recv_buf[k].line}
  BY DEF P1Dispatch
<1>2. /\ process_buf' = process_buf /\ queue_writeback' = queue_writeback
      /\ dir' = dir /\ blk' = blk /\ mem' = mem /\ net' = net
      /\ block' = block /\ mshr' = mshr /\ golden' = golden
  BY DEF P1Dispatch, l1Vars
<1> DEFINE m == recv_buf[k]
           l == m.line
<1>3. /\ recv_buf \in Seq(Message) /\ IsInjective(recv_buf) /\ queue_index \in Seq(Message)
      /\ InNet(net) \cap (ToSet(recv_buf) \cup ToSet(queue_index) \cup Packaged) = {}
      /\ ToSet(recv_buf) \cap ToSet(queue_index) = {}
      /\ \A x \in ToSet(recv_buf) \cup ToSet(queue_index) : Request(x)
  BY DEF MoesiInv, Queued, Apart
<1>4. m \in ToSet(recv_buf) /\ m \in Message
  BY <1>3, ToSetFacts
<1>5. /\ recv_buf' \in Seq(Message) /\ IsInjective(recv_buf') /\ ToSet(recv_buf') = ToSet(recv_buf) \ {m}
  BY <1>1, <1>3, RemoveAtSet
<1>l. l \in Lines
  BY <1>4 DEF Message
<1> HIDE DEF m
<1>6. queue_index' \in Seq(Message) /\ ToSet(queue_index') = ToSet(queue_index) \cup {m}
  <2>1. queue_index' = Append(queue_index, m)
    BY <1>1 DEF m
  <2> HIDE DEF Message
  <2> QED BY <2>1, <1>3, <1>4, AppendSet
<1>7. Locked
  BY DEF MoesiInv
<1>8. l \notin processing /\ processing' = processing \cup {l}
  BY <1>1 DEF m
<1>9. OneEach(queue_index')
  <2>1. \A y \in ToSet(queue_index) : y.line # m.line
    BY <1>7, <1>8 DEF Locked
  <2>2. OneEach(queue_index) /\ queue_index' = Append(queue_index, m)
    BY <1>1, <1>7 DEF Locked, m
  <2> HIDE DEF Message
  <2> QED BY <2>1, <2>2, <1>3, <1>4, OneEachAppend
<1>10. Locked'
  <2>1. \A p \in ToSet(process_buf) : p.line # l
    BY <1>7, <1>8 DEF Locked
  <2>2. \A p \in ToSet(queue_writeback) : ~p.delay => p.line # l
    BY <1>7, <1>8 DEF Locked
  <2> HIDE DEF l
  <2>3. \A x \in ToSet(queue_index') : x \in ToSet(queue_index) \/ x.line = l
    BY <1>6 DEF l
  <2> QED BY <2>1, <2>2, <2>3, <1>2, <1>7, <1>8, <1>9 DEF Locked
<1>11. Packaged' = Packaged /\ Packages' = Packages
  BY <1>2 DEF Packaged, Packages
<1>12. Here' = Here
  BY <1>2, <1>4, <1>5, <1>6, <1>11 DEF Here
<1>13. Apart'
  BY <1>2, <1>3, <1>4, <1>5, <1>6, <1>11 DEF Apart
<1>14. Queued'
  BY <1>2, <1>3, <1>4, <1>5, <1>6, <1>8, <1>l DEF MoesiInv, Queued
<1>15. Packed' /\ Shaped' /\ Carried(net')
  BY <1>2 DEF MoesiInv, Packed, Shaped
<1>16. ASSUME NEW j \in Lines PROVE EntryOf(j)' = EntryOf(j) /\ Owed(j)' = Owed(j)
  <2>1. EntryOf(j)' = EntryOf(j)
    BY <1>2, <1>11 DEF EntryOf
  <2>2. CASE j = l
    <3>1. ~Owed(j) /\ ~Owed(j)'
      BY <2>2, <1>6, <1>8 DEF Owed
    <3> QED BY <2>1, <3>1 DEF Owed
  <2>3. CASE j # l
    <3>1. (\A x \in ToSet(queue_index') : x.line # j) <=> (\A x \in ToSet(queue_index) : x.line # j)
      BY <2>3, <1>6
    <3>2. j \in processing' <=> j \in processing
      BY <2>3, <1>8
    <3> QED BY <2>1, <3>1, <3>2, <1>11 DEF Owed
  <2> QED BY <2>2, <2>3
<1> QED BY <1>2, <1>10, <1>12, <1>13, <1>14, <1>15, <1>16, LLCUnseen

-----------------------------------------------------------------------------
(* p2_index, when it commits an entry.                                     *)

\* p2_index commits an entry, and unlocks the line if nobody owes it.
LEMMA WritebackKeeps ==
  ASSUME MoesiInv, P2Writeback, UNCHANGED l1Vars
  PROVE  Kept
<1> DEFINE p == Head(queue_writeback)
           l == p.line
<1>1. /\ queue_writeback # <<>> /\ dir' = [dir EXCEPT ![l] = Written(p)]
      /\ IF p.delay THEN processing' = processing ELSE processing' = processing \ {l}
      /\ queue_writeback' = Tail(queue_writeback)
      /\ recv_buf' = recv_buf /\ queue_index' = queue_index /\ process_buf' = process_buf
      /\ blk' = blk /\ mem' = mem /\ net' = net
      /\ block' = block /\ mshr' = mshr /\ golden' = golden
  BY DEF P2Writeback, Unlock, l1Vars
<1>2. Queued /\ Locked /\ Packed /\ Shaped /\ Carried(net) /\ Apart
  BY DEF MoesiInv
<1>3. /\ queue_writeback' \in Seq(Package) /\ OneEach(queue_writeback')
      /\ p \in ToSet(queue_writeback) /\ p \in Package
      /\ ToSet(queue_writeback') = ToSet(queue_writeback) \ {p}
      /\ \A o \in ToSet(queue_writeback') : o.line # l
  <2>1. queue_writeback \in Seq(Package) /\ OneEach(queue_writeback)
    BY <1>2 DEF Queued, Locked
  <2> HIDE DEF Package
  <2> QED BY <2>1, <1>1, OneEachTail
<1>4. l \in Lines
  BY <1>3 DEF Package
<1> HIDE DEF p
<1>5. dir'[l] = Written(p) /\ (\A j \in Lines \ {l} : dir'[j] = dir[j]) /\ dir' = [j \in Lines |-> dir'[j]]
  <2>1. dir = [j \in Lines |-> dir[j]]
    BY <1>2 DEF Shaped
  <2> DEFINE o == dir
             n == dir'
             w == Written(p)
  <2>2. o = [j \in Lines |-> o[j]] /\ n = [o EXCEPT ![l] = w]
    BY <2>1, <1>1
  <2> HIDE DEF o, n, w, l
  <2>3. n = [j \in Lines |-> IF j = l THEN w ELSE o[j]]
    BY <2>2
  <2>4. n[l] = w /\ (\A j \in Lines \ {l} : n[j] = o[j]) /\ n = [j \in Lines |-> n[j]]
    BY <2>3, <1>4
  <2> QED BY <2>4 DEF o, n, w
<1>6. Packages' = Packages \ {p} /\ p \in Packages /\ \A o \in Packages' : o.line # l
  <2>1. \A o \in ToSet(process_buf) : o.line # l
    BY <1>2, <1>3 DEF Locked
  <2>2. p \notin ToSet(process_buf)
    BY <2>1
  <2> QED BY <2>1, <2>2, <1>1, <1>3 DEF Packages
<1>7. Packaged' = Packaged /\ Here' = Here
  BY <1>1 DEF Packaged, Here
<1>8. Apart' /\ Carried(net') /\ Shaped'
  <2>1. Apart' /\ Carried(net')
    BY <1>1, <1>2, <1>7 DEF Apart
  <2> QED BY <2>1, <1>1, <1>2, <1>5 DEF Shaped
<1>9. Queued' /\ Packed'
  <2>1. processing' \subseteq processing
    BY <1>1
  <2> QED BY <2>1, <1>1, <1>2, <1>3 DEF Queued, Packed
<1>10. Locked'
  <2>1. CASE p.delay
    BY <2>1, <1>1, <1>2, <1>3 DEF Locked
  <2>2. CASE ~p.delay
    <3>1. processing' = processing \ {l}
      BY <2>2, <1>1
    <3>2. \A x \in ToSet(queue_index) : x.line # l
      BY <2>2, <1>2, <1>3 DEF Locked
    <3>3. \A o \in ToSet(process_buf) : o.line # l
      BY <1>2, <1>3 DEF Locked
    <3> HIDE DEF l
    <3> QED BY <3>1, <3>2, <3>3, <1>1, <1>2, <1>3 DEF Locked
  <2> QED BY <2>1, <2>2
<1>11. ASSUME NEW j \in Lines PROVE EntryOf(j)' = EntryOf(j) /\ Owed(j)' = Owed(j)
  <2>1. CASE j = l
    <3>1. EntryOf(j) = Written(p)
      BY <2>1, <1>2, <1>6, EntryOfIs
    <3>2. EntryOf(j)' = dir'[j]
      BY <2>1, <1>6, <1>9, <1>10, NextEntryIs
    <3>3. Owed(j)' = Owed(j)
      <4>1. \A o \in Packages : o.line = j => o = p
        BY <2>1, <1>6
      <4>2. CASE p.delay
        BY <4>1, <4>2, <2>1, <1>1, <1>6 DEF Owed
      <4>3. CASE ~p.delay
        <5>1. ~Owed(j)
          BY <4>3, <2>1, <1>6 DEF Owed
        <5>2. ~Owed(j)'
          BY <4>3, <2>1, <1>1 DEF Owed
        <5> QED BY <5>1, <5>2 DEF Owed
      <4> QED BY <4>2, <4>3
    <3> QED BY <3>1, <3>2, <3>3, <2>1, <1>5
  <2>2. CASE j # l
    <3>1. \A o : o \in Packages' /\ o.line = j <=> o \in Packages /\ o.line = j
      BY <2>2, <1>6
    <3>2. dir'[j] = dir[j]
      BY <2>2, <1>5
    <3>3. EntryOf(j)' = EntryOf(j)
      <4>1. CASE \E o \in Packages : o.line = j
        <5>1. PICK o \in Packages : o.line = j
          BY <4>1
        <5>2. EntryOf(j) = Written(o)
          BY <5>1, <1>2, EntryOfIs
        <5>3. EntryOf(j)' = Written(o)
          BY <5>1, <3>1, <1>9, <1>10, NextEntryIs
        <5> QED BY <5>2, <5>3
      <4>2. CASE \A o \in Packages : o.line # j
        <5>1. EntryOf(j) = dir[j]
          BY <4>2, <1>2, EntryOfIs
        <5>2. EntryOf(j)' = dir'[j]
          BY <4>2, <3>1, <1>9, <1>10, NextEntryIs
        <5> QED BY <5>1, <5>2, <3>2
      <4> QED BY <4>1, <4>2
    <3>4. Owed(j)' = Owed(j)
      <4>1. j \in processing' <=> j \in processing
        BY <2>2, <1>1
      <4>2. (\A o \in Packages' : o.line = j => o.delay) <=> (\A o \in Packages : o.line = j => o.delay)
        BY <3>1
      <4> QED BY <4>1, <4>2, <1>1 DEF Owed
    <3> QED BY <3>3, <3>4
  <2> QED BY <2>1, <2>2
<1> QED BY <1>1, <1>7, <1>8, <1>9, <1>10, <1>11, LLCUnseen

-----------------------------------------------------------------------------
(* p3_process.                                                             *)

\* Packages and messages move on; nothing else does.
LEMMA ProcessFacts ==
  ASSUME MoesiInv, NEW k \in 1 .. Len(process_buf), P3Process(k), UNCHANGED l1Vars, NEW p, p = process_buf[k]
  PROVE  /\ net' = Sent(net, LLC, p.sends)
         /\ queue_writeback' = Append(queue_writeback, [p EXCEPT !.sends = Nothing])
         /\ recv_buf' = recv_buf /\ processing' = processing /\ queue_index' = queue_index
         /\ dir' = dir /\ blk' = blk /\ mem' = mem
         /\ block' = block /\ mshr' = mshr /\ golden' = golden
         /\ p \in Package /\ p \in ToSet(process_buf) /\ Sends(LLC, p.sends)
         /\ process_buf' \in Seq(Package) /\ OneEach(process_buf')
         /\ ToSet(process_buf') = ToSet(process_buf) \ {p}
         /\ \A o \in ToSet(process_buf') : o.line # p.line
<1>1. /\ net' = Sent(net, LLC, p.sends)
      /\ queue_writeback' = Append(queue_writeback, [p EXCEPT !.sends = Nothing])
      /\ process_buf' = RemoveAt(process_buf, k)
      /\ recv_buf' = recv_buf /\ processing' = processing /\ queue_index' = queue_index
      /\ dir' = dir /\ blk' = blk /\ mem' = mem
      /\ block' = block /\ mshr' = mshr /\ golden' = golden
  BY DEF P3Process, l1Vars
<1>2. process_buf \in Seq(Package) /\ OneEach(process_buf)
  BY DEF MoesiInv, Queued, Locked
<1>3. p \in ToSet(process_buf) /\ p \in Package
  BY <1>2, ToSetFacts
<1>4. /\ process_buf' \in Seq(Package) /\ OneEach(process_buf')
      /\ ToSet(process_buf') = ToSet(process_buf) \ {p}
      /\ \A o \in ToSet(process_buf') : o.line # p.line
  <2> HIDE DEF Package
  <2> QED BY <1>1, <1>2, OneEachRemove
<1>5. Sends(LLC, p.sends)
  BY <1>3 DEF MoesiInv, Packed
<1> QED BY <1>1, <1>3, <1>4, <1>5

\* A package whose messages are sent.
LEMMA PackageSent ==
  ASSUME NEW p \in Package
  PROVE  LET w == [p EXCEPT !.sends = Nothing] IN
         /\ w \in Package /\ w.line = p.line /\ w.entry = p.entry /\ w.delay = p.delay
         /\ w.sends = Nothing /\ Written(w) = Written(p)
<1>1. Nothing \in [Nodes -> Seq(Message)]
  BY NothingSent DEF Sends
<1> DEFINE w == [p EXCEPT !.sends = Nothing]
<1>2. w \in Package /\ w.line = p.line /\ w.entry = p.entry /\ w.delay = p.delay /\ w.sends = Nothing
  <2> DEFINE M == [Nodes -> Seq(Message)]
             E == [exists : SUBSET L1s, owner : L1s, dirty : BOOLEAN]
             n == Nothing
  <2> HIDE DEF M, E, n
  <2>1. p \in [line : Lines, entry : E, delay : BOOLEAN, sends : M] /\ n \in M
    BY <1>1 DEF Package, E, M, n
  <2>2. /\ [p EXCEPT !.sends = n] \in [line : Lines, entry : E, delay : BOOLEAN, sends : M]
        /\ [p EXCEPT !.sends = n].line = p.line /\ [p EXCEPT !.sends = n].entry = p.entry
        /\ [p EXCEPT !.sends = n].delay = p.delay /\ [p EXCEPT !.sends = n].sends = n
    BY <2>1
  <2> QED BY <2>2 DEF Package, E, M, n
<1> HIDE DEF w
<1>3. Written(w) = Written(p)
  BY <1>2 DEF Written
<1> QED BY <1>2, <1>3 DEF w

\* p3_process puts the messages of a package on the bus, a grant before what calls it back.
LEMMA ProcessKeeps ==
  ASSUME MoesiInv, NEW k \in 1 .. Len(process_buf), P3Process(k), UNCHANGED l1Vars
  PROVE  Kept
<1> SUFFICES ASSUME NEW p, p = process_buf[k] PROVE Kept
  OBVIOUS
<1> DEFINE w == [p EXCEPT !.sends = Nothing]
           l == p.line
           out == p.sends
<1>1. /\ net' = Sent(net, LLC, out) /\ queue_writeback' = Append(queue_writeback, w)
      /\ recv_buf' = recv_buf /\ processing' = processing /\ queue_index' = queue_index
      /\ dir' = dir /\ blk' = blk /\ mem' = mem
      /\ block' = block /\ mshr' = mshr /\ golden' = golden
      /\ p \in Package /\ p \in ToSet(process_buf) /\ Sends(LLC, out)
      /\ process_buf' \in Seq(Package) /\ OneEach(process_buf')
      /\ ToSet(process_buf') = ToSet(process_buf) \ {p}
      /\ \A o \in ToSet(process_buf') : o.line # l
  BY ProcessFacts
<1>2. Queued /\ Locked /\ Packed /\ Shaped /\ Carried(net) /\ Apart
  BY DEF MoesiInv
<1>3. w \in Package /\ w.line = l /\ w.delay = p.delay /\ w.sends = Nothing /\ Written(w) = Written(p)
  BY <1>1, PackageSent
<1> HIDE DEF w, out
<1>4. l \in Lines /\ \A x \in OutSet(out) : x.line = l /\ (Grant(x) => ~p.delay) /\ x \in Packaged
  <2>1. l \in Lines
    BY <1>1 DEF Package
  <2>2. \A x \in OutSet(out) : x.line = l /\ (Grant(x) => ~p.delay)
    BY <1>1, <1>2 DEF Packed, out
  <2>3. \A x \in OutSet(out) : x \in Packaged
    BY <1>1, PackagedFacts DEF out
  <2> QED BY <2>1, <2>2, <2>3
<1>5. /\ queue_writeback' \in Seq(Package) /\ OneEach(queue_writeback')
      /\ ToSet(queue_writeback') = ToSet(queue_writeback) \cup {w}
  <2>1. queue_writeback \in Seq(Package) /\ OneEach(queue_writeback)
    BY <1>2 DEF Queued, Locked
  <2>2. \A o \in ToSet(queue_writeback) : o.line # w.line
    BY <1>1, <1>2, <1>3 DEF Locked
  <2> HIDE DEF Package
  <2> QED BY <2>1, <2>2, <1>1, <1>3, AppendSet, OneEachAppend
<1>6. Carried(net') /\ InNet(net') = InNet(net) \cup OutSet(out)
  <2>1. OutSet(out) \cap InNet(net) = {}
    BY <1>2, <1>4 DEF Apart
  <2>2. ASSUME NEW m \in OutSet(out), NEW x \in InNet(net) \cup OutSet(out), Grant(m), Owing(x), m.line = x.line
        PROVE  FALSE
    <3>1. ~p.delay /\ x.line = l
      BY <2>2, <1>4
    <3>2. x \in View(x.line).msgs
      BY <1>4, MessagesHere
    <3> DEFINE s == View(l)
    <3>3. x \in s.msgs /\ LineInv(l, s) /\ s.owed = Owed(l)
      BY <3>1, <3>2, <1>4, MoesiLine, ViewFacts
    <3> HIDE DEF s
    <3>4. Owed(l)
      BY <3>3, <2>2 DEF LineInv, OwingOwed
    <3> QED BY <3>1, <3>4, <1>1 DEF Owed, Packages
  <2>3. Follows(net, out)
    BY <2>1, <2>2 DEF Follows
  <2> QED BY <2>3, <1>1, <1>2, NodeFacts, SentFacts
<1>7. \A x : x \in Packaged <=> x \in Packaged' \/ x \in OutSet(out)
  <2>1. \A x : x \in Packaged <=> \E o \in ToSet(process_buf) : x \in OutSet(o.sends)
    BY PackagedFacts
  <2>2. \A x : x \in Packaged' <=> \E o \in ToSet(process_buf') : x \in OutSet(o.sends)
    <3> TAKE x
    <3>1. \A o : o \in ToSet(process_buf') <=> \E j \in 1 .. Len(process_buf') : process_buf'[j] = o
      BY <1>1, ToSetFacts
    <3>2. x \in Packaged' <=> \E j \in 1 .. Len(process_buf') : x \in OutSet(process_buf'[j].sends)
      BY DEF Packaged, OutSet
    <3> QED BY <3>1, <3>2
  <2> QED BY <2>1, <2>2, <1>1 DEF out
<1>8. \A x \in OutSet(out) : x \notin Packaged'
  <2> SUFFICES ASSUME NEW x \in OutSet(out), x \in Packaged' PROVE FALSE
    OBVIOUS
  <2>1. PICK j \in 1 .. Len(process_buf') : x \in OutSet(process_buf'[j].sends)
    BY DEF Packaged, OutSet
  <2>2. process_buf'[j] \in ToSet(process_buf')
    BY <1>1, ToSetFacts
  <2>3. x.line = process_buf'[j].line
    BY <2>1, <2>2, <1>1, <1>2 DEF Packed
  <2> QED BY <2>2, <2>3, <1>1, <1>4
<1>9. \A x \in OutSet(out) : x \notin ToSet(recv_buf) \cup ToSet(queue_index)
  <2> SUFFICES ASSUME NEW x \in OutSet(out), x \in ToSet(recv_buf) \cup ToSet(queue_index) PROVE FALSE
    OBVIOUS
  <2>1. Request(x)
    BY <1>2 DEF Queued
  <2>2. x.src = LLC
    BY <1>1 DEF Sends, OutSet
  <2> DEFINE s == View(l)
  <2>3. x \in s.msgs /\ LineInv(l, s)
    BY <1>4, MessagesHere, MoesiLine
  <2> HIDE DEF s
  <2>4. WellFormed(l, x)
    BY <2>3, About
  <2> QED BY <2>1, <2>2, <2>4, NodeFacts DEF WellFormed
<1>10. Here' = Here
  BY <1>1, <1>6, <1>7 DEF Here
<1>11. Apart'
  <2>1. ToSet(recv_buf) \cap ToSet(queue_index) = {}
    BY <1>2 DEF Apart
  <2>2. ASSUME NEW x, x \in InNet(net'), x \in ToSet(recv_buf) \/ x \in ToSet(queue_index) \/ x \in Packaged'
        PROVE  FALSE
    <3>1. CASE x \in OutSet(out)
      BY <3>1, <2>2, <1>8, <1>9
    <3>2. CASE x \in InNet(net)
      BY <3>2, <2>2, <1>2, <1>7 DEF Apart
    <3> QED BY <3>1, <3>2, <2>2, <1>6
  <2> QED BY <2>1, <2>2, <1>1 DEF Apart
<1>12. Queued' /\ Packed' /\ Shaped'
  <2>1. Queued'
    BY <1>1, <1>2, <1>5 DEF Queued
  <2>2. Packed'
    <3>1. ToSet(process_buf') \subseteq ToSet(process_buf)
      BY <1>1
    <3>2. \A o \in ToSet(queue_writeback') : o.sends = Nothing
      BY <1>2, <1>3, <1>5 DEF Packed
    <3> QED BY <3>1, <3>2, <1>2 DEF Packed
  <2>3. Shaped'
    BY <1>1, <1>2 DEF Shaped
  <2> QED BY <2>1, <2>2, <2>3
<1>13. Locked'
  <2>1. /\ p.line \in processing /\ \A m \in ToSet(queue_index) : m.line # p.line
    BY <1>1, <1>2 DEF Locked
  <2>2. \A o \in ToSet(process_buf'), v \in ToSet(queue_writeback') : v.line # o.line
    BY <1>1, <1>2, <1>3, <1>5 DEF Locked
  <2>3. \A v \in ToSet(queue_writeback') :
          ~v.delay => v.line \in processing /\ \A m \in ToSet(queue_index) : m.line # v.line
    BY <2>1, <1>2, <1>3, <1>5 DEF Locked
  <2> QED BY <2>2, <2>3, <1>1, <1>2, <1>5 DEF Locked
<1>14. Packages' = (Packages \ {p}) \cup {w} /\ p \in Packages
  <2>1. p \notin ToSet(queue_writeback)
    BY <1>1, <1>2 DEF Locked
  <2> QED BY <2>1, <1>1, <1>5 DEF Packages
<1>15. ASSUME NEW j \in Lines PROVE EntryOf(j)' = EntryOf(j) /\ Owed(j)' = Owed(j)
  <2>1. EntryOf(j)' = EntryOf(j)
    <3>1. CASE \E o \in Packages : o.line = j
      <4>1. PICK o \in Packages : o.line = j
        BY <3>1
      <4>2. EntryOf(j) = Written(o)
        BY <4>1, <1>2, EntryOfIs
      <4>3. PICK v \in Packages' : v.line = j /\ Written(v) = Written(o)
        BY <4>1, <1>3, <1>14
      <4>4. EntryOf(j)' = Written(v)
        BY <4>3, <1>12, <1>13, NextEntryIs
      <4> QED BY <4>2, <4>3, <4>4
    <3>2. CASE \A o \in Packages : o.line # j
      <4>1. \A o \in Packages' : o.line # j
        BY <3>2, <1>3, <1>14
      <4>2. EntryOf(j) = dir[j]
        BY <3>2, <1>2, EntryOfIs
      <4>3. EntryOf(j)' = dir'[j]
        BY <4>1, <1>12, <1>13, NextEntryIs
      <4> QED BY <4>2, <4>3, <1>1
    <3> QED BY <3>1, <3>2
  <2>2. Owed(j)' = Owed(j)
    <3>1. (\A o \in Packages' : o.line = j => o.delay) <=> (\A o \in Packages : o.line = j => o.delay)
      BY <1>3, <1>14
    <3> QED BY <3>1, <1>1 DEF Owed
  <2> QED BY <2>1, <2>2
<1> QED BY <1>1, <1>6, <1>10, <1>11, <1>12, <1>13, <1>15, LLCUnseen

-----------------------------------------------------------------------------
(* The memory node.                                                        *)

\* The memory node answers.
LEMMA MemHandleKeeps ==
  ASSUME MoesiInv, NEW r \in Arriving(MEM), MemHandle(r), UNCHANGED l1Vars
  PROVE  Kept
<1> SUFFICES ASSUME NEW m, m = MsgAt(MEM, r) PROVE Kept
  OBVIOUS
<1> SUFFICES ASSUME NEW l, l = m.line PROVE Kept
  OBVIOUS
<1> DEFINE q == Taken(MEM, r)
           s == View(l)
           x == Msg("GET_RESP_MEM", RESP, MEM, m.arg, l, 0, mem[l])
<1>1. Carried(q) /\ InNet(q) = InNet(net) \ {m} /\ m \in InNet(net) /\ m \in Message /\ m.dst = MEM
  BY NodeFacts, TakenFacts DEF MoesiInv
<1>2. l \in Lines /\ m \in s.msgs /\ LineInv(l, s) /\ s.mem = mem[l] /\ s.entry = EntryOf(l) /\ s.owed = Owed(l)
      /\ s.blk = blk[l]
  BY <1>1, MessagesHere, MoesiLine, ViewFacts
<1> HIDE DEF q, s
<1>3. WellFormed(l, m)
  BY <1>2, About
<1>4. m.type # "PUTM"
  <2>1. Request(m) => m.dst = LLC
    BY <1>3 DEF WellFormed
  <2> QED BY <2>1, <1>1, NodeFacts DEF Request
<1>5. /\ m.type \in {"GETS_FORWARD", "GETM_FORWARD"}
      /\ net' = Sent(q, MEM, Just(x)) /\ mem' = mem
      /\ recv_buf' = recv_buf /\ processing' = processing /\ queue_index' = queue_index
      /\ process_buf' = process_buf /\ queue_writeback' = queue_writeback
      /\ dir' = dir /\ blk' = blk
      /\ block' = block /\ mshr' = mshr /\ golden' = golden
  BY <1>4 DEF MemHandle, l1Vars, q
<1>6. x \in Message /\ x.type = "GET_RESP_MEM" /\ x.src = MEM /\ x.line = l
  <2>1. mem[l] \in Data
    BY <1>2 DEF LineInv, LineTypes
  <2>2. m.arg \in Nodes /\ "GET_RESP_MEM" \in MessageTypes
    BY <1>3, <1>5, NodeFacts DEF WellFormed, MessageTypes
  <2> DEFINE a == m.arg
             d == mem[l]
  <2>3. a \in Nodes /\ d \in Data /\ 0 \in Nat /\ RESP \in {ACK, RESP, REQ}
    BY <2>1, <2>2
  <2> HIDE DEF a, d
  <2>4. Msg("GET_RESP_MEM", RESP, MEM, a, l, 0, d) \in Message
    BY <2>2, <2>3, <1>2, NodeFacts, MessageFacts
  <2> QED BY <2>4, MsgFacts DEF a, d
<1> HIDE DEF x
<1>7. x \notin s.msgs
  <2>1. Owing(m) /\ Owing(x) /\ Token(x) /\ m.type # x.type
    BY <1>5, <1>6 DEF Owing, Token
  <2> QED BY <2>1, <1>2, FreshAnswer
<1>8. ~(x \in InNet(net) \/ x \in ToSet(recv_buf) \/ x \in ToSet(queue_index) \/ x \in Packaged)
  BY <1>6, <1>7, MessagesHere DEF s
<1>9. Carried(net') /\ InNet(net') = (InNet(net) \ {m}) \cup {x}
  <2> DEFINE out == Just(x)
  <2>1. Sends(MEM, out) /\ OutSet(out) = {x} /\ net' = Sent(q, MEM, out) /\ MEM \in Nodes
    BY <1>5, <1>6, NodeFacts, JustSent
  <2> HIDE DEF out
  <2>2. ~Grant(x)
    BY <1>6 DEF Grant
  <2>3. Follows(q, out)
    BY <2>1, <2>2, <1>1, <1>8 DEF Follows
  <2> QED BY <2>1, <2>3, <1>1, SentFacts
<1>10. Packaged' = Packaged /\ Packages' = Packages
  BY <1>5 DEF Packaged, Packages
<1>11. m \in Here /\ Here' = (Here \ {m}) \cup {x}
  <2>1. m \notin ToSet(recv_buf) \cup ToSet(queue_index) \cup Packaged
    BY <1>1 DEF MoesiInv, Apart
  <2> QED BY <2>1, <1>1, <1>5, <1>9, <1>10 DEF Here
<1>12. Queued' /\ Packed' /\ Apart' /\ Locked' /\ Shaped'
  <2>1. Queued' /\ Packed' /\ Locked' /\ Shaped'
    BY <1>5 DEF MoesiInv, Queued, Packed, Locked, Shaped
  <2>2. Apart'
    BY <1>5, <1>8, <1>9, <1>10 DEF MoesiInv, Apart
  <2> QED BY <2>1, <2>2
<1>13. \A j \in Lines : EntryOf(j)' = EntryOf(j) /\ Owed(j)' = Owed(j)
  BY <1>5, <1>10 DEF EntryOf, Owed
<1>14. TakenAway(l, m, {x})
  BY <1>5, <1>6, <1>11, <1>13 DEF TakenAway
<1>15. /\ AtLLC(View(l), View(l)', m, {x}, EntryOf(l)', Owed(l)')
       /\ View(l)'.blk = blk'[l] /\ View(l)'.mem = mem'[l]
       => LineStep(l, View(l), View(l)')
  <2> DEFINE t == View(l)'
             o == Owed(l)'
             e == EntryOf(l)'
  <2>1. s.blk = blk'[l] /\ s.mem = mem'[l] /\ s.entry = e /\ s.owed = o
    BY <1>2, <1>5, <1>13
  <2> HIDE DEF t, o, e
  <2>2. ASSUME AtLLC(s, t, m, {x}, e, o), t.blk = blk'[l], t.mem = mem'[l] PROVE LineFromMemory(l, s, t, m)
    BY <2>1, <2>2, <1>1, <1>2, <1>5 DEF LineFromMemory, x
  <2>3. ASSUME LineFromMemory(l, s, t, m) PROVE LineStep(l, s, t)
    BY <2>3, <1>2 DEF LineStep
  <2> QED BY <2>2, <2>3 DEF s, t, o, e
<1> QED BY <1>2, <1>5, <1>9, <1>12, <1>14, <1>15, LLCServes

-----------------------------------------------------------------------------
(* p2_index, when it serves a request.                                     *)

\* The request p2_index serves: its line is locked, and nobody else is at work at it.
LEMMA IndexFacts ==
  ASSUME MoesiInv, queue_writeback = <<>>, queue_index # <<>>, NEW m, m = Head(queue_index)
  PROVE  /\ m \in ToSet(queue_index) /\ m \in Message /\ Request(m) /\ m.line \in Lines
         /\ m \in View(m.line).msgs /\ LineInv(m.line, View(m.line))
         /\ View(m.line).entry = dir[m.line] /\ View(m.line).owed = FALSE
         /\ View(m.line).blk = blk[m.line] /\ View(m.line).mem = mem[m.line]
         /\ Packages = ToSet(process_buf) /\ \A p \in Packages : p.line # m.line
         /\ m.line \in processing
<1>1. Queued /\ Locked
  BY DEF MoesiInv
<1>2. m \in ToSet(queue_index) /\ m \in Message
  <2>1. queue_index \in Seq(Message)
    BY <1>1 DEF Queued
  <2> HIDE DEF Message
  <2> QED BY <2>1, TailSet
<1>3. Request(m) /\ m.line \in Lines /\ m \in View(m.line).msgs /\ LineInv(m.line, View(m.line))
  BY <1>1, <1>2, MessagesHere, MoesiLine DEF Queued
<1>4. Packages = ToSet(process_buf)
  BY EmptySet DEF Packages
<1>5. \A p \in Packages : p.line # m.line
  BY <1>1, <1>2, <1>4 DEF Locked
<1>6. EntryOf(m.line) = dir[m.line]
  BY <1>1, <1>5, EntryOfIs
<1>7. Owed(m.line) = FALSE
  BY <1>2 DEF Owed
<1>8. m.line \in processing
  BY <1>1, <1>2 DEF Locked
<1> QED BY <1>2, <1>3, <1>4, <1>5, <1>6, <1>7, <1>8, ViewFacts

\* What a package may send: messages of the one transaction of its line.
Replies(m, sends, delay) ==
  /\ Sends(LLC, sends)
  /\ \A x \in OutSet(sends) :
       /\ x.line = m.line /\ ~Request(x) /\ x.type # "GET_ACK" /\ Client(x) = m.src
       /\ Grant(x) => ~delay
  /\ delay => \E x \in OutSet(sends) : Owing(x)

\* The entry of a package.
IsEntry(e) == e \in [exists : SUBSET L1s, owner : L1s, dirty : BOOLEAN]

\* Only the data of line l may change, and with m served as said the line makes a step.
Serves(m, l, new, entry, delay) ==
  /\ dir' = dir /\ blk' = [j \in Lines |-> blk'[j]]
  /\ \A j \in Lines \ {l} : blk'[j] = blk[j]
  /\ /\ AtLLC(View(l), View(l)', m, new, Entered(entry), delay)
     /\ View(l)'.blk = blk'[l] /\ View(l)'.mem = mem[l]
     => LineStep(l, View(l), View(l)')

\* p2_index turns a request into a package: its line makes the step of the directory.
LEMMA IndexedKeeps ==
  ASSUME MoesiInv, queue_writeback = <<>>, queue_index # <<>>, UNCHANGED l1Vars,
         NEW m, m = Head(queue_index), NEW l, l = m.line, NEW entry, IsEntry(entry),
         NEW delay \in BOOLEAN, NEW sends, Replies(m, sends, delay), Indexed(entry, delay, sends),
         Serves(m, l, OutSet(sends), entry, delay)
  PROVE  Kept
<1>0. /\ entry \in [exists : SUBSET L1s, owner : L1s, dirty : BOOLEAN]
      /\ dir' = dir /\ blk' = [j \in Lines |-> blk'[j]]
      /\ \A j \in Lines \ {l} : blk'[j] = blk[j]
      /\ /\ AtLLC(View(l), View(l)', m, OutSet(sends), Entered(entry), delay)
         /\ View(l)'.blk = blk'[l] /\ View(l)'.mem = mem[l]
         => LineStep(l, View(l), View(l)')
  BY DEF IsEntry, Serves
<1> DEFINE p == [line |-> l, entry |-> entry, delay |-> delay, sends |-> sends]
           new == OutSet(sends)
<1>1. /\ queue_index' = Tail(queue_index) /\ process_buf' = Append(process_buf, p)
      /\ recv_buf' = recv_buf /\ processing' = processing /\ queue_writeback' = queue_writeback
      /\ mem' = mem /\ net' = net /\ dir' = dir
      /\ block' = block /\ mshr' = mshr /\ golden' = golden
  BY <1>0 DEF Indexed, l1Vars
<1>2. Queued /\ Locked /\ Packed /\ Shaped /\ Carried(net) /\ Apart
  BY DEF MoesiInv
<1>3. /\ m \in ToSet(queue_index) /\ m \in Message /\ Request(m) /\ l \in Lines
      /\ m \in View(l).msgs /\ LineInv(l, View(l)) /\ l \in processing
      /\ Packages = ToSet(process_buf) /\ \A o \in Packages : o.line # l
  BY IndexFacts
<1>4. /\ Sends(LLC, sends)
      /\ \A x \in new : /\ x.line = l /\ ~Request(x) /\ x.type # "GET_ACK" /\ Client(x) = m.src
                        /\ Grant(x) => ~delay
      /\ delay => \E x \in new : Owing(x)
  BY DEF Replies
<1>5. /\ queue_index' \in Seq(Message) /\ OneEach(queue_index')
      /\ ToSet(queue_index') = ToSet(queue_index) \ {m}
      /\ \A y \in ToSet(queue_index') : y.line # l
  <2>1. queue_index \in Seq(Message) /\ OneEach(queue_index)
    BY <1>2 DEF Queued, Locked
  <2> HIDE DEF Message
  <2> QED BY <2>1, <1>1, OneEachTail
<1>6. /\ p \in Package /\ p.line = l /\ p.entry = entry /\ p.delay = delay /\ p.sends = sends
  BY <1>0, <1>3, <1>4 DEF Package, Sends
<1> HIDE DEF p, new
<1>7. /\ process_buf' \in Seq(Package) /\ OneEach(process_buf')
      /\ ToSet(process_buf') = ToSet(process_buf) \cup {p}
  <2>1. process_buf \in Seq(Package) /\ OneEach(process_buf) /\ \A o \in ToSet(process_buf) : o.line # p.line
    BY <1>2, <1>3, <1>6 DEF Queued, Locked
  <2> HIDE DEF Package
  <2> QED BY <2>1, <1>1, <1>6, AppendSet, OneEachAppend
<1>8. \A x \in new : ~(x \in InNet(net) \/ x \in ToSet(recv_buf) \/ x \in ToSet(queue_index) \/ x \in Packaged)
  <2> SUFFICES ASSUME NEW x \in new, x \in InNet(net) \/ x \in ToSet(recv_buf) \/ x \in ToSet(queue_index) \/ x \in Packaged
               PROVE  FALSE
    OBVIOUS
  <2> DEFINE s == View(l)
  <2>1. x \in s.msgs /\ m \in s.msgs /\ LineInv(l, s)
    BY <1>3, <1>4, MessagesHere
  <2> HIDE DEF s
  <2>2. ~Request(x) /\ x.type # "GET_ACK" /\ Client(x) = m.src
    BY <1>4
  <2>3. Asks(s, Client(x))
    BY <2>1, <2>2, <1>3 DEF Asks
  <2> QED BY <2>1, <2>2, <2>3 DEF LineInv, AskedFirst
<1>9. \A x : x \in Packaged' <=> x \in Packaged \/ x \in new
  <2>1. \A x : x \in Packaged <=> \E o \in ToSet(process_buf) : x \in OutSet(o.sends)
    BY PackagedFacts
  <2>2. \A x : x \in Packaged' <=> \E o \in ToSet(process_buf') : x \in OutSet(o.sends)
    <3> TAKE x
    <3>1. \A o : o \in ToSet(process_buf') <=> \E j \in 1 .. Len(process_buf') : process_buf'[j] = o
      <4> DEFINE q == process_buf'
      <4>1. q \in Seq(Package)
        BY <1>7
      <4> HIDE DEF q
      <4>2. \A o : o \in ToSet(q) <=> \E j \in 1 .. Len(q) : q[j] = o
        BY <4>1, ToSetFacts
      <4> QED BY <4>2 DEF q
    <3>2. x \in Packaged' <=> \E j \in 1 .. Len(process_buf') : x \in OutSet(process_buf'[j].sends)
      BY DEF Packaged, OutSet
    <3> QED BY <3>1, <3>2
  <2> QED BY <2>1, <2>2, <1>6, <1>7 DEF new
<1>10. m \in Here /\ Here' = (Here \ {m}) \cup new
  <2>1. m \notin InNet(net) /\ m \notin ToSet(recv_buf)
    BY <1>2, <1>3 DEF Apart
  <2>2. m \notin Packaged
    <3> SUFFICES ASSUME m \in Packaged PROVE FALSE
      OBVIOUS
    <3>1. PICK o \in ToSet(process_buf) : m \in OutSet(o.sends)
      BY PackagedFacts
    <3>2. o.line = l
      BY <3>1, <1>2 DEF Packed
    <3> QED BY <3>2, <1>3
  <2>3. m \notin new
    BY <1>3, <1>4
  <2> QED BY <2>1, <2>2, <2>3, <1>1, <1>3, <1>5, <1>9 DEF Here
<1>11. Apart'
  <2>1. InNet(net) \cap (ToSet(recv_buf) \cup ToSet(queue_index') \cup Packaged') = {}
    BY <1>2, <1>5, <1>8, <1>9 DEF Apart
  <2>2. ToSet(recv_buf) \cap ToSet(queue_index') = {}
    BY <1>2, <1>5 DEF Apart
  <2> QED BY <2>1, <2>2, <1>1 DEF Apart
<1>12. Queued' /\ Packed' /\ Shaped'
  <2>1. Queued'
    BY <1>1, <1>2, <1>5, <1>7 DEF Queued
  <2>2. Packed'
    <3>1. /\ Sends(LLC, p.sends) /\ (\A x \in OutSet(p.sends) : x.line = p.line /\ (Grant(x) => ~p.delay))
          /\ p.delay => \E x \in OutSet(p.sends) : Owing(x)
      BY <1>4, <1>6 DEF new
    <3> QED BY <3>1, <1>1, <1>2, <1>7 DEF Packed
  <2>3. Shaped'
    BY <1>0, <1>1, <1>2 DEF Shaped
  <2> QED BY <2>1, <2>2, <2>3
<1>13. Locked'
  <2>1. \A y \in ToSet(queue_index') : y \in ToSet(queue_index) /\ y.line # l
    BY <1>5
  <2>2. \A o \in ToSet(process_buf') : o \in ToSet(process_buf) \/ o.line = l
    BY <1>6, <1>7
  <2>3. ToSet(queue_writeback) = {}
    BY EmptySet
  <2> HIDE DEF p
  <2> QED BY <2>1, <2>2, <2>3, <1>1, <1>2, <1>3, <1>5, <1>7 DEF Locked
<1>14. Packages' = Packages \cup {p} /\ p \in Packages'
  BY <1>1, <1>7 DEF Packages
<1>15. EntryOf(l)' = Entered(entry) /\ Owed(l)' = delay
  <2>1. EntryOf(l)' = Written(p)
    BY <1>6, <1>12, <1>13, <1>14, NextEntryIs
  <2>2. Written(p) = Entered(entry)
    BY <1>6 DEF Written, Entered
  <2>3. Owed(l)' <=> delay
    <3>1. l \in processing' /\ \A y \in ToSet(queue_index') : y.line # l
      BY <1>1, <1>3, <1>5
    <3>2. (\A o \in Packages' : o.line = l => o.delay) <=> delay
      BY <1>3, <1>6, <1>14
    <3> QED BY <3>1, <3>2 DEF Owed
  <2>4. Owed(l)' \in BOOLEAN
    BY DEF Owed
  <2> QED BY <2>1, <2>2, <2>3, <2>4
<1>16. ASSUME NEW j \in Lines \ {l}
       PROVE  EntryOf(j)' = EntryOf(j) /\ Owed(j)' = Owed(j) /\ blk'[j] = blk[j] /\ mem'[j] = mem[j]
  <2>1. \A o : o \in Packages' /\ o.line = j <=> o \in Packages /\ o.line = j
    BY <1>6, <1>14
  <2>2. EntryOf(j)' = EntryOf(j)
    <3>1. CASE \E o \in Packages : o.line = j
      <4>1. PICK o \in Packages : o.line = j
        BY <3>1
      <4>2. EntryOf(j) = Written(o)
        BY <4>1, <1>2, EntryOfIs
      <4>3. EntryOf(j)' = Written(o)
        BY <4>1, <2>1, <1>12, <1>13, NextEntryIs
      <4> QED BY <4>2, <4>3
    <3>2. CASE \A o \in Packages : o.line # j
      <4>1. EntryOf(j) = dir[j]
        BY <3>2, <1>2, EntryOfIs
      <4>2. EntryOf(j)' = dir'[j]
        BY <3>2, <2>1, <1>12, <1>13, NextEntryIs
      <4> QED BY <4>1, <4>2, <1>1
    <3> QED BY <3>1, <3>2
  <2>3. Owed(j)' = Owed(j)
    <3>1. (\A o \in Packages' : o.line = j => o.delay) <=> (\A o \in Packages : o.line = j => o.delay)
      BY <2>1
    <3>2. (\A y \in ToSet(queue_index') : y.line # j) <=> (\A y \in ToSet(queue_index) : y.line # j)
      BY <1>5
    <3> QED BY <3>1, <3>2, <1>1 DEF Owed
  <2> QED BY <2>2, <2>3, <1>0, <1>1
<1>17. TakenAway(l, m, new)
  BY <1>4, <1>10, <1>16 DEF TakenAway
<1>18. /\ AtLLC(View(l), View(l)', m, new, EntryOf(l)', Owed(l)')
       /\ View(l)'.blk = blk'[l] /\ View(l)'.mem = mem'[l]
       => LineStep(l, View(l), View(l)')
  <2>1. mem'[l] = mem[l]
    BY <1>1
  <2> QED BY <2>1, <1>0, <1>15 DEF new
<1> QED BY <1>1, <1>2, <1>3, <1>11, <1>12, <1>13, <1>17, <1>18, LLCServes

\* One message that answers a request.
LEMMA JustAnswers ==
  ASSUME NEW m, NEW x \in Message, x.src = LLC, x.line = m.line, x.type # "GET_ACK",
         ~Request(x), Client(x) = m.src, NEW delay, Grant(x) => ~delay, delay => Owing(x)
  PROVE  Replies(m, Just(x), delay) /\ OutSet(Just(x)) = {x}
<1>1. Sends(LLC, Just(x)) /\ OutSet(Just(x)) = {x}
  BY NodeFacts, JustSent
<1> DEFINE o == Just(x)
<1>2. Sends(LLC, o) /\ OutSet(o) = {x}
  BY <1>1
<1> HIDE DEF o
<1>3. Replies(m, o, delay)
  BY <1>2 DEF Replies
<1> QED BY <1>2, <1>3 DEF o

\* A request that one message answers.
LEMMA AnsweredByKeeps ==
  ASSUME MoesiInv, queue_writeback = <<>>, queue_index # <<>>, UNCHANGED l1Vars,
         NEW m, m = Head(queue_index), NEW l, l = m.line,
         NEW x \in Message, x.src = LLC, x.line = l, x.type # "GET_ACK", ~Request(x), Client(x) = m.src,
         NEW entry, IsEntry(entry),
         NEW delay \in BOOLEAN, Grant(x) => ~delay, delay => Owing(x), Indexed(entry, delay, Just(x)),
         NEW new, new = {x}, Serves(m, l, new, entry, delay)
  PROVE  Kept
<1>1. Replies(m, Just(x), delay) /\ OutSet(Just(x)) = {x}
  BY JustAnswers
<1> DEFINE o == Just(x)
<1>2. Replies(m, o, delay) /\ OutSet(o) = new /\ Indexed(entry, delay, o)
  BY <1>1
<1> HIDE DEF o
<1> QED BY <1>2, IndexedKeeps

\* What a request says.
LEMMA RequestFacts ==
  ASSUME MoesiInv, queue_writeback = <<>>, queue_index # <<>>, NEW m, m = Head(queue_index)
  PROVE  /\ m.src \in L1s /\ m.arg = m.src /\ m.line \in Lines /\ m.data \in Data
         /\ dir[m.line] \in [exists : SUBSET L1s, owner : L1s, dirty : BOOLEAN]
         /\ dir[m.line].exists # {} => dir[m.line].owner \in dir[m.line].exists
         /\ blk[m.line] \in Data \cup {NotHere}
<1> DEFINE l == m.line
           s == View(l)
<1>1. m \in s.msgs /\ LineInv(l, s) /\ Request(m) /\ l \in Lines /\ s.entry = dir[l] /\ s.blk = blk[l]
  BY IndexFacts
<1> HIDE DEF s, l
<1>2. WellFormed(l, m)
  BY <1>1, About
<1>3. /\ s.entry \in [exists : SUBSET L1s, owner : L1s, dirty : BOOLEAN]
      /\ s.entry.exists # {} => s.entry.owner \in s.entry.exists
      /\ s.blk \in Data \cup {NotHere}
  BY <1>1 DEF LineInv, LineTypes, OwnerKnown
<1> QED BY <1>1, <1>2, <1>3 DEF WellFormed, l

\* The messages of the directory belong to the transaction of the L1 that asked.
LEMMA ForClient ==
  ASSUME NEW x
  PROVE  /\ x.type \in {"GETS_FORWARD", "GETM_FORWARD", "INVALID"} =>
              ~Request(x) /\ x.type # "GET_ACK" /\ Client(x) = x.arg /\ ~Grant(x) /\ Owing(x)
         /\ x.type = "GETM_ACK" => ~Request(x) /\ x.type # "GET_ACK" /\ Client(x) = x.dst /\ ~Grant(x) /\ Owing(x)
         /\ x.type \in {"GETS_RESP", "GETM_RESP", "PUT_ACK"} =>
              ~Request(x) /\ x.type # "GET_ACK" /\ Client(x) = x.dst
  BY DEF Request, Client, Requester, Grant, Owing

\* An entry with a holder is entered as it is.
LEMMA EntryKept ==
  /\ \A i \in L1s : /\ Only(i) \in [exists : SUBSET L1s, owner : L1s, dirty : BOOLEAN]
                    /\ Entered(Only(i)) = Only(i)
  /\ \A e \in [exists : SUBSET L1s, owner : L1s, dirty : BOOLEAN], i \in L1s :
       /\ With(e, i) \in [exists : SUBSET L1s, owner : L1s, dirty : BOOLEAN]
       /\ Entered(With(e, i)) = With(e, i)
<1>1. ASSUME NEW i \in L1s
      PROVE  /\ Only(i) \in [exists : SUBSET L1s, owner : L1s, dirty : BOOLEAN] /\ Only(i).exists # {}
  BY DEF Only
<1>2. ASSUME NEW e \in [exists : SUBSET L1s, owner : L1s, dirty : BOOLEAN], NEW i \in L1s
      PROVE  With(e, i) \in [exists : SUBSET L1s, owner : L1s, dirty : BOOLEAN] /\ With(e, i).exists # {}
  BY DEF With
<1> QED BY <1>1, <1>2 DEF Entered

\* GETS: from the owner, from the block array or from memory.
LEMMA IndexGetSKeeps ==
  ASSUME MoesiInv, IndexGetS, UNCHANGED l1Vars
  PROVE  Kept
<1> SUFFICES ASSUME NEW m, m = Head(queue_index) PROVE Kept
  OBVIOUS
<1> SUFFICES ASSUME NEW l, l = m.line PROVE Kept
  OBVIOUS
<1> DEFINE i == m.arg
           s == View(l)
           t == View(l)'
<1>1. /\ queue_writeback = <<>> /\ queue_index # <<>> /\ m.type = "GETS"
      /\ dir' = dir /\ blk' = blk
  BY DEF IndexGetS, CanIndex, Touch
<1>2. /\ m \in s.msgs /\ LineInv(l, s) /\ s.entry = dir[l] /\ s.owed = FALSE
      /\ s.blk = blk[l] /\ s.mem = mem[l] /\ l \in Lines
  BY <1>1, IndexFacts
<1>3. /\ m.src \in L1s /\ i = m.src
      /\ dir[l] \in [exists : SUBSET L1s, owner : L1s, dirty : BOOLEAN]
      /\ dir[l].exists # {} => dir[l].owner \in dir[l].exists
      /\ blk[l] \in Data \cup {NotHere}
  BY <1>1, RequestFacts
<1>4. blk' = [j \in Lines |-> blk'[j]] /\ \A j \in Lines \ {l} : blk'[j] = blk[j]
  BY <1>1 DEF MoesiInv, Shaped
<1> HIDE DEF i
<1>5. ASSUME LineGetS(l, s, t, m) PROVE LineStep(l, s, t)
  <2> HIDE DEF s, t
  <2> QED BY <1>2, <1>5 DEF LineStep
<1>6. CASE DirHit(l)
  <2> DEFINE x == FromLLC("GETS_FORWARD", REQ, dir[l].owner, l, i, NoData)
             entry == With(dir[l], i)
  <2>1. Indexed(entry, TRUE, Just(x))
    BY <1>6, Zenon DEF IndexGetS, i
  <2>2. x \in Message /\ x.type = "GETS_FORWARD" /\ x.src = LLC /\ x.line = l /\ x.arg = i
    <3>1. dir[l].owner \in Nodes /\ i \in L1s
      BY <1>3, NodeFacts
    <3>2. x.arg = i
      BY MsgFacts DEF FromLLC
    <3> QED BY <1>2, <3>1, <3>2, ForwardFacts
  <2>3. IsEntry(entry) /\ Entered(entry) = entry
    BY <1>3, EntryKept DEF IsEntry
  <2>4. Serves(m, l, {x}, entry, TRUE)
    <3> SUFFICES ASSUME AtLLC(s, t, m, {x}, entry, TRUE), t.blk = blk'[l], t.mem = mem[l]
                 PROVE  LineGetS(l, s, t, m)
      BY <2>3, <1>1, <1>4, <1>5 DEF Serves
    <3> HIDE DEF s, t
    <3> QED BY <1>1, <1>2, <1>6 DEF LineGetS, DirHit, i
  <2> DEFINE new == {x}
  <2> HIDE DEF x, entry
  <2>5. x.type # "GET_ACK" /\ ~Request(x) /\ Client(x) = m.src /\ ~Grant(x) /\ Owing(x)
    BY <2>2, <1>3, ForClient
  <2>6. new = {x} /\ Serves(m, l, new, entry, TRUE)
    BY <2>4
  <2> HIDE DEF new
  <2> QED BY <2>1, <2>2, <2>3, <2>5, <2>6, <1>1, AnsweredByKeeps
<1>7. CASE ~DirHit(l) /\ BlkHit(l)
  <2> DEFINE x == FromLLC("GETS_RESP", RESP, i, l, 0, blk[l])
             entry == Only(i)
  <2>1. Indexed(entry, FALSE, Just(x))
    BY <1>7, Zenon DEF IndexGetS, i
  <2>2. x \in Message /\ x.type = "GETS_RESP" /\ x.src = LLC /\ x.line = l /\ x.dst = i
    <3>1. i \in L1s /\ blk[l] \in Data
      BY <1>3, <1>7 DEF BlkHit
    <3> QED BY <1>2, <3>1, AnswerFacts
  <2>3. IsEntry(entry) /\ Entered(entry) = entry
    BY <1>3, EntryKept DEF IsEntry
  <2>4. Serves(m, l, {x}, entry, FALSE)
    <3> SUFFICES ASSUME AtLLC(s, t, m, {x}, entry, FALSE), t.blk = blk'[l], t.mem = mem[l]
                 PROVE  LineGetS(l, s, t, m)
      BY <2>3, <1>1, <1>4, <1>5 DEF Serves
    <3> HIDE DEF s, t
    <3> QED BY <1>1, <1>2, <1>7 DEF LineGetS, DirHit, BlkHit, i
  <2> DEFINE new == {x}
  <2> HIDE DEF x, entry
  <2>5. x.type # "GET_ACK" /\ ~Request(x) /\ Client(x) = m.src
    BY <2>2, <1>3, ForClient
  <2>6. new = {x} /\ Serves(m, l, new, entry, FALSE)
    BY <2>4
  <2> HIDE DEF new
  <2> QED BY <2>1, <2>2, <2>3, <2>5, <2>6, <1>1, AnsweredByKeeps
<1>8. CASE ~DirHit(l) /\ ~BlkHit(l)
  <2> DEFINE x == FromLLC("GETS_FORWARD", REQ, MEM, l, i, NoData)
             entry == Only(i)
  <2>1. Indexed(entry, TRUE, Just(x))
    BY <1>8, Zenon DEF IndexGetS, i
  <2>2. x \in Message /\ x.type = "GETS_FORWARD" /\ x.src = LLC /\ x.line = l /\ x.arg = i
    <3>1. MEM \in Nodes /\ i \in L1s
      BY <1>3, NodeFacts
    <3>2. x.arg = i
      BY MsgFacts DEF FromLLC
    <3> QED BY <1>2, <3>1, <3>2, ForwardFacts
  <2>3. IsEntry(entry) /\ Entered(entry) = entry
    BY <1>3, EntryKept DEF IsEntry
  <2>4. Serves(m, l, {x}, entry, TRUE)
    <3> SUFFICES ASSUME AtLLC(s, t, m, {x}, entry, TRUE), t.blk = blk'[l], t.mem = mem[l]
                 PROVE  LineGetS(l, s, t, m)
      BY <2>3, <1>1, <1>4, <1>5 DEF Serves
    <3> HIDE DEF s, t
    <3> QED BY <1>1, <1>2, <1>8 DEF LineGetS, DirHit, BlkHit, i
  <2> DEFINE new == {x}
  <2> HIDE DEF x, entry
  <2>5. x.type # "GET_ACK" /\ ~Request(x) /\ Client(x) = m.src /\ ~Grant(x) /\ Owing(x)
    BY <2>2, <1>3, ForClient
  <2>6. new = {x} /\ Serves(m, l, new, entry, TRUE)
    BY <2>4
  <2> HIDE DEF new
  <2> QED BY <2>1, <2>2, <2>3, <2>5, <2>6, <1>1, AnsweredByKeeps
<1> QED BY <1>6, <1>7, <1>8

\* What the directory sends to have the line handed over belongs to the transaction of i.
LEMMA TakeOverAnswers ==
  ASSUME NEW m, NEW e \in [exists : SUBSET L1s, owner : L1s, dirty : BOOLEAN],
         e.owner \in e.exists, m.line \in Lines, m.src \in L1s
  PROVE  /\ Replies(m, ForGetM(e, m.line, m.src), TRUE)
         /\ OutSet(ForGetM(e, m.line, m.src)) = MsgsForGetM(e, m.line, m.src)
<1> DEFINE o == ForGetM(e, m.line, m.src)
           M == MsgsForGetM(e, m.line, m.src)
<1>1. Sends(LLC, o) /\ OutSet(o) = M
  BY ForGetMSent
<1>2. ASSUME NEW x \in M
      PROVE  /\ x.line = m.line /\ ~Request(x) /\ x.type # "GET_ACK" /\ Client(x) = m.src
             /\ ~Grant(x) /\ Owing(x)
  <2>1. \/ x.type = "INVALID" /\ x.line = m.line /\ x.arg = m.src
        \/ x.type = "GETM_FORWARD" /\ x.line = m.line /\ x.arg = m.src
        \/ x.type = "GETM_ACK" /\ x.line = m.line /\ x.dst = m.src
    BY MsgFacts DEF MsgsForGetM, FromLLC
  <2> HIDE DEF M
  <2> QED BY <2>1, ForClient
<1>3. M # {}
  BY DEF MsgsForGetM
<1> HIDE DEF o, M
<1>4. Replies(m, o, TRUE)
  BY <1>1, <1>2, <1>3 DEF Replies
<1> QED BY <1>1, <1>4 DEF o, M

\* GETM: the holders give up the line, or it comes from the block array or memory.
LEMMA IndexGetMKeeps ==
  ASSUME MoesiInv, IndexGetM, UNCHANGED l1Vars
  PROVE  Kept
<1> SUFFICES ASSUME NEW m, m = Head(queue_index) PROVE Kept
  OBVIOUS
<1> SUFFICES ASSUME NEW l, l = m.line PROVE Kept
  OBVIOUS
<1> DEFINE i == m.arg
           s == View(l)
           t == View(l)'
<1>1. /\ queue_writeback = <<>> /\ queue_index # <<>> /\ m.type = "GETM" /\ dir' = dir
      /\ blk' = IF DirHit(l) /\ BlkHit(l) THEN [blk EXCEPT ![l] = NotHere] ELSE blk
  BY DEF IndexGetM, CanIndex, Touch, Drop
<1>2. /\ m \in s.msgs /\ LineInv(l, s) /\ s.entry = dir[l] /\ s.owed = FALSE
      /\ s.blk = blk[l] /\ s.mem = mem[l] /\ l \in Lines
  BY <1>1, IndexFacts
<1>3. /\ m.src \in L1s /\ i = m.src
      /\ dir[l] \in [exists : SUBSET L1s, owner : L1s, dirty : BOOLEAN]
      /\ dir[l].exists # {} => dir[l].owner \in dir[l].exists
      /\ blk[l] \in Data \cup {NotHere}
  BY <1>1, RequestFacts
<1>4. /\ blk' = [j \in Lines |-> blk'[j]] /\ \A j \in Lines \ {l} : blk'[j] = blk[j]
      /\ blk'[l] = IF DirHit(l) THEN NotHere ELSE blk[l]
  <2>1. blk = [j \in Lines |-> blk[j]]
    BY DEF MoesiInv, Shaped
  <2> QED BY <2>1, <1>1, <1>2 DEF BlkHit
<1> HIDE DEF i
<1>5. ASSUME LineGetM(l, s, t, m) PROVE LineStep(l, s, t)
  <2> HIDE DEF s, t
  <2> QED BY <1>2, <1>5 DEF LineStep
<1>e. IsEntry(Only(i)) /\ Entered(Only(i)) = Only(i)
  BY <1>3, EntryKept DEF IsEntry
<1>6. CASE DirHit(l)
  <2> DEFINE o == ForGetM(dir[l], l, i)
             entry == Only(i)
  <2>1. Indexed(entry, TRUE, o)
    BY <1>6, Zenon DEF IndexGetM, i
  <2>2. Replies(m, o, TRUE) /\ OutSet(o) = MsgsForGetM(dir[l], l, i)
    BY <1>2, <1>3, <1>6, TakeOverAnswers DEF DirHit
  <2>3. IsEntry(entry) /\ Entered(entry) = entry
    BY <1>e
  <2>4. Serves(m, l, OutSet(o), entry, TRUE)
    <3> SUFFICES ASSUME AtLLC(s, t, m, MsgsForGetM(dir[l], l, i), entry, TRUE),
                        t.blk = blk'[l], t.mem = mem[l]
                 PROVE  LineGetM(l, s, t, m)
      BY <2>2, <2>3, <1>1, <1>4, <1>5 DEF Serves
    <3> HIDE DEF s, t
    <3> QED BY <1>1, <1>2, <1>4, <1>6 DEF LineGetM, DirHit, i
  <2> HIDE DEF o, entry
  <2> QED BY <2>1, <2>2, <2>3, <2>4, <1>1, IndexedKeeps
<1>7. CASE ~DirHit(l) /\ BlkHit(l)
  <2> DEFINE x == FromLLC("GETM_RESP", RESP, i, l, 1, blk[l])
             entry == Only(i)
  <2>1. Indexed(entry, FALSE, Just(x))
    BY <1>7, Zenon DEF IndexGetM, i
  <2>2. x \in Message /\ x.type = "GETM_RESP" /\ x.src = LLC /\ x.line = l /\ x.dst = i
    <3>1. i \in L1s /\ blk[l] \in Data
      BY <1>3, <1>7 DEF BlkHit
    <3> QED BY <1>2, <3>1, AnswerFacts
  <2>3. IsEntry(entry) /\ Entered(entry) = entry
    BY <1>e
  <2>4. Serves(m, l, {x}, entry, FALSE)
    <3> SUFFICES ASSUME AtLLC(s, t, m, {x}, entry, FALSE), t.blk = blk'[l], t.mem = mem[l]
                 PROVE  LineGetM(l, s, t, m)
      BY <2>3, <1>1, <1>4, <1>5 DEF Serves
    <3> HIDE DEF s, t
    <3> QED BY <1>1, <1>2, <1>4, <1>7 DEF LineGetM, DirHit, BlkHit, i
  <2> DEFINE new == {x}
  <2> HIDE DEF x, entry
  <2>5. x.type # "GET_ACK" /\ ~Request(x) /\ Client(x) = m.src
    BY <2>2, <1>3, ForClient
  <2>6. new = {x} /\ Serves(m, l, new, entry, FALSE)
    BY <2>4
  <2> HIDE DEF new
  <2> QED BY <2>1, <2>2, <2>3, <2>5, <2>6, <1>1, AnsweredByKeeps
<1>8. CASE ~DirHit(l) /\ ~BlkHit(l)
  <2> DEFINE x == FromLLC("GETM_FORWARD", REQ, MEM, l, i, NoData)
             entry == Only(i)
  <2>1. Indexed(entry, TRUE, Just(x))
    BY <1>8, Zenon DEF IndexGetM, i
  <2>2. x \in Message /\ x.type = "GETM_FORWARD" /\ x.src = LLC /\ x.line = l /\ x.arg = i
    <3>1. MEM \in Nodes /\ i \in L1s
      BY <1>3, NodeFacts
    <3>2. x.arg = i
      BY MsgFacts DEF FromLLC
    <3> QED BY <1>2, <3>1, <3>2, ForwardFacts
  <2>3. IsEntry(entry) /\ Entered(entry) = entry
    BY <1>e
  <2>4. Serves(m, l, {x}, entry, TRUE)
    <3> SUFFICES ASSUME AtLLC(s, t, m, {x}, entry, TRUE), t.blk = blk'[l], t.mem = mem[l]
                 PROVE  LineGetM(l, s, t, m)
      BY <2>3, <1>1, <1>4, <1>5 DEF Serves
    <3> HIDE DEF s, t
    <3> QED BY <1>1, <1>2, <1>4, <1>8 DEF LineGetM, DirHit, BlkHit, i
  <2> DEFINE new == {x}
  <2> HIDE DEF x, entry
  <2>5. x.type # "GET_ACK" /\ ~Request(x) /\ Client(x) = m.src /\ ~Grant(x) /\ Owing(x)
    BY <2>2, <1>3, ForClient
  <2>6. new = {x} /\ Serves(m, l, new, entry, TRUE)
    BY <2>4
  <2> HIDE DEF new
  <2> QED BY <2>1, <2>2, <2>3, <2>5, <2>6, <1>1, AnsweredByKeeps
<1> QED BY <1>6, <1>7, <1>8

\* A write-back request is answered with PUT_ACK.
LEMMA PutKeepsAll ==
  ASSUME MoesiInv, queue_writeback = <<>>, queue_index # <<>>, UNCHANGED l1Vars,
         NEW m, m = Head(queue_index), NEW l, l = m.line,
         NEW entry, IsEntry(entry), Indexed(entry, FALSE, Just(PutAck(m))),
         NEW new, new = {PutAck(m)}, Serves(m, l, new, entry, FALSE)
  PROVE  Kept
<1>1. m.src \in L1s /\ m.arg = m.src /\ m.line \in Lines
  BY RequestFacts
<1> DEFINE x == PutAck(m)
<1>2. x \in Message /\ x.type = "PUT_ACK" /\ x.src = LLC /\ x.line = l /\ x.dst = m.src
  <2>1. NoData \in Data /\ 0 \in Nat /\ m.src \in Nodes
    BY <1>1, NodeFacts, DataFacts
  <2>2. /\ "PUT_ACK" \in MessageTypes /\ ACK \in {ACK, RESP, REQ}
        /\ "PUT_ACK" \notin {"GETS_RESP", "GETM_RESP", "INVALID", "GETS_FORWARD", "GETM_FORWARD"}
    BY DEF MessageTypes
  <2> QED BY <1>1, <2>1, <2>2, LLCMessageFacts DEF PutAck
<1>3. Indexed(entry, FALSE, Just(x)) /\ new = {x}
  OBVIOUS
<1> HIDE DEF x
<1>4. x.type # "GET_ACK" /\ ~Request(x) /\ Client(x) = m.src /\ FALSE \in BOOLEAN /\ ~Grant(x)
  BY <1>2, ForClient DEF Grant
<1> QED BY <1>2, <1>3, <1>4, AnsweredByKeeps

\* The entry a PUT leaves.
LEMMA HandedOverFacts ==
  ASSUME NEW e \in [exists : SUBSET L1s, owner : L1s, dirty : BOOLEAN], NEW i
  PROVE  /\ Without(e, i) \in [exists : SUBSET L1s, owner : L1s, dirty : BOOLEAN]
         /\ HandedOver(Without(e, i)) \in [exists : SUBSET L1s, owner : L1s, dirty : BOOLEAN]
<1>1. Without(e, i) \in [exists : SUBSET L1s, owner : L1s, dirty : BOOLEAN]
  BY DEF Without
<1> DEFINE r == Without(e, i)
<1> HIDE DEF r
<1>2. r \in [exists : SUBSET L1s, owner : L1s, dirty : BOOLEAN]
  BY <1>1 DEF r
<1>3. r.exists # {} => Min(r.exists) \in L1s
  <2>1. r.exists \in SUBSET Nat /\ r.exists \subseteq L1s
    BY <1>2, NodeFacts
  <2> QED BY <2>1, LeastFacts
<1>4. HandedOver(r) \in [exists : SUBSET L1s, owner : L1s, dirty : BOOLEAN]
  BY <1>2, <1>3 DEF HandedOver
<1> QED BY <1>1, <1>4 DEF r

\* PUTS and PUTE.
LEMMA IndexPutCleanKeeps ==
  ASSUME MoesiInv, IndexPutClean, UNCHANGED l1Vars
  PROVE  Kept
<1> SUFFICES ASSUME NEW m, m = Head(queue_index) PROVE Kept
  OBVIOUS
<1> SUFFICES ASSUME NEW l, l = m.line PROVE Kept
  OBVIOUS
<1> DEFINE s == View(l)
           t == View(l)'
           entry == CleanPutEntry(m)
           new == {PutAck(m)}
<1>1. /\ queue_writeback = <<>> /\ queue_index # <<>> /\ m.type \in {"PUTS", "PUTE"}
      /\ dir' = dir /\ blk' = blk /\ Indexed(entry, FALSE, Just(PutAck(m)))
  BY DEF IndexPutClean, CanIndex
<1>2. /\ m \in s.msgs /\ LineInv(l, s) /\ s.entry = dir[l] /\ s.owed = FALSE
      /\ s.blk = blk[l] /\ s.mem = mem[l] /\ l \in Lines
  BY <1>1, IndexFacts
<1>3. m.arg = m.src /\ dir[l] \in [exists : SUBSET L1s, owner : L1s, dirty : BOOLEAN]
  BY <1>1, RequestFacts
<1>4. blk' = [j \in Lines |-> blk'[j]] /\ \A j \in Lines \ {l} : blk'[j] = blk[j]
  BY <1>1 DEF MoesiInv, Shaped
<1>5. ASSUME LinePutClean(l, s, t, m) PROVE LineStep(l, s, t)
  <2> HIDE DEF s, t
  <2> QED BY <1>2, <1>5 DEF LineStep
<1>6. IsEntry(entry)
  BY <1>3, HandedOverFacts DEF CleanPutEntry, IsEntry
<1>7. Serves(m, l, new, entry, FALSE)
  <2>1. Entered(entry) = CleanedBy(dir[l], m.arg)
    BY DEF CleanPutEntry, CleanedBy
  <2> SUFFICES ASSUME AtLLC(s, t, m, new, CleanedBy(dir[l], m.arg), FALSE),
                      t.blk = blk'[l], t.mem = mem[l]
               PROVE  LinePutClean(l, s, t, m)
    BY <2>1, <1>1, <1>4, <1>5 DEF Serves
  <2> HIDE DEF s, t
  <2> QED BY <1>1, <1>2 DEF LinePutClean, PutAck
<1> HIDE DEF entry, new
<1>8. new = {PutAck(m)}
  BY DEF new
<1> QED BY <1>1, <1>6, <1>7, <1>8, PutKeepsAll

\* PUTM and PUTO.
LEMMA IndexPutDirtyKeeps ==
  ASSUME MoesiInv, IndexPutDirty, UNCHANGED l1Vars
  PROVE  Kept
<1> SUFFICES ASSUME NEW m, m = Head(queue_index) PROVE Kept
  OBVIOUS
<1> SUFFICES ASSUME NEW l, l = m.line PROVE Kept
  OBVIOUS
<1> DEFINE s == View(l)
           t == View(l)'
           entry == PutEntry(m)
           new == {PutAck(m)}
<1>1. /\ queue_writeback = <<>> /\ queue_index # <<>> /\ m.type \in {"PUTM", "PUTO"}
      /\ dir' = dir /\ DirHit(l) /\ Indexed(entry, FALSE, Just(PutAck(m)))
      /\ blk' = IF dir[l].owner = m.arg THEN [blk EXCEPT ![l] = m.data] ELSE blk
  BY DEF IndexPutDirty, CanIndex
<1>2. /\ m \in s.msgs /\ LineInv(l, s) /\ s.entry = dir[l] /\ s.owed = FALSE
      /\ s.blk = blk[l] /\ s.mem = mem[l] /\ l \in Lines
  BY <1>1, IndexFacts
<1>3. m.arg = m.src /\ dir[l] \in [exists : SUBSET L1s, owner : L1s, dirty : BOOLEAN]
  BY <1>1, RequestFacts
<1>4. /\ blk' = [j \in Lines |-> blk'[j]] /\ \A j \in Lines \ {l} : blk'[j] = blk[j]
      /\ blk'[l] = IF dir[l].owner = m.arg THEN m.data ELSE blk[l]
  <2>1. blk = [j \in Lines |-> blk[j]]
    BY DEF MoesiInv, Shaped
  <2> QED BY <2>1, <1>1, <1>2
<1>5. ASSUME LinePutDirty(l, s, t, m) PROVE LineStep(l, s, t)
  <2> HIDE DEF s, t
  <2> QED BY <1>2, <1>5 DEF LineStep
<1>6. IsEntry(entry)
  <2> DEFINE e == [dir[l] EXCEPT !.dirty = dir[l].owner # m.arg]
  <2>1. e \in [exists : SUBSET L1s, owner : L1s, dirty : BOOLEAN]
    BY <1>3
  <2>2. PutEntry(m) = HandedOver(Without(e, m.arg))
    BY DEF PutEntry
  <2> HIDE DEF e
  <2> QED BY <2>1, <2>2, HandedOverFacts DEF IsEntry
<1>7. Serves(m, l, new, entry, FALSE)
  <2>1. Entered(entry) = WrittenBy(dir[l], m.arg)
    BY DEF PutEntry, WrittenBy
  <2> SUFFICES ASSUME AtLLC(s, t, m, new, WrittenBy(dir[l], m.arg), FALSE),
                      t.blk = blk'[l], t.mem = mem[l]
               PROVE  LinePutDirty(l, s, t, m)
    BY <2>1, <1>1, <1>4, <1>5 DEF Serves
  <2> HIDE DEF s, t
  <2> QED BY <1>1, <1>2, <1>4 DEF LinePutDirty, PutAck, DirHit
<1> HIDE DEF entry, new
<1>8. new = {PutAck(m)}
  BY DEF new
<1> QED BY <1>1, <1>6, <1>7, <1>8, PutKeepsAll

-----------------------------------------------------------------------------
(* The protocol.                                                           *)

\* p2_index, when it replaces no block.
LEMMA IndexKeeps ==
  ASSUME MoesiInv, LLCIndex, ~IndexPutReplacing
  PROVE  Kept
<1>1. /\ UNCHANGED l1Vars
      /\ IndexGetS \/ IndexGetM \/ IndexPutClean \/ IndexPutDirty \/ P2Writeback
  BY DEF LLCIndex, P2Index
<1> QED BY <1>1, IndexGetSKeeps, IndexGetMKeeps, IndexPutCleanKeeps, IndexPutDirtyKeeps, WritebackKeeps

\* The invariant is inductive.
LEMMA NextKeeps ==
  ASSUME MoesiInv, [Next /\ ~IndexPutReplacing]_vars
  PROVE  Kept
<1>1. CASE UNCHANGED vars
  <2>1. UNCHANGED <<net, block, mshr, golden, llcVars>>
    BY <1>1 DEF vars, l1Vars
  <2> QED BY <2>1, Unmoved
<1>2. CASE \E i \in L1s : CPU(i)
  BY <1>2, CPUKeeps
<1>3. CASE \E i \in L1s, n \in Nodes : L1Deliver(i, n)
  BY <1>3, L1DeliverKeeps
<1>4. CASE \E n \in L1s : LLCDeliver(n)
  <2>1. PICK r \in Arriving(LLC) : P1Receive(r) /\ UNCHANGED l1Vars
    BY <1>4 DEF LLCDeliver
  <2> QED BY <2>1, ReceiveRequestKeeps, ReceiveAckKeeps
<1>5. CASE LLCDispatch
  BY <1>5, DispatchKeeps DEF LLCDispatch
<1>6. CASE LLCIndex /\ ~IndexPutReplacing
  BY <1>6, IndexKeeps
<1>7. CASE LLCProcess
  <2>1. PICK k \in 1 .. Len(process_buf) : P3Process(k) /\ UNCHANGED l1Vars
    BY <1>7 DEF LLCProcess
  <2> QED BY <2>1, ProcessKeeps
<1>8. CASE MemDeliver
  <2>1. PICK r \in Arriving(MEM) : MemHandle(r) /\ UNCHANGED l1Vars
    BY <1>8 DEF MemDeliver
  <2> QED BY <2>1, MemHandleKeeps
<1> QED BY <1>1, <1>2, <1>3, <1>4, <1>5, <1>6, <1>7, <1>8 DEF Next

\* A line in which nothing happens.
Still(s) ==
  /\ s.cache = [i \in L1s |-> Absent] /\ s.mshr = [i \in L1s |-> NoMSHR] /\ s.msgs = {}
  /\ s.entry = NoEntry /\ s.owed = FALSE /\ s.blk = NotHere /\ s.mem = 0 /\ s.golden = 0

\* The invariant holds of a line nobody has used.
LEMMA StillLine ==
  ASSUME NEW l, NEW s, Still(s)
  PROVE  LineInv(l, s)
<1>1. /\ s.msgs = {} /\ s.entry.exists = {} /\ s.owed = FALSE
      /\ \A i \in L1s : /\ s.cache[i] = Absent /\ s.cache[i].st = "I"
                        /\ s.mshr[i] = NoMSHR /\ s.mshr[i].st = "-"
                        /\ ~s.mshr[i].hasData /\ ~s.mshr[i].hasNeed /\ s.mshr[i].acks = 0
  BY NoEntryFacts DEF Still, Absent, NoMSHR
<1>2. LineTypes(l, s)
  <2>1. 0 \in Data
    BY DataAssumption DEF Data
  <2>2. Absent \in [st : CacheStates, data : Data]
    BY AbsentFacts
  <2>3. s.cache \in [L1s -> [st : CacheStates, data : Data]]
    BY <2>2 DEF Still
  <2>4. s.mshr \in [L1s -> MSHREntry]
    BY NoMSHRFacts DEF Still
  <2>5. /\ s.entry \in [exists : SUBSET L1s, owner : L1s, dirty : BOOLEAN] /\ s.owed \in BOOLEAN
        /\ s.blk \in Data \cup {NotHere} /\ {s.mem, s.golden} \subseteq Data
    BY <2>1, NoEntryFacts DEF Still
  <2> QED BY <2>3, <2>4, <2>5 DEF LineTypes
<1>3. \A i \in L1s : ~Holds(s, i) /\ ~Exclusive(s, i)
  BY <1>1 DEF Holds, Exclusive, Evicts, Asks, Granted, Leaving
<1>4. /\ WellFormedMsgs(l, s) /\ OnePlace(s) /\ Distinct(s) /\ OneRequest(s)
      /\ Clients(s) /\ AskedFirst(s) /\ NothingCollected(s) /\ OwingNotGranted(s)
      /\ OneRequester(s) /\ TokenAlone(s) /\ OneCarrier(s) /\ OwingOwed(s)
  BY <1>1 DEF WellFormedMsgs, OnePlace, Distinct, OneRequest, Clients, AskedFirst, NothingCollected,
       OwingNotGranted, OneRequester, TokenAlone, OneCarrier, OwingOwed
<1>5. Collected(s) /\ Counted(s)
  BY <1>1 DEF Collected, Counted
<1>6. HoldersKnown(s) /\ KnownHold(s) /\ OwnerKnown(s) /\ OneWriter(s)
  BY <1>1, <1>3 DEF HoldersKnown, KnownHold, OwnerKnown, OneWriter
<1>7. /\ InvalidSound(s) /\ AckSound(s) /\ GetMSound(s) /\ GetSSound(s) /\ RespSound(s)
      /\ OwnerToBe(s) /\ MemorySound(s)
  BY <1>1 DEF InvalidSound, AckSound, GetMSound, GetSSound, RespSound, OwnerToBe, MemorySound
<1> QED BY <1>2, <1>4, <1>5, <1>6, <1>7 DEF LineInv

\* An empty queue.
LEMMA EmptyFacts ==
  ASSUME NEW S
  PROVE  <<>> \in Seq(S) /\ Len(<<>>) = 0 /\ ToSet(<<>>) = {} /\ IsInjective(<<>>)
<1>1. Len(<<>>) = 0
  OBVIOUS
<1> QED BY <1>1, EmptySet

\* At first nothing is on its way.
LEMMA InitEmpty ==
  ASSUME Init
  PROVE  Carried(net) /\ InNet(net) = {} /\ Packaged = {} /\ Packages = {}
<1>1. net = [n \in Nodes |-> [d \in Nodes |-> <<>>]] /\ process_buf = <<>> /\ queue_writeback = <<>>
  BY DEF Init, NetInit, LLCInit
<1>2. ASSUME NEW n \in Nodes PROVE Sends(n, net[n]) /\ OutSet(net[n]) = {}
  <2>1. net[n] = Nothing
    BY <1>1 DEF Nothing
  <2> QED BY <2>1, <1>2, NothingSent
<1>3. net \in [Nodes -> [Nodes -> Seq(Message)]]
  <2> HIDE DEF Message
  <2> QED BY <1>1, EmptyFacts
<1>4. \A n, d \in Nodes : Precedes(net[n][d])
  BY <1>1, EmptyFacts DEF Precedes
<1>5. InNet(net) = {}
  BY <1>2 DEF InNet
<1>6. Packaged = {} /\ Packages = {}
  BY <1>1, EmptyFacts DEF Packaged, Packages
<1> QED BY <1>2, <1>3, <1>4, <1>5, <1>6 DEF Carried

LEMMA InitStill ==
  ASSUME Init, NEW l \in Lines
  PROVE  Still(View(l))
<1>1. /\ recv_buf = <<>> /\ queue_index = <<>> /\ processing = {}
      /\ dir = [j \in Lines |-> NoEntry] /\ blk = [j \in Lines |-> NotHere]
      /\ mem = [j \in Lines |-> 0] /\ golden = [j \in Lines |-> 0]
      /\ block = [i \in L1s |-> [j \in Lines |-> Absent]]
      /\ mshr = [i \in L1s |-> [j \in Lines |-> NoMSHR]]
  BY DEF Init, L1Init, LLCInit
<1>2. Carried(net) /\ InNet(net) = {} /\ Packaged = {} /\ Packages = {}
  BY InitEmpty
<1>3. MsgsOf(l) = {}
  BY <1>1, <1>2, EmptyFacts, MsgsFacts
<1>4. EntryOf(l) = NoEntry /\ Owed(l) = FALSE
  BY <1>1, <1>2 DEF EntryOf, Owed
<1> QED BY <1>1, <1>3, <1>4, ViewFacts DEF Still

\* The invariant holds at first.
LEMMA InitKeeps == Init => MoesiInv
<1> SUFFICES ASSUME Init PROVE MoesiInv
  OBVIOUS
<1>1. /\ recv_buf = <<>> /\ queue_index = <<>> /\ process_buf = <<>> /\ queue_writeback = <<>>
      /\ processing = {}
      /\ dir = [l \in Lines |-> NoEntry] /\ blk = [l \in Lines |-> NotHere]
      /\ mem = [l \in Lines |-> 0] /\ golden = [l \in Lines |-> 0]
      /\ block = [i \in L1s |-> [l \in Lines |-> Absent]]
      /\ mshr = [i \in L1s |-> [l \in Lines |-> NoMSHR]]
  BY DEF Init, L1Init, LLCInit
<1>2. Carried(net) /\ InNet(net) = {} /\ Packaged = {} /\ Packages = {}
  BY InitEmpty
<1>3. Queued
  <2> HIDE DEF Message, Package
  <2> QED BY <1>1, EmptyFacts DEF Queued
<1>4. Packed /\ Apart /\ Locked
  BY <1>1, <1>2, EmptyFacts DEF Packed, Apart, Locked, OneEach
<1>5. Shaped
  BY <1>1 DEF Shaped
<1>6. LinesInv
  BY InitStill, StillLine DEF LinesInv
<1> QED BY <1>2, <1>3, <1>4, <1>5, <1>6 DEF MoesiInv

\* With room for every line no block is replaced.
LEMMA NoneReplaced ==
  ASSUME MoesiInv, RoomForAll
  PROVE  ~IndexPutReplacing
<1> SUFFICES ASSUME IndexPutReplacing PROVE FALSE
  OBVIOUS
<1> SUFFICES ASSUME NEW m, m = Head(queue_index) PROVE FALSE
  OBVIOUS
<1>1. queue_writeback = <<>> /\ queue_index # <<>> /\ ~PutFits(m)
  BY DEF IndexPutReplacing, CanIndex
<1>2. m.line \in Lines
  BY <1>1, IndexFacts
<1>3. InBlk \subseteq Lines \ {m.line} /\ ~(Cardinality(InBlk) < BlkWays)
  BY <1>1 DEF PutFits, InBlk
<1>4. IsFiniteSet(Lines) /\ Cardinality(Lines) <= BlkWays
  BY DEF RoomForAll
<1> DEFINE R == Lines \ {m.line}
<1>5. IsFiniteSet(R) /\ Cardinality(R) = Cardinality(Lines) - 1 /\ Cardinality(Lines) \in Nat
  BY <1>2, <1>4, FS_RemoveElement, FS_CardinalityType
<1>6. Cardinality(InBlk) <= Cardinality(R) /\ Cardinality(InBlk) \in Nat
  BY <1>3, <1>5, FS_Subset, FS_CardinalityType
<1>7. BlkWays \in Nat
  BY LLCAssumption
<1> QED BY <1>3, <1>4, <1>5, <1>6, <1>7

\* Until the LLC replaces a block, every step of the L1s (handle_received_msg_nolock, the
\* accesses of the CPU, handle_new_line_nolock), of the LLC's pipeline (p1_fetch, p2_index,
\* p3_process) and of the memory node keeps MoesiInv: for any number of caches and lines,
\* any sizes of arrays and buffers, any order of messages the bus allows.
THEOREM MoesiInvariant == UnreplacedSpec => []MoesiInv
<1>1. MoesiInv /\ [Next /\ ~IndexPutReplacing]_vars => MoesiInv'
  BY NextKeeps DEF Kept
<1> QED BY <1>1, InitKeeps, PTL DEF UnreplacedSpec

\* Every step of the whole system, whatever it does to queues, pipeline and other lines, is
\* for each line one of the protocol's steps (LineStep) or none: an action property.
THEOREM LinesTakeSteps == UnreplacedSpec => LinesStep
<1>1. MoesiInv /\ [Next /\ ~IndexPutReplacing]_vars => LinesMove
  BY NextKeeps DEF Kept
<1> QED BY <1>1, MoesiInvariant, PTL DEF UnreplacedSpec, LinesStep

\* A block array with a way for every line never replaces one (lastlevelcache.cpp,
\* p2_index): all of Spec is then covered.
THEOREM RoomSuffices ==
  ASSUME RoomForAll
  PROVE  Spec => UnreplacedSpec
<1>1. MoesiInv /\ [Next]_vars => [Next /\ ~IndexPutReplacing]_vars
  BY NoneReplaced
<1>2. MoesiInv /\ [Next /\ ~IndexPutReplacing]_vars => MoesiInv'
  BY NextKeeps DEF Kept
<1> QED BY <1>1, <1>2, InitKeeps, PTL DEF Spec, UnreplacedSpec

\* L1NeverAborts
LEMMA MessageExpected ==
  ASSUME MoesiInv, NEW i \in L1s, NEW r \in Arriving(i)
  PROVE  L1Expects(i, MsgAt(i, r))
<1> SUFFICES ASSUME NEW m, m = MsgAt(i, r), NEW l, l = m.line PROVE L1Expects(i, m)
  OBVIOUS
<1> DEFINE s == View(l)
<1>1. /\ m \in s.msgs /\ m.dst = i /\ LineInv(l, s)
      /\ s.cache[i] = block[i][l] /\ s.mshr[i] = mshr[i][l]
  <2>1. m \in InNet(net) /\ m.dst = i
    BY NodeFacts, TakenFacts DEF MoesiInv
  <2> QED BY <2>1, MessagesHere, MoesiLine, ViewAt
<1>2. m.type \in {"INVALID", "GETS_FORWARD", "GETM_FORWARD"} => ~Granted(s, i)
  BY TakenInFirst
<1> HIDE DEF s
<1>3. /\ WellFormed(l, m) /\ Expected(m, s.mshr[Client(m)].st)
      /\ s.mshr[i].st \in MSHRStates /\ s.cache[i].st # "I" => s.mshr[i].st = "-"
  BY <1>1 DEF LineInv, WellFormedMsgs, Clients, OnePlace, LineTypes, MSHREntry
<1>a. m.type \in {"INVALID", "GETS_FORWARD", "GETM_FORWARD"} => Holds(s, i)
  BY <1>1, NodeFacts DEF LineInv, InvalidSound, GetSSound, GetMSound
<1>4. CASE m.type = "INVALID"
  <2>1. /\ s.cache[i].st # "I" => s.mshr[i].st = "-"
        /\ s.cache[i].st = "I" => \/ s.mshr[i].st \in {"STOM", "OTOM"}
                                  \/ s.mshr[i].st \in {"MTOI", "STOI", "ETOI", "OTOI"} /\ Asks(s, i)
    BY <1>4, <1>a, <1>1, <1>2, HolderFacts
  <2>2. ~Exclusive(s, i)
    BY <1>4, <1>1 DEF LineInv, InvalidSound
  <2>3. s.mshr[i].st \in {"-", "STOM", "OTOM", "MTOI", "STOI", "OTOI"}
    BY <2>1, <2>2 DEF Exclusive, Evicts
  <2> QED BY <2>3, <1>1, <1>4 DEF L1Expects
<1>5. CASE m.type \in {"GETS_FORWARD", "GETM_FORWARD"}
  <2>1. /\ s.cache[i].st # "I" => s.mshr[i].st = "-"
        /\ s.cache[i].st = "I" => s.mshr[i].st \in {"STOM", "OTOM", "MTOI", "STOI", "ETOI", "OTOI"}
    BY <1>5, <1>a, <1>1, <1>2, HolderFacts
  <2>2. (block[i][l].st # "I") # HoldsInMSHR(i, l)
    BY <2>1, <1>1 DEF HoldsInMSHR
  <2> QED BY <2>2, <1>5 DEF L1Expects
<1>6. CASE m.type \in {"INVALID_ACK", "GETM_ACK", "GETS_RESP", "GETM_RESP", "GET_RESP_MEM", "PUT_ACK"}
  <2>1. Client(m) = i
    BY <1>1, <1>6 DEF Client, Requester, Request
  <2> QED BY <2>1, <1>1, <1>3, <1>6 DEF Expected, L1Expects, Leaving
<1> QED BY <1>1, <1>3, <1>4, <1>5, <1>6, NodeFacts DEF WellFormed, MessageTypes, Request

\* Every message finds its receiver in a state for it.
LEMMA Unaborted == MoesiInv => L1NeverAborts
<1> SUFFICES ASSUME MoesiInv PROVE L1NeverAborts
  OBVIOUS
<1>1. ASSUME NEW i \in L1s, NEW r \in Arriving(i) PROVE L1Expects(i, MsgAt(i, r))
  BY MessageExpected
<1>2. ASSUME NEW i \in L1s PROVE Present(i) \cap Busy(i) = {}
  <2> SUFFICES ASSUME NEW l \in Lines, block[i][l].st # "I" PROVE mshr[i][l].st = "-"
    BY DEF Present, Busy
  <2> DEFINE s == View(l)
  <2>1. LineInv(l, s) /\ s.cache[i] = block[i][l] /\ s.mshr[i] = mshr[i][l]
    BY MoesiLine, ViewAt
  <2> HIDE DEF s
  <2>2. s.cache[i].st # "I" => s.mshr[i].st = "-"
    BY <2>1 DEF LineInv, OnePlace
  <2> QED BY <2>1, <2>2
<1> QED BY <1>1, <1>2 DEF L1NeverAborts

\* None of the simroot_asserts in the handlers of an L1 fails (l1cachev2.cpp,
\* handle_received_msg_nolock) and alloc finds an MSHR free of the evicted line
\* (handle_new_line_nolock), however late a message is.
THEOREM L1sNeverAbort == UnreplacedSpec => []L1NeverAborts
  BY MoesiInvariant, Unaborted, PTL

\* The entry of a free line as the directory reads it.
LEMMA FreeEntry ==
  ASSUME MoesiInv, NEW l \in Lines, l \notin processing
  PROVE  Entry(l).exists = View(l).entry.exists /\ View(l).owed = FALSE
<1>1. Queued /\ Locked
  BY DEF MoesiInv
<1> DEFINE Q == ToSet(queue_writeback)
<1>2. \A p \in Packages : p.line = l => p \in Q
  BY <1>1 DEF Locked, Packages
<1>3. \A p \in Q : p \in Packages
  BY DEF Packages
<1>4. Owed(l) = FALSE
  BY DEF Owed
<1>5. Entry(l).exists = EntryOf(l).exists
  <2>1. CASE \E p \in Q : p.line = l
    <3>1. PICK p \in Q : p.line = l
      BY <2>1
    <3>2. EntryOf(l) = Written(p)
      BY <3>1, <1>1, <1>3, EntryOfIs
    <3>3. (CHOOSE o \in Q : o.line = l) = p
      <4>1. (CHOOSE o \in Q : o.line = l) \in Q /\ (CHOOSE o \in Q : o.line = l).line = l
        BY <3>1
      <4> QED BY <4>1, <3>1, <1>1, <1>3, OnePackage
    <3>4. Entry(l) = p.entry
      BY <3>3, <2>1 DEF Entry
    <3> QED BY <3>2, <3>4, NoEntryFacts DEF Written
  <2>2. CASE \A p \in Q : p.line # l
    <3>1. EntryOf(l) = dir[l]
      BY <2>2, <1>1, <1>2, EntryOfIs
    <3>2. Entry(l) = dir[l]
      BY <2>2 DEF Entry
    <3> QED BY <3>1, <3>2
  <2> QED BY <2>1, <2>2
<1> QED BY <1>4, <1>5, ViewFacts

\* The entry of an unlocked line names its holders.
LEMMA FreeHolders == MoesiInv => DirKnowsHolders
<1> SUFFICES ASSUME MoesiInv, NEW l \in Lines, l \notin processing, NEW i \in L1s, block[i][l].st # "I"
             PROVE  i \in Entry(l).exists
  BY DEF DirKnowsHolders
<1> DEFINE s == View(l)
<1>1. /\ LineInv(l, s) /\ s.cache[i].st # "I" /\ ~s.owed
      /\ Entry(l).exists = s.entry.exists
  BY MoesiLine, ViewAt, FreeEntry
<1> HIDE DEF s
<1>2. Holds(s, i) /\ ~Dismissed(s, i)
  BY <1>1 DEF Holds, Dismissed, LineInv, OwingOwed, Owing
<1> QED BY <1>1, <1>2 DEF LineInv, HoldersKnown

\* The directory of the LLC (p2_index, p4_writeback) has every L1 with a copy of an unlocked
\* line: no copy misses an invalidation.
THEOREM DirectoryKnows == UnreplacedSpec => []DirKnowsHolders
  BY MoesiInvariant, FreeHolders, PTL

-----------------------------------------------------------------------------
(* One writer.                                                             *)

\* While an L1 can write a line nobody else has it, and no data are on their way but from
\* that L1 itself to the one that takes the line over.
LEMMA WriterTakesAll ==
  ASSUME NEW l, NEW s, LineInv(l, s), NEW i \in L1s, s.cache[i].st \in {"E", "M"}
  PROVE  /\ \A k \in L1s : Holds(s, k) => k = i
         /\ \A m \in s.msgs : /\ m.type \notin {"GETS_RESP", "GETM_RESP", "GET_RESP_MEM"}
                              /\ WriteBack(m) => s.mshr[m.src].st = "ITOI"
                              /\ m.dst # MEM
         /\ i \notin s.entry.exists =>
              \E m \in s.msgs : m.type = "GETM_FORWARD" /\ m.dst = i /\ s.entry.exists = {m.arg}
<1>1. Exclusive(s, i) /\ Holds(s, i) /\ s.mshr[i].st = "-"
  BY DEF Exclusive, Holds, LineInv, OnePlace
<1>2. \A k \in L1s : Holds(s, k) => k = i
  BY <1>1 DEF LineInv, OneWriter
<1>3. i \notin s.entry.exists =>
        \E m \in s.msgs : m.type = "GETM_FORWARD" /\ m.dst = i /\ s.entry.exists = {m.arg}
  <2> SUFFICES ASSUME i \notin s.entry.exists
               PROVE  \E m \in s.msgs : m.type = "GETM_FORWARD" /\ m.dst = i /\ s.entry.exists = {m.arg}
    OBVIOUS
  <2>1. PICK m \in s.msgs : m.type \in {"INVALID", "GETM_FORWARD"} /\ m.dst = i
    BY <1>1 DEF LineInv, HoldersKnown, Dismissed
  <2>2. m.type = "GETM_FORWARD"
    BY <1>1, <2>1 DEF LineInv, InvalidSound
  <2>3. s.entry.exists = {m.arg}
    BY <2>2 DEF LineInv, OwnerToBe, Owing, Requester
  <2> QED BY <2>1, <2>2, <2>3
<1>4. ASSUME NEW m \in s.msgs
      PROVE  /\ m.type \notin {"GETS_RESP", "GETM_RESP", "GET_RESP_MEM"}
             /\ WriteBack(m) => s.mshr[m.src].st = "ITOI"
             /\ m.dst # MEM
  <2>1. /\ WellFormed(l, m) /\ Client(m) \in L1s
        /\ m.type # "GET_ACK" => s.mshr[Client(m)].st # "-"
    BY About
  <2>2. m.dst # MEM /\ m.type # "GET_RESP_MEM"
    BY <1>1 DEF LineInv, MemorySound, FromMemory
  <2>3. ~Grant(m)
    <3> SUFFICES ASSUME Grant(m) PROVE FALSE
      OBVIOUS
    <3>1. m.dst \in L1s /\ Client(m) = m.dst /\ m.type # "GET_ACK"
      BY About DEF Grant
    <3>2. Holds(s, m.dst)
      BY <3>1 DEF Holds, Granted
    <3> QED BY <3>1, <3>2, <1>1, <1>2, <2>1
  <2>4. m.type # "GETS_RESP"
    BY <1>1, <2>3 DEF LineInv, RespSound, Grant
  <2>5. m.type # "GETM_RESP"
    <3> SUFFICES ASSUME m.type = "GETM_RESP" PROVE FALSE
      OBVIOUS
    <3>1. Carrying(m) /\ Owing(m) /\ Requester(m) = m.dst /\ Client(m) = m.dst
      BY <2>3 DEF Grant, Carrying, Owing, Requester, Client, Request
    <3>2. s.entry.exists = {m.dst} /\ m.dst # i
      BY <1>1, <2>1, <3>1 DEF LineInv, OwnerToBe
    <3>3. PICK n \in s.msgs : n.type = "GETM_FORWARD" /\ n.dst = i
      BY <1>3, <3>2
    <3>4. Carrying(n)
      BY <3>3, L1Facts DEF Carrying
    <3> QED BY <3>1, <3>3, <3>4 DEF LineInv, OneCarrier
  <2>6. WriteBack(m) => s.mshr[m.src].st = "ITOI"
    <3> SUFFICES ASSUME WriteBack(m), s.mshr[m.src].st # "ITOI" PROVE FALSE
      OBVIOUS
    <3>1. Client(m) = m.src /\ m.src \in L1s /\ Asks(s, m.src)
      BY <2>1 DEF WriteBack, Request, Client, Asks
    <3>2. s.mshr[m.src].st \in Leaving
      BY <3>1 DEF LineInv, Clients, Expected, WriteBack, Puts
    <3>3. Holds(s, m.src)
      BY <3>1, <3>2 DEF Holds, Evicts
    <3>4. m.src = i
      BY <1>2, <3>1, <3>3
    <3> QED BY <3>2, <3>4, <1>1 DEF Leaving
  <2> QED BY <2>2, <2>4, <2>5, <2>6
<1> QED BY <1>2, <1>3, <1>4

\* One writer: no other L1 can read the line, and no data are under way for one.
WriterAlone ==
  \A i \in L1s, l \in Lines : CanWrite(i, l) =>
    /\ \A k \in L1s \ {i} : ~CanRead(k, l)
    /\ \A m \in MsgsOf(l) : m.type \notin {"GETS_RESP", "GETM_RESP", "GET_RESP_MEM"}

LEMMA WritesAlone == MoesiInv => WriterAlone
<1> SUFFICES ASSUME MoesiInv, NEW i \in L1s, NEW l \in Lines, CanWrite(i, l)
             PROVE  /\ \A k \in L1s \ {i} : ~CanRead(k, l)
                    /\ \A m \in MsgsOf(l) : m.type \notin {"GETS_RESP", "GETM_RESP", "GET_RESP_MEM"}
  BY DEF WriterAlone
<1> DEFINE s == View(l)
<1>1. /\ LineInv(l, s) /\ s.msgs = MsgsOf(l)
      /\ \A k \in L1s : s.cache[k] = block[k][l] /\ s.mshr[k] = mshr[k][l]
  BY MoesiLine, ViewAt, ViewFacts
<1> HIDE DEF s
<1>2. s.cache[i].st \in {"E", "M"}
  BY <1>1 DEF CanWrite
<1>3. \A k \in L1s : CanRead(k, l) => Holds(s, k)
  BY <1>1 DEF CanRead, Holds
<1> QED BY <1>1, <1>2, <1>3, WriterTakesAll

\* An L1 that may write a line (E or M: l1cachev2.cpp, store) is alone with it: whatever
\* transactions, evictions and late messages are under way, no other can load it, and the
\* last data sent to another were taken in or are gone.
THEOREM OneWriterAlone == UnreplacedSpec => []WriterAlone
  BY MoesiInvariant, WritesAlone, PTL

-----------------------------------------------------------------------------
(* The refinement of CoherentMemory.                                       *)

\* The L1s other than i keep what they have.
OthersKeep(i) == \A k \in L1s \ {i} : block'[k] = block[k] /\ mshr'[k] = mshr[k]

\* A line that enters a cache changes no other cache,
LEMMA OthersEnter ==
  ASSUME MoesiInv, NEW i \in L1s, NEW l, NEW st, NEW data, NEW r, NEW out, NewLine(i, l, st, data, r, out)
  PROVE  OthersKeep(i)
<1>1. \A k \in L1s : k \in DOMAIN block /\ k \in DOMAIN mshr
  BY DEF MoesiInv, Shaped
<1>2. CASE /\ block' = [block EXCEPT ![i][l] = [st |-> st, data |-> data]]
           /\ mshr' = [mshr EXCEPT ![i][l] = NoMSHR]
  BY <1>1, <1>2 DEF OthersKeep
<1>3. ASSUME NEW v, NEW e,
             /\ block' = [[block EXCEPT ![i][l] = [st |-> st, data |-> data]] EXCEPT ![i][v] = Absent]
             /\ mshr' = [mshr EXCEPT ![i][l] = NoMSHR, ![i][v] = e]
      PROVE  OthersKeep(i)
  BY <1>1, <1>3 DEF OthersKeep
<1> QED BY <1>2, <1>3 DEF NewLine

\* and neither does any handler.
LEMMA OthersHandle ==
  ASSUME MoesiInv, NEW i \in L1s, NEW r, L1Handle(i, r)
  PROVE  OthersKeep(i) /\ golden' = golden
<1>1. \A k \in L1s : k \in DOMAIN block /\ k \in DOMAIN mshr
  BY DEF MoesiInv, Shaped
<1>2. CASE HandleInvalid(i, r)
  BY <1>1, <1>2 DEF HandleInvalid, Removed, OthersKeep
<1>3. CASE HandleInvalidAck(i, r)
  BY <1>1, <1>3, OthersEnter DEF HandleInvalidAck, Complete, OthersKeep
<1>4. CASE HandleGetMAck(i, r)
  BY <1>1, <1>4, OthersEnter DEF HandleGetMAck, Complete, OthersKeep
<1>5. CASE HandleGetSForward(i, r)
  BY <1>1, <1>5 DEF HandleGetSForward, OthersKeep
<1>6. CASE HandleGetMForward(i, r)
  BY <1>1, <1>6 DEF HandleGetMForward, Removed, OthersKeep
<1>7. CASE HandleGetSResp(i, r)
  BY <1>1, <1>7, OthersEnter DEF HandleGetSResp
<1>8. CASE HandleGetMResp(i, r)
  BY <1>1, <1>8, OthersEnter DEF HandleGetMResp, OthersKeep
<1>9. CASE HandleGetRespMem(i, r)
  BY <1>1, <1>9, OthersEnter DEF HandleGetRespMem
<1>10. CASE HandlePutAck(i, r)
  BY <1>1, <1>10 DEF HandlePutAck, OthersKeep
<1> QED BY <1>2, <1>3, <1>4, <1>5, <1>6, <1>7, <1>8, <1>9, <1>10 DEF L1Handle

\* One writer or many readers.
RightsAgree ==
  \A l \in Lines, i \in L1s : \A d \in L1s \ {i} :
    /\ Permission(i, l) = "write" => Permission(d, l) = "none"
    /\ Permission(i, l) = "read" => Permission(d, l) # "write"

\* The permissions the caches give agree with each other.
LEMMA PermissionsAgree == MoesiInv => RightsAgree
<1> SUFFICES ASSUME MoesiInv, NEW l \in Lines, NEW i \in L1s, NEW d \in L1s \ {i}
             PROVE  /\ Permission(i, l) = "write" => Permission(d, l) = "none"
                    /\ Permission(i, l) = "read" => Permission(d, l) # "write"
  BY DEF RightsAgree
<1> DEFINE s == View(l)
<1>1. /\ LineInv(l, s)
      /\ \A k \in L1s : s.cache[k] = block[k][l] /\ s.mshr[k] = mshr[k][l]
  BY MoesiLine, ViewAt
<1> HIDE DEF s
<1>2. OneWriter(s)
  BY <1>1 DEF LineInv
<1>3. \A k \in L1s : (CanWrite(k, l) => Exclusive(s, k)) /\ (CanRead(k, l) => Holds(s, k))
  BY <1>1 DEF CanWrite, CanRead, Exclusive, Holds
<1>4. CanWrite(d, l) => CanRead(d, l)
  BY DEF CanWrite, CanRead
<1>5. CanWrite(i, l) => ~CanRead(d, l) /\ ~CanWrite(d, l)
  BY <1>2, <1>3, <1>4 DEF OneWriter
<1>6. CanRead(i, l) => ~CanWrite(d, l)
  BY <1>2, <1>3 DEF OneWriter
<1> QED BY <1>5, <1>6 DEF Permission

\* Whatever an L1 does but store gives rights the others allow.
LEMMA MovesRights ==
  ASSUME MoesiInv, MoesiInv', NEW i \in L1s, OthersKeep(i), golden' = golden
  PROVE  Memory!Move(i)
<1> DEFINE f == [l \in Lines |-> Permission(i, l)']
<1>1. f \in [Lines -> Memory!Perms]
  BY DEF Permission, Memory!Perms
<1>2. ASSUME NEW d \in L1s \ {i}, NEW l \in Lines PROVE Permission(d, l)' = Permission(d, l)
  BY DEF OthersKeep, Permission, CanWrite, CanRead
<1>a. RightsAgree'
  BY PermissionsAgree, PTL
<1>3. ASSUME NEW l \in Lines PROVE Memory!Allowed(i, l, f[l])
  <2> SUFFICES ASSUME NEW d \in L1s \ {i}
               PROVE  /\ f[l] = "write" => Permission(d, l) = "none"
                      /\ f[l] = "read" => Permission(d, l) # "write"
    BY DEF Memory!Allowed
  <2>1. /\ Permission(i, l)' = "write" => Permission(d, l)' = "none"
        /\ Permission(i, l)' = "read" => Permission(d, l)' # "write"
    BY <1>a DEF RightsAgree
  <2> QED BY <2>1, <1>2
<1>4. [k \in L1s |-> [l \in Lines |-> Permission(k, l)']]
      = [[k \in L1s |-> [l \in Lines |-> Permission(k, l)]] EXCEPT ![i] = f]
  BY <1>2
<1> QED BY <1>1, <1>3, <1>4 DEF Memory!Move

\* A step that changes no right and no value.
LEMMA RightsStay ==
  ASSUME \A k \in L1s, l \in Lines : Permission(k, l)' = Permission(k, l), golden' = golden
  PROVE  UNCHANGED Memory!vars
  BY DEF Memory!vars

\* A store that hits is a store of the coherent memory.
LEMMA StoreStores ==
  ASSUME MoesiInv, NEW i \in L1s, NEW l \in Lines, StoreHit(i, l)
  PROVE  Memory!Store(i, l)
<1>1. /\ CanWrite(i, l) /\ mshr' = mshr
      /\ block' = [block EXCEPT ![i][l] = [st |-> "M", data |-> NextData(golden[l])]]
      /\ golden' = [golden EXCEPT ![l] = NextData(golden[l])]
  BY DEF StoreHit
<1>2. /\ block = [k \in L1s |-> [j \in Lines |-> block[k][j]]]
      /\ golden = [j \in Lines |-> golden[j]]
  BY DEF MoesiInv, Shaped
<1>3. /\ block'[i][l].st = "M"
      /\ \A k \in L1s, j \in Lines : k # i \/ j # l => block'[k][j] = block[k][j]
  BY <1>1, <1>2
<1>4. ASSUME NEW k \in L1s, NEW j \in Lines PROVE Permission(k, j)' = Permission(k, j)
  <2>1. CASE k = i /\ j = l
    BY <2>1, <1>1, <1>3 DEF Permission, CanWrite
  <2>2. CASE k # i \/ j # l
    BY <2>2, <1>1, <1>3 DEF Permission, CanWrite, CanRead
  <2> QED BY <2>1, <2>2
<1>5. Permission(i, l) = "write"
  BY <1>1 DEF Permission
<1>6. NextData(golden[l]) \in 0 .. MaxData
  <2>1. golden[l] \in Data
    <3>1. LineTypes(l, View(l)) /\ View(l).golden = golden[l]
      BY MoesiLine, ViewFacts DEF LineInv
    <3> QED BY <3>1 DEF LineTypes
  <2>2. NextData(golden[l]) \in Data
    BY <2>1, DataFacts
  <2> QED BY <2>2 DEF Data
<1> QED BY <1>1, <1>4, <1>5, <1>6 DEF Memory!Store

\* Every step is one of the coherent memory, or none.
LEMMA StepRefines ==
  ASSUME MoesiInv, MoesiInv', [Next]_vars
  PROVE  [Memory!Next]_(Memory!vars)
<1>1. CASE UNCHANGED l1Vars
  <2>1. \A k \in L1s, l \in Lines : Permission(k, l)' = Permission(k, l)
    BY <1>1 DEF l1Vars, Permission, CanWrite, CanRead
  <2> QED BY <2>1, <1>1, RightsStay DEF l1Vars
<1>2. ASSUME NEW i \in L1s, NEW l \in Lines, L1Access(i, l) PROVE [Memory!Next]_(Memory!vars)
  <2>1. \A k \in L1s : k \in DOMAIN block /\ k \in DOMAIN mshr
    BY DEF MoesiInv, Shaped
  <2>2. CASE StoreHit(i, l)
    BY <2>2, StoreStores DEF Memory!Next
  <2>3. CASE LoadMiss(i, l)
    <3>1. OthersKeep(i) /\ golden' = golden
      BY <2>1, <2>3 DEF LoadMiss, OthersKeep
    <3> QED BY <3>1, MovesRights DEF Memory!Next
  <2>4. CASE StoreMiss(i, l)
    <3>1. OthersKeep(i) /\ golden' = golden
      BY <2>1, <2>4 DEF StoreMiss, Removed, OthersKeep
    <3> QED BY <3>1, MovesRights DEF Memory!Next
  <2>5. CASE LoadReserved(i, l)
    <3>1. OthersKeep(i) /\ golden' = golden
      BY <2>5 DEF LoadReserved, OthersKeep
    <3> QED BY <3>1, MovesRights DEF Memory!Next
  <2> QED BY <1>2, <2>2, <2>3, <2>4, <2>5 DEF L1Access, StoreConditional
<1>3. ASSUME NEW i \in L1s, NEW n \in Nodes, L1Deliver(i, n) PROVE [Memory!Next]_(Memory!vars)
  <2>1. OthersKeep(i) /\ golden' = golden
    BY <1>3, OthersHandle DEF L1Deliver
  <2> QED BY <2>1, MovesRights DEF Memory!Next
<1>4. CASE Next
  <2>1. \A i \in L1s : Accesses[i] \subseteq Lines
    BY AccessesAssumption
  <2> QED BY <2>1, <1>1, <1>2, <1>3, <1>4
          DEF Next, CPU, LLCDeliver, LLCDispatch, LLCIndex, LLCProcess, MemDeliver
<1> QED BY <1>1, <1>4 DEF vars

\* The caches, the directory and the messages between them implement the coherent memory:
\* at any time a line has one L1 that may write it or many that may read it, and only the
\* former changes what it holds.
THEOREM CachesCoherent == UnreplacedSpec => Coherent
<1>1. Init => Memory!Init
  <2> SUFFICES ASSUME Init PROVE Memory!Init
    OBVIOUS
  <2>1. \A k \in L1s, l \in Lines : Permission(k, l) = "none" /\ golden = [j \in Lines |-> 0]
    BY DEF Init, L1Init, Absent, NoMSHR, Permission, CanRead, CanWrite
  <2> QED BY <2>1 DEF Memory!Init, Init, L1Init
<1>2. MoesiInv /\ MoesiInv' /\ [Next /\ ~IndexPutReplacing]_vars => [Memory!Next]_(Memory!vars)
  BY StepRefines
<1> QED BY <1>1, <1>2, MoesiInvariant, PTL DEF UnreplacedSpec, Coherent, Memory!Spec

\* All three hold of Spec itself, the one the runs check, when every line has a way of the
\* block array, as in the runs MoesiShare and MoesiEvict.
COROLLARY RoomyCaches ==
  ASSUME RoomForAll
  PROVE  Spec => []L1NeverAborts /\ []DirKnowsHolders /\ Coherent
<1>1. Spec => UnreplacedSpec
  BY RoomSuffices
<1> QED BY <1>1, L1sNeverAbort, DirectoryKnows, CachesCoherent, PTL
-----------------------------------------------------------------------------
(* What the copies of a line hold: as long as nobody but the owner of a    *)
(* line has its write-back change the owner (NoStaleWriteBack), every step *)
(* keeps DataInv, and no load ever hits a stale copy.                      *)

(* Steps of an L1.                                                         *)

\* L1 i acts: it takes the messages gone in, and sends new.
ActsAt(s, t, i, c, e, gone, new) ==
  /\ AtL1(s, t, i, c, e, gone, new) /\ t.golden = s.golden
  /\ gone \subseteq s.msgs /\ \A x \in gone : x.dst = i
  /\ \A x \in new : (Request(x) => x.src = i) /\ ~Grant(x) /\ x.dst # MEM

\* It keeps the data right: what it has then, what it sends, what it is responsible for.
Keeps(s, t, i, c, e, new) ==
  /\ c.st # "I" => c.data = s.golden
  /\ Supplies(t, i) => e.data = s.golden
  /\ \A x \in new : x.type \in {"GETS_RESP", "GETM_RESP", "GET_RESP_MEM"} \/ WriteBack(x) => x.data = s.golden
  /\ \A x \in s.msgs : WriteBack(x) /\ x.src = i => s.mshr[i].st # "ITOI" \/ e.st = "ITOI"
  /\ s.entry.exists # {} /\ s.entry.owner = i /\ Responsible(s, i) => Responsible(t, i)
  /\ Exclusive(t, i) /\ i \in s.entry.exists => s.entry.owner = i
  /\ e.hasData => s.entry.exists = {i}

\* What the L1 has then.
ActorHas(s, t, i, c, e, gone, new) ==
  /\ t.cache[i] = c /\ t.mshr[i] = e /\ (Granted(t, i) => Granted(s, i))
  /\ t.entry = s.entry /\ \A y : y \in t.msgs <=> (y \in s.msgs /\ y \notin gone) \/ y \in new

LEMMA ActorFacts ==
  ASSUME NEW l, NEW s, NEW t, LineInv(l, s), NEW i \in L1s, NEW c, NEW e, NEW gone, NEW new,
         ActsAt(s, t, i, c, e, gone, new)
  PROVE  ActorHas(s, t, i, c, e, gone, new)
<1>1. t.cache[i] = c /\ t.mshr[i] = e
  <2>1. DOMAIN s.cache = L1s /\ DOMAIN s.mshr = L1s
    BY DEF LineInv, LineTypes
  <2> QED BY <2>1 DEF ActsAt, AtL1
<1>2. t.entry = s.entry /\ \A y : y \in t.msgs <=> (y \in s.msgs /\ y \notin gone) \/ y \in new
  BY DEF ActsAt, AtL1
<1>3. Granted(t, i) => Granted(s, i)
  BY <1>2 DEF Granted, ActsAt
<1> QED BY <1>1, <1>2, <1>3 DEF ActorHas

\* The other L1s notice nothing of it.
OthersHave(s, t, i) ==
  \A k \in L1s \ {i} :
     /\ t.cache[k] = s.cache[k] /\ t.mshr[k] = s.mshr[k]
     /\ Asks(t, k) <=> Asks(s, k)
     /\ Supplies(t, k) => Supplies(s, k)
     /\ Exclusive(t, k) => Exclusive(s, k)
     /\ Responsible(s, k) => Responsible(t, k)

LEMMA OthersSame ==
  ASSUME NEW l, NEW s, NEW t, LineInv(l, s), NEW i \in L1s, NEW c, NEW e, NEW gone, NEW new,
         ActsAt(s, t, i, c, e, gone, new)
  PROVE  OthersHave(s, t, i)
<1>1. \A k \in L1s \ {i} : t.cache[k] = s.cache[k] /\ t.mshr[k] = s.mshr[k]
  <2>1. DOMAIN s.cache = L1s /\ DOMAIN s.mshr = L1s
    BY DEF LineInv, LineTypes
  <2> QED BY <2>1 DEF ActsAt, AtL1
<1>2. \A y : y \in t.msgs <=> (y \in s.msgs /\ y \notin gone) \/ y \in new
  BY DEF ActsAt, AtL1
<1>3. \A y \in gone : ~Request(y)
  BY About, L1Facts DEF WellFormed, ActsAt
<1>4. \A k \in L1s \ {i} : Asks(t, k) <=> Asks(s, k)
  BY <1>2, <1>3 DEF Asks, ActsAt
<1>5. \A k \in L1s : Granted(t, k) => Granted(s, k)
  BY <1>2 DEF Granted, ActsAt
<1>6. ASSUME NEW k \in L1s \ {i}, NEW y \in s.msgs, WriteBack(y), y.src = k PROVE y \in t.msgs
  BY <1>2, <1>3, <1>6 DEF WriteBack, Request
<1>7. \A k \in L1s \ {i} : Supplies(t, k) => Supplies(s, k)
  BY <1>1, <1>4 DEF Supplies, Evicts
<1>8. \A k \in L1s \ {i} : Exclusive(t, k) => Exclusive(s, k)
  BY <1>1, <1>4, <1>5 DEF Exclusive, Evicts
<1>9. \A k \in L1s \ {i} : Responsible(s, k) => Responsible(t, k)
  BY <1>1, <1>4, <1>6 DEF Responsible
<1> QED BY <1>1, <1>4, <1>7, <1>8, <1>9 DEF OthersHave

\* An L1 that keeps the data right keeps the invariant.
LEMMA KeepsData ==
  ASSUME NEW l, NEW s, NEW t, LineInv(l, s), DataInv(s), NEW i \in L1s, NEW c, NEW e,
         NEW gone, NEW new, ActsAt(s, t, i, c, e, gone, new), Keeps(s, t, i, c, e, new)
  PROVE  DataInv(t)
<1>1. t.cache[i] = c /\ t.mshr[i] = e
  <2>1. ActorHas(s, t, i, c, e, gone, new)
    BY ActorFacts
  <2> QED BY <2>1 DEF ActorHas
<1>2. /\ t.cache[i] = c /\ t.mshr[i] = e
      /\ \A k \in L1s \ {i} :
              /\ t.cache[k] = s.cache[k] /\ t.mshr[k] = s.mshr[k]
              /\ Supplies(t, k) => Supplies(s, k)
              /\ Exclusive(t, k) => Exclusive(s, k)
              /\ Responsible(s, k) => Responsible(t, k)
  <2>1. OthersHave(s, t, i)
    BY OthersSame
  <2> QED BY <1>1, <2>1 DEF OthersHave
<1>3. /\ \A y : y \in t.msgs <=> (y \in s.msgs /\ y \notin gone) \/ y \in new
      /\ t.entry = s.entry /\ t.blk = s.blk /\ t.mem = s.mem /\ t.golden = s.golden
  BY DEF ActsAt, AtL1
<1>4. FreshCopies(t)
  <2>1. /\ c.st # "I" => c.data = s.golden
        /\ Supplies(t, i) => e.data = s.golden
    BY DEF Keeps
  <2> QED BY <1>2, <1>3, <2>1 DEF DataInv, FreshCopies
<1>5. FreshMsgs(t)
  <2> SUFFICES ASSUME NEW y \in t.msgs
               PROVE  /\ y.type \in {"GETS_RESP", "GETM_RESP", "GET_RESP_MEM"} => y.data = s.golden
                      /\ WriteBack(y) /\ t.mshr[y.src].st # "ITOI" => y.data = s.golden
                      /\ y.dst = MEM => s.mem = s.golden
    BY <1>3 DEF FreshMsgs
  <2>1. CASE y \in new
    BY <2>1, <1>3 DEF Keeps, ActsAt
  <2>2. CASE y \in s.msgs
    <3>1. /\ y.type \in {"GETS_RESP", "GETM_RESP", "GET_RESP_MEM"} => y.data = s.golden
          /\ WriteBack(y) /\ s.mshr[y.src].st # "ITOI" => y.data = s.golden
          /\ y.dst = MEM => s.mem = s.golden
      BY <2>2 DEF DataInv, FreshMsgs
    <3>2. WriteBack(y) => y.src \in L1s
      BY <2>2, About DEF WellFormed, WriteBack, Request
    <3>3. WriteBack(y) /\ t.mshr[y.src].st # "ITOI" => s.mshr[y.src].st # "ITOI"
      BY <2>2, <3>2, <1>2 DEF Keeps
    <3> QED BY <3>1, <3>3
  <2> QED BY <2>1, <2>2, <1>3
<1>6. Sourced(t)
  <2>1. s.entry.exists # {} => s.entry.owner \in L1s
    BY DEF LineInv, LineTypes
  <2>2. s.entry.exists # {} /\ Responsible(s, s.entry.owner) => Responsible(t, s.entry.owner)
    BY <1>2, <2>1 DEF Keeps
  <2> QED BY <1>3, <2>2 DEF DataInv, Sourced, Backed
<1>7. HolderOwns(t)
  <2>1. /\ Exclusive(t, i) /\ i \in s.entry.exists => s.entry.owner = i
        /\ e.hasData => s.entry.exists = {i}
    BY DEF Keeps
  <2> QED BY <1>2, <1>3, <2>1 DEF DataInv, HolderOwns
<1> QED BY <1>4, <1>5, <1>6, <1>7 DEF DataInv

\* What an L1 without a transaction is not.
LEMMA IdleFacts ==
  ASSUME NEW l, NEW s, LineInv(l, s), NEW i \in L1s, s.mshr[i].st = "-"
  PROVE  /\ ~Asks(s, i) /\ ~Granted(s, i)
         /\ \A y \in s.msgs : ~(WriteBack(y) /\ y.src = i)
         /\ ~s.mshr[i].hasData
<1>1. \A y \in s.msgs : y.type # "GET_ACK" => s.mshr[Client(y)].st # "-"
  BY About
<1>2. ~Asks(s, i)
  BY <1>1 DEF Asks, Request, Client
<1>3. ~Granted(s, i)
  <2>1. \A y \in s.msgs : Grant(y) => y.type # "GET_ACK" /\ Client(y) = y.dst
    BY About DEF Grant
  <2> QED BY <1>1, <2>1 DEF Granted
<1>4. \A y \in s.msgs : ~(WriteBack(y) /\ y.src = i)
  BY <1>2 DEF Asks, WriteBack, Request
<1>5. ~s.mshr[i].hasData
  BY DEF LineInv, Collected
<1> QED BY <1>2, <1>3, <1>4, <1>5

\* load: a miss.
LEMMA LoadsFresh ==
  ASSUME NEW l, NEW s, NEW t, LineInv(l, s), DataInv(s), NEW i \in L1s, LineLoads(l, s, t, i)
  PROVE  DataInv(t)
<1> DEFINE x == Msg("GETS", REQ, i, LLC, l, i, NoData)
           e == Waits("ITOS")
           c == s.cache[i]
<1>x. x.type = "GETS" /\ x.src = i /\ x.dst = LLC
  BY MsgFacts
<1>e. e.st = "ITOS" /\ ~e.hasData
  BY WaitsFacts DEF MSHRStates
<1>1. /\ c.st = "I" /\ s.mshr[i].st = "-" /\ AtL1(s, t, i, c, e, {}, {x}) /\ t.golden = s.golden
  BY DEF LineLoads
<1> DEFINE new == {x}
           gone == {}
<1>n. \A y \in new : y = x
  OBVIOUS
<1>a. AtL1(s, t, i, c, e, gone, new) /\ t.golden = s.golden /\ gone \subseteq s.msgs /\ \A y \in gone : y.dst = i
  BY <1>1
<1> HIDE DEF x, e, c, new, gone
<1>2. /\ ~Asks(s, i) /\ ~Granted(s, i) /\ ~s.mshr[i].hasData
      /\ \A y \in s.msgs : ~(WriteBack(y) /\ y.src = i)
  BY <1>1, IdleFacts
<1>3. \A y \in new : Request(y) /\ y.src = i /\ ~Grant(y) /\ ~WriteBack(y) /\ y.dst # MEM
                     /\ y.type \notin {"GETS_RESP", "GETM_RESP", "GET_RESP_MEM"}
  BY <1>x, <1>n, L1Facts DEF Request, Grant, WriteBack
<1>b. ActsAt(s, t, i, c, e, gone, new)
  BY <1>a, <1>3 DEF ActsAt
<1>4. t.cache[i] = c /\ t.mshr[i] = e /\ (Granted(t, i) => Granted(s, i))
  <2>1. ActorHas(s, t, i, c, e, gone, new)
    BY <1>b, ActorFacts
  <2> QED BY <2>1 DEF ActorHas
<1>5. ~Supplies(t, i) /\ ~Exclusive(t, i) /\ ~Responsible(s, i)
  <2>1. c = s.cache[i]
    BY DEF c
  <2> QED BY <1>1, <1>2, <1>4, <1>e, <2>1 DEF Supplies, Exclusive, Responsible, Evicts, Leaving
<1>6. Keeps(s, t, i, c, e, new)
  BY <1>1, <1>2, <1>3, <1>5, <1>e DEF Keeps
<1> QED BY <1>6, <1>b, KeepsData

\* store: a miss; the copy that is upgraded moves to the MSHR.
LEMMA AsksToStoreFresh ==
  ASSUME NEW l, NEW s, NEW t, LineInv(l, s), DataInv(s), NEW i \in L1s, LineAsksToStore(l, s, t, i)
  PROVE  DataInv(t)
<1>p. PICK ch \in {RESP, REQ} :
        AtL1(s, t, i, Absent, Upgrade(s.cache[i]), {}, {Msg("GETM", ch, i, LLC, l, i, NoData)})
  BY DEF LineAsksToStore
<1> DEFINE x == Msg("GETM", ch, i, LLC, l, i, NoData)
           e == Upgrade(s.cache[i])
           c == Absent
           new == {x}
           gone == {}
<1>x. x.type = "GETM" /\ x.src = i /\ x.dst = LLC
  BY MsgFacts
<1>1. s.cache[i].st \notin {"E", "M"} /\ s.mshr[i].st = "-"
  BY DEF LineAsksToStore
<1>2. s.cache[i] \in [st : CacheStates, data : Data]
  BY DEF LineInv, LineTypes
<1>e. /\ e \in MSHREntry /\ ~e.hasData
      /\ s.cache[i].st = "S" => e.st = "STOM" /\ e.data = s.cache[i].data
      /\ s.cache[i].st = "O" => e.st = "OTOM" /\ e.data = s.cache[i].data
      /\ s.cache[i].st \notin {"S", "O"} => e.st = "ITOM"
  BY <1>2, UpgradeFacts DEF CacheStates
<1>c. c.st = "I"
  BY AbsentFacts
<1>n. \A y \in new : y = x
  OBVIOUS
<1>a. AtL1(s, t, i, c, e, gone, new) /\ t.golden = s.golden /\ gone \subseteq s.msgs /\ \A y \in gone : y.dst = i
  BY <1>p DEF LineAsksToStore
<1> HIDE DEF x, e, c, new, gone
<1>3. /\ ~Granted(s, i) /\ ~s.mshr[i].hasData
      /\ \A y \in s.msgs : ~(WriteBack(y) /\ y.src = i)
  BY <1>1, IdleFacts
<1>4. \A y \in new : Request(y) /\ y.src = i /\ ~Grant(y) /\ ~WriteBack(y) /\ y.dst # MEM
                     /\ y.type \notin {"GETS_RESP", "GETM_RESP", "GET_RESP_MEM"}
  BY <1>x, <1>n, L1Facts DEF Request, Grant, WriteBack
<1>b. ActsAt(s, t, i, c, e, gone, new)
  BY <1>a, <1>4 DEF ActsAt
<1>5. t.cache[i] = c /\ t.mshr[i] = e /\ (Granted(t, i) => Granted(s, i))
  <2>1. ActorHas(s, t, i, c, e, gone, new)
    BY <1>b, ActorFacts
  <2> QED BY <2>1 DEF ActorHas
<1>6. Supplies(t, i) => e.data = s.golden
  <2>1. s.cache[i].st # "I" => s.cache[i].data = s.golden
    BY DEF DataInv, FreshCopies
  <2>2. s.cache[i].st \in {"S", "O"} => e.data = s.golden
    BY <1>e, <2>1
  <2>3. s.cache[i].st \notin {"S", "O"} => ~Supplies(t, i)
    BY <1>5, <1>e DEF Supplies, Evicts, Leaving
  <2> QED BY <2>2, <2>3
<1>7. ~Exclusive(t, i)
  <2>1. e.st \in {"STOM", "OTOM", "ITOM"}
    BY <1>e
  <2> QED BY <1>3, <1>5, <1>c, <2>1 DEF Exclusive, Evicts
<1>8. Responsible(s, i) => Responsible(t, i)
  <2>1. Responsible(s, i) => s.cache[i].st = "O"
    BY <1>1, <1>3 DEF Responsible
  <2> QED BY <2>1, <1>5, <1>e DEF Responsible
<1>9. Keeps(s, t, i, c, e, new)
  BY <1>3, <1>4, <1>6, <1>7, <1>8, <1>e, <1>c DEF Keeps
<1> QED BY <1>9, <1>b, KeepsData

\* A line is evicted; the write-back has what the last store wrote.
LEMMA EvictedFresh ==
  ASSUME NEW l, NEW s, NEW t, LineInv(l, s), DataInv(s), NEW i \in L1s, LineEvicted(l, s, t, i)
  PROVE  DataInv(t)
<1> DEFINE d == s.cache[i]
           x == Msg(PutType[d.st], REQ, i, LLC, l, i, IF d.st \in {"M", "O"} THEN d.data ELSE NoData)
           e == Evicting(d)
           c == Absent
           new == {x}
           gone == {}
<1>x. /\ x.type = PutType[d.st] /\ x.src = i /\ x.dst = LLC
      /\ d.st \in {"M", "O"} => x.data = d.data
  BY MsgFacts
<1>1. d.st # "I" /\ d \in [st : CacheStates, data : Data]
  BY DEF LineEvicted, LineInv, LineTypes
<1>2. s.mshr[i].st = "-" /\ d.data = s.golden
  BY <1>1 DEF LineInv, OnePlace, DataInv, FreshCopies
<1>e. /\ e \in MSHREntry /\ ~e.hasData /\ e.data = d.data
      /\ d.st = "E" => e.st = "ETOI" /\ x.type = "PUTE"
      /\ d.st = "M" => e.st = "MTOI" /\ x.type = "PUTM"
      /\ d.st = "S" => e.st = "STOI" /\ x.type = "PUTS"
      /\ d.st = "O" => e.st = "OTOI" /\ x.type = "PUTO"
  BY <1>1, <1>x, EvictingFacts
<1>c. c.st = "I"
  BY AbsentFacts
<1>n. \A y : y \in new <=> y = x
  OBVIOUS
<1>a. AtL1(s, t, i, c, e, gone, new) /\ t.golden = s.golden /\ gone \subseteq s.msgs /\ \A y \in gone : y.dst = i
  BY DEF LineEvicted
<1>d. d = s.cache[i] /\ d.st \in {"E", "M", "S", "O"}
  BY <1>1 DEF CacheStates
<1> HIDE DEF x, e, c, new, gone, d
<1>3. /\ ~Granted(s, i) /\ \A y \in s.msgs : ~(WriteBack(y) /\ y.src = i)
  BY <1>2, IdleFacts
<1>4. \A y \in new : /\ Request(y) /\ y.src = i /\ ~Grant(y) /\ y.dst # MEM
                     /\ y.type \notin {"GETS_RESP", "GETM_RESP", "GET_RESP_MEM"}
                     /\ WriteBack(y) => y.data = s.golden
  BY <1>x, <1>n, <1>e, <1>d, <1>2, L1Facts DEF Request, Grant, WriteBack
<1>b. ActsAt(s, t, i, c, e, gone, new)
  BY <1>a, <1>4 DEF ActsAt
<1>5. /\ t.cache[i] = c /\ t.mshr[i] = e /\ (Granted(t, i) => Granted(s, i))
      /\ x \in t.msgs
  <2>1. ActorHas(s, t, i, c, e, gone, new)
    BY <1>b, ActorFacts
  <2> QED BY <1>n, <2>1 DEF ActorHas
<1>6. Exclusive(t, i) /\ i \in s.entry.exists => s.entry.owner = i
  <2>1. Exclusive(t, i) => Exclusive(s, i)
    BY <1>3, <1>5, <1>c, <1>e, <1>d DEF Exclusive, Evicts
  <2> QED BY <2>1 DEF DataInv, HolderOwns
<1>7. Responsible(s, i) => Responsible(t, i)
  <2>1. Responsible(s, i) => d.st \in {"M", "O"}
    BY <1>2, <1>3, <1>d DEF Responsible
  <2>2. d.st \in {"M", "O"} => WriteBack(x) /\ x.src = i /\ e.st # "ITOI"
    BY <1>x, <1>e DEF WriteBack
  <2> QED BY <2>1, <2>2, <1>5 DEF Responsible
<1>8. Keeps(s, t, i, c, e, new)
  BY <1>2, <1>3, <1>4, <1>6, <1>7, <1>e, <1>c DEF Keeps
<1> QED BY <1>8, <1>b, KeepsData

\* An L1 takes m in and answers.
Takes(s, t, i, m, c, e, new) ==
  /\ LineHandles(s, t, i, m, c, e, new)
  /\ \A x \in new : ~Request(x) /\ ~Grant(x) /\ x.dst # MEM

LEMMA TakesFacts ==
  ASSUME NEW l, NEW s, NEW t, LineInv(l, s), NEW i \in L1s, NEW m, NEW c, NEW e, NEW new,
         Takes(s, t, i, m, c, e, new)
  PROVE  ActorHas(s, t, i, c, e, {m}, new)
<1> DEFINE gone == {m}
<1>1. ActsAt(s, t, i, c, e, gone, new)
  BY DEF Takes, LineHandles, ActsAt
<1> HIDE DEF gone
<1>2. ActorHas(s, t, i, c, e, gone, new)
  BY <1>1, ActorFacts
<1> QED BY <1>2 DEF gone

\* No request comes or goes.
LEMMA TakesRequests ==
  ASSUME NEW l, NEW s, NEW t, LineInv(l, s), NEW i \in L1s, NEW m, NEW c, NEW e, NEW new,
         Takes(s, t, i, m, c, e, new)
  PROVE  /\ Asks(t, i) <=> Asks(s, i)
         /\ \A y : WriteBack(y) => (y \in t.msgs <=> y \in s.msgs)
<1>1. /\ m \in s.msgs /\ m.dst = i
      /\ \A y : y \in t.msgs <=> (y \in s.msgs /\ y # m) \/ y \in new
  BY DEF Takes, LineHandles, AtL1
<1>2. ~Request(m)
  BY <1>1, About, L1Facts DEF WellFormed
<1>3. \A y : Request(y) => (y \in t.msgs <=> y \in s.msgs)
  BY <1>1, <1>2 DEF Takes
<1> QED BY <1>3 DEF Asks, WriteBack, Request

LEMMA TakesFresh ==
  ASSUME NEW l, NEW s, NEW t, LineInv(l, s), DataInv(s), NEW i \in L1s, NEW m, NEW c, NEW e, NEW new,
         Takes(s, t, i, m, c, e, new), Keeps(s, t, i, c, e, new)
  PROVE  DataInv(t)
<1>1. ActsAt(s, t, i, c, e, {m}, new)
  BY DEF Takes, LineHandles, ActsAt
<1> QED BY <1>1, KeepsData

\* The line enters the cache with what the last store wrote.
LEMMA EntersFresh ==
  ASSUME NEW l, NEW s, NEW t, LineInv(l, s), DataInv(s), NEW i \in L1s, NEW m, NEW st, NEW data, NEW new,
         LineEnters(s, t, i, m, st, data, new), new \in {{}, {GetAck(i, l)}}, data = s.golden,
         \A y \in s.msgs : ~(WriteBack(y) /\ y.src = i),
         Responsible(s, i) => st \in {"M", "O"},
         st \in {"E", "M"} /\ i \in s.entry.exists => s.entry.owner = i
  PROVE  DataInv(t)
<1> DEFINE c == [st |-> st, data |-> data]
           e == NoMSHR
<1>c. c.st = st /\ c.data = data
  OBVIOUS
<1>e. e.st = "-" /\ ~e.hasData
  BY DEF NoMSHR
<1>1. \A y \in new : /\ ~Request(y) /\ ~Grant(y) /\ y.dst # MEM /\ ~WriteBack(y)
                     /\ y.type \notin {"GETS_RESP", "GETM_RESP", "GET_RESP_MEM"}
  <2>1. \A y \in new : y.type = "GET_ACK" /\ y.dst = LLC
    BY MsgFacts DEF GetAck
  <2> QED BY <2>1, L1Facts DEF Request, Grant, WriteBack
<1>2. Takes(s, t, i, m, c, e, new)
  BY <1>1 DEF Takes, LineEnters
<1> HIDE DEF c, e
<1>3. t.cache[i] = c /\ t.mshr[i] = e /\ (Granted(t, i) => Granted(s, i))
  <2>1. ActorHas(s, t, i, c, e, {m}, new)
    BY <1>2, TakesFacts
  <2> QED BY <2>1 DEF ActorHas
<1>4. ~Supplies(t, i)
  BY <1>3, <1>e DEF Supplies, Evicts, Leaving
<1>5. Exclusive(t, i) /\ i \in s.entry.exists => s.entry.owner = i
  <2>1. Exclusive(t, i) => st \in {"E", "M"} \/ Exclusive(s, i)
    BY <1>3, <1>c, <1>e DEF Exclusive, Evicts
  <2> QED BY <2>1 DEF DataInv, HolderOwns
<1>6. Responsible(s, i) => Responsible(t, i)
  BY <1>3, <1>c DEF Responsible
<1>7. Keeps(s, t, i, c, e, new)
  BY <1>1, <1>4, <1>5, <1>6, <1>c, <1>e DEF Keeps
<1> QED BY <1>2, <1>7, TakesFresh

\* The L1 notes the message and goes on waiting.
LEMMA NotedFresh ==
  ASSUME NEW l, NEW s, NEW t, LineInv(l, s), DataInv(s), NEW i \in L1s, NEW m, NEW e,
         LineHandles(s, t, i, m, s.cache[i], e, {}), e.st = s.mshr[i].st,
         \/ e.data = s.mshr[i].data /\ e.hasData = s.mshr[i].hasData
         \/ e.data = s.golden /\ s.entry.exists = {i}
  PROVE  DataInv(t)
<1> DEFINE c == s.cache[i]
           new == {}
<1>1. Takes(s, t, i, m, c, e, new) /\ c = s.cache[i]
  BY DEF Takes
<1>n. \A y : y \notin new
  OBVIOUS
<1> HIDE DEF c, new
<1>2. /\ t.cache[i] = c /\ t.mshr[i] = e /\ (Granted(t, i) => Granted(s, i))
  <2>1. ActorHas(s, t, i, c, e, {m}, new)
    BY <1>1, TakesFacts
  <2> QED BY <2>1 DEF ActorHas
<1>w. /\ Asks(t, i) <=> Asks(s, i)
      /\ \A y : WriteBack(y) => (y \in t.msgs <=> y \in s.msgs)
  BY <1>1, TakesRequests
<1>3. /\ c.st # "I" => c.data = s.golden
      /\ Supplies(s, i) => s.mshr[i].data = s.golden
      /\ Exclusive(s, i) /\ i \in s.entry.exists => s.entry.owner = i
      /\ s.mshr[i].hasData => s.entry.exists = {i}
  BY <1>1 DEF DataInv, FreshCopies, HolderOwns
<1>4. Exclusive(t, i) => Exclusive(s, i)
  BY <1>1, <1>2, <1>w DEF Exclusive, Evicts
<1>5. Responsible(s, i) => Responsible(t, i)
  BY <1>1, <1>2, <1>w DEF Responsible
<1>6. Supplies(t, i) => e.data = s.golden
  <2>1. CASE e.data = s.mshr[i].data /\ e.hasData = s.mshr[i].hasData
    <3>1. Supplies(t, i) => Supplies(s, i)
      BY <1>2, <1>w, <2>1 DEF Supplies, Evicts
    <3> QED BY <3>1, <2>1, <1>3
  <2>2. CASE e.data = s.golden
    BY <2>2
  <2> QED BY <2>1, <2>2
<1>7. e.hasData => s.entry.exists = {i}
  BY <1>3
<1>8. Keeps(s, t, i, c, e, new)
  BY <1>n, <1>3, <1>4, <1>5, <1>6, <1>7 DEF Keeps
<1> QED BY <1>1, <1>8, TakesFresh

\* INVALID: the L1 that gives the line up is not the owner.
LEMMA InvalidFresh ==
  ASSUME NEW l, NEW s, NEW t, LineInv(l, s), DataInv(s), NEW i \in L1s, NEW m \in s.msgs,
         LineInvalid(l, s, t, i, m)
  PROVE  DataInv(t)
<1> DEFINE x == Msg("INVALID_ACK", ACK, i, m.arg, l, 0, NoData)
           d == s.mshr[i]
           e == [d EXCEPT !.st = AfterInvalid(@)]
           c == Absent
           new == {x}
<1>x. x.type = "INVALID_ACK" /\ x.src = i /\ x.dst = m.arg
  BY MsgFacts
<1>c. c.st = "I"
  BY AbsentFacts
<1>1. m.type = "INVALID" /\ ~Granted(s, i) /\ m.dst = i /\ LineHandles(s, t, i, m, c, e, new)
  BY DEF LineInvalid, LineHandles
<1>2. m.arg \in L1s /\ m.arg # i /\ Holds(s, i) /\ ~Exclusive(s, i)
  BY <1>1, About DEF LineInv, InvalidSound, WellFormed
<1>3. s.entry.exists = {m.arg} /\ s.entry.owner = m.arg
  BY <1>1 DEF LineInv, OwnerToBe, Owing, Requester, OwnerKnown
<1>4. d \in MSHREntry /\ d.st \in {"-", "STOM", "OTOM", "MTOI", "STOI", "OTOI"}
  <2>1. /\ s.cache[i].st # "I" => d.st = "-"
        /\ s.cache[i].st = "I" => \/ d.st \in {"STOM", "OTOM"}
                                  \/ d.st \in {"MTOI", "STOI", "ETOI", "OTOI"} /\ Asks(s, i)
    BY <1>1, <1>2, HolderFacts
  <2> QED BY <2>1, <1>2, EntryFacts DEF Exclusive, Evicts
<1>5. e.st \in {"-", "ITOM", "ITOI"} /\ e.hasData = d.hasData /\ (d.st = "ITOI" => e.st = "ITOI")
  <2>1. AfterInvalid(d.st) \in {"-", "ITOM", "ITOI"}
    BY <1>4, AfterFacts
  <2> QED BY <2>1, <1>4 DEF MSHREntry
<1>n. \A y \in new : y = x
  OBVIOUS
<1>d. d = s.mshr[i]
  OBVIOUS
<1> HIDE DEF x, e, c, new, d
<1>6. \A y \in new : /\ ~Request(y) /\ ~Grant(y) /\ y.dst # MEM /\ ~WriteBack(y)
                     /\ y.type \notin {"GETS_RESP", "GETM_RESP", "GET_RESP_MEM"}
  BY <1>x, <1>n, <1>2, L1Facts DEF Request, Grant, WriteBack
<1>7. Takes(s, t, i, m, c, e, new)
  BY <1>1, <1>6 DEF Takes
<1>8. t.cache[i] = c /\ t.mshr[i] = e /\ (Granted(t, i) => Granted(s, i))
  <2>1. ActorHas(s, t, i, c, e, {m}, new)
    BY <1>7, TakesFacts
  <2> QED BY <2>1 DEF ActorHas
<1>9. ~e.hasData
  BY <1>2, <1>3, <1>5, <1>d DEF DataInv, HolderOwns
<1>10. ~Supplies(t, i)
  BY <1>5, <1>8, <1>9 DEF Supplies, Evicts, Leaving
<1>11. \A y \in s.msgs : WriteBack(y) /\ y.src = i => s.mshr[i].st # "ITOI" \/ e.st = "ITOI"
  BY <1>5, <1>d
<1>12. Keeps(s, t, i, c, e, new)
  BY <1>2, <1>3, <1>6, <1>9, <1>10, <1>11, <1>c DEF Keeps
<1> QED BY <1>7, <1>12, TakesFresh

\* An L1 that waits for an answer to its request writes nothing back.
LEMMA AskerWritesNothing ==
  ASSUME NEW l, NEW s, LineInv(l, s), NEW i \in L1s,
         s.mshr[i].st \notin Leaving \/ ~Asks(s, i)
  PROVE  \A y \in s.msgs : ~(WriteBack(y) /\ y.src = i)
<1> SUFFICES ASSUME NEW y \in s.msgs, WriteBack(y), y.src = i PROVE FALSE
  OBVIOUS
<1>1. Request(y) /\ Client(y) = i /\ y.type \in Puts
  BY DEF WriteBack, Request, Client, Puts
<1>2. Asks(s, i)
  BY <1>1 DEF Asks
<1>3. s.mshr[i].st \in Leaving
  BY <1>1 DEF LineInv, Clients, Expected
<1> QED BY <1>2, <1>3

\* INVALID_ACK and GETM_ACK: the data that are there are the last.
LEMMA CollectedFresh ==
  ASSUME NEW l, NEW s, NEW t, LineInv(l, s), DataInv(s), NEW i \in L1s, NEW m \in s.msgs,
         m.type \in {"INVALID_ACK", "GETM_ACK"}, m.dst = i, HasLineData(s.mshr[i]),
         LineEnters(s, t, i, m, "M", s.mshr[i].data, {GetAck(i, l)})
  PROVE  DataInv(t)
<1> DEFINE da == s.mshr[i].data
           new == {GetAck(i, l)}
<1>1. s.mshr[i].st \in {"ITOM", "STOM", "OTOM"}
  BY DEF LineInv, Clients, Expected, Client, Requester, Request
<1>2. da = s.golden
  BY DEF HasLineData, DataInv, FreshCopies, Supplies
<1>3. \A y \in s.msgs : ~(WriteBack(y) /\ y.src = i)
  BY <1>1, AskerWritesNothing DEF Leaving
<1>4. s.entry.owner = i
  BY DEF LineInv, OwnerToBe, Owing, Requester, OwnerKnown
<1>5. LineEnters(s, t, i, m, "M", da, new) /\ new \in {{}, {GetAck(i, l)}}
  OBVIOUS
<1> HIDE DEF da, new
<1> QED BY <1>2, <1>3, <1>4, <1>5, EntersFresh

LEMMA InvalidAckFresh ==
  ASSUME NEW l, NEW s, NEW t, LineInv(l, s), DataInv(s), NEW i \in L1s, NEW m \in s.msgs,
         LineInvalidAck(l, s, t, i, m)
  PROVE  DataInv(t)
<1> DEFINE d == s.mshr[i]
           e == [d EXCEPT !.acks = IF Collecting(d) THEN @ + 1 ELSE @]
<1>1. m.type = "INVALID_ACK" /\ m.dst = i
  BY DEF LineInvalidAck, LineEnters, LineHandles
<1>2. CASE LastAck(d) /\ LineEnters(s, t, i, m, "M", d.data, {GetAck(i, l)})
  BY <1>1, <1>2, CollectedFresh DEF LastAck
<1>3. CASE LineHandles(s, t, i, m, s.cache[i], e, {})
  <2>1. d \in MSHREntry
    BY EntryFacts
  <2>2. e.st = d.st /\ e.data = d.data /\ e.hasData = d.hasData
    BY <2>1 DEF MSHREntry
  <2>3. LineHandles(s, t, i, m, s.cache[i], e, {})
    BY <1>3
  <2> HIDE DEF e
  <2> QED BY <2>2, <2>3, NotedFresh
<1> QED BY <1>2, <1>3 DEF LineInvalidAck

LEMMA GetMAckFresh ==
  ASSUME NEW l, NEW s, NEW t, LineInv(l, s), DataInv(s), NEW i \in L1s, NEW m \in s.msgs,
         LineGetMAck(l, s, t, i, m)
  PROVE  DataInv(t)
<1> DEFINE d == s.mshr[i]
           e == IF Collecting(d) THEN [d EXCEPT !.hasNeed = TRUE, !.need = m.arg] ELSE d
<1>1. m.type = "GETM_ACK" /\ m.dst = i
  BY DEF LineGetMAck, LineEnters, LineHandles
<1>2. CASE HasLineData(d) /\ LineEnters(s, t, i, m, "M", d.data, {GetAck(i, l)})
  BY <1>1, <1>2, CollectedFresh
<1>3. CASE LineHandles(s, t, i, m, s.cache[i], e, {})
  <2>1. d \in MSHREntry
    BY EntryFacts
  <2>2. e.st = d.st /\ e.data = d.data /\ e.hasData = d.hasData
    BY <2>1 DEF MSHREntry
  <2>3. LineHandles(s, t, i, m, s.cache[i], e, {})
    BY <1>3
  <2> HIDE DEF e
  <2> QED BY <2>2, <2>3, NotedFresh
<1> QED BY <1>2, <1>3 DEF LineGetMAck

\* What a holder sends is what the last store wrote.
LEMMA HolderFresh ==
  ASSUME NEW l, NEW s, LineInv(l, s), DataInv(s), NEW i \in L1s, Holds(s, i), ~Granted(s, i)
  PROVE  DataOf(s, i) = s.golden
<1>1. s.cache[i].st = "I" => Supplies(s, i)
  BY HolderFacts DEF Supplies, Evicts, Leaving
<1> QED BY <1>1 DEF DataOf, DataInv, FreshCopies

\* GETS_FORWARD: the owner stays responsible for the data it passes on.
LEMMA GetSForwardFresh ==
  ASSUME NEW l, NEW s, NEW t, LineInv(l, s), DataInv(s), NEW i \in L1s, NEW m \in s.msgs,
         LineGetSForward(l, s, t, i, m)
  PROVE  DataInv(t)
<1> DEFINE x == Msg("GETS_RESP", RESP, i, m.arg, l, 1, DataOf(s, i))
           b == s.cache[i]
           d == s.mshr[i]
           c == IF b.st # "I" THEN Owned(b) ELSE b
           e == IF b.st = "I" /\ d.st \in {"MTOI", "ETOI", "STOI"} THEN [d EXCEPT !.st = "OTOI"] ELSE d
           new == {x}
<1>x. x.type = "GETS_RESP" /\ x.src = i /\ x.dst = m.arg /\ x.data = DataOf(s, i)
  BY MsgFacts
<1>1. m.type = "GETS_FORWARD" /\ ~Granted(s, i) /\ m.dst = i /\ LineHandles(s, t, i, m, c, e, new)
  BY DEF LineGetSForward, LineHandles
<1>2. m.arg \in L1s /\ Holds(s, i)
  BY <1>1, About, L1Facts DEF LineInv, GetSSound, WellFormed
<1>3. b \in [st : CacheStates, data : Data] /\ d \in MSHREntry
  BY HolderFacts, EntryFacts DEF LineInv, LineTypes
<1>4. /\ b.st # "I" => d.st = "-"
      /\ b.st = "I" => \/ d.st \in {"STOM", "OTOM"}
                       \/ d.st \in {"MTOI", "STOI", "ETOI", "OTOI"} /\ Asks(s, i)
  BY <1>1, <1>2, HolderFacts
<1>5. DataOf(s, i) = s.golden
  BY <1>1, <1>2, HolderFresh
<1>6. /\ b.st # "I" => c.st = "O" /\ c.data = b.data
      /\ b.st = "I" => c = b
  BY <1>3 DEF Owned
<1>7. /\ e.data = d.data /\ e.hasData = d.hasData
      /\ b.st # "I" => e = d
      /\ b.st = "I" => \/ d.st \in {"STOM", "OTOM"} /\ e.st = d.st
                       \/ d.st \in {"MTOI", "STOI", "ETOI", "OTOI"} /\ Asks(s, i) /\ e.st = "OTOI"
  BY <1>3, <1>4 DEF MSHREntry
<1>d. d = s.mshr[i] /\ b = s.cache[i]
  OBVIOUS
<1>n. \A y \in new : y = x
  OBVIOUS
<1> HIDE DEF x, e, c, new, d, b
<1>8. \A y \in new : /\ ~Request(y) /\ ~Grant(y) /\ y.dst # MEM /\ ~WriteBack(y)
                     /\ y.data = s.golden
  BY <1>x, <1>n, <1>2, <1>5, L1Facts DEF Request, Grant, WriteBack
<1>9. Takes(s, t, i, m, c, e, new)
  BY <1>1, <1>8 DEF Takes
<1>10. t.cache[i] = c /\ t.mshr[i] = e /\ (Granted(t, i) => Granted(s, i))
  <2>1. ActorHas(s, t, i, c, e, {m}, new)
    BY <1>9, TakesFacts
  <2> QED BY <2>1 DEF ActorHas
<1>11. /\ Asks(t, i) <=> Asks(s, i)
       /\ \A y : WriteBack(y) => (y \in t.msgs <=> y \in s.msgs)
  BY <1>9, TakesRequests
<1>12. c.st # "I" => c.data = s.golden
  BY <1>6, <1>d DEF DataInv, FreshCopies
<1>13. Supplies(t, i) => e.data = s.golden
  <2>1. Supplies(t, i) => Supplies(s, i)
    BY <1>4, <1>7, <1>10, <1>11, <1>d DEF Supplies, Evicts, Leaving
  <2> QED BY <2>1, <1>7, <1>d DEF DataInv, FreshCopies
<1>14. \A y \in s.msgs : WriteBack(y) /\ y.src = i => s.mshr[i].st # "ITOI" \/ e.st = "ITOI"
  BY <1>4, <1>d
<1>15. Responsible(s, i) => Responsible(t, i)
  <2>1. CASE b.st # "I"
    BY <2>1, <1>6, <1>10 DEF Responsible
  <2>2. CASE b.st = "I"
    <3>1. CASE d.st \in {"STOM", "OTOM"} /\ e.st = d.st
      BY <2>2, <3>1, <1>10, <1>11, <1>d DEF Responsible
    <3>2. CASE d.st \in {"MTOI", "STOI", "ETOI", "OTOI"} /\ e.st = "OTOI"
      BY <2>2, <3>2, <1>10, <1>11, <1>d DEF Responsible
    <3> QED BY <2>2, <3>1, <3>2, <1>7
  <2> QED BY <2>1, <2>2
<1>16. ~Exclusive(t, i)
  BY <1>1, <1>4, <1>6, <1>7, <1>10 DEF Exclusive, Evicts
<1>17. e.hasData => s.entry.exists = {i}
  BY <1>7, <1>d DEF DataInv, HolderOwns
<1>18. Keeps(s, t, i, c, e, new)
  BY <1>8, <1>12, <1>13, <1>14, <1>15, <1>16, <1>17 DEF Keeps
<1> QED BY <1>9, <1>18, TakesFresh

\* GETM_FORWARD: the data go to the L1 that will own the line.
LEMMA GetMForwardFresh ==
  ASSUME NEW l, NEW s, NEW t, LineInv(l, s), DataInv(s), NEW i \in L1s, NEW m \in s.msgs,
         LineGetMForward(l, s, t, i, m)
  PROVE  DataInv(t)
<1> DEFINE x == Msg("GETM_RESP", RESP, i, m.arg, l, 0, DataOf(s, i))
           b == s.cache[i]
           d == s.mshr[i]
           c == Absent
           e == IF b.st # "I" THEN d ELSE [d EXCEPT !.st = AfterGetM(@)]
           new == {x}
<1>x. x.type = "GETM_RESP" /\ x.src = i /\ x.dst = m.arg /\ x.data = DataOf(s, i)
  BY MsgFacts
<1>c. c.st = "I"
  BY AbsentFacts
<1>1. m.type = "GETM_FORWARD" /\ ~Granted(s, i) /\ m.dst = i /\ LineHandles(s, t, i, m, c, e, new)
  BY DEF LineGetMForward, LineHandles
<1>2. m.arg \in L1s /\ m.arg # i /\ Holds(s, i)
  BY <1>1, About, L1Facts DEF LineInv, GetMSound, WellFormed
<1>3. s.entry.exists = {m.arg} /\ s.entry.owner = m.arg
  BY <1>1 DEF LineInv, OwnerToBe, Owing, Requester, OwnerKnown
<1>4. /\ d \in MSHREntry
      /\ b.st # "I" => d.st = "-"
      /\ b.st = "I" => d.st \in {"STOM", "OTOM", "MTOI", "STOI", "ETOI", "OTOI"}
  BY <1>1, <1>2, HolderFacts, EntryFacts
<1>5. DataOf(s, i) = s.golden
  BY <1>1, <1>2, HolderFresh
<1>6. e.st \in {"-", "ITOM", "ITOI"} /\ e.hasData = d.hasData /\ d.st # "ITOI"
  <2>1. CASE b.st # "I"
    BY <2>1, <1>4
  <2>2. CASE b.st = "I"
    <3>1. AfterGetM(d.st) \in {"ITOM", "ITOI"}
      BY DEF AfterGetM
    <3> QED BY <2>2, <3>1, <1>4 DEF MSHREntry
  <2> QED BY <2>1, <2>2
<1>d. d = s.mshr[i]
  OBVIOUS
<1>n. \A y \in new : y = x
  OBVIOUS
<1> HIDE DEF x, e, c, new, d, b
<1>7. \A y \in new : /\ ~Request(y) /\ ~Grant(y) /\ y.dst # MEM /\ ~WriteBack(y)
                     /\ y.data = s.golden
  BY <1>x, <1>n, <1>2, <1>5, L1Facts DEF Request, Grant, WriteBack
<1>8. Takes(s, t, i, m, c, e, new)
  BY <1>1, <1>7 DEF Takes
<1>9. t.cache[i] = c /\ t.mshr[i] = e /\ (Granted(t, i) => Granted(s, i))
  <2>1. ActorHas(s, t, i, c, e, {m}, new)
    BY <1>8, TakesFacts
  <2> QED BY <2>1 DEF ActorHas
<1>10. ~e.hasData
  BY <1>2, <1>3, <1>6, <1>d DEF DataInv, HolderOwns
<1>11. ~Supplies(t, i)
  BY <1>6, <1>9, <1>10 DEF Supplies, Evicts, Leaving
<1>12. Keeps(s, t, i, c, e, new)
  BY <1>2, <1>3, <1>6, <1>7, <1>10, <1>11, <1>c, <1>d DEF Keeps
<1> QED BY <1>8, <1>12, TakesFresh

\* Data for a reader: from the owner, or from the LLC, which has them alone.
LEMMA GetSRespFresh ==
  ASSUME NEW l, NEW s, NEW t, LineInv(l, s), DataInv(s), NEW i \in L1s, NEW m \in s.msgs,
         LineGetSResp(l, s, t, i, m)
  PROVE  DataInv(t)
<1>1. m.type = "GETS_RESP" /\ m.dst = i
  BY DEF LineGetSResp, LineEnters, LineHandles
<1>2. m.data = s.golden
  BY <1>1 DEF DataInv, FreshMsgs
<1>3. s.mshr[i].st = "ITOS" /\ s.cache[i].st = "I"
  BY <1>1 DEF LineInv, Clients, Expected, Client, Requester, Request, OnePlace
<1>4. \A y \in s.msgs : ~(WriteBack(y) /\ y.src = i)
  BY <1>3, AskerWritesNothing DEF Leaving
<1>5. ~Responsible(s, i)
  BY <1>3, <1>4 DEF Responsible
<1> DEFINE da == m.data
           new == {GetAck(i, l)}
           none == {}
<1>6. CASE m.arg > 0
  <2>1. LineEnters(s, t, i, m, "S", da, new) /\ new \in {{}, {GetAck(i, l)}} /\ da = s.golden
    BY <1>2, <1>6 DEF LineGetSResp
  <2> HIDE DEF da, new
  <2> QED BY <1>4, <1>5, <2>1, EntersFresh
<1>7. CASE ~(m.arg > 0)
  <2>1. LineEnters(s, t, i, m, "E", da, none) /\ none \in {{}, {GetAck(i, l)}} /\ da = s.golden
    BY <1>2, <1>7 DEF LineGetSResp
  <2>2. m.src = LLC
    BY <1>1, <1>7, About DEF WellFormed
  <2>3. Exclusive(s, i)
    BY <1>1, <2>2 DEF Exclusive, Granted, Grant
  <2>4. i \in s.entry.exists => s.entry.owner = i
    BY <2>3 DEF DataInv, HolderOwns
  <2> HIDE DEF da, none
  <2> QED BY <1>4, <1>5, <2>1, <2>4, EntersFresh
<1> QED BY <1>6, <1>7

\* Data for a writer, which waits for acknowledgements or not.
LEMMA GetMRespFresh ==
  ASSUME NEW l, NEW s, NEW t, LineInv(l, s), DataInv(s), NEW i \in L1s, NEW m \in s.msgs,
         LineGetMResp(l, s, t, i, m)
  PROVE  DataInv(t)
<1> DEFINE d == s.mshr[i]
           e == [d EXCEPT !.data = m.data, !.hasData = TRUE]
           da == m.data
           new == IF m.arg = 0 THEN {GetAck(i, l)} ELSE {}
<1>1. m.type = "GETM_RESP" /\ m.dst = i
  BY DEF LineGetMResp, LineEnters, LineHandles
<1>2. da = s.golden
  BY <1>1 DEF DataInv, FreshMsgs
<1>3. s.mshr[i].st = "ITOM"
  BY <1>1 DEF LineInv, Clients, Expected, Client, Requester, Request
<1>4. \A y \in s.msgs : ~(WriteBack(y) /\ y.src = i)
  BY <1>3, AskerWritesNothing DEF Leaving
<1>5. m.arg = 0 => s.entry.exists = {i} /\ s.entry.owner = i
  <2>1. m.arg = 0 => m.src # LLC
    BY <1>1, About DEF WellFormed
  <2>2. m.arg = 0 => Owing(m) /\ Requester(m) = i
    BY <1>1, <2>1 DEF Owing, Requester
  <2> QED BY <1>1, <2>2 DEF LineInv, OwnerToBe, OwnerKnown
<1>6. i \in s.entry.exists => s.entry.owner = i
  <2>1. CASE m.arg # 0
    <3>1. m.src = LLC
      BY <1>1, <2>1, About DEF WellFormed
    <3>2. Exclusive(s, i)
      BY <1>1, <3>1 DEF Exclusive, Granted, Grant
    <3> QED BY <3>2 DEF DataInv, HolderOwns
  <2> QED BY <2>1, <1>5
<1>7. CASE m.arg = 0 /\ LineHandles(s, t, i, m, s.cache[i], e, {})
  <2>1. d \in MSHREntry
    BY EntryFacts
  <2>2. e.st = d.st /\ e.data = da
    BY <2>1 DEF MSHREntry
  <2>3. LineHandles(s, t, i, m, s.cache[i], e, {})
    BY <1>7
  <2> HIDE DEF e, da
  <2> QED BY <1>2, <1>5, <1>7, <2>2, <2>3, NotedFresh
<1>8. CASE LineEnters(s, t, i, m, "M", m.data, new)
  <2>1. LineEnters(s, t, i, m, "M", da, new) /\ new \in {{}, {GetAck(i, l)}}
    BY <1>8
  <2> HIDE DEF da, new
  <2> QED BY <1>2, <1>4, <1>6, <2>1, EntersFresh
<1> QED BY <1>7, <1>8 DEF LineGetMResp

\* Data from memory.
LEMMA GetRespMemFresh ==
  ASSUME NEW l, NEW s, NEW t, LineInv(l, s), DataInv(s), NEW i \in L1s, NEW m \in s.msgs,
         LineGetRespMem(l, s, t, i, m)
  PROVE  DataInv(t)
<1> DEFINE da == m.data
           st == IF s.mshr[i].st = "ITOM" THEN "M" ELSE "E"
           new == {GetAck(i, l)}
<1>1. m.type = "GET_RESP_MEM" /\ m.dst = i /\ LineEnters(s, t, i, m, st, da, new) /\ new \in {{}, {GetAck(i, l)}}
  BY DEF LineGetRespMem, LineEnters, LineHandles
<1>2. da = s.golden
  BY <1>1 DEF DataInv, FreshMsgs
<1>3. s.mshr[i].st \in {"ITOS", "ITOM"} /\ s.cache[i].st = "I"
  BY <1>1 DEF LineInv, Clients, Expected, Client, Requester, Request, OnePlace
<1>4. \A y \in s.msgs : ~(WriteBack(y) /\ y.src = i)
  BY <1>3, AskerWritesNothing DEF Leaving
<1>5. s.entry.owner = i
  BY <1>1 DEF LineInv, OwnerToBe, Owing, Requester, OwnerKnown
<1>6. Responsible(s, i) => st \in {"M", "O"}
  BY <1>3, <1>4 DEF Responsible
<1> HIDE DEF da, new, st
<1> QED BY ZenonT(60), <1>1, <1>2, <1>4, <1>5, <1>6, EntersFresh

\* PUT_ACK ends an eviction.
LEMMA PutAckFresh ==
  ASSUME NEW l, NEW s, NEW t, LineInv(l, s), DataInv(s), NEW i \in L1s, NEW m \in s.msgs,
         LinePutAck(l, s, t, i, m)
  PROVE  DataInv(t)
<1> DEFINE c == s.cache[i]
           e == NoMSHR
           new == {}
<1>1. m.type = "PUT_ACK" /\ m.dst = i /\ LineHandles(s, t, i, m, c, e, new) /\ c = s.cache[i]
  BY DEF LinePutAck, LineHandles
<1>e. e.st = "-" /\ ~e.hasData
  BY DEF NoMSHR
<1>n. \A y : y \notin new
  OBVIOUS
<1> HIDE DEF c, e, new
<1>2. s.mshr[i].st \in Leaving /\ c.st = "I" /\ ~Asks(s, i)
  BY <1>1 DEF LineInv, Clients, Expected, Client, Requester, Request, OnePlace, AskedFirst, Leaving
<1>3. \A y \in s.msgs : ~(WriteBack(y) /\ y.src = i)
  BY <1>2, AskerWritesNothing
<1>4. ~Responsible(s, i)
  BY <1>1, <1>2, <1>3 DEF Responsible, Leaving
<1>5. Takes(s, t, i, m, c, e, new)
  BY <1>1, <1>n DEF Takes
<1>6. t.cache[i] = c /\ t.mshr[i] = e /\ (Granted(t, i) => Granted(s, i))
  <2>1. ActorHas(s, t, i, c, e, {m}, new)
    BY <1>5, TakesFacts
  <2> QED BY <2>1 DEF ActorHas
<1>7. ~Supplies(t, i)
  BY <1>6, <1>e DEF Supplies, Evicts, Leaving
<1>8. Exclusive(t, i) /\ i \in s.entry.exists => s.entry.owner = i
  <2>1. Exclusive(t, i) => Exclusive(s, i)
    BY <1>1, <1>2, <1>6, <1>e DEF Exclusive, Evicts
  <2> QED BY <2>1 DEF DataInv, HolderOwns
<1>9. Keeps(s, t, i, c, e, new)
  BY <1>n, <1>2, <1>3, <1>4, <1>7, <1>8, <1>e DEF Keeps
<1> QED BY <1>5, <1>9, TakesFresh

\* PUT_ACK, and the line is asked for again.
LEMMA AsksAgainFresh ==
  ASSUME NEW l, NEW s, NEW t, LineInv(l, s), DataInv(s), NEW i \in L1s, NEW m \in s.msgs,
         LineAsksAgain(l, s, t, i, m)
  PROVE  DataInv(t)
<1> DEFINE u == Freed(s, i, m)
<1>1. LinePutAck(l, s, u, i, m) /\ (LineLoads(l, u, t, i) \/ LineAsksToStore(l, u, t, i))
  BY DEF LineAsksAgain
<1> HIDE DEF u
<1>2. LineInv(l, u) /\ DataInv(u)
  BY <1>1, PutAckKeeps, PutAckFresh
<1> QED BY <1>1, <1>2, LoadsFresh, AsksToStoreFresh

-----------------------------------------------------------------------------
(* A store.                                                                *)

\* While an L1 can write a line nobody else has data for it, and none are on their way,
\* but from that L1 itself to the one that takes the line over.
LEMMA WriterData ==
  ASSUME NEW l, NEW s, LineInv(l, s), DataInv(s), NEW i \in L1s, s.cache[i].st \in {"E", "M"}
  PROVE  /\ \A k \in L1s : (k # i => s.cache[k].st = "I") /\ ~Supplies(s, k)
         /\ \A m \in s.msgs : /\ m.type \notin {"GETS_RESP", "GETM_RESP", "GET_RESP_MEM"}
                              /\ WriteBack(m) => s.mshr[m.src].st = "ITOI"
                              /\ m.dst # MEM
         /\ i \notin s.entry.exists =>
              \E m \in s.msgs : m.type = "GETM_FORWARD" /\ m.dst = i /\ s.entry.exists = {m.arg}
<1>1. Exclusive(s, i) /\ Holds(s, i) /\ s.mshr[i].st = "-"
  BY DEF Exclusive, Holds, LineInv, OnePlace
<1>2. \A k \in L1s : Holds(s, k) => k = i
  BY WriterTakesAll
<1>3. i \notin s.entry.exists =>
        \E m \in s.msgs : m.type = "GETM_FORWARD" /\ m.dst = i /\ s.entry.exists = {m.arg}
  BY WriterTakesAll
<1>4. ASSUME NEW k \in L1s, s.mshr[k].hasData PROVE FALSE
  <2>1. s.entry.exists = {k} /\ s.mshr[k].st = "ITOM" /\ Engaged(s, k)
    BY <1>4 DEF DataInv, HolderOwns, LineInv, Collected
  <2>2. i \notin s.entry.exists
    BY <1>1, <2>1
  <2>3. PICK m \in s.msgs : m.type = "GETM_FORWARD" /\ m.dst = i
    BY <1>3, <2>2
  <2>4. Carrying(m) /\ Owing(m)
    BY <2>3, L1Facts DEF Carrying, Owing
  <2>5. Requester(m) = k
    BY <2>1, <2>4 DEF Engaged
  <2> QED BY <2>4, <2>5, <1>4 DEF LineInv, OneCarrier
<1>5. ASSUME NEW k \in L1s PROVE (k # i => s.cache[k].st = "I") /\ ~Supplies(s, k)
  <2>1. CASE k = i
    BY <2>1, <1>1, <1>4 DEF Supplies, Evicts, Leaving
  <2>2. CASE k # i
    BY <2>2, <1>2, <1>4 DEF Holds, Supplies
  <2> QED BY <2>1, <2>2
<1> QED BY <1>3, <1>5, WriterTakesAll

\* store: a hit.  Nothing anybody reads later has the old value.
LEMMA StoresFresh ==
  ASSUME NEW l, NEW s, NEW t, LineInv(l, s), DataInv(s), NEW i \in L1s, LineStores(l, s, t, i)
  PROVE  DataInv(t)
<1>1. /\ s.cache[i].st \in {"E", "M"}
      /\ t.cache = [s.cache EXCEPT ![i] = [st |-> "M", data |-> t.golden]]
      /\ t.mshr = [s.mshr EXCEPT ![i] = s.mshr[i]] /\ t.entry = s.entry /\ t.blk = s.blk /\ t.mem = s.mem
      /\ t.msgs = (s.msgs \ {}) \cup {}
  BY DEF LineStores, AtL1
<1>2. DOMAIN s.cache = L1s /\ DOMAIN s.mshr = L1s
  BY DEF LineInv, LineTypes
<1>3. /\ t.cache[i].st = "M" /\ t.cache[i].data = t.golden
      /\ \A k \in L1s : k # i => t.cache[k] = s.cache[k]
      /\ \A k \in L1s : t.mshr[k] = s.mshr[k]
      /\ t.msgs = s.msgs
  BY <1>1, <1>2
<1>4. /\ \A k \in L1s : (k # i => s.cache[k].st = "I") /\ ~Supplies(s, k)
      /\ \A m \in s.msgs : /\ m.type \notin {"GETS_RESP", "GETM_RESP", "GET_RESP_MEM"}
                           /\ WriteBack(m) => s.mshr[m.src].st = "ITOI"
                           /\ m.dst # MEM
  BY <1>1, WriterData
<1>5. \A k \in L1s : /\ Supplies(t, k) <=> Supplies(s, k)
                     /\ Exclusive(t, k) => Exclusive(s, k)
  BY <1>1, <1>3 DEF Supplies, Exclusive, Evicts, Asks, Granted
<1>6. FreshCopies(t)
  BY <1>3, <1>4, <1>5 DEF FreshCopies
<1>7. FreshMsgs(t)
  <2>1. \A m \in s.msgs : WriteBack(m) => m.src \in L1s
    BY About DEF WriteBack, WellFormed, Request
  <2> QED BY <1>3, <1>4, <2>1 DEF FreshMsgs
<1>8. HolderOwns(t)
  BY <1>1, <1>3, <1>5 DEF HolderOwns, DataInv
<1>9. s.entry.exists # {} /\ Responsible(t, s.entry.owner)
  <2>1. CASE i \in s.entry.exists
    <3>1. s.entry.owner = i
      BY <1>1, <2>1 DEF DataInv, HolderOwns, Exclusive
    <3> QED BY <2>1, <3>1, <1>3 DEF Responsible
  <2>2. CASE i \notin s.entry.exists
    <3>1. PICK m \in s.msgs : m.type = "GETM_FORWARD" /\ m.dst = i /\ s.entry.exists = {m.arg}
      BY <1>1, <2>2, WriterData
    <3>2. Client(m) = m.arg /\ ~Request(m)
      BY <3>1 DEF Client, Requester, Request
    <3>3. /\ m.arg \in L1s /\ s.entry.owner = m.arg
          /\ s.mshr[m.arg].st = "ITOM" /\ ~Asks(s, m.arg)
      BY <3>1, <3>2, About DEF LineInv, OwnerKnown, Clients, Expected, AskedFirst
    <3> QED BY <3>1, <3>3, <1>3 DEF Responsible, Asks
  <2> QED BY <2>1, <2>2
<1> QED BY <1>1, <1>6, <1>7, <1>8, <1>9 DEF DataInv, Sourced

-----------------------------------------------------------------------------
(* Steps of the LLC and of the memory node.                                *)

\* The LLC (or the memory node) takes m in and sends new, which is no request and has
\* what the last store wrote.
Directs(s, t, m, new) ==
  /\ m \in s.msgs
  /\ t.cache = s.cache /\ t.mshr = s.mshr /\ t.golden = s.golden /\ t.mem = s.mem
  /\ \A y : y \in t.msgs <=> (y \in s.msgs /\ y # m) \/ y \in new
  /\ \A x \in new : /\ ~Request(x)
                    /\ x.type \in {"GETS_RESP", "GETM_RESP", "GET_RESP_MEM"} => x.data = s.golden
                    /\ x.dst = MEM => s.mem = s.golden

\* The L1s have what they had; only the sender of m is not responsible any more.
LEMMA DirectsFacts ==
  ASSUME NEW s, NEW t, NEW m, NEW new, Directs(s, t, m, new), NEW k
  PROVE  /\ Supplies(t, k) => Supplies(s, k)
         /\ Asks(t, k) => Asks(s, k)
         /\ Exclusive(t, k) => Exclusive(s, k) \/ \E x \in new : Grant(x) /\ x.dst = k
         /\ Responsible(s, k) => Responsible(t, k) \/ (WriteBack(m) /\ m.src = k)
<1>1. Asks(t, k) => Asks(s, k)
  BY DEF Directs, Asks
<1>2. Supplies(t, k) => Supplies(s, k)
  BY <1>1 DEF Directs, Supplies, Evicts
<1>3. Granted(t, k) => Granted(s, k) \/ \E x \in new : Grant(x) /\ x.dst = k
  BY DEF Directs, Granted
<1>4. Exclusive(t, k) => Exclusive(s, k) \/ \E x \in new : Grant(x) /\ x.dst = k
  BY <1>1, <1>3 DEF Directs, Exclusive, Evicts
<1>5. Responsible(s, k) => Responsible(t, k) \/ (WriteBack(m) /\ m.src = k)
  BY <1>1 DEF Directs, Responsible
<1> QED BY <1>1, <1>2, <1>4, <1>5

LEMMA DirectsData ==
  ASSUME NEW s, NEW t, DataInv(s), NEW m, NEW new, Directs(s, t, m, new), Sourced(t), HolderOwns(t)
  PROVE  DataInv(t)
<1>1. FreshCopies(t)
  <2>1. \A k \in L1s : Supplies(t, k) => Supplies(s, k)
    BY DirectsFacts
  <2> QED BY <2>1 DEF Directs, DataInv, FreshCopies
<1>2. FreshMsgs(t)
  <2> SUFFICES ASSUME NEW y \in t.msgs
               PROVE  /\ y.type \in {"GETS_RESP", "GETM_RESP", "GET_RESP_MEM"} => y.data = s.golden
                      /\ WriteBack(y) /\ s.mshr[y.src].st # "ITOI" => y.data = s.golden
                      /\ y.dst = MEM => s.mem = s.golden
    BY DEF FreshMsgs, Directs
  <2>1. CASE y \in new
    BY <2>1 DEF Directs, WriteBack, Request
  <2>2. CASE y \in s.msgs
    BY <2>2 DEF DataInv, FreshMsgs
  <2> QED BY <2>1, <2>2 DEF Directs
<1> QED BY <1>1, <1>2 DEF DataInv

\* The line goes to L1 i, which alone is known then.
LEMMA OnlyOwns ==
  ASSUME NEW l, NEW s, NEW t, LineInv(l, s), ~s.owed, NEW m, NEW new, Directs(s, t, m, new),
         NEW i \in L1s, t.entry = Only(i)
  PROVE  HolderOwns(t)
<1>1. t.entry.exists = {i} /\ t.entry.owner = i
  BY DEF Only
<1>2. \A k \in L1s : ~t.mshr[k].hasData
  BY Quiet DEF Directs
<1> QED BY <1>1, <1>2 DEF HolderOwns

\* GETS and GETM of a line that no L1 has.
LEMMA FetchedFresh ==
  ASSUME NEW l, NEW s, NEW t, LineInv(l, s), DataInv(s), ~s.owed, NEW m \in s.msgs, Request(m),
         s.entry.exists = {}, t.blk = s.blk, t.mem = s.mem, NEW x, NEW owed,
         AtLLC(s, t, m, {x}, Only(m.arg), owed), ~Request(x),
         x.type \in {"GETS_RESP", "GETM_RESP", "GET_RESP_MEM"} => x.data = s.blk /\ s.blk # NotHere,
         x.dst = MEM => s.blk = NotHere
  PROVE  DataInv(t)
<1>1. Backed(s)
  BY DEF DataInv, Sourced
<1> DEFINE new == {x}
<1>2. /\ t.cache = s.cache /\ t.mshr = s.mshr /\ t.golden = s.golden /\ t.entry = Only(m.arg)
      /\ t.msgs = (s.msgs \ {m}) \cup new
  BY DEF AtLLC
<1>3. \A y \in new : y = x
  OBVIOUS
<1> HIDE DEF new
<1>4. Directs(s, t, m, new)
  BY <1>1, <1>2, <1>3 DEF Directs, Backed
<1>5. Sourced(t)
  BY <1>1, <1>2 DEF Sourced, Backed
<1>6. m.arg \in L1s
  BY RequesterIsServed
<1>7. HolderOwns(t)
  BY <1>2, <1>4, <1>6, OnlyOwns
<1> QED BY <1>4, <1>5, <1>7, DirectsData

\* GETS of a line that L1s have.
LEMMA ForwardedFresh ==
  ASSUME NEW l, NEW s, NEW t, LineInv(l, s), DataInv(s), NEW m \in s.msgs, m.type = "GETS", ~s.owed,
         s.entry.exists # {}, t.blk = s.blk, t.mem = s.mem,
         AtLLC(s, t, m, {FromLLC("GETS_FORWARD", REQ, s.entry.owner, l, m.arg, NoData)},
               With(s.entry, m.arg), TRUE)
  PROVE  DataInv(t)
<1> DEFINE x == FromLLC("GETS_FORWARD", REQ, s.entry.owner, l, m.arg, NoData)
           new == {x}
<1>x. x.type = "GETS_FORWARD" /\ x.dst = s.entry.owner
  BY MsgFacts DEF FromLLC
<1>1. /\ t.cache = s.cache /\ t.mshr = s.mshr /\ t.golden = s.golden
      /\ t.entry = With(s.entry, m.arg) /\ t.msgs = (s.msgs \ {m}) \cup new
  BY DEF AtLLC
<1>2. s.entry \in [exists : SUBSET L1s, owner : L1s, dirty : BOOLEAN]
  BY DEF LineInv, LineTypes
<1>3. t.entry.exists = s.entry.exists \cup {m.arg} /\ t.entry.owner = s.entry.owner /\ s.entry.owner \in L1s
  BY <1>1, <1>2 DEF With
<1>n. \A y \in new : y = x
  OBVIOUS
<1> HIDE DEF x, new
<1>4. Directs(s, t, m, new)
  BY <1>1, <1>x, <1>n, <1>3, L1Facts DEF Directs, Request
<1>5. \A k \in L1s : Exclusive(t, k) => Exclusive(s, k)
  BY <1>4, <1>x, <1>n, DirectsFacts DEF Grant
<1>6. Sourced(t)
  <2>1. Responsible(s, s.entry.owner) => Responsible(t, s.entry.owner)
    BY <1>4, DirectsFacts DEF WriteBack
  <2> QED BY <1>1, <1>3, <2>1 DEF Sourced, Backed, DataInv
<1>7. ~Exclusive(s, m.arg)
  <2>1. Request(m) /\ m.arg \in L1s /\ Client(m) = m.arg /\ Asks(s, m.arg)
    BY RequesterIsServed DEF Request, Client, Asks
  <2>2. s.mshr[m.arg].st = "ITOS"
    BY <2>1 DEF LineInv, Clients, Expected
  <2>3. ~Granted(s, m.arg)
    <3>1. \A y \in s.msgs : Grant(y) => ~Request(y) /\ y.type # "GET_ACK" /\ Client(y) = y.dst
      BY About DEF Grant
    <3> QED BY <2>1, <3>1 DEF Granted, LineInv, AskedFirst
  <2> QED BY <2>1, <2>2, <2>3 DEF Exclusive, Evicts, LineInv, OnePlace
<1>8. HolderOwns(t)
  <2>1. \A k \in L1s : ~t.mshr[k].hasData
    BY <1>1, Quiet
  <2> QED BY <1>3, <1>5, <1>7, <2>1 DEF HolderOwns, DataInv
<1> QED BY <1>4, <1>6, <1>8, DirectsData

LEMMA GetSFresh ==
  ASSUME NEW l, NEW s, NEW t, LineInv(l, s), DataInv(s), NEW m \in s.msgs, LineGetS(l, s, t, m)
  PROVE  DataInv(t)
<1>1. m.type = "GETS" /\ Request(m) /\ ~s.owed /\ t.blk = s.blk /\ t.mem = s.mem
  BY DEF LineGetS, Request
<1>2. CASE s.entry.exists # {}
  BY <1>1, <1>2, ForwardedFresh DEF LineGetS
<1>3. CASE s.entry.exists = {} /\ s.blk # NotHere
  <2> DEFINE x == FromLLC("GETS_RESP", RESP, m.arg, l, 0, s.blk)
  <2>1. AtLLC(s, t, m, {x}, Only(m.arg), FALSE)
    BY <1>3 DEF LineGetS
  <2>2. x.type = "GETS_RESP" /\ x.dst = m.arg /\ x.data = s.blk
    BY MsgFacts DEF FromLLC
  <2> HIDE DEF x
  <2>3. x.dst # MEM /\ ~Request(x)
    BY <1>1, <2>2, RequesterIsServed, L1Facts DEF Request
  <2> QED BY <1>1, <1>3, <2>1, <2>2, <2>3, FetchedFresh
<1>4. CASE s.entry.exists = {} /\ s.blk = NotHere
  <2> DEFINE x == FromLLC("GETS_FORWARD", REQ, MEM, l, m.arg, NoData)
  <2>1. AtLLC(s, t, m, {x}, Only(m.arg), TRUE)
    BY <1>4 DEF LineGetS
  <2>2. x.type = "GETS_FORWARD" /\ ~Request(x)
    BY MsgFacts DEF FromLLC, Request
  <2> HIDE DEF x
  <2> QED BY <1>1, <1>4, <2>1, <2>2, FetchedFresh
<1> QED BY <1>2, <1>3, <1>4

\* GETM of a line that L1s have: the new owner answers for it from now on.
LEMMA TakenOverFresh ==
  ASSUME NEW l, NEW s, NEW t, LineInv(l, s), DataInv(s), NEW m \in s.msgs, m.type = "GETM", ~s.owed,
         s.entry.exists # {}, t.mem = s.mem,
         AtLLC(s, t, m, MsgsForGetM(s.entry, l, m.arg), Only(m.arg), TRUE)
  PROVE  DataInv(t)
<1> DEFINE i == m.arg
           new == MsgsForGetM(s.entry, l, i)
<1>1. /\ t.cache = s.cache /\ t.mshr = s.mshr /\ t.golden = s.golden
      /\ t.entry = Only(i) /\ t.msgs = (s.msgs \ {m}) \cup new
  BY DEF AtLLC
<1>2. Request(m) /\ i \in L1s /\ i = m.src /\ Client(m) = i
  BY RequesterIsServed DEF Request, Client
<1>3. s.entry.exists \subseteq L1s /\ s.entry.owner \in L1s
  BY DEF LineInv, LineTypes
<1>4. \A x \in new : x.type \in {"INVALID", "GETM_FORWARD", "GETM_ACK"} /\ x.dst \in L1s
  <2> SUFFICES ASSUME NEW x \in new PROVE x.type \in {"INVALID", "GETM_FORWARD", "GETM_ACK"} /\ x.dst \in L1s
    OBVIOUS
  <2> DEFINE f == FromLLC("GETM_FORWARD", REQ, s.entry.owner, l, i, NoData)
             a == FromLLC("GETM_ACK", RESP, i, l, Cardinality(Invalidated(s.entry, i)), NoData)
  <2>1. /\ f.type = "GETM_FORWARD" /\ f.dst = s.entry.owner
        /\ a.type = "GETM_ACK" /\ a.dst = i
    BY MsgFacts DEF FromLLC
  <2>2. x = f \/ x = a \/ \E d \in Invalidated(s.entry, i) : x = FromLLC("INVALID", RESP, d, l, i, NoData)
    BY DEF MsgsForGetM
  <2> HIDE DEF f, a
  <2>3. \A d \in Invalidated(s.entry, i) : d \in L1s
    BY <1>3 DEF Invalidated
  <2>4. ASSUME NEW d \in Invalidated(s.entry, i), x = FromLLC("INVALID", RESP, d, l, i, NoData)
        PROVE  x.type = "INVALID" /\ x.dst \in L1s
    BY <2>3, <2>4, MsgFacts DEF FromLLC
  <2> QED BY <1>2, <1>3, <2>1, <2>2, <2>4
<1> HIDE DEF new, i
<1>5. Directs(s, t, m, new)
  BY <1>1, <1>4, L1Facts DEF Directs, Request
<1>6. HolderOwns(t)
  BY <1>1, <1>2, <1>5, OnlyOwns
<1>7. ~Asks(t, i)
  <2> SUFFICES ASSUME NEW y \in t.msgs, Request(y), y.src = i PROVE FALSE
    BY DEF Asks
  <2>1. y \in s.msgs /\ y # m
    BY <1>5 DEF Directs
  <2> QED BY <2>1, <1>2 DEF LineInv, OneRequest
<1>8. Sourced(t)
  <2>1. s.mshr[i].st \in {"ITOM", "STOM", "OTOM"}
    BY <1>2 DEF LineInv, Clients, Expected
  <2>2. Responsible(t, i)
    BY <1>1, <1>7, <2>1 DEF Responsible
  <2>3. t.entry.exists = {i} /\ t.entry.owner = i
    BY <1>1 DEF Only
  <2> QED BY <2>2, <2>3 DEF Sourced
<1> QED BY <1>5, <1>6, <1>8, DirectsData

LEMMA GetMFresh ==
  ASSUME NEW l, NEW s, NEW t, LineInv(l, s), DataInv(s), NEW m \in s.msgs, LineGetM(l, s, t, m)
  PROVE  DataInv(t)
<1>1. m.type = "GETM" /\ Request(m) /\ ~s.owed /\ t.mem = s.mem /\ (s.entry.exists = {} => t.blk = s.blk)
  BY DEF LineGetM, Request
<1>2. CASE s.entry.exists # {}
  BY <1>1, <1>2, TakenOverFresh DEF LineGetM
<1>3. CASE s.entry.exists = {} /\ s.blk # NotHere
  <2> DEFINE x == FromLLC("GETM_RESP", RESP, m.arg, l, 1, s.blk)
  <2>1. AtLLC(s, t, m, {x}, Only(m.arg), FALSE)
    BY <1>3 DEF LineGetM
  <2>2. x.type = "GETM_RESP" /\ x.dst = m.arg /\ x.data = s.blk
    BY MsgFacts DEF FromLLC
  <2> HIDE DEF x
  <2>3. x.dst # MEM /\ ~Request(x)
    BY <1>1, <2>2, RequesterIsServed, L1Facts DEF Request
  <2> QED BY <1>1, <1>3, <2>1, <2>2, <2>3, FetchedFresh
<1>4. CASE s.entry.exists = {} /\ s.blk = NotHere
  <2> DEFINE x == FromLLC("GETM_FORWARD", REQ, MEM, l, m.arg, NoData)
  <2>1. AtLLC(s, t, m, {x}, Only(m.arg), TRUE)
    BY <1>4 DEF LineGetM
  <2>2. x.type = "GETM_FORWARD" /\ ~Request(x)
    BY MsgFacts DEF FromLLC, Request
  <2> HIDE DEF x
  <2> QED BY <1>1, <1>4, <2>1, <2>2, FetchedFresh
<1> QED BY <1>2, <1>3, <1>4

\* A PUT of an L1 that is not the owner leaves the owner of a clean line.
LEMMA CleanedOwner ==
  ASSUME NEW e \in [exists : SUBSET L1s, owner : L1s, dirty : BOOLEAN], NEW i \in L1s,
         e.owner \in e.exists, e.owner # i
  PROVE  CleanedBy(e, i).owner = e.owner
<1> DEFINE r == Without(e, i)
<1>1. r.exists = e.exists \ {i} /\ r.owner = e.owner
  BY DEF Without
<1>2. r.exists # {}
  BY <1>1
<1>3. CleanedBy(e, i) = Entered(IF i = r.owner THEN HandedOver(r) ELSE r)
  BY DEF CleanedBy
<1> HIDE DEF r
<1> QED BY <1>1, <1>2, <1>3 DEF Entered

\* The sender of a PUT that the LLC serves.
LEMMA PutServed ==
  ASSUME NEW l, NEW s, LineInv(l, s), ~s.owed, NEW m \in s.msgs, m.type \in Puts
  PROVE  /\ m.arg = m.src /\ m.src \in L1s /\ s.cache[m.src].st = "I" /\ s.mshr[m.src].st \in Leaving
         /\ m.src \in s.entry.exists => s.mshr[m.src].st # "ITOI"
         /\ ~WriteBack(m) => ~Responsible(s, m.src)
         /\ s.entry \in [exists : SUBSET L1s, owner : L1s, dirty : BOOLEAN]
         /\ s.entry.exists # {} => s.entry.owner \in s.entry.exists
         /\ \A k \in L1s : ~s.mshr[k].hasData
<1>1. Request(m) /\ m.arg = m.src /\ m.src \in L1s /\ Client(m) = m.src /\ Asks(s, m.src)
  BY RequesterIsServed DEF Request, Client, Asks, Puts
<1>2. s.mshr[m.src].st \in Leaving /\ s.cache[m.src].st = "I"
  BY <1>1 DEF LineInv, Clients, Expected, OnePlace, Leaving
<1>3. ~Granted(s, m.src)
  <2>1. \A y \in s.msgs : Grant(y) => ~Request(y) /\ y.type # "GET_ACK" /\ Client(y) = y.dst
    BY About DEF Grant
  <2> QED BY <1>1, <2>1 DEF Granted, LineInv, AskedFirst
<1>4. m.src \in s.entry.exists => s.mshr[m.src].st # "ITOI"
  <2>1. m.src \in s.entry.exists => Holds(s, m.src)
    BY <1>1, Quiet
  <2> QED BY <2>1, <1>2, <1>3 DEF Holds, Evicts
<1>5. ~WriteBack(m) => ~Responsible(s, m.src)
  <2>1. \A y \in s.msgs : WriteBack(y) /\ y.src = m.src => y = m
    BY <1>1 DEF WriteBack, Request, LineInv, OneRequest
  <2> QED BY <1>2, <2>1 DEF Responsible, Leaving
<1>6. /\ s.entry \in [exists : SUBSET L1s, owner : L1s, dirty : BOOLEAN]
      /\ s.entry.exists # {} => s.entry.owner \in s.entry.exists
  BY DEF LineInv, LineTypes, OwnerKnown
<1>7. \A k \in L1s : ~s.mshr[k].hasData
  BY Quiet
<1> QED BY <1>1, <1>2, <1>4, <1>5, <1>6, <1>7

\* PUT_ACK goes back, and it is all that a PUT sends: nobody is asked or given anything.
LEMMA PutDirects ==
  ASSUME NEW l, NEW s, NEW t, NEW m, NEW entry, NEW new, NEW i \in L1s, t.mem = s.mem,
         AtLLC(s, t, m, new, entry, FALSE), new = {FromLLC("PUT_ACK", ACK, i, l, 0, NoData)}
  PROVE  Directs(s, t, m, new)
<1> DEFINE x == FromLLC("PUT_ACK", ACK, i, l, 0, NoData)
<1>1. x.type = "PUT_ACK" /\ x.dst = i
  BY MsgFacts DEF FromLLC
<1>2. /\ m \in s.msgs /\ t.cache = s.cache /\ t.mshr = s.mshr /\ t.golden = s.golden
      /\ t.msgs = (s.msgs \ {m}) \cup new
  BY DEF AtLLC
<1>3. \A y \in new : y = x
  OBVIOUS
<1> HIDE DEF x
<1> QED BY <1>1, <1>2, <1>3, L1Facts DEF Directs, Request

LEMMA PutGrantsNothing ==
  ASSUME NEW l, NEW i, NEW new, new = {FromLLC("PUT_ACK", ACK, i, l, 0, NoData)}
  PROVE  \A y \in new : ~Grant(y)
BY MsgFacts DEF FromLLC, Grant

LEMMA DirectedExclusive ==
  ASSUME NEW s, NEW t, NEW m, NEW new, Directs(s, t, m, new), \A y \in new : ~Grant(y)
  PROVE  \A k \in L1s : Exclusive(t, k) => Exclusive(s, k)
BY DirectsFacts

\* PUTS and PUTE: the sender is not responsible for the data.
LEMMA PutCleanFresh ==
  ASSUME NEW l, NEW s, NEW t, LineInv(l, s), DataInv(s), NEW m \in s.msgs, LinePutClean(l, s, t, m)
  PROVE  DataInv(t)
<1> DEFINE i == m.arg
           left == CleanedBy(s.entry, i)
           new == {FromLLC("PUT_ACK", ACK, i, l, 0, NoData)}
<1>1. /\ m.type \in Puts /\ ~WriteBack(m) /\ ~s.owed /\ t.blk = s.blk /\ t.mem = s.mem
      /\ AtLLC(s, t, m, new, left, FALSE)
  BY DEF LinePutClean, Puts, WriteBack
<1>2. /\ i = m.src /\ i \in L1s /\ ~Responsible(s, i)
      /\ s.entry \in [exists : SUBSET L1s, owner : L1s, dirty : BOOLEAN]
      /\ s.entry.exists # {} => s.entry.owner \in s.entry.exists
      /\ \A k \in L1s : ~s.mshr[k].hasData
  BY <1>1, PutServed
<1>3. left.exists = s.entry.exists \ {i}
  BY <1>2, LeftEntry
<1>4. s.entry.exists # {} /\ s.entry.owner # i => left.owner = s.entry.owner
  BY <1>2, CleanedOwner
<1>5. t.entry = left /\ t.mshr = s.mshr /\ t.golden = s.golden
  BY <1>1 DEF AtLLC
<1>a. new = {FromLLC("PUT_ACK", ACK, i, l, 0, NoData)}
  OBVIOUS
<1> HIDE DEF i, left, new
<1>b. Directs(s, t, m, new)
  BY <1>1, <1>2, <1>a, PutDirects
<1>c. \A y \in new : ~Grant(y)
  BY <1>a, PutGrantsNothing
<1>d. \A k \in L1s : Exclusive(t, k) => Exclusive(s, k)
  BY <1>b, <1>c, DirectedExclusive
<1>6. Sourced(t)
  <2>1. CASE Backed(s)
    BY <2>1, <1>1, <1>5 DEF Sourced, Backed
  <2>2. CASE s.entry.exists # {} /\ Responsible(s, s.entry.owner)
    <3>1. s.entry.owner # i /\ s.entry.owner \in L1s
      BY <1>2, <2>2
    <3>2. Responsible(t, s.entry.owner)
      BY <1>1, <1>b, <2>2, DirectsFacts
    <3>3. left.exists # {}
      BY <1>2, <1>3, <2>2, <3>1
    <3> QED BY <1>4, <1>5, <2>2, <3>1, <3>2, <3>3 DEF Sourced
  <2> QED BY <2>1, <2>2 DEF DataInv, Sourced
<1>7. HolderOwns(t)
  <2>1. ASSUME NEW k \in L1s, Exclusive(t, k), k \in left.exists PROVE left.owner = k
    <3>1. k \in s.entry.exists /\ k # i
      BY <1>3, <2>1
    <3>2. s.entry.owner = k
      BY <3>1, <2>1, <1>d DEF DataInv, HolderOwns
    <3> QED BY <3>1, <3>2, <1>4
  <2> QED BY <2>1, <1>2, <1>5 DEF HolderOwns
<1> QED BY <1>b, <1>6, <1>7, DirectsData

\* PUTM and PUTO: from the owner, the last data; from another, nothing changes but that
\* it is not known any more.
LEMMA PutDirtyFresh ==
  ASSUME NEW l, NEW s, NEW t, LineInv(l, s), DataInv(s), NEW m \in s.msgs, LinePutDirty(l, s, t, m),
         ~StaleWriteBack(l, s, t)
  PROVE  DataInv(t)
<1> DEFINE i == m.arg
           left == WrittenBy(s.entry, i)
           new == {FromLLC("PUT_ACK", ACK, i, l, 0, NoData)}
<1>1. /\ m.type \in Puts /\ WriteBack(m) /\ ~s.owed /\ s.entry.exists # {} /\ t.mem = s.mem
      /\ t.blk = (IF s.entry.owner = i THEN m.data ELSE s.blk)
      /\ AtLLC(s, t, m, new, left, FALSE)
  BY DEF LinePutDirty, Puts, WriteBack
<1>2. /\ i = m.src /\ i \in L1s /\ (i \in s.entry.exists => s.mshr[i].st # "ITOI")
      /\ s.entry \in [exists : SUBSET L1s, owner : L1s, dirty : BOOLEAN]
      /\ s.entry.owner \in s.entry.exists
      /\ \A k \in L1s : ~s.mshr[k].hasData
  BY <1>1, PutServed
<1>3. left.exists = s.entry.exists \ {i}
  BY <1>2, LeftEntry
<1>5. t.entry = left /\ t.mshr = s.mshr /\ t.golden = s.golden
  BY <1>1 DEF AtLLC
<1>a. new = {FromLLC("PUT_ACK", ACK, i, l, 0, NoData)}
  OBVIOUS
<1>4. s.entry.owner # i => left.owner = s.entry.owner
  BY <1>5 DEF StaleWriteBack
<1> HIDE DEF i, left, new
<1>b. Directs(s, t, m, new)
  BY <1>1, <1>2, <1>a, PutDirects
<1>c. \A y \in new : ~Grant(y)
  BY <1>a, PutGrantsNothing
<1>d. \A k \in L1s : Exclusive(t, k) => Exclusive(s, k)
  BY <1>b, <1>c, DirectedExclusive
<1>6. Sourced(t)
  <2>1. CASE s.entry.owner = i
    <3>1. m.data = s.golden
      BY <1>1, <1>2, <2>1 DEF DataInv, FreshMsgs
    <3>2. m.data # NotHere
      BY About, DataAssumption DEF WellFormed, Data, NotHere
    <3> QED BY <1>1, <1>5, <2>1, <3>1, <3>2 DEF Sourced, Backed
  <2>2. CASE s.entry.owner # i /\ Backed(s)
    BY <2>2, <1>1, <1>5 DEF Sourced, Backed
  <2>3. CASE s.entry.owner # i /\ Responsible(s, s.entry.owner)
    <3>1. Responsible(t, s.entry.owner)
      BY <1>2, <1>b, <2>3, DirectsFacts
    <3>2. left.exists # {}
      BY <1>2, <1>3, <2>3
    <3> QED BY <1>4, <1>5, <2>3, <3>1, <3>2 DEF Sourced
  <2> QED BY <2>1, <2>2, <2>3 DEF DataInv, Sourced
<1>7. HolderOwns(t)
  <2>1. ASSUME NEW k \in L1s, Exclusive(t, k), k \in left.exists PROVE left.owner = k
    <3>1. k \in s.entry.exists /\ k # i
      BY <1>3, <2>1
    <3>2. s.entry.owner = k
      BY <3>1, <2>1, <1>d DEF DataInv, HolderOwns
    <3> QED BY <3>1, <3>2, <1>4
  <2> QED BY <2>1, <1>2, <1>5 DEF HolderOwns
<1> QED BY <1>b, <1>6, <1>7, DirectsData

\* What comes neither from a PUT nor from a request of the directory leaves its entry.
LEMMA EntryStaysFresh ==
  ASSUME NEW s, NEW t, DataInv(s), NEW m, NEW new, Directs(s, t, m, new), ~WriteBack(m),
         t.entry = s.entry, t.blk = s.blk, \A x \in new : ~Grant(x)
  PROVE  DataInv(t)
<1>1. Sourced(t)
  <2>1. Responsible(s, s.entry.owner) => Responsible(t, s.entry.owner)
    BY DirectsFacts
  <2> QED BY <2>1 DEF Directs, Sourced, Backed, DataInv
<1>2. HolderOwns(t)
  <2>1. \A k \in L1s : Exclusive(t, k) => Exclusive(s, k)
    BY DirectsFacts
  <2> QED BY <2>1 DEF Directs, HolderOwns, DataInv
<1> QED BY <1>1, <1>2, DirectsData

LEMMA UnlockedFresh ==
  ASSUME NEW l, NEW s, NEW t, LineInv(l, s), DataInv(s), NEW m \in s.msgs, LineUnlocked(l, s, t, m)
  PROVE  DataInv(t)
<1> DEFINE new == {}
<1>1. /\ m.type = "GET_ACK" /\ t.blk = s.blk /\ t.mem = s.mem
      /\ t.cache = s.cache /\ t.mshr = s.mshr /\ t.golden = s.golden
      /\ t.entry = s.entry /\ t.msgs = (s.msgs \ {m}) \cup new
  BY DEF LineUnlocked, AtLLC
<1>2. \A y : y \notin new
  OBVIOUS
<1> HIDE DEF new
<1>3. Directs(s, t, m, new)
  BY <1>1, <1>2 DEF Directs
<1> QED BY <1>1, <1>2, <1>3, EntryStaysFresh DEF WriteBack

LEMMA FromMemoryFresh ==
  ASSUME NEW l, NEW s, NEW t, LineInv(l, s), DataInv(s), NEW m \in s.msgs, LineFromMemory(l, s, t, m)
  PROVE  DataInv(t)
<1> DEFINE x == Msg("GET_RESP_MEM", RESP, MEM, m.arg, l, 0, s.mem)
           new == {x}
<1>x. x.type = "GET_RESP_MEM" /\ x.dst = m.arg /\ x.data = s.mem
  BY MsgFacts
<1>1. /\ m.type \in {"GETS_FORWARD", "GETM_FORWARD"} /\ m.dst = MEM /\ t.blk = s.blk /\ t.mem = s.mem
      /\ t.cache = s.cache /\ t.mshr = s.mshr /\ t.golden = s.golden
      /\ t.entry = s.entry /\ t.msgs = (s.msgs \ {m}) \cup new
  BY DEF LineFromMemory, AtLLC
<1>2. s.mem = s.golden /\ m.arg \in L1s
  BY <1>1, About DEF DataInv, FreshMsgs, WellFormed
<1>n. \A y \in new : y = x
  OBVIOUS
<1> HIDE DEF x, new
<1>3. \A y \in new : /\ ~Request(y) /\ ~Grant(y) /\ y.dst # MEM /\ y.data = s.golden
  BY <1>x, <1>n, <1>2, L1Facts DEF Request, Grant
<1>4. Directs(s, t, m, new)
  BY <1>1, <1>3 DEF Directs
<1> QED BY <1>1, <1>3, <1>4, EntryStaysFresh DEF WriteBack

-----------------------------------------------------------------------------
(* All together.                                                           *)

\* Whatever step a line makes, its copies stay fresh.
LEMMA LineStaysFresh ==
  ASSUME NEW l, NEW s, NEW t, LineInv(l, s), DataInv(s), LineStep(l, s, t), ~StaleWriteBack(l, s, t)
  PROVE  DataInv(t)
<1>1. CASE \E i \in L1s : LineLoads(l, s, t, i) \/ LineStores(l, s, t, i)
                          \/ LineAsksToStore(l, s, t, i) \/ LineEvicted(l, s, t, i)
  BY <1>1, LoadsFresh, StoresFresh, AsksToStoreFresh, EvictedFresh
<1>2. CASE \E i \in L1s, m \in s.msgs :
             \/ LineInvalid(l, s, t, i, m) \/ LineInvalidAck(l, s, t, i, m)
             \/ LineGetMAck(l, s, t, i, m) \/ LineGetSForward(l, s, t, i, m)
             \/ LineGetMForward(l, s, t, i, m) \/ LineGetSResp(l, s, t, i, m)
             \/ LineGetMResp(l, s, t, i, m) \/ LineGetRespMem(l, s, t, i, m)
             \/ LinePutAck(l, s, t, i, m) \/ LineAsksAgain(l, s, t, i, m)
  BY <1>2, InvalidFresh, InvalidAckFresh, GetMAckFresh, GetSForwardFresh, GetMForwardFresh,
     GetSRespFresh, GetMRespFresh, GetRespMemFresh, PutAckFresh, AsksAgainFresh
<1>3. CASE \E m \in s.msgs :
             \/ LineGetS(l, s, t, m) \/ LineGetM(l, s, t, m)
             \/ LinePutClean(l, s, t, m) \/ LinePutDirty(l, s, t, m)
             \/ LineUnlocked(l, s, t, m) \/ LineFromMemory(l, s, t, m)
  BY <1>3, GetSFresh, GetMFresh, PutCleanFresh, PutDirtyFresh, UnlockedFresh, FromMemoryFresh
<1> QED BY <1>1, <1>2, <1>3 DEF LineStep

\* Every line does.
LEMMA LinesStayFresh ==
  ASSUME LinesInv, LinesFresh, LinesMove, NoStaleWriteBack
  PROVE  LinesFresh'
<1> SUFFICES ASSUME NEW l \in Lines PROVE DataInv(View(l)')
  BY DEF LinesFresh
<1> DEFINE s == View(l)
           t == View(l)'
<1>1. LineInv(l, s) /\ DataInv(s) /\ (t = s \/ LineStep(l, s, t)) /\ ~StaleWriteBack(l, s, t)
  BY DEF LinesInv, LinesFresh, LinesMove, NoStaleWriteBack
<1> HIDE DEF s, t
<1>2. DataInv(t)
  BY <1>1, LineStaysFresh
<1> QED BY <1>2 DEF t

\* Nobody has anything at first, and memory has all.
LEMMA FreshAtFirst == Init => LinesFresh
<1> SUFFICES ASSUME Init, NEW l \in Lines PROVE DataInv(View(l))
  BY DEF LinesFresh
<1> DEFINE s == View(l)
<1>1. Still(s)
  BY InitStill
<1> HIDE DEF s
<1>2. /\ s.msgs = {} /\ s.entry.exists = {} /\ s.blk = NotHere /\ s.mem = 0 /\ s.golden = 0
      /\ \A i \in L1s : s.cache[i].st = "I" /\ s.mshr[i].st = "-" /\ ~s.mshr[i].hasData
  BY <1>1, NoEntryFacts DEF Still, Absent, NoMSHR
<1>3. FreshCopies(s) /\ FreshMsgs(s)
  BY <1>2 DEF FreshCopies, FreshMsgs, Supplies, Evicts, Leaving
<1>4. Sourced(s) /\ HolderOwns(s)
  BY <1>2 DEF Sourced, Backed, HolderOwns
<1>5. DataInv(s)
  BY <1>3, <1>4 DEF DataInv
<1> QED BY <1>5 DEF s

\* Fresh copies are what loads hit.
LEMMA FreshReads == LinesFresh => ReadsLatest
<1> SUFFICES ASSUME LinesFresh, NEW l \in Lines, NEW i \in L1s
             PROVE  /\ block[i][l].st # "I" => block[i][l].data = golden[l]
                    /\ mshr[i][l].st \in {"STOM", "OTOM"} => mshr[i][l].data = golden[l]
  BY DEF ReadsLatest
<1> DEFINE s == View(l)
<1>1. /\ DataInv(s) /\ s.golden = golden[l]
      /\ s.cache[i] = block[i][l] /\ s.mshr[i] = mshr[i][l]
  BY ViewFacts, ViewAt DEF LinesFresh
<1> HIDE DEF s
<1> QED BY <1>1 DEF DataInv, FreshCopies, Supplies

\* No load ever hits a stale copy, for any number of caches and lines, any order of
\* messages and any evictions of the L1s, as long as the LLC replaces no block and takes the
\* owner of a line from nobody but the owner (lastlevelcache.cpp, p2_index on PUTM and PUTO
\* and p4_writeback): the data of the last store are always with the owner, in the block
\* array, in memory, or on their way between them.
THEOREM ReadsAreLatest == UnreplacedSpec /\ [][NoStaleWriteBack]_vars => []ReadsLatest
<1>1. MoesiInv /\ LinesFresh /\ [Next /\ ~IndexPutReplacing]_vars /\ [NoStaleWriteBack]_vars => LinesFresh'
  <2> SUFFICES ASSUME MoesiInv, LinesFresh, [Next /\ ~IndexPutReplacing]_vars, [NoStaleWriteBack]_vars
               PROVE  LinesFresh'
    OBVIOUS
  <2>1. LinesMove /\ LinesInv
    BY NextKeeps DEF Kept, MoesiInv
  <2>2. CASE NoStaleWriteBack
    BY <2>1, <2>2, LinesStayFresh
  <2>3. CASE UNCHANGED vars
    <3>1. \A l \in Lines : View(l)' = View(l)
      BY <2>3, Unmoved DEF vars, l1Vars
    <3> QED BY <3>1 DEF LinesFresh
  <2> QED BY <2>2, <2>3
<1> QED BY <1>1, MoesiInvariant, FreshAtFirst, FreshReads, PTL DEF UnreplacedSpec

\* The owner of a line, an L1 whose write-back is late, and one more holder, to whom the
\* line would be handed: with two L1s no write-back is stale.
LEMMA TwoNeverStale ==
  ASSUME NumL1 <= 2, NEW l, NEW s, NEW t, LineInv(l, s)
  PROVE  ~StaleWriteBack(l, s, t)
<1> SUFFICES ASSUME NEW m \in s.msgs, LinePutDirty(l, s, t, m), m.arg # s.entry.owner,
                    t.entry.owner # s.entry.owner
             PROVE  FALSE
  BY DEF StaleWriteBack
<1>1. /\ m.type \in Puts /\ ~s.owed /\ s.entry.exists # {} /\ t.entry = WrittenBy(s.entry, m.arg)
  BY DEF LinePutDirty, AtLLC, Puts
<1>2. /\ m.arg \in L1s /\ s.entry \in [exists : SUBSET L1s, owner : L1s, dirty : BOOLEAN]
      /\ s.entry.owner \in s.entry.exists
  BY <1>1, PutServed
<1>3. /\ t.entry.exists = s.entry.exists \ {m.arg}
      /\ t.entry.exists # {} => t.entry.owner \in t.entry.exists
  BY <1>1, <1>2, LeftEntry
<1>4. t.entry.owner \in L1s /\ t.entry.owner # m.arg /\ s.entry.owner \in L1s
  BY <1>2, <1>3
<1> QED BY <1>2, <1>4, NumL1Assumption DEF L1s

\* With two L1s and a way of the block array for every line nothing more is needed: all of
\* Spec reads what was stored last, as in the run MoesiEvict.
COROLLARY TwoReadLatest ==
  ASSUME NumL1 <= 2, RoomForAll
  PROVE  Spec => []ReadsLatest
<1>1. MoesiInv => NoStaleWriteBack
  BY TwoNeverStale DEF MoesiInv, LinesInv, NoStaleWriteBack
<1> QED BY <1>1, RoomSuffices, MoesiInvariant, ReadsAreLatest, PTL DEF UnreplacedSpec
=============================================================================
