--------------------------- MODULE PrivNodeProofs ---------------------------
(***************************************************************************)
(* The private L2 and its two L1s as client of the directory (PrivL1L2):   *)
(* what a node keeps of itself, whatever it is sent; that this makes the   *)
(* L2 include the L1s; and that the directory sees a node act as one of    *)
(* the L1s of MoesiL1, line by line, and so what MoesiProofs shows of them *)
(* holds of the nodes.                                                     *)
(*                                                                         *)
(* For the latter the variables of MoesiL1 say what the directory sees of  *)
(* the nodes (Mapped).  PrivProofs gives them that value.                  *)
(***************************************************************************)
EXTENDS MoesiProofs, PrivL1L2
-----------------------------------------------------------------------------
(* What a node keeps of itself, whatever the directory sends it.           *)

\* Messages that find a handler where they go.
ForL1 == {"INVALID", "INVALID_ACK", "GETM_ACK", "GETS_FORWARD", "GETM_FORWARD", "GETS_RESP",
          "GETM_RESP", "GET_RESP_MEM", "PUT_ACK"}
Routed(m) ==
  /\ m.dst \in L1s => m.type \in ForL1
  /\ m.type \in {"GETS_FORWARD", "GETM_FORWARD"} => m.arg \in L1s
  /\ m.type = "INVALID" => m.arg \in L1s \cup {LLC}
  /\ Request(m) /\ m.dst = LLC => m.arg \in L1s
RoutedTo(d) == {m \in Message : m.dst = d /\ Routed(m)}
Outs == {out \in [Nodes -> Seq(Message)] : \A d \in Nodes : out[d] \in Seq(RoutedTo(d))}

PrivFlags == {"D", "W", "I"}
Line2 == [st : CacheStates, data : Data, flag : SUBSET PrivFlags]
Entry2 == [st : MSHRStates, data : Data, flag : SUBSET PrivFlags, finish : SUBSET {"I", "S", "M"},
           hasData : BOOLEAN, hasNeed : BOOLEAN, need : Nat, acks : Nat]
Line1 == [in : BOOLEAN, write : BOOLEAN, dirty : BOOLEAN, data : Data]
Request1 == {r \in [type : {"none", "GETS", "GETM"}, line : Lines \cup {0}, indexing : BOOLEAN] :
               r.type # "none" => r.line \in Lines}
Node == [l2 : [Lines -> Line2], mshr : [Lines -> Entry2], l1d : [Lines -> Line1], l1i : SUBSET Lines,
         dreq : Request1, ireq : Request1, queue : Seq(Lines), reserved : Lines \cup {0},
         out : Outs, aborts : BOOLEAN]

\* What it does with an upgrade, and with a line the data cache waits for, is up to the
\* request of the data cache, which stays until the line comes.
Awaited(e, req, k) ==
  /\ e.st \in {"STOM", "OTOM"} => req.type = "GETM" /\ req.line = k /\ "D" \in e.flag
  /\ "D" \in e.flag \/ e.finish \cap {"S", "M"} # {} => req.type # "none" /\ req.line = k
\* The data cache has of a line what the L2 has, and more only if it may write.
Copied(c, e, d) ==
  /\ "D" \in c.flag => d.in
  /\ d.dirty => d.write
  /\ d.write => c.st \in {"E", "M"}
  /\ d.in /\ ~d.dirty => d.data = IF c.st # "I" THEN c.data ELSE e.data
Lacking(d, req, k) ==
  /\ req.type = "GETS" /\ req.line = k => ~d.in
  /\ req.type = "GETM" /\ req.line = k => ~d.write
LineOK(n, k) ==
  /\ n.l2[k].st = "I" => n.l2[k] = NoL2
  /\ n.mshr[k].st = "-" => n.mshr[k] = NoEntryL2
  /\ ~n.l1d[k].in => n.l1d[k] = NoL1D
  /\ n.l2[k].st # "I" => n.mshr[k].st = "-"
  /\ n.l1d[k].in => Included(n, k, "D")
  /\ k \in n.l1i => Included(n, k, "I")
  /\ Copied(n.l2[k], n.mshr[k], n.l1d[k])
  /\ Lacking(n.l1d[k], n.dreq, k)
  /\ n.reserved = k => n.l1d[k].in
  /\ Awaited(n.mshr[k], n.dreq, k)
NodeInv(n) == n \in Node /\ \A k \in Lines : LineOK(n, k)

\* The line as the directory sees it, where the data cache keeps its stores to itself.
BlockOf(n, l) ==
  IF n.l1d[l].dirty THEN [st |-> "M", data |-> n.l1d[l].data]
  ELSE [st |-> n.l2[l].st, data |-> n.l2[l].data]
MshrOf(n, l) ==
  [st |-> n.mshr[l].st, data |-> n.mshr[l].data, hasData |-> n.mshr[l].hasData,
   hasNeed |-> n.mshr[l].hasNeed, need |-> n.mshr[l].need, acks |-> n.mshr[l].acks]

\* The fields of a node.
LEMMA NodeFields ==
  ASSUME NEW n \in Node
  PROVE  /\ n.l2 \in [Lines -> Line2] /\ n.mshr \in [Lines -> Entry2] /\ n.l1d \in [Lines -> Line1]
         /\ n.l1i \subseteq Lines /\ n.dreq \in Request1 /\ n.ireq \in Request1 /\ n.queue \in Seq(Lines)
         /\ n.reserved \in Lines \cup {0} /\ n.out \in Outs /\ n.aborts \in BOOLEAN
  BY DEF Node

\* A node's reservation ends, or it does not.
LEMMA EndsFields ==
  ASSUME NEW n \in Node, NEW v
  PROVE  LET b == Ends(n, v) IN
         /\ b \in Node
         /\ b.l2 = n.l2 /\ b.mshr = n.mshr /\ b.l1d = n.l1d /\ b.l1i = n.l1i /\ b.dreq = n.dreq
         /\ b.ireq = n.ireq /\ b.queue = n.queue /\ b.out = n.out /\ (b.aborts <=> n.aborts)
         /\ b.reserved = IF n.reserved = v THEN 0 ELSE n.reserved
  BY DEF Ends, Node

\* The fields after an insertion into the data cache.
LEMMA InsertedDFree ==
  ASSUME NEW n \in Node, NEW l \in Lines, NEW data \in Data, NEW w \in BOOLEAN
  PROVE  LET b == insert_to_l1d(n, l, data, w, 0) IN
         /\ b \in Node
         /\ b.l2 = n.l2 /\ b.mshr = n.mshr /\ b.l1i = n.l1i /\ b.ireq = n.ireq /\ b.queue = n.queue 
         /\ b.reserved = n.reserved /\ b.out = n.out /\ (b.aborts <=> n.aborts)
         /\ b.l1d = [n.l1d EXCEPT ![l] = [in |-> TRUE, write |-> w, dirty |-> FALSE, data |-> data]]
         /\ b.dreq = Answered(n.dreq, l, w)
<1> DEFINE one == [in |-> TRUE, write |-> w, dirty |-> FALSE, data |-> data]
           r == Answered(n.dreq, l, w)
           b == [n EXCEPT !.dreq = r, !.l1d[l] = one]
<1>1. one \in Line1 /\ r \in Request1
  BY NodeFields DEF Answered, Line1, Request1, NoReq
<1>2. insert_to_l1d(n, l, data, w, 0) = b
  BY PrivAssumption DEF insert_to_l1d
<1> HIDE DEF one, r
<1>3. /\ b \in Node
      /\ b.l2 = n.l2 /\ b.mshr = n.mshr /\ b.l1i = n.l1i /\ b.ireq = n.ireq /\ b.queue = n.queue 
      /\ b.reserved = n.reserved /\ b.out = n.out /\ (b.aborts <=> n.aborts)
      /\ b.l1d = [n.l1d EXCEPT ![l] = one] /\ b.dreq = r
  BY <1>1 DEF Node
<1> HIDE DEF b
<1> QED BY <1>2, <1>3 DEF one, r

\* The same where the line v goes.
LEMMA InsertedDFull ==
  ASSUME NEW n \in Node, NEW l \in Lines, NEW data \in Data, NEW w \in BOOLEAN,
         NEW v \in Lines, v # l
  PROVE  LET b == insert_to_l1d(n, l, data, w, v) IN
         /\ b \in Node
         /\ b.mshr = n.mshr /\ b.l1i = n.l1i /\ b.ireq = n.ireq /\ b.queue = n.queue /\ b.out = n.out
         /\ b.reserved = IF n.reserved = v THEN 0 ELSE n.reserved
         /\ b.l2 = [n.l2 EXCEPT ![v] =
                      IF @.st = "I" THEN @
                      ELSE [st |-> IF n.l1d[v].dirty THEN "M" ELSE @.st,
                            data |-> IF n.l1d[v].dirty THEN n.l1d[v].data ELSE @.data,
                            flag |-> @.flag \ {"D", "W"}]]
         /\ b.l1d = [[n.l1d EXCEPT ![l] = [in |-> TRUE, write |-> w, dirty |-> FALSE, data |-> data]]
                        EXCEPT ![v] = NoL1D]
         /\ b.dreq = Answered(n.dreq, l, w)
         /\ b.aborts <=> n.aborts \/ (n.l1d[v].dirty /\ n.l2[v].st \notin {"I", "E", "M"}) \/ v \in InMSHR(n)
<1> DEFINE a == insert_to_l1d(n, l, data, w, 0)
           e == Ends(a, v)
           dirty == n.l1d[v].dirty
           c == IF e.l2[v].st = "I" THEN e.l2[v]
                ELSE [st |-> IF dirty THEN "M" ELSE e.l2[v].st,
                      data |-> IF dirty THEN n.l1d[v].data ELSE e.l2[v].data,
                      flag |-> e.l2[v].flag \ {"D", "W"}]
           bad == e.aborts \/ (dirty /\ n.l2[v].st \notin {"I", "E", "M"}) \/ v \in InMSHR(n)
           b == [e EXCEPT !.l1d[v] = NoL1D, !.l2[v] = c, !.aborts = bad]
<1>1. a = [n EXCEPT !.dreq = Answered(@, l, w),
                    !.l1d[l] = [in |-> TRUE, write |-> w, dirty |-> FALSE, data |-> data]]
  BY PrivAssumption DEF insert_to_l1d
<1>2. /\ a \in Node
      /\ a.l2 = n.l2 /\ a.mshr = n.mshr /\ a.l1i = n.l1i /\ a.ireq = n.ireq /\ a.queue = n.queue 
      /\ a.reserved = n.reserved /\ a.out = n.out /\ (a.aborts <=> n.aborts)
      /\ a.l1d = [n.l1d EXCEPT ![l] = [in |-> TRUE, write |-> w, dirty |-> FALSE, data |-> data]]
      /\ a.dreq = Answered(n.dreq, l, w)
  BY InsertedDFree
<1>3. insert_to_l1d(n, l, data, w, v) =
        [e EXCEPT
          !.l1d[v] = NoL1D,
          !.l2[v] = IF @.st = "I" THEN @
                    ELSE [st |-> IF dirty THEN "M" ELSE @.st,
                          data |-> IF dirty THEN n.l1d[v].data ELSE @.data,
                          flag |-> @.flag \ {"D", "W"}],
          !.aborts = @ \/ (dirty /\ n.l2[v].st \notin {"I", "E", "M"}) \/ v \in InMSHR(n)]
  BY <1>1, PrivAssumption DEF insert_to_l1d
<1> HIDE DEF a
<1>4. /\ e \in Node
      /\ e.l2 = a.l2 /\ e.mshr = a.mshr /\ e.l1d = a.l1d /\ e.l1i = a.l1i /\ e.dreq = a.dreq
      /\ e.ireq = a.ireq /\ e.queue = a.queue /\ e.out = a.out /\ (e.aborts <=> a.aborts)
      /\ e.reserved = IF a.reserved = v THEN 0 ELSE a.reserved
  BY <1>2, EndsFields
<1>5. c \in Line2 /\ NoL1D \in Line1 /\ bad \in BOOLEAN
  <2>1. e.l2[v] \in Line2 /\ n.l1d[v] \in Line1
    BY <1>4, NodeFields
  <2> HIDE DEF e
  <2> QED BY <2>1, DataFacts DEF Line2, Line1, NoL1D, CacheStates, PrivFlags
<1>6. insert_to_l1d(n, l, data, w, v) = b
  BY <1>3
<1> HIDE DEF e
<1> HIDE DEF c, bad, dirty
<1>7. /\ b \in Node
      /\ b.mshr = e.mshr /\ b.l1i = e.l1i /\ b.ireq = e.ireq /\ b.queue = e.queue /\ b.out = e.out
      /\ b.reserved = e.reserved /\ b.dreq = e.dreq /\ (b.aborts <=> bad)
      /\ b.l2 = [e.l2 EXCEPT ![v] = c] /\ b.l1d = [e.l1d EXCEPT ![v] = NoL1D]
  BY <1>4, <1>5 DEF Node
<1> HIDE DEF b
<1> QED BY <1>2, <1>4, <1>6, <1>7 DEF c, bad, dirty

\* The fields after an insertion into the instruction cache.
Unknown(e, f) == [e EXCEPT !.flag = @ \ {f}]

\* The fields after an insertion into the instruction cache.
LEMMA InsertedIFree ==
  ASSUME NEW n \in Node, NEW l \in Lines
  PROVE  LET b == insert_to_l1i(n, l, 0) IN
         /\ b \in Node
         /\ b.l2 = n.l2 /\ b.mshr = n.mshr /\ b.l1d = n.l1d /\ b.dreq = n.dreq /\ b.queue = n.queue
         /\ b.reserved = n.reserved /\ b.out = n.out /\ (b.aborts <=> n.aborts)
         /\ b.l1i = n.l1i \cup {l} /\ b.ireq = Answered(n.ireq, l, TRUE)
<1> DEFINE r == Answered(n.ireq, l, TRUE)
           b == [n EXCEPT !.ireq = r, !.l1i = @ \cup {l}]
<1>1. r \in Request1
  BY NodeFields DEF Answered, Request1, NoReq
<1>2. insert_to_l1i(n, l, 0) = b
  BY PrivAssumption DEF insert_to_l1i
<1> HIDE DEF r
<1>3. /\ b \in Node
      /\ b.l2 = n.l2 /\ b.mshr = n.mshr /\ b.l1d = n.l1d /\ b.dreq = n.dreq /\ b.queue = n.queue
      /\ b.reserved = n.reserved /\ b.out = n.out /\ (b.aborts <=> n.aborts)
      /\ b.l1i = n.l1i \cup {l} /\ b.ireq = r
  BY <1>1 DEF Node
<1> HIDE DEF b
<1> QED BY <1>2, <1>3 DEF r

InsertedI(n, l, v, b) ==
  /\ b \in Node
  /\ b.l1d = n.l1d /\ b.dreq = n.dreq /\ b.queue = n.queue
  /\ b.reserved = n.reserved /\ b.out = n.out /\ (b.aborts <=> n.aborts)
  /\ b.l1i = (n.l1i \cup {l}) \ {v} /\ b.ireq = Answered(n.ireq, l, TRUE)
  /\ \A k \in Lines \ {v} : b.l2[k] = n.l2[k] /\ b.mshr[k] = n.mshr[k]
  /\ b.l2[v] = Unknown(n.l2[v], "I") /\ b.mshr[v] = Unknown(n.mshr[v], "I")

\* The same where the line v goes.
LEMMA InsertedIFull ==
  ASSUME NEW n \in Node, NEW l \in Lines, NEW v \in Lines, v # l
  PROVE  InsertedI(n, l, v, insert_to_l1i(n, l, v))
<1> DEFINE a == insert_to_l1i(n, l, 0)
           b == [a EXCEPT !.l1i = @ \ {v}, !.l2[v].flag = @ \ {"I"}, !.mshr[v].flag = @ \ {"I"}]
<1>1. a = [n EXCEPT !.ireq = Answered(@, l, TRUE), !.l1i = @ \cup {l}]
  BY PrivAssumption DEF insert_to_l1i
<1>2. insert_to_l1i(n, l, v) = b
  BY <1>1, PrivAssumption DEF insert_to_l1i
<1>3. /\ a \in Node
      /\ a.l2 = n.l2 /\ a.mshr = n.mshr /\ a.l1d = n.l1d /\ a.dreq = n.dreq /\ a.queue = n.queue
      /\ a.reserved = n.reserved /\ a.out = n.out /\ (a.aborts <=> n.aborts)
      /\ a.l1i = n.l1i \cup {l} /\ a.ireq = Answered(n.ireq, l, TRUE)
  BY InsertedIFree
<1> HIDE DEF a
<1> DEFINE c == [a.l2[v] EXCEPT !.flag = @ \ {"I"}]
           e == [a.mshr[v] EXCEPT !.flag = @ \ {"I"}]
<1>4. c \in Line2 /\ e \in Entry2
  <2>1. a.l2[v] \in Line2 /\ a.mshr[v] \in Entry2
    BY <1>3, NodeFields
  <2> QED BY <2>1 DEF Line2, Entry2
<1>5. b = [a EXCEPT !.l1i = @ \ {v}, !.l2[v] = c, !.mshr[v] = e]
  BY <1>3 DEF Node
<1> HIDE DEF c, e, b
<1>6. /\ b \in Node
      /\ b.l1d = a.l1d /\ b.dreq = a.dreq /\ b.queue = a.queue
      /\ b.reserved = a.reserved /\ b.out = a.out /\ (b.aborts <=> a.aborts)
      /\ b.l1i = a.l1i \ {v} /\ b.ireq = a.ireq
      /\ b.l2 = [a.l2 EXCEPT ![v] = c] /\ b.mshr = [a.mshr EXCEPT ![v] = e]
  BY <1>3, <1>4, <1>5 DEF Node
<1>7. /\ \A k \in Lines \ {v} : b.l2[k] = a.l2[k] /\ b.mshr[k] = a.mshr[k]
      /\ b.l2[v] = c /\ b.mshr[v] = e
  BY <1>3, <1>6, NodeFields
<1>8. c = Unknown(n.l2[v], "I") /\ e = Unknown(n.mshr[v], "I")
  BY <1>3 DEF c, e, Unknown
<1> QED BY <1>2, <1>3, <1>6, <1>7, <1>8 DEF InsertedI

\* What an insertion leaves as it was: the other lines, as the directory sees them.
Elsewhere(n, b, l) ==
  \A k \in Lines \ {l} :
    /\ LineOK(b, k)
    /\ BlockOf(b, k) = BlockOf(n, k) /\ MshrOf(b, k) = MshrOf(n, k)
    /\ b.l2[k].st = "I" <=> n.l2[k].st = "I"
Silent(n, b) ==
  b.out = n.out /\ (b.aborts <=> n.aborts) /\ b.queue = n.queue /\ b.reserved \in {0, n.reserved}

\* The data cache waits for a line and gets it.
LEMMA InsertDKeeps ==
  ASSUME NEW n \in Node, NEW l \in Lines, NEW data \in Data, NEW w \in BOOLEAN,
         NEW v \in Replaceable(InL1D(n), l, PrivL1Ways), \A k \in Lines \ {l} : LineOK(n, k),
         n.dreq.type # "none", n.dreq.line = l
  PROVE  LET b == insert_to_l1d(n, l, data, w, v) IN
         /\ b \in Node /\ Elsewhere(n, b, l) /\ Silent(n, b)
         /\ b.mshr = n.mshr /\ b.l1i = n.l1i /\ b.ireq = n.ireq /\ b.l2[l] = n.l2[l]
         /\ b.l1d[l] = [in |-> TRUE, write |-> w, dirty |-> FALSE, data |-> data]
         /\ b.dreq = Answered(n.dreq, l, w)
<1> DEFINE b == insert_to_l1d(n, l, data, w, v)
           r == Answered(n.dreq, l, w)
<1>1. v = 0 \/ (v \in Lines /\ v # l /\ n.l1d[v].in)
  BY DEF Replaceable, InL1D
<1>2. ASSUME NEW k \in Lines \ {l}
      PROVE  /\ n.l2[k] \in Line2 /\ n.mshr[k] \in Entry2 /\ n.l1d[k] \in Line1 /\ LineOK(n, k)
             /\ n.mshr[k].st \notin {"STOM", "OTOM"}
             /\ "D" \notin n.mshr[k].flag /\ n.mshr[k].finish \cap {"S", "M"} = {}
             /\ ~(r.type # "none" /\ r.line = k)
  <2>1. n.dreq \in Request1
    BY NodeFields
  <2>2. r.line = l \/ r.type = "none"
    BY <2>1 DEF Answered, Request1, NoReq
  <2> QED BY <2>2, NodeFields DEF LineOK, Awaited
<1>3. CASE v = 0
  <2>1. /\ b \in Node
        /\ b.l2 = n.l2 /\ b.mshr = n.mshr /\ b.l1i = n.l1i /\ b.ireq = n.ireq /\ b.queue = n.queue 
        /\ b.reserved = n.reserved /\ b.out = n.out /\ (b.aborts <=> n.aborts)
        /\ b.l1d = [n.l1d EXCEPT ![l] = [in |-> TRUE, write |-> w, dirty |-> FALSE, data |-> data]]
        /\ b.dreq = r
    BY <1>3, InsertedDFree
  <2> HIDE DEF b, r
  <2>2. b.l1d[l] = [in |-> TRUE, write |-> w, dirty |-> FALSE, data |-> data]
        /\ \A k \in Lines \ {l} : b.l1d[k] = n.l1d[k]
    BY <2>1, NodeFields
  <2>3. ASSUME NEW k \in Lines \ {l} PROVE LineOK(b, k)
    BY <1>2, <2>1, <2>2 DEF LineOK, Included, Lacking, Awaited
  <2>4. Elsewhere(n, b, l)
    BY <2>1, <2>2, <2>3 DEF Elsewhere, BlockOf, MshrOf
  <2> QED BY <2>1, <2>2, <2>4 DEF Silent, b, r
<1>4. CASE v \in Lines /\ v # l /\ n.l1d[v].in
  <2>1. /\ b \in Node
        /\ b.mshr = n.mshr /\ b.l1i = n.l1i /\ b.ireq = n.ireq /\ b.queue = n.queue /\ b.out = n.out
        /\ b.reserved = IF n.reserved = v THEN 0 ELSE n.reserved
        /\ b.l2 = [n.l2 EXCEPT ![v] =
                     IF @.st = "I" THEN @
                     ELSE [st |-> IF n.l1d[v].dirty THEN "M" ELSE @.st,
                           data |-> IF n.l1d[v].dirty THEN n.l1d[v].data ELSE @.data,
                           flag |-> @.flag \ {"D", "W"}]]
        /\ b.l1d = [[n.l1d EXCEPT ![l] = [in |-> TRUE, write |-> w, dirty |-> FALSE, data |-> data]]
                       EXCEPT ![v] = NoL1D]
        /\ b.dreq = r
        /\ b.aborts <=> n.aborts \/ (n.l1d[v].dirty /\ n.l2[v].st \notin {"I", "E", "M"}) \/ v \in InMSHR(n)
    BY <1>4, InsertedDFull
  <2> HIDE DEF b, r
  <2>2. b.l1d[l] = [in |-> TRUE, write |-> w, dirty |-> FALSE, data |-> data]
        /\ (\A k \in Lines \ {l, v} : b.l1d[k] = n.l1d[k] /\ b.l2[k] = n.l2[k]) /\ b.l2[l] = n.l2[l]
        /\ b.l1d[v] = NoL1D
    <3> DEFINE one == [in |-> TRUE, write |-> w, dirty |-> FALSE, data |-> data]
               two == IF n.l2[v].st = "I" THEN n.l2[v]
                      ELSE [st |-> IF n.l1d[v].dirty THEN "M" ELSE n.l2[v].st,
                            data |-> IF n.l1d[v].dirty THEN n.l1d[v].data ELSE n.l2[v].data,
                            flag |-> n.l2[v].flag \ {"D", "W"}]
    <3>1. b.l1d = [[n.l1d EXCEPT ![l] = one] EXCEPT ![v] = NoL1D] /\ b.l2 = [n.l2 EXCEPT ![v] = two]
      BY <2>1
    <3>2. DOMAIN n.l1d = Lines /\ DOMAIN n.l2 = Lines
      BY NodeFields
    <3> HIDE DEF one, two
    <3>3. b.l1d[l] = one /\ b.l1d[v] = NoL1D
      BY <1>4, <3>1, <3>2
    <3>4. b.l2[l] = n.l2[l]
      BY <1>4, <3>1, <3>2
    <3>5. ASSUME NEW k \in Lines \ {l, v} PROVE b.l1d[k] = n.l1d[k] /\ b.l2[k] = n.l2[k]
      BY <3>1, <3>2
    <3> QED BY <3>3, <3>4, <3>5 DEF one
  <2>3. ASSUME NEW k \in Lines \ {l, v} PROVE LineOK(b, k)
    <3>1. b.l1d[k] = n.l1d[k] /\ b.l2[k] = n.l2[k] /\ b.mshr[k] = n.mshr[k]
      BY <2>1, <2>2
    <3>2. b.reserved = k => n.reserved = k
      BY <2>1, PrivAssumption
    <3> QED BY <1>2, <2>1, <3>1, <3>2 DEF LineOK, Included, Lacking, Awaited
  <2>4. n.l2[v].st # "I" /\ n.mshr[v].st = "-" /\ LineOK(n, v)
    BY <1>2, <1>4 DEF LineOK, Included
  <2>5. b.l2[v] = [st |-> IF n.l1d[v].dirty THEN "M" ELSE n.l2[v].st,
                   data |-> IF n.l1d[v].dirty THEN n.l1d[v].data ELSE n.l2[v].data,
                   flag |-> n.l2[v].flag \ {"D", "W"}]
    BY <1>4, <2>1, <2>4, NodeFields
  <2>6. LineOK(b, v) /\ BlockOf(b, v) = BlockOf(n, v) /\ b.l2[v].st # "I"
    <3>1. b.l2[v].st # "I" /\ b.mshr[v] = n.mshr[v] /\ b.l1d[v] = NoL1D /\ b.l1i = n.l1i
          /\ ("I" \in b.l2[v].flag <=> "I" \in n.l2[v].flag) /\ "D" \notin b.l2[v].flag
      BY <2>1, <2>2, <2>4, <2>5
    <3>2. ~NoL1D.in /\ ~NoL1D.dirty /\ ~NoL1D.write
      BY DEF NoL1D
    <3>3. b.reserved # v /\ ~(r.type # "none" /\ r.line = v)
      BY <1>2, <1>4, <2>1, PrivAssumption
    <3>4. Copied(b.l2[v], b.mshr[v], b.l1d[v])
      BY <3>1, <3>2 DEF Copied
    <3>5. Lacking(b.l1d[v], b.dreq, v) /\ Awaited(b.mshr[v], b.dreq, v)
      BY <1>2, <1>4, <2>1, <3>1, <3>2 DEF Lacking, Awaited
    <3>6. v \in b.l1i => Included(b, v, "I")
      BY <2>4, <3>1 DEF LineOK, Included
    <3>7. LineOK(b, v)
      BY <2>4, <3>1, <3>2, <3>3, <3>4, <3>5, <3>6 DEF LineOK
    <3>8. BlockOf(b, v) = BlockOf(n, v)
      BY <3>1, <3>2, <2>5 DEF BlockOf
    <3> QED BY <3>1, <3>7, <3>8
  <2>7. Elsewhere(n, b, l)
    <3>1. ASSUME NEW k \in Lines \ {l}
          PROVE  LineOK(b, k) /\ BlockOf(b, k) = BlockOf(n, k) /\ MshrOf(b, k) = MshrOf(n, k)
                 /\ (b.l2[k].st = "I" <=> n.l2[k].st = "I")
      <4>1. CASE k = v
        BY <4>1, <2>1, <2>4, <2>6 DEF MshrOf
      <4>2. CASE k # v
        <5>1. b.l1d[k] = n.l1d[k] /\ b.l2[k] = n.l2[k]
          BY <4>2, <2>2
        <5>2. b.mshr[k] = n.mshr[k]
          BY <2>1
        <5>3. BlockOf(b, k) = BlockOf(n, k)
          BY <5>1 DEF BlockOf
        <5>4. MshrOf(b, k) = MshrOf(n, k)
          BY <5>2 DEF MshrOf
        <5>5. LineOK(b, k)
          BY <4>2, <2>3
        <5> QED BY <5>1, <5>3, <5>4, <5>5
      <4> QED BY <4>1, <4>2
    <3> QED BY <3>1 DEF Elsewhere
  <2>8. b.aborts <=> n.aborts
    BY <1>4, <2>1, <2>4 DEF InMSHR, LineOK, Copied
  <2> QED BY <2>1, <2>2, <2>7, <2>8 DEF Silent, b, r
<1> QED BY <1>1, <1>3, <1>4

\* The instruction cache gets a line.
LEMMA InsertIKeeps ==
  ASSUME NEW n \in Node, NEW l \in Lines,
         NEW v \in Replaceable(n.l1i, l, PrivL1Ways), \A k \in Lines \ {l} : LineOK(n, k)
  PROVE  LET b == insert_to_l1i(n, l, v) IN
         /\ b \in Node /\ Elsewhere(n, b, l) /\ Silent(n, b)
         /\ b.l1d = n.l1d /\ b.dreq = n.dreq /\ b.reserved = n.reserved
         /\ b.l2[l] = n.l2[l] /\ b.mshr[l] = n.mshr[l] /\ l \in b.l1i
<1> DEFINE b == insert_to_l1i(n, l, v)
<1>1. v = 0 \/ (v \in Lines /\ v # l /\ v \in n.l1i)
  BY NodeFields DEF Replaceable
<1>2. ASSUME NEW k \in Lines \ {l} PROVE LineOK(n, k)
  OBVIOUS
<1>3. CASE v = 0
  <2>1. /\ b \in Node
        /\ b.l2 = n.l2 /\ b.mshr = n.mshr /\ b.l1d = n.l1d /\ b.dreq = n.dreq /\ b.queue = n.queue
        /\ b.reserved = n.reserved /\ b.out = n.out /\ (b.aborts <=> n.aborts)
        /\ b.l1i = n.l1i \cup {l}
    BY <1>3, InsertedIFree
  <2> HIDE DEF b
  <2>2. ASSUME NEW k \in Lines \ {l} PROVE LineOK(b, k)
    BY <1>2, <2>1 DEF LineOK, Included
  <2>3. Elsewhere(n, b, l)
    BY <2>1, <2>2 DEF Elsewhere, BlockOf, MshrOf
  <2> QED BY <2>1, <2>3 DEF Silent, b
<1>4. CASE v \in Lines /\ v # l /\ v \in n.l1i
  <2>0. InsertedI(n, l, v, b)
    BY <1>4, InsertedIFull
  <2> HIDE DEF b
  <2>1. /\ b \in Node
        /\ b.l1d = n.l1d /\ b.dreq = n.dreq /\ b.queue = n.queue
        /\ b.reserved = n.reserved /\ b.out = n.out /\ (b.aborts <=> n.aborts)
        /\ b.l1i = (n.l1i \cup {l}) \ {v}
    BY <2>0 DEF InsertedI
  <2>2. /\ \A k \in Lines \ {v} : b.l2[k] = n.l2[k] /\ b.mshr[k] = n.mshr[k]
        /\ b.l2[v] = Unknown(n.l2[v], "I")
        /\ b.mshr[v] = Unknown(n.mshr[v], "I")
    BY <2>0 DEF InsertedI
  <2>3. n.l2[v] \in Line2 /\ n.mshr[v] \in Entry2 /\ LineOK(n, v) /\ Included(n, v, "I")
    BY <1>2, <1>4, NodeFields DEF LineOK
  <2>4. /\ b.l2[v].st = n.l2[v].st /\ b.l2[v].data = n.l2[v].data
        /\ b.l2[v].flag = n.l2[v].flag \ {"I"} /\ b.mshr[v].flag = n.mshr[v].flag \ {"I"}
        /\ b.mshr[v].st = n.mshr[v].st /\ b.mshr[v].data = n.mshr[v].data
        /\ b.mshr[v].finish = n.mshr[v].finish
        /\ MshrOf(b, v) = MshrOf(n, v)
    BY <2>2, <2>3 DEF Line2, Entry2, MshrOf, Unknown
  <2>5. b.l2[v].st = "I" => b.l2[v] = NoL2
    <3>1. NoL2.flag \ {"I"} = NoL2.flag
      BY DEF NoL2
    <3>2. ASSUME NEW e \in Line2, e.flag \ {"I"} = e.flag PROVE [e EXCEPT !.flag = e.flag \ {"I"}] = e
      BY <3>2 DEF Line2
    <3> QED BY <2>2, <2>3, <2>4, <3>1, <3>2 DEF LineOK, Unknown
  <2>6. b.mshr[v].st = "-" => b.mshr[v] = NoEntryL2
    <3>1. NoEntryL2.flag \ {"I"} = NoEntryL2.flag
      BY DEF NoEntryL2
    <3>2. ASSUME NEW e \in Entry2, e.flag \ {"I"} = e.flag PROVE [e EXCEPT !.flag = e.flag \ {"I"}] = e
      BY <3>2 DEF Entry2
    <3> QED BY <2>2, <2>3, <2>4, <3>1, <3>2 DEF LineOK, Unknown
  <2>7. Copied(b.l2[v], b.mshr[v], b.l1d[v]) /\ Awaited(b.mshr[v], b.dreq, v)
    BY <2>1, <2>3, <2>4 DEF LineOK, Copied, Awaited
  <2>8. b.l1d[v].in => Included(b, v, "D")
    BY <2>1, <2>3, <2>4 DEF LineOK, Included
  <2>9. LineOK(b, v)
    BY <2>1, <2>3, <2>4, <2>5, <2>6, <2>7, <2>8 DEF LineOK
  <2>10. ASSUME NEW k \in Lines \ {l}
         PROVE  LineOK(b, k) /\ BlockOf(b, k) = BlockOf(n, k) /\ MshrOf(b, k) = MshrOf(n, k)
                /\ (b.l2[k].st = "I" <=> n.l2[k].st = "I")
    <3>1. CASE k = v
      BY <3>1, <2>1, <2>4, <2>9 DEF BlockOf
    <3>2. CASE k # v
      <4>1. b.l2[k] = n.l2[k] /\ b.mshr[k] = n.mshr[k] /\ (k \in b.l1i <=> k \in n.l1i)
        BY <3>2, <2>1, <2>2
      <4> QED BY <1>2, <2>1, <4>1 DEF LineOK, Included, BlockOf, MshrOf
    <3> QED BY <3>1, <3>2
  <2> QED BY <1>4, <2>1, <2>2, <2>10 DEF Elsewhere, Silent, b
<1> QED BY <1>1, <1>3, <1>4

\* One more message to send to whom it finds a handler.
LEMMA AlsoOut ==
  ASSUME NEW out \in Outs, NEW m, m \in RoutedTo(m.dst)
  PROVE  Also(out, m) \in Outs
<1>1. m.dst \in Nodes /\ m \in Message /\ out[m.dst] \in Seq(RoutedTo(m.dst)) /\ out \in [Nodes -> Seq(Message)]
  BY DEF Outs, RoutedTo, Message
<1> DEFINE d == m.dst
           q == Append(out[d], m)
<1>2. q \in Seq(RoutedTo(d)) /\ q \in Seq(Message)
  <2> DEFINE o == out[d]
  <2>1. o \in Seq(RoutedTo(d)) /\ o \in Seq(Message) /\ m \in RoutedTo(d) /\ m \in Message
    BY <1>1
  <2> HIDE DEF o, d
  <2>2. Append(o, m) \in Seq(RoutedTo(d))
    BY ONLY <2>1, AppendProperties
  <2>3. Append(o, m) \in Seq(Message)
    BY ONLY <2>1, AppendProperties
  <2> QED BY <2>2, <2>3 DEF o
<1>3. Also(out, m) = [out EXCEPT ![d] = q]
  BY DEF Also
<1> HIDE DEF q, d
<1>4. d \in Nodes /\ out \in [Nodes -> Seq(Message)] /\ \A k \in Nodes : out[k] \in Seq(RoutedTo(k))
  BY <1>1 DEF Outs, d
<1>5. [out EXCEPT ![d] = q] \in Outs
  BY <1>2, <1>4 DEF Outs
<1> QED BY <1>3, <1>5

\* A node posts a message.
LEMMA PostsFields ==
  ASSUME NEW n \in Node, NEW m, m \in RoutedTo(m.dst)
  PROVE  LET b == Posts(n, m) IN
         /\ b \in Node
         /\ b.l2 = n.l2 /\ b.mshr = n.mshr /\ b.l1d = n.l1d /\ b.l1i = n.l1i /\ b.dreq = n.dreq
         /\ b.ireq = n.ireq /\ b.queue = n.queue /\ b.reserved = n.reserved /\ (b.aborts <=> n.aborts)
         /\ b.out = Also(n.out, m)
<1>1. Also(n.out, m) \in Outs
  BY NodeFields, AlsoOut
<1> DEFINE o == Also(n.out, m)
<1> HIDE DEF o
<1>2. Posts(n, m) = [n EXCEPT !.out = o]
  BY DEF Posts, o
<1> QED BY <1>1, <1>2 DEF Node, o

\* What the eviction of line v, whose copy is c, sends and leaves in the MSHR.
Put2(i, v, c) ==
  Msg(PutType2[c.st], REQ, i, LLC, v, i, IF c.st \in {"M", "O"} THEN c.data ELSE NoData)
Evicting2(c) == [NoEntryL2 EXCEPT !.st = EvictState2[c.st], !.data = c.data]

\* Line v leaves node n of L1 i, and nothing else does.
Evicted2(n, i, v, b) ==
  /\ b \in Node /\ b.dreq = n.dreq /\ b.ireq = n.ireq /\ b.queue = n.queue
  /\ b.reserved \in {0, n.reserved} /\ (b.aborts <=> n.aborts)
  /\ \A k \in Lines \ {v} : /\ b.l2[k] = n.l2[k] /\ b.mshr[k] = n.mshr[k] /\ b.l1d[k] = n.l1d[k]
                            /\ k \in b.l1i <=> k \in n.l1i
  /\ b.l2[v] = NoL2 /\ b.l1d[v] = NoL1D /\ v \notin b.l1i
  /\ b.mshr[v] = Evicting2(BlockOf(n, v))
  /\ b.out = Also(n.out, Put2(i, v, BlockOf(n, v)))
  /\ LineOK(b, v)

\* The PUT and the entry are of their types.
LEMMA Put2Facts ==
  ASSUME NEW i \in L1s, NEW v \in Lines, NEW c \in [st : CacheStates, data : Data], c.st # "I"
  PROVE  /\ Put2(i, v, c) \in RoutedTo(LLC) /\ Put2(i, v, c).dst = LLC
         /\ Evicting2(c) \in Entry2 /\ Evicting2(c).st \in Leaving
         /\ Evicting2(c).flag = {} /\ Evicting2(c).finish = {}
<1>1. PutType2[c.st] \in Puts /\ EvictState2[c.st] \in Leaving \ {"ITOI"}
  BY DEF PutType2, EvictState2, CacheStates, Puts, Leaving
<1>2. Put2(i, v, c) \in RoutedTo(LLC) /\ Put2(i, v, c).dst = LLC
  <2> DEFINE ty == PutType2[c.st]
             da == IF c.st \in {"M", "O"} THEN c.data ELSE NoData
  <2>1. da \in Data /\ ty \in Puts
    BY <1>1, DataFacts
  <2>2. Put2(i, v, c) = Msg(ty, REQ, i, LLC, v, i, da)
    BY DEF Put2
  <2> HIDE DEF ty, da
  <2>3. ty \in MessageTypes /\ ty \notin {"GETS_RESP", "GETM_RESP", "INVALID", "GETS_FORWARD", "GETM_FORWARD"}
    BY <2>1 DEF Puts, MessageTypes
  <2>4. Msg(ty, REQ, i, LLC, v, i, da) \in Message
    BY <2>1, <2>3, NodeFacts, MessageFacts
  <2>5. Routed(Msg(ty, REQ, i, LLC, v, i, da))
    BY <2>3, NodeFacts, MsgFacts DEF Routed
  <2> QED BY <2>2, <2>4, <2>5, MsgFacts DEF RoutedTo
<1>3. Evicting2(c) \in Entry2 /\ Evicting2(c).st = EvictState2[c.st]
      /\ Evicting2(c).flag = {} /\ Evicting2(c).finish = {}
  <2> DEFINE st == EvictState2[c.st]
             da == c.data
  <2>1. st \in MSHRStates /\ da \in Data
    BY <1>1 DEF Leaving, MSHRStates
  <2> HIDE DEF st, da
  <2>2. NoEntryL2 \in Entry2 /\ NoEntryL2.flag = {} /\ NoEntryL2.finish = {}
    BY DataFacts DEF NoEntryL2, Entry2, MSHRStates
  <2>3. Evicting2(c) = [NoEntryL2 EXCEPT !.st = st, !.data = da]
    BY DEF Evicting2, st, da
  <2>4. [NoEntryL2 EXCEPT !.st = st, !.data = da] \in Entry2
    BY <2>1, <2>2 DEF Entry2
  <2>5. [NoEntryL2 EXCEPT !.st = st, !.data = da].st = st
    BY <2>2 DEF Entry2
  <2>6. [NoEntryL2 EXCEPT !.st = st, !.data = da].flag = {}
        /\ [NoEntryL2 EXCEPT !.st = st, !.data = da].finish = {}
    BY <2>2 DEF Entry2
  <2> QED BY <2>3, <2>4, <2>5, <2>6 DEF st
<1> QED BY <1>1, <1>2, <1>3

\* The line is evicted from the L2, and its copies from the L1s.
LEMMA EvictL2Keeps ==
  ASSUME NEW n \in Node, NEW i \in L1s, NEW v \in Lines, LineOK(n, v), n.l2[v].st # "I"
  PROVE  Evicted2(n, i, v, EvictL2(n, i, v, n.l2[v]))
<1> DEFINE line == n.l2[v]
           c == BlockOf(n, v)
           inD == "D" \in line.flag
           a == IF inD THEN Ends([n EXCEPT !.l1d[v] = NoL1D], v) ELSE n
           li == IF "I" \in line.flag THEN n.l1i \ {v} ELSE n.l1i
           e == Evicting2(c)
           bad == a.aborts \/ v \in InMSHR(n) \/ (inD /\ ~n.l1d[v].in)
                  \/ (inD /\ n.l1d[v].dirty /\ line.st \notin {"M", "E"})
           p == [a EXCEPT !.l1i = li, !.l2[v] = NoL2, !.mshr[v] = e, !.aborts = bad]
           b == Posts(p, Put2(i, v, c))
<1>1. /\ line \in Line2 /\ n.l1d[v] \in Line1 /\ n.mshr[v].st = "-"
      /\ inD <=> n.l1d[v].in
      /\ n.l1d[v].dirty => inD /\ line.st \in {"E", "M"}
      /\ v \in n.l1i => "I" \in line.flag
      /\ ~inD => n.l1d[v] = NoL1D /\ n.reserved # v
  <2>1. line \in Line2 /\ n.l1d[v] \in Line1 /\ n.mshr[v].st = "-"
    BY NodeFields DEF LineOK
  <2>2. ~NoL1D.dirty
    BY DEF NoL1D
  <2>3. inD <=> n.l1d[v].in
    BY <2>1 DEF LineOK, Included, Copied
  <2>4. ~inD => n.l1d[v] = NoL1D /\ n.reserved # v
    BY <2>3 DEF LineOK
  <2>5. n.l1d[v].dirty => inD /\ line.st \in {"E", "M"}
    BY <2>2, <2>4 DEF LineOK, Copied
  <2>6. v \in n.l1i => "I" \in line.flag
    BY <2>1 DEF LineOK, Included
  <2> QED BY <2>1, <2>3, <2>4, <2>5, <2>6
<1>2. /\ c \in [st : CacheStates, data : Data] /\ c.st # "I"
      /\ c.st = IF inD /\ n.l1d[v].dirty THEN "M" ELSE line.st
      /\ c.data = IF inD THEN Flushed(n, v, line.data) ELSE line.data
  <2> HIDE DEF line
  <2> USE DEF line
  <2>1. CASE n.l1d[v].dirty
    BY <2>1, <1>1 DEF BlockOf, Flushed, Line1, Line2, CacheStates
  <2>2. CASE ~n.l1d[v].dirty
    BY <2>2, <1>1 DEF BlockOf, Flushed, Line1, Line2, CacheStates
  <2> QED BY <2>1, <2>2
<1>3. /\ a \in Node
      /\ a.l2 = n.l2 /\ a.mshr = n.mshr /\ a.l1i = n.l1i /\ a.dreq = n.dreq
      /\ a.ireq = n.ireq /\ a.queue = n.queue /\ a.out = n.out /\ (a.aborts <=> n.aborts)
      /\ a.reserved \in {0, n.reserved} /\ a.reserved # v /\ a.l1d[v] = NoL1D
      /\ \A k \in Lines \ {v} : a.l1d[k] = n.l1d[k]
  <2>1. CASE ~inD
    BY <2>1, <1>1
  <2>2. CASE inD
    <3> DEFINE m == [n EXCEPT !.l1d[v] = NoL1D]
    <3>1. NoL1D \in Line1
      BY DataFacts DEF NoL1D, Line1
    <3>2. /\ m \in Node
          /\ m.l2 = n.l2 /\ m.mshr = n.mshr /\ m.l1i = n.l1i /\ m.dreq = n.dreq
          /\ m.ireq = n.ireq /\ m.queue = n.queue /\ m.out = n.out /\ (m.aborts <=> n.aborts)
          /\ m.reserved = n.reserved /\ m.l1d = [n.l1d EXCEPT ![v] = NoL1D]
      BY <3>1 DEF Node
    <3> HIDE DEF m
    <3>3. m.l1d[v] = NoL1D /\ \A k \in Lines \ {v} : m.l1d[k] = n.l1d[k]
      BY <3>2, NodeFields
    <3>4. a = Ends(m, v)
      BY <2>2 DEF m
    <3> HIDE DEF a
    <3>5. /\ a \in Node
          /\ a.l2 = m.l2 /\ a.mshr = m.mshr /\ a.l1d = m.l1d /\ a.l1i = m.l1i /\ a.dreq = m.dreq
          /\ a.ireq = m.ireq /\ a.queue = m.queue /\ a.out = m.out /\ (a.aborts <=> m.aborts)
          /\ a.reserved = IF m.reserved = v THEN 0 ELSE m.reserved
      BY <3>2, <3>4, EndsFields
    <3> QED BY <3>2, <3>3, <3>5, PrivAssumption
  <2> QED BY <2>1, <2>2
<1>4. EvictL2(n, i, v, line) = b
  <2> DEFINE d == IF inD THEN Flushed(n, v, line.data) ELSE line.data
             s == IF inD /\ n.l1d[v].dirty THEN "M" ELSE line.st
  <2>1. c.st = s /\ c.data = d /\ a.l1i = n.l1i
    BY <1>2, <1>3
  <2>2. EvictL2(n, i, v, line) =
          Posts([a EXCEPT !.l1i = IF "I" \in line.flag THEN @ \ {v} ELSE @, !.l2[v] = NoL2,
                    !.mshr[v] = [NoEntryL2 EXCEPT !.st = EvictState2[s], !.data = d],
                    !.aborts = @ \/ v \in InMSHR(n) \/ (inD /\ ~n.l1d[v].in)
                               \/ ((inD /\ n.l1d[v].dirty) /\ line.st \notin {"M", "E"})],
                Msg(PutType2[s], REQ, i, LLC, v, i, IF s \in {"M", "O"} THEN d ELSE NoData))
    BY DEF EvictL2
  <2> HIDE DEF a, inD, line, d, s, c
  <2>3. EvictL2(n, i, v, line) =
          Posts([a EXCEPT !.l1i = IF "I" \in line.flag THEN @ \ {v} ELSE @, !.l2[v] = NoL2,
                    !.mshr[v] = e,
                    !.aborts = @ \/ v \in InMSHR(n) \/ (inD /\ ~n.l1d[v].in)
                               \/ (inD /\ n.l1d[v].dirty /\ line.st \notin {"M", "E"})],
                Put2(i, v, c))
    BY <2>1, <2>2 DEF Evicting2, Put2
  <2> QED BY <2>1, <2>3
<1>5. (bad <=> n.aborts) /\ bad \in BOOLEAN /\ li = n.l1i \ {v}
  <2>1. v \notin InMSHR(n)
    BY <1>1 DEF InMSHR
  <2> QED BY <2>1, <1>1, <1>3
<1>6. /\ e \in Entry2 /\ e.flag = {} /\ e.finish = {} /\ e.st \in Leaving
      /\ Put2(i, v, c) \in RoutedTo(LLC) /\ Put2(i, v, c).dst = LLC
      /\ NoL2 \in Line2 /\ li \subseteq Lines
  <2>1. NoL2 \in Line2
    BY DataFacts DEF NoL2, Line2, CacheStates
  <2> HIDE DEF c, e, li
  <2>2. li \subseteq Lines
    BY <1>5, NodeFields
  <2>3. /\ Evicting2(c) \in Entry2 /\ Evicting2(c).flag = {} /\ Evicting2(c).finish = {}
        /\ Evicting2(c).st \in Leaving /\ Put2(i, v, c) \in RoutedTo(LLC) /\ Put2(i, v, c).dst = LLC
    BY <1>2, Put2Facts
  <2> QED BY <2>1, <2>2, <2>3 DEF e
<1> HIDE DEF a, c, e, bad, li
<1>7. /\ p \in Node /\ p.l1d = a.l1d /\ p.dreq = a.dreq /\ p.ireq = a.ireq /\ p.queue = a.queue
      /\ p.reserved = a.reserved /\ p.out = a.out /\ p.l1i = li /\ (p.aborts <=> bad)
      /\ p.l2 = [a.l2 EXCEPT ![v] = NoL2] /\ p.mshr = [a.mshr EXCEPT ![v] = e]
  BY <1>3, <1>5, <1>6 DEF Node
<1> HIDE DEF p
<1>8. /\ b \in Node /\ b.l1d = p.l1d /\ b.dreq = p.dreq /\ b.ireq = p.ireq /\ b.queue = p.queue
      /\ b.reserved = p.reserved /\ b.l1i = p.l1i /\ (b.aborts <=> p.aborts)
      /\ b.l2 = p.l2 /\ b.mshr = p.mshr /\ b.out = Also(p.out, Put2(i, v, c))
  BY <1>6, <1>7, PostsFields
<1> HIDE DEF b
<1>9. /\ b.l2[v] = NoL2 /\ b.mshr[v] = e /\ b.l1d[v] = NoL1D /\ v \notin b.l1i
      /\ \A k \in Lines \ {v} : b.l2[k] = n.l2[k] /\ b.mshr[k] = n.mshr[k] /\ b.l1d[k] = n.l1d[k]
                                /\ (k \in b.l1i <=> k \in n.l1i)
  <2>1. DOMAIN n.l2 = Lines /\ DOMAIN n.mshr = Lines
    BY NodeFields
  <2> QED BY <2>1, <1>3, <1>5, <1>7, <1>8
<1>10. LineOK(b, v)
  <2>1. NoL2.st = "I" /\ NoL2.flag = {} /\ ~NoL1D.in /\ ~NoL1D.dirty /\ ~NoL1D.write
    BY DEF NoL2, NoL1D
  <2>2. Copied(NoL2, e, NoL1D) /\ Lacking(NoL1D, b.dreq, v) /\ Awaited(e, b.dreq, v) /\ e.st # "-"
    BY <2>1, <1>6 DEF Copied, Lacking, Awaited, Leaving
  <2>3. b.reserved # v
    BY <1>3, <1>7, <1>8
  <2> QED BY <1>9, <2>1, <2>2, <2>3 DEF LineOK
<1> QED BY <1>3, <1>4, <1>5, <1>7, <1>8, <1>9, <1>10 DEF Evicted2, e, c

\* The directory sees these lines as before.
Same(n, b, S) == \A k \in S : BlockOf(b, k) = BlockOf(n, k) /\ MshrOf(b, k) = MshrOf(n, k)

\* Line l has entered node n, and if there was no room for it another has left.
Entered2(n, i, l, st, data, out, b) ==
  /\ NodeInv(b) /\ (b.aborts <=> n.aborts) /\ b.queue = n.queue /\ b.reserved \in {0, n.reserved}
  /\ BlockOf(b, l) = [st |-> st, data |-> data] /\ MshrOf(b, l) = NoMSHR
  /\ \/ b.out = out /\ Same(n, b, Lines \ {l})
     \/ \E v \in Lines \ {l} :
          /\ n.l2[v].st # "I" /\ BlockOf(b, v) = Absent /\ MshrOf(b, v) = Evicting(BlockOf(n, v))
          /\ b.out = Also(out, Put2(i, v, BlockOf(n, v)))
          /\ Same(n, b, Lines \ {l, v})

\* The entry of an eviction, as the directory sees it.
LEMMA Evicting2Facts ==
  ASSUME NEW b \in Node, NEW v \in Lines, NEW c \in [st : CacheStates, data : Data], c.st # "I",
         b.mshr[v] = Evicting2(c)
  PROVE  MshrOf(b, v) = Evicting(c)
<1> DEFINE st == EvictState2[c.st]
           da == c.data
<1>1. st = EvictState[c.st]
  BY DEF EvictState2, EvictState
<1> HIDE DEF st, da
<1>2. Evicting2(c) = [NoEntryL2 EXCEPT !.st = st, !.data = da]
  BY DEF Evicting2, st, da
<1>3. Evicting(c) = [[NoMSHR EXCEPT !.st = st] EXCEPT !.data = da]
  BY <1>1 DEF Evicting, Waits, da
<1> DEFINE x == [NoEntryL2 EXCEPT !.st = st, !.data = da]
           y == [[NoMSHR EXCEPT !.st = st] EXCEPT !.data = da]
           e == b.mshr[v]
<1>4. /\ x.st = st /\ x.data = da /\ ~x.hasData /\ ~x.hasNeed
      /\ x.need = 0 /\ x.acks = 0
  BY DEF NoEntryL2
<1>5. /\ y.st = st /\ y.data = da /\ ~y.hasData /\ ~y.hasNeed
      /\ y.need = 0 /\ y.acks = 0
  BY DEF NoMSHR
<1>6. e = x
  BY <1>2
<1>7. MshrOf(b, v) = [st |-> e.st, data |-> e.data, hasData |-> e.hasData,
                      hasNeed |-> e.hasNeed, need |-> e.need, acks |-> e.acks]
  BY DEF MshrOf
<1>8. y \in MSHREntry /\ e \in Entry2
  <2>1. y \in MSHREntry
    BY <1>3, EvictingFacts
  <2> QED BY <2>1, NodeFields
<1> HIDE DEF x, y, e
<1>9. MshrOf(b, v) \in MSHREntry
  BY <1>7, <1>8 DEF Entry2, MSHREntry
<1>10. /\ MshrOf(b, v).st = y.st /\ MshrOf(b, v).data = y.data
       /\ (MshrOf(b, v).hasData <=> y.hasData) /\ (MshrOf(b, v).hasNeed <=> y.hasNeed)
       /\ MshrOf(b, v).need = y.need /\ MshrOf(b, v).acks = y.acks
  BY <1>4, <1>5, <1>6, <1>7
<1> DEFINE z == MshrOf(b, v)
<1> HIDE DEF z
<1>11. z = y
  BY <1>8, <1>9, <1>10 DEF MSHREntry, z
<1> QED BY <1>3, <1>11 DEF y, z

\* Nothing is there.
LEMMA NothingThere ==
  ASSUME NEW b, NEW v
  PROVE  /\ b.l2[v] = NoL2 /\ b.l1d[v] = NoL1D => BlockOf(b, v) = Absent
         /\ b.mshr[v] = NoEntryL2 => MshrOf(b, v) = NoMSHR
<1>1. b.l2[v] = NoL2 /\ b.l1d[v] = NoL1D => BlockOf(b, v) = Absent
  <2>1. NoL2.st = "I" /\ NoL2.data = NoData /\ ~NoL1D.dirty
    BY DEF NoL2, NoL1D
  <2> QED BY <2>1 DEF BlockOf, Absent
<1>2. b.mshr[v] = NoEntryL2 => MshrOf(b, v) = NoMSHR
  <2>1. /\ NoEntryL2.st = "-" /\ NoEntryL2.data = NoData /\ NoEntryL2.hasData = FALSE
        /\ NoEntryL2.hasNeed = FALSE /\ NoEntryL2.need = 0 /\ NoEntryL2.acks = 0
    BY DEF NoEntryL2
  <2> QED BY <2>1 DEF MshrOf, NoMSHR
<1> QED BY <1>1, <1>2

\* The line goes into the L2, after the L1s that wait for it have it.
LEMMA NewLine2Keeps ==
  ASSUME NEW n, NodeInv(n), NEW i \in L1s, NEW l \in Lines, n.mshr[l].st # "-",
         NEW st \in {"S", "E", "M"}, NEW data \in Data, NEW b \in NewLine2(n, i, l, st, data)
  PROVE  Entered2(n, i, l, st, data, n.out, b)
<1> DEFINE e == n.mshr[l]
           w == ForWriting(e, st)
           flags == NewFlags(e, st)
           new == [st |-> st, data |-> data, flag |-> flags]
<1>1. PICK vd \in IF ToD(e, st) THEN Replaceable(InL1D(n), l, PrivL1Ways) ELSE {0},
           vi \in IF ToI(e) THEN Replaceable(n.l1i, l, PrivL1Ways) ELSE {0},
           v \in Replaceable(InL2(n), l, PrivL2Ways) :
        b = Placed(n, i, l, st, data, vd, vi, v)
  BY DEF NewLine2
<1> DEFINE a1 == IF ToD(e, st) THEN insert_to_l1d(n, l, data, w, vd) ELSE n
           a2 == IF ToI(e) THEN insert_to_l1i(a1, l, vi) ELSE a1
           a3 == [a2 EXCEPT !.mshr[l] = NoEntryL2, !.l2[l] = new]
<1>2. b = IF v = 0 THEN a3 ELSE EvictL2(a3, i, v, a2.l2[v])
  BY <1>1 DEF Placed
<1>3. /\ n \in Node /\ e \in Entry2 /\ n.l2[l] \in Line2 /\ n.l1d[l] \in Line1 /\ n.dreq \in Request1
      /\ n.reserved \in Lines \cup {0} /\ n.l2[l].st = "I" /\ LineOK(n, l)
      /\ \A k \in Lines \ {l} : LineOK(n, k)
  BY NodeFields DEF NodeInv, LineOK
<1>4. ToD(e, st) => n.dreq.type # "none" /\ n.dreq.line = l
  BY <1>3 DEF LineOK, Awaited, ToD
<1>5. w \in BOOLEAN /\ (w => st = "M") /\ (w => ToD(e, st))
  BY DEF ForWriting, ToD
<1>6. /\ n.l1d[l].in => ToD(e, st)
      /\ l \in n.l1i => ToI(e)
      /\ "D" \in flags <=> ToD(e, st)
      /\ "I" \in flags <=> ToI(e)
      /\ flags \subseteq PrivFlags
  BY <1>3, <1>5 DEF LineOK, Included, ToD, ToI, NewFlags, Entry2, PrivFlags
<1> HIDE DEF w, flags
\* the data cache
<1>7. /\ a1 \in Node /\ Elsewhere(n, a1, l) /\ Silent(n, a1)
      /\ a1.mshr = n.mshr /\ a1.l1i = n.l1i /\ a1.l2[l] = n.l2[l]
      /\ a1.l1d[l] = IF ToD(e, st) THEN [in |-> TRUE, write |-> w, dirty |-> FALSE, data |-> data]
                     ELSE NoL1D
      /\ ToD(e, st) => a1.dreq = Answered(n.dreq, l, w)
  <2>1. CASE ToD(e, st)
    <3>1. vd \in Replaceable(InL1D(n), l, PrivL1Ways)
      BY <2>1, <1>1
    <3>2. a1 = insert_to_l1d(n, l, data, w, vd)
      BY <2>1
    <3> HIDE DEF a1
    <3> QED BY <2>1, <3>1, <3>2, <1>3, <1>4, <1>5, InsertDKeeps
  <2>2. CASE ~ToD(e, st)
    <3>1. a1 = n
      BY <2>2
    <3> HIDE DEF a1
    <3> QED BY <2>2, <3>1, <1>3, <1>6 DEF Elsewhere, Silent, LineOK
  <2> QED BY <2>1, <2>2
<1> HIDE DEF a1
\* the instruction cache
<1>8. /\ a2 \in Node /\ Elsewhere(n, a2, l) /\ Silent(n, a2)
      /\ a2.mshr[l] = e /\ a2.l2[l] = n.l2[l] /\ a2.l1d = a1.l1d /\ a2.dreq = a1.dreq
      /\ (l \in a2.l1i => ToI(e))
  <2>0. \A k \in Lines \ {l} : LineOK(a1, k)
    BY <1>7 DEF Elsewhere
  <2>1. CASE ToI(e)
    <3>1. vi \in Replaceable(a1.l1i, l, PrivL1Ways)
      BY <2>1, <1>1, <1>7
    <3>2. a2 = insert_to_l1i(a1, l, vi)
      BY <2>1
    <3> HIDE DEF a2
    <3>3. /\ a2 \in Node /\ Elsewhere(a1, a2, l) /\ Silent(a1, a2)
          /\ a2.l1d = a1.l1d /\ a2.dreq = a1.dreq /\ a2.reserved = a1.reserved
          /\ a2.l2[l] = a1.l2[l] /\ a2.mshr[l] = a1.mshr[l]
      BY <2>0, <3>1, <3>2, <1>7, InsertIKeeps
    <3>4. Elsewhere(n, a2, l)
      BY <1>7, <3>3 DEF Elsewhere
    <3>5. Silent(n, a2)
      BY <1>7, <3>3 DEF Silent
    <3> QED BY <2>1, <3>3, <3>4, <3>5, <1>7
  <2>2. CASE ~ToI(e)
    <3>1. a2 = a1
      BY <2>2
    <3> HIDE DEF a2
    <3> QED BY <2>2, <3>1, <1>6, <1>7
  <2> QED BY <2>1, <2>2
<1> HIDE DEF a2
<1>9. new \in Line2 /\ NoEntryL2 \in Entry2
  BY <1>6, DataFacts DEF Line2, CacheStates, NoEntryL2, Entry2, MSHRStates
<1> HIDE DEF new
<1>10. /\ a3 \in Node
       /\ a3.l1d = a2.l1d /\ a3.l1i = a2.l1i /\ a3.dreq = a2.dreq /\ a3.queue = a2.queue
       /\ a3.reserved = a2.reserved /\ a3.out = a2.out /\ (a3.aborts <=> a2.aborts)
       /\ a3.l2 = [a2.l2 EXCEPT ![l] = new] /\ a3.mshr = [a2.mshr EXCEPT ![l] = NoEntryL2]
  BY <1>8, <1>9 DEF Node
<1> HIDE DEF a3
<1>11. /\ a3.l2[l] = new /\ a3.mshr[l] = NoEntryL2
       /\ \A k \in Lines \ {l} : a3.l2[k] = a2.l2[k] /\ a3.mshr[k] = a2.mshr[k]
  BY <1>8, <1>10, NodeFields
<1>12. Elsewhere(n, a3, l)
  <2> SUFFICES ASSUME NEW k \in Lines \ {l}
               PROVE  LineOK(a3, k) /\ BlockOf(a3, k) = BlockOf(n, k) /\ MshrOf(a3, k) = MshrOf(n, k)
                      /\ (a3.l2[k].st = "I" <=> n.l2[k].st = "I")
    BY DEF Elsewhere
  <2>1. /\ LineOK(a2, k) /\ BlockOf(a2, k) = BlockOf(n, k) /\ MshrOf(a2, k) = MshrOf(n, k)
        /\ (a2.l2[k].st = "I" <=> n.l2[k].st = "I")
    BY <1>8 DEF Elsewhere
  <2>2. a3.l2[k] = a2.l2[k] /\ a3.mshr[k] = a2.mshr[k] /\ a3.l1d[k] = a2.l1d[k]
    BY <1>10, <1>11
  <2>3. LineOK(a3, k)
    BY <2>1, <2>2, <1>10 DEF LineOK, Included
  <2> QED BY <2>1, <2>2, <2>3 DEF BlockOf, MshrOf
<1>13. LineOK(a3, l) /\ BlockOf(a3, l) = [st |-> st, data |-> data] /\ MshrOf(a3, l) = NoMSHR
  <2>1. new.st = st /\ new.data = data /\ new.flag = flags /\ st # "I"
    BY DEF new
  <2>2. NoEntryL2.st = "-" /\ NoEntryL2.flag = {} /\ NoEntryL2.finish = {}
    BY DEF NoEntryL2
  <2>3. ~NoL1D.in /\ ~NoL1D.dirty /\ ~NoL1D.write
    BY DEF NoL1D
  <2> DEFINE d == a3.l1d[l]
  <2>4. /\ d.in <=> ToD(e, st)
        /\ ~ToD(e, st) => d = NoL1D
        /\ d.write <=> w
        /\ ~d.dirty
        /\ ToD(e, st) => d.data = data
    <3>1. CASE ToD(e, st)
      BY <3>1, <1>7, <1>8, <1>10
    <3>2. CASE ~ToD(e, st)
      BY <3>2, <2>3, <1>5, <1>7, <1>8, <1>10
    <3> QED BY <3>1, <3>2
  <2> HIDE DEF d
  <2>5. Copied(new, NoEntryL2, d)
    BY <2>1, <2>4, <1>5, <1>6 DEF Copied
  <2>6. Lacking(d, a3.dreq, l)
    <3>1. CASE ToD(e, st)
      <4>1. a3.dreq = Answered(n.dreq, l, w)
        BY <3>1, <1>7, <1>8, <1>10
      <4> QED BY <3>1, <4>1, <1>3, <1>4, <2>4 DEF Lacking, Answered, Request1, NoReq
    <3>2. CASE ~ToD(e, st)
      BY <3>2, <2>4, <1>5 DEF Lacking
    <3> QED BY <3>1, <3>2
  <2>7. a3.reserved = l => d.in
    <3>1. a3.reserved \in {0, n.reserved}
      BY <1>8, <1>10 DEF Silent
    <3> QED BY <3>1, <2>4, <1>3, <1>6, PrivAssumption DEF LineOK
  <2>8. Awaited(NoEntryL2, a3.dreq, l)
    BY <2>2 DEF Awaited
  <2>9. (d.in => Included(a3, l, "D")) /\ (l \in a3.l1i => Included(a3, l, "I"))
    BY <2>1, <2>4, <1>6, <1>8, <1>10, <1>11 DEF Included
  <2>10. LineOK(a3, l)
    BY <2>1, <2>2, <2>4, <2>5, <2>6, <2>7, <2>8, <2>9, <1>11 DEF LineOK, d
  <2>11. BlockOf(a3, l) = [st |-> st, data |-> data]
    BY <2>1, <2>4, <1>11 DEF BlockOf, d
  <2> QED BY <2>10, <2>11, <1>11, NothingThere
<1>14. NodeInv(a3)
  BY <1>10, <1>12, <1>13 DEF NodeInv, Elsewhere
<1>15. Silent(n, a3) /\ Same(n, a3, Lines \ {l})
  BY <1>8, <1>10, <1>12 DEF Silent, Elsewhere, Same
<1>16. CASE v = 0
  <2>1. b = a3
    BY <1>2, <1>16
  <2> QED BY <2>1, <1>13, <1>14, <1>15 DEF Entered2, Silent
<1>17. CASE v # 0
  <2>1. v \in Lines \ {l} /\ n.l2[v].st # "I"
    BY <1>17, <1>1, <1>3 DEF Replaceable, InL2
  <2>2. a3.l2[v].st # "I" /\ LineOK(a3, v) /\ BlockOf(a3, v) = BlockOf(n, v) /\ a3.l2[v] = a2.l2[v]
    BY <2>1, <1>11, <1>12 DEF Elsewhere
  <2>3. b = EvictL2(a3, i, v, a3.l2[v])
    BY <1>2, <1>17, <2>2
  <2>4. Evicted2(a3, i, v, b)
    BY <2>1, <2>2, <2>3, <1>10, EvictL2Keeps
  <2> HIDE DEF e
  <2>5. b \in Node /\ b.dreq = a3.dreq /\ b.reserved \in {0, a3.reserved} /\ b.queue = a3.queue
        /\ (b.aborts <=> a3.aborts) /\ b.out = Also(a3.out, Put2(i, v, BlockOf(a3, v)))
        /\ b.l2[v] = NoL2 /\ b.l1d[v] = NoL1D /\ b.mshr[v] = Evicting2(BlockOf(a3, v)) /\ LineOK(b, v)
    BY <2>4 DEF Evicted2
  <2>6. ASSUME NEW k \in Lines \ {v}
        PROVE  LineOK(b, k) /\ BlockOf(b, k) = BlockOf(a3, k) /\ MshrOf(b, k) = MshrOf(a3, k)
    <3>1. b.l2[k] = a3.l2[k] /\ b.mshr[k] = a3.mshr[k] /\ b.l1d[k] = a3.l1d[k]
          /\ (k \in b.l1i <=> k \in a3.l1i)
      BY <2>4 DEF Evicted2
    <3>2. LineOK(a3, k) /\ (b.reserved = k => a3.reserved = k)
      BY <1>14, <2>5, PrivAssumption DEF NodeInv
    <3>3. LineOK(b, k)
      BY <2>5, <3>1, <3>2 DEF LineOK, Included
    <3> QED BY <3>1, <3>3 DEF BlockOf, MshrOf
  <2>7. NodeInv(b)
    BY <2>5, <2>6 DEF NodeInv
  <2>8. BlockOf(b, v) = Absent
    BY <2>5, NothingThere
  <2>9. MshrOf(b, v) = Evicting(BlockOf(n, v))
    <3>1. BlockOf(a3, v) \in [st : CacheStates, data : Data] /\ BlockOf(a3, v).st # "I"
      BY <2>1, <2>2, <1>10, NodeFields DEF BlockOf, Line2, Line1, CacheStates
    <3> QED BY <3>1, <2>1, <2>2, <2>5, Evicting2Facts
  <2>10. Same(n, b, Lines \ {l, v})
    BY <2>6, <1>15 DEF Same
  <2>11. BlockOf(b, l) = [st |-> st, data |-> data] /\ MshrOf(b, l) = NoMSHR
    BY <2>1, <2>6, <1>13
  <2>12. b.reserved \in {0, n.reserved} /\ b.queue = n.queue /\ (b.aborts <=> n.aborts)
         /\ b.out = Also(n.out, Put2(i, v, BlockOf(n, v)))
    BY <2>2, <2>5, <1>15 DEF Silent
  <2> QED BY <2>1, <2>7, <2>8, <2>9, <2>10, <2>11, <2>12 DEF Entered2
<1> QED BY <1>16, <1>17

-----------------------------------------------------------------------------
(* The handlers.                                                           *)

\* At most line l of the node is another.
Changed(n, l, b) ==
  /\ b \in Node /\ b.dreq = n.dreq /\ b.queue = n.queue /\ b.reserved \in {0, n.reserved}
  /\ \A k \in Lines \ {l} : /\ b.l2[k] = n.l2[k] /\ b.mshr[k] = n.mshr[k] /\ b.l1d[k] = n.l1d[k]
                            /\ k \in b.l1i <=> k \in n.l1i

\* A node acts on line l: the directory sees the line as c and e then, and out goes out.
Acts2(n, l, c, e, out, b) ==
  /\ NodeInv(b) /\ (b.aborts <=> n.aborts) /\ b.queue = n.queue /\ b.reserved \in {0, n.reserved}
  /\ BlockOf(b, l) = c /\ MshrOf(b, l) = e /\ b.out = out /\ Same(n, b, Lines \ {l})

\* Then the other lines are as they should be.
LEMMA ChangedKeeps ==
  ASSUME NEW n, NodeInv(n), NEW l \in Lines, NEW b, Changed(n, l, b), LineOK(b, l)
  PROVE  NodeInv(b) /\ Same(n, b, Lines \ {l})
<1>1. ASSUME NEW k \in Lines \ {l}
      PROVE  LineOK(b, k) /\ BlockOf(b, k) = BlockOf(n, k) /\ MshrOf(b, k) = MshrOf(n, k)
  <2>1. b.l2[k] = n.l2[k] /\ b.mshr[k] = n.mshr[k] /\ b.l1d[k] = n.l1d[k] /\ (k \in b.l1i <=> k \in n.l1i)
    BY DEF Changed
  <2>2. LineOK(n, k) /\ (b.reserved = k => n.reserved = k) /\ b.dreq = n.dreq
    BY PrivAssumption DEF Changed, NodeInv
  <2>3. LineOK(b, k)
    BY <2>1, <2>2 DEF LineOK, Included
  <2> QED BY <2>1, <2>3 DEF BlockOf, MshrOf
<1> QED BY <1>1 DEF NodeInv, Same, Changed

\* What a node sends, but for the PUTs, finds a handler.
LEMMA AnswersRouted ==
  ASSUME NEW i \in L1s, NEW l \in Lines, NEW d \in L1s, NEW data \in Data
  PROVE  /\ GetAckFrom(i, l) \in RoutedTo(LLC)
         /\ Msg("GETS_RESP", RESP, i, d, l, 1, data) \in RoutedTo(d)
         /\ Msg("GETM_RESP", RESP, i, d, l, 0, data) \in RoutedTo(d)
         /\ Msg("GETS", REQ, i, LLC, l, i, NoData) \in RoutedTo(LLC)
         /\ Msg("GETM", REQ, i, LLC, l, i, NoData) \in RoutedTo(LLC)
<1>1. i \in Nodes /\ d \in Nodes /\ LLC \in Nodes /\ i \in Nat /\ LLC \notin L1s /\ NoData \in Data
  BY NodeFacts, DataFacts
<1>2. {"GET_ACK", "GETS_RESP", "GETM_RESP", "GETS", "GETM"} \subseteq MessageTypes
  BY DEF MessageTypes
<1>3. /\ Msg("GET_ACK", ACK, i, LLC, l, i, NoData) \in Message
      /\ Msg("GETS_RESP", RESP, i, d, l, 1, data) \in Message
      /\ Msg("GETM_RESP", RESP, i, d, l, 0, data) \in Message
      /\ Msg("GETS", REQ, i, LLC, l, i, NoData) \in Message
      /\ Msg("GETM", REQ, i, LLC, l, i, NoData) \in Message
  BY <1>1, <1>2, MessageFacts
<1>4. /\ Routed(Msg("GET_ACK", ACK, i, LLC, l, i, NoData))
      /\ Routed(Msg("GETS", REQ, i, LLC, l, i, NoData))
      /\ Routed(Msg("GETM", REQ, i, LLC, l, i, NoData))
  BY <1>1, MsgFacts DEF Routed
<1>5. /\ Routed(Msg("GETS_RESP", RESP, i, d, l, 1, data))
      /\ Routed(Msg("GETM_RESP", RESP, i, d, l, 0, data))
  BY <1>1, MsgFacts DEF Routed, ForL1, Request
<1> QED BY <1>3, <1>4, <1>5, MsgFacts DEF RoutedTo, GetAckFrom

\* So does the acknowledgement of an invalidation.
LEMMA InvalidAckRouted ==
  ASSUME NEW i \in L1s, NEW l \in Lines, NEW d \in L1s \cup {LLC}
  PROVE  Msg("INVALID_ACK", ACK, i, d, l, 0, NoData) \in RoutedTo(d)
<1>1. i \in Nodes /\ d \in Nodes /\ NoData \in Data
  BY NodeFacts, DataFacts
<1>2. Msg("INVALID_ACK", ACK, i, d, l, 0, NoData) \in Message
  BY <1>1, MessageFacts DEF MessageTypes
<1>3. Routed(Msg("INVALID_ACK", ACK, i, d, l, 0, NoData))
  BY MsgFacts DEF Routed, ForL1, Request
<1> QED BY <1>2, <1>3, MsgFacts DEF RoutedTo

\* The line and its entry as the directory sees them.
LEMMA SeenFacts ==
  ASSUME NEW n \in Node, NEW l \in Lines
  PROVE  /\ BlockOf(n, l) \in [st : CacheStates, data : Data] /\ MshrOf(n, l) \in MSHREntry
         /\ MshrOf(n, l).st = n.mshr[l].st /\ MshrOf(n, l).data = n.mshr[l].data
         /\ MshrOf(n, l).hasData = n.mshr[l].hasData /\ MshrOf(n, l).hasNeed = n.mshr[l].hasNeed
         /\ MshrOf(n, l).need = n.mshr[l].need /\ MshrOf(n, l).acks = n.mshr[l].acks
<1>1. n.l2[l] \in Line2 /\ n.l1d[l] \in Line1 /\ n.mshr[l] \in Entry2
  BY NodeFields
<1> QED BY <1>1 DEF BlockOf, MshrOf, MSHREntry, Line2, Line1, Entry2, CacheStates

\* Two entries with the same fields.
LEMMA EntryEqual ==
  ASSUME NEW x \in MSHREntry, NEW y \in MSHREntry, x.st = y.st, x.data = y.data,
         x.hasData <=> y.hasData, x.hasNeed <=> y.hasNeed, x.need = y.need, x.acks = y.acks
  PROVE  x = y
  BY DEF MSHREntry

\* Two copies with the same fields.
LEMMA BlockEqual ==
  ASSUME NEW x \in [st : CacheStates, data : Data], NEW y \in [st : CacheStates, data : Data],
         x.st = y.st, x.data = y.data
  PROVE  x = y
  OBVIOUS

\* An entry whose state or data change.
LEMMA EntryEdits ==
  ASSUME NEW e \in Entry2
  PROVE  /\ \A st \in MSHRStates : [e EXCEPT !.st = st] \in Entry2
         /\ \A d \in Data : [e EXCEPT !.data = d] \in Entry2
         /\ \A k \in Nat : [e EXCEPT !.acks = k] \in Entry2
  BY DEF Entry2

\* The entry goes into another state.
LEMMA StateChanged ==
  ASSUME NEW n \in Node, NEW l \in Lines, NEW b \in Node, NEW st \in MSHRStates,
         b.mshr[l] = [n.mshr[l] EXCEPT !.st = st]
  PROVE  /\ b.mshr[l].st = st /\ b.mshr[l].data = n.mshr[l].data
         /\ b.mshr[l].flag = n.mshr[l].flag /\ b.mshr[l].finish = n.mshr[l].finish
         /\ MshrOf(b, l) = [MshrOf(n, l) EXCEPT !.st = st]
         /\ st = n.mshr[l].st => b.mshr[l] = n.mshr[l]
<1> DEFINE e == n.mshr[l]
           f == b.mshr[l]
           x == MshrOf(n, l)
           y == MshrOf(b, l)
           z == [x EXCEPT !.st = st]
<1>1. e \in Entry2 /\ f \in Entry2 /\ f = [e EXCEPT !.st = st]
  BY NodeFields
<1>2. /\ x \in MSHREntry /\ y \in MSHREntry
      /\ x.st = e.st /\ x.data = e.data /\ x.hasData = e.hasData /\ x.hasNeed = e.hasNeed
      /\ x.need = e.need /\ x.acks = e.acks
      /\ y.st = f.st /\ y.data = f.data /\ y.hasData = f.hasData /\ y.hasNeed = f.hasNeed
      /\ y.need = f.need /\ y.acks = f.acks
  BY ZenonT(60), SeenFacts
<1> HIDE DEF e, f, x, y
<1>3. /\ f.st = st /\ f.data = e.data /\ f.hasData = e.hasData /\ f.hasNeed = e.hasNeed
      /\ f.need = e.need /\ f.acks = e.acks /\ f.flag = e.flag /\ f.finish = e.finish
      /\ st = e.st => f = e
  BY <1>1 DEF Entry2
<1>4. /\ z \in MSHREntry /\ z.st = st /\ z.data = x.data /\ z.hasData = x.hasData
      /\ z.hasNeed = x.hasNeed /\ z.need = x.need /\ z.acks = x.acks
  BY <1>2 DEF MSHREntry
<1> HIDE DEF z
<1>5. y = z
  BY <1>2, <1>3, <1>4, EntryEqual
<1> QED BY <1>3, <1>5 DEF e, f, x, y, z

\* Another node writes the line: the copies go, and what the node asked for goes on without.
LEMMA OnInvalidKeeps ==
  ASSUME NEW n, NodeInv(n), NEW i \in L1s, NEW m \in RoutedTo(i), m.type = "INVALID",
         NEW b \in OnInvalid(n, i, m)
  PROVE  \/ n.mshr[m.line].st \in {"ITOS", "ETOI", "ITOI"} /\ b \in Aborted(n)
         \/ Acts2(n, m.line, Absent, [MshrOf(n, m.line) EXCEPT !.st = AfterInvalid(@)],
                  Also(n.out, Msg("INVALID_ACK", ACK, i, m.arg, m.line, 0, NoData)), b)
<1> DEFINE l == m.line
           x == Msg("INVALID_ACK", ACK, i, m.arg, l, 0, NoData)
           st == n.mshr[l].st
           new == AfterInvalid(st)
           p == [n EXCEPT !.l2[l] = NoL2, !.l1i = @ \ {l}, !.l1d[l] = NoL1D]
           a == Posts(p, x)
           q == [a EXCEPT !.mshr[l].st = new]
<1>1. /\ n \in Node /\ l \in Lines /\ m.arg \in L1s \cup {LLC} /\ n.mshr[l] \in Entry2 /\ LineOK(n, l)
      /\ NoL2 \in Line2 /\ NoL1D \in Line1
  BY NodeFields, DataFacts
     DEF NodeInv, RoutedTo, Routed, Message, NoL2, NoL1D, Line2, Line1, CacheStates
<1>2. x \in RoutedTo(x.dst)
  <2>1. x.dst = m.arg
    BY MsgFacts
  <2> QED BY <2>1, <1>1, InvalidAckRouted
<1>3. CASE st \in {"ITOS", "ETOI", "ITOI"}
  BY <1>3 DEF OnInvalid
<1>4. CASE st \notin {"ITOS", "ETOI", "ITOI"}
  <2>1. b = Ends(q, l)
    BY <1>4 DEF OnInvalid, AfterInvalid
  <2>2. new \in MSHRStates
    BY <1>1 DEF AfterInvalid, Entry2, MSHRStates
  <2> HIDE DEF x, new
  <2>3. /\ p \in Node /\ p.mshr = n.mshr /\ p.dreq = n.dreq /\ p.queue = n.queue
        /\ p.reserved = n.reserved /\ p.out = n.out /\ (p.aborts <=> n.aborts)
        /\ p.l2 = [n.l2 EXCEPT ![l] = NoL2] /\ p.l1d = [n.l1d EXCEPT ![l] = NoL1D]
        /\ p.l1i = n.l1i \ {l}
    BY <1>1 DEF Node
  <2> HIDE DEF p
  <2>4. /\ a \in Node /\ a.l2 = p.l2 /\ a.mshr = p.mshr /\ a.l1d = p.l1d /\ a.l1i = p.l1i
        /\ a.dreq = p.dreq /\ a.queue = p.queue /\ a.reserved = p.reserved
        /\ (a.aborts <=> p.aborts) /\ a.out = Also(p.out, x)
    BY <1>2, <2>3, PostsFields
  <2> HIDE DEF a
  <2> DEFINE e == [a.mshr[l] EXCEPT !.st = new]
  <2>5. e \in Entry2 /\ q = [a EXCEPT !.mshr[l] = e]
    BY <1>1, <2>2, <2>3, <2>4, EntryEdits
  <2> HIDE DEF e, q
  <2>6. /\ q \in Node /\ q.l2 = a.l2 /\ q.l1d = a.l1d /\ q.l1i = a.l1i /\ q.dreq = a.dreq
        /\ q.queue = a.queue /\ q.reserved = a.reserved /\ (q.aborts <=> a.aborts)
        /\ q.out = a.out /\ q.mshr = [a.mshr EXCEPT ![l] = e]
    BY <2>4, <2>5 DEF Node
  <2>7. /\ b \in Node /\ b.l2 = q.l2 /\ b.mshr = q.mshr /\ b.l1d = q.l1d /\ b.l1i = q.l1i
        /\ b.dreq = q.dreq /\ b.queue = q.queue /\ b.out = q.out /\ (b.aborts <=> q.aborts)
        /\ b.reserved = IF q.reserved = l THEN 0 ELSE q.reserved
    BY <2>1, <2>6, EndsFields
  <2>8. /\ b.l2[l] = NoL2 /\ b.l1d[l] = NoL1D /\ b.mshr[l] = [n.mshr[l] EXCEPT !.st = new]
        /\ l \notin b.l1i /\ b.reserved # l /\ Changed(n, l, b)
    <3>1. DOMAIN n.l2 = Lines /\ DOMAIN n.mshr = Lines /\ DOMAIN n.l1d = Lines
      BY <1>1, NodeFields
    <3>2. b.l2[l] = NoL2 /\ b.l1d[l] = NoL1D /\ b.mshr[l] = e
      BY <1>1, <2>3, <2>4, <2>6, <2>7, <3>1
    <3>3. Changed(n, l, b) /\ l \notin b.l1i /\ b.reserved # l
      BY <1>1, <2>3, <2>4, <2>6, <2>7, <3>1, PrivAssumption DEF Changed
    <3> QED BY <2>3, <2>4, <3>2, <3>3 DEF e
  <2>9. /\ b.mshr[l].st = new /\ b.mshr[l].flag = n.mshr[l].flag /\ b.mshr[l].finish = n.mshr[l].finish
        /\ MshrOf(b, l) = [MshrOf(n, l) EXCEPT !.st = new]
        /\ new = st => b.mshr[l] = n.mshr[l]
    BY <1>1, <2>2, <2>7, <2>8, StateChanged
  <2>10. LineOK(b, l)
    <3>1. NoL2.st = "I" /\ NoL2.flag = {} /\ ~NoL1D.in /\ ~NoL1D.dirty /\ ~NoL1D.write
      BY DEF NoL2, NoL1D
    <3>2. new \notin {"STOM", "OTOM"} /\ (new = "-" => st = "-")
      BY <1>1 DEF new, AfterInvalid, Entry2, MSHRStates
    <3>3. Awaited(b.mshr[l], b.dreq, l)
      BY <1>1, <2>8, <2>9, <3>2 DEF LineOK, Awaited, Changed
    <3>4. Copied(b.l2[l], b.mshr[l], b.l1d[l]) /\ Lacking(b.l1d[l], b.dreq, l)
      BY <2>8, <3>1 DEF Copied, Lacking
    <3> QED BY <1>1, <2>8, <2>9, <3>1, <3>2, <3>3, <3>4 DEF LineOK
  <2>11. NodeInv(b) /\ Same(n, b, Lines \ {l})
    BY <1>1, <2>8, <2>10, ChangedKeeps
  <2>12. BlockOf(b, l) = Absent
    BY <2>8, NothingThere
  <2>13. b.out = Also(n.out, x) /\ (b.aborts <=> n.aborts) /\ b.queue = n.queue
         /\ b.reserved \in {0, n.reserved}
    BY <2>3, <2>4, <2>6, <2>7
  <2>14. [MshrOf(n, l) EXCEPT !.st = AfterInvalid(@)] = [MshrOf(n, l) EXCEPT !.st = new]
    BY <1>1, SeenFacts DEF new
  <2> QED BY <2>9, <2>11, <2>12, <2>13, <2>14 DEF Acts2, x
<1> QED BY <1>3, <1>4

\* A node that posts a message is otherwise the same.
LEMMA PostedKeeps ==
  ASSUME NEW n, NodeInv(n), NEW x, x \in RoutedTo(x.dst)
  PROVE  LET b == Posts(n, x) IN
         /\ NodeInv(b) /\ b.l2 = n.l2 /\ b.mshr = n.mshr /\ b.l1d = n.l1d /\ b.dreq = n.dreq
         /\ b.ireq = n.ireq /\ b.queue = n.queue /\ b.reserved = n.reserved /\ (b.aborts <=> n.aborts)
         /\ b.out = Also(n.out, x)
         /\ \A k \in Lines : BlockOf(b, k) = BlockOf(n, k) /\ MshrOf(b, k) = MshrOf(n, k)
<1> DEFINE b == Posts(n, x)
<1>1. /\ b \in Node
      /\ b.l2 = n.l2 /\ b.mshr = n.mshr /\ b.l1d = n.l1d /\ b.l1i = n.l1i /\ b.dreq = n.dreq
      /\ b.ireq = n.ireq /\ b.queue = n.queue /\ b.reserved = n.reserved /\ (b.aborts <=> n.aborts)
      /\ b.out = Also(n.out, x)
  BY PostsFields DEF NodeInv
<1> HIDE DEF b
<1>2. NodeInv(b)
  BY <1>1 DEF NodeInv, LineOK, Included
<1> QED BY <1>1, <1>2 DEF b, BlockOf, MshrOf

\* The line enters, and the node posts a message.
LEMMA EntersPosting ==
  ASSUME NEW n, NodeInv(n), NEW i \in L1s, NEW l \in Lines, n.mshr[l].st # "-",
         NEW st \in {"S", "E", "M"}, NEW data \in Data, NEW x, x \in RoutedTo(x.dst),
         NEW b \in NewLine2(Posts(n, x), i, l, st, data)
  PROVE  Entered2(n, i, l, st, data, Also(n.out, x), b)
<1> DEFINE a == Posts(n, x)
<1>1. /\ NodeInv(a) /\ a.l2 = n.l2 /\ a.mshr = n.mshr
      /\ a.queue = n.queue /\ a.reserved = n.reserved /\ (a.aborts <=> n.aborts)
      /\ a.out = Also(n.out, x)
      /\ \A k \in Lines : BlockOf(a, k) = BlockOf(n, k) /\ MshrOf(a, k) = MshrOf(n, k)
  BY PostedKeeps
<1> HIDE DEF a
<1>2. b \in NewLine2(a, i, l, st, data)
  BY DEF a
<1>3. Entered2(a, i, l, st, data, a.out, b)
  BY <1>1, <1>2, NewLine2Keeps
<1>4. /\ NodeInv(b) /\ (b.aborts <=> n.aborts) /\ b.queue = n.queue /\ b.reserved \in {0, n.reserved}
      /\ BlockOf(b, l) = [st |-> st, data |-> data] /\ MshrOf(b, l) = NoMSHR
  BY <1>1, <1>3 DEF Entered2
<1>5. CASE b.out = a.out /\ Same(a, b, Lines \ {l})
  <2>1. b.out = Also(n.out, x) /\ Same(n, b, Lines \ {l})
    BY <1>1, <1>5 DEF Same
  <2> QED BY <1>4, <2>1 DEF Entered2
<1>6. ASSUME NEW v \in Lines \ {l},
             a.l2[v].st # "I", BlockOf(b, v) = Absent, MshrOf(b, v) = Evicting(BlockOf(a, v)),
             b.out = Also(a.out, Put2(i, v, BlockOf(a, v))), Same(a, b, Lines \ {l, v})
      PROVE  Entered2(n, i, l, st, data, Also(n.out, x), b)
  <2>1. BlockOf(a, v) = BlockOf(n, v) /\ n.l2[v].st # "I" /\ Same(n, b, Lines \ {l, v})
    BY <1>1, <1>6 DEF Same
  <2>2. MshrOf(b, v) = Evicting(BlockOf(n, v)) /\ b.out = Also(Also(n.out, x), Put2(i, v, BlockOf(n, v)))
    BY <1>1, <1>6, <2>1
  <2> QED BY <1>4, <1>6, <2>1, <2>2 DEF Entered2
<1> QED BY <1>3, <1>5, <1>6 DEF Entered2

\* A node that stays as it is.
LEMMA StaysKeeps ==
  ASSUME NEW n, NodeInv(n), NEW l \in Lines
  PROVE  Acts2(n, l, BlockOf(n, l), MshrOf(n, l), n.out, n)
  BY DEF Acts2, Same

GetAckPosted(i, l) == GetAckFrom(i, l) \in RoutedTo(GetAckFrom(i, l).dst)

\* The GET_ACK is the one the directory waits for, and it finds a handler there.
LEMMA GetAckIsPosted ==
  ASSUME NEW i \in L1s, NEW l \in Lines
  PROVE  GetAckPosted(i, l) /\ GetAckFrom(i, l) = GetAck(i, l)
<1>1. GetAckFrom(i, l).dst = LLC
  BY MsgFacts DEF GetAckFrom
<1>2. GetAckFrom(i, l) \in RoutedTo(LLC)
  BY AnswersRouted, DataFacts
<1> QED BY <1>1, <1>2 DEF GetAckPosted, GetAck, GetAckFrom

\* A node notes something in the entry of a line.
LEMMA NotedKeeps ==
  ASSUME NEW n, NodeInv(n), NEW l \in Lines, NEW e \in Entry2,
         e.st = n.mshr[l].st, e.flag = n.mshr[l].flag, e.finish = n.mshr[l].finish, e.st # "-",
         e.data = n.mshr[l].data \/ e.st \notin {"STOM", "OTOM"},
         NEW f \in MSHREntry, f.st = e.st, f.data = e.data, f.hasData <=> e.hasData,
         f.hasNeed <=> e.hasNeed, f.need = e.need, f.acks = e.acks,
         NEW b, b = [n EXCEPT !.mshr[l] = e]
  PROVE  Acts2(n, l, BlockOf(n, l), f, n.out, b)
<1>1. n \in Node /\ LineOK(n, l)
  BY DEF NodeInv
<1>2. /\ b \in Node /\ b.l2 = n.l2 /\ b.l1d = n.l1d /\ b.l1i = n.l1i /\ b.dreq = n.dreq
      /\ b.queue = n.queue /\ b.reserved = n.reserved /\ (b.aborts <=> n.aborts)
      /\ b.out = n.out /\ b.mshr = [n.mshr EXCEPT ![l] = e]
  BY <1>1 DEF Node
<1>3. b.mshr[l] = e /\ \A k \in Lines \ {l} : b.mshr[k] = n.mshr[k]
  BY <1>1, <1>2, NodeFields
<1>4. Changed(n, l, b)
  BY <1>2, <1>3 DEF Changed
<1>5. LineOK(b, l)
  <2>1. Awaited(e, n.dreq, l) /\ (n.l1d[l].in => Included(b, l, "D")) /\ (l \in n.l1i => Included(b, l, "I"))
    BY <1>1, <1>2, <1>3 DEF LineOK, Awaited, Included
  <2>2. n.l2[l].st = "I"
    BY <1>1 DEF LineOK
  <2>3. Copied(n.l2[l], e, n.l1d[l])
    BY <1>1, <2>2 DEF LineOK, Copied, Included
  <2> QED BY <1>1, <1>2, <1>3, <2>1, <2>2, <2>3 DEF LineOK
<1>6. NodeInv(b) /\ Same(n, b, Lines \ {l})
  BY <1>4, <1>5, ChangedKeeps
<1>7. MshrOf(b, l) = f
  <2> DEFINE y == MshrOf(b, l)
  <2>1. /\ y \in MSHREntry /\ y.st = e.st /\ y.data = e.data /\ (y.hasData <=> e.hasData)
        /\ (y.hasNeed <=> e.hasNeed) /\ y.need = e.need /\ y.acks = e.acks
    <3> DEFINE g == b.mshr[l]
    <3>1. /\ y \in MSHREntry /\ y.st = g.st /\ y.data = g.data /\ y.hasData = g.hasData
          /\ y.hasNeed = g.hasNeed /\ y.need = g.need /\ y.acks = g.acks
      BY <1>2, SeenFacts
    <3>2. g = e
      BY <1>3
    <3> HIDE DEF g, y
    <3> QED BY <3>1, <3>2
  <2> HIDE DEF y
  <2>2. y = f
    BY <2>1, EntryEqual
  <2> QED BY <2>2 DEF y
<1>8. BlockOf(b, l) = BlockOf(n, l)
  BY <1>2 DEF BlockOf
<1> QED BY <1>2, <1>6, <1>7, <1>8 DEF Acts2

\* Handled: an assertion of the handler fails, the line enters, or it or its entry change.

\* One who was asked to give its copy up acknowledges that.
LEMMA OnInvalidAckKeeps ==
  ASSUME NEW n, NodeInv(n), NEW i \in L1s, NEW l \in Lines, NEW b \in OnInvalidAck(n, i, l)
  PROVE  LET e == MshrOf(n, l) IN
         \/ e.st = "-" /\ b \in Aborted(n)
         \/ LastAck(e) /\ Entered2(n, i, l, "M", e.data, Also(n.out, GetAck(i, l)), b)
         \/ /\ ~LastAck(e)
            /\ Acts2(n, l, BlockOf(n, l), [e EXCEPT !.acks = IF Collecting(e) THEN @ + 1 ELSE @], n.out, b)
<1> DEFINE e == MshrOf(n, l)
           g == n.mshr[l]
<1>1. n \in Node /\ LineOK(n, l) /\ g \in Entry2
  BY NodeFields DEF NodeInv
<1>2. /\ e \in MSHREntry
      /\ e.st = g.st /\ e.data = g.data /\ e.hasData = g.hasData /\ e.hasNeed = g.hasNeed
      /\ e.need = g.need /\ e.acks = g.acks
  BY <1>1, SeenFacts
<1> HIDE DEF e
<1>3. /\ LastAck(e) <=> Collecting2(g) /\ g.hasNeed /\ g.need = g.acks + 1 /\ HasLineData2(g)
      /\ Collecting(e) <=> Collecting2(g)
  BY <1>2 DEF LastAck, Collecting2, HasLineData2, HasLineData, Collecting
<1>4. CASE g.st = "-"
  BY <1>2, <1>4 DEF OnInvalidAck, e
<1>5. CASE g.st # "-" /\ ~Collecting2(g)
  <2>1. b = n /\ ~LastAck(e) /\ ~Collecting(e)
    BY <1>3, <1>5 DEF OnInvalidAck
  <2>2. [e EXCEPT !.acks = IF Collecting(e) THEN @ + 1 ELSE @] = e
    BY <1>2, <2>1 DEF MSHREntry
  <2>3. Acts2(n, l, BlockOf(n, l), e, n.out, b)
    BY <2>1, StaysKeeps DEF e
  <2> QED BY <2>1, <2>2, <2>3 DEF e
<1>6. CASE LastAck(e)
  <2>1. b \in NewLine2(Posts(n, GetAckFrom(i, l)), i, l, "M", g.data)
    BY <1>3, <1>6 DEF OnInvalidAck, Finished, Collecting2
  <2>2. GetAckPosted(i, l) /\ GetAckFrom(i, l) = GetAck(i, l)
    BY GetAckIsPosted
  <2>3. g.st # "-" /\ g.data \in Data
    BY <1>1, <1>3, <1>6 DEF Collecting2, Entry2
  <2> HIDE DEF g
  <2> DEFINE x == GetAckFrom(i, l)
             d == g.data
  <2>4. x \in RoutedTo(x.dst)
    BY <2>2 DEF GetAckPosted
  <2>5. b \in NewLine2(Posts(n, x), i, l, "M", d) /\ d \in Data /\ n.mshr[l].st # "-"
    BY <2>1, <2>3 DEF g
  <2> HIDE DEF x, d
  <2>6. Entered2(n, i, l, "M", d, Also(n.out, x), b)
    BY <2>4, <2>5, EntersPosting
  <2> QED BY <2>2, <2>6, <1>2, <1>6 DEF x, d, e
<1>7. CASE Collecting2(g) /\ ~LastAck(e)
  <2> DEFINE h == [g EXCEPT !.acks = @ + 1]
             f == [e EXCEPT !.acks = IF Collecting(e) THEN @ + 1 ELSE @]
  <2>1. b = [n EXCEPT !.mshr[l] = h]
    BY <1>3, <1>7 DEF OnInvalidAck, Collecting2
  <2>2. h \in Entry2 /\ h.st = g.st /\ h.flag = g.flag /\ h.finish = g.finish /\ h.data = g.data
        /\ h.hasData = g.hasData /\ h.hasNeed = g.hasNeed /\ h.need = g.need /\ h.acks = g.acks + 1
    BY <1>1 DEF Entry2
  <2>3. f \in MSHREntry /\ f.st = e.st /\ f.data = e.data
        /\ f.hasData = e.hasData /\ f.hasNeed = e.hasNeed /\ f.need = e.need /\ f.acks = e.acks + 1
    BY <1>2, <1>3, <1>7 DEF MSHREntry
  <2>4. g.st # "-"
    BY <1>7 DEF Collecting2
  <2> HIDE DEF f, h
  <2>5. Acts2(n, l, BlockOf(n, l), f, n.out, b)
    <3>1. f.acks = h.acks /\ f.st = h.st /\ f.data = h.data /\ (f.hasData <=> h.hasData)
          /\ (f.hasNeed <=> h.hasNeed) /\ f.need = h.need
      BY <1>2, <2>2, <2>3
    <3> HIDE DEF g
    <3> QED BY <2>1, <2>2, <2>3, <2>4, <3>1, NotedKeeps DEF g
  <2> QED BY <1>7, <2>5 DEF f, e
<1> QED BY <1>4, <1>5, <1>6, <1>7

\* One who learns how many acknowledgements to expect.
LEMMA OnGetMAckKeeps ==
  ASSUME NEW n, NodeInv(n), NEW i \in L1s, NEW m \in RoutedTo(i), NEW b \in OnGetMAck(n, i, m)
  PROVE  LET l == m.line  e == MshrOf(n, l)  all == m.arg = e.acks /\ HasLineData(e) IN
         \/ e.st = "-" /\ b \in Aborted(n)
         \/ all /\ Entered2(n, i, l, "M", e.data, Also(n.out, GetAck(i, l)), b)
         \/ /\ ~all
            /\ Acts2(n, l, BlockOf(n, l),
                     IF Collecting(e) THEN [e EXCEPT !.hasNeed = TRUE, !.need = m.arg] ELSE e, n.out, b)
<1> DEFINE l == m.line
           e == MshrOf(n, l)
           g == n.mshr[l]
           all == m.arg = e.acks /\ HasLineData(e)
<1>1. n \in Node /\ l \in Lines /\ m.arg \in Nat /\ LineOK(n, l) /\ g \in Entry2
  BY NodeFields DEF NodeInv, RoutedTo, Message
<1> HIDE DEF l
<1>2. /\ e \in MSHREntry
      /\ e.st = g.st /\ e.data = g.data /\ e.hasData = g.hasData /\ e.hasNeed = g.hasNeed
      /\ e.need = g.need /\ e.acks = g.acks
  BY <1>1, SeenFacts
<1> HIDE DEF e
<1>3. /\ all => Collecting2(g)
      /\ Collecting2(g) => (all <=> m.arg = g.acks /\ HasLineData2(g))
      /\ Collecting(e) <=> Collecting2(g)
  BY <1>2 DEF Collecting2, HasLineData2, HasLineData, Collecting
<1> HIDE DEF all
<1>a. b \in OnGetMAck(n, i, m) /\ m.line = l
  BY DEF l
<1>4. CASE g.st = "-"
  <2>1. b \in Aborted(n)
    BY <1>4, <1>a DEF OnGetMAck
  <2> QED BY <2>1, <1>2, <1>4 DEF e, l
<1>5. CASE g.st # "-" /\ ~Collecting2(g)
  <2>1. b = n
    BY <1>5, <1>a DEF OnGetMAck
  <2>2. Acts2(n, l, BlockOf(n, l), e, n.out, b)
    BY <2>1, <1>1, StaysKeeps DEF e
  <2>3. ~all /\ ~Collecting(e)
    BY <1>3, <1>5
  <2> QED BY <2>2, <2>3 DEF e, l, all
<1>6. CASE all
  <2>1. b \in NewLine2(Posts(n, GetAckFrom(i, l)), i, l, "M", g.data)
    BY <1>3, <1>6, <1>a DEF OnGetMAck, Finished, Collecting2
  <2>2. GetAckPosted(i, l) /\ GetAckFrom(i, l) = GetAck(i, l)
    BY <1>1, GetAckIsPosted
  <2>3. g.st # "-" /\ g.data \in Data
    BY <1>1, <1>3, <1>6 DEF Collecting2, Entry2
  <2> HIDE DEF g
  <2> DEFINE x == GetAckFrom(i, l)
             d == g.data
  <2>4. x \in RoutedTo(x.dst)
    BY <2>2 DEF GetAckPosted
  <2>5. b \in NewLine2(Posts(n, x), i, l, "M", d) /\ d \in Data /\ n.mshr[l].st # "-"
    BY <2>1, <2>3 DEF g
  <2> HIDE DEF x, d
  <2>6. Entered2(n, i, l, "M", d, Also(n.out, x), b)
    BY <2>4, <2>5, <1>1, EntersPosting
  <2>7. Entered2(n, i, l, "M", e.data, Also(n.out, GetAck(i, l)), b)
    BY <2>2, <2>6, <1>2 DEF x, d
  <2> QED BY <2>7, <1>6 DEF e, l, all
<1>7. CASE Collecting2(g) /\ ~all
  <2> DEFINE h == [g EXCEPT !.hasNeed = TRUE, !.need = m.arg]
             f == [e EXCEPT !.hasNeed = TRUE, !.need = m.arg]
  <2>1. b = [n EXCEPT !.mshr[l] = h]
    <3>1. b = [n EXCEPT !.mshr[l].hasNeed = TRUE, !.mshr[l].need = m.arg]
      BY <1>3, <1>7, <1>a DEF OnGetMAck, Collecting2
    <3> DEFINE s == [g EXCEPT !.hasNeed = TRUE]
               o == [n EXCEPT !.mshr[l] = s]
    <3>2. o.mshr = [n.mshr EXCEPT ![l] = s] /\ n.mshr \in [Lines -> Entry2] /\ o \in Node
      <4>1. s \in Entry2
        BY <1>1 DEF Entry2
      <4> HIDE DEF s
      <4> QED BY <1>1, <4>1 DEF Node
    <3>3. o.mshr[l] = s
      BY <1>1, <3>2
    <3>4. b = [o EXCEPT !.mshr[l] = [@ EXCEPT !.need = m.arg]]
      BY <3>1
    <3> HIDE DEF s, g
    <3>5. b = [o EXCEPT !.mshr = [o.mshr EXCEPT ![l] = [s EXCEPT !.need = m.arg]]]
      BY <3>3, <3>4
    <3>6. [o.mshr EXCEPT ![l] = [s EXCEPT !.need = m.arg]] = [n.mshr EXCEPT ![l] = [s EXCEPT !.need = m.arg]]
      BY <3>2
    <3> DEFINE w == [n.mshr EXCEPT ![l] = [s EXCEPT !.need = m.arg]]
    <3> HIDE DEF w
    <3>7. [o EXCEPT !.mshr = w] = [n EXCEPT !.mshr = w]
      OBVIOUS
    <3> QED BY <3>5, <3>6, <3>7 DEF w, s
  <2>2. h \in Entry2 /\ h.st = g.st /\ h.flag = g.flag /\ h.finish = g.finish /\ h.data = g.data
        /\ h.hasData = g.hasData /\ h.hasNeed = TRUE /\ h.need = m.arg /\ h.acks = g.acks
    BY <1>1 DEF Entry2
  <2>3. f \in MSHREntry /\ f.st = e.st /\ f.data = e.data
        /\ f.hasData = e.hasData /\ f.hasNeed = TRUE /\ f.need = m.arg /\ f.acks = e.acks
    BY <1>1, <1>2 DEF MSHREntry
  <2>4. g.st # "-"
    BY <1>7 DEF Collecting2
  <2> HIDE DEF f, h
  <2>5. Acts2(n, l, BlockOf(n, l), f, n.out, b)
    <3>1. f.acks = h.acks /\ f.st = h.st /\ f.data = h.data /\ (f.hasData <=> h.hasData)
          /\ (f.hasNeed <=> h.hasNeed) /\ f.need = h.need
      BY <1>2, <2>2, <2>3
    <3> HIDE DEF g
    <3> QED BY <1>1, <2>1, <2>2, <2>3, <2>4, <3>1, NotedKeeps DEF g
  <2>6. Acts2(n, l, BlockOf(n, l), [e EXCEPT !.hasNeed = TRUE, !.need = m.arg], n.out, b)
    BY <2>5 DEF f
  <2>7. ~all /\ Collecting(e)
    BY <1>3, <1>7
  <2> QED BY <2>6, <2>7 DEF e, l, all
<1>8. (g.st = "-") \/ (g.st # "-" /\ ~Collecting2(g)) \/ all \/ (Collecting2(g) /\ ~all)
  BY DEF Collecting2
<1> QED BY <1>4, <1>5, <1>6, <1>7, <1>8

\* A node asks for a line: its entry, and what it sends.
Asking(st, finish, flag) == [NoEntryL2 EXCEPT !.st = st, !.finish = finish, !.flag = flag]
AskFor(i, l, st) == Msg(IF st = "ITOM" THEN "GETM" ELSE "GETS", REQ, i, LLC, l, i, NoData)
AskingFor(finish, flag) == finish \in SUBSET {"I", "S", "M"} /\ flag \in SUBSET PrivFlags

\* The fields of the entry.
LEMMA AskingFacts ==
  ASSUME NEW st \in MSHRStates, NEW finish, NEW flag, AskingFor(finish, flag)
  PROVE  LET e == Asking(st, finish, flag) IN
         /\ e \in Entry2 /\ e.st = st /\ e.finish = finish /\ e.flag = flag /\ e.data = NoData
         /\ ~e.hasData /\ ~e.hasNeed /\ e.need = 0 /\ e.acks = 0
<1>1. /\ NoEntryL2 \in Entry2 /\ NoEntryL2.data = NoData /\ ~NoEntryL2.hasData
      /\ ~NoEntryL2.hasNeed /\ NoEntryL2.need = 0 /\ NoEntryL2.acks = 0
  BY DataFacts DEF NoEntryL2, Entry2, MSHRStates
<1> QED BY <1>1 DEF Asking, AskingFor, Entry2

\* The directory sees the entry as one that waits for the line.
LEMMA AskingSeen ==
  ASSUME NEW b \in Node, NEW l \in Lines, NEW st \in MSHRStates, NEW finish, NEW flag, AskingFor(finish, flag), b.mshr[l] = Asking(st, finish, flag)
  PROVE  MshrOf(b, l) = Waits(st)
<1> DEFINE x == MshrOf(b, l)
           y == Waits(st)
           g == b.mshr[l]
<1>1. /\ x \in MSHREntry /\ x.st = g.st /\ x.data = g.data /\ x.hasData = g.hasData
      /\ x.hasNeed = g.hasNeed /\ x.need = g.need /\ x.acks = g.acks
  BY SeenFacts
<1>2. /\ g.st = st /\ g.data = NoData /\ ~g.hasData /\ ~g.hasNeed /\ g.need = 0 /\ g.acks = 0
  BY AskingFacts
<1>3. /\ y \in MSHREntry /\ y.st = st /\ ~y.hasData /\ ~y.hasNeed /\ y.need = 0 /\ y.acks = 0
  BY WaitsFacts
<1>4. y.data = NoData
  BY DEF Waits, NoMSHR
<1> HIDE DEF x, y, g
<1>5. x = y
  BY <1>1, <1>2, <1>3, <1>4, EntryEqual
<1> QED BY <1>5 DEF x, y

\* The fields of a node after it asks for a line.
LEMMA AsksForFields ==
  ASSUME NEW n \in Node, NEW i \in L1s, NEW l \in Lines, NEW st \in {"ITOM", "ITOS"},
         NEW finish, NEW flag, AskingFor(finish, flag)
  PROVE  LET b == AsksFor(n, i, l, st, finish, flag) IN
         /\ b \in Node /\ b.l2 = n.l2 /\ b.l1d = n.l1d /\ b.l1i = n.l1i /\ b.dreq = n.dreq
         /\ b.ireq = n.ireq /\ b.queue = n.queue /\ b.reserved = n.reserved /\ (b.aborts <=> n.aborts)
         /\ b.mshr = [n.mshr EXCEPT ![l] = Asking(st, finish, flag)]
         /\ b.out = Also(n.out, AskFor(i, l, st))
<1> DEFINE e == Asking(st, finish, flag)
           x == AskFor(i, l, st)
           p == [n EXCEPT !.mshr[l] = e]
           b == Posts(p, x)
<1>1. AsksFor(n, i, l, st, finish, flag) = b
  BY DEF AsksFor, Asking, AskFor
<1>2. e \in Entry2
  BY AskingFacts DEF MSHRStates
<1>3. x \in RoutedTo(x.dst)
  <2>1. x.dst = LLC
    BY MsgFacts DEF AskFor
  <2> HIDE DEF x
  <2>2. x \in RoutedTo(LLC)
    BY AnswersRouted, DataFacts DEF x, AskFor
  <2> QED BY <2>1, <2>2
<1> HIDE DEF e, x
<1>4. /\ p \in Node /\ p.l2 = n.l2 /\ p.l1d = n.l1d /\ p.l1i = n.l1i /\ p.dreq = n.dreq
      /\ p.ireq = n.ireq /\ p.queue = n.queue /\ p.reserved = n.reserved /\ (p.aborts <=> n.aborts)
      /\ p.out = n.out /\ p.mshr = [n.mshr EXCEPT ![l] = e]
  BY <1>2 DEF Node
<1> HIDE DEF p
<1>5. /\ b \in Node /\ b.l2 = p.l2 /\ b.mshr = p.mshr /\ b.l1d = p.l1d /\ b.l1i = p.l1i /\ b.dreq = p.dreq
      /\ b.ireq = p.ireq /\ b.queue = p.queue /\ b.reserved = p.reserved /\ (b.aborts <=> p.aborts)
      /\ b.out = Also(p.out, x)
  BY <1>3, <1>4, PostsFields
<1> HIDE DEF b
<1> QED BY <1>1, <1>4, <1>5 DEF b, e, x

\* The eviction of a line is over.
LEMMA OnPutAckKeeps ==
  ASSUME NEW n, NodeInv(n), NEW i \in L1s, NEW l \in Lines, NEW b \in OnPutAck(n, i, l)
  PROVE  \/ n.mshr[l].st \notin Leaving /\ b \in Aborted(n)
         \/ /\ n.mshr[l].st \in Leaving
            /\ \/ Acts2(n, l, BlockOf(n, l), NoMSHR, n.out, b)
               \/ \E st \in {"ITOM", "ITOS"} :
                    Acts2(n, l, BlockOf(n, l), Waits(st), Also(n.out, AskFor(i, l, st)), b)
<1> DEFINE g == n.mshr[l]
           a == [n EXCEPT !.mshr[l] = NoEntryL2]
<1>1. n \in Node /\ g \in Entry2 /\ LineOK(n, l) /\ NoEntryL2 \in Entry2
  BY NodeFields, DataFacts DEF NodeInv, NoEntryL2, Entry2, MSHRStates
<1>2. CASE g.st \notin Leaving
  BY <1>2 DEF OnPutAck, Leaving
<1>3. ASSUME g.st \in Leaving PROVE n.l2[l].st = "I" /\ ~n.l1d[l].in /\ n.l1d[l] = NoL1D /\ l \notin n.l1i
                                    /\ n.reserved # l
  BY <1>1, <1>3 DEF LineOK, Included, Leaving
<1>4. /\ a \in Node /\ a.l2 = n.l2 /\ a.l1d = n.l1d /\ a.l1i = n.l1i /\ a.dreq = n.dreq
      /\ a.queue = n.queue /\ a.reserved = n.reserved /\ (a.aborts <=> n.aborts)
      /\ a.out = n.out /\ a.mshr = [n.mshr EXCEPT ![l] = NoEntryL2]
  BY <1>1 DEF Node
<1>5. a.mshr[l] = NoEntryL2 /\ \A k \in Lines \ {l} : a.mshr[k] = n.mshr[k]
  BY <1>1, <1>4, NodeFields
<1>6. NoEntryL2.st = "-" /\ NoEntryL2.flag = {} /\ NoEntryL2.finish = {}
      /\ ~NoL1D.in /\ ~NoL1D.dirty /\ ~NoL1D.write
  BY DEF NoEntryL2, NoL1D
<1> HIDE DEF a
<1>7. CASE g.st \in Leaving /\ g.finish = {}
  <2>1. b = a
    BY <1>7 DEF OnPutAck, Leaving, a
  <2>2. Changed(n, l, a)
    BY <1>4, <1>5 DEF Changed
  <2>3. Awaited(NoEntryL2, a.dreq, l) /\ Copied(a.l2[l], NoEntryL2, a.l1d[l]) /\ Lacking(a.l1d[l], a.dreq, l)
    BY <1>1, <1>3, <1>4, <1>6, <1>7 DEF LineOK, Awaited, Copied, Lacking
  <2>4. LineOK(a, l)
    BY <1>1, <1>3, <1>4, <1>5, <1>6, <1>7, <2>3 DEF LineOK
  <2>5. NodeInv(a) /\ Same(n, a, Lines \ {l})
    BY <1>1, <2>2, <2>4, ChangedKeeps
  <2>6. BlockOf(a, l) = BlockOf(n, l)
    BY <1>4 DEF BlockOf
  <2>7. MshrOf(a, l) = NoMSHR
    BY <1>5, NothingThere
  <2> QED BY <1>4, <1>7, <2>1, <2>5, <2>6, <2>7 DEF Acts2
<1>8. CASE g.st \in Leaving /\ g.finish # {}
  <2> DEFINE finish == g.finish
             st == IF "M" \in finish THEN "ITOM" ELSE "ITOS"
  <2>1. b = AsksFor(a, i, l, st, finish, {})
    BY <1>8 DEF OnPutAck, Leaving, a
  <2>2. AskingFor(finish, {}) /\ st \in {"ITOM", "ITOS"} /\ st \in MSHRStates
    BY <1>1 DEF AskingFor, Entry2, MSHRStates
  <2>4. Awaited(g, n.dreq, l) /\ g.finish = finish
    BY <1>1 DEF LineOK
  <2> HIDE DEF g, finish, st
  <2> DEFINE e == Asking(st, finish, {})
  <2>3. e.st = st /\ e.flag = {} /\ e.finish = finish
    BY <2>2, AskingFacts
  <2>5. /\ b \in Node /\ b.l2 = a.l2 /\ b.l1d = a.l1d /\ b.l1i = a.l1i /\ b.dreq = a.dreq
        /\ b.queue = a.queue /\ b.reserved = a.reserved /\ (b.aborts <=> a.aborts)
        /\ b.mshr = [a.mshr EXCEPT ![l] = e] /\ b.out = Also(a.out, AskFor(i, l, st))
    BY <1>4, <2>1, <2>2, AsksForFields
  <2>6. b.mshr[l] = e /\ \A k \in Lines \ {l} : b.mshr[k] = n.mshr[k]
    BY <1>1, <1>4, <1>5, <2>5, NodeFields
  <2>7. MshrOf(b, l) = Waits(st)
    BY <2>2, <2>5, <2>6, AskingSeen
  <2> HIDE DEF e
  <2>8. Changed(n, l, b)
    BY <1>4, <2>5, <2>6 DEF Changed
  <2>9. Awaited(e, b.dreq, l) /\ Copied(b.l2[l], e, b.l1d[l]) /\ Lacking(b.l1d[l], b.dreq, l)
    BY <1>1, <1>3, <1>4, <1>6, <1>8, <2>2, <2>3, <2>4, <2>5 DEF g, LineOK, Awaited, Copied, Lacking
  <2>10. LineOK(b, l)
    BY <1>1, <1>3, <1>4, <1>6, <1>8, <2>2, <2>3, <2>5, <2>6, <2>9 DEF LineOK, g
  <2>11. NodeInv(b) /\ Same(n, b, Lines \ {l}) /\ BlockOf(b, l) = BlockOf(n, l)
    BY <1>1, <1>4, <2>5, <2>8, <2>10, ChangedKeeps DEF BlockOf
  <2>12. Acts2(n, l, BlockOf(n, l), Waits(st), Also(n.out, AskFor(i, l, st)), b)
    BY <1>4, <2>5, <2>7, <2>11 DEF Acts2
  <2> QED BY <1>8, <2>2, <2>12 DEF g
<1> QED BY <1>2, <1>7, <1>8

\* The data cache may no longer write the line, and a reservation on it ends.
ReadOnly(d) == [in |-> d.in, write |-> FALSE, dirty |-> FALSE, data |-> d.data]

\* The fields after the data cache is made to read only.
LEMMA ReadOnlyFields ==
  ASSUME NEW n \in Node, NEW l \in Lines
  PROVE  LET b == snoop_l1d_and_set_readonly(n, l) IN
         /\ b \in Node /\ b.l2 = n.l2 /\ b.mshr = n.mshr /\ b.l1i = n.l1i /\ b.dreq = n.dreq
         /\ b.queue = n.queue /\ b.out = n.out /\ (b.aborts <=> n.aborts)
         /\ b.reserved = IF n.reserved = l THEN 0 ELSE n.reserved
         /\ b.l1d = [n.l1d EXCEPT ![l] = ReadOnly(n.l1d[l])]
<1> DEFINE d == n.l1d[l]
           s == [d EXCEPT !.dirty = FALSE]
           o == [n EXCEPT !.l1d[l] = s]
           p == [n EXCEPT !.l1d[l].dirty = FALSE, !.l1d[l].write = FALSE]
           w == [n.l1d EXCEPT ![l] = ReadOnly(d)]
<1>1. d \in Line1 /\ s \in Line1 /\ [s EXCEPT !.write = FALSE] = ReadOnly(d) /\ ReadOnly(d) \in Line1
  <2>1. d \in Line1
    BY NodeFields
  <2> HIDE DEF d
  <2>2. s \in Line1 /\ ReadOnly(d) \in Line1 /\ [s EXCEPT !.write = FALSE] \in Line1
    BY <2>1 DEF Line1, ReadOnly
  <2>3. s.in = d.in /\ s.data = d.data /\ ~s.dirty
    BY <2>1 DEF Line1
  <2>4. /\ [s EXCEPT !.write = FALSE].in = d.in /\ [s EXCEPT !.write = FALSE].data = d.data
        /\ ~[s EXCEPT !.write = FALSE].dirty /\ ~[s EXCEPT !.write = FALSE].write
    BY <2>1 DEF Line1
  <2>5. ASSUME NEW x \in Line1, NEW y \in Line1, x.in <=> y.in, x.write <=> y.write,
               x.dirty <=> y.dirty, x.data = y.data
        PROVE  x = y
    BY <2>5 DEF Line1
  <2>6. /\ ReadOnly(d).in = d.in /\ ReadOnly(d).data = d.data /\ ~ReadOnly(d).dirty /\ ~ReadOnly(d).write
    BY DEF ReadOnly
  <2> DEFINE x == [s EXCEPT !.write = FALSE]
             y == ReadOnly(d)
  <2> HIDE DEF x, y, s
  <2>7. x = y
    BY <2>1, <2>2, <2>4, <2>5, <2>6 DEF x, y
  <2> QED BY <2>1, <2>2, <2>7 DEF x, y
<1>2. o \in Node /\ o.l1d = [n.l1d EXCEPT ![l] = s]
  <2> HIDE DEF s
  <2> QED BY <1>1 DEF Node
<1>3. o.l1d[l] = s
  BY <1>2, NodeFields
<1>4. p = [o EXCEPT !.l1d[l] = [@ EXCEPT !.write = FALSE]]
  OBVIOUS
<1>5. p = [n EXCEPT !.l1d = w]
  <2>1. p = [o EXCEPT !.l1d = [o.l1d EXCEPT ![l] = [s EXCEPT !.write = FALSE]]]
    <3> HIDE DEF p, s, d
    <3> QED BY <1>3, <1>4
  <2> HIDE DEF p, s, d
  <2>2. [o.l1d EXCEPT ![l] = [s EXCEPT !.write = FALSE]] = w
    BY <1>1, <1>2, NodeFields
  <2> HIDE DEF w
  <2>3. p = [o EXCEPT !.l1d = w]
    BY <2>1, <2>2
  <2> QED BY <2>3
<1>6. w \in [Lines -> Line1]
  BY <1>1, NodeFields
<1> HIDE DEF p, w, d, s
<1>7. /\ p \in Node /\ p.l2 = n.l2 /\ p.mshr = n.mshr /\ p.l1i = n.l1i /\ p.dreq = n.dreq
      /\ p.queue = n.queue /\ p.out = n.out /\ (p.aborts <=> n.aborts) /\ p.reserved = n.reserved
      /\ p.l1d = w
  BY <1>5, <1>6 DEF Node
<1> DEFINE b == Ends(p, l)
<1>8. /\ b \in Node /\ b.l2 = p.l2 /\ b.mshr = p.mshr /\ b.l1d = p.l1d /\ b.l1i = p.l1i /\ b.dreq = p.dreq
      /\ b.queue = p.queue /\ b.out = p.out /\ (b.aborts <=> p.aborts)
      /\ b.reserved = IF p.reserved = l THEN 0 ELSE p.reserved
  BY <1>7, EndsFields
<1>9. snoop_l1d_and_set_readonly(n, l) = b
  BY DEF snoop_l1d_and_set_readonly, p
<1> HIDE DEF b
<1> QED BY <1>7, <1>8, <1>9 DEF w, d

\* The L1s give the line up, and a reservation on it ends.
LEMMA InvalidFields ==
  ASSUME NEW n \in Node, NEW l \in Lines
  PROVE  LET b == snoop_l1_and_invalid(n, l) IN
         /\ b \in Node /\ b.l2 = n.l2 /\ b.mshr = n.mshr /\ b.l1i = n.l1i \ {l} /\ b.dreq = n.dreq
         /\ b.queue = n.queue /\ b.out = n.out /\ (b.aborts <=> n.aborts)
         /\ b.reserved = IF n.reserved = l THEN 0 ELSE n.reserved
         /\ b.l1d = [n.l1d EXCEPT ![l] = NoL1D]
<1> DEFINE p == [n EXCEPT !.l1d[l] = NoL1D, !.l1i = @ \ {l}]
           b == Ends(p, l)
<1>1. NoL1D \in Line1
  BY DataFacts DEF NoL1D, Line1
<1>2. /\ p \in Node /\ p.l2 = n.l2 /\ p.mshr = n.mshr /\ p.l1i = n.l1i \ {l} /\ p.dreq = n.dreq
      /\ p.queue = n.queue /\ p.out = n.out /\ (p.aborts <=> n.aborts) /\ p.reserved = n.reserved
      /\ p.l1d = [n.l1d EXCEPT ![l] = NoL1D]
  BY <1>1 DEF Node
<1>3. snoop_l1_and_invalid(n, l) = b
  BY DEF snoop_l1_and_invalid
<1> HIDE DEF p
<1>4. /\ b \in Node /\ b.l2 = p.l2 /\ b.mshr = p.mshr /\ b.l1d = p.l1d /\ b.l1i = p.l1i /\ b.dreq = p.dreq
      /\ b.queue = p.queue /\ b.out = p.out /\ (b.aborts <=> p.aborts)
      /\ b.reserved = IF p.reserved = l THEN 0 ELSE p.reserved
  BY <1>2, EndsFields
<1> HIDE DEF b
<1> QED BY <1>2, <1>3, <1>4

\* The data of a line the node has, as the directory sees the line.
LEMMA ForwardDataIs ==
  ASSUME NEW n, NodeInv(n), NEW l \in Lines, Forwardable(n, l)
  PROVE  LET c == BlockOf(n, l) IN
         /\ c.st # "I" <=> n.l2[l].st # "I"
         /\ ForwardData(n, l) = IF c.st # "I" THEN c.data ELSE MshrOf(n, l).data
         /\ ForwardData(n, l) \in Data
         /\ n.l1d[l].dirty => n.l2[l].st # "I"
         /\ n.l1d[l].in => ForwardData(n, l) = n.l1d[l].data
<1>1. n \in Node /\ LineOK(n, l) /\ n.l2[l] \in Line2 /\ n.l1d[l] \in Line1 /\ n.mshr[l] \in Entry2
  BY NodeFields DEF NodeInv
<1>2. n.l1d[l].dirty => n.l2[l].st \in {"E", "M"}
  BY <1>1 DEF LineOK, Copied
<1>3. BlockOf(n, l).st # "I" <=> n.l2[l].st # "I"
  BY <1>1, <1>2 DEF BlockOf
<1>4. BlockOf(n, l).data = IF n.l1d[l].dirty THEN n.l1d[l].data ELSE n.l2[l].data
  BY <1>1 DEF BlockOf
<1>5. MshrOf(n, l).data = n.mshr[l].data
  BY <1>1, SeenFacts
<1>6. ForwardData(n, l) = IF n.l1d[l].dirty THEN n.l1d[l].data
                          ELSE IF n.l2[l].st # "I" THEN n.l2[l].data ELSE n.mshr[l].data
  BY DEF ForwardData, Flushed
<1>7. ForwardData(n, l) \in Data
  BY <1>1, <1>6 DEF Line2, Line1, Entry2
<1>8. n.l1d[l].in => ForwardData(n, l) = n.l1d[l].data
  BY <1>1, <1>6 DEF LineOK, Copied
<1> QED BY <1>2, <1>3, <1>4, <1>5, <1>6, <1>7, <1>8

\* Another node reads the line: this one goes on as its owner.
LEMMA OnGetSForwardKeeps ==
  ASSUME NEW n, NodeInv(n), NEW i \in L1s, NEW m \in RoutedTo(i), m.type = "GETS_FORWARD",
         NEW b \in OnGetSForward(n, i, m)
  PROVE  LET l == m.line  c == BlockOf(n, l)  e == MshrOf(n, l) IN
         \/ ~Forwardable(n, l) /\ b \in Aborted(n)
         \/ /\ Forwardable(n, l)
            /\ Acts2(n, l, IF c.st # "I" THEN Owned(c) ELSE c,
                     IF c.st = "I" /\ e.st \in {"MTOI", "ETOI", "STOI"} THEN [e EXCEPT !.st = "OTOI"] ELSE e,
                     Also(n.out, Msg("GETS_RESP", RESP, i, m.arg, l, 1,
                                     IF c.st # "I" THEN c.data ELSE e.data)), b)
<1> DEFINE l == m.line
           c == BlockOf(n, l)
           e == MshrOf(n, l)
           g == n.mshr[l]
           d == ForwardData(n, l)
           x == Msg("GETS_RESP", RESP, i, m.arg, l, 1, d)
           p == snoop_l1d_and_set_readonly(n, l)
           a == Posts(p, x)
<1>1. n \in Node /\ l \in Lines /\ m.arg \in L1s /\ g \in Entry2 /\ LineOK(n, l)
      /\ n.l2[l] \in Line2 /\ n.l1d[l] \in Line1
  BY NodeFields DEF NodeInv, RoutedTo, Routed, Message
<1>2. b \in OnGetSForward(n, i, m) /\ m.line = l
  OBVIOUS
<1> HIDE DEF l
<1>3. CASE ~Forwardable(n, l)
  BY <1>2, <1>3 DEF OnGetSForward, l
<1>4. ASSUME Forwardable(n, l)
      PROVE  Acts2(n, l, IF c.st # "I" THEN Owned(c) ELSE c,
                   IF c.st = "I" /\ e.st \in {"MTOI", "ETOI", "STOI"} THEN [e EXCEPT !.st = "OTOI"] ELSE e,
                   Also(n.out, x), b)
  <2>1. /\ c.st # "I" <=> n.l2[l].st # "I"
        /\ d \in Data /\ (n.l1d[l].in => d = n.l1d[l].data)
        /\ n.l1d[l].dirty => n.l2[l].st # "I"
        /\ d = IF c.st # "I" THEN c.data ELSE MshrOf(n, l).data
    BY <1>1, <1>4, ForwardDataIs
  <2>2. c \in [st : CacheStates, data : Data] /\ e \in MSHREntry /\ e.st = g.st /\ e.data = g.data
    BY <1>1, SeenFacts
  <2>3. b \in IF n.l2[l].st # "I" THEN {[a EXCEPT !.l2[l].st = "O", !.l2[l].data = d]}
              ELSE {[a EXCEPT !.mshr[l].data = d,
                              !.mshr[l].st = IF @ \in {"MTOI", "ETOI", "STOI"} THEN "OTOI" ELSE @]}
    BY <1>2, <1>4 DEF OnGetSForward
  <2>4. x \in RoutedTo(x.dst)
    <3>1. x.dst = m.arg
      BY MsgFacts
    <3> QED BY <3>1, <1>1, <2>1, AnswersRouted
  <2> HIDE DEF d, x, c, e
  <2>5. /\ p \in Node /\ p.l2 = n.l2 /\ p.mshr = n.mshr /\ p.l1i = n.l1i /\ p.dreq = n.dreq
        /\ p.queue = n.queue /\ p.out = n.out /\ (p.aborts <=> n.aborts)
        /\ p.reserved = IF n.reserved = l THEN 0 ELSE n.reserved
        /\ p.l1d = [n.l1d EXCEPT ![l] = ReadOnly(n.l1d[l])]
    BY <1>1, ReadOnlyFields
  <2> HIDE DEF p
  <2>6. /\ a \in Node /\ a.l2 = p.l2 /\ a.mshr = p.mshr /\ a.l1d = p.l1d /\ a.l1i = p.l1i
        /\ a.dreq = p.dreq /\ a.queue = p.queue /\ a.reserved = p.reserved
        /\ (a.aborts <=> p.aborts) /\ a.out = Also(p.out, x)
    BY <2>4, <2>5, PostsFields
  <2> HIDE DEF a
  <2>7. a.l1d[l] = ReadOnly(n.l1d[l]) /\ \A k \in Lines \ {l} : a.l1d[k] = n.l1d[k]
    BY <1>1, <2>5, <2>6, NodeFields
  <2> DEFINE r == ReadOnly(n.l1d[l])
  <2>8. /\ r.in <=> n.l1d[l].in
        /\ ~r.write /\ ~r.dirty /\ r.data = n.l1d[l].data
        /\ ~r.in => r = NoL1D
    <3>1. r.in = n.l1d[l].in /\ r.data = n.l1d[l].data /\ ~r.write /\ ~r.dirty
      BY DEF ReadOnly
    <3>2. ~r.in => r = NoL1D
      <4>1. ReadOnly(NoL1D) = NoL1D
        BY DEF ReadOnly, NoL1D
      <4> QED BY <4>1, <3>1, <1>1 DEF LineOK
    <3> QED BY <3>1, <3>2
  <2> HIDE DEF r
  <2>9. CASE n.l2[l].st # "I"
    <3> DEFINE new == [st |-> "O", data |-> d, flag |-> n.l2[l].flag]
    <3>1. b = [a EXCEPT !.l2[l].st = "O", !.l2[l].data = d]
      BY <2>3, <2>9
    <3>2. new \in Line2 /\ [[a.l2[l] EXCEPT !.st = "O"] EXCEPT !.data = d] = new
      <4>1. a.l2[l] = n.l2[l] /\ n.l2[l] \in Line2
        BY <1>1, <2>5, <2>6
      <4>2. new \in Line2
        BY <1>1, <2>1 DEF Line2, CacheStates
      <4>3. ASSUME NEW z \in Line2, d \in Data
            PROVE [[z EXCEPT !.st = "O"] EXCEPT !.data = d] = [st |-> "O", data |-> d, flag |-> z.flag]
        <5> DEFINE u == [z EXCEPT !.st = "O"]
                   q == [u EXCEPT !.data = d]
                   t == [st |-> "O", data |-> d, flag |-> z.flag]
        <5>1. u \in Line2 /\ u.st = "O" /\ u.flag = z.flag
          BY DEF Line2, CacheStates
        <5> HIDE DEF u
        <5>2. q \in Line2 /\ q.st = "O" /\ q.data = d /\ q.flag = z.flag
          BY <5>1, <4>3 DEF Line2
        <5>3. t \in Line2 /\ t.st = "O" /\ t.data = d /\ t.flag = z.flag
          BY <4>3 DEF Line2, CacheStates
        <5> HIDE DEF q, t
        <5>4. q = t
          BY <5>2, <5>3 DEF Line2
        <5> QED BY <5>4 DEF q, t, u
      <4>4. [[a.l2[l] EXCEPT !.st = "O"] EXCEPT !.data = d] = [st |-> "O", data |-> d, flag |-> a.l2[l].flag]
        BY <4>1, <4>3, <2>1
      <4> QED BY <4>1, <4>2, <4>4
    <3> DEFINE s == [a.l2[l] EXCEPT !.st = "O"]
               o == [a EXCEPT !.l2[l] = s]
               w == [a.l2 EXCEPT ![l] = new]
    <3>3. s \in Line2
      <4>1. a.l2[l] \in Line2
        BY <1>1, <2>6, NodeFields
      <4> QED BY <4>1 DEF Line2, CacheStates
    <3>4. o \in Node /\ o.l2 = [a.l2 EXCEPT ![l] = s]
      <4> HIDE DEF s
      <4> QED BY <2>6, <3>3 DEF Node
    <3>5. o.l2[l] = s
      BY <1>1, <2>6, <3>4, NodeFields
    <3>6. b = [o EXCEPT !.l2[l] = [@ EXCEPT !.data = d]]
      BY <3>1
    <3>7. b = [o EXCEPT !.l2 = [o.l2 EXCEPT ![l] = [s EXCEPT !.data = d]]]
      <4> HIDE DEF s, new
      <4> QED BY <3>5, <3>6
    <3>8. [o.l2 EXCEPT ![l] = [s EXCEPT !.data = d]] = w
      <4>1. [s EXCEPT !.data = d] = new
        BY <3>2
      <4> HIDE DEF s, new
      <4> QED BY <4>1, <1>1, <2>6, <3>4, NodeFields
    <3> HIDE DEF w
    <3>9. b = [o EXCEPT !.l2 = w]
      BY <3>7, <3>8
    <3>10. [o EXCEPT !.l2 = w] = [a EXCEPT !.l2 = w]
      OBVIOUS
    <3>11. w \in [Lines -> Line2] /\ w[l] = new /\ \A k \in Lines \ {l} : w[k] = a.l2[k]
      <4> HIDE DEF new
      <4> QED BY <1>1, <2>6, <3>2, NodeFields DEF w
    <3> HIDE DEF s, o, new
    <3>12. /\ b \in Node /\ b.mshr = a.mshr /\ b.l1d = a.l1d /\ b.l1i = a.l1i /\ b.dreq = a.dreq
           /\ b.queue = a.queue /\ b.reserved = a.reserved /\ (b.aborts <=> a.aborts)
           /\ b.out = a.out /\ b.l2 = w
      BY SMTT(30), <2>6, <3>9, <3>10, <3>11 DEF Node
    <3>13. Changed(n, l, b)
      BY <2>5, <2>6, <2>7, <3>11, <3>12 DEF Changed
    <3>14. new.st = "O" /\ new.data = d /\ new.flag = n.l2[l].flag /\ b.l2[l] = new /\ b.l1d[l] = r
           /\ b.mshr[l] = n.mshr[l] /\ b.l1i = n.l1i /\ b.reserved # l /\ b.dreq = n.dreq
      BY <1>1, <2>5, <2>6, <2>7, <3>11, <3>12, PrivAssumption DEF new, r
    <3>15. LineOK(b, l)
      <4>1. Copied(b.l2[l], b.mshr[l], b.l1d[l]) /\ Lacking(b.l1d[l], b.dreq, l)
        BY <1>1, <2>1, <2>8, <3>14 DEF LineOK, Copied, Lacking
      <4>2. (b.l1d[l].in => Included(b, l, "D")) /\ (l \in b.l1i => Included(b, l, "I"))
        BY <1>1, <2>8, <2>9, <3>14 DEF LineOK, Included
      <4> QED BY <1>1, <2>8, <2>9, <3>14, <4>1, <4>2 DEF LineOK
    <3>16. NodeInv(b) /\ Same(n, b, Lines \ {l})
      BY <1>1, <3>13, <3>15, ChangedKeeps
    <3>17. BlockOf(b, l) = Owned(c)
      <4>1. BlockOf(b, l) = [st |-> "O", data |-> d]
        BY <2>8, <3>14 DEF BlockOf
      <4>2. Owned(c) = [st |-> "O", data |-> c.data]
        BY <2>2 DEF Owned
      <4> QED BY <4>1, <4>2, <2>1, <2>9
    <3>18. MshrOf(b, l) = e
      BY <3>14 DEF MshrOf, e
    <3> QED BY <2>1, <2>5, <2>6, <2>9, <3>12, <3>16, <3>17, <3>18 DEF Acts2
  <2>10. CASE n.l2[l].st = "I"
    <3> DEFINE st == IF g.st \in {"MTOI", "ETOI", "STOI"} THEN "OTOI" ELSE g.st
               new == [g EXCEPT !.st = st]
               o == [a EXCEPT !.mshr[l].data = d]
    <3>1. /\ HasInMSHR(n, l) /\ ~n.l1d[l].dirty /\ d = g.data
          /\ g.st \in {"STOM", "MTOI", "STOI", "ETOI", "OTOM", "OTOI"}
      BY <1>4, <2>1, <2>2, <2>10 DEF Forwardable, HasInMSHR, e
    <3>2. st \in MSHRStates /\ st # "-" /\ (st \in {"STOM", "OTOM"} <=> g.st \in {"STOM", "OTOM"})
          /\ (st \in {"STOM", "OTOM"} => st = g.st)
      BY <3>1 DEF MSHRStates
    <3>3. a.mshr = n.mshr /\ a.mshr[l] = g /\ n.mshr \in [Lines -> Entry2] /\ a.l2 = n.l2
      BY <1>1, <2>5, <2>6, NodeFields
    <3>4. o = a
      <4>1. o = [a EXCEPT !.mshr = [a.mshr EXCEPT ![l] = [a.mshr[l] EXCEPT !.data = d]]]
        OBVIOUS
      <4>2. [a.mshr[l] EXCEPT !.data = d] = a.mshr[l]
        <5>1. ASSUME NEW z \in Entry2 PROVE [z EXCEPT !.data = z.data] = z
          BY DEF Entry2
        <5> QED BY <1>1, <3>1, <3>3, <5>1
      <4> HIDE DEF o
      <4>3. o = [a EXCEPT !.mshr = [a.mshr EXCEPT ![l] = a.mshr[l]]]
        BY <4>1, <4>2
      <4>4. [a.mshr EXCEPT ![l] = a.mshr[l]] = a.mshr
        BY <3>3
      <4>5. [a EXCEPT !.mshr = a.mshr] = a
        BY <2>6 DEF Node
      <4> QED BY <4>3, <4>4, <4>5
    <3>5. b = [o EXCEPT !.mshr[l].st = IF a.mshr[l].st \in {"MTOI", "ETOI", "STOI"}
                                      THEN "OTOI" ELSE a.mshr[l].st]
      BY <2>3, <2>10
    <3>6. b = [a EXCEPT !.mshr[l] = new]
      <4> HIDE DEF o
      <4>1. b = [a EXCEPT !.mshr[l].st = IF a.mshr[l].st \in {"MTOI", "ETOI", "STOI"}
                                        THEN "OTOI" ELSE a.mshr[l].st]
        BY <3>4, <3>5
      <4>2. [a.mshr EXCEPT ![l].st = st] = [a.mshr EXCEPT ![l] = new]
        BY <3>3
      <4> QED BY <4>1, <4>2, <3>3
    <3>7. new \in Entry2
      BY <1>1, <3>2, EntryEdits
    <3> HIDE DEF new, o, st, g
    <3>8. /\ b \in Node /\ b.l2 = a.l2 /\ b.l1d = a.l1d /\ b.l1i = a.l1i /\ b.dreq = a.dreq
          /\ b.queue = a.queue /\ b.reserved = a.reserved /\ (b.aborts <=> a.aborts)
          /\ b.out = a.out /\ b.mshr = [a.mshr EXCEPT ![l] = new]
      BY SMTT(30), <2>6, <3>6, <3>7 DEF Node
    <3>9. b.mshr[l] = new /\ \A k \in Lines \ {l} : b.mshr[k] = n.mshr[k]
      BY <1>1, <3>3, <3>8
    <3>10. b.mshr[l] = [n.mshr[l] EXCEPT !.st = st]
      BY <3>9 DEF new, g
    <3>11. /\ b.mshr[l].st = st /\ b.mshr[l].data = g.data /\ b.mshr[l].flag = g.flag
           /\ b.mshr[l].finish = g.finish /\ MshrOf(b, l) = [e EXCEPT !.st = st]
      <4>1. /\ b.mshr[l].st = st /\ b.mshr[l].data = n.mshr[l].data /\ b.mshr[l].flag = n.mshr[l].flag
            /\ b.mshr[l].finish = n.mshr[l].finish /\ MshrOf(b, l) = [MshrOf(n, l) EXCEPT !.st = st]
        <5>1. n \in Node /\ l \in Lines /\ b \in Node /\ st \in MSHRStates
          BY <1>1, <3>2, <3>8
        <5> QED BY <5>1, <3>10, StateChanged
      <4> QED BY <4>1 DEF e, g
    <3>12. Changed(n, l, b)
      BY <2>5, <2>6, <2>7, <3>8, <3>9 DEF Changed
    <3>13. b.l1d[l] = r /\ b.l2[l] = n.l2[l] /\ b.l1i = n.l1i /\ b.reserved # l /\ b.dreq = n.dreq
      BY <1>1, <2>5, <2>6, <2>7, <3>8, PrivAssumption DEF r
    <3>14. LineOK(b, l)
      <4>1. Copied(b.l2[l], b.mshr[l], b.l1d[l]) /\ Lacking(b.l1d[l], b.dreq, l)
        BY <1>1, <2>1, <2>8, <2>10, <3>1, <3>11, <3>13 DEF LineOK, Copied, Lacking
      <4>2. (b.l1d[l].in => Included(b, l, "D")) /\ (l \in b.l1i => Included(b, l, "I"))
        BY <1>1, <2>8, <2>10, <3>2, <3>11, <3>13 DEF LineOK, Included, g
      <4>3. Awaited(b.mshr[l], b.dreq, l)
        BY <1>1, <3>2, <3>11, <3>13 DEF LineOK, Awaited, g
      <4> QED BY <1>1, <2>8, <2>10, <3>2, <3>11, <3>13, <4>1, <4>2, <4>3 DEF LineOK
    <3>15. NodeInv(b) /\ Same(n, b, Lines \ {l})
      BY <1>1, <3>12, <3>14, ChangedKeeps
    <3>16. BlockOf(b, l) = c
      BY <2>8, <3>1, <3>13 DEF BlockOf, c
    <3>17. MshrOf(b, l) = IF e.st \in {"MTOI", "ETOI", "STOI"} THEN [e EXCEPT !.st = "OTOI"] ELSE e
      <4>1. ASSUME NEW z \in MSHREntry PROVE [z EXCEPT !.st = z.st] = z
        BY DEF MSHREntry
      <4> QED BY <4>1, <2>2, <3>11 DEF st, g
    <3> QED BY <2>1, <2>5, <2>6, <2>10, <3>8, <3>15, <3>16, <3>17 DEF Acts2
  <2> QED BY <2>9, <2>10
<1>5. CASE Forwardable(n, l)
  <2>1. ForwardData(n, l) = IF c.st # "I" THEN c.data ELSE e.data
    BY <1>1, <1>5, ForwardDataIs
  <2>2. x = Msg("GETS_RESP", RESP, i, m.arg, l, 1, IF c.st # "I" THEN c.data ELSE e.data)
    BY <2>1
  <2> HIDE DEF x, c, e
  <2> QED BY <1>4, <1>5, <2>2 DEF l, c, e
<1> QED BY <1>3, <1>5

\* Another node is to write the line: this one has nothing of it any more.
LEMMA OnGetMForwardKeeps ==
  ASSUME NEW n, NodeInv(n), NEW i \in L1s, NEW m \in RoutedTo(i), m.type = "GETM_FORWARD",
         NEW b \in OnGetMForward(n, i, m)
  PROVE  LET l == m.line  c == BlockOf(n, l)  e == MshrOf(n, l) IN
         \/ ~Forwardable(n, l) /\ b \in Aborted(n)
         \/ /\ Forwardable(n, l)
            /\ Acts2(n, l, Absent, IF c.st # "I" THEN e ELSE [e EXCEPT !.st = AfterGetM(@)],
                     Also(n.out, Msg("GETM_RESP", RESP, i, m.arg, l, 0,
                                     IF c.st # "I" THEN c.data ELSE e.data)), b)
<1> DEFINE l == m.line
           c == BlockOf(n, l)
           e == MshrOf(n, l)
           g == n.mshr[l]
           x == Msg("GETM_RESP", RESP, i, m.arg, l, 0, ForwardData(n, l))
           p == snoop_l1_and_invalid(n, l)
           a == Posts(p, x)
<1>1. n \in Node /\ l \in Lines /\ m.arg \in L1s /\ g \in Entry2 /\ LineOK(n, l)
      /\ n.l2[l] \in Line2 /\ n.l1d[l] \in Line1
  BY NodeFields DEF NodeInv, RoutedTo, Routed, Message
<1>2. b \in OnGetMForward(n, i, m) /\ m.line = l
  OBVIOUS
<1> HIDE DEF l
<1>3. CASE ~Forwardable(n, l)
  BY <1>2, <1>3 DEF OnGetMForward, l
<1>4. ASSUME Forwardable(n, l)
      PROVE  Acts2(n, l, Absent, IF c.st # "I" THEN e ELSE [e EXCEPT !.st = AfterGetM(@)], Also(n.out, x), b)
  <2>1. /\ c.st # "I" <=> n.l2[l].st # "I"
        /\ ForwardData(n, l) \in Data
    BY <1>1, <1>4, ForwardDataIs
  <2>2. e \in MSHREntry /\ e.st = g.st
    BY <1>1, SeenFacts
  <2>3. b \in IF n.l2[l].st # "I" THEN {[a EXCEPT !.l2[l] = NoL2]}
              ELSE {[a EXCEPT !.mshr[l].st = IF @ \in {"STOM", "OTOM"} THEN "ITOM" ELSE "ITOI"]}
    BY <1>2, <1>4 DEF OnGetMForward
  <2>4. x \in RoutedTo(x.dst)
    <3>1. x.dst = m.arg
      BY MsgFacts
    <3> QED BY <3>1, <1>1, <2>1, AnswersRouted
  <2> HIDE DEF x, c, e
  <2>5. /\ p \in Node /\ p.l2 = n.l2 /\ p.mshr = n.mshr /\ p.l1i = n.l1i \ {l} /\ p.dreq = n.dreq
        /\ p.queue = n.queue /\ p.out = n.out /\ (p.aborts <=> n.aborts)
        /\ p.reserved = IF n.reserved = l THEN 0 ELSE n.reserved
        /\ p.l1d = [n.l1d EXCEPT ![l] = NoL1D]
    BY <1>1, InvalidFields
  <2> HIDE DEF p
  <2>6. /\ a \in Node /\ a.l2 = p.l2 /\ a.mshr = p.mshr /\ a.l1d = p.l1d /\ a.l1i = p.l1i
        /\ a.dreq = p.dreq /\ a.queue = p.queue /\ a.reserved = p.reserved
        /\ (a.aborts <=> p.aborts) /\ a.out = Also(p.out, x)
    BY <2>4, <2>5, PostsFields
  <2> HIDE DEF a
  <2>7. /\ a.l1d[l] = NoL1D /\ \A k \in Lines \ {l} : a.l1d[k] = n.l1d[k]
        /\ l \notin a.l1i /\ \A k \in Lines \ {l} : k \in a.l1i <=> k \in n.l1i
    BY <1>1, <2>5, <2>6, NodeFields
  <2>8. NoL2.st = "I" /\ NoL2.flag = {} /\ ~NoL1D.in /\ ~NoL1D.dirty /\ ~NoL1D.write /\ NoL2.data = NoData
    BY DEF NoL2, NoL1D
  <2>9. CASE n.l2[l].st # "I"
    <3>1. b = [a EXCEPT !.l2[l] = NoL2]
      BY <2>3, <2>9
    <3>2. NoL2 \in Line2
      BY DataFacts DEF NoL2, Line2, CacheStates
    <3>3. /\ b \in Node /\ b.mshr = a.mshr /\ b.l1d = a.l1d /\ b.l1i = a.l1i /\ b.dreq = a.dreq
          /\ b.queue = a.queue /\ b.reserved = a.reserved /\ (b.aborts <=> a.aborts)
          /\ b.out = a.out /\ b.l2 = [a.l2 EXCEPT ![l] = NoL2]
      BY SMTT(30), <2>6, <3>1, <3>2 DEF Node
    <3>4. /\ b.l2[l] = NoL2 /\ \A k \in Lines \ {l} : b.l2[k] = n.l2[k]
          /\ b.l1d[l] = NoL1D /\ l \notin b.l1i /\ b.mshr[l] = g /\ b.reserved # l /\ b.dreq = n.dreq
      BY <1>1, <2>5, <2>6, <2>7, <3>3, NodeFields, PrivAssumption
    <3>5. Changed(n, l, b)
      BY <2>5, <2>6, <2>7, <3>3, <3>4 DEF Changed
    <3>6. LineOK(b, l)
      <4>1. g.st = "-" /\ Awaited(g, n.dreq, l)
        BY <1>1, <2>9 DEF LineOK
      <4>2. Copied(b.l2[l], b.mshr[l], b.l1d[l]) /\ Lacking(b.l1d[l], b.dreq, l)
        BY <2>8, <3>4 DEF Copied, Lacking
      <4> QED BY <1>1, <2>8, <3>4, <4>1, <4>2 DEF LineOK
    <3>7. NodeInv(b) /\ Same(n, b, Lines \ {l})
      BY <1>1, <3>5, <3>6, ChangedKeeps
    <3>8. BlockOf(b, l) = Absent /\ MshrOf(b, l) = e
      BY <3>4, NothingThere DEF MshrOf, e
    <3> QED BY <2>1, <2>5, <2>6, <2>9, <3>3, <3>7, <3>8 DEF Acts2
  <2>10. CASE n.l2[l].st = "I"
    <3> DEFINE st == IF g.st \in {"STOM", "OTOM"} THEN "ITOM" ELSE "ITOI"
               new == [g EXCEPT !.st = st]
    <3>1. g.st \in {"STOM", "MTOI", "STOI", "ETOI", "OTOM", "OTOI"} /\ n.l2[l] = NoL2
      BY <1>1, <1>4, <2>10 DEF Forwardable, HasInMSHR, LineOK
    <3>2. st \in MSHRStates /\ st \in {"ITOM", "ITOI"}
      BY DEF MSHRStates
    <3>3. a.mshr = n.mshr /\ a.mshr[l] = g /\ n.mshr \in [Lines -> Entry2] /\ a.l2 = n.l2
      BY <1>1, <2>5, <2>6, NodeFields
    <3>4. b = [a EXCEPT !.mshr[l].st = IF a.mshr[l].st \in {"STOM", "OTOM"} THEN "ITOM" ELSE "ITOI"]
      BY <2>3, <2>10
    <3>5. b = [a EXCEPT !.mshr[l] = new]
      <4>1. [a.mshr EXCEPT ![l].st = st] = [a.mshr EXCEPT ![l] = new]
        BY <3>3
      <4> QED BY <4>1, <3>3, <3>4
    <3>6. new \in Entry2
      BY <1>1, <3>2, EntryEdits
    <3> HIDE DEF new, st, g
    <3>7. /\ b \in Node /\ b.l2 = a.l2 /\ b.l1d = a.l1d /\ b.l1i = a.l1i /\ b.dreq = a.dreq
          /\ b.queue = a.queue /\ b.reserved = a.reserved /\ (b.aborts <=> a.aborts)
          /\ b.out = a.out /\ b.mshr = [a.mshr EXCEPT ![l] = new]
      BY <2>6, <3>5, <3>6 DEF Node
    <3>8. b.mshr[l] = new /\ \A k \in Lines \ {l} : b.mshr[k] = n.mshr[k]
      BY <1>1, <3>3, <3>7
    <3>9. b.mshr[l] = [n.mshr[l] EXCEPT !.st = st]
      BY <3>8 DEF new, g
    <3>10. /\ b.mshr[l].st = st /\ b.mshr[l].data = g.data /\ b.mshr[l].flag = g.flag
           /\ b.mshr[l].finish = g.finish /\ MshrOf(b, l) = [e EXCEPT !.st = st]
      <4>1. /\ b.mshr[l].st = st /\ b.mshr[l].data = n.mshr[l].data /\ b.mshr[l].flag = n.mshr[l].flag
            /\ b.mshr[l].finish = n.mshr[l].finish /\ MshrOf(b, l) = [MshrOf(n, l) EXCEPT !.st = st]
        <5>1. n \in Node /\ l \in Lines /\ b \in Node /\ st \in MSHRStates
          BY <1>1, <3>2, <3>7
        <5> QED BY <5>1, <3>9, StateChanged
      <4> QED BY <4>1 DEF e, g
    <3>11. Changed(n, l, b)
      BY <2>5, <2>6, <2>7, <3>7, <3>8 DEF Changed
    <3>12. /\ b.l1d[l] = NoL1D /\ b.l2[l] = NoL2 /\ l \notin b.l1i /\ b.reserved # l /\ b.dreq = n.dreq
      BY <1>1, <2>5, <2>6, <2>7, <3>1, <3>7, PrivAssumption
    <3>13. LineOK(b, l)
      <4>1. Copied(b.l2[l], b.mshr[l], b.l1d[l]) /\ Lacking(b.l1d[l], b.dreq, l)
        BY <2>8, <3>12 DEF Copied, Lacking
      <4>2. Awaited(b.mshr[l], b.dreq, l)
        BY <1>1, <3>2, <3>10, <3>12 DEF LineOK, Awaited, g
      <4> QED BY <2>8, <3>2, <3>10, <3>12, <4>1, <4>2 DEF LineOK
    <3>14. NodeInv(b) /\ Same(n, b, Lines \ {l})
      BY <1>1, <3>11, <3>13, ChangedKeeps
    <3>15. BlockOf(b, l) = Absent
      BY <3>12, NothingThere
    <3>16. MshrOf(b, l) = [e EXCEPT !.st = AfterGetM(@)]
      BY <2>2, <3>1, <3>10 DEF st, AfterGetM
    <3> QED BY <2>1, <2>5, <2>6, <2>10, <3>7, <3>14, <3>15, <3>16 DEF Acts2
  <2> QED BY <2>9, <2>10
<1>5. CASE Forwardable(n, l)
  <2>1. ForwardData(n, l) = IF c.st # "I" THEN c.data ELSE e.data
    BY <1>1, <1>5, ForwardDataIs
  <2>2. x = Msg("GETM_RESP", RESP, i, m.arg, l, 0, IF c.st # "I" THEN c.data ELSE e.data)
    BY <2>1
  <2> HIDE DEF x, c, e
  <2> QED BY <1>4, <1>5, <2>2 DEF l, c, e
<1> QED BY <1>3, <1>5

\* The line enters, and a node says to the directory that it has it.
LEMMA EntersAcknowledged ==
  ASSUME NEW n, NodeInv(n), NEW i \in L1s, NEW l \in Lines, n.mshr[l].st # "-",
         NEW st \in {"S", "E", "M"}, NEW data \in Data,
         NEW b \in NewLine2(Posts(n, GetAckFrom(i, l)), i, l, st, data)
  PROVE  Entered2(n, i, l, st, data, Also(n.out, GetAck(i, l)), b)
<1> DEFINE x == GetAckFrom(i, l)
<1>1. x \in RoutedTo(x.dst) /\ x = GetAck(i, l)
  BY GetAckIsPosted DEF GetAckPosted
<1>2. b \in NewLine2(Posts(n, x), i, l, st, data)
  OBVIOUS
<1> HIDE DEF x
<1>3. Entered2(n, i, l, st, data, Also(n.out, x), b)
  BY <1>1, <1>2, EntersPosting
<1> QED BY <1>1, <1>3

\* The data of a reader arrive, from another node or from the LLC.
LEMMA OnGetSRespKeeps ==
  ASSUME NEW n, NodeInv(n), NEW i \in L1s, NEW m \in RoutedTo(i), NEW b \in OnGetSResp(n, i, m)
  PROVE  LET l == m.line IN
         \/ n.mshr[l].st = "-" /\ b \in Aborted(n)
         \/ m.arg > 0 /\ Entered2(n, i, l, "S", m.data, Also(n.out, GetAck(i, l)), b)
         \/ ~(m.arg > 0) /\ Entered2(n, i, l, "E", m.data, n.out, b)
<1> DEFINE l == m.line
<1>1. l \in Lines /\ m.data \in Data
  BY DEF RoutedTo, Message
<1>2. b \in OnGetSResp(n, i, m) /\ m.line = l
  OBVIOUS
<1> HIDE DEF l
<1>3. CASE n.mshr[l].st = "-"
  BY <1>2, <1>3 DEF OnGetSResp
<1>4. CASE n.mshr[l].st # "-" /\ m.arg > 0
  <2>1. b \in NewLine2(Posts(n, GetAckFrom(i, l)), i, l, "S", m.data)
    BY <1>2, <1>4 DEF OnGetSResp
  <2> QED BY <1>1, <1>2, <1>4, <2>1, EntersAcknowledged
<1>5. CASE n.mshr[l].st # "-" /\ ~(m.arg > 0)
  <2>1. b \in NewLine2(n, i, l, "E", m.data)
    BY <1>2, <1>5 DEF OnGetSResp
  <2> QED BY <1>1, <1>2, <1>5, <2>1, NewLine2Keeps
<1> QED BY <1>3, <1>4, <1>5

\* The data of a writer arrive, before or after the acknowledgements.
LEMMA OnGetMRespKeeps ==
  ASSUME NEW n, NodeInv(n), NEW i \in L1s, NEW m \in RoutedTo(i), NEW b \in OnGetMResp(n, i, m)
  PROVE  LET l == m.line  e == MshrOf(n, l)  early == m.arg = 0 /\ (~e.hasNeed \/ e.need # e.acks) IN
         \/ e.st # "ITOM" /\ b \in Aborted(n)
         \/ /\ early
            /\ Acts2(n, l, BlockOf(n, l), [e EXCEPT !.data = m.data, !.hasData = TRUE], n.out, b)
         \/ /\ ~early
            /\ Entered2(n, i, l, "M", m.data, IF m.arg = 0 THEN Also(n.out, GetAck(i, l)) ELSE n.out, b)
<1> DEFINE l == m.line
           e == MshrOf(n, l)
           g == n.mshr[l]
           early == m.arg = 0 /\ (~e.hasNeed \/ e.need # e.acks)
<1>1. n \in Node /\ l \in Lines /\ m.data \in Data /\ LineOK(n, l) /\ g \in Entry2
  BY NodeFields DEF NodeInv, RoutedTo, Message
<1> HIDE DEF l
<1>2. /\ e \in MSHREntry
      /\ e.st = g.st /\ e.data = g.data /\ e.hasData = g.hasData /\ e.hasNeed = g.hasNeed
      /\ e.need = g.need /\ e.acks = g.acks
  BY <1>1, SeenFacts
<1> HIDE DEF e
<1>a. b \in OnGetMResp(n, i, m) /\ m.line = l
  BY DEF l
<1>3. early <=> m.arg = 0 /\ (~g.hasNeed \/ g.need # g.acks)
  BY <1>2
<1> HIDE DEF early
<1>4. CASE g.st # "ITOM"
  <2>1. b \in Aborted(n)
    BY <1>4, <1>a DEF OnGetMResp
  <2> QED BY <2>1, <1>2, <1>4 DEF e, l
<1>5. CASE g.st = "ITOM" /\ ~early /\ m.arg = 0
  <2>1. b \in NewLine2(Posts(n, GetAckFrom(i, l)), i, l, "M", m.data)
    BY <1>3, <1>5, <1>a DEF OnGetMResp
  <2>2. Entered2(n, i, l, "M", m.data, Also(n.out, GetAck(i, l)), b)
    BY <1>1, <1>5, <2>1, EntersAcknowledged
  <2> QED BY <1>5, <2>2 DEF l, e, early
<1>6. CASE g.st = "ITOM" /\ ~early /\ m.arg # 0
  <2>1. b \in NewLine2(n, i, l, "M", m.data)
    BY <1>3, <1>6, <1>a DEF OnGetMResp
  <2>2. Entered2(n, i, l, "M", m.data, n.out, b)
    BY <1>1, <1>6, <2>1, NewLine2Keeps
  <2> QED BY <1>6, <2>2 DEF l, e, early
<1>7. CASE g.st = "ITOM" /\ early
  <2> DEFINE h == [g EXCEPT !.data = m.data, !.hasData = TRUE]
             f == [e EXCEPT !.data = m.data, !.hasData = TRUE]
  <2>1. b = [n EXCEPT !.mshr[l] = h]
    <3>1. b = [n EXCEPT !.mshr[l].data = m.data, !.mshr[l].hasData = TRUE]
      BY <1>3, <1>7, <1>a DEF OnGetMResp
    <3> DEFINE s == [g EXCEPT !.data = m.data]
               o == [n EXCEPT !.mshr[l] = s]
    <3>2. o.mshr = [n.mshr EXCEPT ![l] = s] /\ n.mshr \in [Lines -> Entry2] /\ o \in Node
      <4>1. s \in Entry2
        BY <1>1, EntryEdits
      <4> HIDE DEF s
      <4> QED BY <1>1, <4>1 DEF Node
    <3>3. o.mshr[l] = s
      BY <1>1, <3>2
    <3>4. b = [o EXCEPT !.mshr[l] = [@ EXCEPT !.hasData = TRUE]]
      BY <3>1
    <3> HIDE DEF s, g
    <3>5. b = [o EXCEPT !.mshr = [o.mshr EXCEPT ![l] = [s EXCEPT !.hasData = TRUE]]]
      BY <3>3, <3>4
    <3>6. [o.mshr EXCEPT ![l] = [s EXCEPT !.hasData = TRUE]] = [n.mshr EXCEPT ![l] = [s EXCEPT !.hasData = TRUE]]
      BY <3>2
    <3> DEFINE w == [n.mshr EXCEPT ![l] = [s EXCEPT !.hasData = TRUE]]
    <3> HIDE DEF w
    <3>7. [o EXCEPT !.mshr = w] = [n EXCEPT !.mshr = w]
      OBVIOUS
    <3> QED BY <3>5, <3>6, <3>7 DEF w, s
  <2>2. h \in Entry2 /\ h.st = g.st /\ h.flag = g.flag /\ h.finish = g.finish /\ h.data = m.data
        /\ h.hasData = TRUE /\ h.hasNeed = g.hasNeed /\ h.need = g.need /\ h.acks = g.acks
    BY <1>1 DEF Entry2
  <2>3. f \in MSHREntry /\ f.st = e.st /\ f.data = m.data
        /\ f.hasData = TRUE /\ f.hasNeed = e.hasNeed /\ f.need = e.need /\ f.acks = e.acks
    BY <1>1, <1>2 DEF MSHREntry
  <2> HIDE DEF f, h
  <2>4. Acts2(n, l, BlockOf(n, l), f, n.out, b)
    <3>1. f.acks = h.acks /\ f.st = h.st /\ f.data = h.data /\ (f.hasData <=> h.hasData)
          /\ (f.hasNeed <=> h.hasNeed) /\ f.need = h.need /\ h.st = "ITOM"
      BY <1>2, <1>7, <2>2, <2>3
    <3> HIDE DEF g
    <3>2. /\ h.st = n.mshr[l].st /\ h.flag = n.mshr[l].flag /\ h.finish = n.mshr[l].finish /\ h.st # "-"
          /\ h.data = n.mshr[l].data \/ h.st \notin {"STOM", "OTOM"}
      BY <2>2, <3>1 DEF g
    <3>3. h \in Entry2 /\ f \in MSHREntry
      BY <2>2, <2>3
    <3> QED BY <1>1, <2>1, <3>1, <3>2, <3>3, NotedKeeps
  <2>5. Acts2(n, l, BlockOf(n, l), [e EXCEPT !.data = m.data, !.hasData = TRUE], n.out, b)
    BY <2>4 DEF f
  <2> QED BY <2>5, <1>7 DEF e, l, early
<1> QED BY <1>4, <1>5, <1>6, <1>7

\* The data arrive from memory.
LEMMA OnGetRespMemKeeps ==
  ASSUME NEW n, NodeInv(n), NEW i \in L1s, NEW m \in RoutedTo(i), NEW b \in OnGetRespMem(n, i, m)
  PROVE  LET l == m.line  e == MshrOf(n, l) IN
         \/ e.st \notin {"ITOM", "ITOS"} /\ b \in Aborted(n)
         \/ Entered2(n, i, l, IF e.st = "ITOM" THEN "M" ELSE "E", m.data, Also(n.out, GetAck(i, l)), b)
<1> DEFINE l == m.line
           e == MshrOf(n, l)
<1>1. l \in Lines /\ m.data \in Data /\ n \in Node
  BY DEF RoutedTo, Message, NodeInv
<1>2. b \in OnGetRespMem(n, i, m) /\ m.line = l
  OBVIOUS
<1>3. e.st = n.mshr[l].st
  BY <1>1, SeenFacts
<1> HIDE DEF l, e
<1>4. CASE n.mshr[l].st \notin {"ITOM", "ITOS"}
  <2>1. b \in Aborted(n)
    BY <1>2, <1>4 DEF OnGetRespMem
  <2> QED BY <2>1, <1>3, <1>4 DEF l, e
<1>5. CASE n.mshr[l].st = "ITOM"
  <2>1. b \in NewLine2(Posts(n, GetAckFrom(i, l)), i, l, "M", m.data)
    BY <1>2, <1>5 DEF OnGetRespMem
  <2>2. Entered2(n, i, l, "M", m.data, Also(n.out, GetAck(i, l)), b)
    BY <1>1, <1>5, <2>1, EntersAcknowledged
  <2>3. e.st = "ITOM"
    BY <1>3, <1>5
  <2> QED BY <2>2, <2>3 DEF l, e
<1>6. CASE n.mshr[l].st = "ITOS"
  <2>1. b \in NewLine2(Posts(n, GetAckFrom(i, l)), i, l, "E", m.data)
    BY <1>2, <1>6 DEF OnGetRespMem
  <2>2. Entered2(n, i, l, "E", m.data, Also(n.out, GetAck(i, l)), b)
    BY <1>1, <1>6, <2>1, EntersAcknowledged
  <2>3. e.st # "ITOM"
    BY <1>3, <1>6
  <2> QED BY <2>2, <2>3 DEF l, e
<1> QED BY <1>4, <1>5, <1>6

\* An assertion fails: nothing else changes.
LEMMA AbortedKeeps ==
  ASSUME NEW n, NodeInv(n), NEW b \in Aborted(n)
  PROVE  /\ NodeInv(b) /\ b.aborts /\ b.out = n.out /\ b.queue = n.queue /\ b.reserved = n.reserved
         /\ Same(n, b, Lines)
<1>1. n \in Node /\ \A k \in Lines : LineOK(n, k)
  BY DEF NodeInv
<1>2. /\ b \in Node /\ b.l2 = n.l2 /\ b.mshr = n.mshr /\ b.l1d = n.l1d /\ b.l1i = n.l1i
      /\ b.dreq = n.dreq /\ b.queue = n.queue /\ b.out = n.out /\ b.reserved = n.reserved /\ b.aborts
  BY <1>1 DEF Aborted, Node
<1>3. ASSUME NEW k \in Lines PROVE LineOK(b, k)
  <2>1. LineOK(n, k)
    BY <1>1
  <2> QED BY <1>2, <2>1 DEF LineOK, Included
<1>4. ASSUME NEW k \in Lines PROVE BlockOf(b, k) = BlockOf(n, k) /\ MshrOf(b, k) = MshrOf(n, k)
  BY <1>2 DEF BlockOf, MshrOf
<1> QED BY <1>2, <1>3, <1>4 DEF NodeInv, Same

\* The L1s read a line: what that does to it.
ReadFrom(n, l, data, b) ==
  /\ b \in Node /\ Elsewhere(n, b, l) /\ Silent(n, b)
  /\ b.l2[l] = n.l2[l] /\ b.mshr[l] = n.mshr[l]
  /\ l \in b.l1i <=> l \in n.l1i \/ ForI(n, l)
  /\ IF ForD(n, l)
     THEN b.l1d[l] = [in |-> TRUE, write |-> FALSE, dirty |-> FALSE, data |-> data] /\ b.dreq = NoReq
     ELSE b.l1d[l] = n.l1d[l] /\ b.dreq = n.dreq

\* What the instruction cache reads of it.
LEMMA ReadIKeeps ==
  ASSUME NEW n \in Node, NEW l \in Lines, \A k \in Lines \ {l} : LineOK(n, k),
         NEW vi \in IF ForI(n, l) THEN Replaceable(n.l1i, l, PrivL1Ways) ELSE {0}
  PROVE  LET a == IF ForI(n, l) THEN insert_to_l1i(n, l, vi) ELSE n IN
         /\ a \in Node /\ Elsewhere(n, a, l) /\ Silent(n, a)
         /\ a.l1d = n.l1d /\ a.dreq = n.dreq /\ a.reserved = n.reserved
         /\ a.l2[l] = n.l2[l] /\ a.mshr[l] = n.mshr[l] /\ (l \in a.l1i <=> l \in n.l1i \/ ForI(n, l))
<1>1. CASE ForI(n, l)
  <2>1. vi \in Replaceable(n.l1i, l, PrivL1Ways)
    BY <1>1
  <2> DEFINE a == insert_to_l1i(n, l, vi)
  <2>2. /\ a \in Node /\ Elsewhere(n, a, l) /\ Silent(n, a)
        /\ a.l1d = n.l1d /\ a.dreq = n.dreq /\ a.reserved = n.reserved
        /\ a.l2[l] = n.l2[l] /\ a.mshr[l] = n.mshr[l] /\ l \in a.l1i
    BY <2>1, InsertIKeeps
  <2> HIDE DEF a
  <2> QED BY <1>1, <2>2 DEF a
<1>2. CASE ~ForI(n, l)
  BY <1>2 DEF Elsewhere, Silent
<1> QED BY <1>1, <1>2

\* What both read of it.
LEMMA ReadByKeeps ==
  ASSUME NEW n \in Node, NEW l \in Lines, NEW data \in Data, \A k \in Lines \ {l} : LineOK(n, k),
         NEW vi \in IF ForI(n, l) THEN Replaceable(n.l1i, l, PrivL1Ways) ELSE {0},
         NEW vd \in IF ForD(n, l) THEN Replaceable(InL1D(n), l, PrivL1Ways) ELSE {0},
         ~(ForD(n, l) /\ n.dreq.type = "GETM")
  PROVE  ReadFrom(n, l, data, ReadBy(n, l, data, vi, vd))
<1> DEFINE a == IF ForI(n, l) THEN insert_to_l1i(n, l, vi) ELSE n
           b == ReadBy(n, l, data, vi, vd)
<1>1. b = IF ForD(n, l) THEN insert_to_l1d(a, l, data, FALSE, vd) ELSE a
  BY DEF ReadBy
<1>2. /\ a \in Node /\ Elsewhere(n, a, l) /\ Silent(n, a)
      /\ a.l1d = n.l1d /\ a.dreq = n.dreq /\ a.reserved = n.reserved
      /\ a.l2[l] = n.l2[l] /\ a.mshr[l] = n.mshr[l] /\ (l \in a.l1i <=> l \in n.l1i \/ ForI(n, l))
  BY ReadIKeeps
<1> HIDE DEF a, b
<1>3. CASE ~ForD(n, l)
  <2>1. b = a
    BY <1>1, <1>3
  <2> QED BY <1>2, <1>3, <2>1 DEF ReadFrom, b
<1>4. CASE ForD(n, l)
  <2> DEFINE w == FALSE
             t == insert_to_l1d(a, l, data, w, vd)
  <2>1. b = t
    BY <1>1, <1>4
  <2>2. vd \in Replaceable(InL1D(a), l, PrivL1Ways)
    BY <1>2, <1>4 DEF InL1D
  <2>3. (\A k \in Lines \ {l} : LineOK(a, k)) /\ a.dreq.type # "none" /\ a.dreq.line = l
    BY <1>2, <1>4 DEF Elsewhere, ForD
  <2>w. w \in BOOLEAN
    OBVIOUS
  <2> HIDE DEF w
  <2>4. /\ t \in Node /\ Elsewhere(a, t, l) /\ Silent(a, t)
        /\ t.mshr = a.mshr /\ t.l1i = a.l1i /\ t.ireq = a.ireq /\ t.l2[l] = a.l2[l]
        /\ t.l1d[l] = [in |-> TRUE, write |-> w, dirty |-> FALSE, data |-> data]
        /\ t.dreq = Answered(a.dreq, l, w)
    BY <1>2, <2>2, <2>3, <2>w, InsertDKeeps
  <2> HIDE DEF t
  <2>5. t.dreq = NoReq
    BY <1>2, <1>4, <2>3, <2>4 DEF Answered, w
  <2>6. Elsewhere(n, t, l)
    BY <1>2, <2>4 DEF Elsewhere
  <2>7. Silent(n, t)
    BY <1>2, <2>4 DEF Silent
  <2> QED BY <1>2, <1>4, <2>1, <2>4, <2>5, <2>6, <2>7 DEF ReadFrom, b, w
<1> QED BY <1>3, <1>4

\* An edit of a line of the L2, or of an entry, leaves the rest of the node.
L2Set(n, l, c) == [n EXCEPT !.l2[l] = c]
EntrySet(n, l, e) == [n EXCEPT !.mshr[l] = e]

\* The fields of a node whose line l of the L2 becomes c.
LEMMA L2Edited ==
  ASSUME NEW n \in Node, NEW l \in Lines, NEW c \in Line2
  PROVE  LET b == L2Set(n, l, c) IN
         /\ b \in Node /\ b.mshr = n.mshr /\ b.l1d = n.l1d /\ b.l1i = n.l1i /\ b.dreq = n.dreq
         /\ b.ireq = n.ireq /\ b.queue = n.queue /\ b.reserved = n.reserved
         /\ (b.aborts <=> n.aborts) /\ b.out = n.out
         /\ b.l2[l] = c /\ \A k \in Lines \ {l} : b.l2[k] = n.l2[k]
<1> DEFINE b == L2Set(n, l, c)
<1>1. n.l2 \in [Lines -> Line2]
  BY NodeFields
<1>2. /\ b \in Node /\ b.mshr = n.mshr /\ b.l1d = n.l1d /\ b.l1i = n.l1i /\ b.dreq = n.dreq
      /\ b.ireq = n.ireq /\ b.queue = n.queue /\ b.reserved = n.reserved
      /\ (b.aborts <=> n.aborts) /\ b.out = n.out /\ b.l2 = [n.l2 EXCEPT ![l] = c]
  BY DEF Node, L2Set
<1> HIDE DEF b
<1>3. b.l2[l] = c /\ \A k \in Lines \ {l} : b.l2[k] = n.l2[k]
  BY <1>1, <1>2
<1> QED BY <1>2, <1>3 DEF b

\* The fields of a node whose entry of line l becomes e.
LEMMA EntryEdited ==
  ASSUME NEW n \in Node, NEW l \in Lines, NEW e \in Entry2
  PROVE  LET b == EntrySet(n, l, e) IN
         /\ b \in Node /\ b.l2 = n.l2 /\ b.l1d = n.l1d /\ b.l1i = n.l1i /\ b.dreq = n.dreq
         /\ b.ireq = n.ireq /\ b.queue = n.queue /\ b.reserved = n.reserved
         /\ (b.aborts <=> n.aborts) /\ b.out = n.out
         /\ b.mshr[l] = e /\ \A k \in Lines \ {l} : b.mshr[k] = n.mshr[k]
<1> DEFINE b == EntrySet(n, l, e)
<1>1. n.mshr \in [Lines -> Entry2]
  BY NodeFields
<1>2. /\ b \in Node /\ b.l2 = n.l2 /\ b.l1d = n.l1d /\ b.l1i = n.l1i /\ b.dreq = n.dreq
      /\ b.ireq = n.ireq /\ b.queue = n.queue /\ b.reserved = n.reserved
      /\ (b.aborts <=> n.aborts) /\ b.out = n.out /\ b.mshr = [n.mshr EXCEPT ![l] = e]
  BY DEF Node, EntrySet
<1> HIDE DEF b
<1>3. b.mshr[l] = e /\ \A k \in Lines \ {l} : b.mshr[k] = n.mshr[k]
  BY <1>1, <1>2
<1> QED BY <1>2, <1>3 DEF b

\* Elsewhere a line stays as it is when only the L2's line l, or its entry, is edited.
LEMMA UntouchedElsewhere ==
  ASSUME NEW n, NodeInv(n), NEW l \in Lines, NEW b \in Node,
         b.l1d = n.l1d, b.l1i = n.l1i, b.dreq = n.dreq, b.reserved = n.reserved,
         \A k \in Lines \ {l} : b.l2[k] = n.l2[k] /\ b.mshr[k] = n.mshr[k]
  PROVE  Elsewhere(n, b, l)
<1> SUFFICES ASSUME NEW k \in Lines \ {l}
             PROVE  /\ LineOK(b, k)
                    /\ BlockOf(b, k) = BlockOf(n, k) /\ MshrOf(b, k) = MshrOf(n, k)
                    /\ b.l2[k].st = "I" <=> n.l2[k].st = "I"
  BY DEF Elsewhere
<1>1. LineOK(n, k) /\ b.l2[k] = n.l2[k] /\ b.mshr[k] = n.mshr[k]
  BY DEF NodeInv
<1>2. LineOK(b, k)
  BY <1>1 DEF LineOK, Included
<1> QED BY <1>1, <1>2 DEF BlockOf, MshrOf

\* An L1 reads a line of the L2.
LEMMA ReadHitKeeps ==
  ASSUME NEW n, NodeInv(n), NEW l \in Lines, ~(ForD(n, l) /\ n.dreq.type = "GETM"), n.l2[l].st # "I",
         NEW b \in BothRead([n EXCEPT !.l2[l].flag = @ \cup Readers(n, l, "D")], l, n.l2[l].data)
  PROVE  Acts2(n, l, BlockOf(n, l), MshrOf(n, l), n.out, b)
<1> DEFINE c == n.l2[l]
           f == Readers(n, l, "D")
           d == [c EXCEPT !.flag = @ \cup f]
           a == L2Set(n, l, d)
<1>1. n \in Node /\ LineOK(n, l) /\ c \in Line2 /\ n.mshr[l] = NoEntryL2
  BY NodeFields DEF NodeInv, LineOK
<1>2. /\ f \subseteq {"I", "D"} /\ ("D" \in f <=> ForD(n, l)) /\ ("I" \in f <=> ForI(n, l))
  BY DEF Readers
<1> HIDE DEF f
<1>3. d \in Line2 /\ d.st = c.st /\ d.data = c.data /\ d.flag = c.flag \cup f
  BY <1>1, <1>2 DEF Line2, PrivFlags
<1>4. [n EXCEPT !.l2[l].flag = @ \cup Readers(n, l, "D")] = a
  BY DEF f, L2Set
<1> HIDE DEF d
<1>5. /\ a \in Node /\ a.mshr = n.mshr /\ a.l1d = n.l1d /\ a.l1i = n.l1i /\ a.dreq = n.dreq
      /\ a.ireq = n.ireq /\ a.queue = n.queue /\ a.reserved = n.reserved
      /\ (a.aborts <=> n.aborts) /\ a.out = n.out
      /\ a.l2[l] = d /\ \A k \in Lines \ {l} : a.l2[k] = n.l2[k]
  BY <1>1, <1>3, L2Edited
<1>6. b \in BothRead(a, l, c.data)
  BY <1>4
<1> HIDE DEF a
<1>7. Elsewhere(n, a, l)
  BY <1>5, UntouchedElsewhere
<1>8. (ForD(a, l) <=> ForD(n, l)) /\ (ForI(a, l) <=> ForI(n, l))
  BY <1>5 DEF ForD, ForI
<1>9. PICK vi \in IF ForI(a, l) THEN Replaceable(a.l1i, l, PrivL1Ways) ELSE {0},
           vd \in IF ForD(a, l) THEN Replaceable(InL1D(a), l, PrivL1Ways) ELSE {0} :
        b = ReadBy(a, l, c.data, vi, vd)
  BY <1>6 DEF BothRead
<1>10. ReadFrom(a, l, c.data, b)
  <2>1. (\A k \in Lines \ {l} : LineOK(a, k)) /\ c.data \in Data /\ ~(ForD(a, l) /\ a.dreq.type = "GETM")
    BY <1>1, <1>5, <1>7, <1>8 DEF Elsewhere, Line2
  <2> DEFINE x == c.data
  <2>2. x \in Data /\ b = ReadBy(a, l, x, vi, vd)
    BY <1>9, <2>1
  <2> HIDE DEF x, c
  <2>3. ReadFrom(a, l, x, b)
    BY <1>5, <2>1, <2>2, ReadByKeeps
  <2> QED BY <2>3 DEF x
<1>11. /\ b \in Node /\ b.l2[l] = d /\ b.mshr[l] = NoEntryL2 /\ b.out = n.out /\ b.queue = n.queue
       /\ (b.aborts <=> n.aborts) /\ b.reserved \in {0, n.reserved}
       /\ l \in b.l1i <=> l \in n.l1i \/ ForI(n, l)
       /\ IF ForD(n, l)
          THEN b.l1d[l] = [in |-> TRUE, write |-> FALSE, dirty |-> FALSE, data |-> c.data] /\ b.dreq = NoReq
          ELSE b.l1d[l] = n.l1d[l] /\ b.dreq = n.dreq
  BY <1>1, <1>5, <1>8, <1>10 DEF ReadFrom, Silent
<1>12. \A k \in Lines \ {l} : LineOK(b, k)
  BY <1>10 DEF ReadFrom, Elsewhere
<1>13. Same(n, b, Lines \ {l})
  BY <1>7, <1>10 DEF ReadFrom, Elsewhere, Same
<1>14. NoEntryL2.st = "-" /\ NoEntryL2.flag = {} /\ NoEntryL2.finish = {} /\ NoReq.type = "none"
  BY DEF NoEntryL2, NoReq
<1>15. LineOK(b, l) /\ BlockOf(b, l) = BlockOf(n, l)
  <2>1. CASE ForD(n, l)
    <3> DEFINE x == b.l1d[l]
    <3>1. x.in /\ ~x.write /\ ~x.dirty /\ x.data = c.data /\ b.dreq.type = "none"
      BY <1>11, <1>14, <2>1
    <3> HIDE DEF x
    <3>2. Lacking(x, b.dreq, l) /\ Awaited(b.mshr[l], b.dreq, l) /\ Copied(b.l2[l], b.mshr[l], x)
      BY <1>3, <1>11, <1>14, <3>1 DEF Lacking, Awaited, Copied
    <3>3. Included(b, l, "D") /\ (l \in b.l1i => Included(b, l, "I"))
      BY <1>1, <1>2, <1>3, <1>11, <1>14, <2>1 DEF Included, LineOK
    <3>4. ~n.l1d[l].dirty
      <4>1. n.dreq.type = "GETS" /\ n.dreq.line = l
        <5>1. n.dreq \in Request1
          BY <1>1, NodeFields
        <5> QED BY <2>1, <5>1 DEF ForD, Request1
      <4> QED BY <1>1, <4>1 DEF LineOK, Lacking, NoL1D
    <3>5. BlockOf(b, l) = BlockOf(n, l)
      BY <1>3, <1>11, <3>1, <3>4 DEF BlockOf, x
    <3> QED BY <1>3, <1>11, <1>14, <3>1, <3>2, <3>3, <3>5 DEF LineOK, x
  <2>2. CASE ~ForD(n, l)
    <3>1. b.l1d[l] = n.l1d[l] /\ b.dreq = n.dreq
      BY <1>11, <2>2
    <3>2. Lacking(b.l1d[l], b.dreq, l) /\ Awaited(b.mshr[l], b.dreq, l)
          /\ Copied(b.l2[l], b.mshr[l], b.l1d[l])
      BY <1>1, <1>2, <1>3, <1>11, <2>2, <3>1 DEF LineOK, Copied
    <3>3. (b.l1d[l].in => Included(b, l, "D")) /\ (l \in b.l1i => Included(b, l, "I"))
      BY <1>1, <1>2, <1>3, <1>11, <1>14, <3>1 DEF Included, LineOK
    <3>4. BlockOf(b, l) = BlockOf(n, l)
      BY <1>3, <1>11, <3>1 DEF BlockOf
    <3>5. b.reserved = l => b.l1d[l].in
      BY <1>1, <1>11, <3>1, PrivAssumption DEF LineOK
    <3> QED BY <1>1, <1>3, <1>11, <1>14, <3>1, <3>2, <3>3, <3>4, <3>5 DEF LineOK
  <2> QED BY <2>1, <2>2
<1>16. MshrOf(b, l) = MshrOf(n, l)
  BY <1>1, <1>11 DEF MshrOf
<1> QED BY <1>11, <1>12, <1>13, <1>15, <1>16 DEF Acts2, NodeInv

\* What an entry knows changes, and the data cache or not: a node keeps the rest.
LEMMA EntryNoted ==
  ASSUME NEW n, NodeInv(n), NEW l \in Lines, NEW e \in Entry2,
         e.st = n.mshr[l].st, e.data = n.mshr[l].data, e.hasData = n.mshr[l].hasData,
         e.hasNeed = n.mshr[l].hasNeed, e.need = n.mshr[l].need, e.acks = n.mshr[l].acks,
         e.st # "-", n.mshr[l].flag \subseteq e.flag, Awaited(e, n.dreq, l),
         NEW b, b = EntrySet(n, l, e)
  PROVE  Acts2(n, l, BlockOf(n, l), MshrOf(n, l), n.out, b)
<1>1. n \in Node /\ LineOK(n, l)
  BY DEF NodeInv
<1>2. /\ b \in Node /\ b.l2 = n.l2 /\ b.l1d = n.l1d /\ b.l1i = n.l1i /\ b.dreq = n.dreq
      /\ b.queue = n.queue /\ b.reserved = n.reserved /\ (b.aborts <=> n.aborts) /\ b.out = n.out
      /\ b.mshr[l] = e /\ \A k \in Lines \ {l} : b.mshr[k] = n.mshr[k]
  BY <1>1, EntryEdited
<1>3. Elsewhere(n, b, l)
  BY <1>2, UntouchedElsewhere
<1>4. LineOK(b, l)
  <2>1. (n.l1d[l].in => Included(b, l, "D")) /\ (l \in n.l1i => Included(b, l, "I"))
    BY <1>1, <1>2 DEF LineOK, Included
  <2>2. Copied(n.l2[l], e, n.l1d[l])
    BY <1>1 DEF LineOK, Copied
  <2>3. n.l2[l].st = "I"
    BY <1>1 DEF LineOK
  <2> QED BY <1>1, <1>2, <2>1, <2>2, <2>3 DEF LineOK
<1>5. MshrOf(b, l) = MshrOf(n, l)
  BY <1>2 DEF MshrOf
<1>6. BlockOf(b, l) = BlockOf(n, l)
  BY <1>2 DEF BlockOf
<1> QED BY <1>2, <1>3, <1>4, <1>5, <1>6 DEF Acts2, NodeInv, Elsewhere, Same

\* The requests of the L1s go on waiting, or are tried anew.
LEMMA RequestsNoted ==
  ASSUME NEW n, NodeInv(n), NEW l \in Lines, NEW d \in Request1, NEW r \in Request1,
         d.type = n.dreq.type, d.line = n.dreq.line,
         NEW b, b = [n EXCEPT !.dreq = d, !.ireq = r]
  PROVE  Acts2(n, l, BlockOf(n, l), MshrOf(n, l), n.out, b)
<1>1. n \in Node /\ \A k \in Lines : LineOK(n, k)
  BY DEF NodeInv
<1>2. /\ b \in Node /\ b.l2 = n.l2 /\ b.mshr = n.mshr /\ b.l1d = n.l1d /\ b.l1i = n.l1i /\ b.dreq = d
      /\ b.queue = n.queue /\ b.reserved = n.reserved /\ (b.aborts <=> n.aborts) /\ b.out = n.out
  BY <1>1 DEF Node
<1>3. ASSUME NEW k \in Lines
      PROVE  LineOK(b, k) /\ BlockOf(b, k) = BlockOf(n, k) /\ MshrOf(b, k) = MshrOf(n, k)
  <2>1. LineOK(n, k)
    BY <1>1
  <2>2. Lacking(b.l1d[k], b.dreq, k) /\ Awaited(b.mshr[k], b.dreq, k)
    BY <1>2, <2>1 DEF LineOK, Lacking, Awaited
  <2>3. (b.l1d[k].in => Included(b, k, "D")) /\ (k \in b.l1i => Included(b, k, "I"))
    BY <1>2, <2>1 DEF LineOK, Included
  <2> QED BY <1>2, <2>1, <2>2, <2>3 DEF LineOK, BlockOf, MshrOf
<1> QED BY <1>2, <1>3 DEF Acts2, NodeInv, Same

\* What an L1 asked for is worked on: a read.
LEMMA IndexReadKeeps ==
  ASSUME NEW n, NodeInv(n), NEW i \in L1s, NEW l \in Lines, ~(ForD(n, l) /\ n.dreq.type = "GETM"),
         NEW b \in IndexRead(n, i, l)
  PROVE  \/ Acts2(n, l, BlockOf(n, l), MshrOf(n, l), n.out, b)
         \/ /\ n.l2[l].st = "I" /\ n.mshr[l].st = "-"
            /\ Acts2(n, l, BlockOf(n, l), Waits("ITOS"), Also(n.out, AskFor(i, l, "ITOS")), b)
<1> DEFINE g == n.mshr[l]
           f == Readers(n, l, "S")
<1>1. n \in Node /\ LineOK(n, l) /\ g \in Entry2
  BY NodeFields DEF NodeInv
<1>2. f \subseteq {"I", "S"} /\ ("S" \in f => ForD(n, l))
  BY DEF Readers
<1>3. CASE n.l2[l].st # "I"
  <2>1. b \in BothRead([n EXCEPT !.l2[l].flag = @ \cup Readers(n, l, "D")], l, n.l2[l].data)
    BY <1>3 DEF IndexRead
  <2> QED BY <1>3, <2>1, ReadHitKeeps
<1>4. CASE n.l2[l].st = "I" /\ g.st \in {"OTOM", "STOM"}
  BY <1>1, <1>4 DEF LineOK, Awaited, ForD
<1>5. CASE n.l2[l].st = "I" /\ g.st \notin {"OTOM", "STOM", "-"}
  <2> DEFINE e == [g EXCEPT !.finish = @ \cup f]
  <2>1. b = EntrySet(n, l, e)
    BY <1>5 DEF IndexRead, EntrySet
  <2> HIDE DEF f
  <2>2. /\ e \in Entry2 /\ e.st = g.st /\ e.data = g.data /\ e.hasData = g.hasData
        /\ e.hasNeed = g.hasNeed /\ e.need = g.need /\ e.acks = g.acks
        /\ e.flag = g.flag /\ e.finish = g.finish \cup f
    BY <1>1, <1>2 DEF Entry2
  <2> HIDE DEF e
  <2>3. Awaited(e, n.dreq, l)
    BY <1>1, <1>2, <1>5, <2>2 DEF LineOK, Awaited, ForD
  <2>4. Acts2(n, l, BlockOf(n, l), MshrOf(n, l), n.out, b)
    BY <1>5, <2>1, <2>2, <2>3, EntryNoted
  <2> QED BY <2>4
<1>6. CASE n.l2[l].st = "I" /\ g.st = "-" /\ ~(Cardinality(InMSHR(n)) < PrivMSHRs)
  <2> DEFINE r == [n.ireq EXCEPT !.indexing = @ /\ ~ForI(n, l)]
             d == [n.dreq EXCEPT !.indexing = @ /\ ~ForD(n, l)]
  <2>1. b = [n EXCEPT !.ireq = r, !.dreq = d]
    BY <1>6 DEF IndexRead, Retry
  <2>2. n.ireq \in Request1 /\ n.dreq \in Request1
    BY <1>1, NodeFields
  <2>3. /\ r \in Request1 /\ d \in Request1 /\ d.type = n.dreq.type /\ d.line = n.dreq.line
    BY <2>2 DEF Request1
  <2> HIDE DEF r, d
  <2>4. b = [n EXCEPT !.dreq = d, !.ireq = r]
    BY <2>1, <1>1 DEF Node
  <2> QED BY <2>3, <2>4, RequestsNoted
<1>7. CASE n.l2[l].st = "I" /\ g.st = "-" /\ Cardinality(InMSHR(n)) < PrivMSHRs
  <2> DEFINE no == {}
  <2>1. b = AsksFor(n, i, l, "ITOS", f, no)
    BY <1>7 DEF IndexRead
  <2>2. AskingFor(f, no) /\ no = {}
    BY <1>2 DEF AskingFor
  <2> HIDE DEF f, no
  <2> DEFINE st == "ITOS"
  <2>3. st \in {"ITOM", "ITOS"} /\ st \in MSHRStates
    BY DEF MSHRStates
  <2> HIDE DEF st
  <2>4. b = AsksFor(n, i, l, st, f, no)
    BY <2>1 DEF st
  <2>5. /\ b \in Node /\ b.l2 = n.l2 /\ b.l1d = n.l1d /\ b.l1i = n.l1i /\ b.dreq = n.dreq
        /\ b.ireq = n.ireq /\ b.queue = n.queue /\ b.reserved = n.reserved /\ (b.aborts <=> n.aborts)
        /\ b.mshr = [n.mshr EXCEPT ![l] = Asking(st, f, no)]
        /\ b.out = Also(n.out, AskFor(i, l, st))
    BY <1>1, <2>2, <2>3, <2>4, AsksForFields
  <2>6. b.mshr[l] = Asking(st, f, no) /\ \A k \in Lines \ {l} : b.mshr[k] = n.mshr[k]
    BY <1>1, <2>5, NodeFields
  <2>7. b.mshr[l].st = st /\ b.mshr[l].finish = f /\ b.mshr[l].flag = {}
    BY <2>2, <2>3, <2>6, AskingFacts
  <2>8. Elsewhere(n, b, l)
    BY <2>5, <2>6, UntouchedElsewhere
  <2>9. LineOK(b, l)
    <3>1. ~n.l1d[l].in /\ l \notin n.l1i
      BY <1>1, <1>7 DEF LineOK, Included
    <3>2. Awaited(b.mshr[l], b.dreq, l)
      BY <1>2, <2>5, <2>7 DEF Awaited, ForD, st
    <3>3. Copied(b.l2[l], b.mshr[l], b.l1d[l])
      BY <1>1, <2>5, <3>1 DEF LineOK, Copied
    <3> QED BY <1>1, <1>7, <2>3, <2>5, <2>7, <3>1, <3>2, <3>3 DEF LineOK, st
  <2>10. BlockOf(b, l) = BlockOf(n, l)
    BY <2>5 DEF BlockOf
  <2>11. MshrOf(b, l) = Waits(st)
    BY ZenonT(60), <2>2, <2>3, <2>5, <2>6, AskingSeen
  <2>12. Acts2(n, l, BlockOf(n, l), Waits(st), Also(n.out, AskFor(i, l, st)), b)
    BY <2>5, <2>8, <2>9, <2>10, <2>11 DEF Acts2, NodeInv, Elsewhere, Same
  <2> QED BY <1>7, <2>12 DEF st
<1> QED BY <1>3, <1>4, <1>5, <1>6, <1>7

\* The data cache is to write a line that the L2 may write.
LEMMA WriteHitKeeps ==
  ASSUME NEW n, NodeInv(n), NEW l \in Lines, ForD(n, l), n.dreq.type = "GETM",
         n.l2[l].st \in {"E", "M"}, NEW v \in Replaceable(InL1D(n), l, PrivL1Ways), NEW b,
         b = insert_to_l1d([n EXCEPT !.l2[l].flag = @ \cup {"D", "W"}], l, n.l2[l].data, TRUE, v)
  PROVE  Acts2(n, l, BlockOf(n, l), MshrOf(n, l), n.out, b)
<1> DEFINE c == n.l2[l]
           d == [c EXCEPT !.flag = @ \cup {"D", "W"}]
           a == L2Set(n, l, d)
           w == TRUE
           x == c.data
<1>1. n \in Node /\ LineOK(n, l) /\ c \in Line2 /\ n.mshr[l] = NoEntryL2 /\ x \in Data /\ w \in BOOLEAN
  <2>1. n \in Node /\ LineOK(n, l) /\ c \in Line2
    BY NodeFields DEF NodeInv
  <2> QED BY <2>1 DEF LineOK, Line2
<1>2. d \in Line2 /\ d.st = c.st /\ d.data = c.data /\ d.flag = c.flag \cup {"D", "W"}
  BY <1>1 DEF Line2, PrivFlags
<1>3. b = insert_to_l1d(a, l, x, w, v)
  BY DEF L2Set
<1> HIDE DEF d
<1>4. /\ a \in Node /\ a.mshr = n.mshr /\ a.l1d = n.l1d /\ a.l1i = n.l1i /\ a.dreq = n.dreq
      /\ a.ireq = n.ireq /\ a.queue = n.queue /\ a.reserved = n.reserved
      /\ (a.aborts <=> n.aborts) /\ a.out = n.out
      /\ a.l2[l] = d /\ \A k \in Lines \ {l} : a.l2[k] = n.l2[k]
  BY <1>1, <1>2, L2Edited
<1> HIDE DEF a, w, x
<1>5. Elsewhere(n, a, l)
  BY <1>4, UntouchedElsewhere
<1>6. v \in Replaceable(InL1D(a), l, PrivL1Ways)
  BY <1>4 DEF InL1D
<1>7. (\A k \in Lines \ {l} : LineOK(a, k)) /\ a.dreq.type # "none" /\ a.dreq.line = l
  BY <1>4, <1>5 DEF Elsewhere, ForD
<1>8. /\ b \in Node /\ Elsewhere(a, b, l) /\ Silent(a, b)
      /\ b.mshr = a.mshr /\ b.l1i = a.l1i /\ b.ireq = a.ireq /\ b.l2[l] = a.l2[l]
      /\ b.l1d[l] = [in |-> TRUE, write |-> w, dirty |-> FALSE, data |-> x]
      /\ b.dreq = Answered(a.dreq, l, w)
  <2> DEFINE t == insert_to_l1d(a, l, x, w, v)
  <2>1. /\ t \in Node /\ Elsewhere(a, t, l) /\ Silent(a, t)
        /\ t.mshr = a.mshr /\ t.l1i = a.l1i /\ t.ireq = a.ireq /\ t.l2[l] = a.l2[l]
        /\ t.l1d[l] = [in |-> TRUE, write |-> w, dirty |-> FALSE, data |-> x]
        /\ t.dreq = Answered(a.dreq, l, w)
    BY <1>1, <1>4, <1>6, <1>7, InsertDKeeps
  <2> HIDE DEF t
  <2> QED BY <1>3, <2>1 DEF t
<1>9. /\ b.dreq.type = "none" /\ b.mshr[l] = NoEntryL2 /\ b.l2[l] = d
      /\ NoEntryL2.st = "-" /\ NoEntryL2.flag = {} /\ NoEntryL2.finish = {}
  <2>1. NoEntryL2.st = "-" /\ NoEntryL2.flag = {} /\ NoEntryL2.finish = {} /\ NoReq.type = "none"
    BY DEF NoEntryL2, NoReq
  <2>2. b.dreq = NoReq
    BY <1>4, <1>7, <1>8 DEF Answered, w
  <2> QED BY ZenonT(60), <1>1, <1>4, <1>8, <2>1, <2>2
<1> DEFINE y == b.l1d[l]
<1>10. y.in /\ y.write /\ ~y.dirty /\ y.data = c.data
  <2>1. y = [in |-> TRUE, write |-> w, dirty |-> FALSE, data |-> x]
    BY <1>8
  <2> HIDE DEF y
  <2> QED BY <2>1 DEF w, x
<1> HIDE DEF y
<1>11. LineOK(b, l)
  <2>1. Lacking(y, b.dreq, l) /\ Awaited(b.mshr[l], b.dreq, l) /\ Copied(b.l2[l], b.mshr[l], y)
    BY <1>2, <1>9, <1>10 DEF Lacking, Awaited, Copied
  <2>2. Included(b, l, "D") /\ (l \in b.l1i => Included(b, l, "I"))
    BY ZenonT(60), <1>1, <1>2, <1>4, <1>8, <1>9 DEF Included, LineOK
  <2> QED BY <1>1, <1>2, <1>8, <1>9, <1>10, <2>1, <2>2 DEF LineOK, y
<1>12. BlockOf(b, l) = BlockOf(n, l)
  <2>1. ~n.l1d[l].dirty
    BY <1>1 DEF LineOK, Lacking, Copied, ForD
  <2> QED BY <1>2, <1>9, <1>10, <2>1 DEF BlockOf, y
<1>13. MshrOf(b, l) = MshrOf(n, l)
  BY <1>1, <1>9 DEF MshrOf
<1>14. \A k \in Lines \ {l} : LineOK(b, k)
  BY <1>8 DEF Elsewhere
<1>15. Same(n, b, Lines \ {l})
  BY <1>5, <1>8 DEF Elsewhere, Same
<1>16. (b.aborts <=> n.aborts) /\ b.queue = n.queue /\ b.reserved \in {0, n.reserved} /\ b.out = n.out
  BY <1>4, <1>8 DEF Silent
<1> QED BY <1>8, <1>11, <1>12, <1>13, <1>14, <1>15, <1>16 DEF Acts2, NodeInv

\* The node asks to write the line, and keeps its data, if it has it, for others meanwhile.
LEMMA UpgradingKeeps ==
  ASSUME NEW n, NodeInv(n), NEW i \in L1s, NEW l \in Lines, ForD(n, l), n.dreq.type = "GETM",
         n.mshr[l].st = "-", n.l2[l].st \notin {"E", "M"}, NEW b, b = Upgrading(n, i, l)
  PROVE  Acts2(n, l, Absent, Upgrade(BlockOf(n, l)), Also(n.out, AskFor(i, l, "ITOM")), b)
<1> DEFINE c == n.l2[l]
           f == {"M"}
           flag == c.flag \cup {"D", "W"}
           st == "ITOM"
           a == AsksFor(n, i, l, st, f, flag)
           g == Asking(st, f, flag)
<1>1. n \in Node /\ LineOK(n, l) /\ c \in Line2
  BY NodeFields DEF NodeInv
<1>2. AskingFor(f, flag) /\ st \in {"ITOM", "ITOS"} /\ st \in MSHRStates
  BY <1>1 DEF AskingFor, Line2, PrivFlags, MSHRStates
<1>3. b = IF c.st = "I" THEN a
          ELSE [a EXCEPT !.l2[l] = NoL2, !.mshr[l].data = c.data,
                         !.mshr[l].st = IF c.st = "S" THEN "STOM" ELSE "OTOM"]
  BY DEF Upgrading
<1>4. flag = c.flag \cup {"D", "W"} /\ f = {"M"}
  OBVIOUS
<1> HIDE DEF f, flag, st
<1>5. /\ a \in Node /\ a.l2 = n.l2 /\ a.l1d = n.l1d /\ a.l1i = n.l1i /\ a.dreq = n.dreq
      /\ a.ireq = n.ireq /\ a.queue = n.queue /\ a.reserved = n.reserved /\ (a.aborts <=> n.aborts)
      /\ a.mshr = [n.mshr EXCEPT ![l] = Asking(st, f, flag)]
      /\ a.out = Also(n.out, AskFor(i, l, st))
  BY <1>1, <1>2, AsksForFields
<1> HIDE DEF a
<1>6. a.mshr[l] = g /\ \A k \in Lines \ {l} : a.mshr[k] = n.mshr[k]
  BY <1>1, <1>5, NodeFields
<1>7. /\ g \in Entry2 /\ g.st = st /\ g.finish = f /\ g.flag = flag /\ g.data = NoData
      /\ ~g.hasData /\ ~g.hasNeed /\ g.need = 0 /\ g.acks = 0
  BY <1>2, AskingFacts
<1>8. ~n.l1d[l].dirty /\ ~n.l1d[l].write /\ n.mshr[l] = NoEntryL2 /\ n.dreq.line = l
      /\ NoEntryL2.flag = {} /\ NoEntryL2.st = "-"
  BY <1>1 DEF LineOK, Lacking, Copied, ForD, NoEntryL2
<1>9. NoL2.st = "I" /\ NoL2.flag = {} /\ NoL2.data = NoData
  BY DEF NoL2
<1>10. BlockOf(n, l) = [st |-> c.st, data |-> c.data]
  BY <1>8 DEF BlockOf
<1>11. CASE c.st = "I"
  <2>1. b = a /\ c = NoL2
    BY <1>1, <1>3, <1>11 DEF LineOK
  <2>2. Elsewhere(n, b, l)
    BY ZenonT(60), <1>5, <1>6, <2>1, UntouchedElsewhere
  <2>3. LineOK(b, l)
    <3>1. ~n.l1d[l].in /\ l \notin n.l1i
      BY <1>1, <1>8, <1>11 DEF LineOK, Included
    <3>2. Awaited(g, n.dreq, l)
      BY <1>7, <1>8, <1>4 DEF Awaited, st, ForD
    <3>3. Copied(n.l2[l], g, n.l1d[l])
      BY <1>8, <1>9, <2>1, <3>1 DEF Copied
    <3> QED BY <1>1, <1>5, <1>6, <1>7, <1>11, <2>1, <3>1, <3>2, <3>3 DEF LineOK, st
  <2>4. BlockOf(b, l) = Absent
    BY <1>5, <1>8, <1>10, <1>9, <2>1 DEF BlockOf, Absent
  <2>5. MshrOf(b, l) = Upgrade(BlockOf(n, l))
    <3>1. MshrOf(a, l) = Waits(st)
      BY ZenonT(60), <1>2, <1>5, <1>6, AskingSeen
    <3>2. Upgrade(BlockOf(n, l)) = Waits("ITOM")
      BY <1>10, <1>11 DEF Upgrade
    <3> QED BY <2>1, <3>1, <3>2 DEF st
  <2>6. Acts2(n, l, Absent, Upgrade(BlockOf(n, l)), Also(n.out, AskFor(i, l, st)), b)
    BY <1>5, <2>1, <2>2, <2>3, <2>4, <2>5 DEF Acts2, NodeInv, Elsewhere, Same
  <2> QED BY <2>6 DEF st
<1>12. CASE c.st # "I"
  <2> DEFINE u == IF c.st = "S" THEN "STOM" ELSE "OTOM"
             o == L2Set(a, l, NoL2)
             s == [g EXCEPT !.data = c.data]
             p == EntrySet(o, l, s)
             e == [s EXCEPT !.st = u]
  <2>1. b = [a EXCEPT !.l2[l] = NoL2, !.mshr[l].data = c.data, !.mshr[l].st = u]
    BY <1>3, <1>12
  <2>2. NoL2 \in Line2 /\ c.data \in Data /\ u \in MSHRStates
    BY <1>1, DataFacts DEF NoL2, Line2, CacheStates, MSHRStates
  <2>3. /\ o \in Node /\ o.mshr = a.mshr /\ o.l1d = a.l1d /\ o.l1i = a.l1i /\ o.dreq = a.dreq
        /\ o.ireq = a.ireq /\ o.queue = a.queue /\ o.reserved = a.reserved
        /\ (o.aborts <=> a.aborts) /\ o.out = a.out
        /\ o.l2[l] = NoL2 /\ \A k \in Lines \ {l} : o.l2[k] = a.l2[k]
    BY <1>5, <2>2, L2Edited
  <2>4. /\ s \in Entry2 /\ s.st = st /\ s.finish = f /\ s.flag = flag /\ s.data = c.data
        /\ ~s.hasData /\ ~s.hasNeed /\ s.need = 0 /\ s.acks = 0
    <3> HIDE DEF g
    <3> QED BY <1>7, <2>2 DEF Entry2
  <2>5. /\ e \in Entry2 /\ e.st = u /\ e.finish = f /\ e.flag = flag /\ e.data = c.data
        /\ ~e.hasData /\ ~e.hasNeed /\ e.need = 0 /\ e.acks = 0
    <3> HIDE DEF s, u
    <3> QED BY <2>2, <2>4 DEF Entry2
  <2>6. b = [[o EXCEPT !.mshr[l].data = c.data] EXCEPT !.mshr[l] = [@ EXCEPT !.st = u]]
    <3> HIDE DEF u, g, c
    <3> QED BY <2>1 DEF L2Set
  <2>7. p = [o EXCEPT !.mshr[l].data = c.data]
    BY <1>6, <2>3 DEF EntrySet
  <2> HIDE DEF o, s, u, g
  <2>8. p \in Node /\ p.mshr[l] = s /\ p.l2 = o.l2 /\ p.l1d = o.l1d /\ p.l1i = o.l1i /\ p.dreq = o.dreq
        /\ p.ireq = o.ireq /\ p.queue = o.queue /\ p.reserved = o.reserved
        /\ (p.aborts <=> o.aborts) /\ p.out = o.out /\ \A k \in Lines \ {l} : p.mshr[k] = o.mshr[k]
    BY <2>3, <2>4, EntryEdited
  <2>9. b = EntrySet(p, l, e)
    <3>1. b = [p EXCEPT !.mshr[l] = [@ EXCEPT !.st = u]]
      BY <2>6, <2>7
    <3> HIDE DEF p
    <3> QED BY <2>8, <3>1 DEF EntrySet
  <2> HIDE DEF p, e
  <2>10. b \in Node /\ b.mshr[l] = e /\ b.l2 = p.l2 /\ b.l1d = p.l1d /\ b.l1i = p.l1i /\ b.dreq = p.dreq
        /\ b.ireq = p.ireq /\ b.queue = p.queue /\ b.reserved = p.reserved
        /\ (b.aborts <=> p.aborts) /\ b.out = p.out /\ \A k \in Lines \ {l} : b.mshr[k] = p.mshr[k]
    BY <2>5, <2>8, <2>9, EntryEdited
  <2>11. /\ b.l1d = n.l1d /\ b.l1i = n.l1i /\ b.dreq = n.dreq /\ b.queue = n.queue
         /\ b.reserved = n.reserved /\ (b.aborts <=> n.aborts) /\ b.out = Also(n.out, AskFor(i, l, st))
         /\ b.l2[l] = NoL2 /\ b.mshr[l] = e
         /\ \A k \in Lines \ {l} : b.l2[k] = n.l2[k] /\ b.mshr[k] = n.mshr[k]
    BY <1>5, <1>6, <2>3, <2>8, <2>10
  <2>12. Elsewhere(n, b, l)
    BY <2>10, <2>11, UntouchedElsewhere
  <2>13. u \in {"STOM", "OTOM"} /\ (u = "STOM" <=> c.st = "S") /\ c.st \in {"S", "O"}
    BY <1>1, <1>12 DEF u, Line2, CacheStates
  <2>14. LineOK(b, l)
    <3>1. n.l1d[l].in => "D" \in c.flag
      BY <1>1, <1>8 DEF LineOK, Included
    <3>2. Included(b, l, "D") /\ (l \in n.l1i => Included(b, l, "I"))
      BY <1>1, <1>4, <1>8, <2>5, <2>11, <2>13 DEF LineOK, Included
    <3>3. Awaited(e, n.dreq, l)
      BY <1>4, <1>8, <2>5, <2>13 DEF Awaited
    <3>4. Copied(NoL2, e, n.l1d[l])
      BY <1>1, <1>8, <1>9, <1>12, <2>5 DEF LineOK, Copied
    <3> QED BY <1>1, <1>9, <2>5, <2>11, <2>13, <3>2, <3>3, <3>4 DEF LineOK
  <2>15. BlockOf(b, l) = Absent
    BY <1>8, <1>9, <2>11 DEF BlockOf, Absent
  <2>16. MshrOf(b, l) = Upgrade(BlockOf(n, l))
    <3> DEFINE x == MshrOf(b, l)
               y == [Waits(u) EXCEPT !.data = c.data]
    <3>1. x \in MSHREntry /\ x.st = u /\ x.data = c.data /\ ~x.hasData /\ ~x.hasNeed /\ x.need = 0 /\ x.acks = 0
      BY <2>5, <2>10, SeenFacts
    <3>2. y \in MSHREntry /\ y.st = u /\ y.data = c.data /\ ~y.hasData /\ ~y.hasNeed /\ y.need = 0 /\ y.acks = 0
      BY <2>2, WaitsFacts DEF MSHREntry
    <3> HIDE DEF x, y
    <3>3. x = y
      BY <3>1, <3>2, EntryEqual
    <3>4. Upgrade(BlockOf(n, l)) = y
      BY <1>10, <2>13 DEF Upgrade, y
    <3> QED BY <3>3, <3>4 DEF x
  <2>17. Acts2(n, l, Absent, Upgrade(BlockOf(n, l)), Also(n.out, AskFor(i, l, st)), b)
    BY <2>10, <2>11, <2>12, <2>14, <2>15, <2>16 DEF Acts2, NodeInv, Elsewhere, Same
  <2> QED BY <2>17 DEF st
<1> QED BY <1>11, <1>12

\* What the data cache asked for is worked on: a write.
LEMMA IndexWriteKeeps ==
  ASSUME NEW n, NodeInv(n), NEW i \in L1s, NEW l \in Lines, ForD(n, l), n.dreq.type = "GETM",
         NEW b \in IndexWrite(n, i, l)
  PROVE  \/ Acts2(n, l, BlockOf(n, l), MshrOf(n, l), n.out, b)
         \/ /\ n.l2[l].st \notin {"E", "M"} /\ n.mshr[l].st = "-"
            /\ Acts2(n, l, Absent, Upgrade(BlockOf(n, l)), Also(n.out, AskFor(i, l, "ITOM")), b)
<1> DEFINE g == n.mshr[l]
           waits == ~(g.st = "-" /\ Cardinality(InMSHR(n)) < PrivMSHRs)
<1>1. n \in Node /\ LineOK(n, l) /\ g \in Entry2
  BY NodeFields DEF NodeInv
<1>2. CASE n.l2[l].st \in {"E", "M"}
  <2>1. PICK v \in Replaceable(InL1D(n), l, PrivL1Ways) :
          b = insert_to_l1d([n EXCEPT !.l2[l].flag = @ \cup {"D", "W"}], l, n.l2[l].data, TRUE, v)
    BY <1>2 DEF IndexWrite
  <2> QED BY <1>2, <2>1, WriteHitKeeps
<1>3. ASSUME b = Waits2(n, l)
      PROVE  Acts2(n, l, BlockOf(n, l), MshrOf(n, l), n.out, b)
  <2> DEFINE d == [n.dreq EXCEPT !.indexing = FALSE]
             r == n.ireq
  <2>1. n.ireq \in Request1 /\ n.dreq \in Request1
    BY <1>1, NodeFields
  <2>2. d \in Request1 /\ d.type = n.dreq.type /\ d.line = n.dreq.line
    BY <2>1 DEF Request1
  <2>3. b = [n EXCEPT !.dreq = d, !.ireq = r]
    BY <1>1, <1>3 DEF Waits2, Node
  <2> HIDE DEF d, r
  <2>4. r \in Request1
    BY <2>1 DEF r
  <2> QED BY <2>2, <2>3, <2>4, RequestsNoted
<1>4. CASE n.l2[l].st = "I" /\ g.st # "-" /\ Collecting2(g)
  <2> DEFINE s == [g EXCEPT !.flag = @ \cup {"D", "W"}]
             e == [s EXCEPT !.finish = @ \cup {"M"}]
             p == EntrySet(n, l, s)
  <2>1. b = [n EXCEPT !.mshr[l].flag = @ \cup {"D", "W"}, !.mshr[l].finish = g.finish \cup {"M"}]
    BY <1>4 DEF IndexWrite
  <2>2. /\ s \in Entry2 /\ s.st = g.st /\ s.data = g.data /\ s.hasData = g.hasData
        /\ s.hasNeed = g.hasNeed /\ s.need = g.need /\ s.acks = g.acks
        /\ s.flag = g.flag \cup {"D", "W"} /\ s.finish = g.finish
    BY <1>1 DEF Entry2, PrivFlags
  <2>3. b = [[n EXCEPT !.mshr[l].flag = @ \cup {"D", "W"}] EXCEPT !.mshr[l] = [@ EXCEPT !.finish = g.finish \cup {"M"}]]
    BY <2>1
  <2>4. p = [n EXCEPT !.mshr[l].flag = @ \cup {"D", "W"}]
    BY DEF EntrySet
  <2> HIDE DEF s
  <2>5. /\ e \in Entry2 /\ e.st = g.st /\ e.data = g.data /\ e.hasData = g.hasData
        /\ e.hasNeed = g.hasNeed /\ e.need = g.need /\ e.acks = g.acks
        /\ e.flag = g.flag \cup {"D", "W"} /\ e.finish = g.finish \cup {"M"}
    <3> HIDE DEF g
    <3> QED BY <2>2 DEF Entry2
  <2>6. e = [s EXCEPT !.finish = g.finish \cup {"M"}]
    BY <2>2
  <2>7. p \in Node /\ p.mshr[l] = s /\ p.mshr = [n.mshr EXCEPT ![l] = s]
    <3>1. p \in Node /\ p.mshr[l] = s
      BY <1>1, <2>2, EntryEdited
    <3>2. p.mshr = [n.mshr EXCEPT ![l] = s]
      BY <1>1 DEF EntrySet, Node
    <3> QED BY <3>1, <3>2
  <2> HIDE DEF e, g, p
  <2>8. b = [p EXCEPT !.mshr[l] = e]
    BY <2>3, <2>4, <2>6, <2>7
  <2>9. [p EXCEPT !.mshr[l] = e] = [n EXCEPT !.mshr[l] = e]
    <3>1. [p.mshr EXCEPT ![l] = e] = [n.mshr EXCEPT ![l] = e]
      BY <2>7
    <3> DEFINE w == [n.mshr EXCEPT ![l] = e]
    <3>2. [p EXCEPT !.mshr = w] = [n EXCEPT !.mshr = w]
      <4> HIDE DEF w
      <4> QED BY DEF p, EntrySet
    <3> QED BY <3>1, <3>2
  <2>10. b = EntrySet(n, l, e)
    BY <2>8, <2>9 DEF EntrySet
  <2>11. Awaited(e, n.dreq, l)
    BY <1>1, <2>5 DEF LineOK, Awaited, ForD, g
  <2>12. /\ e.st = n.mshr[l].st /\ e.data = n.mshr[l].data /\ e.hasData = n.mshr[l].hasData
         /\ e.hasNeed = n.mshr[l].hasNeed /\ e.need = n.mshr[l].need /\ e.acks = n.mshr[l].acks
         /\ e.st # "-" /\ n.mshr[l].flag \subseteq e.flag
    BY <1>4, <2>5 DEF g
  <2>13. Acts2(n, l, BlockOf(n, l), MshrOf(n, l), n.out, b)
    BY <2>5, <2>10, <2>11, <2>12, EntryNoted
  <2> QED BY <2>13
<1>5. CASE n.l2[l].st = "I" /\ g.st # "-" /\ ~Collecting2(g)
  BY <1>3, <1>5 DEF IndexWrite
<1>6. CASE n.l2[l].st \notin {"E", "M"} /\ ~(n.l2[l].st = "I" /\ g.st # "-")
  <2>1. g.st = "-"
    BY <1>1, <1>6 DEF LineOK
  <2>2. CASE Cardinality(InMSHR(n)) < PrivMSHRs
    <3>1. b = Upgrading(n, i, l)
      BY <1>6, <2>1, <2>2 DEF IndexWrite
    <3>2. Acts2(n, l, Absent, Upgrade(BlockOf(n, l)), Also(n.out, AskFor(i, l, "ITOM")), b)
      BY <1>6, <2>1, <3>1, UpgradingKeeps
    <3> QED BY <1>6, <2>1, <3>2
  <2>3. CASE ~(Cardinality(InMSHR(n)) < PrivMSHRs)
    BY <1>3, <1>6, <2>1, <2>3 DEF IndexWrite
  <2> QED BY <2>2, <2>3
<1> QED BY <1>2, <1>4, <1>5, <1>6

-----------------------------------------------------------------------------
(* The system: its steps keep what a node keeps of itself.                 *)

\* A message is handled.
LEMMA OnMessageKeeps ==
  ASSUME NEW n, NodeInv(n), NEW i \in L1s, NEW m \in RoutedTo(i), NEW b \in OnMessage(n, i, m)
  PROVE  NodeInv(b)
<1> USE DEF Acts2, Entered2
<1>1. m.type \in ForL1 /\ m.line \in Lines
  BY DEF RoutedTo, Routed, Message
<1>2. CASE m.type = "INVALID"
  <2>1. b \in OnInvalid(n, i, m)
    BY <1>2 DEF OnMessage
  <2> QED BY <1>2, <2>1, OnInvalidKeeps, AbortedKeeps
<1>3. CASE m.type = "INVALID_ACK"
  <2>1. b \in OnInvalidAck(n, i, m.line)
    BY <1>3 DEF OnMessage
  <2> QED BY <1>1, <2>1, OnInvalidAckKeeps, AbortedKeeps
<1>4. CASE m.type = "GETM_ACK"
  <2>1. b \in OnGetMAck(n, i, m)
    BY <1>4 DEF OnMessage
  <2> QED BY <2>1, OnGetMAckKeeps, AbortedKeeps
<1>5. CASE m.type = "GETS_FORWARD"
  <2>1. b \in OnGetSForward(n, i, m)
    BY <1>5 DEF OnMessage
  <2> QED BY <1>5, <2>1, OnGetSForwardKeeps, AbortedKeeps
<1>6. CASE m.type = "GETM_FORWARD"
  <2>1. b \in OnGetMForward(n, i, m)
    BY <1>6 DEF OnMessage
  <2> QED BY <1>6, <2>1, OnGetMForwardKeeps, AbortedKeeps
<1>7. CASE m.type = "GETS_RESP"
  <2>1. b \in OnGetSResp(n, i, m)
    BY <1>7 DEF OnMessage
  <2> QED BY <2>1, OnGetSRespKeeps, AbortedKeeps
<1>8. CASE m.type = "GETM_RESP"
  <2>1. b \in OnGetMResp(n, i, m)
    BY <1>8 DEF OnMessage
  <2> QED BY <2>1, OnGetMRespKeeps, AbortedKeeps
<1>9. CASE m.type = "GET_RESP_MEM"
  <2>1. b \in OnGetRespMem(n, i, m)
    BY <1>9 DEF OnMessage
  <2> QED BY <2>1, OnGetRespMemKeeps, AbortedKeeps
<1>10. CASE m.type = "PUT_ACK"
  <2>1. b \in OnPutAck(n, i, m.line)
    BY <1>10 DEF OnMessage
  <2> QED BY <1>1, <2>1, OnPutAckKeeps, AbortedKeeps
<1> QED BY <1>1, <1>2, <1>3, <1>4, <1>5, <1>6, <1>7, <1>8, <1>9, <1>10 DEF ForL1

\* What a node sends has left it; what is queued in it does not touch its lines.
LEMMA SentOff ==
  ASSUME NEW n, NodeInv(n), NEW q \in Seq(Lines), NEW out \in Outs
  PROVE  LET b == [n EXCEPT !.queue = q, !.out = out] IN
         NodeInv(b) /\ b.out = out /\ b.queue = q /\ b.reserved = n.reserved /\ Same(n, b, Lines)
<1> DEFINE b == [n EXCEPT !.queue = q, !.out = out]
<1>1. n \in Node /\ \A k \in Lines : LineOK(n, k)
  BY DEF NodeInv
<1>2. /\ b \in Node /\ b.l2 = n.l2 /\ b.mshr = n.mshr /\ b.l1d = n.l1d /\ b.l1i = n.l1i
      /\ b.dreq = n.dreq /\ b.queue = q /\ b.out = out /\ b.reserved = n.reserved
  BY <1>1 DEF Node
<1> HIDE DEF b
<1>3. ASSUME NEW k \in Lines PROVE LineOK(b, k)
  <2>1. LineOK(n, k)
    BY <1>1
  <2> QED BY <1>2, <2>1 DEF LineOK, Included
<1>4. ASSUME NEW k \in Lines PROVE BlockOf(b, k) = BlockOf(n, k) /\ MshrOf(b, k) = MshrOf(n, k)
  BY <1>2 DEF BlockOf, MshrOf
<1> QED BY <1>2, <1>3, <1>4 DEF NodeInv, Same, b

\* A node that sends nothing.
LEMMA NothingOut == Nothing \in Outs
<1>1. \A d \in Nodes : <<>> \in Seq(RoutedTo(d)) /\ <<>> \in Seq(Message)
  OBVIOUS
<1>2. Nothing \in [Nodes -> Seq(Message)] /\ \A d \in Nodes : Nothing[d] = <<>>
  BY <1>1 DEF Nothing
<1> QED BY <1>1, <1>2 DEF Outs

\* What a queue of the bus gives and takes.
LEMMA OutQueue ==
  ASSUME NEW out \in Outs, NEW d \in Nodes, NEW q \in Seq(RoutedTo(d))
  PROVE  [out EXCEPT ![d] = q] \in Outs
<1>1. out \in [Nodes -> Seq(Message)] /\ \A k \in Nodes : out[k] \in Seq(RoutedTo(k))
  BY DEF Outs
<1>2. q \in Seq(Message)
  BY DEF RoutedTo
<1> QED BY <1>1, <1>2 DEF Outs

\* A message that arrives finds a handler, and its queue goes on without it.
LEMMA ArrivingRouted ==
  ASSUME NEW q \in [Nodes -> Outs], q = net, NEW d \in Nodes, NEW r \in Arriving(d)
  PROVE  /\ r.from \in Nodes /\ r.pos \in 1 .. Len(q[r.from][d]) /\ q[r.from][d] \in Seq(RoutedTo(d))
         /\ MsgAt(d, r) \in RoutedTo(d) /\ Taken(d, r) \in [Nodes -> Outs]
<1>1. r.from \in Nodes /\ r.pos \in 1 .. Len(net[r.from][d])
  BY DEF Arriving
<1> DEFINE f == r.from
           p == q[f][d]
           k == r.pos
<1>2. p \in Seq(RoutedTo(d)) /\ q[f] \in Outs
  BY <1>1 DEF Outs
<1>3. k \in 1 .. Len(p)
  BY <1>1
<1> HIDE DEF p, k, f
<1>4. RemoveAt(p, k) \in Seq(RoutedTo(d)) /\ p[k] \in RoutedTo(d)
  <2>1. RemoveAt(p, k) \in Seq(RoutedTo(d))
    BY <1>2, <1>3, RemoveAtFacts
  <2>2. p[k] \in RoutedTo(d)
    BY <1>2, <1>3, ElementOfSeq
  <2> QED BY <2>1, <2>2
<1> DEFINE s == RemoveAt(p, k)
           o == [q[f] EXCEPT ![d] = s]
<1> HIDE DEF s
<1>5. o \in Outs
  BY <1>2, <1>4, OutQueue DEF s
<1>6. Taken(d, r) = [q EXCEPT ![f] = o]
  BY DEF Taken, f, k, s, p
<1> HIDE DEF o
<1>7. [q EXCEPT ![f] = o] \in [Nodes -> Outs]
  BY <1>5
<1>8. MsgAt(d, r) = p[k]
  BY DEF MsgAt, p, k, f
<1> QED BY <1>1, <1>2, <1>3, <1>4, <1>6, <1>7, <1>8 DEF p, k, f

\* The queues go on with what a node sends.
LEMMA SentRouted ==
  ASSUME NEW q \in [Nodes -> Outs], NEW n \in Nodes, NEW out \in Outs
  PROVE  Sent(q, n, out) \in [Nodes -> Outs]
<1> DEFINE o == [d \in Nodes |-> q[n][d] \o out[d]]
<1>1. ASSUME NEW d \in Nodes PROVE o[d] \in Seq(RoutedTo(d)) /\ o[d] \in Seq(Message)
  <2> DEFINE x == q[n][d]
             y == out[d]
  <2>1. x \in Seq(RoutedTo(d)) /\ y \in Seq(RoutedTo(d))
    BY DEF Outs
  <2> HIDE DEF x, y
  <2>2. x \o y \in Seq(RoutedTo(d))
    BY ONLY <2>1, ConcatProperties
  <2>3. o[d] = x \o y
    BY DEF x, y
  <2> HIDE DEF o
  <2> QED BY <2>2, <2>3 DEF RoutedTo
<1>2. o \in Outs
  BY <1>1 DEF Outs
<1>3. Sent(q, n, out) = [q EXCEPT ![n] = o]
  BY DEF Sent
<1> HIDE DEF o
<1> QED BY <1>2, <1>3

\* Nothing of a node changes but what its data cache asks for.
Asks2(n, d, b) ==
  /\ NodeInv(b) /\ b.dreq = d /\ b.out = n.out /\ b.queue = n.queue /\ b.reserved = n.reserved
  /\ (b.aborts <=> n.aborts) /\ b.l1d = n.l1d /\ Same(n, b, Lines)

\* The data cache asks for a line.
LEMMA AsksKeeps ==
  ASSUME NEW n, NodeInv(n), NEW d \in Request1,
         \A k \in Lines : Lacking(n.l1d[k], d, k) /\ Awaited(n.mshr[k], d, k)
  PROVE  Asks2(n, d, [n EXCEPT !.dreq = d])
<1> DEFINE b == [n EXCEPT !.dreq = d]
<1>1. n \in Node /\ \A k \in Lines : LineOK(n, k)
  BY DEF NodeInv
<1>2. /\ b \in Node /\ b.l2 = n.l2 /\ b.mshr = n.mshr /\ b.l1d = n.l1d /\ b.l1i = n.l1i
      /\ b.dreq = d /\ b.queue = n.queue /\ b.out = n.out /\ b.reserved = n.reserved
      /\ (b.aborts <=> n.aborts)
  BY <1>1 DEF Node
<1> HIDE DEF b
<1>3. ASSUME NEW k \in Lines PROVE LineOK(b, k)
  <2>1. LineOK(n, k) /\ Lacking(n.l1d[k], d, k) /\ Awaited(n.mshr[k], d, k)
    BY <1>1
  <2> QED BY <1>2, <2>1 DEF LineOK, Included
<1>4. ASSUME NEW k \in Lines PROVE BlockOf(b, k) = BlockOf(n, k) /\ MshrOf(b, k) = MshrOf(n, k)
  BY <1>2 DEF BlockOf, MshrOf
<1> QED BY <1>2, <1>3, <1>4 DEF NodeInv, Same, Asks2, b

\* A load or a store that misses.
LEMMA MissKeeps ==
  ASSUME NEW n, NodeInv(n), NEW l \in Lines, NEW t \in {"GETS", "GETM"},
         t = "GETS" => ~n.l1d[l].in /\ n.dreq.type = "none",
         t = "GETM" => ~n.l1d[l].write /\ (n.dreq.type = "none" \/ n.dreq.line = l)
  PROVE  LET d == [type |-> t, line |-> l, indexing |-> FALSE] IN
         Asks2(n, d, [n EXCEPT !.dreq = d])
<1> DEFINE d == [type |-> t, line |-> l, indexing |-> FALSE]
<1>1. d \in Request1 /\ d.type = t /\ d.line = l
  BY DEF Request1
<1> HIDE DEF d
<1>2. ASSUME NEW k \in Lines PROVE Lacking(n.l1d[k], d, k) /\ Awaited(n.mshr[k], d, k)
  <2>1. LineOK(n, k)
    BY DEF NodeInv
  <2>2. Lacking(n.l1d[k], d, k)
    BY <1>1 DEF Lacking
  <2>3. Awaited(n.mshr[k], n.dreq, k)
    BY <2>1 DEF LineOK
  <2>4. ASSUME n.dreq.type # "none" PROVE t = "GETM" /\ n.dreq.line = l
    BY <2>4
  <2>5. CASE n.mshr[k].st \in {"STOM", "OTOM"} \/ "D" \in n.mshr[k].flag \/ n.mshr[k].finish \cap {"S", "M"} # {}
    <3>1. n.dreq.type # "none" /\ n.dreq.line = k
      BY <2>3, <2>5 DEF Awaited
    <3>2. t = "GETM" /\ k = l
      BY <2>4, <3>1
    <3> QED BY <1>1, <2>2, <2>3, <3>2 DEF Awaited
  <2>6. CASE ~(n.mshr[k].st \in {"STOM", "OTOM"} \/ "D" \in n.mshr[k].flag \/ n.mshr[k].finish \cap {"S", "M"} # {})
    BY <2>2, <2>6 DEF Awaited
  <2> QED BY <2>5, <2>6
<1>3. Asks2(n, d, [n EXCEPT !.dreq = d])
  BY <1>1, <1>2, AsksKeeps
<1> QED BY <1>3 DEF d

\* A store that hits: the data cache alone has what it wrote, and the reservation is over.
StoredIn(n, l, d) == [n EXCEPT !.l1d[l].data = d, !.l1d[l].dirty = TRUE, !.reserved = 0]

\* The node goes on as it should, and alone may write the line.
LEMMA StoreKeeps ==
  ASSUME NEW n, NodeInv(n), NEW l \in Lines, NEW d \in Data, n.l1d[l].write
  PROVE  LET b == StoredIn(n, l, d) IN
         /\ NodeInv(b) /\ b.out = n.out /\ b.queue = n.queue /\ b.reserved = 0 /\ (b.aborts <=> n.aborts)
         /\ n.l2[l].st \in {"E", "M"} /\ n.mshr[l].st = "-" /\ BlockOf(n, l).st \in {"E", "M"}
         /\ BlockOf(b, l) = [st |-> "M", data |-> d] /\ MshrOf(b, l) = MshrOf(n, l)
         /\ Same(n, b, Lines \ {l})
<1> DEFINE b == StoredIn(n, l, d)
           c == n.l1d[l]
           w == [in |-> c.in, write |-> c.write, dirty |-> TRUE, data |-> d]
<1>1. n \in Node /\ (\A k \in Lines : LineOK(n, k)) /\ c \in Line1 /\ n.l1d \in [Lines -> Line1]
  BY NodeFields DEF NodeInv
<1>2. w \in Line1 /\ w.in = c.in /\ w.write = c.write /\ w.dirty /\ w.data = d
  BY <1>1 DEF Line1
<1>3. b = [n EXCEPT !.l1d[l] = w, !.reserved = 0]
  <2>1. [[c EXCEPT !.data = d] EXCEPT !.dirty = TRUE] = w
    <3> DEFINE y == [[c EXCEPT !.data = d] EXCEPT !.dirty = TRUE]
    <3> HIDE DEF c, w
    <3>1. y \in Line1 /\ y.in = c.in /\ y.write = c.write /\ y.dirty /\ y.data = d
      BY <1>1 DEF Line1
    <3> HIDE DEF y
    <3>2. y = w
      BY <1>2, <3>1 DEF Line1
    <3> QED BY <3>2 DEF y
  <2>2. b = [n EXCEPT !.l1d[l] = [[c EXCEPT !.data = d] EXCEPT !.dirty = TRUE], !.reserved = 0]
    BY <1>1 DEF StoredIn, Node
  <2> HIDE DEF w
  <2> QED BY <2>1, <2>2
<1> HIDE DEF w, b
<1>4. /\ b \in Node /\ b.l2 = n.l2 /\ b.mshr = n.mshr /\ b.l1i = n.l1i /\ b.dreq = n.dreq
      /\ b.queue = n.queue /\ b.out = n.out /\ b.reserved = 0 /\ (b.aborts <=> n.aborts)
      /\ b.l1d = [n.l1d EXCEPT ![l] = w]
  <2> DEFINE v == [n.l1d EXCEPT ![l] = w]
  <2>1. v \in [Lines -> Line1]
    BY <1>1, <1>2
  <2>2. b = [n EXCEPT !.l1d = v, !.reserved = 0]
    BY <1>3
  <2> HIDE DEF v
  <2>3. /\ b \in Node /\ b.l2 = n.l2 /\ b.mshr = n.mshr /\ b.l1i = n.l1i /\ b.dreq = n.dreq
        /\ b.queue = n.queue /\ b.out = n.out /\ b.reserved = 0 /\ (b.aborts <=> n.aborts)
        /\ b.l1d = v
    BY <1>1, <2>1, <2>2 DEF Node
  <2> QED BY <2>3 DEF v
<1>5. b.l1d[l] = w /\ \A k \in Lines \ {l} : b.l1d[k] = n.l1d[k]
  BY <1>1, <1>4
<1>6. n.l2[l].st \in {"E", "M"} /\ n.mshr[l].st = "-" /\ c.in
  <2>1. LineOK(n, l)
    BY <1>1
  <2>2. n.l2[l].st \in {"E", "M"}
    BY <2>1 DEF LineOK, Copied
  <2>3. c.in
    BY <2>1 DEF LineOK, NoL1D
  <2> QED BY <2>1, <2>2, <2>3 DEF LineOK
<1>7. ASSUME NEW k \in Lines PROVE LineOK(b, k)
  <2>1. LineOK(n, k)
    BY <1>1
  <2>2. CASE k # l
    <3>1. b.l1d[k] = n.l1d[k] /\ b.reserved # k
      BY <1>4, <1>5, <2>2, PrivAssumption
    <3> QED BY <1>4, <2>1, <3>1 DEF LineOK, Included
  <2>3. CASE k = l
    <3> HIDE DEF c
    <3>1. Lacking(w, n.dreq, l) /\ Copied(n.l2[l], n.mshr[l], w)
      BY <1>2, <1>6, <2>1, <2>3 DEF LineOK, Lacking, Copied, c
    <3>2. (l \in b.l1i => Included(b, l, "I")) /\ Included(b, l, "D")
      BY <1>4, <1>6, <2>1, <2>3 DEF LineOK, Included, c
    <3>3. b.reserved # l /\ w.in
      BY <1>2, <1>4, <1>6, PrivAssumption
    <3> QED BY <1>4, <1>5, <2>1, <2>3, <3>1, <3>2, <3>3 DEF LineOK
  <2> QED BY <2>2, <2>3
<1>8. BlockOf(n, l).st \in {"E", "M"}
  BY <1>6 DEF BlockOf
<1>9. BlockOf(b, l) = [st |-> "M", data |-> d] /\ MshrOf(b, l) = MshrOf(n, l)
  BY <1>2, <1>4, <1>5 DEF BlockOf, MshrOf
<1>10. Same(n, b, Lines \ {l})
  BY <1>4, <1>5 DEF Same, BlockOf, MshrOf
<1> QED BY <1>4, <1>6, <1>7, <1>8, <1>9, <1>10 DEF NodeInv, b

\* What the parts of the system are.
Requests2 == {m \in RoutedTo(LLC) : Request(m)}
Entries2 == [exists : SUBSET L1s, owner : L1s, dirty : BOOLEAN]
Package2 == [line : Lines, entry : Entries2, delay : BOOLEAN, sends : Outs]
LLCTyped ==
  /\ recv_buf \in Seq(Requests2) /\ queue_index \in Seq(Requests2)
  /\ process_buf \in Seq(Package2) /\ queue_writeback \in Seq(Package2)
  /\ dir \in [Lines -> Entries2] /\ blk \in [Lines -> Data \cup {NotHere}] /\ mem \in [Lines -> Data]
NodesInv ==
  /\ priv \in [L1s -> Node] /\ \A i \in L1s : NodeInv(priv[i]) /\ priv[i].out = Nothing
  /\ privGolden \in [Lines -> Data] /\ program \in PrivPrograms
PrivInv == net \in [Nodes -> Outs] /\ LLCTyped /\ NodesInv

\* A node becomes another.
NodeBecomes(i, b) == priv' = [priv EXCEPT ![i] = b]

\* The others stay as they are.
LEMMA BecomesKeeps ==
  ASSUME NodesInv, NEW i \in L1s, NEW b, NodeInv(b), b.out = Nothing, NodeBecomes(i, b),
         privGolden' \in [Lines -> Data], program' = program
  PROVE  NodesInv'
<1>1. b \in Node /\ priv \in [L1s -> Node] /\ priv' = [priv EXCEPT ![i] = b]
  BY DEF NodesInv, NodeInv, NodeBecomes
<1>2. priv' \in [L1s -> Node] /\ priv'[i] = b /\ \A j \in L1s \ {i} : priv'[j] = priv[j]
  BY <1>1
<1>3. ASSUME NEW j \in L1s PROVE NodeInv(priv'[j]) /\ priv'[j].out = Nothing
  <2>1. CASE j = i
    BY <1>2, <2>1
  <2>2. CASE j # i
    BY <1>2, <2>2 DEF NodesInv
  <2> QED BY <2>1, <2>2
<1>4. program' \in PrivPrograms
  BY DEF NodesInv
<1> QED BY <1>2, <1>3, <1>4 DEF NodesInv

\* An instruction cache asks for a line, or what an L1 asked for is queued.
Requeued(n, q, d, r) == [n EXCEPT !.queue = q, !.dreq = d, !.ireq = r]

\* A node whose requests and queue change, but not what they are for.
LEMMA QuietNode ==
  ASSUME NEW n, NodeInv(n), NEW r \in Request1, NEW d \in Request1, NEW q \in Seq(Lines),
         d.type = n.dreq.type, d.line = n.dreq.line
  PROVE  LET b == Requeued(n, q, d, r) IN
         /\ NodeInv(b) /\ b.out = n.out /\ b.reserved = n.reserved /\ (b.aborts <=> n.aborts)
         /\ Same(n, b, Lines)
<1> DEFINE b == Requeued(n, q, d, r)
<1>1. n \in Node /\ \A k \in Lines : LineOK(n, k)
  BY DEF NodeInv
<1>2. /\ b \in Node /\ b.l2 = n.l2 /\ b.mshr = n.mshr /\ b.l1d = n.l1d /\ b.l1i = n.l1i /\ b.dreq = d
      /\ b.reserved = n.reserved /\ (b.aborts <=> n.aborts) /\ b.out = n.out
  BY <1>1 DEF Node, Requeued
<1> HIDE DEF b
<1>3. ASSUME NEW k \in Lines
      PROVE  LineOK(b, k) /\ BlockOf(b, k) = BlockOf(n, k) /\ MshrOf(b, k) = MshrOf(n, k)
  <2>1. LineOK(n, k)
    BY <1>1
  <2>2. Lacking(b.l1d[k], b.dreq, k) /\ Awaited(b.mshr[k], b.dreq, k)
    BY <1>2, <2>1 DEF LineOK, Lacking, Awaited
  <2>3. (b.l1d[k].in => Included(b, k, "D")) /\ (k \in b.l1i => Included(b, k, "I"))
    BY <1>2, <2>1 DEF LineOK, Included
  <2> QED BY <1>2, <2>1, <2>2, <2>3 DEF LineOK, BlockOf, MshrOf
<1> QED BY <1>2, <1>3 DEF NodeInv, Same, b

\* The reservation of a line the data cache has.
LEMMA ReserveKeeps ==
  ASSUME NEW n, NodeInv(n), NEW l \in Lines, n.l1d[l].in
  PROVE  LET b == [n EXCEPT !.reserved = l] IN
         /\ NodeInv(b) /\ b.out = n.out /\ b.queue = n.queue /\ b.reserved = l /\ (b.aborts <=> n.aborts)
         /\ Same(n, b, Lines)
<1> DEFINE b == [n EXCEPT !.reserved = l]
<1>1. n \in Node /\ \A k \in Lines : LineOK(n, k)
  BY DEF NodeInv
<1>2. /\ b \in Node /\ b.l2 = n.l2 /\ b.mshr = n.mshr /\ b.l1d = n.l1d /\ b.l1i = n.l1i /\ b.dreq = n.dreq
      /\ b.queue = n.queue /\ b.reserved = l /\ (b.aborts <=> n.aborts) /\ b.out = n.out
  BY <1>1 DEF Node
<1> HIDE DEF b
<1>3. ASSUME NEW k \in Lines PROVE LineOK(b, k)
  <2>1. LineOK(n, k)
    BY <1>1
  <2> QED BY <1>2, <2>1 DEF LineOK, Included
<1>4. ASSUME NEW k \in Lines PROVE BlockOf(b, k) = BlockOf(n, k) /\ MshrOf(b, k) = MshrOf(n, k)
  BY <1>2 DEF BlockOf, MshrOf
<1> QED BY <1>2, <1>3, <1>4 DEF NodeInv, Same, b

\* The program names lines.
LEMMA ProgramLines ==
  ASSUME NodesInv, NEW i \in L1s
  PROVE  /\ program[i].loads \subseteq Lines /\ program[i].stores \subseteq Lines
         /\ program[i].fetches \subseteq Lines /\ program[i].reserves \subseteq Lines
<1>1. program \in [L1s -> [loads : SUBSET Lines, stores : SUBSET Lines,
                           fetches : SUBSET Lines, reserves : SUBSET Lines]]
  BY PrivAssumption DEF NodesInv
<1> QED BY <1>1

\* A store that hits, at its node.
StoresAt(i, l, d) ==
  priv' = [priv EXCEPT ![i].l1d[l].data = d, ![i].l1d[l].dirty = TRUE, ![i].reserved = 0]

\* The action is a step of the node.
LEMMA StoreAt ==
  ASSUME NodesInv, NEW i \in L1s, NEW l, NEW d, StoresAt(i, l, d)
  PROVE  NodeBecomes(i, StoredIn(priv[i], l, d))
<1>1. priv \in [L1s -> Node]
  BY DEF NodesInv
<1> DEFINE n == priv[i]
           n1 == [n EXCEPT !.l1d[l].data = d]
           n2 == [n1 EXCEPT !.l1d[l].dirty = TRUE]
           n3 == [n2 EXCEPT !.reserved = 0]
           p1 == [priv EXCEPT ![i] = n1]
           p2 == [p1 EXCEPT ![i] = n2]
           p3 == [p2 EXCEPT ![i] = n3]
<1>2. StoredIn(priv[i], l, d) = n3
  BY DEF StoredIn
<1>3. p1 = [priv EXCEPT ![i].l1d[l].data = d]
  OBVIOUS
<1>4. p1[i] = n1
  BY <1>1
<1>5. p2 = [p1 EXCEPT ![i].l1d[l].dirty = TRUE]
  <2> HIDE DEF p1, n1
  <2> QED BY <1>4
<1>6. p2[i] = n2
  BY <1>1
<1>7. p3 = [p2 EXCEPT ![i].reserved = 0]
  <2> HIDE DEF p2, n2
  <2> QED BY <1>6
<1>8. priv' = p3
  <2>1. priv' = [[[priv EXCEPT ![i].l1d[l].data = d] EXCEPT ![i].l1d[l].dirty = TRUE] EXCEPT ![i].reserved = 0]
    BY DEF StoresAt
  <2> HIDE DEF p1, p2, p3
  <2> QED BY <2>1, <1>3, <1>5, <1>7
<1>9. p3 = [priv EXCEPT ![i] = n3]
  <2> HIDE DEF n1, n2, n3
  <2> QED BY <1>1
<1> QED BY <1>2, <1>8, <1>9 DEF NodeBecomes

\* The CPU moves its node where the directory sees nothing of it, or stores.
Unseen(i, b) ==
  /\ NodeInv(b) /\ b.out = Nothing /\ (b.aborts <=> priv[i].aborts) /\ Same(priv[i], b, Lines)
  /\ NodeBecomes(i, b)
Idles(i) ==
  /\ \E b : Unseen(i, b)
  /\ UNCHANGED <<privGolden, program, net>> /\ privLost' \subseteq privLost
StoresIn(i, l) ==
  LET d == (privGolden[l] + 1) % (MaxData + 1) IN
  /\ priv[i].l1d[l].write /\ StoresAt(i, l, d)
  /\ privGolden' = [privGolden EXCEPT ![l] = d] /\ UNCHANGED <<program, net>>
  /\ privLost' = (privLost \cup {j \in L1s : priv[j].reserved = l}) \ {i}

\* What the CPU does to its node.
LEMMA CPUMoves ==
  ASSUME NodesInv, NEW i \in L1s, PrivCPU(i)
  PROVE  Idles(i) \/ \E l \in Lines : StoresIn(i, l)
<1> DEFINE n == priv[i]
<1>1. n \in Node /\ NodeInv(n) /\ n.out = Nothing /\ priv \in [L1s -> Node]
  BY DEF NodesInv, NodeInv
<1>2. n.dreq \in Request1 /\ n.ireq \in Request1 /\ n.queue \in Seq(Lines)
  BY <1>1, NodeFields
<1>4. ASSUME NEW l \in Lines, l1i_load(i, l)
      PROVE  Idles(i)
  <2> DEFINE r == [type |-> "GETS", line |-> l, indexing |-> FALSE]
             b == Requeued(n, n.queue, n.dreq, r)
             c == [n EXCEPT !.ireq = r]
  <2>1. r \in Request1
    BY DEF Request1
  <2> HIDE DEF r
  <2>3. b = c
    BY <1>1 DEF Node, Requeued
  <2>2. NodeInv(b) /\ b.out = n.out /\ (b.aborts <=> n.aborts) /\ Same(n, b, Lines)
    <3> HIDE DEF n
    <3> QED BY <1>1, <1>2, <2>1, QuietNode
  <2>4. NodeBecomes(i, c)
    BY <1>4 DEF l1i_load, NodeBecomes, r
  <2> HIDE DEF b, c
  <2>5. Unseen(i, c)
    BY <1>1, <2>2, <2>3, <2>4 DEF Unseen
  <2> QED BY <1>4, <2>5 DEF l1i_load, Idles
<1>5. ASSUME NEW l \in Lines, NEW t \in {"GETS", "GETM"},
             t = "GETS" => ~n.l1d[l].in /\ n.dreq.type = "none",
             t = "GETM" => ~n.l1d[l].write /\ (n.dreq.type = "none" \/ n.dreq.line = l),
             priv' = [priv EXCEPT ![i].dreq = [type |-> t, line |-> l, indexing |-> FALSE]],
             UNCHANGED <<privGolden, privLost, program, net>>
      PROVE  Idles(i)
  <2> DEFINE d == [type |-> t, line |-> l, indexing |-> FALSE]
             b == [n EXCEPT !.dreq = d]
  <2>1. Asks2(n, d, b)
    <3> HIDE DEF n
    <3> QED BY <1>1, <1>5, MissKeeps
  <2>2. NodeBecomes(i, b)
    BY <1>5 DEF NodeBecomes
  <2> HIDE DEF b
  <2>3. Unseen(i, b)
    BY <1>1, <2>1, <2>2 DEF Asks2, Unseen
  <2> QED BY <1>5, <2>3 DEF Idles
<1>6. ASSUME NEW l \in Lines, l1d_load(i, l)
      PROVE  Idles(i)
  <2> DEFINE t == "GETS"
  <2>1. /\ t \in {"GETS", "GETM"} /\ t = "GETS" /\ ~n.l1d[l].in /\ n.dreq.type = "none"
        /\ priv' = [priv EXCEPT ![i].dreq = [type |-> t, line |-> l, indexing |-> FALSE]]
        /\ UNCHANGED <<privGolden, privLost, program, net>>
    BY <1>6 DEF l1d_load
  <2> HIDE DEF t
  <2> QED BY <1>5, <2>1
<1>7. ASSUME NEW l \in Lines, l1d_store(i, l)
      PROVE  Idles(i) \/ StoresIn(i, l)
  <2>1. CASE n.l1d[l].write
    BY <1>7, <2>1 DEF l1d_store, StoresIn, StoresAt
  <2>2. CASE ~n.l1d[l].write
    <3> DEFINE t == "GETM"
    <3>1. /\ t \in {"GETS", "GETM"} /\ t = "GETM" /\ ~n.l1d[l].write /\ (n.dreq.type = "none" \/ n.dreq.line = l)
          /\ priv' = [priv EXCEPT ![i].dreq = [type |-> t, line |-> l, indexing |-> FALSE]]
          /\ UNCHANGED <<privGolden, privLost, program, net>>
      BY <1>7, <2>2 DEF l1d_store
    <3> HIDE DEF t
    <3> QED BY <1>5, <3>1
  <2> QED BY <2>1, <2>2
<1>8. ASSUME NEW l \in Lines, l1d_load_reserved(i, l)
      PROVE  Idles(i)
  <2> DEFINE b == [n EXCEPT !.reserved = l]
  <2>1. NodeInv(b) /\ b.out = n.out /\ (b.aborts <=> n.aborts) /\ Same(n, b, Lines)
    <3> HIDE DEF n
    <3>1. n.l1d[l].in
      BY <1>8 DEF l1d_load_reserved, n
    <3> QED BY <1>1, <3>1, ReserveKeeps
  <2>2. NodeBecomes(i, b)
    BY <1>8 DEF l1d_load_reserved, NodeBecomes
  <2> HIDE DEF b
  <2>3. Unseen(i, b)
    BY <1>1, <2>1, <2>2 DEF Unseen
  <2> QED BY <1>8, <2>3 DEF l1d_load_reserved, Idles
<1> QED BY <1>4, <1>6, <1>7, <1>8, ProgramLines DEF PrivCPU, l1d_store_conditional

\* A node that idles, or stores, keeps the invariant.
LEMMA IdleKeeps ==
  ASSUME NodesInv, NEW i \in L1s, Idles(i)
  PROVE  NodesInv' /\ net' = net
<1>1. PICK b : Unseen(i, b)
  BY DEF Idles
<1>2. privGolden' \in [Lines -> Data]
  BY DEF NodesInv, Idles
<1>3. program' = program /\ net' = net
  BY DEF Idles
<1> QED BY <1>1, <1>2, <1>3, BecomesKeeps DEF Unseen

\* A store into a line the data cache may write keeps what each node has of itself.
LEMMA StoresInKeeps ==
  ASSUME NodesInv, NEW i \in L1s, NEW l \in Lines, StoresIn(i, l)
  PROVE  NodesInv' /\ net' = net
<1> DEFINE n == priv[i]
           d == (privGolden[l] + 1) % (MaxData + 1)
<1>1. NodeInv(n) /\ n.out = Nothing /\ privGolden \in [Lines -> Data] /\ n.l1d[l].write
  BY DEF NodesInv, StoresIn
<1>2. StoresAt(i, l, d) /\ privGolden' = [privGolden EXCEPT ![l] = d] /\ program' = program /\ net' = net
  BY DEF StoresIn
<1>3. d \in Data
  BY <1>1, DataAssumption DEF Data
<1> HIDE DEF d
<1> DEFINE b == StoredIn(n, l, d)
<1>4. NodeInv(b) /\ b.out = n.out
  <2> HIDE DEF n, b
  <2>1. NodeInv(n) /\ n.l1d[l].write
    BY <1>1
  <2>2. NodeInv(StoredIn(n, l, d)) /\ StoredIn(n, l, d).out = n.out
    BY ZenonT(60), <1>3, <2>1, StoreKeeps
  <2> QED BY <2>2 DEF b
<1>5. NodeBecomes(i, b)
  BY <1>2, StoreAt
<1> HIDE DEF b
<1>6. privGolden' \in [Lines -> Data]
  BY <1>1, <1>2, <1>3
<1>7. b.out = Nothing
  BY <1>1, <1>4
<1>8. NodesInv'
  BY <1>2, <1>4, <1>5, <1>6, <1>7, BecomesKeeps
<1> QED BY <1>2, <1>8

\* What the CPU does keeps it.
LEMMA PrivCPUKeeps ==
  ASSUME NodesInv, NEW i \in L1s, PrivCPU(i)
  PROVE  NodesInv' /\ net' = net
<1>1. CASE Idles(i)
  BY <1>1, IdleKeeps
<1>2. CASE \E l \in Lines : StoresIn(i, l)
  BY <1>2, StoresInKeeps
<1> QED BY <1>1, <1>2, CPUMoves

\* What the L1s of a node ask for is queued.
LEMMA FetchMoves ==
  ASSUME NodesInv, NEW i \in L1s, PrivFetch(i)
  PROVE  Idles(i)
<1> DEFINE n == priv[i]
<1>1. n \in Node /\ NodeInv(n) /\ n.out = Nothing /\ priv \in [L1s -> Node]
  BY DEF NodesInv, NodeInv
<1>2. n.dreq \in Request1 /\ n.ireq \in Request1 /\ n.queue \in Seq(Lines)
  BY <1>1, NodeFields
<1>3. UNCHANGED <<privGolden, privLost, program, net>>
  BY DEF PrivFetch
<1>4. ASSUME NEW r \in Request1, NEW d \in Request1, NEW q \in Seq(Lines),
             d.type = n.dreq.type, d.line = n.dreq.line, NodeBecomes(i, Requeued(n, q, d, r))
      PROVE  Idles(i)
  <2> DEFINE b == Requeued(n, q, d, r)
  <2>1. NodeInv(b) /\ b.out = n.out /\ (b.aborts <=> n.aborts) /\ Same(n, b, Lines)
    <3> HIDE DEF n
    <3> QED BY <1>1, <1>4, QuietNode
  <2>2. NodeBecomes(i, b)
    BY <1>4
  <2> HIDE DEF b
  <2>3. Unseen(i, b)
    BY <1>1, <2>1, <2>2 DEF Unseen
  <2> QED BY <1>3, <2>3 DEF Idles
<1>5. CASE /\ Fetchable(n, n.dreq)
           /\ priv' = [priv EXCEPT ![i].queue = Append(@, n.dreq.line), ![i].dreq.indexing = TRUE]
  <2> DEFINE q == Append(n.queue, n.dreq.line)
             d == [n.dreq EXCEPT !.indexing = TRUE]
             n1 == [n EXCEPT !.queue = q]
             p1 == [priv EXCEPT ![i] = n1]
             n2 == [n1 EXCEPT !.dreq = d]
             r == n.ireq
  <2>1. d \in Request1 /\ d.type = n.dreq.type /\ d.line = n.dreq.line
    BY <1>2 DEF Request1
  <2>2. q \in Seq(Lines)
    <3>1. n.dreq.line \in Lines
      BY <1>2, <1>5 DEF Request1, Fetchable
    <3> QED BY <1>2, <3>1
  <2>3. priv' = [p1 EXCEPT ![i].dreq.indexing = TRUE]
    BY <1>5
  <2>4. p1[i].dreq = n.dreq /\ p1[i] = n1
    BY <1>1 DEF Node
  <2>5. priv' = [p1 EXCEPT ![i] = n2]
    <3> HIDE DEF p1, n1
    <3> QED BY <2>3, <2>4
  <2>6. priv' = [priv EXCEPT ![i] = n2]
    <3> HIDE DEF n1, n2
    <3> QED BY <1>1, <2>5
  <2>7. n2 = Requeued(n, q, d, r)
    <3> HIDE DEF q, d
    <3> QED BY <1>1 DEF Requeued, Node
  <2>8. NodeBecomes(i, Requeued(n, q, d, r))
    BY <2>6, <2>7 DEF NodeBecomes
  <2> HIDE DEF q, d
  <2> QED BY <1>2, <1>4, <2>1, <2>2, <2>8
<1>6. CASE /\ Fetchable(n, n.ireq)
           /\ priv' = [priv EXCEPT ![i].queue = Append(@, n.ireq.line), ![i].ireq.indexing = TRUE]
  <2> DEFINE q == Append(n.queue, n.ireq.line)
             r == [n.ireq EXCEPT !.indexing = TRUE]
             n1 == [n EXCEPT !.queue = q]
             p1 == [priv EXCEPT ![i] = n1]
             n2 == [n1 EXCEPT !.ireq = r]
             d == n.dreq
  <2>1. r \in Request1 /\ d \in Request1
    BY <1>2 DEF Request1
  <2>2. q \in Seq(Lines)
    <3>1. n.ireq.line \in Lines
      BY <1>2, <1>6 DEF Request1, Fetchable
    <3> QED BY <1>2, <3>1
  <2>3. priv' = [p1 EXCEPT ![i].ireq.indexing = TRUE]
    BY <1>6
  <2>4. p1[i].ireq = n.ireq /\ p1[i] = n1
    BY <1>1 DEF Node
  <2>5. priv' = [p1 EXCEPT ![i] = n2]
    <3> HIDE DEF p1, n1
    <3> QED BY <2>3, <2>4
  <2>6. priv' = [priv EXCEPT ![i] = n2]
    <3> HIDE DEF n1, n2
    <3> QED BY <1>1, <2>5
  <2>7. n2 = Requeued(n, q, d, r)
    <3> HIDE DEF q, r
    <3> QED BY <1>1 DEF Requeued, Node
  <2>8. NodeBecomes(i, Requeued(n, q, d, r))
    BY <2>6, <2>7 DEF NodeBecomes
  <2> HIDE DEF q, r
  <2> QED BY <1>4, <2>1, <2>2, <2>8
<1> QED BY <1>5, <1>6 DEF PrivFetch

\* p1_fetch keeps it.
LEMMA PrivFetchKeeps ==
  ASSUME NodesInv, NEW i \in L1s, PrivFetch(i)
  PROVE  NodesInv' /\ net' = net
  BY FetchMoves, IdleKeeps

\* What a step of a node sends leaves it.
LEMMA NodeSends ==
  ASSUME NodesInv, NEW i \in L1s, NEW a, NodeInv(a), NEW q \in [Nodes -> Outs],
         NodeBecomes(i, [a EXCEPT !.out = Nothing]), net' = Sent(q, i, a.out),
         UNCHANGED <<privGolden, privLost, program>>
  PROVE  NodesInv' /\ net' \in [Nodes -> Outs]
<1> DEFINE b == [a EXCEPT !.queue = a.queue, !.out = Nothing]
           c == [a EXCEPT !.out = Nothing]
<1>1. a \in Node /\ a.queue \in Seq(Lines) /\ a.out \in Outs /\ Nothing \in Outs /\ i \in Nodes
  BY NodeFields, NothingOut, NodeFacts DEF NodeInv
<1>2. NodeInv(b) /\ b.out = Nothing
  <2> DEFINE p == a.queue
             o == Nothing
  <2> HIDE DEF p, o
  <2>1. p \in Seq(Lines) /\ o \in Outs
    BY <1>1 DEF p, o
  <2>2. NodeInv([a EXCEPT !.queue = p, !.out = o])
    BY <2>1, SentOff
  <2>3. [a EXCEPT !.queue = p, !.out = o].out = o
    BY <1>1 DEF Node
  <2> QED BY <2>2, <2>3 DEF p, o
<1>3. b = c
  BY <1>1 DEF Node
<1>4. NodeInv(c) /\ c.out = Nothing /\ NodeBecomes(i, c)
  BY <1>2, <1>3
<1>5. net' \in [Nodes -> Outs]
  BY <1>1, SentRouted
<1>6. privGolden' \in [Lines -> Data]
  BY DEF NodesInv
<1> HIDE DEF b, c
<1> QED BY <1>4, <1>5, <1>6, BecomesKeeps
\* A node whose messages have been sent.
Emptied(a) == [a EXCEPT !.out = Nothing]
\* Node i becomes a, and what a sends goes after the messages of q.
Goes(i, q, a) ==
  /\ NodeBecomes(i, Emptied(a)) /\ net' = Sent(q, i, a.out)
  /\ UNCHANGED <<privGolden, privLost, program>>

\* A node that goes on as it should keeps it.
LEMMA GoesKeeps ==
  ASSUME NodesInv, NEW i \in L1s, NEW a, NodeInv(a), NEW q \in [Nodes -> Outs], Goes(i, q, a)
  PROVE  NodesInv' /\ net' \in [Nodes -> Outs]
  BY NodeSends DEF Goes, Emptied

\* What the directory sees of a node that works on a line of its queue: nothing, or that
\* it asks for the line, to read or to write.
ActsOn(n, l, c, e, out, b) ==
  /\ NodeInv(b) /\ (b.aborts <=> n.aborts)
  /\ BlockOf(b, l) = c /\ MshrOf(b, l) = e /\ b.out = out /\ Same(n, b, Lines \ {l})
WorksOn(i, l, a) ==
  LET n == priv[i] IN
  \/ ActsOn(n, l, BlockOf(n, l), MshrOf(n, l), Nothing, a)
  \/ /\ n.l2[l].st = "I" /\ n.mshr[l].st = "-"
     /\ ActsOn(n, l, BlockOf(n, l), Waits("ITOS"), Just(AskFor(i, l, "ITOS")), a)
  \/ /\ n.l2[l].st \notin {"E", "M"} /\ n.mshr[l].st = "-"
     /\ ActsOn(n, l, Absent, Upgrade(BlockOf(n, l)), Just(AskFor(i, l, "ITOM")), a)

\* A node that differs in its queue is seen as it was.
LEMMA QueueSeen ==
  ASSUME NEW p, NodeInv(p), NEW q \in Seq(Lines), NEW n, n = [p EXCEPT !.queue = q]
  PROVE  /\ NodeInv(n) /\ n.out = p.out /\ (n.aborts <=> p.aborts) /\ n.l2 = p.l2 /\ n.mshr = p.mshr
         /\ n.dreq = p.dreq /\ \A k \in Lines : BlockOf(n, k) = BlockOf(p, k) /\ MshrOf(n, k) = MshrOf(p, k)
<1> DEFINE o == p.out
<1>1. p \in Node /\ o \in Outs
  BY NodeFields DEF NodeInv
<1>2. n = [p EXCEPT !.queue = q, !.out = o]
  BY <1>1 DEF Node
<1>3. n.out = p.out /\ (n.aborts <=> p.aborts) /\ n.l2 = p.l2 /\ n.mshr = p.mshr /\ n.dreq = p.dreq
      /\ n.l1d = p.l1d
  BY <1>1 DEF Node
<1> HIDE DEF o
<1>4. NodeInv([p EXCEPT !.queue = q, !.out = o])
  BY <1>1, SentOff
<1>5. ASSUME NEW k \in Lines PROVE BlockOf(n, k) = BlockOf(p, k) /\ MshrOf(n, k) = MshrOf(p, k)
  BY <1>3 DEF BlockOf, MshrOf
<1> QED BY <1>2, <1>3, <1>4, <1>5

\* What works on the first of the queue does to its node.
LEMMA IndexMoves ==
  ASSUME NodesInv, NEW i \in L1s, PrivIndex(i)
  PROVE  \E l \in Lines : \E a : WorksOn(i, l, a) /\ Goes(i, net, a)
<1> DEFINE p == priv[i]
           l == Head(p.queue)
           q == Tail(p.queue)
           n == [p EXCEPT !.queue = q]
           next == IF ~ForI(n, l) /\ ~ForD(n, l) THEN {n}
                   ELSE IF ForD(n, l) /\ n.dreq.type = "GETM" THEN IndexWrite(n, i, l)
                   ELSE IndexRead(n, i, l)
<1>1. p \in Node /\ NodeInv(p) /\ p.out = Nothing /\ priv \in [L1s -> Node] /\ p.queue \in Seq(Lines)
  BY NodeFields DEF NodesInv, NodeInv
<1>2. p.queue # <<>> /\ UNCHANGED <<privGolden, privLost, program>>
  BY DEF PrivIndex
<1>3. PICK a \in next : /\ priv' = [priv EXCEPT ![i] = [a EXCEPT !.out = Nothing]]
                        /\ net' = Sent(net, i, a.out)
  BY DEF PrivIndex
<1>4. l \in Lines /\ q \in Seq(Lines)
  <2> DEFINE u == p.queue
  <2> HIDE DEF u
  <2>1. u \in Seq(Lines) /\ u # <<>>
    BY <1>1, <1>2 DEF u
  <2>2. Head(u) \in Lines /\ Tail(u) \in Seq(Lines)
    BY ONLY <2>1, TailSet
  <2> QED BY <2>2 DEF u
<1>5. /\ NodeInv(n) /\ n.out = Nothing /\ (n.aborts <=> p.aborts) /\ n.l2 = p.l2 /\ n.mshr = p.mshr
      /\ \A k \in Lines : BlockOf(n, k) = BlockOf(p, k) /\ MshrOf(n, k) = MshrOf(p, k)
  <2> HIDE DEF q, p
  <2>1. n = [p EXCEPT !.queue = q]
    OBVIOUS
  <2> HIDE DEF n
  <2> QED BY <1>1, <1>4, <2>1, QueueSeen
<1>6. Goes(i, net, a)
  BY <1>2, <1>3 DEF Goes, NodeBecomes, Emptied
<1>7. a \in next
  BY <1>3
<1>8. \A x : Also(n.out, x) = Just(x)
  BY <1>5 DEF Just
<1> HIDE DEF p, n, l, q
<1>9. \/ ActsOn(n, l, BlockOf(n, l), MshrOf(n, l), Nothing, a)
      \/ /\ n.l2[l].st = "I" /\ n.mshr[l].st = "-"
         /\ ActsOn(n, l, BlockOf(n, l), Waits("ITOS"), Just(AskFor(i, l, "ITOS")), a)
      \/ /\ n.l2[l].st \notin {"E", "M"} /\ n.mshr[l].st = "-"
         /\ ActsOn(n, l, Absent, Upgrade(BlockOf(n, l)), Just(AskFor(i, l, "ITOM")), a)
  <2>1. CASE ~ForI(n, l) /\ ~ForD(n, l)
    <3>1. a = n
      BY <1>7, <2>1
    <3> QED BY <1>5, <3>1 DEF ActsOn, Same
  <2>2. CASE ~(~ForI(n, l) /\ ~ForD(n, l)) /\ ForD(n, l) /\ n.dreq.type = "GETM"
    <3>1. a \in IndexWrite(n, i, l)
      BY <1>7, <2>2
    <3> HIDE DEF next
    <3>2. \/ Acts2(n, l, BlockOf(n, l), MshrOf(n, l), n.out, a)
          \/ /\ n.l2[l].st \notin {"E", "M"} /\ n.mshr[l].st = "-"
             /\ Acts2(n, l, Absent, Upgrade(BlockOf(n, l)), Also(n.out, AskFor(i, l, "ITOM")), a)
      BY <1>4, <1>5, <2>2, <3>1, IndexWriteKeeps
    <3> QED BY <1>5, <1>8, <3>2 DEF Acts2, ActsOn
  <2>3. CASE ~(~ForI(n, l) /\ ~ForD(n, l)) /\ ~(ForD(n, l) /\ n.dreq.type = "GETM")
    <3>1. a \in IndexRead(n, i, l)
      BY <1>7, <2>3
    <3> HIDE DEF next
    <3>2. \/ Acts2(n, l, BlockOf(n, l), MshrOf(n, l), n.out, a)
          \/ /\ n.l2[l].st = "I" /\ n.mshr[l].st = "-"
             /\ Acts2(n, l, BlockOf(n, l), Waits("ITOS"), Also(n.out, AskFor(i, l, "ITOS")), a)
      BY <1>4, <1>5, <2>3, <3>1, IndexReadKeeps
    <3> QED BY <1>5, <1>8, <3>2 DEF Acts2, ActsOn
  <2> QED BY <2>1, <2>2, <2>3
<1> HIDE DEF next
<1>10. \A c, e, out : ActsOn(n, l, c, e, out, a) => ActsOn(p, l, c, e, out, a)
  BY <1>5 DEF ActsOn, Same
<1>11. BlockOf(n, l) = BlockOf(p, l) /\ MshrOf(n, l) = MshrOf(p, l) /\ n.l2[l] = p.l2[l] /\ n.mshr[l] = p.mshr[l]
  BY <1>4, <1>5
<1>12. WorksOn(i, l, a)
  BY <1>9, <1>10, <1>11 DEF WorksOn, p
<1> QED BY <1>4, <1>6, <1>12

\* The first of the queue is worked on.
LEMMA PrivIndexKeeps ==
  ASSUME NodesInv, net \in [Nodes -> Outs], NEW i \in L1s, PrivIndex(i)
  PROVE  NodesInv' /\ net' \in [Nodes -> Outs]
<1>1. PICK l \in Lines : \E a : WorksOn(i, l, a) /\ Goes(i, net, a)
  BY IndexMoves
<1>2. PICK a : WorksOn(i, l, a) /\ Goes(i, net, a)
  BY <1>1
<1>3. NodeInv(a)
  BY <1>2 DEF WorksOn, ActsOn
<1> QED BY <1>2, <1>3, GoesKeeps

\* A message arrives.
LEMMA PrivReceiveKeeps ==
  ASSUME NodesInv, net \in [Nodes -> Outs], NEW i \in L1s, PrivReceive(i)
  PROVE  NodesInv' /\ net' \in [Nodes -> Outs]
<1>1. PICK r \in Arriving(i) :
        \E a \in OnMessage(priv[i], i, MsgAt(i, r)) :
          /\ priv' = [priv EXCEPT ![i] = [a EXCEPT !.out = Nothing]]
          /\ net' = Sent(Taken(i, r), i, a.out)
  BY DEF PrivReceive
<1>2. PICK a \in OnMessage(priv[i], i, MsgAt(i, r)) :
        /\ priv' = [priv EXCEPT ![i] = [a EXCEPT !.out = Nothing]]
        /\ net' = Sent(Taken(i, r), i, a.out)
  BY <1>1
<1>3. MsgAt(i, r) \in RoutedTo(i) /\ Taken(i, r) \in [Nodes -> Outs]
  <2>1. i \in Nodes
    BY NodeFacts
  <2> QED BY <2>1, ArrivingRouted
<1>4. NodeInv(priv[i])
  BY DEF NodesInv
<1>5. NodeInv(a)
  BY <1>2, <1>3, <1>4, OnMessageKeeps
<1>6. NodeBecomes(i, [a EXCEPT !.out = Nothing]) /\ UNCHANGED <<privGolden, privLost, program>>
  BY <1>2 DEF NodeBecomes, PrivReceive
<1> QED BY <1>2, <1>3, <1>5, <1>6, NodeSends

-----------------------------------------------------------------------------
(* The directory sends what finds a handler.                               *)

\* A message of the LLC.
LEMMA LLCRouted ==
  ASSUME NEW ty \in MessageTypes, NEW ch \in {ACK, RESP, REQ}, NEW ds \in Nodes,
         NEW l \in Lines, NEW ar \in Nat, NEW da \in Data,
         ty \in {"GETS_RESP", "GETM_RESP"} => ch = RESP,
         ty \in {"INVALID", "GETS_FORWARD", "GETM_FORWARD"} => ch \in {RESP, REQ},
         ds \in L1s => ty \in ForL1, ty \in {"GETS_FORWARD", "GETM_FORWARD"} => ar \in L1s,
         ty = "INVALID" => ar \in L1s \cup {LLC}, ds # LLC
  PROVE  LET x == FromLLC(ty, ch, ds, l, ar, da) IN x \in RoutedTo(x.dst) /\ x.dst = ds
<1> DEFINE x == FromLLC(ty, ch, ds, l, ar, da)
<1>1. /\ x \in Message /\ x.type = ty /\ x.dst = ds /\ x.arg = ar
  BY LLCMessageFacts
<1> HIDE DEF x
<1>2. Routed(x)
  BY <1>1 DEF Routed
<1> QED BY <1>1, <1>2 DEF RoutedTo, x

\* One message to send.
LEMMA JustOut ==
  ASSUME NEW m, m \in RoutedTo(m.dst)
  PROVE  Just(m) \in Outs
  BY NothingOut, AlsoOut DEF Just

\* What it forwards for a reader or writer, and answers with.
LEMMA LLCAnswersRouted ==
  ASSUME NEW i \in L1s, NEW l \in Lines, NEW d \in L1s \cup {MEM}, NEW data \in Data, NEW k \in Nat
  PROVE  /\ LET x == FromLLC("GETS_FORWARD", REQ, d, l, i, NoData) IN x \in RoutedTo(x.dst)
         /\ LET x == FromLLC("GETM_FORWARD", REQ, d, l, i, NoData) IN x \in RoutedTo(x.dst)
         /\ LET x == FromLLC("GETS_RESP", RESP, i, l, 0, data) IN x \in RoutedTo(x.dst)
         /\ LET x == FromLLC("GETM_RESP", RESP, i, l, 1, data) IN x \in RoutedTo(x.dst)
         /\ LET x == FromLLC("GETM_ACK", RESP, i, l, k, NoData) IN x \in RoutedTo(x.dst)
         /\ LET x == FromLLC("PUT_ACK", ACK, i, l, 0, NoData) IN x \in RoutedTo(x.dst)
         /\ LET x == FromLLC("PUTM", REQ, MEM, l, LLC, data) IN x \in RoutedTo(x.dst)
<1>1. /\ i \in Nodes /\ d \in Nodes /\ MEM \in Nodes /\ LLC \in Nat /\ i \in Nat /\ NoData \in Data
      /\ i # LLC /\ d # LLC /\ MEM # LLC /\ MEM \notin L1s
  BY NodeFacts, DataFacts, NumL1Assumption DEF LLC
<1>2. {"GETS_FORWARD", "GETM_FORWARD", "GETS_RESP", "GETM_RESP", "GETM_ACK", "PUT_ACK", "PUTM"}
        \subseteq MessageTypes
  BY DEF MessageTypes
<1>3. {"GETS_FORWARD", "GETM_FORWARD", "GETS_RESP", "GETM_RESP", "GETM_ACK", "PUT_ACK"} \subseteq ForL1
  BY DEF ForL1
<1>4. LET x == FromLLC("GETS_FORWARD", REQ, d, l, i, NoData) IN x \in RoutedTo(x.dst)
  <2> DEFINE ty == "GETS_FORWARD"
  <2>1. ty \in MessageTypes /\ ty \in ForL1 /\ ty \notin {"GETS_RESP", "GETM_RESP", "INVALID"}
    BY <1>2, <1>3
  <2>2. ty \in MessageTypes /\ REQ \in {ACK, RESP, REQ} /\ REQ \in {RESP, REQ}
    BY <2>1
  <2> HIDE DEF ty
  <2>3. LET x == FromLLC(ty, REQ, d, l, i, NoData) IN x \in RoutedTo(x.dst) /\ x.dst = d
    BY <1>1, <2>1, <2>2, LLCRouted
  <2> QED BY <2>3 DEF ty
<1>5. LET x == FromLLC("GETM_FORWARD", REQ, d, l, i, NoData) IN x \in RoutedTo(x.dst)
  <2> DEFINE ty == "GETM_FORWARD"
  <2>1. ty \in MessageTypes /\ ty \in ForL1 /\ ty \notin {"GETS_RESP", "GETM_RESP", "INVALID"}
    BY <1>2, <1>3
  <2>2. ty \in MessageTypes /\ REQ \in {ACK, RESP, REQ} /\ REQ \in {RESP, REQ}
    BY <2>1
  <2> HIDE DEF ty
  <2>3. LET x == FromLLC(ty, REQ, d, l, i, NoData) IN x \in RoutedTo(x.dst) /\ x.dst = d
    BY <1>1, <2>1, <2>2, LLCRouted
  <2> QED BY <2>3 DEF ty
<1>6. ASSUME NEW ty \in {"GETS_RESP", "GETM_RESP", "GETM_ACK"}, NEW n \in Nat, NEW da \in Data
      PROVE  LET x == FromLLC(ty, RESP, i, l, n, da) IN x \in RoutedTo(x.dst)
  <2>1. /\ ty \in MessageTypes /\ ty \in ForL1 /\ ty # "INVALID"
        /\ ty \notin {"INVALID", "GETS_FORWARD", "GETM_FORWARD"} /\ RESP \in {ACK, RESP, REQ}
    BY <1>2, <1>3
  <2>2. LET x == FromLLC(ty, RESP, i, l, n, da) IN x \in RoutedTo(x.dst) /\ x.dst = i
    BY <1>1, <2>1, LLCRouted
  <2> QED BY <2>2
<1>7. LET x == FromLLC("PUT_ACK", ACK, i, l, 0, NoData) IN x \in RoutedTo(x.dst)
  <2> DEFINE ty == "PUT_ACK"
  <2>1. /\ ty \in MessageTypes /\ ty \in ForL1 /\ ty # "INVALID" /\ ty \notin {"GETS_RESP", "GETM_RESP"}
        /\ ty \notin {"INVALID", "GETS_FORWARD", "GETM_FORWARD"} /\ ACK \in {ACK, RESP, REQ} /\ 0 \in Nat
    BY <1>2, <1>3
  <2> HIDE DEF ty
  <2>2. LET x == FromLLC(ty, ACK, i, l, 0, NoData) IN x \in RoutedTo(x.dst) /\ x.dst = i
    BY <1>1, <2>1, LLCRouted
  <2> QED BY <2>2 DEF ty
<1>8. LET x == FromLLC("PUTM", REQ, MEM, l, LLC, data) IN x \in RoutedTo(x.dst)
  <2> DEFINE ty == "PUTM"
  <2>1. /\ ty \in MessageTypes /\ ty # "INVALID" /\ ty \notin {"GETS_RESP", "GETM_RESP"}
        /\ ty \notin {"INVALID", "GETS_FORWARD", "GETM_FORWARD"} /\ REQ \in {ACK, RESP, REQ}
    BY <1>2, <1>3
  <2> HIDE DEF ty
  <2>2. LET x == FromLLC(ty, REQ, MEM, l, LLC, data) IN x \in RoutedTo(x.dst) /\ x.dst = MEM
    BY <1>1, <2>1, LLCRouted
  <2> QED BY <2>2 DEF ty
<1> QED BY <1>1, <1>4, <1>5, <1>6, <1>7, <1>8

\* INVALID to each of the holders, and with it what a GETM sends.
LEMMA InvalidsOut ==
  ASSUME NEW S, \A x \in S : x \in L1s, NEW l \in Lines, NEW i \in L1s \cup {LLC}
  PROVE  Invalids(S, l, i) \in Outs
<1> DEFINE x(d) == FromLLC("INVALID", RESP, d, l, i, NoData)
           o == Invalids(S, l, i)
<1>1. ASSUME NEW d \in L1s PROVE x(d) \in RoutedTo(d)
  <2> DEFINE ty == "INVALID"
  <2>1. /\ ty \in MessageTypes /\ ty \in ForL1 /\ ty \notin {"GETS_RESP", "GETM_RESP"}
        /\ ty \notin {"GETS_FORWARD", "GETM_FORWARD"} /\ RESP \in {ACK, RESP, REQ}
    BY DEF MessageTypes, ForL1
  <2>2. i \in Nat /\ NoData \in Data /\ d \in Nodes /\ d # LLC
    BY NodeFacts, DataFacts, NumL1Assumption DEF LLC
  <2> HIDE DEF ty
  <2>3. LET y == FromLLC(ty, RESP, d, l, i, NoData) IN y \in RoutedTo(y.dst) /\ y.dst = d
    BY <2>1, <2>2, LLCRouted
  <2> QED BY <2>3 DEF ty
<1>2. ASSUME NEW d \in Nodes PROVE o[d] \in Seq(RoutedTo(d)) /\ o[d] \in Seq(Message)
  <2>1. CASE d \in S
    <3>1. x(d) \in RoutedTo(d) /\ x(d) \in Message
      BY <1>1, <2>1 DEF RoutedTo
    <3>2. o[d] = <<x(d)>>
      BY <2>1 DEF Invalids
    <3> HIDE DEF x
    <3> QED BY <3>1, <3>2
  <2>2. CASE d \notin S
    BY <2>2 DEF Invalids
  <2> QED BY <2>1, <2>2
<1>3. o = [d \in Nodes |-> o[d]]
  BY DEF Invalids
<1> HIDE DEF o
<1> QED BY <1>2, <1>3 DEF Outs, o

\* What a GETM sends.
LEMMA ForGetMOut ==
  ASSUME NEW e \in Entries2, NEW l \in Lines, NEW i \in L1s
  PROVE  ForGetM(e, l, i) \in Outs
<1> DEFINE S == Invalidated(e, i)
           a == Invalids(S, l, i)
           x == FromLLC("GETM_FORWARD", REQ, e.owner, l, i, NoData)
           y == FromLLC("GETM_ACK", RESP, i, l, Cardinality(S), NoData)
           b == IF i \in e.exists THEN a ELSE Also(a, x)
<1>1. S \in SUBSET L1s /\ e.owner \in L1s
  BY DEF Invalidated, Entries2
<1>2. Cardinality(S) \in Nat
  BY <1>1, L1sFinite
<1>3. a \in Outs
  BY <1>1, InvalidsOut
<1>4. x \in RoutedTo(x.dst) /\ y \in RoutedTo(y.dst)
  <2>1. NoData \in Data /\ e.owner \in L1s \cup {MEM}
    BY <1>1, DataFacts
  <2> QED BY <1>2, <2>1, LLCAnswersRouted
<1>5. ForGetM(e, l, i) = Also(b, y)
  BY DEF ForGetM
<1> HIDE DEF a, x, y
<1>6. b \in Outs
  BY <1>3, <1>4, AlsoOut
<1> HIDE DEF b
<1> QED BY <1>4, <1>5, <1>6, AlsoOut

-----------------------------------------------------------------------------
(* The steps of the LLC and of the memory.                                 *)

\* A request at the LLC.
LEMMA RequestParts ==
  ASSUME NEW m \in Requests2
  PROVE  m \in RoutedTo(LLC) /\ m.line \in Lines /\ m.arg \in L1s /\ m.data \in Data
  BY DEF Requests2, RoutedTo, Routed, Message

\* The first of those dispatched.
LEMMA FirstRequest ==
  ASSUME LLCTyped, queue_index # <<>>
  PROVE  Head(queue_index) \in Requests2 /\ Tail(queue_index) \in Seq(Requests2)
<1>1. queue_index \in Seq(Requests2)
  BY DEF LLCTyped
<1> QED BY <1>1, TailSet

\* The request becomes a package.
LEMMA IndexedTyped ==
  ASSUME LLCTyped, queue_index # <<>>, NEW e \in Entries2, NEW d \in BOOLEAN, NEW s \in Outs,
         Indexed(e, d, s), dir' \in [Lines -> Entries2], blk' \in [Lines -> Data \cup {NotHere}]
  PROVE  LLCTyped' /\ net' = net
<1> DEFINE p == [line |-> Head(queue_index).line, entry |-> e, delay |-> d, sends |-> s]
<1>1. Head(queue_index).line \in Lines /\ Tail(queue_index) \in Seq(Requests2)
  BY FirstRequest, RequestParts
<1>2. p \in Package2
  BY <1>1 DEF Package2
<1>3. queue_index' = Tail(queue_index) /\ process_buf' = Append(process_buf, p)
  BY DEF Indexed
<1>4. process_buf \in Seq(Package2)
  BY DEF LLCTyped
<1> HIDE DEF p
<1>5. process_buf' \in Seq(Package2)
  BY <1>2, <1>3, <1>4, AppendProperties
<1> QED BY <1>1, <1>3, <1>5 DEF LLCTyped, Indexed

\* GETS, GETM, PUTS and PUTE are indexed.
LEMMA IndexReadsTyped ==
  ASSUME LLCTyped, IndexGetS \/ IndexGetM \/ IndexPutClean
  PROVE  LLCTyped' /\ net' = net
<1> DEFINE m == Head(queue_index)
           l == m.line
           i == m.arg
<1>1. queue_index # <<>> /\ dir' = dir
  BY DEF IndexGetS, IndexGetM, IndexPutClean, CanIndex
<1>2. l \in Lines /\ i \in L1s /\ m.data \in Data
  BY <1>1, FirstRequest, RequestParts
<1>3. /\ dir \in [Lines -> Entries2] /\ blk \in [Lines -> Data \cup {NotHere}]
      /\ dir[l] \in Entries2 /\ dir[l].owner \in L1s \cup {MEM} /\ (BlkHit(l) => blk[l] \in Data)
      /\ dir' \in [Lines -> Entries2]
  BY <1>1, <1>2 DEF LLCTyped, Entries2, BlkHit
<1>4. blk' \in [Lines -> Data \cup {NotHere}]
  BY <1>2, <1>3 DEF IndexGetS, IndexGetM, IndexPutClean, Touch, Drop
<1>5. Only(i) \in Entries2 /\ With(dir[l], i) \in Entries2
  BY <1>2, <1>3, EntryKept DEF Entries2
<1>6. NoData \in Data /\ MEM \in L1s \cup {MEM} /\ TRUE \in BOOLEAN /\ FALSE \in BOOLEAN
  BY DataFacts
<1> DEFINE t == TRUE
           f == FALSE
<1>7. t \in BOOLEAN /\ f \in BOOLEAN
  OBVIOUS
<1> HIDE DEF t, f
<1>8. CASE IndexGetS
  <2>1. CASE DirHit(l)
    <3> DEFINE s == Just(FromLLC("GETS_FORWARD", REQ, dir[l].owner, l, i, NoData))
    <3>1. s \in Outs
      BY <1>2, <1>3, <1>6, LLCAnswersRouted, JustOut
    <3>2. Indexed(With(dir[l], i), t, s)
      BY <1>8, <2>1 DEF IndexGetS, t
    <3> HIDE DEF s, m
    <3> QED BY <1>1, <1>3, <1>4, <1>5, <1>7, <3>1, <3>2, IndexedTyped
  <2>2. CASE ~DirHit(l) /\ BlkHit(l)
    <3> DEFINE s == Just(FromLLC("GETS_RESP", RESP, i, l, 0, blk[l]))
    <3>1. s \in Outs
      BY <1>2, <1>3, <1>6, <2>2, LLCAnswersRouted, JustOut
    <3>2. Indexed(Only(i), f, s)
      BY <1>8, <2>2 DEF IndexGetS, f
    <3> HIDE DEF s, m
    <3> QED BY <1>1, <1>3, <1>4, <1>5, <1>7, <3>1, <3>2, IndexedTyped
  <2>3. CASE ~DirHit(l) /\ ~BlkHit(l)
    <3> DEFINE s == Just(FromLLC("GETS_FORWARD", REQ, MEM, l, i, NoData))
    <3>1. s \in Outs
      BY <1>2, <1>6, LLCAnswersRouted, JustOut
    <3>2. Indexed(Only(i), t, s)
      BY <1>8, <2>3 DEF IndexGetS, t
    <3> HIDE DEF s, m
    <3> QED BY <1>1, <1>3, <1>4, <1>5, <1>7, <3>1, <3>2, IndexedTyped
  <2> QED BY <2>1, <2>2, <2>3
<1>9. CASE IndexGetM
  <2>1. CASE DirHit(l)
    <3> DEFINE s == ForGetM(dir[l], l, i)
    <3>1. s \in Outs
      BY <1>2, <1>3, ForGetMOut
    <3>2. Indexed(Only(i), t, s)
      BY <1>9, <2>1 DEF IndexGetM, t
    <3> HIDE DEF s, m
    <3> QED BY <1>1, <1>3, <1>4, <1>5, <1>7, <3>1, <3>2, IndexedTyped
  <2>2. CASE ~DirHit(l) /\ BlkHit(l)
    <3> DEFINE s == Just(FromLLC("GETM_RESP", RESP, i, l, 1, blk[l]))
    <3>1. s \in Outs
      BY <1>2, <1>3, <1>6, <2>2, LLCAnswersRouted, JustOut
    <3>2. Indexed(Only(i), f, s)
      BY <1>9, <2>2 DEF IndexGetM, f
    <3> HIDE DEF s, m
    <3> QED BY <1>1, <1>3, <1>4, <1>5, <1>7, <3>1, <3>2, IndexedTyped
  <2>3. CASE ~DirHit(l) /\ ~BlkHit(l)
    <3> DEFINE s == Just(FromLLC("GETM_FORWARD", REQ, MEM, l, i, NoData))
    <3>1. s \in Outs
      BY <1>2, <1>6, LLCAnswersRouted, JustOut
    <3>2. Indexed(Only(i), t, s)
      BY <1>9, <2>3 DEF IndexGetM, t
    <3> HIDE DEF s, m
    <3> QED BY <1>1, <1>3, <1>4, <1>5, <1>7, <3>1, <3>2, IndexedTyped
  <2> QED BY <2>1, <2>2, <2>3
<1>10. CASE IndexPutClean
  <2> DEFINE s == Just(PutAck(m))
             e == CleanPutEntry(m)
  <2>1. s \in Outs
    <3>1. PutAck(m) = FromLLC("PUT_ACK", ACK, i, l, 0, NoData)
      BY DEF PutAck
    <3> QED BY <1>2, <1>6, <3>1, LLCAnswersRouted, JustOut
  <2>2. e \in Entries2
    BY <1>3, HandedOverFacts DEF CleanPutEntry, Entries2
  <2>3. Indexed(e, f, s)
    BY <1>10 DEF IndexPutClean, f
  <2> HIDE DEF s, e, m
  <2> QED BY <1>1, <1>3, <1>4, <1>7, <2>1, <2>2, <2>3, IndexedTyped
<1> QED BY <1>8, <1>9, <1>10

\* A dirty line comes back, and takes another's place or not.
LEMMA IndexPutTyped ==
  ASSUME LLCTyped, IndexPutDirty \/ IndexPutReplacing
  PROVE  LLCTyped' /\ net' = net
<1> DEFINE m == Head(queue_index)
           l == m.line
           i == m.arg
           e == PutEntry(m)
           f == FALSE
<1>1. queue_index # <<>>
  BY DEF IndexPutDirty, IndexPutReplacing, CanIndex
<1>2. l \in Lines /\ i \in L1s /\ m.data \in Data
  BY <1>1, FirstRequest, RequestParts
<1>3. /\ dir \in [Lines -> Entries2] /\ blk \in [Lines -> Data \cup {NotHere}] /\ dir[l] \in Entries2
  BY <1>1, <1>2 DEF LLCTyped
<1>4. e \in Entries2
  <2> DEFINE d == [dir[l] EXCEPT !.dirty = dir[l].owner # m.arg]
  <2>1. d \in Entries2
    BY <1>3 DEF Entries2
  <2>2. e = HandedOver(Without(d, m.arg))
    BY DEF PutEntry
  <2> HIDE DEF d, e
  <2> QED BY <2>1, <2>2, HandedOverFacts DEF Entries2
<1>5. PutAck(m) \in RoutedTo(PutAck(m).dst)
  <2>1. PutAck(m) = FromLLC("PUT_ACK", ACK, i, l, 0, NoData)
    BY DEF PutAck
  <2>2. NoData \in Data /\ MEM \in L1s \cup {MEM} /\ 0 \in Nat
    BY DataFacts
  <2> QED BY <1>2, <2>1, <2>2, LLCAnswersRouted
<1>6. f \in BOOLEAN
  OBVIOUS
<1>7. CASE IndexPutDirty
  <2> DEFINE s == Just(PutAck(m))
  <2>1. s \in Outs
    BY <1>5, JustOut
  <2>2. Indexed(e, f, s) /\ dir' = dir /\ blk' \in [Lines -> Data \cup {NotHere}]
    BY <1>2, <1>3, <1>7 DEF IndexPutDirty
  <2> HIDE DEF s, e, m, f
  <2> QED BY <1>1, <1>3, <1>4, <1>6, <2>1, <2>2, IndexedTyped
<1>8. CASE IndexPutReplacing
  <2>1. PICK v \in {x \in InBlk : lru[x] > 0} :
          LET clean == DirHit(v) /\ ~dir[v].dirty
              sharers == IF clean THEN dir[v].exists ELSE {}
          IN
          /\ blk' = [blk EXCEPT ![l] = m.data, ![v] = NotHere]
          /\ dir' = IF clean THEN [dir EXCEPT ![v] = NoEntry] ELSE dir
          /\ Indexed(e, f, Also(Also(Invalids(sharers, v, LLC), WriteBackVictim(v)), PutAck(m)))
    BY <1>8 DEF IndexPutReplacing
  <2> DEFINE clean == DirHit(v) /\ ~dir[v].dirty
             sharers == IF clean THEN dir[v].exists ELSE {}
             a == Invalids(sharers, v, LLC)
             b == Also(a, WriteBackVictim(v))
             s == Also(b, PutAck(m))
  <2>2. v \in Lines /\ blk[v] \in Data
    BY <1>3 DEF InBlk, BlkHit
  <2>3. dir[v] \in Entries2 /\ NoEntry \in Entries2
    BY <1>3, <2>2, NumL1Assumption DEF NoEntry, Entries2, L1s
  <2>4. \A x \in sharers : x \in L1s
    BY <2>3 DEF Entries2
  <2>5. a \in Outs
    <3> HIDE DEF sharers
    <3> QED BY <2>2, <2>4, InvalidsOut
  <2>6. WriteBackVictim(v) \in RoutedTo(WriteBackVictim(v).dst)
    <3>1. WriteBackVictim(v) = FromLLC("PUTM", REQ, MEM, v, LLC, blk[v])
      BY DEF WriteBackVictim
    <3>2. MEM \in L1s \cup {MEM} /\ 0 \in Nat
      OBVIOUS
    <3> QED BY <1>2, <2>2, <3>1, <3>2, LLCAnswersRouted
  <2>7. s \in Outs
    <3> HIDE DEF a
    <3>1. b \in Outs
      BY <2>5, <2>6, AlsoOut
    <3> HIDE DEF b
    <3> QED BY <1>5, <3>1, AlsoOut
  <2>8. Indexed(e, f, s) /\ dir' \in [Lines -> Entries2] /\ blk' \in [Lines -> Data \cup {NotHere}]
    BY <1>2, <1>3, <2>1, <2>2, <2>3
  <2> HIDE DEF s, e, m, f
  <2> QED BY <1>1, <1>4, <1>6, <2>7, <2>8, IndexedTyped
<1> QED BY <1>7, <1>8

\* A package is committed, or its messages go out.
LEMMA WritebackTyped ==
  ASSUME LLCTyped, P2Writeback
  PROVE  LLCTyped' /\ net' = net
<1>1. queue_writeback \in Seq(Package2) /\ queue_writeback # <<>> /\ dir \in [Lines -> Entries2]
  BY DEF LLCTyped, P2Writeback
<1>2. Head(queue_writeback) \in Package2 /\ Tail(queue_writeback) \in Seq(Package2)
  BY <1>1, TailSet
<1> DEFINE p == Head(queue_writeback)
<1>3. Written(p) \in Entries2
  BY <1>2, NumL1Assumption DEF Written, NoEntry, Entries2, Package2, L1s
<1>4. dir' = [dir EXCEPT ![p.line] = Written(p)]
  BY DEF P2Writeback
<1> HIDE DEF p
<1>5. dir' \in [Lines -> Entries2]
  BY <1>1, <1>3, <1>4
<1> QED BY <1>2, <1>5 DEF LLCTyped, P2Writeback

\* The messages of a package go out.
LEMMA ProcessTyped ==
  ASSUME LLCTyped, net \in [Nodes -> Outs], NEW k \in 1 .. Len(process_buf), P3Process(k)
  PROVE  LLCTyped' /\ net' \in [Nodes -> Outs]
<1> DEFINE p == process_buf[k]
           q == [p EXCEPT !.sends = Nothing]
<1>1. process_buf \in Seq(Package2) /\ queue_writeback \in Seq(Package2)
  BY DEF LLCTyped
<1>2. p \in Package2 /\ RemoveAt(process_buf, k) \in Seq(Package2)
  <2>1. p \in Package2
    BY <1>1, ElementOfSeq
  <2>2. RemoveAt(process_buf, k) \in Seq(Package2)
    BY <1>1, RemoveAtFacts
  <2> QED BY <2>1, <2>2
<1>3. q \in Package2 /\ p.sends \in Outs
  BY <1>2, NothingOut DEF Package2
<1>4. net' = Sent(net, LLC, p.sends) /\ queue_writeback' = Append(queue_writeback, q)
  BY DEF P3Process
<1> HIDE DEF p, q
<1>5. queue_writeback' \in Seq(Package2)
  BY <1>1, <1>3, <1>4, AppendProperties
<1>6. net' \in [Nodes -> Outs]
  <2>1. LLC \in Nodes
    BY NodeFacts
  <2> QED BY <1>3, <1>4, <2>1, SentRouted
<1> QED BY <1>2, <1>5, <1>6 DEF LLCTyped, P3Process

\* A message arrives at the LLC.
LEMMA ReceiveTyped ==
  ASSUME LLCTyped, net \in [Nodes -> Outs], NEW r \in Arriving(LLC), P1Receive(r)
  PROVE  LLCTyped' /\ net' \in [Nodes -> Outs]
<1>1. LLC \in Nodes
  BY NodeFacts
<1>2. MsgAt(LLC, r) \in RoutedTo(LLC) /\ Taken(LLC, r) \in [Nodes -> Outs]
  BY <1>1, ArrivingRouted
<1> DEFINE m == MsgAt(LLC, r)
<1>3. net' = Taken(LLC, r)
  BY DEF P1Receive
<1>4. recv_buf' = recv_buf \/ (Request(m) /\ recv_buf' = Append(recv_buf, m))
  BY DEF P1Receive
<1>5. recv_buf \in Seq(Requests2)
  BY DEF LLCTyped
<1>6. recv_buf' \in Seq(Requests2)
  <2>1. CASE recv_buf' = recv_buf
    BY <1>5, <2>1
  <2>2. CASE Request(m) /\ recv_buf' = Append(recv_buf, m)
    <3>1. m \in Requests2
      BY <1>2, <2>2 DEF Requests2
    <3> HIDE DEF m
    <3> QED BY <1>5, <2>2, <3>1, AppendProperties
  <2> QED BY <1>4, <2>1, <2>2
<1> QED BY <1>2, <1>3, <1>6 DEF LLCTyped, P1Receive

\* A request is dispatched.
LEMMA DispatchTyped ==
  ASSUME LLCTyped, P1Dispatch
  PROVE  LLCTyped' /\ net' = net
<1>1. PICK k \in 1 .. Len(recv_buf) : /\ queue_index' = Append(queue_index, recv_buf[k])
                                      /\ recv_buf' = RemoveAt(recv_buf, k)
  BY DEF P1Dispatch
<1>2. recv_buf \in Seq(Requests2) /\ queue_index \in Seq(Requests2)
  BY DEF LLCTyped
<1>3. recv_buf[k] \in Requests2
  BY <1>2, ElementOfSeq
<1>4. recv_buf' \in Seq(Requests2)
  BY <1>1, <1>2, RemoveAtFacts
<1>5. queue_index' \in Seq(Requests2)
  BY <1>1, <1>2, <1>3, AppendProperties
<1> QED BY <1>4, <1>5 DEF LLCTyped, P1Dispatch

\* A message arrives at the memory.
LEMMA MemTyped ==
  ASSUME LLCTyped, net \in [Nodes -> Outs], NEW r \in Arriving(MEM), MemHandle(r)
  PROVE  LLCTyped' /\ net' \in [Nodes -> Outs]
<1>1. MEM \in Nodes
  BY NodeFacts
<1>2. MsgAt(MEM, r) \in RoutedTo(MEM) /\ Taken(MEM, r) \in [Nodes -> Outs]
  BY <1>1, ArrivingRouted
<1> DEFINE m == MsgAt(MEM, r)
<1>3. m.line \in Lines /\ m.data \in Data /\ (m.type \in {"GETS_FORWARD", "GETM_FORWARD"} => m.arg \in L1s)
  BY <1>2 DEF RoutedTo, Routed, Message
<1>4. mem \in [Lines -> Data]
  BY DEF LLCTyped
<1>5. CASE mem' = [mem EXCEPT ![m.line] = m.data] /\ net' = Taken(MEM, r)
  <2>1. mem' \in [Lines -> Data]
    BY <1>3, <1>4, <1>5
  <2> QED BY <1>2, <1>5, <2>1 DEF LLCTyped, MemHandle
<1>6. CASE /\ m.type \in {"GETS_FORWARD", "GETM_FORWARD"}
           /\ net' = Sent(Taken(MEM, r), MEM,
                          Just(Msg("GET_RESP_MEM", RESP, MEM, m.arg, m.line, 0, mem[m.line])))
           /\ mem' = mem
  <2> DEFINE x == Msg("GET_RESP_MEM", RESP, MEM, m.arg, m.line, 0, mem[m.line])
  <2>1. m.arg \in L1s /\ m.arg \in Nodes /\ mem[m.line] \in Data
    BY <1>3, <1>4, <1>6, NodeFacts
  <2>2. x \in Message
    BY <1>1, <1>3, <2>1, MessageFacts DEF MessageTypes
  <2>3. x.type = "GET_RESP_MEM" /\ x.dst = m.arg
    BY MsgFacts
  <2> HIDE DEF x
  <2>4. x \in RoutedTo(x.dst)
    BY <2>2, <2>3 DEF RoutedTo, Routed, ForL1, Request
  <2>5. Just(x) \in Outs
    BY <2>4, JustOut
  <2>6. net' \in [Nodes -> Outs]
    BY <1>1, <1>2, <1>6, <2>5, SentRouted DEF x
  <2> QED BY <1>6, <2>6 DEF LLCTyped, MemHandle
<1> QED BY <1>5, <1>6 DEF MemHandle

-----------------------------------------------------------------------------
(* The invariant of the whole.                                             *)

\* At first the caches are empty.
LEMMA PrivStarts == NetInit /\ LLCInit /\ privInit => PrivInv
<1> SUFFICES ASSUME NetInit, LLCInit, privInit PROVE PrivInv
  OBVIOUS
<1>1. net \in [Nodes -> Outs]
  <2>1. net = [n \in Nodes |-> Nothing]
    BY DEF NetInit, Nothing
  <2> QED BY <2>1, NothingOut
<1>2. LLCTyped
  <2>1. 0 \in Data /\ 0 \in L1s
    BY DataFacts, NumL1Assumption DEF L1s, NoData
  <2>2. NoEntry \in Entries2
    BY <2>1 DEF NoEntry, Entries2
  <2> QED BY <2>1, <2>2 DEF LLCInit, LLCTyped
<1>3. NodeInv(PrivNode) /\ PrivNode.out = Nothing
  <2> DEFINE n == PrivNode
  <2>1. NoData \in Data /\ Nothing \in Outs /\ {} \in SUBSET Lines /\ <<>> \in Seq(Lines)
    BY DataFacts, NothingOut
  <2>2. NoL2 \in Line2 /\ NoEntryL2 \in Entry2 /\ NoL1D \in Line1 /\ NoReq \in Request1
    BY <2>1 DEF NoL2, NoEntryL2, NoL1D, NoReq, Line2, Entry2, Line1, Request1, CacheStates, MSHRStates
  <2>3. /\ n \in Node /\ n.l2 = [l \in Lines |-> NoL2] /\ n.mshr = [l \in Lines |-> NoEntryL2]
        /\ n.l1d = [l \in Lines |-> NoL1D] /\ n.l1i = {} /\ n.dreq = NoReq /\ n.reserved = 0
        /\ n.out = Nothing
    <3> HIDE DEF NoL2, NoEntryL2, NoL1D, NoReq
    <3> QED BY <2>1, <2>2 DEF PrivNode, Node
  <2> HIDE DEF n
  <2>4. ASSUME NEW k \in Lines PROVE LineOK(n, k)
    <3>1. n.l2[k] = NoL2 /\ n.mshr[k] = NoEntryL2 /\ n.l1d[k] = NoL1D
      BY <2>3
    <3>2. n.reserved # k /\ k \notin n.l1i
      BY <2>3, PrivAssumption
    <3>3. ~NoL1D.in /\ ~NoL1D.dirty /\ ~NoL1D.write /\ NoL2.st = "I" /\ NoL2.flag = {}
      BY DEF NoL1D, NoL2
    <3>4. NoEntryL2.st = "-" /\ NoEntryL2.flag = {} /\ NoEntryL2.finish = {}
      BY DEF NoEntryL2
    <3>5. Copied(NoL2, NoEntryL2, NoL1D) /\ Lacking(NoL1D, n.dreq, k) /\ Awaited(NoEntryL2, n.dreq, k)
      BY <3>3, <3>4 DEF Copied, Lacking, Awaited
    <3> QED BY <3>1, <3>2, <3>3, <3>5 DEF LineOK
  <2>5. NodeInv(n) /\ n.out = Nothing
    BY <2>3, <2>4 DEF NodeInv
  <2> QED BY <2>5 DEF n
<1>4. NodesInv
  <2>1. PrivNode \in Node
    BY <1>3 DEF NodeInv
  <2>2. 0 \in Data
    BY DataFacts DEF NoData
  <2> HIDE DEF PrivNode
  <2> QED BY <1>3, <2>1, <2>2 DEF privInit, NodesInv
<1> QED BY <1>1, <1>2, <1>4 DEF PrivInv

\* A step of the LLC or of the memory.
LEMMA LLCStepTyped ==
  ASSUME LLCTyped, net \in [Nodes -> Outs],
         \/ (\E r \in Arriving(LLC) : P1Receive(r)) \/ P1Dispatch \/ P2Index
         \/ (\E k \in 1 .. Len(process_buf) : P3Process(k)) \/ (\E r \in Arriving(MEM) : MemHandle(r))
  PROVE  LLCTyped' /\ net' \in [Nodes -> Outs]
  BY ReceiveTyped, DispatchTyped, IndexReadsTyped, IndexPutTyped, WritebackTyped, ProcessTyped, MemTyped
     DEF P2Index

\* Every step keeps the invariant.
LEMMA PrivNextKeeps == PrivInv /\ [privNext]_<<net, privVars, llcVars>> => PrivInv'
<1> SUFFICES ASSUME PrivInv, [privNext]_<<net, privVars, llcVars>> PROVE PrivInv'
  OBVIOUS
<1>1. net \in [Nodes -> Outs] /\ LLCTyped /\ NodesInv
  BY DEF PrivInv
<1>2. ASSUME UNCHANGED privVars PROVE NodesInv'
  BY <1>1, <1>2 DEF NodesInv, privVars
<1>3. ASSUME UNCHANGED llcVars PROVE LLCTyped'
  BY <1>1, <1>3 DEF LLCTyped, llcVars
<1>4. CASE /\ \E i \in L1s : PrivCPU(i) \/ PrivFetch(i) \/ PrivIndex(i) \/ PrivReceive(i)
           /\ UNCHANGED llcVars
  <2>1. NodesInv' /\ net' \in [Nodes -> Outs]
    BY <1>1, <1>4, PrivCPUKeeps, PrivFetchKeeps, PrivIndexKeeps, PrivReceiveKeeps
  <2> QED BY <1>3, <1>4, <2>1 DEF PrivInv
<1>5. CASE /\ \/ (\E r \in Arriving(LLC) : P1Receive(r)) \/ P1Dispatch \/ P2Index
              \/ (\E k \in 1 .. Len(process_buf) : P3Process(k))
              \/ (\E r \in Arriving(MEM) : MemHandle(r))
           /\ UNCHANGED privVars
  <2>1. LLCTyped' /\ net' \in [Nodes -> Outs]
    BY <1>1, <1>5, LLCStepTyped
  <2> QED BY <1>2, <1>5, <2>1 DEF PrivInv
<1>6. CASE UNCHANGED <<net, privVars, llcVars>>
  <2>1. net' = net /\ UNCHANGED privVars /\ UNCHANGED llcVars
    BY <1>6
  <2> QED BY <1>1, <1>2, <1>3, <2>1 DEF PrivInv
<1> QED BY <1>4, <1>5, <1>6 DEF privNext

\* The invariant: each node keeps what it should of itself, and all messages find a handler
\* where they go, whatever is replaced and however much the buffers hold.
THEOREM PrivInvariant == privSpec => []PrivInv
<1>1. NetInit /\ LLCInit /\ privInit => PrivInv
  BY PrivStarts
<1>2. PrivInv /\ [privNext]_<<net, privVars, llcVars>> => PrivInv'
  BY PrivNextKeeps
<1> QED BY <1>1, <1>2, PTL DEF privSpec

\* Whatever the caches, MSHR arrays and buffers hold, and whatever the LLC replaces: every
\* line of an L1 is known to its L2, or to the MSHR that has the L2's data meanwhile.
THEOREM L1sIncluded == privSpec => []PrivInclusive
<1>1. PrivInv => PrivInclusive
  <2> SUFFICES ASSUME PrivInv, NEW i \in L1s
               PROVE  /\ \A l \in InL1D(priv[i]) : Included(priv[i], l, "D")
                      /\ \A l \in priv[i].l1i : Included(priv[i], l, "I")
    BY DEF PrivInclusive
  <2>1. NodeInv(priv[i])
    BY DEF PrivInv, NodesInv
  <2>2. priv[i].l1i \subseteq Lines /\ \A l \in Lines : LineOK(priv[i], l)
    BY <2>1, NodeFields DEF NodeInv
  <2> QED BY <2>2 DEF InL1D, LineOK
<1> QED BY <1>1, PrivInvariant, PTL
-----------------------------------------------------------------------------
(* What a step does to the L1s.                                            *)

\* One node may come to hold other lines, and nothing is stored; or one stores into a line
\* its data cache may write, and all hold what they held.
HoldsAnew(i) == (\A j \in L1s \ {i} : priv'[j] = priv[j]) /\ privGolden' = privGolden
StoresAnew(i, l) ==
  /\ priv[i].l1d[l].write /\ \E d \in Data : privGolden' = [privGolden EXCEPT ![l] = d]
  /\ \A j \in L1s :
       /\ priv'[j].l1i = priv[j].l1i
       /\ \A k \in Lines : /\ priv'[j].l1d[k].in <=> priv[j].l1d[k].in
                           /\ priv'[j].l1d[k].write <=> priv[j].l1d[k].write
OneMoves ==
  \/ \E i \in L1s : HoldsAnew(i) \/ \E l \in Lines : StoresAnew(i, l)
  \/ UNCHANGED <<priv, privGolden>>

\* Every step is such a step.
LEMMA OneNodeMoves == PrivInv /\ [privNext]_<<net, privVars, llcVars>> => OneMoves
<1> SUFFICES ASSUME PrivInv, [privNext]_<<net, privVars, llcVars>> PROVE OneMoves
  OBVIOUS
<1>1. NodesInv /\ priv \in [L1s -> Node] /\ privGolden \in [Lines -> Data]
  BY DEF PrivInv, NodesInv
<1>2. ASSUME NEW i \in L1s, NEW b, NodeBecomes(i, b), privGolden' = privGolden PROVE OneMoves
  BY <1>1, <1>2 DEF NodeBecomes, HoldsAnew, OneMoves
<1>3. ASSUME NEW i \in L1s, Idles(i) PROVE OneMoves
  <2>1. PICK b : Unseen(i, b)
    BY <1>3 DEF Idles
  <2> QED BY <1>2, <1>3, <2>1 DEF Unseen, Idles
<1>4. ASSUME NEW i \in L1s, NEW l \in Lines, StoresIn(i, l) PROVE OneMoves
  <2> DEFINE n == priv[i]
             d == (privGolden[l] + 1) % (MaxData + 1)
             b == StoredIn(n, l, d)
  <2>1. /\ n.l1d[l].write /\ StoresAt(i, l, d) /\ privGolden' = [privGolden EXCEPT ![l] = d]
    BY <1>4 DEF StoresIn
  <2>2. d \in Data
    BY <1>1, DataAssumption DEF Data
  <2>3. n \in Node /\ n.l1d \in [Lines -> Line1]
    BY <1>1, NodeFields
  <2> HIDE DEF d
  <2>4. NodeBecomes(i, b)
    BY <1>1, <2>1, StoreAt
  <2>5. b.l1i = n.l1i /\ \A k \in Lines : b.l1d[k].in = n.l1d[k].in /\ b.l1d[k].write = n.l1d[k].write
    <3> HIDE DEF n
    <3> QED BY <2>3 DEF StoredIn, Node, Line1
  <2>6. priv'[i] = b /\ \A j \in L1s \ {i} : priv'[j] = priv[j]
    <3> HIDE DEF b
    <3> QED BY <1>1, <2>4 DEF NodeBecomes
  <2> HIDE DEF b
  <2>7. StoresAnew(i, l)
    BY ZenonT(60), <2>1, <2>2, <2>5, <2>6 DEF StoresAnew
  <2> QED BY <2>7 DEF OneMoves
<1>5. ASSUME NEW i \in L1s, PrivCPU(i) \/ PrivFetch(i) PROVE OneMoves
  BY <1>1, <1>3, <1>4, <1>5, CPUMoves, FetchMoves
<1>6. ASSUME NEW i \in L1s, PrivIndex(i) PROVE OneMoves
  <2>1. PICK l \in Lines : \E a : WorksOn(i, l, a) /\ Goes(i, net, a)
    BY <1>1, <1>6, IndexMoves
  <2> QED BY <1>2, <2>1 DEF Goes
<1>7. ASSUME NEW i \in L1s, PrivReceive(i) PROVE OneMoves
  <2>1. PICK n : priv' = [priv EXCEPT ![i] = [n EXCEPT !.out = Nothing]]
    BY <1>7 DEF PrivReceive
  <2>2. NodeBecomes(i, [n EXCEPT !.out = Nothing]) /\ privGolden' = privGolden
    BY <1>7, <2>1 DEF NodeBecomes, PrivReceive
  <2> QED BY <1>2, <2>2
<1>8. ASSUME UNCHANGED privVars PROVE OneMoves
  BY <1>8 DEF OneMoves, privVars
<1> QED BY <1>5, <1>6, <1>7, <1>8 DEF privNext

-----------------------------------------------------------------------------
(* The nodes are L1s to the directory.                                     *)

\* What it sees of them.
Mapped ==
  /\ block = [i \in L1s |-> [l \in Lines |-> BlockOf(priv[i], l)]]
  /\ mshr = [i \in L1s |-> [l \in Lines |-> MshrOf(priv[i], l)]]
  /\ golden = privGolden /\ reserved = [i \in L1s |-> NoLine] /\ overwritten = {}

\* What the node becomes, the directory sees of it.
SeenOf(b) == [l \in Lines |-> BlockOf(b, l)]
EntriesOf(b) == [l \in Lines |-> MshrOf(b, l)]

\* The L1s of MoesiL1 stand for the nodes.
LEMMA MappedAt ==
  ASSUME Mapped, NEW i \in L1s, NEW l \in Lines
  PROVE  block[i][l] = BlockOf(priv[i], l) /\ mshr[i][l] = MshrOf(priv[i], l)
  BY DEF Mapped

\* They do after the step.
LEMMA MappedNext ==
  ASSUME Mapped'
  PROVE  /\ block' = [k \in L1s |-> SeenOf(priv'[k])] /\ mshr' = [k \in L1s |-> EntriesOf(priv'[k])]
         /\ golden' = privGolden' /\ reserved' = [k \in L1s |-> NoLine] /\ overwritten' = {}
  BY DEF Mapped, SeenOf, EntriesOf, BlockOf, MshrOf

\* When one node becomes another, the L1 that stands for it changes and no other.
LEMMA SeenBecomes ==
  ASSUME Mapped, Mapped', priv \in [L1s -> Node], NEW i \in L1s, NEW b, NodeBecomes(i, b)
  PROVE  /\ \A k \in L1s \ {i} : block'[k] = block[k] /\ mshr'[k] = mshr[k]
         /\ \A j \in Lines : block'[i][j] = BlockOf(b, j) /\ mshr'[i][j] = MshrOf(b, j)
         /\ \A j \in Lines : block[i][j] = BlockOf(priv[i], j) /\ mshr[i][j] = MshrOf(priv[i], j)
         /\ block' = [k \in L1s |-> [j \in Lines |-> block'[k][j]]]
         /\ mshr' = [k \in L1s |-> [j \in Lines |-> mshr'[k][j]]]
<1>1. priv'[i] = b /\ \A k \in L1s \ {i} : priv'[k] = priv[k]
  BY DEF NodeBecomes
<1>2. block' = [k \in L1s |-> SeenOf(priv'[k])] /\ mshr' = [k \in L1s |-> EntriesOf(priv'[k])]
  BY MappedNext
<1>3. block = [k \in L1s |-> SeenOf(priv[k])] /\ mshr = [k \in L1s |-> EntriesOf(priv[k])]
  BY DEF Mapped, SeenOf, EntriesOf
<1>4. \A k \in L1s : block'[k] = SeenOf(priv'[k]) /\ mshr'[k] = EntriesOf(priv'[k])
  BY <1>2
<1>5. \A k \in L1s : block[k] = SeenOf(priv[k]) /\ mshr[k] = EntriesOf(priv[k])
  BY <1>3
<1>6. \A n : SeenOf(n) = [j \in Lines |-> SeenOf(n)[j]] /\ EntriesOf(n) = [j \in Lines |-> EntriesOf(n)[j]]
  BY DEF SeenOf, EntriesOf
<1>7. \A n : \A j \in Lines : SeenOf(n)[j] = BlockOf(n, j) /\ EntriesOf(n)[j] = MshrOf(n, j)
  BY DEF SeenOf, EntriesOf
<1>8. \A k \in L1s \ {i} : block'[k] = block[k] /\ mshr'[k] = mshr[k]
  BY <1>1, <1>4, <1>5
<1>9. \A j \in Lines : block'[i][j] = BlockOf(b, j) /\ mshr'[i][j] = MshrOf(b, j)
  BY <1>1, <1>4, <1>7
<1>10. \A j \in Lines : block[i][j] = BlockOf(priv[i], j) /\ mshr[i][j] = MshrOf(priv[i], j)
  BY <1>5, <1>7
<1>11. block' = [k \in L1s |-> [j \in Lines |-> block'[k][j]]]
  BY <1>2, <1>4, <1>6
<1>12. mshr' = [k \in L1s |-> [j \in Lines |-> mshr'[k][j]]]
  BY <1>2, <1>4, <1>6
<1> QED BY <1>8, <1>9, <1>10, <1>11, <1>12

\* A node that acts on one line is an L1 that does.
LEMMA BecomesSeen ==
  ASSUME Mapped, Mapped', priv \in [L1s -> Node], NEW i \in L1s, NEW l \in Lines, NEW b, NodeBecomes(i, b),
         Same(priv[i], b, Lines \ {l})
  PROVE  Becomes(block, block', i, l, BlockOf(b, l)) /\ Becomes(mshr, mshr', i, l, MshrOf(b, l))
<1>1. \A j \in Lines \ {l} : BlockOf(b, j) = BlockOf(priv[i], j) /\ MshrOf(b, j) = MshrOf(priv[i], j)
  BY DEF Same
<1>2. \A j \in Lines \ {l} : block'[i][j] = block[i][j] /\ mshr'[i][j] = mshr[i][j]
  BY <1>1, SeenBecomes
<1> QED BY <1>2, SeenBecomes DEF Becomes

\* A node that changes at two lines is an L1 that does.
LEMMA BecomesTwoSeen ==
  ASSUME Mapped, Mapped', priv \in [L1s -> Node], NEW i \in L1s, NEW l \in Lines, NEW v \in Lines \ {l},
         NEW b, NodeBecomes(i, b), Same(priv[i], b, Lines \ {l, v})
  PROVE  /\ BecomesTwo(block, block', i, l, BlockOf(b, l), v, BlockOf(b, v))
         /\ BecomesTwo(mshr, mshr', i, l, MshrOf(b, l), v, MshrOf(b, v))
<1>1. \A j \in Lines \ {l, v} : BlockOf(b, j) = BlockOf(priv[i], j) /\ MshrOf(b, j) = MshrOf(priv[i], j)
  BY DEF Same
<1>2. \A j \in Lines \ {l, v} : block'[i][j] = block[i][j] /\ mshr'[i][j] = mshr[i][j]
  BY <1>1, SeenBecomes
<1> QED BY <1>2, SeenBecomes DEF BecomesTwo

\* A node whose messages have been sent.
LEMMA EmptiedNode ==
  ASSUME NEW a, NodeInv(a)
  PROVE  LET b == Emptied(a) IN
         /\ NodeInv(b) /\ b.out = Nothing /\ Same(a, b, Lines)
         /\ b.reserved = a.reserved /\ (b.aborts <=> a.aborts)
<1> DEFINE b == Emptied(a)
           p == a.queue
           o == Nothing
<1>1. a \in Node /\ p \in Seq(Lines) /\ o \in Outs
  BY NodeFields, NothingOut DEF NodeInv
<1>2. b = [a EXCEPT !.queue = p, !.out = o] /\ b.reserved = a.reserved /\ (b.aborts <=> a.aborts) /\ b.out = o
  BY <1>1 DEF Node, Emptied
<1> HIDE DEF b, p, o
<1>3. /\ NodeInv([a EXCEPT !.queue = p, !.out = o])
      /\ Same(a, [a EXCEPT !.queue = p, !.out = o], Lines)
  <2>1. p \in Seq(Lines) /\ o \in Outs
    BY <1>1
  <2> QED BY <2>1, SentOff
<1>4. NodeInv(b) /\ Same(a, b, Lines)
  BY <1>2, <1>3
<1> QED BY <1>2, <1>4 DEF b, o

\* What the directory sees of a node that acts on line l.
LEMMA ActsSeen ==
  ASSUME Mapped, Mapped', NodesInv, NEW i \in L1s, NEW l \in Lines, NEW c, NEW e, NEW out,
         NEW a, ActsOn(priv[i], l, c, e, out, a), NEW q, Goes(i, q, a)
  PROVE  /\ Becomes(block, block', i, l, c) /\ Becomes(mshr, mshr', i, l, e)
         /\ net' = Sent(q, i, out) /\ golden' = golden
<1> DEFINE b == Emptied(a)
<1>1. NodeInv(a) /\ BlockOf(a, l) = c /\ MshrOf(a, l) = e /\ a.out = out /\ Same(priv[i], a, Lines \ {l})
  BY DEF ActsOn
<1>2. Same(a, b, Lines)
  BY <1>1, EmptiedNode
<1> HIDE DEF b
<1>3. BlockOf(b, l) = c /\ MshrOf(b, l) = e /\ Same(priv[i], b, Lines \ {l})
  BY <1>1, <1>2 DEF Same
<1>4. NodeBecomes(i, b) /\ net' = Sent(q, i, out) /\ privGolden' = privGolden
  BY <1>1 DEF Goes, b
<1>5. golden' = golden
  BY <1>4 DEF Mapped
<1>6. priv \in [L1s -> Node]
  BY DEF NodesInv
<1> QED BY <1>3, <1>4, <1>5, <1>6, BecomesSeen

\* A node that takes in a message is an L1 that does.
LEMMA ActsTaken ==
  ASSUME Mapped, Mapped', NodesInv, NEW i \in L1s, NEW r \in Arriving(i), NEW l \in Lines, NEW c, NEW e,
         NEW out, NEW a, Acts2(priv[i], l, c, e, out, a), Goes(i, Taken(i, r), a)
  PROVE  TakenIn(i, r, l, c, e, out)
<1>1. ActsOn(priv[i], l, c, e, out, a)
  BY DEF Acts2, ActsOn
<1> QED BY <1>1, ActsSeen DEF TakenIn, Reply

\* The PUT and the entry of a victim are those of an L1.
LEMMA PutSeen ==
  ASSUME Mapped, NEW i \in L1s, NEW v \in Lines
  PROVE  Put(i, v) = Put2(i, v, BlockOf(priv[i], v))
<1>1. block[i][v] = BlockOf(priv[i], v)
  BY MappedAt
<1>2. PutType = PutType2
  BY DEF PutType, PutType2
<1> QED BY <1>1, <1>2 DEF Put, Put2

\* A line that has entered a node has entered the L1.
LEMMA EntersSeen ==
  ASSUME Mapped, Mapped', NodesInv, NEW i \in L1s, NEW r \in Arriving(i), NEW l \in Lines, NEW st, NEW data,
         NEW out, NEW a, Entered2(priv[i], i, l, st, data, out, a), Goes(i, Taken(i, r), a)
  PROVE  LineIn(i, r, l, st, data, out)
<1> DEFINE b == Emptied(a)
           n == priv[i]
           c == [st |-> st, data |-> data]
<1>1. /\ NodeInv(a) /\ BlockOf(a, l) = c /\ MshrOf(a, l) = NoMSHR
      /\ \/ a.out = out /\ Same(n, a, Lines \ {l})
         \/ \E v \in Lines \ {l} :
              /\ n.l2[v].st # "I" /\ BlockOf(a, v) = Absent /\ MshrOf(a, v) = Evicting(BlockOf(n, v))
              /\ a.out = Also(out, Put2(i, v, BlockOf(n, v)))
              /\ Same(n, a, Lines \ {l, v})
  BY DEF Entered2
<1>2. Same(a, b, Lines)
  BY <1>1, EmptiedNode
<1>3. NodeBecomes(i, b) /\ net' = Sent(Taken(i, r), i, a.out) /\ golden' = golden /\ priv \in [L1s -> Node]
  BY DEF Goes, Mapped, NodesInv
<1> HIDE DEF b, c
<1>4. BlockOf(b, l) = c /\ MshrOf(b, l) = NoMSHR
  BY <1>1, <1>2 DEF Same
<1>5. CASE a.out = out /\ Same(n, a, Lines \ {l})
  <2>1. Same(n, b, Lines \ {l})
    BY <1>2, <1>5 DEF Same
  <2>2. Becomes(block, block', i, l, c) /\ Becomes(mshr, mshr', i, l, NoMSHR)
    BY <1>3, <1>4, <2>1, BecomesSeen
  <2> QED BY <1>3, <1>5, <2>2 DEF LineIn, Enters, Reply, c
<1>6. ASSUME NEW v \in Lines \ {l},
             n.l2[v].st # "I", BlockOf(a, v) = Absent, MshrOf(a, v) = Evicting(BlockOf(n, v)),
             a.out = Also(out, Put2(i, v, BlockOf(n, v))), Same(n, a, Lines \ {l, v})
      PROVE  LineIn(i, r, l, st, data, out)
  <2>1. Same(n, b, Lines \ {l, v}) /\ BlockOf(b, v) = Absent /\ MshrOf(b, v) = Evicting(BlockOf(n, v))
    BY <1>2, <1>6 DEF Same
  <2>2. block[i][v] = BlockOf(n, v)
    BY MappedAt
  <2>3. block[i][v].st # "I"
    BY <1>6, <2>2 DEF BlockOf
  <2>4. Also(out, Put(i, v)) = a.out
    BY <1>6, PutSeen
  <2>5. /\ BecomesTwo(block, block', i, l, c, v, Absent)
        /\ BecomesTwo(mshr, mshr', i, l, NoMSHR, v, Evicting(block[i][v]))
    BY <1>3, <1>4, <2>1, <2>2, BecomesTwoSeen
  <2> QED BY <1>3, <2>3, <2>4, <2>5 DEF LineIn, Enters, Reply, c
<1> QED BY <1>1, <1>5, <1>6

-----------------------------------------------------------------------------
(* What a node takes in.                                                   *)

Seeing == PrivInv /\ MoesiInv /\ Mapped /\ Mapped'
Receives2(i, r, a) == a \in OnMessage(priv[i], i, MsgAt(i, r)) /\ Goes(i, Taken(i, r), a)

\* The node and the message that arrives.
LEMMA ReceiveFacts ==
  ASSUME Seeing, NEW i \in L1s, NEW r \in Arriving(i)
  PROVE  LET n == priv[i]  m == MsgAt(i, r)  l == m.line IN
         /\ NodeInv(n) /\ l \in Lines /\ m \in RoutedTo(i) /\ L1Expects(i, m)
         /\ block[i][l] = BlockOf(n, l) /\ mshr[i][l] = MshrOf(n, l) /\ MshrOf(n, l).st = n.mshr[l].st
         /\ n.out = Nothing /\ \A x : Also(n.out, x) = Just(x)
<1> DEFINE n == priv[i]
           m == MsgAt(i, r)
           l == m.line
<1>1. NodeInv(n) /\ n.out = Nothing /\ n \in Node /\ net \in [Nodes -> Outs] /\ i \in Nodes
  BY NodeFacts DEF Seeing, PrivInv, NodesInv, NodeInv
<1>2. m \in RoutedTo(i) /\ l \in Lines
  <2>1. m \in RoutedTo(i)
    BY <1>1, ArrivingRouted
  <2> QED BY <2>1 DEF RoutedTo, Message
<1>3. L1Expects(i, m)
  BY MessageExpected DEF Seeing
<1>4. block[i][l] = BlockOf(n, l) /\ mshr[i][l] = MshrOf(n, l)
  BY <1>2, MappedAt DEF Seeing
<1>5. \A x : Also(n.out, x) = Just(x)
  BY <1>1 DEF Just
<1> HIDE DEF n, l
<1>6. MshrOf(n, l).st = n.mshr[l].st
  BY <1>1, <1>2, SeenFacts
<1> QED BY <1>1, <1>2, <1>3, <1>4, <1>5, <1>6 DEF n, l

\* INVALID.
LEMMA InvalidSeen ==
  ASSUME Seeing, NEW i \in L1s, NEW r \in Arriving(i), NEW a, Receives2(i, r, a), NEW l, l = MsgAt(i, r).line,
         MsgAt(i, r).type = "INVALID"
  PROVE  InvalidTaken(i, r, l) /\ (a.aborts <=> priv[i].aborts)
<1> DEFINE n == priv[i]
           m == MsgAt(i, r)
           c == BlockOf(n, l)
           e == MshrOf(n, l)
<1>1. /\ NodeInv(n) /\ l \in Lines /\ m \in RoutedTo(i) /\ m.type = "INVALID" /\ m.line = l /\ L1Expects(i, m)
      /\ block[i][l] = c /\ mshr[i][l] = e /\ e.st = n.mshr[l].st /\ \A x : Also(n.out, x) = Just(x)
      /\ n.out = Nothing
  BY ReceiveFacts
<1>2. Goes(i, Taken(i, r), a) /\ NodesInv /\ Mapped /\ Mapped'
  BY DEF Receives2, Seeing, PrivInv
<1>3. a \in OnInvalid(n, i, m)
  BY <1>1 DEF Receives2, OnMessage
<1> HIDE DEF n, m, c, e
<1>4. e.st \notin {"ITOS", "ETOI", "ITOI"}
  BY <1>1 DEF L1Expects
<1>5. Acts2(n, l, Absent, [e EXCEPT !.st = AfterInvalid(@)],
            Also(n.out, Msg("INVALID_ACK", ACK, i, m.arg, l, 0, NoData)), a)
  BY <1>1, <1>3, <1>4, OnInvalidKeeps DEF e
<1>6. TakenIn(i, r, l, Absent, [e EXCEPT !.st = AfterInvalid(@)],
              Just(Msg("INVALID_ACK", ACK, i, m.arg, l, 0, NoData)))
  BY <1>1, <1>2, <1>5, ActsTaken DEF n
<1> QED BY <1>1, <1>5, <1>6 DEF InvalidTaken, Acts2, n, m

\* INVALID_ACK.
LEMMA InvalidAckSeen ==
  ASSUME Seeing, NEW i \in L1s, NEW r \in Arriving(i), NEW a, Receives2(i, r, a), NEW l, l = MsgAt(i, r).line,
         MsgAt(i, r).type = "INVALID_ACK"
  PROVE  InvalidAckTaken(i, r, l) /\ (a.aborts <=> priv[i].aborts)
<1> DEFINE n == priv[i]
           m == MsgAt(i, r)
           c == BlockOf(n, l)
           e == MshrOf(n, l)
<1>1. /\ NodeInv(n) /\ l \in Lines /\ m \in RoutedTo(i) /\ m.type = "INVALID_ACK" /\ m.line = l /\ L1Expects(i, m)
      /\ block[i][l] = c /\ mshr[i][l] = e /\ e.st = n.mshr[l].st /\ \A x : Also(n.out, x) = Just(x)
      /\ n.out = Nothing
  BY ReceiveFacts
<1>2. Goes(i, Taken(i, r), a) /\ NodesInv /\ Mapped /\ Mapped'
  BY DEF Receives2, Seeing, PrivInv
<1>3. a \in OnInvalidAck(n, i, l)
  BY <1>1 DEF Receives2, OnMessage
<1> HIDE DEF n, m, c, e
<1>4. e.st # "-"
  BY <1>1 DEF L1Expects
<1>5. \/ LastAck(e) /\ Entered2(n, i, l, "M", e.data, Also(n.out, GetAck(i, l)), a)
      \/ /\ ~LastAck(e)
         /\ Acts2(n, l, c, [e EXCEPT !.acks = IF Collecting(e) THEN @ + 1 ELSE @], n.out, a)
  BY <1>1, <1>3, <1>4, OnInvalidAckKeeps DEF e, c
<1>6. CASE LastAck(e)
  <2>1. Entered2(n, i, l, "M", e.data, Also(n.out, GetAck(i, l)), a)
    BY <1>5, <1>6
  <2>2. LineIn(i, r, l, "M", e.data, Just(GetAck(i, l)))
    BY <1>1, <1>2, <2>1, EntersSeen DEF n
  <2> QED BY <1>1, <1>6, <2>1, <2>2 DEF InvalidAckTaken, Entered2, n, m
<1>7. CASE ~LastAck(e)
  <2>1. Acts2(n, l, c, [e EXCEPT !.acks = IF Collecting(e) THEN @ + 1 ELSE @], n.out, a)
    BY <1>5, <1>7
  <2>2. TakenIn(i, r, l, c, [e EXCEPT !.acks = IF Collecting(e) THEN @ + 1 ELSE @], Nothing)
    BY <1>1, <1>2, <2>1, ActsTaken DEF n
  <2> QED BY <1>1, <1>7, <2>1, <2>2 DEF InvalidAckTaken, Acts2, n, m
<1> QED BY <1>6, <1>7

\* GETM_ACK.
LEMMA GetMAckSeen ==
  ASSUME Seeing, NEW i \in L1s, NEW r \in Arriving(i), NEW a, Receives2(i, r, a), NEW l, l = MsgAt(i, r).line,
         MsgAt(i, r).type = "GETM_ACK"
  PROVE  GetMAckTaken(i, r, l) /\ (a.aborts <=> priv[i].aborts)
<1> DEFINE n == priv[i]
           m == MsgAt(i, r)
           c == BlockOf(n, l)
           e == MshrOf(n, l)
<1>1. /\ NodeInv(n) /\ l \in Lines /\ m \in RoutedTo(i) /\ m.type = "GETM_ACK" /\ m.line = l /\ L1Expects(i, m)
      /\ block[i][l] = c /\ mshr[i][l] = e /\ e.st = n.mshr[l].st /\ \A x : Also(n.out, x) = Just(x)
      /\ n.out = Nothing
  BY ReceiveFacts
<1>2. Goes(i, Taken(i, r), a) /\ NodesInv /\ Mapped /\ Mapped'
  BY DEF Receives2, Seeing, PrivInv
<1>3. a \in OnGetMAck(n, i, m)
  BY <1>1 DEF Receives2, OnMessage
<1> HIDE DEF n, m, c, e
<1> DEFINE all == m.arg = e.acks /\ HasLineData(e)
           f == IF Collecting(e) THEN [e EXCEPT !.hasNeed = TRUE, !.need = m.arg] ELSE e
<1>4. e.st # "-"
  BY <1>1 DEF L1Expects
<1>5. \/ all /\ Entered2(n, i, l, "M", e.data, Also(n.out, GetAck(i, l)), a)
      \/ ~all /\ Acts2(n, l, c, f, n.out, a)
  BY <1>1, <1>3, <1>4, OnGetMAckKeeps DEF e, c
<1>6. CASE all
  <2>1. Entered2(n, i, l, "M", e.data, Also(n.out, GetAck(i, l)), a)
    BY <1>5, <1>6
  <2>2. LineIn(i, r, l, "M", e.data, Just(GetAck(i, l)))
    BY <1>1, <1>2, <2>1, EntersSeen DEF n
  <2> QED BY <1>1, <1>6, <2>1, <2>2 DEF GetMAckTaken, Entered2, n, m
<1>7. CASE ~all
  <2>1. Acts2(n, l, c, f, n.out, a)
    BY <1>5, <1>7
  <2>2. TakenIn(i, r, l, c, f, Nothing)
    BY <1>1, <1>2, <2>1, ActsTaken DEF n
  <2> QED BY <1>1, <1>7, <2>1, <2>2 DEF GetMAckTaken, Acts2, n, m
<1> QED BY <1>6, <1>7

\* The L1 has the line, or its MSHR has: not both.
LEMMA ForwardableSeen ==
  ASSUME NEW n, NodeInv(n), NEW l \in Lines, MshrOf(n, l).st = n.mshr[l].st,
         (BlockOf(n, l).st # "I") # (MshrOf(n, l).st \in {"STOM", "MTOI", "STOI", "ETOI", "OTOM", "OTOI"})
  PROVE  Forwardable(n, l)
<1>1. LineOK(n, l)
  BY DEF NodeInv
<1>2. BlockOf(n, l).st # "I" <=> n.l2[l].st # "I"
  BY <1>1 DEF BlockOf, LineOK, Copied
<1> QED BY <1>2 DEF Forwardable, HasInMSHR

\* GETS_FORWARD.
LEMMA GetSForwardSeen ==
  ASSUME Seeing, NEW i \in L1s, NEW r \in Arriving(i), NEW a, Receives2(i, r, a), NEW l, l = MsgAt(i, r).line,
         MsgAt(i, r).type = "GETS_FORWARD"
  PROVE  GetSForwardTaken(i, r, l) /\ (a.aborts <=> priv[i].aborts)
<1> DEFINE n == priv[i]
           m == MsgAt(i, r)
           c == BlockOf(n, l)
           e == MshrOf(n, l)
<1>1. /\ NodeInv(n) /\ l \in Lines /\ m \in RoutedTo(i) /\ m.type = "GETS_FORWARD" /\ m.line = l /\ L1Expects(i, m)
      /\ block[i][l] = c /\ mshr[i][l] = e /\ e.st = n.mshr[l].st /\ \A x : Also(n.out, x) = Just(x)
      /\ n.out = Nothing
  BY ReceiveFacts
<1>2. Goes(i, Taken(i, r), a) /\ NodesInv /\ Mapped /\ Mapped'
  BY DEF Receives2, Seeing, PrivInv
<1>3. a \in OnGetSForward(n, i, m)
  BY <1>1 DEF Receives2, OnMessage
<1> HIDE DEF n, m, c, e
<1> DEFINE d == IF c.st # "I" THEN c.data ELSE e.data
           f == IF c.st = "I" /\ e.st \in {"MTOI", "ETOI", "STOI"} THEN [e EXCEPT !.st = "OTOI"] ELSE e
           x == Msg("GETS_RESP", RESP, i, m.arg, l, 1, d)
<1>4. Forwardable(n, l)
  <2>1. (c.st # "I") # (e.st \in {"STOM", "MTOI", "STOI", "ETOI", "OTOM", "OTOI"})
    BY <1>1 DEF L1Expects, HoldsInMSHR
  <2> QED BY <1>1, <2>1, ForwardableSeen DEF c, e
<1>5. Acts2(n, l, IF c.st # "I" THEN Owned(c) ELSE c, f, Also(n.out, x), a)
  BY <1>1, <1>3, <1>4, OnGetSForwardKeeps DEF e, c
<1>6. TakenIn(i, r, l, IF c.st # "I" THEN Owned(c) ELSE c, f, Just(x))
  <2> HIDE DEF f, x
  <2> QED BY <1>1, <1>2, <1>5, ActsTaken DEF n
<1> QED BY <1>1, <1>5, <1>6 DEF GetSForwardTaken, Acts2, n, m

\* GETM_FORWARD.
LEMMA GetMForwardSeen ==
  ASSUME Seeing, NEW i \in L1s, NEW r \in Arriving(i), NEW a, Receives2(i, r, a), NEW l, l = MsgAt(i, r).line,
         MsgAt(i, r).type = "GETM_FORWARD"
  PROVE  GetMForwardTaken(i, r, l) /\ (a.aborts <=> priv[i].aborts)
<1> DEFINE n == priv[i]
           m == MsgAt(i, r)
           c == BlockOf(n, l)
           e == MshrOf(n, l)
<1>1. /\ NodeInv(n) /\ l \in Lines /\ m \in RoutedTo(i) /\ m.type = "GETM_FORWARD" /\ m.line = l /\ L1Expects(i, m)
      /\ block[i][l] = c /\ mshr[i][l] = e /\ e.st = n.mshr[l].st /\ \A x : Also(n.out, x) = Just(x)
      /\ n.out = Nothing
  BY ReceiveFacts
<1>2. Goes(i, Taken(i, r), a) /\ NodesInv /\ Mapped /\ Mapped'
  BY DEF Receives2, Seeing, PrivInv
<1>3. a \in OnGetMForward(n, i, m)
  BY <1>1 DEF Receives2, OnMessage
<1> HIDE DEF n, m, c, e
<1> DEFINE d == IF c.st # "I" THEN c.data ELSE e.data
           f == IF c.st # "I" THEN e ELSE [e EXCEPT !.st = AfterGetM(@)]
           x == Msg("GETM_RESP", RESP, i, m.arg, l, 0, d)
<1>4. Forwardable(n, l)
  <2>1. (c.st # "I") # (e.st \in {"STOM", "MTOI", "STOI", "ETOI", "OTOM", "OTOI"})
    BY <1>1 DEF L1Expects, HoldsInMSHR
  <2> QED BY <1>1, <2>1, ForwardableSeen DEF c, e
<1>5. Acts2(n, l, Absent, f, Also(n.out, x), a)
  BY <1>1, <1>3, <1>4, OnGetMForwardKeeps DEF e, c
<1>6. TakenIn(i, r, l, Absent, f, Just(x))
  <2> HIDE DEF f, x
  <2> QED BY <1>1, <1>2, <1>5, ActsTaken DEF n
<1> QED BY <1>1, <1>5, <1>6 DEF GetMForwardTaken, Acts2, n, m

\* GETS_RESP.
LEMMA GetSRespSeen ==
  ASSUME Seeing, NEW i \in L1s, NEW r \in Arriving(i), NEW a, Receives2(i, r, a), NEW l, l = MsgAt(i, r).line,
         MsgAt(i, r).type = "GETS_RESP"
  PROVE  GetSRespTaken(i, r, l) /\ (a.aborts <=> priv[i].aborts)
<1> DEFINE n == priv[i]
           m == MsgAt(i, r)
           c == BlockOf(n, l)
           e == MshrOf(n, l)
<1>1. /\ NodeInv(n) /\ l \in Lines /\ m \in RoutedTo(i) /\ m.type = "GETS_RESP" /\ m.line = l /\ L1Expects(i, m)
      /\ block[i][l] = c /\ mshr[i][l] = e /\ e.st = n.mshr[l].st /\ \A x : Also(n.out, x) = Just(x)
      /\ n.out = Nothing
  BY ReceiveFacts
<1>2. Goes(i, Taken(i, r), a) /\ NodesInv /\ Mapped /\ Mapped'
  BY DEF Receives2, Seeing, PrivInv
<1>3. a \in OnGetSResp(n, i, m)
  BY <1>1 DEF Receives2, OnMessage
<1> HIDE DEF n, m, c, e
<1>4. n.mshr[l].st # "-"
  BY <1>1 DEF L1Expects
<1>5. \/ m.arg > 0 /\ Entered2(n, i, l, "S", m.data, Also(n.out, GetAck(i, l)), a)
      \/ ~(m.arg > 0) /\ Entered2(n, i, l, "E", m.data, n.out, a)
  BY <1>1, <1>3, <1>4, OnGetSRespKeeps
<1>6. CASE m.arg > 0
  <2>1. Entered2(n, i, l, "S", m.data, Just(GetAck(i, l)), a)
    BY <1>1, <1>5, <1>6
  <2>2. LineIn(i, r, l, "S", m.data, Just(GetAck(i, l)))
    BY <1>1, <1>2, <2>1, EntersSeen DEF n
  <2> QED BY <1>1, <1>6, <2>1, <2>2 DEF GetSRespTaken, Entered2, n, m
<1>7. CASE ~(m.arg > 0)
  <2>1. Entered2(n, i, l, "E", m.data, Nothing, a)
    BY <1>1, <1>5, <1>7
  <2>2. LineIn(i, r, l, "E", m.data, Nothing)
    BY <1>1, <1>2, <2>1, EntersSeen DEF n
  <2> QED BY <1>1, <1>7, <2>1, <2>2 DEF GetSRespTaken, Entered2, n, m
<1> QED BY <1>6, <1>7

\* GETM_RESP.
LEMMA GetMRespSeen ==
  ASSUME Seeing, NEW i \in L1s, NEW r \in Arriving(i), NEW a, Receives2(i, r, a), NEW l, l = MsgAt(i, r).line,
         MsgAt(i, r).type = "GETM_RESP"
  PROVE  GetMRespTaken(i, r, l) /\ (a.aborts <=> priv[i].aborts)
<1> DEFINE n == priv[i]
           m == MsgAt(i, r)
           c == BlockOf(n, l)
           e == MshrOf(n, l)
<1>1. /\ NodeInv(n) /\ l \in Lines /\ m \in RoutedTo(i) /\ m.type = "GETM_RESP" /\ m.line = l /\ L1Expects(i, m)
      /\ block[i][l] = c /\ mshr[i][l] = e /\ e.st = n.mshr[l].st /\ \A x : Also(n.out, x) = Just(x)
      /\ n.out = Nothing
  BY ReceiveFacts
<1>2. Goes(i, Taken(i, r), a) /\ NodesInv /\ Mapped /\ Mapped'
  BY DEF Receives2, Seeing, PrivInv
<1>3. a \in OnGetMResp(n, i, m)
  BY <1>1 DEF Receives2, OnMessage
<1> HIDE DEF n, m, c, e
<1> DEFINE early == m.arg = 0 /\ (~e.hasNeed \/ e.need # e.acks)
           f == [e EXCEPT !.data = m.data, !.hasData = TRUE]
           out == IF m.arg = 0 THEN Just(GetAck(i, l)) ELSE Nothing
<1>4. e.st = "ITOM"
  BY <1>1 DEF L1Expects
<1>5. \/ early /\ Acts2(n, l, c, f, n.out, a)
      \/ /\ ~early
         /\ Entered2(n, i, l, "M", m.data, IF m.arg = 0 THEN Also(n.out, GetAck(i, l)) ELSE n.out, a)
  BY ZenonT(60), <1>1, <1>3, <1>4, OnGetMRespKeeps DEF e, c
<1>6. CASE early
  <2>1. Acts2(n, l, c, f, Nothing, a)
    BY <1>1, <1>5, <1>6
  <2>2. TakenIn(i, r, l, c, f, Nothing)
    BY <1>1, <1>2, <2>1, ActsTaken DEF n
  <2> QED BY <1>1, <1>6, <2>1, <2>2 DEF GetMRespTaken, Acts2, n, m
<1>7. CASE ~early
  <2>1. Entered2(n, i, l, "M", m.data, out, a)
    BY <1>1, <1>5, <1>7
  <2>2. LineIn(i, r, l, "M", m.data, out)
    <3> HIDE DEF out
    <3> QED BY <1>1, <1>2, <2>1, EntersSeen DEF n
  <2> QED BY <1>1, <1>7, <2>1, <2>2 DEF GetMRespTaken, Entered2, n, m
<1> QED BY <1>6, <1>7

\* GET_RESP_MEM.
LEMMA GetRespMemSeen ==
  ASSUME Seeing, NEW i \in L1s, NEW r \in Arriving(i), NEW a, Receives2(i, r, a), NEW l, l = MsgAt(i, r).line,
         MsgAt(i, r).type = "GET_RESP_MEM"
  PROVE  GetRespMemTaken(i, r, l) /\ (a.aborts <=> priv[i].aborts)
<1> DEFINE n == priv[i]
           m == MsgAt(i, r)
           c == BlockOf(n, l)
           e == MshrOf(n, l)
<1>1. /\ NodeInv(n) /\ l \in Lines /\ m \in RoutedTo(i) /\ m.type = "GET_RESP_MEM" /\ m.line = l /\ L1Expects(i, m)
      /\ block[i][l] = c /\ mshr[i][l] = e /\ e.st = n.mshr[l].st /\ \A x : Also(n.out, x) = Just(x)
      /\ n.out = Nothing
  BY ReceiveFacts
<1>2. Goes(i, Taken(i, r), a) /\ NodesInv /\ Mapped /\ Mapped'
  BY DEF Receives2, Seeing, PrivInv
<1>3. a \in OnGetRespMem(n, i, m)
  BY <1>1 DEF Receives2, OnMessage
<1> HIDE DEF n, m, c, e
<1> DEFINE st == IF e.st = "ITOM" THEN "M" ELSE "E"
<1>4. e.st \in {"ITOM", "ITOS"}
  BY <1>1 DEF L1Expects
<1>5. Entered2(n, i, l, st, m.data, Just(GetAck(i, l)), a)
  BY <1>1, <1>3, <1>4, OnGetRespMemKeeps DEF e
<1>6. LineIn(i, r, l, st, m.data, Just(GetAck(i, l)))
  <2> HIDE DEF st
  <2> QED BY <1>1, <1>2, <1>5, EntersSeen DEF n
<1> QED BY <1>1, <1>5, <1>6 DEF GetRespMemTaken, Entered2, n, m

\* When its PUT_ACK comes, the line is in no cache.
LEMMA AbsentAtPutAck ==
  ASSUME Seeing, NEW i \in L1s, NEW r \in Arriving(i), NEW l, l = MsgAt(i, r).line, MsgAt(i, r).type = "PUT_ACK"
  PROVE  block[i][l] = Absent
<1> DEFINE n == priv[i]
           m == MsgAt(i, r)
<1>1. NodeInv(n) /\ l \in Lines /\ m.line = l /\ m.type = "PUT_ACK" /\ L1Expects(i, m) /\ block[i][l] = BlockOf(n, l)
      /\ mshr[i][l].st = n.mshr[l].st
  BY ReceiveFacts
<1> HIDE DEF n, m
<1>2. LineOK(n, l) /\ n.mshr[l].st \notin {"-", "STOM", "OTOM"}
  BY <1>1 DEF NodeInv, L1Expects
<1>3. n.l2[l] = NoL2 /\ n.l1d[l] = NoL1D
  BY <1>2 DEF LineOK, Included
<1> QED BY <1>1, <1>3, NothingThere

\* PUT_ACK: the eviction is over, or the line is asked for again.
LEMMA PutAckSeen ==
  ASSUME Seeing, NEW i \in L1s, NEW r \in Arriving(i), NEW a, Receives2(i, r, a), NEW l, l = MsgAt(i, r).line,
         MsgAt(i, r).type = "PUT_ACK"
  PROVE  /\ \/ PutAckTaken(i, r, l)
            \/ \E st \in {"ITOM", "ITOS"} :
                 TakenIn(i, r, l, Absent, Waits(st), Just(AskFor(i, l, st)))
         /\ (a.aborts <=> priv[i].aborts)
<1> DEFINE n == priv[i]
           m == MsgAt(i, r)
           c == BlockOf(n, l)
           e == MshrOf(n, l)
<1>1. /\ NodeInv(n) /\ l \in Lines /\ m \in RoutedTo(i) /\ m.type = "PUT_ACK" /\ m.line = l /\ L1Expects(i, m)
      /\ block[i][l] = c /\ mshr[i][l] = e /\ e.st = n.mshr[l].st /\ \A x : Also(n.out, x) = Just(x)
      /\ n.out = Nothing
  BY ReceiveFacts
<1>2. Goes(i, Taken(i, r), a) /\ NodesInv /\ Mapped /\ Mapped'
  BY DEF Receives2, Seeing, PrivInv
<1>3. a \in OnPutAck(n, i, l)
  BY <1>1 DEF Receives2, OnMessage
<1> HIDE DEF n, m, c, e
<1>4. n.mshr[l].st \in Leaving
  BY <1>1 DEF L1Expects, Leaving
<1>5. \/ Acts2(n, l, c, NoMSHR, n.out, a)
      \/ \E st \in {"ITOM", "ITOS"} : Acts2(n, l, c, Waits(st), Also(n.out, AskFor(i, l, st)), a)
  BY <1>1, <1>3, <1>4, OnPutAckKeeps DEF c
<1>6. c = Absent
  BY <1>1, AbsentAtPutAck DEF m
<1>7. CASE Acts2(n, l, c, NoMSHR, n.out, a)
  <2>1. TakenIn(i, r, l, c, NoMSHR, Nothing)
    BY <1>1, <1>2, <1>7, ActsTaken DEF n
  <2> QED BY <1>1, <1>7, <2>1 DEF PutAckTaken, Acts2, n, m
<1>8. CASE \E st \in {"ITOM", "ITOS"} : Acts2(n, l, c, Waits(st), Also(n.out, AskFor(i, l, st)), a)
  <2>1. PICK st \in {"ITOM", "ITOS"} : Acts2(n, l, c, Waits(st), Also(n.out, AskFor(i, l, st)), a)
    BY <1>8
  <2>2. TakenIn(i, r, l, c, Waits(st), Just(AskFor(i, l, st)))
    BY <1>1, <1>2, <2>1, ActsTaken DEF n
  <2> QED BY <1>6, <2>1, <2>2 DEF Acts2, n
<1> QED BY <1>5, <1>7, <1>8

\* A node that has given a line up asks for it again: the directory sees a PUT_ACK taken in

\* and a request made at once.
LEMMA AskedAgainKeeps ==
  ASSUME MoesiInv, NEW i \in L1s, NEW r \in Arriving(i), NEW l, l = MsgAt(i, r).line, MsgAt(i, r).type = "PUT_ACK",
         block[i][l] = Absent, NEW st \in {"ITOM", "ITOS"},
         TakenIn(i, r, l, Absent, Waits(st), Just(AskFor(i, l, st))), UNCHANGED llcVars
  PROVE  Kept
<1> DEFINE s == View(l)
           t == View(l)'
           m == MsgAt(i, r)
           x == AskFor(i, l, st)
           e == Waits(st)
<1>1. m \in InNet(net) /\ m \in Message /\ m.dst = i /\ l \in Lines /\ m \in s.msgs /\ LineInv(l, s)
  BY MessageArrives
<1>2. s.cache[i] = Absent
  BY <1>1, ViewAt
<1>3. x \in Message /\ x.src = i /\ x.line = l /\ Request(x)
      /\ x = Msg(IF st = "ITOM" THEN "GETM" ELSE "GETS", REQ, i, LLC, l, i, NoData)
  <2> DEFINE ty == IF st = "ITOM" THEN "GETM" ELSE "GETS"
  <2>1. ty \in MessageTypes /\ ty \in {"GETM", "GETS"} /\ i \in Nodes /\ LLC \in Nodes /\ i \in Nat /\ NoData \in Data
    BY NodeFacts, DataFacts DEF MessageTypes
  <2>2. REQ \in {ACK, RESP, REQ}
    OBVIOUS
  <2>3. ty \notin {"GETS_RESP", "GETM_RESP", "INVALID", "GETS_FORWARD", "GETM_FORWARD"}
    OBVIOUS
  <2> HIDE DEF ty
  <2>4. LET y == Msg(ty, REQ, i, LLC, l, i, NoData) IN y \in Message /\ y.type = ty /\ y.src = i /\ y.line = l
    BY <1>1, <2>1, <2>2, <2>3, MessageFacts, MsgFacts
  <2> QED BY <2>1, <2>4 DEF AskFor, Request, ty
<1> HIDE DEF s, t, x, e
<1>4. x \notin s.msgs
  <2>1. Client(m) = i /\ ~Request(m) /\ m.type # "GET_ACK"
    BY <1>1 DEF Client, Requester, Request
  <2>2. ~Asks(s, i)
    BY <1>1, <2>1 DEF LineInv, AskedFirst
  <2> QED BY <1>3, <2>2 DEF Asks
<1>5. i \in Nodes /\ Sends(i, Just(x)) /\ OutSet(Just(x)) = {x}
  BY <1>3, NodeFacts, JustSent
<1>6. /\ Becomes(block, block', i, l, Absent) /\ Becomes(mshr, mshr', i, l, e)
      /\ Reply(i, r, Just(x)) /\ golden' = golden
  BY DEF TakenIn, x, e
<1>7. ASSUME LineHandles(s, t, i, m, Absent, e, {x}) PROVE LineAsksAgain(l, s, t, i, m)
  <2> DEFINE u == Freed(s, i, m)
  <2>1. /\ t.cache = [s.cache EXCEPT ![i] = Absent] /\ t.mshr = [s.mshr EXCEPT ![i] = e]
        /\ t.msgs = (s.msgs \ {m}) \cup {x}
        /\ t.entry = s.entry /\ t.owed = s.owed /\ t.blk = s.blk /\ t.mem = s.mem /\ t.golden = s.golden
    BY <1>7 DEF LineHandles, AtL1
  <2>2. /\ u.cache = [s.cache EXCEPT ![i] = @] /\ u.mshr = [s.mshr EXCEPT ![i] = NoMSHR]
        /\ u.msgs = s.msgs \ {m} /\ u.entry = s.entry /\ u.owed = s.owed
        /\ u.blk = s.blk /\ u.mem = s.mem /\ u.golden = s.golden
    BY DEF Freed
  <2> HIDE DEF u
  <2>3. /\ s.cache \in [L1s -> [st : CacheStates, data : Data]] /\ s.mshr \in [L1s -> MSHREntry]
    BY <1>1 DEF LineInv, LineTypes
  <2>4. u.cache[i] = Absent /\ u.mshr[i] = NoMSHR /\ u.cache = [s.cache EXCEPT ![i] = s.cache[i]]
    BY <1>2, <2>2, <2>3
  <2>5. t.mshr = [u.mshr EXCEPT ![i] = e] /\ t.cache = [u.cache EXCEPT ![i] = Absent]
    BY <2>1, <2>2, <2>3
  <2>6. LinePutAck(l, s, u, i, m)
    BY <1>1, <2>2 DEF LinePutAck, LineHandles, AtL1
  <2>7. t.msgs = (u.msgs \ {}) \cup {x}
    BY <2>1, <2>2
  <2>8. AtL1(u, t, i, Absent, e, {}, {x}) /\ t.golden = u.golden
    BY <2>1, <2>2, <2>5, <2>7 DEF AtL1
  <2>9. CASE st = "ITOS"
    <3>1. LineLoads(l, u, t, i)
      BY <1>3, <2>4, <2>8, <2>9 DEF LineLoads, Absent, NoMSHR, e
    <3> QED BY <2>6, <3>1 DEF LineAsksAgain, u
  <2>10. CASE st = "ITOM"
    <3>1. Upgrade(u.cache[i]) = e
      BY <2>4, <2>10 DEF Upgrade, Absent, e
    <3>2. \E ch \in {RESP, REQ} :
            AtL1(u, t, i, Absent, Upgrade(u.cache[i]), {}, {Msg("GETM", ch, i, LLC, l, i, NoData)})
      BY <1>3, <2>8, <2>10, <3>1
    <3>3. LineAsksToStore(l, u, t, i)
      <4>1. u.cache[i].st \notin {"E", "M"} /\ u.mshr[i].st = "-"
        BY <2>4 DEF Absent, NoMSHR
      <4>2. t.golden = u.golden
        BY <2>8
      <4> HIDE DEF u
      <4> QED BY <3>2, <4>1, <4>2 DEF LineAsksToStore
    <3> QED BY <2>6, <3>3 DEF LineAsksAgain, u
  <2> QED BY <2>9, <2>10
<1>8. LineHandles(s, t, i, m, Absent, e, OutSet(Just(x))) => LineStep(l, s, t)
  BY <1>1, <1>5, <1>7 DEF LineStep
<1>9. \A y \in OutSet(Just(x)) : y.line = l /\ y \notin s.msgs
  BY <1>3, <1>4, <1>5
<1> DEFINE out == Just(x)
<1>10. /\ Sends(i, out) /\ Reply(i, r, out) /\ \A y \in OutSet(out) : y.line = l /\ y \notin s.msgs
       /\ LineHandles(s, t, i, m, Absent, e, OutSet(out)) => LineStep(l, s, t)
  BY <1>5, <1>6, <1>8, <1>9
<1> HIDE DEF out
<1> QED BY <1>6, <1>10, HandledKeeps DEF s, t, m

\* Whatever a node takes in, it keeps the protocol, and no assertion fails.
LEMMA PrivReceiveSeen ==
  ASSUME Seeing, NEW i \in L1s, PrivReceive(i), UNCHANGED llcVars
  PROVE  Kept /\ (priv'[i].aborts <=> priv[i].aborts) /\ \A j \in L1s \ {i} : priv'[j] = priv[j]
<1>1. PICK r \in Arriving(i) :
        \E a \in OnMessage(priv[i], i, MsgAt(i, r)) :
          /\ priv' = [priv EXCEPT ![i] = [a EXCEPT !.out = Nothing]]
          /\ net' = Sent(Taken(i, r), i, a.out)
  BY DEF PrivReceive
<1>2. PICK a \in OnMessage(priv[i], i, MsgAt(i, r)) :
        /\ priv' = [priv EXCEPT ![i] = [a EXCEPT !.out = Nothing]]
        /\ net' = Sent(Taken(i, r), i, a.out)
  BY <1>1
<1> DEFINE m == MsgAt(i, r)
           l == m.line
<1>3. Receives2(i, r, a)
  BY <1>2 DEF Receives2, Goes, NodeBecomes, Emptied, PrivReceive
<1>4. MoesiInv /\ NodeInv(priv[i]) /\ m \in RoutedTo(i) /\ l \in Lines /\ m.type \in ForL1
  <2>1. MoesiInv
    BY DEF Seeing
  <2>2. NodeInv(priv[i]) /\ m \in RoutedTo(i) /\ l \in Lines
    BY ReceiveFacts
  <2> QED BY <2>1, <2>2 DEF RoutedTo, Routed
<1>5. Kept /\ (a.aborts <=> priv[i].aborts)
  <2>1. ASSUME Taken1(i, r, l) PROVE Kept
    BY <1>4, <2>1, TakenKeeps
  <2> USE DEF Taken1
  <2>2. CASE m.type = "INVALID"
    BY <1>3, <2>1, <2>2, InvalidSeen
  <2>3. CASE m.type = "INVALID_ACK"
    BY <1>3, <2>1, <2>3, InvalidAckSeen
  <2>4. CASE m.type = "GETM_ACK"
    BY <1>3, <2>1, <2>4, GetMAckSeen
  <2>5. CASE m.type = "GETS_FORWARD"
    BY <1>3, <2>1, <2>5, GetSForwardSeen
  <2>6. CASE m.type = "GETM_FORWARD"
    BY <1>3, <2>1, <2>6, GetMForwardSeen
  <2>7. CASE m.type = "GETS_RESP"
    BY <1>3, <2>1, <2>7, GetSRespSeen
  <2>8. CASE m.type = "GETM_RESP"
    BY <1>3, <2>1, <2>8, GetMRespSeen
  <2>9. CASE m.type = "GET_RESP_MEM"
    BY <1>3, <2>1, <2>9, GetRespMemSeen
  <2>10. CASE m.type = "PUT_ACK"
    <3>1. /\ \/ PutAckTaken(i, r, l)
             \/ \E st \in {"ITOM", "ITOS"} : TakenIn(i, r, l, Absent, Waits(st), Just(AskFor(i, l, st)))
          /\ (a.aborts <=> priv[i].aborts)
      BY <1>3, <2>10, PutAckSeen
    <3>2. ASSUME NEW st \in {"ITOM", "ITOS"}, TakenIn(i, r, l, Absent, Waits(st), Just(AskFor(i, l, st)))
          PROVE  Kept
      <4>1. block[i][l] = Absent
        BY <1>3, <2>10, AbsentAtPutAck
      <4> QED BY <1>4, <2>10, <3>2, <4>1, AskedAgainKeeps
    <3> QED BY <2>1, <3>1, <3>2
  <2> QED BY <1>4, <2>2, <2>3, <2>4, <2>5, <2>6, <2>7, <2>8, <2>9, <2>10 DEF ForL1
<1>6. a.aborts <=> Emptied(a).aborts
  <2>1. NodeInv(a)
    BY <1>2, <1>4, OnMessageKeeps
  <2> QED BY <2>1, EmptiedNode
<1>7. priv'[i] = Emptied(a) /\ \A j \in L1s \ {i} : priv'[j] = priv[j]
  BY <1>2 DEF Emptied, Seeing, PrivInv, NodesInv
<1> QED BY <1>5, <1>6, <1>7

-----------------------------------------------------------------------------
(* What else a node does.                                                  *)

\* A node the directory sees nothing of.
LEMMA SameSeen ==
  ASSUME Mapped, Mapped', priv \in [L1s -> Node], NEW i \in L1s, NEW b, NodeBecomes(i, b), Same(priv[i], b, Lines)
  PROVE  block' = block /\ mshr' = mshr
<1>1. /\ \A k \in L1s \ {i} : block'[k] = block[k] /\ mshr'[k] = mshr[k]
      /\ \A j \in Lines : block'[i][j] = BlockOf(b, j) /\ mshr'[i][j] = MshrOf(b, j)
      /\ \A j \in Lines : block[i][j] = BlockOf(priv[i], j) /\ mshr[i][j] = MshrOf(priv[i], j)
      /\ block' = [k \in L1s |-> [j \in Lines |-> block'[k][j]]]
      /\ mshr' = [k \in L1s |-> [j \in Lines |-> mshr'[k][j]]]
  BY SeenBecomes
<1>2. \A k \in L1s : \A j \in Lines : block'[k][j] = block[k][j] /\ mshr'[k][j] = mshr[k][j]
  BY <1>1 DEF Same
<1>3. /\ block = [k \in L1s |-> [j \in Lines |-> block[k][j]]]
      /\ mshr = [k \in L1s |-> [j \in Lines |-> mshr[k][j]]]
  <2>1. block = [k \in L1s |-> SeenOf(priv[k])] /\ mshr = [k \in L1s |-> EntriesOf(priv[k])]
    BY DEF Mapped, SeenOf, EntriesOf
  <2>2. /\ \A k \in L1s : block[k] = SeenOf(priv[k]) /\ mshr[k] = EntriesOf(priv[k])
        /\ \A n : SeenOf(n) = [j \in Lines |-> SeenOf(n)[j]] /\ EntriesOf(n) = [j \in Lines |-> EntriesOf(n)[j]]
    BY <2>1 DEF SeenOf, EntriesOf
  <2>3. block = [k \in L1s |-> [j \in Lines |-> block[k][j]]]
    BY <2>1, <2>2
  <2>4. mshr = [k \in L1s |-> [j \in Lines |-> mshr[k][j]]]
    BY <2>1, <2>2
  <2> QED BY <2>3, <2>4
<1>4. block' = block
  BY <1>1, <1>2, <1>3
<1>5. mshr' = mshr
  BY <1>1, <1>2, <1>3
<1> QED BY <1>4, <1>5

\* A step of the CPU or of the caches between it and the L2 that sends nothing.
LEMMA IdleSeen ==
  ASSUME Seeing, NEW i \in L1s, Idles(i), UNCHANGED llcVars
  PROVE  Kept
<1>1. PICK b : Unseen(i, b)
  BY DEF Idles
<1>2. block' = block /\ mshr' = mshr
  BY <1>1, SameSeen DEF Unseen, Seeing, PrivInv, NodesInv
<1>3. net' = net /\ golden' = golden
  BY DEF Idles, Seeing, Mapped
<1> QED BY <1>2, <1>3, Unmoved DEF Seeing

\* A function of functions in which one value has changed.
LEMMA BecomesUpdated ==
  ASSUME NEW g, g = [k \in L1s |-> [j \in Lines |-> g[k][j]]], NEW f, NEW i \in L1s, NEW l \in Lines, NEW c,
         Becomes(g, f, i, l, c)
  PROVE  f = Update(g, i, l, c)
<1>1. Becomes(g, Update(g, i, l, c), i, l, c)
  BY Updated
<1> DEFINE h == Update(g, i, l, c)
<1>2. Becomes(g, h, i, l, c)
  BY <1>1
<1> HIDE DEF h
<1>3. \A k \in L1s : \A j \in Lines : f[k][j] = h[k][j]
  <2>1. ASSUME NEW k \in L1s \ {i}, NEW j \in Lines PROVE f[k][j] = h[k][j]
    BY <1>2 DEF Becomes
  <2>2. ASSUME NEW j \in Lines \ {l} PROVE f[i][j] = h[i][j]
    BY <1>2 DEF Becomes
  <2>3. f[i][l] = h[i][l]
    BY <1>2 DEF Becomes
  <2> QED BY <2>1, <2>2, <2>3
<1>4. f = [k \in L1s |-> [j \in Lines |-> f[k][j]]]
  BY DEF Becomes
<1>5. h = [k \in L1s |-> [j \in Lines |-> h[k][j]]]
  BY <1>2 DEF Becomes
<1>6. [k \in L1s |-> [j \in Lines |-> f[k][j]]] = [k \in L1s |-> [j \in Lines |-> h[k][j]]]
  <2>1. \A k \in L1s : [j \in Lines |-> f[k][j]] = [j \in Lines |-> h[k][j]]
    BY <1>3
  <2> QED BY <2>1
<1>7. f = h
  BY <1>4, <1>5, <1>6
<1> QED BY <1>7 DEF h

\* A store is the store of an L1.
LEMMA StoreSeen ==
  ASSUME Seeing, NEW i \in L1s, NEW l \in Lines, StoresIn(i, l), UNCHANGED llcVars
  PROVE  Kept
<1> DEFINE n == priv[i]
           d == (privGolden[l] + 1) % (MaxData + 1)
<1>1. NodeInv(n) /\ n.out = Nothing /\ privGolden \in [Lines -> Data] /\ n.l1d[l].write /\ priv \in [L1s -> Node]
  BY DEF Seeing, PrivInv, NodesInv, StoresIn
<1>2. StoresAt(i, l, d) /\ privGolden' = [privGolden EXCEPT ![l] = d] /\ net' = net
  BY DEF StoresIn
<1>3. d \in Data /\ d = NextData(golden[l])
  BY <1>1, DataAssumption DEF Data, NextData, Seeing, Mapped
<1> HIDE DEF d
<1> DEFINE b == StoredIn(n, l, d)
<1>4. /\ BlockOf(n, l).st \in {"E", "M"} /\ BlockOf(b, l) = [st |-> "M", data |-> d]
      /\ MshrOf(b, l) = MshrOf(n, l) /\ Same(n, b, Lines \ {l})
  <2> HIDE DEF n
  <2>1. NodeInv(n) /\ n.l1d[l].write
    BY <1>1
  <2> QED BY <1>3, <2>1, StoreKeeps
<1>5. NodeBecomes(i, b)
  BY <1>1, <1>2, StoreAt DEF Seeing, PrivInv
<1> HIDE DEF b
<1>6. Becomes(block, block', i, l, [st |-> "M", data |-> d]) /\ Becomes(mshr, mshr', i, l, mshr[i][l])
  <2>1. mshr[i][l] = MshrOf(n, l)
    BY MappedAt DEF Seeing
  <2> QED BY <1>1, <1>4, <1>5, <2>1, BecomesSeen DEF Seeing
<1>7. block = [k \in L1s |-> [j \in Lines |-> block[k][j]]] /\ mshr = [k \in L1s |-> [j \in Lines |-> mshr[k][j]]]
  BY DEF Seeing, MoesiInv, Shaped
<1>8. block' = Update(block, i, l, [st |-> "M", data |-> d])
  <2> DEFINE c == [st |-> "M", data |-> d]
  <2> HIDE DEF c
  <2>1. Becomes(block, block', i, l, c)
    BY <1>6 DEF c
  <2>2. block' = Update(block, i, l, c)
    BY <1>7, <2>1, BecomesUpdated
  <2> QED BY <2>2 DEF c
<1>9. mshr' = mshr
  <2> DEFINE c == mshr[i][l]
  <2>1. Becomes(mshr, mshr', i, l, c)
    BY <1>6
  <2>2. mshr' = Update(mshr, i, l, c)
    <3> HIDE DEF c
    <3> QED BY <1>7, <2>1, BecomesUpdated
  <2>3. Update(mshr, i, l, c) = mshr
    BY <1>7 DEF Update
  <2> QED BY <2>2, <2>3
<1>10. block[i][l].st \in {"E", "M"}
  BY <1>4, MappedAt DEF Seeing
<1>11. golden' = [golden EXCEPT ![l] = NextData(@)]
  BY <1>2, <1>3 DEF Seeing, Mapped
<1>12. reserved' = [reserved EXCEPT ![i] = NoLine] /\ overwritten' = (overwritten \cup {j \in L1s : reserved[j] = l}) \ {i}
  BY PrivAssumption DEF Seeing, Mapped, NoLine
<1>13. StoreHit(i, l)
  BY <1>2, <1>3, <1>8, <1>9, <1>10, <1>11, <1>12 DEF StoreHit, CanWrite, Update
<1> QED BY <1>13, StoreHitKeeps DEF Seeing

\* Sending nothing leaves the queues as they are.
LEMMA NothingIsSent ==
  ASSUME NEW q \in [Nodes -> Outs], NEW i \in Nodes
  PROVE  Sent(q, i, Nothing) = q
<1>1. q[i] \in Outs
  OBVIOUS
<1>2. [d \in Nodes |-> q[i][d] \o Nothing[d]] = q[i]
  <2>1. q[i] \in [Nodes -> Seq(Message)]
    BY <1>1 DEF Outs, RoutedTo
  <2>2. \A d \in Nodes : q[i][d] \o Nothing[d] = q[i][d]
    BY <2>1 DEF Nothing
  <2> QED BY <2>1, <2>2
<1> QED BY <1>2 DEF Sent

\* A node that works on its queue is seen as one that idles, or that asks for the line.
LEMMA WorkSeen ==
  ASSUME Seeing, NEW i \in L1s, NEW l \in Lines, NEW a, WorksOn(i, l, a), Goes(i, net, a), UNCHANGED llcVars
  PROVE  Kept
<1> DEFINE n == priv[i]
           c == BlockOf(n, l)
<1>1. /\ Mapped /\ Mapped' /\ NodesInv /\ MoesiInv /\ net \in [Nodes -> Outs] /\ NodeInv(n) /\ i \in Nodes
      /\ priv \in [L1s -> Node]
  BY NodeFacts DEF Seeing, PrivInv, NodesInv
<1>2. c = block[i][l] /\ mshr[i][l] = MshrOf(n, l) /\ MshrOf(n, l).st = n.mshr[l].st
  <2>1. n \in Node
    BY <1>1
  <2> QED BY <1>1, <2>1, MappedAt, SeenFacts
<1> DEFINE s == View(l)
           t == View(l)'
<1>3. s.cache[i] = block[i][l] /\ s.mshr[i] = mshr[i][l]
  BY <1>1, ViewAt
<1>4. CASE ActsOn(n, l, c, MshrOf(n, l), Nothing, a)
  <2> DEFINE b == Emptied(a)
  <2>1. NodeInv(a) /\ Same(n, a, Lines) /\ a.out = Nothing
    BY <1>4 DEF ActsOn, Same
  <2>2. Same(a, b, Lines)
    BY <2>1, EmptiedNode
  <2>3. NodeBecomes(i, b) /\ net' = net /\ golden' = golden
    BY <1>1, <2>1, NothingIsSent DEF Goes, Mapped
  <2> HIDE DEF b, n
  <2>4. Same(n, b, Lines)
    BY <2>1, <2>2 DEF Same
  <2>5. block' = block /\ mshr' = mshr
    BY <1>1, <2>3, <2>4, SameSeen DEF n
  <2> QED BY <1>1, <2>3, <2>5, Unmoved
<1>5. CASE /\ n.l2[l].st = "I" /\ n.mshr[l].st = "-"
           /\ ActsOn(n, l, c, Waits("ITOS"), Just(AskFor(i, l, "ITOS")), a)
  <2> DEFINE x == AskFor(i, l, "ITOS")
             e == Waits("ITOS")
  <2>1. x = Msg("GETS", REQ, i, LLC, l, i, NoData)
    BY DEF AskFor
  <2> HIDE DEF x, e
  <2>2. Becomes(block, block', i, l, c) /\ Becomes(mshr, mshr', i, l, e) /\ net' = Sent(net, i, Just(x)) /\ golden' = golden
    BY <1>1, <1>5, ActsSeen DEF x, e
  <2>3. x \in Message /\ x.src = i /\ x.line = l /\ x \notin View(l).msgs
    <3> HIDE DEF n
    <3>1. mshr[i][l].st = "-"
      BY <1>2, <1>5
    <3> QED BY <1>1, <2>1, <3>1, AskSent
  <2>4. block[i][l].st = "I"
    <3> HIDE DEF n
    <3>1. n \in Node /\ LineOK(n, l)
      BY <1>1 DEF NodeInv
    <3>2. n.l1d[l] = NoL1D
      BY <1>5, <3>1 DEF LineOK, Included
    <3>3. c.st = "I"
      BY <1>5, <3>2 DEF BlockOf, NoL1D
    <3> QED BY <1>2, <3>3
  <2>5. AtL1(s, t, i, c, e, {}, {x}) /\ t.golden = s.golden => LineStep(l, s, t)
    <3> HIDE DEF s, t, c, n
    <3> SUFFICES ASSUME AtL1(s, t, i, c, e, {}, {x}), t.golden = s.golden
                 PROVE  LineLoads(l, s, t, i)
      BY DEF LineStep
    <3> QED BY <1>2, <1>3, <1>5, <2>1, <2>4 DEF LineLoads, e
  <2> HIDE DEF c
  <2> QED BY <1>1, <2>2, <2>3, <2>5, AskedKeeps
<1>6. CASE /\ n.l2[l].st \notin {"E", "M"} /\ n.mshr[l].st = "-"
           /\ ActsOn(n, l, Absent, Upgrade(c), Just(AskFor(i, l, "ITOM")), a)
  <2> DEFINE x == AskFor(i, l, "ITOM")
             e == Upgrade(c)
  <2>1. x = Msg("GETM", REQ, i, LLC, l, i, NoData)
    BY DEF AskFor
  <2> HIDE DEF x, e
  <2>2. Becomes(block, block', i, l, Absent) /\ Becomes(mshr, mshr', i, l, e) /\ net' = Sent(net, i, Just(x)) /\ golden' = golden
    BY <1>1, <1>6, ActsSeen DEF x, e
  <2>3. x \in Message /\ x.src = i /\ x.line = l /\ x \notin View(l).msgs
    <3> HIDE DEF n
    <3>1. mshr[i][l].st = "-"
      BY <1>2, <1>6
    <3> QED BY <1>1, <2>1, <3>1, AskSent
  <2>4. block[i][l].st \notin {"E", "M"}
    <3> HIDE DEF n
    <3>1. n \in Node /\ LineOK(n, l)
      BY <1>1 DEF NodeInv
    <3>2. ~n.l1d[l].dirty
      BY <1>6, <3>1 DEF LineOK, Copied
    <3>3. c.st = n.l2[l].st
      BY <3>2 DEF BlockOf
    <3> QED BY <1>2, <1>6, <3>3
  <2>5. AtL1(s, t, i, Absent, e, {}, {x}) /\ t.golden = s.golden => LineStep(l, s, t)
    <3> HIDE DEF s, t, c, n
    <3> SUFFICES ASSUME AtL1(s, t, i, Absent, e, {}, {x}), t.golden = s.golden
                 PROVE  LineAsksToStore(l, s, t, i)
      BY DEF LineStep
    <3>1. \E ch \in {RESP, REQ} :
            AtL1(s, t, i, Absent, Upgrade(s.cache[i]), {}, {Msg("GETM", ch, i, LLC, l, i, NoData)})
      BY <1>2, <1>3, <2>1 DEF e
    <3>2. s.cache[i].st \notin {"E", "M"} /\ s.mshr[i].st = "-"
      BY <1>2, <1>3, <1>6, <2>4
    <3> QED BY <3>1, <3>2 DEF LineAsksToStore
  <2> QED BY <1>1, <2>2, <2>3, <2>5, AskedKeeps
<1> QED BY <1>4, <1>5, <1>6 DEF WorksOn

-----------------------------------------------------------------------------
(* The nodes under the directory.                                          *)

\* What a node does, the directory sees as the steps of one of the L1s.
LEMMA NodeSeen ==
  ASSUME Seeing, NEW i \in L1s, PrivCPU(i) \/ PrivFetch(i) \/ PrivIndex(i) \/ PrivReceive(i), UNCHANGED llcVars
  PROVE  Kept
<1>1. NodesInv
  BY DEF Seeing, PrivInv
<1>2. CASE PrivCPU(i)
  <2>1. Idles(i) \/ \E l \in Lines : StoresIn(i, l)
    BY <1>1, <1>2, CPUMoves
  <2> QED BY <2>1, IdleSeen, StoreSeen
<1>3. CASE PrivFetch(i)
  BY <1>1, <1>3, FetchMoves, IdleSeen
<1>4. CASE PrivIndex(i)
  <2>1. PICK l \in Lines : \E a : WorksOn(i, l, a) /\ Goes(i, net, a)
    BY <1>1, <1>4, IndexMoves
  <2> QED BY <2>1, WorkSeen
<1>5. CASE PrivReceive(i)
  BY <1>5, PrivReceiveSeen
<1> QED BY <1>2, <1>3, <1>4, <1>5

\* No step of a node aborts it.
LEMMA NodeLives ==
  ASSUME Seeing, NEW i \in L1s, PrivCPU(i) \/ PrivFetch(i) \/ PrivIndex(i) \/ PrivReceive(i), UNCHANGED llcVars
  PROVE  \A j \in L1s : priv'[j].aborts <=> priv[j].aborts
<1>1. NodesInv /\ priv \in [L1s -> Node]
  BY DEF Seeing, PrivInv, NodesInv
<1>2. ASSUME NEW b, NodeBecomes(i, b), b.aborts <=> priv[i].aborts
      PROVE  \A j \in L1s : priv'[j].aborts <=> priv[j].aborts
  BY <1>1, <1>2 DEF NodeBecomes
<1>3. ASSUME Idles(i) PROVE \A j \in L1s : priv'[j].aborts <=> priv[j].aborts
  <2>1. PICK b : Unseen(i, b)
    BY <1>3 DEF Idles
  <2> QED BY <1>2, <2>1 DEF Unseen
<1>4. ASSUME NEW l \in Lines, StoresIn(i, l) PROVE \A j \in L1s : priv'[j].aborts <=> priv[j].aborts
  <2> DEFINE n == priv[i]
             d == (privGolden[l] + 1) % (MaxData + 1)
             b == StoredIn(n, l, d)
  <2>1. NodeInv(n) /\ n.l1d[l].write /\ privGolden \in [Lines -> Data] /\ StoresAt(i, l, d)
    BY <1>1, <1>4 DEF NodesInv, StoresIn
  <2>2. d \in Data
    BY <2>1, DataAssumption DEF Data
  <2> HIDE DEF d
  <2>3. NodeBecomes(i, b)
    BY <1>1, <2>1, StoreAt
  <2>4. b.aborts <=> n.aborts
    <3> HIDE DEF n, b
    <3>1. StoredIn(n, l, d).aborts <=> n.aborts
      BY <2>1, <2>2, StoreKeeps
    <3> QED BY <3>1 DEF b
  <2> HIDE DEF b
  <2> QED BY <1>2, <2>3, <2>4
<1>5. CASE PrivCPU(i)
  BY <1>1, <1>3, <1>4, <1>5, CPUMoves
<1>6. CASE PrivFetch(i)
  BY <1>1, <1>3, <1>6, FetchMoves
<1>7. CASE PrivIndex(i)
  <2>1. PICK l \in Lines : \E a : WorksOn(i, l, a) /\ Goes(i, net, a)
    BY <1>1, <1>7, IndexMoves
  <2>2. PICK a : WorksOn(i, l, a) /\ Goes(i, net, a)
    BY <2>1
  <2>3. NodeInv(a) /\ (a.aborts <=> priv[i].aborts)
    BY <2>2 DEF WorksOn, ActsOn
  <2>4. Emptied(a).aborts <=> a.aborts
    BY <2>3, EmptiedNode
  <2> QED BY <1>2, <2>2, <2>3, <2>4 DEF Goes
<1>8. CASE PrivReceive(i)
  BY <1>8, PrivReceiveSeen
<1> QED BY <1>5, <1>6, <1>7, <1>8

\* What the LLC and the memory do leaves the L1s alone.
LEMMA DirectorySeen ==
  ASSUME Mapped, Mapped', UNCHANGED privVars
  PROVE  UNCHANGED l1Vars
<1>1. priv' = priv /\ privGolden' = privGolden
  BY DEF privVars
<1>2. block' = block
  BY <1>1 DEF Mapped, BlockOf
<1>3. mshr' = mshr
  BY <1>1 DEF Mapped, MshrOf
<1> QED BY <1>1, <1>2, <1>3 DEF Mapped, l1Vars

\* The steps of the whole.
LEMMA PrivSeen ==
  ASSUME Seeing, [privNext /\ ~IndexPutReplacing]_<<net, privVars, llcVars>>
  PROVE  Kept
<1>1. MoesiInv /\ Mapped /\ Mapped'
  BY DEF Seeing
<1>2. CASE /\ \E i \in L1s : PrivCPU(i) \/ PrivFetch(i) \/ PrivIndex(i) \/ PrivReceive(i)
           /\ UNCHANGED llcVars
  BY <1>2, NodeSeen
<1>3. CASE /\ \/ (\E r \in Arriving(LLC) : P1Receive(r)) \/ P1Dispatch \/ P2Index
              \/ (\E k \in 1 .. Len(process_buf) : P3Process(k))
              \/ (\E r \in Arriving(MEM) : MemHandle(r))
           /\ UNCHANGED privVars /\ ~IndexPutReplacing
  <2>1. UNCHANGED l1Vars
    BY <1>1, <1>3, DirectorySeen
  <2>2. ASSUME P2Index PROVE Kept
    BY <1>1, <1>3, <2>1, <2>2, IndexGetSKeeps, IndexGetMKeeps, IndexPutCleanKeeps, IndexPutDirtyKeeps, WritebackKeeps
       DEF P2Index
  <2> QED BY <1>1, <1>3, <2>1, <2>2, ReceiveRequestKeeps, ReceiveAckKeeps, DispatchKeeps, ProcessKeeps, MemHandleKeeps
<1>4. CASE UNCHANGED <<net, privVars, llcVars>>
  <2>1. UNCHANGED l1Vars
    BY <1>1, <1>4, DirectorySeen
  <2>2. UNCHANGED <<net, block, mshr, golden, llcVars>>
    BY <1>4, <2>1 DEF l1Vars
  <2> QED BY <1>1, <2>2, Unmoved
<1> QED BY <1>2, <1>3, <1>4 DEF privNext

\* At first.
LEMMA PrivSeenAtFirst ==
  ASSUME NetInit, LLCInit, privInit, Mapped
  PROVE  Init
<1>1. priv = [i \in L1s |-> PrivNode] /\ privGolden = [l \in Lines |-> 0]
  BY DEF privInit
<1>2. ASSUME NEW l \in Lines PROVE BlockOf(PrivNode, l) = Absent /\ MshrOf(PrivNode, l) = NoMSHR
  <2> DEFINE n == PrivNode
  <2>1. n.l2 = [k \in Lines |-> NoL2] /\ n.mshr = [k \in Lines |-> NoEntryL2] /\ n.l1d = [k \in Lines |-> NoL1D]
    BY DEF PrivNode
  <2> HIDE DEF n
  <2>2. n.l2[l] = NoL2 /\ n.mshr[l] = NoEntryL2 /\ n.l1d[l] = NoL1D
    BY <2>1
  <2>3. BlockOf(n, l) = Absent
    BY <2>2 DEF BlockOf, NoL2, NoL1D, Absent
  <2>4. MshrOf(n, l) = NoMSHR
    BY <2>2 DEF MshrOf, NoEntryL2, NoMSHR
  <2> QED BY <2>3, <2>4 DEF n
<1>3. block = [i \in L1s |-> [l \in Lines |-> Absent]]
  <2>1. block = [i \in L1s |-> [l \in Lines |-> BlockOf(PrivNode, l)]]
    <3> HIDE DEF PrivNode
    <3> QED BY <1>1 DEF Mapped
  <2> HIDE DEF PrivNode
  <2> QED BY <1>2, <2>1
<1>4. mshr = [i \in L1s |-> [l \in Lines |-> NoMSHR]]
  <2>1. mshr = [i \in L1s |-> [l \in Lines |-> MshrOf(PrivNode, l)]]
    <3> HIDE DEF PrivNode
    <3> QED BY <1>1 DEF Mapped
  <2> HIDE DEF PrivNode
  <2> QED BY <1>2, <2>1
<1> QED BY <1>1, <1>3, <1>4 DEF Init, L1Init, Mapped

\* A line that a data cache may write is in no other node.
WritersAlone ==
  \A i \in L1s : \A l \in InL1D(priv[i]) :
    priv[i].l1d[l].write => \A j \in L1s \ {i} :
      l \notin InL1D(priv[j]) \cup InL2(priv[j]) \cup priv[j].l1i

\* The invariant of the nodes and of the directory under them.
PrivMoesiInv ==
  /\ PrivInv /\ MoesiInv
  /\ \A i \in L1s : ~priv[i].aborts
  /\ privLost = {}

\* The directory's one writer is the only node that has the line.
LEMMA AloneToWrite ==
  ASSUME PrivInv, MoesiInv, Mapped, NEW i \in L1s, NEW l \in Lines, priv[i].l1d[l].write, NEW j \in L1s \ {i}
  PROVE  ~priv[j].l1d[l].in /\ l \notin priv[j].l1i /\ priv[j].l2[l].st = "I"
<1> DEFINE n == priv[i]
           o == priv[j]
           s == View(l)
<1>1. NodeInv(n) /\ NodeInv(o) /\ LineOK(n, l) /\ LineOK(o, l) /\ o \in Node
  BY DEF PrivInv, NodesInv, NodeInv
<1>2. /\ block[i][l] = BlockOf(n, l) /\ block[j][l] = BlockOf(o, l) /\ mshr[j][l] = MshrOf(o, l)
  BY MappedAt
<1>3. /\ LineInv(l, s) /\ \A k \in L1s : s.cache[k] = block[k][l] /\ s.mshr[k] = mshr[k][l]
  BY MoesiLine, ViewAt
<1> HIDE DEF n, o, s
<1>4. MshrOf(o, l).st = o.mshr[l].st
  BY <1>1, SeenFacts
<1>5. block[i][l].st \in {"E", "M"}
  <2>1. n.l1d[l].write
    BY DEF n
  <2>2. n.l2[l].st \in {"E", "M"}
    BY <1>1, <2>1 DEF LineOK, Copied
  <2> QED BY <1>2, <2>2 DEF BlockOf
<1>6. Exclusive(s, i)
  BY <1>3, <1>5 DEF Exclusive
<1>7. ~Holds(s, j)
  BY <1>3, <1>6 DEF LineInv, OneWriter
<1>8. block[j][l].st = "I" /\ mshr[j][l].st \notin {"STOM", "OTOM"}
  BY <1>3, <1>7 DEF Holds
<1>9. ~o.l1d[l].dirty /\ o.l2[l].st = "I"
  <2>1. ~o.l1d[l].dirty
    BY <1>2, <1>8 DEF BlockOf
  <2> QED BY <1>2, <1>8, <2>1 DEF BlockOf
<1>10. ~o.l1d[l].in /\ l \notin o.l1i
  BY <1>1, <1>2, <1>4, <1>8, <1>9 DEF LineOK, Included
<1> QED BY <1>9, <1>10 DEF o

\* Nobody else waits with a reservation for a line that is stored to.
LEMMA NothingLost ==
  ASSUME Seeing, privLost = {}, NEW i \in L1s,
         PrivCPU(i) \/ PrivFetch(i) \/ PrivIndex(i) \/ PrivReceive(i)
  PROVE  privLost' = {}
<1>1. NodesInv /\ PrivInv /\ MoesiInv /\ Mapped
  BY DEF Seeing, PrivInv
<1>2. ASSUME Idles(i) PROVE privLost' = {}
  BY <1>2 DEF Idles
<1>3. ASSUME NEW l \in Lines, StoresIn(i, l) PROVE privLost' = {}
  <2>1. priv[i].l1d[l].write /\ privLost' = {j \in L1s : priv[j].reserved = l} \ {i}
    BY <1>3 DEF StoresIn
  <2>2. ASSUME NEW j \in L1s \ {i} PROVE priv[j].reserved # l
    <3>1. ~priv[j].l1d[l].in
      BY <1>1, <2>1, AloneToWrite
    <3>2. LineOK(priv[j], l)
      BY <1>1 DEF NodesInv, NodeInv
    <3> QED BY <3>1, <3>2 DEF LineOK
  <2> QED BY <2>1, <2>2
<1>4. CASE PrivCPU(i)
  BY <1>1, <1>2, <1>3, <1>4, CPUMoves
<1>5. CASE PrivFetch(i)
  BY <1>1, <1>2, <1>5, FetchMoves
<1>6. CASE PrivIndex(i) \/ PrivReceive(i)
  BY <1>6 DEF PrivIndex, PrivReceive
<1> QED BY <1>4, <1>5, <1>6

\* The invariant is inductive.
LEMMA PrivMoesiKeeps ==
  ASSUME PrivMoesiInv, Mapped, Mapped', [privNext /\ ~IndexPutReplacing]_<<net, privVars, llcVars>>
  PROVE  PrivMoesiInv' /\ Kept
<1>1. Seeing
  BY DEF Seeing, PrivMoesiInv
<1>2. Kept /\ MoesiInv'
  BY <1>1, PrivSeen DEF Kept
<1>3. PrivInv'
  BY PrivNextKeeps DEF PrivMoesiInv
<1>4. (\A i \in L1s : ~priv'[i].aborts) /\ privLost' = {}
  <2>1. CASE \E i \in L1s : (PrivCPU(i) \/ PrivFetch(i) \/ PrivIndex(i) \/ PrivReceive(i)) /\ UNCHANGED llcVars
    BY <1>1, <2>1, NodeLives, NothingLost DEF PrivMoesiInv
  <2>2. CASE UNCHANGED privVars
    BY <2>2 DEF PrivMoesiInv, privVars
  <2> QED BY <2>1, <2>2 DEF privNext
<1> QED BY <1>2, <1>3, <1>4 DEF PrivMoesiInv

\* It holds at first, when every copy is the latest.
LEMMA PrivMoesiStarts ==
  ASSUME NetInit, LLCInit, privInit, Mapped
  PROVE  PrivMoesiInv /\ LinesFresh
<1>1. Init
  BY PrivSeenAtFirst
<1>2. priv = [i \in L1s |-> PrivNode] /\ privLost = {}
  BY DEF privInit
<1>3. \A i \in L1s : ~priv[i].aborts
  BY <1>2 DEF PrivNode
<1> QED BY <1>1, <1>2, <1>3, PrivStarts, InitKeeps, FreshAtFirst DEF PrivMoesiInv

\* What the data caches hold is what the L1s of the directory hold.
LEMMA PrivFresh ==
  ASSUME PrivInv, MoesiInv, Mapped
  PROVE  WritersAlone /\ (ReadsLatest => PrivReadsLatest)
<1>1. WritersAlone
  <2> SUFFICES ASSUME NEW i \in L1s, NEW l \in InL1D(priv[i]), priv[i].l1d[l].write, NEW j \in L1s \ {i}
               PROVE  l \notin InL1D(priv[j]) \cup InL2(priv[j]) \cup priv[j].l1i
    BY DEF WritersAlone
  <2>1. l \in Lines
    BY DEF InL1D
  <2> QED BY <2>1, AloneToWrite DEF InL1D, InL2
<1>2. ASSUME ReadsLatest, NEW i \in L1s, NEW l \in InL1D(priv[i]) PROVE priv[i].l1d[l].data = privGolden[l]
  <2> DEFINE n == priv[i]
  <2>1. l \in Lines /\ n.l1d[l].in
    BY DEF InL1D
  <2>2. n \in Node /\ LineOK(n, l)
    BY <2>1 DEF PrivInv, NodesInv, NodeInv
  <2>3. block[i][l] = BlockOf(n, l) /\ mshr[i][l] = MshrOf(n, l) /\ golden = privGolden
    BY <2>1, MappedAt DEF Mapped
  <2> HIDE DEF n
  <2>4. MshrOf(n, l).st = n.mshr[l].st /\ MshrOf(n, l).data = n.mshr[l].data
    BY <2>1, <2>2, SeenFacts
  <2>5. /\ BlockOf(n, l).st # "I" => BlockOf(n, l).data = privGolden[l]
        /\ MshrOf(n, l).st \in {"STOM", "OTOM"} => MshrOf(n, l).data = privGolden[l]
    BY <1>2, <2>1, <2>3 DEF ReadsLatest
  <2>6. CASE n.l1d[l].dirty
    BY <2>5, <2>6 DEF BlockOf, n
  <2>7. CASE ~n.l1d[l].dirty
    <3>1. BlockOf(n, l).st = n.l2[l].st /\ BlockOf(n, l).data = n.l2[l].data
      BY <2>7 DEF BlockOf
    <3>2. n.l1d[l].data = IF n.l2[l].st # "I" THEN n.l2[l].data ELSE n.mshr[l].data
      BY <2>1, <2>2, <2>7 DEF LineOK, Copied
    <3>3. n.l2[l].st # "I" \/ n.mshr[l].st \in {"STOM", "OTOM"}
      BY <2>1, <2>2 DEF LineOK, Included
    <3>4. n.l1d[l].data = privGolden[l]
      BY <2>4, <2>5, <3>1, <3>2, <3>3
    <3> QED BY <3>4 DEF n
  <2> QED BY <2>6, <2>7
<1> QED BY <1>1, <1>2 DEF WritersAlone, PrivReadsLatest

\* The executions in which the block array of the LLC has room for every write-back.
PrivUnreplaced == NetInit /\ LLCInit /\ privInit /\ [][privNext /\ ~IndexPutReplacing]_<<net, privVars, llcVars>>

\* No step of the nodes or the LLC breaks it.
LEMMA MappedInvariant == PrivUnreplaced /\ []Mapped => []PrivMoesiInv
<1>1. NetInit /\ LLCInit /\ privInit /\ Mapped => PrivMoesiInv
  BY PrivMoesiStarts
<1>2. PrivMoesiInv /\ Mapped /\ Mapped' /\ [privNext /\ ~IndexPutReplacing]_<<net, privVars, llcVars>> => PrivMoesiInv'
  BY PrivMoesiKeeps
<1> QED BY <1>1, <1>2, PTL DEF PrivUnreplaced

\* What no other node has while one may write it, the rights of the L1s agree in.
SoleWriter ==
  \A i \in L1s : \A l \in Lines :
    priv[i].l1d[l].write =>
      \A j \in L1s \ {i} : ~priv[j].l1d[l].in /\ ~priv[j].l1d[l].write /\ l \notin priv[j].l1i

\* Every step is one of the line protocol of MoesiLine, whose invariant holds, and of one
\* node of which no other has what it writes.
LEMMA MappedMoves ==
  PrivUnreplaced /\ []Mapped => /\ [](MoesiInv /\ SoleWriter /\ PrivInv)
                                /\ [][LinesMove /\ OneMoves]_<<net, privVars, llcVars>>
<1>1. PrivMoesiInv /\ Mapped => MoesiInv /\ SoleWriter /\ PrivInv
  <2> SUFFICES ASSUME PrivMoesiInv, Mapped, NEW i \in L1s, NEW l \in Lines,
                      priv[i].l1d[l].write, NEW j \in L1s \ {i}
               PROVE  ~priv[j].l1d[l].in /\ ~priv[j].l1d[l].write /\ l \notin priv[j].l1i
    BY DEF SoleWriter, PrivMoesiInv
  <2>1. ~priv[j].l1d[l].in /\ l \notin priv[j].l1i
    BY AloneToWrite DEF PrivMoesiInv
  <2>2. LineOK(priv[j], l)
    BY DEF PrivMoesiInv, PrivInv, NodesInv, NodeInv
  <2>3. ~priv[j].l1d[l].write
    BY <2>1, <2>2 DEF LineOK, NoL1D
  <2> QED BY <2>1, <2>3
<1>2. PrivMoesiInv /\ Mapped /\ Mapped' /\ [privNext /\ ~IndexPutReplacing]_<<net, privVars, llcVars>>
      => LinesMove /\ OneMoves
  BY PrivMoesiKeeps, OneNodeMoves DEF Kept, PrivMoesiInv
<1> QED BY <1>1, <1>2, MappedInvariant, PTL DEF PrivUnreplaced

\* No assertion of a node fails, reservations end in time, writers are alone.
LEMMA MappedNeverAbort == PrivUnreplaced /\ []Mapped => [](PrivNeverAborts /\ PrivReservation /\ WritersAlone)
<1>1. PrivMoesiInv => PrivNeverAborts /\ PrivReservation
  BY DEF PrivMoesiInv, PrivNeverAborts, PrivReservation
<1>2. PrivMoesiInv /\ Mapped => WritersAlone
  BY PrivFresh DEF PrivMoesiInv
<1> QED BY <1>1, <1>2, MappedInvariant, PTL

\* The data caches hold what was stored last.
LEMMA MappedReadLatest ==
  PrivUnreplaced /\ []Mapped /\ [][NoStaleWriteBack]_<<net, privVars, llcVars>> => []PrivReadsLatest
<1>1. NetInit /\ LLCInit /\ privInit /\ Mapped => LinesFresh
  BY PrivMoesiStarts
<1>2. /\ PrivMoesiInv /\ Mapped /\ Mapped' /\ LinesFresh /\ [privNext /\ ~IndexPutReplacing]_<<net, privVars, llcVars>>
      /\ [NoStaleWriteBack]_<<net, privVars, llcVars>>
      => LinesFresh'
  <2> SUFFICES ASSUME PrivMoesiInv, Mapped, Mapped', LinesFresh,
                      [privNext /\ ~IndexPutReplacing]_<<net, privVars, llcVars>>,
                      [NoStaleWriteBack]_<<net, privVars, llcVars>>
               PROVE  LinesFresh'
    OBVIOUS
  <2>1. LinesMove /\ LinesInv
    BY PrivMoesiKeeps DEF Kept, PrivMoesiInv, MoesiInv
  <2>2. CASE NoStaleWriteBack
    BY <2>1, <2>2, LinesStayFresh
  <2>3. CASE UNCHANGED <<net, privVars, llcVars>>
    <3>1. UNCHANGED l1Vars
      BY <2>3, DirectorySeen
    <3>2. UNCHANGED <<net, block, mshr, golden, llcVars>>
      BY <2>3, <3>1 DEF l1Vars
    <3>3. \A l \in Lines : View(l)' = View(l)
      BY <3>2, Unmoved DEF PrivMoesiInv
    <3> QED BY <3>3 DEF LinesFresh
  <2> QED BY <2>2, <2>3
<1>3. PrivMoesiInv /\ Mapped /\ LinesFresh => PrivReadsLatest
  BY PrivFresh, FreshReads DEF PrivMoesiInv
<1> QED BY <1>1, <1>2, <1>3, MappedInvariant, PTL DEF PrivUnreplaced

\* With room for every line in the LLC, no block of it is replaced.
LEMMA MappedRoomSuffices ==
  ASSUME RoomForAll
  PROVE  privSpec /\ []Mapped => PrivUnreplaced
<1>1. NetInit /\ LLCInit /\ privInit /\ Mapped => PrivMoesiInv
  BY PrivMoesiStarts
<1>2. PrivMoesiInv /\ [privNext]_<<net, privVars, llcVars>> => [privNext /\ ~IndexPutReplacing]_<<net, privVars, llcVars>>
  BY NoneReplaced DEF PrivMoesiInv
<1>3. PrivMoesiInv /\ Mapped /\ Mapped' /\ [privNext /\ ~IndexPutReplacing]_<<net, privVars, llcVars>> => PrivMoesiInv'
  BY PrivMoesiKeeps
<1> QED BY <1>1, <1>2, <1>3, PTL DEF privSpec, PrivUnreplaced

\* Two nodes write back no stale line: what they hold is the latest always.
LEMMA MappedTwoReadLatest ==
  ASSUME NumL1 <= 2
  PROVE  PrivUnreplaced /\ []Mapped => []PrivReadsLatest
<1>1. PrivMoesiInv => NoStaleWriteBack
  BY TwoNeverStale DEF PrivMoesiInv, MoesiInv, LinesInv, NoStaleWriteBack
<1> QED BY <1>1, MappedInvariant, MappedReadLatest, PTL
=============================================================================
