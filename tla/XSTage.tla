------------------------------- MODULE XSTage -------------------------------
(***************************************************************************)
(* The tables behind the directions and the targets of a pack that the     *)
(* branch prediction unit (xsbpu.cpp) knows: TAGE, with a base table and   *)
(* tagged tables by longer and longer histories, the statistical corrector *)
(* SC beside it, and ITTAGE for the targets of indirect jumps.  The        *)
(* program is one pack in a loop: branches, then a jump by a register.     *)
(* After a number of rounds of any kind it always goes the same way.       *)
(*                                                                         *)
(* As there is one pack its address, which the code mixes into every index *)
(* and tag, is left out.  Rows and tags are sets of bits.                  *)
(***************************************************************************)
EXTENDS Integers, SequencesExt

CONSTANTS
  TageHist,    \* tage_hist_len, the length of history by table
  TageMax,     \* a tagged counter is -TageMax-1 .. TageMax
  TageWays,    \* tage_banks, ittage_banks: the entries of a row
  TageTicks,   \* tage_bank_tick_ctr_max_value, ittage_tick_ctr_max_value
  ScHist,      \* sc_fh_len
  ScMax,       \* an SC counter is -ScMax-1 .. ScMax
  ScThresholds,\* what sc_bank_thres and sc_bank_ctr, which nothing sets, may hold: [thres, ctr]
  ItHist,      \* ittage_hist_len
  TageRounds,  \* bound: rounds of any kind before the program settles
  TageHits,    \* whether tags drawn at the start may be ones a lookup computes
  TagePatience \* rounds after which a program that has settled must be predicted

VARIABLES
  tage,  \* t0, alt (use_alt_cnt), rows by table and index: tag -> [pred, u], tick
  sc,    \* rows by table and index: a counter by branch; thres and ctr by branch
  itt,   \* rows by table and index: tag -> [target, u], tick
  loop   \* the program: hist, rounds left before it settles (or negative, since), the
         \* number of branches, the directions it settles on
tageVars == <<tage, sc, itt, loop>>

Brs == 1 .. 2   \* XSIFU_BRANCH_CNT
\* INC and DEC, counters that stay within their limits.
Inc(n, max) == IF n < max THEN n + 1 ELSE n
Dec(n, min) == IF n > min THEN n - 1 ELSE n
Toward(n, taken, min, max) == IF taken THEN Inc(n, max) ELSE Dec(n, min)
\* A number of counters that move with the directions that are known.
AllToward(c, ways, min, max) == [k \in Brs |-> IF k \in DOMAIN ways THEN Toward(c[k], ways[k], min, max) ELSE c[k]]

Bits == 1   \* of an index and of a tag
\* The fold of the last directions: bit b is the parity of every Bits-th of them.
FoldOf(hist, len) ==
  {b \in 0 .. Bits - 1 : Cardinality({k \in 1 .. len : hist[k] /\ (k - 1) % Bits = b}) % 2 = 1}
Rows == SUBSET (0 .. Bits - 1)
\* A tag of the 64 bits drawn at the start, which is none of those a lookup computes.
Drawn(k) == {Bits + k}
FirstTags == IF TageHits THEN {{Drawn(k) : k \in 1 .. TageWays}, {Drawn(k) : k \in 2 .. TageWays} \cup {{}}}
             ELSE {{Drawn(k) : k \in 1 .. TageWays}}
\* Every table's tag is assigned to the first, so that the others' are zero.
TagOf(hist, lens) == [t \in DOMAIN lens |-> IF t = 1 THEN FoldOf(hist, lens[Len(lens)]) ELSE {}]
Indexing(hist, lens) == [row |-> [t \in DOMAIN lens |-> FoldOf(hist, lens[t])], tag |-> TagOf(hist, lens)]
RowOf(rows, ix, t) == rows[t][ix.row[t]]
Hits(rows, ix) == {t \in DOMAIN ix.row : ix.tag[t] \in DOMAIN RowOf(rows, ix, t)}
EntryOf(rows, ix, t) == RowOf(rows, ix, t)[ix.tag[t]]
SetTagged(rows, ix, t, e) == [rows EXCEPT ![t][ix.row[t]][ix.tag[t]] = e]

\* An entry whose place is free is drawn and replaced: of table t alone, counted once for
\* every table from it on.  The tag may be there already, then the row has one less.
Unused(row) == {g \in DOMAIN row : row[g].u = 0}
Cleared(rows) == [t \in DOMAIN rows |-> [r \in Rows |-> [g \in DOMAIN rows[t][r] |-> [rows[t][r][g] EXCEPT !.u = 0]]]]
Alloc(T, ix, t, e) ==
  LET row == RowOf(T.rows, ix, t)
      free == Cardinality(Unused(row))
      tick == T.tick + (Len(ix.row) - t + 1) * (free - (Cardinality(DOMAIN row) - free))
      rows == IF tick >= TageTicks THEN Cleared(T.rows) ELSE T.rows
      left(g) == Restrict(RowOf(rows, ix, t), DOMAIN row \ {g})
      placed(g) == IF ix.tag[t] \in DOMAIN left(g) THEN left(g) ELSE left(g) @@ ix.tag[t] :> e
      T1 == [T EXCEPT !.rows = rows, !.tick = IF tick < 0 \/ tick >= TageTicks THEN 0 ELSE tick]
  IN IF free = 0 THEN {T1} ELSE {[T1 EXCEPT !.rows[t][ix.row[t]] = placed(g)] : g \in Unused(row)}
-----------------------------------------------------------------------------
(* TAGE *)
Weak(v) == v \in {-1, 0}
\* Only as many tables are looked at as a pack has branches.
TageProvider(T, ix) == Hits(T.rows, ix) \cap Brs
tage_result_of(T, ix) ==
  LET hit == TageProvider(T, ix)
      e == EntryOf(T.rows, ix, Max(hit))
  IN IF hit = {} THEN T.t0
     ELSE IF T.alt >= 0 /\ \E k \in Brs : Weak(e.pred[k]) THEN T.t0 ELSE e.pred

NewTagged(ways) == [u |-> 0, pred |-> [k \in Brs |-> IF k \in DOMAIN ways /\ ~ways[k] THEN -1 ELSE 0]]
Upward(c) == c >= 0
AllRight(c, ways) == \A k \in DOMAIN ways : Upward(c[k]) = ways[k]
\* Nothing but the base table was hit: a new entry for every branch it has wrong.
BaseOnly(T, ix, ways) ==
  LET wrong == {k \in DOMAIN ways : Upward(T.t0[k]) # ways[k]}
      once == Alloc(T, ix, 1, NewTagged(ways))
  IN CASE Cardinality(wrong) = 0 -> {T}
       [] Cardinality(wrong) = 1 -> once
       [] OTHER -> UNION {Alloc(A, ix, 1, NewTagged(ways)) : A \in once}
\* The longest hit learns whether it is of use, and a longer one is tried for what it has wrong.
Provided(T, ix, ways) ==
  LET rows == FoldLeft(LAMBDA rs, t : SetTagged(rs, ix, t,
                 [EntryOf(rs, ix, t) EXCEPT !.pred = AllToward(@, ways, -TageMax - 1, TageMax)]),
                 T.rows, SetToSeq(Hits(T.rows, ix)))
      tn == Max(Hits(T.rows, ix))
      e == EntryOf(rows, ix, tn)
      same == \A k \in DOMAIN ways : Upward(T.t0[k]) = Upward(e.pred[k])
      right == AllRight(e.pred, ways)
      strong == \A k \in DOMAIN ways : ~Weak(e.pred[k])
      T1 == [T EXCEPT !.rows = rows]
      longer(A) == IF tn < Len(TageHist) THEN Alloc(A, ix, tn + 1, NewTagged(ways)) ELSE {A}
      use(A, n) == [A EXCEPT !.rows = SetTagged(@, ix, tn, [EntryOf(@, ix, tn) EXCEPT !.u = n])]
  IN CASE same /\ AllRight(T.t0, ways) -> {T1}
       [] same /\ ~AllRight(T.t0, ways) -> longer(T1)
       [] ~same /\ right -> {[use(T1, Inc(e.u, 3)) EXCEPT !.alt = IF strong THEN Dec(@, -TageMax - 1) ELSE @]}
       [] OTHER -> {[A EXCEPT !.alt = IF strong THEN Inc(@, TageMax) ELSE @] : A \in longer(use(T1, Dec(e.u, 0)))}
update_tage(T, ix, ways) ==
  LET T1 == [T EXCEPT !.t0 = AllToward(@, ways, -2, 1)]
  IN IF Hits(T.rows, ix) = {} THEN BaseOnly(T1, ix, ways) ELSE Provided(T1, ix, ways)

(* SC: the tables by history, without tags; only the first branch's counters are moved. *)
ScRow(hist, t) == FoldOf(hist, ScHist[t])
sc_result_of(S, hist) ==
  [k \in Brs |-> FoldLeft(LAMBDA sum, t : sum + 2 * S.rows[t][ScRow(hist, t)][k] + 1, 0, [t \in DOMAIN ScHist |-> t])]
update_sc(S, hist, ways) ==
  LET moved(n) == FoldLeft(LAMBDA c, way : Toward(c, way, -ScMax - 1, ScMax), n, ways)
  IN [S EXCEPT !.rows = [t \in DOMAIN ScHist |-> [@[t] EXCEPT ![ScRow(hist, t)][1] = moved(@)]]]

Summed(tc, sc1) == [k \in Brs |-> 8 * (2 * tc[k] + 1) + sc1[k]]
Magnitude(n) == IF n < 0 THEN -n ELSE n
\* The threshold follows how well the sum does when it is just below it.
Threshold(S, sum, ways) ==
  LET close(k) == k \in DOMAIN ways /\ Magnitude(sum[k]) \in S.thres[k] - 4 .. S.thres[k] - 2
      good(k) == IF ways[k] THEN sum[k] > 0 /\ sum[k] > S.thres[k] ELSE sum[k] < 0 /\ sum[k] < -S.thres[k]
      ctr == [k \in Brs |-> IF ~close(k) THEN S.ctr[k] ELSE IF good(k) THEN Inc(S.ctr[k], 31) ELSE Dec(S.ctr[k], 0)]
      full(k) == close(k) /\ ctr[k] >= 31
      empty(k) == close(k) /\ ctr[k] <= 0
  IN [S EXCEPT
        !.ctr = [k \in Brs |-> IF full(k) \/ empty(k) THEN 16 ELSE ctr[k]],
        !.thres = [k \in Brs |-> IF full(k) THEN Inc(Inc(@[k], 31), 31)
                                 ELSE IF empty(k) THEN Dec(Dec(@[k], 0), 0) ELSE @[k]]]
\* do_pred: the sum, or TAGE alone when the sum is within the threshold.
Direction(T, S, hist) ==
  LET tc == tage_result_of(T, Indexing(hist, TageHist))
      sum == Summed(tc, sc_result_of(S, hist))
      decides(k) == IF sum[k] >= 0 THEN sum[k] > S.thres[k] ELSE sum[k] < -S.thres[k]
  IN [k \in Brs |-> IF decides(k) THEN sum[k] >= 0 ELSE 2 * tc[k] + 1 >= 0]

(* ITTAGE *)
Useful(I, ix) == {t \in Hits(I.rows, ix) : EntryOf(I.rows, ix, t).u > 0}
pred_ittage(I, hist) ==
  LET ix == Indexing(hist, ItHist)
  IN IF Useful(I, ix) = {} THEN 0 ELSE EntryOf(I.rows, ix, Max(Useful(I, ix))).target
ItLearnsOnce(e, target) ==   \* (faulty: a target that has been useful stays)
  IF e.target = target THEN [e EXCEPT !.u = Inc(@, 3)] ELSE IF e.u = 0 THEN [target |-> target, u |-> 1] ELSE e
ItLearns(e, target) ==
  IF e.target = target THEN [e EXCEPT !.u = Inc(@, 3)]
  ELSE IF e.u = 0 THEN [target |-> target, u |-> 1] ELSE [e EXCEPT !.u = Dec(@, 0)]
update_ittage(I, hist, target) ==
  LET ix == Indexing(hist, ItHist)
      tn == Max(Hits(I.rows, ix))
      learn(rows, t) == SetTagged(rows, ix, t, ItLearns(EntryOf(rows, ix, t), target))
      \* what was used instead of the longest learns too
      rows == FoldLeft(learn, I.rows, SetToSeq({tn} \cup (IF EntryOf(I.rows, ix, tn).u = 0 THEN Useful(I, ix) ELSE {})))
      I1 == [I EXCEPT !.rows = rows]
  IN IF Hits(I.rows, ix) = {} THEN {I}
     ELSE IF EntryOf(I.rows, ix, tn).target # target /\ tn < Len(ItHist)
          THEN Alloc(I1, ix, tn + 1, [target |-> target, u |-> 1]) ELSE {I1}
-----------------------------------------------------------------------------
\* The directions of a round: branches up to the first that is taken.
Rounds(n) == {w \in UNION {[1 .. m -> BOOLEAN] : m \in 1 .. n} :
                /\ \A k \in DOMAIN w : w[k] => k = Len(w)
                /\ ~w[Len(w)] => Len(w) = n}
Through(ways) == ~ways[Len(ways)]
HistLen == Max(ToSet(TageHist) \cup ToSet(ScHist) \cup ToSet(ItHist))

tageInit ==
  /\ tage = [t0 |-> [k \in Brs |-> 0], alt |-> 0, tick |-> 0, rows |-> [t \in DOMAIN TageHist |->
               [r \in Rows |-> [g \in {Drawn(k) : k \in 1 .. TageWays} |-> [u |-> 0, pred |-> [k \in Brs |-> 0]]]]]]
  /\ \E s \in ScThresholds :
       sc = [rows |-> [t \in DOMAIN ScHist |-> [r \in Rows |-> [k \in Brs |-> 0]]],
             thres |-> [k \in Brs |-> s.thres], ctr |-> [k \in Brs |-> s.ctr]]
  /\ \E tags \in [DOMAIN ItHist -> FirstTags] :
       itt = [tick |-> 0, rows |-> [t \in DOMAIN ItHist |-> [r \in Rows |-> [g \in tags[t] |-> [target |-> 0, u |-> 0]]]]]
  /\ \E n \in Brs : \E w \in Rounds(n) :
       loop = [hist |-> [k \in 1 .. HistLen |-> FALSE], left |-> TageRounds, brs |-> n, way |-> w]

\* One of the starts.
StartsPlain == loop.way = <<TRUE>> /\ loop.brs = 1 /\ sc.thres[1] = Min({s.thres : s \in ScThresholds})
               /\ \A t \in DOMAIN ItHist : {} \notin DOMAIN itt.rows[t][{}]

\* A branch predicted wrong restarts the core, so that the rest of the round is in another
\* pack.  Commitment reports the directions up to there, or all; nothing of a branch that
\* was rightly predicted to be taken and is not the last.
Misses(ways) == {k \in DOMAIN ways : Direction(tage, sc, loop.hist)[k] # ways[k]}
Reported(ways) ==
  IF Misses(ways) # {} THEN SubSeq(ways, 1, Min(Misses(ways))) ELSE IF Len(ways) = loop.brs THEN ways ELSE <<>>

\* do_update_br and do_update_jalr of a round, with the history it was predicted with.
UpdatesBr(ways) ==
  LET ix == Indexing(loop.hist, TageHist)
      sum == Summed(tage_result_of(tage, ix), sc_result_of(sc, loop.hist))
  IN IF ways = <<>> THEN UNCHANGED <<tage, sc>>
     ELSE /\ tage' \in update_tage(tage, ix, ways)
          /\ sc' = Threshold(update_sc(sc, loop.hist, ways), sum, ways)
UpdatesJalr(ways, target) ==
  itt' \in IF Misses(ways) = {} /\ Through(ways) THEN update_ittage(itt, loop.hist, target) ELSE {itt}

\* The other pack may or may not know its branch.
Round(ways, target) ==
  /\ UpdatesBr(Reported(ways)) /\ UpdatesJalr(ways, target)
  /\ \E h \in {ways, IF Misses(ways) = {} THEN ways ELSE Reported(ways)} :
       loop' = [loop EXCEPT !.hist = SubSeq(Reverse(h) \o @, 1, HistLen), !.left = Max({@ - 1, -TagePatience})]
\* The jump settles on target 1.
tageNext ==
  IF loop.left <= 0 THEN Round(loop.way, 1)
  ELSE \E ways \in Rounds(loop.brs), target \in 1 .. 2 : Round(ways, target)

\* A pack that always goes one way is predicted to go it after some rounds, and from then on,
\* whatever it did before and whatever the thresholds, which nothing sets, were; and the
\* table of targets, if it gives one, gives the right one.
TageLearns ==
  loop.left = -TagePatience =>
    /\ Misses(loop.way) = {}
    /\ Through(loop.way) => pred_ittage(itt, loop.hist) \in {0, 1}
=============================================================================
