----------------------------- MODULE XiangShan -----------------------------
(***************************************************************************)
(* The out of order core as a simulated object: a tick is all that         *)
(* on_current_tick does, in its order, and then all of apply_next_tick.    *)
(* Another core, or the host thread that waited, takes an idle core on     *)
(* again in between.                                                       *)
(***************************************************************************)
EXTENDS XSBack

VARIABLES
  xs,      \* the core with its caches and its system; see XSTypes
  xsodd,   \* how often something went wrong so far
  xsquiet  \* (history) ticks since the last instruction committed

xsVars == <<xs, xsodd, xsquiet>>

\* on_current_tick: the stores that have committed go on even on a halted core.
PipelineOn(s, w) ==
  lsu_on_current_tick(exu_on_current_tick(cur_mem_disp2(cur_int_disp2(cur_commit(
    _cur_dispatch(_cur_rename(_cur_decode(ifu_on_current_tick(s, w)))), w.how)))))
StoresOn(s, w) == IF s.halt THEN s ELSE PipelineOn(s, w)
xs_on_current_tick(s, w) == StoresOn(_cur_write_commited_store(cache_on_current_tick(s, w.late, w.answer)), w)

xs_redirect(s) == [s EXCEPT !.glob = s.saved, !.saved = <<>>]

\* apply_next_tick: a redirection of the whole core goes before those of its own
\* instructions, and an instruction's before the front end's.
ForwardPipeline(s) ==
  IF s.halt THEN s
  ELSE _apl_forward_pipeline(apl_bpu_redirect(apl_reorder_redirect(apl_jmp_redirect(apl_sys_redirect(s)))))
Halted(s, given) == [s EXCEPT !.halt = @ \/ given, !.applyHalt = FALSE]
xs_apply_next_tick(s) ==
  ForwardPipeline(apl_global_redirect(Halted(always_apply_next_tick(cache_apply_next_tick(s)), s.applyHalt)))

\* What may be different in a tick: a cache that is busy, lacks the line or answers late, a
\* prediction without the buffer.  Each counts where there is something to be late with.
Odd(s) ==
  LET asked == s.stin.out # <<>> \/ s.ldin.out # <<>> \/ s.amoin.out # <<>>
  IN {o \in s.late :
        CASE o \in {"st_busy", "st_miss"} -> s.stin.out # <<>>
          [] o \in {"ld_busy", "ld_miss"} -> s.ldin.out # <<>>
          [] o = "amo_busy"   -> s.amoin.out # <<>>
          [] o = "line_wait"  -> s.missing # {}
          [] o = "cache_wait" -> asked
          [] o = "icache"     -> ~s.halt /\ s.pos < Len(s.ftq)
          [] o = "noftb"      -> ~s.halt /\ s.bpc \in DOMAIN s.ftb}
\* What the predictor may say of the next pack, and the system of a call.
Guesses(s) ==
  LET known == s.bpc \in DOMAIN s.ftb /\ ~s.halt
      e == s.ftb[s.bpc]
  IN [taken : IF known /\ e.brs # <<>> THEN BOOLEAN ELSE {TRUE},
      target : IF known /\ e.jmp = "jalr" THEN XSTargets ELSE {0}]
Hows(s) == IF s.rob # <<>> /\ IsSystem(s.inst[s.rob[1]].ins) THEN Calls(s, s.inst[s.rob[1]].pc) ELSE {""}
Answers(s) == IF s.amoin.out # <<>> /\ s.inst[Head(s.amoin.out)].ins.op = "sc" THEN {0, 1} ELSE {0}

xs_tick(s, redirected) ==
  /\ redirected => s.saved # <<>> /\ s.saved[1].pc \in DOMAIN s.code
  /\ xs' = xs_apply_next_tick(IF redirected THEN xs_redirect(s) ELSE s)
  /\ xsquiet' = IF xs.halt \/ s.isa # xs.isa THEN 0 ELSE xsquiet + 1

xsInit ==
  /\ \E c \in XSCases :
       LET identity == [r \in Regs |-> r]
           own == [code |-> c.code, ftb |-> c.ftb, late |-> c.late, lineWords |-> c.lineWords, bpc |-> 0, upd |-> Q0,
                   nextEntry |-> 1, nextId |-> 1, halt |-> FALSE, applyHalt |-> FALSE,
                   table |-> identity, ctable |-> identity, free |-> ListFree(identity),
                   file |-> [p \in 0 .. XSPhys - 1 |-> 0], mem |-> [p \in Pages |-> p + 4],
                   saved |-> <<>>, ok |-> TRUE, passed |-> FALSE,
                   isa |-> [pc |-> 0, regs |-> [r \in Regs |-> 0], mem |-> [p \in Pages |-> p + 4]]]
       IN xs = ClearedFront @@ ClearedBack @@ ClearedLsu @@ NewLsu @@ NoRedirect @@ NoCache @@ own
  /\ xsodd = 0 /\ xsquiet = 0

xsNext ==
  \E late \in {""} \cup (IF xsodd < XSDelays THEN Odd(xs) ELSE {}),
     g \in Guesses(xs), how \in Hows(xs), answer \in Answers(xs) :
    LET w == [late |-> late, how |-> how, answer |-> answer, knows |-> late # "noftb",
              taken |-> g.taken, target |-> g.target, icache |-> late # "icache"]
    IN /\ \E s \in {xs_on_current_tick(xs, w)}, redirected \in BOOLEAN : xs_tick(s, redirected)
       /\ xsodd' = IF late = "" THEN xsodd ELSE xsodd + 1

-----------------------------------------------------------------------------
\* The registers the program goes on with.
XSThreadRegs ==
  IF xs.saved # <<>> THEN xs.saved[1].regs
  ELSE [r \in Regs |-> IF r = 0 THEN 0 ELSE (xs.wb @@ xs.file)[xs.ctable[r]]]
\* Memory as a load behind all that has committed would find it.
Seen(w) ==
  LET own == {y \in xs.cstby : y.w = w}
  IN IF own = {} THEN xs.mem[w] ELSE (CHOOSE y \in own : \A z \in own : z.id <= y.id).v

\* What a store has committed is what memory gets: every word is, behind what is still on
\* its way through the store buffer, that of the sequential machine (an atomic operation
\* does its store before it commits).
XSStoresKept ==
  xs.amoState \notin {"cache_resp", "finish"} => \A w \in Pages : Seen(w) = xs.isa.mem[w]

\* However the core reorders, predicts, refuses and repeats, no assertion of it fails, and
\* what commits is the next instruction of the program with the values it has there, until
\* a load has taken the word of an arriving line over that of an older store: what the load
\* queue is told of stores and the store queue of loads is enough but for that.
XSBypassSuffices ==
  /\ xs.ok
  /\ xs.passed \/ (XSThreadRegs = xs.isa.regs /\ XSStoresKept)

\* Every physical register is in one place: the committed table, the free list, or an
\* instruction that is renamed and has not committed; the table of the next instruction is
\* the committed one with these on top, and each branch keeps the one behind itself.
Renamings(ids) == FoldLeft(LAMBDA t, id : IF WritesReg(xs.inst[id].ins)
                                          THEN [t EXCEPT ![xs.inst[id].ins.rd] = xs.inst[id].prd] ELSE t,
                           xs.ctable, ids)
XSRenameExact ==
  LET flying == xs.rob \o xs.r2d.out \o xs.r2d.in
      own == SelectSeq(flying, LAMBDA id : WritesReg(xs.inst[id].ins))
      regs == [r \in 1 .. Cardinality(Regs) |-> xs.ctable[r - 1]]
              \o xs.free \o [k \in DOMAIN own |-> xs.inst[own[k]].prd]
  IN ~xs.halt =>
       /\ IsInjective(regs) /\ ToSet(regs) = 0 .. XSPhys - 1
       /\ xs.table = Renamings(flying)
       /\ \A k \in DOMAIN flying : Checkpointed(xs.inst[flying[k]].ins) =>
            flying[k] \in DOMAIN xs.cps /\ xs.cps[flying[k]] = Renamings(SubSeq(flying, 1, k))

\* The core never waits for itself: an instruction commits in every so many ticks.
XSAlive == xsquiet <= XSPatience

=============================================================================
