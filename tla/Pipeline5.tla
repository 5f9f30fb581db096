----------------------------- MODULE Pipeline5 -----------------------------
(***************************************************************************)
(* The five stage in-order core (cpu/pipeline5).  A tick has the two       *)
(* halves of every simulated object: on_current_tick runs the stages, each *)
(* on what it held when the tick began, apply_next_tick moves their work   *)
(* on and applies halts and redirections.  An instruction that enters the  *)
(* system (ecall, ebreak, a page fault) splits the first half: the system  *)
(* answers, and only then the core notes the answer.                       *)
(*                                                                         *)
(* The caches are hits and misses, the system the little of multicore.cpp  *)
(* and rvthread.cpp that a core sees: pages copied on the first write by a *)
(* routine in system memory, which the core executes as well, threads that *)
(* block and are woken.                                                    *)
(* FP registers behave as the integer ones and are left out.               *)
(***************************************************************************)
EXTENDS RVMachine, Sequences, FiniteSets, SequencesExt, TLC

CONSTANTS
  P5Cases,     \* records [code, owned]: the instruction at each pc, the pages not shared
  P5Misses,    \* bound: cache misses in a row
  P5Races      \* whether a redirection may come while the core takes a system call's answer

VARIABLES
  p5case,      \* what is executed
  p5fetch,     \* [pc, next, wait]: pc, p1_apply_next_pc, p1_wait_for_jump
  p5pipe,      \* the instruction of each stage: the p<n>_workload with its p<n>_result
  p5regs,      \* iregs: values
  p5busy,      \* iregs: how many instructions in flight will write it
  p5mem,       \* physical memory, a value per page
  p5tlb,       \* tlb: <<page, flags>> to physical page
  p5ctl,       \* [halt, applyHalt, wakeup, pc, regs]: is_halt and the apply_ flags
  p5sys,       \* the system: page table, saved contexts, the answer on its way
  p5turn,      \* "current", "system", "answer" or "apply"
  p5misses,
  p5isa,       \* (history) the machine that did the committed instructions in order
  p5ok,        \* no assertion of the core has failed
  p5stale      \* (history) an access went where the page table no longer says

p5Vars == <<p5case, p5fetch, p5pipe, p5regs, p5busy, p5mem, p5tlb, p5ctl, p5sys, p5turn,
            p5misses, p5isa, p5ok, p5stale>>

None == [none |-> TRUE]
NoPc == -1
Stages == 1 .. 5
\* The routine that copies the page at x2 to the one at x1, in system memory.
Handler == 2 * Size(XLen)
Routine == <<Ins("load", "", 3, 2, 0, 0), Ins("store", "", 0, 1, 3, 0), Ins("ecall", "", 0, 0, 0, 0),
             Ins("ebreak", "", 0, 0, 0, 0), Ins("junk", "", 0, 0, 0, 0)>>
InRoutine(pc) == pc >= Handler
Code(pc) == IF InRoutine(pc) THEN Routine[pc - Handler + 1] ELSE p5case.code[pc]
Mapped(pc) == pc \in DOMAIN p5case.code \cup {Handler + k : k \in 0 .. Len(Routine) - 1}
Tmp == 2   \* the first page number a program does not use: cow_realloc_missed_page's

Unique(ins) == ins.op \in {"fence", "ecall", "ebreak"}
PassP3(ins) == ins.op = "lui" \/ Unique(ins)
PassP4(ins) == ins.op \notin MemOps
Holds(S) == \E k \in S : p5pipe[k] # None

\* trans: a hit in the tlb whatever the page table says by now, else v_to_p.
Flags(ins) == CASE ins.op = "load" -> "R" [] ins.op = "store" -> "W" [] OTHER -> "RW"
Fault == -1
trans(key) == IF key \in DOMAIN p5tlb THEN p5tlb[key]
              ELSE IF key[2] # "R" /\ key[1] \notin p5sys.owned THEN Fault ELSE p5sys.map[key[1]]

-----------------------------------------------------------------------------
\* P1: a fetch off the program waits while older instructions may still redirect.
Fetches == p5pipe[1] = None /\ ~p5fetch.wait
Fetched(hit) == Fetches /\ Mapped(p5fetch.pc) /\ (~InRoutine(p5fetch.pc) => hit)
P1Pipe(hit) ==
  IF Fetched(hit)
  THEN [pc |-> p5fetch.pc, ins |-> Code(p5fetch.pc), done |-> TRUE,
        arg0 |-> 0, arg1 |-> 0, vaddr |-> 0, fault |-> FALSE]
  ELSE p5pipe[1]
P1Fetch(hit) ==
  IF ~Fetched(hit) THEN IF Fetches THEN [p5fetch EXCEPT !.next = p5fetch.pc] ELSE p5fetch
  ELSE LET ins == Code(p5fetch.pc)
       IN [p5fetch EXCEPT
             !.next = CASE ins.op = "jal" -> ins.imm [] ins.op = "jalr" -> p5fetch.pc [] OTHER -> p5fetch.pc + 1,
             !.wait = ins.op = "jalr"]
P1Aborts == Fetches /\ ~Mapped(p5fetch.pc) /\ ~Holds(2 .. 5)

\* P2: what must be alone in the pipeline waits for it to drain, and holds up what follows.
Decodes ==
  /\ p5pipe[2] # None /\ ~p5pipe[2].done
  /\ \A k \in 3 .. 5 : p5pipe[k] # None => ~Unique(p5pipe[k].ins)
  /\ Unique(p5pipe[2].ins) => ~Holds(3 .. 5)
P2Aborts == Decodes /\ p5pipe[2].ins.op = "junk"

\* P3: reads the registers once no older instruction will write them.
Blocked(ins) ==
  \/ ReadsRs1(ins) /\ p5busy[ins.rs1] > 0
  \/ ReadsRs2(ins) /\ p5busy[ins.rs2] > 0
Executes == p5pipe[3] # None /\ ~p5pipe[3].done /\ ~Blocked(p5pipe[3].ins)
P3Pipe ==
  LET x == p5pipe[3]  a == p5regs[x.ins.rs1]  b == p5regs[x.ins.rs2]
  IN IF ~Executes THEN x
     ELSE [x EXCEPT !.done = TRUE, !.vaddr = a,
             !.arg0 = IF x.ins.op = "branch" THEN (IF Taken(x.ins, a, b) THEN 1 ELSE 0)
                      ELSE IF x.ins.op \in MemOps THEN 0 ELSE Result(x.ins, x.pc, a, b, 0),
             !.arg1 = CASE x.ins.op = "store" -> b [] x.ins.op = "jalr" -> a + x.ins.imm [] OTHER -> x.ins.imm]
P3Busy ==
  IF Executes /\ HasRd(p5pipe[3].ins) /\ p5pipe[3].ins.rd # 0
  THEN [p5busy EXCEPT ![p5pipe[3].ins.rd] = @ + 1] ELSE p5busy

\* P4: the memory access, which a fault leaves to P5.
Accesses4 == p5pipe[4] # None /\ ~p5pipe[4].done
Key == <<IF InRoutine(p5pipe[4].pc) THEN p5pipe[4].vaddr ELSE Page(p5pipe[4].vaddr),
         Flags(p5pipe[4].ins)>>
Faults4 == Accesses4 /\ trans(Key) = Fault
Stale4 == Accesses4 /\ ~Faults4 /\ trans(Key) # p5sys.map[Key[1]]
Does4(hit) == Accesses4 /\ ~Faults4 /\ hit
P4Pipe(hit, answer) ==
  LET x == p5pipe[4]
  IN IF Faults4 THEN [x EXCEPT !.done = TRUE, !.fault = TRUE]
     ELSE IF ~Does4(hit) THEN x
     ELSE [x EXCEPT !.done = TRUE, !.arg0 = IF x.ins.op = "sc" THEN answer ELSE p5mem[trans(Key)]]
P4Mem(hit, answer) ==
  LET x == p5pipe[4]  b == IF x.ins.op = "store" THEN x.arg1 ELSE p5regs[x.ins.rs2]
  IN IF Does4(hit) THEN [p5mem EXCEPT ![trans(Key)] = Stored(x.ins, b, @, answer)] ELSE p5mem
P4Tlb == IF Accesses4 /\ ~Faults4
         THEN [k \in DOMAIN p5tlb \cup {Key} |-> IF k = Key THEN trans(k) ELSE p5tlb[k]] ELSE p5tlb

\* P5: the register is written; a taken branch and a jalr redirect.
Commits == p5pipe[5] # None /\ ~p5pipe[5].done
EntersSystem == Commits /\ (p5pipe[5].fault \/ p5pipe[5].ins.op \in {"ecall", "ebreak"})
Retires == Commits /\ ~EntersSystem
Redirects5 ==
  /\ Retires
  /\ p5pipe[5].ins.op = "branch" => p5pipe[5].arg0 = 1
  /\ p5pipe[5].ins.op \in {"branch", "jalr"}
Released(busy, rd) == [busy EXCEPT ![rd] = IF @ > 0 THEN @ - 1 ELSE 0]

p5_on_current_tick ==
  /\ p5turn = "current" /\ ~p5ctl.halt
  /\ \E icache, dcache \in {TRUE} \cup (IF p5misses < P5Misses THEN {FALSE} ELSE {}), answer \in {0, 1} :
       LET x == p5pipe[5]  writes == Retires /\ HasRd(x.ins) IN
       /\ answer = 1 => Accesses4 /\ p5pipe[4].ins.op = "sc"
       /\ p5misses' = IF icache /\ dcache THEN 0 ELSE p5misses + 1
       /\ p5pipe' = <<P1Pipe(icache),
                      IF Decodes THEN [p5pipe[2] EXCEPT !.done = TRUE] ELSE p5pipe[2],
                      P3Pipe, P4Pipe(dcache, answer),
                      IF Retires THEN [x EXCEPT !.done = TRUE] ELSE x>>
       /\ p5fetch' = P1Fetch(icache)
       /\ p5mem' = P4Mem(dcache, answer)
       /\ p5tlb' = P4Tlb
       /\ p5regs' = IF writes THEN WithReg(p5regs, x.ins.rd, IF x.ins.op = "lui" THEN x.ins.imm ELSE x.arg0) ELSE p5regs
       /\ p5busy' = IF writes THEN Released(P3Busy, x.ins.rd) ELSE P3Busy
       /\ p5ctl' = IF Redirects5 THEN [p5ctl EXCEPT !.pc = x.arg1] ELSE p5ctl
       /\ p5isa' = IF Retires /\ ~InRoutine(x.pc) THEN Executed(x.ins, p5isa, x.arg0) ELSE p5isa
       /\ p5ok' = (p5ok /\ ~P1Aborts /\ ~P2Aborts)
       /\ p5stale' = (p5stale \/ Stale4)
       /\ p5turn' = IF EntersSystem THEN "system" ELSE "apply"
  /\ UNCHANGED <<p5case, p5sys>>

\* A halted core does nothing.
p5_idle_tick ==
  /\ p5turn = "current" /\ p5ctl.halt /\ p5turn' = "apply"
  /\ UNCHANGED <<p5case, p5fetch, p5pipe, p5regs, p5busy, p5mem, p5tlb, p5ctl, p5sys, p5misses, p5isa, p5ok, p5stale>>

-----------------------------------------------------------------------------
\* The system.  A context is what a thread goes on with.
Context(pc, regs) == [pc |-> pc, regs |-> regs]
At5 == p5pipe[5]
Ends(pc) == pc \notin DOMAIN p5case.code

\* exception: the page becomes one of the thread's own, the one it was gets the number Tmp
\* to be read by, and the core is sent to the routine that copies it.
exception ==
  /\ At5.fault
  /\ LET p == Page(At5.vaddr) IN
     p5sys' = [p5sys EXCEPT !.map = (p :> p + 2) @@ (Tmp :> @[p]) @@ @, !.owned = @ \cup {p},
                            !.stack = Append(@, Context(At5.pc, p5regs)),
                            !.answer = Context(Handler, WithReg(WithReg(p5regs, 1, p), 2, Tmp))]
  /\ UNCHANGED <<p5mem, p5ctl, p5isa>>

Calls5 == ~At5.fault /\ At5.ins.op = "ecall"

\* host_free_cow_tmp_page: the routine has copied the page.  No core is told (flush_tlb).
free_cow_tmp_page ==
  /\ Calls5 /\ InRoutine(At5.pc)
  /\ p5sys' = [p5sys EXCEPT !.map = [p \in DOMAIN @ \ {Tmp} |-> @[p]],
                            !.answer = Context(At5.pc + 1, WithReg(p5regs, 1, 0))]
  /\ UNCHANGED <<p5mem, p5ctl, p5isa>>

\* ebreak: the routine is done.
ebreak ==
  /\ ~At5.fault /\ At5.ins.op = "ebreak"
  /\ p5sys' = [p5sys EXCEPT !.answer = Last(p5sys.stack), !.stack = Front(@)]
  /\ UNCHANGED <<p5mem, p5ctl, p5isa>>

Answered == Context(At5.pc + 1, WithReg(p5regs, 1, 1))
Called == p5isa' = [p5isa EXCEPT !.pc = @ + 1, !.regs = WithReg(@, 1, 1)]
IsEcall == Calls5 /\ ~InRoutine(At5.pc)

ecall_returns ==
  /\ IsEcall /\ ~Ends(At5.pc + 1)
  /\ p5sys' = [p5sys EXCEPT !.answer = Answered]
  /\ Called /\ UNCHANGED <<p5mem, p5ctl>>
\* The thread is put off and taken on again, or another of the same program.
ecall_yields ==
  /\ IsEcall /\ ~Ends(At5.pc + 1)
  /\ p5sys' = [p5sys EXCEPT !.answer = Context(Answered.pc, p5regs)]
  /\ p5ctl' = [p5ctl EXCEPT !.pc = Answered.pc, !.wakeup = TRUE, !.regs = Answered.regs]
  /\ Called /\ UNCHANGED p5mem
\* The thread waits and no other is ready, or it has ended.
ecall_blocks ==
  /\ IsEcall
  /\ p5sys' = [p5sys EXCEPT !.answer = Context(0, p5regs), !.idle = TRUE, !.stack = Append(@, Answered)]
  /\ p5ctl' = [p5ctl EXCEPT !.applyHalt = TRUE]
  /\ Called /\ UNCHANGED p5mem

p5_system ==
  /\ p5turn = "system" /\ p5turn' = "answer"
  /\ exception \/ free_cow_tmp_page \/ ebreak \/ ecall_returns \/ ecall_yields \/ ecall_blocks
  /\ UNCHANGED <<p5case, p5fetch, p5pipe, p5regs, p5busy, p5tlb, p5misses, p5ok, p5stale>>

\* pc_redirect = ecall(...) and the registers it left.
p5_answer ==
  /\ p5turn = "answer" /\ p5turn' = "apply"
  /\ p5ctl' = [p5ctl EXCEPT !.pc = p5sys.answer.pc]
  /\ p5regs' = p5sys.answer.regs
  /\ p5sys' = [p5sys EXCEPT !.answer = None]
  /\ UNCHANGED <<p5case, p5fetch, p5pipe, p5busy, p5mem, p5tlb, p5misses, p5isa, p5ok, p5stale>>

\* redirect, from another core's system call or from the host thread that waited.
redirect ==
  /\ p5sys.idle /\ ~Ends(Last(p5sys.stack).pc)
  /\ p5turn = "answer" => P5Races
  /\ LET c == Last(p5sys.stack) IN
     /\ p5ctl' = [p5ctl EXCEPT !.pc = c.pc, !.wakeup = TRUE, !.regs = c.regs]
     /\ p5sys' = [p5sys EXCEPT !.idle = FALSE, !.stack = Front(@)]
  /\ UNCHANGED <<p5case, p5fetch, p5pipe, p5regs, p5busy, p5mem, p5tlb, p5turn, p5misses, p5isa, p5ok, p5stale>>

-----------------------------------------------------------------------------
Empty == [k \in Stages |-> None]

\* Where an instruction that is done in stage k goes on, and the stages it passes.
Target(k, ins) ==
  CASE k = 2 /\ PassP3(ins) -> IF PassP4(ins) THEN 5 ELSE 4
    [] k = 3 /\ PassP4(ins) -> 5
    [] OTHER -> k + 1
CanMoveUnordered(pipe, k) ==   \* (faulty: only the stage it goes to is looked at)
  pipe[k] # None /\ pipe[k].done /\ pipe[Target(k, pipe[k].ins)] = None
CanMove(pipe, k) ==
  pipe[k] # None /\ pipe[k].done /\ \A j \in k + 1 .. Target(k, pipe[k].ins) : pipe[j] = None
Moved(pipe, k) ==
  IF CanMove(pipe, k)
  THEN [pipe EXCEPT ![Target(k, pipe[k].ins)] = [pipe[k] EXCEPT !.done = FALSE], ![k] = None]
  ELSE pipe
Advanced == FoldLeft(Moved, [p5pipe EXCEPT ![5] = IF @ # None /\ @.done THEN None ELSE @], <<4, 3, 2, 1>>)

UnblockedKept == p5busy   \* (faulty: the writes of the discarded instructions are waited for)
Unblocked == [r \in Regs |-> 0]

p5_apply_next_tick ==
  /\ p5turn = "apply" /\ p5turn' = "current"
  /\ CASE p5ctl.halt /\ ~p5ctl.wakeup -> UNCHANGED <<p5pipe, p5busy, p5regs, p5ctl, p5fetch>>
       [] ~(p5ctl.halt /\ ~p5ctl.wakeup) /\ p5ctl.applyHalt ->
            /\ p5pipe' = Empty /\ p5busy' = Unblocked
            /\ p5ctl' = [p5ctl EXCEPT !.halt = TRUE, !.applyHalt = FALSE]
            /\ UNCHANGED <<p5regs, p5fetch>>
       [] ~(p5ctl.halt /\ ~p5ctl.wakeup) /\ ~p5ctl.applyHalt /\ p5ctl.pc # NoPc ->
            /\ p5pipe' = Empty /\ p5busy' = Unblocked
            /\ p5fetch' = [p5fetch EXCEPT !.pc = p5ctl.pc, !.wait = FALSE]
            /\ p5regs' = IF p5ctl.regs = None THEN p5regs ELSE p5ctl.regs
            /\ p5ctl' = [halt |-> FALSE, applyHalt |-> FALSE, wakeup |-> FALSE, pc |-> NoPc, regs |-> None]
       [] OTHER ->
            /\ p5pipe' = Advanced
            /\ p5fetch' = [p5fetch EXCEPT !.pc = p5fetch.next]
            /\ UNCHANGED <<p5busy, p5regs, p5ctl>>
  /\ UNCHANGED <<p5case, p5mem, p5tlb, p5sys, p5misses, p5isa, p5ok, p5stale>>

p5Init ==
  /\ p5case \in P5Cases
  /\ p5fetch = [pc |-> 0, next |-> 0, wait |-> FALSE]
  /\ p5pipe = Empty
  /\ p5regs = [r \in Regs |-> 0] /\ p5busy = p5regs
  /\ p5mem = [q \in 0 .. 3 |-> IF q < 2 THEN q + 4 ELSE 0]
  /\ p5tlb = [k \in {} |-> 0]
  /\ p5ctl = [halt |-> FALSE, applyHalt |-> FALSE, wakeup |-> FALSE, pc |-> NoPc, regs |-> None]
  /\ p5sys = [map |-> [p \in Pages |-> p], owned |-> p5case.owned, stack |-> <<>>,
              answer |-> None, idle |-> FALSE]
  /\ p5turn = "current" /\ p5misses = 0
  /\ p5isa = [pc |-> 0, regs |-> p5regs, mem |-> [p \in Pages |-> p5mem[p]]]
  /\ p5ok = TRUE /\ p5stale = FALSE

p5Own == p5_on_current_tick \/ p5_idle_tick \/ p5_system \/ p5_answer \/ p5_apply_next_tick

-----------------------------------------------------------------------------
\* The registers the program goes on with, wherever they are.
ThreadRegs == IF p5sys.stack # <<>> THEN Last(p5sys.stack).regs
              ELSE IF p5ctl.regs # None THEN p5ctl.regs
              ELSE IF p5sys.answer # None THEN p5sys.answer.regs ELSE p5regs

\* The core does what the instructions say, one after the other: each instruction that
\* commits is the next one of the program, the registers are then those of the sequential
\* machine, and a system call finds its memory.
P5Sequential ==
  /\ ThreadRegs = p5isa.regs
  /\ p5turn \in {"current", "system"} /\ Commits /\ ~InRoutine(At5.pc) => At5.pc = p5isa.pc
  /\ p5turn = "system" /\ IsEcall => \A p \in Pages : p5mem[p5sys.map[p]] = p5isa.mem[p]

\* Whatever stalls, redirections, page faults and waits come in between, no assertion fails,
\* and the core does what the instructions say until it has used a translation that a copy
\* on write had made stale (trans asks the tlb first, and nothing flushes it): the faults,
\* the routine that copies the page and the return from it are right but for that.
P5TlbSuffices == p5ok /\ (p5stale \/ P5Sequential)

\* The program is done: its last system call left the core idle.
p5Finished == p5sys.idle /\ Ends(Last(p5sys.stack).pc)
=============================================================================
