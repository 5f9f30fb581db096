------------------------------ MODULE MCCores ------------------------------
(***************************************************************************)
(* The cores and the operations they do, each on small programs.           *)
(***************************************************************************)
EXTENDS Pipeline5, XiangShan, XSPredict, XSTage, RiscV64, TLC

VARIABLE core

\* Waits for registers, a store that faults, a store on a path not taken, an amo, calls,
\* jumps; then a loop, a store that faults in it, and a jump with its target in a register.
Straight == 0 :> Ins("lui", "", 2, 0, 0, 1) @@ 1 :> Ins("store", "", 0, 2, 2, 0)
         @@ 2 :> Ins("opimm", "ADD", 3, 2, 0, 1) @@ 3 :> Ins("load", "", 1, 2, 0, 0)
         @@ 4 :> Ins("branch", "BLT", 0, 1, 3, 6) @@ 5 :> Ins("store", "", 0, 0, 3, 0)
         @@ 6 :> Ins("amo", "ADD", 1, 2, 3, 0) @@ 7 :> Ins("ecall", "", 0, 0, 0, 0)
         @@ 8 :> Ins("jal", "", 2, 0, 0, 10) @@ 10 :> Ins("op", "ADD", 3, 1, 2, 0)
         @@ 11 :> Ins("fence", "", 0, 0, 0, 0) @@ 12 :> Ins("ecall", "", 0, 0, 0, 0)
Loop == 0 :> Ins("opimm", "ADD", 1, 0, 0, 2) @@ 1 :> Ins("opimm", "SUB", 1, 1, 0, 1)
     @@ 2 :> Ins("store", "", 0, 1, 1, 0) @@ 3 :> Ins("branch", "BNE", 0, 1, 0, 1)
     @@ 4 :> Ins("lr", "", 2, 1, 0, 0) @@ 5 :> Ins("sc", "", 3, 1, 2, 0)
     @@ 6 :> Ins("jalr", "", 2, 0, 0, 8) @@ 8 :> Ins("ecall", "", 0, 0, 0, 0)
     @@ 9 :> Ins("branch", "BEQ", 0, 0, 0, 11) @@ 11 :> Ins("ecall", "", 0, 0, 0, 0)
\* All programs of three such instructions, on pages of their own.
Kinds == {Ins("opimm", "ADD", 1, 1, 0, 3), Ins("load", "", 1, 2, 0, 0), Ins("store", "", 0, 2, 1, 0),
          Ins("amo", "ADD", 2, 1, 2, 0), Ins("branch", "BNE", 0, 1, 2, 3), Ins("jalr", "", 2, 0, 0, 3),
          Ins("lui", "", 2, 0, 0, 2), Ins("ecall", "", 0, 0, 0, 0)}
Short == {[pc \in 0 .. 3 |-> IF pc = 3 THEN Ins("ecall", "", 0, 0, 0, 0) ELSE k[pc]] : k \in [0 .. 2 -> Kinds]}
\* A page that is loaded from before it is stored to, and two pages that are copied.
Reload == 0 :> Ins("load", "", 1, 0, 0, 0) @@ 1 :> Ins("opimm", "ADD", 1, 1, 0, 3)
       @@ 2 :> Ins("store", "", 0, 0, 1, 0) @@ 3 :> Ins("load", "", 2, 0, 0, 0)
       @@ 4 :> Ins("ecall", "", 0, 0, 0, 0)
TwoCopies == 0 :> Ins("store", "", 0, 0, 0, 0) @@ 1 :> Ins("opimm", "ADD", 1, 0, 0, 1)
          @@ 2 :> Ins("amo", "ADD", 2, 1, 1, 0) @@ 3 :> Ins("ecall", "", 0, 0, 0, 0)
MCP5Cases == [code : {Straight, Loop, Reload, TwoCopies} \cup Short, owned : {Pages, {}}]

\* A store whose address comes late, loads that go ahead of it, loads behind a load.
Overlap == 0 :> Ins("lui", "", 2, 0, 0, 1) @@ 1 :> Ins("opimm", "MUL", 3, 2, 0, 1)
        @@ 2 :> Ins("store", "", 0, 3, 2, 0) @@ 3 :> Ins("load", "", 1, 2, 0, 0)
        @@ 4 :> Ins("op", "ADD", 3, 1, 2, 0) @@ 5 :> Ins("load", "", 2, 0, 0, 0)
        @@ 6 :> Ins("store", "", 0, 2, 3, 0) @@ 7 :> Ins("load", "", 1, 2, 0, 0)
        @@ 8 :> Ins("ecall", "", 0, 0, 0, 0)
\* Stores to one word that meet in the store buffer, flushed by a fence and by an amo.
Spill == 0 :> Ins("opimm", "ADD", 1, 0, 0, 2) @@ 1 :> Ins("store", "", 0, 0, 1, 0)
      @@ 2 :> Ins("opimm", "ADD", 1, 0, 0, 3) @@ 3 :> Ins("store", "", 0, 0, 1, 0)
      @@ 4 :> Ins("load", "", 2, 0, 0, 0) @@ 5 :> Ins("fence", "", 0, 0, 0, 0)
      @@ 6 :> Ins("load", "", 3, 1, 0, 0) @@ 7 :> Ins("store", "", 0, 1, 2, 0)
      @@ 8 :> Ins("amo", "ADD", 2, 1, 2, 0) @@ 9 :> Ins("ecall", "", 0, 0, 0, 0)
Late == {"st_busy", "st_miss", "ld_busy", "ld_miss", "amo_busy", "line_wait", "cache_wait", "icache", "noftb"}
XSCase(codes, lates, words) ==
  [code : codes, ftb : {Empty0}, late : lates, lineWords : words]
MCXSCases ==
  XSCase({Straight, Loop, Overlap, Spill}, {Late}, {1, 2})
  \cup XSCase(Short, {{"ld_miss", "st_busy", "line_wait"}}, {1})
MCXSSpillCases == XSCase({Spill}, {{"st_busy"}}, {1})

\* A call within itself behind a branch, and calls from two places.
MCRecursive == <<Ins("branch", "BEQ", 0, 0, 0, 3), Ins("jal", "", 1, 0, 0, 1), Ins("jalr", "", 0, 1, 0, 0)>>
MCPredCodes == {MCRecursive, <<Ins("jal", "", 1, 0, 0, 3), Ins("jal", "", 1, 0, 0, 1), Ins("jalr", "", 0, 1, 0, 0)>>}
\* The others of more than one format: atomic, floating point, fused, and control registers.
Word5(n, at) == (IF n > 15 THEN n - 32 ELSE n) * 2^at
MCDecMore ==
  {47 + 5 * 128 + f * 4096 + 6 * 32768 + (IF op = LR THEN 0 ELSE 7) * 1048576 + Word5(op, 27) :
     f \in {2, 3}, op \in 0 .. 31}
  \cup {83 + 5 * 128 + f * 4096 + 6 * 32768 + r * 1048576 + fmt * 33554432 + Word5(op, 27) :
           f \in {0, 1}, r \in {0, 7}, fmt \in {0, 1}, op \in 0 .. 31}
  \cup {op + 5 * 128 + 28672 + 6 * 32768 + 7 * 1048576 + 33554432 + Word5(r, 27) :
           op \in {67, 71, 75, 79}, r \in {3, 21}}
  \cup {115 + 5 * 128 + f * 4096 + 6 * 32768 + 3 * 1048576 : f \in 1 .. 7}
\* Words of no format: the moves and jumps, compressed, of every register, the fences, the system's.
MCDecWords == {w \in 0 .. 65535 : w % 4 = 2 /\ w \div 8192 = 4}
  \cup {0, 115, 1048691, 4111, 267386895, 8207, 16777231, 24579, -2094006257} \cup MCDecMore
MCPredFolds == <<[len |-> 2, to |-> 2]>>

MCTageHist == <<1, 2, 3>>
MCScHist == <<0, 1>>
MCItHist == <<1, 2>>
MCThresholds == {[thres |-> 0, ctr |-> 0], [thres |-> 31, ctr |-> 31]}

\* The parts share nothing: each starts on its own and stays what it is.
MCInit ==
  /\ core \in {"pipeline5", "xiangshan", "predictor", "tables", "decoder", "operations"}
  /\ p5Init /\ (core # "pipeline5" => p5case = [code |-> Straight, owned |-> {}])
  /\ xsInit /\ (core # "xiangshan" => xs.code = Straight /\ xs.lineWords = 1 /\ "ld_busy" \in xs.late)
  /\ predInit /\ (core # "predictor" => codeP = MCRecursive)
  /\ tageInit /\ (core # "tables" => StartsPlain)
  /\ IF core = "decoder" THEN decodeInit ELSE StartsWith({}, 0)
  /\ IF core = "operations" THEN intInit ELSE StartsWithOperands([w |-> XLen, a |-> 0, b |-> 0])
  /\ secondInit

OwnP5 == core = "pipeline5" /\ p5Own /\ UNCHANGED <<xsVars, predVars, tageVars, decodeVars, operationVars, secondVars, core>>
RedirectP5 == core = "pipeline5" /\ redirect /\ UNCHANGED <<xsVars, predVars, tageVars, decodeVars, operationVars, secondVars, core>>
OwnXS == core = "xiangshan" /\ xsNext /\ UNCHANGED <<p5Vars, predVars, tageVars, decodeVars, operationVars, secondVars, core>>
OwnPredictor == core = "predictor" /\ PredTick /\ UNCHANGED <<p5Vars, xsVars, tageVars, decodeVars, operationVars, secondVars, core>>
OwnTables == core = "tables" /\ tageNext /\ UNCHANGED <<p5Vars, xsVars, predVars, decodeVars, operationVars, secondVars, core>>
OwnDecoder == core = "decoder" /\ DecodeBoth /\ UNCHANGED <<p5Vars, xsVars, predVars, tageVars, operationVars, core>>
Operates == core = "operations" /\ PerformBoth /\ UNCHANGED <<p5Vars, xsVars, predVars, tageVars, decodeVars, core>>
MCNext == OwnP5 \/ RedirectP5 \/ OwnXS \/ OwnPredictor \/ OwnTables \/ OwnDecoder \/ Operates
MCvars == <<p5Vars, xsVars, predVars, tageVars, decodeVars, operationVars, secondVars, core>>

\* The tick loop takes every core's steps, and a host thread that has waited redirects.
MCSpec == MCInit /\ [][MCNext]_MCvars /\ WF_MCvars(OwnP5) /\ WF_MCvars(RedirectP5)

\* No program is held up for ever in the pipeline, by an instruction that waits for a
\* register, a stage, a miss, a redirection or the system.
P5Finishes == core = "pipeline5" => <>p5Finished

=============================================================================
