------------------------------ MODULE MCCaches ------------------------------
(***************************************************************************)
(* The cache systems that are not in MCMoesi, each on its own small        *)
(* instance: a single L1 before the directory, that has all lines and a    *)
(* block array too small for them; the DMA device beside two L1s; private  *)
(* L2s before the directory (mpl3); and the snooping caches of simplecc.   *)
(***************************************************************************)
EXTENDS MoesiDMA, PrivL1L2, SimpleCC, TLC

VARIABLE system

Alone == [i \in L1s |-> IF i = 0 THEN Lines ELSE {}]

Does(l, s, f, r) == [loads |-> l, stores |-> s, fetches |-> f, reserves |-> r]
Idle == Does({}, {}, {}, {})
Two(x, y) == 0 :> x @@ 1 :> y @@ 2 :> Idle
MCPrograms ==
  {Two(Does({1}, {2}, {}, {}), Does({2}, {2}, {}, {})),
   Two(Does({2}, {2}, {}, {2}), Does({}, {2}, {}, {})),
   Two(Does({1}, {2}, {2}, {}), Does({2}, {}, {}, {})),
   Two(Does({}, {}, {1, 2}, {}), Does({}, {2}, {}, {})),
   Two(Does({1}, {1, 2}, {}, {}), Idle)}
\* The L1s use one line while the device works: with two in an array too small for them
\* a clean line may be replaced while a request of the device is served (MoesiReplace).
Copy(kind, src, dst, size) == [kind |-> kind, src |-> src, dst |-> dst, size |-> size]
Use(x, y) == 0 :> x @@ 1 :> y @@ 2 :> {}
MCWorkloads ==
  {[lines |-> Use({1}, {1}), reqs |-> <<Copy("in", 10, 2, 1)>>],
   [lines |-> Use({1}, {}), reqs |-> <<Copy("out", 3, 10, 1), Copy("in", 20, 3, 1)>>],
   [lines |-> Use({}, {}), reqs |-> <<Copy("in", 11, 3, 3), Copy("host", 1, 2, 1),
                                       Copy("out", 3, 10, 1), Copy("copy", 3, 5, 1)>>]}
\* Both L1s load and store line 1, and the second one also stores to a line that takes
\* its place.
SccReads == 0 :> {1} @@ 1 :> {1}
SccWrites == 0 :> {1} @@ 1 :> {1, 2}

MCInit ==
  /\ Init /\ dmaInit /\ privInit /\ sccInit /\ system \in {"alone", "dma", "private", "snooping"}
  /\ system # "dma" => dmaReqs = (CHOOSE w \in MCWorkloads : w.reqs[1].kind = "out").reqs
  /\ system # "private" => program = CHOOSE p \in MCPrograms : TRUE
MCNext ==
  \/ system = "alone" /\ Next /\ UNCHANGED <<dmaVars, privVars, sccVars, system>>
  \/ system = "dma" /\ dmaNext /\ UNCHANGED <<privVars, sccVars, system>>
  \/ system = "private" /\ privNext /\ UNCHANGED <<l1Vars, dmaVars, sccVars, system>>
  \/ system = "snooping" /\ sccNext /\ UNCHANGED <<vars, dmaVars, privVars, system>>
MCSpec == MCInit /\ [][MCNext]_<<vars, dmaVars, privVars, sccVars, system>>

\* No message or request finds a cache, the directory or the device in a state its
\* assertions forbid, however long it was on its way.
CachesNeverAbort ==
  /\ PrivNeverAborts /\ SccNeverAborts /\ LLCNeverAborts
  /\ system = "dma" => DmaNeverAborts
=============================================================================
