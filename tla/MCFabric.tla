------------------------------ MODULE MCFabric ------------------------------
(***************************************************************************)
(* What drives and connects the components of the simulator, each part on  *)
(* its own small instances: the tick engine, the tick queues, the bus, the *)
(* lock of the MSHR arrays, and what the launchers attach to a bus.  They  *)
(* share no state, so a behaviour is one part at work.                     *)
(***************************************************************************)
EXTENDS MCSimRoot, TickQueue, Launch, SpinRWLock, TLC

VARIABLE part

\* The queues: without q and with one, narrow in, narrow out.
MCShapes == {<<1, 1, 0>>, <<1, 2, 0>>, <<2, 1, 1>>, <<1, 1, 2>>}

\* The buses: three ports, two of them on one node; one channel of packets of the width
\* of an edge and one of packets half as wide.
MCTopologies == {[kind |-> "single_ring", x |-> 3, y |-> 1, double |-> FALSE],
                 [kind |-> "double_ring", x |-> 3, y |-> 1, double |-> TRUE],
                 [kind |-> "mesh2d_xy", x |-> 2, y |-> 2, double |-> TRUE]}
MCPort2Node == 0 :> 0 @@ 1 :> 2 @@ 2 :> 2
MCWidths == 0 :> 2 @@ 1 :> 1
\* The machines: with fewer memory nodes than cores, as many, and more.
MCLaunchParams ==
  [kind : {"mpl1l2"}, cpu_num : 1 .. 3, mem_node_num : {1}, lines : {4}]
  \cup [kind : {"mpl3"}, cpu_num : 1 .. 4, mem_node_num : 1 .. 3, lines : {12}]

\* The parts that are not at work are there in one form only.
MCInit ==
  /\ Init /\ queueInit /\ busInit /\ rwInit /\ launchInit
  /\ part \in {"engine", "queue", "bus", "lock", "launch"}
  /\ part # "queue" => shape = <<1, 1, 0>>
  /\ part # "bus" => wiring = Wired(CHOOSE t \in MCTopologies : t.kind = "single_ring")
  /\ part # "launch" => launcher = CHOOSE p \in MCLaunchParams : TRUE
MCVars == <<vars, queueVars, busVars, rwVars, launchVars, part>>
Engine(A) == part = "engine" /\ A /\ UNCHANGED <<queueVars, busVars, rwVars, launchVars, part>>
Fabric(A) == part = "bus" /\ A /\ UNCHANGED <<vars, queueVars, rwVars, launchVars, part>>
MCNext ==
  \/ Engine(Next)
  \/ part = "queue" /\ queueNext /\ UNCHANGED <<vars, busVars, rwVars, launchVars, part>>
  \/ Fabric(busNext)
  \/ part = "lock" /\ rwNext /\ UNCHANGED <<vars, queueVars, busVars, launchVars, part>>
  \/ part = "launch" /\ add_sim_object /\ UNCHANGED <<vars, queueVars, busVars, rwVars, part>>
MCSpec ==
  /\ MCInit /\ [][MCNext]_MCVars
  /\ WF_MCVars(Engine(CreateThread)) /\ WF_MCVars(Engine(JoinThread))
  /\ \A t \in Threads : WF_MCVars(Engine(Worker(t)))
  /\ WF_MCVars(Fabric(bus_apply_next_tick))
=============================================================================
