------------------------------ MODULE Launch -------------------------------
(***************************************************************************)
(* How the two launchers put a machine together: who has which port of the *)
(* bus, at which place of its double ring, and which cache slice and       *)
(* memory node a line belongs to (launch/mpl1l2 and launch/mpl3).          *)
(***************************************************************************)
EXTENDS Bus

CONSTANT LaunchParams  \* [kind, cpu_num, mem_node_num, lines]: lines in the memory, by kind

VARIABLES
  launcher, \* the parameters
  map,      \* the bus mapping: ports of requesters, home nodes and memories, and port2node
  objects   \* what is attached so far: [kind, no, port]
launchVars == <<launcher, map, objects>>
Mpl3 == launcher.kind = "mpl3"

\* Memory nodes stand evenly between the cores; rounding of the double is left out.
mem_places(p) ==
  {((2 * i + 1) * (p.cpu_num + p.mem_node_num)) \div (2 * p.mem_node_num) : i \in 0 .. p.mem_node_num - 1}
\* A memory node has one port, a core two: its L2 and its slice of the L3.  The last is DMA's.
MultiCoreL3BusMapping(p) ==
  LET last == p.cpu_num + p.mem_node_num
      cores == 0 .. last - 1 \ mem_places(p)
      first(n) == n + Cardinality({c \in cores : c < n})
      sorted(S) == SetToSortSeq(S, <)
      l2 == {first(n) : n \in cores}
  IN [l2_ports |-> Append(sorted(l2), first(last)), l3_ports |-> sorted({q + 1 : q \in l2}),
      mem_ports |-> sorted({first(n) : n \in mem_places(p)}),
      port2node |-> [q \in 0 .. first(last) |-> CHOOSE n \in 0 .. last :
                       first(n) <= q /\ (n = last \/ q < first(n + 1))]]
\* Two L1s of each core and DMA's port behind the memory and the cache, each a place of its own.
MultiCoreL1L2BusMapping(p) ==
  [l2_ports |-> [k \in 1 .. 2 * p.cpu_num + 1 |-> k + 1], l3_ports |-> <<1>>, mem_ports |-> <<0>>,
   port2node |-> [q \in 0 .. 2 * p.cpu_num + 2 |-> q]]

ring == [kind |-> "double_ring", x |-> 1 + Max(Range(map.port2node)), y |-> 1, double |-> TRUE]
homes == Len(map.l3_ports)
mems == Len(map.mem_ports)
Fails == 0 - 1
\* mpl1l2 shifts the line's number to the right where its address is asked for, so that no line
\* of a model is refused.
refused(line) == Mpl3 /\ line >= launcher.lines
get_homenode_port(line) == IF refused(line) THEN Fails ELSE map.l3_ports[(line % homes) + 1]
\* (faulty: the memory of the cache slice)
SubnodeOfSlice(line) == IF refused(line) THEN Fails ELSE map.mem_ports[((line % homes) % mems) + 1]
get_subnode_port(line) == IF refused(line) THEN Fails ELSE map.mem_ports[(line % mems) + 1]
get_reqnode_port(i) == IF i >= Len(map.l2_ports) THEN Fails ELSE map.l2_ports[i + 1]
get_reqnode_index(port) ==
  LET at == {i \in DOMAIN map.l2_ports : map.l2_ports[i] = port}
  IN IF at = {} THEN Fails ELSE (CHOOSE i \in at : TRUE) - 1

\* MemCtrlLineAddrMap of memory id, and the slice of an L3.
is_responsible(id, line) == line < launcher.lines /\ line % mems = id
get_local_mem_offset(line) == IF Mpl3 THEN line ELSE line \div mems
nuca_check(index, line) == line % homes = index
lindex_to_nuca_tag(line) == line \div homes
nuca_tag_to_lindex(index, tag) == tag * homes + index
-----------------------------------------------------------------------------
Object(kind, no, port) == [kind |-> kind, no |-> no, port |-> port]
ObjectsOf(kind, ports) == [k \in DOMAIN ports |-> Object(kind, k - 1, ports[k])]
\* The objects in the order they are made.  mpl1l2 asks the mapping for every port, inside
\* assertions (which a release build leaves out); mpl3 reads its vectors.
mp_moesi_l3 ==
  ObjectsOf("memory", map.mem_ports) \o ObjectsOf("llc", map.l3_ports)
  \o ObjectsOf("cache", SubSeq(map.l2_ports, 1, launcher.cpu_num))
  \o <<Object("dma", 0, map.l2_ports[Len(map.l2_ports)])>>
mp_moesi_l1l2 ==
  <<Object("memory", 0, get_subnode_port(0)), Object("llc", 0, get_homenode_port(0))>>
  \o [k \in 1 .. 2 * launcher.cpu_num |-> Object("cache", k - 1, get_reqnode_port(k - 1))]
  \o <<Object("dma", 0, get_reqnode_port(2 * launcher.cpu_num))>>
Plan == IF Mpl3 THEN mp_moesi_l3 ELSE mp_moesi_l1l2

launchInit ==
  /\ launcher \in LaunchParams
  /\ map = IF Mpl3 THEN MultiCoreL3BusMapping(launcher) ELSE MultiCoreL1L2BusMapping(launcher)
  /\ objects = {}
add_sim_object == /\ Cardinality(objects) < Len(Plan)
                  /\ objects' = objects \cup {Plan[Cardinality(objects) + 1]}
                  /\ UNCHANGED <<launcher, map>>
-----------------------------------------------------------------------------
At(port) == CHOOSE o \in objects : o.port = port

\* A machine is wired right when it starts: every port has one component, and the routes lead
\* from each to each.  A line's home port is that of the slice that takes it for its own, and
\* different lines stay different there; its memory port is that of the one memory node that
\* answers for it, each line at a place of its own.  The directory's number of a requester
\* is the one at whose port it can be reached.
MachineWired ==
  Cardinality(objects) = Len(Plan) =>
    LET ports == DOMAIN map.port2node
        lines == 0 .. launcher.lines - 1
        requesters == {o \in objects : o.kind \in {"cache", "dma"}}
    IN /\ {o.port : o \in objects} = ports /\ Cardinality(ports) = Cardinality(objects)
       /\ RouteValid(genroute_double_ring(ring), NodesOf(ring))
       /\ \A line \in lines :
            /\ LET home == At(get_homenode_port(line))
                   tag == lindex_to_nuca_tag(line)
               IN home.kind = "llc" /\ nuca_check(home.no, line) /\ nuca_tag_to_lindex(home.no, tag) = line
            /\ LET mem == At(get_subnode_port(line))
               IN /\ mem.kind = "memory"
                  /\ {o \in objects : o.kind = "memory" /\ is_responsible(o.no, line)} = {mem}
            /\ get_local_mem_offset(line) \in lines
            /\ \A other \in lines \ {line} : get_local_mem_offset(other) # get_local_mem_offset(line)
       /\ \A o \in requesters : /\ get_reqnode_index(o.port) \in 0 .. Cardinality(requesters) - 1
                                /\ get_reqnode_port(get_reqnode_index(o.port)) = o.port
                                /\ o.kind = "cache" => get_reqnode_index(o.port) = o.no
=============================================================================
