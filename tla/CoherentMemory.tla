--------------------------- MODULE CoherentMemory ---------------------------
(***************************************************************************)
(* What the caches promise the CPUs: a line has one value, which changes   *)
(* only by the store of a cache that may write it; a cache may write only  *)
(* while no other may even read.                                           *)
(***************************************************************************)
CONSTANTS
  Caches,   \* the L1 caches
  Lines,    \* the cache lines
  Values,   \* what a line may contain
  Initial   \* what every line contains at first, one of Values

VARIABLES
  perm,     \* perm[c][l]: what cache c may do with line l
  val       \* val[l]: the value of line l

vars == <<perm, val>>

Perms == {"none", "read", "write"}

Init ==
  /\ perm = [c \in Caches |-> [l \in Lines |-> "none"]]
  /\ val = [l \in Lines |-> Initial]

\* The rights c may come to have while those of the others stay as they are.
Allowed(c, l, p) ==
  \A d \in Caches \ {c} :
    /\ p = "write" => perm[d][l] = "none"
    /\ p = "read" => perm[d][l] # "write"

\* One cache gains and loses rights: the line it receives may evict another.
Move(c) ==
  /\ \E f \in [Lines -> Perms] :
       /\ \A l \in Lines : Allowed(c, l, f[l])
       /\ perm' = [perm EXCEPT ![c] = f]
  /\ UNCHANGED val

Store(c, l) ==
  /\ perm[c][l] = "write"
  /\ \E v \in Values : val' = [val EXCEPT ![l] = v]
  /\ UNCHANGED perm

Next == \E c \in Caches : Move(c) \/ \E l \in Lines : Store(c, l)

Spec == Init /\ [][Next]_vars
=============================================================================
