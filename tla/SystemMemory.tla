---------------------------- MODULE SystemMemory ----------------------------
(***************************************************************************)
(* SyscallMemory (sys/syscallmem.cpp): the memory the simulator and the    *)
(* proxy library share, given out first fit in blocks of 64 bytes.  One    *)
(* unit here is one block; base is 0.                                      *)
(***************************************************************************)
EXTENDS Integers, Sequences, FiniteSets, SequencesExt, Functions

CONSTANTS
  SmemHead,    \* the 4096 bytes before the first block given out
  SmemSize,    \* size
  SmemLens     \* the lengths asked for

ASSUME SmemAssumption == SmemHead \in Nat /\ SmemSize \in Nat \ {0} /\ SmemLens \subseteq Nat

VARIABLES
  free_segs,   \* [at, len], from low to high
  alloced_segs \* the same, those given out
smemVars == <<free_segs, alloced_segs>>

\* The segment that is free at first ends SmemHead past the memory.
smemInit ==
  /\ free_segs = <<[at |-> SmemHead, len |-> SmemSize]>>
  /\ alloced_segs = {}

Segment == [at : Nat, len : Nat \ {0}]
End(s) == s.at + s.len
Fits(k, n) == free_segs[k].len >= n
Shortened(s, n) == [at |-> s.at + n, len |-> s.len - n]

\* Entered under its address, unless there is an entry already: of a request for nothing.
Recorded(ss, s) == IF \E r \in ss : r.at = s.at THEN ss ELSE ss \cup {s}

\* Without room the simulator exits.
smem_alloc == \E n \in SmemLens, k \in DOMAIN free_segs :
  LET s == free_segs[k] IN
  /\ Fits(k, n) /\ \A j \in 1 .. k - 1 : ~Fits(j, n)
  /\ alloced_segs' = Recorded(alloced_segs, [at |-> s.at, len |-> n])
  /\ free_segs' = IF s.len = n THEN RemoveAt(free_segs, k)
                  ELSE ReplaceAt(free_segs, k, Shortened(s, n))

\* One pass over the list joins each segment with the one before it that it touches.
JoinedNever(ss) == ss   \* (faulty: freed segments are not joined)
Longer(m, n) == IF m >= n THEN m ELSE n
Adds(out, s) ==
  LET k == Len(out) IN
  IF k > 0 /\ End(out[k]) >= s.at
  THEN [out EXCEPT ![k].len = Longer(@, End(s) - out[k].at)]
  ELSE Append(out, s)
Joined(ss) ==
  LET out[k \in 0 .. Len(ss)] == IF k = 0 THEN <<>> ELSE Adds(out[k - 1], ss[k])
  IN  out[Len(ss)]

smem_free == \E s \in alloced_segs :
  LET higher == {k \in DOMAIN free_segs : free_segs[k].at > s.at}
      k == IF higher = {} THEN Len(free_segs) + 1
           ELSE CHOOSE j \in higher : \A i \in higher : j <= i
  IN
  /\ alloced_segs' = alloced_segs \ {s}
  /\ free_segs' = Joined(InsertAt(free_segs, k, s))

smemNext == smem_alloc \/ smem_free
smemSpec == smemInit /\ [][smemNext]_smemVars
-----------------------------------------------------------------------------
\* Every block is in exactly one segment, free or given out, and free segments are
\* as long as they can be: a block given out twice would be written by two calls, and
\* a free one that is not joined is lost for long requests.
SmemPartitioned ==
  LET all == Range(free_segs) \cup alloced_segs
      blocks(s) == s.at .. s.at + s.len - 1
  IN
  /\ \A s, r \in all : s # r => blocks(s) \cap blocks(r) = {}
  /\ UNION {blocks(s) : s \in all} = SmemHead .. SmemHead + SmemSize - 1
  /\ Range(free_segs) \cap alloced_segs = {}
  /\ \A k \in 1 .. Len(free_segs) - 1 :
       free_segs[k].at + free_segs[k].len < free_segs[k + 1].at

=============================================================================
