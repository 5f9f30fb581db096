--------------------------- MODULE ProcessMemory ---------------------------
(***************************************************************************)
(* The memory of the simulated processes: PhysPageAllocator and            *)
(* ThreadPageTable (sys/pagemmap.h), the part of RVThread that forks,      *)
(* maps, protects and translates (sys/rvthread.cpp, .h), and the copy on   *)
(* write fault, whose copy the proxy library makes in the guest.           *)
(*                                                                         *)
(* A page table belongs to one process; the threads of it that share the   *)
(* table (CLONE_VM) are one thread here, so that no lock is seen.          *)
(***************************************************************************)
EXTENDS Integers, Sequences, FiniteSets, SequencesExt, Functions

CONSTANTS
  NumProcs,    \* bounds the processes ever forked
  NumPages,    \* physical pages: none is ever handed out again
  HeapTop,     \* bounds the heap: virtual pages 1 .. HeapTop
  MmapTop,     \* MAX_MMAP_VADDR in pages: mappings are HeapTop + 1 .. MmapTop - 1
  Lens,        \* the lengths of mappings, in pages
  Touched,     \* the virtual pages the programs write and protect
  StoreFlag,   \* what a CPU asks v_to_p for a store: "w" (pipeline5), "r" (xslsu)
  ProtectShared \* whether mprotect may make a page writable that others use, too

ASSUME MemAssumption ==
  /\ NumProcs \in Nat \ {0} /\ NumPages \in Nat \ {0, 1}
  /\ HeapTop \in Nat \ {0} /\ MmapTop \in Nat /\ HeapTop + 1 < MmapTop
  /\ Lens \subseteq Nat \ {0}

Procs == 1 .. NumProcs
PPages == 1 .. NumPages
Values == 0 .. 1

VARIABLES
  pgtable,     \* pgtable[p]: virtual page -> PPageEntry [ppi, flg]
  segs,        \* segs[p]: mmap_segments, [vpi, cnt], from high to low
  brk,         \* brk[p]: brk_va in half pages
  refs,        \* alloced_pages: physical page -> how often it is used
  next,        \* the front of valid_pages
  content,     \* what a physical page holds
  fault,       \* fault[p]: [missed, tmp, copied] while the fault handler runs
  written      \* written[p]: virtual page -> what p, or whom it was forked from,
               \* wrote there last

memVars == <<pgtable, segs, brk, refs, next, content, fault, written>>

NoFault == [missed |-> 0, tmp |-> 0, copied |-> FALSE]
Live == {p \in Procs : DOMAIN pgtable[p] # {}}
Runs(p) == p \in Live /\ fault[p] = NoFault
Flags == {{"r", "w"}, {"r", "w", "share"}}
Pages(v, n) == v .. v + n - 1

\* Entries put into a table; those that were there at the same places are overwritten.
Over(new, old) ==
  [v \in DOMAIN new \cup DOMAIN old |-> IF v \in DOMAIN new THEN new[v] ELSE old[v]]

\* __alloc_multi_page: the virtual pages vs get the next physical ones.
NewEntries(vs, flg) ==
  [v \in vs |-> [ppi |-> next + Cardinality({u \in vs : u < v}), flg |-> flg]]
Alloc(n) ==
  /\ next + n - 1 <= NumPages /\ next' = next + n
NewRefs(n) == [q \in next .. next + n - 1 |-> 1]

\* PhysPageAllocator::free for every page of the entries in tab.
FreeKept(rs, tab) == rs   \* (faulty: nothing is freed)
Free(rs, tab) ==
  LET uses(q) == Cardinality({v \in DOMAIN tab : tab[v].ppi = q})
      left == {q \in DOMAIN rs : rs[q] > uses(q)}
  IN  [q \in left |-> rs[q] - uses(q)]
\* PhysPageAllocator::reuse
Reuse(rs, tab) ==
  [q \in DOMAIN rs |-> rs[q] + Cardinality({v \in DOMAIN tab : tab[v].ppi = q})]
is_shared(q) == q \in DOMAIN refs /\ refs[q] > 1

\* The heap page and the stack elf_exec sets up.
ImagePages == {1, MmapTop - 1}
memInit ==
  /\ next = 1 + Cardinality(ImagePages)
  /\ pgtable = [p \in Procs |-> IF p = 1 THEN
        [v \in ImagePages |-> [ppi |-> IF v = 1 THEN 1 ELSE 2, flg |-> {"r", "w"}]] ELSE <<>>]
  /\ segs = [p \in Procs |-> IF p = 1 THEN <<[vpi |-> MmapTop - 1, cnt |-> 1]>> ELSE <<>>]
  /\ brk = [p \in Procs |-> IF p = 1 THEN 4 ELSE 0]
  /\ refs = [q \in 1 .. 2 |-> 1]
  /\ content = [q \in PPages |-> 0]
  /\ fault = [p \in Procs |-> NoFault]
  /\ written = [p \in Procs |-> IF p = 1 THEN [v \in ImagePages |-> 0] ELSE <<>>]

\* Process p maps the pages vs; they hold zero.
Maps(p, tab, rs, ws, vs, flg) ==
  /\ Alloc(Cardinality(vs))
  /\ pgtable' = [pgtable EXCEPT ![p] = Over(NewEntries(vs, flg), tab)]
  /\ refs' = Over(NewRefs(Cardinality(vs)), rs)
  /\ written' = [written EXCEPT ![p] = Over([v \in vs |-> 0], ws)]
  /\ UNCHANGED <<content, fault>>
-----------------------------------------------------------------------------
(* The heap: alloc_brk.  brk_va need not be the start of a page. *)

PageUp(b) == (b + 1) \div 2
sys_brk(p) == \E b \in brk[p] + 1 .. 2 * (HeapTop + 1) :
  LET vs == PageUp(brk[p]) .. PageUp(b) - 1 IN
  /\ Runs(p)
  /\ Maps(p, pgtable[p], refs, written[p], vs, {"r", "w"})
  /\ brk' = [brk EXCEPT ![p] = b]
  /\ UNCHANGED segs
-----------------------------------------------------------------------------
(* Mappings. *)

\* The page alloc_mmap gives n pages: under the lowest segment, from the top down,
\* that leaves no room above it.
FindRoom(ss, n) ==
  LET above(k) == IF k = 1 THEN MmapTop ELSE ss[k - 1].vpi
      fits == {k \in 1 .. Len(ss) : ss[k].vpi + ss[k].cnt + n <= above(k)}
      k == IF fits = {} THEN Len(ss) + 1 ELSE CHOOSE j \in fits : \A i \in fits : j <= i
  IN  [at |-> k, vpi |-> above(k) - n]

sys_mmap(p) == \E n \in Lens, flg \in Flags :
  LET room == FindRoom(segs[p], n) IN
  /\ Runs(p) /\ Pages(room.vpi, n) \subseteq HeapTop + 1 .. MmapTop - 1
  /\ segs' = [segs EXCEPT ![p] = InsertAt(@, room.at, [vpi |-> room.vpi, cnt |-> n])]
  /\ Maps(p, pgtable[p], refs, written[p], Pages(room.vpi, n), flg)
  /\ UNCHANGED brk

\* What free_mmap leaves of segment s without the pages v .. e - 1: nothing, one part,
\* or the upper and the lower part.
Cut(s, v, e) ==
  LET upper == IF e < s.vpi + s.cnt
               THEN <<[vpi |-> e, cnt |-> s.vpi + s.cnt - e]>> ELSE <<>>
      lower == IF v > s.vpi THEN <<[vpi |-> s.vpi, cnt |-> v - s.vpi]>> ELSE <<>>
  IN  IF s.vpi >= e \/ s.vpi + s.cnt <= v THEN <<s>> ELSE upper \o lower
FreeSegs(ss, v, n) == FlattenSeq([k \in DOMAIN ss |-> Cut(ss[k], v, v + n)])
Without(tab, vs) == Restrict(tab, DOMAIN tab \ vs)

sys_munmap(p) == \E v \in HeapTop + 1 .. MmapTop - 2, n \in Lens :
  LET vs == Pages(v, n) IN
  /\ Runs(p) /\ v + n < MmapTop
  /\ segs' = [segs EXCEPT ![p] = FreeSegs(@, v, n)]
  /\ refs' = Free(refs, Restrict(pgtable[p], vs \cap DOMAIN pgtable[p]))
  /\ pgtable' = [pgtable EXCEPT ![p] = Without(@, vs)]
  /\ written' = [written EXCEPT ![p] = Without(@, vs)]
  /\ UNCHANGED <<brk, next, content, fault>>

\* MAP_FIXED: what was there before goes.  (Private mappings only.)
sys_mmap_fixed(p) ==
  \E v \in HeapTop + 1 .. MmapTop - 2, n \in Lens :
  LET vs == Pages(v, n)
      left == FreeSegs(segs[p], v, n)
      under == {k \in DOMAIN left : left[k].vpi + left[k].cnt <= v}
      at == IF under = {} THEN Len(left) + 1 ELSE CHOOSE j \in under : \A i \in under : j <= i
  IN
  /\ Runs(p) /\ 2 * v > brk[p] /\ v + n < MmapTop
  /\ segs' = [segs EXCEPT ![p] = InsertAt(left, at, [vpi |-> v, cnt |-> n])]
  /\ Maps(p, Without(pgtable[p], vs),
          Free(refs, Restrict(pgtable[p], vs \cap DOMAIN pgtable[p])),
          Without(written[p], vs), vs, {"r", "w"})
  /\ UNCHANGED brk

\* Only the protection bits change: a page to be copied stays one.
sys_mprotect(p) == \E v \in Touched \cap DOMAIN pgtable[p], prot \in SUBSET {"w"} :
  /\ Runs(p)
  /\ prot = {} \/ ProtectShared \/ ~is_shared(pgtable[p][v].ppi)
  /\ pgtable' = [pgtable EXCEPT ![p][v].flg = (@ \ {"r", "w"}) \cup {"r"} \cup prot]
  /\ UNCHANGED <<segs, brk, refs, next, content, fault, written>>
-----------------------------------------------------------------------------
(* fork, execve, exit. *)

\* The private pages that may be written are to be copied, by the parent as well.
ToCopy(e) ==
  IF "w" \in e.flg /\ "share" \notin e.flg
  THEN [e EXCEPT !.flg = (@ \ {"w"}) \cup {"cow"}] ELSE e

fork(p) == \E c \in Procs \ Live :
  LET tab == [v \in DOMAIN pgtable[p] |-> ToCopy(pgtable[p][v])] IN
  /\ Runs(p)
  /\ pgtable' = [pgtable EXCEPT ![p] = tab, ![c] = tab]
  /\ refs' = Reuse(refs, tab)
  /\ segs' = [segs EXCEPT ![c] = segs[p]]
  /\ brk' = [brk EXCEPT ![c] = brk[p]]
  /\ written' = [written EXCEPT ![c] = written[p]]
  /\ UNCHANGED <<next, content, fault>>

elf_exec(p) ==
  /\ Runs(p)
  /\ Maps(p, <<>>, Free(refs, pgtable[p]), <<>>, ImagePages, {"r", "w"})
  /\ segs' = [segs EXCEPT ![p] = <<[vpi |-> MmapTop - 1, cnt |-> 1]>>]
  /\ brk' = [brk EXCEPT ![p] = 4]

\* The last thread with this table has ended: ~ThreadPageTable.
exit(p) ==
  /\ Runs(p) /\ Live # {p}
  /\ refs' = Free(refs, pgtable[p])
  /\ pgtable' = [pgtable EXCEPT ![p] = <<>>]
  /\ segs' = [segs EXCEPT ![p] = <<>>]
  /\ brk' = [brk EXCEPT ![p] = 0]
  /\ written' = [written EXCEPT ![p] = <<>>]
  /\ UNCHANGED <<next, content, fault>>
-----------------------------------------------------------------------------
(* Stores and the copy on write. *)

\* va2pa for a store: it goes on, owns a page nobody else uses any more, or faults.
OwnsAlways(q) == TRUE   \* (faulty: takes a page others still use)
Owns(q) == ~is_shared(q)
Store(p) == \E v \in Touched \cap DOMAIN pgtable[p], x \in Values :
  LET e == pgtable[p][v]
      may == StoreFlag \in e.flg
  IN
  /\ Runs(p)
  /\ may \/ ("cow" \in e.flg /\ Owns(e.ppi))
  /\ pgtable' = IF may THEN pgtable
                ELSE [pgtable EXCEPT ![p][v].flg = (@ \ {"cow"}) \cup {"w"}]
  /\ content' = [content EXCEPT ![e.ppi] = x]
  /\ written' = [written EXCEPT ![p][v] = x]
  /\ UNCHANGED <<segs, brk, refs, next, fault>>

\* The page fault: the page is new at once, the old one is readable elsewhere.
FirstFree(tab) == CHOOSE v \in MmapTop + 1 .. MmapTop + 1 + Cardinality(DOMAIN tab) :
  /\ v \notin DOMAIN tab
  /\ \A u \in MmapTop + 1 .. v - 1 : u \in DOMAIN tab
cow_realloc_missed_page(p) == \E v \in Touched \cap DOMAIN pgtable[p] :
  LET e == pgtable[p][v]
      tmp == FirstFree(pgtable[p])
  IN
  /\ Runs(p) /\ StoreFlag \notin e.flg /\ "cow" \in e.flg /\ ~Owns(e.ppi)
  /\ Alloc(1)
  /\ pgtable' = [pgtable EXCEPT ![p] =
       Over([u \in {v, tmp} |-> IF u = v THEN [ppi |-> next, flg |-> (e.flg \ {"cow"}) \cup {"w"}]
                                ELSE [ppi |-> e.ppi, flg |-> {"r"}]], @)]
  /\ refs' = Over(NewRefs(1), refs)
  /\ fault' = [fault EXCEPT ![p] = [missed |-> v, tmp |-> tmp, copied |-> FALSE]]
  /\ UNCHANGED <<segs, brk, content, written>>

\* proxy_501_pagefault copies the page in the guest,
CopyPage(p) ==
  /\ fault[p] # NoFault /\ ~fault[p].copied
  /\ content' = [content EXCEPT ![pgtable[p][fault[p].missed].ppi] =
                   content[pgtable[p][fault[p].tmp].ppi]]
  /\ fault' = [fault EXCEPT ![p].copied = TRUE]
  /\ UNCHANGED <<pgtable, segs, brk, refs, next, written>>

\* and gives the temporary page back.
cow_free_tmp_page(p) ==
  LET tmp == fault[p].tmp IN
  /\ fault[p].copied
  /\ refs' = Free(refs, Restrict(pgtable[p], {tmp}))
  /\ pgtable' = [pgtable EXCEPT ![p] = Without(@, {tmp})]
  /\ fault' = [fault EXCEPT ![p] = NoFault]
  /\ UNCHANGED <<segs, brk, next, content, written>>
-----------------------------------------------------------------------------
memNext == \E p \in Procs :
  \/ sys_brk(p) \/ sys_mmap(p) \/ sys_mmap_fixed(p) \/ sys_munmap(p) \/ sys_mprotect(p)
  \/ fork(p) \/ elf_exec(p) \/ exit(p)
  \/ Store(p) \/ cow_realloc_missed_page(p) \/ CopyPage(p) \/ cow_free_tmp_page(p)

memSpec == memInit /\ [][memNext]_memVars
-----------------------------------------------------------------------------
MemTypeOK ==
  /\ \A p \in Procs : \A v \in DOMAIN pgtable[p] :
       pgtable[p][v].ppi \in PPages
       /\ pgtable[p][v].flg \subseteq {"r", "w", "share", "cow"}
  /\ DOMAIN refs \subseteq 1 .. next - 1 /\ next \in 1 .. NumPages + 1
  /\ content \in [PPages -> Values]

\* A process finds in its private pages what it wrote itself, or what it was forked
\* with, whatever its relatives have written since ("multi-process based on fork").
Isolated ==
  \A p \in Live : \A v \in DOMAIN written[p] :
    \/ "share" \in pgtable[p][v].flg
    \/ v = fault[p].missed /\ ~fault[p].copied
    \/ content[pgtable[p][v].ppi] = written[p][v]

\* A page is counted once for every entry that leads to it, temporary ones included:
\* counted less it would be written while shared, counted more never be owned again.
RefsExact ==
  LET uses(q) == Cardinality({u \in Live \X (1 .. MmapTop + 2) :
                                u[2] \in DOMAIN pgtable[u[1]] /\ pgtable[u[1]][u[2]].ppi = q})
  IN  \A q \in 1 .. next - 1 : uses(q) = IF q \in DOMAIN refs THEN refs[q] ELSE 0

\* mmap_segments lists from high to low, without overlap, what is mapped.
SegsExact ==
  \A p \in Live :
    /\ \A k \in 1 .. Len(segs[p]) - 1 : segs[p][k + 1].vpi + segs[p][k + 1].cnt <= segs[p][k].vpi
    /\ UNION {Pages(s.vpi, s.cnt) : s \in Range(segs[p])}
       = {v \in DOMAIN pgtable[p] : HeapTop < v /\ v < MmapTop}

\* The three records of a page, table, count and segment, agree after every call.
PagesAccounted == RefsExact /\ SegsExact
=============================================================================
