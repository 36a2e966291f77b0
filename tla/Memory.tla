------------------------------- MODULE Memory -------------------------------
(***************************************************************************)
(* memory.c: the page bitmap built from the boot loader's memory map, the  *)
(* physical page allocator on it, and the bump heap that kmalloc serves.   *)
(*                                                                         *)
(* Arithmetic the code does in uint32_t is modulo Word.  The bitmap is the *)
(* set `used' of the page numbers below total_pages whose bit is set.      *)
(* The ghost variables held and blocks record what callers were given.     *)
(***************************************************************************)
EXTENDS Integers, FiniteSets, Sequences

CONSTANTS
  PageSize,    \* PAGE_SIZE
  HeapSize,    \* HEAP_SIZE
  Word,        \* 2^32
  KernelEnd,   \* the address of _kernel_end, from the linker script
  MemoryMaps,  \* memory maps a boot loader may pass: finite sets of entries
  Requests     \* the <<size, align>> pairs that callers pass to kmalloc

Top == Word - 1                 \* 0xFFFFFFFF

ASSUME SizesAssumption ==
  /\ PageSize \in Nat \ {0} /\ HeapSize \in Nat /\ Word \in Nat \ {0}
  /\ KernelEnd \in Nat \ {0}

\* Pages fill the address space.
ASSUME PagesAssumption == Word % PageSize = 0

ASSUME MapsAssumption ==
  \A m \in MemoryMaps :
    /\ IsFiniteSet(m)
    /\ \A e \in m : e.addr \in Nat /\ e.len \in Nat

ASSUME RequestsAssumption ==
  \A r \in Requests :
    /\ r[1] \in Nat /\ r[2] \in Nat
    /\ r[2] = 0 \/ \E k \in 0..32 : r[2] = 2^k

\* The kernel image, the bitmap (a bit per page, at most Word \div PageSize of
\* them, and two roundings to 16), the heap and one request end below the top
\* of the address space.  The linker script loads the kernel at 1 MiB; the
\* bitmap has at most 128 KiB and the heap 4 MiB.
ASSUME RoomAssumption ==
  /\ KernelEnd + 48 + (Word \div PageSize) + HeapSize + PageSize + 4 < Word
  /\ \A r \in Requests :
       KernelEnd + 48 + (Word \div PageSize) + HeapSize + r[1] + r[2] + 4 < Word

VARIABLES
  phase,        \* "boot", "up" after memory_init, "panic"
  mmap,         \* the memory map the boot loader passed
  total_pages, used, free_pages,
  last,         \* the static local of phys_alloc_page
  heap_start,   \* ghost: heap_curr as memory_init left it
  heap_curr, heap_limit,
  answer,       \* the address the latest phys_alloc_page returned
  held,         \* ghost: pages that callers of phys_alloc_page hold
  blocks        \* ghost: what kmalloc has returned, in order

poolVars == <<total_pages, used, free_pages, last, answer, held>>
heapVars == <<heap_start, heap_curr, heap_limit, blocks>>
vars == <<phase, mmap, poolVars, heapVars>>

-----------------------------------------------------------------------------
\* Mutant of align_up: it rounds down.
align_up_down(v, a) == (v \div a) * a

\* (v + a - 1) & ~(a - 1) in uint32_t, for a power of two a.
align_up(v, a) == (((v + a - 1) % Word) \div a) * a

Pages == 0 .. total_pages - 1

\* Mutant of PageRange: the last page is left out unless it is whole.
PageRangeWhole(start, end, n) ==
  {i \in 0 .. n - 1 : start \div PageSize <= i /\ i < end \div PageSize}

\* The pages of a loop from start to end; end + PAGE_SIZE - 1 may wrap.
PageRange(start, end, n) ==
  {i \in 0 .. n - 1 : /\ start \div PageSize <= i
                      /\ i < ((end + PageSize - 1) % Word) \div PageSize}

\* entry->addr + entry->len in uint64_t.
EndOf(e) == (e.addr + e.len) % (Word * Word)
Clamp(a) == IF a > Top THEN Top ELSE a

\* Mutant of Freed: reserved entries are freed too.
FreedAnyType(m, n) ==
  UNION {PageRange(e.addr, Clamp(EndOf(e)), n) : e \in {d \in m : d.addr <= Top}}

\* What the loop over the map clears: a bit is tested before it is cleared,
\* so a page of two entries is cleared and counted once.
Freed(m, n) ==
  UNION {PageRange(e.addr, Clamp(EndOf(e)), n) :
           e \in {d \in m : d.type = 1 /\ d.addr <= Top}}

FreeRanges(m, n) ==
  [used |-> (0 .. n - 1) \ Freed(m, n), free |-> Cardinality(Freed(m, n))]

\* Mutant of reserve_range: every page lowers the count, set or clear.
reserve_range_counts_all(s, start, end, n) ==
  LET k == Cardinality(PageRange(start, end, n))
  IN  [used |-> s.used \cup PageRange(start, end, n),
       free |-> IF s.free > k THEN s.free - k ELSE 0]

\* reserve_range on bitmap and counter: only a clear bit lowers the count.
reserve_range(s, start, end, n) ==
  LET taken == PageRange(start, end, n) \ s.used
      k     == Cardinality(taken)
  IN  [used |-> s.used \cup taken,
       free |-> IF s.free > k THEN s.free - k ELSE 0]

-----------------------------------------------------------------------------
Init ==
  /\ phase = "boot"
  /\ mmap \in MemoryMaps
  /\ total_pages = 0 /\ used = {} /\ free_pages = 0
  /\ last = 0 /\ answer = 0 /\ held = {}
  /\ heap_start = 0 /\ heap_curr = 0 /\ heap_limit = 0 /\ blocks = << >>

\* No map tag, no entry, or only entries that end at 0.
EmptyMapPanic ==
  /\ phase = "boot"
  /\ \A e \in mmap : EndOf(e) = 0
  /\ phase' = "panic"
  /\ UNCHANGED <<mmap, poolVars, heapVars>>

memory_init ==
  /\ phase = "boot"
  /\ \E max_addr \in {Clamp(EndOf(e)) : e \in mmap} :
       LET n       == (max_addr + PageSize - 1) \div PageSize
           bitmap  == align_up(KernelEnd, 16)
           start   == align_up(bitmap + ((n + 7) \div 8), 16)
           limit   == (start + HeapSize) % Word
           clamped == IF limit > max_addr THEN max_addr ELSE limit
           s       == reserve_range(FreeRanges(mmap, n), 0, clamped, n)
       IN  /\ max_addr > 0
           /\ \A e \in mmap : Clamp(EndOf(e)) <= max_addr
           /\ total_pages' = n
           /\ used' = s.used
           /\ free_pages' = s.free
           /\ heap_start' = start
           /\ heap_curr' = start
           /\ heap_limit' = clamped
  /\ phase' = "up"
  /\ UNCHANGED <<mmap, last, answer, held, blocks>>

kmalloc(size, align) ==
  LET a    == IF align = 0 THEN 4 ELSE align
      curr == align_up(heap_curr, a)
      next == (curr + size) % Word
  IN  /\ phase = "up"
      /\ \/ /\ size # 0
            /\ next <= heap_limit
            /\ heap_curr' = next
            /\ blocks' = Append(blocks, [lo |-> curr, hi |-> next, align |-> a])
         \/ /\ size = 0 \/ next > heap_limit
            /\ UNCHANGED <<heap_curr, blocks>>
      /\ UNCHANGED <<phase, mmap, poolVars, heap_start, heap_limit>>

\* Mutant of Candidate: the scan does not wrap at the last page.
CandidateUnwrapped(i) == last + i

\* The page that iteration i of the scan looks at.
Candidate(i) == (last + i) % total_pages

AllocPage ==
  /\ phase = "up"
  /\ \E i \in Pages :
       /\ Candidate(i) \notin used
       /\ \A j \in 0 .. i - 1 : Candidate(j) \in used
       /\ used' = used \cup {Candidate(i)}
       /\ held' = held \cup {Candidate(i)}
       /\ last' = Candidate(i) + 1
       /\ answer' = Candidate(i) * PageSize
  /\ free_pages' = IF free_pages > 0 THEN free_pages - 1 ELSE 0
  /\ UNCHANGED <<phase, mmap, total_pages, heapVars>>

\* Mutant of AllocFails: the scan gives up at the last page.
AllocFailsAtEnd ==
  /\ phase = "up"
  /\ \A p \in Pages : p >= last => p \in used
  /\ answer' = 0
  /\ UNCHANGED <<phase, mmap, total_pages, used, free_pages, last, held, heapVars>>

AllocFails ==
  /\ phase = "up"
  /\ \A i \in Pages : Candidate(i) \in used
  /\ answer' = 0
  /\ UNCHANGED <<phase, mmap, total_pages, used, free_pages, last, held, heapVars>>

phys_alloc_page == AllocPage \/ AllocFails

\* What a caller may pass to phys_free_page: a page it holds, or an address
\* that one of the three guards of the code turns away.
FreeArguments ==
  {a \in 0 .. Top : LET idx == a \div PageSize
                    IN  \/ a % PageSize # 0
                        \/ idx >= total_pages
                        \/ idx \in held
                        \/ idx \notin used}

phys_free_page(addr) ==
  LET idx == addr \div PageSize
  IN  /\ phase = "up"
      /\ \/ /\ addr % PageSize = 0 /\ idx < total_pages /\ idx \in used
            /\ used' = used \ {idx}
            /\ held' = held \ {idx}
            /\ free_pages' = free_pages + 1
         \/ /\ addr % PageSize # 0 \/ idx >= total_pages \/ idx \notin used
            /\ UNCHANGED <<used, held, free_pages>>
      /\ UNCHANGED <<phase, mmap, total_pages, last, answer, heapVars>>

\* memory_get_stats fills used_pages with this.
used_pages == total_pages - free_pages

\* panic() halts the machine.
Halted == phase = "panic" /\ UNCHANGED vars

Next ==
  \/ EmptyMapPanic
  \/ memory_init
  \/ \E r \in Requests : kmalloc(r[1], r[2])
  \/ phys_alloc_page
  \/ \E a \in FreeArguments : phys_free_page(a)
  \/ Halted

Spec == Init /\ [][Next]_vars

-----------------------------------------------------------------------------
TypeOK ==
  /\ phase \in {"boot", "up", "panic"}
  /\ mmap \in MemoryMaps
  /\ total_pages \in Nat
  /\ used \subseteq Pages
  /\ held \subseteq Pages
  /\ free_pages \in Nat
  /\ last \in 0 .. total_pages
  /\ answer \in Nat
  /\ heap_start \in Nat /\ heap_curr \in Nat /\ heap_limit \in Nat
  /\ blocks \in Seq([lo : Nat, hi : Nat, align : Nat])

\* The statistics of memory_get_stats are exact: the counter that four
\* functions raise and lower one page at a time always equals the number of
\* set bits, also after overlapping map entries and refused frees.
StatsExact == used_pages = Cardinality(used)

\* Nothing is owned twice: a page a caller holds is marked used, and it lies
\* above the kernel image, the bitmap and every byte kmalloc can hand out.
HeldPagesPrivate ==
  \A p \in held :
    /\ p \in used
    /\ p * PageSize >= KernelEnd
    /\ p * PageSize >= heap_limit

\* kmalloc never returns overlapping blocks, nor a block outside the heap, and
\* a block has the alignment its caller asked for (the EHCI descriptors of
\* ehci_transfer.c need 32).
BlocksSound ==
  \A i \in 1 .. Len(blocks) :
    /\ heap_start <= blocks[i].lo
    /\ blocks[i].lo < blocks[i].hi
    /\ blocks[i].hi <= heap_limit
    /\ (blocks[i].lo % blocks[i].align) = 0
    /\ \A j \in 1 .. i - 1 : blocks[j].hi <= blocks[i].lo

\* Every entry of usable memory begins and ends on a page boundary, or where
\* memory_init reserves everything anyway; and its last page does not reach
\* the top of the address space.
Regular(m) ==
  \A e \in m : e.type = 1 =>
    /\ e.addr < heap_limit \/ e.addr % PageSize = 0
    /\ EndOf(e) < heap_limit \/ EndOf(e) % PageSize = 0
    /\ e.addr + e.len < Word

Ram(p) ==
  /\ p * PageSize >= heap_limit
  /\ \E e \in mmap : /\ e.type = 1
                     /\ e.addr <= p * PageSize
                     /\ (p + 1) * PageSize <= EndOf(e)

\* On a page-aligned map the allocator serves exactly the usable memory above
\* the heap: no page of a hole or of a reserved entry, and none is forgotten.
PoolIsRam ==
  phase = "up" /\ Regular(mmap) =>
    {p \in Pages : p \notin used \/ p \in held} = {p \in Pages : Ram(p)}

\* A page number or the abstract allocator's refusal.
PoolAnswer == IF answer = 0 THEN -1 ELSE answer \div PageSize

\* phys_alloc_page and phys_free_page implement the page pool: 0 is returned
\* only when nothing is free, a page is never given to a second holder, and
\* the published count is the size of the pool.
Pool == INSTANCE PagePool WITH
          NoPage <- -1,
          open   <- phase = "up",
          pool   <- Pages \ used,
          count  <- free_pages,
          answer <- PoolAnswer
PoolSpec == Pool!Spec
=============================================================================
