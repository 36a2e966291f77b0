---------------------------- MODULE MemoryProofs ----------------------------
(***************************************************************************)
(* Theorems of Memory, for every page size, heap size, memory map and set  *)
(* of requests that satisfy the assumptions on the constants.              *)
(***************************************************************************)
EXTENDS Memory, NumberLemmas, FiniteSetTheorems, TLAPS

-----------------------------------------------------------------------------
(* align_up and the page loops. *)

\* align_up rounds up by less than the alignment when nothing wraps.
LEMMA AlignUpBounds ==
  ASSUME NEW v \in Nat, NEW a \in Nat \ {0}, v + a - 1 < Word
  PROVE  /\ align_up(v, a) \in Nat
         /\ v <= align_up(v, a)
         /\ align_up(v, a) <= v + a - 1
         /\ (align_up(v, a) % a) = 0
<1> DEFINE x == v + a - 1
<1>1. x \in Nat /\ x < Word
  OBVIOUS
<1>2. (x % Word) = x
  BY <1>1, ModSmall, SizesAssumption
<1>3. align_up(v, a) = (x \div a) * a
  BY <1>2 DEF align_up
<1>4. /\ x \div a \in Nat
      /\ (x \div a) * a <= x
      /\ x < (x \div a) * a + a
  BY <1>1, DivBounds
<1>5. (x \div a) * a \in Nat
  BY <1>4
<1> HIDE DEF x
<1>6. (x \div a) * a > x - a
  BY <1>1, <1>4, <1>5
<1>7. (((x \div a) * a) % a) = 0
  BY <1>4, ModTimes
<1> QED BY <1>1, <1>3, <1>4, <1>5, <1>6, <1>7 DEF x

\* A page that reserve_range(0, end) leaves alone begins at end or later.
LEMMA BeyondRange ==
  ASSUME NEW end \in Nat, end + PageSize - 1 < Word,
         NEW n \in Nat, NEW p \in 0 .. n - 1, p \notin PageRange(0, end, n)
  PROVE  p * PageSize >= end
<1> DEFINE x == end + PageSize - 1
<1>1. x \in Nat /\ PageSize \in Nat \ {0} /\ p \in Nat
  BY SizesAssumption
<1>2. (x % Word) = x
  BY <1>1, ModSmall, SizesAssumption
<1>3. 0 \div PageSize = 0
  BY SizesAssumption
<1>4. p >= x \div PageSize
  <2>1. ~(p < x \div PageSize)
    BY <1>1, <1>2, <1>3 DEF PageRange
  <2>2. x \div PageSize \in Nat
    BY <1>1, DivBounds
  <2> HIDE DEF x
  <2> QED BY <1>1, <2>1, <2>2
<1>5. (x \div PageSize) * PageSize > x - PageSize /\ x \div PageSize \in Nat
  BY <1>1, DivBounds
<1>6. p * PageSize >= (x \div PageSize) * PageSize
  BY <1>1, <1>4, <1>5, TimesMonotone
<1>7. p * PageSize \in Nat /\ (x \div PageSize) * PageSize \in Nat
  BY <1>1, <1>5
<1>8. p * PageSize > x - PageSize
  BY <1>1, <1>5, <1>6, <1>7
<1> QED BY <1>1, <1>7, <1>8

-----------------------------------------------------------------------------
(* The scan of phys_alloc_page. *)

\* Every iteration looks at a page, and every page is looked at.
LEMMA ScanCovers ==
  ASSUME NEW n \in Nat \ {0}, NEW l \in 0 .. n
  PROVE  /\ \A i \in 0 .. n - 1 : ((l + i) % n) \in 0 .. n - 1
         /\ \A p \in 0 .. n - 1 : \E i \in 0 .. n - 1 : ((l + i) % n) = p
<1>1. \A i \in 0 .. n - 1 : ((l + i) % n) \in 0 .. n - 1
  BY ModBounds
<1>2. ASSUME NEW p \in 0 .. n - 1
      PROVE  \E i \in 0 .. n - 1 : ((l + i) % n) = p
  <2>1. CASE l <= p
    <3>1. /\ p - l \in 0 .. n - 1
          /\ l + (p - l) = p
          /\ (p % n) = p
      BY <2>1, ModSmall
    <3> QED BY <3>1
  <2>2. CASE l > p
    <3>1. /\ p + n - l \in 0 .. n - 1
          /\ l + (p + n - l) = p + n
          /\ ((p + n) % n) = p
      BY <2>2, ModBack
    <3> QED BY <3>1
  <2> QED BY <2>1, <2>2
<1> QED BY <1>1, <1>2

-----------------------------------------------------------------------------
(* What memory_init builds. *)

\* No heap pointer passes this.
HeapTop == KernelEnd + 44 + (Word \div PageSize) + HeapSize

PagesOf(max_addr)  == (max_addr + PageSize - 1) \div PageSize
BitmapAt           == align_up(KernelEnd, 16)
HeapStartOf(n)     == align_up(BitmapAt + ((n + 7) \div 8), 16)
LimitOf(n, max)    == LET limit == (HeapStartOf(n) + HeapSize) % Word
                      IN  IF limit > max THEN max ELSE limit

\* memory_init's layout: no step of its arithmetic wraps, the bitmap and the
\* heap begin after the kernel image, and the bitmap covers the last page.
LEMMA BootLayout ==
  ASSUME NEW max \in 1 .. Top
  PROVE  LET n == PagesOf(max)
             limit == LimitOf(n, max)
         IN  /\ n \in Nat \ {0}
             /\ max <= n * PageSize
             /\ HeapStartOf(n) \in Nat
             /\ HeapStartOf(n) >= KernelEnd
             /\ HeapStartOf(n) <= HeapTop
             /\ limit \in Nat /\ limit <= HeapTop
             /\ limit = max \/ limit >= KernelEnd
<1> DEFINE n == PagesOf(max)
           w == Word \div PageSize
           limit == LimitOf(n, max)
<1> USE SizesAssumption
<1>1. max + PageSize - 1 \in Nat /\ max \in Nat /\ max < Word
  BY DEF Top
<1>2. w \in Nat
  BY DivBounds
<1>3. n \in Nat
  BY <1>1, DivBounds DEF PagesOf
<1>4. n <= w + 1
  <2>1. max + PageSize - 1 <= Word + PageSize /\ Word + PageSize \in Nat
    BY <1>1
  <2>2. n <= (Word + PageSize) \div PageSize
    BY <1>1, <2>1, DivMonotone DEF PagesOf
  <2>3. (Word + PageSize) \div PageSize = w + 1
    BY DivOneMore
  <2> QED BY <2>2, <2>3
<1>5. max <= n * PageSize
  <2>1. max + PageSize - 1 < n * PageSize + PageSize
    BY <1>1, DivBounds DEF PagesOf
  <2>2. n * PageSize \in Nat
    BY <1>3
  <2> QED BY <1>1, <2>1, <2>2
<1>6. n # 0
  BY <1>1, <1>5
<1>7. KernelEnd + 48 + w + HeapSize + PageSize + 4 < Word
  BY RoomAssumption
<1>8. /\ BitmapAt \in Nat /\ KernelEnd <= BitmapAt
      /\ BitmapAt <= KernelEnd + 15
  <2>1. KernelEnd + 16 - 1 < Word
    BY <1>2, <1>7
  <2> QED BY <2>1, AlignUpBounds DEF BitmapAt
<1>9. (n + 7) \div 8 \in Nat /\ (n + 7) \div 8 <= n
  <2> HIDE DEF n
  <2> QED BY <1>3, <1>6
<1>10. /\ HeapStartOf(n) \in Nat
       /\ BitmapAt <= HeapStartOf(n)
       /\ HeapStartOf(n) <= KernelEnd + 31 + w
  <2> DEFINE v == BitmapAt + ((n + 7) \div 8)
  <2> HIDE DEF n, w
  <2>1. v \in Nat /\ v <= KernelEnd + 16 + w /\ v >= BitmapAt
    BY <1>2, <1>3, <1>4, <1>8, <1>9
  <2>2. v + 16 - 1 < Word
    BY <1>2, <1>7, <2>1
  <2>3. /\ align_up(v, 16) \in Nat /\ v <= align_up(v, 16)
        /\ align_up(v, 16) <= v + 15
    <3> HIDE DEF v
    <3> QED BY <2>1, <2>2, AlignUpBounds
  <2>4. HeapStartOf(n) = align_up(v, 16)
    BY DEF HeapStartOf
  <2> HIDE DEF v
  <2> QED BY <1>2, <1>8, <2>1, <2>3, <2>4
<1>11. /\ (HeapStartOf(n) + HeapSize) % Word = HeapStartOf(n) + HeapSize
       /\ HeapStartOf(n) + HeapSize <= HeapTop
       /\ HeapStartOf(n) <= HeapTop
  <2> HIDE DEF n
  <2>1. HeapTop = KernelEnd + 44 + w + HeapSize
    BY DEF HeapTop
  <2> HIDE DEF w
  <2>2. HeapStartOf(n) + HeapSize \in Nat /\ HeapStartOf(n) + HeapSize < Word
    BY <1>2, <1>7, <1>10
  <2>3. ((HeapStartOf(n) + HeapSize) % Word) = HeapStartOf(n) + HeapSize
    BY <2>2, ModSmall
  <2> QED BY <1>2, <1>10, <2>1, <2>3
<1>12. \/ limit = max /\ max < HeapStartOf(n) + HeapSize
       \/ limit = HeapStartOf(n) + HeapSize
  <2> HIDE DEF n
  <2> QED BY <1>1, <1>10, <1>11 DEF LimitOf
<1>13. /\ limit \in Nat /\ limit <= HeapTop
       /\ limit = max \/ limit >= KernelEnd
  <2>1. HeapTop \in Nat
    BY <1>2 DEF HeapTop
  <2> HIDE DEF n, limit
  <2> QED BY <1>1, <1>8, <1>10, <1>11, <1>12, <2>1
<1>14. HeapStartOf(n) >= KernelEnd
  <2> HIDE DEF n
  <2> QED BY <1>8, <1>10
<1> QED BY <1>3, <1>5, <1>6, <1>10, <1>11, <1>13, <1>14

\* Reserving pages keeps the counter equal to the number of clear bits.
LEMMA MarkedCounts ==
  ASSUME NEW n \in Nat, NEW F \in SUBSET (0 .. n - 1), NEW limit
  PROVE  LET s == reserve_range([used |-> (0 .. n - 1) \ F,
                                 free |-> Cardinality(F)], 0, limit, n)
         IN  /\ s.used \subseteq 0 .. n - 1
             /\ PageRange(0, limit, n) \subseteq s.used
             /\ s.free \in Nat
             /\ s.free + Cardinality(s.used) = n
<1> DEFINE all   == 0 .. n - 1
           unset == all \ F
           taken == PageRange(0, limit, n) \ unset
           s     == reserve_range([used |-> unset, free |-> Cardinality(F)],
                                  0, limit, n)
<1>1. IsFiniteSet(all) /\ Cardinality(all) = n
  BY FS_Interval
<1>2. PageRange(0, limit, n) \subseteq all
  BY DEF PageRange
<1>3. taken \subseteq F
  BY <1>2
<1>4. /\ IsFiniteSet(F) /\ Cardinality(F) \in Nat
      /\ IsFiniteSet(taken) /\ Cardinality(taken) \in Nat
      /\ Cardinality(taken) <= Cardinality(F)
  <2>1. IsFiniteSet(F)
    BY <1>1, FS_Subset
  <2>2. IsFiniteSet(taken) /\ Cardinality(taken) <= Cardinality(F)
    BY <1>3, <2>1, FS_Subset
  <2> QED BY <2>1, <2>2, FS_CardinalityType
<1>5. IsFiniteSet(unset) /\ Cardinality(unset) = n - Cardinality(F)
  <2>1. all \cap F = F
    OBVIOUS
  <2> HIDE DEF all
  <2>2. Cardinality(unset) = Cardinality(all) - Cardinality(all \cap F)
    BY <1>1, FS_Difference
  <2> QED BY <1>1, <2>1, <2>2, FS_Difference
<1>6. Cardinality(unset \cup taken) = n - Cardinality(F) + Cardinality(taken)
  <2>1. unset \cap taken = {}
    OBVIOUS
  <2>2. Cardinality(unset \cap taken) = 0
    BY <2>1, FS_EmptySet
  <2>3. Cardinality(unset \cup taken)
          = Cardinality(unset) + Cardinality(taken) - Cardinality(unset \cap taken)
    BY <1>4, <1>5, FS_Union
  <2> QED BY <1>4, <1>5, <2>2, <2>3
<1>7. /\ s.used = unset \cup taken
      /\ s.free = Cardinality(F) - Cardinality(taken)
  <2>1. s.free = IF Cardinality(F) > Cardinality(taken)
                   THEN Cardinality(F) - Cardinality(taken) ELSE 0
    BY DEF reserve_range
  <2>2. s.used = unset \cup taken
    BY DEF reserve_range
  <2> HIDE DEF s, taken, unset
  <2> QED BY <1>4, <2>1, <2>2
<1>8. unset \cup taken \subseteq all /\ PageRange(0, limit, n) \subseteq unset \cup taken
  BY <1>2
<1>9. s.free \in Nat /\ s.free + Cardinality(s.used) = n
  <2> HIDE DEF s, taken, unset
  <2> QED BY <1>4, <1>6, <1>7
<1>10. s.used \subseteq all /\ PageRange(0, limit, n) \subseteq s.used
  BY <1>7, <1>8
<1> QED BY <1>9, <1>10

-----------------------------------------------------------------------------
(* The inductive invariant. *)

\* Before memory_init runs nothing has been built.
Fresh ==
  phase # "up" =>
    /\ total_pages = 0 /\ used = {} /\ free_pages = 0 /\ last = 0
    /\ answer = 0 /\ held = {} /\ blocks = << >>
    /\ heap_start = 0 /\ heap_curr = 0 /\ heap_limit = 0

Counted == free_pages + Cardinality(used) = total_pages

\* Every page that is free or handed out lies above kernel and heap.
OpenPagesAbove ==
  \A p \in Pages :
    p \notin used \/ p \in held =>
      p * PageSize >= KernelEnd /\ p * PageSize >= heap_limit

HeldUsed == held \subseteq used

HeapBounded ==
  /\ heap_start <= heap_curr
  /\ heap_curr <= HeapTop
  /\ heap_limit <= HeapTop

\* Every block lies below heap_curr, so the next one cannot overlap it.
BlocksBelow ==
  \A i \in 1 .. Len(blocks) :
    /\ heap_start <= blocks[i].lo
    /\ blocks[i].lo < blocks[i].hi
    /\ blocks[i].hi <= heap_limit
    /\ blocks[i].hi <= heap_curr
    /\ (blocks[i].lo % blocks[i].align) = 0
    /\ \A j \in 1 .. i - 1 : blocks[j].hi <= blocks[i].lo

PoolInv == OpenPagesAbove /\ HeldUsed /\ Counted
HeapInv == HeapBounded /\ BlocksBelow
Inv == TypeOK /\ Fresh /\ PoolInv /\ HeapInv

\* The invariant holds before memory_init.
LEMMA InitInv == Init => Inv
<1> SUFFICES ASSUME Init PROVE Inv
  OBVIOUS
<1> USE DEF Init
<1>1. TypeOK
  BY DEF TypeOK, Pages
<1>2. Cardinality({}) = 0
  BY FS_EmptySet
<1>3. PoolInv
  BY <1>2 DEF PoolInv, OpenPagesAbove, HeldUsed, Counted, Pages
<1>4. HeapTop \in Nat
  BY SizesAssumption, DivBounds DEF HeapTop
<1>5. HeapInv
  BY <1>4 DEF HeapInv, HeapBounded, BlocksBelow
<1> QED BY <1>1, <1>3, <1>5 DEF Inv, Fresh

\* An entry ends at a number, and where its fields say when that is a word.
LEMMA EndTyped ==
  ASSUME NEW m \in MemoryMaps, NEW e \in m
  PROVE  EndOf(e) \in Nat /\ (e.addr + e.len < Word => EndOf(e) < Word)
<1> DEFINE end == e.addr + e.len
           long == Word * Word
<1>1. end \in Nat /\ Word \in Nat \ {0}
  BY SizesAssumption, MapsAssumption
<1>2. long \in Nat \ {0} /\ Word <= long
  <2>1. 1 * Word <= Word * Word
    BY <1>1, TimesMonotone
  <2> QED BY <1>1, <2>1
<1>3. EndOf(e) = end % long
  BY DEF EndOf
<1> HIDE DEF end, long
<1>4. end % long \in Nat
  BY <1>1, <1>2, ModBounds
<1>5. end < Word => end % long = end
  BY <1>1, <1>2, ModSmall
<1> QED BY <1>1, <1>3, <1>4, <1>5 DEF end

\* memory_init establishes the part of the invariant about the running allocator.
LEMMA BootInv ==
  ASSUME Inv, memory_init
  PROVE  Inv'
<1> USE DEF Inv
<1>1. PICK max \in {Clamp(EndOf(e)) : e \in mmap} :
        LET n     == PagesOf(max)
            s     == reserve_range(FreeRanges(mmap, n), 0, LimitOf(n, max), n)
        IN  /\ max > 0
            /\ total_pages' = n
            /\ used' = s.used
            /\ free_pages' = s.free
            /\ heap_start' = HeapStartOf(n)
            /\ heap_curr' = HeapStartOf(n)
            /\ heap_limit' = LimitOf(n, max)
  BY DEF memory_init, PagesOf, HeapStartOf, LimitOf, BitmapAt
<1> DEFINE n == PagesOf(max)
           F == Freed(mmap, n)
           limit == LimitOf(n, max)
           s == reserve_range(FreeRanges(mmap, n), 0, limit, n)
<1>2. /\ mmap' = mmap /\ last' = last /\ answer' = answer /\ held' = held
      /\ blocks' = blocks /\ phase = "boot" /\ phase' = "up"
  BY DEF memory_init
<1>3. last = 0 /\ answer = 0 /\ held = {} /\ blocks = << >>
  BY <1>2 DEF Fresh
<1>4. max \in 1 .. Top
  <2>1. PICK e \in mmap : max = Clamp(EndOf(e))
    BY <1>1
  <2>2. EndOf(e) \in Nat
    BY <2>1, EndTyped DEF TypeOK
  <2>3. Top \in Nat
    BY SizesAssumption DEF Top
  <2> HIDE DEF n, F, limit, s
  <2> QED BY <1>1, <2>1, <2>2, <2>3 DEF Clamp
<1>5. /\ n \in Nat \ {0} /\ max <= n * PageSize
      /\ HeapStartOf(n) \in Nat /\ HeapStartOf(n) <= HeapTop
      /\ limit \in Nat /\ limit <= HeapTop
      /\ limit = max \/ limit >= KernelEnd
  BY <1>4, BootLayout
<1>6. F \subseteq 0 .. n - 1
  BY DEF Freed, PageRange
<1>7. /\ s.used \subseteq 0 .. n - 1
      /\ PageRange(0, limit, n) \subseteq s.used
      /\ s.free \in Nat
      /\ s.free + Cardinality(s.used) = n
  <2>1. FreeRanges(mmap, n) = [used |-> (0 .. n - 1) \ F, free |-> Cardinality(F)]
    BY DEF FreeRanges
  <2> HIDE DEF n, F, limit
  <2> QED BY <1>5, <1>6, <2>1, MarkedCounts
<1>8. Pages' = 0 .. n - 1
  BY <1>1 DEF Pages
<1>9. /\ used' = s.used /\ free_pages' = s.free /\ total_pages' = n
      /\ heap_start' = HeapStartOf(n) /\ heap_curr' = HeapStartOf(n)
      /\ heap_limit' = limit
  BY <1>1
<1> HIDE DEF n, F, limit, s
<1>10. TypeOK'
  BY <1>2, <1>3, <1>5, <1>7, <1>8, <1>9 DEF TypeOK
<1>11. OpenPagesAbove'
  <2> SUFFICES ASSUME NEW p \in 0 .. n - 1, p \notin s.used
               PROVE  p * PageSize >= KernelEnd /\ p * PageSize >= limit
    BY <1>2, <1>3, <1>8, <1>9 DEF OpenPagesAbove
  <2>1. limit + PageSize - 1 < Word
    <3>1. KernelEnd + 48 + (Word \div PageSize) + HeapSize + PageSize + 4 < Word
      BY RoomAssumption
    <3>2. Word \div PageSize \in Nat
      BY SizesAssumption, DivBounds
    <3> QED BY <1>5, <3>1, <3>2, SizesAssumption DEF HeapTop
  <2>2. p * PageSize >= limit
    BY <1>5, <1>7, <2>1, BeyondRange
  <2>3. p * PageSize \in Nat
    BY <1>5, SizesAssumption
  <2>4. CASE limit >= KernelEnd
    BY <1>5, <2>2, <2>3, <2>4, SizesAssumption
  <2>5. CASE limit = max
    <3>1. FALSE
      <4>1. 0 \div PageSize = 0
        BY SizesAssumption
      <4>2. PageRange(0, limit, n) = 0 .. n - 1
        <5>1. limit + PageSize - 1 \in Nat
          BY <1>5, SizesAssumption
        <5>2. ((limit + PageSize - 1) % Word) = limit + PageSize - 1
          BY <2>1, <5>1, ModSmall, SizesAssumption
        <5>3. (limit + PageSize - 1) \div PageSize = n
          BY <2>5 DEF n, PagesOf
        <5> QED BY <1>5, <4>1, <5>2, <5>3 DEF PageRange
      <4> QED BY <1>7, <4>2
    <3> QED BY <3>1
  <2> QED BY <1>5, <2>4, <2>5
<1>12. PoolInv'
  BY <1>2, <1>3, <1>7, <1>9, <1>11 DEF PoolInv, HeldUsed, Counted
<1>13. HeapInv'
  BY <1>2, <1>3, <1>5, <1>9 DEF HeapInv, HeapBounded, BlocksBelow, HeapTop
<1>14. Fresh'
  BY <1>2 DEF Fresh
<1> QED BY <1>10, <1>12, <1>13, <1>14

\* An element of a sequence over S is in S.
LEMMA SeqElement ==
  ASSUME NEW S, NEW s \in Seq(S), NEW i \in 1 .. Len(s)
  PROVE  s[i] \in S
  OBVIOUS

\* kmalloc keeps the invariant: the next block begins at or after heap_curr.
LEMMA KmallocInv ==
  ASSUME Inv, NEW r \in Requests, kmalloc(r[1], r[2])
  PROVE  Inv'
<1> DEFINE size == r[1]
           a    == IF r[2] = 0 THEN 4 ELSE r[2]
           curr == align_up(heap_curr, a)
           next == (curr + size) % Word
<1> USE DEF Inv
<1>1. /\ phase = "up" /\ phase' = phase /\ mmap' = mmap
      /\ UNCHANGED <<total_pages, used, free_pages, last, answer, held>>
      /\ heap_start' = heap_start /\ heap_limit' = heap_limit
  BY DEF kmalloc, poolVars
<1>2. CASE /\ size # 0 /\ next <= heap_limit
           /\ heap_curr' = next
           /\ blocks' = Append(blocks, [lo |-> curr, hi |-> next, align |-> a])
  <2>1. size \in Nat \ {0} /\ a \in Nat \ {0} /\ a <= r[2] + 4 /\ r[2] \in Nat
    BY <1>2, RequestsAssumption
  <2>2. /\ heap_curr \in Nat /\ heap_limit \in Nat /\ heap_start \in Nat
        /\ heap_start <= heap_curr /\ heap_curr <= HeapTop
        /\ HeapTop \in Nat
    BY SizesAssumption, DivBounds DEF TypeOK, HeapInv, HeapBounded, HeapTop
  <2>3. HeapTop + 4 + size + r[2] + 4 < Word
    <3>1. KernelEnd + 48 + (Word \div PageSize) + HeapSize + r[1] + r[2] + 4 < Word
      BY RoomAssumption
    <3>2. Word \div PageSize \in Nat
      BY SizesAssumption, DivBounds
    <3> QED BY <2>1, <3>1, <3>2, SizesAssumption DEF HeapTop
  <2> HIDE DEF size, a
  <2>4. heap_curr + a - 1 < Word
    BY <2>1, <2>2, <2>3, SizesAssumption
  <2>5. /\ curr \in Nat /\ heap_curr <= curr /\ curr <= heap_curr + a - 1
        /\ (curr % a) = 0
    BY <2>1, <2>2, <2>4, AlignUpBounds
  <2> HIDE DEF curr
  <2>6. curr + size \in Nat /\ curr + size < Word
    BY <2>1, <2>2, <2>3, <2>5, SizesAssumption
  <2>7. next = curr + size
    BY <2>6, ModSmall, SizesAssumption
  <2> HIDE DEF next
  <2>8. /\ next \in Nat /\ curr < next /\ heap_curr <= curr
        /\ heap_start <= curr /\ next <= HeapTop /\ next <= heap_limit
    <3>1. heap_limit <= HeapTop
      BY DEF HeapInv, HeapBounded
    <3> QED BY <1>2, <2>1, <2>2, <2>5, <2>7, <3>1
  <2> DEFINE block == [lo |-> curr, hi |-> next, align |-> a]
  <2>9. block \in [lo : Nat, hi : Nat, align : Nat]
    BY <2>1, <2>5, <2>8
  <2>10. blocks \in Seq([lo : Nat, hi : Nat, align : Nat])
    BY DEF TypeOK
  <2> DEFINE len == Len(blocks)
  <2>11. /\ len \in Nat /\ Len(blocks') = len + 1
         /\ blocks'[len + 1] = block
         /\ \A i \in 1 .. len : blocks'[i] = blocks[i]
         /\ blocks' \in Seq([lo : Nat, hi : Nat, align : Nat])
    BY <1>2, <2>9, <2>10
  <2>12. ASSUME NEW i \in 1 .. len
         PROVE  blocks[i].hi \in Nat
    <3>1. blocks[i] \in [lo : Nat, hi : Nat, align : Nat]
      BY <2>10, SeqElement
    <3> QED BY <3>1
  <2> HIDE DEF len
  <2>13. BlocksBelow'
    <3> SUFFICES ASSUME NEW i \in 1 .. len + 1
                 PROVE  /\ heap_start <= blocks'[i].lo
                        /\ blocks'[i].lo < blocks'[i].hi
                        /\ blocks'[i].hi <= heap_limit
                        /\ blocks'[i].hi <= next
                        /\ (blocks'[i].lo % blocks'[i].align) = 0
                        /\ \A j \in 1 .. i - 1 : blocks'[j].hi <= blocks'[i].lo
      BY <1>1, <1>2, <2>11 DEF BlocksBelow
    <3>0. \A j \in 1 .. len : /\ heap_start <= blocks[j].lo
                              /\ blocks[j].lo < blocks[j].hi
                              /\ blocks[j].hi <= heap_limit
                              /\ blocks[j].hi <= heap_curr
                              /\ (blocks[j].lo % blocks[j].align) = 0
                              /\ \A k \in 1 .. j - 1 : blocks[k].hi <= blocks[j].lo
      BY DEF HeapInv, BlocksBelow, len
    <3>1. CASE i \in 1 .. len
      <4>1. blocks'[i] = blocks[i] /\ \A j \in 1 .. i - 1 : blocks'[j] = blocks[j]
        <5>1. 1 .. i - 1 \subseteq 1 .. len
          BY <2>11, <3>1
        <5> QED BY <2>11, <3>1, <5>1
      <4>2. blocks[i].hi <= next
        BY <2>2, <2>5, <2>8, <2>12, <3>0, <3>1
      <4> QED BY <3>0, <3>1, <4>1, <4>2
    <3>2. CASE i = len + 1
      <4>1. /\ blocks'[i].lo = curr /\ blocks'[i].hi = next
            /\ blocks'[i].align = a
        BY <2>11, <3>2
      <4>2. ASSUME NEW j \in 1 .. i - 1
            PROVE  blocks'[j].hi <= curr
        <5>1. j \in 1 .. len
          BY <2>11, <3>2
        <5>2. blocks'[j] = blocks[j] /\ blocks[j].hi <= heap_curr
              /\ blocks[j].hi \in Nat
          BY <2>11, <2>12, <3>0, <5>1
        <5> QED BY <2>2, <2>5, <2>8, <5>2
      <4> QED BY <2>5, <2>8, <4>1, <4>2
    <3>3. i \in 1 .. len \/ i = len + 1
      BY <2>11
    <3> QED BY <3>1, <3>2, <3>3
  <2>14. HeapBounded'
    BY <1>1, <1>2, <2>2, <2>5, <2>8 DEF HeapInv, HeapBounded, HeapTop
  <2>15. TypeOK'
    BY <1>1, <1>2, <2>8, <2>11 DEF TypeOK, Pages
  <2>16. PoolInv' /\ Fresh'
    BY <1>1 DEF PoolInv, OpenPagesAbove, HeldUsed, Counted, Pages, Fresh
  <2> QED BY <2>13, <2>14, <2>15, <2>16 DEF HeapInv
<1>3. CASE UNCHANGED <<heap_curr, blocks>>
  BY <1>1, <1>3 DEF TypeOK, Pages, Fresh, PoolInv, OpenPagesAbove, HeldUsed,
                    Counted, HeapInv, HeapBounded, BlocksBelow, HeapTop
<1> QED BY <1>2, <1>3 DEF kmalloc

\* What a successful request does, in terms of one page.
LEMMA AllocTakes ==
  ASSUME Inv, AllocPage
  PROVE  /\ phase = "up"
         /\ free_pages > 0
         /\ free_pages' = free_pages - 1
         /\ UNCHANGED <<phase, mmap, total_pages, heapVars>>
         /\ \E p \in Pages : /\ p \notin used
                             /\ used' = used \cup {p}
                             /\ held' = held \cup {p}
                             /\ last' = p + 1
                             /\ answer' = p * PageSize
<1>1. PICK i \in Pages :
        /\ Candidate(i) \notin used
        /\ used' = used \cup {Candidate(i)}
        /\ held' = held \cup {Candidate(i)}
        /\ last' = Candidate(i) + 1
        /\ answer' = Candidate(i) * PageSize
  BY DEF AllocPage
<1>2. total_pages \in Nat \ {0} /\ last \in 0 .. total_pages /\ used \subseteq Pages
      /\ free_pages \in Nat
  BY <1>1 DEF Inv, TypeOK, Pages
<1>3. Candidate(i) \in Pages
  BY <1>1, <1>2, ScanCovers DEF Candidate, Pages
<1>4. free_pages > 0
  <2>1. IsFiniteSet(Pages) /\ Cardinality(Pages) = total_pages
    BY <1>2, FS_Interval DEF Pages
  <2>2. /\ IsFiniteSet(used) /\ Cardinality(used) \in Nat
        /\ Cardinality(used) <= Cardinality(Pages)
        /\ Cardinality(Pages) # Cardinality(used)
    BY <1>1, <1>2, <1>3, <2>1, FS_Subset, FS_CardinalityType
  <2> QED BY <1>2, <2>1, <2>2 DEF Inv, PoolInv, Counted
<1> QED BY <1>1, <1>2, <1>3, <1>4 DEF AllocPage

\* The set of marked pages is finite, so it can be counted.
LEMMA UsedFinite ==
  ASSUME Inv
  PROVE  IsFiniteSet(used) /\ Cardinality(used) \in Nat
<1>1. total_pages \in Nat /\ used \subseteq 0 .. total_pages - 1
  BY DEF Inv, TypeOK, Pages
<1>2. IsFiniteSet(0 .. total_pages - 1)
  BY <1>1, FS_Interval
<1> QED BY <1>1, <1>2, FS_Subset, FS_CardinalityType

\* Handing out a page keeps the invariant.
LEMMA AllocInv ==
  ASSUME Inv, AllocPage
  PROVE  Inv'
<1>1. PICK p \in Pages : /\ p \notin used
                         /\ used' = used \cup {p}
                         /\ held' = held \cup {p}
                         /\ last' = p + 1
                         /\ answer' = p * PageSize
  BY AllocTakes
<1>2. /\ phase = "up" /\ free_pages > 0 /\ free_pages' = free_pages - 1
      /\ UNCHANGED <<phase, mmap, total_pages>>
      /\ UNCHANGED <<heap_start, heap_curr, heap_limit, blocks>>
  BY AllocTakes DEF heapVars
<1>3. total_pages \in Nat /\ p \in 0 .. total_pages - 1 /\ free_pages \in Nat
  BY <1>1 DEF Inv, TypeOK, Pages
<1>4. TypeOK'
  <2>1. p * PageSize \in Nat
    BY <1>3, SizesAssumption
  <2>2. last' \in 0 .. total_pages' /\ free_pages' \in Nat /\ answer' \in Nat
    BY <1>1, <1>2, <1>3, <2>1
  <2> QED BY <1>1, <1>2, <2>2 DEF Inv, TypeOK, Pages
<1>5. Counted'
  <2>1. Cardinality(used \cup {p}) = Cardinality(used) + 1
    BY <1>1, UsedFinite, FS_AddElement
  <2> QED BY <1>1, <1>2, <1>3, <2>1, UsedFinite DEF Inv, PoolInv, Counted
<1>6. PoolInv'
  BY <1>1, <1>2, <1>5 DEF Inv, PoolInv, OpenPagesAbove, HeldUsed, Pages
<1>7. HeapInv' /\ Fresh'
  BY <1>2 DEF Inv, HeapInv, HeapBounded, BlocksBelow, HeapTop, Fresh
<1> QED BY <1>4, <1>6, <1>7 DEF Inv

\* So does refusing a request.
LEMMA AllocFailsInv ==
  ASSUME Inv, AllocFails
  PROVE  Inv'
BY DEF AllocFails, heapVars, Inv, TypeOK, Pages, Fresh, PoolInv,
       OpenPagesAbove, HeldUsed, Counted, HeapInv, HeapBounded, BlocksBelow,
       HeapTop

\* phys_free_page keeps the invariant, whether or not a guard turns it away.
LEMMA FreeInv ==
  ASSUME Inv, NEW addr \in FreeArguments, phys_free_page(addr)
  PROVE  Inv'
<1> DEFINE idx == addr \div PageSize
<1>1. /\ phase = "up"
      /\ UNCHANGED <<phase, mmap, total_pages, last, answer>>
      /\ UNCHANGED <<heap_start, heap_curr, heap_limit, blocks>>
  BY DEF phys_free_page, heapVars
<1>2. HeapInv' /\ Fresh'
  BY <1>1 DEF Inv, HeapInv, HeapBounded, BlocksBelow, HeapTop, Fresh
<1>3. CASE /\ idx < total_pages /\ idx \in used
           /\ addr % PageSize = 0
           /\ used' = used \ {idx}
           /\ held' = held \ {idx}
           /\ free_pages' = free_pages + 1
  <2>1. idx \in held
    <3>1. idx \in Nat /\ total_pages \in Nat
      BY SizesAssumption, DivBounds DEF FreeArguments, Top, Inv, TypeOK
    <3> QED BY <1>3, <3>1 DEF FreeArguments
  <2>2. Counted'
    <3>1. Cardinality(used \ {idx}) = Cardinality(used) - 1
      BY <1>3, UsedFinite, FS_RemoveElement
    <3>2. free_pages \in Nat /\ total_pages \in Nat
      BY DEF Inv, TypeOK
    <3> HIDE DEF idx
    <3> QED BY <1>1, <1>3, <3>1, <3>2, UsedFinite DEF Inv, PoolInv, Counted
  <2> HIDE DEF idx
  <2>3. TypeOK'
    BY <1>1, <1>3 DEF Inv, TypeOK, Pages
  <2>4. OpenPagesAbove' /\ HeldUsed'
    BY <1>1, <1>3, <2>1 DEF Inv, PoolInv, OpenPagesAbove, HeldUsed, Pages
  <2> QED BY <1>2, <2>2, <2>3, <2>4 DEF Inv, PoolInv
<1>4. CASE UNCHANGED <<used, held, free_pages>>
  BY <1>1, <1>2, <1>4 DEF Inv, TypeOK, Pages, PoolInv, OpenPagesAbove,
                          HeldUsed, Counted
<1> QED BY <1>3, <1>4 DEF phys_free_page

-----------------------------------------------------------------------------
\* The invariant holds in every reachable state.
THEOREM Invariance == Spec => []Inv
<1>1. Init => Inv
  BY InitInv
<1>2. Inv /\ [Next]_vars => Inv'
  <2> SUFFICES ASSUME Inv, [Next]_vars PROVE Inv'
    OBVIOUS
  <2>1. CASE EmptyMapPanic
    BY <2>1 DEF EmptyMapPanic, poolVars, heapVars, Inv, TypeOK, Pages, Fresh,
                PoolInv, OpenPagesAbove, HeldUsed, Counted, HeapInv,
                HeapBounded, BlocksBelow, HeapTop
  <2>2. CASE memory_init
    BY <2>2, BootInv
  <2>3. CASE \E r \in Requests : kmalloc(r[1], r[2])
    BY <2>3, KmallocInv
  <2>4. CASE phys_alloc_page
    BY <2>4, AllocInv, AllocFailsInv DEF phys_alloc_page
  <2>5. CASE \E a \in FreeArguments : phys_free_page(a)
    BY <2>5, FreeInv
  <2>6. CASE Halted \/ UNCHANGED vars
    BY <2>6 DEF Halted, vars, poolVars, heapVars, Inv, TypeOK, Pages, Fresh,
                PoolInv, OpenPagesAbove, HeldUsed, Counted, HeapInv,
                HeapBounded, BlocksBelow, HeapTop
  <2> QED BY <2>1, <2>2, <2>3, <2>4, <2>5, <2>6 DEF Next
<1> QED BY <1>1, <1>2, PTL DEF Spec

\* Types: in particular the rotating start of the scan stays in the bitmap
\* and the bitmap's set bits stay below total_pages.
THEOREM TypeCorrect == Spec => []TypeOK
<1>1. Inv => TypeOK
  BY DEF Inv
<1> QED BY <1>1, Invariance, PTL

\* memory_get_stats publishes the exact number of used pages, whatever the
\* memory map and whatever calls were made.
THEOREM StatsCorrect == Spec => []StatsExact
<1>1. Inv => StatsExact
  <2> SUFFICES ASSUME Inv PROVE StatsExact
    OBVIOUS
  <2>1. free_pages \in Nat /\ total_pages \in Nat
    BY DEF Inv, TypeOK
  <2> QED BY <2>1, UsedFinite DEF Inv, PoolInv, Counted, StatsExact, used_pages
<1> QED BY <1>1, Invariance, PTL

\* A page that phys_alloc_page handed out is marked, and it never overlaps
\* the kernel image or the heap.
THEOREM HeldPrivate == Spec => []HeldPagesPrivate
<1>1. Inv => HeldPagesPrivate
  BY DEF Inv, TypeOK, PoolInv, OpenPagesAbove, HeldUsed, HeldPagesPrivate
<1> QED BY <1>1, Invariance, PTL

\* kmalloc's blocks are disjoint, inside the heap and aligned as asked, for
\* every sequence of requests.
THEOREM BlocksAreSound == Spec => []BlocksSound
<1>1. Inv => BlocksSound
  BY DEF Inv, HeapInv, BlocksBelow, BlocksSound
<1> QED BY <1>1, Invariance, PTL

-----------------------------------------------------------------------------
(* The pool is the usable memory. *)

Open == {p \in Pages : p \notin used \/ p \in held}

\* What memory_init left for the pool stays in it or with a caller.
PoolKept ==
  phase = "up" => Open = Freed(mmap, total_pages) \ PageRange(0, heap_limit, total_pages)

\* From which address on a page lies.
LEMMA FromPage ==
  ASSUME NEW a \in Nat, NEW p \in Nat
  PROVE  /\ a <= p * PageSize => a \div PageSize <= p
         /\ (a % PageSize = 0 /\ a \div PageSize <= p) => a <= p * PageSize
<1> DEFINE q == a \div PageSize
<1>1. PageSize \in Nat \ {0}
  BY SizesAssumption
<1>2. q \in Nat /\ q * PageSize <= a /\ a < q * PageSize + PageSize
  BY <1>1, DivBounds
<1>3. a % PageSize = 0 => a = q * PageSize
  BY <1>1
<1> HIDE DEF q
<1>4. ASSUME a <= p * PageSize PROVE q <= p
  <2> SUFFICES ASSUME p + 1 <= q PROVE FALSE
    BY <1>2
  <2>1. (p + 1) * PageSize <= q * PageSize
    BY <1>1, <1>2, TimesMonotone
  <2>2. (p + 1) * PageSize = p * PageSize + PageSize /\ p * PageSize \in Nat
    BY <1>1
  <2>3. q * PageSize \in Nat
    BY <1>1, <1>2
  <2> QED BY <1>1, <1>2, <1>4, <2>1, <2>2, <2>3
<1>5. ASSUME a % PageSize = 0, q <= p PROVE a <= p * PageSize
  BY <1>1, <1>2, <1>3, <1>5, TimesMonotone
<1> QED BY <1>4, <1>5 DEF q

\* Up to which address pages are rounded.
LEMMA ToPage ==
  ASSUME NEW e \in Nat, NEW p \in Nat
  PROVE  /\ p < (e + PageSize - 1) \div PageSize => p * PageSize < e
         /\ (p + 1) * PageSize <= e => p < (e + PageSize - 1) \div PageSize
         /\ (e % PageSize = 0 /\ p < (e + PageSize - 1) \div PageSize)
              => (p + 1) * PageSize <= e
<1> DEFINE x == e + PageSize - 1
           q == x \div PageSize
           k == p * PageSize
<1>1. PageSize \in Nat \ {0} /\ x \in Nat
  BY SizesAssumption
<1>2. q \in Nat /\ q * PageSize <= x /\ x < q * PageSize + PageSize
  BY <1>1, DivBounds
<1>3. k \in Nat /\ (p + 1) * PageSize = k + PageSize /\ q * PageSize \in Nat
  BY <1>1, <1>2
<1>4. ASSUME p < q PROVE k < e
  <2>1. (p + 1) * PageSize <= q * PageSize
    <3> HIDE DEF q
    <3>1. p + 1 <= q
      BY <1>2, <1>4
    <3> QED BY <1>1, <1>2, <3>1, TimesMonotone
  <2>2. x = e + PageSize - 1
    OBVIOUS
  <2> HIDE DEF x, k, q
  <2> QED BY <1>1, <1>2, <1>3, <2>1, <2>2
<1>5. ASSUME (p + 1) * PageSize <= e PROVE p < q
  <2> SUFFICES ASSUME q <= p PROVE FALSE
    BY <1>2
  <2>1. q * PageSize <= k
    BY <1>1, <1>2, TimesMonotone
  <2>2. x = e + PageSize - 1
    OBVIOUS
  <2> HIDE DEF x, k, q
  <2> QED BY <1>1, <1>2, <1>3, <1>5, <2>1, <2>2
<1>6. ASSUME e % PageSize = 0, p < q PROVE (p + 1) * PageSize <= e
  <2> DEFINE j == e \div PageSize
  <2>1. j \in Nat /\ e = j * PageSize
    BY <1>1, <1>6, DivBounds
  <2> HIDE DEF j
  <2>2. p < j
    <3> SUFFICES ASSUME j <= p PROVE FALSE
      BY <2>1
    <3>1. j * PageSize <= k
      BY <1>1, <2>1, TimesMonotone
    <3>2. k < e
      BY <1>4, <1>6
    <3> HIDE DEF k
    <3> QED BY <1>3, <2>1, <3>1, <3>2
  <2>3. (p + 1) * PageSize <= j * PageSize
    <3>1. p + 1 <= j
      BY <2>1, <2>2
    <3> QED BY <1>1, <2>1, <3>1, TimesMonotone
  <2> QED BY <2>1, <2>3
<1> QED BY <1>4, <1>5, <1>6 DEF q, k, x

\* The last page boundary is a page below the top.
LEMMA LastBoundary ==
  ASSUME NEW e \in Nat, e % PageSize = 0, e < Word
  PROVE  e + PageSize - 1 < Word
<1> DEFINE j == e \div PageSize
           w == Word \div PageSize
<1>1. PageSize \in Nat \ {0} /\ Word \in Nat
  BY SizesAssumption
<1>2. j \in Nat /\ e = j * PageSize
  BY <1>1, DivBounds
<1>3. w \in Nat /\ Word = w * PageSize
  BY <1>1, DivBounds, PagesAssumption
<1> HIDE DEF j, w
<1>4. j < w
  <2> SUFFICES ASSUME w <= j PROVE FALSE
    BY <1>2, <1>3
  <2>1. w * PageSize <= j * PageSize
    BY <1>1, <1>2, <1>3, TimesMonotone
  <2> QED BY <1>1, <1>2, <1>3, <2>1
<1>5. (j + 1) * PageSize <= w * PageSize
  <2>1. j + 1 <= w
    BY <1>2, <1>3, <1>4
  <2> QED BY <1>1, <1>2, <1>3, <2>1, TimesMonotone
<1>6. (j + 1) * PageSize = e + PageSize
  BY <1>1, <1>2
<1>7. e + PageSize <= Word
  BY <1>3, <1>5, <1>6
<1> QED BY <1>1, <1>7

\* An entry frees exactly its own pages above the heap.
LEMMA EntryFrees ==
  ASSUME Inv, phase = "up", Regular(mmap), NEW e \in mmap, e.type = 1,
         NEW p \in Pages, p * PageSize >= heap_limit
  PROVE  e.addr <= Top /\ p \in PageRange(e.addr, Clamp(EndOf(e)), total_pages)
           <=> e.addr <= p * PageSize /\ (p + 1) * PageSize <= EndOf(e)
<1> DEFINE end == EndOf(e)
           x   == end + PageSize - 1
           k   == p * PageSize
           first == e.addr \div PageSize
           after == x \div PageSize
<1>1. /\ PageSize \in Nat \ {0} /\ Word \in Nat \ {0} /\ e.addr \in Nat /\ end \in Nat
      /\ p \in Nat /\ heap_limit \in Nat /\ total_pages \in Nat /\ p \in 0 .. total_pages - 1
  BY SizesAssumption, MapsAssumption, EndTyped DEF Inv, TypeOK, Pages
<1>2. /\ e.addr < heap_limit \/ e.addr % PageSize = 0
      /\ end < heap_limit \/ end % PageSize = 0
      /\ end < Word /\ k >= heap_limit /\ k \in Nat
  <2>1. end < Word
    BY EndTyped DEF Regular, Inv, TypeOK
  <2> HIDE DEF end
  <2> QED BY <1>1, <2>1 DEF Regular, end
<1>3. Clamp(end) = end
  <2> HIDE DEF end
  <2> QED BY <1>1, <1>2 DEF Clamp, Top
<1>4. heap_limit + PageSize - 1 < Word
  <2>1. KernelEnd + 48 + (Word \div PageSize) + HeapSize + PageSize + 4 < Word
    BY RoomAssumption
  <2>2. Word \div PageSize \in Nat
    BY SizesAssumption, DivBounds
  <2>3. heap_limit <= KernelEnd + 44 + (Word \div PageSize) + HeapSize
    BY DEF Inv, HeapInv, HeapBounded, HeapTop
  <2> QED BY <1>1, <2>1, <2>2, <2>3, SizesAssumption
<1>5. x \in Nat /\ x < Word
  <2>1. CASE end < heap_limit
    <3> HIDE DEF end
    <3> QED BY <1>1, <1>4, <2>1
  <2>2. CASE end % PageSize = 0
    <3> HIDE DEF end
    <3> QED BY <1>1, <1>2, <2>2, LastBoundary
  <2> QED BY <1>2, <2>1, <2>2
<1>6. (x % Word) = x
  <2> HIDE DEF x
  <2> QED BY <1>1, <1>5, ModSmall
<1>7. p \in PageRange(e.addr, Clamp(end), total_pages) <=> first <= p /\ p < after
  BY <1>1, <1>3, <1>6 DEF PageRange
<1>8. first <= p <=> e.addr <= k
  <2>1. e.addr <= k => first <= p
    BY <1>1, FromPage
  <2>2. first <= p => e.addr <= k
    <3>1. CASE e.addr < heap_limit
      <4> HIDE DEF k
      <4> QED BY <1>1, <1>2, <3>1
    <3>2. CASE e.addr % PageSize = 0
      BY <1>1, <3>2, FromPage
    <3> QED BY <1>2, <3>1, <3>2
  <2> QED BY <2>1, <2>2
<1>9. p < after <=> (p + 1) * PageSize <= end
  <2>1. (p + 1) * PageSize <= end => p < after
    <3> HIDE DEF end
    <3> QED BY <1>1, ToPage
  <2>2. p < after => (p + 1) * PageSize <= end
    <3>1. CASE end < heap_limit
      <4>1. p < after => k < end
        <5> HIDE DEF end
        <5> QED BY <1>1, ToPage
      <4> HIDE DEF k, end, after
      <4> QED BY <1>1, <1>2, <3>1, <4>1
    <3>2. CASE end % PageSize = 0
      <4> HIDE DEF end
      <4> QED BY <1>1, <3>2, ToPage
    <3> QED BY <1>2, <3>1, <3>2
  <2> QED BY <2>1, <2>2
<1>10. e.addr <= k /\ (p + 1) * PageSize <= end => e.addr <= Top
  <2>1. (p + 1) * PageSize = k + PageSize
    BY <1>1
  <2> HIDE DEF k, end
  <2> QED BY <1>1, <1>2, <2>1 DEF Top
<1> HIDE DEF first, after, x
<1> QED BY <1>7, <1>8, <1>9, <1>10 DEF end, k

\* A page is left alone by reserve_range(0, heap_limit) if it begins there.
LEMMA AboveHeap ==
  ASSUME Inv, phase = "up", NEW p \in Pages
  PROVE  p \notin PageRange(0, heap_limit, total_pages) <=> p * PageSize >= heap_limit
<1> DEFINE x == heap_limit + PageSize - 1
<1>1. /\ PageSize \in Nat \ {0} /\ Word \in Nat \ {0} /\ p \in Nat
      /\ heap_limit \in Nat /\ total_pages \in Nat /\ p \in 0 .. total_pages - 1
  BY SizesAssumption DEF Inv, TypeOK, Pages
<1>2. x \in Nat /\ x < Word
  <2>1. KernelEnd + 48 + (Word \div PageSize) + HeapSize + PageSize + 4 < Word
    BY RoomAssumption
  <2>2. Word \div PageSize \in Nat
    BY SizesAssumption, DivBounds
  <2>3. heap_limit <= KernelEnd + 44 + (Word \div PageSize) + HeapSize
    BY DEF Inv, HeapInv, HeapBounded, HeapTop
  <2> QED BY <1>1, <2>1, <2>2, <2>3, SizesAssumption
<1>3. p \notin PageRange(0, heap_limit, total_pages) => p * PageSize >= heap_limit
  BY <1>1, <1>2, BeyondRange
<1>4. p \in PageRange(0, heap_limit, total_pages) => p * PageSize < heap_limit
  <2>1. (x % Word) = x
    <3> HIDE DEF x
    <3> QED BY <1>1, <1>2, ModSmall
  <2> QED BY <1>1, <2>1, ToPage DEF PageRange
<1> DEFINE k == p * PageSize
<1>5. k \in Nat
  BY <1>1
<1> HIDE DEF k
<1> QED BY <1>1, <1>3, <1>4, <1>5 DEF k

LEMMA KeptIsRam ==
  ASSUME Inv, PoolKept, phase = "up", Regular(mmap)
  PROVE  Open = {p \in Pages : Ram(p)}
<1> SUFFICES ASSUME NEW p \in Pages PROVE p \in Open <=> Ram(p)
  BY DEF Open
<1>1. p \in Open <=> p \in Freed(mmap, total_pages) /\ p * PageSize >= heap_limit
  BY AboveHeap DEF PoolKept
<1>2. p \in Freed(mmap, total_pages)
        <=> \E e \in mmap : /\ e.type = 1 /\ e.addr <= Top
                            /\ p \in PageRange(e.addr, Clamp(EndOf(e)), total_pages)
  BY DEF Freed
<1>3. CASE p * PageSize >= heap_limit
  <2>1. \A e \in mmap : e.type = 1 =>
          (e.addr <= Top /\ p \in PageRange(e.addr, Clamp(EndOf(e)), total_pages)
             <=> e.addr <= p * PageSize /\ (p + 1) * PageSize <= EndOf(e))
    BY <1>3, EntryFrees
  <2> QED BY <1>1, <1>2, <1>3, <2>1 DEF Ram
<1>4. CASE ~(p * PageSize >= heap_limit)
  BY <1>1, <1>4 DEF Ram
<1> QED BY <1>3, <1>4

LEMMA PoolKeptStep ==
  ASSUME Inv, PoolKept, [Next]_vars
  PROVE  PoolKept'
<1>1. CASE memory_init
  <2>1. PICK n, limit :
          /\ total_pages' = n /\ heap_limit' = limit
          /\ used' = reserve_range(FreeRanges(mmap, n), 0, limit, n).used
          /\ mmap' = mmap /\ held' = held
    BY <1>1 DEF memory_init
  <2>2. used' = ((0 .. n - 1) \ Freed(mmap, n))
                  \cup (PageRange(0, limit, n) \ ((0 .. n - 1) \ Freed(mmap, n)))
    BY <2>1 DEF reserve_range, FreeRanges
  <2>3. held' = {}
    BY <1>1, <2>1 DEF memory_init, Inv, Fresh
  <2>4. Freed(mmap, n) \subseteq 0 .. n - 1 /\ Pages' = 0 .. n - 1
    BY <2>1 DEF Freed, PageRange, Pages
  <2>5. Open' = {p \in 0 .. n - 1 : p \notin used'}
    BY <2>3, <2>4 DEF Open
  <2>6. Open' = Freed(mmap, n) \ PageRange(0, limit, n)
    BY <2>2, <2>4, <2>5
  <2> QED BY <2>1, <2>6 DEF PoolKept
<1>2. ASSUME UNCHANGED <<mmap, total_pages, heap_limit>>, Open' = Open,
             phase' = "up" => phase = "up"
      PROVE  PoolKept'
  BY <1>2 DEF PoolKept, Freed, PageRange
<1>3. CASE AllocPage
  <2>1. PICK p \in Pages : /\ p \notin used
                           /\ used' = used \cup {p} /\ held' = held \cup {p}
    BY <1>3, AllocTakes
  <2>2. UNCHANGED <<mmap, total_pages, heap_limit, phase>>
    BY <1>3, AllocTakes DEF heapVars
  <2>3. Open' = Open
    BY <2>1, <2>2 DEF Open, Pages
  <2> QED BY <1>2, <2>2, <2>3
<1>4. CASE \E a \in FreeArguments : phys_free_page(a)
  <2>1. PICK a \in FreeArguments : phys_free_page(a)
    BY <1>4
  <2> DEFINE idx == a \div PageSize
  <2>2. UNCHANGED <<mmap, total_pages, heap_limit, phase>>
    BY <2>1 DEF phys_free_page, heapVars
  <2>3. CASE UNCHANGED <<used, held>>
    BY <1>2, <2>2, <2>3 DEF Open, Pages
  <2>4. CASE /\ a % PageSize = 0 /\ idx < total_pages /\ idx \in used
             /\ used' = used \ {idx} /\ held' = held \ {idx}
    <3>1. idx \in held
      <4>1. idx \in Nat /\ total_pages \in Nat
        BY SizesAssumption, DivBounds DEF FreeArguments, Top, Inv, TypeOK
      <4> QED BY <2>4, <4>1 DEF FreeArguments
    <3> HIDE DEF idx
    <3>2. Open' = Open
      BY <2>2, <2>4, <3>1 DEF Open, Pages
    <3> QED BY <1>2, <2>2, <3>2
  <2> QED BY <2>1, <2>3, <2>4 DEF phys_free_page
<1>5. CASE AllocFails \/ Halted \/ UNCHANGED vars
  BY <1>2, <1>5 DEF AllocFails, Halted, vars, poolVars, heapVars, Open, Pages
<1>6. CASE \E r \in Requests : kmalloc(r[1], r[2])
  BY <1>2, <1>6 DEF kmalloc, poolVars, Open, Pages
<1>7. CASE EmptyMapPanic
  BY <1>7 DEF EmptyMapPanic, PoolKept
<1> QED BY <1>1, <1>3, <1>4, <1>5, <1>6, <1>7 DEF Next, phys_alloc_page

\* memory_init and the allocator: for every map whose entries lie on page
\* boundaries, exactly the usable memory above the heap is handed out.
THEOREM PoolIsUsableMemory == Spec => []PoolIsRam
<1>1. Init => PoolKept
  BY DEF Init, PoolKept
<1>2. Inv /\ PoolKept /\ [Next]_vars => PoolKept'
  BY PoolKeptStep
<1>3. Inv /\ PoolKept => PoolIsRam
  BY KeptIsRam DEF PoolIsRam, Open
<1> QED BY <1>1, <1>2, <1>3, Invariance, PTL DEF Spec

-----------------------------------------------------------------------------
(* phys_alloc_page and phys_free_page implement PagePool. *)

PoolCounted ==
  /\ IsFiniteSet(Pages \ used)
  /\ Cardinality(Pages \ used) = free_pages

\* The free count is the size of the abstract pool.
LEMMA FreeIsComplement ==
  ASSUME Inv
  PROVE  PoolCounted
<1>1. total_pages \in Nat /\ used \subseteq Pages /\ free_pages \in Nat
  BY DEF Inv, TypeOK
<1>2. IsFiniteSet(Pages) /\ Cardinality(Pages) = total_pages
  BY <1>1, FS_Interval DEF Pages
<1>3. Pages \cap used = used
  BY <1>1
<1>4. /\ IsFiniteSet(Pages \ used)
      /\ Cardinality(Pages \ used) = total_pages - Cardinality(used)
  BY <1>2, <1>3, FS_Difference
<1> QED BY <1>1, <1>4, UsedFinite DEF Inv, PoolInv, Counted, PoolCounted

\* PagePool's copy of FiniteSets is this module's.
LEMMA SameFiniteSets ==
  ASSUME NEW S
  PROVE  /\ Pool!IsFiniteSet(S) = IsFiniteSet(S)
         /\ Pool!Cardinality(S) = Cardinality(S)
  BY DEF Pool!IsFiniteSet, IsFiniteSet, Pool!Cardinality, Cardinality

\* The same after a step.
LEMMA FreeIsComplementNext == Inv' => PoolCounted'
<1>1. Inv => PoolCounted
  BY FreeIsComplement
<1> QED BY <1>1, PTL

\* Handing out a page takes one from the abstract pool.
LEMMA TakeStep ==
  ASSUME Inv, AllocPage
  PROVE  Pool!Take
<1>1. PICK p \in Pages : /\ p \notin used
                         /\ used' = used \cup {p}
                         /\ held' = held \cup {p}
                         /\ answer' = p * PageSize
  BY AllocTakes
<1>2. /\ phase = "up" /\ phase' = "up" /\ free_pages' = free_pages - 1
      /\ total_pages' = total_pages
  BY AllocTakes
<1>3. p \in Nat
  BY <1>1 DEF Inv, TypeOK, Pages
<1>4. p * PageSize # 0
  <2>1. p * PageSize >= KernelEnd
    BY <1>1 DEF Inv, PoolInv, OpenPagesAbove
  <2> QED BY <2>1, SizesAssumption
<1>5. PoolAnswer' = p
  BY <1>1, <1>3, <1>4, DivTimes, SizesAssumption DEF PoolAnswer
<1>6. (Pages \ used)' = (Pages \ used) \ {p}
  BY <1>1, <1>2 DEF Pages
<1> QED BY <1>1, <1>2, <1>5, <1>6 DEF Pool!Take

\* phys_alloc_page returns 0 only when the abstract pool is empty.
LEMMA RefuseStep ==
  ASSUME Inv, AllocFails
  PROVE  Pool!Refuse
<1>1. Pages \ used = {}
  <2> SUFFICES ASSUME NEW p \in Pages PROVE p \in used
    OBVIOUS
  <2>1. total_pages \in Nat \ {0} /\ last \in 0 .. total_pages
    BY DEF Inv, TypeOK, Pages
  <2>2. PICK i \in 0 .. total_pages - 1 : ((last + i) % total_pages) = p
    BY <2>1, ScanCovers DEF Pages
  <2> QED BY <2>2 DEF AllocFails, Candidate, Pages
<1>2. PoolAnswer' = -1
  BY DEF AllocFails, PoolAnswer
<1>3. (Pages \ used)' = Pages \ used
  BY DEF AllocFails, Pages
<1> QED BY <1>1, <1>2, <1>3 DEF AllocFails, Pool!Refuse

\* phys_free_page returns a held page to the abstract pool, or does nothing.
LEMMA GiveStep ==
  ASSUME Inv, NEW addr \in FreeArguments, phys_free_page(addr)
  PROVE  Pool!Give \/ UNCHANGED Pool!poolVars
<1> DEFINE idx == addr \div PageSize
<1>1. idx \in Nat /\ total_pages \in Nat
  BY SizesAssumption, DivBounds DEF FreeArguments, Top, Inv, TypeOK
<1>2. /\ phase = "up" /\ phase' = "up" /\ total_pages' = total_pages
      /\ answer' = answer
  BY DEF phys_free_page
<1>3. PoolAnswer' = PoolAnswer
  BY <1>2 DEF PoolAnswer
<1>4. CASE /\ addr % PageSize = 0 /\ idx < total_pages /\ idx \in used
           /\ used' = used \ {idx}
           /\ held' = held \ {idx}
           /\ free_pages' = free_pages + 1
  <2>1. idx \in held
    BY <1>1, <1>4 DEF FreeArguments
  <2> HIDE DEF idx
  <2>2. idx \in Pages
    BY <2>1 DEF Inv, TypeOK
  <2>3. (Pages \ used)' = (Pages \ used) \cup {idx}
    BY <1>2, <1>4, <2>2 DEF Pages
  <2>4. Pool!Give
    BY <1>2, <1>3, <1>4, <2>1, <2>3 DEF Pool!Give
  <2> QED BY <2>4
<1>5. CASE UNCHANGED <<used, held, free_pages>>
  BY <1>2, <1>3, <1>5 DEF Pool!poolVars, Pages
<1> QED BY <1>4, <1>5 DEF phys_free_page

\* A step that leaves the allocator alone is a stutter of the abstract pool.
LEMMA OtherSteps ==
  ASSUME UNCHANGED <<total_pages, used, free_pages, answer, held>>,
         phase' = phase \/ (phase # "up" /\ phase' # "up")
  PROVE  UNCHANGED Pool!poolVars
<1>1. (Pages \ used)' = Pages \ used /\ PoolAnswer' = PoolAnswer
  BY DEF Pages, PoolAnswer
<1> QED BY <1>1 DEF Pool!poolVars

\* The allocator implements the abstract pool: every step is one of its
\* operations or changes nothing its clients see.
THEOREM PoolRefinement == Spec => PoolSpec
<1>1. Init => Pool!Init
  BY DEF Init, Pool!Init, Pages, PoolAnswer
<1>2. Inv /\ Inv' /\ [Next]_vars => [Pool!Next]_(Pool!poolVars)
  <2> SUFFICES ASSUME Inv, Inv', [Next]_vars
               PROVE  Pool!Next \/ UNCHANGED Pool!poolVars
    OBVIOUS
  <2>1. CASE EmptyMapPanic
    BY <2>1, OtherSteps DEF EmptyMapPanic, poolVars
  <2>2. CASE memory_init
    <3>1. /\ IsFiniteSet((Pages \ used)')
          /\ Cardinality((Pages \ used)') = free_pages'
      BY FreeIsComplementNext DEF PoolCounted
    <3>2. /\ phase # "up" /\ phase' = "up" /\ answer' = answer /\ held' = held
      BY <2>2 DEF memory_init
    <3>3. PoolAnswer' = PoolAnswer
      BY <3>2 DEF PoolAnswer
    <3>4. (phase = "up")' = TRUE
      BY <3>2
    <3>5. Pool!Stock
      BY <3>1, <3>2, <3>3, <3>4, SameFiniteSets DEF Pool!Stock
    <3> QED BY <3>5 DEF Pool!Next
  <2>3. CASE \E r \in Requests : kmalloc(r[1], r[2])
    BY <2>3, OtherSteps DEF kmalloc, poolVars
  <2>4. CASE phys_alloc_page
    BY <2>4, TakeStep, RefuseStep DEF phys_alloc_page, Pool!Next
  <2>5. CASE \E a \in FreeArguments : phys_free_page(a)
    BY <2>5, GiveStep DEF Pool!Next
  <2>6. CASE Halted \/ UNCHANGED vars
    BY <2>6, OtherSteps DEF Halted, vars, poolVars
  <2> QED BY <2>1, <2>2, <2>3, <2>4, <2>5, <2>6 DEF Next
<1> QED BY <1>1, <1>2, Invariance, PTL DEF Spec, PoolSpec, Pool!Spec
=============================================================================
