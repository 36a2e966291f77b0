------------------------------ MODULE MCMemory ------------------------------
(***************************************************************************)
(* A 128-byte address space of eight 16-byte pages.  The bitmap is at 16,  *)
(* the heap at 32..56, so pages 0..3 are reserved and at most 4..7 free.   *)
(***************************************************************************)
EXTENDS Memory

Entry(a, l, t) == [addr |-> a, len |-> l, type |-> t]

MCMaps ==
  { {},                                                  \* nothing to map
    {Entry(0, 0, 1)},                                    \* ends at 0
    {Entry(0, 20, 1)},                                   \* smaller than the heap start
    {Entry(0, 50, 1)},                                   \* the heap is cut short
    {Entry(0, 112, 1)},                                  \* all usable
    {Entry(0, 80, 1), Entry(80, 16, 2), Entry(96, 16, 1)},  \* a reserved hole
    {Entry(0, 16, 1), Entry(32, 80, 1)},                 \* a hole below the heap
    {Entry(0, 96, 1), Entry(64, 48, 1)},                 \* overlapping entries
    {Entry(0, 70, 1), Entry(75, 30, 1)},                 \* unaligned entries
    {Entry(0, 96, 1), Entry(96, 64, 1), Entry(160, 32, 1)}, \* past the top
    {Entry(0, 112, 1), Entry(80, 16380, 1)} }              \* an end that wraps, to 76

MCRequests == {<<0, 4>>, <<4, 0>>, <<5, 8>>, <<1, 16>>}
=============================================================================
