------------------------------- MODULE MCVolumes -------------------------------
(***************************************************************************)
(* Small volumes: sectors of 64 bytes (two directory entries, 16 FAT       *)
(* entries), words of 1024 values, a volume being FAT16 from 4 clusters on *)
(* and FAT32 from 8.  The same volumes are put at an address: FAT16 ones   *)
(* whose root directory has two sectors, and a FAT32 one whose root        *)
(* directory is the chain of clusters 3, 5 and 2, two sectors each.        *)
(***************************************************************************)
EXTENDS Integers, Sequences, TLC

File(n)  == [mark |-> "file", name |-> n]
Deleted  == [mark |-> "deleted", name |-> "x"]
LongName == [mark |-> "longname", name |-> "y"]
End      == [mark |-> "end", name |-> ""]

Bpb(spc, reserved, entries, total, spf, root) ==
  [bytes_per_sector |-> 64, sectors_per_cluster |-> spc,
   reserved_sectors |-> reserved, fat_count |-> 2, root_entries |-> entries,
   total_sectors |-> total, sectors_per_fat |-> spf, root_cluster |-> root]

Bpb16 == Bpb(1, 1, 4, 10, 1, 0)     \* root directory at 3..4, data from 5
Bpb32 == Bpb(2, 1, 0, 20, 1, 3)     \* FAT at 1, data from 3: cluster c at 2c - 1
Bpb12 == Bpb(1, 1, 2, 6, 1, 0)      \* too few clusters

Dir16(first, second) == (3 :> first) @@ (4 :> second)

Dir32 == (5 :> <<File("a"), LongName>>) @@ (6 :> <<Deleted, File("b")>>)
           @@ (9 :> <<File("c"), File("d")>>) @@ (10 :> <<Deleted, Deleted>>)
           @@ (3 :> <<File("e"), File("f")>>) @@ (4 :> <<File("g"), End>>)

\* The reserved bits of an entry, above 255, are set in some.
ChainOf(c) == IF c = 3 THEN 5 + 512 ELSE IF c = 5 THEN 2 ELSE IF c = 2 THEN 255 + 256 ELSE 0
Table32 == 1 :> [o \in 0 .. 63 |-> ChainOf(o \div 4)]

\* A volume moved to the address where its partition starts.
Shifted(f, lba) == [a \in {k + lba : k \in DOMAIN f} |-> f[a - lba]]

Partition(t, lba) == [type |-> t, lba_start |-> lba, sectors |-> 10]

Disk(lba, bpb, dir, table, before) ==
  [valid |-> TRUE,
   parts |-> before \o <<Partition(6, lba)>>,
   boot |-> (lba :> bpb) @@ (50 :> Bpb12),
   dir |-> Shifted(dir, lba),
   fat |-> Shifted(table, lba)]

NoTable == << >>
\* Every directory of four entries.
Entry(n) == {File(n), Deleted, LongName, End}
Volumes16 == {Dir16(<<a, b>>, <<c, d>>) :
                a \in Entry("a"), b \in Entry("b"), c \in Entry("c"), d \in Entry("d")}

\* A partition entry of type 0, one that does not mount, and one that does.
Before == <<Partition(0, 9), Partition(11, 50)>>

DisksAt(lba) ==
  {Disk(lba, Bpb16, d, NoTable, Before) : d \in Volumes16}
    \cup {Disk(lba, Bpb32, Dir32, Table32, b) : b \in {Before, Tail(Before), << >>}}

\* A disk without partition signature.
NoMbr == [Disk(0, Bpb16, Dir16(<<End>>, <<End>>), NoTable, << >>) EXCEPT !.valid = FALSE]

\* A volume of another layout before the one at sector 0.
Bpb16b == Bpb(1, 1, 2, 9, 1, 0)
TwoVolumes ==
  [valid |-> TRUE,
   parts |-> <<Partition(6, 60), Partition(6, 0)>>,
   boot |-> (60 :> Bpb16b) @@ (0 :> Bpb16),
   dir |-> Dir16(<<File("a"), File("b")>>, <<File("c"), End>>),
   fat |-> NoTable]

\* The volume starts at sector 0 itself, or where a partition table puts it.
AtZero  == DisksAt(0) \cup {NoMbr, TwoVolumes}
AtThirty == DisksAt(30)
=============================================================================
