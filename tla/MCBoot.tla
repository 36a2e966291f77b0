-------------------------------- MODULE MCBoot --------------------------------
(***************************************************************************)
(* Boot informations of up to seven tags, with sizes that need padding,    *)
(* tags too short to be used, tags missing or twice, and at five places in *)
(* memory: below the kernel, where memory_init puts its bitmap, where      *)
(* usb_init takes heap, and above.  The screens are some 10 by 9 pixels.   *)
(***************************************************************************)
EXTENDS Boot, TLC

Cmdline  == [type |-> 1, size |-> 11]
Loader   == [type |-> 2, size |-> 17]
EndTag   == [type |-> End, size |-> 8]
Meminfo  == [type |-> BasicMeminfo, size |-> 16, lower |-> 3, upper |-> 5]
ShortMem == [type |-> BasicMeminfo, size |-> 12]
Map(n)   == [type |-> Mmap, size |-> 16 + 24 * n, entry_size |-> 24]
NoMap    == [type |-> Mmap, size |-> 16, entry_size |-> 0]
FbTag(addr, width, height, pitch, bpp) ==
  [type |-> Framebuffer, size |-> 38, addr |-> addr, width |-> width,
   height |-> height, pitch |-> pitch, bpp |-> bpp]
Fb       == FbTag(3000, 10, 9, 44, 32)
Second   == FbTag(200, 2, 2, 8, 32)
TextMode == [type |-> Framebuffer, size |-> 24]

\* Where each tag begins when a boot loader writes them one after the other.
Padded(size) == ((size + 7) \div 8) * 8
OffsetOf(tags) ==
  LET off[i \in 1 .. Len(tags) + 1] ==
        IF i = 1 THEN HeaderSize ELSE off[i - 1] + Padded(tags[i - 1].size)
  IN  off

Info(base, tags) ==
  LET off == OffsetOf(tags)
  IN  [base |-> base, total |-> off[Len(tags) + 1],
       tags |-> [o \in {off[i] : i \in DOMAIN tags} |->
                   tags[CHOOSE i \in DOMAIN tags : off[i] = o]]]

\* Headers that end the search, are found, lead on, lead back, and do not
\* advance; their sizes are also what total_size may become.
SomeHeaders ==
  {[type |-> End, size |-> 8], [type |-> BasicMeminfo, size |-> 16],
   [type |-> 1, size |-> 512], [type |-> 1, size |-> Word - 512],
   [type |-> Word - 1, size |-> Word - 1]}

Machine(base, tags) == [magic |-> TRUE, info |-> Info(base, tags)]

Usual == <<Cmdline, Loader, Meminfo, Map(2), Fb, EndTag>>

TagLists ==
  {Usual,
   <<Fb, Map(1), Second, EndTag>>,
   <<Cmdline, TextMode, Fb, ShortMem, Map(1), Meminfo, EndTag>>,
   <<Meminfo, Map(1), EndTag>>,
   <<Fb, Meminfo, EndTag>>,
   <<Loader, Fb, NoMap, EndTag>>,
   <<FbTag(3000, 10, 9, 44, 24), Map(1), EndTag>>,
   <<FbTag(4096, 10, 9, 44, 32), Map(1), EndTag>>,
   <<FbTag(3000, 16, 9, 64, 32), Meminfo, Map(1), EndTag>>,
   <<FbTag(3000, 10, 13, 40, 32), Map(1), EndTag>>,
   <<FbTag(3000, 12, 10, 48, 32), Map(1), Meminfo, EndTag>>}

\* The kernel ends at 1024, its bitmap at 1040 and the heap in use at 1104.  At
\* 912, the tag overwritten by the bitmap is the one with the memory sizes.
AllMachines ==
  {Machine(256, tags) : tags \in TagLists}
    \cup {Machine(base, Usual) : base \in {960, 1032, 1104}}
    \cup {Machine(912, <<Cmdline, Loader, Map(2), Meminfo, Fb, EndTag>>)}
    \cup {[Machine(256, Usual) EXCEPT !.magic = FALSE]}

Rect(x, y, w, h) == [x |-> x, y |-> y, w |-> w, h |-> h]
AllShapes ==
  {[kind |-> "fill", r |-> r] :
     r \in {Rect(-3, 2, 5, 20), Rect(8, -2, 9, 4), Rect(2, 2, 3, 3), Rect(12, 1, 4, 4),
            Rect(-9, -9, 4, 4), Rect(3, 3, 0, 2), Rect(0, 9, 10, 32)}}
    \cup {Text(-4, 5, 1), Text(6, -6, 2)}
    \cup {[kind |-> "cursor", r |-> Rect(x, 4, 0, 0)] : x \in {0, 7}}
    \cup {[kind |-> "button", r |-> Rect(-1, 0, 6, 4), n |-> 1]}
    \cup {[kind |-> "progress", r |-> Rect(1, 1, 6, 2), n |-> v, max |-> m] :
            v \in {0, 3, 9}, m \in {0, 5}}
    \cup {[kind |-> "gradient"]}
=============================================================================
