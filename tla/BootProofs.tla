------------------------------- MODULE BootProofs -------------------------------
(***************************************************************************)
(* Proofs about the way to the loop.  The search for tags, the drawing and *)
(* the initialisation of the mouse are proved about by themselves, for any *)
(* information, buffer and arrivals; then the boot is shown to run the     *)
(* search and the initialisation as they are specified, so that what holds *)
(* of them holds of it.                                                    *)
(***************************************************************************)
EXTENDS Boot, NumberLemmas

-----------------------------------------------------------------------------
(* Mb2: on any well-formed information, of any number of tags with any     *)
(* sizes, each search finds the first tag that matches.                    *)

\* While it walks, the search is at a tag, and it has passed no match.
Passed ==
  walk.state = "walking" /\ WellFormed =>
    /\ walk.ptr \in DOMAIN info.tags
    /\ \A o \in DOMAIN info.tags :
         o < walk.ptr => ~Matches(info.tags[o], walk.wanted)

MbInv == MbTypeOK /\ Passed /\ FindsFirst

\* The padding of a size.
LEMMA AdvanceNat ==
  ASSUME NEW tag, tag.size \in Nat
  PROVE  Advance(tag) \in Nat
BY WordAssumption DEF Advance

\* The end tag is never looked for.
LEMMA EndNeverMatches ==
  ASSUME NEW tag, tag.type = End, NEW type \in Types
  PROVE  ~Matches(tag, type)
BY DEF Matches, End, Types, Framebuffer, BasicMeminfo, Mmap

\* A well-formed information has room for every tag it holds.
LEMMA RoomForTags ==
  ASSUME MbTypeOK, WellFormed, NEW o \in DOMAIN info.tags
  PROVE  MoreAt(o)
<1>1. info.base + info.total \in 0 .. Word - 1
  BY WordAssumption DEF WellFormed, WrittenByLoader, MbTypeOK
<1>2. (info.base + info.total) % Word = info.base + info.total
  BY <1>1, WordAssumption
<1>3. o + HeaderSize <= info.total /\ o \in Nat
  BY DEF WellFormed, WrittenByLoader
<1>4. info.base \in Nat /\ info.total \in Nat /\ HeaderSize \in Nat
  BY DEF MbTypeOK, HeaderSize
<1>5. info.base + o + HeaderSize \in 0 .. Word - 1
  <2> DEFINE last == info.base + info.total
  <2>1. o + HeaderSize \in Nat
    BY <1>3, <1>4
  <2>2. info.base + o + HeaderSize <= last
    BY <1>3, <1>4, <2>1
  <2>3. info.base + o + HeaderSize \in Nat
    BY <1>3, <1>4, <2>1
  <2>4. last \in 0 .. Word - 1
    BY <1>1
  <2> HIDE DEF last
  <2> QED BY <2>2, <2>3, <2>4, WordAssumption
<1>6. (info.base + o + HeaderSize) % Word = info.base + o + HeaderSize
  BY <1>5, WordAssumption
<1>7. info.base + o + HeaderSize <= info.base + info.total
  BY <1>3, <1>4 DEF HeaderSize
<1> QED BY <1>2, <1>6, <1>7 DEF MoreAt

\* Rounding up to a multiple of 8.
LEMMA RoundedUp ==
  ASSUME NEW size \in Nat, NEW o \in Nat, NEW p \in Nat,
         o % 8 = 0, p % 8 = 0, o + size <= p, p < o + size + 8
  PROVE  ((size + 7) \div 8) * 8 = p - o
<1> DEFINE a == o \div 8
           b == p \div 8
<1>1. a \in Nat /\ b \in Nat /\ o = 8 * a /\ p = 8 * b
  OBVIOUS
<1> HIDE DEF a, b
<1>2. 8 * (b - a) <= size + 7 /\ size + 7 < 8 * (b - a) + 8
  BY <1>1
<1>3. (size + 7) \div 8 = b - a
  BY <1>1, <1>2
<1> QED BY <1>1, <1>3

\* The loop's padding brings it to the next tag.
LEMMA AdvanceToNext ==
  ASSUME MbTypeOK, WellFormed, NEW o \in DOMAIN info.tags, info.tags[o].type # End
  PROVE  /\ Advance(info.tags[o]) # 0
         /\ o + Advance(info.tags[o]) \in DOMAIN info.tags
         /\ (o + Advance(info.tags[o])) % Word = o + Advance(info.tags[o])
         /\ \A q \in DOMAIN info.tags : ~(o < q /\ q < o + Advance(info.tags[o]))
<1> DEFINE size == info.tags[o].size
<1>1. PICK p \in DOMAIN info.tags :
        /\ FollowedBy(info.tags, o, p)
        /\ \A q \in DOMAIN info.tags : ~(o < q /\ q < p)
  BY DEF WellFormed, WrittenByLoader
<1>2. /\ o \in Nat /\ p \in Nat /\ size \in Nat /\ size >= 8
      /\ o % 8 = 0 /\ p % 8 = 0 /\ o + size <= p /\ p < o + size + 8
      /\ p + 8 <= info.total
  BY <1>1 DEF WellFormed, WrittenByLoader, FollowedBy, MbTypeOK, HeaderSize
<1>3. size + 7 \in 0 .. Word - 1
  <2>1. info.base \in Nat /\ info.total \in Nat /\ info.base + info.total < Word
    BY DEF WellFormed, WrittenByLoader, MbTypeOK
  <2> QED BY <1>2, <2>1, WordAssumption
<1>4. (size + 7) % Word = size + 7
  BY <1>3, WordAssumption
<1> HIDE DEF size
<1>5. ((size + 7) \div 8) * 8 = p - o
  BY <1>2, RoundedUp
<1>6. Advance(info.tags[o]) = p - o
  BY <1>4, <1>5 DEF Advance, size
<1>7. p % Word = p
  <2>1. info.base \in Nat /\ info.total \in Nat /\ info.base + info.total < Word
    BY DEF WellFormed, WrittenByLoader, MbTypeOK
  <2>2. p \in 0 .. Word - 1
    BY <1>2, <2>1, WordAssumption
  <2> QED BY <2>2, WordAssumption
<1>8. o + Advance(info.tags[o]) = p
  BY <1>2, <1>6
<1> QED BY <1>1, <1>2, <1>6, <1>7, <1>8

\* A search starts at the first tag.
LEMMA SearchStarts ==
  ASSUME MbInv, NEW type \in Types, Search(type)
  PROVE  MbInv'
<1>1. /\ info' = info /\ stray' = stray
      /\ walk' = [state  |-> IF info.total < HeaderSize THEN "missing" ELSE "walking",
                  wanted |-> type, ptr |-> HeaderSize]
  BY DEF Search
<1>2. WellFormed' <=> WellFormed
  BY <1>1 DEF WellFormed, WrittenByLoader, FollowedBy
<1>3. MbTypeOK'
  BY <1>1 DEF MbInv, MbTypeOK, HeaderSize
<1>4. WellFormed => walk'.state = "walking"
  BY <1>1 DEF MbInv, MbTypeOK, WellFormed, WrittenByLoader, HeaderSize
<1>5. WellFormed => \A o \in DOMAIN info.tags : ~(o < HeaderSize)
  BY DEF WellFormed, WrittenByLoader, HeaderSize
<1>6. WellFormed => HeaderSize \in DOMAIN info.tags
  BY DEF WellFormed, WrittenByLoader
<1>7. Passed' /\ FindsFirst'
  BY <1>1, <1>2, <1>4, <1>5, <1>6 DEF Passed, FindsFirst
<1> QED BY <1>3, <1>7 DEF MbInv

\* What is read where no tag is changes nothing that was passed.
LEMMA UncoverKeeps ==
  ASSUME MbInv, Uncover
  PROVE  MbInv'
<1>1. UNCHANGED <<info, walk>>
  BY DEF Uncover
<1>2. \A o \in DOMAIN stray' : stray'[o] \in Headers
  BY DEF Uncover, MbInv, MbTypeOK
<1>3. MbTypeOK'
  BY <1>1, <1>2 DEF MbInv, MbTypeOK
<1>4. Passed' /\ FindsFirst'
  BY <1>1 DEF MbInv, Passed, FindsFirst, WellFormed, WrittenByLoader, FollowedBy
<1> QED BY <1>3, <1>4 DEF MbInv

\* A step of the search keeps what it has passed, and ends at the first match
\* or behind the last tag.
LEMMA StepPasses ==
  ASSUME MbInv, Step
  PROVE  MbInv'
<1> DEFINE tag == TagAt(walk.ptr)
<1>1. /\ walk.state = "walking" /\ info' = info /\ stray' = stray
      /\ walk.ptr \in Nat /\ walk.wanted \in Types
      /\ walk \in [state : {"idle", "walking", "found", "missing"},
                   wanted : Types \cup {End}, ptr : Nat]
  BY DEF Step, MbInv, MbTypeOK
<1>2. MoreAt(walk.ptr) => tag.size \in Nat /\ Advance(tag) \in Nat
  <2>1. \A h \in Headers : h.size \in Nat
    BY HeadersAssumption, WordAssumption
  <2>2. MoreAt(walk.ptr) => tag.size \in Nat
    BY <2>1 DEF Step, Seen, MbInv, MbTypeOK, TagAt
  <2> QED BY <2>2, AdvanceNat
<1>3. WellFormed' <=> WellFormed
  BY <1>1 DEF WellFormed, WrittenByLoader, FollowedBy
<1>4. ASSUME WellFormed
      PROVE  /\ walk.ptr \in DOMAIN info.tags /\ tag = info.tags[walk.ptr]
             /\ MoreAt(walk.ptr)
             /\ \A o \in DOMAIN info.tags :
                  o < walk.ptr => ~Matches(info.tags[o], walk.wanted)
  BY <1>1, <1>4, RoomForTags DEF MbInv, Passed, TagAt
<1>5. CASE tag.type = End \/ ~MoreAt(walk.ptr)
  <2>1. walk' = [walk EXCEPT !.state = "missing"]
    BY <1>5 DEF Step
  <2>2. ASSUME WellFormed, NEW o \in DOMAIN info.tags
        PROVE  ~Matches(info.tags[o], walk.wanted)
    <3>1. tag.type = End /\ o <= walk.ptr /\ o \in Nat
      BY <1>4, <1>5, <2>2 DEF WellFormed, WrittenByLoader
    <3>2. CASE o < walk.ptr
      BY <1>4, <2>2, <3>2
    <3>3. CASE o = walk.ptr
      BY <1>1, <1>4, <2>2, <3>1, <3>3, EndNeverMatches
    <3> QED BY <1>1, <3>1, <3>2, <3>3
  <2>3. MbTypeOK'
    BY <1>1, <2>1 DEF MbInv, MbTypeOK
  <2>4. Passed' /\ FindsFirst'
    BY <1>1, <1>3, <2>1, <2>2 DEF Passed, FindsFirst
  <2> QED BY <2>3, <2>4 DEF MbInv
<1>6. CASE tag.type # End /\ MoreAt(walk.ptr) /\ Matches(tag, walk.wanted)
  <2>1. walk' = [walk EXCEPT !.state = "found"]
    BY <1>6 DEF Step
  <2>2. MbTypeOK'
    BY <1>1, <2>1 DEF MbInv, MbTypeOK
  <2>3. Passed' /\ FindsFirst'
    BY <1>1, <1>3, <1>4, <1>6, <2>1 DEF Passed, FindsFirst
  <2> QED BY <2>2, <2>3 DEF MbInv
<1>7. CASE /\ tag.type # End /\ MoreAt(walk.ptr)
           /\ ~Matches(tag, walk.wanted) /\ Stuck(tag)
  <2>1. walk' = [walk EXCEPT !.state = "missing"]
    BY <1>7 DEF Step
  <2>2. ~WellFormed
    BY <1>1, <1>4, <1>7, AdvanceToNext DEF Stuck, MbInv
  <2>3. MbTypeOK'
    BY <1>1, <2>1 DEF MbInv, MbTypeOK
  <2> QED BY <1>3, <2>2, <2>3 DEF Passed, FindsFirst, MbInv
<1>8. CASE /\ tag.type # End /\ MoreAt(walk.ptr)
           /\ ~Matches(tag, walk.wanted) /\ ~Stuck(tag)
  <2> DEFINE next == (walk.ptr + Advance(tag)) % Word
  <2>1. walk' = [walk EXCEPT !.ptr = next]
    BY <1>8 DEF Step
  <2>2. MbTypeOK'
    <3>1. next \in Nat
      BY <1>1, <1>2, <1>8, WordAssumption
    <3> HIDE DEF next
    <3> QED BY <1>1, <2>1, <3>1 DEF MbInv, MbTypeOK
  <2>3. ASSUME WellFormed
        PROVE  /\ next \in DOMAIN info.tags
               /\ \A o \in DOMAIN info.tags :
                    o < next => ~Matches(info.tags[o], walk.wanted)
    <3>1. /\ next \in DOMAIN info.tags
          /\ \A p \in DOMAIN info.tags : ~(walk.ptr < p /\ p < next)
      BY <1>4, <1>8, <2>3, AdvanceToNext DEF MbInv
    <3>9. \A p \in DOMAIN info.tags : p \in Nat
      BY <2>3 DEF WellFormed, WrittenByLoader
    <3>2. ASSUME NEW o \in DOMAIN info.tags, o < next
          PROVE  ~Matches(info.tags[o], walk.wanted)
      <4>1. o < walk.ptr \/ o = walk.ptr
        BY <1>1, <3>9, <3>1, <3>2
      <4> QED BY <1>4, <1>8, <2>3, <4>1
    <3> QED BY <3>1, <3>2
  <2> HIDE DEF next
  <2>4. Passed' /\ FindsFirst'
    BY <1>1, <1>3, <2>1, <2>3 DEF Passed, FindsFirst
  <2> QED BY <2>2, <2>4 DEF MbInv
<1> QED BY <1>5, <1>6, <1>7, <1>8

\* Whatever is written over the information, it stays one of tags and sizes.
LEMMA ReuseForgets ==
  ASSUME MbInv, Take \/ (walk.state = "idle" /\ UNCHANGED <<walk, stray>>), UNCHANGED info \/ Reused
  PROVE  MbInv'
<1>1. /\ walk'.state = "idle" /\ \A o \in DOMAIN stray' : stray'[o] \in Headers
      /\ walk' \in [state : {"idle", "walking", "found", "missing"},
                   wanted : Types \cup {End}, ptr : Nat]
  BY DEF Take, Idle, NoStrays, MbInv, MbTypeOK
<1>2. CASE UNCHANGED info
  BY <1>1, <1>2 DEF MbInv, MbTypeOK, Passed, FindsFirst
<1>3. CASE Reused
  <2>1. PICK from, to \in 0 .. Word - 1 : Overwrite(from, to)
    BY <1>3 DEF Reused
  <2>2. PICK h \in Headers :
          info' = [base  |-> info.base,
                   total |-> IF Reaches(from, to, 0, 4) THEN h.size ELSE info.total,
                   tags  |-> [o \in Kept(from, to) |-> info.tags[o]]]
    BY <2>1 DEF Overwrite
  <2>3. h.size \in Nat /\ Kept(from, to) \subseteq DOMAIN info.tags
    BY HeadersAssumption, WordAssumption DEF Kept
  <2>4. /\ info'.base \in Nat /\ info'.total \in Nat
        /\ \A o \in DOMAIN info'.tags :
             info'.tags[o].type \in Nat /\ info'.tags[o].size \in Nat
    BY <2>2, <2>3 DEF MbInv, MbTypeOK
  <2> QED BY <1>1, <2>4 DEF MbInv, MbTypeOK, Passed, FindsFirst
<1> QED BY <1>2, <1>3

LEMMA MbInvHolds == MbSpec => []MbInv
<1>1. MbInit => MbInv
  BY DEF MbInit, MbInv, Passed, FindsFirst, Idle
<1>2. MbInv /\ [MbNext]_mbVars => MbInv'
  <2> SUFFICES ASSUME MbInv, [MbNext]_mbVars PROVE MbInv'
    OBVIOUS
  <2>1. CASE UNCHANGED mbVars
    BY <2>1 DEF mbVars, MbInv, MbTypeOK, Passed, FindsFirst, WellFormed, WrittenByLoader, FollowedBy
  <2> QED BY <2>1, SearchStarts, UncoverKeeps, StepPasses, ReuseForgets DEF MbNext
<1> QED BY <1>1, <1>2, PTL DEF MbSpec

\* Each search finds the first tag of its type, whatever tags of whatever
\* sizes come before it, and says that there is none only if there is none.
THEOREM SearchFindsFirst == MbSpec => []FindsFirst
<1>1. MbInv => FindsFirst
  BY DEF MbInv
<1> QED BY <1>1, MbInvHolds, PTL

-----------------------------------------------------------------------------
(* Screen: for every buffer and every rectangle, filling writes the        *)
(* visible pixels of the rectangle and nothing else, and what is visible   *)
(* lies in the buffer.                                                     *)

\* What is left of a row or column of a rectangle after the cuts are its
\* visible pixels.
LEMMA CutExact ==
  ASSUME NEW c \in Int, NEW size \in Int, NEW limit \in Nat, size > 0,
         NEW i \in Int
  PROVE  i \in FirstOf(c) .. LastOf(c, size, limit)
           <=> i \in c .. c + size - 1 /\ i \in 0 .. limit - 1
BY DEF FirstOf, LastOf, Least

\* fb_fill_rect writes exactly the visible pixels of its rectangle, wherever
\* the rectangle lies and whatever its size.
THEOREM FillExact ==
  ASSUME NEW b \in Buffers, NEW r \in Rects
  PROVE  fb_fill_rect(b, r) = CellsOf(b, Pixels(r))
<1>1. /\ r.x \in Int /\ r.y \in Int /\ r.w \in Int /\ r.h \in Int
      /\ b.width \in Nat /\ b.height \in Nat
  BY DEF Buffers, Rects
<1>2. CASE r.w <= 0 \/ r.h <= 0 \/ r.x + r.w < 0 \/ r.y + r.h < 0
  <2>1. ASSUME NEW p \in Pixels(r), Visible(b, p[1], p[2]) PROVE FALSE
    <3>1. p[1] \in r.x .. r.x + r.w - 1 /\ p[2] \in r.y .. r.y + r.h - 1
      BY DEF Pixels
    <3>2. p[1] \in 0 .. b.width - 1 /\ p[2] \in 0 .. b.height - 1
      BY <2>1 DEF Visible
    <3> QED BY <1>1, <1>2, <3>1, <3>2
  <2>2. CellsOf(b, Pixels(r)) = {}
    BY <2>1 DEF CellsOf
  <2> QED BY <1>2, <2>2 DEF fb_fill_rect
<1>3. CASE ~(r.w <= 0 \/ r.h <= 0 \/ r.x + r.w < 0 \/ r.y + r.h < 0)
  <2> DEFINE X == FirstOf(r.x) .. LastOf(r.x, r.w, b.width)
             Y == FirstOf(r.y) .. LastOf(r.y, r.h, b.height)
  <2>1. fb_fill_rect(b, r) = {Cell(b, x, y) : x \in X, y \in Y}
    BY <1>3 DEF fb_fill_rect
  <2>2. \A x \in Int : x \in X <=> x \in r.x .. r.x + r.w - 1 /\ x \in 0 .. b.width - 1
    BY <1>1, <1>3, CutExact
  <2>3. \A y \in Int : y \in Y <=> y \in r.y .. r.y + r.h - 1 /\ y \in 0 .. b.height - 1
    BY <1>1, <1>3, CutExact
  <2>4. X \subseteq Int /\ Y \subseteq Int
    OBVIOUS
  <2> HIDE DEF X, Y
  <2>5. ASSUME NEW x \in X, NEW y \in Y
        PROVE  Cell(b, x, y) \in CellsOf(b, Pixels(r))
    <3>1. <<x, y>> \in Pixels(r) /\ Visible(b, x, y)
      BY <2>2, <2>3, <2>4 DEF Pixels, Visible
    <3> QED BY <3>1 DEF CellsOf
  <2>6. ASSUME NEW p \in Pixels(r), Visible(b, p[1], p[2])
        PROVE  p[1] \in X /\ p[2] \in Y
    <3>1. p[1] \in r.x .. r.x + r.w - 1 /\ p[2] \in r.y .. r.y + r.h - 1
      BY DEF Pixels
    <3>2. p[1] \in 0 .. b.width - 1 /\ p[2] \in 0 .. b.height - 1
      BY <2>6 DEF Visible
    <3> QED BY <2>2, <2>3, <3>1, <3>2
  <2>7. CellsOf(b, Pixels(r)) \subseteq {Cell(b, x, y) : x \in X, y \in Y}
    BY <2>6 DEF CellsOf
  <2> QED BY <2>1, <2>5, <2>7
<1> QED BY <1>2, <1>3

\* The word of a visible pixel is in the buffer when its rows hold their
\* pixels.
THEOREM VisibleInBuffer ==
  ASSUME NEW b \in Buffers, Sound(b), NEW x \in Int, NEW y \in Int,
         Visible(b, x, y)
  PROVE  InBuffer(b, Cell(b, x, y))
<1>1. /\ b.base \in Nat /\ b.width \in Nat /\ b.height \in Nat /\ b.pitch \in Nat
      /\ x \in 0 .. b.width - 1 /\ y \in 0 .. b.height - 1
  BY DEF Buffers, Visible
<1>2. x * BytesPerPixel + BytesPerPixel <= b.pitch
  BY <1>1 DEF Sound, BytesPerPixel
<1>3. y * b.pitch + b.pitch <= b.pitch * b.height
  <2>1. (y + 1) * b.pitch <= b.height * b.pitch
    BY <1>1, TimesMonotone
  <2> QED BY <1>1, <2>1
<1>4. y * b.pitch \in Nat /\ b.pitch * b.height \in Nat
  BY <1>1
<1> QED BY <1>1, <1>2, <1>3, <1>4 DEF InBuffer, Cell, BytesPerPixel

\* The filled part of a progress bar is a rectangle no wider than the bar.
LEMMA ProgressTyped ==
  ASSUME NEW r \in Rects, NEW value \in Nat, NEW max_value \in Nat \ {0}
  PROVE  /\ ProgressBar(r, value, max_value) \in Rects
         /\ ProgressBar(r, value, max_value).x = r.x
         /\ ProgressBar(r, value, max_value).y = r.y
         /\ ProgressBar(r, value, max_value).h = r.h
         /\ ProgressBar(r, value, max_value).w <= r.w
<1>1. r.x \in Int /\ r.y \in Int /\ r.w \in Int /\ r.h \in Int
  BY DEF Rects
<1> DEFINE n == FirstOf(r.w) * Least(value, max_value)
           bar == ProgressBar(r, value, max_value)
<1>2. n \in Nat
  BY <1>1 DEF FirstOf, Least
<1>3. ProgressWidth(r.w, value, max_value) \in Nat
  <2> HIDE DEF n
  <2>1. n \div max_value \in Nat
    BY <1>2, DivBounds
  <2> QED BY <2>1 DEF ProgressWidth, n
<1>4. bar.x = r.x /\ bar.y = r.y /\ bar.h = r.h /\ bar.w \in Int /\ bar.w <= r.w
  <2>1. Least(ProgressWidth(r.w, value, max_value), r.w) \in Int
    BY <1>1, <1>3 DEF Least
  <2>2. Least(ProgressWidth(r.w, value, max_value), r.w) <= r.w
    BY <1>1, <1>3 DEF Least
  <2> QED BY <2>1, <2>2 DEF ProgressBar, Rects
<1>5. bar \in Rects
  <2>1. Least(ProgressWidth(r.w, value, max_value), r.w) \in Int
    BY <1>1, <1>3 DEF Least
  <2> QED BY <2>1 DEF ProgressBar, Rects
<1> QED BY <1>4, <1>5

\* The filled part of a progress bar is part of the bar, whatever the value.
THEOREM ProgressInside ==
  ASSUME NEW r \in Rects, NEW value \in Nat, NEW max_value \in Nat \ {0}
  PROVE  Pixels(ProgressBar(r, value, max_value)) \subseteq Pixels(r)
<1> DEFINE bar == ProgressBar(r, value, max_value)
<1>1. bar \in Rects /\ bar.x = r.x /\ bar.y = r.y /\ bar.h = r.h /\ bar.w <= r.w
  BY ProgressTyped
<1> HIDE DEF bar
<1> QED BY <1>1 DEF Pixels, Rects, bar

-----------------------------------------------------------------------------
(* Ps2Init: whatever arrives while the mouse is initialised, the kernel    *)
(* has read one byte for each reply.                                       *)

Replied == {"ask_config", "set_defaults", "enable_reports"}

\* The calls, one by one.
LEMMA OrderIs ==
  /\ Len(Order) = 11 /\ DOMAIN Order = 1 .. 11
  /\ Order[1] = "enable_aux" /\ Order[2] = "ask_config" /\ Order[3] = "read_config"
  /\ Order[4] = "set_config" /\ Order[5] = "config_data" /\ Order[6] = "prefix"
  /\ Order[7] = "set_defaults" /\ Order[8] = "read_ack" /\ Order[9] = "prefix"
  /\ Order[10] = "enable_reports" /\ Order[11] = "read_ack"
BY DEF Order

\* There is no other.
LEMMA OrderEach ==
  ASSUME NEW i \in 1 .. 11
  PROVE  \/ i = 1 /\ Order[i] = "enable_aux"
         \/ i = 2 /\ Order[i] = "ask_config"
         \/ i = 3 /\ Order[i] = "read_config"
         \/ i = 4 /\ Order[i] = "set_config"
         \/ i = 5 /\ Order[i] = "config_data"
         \/ i = 6 /\ Order[i] = "prefix"
         \/ i = 7 /\ Order[i] = "set_defaults"
         \/ i = 8 /\ Order[i] = "read_ack"
         \/ i = 9 /\ Order[i] = "prefix"
         \/ i = 10 /\ Order[i] = "enable_reports"
         \/ i = 11 /\ Order[i] = "read_ack"
<1>1. i = 1 \/ i = 2 \/ i = 3 \/ i = 4 \/ i = 5 \/ i = 6 \/ i = 7 \/ i = 8
        \/ i = 9 \/ i = 10 \/ i = 11
  OBVIOUS
<1> QED BY <1>1, OrderIs

\* The read or write the kernel is at, and the one behind it: the writes that
\* bring a reply, and only they, are followed by a read.
LEMMA OperationFacts ==
  ASSUME PsTypeOK
  PROVE  /\ stage \in 0 .. 12 /\ (Done <=> stage = 12)
         /\ Operation \in {"none"} \cup Operations
         /\ stage \in 1 .. 11 => Operation = Order[stage]
         /\ stage \notin 1 .. 11 => Operation = "none"
<1>1. stage \in 0 .. 12 /\ (Done <=> stage = 12)
  BY OrderIs DEF PsTypeOK, Done
<1>2. /\ stage \in 1 .. 11 => Operation = Order[stage]
      /\ stage \notin 1 .. 11 => Operation = "none"
  BY OrderIs DEF Operation
<1>3. \A i \in 1 .. 11 : Order[i] \in Operations
  BY OrderEach DEF Operations, Reads
<1> QED BY <1>1, <1>2, <1>3

\* The next operation is a read if and only if this one brings a reply.
LEMMA ReadsFollow ==
  ASSUME PsTypeOK, stage \in 1 .. 11, stage' = stage + 1
  PROVE  Operation' \in Reads <=> Operation \in Replied
<1>1. Operation = Order[stage]
  BY OperationFacts
<1>2. Operation' = IF stage + 1 \in 1 .. 11 THEN Order[stage + 1] ELSE "none"
  BY OrderIs DEF Operation, Order
<1>3. CASE stage = 11
  BY <1>1, <1>2, <1>3, OrderIs DEF Reads, Replied
<1>4. CASE stage # 11
  <2>1. stage + 1 \in 1 .. 11
    BY <1>4
  <2>2. Operation' = Order[stage + 1]
    BY <1>2, <2>1
  <2> QED BY <1>1, <2>1, <2>2, OrderEach DEF Reads, Replied
<1> QED BY <1>3, <1>4

\* A byte taken from the port leaves one fewer.
LEMMA TakeOne ==
  ASSUME PsTypeOK, port # << >>
  PROVE  /\ Tail(port) \in Seq(Bytes) /\ Len(Tail(port)) = Len(port) - 1
         /\ Len(port) \in Nat /\ Head(port) \in Bytes
BY DEF PsTypeOK

\* A byte put into the port makes one more.
LEMMA PutOne ==
  ASSUME PsTypeOK, NEW b \in Bytes
  PROVE  /\ Append(port, b) \in Seq(Bytes)
         /\ Len(Append(port, b)) = Len(port) + 1 /\ Len(port) \in Nat
BY DEF PsTypeOK

\* The records of both sides keep their types.
THEOREM PsTypeCorrect == PsSpec => []PsTypeOK
<1>1. PsInit => PsTypeOK
  <2>1. {} \in Bytes /\ Config \in Bytes /\ << >> \in Seq(Bytes)
    BY Ps2Assumption DEF Bytes
  <2>2. 0 \in 0 .. Len(Order) + 1 /\ 0 \in 0 .. MaxArrived
    BY Ps2Assumption, OrderIs
  <2> SUFFICES ASSUME PsInit PROVE PsTypeOK
    OBVIOUS
  <2>3. status \in Bytes /\ config \in Bytes /\ port \in Seq(Bytes)
    BY <2>1 DEF PsInit
  <2>4. stage \in 0 .. Len(Order) + 1 /\ arrived \in 0 .. MaxArrived
    BY <2>2 DEF PsInit
  <2> QED BY <2>3, <2>4 DEF PsInit, PsTypeOK
<1>2. PsTypeOK /\ [PsNext]_psVars => PsTypeOK'
  <2> SUFFICES ASSUME PsTypeOK, [PsNext]_psVars PROVE PsTypeOK'
    OBVIOUS
  <2>0. Len(Order)' = Len(Order) /\ Order' = Order
    BY DEF Order
  <2>1. CASE init_ps2_mouse
    BY <2>0, <2>1, OrderIs DEF init_ps2_mouse, PsTypeOK
  <2>2. CASE Write
    BY <2>0, <2>2, OrderIs, OperationFacts DEF Write, PsTypeOK
  <2>3. CASE ReadConfig
    <3>1. stage \in 1 .. 11
      BY <2>3, OperationFacts DEF ReadConfig
    <3>2. status' \in Bytes
      BY <2>3, TakeOne DEF ReadConfig, ps2_read_data, MouseIrq, Bytes
    <3> QED BY <2>0, <2>3, <3>1, <3>2, OrderIs, TakeOne DEF ReadConfig, ps2_read_data, PsTypeOK
  <2>4. CASE ReadAck
    <3>1. stage \in 1 .. 11
      BY <2>4, OperationFacts DEF ReadAck
    <3> QED BY <2>0, <2>4, <3>1, OrderIs, TakeOne DEF ReadAck, ps2_read_data, PsTypeOK
  <2>5. CASE Handle
    <3>1. config' \in Bytes /\ reporting' \in BOOLEAN
      <4>1. config' = config \ {MouseOff} \/ config' = status \/ config' = config
        BY <2>5 DEF Handle
      <4>2. reporting' = FALSE \/ reporting' = (hardware = "mouse") \/ reporting' = reporting
        BY <2>5 DEF Handle
      <4>3. reporting' \in BOOLEAN
        BY <4>2 DEF PsTypeOK
      <4> QED BY <4>1, <4>3 DEF PsTypeOK, Bytes
    <3>2. port' \in Seq(Bytes) /\ acks' \in Nat
      BY <2>5, PutOne DEF Handle, PsTypeOK
    <3> QED BY <2>0, <2>5, <3>1, <3>2 DEF Handle, PsTypeOK
  <2>6. CASE Acknowledge
    BY <2>0, <2>6, PutOne, Ps2Assumption DEF Acknowledge, PsTypeOK
  <2>7. CASE Arrivals
    <3>1. PICK b \in Bytes : Arrive(b)
      BY <2>7, Ps2Assumption DEF Arrivals, Bytes
    <3> QED BY <2>0, <3>1, PutOne, Ps2Assumption DEF Arrive, PsTypeOK
  <2>8. CASE UNCHANGED psVars
    BY <2>0, <2>8 DEF psVars, PsTypeOK
  <2> QED
    BY <2>1, <2>2, <2>3, <2>4, <2>5, <2>6, <2>7, <2>8 DEF PsNext, Kernel, Devices
<1> QED BY <1>1, <1>2, PTL DEF PsSpec

\* However many keys are pressed while the mouse is initialised, the port is
\* behind by exactly the bytes that came unasked.
THEOREM PortBalanced == PsSpec => []LeftInPort
<1> DEFINE Expected == IF Operation \in Reads THEN 1 ELSE 0
<1>1. PsInit => LeftInPort
  <2> SUFFICES ASSUME PsInit PROVE LeftInPort
    OBVIOUS
  <2>1. Operation = "none" /\ Len(port) = 0
    BY OrderIs DEF PsInit, Operation
  <2> QED BY <2>1 DEF PsInit, LeftInPort, Due, Reads
<1>2. PsTypeOK /\ LeftInPort /\ [PsNext]_psVars => LeftInPort'
  <2> SUFFICES ASSUME PsTypeOK, LeftInPort, [PsNext]_psVars,
                      hardware' # "no_controller"
               PROVE  (Len(port) + Due = arrived + Expected)'
    BY DEF LeftInPort
  <2>0. /\ hardware' = hardware /\ hardware # "no_controller"
        /\ Len(port) + Due = arrived + Expected
        /\ Len(port) \in Nat /\ acks \in Nat /\ arrived \in Nat
    <3>1. hardware' = hardware
      BY DEF PsNext, Kernel, Devices, init_ps2_mouse, Write, ReadConfig, ReadAck,
             Handle, Acknowledge, Arrivals, Arrive, psVars
    <3> QED BY <3>1, Ps2Assumption DEF LeftInPort, PsTypeOK
  <2>1. CASE init_ps2_mouse
    <3>1. Operation = "none" /\ Operation' = "enable_aux"
      BY <2>1, OrderIs DEF init_ps2_mouse, Operation, Order
    <3> QED BY <2>0, <2>1, <3>1 DEF init_ps2_mouse, Due, Reads
  <2>2. CASE Write
    <3>1. stage \in 1 .. 11 /\ stage' = stage + 1 /\ Operation \notin Reads
      BY <2>2, OperationFacts DEF Write
    <3>2. Operation' \in Reads <=> Operation \in Replied
      BY <3>1, ReadsFollow
    <3>3. Due = acks /\ Due' = acks + IF Operation \in Replied THEN 1 ELSE 0
      BY <2>0, <2>2 DEF Write, Due, Replied
    <3> QED BY <2>0, <2>2, <3>1, <3>2, <3>3 DEF Write
  <2>3. CASE ReadConfig \/ ReadAck
    <3>1. /\ Operation \in Reads /\ stage' = stage + 1 /\ port # << >> /\ port' = Tail(port)
          /\ UNCHANGED <<acks, inbuf, arrived>>
      BY <2>3 DEF ReadConfig, ReadAck, ps2_read_data, Reads
    <3>2. stage \in 1 .. 11
      BY <3>1, OperationFacts DEF Reads
    <3>3. Operation' \notin Reads
      BY <3>1, <3>2, ReadsFollow DEF Reads, Replied
    <3> QED BY <2>0, <3>1, <3>3, TakeOne DEF Due
  <2>4. CASE Handle
    <3>1. Operation' = Operation
      BY <2>4 DEF Handle, Operation, Order
    <3>2. /\ inbuf = "ask_config" => port' = Append(port, config) /\ acks' = acks
          /\ inbuf \in {"set_defaults", "enable_reports"} => port' = port /\ acks' = acks + 1
          /\ inbuf \notin Replied => port' = port /\ acks' = acks
          /\ inbuf' = "none" /\ arrived' = arrived
      BY <2>4 DEF Handle, Replied
    <3>3. Len(Append(port, config)) = Len(port) + 1
      BY PutOne DEF PsTypeOK
    <3> QED BY <2>0, <3>1, <3>2, <3>3 DEF Due, Replied
  <2>5. CASE Acknowledge
    <3>1. Operation' = Operation
      BY <2>5 DEF Acknowledge, Operation, Order
    <3> QED BY <2>0, <2>5, <3>1, PutOne, Ps2Assumption DEF Acknowledge, Due
  <2>6. CASE Arrivals
    <3>1. PICK b \in Bytes : Arrive(b)
      BY <2>6, Ps2Assumption DEF Arrivals, Bytes
    <3>2. Operation' = Operation
      BY <3>1 DEF Arrive, Operation, Order
    <3> QED BY <2>0, <3>1, <3>2, PutOne DEF Arrive, Due
  <2>7. CASE UNCHANGED psVars
    BY <2>0, <2>7 DEF psVars, Due, Operation, Order
  <2> QED
    BY <2>1, <2>2, <2>3, <2>4, <2>5, <2>6, <2>7 DEF PsNext, Kernel, Devices
<1> QED BY <1>1, <1>2, PsTypeCorrect, PTL DEF PsSpec

-----------------------------------------------------------------------------
(* The boot runs both.                                                     *)

\* Nothing is searched for while memory_init and usb_init use memory.
IdleBetween == pc \in {"disk", "usb"} => walk.state = "idle"

\* Each part of the boot is a step of the search, of the initialisation, or of
\* neither.
LEMMA KernelParts ==
  ASSUME IdleBetween, KernelMain
  PROVE  IdleBetween' /\ [MbNext]_mbVars /\ [PsNext]_psVars
<1> USE DEF IdleBetween, mbVars, psVars, bootVars, panic, text_fallback
<1>1. CASE CheckMagic
  BY <1>1 DEF CheckMagic, MbNext, Types, Search
<1>2. CASE FindFramebuffer
  BY <1>2 DEF FindFramebuffer, MbNext
<1>3. CASE FindMap
  BY <1>3 DEF FindMap, MbNext, Types, Search
<1>4. CASE memory_init
  <2>1. Take /\ (UNCHANGED info \/ Overwrite(KernelEnd, HeapStart))
    BY <1>4 DEF memory_init
  <2>2. KernelEnd \in 0 .. Word - 1 /\ HeapStart \in 0 .. Word - 1
    BY MachinesAssumption, WordAssumption DEF HeapStart
  <2>3. MbNext /\ walk'.state = "idle"
    BY <2>1, <2>2 DEF MbNext, Reused, Take, Idle
  <2> QED BY <1>4, <2>3 DEF memory_init
<1>5. CASE ListDisk
  BY <1>5 DEF ListDisk
<1>6. CASE usb_init
  <2>1. /\ walk.state = "idle" /\ UNCHANGED <<walk, stray>>
        /\ Overwrite(HeapStart, HeapStart + HeapUsed)
    BY <1>6 DEF usb_init
  <2>2. HeapStart \in 0 .. Word - 1 /\ HeapStart + HeapUsed \in 0 .. Word - 1
    BY MachinesAssumption, WordAssumption DEF HeapStart
  <2>3. MbNext
    BY <2>1, <2>2 DEF MbNext, Reused
  <2> QED BY <1>6, <2>3 DEF usb_init
<1>7. CASE SetUpBackBuffer
  BY <1>7 DEF SetUpBackBuffer, PsNext
<1>8. CASE InitMouse
  BY <1>8 DEF InitMouse, PsNext
<1>9. CASE FindMeminfo
  BY <1>9 DEF FindMeminfo, MbNext, Types, Search
<1>10. CASE SumMemory
  BY <1>10 DEF SumMemory, MbNext
<1>11. CASE StartScheduler
  BY <1>11 DEF StartScheduler
<1>12. CASE ui_task \/ Blit \/ usb_task
  BY <1>12 DEF ui_task, Blit, usb_task, Unscheduled
<1>13. CASE (Uncover \/ Step) /\ UNCHANGED <<psVars, bootVars>>
  BY <1>13 DEF Uncover, Step, MbNext
<1> QED
  BY <1>1, <1>2, <1>3, <1>4, <1>5, <1>6, <1>7, <1>8, <1>9, <1>10, <1>11, <1>12, <1>13
  DEF KernelMain

\* So is every step of the system.
LEMMA BootParts ==
  IdleBetween /\ [BootNext]_vars => IdleBetween' /\ [MbNext]_mbVars /\ [PsNext]_psVars
<1> SUFFICES ASSUME IdleBetween, [BootNext]_vars
             PROVE  IdleBetween' /\ [MbNext]_mbVars /\ [PsNext]_psVars
  OBVIOUS
<1>1. CASE Hardware
  BY <1>1 DEF Hardware, PsNext, IdleBetween, mbVars, bootVars
<1>2. CASE UNCHANGED vars
  BY <1>2 DEF vars, IdleBetween, mbVars, psVars, bootVars
<1> QED BY <1>1, <1>2, KernelParts DEF BootNext

LEMMA BootBegins == BootInit => MbInit /\ PsInit /\ IdleBetween
<1> SUFFICES ASSUME BootInit PROVE MbInit /\ IdleBetween
  BY DEF BootInit
<1>1. walk = Idle /\ IdleBetween
  BY DEF BootInit, IdleBetween
<1>2. /\ info.base \in Nat /\ info.total \in Nat
      /\ \A o \in DOMAIN info.tags : info.tags[o].type \in Nat /\ info.tags[o].size \in Nat
  BY MachinesAssumption DEF BootInit
<1>3. stray = NoStrays /\ \A o \in DOMAIN stray : stray[o] \in Headers
  BY DEF BootInit, NoStrays
<1> QED BY <1>1, <1>2, <1>3 DEF MbInit, MbTypeOK, Idle

\* kernel_main runs the search and the initialisation of the mouse as they are
\* specified by themselves, whatever it does between their steps.
THEOREM BootRunsBoth == BootSpec => MbSpec /\ PsSpec
<1> QED BY BootBegins, BootParts, PTL DEF BootSpec, MbSpec, PsSpec

\* mb2.c in kernel_main: each of the three searches finds the first tag of its
\* type, though memory_init and usb_init write over memory between them.
THEOREM BootFindsFirst == BootSpec => []FindsFirst
  BY BootRunsBoth, SearchFindsFirst, PTL

\* init_ps2_mouse in kernel_main: the port is behind by exactly the bytes that
\* came unasked.
THEOREM BootLeavesInPort == BootSpec => []LeftInPort
  BY BootRunsBoth, PortBalanced, PTL
-----------------------------------------------------------------------------
(* The memory size that is shown                                           *)

\* Information out of reach of the bitmap and the heap stays as the boot loader
\* left it, and what is taken for the memory sizes was looked for.
Untouched ==
  OutOfReach /\ WrittenByLoader(machine.info) =>
    /\ info.base = machine.info.base /\ info.total = machine.info.total
    /\ DOMAIN info.tags = DOMAIN machine.info.tags
    /\ \A o \in DOMAIN info.tags : info.tags[o] = machine.info.tags[o]

SizesWanted ==
  pc = "meminfo" => walk.state # "idle" /\ walk.wanted = BasicMeminfo

RamInv == machine \in Machines /\ Untouched /\ SizesWanted /\ RamReported

\* What a search reads of a tag lies in the information.
LEMMA ExtentWithin ==
  ASSUME machine \in Machines, WrittenByLoader(machine.info), DOMAIN info.tags = DOMAIN machine.info.tags,
         info.total = machine.info.total,
         NEW o \in DOMAIN info.tags, info.tags[o] = machine.info.tags[o]
  PROVE  /\ o \in Nat /\ Extent(info.tags[o]) \in Nat
         /\ o + Extent(info.tags[o]) <= info.total
<1> DEFINE tag == machine.info.tags[o]
<1>1. /\ o \in Nat /\ o + HeaderSize <= machine.info.total
      /\ tag.type \in Nat /\ tag.size \in Nat /\ machine.info.total \in Nat
  BY MachinesAssumption DEF WrittenByLoader
<1>2. CASE Extent(tag) = HeaderSize
  BY <1>1, <1>2 DEF HeaderSize
<1>3. CASE Extent(tag) # HeaderSize
  <2>1. /\ tag.type \in Types /\ tag.size >= SizeOf(tag.type)
        /\ Extent(tag) = SizeOf(tag.type)
    BY <1>3 DEF Extent, Matches
  <2>2. tag.type # End /\ SizeOf(tag.type) \in Nat
    BY <2>1 DEF Types, End, Framebuffer, BasicMeminfo, Mmap, SizeOf
  <2>3. PICK p \in DOMAIN machine.info.tags : FollowedBy(machine.info.tags, o, p)
    BY <2>2 DEF WrittenByLoader
  <2>4. o + tag.size <= p
    BY <2>3 DEF FollowedBy
  <2>5. p \in Nat /\ p + HeaderSize <= machine.info.total
    BY DEF WrittenByLoader
  <2> HIDE DEF tag
  <2> QED BY <1>1, <2>1, <2>2, <2>4, <2>5 DEF HeaderSize, tag
<1> QED BY <1>2, <1>3

\* Writing elsewhere changes no tag.
LEMMA OverwrittenElsewhere ==
  ASSUME machine \in Machines, Untouched, OutOfReach, WrittenByLoader(machine.info),
         NEW from \in Nat, NEW to \in Nat, Overwrite(from, to),
         from >= KernelEnd, to <= HeapStart + HeapUsed
  PROVE  /\ info'.base = info.base /\ info'.total = info.total
         /\ DOMAIN info'.tags = DOMAIN info.tags
         /\ \A o \in DOMAIN info.tags : info'.tags[o] = info.tags[o]
<1>1. /\ machine.info.base \in Nat /\ machine.info.total \in Nat
      /\ KernelEnd \in Nat /\ HeapStart + HeapUsed \in Nat
  BY MachinesAssumption DEF HeapStart
<1>2. \/ info.base + info.total <= KernelEnd
      \/ info.base >= HeapStart + HeapUsed
  BY DEF Untouched, OutOfReach
<1>3. info.base \in Nat /\ info.total \in Nat /\ info.total >= HeaderSize
  BY <1>1 DEF Untouched, WrittenByLoader
<1>4. ~Reaches(from, to, 0, 4)
  BY <1>1, <1>2, <1>3 DEF HeaderSize, Reaches
<1>5. ASSUME NEW o \in DOMAIN info.tags
      PROVE  ~Reaches(from, to, o, Extent(info.tags[o]))
  <2>1. o \in Nat /\ Extent(info.tags[o]) \in Nat /\ o + Extent(info.tags[o]) <= info.total
    BY ExtentWithin DEF Untouched
  <2> HIDE DEF Extent
  <2>2. \/ info.base + o + Extent(info.tags[o]) <= KernelEnd
        \/ info.base + o >= HeapStart + HeapUsed
    BY <1>1, <1>2, <1>3, <2>1
  <2> QED BY <1>1, <1>3, <2>1, <2>2 DEF Reaches
<1>6. Kept(from, to) = DOMAIN info.tags
  BY <1>5 DEF Kept
<1>7. PICK h \in Headers :
        info' = [base  |-> info.base,
                 total |-> IF Reaches(from, to, 0, 4) THEN h.size ELSE info.total,
                 tags  |-> [o \in Kept(from, to) |-> info.tags[o]]]
  BY DEF Overwrite
<1> QED BY <1>4, <1>6, <1>7

\* Where the kernel is at each part of the boot, and what it leaves alone.
LEMMA SearchKept ==
  ASSUME RamInv, UNCHANGED machine, info' = info,
         pc' = "meminfo" => walk'.state # "idle" /\ walk'.wanted = BasicMeminfo,
         pc' \in {"ui", "running", "blit"} => pc \in {"ui", "running", "blit"} /\ ram' = ram
  PROVE  RamInv'
<1>1. machine' \in Machines /\ Untouched' /\ SizesWanted'
  BY DEF RamInv, Untouched, SizesWanted, OutOfReach, WrittenByLoader, FollowedBy, HeapStart
<1>2. RamReported'
  BY DEF RamInv, RamReported, OutOfReach, WrittenByLoader, FollowedBy, HeapStart, Meminfos
<1> QED BY <1>1, <1>2 DEF RamInv

LEMMA RamStep ==
  ASSUME RamInv, MbInv, [BootNext]_vars
  PROVE  RamInv'
<1> USE DEF mbVars, psVars, bootVars, panic, text_fallback
<1>1. CASE CheckMagic \/ FindFramebuffer \/ FindMap \/ ListDisk \/ SetUpBackBuffer
  <2>1. CASE CheckMagic
    BY <2>1, SearchKept DEF CheckMagic, Search
  <2>2. CASE FindFramebuffer
    BY <2>2, SearchKept DEF FindFramebuffer
  <2>3. CASE FindMap
    BY <2>3, SearchKept DEF FindMap, Search
  <2>4. CASE ListDisk \/ SetUpBackBuffer
    BY <2>4, SearchKept DEF ListDisk, SetUpBackBuffer
  <2> QED BY <1>1, <2>1, <2>2, <2>3, <2>4
<1>2. ASSUME NEW from \in Nat, NEW to \in Nat,
             from >= KernelEnd, to <= HeapStart + HeapUsed,
             Overwrite(from, to), UNCHANGED machine,
             pc' \in {"disk", "size"}
      PROVE  RamInv'
  <2>1. Untouched'
    <3> SUFFICES ASSUME OutOfReach, WrittenByLoader(machine.info)
                 PROVE  /\ info'.base = info.base /\ info'.total = info.total
                        /\ DOMAIN info'.tags = DOMAIN info.tags
                        /\ \A o \in DOMAIN info.tags : info'.tags[o] = info.tags[o]
      BY <1>2 DEF RamInv, Untouched, OutOfReach, WrittenByLoader, FollowedBy, HeapStart
    <3> QED BY <1>2, OverwrittenElsewhere DEF RamInv
  <2>2. SizesWanted' /\ RamReported' /\ machine' \in Machines
    BY <1>2 DEF RamInv, SizesWanted, RamReported
  <2> QED BY <2>1, <2>2 DEF RamInv
<1>3. KernelEnd \in Nat /\ BitmapBytes \in Nat /\ HeapUsed \in Nat
  BY MachinesAssumption
<1>4. CASE memory_init
  <2>1. CASE info' = info
    BY <1>4, <2>1, SearchKept DEF memory_init
  <2>2. CASE Overwrite(KernelEnd, HeapStart) /\ pc' = "disk" /\ UNCHANGED machine
    <3>1. HeapStart \in Nat /\ HeapStart <= HeapStart + HeapUsed
      BY <1>3 DEF HeapStart
    <3> QED BY <1>2, <1>3, <2>2, <3>1
  <2> QED BY <1>4, <2>1, <2>2 DEF memory_init
<1>5. CASE usb_init
  <2>1. /\ Overwrite(HeapStart, HeapStart + HeapUsed)
        /\ pc' = "size" /\ UNCHANGED machine
    BY <1>5 DEF usb_init
  <2>2. HeapStart \in Nat /\ HeapStart + HeapUsed \in Nat /\ HeapStart >= KernelEnd
    BY <1>3 DEF HeapStart
  <2> QED BY <1>2, <2>1, <2>2
<1>6. CASE InitMouse \/ Hardware \/ UNCHANGED vars
  BY <1>6, SearchKept DEF InitMouse, Hardware, vars, RamInv, SizesWanted
<1>7. CASE FindMeminfo
  BY <1>7, SearchKept DEF FindMeminfo, Search
<1>8. CASE SumMemory
  <2>1. /\ pc = "meminfo" /\ pc' = "ui" /\ UNCHANGED <<info, machine>>
        /\ walk.state = "missing" => ram' = 0
        /\ walk.state = "found" /\ walk.ptr \in DOMAIN info.tags => ram' = RamOf(Tag)
        /\ walk.state \in {"found", "missing"} /\ walk.wanted = BasicMeminfo
    BY <1>8 DEF SumMemory, Take, Finished, RamInv, SizesWanted
  <2>2. machine' \in Machines /\ Untouched' /\ SizesWanted'
    BY <2>1 DEF RamInv, Untouched, SizesWanted, OutOfReach, WrittenByLoader, FollowedBy, HeapStart
  <2>3. ASSUME OutOfReach, WrittenByLoader(machine.info)
        PROVE  \/ Meminfos = {} /\ ram' = 0
               \/ \E o \in Meminfos :
                    ram' = machine.info.tags[o].lower + machine.info.tags[o].upper
    <3>1. /\ info.base = machine.info.base /\ info.total = machine.info.total
          /\ DOMAIN info.tags = DOMAIN machine.info.tags
          /\ \A o \in DOMAIN info.tags : info.tags[o] = machine.info.tags[o]
      BY <2>3 DEF RamInv, Untouched
    <3>2. WellFormed
      BY <2>3, <3>1 DEF WellFormed, WrittenByLoader, FollowedBy
    <3>3. CASE walk.state = "found"
      <4>1. /\ walk.ptr \in DOMAIN info.tags
            /\ Matches(info.tags[walk.ptr], BasicMeminfo)
        BY <2>1, <3>2, <3>3 DEF MbInv, FindsFirst
      <4>2. walk.ptr \in Meminfos /\ Tag = machine.info.tags[walk.ptr]
        BY <3>1, <4>1 DEF Meminfos, Matches, Tag
      <4> QED BY <2>1, <3>3, <4>1, <4>2 DEF RamOf
    <3>4. CASE walk.state = "missing"
      <4>1. \A o \in DOMAIN info.tags : ~Matches(info.tags[o], BasicMeminfo)
        BY <2>1, <3>2, <3>4 DEF MbInv, FindsFirst
      <4>2. Meminfos = {}
        BY <3>1, <4>1 DEF Meminfos, Matches
      <4> QED BY <2>1, <3>4, <4>2
    <3> QED BY <2>1, <3>3, <3>4
  <2>4. RamReported'
    BY <2>1, <2>3 DEF RamReported, OutOfReach, WrittenByLoader, FollowedBy, HeapStart, Meminfos
  <2> QED BY <2>2, <2>4 DEF RamInv
<1>9. CASE StartScheduler \/ ui_task \/ Blit \/ usb_task
  BY <1>9, SearchKept DEF StartScheduler, ui_task, Blit, usb_task, Unscheduled
<1>10. CASE (Uncover \/ Step) /\ UNCHANGED <<psVars, bootVars>>
  <2>1. walk.state = "walking" /\ walk'.state # "idle" /\ walk'.wanted = walk.wanted
    BY <1>10 DEF Uncover, Step, MbInv, MbTypeOK
  <2> QED BY <1>10, <2>1, SearchKept DEF Uncover, Step, RamInv, SizesWanted
<1> QED
  BY <1>1, <1>4, <1>5, <1>6, <1>7, <1>8, <1>9, <1>10 DEF BootNext, KernelMain

\* kernel_main: the memory size shown is the sum the boot loader gave, for any
\* information it writes out of reach of the bitmap and of usb_init's heap.
THEOREM RamIsReported == BootSpec => []RamReported
<1>1. BootInit => RamInv
  BY DEF BootInit, RamInv, Untouched, SizesWanted, RamReported
<1>2. RamInv /\ MbInv /\ [BootNext]_vars => RamInv'
  BY RamStep
<1>3. RamInv => RamReported
  BY DEF RamInv
<1>4. BootSpec => []MbInv
  BY BootRunsBoth, MbInvHolds, PTL
<1> QED BY <1>1, <1>2, <1>3, <1>4, PTL DEF BootSpec

-----------------------------------------------------------------------------
(* What is drawn                                                           *)

Kinds == {"fill", "text", "cursor", "button", "progress", "gradient"}

\* Something with coordinates that ui_render or the boot may draw.
Drawable(s) ==
  /\ s.kind \in Kinds
  /\ s.kind # "gradient" => s.r \in Rects
  /\ s.kind \in {"text", "button", "progress"} => s.n \in Nat
  /\ s.kind = "progress" => s.max \in Nat

\* The pixels that are visible, of two sets together.
LEMMA CellsOfUnion ==
  ASSUME NEW b, NEW P, NEW Q
  PROVE  CellsOf(b, P \cup Q) = CellsOf(b, P) \cup CellsOf(b, Q)
BY DEF CellsOf

LEMMA CellsOfSubset ==
  ASSUME NEW b, NEW P, NEW Q, P \subseteq Q
  PROVE  CellsOf(b, P) \subseteq CellsOf(b, Q)
BY DEF CellsOf

\* Putting pixels one by one writes the visible ones of them.
LEMMA PutPixels ==
  ASSUME NEW b, NEW P
  PROVE  UNION {fb_put_pixel(b, p[1], p[2]) : p \in P} = CellsOf(b, P)
BY DEF fb_put_pixel, CellsOf

\* A kind at a time, what is written and what is meant.
LEMMA KindsOfDrawing ==
  ASSUME NEW b, NEW s
  PROVE  /\ s.kind = "fill" => Cells(b, s) = fb_fill_rect(b, s.r) /\ Meant(b, s) = Pixels(s.r)
         /\ s.kind = "text" => /\ Cells(b, s) = fb_draw_string(b, s.r.x, s.r.y, s.n)
                               /\ Meant(b, s) = TextPixels(s.r.x, s.r.y, s.n)
         /\ s.kind = "cursor" =>
              /\ Cells(b, s) = mui_draw_cursor(b, s.r.x, s.r.y)
              /\ Meant(b, s) = {<<s.r.x + d[1], s.r.y + d[2]>> : d \in PointerShape}
         /\ s.kind = "button" =>
              /\ Cells(b, s) = mui_draw_button(b, s.r, s.n)
              /\ Meant(b, s) = Pixels(s.r) \cup TextPixels(s.r.x + 8, s.r.y + 7, s.n)
         /\ s.kind = "progress" =>
              /\ Cells(b, s) = mui_draw_progress(b, s.r, s.n, s.max)
              /\ Meant(b, s) = Pixels(s.r)
         /\ s.kind = "gradient" =>
              /\ Cells(b, s) = fb_draw_vertical_gradient(b)
              /\ Meant(b, s) = Pixels([x |-> 0, y |-> 0, w |-> b.width, h |-> b.height])
<1>1. CASE s.kind = "fill"
  BY <1>1, Zenon DEF Cells, Meant
<1>2. CASE s.kind = "text"
  BY <1>2, Zenon DEF Cells, Meant
<1>3. CASE s.kind = "cursor"
  BY <1>3, Zenon DEF Cells, Meant
<1>4. CASE s.kind = "button"
  BY <1>4, Zenon DEF Cells, Meant
<1>5. CASE s.kind = "progress"
  BY <1>5, Zenon DEF Cells, Meant
<1>6. CASE s.kind = "gradient"
  BY <1>6, Zenon DEF Cells, Meant
<1> QED BY <1>1, <1>2, <1>3, <1>4, <1>5, <1>6

\* The pixels of a text, character by character and row by row.
LEMMA TextExact ==
  ASSUME NEW b, NEW x \in Int, NEW y \in Int, NEW n \in Nat
  PROVE  fb_draw_string(b, x, y, n) = CellsOf(b, TextPixels(x, y, n))
<1> DEFINE C == UNION {fb_draw_char(b, x + cursor * Glyph, y) : cursor \in 0 .. n - 1}
<1>1. Glyph \in Nat \ {0}
  BY DrawingAssumption
<1>2. ASSUME NEW cursor \in 0 .. n - 1, NEW col \in 0 .. Glyph - 1, NEW row \in 0 .. Glyph - 1
      PROVE  <<x + cursor * Glyph + col, y + row>> \in TextPixels(x, y, n)
  <2>1. cursor * Glyph \in Nat /\ (cursor + 1) * Glyph <= n * Glyph
    BY <1>1, TimesMonotone
  <2>2. (cursor + 1) * Glyph = cursor * Glyph + Glyph /\ n * Glyph = Glyph * n
    BY <1>1
  <2> DEFINE k == cursor * Glyph
             m == Glyph * n
  <2>3. k \in Nat /\ m \in Nat /\ k + Glyph <= m
    BY <1>1, <2>1, <2>2
  <2> HIDE DEF k, m
  <2>4. x + k + col \in x .. x + m - 1 /\ y + row \in y .. y + Glyph - 1 /\ n # 0
    BY <1>1, <2>3
  <2> QED BY <2>4 DEF TextPixels, Pixels, k, m
<1>3. ASSUME NEW p \in TextPixels(x, y, n)
      PROVE  \E cursor \in 0 .. n - 1, col, row \in 0 .. Glyph - 1 :
               p = <<x + cursor * Glyph + col, y + row>>
  <2>1. p \in (x .. x + Glyph * n - 1) \X (y .. y + (IF n = 0 THEN 0 ELSE Glyph) - 1)
    BY DEF TextPixels, Pixels
  <2>2. n # 0 /\ p = <<p[1], p[2]>> /\ p[1] \in Int /\ p[2] \in Int
    BY <2>1
  <2> DEFINE d == p[1] - x
             row == p[2] - y
             q == d \div Glyph
             m == Glyph * n
  <2>3. d \in Nat /\ d < m /\ row \in 0 .. Glyph - 1 /\ m = n * Glyph /\ m \in Nat
    BY <1>1, <2>1, <2>2
  <2> HIDE DEF d, row, m
  <2>4. q \in Nat /\ q * Glyph <= d /\ d < q * Glyph + Glyph
    BY <1>1, <2>3, DivBounds
  <2> HIDE DEF q
  <2>5. q < n
    <3> SUFFICES ASSUME n <= q PROVE FALSE
      BY <2>4
    <3>1. n * Glyph <= q * Glyph
      BY <1>1, <2>4, TimesMonotone
    <3> DEFINE k == q * Glyph
    <3>2. k \in Nat
      BY <1>1, <2>4
    <3>3. m <= k /\ k <= d
      BY <2>3, <2>4, <3>1
    <3> HIDE DEF k
    <3> QED BY <2>3, <3>2, <3>3
  <2> DEFINE k == q * Glyph
             col == d - k
  <2>6. k \in Nat /\ col \in 0 .. Glyph - 1 /\ d = k + col
    <3>1. k \in Nat /\ k <= d /\ d < k + Glyph
      BY <1>1, <2>4
    <3> HIDE DEF k
    <3> QED BY <1>1, <2>3, <3>1
  <2> HIDE DEF k, col
  <2>7. p[1] = x + k + col /\ p[2] = y + row
    <3>1. p[1] = x + d /\ p[2] = y + row
      <4> USE DEF d, row
      <4> DEFINE p1 == p[1]
                 p2 == p[2]
      <4>1. p1 \in Int /\ p2 \in Int
        BY <2>2
      <4> HIDE DEF p1, p2
      <4>2. p1 = x + (p1 - x) /\ p2 = y + (p2 - y)
        BY <4>1
      <4> QED BY <4>2 DEF p1, p2
    <3> QED BY <2>3, <2>6, <3>1
  <2>8. q \in 0 .. n - 1
    BY <2>4, <2>5
  <2>9. p = <<x + q * Glyph + col, y + row>>
    BY <2>2, <2>7 DEF k
  <2> QED BY <2>3, <2>6, <2>8, <2>9
<1>4. ASSUME NEW c \in C PROVE c \in CellsOf(b, TextPixels(x, y, n))
  <2>1. PICK cursor \in 0 .. n - 1 : c \in fb_draw_char(b, x + cursor * Glyph, y)
    OBVIOUS
  <2>2. PICK col, row \in 0 .. Glyph - 1 :
          c \in fb_put_pixel(b, x + cursor * Glyph + col, y + row)
    BY <2>1 DEF fb_draw_char
  <2>3. <<x + cursor * Glyph + col, y + row>> \in TextPixels(x, y, n)
    BY <1>2
  <2> QED BY <2>2, <2>3 DEF fb_put_pixel, CellsOf
<1>5. ASSUME NEW c \in CellsOf(b, TextPixels(x, y, n)) PROVE c \in C
  <2>1. PICK p \in TextPixels(x, y, n) : Visible(b, p[1], p[2]) /\ c = Cell(b, p[1], p[2])
    BY DEF CellsOf
  <2>2. PICK cursor \in 0 .. n - 1, col \in 0 .. Glyph - 1, row \in 0 .. Glyph - 1 :
          p = <<x + cursor * Glyph + col, y + row>>
    BY <1>3
  <2>3. c \in fb_put_pixel(b, x + cursor * Glyph + col, y + row)
    BY <2>1, <2>2 DEF fb_put_pixel
  <2>4. c \in fb_draw_char(b, x + cursor * Glyph, y)
    BY <2>3 DEF fb_draw_char
  <2> QED BY <2>4
<1>6. C = CellsOf(b, TextPixels(x, y, n))
  <2> HIDE DEF C
  <2> QED BY <1>4, <1>5
<1> QED BY <1>6 DEF fb_draw_string

\* Whatever is drawn and wherever, the words written are those of the visible
\* pixels that are meant.
LEMMA DrawingExact ==
  ASSUME NEW b \in Buffers, NEW s, Drawable(s)
  PROVE  Cells(b, s) = CellsOf(b, Meant(b, s))
<1>1. s.kind # "gradient" =>
        s.r.x \in Int /\ s.r.y \in Int /\ s.r.x + 8 \in Int /\ s.r.y + 7 \in Int
  BY DEF Drawable, Rects
<1>2. CASE s.kind = "fill"
  BY <1>2, KindsOfDrawing, FillExact DEF Drawable
<1>3. CASE s.kind = "text"
  <2>1. fb_draw_string(b, s.r.x, s.r.y, s.n) = CellsOf(b, TextPixels(s.r.x, s.r.y, s.n))
    BY <1>1, <1>3, TextExact DEF Drawable
  <2> QED BY <1>3, <2>1, KindsOfDrawing
<1>4. CASE s.kind = "cursor"
  <2> DEFINE P == {<<s.r.x + d[1], s.r.y + d[2]>> : d \in PointerShape}
  <2>1. mui_draw_cursor(b, s.r.x, s.r.y) = UNION {fb_put_pixel(b, p[1], p[2]) : p \in P}
    <3> DEFINE x == s.r.x
               y == s.r.y
    <3>1. ASSUME NEW d \in PointerShape
          PROVE  /\ <<x + d[1], y + d[2]>> \in P
                 /\ <<x + d[1], y + d[2]>>[1] = x + d[1]
                 /\ <<x + d[1], y + d[2]>>[2] = y + d[2]
      OBVIOUS
    <3>2. ASSUME NEW p \in P
          PROVE  \E d \in PointerShape : p[1] = x + d[1] /\ p[2] = y + d[2]
      OBVIOUS
    <3> HIDE DEF P, x, y
    <3>3. UNION {fb_put_pixel(b, x + d[1], y + d[2]) : d \in PointerShape}
            = UNION {fb_put_pixel(b, p[1], p[2]) : p \in P}
      BY <3>1, <3>2, Zenon
    <3> QED BY <3>3 DEF mui_draw_cursor, x, y
  <2> HIDE DEF P
  <2>2. UNION {fb_put_pixel(b, p[1], p[2]) : p \in P} = CellsOf(b, P)
    BY PutPixels
  <2> QED BY <1>4, <2>1, <2>2, KindsOfDrawing DEF P
<1>5. CASE s.kind = "button"
  <2>1. fb_fill_rect(b, s.r) = CellsOf(b, Pixels(s.r))
    BY <1>5, FillExact DEF Drawable
  <2>2. fb_draw_string(b, s.r.x + 8, s.r.y + 7, s.n)
          = CellsOf(b, TextPixels(s.r.x + 8, s.r.y + 7, s.n))
    BY <1>1, <1>5, TextExact DEF Drawable
  <2>3. mui_draw_button(b, s.r, s.n)
          = CellsOf(b, Pixels(s.r) \cup TextPixels(s.r.x + 8, s.r.y + 7, s.n))
    <3>1. mui_draw_button(b, s.r, s.n)
            = fb_fill_rect(b, s.r) \cup fb_draw_string(b, s.r.x + 8, s.r.y + 7, s.n)
      BY Zenon DEF mui_draw_button
    <3> DEFINE P == Pixels(s.r)
               Q == TextPixels(s.r.x + 8, s.r.y + 7, s.n)
    <3>2. CellsOf(b, P \cup Q) = CellsOf(b, P) \cup CellsOf(b, Q)
      <4> HIDE DEF P, Q
      <4> QED BY CellsOfUnion
    <3> QED BY <2>1, <2>2, <3>1, <3>2, Zenon
  <2> QED BY <1>5, <2>3, KindsOfDrawing, Zenon
<1>6. CASE s.kind = "progress"
  <2>1. fb_fill_rect(b, s.r) = CellsOf(b, Pixels(s.r))
    BY <1>6, FillExact DEF Drawable
  <2>2. ASSUME s.max # 0
        PROVE  fb_fill_rect(b, ProgressBar(s.r, s.n, s.max)) \subseteq CellsOf(b, Pixels(s.r))
    <3> DEFINE bar == ProgressBar(s.r, s.n, s.max)
    <3>1. Pixels(bar) \subseteq Pixels(s.r)
      BY <1>6, <2>2, ProgressInside DEF Drawable
    <3>2. bar \in Rects
      BY <1>6, <2>2, ProgressTyped DEF Drawable
    <3> HIDE DEF bar
    <3>3. fb_fill_rect(b, bar) = CellsOf(b, Pixels(bar))
      BY <3>2, FillExact
    <3> QED BY <3>1, <3>3, CellsOfSubset DEF bar
  <2>3. mui_draw_progress(b, s.r, s.n, s.max) = CellsOf(b, Pixels(s.r))
    BY <2>1, <2>2, Zenon DEF mui_draw_progress
  <2> QED BY <1>6, <2>3, KindsOfDrawing, Zenon
<1>7. CASE s.kind = "gradient"
  <2> DEFINE P == Pixels([x |-> 0, y |-> 0, w |-> b.width, h |-> b.height])
  <2>1. /\ b.width \in Nat /\ b.height \in Nat
        /\ P = (0 .. b.width - 1) \X (0 .. b.height - 1)
    BY DEF Buffers, Pixels
  <2> HIDE DEF P
  <2>2. ASSUME NEW x \in 0 .. b.width - 1, NEW y \in 0 .. b.height - 1
        PROVE  /\ <<x, y>> \in P /\ Visible(b, x, y)
               /\ <<x, y>>[1] = x /\ <<x, y>>[2] = y
    BY <2>1 DEF Visible
  <2>3. ASSUME NEW p \in P
        PROVE  p[1] \in 0 .. b.width - 1 /\ p[2] \in 0 .. b.height - 1
    BY <2>1
  <2>4. {Cell(b, x, y) : x \in 0 .. b.width - 1, y \in 0 .. b.height - 1} = CellsOf(b, P)
    <3> HIDE DEF Visible
    <3>1. ASSUME NEW c \in {Cell(b, x, y) : x \in 0 .. b.width - 1, y \in 0 .. b.height - 1}
          PROVE  c \in CellsOf(b, P)
      <4>1. PICK x \in 0 .. b.width - 1, y \in 0 .. b.height - 1 : c = Cell(b, x, y)
        OBVIOUS
      <4>2. /\ <<x, y>> \in P /\ Visible(b, <<x, y>>[1], <<x, y>>[2])
            /\ c = Cell(b, <<x, y>>[1], <<x, y>>[2])
        BY <2>2, <4>1
      <4> QED BY <4>2 DEF CellsOf
    <3>2. ASSUME NEW c \in CellsOf(b, P)
          PROVE  c \in {Cell(b, x, y) : x \in 0 .. b.width - 1, y \in 0 .. b.height - 1}
      <4>1. PICK p \in P : c = Cell(b, p[1], p[2])
        BY DEF CellsOf
      <4> QED BY <2>3, <4>1
    <3> QED BY <3>1, <3>2
  <2>5. fb_draw_vertical_gradient(b) = CellsOf(b, P)
    BY <2>4 DEF fb_draw_vertical_gradient
  <2> QED BY <1>7, <2>5, KindsOfDrawing, Zenon DEF P
<1> QED BY <1>2, <1>3, <1>4, <1>5, <1>6, <1>7 DEF Drawable, Kinds


-----------------------------------------------------------------------------
(* What kernel_main draws on, from the tag it finds to the loop.           *)

\* Behind the check of the framebuffer, and behind that of its size.
Lit    == {"memory", "mmap", "disk", "usb", "size"} \cup
          {"mouse", "meminfo", "ui", "running", "blit"}
Backed == {"mouse", "meminfo", "ui", "running", "blit"}

\* Before the framebuffer is known there is nothing on it, and what is searched
\* is what the boot loader wrote.
ScreenSought ==
  pc \in {"start", "fb"} =>
    /\ info = machine.info /\ ~panic_fb /\ drawn = Nothing
    /\ pc = "fb" => walk.wanted = Framebuffer /\ machine.magic

ScreenKnown == pc \in Lit => fb \in Buffers /\ Sound(fb) /\ fb.base # 0 /\ fb.base # BackBase

\* The back buffer is the part of the static array that has the screen's size.
BackSet ==
  pc \in Backed =>
    /\ fb.width <= BackWidth /\ fb.height <= BackHeight
    /\ draw_fb = [fb EXCEPT !.base = BackBase, !.pitch = fb.width * BytesPerPixel]

DrawInv ==
  machine \in Machines /\ ScreenSought /\ ScreenKnown /\ BackSet /\ DrawnExactly /\ DrawnInside

\* What is drawn is exact and lies in its buffer.
Fits(d, screen) ==
  /\ d.cells = d.due
  /\ \A c \in d.cells : IF d.on.base = BackBase THEN InBackBuffer(c) ELSE InBuffer(screen, c)

LEMMA NothingFits == ASSUME NEW screen PROVE Fits(Nothing, screen)
BY DEF Fits, Nothing

LEMMA CellNat ==
  ASSUME NEW b \in Buffers, NEW x \in Nat, NEW y \in Nat
  PROVE  Cell(b, x, y) \in Nat
<1>1. b.base \in Nat /\ b.pitch \in Nat
  BY DEF Buffers
<1>2. y * b.pitch \in Nat
  BY <1>1
<1> DEFINE k == y * b.pitch
<1> HIDE DEF k
<1>3. b.base + k + x * BytesPerPixel \in Nat
  BY <1>1, <1>2 DEF BytesPerPixel, k
<1> QED BY <1>3 DEF Cell, k

\* The words of visible pixels are numbers in the buffer.
LEMMA CellsInBuffer ==
  ASSUME NEW b \in Buffers, Sound(b), NEW P, NEW c \in CellsOf(b, P)
  PROVE  c \in Nat /\ InBuffer(b, c)
<1>1. PICK p : Visible(b, p[1], p[2]) /\ c = Cell(b, p[1], p[2])
  BY DEF CellsOf
<1> DEFINE x == p[1]
           y == p[2]
<1>2. x \in 0 .. b.width - 1 /\ y \in 0 .. b.height - 1
  BY <1>1 DEF Visible
<1>3. b.width \in Nat /\ b.height \in Nat /\ b.base \in Nat /\ b.pitch \in Nat
  BY DEF Buffers
<1> HIDE DEF x, y
<1>4. x \in Nat /\ y \in Nat
  BY <1>2, <1>3
<1>5. Visible(b, x, y) /\ c = Cell(b, x, y)
  BY <1>1 DEF x, y
<1>6. InBuffer(b, c)
  BY <1>4, <1>5, VisibleInBuffer
<1> QED BY <1>4, <1>5, <1>6, CellNat

\* Drawing on the screen fits it.
LEMMA ScreenFits ==
  ASSUME NEW b \in Buffers, Sound(b), b.base # BackBase, NEW s, Drawable(s)
  PROVE  Fits(Drawing(b, s), b)
<1>1. Cells(b, s) = CellsOf(b, Meant(b, s))
  BY DrawingExact
<1>2. \A c \in Cells(b, s) : InBuffer(b, c)
  BY <1>1, CellsInBuffer
<1> QED BY <1>1, <1>2 DEF Fits, Drawing

\* The back buffer, of any size that passes the check, lies in the array.
LEMMA BackBufferFits ==
  ASSUME NEW b \in Buffers, b.width <= BackWidth, b.height <= BackHeight,
         NEW back, back = [b EXCEPT !.base = BackBase, !.pitch = b.width * BytesPerPixel]
  PROVE  /\ back \in Buffers /\ Sound(back) /\ back.base = BackBase
         /\ back.width = b.width /\ back.height = b.height
         /\ \A c \in Nat : InBuffer(back, c) => InBackBuffer(c)
<1>1. /\ b.width \in Nat /\ b.height \in Nat
      /\ BackWidth \in Nat /\ BackHeight \in Nat /\ BackBase \in Nat
  BY DrawingAssumption DEF Buffers
<1> DEFINE pitch == b.width * BytesPerPixel
           full == BackWidth * BytesPerPixel
<1>2. pitch \in Nat /\ full \in Nat /\ pitch <= full
  BY <1>1 DEF BytesPerPixel
<1>3. full * BackHeight = BackWidth * BackHeight * BytesPerPixel
  BY <1>1 DEF BytesPerPixel
<1> HIDE DEF pitch, full
<1>4. back = [b EXCEPT !.base = BackBase, !.pitch = pitch]
  BY DEF pitch
<1>5. /\ back \in Buffers /\ back.base = BackBase /\ back.pitch = pitch
      /\ back.width = b.width /\ back.height = b.height
  BY <1>1, <1>2, <1>4 DEF Buffers
<1>6. Sound(back)
  BY <1>1, <1>5 DEF Sound, pitch, BytesPerPixel
<1>7. pitch * b.height <= full * BackHeight
  <2>1. pitch * b.height <= full * b.height
    BY <1>1, <1>2, TimesMonotone
  <2>2. b.height * full <= BackHeight * full
    BY <1>1, <1>2, TimesMonotone
  <2>3. b.height * full = full * b.height /\ BackHeight * full = full * BackHeight
    BY <1>1, <1>2
  <2>4. pitch * b.height \in Int /\ full * b.height \in Int /\ full * BackHeight \in Int
    BY <1>1, <1>2
  <2> QED BY <2>1, <2>2, <2>3, <2>4
<1>8. ASSUME NEW c \in Nat, InBuffer(back, c) PROVE InBackBuffer(c)
  <2> DEFINE size == pitch * b.height
             room == full * BackHeight
  <2>1. BackBase <= c /\ c + BytesPerPixel <= BackBase + size
    BY <1>5, <1>8 DEF InBuffer
  <2>2. size \in Nat /\ room \in Nat /\ size <= room
    BY <1>1, <1>2, <1>7
  <2> HIDE DEF size, room
  <2>3. c + BytesPerPixel <= BackBase + room
    BY <1>1, <2>1, <2>2 DEF BytesPerPixel
  <2> QED BY <1>3, <2>1, <2>3 DEF InBackBuffer, room
<1> QED BY <1>5, <1>6, <1>8

\* Rendering fits the back buffer.
LEMMA BackFits ==
  ASSUME NEW b \in Buffers, b.width <= BackWidth, b.height <= BackHeight,
         NEW back, back = [b EXCEPT !.base = BackBase, !.pitch = b.width * BytesPerPixel],
         NEW s, Drawable(s), NEW screen
  PROVE  Fits(Drawing(back, s), screen)
<1>1. back \in Buffers /\ Sound(back) /\ back.base = BackBase
  BY BackBufferFits
<1>2. Cells(back, s) = CellsOf(back, Meant(back, s))
  BY <1>1, DrawingExact
<1>3. ASSUME NEW c \in Cells(back, s) PROVE InBackBuffer(c)
  <2>1. c \in Nat /\ InBuffer(back, c)
    BY <1>1, <1>2, CellsInBuffer
  <2>2. \A n \in Nat : InBuffer(back, n) => InBackBuffer(n)
    BY BackBufferFits
  <2> QED BY <2>1, <2>2
<1> QED BY <1>1, <1>2, <1>3 DEF Fits, Drawing

\* Showing a frame writes every pixel of the screen, each from the array.
Shown(b, back) ==
  [on |-> b, cells |-> {w.to : w \in fb_blit(b, back)},
   due |-> {Cell(b, x, y) : x \in 0 .. b.width - 1, y \in 0 .. b.height - 1}]

LEMMA BlitFits ==
  ASSUME NEW b \in Buffers, Sound(b), b.base # 0, b.base # BackBase,
         b.width <= BackWidth, b.height <= BackHeight,
         NEW back, back = [b EXCEPT !.base = BackBase, !.pitch = b.width * BytesPerPixel]
  PROVE  /\ Fits(Shown(b, back), b)
         /\ \A w \in fb_blit(b, back) : InBackBuffer(w.from)
<1>1. /\ back \in Buffers /\ Sound(back) /\ back.base = BackBase /\ BackBase # 0
      /\ back.width = b.width /\ back.height = b.height
  BY BackBufferFits, DrawingAssumption
<1>2. /\ b.width \in Nat /\ b.height \in Nat
      /\ Least(b.width, back.width) = b.width /\ Least(b.height, back.height) = b.height
  BY <1>1 DEF Buffers, Least
<1> DEFINE X == 0 .. b.width - 1
           Y == 0 .. b.height - 1
<1>3. fb_blit(b, back)
        = {[to |-> Cell(b, x, y), from |-> Cell(back, x, y)] : x \in X, y \in Y}
  BY <1>1, <1>2 DEF fb_blit
<1>4. ASSUME NEW x \in X, NEW y \in Y
      PROVE  InBuffer(b, Cell(b, x, y)) /\ InBackBuffer(Cell(back, x, y))
  <2>1. x \in Nat /\ y \in Nat /\ Visible(b, x, y) /\ Visible(back, x, y)
    BY <1>1, <1>2 DEF Visible
  <2>2. InBuffer(b, Cell(b, x, y)) /\ InBuffer(back, Cell(back, x, y))
    BY <1>1, <2>1, VisibleInBuffer
  <2>3. Cell(back, x, y) \in Nat
    BY <1>1, <2>1, CellNat
  <2> QED BY <2>2, <2>3, BackBufferFits
<1> HIDE DEF X, Y
<1>5. {w.to : w \in fb_blit(b, back)} = {Cell(b, x, y) : x \in X, y \in Y}
  <2>1. ASSUME NEW w \in fb_blit(b, back)
        PROVE  w.to \in {Cell(b, x, y) : x \in X, y \in Y}
    BY <1>3
  <2>2. ASSUME NEW x \in X, NEW y \in Y
        PROVE  \E w \in fb_blit(b, back) : w.to = Cell(b, x, y)
    <3>1. [to |-> Cell(b, x, y), from |-> Cell(back, x, y)] \in fb_blit(b, back)
      BY <1>3
    <3> QED BY <3>1
  <2> QED BY <2>1, <2>2
<1>6. \A w \in fb_blit(b, back) : InBackBuffer(w.from)
  BY <1>3, <1>4
<1>7. \A c \in {Cell(b, x, y) : x \in X, y \in Y} : InBuffer(b, c)
  BY <1>4
<1>8. /\ Shown(b, back).cells = {Cell(b, x, y) : x \in X, y \in Y}
      /\ Shown(b, back).due = {Cell(b, x, y) : x \in X, y \in Y}
      /\ Shown(b, back).on = b
  BY <1>5 DEF Shown, X, Y
<1> DEFINE C == {Cell(b, x, y) : x \in X, y \in Y}
<1> HIDE DEF C
<1>9. /\ Shown(b, back).cells = C /\ Shown(b, back).due = C /\ Shown(b, back).on = b
      /\ \A c \in C : InBuffer(b, c)
  BY <1>7, <1>8 DEF C
<1>10. Fits(Shown(b, back), b)
  BY <1>9 DEF Fits
<1> QED BY <1>6, <1>10

\* The texts that name the steps, the banner and what is rendered can be drawn.
LEMMA Drawables ==
  /\ \A x, y \in Int, n \in Nat : Drawable(Text(x, y, n))
  /\ fb \in Buffers => Drawable(Banner)
  /\ \A s \in Shapes : Drawable(s)
<1>1. ASSUME NEW x \in Int, NEW y \in Int, NEW n \in Nat
      PROVE  Drawable(Text(x, y, n))
  BY DEF Drawable, Text, Kinds, Rects
<1>2. fb \in Buffers => Drawable(Banner)
  BY DEF Drawable, Banner, Kinds, Rects, Buffers
<1>3. \A s \in Shapes : Drawable(s)
  BY DrawingAssumption DEF Drawable, Kinds
<1> QED BY <1>1, <1>2, <1>3

\* From where the screen is known on, a step keeps it, and draws what fits.
LEMMA LitStep ==
  ASSUME DrawInv, pc \in Lit, pc' \in Lit \cup {"halted"}, UNCHANGED <<machine, fb>>,
         drawn' = drawn \/ Fits(drawn', fb),
         pc' \in Backed =>
           \/ pc \in Backed /\ UNCHANGED draw_fb
           \/ /\ fb.width <= BackWidth /\ fb.height <= BackHeight
              /\ draw_fb' = [fb EXCEPT !.base = BackBase, !.pitch = fb.width * BytesPerPixel]
  PROVE  DrawInv'
<1>1. machine' \in Machines /\ ScreenSought' /\ ScreenKnown' /\ BackSet'
  BY DEF DrawInv, ScreenSought, ScreenKnown, BackSet, Lit, Backed
<1>2. Fits(drawn, fb)
  BY DEF DrawInv, DrawnExactly, DrawnInside, Fits
<1>3. Fits(drawn', fb')
  BY <1>2
<1>4. pc' = "blit" => \A b \in fb_blit(fb', draw_fb') : InBackBuffer(b.from)
  <2> SUFFICES ASSUME pc' = "blit" PROVE \A b \in fb_blit(fb', draw_fb') : InBackBuffer(b.from)
    OBVIOUS
  <2>1. /\ fb' \in Buffers /\ Sound(fb') /\ fb'.base # 0 /\ fb'.base # BackBase
        /\ fb'.width <= BackWidth /\ fb'.height <= BackHeight
        /\ draw_fb' = [fb' EXCEPT !.base = BackBase, !.pitch = fb'.width * BytesPerPixel]
    BY <1>1 DEF ScreenKnown, BackSet, Lit, Backed, Sound
  <2> QED BY <2>1, BlitFits
<1>5. DrawnExactly' /\ DrawnInside'
  BY <1>3, <1>4 DEF DrawnExactly, DrawnInside, Fits
<1> QED BY <1>1, <1>5 DEF DrawInv

\* The boot stops, with a message or without.
LEMMA HaltStep ==
  ASSUME DrawInv, pc' = "halted", UNCHANGED machine, drawn'.cells = drawn'.due,
         \A c \in drawn'.cells :
           IF drawn'.on.base = BackBase THEN InBackBuffer(c) ELSE InBuffer(fb', c)
  PROVE  DrawInv'
BY DEF DrawInv, ScreenSought, ScreenKnown, BackSet, DrawnExactly, DrawnInside, Lit, Backed

\* What stands in a framebuffer tag makes a buffer.
LEMMA TagMakesBuffer ==
  ASSUME NEW tag, FramebufferTag(tag)
  PROVE  /\ FbOf(tag) \in Buffers /\ FbOf(tag).base # BackBase
         /\ FbOf(tag).bpp = 32 => Sound(FbOf(tag))
<1>1. tag.addr % Word \in Nat
  BY WordAssumption DEF FramebufferTag
<1>2. FbOf(tag) \in Buffers
  BY <1>1 DEF FramebufferTag, FbOf, Buffers
<1>3. FbOf(tag).base # BackBase
  BY DEF FramebufferTag, FbOf
<1>4. FbOf(tag).bpp = 32 => Sound(FbOf(tag))
  BY DEF FramebufferTag, FbOf, Sound
<1> QED BY <1>2, <1>3, <1>4

\* Until the framebuffer is found.
LEMMA SeekStep ==
  ASSUME DrawInv, MbInv, CheckMagic \/ FindFramebuffer
  PROVE  DrawInv'
<1>1. CASE CheckMagic
  <2>1. pc = "start" /\ ~panic_fb /\ drawn = Nothing /\ info = machine.info
    BY <1>1 DEF CheckMagic, DrawInv, ScreenSought
  <2>2. CASE ~machine.magic
    <3>1. pc' = "halted" /\ drawn' = Nothing /\ UNCHANGED machine
      BY <1>1, <2>1, <2>2 DEF CheckMagic, panic
    <3> QED BY <3>1, HaltStep DEF Nothing
  <2>3. CASE machine.magic
    <3>1. /\ pc' = "fb" /\ UNCHANGED <<machine, fb, draw_fb, panic_fb, drawn, info>>
          /\ walk'.wanted = Framebuffer /\ walk'.state \in {"missing", "walking"}
      BY <1>1, <2>3 DEF CheckMagic, Search
    <3> QED
      BY <2>1, <2>3, <3>1 DEF DrawInv, ScreenSought, ScreenKnown, BackSet, DrawnExactly,
                              DrawnInside, Lit, Backed, Nothing
  <2> QED BY <2>2, <2>3
<1>2. CASE FindFramebuffer
  <2>1. /\ pc = "fb" /\ ~panic_fb /\ drawn = Nothing /\ info = machine.info
        /\ machine \in Machines /\ walk.state \in {"found", "missing"}
    BY <1>2 DEF FindFramebuffer, Take, Finished, DrawInv, ScreenSought
  <2>2. CASE walk.state = "missing"
    <3>1. pc' = "halted" /\ drawn' = Nothing /\ UNCHANGED machine
      BY <1>2, <2>1, <2>2 DEF FindFramebuffer, panic
    <3> QED BY <3>1, HaltStep DEF Nothing
  <2>3. CASE walk.state = "found"
    <3>1. walk.ptr \in DOMAIN info.tags /\ Matches(Tag, Framebuffer)
      <4>1. WellFormed /\ walk.wanted = Framebuffer
        BY <2>1, MachinesAssumption DEF DrawInv, ScreenSought, WellFormed
      <4> QED BY <2>3, <4>1 DEF MbInv, FindsFirst, Tag
    <3>2. FramebufferTag(Tag)
      BY <2>1, <3>1, MachinesAssumption DEF Tag
    <3>3. fb' = FbOf(Tag) /\ UNCHANGED machine
      BY <1>2, <2>3 DEF FindFramebuffer
    <3>4. CASE fb'.base = 0 \/ fb'.bpp # 32
      <4>1. pc' = "halted" /\ drawn' = Nothing
        BY <1>2, <2>3, <3>4 DEF FindFramebuffer, text_fallback
      <4> QED BY <3>3, <4>1, HaltStep DEF Nothing
    <3>5. CASE ~(fb'.base = 0 \/ fb'.bpp # 32)
      <4>1. pc' = "memory" /\ drawn' = Drawing(fb', Text(8, 8, 10))
        BY <1>2, <2>3, <3>5 DEF FindFramebuffer
      <4>2. fb' \in Buffers /\ Sound(fb') /\ fb'.base # 0 /\ fb'.base # BackBase
        BY <3>2, <3>3, <3>5, TagMakesBuffer
      <4>3. Fits(drawn', fb')
        BY <4>1, <4>2, ScreenFits, Drawables
      <4>4. ScreenSought' /\ ScreenKnown' /\ BackSet'
        BY <4>1, <4>2 DEF ScreenSought, ScreenKnown, BackSet, Backed, Sound
      <4>5. DrawnExactly' /\ DrawnInside'
        BY <4>1, <4>3 DEF DrawnExactly, DrawnInside, Fits
      <4> QED BY <2>1, <3>3, <4>4, <4>5 DEF DrawInv
    <3> QED BY <3>4, <3>5
  <2> QED BY <2>1, <2>2, <2>3
<1> QED BY <1>1, <1>2

\* A step of the search, or of the mouse's controller, draws nothing.
LEMMA QuietStep ==
  ASSUME DrawInv, MbInv, UNCHANGED bootVars, Uncover \/ Step \/ UNCHANGED mbVars
  PROVE  DrawInv'
<1> USE DEF bootVars
<1>1. info' = info /\ walk'.wanted = walk.wanted
  BY DEF Uncover, Step, mbVars, MbInv, MbTypeOK
<1>2. /\ ScreenKnown' /\ BackSet' /\ DrawnExactly' /\ DrawnInside' /\ machine' \in Machines
  BY DEF DrawInv, ScreenKnown, BackSet, DrawnExactly, DrawnInside
<1>3. ScreenSought'
  BY <1>1 DEF DrawInv, ScreenSought
<1> QED BY <1>2, <1>3 DEF DrawInv

\* The names of the steps, on the screen that is known.
LEMMA AnnounceFits ==
  ASSUME DrawInv, pc \in Lit, NEW y \in Nat, Announce(y)
  PROVE  Fits(drawn', fb)
<1>1. fb \in Buffers /\ Sound(fb) /\ fb.base # BackBase
  BY DEF DrawInv, ScreenKnown
<1>2. Drawable(Text(8, y, 6))
  BY Drawables
<1> QED BY <1>1, <1>2, ScreenFits DEF Announce

LEMMA PanicFits ==
  ASSUME DrawInv, pc \in Lit, panic
  PROVE  Fits(drawn', fb)
<1>1. fb \in Buffers /\ Sound(fb) /\ fb.base # BackBase
  BY DEF DrawInv, ScreenKnown
<1>2. Drawable(Banner)
  BY <1>1, Drawables
<1> QED BY <1>1, <1>2, ScreenFits, NothingFits DEF panic

LEMMA DrawStep ==
  ASSUME DrawInv, MbInv, [BootNext]_vars
  PROVE  DrawInv'
<1>1. CASE CheckMagic \/ FindFramebuffer
  BY <1>1, SeekStep
<1>2. CASE FindMap \/ ListDisk \/ usb_init
  <2>1. pc \in Lit \ Backed /\ pc' \in Lit \ Backed /\ UNCHANGED <<machine, fb>>
    BY <1>2 DEF FindMap, ListDisk, usb_init, Lit, Backed
  <2>2. \E y \in Nat : Announce(y)
    BY <1>2 DEF FindMap, ListDisk, usb_init
  <2> QED BY <2>1, <2>2, AnnounceFits, LitStep
<1>3. CASE memory_init
  <2>1. pc \in Lit /\ pc' \in (Lit \ Backed) \cup {"halted"} /\ UNCHANGED <<machine, fb>>
    BY <1>3 DEF memory_init, panic, Lit, Backed
  <2>2. panic \/ Announce(40)
    BY <1>3 DEF memory_init
  <2>3. Fits(drawn', fb)
    BY <2>1, <2>2, AnnounceFits, PanicFits
  <2>4. pc' \notin Backed
    BY <2>1 DEF Backed
  <2> QED BY <2>1, <2>3, <2>4, LitStep
<1>4. CASE SetUpBackBuffer
  <2>1. pc \in Lit /\ pc' \in Lit \cup {"halted"} /\ UNCHANGED <<machine, fb>>
    BY <1>4 DEF SetUpBackBuffer, panic, Lit
  <2>2. CASE TooLarge
    <3>1. panic /\ pc' \notin Backed
      BY <1>4, <2>2 DEF SetUpBackBuffer, panic, Backed
    <3> QED BY <2>1, <3>1, PanicFits, LitStep
  <2>3. CASE ~TooLarge
    <3>1. /\ drawn' = drawn
          /\ draw_fb' = [fb EXCEPT !.base = BackBase, !.pitch = fb.width * BytesPerPixel]
      BY <1>4, <2>3 DEF SetUpBackBuffer
    <3>2. fb.width <= BackWidth /\ fb.height <= BackHeight
      <4>1. fb.width \in Nat /\ fb.height \in Nat
        BY <2>1 DEF DrawInv, ScreenKnown, Buffers
      <4> QED BY <2>3, <4>1, DrawingAssumption DEF TooLarge
    <3> QED BY <2>1, <3>1, <3>2, LitStep
  <2> QED BY <2>2, <2>3
<1>5. CASE FindMeminfo \/ SumMemory \/ usb_task
  <2>1. pc \in Backed /\ pc' \in Backed /\ UNCHANGED <<machine, fb, draw_fb, drawn>>
    BY <1>5 DEF FindMeminfo, SumMemory, usb_task, Unscheduled, Backed
  <2>2. pc \in Lit /\ pc' \in Lit \cup {"halted"}
    BY <2>1 DEF Lit, Backed
  <2> QED BY <2>1, <2>2, LitStep
<1>6. CASE StartScheduler
  <2>1. pc \in Lit /\ pc \in Backed /\ pc' \in Lit \cup {"halted"} /\ UNCHANGED <<machine, fb, draw_fb>>
    BY <1>6 DEF StartScheduler, Lit, Backed
  <2>2. Announce(120)
    BY <1>6 DEF StartScheduler
  <2> QED BY <2>1, <2>2, AnnounceFits, LitStep
<1>7. CASE ui_task
  <2>1. pc \in Lit /\ pc \in Backed /\ pc' \in Lit \cup {"halted"} /\ UNCHANGED <<machine, fb, draw_fb>>
    BY <1>7 DEF ui_task, Unscheduled, Lit, Backed
  <2>2. drawn' = drawn \/ \E s \in Shapes : drawn' = Drawing(draw_fb, s)
    BY <1>7 DEF ui_task
  <2>3. /\ fb \in Buffers /\ fb.width <= BackWidth /\ fb.height <= BackHeight
        /\ draw_fb = [fb EXCEPT !.base = BackBase, !.pitch = fb.width * BytesPerPixel]
    BY <2>1 DEF DrawInv, ScreenKnown, BackSet
  <2>4. drawn' = drawn \/ Fits(drawn', fb)
    BY <2>2, <2>3, BackFits, Drawables
  <2> QED BY <2>1, <2>4, LitStep
<1>8. CASE Blit
  <2>1. pc \in Lit /\ pc \in Backed /\ pc' \in Lit \cup {"halted"} /\ UNCHANGED <<machine, fb, draw_fb>>
    BY <1>8 DEF Blit, Unscheduled, Lit, Backed
  <2>2. drawn' = Shown(fb, draw_fb)
    BY <1>8 DEF Blit, Shown
  <2>3. /\ fb \in Buffers /\ Sound(fb) /\ fb.base # 0 /\ fb.base # BackBase
        /\ fb.width <= BackWidth /\ fb.height <= BackHeight
        /\ draw_fb = [fb EXCEPT !.base = BackBase, !.pitch = fb.width * BytesPerPixel]
    BY <2>1 DEF DrawInv, ScreenKnown, BackSet
  <2>4. Fits(drawn', fb)
    BY <2>2, <2>3, BlitFits
  <2> QED BY <2>1, <2>4, LitStep
<1>9. CASE InitMouse \/ Hardware \/ UNCHANGED vars
  BY <1>9, QuietStep DEF InitMouse, Hardware, vars
<1>10. CASE (Uncover \/ Step) /\ UNCHANGED <<psVars, bootVars>>
  <2>1. UNCHANGED bootVars
    BY <1>10 DEF psVars, bootVars
  <2> QED BY <1>10, <2>1, QuietStep
<1> QED
  BY <1>1, <1>2, <1>3, <1>4, <1>5, <1>6, <1>7, <1>8, <1>9, <1>10 DEF BootNext, KernelMain

LEMMA DrawInvHolds == BootSpec => []DrawInv
<1>1. BootInit => DrawInv
  BY DEF BootInit, DrawInv, ScreenSought, ScreenKnown, BackSet, DrawnExactly, DrawnInside,
         Lit, Backed, Nothing
<1>2. DrawInv /\ MbInv /\ [BootNext]_vars => DrawInv'
  BY DrawStep
<1>3. BootSpec => []MbInv
  BY BootRunsBoth, MbInvHolds, PTL
<1> QED BY <1>1, <1>2, <1>3, PTL DEF BootSpec

\* framebuffer.c and MagicUI.c: whatever kernel_main and ui_render draw, at
\* whatever place of a screen of whatever size, the words written are those of
\* the visible pixels that are meant.
THEOREM DrawingIsExact == BootSpec => []DrawnExactly
<1>1. DrawInv => DrawnExactly
  BY DEF DrawInv
<1> QED BY <1>1, DrawInvHolds, PTL

\* kernel_main: for every size of screen that passes its check, no word is
\* written or copied from outside the screen's memory or the static array.
THEOREM DrawingStaysInside == BootSpec => []DrawnInside
<1>1. DrawInv => DrawnInside
  BY DEF DrawInv
<1> QED BY <1>1, DrawInvHolds, PTL
=================================================================================
