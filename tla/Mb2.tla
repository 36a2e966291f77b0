---------------------------------- MODULE Mb2 ----------------------------------
(***************************************************************************)
(* mb2.c: the search for a tag of the Multiboot2 information.  The same    *)
(* loop is written three times, for the framebuffer, the memory sizes and  *)
(* the memory map.  The information lies in ordinary memory, which the     *)
(* kernel may have overwritten by the time of a later search.              *)
(***************************************************************************)
EXTENDS Integers

CONSTANTS
  Word,      \* 2^32
  Headers    \* two words, [type, size], that memory may hold where the boot
             \* loader's tags are not, or no more: any two words there are

ASSUME WordAssumption == Word \in Nat /\ Word > 8
ASSUME HeadersAssumption ==
  Headers # {} /\ Headers \subseteq [type : 0 .. Word - 1, size : 0 .. Word - 1]

\* Tag types, and the size of the struct each search reads.
End == 0
Framebuffer == 8
BasicMeminfo == 4
Mmap == 6
Types == {Framebuffer, BasicMeminfo, Mmap}
SizeOf(type) == IF type = Framebuffer THEN 32 ELSE 16
HeaderSize == 8            \* of the information, and of a tag

VARIABLES
  info,   \* [base, total, tags]: its address, total_size, and the tags by
          \* offset, each with its type, its size and what it says
  stray,  \* the headers that this search has read elsewhere, by offset
  walk    \* [state, wanted, ptr]: "idle", "walking", "found" or "missing", the
          \* type wanted, and the offset the search is at, in a word

mbVars == <<info, stray, walk>>

NoStrays == [o \in {} |-> 0]

-----------------------------------------------------------------------------
\* What is read at an offset, once it is known.
Seen(o) == o \in DOMAIN info.tags \/ o \in DOMAIN stray
TagAt(o) == IF o \in DOMAIN info.tags THEN info.tags[o] ELSE stray[o]

\* Mutant of Advance: the next tag follows without padding.
AdvanceUnpadded(tag) == tag.size

\* (size + 7) & ~7, in a word.
Advance(tag) == (((tag.size + 7) % Word) \div 8) * 8

Matches(tag, type) == tag.type = type /\ tag.size >= SizeOf(type)

\* The end of the header at ptr, and end, which is base + total_size: in words.
MoreAt(o) == (info.base + o + HeaderSize) % Word <= (info.base + info.total) % Word

Idle == [state |-> "idle", wanted |-> End, ptr |-> 0]

Search(type) ==
  /\ walk.state = "idle"
  /\ walk' = [state  |-> IF info.total < HeaderSize THEN "missing" ELSE "walking",
              wanted |-> type, ptr |-> HeaderSize]
  /\ UNCHANGED <<info, stray>>

\* Where no tag is, the search reads what memory holds there.
Uncover ==
  /\ walk.state = "walking" /\ MoreAt(walk.ptr) /\ ~Seen(walk.ptr)
  /\ \E h \in Headers :
       stray' = [o \in DOMAIN stray \cup {walk.ptr} |-> IF o = walk.ptr THEN h ELSE stray[o]]
  /\ UNCHANGED <<info, walk>>

\* Mutant of Stuck: a tag that does not advance is not noticed.
StuckUnnoticed(tag) == FALSE

Stuck(tag) == Advance(tag) = 0

Step ==
  /\ walk.state = "walking" /\ (MoreAt(walk.ptr) => Seen(walk.ptr))
  /\ LET tag == TagAt(walk.ptr)
         Ends(state) == walk' = [walk EXCEPT !.state = state]
     IN  IF ~MoreAt(walk.ptr) \/ tag.type = End THEN Ends("missing")
         ELSE IF Matches(tag, walk.wanted) THEN Ends("found")
         ELSE IF Stuck(tag) THEN Ends("missing")
         ELSE walk' = [walk EXCEPT !.ptr = (@ + Advance(tag)) % Word]
  /\ UNCHANGED <<info, stray>>

\* The caller has taken the result; memory may change before the next search.
Finished == walk.state \in {"found", "missing"}
Take == Finished /\ walk' = Idle /\ stray' = NoStrays

\* How much of a tag a search, and who takes its result, may read.
Extent(tag) ==
  IF tag.type \in Types /\ Matches(tag, tag.type) THEN SizeOf(tag.type) ELSE HeaderSize

\* Bytes [from, to) are written over, with any words: a tag that loses some of
\* its words is read as whatever is there.
Reaches(from, to, o, n) == from < info.base + o + n /\ info.base + o < to
Kept(from, to) == {o \in DOMAIN info.tags : ~Reaches(from, to, o, Extent(info.tags[o]))}

Overwrite(from, to) ==
  \E h \in Headers :
    info' = [base  |-> info.base,
             total |-> IF Reaches(from, to, 0, 4) THEN h.size ELSE info.total,
             tags  |-> [o \in Kept(from, to) |-> info.tags[o]]]

-----------------------------------------------------------------------------
\* Between two searches another part of the kernel may write over it.
Reused == \E from, to \in 0 .. Word - 1 : Overwrite(from, to)

MbNext ==
  \/ \E type \in Types : Search(type)
  \/ Uncover \/ Step
  \/ /\ Take \/ (walk.state = "idle" /\ UNCHANGED <<walk, stray>>)
     /\ UNCHANGED info \/ Reused

\* The information and the search, by type.
MbTypeOK ==
  /\ info.base \in Nat /\ info.total \in Nat
  /\ \A o \in DOMAIN info.tags : info.tags[o].type \in Nat /\ info.tags[o].size \in Nat
  /\ \A o \in DOMAIN stray : stray[o] \in Headers
  /\ walk \in [state : {"idle", "walking", "found", "missing"},
               wanted : Types \cup {End}, ptr : Nat]
  /\ walk.state # "idle" => walk.wanted \in Types

MbInit == MbTypeOK /\ walk = Idle /\ stray = NoStrays

MbSpec == MbInit /\ [][MbNext]_mbVars

-----------------------------------------------------------------------------
\* What a boot loader writes: tags at multiples of 8, each at the first one
\* behind the tag before it, a tag of type 0 behind all others, and all of it
\* within total_size.
FollowedBy(tags, o, p) ==
  LET last == o + tags[o].size
  IN  p % 8 = 0 /\ last <= p /\ p < last + 8

WrittenByLoader(i) ==
  /\ i.base + i.total < Word
  /\ i.total >= HeaderSize
  /\ HeaderSize \in DOMAIN i.tags
  /\ \A o \in DOMAIN i.tags :
       /\ o \in Nat /\ o % 8 = 0 /\ HeaderSize <= o /\ o + HeaderSize <= i.total
       /\ i.tags[o].type = End => \A p \in DOMAIN i.tags : p <= o
       /\ i.tags[o].type # End =>
            /\ i.tags[o].size >= HeaderSize
            /\ \E p \in DOMAIN i.tags :
                 /\ FollowedBy(i.tags, o, p)
                 /\ \A q \in DOMAIN i.tags : ~(o < q /\ q < p)

WellFormed == WrittenByLoader(info)

\* The tag found is the first that matches, and none matches when none is
\* found: no padding or size of another tag leads the search astray.
FindsFirst ==
  WellFormed =>
    /\ walk.state = "found" =>
         /\ walk.ptr \in DOMAIN info.tags
         /\ Matches(info.tags[walk.ptr], walk.wanted)
         /\ \A o \in DOMAIN info.tags :
              o < walk.ptr => ~Matches(info.tags[o], walk.wanted)
    /\ walk.state = "missing" =>
         \A o \in DOMAIN info.tags : ~Matches(info.tags[o], walk.wanted)
=============================================================================
