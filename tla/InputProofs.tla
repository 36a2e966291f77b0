------------------------------ MODULE InputProofs ------------------------------
(***************************************************************************)
(* Proofs about Input: how the two mice share the pointer, the two PS/2    *)
(* devices the port, and the USB keyboard's reports the key ring.          *)
(***************************************************************************)
EXTENDS Input, NumberLemmas, FiniteSetTheorems, TLAPS

RingFacts == INSTANCE KeyQueueProofs WITH KeyNone <- KEY_NONE

PortBytes == [aux : BOOLEAN, data : 0 .. 255, press : Actions \cup {KEY_NONE}]

\* The types of what the pointer depends on.
PointerTypes ==
  /\ machine \in Machines
  /\ pending \in [x : Int, y : Int, buttons : 0 .. 7, valid : BOOLEAN]
  /\ mouse \in [x : Int, y : Int, buttons : 0 .. 7]
  /\ packet \in Seq(0 .. 255) /\ Len(packet) <= 2
  /\ port \in Seq(PortBytes) /\ Len(port) <= 1
  /\ kbd_out \in Seq(KeyBytes)
  /\ mouse_out \in Seq(0 .. 255)

\* Only a USB mouse leaves motion behind.
MotionFromMouse == machine.hid # "mouse" => ~pending.valid

IInv ==
  /\ PointerTypes /\ MotionFromMouse
  /\ NoStaleMotion /\ PacketsAligned /\ OffScreenOnlyMidPacket

\* What the invariant speaks of.
pointerVars == <<machine, pending, mouse, packet, port, kbd_out, mouse_out>>

LEMMA Unchanged ==
  ASSUME IInv, UNCHANGED pointerVars
  PROVE  IInv'
BY DEF IInv, pointerVars, PointerTypes, MotionFromMouse, NoStaleMotion, PacketsAligned,
       OffScreenOnlyMidPacket, AuxByte

\* An element of a sequence over S is in S.
LEMMA ElementOf ==
  ASSUME NEW S, NEW s \in Seq(S), NEW i \in 1 .. Len(s)
  PROVE  s[i] \in S
  OBVIOUS

LEMMA LengthOf ==
  ASSUME NEW S, NEW s \in Seq(S)
  PROVE  Len(s) \in Nat
  OBVIOUS

\* The head and the tail of a sequence that is not empty.
LEMMA HeadAndTail ==
  ASSUME NEW S, NEW s \in Seq(S), s # << >>
  PROVE  /\ s[1] \in S /\ Tail(s) \in Seq(S)
         /\ Len(s) \in Nat \ {0} /\ Len(Tail(s)) = Len(s) - 1
  OBVIOUS

\* Motion that was applied is spent.
LEMMA AppliedSpent ==
  ASSUME NEW p \in [x : Int, y : Int, buttons : 0 .. 7, valid : BOOLEAN]
  PROVE  /\ Applied(p) \in [x : Int, y : Int, buttons : 0 .. 7, valid : BOOLEAN]
         /\ ~Applied(p).valid /\ Applied(p).x = 0 /\ Applied(p).y = 0
BY DEF Applied

\* A byte read as a signed one.
LEMMA SignedByte ==
  ASSUME NEW b \in 0 .. 255
  PROVE  Int8(b) \in Int
BY DEF Int8

\* Clamping brings any position to the screen.
LEMMA ClampedOnScreen ==
  ASSUME NEW m \in [x : Int, y : Int, buttons : 0 .. 7]
  PROVE  /\ Clamped(m) \in [x : Int, y : Int, buttons : 0 .. 7]
         /\ Clamped(m).x \in 0 .. Width - 1 /\ Clamped(m).y \in 0 .. Height - 1
<1>1. /\ m.x \in Int /\ m.y \in Int /\ Width \in Nat \ {0} /\ Height \in Nat \ {0}
  BY DeviceAssumption
<1>2. Within(m.x, Width) \in 0 .. Width - 1 /\ Within(m.y, Height) \in 0 .. Height - 1
  BY <1>1 DEF Within
<1>3. Within(m.x, Width) \in Int /\ Within(m.y, Height) \in Int
  BY <1>1, <1>2
<1> QED BY <1>2, <1>3 DEF Clamped

\* Motion moves a pointer to a pointer.
LEMMA MovedTyped ==
  ASSUME NEW m \in [x : Int, y : Int, buttons : 0 .. 7],
         NEW dx \in Int, NEW dy \in Int, NEW b \in 0 .. 7
  PROVE  Moved(m, dx, dy, b) \in [x : Int, y : Int, buttons : 0 .. 7]
BY DEF Moved

\* A report of the USB mouse adds motion; nothing else of usb_task touches it.
LEMMA UsbTaskKeeps ==
  ASSUME IInv, usb_task
  PROVE  IInv'
<1>1. /\ UNCHANGED <<machine, packet, mouse, port, kbd_out, mouse_out>>
  BY DEF usb_task, ps2Vars
<1>2. CASE pending' = pending
  BY <1>1, <1>2, Unchanged DEF pointerVars
<1>3. CASE machine.hid = "mouse" /\ \E m \in Motions : usb_hid_on_mouse_report(m)
  <2>1. PICK m \in Motions : usb_hid_on_mouse_report(m)
    BY <1>3
  <2>2. m \in [dx : Int, dy : Int, buttons : 0 .. 7]
    BY DeviceAssumption
  <2>3. /\ pending' \in [x : Int, y : Int, buttons : 0 .. 7, valid : BOOLEAN]
        /\ pending'.valid
    BY <2>1, <2>2 DEF usb_hid_on_mouse_report, IInv, PointerTypes
  <2> QED
    BY <1>1, <1>3, <2>3
    DEF IInv, PointerTypes, MotionFromMouse, NoStaleMotion, PacketsAligned,
        OffScreenOnlyMidPacket, AuxByte
<1> QED
  BY <1>2, <1>3 DEF usb_task, usb_hid_on_keyboard_report

\* poll_keyboard takes a byte of the keyboard, which no packet misses.
LEMMA PollKeyboardKeeps ==
  ASSUME IInv, poll_keyboard
  PROVE  IInv'
<1>1. UNCHANGED <<machine, pending, packet, mouse, kbd_out, mouse_out>>
  BY DEF poll_keyboard
<1>2. CASE port' = port
  BY <1>1, <1>2, Unchanged DEF pointerVars
<1>3. CASE KeyByte /\ port' = << >>
  BY <1>1, <1>3
  DEF IInv, PointerTypes, MotionFromMouse, NoStaleMotion, PacketsAligned,
      OffScreenOnlyMidPacket, AuxByte, KeyByte
<1> QED
  BY <1>2, <1>3 DEF poll_keyboard, PollQueue, PollNothing, PollScanCode

\* A byte that does not complete a packet moves the pointer only by the motion
\* of a USB mouse; one that does leaves it on the screen.
LEMMA PollMouseKeeps ==
  ASSUME IInv, poll_mouse
  PROVE  IInv'
<1>1. UNCHANGED <<machine, kbd_out, mouse_out>>
  BY DEF poll_mouse
<1>2. CASE PollMouseNothing
  BY <1>1, <1>2, Unchanged DEF PollMouseNothing, pointerVars
<1>3. CASE PollMouseByte
  <2> DEFINE early == KeyByte
             m1    == IF early THEN WithPending(mouse, pending) ELSE mouse
             p1    == IF early THEN Applied(pending) ELSE pending
             bytes == Append(packet, port[1].data)
             m2    == Clamped(Moved(m1, Int8(bytes[2]), Int8(bytes[3]), bytes[1] % 8))
             Pointers == [x : Int, y : Int, buttons : 0 .. 7]
             Motion == [x : Int, y : Int, buttons : 0 .. 7, valid : BOOLEAN]
  <2>1. /\ mouse \in Pointers /\ pending \in Motion
        /\ port # << >> /\ port[1].data \in 0 .. 255
        /\ packet \in Seq(0 .. 255) /\ Len(packet) <= 2 /\ machine \in Machines
    <3>1. port # << >> /\ port \in Seq(PortBytes)
      BY <1>3 DEF IInv, PointerTypes, PollMouseByte, AuxByte, KeyByte
    <3>2. port[1] \in PortBytes
      BY <3>1, HeadAndTail
    <3> QED BY <3>1, <3>2 DEF IInv, PointerTypes, PortBytes
  <2>2. bytes \in Seq(0 .. 255) /\ Len(bytes) = Len(packet) + 1 /\ bytes # << >>
    BY <2>1
  <2>3. m1 \in Pointers
    BY <2>1, MovedTyped DEF WithPending
  <2>4. p1 \in Motion /\ (~p1.valid => p1.x = 0 /\ p1.y = 0)
    BY <2>1, AppliedSpent DEF IInv, NoStaleMotion
  <2>5. port' = << >>
    BY <1>3 DEF PollMouseByte
  <2>6. early => machine.hid = "mouse"
    BY <1>3 DEF PollMouseByte, AuxByte, KeyByte, IInv, MotionFromMouse
  <2>7. p1.valid => pending.valid
    BY <2>1, AppliedSpent
  <2>8. Applied(p1) \in Motion /\ ~Applied(p1).valid /\ Applied(p1).x = 0 /\ Applied(p1).y = 0
    BY <2>4, AppliedSpent
  <2>9. machine.hid # "mouse" => Len(packet) + 1 + Len(mouse_out) = 3
    BY <1>3, <2>1, <2>6 DEF IInv, PacketsAligned, PollMouseByte, AuxByte, KeyByte, PointerTypes
  <2>10. CASE Len(bytes) < 3
    <3>1. packet' = bytes /\ mouse' = m1 /\ pending' = p1
      BY <1>3, <2>10 DEF PollMouseByte
    <3>2. ~early => m1 = mouse
      OBVIOUS
    <3> HIDE DEF early, m1, p1, bytes
    <3>3. PointerTypes'
      BY <1>1, <2>2, <2>3, <2>4, <2>5, <2>10, <3>1 DEF IInv, PointerTypes
    <3>4. MotionFromMouse' /\ NoStaleMotion'
      BY <1>1, <2>4, <2>7, <3>1 DEF IInv, MotionFromMouse, NoStaleMotion
    <3>5. PacketsAligned'
      BY <1>1, <2>2, <2>5, <2>9, <3>1 DEF PacketsAligned, AuxByte
    <3>6. OffScreenOnlyMidPacket'
      BY <1>1, <2>2, <2>6, <3>1, <3>2 DEF IInv, OffScreenOnlyMidPacket
    <3> QED BY <3>3, <3>4, <3>5, <3>6 DEF IInv
  <2>11. CASE Len(bytes) = 3
    <3>1. /\ packet' = << >>
          /\ mouse' = IF p1.valid THEN Clamped(WithPending(m2, p1)) ELSE m2
          /\ pending' = IF p1.valid THEN Applied(p1) ELSE p1
      BY <1>3, <2>11 DEF PollMouseByte
    <3>2. Int8(bytes[2]) \in Int /\ Int8(bytes[3]) \in Int /\ bytes[1] % 8 \in 0 .. 7
      <4>1. bytes[1] \in 0 .. 255 /\ bytes[2] \in 0 .. 255 /\ bytes[3] \in 0 .. 255
        <5> HIDE DEF bytes
        <5>1. 1 \in 1 .. Len(bytes) /\ 2 \in 1 .. Len(bytes) /\ 3 \in 1 .. Len(bytes)
          BY <2>11
        <5> QED BY <2>2, <5>1, ElementOf
      <4> HIDE DEF bytes
      <4>2. bytes[1] % 8 \in 0 .. 7
        BY <4>1
      <4> QED BY <4>1, <4>2, SignedByte
    <3> HIDE DEF early, m1, p1, bytes
    <3>3. /\ m2 \in Pointers
          /\ m2.x \in 0 .. Width - 1 /\ m2.y \in 0 .. Height - 1
      BY <2>3, <3>2, MovedTyped, ClampedOnScreen
    <3> HIDE DEF m2
    <3>4. WithPending(m2, p1) \in Pointers
      BY <2>4, <3>3, MovedTyped DEF WithPending
    <3>5. /\ mouse' \in Pointers
          /\ mouse'.x \in 0 .. Width - 1 /\ mouse'.y \in 0 .. Height - 1
      BY <3>1, <3>3, <3>4, ClampedOnScreen
    <3>6. /\ pending' \in Motion /\ (pending'.valid => pending.valid)
          /\ (~pending'.valid => pending'.x = 0 /\ pending'.y = 0)
      BY <2>4, <2>7, <2>8, <3>1
    <3>7. PointerTypes'
      BY <1>1, <2>5, <3>1, <3>5, <3>6 DEF IInv, PointerTypes
    <3>8. MotionFromMouse' /\ NoStaleMotion' /\ OffScreenOnlyMidPacket'
      BY <1>1, <3>5, <3>6 DEF IInv, MotionFromMouse, NoStaleMotion, OffScreenOnlyMidPacket
    <3>9. PacketsAligned'
      <4> SUFFICES ASSUME machine.hid # "mouse"
                   PROVE  Len(mouse_out) = 0
        <5>1. Len(packet') = 0 /\ port' = << >> /\ mouse_out' = mouse_out /\ machine' = machine
          BY <1>1, <2>5, <3>1
        <5> QED BY <5>1 DEF PacketsAligned, AuxByte
      <4>1. Len(packet) \in Nat /\ Len(packet) + 1 = 3
        <5>1. packet \in Seq(0 .. 255)
          BY <2>1
        <5>2. Len(packet) \in Nat
          BY <5>1, LengthOf
        <5> QED BY <2>2, <2>11, <5>2
      <4>2. Len(mouse_out) \in Nat
        BY LengthOf DEF IInv, PointerTypes
      <4> DEFINE n == Len(packet)
                 k == Len(mouse_out)
      <4>3. n \in Nat /\ n + 1 = 3 /\ k \in Nat /\ n + 1 + k = 3
        BY <2>9, <4>1, <4>2
      <4> HIDE DEF n, k
      <4>4. k = 0
        BY <4>3
      <4> QED BY <4>4 DEF k
    <3> QED BY <3>7, <3>8, <3>9 DEF IInv
  <2> QED BY <2>1, <2>2, <2>10, <2>11
<1> QED BY <1>2, <1>3 DEF poll_mouse

\* A byte of the keyboard belongs to no packet.
LEMMA KeyboardByteKeeps ==
  ASSUME IInv, KeyboardByte
  PROVE  IInv'
<1>1. /\ port = << >>
      /\ UNCHANGED <<machine, pending, packet, mouse, mouse_out>>
  BY DEF KeyboardByte, kernelVars
<1>2. PICK e \in Seq(KeyBytes) :
        /\ e # << >>
        /\ port' = <<[aux |-> FALSE, data |-> e[1].data, press |-> e[1].press]>>
        /\ kbd_out' = Tail(e)
  BY DeviceAssumption DEF KeyboardByte, IInv, PointerTypes
<1>3. e[1] \in KeyBytes
  BY <1>2
<1>4. /\ port' \in Seq(PortBytes) /\ Len(port') = 1 /\ ~port'[1].aux
      /\ kbd_out' \in Seq(KeyBytes)
  BY <1>2, <1>3 DEF PortBytes, KeyBytes
<1> QED
  BY <1>1, <1>4
  DEF IInv, PointerTypes, MotionFromMouse, NoStaleMotion, PacketsAligned,
      OffScreenOnlyMidPacket, AuxByte

\* A packet starts when the one before it has been read to its end.
LEMMA MouseByteKeeps ==
  ASSUME IInv, MouseByte
  PROVE  IInv'
<1>1. /\ port = << >>
      /\ UNCHANGED <<machine, pending, packet, mouse, kbd_out>>
  BY DEF MouseByte, kernelVars
<1>2. PICK p \in Seq(0 .. 255) :
        /\ IF mouse_out = << >> THEN Len(p) = 3 ELSE p = mouse_out
        /\ port' = <<[aux |-> TRUE, data |-> p[1], press |-> KEY_NONE]>>
        /\ mouse_out' = Tail(p)
  BY DeviceAssumption DEF MouseByte, IInv, PointerTypes
<1>3. /\ p # << >> /\ p[1] \in 0 .. 255
      /\ Tail(p) \in Seq(0 .. 255) /\ Len(Tail(p)) = Len(p) - 1
  <2>1. p # << >>
    BY <1>2
  <2> QED BY <2>1, HeadAndTail
<1>4. /\ port' \in Seq(PortBytes) /\ Len(port') = 1 /\ port' # << >> /\ port'[1].aux
      /\ mouse_out' \in Seq(0 .. 255) /\ Len(mouse_out') = Len(p) - 1
  BY <1>2, <1>3 DEF PortBytes
<1>5. PacketsAligned'
  <2> SUFFICES ASSUME machine.hid # "mouse"
               PROVE  Len(packet) + 1 + Len(mouse_out') \in {0, 3}
    BY <1>1, <1>4 DEF PacketsAligned, AuxByte
  <2>1. Len(packet) + Len(mouse_out) \in {0, 3} /\ Len(packet) \in 0 .. 2
    <3>1. ~AuxByte
      BY <1>1 DEF AuxByte
    <3>2. Len(packet) \in 0 .. 2 /\ Len(mouse_out) \in Nat
      <4>1. packet \in Seq(0 .. 255) /\ Len(packet) <= 2 /\ mouse_out \in Seq(0 .. 255)
        BY DEF IInv, PointerTypes
      <4>2. Len(packet) \in Nat /\ Len(mouse_out) \in Nat
        BY <4>1, LengthOf
      <4>3. Len(packet) <= 2
        BY <4>1
      <4> DEFINE n == Len(packet)
      <4>4. n \in Nat /\ n <= 2
        BY <4>2, <4>3
      <4> HIDE DEF n
      <4>5. n \in 0 .. 2
        BY <4>4
      <4> QED BY <4>2, <4>5 DEF n
    <3> QED BY <3>1, <3>2 DEF IInv, PacketsAligned
  <2>2. CASE mouse_out = << >>
    <3>1. Len(p) = 3
      BY <1>2, <2>2
    <3>2. Len(mouse_out) = 0 /\ Len(mouse_out') = 2
      BY <1>4, <2>2, <3>1
    <3> DEFINE n == Len(packet)
    <3>3. n + 0 \in {0, 3} /\ n \in 0 .. 2
      BY <2>1, <3>2
    <3> HIDE DEF n
    <3>4. n + 1 + 2 \in {0, 3}
      BY <3>3
    <3> QED BY <3>2, <3>4 DEF n
  <2>3. CASE mouse_out # << >>
    <3>1. Len(mouse_out') = Len(mouse_out) - 1 /\ Len(mouse_out) \in Nat \ {0}
      BY <1>2, <1>3, <1>4, <2>3
    <3> QED BY <2>1, <3>1
  <2> QED BY <2>2, <2>3
<1> QED
  BY <1>1, <1>4, <1>5
  DEF IInv, PointerTypes, MotionFromMouse, NoStaleMotion, OffScreenOnlyMidPacket

LEMMA IInvHolds == Spec => []IInv
<1>1. Init => IInv
  <2> SUFFICES ASSUME Init PROVE IInv
    OBVIOUS
  <2>1. /\ mouse \in [x : Int, y : Int, buttons : 0 .. 7]
        /\ mouse.x \in 0 .. Width - 1 /\ mouse.y \in 0 .. Height - 1
    <3>1. Width \div 2 \in 0 .. Width - 1 /\ Height \div 2 \in 0 .. Height - 1
      BY DeviceAssumption
    <3> QED BY <3>1 DEF Init
  <2> QED
    BY <2>1
    DEF Init, NoPending, IInv, PointerTypes, MotionFromMouse, NoStaleMotion, PacketsAligned,
        OffScreenOnlyMidPacket, AuxByte
<1>2. IInv /\ [Next]_vars => IInv'
  <2> SUFFICES ASSUME IInv, [Next]_vars PROVE IInv'
    OBVIOUS
  <2>1. ASSUME NEW c \in machine.codes, UsbPress(c) \/ UsbRelease(c) PROVE IInv'
    BY <2>1, Unchanged DEF UsbPress, UsbRelease, pointerVars, kernelVars, ps2Vars
  <2>2. CASE UNCHANGED vars
    BY <2>2, Unchanged DEF vars, pointerVars, kernelVars, ps2Vars
  <2> QED
    BY <2>1, <2>2, UsbTaskKeeps, PollKeyboardKeeps, PollMouseKeeps, KeyboardByteKeeps,
       MouseByteKeeps
    DEF Next, Kernel
<1> QED BY <1>1, <1>2, PTL DEF Spec

\* poll_mouse: motion that was applied is gone, on either of its two paths.
THEOREM MotionIsUsedOnce == Spec => []NoStaleMotion
<1>1. IInv => NoStaleMotion
  BY DEF IInv
<1> QED BY <1>1, IInvHolds, PTL

\* poll_keyboard and poll_mouse: without a USB mouse no keyboard byte enters a
\* packet and no packet byte is lost to the keyboard.
THEOREM PacketsStayAligned == Spec => []PacketsAligned
<1>1. IInv => PacketsAligned
  BY DEF IInv
<1> QED BY <1>1, IInvHolds, PTL

\* poll_mouse: the pointer is off the screen at most until the packet is
\* complete, for a screen of any size.
THEOREM PointerComesBack == Spec => []OffScreenOnlyMidPacket
<1>1. IInv => OffScreenOnlyMidPacket
  BY DEF IInv
<1> QED BY <1>1, IInvHolds, PTL
-----------------------------------------------------------------------------
(* The keys of the USB keyboard. *)

KeyTypes ==
  /\ keys \in Ring!Rings
  /\ last_keys \in [1 .. ReportKeys -> machine.codes \cup {0, RollOver}]
  /\ extended \in BOOLEAN
  /\ key \in Actions \cup {KEY_NONE}
  /\ pc \in {"keyboard", "mouse", "usb"}
  /\ div \in 0 .. UsbPeriod - 1
  /\ down \subseteq machine.codes /\ fresh \subseteq machine.codes

\* How many keys the runs since the latest report can have left in the ring:
\* each run takes one of them.
KeysLeft == ReportKeys - div - (IF pc = "keyboard" THEN 0 ELSE 1)

RingPaced == Ring!Count(keys) = 0 \/ Ring!Count(keys) <= KeysLeft

\* A key that is held is in the latest report, unless it went down after it or
\* did not fit.
HeldKeysKnown ==
  \A c \in down : c \in fresh \cup Range(last_keys) \/ RollOver \in Range(last_keys)

KeyInv == KeyTypes /\ RingPaced /\ HeldKeysKnown

\* The facts about the ring of KeyQueue, for the ring of this module.
LEMMA RingOperations ==
  ASSUME NEW q \in Ring!Rings
  PROVE  /\ Ring!Count(q) \in Nat
         /\ Ring!Count(q) = 0 <=> ~Ring!Waiting(q)
         /\ Ring!WithoutOldest(q) \in Ring!Rings
         /\ Ring!Oldest(q) \in Actions \cup {KEY_NONE}
         /\ Ring!Waiting(q) => Ring!Count(Ring!WithoutOldest(q)) = Ring!Count(q) - 1
         /\ Ring!Contents(q) \in Seq(Actions \cup {KEY_NONE})
         /\ Len(Ring!Contents(q)) = Ring!Count(q)
<1> USE LoopAssumption DEF RingFacts!QueueAssumption
<1>1. /\ q \in RingFacts!Rings
      /\ q.head \in RingFacts!Slots /\ q.tail \in RingFacts!Slots
  BY DEF Ring!Rings, RingFacts!Rings, Ring!Slots, RingFacts!Slots
<1>2. /\ RingFacts!Count(q) \in 0 .. QueueSize - 1
      /\ RingFacts!Count(q) = 0 <=> ~RingFacts!Waiting(q)
  BY <1>1, RingFacts!CountBounds
<1>3. /\ RingFacts!WithoutOldest(q) \in RingFacts!Rings
      /\ RingFacts!Oldest(q) \in Actions \cup {KEY_NONE}
  BY <1>1, RingFacts!TakeTyped
<1>4. RingFacts!Waiting(q) => RingFacts!Count(RingFacts!WithoutOldest(q)) = RingFacts!Count(q) - 1
  <2>1. "KEY_UP" \in Actions
    BY DEF Actions
  <2> QED BY <1>1, <2>1, RingFacts!CountSteps
<1>5. /\ RingFacts!Contents(q) \in Seq(Actions \cup {KEY_NONE})
      /\ Len(RingFacts!Contents(q)) = RingFacts!Count(q)
  BY <1>1, RingFacts!ContentsTyped
<1>6. /\ RingFacts!Count(q) = Ring!Count(q)
      /\ RingFacts!Count(RingFacts!WithoutOldest(q)) = Ring!Count(Ring!WithoutOldest(q))
  BY DEF Ring!Count, RingFacts!Count, Ring!WithoutOldest, RingFacts!WithoutOldest,
         Ring!NextSlot, RingFacts!NextSlot
<1>7. RingFacts!Contents(q) = Ring!Contents(q)
  BY <1>6 DEF Ring!Contents, RingFacts!Contents, Ring!SlotOf, RingFacts!SlotOf
<1>8. RingFacts!Waiting(q) <=> Ring!Waiting(q)
  BY DEF Ring!Waiting, RingFacts!Waiting
<1>9. /\ Ring!WithoutOldest(q) \in Ring!Rings
      /\ Ring!Oldest(q) \in Actions \cup {KEY_NONE}
  BY <1>3 DEF Ring!WithoutOldest, RingFacts!WithoutOldest, Ring!Oldest, RingFacts!Oldest,
     Ring!NextSlot, RingFacts!NextSlot, Ring!Rings, RingFacts!Rings, Ring!Slots, RingFacts!Slots
<1>10. Ring!Count(q) \in Nat
  BY <1>2, <1>6
<1>11. Ring!Count(q) = 0 <=> ~Ring!Waiting(q)
  BY <1>2, <1>6, <1>8
<1>12. Ring!Waiting(q) => Ring!Count(Ring!WithoutOldest(q)) = Ring!Count(q) - 1
  BY <1>4, <1>6, <1>8
<1>13. /\ Ring!Contents(q) \in Seq(Actions \cup {KEY_NONE})
       /\ Len(Ring!Contents(q)) = Ring!Count(q)
  BY <1>5, <1>6, <1>7
<1> QED BY <1>9, <1>10, <1>11, <1>12, <1>13

\* A key that is injected is the newest, or the ring was full and stays.
LEMMA RingInject ==
  ASSUME NEW q \in Ring!Rings, NEW a \in Actions
  PROVE  /\ Ring!Inject(q, a) \in Ring!Rings
         /\ Ring!Count(Ring!Inject(q, a)) <= Ring!Count(q) + 1
         /\ \/ Ring!Inject(q, a) = q
            \/ Ring!Contents(Ring!Inject(q, a)) = Append(Ring!Contents(q), a)
<1> USE LoopAssumption DEF RingFacts!QueueAssumption
<1>1. q \in RingFacts!Rings
  BY DEF Ring!Rings, RingFacts!Rings, Ring!Slots, RingFacts!Slots
<1>2. RingFacts!Inject(q, a) \in RingFacts!Rings
  BY <1>1, RingFacts!InjectTyped
<1>3. RingFacts!Count(RingFacts!Inject(q, a)) <= RingFacts!Count(q) + 1
  BY <1>1, RingFacts!CountSteps
<1>4. \/ RingFacts!Inject(q, a) = q
      \/ RingFacts!Contents(RingFacts!Inject(q, a)) = Append(RingFacts!Contents(q), a)
  <2>1. CASE RingFacts!NextSlot(q.tail) = q.head
    BY <2>1 DEF RingFacts!Inject
  <2>2. CASE RingFacts!NextSlot(q.tail) # q.head
    BY <1>1, <2>2, RingFacts!InjectAppends
  <2> QED BY <2>1, <2>2
<1>5. Ring!Inject(q, a) = RingFacts!Inject(q, a)
  BY DEF Ring!Inject, RingFacts!Inject, Ring!NextSlot, RingFacts!NextSlot
<1>6. \A r : Ring!Count(r) = RingFacts!Count(r)
  BY DEF Ring!Count, RingFacts!Count
<1>7. \A r : Ring!Contents(r) = RingFacts!Contents(r)
  BY <1>6 DEF Ring!Contents, RingFacts!Contents, Ring!SlotOf, RingFacts!SlotOf
<1>8. Ring!Inject(q, a) \in Ring!Rings
  BY <1>2, <1>5 DEF Ring!Rings, RingFacts!Rings, Ring!Slots, RingFacts!Slots
<1> QED BY <1>3, <1>4, <1>5, <1>6, <1>7, <1>8

\* A table gives an action of the UI or none.
LEMMA LookupTyped ==
  ASSUME NEW table, NEW code
  PROVE  Lookup(table, code) \in Actions \cup {KEY_NONE}
BY DEF Lookup

\* ErrorRollOver is no key.
LEMMA RollOverMeansNothing == hid_key_to_action(RollOver) = KEY_NONE
BY DEF hid_key_to_action, Lookup, HidActions, RollOver

\* One turn of the loop over a report's slots, as an equation for the rings
\* after each of them.
Turns(report, f) ==
  [i \in 0 .. ReportKeys |->
     IF i = 0
       THEN keys
       ELSE IF Presses(report[i])
         THEN Ring!Inject(f[i - 1], hid_key_to_action(report[i]))
         ELSE f[i - 1]]

\* The loop has an outcome, and it is what WithReport names.
LEMMA ReportLoop ==
  ASSUME KeyTypes, NEW report
  PROVE  \E f :
           /\ f[0] = keys
           /\ \A i \in 1 .. ReportKeys :
                f[i] = IF Presses(report[i])
                         THEN Ring!Inject(f[i - 1], hid_key_to_action(report[i]))
                         ELSE f[i - 1]
           /\ WithReport(report) = f[ReportKeys]
<1> DEFINE Slot == (1 .. ReportKeys) \X Ring!Rings
           step == [p \in Slot |->
                      IF Presses(report[p[1]])
                        THEN Ring!Inject(p[2], hid_key_to_action(report[p[1]]))
                        ELSE p[2]]
<1>1. step \in [Slot -> Ring!Rings]
  <2> SUFFICES ASSUME NEW p \in Slot, Presses(report[p[1]])
               PROVE  Ring!Inject(p[2], hid_key_to_action(report[p[1]])) \in Ring!Rings
    OBVIOUS
  <2>1. hid_key_to_action(report[p[1]]) \in Actions
    BY LookupTyped DEF hid_key_to_action, Presses
  <2> QED BY <2>1, RingInject
<1>2. keys \in Ring!Rings /\ ReportKeys \in Nat
  BY LoopAssumption DEF KeyTypes
<1>3. PICK f : LoopStates(f, ReportKeys, Ring!Rings, keys, step)
  <2>1. LoopBody(step, ReportKeys, Ring!Rings)
    BY <1>1 DEF LoopBody
  <2> HIDE DEF step
  <2> QED BY <1>2, <2>1, Recursion
<1>4. f = Turns(report, f)
  <2>1. ASSUME NEW i \in 1 .. ReportKeys
        PROVE  f[i] = IF Presses(report[i])
                        THEN Ring!Inject(f[i - 1], hid_key_to_action(report[i]))
                        ELSE f[i - 1]
    <3>1. i - 1 \in 0 .. ReportKeys
      BY <1>2
    <3>2. <<i, f[i - 1]>> \in Slot
      BY <1>3, <3>1 DEF LoopStates
    <3> QED BY <1>3, <3>2 DEF LoopStates
  <2>2. \A i \in 0 .. ReportKeys : i # 0 => i \in 1 .. ReportKeys
    BY <1>2
  <2> QED BY <1>3, <2>1, <2>2 DEF Turns, LoopStates
<1> DEFINE after == CHOOSE g : g = Turns(report, g)
<1>5. WithReport(report) = after[ReportKeys]
  BY DEF WithReport, Turns
<1>6. after = Turns(report, after)
  BY <1>4
<1> HIDE DEF after
<1>7. after[0] = keys
  BY <1>2, <1>6 DEF Turns
<1>8. \A i \in 1 .. ReportKeys :
        after[i] = IF Presses(report[i])
                     THEN Ring!Inject(after[i - 1], hid_key_to_action(report[i]))
                     ELSE after[i - 1]
  BY <1>2, <1>6 DEF Turns
<1> QED BY <1>5, <1>7, <1>8

\* What is in the ring after a report was waiting before it, or comes from a
\* slot with a new key; each slot brings one key at most.
LEMMA ReportInjects ==
  ASSUME KeyTypes, NEW report
  PROVE  /\ WithReport(report) \in Ring!Rings
         /\ Ring!Count(WithReport(report)) <= Ring!Count(keys) + ReportKeys
         /\ \A j \in Len(Ring!Contents(keys)) + 1 .. Len(Ring!Contents(WithReport(report))) :
              \E i \in 1 .. ReportKeys :
                /\ Presses(report[i])
                /\ hid_key_to_action(report[i]) = Ring!Contents(WithReport(report))[j]
<1> DEFINE old == Ring!Contents(keys)
           New(a) == \E i \in 1 .. ReportKeys :
                       Presses(report[i]) /\ hid_key_to_action(report[i]) = a
           Good(q, n) == /\ q \in Ring!Rings
                         /\ Ring!Count(q) <= Ring!Count(keys) + n
                         /\ \A j \in Len(old) + 1 .. Len(Ring!Contents(q)) :
                              New(Ring!Contents(q)[j])
<1>1. PICK f :
        /\ f[0] = keys
        /\ \A i \in 1 .. ReportKeys :
             f[i] = IF Presses(report[i])
                      THEN Ring!Inject(f[i - 1], hid_key_to_action(report[i]))
                      ELSE f[i - 1]
        /\ WithReport(report) = f[ReportKeys]
  BY ReportLoop
<1>2. keys \in Ring!Rings /\ ReportKeys \in Nat
  BY LoopAssumption DEF KeyTypes
<1> DEFINE T == {n \in Nat : n <= ReportKeys => Good(f[n], n)}
<1>3. 0 \in T
  <2>1. f[0] = keys
    BY <1>1
  <2>2. Ring!Count(keys) \in Nat /\ Len(old) = Ring!Count(keys)
    BY <1>2, RingOperations
  <2>3. \A j \in Len(old) + 1 .. Len(old) : FALSE
    BY <2>2
  <2>4. Good(keys, 0)
    BY <1>2, <2>2, <2>3
  <2> HIDE DEF Good
  <2> QED BY <2>1, <2>4
<1>4. \A n \in Nat : n \in T => n + 1 \in T
  <2> SUFFICES ASSUME NEW n \in Nat, n + 1 <= ReportKeys, Good(f[n], n)
               PROVE  Good(f[n + 1], n + 1)
    <3> HIDE DEF Good
    <3> QED BY <1>2
  <2> DEFINE q == f[n]
             a == hid_key_to_action(report[n + 1])
  <2>1. f[n + 1] = IF Presses(report[n + 1]) THEN Ring!Inject(q, a) ELSE q
    <3>1. n + 1 \in 1 .. ReportKeys /\ (n + 1) - 1 = n
      BY <1>2
    <3> QED BY <1>1, <3>1
  <2>2. Ring!Count(keys) \in Nat /\ Ring!Count(q) \in Nat /\ Ring!Count(f[n + 1]) \in Nat
    <3>1. f[n + 1] \in Ring!Rings
      <4>1. Presses(report[n + 1]) => a \in Actions
        BY LookupTyped DEF hid_key_to_action, Presses
      <4> QED BY <2>1, <4>1, RingInject
    <3> QED BY <1>2, <3>1, RingOperations
  <2>3. CASE f[n + 1] = q
    BY <2>2, <2>3
  <2>4. CASE f[n + 1] # q
    <3>1. Presses(report[n + 1]) /\ f[n + 1] = Ring!Inject(q, a)
      BY <2>1, <2>4
    <3>2. a \in Actions
      BY <3>1, LookupTyped DEF hid_key_to_action, Presses
    <3>3. /\ f[n + 1] \in Ring!Rings
          /\ Ring!Count(f[n + 1]) <= Ring!Count(q) + 1
          /\ Ring!Contents(f[n + 1]) = Append(Ring!Contents(q), a)
      BY <2>4, <3>1, <3>2, RingInject
    <3>4. Ring!Count(f[n + 1]) <= Ring!Count(keys) + (n + 1)
      BY <2>2, <3>3
    <3>5. New(a)
      <4>1. n + 1 \in 1 .. ReportKeys
        BY <1>2
      <4> QED BY <3>1, <4>1
    <3>6. ASSUME NEW j \in Len(old) + 1 .. Len(Ring!Contents(f[n + 1]))
          PROVE  New(Ring!Contents(f[n + 1])[j])
      <4> DEFINE s == Ring!Contents(q)
      <4>1. s \in Seq(Actions \cup {KEY_NONE}) /\ Len(old) \in Nat
        BY <1>2, RingOperations
      <4> HIDE DEF s, New, a, q
      <4>2. Ring!Contents(f[n + 1]) = Append(s, a)
        BY <3>3 DEF s
      <4>3. Len(Append(s, a)) = Len(s) + 1 /\ Len(s) \in Nat
        BY <3>2, <4>1
      <4>4. CASE j = Len(s) + 1
        BY <3>2, <3>5, <4>1, <4>2, <4>4
      <4>5. CASE j # Len(s) + 1
        <5>1. j \in Len(old) + 1 .. Len(s) /\ j \in 1 .. Len(s)
          BY <4>1, <4>2, <4>3, <4>5
        <5>2. Append(s, a)[j] = s[j]
          BY <3>2, <4>1, <5>1
        <5> QED BY <4>2, <5>1, <5>2 DEF s, q
      <4> QED BY <4>4, <4>5
    <3> QED BY <3>3, <3>4, <3>6
  <2> QED BY <2>3, <2>4
<1> HIDE DEF T, Good
<1>5. ReportKeys \in T
  BY <1>2, <1>3, <1>4, Induction
<1>6. Good(WithReport(report), ReportKeys)
  BY <1>1, <1>2, <1>5 DEF T
<1> QED BY <1>6 DEF Good

\* A report of the USB keyboard names only keys of that keyboard, and all that
\* are held unless they do not fit.
LEMMA ReportShape ==
  ASSUME KeyTypes, NEW r \in Reports
  PROVE  /\ r \in [1 .. ReportKeys -> machine.codes \cup {0, RollOver}]
         /\ \A i \in 1 .. ReportKeys : r[i] \in down \cup {0, RollOver}
         /\ \A c \in down : c \in Range(r) \/ RollOver \in Range(r)
<1>1. ReportKeys \in Nat \ {0} /\ down \subseteq machine.codes
  BY LoopAssumption DEF KeyTypes
<1>2. CASE r = [i \in 1 .. ReportKeys |-> RollOver]
  <2>1. 1 \in 1 .. ReportKeys
    BY <1>1
  <2>2. RollOver \in Range(r)
    BY <1>2, <2>1 DEF Range
  <2> QED BY <1>1, <1>2, <2>2
<1>3. CASE r \in [1 .. ReportKeys -> down \cup {0}] /\
           \A c \in down : Cardinality({i \in 1 .. ReportKeys : r[i] = c}) = 1
  <2>1. ASSUME NEW c \in down PROVE c \in Range(r)
    <3>1. {i \in 1 .. ReportKeys : r[i] = c} # {}
      BY <1>3, FS_EmptySet
    <3> QED BY <1>3, <3>1 DEF Range
  <2> QED BY <1>1, <1>3, <2>1
<1> QED BY <1>2, <1>3 DEF Reports

\* usb_task: a report is read when the ring is empty, and brings no more keys
\* than there are runs before the next.
LEMMA UsbTaskKeepsKeys ==
  ASSUME KeyInv, usb_task
  PROVE  KeyInv'
<1>1. /\ pc = "usb" /\ pc' = "keyboard" /\ div' = DivAfter
      /\ UNCHANGED <<machine, extended, key, down>>
  BY DEF usb_task
<1>2. /\ Ring!Count(keys) \in Nat
      /\ Ring!Count(keys) = 0 \/ Ring!Count(keys) <= ReportKeys - div - 1
      /\ div \in 0 .. UsbPeriod - 1
  BY <1>1, RingOperations DEF KeyInv, KeyTypes, RingPaced, KeysLeft
<1>3. /\ div' \in 0 .. UsbPeriod - 1
      /\ Polls => Ring!Count(keys) = 0 /\ div' = 0
      /\ ~Polls => div' = div + 1
  BY <1>1, <1>2, LoopAssumption DEF DivAfter, Polls
<1>4. CASE UNCHANGED <<keys, last_keys, fresh>>
  <2>1. KeyTypes' /\ HeldKeysKnown'
    BY <1>1, <1>3, <1>4 DEF KeyInv, KeyTypes, HeldKeysKnown
  <2>2. Ring!Count(keys') = Ring!Count(keys)
    BY <1>4
  <2>3. KeysLeft' = ReportKeys - div'
    BY <1>1, <1>3, LoopAssumption DEF KeysLeft
  <2>4. Ring!Count(keys') = 0 \/ Ring!Count(keys') <= KeysLeft'
    BY <1>2, <1>3, <2>2, <2>3, LoopAssumption
  <2>5. RingPaced'
    BY <2>4 DEF RingPaced, Ring!Count
  <2> QED BY <2>1, <2>5 DEF KeyInv
<1>5. CASE Polls /\ fresh' = {} /\ \E r \in Reports : usb_hid_on_keyboard_report(r)
  <2>1. PICK r \in Reports : usb_hid_on_keyboard_report(r)
    BY <1>5
  <2>2. keys' = WithReport(r) /\ last_keys' = r
    BY <2>1 DEF usb_hid_on_keyboard_report
  <2>3. keys' \in Ring!Rings /\ Ring!Count(keys') <= Ring!Count(keys) + ReportKeys
    BY <2>2, ReportInjects DEF KeyInv
  <2>4. KeyTypes'
    BY <1>1, <1>3, <1>5, <2>2, <2>3, ReportShape DEF KeyInv, KeyTypes, Ring!Rings, Ring!Slots
  <2>5. HeldKeysKnown'
    BY <1>1, <1>5, <2>2, ReportShape DEF KeyInv, HeldKeysKnown
  <2>6. KeysLeft' = ReportKeys
    BY <1>1, <1>3, <1>5, LoopAssumption DEF KeysLeft
  <2>7. Ring!Count(keys') <= KeysLeft'
    BY <1>3, <1>5, <2>3, <2>6, LoopAssumption
  <2>8. RingPaced'
    BY <2>7 DEF RingPaced, Ring!Count
  <2> QED BY <2>4, <2>5, <2>8 DEF KeyInv
<1>6. CASE \E m \in Motions : usb_hid_on_mouse_report(m) /\ UNCHANGED fresh
  BY <1>4, <1>6 DEF usb_hid_on_mouse_report
<1> QED BY <1>4, <1>5, <1>6 DEF usb_task

\* poll_keyboard takes a key of the ring whenever one waits.
LEMMA PollKeyboardKeepsKeys ==
  ASSUME KeyInv, poll_keyboard
  PROVE  KeyInv'
<1>1. /\ pc = "keyboard" /\ pc' = "mouse"
      /\ UNCHANGED <<machine, last_keys, div, down, fresh>>
  BY DEF poll_keyboard, usbVars
<1>2. /\ keys \in Ring!Rings /\ Ring!Count(keys) \in Nat
      /\ Ring!Count(keys) = 0 <=> ~Ring!Waiting(keys)
      /\ Ring!Count(keys) = 0 \/ Ring!Count(keys) <= ReportKeys - div
      /\ div \in 0 .. UsbPeriod - 1
  BY <1>1, RingOperations, LoopAssumption DEF KeyInv, KeyTypes, RingPaced, KeysLeft
<1>3. /\ keys' \in Ring!Rings
      /\ key' \in Actions \cup {KEY_NONE} /\ extended' \in BOOLEAN
      /\ Ring!Count(keys') = 0 \/ Ring!Count(keys') <= ReportKeys - div - 1
  <2>1. CASE PollQueue
    <3>1. /\ Ring!Waiting(keys) /\ extended' = extended
          /\ keys' = Ring!WithoutOldest(keys) /\ key' = Ring!Oldest(keys)
      BY <2>1 DEF PollQueue
    <3>2. /\ keys' \in Ring!Rings /\ key' \in Actions \cup {KEY_NONE}
          /\ Ring!Count(keys') = Ring!Count(keys) - 1
      BY <1>2, <3>1, RingOperations
    <3>3. Ring!Count(keys') = 0 \/ Ring!Count(keys') <= ReportKeys - div - 1
      BY <1>2, <3>1, <3>2, LoopAssumption
    <3> QED BY <3>1, <3>2, <3>3 DEF KeyInv, KeyTypes
  <2>2. CASE PollNothing
    BY <1>2, <2>2 DEF PollNothing, KeyInv, KeyTypes
  <2>3. CASE PollScanCode
    <3>1. keys' = keys /\ ~Ring!Waiting(keys)
      BY <2>3 DEF PollScanCode
    <3>2. key' \in Actions \cup {KEY_NONE}
      BY <2>3, LookupTyped DEF PollScanCode, Decoded
    <3>3. extended' \in BOOLEAN
      BY <2>3 DEF PollScanCode, ExtendedAfter, KeyInv, KeyTypes
    <3> QED BY <1>2, <3>1, <3>2, <3>3
  <2> QED BY <2>1, <2>2, <2>3 DEF poll_keyboard
<1>4. KeysLeft' = ReportKeys - div - 1
  BY <1>1, <1>2, LoopAssumption DEF KeysLeft
<1>5. KeyTypes' /\ HeldKeysKnown'
  BY <1>1, <1>3 DEF KeyInv, KeyTypes, HeldKeysKnown, Ring!Rings, Ring!Slots
<1>6. RingPaced'
  BY <1>3, <1>4 DEF RingPaced, Ring!Count
<1> QED BY <1>5, <1>6 DEF KeyInv

\* What is not the keyboard's leaves the keys alone.
LEMMA OthersKeepKeys ==
  ASSUME KeyInv, UNCHANGED <<machine, keys, last_keys, extended, key, div, down, fresh>>,
         pc' = pc \/ (pc = "mouse" /\ pc' = "usb")
  PROVE  KeyInv'
<1>1. KeyTypes' /\ HeldKeysKnown'
  BY DEF KeyInv, KeyTypes, HeldKeysKnown, Ring!Rings, Ring!Slots
<1>2. KeysLeft' = KeysLeft
  BY DEF KeysLeft
<1>3. RingPaced'
  BY <1>2 DEF KeyInv, RingPaced, Ring!Count
<1> QED BY <1>1, <1>3 DEF KeyInv

LEMMA KeyInvHolds == Spec => []KeyInv
<1>1. Init => KeyInv
  <2> SUFFICES ASSUME Init PROVE KeyInv
    OBVIOUS
  <2>1. keys \in Ring!Rings /\ Ring!Count(keys) = 0
    BY LoopAssumption DEF Init, Ring!EmptyRing, Ring!Rings, Ring!Slots, Ring!Count
  <2>2. KeyTypes
    <3>1. last_keys \in [1 .. ReportKeys -> machine.codes \cup {0, RollOver}]
      BY DEF Init
    <3>2. div \in 0 .. UsbPeriod - 1
      BY LoopAssumption DEF Init
    <3>3. extended \in BOOLEAN /\ key = KEY_NONE /\ pc = "keyboard" /\ down = {} /\ fresh = {}
      BY DEF Init
    <3> QED BY <2>1, <3>1, <3>2, <3>3 DEF KeyTypes
  <2>3. RingPaced /\ HeldKeysKnown
    BY <2>1 DEF Init, RingPaced, HeldKeysKnown
  <2> QED BY <2>2, <2>3 DEF KeyInv
<1>2. KeyInv /\ [Next]_vars => KeyInv'
  <2> SUFFICES ASSUME KeyInv, [Next]_vars PROVE KeyInv'
    OBVIOUS
  <2>1. CASE poll_mouse
    BY <2>1, OthersKeepKeys DEF poll_mouse, usbVars
  <2>2. CASE KeyboardByte \/ MouseByte
    BY <2>2, OthersKeepKeys DEF KeyboardByte, MouseByte, kernelVars, usbVars
  <2>3. ASSUME NEW c \in machine.codes, UsbPress(c)
        PROVE  KeyInv'
    <3>1. /\ UNCHANGED <<machine, kernelVars>>
          /\ down' = down \cup {c} /\ fresh' = fresh \cup {c}
      BY <2>3 DEF UsbPress
    <3>2. KeyTypes' /\ HeldKeysKnown'
      BY <3>1 DEF KeyInv, KeyTypes, HeldKeysKnown, kernelVars, Ring!Rings, Ring!Slots
    <3>3. RingPaced'
      BY <3>1 DEF KeyInv, RingPaced, KeysLeft, kernelVars, Ring!Count
    <3> QED BY <3>2, <3>3 DEF KeyInv
  <2>4. ASSUME NEW c \in machine.codes, UsbRelease(c)
        PROVE  KeyInv'
    <3>1. /\ UNCHANGED <<machine, kernelVars, fresh>>
          /\ down' = down \ {c}
      BY <2>4 DEF UsbRelease
    <3>2. KeyTypes' /\ HeldKeysKnown'
      BY <3>1 DEF KeyInv, KeyTypes, HeldKeysKnown, kernelVars, Ring!Rings, Ring!Slots
    <3>3. RingPaced'
      BY <3>1 DEF KeyInv, RingPaced, KeysLeft, kernelVars, Ring!Count
    <3> QED BY <3>2, <3>3 DEF KeyInv
  <2>5. CASE UNCHANGED vars
    BY <2>5, OthersKeepKeys DEF vars, kernelVars, usbVars
  <2> QED
    BY <2>1, <2>2, <2>3, <2>4, <2>5, UsbTaskKeepsKeys, PollKeyboardKeepsKeys DEF Next, Kernel
<1> QED BY <1>1, <1>2, PTL DEF Spec

\* Everything keeps its type, through both devices of each kind.
THEOREM InputTyped == Spec => []TypeOK
<1>1. IInv /\ KeyInv => TypeOK
  BY DEF IInv, PointerTypes, KeyInv, KeyTypes, TypeOK, Ring!TypeOK
<1> QED BY <1>1, IInvHolds, KeyInvHolds, PTL

\* usb_task: the next report is read when the UI has taken every key of the
\* previous one, for every ring size and period with ReportKeys <= UsbPeriod.
THEOREM ReportsFindTheQueueEmpty == Spec => []QueueEmptyAtReport
<1>1. KeyInv => QueueEmptyAtReport
  <2> SUFFICES ASSUME KeyInv, pc = "usb", Polls PROVE ~Ring!Waiting(keys)
    BY DEF QueueEmptyAtReport
  <2>1. /\ Ring!Count(keys) \in Nat
        /\ Ring!Count(keys) = 0 <=> ~Ring!Waiting(keys)
        /\ div \in 0 .. UsbPeriod - 1
    BY RingOperations DEF KeyInv, KeyTypes
  <2>2. Ring!Count(keys) = 0 \/ Ring!Count(keys) <= ReportKeys - div - 1
    BY <2>1, LoopAssumption DEF KeyInv, RingPaced, KeysLeft
  <2> QED BY <2>1, <2>2, LoopAssumption DEF Polls
<1> QED BY <1>1, KeyInvHolds, PTL

\* usb_hid_on_keyboard_report: an action enters the queue only for a key that
\* went down since the previous report, or after a roll-over.
THEOREM NoPhantoms == Spec => NoPhantomPress
<1> DEFINE Appended ==
      LET before == Ring!Contents(keys)
          after  == Ring!Contents(keys')
      IN  \A i \in Len(before) + 1 .. Len(after) :
            \/ \E c \in fresh : hid_key_to_action(c) = after[i]
            \/ RollOver \in Range(last_keys)
<1>1. KeyInv /\ [Next]_vars => [Appended]_vars
  <2> SUFFICES ASSUME KeyInv, [Next]_vars PROVE Appended
    OBVIOUS
  <2>1. keys \in Ring!Rings
    BY DEF KeyInv, KeyTypes
  <2>2. /\ Len(Ring!Contents(keys)) = Ring!Count(keys) /\ Ring!Count(keys) \in Nat
    BY <2>1, RingOperations
  <2>3. CASE keys' = keys
    BY <2>2, <2>3
  <2>4. CASE PollQueue
    <3>1. /\ keys' \in Ring!Rings /\ Ring!Count(keys') = Ring!Count(keys) - 1
      BY <2>1, <2>4, RingOperations DEF PollQueue
    <3>2. Len(Ring!Contents(keys')) = Ring!Count(keys) - 1
      BY <3>1, RingOperations
    <3> QED BY <2>2, <3>2
  <2>5. CASE \E r \in Reports : usb_hid_on_keyboard_report(r)
    <3>1. PICK r \in Reports : keys' = WithReport(r)
      BY <2>5 DEF usb_hid_on_keyboard_report
    <3> SUFFICES ASSUME NEW j \in Len(Ring!Contents(keys)) + 1 .. Len(Ring!Contents(keys'))
                 PROVE  \/ \E c \in fresh : hid_key_to_action(c) = Ring!Contents(keys')[j]
                        \/ RollOver \in Range(last_keys)
      OBVIOUS
    <3>2. PICK i \in 1 .. ReportKeys :
            /\ Presses(r[i])
            /\ hid_key_to_action(r[i]) = Ring!Contents(keys')[j]
      BY <3>1, ReportInjects DEF KeyInv
    <3>3. r[i] \in down \cup {0, RollOver}
      BY ReportShape DEF KeyInv
    <3>4. r[i] \in down /\ r[i] \notin Range(last_keys)
      BY <3>2, <3>3, RollOverMeansNothing DEF Presses
    <3> QED BY <3>2, <3>4 DEF KeyInv, HeldKeysKnown
  <2>6. keys' = keys \/ PollQueue \/ \E r \in Reports : usb_hid_on_keyboard_report(r)
    BY DEF Next, Kernel, usb_task, usb_hid_on_mouse_report, poll_keyboard, PollNothing,
           PollScanCode, poll_mouse, KeyboardByte, MouseByte, UsbPress, UsbRelease, vars, kernelVars
  <2> HIDE DEF Appended
  <2> QED BY <2>3, <2>4, <2>5, <2>6
<1> QED BY <1>1, KeyInvHolds, PTL DEF Spec, NoPhantomPress

=============================================================================
