-------------------------------- MODULE Input --------------------------------
(***************************************************************************)
(* input.c and usb_hid.c in the kernel's loop: the PS/2 controller and the *)
(* USB HID device feed poll_keyboard and poll_mouse.  The kernel runs one  *)
(* task at a time, but the PS/2 controller (external) refills its output   *)
(* buffer between any two polls, and one buffer serves both devices.       *)
(***************************************************************************)
EXTENDS Integers, Sequences, FiniteSets, TLC, SequencesExt

CONSTANTS
  QueueSize,     \* KEY_QUEUE_SIZE
  ReportKeys,    \* key codes in a boot keyboard report (6)
  UsbPeriod,     \* usb_task polls on every UsbPeriod-th run (8)
  Machines,      \* what is plugged in and used: [hid, codes, keys, packets],
                 \* hid being what usb_init found ("none", "keyboard" or
                 \* "mouse"), codes the keys of the USB keyboard, keys the
                 \* byte sequences of the PS/2 keyboard and packets the
                 \* three-byte packets of the PS/2 mouse
  MaxDown,       \* bound: how many keys of the USB keyboard are held at once
  Motions,       \* reports of the USB mouse: [dx, dy, buttons]
  MaxPending,    \* bound: motion a USB mouse accumulates between two polls
  Width, Height  \* of the framebuffer

KEY_NONE == "KEY_NONE"
Actions == {"KEY_UP", "KEY_DOWN", "KEY_LEFT", "KEY_RIGHT", "KEY_ENTER",
            "KEY_ESC", "KEY_TAB", "KEY_START"}

\* A byte of the PS/2 keyboard, with the press it completes as a ghost.
KeyBytes == [data : 0 .. 255, press : Actions \cup {KEY_NONE}]

\* The kernel's numbers are 16, 6 and 8: the runs between two reports take as
\* many keys from the ring as a report can bring.
ASSUME LoopAssumption ==
  /\ QueueSize \in 2 .. 256
  /\ ReportKeys \in Nat \ {0} /\ UsbPeriod \in Nat \ {0}
  /\ ReportKeys <= UsbPeriod

ASSUME DeviceAssumption ==
  /\ Width \in Nat \ {0} /\ Height \in Nat \ {0}
  /\ \A m \in Machines :
       /\ \A e \in m.keys : e \in Seq(KeyBytes) /\ e # << >>
       /\ \A p \in m.packets : p \in Seq(0 .. 255) /\ Len(p) = 3
  /\ \A m \in Motions : m \in [dx : Int, dy : Int, buttons : 0 .. 7]

VARIABLES
  keys,        \* key_queue, key_head, key_tail
  pending,     \* pending_mouse_dx, _dy, _buttons, _valid
  last_keys,   \* usb_hid.c: the previous report's key codes
  extended,    \* poll_keyboard's static: an 0xE0 prefix was read
  packet,      \* the bytes of poll_mouse's packet[] read so far, cycle of them
  mouse,       \* ui_state's mouse_x, mouse_y, mouse_buttons
  key,         \* what poll_keyboard returned last
  pc,          \* the next call of the kernel's loop
  div          \* usb_task's counter

VARIABLES      \* the devices
  machine,     \* which of Machines this is
  port,        \* the 8042's output buffer: empty or one [aux, data, press]
  kbd_out,     \* bytes the PS/2 keyboard has not delivered yet
  mouse_out,   \* bytes the PS/2 mouse has not delivered yet
  down,        \* keys of the USB keyboard that are held
  fresh        \* ghost: keys pressed since its latest report was read

kernelVars == <<keys, pending, last_keys, extended, packet, mouse, key, pc, div>>
ps2Vars == <<port, kbd_out, mouse_out>>
usbVars == <<down, fresh>>
vars == <<machine, kernelVars, ps2Vars, usbVars>>

Ring == INSTANCE KeyQueue WITH KeyNone <- KEY_NONE

-----------------------------------------------------------------------------
(* usb_hid.c *)

HidActions ==
  {<<82, "KEY_UP">>, <<81, "KEY_DOWN">>, <<80, "KEY_LEFT">>, <<79, "KEY_RIGHT">>,
   <<40, "KEY_ENTER">>, <<41, "KEY_ESC">>, <<43, "KEY_TAB">>, <<22, "KEY_START">>}

Lookup(table, code) ==
  IF \E a \in Actions : <<code, a>> \in table
    THEN CHOOSE a \in Actions : <<code, a>> \in table
    ELSE KEY_NONE

hid_key_to_action(code) == Lookup(HidActions, code)

\* Mutant of Presses: held keys are injected again.
PressesRepeated(code) == code # 0 /\ hid_key_to_action(code) # KEY_NONE

\* A code that was not in the previous report (key_in_last) and that means
\* something to the UI.
Presses(code) ==
  code # 0 /\ code \notin Range(last_keys) /\ hid_key_to_action(code) # KEY_NONE

\* The ring after the slots of a report, one after the other.
WithReport(report) ==
  LET after[i \in 0 .. ReportKeys] ==
        IF i = 0
          THEN keys
          ELSE IF Presses(report[i])
            THEN Ring!Inject(after[i - 1], hid_key_to_action(report[i]))
            ELSE after[i - 1]
  IN  after[ReportKeys]

usb_hid_on_keyboard_report(report) ==
  /\ keys' = WithReport(report)
  /\ last_keys' = report
  /\ UNCHANGED pending

\* usb_hid_on_mouse_report and input_inject_mouse.
usb_hid_on_mouse_report(m) ==
  /\ pending' = [x |-> pending.x + m.dx, y |-> pending.y + m.dy,
                 buttons |-> m.buttons, valid |-> TRUE]
  /\ UNCHANGED <<keys, last_keys>>

\* A boot report (external): the held keys in any order, or ErrorRollOver in
\* every slot when they are more than fit.
RollOver == 1
Reports ==
  IF Cardinality(down) > ReportKeys
    THEN {[i \in 1 .. ReportKeys |-> RollOver]}
    ELSE {r \in [1 .. ReportKeys -> down \cup {0}] :
            \A c \in down : Cardinality({i \in 1 .. ReportKeys : r[i] = c}) = 1}

\* usb_task's divider.
Polls == div + 1 = UsbPeriod

\* Mutant of DivAfter: the counter is not reset.
DivAfterNoReset == div + 1

DivAfter == IF Polls THEN 0 ELSE div + 1

\* usb_task: usb_poll asks for a report on every UsbPeriod-th run, and the
\* transfer may fail.
usb_task ==
  /\ pc = "usb"
  /\ pc' = "keyboard"
  /\ div' = DivAfter
  /\ \/ UNCHANGED <<keys, last_keys, pending, fresh>>
     \/ /\ Polls /\ machine.hid = "keyboard"
        /\ \E r \in Reports : usb_hid_on_keyboard_report(r)
        /\ fresh' = {}
     \/ /\ Polls /\ machine.hid = "mouse"
        /\ \E m \in Motions :
             /\ pending.x + m.dx \in -MaxPending .. MaxPending
             /\ pending.y + m.dy \in -MaxPending .. MaxPending
             /\ usb_hid_on_mouse_report(m)
        /\ UNCHANGED fresh
  /\ UNCHANGED <<machine, extended, packet, mouse, key, ps2Vars, down>>

-----------------------------------------------------------------------------
(* poll_keyboard *)

PlainActions ==
  {<<28, "KEY_ENTER">>, <<1, "KEY_ESC">>, <<15, "KEY_TAB">>, <<31, "KEY_START">>}
ExtendedActions ==
  {<<72, "KEY_UP">>, <<80, "KEY_DOWN">>, <<75, "KEY_LEFT">>, <<77, "KEY_RIGHT">>}

\* Mutant of KeyByte: bit 0x20 is not tested.
KeyByteAny == port # << >>

\* Status bits 0x01 and 0x20: is there a byte, and of which device.
KeyByte == port # << >> /\ ~port[1].aux
AuxByte == port # << >> /\ port[1].aux

Prefix == 224                  \* 0xE0
Break(sc) == sc >= 128         \* sc & 0x80

\* Mutant of PollQueue: the head does not move.
PollQueueKeeps ==
  /\ Ring!Waiting(keys)
  /\ key' = Ring!Oldest(keys)
  /\ UNCHANGED <<keys, extended, port>>

\* The injected keys come first, and then the port is not looked at.
PollQueue ==
  /\ Ring!Waiting(keys)
  /\ key' = Ring!Oldest(keys)
  /\ keys' = Ring!WithoutOldest(keys)
  /\ UNCHANGED <<extended, port>>

PollNothing ==
  /\ ~Ring!Waiting(keys)
  /\ ~KeyByte
  /\ key' = KEY_NONE
  /\ UNCHANGED <<keys, extended, port>>

\* A break code returns before the prefix flag is cleared.
ExtendedAfter(sc) ==
  IF sc = Prefix THEN TRUE ELSE IF Break(sc) THEN extended ELSE FALSE

Decoded(sc) ==
  IF sc = Prefix \/ Break(sc)
    THEN KEY_NONE
    ELSE Lookup(IF extended THEN ExtendedActions ELSE PlainActions, sc)

\* Mutant of PollScanCode: the port is read though keys wait in the ring.
PollScanCodeFirst ==
  /\ KeyByte
  /\ key' = Decoded(port[1].data)
  /\ extended' = ExtendedAfter(port[1].data)
  /\ port' = << >>
  /\ UNCHANGED keys

PollScanCode ==
  /\ ~Ring!Waiting(keys)
  /\ KeyByte
  /\ key' = Decoded(port[1].data)
  /\ extended' = ExtendedAfter(port[1].data)
  /\ port' = << >>
  /\ UNCHANGED keys

poll_keyboard ==
  /\ pc = "keyboard"
  /\ pc' = "mouse"
  /\ PollQueue \/ PollNothing \/ PollScanCode
  /\ UNCHANGED <<machine, pending, last_keys, packet, mouse, div, kbd_out, mouse_out, usbVars>>

-----------------------------------------------------------------------------
(* poll_mouse *)

Int8(b) == IF b > 127 THEN b - 256 ELSE b

NoPending == [x |-> 0, y |-> 0, buttons |-> 0, valid |-> FALSE]

\* The y axis of both mice points up.
Moved(m, dx, dy, b) == [x |-> m.x + dx, y |-> m.y - dy, buttons |-> b]

\* Mutant of Within: the left and upper edges are not tested.
WithinAbove(v, size) == IF v > size - 1 THEN size - 1 ELSE v

Within(v, size) == IF v > size - 1 THEN size - 1 ELSE IF v < 0 THEN 0 ELSE v
Clamped(m) == [m EXCEPT !.x = Within(m.x, Width), !.y = Within(m.y, Height)]

WithPending(m, p) == Moved(m, p.x, p.y, p.buttons)

\* Mutant of Applied: the vertical motion stays.
AppliedOnlyX(p) == [p EXCEPT !.x = 0, !.valid = FALSE]

\* The pending fields after they are applied; the buttons stay as they are.
Applied(p) == [x |-> 0, y |-> 0, buttons |-> p.buttons, valid |-> FALSE]

\* Nothing to do without a byte in the port, nor for a keyboard byte when no
\* USB motion is pending.
PollMouseNothing ==
  /\ port = << >> \/ (KeyByte /\ ~pending.valid)
  /\ UNCHANGED <<port, packet, mouse, pending>>

\* With USB motion pending, a keyboard byte applies it without clamping and
\* is then itself read as a byte of the packet.
PollMouseByte ==
  /\ AuxByte \/ (KeyByte /\ pending.valid)
  /\ port' = << >>
  /\ LET early == KeyByte
         m1    == IF early THEN WithPending(mouse, pending) ELSE mouse
         p1    == IF early THEN Applied(pending) ELSE pending
         bytes == Append(packet, port[1].data)
         m2    == Clamped(Moved(m1, Int8(bytes[2]), Int8(bytes[3]), bytes[1] % 8))
     IN  \/ /\ Len(bytes) < 3
            /\ packet' = bytes /\ mouse' = m1 /\ pending' = p1
         \/ /\ Len(bytes) = 3
            /\ packet' = << >>
            /\ mouse' = IF p1.valid THEN Clamped(WithPending(m2, p1)) ELSE m2
            /\ pending' = IF p1.valid THEN Applied(p1) ELSE p1

poll_mouse ==
  /\ pc = "mouse"
  /\ pc' = "usb"
  /\ PollMouseNothing \/ PollMouseByte
  /\ UNCHANGED <<machine, keys, last_keys, extended, key, div, kbd_out, mouse_out, usbVars>>

-----------------------------------------------------------------------------
(* The devices.  The keyboard and the mouse put a byte into an empty port; *)
(* each starts a new event when it has delivered the previous one.         *)

KeyboardByte ==
  /\ port = << >>
  /\ \E e \in IF kbd_out = << >> THEN machine.keys ELSE {kbd_out} :
       /\ port' = <<[aux |-> FALSE, data |-> e[1].data, press |-> e[1].press]>>
       /\ kbd_out' = Tail(e)
  /\ UNCHANGED <<machine, kernelVars, mouse_out, usbVars>>

MouseByte ==
  /\ port = << >>
  /\ \E p \in IF mouse_out = << >> THEN machine.packets ELSE {mouse_out} :
       /\ port' = <<[aux |-> TRUE, data |-> p[1], press |-> KEY_NONE]>>
       /\ mouse_out' = Tail(p)
  /\ UNCHANGED <<machine, kernelVars, kbd_out, usbVars>>

UsbPress(c) ==
  /\ machine.hid = "keyboard"
  /\ c \notin down /\ Cardinality(down) < MaxDown
  /\ down' = down \cup {c}
  /\ fresh' = fresh \cup {c}
  /\ UNCHANGED <<machine, kernelVars, ps2Vars>>

UsbRelease(c) ==
  /\ c \in down
  /\ down' = down \ {c}
  /\ UNCHANGED <<machine, fresh, kernelVars, ps2Vars>>

-----------------------------------------------------------------------------
Init ==
  /\ machine \in Machines
  /\ keys = Ring!EmptyRing
  /\ pending = NoPending
  /\ last_keys = [i \in 1 .. ReportKeys |-> 0]
  /\ extended = FALSE
  /\ packet = << >>
  /\ mouse = [x |-> Width \div 2, y |-> Height \div 2, buttons |-> 0]
  /\ key = KEY_NONE
  /\ pc = "keyboard"
  /\ div = 0
  /\ port = << >> /\ kbd_out = << >> /\ mouse_out = << >>
  /\ down = {} /\ fresh = {}

Kernel == poll_keyboard \/ poll_mouse \/ usb_task

Next ==
  \/ Kernel
  \/ KeyboardByte
  \/ MouseByte
  \/ \E c \in machine.codes : UsbPress(c) \/ UsbRelease(c)

Spec == Init /\ [][Next]_vars

\* kernel_main calls scheduler_tick for ever, and none of the three calls
\* waits; the devices owe nothing.
FairSpec == Spec /\ WF_vars(Kernel)

-----------------------------------------------------------------------------
TypeOK ==
  /\ machine \in Machines
  /\ Ring!TypeOK
  /\ pending.x \in Int /\ pending.y \in Int
  /\ pending.buttons \in 0 .. 7 /\ pending.valid \in BOOLEAN
  /\ last_keys \in [1 .. ReportKeys -> machine.codes \cup {0, RollOver}]
  /\ extended \in BOOLEAN
  /\ Len(packet) <= 2
  /\ mouse.x \in Int /\ mouse.y \in Int /\ mouse.buttons \in 0 .. 7
  /\ key \in Actions \cup {KEY_NONE}
  /\ pc \in {"keyboard", "mouse", "usb"}
  /\ div \in 0 .. UsbPeriod - 1
  /\ Len(port) <= 1
  /\ down \subseteq machine.codes /\ fresh \subseteq machine.codes

\* usb_hid.c: a key action enters the queue only for a key that went down
\* since the previous report.  A key that is held, moves to another slot, or is
\* reported beside new keys does not repeat; the one exception is the report
\* after an ErrorRollOver, which wiped the memory of what was held.
NoPhantomPress ==
  [][LET before == Ring!Contents(keys)
         after  == Ring!Contents(keys')
     IN  \A i \in Len(before) + 1 .. Len(after) :
           \/ \E c \in fresh : hid_key_to_action(c) = after[i]
           \/ RollOver \in Range(last_keys)]_vars

\* The ring never overflows: by the time usb_poll reads the next report the
\* UI has taken every key of the previous one.
QueueEmptyAtReport ==
  pc = "usb" /\ Polls => ~Ring!Waiting(keys)

\* Injected keys do not starve the PS/2 devices: a byte in the port is read.
PortIsServed == port # << >> ~> port = << >>

\* Without a USB mouse the two kinds of PS/2 bytes are never confused: the
\* bytes read, in the port and still to come make whole mouse packets.
PacketsAligned ==
  machine.hid # "mouse" =>
    LET inPort == IF AuxByte THEN 1 ELSE 0
    IN  (Len(packet) + inPort + Len(mouse_out)) \in {0, 3}

\* The pointer leaves the screen only with a USB mouse, whose motion one path
\* applies without clamping, and only while a PS/2 packet is incomplete:
\* completing one always brings it back.
OffScreenOnlyMidPacket ==
  \/ mouse.x \in 0 .. Width - 1 /\ mouse.y \in 0 .. Height - 1
  \/ machine.hid = "mouse" /\ packet # << >>

\* Motion that was applied is not applied again with the next report.
NoStaleMotion == ~pending.valid => pending.x = 0 /\ pending.y = 0

\* Every press of a PS/2 key the UI knows is reported by poll_keyboard: the
\* byte that completes it is read there, and decodes to the key's action.
EveryPressDecoded ==
  [][LET b == port[1]
     IN  port # << >> /\ port' = << >> /\ b.press # KEY_NONE
           => pc = "keyboard" /\ key' = b.press]_vars

\* Motion of the USB mouse reaches the pointer.
UsbMotionApplied == pending.valid ~> ~pending.valid
=============================================================================
