------------------------------- MODULE MCInput -------------------------------
(***************************************************************************)
(* Machines for Input.  Scan codes and HID codes are those of the          *)
(* hardware; the USB report has two slots (six in the kernel), its period  *)
(* is two or three runs (eight) and the ring holds two or three keys       *)
(* (fifteen): as in the kernel a report fits the ring and the runs between *)
(* two reports outnumber its keys.                                         *)
(***************************************************************************)
EXTENDS Input

Byte(d)     == [data |-> d, press |-> KEY_NONE]
Final(d, a)  == [data |-> d, press |-> a]

EnterMake == <<Final(28, "KEY_ENTER")>>
EnterBreak == <<Byte(156)>>
UpMake    == <<Byte(224), Final(72, "KEY_UP")>>
UpBreak   == <<Byte(224), Byte(200)>>

BothKeys  == {EnterMake, EnterBreak, UpMake, UpBreak}
OnePress  == {EnterMake}

\* Bit 3 of the first byte of a packet is always set.
TwoPackets == {<<9, 2, 255>>, <<8, 254, 1>>}
OnePacket == {<<9, 2, 255>>}

\* KEY_UP, KEY_ENTER and a key the UI ignores.
ThreeCodes == {82, 40, 4}

TwoMotions == {[dx |-> 1, dy |-> -1, buttons |-> 1],
               [dx |-> -1, dy |-> 1, buttons |-> 0]}

Machine(hid, codes, keyEvents, packets) ==
  [hid |-> hid, codes |-> codes, keys |-> keyEvents, packets |-> packets]

\* A USB keyboard beside a PS/2 key; both PS/2 devices in full use beside one
\* USB key; a USB mouse beside a PS/2 mouse and key.
UsbKeyboard == Machine("keyboard", ThreeCodes, OnePress, {})
Ps2         == Machine("keyboard", {82}, BothKeys, TwoPackets)
UsbMouse    == Machine("mouse", {}, OnePress, OnePacket)

AllMachines   == {UsbKeyboard, Ps2, UsbMouse}
Ps2Keyboard   == {Machine("none", {}, BothKeys, {})}
MouseAndKey   == {Machine("mouse", {}, OnePress, {})}
UsbMouseAlone == {Machine("mouse", {}, {}, {})}
=============================================================================
