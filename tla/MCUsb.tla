--------------------------------- MODULE MCUsb ---------------------------------
(***************************************************************************)
(* Bus 0 of three devices with three functions.  A composite device of 59  *)
(* bytes (a vendor's interface, then a boot keyboard) fits the buffer; one *)
(* of 84 bytes has a third interface that starts at byte 59 and ends       *)
(* behind it.  Offsets are those of 9-byte interface and HID descriptors   *)
(* and 7-byte endpoints.                                                   *)
(***************************************************************************)
EXTENDS Usb, TLC

Place(d, f) == [dev |-> d, func |-> f]

\* EHCI last, behind a hole, beside its companion; a device without function 0.
Companions ==
  (Place(0, 0) :> "other") @@ (Place(1, 0) :> "uhci") @@ (Place(1, 2) :> "ehci")
    @@ (Place(2, 1) :> "ehci")
TwoEhci ==
  (Place(0, 0) :> "ehci_unusable") @@ (Place(0, 1) :> "ehci") @@ (Place(2, 0) :> "ehci")
NoEhci == Place(1, 0) :> "uhci"

Interface(a, b, p) == [at |-> a, boot |-> b, protocol |-> p]
Composite == [len |-> 59, interfaces |-> <<Interface(9, FALSE, 0), Interface(34, TRUE, 1)>>]
Three ==
  [len |-> 84, interfaces |->
     <<Interface(9, TRUE, 1), Interface(34, TRUE, 2), Interface(59, FALSE, 0)>>]

Machine(bus, async, config) == [bus |-> bus, async |-> async, config |-> config]

MCMachines ==
  { Machine(Companions, FALSE, Composite), Machine(TwoEhci, TRUE, Three),
    Machine(NoEhci, FALSE, Composite) }

OneKeyboard == {Machine(Companions, FALSE, Composite)}
=============================================================================
