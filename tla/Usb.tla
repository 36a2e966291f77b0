---------------------------------- MODULE Usb ----------------------------------
(***************************************************************************)
(* usb.c over pci.c, ehci.c and ehci_transfer.c: usb_init scans PCI bus 0  *)
(* for host controllers and walks the enumeration of one device, usb_poll  *)
(* then asks it for reports.  The host controller (external) works on its  *)
(* schedule concurrently, and its answer may come before or after the      *)
(* bounded wait for it ends; the device may be unplugged at any time.      *)
(***************************************************************************)
EXTENDS Integers, FiniteSets, Sequences

CONSTANTS
  HeapUnits,        \* the heap, in units of 32 bytes
  MaxControllers,   \* USB_MAX_CONTROLLERS
  Devs, Funcs,      \* devices on a bus (32), functions of a device (8)
  BufferLen,        \* bytes of usb_init's cfg_desc (64)
  Machines,         \* [bus, async, config]: the functions of bus 0 by place,
                    \* each "other", "uhci", "ehci" or "ehci_unusable"; whether
                    \* firmware left the async schedule enabled; and the
                    \* device's configuration: its length and its interfaces
                    \* [at, boot, protocol] in order, at being the offset
  HonoursRun,       \* the controller works only while USBCMD's Run bit is set
  Patient           \* the device stays, refuses nothing and answers in time

ASSUME HeapAssumption == HeapUnits \in Nat

\* Every function has a place on the bus.
Places == [dev : 0 .. Devs - 1, func : 0 .. Funcs - 1]

ASSUME BusAssumption ==
  /\ MaxControllers \in Nat /\ Devs \in Nat /\ Funcs \in Nat \ {0}
  /\ \A m \in Machines :
       /\ m.async \in BOOLEAN /\ DOMAIN m.bus \subseteq Places
       /\ \A p \in DOMAIN m.bus : m.bus[p] \in {"other", "uhci", "ehci", "ehci_unusable"}

\* An interface descriptor has 9 bytes, in the configuration.
ASSUME ConfigAssumption ==
  BufferLen \in Nat /\
  \A m \in Machines :
    /\ m.config.len \in Nat
    /\ m.config.interfaces \in Seq([at : Nat, boot : BOOLEAN, protocol : 0 .. 255])
    /\ \A j \in DOMAIN m.config.interfaces :
         m.config.interfaces[j].at + 9 <= m.config.len

\* usb_init's requests, and usb_poll's.
FirstRequest == "DESC8"
Enumeration == {FirstRequest, "SET_ADDRESS", "DESC18", "CFG9", "CFG", "SET_CONFIG"}
Requests == Enumeration \cup {"SET_PROTOCOL", "GET_REPORT"}

\* Those that carry no data but change the device.
Settings == {"SET_ADDRESS", "SET_CONFIG", "SET_PROTOCOL"}

VARIABLES
  machine,          \* which of Machines this is
  controller_count, ehci_count,
  at,               \* pci_scan_bus0's dev and func
  pc,               \* "scan", "call", "wait", or "idle" between two polls
  req,              \* the request being made
  addr,             \* hid_device.addr
  kind,             \* hid_device: is_keyboard, is_mouse or neither
  sized,            \* hid_device.report_len is not 0
  reports,          \* ghost: reports handed to usb_hid.c
  undone,           \* ghost: the requests that the kernel went on after
                    \* although the device had not done them
  heap              \* units left in kmalloc's heap

\* A transfer is its status qTD's place in the heap and, to tell two transfers
\* apart that share a place, its serial number.
VARIABLES
  transfer,         \* the one ehci_control_transfer waits for, with its request
  serial,           \* transfers made so far
  inactive,         \* places of the status qTDs whose Active bit is clear
  enabled,          \* the async schedule enable bit of USBCMD
  running           \* the Run bit of USBCMD

VARIABLES           \* the controller and the device (external)
  working,          \* the transfers whose queue head the controller is at
  device,           \* [present, addr, configured, boot]: plugged in with its
                    \* port reset, its address, configured, in boot protocol
  answered,         \* serials of the transfers that were executed or refused
  stalled,          \* serials of those whose status qTD was halted by a STALL
  late              \* serials of those answered after their call returned

scanVars == <<machine, controller_count, ehci_count, at>>
hidVars == <<addr, kind, sized, reports, undone>>
transferVars == <<heap, transfer, serial, inactive>>
deviceVars == <<device, answered, stalled, late>>
vars == <<scanVars, hidVars, transferVars, deviceVars, pc, req, enabled, running, working>>

NoTransfer == [place |-> 0, serial |-> 0, req |-> "NONE"]
NoDevice == [present |-> FALSE, addr |-> 0, configured |-> FALSE, boot |-> FALSE]
ResetDevice == [present |-> TRUE, addr |-> 0, configured |-> FALSE, boot |-> FALSE]

-----------------------------------------------------------------------------
(* usb_device_cb and pci_scan_bus0 *)

Counted(n) == IF n < MaxControllers THEN n + 1 ELSE n

\* ehci_init clears Run for the halt and the reset, and writes USBCMD back
\* without it; the schedule bits keep what firmware left.  Each port with a
\* device is reset.  Only the first controller is used.
ehci_init ==
  /\ ehci_count' = ehci_count + 1
  /\ IF ehci_count = 0
       THEN /\ running' = FALSE
            /\ device' \in {NoDevice, ResetDevice}
       ELSE UNCHANGED <<running, device>>

\* A USB controller is listed; an EHCI one (prog_if 0x20) is set up, unless
\* its registers are out of reach or ehci_init rejects them.
usb_device_cb(function) ==
  /\ controller_count' = IF function = "other" THEN controller_count
                         ELSE Counted(controller_count)
  /\ IF function = "ehci" /\ ehci_count < MaxControllers
       THEN ehci_init
       ELSE UNCHANGED <<ehci_count, running, device>>

NextFunc == IF at.func + 1 < Funcs THEN [at EXCEPT !.func = @ + 1]
            ELSE [dev |-> at.dev + 1, func |-> 0]
NextDev == [dev |-> at.dev + 1, func |-> 0]

\* Mutant of AfterMissing: the first hole ends the device.
AfterMissingAny == NextDev

\* A device without function 0 is passed over; other holes are skipped.
AfterMissing == IF at.func = 0 THEN NextDev ELSE NextFunc

Scan ==
  /\ pc = "scan" /\ at.dev < Devs
  /\ IF at \in DOMAIN machine.bus
       THEN usb_device_cb(machine.bus[at]) /\ at' = NextFunc
       ELSE /\ at' = AfterMissing
            /\ UNCHANGED <<controller_count, ehci_count, running, device>>
  /\ UNCHANGED <<machine, hidVars, transferVars, answered, stalled, late, pc, req, enabled,
                 working>>

ScanDone ==
  /\ pc = "scan" /\ at.dev = Devs
  /\ pc' = IF ehci_count = 0 THEN "idle" ELSE "call"
  /\ req' = FirstRequest
  /\ UNCHANGED <<scanVars, hidVars, transferVars, deviceVars, enabled, running, working>>

-----------------------------------------------------------------------------
(* ehci_control_transfer *)

\* A transfer with data has a third qTD.  A report is asked for with length 0
\* when usb_init gave up before it knew its length.
HasData(r) ==
  IF r = "GET_REPORT" THEN sized
  ELSE r \notin Settings

\* Mutant of Taken: the heap's end is not tested.
TakenUnchecked(h, units) == h - units

\* kmalloc, when it has the room.
Taken(h, units) == IF units <= h THEN h - units ELSE h

\* Mutants of HeapAfter: the descriptors are given back although a timed-out
\* transfer is still on the schedule; a queue head takes one unit.
HeapAfterReused(r) == heap
HeapAfterShort(r) ==
  LET two == Taken(Taken(Taken(heap, 1), 1), 1)
  IN  IF HasData(r) THEN Taken(two, 1) ELSE two

\* alloc_qh and then the two or three alloc_qtd, each tried whether or not
\* the previous one succeeded.
HeapAfter(r) ==
  LET two == Taken(Taken(Taken(heap, 2), 1), 1)
  IN  IF HasData(r) THEN Taken(two, 1) ELSE two
HeapSuffices(r) == heap >= (IF HasData(r) THEN 5 ELSE 4)

RequestAfter(r) ==
  IF r = FirstRequest THEN "SET_ADDRESS"
  ELSE IF r = "SET_ADDRESS" THEN "DESC18"
  ELSE IF r = "DESC18" THEN "CFG9"
  ELSE IF r = "CFG9" THEN "CFG" ELSE "SET_CONFIG"

Stop == pc' = "idle" /\ UNCHANGED req

Call(r) == pc' = "call" /\ req' = r

\* The descriptors are walked as far as the buffer reaches.  Fields of the
\* last one that lie beyond it are read all the same: bytes of the stack.
TotalLen == IF machine.config.len > BufferLen THEN BufferLen ELSE machine.config.len

Readings(i) ==
  [boot : IF i.at + 6 < TotalLen THEN {i.boot} ELSE BOOLEAN,
   protocol : IF i.at + 7 < TotalLen THEN {i.protocol} ELSE 0 .. 255]

KindOf(reading) ==
  IF reading.protocol = 1 THEN "keyboard"
  ELSE IF reading.protocol = 2 THEN "mouse" ELSE "none"

\* The kinds usb_init may conclude: the loop ends where the buffer does, and
\* each boot HID interface it reads sets the kind anew, so that the last counts.
Read == {j \in DOMAIN machine.config.interfaces : machine.config.interfaces[j].at + 2 < TotalLen}
ReadAs(j, boot) == {r \in Readings(machine.config.interfaces[j]) : r.boot = boot}
NoneBehind(j) == \A k \in Read : k > j => ReadAs(k, FALSE) # {}

Parsed ==
  {kd \in {"none", "keyboard", "mouse"} :
     \/ kd = "none" /\ NoneBehind(0)
     \/ \E j \in Read : NoneBehind(j) /\ \E r \in ReadAs(j, TRUE) : kd = KindOf(r)}

\* The kernel goes on after a request that the device did not do.
GoesOnAfter(r) == undone' = undone \cup {r}

\* Mutant of Failed: the address is taken over before the result is looked at.
FailedAddressed ==
  /\ Stop
  /\ addr' = IF req = "SET_ADDRESS" THEN 1 ELSE addr
  /\ IF req = "SET_PROTOCOL" THEN GoesOnAfter(req) ELSE UNCHANGED undone
  /\ UNCHANGED <<kind, sized, reports>>

\* Mutant of HandsOn: any device's report is handed on.
HandsOnAny == req = "GET_REPORT"

\* usb_poll hands on the report of a keyboard or a mouse.
HandsOn == req = "GET_REPORT" /\ kind # "none"

\* What usb_init and usb_poll do with the result of a call: a failure ends
\* them, though SET_PROTOCOL's result is not looked at.
Failed ==
  /\ Stop
  /\ IF req = "SET_PROTOCOL" THEN GoesOnAfter(req) ELSE UNCHANGED undone
  /\ UNCHANGED <<addr, kind, sized, reports>>

\* Mutant of Configured: the boot protocol is not asked for.
ConfiguredDone(k) ==
  /\ kind' = k
  /\ sized' = TRUE
  /\ Stop

Configured(k) ==
  /\ kind' = k
  /\ sized' = TRUE
  /\ IF k = "none" THEN Stop ELSE Call("SET_PROTOCOL")

\* The result tells a request that was done from one that was refused no more
\* than the Active bit does.
Succeeded ==
  /\ addr' = IF req = "SET_ADDRESS" THEN 1 ELSE addr
  /\ reports' = IF HandsOn THEN reports + 1 ELSE reports
  /\ \/ req = "SET_CONFIG" /\ \E k \in Parsed : Configured(k)
     \/ /\ req \in {"SET_PROTOCOL", "GET_REPORT"}
        /\ Stop /\ UNCHANGED <<kind, sized>>
     \/ /\ req \notin {"SET_CONFIG", "SET_PROTOCOL", "GET_REPORT"}
        /\ Call(RequestAfter(req)) /\ UNCHANGED <<kind, sized>>
  /\ IF transfer.serial \in stalled THEN GoesOnAfter(req) ELSE UNCHANGED undone

\* Without room in the heap for all descriptors the call fails; what it took
\* is not given back.
NoDescriptors ==
  /\ pc = "call" /\ ~HeapSuffices(req)
  /\ heap' = HeapAfter(req)
  /\ Failed
  /\ UNCHANGED <<scanVars, transfer, serial, inactive, deviceVars, enabled, running, working>>

\* The descriptors are written with Active set, the queue head becomes the
\* list's and the schedule is enabled.  A controller whose schedule is already
\* enabled may go on with the queue head it is at, or take the new one.
Start ==
  /\ pc = "call" /\ HeapSuffices(req)
  /\ heap' = HeapAfter(req)
  /\ serial' = serial + 1
  /\ transfer' = [place |-> heap', serial |-> serial + 1, req |-> req]
  /\ inactive' = inactive \ {heap'}
  /\ enabled' = TRUE
  /\ working' \in IF enabled THEN {working, transfer'} ELSE {transfer'}
  /\ pc' = "wait"
  /\ UNCHANGED <<scanVars, hidVars, deviceVars, req, running>>

\* wait_qtd_complete saw the Active bit clear: the transfer was executed, or
\* its status qTD halted, whose Halted bit is not looked at.
Completed ==
  /\ pc = "wait" /\ transfer.place \in inactive
  /\ enabled' = FALSE
  /\ working' = NoTransfer
  /\ transfer' = NoTransfer
  /\ Succeeded
  /\ UNCHANGED <<scanVars, heap, serial, inactive, deviceVars, running>>

AddressOf(r) == IF r \in {"DESC8", "SET_ADDRESS"} THEN 0 ELSE 1

\* The controller is at a transfer that the device will answer.
CanAnswer ==
  /\ HonoursRun => running
  /\ enabled /\ working # NoTransfer
  /\ working.place \notin inactive /\ working.serial \notin answered
  /\ device.present /\ device.addr = AddressOf(working.req)

\* Mutant of TimedOut: the wait has no end.
TimedOutNever ==
  /\ pc = "wait" /\ transfer.place \notin inactive
  /\ UNCHANGED vars

\* It gave up; the schedule stays enabled, the queue head on it.  A build that
\* reads the token once, before the loop, gives up on answered transfers too.
TimedOut ==
  /\ pc = "wait"
  /\ Patient => transfer.place \notin inactive /\ ~CanAnswer
  /\ transfer' = NoTransfer
  /\ Failed
  /\ UNCHANGED <<scanVars, heap, serial, inactive, deviceVars, enabled, running, working>>

\* usb_task's next poll.
usb_poll ==
  /\ pc = "idle"
  /\ IF ehci_count > 0 /\ addr # 0 THEN Call("GET_REPORT") ELSE UNCHANGED <<pc, req>>
  /\ UNCHANGED <<scanVars, hidVars, transferVars, deviceVars, enabled, running, working>>

-----------------------------------------------------------------------------
(* The controller works on the transfer it is at, if the device answers at *)
(* the address the transfer is for.  The setup packet is on the stack of   *)
(* the call: it is gone when the call has returned, but may still be read. *)

\* The status qTD's Active bit is cleared, in time or not.
Answer ==
  /\ CanAnswer
  /\ inactive' = inactive \cup {working.place}
  /\ answered' = answered \cup {working.serial}
  /\ late' = IF working.serial = transfer.serial THEN late
             ELSE late \cup {working.serial}
  /\ UNCHANGED <<scanVars, hidVars, heap, transfer, serial, pc, req, enabled, running, working>>

Done(r) ==
  CASE r = "SET_ADDRESS" -> [device EXCEPT !.addr = 1]
    [] r = "SET_CONFIG" -> [device EXCEPT !.configured = TRUE]
    [] r = "SET_PROTOCOL" -> [device EXCEPT !.boot = TRUE]
    [] OTHER -> device

Execute == Answer /\ device' = Done(working.req) /\ UNCHANGED stalled

\* The device refuses a setting: a STALL in the status stage halts its qTD,
\* which clears Active and sets Halted.  A STALL in the data stage leaves the
\* status qTD active, as if nobody had answered; one in the status stage of any
\* other request is to the kernel what Execute is.
Stall ==
  /\ Answer /\ ~Patient /\ working.req \in Settings
  /\ stalled' = stalled \cup {working.serial}
  /\ UNCHANGED device

\* A device that comes back finds its port not reset, and does not answer.
Unplug ==
  /\ device.present /\ ~Patient
  /\ device' = [device EXCEPT !.present = FALSE]
  /\ UNCHANGED <<scanVars, hidVars, transferVars, answered, stalled, late, pc, req, enabled,
                 running, working>>

-----------------------------------------------------------------------------
Init ==
  /\ machine \in Machines
  /\ controller_count = 0 /\ ehci_count = 0 /\ at = [dev |-> 0, func |-> 0]
  /\ pc = "scan" /\ req = FirstRequest
  /\ addr = 0 /\ kind = "none" /\ sized = FALSE /\ reports = 0 /\ undone = {}
  /\ heap = HeapUnits
  /\ transfer = NoTransfer /\ serial = 0 /\ inactive = {}
  /\ enabled = machine.async /\ running = TRUE
  /\ working = NoTransfer
  /\ device = NoDevice
  /\ answered = {} /\ stalled = {} /\ late = {}

Kernel ==
  \/ Scan \/ ScanDone
  \/ NoDescriptors \/ Start \/ Completed \/ TimedOut
  \/ usb_poll

Next == Kernel \/ Execute \/ Stall \/ Unplug

Spec == Init /\ [][Next]_vars

\* The kernel keeps running; the controller and the device owe nothing.
FairSpec == Spec /\ WF_vars(Kernel)

\* The controller also does what it can.
WorkingSpec == FairSpec /\ WF_vars(Execute)

-----------------------------------------------------------------------------
IsTransfer(t) ==
  /\ t.place \in 0 .. HeapUnits /\ t.serial \in 0 .. serial
  /\ t.req \in Requests \cup {"NONE"}

TypeOK ==
  /\ machine \in Machines
  /\ controller_count \in 0 .. MaxControllers
  /\ ehci_count \in 0 .. controller_count
  /\ at.dev \in 0 .. Devs /\ at.func \in 0 .. Funcs - 1
  /\ pc \in {"scan", "call", "wait", "idle"} /\ req \in Requests
  /\ addr \in {0, 1} /\ sized \in BOOLEAN
  /\ kind \in {"none", "keyboard", "mouse"}
  /\ heap \in 0 .. HeapUnits
  /\ serial \in Nat /\ reports \in 0 .. serial
  /\ IsTransfer(transfer) /\ IsTransfer(working)
  /\ inactive \subseteq 0 .. HeapUnits
  /\ enabled \in BOOLEAN /\ running \in BOOLEAN /\ undone \subseteq Settings
  /\ device \in [present : BOOLEAN, addr : {0, 1}, configured : BOOLEAN, boot : BOOLEAN]
  /\ late \subseteq answered /\ stalled \subseteq answered /\ answered \subseteq 1 .. serial

\* A call that succeeds was itself answered: the late answer to a call that
\* timed out is never taken for the answer to a later one, whose buffer it
\* did not fill.
OwnAnswer ==
  [][enabled /\ ~enabled' => transfer.serial \in answered]_vars

\* The kernel polls at the address that the device has got.  A device that has
\* refused SET_ADDRESS, which the kernel takes for done, is the exception: it is
\* enumerated no further, so that nothing it says is ever used.
AddressAgreed ==
  addr # 0 => device.addr = addr \/ ("SET_ADDRESS" \in undone /\ ~sized /\ reports = 0)

\* Reports are handed on only from a device that has the kernel's address and
\* is configured, unless it has refused to be, and as what it is: when its
\* configuration fits usb_init's buffer, the kind is that of its last boot
\* interface.
LastBoot ==
  LET interfaces == machine.config.interfaces
      boots == {j \in DOMAIN interfaces : interfaces[j].boot}
  IN  IF boots = {} THEN "none"
      ELSE KindOf(interfaces[CHOOSE j \in boots : \A k \in boots : k <= j])

ReportsFromConfigured ==
  reports > 0 =>
    /\ device.addr = addr
    /\ device.configured \/ "SET_CONFIG" \in undone
    /\ machine.config.len <= BufferLen => kind = LastBoot

\* Reports come in the boot layout that usb_hid.c reads, unless the request for
\* it was refused or went unanswered: no later step tells usb_poll of that.
LayoutKnown == reports > 0 /\ "SET_PROTOCOL" \notin undone => device.boot

\* The scan meets every USB function of bus 0 that it can reach: of a device
\* that has a function 0, behind holes too, and no more than fit the tables.
Reachable ==
  {p \in DOMAIN machine.bus : [dev |-> p.dev, func |-> 0] \in DOMAIN machine.bus}

UpTo(max, n) == IF n > max THEN max ELSE n

Among(places, functions) ==
  UpTo(MaxControllers, Cardinality({p \in places : machine.bus[p] \in functions}))

ControllersMet ==
  pc # "scan" =>
    /\ controller_count = Among(Reachable, {"uhci", "ehci", "ehci_unusable"})
    /\ ehci_count = Among(Reachable, {"ehci"})

\* The descriptors are never given back, so a kernel's life has only so many
\* reports: 32 units go to the enumeration and 5 to every report.
ReportsBounded == reports > 0 => 32 + 5 * reports <= HeapUnits

\* Nothing the controller or the device does or fails to do keeps usb_init or
\* usb_poll from returning.
AlwaysReturns == []<>(pc = "idle")

\* With a controller and a device that do their part in time, a device that is
\* plugged in at boot is found.
DeviceFound == device.present ~> kind # "none"
=============================================================================
