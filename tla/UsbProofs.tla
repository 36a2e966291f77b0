------------------------------- MODULE UsbProofs -------------------------------
(***************************************************************************)
(* Proofs about Usb, for every heap, bus and device.  A transfer is        *)
(* written below everything the heap gave before, and the heap gives       *)
(* nothing back: so the place whose Active bit is clear tells which call   *)
(* was answered, however late the answers come.                            *)
(***************************************************************************)
EXTENDS Usb, FiniteSetTheorems, TLAPS

Transfers == [place : Nat, serial : Nat, req : Requests \cup {"NONE"}]
Devices == [present : BOOLEAN, addr : {0, 1}, configured : BOOLEAN, boot : BOOLEAN]

Types ==
  /\ heap \in Nat /\ serial \in Nat /\ reports \in Nat
  /\ pc \in {"scan", "call", "wait", "idle"} /\ req \in Requests
  /\ addr \in {0, 1} /\ sized \in BOOLEAN /\ undone \subseteq Settings
  /\ transfer \in Transfers /\ working \in Transfers /\ device \in Devices
  /\ answered \subseteq 1 .. serial /\ inactive \subseteq Nat
  /\ stalled \subseteq answered

\* Before the scan has ended nothing was asked.
Untouched ==
  pc = "scan" => /\ req = FirstRequest /\ heap = HeapUnits
                 /\ working = NoTransfer
                 /\ addr = 0 /\ kind = "none"

\* The call waits for the transfer it made last.
WaitsForLatest ==
  transfer = IF pc = "wait" THEN [place |-> heap, serial |-> serial, req |-> req]
             ELSE NoTransfer

\* Whatever was written before lies at or above the heap's end.
PlacesAbove ==
  /\ \A p \in inactive : p >= heap
  /\ working # NoTransfer => working.place >= heap /\ working.serial \in 1 .. serial

\* The transfer that is waited for shares its place and its serial with none.
Unique ==
  pc = "wait" /\ working # NoTransfer /\ (working.place = heap \/ working.serial = serial)
    => working = transfer

\* What a clear Active bit, and then an answer, mean.
ClearMeansAnswered == pc = "wait" /\ heap \in inactive => serial \in answered

\* What an answer says of the device: it answers at the address it was asked
\* at, and has done what was asked, unless its STALL is the answer.
Effect ==
  pc = "wait" /\ serial \in answered =>
    /\ AddressOf(req) = 1 => device.addr = 1
    /\ serial \in stalled => req \in Settings
    /\ serial \notin stalled =>
         /\ req = "SET_ADDRESS" => device.addr = 1
         /\ req = "SET_CONFIG" => device.configured
         /\ req = "SET_PROTOCOL" => device.boot

Asking == pc \in {"call", "wait"}

\* How far usb_init has come, by what it knows of the device.
Known ==
  /\ pc = "scan" \/ (Asking /\ req \in Enumeration) => kind = "none" /\ ~sized /\ reports = 0
  /\ Asking /\ req = "SET_PROTOCOL" => kind # "none" /\ reports = 0
  /\ kind # "none" => sized
  /\ Asking /\ req \in Enumeration \ {FirstRequest, "SET_ADDRESS"} => addr = 1
  /\ sized => /\ addr = 1 /\ device.addr = 1
              /\ device.configured \/ "SET_CONFIG" \in undone
  /\ reports > 0 => kind # "none"
  /\ kind # "none" => "SET_PROTOCOL" \in undone \/ device.boot \/ (Asking /\ req = "SET_PROTOCOL")

\* Units taken when a request is made, and by the request itself.
Before(r) ==
  IF r = FirstRequest THEN 0
  ELSE IF r = "SET_ADDRESS" THEN 5
  ELSE IF r = "DESC18" THEN 9
  ELSE IF r = "CFG9" THEN 14
  ELSE IF r = "CFG" THEN 19
  ELSE IF r = "SET_CONFIG" THEN 24 ELSE 28
Cost(r) == IF HasData(r) THEN 5 ELSE 4

\* The heap pays for the enumeration and for every report.
Settled == kind # "none" /\ ~(Asking /\ req = "SET_PROTOCOL")

Paid ==
  /\ pc \in {"scan", "call"} /\ req # "GET_REPORT" => heap + Before(req) <= HeapUnits
  /\ pc = "wait" /\ req # "GET_REPORT" => heap + Before(req) + Cost(req) <= HeapUnits
  /\ Settled /\ pc # "wait" =>
       (heap < 4 /\ reports = 0) \/ heap + 32 + 5 * reports <= HeapUnits
  /\ Settled /\ pc = "wait" => heap + 37 + 5 * reports <= HeapUnits

CallInv == Types /\ Untouched /\ WaitsForLatest /\ PlacesAbove /\ Unique
             /\ ClearMeansAnswered /\ Effect
Inv == CallInv /\ AddressAgreed /\ Known /\ Paid

-----------------------------------------------------------------------------
\* The descriptors of a call are taken from the heap whole or not.
LEMMA HeapTaken ==
  ASSUME heap \in Nat, NEW r
  PROVE  /\ HeapAfter(r) \in Nat /\ HeapAfter(r) <= heap
         /\ HeapSuffices(r) => HeapAfter(r) = heap - Cost(r)
BY DEF HeapAfter, Taken, HeapSuffices, Cost

\* What was paid for is paid for when the heap has become smaller.
LEMMA StillPaid ==
  ASSUME NEW old \in Nat, NEW new \in Nat, new <= old, NEW n \in Nat, NEW units \in Nat,
         (old < 4 /\ n = 0) \/ old + 32 + 5 * n <= units
  PROVE  (new < 4 /\ n = 0) \/ new + 32 + 5 * n <= units
OBVIOUS

\* Each request of the enumeration follows the one before it.
LEMMA NextRequest ==
  ASSUME NEW r \in Enumeration \ {"SET_CONFIG"}
  PROVE  /\ RequestAfter(r) \in Enumeration
         /\ Before(RequestAfter(r)) = Before(r) + Cost(r)
BY DEF Enumeration, FirstRequest, RequestAfter, Before, Cost, HasData, Settings

LEMMA RequestFacts ==
  /\ "SET_PROTOCOL" \notin Enumeration /\ "GET_REPORT" \notin Enumeration
  /\ Requests = Enumeration \cup {"SET_PROTOCOL", "GET_REPORT"}
  /\ FirstRequest \in Enumeration
BY DEF Enumeration, FirstRequest, Requests

\* The scan finds a controller and perhaps a device.
LEMMA ScanKeeps ==
  ASSUME Inv, Scan
  PROVE  Inv'
<1>1. /\ pc = "scan" /\ pc' = pc
      /\ UNCHANGED <<hidVars, transferVars, answered, stalled, late, req, enabled, working>>
  BY DEF Scan
<1>2. device' \in Devices
  <2>1. device' = device \/ device' = NoDevice \/ device' = ResetDevice
    BY DEF Scan, usb_device_cb, ehci_init
  <2>2. NoDevice \in Devices /\ ResetDevice \in Devices
    BY DEF NoDevice, ResetDevice, Devices
  <2> QED BY <2>1, <2>2 DEF Inv, CallInv, Types
<1>3. addr = 0 /\ kind = "none" /\ ~sized
  BY <1>1 DEF Inv, CallInv, Untouched, Known
<1>4. HasData(req)' = HasData(req)
  BY <1>1 DEF HasData, hidVars
<1>5. CallInv'
  BY <1>1, <1>2 DEF Inv, CallInv, Types, Untouched, WaitsForLatest, PlacesAbove, Unique,
       ClearMeansAnswered, Effect, hidVars, transferVars
<1>6. AddressAgreed' /\ Known'
  BY <1>1, <1>3 DEF Inv, AddressAgreed, Known, Asking, hidVars
<1>7. Paid'
  BY <1>1, <1>3 DEF Inv, Paid, Settled, Asking, hidVars, transferVars, Before
<1> QED BY <1>5, <1>6, <1>7 DEF Inv

LEMMA ScanDoneKeeps ==
  ASSUME Inv, ScanDone
  PROVE  Inv'
<1>1. /\ pc = "scan" /\ pc' \in {"idle", "call"} /\ req' = FirstRequest /\ req = FirstRequest
      /\ UNCHANGED <<hidVars, transferVars, deviceVars, enabled, working>>
  BY DEF ScanDone, Inv, CallInv, Untouched
<1>2. addr = 0 /\ kind = "none" /\ ~sized /\ reports = 0
  BY <1>1 DEF Inv, CallInv, Untouched, Known
<1>3. CallInv'
  BY <1>1, RequestFacts DEF Inv, CallInv, Types, Untouched, WaitsForLatest, PlacesAbove, Unique,
       ClearMeansAnswered, Effect, hidVars, transferVars, deviceVars
<1>4. AddressAgreed' /\ Known'
  BY <1>1, <1>2, RequestFacts DEF Inv, AddressAgreed, Known, Asking, hidVars, deviceVars
<1>5. Paid'
  BY <1>1, <1>2 DEF Inv, Paid, Settled, Asking, hidVars, transferVars, Before
<1> QED BY <1>3, <1>4, <1>5 DEF Inv

\* A call for which the heap has no room leaves what was paid for alone.
LEMMA NoDescriptorsKeeps ==
  ASSUME Inv, NoDescriptors
  PROVE  Inv'
<1>1. /\ pc = "call" /\ pc' = "idle" /\ heap' = HeapAfter(req) /\ req' = req
      /\ UNCHANGED <<scanVars, transfer, serial, inactive, deviceVars, enabled, running, working>>
      /\ UNCHANGED <<addr, kind, sized, reports>>
      /\ undone' = IF req = "SET_PROTOCOL" THEN undone \cup {req} ELSE undone
      /\ undone' \subseteq Settings /\ undone \subseteq undone'
      /\ ~HeapSuffices(req)
  BY DEF NoDescriptors, Failed, Stop, GoesOnAfter, Settings, Inv, CallInv, Types
<1>2. heap \in Nat /\ heap' \in Nat /\ heap' <= heap
  BY <1>1, HeapTaken DEF Inv, CallInv, Types
<1>3. CallInv'
  <2>1. Types' /\ Untouched' /\ WaitsForLatest' /\ Unique' /\ ClearMeansAnswered' /\ Effect'
    BY <1>1, <1>2 DEF Inv, CallInv, Types, Untouched, WaitsForLatest, Unique,
         ClearMeansAnswered, Effect, deviceVars
  <2>2. ASSUME NEW p \in Nat, p >= heap PROVE p >= heap'
    BY <1>2, <2>2
  <2>3. inactive' = inactive /\ inactive \subseteq Nat /\ working' = working /\ serial' = serial
        /\ working.place \in Nat
    BY <1>1 DEF Inv, CallInv, Types, Transfers
  <2>4. PlacesAbove'
    BY <2>2, <2>3 DEF Inv, CallInv, PlacesAbove
  <2> QED BY <2>1, <2>4 DEF CallInv
<1>4. AddressAgreed' /\ Known'
  BY <1>1 DEF Inv, AddressAgreed, Known, Asking, deviceVars
<1>5. Paid'
  <2> SUFFICES ASSUME kind # "none"
               PROVE  (heap' < 4 /\ reports = 0) \/ heap' + 32 + 5 * reports <= HeapUnits
    BY <1>1 DEF Paid, Settled
  <2>1. CASE req = "SET_PROTOCOL"
    <3>1. heap < 4 /\ reports = 0
      BY <1>1, <1>2, <2>1 DEF HeapSuffices, HasData, Settings, Inv, Known, Asking
    <3> QED BY <1>2, <3>1
  <2>2. CASE req # "SET_PROTOCOL"
    <3>1. (heap < 4 /\ reports = 0) \/ heap + 32 + 5 * reports <= HeapUnits
      BY <1>1, <2>2 DEF Inv, Paid, Settled
    <3>2. reports \in Nat /\ HeapUnits \in Nat
      BY HeapAssumption DEF Inv, CallInv, Types
    <3> QED BY <1>2, <3>1, <3>2, StillPaid
  <2> QED BY <2>1, <2>2
<1> QED BY <1>3, <1>4, <1>5 DEF Inv

\* A new transfer is placed below all others.
LEMMA StartKeeps ==
  ASSUME Inv, Start
  PROVE  Inv'
<1>1. /\ pc = "call" /\ pc' = "wait" /\ heap' = HeapAfter(req) /\ serial' = serial + 1
      /\ transfer' = [place |-> heap', serial |-> serial + 1, req |-> req]
      /\ inactive' = inactive \ {heap'}
      /\ working' = working \/ working' = transfer'
      /\ enabled' = TRUE
      /\ UNCHANGED <<scanVars, hidVars, deviceVars, req, running>>
      /\ HeapSuffices(req)
  BY DEF Start
<1>2. /\ heap \in Nat /\ heap' \in Nat /\ heap' = heap - Cost(req) /\ Cost(req) \in {4, 5}
      /\ serial \in Nat /\ answered \subseteq 1 .. serial /\ inactive \subseteq Nat
  BY <1>1, HeapTaken DEF Inv, CallInv, Types, Cost
<1>3. heap' \notin inactive' /\ serial' \notin answered'
  BY <1>1, <1>2 DEF deviceVars
<1>4. working' # NoTransfer /\ working' # transfer' =>
        working' = working /\ working'.place > heap' /\ working'.serial \in 1 .. serial
  <2> SUFFICES ASSUME working # NoTransfer
               PROVE  working.place > heap' /\ working.serial \in 1 .. serial
    BY <1>1
  <2>1. working.place \in Nat /\ working.place >= heap /\ working.serial \in 1 .. serial
    BY DEF Inv, CallInv, Types, Transfers, PlacesAbove
  <2> QED BY <1>2, <2>1
<1>5. Types'
  <2>1. transfer' \in Transfers
    BY <1>1, <1>2 DEF Inv, CallInv, Types, Transfers
  <2>2. answered' \subseteq 1 .. serial'
    BY <1>1, <1>2 DEF deviceVars
  <2>3. heap' \in Nat /\ serial' \in Nat /\ inactive' \subseteq Nat
    <3>1. heap' \in Nat /\ serial' \in Nat
      BY <1>1, <1>2
    <3>2. inactive' \subseteq Nat
      BY <1>1, <1>2
    <3> QED BY <3>1, <3>2
  <2>4. working' \in Transfers
    BY <1>1, <2>1 DEF Inv, CallInv, Types
  <2>5. UNCHANGED <<reports, req, addr, sized, undone, device, stalled, answered>>
    BY <1>1 DEF hidVars, deviceVars
  <2> QED BY <1>1, <2>1, <2>2, <2>3, <2>4, <2>5 DEF Inv, CallInv, Types
<1>6. PlacesAbove'
  <2>1. ASSUME NEW p \in inactive' PROVE p >= heap'
    <3>1. p \in Nat /\ p >= heap
      BY <1>1, <1>2 DEF Inv, CallInv, PlacesAbove
    <3> QED BY <1>2, <3>1
  <2>2. ASSUME working' # NoTransfer
        PROVE  working'.place >= heap' /\ working'.serial \in 1 .. serial'
    <3>1. CASE working' = transfer'
      <4>1. working'.place = heap' /\ working'.serial = serial + 1
        BY <1>1, <3>1
      <4> QED BY <1>1, <1>2, <4>1
    <3>2. CASE working' # transfer'
      <4>1. working'.place \in Nat /\ working'.serial \in Nat
        BY <1>5 DEF Types, Transfers
      <4> QED BY <1>1, <1>2, <1>4, <2>2, <3>2, <4>1
    <3> QED BY <3>1, <3>2
  <2> QED BY <2>1, <2>2 DEF PlacesAbove
<1>7. Unique'
  <2> SUFFICES ASSUME working' # NoTransfer, working' # transfer'
               PROVE  working'.place # heap' /\ working'.serial # serial'
    BY DEF Unique
  <2> QED BY <1>1, <1>2, <1>4
<1>8. CallInv'
  BY <1>1, <1>3, <1>5, <1>6, <1>7 DEF CallInv, Untouched, WaitsForLatest, ClearMeansAnswered, Effect
<1>9. AddressAgreed' /\ Known'
  BY <1>1 DEF Inv, AddressAgreed, Known, Asking, hidVars, deviceVars
<1>10. Paid'
  <2>0. reports \in Nat /\ UNCHANGED <<kind, reports, sized, req>> /\ HeapUnits \in Nat
    BY <1>1, HeapAssumption DEF Inv, CallInv, Types, hidVars
  <2>1. HasData(req)' = HasData(req) /\ Cost(req)' = Cost(req)
    BY <2>0 DEF HasData, Cost
  <2>2. req # "GET_REPORT" => heap' + Before(req) + Cost(req) <= HeapUnits
    <3> SUFFICES ASSUME req # "GET_REPORT"
                 PROVE  heap' + Before(req) + Cost(req) <= HeapUnits
      OBVIOUS
    <3>1. heap + Before(req) <= HeapUnits /\ Before(req) \in Nat
      BY <1>1 DEF Inv, Paid, Before
    <3> QED BY <1>2, <2>0, <3>1
  <2>3. ASSUME kind # "none", req # "SET_PROTOCOL"
        PROVE  heap' + 37 + 5 * reports <= HeapUnits
    <3>1. req = "GET_REPORT" /\ sized
      BY <1>1, <2>3, RequestFacts DEF Inv, CallInv, Types, Known, Asking
    <3>2. Cost(req) = 5 /\ heap >= 5
      BY <1>1, <3>1 DEF Cost, HasData, HeapSuffices
    <3>3. heap < 4 \/ heap + 32 + 5 * reports <= HeapUnits
      BY <1>1, <2>3 DEF Inv, Paid, Settled
    <3>4. 5 * reports \in Nat
      BY <2>0
    <3> HIDE DEF Cost
    <3> QED BY <1>2, <2>0, <3>2, <3>3, <3>4
  <2>4. Before(req)' = Before(req)
    BY <2>0 DEF Before
  <2> QED BY <1>1, <2>0, <2>1, <2>2, <2>3, <2>4 DEF Paid, Settled, Asking
<1> QED BY <1>8, <1>9, <1>10 DEF Inv

-----------------------------------------------------------------------------
\* A call that gave up, or found no room, ends what is asked.
LEMMA TimedOutKeeps ==
  ASSUME Inv, TimedOut
  PROVE  Inv'
<1>1. /\ pc = "wait" /\ pc' = "idle" /\ req' = req /\ transfer' = NoTransfer
      /\ UNCHANGED <<addr, kind, sized, reports>>
      /\ undone' = IF req = "SET_PROTOCOL" THEN undone \cup {req} ELSE undone
      /\ undone' \subseteq Settings /\ undone \subseteq undone'
      /\ UNCHANGED <<heap, serial, inactive, deviceVars, working>>
  BY DEF TimedOut, Failed, Stop, GoesOnAfter, Settings, Inv, CallInv, Types
<1>2. transfer' \in Transfers
  BY <1>1 DEF NoTransfer, Transfers
<1>3. CallInv'
  BY <1>1, <1>2 DEF Inv, CallInv, Types, Untouched, WaitsForLatest, PlacesAbove, Unique,
       ClearMeansAnswered, Effect, deviceVars
<1>4. AddressAgreed' /\ Known'
  BY <1>1 DEF Inv, AddressAgreed, Known, Asking, deviceVars
<1>5. Paid'
  <2> SUFFICES ASSUME kind # "none"
               PROVE  (heap < 4 /\ reports = 0) \/ heap + 32 + 5 * reports <= HeapUnits
    BY <1>1 DEF Paid, Settled
  <2>1. heap \in Nat /\ reports \in Nat /\ HeapUnits \in Nat
    BY HeapAssumption DEF Inv, CallInv, Types
  <2>2. CASE req = "SET_PROTOCOL"
    <3>1. heap + 32 <= HeapUnits /\ reports = 0
      <4>1. "SET_PROTOCOL" # "GET_REPORT" /\ Before("SET_PROTOCOL") = 28 /\ Cost("SET_PROTOCOL") = 4
        BY DEF Before, Cost, HasData, Settings, FirstRequest
      <4>2. heap + 28 + 4 <= HeapUnits
        BY <1>1, <2>2, <4>1 DEF Inv, Paid
      <4>3. reports = 0
        BY <1>1, <2>2 DEF Inv, Known, Asking
      <4> QED BY <2>1, <4>2, <4>3
    <3> QED BY <2>1, <3>1
  <2>3. CASE req # "SET_PROTOCOL"
    <3>1. heap + 37 + 5 * reports <= HeapUnits
      BY <1>1, <2>3 DEF Inv, Paid, Settled
    <3> QED BY <2>1, <3>1
  <2> QED BY <2>2, <2>3
<1> QED BY <1>3, <1>4, <1>5 DEF Inv

\* A call that succeeds was answered, and what follows from the answer is so.
LEMMA CompletedKeeps ==
  ASSUME Inv, Completed
  PROVE  Inv'
<1>1. /\ pc = "wait" /\ transfer.place \in inactive
      /\ working' = NoTransfer /\ transfer' = NoTransfer
      /\ UNCHANGED <<heap, serial, inactive, deviceVars>>
      /\ addr' = IF req = "SET_ADDRESS" THEN 1 ELSE addr
      /\ reports' = IF HandsOn THEN reports + 1 ELSE reports
      /\ Succeeded
  BY DEF Completed, Succeeded
<1>2. serial \in answered
  <2>1. transfer = [place |-> heap, serial |-> serial, req |-> req]
    BY <1>1 DEF Inv, CallInv, WaitsForLatest
  <2> QED BY <1>1, <2>1 DEF Inv, CallInv, ClearMeansAnswered
<1>3. /\ AddressOf(req) = 1 => device.addr = 1
      /\ req = "SET_ADDRESS" => device.addr = 1 \/ "SET_ADDRESS" \in undone'
      /\ req = "SET_CONFIG" => device.configured \/ "SET_CONFIG" \in undone'
      /\ req = "SET_PROTOCOL" => device.boot \/ "SET_PROTOCOL" \in undone'
      /\ undone \subseteq undone' /\ undone' \subseteq Settings
  <2>1. transfer.serial = serial
    BY <1>1 DEF Inv, CallInv, WaitsForLatest
  <2>2. undone' = IF serial \in stalled THEN undone \cup {req} ELSE undone
    BY <1>1, <2>1 DEF Succeeded, GoesOnAfter
  <2>3. undone \subseteq Settings
    BY DEF Inv, CallInv, Types
  <2> QED BY <1>1, <1>2, <2>2, <2>3 DEF Inv, CallInv, Effect
<1>4. \/ /\ req = "SET_CONFIG" /\ sized' = TRUE
         /\ \/ kind' = "none" /\ pc' = "idle" /\ req' = req
            \/ kind' # "none" /\ pc' = "call" /\ req' = "SET_PROTOCOL"
      \/ /\ req \in {"SET_PROTOCOL", "GET_REPORT"} /\ pc' = "idle" /\ req' = req
         /\ UNCHANGED <<kind, sized>>
      \/ /\ req \in Enumeration \ {"SET_CONFIG"} /\ pc' = "call" /\ req' = RequestAfter(req)
         /\ UNCHANGED <<kind, sized>>
  <2>1. req \in Requests
    BY DEF Inv, CallInv, Types
  <2> QED BY <1>1, <2>1, RequestFacts DEF Succeeded, Configured, Stop, Call
<1>5. req' \in Requests /\ pc' \in {"idle", "call"} /\ sized' \in BOOLEAN
  <2>1. sized \in BOOLEAN /\ req \in Requests
    BY DEF Inv, CallInv, Types
  <2> QED BY <1>4, <2>1, NextRequest, RequestFacts
<1>6. CallInv'
  <2>1. addr' \in {0, 1} /\ reports' \in Nat
    BY <1>1 DEF Inv, CallInv, Types
  <2>2. NoTransfer \in Transfers
    BY DEF NoTransfer, Transfers
  <2>3. Types'
    BY <1>1, <1>3, <1>5, <2>1, <2>2 DEF Inv, CallInv, Types, deviceVars
  <2>4. PlacesAbove' /\ Unique'
    BY <1>1 DEF Inv, CallInv, PlacesAbove, Unique
  <2> QED BY <1>1, <1>5, <2>3, <2>4 DEF CallInv, Untouched, WaitsForLatest, ClearMeansAnswered, Effect
<1>7. AddressAgreed'
  <2>1. CASE req = "SET_ADDRESS"
    <3>1. ~sized /\ reports = 0 /\ sized' = sized /\ reports' = reports
      BY <1>1, <1>4, <2>1 DEF Inv, Known, Asking, Enumeration, HandsOn
    <3> QED BY <1>1, <1>3, <2>1, <3>1 DEF AddressAgreed, deviceVars
  <2>2. CASE req = "SET_CONFIG"
    <3>1. addr' = 1 /\ device'.addr = 1
      BY <1>1, <1>3, <2>2 DEF Inv, Known, Asking, Enumeration, FirstRequest, AddressOf, deviceVars
    <3> QED BY <3>1 DEF AddressAgreed
  <2>3. CASE req \notin {"SET_ADDRESS", "SET_CONFIG"}
    <3>1. UNCHANGED <<addr, sized, device>>
      BY <1>1, <1>4, <2>3 DEF deviceVars
    <3>2. CASE reports' = reports
      BY <1>3, <3>1, <3>2 DEF Inv, AddressAgreed
    <3>3. CASE kind # "none"
      BY <3>1, <3>3 DEF Inv, Known, AddressAgreed
    <3> QED BY <1>1, <3>2, <3>3 DEF HandsOn
  <2> QED BY <2>1, <2>2, <2>3
<1>8. Known'
  <2>1. CASE req = "SET_CONFIG"
    <3>1. /\ reports' = 0 /\ sized' /\ addr' = 1 /\ device'.addr = 1
          /\ device'.configured \/ "SET_CONFIG" \in undone'
      BY <1>1, <1>3, <1>4, <2>1, RequestFacts DEF Inv, Known, Asking, HandsOn, deviceVars,
           Enumeration, FirstRequest, AddressOf
    <3> QED BY <1>4, <1>5, <2>1, <3>1, RequestFacts DEF Known, Asking
  <2>2. CASE req \in {"SET_PROTOCOL", "GET_REPORT"}
    <3>1. pc' = "idle" /\ UNCHANGED <<kind, sized, device, addr>>
      BY <1>1, <1>4, <2>2, RequestFacts DEF deviceVars
    <3>2. reports' > 0 => kind # "none"
      BY <1>1 DEF HandsOn, Inv, Known
    <3>3. sized => /\ addr = 1 /\ device.addr = 1
                   /\ device.configured \/ "SET_CONFIG" \in undone'
      BY <1>3 DEF Inv, Known
    <3>4. kind # "none" => "SET_PROTOCOL" \in undone' \/ device.boot
      BY <1>1, <1>3, <2>2 DEF Inv, Known, Asking
    <3>5. kind # "none" => sized
      BY DEF Inv, Known
    <3> QED BY <3>1, <3>2, <3>3, <3>4, <3>5 DEF Known, Asking
  <2>3. CASE req \in Enumeration \ {"SET_CONFIG"}
    <3>1. pc' = "call" /\ req' \in Enumeration /\ UNCHANGED <<kind, sized>>
      BY <1>1, <1>4, <2>3, NextRequest, RequestFacts
    <3>2. kind = "none" /\ ~sized /\ reports = 0
      BY <1>1, <2>3 DEF Inv, Known, Asking
    <3>3. reports' = 0
      BY <1>1, <3>2 DEF HandsOn
    <3>4. req' \notin {FirstRequest, "SET_ADDRESS"} => addr' = 1
      <4>1. CASE req = FirstRequest
        BY <1>4, <2>3, <4>1 DEF RequestAfter, FirstRequest
      <4>2. CASE req = "SET_ADDRESS"
        BY <1>1, <4>2
      <4>3. CASE req \notin {FirstRequest, "SET_ADDRESS"}
        BY <1>1, <2>3, <4>3 DEF Inv, Known, Asking
      <4> QED BY <4>1, <4>2, <4>3
    <3> QED BY <3>1, <3>2, <3>3, <3>4, RequestFacts DEF Known, Asking
  <2> QED BY <1>4, <2>1, <2>2, <2>3
<1>9. Paid'
  <2>0. heap \in Nat /\ reports \in Nat /\ HeapUnits \in Nat
    BY HeapAssumption DEF Inv, CallInv, Types
  <2>1. CASE req = "SET_CONFIG"
    <3>1. /\ "SET_CONFIG" # "GET_REPORT" /\ Before("SET_CONFIG") = 24 /\ Cost("SET_CONFIG") = 4
          /\ Before("SET_PROTOCOL") = 28
      BY DEF Before, Cost, HasData, Settings, FirstRequest
    <3>2. heap + 24 + 4 <= HeapUnits
      BY <1>1, <2>1, <3>1 DEF Inv, Paid
    <3>3. heap + 28 <= HeapUnits
      BY <2>0, <3>2
    <3>4. \/ kind' = "none" /\ pc' = "idle"
          \/ kind' # "none" /\ pc' = "call" /\ req' = "SET_PROTOCOL"
      BY <1>4, <2>1, RequestFacts
    <3> QED BY <1>1, <3>1, <3>3, <3>4 DEF Paid, Settled, Asking
  <2>2. CASE req = "SET_PROTOCOL"
    <3>1. /\ "SET_PROTOCOL" # "GET_REPORT" /\ Before("SET_PROTOCOL") = 28
          /\ Cost("SET_PROTOCOL") = 4
      BY DEF Before, Cost, HasData, Settings, FirstRequest
    <3>2. heap + 28 + 4 <= HeapUnits
      BY <1>1, <2>2, <3>1 DEF Inv, Paid
    <3>3. reports' = 0 /\ pc' = "idle" /\ heap' = heap
      BY <1>1, <1>4, <2>2, RequestFacts DEF Inv, Known, Asking, HandsOn
    <3>4. heap + 32 + 5 * 0 <= HeapUnits
      BY <2>0, <3>2
    <3> QED BY <3>3, <3>4 DEF Paid
  <2>3. CASE req = "GET_REPORT"
    <3>1. pc' = "idle" /\ req' = req /\ kind' = kind /\ heap' = heap
      BY <1>1, <1>4, <2>3, RequestFacts
    <3>2. ASSUME kind # "none" PROVE heap + 32 + 5 * reports' <= HeapUnits
      <4>1. reports' = reports + 1
        BY <1>1, <2>3, <3>2 DEF HandsOn
      <4>2. heap + 37 + 5 * reports <= HeapUnits
        BY <1>1, <2>3, <3>2 DEF Inv, Paid, Settled
      <4> QED BY <2>0, <4>1, <4>2
    <3> QED BY <3>1, <3>2 DEF Paid, Settled
  <2>4. CASE req \in Enumeration \ {"SET_CONFIG"}
    <3>1. pc' = "call" /\ req' = RequestAfter(req) /\ kind' = "none" /\ req # "GET_REPORT"
      BY <1>1, <1>4, <2>4, RequestFacts DEF Inv, Known, Asking
    <3>2. heap + Before(req) + Cost(req) <= HeapUnits
      BY <1>1, <3>1 DEF Inv, Paid
    <3>3. Before(req') = Before(req) + Cost(req) /\ Before(req) \in Nat /\ Cost(req) \in Nat
      <4>1. Before(req') = Before(req) + Cost(req)
        BY <2>4, <3>1, NextRequest
      <4>2. Before(req) \in Nat /\ Cost(req) \in Nat
        BY DEF Before, Cost
      <4> QED BY <4>1, <4>2
    <3>4. heap' + Before(req') <= HeapUnits
      BY <1>1, <2>0, <3>2, <3>3
    <3>5. Before(req)' = Before(req')
      BY DEF Before
    <3> QED BY <3>1, <3>4, <3>5 DEF Paid, Settled
  <2> QED BY <1>4, <2>1, <2>2, <2>3, <2>4
<1> QED BY <1>6, <1>7, <1>8, <1>9 DEF Inv

LEMMA PollKeeps ==
  ASSUME Inv, usb_poll
  PROVE  Inv'
<1>1. /\ pc = "idle" /\ UNCHANGED <<hidVars, transferVars, deviceVars, enabled, working>>
      /\ \/ pc' = "call" /\ req' = "GET_REPORT"
         \/ pc' = pc /\ req' = req
  BY DEF usb_poll, Call
<1>2. CallInv'
  BY <1>1, RequestFacts DEF Inv, CallInv, Types, Untouched, WaitsForLatest, PlacesAbove, Unique,
       ClearMeansAnswered, Effect, hidVars, transferVars, deviceVars
<1>3. AddressAgreed' /\ Known'
  BY <1>1, RequestFacts DEF Inv, AddressAgreed, Known, Asking, hidVars, deviceVars
<1>4. Paid'
  BY <1>1 DEF Inv, Paid, Settled, Asking, hidVars, transferVars
<1> QED BY <1>2, <1>3, <1>4 DEF Inv

\* The controller answers what it is at: when its place or its serial is that
\* of the transfer which is waited for, it is that transfer.
LEMMA AnswerKeeps ==
  ASSUME Inv, Execute \/ Stall
  PROVE  Inv'
<1>1. /\ working # NoTransfer
      /\ inactive' = inactive \cup {working.place}
      /\ answered' = answered \cup {working.serial}
      /\ UNCHANGED <<scanVars, hidVars, heap, transfer, serial, pc, req, enabled, running, working>>
      /\ device.addr = AddressOf(working.req)
  BY DEF Execute, Stall, Answer, CanAnswer
<1>2. /\ working \in Transfers /\ device \in Devices
      /\ working.place \in Nat /\ working.place >= heap /\ working.serial \in 1 .. serial
  BY <1>1 DEF Inv, CallInv, Types, Transfers, PlacesAbove
<1>3. /\ device' \in Devices
      /\ device'.addr = device.addr \/ (device'.addr = 1 /\ working.req = "SET_ADDRESS")
      /\ device.configured => device'.configured
      /\ device.boot => device'.boot
      /\ \/ /\ stalled' = stalled
            /\ working.req = "SET_ADDRESS" => device'.addr = 1
            /\ working.req = "SET_CONFIG" => device'.configured
            /\ working.req = "SET_PROTOCOL" => device'.boot
         \/ stalled' = stalled \cup {working.serial} /\ working.req \in Settings
  <2>1. CASE Execute
    <3>0. device' = Done(working.req) /\ stalled' = stalled
      BY <2>1 DEF Execute
    <3>1. CASE working.req = "SET_ADDRESS"
      <4>1. device' = [device EXCEPT !.addr = 1]
        BY <3>0, <3>1 DEF Done
      <4> QED BY <1>2, <3>0, <3>1, <4>1 DEF Devices
    <3>2. CASE working.req = "SET_CONFIG"
      <4>1. device' = [device EXCEPT !.configured = TRUE]
        BY <3>0, <3>2 DEF Done
      <4> QED BY <1>2, <3>0, <3>2, <4>1 DEF Devices
    <3>3. CASE working.req = "SET_PROTOCOL"
      <4>1. device' = [device EXCEPT !.boot = TRUE]
        BY <3>0, <3>3 DEF Done
      <4> QED BY <1>2, <3>0, <3>3, <4>1 DEF Devices
    <3>4. CASE working.req \notin {"SET_ADDRESS", "SET_CONFIG", "SET_PROTOCOL"}
      <4>1. device' = device
        BY <3>0, <3>4 DEF Done
      <4> QED BY <1>2, <3>0, <3>4, <4>1
    <3> QED BY <3>1, <3>2, <3>3, <3>4
  <2>2. CASE Stall
    BY <1>2, <2>2 DEF Stall
  <2> QED BY <2>1, <2>2
<1>4. ASSUME pc = "wait", working.place = heap \/ working.serial = serial
      PROVE  working.serial = serial /\ working.req = req
  <2>1. working = transfer
    BY <1>1, <1>4 DEF Inv, CallInv, Unique
  <2>2. transfer = [place |-> heap, serial |-> serial, req |-> req]
    BY <1>4 DEF Inv, CallInv, WaitsForLatest
  <2> QED BY <2>1, <2>2
<1>5. Types' /\ Untouched' /\ WaitsForLatest' /\ Unique'
  <2>1. inactive' \subseteq Nat /\ answered' \subseteq 1 .. serial' /\ stalled' \subseteq answered'
    BY <1>1, <1>2, <1>3 DEF Inv, CallInv, Types
  <2> QED BY <1>1, <1>3, <2>1 DEF Inv, CallInv, Types, Untouched, WaitsForLatest, Unique, hidVars
<1>6. PlacesAbove'
  BY <1>1, <1>2 DEF Inv, CallInv, PlacesAbove
<1>7. ClearMeansAnswered'
  BY <1>1, <1>4 DEF Inv, CallInv, ClearMeansAnswered
<1>8. Effect'
  <2>1. CASE pc = "wait" /\ working.serial = serial
    <3>1. working.req = req
      BY <1>4, <2>1
    <3>2. device.addr \in {0, 1} /\ AddressOf(req) = device.addr
      BY <1>1, <1>2, <3>1 DEF Devices
    <3>3. AddressOf(req) = 1 => device'.addr = 1
      BY <1>3, <3>2
    <3>4. serial \in stalled => req \in Settings
      BY <2>1 DEF Inv, CallInv, Types, Effect
    <3> QED BY <1>1, <1>3, <2>1, <3>1, <3>3, <3>4 DEF Effect
  <2>2. CASE pc = "wait" /\ working.serial # serial
    <3>1. serial \in answered' => serial \in answered
      BY <1>1, <2>2
    <3>2. serial \in stalled' <=> serial \in stalled
      BY <1>3, <2>2
    <3> QED BY <1>1, <1>3, <3>1, <3>2 DEF Inv, CallInv, Effect
  <2> QED BY <1>1, <2>1, <2>2 DEF Effect
<1>9. AddressAgreed' /\ Known'
  <2>1. UNCHANGED <<addr, kind, sized, reports, undone, pc, req>> /\ addr \in {0, 1}
    BY <1>1 DEF hidVars, Inv, CallInv, Types
  <2>2. device.addr = 1 => device'.addr = 1
    BY <1>3
  <2>3. AddressAgreed'
    BY <2>1, <2>2 DEF Inv, AddressAgreed
  <2> QED BY <1>3, <2>1, <2>2, <2>3 DEF Inv, Known, Asking
<1>10. Paid'
  <2>1. HasData(req)' = HasData(req)
    BY <1>1 DEF HasData, hidVars
  <2> QED BY <1>1, <2>1 DEF Inv, Paid, Settled, Asking, hidVars, Cost, Before
<1> QED BY <1>5, <1>6, <1>7, <1>8, <1>9, <1>10 DEF Inv, CallInv

LEMMA UnplugKeeps ==
  ASSUME Inv, Unplug
  PROVE  Inv'
<1>1. /\ device' = [device EXCEPT !.present = FALSE]
      /\ UNCHANGED <<scanVars, hidVars, transferVars, answered, stalled, late, pc, req, enabled,
                     running, working>>
  BY DEF Unplug
<1>2. /\ device' \in Devices
      /\ UNCHANGED <<device.addr, device.configured, device.boot>>
  BY <1>1 DEF Inv, CallInv, Types, Devices
<1>3. CallInv'
  BY <1>1, <1>2 DEF Inv, CallInv, Types, Untouched, WaitsForLatest, PlacesAbove, Unique,
       ClearMeansAnswered, Effect, hidVars, transferVars
<1>4. AddressAgreed' /\ Known'
  BY <1>1, <1>2 DEF Inv, AddressAgreed, Known, Asking, hidVars
<1>5. Paid'
  <2>1. HasData(req)' = HasData(req)
    BY <1>1 DEF HasData, hidVars
  <2> QED BY <1>1, <2>1 DEF Inv, Paid, Settled, Asking, hidVars, transferVars, Cost, Before
<1> QED BY <1>3, <1>4, <1>5 DEF Inv

-----------------------------------------------------------------------------
LEMMA InitInv == ASSUME Init PROVE Inv
<1>1. NoTransfer \in Transfers /\ NoDevice \in Devices
  BY DEF NoTransfer, Transfers, NoDevice, Devices
<1>2. CallInv
  BY <1>1, HeapAssumption, RequestFacts DEF Init, CallInv, Types, Untouched, WaitsForLatest,
       PlacesAbove, Unique, ClearMeansAnswered, Effect
<1>3. AddressAgreed /\ Known
  BY RequestFacts DEF Init, AddressAgreed, Known, Asking
<1>4. Paid
  BY HeapAssumption DEF Init, Paid, Settled, Before
<1> QED BY <1>2, <1>3, <1>4 DEF Inv

LEMMA NextKeeps == ASSUME Inv, [Next]_vars PROVE Inv'
<1>1. CASE Scan BY <1>1, ScanKeeps
<1>2. CASE ScanDone BY <1>2, ScanDoneKeeps
<1>3. CASE NoDescriptors BY <1>3, NoDescriptorsKeeps
<1>4. CASE Start BY <1>4, StartKeeps
<1>5. CASE Completed BY <1>5, CompletedKeeps
<1>6. CASE TimedOut BY <1>6, TimedOutKeeps
<1>7. CASE usb_poll BY <1>7, PollKeeps
<1>8. CASE Execute \/ Stall BY <1>8, AnswerKeeps
<1>9. CASE Unplug BY <1>9, UnplugKeeps
<1>10. CASE UNCHANGED vars
  <2>1. UNCHANGED <<hidVars, transferVars, deviceVars, pc, req, working>>
    BY <1>10 DEF vars
  <2>2. HasData(req)' = HasData(req)
    BY <2>1 DEF HasData, hidVars
  <2>3. CallInv'
    BY <2>1 DEF Inv, CallInv, Types, Untouched, WaitsForLatest, PlacesAbove, Unique,
         ClearMeansAnswered, Effect, hidVars, transferVars, deviceVars
  <2>4. AddressAgreed' /\ Known'
    BY <2>1 DEF Inv, AddressAgreed, Known, Asking, hidVars, deviceVars
  <2>5. Paid'
    BY <2>1, <2>2 DEF Inv, Paid, Settled, Asking, Cost, Before, hidVars, transferVars
  <2> QED BY <2>3, <2>4, <2>5 DEF Inv
<1> QED BY <1>1, <1>2, <1>3, <1>4, <1>5, <1>6, <1>7, <1>8, <1>9, <1>10 DEF Next, Kernel

\* The protocol with the controller holds for every heap, bus and device.
THEOREM CallsAreKept == Spec => []Inv
<1>1. Init => Inv
  BY InitInv
<1>2. Inv /\ [Next]_vars => Inv'
  BY NextKeeps
<1> QED BY <1>1, <1>2, PTL DEF Spec

\* A call succeeds only when it was itself answered (ehci_control_transfer,
\* wait_qtd_complete): late answers to earlier calls are never taken for it.
THEOREM AnswersAreOwn == Spec => OwnAnswer
<1>1. Inv /\ [Next]_vars => [enabled /\ ~enabled' => transfer.serial \in answered]_vars
  <2> SUFFICES ASSUME Inv, Next, enabled, ~enabled'
               PROVE  transfer.serial \in answered
    OBVIOUS
  <2>1. Completed
    BY DEF Next, Kernel, Scan, ScanDone, NoDescriptors, Start, TimedOut, usb_poll, Execute, Stall,
           Answer, Unplug
  <2>2. pc = "wait" /\ transfer.place \in inactive
    BY <2>1 DEF Completed
  <2>3. transfer = [place |-> heap, serial |-> serial, req |-> req]
    BY <2>2 DEF Inv, CallInv, WaitsForLatest
  <2> QED BY <2>2, <2>3 DEF Inv, CallInv, ClearMeansAnswered
<1> QED BY <1>1, CallsAreKept, PTL DEF Spec, OwnAnswer

\* usb_poll asks at the address that the device took in usb_init; if the device
\* refused it (a STALL, which ehci_control_transfer takes for done), usb_init
\* went no further and nothing was handed on.
THEOREM AddressesAgree == Spec => []AddressAgreed
<1>1. Inv => AddressAgreed
  BY DEF Inv
<1> QED BY <1>1, CallsAreKept, PTL

\* Reports have the boot layout that usb_hid.c reads, or the request for it has
\* timed out or was refused, which usb_init does not notice.
THEOREM LayoutIsKnown == Spec => []LayoutKnown
<1>1. Inv => LayoutKnown
  BY DEF Inv, CallInv, Types, Known, Asking, LayoutKnown
<1> QED BY <1>1, CallsAreKept, PTL

\* The heap that no descriptor returns to bounds the reports of a kernel's life.
THEOREM ReportsAreBounded == Spec => []ReportsBounded
<1>1. Inv => ReportsBounded
  <2> SUFFICES ASSUME Inv, reports > 0
               PROVE  32 + 5 * reports <= HeapUnits
    BY DEF ReportsBounded
  <2>1. heap \in Nat /\ reports \in Nat /\ HeapUnits \in Nat
    BY HeapAssumption DEF Inv, CallInv, Types
  <2>2. Settled
    BY <2>1 DEF Inv, Known, Settled
  <2>3. heap + 32 + 5 * reports <= HeapUnits \/ heap + 37 + 5 * reports <= HeapUnits
    BY <2>1, <2>2 DEF Inv, Paid
  <2> QED BY <2>1, <2>3
<1> QED BY <1>1, CallsAreKept, PTL

-----------------------------------------------------------------------------
(* The scan: what lies before the place it is at has been counted.         *)

\* Where the scan is.
ScanTypes ==
  /\ machine \in Machines
  /\ at \in [dev : 0 .. Devs, func : 0 .. Funcs - 1]
  /\ controller_count \in 0 .. MaxControllers /\ ehci_count \in 0 .. controller_count

Earlier(p) == p.dev < at.dev \/ (p.dev = at.dev /\ p.func < at.func)
Met == {p \in Reachable : Earlier(p)}

\* Behind the first function of a device that has none nothing is visited.
InReach ==
  /\ at.dev = Devs => at.func = 0
  /\ at.func # 0 => [dev |-> at.dev, func |-> 0] \in DOMAIN machine.bus

Controllers == {"uhci", "ehci", "ehci_unusable"}

CountedSoFar ==
  /\ pc = "scan" => /\ InReach
                    /\ controller_count = Among(Met, Controllers)
                    /\ ehci_count = Among(Met, {"ehci"})
  /\ ControllersMet

ScanInv == ScanTypes /\ CountedSoFar

\* The functions of a bus can be counted.
LEMMA BusFinite ==
  ASSUME ScanTypes
  PROVE  /\ IsFiniteSet(DOMAIN machine.bus)
         /\ \A p \in DOMAIN machine.bus :
              /\ p = [dev |-> p.dev, func |-> p.func]
              /\ p.dev \in 0 .. Devs - 1 /\ p.func \in 0 .. Funcs - 1
<1>1. DOMAIN machine.bus \subseteq Places /\ Devs \in Nat /\ Funcs \in Nat
  BY BusAssumption DEF ScanTypes
<1> DEFINE D == 0 .. Devs - 1
           F == 0 .. Funcs - 1
           number == [p \in DOMAIN machine.bus |-> <<p.dev, p.func>>]
<1>2. IsFiniteSet(D) /\ IsFiniteSet(F)
  BY <1>1, FS_Interval
<1>3. IsFiniteSet(D \X F)
  <2> HIDE DEF D, F
  <2> QED BY <1>2, FS_Product
<1>4. \A p \in DOMAIN machine.bus : <<p.dev, p.func>> \in D \X F
  BY <1>1 DEF Places
<1>5. ASSUME NEW p \in DOMAIN machine.bus, NEW q \in DOMAIN machine.bus, number[p] = number[q]
      PROVE  p = q
  BY <1>1, <1>5 DEF Places
<1>6. IsFiniteSet(DOMAIN machine.bus)
  <2>1. number \in Injection(DOMAIN machine.bus, D \X F)
    <3> HIDE DEF D, F
    <3> QED BY <1>4, <1>5 DEF Injection, IsInjective
  <2> HIDE DEF number, D, F
  <2> QED BY <1>3, <2>1, FS_Injection
<1>7. \A p \in DOMAIN machine.bus :
        /\ p = [dev |-> p.dev, func |-> p.func]
        /\ p.dev \in 0 .. Devs - 1 /\ p.func \in 0 .. Funcs - 1
  BY <1>1 DEF Places
<1> QED BY <1>6, <1>7

\* One more place counts for what is there, while the table has room.
LEMMA OneMore ==
  ASSUME ScanTypes, NEW S, NEW P \in SUBSET (DOMAIN machine.bus),
         NEW p \in DOMAIN machine.bus, p \notin P
  PROVE  /\ Among(P, S) \in 0 .. MaxControllers
         /\ Among(P \cup {p}, S) = IF machine.bus[p] \in S THEN Counted(Among(P, S))
                                   ELSE Among(P, S)
<1> DEFINE Of(Q) == {q \in Q : machine.bus[q] \in S}
           n == Cardinality(Of(P))
<1>1. MaxControllers \in Nat
  BY BusAssumption
<1>2. IsFiniteSet(Of(P)) /\ n \in Nat
  <2>1. IsFiniteSet(Of(P))
    BY BusFinite, FS_Subset
  <2> QED BY <2>1, FS_CardinalityType
<1>3. Among(P, S) = UpTo(MaxControllers, n) /\ Among(P \cup {p}, S)
        = UpTo(MaxControllers, Cardinality(Of(P \cup {p})))
  BY DEF Among
<1>4. Among(P, S) \in 0 .. MaxControllers
  <2> HIDE DEF n
  <2> QED BY <1>1, <1>2, <1>3 DEF UpTo
<1>5. CASE machine.bus[p] \in S
  <2>1. Of(P \cup {p}) = Of(P) \cup {p} /\ p \notin Of(P)
    BY <1>5
  <2> HIDE DEF Of
  <2>2. Cardinality(Of(P) \cup {p}) = n + 1
    BY <1>2, <2>1, FS_AddElement
  <2>3. UpTo(MaxControllers, n + 1) = Counted(UpTo(MaxControllers, n))
    <3> HIDE DEF n
    <3> QED BY <1>1, <1>2 DEF UpTo, Counted
  <2> QED BY <1>3, <1>4, <1>5, <2>1, <2>2, <2>3
<1>6. CASE machine.bus[p] \notin S
  <2>1. Of(P \cup {p}) = Of(P)
    BY <1>6
  <2> QED BY <1>3, <1>4, <1>6, <2>1
<1> QED BY <1>5, <1>6

\* The place behind another one.
LEMMA NextPlace ==
  ASSUME ScanTypes, InReach, at.dev < Devs, at' = NextFunc,
         NEW p \in DOMAIN machine.bus, UNCHANGED machine
  PROVE  /\ Earlier(p)' <=> Earlier(p) \/ p = at
         /\ at' \in [dev : 0 .. Devs, func : 0 .. Funcs - 1]
         /\ at'.dev = Devs => at'.func = 0
         /\ at'.func # 0 => at'.dev = at.dev
<1>1. /\ p = [dev |-> p.dev, func |-> p.func]
      /\ p.dev \in 0 .. Devs - 1 /\ p.func \in 0 .. Funcs - 1
  BY BusFinite
<1>2. /\ at = [dev |-> at.dev, func |-> at.func] /\ Devs \in Nat /\ Funcs \in Nat \ {0}
      /\ at.dev \in 0 .. Devs - 1 /\ at.func \in 0 .. Funcs - 1
  BY BusAssumption DEF ScanTypes
<1>3. p = at <=> p.dev = at.dev /\ p.func = at.func
  BY <1>1, <1>2
<1>4. CASE at.func + 1 < Funcs
  <2>1. at'.dev = at.dev /\ at'.func = at.func + 1 /\ at' = [dev |-> at.dev, func |-> at.func + 1]
    BY <1>2, <1>4 DEF NextFunc
  <2> QED BY <1>1, <1>2, <1>3, <1>4, <2>1 DEF Earlier
<1>5. CASE ~(at.func + 1 < Funcs)
  <2>1. at' = [dev |-> at.dev + 1, func |-> 0] /\ at'.dev = at.dev + 1 /\ at'.func = 0
    BY <1>5 DEF NextFunc
  <2>2. at.func = Funcs - 1
    BY <1>2, <1>5
  <2> QED BY <1>1, <1>2, <1>3, <2>1, <2>2 DEF Earlier
<1> QED BY <1>4, <1>5

LEMMA ScanCounts ==
  ASSUME ScanInv, Scan
  PROVE  ScanInv'
<1>1. /\ pc = "scan" /\ pc' = "scan" /\ machine' = machine /\ at.dev < Devs
      /\ machine \in Machines /\ InReach
      /\ controller_count = Among(Met, Controllers) /\ ehci_count = Among(Met, {"ehci"})
  BY DEF Scan, ScanInv, ScanTypes, CountedSoFar
<1>2. Devs \in Nat /\ Funcs \in Nat \ {0} /\ MaxControllers \in Nat
  BY BusAssumption
<1>3. /\ at.dev \in 0 .. Devs - 1 /\ at.func \in 0 .. Funcs - 1
      /\ at = [dev |-> at.dev, func |-> at.func]
  BY <1>1, <1>2 DEF ScanInv, ScanTypes
<1>4. Met \subseteq DOMAIN machine.bus /\ Reachable' = Reachable /\ at \notin Met
  BY <1>1, <1>3 DEF Met, Reachable, Earlier
<1>5. CASE at \in DOMAIN machine.bus
  <2>1. at' = NextFunc /\ usb_device_cb(machine.bus[at])
    BY <1>5 DEF Scan
  <2>2. [dev |-> at.dev, func |-> 0] \in DOMAIN machine.bus
    BY <1>1, <1>3, <1>5 DEF InReach
  <2>3. /\ at' \in [dev : 0 .. Devs, func : 0 .. Funcs - 1]
        /\ at'.dev = Devs => at'.func = 0
        /\ at'.func # 0 => at'.dev = at.dev
        /\ \A p \in DOMAIN machine.bus : Earlier(p)' <=> Earlier(p) \/ p = at
    BY <1>1, <1>5, <2>1, NextPlace DEF ScanInv
  <2>4. Met' = Met \cup {at}
    <3>1. at \in Reachable
      BY <1>5, <2>2 DEF Reachable
    <3> QED BY <1>4, <2>3, <3>1 DEF Met, Reachable
  <2>5. /\ Among(Met, Controllers) \in 0 .. MaxControllers
        /\ Among(Met \cup {at}, Controllers)
             = IF machine.bus[at] \in Controllers THEN Counted(controller_count) ELSE controller_count
        /\ Among(Met \cup {at}, {"ehci"})
             = IF machine.bus[at] \in {"ehci"} THEN Counted(ehci_count) ELSE ehci_count
    BY <1>1, <1>4, <1>5, OneMore DEF ScanInv
  <2>6. \A P, S : Among(P, S)' = Among(P', S)
    BY <1>1 DEF Among
  <2>7. machine.bus[at] \in {"other", "uhci", "ehci", "ehci_unusable"}
    BY <1>1, <1>5, BusAssumption
  <2>8. /\ controller_count' = IF machine.bus[at] \in Controllers THEN Counted(controller_count)
                               ELSE controller_count
        /\ ehci_count' = IF machine.bus[at] \in {"ehci"} THEN Counted(ehci_count) ELSE ehci_count
    BY <2>1, <2>7 DEF usb_device_cb, ehci_init, Counted, Controllers
  <2>9. controller_count' \in 0 .. MaxControllers /\ ehci_count' \in 0 .. controller_count'
    BY <1>2, <2>8 DEF ScanInv, ScanTypes, Counted, Controllers
  <2>10. /\ controller_count' = Among(Met, Controllers)' /\ ehci_count' = Among(Met, {"ehci"})'
    <3>1. Among(Met, Controllers)' = Among(Met \cup {at}, Controllers)
      BY <1>1, <2>4 DEF Among, Controllers
    <3>2. Among(Met, {"ehci"})' = Among(Met \cup {at}, {"ehci"})
      BY <1>1, <2>4 DEF Among
    <3> QED BY <2>5, <2>8, <3>1, <3>2
  <2>11. InReach'
    BY <1>1, <2>2, <2>3 DEF InReach
  <2> QED BY <1>1, <2>3, <2>9, <2>10, <2>11 DEF ScanInv, ScanTypes, CountedSoFar, ControllersMet
<1>6. CASE at \notin DOMAIN machine.bus
  <2>1. at' = AfterMissing /\ UNCHANGED <<controller_count, ehci_count>>
    BY <1>6 DEF Scan
  <2>2. /\ at' \in [dev : 0 .. Devs, func : 0 .. Funcs - 1] /\ InReach'
        /\ \A p \in Reachable : Earlier(p)' <=> Earlier(p)
    <3>1. CASE at.func = 0
      <4>1. at' = [dev |-> at.dev + 1, func |-> 0] /\ at'.dev = at.dev + 1 /\ at'.func = 0
        BY <2>1, <3>1 DEF AfterMissing, NextDev
      <4>2. ASSUME NEW p \in Reachable PROVE p.dev # at.dev
        BY <1>3, <1>6, <3>1 DEF Reachable
      <4>3. ASSUME NEW p \in Reachable PROVE p.dev \in Nat /\ p.func \in Nat
        <5>1. p.dev \in 0 .. Devs - 1 /\ p.func \in 0 .. Funcs - 1
          BY BusFinite DEF Reachable, ScanInv
        <5> QED BY <1>2, <5>1
      <4> QED BY <1>2, <1>3, <3>1, <4>1, <4>2, <4>3 DEF Earlier, InReach
    <3>2. CASE at.func # 0
      <4>1. at' = NextFunc
        BY <2>1, <3>2 DEF AfterMissing
      <4>2. [dev |-> at.dev, func |-> 0] \in DOMAIN machine.bus
        BY <1>1, <3>2 DEF InReach
      <4>3. /\ at' \in [dev : 0 .. Devs, func : 0 .. Funcs - 1]
            /\ at'.dev = Devs => at'.func = 0
            /\ at'.func # 0 => at'.dev = at.dev
            /\ \A p \in DOMAIN machine.bus : Earlier(p)' <=> Earlier(p) \/ p = at
        BY <1>1, <4>1, <4>2, NextPlace DEF ScanInv
      <4> QED BY <1>1, <1>6, <4>2, <4>3 DEF InReach, Reachable
    <3> QED BY <3>1, <3>2
  <2>3. Met' = Met
    BY <1>4, <2>2 DEF Met
  <2>4. Among(Met, Controllers)' = Among(Met, Controllers)
        /\ Among(Met, {"ehci"})' = Among(Met, {"ehci"})
    BY <1>1, <2>3 DEF Among, Controllers
  <2> QED BY <1>1, <2>1, <2>2, <2>4 DEF ScanInv, ScanTypes, CountedSoFar, ControllersMet
<1> QED BY <1>5, <1>6

\* Every other step leaves the tables alone; at the end all has been met.
LEMMA ScanInvKept ==
  ASSUME ScanInv, [Next]_vars
  PROVE  ScanInv'
<1>1. CASE Scan
  BY <1>1, ScanCounts
<1>2. CASE ScanDone
  <2>1. pc = "scan" /\ pc' # "scan" /\ at.dev = Devs /\ UNCHANGED scanVars
    BY <1>2 DEF ScanDone
  <2>2. Met = Reachable
    <3>1. ASSUME NEW p \in Reachable PROVE Earlier(p)
      <4>1. p.dev \in 0 .. Devs - 1
        BY BusFinite DEF Reachable, ScanInv
      <4> QED BY <2>1, <4>1, BusAssumption DEF Earlier
    <3> QED BY <3>1 DEF Met
  <2>3. /\ controller_count = Among(Reachable, Controllers)
        /\ ehci_count = Among(Reachable, {"ehci"})
    BY <2>1, <2>2 DEF ScanInv, CountedSoFar
  <2> QED BY <2>1, <2>3 DEF scanVars, ScanInv, ScanTypes, CountedSoFar, ControllersMet, Among,
                            Reachable, Controllers
<1>3. CASE UNCHANGED scanVars /\ (pc' = "scan" <=> pc = "scan")
  BY <1>3 DEF scanVars, ScanInv, ScanTypes, CountedSoFar, InReach, ControllersMet, Among,
              Reachable, Met, Earlier
<1>4. CASE NoDescriptors \/ Start \/ Completed \/ TimedOut \/ usb_poll
  <2>1. UNCHANGED scanVars /\ pc # "scan" /\ pc' # "scan"
    <3>1. CASE NoDescriptors \/ TimedOut
      BY <3>1 DEF NoDescriptors, TimedOut, Failed, Stop
    <3>2. CASE Start
      BY <3>2 DEF Start
    <3>3. CASE Completed
      BY <3>3 DEF Completed, Succeeded, Configured, Stop, Call
    <3>4. CASE usb_poll
      BY <3>4 DEF usb_poll, Call
    <3> QED BY <1>4, <3>1, <3>2, <3>3, <3>4
  <2> QED BY <1>3, <2>1
<1>5. CASE Execute \/ Stall \/ Unplug \/ UNCHANGED vars
  BY <1>3, <1>5 DEF Execute, Stall, Answer, Unplug, vars
<1> QED BY <1>1, <1>2, <1>4, <1>5 DEF Next, Kernel

LEMMA ScanInvHolds == Spec => []ScanInv
<1>1. ASSUME Init PROVE ScanInv
  <2>1. Devs \in Nat /\ Funcs \in Nat \ {0} /\ MaxControllers \in Nat
    BY BusAssumption
  <2>2. ScanTypes
    BY <1>1, <2>1 DEF Init, ScanTypes
  <2>3. Met = {}
    <3> SUFFICES ASSUME NEW p \in Reachable, Earlier(p) PROVE FALSE
      BY DEF Met
    <3>1. p.dev \in 0 .. Devs - 1 /\ p.func \in 0 .. Funcs - 1
      BY <2>2, BusFinite DEF Reachable
    <3>2. at.dev = 0 /\ at.func = 0
      BY <1>1 DEF Init
    <3> QED BY <2>1, <3>1, <3>2 DEF Earlier
  <2>4. ASSUME NEW S PROVE Among({}, S) = 0
    <3>1. {p \in {} : machine.bus[p] \in S} = {}
      OBVIOUS
    <3> QED BY <2>1, <3>1, FS_EmptySet DEF Among, UpTo
  <2>5. Among(Met, Controllers) = 0 /\ Among(Met, {"ehci"}) = 0
    BY <2>3, <2>4
  <2> QED BY <1>1, <2>2, <2>5 DEF Init, ScanInv, CountedSoFar, InReach, ControllersMet
<1>2. ScanInv /\ [Next]_vars => ScanInv'
  BY ScanInvKept
<1> QED BY <1>1, <1>2, PTL DEF Spec

\* pci_scan_bus0 and usb_device_cb: on every bus the tables hold the USB
\* functions that can be reached, as many as fit.
THEOREM ControllersAreMet == Spec => []ControllersMet
<1>1. ScanInv => ControllersMet
  BY DEF ScanInv, CountedSoFar
<1> QED BY <1>1, ScanInvHolds, PTL

-----------------------------------------------------------------------------
(* The types of everything, and what the kind of the device says.          *)

\* Every report was asked for by a call of its own.
CallsCounted ==
  /\ heap <= HeapUnits /\ inactive \subseteq 0 .. HeapUnits
  /\ working.place <= HeapUnits
  /\ reports <= serial /\ (pc = "wait" => reports < serial)
  /\ late \subseteq answered
  /\ enabled \in BOOLEAN /\ running \in BOOLEAN

\* The kind is what the configuration says, when all of it was read.
KindRight ==
  /\ kind \in {"none", "keyboard", "mouse"}
  /\ kind # "none" /\ machine.config.len <= BufferLen => kind = LastBoot

HidInv == CallsCounted /\ KindRight

\* An element of a sequence over S is in S.
LEMMA ElementOf ==
  ASSUME NEW S, NEW s \in Seq(S)
  PROVE  \A i \in DOMAIN s : s[i] \in S
  OBVIOUS

\* Two known fields leave one reading.
LEMMA OnlyReading ==
  ASSUME NEW b, NEW p
  PROVE  [boot : {b}, protocol : {p}] = {[boot |-> b, protocol |-> p]}
<1>1. ASSUME NEW r \in [boot : {b}, protocol : {p}]
      PROVE  r = [boot |-> b, protocol |-> p]
  BY SMT
<1>2. [boot |-> b, protocol |-> p] \in [boot : {b}, protocol : {p}]
  BY SMT
<1> QED BY <1>1, <1>2

\* Of a configuration that fits the buffer every interface is read as it is.
LEMMA ReadWhole ==
  ASSUME machine \in Machines, machine.config.len <= BufferLen
  PROVE  /\ Read = DOMAIN machine.config.interfaces /\ Read \subseteq Nat \ {0}
         /\ \A j \in Read, boot \in BOOLEAN :
              ReadAs(j, boot) = IF machine.config.interfaces[j].boot = boot
                                  THEN {[boot |-> boot,
                                         protocol |-> machine.config.interfaces[j].protocol]}
                                  ELSE {}
<1> DEFINE all == machine.config.interfaces
<1>1. /\ machine.config.len \in Nat /\ BufferLen \in Nat
      /\ all \in Seq([at : Nat, boot : BOOLEAN, protocol : 0 .. 255])
      /\ \A j \in DOMAIN all : all[j].at + 9 <= machine.config.len
  BY ConfigAssumption
<1>2. TotalLen = machine.config.len
  BY <1>1 DEF TotalLen
<1>3. DOMAIN all \subseteq Nat \ {0}
  BY <1>1
<1>4. ASSUME NEW j \in DOMAIN all
      PROVE  /\ all[j].at \in Nat /\ all[j].boot \in BOOLEAN
             /\ all[j].at + 2 < TotalLen /\ all[j].at + 6 < TotalLen /\ all[j].at + 7 < TotalLen
  <2>1. all[j] \in [at : Nat, boot : BOOLEAN, protocol : 0 .. 255]
    <3> HIDE DEF all
    <3> QED BY <1>1, ElementOf
  <2>2. all[j].at + 9 <= TotalLen
    BY <1>1, <1>2
  <2> HIDE DEF all
  <2> QED BY <1>1, <1>2, <2>1, <2>2
<1>5. Read = DOMAIN all
  BY <1>4 DEF Read
<1>6. ASSUME NEW j \in DOMAIN all, NEW boot \in BOOLEAN
      PROVE  ReadAs(j, boot) = IF all[j].boot = boot
                                 THEN {[boot |-> boot, protocol |-> all[j].protocol]} ELSE {}
  <2>1. Readings(all[j]) = [boot : {all[j].boot}, protocol : {all[j].protocol}]
    BY <1>4 DEF Readings
  <2> DEFINE i == all[j]
  <2>2. ReadAs(j, boot) = {r \in [boot : {i.boot}, protocol : {i.protocol}] : r.boot = boot}
    BY <2>1 DEF ReadAs
  <2> HIDE DEF i
  <2>3. [boot : {i.boot}, protocol : {i.protocol}] = {[boot |-> i.boot, protocol |-> i.protocol]}
    BY OnlyReading
  <2>4. [boot |-> i.boot, protocol |-> i.protocol].boot = i.boot
    OBVIOUS
  <2>5. ReadAs(j, boot) = IF i.boot = boot
                            THEN {[boot |-> boot, protocol |-> i.protocol]} ELSE {}
    BY <2>2, <2>3, <2>4
  <2> QED BY <2>5 DEF i
<1> QED BY <1>3, <1>5, <1>6

\* Then the kind that usb_init concludes is that of the last boot interface.
LEMMA ParsedRight ==
  ASSUME machine \in Machines, machine.config.len <= BufferLen, NEW k \in Parsed, k # "none"
  PROVE  k = LastBoot
<1> DEFINE all == machine.config.interfaces
           boots == {j \in DOMAIN all : all[j].boot}
<1>1. /\ Read = DOMAIN all /\ Read \subseteq Nat \ {0}
      /\ \A j \in Read : all[j].boot \in BOOLEAN
  <2>1. all \in Seq([at : Nat, boot : BOOLEAN, protocol : 0 .. 255])
    BY ConfigAssumption
  <2>2. \A j \in DOMAIN all : all[j] \in [at : Nat, boot : BOOLEAN, protocol : 0 .. 255]
    <3> HIDE DEF all
    <3> QED BY <2>1, ElementOf
  <2>3. \A j \in DOMAIN all : all[j].boot \in BOOLEAN
    <3> HIDE DEF all
    <3> QED BY <2>2
  <2> QED BY <2>3, ReadWhole
<1>2. PICK j \in Read : NoneBehind(j) /\ \E r \in ReadAs(j, TRUE) : k = KindOf(r)
  BY DEF Parsed
<1>3. PICK r \in ReadAs(j, TRUE) : k = KindOf(r)
  BY <1>2
<1>4. all[j].boot = TRUE /\ r = [boot |-> TRUE, protocol |-> all[j].protocol]
  BY <1>3, ReadWhole
<1>5. k = KindOf(all[j])
  BY <1>3, <1>4 DEF KindOf
<1>6. \A i \in boots : i <= j
  <2> SUFFICES ASSUME NEW i \in boots, i > j PROVE FALSE
    BY <1>1
  <2>1. ReadAs(i, FALSE) # {}
    BY <1>1, <1>2 DEF NoneBehind
  <2>2. all[i].boot = FALSE
    BY <1>1, <2>1, ReadWhole
  <2> QED BY <2>2
<1>7. j \in boots /\ boots \subseteq Nat
  BY <1>1, <1>4
<1> DEFINE c == CHOOSE i \in boots : \A b \in boots : b <= i
<1> HIDE DEF boots
<1>8. c = j
  <2>1. c \in boots /\ \A b \in boots : b <= c
    BY <1>6, <1>7
  <2> HIDE DEF c
  <2>2. j <= c /\ c <= j /\ c \in Nat /\ j \in Nat
    BY <1>6, <1>7, <2>1
  <2> QED BY <2>2
<1>9. LastBoot = KindOf(all[c])
  <2>1. LastBoot = IF boots = {} THEN "none" ELSE KindOf(all[c])
    BY DEF LastBoot, boots
  <2> HIDE DEF c
  <2> QED BY <1>7, <2>1
<1> HIDE DEF c
<1> QED BY <1>5, <1>8, <1>9

\* A step that leaves the device's record and the calls alone.
LEMMA HidUntouched ==
  ASSUME HidInv, UNCHANGED <<machine, hidVars, transferVars, answered, late, enabled, working>>,
         running' \in BOOLEAN, pc' = "wait" => pc = "wait"
  PROVE  HidInv'
BY DEF HidInv, CallsCounted, KindRight, hidVars, transferVars, LastBoot

LEMMA HidKept ==
  ASSUME Inv, ScanInv, HidInv, [Next]_vars
  PROVE  HidInv'
<1>1. /\ heap \in Nat /\ serial \in Nat /\ reports \in Nat /\ HeapUnits \in Nat
      /\ working \in Transfers /\ machine \in Machines
  BY HeapAssumption DEF Inv, CallInv, Types, ScanInv, ScanTypes
<1>2. CASE Scan
  <2>1. running' \in BOOLEAN
    BY <1>2 DEF Scan, usb_device_cb, ehci_init, HidInv, CallsCounted
  <2> QED BY <1>2, <2>1, HidUntouched DEF Scan
<1>3. CASE ScanDone \/ usb_poll \/ Unplug \/ UNCHANGED vars
  <2>1. running' \in BOOLEAN /\ UNCHANGED machine
    BY <1>3 DEF ScanDone, usb_poll, Unplug, vars, scanVars, HidInv, CallsCounted
  <2> QED BY <1>3, <2>1, HidUntouched DEF ScanDone, usb_poll, Unplug, Call, vars, scanVars, deviceVars
<1>4. CASE NoDescriptors \/ TimedOut
  <2>1. /\ UNCHANGED <<machine, kind, reports, serial, inactive, working, answered, late, enabled, running>>
        /\ pc' = "idle"
    BY <1>4 DEF NoDescriptors, TimedOut, Failed, Stop, scanVars, deviceVars
  <2>2. heap' <= HeapUnits
    <3>1. heap' = HeapAfter(req) \/ heap' = heap
      BY <1>4 DEF NoDescriptors, TimedOut
    <3>2. HeapAfter(req) \in Nat /\ HeapAfter(req) <= heap
      BY <1>1, HeapTaken
    <3> QED BY <1>1, <3>1, <3>2 DEF HidInv, CallsCounted
  <2> QED BY <2>1, <2>2 DEF HidInv, CallsCounted, KindRight, LastBoot
<1>5. CASE Start
  <2>1. /\ heap' = HeapAfter(req) /\ serial' = serial + 1
        /\ inactive' \subseteq inactive /\ enabled' = TRUE
        /\ transfer' = [place |-> heap', serial |-> serial + 1, req |-> req]
        /\ working' = working \/ working' = transfer'
        /\ UNCHANGED <<machine, kind, reports, answered, late, running>>
    BY <1>5 DEF Start, scanVars, hidVars, deviceVars
  <2>2. heap' \in Nat /\ heap' <= HeapUnits
    <3>1. HeapAfter(req) \in Nat /\ HeapAfter(req) <= heap
      BY <1>1, HeapTaken
    <3> QED BY <1>1, <2>1, <3>1 DEF HidInv, CallsCounted
  <2>3. working'.place <= HeapUnits
    BY <2>1, <2>2 DEF HidInv, CallsCounted
  <2>4. reports' <= serial' /\ reports' < serial'
    BY <1>1, <2>1 DEF HidInv, CallsCounted
  <2>5. inactive' \subseteq 0 .. HeapUnits
    BY <2>1 DEF HidInv, CallsCounted
  <2> QED BY <2>1, <2>2, <2>3, <2>4, <2>5 DEF HidInv, CallsCounted, KindRight, LastBoot
<1>6. CASE Completed
  <2>1. /\ pc = "wait" /\ pc' # "wait" /\ enabled' = FALSE /\ working' = NoTransfer
        /\ UNCHANGED <<machine, heap, serial, inactive, answered, late, running>>
        /\ reports' = reports \/ reports' = reports + 1
    <3>1. pc' # "wait"
      BY <1>6 DEF Completed, Succeeded, Configured, Stop, Call
    <3> QED BY <1>6, <3>1 DEF Completed, Succeeded, scanVars, deviceVars
  <2>2. CallsCounted'
    <3>1. reports' <= serial'
      BY <1>1, <2>1 DEF HidInv, CallsCounted
    <3>2. working'.place <= HeapUnits
      BY <1>1, <2>1 DEF NoTransfer
    <3> QED BY <2>1, <3>1, <3>2 DEF HidInv, CallsCounted
  <2>3. kind' = kind \/ kind' \in Parsed
    BY <1>6 DEF Completed, Succeeded, Configured
  <2>4. Parsed \subseteq {"none", "keyboard", "mouse"}
    BY DEF Parsed
  <2>5. LastBoot' = LastBoot
    BY <2>1 DEF LastBoot
  <2>6. KindRight'
    <3>1. CASE kind' = kind
      BY <2>1, <2>5, <3>1 DEF HidInv, KindRight
    <3>2. CASE kind' \in Parsed
      BY <1>1, <2>1, <2>4, <2>5, <3>2, ParsedRight DEF KindRight
    <3> QED BY <2>3, <3>1, <3>2
  <2> QED BY <2>2, <2>6 DEF HidInv
<1>7. CASE Execute \/ Stall
  <2>1. /\ inactive' = inactive \cup {working.place} /\ answered' = answered \cup {working.serial}
        /\ late' = late \/ late' = late \cup {working.serial}
        /\ UNCHANGED <<machine, kind, heap, serial, reports, pc, enabled, running, working>>
    BY <1>7 DEF Execute, Stall, Answer, scanVars, hidVars
  <2>2. working.place \in 0 .. HeapUnits
    BY <1>1 DEF HidInv, CallsCounted, Transfers
  <2> QED BY <2>1, <2>2 DEF HidInv, CallsCounted, KindRight, LastBoot
<1> QED BY <1>2, <1>3, <1>4, <1>5, <1>6, <1>7 DEF Next, Kernel

LEMMA HidInvHolds == Spec => []HidInv
<1>1. ASSUME Init PROVE HidInv
  <2>1. machine.async \in BOOLEAN
    BY <1>1, BusAssumption DEF Init
  <2> QED BY <1>1, <2>1, HeapAssumption DEF Init, HidInv, CallsCounted, KindRight, NoTransfer
<1>2. Inv /\ ScanInv /\ HidInv /\ [Next]_vars => HidInv'
  BY HidKept
<1> QED BY <1>1, <1>2, CallsAreKept, ScanInvHolds, PTL DEF Spec

\* The types, for every heap, bus and device: no counter leaves its table, and
\* every transfer lies in the heap.
THEOREM TypeCorrect == Spec => []TypeOK
<1>1. Inv /\ ScanInv /\ HidInv => TypeOK
  <2> SUFFICES ASSUME Inv, ScanInv, HidInv PROVE TypeOK
    OBVIOUS
  <2>1. /\ machine \in Machines /\ controller_count \in 0 .. MaxControllers
        /\ ehci_count \in 0 .. controller_count
        /\ at.dev \in 0 .. Devs /\ at.func \in 0 .. Funcs - 1
    BY DEF ScanInv, ScanTypes
  <2>2. /\ pc \in {"scan", "call", "wait", "idle"} /\ req \in Requests
        /\ addr \in {0, 1} /\ sized \in BOOLEAN /\ undone \subseteq Settings
        /\ heap \in Nat /\ serial \in Nat /\ reports \in Nat /\ HeapUnits \in Nat
        /\ transfer \in Transfers /\ working \in Transfers /\ device \in Devices
        /\ answered \subseteq 1 .. serial /\ stalled \subseteq answered
    BY HeapAssumption DEF Inv, CallInv, Types
  <2>3. /\ heap \in 0 .. HeapUnits /\ reports \in 0 .. serial
        /\ inactive \subseteq 0 .. HeapUnits /\ late \subseteq answered
        /\ enabled \in BOOLEAN /\ running \in BOOLEAN
        /\ kind \in {"none", "keyboard", "mouse"}
    BY <2>2 DEF HidInv, CallsCounted, KindRight
  <2>4. IsTransfer(transfer)
    <3>1. /\ transfer.place = heap \/ transfer.place = 0
          /\ transfer.serial = serial \/ transfer.serial = 0
      BY DEF Inv, CallInv, WaitsForLatest, NoTransfer
    <3> QED BY <2>2, <2>3, <3>1 DEF IsTransfer, Transfers
  <2>5. IsTransfer(working)
    <3>1. working.serial \in 0 .. serial
      BY <2>2 DEF Inv, CallInv, PlacesAbove, NoTransfer
    <3>2. working.place \in 0 .. HeapUnits
      BY <2>2 DEF HidInv, CallsCounted, Transfers
    <3> QED BY <2>2, <3>1, <3>2 DEF IsTransfer, Transfers
  <2> QED BY <2>1, <2>2, <2>3, <2>4, <2>5 DEF TypeOK, Devices
<1> QED BY <1>1, CallsAreKept, ScanInvHolds, HidInvHolds, PTL

\* usb_init and usb_poll: reports come from the device at the kernel's address,
\* configured unless it refused SET_CONFIG with a STALL, and are read as those
\* of its last boot interface when its configuration fits the buffer.
THEOREM ReportsAreFromConfigured == Spec => []ReportsFromConfigured
<1>1. Inv /\ HidInv => ReportsFromConfigured
  BY DEF Inv, Known, HidInv, KindRight, ReportsFromConfigured
<1> QED BY <1>1, CallsAreKept, HidInvHolds, PTL
=============================================================================
