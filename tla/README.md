# Formal models of ExonOS

ExonOS is a small 32-bit kernel in C: a Multiboot2 boot path, a page and heap
allocator, ATA and FAT reading at boot, EHCI USB with one HID device, PS/2
input, and a desktop with windows. Nothing preempts it (interrupts stay off):
after the boot `scheduler_tick` calls `ui_task` and `usb_task` in turn for ever.
What runs concurrently is the hardware: the 8042 controller with its keyboard
and mouse, the EHCI controller with the USB device, and the disk, each of which
may be slow, fail, refuse, or be missing.

This directory holds TLA+ modules of the parts that carry state and decisions,
TLC configurations that check them on small instances, and TLAPS proofs for
every value of the constants. Paths below are relative to the repository's
`src/`.

## Inventory

| component | state | operations | correct when |
|---|---|---|---|
| memory manager (`src/memory.c`) | page bitmap, `total_pages`, `free_pages`, heap bounds | `memory_init`, `kmalloc`, `phys_alloc_page`, `phys_free_page`, `memory_get_stats` | a page has one owner, heap blocks never overlap, the counter is exact, only usable memory is served |
| key queue (`src/input.c`) | ring, head, tail | `input_inject_key`, the front of `poll_keyboard` | keys leave in order, each once |
| input (`src/input.c`, `src/usb_hid.c`) | prefix flag, mouse packet, pending USB motion, previous report | `poll_keyboard`, `poll_mouse`, report handlers | every press counts once, packets stay framed, the pointer stays on the screen |
| PS/2 initialisation (`src/input.c`) | the controller's configuration | `init_ps2_mouse` | it ends, and leaves no reply in the port |
| desktop (`src/ui.c`, `src/ui_apps.c`, `src/app_settings.c`) | menu, open flags, window rectangles, drag | `ui_init`, `ui_update` (`ui_render` only draws) | a press does one thing, drags end, windows stay reachable |
| drawing (`src/framebuffer.c`, `src/MagicUI.c`) | pixels | fills, text, cursor, blit | each primitive writes its visible pixels and nothing else |
| USB (`src/usb.c`, `src/ehci_transfer.c`) | controllers, the HID device, descriptors, async schedule | `usb_init`, `usb_poll`, `ehci_control_transfer` | an answer belongs to its call, every call returns, only a configured device is heard |
| PCI and EHCI setup (`src/pci.c`, `src/ehci.c`) | controller tables, registers | `pci_scan_bus0`, `ehci_init` | all controllers of bus 0 are met, and run |
| ATA driver (`src/ata.c`) | none; the disk's | `ata_init`, `ata_read28` | a read answers with the sector asked for or fails, and returns |
| FAT, VFS, MBR (`src/fat.c`, `src/vfs.c`, `src/mbr.c`) | mounted volume | `mbr_read`, `vfs_mount_fat`, `vfs_list_root` | the listing is the root directory, no failure stops the boot |
| Multiboot2 (`src/mb2.c`) | none; the boot information's memory | three walks over the tags | the right tag is found, the walk ends |
| kernel, scheduler, panic (`src/kernel.c`, `src/scheduler.c`, `src/panic.c`) | framebuffers, task list, dividers | `kernel_main`, `scheduler_add`, `scheduler_tick`, `usb_task`, `ui_task`, `panic` | the boot ends in the loop or with a message; tasks run in turn for ever |
| other apps, font, log, CPU strings, boot stub | none | drawing, serial output | |

Interactions: `kernel_main` searches the boot information, sets up memory, lists
the disk, and starts USB, the mouse and the tasks, in that order. `memory_init`
reads the map that `mb2.c` found, and the bitmap and heap it sets up may lie
where the boot information does. `usb_init` and `usb_poll` call
`ehci_control_transfer`, which takes descriptors from `kmalloc`; a report goes
through `usb_hid.c` into the key queue or the pending motion; `ui_update` calls
`poll_keyboard` and `poll_mouse`. `fat.c` asks `ata.c` for sectors. Everything is
a direct call on shared statics.

Hard behaviours: a byte that arrives between two polls of one shared port, or
instead of the reply that is waited for; USB answers and sectors that come after
their wait ended; a request that the device refuses and the kernel takes for done;
a device that is pulled out; the order of overlapping memory
map entries; keys and presses that meet in one `ui_update`; reads that fail
midway; memory that is reused while it is still needed; resources that are never
given back. `PROJECT.json` lists them, each at its line.

## Modules

| module | models | uses |
|---|---|---|
| `PagePool` | abstract page allocator | |
| `Memory` | `memory.c` | refines `PagePool` |
| `KeyFifo` | abstract bounded queue | |
| `KeyQueue` | the ring of `input.c` | refines `KeyFifo` |
| `Input` | `input.c`, `usb_hid.c`, the loop of `kernel_main`, both kinds of devices | `KeyQueue`'s operators |
| `Ui` | `ui.c`, the registry, Settings' click handler | |
| `Usb` | `usb.c` over `pci.c`, `ehci.c`, `ehci_transfer.c`, with controller and device | |
| `SectorStore` | abstract sector reads | |
| `Ata` | `ata.c` with the disk | refines `SectorStore` |
| `Fat` | `mbr.c`, `vfs.c`, `fat.c` over reads with any answer | |
| `DiskBoot` | `kernel_main`'s disk part | `Ata` and `Fat` |
| `Mb2` | `mb2.c` | |
| `Screen` | `framebuffer.c` and MagicUI's primitives, as operators | |
| `Ps2Init` | `init_ps2_mouse` with the 8042 | |
| `Boot` | `kernel_main`, `scheduler.c`, `panic.c` | `Mb2`, `Screen`, `Ps2Init` |
| `MC*`, `MCVolumes` | values of the constants | |
| `NumberLemmas`, `*Proofs` | proofs; those of `DiskBoot` and `Fat` are in `AtaProofs`, those of `Mb2`, `Screen` and `Ps2Init` in `BootProofs` | |

**Memory.** `used` is the set of bits of `bitmap`; arithmetic of `uint32_t` is
modulo `Word`. `memory_init` is one action: the loop over the map and the
reservation run before anything can observe them. Because the code tests a bit
before it clears it, the order of the map's entries does not matter, so a map is
a set. `kmalloc`, `phys_alloc_page` (found, or refused) and `phys_free_page` are
actions with the code's early returns as disjuncts. The end of a map entry is a
64-bit sum and wraps (`EndOf`). `held` and `blocks` are
ghosts. `phys_free_page` is called with pages the caller holds or with addresses
that a guard of the code rejects; freeing what somebody else holds is a client's
error and not modelled.

**Input.** One action is one call of the loop: `usb_task`, `poll_keyboard`,
`poll_mouse`, in the order of `scheduler_tick` (`pc`). Between any two of them a
device may put a byte into the port or a USB key may go up or down. A USB poll
may return nothing, and a keyboard with more keys down than a report has room
for sends roll-over reports. An entry of the port carries, as a ghost, the key
action its byte completes. The devices send whole events one after the other.
`machine` is chosen at the start: which USB device there is, and what the PS/2
devices may send.

**Ui.** `ui_update(k, p, down)` is the whole call: the key part gives the menu
and the open windows that the mouse part then sees (`MenuAfterKey`,
`OpenAfterKey`), the six loops of a press are the seven `Press...` actions whose
guards exclude one another as `handled_click` does, and `FollowPointer` moves
the dragged window in the same step. `Keys` and `Points` are what the polls may
return; the pointer may be anywhere, off the screen included (see `Input`).

**Usb.** `Scan` is one place of bus 0; `usb_device_cb` lists a controller and
`ehci_init` leaves it halted with its port reset. Each request of `usb_init` and
each poll is an `ehci_control_transfer`: `NoDescriptors`, or `Start` followed by
`Completed` or `TimedOut`. `Execute` is the controller and may happen at any
time the schedule is enabled, and `Unplug` takes the device away. `Stall` is a
device that refuses SET_ADDRESS, SET_CONFIGURATION or SET_PROTOCOL: the status qTD
is halted, its Active bit clear, and `wait_qtd_complete` looks at nothing else, so
`Completed` follows and the kernel takes the request for done. The ghost `undone`
has the requests after which the kernel went on although the device had not done
them: those, and a SET_PROTOCOL whose call failed. A STALL of a request with data
halts the data qTD and leaves the status qTD active, which is a timeout. The loop of
`wait_qtd_complete` reads the token through a pointer that is not volatile; a
build that reads it once gives up on answered transfers too, so `TimedOut` is
enabled then as well. A transfer is known by the place of its status qTD in the
heap and a serial number, which lets the model tell apart what the kernel cannot.
A configuration is the list of its interfaces; what the walk reads behind its
buffer is any byte.

**Ata and DiskBoot.** `Ata` goes through a call step by step: the wait for BSY,
the command, the status, the wait for DRQ, the words of the sector. `Serve` is
the disk, and every wait may end before the disk is ready. A call that gives up
leaves the disk as it is, so the next one may find the abandoned sector, which
is what `SectorStore` promises and no more. `Fat` says which sector it wants
next (`Wanted`) and what it does with an answer (`Use`); the answer names the
sector that the data is of, and `Sector` gives its content as a boot sector, as
directory entries or as FAT entries, whose reserved bits `Masked` drops. Names
are not decoded. `DiskBoot` runs the one over the other: the sector a late disk
hands over goes to whoever asks next.

**Mb2, Ps2Init, Screen and Boot.** `Mb2` walks over tags at the offsets where
they lie; padding, the step to the next tag and the comparison with the end are
32-bit sums that wrap, so a large size leads back. Where no tag lies, or no
more, the search reads any of `Headers` (`Uncover`), and reads the same there
again until it ends (`stray`). `Overwrite` takes away the tags whose words are
written over, and may change `total_size`. `Ps2Init` is one write or read of
`init_ps2_mouse` at a time, with a controller that takes a byte in its own time,
a mouse that acknowledges, and keys whose bytes enter the port at any moment; a
byte is the set of its bits. Without a mouse or controller the unbounded waits
wait for ever, as the code's do. `Screen` gives the words that each primitive
writes; `TextPixels`, `Pixels` and `CellsOf` say what is meant. `Boot` composes
the three: `memory_init` and `usb_init` write over the memory of the boot
information if they reach it - the bitmap is ones and cleared bits, the
descriptors are links, tokens and addresses, so any words may be there -
`memory_init` may also panic on what the map says, `SetUpBackBuffer` tests the
screen's size, and `scheduler_tick` alternates the tasks, `ui_task` drawing any
of `Shapes` and then copying the back buffer.

`mutants` in `PROJECT.json` pair each property with a wrong version of a
definition (`align_up_down`, `NoPressKeepsDrag`, ...). These stand next to the
definition they vary, marked as mutants, are used by no specification, and show
that the property can fail under its configuration.

## Runs

| run | bounds | shows |
|---|---|---|
| `memory` | 128-byte space, 16-byte pages, eleven maps (holes, overlaps, unaligned ends, past the top, an end that wraps), four requests | types, exact counter, single ownership, disjoint aligned blocks, exactly the usable pages served, `PagePool` implemented |
| `key_queue` | ring of 4, three actions | the FIFO promise through all wraps |
| `input` | three machines: USB keyboard with three keys beside a PS/2 key; PS/2 keyboard and mouse beside one USB key; USB mouse beside PS/2 mouse and key | no phantom press; the ring is empty when a report is read; packet framing; the pointer; motion is used once; the port is served |
| `ui` | two windows with their real rectangles on 640 x 480, six points, five keys | drags, grabs, windows and presses |
| `usb` | bus 0 of 3 x 3 places, two controllers at most, two configurations, 44 units of heap: the enumeration and two reports; every setting may be refused | the scan, answers, addresses, layout, descriptors, termination |
| `disk` | FAT16 roots of two sectors with every mix of entries, a FAT32 chain of three clusters, at sector 0; a second volume before it; a disk that is absent, floating, slow or failing | the listing, which sector an answer can be, `SectorStore` implemented, and that the boot goes on |
| `boot` | 16 boot informations of up to seven tags at five places, addresses of 12 bits, five headers where tags were overwritten, screens of some 10 x 9 pixels, 19 shapes, two unasked bytes | the tags found, what is drawn, the memory size, the port, and the way to the loop |
| `input_arrow`, `input_lost_key`, `input_usb_only`, `usb_halted`, `fat_in_partition` | as above, on the smallest machine that shows it | the disagreements below |

Why the bounds suffice: pages, ring slots and windows are symmetric in the code,
and the instances contain the boundary cases (full and wrapped ring, last page,
partial pages, heap cut short, clamped windows, stacked close boxes, exhausted
heap, tables of controllers that are full, tags whose size needs padding, a
screen as large as the back buffer and one larger in each direction). In `Input`
a report has fewer keys than the ring holds and the polls between two reports
outnumber them, as in the kernel (6 keys, 15 places, 8 runs); `MaxDown` and
`MaxPending` bound the devices. In `Ps2Init`, `MaxArrived` bounds the unasked
bytes; two are enough to replace both kinds of reply. A volume at sector 0 is the
only place where the listing works as it stands: a partition table may point
there, as the hybrid image of a CD does. `Regular`, in `PoolIsRam`, asks for
page-aligned usable entries; what the code does on others is part of the model
and of the other invariants. `OutOfReach`, in `RamReported`, asks that the boot
information lies away from the bitmap and the heap; the run has informations at
both, whose overwritten tags read as headers that end the search, are found, lead
on, lead back over the top of the address space, or do not advance. `BootEnds` has
one exception, which the run contains: information that was overwritten with sizes
that lead the search back for ever (`LedBack` again and again). `LayoutKnown`,
`AddressAgreed` and `ReportsFromConfigured` name what a refused request can lead to:
an unknown layout, a device that is polled in vain at an address it has not got,
reports of a device that is not configured.

Fairness: `FairSpec` in `Input` and `Usb` assumes only that the kernel's next
call is eventually made, as the loop at `src/kernel.c:240` and the bounded waits
justify; `DiskSpec` that the boot continues, its waits being bounded too. `BootSpec`
also assumes that the 8042 and the mouse behind it answer what they are told,
because `init_ps2_mouse` waits for them without a bound: `BootEnds` is stated for
a machine that has them. `WorkingSpec`, of `usb_halted`, adds that the controller
does what it can. Otherwise devices owe nothing.

### What the code does and its text does not say

* An arrow key's release leaves the prefix flag set; the next plain key is lost
  (`input_arrow`, `src/input.c:98`).
* With USB motion pending `poll_mouse` consumes a keyboard byte
  (`input_lost_key`, `src/input.c:139`).
* Motion of a USB mouse is applied only when PS/2 bytes arrive
  (`input_usb_only`, `src/input.c:136`).
* `ehci_init` clears the controller's Run bit for the reset, and nothing sets it
  again: `ehci_control_transfer` only enables the schedule. A controller that
  does nothing while halted never answers, and a device that is plugged in is
  not found (`usb_halted`, `src/ehci.c:43`, `:50`, `src/ehci_transfer.c:122`). The
  run `usb` leaves open whether the controller honours the bit
  (`HonoursRun` is `FALSE`), so that the rest of the code is exercised.
* The partition's start is added twice when the root directory is read
  (`fat_in_partition`, `src/fat.c:176` and `:199`).

The guide states that the UI handles keyboard and mouse, and `kernel.c` heads
the listing with `FAT root:`.

## Proofs

All theorems hold for every value of the constants under the named assumptions.
Every invariant and action property of the passing runs is the statement of a
theorem, and so is each refinement; liveness is not.

* **Memory** (`SizesAssumption`, `PagesAssumption`, `MapsAssumption`,
  `RequestsAssumption`, `RoomAssumption`). `MemoryProofs!Inv` strengthens the
  invariants with the facts that make them inductive: nothing is counted, held or
  allocated before `memory_init`; every free or held page lies above the kernel's
  end and the heap's limit; held pages are used; `free_pages` and the number of
  used pages add up to `total_pages`; every block is aligned and ends at or below
  `heap_curr`. The guard of the counter in `phys_alloc_page` is harmless only
  because the count is exact. From `Inv` follow `TypeOK`, `StatsExact`,
  `HeldPagesPrivate`, `BlocksSound`, and that each step is a step of `PagePool` or
  a stutter. `PoolKept` adds that the pages which are free or held are those that
  `memory_init` freed, less the kernel, bitmap and heap; on page boundaries a
  page is freed exactly when its bytes are usable, which is `PoolIsRam`.
  `RoomAssumption` says the kernel, the bitmap, the heap and one request fit the
  address space; with the linker script's 1 MiB and a 4 MiB heap they do.
* **KeyQueue** (`QueueAssumption`). `TypeOK` is inductive; the refinement shows
  that `Contents` grows at the end and shrinks at the front, with the wrap of an
  index handled once, in a lemma on `SlotOf`. The lemmas about the ring speak of
  any ring and not of the variable, so that `InputProofs` uses them through an
  instance for the ring in `Input`.
* **Ui** (`RegistryAssumption`). `UiProofs!Inv` joins types, drag consistency and
  the grab. That no action changes a window's size, and that windows stay on the
  screen, are inductive relative to it; together they carry the geometric
  argument from the initial rectangles to every reachable one, for the close
  boxes and for the place where a drag grabs a window.
* **Input** (`DeviceAssumption`: packets have three bytes, a key event at least
  one; `LoopAssumption`: a report has no more keys than there are runs between
  two reports, 6 and 8 in the kernel). Motion that is applied is cleared with its
  flag; the bytes of a packet that were read, wait in the port and are still to
  come add up to 0 or 3, because without a USB mouse `poll_keyboard` takes only
  keyboard bytes and `poll_mouse` only the mouse's; and the clamp that completes a
  packet brings the pointer back, wherever the unclamped path left it. For the
  keys, `RingPaced` says that the ring holds no more keys than the runs since the
  report can have left of it, whatever the size of the ring; at the next report
  that is none. `HeldKeysKnown` says that a key which is down is in the previous
  report unless it is new or a roll-over hid it, so what a report adds to the
  ring is a new key's: `NoPhantomPress`.
* **Usb** (`HeapAssumption`, `BusAssumption`, `ConfigAssumption`: an interface
  descriptor has nine bytes and lies in its configuration). A transfer is
  written below everything that the heap gave before and the heap takes nothing
  back, so a place whose Active bit is clear belongs to one call only
  (`PlacesAbove`, `Unique`); that is why `ClearMeansAnswered` is inductive, and
  with it `OwnAnswer`. `Effect` then says what an answered request means: the
  device answers at the address it was asked at and has done what was asked,
  unless the answer was a STALL (`stalled`), which only a setting can get; from
  this `Known` carries `AddressAgreed` and `LayoutKnown` through the
  enumeration, and `Paid` accounts for the units of every request. `ScanInv`
  says that the tables hold, as far as they go, the functions that lie before
  the scan's place, and where the scan can be: behind a function 0 that is
  missing it goes on with the next device. `KindRight` compares the walk over
  the descriptors with the last boot interface of a configuration that was read
  whole.
* **Ata** (`AtaAssumption`). A call that has not returned has no answer yet, and
  the disk works for it only between its command and its end; every step is a
  step of `SectorStore` or a stutter, with what an abandoned command left on the
  disk as `owed`.
* **DiskBoot** (`DiskAssumption`: the fields of the disk's tables have their
  widths). `FatInv` keeps the loops in their bounds. `AskInv` says that a call
  asks for what the boot wants at that point, `AnswerInv` that an answer is the
  call's own or, while mounting, the boot sector of an earlier partition, and
  `OweInv` why: what an abandoned call leaves on the disk is one of those,
  because every other failure ends the disk part. The driver is a `SectorStore`
  in the boot too. For the listing, `WalkInv` says that the log is what the
  first `n` sectors of the root directory show, and no end mark is among them;
  `n` is the row for FAT16, and for FAT32 the row and the number of clusters
  followed. The directory is what FAT defines (`ClusterAt`, `RootSector`,
  `RootEntries`), for chains and clusters of any length. `RootOnDisk` is a
  hypothesis of `ListsRoot`: the chain ends, and the directory's sectors and the
  entries of the allocation table are addresses the driver can send. Every
  volume of `disk` that is mounted from its own boot sector has it.
* **Boot** (`WordAssumption`, `HeadersAssumption`, `Ps2Assumption`,
  `MachinesAssumption`, `DrawingAssumption`). The tag walk's invariant is that
  its pointer is a tag and no tag before it matches; in a `WellFormed`
  information, which ends below the top of the address space, the padded size
  leads from one tag to the next and no sum wraps. The bytes in the port are
  counted against operations and replies. `BootRunsBoth` shows that each step of
  the composed boot is a step of the search, with its memory overwritten or not,
  and a step of the initialisation, so what is proved of each alone holds in the
  boot. `RamInv`: information out of reach stays as it was written, so the tag
  that `FindMeminfo` finds has the boot loader's numbers. `DrawInv`: a
  framebuffer that passed the checks has rows that hold its pixels
  (`FramebufferTag`), the back buffer has its size and lies apart from it, and
  each drawing writes the visible pixels of what is meant and no others, by a
  lemma for each primitive of `Screen` (`FillExact`, `TextExact`, ...).
  `MachinesAssumption` has what the boot loader and the linker provide: with the
  right magic number a `WellFormed` information, a screen that is not the
  kernel's own static buffer and has not just one row
  (`fb_draw_vertical_gradient` divides by `height - 1`), and a kernel, bitmap
  and heap below the top of the address space.

`NumberLemmas` has the facts on rounding, rows and columns that the arithmetic
backend needs, and what a loop over counted entries needs: induction over the
naturals, stated for sets, a least member, and the existence of a function that
is defined by recursion. With them `AtaProofs` proves that listing sector after
sector shows what listing the whole directory would.

Only model-checked: the liveness properties `PortIsServed`, `AlwaysReturns`,
`ReachesUi`, `BootEnds` and `TasksKeepRunning`. Liveness and ENABLED are out of
the prover's reach.

## Not modelled

* Font, log, CPU strings, boot stub, and the apps that only draw: no state and
  no decision that a property could be about.
* `ui_render` and the windows it composes: the primitives they call are in
  `Screen`; which rectangle is drawn where is layout.
* The register writes and delays of `ehci_init`; what it leaves of USBCMD and of
  the port is in `Usb`.
* Late DMA into a dead stack frame is recorded in `Usb` (`late`), its damage is
  not.
* What the controller writes into the status qTD besides Active (Halted, babble,
  transaction errors): the kernel looks at Active alone, and to it such an end is
  `Execute` or, of a setting, `Stall`.
* Reports shorter than the boot format, names of files, colours.
* Volumes whose sectors are not 512 bytes, inconsistent boot sectors, and cyclic
  cluster chains, which hang `fat_list_root`.
* Memory that `memory_init` itself overwrites while it reads the map.

`PROJECT.json` gives the status of each component.

## Plan

1. `Input` with `Ui`: the pointer and buttons `ui_update` sees are those
   `poll_mouse` leaves, including the off-screen pointer in a drag.
2. `Usb` over `Memory`'s heap, with alignment and a request that does not fit.
3. The bounds behind the liveness properties as invariants: the waits of
   `Ata` and `Usb`, and the loops of the boot, count towards an end.
