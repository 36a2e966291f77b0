---------------------------------- MODULE Boot ----------------------------------
(***************************************************************************)
(* kernel_main from the boot loader's call to the scheduler's loop, over   *)
(* the search for tags (Mb2), the drawing (Screen) and the initialisation  *)
(* of the mouse (Ps2Init).  memory_init and usb_init appear by what they   *)
(* do to memory that the boot information may lie in; what they compute is *)
(* in Memory and Usb, the disk is in DiskBoot, and what the tasks do in    *)
(* Input, Usb and Ui.                                                      *)
(***************************************************************************)
EXTENDS Mb2, Screen, Ps2Init

CONSTANTS
  Machines,                \* [magic, info]: the magic number is right; what
                           \* the boot loader left in memory
  KernelEnd, BitmapBytes,  \* where memory_init puts its bitmap
  HeapUsed,                \* the heap behind it that usb_init takes
  BackBase, BackWidth, BackHeight,   \* the static back buffer
  MaxTasks,
  Shapes                   \* what ui_render may draw

\* The boot loader's information is made of words, the rows of a screen hold
\* their pixels, and the screen does not begin at the kernel's back buffer.  It
\* has not just one row: fb_draw_vertical_gradient divides by height - 1.
FramebufferTag(tag) ==
  /\ tag.addr \in Nat /\ tag.width \in Nat /\ tag.height \in Nat
  /\ tag.pitch \in Nat /\ tag.bpp \in Nat /\ tag.height # 1
  /\ tag.addr % Word # BackBase
  /\ tag.bpp = 32 => tag.width * BytesPerPixel <= tag.pitch

\* With the right magic number the information is what a boot loader writes.
\* The kernel, its bitmap and the heap that usb_init uses end below the top of
\* the address space.
ASSUME MachinesAssumption ==
  /\ \A m \in Machines :
       /\ m.magic \in BOOLEAN /\ (m.magic => WrittenByLoader(m.info))
       /\ m.info.base \in Nat /\ m.info.total \in Nat
       /\ \A o \in DOMAIN m.info.tags :
            /\ m.info.tags[o].type \in Nat /\ m.info.tags[o].size \in Nat
            /\ Matches(m.info.tags[o], Framebuffer) => FramebufferTag(m.info.tags[o])
  /\ KernelEnd \in Nat /\ BitmapBytes \in Nat /\ HeapUsed \in Nat
  /\ KernelEnd + BitmapBytes + HeapUsed < Word

\* The back buffer is somewhere, and what ui_render draws has coordinates and
\* lengths.
ASSUME DrawingAssumption ==
  /\ BackBase \in Nat \ {0} /\ BackWidth \in Nat /\ BackHeight \in Nat
  /\ Glyph \in Nat \ {0}
  /\ \A s \in Shapes :
       /\ s.kind \in {"fill", "text", "cursor", "button", "progress", "gradient"}
       /\ s.kind # "gradient" => s.r \in Rects
       /\ s.kind \in {"text", "button", "progress"} => s.n \in Nat
       /\ s.kind = "progress" => s.max \in Nat

VARIABLES
  machine,
  pc,         \* where kernel_main is
  fb, draw_fb,
  panic_fb,   \* panic.c: it may draw on fb
  ram,        \* info.ram_kb
  tasks, turn, frame_div,   \* scheduler.c and ui_task; turn is the task to run
  drawn       \* ghost, the latest drawing: the buffer, the words written and
              \* the words of the visible pixels of what was to be drawn

bootVars == <<machine, pc, fb, draw_fb, panic_fb, ram, tasks, turn, frame_div, drawn>>
vars == <<mbVars, psVars, bootVars>>

NoBuffer == [base |-> 0, width |-> 0, height |-> 0, pitch |-> 0, bpp |-> 0]

-----------------------------------------------------------------------------
(* Drawing *)

Cells(buffer, s) ==
  CASE s.kind = "fill"     -> fb_fill_rect(buffer, s.r)
    [] s.kind = "text"     -> fb_draw_string(buffer, s.r.x, s.r.y, s.n)
    [] s.kind = "cursor"   -> mui_draw_cursor(buffer, s.r.x, s.r.y)
    [] s.kind = "button"   -> mui_draw_button(buffer, s.r, s.n)
    [] s.kind = "progress" -> mui_draw_progress(buffer, s.r, s.n, s.max)
    [] s.kind = "gradient" -> fb_draw_vertical_gradient(buffer)

\* The pixels that are meant.  A progress bar's filled part is within the bar.
Meant(buffer, s) ==
  CASE s.kind = "text"     -> TextPixels(s.r.x, s.r.y, s.n)
    [] s.kind = "cursor"   -> {<<s.r.x + d[1], s.r.y + d[2]>> : d \in PointerShape}
    [] s.kind = "button"   -> Pixels(s.r) \cup TextPixels(s.r.x + 8, s.r.y + 7, s.n)
    [] s.kind = "gradient" -> Pixels([x |-> 0, y |-> 0, w |-> buffer.width, h |-> buffer.height])
    [] OTHER               -> Pixels(s.r)

Drawing(buffer, s) ==
  [on |-> buffer, cells |-> Cells(buffer, s), due |-> CellsOf(buffer, Meant(buffer, s))]

Text(x, y, n) == [kind |-> "text", r |-> [x |-> x, y |-> y, w |-> 0, h |-> 0], n |-> n]
Nothing == [on |-> NoBuffer, cells |-> {}, due |-> {}]

\* The steps of the boot are named at x = 8 and 16 rows apart; where several
\* are named before the next call that matters, the last of them is drawn here.
Announce(y) == drawn' = Drawing(fb, Text(8, y, 6))

\* The banner of fb_panic; its texts lie in it.
Banner == [kind |-> "fill", r |-> [x |-> 0, y |-> 0, w |-> fb.width, h |-> 48]]

panic ==
  /\ pc' = "halted"
  /\ drawn' = IF panic_fb THEN Drawing(fb, Banner) ELSE Nothing
  /\ UNCHANGED <<machine, fb, draw_fb, panic_fb, ram, tasks, turn, frame_div>>

text_fallback == pc' = "halted" /\ UNCHANGED panic_fb /\ drawn' = Nothing

-----------------------------------------------------------------------------
(* kernel_main *)

Tag == info.tags[walk.ptr]

CheckMagic ==
  /\ pc = "start"
  /\ IF machine.magic
       THEN /\ Search(Framebuffer)
            /\ pc' = "fb"
            /\ UNCHANGED <<machine, fb, draw_fb, panic_fb, ram, tasks, turn, frame_div, drawn>>
       ELSE panic /\ UNCHANGED mbVars
  /\ UNCHANGED psVars

\* The address has 64 bits in the tag.
FbOf(tag) ==
  [base |-> tag.addr % Word, width |-> tag.width, height |-> tag.height,
   pitch |-> tag.pitch, bpp |-> tag.bpp]

FindFramebuffer ==
  /\ pc = "fb" /\ Take
  /\ IF walk.state = "missing"
       THEN panic
       ELSE /\ fb' = FbOf(Tag)
            /\ IF fb'.base = 0 \/ fb'.bpp # 32
                 THEN text_fallback
                 ELSE /\ panic_fb' = TRUE /\ pc' = "memory"
                      /\ drawn' = Drawing(fb', Text(8, 8, 10))
            /\ UNCHANGED <<machine, draw_fb, ram, tasks, turn, frame_div>>
  /\ UNCHANGED <<info, psVars>>

FindMap ==
  /\ pc = "memory" /\ Search(Mmap)
  /\ pc' = "mmap" /\ Announce(24)
  /\ UNCHANGED <<psVars, machine, fb, draw_fb, panic_fb, ram, tasks, turn, frame_div>>

\* mb2_get_mmap's count of entries.
EntryCount(tag) ==
  IF tag.entry_size = 0 THEN 0 ELSE (tag.size - SizeOf(Mmap)) \div tag.entry_size

HeapStart == KernelEnd + BitmapBytes

\* memory_init writes its bitmap: all ones, then the bits of the free pages
\* cleared and those of the kernel set.  What the entries of the map say is in
\* Memory: they may also say that there is no memory at all.
memory_init ==
  /\ pc = "mmap" /\ Take
  /\ \/ panic /\ UNCHANGED info
     \/ /\ walk.state = "found" /\ EntryCount(Tag) # 0
        /\ Overwrite(KernelEnd, HeapStart)
        /\ pc' = "disk" /\ Announce(40)
        /\ UNCHANGED <<machine, fb, draw_fb, panic_fb, ram, tasks, turn, frame_div>>
  /\ UNCHANGED psVars

ListDisk ==
  /\ pc = "disk"
  /\ pc' = "usb" /\ Announce(72)
  /\ UNCHANGED <<mbVars, psVars, machine, fb, draw_fb, panic_fb, ram, tasks, turn, frame_div>>

\* usb_init writes the descriptors it takes from the heap: links, tokens and
\* the addresses of buffers.
usb_init ==
  /\ pc = "usb"
  /\ Overwrite(HeapStart, HeapStart + HeapUsed)
  /\ pc' = "size" /\ Announce(88)
  /\ UNCHANGED <<walk, stray, psVars, machine, fb, draw_fb, panic_fb, ram, tasks, turn, frame_div>>

\* Mutant of TooLarge: one dimension too many is let through.
TooLargeBoth == fb.width > BackWidth /\ fb.height > BackHeight

TooLarge == fb.width > BackWidth \/ fb.height > BackHeight

SetUpBackBuffer ==
  /\ pc = "size"
  /\ IF TooLarge
       THEN panic /\ UNCHANGED psVars
       ELSE /\ draw_fb' = [fb EXCEPT !.base = BackBase, !.pitch = fb.width * BytesPerPixel]
            /\ pc' = "mouse" /\ init_ps2_mouse
            /\ UNCHANGED <<machine, fb, panic_fb, ram, tasks, turn, frame_div, drawn>>
  /\ UNCHANGED mbVars

InitMouse == pc = "mouse" /\ Kernel /\ UNCHANGED <<mbVars, bootVars>>

FindMeminfo ==
  /\ pc = "mouse" /\ Done
  /\ Search(BasicMeminfo)
  /\ pc' = "meminfo"
  /\ UNCHANGED <<psVars, machine, fb, draw_fb, panic_fb, ram, tasks, turn, frame_div, drawn>>

\* Mutant of RamOf: only the memory above 1 MiB.
RamOfUpper(tag) == tag.upper

RamOf(tag) == tag.lower + tag.upper

\* Behind a header that is no tag's there are two more words of any kind.
SumMemory ==
  /\ pc = "meminfo" /\ Take
  /\ IF walk.state = "missing" THEN ram' = 0
     ELSE IF walk.ptr \in DOMAIN info.tags THEN ram' = RamOf(Tag)
     ELSE \E h \in Headers : ram' = RamOf([lower |-> h.type, upper |-> h.size])
  /\ pc' = "ui"
  /\ UNCHANGED <<info, psVars, machine, fb, draw_fb, panic_fb, tasks, turn, frame_div, drawn>>

\* Mutant of scheduler_add: the last place is not used.
scheduler_add_short(list, task) ==
  IF Len(list) + 1 >= MaxTasks THEN list ELSE Append(list, task)

scheduler_add(list, task) ==
  IF Len(list) >= MaxTasks THEN list ELSE Append(list, task)

StartScheduler ==
  /\ pc = "ui"
  /\ tasks' = scheduler_add(scheduler_add(<< >>, "ui"), "usb")
  /\ turn' = 1
  /\ pc' = "running" /\ Announce(120)
  /\ UNCHANGED <<mbVars, psVars, machine, fb, draw_fb, panic_fb, ram, frame_div>>

-----------------------------------------------------------------------------
(* scheduler_tick *)

NextTask == turn' = (turn % Len(tasks)) + 1
Unscheduled == <<mbVars, psVars, machine, fb, draw_fb, panic_fb, ram, tasks>>

\* Every second call of ui_task renders and shows a frame.
ui_task ==
  /\ pc = "running" /\ tasks[turn] = "ui"
  /\ frame_div' = (frame_div + 1) % 2
  /\ IF frame_div' = 0
       THEN /\ \E s \in Shapes : drawn' = Drawing(draw_fb, s)
            /\ pc' = "blit" /\ UNCHANGED turn
       ELSE NextTask /\ UNCHANGED <<pc, drawn>>
  /\ UNCHANGED Unscheduled

Blit ==
  /\ pc = "blit"
  /\ drawn' = [on |-> fb, cells |-> {b.to : b \in fb_blit(fb, draw_fb)},
               due |-> {Cell(fb, x, y) : x \in 0 .. fb.width - 1, y \in 0 .. fb.height - 1}]
  /\ NextTask
  /\ pc' = "running"
  /\ UNCHANGED <<frame_div, Unscheduled>>

usb_task ==
  /\ pc = "running" /\ tasks[turn] = "usb"
  /\ NextTask
  /\ UNCHANGED <<pc, frame_div, drawn, Unscheduled>>

-----------------------------------------------------------------------------
KernelMain ==
  \/ CheckMagic \/ FindFramebuffer \/ FindMap \/ memory_init \/ ListDisk
  \/ usb_init \/ SetUpBackBuffer \/ InitMouse \/ FindMeminfo \/ SumMemory
  \/ StartScheduler \/ ui_task \/ Blit \/ usb_task
  \/ (Uncover \/ Step) /\ UNCHANGED <<psVars, bootVars>>

\* The port is read by nothing before init_ps2_mouse, so what came earlier
\* comes first there.
Hardware ==
  pc = "mouse" /\ (Devices \/ Arrivals) /\ UNCHANGED <<mbVars, bootVars>>

BootInit ==
  /\ machine \in Machines
  /\ info = machine.info /\ walk = Idle /\ stray = NoStrays
  /\ PsInit
  /\ pc = "start" /\ fb = NoBuffer /\ draw_fb = NoBuffer /\ panic_fb = FALSE
  /\ ram = 0 /\ tasks = << >> /\ turn = 1 /\ frame_div = 0 /\ drawn = Nothing

BootNext == KernelMain \/ Hardware

\* The kernel runs, and the controller answers what it is told.
BootSpec ==
  BootInit /\ [][BootNext]_vars /\ WF_vars(KernelMain)
    /\ WF_vars(pc = "mouse" /\ Devices /\ UNCHANGED <<mbVars, bootVars>>)

-----------------------------------------------------------------------------
\* Whatever is drawn, on the screen or in the back buffer and at whatever
\* place, the words written are those of its visible pixels.
DrawnExactly == drawn.cells = drawn.due

\* No word is written or copied from outside the memory of its buffer: for the
\* back buffer the static array, whatever size the boot loader chose for the
\* screen.
InBackBuffer(c) ==
  BackBase <= c /\ c + BytesPerPixel <= BackBase + BackWidth * BackHeight * BytesPerPixel

DrawnInside ==
  /\ \A c \in drawn.cells :
       IF drawn.on.base = BackBase THEN InBackBuffer(c) ELSE InBuffer(fb, c)
  /\ pc = "blit" => \A b \in fb_blit(fb, draw_fb) : InBackBuffer(b.from)

\* The memory size shown is the sum that the boot loader gave, though it is
\* looked up after memory_init and usb_init have used memory - provided the
\* information is not where they put the bitmap and the heap.
OutOfReach ==
  LET last == machine.info.base + machine.info.total
  IN  last <= KernelEnd \/ machine.info.base >= HeapStart + HeapUsed

Meminfos ==
  LET tags == machine.info.tags
  IN  {o \in DOMAIN tags : /\ tags[o].type = BasicMeminfo
                           /\ tags[o].size >= SizeOf(BasicMeminfo)}

RamReported ==
  pc \in {"ui", "running", "blit"} /\ OutOfReach /\ WrittenByLoader(machine.info) =>
    \/ Meminfos = {} /\ ram = 0
    \/ \E o \in Meminfos :
         ram = machine.info.tags[o].lower + machine.info.tags[o].upper

\* With a mouse behind the controller the boot ends in the scheduler or with a
\* message, whatever keys are pressed.  Information that has been overwritten
\* when it is searched again may keep the search going, but in one way only:
\* with sizes that lead it back over the top of the address space for ever.
LedBack == Step /\ walk'.ptr < walk.ptr

BootEnds ==
  hardware = "mouse" =>
    \/ <>(pc \in {"running", "blit", "halted"})
    \/ ~OutOfReach /\ []<><<LedBack>>_vars

\* Both tasks that kernel_main added keep getting their turn.
TasksKeepRunning ==
  \A t \in {"ui", "usb"} : pc = "running" ~> (pc = "running" /\ tasks[turn] = t)
=============================================================================
