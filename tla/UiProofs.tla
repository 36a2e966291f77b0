------------------------------- MODULE UiProofs -------------------------------
(***************************************************************************)
(* Theorems about Ui, for every registry, screen size and pointer.  The    *)
(* invariant adds to the properties only the type of the state.            *)
(***************************************************************************)
EXTENDS Ui, TLAPS

Inv == TypeOK /\ DragConsistent /\ GrabHeld

-----------------------------------------------------------------------------
\* A clipped coordinate lies between 0 and the limit.
LEMMA ClipBounds ==
  ASSUME NEW v \in Int, NEW max \in Nat
  PROVE  Clip(v, max) \in 0 .. max
BY DEF Clip

\* Clamping keeps a rectangle's size and brings it onto the screen.
LEMMA ClampInside ==
  ASSUME NEW r \in Rects
  PROVE  clamp_rect(r) \in Rects /\ Inside(clamp_rect(r))
<1> DEFINE c == clamp_rect(r)
<1>1. r.x \in Int /\ r.y \in Int /\ r.w \in Nat /\ r.h \in Nat
  BY DEF Rects
<1>2. MaxX(r) \in Nat /\ MaxY(r) \in Nat
  BY <1>1, RegistryAssumption DEF MaxX, MaxY, AtLeast0
<1>3. Clip(r.x, MaxX(r)) \in 0 .. MaxX(r) /\ Clip(r.y, MaxY(r)) \in 0 .. MaxY(r)
  BY <1>1, <1>2, ClipBounds
<1>4. /\ c \in Rects
      /\ c.x = Clip(r.x, MaxX(r)) /\ c.y = Clip(r.y, MaxY(r))
      /\ c.w = r.w /\ c.h = r.h
  BY <1>1, <1>2, <1>3 DEF clamp_rect, Rect, Rects
<1>5. MaxX(c) = MaxX(r) /\ MaxY(c) = MaxY(r)
  BY <1>4 DEF MaxX, MaxY
<1> QED
  BY <1>3, <1>4, <1>5 DEF Inside

\* Where a held window is put is a rectangle of the same size on the screen.
LEMMA PlacedInside ==
  ASSUME TypeOK, NEW a \in Apps,
         NEW off, off.x \in Int, off.y \in Int,
         NEW p, p.x \in Int, p.y \in Int
  PROVE  LET r == Placed(a, off, p)
         IN  r \in Rects /\ Inside(r) /\ r.w = rects[a].w /\ r.h = rects[a].h
<1> DEFINE r == Rect(p.x - off.x, p.y - off.y, rects[a].w, rects[a].h)
<1>1. rects[a] \in Rects
  BY DEF TypeOK
<1>2. r \in Rects
  BY <1>1 DEF Rect, Rects
<1>3. clamp_rect(r).w = rects[a].w /\ clamp_rect(r).h = rects[a].h
  BY DEF clamp_rect, Rect
<1>4. Placed(a, off, p) = clamp_rect(r)
  BY DEF Placed
<1> QED
  BY <1>2, <1>3, <1>4, ClampInside

-----------------------------------------------------------------------------
\* A press leaves the menu, the open windows, the theme and the drag in range.
\* A drag that begins is of an open window under the pointer.
LEMMA PressTypes ==
  ASSUME TypeOK, NEW p \in Points, NEW menu \in BOOLEAN,
         NEW ws \in SUBSET Apps, Press(p, menu, ws)
  PROVE  /\ menu_open' \in BOOLEAN /\ open' \subseteq Apps
         /\ theme_index' \in 0 .. 4
         /\ drag_app_id' \in Apps \cup {NoApp}
         /\ drag_offset'.x \in Int /\ drag_offset'.y \in Int
         /\ \/ UNCHANGED <<drag_app_id, drag_offset>>
            \/ drag_app_id' \in open'
<1> USE DEF TypeOK, NoDragBegins
<1>1. CASE PressStart(p, menu, ws)
  BY <1>1 DEF PressStart
<1>2. CASE PressMenuItem(p, menu, ws)
  BY <1>2 DEF PressMenuItem
<1>3. CASE PressIcon(p, menu, ws)
  BY <1>3 DEF PressIcon
<1>4. CASE PressClose(p, menu, ws)
  BY <1>4 DEF PressClose
<1>5. CASE PressSwatch(p, menu, ws)
  BY <1>5 DEF PressSwatch
<1>6. CASE PressTitle(p, menu, ws)
  <2>1. PICK a \in Apps :
          /\ Topmost(a, TitlesAt(p, ws))
          /\ drag_app_id' = a
          /\ drag_offset' = [x |-> p.x - rects[a].x, y |-> p.y - rects[a].y]
    BY <1>6 DEF PressTitle
  <2>2. rects[a].x \in Int /\ rects[a].y \in Int
    BY DEF Rects
  <2>3. p.x \in Int /\ p.y \in Int
    BY RegistryAssumption
  <2>4. a \in ws
    BY <2>1 DEF Topmost, TitlesAt
  <2> QED
    BY <1>6, <2>1, <2>2, <2>3, <2>4 DEF PressTitle
<1>7. CASE PressNothing(p, menu, ws)
  BY <1>7 DEF PressNothing
<1> QED
  BY <1>1, <1>2, <1>3, <1>4, <1>5, <1>6, <1>7 DEF Press

\* What the keyboard's part of ui_update makes of the menu is in range, and
\* it closes nothing.
LEMMA KeyTypes ==
  ASSUME TypeOK, NEW k
  PROVE  /\ MenuAfterKey(k) \in BOOLEAN
         /\ IndexAfterKey(k) \in Apps
         /\ OpenAfterKey(k) \in SUBSET Apps /\ open \subseteq OpenAfterKey(k)
<1>1. AppCount \in Nat \ {0} /\ menu_index \in 0 .. AppCount - 1
  BY RegistryAssumption DEF TypeOK, Apps
<1>2. MenuAfterKey(k) \in BOOLEAN
  BY DEF TypeOK, MenuAfterKey
<1>3. IndexAfterKey(k) \in Apps
  <2>1. (menu_index + AppCount - 1) % AppCount \in Apps
    BY <1>1 DEF Apps
  <2>2. (menu_index + 1) % AppCount \in Apps
    BY <1>1 DEF Apps
  <2>3. menu_index \in Apps
    BY DEF TypeOK
  <2> QED
    BY <2>1, <2>2, <2>3 DEF IndexAfterKey
<1>4. OpenAfterKey(k) \in SUBSET Apps /\ open \subseteq OpenAfterKey(k)
  BY DEF TypeOK, OpenAfterKey
<1> QED
  BY <1>2, <1>3, <1>4

\* ui_update leaves menu, theme and pointer in range, and a drag only of an
\* open window and with the button down.
LEMMA UpdateTypes ==
  ASSUME Inv, NEW k \in Keys, NEW p \in Points, NEW down \in BOOLEAN,
         ui_update(k, p, down)
  PROVE  /\ menu_open' \in BOOLEAN /\ menu_index' \in Apps
         /\ open' \subseteq Apps
         /\ theme_index' \in 0 .. 4
         /\ drag_app_id' \in Apps \cup {NoApp}
         /\ drag_offset'.x \in Int /\ drag_offset'.y \in Int
         /\ drag_app_id' # NoApp => drag_app_id' \in open' /\ down
<1> DEFINE menu == MenuAfterKey(k)
           ws == OpenAfterKey(k)
<1>1. TypeOK /\ DragConsistent
  BY DEF Inv
<1>2. menu \in BOOLEAN /\ ws \in SUBSET Apps /\ open \subseteq ws
  BY <1>1, KeyTypes
<1>3. menu_index' \in Apps
  BY <1>1, KeyTypes DEF ui_update
<1>4. CASE down /\ ~left
  <2>1. Press(p, menu, ws)
    BY <1>4 DEF ui_update
  <2>2. drag_app_id = NoApp
    BY <1>1, <1>4 DEF DragConsistent
  <2> HIDE DEF menu, ws
  <2> QED
    BY <1>1, <1>2, <1>3, <1>4, <2>1, <2>2, PressTypes
<1>5. CASE ~(down /\ ~left)
  <2>1. NoPress(k, down)
    BY <1>5 DEF ui_update
  <2>2. menu_open' = menu /\ open' = ws /\ UNCHANGED <<theme_index, drag_offset>>
    BY <2>1 DEF NoPress
  <2>3. drag_app_id' = NoApp \/ (drag_app_id' = drag_app_id /\ ~(left /\ ~down))
    BY <2>1 DEF NoPress
  <2> HIDE DEF menu, ws
  <2> QED
    BY <1>1, <1>2, <1>3, <2>2, <2>3 DEF TypeOK, DragConsistent
<1> QED
  BY <1>4, <1>5

\* Where ui_update leaves the windows: only the dragged one moves, to where
\* the pointer holds it.
LEMMA UpdateRects ==
  ASSUME Inv, NEW k \in Keys, NEW p \in Points, NEW down \in BOOLEAN,
         ui_update(k, p, down)
  PROVE  /\ rects' \in [Apps -> Rects]
         /\ drag_app_id' = NoApp => rects' = rects
         /\ drag_app_id' # NoApp =>
              /\ rects'[drag_app_id'] = Placed(drag_app_id', drag_offset', p)
              /\ rects'[drag_app_id'].w = rects[drag_app_id'].w
              /\ rects'[drag_app_id'].h = rects[drag_app_id'].h
              /\ Inside(rects'[drag_app_id'])
         /\ \A a \in Apps \ {drag_app_id'} : rects'[a] = rects[a]
<1>1. TypeOK
  BY DEF Inv
<1>2. rects \in [Apps -> Rects]
  BY <1>1 DEF TypeOK
<1>3. FollowPointer(p, down)
  BY DEF ui_update
<1>4. CASE drag_app_id' = NoApp
  BY <1>2, <1>3, <1>4 DEF FollowPointer
<1>5. CASE drag_app_id' # NoApp
  <2> DEFINE a == drag_app_id'
             r == Placed(a, drag_offset', p)
  <2>1. /\ a \in Apps /\ down
        /\ drag_offset'.x \in Int /\ drag_offset'.y \in Int
    BY <1>5, UpdateTypes
  <2>2. p.x \in Int /\ p.y \in Int
    BY RegistryAssumption
  <2>3. rects' = [rects EXCEPT ![a] = r]
    BY <1>3, <1>5, <2>1 DEF FollowPointer
  <2>4. r \in Rects /\ Inside(r) /\ r.w = rects[a].w /\ r.h = rects[a].h
    BY <1>1, <2>1, <2>2, PlacedInside
  <2> HIDE DEF r
  <2> QED
    BY <1>2, <1>5, <2>1, <2>3, <2>4 DEF r
<1> QED
  BY <1>4, <1>5

-----------------------------------------------------------------------------
\* ui_init establishes the invariant.
LEMMA InitInv == Init => Inv
<1> SUFFICES ASSUME Init PROVE Inv
  OBVIOUS
<1>1. Width \div 2 \in Int /\ Height \div 2 \in Int
  BY RegistryAssumption
<1>2. TypeOK
  <2>1. 0 \in Apps
    BY RegistryAssumption DEF Apps
  <2>2. drag_offset.x \in Int /\ drag_offset.y \in Int
    BY DEF Init, ui_init
  <2>3. mouse.x \in Int /\ mouse.y \in Int
    BY <1>1 DEF Init, ui_init
  <2>4. rects \in [Apps -> Rects]
    BY RegistryAssumption DEF Init, ui_init
  <2>5. menu_open \in BOOLEAN /\ left \in BOOLEAN
    BY Zenon DEF Init, ui_init
  <2>6. /\ menu_index \in Apps /\ open \subseteq Apps
        /\ theme_index \in 0 .. 4 /\ drag_app_id \in Apps \cup {NoApp}
    BY <2>1 DEF Init, ui_init
  <2> QED
    BY <2>2, <2>3, <2>4, <2>5, <2>6 DEF TypeOK
<1> QED
  BY <1>2 DEF Init, ui_init, Inv, DragConsistent, GrabHeld

\* ui_update keeps it.
LEMMA UpdateInv ==
  ASSUME Inv, NEW k \in Keys, NEW p \in Points, NEW down \in BOOLEAN,
         ui_update(k, p, down)
  PROVE  Inv'
<1>1. mouse' = p /\ left' = down
  BY DEF ui_update
<1>2. TypeOK'
  <2>1. mouse'.x \in Int /\ mouse'.y \in Int
    BY <1>1, RegistryAssumption
  <2> QED
    BY <1>1, <2>1, UpdateTypes, UpdateRects DEF TypeOK
<1>3. DragConsistent'
  BY <1>1, UpdateTypes DEF DragConsistent
<1>4. GrabHeld'
  BY <1>1, UpdateRects DEF GrabHeld, Placed
<1> QED
  BY <1>2, <1>3, <1>4 DEF Inv

\* So does every step.
LEMMA StepInv == Inv /\ [Next]_vars => Inv'
<1> SUFFICES ASSUME Inv, [Next]_vars PROVE Inv'
  OBVIOUS
<1>1. CASE Next
  BY <1>1, UpdateInv DEF Next
<1>2. CASE UNCHANGED vars
  BY <1>2 DEF vars, Inv, TypeOK, DragConsistent, GrabHeld, Placed
<1> QED
  BY <1>1, <1>2

\* The state of ui_state always has its type, no drag outlives its window or
\* its press, and the dragged window is where the pointer holds it.
THEOREM Invariance == Spec => []Inv
  BY InitInv, StepInv, PTL DEF Spec

\* ui_state's fields stay in range, menu_index and drag_app_id included.
THEOREM TypeCorrect == Spec => []TypeOK
<1>1. Inv => TypeOK
  BY DEF Inv
<1> QED
  BY <1>1, Invariance, PTL

\* drag_app_id names an open window, and only while the button is down; that
\* window is where the pointer holds it, up to the clamp.
THEOREM DragsAreSound == Spec => []DragSound
<1>1. Inv => DragSound
  BY DEF Inv, DragSound
<1> QED
  BY <1>1, Invariance, PTL

\* Every window stays on the screen and above the taskbar, if ui_init's do.
THEOREM WindowsStayOnScreen == Spec => []WindowsOnScreen
<1>1. Init => WindowsOnScreen
  BY DEF Init, ui_init, WindowsOnScreen, InitialWindowsFit
<1>2. Inv /\ WindowsOnScreen /\ [Next]_vars => WindowsOnScreen'
  <2> SUFFICES ASSUME Inv, WindowsOnScreen, [Next]_vars, InitialWindowsFit,
                      NEW a \in Apps
               PROVE  Inside(rects'[a])
    BY DEF WindowsOnScreen
  <2>1. Inside(rects[a])
    BY DEF WindowsOnScreen
  <2>2. CASE Next
    <3>1. PICK k \in Keys, p \in Points, down \in BOOLEAN : ui_update(k, p, down)
      BY <2>2 DEF Next
    <3>2. CASE a = drag_app_id'
      BY <3>1, <3>2, UpdateRects DEF Apps, NoApp
    <3>3. CASE a # drag_app_id'
      BY <2>1, <3>1, <3>3, UpdateRects
    <3> QED
      BY <3>2, <3>3
  <2>3. CASE UNCHANGED vars
    BY <2>1, <2>3 DEF vars
  <2> QED
    BY <2>2, <2>3
<1> QED
  BY <1>1, <1>2, Invariance, PTL DEF Spec

\* Dragging does not change a window's size.
SizesKept == \A a \in Apps : rects[a].w = InitRects[a].w

\* A window on the screen whose size is the registry's has its close box to
\* the right of everything that takes a press before it.
LEMMA BoxFree ==
  ASSUME TypeOK, WindowsAreWide, NEW a \in Apps,
         Inside(rects[a]), rects[a].w = InitRects[a].w
  PROVE  BoxIsFree(mui_window_close_rect(rects[a]))
<1> DEFINE box == mui_window_close_rect(rects[a])
<1>1. rects[a].x \in Nat /\ rects[a].y \in Nat /\ rects[a].w \in Nat
  BY DEF TypeOK, Rects, Inside
<1>2. /\ box.x \in Int /\ box.y \in Int /\ box.w = 16 /\ box.h = 16
      /\ box.x >= InitRects[a].w - 22
  BY <1>1 DEF mui_window_close_rect, Rect
<1>3. InitRects[a].w \in Nat
  BY RegistryAssumption DEF Rects
<1> HIDE DEF box
<1>4. ~Overlap(box, start_btn)
  <2>1. start_btn.x = 8 /\ start_btn.w = 72
    BY DEF start_btn, Rect
  <2> QED
    BY <1>2, <1>3, <2>1 DEF Overlap, WindowsAreWide
<1>5. ASSUME NEW b \in Apps PROVE ~Overlap(box, menu_item_rect(b))
  <2>1. menu_item_rect(b).x = 16 /\ menu_item_rect(b).w = 164
    BY DEF menu_item_rect, Rect
  <2> QED
    BY <1>2, <1>3, <2>1 DEF Overlap, WindowsAreWide
<1>6. ASSUME NEW b \in DOMAIN Icons PROVE ~Overlap(box, Icons[b])
  <2>1. Icons[b].x \in Int /\ Icons[b].w \in Nat
    BY RegistryAssumption DEF Rects
  <2> QED
    BY <1>2, <1>3, <2>1 DEF Overlap, WindowsAreWide
<1> QED
  BY <1>4, <1>5, <1>6 DEF BoxIsFree, box

\* Wherever the windows are dragged, a press in a close box is not taken by
\* the start button, a menu item or an icon.
THEOREM CloseBoxesStayReachable == Spec => []CloseBoxReachable
<1>1. Init => SizesKept
  BY DEF Init, ui_init, SizesKept
<1>2. Inv /\ SizesKept /\ [Next]_vars => SizesKept'
  <2> SUFFICES ASSUME Inv, SizesKept, [Next]_vars, NEW a \in Apps
               PROVE  rects'[a].w = rects[a].w
    BY DEF SizesKept
  <2>1. CASE Next
    <3>1. PICK k \in Keys, p \in Points, down \in BOOLEAN : ui_update(k, p, down)
      BY <2>1 DEF Next
    <3>2. CASE a = drag_app_id'
      BY <3>1, <3>2, UpdateRects DEF Apps, NoApp
    <3>3. CASE a # drag_app_id'
      BY <3>1, <3>3, UpdateRects
    <3> QED
      BY <3>2, <3>3
  <2>2. CASE UNCHANGED vars
    BY <2>2 DEF vars
  <2> QED
    BY <2>1, <2>2
<1>3. Inv /\ SizesKept /\ WindowsOnScreen => CloseBoxReachable
  <2> SUFFICES ASSUME Inv, SizesKept, WindowsOnScreen, InitialWindowsFit,
                      WindowsAreWide, NEW a \in Apps
               PROVE  BoxIsFree(mui_window_close_rect(rects[a]))
    BY DEF CloseBoxReachable
  <2> QED
    BY BoxFree DEF Inv, SizesKept, WindowsOnScreen
<1> QED
  BY <1>1, <1>2, <1>3, Invariance, WindowsStayOnScreen, PTL DEF Spec

\* Until the button is released, a drag keeps its window, closes none, moves
\* no other and leaves the theme alone.
LEMMA DragStep == Inv /\ [Next]_vars => [Undisturbed]_vars
<1> SUFFICES ASSUME Inv, Next, drag_app_id # NoApp
             PROVE  /\ drag_app_id' \in {drag_app_id, NoApp}
                    /\ Closed = {}
                    /\ UNCHANGED theme_index
                    /\ \A a \in Apps \ {drag_app_id} : rects'[a] = rects[a]
  BY DEF Undisturbed
<1>1. PICK k \in Keys, p \in Points, down \in BOOLEAN : ui_update(k, p, down)
  BY DEF Next
<1>2. left
  BY DEF Inv, DragConsistent
<1>3. NoPress(k, down)
  BY <1>1, <1>2 DEF ui_update
<1>4. drag_app_id' \in {drag_app_id, NoApp} /\ UNCHANGED theme_index
  BY <1>3 DEF NoPress
<1>5. open' = OpenAfterKey(k)
  BY <1>3 DEF NoPress
<1>6. Closed = {}
  BY <1>5, KeyTypes DEF Closed, Inv
<1>7. ASSUME NEW a \in Apps \ {drag_app_id} PROVE rects'[a] = rects[a]
  <2>1. CASE drag_app_id' = NoApp
    BY <1>1, <2>1, UpdateRects
  <2>2. CASE drag_app_id' # NoApp
    BY <1>1, <1>4, <2>2, UpdateRects
  <2> QED
    BY <2>1, <2>2
<1> QED
  BY <1>4, <1>6, <1>7

\* One press closes at most one window, and does not also begin a drag or
\* change the theme.
THEOREM PressesHaveOneEffect == Spec => OneEffectPerPress
<1>1. Inv /\ [Next]_vars => [OneEffect]_vars
  <2> SUFFICES ASSUME Inv, Next PROVE OneEffect
    OBVIOUS
  <2>1. PICK k \in Keys, p \in Points, down \in BOOLEAN : ui_update(k, p, down)
    BY DEF Next
  <2> DEFINE menu == MenuAfterKey(k)
             ws == OpenAfterKey(k)
  <2>2. open \subseteq ws
    BY KeyTypes DEF Inv
  <2>3. CASE ~(down /\ ~left)
    <3>1. NoPress(k, down)
      BY <2>1, <2>3 DEF ui_update
    <3>2. open' = ws /\ UNCHANGED theme_index
      BY <3>1 DEF NoPress
    <3>3. drag_app_id' = drag_app_id \/ drag_app_id' = NoApp
      BY <3>1 DEF NoPress
    <3> HIDE DEF ws
    <3> QED
      BY <2>2, <3>2, <3>3 DEF OneEffect, Closed, Began
  <2>4. CASE down /\ ~left
    <3>1. Press(p, menu, ws)
      BY <2>1, <2>4 DEF ui_update
    <3> HIDE DEF menu, ws
    <3> USE DEF OneEffect, Closed, Began, NoDragBegins
    <3>2. CASE PressStart(p, menu, ws)
      BY <2>2, <3>2 DEF PressStart
    <3>3. CASE PressMenuItem(p, menu, ws)
      BY <2>2, <3>3 DEF PressMenuItem
    <3>4. CASE PressIcon(p, menu, ws)
      BY <2>2, <3>4 DEF PressIcon
    <3>5. CASE PressClose(p, menu, ws)
      BY <2>2, <3>5 DEF PressClose
    <3>6. CASE PressSwatch(p, menu, ws)
      BY <2>2, <3>6 DEF PressSwatch
    <3>7. CASE PressTitle(p, menu, ws)
      BY <2>2, <3>7 DEF PressTitle
    <3>8. CASE PressNothing(p, menu, ws)
      BY <2>2, <3>8 DEF PressNothing
    <3> QED
      BY <3>1, <3>2, <3>3, <3>4, <3>5, <3>6, <3>7, <3>8 DEF Press
  <2> QED
    BY <2>3, <2>4
<1> QED
  BY <1>1, Invariance, PTL DEF Spec, OneEffectPerPress

\* Clamping a window that is on the screen leaves it where it is.
LEMMA ClampFixed ==
  ASSUME NEW r \in Rects, Inside(r)
  PROVE  clamp_rect(r) = r
<1>1. r.x \in Int /\ r.y \in Int /\ r = Rect(r.x, r.y, r.w, r.h)
  BY DEF Rects, Rect
<1>2. MaxX(r) \in Nat /\ MaxY(r) \in Nat
  BY RegistryAssumption DEF MaxX, MaxY, AtLeast0, Rects
<1>3. Clip(r.x, MaxX(r)) = r.x /\ Clip(r.y, MaxY(r)) = r.y
  BY <1>1, <1>2 DEF Inside, Clip
<1> QED
  BY <1>1, <1>3 DEF clamp_rect

\* Taking hold of a title bar does not move the window.
LEMMA GrabStep == Inv /\ WindowsOnScreen /\ [Next]_vars => [HeldInPlace]_vars
<1> SUFFICES ASSUME Inv, WindowsOnScreen, Next, InitialWindowsFit, Began
             PROVE  rects' = rects
  BY DEF HeldInPlace
<1>1. PICK k \in Keys, p \in Points, down \in BOOLEAN : ui_update(k, p, down)
  BY DEF Next
<1> DEFINE menu == MenuAfterKey(k)
           ws == OpenAfterKey(k)
<1>2. PressTitle(p, menu, ws) /\ down
  <2>1. down /\ ~left
    BY <1>1 DEF ui_update, NoPress, Began
  <2>2. Press(p, menu, ws)
    BY <1>1, <2>1 DEF ui_update
  <2> HIDE DEF menu, ws
  <2> QED
    BY <2>1, <2>2 DEF Press, PressStart, PressMenuItem, PressIcon, PressClose,
                      PressSwatch, PressNothing, NoDragBegins, Began
<1> HIDE DEF menu, ws
<1>3. PICK a \in Apps :
        /\ drag_app_id' = a
        /\ drag_offset' = [x |-> p.x - rects[a].x, y |-> p.y - rects[a].y]
  BY <1>2 DEF PressTitle
<1>4. rects \in [Apps -> Rects] /\ rects[a] \in Rects /\ Inside(rects[a])
  BY DEF Inv, TypeOK, WindowsOnScreen
<1>5. /\ p.x \in Int /\ p.y \in Int
      /\ rects[a].x \in Int /\ rects[a].y \in Int
      /\ rects[a] = Rect(rects[a].x, rects[a].y, rects[a].w, rects[a].h)
  BY <1>4, RegistryAssumption DEF Rects, Rect
<1>6. /\ p.x - drag_offset'.x = rects[a].x
      /\ p.y - drag_offset'.y = rects[a].y
  BY <1>3, <1>5
<1>7. Placed(a, drag_offset', p) = rects[a]
  BY <1>4, <1>5, <1>6, ClampFixed DEF Placed
<1>8. rects' = [rects EXCEPT ![a] = Placed(a, drag_offset', p)]
  BY <1>1, <1>2, <1>3 DEF ui_update, FollowPointer, Apps, NoApp
<1> QED
  BY <1>4, <1>7, <1>8

\* So a drag begins with the window where it is and, until the button is
\* released, keeps its window, closes none and moves no other.
THEOREM DragsAreUndisturbed == Spec => DragUndisturbed
<1>1. Inv /\ WindowsOnScreen /\ [Next]_vars => [HeldInPlace /\ Undisturbed]_vars
  BY DragStep, GrabStep
<1> QED
  BY <1>1, Invariance, WindowsStayOnScreen, PTL DEF Spec, DragUndisturbed
=============================================================================
