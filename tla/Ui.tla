---------------------------------- MODULE Ui ----------------------------------
(***************************************************************************)
(* ui.c and the registry of ui_apps.c: the desktop's menu, icons and       *)
(* windows, one ui_update at a time.  A rectangle is [x, y, w, h]; an app  *)
(* is its index in the registry, and a higher index is drawn on top.       *)
(***************************************************************************)
EXTENDS Integers

CONSTANTS
  AppCount,       \* UI_APP_COUNT
  InitRects,      \* ui_init's window rectangles, one per app
  Icons,          \* k_desktop_icon_rects of the apps that have one
  SettingsApp,    \* UI_APP_SETTINGS, the one app that handles clicks
  Width, Height,  \* of the framebuffer
  Keys,           \* what poll_keyboard may return
  Points          \* where poll_mouse may leave the pointer

Apps == 0 .. AppCount - 1
NoApp == -1                    \* drag_app_id when no window is dragged

Rect(x, y, w, h) == [x |-> x, y |-> y, w |-> w, h |-> h]
Rects == [x : Int, y : Int, w : Nat, h : Nat]

ASSUME RegistryAssumption ==
  /\ AppCount \in Nat \ {0}
  /\ Width \in Nat /\ Height \in Nat
  /\ InitRects \in [Apps -> Rects]
  /\ DOMAIN Icons \subseteq Apps /\ \A a \in DOMAIN Icons : Icons[a] \in Rects
  /\ SettingsApp \in Apps
  /\ \A p \in Points : p.x \in Int /\ p.y \in Int

VARIABLES
  menu_open, menu_index,
  open,           \* the apps whose open flag is set
  theme_index,
  rects,          \* the apps' window rectangles
  drag_app_id, drag_offset,
  mouse,          \* mouse_x, mouse_y
  left            \* bit 0 of prev_mouse_buttons

vars == <<menu_open, menu_index, open, theme_index, rects, drag_app_id,
          drag_offset, mouse, left>>

-----------------------------------------------------------------------------
(* Geometry *)

point_in_rect(p, r) ==
  /\ p.x >= r.x /\ p.x < r.x + r.w
  /\ p.y >= r.y /\ p.y < r.y + r.h

TaskbarY == Height - 32
start_btn == Rect(8, TaskbarY + 4, 72, 24)

menu_item_rect(i) ==
  Rect(8 + 8, TaskbarY - (AppCount * 42 + 12) + 10 + i * 42, 164, 28)

mui_window_titlebar_rect(r) == Rect(r.x + 2, r.y + 2, r.w - 4, 22)
mui_window_close_rect(r) == Rect(r.x + r.w - 22, r.y + 4, 16, 16)

\* The five theme buttons of the Settings window, where they take clicks.
swatch_rect(r, i) == Rect(r.x + 16 + i * 34, r.y + 44, 24, 24)

AtLeast0(v) == IF v < 0 THEN 0 ELSE v
MaxX(r) == AtLeast0(Width - r.w)
MaxY(r) == AtLeast0(Height - r.h - 32)

\* Mutant of Clip: the left and upper edges are not tested.
ClipAbove(v, max) == IF v > max THEN max ELSE v

Clip(v, max) == IF v < 0 THEN 0 ELSE IF v > max THEN max ELSE v

\* Mutant of clamp_rect: the taskbar is forgotten.
clamp_rect_to_screen(r) ==
  Rect(Clip(r.x, MaxX(r)), Clip(r.y, AtLeast0(Height - r.h)), r.w, r.h)

clamp_rect(r) == Rect(Clip(r.x, MaxX(r)), Clip(r.y, MaxY(r)), r.w, r.h)

-----------------------------------------------------------------------------
(* The keyboard's part of ui_update *)

MenuAfterKey(k) ==
  CASE k = "KEY_START" -> ~menu_open
    [] k \in {"KEY_ESC", "KEY_ENTER"} -> FALSE
    [] OTHER -> menu_open

\* Mutant of IndexAfterKey: the selection does not wrap upwards.
IndexAfterKeyUnwrapped(k) ==
  CASE menu_open /\ k = "KEY_UP" -> menu_index - 1
    [] menu_open /\ k \in {"KEY_DOWN", "KEY_TAB"} -> (menu_index + 1) % AppCount
    [] OTHER -> menu_index

IndexAfterKey(k) ==
  CASE menu_open /\ k = "KEY_UP" -> (menu_index + AppCount - 1) % AppCount
    [] menu_open /\ k \in {"KEY_DOWN", "KEY_TAB"} -> (menu_index + 1) % AppCount
    [] OTHER -> menu_index

OpenAfterKey(k) ==
  IF menu_open /\ k = "KEY_ENTER" THEN open \cup {menu_index} ELSE open

-----------------------------------------------------------------------------
(* A left press at p, with the menu shown or not and the apps ws open: the *)
(* first of these that is hit takes it.  Menu items and icons are tried in *)
(* ascending order, windows from the top down.                             *)

First(a, S) == a \in S /\ \A b \in S : a <= b
Topmost(a, S) == a \in S /\ \A b \in S : a >= b

ItemsAt(p, menu) == {a \in Apps : menu /\ point_in_rect(p, menu_item_rect(a))}
IconsAt(p) == {a \in DOMAIN Icons : point_in_rect(p, Icons[a])}
ClosesAt(p, ws) ==
  {a \in ws : point_in_rect(p, mui_window_close_rect(rects[a]))}
TitlesAt(p, ws) ==
  {a \in ws : point_in_rect(p, mui_window_titlebar_rect(rects[a]))}
SwatchesAt(p, ws) ==
  {i \in 0 .. 4 : SettingsApp \in ws /\ point_in_rect(p, swatch_rect(rects[SettingsApp], i))}

OnStart(p) == point_in_rect(p, start_btn)
OnMenu(p, menu) == ~OnStart(p) /\ ItemsAt(p, menu) # {}
OnIcon(p, menu) == ~OnStart(p) /\ ItemsAt(p, menu) = {} /\ IconsAt(p) # {}
OnDesktop(p, menu) == ~OnStart(p) /\ ItemsAt(p, menu) = {} /\ IconsAt(p) = {}
OnClose(p, menu, ws) == OnDesktop(p, menu) /\ ClosesAt(p, ws) # {}
OnSwatch(p, menu, ws) ==
  OnDesktop(p, menu) /\ ClosesAt(p, ws) = {} /\ SwatchesAt(p, ws) # {}
OnWindow(p, menu, ws) ==
  OnDesktop(p, menu) /\ ClosesAt(p, ws) = {} /\ SwatchesAt(p, ws) = {}

NoDragBegins == UNCHANGED <<drag_app_id, drag_offset>>

PressStart(p, menu, ws) ==
  /\ OnStart(p)
  /\ menu_open' = ~menu /\ open' = ws
  /\ UNCHANGED theme_index /\ NoDragBegins

PressMenuItem(p, menu, ws) ==
  /\ OnMenu(p, menu)
  /\ \E a \in Apps : First(a, ItemsAt(p, menu)) /\ open' = ws \cup {a}
  /\ menu_open' = FALSE
  /\ UNCHANGED theme_index /\ NoDragBegins

PressIcon(p, menu, ws) ==
  /\ OnIcon(p, menu)
  /\ \E a \in Apps : First(a, IconsAt(p)) /\ open' = ws \cup {a}
  /\ menu_open' = menu
  /\ UNCHANGED theme_index /\ NoDragBegins

\* Mutant of PressClose: the loop goes on to the windows below.
PressCloseAll(p, menu, ws) ==
  /\ OnClose(p, menu, ws)
  /\ open' = ws \ ClosesAt(p, ws)
  /\ menu_open' = menu
  /\ UNCHANGED theme_index /\ NoDragBegins

PressClose(p, menu, ws) ==
  /\ OnClose(p, menu, ws)
  /\ \E a \in Apps : Topmost(a, ClosesAt(p, ws)) /\ open' = ws \ {a}
  /\ menu_open' = menu
  /\ UNCHANGED theme_index /\ NoDragBegins

PressSwatch(p, menu, ws) ==
  /\ OnSwatch(p, menu, ws)
  /\ \E i \in 0 .. 4 : First(i, SwatchesAt(p, ws)) /\ theme_index' = i
  /\ menu_open' = menu /\ open' = ws
  /\ NoDragBegins

PressTitle(p, menu, ws) ==
  /\ OnWindow(p, menu, ws) /\ TitlesAt(p, ws) # {}
  /\ \E a \in Apps :
       /\ Topmost(a, TitlesAt(p, ws))
       /\ drag_app_id' = a
       /\ drag_offset' = [x |-> p.x - rects[a].x, y |-> p.y - rects[a].y]
  /\ menu_open' = menu /\ open' = ws
  /\ UNCHANGED theme_index

PressNothing(p, menu, ws) ==
  /\ OnWindow(p, menu, ws) /\ TitlesAt(p, ws) = {}
  /\ menu_open' = menu /\ open' = ws
  /\ UNCHANGED theme_index /\ NoDragBegins

Press(p, menu, ws) ==
  \/ PressStart(p, menu, ws)
  \/ PressMenuItem(p, menu, ws)
  \/ PressIcon(p, menu, ws)
  \/ PressClose(p, menu, ws)
  \/ PressSwatch(p, menu, ws)
  \/ PressTitle(p, menu, ws)
  \/ PressNothing(p, menu, ws)

-----------------------------------------------------------------------------
\* While the button is down the dragged window follows the pointer.
Placed(a, offset, p) ==
  clamp_rect(Rect(p.x - offset.x, p.y - offset.y, rects[a].w, rects[a].h))

FollowPointer(p, down) ==
  rects' = IF down /\ drag_app_id' # NoApp
             THEN [rects EXCEPT ![drag_app_id'] =
                     Placed(drag_app_id', drag_offset', p)]
             ELSE rects

\* Mutant of NoPress: a release does not end the drag.
NoPressKeepsDrag(k, down) ==
  /\ menu_open' = MenuAfterKey(k) /\ open' = OpenAfterKey(k)
  /\ UNCHANGED <<theme_index, drag_app_id, drag_offset>>

\* No edge of the button, or its release, which ends a drag.
NoPress(k, down) ==
  /\ menu_open' = MenuAfterKey(k) /\ open' = OpenAfterKey(k)
  /\ drag_app_id' = IF left /\ ~down THEN NoApp ELSE drag_app_id
  /\ UNCHANGED <<theme_index, drag_offset>>

\* Mutant of ui_update: the button being down is taken for a press.
ui_update_level(k, p, down) ==
  /\ menu_index' = IndexAfterKey(k)
  /\ IF down THEN Press(p, MenuAfterKey(k), OpenAfterKey(k))
             ELSE NoPress(k, down)
  /\ FollowPointer(p, down)
  /\ mouse' = p
  /\ left' = down

\* poll_keyboard returned k; poll_mouse left the pointer at p and the left
\* button down or up.
ui_update(k, p, down) ==
  /\ menu_index' = IndexAfterKey(k)
  /\ IF down /\ ~left
       THEN Press(p, MenuAfterKey(k), OpenAfterKey(k))
       ELSE NoPress(k, down)
  /\ FollowPointer(p, down)
  /\ mouse' = p
  /\ left' = down

ui_init ==
  /\ menu_open = TRUE /\ menu_index = 0
  /\ open = {}
  /\ theme_index = 2
  /\ rects = InitRects
  /\ drag_app_id = NoApp /\ drag_offset = [x |-> 0, y |-> 0]
  /\ mouse = [x |-> Width \div 2, y |-> Height \div 2]
  /\ left = FALSE

Init == ui_init
Next == \E k \in Keys, p \in Points, down \in BOOLEAN : ui_update(k, p, down)
Spec == Init /\ [][Next]_vars

-----------------------------------------------------------------------------
TypeOK ==
  /\ menu_open \in BOOLEAN /\ menu_index \in Apps
  /\ open \subseteq Apps
  /\ theme_index \in 0 .. 4
  /\ rects \in [Apps -> Rects]
  /\ drag_app_id \in Apps \cup {NoApp}
  /\ drag_offset.x \in Int /\ drag_offset.y \in Int
  /\ mouse.x \in Int /\ mouse.y \in Int
  /\ left \in BOOLEAN

\* A window is dragged only while it is open and the button is still down,
\* and it is where the pointer holds it, up to the clamp: no order of presses,
\* releases, menu keys and closes leaves a drag behind or shifts the window
\* under the pointer.
DragConsistent == drag_app_id # NoApp => drag_app_id \in open /\ left
GrabHeld ==
  drag_app_id # NoApp => rects[drag_app_id] = Placed(drag_app_id, drag_offset, mouse)

DragSound == DragConsistent /\ GrabHeld

\* A window of ui_init's that fits the screen.
Inside(r) == r.x \in 0 .. MaxX(r) /\ r.y \in 0 .. MaxY(r)
InitialWindowsFit == \A a \in Apps : Inside(InitRects[a])

\* Every window stays on the screen and above the taskbar.
WindowsOnScreen == InitialWindowsFit => \A a \in Apps : Inside(rects[a])

\* Rectangles that share a point.
Overlap(r, s) ==
  /\ r.x < s.x + s.w /\ s.x < r.x + r.w
  /\ r.y < s.y + s.h /\ s.y < r.y + r.h

\* The registry's windows are wide enough that a close box, at the right end,
\* is beyond the menu's items and the icons, at the left of the screen.
WindowsAreWide ==
  \A a \in Apps :
    /\ InitRects[a].w - 22 >= 16 + 164
    /\ \A b \in DOMAIN Icons : InitRects[a].w - 22 >= Icons[b].x + Icons[b].w

\* No window can be dragged to where its close box is under an icon, a menu
\* item or the start button, which take the press first.
BoxIsFree(box) ==
  /\ ~Overlap(box, start_btn)
  /\ \A b \in Apps : ~Overlap(box, menu_item_rect(b))
  /\ \A b \in DOMAIN Icons : ~Overlap(box, Icons[b])

CloseBoxReachable ==
  InitialWindowsFit /\ WindowsAreWide =>
    \A a \in Apps : BoxIsFree(mui_window_close_rect(rects[a]))

Closed == open \ open'
Began == drag_app_id = NoApp /\ drag_app_id' # NoApp

\* One press does one thing: it does not close a window and also start
\* dragging or recolour, and closes no second window below the first.
OneEffect ==
  /\ Began => Closed = {} /\ UNCHANGED theme_index
  /\ theme_index' # theme_index => Closed = {}
  /\ \A a, b \in Closed : a = b

OneEffectPerPress == [][OneEffect]_vars

\* Taking hold of a title bar does not move the window: the offset is taken
\* from where the window is, and the clamp leaves it there.
HeldInPlace == InitialWindowsFit /\ Began => UNCHANGED rects

\* A drag in progress is never taken over by another window, and no window
\* closes or moves otherwise and no theme changes until the button is released.
Undisturbed ==
  drag_app_id # NoApp =>
    /\ drag_app_id' \in {drag_app_id, NoApp}
    /\ Closed = {}
    /\ UNCHANGED theme_index
    /\ \A a \in Apps \ {drag_app_id} : rects'[a] = rects[a]

\* A drag begins where the window is, and ends with the button only.
DragUndisturbed == [][HeldInPlace /\ Undisturbed]_vars
=============================================================================
