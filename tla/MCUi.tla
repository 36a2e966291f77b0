--------------------------------- MODULE MCUi ---------------------------------
(***************************************************************************)
(* Two of the registry's apps, Settings and USB Manager, with their real   *)
(* rectangles and the USB icon on a 640 x 480 screen, and a pointer that   *)
(* jumps between one point of each kind of target.                         *)
(***************************************************************************)
EXTENDS Ui, TLC

MCInitRects == (0 :> Rect(150, 120, 420, 260)) @@ (1 :> Rect(260, 160, 360, 220))
MCIcons == (1 :> Rect(24, 60, 64, 64))

At(x, y) == [x |-> x, y |-> y]
\* Dragging Settings from its title bar to the USB Manager's brings the two
\* close boxes on top of each other.
MCPoints ==
  { At(20, 460),     \* start button; a window dragged here is clamped
    At(100, 410),    \* menu item of the second app
    At(50, 90),      \* its icon
    At(220, 130),    \* Settings' title bar, where ui_init puts it
    At(270, 170),    \* its fourth swatch, and the USB Manager's title bar
    At(606, 170) }   \* the USB Manager's close box

MCKeys == {"KEY_NONE", "KEY_START", "KEY_ESC", "KEY_UP", "KEY_ENTER"}
=============================================================================
