--------------------------------- MODULE Screen ---------------------------------
(***************************************************************************)
(* framebuffer.c and the drawing of MagicUI.c: which words of a buffer an  *)
(* operation writes.  A buffer is [base, width, height, pitch, bpp] with   *)
(* pitch in bytes and 4 bytes to a pixel; a rectangle is [x, y, w, h].     *)
(* Coordinates are far from the limits of int.                             *)
(***************************************************************************)
EXTENDS Integers

CONSTANT Glyph     \* width and height of a character: 8

BytesPerPixel == 4

\* Where pixel (x, y) of buffer fb is.
Cell(fb, x, y) == fb.base + y * fb.pitch + x * BytesPerPixel

Visible(fb, x, y) == x \in 0 .. fb.width - 1 /\ y \in 0 .. fb.height - 1

fb_put_pixel(fb, x, y) == IF Visible(fb, x, y) THEN {Cell(fb, x, y)} ELSE {}

Least(a, b) == IF a < b THEN a ELSE b

\* The first row or column of a rectangle that is drawn.
FirstOf(c) == IF c < 0 THEN 0 ELSE c

\* Mutant of LastOf: one row or column too many.
LastOfAnd(c, size, limit) == Least(c + size, limit)

\* The last one.
LastOf(c, size, limit) == Least(c + size, limit) - 1

fb_fill_rect(fb, r) ==
  IF r.w <= 0 \/ r.h <= 0 \/ r.x + r.w < 0 \/ r.y + r.h < 0
    THEN {}
    ELSE {Cell(fb, x, y) : x \in FirstOf(r.x) .. LastOf(r.x, r.w, fb.width),
                           y \in FirstOf(r.y) .. LastOf(r.y, r.h, fb.height)}

\* The rows' colours are divided by height - 1: Boot's FramebufferTag excludes
\* a screen of one row.
fb_draw_vertical_gradient(fb) ==
  {Cell(fb, x, y) : x \in 0 .. fb.width - 1, y \in 0 .. fb.height - 1}

fb_draw_char(fb, x, y) ==
  UNION {fb_put_pixel(fb, x + col, y + row) : col, row \in 0 .. Glyph - 1}

\* A text of n characters.
fb_draw_string(fb, x, y, n) ==
  UNION {fb_draw_char(fb, x + cursor * Glyph, y) : cursor \in 0 .. n - 1}

\* What is written, and from where.
fb_blit(dst, src) ==
  IF dst.base = 0 \/ src.base = 0 THEN {}
  ELSE {[to |-> Cell(dst, x, y), from |-> Cell(src, x, y)] :
          x \in 0 .. Least(dst.width, src.width) - 1,
          y \in 0 .. Least(dst.height, src.height) - 1}

-----------------------------------------------------------------------------
(* MagicUI.c *)

\* The width of the filled part of a progress bar.
ProgressWidth(w, value, max_value) ==
  (FirstOf(w) * Least(value, max_value)) \div max_value

ProgressBar(r, value, max_value) ==
  [r EXCEPT !.w = Least(ProgressWidth(r.w, value, max_value), r.w)]

mui_draw_progress(fb, r, value, max_value) ==
  fb_fill_rect(fb, r)
    \cup IF max_value = 0 THEN {} ELSE fb_fill_rect(fb, ProgressBar(r, value, max_value))

mui_draw_button(fb, r, n) ==
  fb_fill_rect(fb, r) \cup fb_draw_string(fb, r.x + 8, r.y + 7, n)

\* The pixels of the pointer, from its corner.
PointerShape ==
  {<<0, 0>>, <<1, 1>>, <<2, 2>>, <<3, 3>>, <<1, 2>>, <<2, 1>>,
   <<4, 4>>, <<5, 5>>, <<5, 4>>, <<4, 5>>}

mui_draw_cursor(fb, x, y) ==
  UNION {fb_put_pixel(fb, x + d[1], y + d[2]) : d \in PointerShape}

-----------------------------------------------------------------------------
(* What drawing means *)

Buffers == [base : Nat, width : Nat, height : Nat, pitch : Nat, bpp : Nat]
Rects   == [x : Int, y : Int, w : Int, h : Int]

\* The pixels of a rectangle, on the screen or not.
Pixels(r) == (r.x .. r.x + r.w - 1) \X (r.y .. r.y + r.h - 1)

\* The words of those pixels that are on the screen.
CellsOf(fb, pixels) == {Cell(fb, p[1], p[2]) : p \in {q \in pixels : Visible(fb, q[1], q[2])}}

TextPixels(x, y, n) ==
  Pixels([x |-> x, y |-> y, w |-> Glyph * n, h |-> IF n = 0 THEN 0 ELSE Glyph])

\* Every byte of the word at c is the buffer's.
InBuffer(fb, c) ==
  fb.base <= c /\ c + BytesPerPixel <= fb.base + fb.pitch * fb.height

\* A buffer whose rows hold their pixels.
Sound(fb) == fb.width * BytesPerPixel <= fb.pitch
=============================================================================
