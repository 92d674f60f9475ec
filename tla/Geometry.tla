------------------------------ MODULE Geometry ------------------------------
(***************************************************************************)
(* Where things land on the screen: the viewport that fits a script's      *)
(* canvas into the window and maps the pointer back (sni-render/paint.rs), *)
(* the box a label fills, the part of a capture frame that is shown under  *)
(* the overlay and the size of the stream window (sni-lua-app/main.rs).    *)
(*                                                                         *)
(* The code computes in f32, this module exactly: a length on the screen   *)
(* is an integer number of units of which a viewport has Unit to a screen  *)
(* pixel, so that every result the code gets by a division is whole.       *)
(***************************************************************************)
EXTENDS Integers

SNES_W == 256
SNES_H == 224

Lesser(a, b) == IF a < b THEN a ELSE b
Larger(a, b) == IF a < b THEN b ELSE a
Within(x, lo, hi) == Larger(lo, Lesser(x, hi))

\* Canvas::scaled and Canvas::custom.
Scaled(n) == [w |-> SNES_W * Within(n, 1, 8), h |-> SNES_H * Within(n, 1, 8)]
Custom(w, h) == [w |-> Within(w, 16, 4096), h |-> Within(h, 16, 4096)]

-----------------------------------------------------------------------------
(* Viewport.  Its scale is num / den screen pixels per canvas pixel.       *)

Unit(vp) == 2 * SNES_W * vp.den

\* area.width() / canvas.w is the smaller of the two scales.
WidthBinds(area, canvas) == area.w * canvas.h <= area.h * canvas.w

Fit(area, canvas) ==
  LET wide == WidthBinds(area, canvas)
      num == IF wide THEN area.w ELSE area.h
      den == IF wide THEN canvas.w ELSE canvas.h
      Centre(at, size, length) == SNES_W * (den * (2 * at + size) - length * num)
  IN  [num |-> num, den |-> den, canvas |-> canvas,
       x |-> Centre(area.x, area.w, canvas.w), y |-> Centre(area.y, area.h, canvas.h)]

\* A canvas length on the screen, and a canvas point.
Length(vp, length) == 2 * SNES_W * vp.num * length
Pt(vp, p) == [x |-> vp.x + Length(vp, p.x), y |-> vp.y + Length(vp, p.y)]

\* A rectangle of the screen, edges included.
Rect(at, w, h) == [left |-> at.x, right |-> at.x + w, top |-> at.y, bottom |-> at.y + h]
Covers(r, p) == r.left <= p.x /\ p.x <= r.right /\ r.top <= p.y /\ p.y <= r.bottom

ScreenRect(vp) == Rect([x |-> vp.x, y |-> vp.y], Length(vp, vp.canvas.w), Length(vp, vp.canvas.h))

\* Mutant of ScreenToCanvas: the letterbox is forgotten.
ScreenToCanvasNoOrigin(vp, p) ==
  IF \/ vp.num <= 0 \/ p.x < 0 \/ p.y < 0
     \/ p.x > Length(vp, vp.canvas.w) \/ p.y > Length(vp, vp.canvas.h)
  THEN [inside |-> FALSE, x |-> 0, y |-> 0]
  ELSE [inside |-> TRUE, x |-> p.x, y |-> p.y]

\* The canvas point under a screen point, times Length(vp, 1).
ScreenToCanvas(vp, p) ==
  LET x == p.x - vp.x
      y == p.y - vp.y
  IN  IF \/ vp.num <= 0 \/ x < 0 \/ y < 0
         \/ x > Length(vp, vp.canvas.w) \/ y > Length(vp, vp.canvas.h)
      THEN [inside |-> FALSE, x |-> 0, y |-> 0]
      ELSE [inside |-> TRUE, x |-> x, y |-> y]

-----------------------------------------------------------------------------
(* Fonts and labels.  Text is [widest, lines]: characters of its longest   *)
(* line, and lines.                                                        *)

Width(font) == IF font = "normal" THEN 8 ELSE 5
Height(font) == IF font = "normal" THEN 8 ELSE 7
Advance(font) == Width(font) + 1
LineAdvance(font) == Height(font) + 1

\* gfx.text_width and gfx.text_height, which lay out in font pixels.
TextWidth(font, text) == text.widest * Advance(font)
TextHeight(font, text) == Larger(text.lines, 1) * LineAdvance(font)

\* The size of a font pixel on the screen; sizing is ["game", mult] or
\* ["screen", px], and neither gets it below one screen pixel.
FontPixel(vp, sizing, scale) ==
  Larger(IF sizing.mode = "game" THEN 2 * vp.num * vp.canvas.w * sizing.size * scale
                                 ELSE Unit(vp) * sizing.size * scale,
         Unit(vp))

\* How far a label of a size begins before its anchor.
Anchor(align, size) ==
  CASE align = "start" -> 0 [] align = "middle" -> size \div 2 [] align = "end" -> size

\* The box a label fills, anchored at a canvas point.
TextBox(vp, sizing, label) ==
  LET px == FontPixel(vp, sizing, label.scale)
      w == TextWidth(label.font, label.text) * px
      h == TextHeight(label.font, label.text) * px
      at == Pt(vp, label.at)
  IN  Rect([x |-> at.x - Anchor(label.align, w), y |-> at.y - Anchor(label.valign, h)], w, h)

-----------------------------------------------------------------------------
(* capture_uv_rect: crop is [left, right, top, bottom, mode]; the result   *)
(* is in frame pixels, times 2 canvas.h across and 2 canvas.w down.        *)

\* Mutant of CropEdges: crops that meet leave nothing.
CropEdgesEmpty(size, before, after) ==
  [from |-> Lesser(before, size - 1), to |-> size - Lesser(after, size - 1)]

CropEdges(size, before, after) ==
  LET from == Lesser(before, size - 1)
      to == size - Lesser(after, size - 1)
  IN  [from |-> from, to |-> IF to <= from THEN Lesser(from + 1, size) ELSE to]

CaptureUvRect(frame, crop, canvas) ==
  LET across == CropEdges(frame.w, crop.left, crop.right)
      down == CropEdges(frame.h, crop.top, crop.bottom)
      w == (across.to - across.from) * canvas.h      \* the crop's two sides in
      h == (down.to - down.from) * canvas.w          \* canvas proportions
      dx == IF crop.mode = "aspect" /\ w > h THEN w - h ELSE 0
      dy == IF crop.mode = "aspect" /\ w < h THEN h - w ELSE 0
  IN  [left |-> 2 * canvas.h * across.from + dx, right |-> 2 * canvas.h * across.to - dx,
       top |-> 2 * canvas.w * down.from + dy, bottom |-> 2 * canvas.w * down.to - dy]

\* stream_scale_for, in automatic mode.
StreamScaleFor(canvas) == Within(Lesser(960 \div canvas.w, 900 \div canvas.h), 1, 8)

-----------------------------------------------------------------------------
(* Properties of the results.                                              *)

\* The canvas is shown whole, centred, and as large as the window lets it: it
\* touches two opposite edges.
ShownWhole(area, vp) ==
  LET u == Unit(vp)
      shown == ScreenRect(vp)
  IN  /\ u * area.x <= shown.left /\ shown.right <= u * (area.x + area.w)
      /\ u * area.y <= shown.top /\ shown.bottom <= u * (area.y + area.h)
      /\ shown.left - u * area.x = u * (area.x + area.w) - shown.right
      /\ shown.top - u * area.y = u * (area.y + area.h) - shown.bottom
      /\ shown.left = u * area.x \/ shown.top = u * area.y

\* A part of the frame, not empty and not beyond it, and in keep-aspect mode
\* with the proportions of the canvas.
ShowsPart(frame, crop, canvas, uv) ==
  /\ 0 <= uv.left /\ uv.left < uv.right /\ uv.right <= 2 * canvas.h * frame.w
  /\ 0 <= uv.top /\ uv.top < uv.bottom /\ uv.bottom <= 2 * canvas.w * frame.h
  /\ crop.mode = "aspect" => uv.right - uv.left = uv.bottom - uv.top
=============================================================================
