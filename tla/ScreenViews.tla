---------------------------- MODULE ScreenViews ----------------------------
(***************************************************************************)
(* What Geometry computes for a window, a canvas, a label and a pointer,   *)
(* or for a capture frame and its crops, whichever of them come together:  *)
(* a behaviour picks one such view.                                        *)
(***************************************************************************)
EXTENDS Geometry

CONSTANTS
  Areas,      \* the part of the window a canvas may fill
  Canvases,
  Labels,     \* what gfx.text may be given
  Sizings,    \* text sizes of the settings
  Pointers,   \* screen pixels the pointer may be at
  Frames,     \* sizes of a capture frame
  Crops       \* crops of the settings

Sizes == [w : Nat \ {0}, h : Nat \ {0}]
Alignments == {"start", "middle", "end"}

ASSUME ScreenAssumption ==
  /\ Areas \subseteq [x : Int, y : Int, w : Nat \ {0}, h : Nat \ {0}]
  /\ Canvases \subseteq Sizes
  /\ Labels \subseteq [at : [x : Int, y : Int], font : {"small", "normal"}, scale : Nat \ {0},
                       text : [widest : Nat, lines : Nat], align : Alignments, valign : Alignments]
  /\ Sizings \subseteq [mode : {"game", "screen"}, size : Nat \ {0}]
  /\ Pointers \subseteq [x : Int, y : Int]
  /\ Frames \subseteq Sizes
  /\ Crops \subseteq [left : Nat, right : Nat, top : Nat, bottom : Nat, mode : {"aspect", "stretch"}]

VARIABLE view    \* a choice of sizes and points on the screen, or none

NoView == [of |-> "none"]

ViewInit == view = NoView

PickView(area, canvas, label, sizing, pointer) ==
  view' = [of |-> "view", vp |-> Fit(area, canvas), area |-> area, label |-> label,
           sizing |-> sizing, pointer |-> pointer]

PickCrop(frame, crop, canvas) ==
  view' = [of |-> "crop", frame |-> frame, crop |-> crop, canvas |-> canvas,
           uv |-> CaptureUvRect(frame, crop, canvas)]

ViewNext ==
  /\ view = NoView
  /\ \/ \E a \in Areas, c \in Canvases, l \in Labels, s \in Sizings, p \in Pointers :
          PickView(a, c, l, s, p)
     \/ \E f \in Frames, c \in Crops, k \in Canvases : PickCrop(f, c, k)

ViewSpec == ViewInit /\ [][ViewNext]_view

-----------------------------------------------------------------------------
(* What the screen shows.                                                  *)

\* The pointer in the units of the view.
PointerAt(vp) == [x |-> view.pointer.x * Unit(vp), y |-> view.pointer.y * Unit(vp)]

\* Where a label begins in canvas units (times Length(vp, 1)), as a script
\* lays it out: gfx.text_width and text_height are in font pixels.
Back(vp, at, size, align) ==
  CASE align = "start" -> Length(vp, at)
    [] align = "middle" -> Length(vp, at) - size \div 2
    [] align = "end" -> Length(vp, at) - size

LaidOut(vp, sizing, label) ==
  LET px == FontPixel(vp, sizing, label.scale)
      w == TextWidth(label.font, label.text) * px
      h == TextHeight(label.font, label.text) * px
  IN  Rect([x |-> Back(vp, label.at.x, w, label.align),
            y |-> Back(vp, label.at.y, h, label.valign)], w, h)

\* The canvas is shown whole, centred and as large as the area lets it, and
\* the pointer hits what is painted: it counts as inside exactly over the
\* canvas, at the canvas point painted there, so that it is over a label's
\* box exactly when gfx.text_width and text_height, at the size the label is
\* painted with, say so.
PointerHitsWhatIsPainted ==
  view.of = "view" =>
    LET vp == view.vp
        p == PointerAt(vp)
        hit == ScreenToCanvas(vp, p)
    IN  /\ ShownWhole(view.area, vp)
        /\ hit.inside <=> Covers(ScreenRect(vp), p)
        /\ hit.inside => (Covers(TextBox(vp, view.sizing, view.label), p)
                            <=> Covers(LaidOut(vp, view.sizing, view.label), hit))

\* The part of a capture frame under the overlay is never empty and never
\* beyond the frame, however far the crops of the settings go, and in
\* keep-aspect mode it has the proportions of the canvas.
CropInFrame ==
  view.of = "crop" => ShowsPart(view.frame, view.crop, view.canvas, view.uv)
=============================================================================
