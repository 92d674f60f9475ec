------------------------------ MODULE DrawCalls ------------------------------
(***************************************************************************)
(* The gfx calls of a script and the draw list they leave behind           *)
(* (sni-lua-api/src/lib.rs): the calls of one frame share a font, a stack  *)
(* of origins and a compound path, kept by the host from call to call and  *)
(* from frame to frame.                                                    *)
(*                                                                         *)
(* A point is a number; a primitive is the points it is given.  Colours,   *)
(* sizes and thicknesses are handed through and left out.                  *)
(***************************************************************************)
EXTENDS Integers, Sequences, FiniteSets, FiniteSetsExt

CONSTANTS
  Points,      \* coordinates scripts use
  MaxCalls     \* bound: gfx calls in a frame

ASSUME DrawAssumption == Points \subseteq Int /\ MaxCalls \in Nat

SmallFont == "small"       \* Font::default()
NormalFont == "normal"

VARIABLES
  in_frame,        \* Lua code runs: on_frame or an HTTP callback before it
  draw,            \* the draw list, kept for the next frame
  current_font,
  origin_stack,
  path_builder,
  loaded,
  calls            \* ghost: the gfx calls of the frame

gfxVars == << in_frame, draw, current_font, origin_stack, path_builder, loaded, calls >>

GfxInit ==
  /\ in_frame = FALSE /\ loaded = TRUE
  /\ draw = << >> /\ current_font = SmallFont /\ origin_stack = << >> /\ path_builder = << >>
  /\ calls = << >>

\* The current translate: the top of the stack, the origin if it is empty.
Offset == IF origin_stack = << >> THEN 0 ELSE origin_stack[Len(origin_stack)]

Moved(points) == [i \in DOMAIN points |-> points[i] + Offset]

Call(name, args) ==
  /\ in_frame /\ Len(calls) < MaxCalls
  /\ calls' = Append(calls, << name, args >>)
  /\ UNCHANGED << in_frame, loaded >>

Primitive(points) ==
  /\ Call("draw", points)
  /\ draw' = Append(draw, [kind |-> "shape", points |-> Moved(points)])
  /\ UNCHANGED << current_font, origin_stack, path_builder >>

\* gfx.box, round_rect and gradient_rect; pixel, circle and arc.
Anchored(x) == Primitive(<< x >>)

\* gfx.line and gradient_line.
Segment(x) == Primitive(<< x, x + 1 >>)

\* gfx.triangle and poly.
Corners(x) == Primitive(<< x, x + 1, x >>)

Text(x) ==
  /\ Call("text", << x >>)
  /\ draw' = Append(draw, [kind |-> current_font, points |-> Moved(<< x >>)])
  /\ UNCHANGED << current_font, origin_stack, path_builder >>

SetFont(font) ==
  /\ Call(font, << >>)
  /\ current_font' = font
  /\ UNCHANGED << draw, origin_stack, path_builder >>

PushOrigin(x) ==
  /\ Call("push", << x >>)
  /\ origin_stack' = Append(origin_stack, Offset + x)
  /\ UNCHANGED << draw, current_font, path_builder >>

PopOrigin ==
  /\ Call("pop", << >>)
  /\ origin_stack' = IF origin_stack = << >> THEN << >>
                      ELSE SubSeq(origin_stack, 1, Len(origin_stack) - 1)
  /\ UNCHANGED << draw, current_font, path_builder >>

BeginPath ==
  /\ Call("begin", << >>)
  /\ path_builder' = << >>
  /\ UNCHANGED << draw, current_font, origin_stack >>

\* gfx.path_rect, path_round_rect and path_circle.
PathShape(x) ==
  /\ Call("path", << x >>)
  /\ path_builder' = Append(path_builder, x + Offset)
  /\ UNCHANGED << draw, current_font, origin_stack >>

\* gfx.fill_path and stroke_path: the path stays, to be drawn once more; an
\* empty one draws nothing.
DrawPath ==
  /\ Call("paint", << >>)
  /\ draw' = IF path_builder = << >> THEN draw
              ELSE Append(draw, [kind |-> "path", points |-> path_builder])
  /\ UNCHANGED << current_font, origin_stack, path_builder >>

\* Options that do not parse, or points that are none, raise before anything
\* is drawn; the script catches the error.
BadCall ==
  /\ Call("bad", << >>)
  /\ UNCHANGED << draw, current_font, origin_stack, path_builder >>

GfxCall ==
  \/ \E x \in Points : \/ Anchored(x) \/ Segment(x) \/ Corners(x) \/ Text(x)
                       \/ PushOrigin(x) \/ PathShape(x)
  \/ \E font \in {SmallFont, NormalFont} : SetFont(font)
  \/ PopOrigin \/ BeginPath \/ DrawPath \/ BadCall

-----------------------------------------------------------------------------
(* run_frame, which returns the draw list; what on_init, on_unload and the *)
(* callbacks of a panel draw is left behind like the calls of a frame.     *)

\* Mutant of RunFrame: the origins of the frame before are still in place.
RunFrameKeepsOrigin ==
  /\ ~in_frame /\ loaded
  /\ in_frame' = TRUE
  /\ draw' = << >> /\ current_font' = SmallFont /\ path_builder' = << >>
  /\ calls' = << >>
  /\ UNCHANGED << origin_stack, loaded >>

RunFrame ==
  /\ ~in_frame /\ loaded
  /\ in_frame' = TRUE
  /\ draw' = << >> /\ current_font' = SmallFont /\ origin_stack' = << >> /\ path_builder' = << >>
  /\ calls' = << >>
  /\ UNCHANGED loaded

\* The list goes to the renderer as it is, and stays.
FrameDone ==
  /\ in_frame /\ in_frame' = FALSE
  /\ calls' = << >>
  /\ UNCHANGED << draw, current_font, origin_stack, path_builder, loaded >>

\* on_frame ends in an error: the script is stopped and nothing is shown.
FrameFails ==
  /\ in_frame /\ in_frame' = FALSE
  /\ loaded' = FALSE /\ calls' = << >>
  /\ UNCHANGED << draw, current_font, origin_stack, path_builder >>

GfxNext == GfxCall \/ RunFrame \/ FrameDone \/ FrameFails

GfxSpec == GfxInit /\ [][GfxNext]_gfxVars

-----------------------------------------------------------------------------
(* What a frame's calls mean, said without the host's state: cs are the    *)
(* calls of a frame, each known by its number.                             *)

Named(cs, names, from, to) == {n \in from..to : cs[n][1] \in names}

\* The origin pushed by call i is in force at call j: every pop between them
\* found an origin pushed after it.
OpenAt(cs, i, j) ==
  /\ cs[i][1] = "push"
  /\ \A k \in (i + 1)..(j - 1) :
       Cardinality(Named(cs, {"pop"}, i + 1, k)) <= Cardinality(Named(cs, {"push"}, i + 1, k))

Opens(cs, j) == {i \in 1..(j - 1) : OpenAt(cs, i, j)}

\* What the origins pushed by the calls of S add up to.
Pushed(cs, S) == SumFunction([i \in S |-> cs[i][2][1]])

OffsetAt(cs, j) == Pushed(cs, Opens(cs, j))

FontAt(cs, j) ==
  LET set == Named(cs, {SmallFont, NormalFont}, 1, j - 1)
  IN  IF set = {} THEN SmallFont ELSE cs[Max(set)][1]

\* The shapes of the path that call j paints: those added since it was begun.
AddedAt(cs, j) ==
  {i \in Named(cs, {"path"}, 1, j - 1) : Named(cs, {"begin"}, i + 1, j - 1) = {}}

\* seq has one entry for every number of S, in their order.
Lists(seq, S, Is(_, _)) ==
  /\ Len(seq) = Cardinality(S)
  /\ \A i \in S : Is(seq[Cardinality({k \in S : k <= i})], i)

IsPath(points, cs, j) ==
  Lists(points, AddedAt(cs, j), LAMBDA point, i : point = cs[i][2][1] + OffsetAt(cs, i))

Draws(cs) ==
  {j \in DOMAIN cs : \/ cs[j][1] \in {"draw", "text"}
                     \/ cs[j][1] = "paint" /\ AddedAt(cs, j) # {}}

IsDrawn(cmd, cs, j) ==
  IF cs[j][1] = "paint" THEN cmd.kind = "path" /\ IsPath(cmd.points, cs, j)
  ELSE /\ cmd.kind = IF cs[j][1] = "text" THEN FontAt(cs, j) ELSE "shape"
       /\ cmd.points = [i \in DOMAIN cs[j][2] |-> cs[j][2][i] + OffsetAt(cs, j)]

\* What a frame shows follows from its own calls alone: each point lies where
\* the origins then open put it, each label has the font named last in this
\* frame, each path the shapes added since it was begun in this frame.
FrameIsItsCalls ==
  in_frame => Lists(draw, Draws(calls), LAMBDA cmd, j : IsDrawn(cmd, calls, j))

-----------------------------------------------------------------------------
(* The inductive invariant behind it: what the host keeps is what the      *)
(* calls so far say of the next one.                                       *)

\* The stack has the sum of each open origin and those below it, and a pop
\* closes the one that was pushed last.
OriginsAgree ==
  LET open == Opens(calls, Len(calls) + 1) IN
    /\ Lists(origin_stack, open, LAMBDA at, i : at = Pushed(calls, {k \in open : k <= i}))
    /\ \A i \in open :
         Cardinality(Named(calls, {"push"}, i + 1, Len(calls)))
           = Cardinality(Named(calls, {"pop"}, i + 1, Len(calls)))
               + Cardinality({k \in open : k > i})

\* Commands in the list, and calls as they are counted: a call that pushes an
\* origin or adds to the path has a point.
Kinds == {"shape", "path", SmallFont, NormalFont}
CallNames == {"draw", "text", SmallFont, NormalFont, "push", "pop", "begin", "path", "paint", "bad"}

Command == [kind : Kinds, points : Seq(Int)]
CallRecord == CallNames \X Seq(Int)

GfxType ==
  /\ draw \in Seq(Command)
  /\ current_font \in {SmallFont, NormalFont}
  /\ origin_stack \in Seq(Int) /\ path_builder \in Seq(Int)
  /\ calls \in Seq(CallRecord)
  /\ \A i \in DOMAIN calls : calls[i][1] \in {"push", "path"} => calls[i][2] # << >>

GfxInv ==
  in_frame => /\ OriginsAgree
              /\ current_font = FontAt(calls, Len(calls) + 1)
              /\ IsPath(path_builder, calls, Len(calls) + 1)
              /\ FrameIsItsCalls
=============================================================================
