------------------------------- MODULE Window -------------------------------
(***************************************************************************)
(* The application's update loop (sni-lua-app/main.rs) around a script's   *)
(* frame (sni-lua-api/lib.rs): which canvas is in force, where the pointer *)
(* is mapped, what text sizing applies and how large the stream window is. *)
(*                                                                         *)
(* All of it runs on the UI thread, one update after the other: input, the *)
(* script's frame, the panels with what the user does there, the painting. *)
(* A position is the canvas whose coordinates it is in.                    *)
(***************************************************************************)

CONSTANTS
  Canvases,       \* the coordinate spaces
  Native,         \* Canvas::default()
  Overrides,      \* the canvases the panel offers
  Sizings,        \* text sizing modes and sizes
  Scales,         \* of the stream window
  AutoScale,      \* the largest scale that fits, for each canvas
  Script, AutoSize,   \* "script" as canvas_mode; stream_auto_scale
  None

ASSUME WindowAssumption ==
  /\ Native \in Canvases /\ Overrides \subseteq Canvases
  /\ Script \notin Canvases /\ AutoSize \notin Scales
  /\ None \notin Canvases \cup Sizings
  /\ None \notin [canvas : Canvases, scale : Scales]
  /\ AutoScale \in [Canvases -> Scales]

VARIABLES
  at,             \* "input", "frame", "panels" or "load"
  running,        \* FALSE until the first update
  \* Config
  canvas_mode, sizing,
  streaming, detached, in_app, \* capture_mode, the detached window, the preview
  scale,
  \* ScriptHost
  loaded,
  requested,      \* requested_canvas, which gfx.width reports
  request,        \* requested_text_sizing
  mouse, prev,    \* the latest reading, and the buttons of the one before
  \* App
  active,         \* active_canvas of the latest update
  last_viewport,  \* the canvas it shows, or None
  window,         \* the canvas and scale the stream window was sized for
  initialized,    \* stream_viewport_initialized
  \* what the properties look back on
  wants,          \* the canvas the script asked for last
  overridden,     \* an override was applied since
  asked,          \* the script asked in this frame
  changed,        \* the canvas mode or the script changed after the last frame
  edge,           \* the last edge this script could see
  seeds           \* the text sizing this load asked for

config == <<canvas_mode, sizing, streaming, detached, in_app, scale>>
canvasVars == <<requested, wants, overridden, asked>>
mouseVars == <<mouse, prev, edge>>
outVars == <<active, last_viewport, window, initialized>>
vars == <<at, running, config, loaded, canvasVars, request, seeds, mouseVars,
          outVars, changed>>

Detached == streaming /\ detached

\* stream_scale_for
ScaleFor(canvas) == IF scale = AutoSize THEN AutoScale[canvas] ELSE scale

Init ==
  /\ at \in {"input", "load"} /\ running = FALSE
  /\ canvas_mode \in Overrides \cup {Script} /\ sizing \in Sizings
  /\ streaming \in BOOLEAN /\ detached \in BOOLEAN /\ in_app \in BOOLEAN
  /\ scale \in Scales \cup {AutoSize}
  /\ loaded = FALSE /\ requested = Native /\ request = None
  /\ mouse = [pos |-> None, down |-> FALSE] /\ prev = FALSE
  /\ active = Native /\ last_viewport = None
  /\ window = None /\ initialized = FALSE
  /\ wants = Native /\ overridden = FALSE /\ asked = FALSE /\ changed = FALSE
  /\ edge = "release" /\ seeds = None

-----------------------------------------------------------------------------
(* The beginning of update.                                                *)

\* apply_canvas: an override takes the place of what the script asked for.
ApplyCanvas ==
  IF canvas_mode = Script THEN UNCHANGED <<requested, overridden>>
  ELSE requested' = canvas_mode /\ overridden' = TRUE

\* mouse.pressed and mouse.released, for one button.
Pressed == mouse.down /\ ~prev
Released == ~mouse.down /\ prev

\* MouseState::feed, with a pointer that is over the picture of the last
\* update, or not, and a button that is held, or not.
Feed ==
  \E over, down \in BOOLEAN :
    /\ mouse' = [pos |-> IF over THEN last_viewport ELSE None, down |-> down]
    /\ prev' = mouse.down
    /\ edge' = IF Pressed' THEN "press" ELSE IF Released' THEN "release" ELSE edge

BeginUpdate ==
  /\ at = "input"
  /\ ApplyCanvas
  /\ Feed
  /\ asked' = FALSE /\ running' = TRUE
  /\ at' = "frame"
  /\ UNCHANGED <<config, loaded, wants, request, seeds, outVars, changed>>

-----------------------------------------------------------------------------
(* The script, in its frame or while it is loaded.                         *)

\* gfx.canvas and gfx.scale.
AskCanvas(c) ==
  /\ (at = "frame" /\ loaded) \/ at = "load"
  /\ requested' = c /\ wants' = c /\ overridden' = FALSE
  /\ asked' = TRUE
  /\ UNCHANGED <<at, running, config, loaded, request, seeds, mouseVars, outVars, changed>>

\* gfx.text_sizing; only what is asked for in loading ever applies.
AskSizing(s) ==
  /\ (at = "frame" /\ loaded) \/ at = "load"
  /\ request' = s
  /\ seeds' = IF at = "load" THEN s ELSE seeds
  /\ UNCHANGED <<at, running, config, loaded, canvasVars, mouseVars, outVars, changed>>

\* Mutant of EndFrame: the script's request wins over the override.
EndFrameAsRequested ==
  /\ at = "frame"
  /\ \/ UNCHANGED loaded
     \/ loaded' = FALSE
  /\ active' = requested
  /\ at' = "panels" /\ changed' = FALSE
  /\ UNCHANGED <<running, config, canvasVars, request, seeds, mouseVars,
                 last_viewport, window, initialized>>

\* on_frame returned, or failed, or there was none; the canvas to paint with.
EndFrame ==
  /\ at = "frame"
  /\ \/ UNCHANGED loaded
     \/ loaded' = FALSE
  /\ ApplyCanvas
  /\ active' = requested'
  /\ at' = "panels" /\ changed' = FALSE
  /\ UNCHANGED <<running, config, wants, asked, request, seeds, mouseVars,
                 last_viewport, window, initialized>>

-----------------------------------------------------------------------------
(* The panels.                                                             *)

SetCanvasMode ==
  /\ at = "panels"
  /\ canvas_mode' \in (Overrides \cup {Script}) \ {canvas_mode}
  /\ changed' = TRUE
  /\ UNCHANGED <<at, running, sizing, streaming, detached, in_app, scale, loaded,
                 canvasVars, request, seeds, mouseVars, outVars>>

SetSizing ==
  /\ at = "panels"
  /\ sizing' \in Sizings \ {sizing}
  /\ UNCHANGED <<at, running, canvas_mode, streaming, detached, in_app, scale, loaded,
                 canvasVars, request, seeds, mouseVars, outVars, changed>>

\* The output mode, the detached window, its scale: each makes the next paint
\* size the window anew.
SetStream ==
  /\ at = "panels"
  /\ \/ /\ streaming' = ~streaming
        /\ UNCHANGED <<detached, scale>>
     \/ /\ streaming /\ detached' = ~detached
        /\ UNCHANGED <<streaming, scale>>
     \/ /\ Detached /\ scale' \in (Scales \cup {AutoSize}) \ {scale}
        /\ UNCHANGED <<streaming, detached>>
  /\ initialized' = FALSE
  /\ UNCHANGED <<at, running, canvas_mode, sizing, in_app, loaded, canvasVars,
                 request, seeds, mouseVars, active, last_viewport, window, changed>>

SetPreview ==
  /\ at = "panels" /\ Detached
  /\ in_app' = ~in_app
  /\ UNCHANGED <<at, running, canvas_mode, sizing, streaming, detached, scale, loaded,
                 canvasVars, request, seeds, mouseVars, outVars, changed>>

\* Mutant of ResetHost: the pointer state of the old script is kept.
ResetHostKeepsMouse ==
  /\ loaded' = FALSE
  /\ requested' = Native /\ request' = None
  /\ UNCHANGED <<mouse, prev>>

\* What load_script resets before it runs the chunk.
ResetHost ==
  /\ loaded' = FALSE
  /\ requested' = Native /\ request' = None
  /\ mouse' = [pos |-> None, down |-> FALSE] /\ prev' = FALSE

Load ==
  /\ at = "panels"
  /\ ResetHost
  /\ at' = "load"
  /\ wants' = Native /\ overridden' = FALSE /\ edge' = "release" /\ seeds' = None
  /\ changed' = TRUE
  /\ UNCHANGED <<running, config, asked, outVars>>

\* load_script_from_path, after the chunk and on_init ran, or failed.
EndLoad ==
  /\ at = "load"
  /\ at' = IF running THEN "panels" ELSE "input"
  /\ loaded' \in BOOLEAN
  /\ sizing' = IF loaded' /\ request # None THEN request ELSE sizing
  /\ UNCHANGED <<running, canvas_mode, streaming, detached, in_app, scale, canvasVars,
                 request, seeds, mouseVars, outVars, changed>>

-----------------------------------------------------------------------------
(* Painting.                                                               *)

\* Mutant of EndUpdate: the viewport of the last visible preview is kept.
EndUpdateKeepsViewport ==
  /\ at = "panels"
  /\ last_viewport' = IF Detached /\ ~in_app THEN last_viewport ELSE active
  /\ IF Detached
     THEN /\ window' = IF initialized THEN window
                       ELSE [canvas |-> active, scale |-> ScaleFor(active)]
          /\ initialized' = TRUE
     ELSE window' = None /\ initialized' = FALSE
  /\ at' = "input"
  /\ UNCHANGED <<running, config, loaded, canvasVars, request, seeds, mouseVars,
                 active, changed>>

EndUpdate ==
  /\ at = "panels"
  /\ last_viewport' = IF Detached /\ ~in_app THEN None ELSE active
  /\ IF Detached
     THEN /\ window' = IF initialized THEN window
                       ELSE [canvas |-> active, scale |-> ScaleFor(active)]
          /\ initialized' = TRUE
     ELSE window' = None /\ initialized' = FALSE
  /\ at' = "input"
  /\ UNCHANGED <<running, config, loaded, canvasVars, request, seeds, mouseVars,
                 active, changed>>

LuaCall ==
  \/ \E c \in Canvases : AskCanvas(c)
  \/ \E s \in Sizings : AskSizing(s)

Panels ==
  \/ SetCanvasMode \/ SetSizing \/ SetStream \/ SetPreview
  \/ Load \/ EndLoad

Next ==
  \/ BeginUpdate
  \/ LuaCall
  \/ EndFrame
  \/ Panels
  \/ EndUpdate

Spec == Init /\ [][Next]_vars

-----------------------------------------------------------------------------
(* Properties.                                                             *)

\* Types, and that the stream window is there exactly when the settings say
\* so, from one update to the next.
TypeOK ==
  /\ at \in {"input", "frame", "panels", "load"} /\ running \in BOOLEAN
  /\ canvas_mode \in Overrides \cup {Script} /\ sizing \in Sizings
  /\ streaming \in BOOLEAN /\ detached \in BOOLEAN /\ in_app \in BOOLEAN
  /\ scale \in Scales \cup {AutoSize}
  /\ loaded \in BOOLEAN /\ requested \in Canvases /\ request \in Sizings \cup {None}
  /\ mouse \in [pos : Canvases \cup {None}, down : BOOLEAN] /\ prev \in BOOLEAN
  /\ active \in Canvases /\ last_viewport \in Canvases \cup {None}
  /\ window \in [canvas : Canvases, scale : Scales] \cup {None}
  /\ initialized \in BOOLEAN
  /\ wants \in Canvases /\ overridden \in BOOLEAN /\ asked \in BOOLEAN
  /\ changed \in BOOLEAN /\ edge \in {"press", "release"}
  /\ seeds \in Sizings \cup {None}
  /\ at = "input" /\ running => (window # None <=> Detached)

\* gfx.width reports the override's canvas during on_frame, whatever the
\* script asked for before; only its own request of this very frame shows.
ReportsOverride ==
  at = "frame" /\ canvas_mode # Script /\ ~asked => requested = canvas_mode

\* The pointer's coordinates are those of the canvas gfx.width reports, unless
\* the user picked another canvas or script since the last frame, or the
\* script itself did in this one: a hidden preview leaves no viewport behind.
PointerMatchesCanvas ==
  at = "frame" /\ ~asked /\ ~changed /\ mouse.pos # None => mouse.pos = requested

\* A script that counts press and release edges knows whether the button is
\* down, also when it was loaded with the button held: edges are neither
\* missed nor repeated in a script's life.
EdgesTellDown == mouse.down <=> edge = "press"

\* Every update paints with the override's canvas, and without an override
\* with the one the script asked for last, native if it did not, unless an
\* override has been in force since.
PaintsCanvasInForce ==
  [][at = "frame" /\ at' = "panels" =>
       IF canvas_mode # Script THEN active' = canvas_mode
       ELSE ~overridden => active' = wants]_vars

\* Text sizing is the user's: a script changes it only when it loads without
\* an error, to what it asked for in this very load.
SizingIsTheUsers ==
  [][sizing' # sizing =>
       \/ at = "panels" /\ at' = "panels"
       \/ at = "load" /\ loaded' /\ sizing' = seeds]_vars

\* An open stream window was sized for the scale the settings ask for.
WindowFollowsScale ==
  at = "input" /\ window # None => window.scale = ScaleFor(window.canvas)
=============================================================================
