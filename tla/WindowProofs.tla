---------------------------- MODULE WindowProofs ----------------------------
(***************************************************************************)
(* Theorems about Window: the properties of its run hold for any canvases, *)
(* text sizings and scales.                                                *)
(***************************************************************************)
EXTENDS Window, TLAPS

\* requested_canvas is what the script asked for, unless overridden, and what
\* was painted with, unless the user changed something since.
CanvasAgrees ==
  /\ ~overridden => requested = wants
  /\ at \in {"input", "panels"} /\ running /\ ~changed =>
       active = requested /\ (canvas_mode # Script => requested = canvas_mode)
  /\ at = "load" /\ running => changed
  /\ at \in {"frame", "panels"} => running

\* The viewport the pointer is mapped through is the one last painted.
ViewportAgrees ==
  last_viewport # None => running /\ (at = "input" => last_viewport = active)

\* While a script loads, the request is its own.
RequestAgrees == at = "load" => request = seeds

\* initialized says that the window has its size.
WindowAgrees ==
  /\ initialized => window # None /\ window.scale = ScaleFor(window.canvas)
  /\ at = "input" /\ window # None => initialized
  /\ window # None => running

\* The inductive invariant.
IInv ==
  /\ TypeOK
  /\ CanvasAgrees /\ ViewportAgrees /\ RequestAgrees /\ WindowAgrees
  /\ ReportsOverride /\ PointerMatchesCanvas /\ EdgesTellDown

-----------------------------------------------------------------------------

\* The initial states satisfy the invariant.
LEMMA InitIInv == Init => IInv
<1> SUFFICES ASSUME Init PROVE IInv
  OBVIOUS
<1> USE WindowAssumption
<1>1. TypeOK
  BY DEF Init, TypeOK, Detached
<1>2. CanvasAgrees /\ ViewportAgrees /\ RequestAgrees /\ WindowAgrees
  BY DEF Init, CanvasAgrees, ViewportAgrees, RequestAgrees, WindowAgrees
<1>3. ReportsOverride /\ PointerMatchesCanvas /\ EdgesTellDown
  BY DEF Init, ReportsOverride, PointerMatchesCanvas, EdgesTellDown
<1> QED
  BY <1>1, <1>2, <1>3 DEF IInv

\* The beginning of an update keeps the invariant.
LEMMA BeginUpdateKeeps == ASSUME IInv, BeginUpdate PROVE IInv'
<1> USE WindowAssumption DEF IInv
<1>1. /\ at = "input" /\ at' = "frame" /\ running' = TRUE /\ asked' = FALSE
      /\ UNCHANGED <<canvas_mode, sizing, streaming, detached, in_app, scale, loaded,
                     wants, request, seeds, active, last_viewport, window,
                     initialized, changed>>
  BY DEF BeginUpdate, config, outVars
<1>2. PICK over, down \in BOOLEAN :
        /\ mouse' = [pos |-> IF over THEN last_viewport ELSE None, down |-> down]
        /\ prev' = mouse.down
        /\ edge' = IF Pressed' THEN "press" ELSE IF Released' THEN "release" ELSE edge
  BY DEF BeginUpdate, Feed
<1>3. /\ mouse'.pos = IF over THEN last_viewport ELSE None
      /\ mouse'.down = down
      /\ mouse' \in [pos : Canvases \cup {None}, down : BOOLEAN]
      /\ mouse.down \in BOOLEAN
  BY <1>2 DEF TypeOK
<1>4. edge' \in {"press", "release"}
  BY <1>2 DEF TypeOK
<1>5. IF canvas_mode = Script THEN requested' = requested /\ overridden' = overridden
      ELSE requested' = canvas_mode /\ overridden' = TRUE
  BY DEF BeginUpdate, ApplyCanvas
<1>6. requested' \in Canvases /\ overridden' \in BOOLEAN
  BY <1>5 DEF TypeOK
<1>types. running' \in BOOLEAN /\ asked' \in BOOLEAN /\ prev' \in BOOLEAN
  BY <1>1, <1>2, <1>3
<1>7. TypeOK'
  BY <1>1, <1>3, <1>4, <1>6, <1>types DEF TypeOK, Detached
<1>8. CanvasAgrees' /\ ViewportAgrees' /\ RequestAgrees'
  BY <1>1, <1>5 DEF CanvasAgrees, ViewportAgrees, RequestAgrees
<1>9. WindowAgrees'
  BY <1>1 DEF WindowAgrees, ScaleFor
<1>10. ReportsOverride'
  BY <1>1, <1>5 DEF ReportsOverride
<1>11. PointerMatchesCanvas'
  BY <1>1, <1>3, <1>5 DEF PointerMatchesCanvas, ViewportAgrees, CanvasAgrees
<1>12. EdgesTellDown'
  BY <1>2, <1>3 DEF EdgesTellDown, Pressed, Released
<1> QED
  BY <1>7, <1>8, <1>9, <1>10, <1>11, <1>12

\* A call of the script keeps the invariant.
LEMMA LuaCallKeeps == ASSUME IInv, LuaCall PROVE IInv'
<1> USE WindowAssumption DEF IInv
<1>1. ASSUME NEW c \in Canvases, AskCanvas(c) PROVE IInv'
  <2>1. /\ at \in {"frame", "load"} /\ requested' = c /\ wants' = c
        /\ overridden' = FALSE /\ asked' = TRUE
        /\ UNCHANGED <<at, running, canvas_mode, sizing, streaming, detached, in_app,
                       scale, loaded, request, seeds, mouse, prev, edge, active,
                       last_viewport, window, initialized, changed>>
    BY <1>1 DEF AskCanvas, config, mouseVars, outVars
  <2>types. overridden' \in BOOLEAN /\ asked' \in BOOLEAN
    BY <2>1
  <2>2. TypeOK'
    BY <2>1, <2>types DEF TypeOK, Detached
  <2>3. WindowAgrees'
    BY <2>1 DEF WindowAgrees, ScaleFor
  <2> QED
    BY <2>1, <2>2, <2>3 DEF CanvasAgrees, ViewportAgrees, RequestAgrees,
       ReportsOverride, PointerMatchesCanvas, EdgesTellDown
<1>2. ASSUME NEW s \in Sizings, AskSizing(s) PROVE IInv'
  <2>1. /\ at \in {"frame", "load"} /\ request' = s
        /\ seeds' = IF at = "load" THEN s ELSE seeds
        /\ UNCHANGED <<at, running, canvas_mode, sizing, streaming, detached, in_app,
                       scale, loaded, requested, wants, overridden, asked, mouse, prev,
                       edge, active, last_viewport, window, initialized, changed>>
    BY <1>2 DEF AskSizing, config, canvasVars, mouseVars, outVars
  <2>2. TypeOK'
    BY <2>1 DEF TypeOK, Detached
  <2>3. WindowAgrees'
    BY <2>1 DEF WindowAgrees, ScaleFor
  <2> QED
    BY <2>1, <2>2, <2>3 DEF CanvasAgrees, ViewportAgrees, RequestAgrees,
       ReportsOverride, PointerMatchesCanvas, EdgesTellDown
<1> QED
  BY <1>1, <1>2 DEF LuaCall

\* The end of a frame keeps the invariant.
LEMMA EndFrameKeeps == ASSUME IInv, EndFrame PROVE IInv'
<1> USE WindowAssumption DEF IInv
<1>1. /\ at = "frame" /\ at' = "panels" /\ changed' = FALSE /\ active' = requested'
      /\ UNCHANGED <<running, canvas_mode, sizing, streaming, detached, in_app, scale,
                     wants, asked, request, seeds, mouse, prev, edge, last_viewport,
                     window, initialized>>
  BY DEF EndFrame, config, mouseVars
<1>2. loaded' \in BOOLEAN
  BY DEF EndFrame, TypeOK
<1>3. IF canvas_mode = Script THEN requested' = requested /\ overridden' = overridden
      ELSE requested' = canvas_mode /\ overridden' = TRUE
  BY DEF EndFrame, ApplyCanvas
<1>4. requested' \in Canvases /\ overridden' \in BOOLEAN
  BY <1>3 DEF TypeOK
<1>types. changed' \in BOOLEAN
  BY <1>1
<1>5. TypeOK'
  BY <1>1, <1>2, <1>4, <1>types DEF TypeOK, Detached
<1>6. CanvasAgrees' /\ ViewportAgrees' /\ RequestAgrees'
  BY <1>1, <1>3 DEF CanvasAgrees, ViewportAgrees, RequestAgrees
<1>7. WindowAgrees'
  BY <1>1 DEF WindowAgrees, ScaleFor
<1>8. ReportsOverride' /\ PointerMatchesCanvas' /\ EdgesTellDown'
  BY <1>1 DEF ReportsOverride, PointerMatchesCanvas, EdgesTellDown
<1> QED
  BY <1>5, <1>6, <1>7, <1>8

\* What the user does in the panels, short of loading, keeps the invariant.
LEMMA SettingsKeep ==
  ASSUME IInv, SetCanvasMode \/ SetSizing \/ SetStream \/ SetPreview
  PROVE IInv'
<1> USE WindowAssumption DEF IInv
<1>1. /\ at = "panels"
      /\ UNCHANGED <<at, running, loaded, requested, wants, overridden, asked, request,
                     seeds, mouse, prev, edge, active, last_viewport, window>>
  BY DEF SetCanvasMode, SetSizing, SetStream, SetPreview, canvasVars, mouseVars, outVars
<1>2. /\ canvas_mode' \in Overrides \cup {Script} /\ sizing' \in Sizings
      /\ scale' \in Scales \cup {AutoSize}
  <2>1. CASE SetCanvasMode
    BY <2>1 DEF SetCanvasMode, TypeOK
  <2>2. CASE SetSizing
    BY <2>2 DEF SetSizing, TypeOK
  <2>3. CASE SetStream
    BY <2>3 DEF SetStream, TypeOK
  <2>4. CASE SetPreview
    BY <2>4 DEF SetPreview, TypeOK
  <2> QED
    BY <2>1, <2>2, <2>3, <2>4
<1>3. streaming' \in BOOLEAN /\ detached' \in BOOLEAN /\ in_app' \in BOOLEAN
  BY DEF SetCanvasMode, SetSizing, SetStream, SetPreview, TypeOK
<1>4. /\ changed' \/ (canvas_mode' = canvas_mode /\ changed' = changed)
      /\ changed' \in BOOLEAN
  BY DEF SetCanvasMode, SetSizing, SetStream, SetPreview, TypeOK
<1>5. ~initialized' \/ (scale' = scale /\ initialized' = initialized)
  BY DEF SetCanvasMode, SetSizing, SetStream, SetPreview, outVars
<1>6. initialized' \in BOOLEAN
  BY DEF SetCanvasMode, SetSizing, SetStream, SetPreview, outVars, TypeOK
<1>7. TypeOK'
  BY <1>1, <1>2, <1>3, <1>4, <1>6 DEF TypeOK
<1>8. CanvasAgrees' /\ ViewportAgrees' /\ RequestAgrees'
  BY <1>1, <1>4 DEF CanvasAgrees, ViewportAgrees, RequestAgrees
<1>9. WindowAgrees'
  BY <1>1, <1>5 DEF WindowAgrees, ScaleFor
<1>10. ReportsOverride' /\ PointerMatchesCanvas' /\ EdgesTellDown'
  BY <1>1 DEF ReportsOverride, PointerMatchesCanvas, EdgesTellDown
<1> QED
  BY <1>7, <1>8, <1>9, <1>10

\* Loading keeps the invariant.
LEMMA LoadingKeeps == ASSUME IInv, Load \/ EndLoad PROVE IInv'
<1> USE WindowAssumption DEF IInv
<1>1. CASE Load
  <2>1. /\ at = "panels" /\ at' = "load" /\ loaded' = FALSE
        /\ requested' = Native /\ wants' = Native /\ overridden' = FALSE
        /\ request' = None /\ seeds' = None
        /\ mouse' = [pos |-> None, down |-> FALSE] /\ prev' = FALSE
        /\ edge' = "release" /\ changed' = TRUE
        /\ UNCHANGED <<running, canvas_mode, sizing, streaming, detached, in_app, scale,
                       asked, active, last_viewport, window, initialized>>
    BY <1>1 DEF Load, ResetHost, config, outVars
  <2>2. TypeOK'
    BY <2>1 DEF TypeOK
  <2>3. WindowAgrees'
    BY <2>1 DEF WindowAgrees, ScaleFor
  <2>4. EdgesTellDown'
    BY <2>1 DEF EdgesTellDown
  <2> QED
    BY <2>1, <2>2, <2>3, <2>4 DEF CanvasAgrees, ViewportAgrees, RequestAgrees,
       ReportsOverride, PointerMatchesCanvas
<1>2. CASE EndLoad
  <2>1. /\ at = "load" /\ at' = (IF running THEN "panels" ELSE "input")
        /\ loaded' \in BOOLEAN
        /\ UNCHANGED <<running, canvas_mode, streaming, detached, in_app, scale, requested,
                       wants, overridden, asked, request, seeds, mouse, prev, edge,
                       active, last_viewport, window, initialized, changed>>
    BY <1>2 DEF EndLoad, canvasVars, mouseVars, outVars
  <2>2. sizing' \in Sizings
    BY <1>2 DEF EndLoad, TypeOK
  <2>3. TypeOK'
    BY <2>1, <2>2 DEF TypeOK
  <2>4. CanvasAgrees' /\ ViewportAgrees' /\ RequestAgrees'
    BY <2>1 DEF CanvasAgrees, ViewportAgrees, RequestAgrees
  <2>5. WindowAgrees'
    BY <2>1 DEF WindowAgrees, ScaleFor
  <2> QED
    BY <2>1, <2>3, <2>4, <2>5 DEF ReportsOverride, PointerMatchesCanvas, EdgesTellDown
<1> QED
  BY <1>1, <1>2

\* Painting keeps the invariant.
LEMMA EndUpdateKeeps == ASSUME IInv, EndUpdate PROVE IInv'
<1> USE WindowAssumption DEF IInv
<1>1. /\ at = "panels" /\ at' = "input" /\ running
      /\ UNCHANGED <<running, canvas_mode, sizing, streaming, detached, in_app, scale,
                     loaded, requested, wants, overridden, asked, request, seeds, mouse,
                     prev, edge, active, changed>>
  BY DEF EndUpdate, config, canvasVars, mouseVars, CanvasAgrees
<1>2. last_viewport' \in {active, None}
  BY DEF EndUpdate
<1>3. /\ window' \in [canvas : Canvases, scale : Scales] \cup {None}
      /\ initialized' \in BOOLEAN
      /\ window' # None <=> Detached
      /\ initialized' => window' # None /\ window'.scale = ScaleFor(window'.canvas)
      /\ window' # None => initialized'
  <2>1. CASE ~Detached
    BY <2>1 DEF EndUpdate
  <2>2. CASE Detached /\ initialized
    <3>1. window' = window /\ initialized' = TRUE
      BY <2>2 DEF EndUpdate
    <3> QED
      BY <2>2, <3>1 DEF WindowAgrees, TypeOK
  <2>3. CASE Detached /\ ~initialized
    <3>1. /\ window' = [canvas |-> active, scale |-> ScaleFor(active)]
          /\ initialized' = TRUE
      BY <2>3 DEF EndUpdate
    <3>2. ScaleFor(active) \in Scales
      BY DEF ScaleFor, TypeOK
    <3>3. window' \in [canvas : Canvases, scale : Scales]
      BY <3>1, <3>2 DEF TypeOK
    <3>4. window'.canvas = active /\ window'.scale = ScaleFor(active)
      BY <3>1
    <3>5. window' # None
      BY <3>3
    <3> QED
      BY <2>3, <3>1, <3>3, <3>4, <3>5
  <2> QED
    BY <2>1, <2>2, <2>3 DEF TypeOK
<1>4. TypeOK'
  BY <1>1, <1>2, <1>3 DEF TypeOK, Detached
<1>5. WindowAgrees'
  BY <1>1, <1>3 DEF WindowAgrees, ScaleFor
<1>6. CanvasAgrees' /\ ViewportAgrees' /\ RequestAgrees'
  BY <1>1, <1>2 DEF CanvasAgrees, ViewportAgrees, RequestAgrees
<1>7. ReportsOverride' /\ PointerMatchesCanvas' /\ EdgesTellDown'
  BY <1>1 DEF ReportsOverride, PointerMatchesCanvas, EdgesTellDown
<1> QED
  BY <1>4, <1>5, <1>6, <1>7

\* No step keeps the invariant.
LEMMA StutterKeeps == ASSUME IInv, UNCHANGED vars PROVE IInv'
<1>1. UNCHANGED <<at, running, canvas_mode, sizing, streaming, detached, in_app, scale,
                  loaded, requested, wants, overridden, asked, request, seeds, mouse,
                  prev, edge, active, last_viewport, window, initialized, changed>>
  BY DEF vars, config, canvasVars, mouseVars, outVars
<1>2. TypeOK' /\ WindowAgrees'
  BY <1>1 DEF IInv, TypeOK, Detached, WindowAgrees, ScaleFor
<1>3. CanvasAgrees' /\ ViewportAgrees' /\ RequestAgrees'
  BY <1>1 DEF IInv, CanvasAgrees, ViewportAgrees, RequestAgrees
<1> QED
  BY <1>1, <1>2, <1>3 DEF IInv, ReportsOverride, PointerMatchesCanvas, EdgesTellDown

-----------------------------------------------------------------------------

\* Every reachable state satisfies the invariant.
THEOREM WindowInvariant == Spec => []IInv
<1>1. IInv /\ [Next]_vars => IInv'
  BY BeginUpdateKeeps, LuaCallKeeps, EndFrameKeeps, SettingsKeep, LoadingKeeps,
     EndUpdateKeeps, StutterKeeps DEF Next, Panels
<1> QED
  BY InitIInv, <1>1, PTL DEF Spec

\* Types, and a stream window exactly when the settings ask for one.
THEOREM WindowTypeCorrect == Spec => []TypeOK
<1>1. IInv => TypeOK
  BY DEF IInv
<1> QED
  BY <1>1, WindowInvariant, PTL

\* gfx.width reports the override's canvas.
THEOREM ReportsTheOverride == Spec => []ReportsOverride
<1>1. IInv => ReportsOverride
  BY DEF IInv
<1> QED
  BY <1>1, WindowInvariant, PTL

\* The pointer is in the coordinates of the canvas the script lays out for.
THEOREM PointerAndCanvasAgree == Spec => []PointerMatchesCanvas
<1>1. IInv => PointerMatchesCanvas
  BY DEF IInv
<1> QED
  BY <1>1, WindowInvariant, PTL

\* Press and release edges tell whether the button is down.
THEOREM CountsEdges == Spec => []EdgesTellDown
<1>1. IInv => EdgesTellDown
  BY DEF IInv
<1> QED
  BY <1>1, WindowInvariant, PTL

\* The stream window follows the scale in the settings.
THEOREM SizesTheWindow == Spec => []WindowFollowsScale
<1>1. IInv => WindowFollowsScale
  BY DEF IInv, WindowAgrees, WindowFollowsScale
<1> QED
  BY <1>1, WindowInvariant, PTL

\* Every update paints with the canvas in force.
THEOREM PaintsInForce == Spec => PaintsCanvasInForce
<1> DEFINE Paints ==
      at = "frame" /\ at' = "panels" =>
        IF canvas_mode # Script THEN active' = canvas_mode
        ELSE ~overridden => active' = wants
<1>1. ASSUME IInv, [Next]_vars PROVE [Paints]_vars
  <2>1. CASE EndFrame
    BY <1>1, <2>1 DEF EndFrame, ApplyCanvas, IInv, CanvasAgrees
  <2>2. CASE ~EndFrame
    <3>1. ~(at = "frame" /\ at' = "panels")
      BY <1>1, <2>2 DEF Next, LuaCall, Panels, BeginUpdate, AskCanvas, AskSizing,
         SetCanvasMode, SetSizing, SetStream, SetPreview, Load, EndLoad, EndUpdate, vars
    <3> QED
      BY <3>1
  <2> QED
    BY <2>1, <2>2
<1> QED
  BY <1>1, WindowInvariant, PTL DEF Spec, PaintsCanvasInForce

\* Only the user and a script that loads change the text sizing.
THEOREM KeepsTheUsersSizing == Spec => SizingIsTheUsers
<1> DEFINE Ours ==
      sizing' # sizing =>
        \/ at = "panels" /\ at' = "panels"
        \/ at = "load" /\ loaded' /\ sizing' = seeds
<1>1. ASSUME IInv, [Next]_vars PROVE [Ours]_vars
  <2>1. CASE EndLoad
    BY <1>1, <2>1 DEF EndLoad, IInv, RequestAgrees
  <2>2. CASE SetSizing
    BY <2>2 DEF SetSizing
  <2>3. CASE ~EndLoad /\ ~SetSizing
    <3>1. sizing' = sizing
      BY <1>1, <2>3 DEF Next, LuaCall, Panels, BeginUpdate, AskCanvas, AskSizing, EndFrame,
         SetCanvasMode, SetStream, SetPreview, Load, EndUpdate, vars, config
    <3> QED
      BY <3>1
  <2> QED
    BY <2>1, <2>2, <2>3
<1> QED
  BY <1>1, WindowInvariant, PTL DEF Spec, SizingIsTheUsers
=============================================================================
