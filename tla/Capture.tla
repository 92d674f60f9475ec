------------------------------ MODULE Capture ------------------------------
(***************************************************************************)
(* The video capture: a thread per opened source that grabs frames from a  *)
(* device and leaves the latest for the application (sni-capture/lib.rs),  *)
(* and the application, which opens, drops and repaints it (main.rs).      *)
(*                                                                         *)
(* A device may be unplugged, deliver frames that do not decode, or block  *)
(* its reader for as long as it likes.  Dropping a source waits at most    *)
(* half a second for its thread; after that the thread lives on, detached. *)
(***************************************************************************)
EXTENDS Integers

CONSTANTS
  Devices,
  None,
  MaxOpens,       \* bound: sources opened
  MaxFrames       \* bound: pictures a source decodes

Sources == 1..MaxOpens

ASSUME CaptureAssumption ==
  /\ Devices # {}
  /\ MaxOpens \in Nat \ {0} /\ MaxFrames \in Nat \ {0}
  /\ None \notin Sources
  /\ None \notin [src : Sources, seq : 1..MaxFrames]

VARIABLES
  condition,      \* of each device
  \* CaptureSource and its thread
  pc,             \* where capture_loop is
  device,         \* the device it was opened with
  stop,
  latest,         \* the number of its latest frame, 0 before the first
  \* App
  ui,             \* "update", or "drop" while it waits for the old thread
  mode,           \* config.capture_mode
  choice,         \* config.capture_device
  capture,        \* the source, or None
  capture_tex,    \* the frame in the texture, or None
  capture_tex_seq,
  \* what the properties look back on
  opens,
  detached,       \* sources whose thread was given up
  atStop          \* latest when stop was set

threadVars == <<pc, latest>>
appVars == <<ui, mode, choice, capture, capture_tex, capture_tex_seq>>
history == <<opens, detached, atStop>>
vars == <<condition, threadVars, device, stop, appVars, history>>

Conditions == {"works", "garbled", "absent", "wedged"}
Modes == {"composited", "streaming"}

\* CaptureSource::open: the thread's state before its first step.
Opened(s, d) ==
  /\ pc' = [pc EXCEPT ![s] = "open"]
  /\ device' = [device EXCEPT ![s] = d]

Init ==
  /\ condition \in [Devices -> Conditions]
  /\ mode \in Modes /\ choice \in Devices
  /\ pc = [s \in Sources |->
             IF s = 1 /\ mode = "composited" THEN "open" ELSE "none"]
  /\ device = [s \in Sources |-> choice]
  /\ stop = [s \in Sources |-> FALSE] /\ latest = [s \in Sources |-> 0]
  /\ ui = "update"
  /\ capture = IF mode = "composited" THEN 1 ELSE None
  /\ capture_tex = None /\ capture_tex_seq = 0
  /\ opens = IF mode = "composited" THEN 1 ELSE 0
  /\ detached = {} /\ atStop = [s \in Sources |-> 0]

-----------------------------------------------------------------------------
(* capture_loop.  A call to the camera returns unless the device is        *)
(* wedged.                                                                 *)

Goto(s, to) == pc' = [pc EXCEPT ![s] = to]

At(s, where) == pc[s] = where

Returns(s) == condition[device[s]] # "wedged"

Plugged(s) == condition[device[s]] \in {"works", "garbled"}

threadOnly == UNCHANGED <<condition, device, stop, appVars, history>>

\* The threads that hold a camera.
Streaming == {"start", "loop", "frame", "backoff", "finish"}

Contended(s) == \E t \in Sources \ {s} : pc[t] \in Streaming /\ device[t] = device[s]

\* Camera::new; a device that another thread holds may refuse.  The thread
\* ends when it fails: nothing opens the device again.
OpenCamera(s) ==
  /\ At(s, "open") /\ Returns(s)
  /\ \/ Plugged(s) /\ Goto(s, "start")
     \/ (~Plugged(s) \/ Contended(s)) /\ Goto(s, "done")
  /\ UNCHANGED latest /\ threadOnly

\* open_stream, after the requested format was set or refused.
OpenStream(s) ==
  /\ At(s, "start") /\ Returns(s)
  /\ Goto(s, IF Plugged(s) THEN "loop" ELSE "done")
  /\ UNCHANGED latest /\ threadOnly

\* The loop's condition, the only place that reads stop.
CheckStop(s) ==
  /\ At(s, "loop")
  /\ Goto(s, IF stop[s] THEN "finish" ELSE "frame")
  /\ UNCHANGED latest /\ threadOnly

\* A frame that decodes replaces the one before, seen or not.
Decoded(s) ==
  /\ At(s, "frame") /\ condition[device[s]] = "works" /\ latest[s] < MaxFrames
  /\ latest' = [latest EXCEPT ![s] = @ + 1]
  /\ Goto(s, "loop")
  /\ threadOnly

\* One that does not, and every one past the bound, changes nothing.
Undecodable(s) ==
  /\ At(s, "frame") /\ Plugged(s)
  /\ condition[device[s]] = "garbled" \/ latest[s] = MaxFrames
  /\ Goto(s, "loop")
  /\ UNCHANGED latest /\ threadOnly

GrabFails(s) ==
  /\ At(s, "frame") /\ condition[device[s]] = "absent"
  /\ Goto(s, "backoff")
  /\ UNCHANGED latest /\ threadOnly

\* Mutant of BackedOff: retries the grab at once, as long as it fails.
BackedOffRetries(s) ==
  /\ At(s, "backoff")
  /\ Goto(s, "frame")
  /\ UNCHANGED latest /\ threadOnly

BackedOff(s) ==
  /\ At(s, "backoff")
  /\ Goto(s, "loop")
  /\ UNCHANGED latest /\ threadOnly

\* stop_stream; the camera is released when the thread returns.
StopStream(s) ==
  /\ At(s, "finish") /\ Returns(s)
  /\ Goto(s, "done")
  /\ UNCHANGED latest /\ threadOnly

Thread(s) ==
  \/ OpenCamera(s) \/ OpenStream(s)
  \/ CheckStop(s)
  \/ Decoded(s) \/ Undecodable(s) \/ GrabFails(s) \/ BackedOff(s)
  \/ StopStream(s)

-----------------------------------------------------------------------------
(* The application.                                                        *)

\* Mutant of Restart: the thread is not told.
RestartUnsaid(m, d) ==
  /\ ui = "update" /\ opens < MaxOpens
  /\ mode' = m /\ choice' = d
  /\ ui' = "drop"
  /\ UNCHANGED <<stop, atStop, condition, threadVars, device, capture,
                 capture_tex, capture_tex_seq, opens, detached>>

\* restart_capture begins: the old source is dropped, which sets stop.
Restart(m, d) ==
  /\ ui = "update" /\ opens < MaxOpens
  /\ mode' = m /\ choice' = d
  /\ ui' = "drop"
  /\ IF capture = None THEN UNCHANGED <<stop, atStop>>
     ELSE /\ stop' = [stop EXCEPT ![capture] = TRUE]
          /\ atStop' = [atStop EXCEPT ![capture] = latest[capture]]
  /\ UNCHANGED <<condition, threadVars, device, capture, capture_tex, capture_tex_seq,
                 opens, detached>>

ChangeMode == \E m \in Modes \ {mode} : Restart(m, choice)

\* Another device, or the same one with another input format.
ChangeDevice == \E d \in Devices : mode = "composited" /\ Restart(mode, d)

Reopen ==
  IF mode = "composited"
  THEN /\ opens' = opens + 1
       /\ capture' = opens + 1
       /\ Opened(opens + 1, choice)
  ELSE /\ capture' = None
       /\ UNCHANGED <<opens, pc, device>>

\* Mutant of Restarted: the texture stays, and the number of its frame.
RestartedKeepsTexture ==
  /\ Reopen
  /\ ui' = "update"
  /\ UNCHANGED <<condition, latest, stop, mode, choice, atStop, capture_tex, capture_tex_seq>>

\* The rest of restart_capture.
Restarted ==
  /\ Reopen
  /\ ui' = "update"
  /\ capture_tex' = None /\ capture_tex_seq' = 0
  /\ UNCHANGED <<condition, latest, stop, mode, choice, atStop>>

\* The join returned within its deadline, or there was nothing to join.
Joined ==
  /\ ui = "drop"
  /\ IF capture = None THEN TRUE ELSE At(capture, "done")
  /\ Restarted
  /\ UNCHANGED detached

TimedOut ==
  /\ ui = "drop" /\ capture # None /\ ~At(capture, "done")
  /\ Restarted
  /\ detached' = detached \cup {capture}

\* Mutant of Repaint: uploads the first frame only.
RepaintOnce ==
  /\ ui = "update" /\ mode = "composited"
  /\ capture # None /\ latest[capture] > 0
  /\ capture_tex = None
  /\ capture_tex' = [src |-> capture, seq |-> latest[capture]]
  /\ capture_tex_seq' = latest[capture]
  /\ UNCHANGED <<condition, threadVars, device, stop, ui, mode, choice, capture, history>>

\* capture_texture: the latest frame, when its number is a new one.
Repaint ==
  /\ ui = "update" /\ mode = "composited"
  /\ capture # None /\ latest[capture] > 0
  /\ capture_tex = None \/ latest[capture] # capture_tex_seq
  /\ capture_tex' = [src |-> capture, seq |-> latest[capture]]
  /\ capture_tex_seq' = latest[capture]
  /\ UNCHANGED <<condition, threadVars, device, stop, ui, mode, choice, capture, history>>

\* Plugging, unplugging, hiccups.
DeviceChanges ==
  /\ \E d \in Devices, c \in Conditions : condition' = [condition EXCEPT ![d] = c]
  /\ UNCHANGED <<threadVars, device, stop, appVars, history>>

App == ChangeMode \/ ChangeDevice \/ Joined \/ TimedOut \/ Repaint

Next ==
  \/ \E s \in Sources : Thread(s)
  \/ App
  \/ DeviceChanges

Spec == Init /\ [][Next]_vars

\* Threads are scheduled, the wait has a deadline, and update runs at least
\* every 16 ms.  Nothing is assumed of a device.
FairSpec ==
  /\ Spec
  /\ \A s \in Sources : WF_vars(Thread(s))
  /\ WF_vars(Joined \/ TimedOut)
  /\ WF_vars(Repaint)

-----------------------------------------------------------------------------
(* Properties.                                                             *)

\* Types, and that a source exists exactly when the mode wants one, outside
\* of a restart.
TypeOK ==
  /\ condition \in [Devices -> Conditions]
  /\ pc \in [Sources -> Streaming \cup {"none", "open", "done"}]
  /\ device \in [Sources -> Devices]
  /\ stop \in [Sources -> BOOLEAN]
  /\ latest \in [Sources -> 0..MaxFrames]
  /\ ui \in {"update", "drop"}
  /\ mode \in Modes /\ choice \in Devices
  /\ capture \in Sources \cup {None}
  /\ capture_tex \in [src : Sources, seq : 1..MaxFrames] \cup {None}
  /\ capture_tex_seq \in 0..MaxFrames
  /\ opens \in 0..MaxOpens
  /\ detached \subseteq Sources
  /\ atStop \in [Sources -> 0..MaxFrames]
  /\ ui = "update" => (capture # None <=> mode = "composited")

Alive(s) == pc[s] \notin {"none", "done"}

\* A thread that runs beside the current source's was told to stop and could
\* not be joined in time: switching devices never leaks a reader (Drop).
NoLeakedReader ==
  \A s \in Sources : Alive(s) /\ s # capture => stop[s] /\ s \in detached

\* A source that was dropped stores at most one more frame, the one it was
\* waiting for.
OneMoreFrame ==
  \A s \in Sources : stop[s] => latest[s] <= atStop[s] + 1

\* The picture on the screen is one of the current source's, never one of
\* the device the user left (restart_capture clears it), and no older than
\* capture_tex_seq says.
TextureIsCurrent ==
  IF capture_tex = None THEN capture_tex_seq = 0
  ELSE /\ capture_tex.src = capture
       /\ capture_tex.seq = capture_tex_seq
       /\ capture_tex.seq <= latest[capture]

\* Dropping a source never hangs the UI, not even with a device that stays
\* wedged, and its thread ends unless the device is: backoff, undecodable
\* frames and a camera still opening do not keep it alive.
DropSettles ==
  /\ ui = "drop" ~> ui = "update"
  /\ \A s \in Sources : stop[s] ~> (~Alive(s) \/ condition[device[s]] = "wedged")

\* Once a stream is open, whatever happened to its device before, each frame
\* of a device that works gets to the screen or is replaced by a later one.
FramesReachScreen ==
  \A s \in Sources, n \in 1..MaxFrames :
    (/\ capture = s /\ pc[s] \in {"loop", "frame", "backoff"} /\ ui = "update"
     /\ condition[device[s]] = "works")
    ~> \/ capture # s \/ ui = "drop" \/ condition[device[s]] # "works"
       \/ capture_tex # None /\ capture_tex_seq >= n
=============================================================================
