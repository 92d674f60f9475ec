--------------------------- MODULE CaptureProofs ---------------------------
(***************************************************************************)
(* Theorems about Capture: the safety properties of its run hold for any   *)
(* number of devices, sources and frames.                                  *)
(***************************************************************************)
EXTENDS Capture, TLAPS

\* Sources are opened in order and the current one is the last; it is told
\* to stop when the application waits for it, not before.
Numbered ==
  /\ \A s \in Sources : s > opens => pc[s] = "none" /\ latest[s] = 0 /\ ~stop[s]
  /\ capture # None =>
       /\ capture = opens /\ pc[capture] # "none"
       /\ stop[capture] <=> ui = "drop"
  /\ ui = "drop" => opens < MaxOpens

\* A stopped thread that still waits for a frame has stored none since.
LastFrame ==
  \A s \in Sources : stop[s] =>
    /\ latest[s] <= atStop[s] + 1
    /\ pc[s] = "frame" => latest[s] = atStop[s]

\* The inductive invariant.
IInv == TypeOK /\ Numbered /\ LastFrame /\ NoLeakedReader /\ TextureIsCurrent

-----------------------------------------------------------------------------

\* The initial states satisfy the invariant.
LEMMA InitIInv == Init => IInv
<1> SUFFICES ASSUME Init PROVE IInv
  OBVIOUS
<1> USE CaptureAssumption
<1>1. TypeOK
  BY DEF Init, TypeOK, Streaming, Modes, Conditions, Sources
<1>2. Numbered /\ LastFrame /\ NoLeakedReader /\ TextureIsCurrent
  BY DEF Init, Numbered, LastFrame, NoLeakedReader, Alive, TextureIsCurrent, Sources, Modes
<1> QED
  BY <1>1, <1>2 DEF IInv

\* What a step of a thread does: it moves only that thread, which is alive,
\* never to a grab once it is told to stop, and stores a frame only then.
ThreadMoves(s, to) ==
  /\ Alive(s)
  /\ to \in Streaming \cup {"done"}
  /\ pc' = [pc EXCEPT ![s] = to]
  /\ to = "frame" => ~stop[s]
  /\ \/ latest' = latest
     \/ /\ pc[s] = "frame" /\ to = "loop" /\ latest[s] < MaxFrames
        /\ latest' = [latest EXCEPT ![s] = @ + 1]
  /\ threadOnly

\* Every action of a thread is such a step.
LEMMA ThreadStep ==
  ASSUME NEW s \in Sources, Thread(s)
  PROVE \E to \in Streaming \cup {"done"} : ThreadMoves(s, to)
<1> USE DEF ThreadMoves, Alive, Streaming, Goto, At
<1>1. CASE OpenCamera(s)
  <2>1. CASE Goto(s, "start")
    BY <1>1, <2>1 DEF OpenCamera
  <2>2. CASE Goto(s, "done")
    BY <1>1, <2>2 DEF OpenCamera
  <2> QED
    BY <1>1, <2>1, <2>2 DEF OpenCamera
<1>2. CASE OpenStream(s)
  <2>1. CASE Plugged(s)
    BY <1>2, <2>1 DEF OpenStream
  <2>2. CASE ~Plugged(s)
    BY <1>2, <2>2 DEF OpenStream
  <2> QED
    BY <2>1, <2>2
<1>3. CASE CheckStop(s)
  <2>1. CASE stop[s]
    BY <1>3, <2>1 DEF CheckStop
  <2>2. CASE ~stop[s]
    BY <1>3, <2>2 DEF CheckStop
  <2> QED
    BY <2>1, <2>2
<1>4. CASE Decoded(s)
  BY <1>4 DEF Decoded
<1>5. CASE Undecodable(s)
  BY <1>5 DEF Undecodable
<1>6. CASE GrabFails(s)
  BY <1>6 DEF GrabFails
<1>7. CASE BackedOff(s)
  BY <1>7 DEF BackedOff
<1>8. CASE StopStream(s)
  BY <1>8 DEF StopStream
<1> QED
  BY <1>1, <1>2, <1>3, <1>4, <1>5, <1>6, <1>7, <1>8 DEF Thread

\* A step of a thread keeps the invariant.
LEMMA ThreadKeeps ==
  ASSUME IInv, NEW s \in Sources, Thread(s)
  PROVE IInv'
<1>1. PICK to \in Streaming \cup {"done"} : ThreadMoves(s, to)
  BY ThreadStep
<1> USE CaptureAssumption DEF IInv
<1>2. /\ pc' = [pc EXCEPT ![s] = to] /\ pc[s] # "none" /\ pc[s] # "done"
      /\ to \in Streaming \cup {"done"} /\ to # "none"
      /\ pc' \in [Sources -> Streaming \cup {"none", "open", "done"}]
  BY <1>1 DEF ThreadMoves, Alive, TypeOK, Streaming
<1>3. /\ latest' \in [Sources -> 0..MaxFrames]
      /\ \A t \in Sources : latest'[t] >= latest[t]
      /\ \A t \in Sources \ {s} : latest'[t] = latest[t] /\ pc'[t] = pc[t]
      /\ \/ latest'[s] = latest[s]
         \/ pc[s] = "frame" /\ to = "loop" /\ latest'[s] = latest[s] + 1
  BY <1>1, <1>2 DEF ThreadMoves, TypeOK
<1>4. UNCHANGED <<condition, device, stop, ui, mode, choice, capture, capture_tex,
                  capture_tex_seq, opens, detached, atStop>>
  BY <1>1 DEF ThreadMoves, threadOnly, appVars, history
<1>5. TypeOK'
  BY <1>2, <1>3, <1>4 DEF TypeOK
<1>6. Numbered'
  BY <1>2, <1>3, <1>4 DEF Numbered, TypeOK, Sources
<1>7. LastFrame'
  <2> SUFFICES ASSUME NEW t \in Sources, stop[t]
               PROVE /\ latest'[t] <= atStop[t] + 1
                     /\ pc'[t] = "frame" => latest'[t] = atStop[t]
    BY <1>4 DEF LastFrame
  <2>1. latest[t] \in Nat /\ atStop[t] \in Nat /\ latest'[t] \in Nat
    BY <1>3 DEF TypeOK
  <2>2. CASE t # s
    BY <2>1, <2>2, <1>3 DEF LastFrame
  <2>3. CASE t = s
    <3>1. pc'[s] = to /\ to # "frame"
      BY <1>1, <1>2, <2>3 DEF ThreadMoves, TypeOK
    <3> QED
      BY <2>1, <2>3, <3>1, <1>3 DEF LastFrame
  <2> QED
    BY <2>2, <2>3
<1>8. NoLeakedReader'
  BY <1>1, <1>2, <1>3, <1>4 DEF NoLeakedReader, Alive, ThreadMoves
<1>9. TextureIsCurrent'
  BY <1>3, <1>4 DEF TextureIsCurrent, TypeOK
<1> QED
  BY <1>5, <1>6, <1>7, <1>8, <1>9

\* The beginning of a restart keeps the invariant.
LEMMA RestartKeeps ==
  ASSUME IInv, NEW m \in Modes, NEW d \in Devices, Restart(m, d)
  PROVE IInv'
<1> USE CaptureAssumption DEF IInv
<1>1. UNCHANGED <<condition, pc, latest, device, capture, capture_tex, capture_tex_seq,
                  opens, detached>>
  BY DEF Restart, threadVars
<1>0. opens < MaxOpens
  BY DEF Restart
<1>2. /\ ui = "update" /\ ui' = "drop" /\ mode' = m /\ choice' = d
  BY DEF Restart
<1>3. CASE capture = None
  <2>1. UNCHANGED <<stop, atStop>>
    BY <1>3 DEF Restart
  <2>2. TypeOK'
    BY <1>1, <1>2, <2>1 DEF TypeOK
  <2>3. Numbered' /\ LastFrame' /\ NoLeakedReader' /\ TextureIsCurrent'
    BY <1>0, <1>1, <1>2, <1>3, <2>1
       DEF Numbered, LastFrame, NoLeakedReader, Alive, TextureIsCurrent
  <2> QED
    BY <2>2, <2>3
<1>4. CASE capture # None
  <2>1. /\ stop' = [stop EXCEPT ![capture] = TRUE]
        /\ atStop' = [atStop EXCEPT ![capture] = latest[capture]]
        /\ capture \in Sources
    BY <1>4 DEF Restart, TypeOK
  <2>2. TypeOK'
    BY <1>1, <1>2, <2>1 DEF TypeOK
  <2>3. Numbered'
    BY <1>0, <1>1, <1>2, <1>4, <2>1 DEF Numbered, TypeOK, Sources
  <2>4. LastFrame'
    <3> SUFFICES ASSUME NEW t \in Sources, stop'[t]
                 PROVE /\ latest[t] <= atStop'[t] + 1
                       /\ pc[t] = "frame" => latest[t] = atStop'[t]
      BY <1>1 DEF LastFrame
    <3>1. latest[t] \in Nat
      BY DEF TypeOK
    <3>2. CASE t = capture
      BY <2>1, <3>1, <3>2 DEF TypeOK
    <3>3. CASE t # capture
      BY <2>1, <3>3 DEF LastFrame, TypeOK
    <3> QED
      BY <3>2, <3>3
  <2>5. NoLeakedReader' /\ TextureIsCurrent'
    BY <1>1, <2>1 DEF NoLeakedReader, Alive, TextureIsCurrent, TypeOK
  <2> QED
    BY <2>2, <2>3, <2>4, <2>5
<1> QED
  BY <1>3, <1>4

\* The end of a restart keeps the invariant: whichever way the wait ended,
\* the old thread is done or given up.
LEMMA RestartedKeeps ==
  ASSUME IInv, Joined \/ TimedOut
  PROVE IInv'
<1> USE CaptureAssumption DEF IInv
<1>1. /\ ui = "drop" /\ ui' = "update" /\ capture_tex' = None /\ capture_tex_seq' = 0
      /\ UNCHANGED <<condition, latest, stop, mode, choice, atStop>>
      /\ Reopen
  BY DEF Joined, TimedOut, Restarted
<1>0. opens < MaxOpens
  BY <1>1 DEF Numbered
<1>2. /\ detached' \subseteq Sources /\ detached \subseteq detached'
      /\ capture # None => stop[capture] /\ (~Alive(capture) \/ capture \in detached')
  BY DEF Joined, TimedOut, At, Alive, TypeOK, Numbered
<1>3. CASE mode = "composited"
  <2>1. /\ opens' = opens + 1 /\ capture' = opens' /\ opens' \in Sources
        /\ opens' \in 0..MaxOpens
        /\ pc' = [pc EXCEPT ![opens + 1] = "open"]
        /\ device' = [device EXCEPT ![opens + 1] = choice]
    BY <1>0, <1>1, <1>3 DEF Reopen, Opened, TypeOK, Sources
  <2>2. /\ pc[opens + 1] = "none" /\ ~stop[opens + 1] /\ latest[opens + 1] = 0
        /\ capture' # None /\ capture # opens + 1
    <3>1. opens \in Nat /\ opens + 1 \in Sources /\ opens + 1 > opens /\ capture' # None
      BY <2>1 DEF TypeOK, Sources
    <3>2. pc[opens + 1] = "none" /\ latest[opens + 1] = 0 /\ ~stop[opens + 1]
      BY <3>1 DEF Numbered
    <3>3. capture # opens + 1
      BY <3>1, <3>2 DEF Numbered
    <3> QED
      BY <3>1, <3>2, <3>3
  <2>3. TypeOK'
    BY <1>1, <1>2, <1>3, <2>1, <2>2 DEF TypeOK
  <2>4. Numbered'
    BY <1>1, <2>1, <2>2 DEF Numbered, TypeOK, Sources
  <2>5. LastFrame'
    BY <1>1, <2>1, <2>2 DEF LastFrame, TypeOK
  <2>6. NoLeakedReader'
    BY <1>1, <1>2, <2>1, <2>2 DEF NoLeakedReader, Alive, TypeOK
  <2> QED
    BY <1>1, <2>3, <2>4, <2>5, <2>6 DEF TextureIsCurrent
<1>4. CASE mode # "composited"
  <2>1. capture' = None /\ UNCHANGED <<opens, pc, device>>
    BY <1>1, <1>4 DEF Reopen
  <2>2. TypeOK'
    BY <1>1, <1>2, <1>4, <2>1 DEF TypeOK
  <2>3. Numbered' /\ LastFrame' /\ NoLeakedReader' /\ TextureIsCurrent'
    BY <1>1, <1>2, <2>1 DEF Numbered, LastFrame, NoLeakedReader, Alive, TextureIsCurrent
  <2> QED
    BY <2>2, <2>3
<1> QED
  BY <1>3, <1>4

\* A repaint keeps the invariant.
LEMMA RepaintKeeps == ASSUME IInv, Repaint PROVE IInv'
<1> USE CaptureAssumption DEF IInv
<1>1. /\ UNCHANGED <<condition, pc, latest, device, stop, ui, mode, choice, capture,
                     opens, detached, atStop>>
      /\ capture \in Sources /\ latest[capture] \in 1..MaxFrames
      /\ capture_tex' = [src |-> capture, seq |-> latest[capture]]
      /\ capture_tex_seq' = latest[capture]
  BY DEF Repaint, threadVars, history, TypeOK
<1>2. /\ capture_tex' \in [src : Sources, seq : 1..MaxFrames] /\ capture_tex' # None
      /\ capture_tex_seq' \in 0..MaxFrames
      /\ capture_tex'.src = capture /\ capture_tex'.seq = latest[capture]
      /\ latest[capture] <= latest[capture]
  BY <1>1
<1>3. TypeOK'
  BY <1>1, <1>2 DEF TypeOK
<1>4. Numbered' /\ LastFrame' /\ NoLeakedReader'
  BY <1>1 DEF Numbered, LastFrame, NoLeakedReader, Alive
<1>5. TextureIsCurrent'
  BY <1>1, <1>2 DEF TextureIsCurrent
<1> QED
  BY <1>3, <1>4, <1>5

\* A change of a device, and no step, keep the invariant.
LEMMA OthersKeep == ASSUME IInv, DeviceChanges \/ UNCHANGED vars PROVE IInv'
<1>1. /\ UNCHANGED <<pc, latest, device, stop, ui, mode, choice, capture, capture_tex,
                     capture_tex_seq, opens, detached, atStop>>
      /\ condition' \in [Devices -> Conditions]
  BY DEF DeviceChanges, vars, threadVars, appVars, history, IInv, TypeOK
<1> QED
  BY <1>1 DEF IInv, TypeOK, Numbered, LastFrame, NoLeakedReader, Alive, TextureIsCurrent
-----------------------------------------------------------------------------

\* Every reachable state satisfies the invariant.
THEOREM CaptureInvariant == Spec => []IInv
<1>1. IInv /\ [Next]_vars => IInv'
  <2> SUFFICES ASSUME IInv, [Next]_vars PROVE IInv'
    OBVIOUS
  <2>1. ASSUME NEW s \in Sources, Thread(s) PROVE IInv'
    BY <2>1, ThreadKeeps
  <2>2. CASE ChangeMode
    <3>1. PICK m \in Modes \ {mode} : Restart(m, choice)
      BY <2>2 DEF ChangeMode
    <3> QED
      BY <3>1, RestartKeeps DEF IInv, TypeOK
  <2>3. CASE ChangeDevice
    <3>1. PICK d \in Devices : Restart(mode, d)
      BY <2>3 DEF ChangeDevice
    <3> QED
      BY <3>1, RestartKeeps DEF IInv, TypeOK
  <2>4. CASE Joined \/ TimedOut
    BY <2>4, RestartedKeeps
  <2>5. CASE Repaint
    BY <2>5, RepaintKeeps
  <2>6. CASE DeviceChanges \/ UNCHANGED vars
    BY <2>6, OthersKeep
  <2> QED
    BY <2>1, <2>2, <2>3, <2>4, <2>5, <2>6 DEF Next, App
<1> QED
  BY InitIInv, <1>1, PTL DEF Spec

\* Types, and that a source exists exactly when the mode wants one.
THEOREM CaptureTypeCorrect == Spec => []TypeOK
<1>1. IInv => TypeOK
  BY DEF IInv
<1> QED
  BY <1>1, CaptureInvariant, PTL

\* Dropping sources, however often and whatever the devices do, never leaks
\* a reader that was not told to stop or not waited for.
THEOREM LeaksNoReader == Spec => []NoLeakedReader
<1>1. IInv => NoLeakedReader
  BY DEF IInv
<1> QED
  BY <1>1, CaptureInvariant, PTL

\* A dropped source stores at most one more frame.
THEOREM StopsWithinAFrame == Spec => []OneMoreFrame
<1>1. IInv => OneMoreFrame
  BY DEF IInv, LastFrame, OneMoreFrame
<1> QED
  BY <1>1, CaptureInvariant, PTL

\* The picture on the screen is one of the current source's.
THEOREM ShowsCurrentSource == Spec => []TextureIsCurrent
<1>1. IInv => TextureIsCurrent
  BY DEF IInv
<1> QED
  BY <1>1, CaptureInvariant, PTL
=============================================================================
