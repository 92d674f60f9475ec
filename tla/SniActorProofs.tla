--------------------------- MODULE SniActorProofs ---------------------------
(***************************************************************************)
(* Theorems of SniActor, for any services, devices and number of commands. *)
(*                                                                         *)
(*   ActorTypeCorrect    Spec => []TypeOK                                  *)
(*   EngineFollowsActor  Spec => []EngineFollows                           *)
(*   WritesReach         Spec => []WritesReachWhatWasSeen                  *)
(*   MappingIsOfTarget   Spec => []MappingOfTarget                         *)
(***************************************************************************)
EXTENDS SniActor, Facts

-----------------------------------------------------------------------------
(* Commands.                                                               *)

\* The parts of a command.
LEMMA CmdParts ==
  ASSUME NEW c \in Cmd
  PROVE  /\ c.op \in {"connect", "disconnect", "refresh", "probe", "select", "write"}
         /\ c.op = "connect" => c.endpoint \in Endpoints
         /\ c.op = "select" => c.uri \in Devices
  BY DEF Cmd

\* Sending a command; a settled write is one that sees what is published.
LEMMA SendStep ==
  ASSUME TypeOK, ActorInv, NEW cmd \in Cmd, Send(cmd),
         cmd.op = "write" /\ cmd.settled =>
           /\ Steady /\ pc # "connecting" /\ cmd.saw = Target
           /\ \A i \in DOMAIN cmds : cmds[i].op \in SteadyOps
  PROVE  TypeOK' /\ ActorInv'
<1>1. /\ sent < MaxCmds /\ sent' = sent + 1 /\ cmds' = Append(cmds, cmd)
      /\ UNCHANGED <<conn, devices, selected, mapping, last_probe, slot, client, pc, current>>
      /\ UNCHANGED view
  BY DEF Send, state
<1>2. /\ cmds \in Seq(Cmd) /\ cmds' \in Seq(Cmd)
      /\ DOMAIN cmds' = DOMAIN cmds \cup {Len(cmds) + 1} /\ Len(cmds) \in Nat
      /\ DOMAIN cmds = 1..Len(cmds)
      /\ \A i \in DOMAIN cmds : cmds'[i] = cmds[i]
      /\ cmds'[Len(cmds) + 1] = cmd
  BY <1>1, AppendFacts DEF TypeOK
<1>3. sent' \in 0..MaxCmds
  BY <1>1, ActorAssumption DEF TypeOK
<1>4. TypeOK'
  BY <1>1, <1>2, <1>3 DEF TypeOK
<1>5. SlotSettled' /\ ClientHeld' /\ DeviceSelected' /\ Target' = Target /\ Steady' = Steady
  BY <1>1 DEF ActorInv, SlotSettled, ClientHeld, DeviceSelected, Target, Steady
<1>6. WritesSettled'
  BY <1>1, <1>2, <1>5 DEF ActorInv, WritesSettled
<1>7. WritesReachWhatWasSeen'
  <2>1. ASSUME NEW i \in DOMAIN cmds', cmds'[i].op = "write" /\ cmds'[i].settled
        PROVE  cmds'[i].saw = Target' /\ \A j \in 1..i : cmds'[j].op \in SteadyOps
    <3>1. CASE i \in DOMAIN cmds
      <4>1. \A j \in 1..i : j \in DOMAIN cmds
        BY <1>2, <3>1
      <4> QED
        BY <1>2, <1>5, <2>1, <3>1, <4>1 DEF ActorInv, WritesReachWhatWasSeen
    <3>2. CASE i = Len(cmds) + 1
      <4>1. cmds'[i] = cmd
        BY <1>2, <3>2
      <4>2. \A j \in 1..i : j \in DOMAIN cmds \/ j = i
        BY <1>2, <3>2
      <4>3. \A j \in 1..i : cmds'[j].op \in SteadyOps
        BY <1>2, <2>1, <4>1, <4>2 DEF SteadyOps
      <4> QED
        BY <1>5, <2>1, <4>1, <4>3
    <3> QED
      BY <1>2, <3>1, <3>2
  <2>2. pc' = "writing" /\ current'.settled => current'.saw = Target'
    BY <1>1, <1>5 DEF ActorInv, WritesReachWhatWasSeen
  <2> QED
    BY <2>1, <2>2 DEF WritesReachWhatWasSeen
<1> QED
  BY <1>4, <1>5, <1>6, <1>7 DEF ActorInv

\* The window only sends commands, or looks.
LEMMA WindowStep ==
  ASSUME TypeOK, ActorInv, Window
  PROVE  TypeOK' /\ ActorInv'
<1>1. CASE Frame
  <2>1. /\ UNCHANGED <<conn, devices, selected, mapping, last_probe, slot, client, pc, current>>
        /\ UNCHANGED <<cmds, sent>>
        /\ view' = [conn |-> conn, devices |-> devices, selected |-> selected]
    BY <1>1 DEF Frame, state
  <2>2. TypeOK'
    BY <2>1 DEF TypeOK
  <2>3. ActorInv'
    BY <2>1 DEF ActorInv, SlotSettled, WritesReachWhatWasSeen, WritesSettled, ClientHeld,
                DeviceSelected, Target, Steady
  <2> QED
    BY <2>2, <2>3
<1>2. ASSUME NEW cmd \in Cmd, Send(cmd), cmd.op # "write"
      PROVE  TypeOK' /\ ActorInv'
  BY <1>2, SendStep
<1>3. ASSUME NEW endpoint \in Endpoints, Connect(endpoint)
      PROVE  TypeOK' /\ ActorInv'
  <2> DEFINE cmd == [op |-> "connect", endpoint |-> endpoint]
  <2>1. cmd \in Cmd /\ cmd.op # "write"
    BY DEF Cmd
  <2> QED
    BY <1>2, <1>3, <2>1 DEF Connect
<1>4. CASE Disconnect \/ RefreshDevices \/ Probe
  <2>1. ASSUME NEW op \in {"disconnect", "refresh", "probe"}
        PROVE  [op |-> op] \in Cmd /\ [op |-> op].op # "write"
    BY DEF Cmd
  <2> QED
    BY <1>2, <1>4, <2>1 DEF Disconnect, RefreshDevices, Probe
<1>5. ASSUME NEW uri \in Devices, SelectDevice(uri)
      PROVE  TypeOK' /\ ActorInv'
  <2> DEFINE cmd == [op |-> "select", uri |-> uri]
  <2>1. cmd \in Cmd /\ cmd.op # "write"
    BY DEF Cmd
  <2> QED
    BY <1>2, <1>5, <2>1 DEF SelectDevice
<1>6. CASE Write
  <2> DEFINE settled == /\ pc = "idle" \/ current.op \in SteadyOps
                        /\ \A i \in DOMAIN cmds : cmds[i].op \in SteadyOps
             cmd == [op |-> "write", saw |-> slot, settled |-> settled]
  <2>1. Send(cmd)
    BY <1>6 DEF Write
  <2>2. slot \in Targets \cup {None} /\ settled \in BOOLEAN
    BY DEF TypeOK
  <2>3. cmd \in Cmd /\ cmd.saw = slot /\ cmd.settled = settled
    BY <2>2 DEF Cmd
  <2>4. settled => Steady /\ pc # "connecting"
    BY DEF TypeOK, Steady
  <2>5. settled => slot = Target
    BY <2>4 DEF ActorInv, SlotSettled
  <2> QED
    BY <2>1, <2>3, <2>4, <2>5, SendStep
<1> QED
  BY <1>1, <1>3, <1>4, <1>5, <1>6 DEF Window

-----------------------------------------------------------------------------
(* Receiving a command.                                                    *)

\* The head of the queue becomes the current command.
LEMMA RecvFacts ==
  ASSUME TypeOK, NEW op, Recv(op)
  PROVE  /\ pc = "idle" /\ cmds' \in Seq(Cmd) /\ UNCHANGED <<view, sent, slot>>
         /\ \A i \in DOMAIN cmds' : /\ i \in Nat \ {0} /\ i + 1 \in DOMAIN cmds
                                    /\ cmds'[i] = cmds[i + 1]
         /\ 1 \in DOMAIN cmds /\ current' = cmds[1] /\ current' = Head(cmds)
         /\ current' \in Cmd /\ current'.op = op
  BY TailFacts DEF TypeOK, Recv

\* Behind a command that changes connection or device no write is settled.
LEMMA RecvChanging ==
  ASSUME TypeOK, ActorInv, NEW op, Recv(op), op \notin SteadyOps
  PROVE  \A i \in DOMAIN cmds' : ~(cmds'[i].op = "write" /\ cmds'[i].settled)
<1> SUFFICES ASSUME NEW i \in DOMAIN cmds', cmds'[i].op = "write" /\ cmds'[i].settled
             PROVE  FALSE
  OBVIOUS
<1>1. /\ i \in Nat \ {0} /\ i + 1 \in DOMAIN cmds /\ cmds'[i] = cmds[i + 1]
      /\ cmds[1].op = op
  BY RecvFacts
<1>2. cmds[1].op \in SteadyOps
  BY <1>1 DEF ActorInv, WritesReachWhatWasSeen
<1> QED
  BY <1>1, <1>2

\* Behind a probe or a write the settled writes stay settled.
LEMMA RecvSteady ==
  ASSUME TypeOK, ActorInv, NEW op \in SteadyOps, Recv(op),
         Target' = Target, pc' \in {"idle", "probing", "writing"},
         pc' = "writing" => op = "write"
  PROVE  WritesReachWhatWasSeen' /\ WritesSettled'
<1>1. Steady' /\ pc' # "connecting"
  BY DEF Steady
<1>2. WritesSettled'
  BY <1>1 DEF WritesSettled
<1>3. ASSUME NEW i \in DOMAIN cmds', cmds'[i].op = "write" /\ cmds'[i].settled
      PROVE  cmds'[i].saw = Target' /\ \A j \in 1..i : cmds'[j].op \in SteadyOps
  <2>1. /\ i \in Nat \ {0} /\ i + 1 \in DOMAIN cmds /\ cmds'[i] = cmds[i + 1]
    BY RecvFacts
  <2>2. /\ cmds[i + 1].saw = Target
        /\ \A j \in 1..(i + 1) : cmds[j].op \in SteadyOps
    BY <1>3, <2>1 DEF ActorInv, WritesReachWhatWasSeen
  <2>3. \A j \in 1..i : j + 1 \in 1..(i + 1) /\ j \in DOMAIN cmds'
    BY <2>1, RecvFacts
  <2>4. \A j \in 1..i : cmds'[j] = cmds[j + 1]
    BY <2>3, RecvFacts
  <2> QED
    BY <2>1, <2>2, <2>3, <2>4
<1>4. pc' = "writing" /\ current'.settled => current'.saw = Target'
  BY RecvFacts DEF ActorInv, WritesReachWhatWasSeen
<1> QED
  BY <1>2, <1>3, <1>4 DEF WritesReachWhatWasSeen

\* Receiving a command that may change connection or device.
LEMMA RecvChangingStep ==
  ASSUME TypeOK, ActorInv, RecvConnect \/ RecvDisconnect \/ RecvRefresh \/ RecvSelect
  PROVE  TypeOK' /\ ActorInv'
<1>1. PICK op \in {"connect", "disconnect", "refresh", "select"} :
        /\ Recv(op)
        /\ \/ op = "connect" /\ RecvConnect
           \/ op = "disconnect" /\ RecvDisconnect
           \/ op = "refresh" /\ RecvRefresh
           \/ op = "select" /\ RecvSelect
  BY DEF RecvConnect, RecvDisconnect, RecvRefresh, RecvSelect
<1>2. /\ pc = "idle" /\ cmds' \in Seq(Cmd) /\ UNCHANGED <<view, sent, slot>>
      /\ current' = Head(cmds) /\ current' \in Cmd /\ current'.op = op
  BY <1>1, RecvFacts
<1>3. /\ op \notin SteadyOps
      /\ \A i \in DOMAIN cmds' : ~(cmds'[i].op = "write" /\ cmds'[i].settled)
  BY <1>1, RecvChanging DEF SteadyOps
<1>4. slot = Target
  BY <1>2 DEF ActorInv, SlotSettled, Steady
<1>5. current'.op = "select" => Head(cmds).uri \in Devices
  BY <1>2, CmdParts
<1>6. TypeOK'
  <2>1. CASE op = "connect"
    BY <1>1, <1>2, <1>3, <2>1 DEF TypeOK, RecvConnect
  <2>2. CASE op = "disconnect"
    BY <1>1, <1>2, <1>3, <2>2 DEF TypeOK, RecvDisconnect
  <2>3. CASE op = "refresh"
    BY <1>1, <1>2, <1>3, <2>3 DEF TypeOK, RecvRefresh, state
  <2>4. CASE op = "select"
    <3>1. selected' \in Devices /\ selected' # None
      BY <1>1, <1>2, <1>5, <2>4, ActorAssumption DEF RecvSelect
    <3> QED
      BY <1>1, <1>2, <1>3, <2>4, <3>1 DEF TypeOK, RecvSelect
  <2> QED
    BY <1>1, <2>1, <2>2, <2>3, <2>4
<1>7. SlotSettled'
  BY <1>1, <1>2, <1>4
     DEF SlotSettled, Steady, Target, RecvConnect, RecvDisconnect, RecvRefresh, RecvSelect, state
<1>8. pc' # "writing"
  BY <1>1 DEF RecvConnect, RecvDisconnect, RecvRefresh, RecvSelect
<1>9. WritesReachWhatWasSeen' /\ WritesSettled'
  BY <1>3, <1>8 DEF WritesReachWhatWasSeen, WritesSettled
<1>10. ClientHeld' /\ DeviceSelected'
  BY <1>1, <1>5, <1>2, ActorAssumption
     DEF ActorInv, ClientHeld, DeviceSelected, RecvConnect, RecvDisconnect, RecvRefresh, RecvSelect, state
<1> QED
  BY <1>6, <1>7, <1>9, <1>10 DEF ActorInv

\* Receiving a probe or a write.
LEMMA RecvSteadyStep ==
  ASSUME TypeOK, ActorInv, RecvProbe \/ RecvWrite
  PROVE  TypeOK' /\ ActorInv'
<1>1. PICK op \in {"probe", "write"} :
        /\ Recv(op)
        /\ \/ op = "probe" /\ pc' \in {"idle", "probing"}
           \/ op = "write" /\ pc' \in {"idle", "writing"}
        /\ Target = None => pc' = "idle"
        /\ last_probe' \in {last_probe, "error"}
        /\ UNCHANGED <<conn, devices, selected, mapping, client>>
  BY DEF RecvProbe, RecvWrite, state
<1>2. /\ pc = "idle" /\ cmds' \in Seq(Cmd) /\ UNCHANGED <<view, sent, slot>>
      /\ current' \in Cmd /\ current'.op = op
  BY <1>1, RecvFacts
<1>3. TypeOK'
  BY <1>1, <1>2 DEF TypeOK, Target, SteadyOps
<1>4. Target' = Target /\ slot = Target
  BY <1>1, <1>2 DEF Target, ActorInv, SlotSettled, Steady
<1>5. SlotSettled' /\ ClientHeld' /\ DeviceSelected'
  BY <1>1, <1>2, <1>4 DEF ActorInv, SlotSettled, ClientHeld, DeviceSelected
<1>6. WritesReachWhatWasSeen' /\ WritesSettled'
  BY <1>1, <1>4, RecvSteady DEF SteadyOps
<1> QED
  BY <1>3, <1>5, <1>6 DEF ActorInv

-----------------------------------------------------------------------------
(* Answers of the service.                                                 *)

\* While connection or device change, no settled write waits.
LEMMA AnswerStep ==
  ASSUME TypeOK, ActorInv,
         \/ ConnectOk \/ ConnectErr \/ (\E listed \in SUBSET Devices : ListOk(listed))
         \/ ListErr \/ DetectOk \/ DetectErr \/ RepublishSlot
  PROVE  TypeOK' /\ ActorInv'
<1>1. /\ pc \in {"connecting", "listing", "detecting", "republish"}
      /\ UNCHANGED <<current, cmds, view, sent>>
      /\ pc' \in {"idle", "listing", "detecting", "republish"}
  BY DEF ConnectOk, ConnectErr, ListOk, ListErr, DetectOk, DetectErr, RepublishSlot, actorUnchanged
<1>2. pc = "connecting" => current.endpoint \in Endpoints /\ current.endpoint # None
  BY CmdParts, ActorAssumption DEF TypeOK
<1>3. TypeOK'
  <2>1. CASE ConnectOk
    BY <1>1, <1>2, <2>1 DEF TypeOK, ConnectOk, actorUnchanged
  <2>2. CASE ConnectErr
    BY <1>1, <2>2 DEF TypeOK, ConnectErr, actorUnchanged
  <2>3. ASSUME NEW listed \in SUBSET Devices, ListOk(listed)
        PROVE  TypeOK'
    <3>1. selected' \in Devices \cup {None}
      BY <2>3 DEF ListOk, Selections
    <3> QED
      BY <1>1, <2>3, <3>1 DEF TypeOK, ListOk, actorUnchanged
  <2>4. CASE ListErr
    BY <1>1, <2>4 DEF TypeOK, ListErr, actorUnchanged
  <2>5. CASE DetectOk
    <3>1. <<client, selected>> \in Targets
      BY <2>5 DEF DetectOk, TypeOK, Targets
    <3> QED
      BY <1>1, <2>5, <3>1 DEF TypeOK, DetectOk, actorUnchanged
  <2>6. CASE DetectErr
    BY <1>1, <2>6 DEF TypeOK, DetectErr, actorUnchanged, state
  <2>7. CASE RepublishSlot
    <3>1. Target \in Targets \cup {None}
      BY DEF TypeOK, Target, Targets
    <3> QED
      BY <1>1, <2>7, <3>1 DEF TypeOK, RepublishSlot, state
  <2> QED
    BY <2>1, <2>2, <2>3, <2>4, <2>5, <2>6, <2>7
<1>4. SlotSettled'
  <2>1. CASE ConnectErr
    BY <2>1 DEF ConnectErr, actorUnchanged, ActorInv, SlotSettled, Steady, Target
  <2>2. CASE RepublishSlot
    BY <2>2 DEF RepublishSlot, state, SlotSettled, Target
  <2>3. ASSUME NEW listed \in SUBSET Devices, ListOk(listed)
        PROVE  ~Steady'
    BY <2>3 DEF ListOk, Steady
  <2>4. CASE ConnectOk \/ ListErr \/ DetectOk \/ DetectErr
    BY <2>4 DEF ConnectOk, ListErr, DetectOk, DetectErr, SlotSettled, Steady
  <2> QED
    BY <2>1, <2>2, <2>3, <2>4 DEF SlotSettled
<1>5. \A i \in DOMAIN cmds' : ~(cmds'[i].op = "write" /\ cmds'[i].settled)
  BY <1>1 DEF ActorInv, WritesSettled, Steady
<1>6. WritesReachWhatWasSeen' /\ WritesSettled'
  BY <1>1, <1>5 DEF WritesReachWhatWasSeen, WritesSettled
<1>7. ClientHeld' /\ DeviceSelected'
  <2>1. CASE ConnectOk
    BY <1>1, <1>2, <2>1 DEF ConnectOk, ActorInv, ClientHeld, DeviceSelected
  <2>2. ASSUME NEW listed \in SUBSET Devices, ListOk(listed)
        PROVE  ClientHeld' /\ DeviceSelected'
    <3>1. client # None /\ conn' = conn /\ client' = client /\ devices' = listed
      BY <2>2 DEF ListOk, TypeOK
    <3>2. listed # {} => selected' \in listed
      BY <2>2 DEF ListOk, Selections
    <3>3. None \notin listed
      BY ActorAssumption
    <3> QED
      BY <3>1, <3>2, <3>3 DEF ActorInv, ClientHeld, DeviceSelected
  <2>3. CASE ConnectErr \/ ListErr
    BY <2>3 DEF ConnectErr, ListErr, ActorInv, ClientHeld, DeviceSelected
  <2>4. CASE DetectOk \/ DetectErr \/ RepublishSlot
    BY <2>4 DEF DetectOk, DetectErr, RepublishSlot, state, ActorInv, ClientHeld, DeviceSelected
  <2> QED
    BY <2>1, <2>2, <2>3, <2>4
<1> QED
  BY <1>3, <1>4, <1>6, <1>7 DEF ActorInv

\* A probe or a write is over.
LEMMA DoneStep ==
  ASSUME TypeOK, ActorInv, ProbeDone \/ WriteDone
  PROVE  TypeOK' /\ ActorInv'
<1>1. /\ pc \in {"probing", "writing"} /\ pc' = "idle"
      /\ last_probe' \in {last_probe, "bytes", "error"}
      /\ UNCHANGED <<conn, devices, selected, mapping, client, slot, current, cmds, view, sent>>
  BY DEF ProbeDone, WriteDone, actorUnchanged, state
<1>2. TypeOK'
  BY <1>1 DEF TypeOK
<1>3. ActorInv'
  BY <1>1 DEF ActorInv, SlotSettled, WritesReachWhatWasSeen, WritesSettled, ClientHeld,
              DeviceSelected, Target, Steady
<1> QED
  BY <1>2, <1>3

-----------------------------------------------------------------------------
(* The mapping.                                                            *)

\* A step that keeps what is detected, and what it is detected for, and does
\* not end a listing or a detection.
LEMMA MappingKept ==
  ASSUME MappingKnown, UNCHANGED <<client, selected, mapping>>,
         pc \in {"listing", "detecting"} => pc' = pc \/ pc' \in {"listing", "detecting"}
  PROVE  MappingKnown'
BY DEF MappingKnown, Target

\* Every step knows the mapping of the target, or has yet to detect it.
LEMMA MappingStep ==
  ASSUME TypeOK, MappingKnown, [Next]_vars
  PROVE  MappingKnown'
<1>1. CASE Window \/ UNCHANGED vars
  <2>1. UNCHANGED <<client, selected, mapping, pc>>
    BY <1>1 DEF Window, Frame, Connect, Disconnect, RefreshDevices, SelectDevice, Probe, Write,
                Send, vars, state
  <2> QED
    BY <2>1, MappingKept
<1>2. CASE RecvConnect \/ RecvRefresh \/ RecvProbe \/ RecvWrite
  <2>1. UNCHANGED <<client, selected, mapping>> /\ pc = "idle"
    BY <1>2 DEF RecvConnect, RecvRefresh, RecvProbe, RecvWrite, Recv, state
  <2> QED
    BY <2>1, MappingKept
<1>3. CASE ConnectErr \/ RepublishSlot \/ ProbeDone \/ WriteDone
  <2>1. UNCHANGED <<client, selected, mapping>> /\ pc \notin {"listing", "detecting"}
    BY <1>3 DEF ConnectErr, RepublishSlot, ProbeDone, WriteDone, actorUnchanged, state
  <2> QED
    BY <2>1, MappingKept
<1>4. CASE RecvDisconnect
  BY <1>4 DEF RecvDisconnect, MappingKnown, Target
<1>5. CASE RecvSelect
  BY <1>5 DEF RecvSelect, MappingKnown, Target
<1>6. CASE ConnectOk
  BY <1>6 DEF ConnectOk, MappingKnown
<1>7. ASSUME NEW listed \in SUBSET Devices, ListOk(listed)
      PROVE  MappingKnown'
  BY <1>7 DEF ListOk, MappingKnown, Target
<1>8. CASE ListErr
  BY <1>8 DEF ListErr, MappingKnown, Target
\* The one step that ends with a detected mapping.
<1>9. CASE DetectOk
  BY <1>9 DEF DetectOk, MappingKnown, Target
\* What could not be detected is of a device that may not be.
<1>10. CASE DetectErr
  BY <1>10 DEF DetectErr, MappingKnown, state
<1> QED
  BY <1>1, <1>2, <1>3, <1>4, <1>5, <1>6, <1>7, <1>8, <1>9, <1>10 DEF Next, Actor

-----------------------------------------------------------------------------
(* The theorems.                                                           *)

\* The invariant of the actor.
LEMMA ActorInvariant == Spec => [](TypeOK /\ ActorInv)
<1>1. ASSUME Init PROVE TypeOK /\ ActorInv
  <2>1. << >> \in Seq(Cmd) /\ DOMAIN << >> = {}
    OBVIOUS
  <2>2. TypeOK
    BY <1>1, <2>1, ActorAssumption DEF Init, TypeOK
  <2>3. ActorInv
    BY <1>1, <2>1 DEF Init, ActorInv, SlotSettled, WritesReachWhatWasSeen, WritesSettled,
                     ClientHeld, DeviceSelected, Target
  <2> QED
    BY <2>2, <2>3
<1>2. ASSUME TypeOK, ActorInv, [Next]_vars PROVE TypeOK' /\ ActorInv'
  <2>1. CASE Window
    BY <1>2, <2>1, WindowStep
  <2>2. CASE Actor
    BY <1>2, <2>2, RecvChangingStep, RecvSteadyStep, AnswerStep, DoneStep DEF Actor
  <2>3. CASE UNCHANGED vars
    <3>1. /\ UNCHANGED <<conn, devices, selected, mapping, last_probe, slot, client, pc, current>>
          /\ UNCHANGED <<cmds, view, sent>>
      BY <2>3 DEF vars, state
    <3>2. TypeOK'
      BY <1>2, <3>1 DEF TypeOK
    <3>3. ActorInv'
      BY <1>2, <3>1 DEF ActorInv, SlotSettled, WritesReachWhatWasSeen, WritesSettled, ClientHeld,
                  DeviceSelected, Target, Steady
    <3> QED
      BY <3>2, <3>3
  <2> QED
    BY <1>2, <2>1, <2>2, <2>3 DEF Next
<1> QED
  BY <1>1, <1>2, PTL DEF Spec

\* The shared state, the queue and what the actor is doing keep their types.
THEOREM ActorTypeCorrect == Spec => []TypeOK
BY ActorInvariant, PTL

\* Whenever the actor is not changing connection or device, the engine polls
\* the selected device over the actor's client; disconnected means that
\* nothing is polled, and listed devices that one is.
THEOREM EngineFollowsActor == Spec => []EngineFollows
<1>1. ASSUME TypeOK, ActorInv, pc = "idle" PROVE EngineIdles
  <2>1. slot = Target
    BY <1>1 DEF ActorInv, SlotSettled, Steady
  <2>2. client # None /\ selected # None => Target = <<client, selected>> /\ Target # None
    BY <1>1, ActorAssumption DEF Target, TypeOK
  <2> QED
    BY <1>1, <2>1, <2>2 DEF ActorInv, ClientHeld, DeviceSelected, EngineIdles, Target
<1>2. TypeOK /\ ActorInv => EngineIdles
  BY <1>1 DEF EngineIdles
<1>3. TypeOK /\ ActorInv => EngineFollows
  BY <1>2 DEF ActorInv, EngineFollows
<1> QED
  BY <1>3, ActorInvariant, PTL

\* A write reaches the device that was polled when it was made.
THEOREM WritesReach == Spec => []WritesReachWhatWasSeen
<1>1. ActorInv => WritesReachWhatWasSeen
  BY DEF ActorInv
<1> QED
  BY <1>1, ActorInvariant, PTL

\* The mapping that is shown, whatever was connected to, selected or not
\* detected before, is that of the device polled, unless its own cannot be.
THEOREM MappingIsOfTarget == Spec => []MappingOfTarget
<1>1. Init => MappingKnown
  BY DEF Init, MappingKnown, Target
<1>2. TypeOK /\ MappingKnown /\ [Next]_vars => MappingKnown'
  BY MappingStep
<1>3. TypeOK /\ ActorInv /\ MappingKnown => MappingOfTarget
  <2> SUFFICES ASSUME TypeOK, ActorInv, MappingKnown, pc = "idle", slot # None
               PROVE  mapping = slot \/ slot[2] \in Undetectable
    BY DEF MappingOfTarget
  <2>1. slot = Target /\ Target # None
    BY DEF ActorInv, SlotSettled, Steady
  <2>2. Target = <<client, selected>>
    BY <2>1 DEF Target
  <2> QED
    BY <2>1, <2>2 DEF MappingKnown
<1> QED
  BY <1>1, <1>2, <1>3, ActorInvariant, PTL DEF Spec
=============================================================================
