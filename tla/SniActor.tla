------------------------------ MODULE SniActor ------------------------------
(***************************************************************************)
(* The SNI actor (sni-lua-app/sni_actor.rs) and the window that commands   *)
(* it (main.rs).                                                           *)
(*                                                                         *)
(* The actor takes one command at a time from a queue and awaits the SNI   *)
(* service in between; the window sends commands by what it saw of the     *)
(* shared state at the start of its frame, scripts send writes at any      *)
(* time, and the poll engine reads the client slot whenever a cycle        *)
(* begins.  Each action is what the actor does between two awaits, but     *)
(* that the slot is stored in a step of its own.                           *)
(***************************************************************************)
EXTENDS Integers, SequencesExt

CONSTANTS
  Endpoints,      \* SNI services the user may connect to
  Devices,        \* device uris
  None,           \* no client, no device, no mapping
  Undetectable,   \* the devices whose mapping may not be detected
  MaxCmds         \* bound: commands ever sent

ASSUME ActorAssumption ==
  /\ None \notin Endpoints \cup Devices
  /\ None \notin Endpoints \X Devices
  /\ Undetectable \subseteq Devices /\ MaxCmds \in Nat

VARIABLES
  \* the shared state
  conn, devices, selected, mapping, last_probe,
  slot,           \* ClientSlot: what the poll engine reads from
  \* the actor
  client, pc,
  current,        \* the command being handled
  \* the window
  cmds,           \* commands sent and not received yet
  view,           \* the shared state as of this frame
  sent            \* commands sent so far

state == <<conn, devices, selected, mapping, last_probe>>
vars == <<state, slot, client, pc, current, cmds, view, sent>>

\* A mapping is named by the client and device it was detected on.  A write
\* carries, for the properties, the slot its sender read from, and whether
\* nothing that may change the slot was under way or queued.
Targets == Endpoints \X Devices

SteadyOps == {"probe", "write"}

Cmd ==
  [op : {"connect"}, endpoint : Endpoints]
    \cup [op : {"disconnect", "refresh", "probe"}]
    \cup [op : {"select"}, uri : Devices]
    \cup [op : {"write"}, saw : Targets \cup {None}, settled : BOOLEAN]

\* What republish_slot publishes.
Target == IF client # None /\ selected # None THEN <<client, selected>> ELSE None

Init ==
  /\ conn = "disconnected" /\ devices = {} /\ selected = None /\ mapping = None
  /\ last_probe = "none"
  /\ slot = None
  /\ client = None /\ pc = "idle" /\ current = None
  /\ cmds = << >> /\ sent = 0
  /\ view = [conn |-> conn, devices |-> devices, selected |-> selected]

-----------------------------------------------------------------------------
(* The window.                                                             *)

\* A frame starts with a look at the shared state.
Frame ==
  /\ view' = [conn |-> conn, devices |-> devices, selected |-> selected]
  /\ UNCHANGED <<state, slot, client, pc, current, cmds, sent>>

\* Mutant of Send: the last command is handled first.
SendFirst(cmd) ==
  /\ sent < MaxCmds
  /\ sent' = sent + 1
  /\ cmds' = <<cmd>> \o cmds
  /\ UNCHANGED <<state, slot, client, pc, current, view>>

Send(cmd) ==
  /\ sent < MaxCmds
  /\ sent' = sent + 1
  /\ cmds' = Append(cmds, cmd)
  /\ UNCHANGED <<state, slot, client, pc, current, view>>

Connect(endpoint) ==
  /\ view.conn \notin {"connected", "connecting"}
  /\ Send([op |-> "connect", endpoint |-> endpoint])

Disconnect == view.conn = "connected" /\ Send([op |-> "disconnect"])

RefreshDevices == view.conn = "connected" /\ Send([op |-> "refresh"])

SelectDevice(uri) ==
  /\ uri \in view.devices /\ uri # view.selected
  /\ Send([op |-> "select", uri |-> uri])

Probe == view.conn = "connected" /\ Send([op |-> "probe"])

\* snes.write, whatever the connection.
Write ==
  LET settled == /\ pc = "idle" \/ current.op \in SteadyOps
                 /\ \A i \in DOMAIN cmds : cmds[i].op \in SteadyOps
  IN  Send([op |-> "write", saw |-> slot, settled |-> settled])

-----------------------------------------------------------------------------
(* The actor receives a command.                                           *)

Recv(op) ==
  /\ pc = "idle" /\ cmds # << >> /\ Head(cmds).op = op
  /\ cmds' = Tail(cmds)
  /\ current' = Head(cmds)
  /\ UNCHANGED <<view, sent, slot>>

RecvConnect ==
  /\ Recv("connect")
  /\ conn' = "connecting"
  /\ pc' = "connecting"
  /\ UNCHANGED <<devices, selected, mapping, last_probe, client>>

\* Mutant of RecvDisconnect: the slot is not republished.
RecvDisconnectKeepsSlot ==
  /\ Recv("disconnect")
  /\ client' = None
  /\ conn' = "disconnected" /\ devices' = {} /\ selected' = None /\ mapping' = None
  /\ last_probe' = "none"
  /\ pc' = "idle"

\* Disconnect resets the client and the whole shared state.
RecvDisconnect ==
  /\ Recv("disconnect")
  /\ client' = None
  /\ conn' = "disconnected" /\ devices' = {} /\ selected' = None /\ mapping' = None
  /\ last_probe' = "none"
  /\ pc' = "republish"

RecvRefresh ==
  /\ Recv("refresh")
  /\ pc' = IF client = None THEN "idle" ELSE "listing"
  /\ UNCHANGED <<state, client>>

\* Mutant of RecvSelect: the mapping is not detected again.
RecvSelectKeepsMapping ==
  /\ Recv("select")
  /\ selected' = Head(cmds).uri
  /\ pc' = "republish"
  /\ UNCHANGED <<conn, devices, mapping, last_probe, client>>

\* detect_mapping without a client returns at once.
RecvSelect ==
  /\ Recv("select")
  /\ selected' = Head(cmds).uri
  /\ pc' = IF client = None THEN "republish" ELSE "detecting"
  /\ UNCHANGED <<conn, devices, mapping, last_probe, client>>

\* Mutant of RecvProbe: a client is enough.
RecvProbeAnyDevice ==
  /\ Recv("probe")
  /\ IF client = None
     THEN pc' = "idle" /\ last_probe' = "error"
     ELSE pc' = "probing" /\ UNCHANGED last_probe
  /\ UNCHANGED <<conn, devices, selected, mapping, client>>

RecvProbe ==
  /\ Recv("probe")
  /\ IF Target = None
     THEN pc' = "idle" /\ last_probe' = "error"
     ELSE pc' = "probing" /\ UNCHANGED last_probe
  /\ UNCHANGED <<conn, devices, selected, mapping, client>>

\* A write without a target is dropped.
RecvWrite ==
  /\ Recv("write")
  /\ pc' = IF Target = None THEN "idle" ELSE "writing"
  /\ UNCHANGED <<state, client>>

-----------------------------------------------------------------------------
(* The service answers, or the call fails.                                 *)

actorUnchanged == UNCHANGED <<slot, current, cmds, view, sent>>

\* Connected, and the devices are listed right away.
ConnectOk ==
  /\ pc = "connecting"
  /\ client' = current.endpoint
  /\ conn' = "connected"
  /\ pc' = "listing"
  /\ UNCHANGED <<devices, selected, mapping, last_probe>>
  /\ actorUnchanged

\* Mutant of ConnectErr: the state still says that it is connecting.
ConnectErrSilent ==
  /\ pc = "connecting"
  /\ pc' = "idle"
  /\ UNCHANGED <<state, client>>
  /\ actorUnchanged

\* The client of an earlier connection stays, and so does the slot.
ConnectErr ==
  /\ pc = "connecting"
  /\ conn' = "error"
  /\ pc' = "idle"
  /\ UNCHANGED <<devices, selected, mapping, last_probe, client>>
  /\ actorUnchanged

\* The selected device if it is still listed, else the first.
Selections(listed) ==
  IF selected \in listed THEN {selected}
  ELSE IF listed = {} THEN {None} ELSE listed

\* Devices are listed in an order the service chooses.
ListOk(listed) ==
  /\ pc = "listing"
  /\ devices' = listed
  /\ selected' \in Selections(listed)
  /\ pc' = IF selected' = None THEN "republish" ELSE "detecting"
  /\ UNCHANGED <<conn, mapping, last_probe, client>>
  /\ actorUnchanged

ListErr ==
  /\ pc = "listing"
  /\ conn' = "error"
  /\ pc' = IF selected = None THEN "republish" ELSE "detecting"
  /\ UNCHANGED <<devices, selected, mapping, last_probe, client>>
  /\ actorUnchanged

DetectOk ==
  /\ pc = "detecting"
  /\ mapping' = <<client, selected>>
  /\ pc' = "republish"
  /\ UNCHANGED <<conn, devices, selected, last_probe, client>>
  /\ actorUnchanged

\* The mapping of an earlier device stays.
DetectErr ==
  /\ pc = "detecting" /\ selected \in Undetectable
  /\ pc' = "republish"
  /\ UNCHANGED <<state, client>>
  /\ actorUnchanged

RepublishSlot ==
  /\ pc = "republish"
  /\ slot' = Target
  /\ pc' = "idle"
  /\ UNCHANGED <<state, client, current, cmds, view, sent>>

ProbeDone ==
  /\ pc = "probing"
  /\ last_probe' \in {"bytes", "error"}
  /\ pc' = "idle"
  /\ UNCHANGED <<conn, devices, selected, mapping, client>>
  /\ actorUnchanged

\* Written or failed: a failure is only logged.
WriteDone ==
  /\ pc = "writing"
  /\ pc' = "idle"
  /\ UNCHANGED <<state, client>>
  /\ actorUnchanged

-----------------------------------------------------------------------------
Window ==
  \/ Frame
  \/ \E endpoint \in Endpoints : Connect(endpoint)
  \/ Disconnect \/ RefreshDevices
  \/ \E uri \in Devices : SelectDevice(uri)
  \/ Probe \/ Write

Actor ==
  \/ RecvConnect \/ RecvDisconnect \/ RecvRefresh \/ RecvSelect \/ RecvProbe \/ RecvWrite
  \/ ConnectOk \/ ConnectErr
  \/ \E listed \in SUBSET Devices : ListOk(listed)
  \/ ListErr \/ DetectOk \/ DetectErr \/ RepublishSlot \/ ProbeDone \/ WriteDone

Next == Window \/ Actor

Spec == Init /\ [][Next]_vars

\* The runtime schedules the actor, and every call to the service returns.
FairSpec == Spec /\ WF_vars(Actor)

-----------------------------------------------------------------------------
(* What the actor promises.                                                *)

TypeOK ==
  /\ conn \in {"disconnected", "connecting", "connected", "error"}
  /\ devices \subseteq Devices /\ selected \in Devices \cup {None}
  /\ mapping \in Targets \cup {None} /\ last_probe \in {"none", "bytes", "error"}
  /\ slot \in Targets \cup {None}
  /\ client \in Endpoints \cup {None}
  /\ pc \in {"idle", "connecting", "listing", "detecting", "republish", "probing", "writing"}
  /\ cmds \in Seq(Cmd) /\ current \in Cmd \cup {None} /\ sent \in 0..MaxCmds
  /\ view.devices \subseteq Devices
  /\ pc = "connecting" => current.op = "connect"
  /\ pc = "writing" => current.op = "write"
  /\ pc \notin {"idle", "probing", "writing"} => current \in Cmd /\ current.op \notin SteadyOps
  /\ pc \in {"listing", "detecting"} => client # None
  /\ pc \in {"detecting", "probing", "writing"} => selected # None

\* The actor is not changing connection or device.
Steady == pc \in {"idle", "connecting", "probing", "writing"}

\* The engine polls the device that is shown as selected, over the client the
\* actor holds, and in particular the device that probes and writes go to.
SlotSettled == Steady => slot = Target

\* "None whenever we're disconnected or no device is selected": and as soon as
\* devices are listed, one of them is polled.
EngineIdles ==
  pc = "idle" =>
    /\ conn = "disconnected" => slot = None /\ client = None
    /\ conn = "connected" => client # None
    /\ devices # {} => slot # None

\* The engine follows connection and selection through every outcome of every
\* command.
EngineFollows == SlotSettled /\ EngineIdles

\* A script's write reaches the device that was polled when it wrote, and
\* is not dropped on the way, unless the user intervened before it.
WritesReachWhatWasSeen ==
  /\ \A i \in DOMAIN cmds :
       cmds[i].op = "write" /\ cmds[i].settled =>
         /\ cmds[i].saw = Target
         /\ \A j \in 1..i : cmds[j].op \in SteadyOps
  /\ pc = "writing" /\ current.settled => current.saw = Target

\* The mapping shown is that of the device polled, whatever could not be
\* detected before, unless its own cannot.
MappingOfTarget ==
  pc = "idle" /\ slot # None => mapping = slot \/ slot[2] \in Undetectable

\* No command wedges the actor, and whatever becomes of a connection the
\* Connect button, disabled while connecting, comes back.
CommandsEnd == []<>(pc = "idle" /\ cmds = << >> /\ conn # "connecting")

-----------------------------------------------------------------------------
(* The inductive invariant behind SlotSettled, EngineIdles,                *)
(* WritesReachWhatWasSeen and MappingOfTarget.                             *)

\* Where a settled write is, nothing is changing what it saw.
WritesSettled ==
  \A i \in DOMAIN cmds : cmds[i].op = "write" /\ cmds[i].settled => Steady /\ pc # "connecting"

\* A client is held exactly when there is one to be polled, listed or shown.
ClientHeld ==
  /\ conn = "connected" => client # None
  /\ conn = "disconnected" => client = None
  /\ devices # {} => client # None

\* Once devices are listed, one of them is selected.
DeviceSelected == devices # {} => selected # None

\* Once a detection is over, its mapping is that of the target, wherever the
\* actor is until it lists or detects again.
MappingKnown ==
  pc \notin {"listing", "detecting"} /\ Target # None =>
    mapping = Target \/ selected \in Undetectable

ActorInv ==
  /\ SlotSettled
  /\ WritesReachWhatWasSeen
  /\ WritesSettled
  /\ ClientHeld
  /\ DeviceSelected
=============================================================================
