---------------------------- MODULE MCPollEngine ----------------------------
(***************************************************************************)
(* Small instances of PollEngine: the whole specification, and a busy one  *)
(* in which the same scripts ask and no cycle is spent on nothing, so that *)
(* the bound on cycles leaves room for every request to be served.         *)
(***************************************************************************)
EXTENDS PollEngine, TLC

Region(space, addr, size) == [space |-> space, addr |-> addr, size |-> size]

\* Two neighbours that coalesce, and are split again by a two-byte budget.
Neighbours == {Region(0, 0, 2), Region(0, 2, 2)}

\* Three regions of a batch each.
Row == {Region(0, 0, 2), Region(0, 2, 2), Region(0, 4, 2)}

\* A region the device reads, and one it refuses.
Refused == {Region(0, 9, 1)}
WithRefused == {Region(0, 0, 2)} \cup Refused

-----------------------------------------------------------------------------
Asked == \E id \in Active : registry[id].request_seq > Fulfilled(id)

\* Regions are registered in the order of their addresses, each once.
Unwatched(region) == \A id \in DOMAIN registry : registry[id].region.addr < region.addr

BusyNext ==
  \/ \E region \in Regions, prio \in Priorities : Unwatched(region) /\ Register(region, prio)
  \/ \E id \in DOMAIN registry : Touch(id)
  \/ Asked /\ BeginCycle
  \/ FinishCycle
  \/ DeviceAnswers
  \/ DeviceFails

\* A device is connected from the start.
BusyInit == Init /\ slot \in Devices

BusySpec == BusyInit /\ [][BusyNext]_vars

\* Where the poll task may be, and whether it can go on from there.
Places == {"idle", "begun", "realtime", "realtimeWait", "bulk", "bulkWait", "publish"}
Runnable == pc # "idle" /\ (pc \in {"realtimeWait", "bulkWait"} => reply # NoReply)

\* The poll task is scheduled, and every call to the device returns.  Only the
\* task moves pc, and each of its steps does.
FairBusySpec ==
  /\ BusySpec
  /\ WF_vars(Asked /\ BeginCycle)
  /\ WF_pc(Runnable /\ pc' \in Places \ {pc})
  /\ WF_vars(DeviceAnswers \/ DeviceFails)

\* Every request is answered: a watch asked for at marker n is some day held
\* fulfilled at n or later, in the published snapshot.  A watch's first marker
\* is above its id: every registration before it took one.
RequestsAnswered ==
  \A id \in 0..(MaxId - 1) : \A n \in (id + 1)..MaxRequest :
    (id \in DOMAIN registry /\ registry[id].request_seq = n)
      ~> (id \in DOMAIN current.data /\ current.data[id].at >= n)

\* "Cold/pending data streams in round-robin instead of repeatedly restarting
\* at the same prefix" (engine.rs): a watch whose own region reads well is
\* passed over at most once for every other watch.
PendingStreams ==
  \A id \in DOMAIN waited \cap DOMAIN registry :
    registry[id].region \notin BadRegions => waited[id] <= errors + next_id - 1
=============================================================================
