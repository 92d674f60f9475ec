----------------------------- MODULE PollEngine -----------------------------
(***************************************************************************)
(* The read-through cache between Lua scripts and a console: the watch     *)
(* registry the script thread writes (sni-cache/src/watch.rs), the poll    *)
(* task that turns requests into batched reads and publishes snapshots     *)
(* (engine.rs), and the published snapshot (snapshot.rs).                  *)
(*                                                                         *)
(* The script thread and the poll task share the registry, behind a lock,  *)
(* and the snapshot, behind an atomic pointer.  A poll cycle is cut into   *)
(* actions where the task takes the registry's lock or awaits a reply, so  *)
(* that script calls and device writes fall anywhere between.              *)
(*                                                                         *)
(* Time is abstract: the demand window closes by an action of its own, and *)
(* a bulk drain may stop after any batch.  The byte budget of a batch is   *)
(* any member of Budgets (module ByteBudget has the rule that adapts it).  *)
(* Memory contents are abstract too: what a read returns is stamped with   *)
(* the region and the device it came from and with the request marker the  *)
(* registry had issued last when the device was sampled.  The marker is    *)
(* the logical clock of the properties: a value stamped n or later was     *)
(* sampled after request n was made.                                       *)
(***************************************************************************)
EXTENDS ReadPlan

CONSTANTS
  Regions,      \* memory regions scripts watch: [space, addr, size]
  Priorities,   \* tiers scripts ask for
  Devices,      \* device URIs the client slot may hold
  NoDevice,     \* the slot is empty
  BadRegions,   \* regions the device refuses: a batch that has one fails
  MayTruncate,  \* TRUE: the device may answer fewer bytes than asked
  Gap,          \* PollConfig.coalesce_gap
  Budgets,      \* byte budgets a batch may be given
  GcPeriod,     \* cycles between collections of read_state (256 in the code)
  MaxId,        \* bound: watches ever registered
  MaxRequest,   \* bound: request markers ever issued
  MaxCycle,     \* bound: poll cycles
  MaxErrors     \* bound: transient read errors

ASSUME RegionsAssumption ==
  Regions \subseteq [space : Nat, addr : Nat, size : Nat]
ASSUME PrioritiesAssumption == Priorities \subseteq WatchPriority
ASSUME DeviceAssumption == NoDevice \notin Devices
ASSUME BoundsAssumption ==
  /\ MaxId \in Nat /\ MaxRequest \in Nat /\ MaxCycle \in Nat /\ MaxErrors \in Nat
  /\ GcPeriod \in Nat \ {0} /\ Gap \in Nat /\ Budgets \subseteq Nat
  /\ MayTruncate \in BOOLEAN

VARIABLES
  \* WatchRegistry
  registry,      \* id -> WatchEntry, the live watches
  next_id,
  next_request,  \* the last request marker issued
  \* shared by the actor, the poll task and the scripts
  slot,          \* ClientSlot: the device polled, or NoDevice
  current,       \* the published Snapshot
  \* locals of the poll task
  pc,
  cycle,
  uri,           \* device of this cycle
  live_ids,      \* ids registered when the cycle began
  watches,       \* active watches of this cycle, with their request markers
  builder,       \* SnapshotBuilder: id -> cached value
  read_state,    \* id -> [request_seq, refresh_cycle]
  batch,         \* reads of the MultiRead in flight
  reply,         \* its answer, once the device has been sampled
  done,          \* ids refreshed by this cycle's bulk drain
  reads_issued,  \* TRUE once a bulk batch of this cycle succeeded
  last_error,    \* TRUE when a read of this cycle failed
  \* bookkeeping of the model
  errors,        \* transient errors so far
  waited         \* id -> cycles published while its request stayed pending

registryVars == <<registry, next_id, next_request>>
cycleVars == <<uri, live_ids, watches, builder, batch, reply, done, reads_issued, last_error>>
ghostVars == <<errors, waited>>
vars == <<registryVars, slot, current, pc, cycle, cycleVars, read_state, ghostVars>>

-----------------------------------------------------------------------------
WatchId == Nat

WatchEntry == [region : Regions, prio : WatchPriority, request_seq : Nat,
               pinned : BOOLEAN, warm : BOOLEAN]      \* warm: within the demand window

\* A cached value: where and when its bytes were sampled, and its age.
Cached == [region : Regions, device : Devices, at : Nat, age : Nat]

ReadStates == [request_seq : Nat, refresh_cycle : Nat]

NoReply == [kind |-> "none"]
Failed  == [kind |-> "err"]
Reply(at, got) == [kind |-> "ok", at |-> at, got |-> got]

\* f with k mapped to v
Put(f, k, v) == [x \in DOMAIN f \cup {k} |-> IF x = k THEN v ELSE f[x]]
\* f on the keys in S only
Keep(f, S) == [x \in DOMAIN f \cap S |-> f[x]]

Init ==
  /\ registry = << >> /\ next_id = 0 /\ next_request = 0
  /\ slot \in Devices \cup {NoDevice}
  /\ current = [data |-> << >>, cycle |-> 0]
  /\ pc = "idle" /\ cycle = 0 /\ uri = NoDevice
  /\ live_ids = {} /\ watches = << >> /\ builder = << >>
  /\ read_state = << >> /\ batch = {} /\ reply = NoReply
  /\ done = {} /\ reads_issued = FALSE /\ last_error = FALSE
  /\ errors = 0 /\ waited = << >>

-----------------------------------------------------------------------------
(* The script thread: WatchRegistry's writers.  Each takes a fresh request *)
(* marker before it takes the lock.                                        *)

scriptUnchanged == UNCHANGED <<slot, current, pc, cycle, cycleVars, read_state, ghostVars>>

NextRequest ==
  /\ next_request < MaxRequest
  /\ next_request' = next_request + 1

\* Mutant of Register: the id allocator is read and not advanced.
RegisterKeepsNextId(region, prio) ==
  /\ next_id < MaxId
  /\ NextRequest
  /\ registry' = Put(registry, next_id,
       [region |-> region, prio |-> prio, request_seq |-> next_request',
        pinned |-> FALSE, warm |-> TRUE])
  /\ UNCHANGED next_id
  /\ scriptUnchanged

\* snes.watch, snes.watch_abs
Register(region, prio) ==
  /\ next_id < MaxId
  /\ NextRequest
  /\ next_id' = next_id + 1
  /\ registry' = Put(registry, next_id,
       [region |-> region, prio |-> prio, request_seq |-> next_request',
        pinned |-> FALSE, warm |-> TRUE])
  /\ scriptUnchanged

\* Every typed reader, snes.bytes, snes.buttons and snes.age.
Touch(id) ==
  /\ NextRequest
  /\ registry' = IF id \in DOMAIN registry
                 THEN [registry EXCEPT ![id] = [@ EXCEPT !.warm = TRUE, !.request_seq = next_request']]
                 ELSE registry
  /\ UNCHANGED next_id
  /\ scriptUnchanged

\* snes.tier: raises the priority, never lowers it, and pins the watch.
UpgradePriority(id, prio) ==
  /\ NextRequest
  /\ registry' = IF id \in DOMAIN registry
                 THEN [registry EXCEPT ![id] =
                         [@ EXCEPT !.prio = Min({registry[id].prio, prio}), !.pinned = TRUE,
                                   !.warm = TRUE, !.request_seq = next_request']]
                 ELSE registry
  /\ UNCHANGED next_id
  /\ scriptUnchanged

\* Mutant of Clear: a reloaded script counts its ids from 0 again.
ClearReusesIds ==
  /\ registry # << >>
  /\ registry' = << >> /\ next_id' = 0
  /\ UNCHANGED next_request
  /\ scriptUnchanged

\* load_script drops the watches of the script it replaces.
Clear ==
  /\ registry # << >>
  /\ registry' = << >>
  /\ UNCHANGED <<next_id, next_request>>
  /\ scriptUnchanged

\* The demand window of a watch the script stopped reading closes.
GoDormant(id) ==
  /\ id \in DOMAIN registry /\ registry[id].warm
  /\ registry' = [registry EXCEPT ![id].warm = FALSE]
  /\ UNCHANGED <<next_id, next_request>>
  /\ scriptUnchanged

\* The SNI actor republishes the slot (connect, disconnect, device switch).
RepublishSlot(next) ==
  /\ slot' = next /\ slot' # slot
  /\ UNCHANGED <<registryVars, current, pc, cycle, cycleVars, read_state, ghostVars>>

-----------------------------------------------------------------------------
(* The poll task, up to its first await.                                   *)

\* get_client, then registry.all().  With no client the task sleeps and asks
\* again: nothing changes.
BeginCycle ==
  /\ pc = "idle" /\ slot # NoDevice /\ cycle < MaxCycle
  /\ pc' = "begun"
  /\ cycle' = cycle + 1
  /\ uri' = slot
  /\ live_ids' = DOMAIN registry
  /\ UNCHANGED <<registryVars, slot, current, watches, builder, read_state, batch, reply,
                 done, reads_issued, last_error, ghostVars>>

Active == {id \in DOMAIN registry : registry[id].pinned \/ registry[id].warm}

\* Mutant of FromPrev: carried values do not age.
FromPrevUnaged(snapshot) == snapshot.data

\* SnapshotBuilder::from_prev: everything ages by one cycle.
FromPrev(snapshot) ==
  [id \in DOMAIN snapshot.data |-> [snapshot.data[id] EXCEPT !.age = @ + 1]]

RealtimeIds == {id \in DOMAIN watches : watches[id].prio = Realtime}
BulkIds == DOMAIN watches \ RealtimeIds

\* Mutant of ReadActive: the snapshot keeps only the watches read this cycle.
ReadActiveRetainsActive ==
  /\ pc = "begun"
  /\ watches' = Keep(registry, Active)
  /\ builder' = Keep(FromPrev(current), Active)
  /\ pc' = IF RealtimeIds' = {} THEN "bulk" ELSE "realtime"
  /\ UNCHANGED <<registryVars, slot, current, cycle, uri, live_ids, read_state,
                 batch, reply, done, reads_issued, last_error, ghostVars>>

\* registry.active_with_requests(), a second turn of the lock, and the
\* builder: the previous snapshot, on the ids that were live.
ReadActive ==
  /\ pc = "begun"
  /\ watches' = Keep(registry, Active)
  /\ builder' = Keep(FromPrev(current), live_ids)
  /\ pc' = IF RealtimeIds' = {} THEN "bulk" ELSE "realtime"
  /\ UNCHANGED <<registryVars, slot, current, cycle, uri, live_ids, read_state,
                 batch, reply, done, reads_issued, last_error, ghostVars>>

-----------------------------------------------------------------------------
(* One MultiRead: the task sends it and awaits, the device is sampled, the *)
(* task resumes with the answer.                                           *)

multiReadUnchanged == UNCHANGED <<registryVars, slot, current, cycle, uri, live_ids, watches>>

Fulfilled(id) == IF id \in DOMAIN read_state THEN read_state[id].request_seq ELSE 0

\* The realtime sub-poll, first in every cycle that has realtime watches.
IssueRealtime ==
  /\ pc = "realtime"
  /\ batch' = Coalesce(watches, RealtimeIds, Gap)
  /\ pc' = "realtimeWait"
  /\ multiReadUnchanged
  /\ UNCHANGED <<builder, read_state, reply, done, reads_issued, last_error, ghostVars>>

\* read_is_pending
IsPending(read) ==
  \E id \in read.members : id \notin done /\ watches[id].request_seq > Fulfilled(id)

PendingReads(budget) ==
  {r \in SplitReadsToBudget(watches, Coalesce(watches, BulkIds, Gap), budget) : IsPending(r)}

\* One turn of the bulk drain loop that has something to ask for.
IssueBulk(budget) ==
  /\ pc = "bulk"
  /\ \E reads \in {PendingReads(budget)} :
       reads # {} /\ batch' = SelectBulk(watches, reads, budget, read_state, cycle)
  /\ pc' = "bulkWait"
  /\ multiReadUnchanged
  /\ UNCHANGED <<builder, read_state, reply, done, reads_issued, last_error, ghostVars>>

\* The drain loop ends: nothing is pending, or the frame's time is spent,
\* which counts only once a batch of this cycle has succeeded.
EndBulk ==
  /\ pc = "bulk"
  /\ reads_issued \/ \A budget \in Budgets : PendingReads(budget) = {}
  /\ pc' = "publish"
  /\ multiReadUnchanged
  /\ UNCHANGED <<builder, read_state, batch, reply, done, reads_issued, last_error, ghostVars>>

\* What apply_reads can use of a blob of `len` bytes for `read`.
Covered(read, len) ==
  {id \in read.members : Beyond(watches, id) - SpanFirst(watches, read.members) <= len}

\* The members whose bytes arrive: all, or all but the tail of one read.
ShortAnswers ==
  UNION {{Members(batch \ {r}) \cup Covered(r, len) : len \in 0..Span(watches, r.members)} :
           r \in batch}
Answers == {Members(batch)} \cup (IF MayTruncate THEN ShortAnswers ELSE {})

\* The device samples memory and answers; `at` is the clock at that moment.
DeviceAnswers ==
  /\ pc \in {"realtimeWait", "bulkWait"} /\ reply = NoReply
  /\ \A id \in Members(batch) : watches[id].region \notin BadRegions
  /\ \E got \in Answers : reply' = Reply(next_request, got)
  /\ multiReadUnchanged
  /\ UNCHANGED <<pc, builder, read_state, batch, done, reads_issued, last_error, ghostVars>>

\* The call fails: always when the batch has a region the device refuses.
DeviceFails ==
  /\ pc \in {"realtimeWait", "bulkWait"} /\ reply = NoReply
  /\ \/ /\ \E id \in Members(batch) : watches[id].region \in BadRegions
        /\ UNCHANGED errors
     \/ errors < MaxErrors /\ errors' = errors + 1
  /\ reply' = Failed
  /\ multiReadUnchanged
  /\ UNCHANGED <<pc, builder, read_state, batch, done, reads_issued, last_error, waited>>

\* apply_reads: slice the blobs into the builder.
ApplyReads ==
  builder' = [id \in DOMAIN builder \cup (Members(batch) \cap reply.got) |->
                IF id \in Members(batch) \cap reply.got
                THEN [region |-> watches[id].region, device |-> uri, at |-> reply.at, age |-> 0]
                ELSE builder[id]]

\* Mutant of MarkFulfilled: the marker is the registry's when the reply comes.
MarkFulfilledLatest ==
  LET marked == Members(batch) \cap DOMAIN registry IN
    read_state' = [id \in DOMAIN read_state \cup marked |->
                     IF id \in marked
                     THEN [request_seq |-> registry[id].request_seq, refresh_cycle |-> cycle]
                     ELSE read_state[id]]

\* mark_fulfilled: every member of every read, with the marker observed when
\* the cycle took its snapshot of the registry.
MarkFulfilled ==
  LET marked == Members(batch) \cap DOMAIN watches IN
    read_state' = [id \in DOMAIN read_state \cup marked |->
                     IF id \in marked
                     THEN [request_seq |-> watches[id].request_seq, refresh_cycle |-> cycle]
                     ELSE read_state[id]]

RealtimeOk ==
  /\ pc = "realtimeWait" /\ reply.kind = "ok"
  /\ ApplyReads
  /\ MarkFulfilled
  /\ pc' = "bulk" /\ batch' = {} /\ reply' = NoReply
  /\ multiReadUnchanged
  /\ UNCHANGED <<done, reads_issued, last_error, ghostVars>>

\* A failed sub-poll does not stop the cycle.
RealtimeErr ==
  /\ pc = "realtimeWait" /\ reply.kind = "err"
  /\ last_error' = TRUE
  /\ pc' = "bulk" /\ batch' = {} /\ reply' = NoReply
  /\ multiReadUnchanged
  /\ UNCHANGED <<builder, read_state, done, reads_issued, ghostVars>>

BulkOk ==
  /\ pc = "bulkWait" /\ reply.kind = "ok"
  /\ ApplyReads
  /\ MarkFulfilled
  /\ done' = done \cup Members(batch)
  /\ reads_issued' = TRUE
  /\ pc' = "bulk" /\ batch' = {} /\ reply' = NoReply
  /\ multiReadUnchanged
  /\ UNCHANGED <<last_error, ghostVars>>

\* Mutant of BulkErr: the batch counts as answered before the reply is known.
BulkErrFulfils ==
  /\ pc = "bulkWait" /\ reply.kind = "err"
  /\ last_error' = TRUE
  /\ MarkFulfilled
  /\ pc' = "publish" /\ batch' = {} /\ reply' = NoReply
  /\ multiReadUnchanged
  /\ UNCHANGED <<builder, done, reads_issued, ghostVars>>

\* A failed batch ends the drain of this cycle.
BulkErr ==
  /\ pc = "bulkWait" /\ reply.kind = "err"
  /\ last_error' = TRUE
  /\ pc' = "publish" /\ batch' = {} /\ reply' = NoReply
  /\ multiReadUnchanged
  /\ UNCHANGED <<builder, read_state, done, reads_issued, ghostVars>>

-----------------------------------------------------------------------------
(* The end of a cycle: publish, collect read_state, sleep.                 *)

StillPending == {id \in DOMAIN watches : watches[id].request_seq > Fulfilled(id)}

Publish ==
  /\ pc = "publish"
  /\ current' = [data |-> builder, cycle |-> cycle]
  /\ read_state' = IF cycle % GcPeriod = 0 THEN Keep(read_state, live_ids) ELSE read_state
  /\ pc' = "idle"
  \* the locals of the cycle go out of scope
  /\ uri' = NoDevice /\ live_ids' = {} /\ watches' = << >> /\ builder' = << >>
  /\ done' = {} /\ reads_issued' = FALSE /\ last_error' = FALSE
  /\ waited' = [id \in StillPending |-> 1 + IF id \in DOMAIN waited THEN waited[id] ELSE 0]
  /\ UNCHANGED <<registryVars, slot, cycle, batch, reply, errors>>

-----------------------------------------------------------------------------
Script ==
  \/ \E region \in Regions, prio \in Priorities : Register(region, prio)
  \/ \E id \in 0..(MaxId - 1) : Touch(id)
  \/ \E id \in 0..(MaxId - 1), prio \in Priorities : UpgradePriority(id, prio)
  \/ Clear

\* The poll task, once it has begun a cycle.
FinishCycle ==
  \/ ReadActive
  \/ IssueRealtime
  \/ RealtimeOk
  \/ RealtimeErr
  \/ \E budget \in Budgets : IssueBulk(budget)
  \/ EndBulk
  \/ BulkOk
  \/ BulkErr
  \/ Publish

Next ==
  \/ Script
  \/ \E id \in DOMAIN registry : GoDormant(id)
  \/ \E next \in Devices \cup {NoDevice} : RepublishSlot(next)
  \/ BeginCycle
  \/ FinishCycle
  \/ DeviceAnswers
  \/ DeviceFails

Spec == Init /\ [][Next]_vars

-----------------------------------------------------------------------------
(* What the cache promises.                                                *)

(* The variables have their types, and what the poll task holds across an  *)
(* await fits together.                                                    *)
RegistryOK ==
  /\ next_id \in 0..MaxId /\ next_request \in 0..MaxRequest
  /\ DOMAIN registry \subseteq 0..(next_id - 1)
  /\ registry \in [DOMAIN registry -> WatchEntry]

SnapshotOK ==
  /\ slot \in Devices \cup {NoDevice}
  /\ DOMAIN current.data \subseteq WatchId
  /\ current \in [data : [DOMAIN current.data -> Cached], cycle : Nat]

CycleOK ==
  /\ pc \in {"idle", "begun", "realtime", "realtimeWait", "bulk", "bulkWait", "publish"}
  /\ cycle \in 0..MaxCycle
  /\ pc = "idle" \/ uri \in Devices
  /\ live_ids \subseteq WatchId
  /\ DOMAIN watches \subseteq WatchId /\ watches \in [DOMAIN watches -> WatchEntry]
  /\ DOMAIN builder \subseteq WatchId /\ builder \in [DOMAIN builder -> Cached]
  /\ DOMAIN read_state \subseteq WatchId /\ read_state \in [DOMAIN read_state -> ReadStates]
  /\ done \subseteq WatchId
  /\ reads_issued \in BOOLEAN /\ last_error \in BOOLEAN

\* The reads in flight are of active watches; the answer is of their bytes.
FlightOK ==
  /\ \A r \in batch : r.members \subseteq DOMAIN watches
  /\ \/ reply = NoReply
     \/ reply = Failed
     \/ reply = Reply(reply.at, reply.got) /\ reply.at \in Nat /\ reply.got \subseteq WatchId
  /\ pc \notin {"realtimeWait", "bulkWait"} => batch = {} /\ reply = NoReply

BooksOK ==
  /\ errors \in 0..MaxErrors
  /\ DOMAIN waited \subseteq WatchId /\ waited \in [DOMAIN waited -> Nat]

TypeOK == RegistryOK /\ SnapshotOK /\ CycleOK /\ FlightOK /\ BooksOK

\* The data the cycle is assembling, or between cycles what scripts see.
Latest == IF pc \in {"idle", "begun"} THEN current.data ELSE builder

\* When the engine holds a live watch's latest request to be fulfilled, and
\* so will not read it again, the value it cached was sampled from the
\* device after the script made that request, also when the script asked
\* again while a read was in flight.
AnsweredAfterAsked ==
  \A id \in DOMAIN registry :
    Fulfilled(id) >= registry[id].request_seq
      => id \in DOMAIN Latest /\ Latest[id].at >= registry[id].request_seq

\* A live watch's cached value is of its own region: the ids of a reloaded
\* script never meet bytes or fulfilment left over from the previous one.
OwnBytes ==
  \A id \in DOMAIN registry \cap DOMAIN current.data :
    current.data[id].region = registry[id].region

\* The engine implements the read-through cache: in particular a live watch
\* never loses its value (to demand eviction, failed or short reads, device
\* changes or removal of other watches), and successive snapshots never take
\* a watch back in time.
Cache == INSTANCE ReadThroughCache WITH
  clock <- next_request,
  ids   <- next_id,
  asked <- [id \in DOMAIN registry |-> registry[id].request_seq],
  cache <- [id \in DOMAIN current.data |-> current.data[id].at]

ImplementsCache == Cache!Spec

\* The age scripts see counts exactly the cycles since the refresh that
\* read_state recorded: the two books, kept apart, agree.  It is 0 for every
\* realtime watch after a cycle without errors, whatever the bulk tier had to
\* do.
AgeHonest ==
  /\ pc = "idle" =>
       \A id \in DOMAIN read_state \cap DOMAIN current.data :
         current.data[id].age = current.cycle - read_state[id].refresh_cycle
  /\ pc = "publish" /\ ~last_error =>
       \A id \in RealtimeIds : id \in DOMAIN builder /\ builder[id].age = 0

\* Round robin: a pending request is passed over at most once for every
\* failed batch and once for every other watch, however often those are
\* requested and whatever their priorities; twice once read_state has been
\* collected, because the collection forgets a watch that was registered
\* between the cycle's two looks at the registry.
BoundedWait ==
  \A id \in DOMAIN waited \cap DOMAIN registry :
    waited[id] <= errors + (next_id - 1) * (IF cycle < GcPeriod THEN 1 ELSE 2)

-----------------------------------------------------------------------------
(* The inductive invariant behind AnsweredAfterAsked, OwnBytes and         *)
(* ImplementsCache, in parts.                                              *)

\* Markers and ids in use were issued before.
MarkersIssued ==
  /\ \A id \in DOMAIN registry : registry[id].request_seq \in 1..next_request
  /\ \A id \in DOMAIN watches : watches[id].request_seq <= next_request
  /\ \A id \in live_ids \cup DOMAIN watches \cup DOMAIN read_state
                \cup DOMAIN current.data \cup DOMAIN builder : id < next_id

\* An answer in hand was sampled after every request the cycle observed.
SampledInFlight ==
  reply.kind = "ok" =>
    /\ reply.at <= next_request
    /\ \A id \in Members(batch) : watches[id].request_seq <= reply.at
    /\ ~MayTruncate => reply.got = Members(batch)

\* No cached value is older than the request it fulfilled.
FulfilledSampled ==
  ~MayTruncate =>
    \A id \in DOMAIN read_state \cap DOMAIN Latest : read_state[id].request_seq <= Latest[id].at

\* A live watch once fulfilled has a cached value, and the cycle that has
\* just begun will carry it forward.
FulfilledHeld ==
  ~MayTruncate =>
    \A id \in DOMAIN read_state \cap DOMAIN registry :
      id \in DOMAIN Latest /\ (pc = "begun" => id \in live_ids)

\* What scripts see now, the next snapshot will show too.
SnapshotCarried ==
  \A id \in DOMAIN current.data \cap DOMAIN registry :
    id \in DOMAIN Latest /\ (pc = "begun" => id \in live_ids)

\* Samples in the snapshot, the answer in hand and the builder are in order.
SamplesOrdered ==
  /\ \A id \in DOMAIN current.data : current.data[id].at <= next_request
  /\ \A id \in DOMAIN builder : builder[id].at <= next_request
  /\ reply.kind = "ok" => \A id \in DOMAIN current.data : current.data[id].at <= reply.at
  /\ \A id \in DOMAIN current.data \cap DOMAIN Latest : current.data[id].at <= Latest[id].at

\* A watch id means the same region wherever it is kept.
RegionsAgree ==
  \A id \in DOMAIN registry :
    /\ id \in DOMAIN watches => watches[id].region = registry[id].region
    /\ id \in DOMAIN builder => builder[id].region = registry[id].region
    /\ id \in DOMAIN current.data => current.data[id].region = registry[id].region

CacheInv ==
  /\ MarkersIssued
  /\ SampledInFlight
  /\ FulfilledSampled
  /\ FulfilledHeld
  /\ SnapshotCarried
  /\ SamplesOrdered
  /\ RegionsAgree

-----------------------------------------------------------------------------
(* The inductive invariant behind AgeHonest.                               *)

\* The last cycle the latest data was aged for.
CyclesCounted == IF pc = "begun" THEN cycle - 1 ELSE cycle

\* The ages of the latest data, in the snapshot or the builder, count from
\* the refresh that read_state recorded.
AgesCounted ==
  /\ pc \in {"idle", "begun"} => current.cycle = CyclesCounted
  /\ ~MayTruncate =>
       \A id \in DOMAIN read_state \cap DOMAIN Latest :
         Latest[id].age = CyclesCounted - read_state[id].refresh_cycle

\* The realtime sub-poll asks for every realtime watch of the cycle, and once
\* it has succeeded their values are fresh until the cycle is published.
RealtimeServed ==
  /\ pc = "realtimeWait" => batch = Coalesce(watches, RealtimeIds, Gap)
  /\ pc \in {"bulk", "bulkWait", "publish"} /\ ~last_error /\ ~MayTruncate =>
       \A id \in RealtimeIds : id \in DOMAIN builder /\ builder[id].age = 0

AgeInv == AgesCounted /\ RealtimeServed

-----------------------------------------------------------------------------
(* The inductive invariant behind BoundedWait: every cycle that passes a   *)
(* pending request over has a failed batch to show for it, or a watch that *)
(* will not come before it again until it is served.                       *)

Refreshed(id) == RefreshCycle(read_state, id)
Pending(id) == id \in DOMAIN watches /\ watches[id].request_seq > Fulfilled(id)
WaitedFor(id) == IF id \in DOMAIN waited THEN waited[id] ELSE 0

\* The ids handed out, but one.
Others(id) == (0..(next_id - 1)) \ {id}

\* The others that select_bulk has no reason to prefer to `id`: watches
\* refreshed since, and those that are no more.
Ahead(id) == {w \in Others(id) : w \notin DOMAIN registry \/ Refreshed(w) > Refreshed(id)}

\* Registered after the cycle took the live ids: a collection of read_state
\* at its end forgets these, and will never forget them again.
Unlisted == {w \in DOMAIN registry : pc # "idle" /\ w \notin live_ids}
Settled(id) == Others(id) \ Unlisted

\* The cycle under way has what accounts for one more wait.
Accounted == reply = Failed \/ last_error \/ reads_issued \/ pc = "publish"

Spent(id) == WaitedFor(id) + (IF Accounted THEN 1 ELSE 0)
Room(id) ==
  errors + Cardinality(Ahead(id)) + (IF cycle < GcPeriod THEN 0 ELSE Cardinality(Settled(id)))

WaitAccounted ==
  \A id \in DOMAIN registry :
    pc \in {"idle", "begun"} \/ Pending(id) => Spent(id) <= Room(id)

\* Refreshes are dated in the past, and in this cycle only by a batch that
\* marked the request the cycle observed.
RefreshesPast ==
  /\ pc # "idle" => cycle >= 1
  /\ \A id \in DOMAIN read_state : read_state[id].refresh_cycle <= CyclesCounted
  /\ pc \notin {"idle", "begun"} =>
       \A id \in DOMAIN watches : Refreshed(id) = cycle => ~Pending(id)

\* The watches of a cycle are cleared all together or not at all.
ClearedTogether ==
  pc \notin {"idle", "begun"} =>
    DOMAIN watches \subseteq DOMAIN registry \/ DOMAIN watches \cap DOMAIN registry = {}

\* What the drain loop has done so far in this cycle.
DrainKnown ==
  /\ pc \in {"idle", "begun", "realtime", "realtimeWait"} => ~reads_issued
  /\ pc \in {"idle", "begun"} => ~last_error
  /\ ~reads_issued => done = {}
  /\ pc \in {"bulk", "bulkWait", "publish"} /\ ~last_error =>
       \A id \in RealtimeIds : ~Pending(id)

\* The first batch asks for a watch as stale as any that waits.
StalestAsked ==
  pc = "bulkWait" /\ ~reads_issued =>
    \A id \in BulkIds : Pending(id) =>
      \E v \in Members(batch) : Refreshed(v) <= Refreshed(id)

WaitInv ==
  /\ WaitAccounted
  /\ RefreshesPast
  /\ ClearedTogether
  /\ DrainKnown
  /\ StalestAsked
  /\ \A id \in DOMAIN waited : id < next_id
  /\ BoundedWait
=============================================================================
