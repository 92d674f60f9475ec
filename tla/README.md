# A TLA+ model of sni-lua

sni-lua draws Lua overlays on top of a SNES game. Scripts read console memory
through a cache, because every read of the real console (an FXPAK behind the SNI
service) costs a round trip of many milliseconds and the overlay draws sixty
frames a second. This directory models the parts of the program whose
correctness depends on order (who asks, who reads, who publishes, and what
happens when a script is reloaded, a device unplugged or a reply cut short in
between) and the computations whose edges tests hardly reach.

## The system

| Component | State | Operations | Hard part |
|---|---|---|---|
| Watch registry (`sni-cache/src/watch.rs`) | id -> region, tier, request marker, pin, last touch; two counters | `register`, `touch`, `upgrade_priority`, `clear`, `all`, `active_with_requests` | written by the script thread while the poll task reads it twice per cycle |
| Read planning (`coalesce`, `split_reads_to_budget`, `select_bulk`) | none | pure | off-by-one at region ends, offsets after a split, oversized reads |
| Poll engine (`sni-cache/src/engine.rs`) | cycle, fulfilment records, adaptive budget, the snapshot being built | one tokio task: realtime sub-poll, bulk drain loop, publish, collect, sleep | requests, replies and reloads interleave across two awaits; replies fail or are short |
| Snapshot (`snapshot.rs`) | id -> bytes, region, age | `from_prev`, `retain_only`, `set`, `build`; read lock-free by scripts | values carried forward must neither vanish nor lie about their age |
| Adaptive byte budget (`engine.rs`) | budget, throughput, latency floor | `next_budget`, `budget_for_remaining_time`, `batch_fits_remaining_time` | a feedback loop: what is measured depends on what was asked for |
| SNI client (`sni-client`) | a gRPC channel | list, detect, read, write | external service: late, short, failed or missing replies |
| SNI actor (`sni-lua-app/src/sni_actor.rs`) | connection, devices, selection, mapping, client slot | `Connect`, `Disconnect`, `RefreshDevices`, `SelectDevice`, `Probe`, `Write` from a queue | the UI acts on a state the actor has already left |
| Script host (`sni-lua-api/src/lib.rs`) | the Lua VM, `loaded`, controls, canvas, font, origins, path, mouse | `load_script`, `run_frame`, `unload`, the API tables | reloads and script errors against everything the old script left behind |
| HTTP bridge (`sni-lua-api/src/runtime.rs`) | in-flight count, ids, pending callbacks, two channels | `submit`, worker tasks, `pump_http` | answers that come after a reload; a slot freed exactly once |
| Script store (`runtime.rs`) | JSON document, path, dirty flag | `bind`, `set`, `remove`, `replace`, `flush_if_dirty` | what is on disk after a reload, a failed write or a crash |
| Script settings (`controls.rs`) | declared controls and their values | `ui.*`, `persist_controls` | three owners of one value: panel, script, store; the panel saves all values or none |
| JSON conversions (`lib.rs`) | none | `lua_to_json`, `json_to_lua` | Lua does not say what the length of a table with holes is |
| Capture (`sni-capture`) | latest frame, requested format, stop flag | `open`, drop, the capture loop | a blocking driver call against stop and restart |
| Application (`sni-lua-app/src/main.rs`) | configuration, script path, active canvas, viewport, stream window | the egui frame, loading, exit | one value kept in three places that change at different points of an update |
| Renderer and font (`sni-render`) | nothing that outlives a frame | canvas, viewport, text layout, painting | pointer and picture must agree through letterbox and scale |

The script thread (the UI thread) calls the registry and loads the snapshot; the
poll task reads the registry behind its lock, calls the device through the client
slot the actor publishes, and stores the next snapshot behind an atomic pointer.
HTTP responses come back through a channel that the script host drains at the top
of a frame. The store is a plain object of the UI thread; the application binds
it, the script mutates it and the application flushes it once a frame. The
capture thread leaves its latest frame behind a lock; the application uploads it
when its number is new.

What makes each part correct:

* a script that asks for a value gets, in the end, one sampled after it asked,
  and a request is never taken for answered by an older sample;
* a cached value is the watch's own bytes, ages honestly, and is never lost or
  replaced by an older one while the watch lives;
* urgent watches do not starve the others, and the realtime tier never waits;
* polling keeps within its frame, and neither a stall nor a link's latency
  shrinks the budget for good;
* an HTTP callback runs at most once, and only in the script that asked;
* what a script stores is what it finds after a reload, and in its own file;
* the device polled is the device selected;
* the picture captured is the selected device's, and no thread outlives the
  device it reads;
* what is painted is the canvas in force, at the place the pointer is mapped
  from, and a frame shows what its own calls drew.

## Modules

| Module | Models |
|---|---|
| `ReadPlan` | closed forms of `coalesce`, `split_reads_to_budget`, `select_bulk` |
| `ReadPlanLoops` | the same three as the source's loops, as folds over sorted sequences |
| `WatchPlans` | any watches, planned and selected in any cycle |
| `PollEngine` | registry, poll task and snapshot; extends `ReadPlan` |
| `ReadThroughCache` | what a script may rely on, without cycles, tiers or batches |
| `MCPollEngine` | small instances, a busy variant with fairness |
| `PollEngineProofs` | theorems about `PollEngine` and `WatchPlans` |
| `ByteBudget` | the adaptive byte budget against links of several kinds |
| `HttpBridge` | requests from `http.request` to their callback, the worker, reloads |
| `MCHttpBridge` | small instances, fairness, liveness |
| `HttpBridgeProofs` | theorems about `HttpBridge` |
| `SniActor` | the command queue, the actor at its awaits, the client slot, the window that sends |
| `SniActorProofs` | theorems about `SniActor` |
| `ScriptSession` | a script's life: store, settings, load, frame, flush, unload, exit, crash |
| `MCSession` | small instances: which scripts and ids are alike |
| `DurableStore` | what a script may rely on in its store, without flushes and bindings |
| `ScriptSessionProofs` | theorems about `ScriptSession` |
| `Capture` | capture threads, devices, and the application that opens, drops and repaints |
| `CaptureProofs` | theorems about `Capture` |
| `Window` | the update loop: canvas, pointer, text sizing, stream window |
| `MCWindow` | a small instance, with the scales of `Geometry` |
| `WindowProofs` | theorems about `Window` |
| `DrawCalls` | the `gfx` calls of a frame and the draw list they leave |
| `LuaJson` | Lua tables to JSON and back |
| `Geometry` | canvas sizes, viewport, label boxes, capture crop, stream scale |
| `ScreenViews` | any window, canvas, label and pointer together, or any frame and crop |
| `MCFunctions` | inputs for `ReadPlanLoops`, `WatchPlans`, `ByteBudget`, `DrawCalls`, `LuaJson`, `ScreenViews` |
| `FunctionProofs` | theorems about `ByteBudget`, `ScreenViews` and `DrawCalls` |
| `Facts` | what `Append` and `Tail` do to a sequence; least and greatest numbers; finite sums |

### Read planning

A watch set is a function from ids to handles, and a `CoalescedRead` is the set
of its members with a priority: its region is the members' span and an offset is
an address less the span's start, so the closed forms store neither. `coalesce`
becomes: a watch more than `gap` bytes beyond all before it leads a run, and a
run is a leader and what follows up to the next leader. `split_reads_to_budget`
numbers a read's members by address and lets each open a chunk or join the
current one. `select_bulk` ranks reads by staleness, priority, address and, as
its sort is stable, the order it was given. `ReadPlanLoops` keeps the loops,
with `cur_end`, the rebased offsets and the `break`, and stores what the Rust
structs store; `MCFunctions` checks that both agree, so that `PollEngine` may use
the closed forms, and checks of the loops what the closed forms cannot express:
every offset finds the watch's own bytes.

### The poll engine

| Action | Code |
|---|---|
| `Register`, `Touch`, `UpgradePriority`, `Clear` | `watch.rs`, called by the script thread |
| `GoDormant` | the demand window of `active_with_requests` closes |
| `RepublishSlot` | the actor stores another device, or none, in the client slot |
| `BeginCycle` | `get_client`, `cycle += 1`, `registry.all()` |
| `ReadActive` | `active_with_requests`, `from_prev`, `retain_only` |
| `IssueRealtime`, `RealtimeOk`, `RealtimeErr` | the realtime sub-poll, before and after its await |
| `IssueBulk`, `BulkOk`, `BulkErr`, `EndBulk` | one turn of the drain loop, before and after its await; its exits |
| `DeviceAnswers`, `DeviceFails` | the service samples memory and replies (external) |
| `Publish` | `build`, the store to `current`, the collection of `read_state`, the sleep |

The cut points are where the task takes the lock or awaits; a script call, a
device switch or a reply may fall at any of them. Three things are abstracted.

* Time. The demand window closes by an action. The drain loop may end after any
  batch that succeeded, and must go on before that as long as something is
  pending: that is `force_progress`. The pacing sleep only delays `BeginCycle`.
* The budget of a batch is any member of `Budgets`; `ByteBudget` computes it.
* Contents. A value carries the region and device it came from and the last
  request marker issued when the device was sampled. Markers come from one
  counter, so this makes them a logical clock: `at >= n` says that the sample was
  taken after request `n`.

`errors` and `waited` are bookkeeping of the model. `MaxId`, `MaxRequest`,
`MaxCycle` and `MaxErrors` bound the state space and nothing else.

### The abstract cache

`ReadThroughCache` has four actions. `Declare` gives a watch a fresh id; `Ask`
takes a new marker; `Forget` drops all watches and keeps the counters;
`Refresh` shows any new set of samples as long as no live watch loses its value
or goes back in time and no sample is from the future. `PollEngine` maps
`Register` to `Declare`, `Touch` and `UpgradePriority` to `Ask`, `Clear` to
`Forget`, `Publish` to `Refresh`, and everything else to stuttering.

### The byte budget

| Action | Code |
|---|---|
| `StartCycle` | the top of the loop and the realtime sub-poll, answered or failed |
| `FullBatch` | a round of the drain loop that reads as much as it may |
| `SmallRead` | one with little pending |
| `OutOfTime` | the exits of the drain loop for want of time |
| `EndsEarly` | those for want of pending reads, and a failed batch |
| `SwitchDevice` | the actor republishes the slot; everything learnt stays |

A batch is a number of bytes and a device is a `link`: a latency and a rate, or
the rate 0 of an emulator that answers once a frame however much is asked for.
Times are whole milliseconds, as `as_millis` gives them. The f32 throughput is an
integer, 16 times the bytes per millisecond (`Scale`), and the smoothing factor
is the default 1/4. `last` remembers what a property compares a batch with.
`MaxEvents` bounds what disturbs the stream of full batches.

### The HTTP bridge

| Action | Code |
|---|---|
| `Reserve`, `BackOut`, `Enqueue`, `SendFails` | `HttpBridge::submit`, cut after the `fetch_add` and at the send |
| `Stash` | `http.request` storing the callback once `submit` has returned an id |
| `ClientReady`, `ClientInitFails`, `Spawn` | the worker thread: building the client, the receive loop |
| `Complete`, `SendResponse` | the end of a task: the decrement, then the send |
| `BeginFrame`, `Deliver`, `CallbackReturns`, `OnFrame`, `FrameReturns` | `run_frame` and `pump_http` |
| `BeginUnload`, `BeginLoad`, `LoadReturns` | `fire_unload` and `load_script` |

Everything but the worker runs on the UI thread, so `ui` says where that thread
is and `call` how far the `http.request` it is in has come; Lua may call
`http.request` wherever Lua runs. A request carries its id and the script that
made it, which the code does not store: it is what `AnswerToAsker` compares. The
method, URL, headers and body do not matter to any property. `reqwest`'s timeout
is part of `Complete`. `MaxId` and `MaxScript` bound the instance.

### The SNI actor

| Action | Code |
|---|---|
| `Frame` | the window's clone of the shared state at the top of `update` |
| `Connect`, `Disconnect`, `RefreshDevices`, `SelectDevice`, `Probe` | its buttons, enabled by what that clone says |
| `Write` | a script's write through `ActorWriteSink` |
| `RecvConnect` ... `RecvWrite` | the first part of each arm of `Actor::run`, up to its first await |
| `ConnectOk`, `ConnectErr` | `SniClient::connect` is back |
| `ListOk`, `ListErr`, `DetectOk`, `DetectErr` | `refresh_devices` and `detect_mapping` after theirs |
| `RepublishSlot` | `republish_slot`, the last step of every reconfiguration |
| `ProbeDone`, `WriteDone` | the read or write is back |

The actor handles one command at a time, so `pc` and `current` are all its local
state; between two of its steps the window may look, click and queue more. A
command carries only what tells the outcomes apart: the endpoint, the device, and
for a write the device that was polled when it was made (`saw`) and whether
anything that changes devices was ahead of it (`settled`). The last two are the
property's memory, not the program's. `Target` is what the client and the
selection amount to. The queue is unbounded in the code; `MaxCmds` bounds what
is ever sent.

### A script's session

| Action | Code |
|---|---|
| `StoreSet`, `StoreSave` | `store.set` and `store.delete`; `store.save` |
| `Declare`, `UiSet` | `ui.checkbox` and its like, seeded from the store (`OrDefault`); `ui.set` |
| `BeginFrame`, `FrameReturns` | `run_frame`, which may end in an error and mark the script unloaded |
| `FlushClean`, `FlushWrite`, `FlushRename`, `FlushFails` | `flush_if_dirty` and `atomic_write`, after each frame and at exit |
| `Edit` (`SetInPanel`, `Persist`) | the Script tab: the edit and `persist_controls` |
| `EndUpdate` | the end of `update` |
| `LoadScript` (`Bind`, `EnterVm`) | `load_script_from_path`: `Store::bind`, then `load_script` |
| `UnloadReturns`, `LoadSucceeds`, `LoadFails` | `fire_unload`; the chunk and `on_init`, and `persist_controls` after them |
| `Exit` | `on_exit`: `unload`, then `flush_if_dirty` |
| `Crash`, `Start` | the process is killed at any point; `App::new` loads `last_script` if its file can be read |

Everything runs on the UI thread and `at` says where it is; Lua may call the
store and the settings wherever Lua runs. A document is the version of the
script's own keys, as no property tells one of these from another, and under the
reserved key the map of its controls' values. A version names the script that wrote
it and the count of changes then, so that "whose" and "newer" can be asked of a
file. `items` is the panel, in the order of the declarations: any number of controls,
declared in the chunk, in `on_init` or in `on_frame`, two of one id included. A
declaration looks for its own id in the map; `persist_controls` (`Persist`), after
every load and every edit, puts a map of the controls declared so far in its place,
and leaves it alone when there are none.

`stored` and `shown` remember what a script last stored and what its controls last
showed; after a crash they start from what was flushed, as nobody promises more.
`dropped` remembers which values a `Persist` has left out since their controls were
last in the panel, and `opened` whose `on_unload` is due. `may` is chosen once and
for all from `Behaviours`: the `Liberties` that scripts and the file system take in
this behaviour. `StoredIsSaved` asks that writes do not fail, `UnloadRuns` that
`on_frame` does not, and each nothing else. `SettingsRestored` asks that nothing
behind the panel's back changes values (`Unsettling`: `ui.set`, `store.save`, two
controls of one id, a failed write) and excepts `dropped` values, which
`ControlsRestored`, the claim of the documentation, does not. The other properties
hold of every behaviour. `on_unload` may always write at exit and when its own script
is reloaded; `WritesElsewhere` allows it also when the store is bound to another
script already. Scripts leave the reserved key alone except through `store.save`. Left out: a base
directory that cannot be resolved (`unbind`) and a store file that cannot be read,
which counts as empty.

### The abstract store

`DurableStore` knows a document per script, what of it a new process would find, and
the one script that runs. `Change` lets the running script, or its panel, change its
own document; `Save` saves it whole; `Enter` lets another script run with all
documents as they are; `Crash` goes back to what was saved; `FallBack`, which takes
failing writes, loses what was not saved at a change of script. `ScriptSession` maps
`StoreSet`, `StoreSave`, `Edit` and `LoadSucceeds` (with its `persist_controls`) to
`Change`, `FlushRename` to `Save`, `LoadScript`, `UnloadReturns` and `Start` to `Enter`
or, after a failed write, to `FallBack`, `Crash` to `Crash`, and all else to
stuttering: the binding, the dirty flag, the temporary file and the moments of flushing are gone.

### Capture

| Action | Code |
|---|---|
| `OpenCamera`, `OpenStream` | `capture_loop` up to its loop: `Camera::new`, the requested format, `open_stream` |
| `CheckStop` | the loop's condition, the only place that reads `stop` |
| `Decoded`, `Undecodable`, `GrabFails`, `BackedOff` | the four outcomes of a turn and the sleep after an error |
| `StopStream` | the end of the loop |
| `ChangeMode`, `ChangeDevice` (`Restart`) | the settings that call `restart_capture`; the drop that sets `stop` |
| `Joined`, `TimedOut` (`Restarted`) | the wait for the old thread, at most half a second, and the rest of `restart_capture` |
| `Repaint` | `capture_texture`, when the latest frame has a new number |
| `DeviceChanges` | plugging, unplugging, frames that do not decode, calls that do not return (external) |

A device works, delivers frames that do not decode, is absent, or is wedged: then
no call to it returns. Two threads may be alive on one device, as a thread that
did not end in time is given up and not killed; the second of them may be refused.
A frame is its number. `opens`, `detached` and `atStop` are the properties'
memory. Format lists and device enumeration have no state of their own.

### The window

| Action | Code |
|---|---|
| `BeginUpdate` (`ApplyCanvas`, `Feed`) | `update` up to the script: the override, the pointer and the buttons |
| `AskCanvas`, `AskSizing` | `gfx.canvas`, `gfx.scale`, `gfx.text_sizing`, in a frame or while loading |
| `EndFrame` | `run_frame` is back, the override once more, `active_canvas` |
| `SetCanvasMode`, `SetSizing`, `SetStream`, `SetPreview` | the panels |
| `Load`, `EndLoad` | `load_script_from_path` and what `load_script` resets |
| `EndUpdate` | painting: the viewport that the next pointer is mapped through, the stream window |

All of it runs on the UI thread, one update after the other. A position is the
canvas whose coordinates it is in, which is all that can be wrong about it here;
the arithmetic is `Geometry`'s. `wants`, `overridden`, `asked`, `changed`, `edge`
and `seeds` are the properties' memory. One mouse button stands for all three, as
they are handled alike.

### Drawing, geometry and JSON

`DrawCalls` has an action per group of `gfx` calls that change the host's state in
the same way, and `RunFrame`, `FrameDone` and `FrameFails` for `run_frame`. A point
is a number and a primitive the points it is given: what can go wrong is where the
origin, the font and the path of a call come from. What a frame's calls mean is said
from the calls alone: which origins are open at a call (`Opens`) and what they add up
to (`OffsetAt`), which font was named last (`FontAt`), which shapes a path has
(`AddedAt`), and which calls draw (`Draws`). `Lists` says that a sequence has an entry
for each number of a set, in their order.

`Geometry` computes exactly where the code computes in f32: a length on the screen
counts in a unit of which a screen pixel has `Unit(vp)`, chosen so that every
quotient is whole. Rounding is therefore not modelled.

`LuaJson` leaves to the VM what Lua leaves to it: which border of a table with
holes its length is (`RawLen`), and the order of `pairs`, which decides between keys
that become the same text. `LuaToJson` is the set of possible results. Numbers are
an integer, a fraction and NaN; text is text or is not UTF-8.

## What is checked

| Run | Instance | Shows |
|---|---|---|
| `poll_engine` | 2 watches over 2 fusible regions, realtime and low, 3 requests, 3 cycles, 1 failed read, collection every second cycle | types; `AnsweredAfterAsked`, `OwnBytes`, `AgeHonest`; the engine implements `ReadThroughCache` |
| `poll_liveness` | 3 watches of a region each, realtime and low, one read per batch, 4 requests, 5 cycles, 1 failed read | `BoundedWait`, and under fairness every request is answered |
| `short_reply` | replies cut at any byte | violation: a short reply counts as fulfilled |
| `poison_read` | one region refused | violation: a failing read starves others |
| `http_bridge` | 2 slots, 4 requests, 2 scripts, a worker that may fail to start | types; `SlotsHonest`, `AnswerToAsker`, `CallbackAwaited`, and under fairness `CallbackComes` |
| `sni_actor` | 2 services, 2 devices of which one may not be detected, 4 commands, any call may fail | types; `EngineFollows`, `WritesReachWhatWasSeen`, `MappingOfTarget`, and under fairness `CommandsEnd` |
| `script_session` | 2 scripts, 2 ids, panels of up to 2 controls, 2 changes, 3 loads, crashes; in turn failing frames, all calls on controls, failing writes with `store.save` | types; `SavedIsKept`; the session implements `DurableStore`, where a document changes by its own script only (`OwnDocument` among other things); `SettingsRestored`, `StoredIsSaved` and `UnloadRuns` under their premises |
| `late_controls` | 1 script, 2 ids | violation: a control declared after a `persist_controls` has lost its value |
| `unload_elsewhere` | 2 scripts, `on_unload` writes when the other is loaded | violation: the write lands in the other script's file |
| `capture` | 2 devices that change at will, 2 sources, 2 frames of each | `NoLeakedReader`, `TextureIsCurrent`, and under fairness `DropSettles`, `FramesReachScreen` |
| `window` | 2 canvases, which are also the overrides, 2 text sizings, 2 scales | `PointerMatchesCanvas`, `EdgesTellDown`, `PaintsCanvasInForce` |
| `functions` | see below | ten properties of computations |

The properties of `functions`, and the inputs they are checked on:

| Property | Inputs |
|---|---|
| `ClosedFormsAgree`, `PlanCoversEveryWatchOnce`, `SelectAdmitsStalest` | up to 3 watches over 6 regions (neighbours, nested, equal addresses, another space, one larger than the budget), 2 tiers, fresh or stale, budgets 2 and 4 |
| `OnlyFirstOverruns`, `StallNotRepeated`, `FrameBoundLinkFlows` | 19 links: latencies of an eighth of a frame to more than one, one of them leaving a millisecond after a batch, two rates and frame-bound, with and without a realtime tier; the constants are the program's defaults |
| `FrameIsItsCalls` | every sequence of up to 4 `gfx` calls, in any number of frames, with failing ones |
| `UnmixedRoundTrip` | tables of up to 3 of 7 keys (1 to 3, text, text that looks like a number, a boolean, text that is not UTF-8) and 8 values, 4 of them tables |
| `PointerHitsWhatIsPainted` | 2 windows, 4 canvases, 48 labels, 4 text sizings, 30 pointers |
| `CropInFrame` | 3 frame sizes down to 1 x 3, crops from none to beyond the frame, both modes |

They share a run because each needs seconds, not because they interact: a
behaviour exercises one of the five modules and leaves the others as they began.

Why the bounds are enough. Two watches suffice for one to be fused with, ahead of
or removed beside another; three markers for a request, a second one for the same
watch while its read is in flight, and one for another watch; three cycles for a
value to be read, carried and refreshed, with the collection falling between;
two markers are left over after a reload so that the new script's watches meet
the old one's leavings. `poll_liveness` needs three watches, or "one turn of the
others" would be a single wait, and a fourth marker so that one of them asks
again. With one read per batch a pending request waits as long as it ever can.

Reads are fused in `poll_engine`, whose budget holds two, and split in the other
runs, whose budget holds one. Two HTTP slots and four requests fill the cap, free
a slot and take it again, with a reload in between.
The actor needs a second service and device for anything to go to the wrong one,
and four commands for two that reconfigure with a write before and after. A
session needs two scripts to confuse, a load, a change, a reload and a return to
the first script, with a restart among them; its settings need two ids, one of which
is declared when the other is edited or persisted, or after that. Liberties come a
few at a time to keep the run small; the theorems take any together. Capture needs a second source that
numbers its frames from 1 like the first, and a second frame to be newer. A window
needs two canvases to confuse and two updates, of which a behaviour has any number.
The byte budget is followed until it repeats itself: its run has no bound on cycles.

Deadlock is not checked where counters are bounded: those runs stop when the
bounds are used up.

Fairness. `FairBusySpec` assumes that the runtime schedules the poll task, with
or without its pacing sleep (`WF` on `BeginCycle` and on leaving a point where the
task is `Runnable`), and that each call to the device returns. The second holds for
an answer or a broken connection; the client sets no deadline of its own, so a
service that accepts a call and never answers is outside the assumption. No
fairness is assumed of scripts. `BusyNext` leaves out reloads and device changes,
which may withdraw a request and would make the liveness claim void, and skips
cycles with nothing to do, so that the bound on cycles leaves room for the answers.
The HTTP bridge's `FairSpec` assumes that the worker and its tasks are scheduled,
that a request ends, at `reqwest`'s timeout if not before, that Lua returns, and
that the window repaints (`update` asks for it every 16 ms).
The actor's `FairSpec` assumes weak fairness of its steps, which is that the
runtime schedules its task and that calls to the service return.
The capture's `FairSpec` assumes that each thread is scheduled while it can go on,
that the wait for an old thread ends, by a join or at its deadline, and that the
window repaints. Nothing is assumed of devices: a thread inside a call to a wedged
one is not enabled, and `DropSettles` and `FramesReachScreen` say so.

### What the checks found

Each of the four runs that expect a violation shows a disagreement with what the
repository says of itself:

* A short reply counts as an answer (`short_reply`). `apply_reads` skips members
  whose bytes are missing, `mark_fulfilled` marks them anyway.
* A read that always fails starves the rest (`poison_read`). The failed batch
  ends the drain, its members stay stalest, and head the next batch.
* `load_script_from_path` binds the store before the old script is unloaded, so
  that what `on_unload` stores lands in the next script's document
  (`unload_elsewhere`). When the same script is reloaded nothing is lost.
* A saved setting is lost when its control is declared late (`late_controls`).
  `persist_controls` saves the controls declared so far in the place of all saved
  ones, after `on_init` and after every edit: a control that `on_frame` declares, or
  that comes after an `on_init` that failed half-way and an edit of what was declared
  by then, finds no value. Only panels declared in full by `on_init` keep theirs.

Others show as the premise without which a property is violated:

* Polling. `BoundedWait` is twice as long once `read_state` has been collected:
  the collection uses the ids listed at the start of the cycle and forgets the
  record of a watch that was registered between the two looks at the registry
  and read in that same cycle. The watch is read once more; nothing is lost.
* Byte budget, `FrameBoundLinkFlows` without `Saturated`: one batch of a single
  byte on a healthy frame-bound link leaves a throughput of a byte or so per
  millisecond, and the next batches may have 8 bytes, although `engine.rs:42-43`
  says that `min_byte_budget` keeps data flowing: `budget_for_remaining_time` caps
  below it. When each cycle opens with one millisecond left of its frame, a batch
  has 80 % of the throughput it then teaches, and the offers dwindle to a byte
  before a whole budget goes out again. With a realtime tier that is the latency of
  which twice is a millisecond short of the frame, which the property excepts and
  the default frame of 16 ms does not have; without one it is 15 ms of 16. A cycle
  that comes to its last millisecond later has half the budget in it, no less.
* Byte budget, after `SwitchDevice`: the latency floor only falls (`engine.rs:565`),
  so a slower device's latency counts as transfer time. Before a realtime watch
  exists the floor is unknown and the first batch's latency counts so too, once,
  which is why `StallNotRepeated` and `FrameBoundLinkFlows` ask for `realtime`.
* `OnlyFirstOverruns` on a link without a realtime tier: the floor is the first
  batch's round trip, transfer included, so that the batches after it seem faster
  than they are. At the program's frame of 16 ms no batch overruns for that (links
  of latencies 1 to 16, 11 rates); at 100 ms TLC finds one that does.
* `OnlyFirstOverruns` is protected three times, by the budget for the time that
  remains, by the check that a batch fits and by the check that another round trip
  would: the property survives the loss of any one of them.
* HTTP. A worker that cannot build its client takes queued requests and their
  slots with it: `SlotsHonest` and the callbacks hold only while the worker is
  there. `submit` releases the slot when it finds the worker gone, so only
  requests made before that are affected.
* Actor. After a failed connect or listing the window shows an error while the
  engine goes on polling the client it had: `EngineFollows` holds, and nothing
  promises more. A mapping that cannot be detected leaves the one of the device
  before in the window, which is why `MappingOfTarget` excepts `Undetectable` devices.
  A write that is queued behind a click that chooses another device goes to that
  device; nothing says where it should go, and `WritesReachWhatWasSeen` is about the
  others, which are `settled`.
* Session. `SettingsRestored` needs each of its premises: what `ui.set` gives a control is
  not persisted until the panel is edited or a script loaded, although the comment at
  `lib.rs:1592` says "on the next frame" and `docs/SCRIPTING.md:295` "re-persisted"; a
  `store.save` of a table that does not come from `store.load` drops the saved
  settings, of two controls of one id the later is the one that is saved, and `dirty`
  is cleared before a write that fails, for which `StoredIsSaved` asks too. A script
  that failed in `on_frame` never gets its `on_unload` (`UnloadRuns`). A store file
  that cannot be read counts as missing.
* Tables, `UnmixedRoundTrip` without `Unmixed`: `{ 7, x = true }` and
  `{ [1] = 7, [3] = 7 }` become `[7]` in the store and in `json.encode`. The test for a
  list looks at the keys below the length only, although its comment
  (`lib.rs:2196-2198`) wants "exactly `1..=n`" and makes everything else an object.
* Capture. A thread whose device cannot be opened returns, although the comment at
  `sni-capture/src/lib.rs:119` speaks of a source that yields no frames until the
  device works: `FramesReachScreen` begins with an open stream for that reason.
* Window. An override replaces the script's request instead of standing in front
  of it, so that the request is gone when the user returns to "script"
  (`main.rs:525`): hence `overridden` in `PaintsCanvasInForce`. `gfx.width` reports
  a canvas the script asked for in mid-frame even under an override, hence `asked`
  in `ReportsOverride`. An open stream window is not resized when the canvas
  changes, so `WindowFollowsScale` compares with the canvas it was sized for. A
  click shorter than an update is not seen.
* Labels. `gfx.text_width` counts in font pixels, of which a canvas pixel has
  `canvas.w / 256`: on a scaled canvas a script has to convert, as
  `PointerHitsWhatIsPainted` does.

## What is proved

`PollEngineProofs` holds for every set of regions and devices, every gap and
budget, and every value of the bounds, from the four named assumptions of
`PollEngine` on its constants.

* `TypeCorrect`: `Spec => []TypeOK`. `TypeOK` is inductive as it stands. Its
  part `FlightOK` is what carries knowledge across an await: the reads in flight
  are of watches of this cycle. It rests on lemmas that coalescing, splitting and
  selecting return only members they were given.
* `CacheInvariant`: `Spec => []CacheInv`, the strengthening behind the rest.
  `AnsweredAfterAsked` is not inductive: it speaks of the registry, while the
  poll task marks with what it saw earlier. `CacheInv` adds what holds in
  between: markers and ids in use were issued (`MarkersIssued`); a sample in
  hand is younger than every request the cycle saw (`SampledInFlight`); no record
  of fulfilment is ahead of its value (`FulfilledSampled`) and none of a live
  watch is without one (`FulfilledHeld`); the next snapshot shows what this one
  shows (`SnapshotCarried`), in order (`SamplesOrdered`); an id means one region
  everywhere (`RegionsAgree`). All that scripts and the clock do is one relation,
  `RegistryMoves`, and one lemma covers it.
* `FreshnessHolds`: `Spec => []AnsweredAfterAsked` when replies are complete
  (`~MayTruncate`); `short_reply` shows that the premise is needed.
* `OwnBytesHold`: `Spec => []OwnBytes`.
* `AgesHonest`: `Spec => []AgeHonest`, again when replies are complete: a member
  whose bytes were cut off counts as refreshed and keeps its age. The two books meet
  at publication only; `AgeInv` says how far the latest data has been aged at every
  point between (`AgesCounted`), and what the realtime sub-poll asks for and leaves
  behind (`RealtimeServed`).
* `WaitsAreBounded`: `Spec => []BoundedWait` when no region is refused (`poison_read`
  shows that without that the wait has no bound) and there is a budget at all. A
  count of waits is no invariant; `WaitInv` bounds it by an account: each cycle that
  passes a pending request over has a failed batch to show for it, or a watch that
  goes from before it to behind it and cannot come back until it is served
  (`WaitAccounted`, with `Ahead` for those already behind). One clause says what of
  the account is paid in mid-cycle (`Accounted`), another that a first batch asks for
  a watch as stale as any that waits (`StalestAsked`). The collection of `read_state`
  may put each watch before a waiting one once more: it forgets only those the cycle
  had not listed (`Unlisted`), and a watch is that once; `Settled` counts the others.
* `PlanHasEachWatchOnce`, `ChunksFitBudget`, `StalestAdmitted`: of the planning
  functions, for any watches, gaps and budgets, in terms of the closed forms. The
  first two are the main parts of `PlanCoversEveryWatchOnce`.
* `BatchesAreFull`: `PlanSpec => []SelectAdmitsStalest`. `select_bulk` ranks the reads,
  so that they have to be shown to have different ranks (`BeforeOrder`, `ReadRanks`:
  chunks share no watch, and their first watches break the last tie); what is left of
  the budget after each rank is what the reads taken so far do not need
  (`BatchFilled`), and it never grows.
* `EngineImplementsCache`: `Spec => ImplementsCache`, with failing and short
  replies (the run has failing ones). Initial states map to initial states, and
  each step to one action of `ReadThroughCache` or to stuttering.

`HttpBridgeProofs` holds for every cap and every bound.

* `HttpTypeCorrect` and the two below come from one invariant,
  `TypeOK /\ HttpInv`: that the counter is a natural number needs the slots to be
  accounted for, and the accounts need the sets to be finite.
* `SlotsHold`: `Spec => []SlotsHonest`, a worker that fails to start included.
  The count `submit` has read goes stale when tasks finish; `ReservedInv` says in
  which direction: what the worker holds is never more than what was read. The
  accounts need `QueueOrdered`, or a request spawned twice would count once.
* `AnswersMatch`: `Spec => []AnswerToAsker`, from ids that are never reused.
* `CallbacksAwaited`: `Spec => []CallbackAwaited`. `AwaitedInv` follows a request
  from one queue or set to the next, the one being sent included, before its
  callback is stored: `Underway` counts it once wherever it is.

`SniActorProofs` holds for any services, devices and number of commands.

* `ActorTypeCorrect`: `Spec => []TypeOK`.
* `EngineFollowsActor`, `WritesReach`: `EngineFollows` and
  `WritesReachWhatWasSeen`, from `ActorInv`. It adds that a client is held exactly
  while it may be polled, listed or shown (`ClientHeld`), that listed devices
  include a selected one (`DeviceSelected`), and that the actor is not
  reconfiguring while a settled write waits (`WritesSettled`).
* `MappingIsOfTarget`: `Spec => []MappingOfTarget`, which speaks of an idle actor;
  `MappingKnown` says the same of all points but those where a listing or a
  detection is under way, and of the target instead of the slot.

`ScriptSessionProofs` holds for any scripts and any number of changes and loads.

* `SessionTypeCorrect`: `Spec => []TypeOK`.
* `KeepsWhatIsSaved`: `Spec => SavedIsKept` without any premise: whatever scripts
  call, writes that fail and crashes in mid-write included. It rests on
  `SessionInv`: a write under way is of the current document, every load comes
  after a flush (`FlushedFirst`), and the document in memory is the newest
  (`MemoryIsNewer`).
* `KeepsDocumentsApart` (`OwnDocument`) when `on_unload` does not write elsewhere.
* `StoreIsDurable`: `Spec => ImplementsStore` when `on_unload` does not write
  elsewhere, with crashes and failing writes. Initial states map to initial states and
  each step to one action of `DurableStore` or to stuttering; that a change of script
  loses nothing unless writes fail is `FlushedFirst` and `CleanMeansSaved`.
* `UnloadsWhatItOpened`: `Spec => []UnloadRuns`, from `OpenedIsLoaded`.
* `CleanDocumentsSaved` and `SavesWhatIsStored` (`StoredIsSaved`), as long as writes
  do not fail, from `CleanMeansSaved` and `StoredInv`; the second when `on_unload` does
  not write elsewhere.
* `RestoresSettings`: `Spec => []SettingsRestored`, for any number of controls.
  `ShownInv` says that ids differ, that each control has the value its script's
  document has for it, and that what was shown last and not dropped since is what the
  document has. `PersistSaves` is the lemma about `persist_controls`: it saves the
  panel and drops what it does not hold. Without the premises each is violated.

`CaptureProofs` holds for any number of devices, sources and frames.

* `CaptureInvariant`: `Spec => []IInv`, which adds to the properties that sources
  are numbered in the order they are opened and the current one is the last, told
  to stop exactly while the application waits for it (`Numbered`), and that a
  stopped thread that still waits for a frame has stored none since (`LastFrame`).
  What a thread does is one relation for all of its steps.
* `LeaksNoReader` (`NoLeakedReader`), `ShowsCurrentSource` (`TextureIsCurrent`),
  `CaptureTypeCorrect`, and `StopsWithinAFrame`: a dropped source stores at most
  one more frame.

`WindowProofs` holds for any canvases, overrides, sizings and scales.

* `WindowInvariant`: `Spec => []IInv`. `PointerMatchesCanvas` speaks of the script's
  frame, but what decides it is the update before: `CanvasAgrees` and
  `ViewportAgrees` say how canvas in force, request and viewport relate at every
  point between, `RequestAgrees` the same of text sizing and `WindowAgrees` of the
  stream window.
* `PointerAndCanvasAgree`, `CountsEdges` (`EdgesTellDown`) and `PaintsInForce`
  (`PaintsCanvasInForce`), and beside the properties of the run:
  `WindowTypeCorrect`; `ReportsTheOverride`, what `gfx.width` says under an
  override; `SizesTheWindow`, an open stream window has the scale of the settings;
  `KeepsTheUsersSizing`, a script changes text sizing only by loading.

`FunctionProofs` holds for any links, windows, canvases, labels and frames, and any
number of `gfx` calls.

* `BudgetBounded`: on any link, after any batches, failures and device switches,
  the byte budget stays between its floor and its ceiling and no estimate leaves
  its range. `TypeOK` of `ByteBudget` is inductive as it stands, from lemmas that
  no quotient is by zero and none is negative.
* `LaterBatchesFit`: on links with a realtime tier, `[]OnlyFirstOverruns`. The
  throughput is an average that starts wrong and is fed by batches it sized itself;
  `LearntInv` says that the latency is known from the start (`LatencyLearnt`) and
  that the throughput is never above the link's (`ThroughputHonest`), so that what a
  batch is predicted to take is no less than what it takes.
* `StallsEnd`: `Spec => StallNotRepeated`; `LastCounted` ties the budget to the batch
  that overran, `CutFits` is the arithmetic of the cut.
* `FrameBoundFlows`: `Spec => []FrameBoundLinkFlows`, for any frame, latencies and
  step, if budgets start from 6 bytes or more (the program's 2048). `FlowKept` bounds
  the throughput from below twice, at the start of a cycle and after the batch in
  its last millisecond that takes off the most.
* `PointerHits` (`ViewSpec => []PointerHitsWhatIsPainted`) and `CropsShowFrame`
  (`ViewSpec => []CropInFrame`): what the `functions` run sees on a few sizes, for
  all of them, labels of any font, size and alignment included. They rest on
  `FitShowsWhole` (`ShownWhole`), `PointerFindsPoint` and `CropShowsPart`
  (`ShowsPart`). Products are named, so that what is left for the prover is linear.
* `FramesAreTheirCalls`: `GfxSpec => []FrameIsItsCalls`. The property speaks of calls
  and the host keeps a stack, so `GfxInv` says what that is of the calls so far: each
  entry is the sum of an open origin and those below it, and after the push of an open
  origin there are as many more pushes than pops as origins open above it
  (`OriginsAgree`), which is why a pop closes the last of them. The font and the path
  are what the next call would find. The sums are `Facts`' own, shown to exist and not
  to depend on their order.

Only model-checked:

* all liveness (`RequestsAnswered`, `CallbackComes`, `CommandsEnd`, `DropSettles`,
  `FramesReachScreen`), which is beyond the prover;
* that the source's loops compute the closed forms (`ClosedFormsAgree`), and with it
  that the loops' offsets are honest (`PlanCoversEveryWatchOnce`): inductions over
  sequences;
* `UnmixedRoundTrip`, an induction over trees;
* `OnlyFirstOverruns` on links without a realtime tier.

## Plan

1. Done: `ReadPlan`, `PollEngine`, `ReadThroughCache`, their runs and proofs.
2. Done: `HttpBridge`, `SniActor`, `ScriptSession`, their runs and proofs.
3. Done: `Capture`, `Window`, their runs and proofs.
4. Done: `ByteBudget`, `DrawCalls`, `LuaJson`, `Geometry`, in one run.
5. `SniActor` with `PollEngine`: the engine between two slots, so that a value
   can be followed from the device that was selected to the snapshot.
6. Done: an abstract store that `ScriptSession` implements. Left: button latches,
   which a click sets and a frame drains.
7. Planning near 2^32, where `address + size` overflows; two watches of one span.
8. Done: proofs of the invariants the runs check, where no induction over data is
   needed. Left: `OnlyFirstOverruns` without a realtime tier.

## Not modelled

Statistics and logging of the poll engine; addresses near 2^32, where
`address + size` overflows; the typed accessors, and the `bit`, `anim`, `time` and
`log` tables, which keep no state a script's behaviour depends on; the wire layer
of the SNI client; rounding of the f32 arithmetic in the byte budget and the
renderer; tessellation, glyphs, colours and blending; a store without a base
directory; settings buttons; choosing a capture format from a device's list; the
protocol definition, build scripts and example overlays.
