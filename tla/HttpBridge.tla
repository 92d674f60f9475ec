----------------------------- MODULE HttpBridge -----------------------------
(***************************************************************************)
(* HTTP for scripts: HttpBridge and its worker (sni-lua-api/runtime.rs)    *)
(* and the script host's side of it, http.request and pump_http (lib.rs).  *)
(*                                                                         *)
(* The UI thread runs Lua: in a response callback, in on_frame, in         *)
(* on_unload or while a script loads.  Lua may call http.request, which is *)
(* cut where the worker's tasks can run in between: after the slot is      *)
(* reserved, and after the request is sent, before its callback is stored. *)
(* A request is its id and, for the properties, the script that made it:   *)
(* scripts are numbered by the Lua VM they run in.                         *)
(***************************************************************************)
EXTENDS Integers, FiniteSets, SequencesExt

CONSTANTS
  MaxInFlight,   \* HTTP_MAX_IN_FLIGHT, 16 in the code
  MaxId,         \* bound: requests ever submitted
  MaxScript      \* bound: scripts ever loaded

ASSUME HttpAssumption ==
  /\ MaxInFlight \in Nat \ {0} /\ MaxId \in Nat /\ MaxScript \in Nat

VARIABLES
  \* shared
  in_flight,     \* the slot counter
  req,           \* requests the worker has not received yet, in order
  resp,          \* responses the UI thread has not drained yet, in order
  \* the worker and its tasks
  worker,
  executing,     \* requests being executed, one task each
  finished,      \* executed and uncounted, the response not yet sent
  \* the UI thread
  next_id,
  pending,       \* request id -> script whose VM holds the callback
  ui,            \* what the UI thread runs
  call,          \* progress of the http.request that Lua is in
  done,          \* responses drained by this frame, not yet delivered
  script,        \* the current Lua VM
  loaded

workerVars == <<worker, executing, finished>>
uiVars == <<next_id, pending, ui, call, done, script, loaded>>
vars == <<in_flight, req, resp, workerVars, uiVars>>

Request == [id : 1..MaxId, script : 0..MaxScript]

NoCall == [at |-> "none"]
Reserved(prev) == [at |-> "reserved", prev |-> prev]
Sent(id) == [at |-> "sent", id |-> id]

InLua == ui \in {"callback", "frame", "unload", "load"}

Init ==
  /\ in_flight = 0 /\ req = << >> /\ resp = << >>
  /\ worker = "starting" /\ executing = {} /\ finished = {}
  /\ next_id = 1 /\ pending = << >>
  /\ ui = "idle" /\ call = NoCall /\ done = << >>
  /\ script = 0 /\ loaded = FALSE

-----------------------------------------------------------------------------
(* http.request                                                            *)

callUnchanged == UNCHANGED <<resp, workerVars, ui, done, script, loaded>>

\* submit reserves a slot: fetch_add, which returns the count before.
Reserve ==
  /\ InLua /\ call = NoCall /\ next_id <= MaxId
  /\ call' = Reserved(in_flight)
  /\ in_flight' = in_flight + 1
  /\ UNCHANGED <<req, next_id, pending>>
  /\ callUnchanged

AtCap(prev) == prev >= MaxInFlight

\* Mutant of BackOut: the dropped request keeps its slot.
BackOutLeaks ==
  /\ call.at = "reserved" /\ AtCap(call.prev)
  /\ call' = NoCall
  /\ UNCHANGED <<in_flight, req, next_id, pending>>
  /\ callUnchanged

\* At the cap it gives the slot back and drops the request.
BackOut ==
  /\ call.at = "reserved" /\ AtCap(call.prev)
  /\ in_flight' = in_flight - 1
  /\ call' = NoCall
  /\ UNCHANGED <<req, next_id, pending>>
  /\ callUnchanged

Enqueue ==
  /\ call.at = "reserved" /\ ~AtCap(call.prev)
  /\ next_id' = next_id + 1
  /\ req' = Append(req, [id |-> next_id, script |-> script])
  /\ call' = Sent(next_id)
  /\ worker # "gone"
  /\ UNCHANGED <<in_flight, pending>>
  /\ callUnchanged

\* The worker is gone: the send fails, the slot is released, the id is spent.
SendFails ==
  /\ call.at = "reserved" /\ ~AtCap(call.prev)
  /\ worker = "gone"
  /\ next_id' = next_id + 1
  /\ in_flight' = in_flight - 1
  /\ call' = NoCall
  /\ UNCHANGED <<req, pending>>
  /\ callUnchanged

\* The callback, if the script gave one, is stored under the request's id.
Stash ==
  /\ call.at = "sent"
  /\ \/ pending' = [id \in DOMAIN pending \cup {call.id} |->
                      IF id = call.id THEN script ELSE pending[id]]
     \/ UNCHANGED pending
  /\ call' = NoCall
  /\ UNCHANGED <<in_flight, req, next_id>>
  /\ callUnchanged

-----------------------------------------------------------------------------
(* The worker                                                              *)

ClientReady ==
  /\ worker = "starting"
  /\ worker' = "serving"
  /\ UNCHANGED <<in_flight, req, resp, executing, finished, uiVars>>

\* The worker returns, and with it the receiver and all it had queued.
ClientInitFails ==
  /\ worker = "starting"
  /\ worker' = "gone" /\ req' = << >>
  /\ UNCHANGED <<in_flight, resp, executing, finished, uiVars>>

Spawn ==
  /\ worker = "serving" /\ req # << >>
  /\ executing' = executing \cup {Head(req)}
  /\ req' = Tail(req)
  /\ UNCHANGED <<in_flight, resp, worker, finished, uiVars>>

\* execute returns, with a reply, an error or a timeout: the slot is free.
Complete(r) ==
  /\ r \in executing
  /\ executing' = executing \ {r}
  /\ finished' = finished \cup {r}
  /\ in_flight' = in_flight - 1
  /\ UNCHANGED <<req, resp, worker, uiVars>>

\* Mutant of SendResponse: the slot is freed once more with the response.
SendResponseReleases(r) ==
  /\ r \in finished
  /\ finished' = finished \ {r}
  /\ resp' = Append(resp, r)
  /\ in_flight' = in_flight - 1
  /\ UNCHANGED <<req, worker, executing, uiVars>>

SendResponse(r) ==
  /\ r \in finished
  /\ finished' = finished \ {r}
  /\ resp' = Append(resp, r)
  /\ UNCHANGED <<in_flight, req, worker, executing, uiVars>>

-----------------------------------------------------------------------------
(* The UI thread: frames                                                   *)

frameUnchanged == UNCHANGED <<in_flight, req, workerVars, next_id, call, script>>

\* run_frame with a script loaded: pump_http drains the channel.
BeginFrame ==
  /\ ui = "idle" /\ loaded
  /\ ui' = "pump"
  /\ done' = resp /\ resp' = << >>
  /\ UNCHANGED <<pending, loaded>>
  /\ frameUnchanged

\* Mutant of Deliver: a response without a callback ends the pump.
DeliverStopsEarly ==
  /\ ui = "pump" /\ done # << >>
  /\ LET id == Head(done).id
          found == id \in DOMAIN pending /\ pending[id] = script
     IN  /\ done' = IF found THEN Tail(done) ELSE << >>
         /\ pending' = [i \in DOMAIN pending \ {id} |-> pending[i]]
         /\ ui' = IF found THEN "callback" ELSE "pump"
  /\ UNCHANGED <<resp, loaded>>
  /\ frameUnchanged

\* One response: no callback, one of this VM, or one of another VM, which
\* the VM does not find.
Deliver ==
  /\ ui = "pump" /\ done # << >>
  /\ done' = Tail(done)
  /\ LET id == Head(done).id IN
       /\ pending' = [i \in DOMAIN pending \ {id} |-> pending[i]]
       /\ ui' = IF id \in DOMAIN pending /\ pending[id] = script THEN "callback" ELSE "pump"
  /\ UNCHANGED <<resp, loaded>>
  /\ frameUnchanged

\* A callback's error goes to the console, and the pump continues.
CallbackReturns ==
  /\ ui = "callback" /\ call = NoCall
  /\ ui' = "pump"
  /\ UNCHANGED <<resp, pending, done, loaded>>
  /\ frameUnchanged

OnFrame ==
  /\ ui = "pump" /\ done = << >>
  /\ ui' = "frame"
  /\ UNCHANGED <<resp, pending, done, loaded>>
  /\ frameUnchanged

\* on_frame returns; an error in it disables the script.
FrameReturns ==
  /\ ui = "frame" /\ call = NoCall
  /\ ui' = "idle"
  /\ loaded' \in BOOLEAN
  /\ UNCHANGED <<resp, pending, done>>
  /\ frameUnchanged

-----------------------------------------------------------------------------
(* The UI thread: load_script                                              *)

\* fire_unload calls on_unload of the script that is loaded.
BeginUnload ==
  /\ ui = "idle" /\ loaded /\ script < MaxScript
  /\ ui' = "unload"
  /\ UNCHANGED <<resp, pending, done, loaded>>
  /\ frameUnchanged

\* Mutant of BeginLoad: the callbacks of the old script are kept.
BeginLoadKeepsPending ==
  /\ \/ ui = "unload" /\ call = NoCall
     \/ ui = "idle" /\ ~loaded
  /\ script < MaxScript
  /\ script' = script + 1
  /\ loaded' = FALSE
  /\ ui' = "load"
  /\ UNCHANGED <<in_flight, req, resp, workerVars, next_id, call, done, pending>>

\* Mutant of BeginLoad: the new script counts its requests from 1 again.
BeginLoadResetsIds ==
  /\ \/ ui = "unload" /\ call = NoCall
     \/ ui = "idle" /\ ~loaded
  /\ script < MaxScript
  /\ script' = script + 1
  /\ loaded' = FALSE
  /\ pending' = << >> /\ next_id' = 1
  /\ ui' = "load"
  /\ UNCHANGED <<in_flight, req, resp, workerVars, call, done>>

\* The old VM is dropped and its callbacks forgotten; the new chunk runs.
BeginLoad ==
  /\ \/ ui = "unload" /\ call = NoCall
     \/ ui = "idle" /\ ~loaded
  /\ script < MaxScript
  /\ script' = script + 1
  /\ loaded' = FALSE
  /\ pending' = << >>
  /\ ui' = "load"
  /\ UNCHANGED <<in_flight, req, resp, workerVars, next_id, call, done>>

\* The chunk and on_init return, or fail: then the script is not loaded.
LoadReturns ==
  /\ ui = "load" /\ call = NoCall
  /\ ui' = "idle"
  /\ loaded' \in BOOLEAN
  /\ UNCHANGED <<resp, pending, done>>
  /\ frameUnchanged

-----------------------------------------------------------------------------
HttpRequest == Reserve \/ BackOut \/ Enqueue \/ SendFails \/ Stash

Worker ==
  \/ ClientReady
  \/ ClientInitFails
  \/ Spawn
  \/ \E r \in executing : Complete(r)
  \/ \E r \in finished : SendResponse(r)

Frame == BeginFrame \/ Deliver \/ CallbackReturns \/ OnFrame \/ FrameReturns

Load == BeginUnload \/ BeginLoad \/ LoadReturns

Next == HttpRequest \/ Worker \/ Frame \/ Load

Spec == Init /\ [][Next]_vars

-----------------------------------------------------------------------------
(* What the bridge promises.                                               *)

\* Requests somewhere between http.request and their callback.
Outstanding == ToSet(req) \cup executing \cup finished \cup ToSet(resp) \cup ToSet(done)

TypeOK ==
  /\ in_flight \in Nat
  /\ req \in Seq(Request) /\ resp \in Seq(Request) /\ done \in Seq(Request)
  /\ worker \in {"starting", "serving", "gone"}
  /\ executing \subseteq Request /\ IsFiniteSet(executing) /\ finished \subseteq Request
  /\ next_id \in 1..(MaxId + 1)
  /\ DOMAIN pending \subseteq 1..MaxId
  /\ pending \in [DOMAIN pending -> 0..MaxScript]
  /\ ui \in {"idle", "pump", "callback", "frame", "unload", "load"}
  /\ \/ call = NoCall
     \/ call.at = "reserved" /\ call = Reserved(call.prev) /\ call.prev \in Nat
     \/ call.at = "sent" /\ call = Sent(call.id) /\ call.id \in 1..MaxId
  /\ call.at = "reserved" => next_id <= MaxId
  /\ call # NoCall => InLua
  /\ script \in 0..MaxScript /\ loaded \in BOOLEAN

\* The worker never holds more than the cap, although the counter is read
\* and raised on one thread and lowered on others.
CapRespected == Len(req) + Cardinality(executing) <= MaxInFlight

\* No slot is freed twice, and none is leaked but with the worker.
SlotOf(c) == IF c.at = "reserved" THEN 1 ELSE 0
Held == Len(req) + Cardinality(executing) + SlotOf(call)
SlotsAccounted ==
  /\ in_flight >= Held
  /\ worker # "gone" => in_flight = Held

\* The slots and their counter, which three threads change, tell the truth.
SlotsHonest == CapRespected /\ SlotsAccounted

\* An answer can only reach a callback of the script that asked: neither a
\* reload in mid-request nor the order of answers mixes them up.
AnswerToAsker ==
  \A r \in Outstanding : r.id \in DOMAIN pending => pending[r.id] = r.script

\* Where a request with this id is, between being sent and being delivered.
Queued(s, id) == {i \in DOMAIN s : s[i].id = id}
WithId(tasks, id) == {r \in tasks : r.id = id}
Underway(id) ==
  Cardinality(Queued(req, id)) + Cardinality(WithId(executing \cup finished, id))
    + Cardinality(Queued(resp, id)) + Cardinality(Queued(done, id))

\* A callback waiting in the running script has one request on the way to
\* it: it is not called twice, nor forgotten unless the worker is.
CallbackAwaited ==
  \A id \in DOMAIN pending :
    /\ pending[id] = script
    /\ Underway(id) \in IF worker = "gone" THEN {0, 1} ELSE {1}

-----------------------------------------------------------------------------
(* The inductive invariants behind CapRespected, SlotsAccounted and        *)
(* AnswerToAsker, in parts, and behind CallbackAwaited.                    *)

\* What submit read of the counter still bounds what the worker holds.
ReservedInv == call.at = "reserved" => Len(req) + Cardinality(executing) <= call.prev

\* Requests are queued in the order of their ids, and spawned in that order.
QueueOrdered ==
  /\ \A i, j \in DOMAIN req : i < j => req[i].id < req[j].id
  /\ \A r \in executing : \A i \in DOMAIN req : r.id < req[i].id

\* Ids are not reused, and a request in the middle of http.request is of the
\* running script.
IdsInv ==
  /\ \A r \in Outstanding : r.id < next_id
  /\ \A id \in DOMAIN pending : id < next_id
  /\ call.at = "sent" => /\ call.id < next_id
                         /\ \A r \in Outstanding : r.id = call.id => r.script = script

HttpInv ==
  /\ SlotsAccounted
  /\ ReservedInv
  /\ CapRespected
  /\ QueueOrdered
  /\ IdsInv
  /\ AnswerToAsker

\* A request is in one place, in one piece, until it is delivered; the one
\* being sent, too, before its callback is stored.
AwaitedInv ==
  /\ IsFiniteSet(finished) /\ executing \cap finished = {}
  /\ \A id \in 1..MaxId : Underway(id) <= 1
  /\ \A id \in DOMAIN pending : pending[id] = script /\ (worker # "gone" => Underway(id) = 1)
  /\ call.at = "sent" /\ worker # "gone" => Underway(call.id) = 1
  /\ done # << >> => ui \in {"pump", "callback"}
=============================================================================
