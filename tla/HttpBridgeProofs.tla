-------------------------- MODULE HttpBridgeProofs --------------------------
(***************************************************************************)
(* Theorems of HttpBridge, for every cap and every bound.                  *)
(*                                                                         *)
(*   HttpTypeCorrect   Spec => []TypeOK                                    *)
(*   SlotsHold         Spec => []SlotsHonest                               *)
(*   AnswersMatch      Spec => []AnswerToAsker                             *)
(*   CallbacksAwaited  Spec => []CallbackAwaited                           *)
(***************************************************************************)
EXTENDS HttpBridge, Facts, FiniteSetTheorems

-----------------------------------------------------------------------------
(* http.request.                                                           *)

\* What the worker holds is a natural number of requests.
LEMMA HeldNat ==
  ASSUME TypeOK
  PROVE  Len(req) \in Nat /\ Cardinality(executing) \in Nat
  BY FS_CardinalityType DEF TypeOK

\* Requests between http.request and their callback are requests.
LEMMA OutstandingTyped ==
  ASSUME TypeOK
  PROVE  /\ Outstanding \subseteq Request
         /\ \A r \in Outstanding : r.id \in 1..MaxId /\ r.id \in Nat /\ r.script \in 0..MaxScript
<1>1. ASSUME NEW s \in Seq(Request)
      PROVE  ToSet(s) \subseteq Request
  <2>1. \A i \in DOMAIN s : s[i] \in Request
    OBVIOUS
  <2> QED
    BY <2>1 DEF ToSet
<1>2. /\ req \in Seq(Request) /\ resp \in Seq(Request) /\ done \in Seq(Request)
      /\ executing \subseteq Request /\ finished \subseteq Request
  BY DEF TypeOK
<1>3. ToSet(req) \subseteq Request /\ ToSet(resp) \subseteq Request /\ ToSet(done) \subseteq Request
  BY <1>1, <1>2
<1>4. Outstanding \subseteq Request
  BY <1>2, <1>3 DEF Outstanding
<1> QED
  BY <1>4 DEF Request

\* Reserving a slot: the counter read covers what the worker holds.
LEMMA ReserveStep ==
  ASSUME TypeOK, HttpInv, Reserve
  PROVE  TypeOK' /\ HttpInv'
<1>1. /\ call = NoCall /\ call' = Reserved(in_flight) /\ in_flight' = in_flight + 1
      /\ UNCHANGED <<req, resp, worker, executing, finished, next_id, pending, ui, done>>
      /\ UNCHANGED <<script, loaded>>
      /\ InLua /\ next_id <= MaxId
  BY DEF Reserve, callUnchanged, workerVars
<1>2. call'.at = "reserved" /\ call'.prev = in_flight /\ call.at = "none"
  BY <1>1 DEF Reserved, NoCall
<1>3. TypeOK'
  BY <1>1, <1>2 DEF TypeOK, Reserved, InLua
<1>4. /\ Len(req) \in Nat /\ Cardinality(executing) \in Nat /\ in_flight \in Nat
  BY HeldNat DEF TypeOK
<1>5. Held = Len(req) + Cardinality(executing) /\ Held' = Len(req) + Cardinality(executing) + 1
  BY <1>1, <1>2, <1>4 DEF Held, SlotOf
<1>6. SlotsAccounted' /\ ReservedInv'
  BY <1>1, <1>2, <1>4, <1>5 DEF HttpInv, SlotsAccounted, ReservedInv
<1>7. CapRespected' /\ QueueOrdered' /\ AnswerToAsker' /\ Outstanding' = Outstanding
  BY <1>1 DEF HttpInv, CapRespected, QueueOrdered, AnswerToAsker, Outstanding
<1>8. IdsInv'
  BY <1>1, <1>2, <1>7 DEF HttpInv, IdsInv
<1> QED
  BY <1>3, <1>6, <1>7, <1>8 DEF HttpInv

\* Giving the slot back, at the cap or because the worker is gone.
LEMMA ReleaseStep ==
  ASSUME TypeOK, HttpInv, BackOut \/ SendFails
  PROVE  TypeOK' /\ HttpInv'
<1>1. /\ call.at = "reserved" /\ call' = NoCall /\ in_flight' = in_flight - 1
      /\ UNCHANGED <<req, resp, worker, executing, finished, pending, ui, done>>
      /\ UNCHANGED <<script, loaded>>
      /\ next_id' \in {next_id, next_id + 1}
  BY DEF BackOut, SendFails, callUnchanged, workerVars
<1>2. call'.at = "none" /\ next_id <= MaxId /\ next_id \in Nat \ {0} /\ MaxId \in Nat
  BY <1>1, HttpAssumption DEF NoCall, TypeOK
<1>3. /\ Len(req) \in Nat /\ Cardinality(executing) \in Nat /\ in_flight \in Nat
  BY HeldNat DEF TypeOK
<1>4. Held = Len(req) + Cardinality(executing) + 1 /\ Held' = Len(req) + Cardinality(executing)
  BY <1>1, <1>2, <1>3 DEF Held, SlotOf
<1>5. in_flight' \in Nat /\ SlotsAccounted' /\ ReservedInv'
  BY <1>1, <1>2, <1>3, <1>4 DEF HttpInv, SlotsAccounted, ReservedInv
<1>6. TypeOK'
  BY <1>1, <1>2, <1>5 DEF TypeOK, NoCall
<1>7. CapRespected' /\ QueueOrdered' /\ AnswerToAsker' /\ Outstanding' = Outstanding
  BY <1>1 DEF HttpInv, CapRespected, QueueOrdered, AnswerToAsker, Outstanding
<1>8. IdsInv'
  <2>1. \A r \in Outstanding : r.id \in Nat
    BY OutstandingTyped
  <2>2. \A id \in DOMAIN pending : id \in Nat
    BY DEF TypeOK
  <2> QED
    BY <1>1, <1>2, <1>7, <2>1, <2>2 DEF HttpInv, IdsInv
<1> QED
  BY <1>5, <1>6, <1>7, <1>8 DEF HttpInv

\* Sending the request: the new id exceeds all others.
LEMMA EnqueueStep ==
  ASSUME TypeOK, HttpInv, Enqueue
  PROVE  TypeOK' /\ HttpInv'
<1> DEFINE r == [id |-> next_id, script |-> script]
<1>1. /\ call.at = "reserved" /\ call.prev < MaxInFlight /\ call' = Sent(next_id)
      /\ req' = Append(req, r) /\ next_id' = next_id + 1
      /\ UNCHANGED <<in_flight, resp, worker, executing, finished, pending, ui, done>>
      /\ UNCHANGED <<script, loaded>>
  BY HttpAssumption DEF Enqueue, AtCap, callUnchanged, workerVars, TypeOK, Reserved, NoCall, Sent
<1>2. /\ call'.at = "sent" /\ call'.id = next_id
      /\ next_id <= MaxId /\ next_id \in Nat \ {0} /\ MaxId \in Nat
      /\ call.prev \in Nat /\ MaxInFlight \in Nat
  BY <1>1, HttpAssumption DEF Sent, TypeOK, NoCall
<1>3. /\ r \in Request /\ r.id = next_id /\ r.script = script
  BY <1>2 DEF Request, TypeOK
<1> HIDE DEF r
<1>4. /\ req \in Seq(Request)
      /\ Append(req, r) \in Seq(Request) /\ Len(Append(req, r)) = Len(req) + 1
      /\ DOMAIN Append(req, r) = DOMAIN req \cup {Len(req) + 1}
      /\ \A i \in DOMAIN req : Append(req, r)[i] = req[i]
      /\ Append(req, r)[Len(req) + 1] = r
      /\ ToSet(Append(req, r)) = ToSet(req) \cup {r}
  BY <1>3, AppendFacts DEF TypeOK
<1>5. TypeOK'
  <2>1. next_id' \in 1..(MaxId + 1) /\ next_id \in 1..MaxId
    BY <1>1, <1>2
  <2>2. call' = Sent(call'.id) /\ call'.id \in 1..MaxId /\ call'.at = "sent"
    BY <1>1, <1>2, <2>1
  <2>3. InLua'
    BY <1>1, <1>2 DEF TypeOK, InLua, NoCall
  <2>4. req' \in Seq(Request)
    BY <1>1, <1>4
  <2> QED
    BY <1>1, <2>1, <2>2, <2>3, <2>4 DEF TypeOK
<1>6. /\ Len(req) \in Nat /\ Cardinality(executing) \in Nat /\ in_flight \in Nat
  BY HeldNat DEF TypeOK
<1>7. SlotsAccounted' /\ ReservedInv' /\ CapRespected'
  <2>1. Held' = Held
    BY <1>1, <1>2, <1>4, <1>6 DEF Held, SlotOf
  <2>2. SlotsAccounted'
    BY <1>1, <2>1 DEF HttpInv, SlotsAccounted
  <2> QED
    BY <1>1, <1>2, <1>4, <1>6, <2>2 DEF HttpInv, ReservedInv, CapRespected
<1>8. /\ Outstanding' = Outstanding \cup {r}
      /\ ToSet(req) \cup executing \subseteq Outstanding
  BY <1>1, <1>4 DEF Outstanding
<1>9. \A q \in Outstanding : q.id < next_id /\ q.id \in Nat
  BY OutstandingTyped DEF HttpInv, IdsInv
<1>10. QueueOrdered'
  <2>1. \A i \in DOMAIN req : req[i].id < next_id /\ i \in 1..Len(req)
    BY <1>4, <1>8, <1>9 DEF ToSet
  <2>2. \A q \in executing : q.id < next_id
    BY <1>8, <1>9
  <2>3. \A i, j \in DOMAIN req' : i < j => req'[i].id < req'[j].id
    BY <1>1, <1>3, <1>4, <1>6, <2>1 DEF HttpInv, QueueOrdered
  <2>4. \A q \in executing' : \A i \in DOMAIN req' : q.id < req'[i].id
    BY <1>1, <1>3, <1>4, <2>2 DEF HttpInv, QueueOrdered
  <2> QED
    BY <2>3, <2>4 DEF QueueOrdered
<1>11. IdsInv' /\ AnswerToAsker'
  <2>1. \A id \in DOMAIN pending : id \in Nat /\ id < next_id
    BY DEF HttpInv, IdsInv, TypeOK
  <2> QED
    BY <1>1, <1>2, <1>3, <1>8, <1>9, <2>1 DEF HttpInv, IdsInv, AnswerToAsker
<1> QED
  BY <1>5, <1>7, <1>10, <1>11 DEF HttpInv

\* Storing the callback: whatever has this id was asked by this script.
LEMMA StashStep ==
  ASSUME TypeOK, HttpInv, Stash
  PROVE  TypeOK' /\ HttpInv'
<1>1. /\ call.at = "sent" /\ call' = NoCall
      /\ UNCHANGED <<in_flight, req, resp, worker, executing, finished, next_id, ui, done>>
      /\ UNCHANGED <<script, loaded>>
      /\ Outstanding' = Outstanding
      /\ DOMAIN pending' \subseteq DOMAIN pending \cup {call.id}
      /\ \A id \in DOMAIN pending' :
           IF id \in DOMAIN pending /\ id # call.id
           THEN pending'[id] = pending[id]
           ELSE pending'[id] \in {script, pending[id]}
  BY DEF Stash, callUnchanged, workerVars, Outstanding
<1>2. \/ pending' = pending
      \/ pending' = [id \in DOMAIN pending \cup {call.id} |->
                       IF id = call.id THEN script ELSE pending[id]]
  BY DEF Stash
<1>3. call'.at = "none" /\ call.id \in 1..MaxId /\ call.id < next_id
  BY <1>1 DEF NoCall, TypeOK, HttpInv, IdsInv
<1>4. TypeOK'
  <2>1. /\ DOMAIN pending' \subseteq 1..MaxId
        /\ pending' \in [DOMAIN pending' -> 0..MaxScript]
    BY <1>2, <1>3 DEF TypeOK
  <2> QED
    BY <1>1, <1>3, <2>1 DEF TypeOK, NoCall
<1>5. SlotsAccounted' /\ ReservedInv' /\ CapRespected' /\ QueueOrdered'
  BY <1>1, <1>3
     DEF HttpInv, SlotsAccounted, Held, SlotOf, ReservedInv, CapRespected, QueueOrdered
<1>6. IdsInv'
  BY <1>1, <1>3 DEF HttpInv, IdsInv
<1>7. AnswerToAsker'
  BY <1>1, <1>2 DEF HttpInv, IdsInv, AnswerToAsker
<1> QED
  BY <1>4, <1>5, <1>6, <1>7 DEF HttpInv

-----------------------------------------------------------------------------
(* The worker.                                                             *)

\* A step that leaves the counter, the queue and the tasks alone, brings no
\* request back and stores no callback keeps the invariant.
LEMMA QuietStep ==
  ASSUME HttpInv, TypeOK,
         UNCHANGED <<in_flight, req, worker, executing, next_id, call>>,
         Outstanding' \subseteq Outstanding,
         DOMAIN pending' \subseteq DOMAIN pending,
         \A id \in DOMAIN pending' : pending'[id] = pending[id],
         call.at = "sent" => script' = script
  PROVE  HttpInv'
<1>1. SlotsAccounted' /\ ReservedInv' /\ CapRespected' /\ QueueOrdered'
  BY DEF HttpInv, SlotsAccounted, Held, SlotOf, ReservedInv, CapRespected, QueueOrdered
<1>2. IdsInv' /\ AnswerToAsker'
  BY DEF HttpInv, IdsInv, AnswerToAsker
<1> QED
  BY <1>1, <1>2 DEF HttpInv

\* The client is built.
LEMMA ClientReadyStep ==
  ASSUME TypeOK, HttpInv, ClientReady
  PROVE  TypeOK' /\ HttpInv'
<1>1. /\ worker = "starting" /\ worker' = "serving"
      /\ UNCHANGED <<in_flight, req, resp, executing, finished, next_id, pending, ui, call, done>>
      /\ UNCHANGED <<script, loaded>>
  BY DEF ClientReady, uiVars
<1>2. TypeOK'
  BY <1>1 DEF TypeOK, InLua
<1>3. SlotsAccounted' /\ ReservedInv' /\ CapRespected' /\ QueueOrdered'
  BY <1>1 DEF HttpInv, SlotsAccounted, Held, SlotOf, ReservedInv, CapRespected, QueueOrdered
<1>4. IdsInv' /\ AnswerToAsker'
  BY <1>1 DEF HttpInv, IdsInv, AnswerToAsker, Outstanding
<1> QED
  BY <1>2, <1>3, <1>4 DEF HttpInv

\* The client cannot be built: the queue is lost, its slots are not freed.
LEMMA ClientInitFailsStep ==
  ASSUME TypeOK, HttpInv, ClientInitFails
  PROVE  TypeOK' /\ HttpInv'
<1>1. /\ worker' = "gone" /\ req' = << >>
      /\ UNCHANGED <<in_flight, resp, executing, finished, next_id, pending, ui, call, done>>
      /\ UNCHANGED <<script, loaded>>
  BY DEF ClientInitFails, uiVars
<1>2. /\ << >> \in Seq(Request) /\ Len(<< >>) = 0 /\ DOMAIN << >> = {}
  OBVIOUS
<1>3. TypeOK'
  BY <1>1, <1>2 DEF TypeOK, InLua
<1>4. /\ Len(req) \in Nat /\ Cardinality(executing) \in Nat /\ in_flight \in Nat
      /\ SlotOf(call) \in {0, 1} /\ MaxInFlight \in Nat
      /\ call.at = "reserved" => call.prev \in Nat
  BY HeldNat, HttpAssumption DEF TypeOK, SlotOf, NoCall, Sent
<1>5. SlotsAccounted' /\ ReservedInv' /\ CapRespected'
  BY <1>1, <1>2, <1>4 DEF HttpInv, SlotsAccounted, Held, ReservedInv, CapRespected
<1>6. QueueOrdered'
  BY <1>1, <1>2 DEF QueueOrdered
<1>7. ToSet(req') = {}
  BY <1>1, <1>2 DEF ToSet
<1>8. Outstanding' \subseteq Outstanding
  BY <1>1, <1>7 DEF Outstanding
<1>9. IdsInv' /\ AnswerToAsker'
  BY <1>1, <1>8 DEF HttpInv, IdsInv, AnswerToAsker
<1> QED
  BY <1>3, <1>5, <1>6, <1>9 DEF HttpInv

\* Spawning a task: the request at the head is not being executed already.
LEMMA SpawnStep ==
  ASSUME TypeOK, HttpInv, Spawn
  PROVE  TypeOK' /\ HttpInv'
<1> DEFINE r == Head(req)
<1>1. /\ worker = "serving" /\ req # << >>
      /\ executing' = executing \cup {r} /\ req' = Tail(req)
      /\ UNCHANGED <<in_flight, resp, worker, finished, next_id, pending, ui, call, done>>
      /\ UNCHANGED <<script, loaded>>
  BY DEF Spawn, uiVars
<1>2. /\ req \in Seq(Request)
      /\ Tail(req) \in Seq(Request) /\ Len(Tail(req)) = Len(req) - 1 /\ Len(req) \in Nat \ {0}
      /\ \A i \in DOMAIN Tail(req) : i + 1 \in DOMAIN req /\ Tail(req)[i] = req[i + 1]
      /\ 1 \in DOMAIN req /\ r = req[1] /\ r \in Request
      /\ DOMAIN Tail(req) \subseteq Nat \ {0}
      /\ ToSet(Tail(req)) \subseteq ToSet(req) /\ r \in ToSet(req)
  BY <1>1, TailFacts DEF TypeOK
<1> HIDE DEF r
<1>3. \A q \in executing : q.id \in Nat /\ q.id < r.id /\ r.id \in Nat
  <2>1. \A q \in Request : q.id \in Nat
    BY DEF Request
  <2>2. \A q \in executing : q \in Request
    BY DEF TypeOK
  <2>3. \A q \in executing : \A i \in DOMAIN req : q.id < req[i].id
    BY DEF HttpInv, QueueOrdered
  <2> QED
    BY <1>2, <2>1, <2>2, <2>3
<1>4. r \notin executing
  BY <1>3
<1>5. IsFiniteSet(executing') /\ Cardinality(executing') = Cardinality(executing) + 1
  BY <1>1, <1>4, FS_AddElement DEF TypeOK
<1>6. TypeOK'
  BY <1>1, <1>2, <1>5 DEF TypeOK, InLua
<1>7. Len(req) \in Nat /\ Cardinality(executing) \in Nat
  BY HeldNat
<1>8. Len(req') + Cardinality(executing') = Len(req) + Cardinality(executing)
  BY <1>1, <1>2, <1>5, <1>7
<1>9. SlotsAccounted' /\ ReservedInv' /\ CapRespected'
  BY <1>1, <1>8 DEF HttpInv, SlotsAccounted, Held, SlotOf, ReservedInv, CapRespected
<1>10. QueueOrdered'
  <2>1. \A i, j \in DOMAIN req' : i < j => req'[i].id < req'[j].id
    BY <1>1, <1>2 DEF HttpInv, QueueOrdered
  <2>2. \A i \in DOMAIN req' : r.id < req'[i].id
    <3> TAKE i \in DOMAIN req'
    <3>1. i + 1 \in DOMAIN req /\ 1 < i + 1 /\ req'[i] = req[i + 1]
      BY <1>1, <1>2
    <3> QED
      BY <1>2, <3>1 DEF HttpInv, QueueOrdered
  <2>3. \A q \in executing : \A i \in DOMAIN req' : q.id < req'[i].id
    BY <1>1, <1>2 DEF HttpInv, QueueOrdered
  <2> QED
    BY <1>1, <2>1, <2>2, <2>3 DEF QueueOrdered
<1>11. Outstanding' \subseteq Outstanding
  BY <1>1, <1>2 DEF Outstanding
<1>12. IdsInv' /\ AnswerToAsker'
  BY <1>1, <1>11 DEF HttpInv, IdsInv, AnswerToAsker
<1> QED
  BY <1>6, <1>9, <1>10, <1>12 DEF HttpInv

\* A task is over and frees its slot.
LEMMA CompleteStep ==
  ASSUME TypeOK, HttpInv, NEW r \in executing, Complete(r)
  PROVE  TypeOK' /\ HttpInv'
<1>1. /\ executing' = executing \ {r} /\ finished' = finished \cup {r}
      /\ in_flight' = in_flight - 1
      /\ UNCHANGED <<req, resp, worker, next_id, pending, ui, call, done>>
      /\ UNCHANGED <<script, loaded>>
  BY DEF Complete, uiVars
<1>2. /\ IsFiniteSet(executing') /\ Cardinality(executing') = Cardinality(executing) - 1
      /\ Cardinality(executing') \in Nat
  BY <1>1, FS_RemoveElement, FS_CardinalityType DEF TypeOK
<1>3. /\ Len(req) \in Nat /\ Cardinality(executing) \in Nat /\ in_flight \in Nat
      /\ SlotOf(call) \in {0, 1} /\ MaxInFlight \in Nat
      /\ call.at = "reserved" => call.prev \in Nat
  BY HeldNat, HttpAssumption DEF TypeOK, SlotOf, NoCall, Sent
<1>4. in_flight' \in Nat /\ SlotsAccounted' /\ ReservedInv' /\ CapRespected'
  BY <1>1, <1>2, <1>3 DEF HttpInv, SlotsAccounted, Held, ReservedInv, CapRespected
<1>5. TypeOK'
  BY <1>1, <1>2, <1>4 DEF TypeOK, InLua
<1>6. Outstanding' \subseteq Outstanding
  BY <1>1 DEF Outstanding
<1>7. QueueOrdered' /\ IdsInv' /\ AnswerToAsker'
  BY <1>1, <1>6 DEF HttpInv, QueueOrdered, IdsInv, AnswerToAsker
<1> QED
  BY <1>4, <1>5, <1>7 DEF HttpInv

\* The response goes to the channel.
LEMMA SendResponseStep ==
  ASSUME TypeOK, HttpInv, NEW r \in finished, SendResponse(r)
  PROVE  TypeOK' /\ HttpInv'
<1>1. /\ finished' = finished \ {r} /\ resp' = Append(resp, r)
      /\ UNCHANGED <<in_flight, req, worker, executing, next_id, pending, ui, call, done>>
      /\ UNCHANGED <<script, loaded>>
  BY DEF SendResponse, uiVars
<1>2. /\ resp \in Seq(Request) /\ r \in Request
  BY DEF TypeOK
<1>3. Append(resp, r) \in Seq(Request) /\ ToSet(Append(resp, r)) = ToSet(resp) \cup {r}
  BY <1>2, AppendFacts
<1>4. TypeOK'
  BY <1>1, <1>3 DEF TypeOK, InLua
<1>5. Outstanding' \subseteq Outstanding
  BY <1>1, <1>3 DEF Outstanding
<1> QED
  BY <1>1, <1>4, <1>5, QuietStep

-----------------------------------------------------------------------------
(* Frames and loads.                                                       *)

\* Draining the channel.
LEMMA BeginFrameStep ==
  ASSUME TypeOK, HttpInv, BeginFrame
  PROVE  TypeOK' /\ HttpInv'
<1>1. /\ ui = "idle" /\ ui' = "pump" /\ done' = resp /\ resp' = << >>
      /\ UNCHANGED <<in_flight, req, worker, executing, finished, next_id, pending, call>>
      /\ UNCHANGED <<script, loaded>>
  BY DEF BeginFrame, frameUnchanged, workerVars
<1>2. << >> \in Seq(Request) /\ DOMAIN << >> = {}
  OBVIOUS
<1>3. call = NoCall
  BY <1>1 DEF TypeOK, InLua
<1>4. TypeOK'
  BY <1>1, <1>2, <1>3 DEF TypeOK, NoCall
<1>5. ToSet(resp') = {}
  BY <1>1, <1>2 DEF ToSet
<1>6. Outstanding' \subseteq Outstanding
  BY <1>1, <1>5 DEF Outstanding
<1> QED
  BY <1>1, <1>4, <1>6, QuietStep

\* Delivering a response takes it and its callback away.
LEMMA DeliverStep ==
  ASSUME TypeOK, HttpInv, Deliver
  PROVE  TypeOK' /\ HttpInv'
<1> DEFINE id == Head(done).id
<1>1. /\ ui = "pump" /\ done # << >> /\ done' = Tail(done)
      /\ pending' = [i \in DOMAIN pending \ {id} |-> pending[i]]
      /\ ui' \in {"callback", "pump"}
      /\ UNCHANGED <<in_flight, req, resp, worker, executing, finished, next_id, call>>
      /\ UNCHANGED <<script, loaded>>
  BY DEF Deliver, frameUnchanged, workerVars
<1>2. Tail(done) \in Seq(Request) /\ ToSet(Tail(done)) \subseteq ToSet(done)
  BY <1>1, TailFacts DEF TypeOK
<1> HIDE DEF id
<1>3. /\ DOMAIN pending' \subseteq DOMAIN pending
      /\ \A i \in DOMAIN pending' : pending'[i] = pending[i]
      /\ pending' \in [DOMAIN pending' -> 0..MaxScript]
  BY <1>1 DEF TypeOK
<1>4. call = NoCall
  BY <1>1 DEF TypeOK, InLua
<1>5. TypeOK'
  BY <1>1, <1>2, <1>3, <1>4 DEF TypeOK, NoCall
<1>6. Outstanding' \subseteq Outstanding
  BY <1>1, <1>2 DEF Outstanding
<1> QED
  BY <1>1, <1>3, <1>5, <1>6, QuietStep

\* The steps that only move the UI thread on.
LEMMA MoveOnStep ==
  ASSUME TypeOK, HttpInv,
         CallbackReturns \/ OnFrame \/ FrameReturns \/ BeginUnload \/ LoadReturns
  PROVE  TypeOK' /\ HttpInv'
<1>1. /\ ui \notin {"callback", "frame", "unload", "load"} \/ call = NoCall
      /\ ui' \in {"pump", "frame", "idle", "unload"}
      /\ loaded' \in BOOLEAN
      /\ UNCHANGED <<in_flight, req, resp, worker, executing, finished, next_id, pending, call>>
      /\ UNCHANGED <<done, script>>
  BY DEF CallbackReturns, OnFrame, FrameReturns, BeginUnload, LoadReturns, frameUnchanged,
         workerVars, TypeOK
<1>2. call = NoCall
  BY <1>1 DEF TypeOK, InLua
<1>3. TypeOK'
  BY <1>1, <1>2 DEF TypeOK, NoCall
<1>4. Outstanding' \subseteq Outstanding
  BY <1>1 DEF Outstanding
<1> QED
  BY <1>1, <1>3, <1>4, QuietStep

\* A new script: the callbacks of the old one are forgotten.
LEMMA BeginLoadStep ==
  ASSUME TypeOK, HttpInv, BeginLoad
  PROVE  TypeOK' /\ HttpInv'
<1>1. /\ ui \in {"unload", "idle"}
      /\ ui = "unload" => call = NoCall
      /\ script < MaxScript /\ script' = script + 1
      /\ loaded' = FALSE /\ pending' = << >> /\ ui' = "load"
      /\ UNCHANGED <<in_flight, req, resp, worker, executing, finished, next_id, call, done>>
  BY DEF BeginLoad, workerVars
<1>2. call = NoCall /\ call.at = "none"
  <2>1. call # NoCall => ui = "load" \/ ui = "unload" \/ ui = "frame" \/ ui = "callback"
    BY DEF TypeOK, InLua
  <2>2. call = NoCall
    BY <1>1, <2>1
  <2> QED
    BY <2>2 DEF NoCall
<1>3. DOMAIN pending' = {} /\ pending' \in [{} -> 0..MaxScript]
  BY <1>1
<1>4. script' \in 0..MaxScript
  BY <1>1, HttpAssumption DEF TypeOK
<1>5. TypeOK'
  BY <1>1, <1>2, <1>3, <1>4 DEF TypeOK, NoCall
<1>6. Outstanding' \subseteq Outstanding
  BY <1>1 DEF Outstanding
<1> QED
  BY <1>1, <1>2, <1>3, <1>5, <1>6, QuietStep

-----------------------------------------------------------------------------
(* Callbacks and the requests on the way to them.                          *)

\* The places of an id in a queue are finitely many, none in an empty queue.
LEMMA QueuedFacts ==
  ASSUME NEW s \in Seq(Request), NEW id
  PROVE  /\ IsFiniteSet(Queued(s, id)) /\ Cardinality(Queued(s, id)) \in Nat
         /\ (\A r \in ToSet(s) : r.id # id) => Cardinality(Queued(s, id)) = 0
         /\ Cardinality(Queued(<< >>, id)) = 0
<1>1. DOMAIN s = 1..Len(s) /\ Len(s) \in Nat
  OBVIOUS
<1>2. IsFiniteSet(1..Len(s))
  BY <1>1, FS_Interval
<1>3. Queued(s, id) \subseteq 1..Len(s) /\ Queued(<< >>, id) = {}
  BY <1>1 DEF Queued
<1>4. (\A r \in ToSet(s) : r.id # id) => Queued(s, id) = {}
  BY DEF ToSet, Queued
<1> QED
  BY <1>2, <1>3, <1>4, FS_Subset, FS_CardinalityType, FS_EmptySet

\* Appending adds a place to the request's id, and to no other.
LEMMA QueuedAppend ==
  ASSUME NEW s \in Seq(Request), NEW r \in Request, NEW id
  PROVE  /\ r.id = id => Cardinality(Queued(Append(s, r), id)) = Cardinality(Queued(s, id)) + 1
         /\ r.id # id => Cardinality(Queued(Append(s, r), id)) = Cardinality(Queued(s, id))
<1>1. /\ Len(s) \in Nat /\ DOMAIN s = 1..Len(s)
      /\ DOMAIN Append(s, r) = DOMAIN s \cup {Len(s) + 1}
      /\ \A i \in DOMAIN s : Append(s, r)[i] = s[i]
      /\ Append(s, r)[Len(s) + 1] = r
  BY AppendFacts
<1>2. r.id = id => Queued(Append(s, r), id) = Queued(s, id) \cup {Len(s) + 1}
  BY <1>1 DEF Queued
<1>3. r.id # id => Queued(Append(s, r), id) = Queued(s, id)
  BY <1>1 DEF Queued
<1>4. Len(s) + 1 \notin Queued(s, id)
  BY <1>1 DEF Queued
<1>5. IsFiniteSet(Queued(s, id))
  BY QueuedFacts
<1> QED
  BY <1>2, <1>3, <1>4, <1>5, FS_AddElement

\* Taking the head removes a place of its id, and of no other.
LEMMA QueuedTail ==
  ASSUME NEW s \in Seq(Request), s # << >>, NEW id
  PROVE  /\ Cardinality(Queued(Tail(s), id)) \in Nat
         /\ Head(s).id = id => Cardinality(Queued(s, id)) = Cardinality(Queued(Tail(s), id)) + 1
         /\ Head(s).id # id => Cardinality(Queued(s, id)) = Cardinality(Queued(Tail(s), id))
<1> DEFINE C == Queued(s, id)
           D == Queued(Tail(s), id)
           B == C \ {1}
           f == [i \in D |-> i + 1]
<1>1. /\ Tail(s) \in Seq(Request) /\ Len(s) \in Nat \ {0}
      /\ DOMAIN s = 1..Len(s) /\ DOMAIN Tail(s) = 1..(Len(s) - 1)
      /\ \A i \in 1..(Len(s) - 1) : Tail(s)[i] = s[i + 1]
      /\ Head(s) = s[1]
  OBVIOUS
<1>2. /\ IsFiniteSet(C) /\ Cardinality(C) \in Nat
      /\ IsFiniteSet(D) /\ Cardinality(D) \in Nat
  BY <1>1, QueuedFacts
<1>3. IsFiniteSet(B)
  BY <1>2, FS_Subset
<1>4. /\ \A i \in B : i - 1 \in D /\ f[i - 1] = i
      /\ f \in [D -> B]
      /\ \A i, j \in D : f[i] = f[j] => i = j
  BY <1>1 DEF Queued
<1>5. ExistsBijection(D, B)
  <2>1. f \in Bijection(D, B)
    BY <1>4 DEF Bijection, Injection, Surjection, IsInjective
  <2> QED
    BY <2>1 DEF ExistsBijection
<1>6. Head(s).id = id => 1 \in C
  BY <1>1 DEF Queued
<1>7. Head(s).id # id => 1 \notin C
  BY <1>1 DEF Queued
<1> HIDE DEF C, D, B, f
<1>8. Cardinality(D) = Cardinality(B)
  BY <1>2, <1>3, <1>5, FS_Bijection
<1>9. 1 \in C => Cardinality(B) = Cardinality(C) - 1
  BY <1>2, FS_RemoveElement DEF B
<1>10. 1 \notin C => B = C
  BY DEF B
<1>11. /\ Head(s).id = id => Cardinality(C) = Cardinality(D) + 1
       /\ Head(s).id # id => Cardinality(C) = Cardinality(D)
  BY <1>2, <1>6, <1>7, <1>8, <1>9, <1>10
<1> QED
  BY <1>2, <1>11 DEF C, D

\* One task more, or none.
LEMMA WithIdFacts ==
  ASSUME NEW T, IsFiniteSet(T), NEW id
  PROVE  /\ IsFiniteSet(WithId(T, id)) /\ Cardinality(WithId(T, id)) \in Nat
         /\ (\A r \in T : r.id # id) => Cardinality(WithId(T, id)) = 0
         /\ \A r : r \notin T =>
              /\ r.id = id => Cardinality(WithId(T \cup {r}, id)) = Cardinality(WithId(T, id)) + 1
              /\ r.id # id => Cardinality(WithId(T \cup {r}, id)) = Cardinality(WithId(T, id))
<1>1. IsFiniteSet(WithId(T, id)) /\ Cardinality(WithId(T, id)) \in Nat
  BY FS_Subset, FS_CardinalityType DEF WithId
<1>2. (\A r \in T : r.id # id) => WithId(T, id) = {}
  BY DEF WithId
<1>3. ASSUME NEW r, r \notin T
      PROVE  /\ r.id = id => Cardinality(WithId(T \cup {r}, id)) = Cardinality(WithId(T, id)) + 1
             /\ r.id # id => Cardinality(WithId(T \cup {r}, id)) = Cardinality(WithId(T, id))
  <2>1. r \notin WithId(T, id)
    BY <1>3 DEF WithId
  <2>2. r.id = id => WithId(T \cup {r}, id) = WithId(T, id) \cup {r}
    BY DEF WithId
  <2>3. r.id # id => WithId(T \cup {r}, id) = WithId(T, id)
    BY DEF WithId
  <2> QED
    BY <1>1, <2>1, <2>2, <2>3, FS_AddElement
<1> QED
  BY <1>1, <1>2, <1>3, FS_EmptySet

\* Counts are natural numbers, and an id not given out yet has none.
LEMMA UnderwayFacts ==
  ASSUME TypeOK, IsFiniteSet(finished), NEW id
  PROVE  /\ Cardinality(Queued(req, id)) \in Nat /\ Cardinality(Queued(resp, id)) \in Nat
         /\ Cardinality(Queued(done, id)) \in Nat
         /\ Cardinality(WithId(executing \cup finished, id)) \in Nat
         /\ (\A r \in Outstanding : r.id # id) => Underway(id) = 0
<1>1. /\ req \in Seq(Request) /\ resp \in Seq(Request) /\ done \in Seq(Request)
      /\ IsFiniteSet(executing \cup finished)
  BY FS_Union DEF TypeOK
<1>2. /\ Cardinality(Queued(req, id)) \in Nat /\ Cardinality(Queued(resp, id)) \in Nat
      /\ Cardinality(Queued(done, id)) \in Nat
      /\ Cardinality(WithId(executing \cup finished, id)) \in Nat
  BY <1>1, QueuedFacts, WithIdFacts
<1>3. ASSUME \A r \in Outstanding : r.id # id
      PROVE  Underway(id) = 0
  <2>1. /\ Cardinality(Queued(req, id)) = 0 /\ Cardinality(Queued(resp, id)) = 0
        /\ Cardinality(Queued(done, id)) = 0
    BY <1>1, <1>3, QueuedFacts DEF Outstanding
  <2>2. Cardinality(WithId(executing \cup finished, id)) = 0
    BY <1>1, <1>3, WithIdFacts DEF Outstanding
  <2> QED
    BY <2>1, <2>2 DEF Underway
<1> QED
  BY <1>2, <1>3

\* A step that moves requests on, and stores no callback, keeps the count.
LEMMA AwaitedKept ==
  ASSUME TypeOK, AwaitedInv,
         UNCHANGED <<worker, call, script>>,
         IsFiniteSet(finished'), executing' \cap finished' = {},
         \A id \in 1..MaxId : Underway(id)' = Underway(id),
         DOMAIN pending' \subseteq DOMAIN pending,
         \A id \in DOMAIN pending' : pending'[id] = pending[id],
         done' # << >> => ui' \in {"pump", "callback"}
  PROVE  AwaitedInv'
<1>1. DOMAIN pending \subseteq 1..MaxId
  BY DEF TypeOK
<1>2. call.at = "sent" => call.id \in 1..MaxId
  BY DEF TypeOK, NoCall
<1> QED
  BY <1>1, <1>2 DEF AwaitedInv

\* What moves a request on.
LEMMA MovingSteps ==
  ASSUME TypeOK, AwaitedInv
  PROVE  /\ Spawn => AwaitedInv'
         /\ \A r \in executing : Complete(r) => AwaitedInv'
         /\ \A r \in finished : SendResponse(r) => AwaitedInv'
         /\ BeginFrame => AwaitedInv'
<1>1. /\ IsFiniteSet(finished) /\ executing \cap finished = {} /\ IsFiniteSet(executing)
      /\ IsFiniteSet(executing \cup finished)
      /\ done # << >> => ui \in {"pump", "callback"}
  BY FS_Union DEF TypeOK, AwaitedInv
<1>2. /\ req \in Seq(Request) /\ resp \in Seq(Request) /\ done \in Seq(Request)
      /\ executing \subseteq Request /\ finished \subseteq Request
  BY DEF TypeOK
<1>3. ASSUME Spawn
      PROVE  AwaitedInv'
  <2> DEFINE r == Head(req)
             T == executing \cup finished
  <2>1. /\ req # << >> /\ executing' = executing \cup {r} /\ req' = Tail(req)
        /\ UNCHANGED <<resp, worker, finished, pending, ui, call, done, script>>
    BY <1>3 DEF Spawn, uiVars
  <2>2. r \in Request /\ r.id \in 1..MaxId
    <3>1. r \in Request
      BY <1>2, <2>1, TailFacts
    <3> QED
      BY <3>1 DEF Request
  <2> HIDE DEF r
  <2>3. \A id : /\ r.id = id => Cardinality(Queued(req, id)) = Cardinality(Queued(Tail(req), id)) + 1
                /\ r.id # id => Cardinality(Queued(req, id)) = Cardinality(Queued(Tail(req), id))
    BY <1>2, <2>1, QueuedTail DEF r
  <2>4. \A id : /\ Cardinality(Queued(Tail(req), id)) \in Nat
                /\ Cardinality(Queued(resp, id)) \in Nat /\ Cardinality(Queued(done, id)) \in Nat
                /\ IsFiniteSet(WithId(T, id)) /\ Cardinality(WithId(T, id)) \in Nat
    BY <1>1, <1>2, <2>1, QueuedTail, UnderwayFacts, WithIdFacts
  <2>5. r \notin T
    <3> DEFINE a == Cardinality(Queued(req, r.id))
               b == Cardinality(Queued(Tail(req), r.id))
               c == Cardinality(WithId(T, r.id))
               d == Cardinality(Queued(resp, r.id))
               e == Cardinality(Queued(done, r.id))
    <3>1. c = 0
      <4>1. a + c + d + e <= 1
        BY <2>2 DEF Underway, AwaitedInv
      <4>2. b \in Nat /\ c \in Nat /\ d \in Nat /\ e \in Nat /\ a = b + 1
        BY <2>3, <2>4
      <4> HIDE DEF a, b, c, d, e
      <4> QED
        BY <4>1, <4>2
    <3>2. WithId(T, r.id) = {}
      BY <2>4, <3>1, FS_EmptySet
    <3> QED
      BY <3>2 DEF WithId
  <2>6. (executing \cup finished)' = T \cup {r}
    BY <2>1
  <2>7. \A id \in 1..MaxId : Underway(id)' = Underway(id)
    <3> TAKE id \in 1..MaxId
    <3> DEFINE a == Cardinality(Queued(req, id))
               b == Cardinality(Queued(Tail(req), id))
               c == Cardinality(WithId(T, id))
               d == Cardinality(WithId(T \cup {r}, id))
               e == Cardinality(Queued(resp, id))
               f == Cardinality(Queued(done, id))
    <3>1. Underway(id)' = b + d + e + f /\ Underway(id) = a + c + e + f
      BY <2>1, <2>6 DEF Underway
    <3>2. b \in Nat /\ c \in Nat /\ e \in Nat /\ f \in Nat
      BY <2>4
    <3>3. (r.id = id => a = b + 1) /\ (r.id # id => a = b)
      BY <2>3
    <3>4. (r.id = id => d = c + 1) /\ (r.id # id => d = c)
      BY <1>1, <2>5, WithIdFacts
    <3> HIDE DEF a, b, c, d, e, f
    <3> QED
      BY <3>1, <3>2, <3>3, <3>4
  <2>8. IsFiniteSet(finished') /\ executing' \cap finished' = {}
    BY <1>1, <2>1, <2>5
  <2> QED
    BY <1>1, <2>1, <2>7, <2>8, AwaitedKept
<1>4. ASSUME NEW r \in executing, Complete(r)
      PROVE  AwaitedInv'
  <2>1. /\ executing' = executing \ {r} /\ finished' = finished \cup {r}
        /\ UNCHANGED <<req, resp, worker, pending, ui, call, done, script>>
    BY <1>4 DEF Complete, uiVars
  <2>2. IsFiniteSet(finished') /\ executing' \cap finished' = {}
    BY <1>1, <2>1, FS_AddElement
  <2>3. (executing \cup finished)' = executing \cup finished
    BY <2>1
  <2>4. \A id \in 1..MaxId : Underway(id)' = Underway(id)
    BY <2>1, <2>3 DEF Underway
  <2> QED
    BY <1>1, <2>1, <2>2, <2>4, AwaitedKept
<1>5. ASSUME NEW r \in finished, SendResponse(r)
      PROVE  AwaitedInv'
  <2>1. /\ finished' = finished \ {r} /\ resp' = Append(resp, r)
        /\ UNCHANGED <<req, worker, executing, pending, ui, call, done, script>>
    BY <1>5 DEF SendResponse, uiVars
  <2>2. IsFiniteSet(finished') /\ executing' \cap finished' = {}
    BY <1>1, <2>1, FS_Subset
  <2> DEFINE T == executing \cup finished
             U == T \ {r}
  <2>3. /\ (executing \cup finished)' = U
        /\ IsFiniteSet(U) /\ r \notin U /\ U \cup {r} = T
    BY <1>1, <2>1, FS_Subset
  <2> HIDE DEF U
  <2>4. \A id \in 1..MaxId : Underway(id)' = Underway(id)
    <3> TAKE id \in 1..MaxId
    <3> DEFINE a == Cardinality(Queued(req, id))
               b == Cardinality(WithId(T, id))
               c == Cardinality(WithId(U, id))
               d == Cardinality(Queued(resp, id))
               e == Cardinality(Queued(Append(resp, r), id))
               f == Cardinality(Queued(done, id))
    <3>1. Underway(id)' = a + c + e + f /\ Underway(id) = a + b + d + f
      BY <2>1, <2>3 DEF Underway
    <3>2. c \in Nat /\ (r.id = id => b = c + 1) /\ (r.id # id => b = c)
      BY <2>3, WithIdFacts
    <3>3. (r.id = id => e = d + 1) /\ (r.id # id => e = d)
      BY <1>2, QueuedAppend
    <3>4. a \in Nat /\ d \in Nat /\ f \in Nat
      BY <1>1, UnderwayFacts
    <3> HIDE DEF a, b, c, d, e, f
    <3> QED
      BY <3>1, <3>2, <3>3, <3>4
  <2> QED
    BY <1>1, <2>1, <2>2, <2>4, AwaitedKept
<1>6. ASSUME BeginFrame
      PROVE  AwaitedInv'
  <2>1. /\ ui = "idle" /\ ui' = "pump" /\ done' = resp /\ resp' = << >>
        /\ UNCHANGED <<req, worker, executing, finished, pending, call, script>>
    BY <1>6 DEF BeginFrame, frameUnchanged, workerVars
  <2>2. done = << >>
    BY <1>1, <2>1
  <2>3. \A id : Cardinality(Queued(<< >>, id)) = 0
    BY <1>2, QueuedFacts
  <2>4. \A id : Cardinality(Queued(resp, id)) \in Nat /\ Cardinality(Queued(req, id)) \in Nat
                /\ Cardinality(WithId(executing \cup finished, id)) \in Nat
    BY <1>1, UnderwayFacts
  <2>5. \A id \in 1..MaxId : Underway(id)' = Underway(id)
    <3> TAKE id \in 1..MaxId
    <3> DEFINE a == Cardinality(Queued(req, id))
               b == Cardinality(WithId(executing \cup finished, id))
               c == Cardinality(Queued(resp, id))
               z == Cardinality(Queued(<< >>, id))
    <3>1. Underway(id)' = a + b + z + c /\ Underway(id) = a + b + c + z
      BY <2>1, <2>2 DEF Underway
    <3>2. a \in Nat /\ b \in Nat /\ c \in Nat /\ z = 0
      BY <2>3, <2>4
    <3> HIDE DEF a, b, c, z
    <3> QED
      BY <3>1, <3>2
  <2> QED
    BY <1>1, <2>1, <2>5, AwaitedKept
<1> QED
  BY <1>3, <1>4, <1>5, <1>6

\* Sending a request, storing its callback and delivering its answer.
LEMMA CountingSteps ==
  ASSUME TypeOK, HttpInv, AwaitedInv
  PROVE  /\ Enqueue => AwaitedInv'
         /\ Stash => AwaitedInv'
         /\ ClientInitFails => AwaitedInv'
         /\ Deliver => AwaitedInv'
<1>1. IsFiniteSet(finished) /\ executing \cap finished = {}
  BY DEF AwaitedInv
<1>2. /\ req \in Seq(Request) /\ resp \in Seq(Request) /\ done \in Seq(Request)
      /\ DOMAIN pending \subseteq 1..MaxId /\ 1..MaxId \subseteq Nat
  BY DEF TypeOK
<1>3. \A id : /\ Cardinality(Queued(req, id)) \in Nat
              /\ Cardinality(Queued(resp, id)) \in Nat /\ Cardinality(Queued(done, id)) \in Nat
              /\ Cardinality(WithId(executing \cup finished, id)) \in Nat
  BY <1>1, UnderwayFacts
\* The new request is the first with its id.
<1>4. ASSUME Enqueue
      PROVE  AwaitedInv'
  <2> DEFINE r == [id |-> next_id, script |-> script]
  <2>1. /\ call.at = "reserved" /\ call' = Sent(next_id) /\ req' = Append(req, r)
        /\ UNCHANGED <<resp, worker, executing, finished, pending, ui, done, script>>
    BY <1>4 DEF Enqueue, callUnchanged, workerVars
  <2>2. /\ r \in Request /\ r.id = next_id /\ next_id \in 1..MaxId
        /\ call'.at = "sent" /\ call'.id = next_id
    BY <2>1, HttpAssumption DEF Request, TypeOK, Sent
  <2> HIDE DEF r
  <2>3. \A id : /\ r.id = id => Cardinality(Queued(Append(req, r), id)) = Cardinality(Queued(req, id)) + 1
                /\ r.id # id => Cardinality(Queued(Append(req, r), id)) = Cardinality(Queued(req, id))
    BY <1>2, <2>2, QueuedAppend
  <2>4. \A id : /\ next_id = id => Underway(id)' = Underway(id) + 1
                /\ next_id # id => Underway(id)' = Underway(id)
    <3> TAKE id
    <3> DEFINE a == Cardinality(Queued(Append(req, r), id))
               b == Cardinality(Queued(req, id))
               c == Cardinality(WithId(executing \cup finished, id))
               d == Cardinality(Queued(resp, id))
               e == Cardinality(Queued(done, id))
    <3>1. Underway(id)' = a + c + d + e /\ Underway(id) = b + c + d + e
      BY <2>1 DEF Underway
    <3>2. /\ b \in Nat /\ c \in Nat /\ d \in Nat /\ e \in Nat
          /\ next_id = id => a = b + 1
          /\ next_id # id => a = b
      BY <1>3, <2>2, <2>3
    <3> HIDE DEF a, b, c, d, e
    <3> QED
      BY <3>1, <3>2
  <2>5. Underway(next_id) = 0
    <3>1. \A q \in Outstanding : q.id # next_id
      BY OutstandingTyped, <2>2 DEF HttpInv, IdsInv
    <3> QED
      BY <1>1, <3>1, UnderwayFacts
  <2>6. \A id \in DOMAIN pending : id # next_id
    BY <1>2, <2>2 DEF HttpInv, IdsInv
  <2>7. \A id : Underway(id) \in Nat
    BY <1>3 DEF Underway
  <2> QED
    BY <2>1, <2>2, <2>4, <2>5, <2>6, <2>7 DEF AwaitedInv
<1>5. ASSUME UNCHANGED <<req, resp, executing, finished, done>>
      PROVE  \A id : Underway(id)' = Underway(id)
  BY <1>5 DEF Underway
\* The callback stored is that of the request just sent.
<1>6. ASSUME Stash
      PROVE  AwaitedInv'
  <2>1. /\ call.at = "sent" /\ call' = NoCall
        /\ \/ pending' = [id \in DOMAIN pending \cup {call.id} |->
                           IF id = call.id THEN script ELSE pending[id]]
           \/ pending' = pending
        /\ UNCHANGED <<req, resp, worker, executing, finished, ui, done, script>>
    BY <1>6 DEF Stash, callUnchanged, workerVars
  <2>2. \A id : Underway(id)' = Underway(id)
    BY <1>5, <2>1
  <2>3. call'.at = "none"
    BY <2>1 DEF NoCall
  <2>4. \A id \in DOMAIN pending' : \/ id = call.id /\ pending'[id] = script
                                    \/ id \in DOMAIN pending /\ pending'[id] = pending[id]
    BY <2>1
  <2> QED
    BY <2>1, <2>2, <2>3, <2>4 DEF AwaitedInv
\* With the worker the queue is lost, and no callback is owed an answer.
<1>7. ASSUME ClientInitFails
      PROVE  AwaitedInv'
  <2>1. /\ worker' = "gone" /\ req' = << >>
        /\ UNCHANGED <<resp, executing, finished, pending, ui, call, done, script>>
    BY <1>7 DEF ClientInitFails, uiVars
  <2>2. \A id : Cardinality(Queued(<< >>, id)) = 0
    BY <1>2, QueuedFacts
  <2>3. ASSUME NEW id
        PROVE  Underway(id) \in Nat /\ Underway(id)' \in Nat /\ Underway(id)' <= Underway(id)
    <3> DEFINE a == Cardinality(Queued(req, id))
               b == Cardinality(WithId(executing \cup finished, id))
               c == Cardinality(Queued(resp, id))
               d == Cardinality(Queued(done, id))
    <3>1. Underway(id)' = Cardinality(Queued(<< >>, id)) + b + c + d /\ Underway(id) = a + b + c + d
      BY <2>1 DEF Underway
    <3>2. a \in Nat /\ b \in Nat /\ c \in Nat /\ d \in Nat /\ Cardinality(Queued(<< >>, id)) = 0
      BY <1>3, <2>2
    <3> HIDE DEF a, b, c, d
    <3> QED
      BY <3>1, <3>2
  <2> QED
    BY <2>1, <2>3 DEF AwaitedInv
\* The answer delivered is the last of its id, and its callback goes with it.
<1>8. ASSUME Deliver
      PROVE  AwaitedInv'
  <2> DEFINE r == Head(done)
  <2>1. /\ ui = "pump" /\ done # << >> /\ done' = Tail(done)
        /\ pending' = [i \in DOMAIN pending \ {r.id} |-> pending[i]]
        /\ ui' \in {"callback", "pump"}
        /\ UNCHANGED <<req, resp, worker, executing, finished, call, script>>
    BY <1>8 DEF Deliver, frameUnchanged, workerVars
  <2>2. \A id : /\ Cardinality(Queued(Tail(done), id)) \in Nat
                /\ r.id = id => Cardinality(Queued(done, id)) = Cardinality(Queued(Tail(done), id)) + 1
                /\ r.id # id => Cardinality(Queued(done, id)) = Cardinality(Queued(Tail(done), id))
    BY <1>2, <2>1, QueuedTail
  <2>3. call = NoCall /\ call.at = "none"
    BY <2>1 DEF TypeOK, InLua, NoCall
  <2> HIDE DEF r
  <2>4. \A id : /\ Underway(id)' \in Nat
                /\ r.id = id => Underway(id) = Underway(id)' + 1
                /\ r.id # id => Underway(id) = Underway(id)'
    <3> TAKE id
    <3> DEFINE a == Cardinality(Queued(req, id))
               b == Cardinality(WithId(executing \cup finished, id))
               c == Cardinality(Queued(resp, id))
               d == Cardinality(Queued(done, id))
               e == Cardinality(Queued(Tail(done), id))
    <3>1. Underway(id)' = a + b + c + e /\ Underway(id) = a + b + c + d
      BY <2>1 DEF Underway
    <3>2. /\ a \in Nat /\ b \in Nat /\ c \in Nat /\ e \in Nat
          /\ r.id = id => d = e + 1
          /\ r.id # id => d = e
      BY <1>3, <2>2
    <3> HIDE DEF a, b, c, d, e
    <3> QED
      BY <3>1, <3>2
  <2>5. \A id \in DOMAIN pending' : id \in DOMAIN pending /\ id # r.id /\ pending'[id] = pending[id]
    BY <2>1
  <2> QED
    BY <2>1, <2>3, <2>4, <2>5 DEF AwaitedInv
<1> QED
  BY <1>4, <1>6, <1>7, <1>8

\* Every step keeps the callbacks and the requests on the way to them together.
LEMMA AwaitedStep ==
  ASSUME TypeOK, HttpInv, AwaitedInv, [Next]_vars
  PROVE  AwaitedInv'
<1>1. ASSUME UNCHANGED <<req, resp, executing, finished, done>>
      PROVE  \A id : Underway(id)' = Underway(id)
  BY <1>1 DEF Underway
<1>2. CASE Reserve \/ BackOut \/ SendFails
  <2>1. /\ call.at # "sent" /\ call'.at # "sent"
        /\ UNCHANGED <<req, resp, worker, executing, finished, pending, ui, done, script>>
    BY <1>2 DEF Reserve, BackOut, SendFails, callUnchanged, workerVars, NoCall, Reserved
  <2> QED
    BY <1>1, <2>1 DEF AwaitedInv
<1>3. CASE ClientReady
  <2>1. /\ worker # "gone" /\ worker' # "gone"
        /\ UNCHANGED <<req, resp, executing, finished, pending, ui, call, done, script>>
    BY <1>3 DEF ClientReady, uiVars
  <2> QED
    BY <1>1, <2>1 DEF AwaitedInv
<1>4. CASE CallbackReturns \/ OnFrame \/ FrameReturns \/ BeginUnload \/ LoadReturns
  <2>1. /\ UNCHANGED <<req, resp, worker, executing, finished, pending, call, done, script>>
        /\ ui' \in {"pump", "callback"} \/ done = << >>
    BY <1>4 DEF CallbackReturns, OnFrame, FrameReturns, BeginUnload, LoadReturns, frameUnchanged,
                workerVars, AwaitedInv
  <2> QED
    BY <1>1, <2>1 DEF AwaitedInv
<1>5. CASE BeginLoad
  <2>1. /\ UNCHANGED <<req, resp, worker, executing, finished, call, done>>
        /\ DOMAIN pending' = {} /\ done = << >>
    BY <1>5 DEF BeginLoad, workerVars, AwaitedInv
  <2>2. call.at = "none"
    BY <1>5 DEF BeginLoad, TypeOK, InLua, NoCall
  <2> QED
    BY <1>1, <2>1, <2>2 DEF AwaitedInv
<1>6. CASE UNCHANGED vars
  BY <1>1, <1>6 DEF vars, workerVars, uiVars, AwaitedInv
<1> QED
  BY <1>2, <1>3, <1>4, <1>5, <1>6, MovingSteps, CountingSteps DEF Next, HttpRequest, Worker, Frame, Load

-----------------------------------------------------------------------------
(* The theorems.                                                           *)

\* Nothing is in flight at first.
LEMMA HttpInit ==
  ASSUME Init
  PROVE  TypeOK /\ HttpInv
<1>1. /\ << >> \in Seq(Request) /\ Len(<< >>) = 0 /\ DOMAIN << >> = {}
      /\ << >> \in [{} -> 0..MaxScript] /\ ToSet(<< >>) = {}
  BY DEF ToSet
<1>2. IsFiniteSet({}) /\ Cardinality({}) = 0
  BY FS_EmptySet
<1>3. NoCall.at = "none"
  BY DEF NoCall
<1>4. TypeOK
  <2>1. next_id \in 1..(MaxId + 1) /\ script \in 0..MaxScript
    BY HttpAssumption DEF Init
  <2>2. DOMAIN pending \subseteq 1..MaxId /\ pending \in [DOMAIN pending -> 0..MaxScript]
    BY <1>1 DEF Init
  <2> QED
    BY <1>1, <1>2, <1>3, <2>1, <2>2 DEF Init, TypeOK
<1>5. Outstanding = {}
  BY <1>1 DEF Init, Outstanding
<1>6. SlotsAccounted /\ ReservedInv /\ CapRespected
  BY <1>1, <1>2, <1>3, HttpAssumption
     DEF Init, SlotsAccounted, Held, SlotOf, ReservedInv, CapRespected
<1>7. QueueOrdered /\ IdsInv /\ AnswerToAsker
  BY <1>1, <1>3, <1>5 DEF Init, QueueOrdered, IdsInv, AnswerToAsker
<1> QED
  BY <1>4, <1>6, <1>7 DEF HttpInv

\* Every step keeps the types and the invariant.
LEMMA HttpStep ==
  ASSUME TypeOK, HttpInv, [Next]_vars
  PROVE  TypeOK' /\ HttpInv'
<1>1. CASE HttpRequest
  BY <1>1, ReserveStep, ReleaseStep, EnqueueStep, StashStep DEF HttpRequest
<1>2. CASE Worker
  BY <1>2, ClientReadyStep, ClientInitFailsStep, SpawnStep, CompleteStep, SendResponseStep
     DEF Worker
<1>3. CASE Frame
  BY <1>3, BeginFrameStep, DeliverStep, MoveOnStep DEF Frame
<1>4. CASE Load
  BY <1>4, BeginLoadStep, MoveOnStep DEF Load
<1>5. CASE UNCHANGED vars
  <2>1. /\ UNCHANGED <<in_flight, req, resp, worker, executing, finished, next_id, pending>>
        /\ UNCHANGED <<ui, call, done, script, loaded>>
    BY <1>5 DEF vars, workerVars, uiVars
  <2>2. TypeOK'
    BY <2>1 DEF TypeOK, InLua
  <2>3. Outstanding' \subseteq Outstanding
    BY <2>1 DEF Outstanding
  <2> QED
    BY <2>1, <2>2, <2>3, QuietStep
<1> QED
  BY <1>1, <1>2, <1>3, <1>4, <1>5 DEF Next

\* The invariant of the bridge.
LEMMA HttpInvariant == Spec => [](TypeOK /\ HttpInv)
<1>1. Init => TypeOK /\ HttpInv
  BY HttpInit
<1>2. TypeOK /\ HttpInv /\ [Next]_vars => (TypeOK /\ HttpInv)'
  BY HttpStep
<1> QED
  BY <1>1, <1>2, PTL DEF Spec

\* Type correctness; in particular the slot counter never goes below zero,
\* where fetch_sub would wrap and every later request be dropped.
THEOREM HttpTypeCorrect == Spec => []TypeOK
BY HttpInvariant, PTL

\* The worker never holds more requests than the cap; no slot is freed twice,
\* nor leaked as long as the worker is there.
THEOREM SlotsHold == Spec => []SlotsHonest
<1>1. HttpInv => SlotsHonest
  BY DEF HttpInv, SlotsHonest
<1> QED
  BY <1>1, HttpInvariant, PTL

\* No answer can reach the callback of another script's request.
THEOREM AnswersMatch == Spec => []AnswerToAsker
<1>1. HttpInv => AnswerToAsker
  BY DEF HttpInv
<1> QED
  BY <1>1, HttpInvariant, PTL

\* A callback waits for exactly one request, which is queued, executed, sent
\* back or drained: it is called at most once, and it is forgotten only with
\* its script or because the worker is gone.
THEOREM CallbacksAwaited == Spec => []CallbackAwaited
<1>1. Init => AwaitedInv
  <2> SUFFICES ASSUME Init
               PROVE  AwaitedInv
    OBVIOUS
  <2>1. TypeOK /\ HttpInv
    BY HttpInit
  <2>2. IsFiniteSet(finished) /\ executing \cap finished = {}
    BY FS_EmptySet DEF Init
  <2>3. Outstanding = {}
    BY DEF Init, Outstanding, ToSet
  <2>4. \A id : Underway(id) = 0
    BY <2>1, <2>2, <2>3, UnderwayFacts
  <2>5. DOMAIN pending = {} /\ call.at = "none" /\ done = << >>
    BY DEF Init, NoCall
  <2> QED
    BY <2>2, <2>4, <2>5 DEF AwaitedInv
<1>2. TypeOK /\ HttpInv /\ AwaitedInv /\ [Next]_vars => AwaitedInv'
  BY AwaitedStep
<1>3. TypeOK /\ AwaitedInv => CallbackAwaited
  <2> SUFFICES ASSUME TypeOK, AwaitedInv, NEW id \in DOMAIN pending
               PROVE  /\ pending[id] = script
                      /\ Underway(id) \in IF worker = "gone" THEN {0, 1} ELSE {1}
    BY DEF CallbackAwaited
  <2>1. id \in 1..MaxId
    BY DEF TypeOK
  <2>2. /\ Cardinality(Queued(req, id)) \in Nat /\ Cardinality(Queued(resp, id)) \in Nat
        /\ Cardinality(Queued(done, id)) \in Nat
        /\ Cardinality(WithId(executing \cup finished, id)) \in Nat
    BY UnderwayFacts DEF AwaitedInv
  <2>3. Underway(id) \in Nat
    BY <2>2 DEF Underway
  <2> QED
    BY <2>1, <2>3 DEF AwaitedInv
<1> QED
  BY <1>1, <1>2, <1>3, HttpInvariant, PTL DEF Spec
=============================================================================
