----------------------------- MODULE ByteBudget -----------------------------
(***************************************************************************)
(* The adaptive byte budget of the poll task (sni-cache/src/engine.rs):    *)
(* how many bytes one bulk MultiRead may ask for, from the round trips the *)
(* batches before it took.  One action per round of the drain loop, from   *)
(* the realtime sub-poll that opens a cycle to the check that closes it;   *)
(* what is read is module PollEngine's subject, here a batch is a number   *)
(* of bytes.                                                               *)
(*                                                                         *)
(* Times are whole milliseconds, as `as_millis` gives them.  The f32       *)
(* throughput is an integer, Scale times the bytes per millisecond, and    *)
(* rtt_alpha is the default 1/4, so divisions round down where the code    *)
(* keeps a fraction.                                                       *)
(***************************************************************************)
EXTENDS Integers

CONSTANTS
  FrameBudgetMs,   \* cfg.frame_budget_ms, at least 1
  MinByteBudget,   \* cfg.min_byte_budget
  MaxByteBudget,   \* cfg.max_byte_budget
  FirstBudget,     \* the 2048 the budget starts from
  MinStep,         \* the 256 it grows by at least
  Links,           \* [latency |-> ms, rate |-> bytes per ms; 0 = any size at once,
                   \*  realtime |-> the controller is polled]
  SmallBatch,      \* bytes of a batch when little is pending
  MaxEvents        \* bound: cycles that do not read full batches to their end

ASSUME BudgetAssumption ==
  /\ FrameBudgetMs \in Nat \ {0}
  /\ MinByteBudget \in Nat \ {0} /\ MaxByteBudget \in Nat
  /\ MinByteBudget <= MaxByteBudget
  /\ FirstBudget \in Nat /\ MinStep \in Nat
  /\ SmallBatch \in Nat \ {0} /\ MaxEvents \in Nat
  /\ Links \subseteq [latency : Nat \ {0}, rate : Nat, realtime : BOOLEAN]

Least(a, b) == IF a < b THEN a ELSE b
Greatest(a, b) == IF a < b THEN b ELSE a
Clamp(x, lo, hi) == Greatest(lo, Least(x, hi))
DivUp(a, b) == (a + b - 1) \div b

None == -1
Scale == 16

-----------------------------------------------------------------------------
(* The pure functions of the budget; a latency floor or a throughput of 0  *)
(* is the code's None.                                                     *)

ObserveLatencyFloor(floor, rtt) ==
  LET sample == Greatest(rtt, 1) IN IF floor = 0 THEN sample ELSE Least(floor, sample)

\* Mutant of BudgetedTransfer: the fixed latency counts as transfer.
BudgetedTransferWhole(rtt, floor) == Greatest(rtt, 1)

\* The part of a round trip that counts as transfer.
BudgetedTransfer(rtt, floor) == Greatest(rtt - floor, 1)

TargetTransfer(floor) == Greatest(FrameBudgetMs - floor, 1)

\* throughput.map(..): the bytes 80 % of a frame carries.
FrameCapacity(throughput) == (throughput * FrameBudgetMs * 4) \div (5 * Scale)

Cut(budget, transfer, floor) ==
  Greatest((budget * TargetTransfer(floor)) \div (2 * transfer), budget \div 5)

Grown(budget, throughput) ==
  LET ceil == IF throughput = 0 THEN budget ELSE FrameCapacity(throughput)
      step == Greatest(MaxByteBudget \div 20, MinStep)
  IN  Least(budget + step, Greatest(ceil, budget))

\* Mutant of NextBudget: an overrun takes one step off instead of cutting.
NextBudgetSubtracts(budget, transfer, throughput, floor) ==
  Clamp(IF transfer > TargetTransfer(floor) THEN budget - MinStep ELSE Grown(budget, throughput),
        MinByteBudget, MaxByteBudget)

NextBudget(budget, transfer, throughput, floor) ==
  Clamp(IF transfer > TargetTransfer(floor) THEN Cut(budget, transfer, floor)
                                            ELSE Grown(budget, throughput),
        MinByteBudget, MaxByteBudget)

\* What is left of the frame for transfer.
Remaining(floor, elapsed) == FrameBudgetMs - elapsed - floor

BudgetForRemainingTime(budget, throughput, floor, elapsed) ==
  LET capped == (throughput * Remaining(floor, elapsed) * 4) \div (5 * Scale)
  IN  IF Remaining(floor, elapsed) <= 0 THEN None
      ELSE IF throughput = 0 THEN budget
      ELSE IF capped = 0 THEN None
      ELSE Least(budget, capped)

PredictedTransfer(bytes, throughput) == Greatest(DivUp(bytes * Scale, throughput), 1)

BatchFitsRemainingTime(bytes, throughput, floor, elapsed) ==
  throughput # 0 => elapsed + floor + PredictedTransfer(bytes, throughput) <= FrameBudgetMs

InitialBudget == Least(Greatest(MinByteBudget, FirstBudget), MaxByteBudget)

-----------------------------------------------------------------------------
(* The poll task.                                                          *)

VARIABLES
  link,               \* the device, how fast it answers, and what is watched
  budget,             \* bytes a bulk MultiRead may have
  throughput,         \* EWMA of bytes per ms of transfer
  latency_floor_ms,   \* the fastest round trip so far
  draining,           \* a cycle is in its drain loop
  elapsed,            \* ms of the cycle
  reads_issued,       \* a batch of this cycle was answered
  last,               \* ghost: what the batch before asked for and took
  events              \* what disturbed the stream of full batches so far

estimate == << budget, throughput, latency_floor_ms >>
vars == << link, budget, throughput, latency_floor_ms, draining, elapsed, reads_issued, last,
           events >>

NoBatch == [bytes |-> 0, offered |-> 0, transfer |-> 0, target |-> 0, forced |-> TRUE]

Init ==
  /\ link \in Links
  /\ budget = InitialBudget /\ throughput = 0 /\ latency_floor_ms = 0
  /\ draining = FALSE /\ elapsed = 0 /\ reads_issued = FALSE
  /\ last = NoBatch /\ events = 0

Disturb == events < MaxEvents /\ events' = events + 1

TransferTime(bytes) == IF link.rate = 0 THEN 0 ELSE DivUp(bytes, link.rate)
RoundTrip(bytes) == link.latency + TransferTime(bytes)

(* A cycle opens with the realtime sub-poll, a few bytes that take the     *)
(* device's latency; one that fails takes its time unmeasured.             *)
StartCycle ==
  /\ ~draining
  /\ draining' = TRUE /\ reads_issued' = FALSE
  /\ elapsed' = IF link.realtime THEN link.latency ELSE 0
  /\ \/ /\ link.realtime
        /\ latency_floor_ms' = ObserveLatencyFloor(latency_floor_ms, link.latency)
        /\ UNCHANGED events
     \/ ~link.realtime /\ UNCHANGED << latency_floor_ms, events >>
     \/ link.realtime /\ Disturb /\ UNCHANGED latency_floor_ms
  /\ UNCHANGED << link, budget, throughput, last >>

\* The bytes the next batch may have; the first of a cycle goes out even
\* when nothing of the frame is left.
IterBudget ==
  LET room == BudgetForRemainingTime(budget, throughput, latency_floor_ms, elapsed)
  IN  IF room = None /\ ~reads_issued THEN budget ELSE room

Fits(bytes) ==
  reads_issued => BatchFitsRemainingTime(bytes, throughput, latency_floor_ms, elapsed)

\* Mutant of Transfer: the batch's own round trip is already in the floor.
TransferFloorFirst(rtt) == BudgetedTransfer(rtt, ObserveLatencyFloor(latency_floor_ms, rtt))

\* What a batch spent on its bytes, beyond the latency known before it.
Transfer(rtt) == BudgetedTransfer(rtt, latency_floor_ms)

(* One round of the drain loop: the batch is sent and answered, floor,     *)
(* throughput and budget follow, and the cycle goes on if another round    *)
(* trip like this one still fits.                                          *)
ReadBatch(bytes) ==
  LET rtt == RoundTrip(bytes)
      transfer == Transfer(rtt)
      floor == ObserveLatencyFloor(latency_floor_ms, rtt)
      measured == (bytes * Scale) \div transfer
      tp == IF throughput = 0 THEN measured ELSE (measured + 3 * throughput) \div 4
  IN  /\ draining /\ IterBudget # None /\ Fits(bytes)
      /\ latency_floor_ms' = floor
      /\ throughput' = tp
      /\ budget' = NextBudget(budget, transfer, tp, floor)
      /\ elapsed' = elapsed + rtt
      /\ reads_issued' = TRUE
      /\ draining' = (elapsed + 2 * rtt < FrameBudgetMs)
      /\ last' = [bytes |-> bytes, offered |-> budget, transfer |-> transfer,
                  target |-> TargetTransfer(floor), forced |-> ~reads_issued]
      /\ link' = link

FullBatch == ReadBatch(IterBudget) /\ UNCHANGED events

(* Little is pending: the batch asks for less than it may.                 *)
SmallRead == SmallBatch < IterBudget /\ ReadBatch(SmallBatch) /\ Disturb

(* No room is left: the cycle publishes and sleeps the rest of its period. *)
OutOfTime ==
  /\ draining /\ (IterBudget = None \/ ~Fits(IterBudget))
  /\ draining' = FALSE
  /\ UNCHANGED << link, estimate, elapsed, reads_issued, last, events >>

(* Nothing is pending, or the read failed: the cycle ends early.           *)
EndsEarly ==
  /\ draining /\ draining' = FALSE /\ Disturb
  /\ UNCHANGED << link, estimate, elapsed, reads_issued, last >>

(* The actor swaps the client between two cycles; everything learnt stays. *)
SwitchDevice ==
  /\ ~draining /\ Disturb
  /\ link' \in Links \ {link}
  /\ UNCHANGED << estimate, draining, elapsed, reads_issued, last >>

Next == StartCycle \/ FullBatch \/ SmallRead \/ OutOfTime \/ EndsEarly \/ SwitchDevice

Spec == Init /\ [][Next]_vars

-----------------------------------------------------------------------------
TypeOK ==
  /\ link \in Links
  /\ budget \in MinByteBudget..MaxByteBudget
  /\ throughput \in Nat /\ latency_floor_ms \in Nat /\ elapsed \in Nat
  /\ draining \in BOOLEAN /\ reads_issued \in BOOLEAN
  /\ last \in [bytes : Nat, offered : Nat, transfer : Nat, target : Nat, forced : BOOLEAN]
  /\ events \in Nat

\* One device, and more requested than a batch carries, since polling began.
Saturated == events = 0

\* On a saturated link only the batch that opens a cycle, which goes out even
\* without room, can spend more than the frame: every later one was small
\* enough, although what it costs is estimated from an average that starts
\* wrong.
OnlyFirstOverruns ==
  Saturated /\ reads_issued /\ ~last.forced => elapsed <= FrameBudgetMs

\* "So the next bulk read fits, instead of repeating the stall": when a full
\* batch overran the transfer time it had, by up to the factor a cut can
\* make good, the batch after it does not, as long as the latency of the
\* link is known and the floor of the budget does not stand in the way.
StallNotRepeated ==
  [][Saturated /\ link.realtime /\ FullBatch
     /\ last.bytes # 0 /\ last.bytes = last.offered
     /\ last.transfer > last.target /\ last.transfer <= 5 * last.target
     /\ budget > MinByteBudget
       => last'.transfer <= last'.target]_vars

\* A link whose answers come with the next emulator frame, however much they
\* carry, is not taken for a slow one: a batch may always have the budget
\* polling starts from, and half of it in the last millisecond of a frame.
\* One latency is excepted, which an even frame has not: when twice of it is a
\* millisecond short of the frame, every cycle opens in its last millisecond,
\* each batch has 80 % of the throughput it then teaches, and they dwindle to
\* a byte before a whole budget goes out again.
FrameBoundLinkFlows ==
  Saturated /\ draining /\ IterBudget # None
    /\ link.realtime /\ link.rate = 0 /\ 2 * link.latency + 1 # FrameBudgetMs
      => IterBudget >= IF Remaining(latency_floor_ms, elapsed) = 1
                       THEN InitialBudget \div 2 ELSE InitialBudget

-----------------------------------------------------------------------------
(* The inductive invariant behind the three, on a saturated link whose     *)
(* latency the realtime sub-poll measures.                                 *)

LatencyLearnt ==
  latency_floor_ms = link.latency \/ (latency_floor_ms = 0 /\ ~draining /\ last = NoBatch)

\* What the last batch took, and what that made of the budget.
LastCounted ==
  last.bytes # 0 =>
    /\ last.transfer = Greatest(TransferTime(last.bytes), 1)
    /\ last.target = TargetTransfer(link.latency)
    /\ last.transfer > last.target =>
         budget = Clamp(Cut(last.offered, last.transfer, link.latency), MinByteBudget, MaxByteBudget)

\* The throughput is never taken for more than the link's.
ThroughputHonest ==
  /\ throughput = 0 => ~reads_issued
  /\ throughput # 0 => throughput >= Scale
  /\ link.rate # 0 => throughput <= link.rate * Scale

\* A frame-bound link's budget never shrinks, and its throughput recovers in
\* every cycle from what the last millisecond of the one before took off it.
FlowKept ==
  link.rate = 0 =>
    /\ budget >= InitialBudget
    /\ draining /\ ~reads_issued => elapsed = link.latency
    /\ 2 * link.latency + 1 # FrameBudgetMs =>
         /\ throughput # 0 => throughput >= 10 * InitialBudget
         /\ draining /\ reads_issued => 2 * throughput >= 23 * InitialBudget - 2

LearntInv ==
  Saturated /\ link.realtime =>
    LatencyLearnt /\ LastCounted /\ ThroughputHonest /\ OnlyFirstOverruns

FlowInv == Saturated /\ link.realtime => FlowKept

=============================================================================
