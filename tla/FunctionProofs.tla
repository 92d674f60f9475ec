--------------------------- MODULE FunctionProofs ---------------------------
(***************************************************************************)
(* Theorems about what MCFunctions checks on a few inputs, for every link  *)
(* (ByteBudget), every window, canvas, label and crop (Geometry,           *)
(* ScreenViews) and every sequence of gfx calls (DrawCalls).               *)
(***************************************************************************)
EXTENDS ByteBudget, ScreenViews, DrawCalls, Facts

-----------------------------------------------------------------------------
(* The byte budget.                                                        *)

\* A quotient of natural numbers is one.
LEMMA QuotientNat ==
  ASSUME NEW a \in Nat, NEW b \in Nat \ {0}
  PROVE  a \div b \in Nat
OBVIOUS

\* So is a product.
LEMMA ProductNat ==
  ASSUME NEW a \in Nat, NEW b \in Nat
  PROVE  a * b \in Nat
OBVIOUS

\* Products keep the order of their factors.
LEMMA ProductGrows ==
  ASSUME NEW a \in Nat, NEW b \in Nat, NEW c \in Nat, a <= b
  PROVE  a * c <= b * c
<1>1. PICK d \in Nat : b = a + d
  <2>1. b - a \in Nat /\ b = a + (b - a)
    OBVIOUS
  <2> QED
    BY <2>1
<1>2. b * c = a * c + d * c
  BY <1>1
<1>3. d * c \in Nat /\ a * c \in Nat
  BY ProductNat
<1> DEFINE p == a * c  q == d * c  r == b * c
<1>4. r = p + q /\ p \in Nat /\ q \in Nat
  BY <1>2, <1>3
<1> HIDE DEF p, q, r
<1>5. p <= r
  BY <1>4
<1> QED
  BY <1>5 DEF p, r

\* And tell it, with a positive factor.
LEMMA ProductTells ==
  ASSUME NEW a \in Nat, NEW b \in Nat, NEW c \in Nat \ {0}, a * c < (b + 1) * c
  PROVE  a <= b
<1> SUFFICES ASSUME b + 1 <= a PROVE FALSE
  OBVIOUS
<1>1. (b + 1) * c <= a * c
  BY ProductGrows
<1>2. (b + 1) * c \in Nat /\ a * c \in Nat
  BY ProductNat
<1> QED
  BY <1>1, <1>2

\* What a quotient is between.
LEMMA QuotientIs ==
  ASSUME NEW a \in Nat, NEW b \in Nat \ {0}
  PROVE  /\ a \div b \in Nat /\ (a \div b) * b \in Nat
         /\ (a \div b) * b <= a /\ a < (a \div b + 1) * b
<1>1. a \div b \in Nat
  BY QuotientNat
<1>2. (a \div b) * b <= a /\ a < (a \div b) * b + b
  OBVIOUS
<1>3. (a \div b + 1) * b = (a \div b) * b + b
  BY <1>1
<1> QED
  BY <1>1, <1>2, <1>3, ProductNat

\* A quotient is the greatest that fits.
LEMMA QuotientAtLeast ==
  ASSUME NEW a \in Nat, NEW b \in Nat \ {0}, NEW k \in Nat, k * b <= a
  PROVE  k <= a \div b
<1> DEFINE q == a \div b
<1>1. q \in Nat /\ a < (q + 1) * b
  BY QuotientIs
<1> HIDE DEF q
<1>2. k * b \in Nat /\ (q + 1) * b \in Nat
  BY <1>1, ProductNat
<1>3. k * b < (q + 1) * b
  BY <1>1, <1>2
<1>4. k <= q
  BY <1>1, <1>3, ProductTells
<1> QED
  BY <1>4 DEF q

\* And no greater than what does not.
LEMMA QuotientAtMost ==
  ASSUME NEW a \in Nat, NEW b \in Nat \ {0}, NEW k \in Nat, a < (k + 1) * b
  PROVE  a \div b <= k
<1> DEFINE q == a \div b
<1>1. q \in Nat /\ q * b <= a /\ q * b \in Nat
  BY QuotientIs
<1> HIDE DEF q
<1>2. (k + 1) * b \in Nat
  BY ProductNat
<1>3. q * b < (k + 1) * b
  BY <1>1, <1>2
<1>4. q <= k
  BY <1>1, <1>3, ProductTells
<1> QED
  BY <1>4 DEF q

\* A time rounded up carries the bytes, and no shorter one does.
LEMMA RoundedUp ==
  ASSUME NEW a \in Nat, NEW b \in Nat \ {0}
  PROVE  DivUp(a, b) \in Nat /\ a <= DivUp(a, b) * b
<1> DEFINE q == (a + b - 1) \div b
<1>1. a + b - 1 \in Nat
  OBVIOUS
<1>2. q \in Nat /\ a + b - 1 < (q + 1) * b
  BY <1>1, QuotientIs
<1>3. DivUp(a, b) = q
  BY DEF DivUp
<1> HIDE DEF q
<1>4. (q + 1) * b = q * b + b /\ q * b \in Nat
  BY <1>2, ProductNat
<1> DEFINE p == q * b
<1>5. p \in Nat /\ a + b - 1 < p + b
  BY <1>2, <1>4
<1> HIDE DEF p
<1>6. a <= p
  BY <1>5
<1> QED
  BY <1>2, <1>3, <1>6 DEF p

\* No more time than what carries them.
LEMMA RoundedUpLeast ==
  ASSUME NEW a \in Nat, NEW b \in Nat \ {0}, NEW k \in Nat, a <= k * b
  PROVE  DivUp(a, b) <= k
<1>1. a + b - 1 \in Nat
  OBVIOUS
<1>2. (k + 1) * b = k * b + b /\ k * b \in Nat
  BY ProductNat
<1> DEFINE p == k * b
<1>3. p \in Nat /\ a <= p /\ (k + 1) * b = p + b
  BY <1>2
<1> HIDE DEF p
<1>4. a + b - 1 < (k + 1) * b
  BY <1>3
<1> QED
  BY <1>1, <1>4, QuotientAtMost DEF DivUp

\* What is clamped is within the bounds, whatever it was.
LEMMA ClampWithin ==
  ASSUME NEW x \in Int, NEW lo \in Int, NEW hi \in Int, lo <= hi
  PROVE  Clamp(x, lo, hi) \in lo..hi
BY DEF Clamp, Greatest, Least

\* A measured transfer time is never zero, which the throughput divides by.
LEMMA TransferPositive ==
  ASSUME NEW rtt \in Int, NEW floor \in Int
  PROVE  BudgetedTransfer(rtt, floor) \in Nat \ {0}
BY DEF BudgetedTransfer, Greatest

\* Nor is the time a batch may take, even when the latency is beyond a frame.
LEMMA TargetPositive ==
  ASSUME NEW floor \in Nat
  PROVE  TargetTransfer(floor) \in Nat \ {0}
BY BudgetAssumption DEF TargetTransfer, Greatest

\* The latency floor is a time.
LEMMA FloorNat ==
  ASSUME NEW floor \in Nat, NEW rtt \in Nat
  PROVE  ObserveLatencyFloor(floor, rtt) \in Nat
BY DEF ObserveLatencyFloor, Greatest, Least

\* The budget of the next batch respects its floor and its ceiling.
LEMMA NextBudgetWithin ==
  ASSUME NEW b \in Nat, NEW transfer \in Nat \ {0}, NEW tp \in Nat, NEW floor \in Nat
  PROVE  NextBudget(b, transfer, tp, floor) \in MinByteBudget..MaxByteBudget
<1>1. TargetTransfer(floor) \in Nat
  BY TargetPositive
<1>2. Cut(b, transfer, floor) \in Int
  <2>1. b * TargetTransfer(floor) \in Nat /\ 2 * transfer \in Nat \ {0}
    BY <1>1, ProductNat
  <2>2. (b * TargetTransfer(floor)) \div (2 * transfer) \in Nat
    BY <2>1, QuotientNat
  <2>3. b \div 5 \in Nat
    BY QuotientNat
  <2> QED
    BY <2>2, <2>3 DEF Cut, Greatest
<1>3. Grown(b, tp) \in Int
  <2>1. tp * FrameBudgetMs \in Nat
    BY ProductNat, BudgetAssumption
  <2>2. FrameCapacity(tp) \in Nat
    BY <2>1, QuotientNat DEF FrameCapacity, Scale
  <2>3. MaxByteBudget \div 20 \in Nat /\ MinStep \in Nat
    BY QuotientNat, BudgetAssumption
  <2> QED
    BY <2>2, <2>3 DEF Grown, Greatest, Least
<1> DEFINE next == IF transfer > TargetTransfer(floor) THEN Cut(b, transfer, floor)
                                                     ELSE Grown(b, tp)
<1>4. next \in Int
  BY <1>2, <1>3
<1>5. NextBudget(b, transfer, tp, floor) = Clamp(next, MinByteBudget, MaxByteBudget)
  BY DEF NextBudget
<1> HIDE DEF next
<1> QED
  BY <1>4, <1>5, ClampWithin, BudgetAssumption

\* A round trip takes time.
LEMMA RoundTripNat ==
  ASSUME NEW bytes \in Nat, link \in Links
  PROVE  RoundTrip(bytes) \in Nat
<1>1. link.latency \in Nat /\ link.rate \in Nat
  BY BudgetAssumption
<1>2. ASSUME link.rate # 0 PROVE DivUp(bytes, link.rate) \in Nat
  <2>1. bytes + link.rate - 1 \in Nat /\ link.rate \in Nat \ {0}
    BY <1>1, <1>2
  <2> QED
    BY <2>1, QuotientNat DEF DivUp
<1> QED
  BY <1>1, <1>2 DEF RoundTrip, TransferTime

\* A batch asks for some bytes, and for no more than the budget.
LEMMA IterBudgetIs ==
  ASSUME TypeOK, IterBudget # None
  PROVE  IterBudget \in Nat \ {0} /\ IterBudget <= budget
<1> DEFINE left == Remaining(latency_floor_ms, elapsed)
           capped == (throughput * left * 4) \div (5 * Scale)
<1>1. budget \in Nat \ {0} /\ throughput \in Nat /\ left \in Int
  BY BudgetAssumption DEF TypeOK, Remaining
<1>2. ASSUME left > 0 PROVE capped \in Nat
  <2>1. throughput * left \in Nat /\ 5 * Scale \in Nat \ {0}
    BY <1>1, <1>2, ProductNat DEF Scale
  <2> QED
    BY <2>1, QuotientNat
<1> DEFINE room == BudgetForRemainingTime(budget, throughput, latency_floor_ms, elapsed)
<1>3. room = None \/ room = budget \/ (left > 0 /\ capped # 0 /\ room = Least(budget, capped))
  <2>1. room = IF left <= 0 THEN None ELSE IF throughput = 0 THEN budget
               ELSE IF capped = 0 THEN None ELSE Least(budget, capped)
    BY DEF BudgetForRemainingTime
  <2> HIDE DEF room, left, capped
  <2> QED
    BY <1>1, <2>1
<1>4. IterBudget = budget \/ (IterBudget = room /\ room # None)
  BY DEF IterBudget
<1> HIDE DEF left, capped, room
<1> QED
  BY <1>1, <1>2, <1>3, <1>4 DEF Least

\* Whatever a batch reads and however long it takes, the estimates stay in
\* their ranges.
LEMMA ReadBatchTyped ==
  ASSUME TypeOK, NEW bytes \in Nat, ReadBatch(bytes)
  PROVE  /\ budget' \in MinByteBudget..MaxByteBudget
         /\ throughput' \in Nat /\ latency_floor_ms' \in Nat /\ elapsed' \in Nat
         /\ draining' \in BOOLEAN /\ reads_issued' \in BOOLEAN /\ link' \in Links
         /\ last' \in [bytes : Nat, offered : Nat, transfer : Nat, target : Nat,
                       forced : BOOLEAN]
<1> DEFINE rtt == RoundTrip(bytes)
           transfer == Transfer(rtt)
           floor == ObserveLatencyFloor(latency_floor_ms, rtt)
           measured == (bytes * Scale) \div transfer
           tp == IF throughput = 0 THEN measured ELSE (measured + 3 * throughput) \div 4
<1>1. budget \in Nat /\ throughput \in Nat /\ latency_floor_ms \in Nat /\ elapsed \in Nat
  BY BudgetAssumption DEF TypeOK
<1>2. rtt \in Nat
  BY RoundTripNat DEF TypeOK
<1>3. transfer \in Nat \ {0}
  <2>1. transfer = BudgetedTransfer(rtt, latency_floor_ms)
    BY DEF Transfer
  <2> HIDE DEF rtt, transfer
  <2> QED
    BY <1>1, <1>2, <2>1, TransferPositive
<1>4. floor \in Nat
  BY <1>1, <1>2, FloorNat
<1>5. tp \in Nat
  <2>1. bytes * Scale \in Nat
    BY DEF Scale
  <2>2. measured \in Nat
    BY <1>3, <2>1, QuotientNat
  <2>3. (measured + 3 * throughput) \div 4 \in Nat
    BY <1>1, <2>2, QuotientNat
  <2> QED
    BY <2>2, <2>3
<1>6. TargetTransfer(floor) \in Nat
  BY <1>4, TargetPositive
<1>7. /\ latency_floor_ms' = floor /\ throughput' = tp
      /\ budget' = NextBudget(budget, transfer, tp, floor)
      /\ elapsed' = elapsed + rtt /\ reads_issued' = TRUE /\ link' = link
      /\ draining' \in BOOLEAN
      /\ last' = [bytes |-> bytes, offered |-> budget, transfer |-> transfer,
                  target |-> TargetTransfer(floor), forced |-> ~reads_issued]
  BY DEF ReadBatch
<1> HIDE DEF rtt, transfer, floor, tp
<1>8. budget' \in MinByteBudget..MaxByteBudget
  BY <1>1, <1>3, <1>4, <1>5, <1>7, NextBudgetWithin
<1> QED
  BY <1>1, <1>2, <1>3, <1>4, <1>5, <1>6, <1>7, <1>8 DEF TypeOK

\* Every step keeps the estimates in their ranges.
LEMMA BudgetStep == TypeOK /\ [Next]_vars => TypeOK'
<1> SUFFICES ASSUME TypeOK, [Next]_vars PROVE TypeOK'
  OBVIOUS
<1>1. CASE StartCycle
  <2>1. /\ link' = link /\ budget' = budget /\ throughput' = throughput /\ last' = last
        /\ draining' \in BOOLEAN /\ reads_issued' \in BOOLEAN
        /\ elapsed' = IF link.realtime THEN link.latency ELSE 0
        /\ \/ latency_floor_ms' = ObserveLatencyFloor(latency_floor_ms, link.latency)
           \/ latency_floor_ms' = latency_floor_ms
        /\ events' = events \/ events' = events + 1
    BY <1>1 DEF StartCycle, Disturb
  <2>2. link.latency \in Nat
    BY BudgetAssumption DEF TypeOK
  <2>3. ObserveLatencyFloor(latency_floor_ms, link.latency) \in Nat
    BY <2>2, FloorNat DEF TypeOK
  <2>4. latency_floor_ms' \in Nat /\ elapsed' \in Nat /\ events' \in Nat
    BY <2>1, <2>2, <2>3 DEF TypeOK
  <2> QED
    BY <2>1, <2>4 DEF TypeOK
<1>2. CASE FullBatch
  <2>1. IterBudget \in Nat
    BY <1>2, IterBudgetIs DEF FullBatch, ReadBatch
  <2>2. ReadBatch(IterBudget) /\ events' = events
    BY <1>2 DEF FullBatch
  <2> QED
    BY <2>1, <2>2, ReadBatchTyped DEF TypeOK
<1>3. CASE SmallRead
  <2>1. ReadBatch(SmallBatch) /\ events' = events + 1
    BY <1>3 DEF SmallRead, Disturb
  <2>2. events' \in Nat
    BY <2>1 DEF TypeOK
  <2> QED
    BY <2>1, <2>2, ReadBatchTyped, BudgetAssumption DEF TypeOK
<1>4. CASE OutOfTime
  BY <1>4 DEF OutOfTime, estimate, TypeOK
<1>5. CASE EndsEarly
  <2>1. /\ UNCHANGED << link, budget, throughput, latency_floor_ms, elapsed, reads_issued, last >>
        /\ draining' \in BOOLEAN /\ events' = events + 1
    BY <1>5 DEF EndsEarly, Disturb, estimate
  <2>2. events' \in Nat
    BY <2>1 DEF TypeOK
  <2> QED
    BY <2>1, <2>2 DEF TypeOK
<1>6. CASE SwitchDevice
  BY <1>6 DEF SwitchDevice, Disturb, estimate, TypeOK
<1>7. CASE UNCHANGED vars
  BY <1>7 DEF vars, TypeOK
<1> QED
  BY <1>1, <1>2, <1>3, <1>4, <1>5, <1>6, <1>7 DEF Next

\* The budget polling starts from respects its floor and its ceiling.
LEMMA BudgetInit == Init => TypeOK
<1>1. InitialBudget \in MinByteBudget..MaxByteBudget
  BY BudgetAssumption DEF InitialBudget, Least, Greatest
<1> QED
  <2>1. NoBatch \in [bytes : Nat, offered : Nat, transfer : Nat, target : Nat, forced : BOOLEAN]
    BY DEF NoBatch
  <2>2. Init => /\ link \in Links /\ budget = InitialBudget /\ last = NoBatch
                /\ throughput = 0 /\ latency_floor_ms = 0 /\ elapsed = 0 /\ events = 0
                /\ draining \in BOOLEAN /\ reads_issued \in BOOLEAN
    BY DEF Init
  <2> QED
    BY <1>1, <2>1, <2>2 DEF TypeOK

\* On any link, after any batches, failures and changes of device, the budget
\* stays between its floor and its ceiling and no estimate goes below zero:
\* next_budget neither overshoots nor divides by nothing.
THEOREM BudgetBounded == Spec => []TypeOK
BY BudgetInit, BudgetStep, PTL DEF Spec

-----------------------------------------------------------------------------
(* What a link teaches: the estimates of a saturated link whose latency    *)
(* the realtime sub-poll measures.                                         *)

\* The types of a link.
LEMMA LinkTyped ==
  ASSUME link \in Links
  PROVE  link.latency \in Nat \ {0} /\ link.rate \in Nat /\ link.realtime \in BOOLEAN
BY BudgetAssumption

\* The time a transfer takes is the least that carries the bytes.
LEMMA TransferTimeIs ==
  ASSUME link \in Links, NEW bytes \in Nat \ {0}
  PROVE  /\ TransferTime(bytes) \in Nat
         /\ link.rate = 0 => TransferTime(bytes) = 0
         /\ bytes <= TransferTime(bytes) * link.rate \/ link.rate = 0
         /\ \A k \in Nat : bytes <= k * link.rate => TransferTime(bytes) <= k
         /\ TransferTime(bytes) <= bytes
<1>1. link.rate \in Nat
  BY LinkTyped
<1>2. CASE link.rate = 0
  BY <1>2 DEF TransferTime
<1>3. CASE link.rate # 0
  <2>1. TransferTime(bytes) = DivUp(bytes, link.rate) /\ link.rate \in Nat \ {0}
    BY <1>1, <1>3 DEF TransferTime
  <2>2. /\ TransferTime(bytes) \in Nat /\ bytes <= TransferTime(bytes) * link.rate
        /\ \A k \in Nat : bytes <= k * link.rate => TransferTime(bytes) <= k
    BY <2>1, RoundedUp, RoundedUpLeast
  <2>3. bytes <= bytes * link.rate
    <3>1. 1 * bytes <= link.rate * bytes
      BY <2>1, ProductGrows
    <3> QED
      BY <2>1, <3>1
  <2> QED
    BY <1>3, <2>2, <2>3
<1> QED
  BY <1>2, <1>3

\* What a throughput that is not too high predicts is not too short.
LEMMA PredictedCovers ==
  ASSUME NEW bytes \in Nat \ {0}, NEW tp \in Nat \ {0}, NEW rate \in Nat \ {0}, tp <= rate * Scale
  PROVE  DivUp(bytes, rate) <= PredictedTransfer(bytes, tp)
<1> DEFINE time == DivUp(bytes * Scale, tp)
<1>1. bytes * Scale \in Nat /\ rate * Scale \in Nat
  BY DEF Scale
<1>2. time \in Nat /\ bytes * Scale <= time * tp
  BY <1>1, RoundedUp
<1>3. PredictedTransfer(bytes, tp) >= time /\ PredictedTransfer(bytes, tp) \in Nat
  BY <1>2 DEF PredictedTransfer, Greatest
<1> HIDE DEF time
<1>4. tp * time <= (rate * Scale) * time
  BY <1>1, <1>2, ProductGrows
<1>5. time * tp = tp * time /\ (rate * Scale) * time = (time * rate) * Scale
  BY <1>2 DEF Scale
<1>6. tp * time \in Nat /\ time * rate \in Nat
  BY <1>2, ProductNat
<1>7. bytes <= time * rate
  BY <1>1, <1>2, <1>4, <1>5, <1>6 DEF Scale
<1>8. DivUp(bytes, rate) <= time /\ DivUp(bytes, rate) \in Nat
  BY <1>2, <1>7, RoundedUpLeast, RoundedUp
<1> QED
  BY <1>2, <1>3, <1>8

\* What a batch leaves behind, with the latency known.
LEMMA BatchFacts ==
  ASSUME TypeOK, LatencyLearnt, NEW bytes \in Nat \ {0}, ReadBatch(bytes)
  PROVE  LET x == TransferTime(bytes)
             transfer == Greatest(x, 1)
             measured == (bytes * Scale) \div transfer
         IN  /\ x \in Nat /\ transfer \in Nat \ {0} /\ transfer <= bytes
             /\ link' = link /\ latency_floor_ms = link.latency /\ latency_floor_ms' = link.latency
             /\ last' = [bytes |-> bytes, offered |-> budget, transfer |-> transfer,
                         target |-> TargetTransfer(link.latency), forced |-> ~reads_issued]
             /\ throughput' = IF throughput = 0 THEN measured ELSE (measured + 3 * throughput) \div 4
             /\ budget' = NextBudget(budget, transfer, throughput', link.latency)
             /\ elapsed' = elapsed + link.latency + x
             /\ reads_issued' = TRUE
             /\ draining' = (elapsed + 2 * (link.latency + x) < FrameBudgetMs)
<1> DEFINE x == TransferTime(bytes)
           rtt == RoundTrip(bytes)
<1>1. link \in Links /\ link.latency \in Nat \ {0}
  BY LinkTyped DEF TypeOK
<1>2. x \in Nat /\ x <= bytes
  BY <1>1, TransferTimeIs
<1>3. rtt = link.latency + x
  BY DEF RoundTrip
<1>4. draining /\ latency_floor_ms = link.latency
  BY DEF ReadBatch, LatencyLearnt
<1> HIDE DEF x
<1>5. Transfer(rtt) = Greatest(x, 1)
  BY <1>1, <1>2, <1>3, <1>4 DEF Transfer, BudgetedTransfer, Greatest
<1>6. ObserveLatencyFloor(latency_floor_ms, rtt) = link.latency
  BY <1>1, <1>2, <1>3, <1>4 DEF ObserveLatencyFloor, Greatest, Least
<1>7. Greatest(x, 1) \in Nat \ {0} /\ Greatest(x, 1) <= bytes
  BY <1>2 DEF Greatest
<1>8. elapsed \in Nat
  BY DEF TypeOK
<1> HIDE DEF rtt
<1>9. /\ latency_floor_ms' = ObserveLatencyFloor(latency_floor_ms, rtt)
      /\ throughput' = IF throughput = 0 THEN (bytes * Scale) \div Transfer(rtt)
                       ELSE ((bytes * Scale) \div Transfer(rtt) + 3 * throughput) \div 4
      /\ budget' = NextBudget(budget, Transfer(rtt), throughput',
                              ObserveLatencyFloor(latency_floor_ms, rtt))
      /\ elapsed' = elapsed + rtt /\ reads_issued' = TRUE
      /\ draining' = (elapsed + 2 * rtt < FrameBudgetMs)
      /\ last' = [bytes |-> bytes, offered |-> budget, transfer |-> Transfer(rtt),
                  target |-> TargetTransfer(ObserveLatencyFloor(latency_floor_ms, rtt)),
                  forced |-> ~reads_issued]
      /\ link' = link
  BY DEF ReadBatch, rtt
<1>10. elapsed' = elapsed + link.latency + x
  BY <1>1, <1>2, <1>3, <1>8, <1>9
<1> QED
  BY <1>2, <1>3, <1>4, <1>5, <1>6, <1>7, <1>9, <1>10 DEF x

\* The throughput of a batch is at least a byte per millisecond and at most
\* the link's, and so is the average.
LEMMA MeasuredHonest ==
  ASSUME link \in Links, NEW bytes \in Nat \ {0}, NEW transfer \in Nat \ {0},
         transfer = Greatest(TransferTime(bytes), 1), transfer <= bytes
  PROVE  LET measured == (bytes * Scale) \div transfer
         IN  /\ measured \in Nat /\ measured >= Scale
             /\ link.rate # 0 => measured <= link.rate * Scale
             /\ link.rate = 0 => measured = bytes * Scale
<1> DEFINE measured == (bytes * Scale) \div transfer
<1>1. bytes * Scale \in Nat /\ measured \in Nat /\ link.rate \in Nat
  <2>1. bytes * Scale \in Nat
    BY DEF Scale
  <2> QED
    BY <2>1, LinkTyped, QuotientNat
<1>2. measured >= Scale
  <2>1. Scale * transfer <= bytes * Scale
    BY DEF Scale
  <2> QED
    BY <1>1, <2>1, QuotientAtLeast DEF Scale
<1>3. ASSUME link.rate # 0
      PROVE  measured <= link.rate * Scale
  <2>1. bytes <= TransferTime(bytes) * link.rate /\ TransferTime(bytes) \in Nat
    BY <1>3, TransferTimeIs
  <2>2. TransferTime(bytes) <= transfer
    BY <2>1 DEF Greatest
  <2>3. TransferTime(bytes) * link.rate <= transfer * link.rate
    BY <1>1, <2>1, <2>2, ProductGrows
  <2> DEFINE p == transfer * link.rate
  <2>4. p \in Nat /\ bytes <= p
    BY <1>1, <2>1, <2>3, ProductNat
  <2>5. (link.rate * Scale + 1) * transfer = p * Scale + transfer
    BY <1>1 DEF Scale
  <2> HIDE DEF p
  <2>6. bytes * Scale < (link.rate * Scale + 1) * transfer
    BY <2>4, <2>5 DEF Scale
  <2>7. link.rate * Scale \in Nat
    BY <1>1 DEF Scale
  <2> QED
    BY <1>1, <2>6, <2>7, QuotientAtMost
<1>4. ASSUME link.rate = 0
      PROVE  measured = bytes * Scale
  <2>1. transfer = 1
    BY <1>4, TransferTimeIs DEF Greatest
  <2> QED
    BY <1>1, <2>1
<1> HIDE DEF measured
<1>5. /\ measured \in Nat /\ measured >= Scale
      /\ link.rate # 0 => measured <= link.rate * Scale
      /\ link.rate = 0 => measured = bytes * Scale
  BY <1>1, <1>2, <1>3, <1>4
<1> QED
  BY <1>5 DEF measured

\* A batch that fits by the prediction ends within the frame.
LEMMA FittingBatch ==
  ASSUME TypeOK, LatencyLearnt, draining, ThroughputHonest, reads_issued,
         NEW bytes \in Nat \ {0}, Fits(bytes)
  PROVE  elapsed + link.latency + TransferTime(bytes) <= FrameBudgetMs
<1>1. /\ latency_floor_ms = link.latency /\ throughput \in Nat \ {0}
      /\ link.latency \in Nat /\ link.rate \in Nat /\ elapsed \in Nat /\ FrameBudgetMs \in Nat
  BY LinkTyped, BudgetAssumption DEF TypeOK, LatencyLearnt, ThroughputHonest
<1>2. elapsed + link.latency + PredictedTransfer(bytes, throughput) <= FrameBudgetMs
  BY <1>1 DEF Fits, BatchFitsRemainingTime
<1>3. TransferTime(bytes) \in Nat /\ (link.rate = 0 => TransferTime(bytes) = 0)
  BY TransferTimeIs DEF TypeOK
<1>4. PredictedTransfer(bytes, throughput) \in Nat
  <2>1. bytes * Scale \in Nat
    BY DEF Scale
  <2> QED
    BY <1>1, <2>1, RoundedUp DEF PredictedTransfer, Greatest
<1>5. TransferTime(bytes) <= PredictedTransfer(bytes, throughput)
  <2>1. CASE link.rate = 0
    BY <1>3, <1>4, <2>1
  <2>2. CASE link.rate # 0
    BY <1>1, <2>2, PredictedCovers DEF TransferTime, ThroughputHonest
  <2> QED
    BY <2>1, <2>2
<1> QED
  BY <1>1, <1>2, <1>3, <1>4, <1>5

\* Clamping keeps what is above the floor from growing.
LEMMA CutKept ==
  ASSUME NEW b \in MinByteBudget..MaxByteBudget, NEW cut \in Nat,
         b = Clamp(cut, MinByteBudget, MaxByteBudget), b > MinByteBudget
  PROVE  b <= cut
BY BudgetAssumption DEF Clamp, Greatest, Least

\* A cut halves what a batch takes, or leaves a fifth of it.
LEMMA CutFits ==
  ASSUME NEW offered \in Nat, NEW transfer \in Nat \ {0}, NEW floor \in Nat, NEW rate \in Nat,
         offered <= transfer * rate, transfer <= 5 * TargetTransfer(floor),
         NEW bytes \in Nat, bytes <= Cut(offered, transfer, floor)
  PROVE  Cut(offered, transfer, floor) \in Nat /\ bytes <= TargetTransfer(floor) * rate
<1> DEFINE target == TargetTransfer(floor)
           half == (offered * target) \div (2 * transfer)
           fifth == offered \div 5
<1>1. target \in Nat \ {0}
  BY TargetPositive
<1> HIDE DEF target
<1>2. offered * target \in Nat /\ 2 * transfer \in Nat \ {0} /\ target * rate \in Nat
      /\ transfer * rate \in Nat
  BY <1>1, ProductNat
<1>3. half \in Nat /\ fifth \in Nat
  BY <1>2, QuotientNat
<1>4. Cut(offered, transfer, floor) = Greatest(half, fifth)
  BY DEF Cut, target
<1>5. half <= target * rate
  <2>1. offered * target <= (transfer * rate) * target
    BY <1>1, <1>2, ProductGrows
  <2> DEFINE p == target * rate
             q == transfer * p
  <2>2. (transfer * rate) * target = q /\ q \in Nat
    BY <1>1, <1>2, ProductNat
  <2>3. (p + 1) * (2 * transfer) = 2 * q + 2 * transfer
    BY <1>1, <1>2
  <2>4. p \in Nat
    BY <1>2
  <2> HIDE DEF p, q
  <2>5. offered * target < (p + 1) * (2 * transfer)
    BY <1>2, <2>1, <2>2, <2>3
  <2>6. half <= p
    BY <1>2, <2>4, <2>5, QuotientAtMost
  <2> QED
    BY <2>6 DEF p
<1>6. fifth <= target * rate
  <2>1. transfer * rate <= (5 * target) * rate
    BY <1>1, ProductGrows DEF target
  <2>2. (5 * target) * rate = 5 * (target * rate)
    BY <1>1
  <2> DEFINE p == target * rate
  <2>3. p \in Nat /\ offered <= 5 * p
    BY <1>2, <2>1, <2>2
  <2> HIDE DEF p
  <2>4. fifth <= p
    BY <2>3
  <2> QED
    BY <2>4 DEF p
<1> HIDE DEF half, fifth
<1>7. bytes <= target * rate
  BY <1>2, <1>3, <1>4, <1>5, <1>6 DEF Greatest
<1> QED
  BY <1>3, <1>4, <1>7 DEF Greatest, target

\* What a full batch teaches is honest.
LEMMA FullBatchLearns ==
  ASSUME TypeOK, LatencyLearnt, ThroughputHonest, FullBatch
  PROVE  LatencyLearnt' /\ LastCounted' /\ ThroughputHonest'
<1> DEFINE bytes == IterBudget
           x == TransferTime(bytes)
           transfer == Greatest(x, 1)
           measured == (bytes * Scale) \div transfer
<1>1. bytes \in Nat \ {0} /\ ReadBatch(bytes)
  BY IterBudgetIs DEF FullBatch, ReadBatch
<1>2. link \in Links /\ link.latency \in Nat /\ link.rate \in Nat /\ throughput \in Nat
  BY LinkTyped DEF TypeOK
<1> HIDE DEF bytes
<1>3. /\ x \in Nat /\ transfer \in Nat \ {0} /\ transfer <= bytes
      /\ link' = link /\ latency_floor_ms' = link.latency
      /\ last' = [bytes |-> bytes, offered |-> budget, transfer |-> transfer,
                  target |-> TargetTransfer(link.latency), forced |-> ~reads_issued]
      /\ throughput' = IF throughput = 0 THEN measured ELSE (measured + 3 * throughput) \div 4
      /\ budget' = NextBudget(budget, transfer, throughput', link.latency)
  BY <1>1, BatchFacts
<1>4. LatencyLearnt'
  BY <1>3 DEF LatencyLearnt
<1>5. LastCounted'
  <2>2. last'.transfer = Greatest(TransferTime(last.bytes)', 1)
    <3>1. last'.bytes = bytes /\ last'.transfer = transfer
      BY <1>3
    <3>2. TransferTime(last.bytes)' = x
      BY <1>3, <3>1 DEF TransferTime
    <3> QED
      BY <3>1, <3>2
  <2>3. last'.target = TargetTransfer(link'.latency)
    BY <1>3
  <2>4. last'.transfer > last'.target =>
          budget' = Clamp(Cut(last'.offered, last'.transfer, link'.latency),
                          MinByteBudget, MaxByteBudget)
    <3> HIDE DEF transfer
    <3> QED
      BY <1>3 DEF NextBudget
  <2> QED
    BY <2>2, <2>3, <2>4 DEF LastCounted
<1>6. ThroughputHonest'
  <2>1. /\ measured \in Nat /\ measured >= Scale
        /\ link.rate # 0 => measured <= link.rate * Scale
    BY <1>1, <1>2, <1>3, MeasuredHonest
  <2> HIDE DEF measured, transfer, x
  <2> DEFINE cap == link.rate * Scale
  <2>2. cap \in Nat
    BY <1>2 DEF Scale
  <2>3. /\ throughput # 0 => throughput >= Scale
        /\ link.rate # 0 => throughput <= cap
    BY DEF ThroughputHonest
  <2>4. link.rate # 0 => measured <= cap
    BY <2>1
  <2> HIDE DEF cap
  <2>5. throughput' >= Scale /\ throughput' # 0 /\ (link.rate # 0 => throughput' <= cap)
    <3>1. CASE throughput = 0
      BY <1>3, <2>1, <2>4, <3>1 DEF Scale
    <3>2. CASE throughput # 0
      <4>1. throughput' = (measured + 3 * throughput) \div 4
        BY <1>3, <3>2
      <4>2. (measured + 3 * throughput) \div 4 >= 16
        BY <1>2, <2>1, <2>3, <3>2 DEF Scale
      <4>3. link.rate # 0 => (measured + 3 * throughput) \div 4 <= cap
        BY <1>2, <2>1, <2>2, <2>3, <2>4
      <4> QED
        BY <4>1, <4>2, <4>3 DEF Scale
    <3> QED
      BY <3>1, <3>2
  <2> QED
    BY <1>3, <2>5 DEF ThroughputHonest, cap
<1> QED
  BY <1>4, <1>5, <1>6

\* What the next batch of a frame-bound link may have.
LEMMA FlowOffers ==
  ASSUME TypeOK, LatencyLearnt, FlowKept, draining, IterBudget # None,
         link.rate = 0, 2 * link.latency + 1 # FrameBudgetMs,
         ThroughputHonest
  PROVE  /\ Remaining(latency_floor_ms, elapsed) # 1 => IterBudget >= InitialBudget
         /\ Remaining(latency_floor_ms, elapsed) = 1 =>
              reads_issued /\ IterBudget >= InitialBudget \div 2
<1> DEFINE left == Remaining(latency_floor_ms, elapsed)
           capped == (throughput * left * 4) \div (5 * Scale)
           room == BudgetForRemainingTime(budget, throughput, latency_floor_ms, elapsed)
           start == InitialBudget
<1>1. /\ budget \in Nat \ {0} /\ throughput \in Nat /\ left \in Int /\ elapsed \in Nat
      /\ link.latency \in Nat /\ FrameBudgetMs \in Nat /\ latency_floor_ms = link.latency
  BY BudgetAssumption, LinkTyped DEF TypeOK, Remaining, LatencyLearnt
<1>2. start \in Nat
  BY BudgetAssumption DEF InitialBudget, Least, Greatest
<1>3. left = FrameBudgetMs - elapsed - link.latency
  BY <1>1 DEF Remaining
<1>4. room = IF left <= 0 THEN None ELSE IF throughput = 0 THEN budget
             ELSE IF capped = 0 THEN None ELSE Least(budget, capped)
  BY DEF BudgetForRemainingTime
<1>5. IterBudget = budget \/ (IterBudget = room /\ room # None)
  BY DEF IterBudget
<1>6. budget >= start /\ (throughput # 0 => throughput >= 10 * start)
  BY DEF FlowKept
<1>7. ~reads_issued => left # 1
  <2>1. ~reads_issued => elapsed = link.latency
    BY DEF FlowKept
  <2> HIDE DEF left
  <2> QED
    BY <1>1, <1>3, <2>1
<1>8. ASSUME left >= 2, throughput # 0
      PROVE  capped >= start /\ capped \in Nat
  <2>1. 2 * throughput <= left * throughput /\ left \in Nat
    <3>1. left \in Nat
      BY <1>1, <1>8
    <3> HIDE DEF left
    <3> QED
      BY <1>1, <1>8, <3>1, ProductGrows
  <2> DEFINE p == throughput * left
  <2>2. p \in Nat /\ 2 * throughput <= p
    <3> HIDE DEF left
    <3> QED
      BY <1>1, <2>1, ProductNat
  <2>3. throughput * left * 4 = p * 4
    OBVIOUS
  <2> HIDE DEF p
  <2>4. start <= (p * 4) \div 80 /\ (p * 4) \div 80 \in Nat
    BY <1>1, <1>2, <1>6, <1>8, <2>2
  <2> QED
    BY <2>3, <2>4 DEF Scale
<1>9. ASSUME left = 1, throughput # 0
      PROVE  capped >= start \div 2 /\ capped \in Nat
  <2>1. throughput * left * 4 = throughput * 4
    BY <1>1, <1>9
  <2>2. start \div 2 <= (throughput * 4) \div 80 /\ (throughput * 4) \div 80 \in Nat
    BY <1>1, <1>2, <1>6, <1>9
  <2> QED
    BY <2>1, <2>2 DEF Scale
<1>10. start \div 2 \in Nat /\ start \div 2 <= start
  BY <1>2
<1> DEFINE half == start \div 2
<1> HIDE DEF left, capped, room, start, half
<1>11. left # 1 => IterBudget >= start
  <2>1. room # None => room = budget \/ (left >= 1 /\ throughput # 0 /\ room = Least(budget, capped))
    BY <1>1, <1>4
  <2> QED
    BY <1>1, <1>2, <1>5, <1>6, <1>8, <2>1 DEF Least
<1>12. left = 1 => IterBudget >= half
  <2>1. room # None => room = budget \/ (throughput # 0 /\ room = Least(budget, capped))
    BY <1>1, <1>4
  <2>2. half \in Nat /\ half <= start
    BY <1>10 DEF half
  <2>3. left = 1 /\ throughput # 0 => capped >= half /\ capped \in Nat
    BY <1>9 DEF half
  <2> QED
    BY <1>1, <1>2, <1>5, <1>6, <2>1, <2>2, <2>3 DEF Least
<1> QED
  BY <1>7, <1>11, <1>12 DEF left, start, half

\* A frame-bound link's budget stays, and its throughput recovers.
LEMMA FlowStep ==
  ASSUME 6 <= FirstBudget, 6 <= MaxByteBudget,
         TypeOK, LatencyLearnt, FlowKept, ThroughputHonest, FullBatch
  PROVE  FlowKept'
<1> DEFINE bytes == IterBudget
           start == InitialBudget
           left == Remaining(latency_floor_ms, elapsed)
<1>1. bytes \in Nat \ {0} /\ ReadBatch(bytes) /\ draining /\ IterBudget # None
  BY IterBudgetIs DEF FullBatch, ReadBatch
<1>2. /\ link \in Links /\ link.latency \in Nat \ {0} /\ throughput \in Nat /\ elapsed \in Nat
      /\ budget \in MinByteBudget..MaxByteBudget /\ MinByteBudget \in Nat /\ MaxByteBudget \in Nat
      /\ FrameBudgetMs \in Nat /\ MinStep \in Nat /\ latency_floor_ms = link.latency
  BY <1>1, LinkTyped, BudgetAssumption DEF TypeOK, LatencyLearnt
<1>3. start \in Nat /\ start >= 6
  BY BudgetAssumption DEF InitialBudget, Least, Greatest
<1>4. link' = link
  BY <1>1, BatchFacts
<1>5. SUFFICES ASSUME link.rate = 0 PROVE FlowKept'
  BY <1>4 DEF FlowKept
<1>6. /\ throughput' = IF throughput = 0 THEN bytes * Scale
                       ELSE (bytes * Scale + 3 * throughput) \div 4
      /\ budget' = NextBudget(budget, 1, throughput', link.latency)
      /\ elapsed' = elapsed + link.latency
      /\ reads_issued' = TRUE
      /\ draining' = (elapsed + 2 * link.latency < FrameBudgetMs)
  <2>1. TransferTime(bytes) = 0
    BY <1>1, <1>2, <1>5, TransferTimeIs
  <2>2. Greatest(TransferTime(bytes), 1) = 1 /\ link.latency + TransferTime(bytes) = link.latency
    BY <1>2, <2>1 DEF Greatest
  <2>3. (bytes * Scale) \div 1 = bytes * Scale
    BY <1>1 DEF Scale
  <2>4. elapsed + link.latency + TransferTime(bytes) = elapsed + link.latency
    BY <1>2, <2>1
  <2> HIDE DEF bytes
  <2> QED
    BY <1>1, <2>2, <2>3, <2>4, BatchFacts
<1>7. throughput' \in Nat
  BY <1>1, <1>2, <1>6 DEF Scale
<1>8. budget' >= start
  <2>1. TargetTransfer(link.latency) \in Nat \ {0}
    BY <1>2, TargetPositive
  <2>2. budget' = Clamp(Grown(budget, throughput'), MinByteBudget, MaxByteBudget)
    BY <1>6, <2>1 DEF NextBudget
  <2>3. FrameCapacity(throughput') \in Nat
    <3>1. throughput' * FrameBudgetMs \in Nat
      BY <1>2, <1>7, ProductNat
    <3>2. throughput' * FrameBudgetMs * 4 \in Nat /\ 5 * Scale \in Nat \ {0}
      BY <3>1 DEF Scale
    <3> QED
      BY <3>2, QuotientNat DEF FrameCapacity
  <2>4. Grown(budget, throughput') >= budget /\ Grown(budget, throughput') \in Nat
    <3>1. MaxByteBudget \div 20 \in Nat
      BY <1>2
    <3> QED
      BY <1>2, <1>7, <2>3, <3>1 DEF Grown, Least, Greatest
  <2>5. budget' >= budget /\ budget' \in Nat
    BY <1>2, <2>2, <2>4, BudgetAssumption DEF Clamp, Least, Greatest
  <2>6. budget >= start
    BY <1>5 DEF FlowKept
  <2> QED
    BY <1>2, <1>3, <2>5, <2>6
<1>9. ASSUME 2 * link.latency + 1 # FrameBudgetMs
      PROVE  /\ throughput' >= 10 * start
             /\ draining' => 2 * throughput' >= 23 * start - 2
  <2>1. /\ left # 1 => bytes >= start
        /\ left = 1 => reads_issued /\ bytes >= start \div 2
    BY <1>1, <1>5, <1>9, FlowOffers
  <2>2. /\ throughput # 0 => throughput >= 10 * start
        /\ reads_issued => 2 * throughput >= 23 * start - 2
    BY <1>1, <1>5, <1>9 DEF FlowKept
  <2>3. left = FrameBudgetMs - elapsed - link.latency
    BY <1>2 DEF Remaining
  <2>4. draining' => left # 1
    <3>1. draining' => elapsed + 2 * link.latency < FrameBudgetMs
      BY <1>6
    <3> HIDE DEF left
    <3>2. left = 1 => ~(elapsed + 2 * link.latency < FrameBudgetMs)
      BY <1>2, <2>3
    <3> QED
      BY <3>1, <3>2
  <2> HIDE DEF left, bytes, start
  <2>5. CASE throughput = 0
    <3>1. left # 1
      BY <2>1, <2>5 DEF ThroughputHonest
    <3> QED
      BY <1>1, <1>3, <1>6, <2>1, <2>5, <3>1 DEF Scale
  <2>6. CASE throughput # 0 /\ left # 1
    <3>1. throughput' = (bytes * 16 + 3 * throughput) \div 4
      BY <1>6, <2>6 DEF Scale
    <3>2. bytes >= start /\ throughput >= 10 * start
      BY <2>1, <2>2, <2>6
    <3>3. 2 * ((bytes * 16 + 3 * throughput) \div 4) >= 23 * start - 2
      BY <1>1, <1>2, <1>3, <3>2
    <3> QED
      BY <1>3, <1>7, <3>1, <3>3
  <2>7. CASE throughput # 0 /\ left = 1
    <3>1. throughput' = (bytes * 16 + 3 * throughput) \div 4
      BY <1>6, <2>7 DEF Scale
    <3>2. bytes >= start \div 2 /\ 2 * throughput >= 23 * start - 2
      BY <2>1, <2>2, <2>7
    <3>3. (bytes * 16 + 3 * throughput) \div 4 >= 10 * start
      BY <1>1, <1>2, <1>3, <3>2
    <3> QED
      BY <2>4, <2>7, <3>1, <3>3
  <2> QED
    BY <2>5, <2>6, <2>7
<1> QED
  BY <1>4, <1>6, <1>8, <1>9 DEF FlowKept

\* While nothing disturbs it, polling goes on in full batches on one link.
LEMMA SaturatedSteps ==
  ASSUME TypeOK, [Next]_vars, Saturated', link'.realtime
  PROVE  /\ Saturated /\ link' = link /\ link.realtime
         /\ StartCycle \/ FullBatch \/ OutOfTime \/ UNCHANGED vars
         /\ StartCycle => latency_floor_ms' = ObserveLatencyFloor(latency_floor_ms, link.latency)
<1>1. events \in Nat /\ events' = 0
  BY DEF TypeOK, Saturated
<1>2. ~SmallRead /\ ~EndsEarly /\ ~SwitchDevice
  BY <1>1 DEF SmallRead, EndsEarly, SwitchDevice, Disturb
<1>3. StartCycle \/ FullBatch \/ OutOfTime \/ UNCHANGED vars
  BY <1>2 DEF Next
<1>4. ASSUME StartCycle
      PROVE  /\ events' = events /\ link' = link
             /\ latency_floor_ms' = ObserveLatencyFloor(latency_floor_ms, link.latency)
  BY <1>1, <1>4 DEF StartCycle, Disturb
<1>5. CASE StartCycle
  BY <1>1, <1>3, <1>4, <1>5 DEF Saturated
<1>6. CASE FullBatch
  <2>1. events' = events /\ link' = link
    BY <1>6 DEF FullBatch, ReadBatch
  <2> QED
    BY <1>1, <1>3, <1>4, <2>1 DEF Saturated
<1>7. CASE OutOfTime \/ UNCHANGED vars
  <2>1. events' = events /\ link' = link
    BY <1>7 DEF OutOfTime, vars
  <2> QED
    BY <1>1, <1>3, <1>4, <2>1 DEF Saturated
<1> QED
  BY <1>3, <1>5, <1>6, <1>7

\* The sub-poll that opens a cycle measures the latency.
LEMMA CycleStarts ==
  ASSUME TypeOK, LatencyLearnt, StartCycle, link' = link, link.realtime,
         latency_floor_ms' = ObserveLatencyFloor(latency_floor_ms, link.latency)
  PROVE  /\ latency_floor_ms' = link.latency /\ elapsed' = link.latency
         /\ draining' /\ reads_issued' = FALSE
         /\ UNCHANGED <<link, budget, throughput, last>>
<1>1. link.latency \in Nat \ {0}
  BY LinkTyped DEF TypeOK
<1>2. latency_floor_ms' = link.latency
  BY <1>1 DEF LatencyLearnt, ObserveLatencyFloor, Greatest, Least
<1> QED
  BY <1>2 DEF StartCycle

\* A cycle begins with what it has learnt and a batch adds to it.
LEMMA LearntStep == TypeOK /\ LearntInv /\ [Next]_vars => LearntInv'
<1> SUFFICES ASSUME TypeOK, LearntInv, [Next]_vars, Saturated', link'.realtime
             PROVE  LatencyLearnt' /\ LastCounted' /\ ThroughputHonest' /\ OnlyFirstOverruns'
  BY DEF LearntInv
<1>1. /\ Saturated /\ link' = link /\ link.realtime
      /\ StartCycle \/ FullBatch \/ OutOfTime \/ UNCHANGED vars
      /\ StartCycle => latency_floor_ms' = ObserveLatencyFloor(latency_floor_ms, link.latency)
  BY SaturatedSteps
<1>2. LatencyLearnt /\ LastCounted /\ ThroughputHonest /\ OnlyFirstOverruns
  BY <1>1 DEF LearntInv
<1>3. CASE StartCycle
  <2>1. /\ latency_floor_ms' = link.latency /\ reads_issued' = FALSE
        /\ UNCHANGED <<link, budget, throughput, last>>
    BY <1>1, <1>2, <1>3, CycleStarts
  <2> QED
    BY <1>2, <2>1 DEF LatencyLearnt, LastCounted, ThroughputHonest, OnlyFirstOverruns, TransferTime
<1>4. CASE FullBatch
  <2>1. LatencyLearnt' /\ LastCounted' /\ ThroughputHonest'
    BY <1>2, <1>4, FullBatchLearns
  <2>2. ASSUME ~last'.forced
        PROVE  elapsed' <= FrameBudgetMs
    <3> DEFINE bytes == IterBudget
    <3>1. bytes \in Nat \ {0} /\ ReadBatch(bytes) /\ draining /\ Fits(bytes)
      BY <1>4, IterBudgetIs DEF FullBatch, ReadBatch
    <3> HIDE DEF bytes
    <3> DEFINE transfer == Greatest(TransferTime(bytes), 1)
    <3>2. /\ elapsed' = elapsed + link.latency + TransferTime(bytes)
          /\ last' = [bytes |-> bytes, offered |-> budget, transfer |-> transfer,
                      target |-> TargetTransfer(link.latency), forced |-> ~reads_issued]
      BY <1>2, <3>1, BatchFacts
    <3>3. reads_issued
      BY <2>2, <3>2
    <3> QED
      BY <1>2, <3>1, <3>2, <3>3, FittingBatch
  <2> QED
    BY <2>1, <2>2 DEF OnlyFirstOverruns
<1>5. CASE OutOfTime \/ UNCHANGED vars
  <2>1. /\ UNCHANGED <<link, budget, throughput, last, latency_floor_ms, elapsed, reads_issued>>
        /\ draining' => draining
    BY <1>5 DEF OutOfTime, estimate, vars
  <2>2. Saturated' = Saturated
    BY <1>1
  <2> QED
    BY <1>1, <1>2, <2>1
    DEF LatencyLearnt, LastCounted, ThroughputHonest, OnlyFirstOverruns, TransferTime
<1> QED
  BY <1>1, <1>3, <1>4, <1>5

\* Nothing learnt, nothing wrong.
LEMMA LearntInit == Init => LearntInv
<1> SUFFICES ASSUME Init PROVE LearntInv
  OBVIOUS
<1>1. link.rate \in Nat /\ link.rate * Scale \in Nat
  BY LinkTyped DEF Init, Scale
<1>2. last.bytes = 0 /\ throughput = 0 /\ latency_floor_ms = 0 /\ ~draining /\ ~reads_issued
      /\ last = NoBatch
  BY DEF Init, NoBatch
<1> QED
  BY <1>1, <1>2 DEF LearntInv, LatencyLearnt, LastCounted, ThroughputHonest, OnlyFirstOverruns

\* What a saturated link that is polled for the controller teaches is right.
LEMMA LearntInvariant == Spec => []LearntInv
BY LearntInit, LearntStep, BudgetBounded, PTL DEF Spec

\* On a saturated link that is polled for the controller, only the batch that
\* opens a cycle can overrun the frame (engine.rs batch_fits_remaining_time),
\* whatever its latency, its rate and the frame.
THEOREM LaterBatchesFit == Spec => [](link.realtime => OnlyFirstOverruns)
<1>1. LearntInv => (link.realtime => OnlyFirstOverruns)
  BY DEF LearntInv, OnlyFirstOverruns
<1> QED
  BY <1>1, LearntInvariant, PTL

-----------------------------------------------------------------------------
\* After a stall the batch the cut budget allows is carried in time.
LEMMA CutBatchFits ==
  ASSUME TypeOK, LatencyLearnt, LastCounted, FullBatch,
         last.bytes # 0, last.bytes = last.offered,
         last.transfer > last.target, last.transfer <= 5 * last.target, budget > MinByteBudget
  PROVE  last'.transfer <= last'.target
<1> DEFINE bytes == IterBudget
           target == TargetTransfer(link.latency)
<1>1. bytes \in Nat \ {0} /\ ReadBatch(bytes) /\ bytes <= budget
  BY IterBudgetIs DEF FullBatch, ReadBatch
<1>2. /\ link \in Links /\ link.latency \in Nat /\ link.rate \in Nat
      /\ last.bytes \in Nat \ {0} /\ budget \in MinByteBudget..MaxByteBudget
  BY LinkTyped DEF TypeOK
<1>3. target \in Nat \ {0}
  BY <1>2, TargetPositive
<1> HIDE DEF bytes
<1>4. /\ last'.transfer = Greatest(TransferTime(bytes), 1) /\ last'.target = target
      /\ TransferTime(bytes) \in Nat
  <2> DEFINE transfer == Greatest(TransferTime(bytes), 1)
  <2>1. last' = [bytes |-> bytes, offered |-> budget, transfer |-> transfer, target |-> target,
                 forced |-> ~reads_issued]
    BY <1>1, BatchFacts
  <2> QED
    BY <1>1, <1>2, <2>1, TransferTimeIs
<1>5. /\ last.transfer = Greatest(TransferTime(last.bytes), 1) /\ last.target = target
      /\ budget = Clamp(Cut(last.offered, last.transfer, link.latency),
                        MinByteBudget, MaxByteBudget)
  BY DEF LastCounted
<1> HIDE DEF target
<1>6. /\ TransferTime(last.bytes) \in Nat
      /\ link.rate = 0 => TransferTime(last.bytes) = 0
      /\ last.bytes <= TransferTime(last.bytes) * link.rate \/ link.rate = 0
  BY <1>2, TransferTimeIs
<1>7. /\ last.transfer = TransferTime(last.bytes) /\ last.transfer \in Nat \ {0} /\ link.rate # 0
      /\ last.offered <= last.transfer * link.rate /\ last.offered \in Nat
  BY <1>2, <1>3, <1>5, <1>6 DEF Greatest
<1> DEFINE cut == Cut(last.offered, last.transfer, link.latency)
<1>8. cut \in Nat
  <2>1. last.offered * target \in Nat /\ 2 * last.transfer \in Nat \ {0}
    BY <1>3, <1>7, ProductNat
  <2>2. (last.offered * target) \div (2 * last.transfer) \in Nat /\ last.offered \div 5 \in Nat
    BY <1>7, <2>1, QuotientNat
  <2> QED
    BY <2>2 DEF Cut, Greatest, target
<1>9. bytes <= cut
  <2>1. budget = Clamp(cut, MinByteBudget, MaxByteBudget)
    BY <1>5
  <2> HIDE DEF cut
  <2>2. budget <= cut
    BY <1>2, <1>8, <2>1, CutKept
  <2> QED
    BY <1>1, <1>2, <1>8, <2>2, BudgetAssumption
<1>10. bytes <= target * link.rate
  BY <1>1, <1>2, <1>5, <1>7, <1>9, CutFits DEF target
<1>11. TransferTime(bytes) <= target
  BY <1>1, <1>2, <1>3, <1>10, TransferTimeIs
<1> QED
  BY <1>3, <1>4, <1>11 DEF Greatest

\* The cut after a stall is deep enough: "a big spike drops the budget hard
\* so the next bulk read fits, instead of repeating the stall" (engine.rs
\* next_budget), on every link whose latency is measured.
THEOREM StallsEnd == Spec => StallNotRepeated
<1>1. TypeOK /\ LearntInv /\ [Next]_vars =>
        [Saturated /\ link.realtime /\ FullBatch
           /\ last.bytes # 0 /\ last.bytes = last.offered
           /\ last.transfer > last.target /\ last.transfer <= 5 * last.target
           /\ budget > MinByteBudget
             => last'.transfer <= last'.target]_vars
  BY CutBatchFits DEF LearntInv
<1> QED
  BY <1>1, BudgetBounded, LearntInvariant, PTL DEF Spec, StallNotRepeated

-----------------------------------------------------------------------------
\* A frame-bound link is never taken for a slow one.
LEMMA FlowInvStep ==
  ASSUME 6 <= FirstBudget, 6 <= MaxByteBudget
  PROVE  TypeOK /\ LearntInv /\ FlowInv /\ [Next]_vars => FlowInv'
<1> SUFFICES ASSUME TypeOK, LearntInv, FlowInv, [Next]_vars, Saturated', link'.realtime
             PROVE  FlowKept'
  BY DEF FlowInv
<1>1. /\ Saturated /\ link' = link /\ link.realtime
      /\ StartCycle \/ FullBatch \/ OutOfTime \/ UNCHANGED vars
      /\ StartCycle => latency_floor_ms' = ObserveLatencyFloor(latency_floor_ms, link.latency)
  BY SaturatedSteps
<1>2. LatencyLearnt /\ ThroughputHonest /\ FlowKept
  BY <1>1 DEF LearntInv, FlowInv
<1>3. CASE StartCycle
  <2>1. /\ elapsed' = link.latency /\ reads_issued' = FALSE
        /\ UNCHANGED <<link, budget, throughput>>
    BY <1>1, <1>2, <1>3, CycleStarts
  <2> QED
    BY <1>2, <2>1 DEF FlowKept
<1>4. CASE FullBatch
  BY <1>2, <1>4, FlowStep
<1>5. CASE OutOfTime \/ UNCHANGED vars
  <2>1. /\ UNCHANGED <<link, budget, throughput, elapsed, reads_issued>>
        /\ draining' => draining
    BY <1>5 DEF OutOfTime, estimate, vars
  <2> QED
    BY <1>2, <2>1 DEF FlowKept
<1> QED
  BY <1>1, <1>3, <1>4, <1>5

\* A link whose answers wait for the emulator's next frame is not throttled
\* (engine.rs budget_for_remaining_time), whatever its latency but one, once
\* polling starts from more than a few bytes: the code starts from 2048.
THEOREM FrameBoundFlows ==
  ASSUME 6 <= FirstBudget, 6 <= MaxByteBudget
  PROVE  Spec => []FrameBoundLinkFlows
<1>1. Init => FlowInv
  <2>1. InitialBudget \in Nat
    BY BudgetAssumption DEF InitialBudget, Least, Greatest
  <2> QED
    BY <2>1 DEF Init, FlowInv, FlowKept
<1>2. TypeOK /\ LearntInv /\ FlowInv => FrameBoundLinkFlows
  <2> SUFFICES ASSUME TypeOK, LearntInv, FlowInv, Saturated, draining, IterBudget # None,
                      link.realtime, link.rate = 0, 2 * link.latency + 1 # FrameBudgetMs
               PROVE  IterBudget >= IF Remaining(latency_floor_ms, elapsed) = 1
                                    THEN InitialBudget \div 2 ELSE InitialBudget
    BY DEF FrameBoundLinkFlows
  <2> QED
    BY FlowOffers DEF LearntInv, FlowInv
<1> QED
  BY <1>1, <1>2, FlowInvStep, BudgetBounded, LearntInvariant, PTL DEF Spec

-----------------------------------------------------------------------------
(* The screen.                                                             *)

AreaSet == [x : Int, y : Int, w : Nat \ {0}, h : Nat \ {0}]

\* A picture of num * c that begins at `from` lies in the middle of the window's
\* a pixels at `at`, and fills them if c * num is a * den.
Centred(at, a, c, den, num, from) ==
  /\ 2 * SNES_W * den * at <= from
  /\ from + 2 * SNES_W * num * c <= 2 * SNES_W * den * (at + a)
  /\ from - 2 * SNES_W * den * at
       = 2 * SNES_W * den * (at + a) - (from + 2 * SNES_W * num * c)
  /\ c * num = a * den => from = 2 * SNES_W * den * at

\* Where fit puts a canvas that is not larger than the window, it is centred.
LEMMA Centring ==
  ASSUME NEW at \in Int, NEW a \in Nat, NEW c \in Nat, NEW den \in Nat, NEW num \in Nat,
         c * num <= a * den,
         NEW from \in Int, from = SNES_W * (den * (2 * at + a) - c * num)
  PROVE  Centred(at, a, c, den, num, from)
<1> DEFINE p == den * at
           q == den * a
           r == num * c
<1>1. p \in Int /\ q \in Int /\ r \in Int
  OBVIOUS
<1>2. /\ den * (2 * at + a) = 2 * p + q /\ c * num = r /\ a * den = q
      /\ den * (at + a) = p + q
  OBVIOUS
<1>3. /\ 2 * SNES_W * den * at = 512 * p /\ 2 * SNES_W * num * c = 512 * r
      /\ 2 * SNES_W * den * (at + a) = 512 * (p + q)
  BY <1>2 DEF SNES_W
<1>4. from = 256 * (2 * p + q - r) /\ r <= q
  BY <1>2 DEF SNES_W
<1> HIDE DEF p, q, r
<1> QED
  BY <1>1, <1>2, <1>3, <1>4 DEF Centred

\* Whatever the window and the canvas, fit shows the canvas whole, centred,
\* and touching two opposite edges of the window.
THEOREM FitShowsWhole ==
  ASSUME NEW area \in AreaSet, NEW canvas \in Sizes
  PROVE  ShownWhole(area, Fit(area, canvas))
<1> DEFINE vp == Fit(area, canvas)
           wide == WidthBinds(area, canvas)
           num == IF wide THEN area.w ELSE area.h
           den == IF wide THEN canvas.w ELSE canvas.h
<1>1. /\ area.x \in Int /\ area.y \in Int /\ area.w \in Nat /\ area.h \in Nat
      /\ canvas.w \in Nat /\ canvas.h \in Nat /\ num \in Nat /\ den \in Nat
  BY DEF AreaSet, Sizes
<1>2. /\ vp.num = num /\ vp.den = den /\ vp.canvas = canvas
      /\ vp.x = SNES_W * (den * (2 * area.x + area.w) - canvas.w * num)
      /\ vp.y = SNES_W * (den * (2 * area.y + area.h) - canvas.h * num)
  BY DEF Fit
<1>3. /\ canvas.w * num <= area.w * den /\ canvas.h * num <= area.h * den
      /\ canvas.w * num = area.w * den \/ canvas.h * num = area.h * den
  BY <1>1 DEF WidthBinds
<1>4. vp.x \in Int /\ vp.y \in Int
  BY <1>1, <1>2 DEF SNES_W
<1>5. /\ Unit(vp) = 2 * SNES_W * den
      /\ ScreenRect(vp) = [left |-> vp.x, right |-> vp.x + 2 * SNES_W * num * canvas.w,
                          top |-> vp.y, bottom |-> vp.y + 2 * SNES_W * num * canvas.h]
  BY <1>2 DEF Unit, ScreenRect, Rect, Length
<1> HIDE DEF vp, num, den
<1>6. Centred(area.x, area.w, canvas.w, den, num, vp.x)
  BY <1>1, <1>2, <1>3, <1>4, Centring
<1>7. Centred(area.y, area.h, canvas.h, den, num, vp.y)
  BY <1>1, <1>2, <1>3, <1>4, Centring
<1> QED
  BY <1>3, <1>5, <1>6, <1>7 DEF vp, Centred, ShownWhole

\* The pointer over a painted canvas point is inside and maps back to that
\* point, and it is inside nowhere but over the painted canvas.
THEOREM PointerFindsPoint ==
  ASSUME NEW area \in AreaSet, NEW canvas \in Sizes
  PROVE  LET vp == Fit(area, canvas)
         IN  /\ \A i \in 0..canvas.w, j \in 0..canvas.h :
                  ScreenToCanvas(vp, Pt(vp, [x |-> i, y |-> j]))
                    = [inside |-> TRUE, x |-> Length(vp, i), y |-> Length(vp, j)]
             /\ \A p \in [x : Int, y : Int] :
                  ScreenToCanvas(vp, p).inside <=> Covers(ScreenRect(vp), p)
<1> DEFINE vp == Fit(area, canvas)
           unit == 2 * SNES_W * vp.num
<1>1. vp.num \in Nat \ {0} /\ vp.x \in Int /\ vp.y \in Int /\ vp.canvas = canvas
  BY DEF Fit, AreaSet, Sizes, SNES_W
<1>2. canvas.w \in Nat /\ canvas.h \in Nat
  BY DEF Sizes
<1>3. unit \in Nat \ {0} /\ \A n : Length(vp, n) = unit * n
  BY <1>1 DEF Length, SNES_W
<1> HIDE DEF vp, unit
<1>4. ASSUME NEW n \in Nat, NEW m \in 0..n
      PROVE  unit * m \in Nat /\ unit * n \in Nat /\ unit * m <= unit * n
  BY <1>3, <1>4
<1>5. ASSUME NEW i \in 0..canvas.w, NEW j \in 0..canvas.h
      PROVE  ScreenToCanvas(vp, Pt(vp, [x |-> i, y |-> j]))
               = [inside |-> TRUE, x |-> Length(vp, i), y |-> Length(vp, j)]
  <2>1. /\ unit * i \in Nat /\ unit * canvas.w \in Nat /\ unit * i <= unit * canvas.w
        /\ unit * j \in Nat /\ unit * canvas.h \in Nat /\ unit * j <= unit * canvas.h
    BY <1>2, <1>4, <1>5
  <2> DEFINE p == Pt(vp, [x |-> i, y |-> j])
  <2>2. p.x - vp.x = unit * i /\ p.y - vp.y = unit * j
    BY <1>1, <1>3, <2>1 DEF Pt
  <2> HIDE DEF p
  <2>3. ~(\/ vp.num <= 0 \/ p.x - vp.x < 0 \/ p.y - vp.y < 0
          \/ p.x - vp.x > unit * canvas.w \/ p.y - vp.y > unit * canvas.h)
    BY <1>1, <2>1, <2>2
  <2>4. ScreenToCanvas(vp, p) = [inside |-> TRUE, x |-> p.x - vp.x, y |-> p.y - vp.y]
    BY <1>1, <1>3, <2>3 DEF ScreenToCanvas
  <2> QED
    BY <1>3, <2>2, <2>4 DEF p
<1>6. ASSUME NEW p \in [x : Int, y : Int]
      PROVE  ScreenToCanvas(vp, p).inside <=> Covers(ScreenRect(vp), p)
  <2>1. unit * canvas.w \in Nat /\ unit * canvas.h \in Nat
    BY <1>2, <1>4
  <2>2. ScreenRect(vp) = [left |-> vp.x, right |-> vp.x + unit * canvas.w,
                         top |-> vp.y, bottom |-> vp.y + unit * canvas.h]
    BY <1>1, <1>3 DEF ScreenRect, Rect
  <2>3. ScreenToCanvas(vp, p).inside
          <=> ~(\/ p.x - vp.x < 0 \/ p.y - vp.y < 0
                \/ p.x - vp.x > unit * canvas.w \/ p.y - vp.y > unit * canvas.h)
    BY <1>1, <1>3 DEF ScreenToCanvas
  <2> QED
    BY <1>1, <2>1, <2>2, <2>3 DEF Covers
<1> QED
  BY <1>5, <1>6 DEF vp

\* Crops from two sides leave at least one pixel, and none beyond the frame.
LEMMA EdgesWithin ==
  ASSUME NEW size \in Nat \ {0}, NEW before \in Nat, NEW after \in Nat
  PROVE  LET e == CropEdges(size, before, after)
         IN  e.from \in 0..(size - 1) /\ e.to \in (e.from + 1)..size
BY DEF CropEdges, Lesser

\* However far the settings crop a capture frame, a part of it remains, within
\* the frame, and in keep-aspect mode it has the proportions of the canvas.
THEOREM CropShowsPart ==
  ASSUME NEW frame \in Sizes, NEW canvas \in Sizes,
         NEW crop \in [left : Nat, right : Nat, top : Nat, bottom : Nat,
                       mode : {"aspect", "stretch"}]
  PROVE  ShowsPart(frame, crop, canvas, CaptureUvRect(frame, crop, canvas))
<1> DEFINE across == CropEdges(frame.w, crop.left, crop.right)
           down == CropEdges(frame.h, crop.top, crop.bottom)
           a == canvas.h * across.from
           b == canvas.h * across.to
           c == canvas.w * down.from
           d == canvas.w * down.to
           w == (across.to - across.from) * canvas.h
           h == (down.to - down.from) * canvas.w
           dx == IF crop.mode = "aspect" /\ w > h THEN w - h ELSE 0
           dy == IF crop.mode = "aspect" /\ w < h THEN h - w ELSE 0
<1>1. /\ frame.w \in Nat \ {0} /\ frame.h \in Nat \ {0}
      /\ canvas.w \in Nat \ {0} /\ canvas.h \in Nat \ {0}
      /\ crop.left \in Nat /\ crop.right \in Nat /\ crop.top \in Nat /\ crop.bottom \in Nat
  BY DEF Sizes
<1>2. /\ across.from \in 0..(frame.w - 1) /\ across.to \in (across.from + 1)..frame.w
      /\ down.from \in 0..(frame.h - 1) /\ down.to \in (down.from + 1)..frame.h
  BY <1>1, EdgesWithin
<1>3. CaptureUvRect(frame, crop, canvas)
        = [left |-> 2 * a + dx, right |-> 2 * b - dx, top |-> 2 * c + dy, bottom |-> 2 * d - dy]
  BY <1>1, <1>2 DEF CaptureUvRect
<1> HIDE DEF across, down
<1>4. /\ a \in Nat /\ b \in Nat /\ b <= canvas.h * frame.w /\ w = b - a /\ a < b
  BY <1>1, <1>2
<1>5. /\ c \in Nat /\ d \in Nat /\ d <= canvas.w * frame.h /\ h = d - c /\ c < d
  BY <1>1, <1>2
<1> HIDE DEF a, b, c, d, w, h
<1>6. /\ 0 <= 2 * a + dx /\ 2 * a + dx < 2 * b - dx /\ 2 * b - dx <= 2 * b
      /\ 0 <= 2 * c + dy /\ 2 * c + dy < 2 * d - dy /\ 2 * d - dy <= 2 * d
      /\ crop.mode = "aspect" => (2 * b - dx) - (2 * a + dx) = (2 * d - dy) - (2 * c + dy)
  BY <1>4, <1>5
<1>7. /\ 2 * canvas.h * frame.w = 2 * (canvas.h * frame.w)
      /\ 2 * canvas.w * frame.h = 2 * (canvas.w * frame.h)
      /\ canvas.h * frame.w \in Nat /\ canvas.w * frame.h \in Nat
  BY <1>1
<1> HIDE DEF dx, dy
<1>8. dx \in Int /\ dy \in Int
  BY <1>4, <1>5 DEF dx, dy
<1> QED
  BY <1>3, <1>4, <1>5, <1>6, <1>7, <1>8 DEF ShowsPart

-----------------------------------------------------------------------------
(* Every view.                                                             *)

\* The choices a view is made of.
LabelSet == [at : [x : Int, y : Int], font : {"small", "normal"}, scale : Nat \ {0},
             text : [widest : Nat, lines : Nat], align : Alignments, valign : Alignments]
SizingSet == [mode : {"game", "screen"}, size : Nat \ {0}]

ViewIsMade ==
  \/ view = NoView
  \/ \E area \in AreaSet, canvas \in Sizes, label \in LabelSet, sizing \in SizingSet,
        pointer \in [x : Int, y : Int] :
       view = [of |-> "view", vp |-> Fit(area, canvas), area |-> area, label |-> label,
               sizing |-> sizing, pointer |-> pointer]
  \/ \E frame \in Sizes, canvas \in Sizes,
        crop \in [left : Nat, right : Nat, top : Nat, bottom : Nat, mode : {"aspect", "stretch"}] :
       view = [of |-> "crop", frame |-> frame, crop |-> crop, canvas |-> canvas,
               uv |-> CaptureUvRect(frame, crop, canvas)]

\* A view stays what it was made.
LEMMA ViewStep == ViewIsMade /\ [ViewNext]_view => ViewIsMade'
<1> SUFFICES ASSUME ViewIsMade, [ViewNext]_view PROVE ViewIsMade'
  OBVIOUS
<1>1. CASE UNCHANGED view
  BY <1>1 DEF ViewIsMade
<1>2. ASSUME NEW a \in Areas, NEW c \in Canvases, NEW l \in Labels, NEW s \in Sizings,
             NEW p \in Pointers, PickView(a, c, l, s, p)
      PROVE  ViewIsMade'
  <2>1. /\ a \in AreaSet /\ c \in Sizes /\ l \in LabelSet /\ s \in SizingSet
        /\ p \in [x : Int, y : Int]
    BY ScreenAssumption DEF AreaSet, LabelSet, SizingSet
  <2> QED
    BY <1>2, <2>1 DEF PickView, ViewIsMade
<1>3. ASSUME NEW f \in Frames, NEW c \in Crops, NEW k \in Canvases, PickCrop(f, c, k)
      PROVE  ViewIsMade'
  <2>1. /\ f \in Sizes /\ k \in Sizes
        /\ c \in [left : Nat, right : Nat, top : Nat, bottom : Nat, mode : {"aspect", "stretch"}]
    BY ScreenAssumption
  <2> QED
    BY <1>3, <2>1 DEF PickCrop, ViewIsMade
<1> QED
  BY <1>1, <1>2, <1>3 DEF ViewNext

\* A label's box is where the script lays it out, moved by the letterbox.
LEMMA BoxIsLaidOut ==
  ASSUME NEW vp, NEW sizing \in SizingSet, NEW label \in LabelSet,
         vp.x \in Int, vp.y \in Int, vp.num \in Nat, vp.den \in Nat, vp.canvas.w \in Nat
  PROVE  LET box == TextBox(vp, sizing, label)
             own == LaidOut(vp, sizing, label)
         IN  /\ own.left \in Int /\ own.right \in Int /\ own.top \in Int /\ own.bottom \in Int
             /\ box.left = vp.x + own.left /\ box.right = vp.x + own.right
             /\ box.top = vp.y + own.top /\ box.bottom = vp.y + own.bottom
<1> DEFINE px == FontPixel(vp, sizing, label.scale)
           w == TextWidth(label.font, label.text) * px
           h == TextHeight(label.font, label.text) * px
           x == Length(vp, label.at.x)
           y == Length(vp, label.at.y)
<1>1. px \in Int
  <2>1. 2 * vp.num * vp.canvas.w * sizing.size * label.scale \in Int
    BY DEF SizingSet, LabelSet
  <2>2. Unit(vp) \in Int /\ Unit(vp) * sizing.size * label.scale \in Int
    BY DEF SizingSet, LabelSet, Unit, SNES_W
  <2> QED
    BY <2>1, <2>2 DEF FontPixel, Larger
<1>2. TextWidth(label.font, label.text) \in Int /\ TextHeight(label.font, label.text) \in Int
  BY DEF LabelSet, TextWidth, TextHeight, Advance, LineAdvance, Width, Height, Larger
<1> HIDE DEF px
<1>3. w \in Int /\ h \in Int
  BY <1>1, <1>2
<1>4. x \in Int /\ y \in Int
  BY DEF Length, SNES_W, LabelSet
<1>5. label.align \in Alignments /\ label.valign \in Alignments
  BY DEF LabelSet
<1> HIDE DEF w, h, x, y
<1>6. ASSUME NEW size \in Int, NEW align \in Alignments, NEW at
      PROVE  /\ Anchor(align, size) \in Int
             /\ Length(vp, at) \in Int => Back(vp, at, size, align) = Length(vp, at) - Anchor(align, size)
  <2>1. size \div 2 \in Int
    OBVIOUS
  <2>2. CASE align = "start"
    BY <2>2 DEF Anchor, Back
  <2>3. CASE align = "middle"
    BY <2>1, <2>3 DEF Anchor, Back
  <2>4. CASE align = "end"
    BY <2>4 DEF Anchor, Back
  <2> QED
    BY <2>2, <2>3, <2>4 DEF Alignments
<1> DEFINE a == Anchor(label.align, w)
           b == Anchor(label.valign, h)
<1>7. a \in Int /\ b \in Int
  BY <1>3, <1>5, <1>6
<1>8. TextBox(vp, sizing, label)
         = [left |-> vp.x + x - a, right |-> vp.x + x - a + w,
            top |-> vp.y + y - b, bottom |-> vp.y + y - b + h]
  <2> DEFINE at == Pt(vp, label.at)
  <2>1. at.x = vp.x + x /\ at.y = vp.y + y
    BY DEF Pt, x, y
  <2>2. TextBox(vp, sizing, label) = Rect([x |-> at.x - a, y |-> at.y - b], w, h)
    BY DEF TextBox, px, w, h
  <2> HIDE DEF at, a, b
  <2> QED
    BY <1>3, <1>4, <1>7, <2>1, <2>2 DEF Rect
<1>9. LaidOut(vp, sizing, label)
        = [left |-> Back(vp, label.at.x, w, label.align), right |-> Back(vp, label.at.x, w, label.align) + w,
           top |-> Back(vp, label.at.y, h, label.valign), bottom |-> Back(vp, label.at.y, h, label.valign) + h]
  BY DEF LaidOut, px, w, h, Rect
<1>10. Back(vp, label.at.x, w, label.align) = x - a /\ Back(vp, label.at.y, h, label.valign) = y - b
  <2>1. Length(vp, label.at.x) \in Int /\ Length(vp, label.at.y) \in Int
    BY <1>4 DEF x, y
  <2> QED
    BY <1>3, <1>5, <1>6, <2>1 DEF x, y
<1> HIDE DEF a, b
<1> QED
  BY <1>3, <1>4, <1>7, <1>8, <1>9, <1>10

\* Whatever the window, the canvas, the label, the size of text and the
\* pointer: the canvas is shown whole, and the pointer is inside, and on a
\* label, exactly when it is over what is painted (paint.rs fit,
\* screen_to_canvas, paint_text).
THEOREM PointerHits == ViewSpec => []PointerHitsWhatIsPainted
<1>1. ViewInit => ViewIsMade
  BY DEF ViewInit, ViewIsMade
<1>2. ViewIsMade => PointerHitsWhatIsPainted
  <2> SUFFICES ASSUME ViewIsMade, view.of = "view"
               PROVE  LET vp == view.vp
                          p == PointerAt(vp)
                          hit == ScreenToCanvas(vp, p)
                      IN  /\ ShownWhole(view.area, vp)
                          /\ hit.inside <=> Covers(ScreenRect(vp), p)
                          /\ hit.inside => (Covers(TextBox(vp, view.sizing, view.label), p)
                                              <=> Covers(LaidOut(vp, view.sizing, view.label), hit))
    BY DEF PointerHitsWhatIsPainted
  <2>1. PICK area \in AreaSet, canvas \in Sizes, label \in LabelSet, sizing \in SizingSet,
             pointer \in [x : Int, y : Int] :
          view = [of |-> "view", vp |-> Fit(area, canvas), area |-> area, label |-> label,
                  sizing |-> sizing, pointer |-> pointer]
    BY DEF ViewIsMade, NoView
  <2> DEFINE vp == Fit(area, canvas)
             p == [x |-> pointer.x * Unit(vp), y |-> pointer.y * Unit(vp)]
             hit == ScreenToCanvas(vp, p)
  <2>2. /\ vp.x \in Int /\ vp.y \in Int /\ vp.num \in Nat /\ vp.den \in Nat
        /\ vp.canvas.w \in Nat /\ Unit(vp) \in Int
    BY DEF Fit, AreaSet, Sizes, SNES_W, Unit
  <2>3. PointerAt(view.vp) = p /\ view.vp = vp
    BY <2>1 DEF PointerAt
  <2>4. p \in [x : Int, y : Int]
    BY <2>2
  <2>5. ShownWhole(area, vp)
    BY FitShowsWhole
  <2> HIDE DEF vp
  <2>6. hit.inside <=> Covers(ScreenRect(vp), p)
    <3> HIDE DEF p
    <3> QED
      BY <2>4, PointerFindsPoint DEF vp
  <2>7. hit.inside => hit.x = p.x - vp.x /\ hit.y = p.y - vp.y
    BY DEF ScreenToCanvas
  <2> HIDE DEF p, hit
  <2>8. hit.inside => (Covers(TextBox(vp, sizing, label), p) <=> Covers(LaidOut(vp, sizing, label), hit))
    <3> DEFINE box == TextBox(vp, sizing, label)
               own == LaidOut(vp, sizing, label)
    <3>1. /\ own.left \in Int /\ own.right \in Int /\ own.top \in Int /\ own.bottom \in Int
          /\ box.left = vp.x + own.left /\ box.right = vp.x + own.right
          /\ box.top = vp.y + own.top /\ box.bottom = vp.y + own.bottom
      BY <2>2, BoxIsLaidOut
    <3> HIDE DEF box, own
    <3>2. hit.inside => (Covers(box, p) <=> Covers(own, hit))
      BY <2>2, <2>4, <2>7, <3>1 DEF Covers
    <3> QED
      BY <3>2 DEF box, own
  <2>9. view.area = area /\ view.sizing = sizing /\ view.label = label
    BY <2>1
  <2> QED
    BY <2>3, <2>5, <2>6, <2>8, <2>9 DEF hit
<1> QED
  BY <1>1, <1>2, ViewStep, PTL DEF ViewSpec

\* Whatever the capture frame, the crops of the settings and the canvas: a
\* part of the frame is shown, and in keep-aspect mode in the canvas's
\* proportions (main.rs capture_uv_rect).
THEOREM CropsShowFrame == ViewSpec => []CropInFrame
<1>1. ViewInit => ViewIsMade
  BY DEF ViewInit, ViewIsMade
<1>2. ViewIsMade => CropInFrame
  <2> SUFFICES ASSUME ViewIsMade, view.of = "crop"
               PROVE  ShowsPart(view.frame, view.crop, view.canvas, view.uv)
    BY DEF CropInFrame
  <2>1. PICK frame \in Sizes, canvas \in Sizes,
             crop \in [left : Nat, right : Nat, top : Nat, bottom : Nat,
                       mode : {"aspect", "stretch"}] :
          view = [of |-> "crop", frame |-> frame, crop |-> crop, canvas |-> canvas,
                  uv |-> CaptureUvRect(frame, crop, canvas)]
    BY DEF ViewIsMade, NoView
  <2>2. ShowsPart(frame, crop, canvas, CaptureUvRect(frame, crop, canvas))
    BY CropShowsPart
  <2> QED
    BY <2>1, <2>2
<1> QED
  BY <1>1, <1>2, ViewStep, PTL DEF ViewSpec

-----------------------------------------------------------------------------
(* The calls of a frame.                                                   *)

\* Calls known by number are a finite set.
LEMMA NamedFacts ==
  ASSUME NEW cs, NEW names, NEW a \in Nat, NEW b \in Nat
  PROVE  /\ IsFiniteSet(Named(cs, names, a, b)) /\ Cardinality(Named(cs, names, a, b)) \in Nat
         /\ Named(cs, names, a, b) \in SUBSET Nat
<1> DEFINE S == Named(cs, names, a, b)
<1>1. S \in SUBSET Nat /\ \A s \in S : s <= b
  BY DEF Named
<1> HIDE DEF S
<1>2. IsFiniteSet(S)
  BY <1>1, FS_BoundedSetOfNaturals
<1>3. Cardinality(S) \in Nat
  BY <1>2, FS_CardinalityType
<1> QED
  BY <1>1, <1>2, <1>3 DEF S

\* One more call adds itself if it has one of the names.
LEMMA NamedNext ==
  ASSUME NEW cs, NEW names, NEW a \in Nat, NEW b \in Nat, NEW c \in Nat, c = b + 1, a <= c
  PROVE  /\ cs[c][1] \in names
              => /\ Named(cs, names, a, c) = Named(cs, names, a, b) \cup {c}
                 /\ Cardinality(Named(cs, names, a, c)) = Cardinality(Named(cs, names, a, b)) + 1
         /\ cs[c][1] \notin names => Named(cs, names, a, c) = Named(cs, names, a, b)
<1>1. \A k : k \in a..c <=> k \in a..b \/ k = c
  OBVIOUS
<1>2. /\ cs[c][1] \in names => Named(cs, names, a, c) = Named(cs, names, a, b) \cup {c}
      /\ cs[c][1] \notin names => Named(cs, names, a, c) = Named(cs, names, a, b)
  BY <1>1 DEF Named
<1>3. c \notin Named(cs, names, a, b) /\ IsFiniteSet(Named(cs, names, a, b))
  <2>1. c \notin Named(cs, names, a, b)
    BY DEF Named
  <2> QED
    BY <2>1, NamedFacts
<1>4. Cardinality(Named(cs, names, a, b) \cup {c}) = Cardinality(Named(cs, names, a, b)) + 1
  BY <1>3, FS_AddElement
<1> QED
  BY <1>2, <1>4

\* Two frames have the same n first calls.
Agree(cs, ds, n) == \A i \in 1..n : cs[i] = ds[i]

LEMMA NamedSame ==
  ASSUME NEW cs, NEW ds, NEW n \in Nat, Agree(cs, ds, n), NEW names, NEW a \in Nat \ {0},
         NEW b \in Int, b <= n
  PROVE  Named(cs, names, a, b) = Named(ds, names, a, b)
<1>1. \A k \in a..b : k \in 1..n
  OBVIOUS
<1> QED
  BY <1>1 DEF Named, Agree

\* What the calls say of a call follows from those before it.
LEMMA MeaningSame ==
  ASSUME NEW cs, NEW ds, NEW n \in Nat, Agree(cs, ds, n), NEW j \in 1..(n + 1)
  PROVE  /\ Opens(cs, j) = Opens(ds, j) /\ OffsetAt(cs, j) = OffsetAt(ds, j)
         /\ FontAt(cs, j) = FontAt(ds, j) /\ AddedAt(cs, j) = AddedAt(ds, j)
<1>1. ASSUME NEW i \in 1..(j - 1)
      PROVE  OpenAt(cs, i, j) <=> OpenAt(ds, i, j)
  <2>1. cs[i] = ds[i]
    BY <1>1 DEF Agree
  <2>2. \A names : \A k \in (i + 1)..(j - 1) :
          Named(cs, names, i + 1, k) = Named(ds, names, i + 1, k)
    BY <1>1, NamedSame
  <2> QED
    BY <2>1, <2>2 DEF OpenAt
<1>2. Opens(cs, j) = Opens(ds, j)
  BY <1>1 DEF Opens
<1>3. ASSUME NEW S \in SUBSET (1..n)
      PROVE  Pushed(cs, S) = Pushed(ds, S)
  <2>1. [i \in S |-> cs[i][2][1]] = [i \in S |-> ds[i][2][1]]
    BY <1>3 DEF Agree
  <2> QED
    BY <2>1 DEF Pushed
<1>4. Opens(cs, j) \in SUBSET (1..n)
  BY DEF Opens
<1>5. OffsetAt(cs, j) = OffsetAt(ds, j)
  BY <1>2, <1>3, <1>4 DEF OffsetAt
<1>6. \A names : Named(cs, names, 1, j - 1) = Named(ds, names, 1, j - 1)
  BY NamedSame
<1>7. FontAt(cs, j) = FontAt(ds, j)
  <2> DEFINE C == Named(cs, {SmallFont, NormalFont}, 1, j - 1)
  <2>1. C = Named(ds, {SmallFont, NormalFont}, 1, j - 1)
    BY <1>6
  <2>2. C # {} => Max(C) \in 1..n
    <3>1. C \in SUBSET Nat /\ \A x \in C : x <= n /\ x \in 1..n
      BY DEF Named
    <3>2. C # {} => \E x \in C : \A y \in C : x >= y
      <4> HIDE DEF C
      <4>1. C # {} => \E x \in C : \A y \in C : y <= x
        BY <3>1, GreatestNat
      <4> QED
        BY <3>1, <4>1
    <3>3. C # {} => Max(C) \in C
      <4> HIDE DEF C
      <4> QED
        BY <3>2 DEF Max
    <3> QED
      BY <3>1, <3>3
  <2>3. C # {} => cs[Max(C)] = ds[Max(C)]
    BY <2>2 DEF Agree
  <2> HIDE DEF C
  <2>4. FontAt(cs, j) = IF C = {} THEN SmallFont ELSE cs[Max(C)][1]
    BY DEF FontAt, C
  <2>5. FontAt(ds, j) = IF C = {} THEN SmallFont ELSE ds[Max(C)][1]
    BY <2>1 DEF FontAt
  <2> QED
    BY <2>3, <2>4, <2>5
<1>8. AddedAt(cs, j) = AddedAt(ds, j)
  <2>1. \A i \in 1..(j - 1) : Named(cs, {"begin"}, i + 1, j - 1) = Named(ds, {"begin"}, i + 1, j - 1)
    BY NamedSame
  <2>2. \A i \in Named(cs, {"path"}, 1, j - 1) : i \in 1..(j - 1)
    BY DEF Named
  <2> QED
    BY <1>6, <2>1, <2>2 DEF AddedAt
<1> QED
  BY <1>2, <1>5, <1>7, <1>8

\* So does what is drawn by it.
LEMMA DrawnSame ==
  ASSUME NEW cs, NEW ds, NEW n \in Nat, Agree(cs, ds, n)
  PROVE  /\ \A points : \A j \in 1..(n + 1) : IsPath(points, cs, j) <=> IsPath(points, ds, j)
         /\ \A cmd : \A j \in 1..n : IsDrawn(cmd, cs, j) <=> IsDrawn(cmd, ds, j)
<1>1. ASSUME NEW j \in 1..(n + 1), NEW points
      PROVE  IsPath(points, cs, j) <=> IsPath(points, ds, j)
  <2>1. AddedAt(cs, j) = AddedAt(ds, j)
    BY MeaningSame
  <2>2. \A i \in AddedAt(cs, j) : i \in 1..n
    BY DEF AddedAt, Named
  <2>3. \A i \in AddedAt(cs, j) : cs[i] = ds[i] /\ OffsetAt(cs, i) = OffsetAt(ds, i)
    <3>1. \A i \in 1..n : i \in 1..(n + 1)
      OBVIOUS
    <3> QED
      BY <2>2, <3>1, MeaningSame DEF Agree
  <2> QED
    BY <2>1, <2>3 DEF IsPath, Lists
<1>2. ASSUME NEW j \in 1..n, NEW cmd
      PROVE  IsDrawn(cmd, cs, j) <=> IsDrawn(cmd, ds, j)
  <2>1. j \in 1..(n + 1) /\ cs[j] = ds[j]
    BY DEF Agree
  <2>2. /\ FontAt(cs, j) = FontAt(ds, j) /\ OffsetAt(cs, j) = OffsetAt(ds, j)
        /\ IsPath(cmd.points, cs, j) <=> IsPath(cmd.points, ds, j)
    BY <1>1, <2>1, MeaningSame
  <2> QED
    BY <2>1, <2>2 DEF IsDrawn
<1> QED
  BY <1>1, <1>2

\* Places in an ordered list: a greater number comes last, the others keep
\* theirs.
Place(S, i) == Cardinality({k \in S : k <= i})

LEMMA PlaceFacts ==
  ASSUME NEW S \in SUBSET Nat, IsFiniteSet(S), NEW m \in Nat, \A s \in S : s < m
  PROVE  /\ Cardinality(S) \in Nat /\ IsFiniteSet(S \cup {m})
         /\ Cardinality(S \cup {m}) = Cardinality(S) + 1
         /\ Place(S \cup {m}, m) = Cardinality(S) + 1
         /\ \A i \in S : Place(S \cup {m}, i) = Place(S, i) /\ Place(S, i) \in 1..Cardinality(S)
<1>1. m \notin S
  OBVIOUS
<1>2. Cardinality(S) \in Nat /\ IsFiniteSet(S \cup {m}) /\ Cardinality(S \cup {m}) = Cardinality(S) + 1
  BY <1>1, FS_AddElement, FS_CardinalityType
<1>3. {k \in S \cup {m} : k <= m} = S \cup {m}
  <2>1. \A k \in S \cup {m} : k <= m
    OBVIOUS
  <2> QED
    BY <2>1
<1>4. ASSUME NEW i \in S
      PROVE  Place(S \cup {m}, i) = Place(S, i) /\ Place(S, i) \in 1..Cardinality(S)
  <2> DEFINE T == {k \in S : k <= i}
  <2>1. {k \in S \cup {m} : k <= i} = T
    OBVIOUS
  <2>2. T \in SUBSET S /\ T # {}
    OBVIOUS
  <2>3. IsFiniteSet(T) /\ Cardinality(T) <= Cardinality(S) /\ Cardinality(T) \in Nat
        /\ Cardinality(T) # 0
    <3> HIDE DEF T
    <3> QED
      BY <2>2, FS_Subset, FS_CardinalityType, FS_EmptySet
  <2> QED
    BY <1>2, <2>1, <2>3 DEF Place
<1> QED
  BY <1>2, <1>3, <1>4 DEF Place

\* Without the greatest one: those left keep their places.
LEMMA LastPlace ==
  ASSUME NEW S \in SUBSET Nat, IsFiniteSet(S), NEW x \in S, \A s \in S : s <= x
  PROVE  /\ Cardinality(S) \in Nat \ {0} /\ Place(S, x) = Cardinality(S)
         /\ {k \in S : k <= x} = S
         /\ Cardinality(S \ {x}) = Cardinality(S) - 1
         /\ \A i \in S \ {x} : /\ Place(S \ {x}, i) = Place(S, i)
                              /\ Place(S, i) \in 1..(Cardinality(S) - 1)
<1> DEFINE R == S \ {x}
<1>1. R \in SUBSET Nat /\ (\A s \in R : s < x) /\ R \cup {x} = S /\ x \in Nat
  OBVIOUS
<1>2. IsFiniteSet(R)
  BY FS_RemoveElement
<1>3. {k \in S : k <= x} = S
  OBVIOUS
<1> HIDE DEF R
<1>4. /\ Cardinality(R) \in Nat /\ Cardinality(R \cup {x}) = Cardinality(R) + 1
      /\ Place(R \cup {x}, x) = Cardinality(R) + 1
      /\ \A i \in R : Place(R \cup {x}, i) = Place(R, i) /\ Place(R, i) \in 1..Cardinality(R)
  BY <1>1, <1>2, PlaceFacts
<1> QED
  BY <1>1, <1>3, <1>4 DEF R

\* The origins pushed by some calls, one more added.
LEMMA PushedFacts ==
  ASSUME NEW cs, NEW S, IsFiniteSet(S), \A i \in S : cs[i][2][1] \in Int
  PROVE  /\ Pushed(cs, S) \in Int /\ Pushed(cs, {}) = 0
         /\ \A y : y \notin S /\ cs[y][2][1] \in Int
                     => Pushed(cs, S \cup {y}) = Pushed(cs, S) + cs[y][2][1]
<1> DEFINE f(T) == [i \in T |-> cs[i][2][1]]
<1>1. \A T : Pushed(cs, T) = SumFunctionOnSet(f(T), T)
  BY DEF Pushed, SumFunction
<1>2. Pushed(cs, S) \in Int
  <2>1. \A x \in S : f(S)[x] \in Int
    OBVIOUS
  <2> HIDE DEF f
  <2>2. SumFunctionOnSet(f(S), S) \in Int
    BY <2>1, SumAdds
  <2> QED
    BY <1>1, <2>2
<1>3. Pushed(cs, {}) = 0
  <2> HIDE DEF f
  <2>1. SumFunctionOnSet(f({}), {}) = 0
    BY SumStep, FS_EmptySet
  <2> QED
    BY <1>1, <2>1
<1>4. ASSUME NEW y, y \notin S, cs[y][2][1] \in Int
      PROVE  Pushed(cs, S \cup {y}) = Pushed(cs, S) + cs[y][2][1]
  <2> DEFINE T == S \cup {y}
  <2>1. /\ \A x \in S \cup {y} : f(T)[x] \in Int
        /\ \A x \in S : f(T)[x] = f(S)[x]
        /\ f(T)[y] = cs[y][2][1]
    BY <1>4
  <2> HIDE DEF f
  <2>2. SumFunctionOnSet(f(T), S \cup {y}) = f(T)[y] + SumFunctionOnSet(f(T), S)
    <3> HIDE DEF T
    <3> QED
      BY <1>4, <2>1, SumOneMore
  <2>3. SumFunctionOnSet(f(T), S) = SumFunctionOnSet(f(S), S)
    <3> HIDE DEF T
    <3> QED
      BY <2>1, SumSame
  <2> QED
    BY <1>1, <1>2, <1>4, <2>1, <2>2, <2>3
<1> QED
  BY <1>2, <1>3, <1>4

-----------------------------------------------------------------------------
(* One more call: m is its number.                                         *)

\* The pushes and pops since an open origin differ by the origins above it.
Pushes(cs, i, n) == Cardinality(Named(cs, {"push"}, i + 1, n))
Pops(cs, i, n) == Cardinality(Named(cs, {"pop"}, i + 1, n))
Above(S, i) == Cardinality({k \in S : k > i})

NetAgrees(cs, n) ==
  \A i \in Opens(cs, n + 1) :
    Pushes(cs, i, n) = Pops(cs, i, n) + Above(Opens(cs, n + 1), i)

LEMMA OpensFacts ==
  ASSUME NEW cs, NEW n \in Nat
  PROVE  /\ Opens(cs, n + 1) \in SUBSET (1..n) /\ IsFiniteSet(Opens(cs, n + 1))
         /\ Opens(cs, n + 1) \in SUBSET Nat
         /\ \A i \in Opens(cs, n + 1) : cs[i][1] = "push" /\ i <= n
<1>1. (n + 1) - 1 = n
  OBVIOUS
<1>2. Opens(cs, n + 1) \in SUBSET (1..n)
  BY <1>1 DEF Opens
<1>3. IsFiniteSet(Opens(cs, n + 1))
  BY <1>2, FS_Interval, FS_Subset
<1> QED
  BY <1>2, <1>3 DEF Opens, OpenAt

LEMMA OpenStep ==
  ASSUME NEW cs, NEW ds, NEW n \in Nat, Agree(cs, ds, n), NEW m \in Nat, m = n + 1
  PROVE  /\ m \in Opens(ds, m + 1) <=> ds[m][1] = "push"
         /\ \A i \in 1..n : i \in Opens(ds, m + 1)
                              <=> i \in Opens(cs, m) /\ Pops(ds, i, m) <= Pushes(ds, i, m)
<1>1. m \in Opens(ds, m + 1) <=> ds[m][1] = "push"
  BY DEF Opens, OpenAt
<1>2. ASSUME NEW i \in 1..n
      PROVE  i \in Opens(ds, m + 1) <=> i \in Opens(cs, m) /\ Pops(ds, i, m) <= Pushes(ds, i, m)
  <2>1. i \in Opens(cs, m) <=> i \in Opens(ds, m)
    <3>1. m \in 1..(n + 1)
      OBVIOUS
    <3> QED
      BY <3>1, MeaningSame
  <2>2. i \in Opens(ds, m) <=> OpenAt(ds, i, m)
    BY DEF Opens
  <2>3. i \in Opens(ds, m + 1) <=> OpenAt(ds, i, m + 1)
    BY DEF Opens
  <2>4. \A k : k \in (i + 1)..((m + 1) - 1) <=> k \in (i + 1)..(m - 1) \/ k = m
    OBVIOUS
  <2> QED
    BY <2>1, <2>2, <2>3, <2>4 DEF OpenAt, Pops, Pushes
<1> QED
  BY <1>1, <1>2

\* How the pushes and pops since call i grow.
LEMMA CountStep ==
  ASSUME NEW cs, NEW ds, NEW n \in Nat, Agree(cs, ds, n), NEW m \in Nat, m = n + 1,
         NEW i \in 1..n
  PROVE  /\ Pops(cs, i, n) \in Nat /\ Pushes(cs, i, n) \in Nat
         /\ ds[m][1] = "pop" => Pops(ds, i, m) = Pops(cs, i, n) + 1
         /\ ds[m][1] # "pop" => Pops(ds, i, m) = Pops(cs, i, n)
         /\ ds[m][1] = "push" => Pushes(ds, i, m) = Pushes(cs, i, n) + 1
         /\ ds[m][1] # "push" => Pushes(ds, i, m) = Pushes(cs, i, n)
<1>1. ASSUME NEW name
      PROVE  /\ Cardinality(Named(cs, {name}, i + 1, n)) \in Nat
             /\ ds[m][1] = name => Cardinality(Named(ds, {name}, i + 1, m))
                                      = Cardinality(Named(cs, {name}, i + 1, n)) + 1
             /\ ds[m][1] # name => Named(ds, {name}, i + 1, m) = Named(cs, {name}, i + 1, n)
  <2>1. Named(cs, {name}, i + 1, n) = Named(ds, {name}, i + 1, n)
    <3>1. i + 1 \in Nat \ {0} /\ n \in Int /\ n <= n
      OBVIOUS
    <3> QED
      BY <3>1, NamedSame
  <2>2. i + 1 \in Nat /\ i + 1 <= m
    OBVIOUS
  <2>3. Cardinality(Named(ds, {name}, i + 1, n)) \in Nat
    BY <2>2, NamedFacts
  <2>4. /\ ds[m][1] \in {name}
             => Cardinality(Named(ds, {name}, i + 1, m)) = Cardinality(Named(ds, {name}, i + 1, n)) + 1
        /\ ds[m][1] \notin {name} => Named(ds, {name}, i + 1, m) = Named(ds, {name}, i + 1, n)
    BY <2>2, NamedNext
  <2> QED
    BY <2>1, <2>3, <2>4
<1> QED
  BY <1>1 DEF Pops, Pushes

\* The origins above the last one, above a new one, and below it.
LEMMA AboveFacts ==
  ASSUME NEW S \in SUBSET Nat, IsFiniteSet(S), NEW m \in Nat
  PROVE  \A i \in S : /\ Above(S, i) \in Nat
                      /\ Above(S, i) = 0 <=> \A k \in S : k <= i
                      /\ m \notin S /\ i < m => Above(S \cup {m}, i) = Above(S, i) + 1
                      /\ m \in S /\ i < m => Above(S \ {m}, i) = Above(S, i) - 1
<1> SUFFICES ASSUME NEW i \in S
             PROVE  /\ Above(S, i) \in Nat
                    /\ Above(S, i) = 0 <=> \A k \in S : k <= i
                    /\ m \notin S /\ i < m => Above(S \cup {m}, i) = Above(S, i) + 1
                    /\ m \in S /\ i < m => Above(S \ {m}, i) = Above(S, i) - 1
  OBVIOUS
<1> DEFINE T == {k \in S : k > i}
<1>1. T \in SUBSET S /\ (m \in T => m \in S) /\ (m \in S /\ i < m => m \in T)
  OBVIOUS
<1>2. T = {} <=> \A k \in S : k <= i
  <2>1. i \in Nat /\ \A k \in S : k > i <=> ~(k <= i)
    OBVIOUS
  <2> QED
    BY <2>1
<1>3. i < m => {k \in S \cup {m} : k > i} = T \cup {m}
  OBVIOUS
<1>4. {k \in S \ {m} : k > i} = T \ {m}
  OBVIOUS
<1> HIDE DEF T
<1>5. IsFiniteSet(T) /\ Cardinality(T) \in Nat
  BY <1>1, FS_Subset, FS_CardinalityType
<1>6. Cardinality(T) = 0 <=> T = {}
  BY <1>5, FS_EmptySet
<1>7. m \notin T => Cardinality(T \cup {m}) = Cardinality(T) + 1
  BY <1>5, FS_AddElement
<1>8. m \in T => Cardinality(T \ {m}) = Cardinality(T) - 1
  BY <1>5, FS_RemoveElement
<1>9. Above(S, i) = Cardinality(T)
  BY DEF Above, T
<1>10. /\ i < m => Above(S \cup {m}, i) = Cardinality(T \cup {m})
       /\ Above(S \ {m}, i) = Cardinality(T \ {m})
  BY <1>3, <1>4 DEF Above
<1> QED
  BY <1>1, <1>2, <1>5, <1>6, <1>7, <1>8, <1>9, <1>10

LEMMA OpensAfterPush ==
  ASSUME NEW cs, NEW ds, NEW n \in Nat, Agree(cs, ds, n), NEW m \in Nat, m = n + 1,
         NetAgrees(cs, n), ds[m][1] = "push"
  PROVE  Opens(ds, m + 1) = Opens(cs, m) \cup {m} /\ NetAgrees(ds, m)
<1> DEFINE O == Opens(cs, m)
<1>1. /\ O \in SUBSET (1..n) /\ IsFiniteSet(O) /\ O \in SUBSET Nat
      /\ Opens(ds, m + 1) \in SUBSET (1..m)
  BY OpensFacts
<1>2. \A i \in O : Pushes(cs, i, n) = Pops(cs, i, n) + Above(O, i)
  BY DEF NetAgrees
<1> HIDE DEF O
<1>3. \A i \in O : Above(O, i) \in Nat /\ Above(O \cup {m}, i) = Above(O, i) + 1
  <2>1. m \notin O /\ \A i \in O : i < m
    BY <1>1
  <2> QED
    BY <1>1, <2>1, AboveFacts
<1>4. \A i \in 1..n : /\ Pops(ds, i, m) = Pops(cs, i, n) /\ Pops(cs, i, n) \in Nat
                      /\ Pushes(ds, i, m) = Pushes(cs, i, n) + 1 /\ Pushes(cs, i, n) \in Nat
  BY CountStep
<1>5. Opens(ds, m + 1) = O \cup {m}
  <2>1. m \in Opens(ds, m + 1)
    BY OpenStep
  <2>2. ASSUME NEW i \in 1..n
        PROVE  i \in Opens(ds, m + 1) <=> i \in O
    <3>1. i \in O => Pops(ds, i, m) <= Pushes(ds, i, m)
      BY <1>2, <1>3, <1>4, <2>2
    <3> QED
      BY <3>1, <2>2, OpenStep DEF O
  <2>3. \A i \in 1..m : i \in 1..n \/ i = m
    OBVIOUS
  <2> QED
    BY <2>1, <2>2, <2>3, <1>1
<1>6. ASSUME NEW i \in O \cup {m}
      PROVE  Pushes(ds, i, m) = Pops(ds, i, m) + Above(O \cup {m}, i)
  <2>1. CASE i = m
    <3>1. Named(ds, {"push"}, i + 1, m) = {} /\ Named(ds, {"pop"}, i + 1, m) = {}
      BY <2>1 DEF Named
    <3>2. {k \in O \cup {m} : k > i} = {}
      <4>1. \A k \in O \cup {m} : ~(k > m)
        BY <1>1
      <4> QED
        BY <2>1, <4>1
    <3> QED
      BY <3>1, <3>2, FS_EmptySet DEF Pushes, Pops, Above
  <2>2. CASE i \in O
    <3>1. i \in 1..n
      BY <1>1, <2>2
    <3> QED
      BY <1>2, <1>3, <1>4, <2>2, <3>1
  <2> QED
    BY <2>1, <2>2
<1> QED
  BY <1>5, <1>6 DEF NetAgrees, O

LEMMA OpensAfterPop ==
  ASSUME NEW cs, NEW ds, NEW n \in Nat, Agree(cs, ds, n), NEW m \in Nat, m = n + 1,
         NetAgrees(cs, n), ds[m][1] = "pop",
         NEW newest \in Nat, \A k \in Opens(cs, m) : k <= newest,
         Opens(cs, m) # {} => newest \in Opens(cs, m)
  PROVE  Opens(ds, m + 1) = Opens(cs, m) \ {newest} /\ NetAgrees(ds, m)
<1> DEFINE O == Opens(cs, m)
<1>1. /\ O \in SUBSET (1..n) /\ IsFiniteSet(O) /\ O \in SUBSET Nat
      /\ Opens(ds, m + 1) \in SUBSET (1..m)
  BY OpensFacts
<1>2. \A i \in O : Pushes(cs, i, n) = Pops(cs, i, n) + Above(O, i)
  BY DEF NetAgrees
<1>7. (\A k \in O : k <= newest) /\ \A i \in O : newest \in O
  OBVIOUS
<1> HIDE DEF O
<1>3. \A i \in O : /\ Above(O, i) \in Nat /\ (Above(O, i) = 0 <=> i = newest)
                   /\ i # newest => Above(O \ {newest}, i) = Above(O, i) - 1
  <2>1. ASSUME NEW i \in O
        PROVE  /\ i \in Nat /\ i <= newest /\ newest \in O
               /\ (\A k \in O : k <= i) <=> i = newest
               /\ i # newest => i < newest
    BY <1>1, <1>7
  <2>2. \A i \in O : /\ Above(O, i) \in Nat
                     /\ Above(O, i) = 0 <=> \A k \in O : k <= i
                     /\ newest \in O /\ i < newest => Above(O \ {newest}, i) = Above(O, i) - 1
    BY <1>1, AboveFacts
  <2> QED
    BY <2>1, <2>2
<1>4. \A i \in 1..n : /\ Pops(ds, i, m) = Pops(cs, i, n) + 1 /\ Pops(cs, i, n) \in Nat
                      /\ Pushes(ds, i, m) = Pushes(cs, i, n) /\ Pushes(cs, i, n) \in Nat
  BY CountStep
<1>5. Opens(ds, m + 1) = O \ {newest}
  <2>1. m \notin Opens(ds, m + 1)
    BY OpenStep
  <2>2. ASSUME NEW i \in 1..n
        PROVE  i \in Opens(ds, m + 1) <=> i \in O /\ i # newest
    <3>1. i \in O => (Pops(ds, i, m) <= Pushes(ds, i, m) <=> i # newest)
      BY <1>2, <1>3, <1>4, <2>2
    <3> QED
      BY <3>1, <2>2, OpenStep DEF O
  <2>3. \A i \in 1..m : i \in 1..n \/ i = m
    OBVIOUS
  <2> QED
    BY <2>1, <2>2, <2>3, <1>1
<1>6. ASSUME NEW i \in O \ {newest}
      PROVE  Pushes(ds, i, m) = Pops(ds, i, m) + Above(O \ {newest}, i)
  <2>1. i \in O /\ i # newest /\ i \in 1..n
    BY <1>1
  <2>2. /\ Pops(ds, i, m) = Pops(cs, i, n) + 1 /\ Pops(cs, i, n) \in Nat
        /\ Pushes(ds, i, m) = Pushes(cs, i, n)
    BY <1>4, <2>1
  <2>3. /\ Above(O, i) \in Nat /\ Above(O \ {newest}, i) = Above(O, i) - 1
        /\ Pushes(cs, i, n) = Pops(cs, i, n) + Above(O, i)
    BY <1>2, <1>3, <2>1
  <2> QED
    BY <2>2, <2>3
<1> QED
  BY <1>5, <1>6 DEF NetAgrees, O

LEMMA OpensAfterOther ==
  ASSUME NEW cs, NEW ds, NEW n \in Nat, Agree(cs, ds, n), NEW m \in Nat, m = n + 1,
         NetAgrees(cs, n), ds[m][1] # "push", ds[m][1] # "pop"
  PROVE  Opens(ds, m + 1) = Opens(cs, m) /\ NetAgrees(ds, m)
<1> DEFINE O == Opens(cs, m)
<1>1. /\ O \in SUBSET (1..n) /\ IsFiniteSet(O) /\ O \in SUBSET Nat
      /\ Opens(ds, m + 1) \in SUBSET (1..m)
  BY OpensFacts
<1>2. \A i \in O : Pushes(cs, i, n) = Pops(cs, i, n) + Above(O, i)
  BY DEF NetAgrees
<1> HIDE DEF O
<1>3. \A i \in O : Above(O, i) \in Nat
  BY <1>1, AboveFacts
<1>4. \A i \in 1..n : /\ Pops(ds, i, m) = Pops(cs, i, n) /\ Pops(cs, i, n) \in Nat
                      /\ Pushes(ds, i, m) = Pushes(cs, i, n) /\ Pushes(cs, i, n) \in Nat
  BY CountStep
<1>5. Opens(ds, m + 1) = O
  <2>1. m \notin Opens(ds, m + 1)
    BY OpenStep
  <2>2. ASSUME NEW i \in 1..n
        PROVE  i \in Opens(ds, m + 1) <=> i \in O
    <3>1. i \in O => Pops(ds, i, m) <= Pushes(ds, i, m)
      BY <1>2, <1>3, <1>4, <2>2
    <3> QED
      BY <3>1, <2>2, OpenStep DEF O
  <2>3. \A i \in 1..m : i \in 1..n \/ i = m
    OBVIOUS
  <2> QED
    BY <2>1, <2>2, <2>3, <1>1
<1>6. ASSUME NEW i \in O
      PROVE  Pushes(ds, i, m) = Pops(ds, i, m) + Above(O, i)
  <2>1. i \in 1..n
    BY <1>1
  <2> QED
    BY <1>2, <1>4, <2>1
<1> QED
  BY <1>5, <1>6 DEF NetAgrees, O

-----------------------------------------------------------------------------
(* The stack of origins.                                                   *)

StackIs(stack, cs, n) ==
  LET open == Opens(cs, n + 1) IN
    /\ Len(stack) = Cardinality(open)
    /\ \A i \in open : stack[Place(open, i)] = Pushed(cs, {k \in open : k <= i})

\* The pushes of a frame have a number.
Numbered(cs, n) == \A i \in 1..n : cs[i][1] = "push" => cs[i][2][1] \in Int

LEMMA PushedSame ==
  ASSUME NEW cs, NEW ds, NEW n \in Nat, Agree(cs, ds, n), NEW S \in SUBSET (1..n)
  PROVE  Pushed(cs, S) = Pushed(ds, S)
<1>1. [i \in S |-> cs[i][2][1]] = [i \in S |-> ds[i][2][1]]
  BY DEF Agree
<1> QED
  BY <1>1 DEF Pushed

LEMMA TopOfStack ==
  ASSUME NEW cs, NEW n \in Nat, NEW stack \in Seq(Int), StackIs(stack, cs, n), Numbered(cs, n)
  PROVE  /\ OffsetAt(cs, n + 1) \in Int
         /\ OffsetAt(cs, n + 1) = IF stack = << >> THEN 0 ELSE stack[Len(stack)]
<1> DEFINE O == Opens(cs, n + 1)
<1>1. /\ O \in SUBSET (1..n) /\ IsFiniteSet(O) /\ O \in SUBSET Nat
      /\ \A i \in O : i <= n /\ cs[i][2][1] \in Int
  BY OpensFacts DEF Numbered
<1>2. /\ Len(stack) = Cardinality(O)
      /\ \A i \in O : stack[Place(O, i)] = Pushed(cs, {k \in O : k <= i})
  BY DEF StackIs
<1>3. OffsetAt(cs, n + 1) = Pushed(cs, O)
  BY DEF OffsetAt
<1> HIDE DEF O
<1>4. Pushed(cs, O) \in Int /\ Pushed(cs, {}) = 0
  BY <1>1, PushedFacts
<1>5. CASE O = {}
  <2>1. stack = << >>
    BY <1>2, <1>5, FS_EmptySet
  <2> QED
    BY <1>3, <1>4, <1>5, <2>1
<1>6. CASE O # {}
  <2>1. PICK x \in O : \A s \in O : s <= x
    BY <1>1, <1>6, GreatestNat
  <2>2. /\ Len(stack) \in Nat \ {0} /\ Place(O, x) = Len(stack) /\ {k \in O : k <= x} = O
    <3>1. /\ O \in SUBSET Nat /\ IsFiniteSet(O) /\ x \in O /\ (\A s \in O : s <= x)
          /\ Len(stack) = Cardinality(O)
      BY <1>1, <1>2, <2>1
    <3>2. {k \in O : k <= x} = O
      BY <3>1
    <3>3. Cardinality(O) \in Nat \ {0} /\ Place(O, x) = Cardinality(O)
      BY <3>1, LastPlace
    <3> QED
      BY <3>1, <3>2, <3>3
  <2>3. stack # << >>
    BY <2>2
  <2> QED
    BY <1>2, <1>3, <1>4, <2>2, <2>3
<1> QED
  BY <1>5, <1>6

LEMMA StackAfterPush ==
  ASSUME NEW cs, NEW ds, NEW n \in Nat, Agree(cs, ds, n), NEW m \in Nat, m = n + 1,
         NEW stack \in Seq(Int), StackIs(stack, cs, n), Numbered(cs, n), NetAgrees(cs, n),
         ds[m][1] = "push", ds[m][2][1] \in Int
  PROVE  StackIs(Append(stack, OffsetAt(cs, m) + ds[m][2][1]), ds, m) /\ NetAgrees(ds, m)
<1> DEFINE O == Opens(cs, m)
           e == OffsetAt(cs, m) + ds[m][2][1]
<1>1. Opens(ds, m + 1) = O \cup {m} /\ NetAgrees(ds, m)
  <2>1. Opens(ds, m + 1) = Opens(cs, m) \cup {m} /\ NetAgrees(ds, m)
    <3> HIDE DEF O, e
    <3> QED
      BY OpensAfterPush, SMTT(30)
  <2> QED
    BY <2>1
<1>2. O \in SUBSET (1..n) /\ IsFiniteSet(O) /\ O \in SUBSET Nat /\ \A i \in O : i < m
  <2>1. O \in SUBSET (1..n) /\ IsFiniteSet(O) /\ O \in SUBSET Nat
    BY OpensFacts
  <2> HIDE DEF O
  <2> QED
    BY <2>1
<1>3. /\ Len(stack) = Cardinality(O)
      /\ \A i \in O : stack[Place(O, i)] = Pushed(cs, {k \in O : k <= i})
  BY DEF StackIs
<1>4. OffsetAt(cs, m) = Pushed(cs, O) /\ OffsetAt(cs, m) \in Int
  BY TopOfStack DEF OffsetAt
<1>5. /\ \A i \in O : ds[i][2][1] \in Int
      /\ \A T \in SUBSET O : Pushed(ds, T) = Pushed(cs, T)
  <2>1. \A i \in O : i \in 1..n /\ cs[i][1] = "push"
    BY <1>2, OpensFacts
  <2>2. \A T \in SUBSET O : T \in SUBSET (1..n)
    BY <1>2
  <2>3. \A i \in O : ds[i] = cs[i] /\ cs[i][2][1] \in Int
    BY <2>1 DEF Numbered, Agree
  <2> QED
    BY <2>2, <2>3, PushedSame
<1> HIDE DEF O
<1>6. Pushed(ds, O \cup {m}) = e
  <2>1. m \notin O
    BY <1>2
  <2>2. Pushed(ds, O \cup {m}) = Pushed(ds, O) + ds[m][2][1]
    BY <1>2, <1>5, <2>1, PushedFacts
  <2> QED
    BY <1>4, <1>5, <2>2
<1>7. e \in Int
  BY <1>4
<1> HIDE DEF e
<1>8. /\ Len(Append(stack, e)) = Cardinality(O \cup {m})
      /\ \A i \in O : Append(stack, e)[Place(O \cup {m}, i)] = stack[Place(O, i)]
      /\ Append(stack, e)[Place(O \cup {m}, m)] = e
  <2>1. /\ Cardinality(O) \in Nat /\ Cardinality(O \cup {m}) = Cardinality(O) + 1
        /\ Place(O \cup {m}, m) = Cardinality(O) + 1
        /\ \A i \in O : Place(O \cup {m}, i) = Place(O, i) /\ Place(O, i) \in 1..Cardinality(O)
    BY <1>2, PlaceFacts
  <2>2. /\ Len(Append(stack, e)) = Len(stack) + 1 /\ Append(stack, e)[Len(stack) + 1] = e
        /\ \A k \in 1..Len(stack) : Append(stack, e)[k] = stack[k]
    BY <1>7
  <2> QED
    BY <1>3, <2>1, <2>2
<1>9. /\ \A i \in O : {k \in O \cup {m} : k <= i} = {k \in O : k <= i} /\ {k \in O : k <= i} \in SUBSET O
      /\ {k \in O \cup {m} : k <= m} = O \cup {m}
  <2>1. \A i \in O : ~(m <= i) /\ i <= m
    BY <1>2
  <2> QED
    BY <2>1
<1>10. \A i \in O \cup {m} :
         Append(stack, e)[Place(O \cup {m}, i)] = Pushed(ds, {k \in O \cup {m} : k <= i})
  <2>1. ASSUME NEW i \in O
        PROVE  Append(stack, e)[Place(O \cup {m}, i)] = Pushed(ds, {k \in O \cup {m} : k <= i})
    <3>1. Pushed(ds, {k \in O : k <= i}) = Pushed(cs, {k \in O : k <= i})
      BY <1>5, <1>9
    <3> QED
      BY <1>3, <1>8, <1>9, <3>1
  <2>2. Append(stack, e)[Place(O \cup {m}, m)] = Pushed(ds, {k \in O \cup {m} : k <= m})
    BY <1>6, <1>8, <1>9
  <2> QED
    BY <2>1, <2>2
<1> QED
  BY <1>1, <1>8, <1>10 DEF StackIs, e

LEMMA StackAfterPop ==
  ASSUME NEW cs, NEW ds, NEW n \in Nat, Agree(cs, ds, n), NEW m \in Nat, m = n + 1,
         NEW stack \in Seq(Int), StackIs(stack, cs, n), NetAgrees(cs, n), ds[m][1] = "pop"
  PROVE  /\ StackIs(IF stack = << >> THEN << >> ELSE SubSeq(stack, 1, Len(stack) - 1), ds, m)
         /\ NetAgrees(ds, m)
<1> DEFINE O == Opens(cs, m)
           front == SubSeq(stack, 1, Len(stack) - 1)
<1>1. O \in SUBSET (1..n) /\ IsFiniteSet(O) /\ O \in SUBSET Nat /\ \A i \in O : i <= n
  BY OpensFacts
<1>2. /\ Len(stack) = Cardinality(O)
      /\ \A i \in O : stack[Place(O, i)] = Pushed(cs, {k \in O : k <= i})
  BY DEF StackIs
<1>3. \A T \in SUBSET O : Pushed(ds, T) = Pushed(cs, T)
  <2>1. \A T \in SUBSET O : T \in SUBSET (1..n)
    BY <1>1
  <2> QED
    BY <2>1, PushedSame
<1>4. CASE O = {}
  <2>1. stack = << >>
    <3> HIDE DEF O
    <3> QED
      BY <1>2, <1>4, FS_EmptySet
  <2>2. (\A k \in Opens(cs, m) : k <= n) /\ (Opens(cs, m) # {} => n \in Opens(cs, m))
    BY <1>4
  <2>3. Opens(ds, m + 1) = O \ {n} /\ NetAgrees(ds, m)
    BY <2>2, OpensAfterPop
  <2>4. Opens(ds, m + 1) = {}
    BY <1>4, <2>3
  <2> QED
    BY <2>1, <2>3, <2>4, FS_EmptySet DEF StackIs
<1>5. CASE O # {}
  <2>1. PICK x \in O : \A s \in O : s <= x
    <3> HIDE DEF O
    <3> QED
      BY <1>1, <1>5, GreatestNat
  <2>2. Opens(ds, m + 1) = O \ {x} /\ NetAgrees(ds, m)
    <3>1. x \in Nat
      BY <1>1
    <3> QED
      BY <2>1, <3>1, OpensAfterPop
  <2> HIDE DEF O
  <2>3. /\ stack # << >> /\ Len(front) = Cardinality(O \ {x})
        /\ \A i \in O \ {x} : front[Place(O \ {x}, i)] = stack[Place(O, i)]
    <3>1. /\ Cardinality(O) \in Nat \ {0} /\ Cardinality(O \ {x}) = Cardinality(O) - 1
          /\ \A i \in O \ {x} : /\ Place(O \ {x}, i) = Place(O, i)
                                /\ Place(O, i) \in 1..(Cardinality(O) - 1)
      BY <1>1, <2>1, LastPlace
    <3>2. /\ stack # << >> /\ Len(front) = Len(stack) - 1
          /\ \A k \in 1..(Len(stack) - 1) : front[k] = stack[k]
      BY <1>2, <3>1
    <3> QED
      BY <1>2, <3>1, <3>2
  <2>4. \A i \in O \ {x} : front[Place(O \ {x}, i)] = Pushed(ds, {k \in O \ {x} : k <= i})
    <3> SUFFICES ASSUME NEW i \in O \ {x}
                 PROVE  front[Place(O \ {x}, i)] = Pushed(ds, {k \in O \ {x} : k <= i})
      OBVIOUS
    <3>1. ~(x <= i)
      BY <1>1, <2>1
    <3>2. {k \in O \ {x} : k <= i} = {k \in O : k <= i} /\ {k \in O : k <= i} \in SUBSET O
      BY <3>1
    <3>3. Pushed(ds, {k \in O : k <= i}) = Pushed(cs, {k \in O : k <= i})
      BY <1>3, <3>2
    <3> QED
      BY <1>2, <2>3, <3>2, <3>3
  <2> QED
    BY <2>2, <2>3, <2>4 DEF StackIs
<1> QED
  BY <1>4, <1>5

LEMMA StackAfterOther ==
  ASSUME NEW cs, NEW ds, NEW n \in Nat, Agree(cs, ds, n), NEW m \in Nat, m = n + 1,
         NEW stack, StackIs(stack, cs, n), NetAgrees(cs, n),
         ds[m][1] # "push", ds[m][1] # "pop"
  PROVE  StackIs(stack, ds, m) /\ NetAgrees(ds, m)
<1> DEFINE O == Opens(cs, m)
<1>1. Opens(ds, m + 1) = O /\ NetAgrees(ds, m)
  BY OpensAfterOther
<1>2. /\ Len(stack) = Cardinality(O)
      /\ \A i \in O : stack[Place(O, i)] = Pushed(cs, {k \in O : k <= i})
  BY DEF StackIs
<1>3. \A i \in O : Pushed(ds, {k \in O : k <= i}) = Pushed(cs, {k \in O : k <= i})
  <2>1. O \in SUBSET (1..n)
    BY OpensFacts
  <2>2. \A i \in O : {k \in O : k <= i} \in SUBSET (1..n)
    BY <2>1
  <2> QED
    BY <2>2, PushedSame
<1> QED
  BY <1>1, <1>2, <1>3 DEF StackIs

-----------------------------------------------------------------------------
(* The font, the path and the draw list.                                   *)

LEMMA FontAfter ==
  ASSUME NEW cs, NEW ds, NEW n \in Nat, Agree(cs, ds, n), NEW m \in Nat, m = n + 1
  PROVE  FontAt(ds, m + 1)
           = IF ds[m][1] \in {SmallFont, NormalFont} THEN ds[m][1] ELSE FontAt(cs, m)
<1> DEFINE fonts == {SmallFont, NormalFont}
           C == Named(ds, fonts, 1, n)
<1>1. FontAt(cs, m) = FontAt(ds, m)
  <2>1. m \in 1..(n + 1)
    OBVIOUS
  <2> QED
    BY <2>1, MeaningSame
<1>2. m - 1 = n /\ (m + 1) - 1 = m /\ 1 \in Nat /\ 1 <= m
  OBVIOUS
<1>3. FontAt(ds, m) = IF C = {} THEN SmallFont ELSE ds[Max(C)][1]
  BY <1>2 DEF FontAt
<1>4. C \in SUBSET Nat /\ \A s \in C : s < m
  BY DEF Named
<1> HIDE DEF fonts
<1>5. /\ ds[m][1] \in fonts => Named(ds, fonts, 1, m) = C \cup {m}
      /\ ds[m][1] \notin fonts => Named(ds, fonts, 1, m) = C
  BY <1>2, NamedNext
<1> HIDE DEF C
<1>6. FontAt(ds, m + 1)
        = LET set == Named(ds, fonts, 1, m) IN IF set = {} THEN SmallFont ELSE ds[Max(set)][1]
  BY <1>2 DEF FontAt, fonts
<1>7. Max(C \cup {m}) = m
  <2>1. m \in C \cup {m} /\ \A y \in C \cup {m} : m >= y
    BY <1>4
  <2>2. \A x \in C \cup {m} : (\A y \in C \cup {m} : x >= y) => x = m
    BY <1>4
  <2> QED
    BY <2>1, <2>2 DEF Max
<1>8. CASE ds[m][1] \in fonts
  BY <1>5, <1>6, <1>7, <1>8 DEF fonts
<1>9. CASE ds[m][1] \notin fonts
  BY <1>1, <1>3, <1>5, <1>6, <1>9 DEF fonts
<1> QED
  BY <1>8, <1>9

LEMMA AddedFacts ==
  ASSUME NEW cs, NEW n \in Nat
  PROVE  /\ AddedAt(cs, n + 1) \in SUBSET (1..n) /\ IsFiniteSet(AddedAt(cs, n + 1))
         /\ AddedAt(cs, n + 1) \in SUBSET Nat /\ \A i \in AddedAt(cs, n + 1) : i <= n
<1>1. (n + 1) - 1 = n
  OBVIOUS
<1>2. AddedAt(cs, n + 1) \in SUBSET (1..n)
  BY <1>1 DEF AddedAt, Named
<1>3. IsFiniteSet(AddedAt(cs, n + 1))
  BY <1>2, FS_Interval, FS_Subset
<1> QED
  BY <1>2, <1>3

LEMMA AddedAfter ==
  ASSUME NEW cs, NEW ds, NEW n \in Nat, Agree(cs, ds, n), NEW m \in Nat, m = n + 1
  PROVE  /\ ds[m][1] = "path" => AddedAt(ds, m + 1) = AddedAt(cs, m) \cup {m}
         /\ ds[m][1] = "begin" => AddedAt(ds, m + 1) = {}
         /\ ds[m][1] \notin {"path", "begin"} => AddedAt(ds, m + 1) = AddedAt(cs, m)
<1>1. AddedAt(cs, m) = AddedAt(ds, m)
  <2>1. m \in 1..(n + 1)
    OBVIOUS
  <2> QED
    BY <2>1, MeaningSame
<1>2. AddedAt(ds, m) \in SUBSET (1..n) /\ AddedAt(ds, m + 1) \in SUBSET (1..m)
  BY AddedFacts
<1>3. \A i \in 1..n : i \in AddedAt(ds, m)
                        <=> ds[i][1] = "path" /\ Named(ds, {"begin"}, i + 1, n) = {}
  <2>1. m - 1 = n
    OBVIOUS
  <2> QED
    BY <2>1 DEF AddedAt, Named
<1>4. \A i \in 1..m : i \in AddedAt(ds, m + 1)
                        <=> ds[i][1] = "path" /\ Named(ds, {"begin"}, i + 1, m) = {}
  <2>1. (m + 1) - 1 = m
    OBVIOUS
  <2> QED
    BY <2>1 DEF AddedAt, Named
<1>5. \A i \in 1..n : Named(ds, {"begin"}, i + 1, m) = {}
                        <=> Named(ds, {"begin"}, i + 1, n) = {} /\ ds[m][1] # "begin"
  <2> SUFFICES ASSUME NEW i \in 1..n
               PROVE  Named(ds, {"begin"}, i + 1, m) = {}
                        <=> Named(ds, {"begin"}, i + 1, n) = {} /\ ds[m][1] # "begin"
    OBVIOUS
  <2>1. \A k : k \in (i + 1)..m <=> k \in (i + 1)..n \/ k = m
    OBVIOUS
  <2> QED
    BY <2>1 DEF Named
<1>6. Named(ds, {"begin"}, m + 1, m) = {}
  BY DEF Named
<1>7. \A i : i \in 1..m <=> i \in 1..n \/ i = m
  OBVIOUS
<1>8. m \in AddedAt(ds, m + 1) <=> ds[m][1] = "path"
  BY <1>4, <1>6, <1>7
<1>9. \A i \in 1..n : i \in AddedAt(ds, m + 1) <=> i \in AddedAt(ds, m) /\ ds[m][1] # "begin"
  BY <1>3, <1>4, <1>5, <1>7
<1> QED
  BY <1>1, <1>2, <1>7, <1>8, <1>9

LEMMA PathAfterShape ==
  ASSUME NEW cs, NEW ds, NEW n \in Nat, Agree(cs, ds, n), NEW m \in Nat, m = n + 1,
         NEW path \in Seq(Int), IsPath(path, cs, m), ds[m][1] = "path",
         ds[m][2][1] + OffsetAt(cs, m) \in Int
  PROVE  IsPath(Append(path, ds[m][2][1] + OffsetAt(cs, m)), ds, m + 1)
<1> DEFINE A == AddedAt(cs, m)
           e == ds[m][2][1] + OffsetAt(cs, m)
<1>1. AddedAt(ds, m + 1) = A \cup {m}
  BY AddedAfter
<1>2. A \in SUBSET (1..n) /\ IsFiniteSet(A) /\ A \in SUBSET Nat
  BY AddedFacts
<1>3. /\ Len(path) = Cardinality(A)
      /\ \A i \in A : path[Place(A, i)] = cs[i][2][1] + OffsetAt(cs, i)
  BY DEF IsPath, Lists, Place
<1>4. /\ \A i \in 1..n : ds[i] = cs[i] /\ OffsetAt(ds, i) = OffsetAt(cs, i)
      /\ OffsetAt(ds, m) = OffsetAt(cs, m)
  <2>1. m \in 1..(n + 1) /\ \A i \in 1..n : i \in 1..(n + 1)
    OBVIOUS
  <2> QED
    BY <2>1, MeaningSame DEF Agree
<1>5. e \in Int
  OBVIOUS
<1> HIDE DEF A
<1>6. e = ds[m][2][1] + OffsetAt(ds, m)
  BY <1>4
<1> HIDE DEF e
<1>7. /\ Cardinality(A) \in Nat /\ Cardinality(A \cup {m}) = Cardinality(A) + 1
      /\ Place(A \cup {m}, m) = Cardinality(A) + 1
      /\ \A i \in A : Place(A \cup {m}, i) = Place(A, i) /\ Place(A, i) \in 1..Cardinality(A)
  <2>1. \A i \in A : i < m
    BY <1>2
  <2> QED
    BY <1>2, <2>1, PlaceFacts
<1>8. /\ Len(Append(path, e)) = Len(path) + 1 /\ Append(path, e)[Len(path) + 1] = e
      /\ \A k \in 1..Len(path) : Append(path, e)[k] = path[k]
  BY <1>5
<1>9. \A i \in A \cup {m} :
        Append(path, e)[Place(A \cup {m}, i)] = ds[i][2][1] + OffsetAt(ds, i)
  <2>1. \A i \in A : Append(path, e)[Place(A \cup {m}, i)] = ds[i][2][1] + OffsetAt(ds, i)
    <3>1. \A i \in A : ds[i] = cs[i] /\ OffsetAt(ds, i) = OffsetAt(cs, i)
      BY <1>2, <1>4
    <3>2. \A i \in A : Append(path, e)[Place(A \cup {m}, i)] = path[Place(A, i)]
      BY <1>3, <1>7, <1>8
    <3> QED
      BY <1>3, <3>1, <3>2
  <2>2. Append(path, e)[Place(A \cup {m}, m)] = ds[m][2][1] + OffsetAt(ds, m)
    BY <1>3, <1>6, <1>7, <1>8
  <2> QED
    BY <2>1, <2>2
<1> QED
  BY <1>1, <1>3, <1>7, <1>8, <1>9 DEF IsPath, Lists, Place, e

LEMMA PathAfterOther ==
  ASSUME NEW cs, NEW ds, NEW n \in Nat, Agree(cs, ds, n), NEW m \in Nat, m = n + 1,
         NEW path, IsPath(path, cs, m), ds[m][1] # "path"
  PROVE  IsPath(IF ds[m][1] = "begin" THEN << >> ELSE path, ds, m + 1)
<1>1. CASE ds[m][1] = "begin"
  <2>1. AddedAt(ds, m + 1) = {}
    BY <1>1, AddedAfter
  <2> QED
    BY <1>1, <2>1, FS_EmptySet DEF IsPath, Lists
<1>2. CASE ds[m][1] # "begin"
  <2>1. AddedAt(ds, m + 1) = AddedAt(cs, m)
    BY <1>2, AddedAfter
  <2>2. \A i \in AddedAt(cs, m) : ds[i] = cs[i] /\ OffsetAt(ds, i) = OffsetAt(cs, i)
    <3>1. \A i \in AddedAt(cs, m) : i \in 1..n /\ i \in 1..(n + 1)
      BY AddedFacts
    <3> QED
      BY <3>1, MeaningSame DEF Agree
  <2> QED
    BY <1>2, <2>1, <2>2 DEF IsPath, Lists
<1> QED
  BY <1>1, <1>2

-----------------------------------------------------------------------------
(* The draw list.                                                          *)

FrameIs(list, cs) == Lists(list, Draws(cs), LAMBDA cmd, j : IsDrawn(cmd, cs, j))

\* The next call of a frame puts something on the list.
Drawing(cs, m, call) ==
  \/ call[1] \in {"draw", "text"}
  \/ call[1] = "paint" /\ AddedAt(cs, m) # {}

LEMMA DrawsAfter ==
  ASSUME NEW cs, NEW ds, NEW n \in Nat, Agree(cs, ds, n), NEW m \in Nat, m = n + 1,
         DOMAIN cs = 1..n, DOMAIN ds = 1..m
  PROVE  /\ Draws(cs) \in SUBSET (1..n) /\ IsFiniteSet(Draws(cs)) /\ Draws(cs) \in SUBSET Nat
         /\ \A i \in Draws(cs) : i < m
         /\ Draws(ds) = IF Drawing(cs, m, ds[m]) THEN Draws(cs) \cup {m} ELSE Draws(cs)
<1>1. Draws(cs) \in SUBSET (1..n)
  BY DEF Draws
<1>2. IsFiniteSet(Draws(cs)) /\ Draws(cs) \in SUBSET Nat /\ \A i \in Draws(cs) : i < m
  <2>1. IsFiniteSet(1..n)
    BY FS_Interval
  <2> QED
    BY <1>1, <2>1, FS_Subset
<1>3. \A i \in 1..m : (i \in 1..n \/ i = m) /\ i \in 1..(n + 1) /\ m \in 1..(n + 1)
  OBVIOUS
<1>4. \A i \in 1..m : AddedAt(cs, i) = AddedAt(ds, i)
  BY <1>3, MeaningSame
<1>5. \A i \in 1..n : i \in Draws(ds) <=> i \in Draws(cs)
  <2>1. \A i \in 1..n : i \in 1..m /\ cs[i] = ds[i]
    BY DEF Agree
  <2> QED
    BY <1>4, <2>1 DEF Draws
<1>6. m \in Draws(ds) <=> Drawing(cs, m, ds[m])
  <2>1. m \in 1..m /\ AddedAt(cs, m) = AddedAt(ds, m)
    BY <1>3, <1>4
  <2> QED
    BY <2>1 DEF Draws, Drawing
<1>7. Draws(ds) \in SUBSET (1..m)
  BY DEF Draws
<1>8. Draws(ds) = IF Drawing(cs, m, ds[m]) THEN Draws(cs) \cup {m} ELSE Draws(cs)
  <2>1. CASE Drawing(cs, m, ds[m])
    <3>1. \A i : i \in Draws(ds) <=> i \in Draws(cs) \cup {m}
      BY <1>1, <1>3, <1>5, <1>6, <1>7, <2>1
    <3> QED
      BY <2>1, <3>1
  <2>2. CASE ~Drawing(cs, m, ds[m])
    <3>1. \A i : i \in Draws(ds) <=> i \in Draws(cs)
      BY <1>1, <1>3, <1>5, <1>6, <1>7, <2>2
    <3> QED
      BY <2>2, <3>1
  <2> QED
    BY <2>1, <2>2
<1> QED
  BY <1>1, <1>2, <1>8

LEMMA FrameAfterOther ==
  ASSUME NEW cs, NEW ds, NEW n \in Nat, Agree(cs, ds, n), NEW m \in Nat, m = n + 1,
         DOMAIN cs = 1..n, DOMAIN ds = 1..m,
         NEW list, FrameIs(list, cs), ~Drawing(cs, m, ds[m])
  PROVE  FrameIs(list, ds)
<1>1. Draws(ds) = Draws(cs) /\ Draws(cs) \in SUBSET (1..n)
  BY DrawsAfter
<1>2. \A cmd : \A i \in Draws(cs) : IsDrawn(cmd, cs, i) <=> IsDrawn(cmd, ds, i)
  BY <1>1, DrawnSame
<1> QED
  BY <1>1, <1>2 DEF FrameIs, Lists

LEMMA FrameAfterDraw ==
  ASSUME NEW cs, NEW ds, NEW n \in Nat, Agree(cs, ds, n), NEW m \in Nat, m = n + 1,
         DOMAIN cs = 1..n, DOMAIN ds = 1..m,
         NEW T, NEW list \in Seq(T), NEW e \in T,
         FrameIs(list, cs), Drawing(cs, m, ds[m]), IsDrawn(e, ds, m)
  PROVE  FrameIs(Append(list, e), ds)
<1> DEFINE D == Draws(cs)
<1>1. /\ Draws(ds) = D \cup {m} /\ D \in SUBSET (1..n) /\ IsFiniteSet(D) /\ D \in SUBSET Nat
      /\ \A i \in D : i < m
  BY DrawsAfter
<1>2. /\ Len(list) = Cardinality(D)
      /\ \A i \in D : IsDrawn(list[Place(D, i)], cs, i)
  BY DEF FrameIs, Lists, Place
<1>3. \A cmd : \A i \in D : IsDrawn(cmd, cs, i) <=> IsDrawn(cmd, ds, i)
  BY <1>1, DrawnSame
<1> HIDE DEF D
<1>4. /\ Cardinality(D) \in Nat /\ Cardinality(D \cup {m}) = Cardinality(D) + 1
      /\ Place(D \cup {m}, m) = Cardinality(D) + 1
      /\ \A i \in D : Place(D \cup {m}, i) = Place(D, i) /\ Place(D, i) \in 1..Cardinality(D)
  BY <1>1, PlaceFacts
<1>5. /\ Len(Append(list, e)) = Len(list) + 1 /\ Append(list, e)[Len(list) + 1] = e
      /\ \A k \in 1..Len(list) : Append(list, e)[k] = list[k]
  OBVIOUS
<1>6. \A i \in D : Append(list, e)[Place(D \cup {m}, i)] = list[Place(D, i)]
  BY <1>2, <1>4, <1>5
<1>7. Append(list, e)[Place(D \cup {m}, m)] = e
  BY <1>2, <1>4, <1>5
<1>8. \A i \in D \cup {m} : IsDrawn(Append(list, e)[Place(D \cup {m}, i)], ds, i)
  BY <1>2, <1>3, <1>6, <1>7
<1>9. Len(Append(list, e)) = Cardinality(D \cup {m})
  BY <1>2, <1>4, <1>5
<1> QED
  BY <1>1, <1>8, <1>9 DEF FrameIs, Lists, Place

-----------------------------------------------------------------------------
(* The draw list shows the calls of its frame.                             *)

\* A call leaves the earlier ones as they are and comes last.
LEMMA CallFacts ==
  ASSUME GfxType, NEW name \in CallNames, NEW args \in Seq(Int), Call(name, args)
  PROVE  /\ Len(calls) \in Nat /\ Len(calls') = Len(calls) + 1
         /\ DOMAIN calls = 1..Len(calls) /\ DOMAIN calls' = 1..(Len(calls) + 1)
         /\ calls' \in Seq(CallRecord)
         /\ Agree(calls, calls', Len(calls))
         /\ calls'[Len(calls) + 1] = << name, args >>
<1>1. calls \in Seq(CallRecord) /\ calls' = Append(calls, << name, args >>)
  BY DEF GfxType, Call
<1>2. << name, args >> \in CallRecord
  BY DEF CallRecord
<1>3. /\ calls' \in Seq(CallRecord) /\ Len(calls') = Len(calls) + 1
      /\ \A i \in DOMAIN calls : calls'[i] = calls[i]
      /\ calls'[Len(calls) + 1] = << name, args >>
  BY <1>1, <1>2, AppendFacts
<1>4. /\ Len(calls) \in Nat /\ DOMAIN calls = 1..Len(calls)
      /\ DOMAIN calls' = 1..Len(calls')
  BY <1>1, <1>3
<1> QED
  BY <1>3, <1>4 DEF Agree

\* The types after a call: those of the calls always hold.
LEMMA TypeAfterCall ==
  ASSUME GfxType, NEW name \in CallNames, NEW args \in Seq(Int), Call(name, args),
         name \in {"push", "path"} => args # << >>,
         draw' \in Seq(Command), current_font' \in {SmallFont, NormalFont},
         origin_stack' \in Seq(Int), path_builder' \in Seq(Int)
  PROVE  GfxType'
<1> DEFINE Full(call) == call[1] \in {"push", "path"} => call[2] # << >>
<1>1. \A i \in DOMAIN calls : Full(calls[i])
  BY DEF GfxType
<1>2. Full(<< name, args >>)
  OBVIOUS
<1> HIDE DEF Full
<1>3. \A i \in DOMAIN calls' : Full(calls'[i])
  <2>1. /\ Len(calls) \in Nat /\ DOMAIN calls = 1..Len(calls)
        /\ DOMAIN calls' = 1..(Len(calls) + 1)
        /\ calls'[Len(calls) + 1] = << name, args >>
        /\ \A i \in 1..Len(calls) : calls[i] = calls'[i]
    BY CallFacts DEF Agree
  <2>2. \A i \in 1..(Len(calls) + 1) : i \in 1..Len(calls) \/ i = Len(calls) + 1
    BY <2>1
  <2> QED
    BY <1>1, <1>2, <2>1, <2>2
<1>4. calls' \in Seq(CallRecord)
  BY CallFacts
<1> QED
  BY <1>3, <1>4 DEF GfxType, Full

LEMMA OffsetTyped ==
  ASSUME GfxType
  PROVE  Offset \in Int
  BY DEF GfxType, Offset

LEMMA MovedTyped ==
  ASSUME GfxType, NEW points \in Seq(Int)
  PROVE  Moved(points) \in Seq(Int)
<1>1. \A i \in DOMAIN points : points[i] + Offset \in Int
  BY OffsetTyped
<1>2. DOMAIN points = 1..Len(points) /\ Len(points) \in Nat
  OBVIOUS
<1> QED
  BY <1>1, <1>2 DEF Moved

\* Every step keeps the types of the host's state.
LEMMA GfxTypeStep ==
  ASSUME GfxType, [GfxNext]_gfxVars
  PROVE  GfxType'
<1>1. /\ draw \in Seq(Command) /\ current_font \in {SmallFont, NormalFont}
      /\ origin_stack \in Seq(Int) /\ path_builder \in Seq(Int)
  BY DEF GfxType
<1>2. \A kind \in Kinds : \A points \in Seq(Int) :
        Append(draw, [kind |-> kind, points |-> points]) \in Seq(Command)
  <2>1. \A kind \in Kinds : \A points \in Seq(Int) : [kind |-> kind, points |-> points] \in Command
    BY DEF Command
  <2> QED
    BY <1>1, <2>1, AppendFacts
<1>3. \A x \in Points : /\ x \in Int /\ << x >> \in Seq(Int) /\ << x, x + 1 >> \in Seq(Int)
                        /\ << x, x + 1, x >> \in Seq(Int)
  BY DrawAssumption DEF DrawAssumption
<1>4. /\ << >> \in Seq(Int) /\ {"shape", "path"} \subseteq Kinds
      /\ {"draw", "text", "push", "pop", "begin", "path", "paint", "bad"} \subseteq CallNames
      /\ \A name \in {"draw", "text", "pop", "begin", "paint", "bad"} : name \notin {"push", "path"}
  BY DEF Kinds, CallNames
<1>5. ASSUME NEW points \in Seq(Int), Primitive(points)
      PROVE  GfxType'
  <2>1. Call("draw", points) /\ draw' = Append(draw, [kind |-> "shape", points |-> Moved(points)])
        /\ UNCHANGED << current_font, origin_stack, path_builder >>
    BY <1>5 DEF Primitive
  <2>2. draw' \in Seq(Command)
    BY <1>2, <1>4, <2>1, MovedTyped
  <2> QED
    BY <1>1, <1>4, <2>1, <2>2, TypeAfterCall
<1>6. ASSUME NEW x \in Points, Text(x)
      PROVE  GfxType'
  <2>1. Call("text", << x >>) /\ draw' = Append(draw, [kind |-> current_font, points |-> Moved(<< x >>)])
        /\ UNCHANGED << current_font, origin_stack, path_builder >>
    BY <1>6 DEF Text
  <2>2. << x >> \in Seq(Int) /\ current_font \in Kinds
    BY <1>1, <1>3 DEF Kinds
  <2>3. draw' \in Seq(Command)
    BY <1>2, <2>1, <2>2, MovedTyped
  <2> QED
    BY <1>1, <1>4, <2>1, <2>2, <2>3, TypeAfterCall
<1>7. ASSUME NEW x \in Points, PushOrigin(x)
      PROVE  GfxType'
  <2>1. Call("push", << x >>) /\ origin_stack' = Append(origin_stack, Offset + x)
        /\ UNCHANGED << draw, current_font, path_builder >>
    BY <1>7 DEF PushOrigin
  <2>2. << x >> \in Seq(Int) /\ << x >> # << >> /\ Offset + x \in Int
    BY <1>3, OffsetTyped
  <2>3. origin_stack' \in Seq(Int)
    BY <1>1, <2>1, <2>2
  <2> QED
    BY <1>1, <1>4, <2>1, <2>2, <2>3, TypeAfterCall
<1>8. ASSUME NEW x \in Points, PathShape(x)
      PROVE  GfxType'
  <2>1. Call("path", << x >>) /\ path_builder' = Append(path_builder, x + Offset)
        /\ UNCHANGED << draw, current_font, origin_stack >>
    BY <1>8 DEF PathShape
  <2>2. << x >> \in Seq(Int) /\ << x >> # << >> /\ x + Offset \in Int
    BY <1>3, OffsetTyped
  <2>3. path_builder' \in Seq(Int)
    BY <1>1, <2>1, <2>2
  <2> QED
    BY <1>1, <1>4, <2>1, <2>2, <2>3, TypeAfterCall
<1>9. ASSUME NEW font \in {SmallFont, NormalFont}, SetFont(font)
      PROVE  GfxType'
  <2>1. Call(font, << >>) /\ current_font' = font /\ UNCHANGED << draw, origin_stack, path_builder >>
    BY <1>9 DEF SetFont
  <2>2. font \in CallNames /\ font \notin {"push", "path"}
    BY DEF SmallFont, NormalFont, CallNames
  <2> QED
    BY <1>1, <1>4, <2>1, <2>2, TypeAfterCall
<1>10. CASE PopOrigin
  <2>1. /\ Call("pop", << >>)
        /\ origin_stack' = IF origin_stack = << >> THEN << >>
                            ELSE SubSeq(origin_stack, 1, Len(origin_stack) - 1)
        /\ UNCHANGED << draw, current_font, path_builder >>
    BY <1>10 DEF PopOrigin
  <2>2. origin_stack' \in Seq(Int)
    BY <1>1, <2>1
  <2> QED
    BY <1>1, <1>4, <2>1, <2>2, TypeAfterCall
<1>11. CASE BeginPath
  <2>1. /\ Call("begin", << >>) /\ path_builder' = << >>
        /\ UNCHANGED << draw, current_font, origin_stack >>
    BY <1>11 DEF BeginPath
  <2> QED
    BY <1>1, <1>4, <2>1, TypeAfterCall
<1>12. CASE DrawPath
  <2>1. /\ Call("paint", << >>)
        /\ draw' = draw \/ draw' = Append(draw, [kind |-> "path", points |-> path_builder])
        /\ UNCHANGED << current_font, origin_stack, path_builder >>
    BY <1>12 DEF DrawPath
  <2>2. draw' \in Seq(Command)
    BY <1>1, <1>2, <1>4, <2>1
  <2> QED
    BY <1>1, <1>4, <2>1, <2>2, TypeAfterCall
<1>13. CASE BadCall
  <2>1. /\ Call("bad", << >>) /\ UNCHANGED << draw, current_font, origin_stack, path_builder >>
    BY <1>13 DEF BadCall
  <2> QED
    BY <1>1, <1>4, <2>1, TypeAfterCall
<1>14. << >> \in Seq(CallRecord) /\ << >> \in Seq(Command) /\ DOMAIN << >> = {}
  OBVIOUS
<1>15. CASE RunFrame
  BY <1>4, <1>14, <1>15 DEF RunFrame, GfxType
<1>16. CASE FrameDone \/ FrameFails
  BY <1>1, <1>14, <1>16 DEF FrameDone, FrameFails, GfxType
<1>17. CASE UNCHANGED gfxVars
  BY <1>17 DEF gfxVars, GfxType
<1>18. CASE GfxCall
  BY <1>3, <1>5, <1>6, <1>7, <1>8, <1>9, <1>10, <1>11, <1>12, <1>13, <1>18
     DEF GfxCall, Anchored, Segment, Corners
<1> QED
  BY <1>15, <1>16, <1>17, <1>18 DEF GfxNext

\* What the invariant says while Lua code runs, in the words of the lemmas.
LEMMA Meaning ==
  /\ OriginsAgree <=> StackIs(origin_stack, calls, Len(calls)) /\ NetAgrees(calls, Len(calls))
  /\ OriginsAgree' <=> StackIs(origin_stack', calls', Len(calls')) /\ NetAgrees(calls', Len(calls'))
  /\ FrameIsItsCalls <=> (in_frame => FrameIs(draw, calls))
  /\ FrameIsItsCalls' <=> (in_frame' => FrameIs(draw', calls'))
  BY DEF OriginsAgree, StackIs, NetAgrees, Lists, Place, Pushes, Pops, Above, FrameIsItsCalls, FrameIs

LEMMA PushesNumbered ==
  ASSUME GfxType
  PROVE  Numbered(calls, Len(calls))
<1>1. calls \in Seq(CallRecord) /\ DOMAIN calls = 1..Len(calls)
  BY DEF GfxType
<1> SUFFICES ASSUME NEW i \in DOMAIN calls, calls[i][1] = "push"
             PROVE  calls[i][2][1] \in Int
  BY <1>1 DEF Numbered
<1>2. calls[i] \in CallRecord
  BY <1>1
<1>3. calls[i][2] \in Seq(Int)
  BY <1>2 DEF CallRecord
<1>4. calls[i][2] # << >>
  BY DEF GfxType
<1> QED
  BY <1>3, <1>4

\* While Lua code runs: the current translate is the one the calls mean.
LEMMA OffsetMeant ==
  ASSUME GfxType, GfxInv, in_frame
  PROVE  /\ StackIs(origin_stack, calls, Len(calls)) /\ NetAgrees(calls, Len(calls))
         /\ Len(calls) \in Nat /\ origin_stack \in Seq(Int)
         /\ Offset = OffsetAt(calls, Len(calls) + 1) /\ Offset \in Int
<1>1. StackIs(origin_stack, calls, Len(calls)) /\ NetAgrees(calls, Len(calls))
  BY Meaning DEF GfxInv
<1>2. Len(calls) \in Nat /\ origin_stack \in Seq(Int)
  BY DEF GfxType
<1>3. OffsetAt(calls, Len(calls) + 1)
        = IF origin_stack = << >> THEN 0 ELSE origin_stack[Len(origin_stack)]
  BY <1>1, <1>2, PushesNumbered, TopOfStack
<1> QED
  BY <1>1, <1>2, <1>3, OffsetTyped DEF Offset

LEMMA KeepsOrigins ==
  ASSUME GfxType, GfxInv, NEW name \in CallNames, NEW args \in Seq(Int), Call(name, args),
         name \notin {"push", "pop"}, UNCHANGED origin_stack
  PROVE  OriginsAgree'
<1> DEFINE n == Len(calls)
           m == n + 1
<1>1. in_frame
  BY DEF Call
<1>2. /\ StackIs(origin_stack, calls, n) /\ NetAgrees(calls, n)
  BY <1>1, OffsetMeant
<1>3. /\ n \in Nat /\ m \in Nat /\ Len(calls') = m /\ Agree(calls, calls', n)
      /\ calls'[m][1] # "push" /\ calls'[m][1] # "pop"
  BY CallFacts
<1> HIDE DEF n
<1>4. m = n + 1
  OBVIOUS
<1> HIDE DEF m
<1>5. StackIs(origin_stack, calls', m) /\ NetAgrees(calls', m)
  BY <1>2, <1>3, <1>4, StackAfterOther
<1> QED
  BY <1>3, <1>5, Meaning

LEMMA KeepsFont ==
  ASSUME GfxType, GfxInv, NEW name \in CallNames, NEW args \in Seq(Int), Call(name, args),
         current_font' = IF name \in {SmallFont, NormalFont} THEN name ELSE current_font
  PROVE  current_font' = FontAt(calls', Len(calls') + 1)
<1> DEFINE n == Len(calls)
           m == n + 1
<1>1. current_font = FontAt(calls, m)
  BY DEF GfxInv, Call
<1>2. n \in Nat /\ m \in Nat /\ Len(calls') = m /\ Agree(calls, calls', n) /\ calls'[m][1] = name
  BY CallFacts
<1> HIDE DEF n
<1>3. m = n + 1
  OBVIOUS
<1> HIDE DEF m
<1>4. FontAt(calls', m + 1)
        = IF calls'[m][1] \in {SmallFont, NormalFont} THEN calls'[m][1] ELSE FontAt(calls, m)
  BY <1>2, <1>3, FontAfter
<1> QED
  BY <1>1, <1>2, <1>4

LEMMA KeepsPath ==
  ASSUME GfxType, GfxInv, NEW name \in CallNames, NEW args \in Seq(Int), Call(name, args),
         name # "path", path_builder' = IF name = "begin" THEN << >> ELSE path_builder
  PROVE  IsPath(path_builder', calls', Len(calls') + 1)
<1> DEFINE n == Len(calls)
           m == n + 1
<1>1. IsPath(path_builder, calls, m)
  BY DEF GfxInv, Call
<1>2. n \in Nat /\ m \in Nat /\ Len(calls') = m /\ Agree(calls, calls', n) /\ calls'[m][1] = name
  BY CallFacts
<1> HIDE DEF n
<1>3. m = n + 1
  OBVIOUS
<1> HIDE DEF m
<1>4. IsPath(IF calls'[m][1] = "begin" THEN << >> ELSE path_builder, calls', m + 1)
  BY <1>1, <1>2, <1>3, PathAfterOther
<1> QED
  BY <1>2, <1>4

LEMMA KeepsList ==
  ASSUME GfxType, GfxInv, NEW name \in CallNames, NEW args \in Seq(Int), Call(name, args),
         ~Drawing(calls, Len(calls) + 1, << name, args >>), UNCHANGED draw
  PROVE  FrameIsItsCalls'
<1> DEFINE n == Len(calls)
           m == n + 1
<1>1. FrameIs(draw, calls)
  BY Meaning DEF GfxInv, Call
<1>2. /\ n \in Nat /\ m \in Nat /\ Agree(calls, calls', n) /\ calls'[m] = << name, args >>
      /\ DOMAIN calls = 1..n /\ DOMAIN calls' = 1..m
  BY CallFacts
<1>3. ~Drawing(calls, m, calls'[m])
  BY <1>2
<1> HIDE DEF n
<1>4. m = n + 1
  OBVIOUS
<1> HIDE DEF m
<1>5. FrameIs(draw, calls')
  BY <1>1, <1>2, <1>3, <1>4, FrameAfterOther
<1> QED
  BY <1>5, Meaning

LEMMA AddsToList ==
  ASSUME GfxType, GfxInv, NEW name \in CallNames, NEW args \in Seq(Int), Call(name, args),
         Drawing(calls, Len(calls) + 1, << name, args >>),
         NEW cmd \in Command, draw' = Append(draw, cmd), IsDrawn(cmd, calls', Len(calls) + 1)
  PROVE  FrameIsItsCalls'
<1> DEFINE n == Len(calls)
           m == n + 1
<1>1. FrameIs(draw, calls) /\ draw \in Seq(Command)
  BY Meaning DEF GfxInv, Call, GfxType
<1>2. /\ n \in Nat /\ m \in Nat /\ Agree(calls, calls', n) /\ calls'[m] = << name, args >>
      /\ DOMAIN calls = 1..n /\ DOMAIN calls' = 1..m
  BY CallFacts
<1>3. Drawing(calls, m, calls'[m]) /\ IsDrawn(cmd, calls', m)
  BY <1>2
<1> HIDE DEF n
<1>4. m = n + 1
  OBVIOUS
<1> HIDE DEF m
<1>5. FrameIs(Append(draw, cmd), calls')
  BY <1>1, <1>2, <1>3, <1>4, FrameAfterDraw
<1> QED
  BY <1>5, Meaning

\* A primitive or a label is drawn where the translate of its call puts it.
LEMMA MovedIsDrawn ==
  ASSUME GfxType, GfxInv, NEW name \in {"draw", "text"}, NEW args \in Seq(Int), Call(name, args)
  PROVE  IsDrawn([kind |-> IF name = "text" THEN current_font ELSE "shape", points |-> Moved(args)],
                 calls', Len(calls) + 1)
<1> DEFINE n == Len(calls)
           m == n + 1
<1>1. in_frame /\ current_font = FontAt(calls, m)
  BY DEF GfxInv, Call
<1>2. /\ n \in Nat /\ m \in 1..(n + 1) /\ Agree(calls, calls', n)
      /\ calls'[m] = << name, args >>
  BY CallFacts DEF CallNames
<1>3. Offset = OffsetAt(calls, m)
  BY <1>1, OffsetMeant
<1>4. Moved(args) = [i \in DOMAIN args |-> args[i] + OffsetAt(calls, m)]
  BY <1>3 DEF Moved
<1> HIDE DEF m, n
<1>5. OffsetAt(calls, m) = OffsetAt(calls', m) /\ FontAt(calls, m) = FontAt(calls', m)
  BY <1>2, MeaningSame
<1>6. calls'[m][1] = name /\ calls'[m][2] = args
  BY <1>2
<1>7. IsDrawn([kind |-> IF name = "text" THEN current_font ELSE "shape", points |-> Moved(args)], calls', m)
  BY <1>1, <1>4, <1>5, <1>6 DEF IsDrawn
<1> QED
  BY <1>7 DEF m, n

\* Every step keeps the meaning of the calls and what is kept for the next.
LEMMA GfxInvStep ==
  ASSUME GfxType, GfxInv, [GfxNext]_gfxVars
  PROVE  GfxInv'
<1> DEFINE m == Len(calls) + 1
           Kept == /\ OriginsAgree' /\ current_font' = FontAt(calls', Len(calls') + 1)
                   /\ IsPath(path_builder', calls', Len(calls') + 1) /\ FrameIsItsCalls'
<1>1. Kept => GfxInv'
  BY DEF GfxInv
<1>2. \A x \in Points : /\ x \in Int /\ << x >> \in Seq(Int) /\ << x, x + 1 >> \in Seq(Int)
                        /\ << x, x + 1, x >> \in Seq(Int)
  BY DrawAssumption DEF DrawAssumption
<1>3. << >> \in Seq(Int) /\ current_font \in {SmallFont, NormalFont} /\ path_builder \in Seq(Int)
  BY DEF GfxType
<1>4. /\ {"draw", "text", "push", "pop", "begin", "path", "paint", "bad"} \subseteq CallNames
      /\ \A name \in {"draw", "text", "push", "pop", "begin", "path", "paint", "bad"} :
           name \notin {SmallFont, NormalFont}
      /\ {SmallFont, NormalFont} \subseteq CallNames
      /\ \A name \in {SmallFont, NormalFont} :
           name \notin {"draw", "text", "push", "pop", "begin", "path", "paint"}
  BY DEF CallNames, SmallFont, NormalFont
<1>5. \A name, args : name \in {"push", "pop", "begin", "path", "bad", SmallFont, NormalFont}
                        => ~Drawing(calls, m, << name, args >>)
  BY DEF Drawing, SmallFont, NormalFont
<1>6. ASSUME NEW points \in Seq(Int), Primitive(points)
      PROVE  Kept
  <2> DEFINE cmd == [kind |-> "shape", points |-> Moved(points)]
  <2>1. /\ "draw" \in CallNames /\ points \in Seq(Int)
        /\ "draw" \notin {"push", "pop", "begin", "path"} /\ "draw" \notin {SmallFont, NormalFont}
    BY <1>2, <1>3, <1>4
  <2>2. /\ Call("draw", points) /\ draw' = Append(draw, cmd)
        /\ UNCHANGED << current_font, origin_stack, path_builder >>
    BY <1>6 DEF Primitive
  <2>3. cmd \in Command
    BY MovedTyped DEF Command, Kinds
  <2>4. IsDrawn(cmd, calls', m)
    BY <2>2, MovedIsDrawn
  <2>5. Drawing(calls, m, << "draw", points >>)
    BY DEF Drawing
  <2> HIDE DEF cmd
  <2>6. FrameIsItsCalls'
    BY <2>1, <2>2, <2>3, <2>4, <2>5, AddsToList
  <2>7. OriginsAgree'
    BY <2>1, <2>2, KeepsOrigins
  <2>8. current_font' = FontAt(calls', Len(calls') + 1)
    BY <2>1, <2>2, KeepsFont
  <2>9. IsPath(path_builder', calls', Len(calls') + 1)
    BY <2>1, <2>2, KeepsPath
  <2> QED
    BY <2>6, <2>7, <2>8, <2>9
<1>7. ASSUME NEW x \in Points, Text(x)
      PROVE  Kept
  <2> DEFINE cmd == [kind |-> current_font, points |-> Moved(<< x >>)]
  <2>1. /\ "text" \in CallNames /\ << x >> \in Seq(Int)
        /\ "text" \notin {"push", "pop", "begin", "path"} /\ "text" \notin {SmallFont, NormalFont}
    BY <1>2, <1>3, <1>4
  <2>2. /\ Call("text", << x >>) /\ draw' = Append(draw, cmd)
        /\ UNCHANGED << current_font, origin_stack, path_builder >>
    BY <1>7 DEF Text
  <2>3. cmd \in Command
    BY <1>2, <1>3, MovedTyped DEF Command, Kinds
  <2>4. IsDrawn(cmd, calls', m)
    BY <1>2, <2>2, MovedIsDrawn
  <2>5. Drawing(calls, m, << "text", << x >> >>)
    BY DEF Drawing
  <2> HIDE DEF cmd
  <2>6. FrameIsItsCalls'
    BY <2>1, <2>2, <2>3, <2>4, <2>5, AddsToList
  <2>7. OriginsAgree'
    BY <2>1, <2>2, KeepsOrigins
  <2>8. current_font' = FontAt(calls', Len(calls') + 1)
    BY <2>1, <2>2, KeepsFont
  <2>9. IsPath(path_builder', calls', Len(calls') + 1)
    BY <2>1, <2>2, KeepsPath
  <2> QED
    BY <2>6, <2>7, <2>8, <2>9
<1>8. ASSUME NEW x \in Points, PushOrigin(x)
      PROVE  Kept
  <2>1. /\ "push" \in CallNames /\ << x >> \in Seq(Int)
        /\ "push" \notin {"pop", "begin", "path"} /\ "push" \notin {SmallFont, NormalFont}
    BY <1>2, <1>3, <1>4
  <2>2. /\ Call("push", << x >>) /\ origin_stack' = Append(origin_stack, Offset + x)
        /\ UNCHANGED << draw, current_font, path_builder >>
    BY <1>8 DEF PushOrigin
  <2>3. OriginsAgree'
    <3> DEFINE n == Len(calls)
    <3>1. /\ StackIs(origin_stack, calls, n) /\ NetAgrees(calls, n) /\ origin_stack \in Seq(Int)
          /\ Numbered(calls, n) /\ Offset = OffsetAt(calls, m)
      BY <2>2, OffsetMeant, PushesNumbered DEF Call
    <3>2. /\ n \in Nat /\ m \in Nat /\ Len(calls') = m /\ Agree(calls, calls', n)
          /\ calls'[m] = << "push", << x >> >>
      <4>1. /\ Len(calls) \in Nat /\ Len(calls') = Len(calls) + 1 /\ Agree(calls, calls', Len(calls))
            /\ calls'[Len(calls) + 1] = << "push", << x >> >>
        BY <2>1, <2>2, CallFacts
      <4> QED
        BY <4>1
    <3>3. calls'[m][1] = "push" /\ calls'[m][2][1] = x /\ x \in Int
      BY <1>2, <3>2
    <3>4. m = n + 1
      OBVIOUS
    <3> HIDE DEF m, n
    <3>5. /\ StackIs(Append(origin_stack, OffsetAt(calls, m) + calls'[m][2][1]), calls', m)
          /\ NetAgrees(calls', m)
      BY <3>1, <3>2, <3>3, <3>4, StackAfterPush
    <3> QED
      BY <2>2, <3>1, <3>2, <3>3, <3>5, Meaning
  <2>4. current_font' = FontAt(calls', Len(calls') + 1)
    BY <2>1, <2>2, KeepsFont
  <2>5. IsPath(path_builder', calls', Len(calls') + 1)
    BY <2>1, <2>2, KeepsPath
  <2>6. ~Drawing(calls, m, << "push", << x >> >>)
    BY <1>5, <2>1
  <2>7. FrameIsItsCalls'
    BY <2>1, <2>2, <2>6, KeepsList
  <2> QED
    BY <2>3, <2>4, <2>5, <2>7
<1>9. CASE PopOrigin
  <2>1. /\ "pop" \in CallNames /\ << >> \in Seq(Int)
        /\ "pop" \notin {"push", "begin", "path"} /\ "pop" \notin {SmallFont, NormalFont}
    BY <1>2, <1>3, <1>4
  <2>2. /\ Call("pop", << >>)
        /\ origin_stack' = IF origin_stack = << >> THEN << >>
                            ELSE SubSeq(origin_stack, 1, Len(origin_stack) - 1)
        /\ UNCHANGED << draw, current_font, path_builder >>
    BY <1>9 DEF PopOrigin
  <2>3. OriginsAgree'
    <3> DEFINE n == Len(calls)
    <3>1. StackIs(origin_stack, calls, n) /\ NetAgrees(calls, n) /\ origin_stack \in Seq(Int)
      BY <2>2, OffsetMeant DEF Call
    <3>2. /\ n \in Nat /\ m \in Nat /\ Len(calls') = m /\ Agree(calls, calls', n)
          /\ calls'[m][1] = "pop"
      <4>1. /\ Len(calls) \in Nat /\ Len(calls') = Len(calls) + 1 /\ Agree(calls, calls', Len(calls))
            /\ calls'[Len(calls) + 1] = << "pop", << >> >>
        BY <2>1, <2>2, CallFacts
      <4> QED
        BY <4>1
    <3>3. m = n + 1
      OBVIOUS
    <3> HIDE DEF m, n
    <3>4. StackIs(origin_stack', calls', m) /\ NetAgrees(calls', m)
      BY <2>2, <3>1, <3>2, <3>3, StackAfterPop
    <3> QED
      BY <3>2, <3>4, Meaning
  <2>4. current_font' = FontAt(calls', Len(calls') + 1)
    BY <2>1, <2>2, KeepsFont
  <2>5. IsPath(path_builder', calls', Len(calls') + 1)
    BY <2>1, <2>2, KeepsPath
  <2>6. ~Drawing(calls, m, << "pop", << >> >>)
    BY <1>5, <2>1
  <2>7. FrameIsItsCalls'
    BY <2>1, <2>2, <2>6, KeepsList
  <2> QED
    BY <1>1, <2>3, <2>4, <2>5, <2>7
<1>10. ASSUME NEW font \in {SmallFont, NormalFont}, SetFont(font)
       PROVE  Kept
  <2>1. /\ font \in CallNames /\ << >> \in Seq(Int)
        /\ font \notin {"push", "pop", "begin", "path"} /\ font \in {SmallFont, NormalFont}
    BY <1>2, <1>3, <1>4
  <2>2. Call(font, << >>) /\ current_font' = font /\ UNCHANGED << draw, origin_stack, path_builder >>
    BY <1>10 DEF SetFont
  <2>3. font \in CallNames /\ font \notin {"push", "pop", "begin", "path"}
    BY <1>4
  <2>4. OriginsAgree'
    BY <2>1, <2>2, KeepsOrigins
  <2>5. current_font' = FontAt(calls', Len(calls') + 1)
    BY <2>1, <2>2, KeepsFont
  <2>6. IsPath(path_builder', calls', Len(calls') + 1)
    BY <2>1, <2>2, KeepsPath
  <2>7. ~Drawing(calls, m, << font, << >> >>)
    BY <1>5, <2>1
  <2>8. FrameIsItsCalls'
    BY <2>1, <2>2, <2>7, KeepsList
  <2> QED
    BY <2>4, <2>5, <2>6, <2>8
<1>11. CASE BeginPath
  <2>1. /\ "begin" \in CallNames /\ << >> \in Seq(Int)
        /\ "begin" \notin {"push", "pop", "path"} /\ "begin" \notin {SmallFont, NormalFont}
    BY <1>2, <1>3, <1>4
  <2>2. Call("begin", << >>) /\ path_builder' = << >> /\ UNCHANGED << draw, current_font, origin_stack >>
    BY <1>11 DEF BeginPath
  <2>3. OriginsAgree'
    BY <2>1, <2>2, KeepsOrigins
  <2>4. current_font' = FontAt(calls', Len(calls') + 1)
    BY <2>1, <2>2, KeepsFont
  <2>5. IsPath(path_builder', calls', Len(calls') + 1)
    BY <2>1, <2>2, KeepsPath
  <2>6. ~Drawing(calls, m, << "begin", << >> >>)
    BY <1>5, <2>1
  <2>7. FrameIsItsCalls'
    BY <2>1, <2>2, <2>6, KeepsList
  <2> QED
    BY <1>1, <2>3, <2>4, <2>5, <2>7
<1>12. ASSUME NEW x \in Points, PathShape(x)
       PROVE  Kept
  <2>1. /\ "path" \in CallNames /\ << x >> \in Seq(Int)
        /\ "path" \notin {"push", "pop", "begin"} /\ "path" \notin {SmallFont, NormalFont}
    BY <1>2, <1>3, <1>4
  <2>2. /\ Call("path", << x >>) /\ path_builder' = Append(path_builder, x + Offset)
        /\ UNCHANGED << draw, current_font, origin_stack >>
    BY <1>12 DEF PathShape
  <2>3. IsPath(path_builder', calls', Len(calls') + 1)
    <3> DEFINE n == Len(calls)
    <3>1. Offset = OffsetAt(calls, m) /\ Offset \in Int /\ IsPath(path_builder, calls, m)
      BY <2>2, OffsetMeant DEF Call, GfxInv
    <3>2. /\ n \in Nat /\ m \in Nat /\ Len(calls') = m /\ Agree(calls, calls', n)
          /\ calls'[m] = << "path", << x >> >>
      <4>1. /\ Len(calls) \in Nat /\ Len(calls') = Len(calls) + 1 /\ Agree(calls, calls', Len(calls))
            /\ calls'[Len(calls) + 1] = << "path", << x >> >>
        BY <2>1, <2>2, CallFacts
      <4> QED
        BY <4>1
    <3>3. calls'[m][1] = "path" /\ calls'[m][2][1] = x /\ x \in Int
      BY <1>2, <3>2
    <3>4. m = n + 1
      OBVIOUS
    <3> HIDE DEF m, n
    <3>5. calls'[m][2][1] + OffsetAt(calls, m) \in Int
      BY <3>1, <3>3
    <3>6. IsPath(Append(path_builder, calls'[m][2][1] + OffsetAt(calls, m)), calls', m + 1)
      BY <1>3, <3>1, <3>2, <3>3, <3>4, <3>5, PathAfterShape
    <3> QED
      BY <2>2, <3>1, <3>2, <3>3, <3>6
  <2>4. OriginsAgree'
    BY <2>1, <2>2, KeepsOrigins
  <2>5. current_font' = FontAt(calls', Len(calls') + 1)
    BY <2>1, <2>2, KeepsFont
  <2>6. ~Drawing(calls, m, << "path", << x >> >>)
    BY <1>5, <2>1
  <2>7. FrameIsItsCalls'
    BY <2>1, <2>2, <2>6, KeepsList
  <2> QED
    BY <2>3, <2>4, <2>5, <2>7
<1>13. CASE DrawPath
  <2> DEFINE cmd == [kind |-> "path", points |-> path_builder]
  <2>1. /\ "paint" \in CallNames /\ << >> \in Seq(Int)
        /\ "paint" \notin {"push", "pop", "begin", "path"} /\ "paint" \notin {SmallFont, NormalFont}
    BY <1>2, <1>3, <1>4
  <2>2. /\ Call("paint", << >>)
        /\ draw' = IF path_builder = << >> THEN draw ELSE Append(draw, cmd)
        /\ UNCHANGED << current_font, origin_stack, path_builder >>
    BY <1>13 DEF DrawPath
  <2>3. path_builder = << >> <=> AddedAt(calls, m) = {}
    <3>1. Len(path_builder) = Cardinality(AddedAt(calls, m))
      BY <2>2 DEF GfxInv, Call, IsPath, Lists
    <3>2. IsFiniteSet(AddedAt(calls, m))
      BY AddedFacts, OffsetMeant, <2>2 DEF Call
    <3>3. Cardinality(AddedAt(calls, m)) = 0 <=> AddedAt(calls, m) = {}
      BY <3>2, FS_EmptySet
    <3>4. Len(path_builder) = 0 <=> path_builder = << >>
      BY <1>3
    <3> QED
      BY <3>1, <3>3, <3>4
  <2>4. FrameIsItsCalls'
    <3>1. CASE path_builder = << >>
      <4>1. ~Drawing(calls, m, << "paint", << >> >>)
        BY <2>3, <3>1 DEF Drawing
      <4> QED
        BY <1>3, <1>4, <2>2, <3>1, <4>1, KeepsList
    <3>2. CASE path_builder # << >>
      <4>1. Drawing(calls, m, << "paint", << >> >>)
        BY <2>3, <3>2 DEF Drawing
      <4>2. cmd \in Command
        BY <1>3 DEF Command, Kinds
      <4>3. IsDrawn(cmd, calls', m)
        <5>1. /\ Len(calls) \in Nat /\ Agree(calls, calls', Len(calls))
              /\ m \in 1..(Len(calls) + 1) /\ calls'[m][1] = "paint"
          <6>1. /\ Len(calls) \in Nat /\ Len(calls') = Len(calls) + 1 /\ Agree(calls, calls', Len(calls))
                /\ calls'[Len(calls) + 1] = << "paint", << >> >>
            BY <2>1, <2>2, CallFacts
          <6> QED
            BY <6>1
        <5>2. IsPath(path_builder, calls, m)
          BY <2>2 DEF GfxInv, Call
        <5>3. IsPath(path_builder, calls', m)
          BY <5>1, <5>2, DrawnSame
        <5> QED
          BY <5>1, <5>3 DEF IsDrawn
      <4>4. draw' = Append(draw, cmd)
        BY <2>2, <3>2
      <4> HIDE DEF cmd
      <4> QED
        BY <1>3, <1>4, <2>2, <4>1, <4>2, <4>3, <4>4, AddsToList
    <3> QED
      BY <3>1, <3>2
  <2>5. OriginsAgree'
    BY <2>1, <2>2, KeepsOrigins
  <2>6. current_font' = FontAt(calls', Len(calls') + 1)
    BY <2>1, <2>2, KeepsFont
  <2>7. IsPath(path_builder', calls', Len(calls') + 1)
    BY <2>1, <2>2, KeepsPath
  <2> QED
    BY <1>1, <2>4, <2>5, <2>6, <2>7
<1>14. CASE BadCall
  <2>1. /\ "bad" \in CallNames /\ << >> \in Seq(Int)
        /\ "bad" \notin {"push", "pop", "begin", "path"} /\ "bad" \notin {SmallFont, NormalFont}
    BY <1>2, <1>3, <1>4
  <2>2. Call("bad", << >>) /\ UNCHANGED << draw, current_font, origin_stack, path_builder >>
    BY <1>14 DEF BadCall
  <2>3. OriginsAgree'
    BY <2>1, <2>2, KeepsOrigins
  <2>4. current_font' = FontAt(calls', Len(calls') + 1)
    BY <2>1, <2>2, KeepsFont
  <2>5. IsPath(path_builder', calls', Len(calls') + 1)
    BY <2>1, <2>2, KeepsPath
  <2>6. ~Drawing(calls, m, << "bad", << >> >>)
    BY <1>5, <2>1
  <2>7. FrameIsItsCalls'
    BY <2>1, <2>2, <2>6, KeepsList
  <2> QED
    BY <1>1, <2>3, <2>4, <2>5, <2>7
<1>15. CASE RunFrame
  <2>1. /\ calls' = << >> /\ draw' = << >> /\ current_font' = SmallFont
        /\ origin_stack' = << >> /\ path_builder' = << >>
    BY <1>15 DEF RunFrame
  <2>2. Len(<< >>) = 0 /\ DOMAIN << >> = {} /\ Cardinality({}) = 0
    BY FS_EmptySet
  <2>3. \A j : j \notin 1..((0 + 1) - 1)
    OBVIOUS
  <2>4. /\ Opens(<< >>, 0 + 1) = {} /\ AddedAt(<< >>, 0 + 1) = {}
        /\ \A names : Named(<< >>, names, 1, (0 + 1) - 1) = {}
    BY <2>3 DEF Opens, AddedAt, Named
  <2>5. Draws(<< >>) = {}
    BY <2>2 DEF Draws
  <2>6. OriginsAgree'
    BY <2>1, <2>2, <2>4 DEF OriginsAgree, Lists
  <2>7. IsPath(path_builder', calls', Len(calls') + 1) /\ FrameIsItsCalls'
    BY <2>1, <2>2, <2>4, <2>5 DEF IsPath, Lists, FrameIsItsCalls
  <2>8. current_font' = FontAt(calls', Len(calls') + 1)
    BY <2>1, <2>2, <2>4 DEF FontAt
  <2> QED
    BY <1>1, <2>6, <2>7, <2>8
<1>16. CASE FrameDone \/ FrameFails
  BY <1>16 DEF FrameDone, FrameFails, GfxInv
<1>17. CASE UNCHANGED gfxVars
  BY <1>17 DEF gfxVars, GfxInv, OriginsAgree, FrameIsItsCalls, Lists
<1>18. CASE GfxCall
  BY <1>1, <1>2, <1>6, <1>7, <1>8, <1>9, <1>10, <1>11, <1>12, <1>13, <1>14, <1>18
     DEF GfxCall, Anchored, Segment, Corners
<1> QED
  BY <1>1, <1>15, <1>16, <1>17, <1>18 DEF GfxNext

\* What a frame shows follows from its own calls alone.
THEOREM FramesAreTheirCalls == GfxSpec => []FrameIsItsCalls
<1>1. GfxInit => GfxType /\ GfxInv
  <2>1. << >> \in Seq(Int) /\ << >> \in Seq(Command) /\ << >> \in Seq(CallRecord) /\ DOMAIN << >> = {}
    OBVIOUS
  <2> QED
    BY <2>1 DEF GfxInit, GfxType, GfxInv
<1>2. GfxType /\ GfxInv /\ [GfxNext]_gfxVars => (GfxType /\ GfxInv)'
  BY GfxTypeStep, GfxInvStep
<1>3. GfxInv => FrameIsItsCalls
  BY DEF GfxInv, FrameIsItsCalls
<1> QED
  BY <1>1, <1>2, <1>3, PTL DEF GfxSpec
=============================================================================
