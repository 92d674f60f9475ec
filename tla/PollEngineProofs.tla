-------------------------- MODULE PollEngineProofs --------------------------
(***************************************************************************)
(* Theorems of PollEngine, for every set of regions, devices and budgets   *)
(* and every bound.                                                        *)
(*                                                                         *)
(*   TypeCorrect            Spec => []TypeOK                               *)
(*   CacheInvariant         Spec => []CacheInv, the inductive invariant    *)
(*   FreshnessHolds         Spec => []AnsweredAfterAsked, when the device  *)
(*                          answers in full                                *)
(*   OwnBytesHold           Spec => []OwnBytes                             *)
(*   AgesHonest             Spec => []AgeHonest, when the device answers   *)
(*                          in full                                        *)
(*   WaitsAreBounded        Spec => []BoundedWait, when no region is       *)
(*                          refused                                        *)
(*   PlanHasEachWatchOnce   the planning functions: every watch in one     *)
(*   ChunksFitBudget        read, no read over the budget but a single     *)
(*   StalestAdmitted        watch, the stalest read always in the batch    *)
(*   BatchesAreFull         PlanSpec => []SelectAdmitsStalest              *)
(*   EngineImplementsCache  Spec => ImplementsCache                        *)
(***************************************************************************)
EXTENDS PollEngine, WatchPlans, Facts

-----------------------------------------------------------------------------
(* The planning functions only regroup the watches they are given.         *)

\* The lesser of two tiers is one of them: an upgrade stays a tier.
LEMMA MinOfTwo ==
  ASSUME NEW a \in WatchPriority, NEW b \in WatchPriority
  PROVE  Min({a, b}) \in WatchPriority
<1> DEFINE S == {a, b}
<1>1. \E x \in S : \A y \in S : x =< y
  BY DEF WatchPriority, Realtime, High, Normal, Low
<1>2. Min(S) \in S
  BY <1>1 DEF Min
<1> QED
  BY <1>2

\* The members of a coalesced read are among the watches coalesced.
LEMMA CoalesceMembers ==
  ASSUME NEW ws, NEW ids, NEW gap, NEW r \in Coalesce(ws, ids, gap)
  PROVE  r.members \subseteq ids
<1>1. PICK lead \in ids : r = FinishRun(ws, RunOf(ws, ids, gap, lead))
  BY DEF Coalesce
<1>2. r.members = RunOf(ws, ids, gap, lead)
  BY <1>1 DEF FinishRun
<1> QED
  BY <1>2 DEF RunOf

\* Coalescing leaves no watch out: the last leader at or before a watch has it
\* in its run.
LEMMA CoalesceCovers ==
  ASSUME NEW ws, NEW ids, NEW gap,
         \A v \in ids : First(ws, v) \in Nat,
         NEW w \in ids
  PROVE  \E r \in Coalesce(ws, ids, gap) : w \in r.members
<1> DEFINE Ranks(S) == {First(ws, v) : v \in S}
           beside == {v \in ids : SameSpace(ws, v, w)}
           leaders == {v \in beside : Leads(ws, ids, gap, v) /\ First(ws, v) <= First(ws, w)}
<1>1. SameSpace(ws, w, w) /\ \A u, v : SameSpace(ws, u, v) <=> SameSpace(ws, v, u)
  BY DEF SameSpace
<1>2. \A u, v, x : SameSpace(ws, u, v) /\ SameSpace(ws, v, x) => SameSpace(ws, u, x)
  BY DEF SameSpace
<1>3. leaders # {}
  <2>1. Ranks(beside) \in SUBSET Nat /\ First(ws, w) \in Ranks(beside)
    BY <1>1
  <2>2. PICK n \in Ranks(beside) : \A m \in Ranks(beside) : n <= m
    <3> HIDE DEF Ranks
    <3> QED
      BY <2>1, LeastNat
  <2>3. PICK u \in beside : First(ws, u) = n
    BY <2>2
  <2>4. \A v \in ids : SameSpace(ws, v, u) => First(ws, u) <= First(ws, v)
    BY <1>2, <2>2, <2>3
  <2>5. Leads(ws, ids, gap, u)
    BY <2>4 DEF Leads
  <2>6. First(ws, u) <= First(ws, w)
    BY <2>1, <2>2, <2>3
  <2> QED
    BY <2>5, <2>6
<1>4. PICK lead \in leaders : \A v \in leaders : First(ws, v) <= First(ws, lead)
  <2>1. Ranks(leaders) \in SUBSET Nat /\ Ranks(leaders) # {}
    BY <1>3
  <2>2. First(ws, w) \in Nat /\ \A m \in Ranks(leaders) : m <= First(ws, w)
    OBVIOUS
  <2>3. PICK n \in Ranks(leaders) : \A m \in Ranks(leaders) : m <= n
    <3> HIDE DEF Ranks
    <3> QED
      BY <2>1, <2>2, GreatestNat
  <2> QED
    BY <2>3
<1>5. w \in RunOf(ws, ids, gap, lead)
  <2>1. SameSpace(ws, w, lead) /\ First(ws, w) >= First(ws, lead)
    BY <1>1, <1>4
  <2>2. ASSUME NEW u \in ids, SameSpace(ws, u, lead), Leads(ws, ids, gap, u),
               First(ws, u) <= First(ws, w)
        PROVE  First(ws, u) <= First(ws, lead)
    <3>1. u \in leaders
      BY <1>1, <1>2, <1>4, <2>2
    <3> QED
      BY <1>4, <3>1
  <2> QED
    BY <2>1, <2>2 DEF RunOf
<1>6. FinishRun(ws, RunOf(ws, ids, gap, lead)) \in Coalesce(ws, ids, gap)
  BY <1>4 DEF Coalesce
<1>7. FinishRun(ws, RunOf(ws, ids, gap, lead)).members = RunOf(ws, ids, gap, lead)
  BY DEF FinishRun
<1> QED
  BY <1>5, <1>6, <1>7

\* What coalescing fuses is all it was given and nothing else.
LEMMA CoalesceMembersAre ==
  ASSUME NEW ws, NEW ids, NEW gap, \A v \in ids : First(ws, v) \in Nat
  PROVE  Members(Coalesce(ws, ids, gap)) = ids
<1>1. Members(Coalesce(ws, ids, gap)) \subseteq ids
  BY CoalesceMembers DEF Members
<1>2. ids \subseteq Members(Coalesce(ws, ids, gap))
  BY CoalesceCovers DEF Members
<1> QED
  BY <1>1, <1>2

\* A chunk's members are among those of a read it was cut from.
LEMMA SplitMembers ==
  ASSUME NEW ws, NEW reads, NEW budget, NEW ids,
         \A r \in reads : r.members \subseteq ids,
         NEW c \in SplitReadsToBudget(ws, reads, budget)
  PROVE  c.members \subseteq ids
<1>1. PICK r \in reads : c \in SplitRead(ws, r, Max({budget, 1}))
  BY DEF SplitReadsToBudget
<1>2. c.members \subseteq r.members
  <2> DEFINE head == ChunkHeads(ws, r.members, Max({budget, 1}))
             Chunk(h) == {m \in r.members : head[MemberRank(ws, r.members, m)] = h}
  <2>1. CASE Span(ws, r.members) <= Max({budget, 1})
    BY <1>1, <2>1 DEF SplitRead
  <2>2. CASE ~(Span(ws, r.members) <= Max({budget, 1}))
    <3>1. c \in {[members |-> Chunk(h), prio |-> r.prio] : h \in {head[i] : i \in DOMAIN head}}
      BY <1>1, <2>2 DEF SplitRead
    <3>2. PICK h : c = [members |-> Chunk(h), prio |-> r.prio]
      BY <3>1
    <3> QED
      BY <3>2
  <2> QED
    BY <2>1, <2>2
<1> QED
  BY <1>2

\* A batch is a subset of the reads it was selected from.
LEMMA SelectSubset ==
  ASSUME NEW ws, NEW reads, NEW budget, NEW rs, NEW c
  PROVE  SelectBulk(ws, reads, budget, rs, c) \subseteq reads
  BY DEF SelectBulk

\* The reads the bulk tier may issue hold active watches only.
LEMMA PendingMembers ==
  ASSUME NEW budget, NEW r \in PendingReads(budget)
  PROVE  r.members \subseteq DOMAIN watches
<1>1. \A q \in Coalesce(watches, BulkIds, Gap) : q.members \subseteq BulkIds
  BY CoalesceMembers
<1>2. r \in SplitReadsToBudget(watches, Coalesce(watches, BulkIds, Gap), budget)
  BY DEF PendingReads
<1>3. r.members \subseteq BulkIds
  BY <1>1, <1>2, SplitMembers
<1> QED
  BY <1>3 DEF BulkIds

-----------------------------------------------------------------------------
(* The plan of a cycle's reads holds each watch once, within the budget,   *)
(* and the batch selected from it has a stalest read.                      *)

\* What the planning functions are given: finitely many typed watches.
Plannable(ws, ids) ==
  /\ IsFiniteSet(ids) /\ ids \subseteq Nat
  /\ \A v \in ids : /\ First(ws, v) \in Nat /\ Beyond(ws, v) \in Nat
                    /\ First(ws, v) <= Beyond(ws, v)
                    /\ ws[v].region.space \in Nat /\ ws[v].prio \in WatchPriority

\* A part of a watch set is one.
LEMMA PlannablePart ==
  ASSUME NEW ws, NEW ids, Plannable(ws, ids), NEW part \in SUBSET ids
  PROVE  Plannable(ws, part)
<1>1. IsFiniteSet(part)
  BY FS_Subset DEF Plannable
<1> QED
  BY <1>1 DEF Plannable

\* The least of some natural numbers.
LEMMA MinNat ==
  ASSUME NEW S \in SUBSET Nat, S # {}
  PROVE  Min(S) \in S /\ \A m \in S : Min(S) <= m
<1>1. \E n \in S : \A m \in S : n <= m
  BY LeastNat
<1> QED
  BY <1>1 DEF Min

\* A read's first byte is that of a member, and its span is a number.
LEMMA SpanFacts ==
  ASSUME NEW ws, NEW ids, Plannable(ws, ids), ids # {}
  PROVE  /\ SpanFirst(ws, ids) \in Nat
         /\ \A v \in ids : SpanFirst(ws, ids) <= First(ws, v)
         /\ Span(ws, ids) \in Int
<1> DEFINE A == {First(ws, id) : id \in ids}
           B == {Beyond(ws, id) : id \in ids}
           f == [id \in ids |-> Beyond(ws, id)]
<1>1. \A v \in ids : First(ws, v) \in Nat /\ Beyond(ws, v) \in Nat
  BY DEF Plannable
<1>2. A \in SUBSET Nat /\ A # {} /\ B \in SUBSET Nat
  BY <1>1
<1>3. Min(A) \in A /\ \A m \in A : Min(A) <= m
  <2> HIDE DEF A
  <2> QED
    BY <1>2, MinNat
<1>4. PICK x \in ids : \A y \in ids : Beyond(ws, y) <= Beyond(ws, x)
  <2>1. f \in [ids -> Int]
    BY <1>1
  <2>2. \E x \in ids : \A y \in ids : f[y] <= f[x]
    <3> HIDE DEF f
    <3> QED
      BY <2>1, GreatestAt DEF Plannable
  <2> QED
    BY <2>2
<1>5. Max(B) \in B
  <2>1. Beyond(ws, x) \in B /\ \A y \in B : y =< Beyond(ws, x)
    BY <1>4
  <2> QED
    BY <2>1 DEF Max
<1>6. SpanFirst(ws, ids) = Min(A) /\ Span(ws, ids) = Max(B) - SpanFirst(ws, ids)
  BY DEF SpanFirst, Span
<1>7. SpanFirst(ws, ids) \in Nat /\ Span(ws, ids) \in Int
  <2> HIDE DEF A, B
  <2>1. Min(A) \in Nat /\ Max(B) \in Nat
    BY <1>2, <1>3, <1>5
  <2> QED
    BY <1>6, <2>1
<1> QED
  BY <1>3, <1>6, <1>7

\* A read asks for no fewer than no bytes.
LEMMA SpanNat ==
  ASSUME NEW ws, NEW ids, Plannable(ws, ids), ids # {}
  PROVE  Span(ws, ids) \in Nat
<1> DEFINE A == {First(ws, id) : id \in ids}
           B == {Beyond(ws, id) : id \in ids}
           f == [id \in ids |-> Beyond(ws, id)]
<1>1. \A v \in ids : First(ws, v) \in Nat /\ Beyond(ws, v) \in Nat /\ First(ws, v) <= Beyond(ws, v)
  BY DEF Plannable
<1>2. PICK x \in ids : \A y \in ids : Beyond(ws, y) <= Beyond(ws, x)
  <2>1. f \in [ids -> Int]
    BY <1>1
  <2>2. \E x \in ids : \A y \in ids : f[y] <= f[x]
    <3> HIDE DEF f
    <3> QED
      BY <2>1, GreatestAt DEF Plannable
  <2> QED
    BY <2>2
<1>3. Max(B) \in B /\ Beyond(ws, x) <= Max(B)
  <2>1. Beyond(ws, x) \in B /\ \A y \in B : y =< Beyond(ws, x)
    BY <1>2
  <2>2. Max(B) \in B /\ \A y \in B : y =< Max(B)
    BY <2>1 DEF Max
  <2> QED
    BY <2>1, <2>2
<1>4. SpanFirst(ws, ids) <= First(ws, x) /\ SpanFirst(ws, ids) \in Nat
  BY SpanFacts
<1>5. Span(ws, ids) = Max(B) - SpanFirst(ws, ids)
  BY DEF Span
<1>6. Max(B) \in Nat
  BY <1>1, <1>3
<1> HIDE DEF B
<1> QED
  BY <1>1, <1>3, <1>4, <1>5, <1>6

\* A read's lead is its member before all the others.
LEMMA LeadFacts ==
  ASSUME NEW ws, NEW ids, Plannable(ws, ids), ids # {}
  PROVE  /\ LeadMember(ws, ids) \in ids
         /\ \A v \in ids \ {LeadMember(ws, ids)} : MemberBefore(ws, LeadMember(ws, ids), v)
<1> DEFINE lowest == {v \in ids : First(ws, v) = SpanFirst(ws, ids)}
<1>1. lowest # {}
  <2>1. SpanFirst(ws, ids) \in {First(ws, id) : id \in ids}
    <3> DEFINE A == {First(ws, id) : id \in ids}
    <3>1. A \in SUBSET Nat /\ A # {}
      BY DEF Plannable
    <3>2. Min(A) \in A
      <4> HIDE DEF A
      <4> QED
        BY <3>1, MinNat
    <3> QED
      BY <3>2 DEF SpanFirst
  <2> QED
    BY <2>1
<1>2. lowest \in SUBSET Nat
  BY DEF Plannable
<1>3. PICK m \in lowest : \A v \in lowest : m <= v
  <2> HIDE DEF lowest
  <2> QED
    BY <1>1, <1>2, LeastNat
<1>4. \A v \in ids \ {m} : MemberBefore(ws, m, v)
  <2> SUFFICES ASSUME NEW v \in ids, v # m PROVE MemberBefore(ws, m, v)
    OBVIOUS
  <2>1. First(ws, m) <= First(ws, v) /\ First(ws, m) \in Nat /\ First(ws, v) \in Nat
    BY SpanFacts DEF Plannable
  <2>2. First(ws, m) = First(ws, v) => m <= v
    BY <1>3
  <2>3. m \in Nat /\ v \in Nat
    BY DEF Plannable
  <2> QED
    BY <2>1, <2>2, <2>3 DEF MemberBefore
<1> QED
  BY <1>4 DEF LeadMember

\* Ranks number the members from 1.
LEMMA RankBound ==
  ASSUME NEW ws, NEW ids, Plannable(ws, ids), NEW m \in ids
  PROVE  MemberRank(ws, ids, m) \in 1..Cardinality(ids)
<1> DEFINE before == {v \in ids : MemberBefore(ws, v, m)}
<1>1. First(ws, m) \in Nat /\ m \in Nat /\ IsFiniteSet(ids)
  BY DEF Plannable
<1>2. m \notin before
  BY <1>1 DEF MemberBefore
<1>3. before \in SUBSET (ids \ {m})
  BY <1>2
<1>4. IsFiniteSet(ids \ {m}) /\ Cardinality(ids \ {m}) = Cardinality(ids) - 1
  BY <1>1, FS_RemoveElement
<1>5. IsFiniteSet(before) /\ Cardinality(before) <= Cardinality(ids \ {m})
  BY <1>3, <1>4, FS_Subset
<1>6. Cardinality(before) \in Nat /\ Cardinality(ids) \in Nat
  BY <1>1, <1>5, FS_CardinalityType
<1>7. MemberRank(ws, ids, m) = Cardinality(before) + 1
  BY DEF MemberRank
<1> QED
  BY <1>4, <1>5, <1>6, <1>7

\* The members ranked i to j.
Slice(ws, ids, i, j) == {m \in ids : MemberRank(ws, ids, m) \in i..j}

\* A chunk goes on as long as it stays within the budget.
NextHead(ws, ids, budget, i, h) == IF Span(ws, Slice(ws, ids, h, i)) > budget THEN i ELSE h

\* The heads of the chunks are given for every rank.
LEMMA HeadsGiven ==
  ASSUME NEW ws, NEW ids, NEW budget, Cardinality(ids) \in Nat
  PROVE  ChunkHeads(ws, ids, budget) =
           [i \in 1..Cardinality(ids) |->
              IF i = 1 THEN 1
              ELSE NextHead(ws, ids, budget, i, ChunkHeads(ws, ids, budget)[i - 1])]
<1> DEFINE n == Cardinality(ids)
           next(i, h) == NextHead(ws, ids, budget, i, h)
           Upto(k, f) == f = [i \in 1..k |-> IF i = 1 THEN 1 ELSE next(i, f[i - 1])]
           missing == {k \in 0..n : ~\E f : Upto(k, f)}
<1>1. ASSUME NEW k \in 1..n, NEW f, Upto(k - 1, f)
      PROVE  \E g : Upto(k, g)
  <2> DEFINE g == [i \in 1..k |-> IF i < k THEN f[i] ELSE IF k = 1 THEN 1 ELSE next(k, f[k - 1])]
  <2> HIDE DEF next
  <2>1. \A i \in 1..(k - 1) : f[i] = IF i = 1 THEN 1 ELSE next(i, f[i - 1])
    BY <1>1
  <2>2. \A i \in 1..k : g[i] = IF i = 1 THEN 1 ELSE next(i, g[i - 1])
    BY <2>1
  <2>3. g = [i \in 1..k |-> IF i = 1 THEN 1 ELSE next(i, g[i - 1])]
    BY <2>2
  <2> QED
    BY <2>3
<1>2. missing = {}
  <2> SUFFICES ASSUME missing # {} PROVE FALSE
    OBVIOUS
  <2>1. missing \in SUBSET Nat
    OBVIOUS
  <2>2. PICK k \in missing : \A j \in missing : k <= j
    <3> HIDE DEF missing
    <3> QED
      BY <2>1, LeastNat
  <2>3. Upto(0, << >>)
    OBVIOUS
  <2>4. k # 0 /\ k \in 1..n /\ k - 1 \in 0..n /\ k - 1 \notin missing
    <3> HIDE DEF Upto
    <3> QED
      BY <2>2, <2>3
  <2>5. PICK f : Upto(k - 1, f)
    <3> HIDE DEF Upto
    <3> QED
      BY <2>4
  <2>6. \E g : Upto(k, g)
    <3> HIDE DEF Upto
    <3> QED
      BY <1>1, <2>4, <2>5
  <2> HIDE DEF Upto
  <2> QED
    BY <2>2, <2>6
<1>3. \E f : Upto(n, f)
  <2>1. n \in 0..n
    OBVIOUS
  <2> HIDE DEF Upto, n
  <2> QED
    BY <1>2, <2>1
<1>4. ChunkHeads(ws, ids, budget) = CHOOSE f : Upto(n, f)
  BY DEF ChunkHeads, NextHead, Slice
<1>5. Upto(n, ChunkHeads(ws, ids, budget))
  <2> HIDE DEF Upto
  <2> QED
    BY <1>3, <1>4
<1> QED
  BY <1>5

\* Reads fused from watches of one space lie more than the gap apart.
LEMMA RunsApart ==
  ASSUME NEW ws, NEW ids, NEW gap \in Nat, Plannable(ws, ids),
         NEW r \in Coalesce(ws, ids, gap), NEW q \in Coalesce(ws, ids, gap), r # q,
         NEW v \in r.members, NEW w \in q.members, SameSpace(ws, v, w)
  PROVE  Beyond(ws, v) + gap < First(ws, w) \/ Beyond(ws, w) + gap < First(ws, v)
<1> DEFINE Run(x) == RunOf(ws, ids, gap, x)
           Lead(x) == Leads(ws, ids, gap, x)
<1>1. PICK a \in ids : Lead(a) /\ r = FinishRun(ws, Run(a))
  BY DEF Coalesce
<1>2. PICK b \in ids : Lead(b) /\ q = FinishRun(ws, Run(b))
  BY DEF Coalesce
<1>3. v \in Run(a) /\ w \in Run(b)
  BY <1>1, <1>2 DEF FinishRun
<1>4. /\ v \in ids /\ SameSpace(ws, v, a) /\ First(ws, v) >= First(ws, a)
      /\ \A u \in ids : SameSpace(ws, u, a) /\ Lead(u) /\ First(ws, u) <= First(ws, v)
                          => First(ws, u) <= First(ws, a)
  BY <1>3 DEF RunOf
<1>5. /\ w \in ids /\ SameSpace(ws, w, b) /\ First(ws, w) >= First(ws, b)
      /\ \A u \in ids : SameSpace(ws, u, b) /\ Lead(u) /\ First(ws, u) <= First(ws, w)
                          => First(ws, u) <= First(ws, b)
  BY <1>3 DEF RunOf
<1>6. /\ First(ws, a) \in Nat /\ First(ws, b) \in Nat /\ First(ws, v) \in Nat
      /\ First(ws, w) \in Nat /\ Beyond(ws, v) \in Nat /\ Beyond(ws, w) \in Nat
  BY <1>4, <1>5 DEF Plannable
<1>7. SameSpace(ws, b, a) /\ SameSpace(ws, a, b) /\ SameSpace(ws, v, b) /\ SameSpace(ws, w, a)
  BY <1>4, <1>5 DEF SameSpace
<1>8. CASE First(ws, a) < First(ws, b)
  <2>1. First(ws, v) < First(ws, b)
    BY <1>2, <1>4, <1>6, <1>7, <1>8
  <2>2. Beyond(ws, v) + gap < First(ws, b)
    BY <1>2, <1>4, <1>7, <2>1 DEF Leads
  <2> QED
    BY <1>5, <1>6, <2>2
<1>9. CASE First(ws, b) < First(ws, a)
  <2>1. First(ws, w) < First(ws, a)
    BY <1>1, <1>5, <1>6, <1>7, <1>9
  <2>2. Beyond(ws, w) + gap < First(ws, a)
    BY <1>1, <1>5, <1>7, <2>1 DEF Leads
  <2> QED
    BY <1>4, <1>6, <2>2
<1>10. CASE First(ws, a) = First(ws, b)
  <2>1. \A u : SameSpace(ws, u, a) <=> SameSpace(ws, u, b)
    BY <1>7 DEF SameSpace
  <2>2. Run(a) = Run(b)
    BY <1>10, <2>1 DEF RunOf
  <2> QED
    BY <1>1, <1>2, <2>2
<1> QED
  BY <1>6, <1>8, <1>9, <1>10

\* No watch is in two fused reads.
LEMMA RunsDisjoint ==
  ASSUME NEW ws, NEW ids, NEW gap \in Nat, Plannable(ws, ids),
         NEW r \in Coalesce(ws, ids, gap), NEW q \in Coalesce(ws, ids, gap),
         NEW v \in r.members, v \in q.members
  PROVE  r = q
<1>1. v \in ids
  BY CoalesceMembers
<1>2. SameSpace(ws, v, v) /\ First(ws, v) \in Nat /\ Beyond(ws, v) \in Nat
      /\ First(ws, v) <= Beyond(ws, v)
  BY <1>1 DEF SameSpace, Plannable
<1>3. SUFFICES ASSUME r # q PROVE FALSE
  OBVIOUS
<1>4. Beyond(ws, v) + gap < First(ws, v)
  BY <1>2, <1>3, RunsApart
<1> QED
  BY <1>2, <1>4

\* The chunks of a read hold all its members.
LEMMA SplitCovers ==
  ASSUME NEW ws, NEW read, NEW budget, Plannable(ws, read.members), NEW m \in read.members
  PROVE  \E c \in SplitRead(ws, read, budget) : m \in c.members
<1>1. CASE Span(ws, read.members) <= budget
  BY <1>1 DEF SplitRead
<1>2. CASE ~(Span(ws, read.members) <= budget)
  <2> DEFINE head == ChunkHeads(ws, read.members, budget)
             Chunk(h) == {v \in read.members : head[MemberRank(ws, read.members, v)] = h}
             chunk == [members |-> Chunk(head[MemberRank(ws, read.members, m)]),
                       prio |-> read.prio]
  <2>1. Cardinality(read.members) \in Nat
    BY FS_CardinalityType DEF Plannable
  <2>2. MemberRank(ws, read.members, m) \in DOMAIN head
    BY <2>1, RankBound, HeadsGiven
  <2>3. m \in chunk.members
    OBVIOUS
  <2>4. SplitRead(ws, read, budget)
          = {[members |-> Chunk(h), prio |-> read.prio] : h \in {head[i] : i \in DOMAIN head}}
    BY <1>2 DEF SplitRead
  <2>5. chunk \in SplitRead(ws, read, budget)
    <3> HIDE DEF head, Chunk
    <3> QED
      BY <2>2, <2>4
  <2> QED
    BY <2>3, <2>5
<1> QED
  BY <1>1, <1>2

\* No member is in two chunks of a read.
LEMMA ChunksDisjoint ==
  ASSUME NEW ws, NEW read, NEW budget,
         NEW c \in SplitRead(ws, read, budget), NEW d \in SplitRead(ws, read, budget),
         NEW m \in c.members, m \in d.members
  PROVE  c = d
<1>1. CASE Span(ws, read.members) <= budget
  BY <1>1 DEF SplitRead
<1>2. CASE ~(Span(ws, read.members) <= budget)
  <2> DEFINE head == ChunkHeads(ws, read.members, budget)
             Chunk(h) == {v \in read.members : head[MemberRank(ws, read.members, v)] = h}
  <2>1. SplitRead(ws, read, budget)
          = {[members |-> Chunk(h), prio |-> read.prio] : h \in {head[i] : i \in DOMAIN head}}
    BY <1>2 DEF SplitRead
  <2> HIDE DEF head
  <2>2. PICK h : c = [members |-> Chunk(h), prio |-> read.prio]
    BY <2>1
  <2>3. PICK k : d = [members |-> Chunk(k), prio |-> read.prio]
    BY <2>1
  <2>4. m \in Chunk(h) /\ m \in Chunk(k)
    BY <2>2, <2>3
  <2>5. h = k
    BY <2>4
  <2> QED
    BY <2>2, <2>3, <2>5
<1> QED
  BY <1>1, <1>2

\* A chunk is no part of another read.
LEMMA SplitWithin ==
  ASSUME NEW ws, NEW read, NEW budget, NEW c \in SplitRead(ws, read, budget)
  PROVE  c.members \subseteq read.members /\ c.prio = read.prio
<1> DEFINE head == ChunkHeads(ws, read.members, budget)
           Chunk(h) == {v \in read.members : head[MemberRank(ws, read.members, v)] = h}
<1>1. CASE Span(ws, read.members) <= budget
  BY <1>1 DEF SplitRead
<1>2. CASE ~(Span(ws, read.members) <= budget)
  <2>1. SplitRead(ws, read, budget)
          = {[members |-> Chunk(h), prio |-> read.prio] : h \in {head[i] : i \in DOMAIN head}}
    BY <1>2 DEF SplitRead
  <2> HIDE DEF head
  <2>2. PICK h : c = [members |-> Chunk(h), prio |-> read.prio]
    BY <2>1
  <2> QED
    BY <2>2
<1> QED
  BY <1>1, <1>2

\* However the watches of a tier are coalesced and split, each is in exactly
\* one read of the plan (engine.rs coalesce, split_reads_to_budget).
THEOREM PlanHasEachWatchOnce ==
  ASSUME NEW ws, NEW ids, NEW gap \in Nat, NEW budget, Plannable(ws, ids),
         NEW w \in ids
  PROVE  \E c \in SplitReadsToBudget(ws, Coalesce(ws, ids, gap), budget) :
           /\ w \in c.members
           /\ \A d \in SplitReadsToBudget(ws, Coalesce(ws, ids, gap), budget) :
                w \in d.members => d = c
<1> DEFINE fused == Coalesce(ws, ids, gap)
           limit == Max({budget, 1})
           plan == SplitReadsToBudget(ws, fused, budget)
<1> HIDE DEF fused, limit, plan
<1>1. \A c : c \in plan <=> \E r \in fused : c \in SplitRead(ws, r, limit)
  BY DEF plan, limit, SplitReadsToBudget
<1>2. PICK r \in fused : w \in r.members
  <2>1. \A v \in ids : First(ws, v) \in Nat
    BY DEF Plannable
  <2> QED
    BY <2>1, CoalesceCovers DEF fused
<1>3. Plannable(ws, r.members)
  BY CoalesceMembers, PlannablePart DEF fused
<1>4. PICK c \in SplitRead(ws, r, limit) : w \in c.members
  BY <1>2, <1>3, SplitCovers
<1>5. ASSUME NEW d \in plan, w \in d.members
      PROVE  d = c
  <2>1. PICK q \in fused : d \in SplitRead(ws, q, limit)
    BY <1>1
  <2>2. w \in q.members
    BY <1>5, <2>1, SplitWithin
  <2>3. q = r
    BY <1>2, <2>2, RunsDisjoint DEF fused
  <2> QED
    BY <1>4, <1>5, <2>1, <2>3, ChunksDisjoint
<1>6. c \in plan
  BY <1>1, <1>4
<1> QED
  BY <1>4, <1>5, <1>6 DEF plan, fused

\* No two members have the same rank.
LEMMA RanksDiffer ==
  ASSUME NEW ws, NEW ids, Plannable(ws, ids), NEW v \in ids, NEW w \in ids,
         MemberRank(ws, ids, v) = MemberRank(ws, ids, w)
  PROVE  v = w
<1> DEFINE Before(x) == {u \in ids : MemberBefore(ws, u, x)}
<1>1. ASSUME NEW x \in ids, NEW y \in ids, MemberBefore(ws, x, y)
      PROVE  MemberRank(ws, ids, x) < MemberRank(ws, ids, y)
  <2>1. ids \subseteq Nat /\ \A u \in ids : First(ws, u) \in Nat
    BY DEF Plannable
  <2>2. x \notin Before(x)
    BY <2>1 DEF MemberBefore
  <2>3. Before(x) \cup {x} \in SUBSET Before(y)
    <3>1. \A u \in ids : MemberBefore(ws, u, x) => MemberBefore(ws, u, y)
      BY <1>1, <2>1 DEF MemberBefore
    <3> QED
      BY <1>1, <3>1
  <2>4. IsFiniteSet(Before(x)) /\ IsFiniteSet(Before(y))
    BY FS_Subset DEF Plannable
  <2>5. Cardinality(Before(x) \cup {x}) = Cardinality(Before(x)) + 1
    <3> HIDE DEF Before
    <3> QED
      BY <2>2, <2>4, FS_AddElement
  <2>6. Cardinality(Before(x) \cup {x}) <= Cardinality(Before(y))
    <3> HIDE DEF Before
    <3> QED
      BY <2>3, <2>4, FS_Subset
  <2>7. Cardinality(Before(x)) \in Nat /\ Cardinality(Before(y)) \in Nat
    BY <2>4, FS_CardinalityType
  <2>8. /\ MemberRank(ws, ids, x) = Cardinality(Before(x)) + 1
        /\ MemberRank(ws, ids, y) = Cardinality(Before(y)) + 1
    BY DEF MemberRank
  <2> QED
    BY <2>5, <2>6, <2>7, <2>8
<1>2. \A x \in ids : MemberRank(ws, ids, x) \in Nat
  <2>1. Cardinality(ids) \in Nat
    BY FS_CardinalityType DEF Plannable
  <2> QED
    BY <2>1, RankBound
<1>3. v # w => MemberBefore(ws, v, w) \/ MemberBefore(ws, w, v)
  <2>1. First(ws, v) \in Nat /\ First(ws, w) \in Nat /\ v \in Nat /\ w \in Nat
    BY DEF Plannable
  <2> QED
    BY <2>1 DEF MemberBefore
<1>4. ~MemberBefore(ws, v, w) /\ ~MemberBefore(ws, w, v)
  BY <1>1, <1>2
<1> QED
  BY <1>3, <1>4

\* Every rank is that of a member.
LEMMA RanksTaken ==
  ASSUME NEW ws, NEW ids, Plannable(ws, ids), NEW i \in 1..Cardinality(ids)
  PROVE  \E m \in ids : MemberRank(ws, ids, m) = i
<1> DEFINE n == Cardinality(ids)
           f == [m \in ids |-> MemberRank(ws, ids, m)]
<1>1. n \in Nat /\ IsFiniteSet(ids)
  BY FS_CardinalityType DEF Plannable
<1>2. IsFiniteSet(1..n) /\ Cardinality(1..n) = n
  <2> HIDE DEF n
  <2>1. 1 \in Int /\ n \in Int
    BY <1>1
  <2>2. IsFiniteSet(1..n) /\ Cardinality(1..n) = IF 1 > n THEN 0 ELSE n - 1 + 1
    BY <2>1, FS_Interval
  <2> QED
    BY <1>1, <2>2
<1>3. f \in Injection(ids, 1..n)
  <2>1. f \in [ids -> 1..n]
    BY RankBound
  <2>2. \A v, w \in ids : f[v] = f[w] => v = w
    BY RanksDiffer
  <2> HIDE DEF f, n
  <2> QED
    BY <2>1, <2>2 DEF Injection, IsInjective
<1>4. f \in Surjection(ids, 1..n)
  <2> HIDE DEF f
  <2> QED
    BY <1>2, <1>3, FS_Injection
<1>5. \E m \in ids : f[m] = i
  <2> HIDE DEF f
  <2> QED
    BY <1>4 DEF Surjection
<1> QED
  BY <1>5

\* Up to a rank, the chunk that holds it is the ranks from its head on, and
\* is within the budget unless it is only the head.
LEMMA HeadRuns ==
  ASSUME NEW ws, NEW ids, NEW budget, Cardinality(ids) \in Nat,
         NEW i \in 1..Cardinality(ids)
  PROVE  LET head == ChunkHeads(ws, ids, budget) IN
         /\ head[i] \in 1..i
         /\ \A j \in head[i]..i : head[j] = head[i]
         /\ head[i] = i \/ ~(Span(ws, Slice(ws, ids, head[i], i)) > budget)
<1> DEFINE n == Cardinality(ids)
           head == ChunkHeads(ws, ids, budget)
           Good(k) == /\ head[k] \in 1..k
                      /\ \A j \in head[k]..k : head[j] = head[k]
                      /\ head[k] = k \/ ~(Span(ws, Slice(ws, ids, head[k], k)) > budget)
           bad == {k \in 1..n : ~Good(k)}
<1>1. \A k \in 1..n : head[k] = IF k = 1 THEN 1 ELSE NextHead(ws, ids, budget, k, head[k - 1])
  BY HeadsGiven
<1> HIDE DEF head
<1>2. Good(1)
  <2>1. 1 \in 1..n => head[1] = 1
    BY <1>1
  <2> QED
    BY <2>1
<1>3. ASSUME NEW k \in 1..n, k # 1, Good(k - 1)
      PROVE  Good(k)
  <2>1. head[k] = NextHead(ws, ids, budget, k, head[k - 1])
    BY <1>1, <1>3
  <2>2. CASE Span(ws, Slice(ws, ids, head[k - 1], k)) > budget
    BY <2>1, <2>2 DEF NextHead
  <2>3. CASE ~(Span(ws, Slice(ws, ids, head[k - 1], k)) > budget)
    <3>1. head[k] = head[k - 1]
      BY <2>1, <2>3 DEF NextHead
    <3>2. \A j \in head[k]..k : j = k \/ j \in head[k - 1]..(k - 1)
      BY <1>3, <3>1
    <3> QED
      BY <1>3, <2>3, <3>1, <3>2
  <2> QED
    BY <2>2, <2>3
<1>4. bad = {}
  <2> SUFFICES ASSUME bad # {} PROVE FALSE
    OBVIOUS
  <2>1. bad \in SUBSET Nat
    OBVIOUS
  <2>2. PICK k \in bad : \A j \in bad : k <= j
    <3> HIDE DEF bad
    <3> QED
      BY <2>1, LeastNat
  <2> HIDE DEF Good
  <2>3. k # 1 /\ k \in 1..n /\ k - 1 \in 1..n /\ k - 1 \notin bad
    BY <1>2, <2>2
  <2> QED
    BY <1>3, <2>2, <2>3
<1>5. Good(i)
  <2> HIDE DEF Good
  <2> QED
    BY <1>4
<1> QED
  BY <1>5 DEF head

\* A chunk is over the budget only when it is a single watch.
THEOREM ChunksFitBudget ==
  ASSUME NEW ws, NEW read, NEW budget \in Int, Plannable(ws, read.members),
         NEW c \in SplitRead(ws, read, budget), NEW v \in c.members, NEW w \in c.members,
         v # w
  PROVE  Span(ws, c.members) <= budget
<1> DEFINE ids == read.members
           n == Cardinality(ids)
           head == ChunkHeads(ws, ids, budget)
           Rank(m) == MemberRank(ws, ids, m)
<1>1. n \in Nat
  BY FS_CardinalityType DEF Plannable
<1>2. \A m \in ids : Rank(m) \in 1..n
  BY RankBound
<1>3. CASE Span(ws, ids) <= budget
  BY <1>3 DEF SplitRead
<1>4. CASE ~(Span(ws, ids) <= budget)
  <2> DEFINE Chunk(h) == {m \in ids : head[Rank(m)] = h}
  <2>1. SplitRead(ws, read, budget)
          = {[members |-> Chunk(h), prio |-> read.prio] : h \in {head[i] : i \in DOMAIN head}}
    BY <1>4 DEF SplitRead
  <2>2. DOMAIN head = 1..n
    BY <1>1, HeadsGiven
  <2> HIDE DEF head, Rank, n
  <2>3. PICK i \in 1..n : c = [members |-> Chunk(head[i]), prio |-> read.prio]
    BY <2>1, <2>2
  <2> DEFINE h == head[i]
             ranks == {j \in 1..n : head[j] = h}
  <2>4. c.members = Chunk(h)
    BY <2>3
  <2>5. PICK last \in ranks : \A j \in ranks : j <= last
    <3>1. ranks \in SUBSET Nat /\ ranks # {} /\ \A j \in ranks : j <= n
      BY <1>1
    <3> HIDE DEF ranks
    <3> QED
      BY <1>1, <3>1, GreatestNat
  <2>6. \A j \in 1..n : head[j] \in 1..j /\ \A k \in head[j]..j : head[k] = head[j]
    BY <1>1, HeadRuns DEF head, n
  <2>7. h = last \/ ~(Span(ws, Slice(ws, ids, h, last)) > budget)
    <3>1. last \in 1..n /\ head[last] = h
      BY <2>5
    <3> HIDE DEF h
    <3> QED
      BY <1>1, <3>1, HeadRuns DEF head, n
  <2>8. Chunk(h) = Slice(ws, ids, h, last)
    <3>1. \A j \in 1..n : head[j] = h <=> j \in h..last
      BY <2>5, <2>6
    <3> HIDE DEF h
    <3> QED
      BY <1>2, <3>1 DEF Slice, Rank
  <2>9. h # last
    <3>1. v \in ids /\ w \in ids /\ Rank(v) \in h..last /\ Rank(w) \in h..last
      BY <2>4, <2>8 DEF Slice, Rank
    <3>2. Rank(v) # Rank(w)
      BY <3>1, RanksDiffer DEF Rank
    <3> QED
      BY <1>2, <3>1, <3>2
  <2>10. Span(ws, c.members) \in Int
    <3>1. Plannable(ws, c.members)
      BY <2>4, PlannablePart
    <3> QED
      BY <3>1, SpanFacts
  <2>11. c.members = Slice(ws, ids, h, last)
    BY <2>4, <2>8
  <2>12. ~(Span(ws, c.members) > budget)
    BY <2>7, <2>9, <2>11
  <2> QED
    BY <2>10, <2>12
<1> QED
  BY <1>3, <1>4

\* Reads to select from: finitely many, each of some typed watches.
Selectable(ws, reads) ==
  /\ IsFiniteSet(reads)
  /\ \A r \in reads : Plannable(ws, r.members) /\ r.members # {} /\ r.prio \in WatchPriority

\* A read is as stale as its stalest member.
LEMMA StalenessFacts ==
  ASSUME NEW rs, NEW now \in Nat, NEW r, r.members # {},
         \A id \in r.members : RefreshCycle(rs, id) \in 0..now
  PROVE  /\ Staleness(rs, now, r) \in 0..now
         /\ \A id \in r.members : now - RefreshCycle(rs, id) <= Staleness(rs, now, r)
         /\ \E id \in r.members : now - RefreshCycle(rs, id) = Staleness(rs, now, r)
<1> DEFINE C == {RefreshCycle(rs, id) : id \in r.members}
<1>1. C \in SUBSET Nat /\ C # {} /\ \A m \in C : m \in 0..now
  OBVIOUS
<1>2. Min(C) \in C /\ \A m \in C : Min(C) <= m
  <2> HIDE DEF C
  <2> QED
    BY <1>1, MinNat
<1>3. Min(C) \in 0..now
  <2> HIDE DEF C
  <2> QED
    BY <1>1, <1>2
<1>4. Staleness(rs, now, r) = now - Min(C)
  BY <1>3 DEF Staleness
<1>5. PICK id \in r.members : Min(C) = RefreshCycle(rs, id)
  BY <1>2
<1>6. \A v \in r.members : Min(C) <= RefreshCycle(rs, v)
  BY <1>2
<1> HIDE DEF C
<1> QED
  BY <1>3, <1>4, <1>5, <1>6

\* The order of selection: staleness first, then the four that break a tie.
LEMMA BeforeCases ==
  ASSUME NEW ws, NEW rs, NEW now, NEW a, NEW b
  PROVE  ReadBefore(ws, rs, now, a, b) <=>
    \/ -Staleness(rs, now, a) < -Staleness(rs, now, b)
    \/ /\ -Staleness(rs, now, a) = -Staleness(rs, now, b)
       /\ \/ a.prio < b.prio
          \/ /\ a.prio = b.prio
             /\ \/ SpanFirst(ws, a.members) < SpanFirst(ws, b.members)
                \/ /\ SpanFirst(ws, a.members) = SpanFirst(ws, b.members)
                   /\ \/ ws[LeadMember(ws, a.members)].region.space
                           < ws[LeadMember(ws, b.members)].region.space
                      \/ /\ ws[LeadMember(ws, a.members)].region.space
                              = ws[LeadMember(ws, b.members)].region.space
                         /\ LeadMember(ws, a.members) < LeadMember(ws, b.members)
<1> DEFINE Key(r) == << -Staleness(rs, now, r), r.prio, SpanFirst(ws, r.members),
                        ws[LeadMember(ws, r.members)].region.space,
                        LeadMember(ws, r.members) >>
           Less(i) == Key(a)[i] < Key(b)[i]
           Same(i) == Key(a)[i] = Key(b)[i]
<1>1. ReadBefore(ws, rs, now, a, b)
        <=> \E i \in 1..5 : Less(i) /\ \A j \in 1..(i - 1) : Same(j)
  BY DEF ReadBefore
<1> HIDE DEF Less, Same
<1>2. (\E i \in 1..5 : Less(i) /\ \A j \in 1..(i - 1) : Same(j))
        <=> \/ Less(1)
            \/ Same(1) /\ (\/ Less(2)
                           \/ Same(2) /\ (\/ Less(3)
                                          \/ Same(3) /\ (\/ Less(4)
                                                         \/ Same(4) /\ Less(5))))
  <2>1. 1..5 = {1, 2, 3, 4, 5} /\ 1..(1-1) = {} /\ 1..(2-1) = {1} /\ 1..(3-1) = {1, 2}
        /\ 1..(4-1) = {1, 2, 3} /\ 1..(5-1) = {1, 2, 3, 4}
    OBVIOUS
  <2> QED
    BY <2>1
<1> QED
  BY <1>1, <1>2 DEF Less, Same

\* Some read comes before all others.
LEMMA FirstRead ==
  ASSUME NEW ws, NEW reads, NEW rs, NEW now \in Nat, Selectable(ws, reads), reads # {},
         \A r \in reads : \A id \in r.members : RefreshCycle(rs, id) \in 0..now
  PROVE  \E r \in reads : \A q \in reads : ~ReadBefore(ws, rs, now, q, r)
<1> DEFINE k1 == [r \in reads |-> now - Staleness(rs, now, r)]
           k2 == [r \in reads |-> r.prio]
           k3 == [r \in reads |-> SpanFirst(ws, r.members)]
           k4 == [r \in reads |-> ws[LeadMember(ws, r.members)].region.space]
           k5 == [r \in reads |-> LeadMember(ws, r.members)]
<1>1. \A r \in reads : /\ Staleness(rs, now, r) \in 0..now
                       /\ r.prio \in Nat
                       /\ SpanFirst(ws, r.members) \in Nat
                       /\ ws[LeadMember(ws, r.members)].region.space \in Nat
                       /\ LeadMember(ws, r.members) \in Nat
  <2> TAKE r \in reads
  <2>1. Plannable(ws, r.members) /\ r.members # {} /\ r.prio \in WatchPriority
    BY DEF Selectable
  <2>2. Staleness(rs, now, r) \in 0..now
    BY <2>1, StalenessFacts
  <2>3. SpanFirst(ws, r.members) \in Nat
    BY <2>1, SpanFacts
  <2>4. LeadMember(ws, r.members) \in r.members
    BY <2>1, LeadFacts
  <2> QED
    BY <2>1, <2>2, <2>3, <2>4
       DEF Plannable, WatchPriority, Realtime, High, Normal, Low
<1>2. /\ k1 \in [reads -> Nat] /\ k2 \in [reads -> Nat] /\ k3 \in [reads -> Nat]
      /\ k4 \in [reads -> Nat] /\ k5 \in [reads -> Nat]
  BY <1>1
<1>3. ASSUME NEW S \in SUBSET reads, S # {}, NEW k \in [reads -> Nat]
      PROVE  \E x \in S : \A y \in S : k[x] <= k[y]
  <2> DEFINE f == [x \in S |-> k[x]]
  <2>1. f \in [S -> Nat]
    BY <1>3
  <2>2. \E x \in S : \A y \in S : f[x] <= f[y]
    <3> HIDE DEF f
    <3> QED
      BY <1>3, <2>1, LeastAt
  <2> QED
    BY <2>2
<1>4. PICK a \in reads : \A q \in reads : k1[a] <= k1[q]
  <2> HIDE DEF k1
  <2> QED
    BY <1>2, <1>3
<1> HIDE DEF k1, k2, k3, k4, k5
<1>5. PICK b \in {q \in reads : k1[q] = k1[a]} : \A q \in {q \in reads : k1[q] = k1[a]} : k2[b] <= k2[q]
  <2> DEFINE S == {q \in reads : k1[q] = k1[a]}
  <2>1. S \in SUBSET reads /\ S # {}
    OBVIOUS
  <2> HIDE DEF S
  <2>2. \E x \in S : \A y \in S : k2[x] <= k2[y]
    BY <1>2, <1>3, <2>1
  <2> QED
    BY <2>2 DEF S
<1>6. PICK c \in {q \in reads : k1[q] = k1[a] /\ k2[q] = k2[b]} :
        \A q \in {q \in reads : k1[q] = k1[a] /\ k2[q] = k2[b]} : k3[c] <= k3[q]
  <2> DEFINE S == {q \in reads : k1[q] = k1[a] /\ k2[q] = k2[b]}
  <2>1. S \in SUBSET reads /\ S # {}
    BY <1>5
  <2> HIDE DEF S
  <2>2. \E x \in S : \A y \in S : k3[x] <= k3[y]
    BY <1>2, <1>3, <2>1
  <2> QED
    BY <2>2 DEF S
<1>7. PICK d \in {q \in reads : k1[q] = k1[a] /\ k2[q] = k2[b] /\ k3[q] = k3[c]} :
        \A q \in {q \in reads : k1[q] = k1[a] /\ k2[q] = k2[b] /\ k3[q] = k3[c]} : k4[d] <= k4[q]
  <2> DEFINE S == {q \in reads : k1[q] = k1[a] /\ k2[q] = k2[b] /\ k3[q] = k3[c]}
  <2>1. S \in SUBSET reads /\ S # {}
    BY <1>6
  <2> HIDE DEF S
  <2>2. \E x \in S : \A y \in S : k4[x] <= k4[y]
    BY <1>2, <1>3, <2>1
  <2> QED
    BY <2>2 DEF S
<1>8. PICK e \in {q \in reads : k1[q] = k1[a] /\ k2[q] = k2[b] /\ k3[q] = k3[c] /\ k4[q] = k4[d]} :
        \A q \in {q \in reads : k1[q] = k1[a] /\ k2[q] = k2[b] /\ k3[q] = k3[c] /\ k4[q] = k4[d]} :
          k5[e] <= k5[q]
  <2> DEFINE S == {q \in reads : k1[q] = k1[a] /\ k2[q] = k2[b] /\ k3[q] = k3[c] /\ k4[q] = k4[d]}
  <2>1. S \in SUBSET reads /\ S # {}
    BY <1>7
  <2> HIDE DEF S
  <2>2. \E x \in S : \A y \in S : k5[x] <= k5[y]
    BY <1>2, <1>3, <2>1
  <2> QED
    BY <2>2 DEF S
<1>9. ASSUME NEW q \in reads
      PROVE  ~ReadBefore(ws, rs, now, q, e)
  <2>1. /\ k1[q] = now - Staleness(rs, now, q) /\ k1[e] = now - Staleness(rs, now, e)
        /\ k2[q] = q.prio /\ k2[e] = e.prio
        /\ k3[q] = SpanFirst(ws, q.members) /\ k3[e] = SpanFirst(ws, e.members)
        /\ k4[q] = ws[LeadMember(ws, q.members)].region.space
        /\ k4[e] = ws[LeadMember(ws, e.members)].region.space
        /\ k5[q] = LeadMember(ws, q.members) /\ k5[e] = LeadMember(ws, e.members)
    BY <1>8 DEF k1, k2, k3, k4, k5
  <2>2. /\ k1[q] \in Nat /\ k2[q] \in Nat /\ k3[q] \in Nat /\ k4[q] \in Nat /\ k5[q] \in Nat
        /\ k1[e] \in Nat /\ k2[e] \in Nat /\ k3[e] \in Nat /\ k4[e] \in Nat /\ k5[e] \in Nat
    BY <1>2, <1>8
  <2>3. k1[e] <= k1[q]
    BY <1>4, <1>8
  <2>4. k1[e] = k1[q] => k2[e] <= k2[q]
    BY <1>5, <1>8
  <2>5. k1[e] = k1[q] /\ k2[e] = k2[q] => k3[e] <= k3[q]
    BY <1>6, <1>8
  <2>6. k1[e] = k1[q] /\ k2[e] = k2[q] /\ k3[e] = k3[q] => k4[e] <= k4[q]
    BY <1>7, <1>8
  <2>7. k1[e] = k1[q] /\ k2[e] = k2[q] /\ k3[e] = k3[q] /\ k4[e] = k4[q] => k5[e] <= k5[q]
    BY <1>8
  <2>8. Staleness(rs, now, q) \in 0..now /\ Staleness(rs, now, e) \in 0..now
    BY <1>1, <1>8
  <2>9. /\ -Staleness(rs, now, q) = k1[q] - now /\ -Staleness(rs, now, e) = k1[e] - now
    BY <2>1, <2>8
  <2>10. ReadBefore(ws, rs, now, q, e) <=>
           \/ k1[q] - now < k1[e] - now
           \/ /\ k1[q] - now = k1[e] - now
              /\ \/ k2[q] < k2[e]
                 \/ /\ k2[q] = k2[e]
                    /\ \/ k3[q] < k3[e]
                       \/ /\ k3[q] = k3[e]
                          /\ \/ k4[q] < k4[e]
                             \/ k4[q] = k4[e] /\ k5[q] < k5[e]
    BY <2>1, <2>9, BeforeCases
  <2> QED
    BY <2>2, <2>3, <2>4, <2>5, <2>6, <2>7, <2>10
<1> QED
  BY <1>8, <1>9

\* Reads that nothing comes before have rank 1, and only those.
LEMMA RankOne ==
  ASSUME NEW ws, NEW reads, NEW rs, NEW now, IsFiniteSet(reads), NEW r \in reads
  PROVE  ReadRank(ws, rs, now, reads, r) = 1
           <=> \A q \in reads : ~ReadBefore(ws, rs, now, q, r)
<1> DEFINE before == {q \in reads : ReadBefore(ws, rs, now, q, r)}
<1>1. IsFiniteSet(before)
  BY FS_Subset
<1>2. Cardinality(before) \in Nat /\ (Cardinality(before) = 0 <=> before = {})
  <2> HIDE DEF before
  <2> QED
    BY <1>1, FS_CardinalityType, FS_EmptySet
<1>3. ReadRank(ws, rs, now, reads, r) = Cardinality(before) + 1
  BY DEF ReadRank
<1>4. ReadRank(ws, rs, now, reads, r) = 1 <=> Cardinality(before) = 0
  <2> HIDE DEF before
  <2> QED
    BY <1>2, <1>3
<1> QED
  BY <1>2, <1>4

\* What select_bulk takes off the budget that is left at a read of size n.
Take(n, left) == IF n <= left THEN n ELSE 0

\* The read that select_bulk comes to as the i-th.
ReadAt(ws, rs, now, reads, i) == CHOOSE r \in reads : ReadRank(ws, rs, now, reads, r) = i

\* What select_bulk has left of the budget after each read, in their order, and
\* the batch that it selects.
Leaves(ws, reads, budget, rs, now, left) ==
  /\ left[0] = budget
  /\ \A i \in 1..Cardinality(reads) :
       left[i] = left[i - 1]
                   - Take(Span(ws, ReadAt(ws, rs, now, reads, i).members), left[i - 1])
  /\ SelectBulk(ws, reads, budget, rs, now) =
       IF reads # {} /\ GoesAlone(Span(ws, ReadAt(ws, rs, now, reads, 1).members), budget)
       THEN {r \in reads : ReadRank(ws, rs, now, reads, r) = 1}
       ELSE {r \in reads : Span(ws, r.members) <= left[ReadRank(ws, rs, now, reads, r) - 1]}

\* There is such an account.
LEMMA LeftGiven ==
  ASSUME NEW ws, NEW reads, NEW budget, NEW rs, NEW now, Cardinality(reads) \in Nat
  PROVE  \E left : Leaves(ws, reads, budget, rs, now, left)
<1> DEFINE Rank(r) == ReadRank(ws, rs, now, reads, r)
           At(i) == CHOOSE r \in reads : Rank(r) = i
           Size(r) == Span(ws, r.members)
           n == Cardinality(reads)
           next(i, b) == b - (IF Size(At(i)) <= b THEN Size(At(i)) ELSE 0)
           Upto(k, f) == f = [i \in 0..k |-> IF i = 0 THEN budget ELSE next(i, f[i - 1])]
           left == CHOOSE f : Upto(n, f)
           missing == {k \in 0..n : ~\E f : Upto(k, f)}
<1>1. n \in Nat
  OBVIOUS
<1>2. ASSUME NEW k \in 1..n, NEW f, Upto(k - 1, f)
      PROVE  \E g : Upto(k, g)
  <2> DEFINE g == [i \in 0..k |-> IF i < k THEN f[i] ELSE next(k, f[k - 1])]
  <2> HIDE DEF next
  <2>1. \A i \in 0..(k - 1) : f[i] = IF i = 0 THEN budget ELSE next(i, f[i - 1])
    <3>1. f = [i \in 0..(k - 1) |-> IF i = 0 THEN budget ELSE next(i, f[i - 1])]
      BY <1>2
    <3> QED
      BY <3>1
  <2>2. \A i \in 0..k : g[i] = IF i = 0 THEN budget ELSE next(i, g[i - 1])
    <3>1. n \in Nat /\ k \in Nat /\ k >= 1
      BY <1>1
    <3>2. \A i \in 0..k : i < k => g[i] = f[i] /\ i \in 0..(k - 1)
      BY <3>1
    <3>3. \A i \in 0..k : i < k /\ i # 0 => g[i - 1] = f[i - 1]
      BY <3>1
    <3>4. g[k] = next(k, f[k - 1]) /\ g[k - 1] = f[k - 1]
      BY <3>1
    <3> HIDE DEF g
    <3>5. \A i \in 0..k : i < k => g[i] = IF i = 0 THEN budget ELSE next(i, g[i - 1])
      BY <2>1, <3>2, <3>3
    <3>6. g[k] = IF k = 0 THEN budget ELSE next(k, g[k - 1])
      BY <3>1, <3>4
    <3> QED
      BY <3>1, <3>5, <3>6
  <2>3. g = [i \in 0..k |-> IF i = 0 THEN budget ELSE next(i, g[i - 1])]
    BY <2>2
  <2> QED
    BY <2>3
<1>3. missing = {}
  <2> SUFFICES ASSUME missing # {} PROVE FALSE
    OBVIOUS
  <2>1. missing \in SUBSET Nat
    OBVIOUS
  <2>2. PICK k \in missing : \A j \in missing : k <= j
    <3> HIDE DEF missing
    <3> QED
      BY <2>1, LeastNat
  <2>3. \E f : Upto(0, f)
    <3> DEFINE f == [i \in 0..0 |-> budget]
    <3> HIDE DEF next
    <3>1. f = [i \in 0..0 |-> IF i = 0 THEN budget ELSE next(i, f[i - 1])]
      OBVIOUS
    <3> QED
      BY <3>1
  <2>4. k # 0 /\ k \in 1..n /\ k - 1 \in 0..n /\ k - 1 \notin missing
    <3> HIDE DEF Upto
    <3> QED
      BY <1>1, <2>2, <2>3
  <2>5. PICK f : Upto(k - 1, f)
    <3> HIDE DEF Upto
    <3> QED
      BY <2>4
  <2>6. \E g : Upto(k, g)
    <3> HIDE DEF Upto
    <3> QED
      BY <1>2, <2>4, <2>5
  <2> HIDE DEF Upto
  <2> QED
    BY <2>2, <2>6
<1>4. left[0] = budget /\ \A i \in 1..n : left[i] = next(i, left[i - 1])
  <2>1. \E f : Upto(n, f)
    <3>1. n \in 0..n
      BY <1>1
    <3> HIDE DEF Upto, n
    <3> QED
      BY <1>3, <3>1
  <2>2. Upto(n, left)
    <3> HIDE DEF Upto
    <3> QED
      BY <2>1
  <2> HIDE DEF left, next
  <2>3. left = [i \in 0..n |-> IF i = 0 THEN budget ELSE next(i, left[i - 1])]
    BY <2>2
  <2> HIDE DEF n
  <2> QED
    BY <1>1, <2>3
<1>5. SelectBulk(ws, reads, budget, rs, now) =
        IF reads # {} /\ GoesAlone(Size(At(1)), budget)
        THEN {r \in reads : Rank(r) = 1}
        ELSE {r \in reads : Size(r) <= left[Rank(r) - 1]}
  BY DEF SelectBulk
<1>6. \A i : At(i) = ReadAt(ws, rs, now, reads, i)
  BY DEF ReadAt
<1> HIDE DEF At
<1>7. \A i, b : next(i, b) = b - Take(Span(ws, ReadAt(ws, rs, now, reads, i).members), b)
  BY <1>6 DEF Take
<1> HIDE DEF left, next
<1>8. Leaves(ws, reads, budget, rs, now, left)
  BY <1>4, <1>5, <1>6, <1>7 DEF Leaves
<1> QED
  BY <1>8

\* The batch holds a stalest read, whatever its size.
THEOREM StalestAdmitted ==
  ASSUME NEW ws, NEW reads, NEW budget \in Int, NEW rs, NEW now \in Nat,
         Selectable(ws, reads), reads # {},
         \A r \in reads : \A id \in r.members : RefreshCycle(rs, id) \in 0..now
  PROVE  \E r \in SelectBulk(ws, reads, budget, rs, now) :
           \A q \in reads : Staleness(rs, now, q) <= Staleness(rs, now, r)
<1> DEFINE first == ReadAt(ws, rs, now, reads, 1)
           Rank(r) == ReadRank(ws, rs, now, reads, r)
<1>1. first \in reads /\ Rank(first) = 1 /\ \A q \in reads : ~ReadBefore(ws, rs, now, q, first)
  <2>1. IsFiniteSet(reads)
    BY DEF Selectable
  <2>2. PICK r \in reads : \A q \in reads : ~ReadBefore(ws, rs, now, q, r)
    BY FirstRead
  <2>3. Rank(r) = 1
    BY <2>1, <2>2, RankOne
  <2>4. first \in reads /\ Rank(first) = 1
    BY <2>3 DEF ReadAt
  <2> HIDE DEF first
  <2> QED
    BY <2>1, <2>4, RankOne
<1>2. ASSUME NEW q \in reads
      PROVE  Staleness(rs, now, q) <= Staleness(rs, now, first)
  <2> HIDE DEF first
  <2>1. \A r \in reads : Staleness(rs, now, r) \in 0..now
    BY StalenessFacts DEF Selectable
  <2>2. ~(-Staleness(rs, now, q) < -Staleness(rs, now, first))
    BY <1>1, BeforeCases
  <2> QED
    BY <1>1, <2>1, <2>2
<1>3. Cardinality(reads) \in Nat
  BY FS_CardinalityType DEF Selectable
<1>4. PICK left : Leaves(ws, reads, budget, rs, now, left)
  BY <1>3, LeftGiven
<1>5. /\ left[0] = budget
      /\ SelectBulk(ws, reads, budget, rs, now) =
           IF reads # {} /\ GoesAlone(Span(ws, first.members), budget)
           THEN {r \in reads : Rank(r) = 1}
           ELSE {r \in reads : Span(ws, r.members) <= left[Rank(r) - 1]}
  BY <1>4 DEF Leaves
<1>6. Span(ws, first.members) \in Int
  <2> HIDE DEF first
  <2> QED
    BY <1>1, SpanFacts DEF Selectable
<1> HIDE DEF first, Rank
<1>7. first \in SelectBulk(ws, reads, budget, rs, now)
  <2>1. CASE Span(ws, first.members) > budget
    BY <1>1, <1>5, <2>1 DEF GoesAlone
  <2>2. CASE ~(Span(ws, first.members) > budget)
    <3>1. Span(ws, first.members) <= budget /\ Rank(first) - 1 = 0
      BY <1>1, <1>6, <2>2
    <3> QED
      BY <1>1, <1>5, <2>2, <3>1 DEF GoesAlone
  <2> QED
    BY <2>1, <2>2
<1> QED
  BY <1>2, <1>7

\* No watch is in two reads.
Apart(reads) == \A r, q \in reads : r # q => r.members \cap q.members = {}

\* The order of selection is a total order of reads that share no watch.
LEMMA BeforeOrder ==
  ASSUME NEW ws, NEW reads, NEW rs, NEW now \in Nat, Selectable(ws, reads), Apart(reads),
         \A r \in reads : \A id \in r.members : RefreshCycle(rs, id) \in 0..now
  PROVE  /\ \A a \in reads : ~ReadBefore(ws, rs, now, a, a)
         /\ \A a, b \in reads :
              a # b => ReadBefore(ws, rs, now, a, b) \/ ReadBefore(ws, rs, now, b, a)
         /\ \A a, b, c \in reads :
              ReadBefore(ws, rs, now, a, b) /\ ReadBefore(ws, rs, now, b, c)
                => ReadBefore(ws, rs, now, a, c)
<1> DEFINE k1(r) == -Staleness(rs, now, r)
           k2(r) == r.prio
           k3(r) == SpanFirst(ws, r.members)
           k4(r) == ws[LeadMember(ws, r.members)].region.space
           k5(r) == LeadMember(ws, r.members)
           Before(a, b) == ReadBefore(ws, rs, now, a, b)
<1>1. \A r \in reads : /\ k1(r) \in Int /\ k2(r) \in Int /\ k3(r) \in Int /\ k4(r) \in Int
                       /\ k5(r) \in Int /\ k5(r) \in r.members
  <2> TAKE r \in reads
  <2>1. Plannable(ws, r.members) /\ r.members # {} /\ r.prio \in WatchPriority
    BY DEF Selectable
  <2>2. Staleness(rs, now, r) \in 0..now
    BY <2>1, StalenessFacts
  <2>3. SpanFirst(ws, r.members) \in Nat
    BY <2>1, SpanFacts
  <2>4. LeadMember(ws, r.members) \in r.members
    BY <2>1, LeadFacts
  <2> QED
    BY <2>1, <2>2, <2>3, <2>4
       DEF Plannable, WatchPriority, Realtime, High, Normal, Low
<1>2. \A a, b : Before(a, b) <=>
        \/ k1(a) < k1(b)
        \/ k1(a) = k1(b) /\ (\/ k2(a) < k2(b)
                             \/ k2(a) = k2(b) /\ (\/ k3(a) < k3(b)
                                                  \/ k3(a) = k3(b) /\ (\/ k4(a) < k4(b)
                                                                       \/ k4(a) = k4(b) /\ k5(a) < k5(b))))
  <2> TAKE a, b
  <2> QED
    BY BeforeCases
<1>3. \A a, b \in reads : a # b => k5(a) # k5(b)
  BY <1>1 DEF Apart
<1> HIDE DEF k1, k2, k3, k4, k5, Before
<1>4. \A a \in reads : ~Before(a, a)
  BY <1>1, <1>2
<1>5. \A a, b \in reads : a # b => Before(a, b) \/ Before(b, a)
  BY <1>1, <1>2, <1>3
<1>6. \A a, b, c \in reads : Before(a, b) /\ Before(b, c) => Before(a, c)
  BY <1>1, <1>2
<1> QED
  BY <1>4, <1>5, <1>6 DEF Before

\* Ranks number the reads from 1.
LEMMA ReadRanks ==
  ASSUME NEW ws, NEW reads, NEW rs, NEW now \in Nat, Selectable(ws, reads), Apart(reads),
         \A r \in reads : \A id \in r.members : RefreshCycle(rs, id) \in 0..now
  PROVE  /\ \A r \in reads : ReadRank(ws, rs, now, reads, r) \in 1..Cardinality(reads)
         /\ \A r, q \in reads :
              ReadRank(ws, rs, now, reads, r) = ReadRank(ws, rs, now, reads, q) => r = q
         /\ \A i \in 1..Cardinality(reads) :
              \E r \in reads : ReadRank(ws, rs, now, reads, r) = i
<1> DEFINE Before(a, b) == ReadBefore(ws, rs, now, a, b)
           Earlier(r) == {q \in reads : Before(q, r)}
           Rank(r) == ReadRank(ws, rs, now, reads, r)
           n == Cardinality(reads)
           f == [r \in reads |-> Rank(r)]
<1>1. IsFiniteSet(reads) /\ n \in Nat
  BY FS_CardinalityType DEF Selectable
<1>2. \A r \in reads : IsFiniteSet(Earlier(r)) /\ Cardinality(Earlier(r)) \in Nat
  <2> TAKE r \in reads
  <2>1. IsFiniteSet(Earlier(r))
    BY <1>1, FS_Subset
  <2> QED
    BY <2>1, FS_CardinalityType
<1>3. \A r : Rank(r) = Cardinality(Earlier(r)) + 1
  BY DEF ReadRank
<1>4. /\ \A a \in reads : ~Before(a, a)
      /\ \A a, b \in reads : a # b => Before(a, b) \/ Before(b, a)
      /\ \A a, b, c \in reads : Before(a, b) /\ Before(b, c) => Before(a, c)
  BY BeforeOrder
<1> HIDE DEF Before, Rank
<1>5. ASSUME NEW a \in reads, NEW b \in reads, Before(a, b)
      PROVE  Rank(a) < Rank(b)
  <2>1. Earlier(a) \cup {a} \in SUBSET Earlier(b) /\ a \notin Earlier(a)
    BY <1>4, <1>5
  <2>2. Cardinality(Earlier(a) \cup {a}) = Cardinality(Earlier(a)) + 1
    <3> HIDE DEF Earlier
    <3> QED
      BY <1>2, <2>1, FS_AddElement
  <2>3. Cardinality(Earlier(a) \cup {a}) <= Cardinality(Earlier(b))
    <3> HIDE DEF Earlier
    <3> QED
      BY <1>2, <2>1, FS_Subset
  <2> HIDE DEF Earlier
  <2> QED
    BY <1>2, <1>3, <2>2, <2>3
<1>6. \A r \in reads : Rank(r) \in 1..n
  <2> TAKE r \in reads
  <2>1. Earlier(r) \in SUBSET (reads \ {r})
    BY <1>4
  <2>2. IsFiniteSet(reads \ {r}) /\ Cardinality(reads \ {r}) = n - 1
    BY <1>1, FS_RemoveElement
  <2>3. Cardinality(Earlier(r)) <= n - 1
    <3> HIDE DEF Earlier, n
    <3> QED
      BY <2>1, <2>2, FS_Subset
  <2> HIDE DEF Earlier, n
  <2> QED
    BY <1>1, <1>2, <1>3, <2>3
<1>7. \A r, q \in reads : Rank(r) = Rank(q) => r = q
  <2> HIDE DEF n
  <2> QED
    BY <1>1, <1>4, <1>5, <1>6
<1>8. f \in Surjection(reads, 1..n)
  <2>1. IsFiniteSet(1..n) /\ Cardinality(1..n) = n
    <3> HIDE DEF n
    <3>1. 1 \in Int /\ n \in Int
      BY <1>1
    <3>2. IsFiniteSet(1..n) /\ Cardinality(1..n) = IF 1 > n THEN 0 ELSE n - 1 + 1
      BY <3>1, FS_Interval
    <3> QED
      BY <1>1, <3>2
  <2>2. f \in Injection(reads, 1..n)
    <3>1. f \in [reads -> 1..n]
      BY <1>6
    <3>2. \A r, q \in reads : f[r] = f[q] => r = q
      BY <1>7
    <3> HIDE DEF f, n
    <3> QED
      BY <3>1, <3>2 DEF Injection, IsInjective
  <2> HIDE DEF f
  <2> QED
    BY <2>1, <2>2, FS_Injection
<1>9. \A i \in 1..n : \E r \in reads : Rank(r) = i
  <2>1. \A i \in 1..n : \E r \in reads : f[r] = i
    <3> HIDE DEF f, n
    <3> QED
      BY <1>8 DEF Surjection
  <2> QED
    BY <2>1
<1> QED
  BY <1>6, <1>7, <1>9 DEF Rank

\* A batch's bytes are the sum of its reads' spans.
LEMMA BytesAreSum ==
  ASSUME NEW ws, NEW reads, IsFiniteSet(reads), NEW f,
         \A r \in reads : f[r] = Span(ws, r.members)
  PROVE  Bytes(ws, reads) = SumFunctionOnSet(f, reads)
<1> DEFINE c(s) == CHOOSE x \in s : TRUE
           Adds(g) == g = [s \in SUBSET reads |->
                             IF s = {} THEN 0
                             ELSE Span(ws, c(s).members) + g[s \ {c(s)}]]
           G == CHOOSE g : Adds(g)
           H == CHOOSE g : Sums(f, reads, g)
<1>1. Bytes(ws, reads) = G[reads]
  BY DEF Bytes, MapThenSumSet, MapThenFoldSet
<1>2. SumFunctionOnSet(f, reads) = H[reads]
  BY DEF SumFunctionOnSet, FoldFunctionOnSet, MapThenFoldSet, Sums
<1>3. ASSUME NEW g
      PROVE  Adds(g) <=> Sums(f, reads, g)
  <2>1. \A s \in SUBSET reads : s # {} => Span(ws, c(s).members) = f[c(s)]
    OBVIOUS
  <2>2. [s \in SUBSET reads |-> IF s = {} THEN 0 ELSE Span(ws, c(s).members) + g[s \ {c(s)}]]
          = [s \in SUBSET reads |-> IF s = {} THEN 0 ELSE f[c(s)] + g[s \ {c(s)}]]
    <3> HIDE DEF c
    <3> QED
      BY <2>1
  <2> QED
    BY <2>2 DEF Sums
<1>4. PICK g : Sums(f, reads, g)
  BY SumsExist
<1>5. Sums(f, reads, H)
  BY <1>4
<1>6. Adds(G)
  <2>1. Adds(g)
    BY <1>3, <1>4
  <2> HIDE DEF Adds
  <2> QED
    BY <2>1
<1>7. Sums(f, reads, G)
  <2> HIDE DEF Adds, G
  <2> QED
    BY <1>3, <1>6
<1> HIDE DEF G, H
<1>8. G[reads] = H[reads]
  BY <1>5, <1>7, SumsAgree
<1> QED
  BY <1>1, <1>2, <1>8

\* A batch keeps to the budget, unless one read that is over it goes alone, and
\* leaves out no read that would still have fitted.
LEMMA BatchFilled ==
  ASSUME NEW ws, NEW reads, NEW budget \in Nat, NEW rs, NEW now \in Nat,
         Selectable(ws, reads), Apart(reads), reads # {},
         \A r \in reads : \A id \in r.members : RefreshCycle(rs, id) \in 0..now
  PROVE  LET sel == SelectBulk(ws, reads, budget, rs, now)
             size == Bytes(ws, sel)
         IN  /\ size > budget => Cardinality(sel) = 1
             /\ size <= budget => \A r \in reads \ sel : size + Span(ws, r.members) > budget
<1> DEFINE Rank(r) == ReadRank(ws, rs, now, reads, r)
           At(i) == ReadAt(ws, rs, now, reads, i)
           n == Cardinality(reads)
           sel == SelectBulk(ws, reads, budget, rs, now)
           f == [r \in reads |-> Span(ws, r.members)]
           Total(S) == SumFunctionOnSet(f, S)
<1>1. IsFiniteSet(reads) /\ n \in Nat
  BY FS_CardinalityType DEF Selectable
<1>2. \A r \in reads : f[r] = Span(ws, r.members) /\ f[r] \in Nat
  BY SpanNat DEF Selectable
<1>3. /\ \A r \in reads : Rank(r) \in 1..n
      /\ \A r, q \in reads : Rank(r) = Rank(q) => r = q
      /\ \A i \in 1..n : \E r \in reads : Rank(r) = i
  BY ReadRanks
<1>4. \A i \in 1..n : At(i) \in reads /\ Rank(At(i)) = i
  <2> TAKE i \in 1..n
  <2>1. \E r \in reads : Rank(r) = i
    BY <1>3
  <2> QED
    BY <2>1 DEF ReadAt
<1>5. PICK left : Leaves(ws, reads, budget, rs, now, left)
  BY <1>1, LeftGiven
<1>6. /\ left[0] = budget
      /\ \A i \in 1..n : left[i] = left[i - 1] - Take(Span(ws, At(i).members), left[i - 1])
      /\ sel = IF reads # {} /\ GoesAlone(Span(ws, At(1).members), budget)
                 THEN {r \in reads : Rank(r) = 1}
                 ELSE {r \in reads : Span(ws, r.members) <= left[Rank(r) - 1]}
  BY <1>5 DEF Leaves
<1>7. n \in Nat \ {0} /\ 1 \in 1..n
  <2>1. n # 0
    BY <1>1, FS_EmptySet
  <2> HIDE DEF n
  <2> QED
    BY <1>1, <2>1
<1>8. sel \in SUBSET reads
  BY SelectSubset
<1>9. IsFiniteSet(sel) /\ Bytes(ws, sel) = Total(sel)
  <2> HIDE DEF sel, f
  <2>1. IsFiniteSet(sel)
    BY <1>1, <1>8, FS_Subset
  <2>2. \A r \in sel : f[r] = Span(ws, r.members)
    BY <1>2, <1>8
  <2> QED
    BY <2>1, <2>2, BytesAreSum
<1> HIDE DEF sel, f, n, At, Rank
<1>10. CASE GoesAlone(Span(ws, At(1).members), budget)
  <2>1. sel = {At(1)}
    BY <1>3, <1>4, <1>6, <1>7, <1>10
  <2>2. Cardinality(sel) = 1
    BY <2>1, FS_Singleton
  <2>3. Total(sel) = f[At(1)]
    <3>1. IsFiniteSet({}) /\ Total({}) = 0
      BY FS_EmptySet, SumStep
    <3>2. Total({} \cup {At(1)}) = f[At(1)] + Total({})
      <4>1. \A x \in {} \cup {At(1)} : f[x] \in Int
        BY <1>2, <1>4, <1>7
      <4>2. At(1) \notin {}
        OBVIOUS
      <4> HIDE DEF Total
      <4> QED
        BY <3>1, <4>1, <4>2, SumOneMore DEF Total
    <3>3. sel = {} \cup {At(1)}
      BY <2>1
    <3> HIDE DEF Total
    <3> QED
      BY <1>2, <1>4, <1>7, <3>1, <3>2, <3>3
  <2>4. f[At(1)] > budget /\ f[At(1)] \in Nat
    BY <1>2, <1>4, <1>7, <1>10 DEF GoesAlone
  <2> HIDE DEF Total
  <2> QED
    BY <1>9, <2>2, <2>3, <2>4 DEF sel
<1>11. CASE ~GoesAlone(Span(ws, At(1).members), budget)
  <2> DEFINE Taken(k) == {r \in sel : Rank(r) <= k}
             Good(k) == /\ left[k] \in Nat
                        /\ left[k] + Total(Taken(k)) = budget
                        /\ \A j \in 0..k : left[j] \in Nat /\ left[k] <= left[j]
             bad == {k \in 0..n : ~Good(k)}
  <2>1. sel = {r \in reads : f[r] <= left[Rank(r) - 1]}
    BY <1>2, <1>6, <1>11
  <2>2. Good(0)
    <3>1. Taken(0) = {}
      BY <1>3, <1>7, <1>8
    <3>2. Total({}) = 0
      BY FS_EmptySet, SumStep
    <3>3. Total(Taken(0)) = 0
      BY <3>1, <3>2
    <3>4. left[0] = budget /\ \A j \in 0..0 : j = 0
      BY <1>6
    <3> HIDE DEF Taken, Total
    <3> QED
      BY <3>3, <3>4
  <2>3. ASSUME NEW k \in 1..n, Good(k - 1)
        PROVE  Good(k)
    <3>1. k \in Nat /\ k - 1 \in Nat /\ n \in Nat
      BY <1>7
    <3> DEFINE r == At(k)
    <3>2. r \in reads /\ Rank(r) = k /\ f[r] \in Nat /\ f[r] = Span(ws, r.members)
      BY <1>2, <1>4
    <3>3. \A q \in reads : Rank(q) = k => q = r
      BY <1>3, <3>2
    <3> HIDE DEF r
    <3>4. left[k] = left[k - 1] - Take(f[r], left[k - 1])
      BY <1>6, <3>2 DEF r
    <3>5. left[k - 1] \in Nat /\ left[k - 1] + Total(Taken(k - 1)) = budget
      BY <2>3
    <3>6. \A q \in sel : q \in reads /\ Rank(q) \in 1..n
      BY <1>3, <1>8
    <3>7. IsFiniteSet(Taken(k - 1))
      BY <1>9, FS_Subset
    <3>8. left[k] \in Nat /\ left[k] <= left[k - 1] /\ left[k] + Total(Taken(k)) = budget
      <4>1. CASE f[r] <= left[k - 1]
        <5>1. r \in sel
          BY <2>1, <3>2, <4>1
        <5>2. Taken(k) = Taken(k - 1) \cup {r} /\ r \notin Taken(k - 1)
          BY <3>1, <3>2, <3>3, <3>6, <5>1
        <5>3. \A x \in Taken(k - 1) \cup {r} : f[x] \in Int
          BY <1>2, <3>2, <3>6
        <5>4. /\ Total(Taken(k - 1) \cup {r}) = f[r] + Total(Taken(k - 1))
              /\ Total(Taken(k - 1)) \in Int
          <6> HIDE DEF Taken
          <6> QED
            BY <3>7, <5>2, <5>3, SumOneMore
        <5>5. left[k] = left[k - 1] - f[r]
          BY <3>4, <4>1 DEF Take
        <5> HIDE DEF Taken, Total
        <5> QED
          BY <3>2, <3>5, <4>1, <5>2, <5>4, <5>5
      <4>2. CASE ~(f[r] <= left[k - 1])
        <5>1. r \notin sel
          BY <2>1, <3>2, <4>2
        <5>2. Taken(k) = Taken(k - 1)
          BY <3>1, <3>2, <3>3, <3>6, <5>1
        <5>3. left[k] = left[k - 1]
          BY <3>4, <3>5, <4>2 DEF Take
        <5> HIDE DEF Taken, Total
        <5> QED
          BY <3>5, <5>2, <5>3
      <4> QED
        BY <4>1, <4>2
    <3>9. ASSUME NEW j \in 0..k
          PROVE  left[j] \in Nat /\ left[k] <= left[j]
      <4>1. CASE j = k
        BY <3>8, <4>1
      <4>2. CASE j # k
        <5>1. j \in 0..(k - 1)
          BY <3>1, <4>2
        <5>2. left[j] \in Nat /\ left[k - 1] <= left[j]
          BY <2>3, <5>1
        <5> QED
          BY <3>5, <3>8, <5>2
      <4> QED
        BY <4>1, <4>2
    <3> HIDE DEF Taken, Total
    <3> QED
      BY <3>8, <3>9
  <2> HIDE DEF Good
  <2>4. bad = {}
    <3> SUFFICES ASSUME bad # {} PROVE FALSE
      OBVIOUS
    <3>1. bad \in SUBSET Nat
      BY <1>7
    <3>2. PICK k \in bad : \A j \in bad : k <= j
      <4> HIDE DEF bad
      <4> QED
        BY <3>1, LeastNat
    <3>3. k # 0 /\ k \in 0..n /\ ~Good(k)
      BY <2>2, <3>2
    <3>4. k \in 1..n /\ k - 1 \in 0..n /\ k - 1 \notin bad
      BY <1>7, <3>2, <3>3
    <3> QED
      BY <2>3, <3>3, <3>4
  <2>5. Good(n)
    BY <1>7, <2>4
  <2>6. Taken(n) = sel
    BY <1>3, <1>7, <1>8
  <2>7. left[n] \in Nat /\ left[n] + Total(sel) = budget /\ \A j \in 0..n : left[n] <= left[j]
    BY <2>5, <2>6 DEF Good
  <2>8. Total(sel) \in Int
    <3>1. \A x \in sel : f[x] \in Int
      BY <1>2, <1>8
    <3> QED
      BY <1>9, <3>1, SumAdds
  <2>9. ASSUME NEW q \in reads \ sel
        PROVE  Total(sel) + f[q] > budget
    <3>1. Rank(q) - 1 \in 0..n /\ f[q] \in Nat /\ ~(f[q] <= left[Rank(q) - 1])
      BY <1>2, <1>3, <1>7, <2>1
    <3>2. left[n] <= left[Rank(q) - 1] /\ left[Rank(q) - 1] \in Nat
      <4>1. Good(Rank(q) - 1)
        BY <2>4, <3>1
      <4> QED
        BY <2>7, <3>1, <4>1 DEF Good
    <3> HIDE DEF Total
    <3> QED
      BY <2>7, <2>8, <3>1, <3>2
  <2>10. Total(sel) <= budget
    <3> HIDE DEF Total
    <3> QED
      BY <2>7, <2>8
  <2>11. ~(Total(sel) > budget)
    <3> HIDE DEF Total
    <3> QED
      BY <2>8, <2>10
  <2> HIDE DEF Total
  <2> QED
    BY <1>2, <1>9, <2>9, <2>11 DEF sel
<1> QED
  BY <1>10, <1>11

\* No chunk is empty.
LEMMA ChunksNonempty ==
  ASSUME NEW ws, NEW read, NEW budget, Plannable(ws, read.members), read.members # {},
         NEW c \in SplitRead(ws, read, budget)
  PROVE  c.members # {}
<1>1. CASE Span(ws, read.members) <= budget
  BY <1>1 DEF SplitRead
<1>2. CASE ~(Span(ws, read.members) <= budget)
  <2> DEFINE head == ChunkHeads(ws, read.members, budget)
             Chunk(h) == {v \in read.members : head[MemberRank(ws, read.members, v)] = h}
  <2>1. SplitRead(ws, read, budget)
          = {[members |-> Chunk(h), prio |-> read.prio] : h \in {head[i] : i \in DOMAIN head}}
    BY <1>2 DEF SplitRead
  <2>2. DOMAIN head = 1..Cardinality(read.members)
    <3>1. Cardinality(read.members) \in Nat
      BY FS_CardinalityType DEF Plannable
    <3> QED
      BY <3>1, HeadsGiven
  <2> HIDE DEF head
  <2>3. PICK i \in DOMAIN head : c = [members |-> Chunk(head[i]), prio |-> read.prio]
    BY <2>1
  <2>4. PICK m \in read.members : MemberRank(ws, read.members, m) = i
    BY <2>2, RanksTaken
  <2>5. m \in Chunk(head[i])
    BY <2>4
  <2> QED
    BY <2>3, <2>5
<1> QED
  BY <1>1, <1>2

\* A fused read has members, and a tier.
LEMMA FusedReads ==
  ASSUME NEW ws, NEW ids, NEW gap, Plannable(ws, ids), NEW r \in Coalesce(ws, ids, gap)
  PROVE  /\ r.prio \in WatchPriority
         /\ r = [members |-> r.members, prio |-> r.prio]
         /\ r.members # {}
<1>1. PICK lead \in ids : r = FinishRun(ws, RunOf(ws, ids, gap, lead))
  BY DEF Coalesce
<1> DEFINE run == RunOf(ws, ids, gap, lead)
           P == {ws[m].prio : m \in run}
<1>2. lead \in run /\ run \subseteq ids
  <2>1. First(ws, lead) \in Nat /\ SameSpace(ws, lead, lead)
    BY <1>1 DEF Plannable, SameSpace
  <2> QED
    BY <1>1, <2>1 DEF RunOf
<1>3. P \in SUBSET WatchPriority /\ P # {}
  BY <1>2 DEF Plannable
<1>4. Min(P) \in WatchPriority
  <2>1. P \in SUBSET Nat
    BY <1>3 DEF WatchPriority, Realtime, High, Normal, Low
  <2> HIDE DEF P
  <2> QED
    BY <1>3, <2>1, MinNat
<1>5. r = [members |-> run, prio |-> Min(P)]
  BY <1>1 DEF FinishRun
<1> HIDE DEF run, P
<1> QED
  BY <1>2, <1>4, <1>5

\* Reads of some of finitely many watches are finitely many.
LEMMA ReadsFinite ==
  ASSUME NEW ids, IsFiniteSet(ids),
         NEW reads \in SUBSET [members : SUBSET ids, prio : WatchPriority]
  PROVE  IsFiniteSet(reads)
<1> DEFINE T == (SUBSET ids) \X (Realtime..Low)
           f == [r \in reads |-> <<r.members, r.prio>>]
<1>1. IsFiniteSet(T)
  <2>1. IsFiniteSet(Realtime..Low)
    <3>1. Realtime \in Int /\ Low \in Int
      BY DEF Realtime, Low
    <3> QED
      BY <3>1, FS_Interval
  <2>2. IsFiniteSet(SUBSET ids)
    BY FS_SUBSET
  <2> QED
    BY <2>1, <2>2, FS_Product
<1>2. \A r \in reads : /\ r.members \in SUBSET ids /\ r.prio \in Realtime..Low
                       /\ r = [members |-> r.members, prio |-> r.prio]
  BY DEF WatchPriority, Realtime, High, Normal, Low
<1>3. f \in [reads -> T]
  BY <1>2
<1>4. \A r, q \in reads : f[r] = f[q] => r = q
  BY <1>2
<1>5. f \in Injection(reads, T)
  <2> HIDE DEF f, T
  <2> QED
    BY <1>3, <1>4 DEF Injection, IsInjective
<1> QED
  BY <1>1, <1>5, FS_Injection

\* What the watches of a set are planned into can be selected from.
LEMMA PlanSelectable ==
  ASSUME NEW ws, NEW ids, NEW gap \in Nat, NEW budget, Plannable(ws, ids)
  PROVE  LET plan == SplitReadsToBudget(ws, Coalesce(ws, ids, gap), budget)
         IN  /\ Selectable(ws, plan) /\ Apart(plan)
             /\ \A r \in plan : r.members \subseteq ids
<1> DEFINE fused == Coalesce(ws, ids, gap)
           limit == Max({budget, 1})
           plan == SplitReadsToBudget(ws, fused, budget)
<1>1. ASSUME NEW r \in plan
      PROVE  /\ r.members \in SUBSET ids /\ r.members # {}
             /\ r.prio \in WatchPriority /\ r = [members |-> r.members, prio |-> r.prio]
  <2>1. PICK q \in fused : r \in SplitRead(ws, q, limit)
    BY DEF SplitReadsToBudget
  <2>2. q.members \subseteq ids
    BY CoalesceMembers
  <2>3. /\ q.prio \in WatchPriority /\ q = [members |-> q.members, prio |-> q.prio]
        /\ q.members # {}
    BY FusedReads
  <2>4. r.members \subseteq q.members /\ r.prio = q.prio
    <3> HIDE DEF limit
    <3> QED
      BY <2>1, SplitWithin
  <2>5. r = q \/ \E c : r = [members |-> c, prio |-> q.prio]
    BY <2>1 DEF SplitRead
  <2>6. r.members # {}
    <3>1. Plannable(ws, q.members)
      BY <2>2, PlannablePart
    <3> HIDE DEF limit
    <3> QED
      BY <2>1, <2>3, <3>1, ChunksNonempty
  <2> QED
    BY <2>2, <2>3, <2>4, <2>5, <2>6
<1>2. \A r, q \in plan : r # q => r.members \cap q.members = {}
  <2> SUFFICES ASSUME NEW r \in plan, NEW q \in plan, NEW w \in r.members, w \in q.members
               PROVE  r = q
    OBVIOUS
  <2>1. w \in ids
    BY <1>1
  <2> QED
    BY <2>1, PlanHasEachWatchOnce
<1>3. IsFiniteSet(plan)
  <2>1. plan \in SUBSET [members : SUBSET ids, prio : WatchPriority]
    BY <1>1
  <2> HIDE DEF plan
  <2> QED
    BY <2>1, ReadsFinite DEF Plannable
<1>4. \A r \in plan : Plannable(ws, r.members)
  BY <1>1, PlannablePart
<1> HIDE DEF plan
<1> QED
  BY <1>1, <1>2, <1>3, <1>4 DEF Selectable, Apart, plan

-----------------------------------------------------------------------------
(* The plans of any watches.                                               *)

PlanType == declared \in Seq(DeclaredWatch)

LEMMA PlanTyped == PlanSpec => []PlanType
<1>1. PlanInit => PlanType
  BY DEF PlanInit, PlanType
<1>2. PlanType /\ [PlanNext]_declared => PlanType'
  BY DEF PlanType, PlanNext, DeclareWatch
<1> QED
  BY <1>1, <1>2, PTL DEF PlanSpec

\* Of whatever watches are declared, and however long ago they were refreshed,
\* the batch has a stalest read; it keeps to the budget unless that read is
\* over it, and leaves out no read that would still have fitted (engine.rs,
\* select_bulk).
THEOREM BatchesAreFull == PlanSpec => []SelectAdmitsStalest
<1>1. PlanType => SelectAdmitsStalest
  <2> SUFFICES ASSUME PlanType, NEW gap \in PlanGaps, NEW limit \in PlanBudgets
               PROVE  LET chunks == SplitReadsToBudget(declared, Coalesce(declared, Ids, gap), limit)
                          sel == SelectBulk(declared, chunks, limit, Refreshes, PlanCycle)
                          size == Bytes(declared, sel)
                          Age(r) == Staleness(Refreshes, PlanCycle, r)
                      IN  chunks # {} =>
                            /\ \E r \in sel : \A q \in chunks : Age(q) <= Age(r)
                            /\ size > limit => Cardinality(sel) = 1
                            /\ size <= limit =>
                                 \A r \in chunks \ sel : size + Span(declared, r.members) > limit
    BY DEF SelectAdmitsStalest
  <2> DEFINE chunks == SplitReadsToBudget(declared, Coalesce(declared, Ids, gap), limit)
  <2>1. Ids = 1..Len(declared) /\ Len(declared) \in Nat
    BY DEF PlanType, Ids
  <2>2. \A id \in Ids : declared[id] \in DeclaredWatch
    BY <2>1 DEF PlanType
  <2>3. Plannable(declared, Ids)
    <3>1. IsFiniteSet(Ids)
      BY <2>1, FS_Interval
    <3>2. \A id \in Ids : /\ declared[id].region.addr \in Nat
                          /\ declared[id].region.size \in Nat
                          /\ declared[id].region.space \in Nat
                          /\ declared[id].prio \in WatchPriority
      BY <2>2, PlanAssumption DEF DeclaredWatch
    <3>3. Ids \subseteq Nat
      BY <2>1
    <3> QED
      BY <3>1, <3>2, <3>3 DEF Plannable, First, Beyond
  <2>4. gap \in Nat /\ limit \in Nat /\ PlanCycle \in Nat
    BY PlanAssumption
  <2>5. \A id \in Ids : RefreshCycle(Refreshes, id) \in 0..PlanCycle
    <3> TAKE id \in Ids
    <3>1. declared[id].refreshed \in 0..PlanCycle
      BY <2>2, PlanAssumption DEF DeclaredWatch
    <3>2. CASE declared[id].refreshed = 0
      BY <2>4, <3>2 DEF RefreshCycle, Refreshes
    <3>3. CASE declared[id].refreshed # 0
      BY <3>1, <3>3 DEF RefreshCycle, Refreshes
    <3> QED
      BY <3>2, <3>3
  <2>6. /\ Selectable(declared, chunks) /\ Apart(chunks)
        /\ \A r \in chunks : \A id \in r.members : RefreshCycle(Refreshes, id) \in 0..PlanCycle
    <3>1. /\ Selectable(declared, chunks) /\ Apart(chunks)
          /\ \A r \in chunks : r.members \subseteq Ids
      BY <2>3, <2>4, PlanSelectable
    <3> HIDE DEF chunks
    <3> QED
      BY <2>5, <3>1
  <2> HIDE DEF chunks
  <2>7. ASSUME chunks # {}
        PROVE  \E r \in SelectBulk(declared, chunks, limit, Refreshes, PlanCycle) :
                 \A q \in chunks :
                   Staleness(Refreshes, PlanCycle, q) <= Staleness(Refreshes, PlanCycle, r)
    <3>1. limit \in Int
      BY <2>4
    <3> QED
      BY <2>4, <2>6, <2>7, <3>1, StalestAdmitted
  <2>8. ASSUME chunks # {}
        PROVE  LET sel == SelectBulk(declared, chunks, limit, Refreshes, PlanCycle)
                   size == Bytes(declared, sel)
               IN  /\ size > limit => Cardinality(sel) = 1
                   /\ size <= limit =>
                        \A r \in chunks \ sel : size + Span(declared, r.members) > limit
    BY <2>4, <2>6, <2>8, BatchFilled
  <2> QED
    BY <2>7, <2>8 DEF chunks
<1> QED
  BY <1>1, PlanTyped, PTL

-----------------------------------------------------------------------------
(* Type correctness.                                                       *)

\* The empty sequence is the function on no watch.
LEMMA EmptyFunction ==
  ASSUME NEW T
  PROVE  DOMAIN << >> = {} /\ << >> \in [{} -> T]
  OBVIOUS

\* The initial state is typed.
LEMMA InitType == Init => TypeOK
<1> SUFFICES ASSUME Init PROVE TypeOK
  OBVIOUS
<1>1. /\ registry \in [DOMAIN registry -> WatchEntry] /\ DOMAIN registry = {}
      /\ watches \in [DOMAIN watches -> WatchEntry] /\ DOMAIN watches = {}
      /\ builder \in [DOMAIN builder -> Cached] /\ DOMAIN builder = {}
      /\ read_state \in [DOMAIN read_state -> ReadStates] /\ DOMAIN read_state = {}
      /\ waited \in [DOMAIN waited -> Nat] /\ DOMAIN waited = {}
      /\ current.data \in [DOMAIN current.data -> Cached] /\ DOMAIN current.data = {}
  BY EmptyFunction DEF Init
<1>2. current \in [data : [DOMAIN current.data -> Cached], cycle : Nat]
  BY <1>1 DEF Init
<1>3. RegistryOK
  BY <1>1, BoundsAssumption DEF Init, RegistryOK
<1>4. SnapshotOK
  BY <1>1, <1>2 DEF Init, SnapshotOK
<1>5. CycleOK
  <2>1. cycle \in 0..MaxCycle /\ pc = "idle" /\ live_ids \subseteq WatchId /\ done \subseteq WatchId
    BY BoundsAssumption DEF Init
  <2>2. reads_issued \in BOOLEAN /\ last_error \in BOOLEAN
    BY DEF Init
  <2> QED
    BY <1>1, <2>1, <2>2 DEF CycleOK
<1>6. FlightOK
  BY DEF Init, FlightOK
<1>7. BooksOK
  BY <1>1, BoundsAssumption DEF Init, BooksOK
<1> QED
  BY <1>3, <1>4, <1>5, <1>6, <1>7 DEF TypeOK

\* The actions of the script thread and of the demand window.
LEMMA RegisterType ==
  ASSUME RegistryOK, NEW region \in Regions, NEW prio \in Priorities, Register(region, prio)
  PROVE  RegistryOK'
<1> DEFINE e == [region |-> region, prio |-> prio, request_seq |-> next_request',
                 pinned |-> FALSE, warm |-> TRUE]
<1>1. next_id' \in 0..MaxId /\ next_request' \in 0..MaxRequest /\ next_id' = next_id + 1
  BY BoundsAssumption DEF Register, NextRequest, RegistryOK
<1>2. e \in WatchEntry
  BY <1>1, PrioritiesAssumption DEF WatchEntry
<1>3. registry' = Put(registry, next_id, e)
  BY DEF Register
<1>4. /\ DOMAIN registry' = DOMAIN registry \cup {next_id}
      /\ registry' \in [DOMAIN registry' -> WatchEntry]
  <2>1. registry \in [DOMAIN registry -> WatchEntry]
    BY DEF RegistryOK
  <2> HIDE DEF e
  <2> QED
    BY <2>1, <1>2, <1>3 DEF Put
<1> QED
  BY <1>1, <1>4, BoundsAssumption DEF RegistryOK

\* A touch keeps the registry typed.
LEMMA TouchType ==
  ASSUME RegistryOK, NEW id, Touch(id)
  PROVE  RegistryOK'
<1>1. next_id' = next_id /\ next_request' \in 0..MaxRequest
  BY BoundsAssumption DEF Touch, NextRequest, RegistryOK
<1>2. CASE id \in DOMAIN registry
  <2> DEFINE e == [registry[id] EXCEPT !.warm = TRUE, !.request_seq = next_request']
  <2>1. next_request' \in Nat
    BY <1>1, BoundsAssumption
  <2>2. registry[id] \in WatchEntry
    BY <1>2 DEF RegistryOK
  <2>3. e \in WatchEntry
    BY <2>1, <2>2 DEF WatchEntry
  <2>4. registry' = [registry EXCEPT ![id] = e]
    BY <1>2 DEF Touch
  <2> HIDE DEF e
  <2> QED
    BY <1>1, <1>2, <2>3, <2>4 DEF RegistryOK
<1>3. CASE id \notin DOMAIN registry
  BY <1>1, <1>3 DEF Touch, RegistryOK
<1> QED
  BY <1>2, <1>3

\* An upgrade keeps the registry typed.
LEMMA UpgradeType ==
  ASSUME RegistryOK, NEW id, NEW prio \in Priorities, UpgradePriority(id, prio)
  PROVE  RegistryOK'
<1>1. next_id' = next_id /\ next_request' \in 0..MaxRequest
  BY BoundsAssumption DEF UpgradePriority, NextRequest, RegistryOK
<1>2. CASE id \in DOMAIN registry
  <2>1. Min({registry[id].prio, prio}) \in WatchPriority
    BY <1>2, MinOfTwo, PrioritiesAssumption DEF RegistryOK, WatchEntry
  <2> DEFINE e == [registry[id] EXCEPT !.prio = Min({registry[id].prio, prio}), !.pinned = TRUE,
                                       !.warm = TRUE, !.request_seq = next_request']
  <2>2. registry[id] \in WatchEntry /\ next_request' \in Nat
    BY <1>1, <1>2, BoundsAssumption DEF RegistryOK
  <2>3. e \in WatchEntry
    BY <2>1, <2>2 DEF WatchEntry
  <2>4. registry' = [registry EXCEPT ![id] = e]
    BY <1>2 DEF UpgradePriority
  <2> HIDE DEF e
  <2> QED
    BY <1>1, <1>2, <2>3, <2>4 DEF RegistryOK
<1>3. CASE id \notin DOMAIN registry
  BY <1>1, <1>3 DEF UpgradePriority, RegistryOK
<1> QED
  BY <1>2, <1>3

\* So does dropping every watch.
LEMMA ClearType ==
  ASSUME RegistryOK, Clear
  PROVE  RegistryOK'
  BY EmptyFunction DEF Clear, RegistryOK

\* So does the end of a demand window.
LEMMA DormantType ==
  ASSUME RegistryOK, NEW id, GoDormant(id)
  PROVE  RegistryOK'
  BY DEF GoDormant, RegistryOK, WatchEntry

\* What an action leaves alone stays well typed.
LEMMA ScriptFrame ==
  ASSUME TypeOK, RegistryOK', scriptUnchanged
  PROVE  TypeOK'
<1>1. SnapshotOK'
  BY DEF TypeOK, SnapshotOK, scriptUnchanged
<1>2. CycleOK'
  BY DEF TypeOK, CycleOK, scriptUnchanged, cycleVars
<1>3. FlightOK' /\ BooksOK'
  BY DEF TypeOK, FlightOK, BooksOK, scriptUnchanged, cycleVars, ghostVars
<1> QED
  BY <1>1, <1>2, <1>3 DEF TypeOK

\* A cycle's snapshot of the registry and the builder over the previous
\* snapshot.
LEMMA ReadActiveType ==
  ASSUME TypeOK, ReadActive
  PROVE  CycleOK' /\ FlightOK'
<1>1. watches' \in [DOMAIN watches' -> WatchEntry] /\ DOMAIN watches' \subseteq WatchId
  <2>1. registry \in [DOMAIN registry -> WatchEntry] /\ DOMAIN registry \subseteq WatchId
    BY DEF TypeOK, RegistryOK, WatchId
  <2>2. watches' = Keep(registry, Active)
    BY DEF ReadActive
  <2> QED
    BY <2>1, <2>2 DEF Keep
<1>2. builder' \in [DOMAIN builder' -> Cached] /\ DOMAIN builder' \subseteq WatchId
  <2>1. /\ DOMAIN current.data \subseteq WatchId
        /\ \A id \in DOMAIN current.data : current.data[id] \in Cached
    BY DEF TypeOK, SnapshotOK
  <2>2. /\ DOMAIN FromPrev(current) = DOMAIN current.data
        /\ \A id \in DOMAIN current.data : FromPrev(current)[id] \in Cached
    BY <2>1 DEF FromPrev, Cached
  <2>3. builder' = Keep(FromPrev(current), live_ids)
    BY DEF ReadActive
  <2> HIDE DEF FromPrev
  <2> QED
    BY <2>1, <2>2, <2>3 DEF Keep
<1>3. pc' \in {"bulk", "realtime"} /\ pc = "begun"
  BY DEF ReadActive
<1>4. CycleOK'
  BY <1>1, <1>2, <1>3 DEF TypeOK, CycleOK, ReadActive
<1>5. FlightOK'
  BY <1>3 DEF TypeOK, FlightOK, ReadActive
<1> QED
  BY <1>4, <1>5

\* Beginning a cycle keeps the task's locals typed.
LEMMA BeginCycleType ==
  ASSUME TypeOK, BeginCycle
  PROVE  CycleOK' /\ FlightOK'
<1>1. cycle' \in 0..MaxCycle /\ uri' \in Devices /\ live_ids' \subseteq WatchId
  BY BoundsAssumption
     DEF TypeOK, CycleOK, SnapshotOK, RegistryOK, BeginCycle, WatchId
<1> QED
  BY <1>1 DEF TypeOK, CycleOK, FlightOK, BeginCycle

\* Reads are issued for active watches.
LEMMA IssueType ==
  ASSUME TypeOK, IssueRealtime \/ \E budget \in Budgets : IssueBulk(budget)
  PROVE  CycleOK' /\ FlightOK'
<1>1. \A r \in batch' : r.members \subseteq DOMAIN watches
  <2>1. CASE IssueRealtime
    BY <2>1, CoalesceMembers DEF IssueRealtime, RealtimeIds
  <2>2. CASE \E budget \in Budgets : IssueBulk(budget)
    <3>1. PICK budget \in Budgets : IssueBulk(budget)
      BY <2>2
    <3>2. batch' \subseteq PendingReads(budget)
      BY <3>1, SelectSubset DEF IssueBulk
    <3> QED
      BY <3>2, PendingMembers
  <2> QED
    BY <2>1, <2>2
<1>2. /\ UNCHANGED <<uri, live_ids, watches, cycle, builder, read_state, reply, done>>
      /\ UNCHANGED <<reads_issued, last_error>>
      /\ pc \in {"realtime", "bulk"} /\ pc' \in {"realtimeWait", "bulkWait"}
  BY DEF IssueRealtime, IssueBulk, multiReadUnchanged
<1>3. CycleOK'
  BY <1>2 DEF TypeOK, CycleOK
<1>4. FlightOK'
  BY <1>1, <1>2 DEF TypeOK, FlightOK
<1> QED
  BY <1>3, <1>4

\* An answer is about members of the batch.
LEMMA AnswersMembers ==
  ASSUME NEW got \in Answers
  PROVE  got \subseteq Members(batch)
<1>1. CASE got = Members(batch)
  BY <1>1
<1>2. CASE got \in ShortAnswers
  <2>1. PICK r \in batch :
          got \in {Members(batch \ {r}) \cup Covered(r, len) : len \in 0..Span(watches, r.members)}
    BY <1>2 DEF ShortAnswers
  <2>2. PICK len : got = Members(batch \ {r}) \cup Covered(r, len)
    BY <2>1
  <2> QED
    BY <2>2 DEF Members, Covered
<1> QED
  BY <1>1, <1>2 DEF Answers

\* What is in flight concerns watches of this cycle.
LEMMA BatchMembers ==
  ASSUME TypeOK
  PROVE  Members(batch) \subseteq DOMAIN watches
  BY DEF TypeOK, FlightOK, Members

\* The device's answer is well formed, and errors stay bounded.
LEMMA DeviceType ==
  ASSUME TypeOK, DeviceAnswers \/ DeviceFails
  PROVE  CycleOK' /\ FlightOK' /\ BooksOK'
<1>1. /\ UNCHANGED <<uri, live_ids, watches, cycle, pc, builder, read_state, batch, done>>
      /\ UNCHANGED <<reads_issued, last_error, waited>>
      /\ pc \in {"realtimeWait", "bulkWait"}
  BY DEF DeviceAnswers, DeviceFails, multiReadUnchanged, ghostVars
<1>2. CycleOK'
  BY <1>1 DEF TypeOK, CycleOK
<1>3. \/ reply' = Failed
      \/ reply' = Reply(reply'.at, reply'.got) /\ reply'.at \in Nat /\ reply'.got \subseteq WatchId
  <2>1. CASE DeviceAnswers
    <3>1. PICK got \in Answers : reply' = Reply(next_request, got)
      BY <2>1 DEF DeviceAnswers
    <3>2. got \subseteq WatchId
      BY AnswersMembers, BatchMembers DEF TypeOK, CycleOK
    <3>3. next_request \in Nat
      BY BoundsAssumption DEF TypeOK, RegistryOK
    <3> QED
      BY <3>1, <3>2, <3>3 DEF Reply
  <2>2. CASE DeviceFails
    BY <2>2 DEF DeviceFails
  <2> QED
    BY <2>1, <2>2
<1>4. FlightOK'
  BY <1>1, <1>3 DEF TypeOK, FlightOK
<1>5. errors' \in 0..MaxErrors
  BY BoundsAssumption DEF TypeOK, BooksOK, DeviceAnswers, DeviceFails, ghostVars
<1>6. BooksOK'
  BY <1>1, <1>5 DEF TypeOK, BooksOK
<1> QED
  BY <1>2, <1>4, <1>6

\* Slicing the blobs and marking the reads fulfilled.
LEMMA ApplyType ==
  ASSUME TypeOK, pc \in {"realtimeWait", "bulkWait"}, reply.kind = "ok",
         ApplyReads, MarkFulfilled
  PROVE  /\ DOMAIN builder' \subseteq WatchId /\ builder' \in [DOMAIN builder' -> Cached]
         /\ DOMAIN read_state' \subseteq WatchId
         /\ read_state' \in [DOMAIN read_state' -> ReadStates]
<1>1. reply.at \in Nat /\ cycle \in Nat /\ uri \in Devices
  BY BoundsAssumption DEF TypeOK, FlightOK, CycleOK, NoReply, Failed
<1>2. /\ Members(batch) \subseteq DOMAIN watches /\ DOMAIN watches \subseteq WatchId
      /\ watches \in [DOMAIN watches -> WatchEntry]
  BY BatchMembers DEF TypeOK, CycleOK
<1>3. /\ \A id \in Members(batch) : watches[id].region \in Regions
      /\ \A id \in DOMAIN watches : watches[id].request_seq \in Nat
  BY <1>2 DEF WatchEntry
<1>4. DOMAIN builder \subseteq WatchId /\ builder \in [DOMAIN builder -> Cached]
  BY DEF TypeOK, CycleOK
<1>5. DOMAIN read_state \subseteq WatchId /\ read_state \in [DOMAIN read_state -> ReadStates]
  BY DEF TypeOK, CycleOK
<1>6. DOMAIN builder' \subseteq WatchId /\ builder' \in [DOMAIN builder' -> Cached]
  <2>1. \A id \in Members(batch) :
          [region |-> watches[id].region, device |-> uri, at |-> reply.at, age |-> 0] \in Cached
    BY <1>1, <1>3 DEF Cached
  <2> QED
    BY <1>2, <1>4, <2>1 DEF ApplyReads
<1>7. DOMAIN read_state' \subseteq WatchId /\ read_state' \in [DOMAIN read_state' -> ReadStates]
  <2>1. \A id \in DOMAIN watches :
          [request_seq |-> watches[id].request_seq, refresh_cycle |-> cycle] \in ReadStates
    BY <1>1, <1>3 DEF ReadStates
  <2> QED
    BY <1>2, <1>5, <2>1 DEF MarkFulfilled
<1> QED
  BY <1>6, <1>7

\* Taking an answer empties the flight and keeps the locals typed.
LEMMA ReceiveType ==
  ASSUME TypeOK, RealtimeOk \/ RealtimeErr \/ BulkOk \/ BulkErr
  PROVE  CycleOK' /\ FlightOK'
<1>1. /\ pc \in {"realtimeWait", "bulkWait"} /\ pc' \in {"bulk", "publish"}
      /\ batch' = {} /\ reply' = NoReply
      /\ UNCHANGED <<uri, live_ids, watches, cycle>>
      /\ reads_issued' \in {TRUE, reads_issued} /\ last_error' \in {TRUE, last_error}
      /\ done' \in {done, done \cup Members(batch)}
  BY DEF RealtimeOk, RealtimeErr, BulkOk, BulkErr, multiReadUnchanged
<1>2. done' \subseteq WatchId
  BY <1>1, BatchMembers DEF TypeOK, CycleOK
<1>3. /\ DOMAIN builder' \subseteq WatchId /\ builder' \in [DOMAIN builder' -> Cached]
      /\ DOMAIN read_state' \subseteq WatchId
      /\ read_state' \in [DOMAIN read_state' -> ReadStates]
  <2>1. CASE RealtimeOk \/ BulkOk
    BY <1>1, <2>1, ApplyType DEF RealtimeOk, BulkOk
  <2>2. CASE RealtimeErr \/ BulkErr
    BY <2>2 DEF RealtimeErr, BulkErr, TypeOK, CycleOK
  <2> QED
    BY <2>1, <2>2
<1>4. reads_issued' \in BOOLEAN /\ last_error' \in BOOLEAN
  BY <1>1 DEF TypeOK, CycleOK
<1>5. CycleOK'
  BY <1>1, <1>2, <1>3, <1>4 DEF TypeOK, CycleOK
<1>6. FlightOK'
  BY <1>1 DEF FlightOK
<1> QED
  BY <1>5, <1>6

\* Ending the drain keeps the locals typed.
LEMMA EndBulkType ==
  ASSUME TypeOK, EndBulk
  PROVE  CycleOK' /\ FlightOK'
  BY DEF TypeOK, CycleOK, FlightOK, EndBulk, multiReadUnchanged

\* What is published is a snapshot, and the locals are reset.
LEMMA PublishType ==
  ASSUME TypeOK, Publish
  PROVE  SnapshotOK' /\ CycleOK' /\ FlightOK' /\ BooksOK'
<1>1. SnapshotOK'
  BY BoundsAssumption DEF TypeOK, SnapshotOK, CycleOK, Publish
<1>2. DOMAIN read_state' \subseteq WatchId /\ read_state' \in [DOMAIN read_state' -> ReadStates]
  <2>1. DOMAIN read_state \subseteq WatchId /\ read_state \in [DOMAIN read_state -> ReadStates]
    BY DEF TypeOK, CycleOK
  <2>2. read_state' \in {read_state, Keep(read_state, live_ids)}
    BY DEF Publish
  <2> QED
    BY <2>1, <2>2 DEF Keep
<1>3. CycleOK'
  BY <1>2, EmptyFunction DEF TypeOK, CycleOK, Publish
<1>4. FlightOK'
  BY DEF TypeOK, FlightOK, CycleOK, Publish
<1>5. BooksOK'
  <2>1. DOMAIN waited \subseteq WatchId /\ waited \in [DOMAIN waited -> Nat]
    BY DEF TypeOK, BooksOK
  <2>2. StillPending \subseteq WatchId
    BY DEF StillPending, TypeOK, CycleOK
  <2>3. \A id \in StillPending : 1 + (IF id \in DOMAIN waited THEN waited[id] ELSE 0) \in Nat
    BY <2>1
  <2>4. DOMAIN waited' \subseteq WatchId /\ waited' \in [DOMAIN waited' -> Nat]
    BY <2>2, <2>3 DEF Publish
  <2> QED
    BY <2>4 DEF TypeOK, BooksOK, Publish
<1> QED
  BY <1>1, <1>3, <1>4, <1>5

\* Every step keeps the types.
LEMMA TypeStep == TypeOK /\ [Next]_vars => TypeOK'
<1> SUFFICES ASSUME TypeOK, [Next]_vars PROVE TypeOK'
  OBVIOUS
<1>1. ASSUME NEW region \in Regions, NEW prio \in Priorities, Register(region, prio)
      PROVE  TypeOK'
  BY <1>1, RegisterType, ScriptFrame DEF TypeOK, Register
<1>2. ASSUME NEW id, Touch(id) PROVE TypeOK'
  BY <1>2, TouchType, ScriptFrame DEF TypeOK, Touch
<1>3. ASSUME NEW id, NEW prio \in Priorities, UpgradePriority(id, prio) PROVE TypeOK'
  BY <1>3, UpgradeType, ScriptFrame DEF TypeOK, UpgradePriority
<1>4. CASE Clear
  BY <1>4, ClearType, ScriptFrame DEF TypeOK, Clear
<1>5. ASSUME NEW id, GoDormant(id) PROVE TypeOK'
  BY <1>5, DormantType, ScriptFrame DEF TypeOK, GoDormant
<1>6. ASSUME NEW next \in Devices \cup {NoDevice}, RepublishSlot(next) PROVE TypeOK'
  BY <1>6 DEF RepublishSlot, registryVars, cycleVars, ghostVars,
              TypeOK, RegistryOK, SnapshotOK, CycleOK, FlightOK, BooksOK
<1>7. CASE BeginCycle
  <2>1. CycleOK' /\ FlightOK'
    BY <1>7, BeginCycleType
  <2> QED
    BY <1>7, <2>1 DEF BeginCycle, registryVars, ghostVars, TypeOK, RegistryOK, SnapshotOK, BooksOK
<1>8. CASE ReadActive
  <2>1. CycleOK' /\ FlightOK'
    BY <1>8, ReadActiveType
  <2> QED
    BY <1>8, <2>1 DEF ReadActive, registryVars, ghostVars, TypeOK, RegistryOK, SnapshotOK, BooksOK
<1>9. CASE IssueRealtime \/ \E budget \in Budgets : IssueBulk(budget)
  <2>1. CycleOK' /\ FlightOK'
    BY <1>9, IssueType
  <2> QED
    BY <1>9, <2>1 DEF IssueRealtime, IssueBulk, multiReadUnchanged, registryVars, ghostVars,
                      TypeOK, RegistryOK, SnapshotOK, BooksOK
<1>10. CASE DeviceAnswers \/ DeviceFails
  <2>1. CycleOK' /\ FlightOK' /\ BooksOK'
    BY <1>10, DeviceType
  <2> QED
    BY <1>10, <2>1 DEF DeviceAnswers, DeviceFails, multiReadUnchanged, registryVars,
                       TypeOK, RegistryOK, SnapshotOK
<1>11. CASE RealtimeOk \/ RealtimeErr \/ BulkOk \/ BulkErr
  <2>1. CycleOK' /\ FlightOK'
    BY <1>11, ReceiveType
  <2> QED
    BY <1>11, <2>1 DEF RealtimeOk, RealtimeErr, BulkOk, BulkErr, multiReadUnchanged,
                       registryVars, ghostVars, TypeOK, RegistryOK, SnapshotOK, BooksOK
<1>12. CASE EndBulk
  <2>1. CycleOK' /\ FlightOK'
    BY <1>12, EndBulkType
  <2> QED
    BY <1>12, <2>1 DEF EndBulk, multiReadUnchanged, registryVars, ghostVars,
                       TypeOK, RegistryOK, SnapshotOK, BooksOK
<1>13. CASE Publish
  <2>1. SnapshotOK' /\ CycleOK' /\ FlightOK' /\ BooksOK'
    BY <1>13, PublishType
  <2> QED
    BY <1>13, <2>1 DEF Publish, registryVars, TypeOK, RegistryOK
<1>14. CASE UNCHANGED vars
  BY <1>14 DEF vars, registryVars, cycleVars, ghostVars,
               TypeOK, RegistryOK, SnapshotOK, CycleOK, FlightOK, BooksOK
<1> QED
  BY <1>1, <1>2, <1>3, <1>4, <1>5, <1>6, <1>7, <1>8, <1>9, <1>10, <1>11, <1>12, <1>13, <1>14
     DEF Next, Script, FinishCycle

\* Every variable keeps its type, and what the poll task holds across an
\* await fits together: the reads in flight are of active watches, and the
\* locals of a finished cycle are gone.
THEOREM TypeCorrect == Spec => []TypeOK
<1>1. Init => TypeOK
  BY InitType
<1>2. TypeOK /\ [Next]_vars => TypeOK'
  BY TypeStep
<1> QED
  BY <1>1, <1>2, PTL DEF Spec

-----------------------------------------------------------------------------
(* Freshness.  To the poll task, everything a script or the clock does is  *)
(* a move of the registry: markers and ids only grow, ids stay with their  *)
(* regions, and a new watch takes the next id.                             *)

RegistryMoves ==
  /\ next_request' \in Nat /\ next_request <= next_request'
  /\ next_id' \in Nat /\ next_id <= next_id'
  /\ \A id \in DOMAIN registry' : registry'[id].request_seq \in 1..next_request'
  /\ \A id \in DOMAIN registry' :
       \/ id = next_id
       \/ id \in DOMAIN registry /\ registry'[id].region = registry[id].region

\* Each script call is such a move: declaring a watch,
LEMMA RegisterMoves ==
  ASSUME TypeOK, MarkersIssued, NEW region \in Regions, NEW prio \in Priorities,
         Register(region, prio)
  PROVE  RegistryMoves
<1>1. next_id \in Nat /\ next_request \in Nat
  BY BoundsAssumption DEF TypeOK, RegistryOK
<1>2. next_id' = next_id + 1 /\ next_request' = next_request + 1
  BY DEF Register, NextRequest
<1> QED
  BY <1>1, <1>2 DEF Register, Put, RegistryMoves, MarkersIssued

\* asking for its value,
LEMMA TouchMoves ==
  ASSUME TypeOK, MarkersIssued, NEW id, Touch(id)
  PROVE  RegistryMoves
<1>1. next_id \in Nat /\ next_request \in Nat
  BY BoundsAssumption DEF TypeOK, RegistryOK
<1>2. next_id' = next_id /\ next_request' = next_request + 1
  BY DEF Touch, NextRequest
<1>3. \A i \in DOMAIN registry : registry[i] \in WatchEntry
  BY DEF TypeOK, RegistryOK
<1>4. CASE id \in DOMAIN registry
  BY <1>1, <1>2, <1>3, <1>4 DEF Touch, RegistryMoves, MarkersIssued, WatchEntry
<1>5. CASE id \notin DOMAIN registry
  BY <1>1, <1>2, <1>5 DEF Touch, RegistryMoves, MarkersIssued
<1> QED
  BY <1>4, <1>5

\* raising its tier,
LEMMA UpgradeMoves ==
  ASSUME TypeOK, MarkersIssued, NEW id, NEW prio, UpgradePriority(id, prio)
  PROVE  RegistryMoves
<1>1. next_id \in Nat /\ next_request \in Nat
  BY BoundsAssumption DEF TypeOK, RegistryOK
<1>2. next_id' = next_id /\ next_request' = next_request + 1
  BY DEF UpgradePriority, NextRequest
<1>3. \A i \in DOMAIN registry : registry[i] \in WatchEntry
  BY DEF TypeOK, RegistryOK
<1>4. CASE id \in DOMAIN registry
  BY <1>1, <1>2, <1>3, <1>4 DEF UpgradePriority, RegistryMoves, MarkersIssued, WatchEntry
<1>5. CASE id \notin DOMAIN registry
  BY <1>1, <1>2, <1>5 DEF UpgradePriority, RegistryMoves, MarkersIssued
<1> QED
  BY <1>4, <1>5

\* replacing the script,
LEMMA ClearMoves ==
  ASSUME TypeOK, MarkersIssued, Clear
  PROVE  RegistryMoves
  BY EmptyFunction, BoundsAssumption DEF Clear, RegistryMoves, TypeOK, RegistryOK

\* and the demand window closing.
LEMMA DormantMoves ==
  ASSUME TypeOK, MarkersIssued, NEW id, GoDormant(id)
  PROVE  RegistryMoves
<1>1. \A i \in DOMAIN registry : registry[i] \in WatchEntry
  BY DEF TypeOK, RegistryOK
<1>2. next_id \in Nat /\ next_request \in Nat
  BY BoundsAssumption DEF TypeOK, RegistryOK
<1> QED
  BY <1>1, <1>2 DEF GoDormant, RegistryMoves, MarkersIssued, WatchEntry

\* Moves of the registry keep the invariant: a new id is held nowhere, and
\* every bound on samples and markers only gets looser.
LEMMA MovesKeepInv ==
  ASSUME TypeOK, CacheInv, RegistryMoves, scriptUnchanged
  PROVE  CacheInv'
<1>1. /\ UNCHANGED <<current, pc, watches, live_ids, builder, read_state, batch, reply>>
      /\ Latest' = Latest
  BY DEF scriptUnchanged, cycleVars, Latest
<1>2. next_id \in Nat /\ next_request \in Nat
  BY BoundsAssumption DEF TypeOK, RegistryOK
<1>3. \A id \in DOMAIN watches : watches[id].request_seq \in Nat /\ id \in Nat
  BY DEF TypeOK, CycleOK, WatchEntry, WatchId
<1>4. \A id \in DOMAIN current.data : current.data[id].at \in Nat /\ id \in Nat
  BY DEF TypeOK, SnapshotOK, Cached, WatchId
<1>5. \A id \in DOMAIN builder : builder[id].at \in Nat /\ id \in Nat
  BY DEF TypeOK, CycleOK, Cached, WatchId
<1>6. reply.kind = "ok" => reply.at \in Nat
  BY DEF TypeOK, FlightOK, NoReply, Failed
<1>7. live_ids \subseteq Nat /\ DOMAIN read_state \subseteq Nat
  BY DEF TypeOK, CycleOK, WatchId
<1>8. MarkersIssued'
  BY <1>1, <1>2, <1>3, <1>4, <1>5, <1>7 DEF CacheInv, MarkersIssued, RegistryMoves
<1>9. SampledInFlight'
  BY <1>1, <1>2, <1>6 DEF CacheInv, SampledInFlight, RegistryMoves, Members
<1>10. FulfilledSampled'
  BY <1>1 DEF CacheInv, FulfilledSampled
<1>11. FulfilledHeld'
  BY <1>1, <1>2 DEF CacheInv, FulfilledHeld, MarkersIssued, RegistryMoves
<1>12. SnapshotCarried'
  BY <1>1, <1>2 DEF CacheInv, SnapshotCarried, MarkersIssued, RegistryMoves
<1>13. SamplesOrdered'
  BY <1>1, <1>2, <1>4, <1>5, <1>6 DEF CacheInv, SamplesOrdered, RegistryMoves
<1>14. RegionsAgree'
  BY <1>1, <1>2 DEF CacheInv, RegionsAgree, MarkersIssued, RegistryMoves
<1> QED
  BY <1>8, <1>9, <1>10, <1>11, <1>12, <1>13, <1>14 DEF CacheInv

-----------------------------------------------------------------------------
(* The steps of the poll task and of the device.                           *)

\* Nothing is cached, asked or in flight at first.
LEMMA InitInv == Init => CacheInv
  BY EmptyFunction
     DEF Init, CacheInv, MarkersIssued, SampledInFlight, FulfilledSampled, FulfilledHeld,
         SnapshotCarried, SamplesOrdered, RegionsAgree, Latest, NoReply

\* live_ids is the registry's domain as the cycle begins.
LEMMA BeginCycleInv ==
  ASSUME TypeOK, CacheInv, BeginCycle
  PROVE  CacheInv'
<1>1. /\ UNCHANGED <<registry, next_id, next_request, current, watches, builder, read_state>>
      /\ UNCHANGED <<batch, reply>>
      /\ pc = "idle" /\ pc' = "begun" /\ live_ids' = DOMAIN registry
      /\ Latest = current.data /\ Latest' = current.data
  BY DEF BeginCycle, registryVars, Latest
<1>2. \A id \in DOMAIN registry : id < next_id
  BY BoundsAssumption DEF TypeOK, RegistryOK
<1>3. MarkersIssued'
  BY <1>1, <1>2 DEF CacheInv, MarkersIssued
<1>4. SampledInFlight'
  BY <1>1 DEF CacheInv, SampledInFlight, Members
<1>5. FulfilledSampled' /\ FulfilledHeld' /\ SnapshotCarried'
  BY <1>1 DEF CacheInv, FulfilledSampled, FulfilledHeld, SnapshotCarried
<1>6. SamplesOrdered' /\ RegionsAgree'
  BY <1>1 DEF CacheInv, SamplesOrdered, RegionsAgree
<1> QED
  BY <1>3, <1>4, <1>5, <1>6 DEF CacheInv

\* The builder starts as the snapshot on the ids that were live, so what is
\* fulfilled and still live is carried.
LEMMA ReadActiveInv ==
  ASSUME TypeOK, CacheInv, ReadActive
  PROVE  CacheInv'
<1>1. /\ UNCHANGED <<registry, next_id, next_request, current, live_ids, read_state>>
      /\ UNCHANGED <<batch, reply>>
      /\ pc = "begun" /\ pc' \in {"bulk", "realtime"}
      /\ Latest = current.data /\ Latest' = builder'
  BY DEF ReadActive, registryVars, Latest
<1>2. /\ DOMAIN watches' \subseteq DOMAIN registry
      /\ \A id \in DOMAIN watches' : watches'[id] = registry[id]
  BY DEF ReadActive, Keep
<1>3. /\ DOMAIN builder' = DOMAIN current.data \cap live_ids
      /\ \A id \in DOMAIN builder' : /\ builder'[id].at = current.data[id].at
                                     /\ builder'[id].region = current.data[id].region
  <2>1. \A id \in DOMAIN current.data : current.data[id] \in Cached
    BY DEF TypeOK, SnapshotOK
  <2>2. /\ DOMAIN FromPrev(current) = DOMAIN current.data
        /\ \A id \in DOMAIN current.data :
             /\ FromPrev(current)[id].at = current.data[id].at
             /\ FromPrev(current)[id].region = current.data[id].region
    BY <2>1 DEF FromPrev, Cached
  <2>3. builder' = Keep(FromPrev(current), live_ids)
    BY DEF ReadActive
  <2> QED
    BY <2>2, <2>3 DEF Keep
<1>4. \A id \in DOMAIN registry : id < next_id /\ registry[id].request_seq <= next_request
  BY BoundsAssumption DEF TypeOK, RegistryOK, CacheInv, MarkersIssued
<1>5. reply = NoReply /\ batch = {}
  BY <1>1 DEF TypeOK, FlightOK
<1>6. MarkersIssued'
  BY <1>1, <1>2, <1>3, <1>4 DEF CacheInv, MarkersIssued
<1>7. SampledInFlight'
  BY <1>1, <1>5 DEF SampledInFlight, NoReply
<1>8. FulfilledSampled'
  BY <1>1, <1>3 DEF CacheInv, FulfilledSampled
<1>9. FulfilledHeld' /\ SnapshotCarried'
  BY <1>1, <1>3 DEF CacheInv, FulfilledHeld, SnapshotCarried
<1>10. SamplesOrdered'
  <2>1. \A id \in DOMAIN current.data : current.data[id].at \in Nat
    BY DEF TypeOK, SnapshotOK, Cached
  <2> QED
    BY <1>1, <1>3, <1>5, <2>1 DEF CacheInv, SamplesOrdered, NoReply
<1>11. RegionsAgree'
  BY <1>1, <1>2, <1>3 DEF CacheInv, RegionsAgree
<1> QED
  BY <1>6, <1>7, <1>8, <1>9, <1>10, <1>11 DEF CacheInv

\* Sending a batch, giving up on a read and ending the drain touch none of
\* the data.
LEMMA QuietInv ==
  ASSUME TypeOK, CacheInv,
         UNCHANGED <<registry, next_id, next_request, current, live_ids, watches, builder,
                     read_state>>,
         pc \notin {"idle", "begun"}, pc' \notin {"idle", "begun"},
         \/ reply' = NoReply
         \/ reply' = Failed
  PROVE  CacheInv'
<1>1. Latest' = Latest
  BY DEF Latest
<1>2. MarkersIssued'
  BY DEF CacheInv, MarkersIssued
<1>3. SampledInFlight'
  BY DEF SampledInFlight, NoReply, Failed
<1>4. FulfilledSampled' /\ FulfilledHeld' /\ SnapshotCarried'
  BY <1>1 DEF CacheInv, FulfilledSampled, FulfilledHeld, SnapshotCarried
<1>5. SamplesOrdered' /\ RegionsAgree'
  BY <1>1 DEF CacheInv, SamplesOrdered, RegionsAgree, NoReply, Failed
<1> QED
  BY <1>2, <1>3, <1>4, <1>5 DEF CacheInv

\* The sample is stamped with the clock, which no observed request exceeds.
LEMMA DeviceAnswersInv ==
  ASSUME TypeOK, CacheInv, DeviceAnswers
  PROVE  CacheInv'
<1>1. /\ UNCHANGED <<registry, next_id, next_request, current, live_ids, watches, builder>>
      /\ UNCHANGED <<read_state, batch, pc>>
      /\ Latest' = Latest
  BY DEF DeviceAnswers, multiReadUnchanged, registryVars, Latest
<1>2. PICK got \in Answers : reply' = Reply(next_request, got)
  BY DEF DeviceAnswers
<1>3. reply'.at = next_request /\ reply'.got = got /\ next_request \in Nat
  BY <1>2, BoundsAssumption DEF Reply, TypeOK, RegistryOK
<1>4. ~MayTruncate => got = Members(batch)
  BY DEF Answers
<1>5. SampledInFlight'
  <2>1. \A id \in Members(batch) : watches[id].request_seq <= next_request
    BY BatchMembers DEF CacheInv, MarkersIssued
  <2> QED
    BY <1>1, <1>3, <1>4, <2>1 DEF SampledInFlight, Members
<1>6. MarkersIssued'
  BY <1>1 DEF CacheInv, MarkersIssued
<1>7. FulfilledSampled' /\ FulfilledHeld' /\ SnapshotCarried'
  BY <1>1 DEF CacheInv, FulfilledSampled, FulfilledHeld, SnapshotCarried
<1>8. SamplesOrdered' /\ RegionsAgree'
  BY <1>1, <1>3 DEF CacheInv, SamplesOrdered, RegionsAgree
<1> QED
  BY <1>5, <1>6, <1>7, <1>8 DEF CacheInv

\* The bytes applied were sampled after the requests they are marked to
\* fulfil, and after everything the snapshot holds.
LEMMA ApplyInv ==
  ASSUME TypeOK, CacheInv, RealtimeOk \/ BulkOk
  PROVE  CacheInv'
<1>1. /\ UNCHANGED <<registry, next_id, next_request, current, live_ids, watches, cycle>>
      /\ pc \in {"realtimeWait", "bulkWait"} /\ pc' = "bulk" /\ reply.kind = "ok"
      /\ reply' = NoReply
      /\ Latest = builder /\ Latest' = builder'
      /\ ApplyReads /\ MarkFulfilled
  BY DEF RealtimeOk, BulkOk, multiReadUnchanged, registryVars, Latest
<1> DEFINE new == Members(batch) \cap reply.got
<1>2. /\ Members(batch) \subseteq DOMAIN watches
      /\ reply.at \in Nat /\ next_request \in Nat
  BY <1>1, BatchMembers, BoundsAssumption
     DEF TypeOK, RegistryOK, FlightOK, NoReply, Failed
<1>3. /\ DOMAIN builder' = DOMAIN builder \cup new
      /\ \A id \in new : builder'[id].at = reply.at /\ builder'[id].region = watches[id].region
      /\ \A id \in DOMAIN builder \ new : builder'[id] = builder[id]
  BY <1>1 DEF ApplyReads
<1>4. /\ DOMAIN read_state' = DOMAIN read_state \cup Members(batch)
      /\ \A id \in Members(batch) : read_state'[id].request_seq = watches[id].request_seq
      /\ \A id \in DOMAIN read_state \ Members(batch) : read_state'[id] = read_state[id]
  BY <1>1, <1>2 DEF MarkFulfilled
<1>5. /\ reply.at <= next_request
      /\ \A id \in Members(batch) : watches[id].request_seq <= reply.at
      /\ ~MayTruncate => new = Members(batch)
  BY <1>1 DEF CacheInv, SampledInFlight
<1> HIDE DEF new
<1>6. MarkersIssued'
  <2>1. new \subseteq DOMAIN watches
    BY <1>2 DEF new
  <2> QED
    BY <1>1, <1>2, <1>3, <1>4, <2>1 DEF CacheInv, MarkersIssued
<1>7. SampledInFlight'
  BY <1>1 DEF SampledInFlight, NoReply
<1>8. FulfilledSampled'
  BY <1>1, <1>3, <1>4, <1>5 DEF CacheInv, FulfilledSampled
<1>9. FulfilledHeld'
  BY <1>1, <1>3, <1>4, <1>5 DEF CacheInv, FulfilledHeld
<1>10. SnapshotCarried'
  BY <1>1, <1>3 DEF CacheInv, SnapshotCarried
<1>11. SamplesOrdered'
  BY <1>1, <1>3, <1>5 DEF CacheInv, SamplesOrdered, NoReply
<1>12. RegionsAgree'
  BY <1>1, <1>2, <1>3 DEF CacheInv, RegionsAgree, new
<1> QED
  BY <1>6, <1>7, <1>8, <1>9, <1>10, <1>11, <1>12 DEF CacheInv

\* The builder becomes the snapshot; the collection only forgets.
LEMMA PublishInv ==
  ASSUME TypeOK, CacheInv, Publish
  PROVE  CacheInv'
<1>1. /\ UNCHANGED <<registry, next_id, next_request, batch, reply>>
      /\ pc = "publish" /\ pc' = "idle" /\ reply = NoReply
      /\ current'.data = builder /\ Latest = builder /\ Latest' = builder
      /\ live_ids' = {} /\ watches' = << >> /\ builder' = << >>
  BY DEF Publish, registryVars, Latest, TypeOK, FlightOK
<1>2. /\ DOMAIN read_state' \subseteq DOMAIN read_state
      /\ \A id \in DOMAIN read_state' : read_state'[id] = read_state[id]
  <2>1. read_state' \in {read_state, Keep(read_state, live_ids)}
    BY DEF Publish
  <2> QED
    BY <2>1 DEF Keep
<1>3. MarkersIssued'
  BY <1>1, <1>2, EmptyFunction DEF CacheInv, MarkersIssued
<1>4. SampledInFlight'
  BY <1>1 DEF SampledInFlight, NoReply
<1>5. FulfilledSampled' /\ FulfilledHeld' /\ SnapshotCarried'
  BY <1>1, <1>2 DEF CacheInv, FulfilledSampled, FulfilledHeld, SnapshotCarried
<1>6. SamplesOrdered'
  <2>1. \A id \in DOMAIN builder : builder[id].at \in Nat
    BY DEF TypeOK, CycleOK, Cached
  <2> QED
    BY <1>1, <2>1, EmptyFunction DEF CacheInv, SamplesOrdered, NoReply
<1>7. RegionsAgree'
  BY <1>1, EmptyFunction DEF CacheInv, RegionsAgree
<1> QED
  BY <1>3, <1>4, <1>5, <1>6, <1>7 DEF CacheInv

\* Every step keeps the invariant.
LEMMA InvStep == TypeOK /\ CacheInv /\ [Next]_vars => CacheInv'
<1> SUFFICES ASSUME TypeOK, CacheInv, [Next]_vars PROVE CacheInv'
  OBVIOUS
<1> USE DEF registryVars, ghostVars, multiReadUnchanged
<1>0. MarkersIssued
  BY DEF CacheInv
<1>1. ASSUME NEW region \in Regions, NEW prio \in Priorities, Register(region, prio)
      PROVE  CacheInv'
  <2>1. RegistryMoves
    BY <1>0, <1>1, RegisterMoves
  <2> QED
    BY <1>1, <2>1, MovesKeepInv DEF Register
<1>2. ASSUME NEW id, Touch(id) PROVE CacheInv'
  <2>1. RegistryMoves
    BY <1>0, <1>2, TouchMoves
  <2> QED
    BY <1>2, <2>1, MovesKeepInv DEF Touch
<1>3. ASSUME NEW id, NEW prio, UpgradePriority(id, prio) PROVE CacheInv'
  <2>1. RegistryMoves
    BY <1>0, <1>3, UpgradeMoves
  <2> QED
    BY <1>3, <2>1, MovesKeepInv DEF UpgradePriority
<1>4. CASE Clear
  <2>1. RegistryMoves
    BY <1>0, <1>4, ClearMoves
  <2> QED
    BY <1>4, <2>1, MovesKeepInv DEF Clear
<1>5. ASSUME NEW id, GoDormant(id) PROVE CacheInv'
  <2>1. RegistryMoves
    BY <1>0, <1>5, DormantMoves
  <2> QED
    BY <1>5, <2>1, MovesKeepInv DEF GoDormant
<1>6. CASE \/ UNCHANGED vars
           \/ \E next \in Devices \cup {NoDevice} : RepublishSlot(next)
  <2>1. /\ UNCHANGED <<registry, next_id, next_request, current, pc, live_ids, watches>>
        /\ UNCHANGED <<builder, read_state, batch, reply>>
        /\ Latest' = Latest
    BY <1>6 DEF vars, cycleVars, RepublishSlot, Latest
  <2>2. MarkersIssued' /\ SampledInFlight' /\ SamplesOrdered' /\ RegionsAgree'
    BY <2>1 DEF CacheInv, MarkersIssued, SampledInFlight, SamplesOrdered, RegionsAgree, Members
  <2>3. FulfilledSampled' /\ FulfilledHeld' /\ SnapshotCarried'
    BY <2>1 DEF CacheInv, FulfilledSampled, FulfilledHeld, SnapshotCarried
  <2> QED
    BY <2>2, <2>3 DEF CacheInv
<1>7. CASE \/ IssueRealtime
           \/ \E budget \in Budgets : IssueBulk(budget)
           \/ EndBulk
  <2>1. /\ UNCHANGED <<registry, next_id, next_request, current, live_ids, watches>>
        /\ UNCHANGED <<builder, read_state, reply>>
        /\ pc \in {"realtime", "bulk"} /\ pc' \in {"realtimeWait", "bulkWait", "publish"}
    BY <1>7 DEF IssueRealtime, IssueBulk, EndBulk
  <2>2. reply = NoReply
    BY <2>1 DEF TypeOK, FlightOK
  <2> QED
    BY <2>1, <2>2, QuietInv
<1>8. CASE DeviceFails \/ RealtimeErr \/ BulkErr
  <2>1. /\ UNCHANGED <<registry, next_id, next_request, current, live_ids, watches>>
        /\ UNCHANGED <<builder, read_state>>
        /\ pc \in {"realtimeWait", "bulkWait"}
        /\ pc' \in {"realtimeWait", "bulkWait", "bulk", "publish"}
        /\ reply' \in {NoReply, Failed}
    BY <1>8 DEF DeviceFails, RealtimeErr, BulkErr
  <2> QED
    BY <2>1, QuietInv
<1>9. CASE RealtimeOk \/ BulkOk
  BY <1>9, ApplyInv
<1> QED
  BY <1>1, <1>2, <1>3, <1>4, <1>5, <1>6, <1>7, <1>8, <1>9,
     BeginCycleInv, ReadActiveInv, DeviceAnswersInv, PublishInv
     DEF Next, Script, FinishCycle

-----------------------------------------------------------------------------

\* The inductive invariant: markers, samples in flight, the builder, the
\* snapshot and the fulfilment records stay in step across every
\* interleaving of scripts, poll task, device and actor.
THEOREM CacheInvariant == Spec => []CacheInv
<1>1. Init => CacheInv
  BY InitInv
<1>2. TypeOK /\ CacheInv /\ [Next]_vars => CacheInv'
  BY InvStep
<1> QED
  BY <1>1, <1>2, TypeCorrect, PTL DEF Spec

\* A request the engine holds to be fulfilled is answered by bytes sampled
\* after it was made, when replies are complete (engine.rs mark_fulfilled).
THEOREM FreshnessHolds ==
  ASSUME ~MayTruncate
  PROVE  Spec => []AnsweredAfterAsked
<1>1. TypeOK /\ CacheInv => AnsweredAfterAsked
  <2> SUFFICES ASSUME TypeOK, CacheInv,
                      NEW id \in DOMAIN registry, Fulfilled(id) >= registry[id].request_seq
               PROVE  id \in DOMAIN Latest /\ Latest[id].at >= registry[id].request_seq
    BY DEF AnsweredAfterAsked
  <2>1. registry[id].request_seq \in Nat /\ registry[id].request_seq >= 1
    BY BoundsAssumption DEF CacheInv, MarkersIssued, TypeOK, RegistryOK
  <2>2. id \in DOMAIN read_state
    BY <2>1 DEF Fulfilled
  <2>3. read_state[id].request_seq \in Nat
    BY <2>2 DEF TypeOK, CycleOK, ReadStates
  <2>4. id \in DOMAIN Latest
    BY <2>2 DEF CacheInv, FulfilledHeld
  <2>5. Latest[id].at \in Nat
    BY <2>4 DEF Latest, TypeOK, SnapshotOK, CycleOK, Cached
  <2>6. read_state[id].request_seq <= Latest[id].at
    BY <2>2, <2>4 DEF CacheInv, FulfilledSampled
  <2> QED
    BY <2>1, <2>2, <2>3, <2>4, <2>5, <2>6 DEF Fulfilled
<1> QED
  BY <1>1, TypeCorrect, CacheInvariant, PTL

\* Bytes cached under a live id are of that id's region: ids are not reused
\* when a script is reloaded in the middle of a cycle (watch.rs clear).
THEOREM OwnBytesHold == Spec => []OwnBytes
<1>1. CacheInv => OwnBytes
  BY DEF CacheInv, RegionsAgree, OwnBytes
<1> QED
  BY <1>1, CacheInvariant, PTL

-----------------------------------------------------------------------------
(* The two books of a value's age agree.                                   *)

\* Steps that move none of what the ages are about.
LEMMA AgeKept ==
  ASSUME AgeInv, UNCHANGED <<current, pc, cycle, watches, builder, read_state, batch, last_error>>
  PROVE  AgeInv'
<1>1. CyclesCounted' = CyclesCounted /\ Latest' = Latest /\ RealtimeIds' = RealtimeIds
  BY DEF CyclesCounted, Latest, RealtimeIds
<1>2. AgesCounted'
  BY <1>1 DEF AgeInv, AgesCounted
<1>3. RealtimeServed'
  BY <1>1 DEF AgeInv, RealtimeServed
<1> QED
  BY <1>2, <1>3 DEF AgeInv

\* The builder starts from the snapshot, everything one cycle older.
LEMMA ReadActiveAge ==
  ASSUME TypeOK, AgeInv, ReadActive
  PROVE  AgeInv'
<1>1. /\ UNCHANGED <<current, cycle, read_state, batch>>
      /\ pc = "begun" /\ pc' \in {"bulk", "realtime"}
      /\ pc' = "bulk" => RealtimeIds' = {}
      /\ CyclesCounted = cycle - 1 /\ CyclesCounted' = cycle
      /\ Latest = current.data /\ Latest' = builder'
  BY DEF ReadActive, CyclesCounted, Latest
<1>2. cycle \in Nat /\ \A id \in DOMAIN read_state : read_state[id].refresh_cycle \in Nat
  BY BoundsAssumption DEF TypeOK, CycleOK, ReadStates
<1>3. \A id \in DOMAIN current.data : current.data[id] \in Cached /\ current.data[id].age \in Nat
  BY DEF TypeOK, SnapshotOK, Cached
<1>4. /\ DOMAIN builder' \subseteq DOMAIN current.data
      /\ \A id \in DOMAIN builder' : builder'[id].age = current.data[id].age + 1
  <2>1. /\ DOMAIN FromPrev(current) = DOMAIN current.data
        /\ \A id \in DOMAIN current.data : FromPrev(current)[id].age = current.data[id].age + 1
    BY <1>3 DEF FromPrev, Cached
  <2>2. builder' = Keep(FromPrev(current), live_ids)
    BY DEF ReadActive
  <2> HIDE DEF FromPrev
  <2> QED
    BY <2>1, <2>2 DEF Keep
<1>5. AgesCounted'
  BY <1>1, <1>2, <1>3, <1>4 DEF AgeInv, AgesCounted
<1>6. RealtimeServed'
  BY <1>1 DEF RealtimeServed
<1> QED
  BY <1>5, <1>6 DEF AgeInv

\* What an answer brings is of age 0, and was refreshed in this cycle.
LEMMA ApplyAge ==
  ASSUME TypeOK, CacheInv, AgeInv, RealtimeOk \/ BulkOk
  PROVE  AgeInv'
<1>1. /\ UNCHANGED <<current, cycle, watches, last_error>>
      /\ pc \in {"realtimeWait", "bulkWait"} /\ pc' = "bulk" /\ reply.kind = "ok"
      /\ Latest = builder /\ Latest' = builder'
      /\ CyclesCounted = cycle /\ CyclesCounted' = cycle /\ RealtimeIds' = RealtimeIds
      /\ ApplyReads /\ MarkFulfilled
  BY DEF RealtimeOk, BulkOk, multiReadUnchanged, Latest, CyclesCounted, RealtimeIds
<1>2. Members(batch) \subseteq DOMAIN watches /\ cycle \in Nat
  BY BatchMembers, BoundsAssumption DEF TypeOK, CycleOK
<1>3. ~MayTruncate => reply.got = Members(batch)
  BY <1>1 DEF CacheInv, SampledInFlight
<1>4. /\ DOMAIN read_state' = DOMAIN read_state \cup Members(batch)
      /\ \A id \in Members(batch) : read_state'[id].refresh_cycle = cycle
      /\ \A id \in DOMAIN read_state \ Members(batch) : read_state'[id] = read_state[id]
  BY <1>1, <1>2 DEF MarkFulfilled
<1>5. ASSUME ~MayTruncate
      PROVE  /\ DOMAIN builder' = DOMAIN builder \cup Members(batch)
             /\ \A id \in Members(batch) : builder'[id].age = 0
             /\ \A id \in DOMAIN builder \ Members(batch) : builder'[id] = builder[id]
  BY <1>1, <1>3, <1>5 DEF ApplyReads
<1>6. AgesCounted'
  BY <1>1, <1>2, <1>4, <1>5 DEF AgeInv, AgesCounted
<1>7. ASSUME ~MayTruncate, ~last_error, NEW id \in RealtimeIds
      PROVE  id \in DOMAIN builder' /\ builder'[id].age = 0
  <2>1. CASE pc = "bulkWait"
    BY <1>5, <1>7, <2>1 DEF AgeInv, RealtimeServed
  <2>2. CASE pc = "realtimeWait"
    <3>1. \A v \in RealtimeIds : First(watches, v) \in Nat
      BY RegionsAssumption DEF TypeOK, CycleOK, WatchEntry, RealtimeIds, First
    <3>2. id \in Members(batch)
      BY <1>7, <2>2, <3>1, CoalesceMembersAre DEF AgeInv, RealtimeServed
    <3> QED
      BY <1>5, <1>7, <3>2
  <2> QED
    BY <1>1, <2>1, <2>2
<1>8. RealtimeServed'
  BY <1>1, <1>7 DEF RealtimeServed
<1> QED
  BY <1>6, <1>8 DEF AgeInv

\* Every step keeps the two books in agreement.
LEMMA AgeStep == TypeOK /\ CacheInv /\ AgeInv /\ [Next]_vars => AgeInv'
<1> SUFFICES ASSUME TypeOK, CacheInv, AgeInv, [Next]_vars PROVE AgeInv'
  OBVIOUS
<1> DEFINE kept == <<current, pc, cycle, watches, builder, read_state, batch, last_error>>
<1>1. CASE \/ Script \/ UNCHANGED vars
           \/ \E id \in DOMAIN registry : GoDormant(id)
           \/ \E next \in Devices \cup {NoDevice} : RepublishSlot(next)
           \/ DeviceAnswers \/ DeviceFails
  <2>1. UNCHANGED kept
    BY <1>1 DEF Script, Register, Touch, UpgradePriority, Clear, GoDormant, scriptUnchanged,
                RepublishSlot, cycleVars, vars, DeviceAnswers, DeviceFails, multiReadUnchanged
  <2> QED
    BY <2>1, AgeKept
<1>2. CASE BeginCycle
  <2>1. /\ UNCHANGED <<current, read_state>>
        /\ pc = "idle" /\ pc' = "begun" /\ cycle' = cycle + 1 /\ cycle \in Nat
    BY <1>2, BoundsAssumption DEF BeginCycle, TypeOK, CycleOK
  <2>2. CyclesCounted' = CyclesCounted /\ Latest' = Latest
    BY <2>1 DEF CyclesCounted, Latest
  <2> QED
    BY <2>1, <2>2 DEF AgeInv, AgesCounted, RealtimeServed
<1>3. CASE \/ IssueRealtime \/ RealtimeErr \/ EndBulk \/ BulkErr
           \/ \E budget \in Budgets : IssueBulk(budget)
  <2>1. /\ UNCHANGED <<current, cycle, watches, builder, read_state>>
        /\ \/ pc = "realtime" /\ pc' = "realtimeWait"
              /\ batch' = Coalesce(watches, RealtimeIds, Gap)
           \/ pc = "realtimeWait" /\ pc' = "bulk" /\ last_error' = TRUE
           \/ pc = "bulk" /\ pc' \in {"bulkWait", "publish"} /\ last_error' = last_error
           \/ pc = "bulkWait" /\ pc' = "publish" /\ last_error' = TRUE
    BY <1>3 DEF IssueRealtime, RealtimeErr, EndBulk, BulkErr, IssueBulk, multiReadUnchanged
  <2>2. CyclesCounted' = CyclesCounted /\ Latest' = Latest /\ RealtimeIds' = RealtimeIds
    BY <2>1 DEF CyclesCounted, Latest, RealtimeIds
  <2>3. AgesCounted'
    BY <2>1, <2>2 DEF AgeInv, AgesCounted
  <2>4. RealtimeServed'
    BY <2>1, <2>2 DEF AgeInv, RealtimeServed
  <2> QED
    BY <2>3, <2>4 DEF AgeInv
<1>4. CASE Publish
  <2>1. /\ pc = "publish" /\ pc' = "idle" /\ cycle' = cycle
        /\ current'.data = builder /\ current'.cycle = cycle
        /\ read_state' \in {read_state, Keep(read_state, live_ids)}
    BY <1>4 DEF Publish
  <2>2. CyclesCounted' = cycle /\ CyclesCounted = cycle /\ Latest' = builder /\ Latest = builder
    BY <2>1 DEF CyclesCounted, Latest
  <2>3. /\ DOMAIN read_state' \subseteq DOMAIN read_state
        /\ \A id \in DOMAIN read_state' : read_state'[id] = read_state[id]
    BY <2>1 DEF Keep
  <2> QED
    BY <2>1, <2>2, <2>3 DEF AgeInv, AgesCounted, RealtimeServed
<1> QED
  BY <1>1, <1>2, <1>3, <1>4, ReadActiveAge, ApplyAge DEF Next, FinishCycle

\* The invariant of the ages holds, whatever the device truncates.
LEMMA AgeInvariant == Spec => []AgeInv
<1>1. Init => AgeInv
  BY DEF Init, AgeInv, AgesCounted, RealtimeServed, CyclesCounted
<1> QED
  BY <1>1, AgeStep, TypeCorrect, CacheInvariant, PTL DEF Spec

\* The age scripts see counts the cycles since the refresh on record, and
\* after a cycle without errors every realtime watch has age 0 (snapshot.rs
\* from_prev, engine.rs apply_reads and mark_fulfilled), when the device
\* answers in full.
THEOREM AgesHonest ==
  ASSUME ~MayTruncate
  PROVE  Spec => []AgeHonest
<1>1. AgeInv => AgeHonest
  BY DEF AgeInv, AgesCounted, RealtimeServed, AgeHonest, CyclesCounted, Latest
<1> QED
  BY <1>1, AgeInvariant, PTL

-----------------------------------------------------------------------------
(* No request is passed over for ever: the bound on the cycles it waits.   *)

\* Parts of the ids handed out are finite, and grow in number as they grow.
LEMMA CountGrows ==
  ASSUME NEW n \in Nat, NEW A \in SUBSET (0..(n - 1)),
         NEW m \in Nat, NEW B \in SUBSET (0..(m - 1)), A \subseteq B
  PROVE  /\ Cardinality(A) \in Nat /\ Cardinality(B) \in Nat
         /\ Cardinality(A) <= Cardinality(B)
         /\ \A v \in B \ A : Cardinality(A) + 1 <= Cardinality(B)
<1>1. IsFiniteSet(0..(m - 1))
  BY FS_Interval
<1>2. IsFiniteSet(B)
  BY <1>1, FS_Subset
<1>3. IsFiniteSet(A) /\ Cardinality(A) <= Cardinality(B)
  BY <1>2, FS_Subset
<1>4. Cardinality(A) \in Nat /\ Cardinality(B) \in Nat
  BY <1>2, <1>3, FS_CardinalityType
<1>5. ASSUME NEW v \in B \ A
      PROVE  Cardinality(A) + 1 <= Cardinality(B)
  <2>1. A \cup {v} \in SUBSET B
    BY <1>5
  <2>2. Cardinality(A \cup {v}) <= Cardinality(B)
    BY <1>2, <2>1, FS_Subset
  <2>3. Cardinality(A \cup {v}) = Cardinality(A) + 1
    BY <1>3, <1>5, FS_AddElement
  <2> QED
    BY <2>2, <2>3
<1> QED
  BY <1>3, <1>4, <1>5

\* All ids but one.
LEMMA CountOthers ==
  ASSUME NEW n \in Nat, NEW id \in 0..(n - 1), NEW A \in SUBSET ((0..(n - 1)) \ {id})
  PROVE  Cardinality(A) \in Nat /\ Cardinality(A) <= n - 1
<1>1. IsFiniteSet(0..(n - 1)) /\ Cardinality(0..(n - 1)) = n
  BY FS_Interval
<1>2. IsFiniteSet((0..(n - 1)) \ {id}) /\ Cardinality((0..(n - 1)) \ {id}) = n - 1
  BY <1>1, FS_RemoveElement
<1>3. IsFiniteSet(A) /\ Cardinality(A) <= n - 1
  BY <1>2, FS_Subset
<1> QED
  BY <1>3, FS_CardinalityType

\* A collection takes from one count no more than it adds to the other.
LEMMA CountsExchange ==
  ASSUME NEW n \in Nat, NEW O \in SUBSET (0..(n - 1)), NEW A \in SUBSET O, NEW F,
         NEW B \in SUBSET O, A \ F \subseteq B
  PROVE  Cardinality(A) + Cardinality(O \ F) <= Cardinality(B) + Cardinality(O)
<1>1. IsFiniteSet(0..(n - 1))
  BY FS_Interval
<1>2. IsFiniteSet(O) /\ IsFiniteSet(A) /\ IsFiniteSet(B)
  BY <1>1, FS_Subset
<1>3. IsFiniteSet(A \ F) /\ Cardinality(A \ F) = Cardinality(A) - Cardinality(A \cap F)
  BY <1>2, FS_Difference
<1>4. IsFiniteSet(O \ F) /\ Cardinality(O \ F) = Cardinality(O) - Cardinality(O \cap F)
  BY <1>2, FS_Difference
<1>5. IsFiniteSet(O \cap F) /\ IsFiniteSet(A \cap F)
  BY <1>2, FS_Intersection
<1>6. Cardinality(A \cap F) <= Cardinality(O \cap F)
  <2>1. A \cap F \in SUBSET (O \cap F)
    OBVIOUS
  <2> QED
    BY <1>5, <2>1, FS_Subset
<1>7. Cardinality(A \ F) <= Cardinality(B)
  BY <1>2, FS_Subset
<1>8. /\ Cardinality(A) \in Nat /\ Cardinality(O) \in Nat /\ Cardinality(B) \in Nat
      /\ Cardinality(A \cap F) \in Nat /\ Cardinality(O \cap F) \in Nat
  BY <1>2, <1>5, FS_CardinalityType
<1> DEFINE a == Cardinality(A)  o == Cardinality(O)  b == Cardinality(B)
           af == Cardinality(A \cap F)  of == Cardinality(O \cap F)
           al == Cardinality(A \ F)  ol == Cardinality(O \ F)
<1>9. /\ al = a - af /\ ol = o - of /\ af <= of /\ al <= b
      /\ a \in Nat /\ o \in Nat /\ b \in Nat /\ af \in Nat /\ of \in Nat
  BY <1>3, <1>4, <1>6, <1>7, <1>8
<1> HIDE DEF a, o, b, af, of, al, ol
<1>10. a + ol <= b + o
  BY <1>9
<1> QED
  BY <1>10 DEF a, o, b, ol

\* The numbers of the bookkeeping.
LEMMA WaitTypes ==
  ASSUME TypeOK
  PROVE  /\ next_id \in Nat /\ cycle \in Nat /\ errors \in Nat /\ GcPeriod \in Nat \ {0}
         /\ \A id : Refreshed(id) \in Nat /\ Fulfilled(id) \in Nat /\ WaitedFor(id) \in Nat
         /\ \A id \in DOMAIN watches : watches[id].request_seq \in Nat
         /\ \A id : Others(id) \in SUBSET (0..(next_id - 1))
         /\ \A id : Ahead(id) \in SUBSET Others(id) /\ Settled(id) \in SUBSET Others(id)
<1>1. next_id \in Nat /\ cycle \in Nat /\ errors \in Nat /\ GcPeriod \in Nat \ {0}
  BY BoundsAssumption DEF TypeOK, RegistryOK, CycleOK, BooksOK
<1>2. \A id \in DOMAIN read_state : /\ read_state[id].request_seq \in Nat
                                    /\ read_state[id].refresh_cycle \in Nat
  BY DEF TypeOK, CycleOK, ReadStates
<1>3. \A id \in DOMAIN waited : waited[id] \in Nat
  BY DEF TypeOK, BooksOK
<1>4. \A id \in DOMAIN watches : watches[id].request_seq \in Nat
  BY DEF TypeOK, CycleOK, WatchEntry
<1>5. \A id : Others(id) \in SUBSET (0..(next_id - 1))
  BY DEF Others
<1>6. \A id : Ahead(id) \in SUBSET Others(id) /\ Settled(id) \in SUBSET Others(id)
  BY DEF Ahead, Settled
<1>7. \A id : Refreshed(id) \in Nat /\ Fulfilled(id) \in Nat /\ WaitedFor(id) \in Nat
  BY <1>2, <1>3 DEF Refreshed, RefreshCycle, Fulfilled, WaitedFor
<1> QED
  BY <1>1, <1>4, <1>5, <1>6, <1>7

\* What a wait is held against only grows while these do.
LEMMA RoomGrows ==
  ASSUME TypeOK, TypeOK', NEW id, Ahead(id) \subseteq Ahead(id)', Settled(id) \subseteq Settled(id)',
         errors <= errors', cycle <= cycle'
  PROVE  /\ Room(id) \in Nat /\ Room(id)' \in Nat /\ Room(id) <= Room(id)'
         /\ errors + 1 <= errors' => Room(id) + 1 <= Room(id)'
         /\ \A v \in Ahead(id)' \ Ahead(id) : Room(id) + 1 <= Room(id)'
<1> DEFINE a == Cardinality(Ahead(id))  s == Cardinality(Settled(id))
           b == Cardinality(Ahead(id)')  t == Cardinality(Settled(id)')
<1>1. /\ next_id \in Nat /\ next_id' \in Nat /\ cycle \in Nat /\ cycle' \in Nat
      /\ errors \in Nat /\ errors' \in Nat /\ GcPeriod \in Nat
  BY BoundsAssumption DEF TypeOK, RegistryOK, CycleOK, BooksOK
<1>2. /\ Ahead(id) \in SUBSET (0..(next_id - 1)) /\ Ahead(id)' \in SUBSET (0..(next_id' - 1))
      /\ Settled(id) \in SUBSET (0..(next_id - 1)) /\ Settled(id)' \in SUBSET (0..(next_id' - 1))
  BY DEF Ahead, Settled, Others
<1>3. a \in Nat /\ b \in Nat /\ a <= b /\ \A v \in Ahead(id)' \ Ahead(id) : a + 1 <= b
  BY <1>1, <1>2, CountGrows
<1>4. s \in Nat /\ t \in Nat /\ s <= t
  BY <1>1, <1>2, CountGrows
<1>5. /\ cycle < GcPeriod => Room(id) = errors + a
      /\ ~(cycle < GcPeriod) => Room(id) = errors + a + s
      /\ cycle' < GcPeriod => Room(id)' = errors' + b
      /\ ~(cycle' < GcPeriod) => Room(id)' = errors' + b + t
  BY <1>1, <1>3, <1>4 DEF Room
<1> HIDE DEF a, s, b, t
<1>6. Room(id) \in Nat /\ Room(id)' \in Nat /\ Room(id) <= Room(id)'
  BY <1>1, <1>3, <1>4, <1>5
<1>7. errors + 1 <= errors' => Room(id) + 1 <= Room(id)'
  BY <1>1, <1>3, <1>4, <1>5
<1>8. a + 1 <= b => Room(id) + 1 <= Room(id)'
  BY <1>1, <1>3, <1>4, <1>5
<1> QED
  BY <1>3, <1>6, <1>7, <1>8

\* The steps of scripts and of the actor.
Outside ==
  \/ Script \/ UNCHANGED vars
  \/ \E id \in DOMAIN registry : GoDormant(id)
  \/ \E next \in Devices \cup {NoDevice} : RepublishSlot(next)

\* They leave the poll task alone, and add a watch or drop all.
LEMMA OutsideFrame ==
  ASSUME TypeOK, Outside
  PROVE  /\ UNCHANGED <<pc, cycle, live_ids, watches, read_state, batch, reply>>
         /\ UNCHANGED <<done, reads_issued, last_error, errors, waited>>
         /\ \/ DOMAIN registry' = DOMAIN registry /\ next_id' = next_id
            \/ DOMAIN registry' = DOMAIN registry \cup {next_id} /\ next_id' = next_id + 1
            \/ DOMAIN registry' = {} /\ next_id' = next_id
<1>1. /\ UNCHANGED <<pc, cycle, live_ids, watches, read_state, batch, reply>>
      /\ UNCHANGED <<done, reads_issued, last_error, errors, waited>>
  BY DEF Outside, Script, Register, Touch, UpgradePriority, Clear, GoDormant, RepublishSlot,
         scriptUnchanged, cycleVars, ghostVars, vars
<1>2. CASE \E region \in Regions, prio \in Priorities : Register(region, prio)
  BY <1>1, <1>2 DEF Register, Put
<1>3. CASE Clear
  BY <1>1, <1>3, EmptyFunction DEF Clear
<1>4. CASE \/ \E id \in 0..(MaxId - 1) : Touch(id)
           \/ \E id \in 0..(MaxId - 1), prio \in Priorities : UpgradePriority(id, prio)
           \/ \E id \in DOMAIN registry : GoDormant(id)
           \/ \E next \in Devices \cup {NoDevice} : RepublishSlot(next)
           \/ UNCHANGED vars
  <2>1. DOMAIN registry' = DOMAIN registry /\ next_id' = next_id
    BY <1>4 DEF Touch, UpgradePriority, GoDormant, RepublishSlot, registryVars, vars
  <2> QED
    BY <1>1, <2>1
<1> QED
  BY <1>1, <1>2, <1>3, <1>4 DEF Outside, Script

\* What the bookkeeping of waits is about, when the poll task does not move
\* its records.
LEMMA WaitFrame ==
  ASSUME UNCHANGED <<cycle, watches, read_state, waited>>
  PROVE  /\ \A id : Refreshed(id)' = Refreshed(id) /\ Fulfilled(id)' = Fulfilled(id)
         /\ \A id : Pending(id)' = Pending(id) /\ WaitedFor(id)' = WaitedFor(id)
         /\ RealtimeIds' = RealtimeIds /\ BulkIds' = BulkIds
  BY DEF Refreshed, RefreshCycle, Fulfilled, Pending, WaitedFor, RealtimeIds, BulkIds

\* A batch that is answered marks its members, in this cycle, fulfilled.
LEMMA MarksFrame ==
  ASSUME TypeOK, RealtimeOk \/ BulkOk
  PROVE  /\ Members(batch) \subseteq DOMAIN watches
         /\ \A id \in Members(batch) : Refreshed(id)' = cycle /\ ~Pending(id)'
         /\ \A id : id \notin Members(batch) =>
              Refreshed(id)' = Refreshed(id) /\ Pending(id)' = Pending(id)
<1>1. watches' = watches /\ MarkFulfilled
  BY DEF RealtimeOk, BulkOk, multiReadUnchanged
<1>2. Members(batch) \subseteq DOMAIN watches
  BY BatchMembers
<1>3. /\ DOMAIN read_state' = DOMAIN read_state \cup Members(batch)
      /\ \A id \in Members(batch) : /\ read_state'[id].refresh_cycle = cycle
                                    /\ read_state'[id].request_seq = watches[id].request_seq
      /\ \A id \in DOMAIN read_state \ Members(batch) : read_state'[id] = read_state[id]
  BY <1>1, <1>2 DEF MarkFulfilled
<1>4. \A id \in DOMAIN watches : watches[id].request_seq \in Nat
  BY WaitTypes
<1>5. \A id \in Members(batch) : Refreshed(id)' = cycle /\ Fulfilled(id)' = watches[id].request_seq
  BY <1>3 DEF Refreshed, RefreshCycle, Fulfilled
<1>6. \A id : id \notin Members(batch) =>
        Refreshed(id)' = Refreshed(id) /\ Fulfilled(id)' = Fulfilled(id)
  BY <1>3 DEF Refreshed, RefreshCycle, Fulfilled
<1> QED
  BY <1>1, <1>2, <1>4, <1>5, <1>6 DEF Pending

\* The steps of the task in mid-cycle that move no records.
Midway ==
  \/ IssueRealtime \/ (\E budget \in Budgets : IssueBulk(budget)) \/ EndBulk
  \/ DeviceAnswers \/ DeviceFails \/ RealtimeErr \/ BulkErr

\* They happen between the read of the registry and the publication.
LEMMA MidwayFrame ==
  ASSUME Midway
  PROVE  /\ UNCHANGED <<registry, next_id, cycle, live_ids, watches, read_state, done>>
         /\ UNCHANGED <<reads_issued, waited>>
         /\ pc \in {"realtime", "realtimeWait", "bulk", "bulkWait"}
         /\ pc' \in {"realtime", "realtimeWait", "bulk", "bulkWait", "publish"}
  BY DEF Midway, IssueRealtime, IssueBulk, EndBulk, DeviceAnswers, DeviceFails, RealtimeErr, BulkErr,
         multiReadUnchanged, registryVars, ghostVars

\* Every step is one of these, or begins, reads, marks or publishes.
LEMMA StepKinds ==
  [Next]_vars => Outside \/ Midway \/ BeginCycle \/ ReadActive \/ RealtimeOk \/ BulkOk \/ Publish
  BY DEF Next, FinishCycle, Outside, Midway

-----------------------------------------------------------------------------
\* Refreshes stay dated in the past.
LEMMA PastStep ==
  ASSUME TypeOK, RefreshesPast, [Next]_vars
  PROVE  RefreshesPast'
<1>1. CASE Outside \/ Midway
  <2>1. /\ UNCHANGED <<cycle, watches, read_state, waited>>
        /\ \/ pc' = pc
           \/ /\ pc \in {"realtime", "realtimeWait", "bulk", "bulkWait"}
              /\ pc' \in {"realtime", "realtimeWait", "bulk", "bulkWait", "publish"}
    BY <1>1, OutsideFrame, MidwayFrame
  <2>2. CyclesCounted' = CyclesCounted
    BY <2>1 DEF CyclesCounted
  <2> QED
    BY <2>1, <2>2, WaitFrame DEF RefreshesPast
<1>2. CASE BeginCycle
  BY <1>2, WaitTypes DEF BeginCycle, RefreshesPast, CyclesCounted
<1>3. CASE ReadActive
  <2>1. /\ cycle' = cycle /\ read_state' = read_state /\ pc = "begun"
        /\ pc' \in {"bulk", "realtime"} /\ cycle \in Nat
    BY <1>3, WaitTypes DEF ReadActive
  <2>2. \A id : Refreshed(id)' = Refreshed(id)
    BY <2>1 DEF Refreshed, RefreshCycle
  <2>3. \A id \in DOMAIN read_state : read_state[id].refresh_cycle \in Nat
    BY DEF TypeOK, CycleOK, ReadStates
  <2>4. \A id : Refreshed(id) < cycle
    BY <2>1, <2>3 DEF RefreshesPast, CyclesCounted, Refreshed, RefreshCycle
  <2>5. \A id \in DOMAIN read_state : read_state[id].refresh_cycle <= cycle
    BY <2>1, <2>3 DEF RefreshesPast, CyclesCounted
  <2> QED
    BY <2>1, <2>2, <2>4, <2>5 DEF RefreshesPast, CyclesCounted
<1>4. CASE RealtimeOk \/ BulkOk
  <2>1. /\ cycle' = cycle /\ watches' = watches /\ MarkFulfilled /\ cycle \in Nat
        /\ pc \in {"realtimeWait", "bulkWait"} /\ pc' = "bulk"
    BY <1>4, WaitTypes DEF RealtimeOk, BulkOk, multiReadUnchanged
  <2>2. \A id \in DOMAIN read_state' :
          \/ read_state'[id].refresh_cycle = cycle
          \/ id \in DOMAIN read_state /\ read_state'[id] = read_state[id]
    BY <2>1 DEF MarkFulfilled
  <2>3. \A id \in DOMAIN read_state' : read_state'[id].refresh_cycle <= cycle
    BY <2>1, <2>2 DEF RefreshesPast, CyclesCounted
  <2>4. \A id \in DOMAIN watches : Refreshed(id)' = cycle => ~Pending(id)'
    BY <1>4, <2>1, MarksFrame DEF RefreshesPast
  <2> QED
    BY <2>1, <2>3, <2>4 DEF RefreshesPast, CyclesCounted
<1>5. CASE Publish
  <2>1. /\ cycle' = cycle /\ pc = "publish" /\ pc' = "idle"
        /\ read_state' \in {read_state, Keep(read_state, live_ids)}
    BY <1>5 DEF Publish
  <2>2. /\ DOMAIN read_state' \subseteq DOMAIN read_state
        /\ \A id \in DOMAIN read_state' : read_state'[id] = read_state[id]
    BY <2>1 DEF Keep
  <2> QED
    BY <2>1, <2>2 DEF RefreshesPast, CyclesCounted
<1> QED
  BY <1>1, <1>2, <1>3, <1>4, <1>5, StepKinds

\* Clearing takes all the watches of a cycle, or finds none left.
LEMMA ClearedStep ==
  ASSUME TypeOK, MarkersIssued, ClearedTogether, [Next]_vars
  PROVE  ClearedTogether'
<1>1. CASE Outside
  <2>1. \A id \in DOMAIN watches : id \in Nat /\ id < next_id /\ id # next_id
    BY WaitTypes DEF TypeOK, CycleOK, WatchId, MarkersIssued
  <2> QED
    BY <1>1, <2>1, OutsideFrame DEF ClearedTogether
<1>2. CASE Midway
  BY <1>2, MidwayFrame DEF ClearedTogether
<1>3. CASE BeginCycle \/ Publish
  BY <1>3 DEF BeginCycle, Publish, ClearedTogether
<1>4. CASE ReadActive
  BY <1>4 DEF ReadActive, Keep, ClearedTogether, registryVars
<1>5. CASE RealtimeOk \/ BulkOk
  BY <1>5 DEF RealtimeOk, BulkOk, multiReadUnchanged, registryVars, ClearedTogether
<1> QED
  BY <1>1, <1>2, <1>3, <1>4, <1>5, StepKinds

\* The flags of a cycle tell what its batches did.
LEMMA DrainStep ==
  ASSUME TypeOK, RealtimeServed, DrainKnown, [Next]_vars
  PROVE  DrainKnown'
<1>1. CASE Outside
  <2>1. /\ UNCHANGED <<pc, cycle, watches, read_state, waited>>
        /\ UNCHANGED <<done, reads_issued, last_error>>
    BY <1>1, OutsideFrame
  <2> QED
    BY <2>1, WaitFrame DEF DrainKnown
<1>2. CASE Midway
  <2>1. /\ UNCHANGED <<cycle, watches, read_state, waited, done, reads_issued>>
        /\ pc \in {"realtime", "realtimeWait", "bulk", "bulkWait"}
        /\ pc' \in {"realtime", "realtimeWait", "bulk", "bulkWait", "publish"}
    BY <1>2, MidwayFrame
  <2>2. \/ last_error' = TRUE /\ pc' \in {"bulk", "publish"}
        \/ last_error' = last_error /\ pc = "realtime" /\ pc' = "realtimeWait"
        \/ last_error' = last_error /\ pc = "bulk" /\ pc' \in {"bulkWait", "publish"}
        \/ last_error' = last_error /\ pc' = pc
    BY <1>2 DEF Midway, IssueRealtime, IssueBulk, EndBulk, DeviceAnswers, DeviceFails, RealtimeErr,
                BulkErr
  <2> QED
    BY <2>1, <2>2, WaitFrame DEF DrainKnown
<1>3. CASE BeginCycle
  BY <1>3 DEF BeginCycle, DrainKnown
<1>4. CASE ReadActive
  <2>1. /\ UNCHANGED <<done, reads_issued, last_error>> /\ pc = "begun"
        /\ pc' \in {"bulk", "realtime"} /\ (pc' = "bulk" => RealtimeIds' = {})
    BY <1>4 DEF ReadActive
  <2> QED
    BY <2>1 DEF DrainKnown
<1>5. CASE RealtimeOk
  <2>1. /\ UNCHANGED <<watches, done, reads_issued, last_error>>
        /\ pc = "realtimeWait" /\ pc' = "bulk" /\ RealtimeIds' = RealtimeIds
    BY <1>5 DEF RealtimeOk, multiReadUnchanged, RealtimeIds
  <2>2. Members(batch) = RealtimeIds
    <3>1. \A v \in RealtimeIds : First(watches, v) \in Nat
      BY RegionsAssumption DEF TypeOK, CycleOK, WatchEntry, RealtimeIds, First
    <3> QED
      BY <2>1, <3>1, CoalesceMembersAre DEF RealtimeServed
  <2>3. \A id \in RealtimeIds : ~Pending(id)'
    BY <1>5, <2>2, MarksFrame
  <2> QED
    BY <2>1, <2>3 DEF DrainKnown
<1>6. CASE BulkOk
  <2>1. /\ watches' = watches /\ last_error' = last_error /\ reads_issued' = TRUE
        /\ pc = "bulkWait" /\ pc' = "bulk" /\ RealtimeIds' = RealtimeIds
    BY <1>6 DEF BulkOk, multiReadUnchanged, RealtimeIds
  <2>2. \A id : Pending(id)' => Pending(id)
    BY <1>6, MarksFrame
  <2> QED
    BY <2>1, <2>2 DEF DrainKnown
<1>7. CASE Publish
  BY <1>7 DEF Publish, DrainKnown
<1> QED
  BY <1>1, <1>2, <1>3, <1>4, <1>5, <1>6, <1>7, StepKinds

\* The watches of a cycle can be planned for.
LEMMA WatchesPlannable ==
  ASSUME TypeOK, MarkersIssued, NEW ids \in SUBSET DOMAIN watches
  PROVE  Plannable(watches, ids)
<1>1. \A id \in DOMAIN watches : id \in 0..(next_id - 1)
  BY WaitTypes DEF TypeOK, CycleOK, WatchId, MarkersIssued
<1>2. IsFiniteSet(0..(next_id - 1))
  <2>1. 0 \in Int /\ next_id - 1 \in Int
    BY WaitTypes
  <2> QED
    BY <2>1, FS_Interval
<1>3. IsFiniteSet(ids)
  BY <1>1, <1>2, FS_Subset
<1>4. \A id \in ids : watches[id] \in WatchEntry
  BY DEF TypeOK, CycleOK
<1>5. \A id \in ids : /\ watches[id].region.addr \in Nat /\ watches[id].region.size \in Nat
                      /\ watches[id].region.space \in Nat /\ watches[id].prio \in WatchPriority
  BY <1>4, RegionsAssumption DEF WatchEntry
<1> QED
  BY <1>1, <1>3, <1>5 DEF Plannable, First, Beyond

\* What the bulk tier selects from.
LEMMA PendingSelectable ==
  ASSUME TypeOK, MarkersIssued, NEW budget
  PROVE  Selectable(watches, PendingReads(budget))
<1>1. Plannable(watches, BulkIds) /\ Gap \in Nat
  BY WatchesPlannable, BoundsAssumption DEF BulkIds
<1> DEFINE plan == SplitReadsToBudget(watches, Coalesce(watches, BulkIds, Gap), budget)
<1>2. Selectable(watches, plan)
  BY <1>1, PlanSelectable
<1>3. PendingReads(budget) \in SUBSET plan
  BY DEF PendingReads
<1> HIDE DEF plan
<1>4. IsFiniteSet(PendingReads(budget))
  BY <1>2, <1>3, FS_Subset DEF Selectable
<1> QED
  BY <1>2, <1>3, <1>4 DEF Selectable

\* A bulk watch that waits, and was not read in this cycle, is in some read
\* the bulk tier may issue.
LEMMA WaiterPlanned ==
  ASSUME TypeOK, MarkersIssued, NEW budget, NEW id \in BulkIds, Pending(id), id \notin done
  PROVE  \E r \in PendingReads(budget) : id \in r.members
<1>1. Plannable(watches, BulkIds) /\ Gap \in Nat
  BY WatchesPlannable, BoundsAssumption DEF BulkIds
<1>2. PICK c \in SplitReadsToBudget(watches, Coalesce(watches, BulkIds, Gap), budget) :
        id \in c.members
  BY <1>1, PlanHasEachWatchOnce
<1>3. IsPending(c)
  BY <1>2 DEF IsPending, Pending
<1> QED
  BY <1>2, <1>3 DEF PendingReads

\* The first batch of a cycle has a watch as stale as any that waits.
LEMMA StalestStep ==
  ASSUME TypeOK, MarkersIssued, RefreshesPast, DrainKnown, StalestAsked, [Next]_vars
  PROVE  StalestAsked'
<1>1. CASE Outside
  <2>1. UNCHANGED <<pc, cycle, watches, read_state, batch, reads_issued, waited>>
    BY <1>1, OutsideFrame
  <2>2. Members(batch)' = Members(batch)
    BY <2>1 DEF Members
  <2> QED
    BY <2>1, <2>2, WaitFrame DEF StalestAsked
<1>2. CASE DeviceAnswers \/ DeviceFails
  <2>1. UNCHANGED <<pc, cycle, watches, read_state, batch, reads_issued, waited>>
    BY <1>2 DEF DeviceAnswers, DeviceFails, multiReadUnchanged, ghostVars
  <2>2. Members(batch)' = Members(batch)
    BY <2>1 DEF Members
  <2> QED
    BY <2>1, <2>2, WaitFrame DEF StalestAsked
<1>3. ASSUME NEW budget \in Budgets, IssueBulk(budget)
      PROVE  StalestAsked'
  <2> DEFINE reads == PendingReads(budget)
  <2>1. /\ UNCHANGED <<cycle, watches, read_state, done, reads_issued, waited>> /\ pc = "bulk"
        /\ reads # {} /\ batch' = SelectBulk(watches, reads, budget, read_state, cycle)
    BY <1>3 DEF IssueBulk, multiReadUnchanged, ghostVars
  <2> HIDE DEF reads
  <2>2. SUFFICES ASSUME ~reads_issued, NEW id \in BulkIds, Pending(id)
                 PROVE  \E v \in Members(batch)' : Refreshed(v) <= Refreshed(id)
    BY <2>1, WaitFrame DEF StalestAsked
  <2>3. \A v : Refreshed(v) \in 0..cycle
    <3>1. \A v \in DOMAIN read_state : read_state[v].refresh_cycle \in Nat
      BY DEF TypeOK, CycleOK, ReadStates
    <3> QED
      BY <2>1, <3>1, WaitTypes DEF RefreshesPast, CyclesCounted, Refreshed, RefreshCycle
  <2>4. PICK c \in reads : id \in c.members
    BY <2>2, WaiterPlanned DEF DrainKnown, reads
  <2>5. Selectable(watches, reads) /\ budget \in Int /\ cycle \in Nat
    BY PendingSelectable, WaitTypes, BoundsAssumption DEF reads
  <2>6. \A r \in reads : \A v \in r.members : RefreshCycle(read_state, v) \in 0..cycle
    BY <2>3 DEF Refreshed
  <2>7. PICK r \in batch' : \A q \in reads :
          Staleness(read_state, cycle, q) <= Staleness(read_state, cycle, r)
    BY <2>1, <2>5, <2>6, StalestAdmitted
  <2>8. r \in reads
    BY <2>1, <2>7, SelectSubset
  <2>9. \A q \in reads : /\ q.members # {} /\ Staleness(read_state, cycle, q) \in 0..cycle
    BY <2>5, <2>6, StalenessFacts DEF Selectable
  <2>10. cycle - Refreshed(id) <= Staleness(read_state, cycle, c)
    BY <2>4, <2>5, <2>6, <2>9, StalenessFacts DEF Refreshed
  <2>11. PICK v \in r.members : cycle - Refreshed(v) = Staleness(read_state, cycle, r)
    BY <2>5, <2>6, <2>8, <2>9, StalenessFacts DEF Refreshed
  <2>12. Refreshed(v) <= Refreshed(id)
    BY <2>3, <2>4, <2>5, <2>7, <2>8, <2>9, <2>10, <2>11
  <2>13. v \in Members(batch)'
    BY <2>7, <2>11 DEF Members
  <2> QED
    BY <2>12, <2>13
<1>4. CASE \/ IssueRealtime \/ EndBulk \/ RealtimeErr \/ BulkErr \/ BeginCycle \/ ReadActive
           \/ RealtimeOk \/ BulkOk \/ Publish
  BY <1>4 DEF IssueRealtime, EndBulk, RealtimeErr, BulkErr, BeginCycle, ReadActive, RealtimeOk,
              BulkOk, Publish, StalestAsked
<1> QED
  BY <1>1, <1>2, <1>3, <1>4, StepKinds DEF Midway

\* Before its reads a cycle has nothing to account for.
LEMMA NotYetAccounted ==
  TypeOK /\ DrainKnown /\ pc \in {"idle", "begun"} =>
    ~Accounted /\ \A id : Spent(id) = WaitedFor(id)
<1> SUFFICES ASSUME TypeOK, DrainKnown, pc \in {"idle", "begun"}
             PROVE  ~Accounted /\ \A id : Spent(id) = WaitedFor(id)
  OBVIOUS
<1>1. ~Accounted
  BY DEF TypeOK, FlightOK, DrainKnown, Accounted, NoReply, Failed
<1> QED
  BY <1>1, WaitTypes DEF Spent

\* What it means to have been passed over once more.
LEMMA SpentIs ==
  ASSUME TypeOK, NEW id
  PROVE  /\ Accounted => Spent(id) = WaitedFor(id) + 1
         /\ ~Accounted => Spent(id) = WaitedFor(id)
         /\ Spent(id) \in Nat
  BY WaitTypes DEF Spent

\* Scripts neither cut a wait short nor make a watch go first again.
LEMMA OutsideAccounted ==
  ASSUME TypeOK, TypeOK', MarkersIssued, WaitAccounted, DrainKnown, DrainKnown',
         \A id \in DOMAIN waited : id < next_id,
         Outside
  PROVE  WaitAccounted'
<1>1. /\ UNCHANGED <<pc, cycle, live_ids, watches, read_state, batch, reply>>
      /\ UNCHANGED <<done, reads_issued, last_error, errors, waited>>
      /\ \/ DOMAIN registry' = DOMAIN registry /\ next_id' = next_id
         \/ DOMAIN registry' = DOMAIN registry \cup {next_id} /\ next_id' = next_id + 1
         \/ DOMAIN registry' = {} /\ next_id' = next_id
  BY OutsideFrame
<1>2. next_id \in Nat /\ cycle \in Nat /\ errors \in Nat
  BY WaitTypes
<1>3. SUFFICES ASSUME NEW id \in DOMAIN registry', pc \in {"idle", "begun"} \/ Pending(id)
               PROVE  Spent(id)' <= Room(id)'
  BY <1>1, WaitFrame DEF WaitAccounted
<1>4. \A w \in Others(id) : w \in Others(id)' /\ (w \notin DOMAIN registry => w \notin DOMAIN registry')
  BY <1>1, <1>2 DEF Others
<1>5. Ahead(id) \subseteq Ahead(id)'
  BY <1>1, <1>4, WaitFrame DEF Ahead
<1>6. Settled(id) \subseteq Settled(id)'
  BY <1>1, <1>4 DEF Settled, Unlisted
<1>7. Room(id) <= Room(id)' /\ Room(id) \in Nat /\ Room(id)' \in Nat
  BY <1>1, <1>2, <1>5, <1>6, RoomGrows
<1>8. Spent(id)' = Spent(id) /\ Spent(id) \in Nat
  BY <1>1, WaitFrame, SpentIs DEF Spent, Accounted
<1>9. CASE id \in DOMAIN registry
  BY <1>3, <1>7, <1>8, <1>9 DEF WaitAccounted
<1>10. CASE id \notin DOMAIN registry
  <2>1. id = next_id
    BY <1>1, <1>3, <1>10
  <2>2. id \notin DOMAIN waited /\ id \notin DOMAIN watches
    BY <1>2, <2>1 DEF MarkersIssued
  <2>3. Spent(id) = 0
    BY <1>3, <2>2, NotYetAccounted DEF WaitedFor, Pending
  <2> QED
    BY <1>7, <1>8, <2>3
<1> QED
  BY <1>9, <1>10

\* An error accounts for a wait, and the drain ends with something to show.
LEMMA MidwayAccounted ==
  ASSUME BadRegions = {}, Budgets # {},
         TypeOK, TypeOK', MarkersIssued, WaitAccounted, DrainKnown, Midway
  PROVE  WaitAccounted'
<1>1. /\ UNCHANGED <<registry, next_id, cycle, live_ids, watches, read_state, done>>
      /\ UNCHANGED <<reads_issued, waited>>
      /\ pc \in {"realtime", "realtimeWait", "bulk", "bulkWait"}
      /\ pc' \in {"realtime", "realtimeWait", "bulk", "bulkWait", "publish"}
  BY MidwayFrame
<1>2. cycle \in Nat /\ errors \in Nat
  BY WaitTypes
<1>3. SUFFICES ASSUME NEW id \in DOMAIN registry, Pending(id), Spent(id) <= Room(id)
               PROVE  Spent(id)' <= Room(id)'
  BY <1>1, WaitFrame DEF WaitAccounted
<1>4. Ahead(id)' = Ahead(id) /\ Settled(id)' = Settled(id)
  BY <1>1, WaitFrame DEF Ahead, Settled, Unlisted, Others
<1>5. WaitedFor(id)' = WaitedFor(id) /\ WaitedFor(id) \in Nat
  BY <1>1, WaitFrame, WaitTypes
<1>6. /\ Accounted => Spent(id) = WaitedFor(id) + 1
      /\ ~Accounted => Spent(id) = WaitedFor(id)
      /\ Accounted' => Spent(id)' = WaitedFor(id) + 1
      /\ ~Accounted' => Spent(id)' = WaitedFor(id)
  BY <1>5 DEF Spent
<1>7. CASE DeviceFails
  <2>1. errors' = errors + 1
    BY <1>7 DEF DeviceFails
  <2>2. Room(id) + 1 <= Room(id)' /\ Room(id) \in Nat /\ Room(id)' \in Nat
    BY <1>1, <1>2, <1>4, <2>1, RoomGrows
  <2> QED
    BY <1>3, <1>5, <1>6, <2>2
<1>8. ASSUME ~DeviceFails, Accounted' => Accounted
      PROVE  Spent(id)' <= Room(id)'
  <2>1. errors' = errors
    BY <1>8 DEF Midway, IssueRealtime, IssueBulk, EndBulk, DeviceAnswers, RealtimeErr, BulkErr,
                ghostVars
  <2>2. Room(id) <= Room(id)' /\ Room(id) \in Nat /\ Room(id)' \in Nat
    BY <1>1, <1>2, <1>4, <2>1, RoomGrows
  <2> QED
    BY <1>3, <1>5, <1>6, <1>8, <2>2
<1>9. ASSUME IssueRealtime \/ (\E budget \in Budgets : IssueBulk(budget)) \/ DeviceAnswers
      PROVE  Accounted' => Accounted
  <2>1. /\ last_error' = last_error /\ reads_issued' = reads_issued /\ pc' # "publish"
        /\ reply' = reply \/ reply'.kind = "ok"
    BY <1>9 DEF IssueRealtime, IssueBulk, DeviceAnswers, Reply
  <2>2. reply' = Failed => reply = Failed
    BY <2>1 DEF Failed
  <2> QED
    BY <2>1, <2>2 DEF Accounted
<1>10. ASSUME RealtimeErr \/ BulkErr
       PROVE  Accounted' => Accounted
  <2>1. reply.kind = "err"
    BY <1>10 DEF RealtimeErr, BulkErr
  <2>2. reply = Failed
    BY <2>1 DEF TypeOK, FlightOK, NoReply, Failed, Reply
  <2> QED
    BY <2>2 DEF Accounted
<1>11. ASSUME EndBulk
       PROVE  Accounted' => Accounted
  <2>1. CASE reads_issued \/ last_error
    BY <2>1 DEF Accounted
  <2>2. CASE ~reads_issued /\ ~last_error
    <3>1. id \in BulkIds
      BY <1>3, <1>11, <2>2 DEF DrainKnown, EndBulk, BulkIds, Pending
    <3>2. PICK budget \in Budgets : TRUE
      OBVIOUS
    <3>3. PendingReads(budget) # {}
      BY <1>3, <2>2, <3>1, WaiterPlanned DEF DrainKnown
    <3> QED
      BY <1>11, <2>2, <3>3 DEF EndBulk
  <2> QED
    BY <2>1, <2>2
<1>12. DeviceFails \/ (Accounted' => Accounted)
  BY <1>9, <1>10, <1>11 DEF Midway
<1> QED
  BY <1>7, <1>8, <1>12

\* The batch that is answered first served a watch as stale as any that waits.
LEMMA MarksAccounted ==
  ASSUME TypeOK, TypeOK', MarkersIssued, WaitAccounted, RefreshesPast, ClearedTogether, DrainKnown,
         StalestAsked, RealtimeOk \/ BulkOk
  PROVE  WaitAccounted'
<1>1. /\ UNCHANGED <<registry, next_id, cycle, live_ids, watches, waited, errors, last_error>>
      /\ pc \in {"realtimeWait", "bulkWait"} /\ pc' = "bulk"
      /\ reply.kind = "ok" /\ reply' = NoReply
      /\ pc = "realtimeWait" => reads_issued' = reads_issued
  BY DEF RealtimeOk, BulkOk, multiReadUnchanged, registryVars, ghostVars
<1>2. cycle \in Nat /\ errors \in Nat /\ next_id \in Nat /\ \A v : Refreshed(v) \in Nat
  BY WaitTypes
<1>3. SUFFICES ASSUME NEW id \in DOMAIN registry, Pending(id)'
               PROVE  Spent(id)' <= Room(id)'
  BY <1>1 DEF WaitAccounted
<1>4. /\ id \notin Members(batch) /\ Refreshed(id)' = Refreshed(id) /\ Pending(id)
      /\ id \in DOMAIN watches
      /\ \A v \in Members(batch) : v \in DOMAIN watches /\ Refreshed(v)' = cycle
      /\ \A v : v \notin Members(batch) => Refreshed(v)' = Refreshed(v)
  BY <1>3, MarksFrame DEF Pending
<1>5. Refreshed(id) < cycle
  <2>1. Refreshed(id) <= cycle
    BY <1>1, <1>2 DEF RefreshesPast, CyclesCounted, Refreshed, RefreshCycle
  <2> QED
    BY <1>1, <1>2, <1>4, <2>1 DEF RefreshesPast
<1>6. Ahead(id) \subseteq Ahead(id)' /\ Settled(id) \subseteq Settled(id)'
  BY <1>1, <1>2, <1>4, <1>5 DEF Ahead, Settled, Unlisted, Others
<1>7. /\ Room(id) <= Room(id)' /\ Room(id) \in Nat /\ Room(id)' \in Nat
      /\ \A v \in Ahead(id)' \ Ahead(id) : Room(id) + 1 <= Room(id)'
  BY <1>1, <1>2, <1>6, RoomGrows
<1>8. WaitedFor(id)' = WaitedFor(id) /\ WaitedFor(id) \in Nat /\ Spent(id) <= Room(id)
  BY <1>1, <1>4, WaitTypes DEF WaitedFor, WaitAccounted
<1>9. /\ Accounted => Spent(id) = WaitedFor(id) + 1
      /\ ~Accounted => Spent(id) = WaitedFor(id)
      /\ Accounted' => Spent(id)' = WaitedFor(id) + 1
      /\ ~Accounted' => Spent(id)' = WaitedFor(id)
  BY <1>8 DEF Spent
<1>10. CASE Accounted \/ ~Accounted'
  BY <1>7, <1>8, <1>9, <1>10
<1>11. CASE ~Accounted /\ Accounted'
  <2>1. pc = "bulkWait" /\ ~reads_issued /\ ~last_error
    BY <1>1, <1>11 DEF Accounted, NoReply, Failed
  <2>2. id \in BulkIds
    BY <1>4, <2>1 DEF DrainKnown, BulkIds
  <2>3. PICK v \in Members(batch) : Refreshed(v) <= Refreshed(id)
    BY <1>4, <2>1, <2>2 DEF StalestAsked
  <2>4. v \in DOMAIN registry /\ v \in Others(id)
    <3>1. v \in DOMAIN watches /\ v # id
      BY <1>4, <2>3
    <3>2. v \in DOMAIN registry
      BY <1>4, <2>1, <3>1 DEF ClearedTogether
    <3>3. v \in 0..(next_id - 1)
      BY <3>2 DEF TypeOK, RegistryOK
    <3> QED
      BY <3>1, <3>2, <3>3 DEF Others
  <2>5. v \notin Ahead(id)
    BY <1>2, <2>3, <2>4 DEF Ahead
  <2>6. v \in Ahead(id)'
    BY <1>1, <1>2, <1>4, <1>5, <2>3, <2>4 DEF Ahead, Others
  <2>7. Room(id) + 1 <= Room(id)'
    BY <1>7, <2>5, <2>6
  <2> QED
    BY <1>7, <1>8, <1>9, <1>11, <2>7
<1> QED
  BY <1>10, <1>11

\* What a wait has room for, in numbers.
LEMMA RoomIs ==
  TypeOK =>
    \A id : /\ Cardinality(Ahead(id)) \in Nat /\ Cardinality(Settled(id)) \in Nat
            /\ Cardinality(Others(id)) \in Nat
            /\ cycle < GcPeriod => Room(id) = errors + Cardinality(Ahead(id))
            /\ ~(cycle < GcPeriod) =>
                 Room(id) = errors + Cardinality(Ahead(id)) + Cardinality(Settled(id))
            /\ Room(id) \in Nat /\ WaitedFor(id) \in Nat
<1> SUFFICES ASSUME TypeOK, NEW id
             PROVE  /\ Cardinality(Ahead(id)) \in Nat /\ Cardinality(Settled(id)) \in Nat
                    /\ Cardinality(Others(id)) \in Nat
                    /\ cycle < GcPeriod => Room(id) = errors + Cardinality(Ahead(id))
                    /\ ~(cycle < GcPeriod) =>
                         Room(id) = errors + Cardinality(Ahead(id)) + Cardinality(Settled(id))
                    /\ Room(id) \in Nat /\ WaitedFor(id) \in Nat
  OBVIOUS
<1>1. /\ Ahead(id) \in SUBSET (0..(next_id - 1)) /\ Settled(id) \in SUBSET (0..(next_id - 1))
      /\ Others(id) \in SUBSET (0..(next_id - 1)) /\ next_id \in Nat /\ errors \in Nat
  BY WaitTypes DEF Ahead, Settled, Others
<1>2. /\ Cardinality(Ahead(id)) \in Nat /\ Cardinality(Settled(id)) \in Nat
      /\ Cardinality(Others(id)) \in Nat
  BY <1>1, CountGrows
<1> QED
  BY <1>1, <1>2, WaitTypes DEF Room

\* A cycle published, every request still pending has waited once more; a
\* collection takes from Ahead only what it adds to Settled.
LEMMA PublishAccounted ==
  ASSUME TypeOK, TypeOK', WaitAccounted, RefreshesPast, DrainKnown', Publish
  PROVE  WaitAccounted'
<1>1. /\ UNCHANGED <<registry, next_id, cycle, errors>>
      /\ pc = "publish" /\ pc' = "idle"
      /\ waited' = [id \in StillPending |-> 1 + IF id \in DOMAIN waited THEN waited[id] ELSE 0]
      /\ read_state' = IF cycle % GcPeriod = 0 THEN Keep(read_state, live_ids) ELSE read_state
  BY DEF Publish, registryVars
<1>2. /\ cycle \in Nat /\ errors \in Nat /\ next_id \in Nat /\ GcPeriod \in Nat \ {0}
      /\ \A v : Refreshed(v) \in Nat /\ WaitedFor(v) \in Nat
  BY WaitTypes
<1>3. SUFFICES ASSUME NEW id \in DOMAIN registry
               PROVE  Spent(id)' <= Room(id)'
  BY <1>1 DEF WaitAccounted
<1>4. Spent(id)' = WaitedFor(id)'
  <2>1. ~Accounted'
    BY <1>1 DEF TypeOK, FlightOK, DrainKnown, Accounted, NoReply, Failed
  <2>2. WaitedFor(id)' \in Nat
    BY DEF TypeOK, BooksOK, WaitedFor
  <2> QED
    BY <2>1, <2>2 DEF Spent
<1>5. /\ Cardinality(Ahead(id)') \in Nat /\ Cardinality(Settled(id)') \in Nat
      /\ Room(id)' = errors' + Cardinality(Ahead(id)') +
                      (IF cycle' < GcPeriod THEN 0 ELSE Cardinality(Settled(id)'))
      /\ Room(id)' \in Nat
  <2>1. Ahead(id)' \in SUBSET (0..(next_id - 1)) /\ Settled(id)' \in SUBSET (0..(next_id - 1))
    BY <1>1 DEF Ahead, Settled, Others
  <2>2. Cardinality(Ahead(id)') \in Nat /\ Cardinality(Settled(id)') \in Nat
    BY <1>2, <2>1, CountGrows
  <2> QED
    BY <1>1, <1>2, <2>2 DEF Room
<1>6. CASE ~Pending(id)
  <2>1. WaitedFor(id)' = 0
    BY <1>1, <1>6 DEF WaitedFor, StillPending, Pending
  <2> QED
    BY <1>4, <1>5, <2>1
<1>7. CASE Pending(id)
  <2>1. WaitedFor(id)' = WaitedFor(id) + 1
    <3>1. id \in StillPending
      BY <1>7 DEF StillPending, Pending
    <3> QED
      BY <1>1, <1>2, <3>1 DEF WaitedFor
  <2>2. WaitedFor(id)' <= Room(id)
    <3>1. Spent(id) = WaitedFor(id) + 1
      BY <1>1, SpentIs DEF Accounted
    <3> QED
      BY <1>7, <2>1, <3>1 DEF WaitAccounted
  <2>3. Others(id)' = Others(id) /\ Settled(id)' = Others(id) /\ Settled(id) = Others(id) \ Unlisted
    BY <1>1 DEF Others, Settled, Unlisted
  <2>4. CASE cycle % GcPeriod # 0
    <3>1. read_state' = read_state
      BY <1>1, <2>4
    <3>2. Ahead(id)' = Ahead(id) /\ Settled(id) \subseteq Settled(id)'
      BY <1>1, <2>3, <3>1 DEF Ahead, Refreshed, RefreshCycle
    <3>3. Room(id) <= Room(id)' /\ Room(id) \in Nat
      BY <1>1, <1>2, <3>2, RoomGrows
    <3> QED
      BY <1>2, <1>4, <1>5, <2>1, <2>2, <3>3
  <2>5. CASE cycle % GcPeriod = 0
    <3>1. ~(cycle < GcPeriod)
      BY <1>1, <1>2, <2>5 DEF RefreshesPast
    <3>2. /\ \A v : v \in live_ids => Refreshed(v)' = Refreshed(v)
          /\ \A v : v \notin live_ids => Refreshed(v)' = 0
      BY <1>1, <2>5 DEF Keep, Refreshed, RefreshCycle
    <3>3. Refreshed(id)' <= Refreshed(id) /\ Refreshed(id)' \in Nat
      BY <1>2, <3>2
    <3>4. Ahead(id) \ Unlisted \subseteq Ahead(id)'
      BY <1>1, <1>2, <2>3, <3>2, <3>3 DEF Ahead, Unlisted
    <3> DEFINE a == Cardinality(Ahead(id))  s == Cardinality(Settled(id))
               b == Cardinality(Ahead(id)')  t == Cardinality(Others(id))
    <3>5. a + s <= b + t
      <4>1. Others(id) \in SUBSET (0..(next_id - 1)) /\ Ahead(id) \in SUBSET Others(id)
        BY WaitTypes
      <4>2. Ahead(id)' \in SUBSET Others(id)
        BY <2>3 DEF Ahead
      <4> QED
        BY <1>2, <2>3, <3>4, <4>1, <4>2, CountsExchange
    <3>6. a \in Nat /\ s \in Nat /\ t \in Nat /\ Room(id) = errors + a + s
      BY <3>1, RoomIs
    <3>7. b \in Nat /\ Room(id)' = errors + b + t
      <4>1. Room(id)' = errors' + b + Cardinality(Settled(id)')
        BY <1>1, <1>2, <1>5, <3>1
      <4> QED
        BY <1>1, <1>5, <2>3, <4>1
    <3> HIDE DEF a, s, b, t
    <3>8. Room(id) <= Room(id)' /\ Room(id) \in Nat
      BY <1>2, <3>5, <3>6, <3>7
    <3> QED
      BY <1>2, <1>4, <1>5, <2>1, <2>2, <3>8
  <2> QED
    BY <2>4, <2>5
<1> QED
  BY <1>6, <1>7

\* Where a cycle begins nothing is owed for it yet.
LEMMA BeginAccounted ==
  ASSUME TypeOK, TypeOK', WaitAccounted, BeginCycle \/ ReadActive
  PROVE  WaitAccounted'
<1>1. /\ UNCHANGED <<registry, next_id, read_state, waited, errors, reply, last_error, reads_issued>>
      /\ pc \in {"idle", "begun"} /\ pc' # "publish"
      /\ \/ pc = "idle" /\ cycle' = cycle + 1 /\ live_ids' = DOMAIN registry
         \/ pc = "begun" /\ pc' # "idle" /\ cycle' = cycle /\ live_ids' = live_ids
  BY DEF BeginCycle, ReadActive, registryVars, ghostVars
<1>2. cycle \in Nat /\ errors \in Nat
  BY WaitTypes
<1>3. SUFFICES ASSUME NEW id \in DOMAIN registry, Spent(id) <= Room(id)
               PROVE  Spent(id)' <= Room(id)'
  BY <1>1 DEF WaitAccounted
<1>4. Ahead(id)' = Ahead(id)
  BY <1>1 DEF Ahead, Others, Refreshed, RefreshCycle
<1>5. Settled(id)' = Settled(id)
  BY <1>1 DEF Settled, Others, Unlisted
<1>6. Room(id) <= Room(id)' /\ Room(id) \in Nat /\ Room(id)' \in Nat
  BY <1>1, <1>2, <1>4, <1>5, RoomGrows
<1>7. Accounted' = Accounted /\ WaitedFor(id)' = WaitedFor(id) /\ WaitedFor(id) \in Nat
  BY <1>1, WaitTypes DEF Accounted, WaitedFor
<1>8. Spent(id)' = Spent(id) /\ Spent(id) \in Nat
  BY <1>7 DEF Spent
<1> QED
  BY <1>3, <1>6, <1>8

\* No step leaves a wait without something to show for it.
LEMMA AccountedStep ==
  ASSUME BadRegions = {}, Budgets # {}, TypeOK, TypeOK', CacheInv, WaitInv, DrainKnown', [Next]_vars
  PROVE  WaitAccounted'
<1>1. /\ MarkersIssued /\ WaitAccounted /\ RefreshesPast /\ ClearedTogether /\ DrainKnown
      /\ StalestAsked /\ \A id \in DOMAIN waited : id < next_id
  BY DEF CacheInv, WaitInv
<1>2. CASE Outside
  BY <1>1, <1>2, OutsideAccounted
<1>3. CASE Midway
  BY <1>1, <1>3, MidwayAccounted
<1>4. CASE BeginCycle \/ ReadActive
  BY <1>1, <1>4, BeginAccounted
<1>5. CASE RealtimeOk \/ BulkOk
  BY <1>1, <1>5, MarksAccounted
<1>6. CASE Publish
  BY <1>1, <1>6, PublishAccounted
<1> QED
  BY <1>2, <1>3, <1>4, <1>5, <1>6, StepKinds

\* The bound is no smaller once there are more errors, ids or cycles.
LEMMA BoundGrows ==
  ASSUME NEW e \in Nat, NEW f \in Nat, e <= f, NEW n \in Nat, NEW m \in Nat, 1 <= n, n <= m,
         NEW c \in Nat, NEW d \in Nat, c <= d, NEW g \in Nat
  PROVE  e + (n - 1) * (IF c < g THEN 1 ELSE 2) <= f + (m - 1) * (IF d < g THEN 1 ELSE 2)
<1>1. CASE c < g /\ d < g
  BY <1>1
<1>2. CASE c < g /\ ~(d < g)
  BY <1>2
<1>3. CASE ~(c < g)
  BY <1>3
<1> QED
  BY <1>1, <1>2, <1>3

\* The bound holds what one of two counts, or both, account for.
LEMMA BoundCovers ==
  ASSUME NEW x \in Nat, NEW y \in Nat, NEW room, x <= y, y <= room,
         NEW e \in Nat, NEW n \in Nat, NEW a \in Nat, NEW b \in Nat, a <= n - 1, b <= n - 1,
         NEW c \in Nat, NEW g \in Nat,
         c < g => room = e + a, ~(c < g) => room = e + a + b
  PROVE  x <= e + (n - 1) * (IF c < g THEN 1 ELSE 2)
<1>1. CASE c < g
  <2>1. x <= e + (n - 1)
    BY <1>1
  <2> QED
    BY <1>1, <2>1
<1>2. CASE ~(c < g)
  <2>1. x <= e + ((n - 1) + (n - 1))
    BY <1>2
  <2> QED
    BY <1>2, <2>1
<1> QED
  BY <1>1, <1>2

\* Only the end of a cycle counts a wait.
LEMMA WaitedFrame ==
  ASSUME TypeOK, [Next]_vars, ~Publish
  PROVE  /\ waited' = waited /\ next_id <= next_id' /\ errors <= errors' /\ cycle <= cycle'
         /\ \A id \in DOMAIN registry' : id \in DOMAIN registry \/ id = next_id
<1>1. next_id \in Nat /\ errors \in Nat /\ cycle \in Nat
  BY WaitTypes
<1>2. CASE Outside
  BY <1>1, <1>2, OutsideFrame
<1>3. CASE Midway
  <2>1. errors' = errors \/ errors' = errors + 1
    BY <1>3 DEF Midway, IssueRealtime, IssueBulk, EndBulk, DeviceAnswers, DeviceFails, RealtimeErr,
                BulkErr, ghostVars
  <2> QED
    BY <1>1, <1>3, <2>1, MidwayFrame
<1>4. CASE BeginCycle \/ ReadActive \/ RealtimeOk \/ BulkOk
  BY <1>1, <1>4 DEF BeginCycle, ReadActive, RealtimeOk, BulkOk, multiReadUnchanged, registryVars,
                    ghostVars
<1> QED
  BY <1>2, <1>3, <1>4, StepKinds

\* What accounts for the waits bounds them.
LEMMA BoundStep ==
  ASSUME TypeOK, TypeOK', BoundedWait, WaitAccounted', \A id \in DOMAIN waited : id < next_id,
         [Next]_vars
  PROVE  BoundedWait'
<1> USE DEF BoundedWait
<1>1. /\ next_id \in Nat /\ errors \in Nat /\ cycle \in Nat /\ GcPeriod \in Nat
      /\ next_id' \in Nat /\ errors' \in Nat /\ cycle' \in Nat
      /\ DOMAIN registry' \subseteq 0..(next_id' - 1)
      /\ DOMAIN registry \subseteq 0..(next_id - 1)
  BY BoundsAssumption DEF TypeOK, RegistryOK, CycleOK, BooksOK
<1>2. SUFFICES ASSUME NEW id \in DOMAIN waited' \cap DOMAIN registry'
               PROVE  waited'[id] <= errors' + (next_id' - 1) * (IF cycle' < GcPeriod THEN 1 ELSE 2)
  OBVIOUS
<1>3. CASE ~Publish
  <2>1. /\ waited' = waited /\ next_id <= next_id' /\ errors <= errors' /\ cycle <= cycle'
        /\ id \in DOMAIN registry \/ id = next_id
    BY <1>2, <1>3, WaitedFrame
  <2>2. id \in DOMAIN waited \cap DOMAIN registry /\ 1 <= next_id
    BY <1>1, <1>2, <2>1
  <2>3. waited[id] <= errors + (next_id - 1) * (IF cycle < GcPeriod THEN 1 ELSE 2)
    BY <2>2
  <2>4. errors + (next_id - 1) * (IF cycle < GcPeriod THEN 1 ELSE 2)
          <= errors' + (next_id' - 1) * (IF cycle' < GcPeriod THEN 1 ELSE 2)
    BY <1>1, <2>1, <2>2, BoundGrows
  <2>5. waited[id] \in Nat
    BY <2>2 DEF TypeOK, BooksOK
  <2> DEFINE low == errors + (next_id - 1) * (IF cycle < GcPeriod THEN 1 ELSE 2)
             high == errors' + (next_id' - 1) * (IF cycle' < GcPeriod THEN 1 ELSE 2)
  <2>6. low \in Int /\ high \in Int
    BY <1>1
  <2>7. waited'[id] <= low /\ low <= high /\ waited'[id] \in Nat
    BY <2>1, <2>3, <2>4, <2>5
  <2> HIDE DEF low, high
  <2>8. waited'[id] <= high
    BY <2>6, <2>7
  <2> QED
    BY <2>8 DEF high
<1>4. CASE Publish
  <2>1. pc' = "idle"
    BY <1>4 DEF Publish
  <2>2. Spent(id)' <= Room(id)'
    BY <1>2, <2>1 DEF WaitAccounted
  <2>3. waited'[id] \in Nat /\ waited'[id] <= Spent(id)'
    BY <1>2 DEF TypeOK, BooksOK, Spent, WaitedFor
  <2> DEFINE a == Cardinality(Ahead(id)')  s == Cardinality(Settled(id)')
  <2>4. /\ Ahead(id)' \in SUBSET ((0..(next_id' - 1)) \ {id})
        /\ Settled(id)' \in SUBSET ((0..(next_id' - 1)) \ {id})
        /\ id \in 0..(next_id' - 1)
    BY <1>1, <1>2 DEF Ahead, Settled, Others
  <2>5. a \in Nat /\ s \in Nat /\ a <= next_id' - 1 /\ s <= next_id' - 1
    BY <1>1, <2>4, CountOthers
  <2>6. /\ cycle' < GcPeriod => Room(id)' = errors' + a
        /\ ~(cycle' < GcPeriod) => Room(id)' = errors' + a + s
    BY <1>1, <2>5 DEF Room
  <2>7. Spent(id)' \in Nat
    BY <2>3 DEF TypeOK, BooksOK, Spent, WaitedFor
  <2> HIDE DEF a, s
  <2> QED
    BY <1>1, <2>2, <2>3, <2>5, <2>6, <2>7, BoundCovers
<1> QED
  BY <1>3, <1>4

\* The parts of the invariant, together.
LEMMA WaitStep ==
  ASSUME BadRegions = {}, Budgets # {}, TypeOK, TypeOK', CacheInv, AgeInv, WaitInv, [Next]_vars
  PROVE  WaitInv'
<1>1. /\ MarkersIssued /\ RealtimeServed /\ RefreshesPast /\ ClearedTogether /\ DrainKnown
      /\ StalestAsked /\ BoundedWait /\ \A id \in DOMAIN waited : id < next_id
  BY DEF CacheInv, AgeInv, WaitInv
<1>2. RefreshesPast' /\ ClearedTogether' /\ DrainKnown' /\ StalestAsked'
  BY <1>1, PastStep, ClearedStep, DrainStep, StalestStep
<1>3. WaitAccounted'
  BY <1>2, AccountedStep
<1>4. BoundedWait'
  BY <1>1, <1>3, BoundStep
<1>5. \A id \in DOMAIN waited' : id < next_id'
  <2>1. CASE Publish
    BY <1>1, <2>1 DEF Publish, StillPending, MarkersIssued, registryVars
  <2>2. CASE ~Publish
    <3>1. waited' = waited /\ next_id <= next_id' /\ next_id \in Nat /\ next_id' \in Nat
      BY <2>2, WaitedFrame DEF TypeOK, RegistryOK
    <3>2. \A id \in DOMAIN waited : id \in Nat
      BY DEF TypeOK, BooksOK, WatchId
    <3> QED
      BY <1>1, <3>1, <3>2
  <2> QED
    BY <2>1, <2>2
<1> QED
  BY <1>2, <1>3, <1>4, <1>5 DEF WaitInv

\* Round robin (engine.rs select_bulk, mark_fulfilled): when no region is
\* refused outright, a request is passed over no more often than BoundedWait
\* allows, however the scripts ask and whatever fails.
THEOREM WaitsAreBounded ==
  ASSUME BadRegions = {}, Budgets # {}
  PROVE  Spec => []BoundedWait
<1>1. Init => WaitInv
  BY EmptyFunction DEF Init, WaitInv, WaitAccounted, RefreshesPast, ClearedTogether, DrainKnown,
                       StalestAsked, BoundedWait
<1>2. TypeOK /\ TypeOK' /\ CacheInv /\ AgeInv /\ WaitInv /\ [Next]_vars => WaitInv'
  BY WaitStep
<1>3. WaitInv => BoundedWait
  BY DEF WaitInv
<1> QED
  BY <1>1, <1>2, <1>3, TypeCorrect, CacheInvariant, AgeInvariant, PTL DEF Spec

-----------------------------------------------------------------------------
(* Refinement: every step of the engine is a step of ReadThroughCache, or  *)
(* changes nothing scripts can tell.                                       *)

Asked == [id \in DOMAIN registry |-> registry[id].request_seq]
Shown == [id \in DOMAIN current.data |-> current.data[id].at]

\* Every script call declares, asks or forgets.
LEMMA ScriptRefines ==
  ASSUME TypeOK, Script
  PROVE  Cache!Next
<1> USE DEF Cache!Next, scriptUnchanged
<1>1. next_id \notin DOMAIN registry
  BY BoundsAssumption DEF TypeOK, RegistryOK
<1>2. ASSUME NEW region \in Regions, NEW prio \in Priorities, Register(region, prio)
      PROVE  Cache!Declare
  BY <1>1, <1>2 DEF Register, NextRequest, Put, Cache!Declare
<1>6. \A i \in DOMAIN registry : registry[i] \in WatchEntry
  BY DEF TypeOK, RegistryOK
<1>7. ASSUME NEW id \in DOMAIN registry, NEW e,
             registry' = [registry EXCEPT ![id] = e], e.request_seq = next_request + 1
      PROVE  Asked' = [Asked EXCEPT ![id] = next_request + 1]
  BY <1>7 DEF Asked
<1>3. ASSUME NEW id, Touch(id) PROVE Cache!Ask
  <2>1. CASE id \in DOMAIN registry
    <3> DEFINE e == [registry[id] EXCEPT !.warm = TRUE, !.request_seq = next_request']
    <3>1. registry' = [registry EXCEPT ![id] = e] /\ next_request' = next_request + 1
      BY <1>3, <2>1 DEF Touch, NextRequest
    <3>2. e.request_seq = next_request + 1
      BY <1>6, <2>1, <3>1 DEF WatchEntry
    <3> HIDE DEF e
    <3>3. Asked' = [Asked EXCEPT ![id] = next_request + 1]
      BY <1>7, <2>1, <3>1, <3>2
    <3> QED
      BY <1>3, <2>1, <3>3 DEF Touch, NextRequest, Cache!Ask, Asked
  <2>2. CASE id \notin DOMAIN registry
    BY <1>3, <2>2 DEF Touch, NextRequest, Cache!Ask
  <2> QED
    BY <2>1, <2>2
<1>4. ASSUME NEW id, NEW prio, UpgradePriority(id, prio) PROVE Cache!Ask
  <2>1. CASE id \in DOMAIN registry
    <3> DEFINE e == [registry[id] EXCEPT !.prio = Min({registry[id].prio, prio}), !.pinned = TRUE,
                                !.warm = TRUE, !.request_seq = next_request']
    <3>1. registry' = [registry EXCEPT ![id] = e] /\ next_request' = next_request + 1
      BY <1>4, <2>1 DEF UpgradePriority, NextRequest
    <3>2. e.request_seq = next_request + 1
      BY <1>6, <2>1, <3>1 DEF WatchEntry
    <3> HIDE DEF e
    <3>3. Asked' = [Asked EXCEPT ![id] = next_request + 1]
      BY <1>7, <2>1, <3>1, <3>2
    <3> QED
      BY <1>4, <2>1, <3>3 DEF UpgradePriority, NextRequest, Cache!Ask, Asked
  <2>2. CASE id \notin DOMAIN registry
    BY <1>4, <2>2 DEF UpgradePriority, NextRequest, Cache!Ask
  <2> QED
    BY <2>1, <2>2
<1>5. CASE Clear
  BY <1>5, EmptyFunction DEF Clear, Cache!Forget
<1> QED
  BY <1>2, <1>3, <1>4, <1>5 DEF Script

\* A closing demand window shows nowhere.
LEMMA DormantRefines ==
  ASSUME TypeOK, NEW id, GoDormant(id)
  PROVE  UNCHANGED Cache!vars
<1>1. \A i \in DOMAIN registry : registry[i] \in WatchEntry
  BY DEF TypeOK, RegistryOK
<1>2. Asked' = Asked
  BY <1>1 DEF GoDormant, Asked, WatchEntry
<1> QED
  BY <1>2 DEF GoDormant, scriptUnchanged, Cache!vars, Asked

\* Publishing keeps every live watch and takes none back in time.
LEMMA PublishRefines ==
  ASSUME TypeOK, CacheInv, Publish
  PROVE  Cache!Refresh
<1>1. /\ UNCHANGED <<registry, next_id, next_request>>
      /\ current'.data = builder /\ Latest = builder
  BY DEF Publish, registryVars, Latest
<1>2. next_id \in Nat /\ DOMAIN builder \subseteq Nat
  BY BoundsAssumption DEF TypeOK, RegistryOK, CycleOK, WatchId
<1>3. DOMAIN Shown' = DOMAIN builder /\ \A id \in DOMAIN builder : Shown'[id] = builder[id].at
  BY <1>1 DEF Shown
<1>4. DOMAIN Shown = DOMAIN current.data
      /\ \A id \in DOMAIN current.data : Shown[id] = current.data[id].at
  BY DEF Shown
<1>5. DOMAIN Asked = DOMAIN registry /\ Asked' = Asked
  BY <1>1 DEF Asked
<1>6. DOMAIN Shown' \subseteq 0..(next_id - 1)
  BY <1>2, <1>3 DEF CacheInv, MarkersIssued
<1>7. DOMAIN Shown \cap DOMAIN Asked \subseteq DOMAIN Shown'
  BY <1>1, <1>3, <1>4, <1>5 DEF CacheInv, SnapshotCarried
<1>8. \A id \in DOMAIN Shown' : Shown'[id] <= next_request
  BY <1>3 DEF CacheInv, SamplesOrdered
<1>9. \A id \in DOMAIN Shown \cap DOMAIN Shown' : Shown[id] <= Shown'[id]
  BY <1>1, <1>3, <1>4 DEF CacheInv, SamplesOrdered
<1> QED
  BY <1>1, <1>5, <1>6, <1>7, <1>8, <1>9 DEF Cache!Refresh, Shown, Asked

\* Every step is a step of the cache or stutters.
LEMMA StepRefines ==
  TypeOK /\ CacheInv /\ [Next]_vars => [Cache!Next]_(Cache!vars)
<1> SUFFICES ASSUME TypeOK, CacheInv, [Next]_vars PROVE [Cache!Next]_(Cache!vars)
  OBVIOUS
<1>1. CASE Script
  BY <1>1, ScriptRefines
<1>2. CASE \E id \in DOMAIN registry : GoDormant(id)
  BY <1>2, DormantRefines
<1>3. CASE Publish
  BY <1>3, PublishRefines DEF Cache!Next
<1>4. ASSUME UNCHANGED <<registry, next_id, next_request, current>>
      PROVE  UNCHANGED Cache!vars
  BY <1>4 DEF Cache!vars
<1>5. CASE \/ UNCHANGED vars
           \/ \E next \in Devices \cup {NoDevice} : RepublishSlot(next)
           \/ BeginCycle \/ ReadActive
  BY <1>4, <1>5 DEF vars, registryVars, RepublishSlot, BeginCycle, ReadActive
<1>6. CASE \/ IssueRealtime \/ (\E budget \in Budgets : IssueBulk(budget))
           \/ EndBulk \/ DeviceAnswers \/ DeviceFails
           \/ RealtimeOk \/ RealtimeErr \/ BulkOk \/ BulkErr
  <2>1. UNCHANGED <<registry, next_id, next_request, current>>
    BY <1>6 DEF IssueRealtime, IssueBulk, EndBulk, DeviceAnswers, DeviceFails, RealtimeOk,
                RealtimeErr, BulkOk, BulkErr, multiReadUnchanged, registryVars
  <2> QED
    BY <1>4, <2>1
<1> QED
  BY <1>1, <1>2, <1>3, <1>5, <1>6 DEF Next, FinishCycle

\* The poll engine implements the read-through cache: whatever fails, is
\* cut short or is unplugged, snapshots never drop or age a live watch's
\* sample, ids are never reused and every request gets a new marker.
THEOREM EngineImplementsCache == Spec => ImplementsCache
<1>1. Init => Cache!Init
  BY EmptyFunction DEF Init, Cache!Init
<1>2. TypeOK /\ CacheInv /\ [Next]_vars => [Cache!Next]_(Cache!vars)
  BY StepRefines
<1> QED
  BY <1>1, <1>2, TypeCorrect, CacheInvariant, PTL DEF Spec, ImplementsCache, Cache!Spec

=============================================================================
