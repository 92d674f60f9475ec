------------------------------ MODULE ReadPlan ------------------------------
(***************************************************************************)
(* The planning functions of the poll engine: which bytes one MultiRead    *)
(* asks the device for.  `coalesce` (sni-cache/src/watch.rs) fuses watches *)
(* that lie close together, `split_reads_to_budget` cuts a fused read into *)
(* pieces the byte budget allows, `select_bulk` (engine.rs) picks the      *)
(* pieces of one batch.                                                    *)
(*                                                                         *)
(* A watch set is a function ws from watch ids to handles                  *)
(*   [region |-> [space, addr, size], prio, ...].                          *)
(* A CoalescedRead is [members, prio]: its region is the span of its       *)
(* members, and a member's offset is its address less the span's start, so *)
(* neither is stored.                                                      *)
(*                                                                         *)
(* The definitions are the closed forms of the source's loops; module      *)
(* ReadPlanLoops has the loops as written, and MCFunctions checks that both *)
(* agree.                                                                  *)
(***************************************************************************)
EXTENDS Integers, FiniteSets, FiniteSetsExt

(* WatchPriority, most urgent first: an upgrade is the minimum.            *)
Realtime == 0
High     == 1
Normal   == 2
Low      == 3
WatchPriority == {Realtime, High, Normal, Low}

-----------------------------------------------------------------------------
(* Spans of memory.                                                        *)

First(ws, id) == ws[id].region.addr
Beyond(ws, id) == ws[id].region.addr + ws[id].region.size      \* exclusive end
SameSpace(ws, v, w) == ws[v].region.space = ws[w].region.space

SpanFirst(ws, ids) == Min({First(ws, id) : id \in ids})
Span(ws, ids) == Max({Beyond(ws, id) : id \in ids}) - SpanFirst(ws, ids)

Members(reads) == UNION {r.members : r \in reads}

\* The bytes a set of reads asks for.
Bytes(ws, reads) == MapThenSumSet(LAMBDA r : Span(ws, r.members), reads)

-----------------------------------------------------------------------------
(* coalesce: in each address space, a watch more than `gap` bytes beyond   *)
(* every watch before it leads a new run; a run is a leader and the        *)
(* watches up to the next leader.  finish_run gives it the most urgent     *)
(* priority of its members.                                                *)

Leads(ws, ids, gap, w) ==
  \A v \in ids : SameSpace(ws, v, w) /\ First(ws, v) < First(ws, w)
                   => Beyond(ws, v) + gap < First(ws, w)

RunOf(ws, ids, gap, lead) ==
  {v \in ids : /\ SameSpace(ws, v, lead)
               /\ First(ws, v) >= First(ws, lead)
               /\ \A u \in ids : (/\ SameSpace(ws, u, lead)
                                  /\ Leads(ws, ids, gap, u)
                                  /\ First(ws, u) <= First(ws, v))
                                    => First(ws, u) <= First(ws, lead)}

FinishRun(ws, members) ==
  [members |-> members, prio |-> Min({ws[m].prio : m \in members})]

Coalesce(ws, ids, gap) ==
  {FinishRun(ws, RunOf(ws, ids, gap, lead)) :
     lead \in {w \in ids : Leads(ws, ids, gap, w)}}

-----------------------------------------------------------------------------
(* split_reads_to_budget: members in address order (ids order equal        *)
(* addresses) are packed into chunks; a member that would stretch the      *)
(* chunk past the budget heads the next one.  Chunks inherit the priority  *)
(* of the read they were cut from.                                         *)

MemberBefore(ws, v, w) ==
  \/ First(ws, v) < First(ws, w)
  \/ First(ws, v) = First(ws, w) /\ v < w

MemberRank(ws, ids, m) == Cardinality({v \in ids : MemberBefore(ws, v, m)}) + 1

ChunkHeads(ws, ids, budget) ==
  LET Slice(i, j) == {m \in ids : MemberRank(ws, ids, m) \in i..j}
      head[i \in 1..Cardinality(ids)] ==
        IF i = 1 THEN 1
        ELSE IF Span(ws, Slice(head[i - 1], i)) > budget THEN i ELSE head[i - 1]
  IN  head

SplitRead(ws, read, budget) ==
  IF Span(ws, read.members) <= budget THEN {read}
  ELSE LET head == ChunkHeads(ws, read.members, budget)
           Chunk(h) == {m \in read.members :
                          head[MemberRank(ws, read.members, m)] = h}
       IN  {[members |-> Chunk(h), prio |-> read.prio] :
              h \in {head[i] : i \in DOMAIN head}}

SplitReadsToBudget(ws, reads, budget) ==
  UNION {SplitRead(ws, r, Max({budget, 1})) : r \in reads}

-----------------------------------------------------------------------------
(* select_bulk: stalest read first, where a read is as stale as its oldest *)
(* member; then priority, then address; reads that still tie keep the      *)
(* order coalesce and split produced (address space, then first member).   *)
(* A read that does not fit what is left of the budget is passed over,     *)
(* except that an oversized first read goes alone.                         *)

RefreshCycle(read_state, id) ==
  IF id \in DOMAIN read_state THEN read_state[id].refresh_cycle ELSE 0

\* Mutant of Staleness: every read is as stale as any other.
StalenessFlat(read_state, cycle, read) == 0

Staleness(read_state, cycle, read) ==
  LET oldest == Min({RefreshCycle(read_state, id) : id \in read.members})
  IN  IF oldest > cycle THEN 0 ELSE cycle - oldest

LeadMember(ws, ids) ==
  CHOOSE m \in ids : \A v \in ids \ {m} : MemberBefore(ws, m, v)

ReadBefore(ws, read_state, cycle, a, b) ==
  LET Key(r) == << -Staleness(read_state, cycle, r), r.prio, SpanFirst(ws, r.members),
                   ws[LeadMember(ws, r.members)].region.space,
                   LeadMember(ws, r.members) >>
  IN  \E i \in 1..5 : /\ Key(a)[i] < Key(b)[i]
                      /\ \A j \in 1..(i - 1) : Key(a)[j] = Key(b)[j]

ReadRank(ws, read_state, cycle, reads, r) ==
  Cardinality({q \in reads : ReadBefore(ws, read_state, cycle, q, r)}) + 1

\* Mutant of GoesAlone: a read over the budget is passed over like any other.
GoesNever(size, budget) == FALSE

\* A first read larger than the budget is admitted all the same, alone.
GoesAlone(size, budget) == size > budget

SelectBulk(ws, reads, budget, read_state, cycle) ==
  LET Rank(r) == ReadRank(ws, read_state, cycle, reads, r)
      At(i) == CHOOSE r \in reads : Rank(r) = i
      Size(r) == Span(ws, r.members)
      left[i \in 0..Cardinality(reads)] ==      \* budget left after the i-th read
        IF i = 0 THEN budget
        ELSE left[i - 1] - (IF Size(At(i)) <= left[i - 1] THEN Size(At(i)) ELSE 0)
  IN  IF reads # {} /\ GoesAlone(Size(At(1)), budget)
      THEN {r \in reads : Rank(r) = 1}
      ELSE {r \in reads : Size(r) <= left[Rank(r) - 1]}
=============================================================================
