--------------------------- MODULE ReadPlanLoops ----------------------------
(***************************************************************************)
(* coalesce, split_reads_to_budget and select_bulk as the loops of the     *)
(* source: a fold over the sorted sequence, whose accumulator holds the    *)
(* loop's local variables.  Reads carry the region and the (id, offset,    *)
(* size) members of the Rust struct.  MCFunctions compares them with the    *)
(* closed forms of ReadPlan.                                               *)
(***************************************************************************)
EXTENDS ReadPlan, SequencesExt

-----------------------------------------------------------------------------
(* coalesce and finish_run                                                 *)

RunPriority(ws, ids) == Min({ws[ids[i]].prio : i \in DOMAIN ids})

\* finish_run: `end` is cur_end, which the loop tracked.
LoopFinishRun(ws, start, end, ids) ==
  [space   |-> ws[ids[1]].region.space,
   addr    |-> start,
   size    |-> end - start,
   prio    |-> RunPriority(ws, ids),
   members |-> [i \in DOMAIN ids |->
                  << ids[i], First(ws, ids[i]) - start, ws[ids[i]].region.size >>]]

\* Mutant of Extend: a watch inside the run pulls its end back.
ExtendBack(cur_end, end) == end

Extend(cur_end, end) == Max({cur_end, end})

\* One address space: group[0] opens the first run, group[1..] extend it or
\* close it and open the next.
LoopCoalesceSpace(ws, group, gap) ==
  LET open(w) == [start |-> First(ws, w), end |-> Beyond(ws, w), ids |-> <<w>>]
      step(acc, w) ==
        IF First(ws, w) <= acc.cur.end + gap
        THEN [acc EXCEPT !.cur.end = Extend(@, Beyond(ws, w)), !.cur.ids = Append(@, w)]
        ELSE [out |-> Append(acc.out, LoopFinishRun(ws, acc.cur.start, acc.cur.end, acc.cur.ids)),
              cur |-> open(w)]
      last == FoldLeft(step, [out |-> << >>, cur |-> open(group[1])], Tail(group))
  IN  Append(last.out, LoopFinishRun(ws, last.cur.start, last.cur.end, last.cur.ids))

LoopCoalesce(ws, ids, gap) ==
  LET spaces == SetToSortSeq({ws[w].region.space : w \in ids}, <)
      group(s) == SetToSortSeq({w \in ids : ws[w].region.space = s},
                               LAMBDA v, w : MemberBefore(ws, v, w))
  IN  FlattenSeq([i \in DOMAIN spaces |-> LoopCoalesceSpace(ws, group(spaces[i]), gap)])

-----------------------------------------------------------------------------
(* split_reads_to_budget                                                   *)

Overflows(bytes, budget) == bytes > budget

\* Mutant of Rebase: the member keeps its offset in the read that was cut.
RebaseNot(read, cur_start, offset) == offset

\* A member's offset in the chunk that starts at cur_start.
Rebase(read, cur_start, offset) == read.addr + offset - cur_start

LoopSplitRead(read, budget) ==
  LET open(m) == [start |-> read.addr + m[2], end |-> read.addr + m[2] + m[3],
                  members |-> << <<m[1], 0, m[3]>> >>]
      close(c) == [space |-> read.space, addr |-> c.start, size |-> c.end - c.start,
                   prio |-> read.prio, members |-> c.members]
      step(acc, m) ==
        LET start == read.addr + m[2]
            candidate == Max({acc.cur.end, start + m[3]})
        IN  IF Overflows(candidate - acc.cur.start, budget)
            THEN [out |-> Append(acc.out, close(acc.cur)), cur |-> open(m)]
            ELSE [acc EXCEPT !.cur.end = candidate,
                             !.cur.members = Append(@, <<m[1], Rebase(read, acc.cur.start, m[2]), m[3]>>)]
      last == FoldLeft(step, [out |-> << >>, cur |-> open(read.members[1])], Tail(read.members))
  IN  IF read.size <= budget THEN <<read>> ELSE Append(last.out, close(last.cur))

LoopSplit(reads, budget) ==
  FlattenSeq([i \in DOMAIN reads |-> LoopSplitRead(reads[i], Max({budget, 1}))])

-----------------------------------------------------------------------------
(* select_bulk: a stable sort, then the greedy pass with its `break`.      *)

LoopStaleness(read, read_state, cycle) ==
  cycle - Min({RefreshCycle(read_state, read.members[i][1]) : i \in DOMAIN read.members})

\* Mutant of PassOver: the pass ends at the first read that does not fit.
PassOverStops(acc) == [acc EXCEPT !.capped = TRUE, !.stop = TRUE]

PassOver(acc) == [acc EXCEPT !.capped = TRUE]

LoopSelectBulk(reads, budget, read_state, cycle) ==
  LET Before(i, j) ==
        LET a == reads[i]  b == reads[j]
            sa == LoopStaleness(a, read_state, cycle)
            sb == LoopStaleness(b, read_state, cycle)
        IN  \/ sb < sa
            \/ sb = sa /\ a.prio < b.prio
            \/ sb = sa /\ a.prio = b.prio /\ a.addr < b.addr
            \/ sb = sa /\ a.prio = b.prio /\ a.addr = b.addr /\ i < j
      sorted == SetToSortSeq(DOMAIN reads, Before)
      step(acc, i) ==
        CASE acc.stop -> acc
          [] ~acc.stop /\ reads[i].size <= acc.left ->
               [acc EXCEPT !.left = @ - reads[i].size, !.sel = Append(@, reads[i])]
          [] ~acc.stop /\ reads[i].size > acc.left ->
               IF acc.sel = << >>
               THEN [acc EXCEPT !.capped = TRUE, !.sel = <<reads[i]>>, !.stop = TRUE]
               ELSE PassOver(acc)
  IN  FoldLeft(step, [left |-> budget, sel |-> << >>, capped |-> FALSE, stop |-> FALSE], sorted)
=============================================================================
