----------------------------- MODULE WatchPlans -----------------------------
(***************************************************************************)
(* What the planning functions of ReadPlan return for any watches, however *)
(* long ago each was refreshed: a behaviour declares one watch after the   *)
(* other, and the bulk reads of one cycle are planned and selected.        *)
(***************************************************************************)
EXTENDS ReadPlan, Sequences

CONSTANTS
  PlanRegions,     \* regions a watch may cover
  PlanPriorities,  \* priorities a watch may have
  PlanRefreshed,   \* cycles at which a watch may have been refreshed; 0 = never
  PlanCycle,       \* the cycle that plans the batch
  PlanGaps,        \* coalescing gaps
  PlanBudgets,     \* byte budgets
  MaxWatches       \* bound: watches declared

ASSUME PlanAssumption ==
  /\ PlanRegions \subseteq [space : Nat, addr : Nat, size : Nat]
  /\ PlanPriorities \subseteq WatchPriority
  /\ PlanCycle \in Nat /\ PlanRefreshed \subseteq 0..PlanCycle
  /\ PlanGaps \subseteq Nat /\ PlanBudgets \subseteq Nat
  /\ MaxWatches \in Nat

VARIABLE declared    \* the watch set: id -> [region, prio, refreshed]

DeclaredWatch == [region : PlanRegions, prio : PlanPriorities, refreshed : PlanRefreshed]

PlanInit == declared = << >>

DeclareWatch(watch) ==
  /\ Len(declared) < MaxWatches
  /\ declared' = Append(declared, watch)

PlanNext == \E watch \in DeclaredWatch : DeclareWatch(watch)

PlanSpec == PlanInit /\ [][PlanNext]_declared

-----------------------------------------------------------------------------

Ids == DOMAIN declared

\* Watches refreshed at cycle 0 have no ReadState entry.
Refreshes ==
  [i \in {i \in Ids : declared[i].refreshed # 0} |-> [refresh_cycle |-> declared[i].refreshed]]

\* The batch always holds the stalest read, whatever its size; it stays
\* within the budget unless that read alone exceeds it, and no read left
\* out would still have fitted.
SelectAdmitsStalest ==
  \A gap \in PlanGaps, limit \in PlanBudgets :
    LET chunks == SplitReadsToBudget(declared, Coalesce(declared, Ids, gap), limit)
        batch == SelectBulk(declared, chunks, limit, Refreshes, PlanCycle)
        size == Bytes(declared, batch)
        Age(r) == Staleness(Refreshes, PlanCycle, r)
    IN  chunks # {} =>
          /\ \E r \in batch : \A q \in chunks : Age(q) <= Age(r)
          /\ size > limit => Cardinality(batch) = 1
          /\ size <= limit => \A r \in chunks \ batch : size + Span(declared, r.members) > limit
=============================================================================
