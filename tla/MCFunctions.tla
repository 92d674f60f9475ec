---------------------------- MODULE MCFunctions ----------------------------
(***************************************************************************)
(* What one task or one call computes by itself, over bounded inputs: the  *)
(* read plan, the byte budget, the draw list, the conversions to JSON and  *)
(* the geometry of the screen.  A behaviour exercises one of them: it      *)
(* declares watches, polls a link, calls gfx, fills a Lua table or picks a *)
(* view or a crop, and the state of the others stays as it began.          *)
(***************************************************************************)
EXTENDS ReadPlanLoops, WatchPlans, ByteBudget, DrawCalls, LuaJson, ScreenViews, TLC

CONSTANT MCMaxKeys      \* keys of a Lua table at most

VARIABLE doc            \* the content of a Lua table

mcVars == << vars, gfxVars, declared, doc, view >>

MCInit == Init /\ GfxInit /\ PlanInit /\ doc = << >> /\ ViewInit

-----------------------------------------------------------------------------
(* Inputs.                                                                 *)

\* Watches: neighbours, overlaps, an oversized region, a second address space
\* at the same address.
R(s, a, n) == [space |-> s, addr |-> a, size |-> n]
SmallRegions == {R(0, 0, 1), R(0, 0, 6), R(0, 1, 2), R(0, 3, 1), R(0, 5, 3), R(1, 0, 1)}

\* Links: fast and slow ones whose answers take their bytes' time, and
\* frame-bound ones; latencies from a fraction of a frame to more than one.
MCLinks == [latency : {2, 5, 8, 14, 16, 20}, rate : {0, 64, 512}, realtime : {TRUE}]
             \cup {[latency |-> 2, rate |-> 512, realtime |-> FALSE]}

\* Tables with a list part, holes, other keys and keys that look alike.
Keys == {Integer(1), Integer(2), Integer(3), String("x"), String("1"), Bool(TRUE), RawString}
Nested == {Table(Integer(1) :> Integer(7)), Table(String("x") :> Bool(TRUE)),
           Table((Integer(1) :> Integer(7)) @@ (Bool(TRUE) :> Nil)), Table(<< >>)}
PutKey(k, x) ==
  /\ Cardinality(DOMAIN doc) < MCMaxKeys /\ k \notin DOMAIN doc
  /\ doc' = doc @@ (k :> x)

\* Areas, canvases, labels, text sizes, screen pixels, frames and crops.
MCAreas == {[x |-> 0, y |-> 0, w |-> 300, h |-> 500], [x |-> 7, y |-> 9, w |-> 640, h |-> 224]}
MCCanvases == {Scaled(0), Scaled(2), Custom(100, 9999), Custom(3, 20)}
MCLabels == [at : {[x |-> 3, y |-> 5]}, font : {SmallFont, NormalFont}, scale : {1, 2},
             text : {[widest |-> 0, lines |-> 1], [widest |-> 7, lines |-> 2]},
             align : Alignments, valign : {"start", "end"}]
MCSizings == [mode : {"game", "screen"}, size : {1, 3}]
MCPointers == [x : {0, 7, 12, 150, 299, 640}, y : {0, 10, 120, 233, 499}]
MCFrames == {[w |-> 720, h |-> 480], [w |-> 256, h |-> 224], [w |-> 1, h |-> 3]}
MCCrops == [left : {0, 20, 255, 800}, right : {0, 21, 255, 800}, top : {0, 40, 479},
            bottom : {0, 40, 479}, mode : {"aspect", "stretch"}]

Polls == Next /\ UNCHANGED << gfxVars, declared, doc, view >>
Calls == GfxNext /\ UNCHANGED << vars, declared, doc, view >>
Plans == PlanNext /\ UNCHANGED << vars, gfxVars, doc, view >>
Stores ==
  /\ \E k \in Keys, x \in {Integer(7), NaN, RawString, Function} \cup Nested : PutKey(k, x)
  /\ UNCHANGED << vars, gfxVars, declared, view >>
Looks == ViewNext /\ UNCHANGED << vars, gfxVars, declared, doc >>

\* One of them at a time, the others with the first of the links.
NotPolled == ~draining /\ last = NoBatch /\ events = 0 /\ link = CHOOSE l \in Links : TRUE
NotDrawn == ~in_frame /\ loaded /\ << draw, origin_stack, path_builder >> = << << >>, << >>, << >> >>
MCNext ==
  \/ declared = << >> /\ doc = << >> /\ view = NoView /\ NotDrawn /\ Polls
  \/ declared = << >> /\ doc = << >> /\ view = NoView /\ NotPolled /\ Calls
  \/ doc = << >> /\ view = NoView /\ NotPolled /\ NotDrawn /\ Plans
  \/ declared = << >> /\ view = NoView /\ NotPolled /\ NotDrawn /\ Stores
  \/ declared = << >> /\ doc = << >> /\ NotPolled /\ NotDrawn /\ Looks

MCSpec == MCInit /\ [][MCNext]_mcVars

-----------------------------------------------------------------------------
(* The read plan.                                                          *)

\* What the closed forms keep of a loop's read.
Abstract(read) == [members |-> {read.members[i][1] : i \in DOMAIN read.members},
                   prio |-> read.prio]
AbstractAll(reads) == {Abstract(reads[i]) : i \in DOMAIN reads}

\* The sets PollEngine plans with are what the loops of the code return: the
\* watches fused into runs, cut to the budget and selected by staleness.
ClosedFormsAgree ==
  \A gap \in PlanGaps :
    LET fused == LoopCoalesce(declared, Ids, gap)
        plan == Coalesce(declared, Ids, gap)
    IN  /\ AbstractAll(fused) = plan
        /\ \A i \in DOMAIN fused : fused[i].size = Span(declared, Abstract(fused[i]).members)
        /\ \A limit \in PlanBudgets :
             LET chunks == LoopSplit(fused, limit)
                 cut == AbstractAll(chunks)
             IN  /\ cut = SplitReadsToBudget(declared, plan, limit)
                 /\ AbstractAll(LoopSelectBulk(chunks, limit, Refreshes, PlanCycle).sel)
                      = SelectBulk(declared, cut, limit, Refreshes, PlanCycle)

\* A member's offset finds its own bytes in the read: `apply_reads` slices
\* blob[off .. off + size] and must get the watch's region.
OffsetsHonest(reads) ==
  \A i \in DOMAIN reads : \A j \in DOMAIN reads[i].members :
    LET m == reads[i].members[j] IN
      /\ declared[m[1]].region = [space |-> reads[i].space, addr |-> reads[i].addr + m[2], size |-> m[3]]
      /\ m[2] >= 0 /\ m[2] + m[3] <= reads[i].size

EachWatchOnce(reads) ==
  \A w \in Ids : Cardinality({i \in DOMAIN reads : w \in Abstract(reads[i]).members}) = 1

\* Every watch is in exactly one read, before and after the split, and finds
\* its own bytes there; reads of one space are more than `gap` apart, so that
\* no byte is fetched twice and no cheaper fusion was missed; and a chunk is
\* over the budget only when a single watch is that large.
PlanCoversEveryWatchOnce ==
  \A gap \in PlanGaps :
    LET fused == LoopCoalesce(declared, Ids, gap) IN
      /\ OffsetsHonest(fused) /\ EachWatchOnce(fused)
      /\ \A i, j \in DOMAIN fused :
           i < j /\ fused[i].space = fused[j].space
             => fused[i].addr + fused[i].size + gap < fused[j].addr
      /\ \A limit \in PlanBudgets :
           LET chunks == LoopSplit(fused, limit) IN
             /\ OffsetsHonest(chunks) /\ EachWatchOnce(chunks)
             /\ \A i \in DOMAIN chunks : chunks[i].size > limit => Len(chunks[i].members) = 1

-----------------------------------------------------------------------------
(* Tables and JSON.                                                        *)

\* A table made of lists and of objects comes back from the store, or from
\* json.encode and json.decode, as the value it was, with the keys of its
\* objects as text, whatever length the VM picks for a table with holes.
UnmixedRoundTrip ==
  LET x == Table(doc) IN
    Storable(x) /\ Unmixed(x) => {JsonToLua(y) : y \in LuaToJson(x)} = {Stringified(x)}
=============================================================================
