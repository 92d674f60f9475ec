-------------------------- MODULE ReadThroughCache --------------------------
(***************************************************************************)
(* What a script may rely on when it reads memory through the cache, with  *)
(* no cycles, batches, tiers or budgets.  A watch has the marker of its    *)
(* latest request and, once it was read, the time of its cached sample on  *)
(* the same clock.  PollEngine implements this specification.              *)
(***************************************************************************)
EXTENDS Naturals

VARIABLES
  clock,    \* request markers issued
  ids,      \* watch ids issued: 0 .. ids - 1
  asked,    \* live watch -> marker of its latest request
  cache     \* watch -> time its cached value was sampled

vars == <<clock, ids, asked, cache>>

Init == clock = 0 /\ ids = 0 /\ asked = << >> /\ cache = << >>

\* The script declares a watch, under an id never used before.
Declare ==
  /\ clock' = clock + 1 /\ ids' = ids + 1
  /\ asked' = [id \in DOMAIN asked \cup {ids} |-> IF id = ids THEN clock + 1 ELSE asked[id]]
  /\ UNCHANGED cache

\* The script asks for a value; an id that is not live takes a marker only.
Ask ==
  /\ clock' = clock + 1
  /\ \/ UNCHANGED asked
     \/ \E id \in DOMAIN asked : asked' = [asked EXCEPT ![id] = clock + 1]
  /\ UNCHANGED <<ids, cache>>

\* The script is replaced: its watches are gone, its ids are not reused.
Forget == asked' = << >> /\ UNCHANGED <<clock, ids, cache>>

\* New values are shown, all at once.  Live watches keep a value once they
\* have one, it never gets older, and it is never from the future.
Refresh ==
  /\ DOMAIN cache' \subseteq 0..(ids - 1)
  /\ DOMAIN cache \cap DOMAIN asked \subseteq DOMAIN cache'
  /\ \A id \in DOMAIN cache' : cache'[id] <= clock
  /\ \A id \in DOMAIN cache \cap DOMAIN cache' : cache[id] <= cache'[id]
  /\ UNCHANGED <<clock, ids, asked>>

Next == Declare \/ Ask \/ Forget \/ Refresh

Spec == Init /\ [][Next]_vars
=============================================================================
