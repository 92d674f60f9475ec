---------------------------- MODULE DurableStore ----------------------------
(***************************************************************************)
(* What a script may rely on when it keeps something in its store, with no *)
(* binding, dirty flags, temporary files or moments of flushing: a document *)
(* per script, what a new process would find of it, and the one script     *)
(* that runs.  ScriptSession implements this specification.                *)
(***************************************************************************)
CONSTANTS
  Scripts,
  Documents,
  None

VARIABLES
  reliable,   \* writes succeed in this behaviour
  running,    \* the script whose Lua VM it is
  document,   \* what each script finds in its store
  saved       \* and would find after a crash

vars == <<reliable, running, document, saved>>

Init ==
  /\ reliable \in BOOLEAN
  /\ running = None
  /\ document \in [Scripts -> Documents] /\ saved = document

\* A document changes by its own script and the panel of that script only.
Change ==
  /\ running \in Scripts
  /\ document' \in [Scripts -> Documents]
  /\ \A s \in Scripts \ {running} : document'[s] = document[s]
  /\ UNCHANGED <<reliable, running, saved>>

\* A document is saved as it is, whole or not at all.
Save ==
  /\ running \in Scripts
  /\ saved' = [saved EXCEPT ![running] = document[running]]
  /\ UNCHANGED <<reliable, running, document>>

\* Another script runs, in this process or the next, and every script will
\* find what it left.
Enter ==
  /\ running' \in Scripts \cup {None}
  /\ UNCHANGED <<reliable, document, saved>>

\* The process is killed: what was saved is left.
Crash ==
  /\ running' = None
  /\ document' = saved
  /\ UNCHANGED <<reliable, saved>>

\* When writes fail a document may be as it was saved last, from the next
\* script or process on.
FallBack ==
  /\ ~reliable
  /\ running' \in Scripts \cup {None}
  /\ document' \in [Scripts -> Documents]
  /\ \A s \in Scripts : document'[s] \in {document[s], saved[s]}
  /\ UNCHANGED <<reliable, saved>>

Next == Change \/ Save \/ Enter \/ Crash \/ FallBack

Spec == Init /\ [][Next]_vars
=============================================================================
