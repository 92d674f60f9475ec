---------------------------- MODULE MCHttpBridge ----------------------------
(***************************************************************************)
(* Small instances of HttpBridge, and its liveness.                        *)
(***************************************************************************)
EXTENDS HttpBridge

\* The runtime schedules the worker and its tasks, each request ends at its
\* timeout at the latest, Lua returns, and the window repaints on its own.
FairSpec ==
  /\ Spec
  /\ WF_vars(ClientReady) /\ WF_vars(Spawn)
  /\ \A id \in 1..MaxId, s \in 0..MaxScript :
       /\ WF_vars(Complete([id |-> id, script |-> s]))
       /\ WF_vars(SendResponse([id |-> id, script |-> s]))
  /\ WF_vars(BackOut \/ Enqueue \/ SendFails \/ Stash)
  /\ WF_vars(Frame) /\ WF_vars(BeginLoad) /\ WF_vars(LoadReturns)

\* Every stored callback is called in the end, unless its script is replaced
\* or disabled first, or the worker could not start.
CallbackComes ==
  \A id \in 1..MaxId :
    id \in DOMAIN pending ~> id \notin DOMAIN pending \/ ~loaded \/ worker = "gone"
=============================================================================
