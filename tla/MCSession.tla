----------------------------- MODULE MCSession ------------------------------
(***************************************************************************)
(* ScriptSession for model checking.                                       *)
(***************************************************************************)
EXTENDS ScriptSession, TLC

\* Neither scripts nor ids are told apart but by what they did.
Symmetry == Permutations(Scripts) \cup Permutations(Controls)
=============================================================================
