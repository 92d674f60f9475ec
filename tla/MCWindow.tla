------------------------------ MODULE MCWindow ------------------------------
(***************************************************************************)
(* A small instance of Window: the native canvas and one four times as     *)
(* large, and the stream scales that main.rs picks for them.               *)
(***************************************************************************)
EXTENDS Window, Geometry

CONSTANTS c1, c2, s1, s2

MCAutoScale == [c \in {c1, c2} |-> StreamScaleFor(IF c = c1 THEN Scaled(1) ELSE Scaled(4))]
=============================================================================
