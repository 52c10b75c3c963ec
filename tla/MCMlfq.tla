------------------------------- MODULE MCMlfq -------------------------------
(***************************************************************************)
(* Instance of Mlfq for TLC: every quantum is short.                       *)
(***************************************************************************)
EXTENDS Mlfq

\* Quanta that still tell the levels apart: batch runs longer than the rest.
ShortQuanta == [l \in Levels |-> IF l = 3 THEN 2 ELSE 1]
=============================================================================
