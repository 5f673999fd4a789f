------------------------------- MODULE MCPlanner -------------------------------
(***************************************************************************)
(* A planner run with two obligations.  What the first one reads may have  *)
(* changed when it is asked for again.                                     *)
(***************************************************************************)
EXTENDS Planner, TLC

CONSTANTS o1, o2, e1, e2, e3

MCYields == o1 :> {{e1}, {e2}} @@ o2 :> {{e3}}
=============================================================================
