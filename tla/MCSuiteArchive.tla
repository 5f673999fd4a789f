---------------------------- MODULE MCSuiteArchive ----------------------------
(* Two repeats of one scenario under one strategy and two clerks; the doctor *)
(* receipt selects both cells, or only the first.                            *)
EXTENDS SuiteArchive, TLC

CONSTANTS p1, p2

MCGroup == [c \in 1..2 |-> "g"]
MCRepeat == [c \in 1..2 |-> c]
Symmetric == Permutations(Clerks)
=============================================================================
