--------------------------- MODULE MCOfflineRescore ---------------------------
(* Two processes score one run, as the evaluator that scored it first or as  *)
(* one that lists another check, drops one and finds otherwise of a third.   *)
EXTENDS OfflineRescore, TLC

CONSTANTS p1, p2

MCVerdict ==
  [original |-> [cause |-> "passed", gap |-> "inapplicable", old |-> "failed", new |-> "absent"],
   other    |-> [cause |-> "failed", gap |-> "passed", old |-> "absent", new |-> "passed"]]
Symmetric == Permutations(Processes)
=============================================================================
