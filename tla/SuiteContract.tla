---------------------------- MODULE SuiteContract ----------------------------
(***************************************************************************)
(* What a formal suite promises, without processes, files or crashes: one  *)
(* cell at a time is in flight, a cell is scored once and its score never  *)
(* changes, and no cell begins while the pause rule holds over the scores  *)
(* of the model-backed cells in the order they became final.               *)
(***************************************************************************)
EXTENDS Integers, Sequences, FiniteSets

CONSTANTS Cells, ModelBacked, WindowSize, WindowThreshold

VARIABLES status,   \* per cell: "ABSENT", "STARTED", "COMPLETED" or "FAILED"
          scores    \* clean passes of the final model-backed cells, oldest first

Misses == {i \in 1..Len(scores) : i > Len(scores) - WindowSize /\ ~scores[i]}

Paused == Len(scores) >= WindowSize /\ Cardinality(Misses) >= WindowThreshold

Init ==
    /\ status = [c \in Cells |-> "ABSENT"]
    /\ scores = <<>>

Begin(c) ==
    /\ status[c] = "ABSENT"
    /\ \A d \in Cells : status[d] # "STARTED"
    /\ ~Paused
    /\ status' = [status EXCEPT ![c] = "STARTED"]
    /\ UNCHANGED scores

(* A completed cell may still miss a controller gate; a failed one never     *)
(* counts as clean.                                                          *)
Settle(c) ==
    /\ status[c] = "STARTED"
    /\ \E final \in {"COMPLETED", "FAILED"}, clean \in BOOLEAN :
          /\ clean => final = "COMPLETED"
          /\ status' = [status EXCEPT ![c] = final]
          /\ scores' = IF c \in ModelBacked THEN Append(scores, clean) ELSE scores

Next == \E c \in Cells : Begin(c) \/ Settle(c)

Spec == Init /\ [][Next]_<<status, scores>>
=============================================================================
