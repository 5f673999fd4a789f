--------------------------- MODULE EvaluationContract ---------------------------
(***************************************************************************)
(* What an evaluation promises its caller and its readers, without stages, *)
(* mutations or files: a passed result is published only into a recovered  *)
(* laboratory, a published result is never replaced, a returned verdict is *)
(* the published one, and whoever is told that the laboratory recovered    *)
(* finds it healthy and with no active run.                                *)
(***************************************************************************)
CONSTANTS Runs, NoRun

VARIABLES busy,     \* a process uses the laboratory
          healthy,  \* healthy data and no active run
          archive,  \* run id -> "NONE" or its verdict
          report    \* what the last evaluation told its caller

Silence == [kind |-> "NONE", run |-> NoRun, verdict |-> "NONE", recovered |-> FALSE]

Init ==
  /\ busy = FALSE
  /\ healthy = TRUE
  /\ archive = [r \in Runs |-> "NONE"]
  /\ report = Silence

Enter ==
  /\ ~busy
  /\ busy' = TRUE
  /\ report' = Silence
  /\ UNCHANGED <<healthy, archive>>

Work ==
  /\ busy
  /\ healthy' \in BOOLEAN
  /\ UNCHANGED <<busy, archive, report>>

Publish(r, verdict) ==
  /\ busy
  /\ archive[r] = "NONE"
  /\ verdict = "PASSED" => healthy
  /\ archive' = [archive EXCEPT ![r] = verdict]
  /\ UNCHANGED <<busy, healthy, report>>

Tell(kind, run, verdict) ==
  /\ busy
  /\ busy' = FALSE
  /\ \E recovered \in BOOLEAN :
        /\ recovered => healthy
        /\ report' = [kind |-> kind, run |-> run, verdict |-> verdict, recovered |-> recovered]
  /\ UNCHANGED <<healthy, archive>>

(* A command, or an evaluation whose process was killed: nothing is said.     *)
Go ==
  /\ busy
  /\ busy' = FALSE
  /\ healthy' \in BOOLEAN
  /\ UNCHANGED <<archive, report>>

Next ==
  \/ Enter
  \/ Work
  \/ \E r \in Runs, verdict \in {"PASSED", "FAILED"} : Publish(r, verdict)
  \/ \E r \in Runs : archive[r] # "NONE" /\ Tell("RETURNED", r, archive[r])
  \/ \E r \in Runs \cup {NoRun}, kind \in {"RAISED", "CANCELLED"} : Tell(kind, r, "NONE")
  \/ Go

Spec == Init /\ [][Next]_<<busy, healthy, archive, report>>
=================================================================================
