--------------------------- MODULE DiagnosisRunProofs ---------------------------
(***************************************************************************)
(* Proofs about a run and its session.  The invariant says, for each place  *)
(* the event loop can be in, what the run has read of its own verdict and   *)
(* what the session has been told; beside it, that the ledger counts and    *)
(* registers ahead of the session, and that a worker the loop still waits   *)
(* for is doing the job it waits for.  An orphaned worker breaks the last   *)
(* part only, which is why it is stated for runs that have not failed.      *)
(***************************************************************************)
EXTENDS DiagnosisRun, FiniteSetTheorems, TLAPS

ToolSteps  == {"prepare", "admit", "dispatch", "settle", "count", "trace"}
JudgeSteps == {"judge", "finalize", "commit", "keep"}
Running    == {"start", "model", "tool", "validate", "verdict"}
Failing    == {"terminate", "ask", "fail"}

\* An outside client runs no loop and no worker here.
OutsideInv == strategy = "EXTERNAL" => loop = "done" /\ worker = Idle /\ result = NoResult

\* What the ledger holds is registered, and a verdict on its way to the run's
\* account cites nothing else.
WorkerInv ==
  /\ answered \subseteq registered
  /\ outcome.cited \subseteq answered
  /\ worker.good => worker.call \subseteq registered
  /\ worker.at \in JudgeSteps => worker.decision \in Answers
  /\ worker.at = "judge" /\ strategy = "KERNEL" => worker.decision.status # "MODEL_ERROR"
  /\ worker.at \in {"finalize", "commit"} => strategy = "KERNEL"
  /\ worker.at \in {"finalize", "commit", "keep"} => worker.decision.status # "MODEL_ERROR"
  /\ worker.at \in {"commit", "keep"} => worker.decision.cited \subseteq answered

\* A call on its way to the session's gate is in the ledger and not yet counted
\* by the session.
BudgetInv ==
  /\ IsFiniteSet(Ledger!attempts)
  /\ Cardinality(Ledger!attempts) <= ToolCallLimit
  /\ strategy # "EXTERNAL" =>
       attempts + (IF worker.at = "admit" THEN 1 ELSE 0) <= Cardinality(Ledger!attempts)

\* While the run has not failed, the loop waits for exactly the job the worker
\* does, and the trace lags the count by the call being recorded.
StepInv ==
  reason = "none" /\ strategy # "EXTERNAL" =>
    /\ worker.at \in ToolSteps  <=> loop = "tool"
    /\ worker.at \in JudgeSteps <=> loop = "validate"
    /\ successes = traced + (IF worker.at = "trace" THEN 1 ELSE 0)
    /\ outcome.status # "MODEL_ERROR"

\* Where the loop is says whether the run has failed, what it has read of the
\* verdict, and what the session was told.
LoopInv ==
  strategy # "EXTERNAL" =>
    /\ loop \in Running => reason = "none"
    /\ loop \in Failing \cup {"close"} => reason # "none"
    /\ loop \in {"verdict", "close", "build"} => outcome # NoAnswer
    /\ loop \in {"records", "trace", "submit", "check"} =>
         /\ snap.verdict \in Answers
         /\ snap.verdict.cited \subseteq answered
         /\ reason = "none" => snap.verdict.status # "MODEL_ERROR"
    /\ loop \in {"trace", "submit", "check"} => snap.verdict.cited \subseteq snap.evidence
    /\ loop \in {"submit", "check"} => (reason = "none" => snap.traced = traced)
    /\ loop \in Running \cup Failing \cup {"close"} => final = NoAnswer /\ cancellation = "none"
    /\ loop = "safe" => final = NoAnswer
    /\ loop \in {"build", "records", "trace", "submit"} =>
         /\ final = NoAnswer
         /\ reason = "none" <=> cancellation = "none"
    /\ loop = "check" =>
         IF snap.verdict.status = "MODEL_ERROR"
         THEN final = NoAnswer /\ cancellation # "none"
         ELSE final = snap.verdict /\ cancellation = "none" /\ reason = "none"

\* The loop ends when, and only when, it has a result.
ResultInv ==
  /\ result # NoResult => loop = "done"
  /\ ResultMatchesSession

-----------------------------------------------------------------------------
\* The jobs the actions give the worker are jobs.
LEMMA JobShapes ==
    /\ Idle \in Jobs
    /\ \A c \in Calls : [Idle EXCEPT !.at = "prepare", !.call = {c}] \in Jobs
    /\ \A d \in Answers : [Idle EXCEPT !.at = "judge", !.decision = d] \in Jobs
    /\ \A w \in Jobs, at \in WorkerSteps, good \in BOOLEAN :
         /\ [w EXCEPT !.at = at] \in Jobs
         /\ [w EXCEPT !.at = at, !.good = good] \in Jobs
<1>1. Idle \in Jobs
  BY DEF Idle, Jobs, WorkerSteps
<1>2. ASSUME NEW c \in Calls PROVE [Idle EXCEPT !.at = "prepare", !.call = {c}] \in Jobs
  <2>1. {c} \in {{}} \cup {{x} : x \in Calls}
    OBVIOUS
  <2> QED
    BY <2>1 DEF Idle, Jobs, WorkerSteps
<1>3. ASSUME NEW d \in Answers PROVE [Idle EXCEPT !.at = "judge", !.decision = d] \in Jobs
  BY DEF Idle, Jobs, WorkerSteps
<1>4. ASSUME NEW w \in Jobs, NEW at \in WorkerSteps, NEW good \in BOOLEAN
      PROVE  /\ [w EXCEPT !.at = at] \in Jobs
             /\ [w EXCEPT !.at = at, !.good = good] \in Jobs
  BY DEF Jobs
<1> QED
  BY <1>1, <1>2, <1>3, <1>4

\* Every step keeps the type of every variable.
LEMMA TypeStep ==
    ASSUME TypeOK, WorkerInv, RunAssumption, SessionAssumption, [Next]_vars
    PROVE  TypeOK'
<1> USE DEF TypeOK
<1>1. CASE Construct
  BY <1>1 DEF Construct, session, run, ledger, account, built, LoopStates
<1>2. ASSUME NEW c \in Calls, AskTool(c) PROVE TypeOK'
  <2>1. worker' \in Jobs
    BY <1>2, JobShapes DEF AskTool
  <2>2. requests' \in 0..RequestLimit
    BY <1>2 DEF AskTool, Request, RunAssumption
  <2> QED
    BY <1>2, <2>1, <2>2 DEF AskTool, Fail, session, ledger, account, built, LoopStates,
       ErrorReasons
<1>3. ASSUME NEW d \in Decisions, AskValidation(d) PROVE TypeOK'
  <2>1. worker' \in Jobs
    BY <1>3, JobShapes DEF AskValidation, Decisions, KernelDecisions
  <2>2. requests' \in 0..RequestLimit
    BY <1>3 DEF AskValidation, Request, RunAssumption
  <2> QED
    BY <1>3, <2>1, <2>2 DEF AskValidation, session, ledger, account, built, LoopStates
<1>4. CASE Garbage
  BY <1>4 DEF Garbage, Request, RetryOutput, Fail, session, ledger, account, built, LoopStates,
     ErrorReasons, RunAssumption, SessionAssumption
<1>5. CASE Stopped
  BY <1>5 DEF Stopped, Fail, session, ledger, account, built, LoopStates, ErrorReasons
<1>6. CASE Prepare
  <2>1. worker' \in Jobs
    BY <1>6, JobShapes DEF Prepare, ToolDone, WorkerSteps
  <2> QED
    BY <1>6, <2>1 DEF Prepare, ToolDone, Ledger!Try, session, run, account, built, ledger,
       LoopStates, Jobs
<1>7. CASE Admit
  BY <1>7 DEF Admit, PassGate, Jobs, WorkerSteps, run, ledger, account, built
<1>8. CASE Return
  <2>1. worker' \in Jobs
    BY <1>8, JobShapes DEF Return, WorkerSteps
  <2>2. worker.call \subseteq Evidence
    BY DEF Jobs, RunAssumption
  <2> QED
    BY <1>8, <2>1, <2>2 DEF Return, Register, session, run, ledger, account, built
<1>9. CASE Settle
  <2>1. worker' \in Jobs
    BY <1>9, JobShapes DEF Settle, ToolDone, WorkerSteps
  <2>2. worker.call \subseteq Calls
    BY DEF Jobs
  <2> QED
    BY <1>9, <2>1, <2>2 DEF Settle, ToolDone, Ledger!Settle, session, run, account, built,
       LoopStates
<1>10. CASE Count
  BY <1>10 DEF Count, Jobs, WorkerSteps, session, run, ledger, built
<1>11. CASE Trace
  BY <1>11 DEF Trace, ToolDone, Idle, Jobs, WorkerSteps, session, run, ledger, built, LoopStates
<1>12. CASE Judge
  <2>1. worker' \in Jobs
    BY <1>12, JobShapes DEF Judge, Refuse, WorkerSteps
  <2>2. /\ loop' \in LoopStates
        /\ reason' \in ErrorReasons \cup {"none"}
        /\ outRetries' \in 0..OutputRetryLimit
    BY <1>12 DEF Judge, Refuse, RetryOutput, Fail, LoopStates, ErrorReasons, SessionAssumption
  <2> QED
    BY <1>12, <2>1, <2>2 DEF Judge, session, ledger, account, built
<1>13. CASE Finalize
  <2>1. worker' \in Jobs
    BY <1>13, JobShapes DEF Finalize, Refuse, WorkerSteps
  <2>2. /\ loop' \in LoopStates
        /\ reason' \in ErrorReasons \cup {"none"}
        /\ outRetries' \in 0..OutputRetryLimit
    BY <1>13 DEF Finalize, Refuse, RetryOutput, Fail, LoopStates, ErrorReasons, SessionAssumption
  <2>3. worker.decision.status \in Statuses
    BY <1>13 DEF Finalize, WorkerInv, JudgeSteps, Answers
  <2>4. decided' \in Statuses \cup {"open"}
    BY <1>13, <2>3 DEF Finalize, Ledger!MayDecide, ledger
  <2> QED
    BY <1>13, <2>1, <2>2, <2>4 DEF Finalize, Ledger!MayDecide, session, ledger, account, built
<1>14. CASE Commit
  <2>1. worker' \in Jobs
    BY <1>14, JobShapes DEF Commit, Refuse, WorkerSteps
  <2>2. /\ loop' \in LoopStates
        /\ reason' \in ErrorReasons \cup {"none"}
        /\ outRetries' \in 0..OutputRetryLimit
    BY <1>14 DEF Commit, Refuse, RetryOutput, Fail, LoopStates, ErrorReasons, SessionAssumption
  <2>3. worker.decision.status \in Statuses
    BY <1>14 DEF Commit, WorkerInv, JudgeSteps, Answers
  <2>4. decided' \in Statuses \cup {"open"}
    BY <1>14, <2>3 DEF Commit, ledger
  <2> QED
    BY <1>14, <2>1, <2>2, <2>4 DEF Commit, session, ledger, account, built
<1>15. CASE Keep
  BY <1>15 DEF Keep, Idle, Jobs, WorkerSteps, session, run, ledger, built, LoopStates
<1>16. CASE Verdict
  BY <1>16 DEF Verdict, session, run, ledger, account, built, LoopStates
<1>17. CASE Terminate
  BY <1>17 DEF Terminate, session, run, ledger, account, built, LoopStates
<1>18. CASE AskKernel
  BY <1>18 DEF AskKernel, session, run, ledger, account, built, LoopStates
<1>19. CASE FailRun
  <2>1. Failure \in Answers
    BY DEF Failure, Answers, Statuses
  <2> QED
    BY <1>19, <2>1 DEF FailRun, Statuses, session, run, built, LoopStates
<1>20. CASE Close
  BY <1>20 DEF Close, CloseFor, Cancel, Reasons, session, run, ledger, account, built, LoopStates
<1>21. CASE Build
  BY <1>21 DEF Build, Raise, Fail, NoSnap, session, ledger, account, LoopStates, ErrorReasons
<1>22. CASE CopyRecords
  BY <1>22 DEF CopyRecords, session, run, ledger, account, LoopStates
<1>23. CASE CopyTrace
  BY <1>23 DEF CopyTrace, session, run, ledger, account, LoopStates
<1>24. CASE SubmitVerdict
  BY <1>24 DEF SubmitVerdict, CloseFor, Cancel, Submit, SubmitCode, Raise, Fail, Reasons,
     session, ledger, account, built, LoopStates, ErrorReasons, SessionAssumption, NoAnswer
<1>25. CASE Check
  BY <1>25 DEF Check, Raise, Fail, Answers, NoAnswer, Statuses, session, ledger, account,
     LoopStates, ErrorReasons
<1>26. CASE SafeTerminal
  BY <1>26 DEF SafeTerminal, CloseFor, Cancel, Reasons, NoResult, Statuses, run, ledger, account,
     LoopStates, session
<1>27. CASE Timeout
  BY <1>27 DEF Timeout, Fail, session, ledger, account, built, LoopStates, ErrorReasons
<1>28. CASE TimePasses
  BY <1>28 DEF TimePasses, Tick, run, ledger, account, built
<1>29. CASE OutsideStep
  BY <1>29 DEF OutsideStep, ClientStep, ClientCall, PassGate, AcquireModelRequest, ClientSubmit,
     Submit, SubmitCode, Cancel, run, ledger, account, built, SessionAssumption
<1>30. CASE UNCHANGED vars
  BY <1>30 DEF vars, session, run, ledger, account, built
<1> QED
  BY <1>1, <1>2, <1>3, <1>4, <1>5, <1>6, <1>7, <1>8, <1>9, <1>10, <1>11, <1>12, <1>13, <1>14,
     <1>15, <1>16, <1>17, <1>18, <1>19, <1>20, <1>21, <1>22, <1>23, <1>24, <1>25, <1>26, <1>27,
     <1>28, <1>29, <1>30
     DEF Next, AgentStep, WorkerStep, EndStep
\* Every step keeps what the worker owes the ledger.
LEMMA WorkerStepKept ==
    ASSUME TypeOK, OutsideInv, WorkerInv, RunAssumption, [Next]_vars
    PROVE  WorkerInv'
<1> USE DEF TypeOK, WorkerInv, JudgeSteps, Jobs
<1>1. CASE Construct
  BY <1>1 DEF Construct, session, run, ledger, account, built
<1>2. ASSUME NEW c \in Calls, AskTool(c) PROVE WorkerInv'
  BY <1>2 DEF AskTool, Request, Fail, session, run, ledger, account, built, Idle
<1>3. ASSUME NEW d \in Decisions, AskValidation(d) PROVE WorkerInv'
  BY <1>3 DEF AskValidation, Request, session, run, ledger, account, built, Idle, Decisions,
     KernelDecisions
<1>4. CASE Garbage
  BY <1>4 DEF Garbage, Request, RetryOutput, Fail, session, run, ledger, account, built
<1>5. CASE Stopped
  BY <1>5 DEF Stopped, Fail, session, run, ledger, account, built
<1>6. CASE Prepare
  BY <1>6 DEF Prepare, ToolDone, Ledger!Try, session, run, ledger, account, built, Idle
<1>7. CASE Admit
  BY <1>7 DEF Admit, PassGate, session, run, ledger, account, built
<1>8. CASE Return
  BY <1>8 DEF Return, Register, session, run, ledger, account, built
<1>9. CASE Settle
  BY <1>9 DEF Settle, ToolDone, Ledger!Settle, session, run, ledger, account, built, Idle
<1>10. CASE Count
  BY <1>10 DEF Count, session, run, ledger, account, built
<1>11. CASE Trace
  BY <1>11 DEF Trace, ToolDone, session, run, ledger, account, built, Idle
<1>12. CASE Judge
  <2>1. UNCHANGED <<registered, strategy, answered, outcome>>
    BY <1>12 DEF Judge, session, ledger, account
  <2>2. CASE worker' = Idle
    <3>1. worker'.at = "idle" /\ worker'.good = FALSE
      BY <2>2 DEF Idle
    <3> QED
      BY <2>1, <3>1
  <2>3. CASE /\ strategy = "STATIC" => /\ worker.decision.status # "MODEL_ERROR"
                                     /\ worker.decision.cited \subseteq answered
             /\ worker' = [worker EXCEPT !.at = IF strategy = "KERNEL" THEN "finalize" ELSE "keep"]
    <3>1. worker.at = "judge" /\ strategy # "EXTERNAL"
      BY <1>12, OutsideInv DEF Judge, OutsideInv, Idle
    <3>2. /\ worker'.decision = worker.decision
          /\ worker'.call = worker.call /\ worker'.good = worker.good
          /\ worker'.at = IF strategy = "KERNEL" THEN "finalize" ELSE "keep"
      BY <2>3
    <3> QED
      BY <2>1, <2>3, <3>1, <3>2
  <2> QED
    BY <1>12, <2>2, <2>3 DEF Judge, Refuse
<1>13. CASE Finalize
  BY <1>13 DEF Finalize, Refuse, RetryOutput, Fail, Ledger!MayDecide, session, run, ledger, account,
     built, Idle
<1>14. CASE Commit
  BY <1>14 DEF Commit, Refuse, RetryOutput, Fail, session, run, ledger, account,
     built, Idle
<1>15. CASE Keep
  BY <1>15 DEF Keep, session, run, ledger, account, built, Idle
<1>16. CASE Verdict
  BY <1>16 DEF Verdict, session, run, ledger, account, built
<1>17. CASE Terminate
  BY <1>17 DEF Terminate, session, run, ledger, account, built
<1>18. CASE AskKernel
  BY <1>18 DEF AskKernel, session, run, ledger, account, built
<1>19. CASE FailRun
  BY <1>19 DEF FailRun, session, run, ledger, account, built, Failure
<1>20. CASE Close
  BY <1>20 DEF Close, CloseFor, Cancel, session, run, ledger, account, built
<1>21. CASE Build
  BY <1>21 DEF Build, Raise, Fail, session, run, ledger, account, built
<1>22. CASE CopyRecords
  BY <1>22 DEF CopyRecords, session, run, ledger, account, built
<1>23. CASE CopyTrace
  BY <1>23 DEF CopyTrace, session, run, ledger, account, built
<1>24. CASE SubmitVerdict
  BY <1>24 DEF SubmitVerdict, CloseFor, Cancel, Submit, Raise, Fail, session, run, ledger,
     account, built
<1>25. CASE Check
  BY <1>25 DEF Check, Raise, Fail, session, run, ledger, account, built
<1>26. CASE SafeTerminal
  BY <1>26 DEF SafeTerminal, CloseFor, Cancel, session, run, ledger, account, built
<1>27. CASE Timeout
  BY <1>27 DEF Timeout, Fail, session, run, ledger, account, built
<1>28. CASE TimePasses
  BY <1>28 DEF TimePasses, Tick, session, run, ledger, account, built
<1>29. CASE OutsideStep
  BY <1>29 DEF OutsideStep, ClientStep, ClientCall, PassGate, AcquireModelRequest, ClientSubmit,
     Submit, Cancel, session, run, ledger, account, built
<1>30. CASE UNCHANGED vars
  BY <1>30 DEF vars, session, run, ledger, account, built
<1> QED
  BY <1>1, <1>2, <1>3, <1>4, <1>5, <1>6, <1>7, <1>8, <1>9, <1>10, <1>11, <1>12, <1>13, <1>14,
     <1>15, <1>16, <1>17, <1>18, <1>19, <1>20, <1>21, <1>22, <1>23, <1>24, <1>25, <1>26, <1>27,
     <1>28, <1>29, <1>30
     DEF Next, AgentStep, WorkerStep, EndStep

\* Nothing runs beside an outside client.
LEMMA OutsideStepKept ==
    ASSUME OutsideInv, [Next]_vars
    PROVE  OutsideInv'
<1> USE DEF OutsideInv
<1>1. CASE Construct
  BY <1>1 DEF Construct, session, run, ledger, account, built, Idle
<1>2. ASSUME NEW c \in Calls, AskTool(c) PROVE OutsideInv'
  BY <1>2 DEF AskTool, Request, Fail, session, run, ledger, account, built, Idle
<1>3. ASSUME NEW d \in Decisions, AskValidation(d) PROVE OutsideInv'
  BY <1>3 DEF AskValidation, Request, session, run, ledger, account, built, Idle
<1>4. CASE Garbage
  BY <1>4 DEF Garbage, Request, RetryOutput, Fail, session, run, ledger, account, built, Idle
<1>5. CASE Stopped
  BY <1>5 DEF Stopped, Fail, session, run, ledger, account, built, Idle
<1>6. CASE Prepare
  BY <1>6 DEF Prepare, ToolDone, Ledger!Try, session, run, ledger, account, built, Idle
<1>7. CASE Admit
  BY <1>7 DEF Admit, PassGate, session, run, ledger, account, built, Idle
<1>8. CASE Return
  BY <1>8 DEF Return, Register, session, run, ledger, account, built, Idle
<1>9. CASE Settle
  BY <1>9 DEF Settle, ToolDone, Ledger!Settle, session, run, ledger, account, built, Idle
<1>10. CASE Count
  BY <1>10 DEF Count, session, run, ledger, account, built, Idle
<1>11. CASE Trace
  BY <1>11 DEF Trace, ToolDone, session, run, ledger, account, built, Idle
<1>12. CASE Judge
  BY <1>12 DEF Judge, Refuse, RetryOutput, Fail, session, run, ledger, account, built, Idle
<1>13. CASE Finalize
  BY <1>13 DEF Finalize, Refuse, RetryOutput, Fail, Ledger!MayDecide, session, run, ledger, account,
     built, Idle
<1>14. CASE Commit
  BY <1>14 DEF Commit, Refuse, RetryOutput, Fail, session, run, ledger, account,
     built, Idle
<1>15. CASE Keep
  BY <1>15 DEF Keep, session, run, ledger, account, built, Idle
<1>16. CASE Verdict
  BY <1>16 DEF Verdict, session, run, ledger, account, built, Idle
<1>17. CASE Terminate
  BY <1>17 DEF Terminate, session, run, ledger, account, built, Idle
<1>18. CASE AskKernel
  BY <1>18 DEF AskKernel, session, run, ledger, account, built, Idle
<1>19. CASE FailRun
  BY <1>19 DEF FailRun, session, run, ledger, account, built, Idle
<1>20. CASE Close
  BY <1>20 DEF Close, CloseFor, Cancel, session, run, ledger, account, built, Idle
<1>21. CASE Build
  BY <1>21 DEF Build, Raise, Fail, session, run, ledger, account, built, Idle
<1>22. CASE CopyRecords
  BY <1>22 DEF CopyRecords, session, run, ledger, account, built, Idle
<1>23. CASE CopyTrace
  BY <1>23 DEF CopyTrace, session, run, ledger, account, built, Idle
<1>24. CASE SubmitVerdict
  BY <1>24 DEF SubmitVerdict, CloseFor, Cancel, Submit, Raise, Fail, session, run, ledger,
     account, built, Idle
<1>25. CASE Check
  BY <1>25 DEF Check, Raise, Fail, session, run, ledger, account, built, Idle
<1>26. CASE SafeTerminal
  BY <1>26 DEF SafeTerminal, CloseFor, Cancel, session, run, ledger, account, built, Idle
<1>27. CASE Timeout
  BY <1>27 DEF Timeout, Fail, InAgentRun, session, run, ledger, account, built, Idle
<1>28. CASE TimePasses
  BY <1>28 DEF TimePasses, Tick, session, run, ledger, account, built, Idle
<1>29. CASE OutsideStep
  BY <1>29 DEF OutsideStep, ClientStep, ClientCall, PassGate, AcquireModelRequest, ClientSubmit,
     Submit, Cancel, session, run, ledger, account, built, Idle
<1>30. CASE UNCHANGED vars
  BY <1>30 DEF vars, session, run, ledger, account, built
<1> QED
  BY <1>1, <1>2, <1>3, <1>4, <1>5, <1>6, <1>7, <1>8, <1>9, <1>10, <1>11, <1>12, <1>13, <1>14,
     <1>15, <1>16, <1>17, <1>18, <1>19, <1>20, <1>21, <1>22, <1>23, <1>24, <1>25, <1>26, <1>27,
     <1>28, <1>29, <1>30
     DEF Next, AgentStep, WorkerStep, EndStep

\* A step that leaves the ledger's attempts and the session's count alone keeps
\* the budgets, unless it sends a call to the gate.
LEMMA BudgetsUntouched ==
    ASSUME BudgetInv, UNCHANGED <<Ledger!attempts, attempts, strategy>>, attempts \in Nat,
           worker'.at = "admit" => worker.at = "admit"
    PROVE  BudgetInv'
<1>1. Cardinality(Ledger!attempts) \in Nat
  BY FS_CardinalityType DEF BudgetInv
<1> QED
  BY <1>1 DEF BudgetInv

\* The contract's cardinality is the library's.
LEMMA SameCardinality == \A S : Ledger!Cardinality(S) = Cardinality(S)
BY DEF Ledger!Cardinality, Cardinality, Ledger!IsFiniteSet, IsFiniteSet

\* Every step keeps the two counts of attempts in order.
LEMMA BudgetStepKept ==
    ASSUME TypeOK, BudgetInv, SessionAssumption, [Next]_vars
    PROVE  BudgetInv'
<1> DEFINE Hyp == /\ UNCHANGED <<Ledger!attempts, attempts, strategy>>
                  /\ worker'.at = "admit" => worker.at = "admit"
<1>a. attempts \in Nat /\ worker \in Jobs
  BY DEF TypeOK
<1>b. Hyp => BudgetInv'
  BY <1>a, BudgetsUntouched
<1>1. Construct => Hyp
  BY <1>a DEF Construct, session, run, ledger, account, built, Ledger!attempts, Jobs, Idle
<1>2. ASSUME NEW c \in Calls, AskTool(c) PROVE Hyp
  BY <1>2, <1>a DEF AskTool, Request, Fail, session, run, ledger, account, built,
     Ledger!attempts, Jobs, Idle
<1>3. ASSUME NEW d \in Decisions, AskValidation(d) PROVE Hyp
  BY <1>3, <1>a DEF AskValidation, Request, session, run, ledger, account, built,
     Ledger!attempts, Jobs, Idle
<1>4. Garbage => Hyp
  BY <1>a DEF Garbage, Request, RetryOutput, Fail, session, run, ledger, account, built,
     Ledger!attempts, Jobs, Idle
<1>5. Stopped => Hyp
  BY <1>a DEF Stopped, Fail, session, run, ledger, account, built, Ledger!attempts, Jobs, Idle
<1>6. CASE Prepare
  <2>1. CASE UNCHANGED ledger
    BY <1>6, <2>1, <1>b DEF Prepare, ToolDone, Idle, ledger, session, Ledger!attempts
  <2>2. ASSUME NEW c \in worker.call, Ledger!Try(c) PROVE BudgetInv'
    <3>0. Ledger!attempts' = Ledger!attempts \cup {c}
      <4>1. CASE pending' = pending \cup {c} /\ UNCHANGED refused
        BY <2>2, <4>1 DEF Ledger!Try, Ledger!attempts
      <4>2. CASE refused' = refused \cup {c} /\ UNCHANGED pending
        BY <2>2, <4>2 DEF Ledger!Try, Ledger!attempts
      <4> QED
        BY <2>2, <4>1, <4>2 DEF Ledger!Try
    <3>1. c \notin Ledger!attempts /\ Cardinality(Ledger!attempts) < ToolCallLimit
      BY <2>2, SameCardinality DEF Ledger!Try
    <3>2. /\ IsFiniteSet(Ledger!attempts') /\ Cardinality(Ledger!attempts) \in Nat
          /\ Cardinality(Ledger!attempts') = Cardinality(Ledger!attempts) + 1
      BY <3>0, <3>1, FS_AddElement, FS_CardinalityType DEF BudgetInv
    <3>3. UNCHANGED <<attempts, strategy>> /\ worker.at = "prepare"
      BY <1>6 DEF Prepare, session
    <3> QED
      BY <3>0, <3>1, <3>2, <3>3, <1>a DEF BudgetInv, SessionAssumption
  <2> QED
    BY <1>6, <2>1, <2>2 DEF Prepare
<1>7. CASE Admit
  <2>1. /\ worker.at = "admit" /\ worker'.at # "admit" /\ UNCHANGED <<Ledger!attempts, strategy>>
    BY <1>7, <1>a DEF Admit, ledger, Ledger!attempts, Jobs
  <2>2. attempts' \in {attempts, attempts + 1}
    BY <1>7 DEF Admit, PassGate
  <2>3. Cardinality(Ledger!attempts) \in Nat
    BY FS_CardinalityType DEF BudgetInv
  <2> QED
    BY <2>1, <2>2, <2>3, <1>a DEF BudgetInv
<1>8. Return => Hyp
  BY <1>a DEF Return, Register, session, run, ledger, account, built, Ledger!attempts, Jobs, Idle
<1>9. Settle => Hyp
  BY <1>a DEF Settle, ToolDone, Ledger!Settle, Ledger!attempts, session, Idle, Jobs
<1>10. Count => Hyp
  BY <1>a DEF Count, session, run, ledger, account, built, Ledger!attempts, Jobs, Idle
<1>11. Trace => Hyp
  BY <1>a DEF Trace, ToolDone, session, run, ledger, account, built, Ledger!attempts, Jobs, Idle
<1>12. Judge => Hyp
  BY <1>a DEF Judge, Refuse, RetryOutput, Fail, session, run, ledger, account, built,
     Ledger!attempts, Jobs, Idle
<1>13. Finalize => Hyp
  BY <1>a DEF Finalize, Refuse, RetryOutput, Fail, Ledger!MayDecide, session, run, ledger, account,
     built, Ledger!attempts, Jobs, Idle
<1>14. Commit => Hyp
  BY <1>a DEF Commit, Refuse, RetryOutput, Fail, session, run, ledger, account,
     built, Ledger!attempts, Jobs, Idle
<1>15. Keep => Hyp
  BY <1>a DEF Keep, session, run, ledger, account, built, Ledger!attempts, Jobs, Idle
<1>16. Verdict => Hyp
  BY <1>a DEF Verdict, session, run, ledger, account, built, Ledger!attempts, Jobs, Idle
<1>17. Terminate => Hyp
  BY <1>a DEF Terminate, session, run, ledger, account, built, Ledger!attempts, Jobs, Idle
<1>18. AskKernel => Hyp
  BY <1>a DEF AskKernel, session, run, ledger, account, built, Ledger!attempts, Jobs, Idle
<1>19. FailRun => Hyp
  BY <1>a DEF FailRun, session, run, ledger, account, built, Ledger!attempts, Jobs, Idle
<1>20. Close => Hyp
  BY <1>a DEF Close, CloseFor, Cancel, session, run, ledger, account, built, Ledger!attempts,
     Jobs, Idle
<1>21. Build => Hyp
  BY <1>a DEF Build, Raise, Fail, session, run, ledger, account, built, Ledger!attempts, Jobs,
     Idle
<1>22. CopyRecords => Hyp
  BY <1>a DEF CopyRecords, session, run, ledger, account, built, Ledger!attempts, Jobs,
     Idle
<1>23. CopyTrace => Hyp
  BY <1>a DEF CopyTrace, session, run, ledger, account, built, Ledger!attempts, Jobs,
     Idle
<1>24. SubmitVerdict => Hyp
  BY <1>a DEF SubmitVerdict, CloseFor, Cancel, Submit, Raise, Fail, session, run, ledger,
     account, built, Ledger!attempts, Jobs, Idle
<1>25. Check => Hyp
  BY <1>a DEF Check, Raise, Fail, session, run, ledger, account, built, Ledger!attempts, Jobs,
     Idle
<1>26. SafeTerminal => Hyp
  BY <1>a DEF SafeTerminal, CloseFor, Cancel, session, run, ledger, account, built,
     Ledger!attempts, Jobs, Idle
<1>27. Timeout => Hyp
  BY <1>a DEF Timeout, Fail, session, run, ledger, account, built, Ledger!attempts, Jobs, Idle
<1>28. TimePasses => Hyp
  BY <1>a DEF TimePasses, Tick, session, run, ledger, account, built, Ledger!attempts, Jobs, Idle
<1>29. CASE OutsideStep
  BY <1>29 DEF OutsideStep, ledger, Ledger!attempts, BudgetInv
<1>30. UNCHANGED vars => Hyp
  BY <1>a DEF vars, session, run, ledger, account, built, Ledger!attempts, Jobs, Idle
<1> QED
  BY <1>1, <1>2, <1>3, <1>4, <1>5, <1>6, <1>7, <1>8, <1>9, <1>10, <1>11, <1>12, <1>13, <1>14,
     <1>15, <1>16, <1>17, <1>18, <1>19, <1>20, <1>21, <1>22, <1>23, <1>24, <1>25, <1>26, <1>27,
     <1>28, <1>29, <1>30, <1>b
     DEF Next, AgentStep, WorkerStep, EndStep
\* Every step keeps loop and worker together until the run fails.
LEMMA StepStepKept ==
    ASSUME TypeOK, OutsideInv, WorkerInv, StepInv, LoopInv, [Next]_vars
    PROVE  StepInv'
<1> USE DEF TypeOK, OutsideInv, WorkerInv, StepInv, LoopInv, Jobs, Failing
<1>1. CASE Construct
  BY <1>1 DEF Construct, session, run, ledger, account, built, Idle, ToolSteps, JudgeSteps,
     Running
<1>2. ASSUME NEW c \in Calls, AskTool(c) PROVE StepInv'
  <2>1. CASE successes >= ToolCallLimit
    BY <1>2, <2>1 DEF AskTool, Fail
  <2>2. CASE ~(successes >= ToolCallLimit)
    <3>1. /\ loop = "model" /\ loop' = "tool" /\ worker.at = "idle" /\ worker'.at = "prepare"
      BY <1>2, <2>2 DEF AskTool, Idle
    <3>2. UNCHANGED <<strategy, reason, outcome, successes, traced>>
      BY <1>2, <2>2 DEF AskTool, account
    <3> QED
      BY <3>1, <3>2 DEF ToolSteps, JudgeSteps
  <2> QED
    BY <2>1, <2>2
<1>3. ASSUME NEW d \in Decisions, AskValidation(d) PROVE StepInv'
  BY <1>3 DEF AskValidation, Request, session, run, ledger, account, built, Idle, ToolSteps,
     JudgeSteps, Running
<1>4. CASE Garbage
  BY <1>4 DEF Garbage, Request, RetryOutput, Fail, session, run, ledger, account, built, Idle,
     ToolSteps, JudgeSteps, Running
<1>5. CASE Stopped
  BY <1>5 DEF Stopped, Fail, session, run, ledger, account, built, Idle, ToolSteps, JudgeSteps,
     Running
<1>6. CASE Prepare
  BY <1>6 DEF Prepare, ToolDone, Ledger!Try, session, run, ledger, account, built, Idle,
     ToolSteps, JudgeSteps, Running
<1>7. CASE Admit
  BY <1>7 DEF Admit, PassGate, session, run, ledger, account, built, Idle, ToolSteps, JudgeSteps,
     Running
<1>8. CASE Return
  BY <1>8 DEF Return, Register, session, run, ledger, account, built, Idle, ToolSteps,
     JudgeSteps, Running
<1>9. CASE Settle
  BY <1>9 DEF Settle, ToolDone, Ledger!Settle, session, run, ledger, account, built, Idle,
     ToolSteps, JudgeSteps, Running
<1>10. CASE Count
  BY <1>10 DEF Count, session, run, ledger, account, built, Idle, ToolSteps, JudgeSteps, Running
<1>11. CASE Trace
  BY <1>11 DEF Trace, ToolDone, session, run, ledger, account, built, Idle, ToolSteps,
     JudgeSteps, Running
<1>12. CASE Judge
  BY <1>12 DEF Judge, Refuse, RetryOutput, Fail, session, run, ledger, account, built, Idle,
     ToolSteps, JudgeSteps, Running
<1>13. CASE Finalize
  BY <1>13 DEF Finalize, Refuse, RetryOutput, Fail, Ledger!MayDecide, session, run, ledger, account,
     built, Idle, ToolSteps, JudgeSteps, Running
<1>14. CASE Commit
  BY <1>14 DEF Commit, Refuse, RetryOutput, Fail, session, run, ledger, account,
     built, Idle, ToolSteps, JudgeSteps, Running
<1>15. CASE Keep
  BY <1>15 DEF Keep, session, run, ledger, account, built, Idle, ToolSteps, JudgeSteps, Running
<1>16. CASE Verdict
  BY <1>16 DEF Verdict, session, run, ledger, account, built, Idle, ToolSteps, JudgeSteps, Running
<1>17. CASE Terminate
  BY <1>17 DEF Terminate, session, run, ledger, account, built, Idle, ToolSteps, JudgeSteps,
     Running, Failing
<1>18. CASE AskKernel
  BY <1>18 DEF AskKernel, session, run, ledger, account, built, Idle, ToolSteps, JudgeSteps,
     Running, Failing
<1>19. CASE FailRun
  BY <1>19 DEF FailRun, session, run, ledger, account, built, Idle, ToolSteps, JudgeSteps,
     Running, Failing, Failure
<1>20. CASE Close
  BY <1>20 DEF Close, CloseFor, Cancel, session, run, ledger, account, built, Idle, ToolSteps,
     JudgeSteps, Running
<1>21. CASE Build
  BY <1>21 DEF Build, Raise, Fail, session, run, ledger, account, built, Idle, ToolSteps,
     JudgeSteps, Running
<1>22. CASE CopyRecords
  BY <1>22 DEF CopyRecords, session, run, ledger, account, built, Idle, ToolSteps,
     JudgeSteps, Running
<1>23. CASE CopyTrace
  BY <1>23 DEF CopyTrace, session, run, ledger, account, built, Idle, ToolSteps,
     JudgeSteps, Running
<1>24. CASE SubmitVerdict
  BY <1>24 DEF SubmitVerdict, CloseFor, Cancel, Submit, Raise, Fail, session, run, ledger,
     account, built, Idle, ToolSteps, JudgeSteps, Running
<1>25. CASE Check
  BY <1>25 DEF Check, Raise, Fail, session, run, ledger, account, built, Idle, ToolSteps,
     JudgeSteps, Running
<1>26. CASE SafeTerminal
  BY <1>26 DEF SafeTerminal, CloseFor, Cancel, session, run, ledger, account, built, Idle,
     ToolSteps, JudgeSteps, Running
<1>27. CASE Timeout
  BY <1>27 DEF Timeout, Fail, InAgentRun, session, run, ledger, account, built, Idle, ToolSteps,
     JudgeSteps, Running
<1>28. CASE TimePasses
  BY <1>28 DEF TimePasses, Tick, session, run, ledger, account, built, Idle, ToolSteps,
     JudgeSteps, Running
<1>29. CASE OutsideStep
  BY <1>29 DEF OutsideStep, ClientStep, ClientCall, PassGate, AcquireModelRequest, ClientSubmit,
     Submit, Cancel, session, run, ledger, account, built, Idle, ToolSteps, JudgeSteps, Running
<1>30. CASE UNCHANGED vars
  BY <1>30 DEF vars, session, run, ledger, account, built, Idle, ToolSteps, JudgeSteps, Running
<1> QED
  BY <1>1, <1>2, <1>3, <1>4, <1>5, <1>6, <1>7, <1>8, <1>9, <1>10, <1>11, <1>12, <1>13, <1>14,
     <1>15, <1>16, <1>17, <1>18, <1>19, <1>20, <1>21, <1>22, <1>23, <1>24, <1>25, <1>26, <1>27,
     <1>28, <1>29, <1>30
     DEF Next, AgentStep, WorkerStep, EndStep

\* Every step keeps what the loop's place says of the session.
LEMMA LoopStepKept ==
    ASSUME TypeOK, WorkerInv, StepInv, LoopInv, [Next]_vars
    PROVE  LoopInv'
<1> USE DEF TypeOK, WorkerInv, StepInv, LoopInv, Jobs, Failing
<1>1. CASE Construct
  BY <1>1 DEF Construct, session, run, ledger, account, built, Running
<1>2. ASSUME NEW c \in Calls, AskTool(c) PROVE LoopInv'
  BY <1>2 DEF AskTool, Request, Fail, session, run, ledger, account, built, Running
<1>3. ASSUME NEW d \in Decisions, AskValidation(d) PROVE LoopInv'
  BY <1>3 DEF AskValidation, Request, session, run, ledger, account, built, Running
<1>4. CASE Garbage
  BY <1>4 DEF Garbage, Request, RetryOutput, Fail, session, run, ledger, account, built, Running
<1>5. CASE Stopped
  BY <1>5 DEF Stopped, Fail, session, run, ledger, account, built, Running
<1>6. CASE Prepare
  BY <1>6 DEF Prepare, ToolDone, Ledger!Try, session, run, ledger, account, built, Running
<1>7. CASE Admit
  BY <1>7 DEF Admit, PassGate, session, run, ledger, account, built, Running
<1>8. CASE Return
  BY <1>8 DEF Return, Register, session, run, ledger, account, built, Running
<1>9. CASE Settle
  BY <1>9 DEF Settle, ToolDone, Ledger!Settle, session, run, ledger, account, built, Running
<1>10. CASE Count
  BY <1>10 DEF Count, session, run, ledger, account, built, Running
<1>11. CASE Trace
  BY <1>11 DEF Trace, ToolDone, ToolSteps, session, run, ledger, account, built, Running
<1>12. CASE Judge
  BY <1>12 DEF Judge, Refuse, RetryOutput, Fail, session, run, ledger, account, built, Running
<1>13. CASE Finalize
  BY <1>13 DEF Finalize, Refuse, RetryOutput, Fail, Ledger!MayDecide, session, run, ledger, account,
     built, Running
<1>14. CASE Commit
  BY <1>14 DEF Commit, Refuse, RetryOutput, Fail, session, run, ledger, account,
     built, Running
<1>15. CASE Keep
  BY <1>15 DEF Keep, JudgeSteps, Answers, Statuses, NoAnswer, session, run, ledger, account,
     built, Running
<1>16. CASE Verdict
  BY <1>16 DEF Verdict, session, run, ledger, account, built, Running
<1>17. CASE Terminate
  BY <1>17 DEF Terminate, session, run, ledger, account, built, Running, Failing, Failure, NoAnswer
<1>18. CASE AskKernel
  BY <1>18 DEF AskKernel, session, run, ledger, account, built, Running, Failing, Failure, NoAnswer
<1>19. CASE FailRun
  BY <1>19 DEF FailRun, session, run, ledger, account, built, Running, Failing, Failure, NoAnswer
<1>20. CASE Close
  BY <1>20 DEF Close, CloseFor, Cancel, session, run, ledger, account, built, Running, Closed,
     SubmitCode, NoAnswer, Reasons
<1>21. CASE Build
  BY <1>21 DEF Build, Raise, Fail, session, run, ledger, account, built, Running
<1>22. CASE CopyRecords
  BY <1>22 DEF CopyRecords, session, run, ledger, account, built, Running
<1>23. CASE CopyTrace
  BY <1>23 DEF CopyTrace, session, run, ledger, account, built, Running
<1>24. CASE SubmitVerdict
  BY <1>24 DEF SubmitVerdict, CloseFor, Cancel, Submit, Raise, Fail, session, run, ledger,
     account, built, Running, Closed, SubmitCode, NoAnswer, Reasons
<1>25. CASE Check
  BY <1>25 DEF Check, Raise, Fail, ToolSteps, session, run, ledger, account, built, Running
<1>26. CASE SafeTerminal
  BY <1>26 DEF SafeTerminal, CloseFor, Cancel, session, run, ledger, account, built, Running,
     Closed, SubmitCode, NoAnswer, Reasons
<1>27. CASE Timeout
  BY <1>27 DEF Timeout, Fail, InAgentRun, session, run, ledger, account, built, Running
<1>28. CASE TimePasses
  BY <1>28 DEF TimePasses, Tick, session, run, ledger, account, built, Running
<1>29. CASE OutsideStep
  BY <1>29 DEF OutsideStep, ClientStep, ClientCall, PassGate, AcquireModelRequest, ClientSubmit,
     Submit, Cancel, session, run, ledger, account, built, Running
<1>30. CASE UNCHANGED vars
  BY <1>30 DEF vars, session, run, ledger, account, built, Running
<1> QED
  BY <1>1, <1>2, <1>3, <1>4, <1>5, <1>6, <1>7, <1>8, <1>9, <1>10, <1>11, <1>12, <1>13, <1>14,
     <1>15, <1>16, <1>17, <1>18, <1>19, <1>20, <1>21, <1>22, <1>23, <1>24, <1>25, <1>26, <1>27,
     <1>28, <1>29, <1>30
     DEF Next, AgentStep, WorkerStep, EndStep

\* A result is built once, from a verdict and a session that agree.
LEMMA ResultStepKept ==
    ASSUME TypeOK, OutsideInv, LoopInv, ResultInv, [Next]_vars
    PROVE  ResultInv'
<1> USE DEF ResultInv, ResultMatchesSession, Finished
<1>1. CASE Construct
  BY <1>1 DEF Construct, session, run, ledger, account, built
<1>2. ASSUME NEW c \in Calls, AskTool(c) PROVE ResultInv'
  BY <1>2 DEF AskTool, Request, Fail, session, run, ledger, account, built
<1>3. ASSUME NEW d \in Decisions, AskValidation(d) PROVE ResultInv'
  BY <1>3 DEF AskValidation, Request, session, run, ledger, account, built
<1>4. CASE Garbage
  BY <1>4 DEF Garbage, Request, RetryOutput, Fail, session, run, ledger, account, built
<1>5. CASE Stopped
  BY <1>5 DEF Stopped, Fail, session, run, ledger, account, built
<1>6. CASE Prepare
  BY <1>6 DEF Prepare, ToolDone, Ledger!Try, session, run, ledger, account, built
<1>7. CASE Admit
  BY <1>7 DEF Admit, PassGate, session, run, ledger, account, built
<1>8. CASE Return
  BY <1>8 DEF Return, Register, session, run, ledger, account, built
<1>9. CASE Settle
  BY <1>9 DEF Settle, ToolDone, Ledger!Settle, session, run, ledger, account, built
<1>10. CASE Count
  BY <1>10 DEF Count, session, run, ledger, account, built
<1>11. CASE Trace
  BY <1>11 DEF Trace, ToolDone, session, run, ledger, account, built
<1>12. CASE Judge
  BY <1>12 DEF Judge, Refuse, RetryOutput, Fail, session, run, ledger, account, built
<1>13. CASE Finalize
  BY <1>13 DEF Finalize, Refuse, RetryOutput, Fail, Ledger!MayDecide, session, run, ledger, account,
     built
<1>14. CASE Commit
  BY <1>14 DEF Commit, Refuse, RetryOutput, Fail, session, run, ledger, account,
     built
<1>15. CASE Keep
  BY <1>15 DEF Keep, session, run, ledger, account, built
<1>16. CASE Verdict
  BY <1>16 DEF Verdict, session, run, ledger, account, built
<1>17. CASE Terminate
  BY <1>17 DEF Terminate, session, run, ledger, account, built
<1>18. CASE AskKernel
  BY <1>18 DEF AskKernel, session, run, ledger, account, built
<1>19. CASE FailRun
  BY <1>19 DEF FailRun, session, run, ledger, account, built
<1>20. CASE Close
  BY <1>20 DEF Close, session, run, ledger, account, built
<1>21. CASE Build
  BY <1>21 DEF Build, Raise, Fail, session, run, ledger, account, built
<1>22. CASE CopyRecords
  BY <1>22 DEF CopyRecords, session, run, ledger, account, built
<1>23. CASE CopyTrace
  BY <1>23 DEF CopyTrace, session, run, ledger, account, built
<1>24. CASE SubmitVerdict
  BY <1>24 DEF SubmitVerdict, Raise, Fail, session, run, ledger, account, built
<1>25. CASE Check
  BY <1>25 DEF Check, Raise, Fail, session, run, ledger, account, built, OutsideInv, LoopInv,
     TypeOK, Answers, NoAnswer
<1>26. CASE SafeTerminal
  BY <1>26 DEF SafeTerminal, CloseFor, Cancel, Closed, session, run, ledger, account, built,
     OutsideInv, LoopInv
<1>27. CASE Timeout
  BY <1>27 DEF Timeout, Fail, InAgentRun, session, run, ledger, account, built
<1>28. CASE TimePasses
  BY <1>28 DEF TimePasses, Tick, session, run, ledger, account, built
<1>29. CASE OutsideStep
  BY <1>29 DEF OutsideStep, session, run, ledger, account, built, OutsideInv
<1>30. CASE UNCHANGED vars
  BY <1>30 DEF vars, session, run, ledger, account, built
<1> QED
  BY <1>1, <1>2, <1>3, <1>4, <1>5, <1>6, <1>7, <1>8, <1>9, <1>10, <1>11, <1>12, <1>13, <1>14,
     <1>15, <1>16, <1>17, <1>18, <1>19, <1>20, <1>21, <1>22, <1>23, <1>24, <1>25, <1>26, <1>27,
     <1>28, <1>29, <1>30
     DEF Next, AgentStep, WorkerStep, EndStep

-----------------------------------------------------------------------------
IInv ==
  /\ TypeOK /\ OutsideInv /\ WorkerInv /\ BudgetInv
  /\ StepInv /\ LoopInv /\ ResultInv

\* A run starts in the invariant.
LEMMA InitKept == ASSUME Init, SessionAssumption, RunAssumption PROVE IInv
<1> USE DEF Init, SessionInit, RunStateInit, Ledger!Init
<1>1. TypeOK
  <2>1. worker \in Jobs
    BY JobShapes
  <2>2. /\ granted \in 0..ModelRequestLimit /\ retries \in 0..OutputRetryLimit
        /\ requests \in 0..RequestLimit /\ outRetries \in 0..OutputRetryLimit
    BY DEF SessionAssumption, RunAssumption
  <2>3. /\ snap \in [verdict : Answers \cup {NoAnswer}, evidence : SUBSET Calls, traced : Nat]
        /\ result.status = "none"
    BY DEF NoSnap, NoResult
  <2>4. loop \in LoopStates
    BY DEF LoopStates
  <2> QED
    BY <2>1, <2>2, <2>3, <2>4 DEF TypeOK
<1>2. OutsideInv /\ WorkerInv
  BY DEF OutsideInv, WorkerInv, JudgeSteps, Idle, NoAnswer
<1>3. BudgetInv
  <2>1. Ledger!attempts = {}
    BY DEF Ledger!attempts
  <2> QED
    BY <2>1, FS_EmptySet DEF BudgetInv, Idle, SessionAssumption
<1>4. StepInv /\ LoopInv
  BY DEF StepInv, LoopInv, Running, Failing, ToolSteps, JudgeSteps, Idle, NoAnswer
<1>5. ResultInv
  BY DEF ResultInv, ResultMatchesSession, Finished
<1> QED
  BY <1>1, <1>2, <1>3, <1>4, <1>5 DEF IInv

\* Every step keeps the strengthened invariant.
THEOREM Invariance == Spec => []IInv
<1>1. Init => IInv
  BY InitKept, SessionAssumption, RunAssumption
<1>2. IInv /\ [Next]_vars => IInv'
  BY TypeStep, OutsideStepKept, WorkerStepKept, BudgetStepKept, StepStepKept, LoopStepKept,
     ResultStepKept, SessionAssumption, RunAssumption DEF IInv
<1> QED
  BY <1>1, <1>2, PTL DEF Spec

\* Every variable keeps its kind of value, and the session's counters stay
\* within their budgets whatever an orphaned worker does (diagnostic_agent.py,
\* strategy_adapter.py).
THEOREM Types == Spec => []TypeOK
<1>1. IInv => TypeOK
  BY DEF IInv
<1> QED
  BY <1>1, Invariance, PTL

\* What diagnose returns and how its session ended agree, whatever the worker
\* that outlived the run did (diagnostic_agent.py _result, _close_session).
THEOREM ResultAgrees == Spec => []ResultMatchesSession
<1>1. IInv => ResultMatchesSession
  BY DEF IInv, ResultInv
<1> QED
  BY <1>1, Invariance, PTL

\* No verdict a run hands in cites a record its session does not know, although
\* ledger and session are written in different steps (strategy_adapter.py submit).
THEOREM CitesRegistered == Spec => []VerdictCitesRegistered
<1>1. IInv => VerdictCitesRegistered
  <2> SUFFICES ASSUME IInv, strategy # "EXTERNAL"
               PROVE  /\ outcome.cited \subseteq answered
                      /\ answered \subseteq registered
                      /\ loop = "submit" => SubmitCode(snap.verdict) # "EVIDENCE_NOT_REGISTERED"
    BY DEF VerdictCitesRegistered
  <2>1. outcome.cited \subseteq answered /\ answered \subseteq registered
    BY DEF IInv, WorkerInv
  <2>2. loop = "submit" => snap.verdict.cited \subseteq registered
    BY <2>1 DEF IInv, LoopInv
  <2> QED
    BY <2>1, <2>2 DEF SubmitCode
<1> QED
  BY <1>1, Invariance, PTL

\* The session's tool budget never stops a built-in runner: the ledger counts
\* each call first, and within the same limit (strategy_adapter.py call_tool).
THEOREM BudgetsHold == Spec => []BudgetsAgree
<1>1. IInv => BudgetsAgree
  <2> SUFFICES ASSUME IInv, strategy # "EXTERNAL"
               PROVE  /\ attempts <= Cardinality(Ledger!attempts)
                      /\ Cardinality(Ledger!attempts) <= ToolCallLimit
    BY DEF BudgetsAgree
  <2>1. attempts \in Nat /\ Cardinality(Ledger!attempts) \in Nat
    BY FS_CardinalityType DEF IInv, TypeOK, BudgetInv
  <2> QED
    BY <2>1 DEF IInv, BudgetInv
<1> QED
  BY <1>1, Invariance, PTL

-----------------------------------------------------------------------------
(* The run implements the contract of a strategy                           *)

\* A failure cites nothing, wherever the loop has copied it to.
FailureInv ==
  /\ outcome.status = "MODEL_ERROR" => outcome.cited = {}
  /\ snap.verdict.status = "MODEL_ERROR" => snap.verdict.cited = {}

\* Every step keeps failures without citations: the only verdict kept that is one
\* is the empty Failure.
LEMMA FailureKept ==
    ASSUME TypeOK, WorkerInv, FailureInv, [Next]_vars
    PROVE  FailureInv'
<1> USE DEF FailureInv
<1>1. CASE Keep
  BY <1>1 DEF Keep, WorkerInv, built
<1>2. CASE FailRun
  BY <1>2 DEF FailRun, Failure, built
<1>3. CASE Build
  BY <1>3 DEF Build, NoSnap, account
<1>4. CASE CopyRecords \/ CopyTrace
  BY <1>4 DEF CopyRecords, CopyTrace, account, TypeOK
<1>5. CASE UNCHANGED <<outcome, snap>>
  BY <1>5
<1>6. ASSUME NEW c \in Calls, AskTool(c) PROVE UNCHANGED <<outcome, snap>>
  BY <1>6 DEF AskTool, account, built
<1>7. ASSUME NEW d \in Decisions, AskValidation(d) PROVE UNCHANGED <<outcome, snap>>
  BY <1>7 DEF AskValidation, account, built
<1>8. Construct \/ Garbage \/ Stopped => UNCHANGED <<outcome, snap>>
  BY DEF Construct, Garbage, Stopped, account, built
<1>9. Prepare \/ Admit \/ Return \/ Settle \/ Count \/ Trace \/ Judge \/ Finalize \/ Commit
        => UNCHANGED <<outcome, snap>>
  BY DEF Prepare, Admit, Return, Settle, Count, Trace, Judge, Finalize, Commit, account, built
<1>10. Verdict \/ Terminate \/ AskKernel \/ Close \/ SubmitVerdict \/ Check \/ SafeTerminal
        => UNCHANGED <<outcome, snap>>
  BY DEF Verdict, Terminate, AskKernel, Close, SubmitVerdict, Check, SafeTerminal, account, built
<1>11. Timeout \/ TimePasses \/ OutsideStep \/ UNCHANGED vars => UNCHANGED <<outcome, snap>>
  BY DEF Timeout, TimePasses, OutsideStep, vars, account, built
<1> QED
  BY <1>1, <1>2, <1>3, <1>4, <1>5, <1>6, <1>7, <1>8, <1>9, <1>10, <1>11
     DEF Next, AgentStep, WorkerStep, EndStep

\* What a step must leave alone to show the contract nothing.
Unseen ==
  /\ UNCHANGED <<registered, attempts, retries, final, cancellation, expired, result>>
  /\ worker.at = "dispatch" <=> worker'.at = "dispatch"

LEMMA UnseenStutters == ASSUME Unseen PROVE UNCHANGED Contract!vars
  BY DEF Unseen, Contract!vars, Spent, Ending, Said, Closed

\* The session's gate: a call it lets through is admitted, one it refuses uses
\* nothing of what the contract counts.
LEMMA GateSteps ==
    ASSUME TypeOK, SessionAssumption, PassGate("NONE"), UNCHANGED <<registered, result>>,
           worker.at # "dispatch",
           worker'.at = "dispatch" <=> GateCode("NONE") = "NONE"
    PROVE  Contract!Admit \/ UNCHANGED Contract!vars
<1>1. CASE GateCode("NONE") = "NONE"
  <2>1. ~Closed /\ ~expired /\ attempts < ToolCallLimit
    BY <1>1 DEF GateCode, TypeOK, SessionAssumption
  <2>2. attempts' = attempts + 1 /\ UNCHANGED <<retries, final, cancellation, expired>>
    BY <1>1 DEF PassGate, Uncounted
  <2>3. Spent = attempts /\ Spent' = attempts + 1
    BY <2>1, <2>2 DEF Spent, TypeOK, SessionAssumption
  <2>4. /\ Ending = "open" /\ Ending' = "open"
        /\ Said(final)' = Said(final) /\ Said(result)' = Said(result)
    BY <2>1, <2>2 DEF Ending, Closed, Said
  <2> QED
    BY <1>1, <2>1, <2>2, <2>3, <2>4
       DEF Contract!Admit, Contract!Spend, Contract!InTime
<1>2. CASE GateCode("NONE") # "NONE"
  <2>1. Spent' = Spent
    BY <1>2 DEF PassGate, GateCode, Uncounted, Spent, TypeOK, SessionAssumption
  <2>2. UNCHANGED <<retries, final, cancellation, expired>>
    BY DEF PassGate
  <2> QED
    BY <1>2, <2>1, <2>2 DEF Contract!vars, Ending, Said
<1> QED
  BY <1>1, <1>2

\* A submission: accepted, refused at the cost of a retry, or refused for nothing.
LEMMA SubmitSteps ==
    ASSUME TypeOK, SessionAssumption, NEW a \in Answers, Submit(a), UNCHANGED result,
           worker.at = "dispatch" <=> worker'.at = "dispatch"
    PROVE  \/ \E b \in Contract!Said : Contract!Accept(b)
           \/ Contract!Strike
           \/ UNCHANGED Contract!vars
<1>1. UNCHANGED <<registered, attempts, cancellation, expired>>
  BY DEF Submit
<1>2. Spent' = Spent /\ Said(result)' = Said(result)
  BY <1>1 DEF Spent, Said
<1>3. CASE SubmitCode(a) = "ACCEPTED"
  <2>1. /\ Ending = "open" /\ ~expired /\ retries < OutputRetryLimit
        /\ a.cited \subseteq registered
    BY <1>3 DEF SubmitCode, Ending, TypeOK, SessionAssumption
  <2>2. final' = a /\ retries' = retries
    BY <1>3 DEF Submit
  <2>3. a # NoAnswer
    BY DEF Answers, Statuses, NoAnswer
  <2>4. Ending' = "answered" /\ Said(final)' = Said(a)
    BY <2>2, <2>3 DEF Ending, Said
  <2>5. Said(a) \in Contract!Said /\ Said(a).cited = a.cited
    BY DEF Said, Answers, Statuses, Contract!Said
  <2>6. Contract!Accept(Said(a))
    BY <1>1, <1>2, <2>1, <2>2, <2>4, <2>5 DEF Contract!Accept, Contract!InTime
  <2> QED
    BY <2>5, <2>6
<1>4. CASE SubmitCode(a) \in {"EVIDENCE_NOT_REGISTERED", "SUBMISSION_INVALID"}
  <2>1. Ending = "open" /\ ~expired /\ retries < OutputRetryLimit
    BY <1>4 DEF SubmitCode, Ending, TypeOK, SessionAssumption
  <2>2. final' = final /\ retries' = retries + 1
    BY <1>4 DEF Submit
  <2>3. Ending' = Ending /\ Said(final)' = Said(final)
    BY <1>1, <2>2 DEF Ending, Said
  <2> QED
    BY <1>1, <1>2, <2>1, <2>2, <2>3 DEF Contract!Strike, Contract!InTime
<1>5. CASE SubmitCode(a) \notin {"ACCEPTED", "EVIDENCE_NOT_REGISTERED", "SUBMISSION_INVALID"}
  <2>1. Unseen
    BY <1>1, <1>5 DEF Submit, Unseen
  <2> QED
    BY <2>1, UnseenStutters
<1> QED
  BY <1>3, <1>4, <1>5

\* A cancellation ends an open session; a second one only changes the reason.
LEMMA CancelSteps ==
    ASSUME NEW why \in Reasons, Cancel(why), UNCHANGED result,
           worker.at = "dispatch" <=> worker'.at = "dispatch"
    PROVE  Contract!Cancel \/ UNCHANGED Contract!vars
<1>1. UNCHANGED <<registered, attempts, retries, final, expired>> /\ final = NoAnswer
  BY DEF Cancel
<1>2. Ending' = "cancelled" /\ Ending \in {"open", "cancelled"}
  BY <1>1 DEF Cancel, Ending, Reasons
<1>3. Spent' = Spent /\ Said(final)' = Said(final) /\ Said(result)' = Said(result)
  BY <1>1 DEF Spent, Said
<1> QED
  BY <1>1, <1>2, <1>3 DEF Contract!Cancel, Contract!vars

\* An outside client's calls are answered on the spot.
LEMMA ClientSteps ==
    ASSUME TypeOK, SessionAssumption, OutsideStep
    PROVE  Contract!Next \/ UNCHANGED Contract!vars
<1>1. UNCHANGED <<worker, result>>
  BY DEF OutsideStep, built
<1>2. ASSUME NEW fault \in Faults, NEW evidence \in {{}} \cup {{e} : e \in Evidence},
             ClientCall(fault, evidence)
      PROVE  (\E known \in SUBSET Evidence : Contract!Serve(known)) \/ UNCHANGED Contract!vars
  <2>1. UNCHANGED <<retries, final, cancellation, expired>>
    BY <1>2 DEF ClientCall, PassGate
  <2>2. Ending' = Ending /\ Said(final)' = Said(final) /\ Said(result)' = Said(result)
    BY <1>1, <2>1 DEF Ending, Said
  <2>3. evidence \in SUBSET Evidence /\ {} \in SUBSET Evidence
    OBVIOUS
  <2>4. CASE GateCode(fault) \in Uncounted \cup {"TOOL_BUDGET_EXHAUSTED"}
    <3>1. registered' = registered
      BY <1>2, <2>4 DEF ClientCall, Uncounted
    <3>2. Spent' = Spent
      BY <1>2, <2>4 DEF ClientCall, PassGate, GateCode, Faults, Uncounted, Spent, TypeOK,
         SessionAssumption
    <3> QED
      BY <1>1, <2>1, <2>2, <3>1, <3>2 DEF Contract!vars
  <2>5. CASE GateCode(fault) \notin Uncounted \cup {"TOOL_BUDGET_EXHAUSTED"}
    <3>1. ~Closed /\ ~expired /\ attempts < ToolCallLimit
      BY <2>5 DEF GateCode, Uncounted, TypeOK, SessionAssumption
    <3>2. attempts' = attempts + 1
      BY <1>2, <2>5 DEF ClientCall, PassGate
    <3>3. Spent = attempts /\ Spent' = attempts + 1
      BY <3>1, <3>2 DEF Spent, TypeOK, SessionAssumption
    <3>4. Ending = "open"
      BY <3>1 DEF Closed, Ending
    <3>5. registered' = registered \cup evidence \/ registered' = registered \cup {}
      BY <1>2 DEF ClientCall
    <3>6. ASSUME NEW some, registered' = registered \cup some PROVE Contract!Serve(some)
      BY <1>1, <2>1, <2>2, <3>1, <3>3, <3>4, <3>6
         DEF Contract!Serve, Contract!Spend, Contract!InTime
    <3> QED
      BY <2>3, <3>5, <3>6
  <2> QED
    BY <2>4, <2>5
<1>3. CASE AcquireModelRequest
  <2>1. Unseen
    BY <1>1, <1>3 DEF AcquireModelRequest, Unseen
  <2> QED
    BY <2>1, UnseenStutters
<1>4. ASSUME NEW a \in Answers, ClientSubmit(a)
      PROVE  Contract!Next \/ UNCHANGED Contract!vars
  BY <1>1, <1>4, SubmitSteps DEF ClientSubmit, Contract!Next
<1>5. ASSUME NEW why \in Reasons, Cancel(why)
      PROVE  Contract!Next \/ UNCHANGED Contract!vars
  BY <1>1, <1>5, CancelSteps DEF Contract!Next
<1> QED
  BY <1>2, <1>3, <1>4, <1>5 DEF OutsideStep, ClientStep, Contract!Next

\* The loop's own accesses to the session, and what it returns.  A failed run has
\* closed its session before, or closes it with the result.
LEMMA EndSteps ==
    ASSUME TypeOK, OutsideInv, LoopInv, ResultInv, FailureInv, SessionAssumption, EndStep
    PROVE  Contract!Next \/ UNCHANGED Contract!vars
<1>1. Verdict \/ Terminate \/ AskKernel \/ FailRun \/ Build \/ CopyRecords \/ CopyTrace => Unseen
  BY DEF Verdict, Terminate, AskKernel, FailRun, Build, CopyRecords, CopyTrace, session, built,
     Unseen
<1>2. ASSUME NEW why \in Reasons, CloseFor(why), UNCHANGED <<worker, result>>
      PROVE  Contract!Next \/ UNCHANGED Contract!vars
  <2>1. CASE Closed
    BY <1>2, <2>1, UnseenStutters DEF CloseFor, Unseen, session
  <2>2. CASE ~Closed
    BY <1>2, <2>2, CancelSteps DEF CloseFor, Contract!Next
  <2> QED
    BY <2>1, <2>2
<1>3. CASE Close
  <2>1. UNCHANGED <<worker, result>>
    BY <1>3 DEF Close, built
  <2>2. CloseFor("STRATEGY_TIMEOUT") \/ CloseFor("RUN_FAILED")
    BY <1>3 DEF Close
  <2> QED
    BY <1>2, <2>1, <2>2 DEF Reasons
<1>4. CASE SubmitVerdict
  <2>1. UNCHANGED <<worker, result>> /\ snap.verdict \in Answers
    <3>1. strategy # "EXTERNAL"
      BY <1>4 DEF SubmitVerdict, OutsideInv
    <3> QED
      BY <1>4, <3>1 DEF SubmitVerdict, LoopInv, built
  <2>2. CASE snap.verdict.status = "MODEL_ERROR"
    BY <1>2, <1>4, <2>1, <2>2 DEF SubmitVerdict, Reasons
  <2>3. CASE snap.verdict.status # "MODEL_ERROR"
    BY <1>4, <2>1, <2>3, SubmitSteps DEF SubmitVerdict, Contract!Next
  <2> QED
    BY <2>2, <2>3
<1>5. CASE Check
  <2>1. /\ UNCHANGED <<registered, attempts, retries, final, cancellation, expired, worker>>
        /\ result = NoResult /\ strategy # "EXTERNAL"
    BY <1>5 DEF Check, session, ResultInv, OutsideInv
  <2>2. /\ Spent' = Spent /\ Ending' = Ending /\ Said(final)' = Said(final)
        /\ Said(result) = Contract!Nothing
    BY <2>1 DEF Spent, Ending, Said, NoResult, Contract!Nothing
  <2>3. CASE successes # snap.traced
    BY <1>5, <2>1, <2>3, UnseenStutters DEF Check, Unseen
  <2>4. CASE successes = snap.traced /\ snap.verdict.status = "MODEL_ERROR"
    <3>1. Said(result)' = Contract!Failure
      BY <1>5, <2>4 DEF Check, Said, FailureInv, Contract!Failure
    <3>2. Ending # "open"
      BY <1>5, <2>1, <2>4 DEF Check, LoopInv, Ending
    <3>3. Contract!GiveUp
      BY <2>1, <2>2, <3>1, <3>2 DEF Contract!GiveUp
    <3> QED
      BY <3>3 DEF Contract!Next
  <2>5. CASE successes = snap.traced /\ snap.verdict.status # "MODEL_ERROR"
    <3>1. final = snap.verdict /\ cancellation = "none" /\ snap.verdict \in Answers
      BY <1>5, <2>1, <2>5 DEF Check, LoopInv
    <3>2. Said(result)' = Said(final)
      BY <1>5, <2>5, <3>1 DEF Check, Said
    <3>3. Ending = "answered"
      BY <3>1 DEF Ending, Answers, Statuses, NoAnswer
    <3>4. Contract!Deliver
      BY <2>1, <2>2, <3>2, <3>3 DEF Contract!Deliver
    <3> QED
      BY <3>4 DEF Contract!Next
  <2> QED
    BY <2>3, <2>4, <2>5
<1>6. CASE SafeTerminal
  <2>1. /\ UNCHANGED <<registered, attempts, retries, final, expired, worker>>
        /\ final = NoAnswer /\ cancellation' # "none"
        /\ result = NoResult
    <3>1. strategy # "EXTERNAL" /\ loop = "safe"
      BY <1>6 DEF SafeTerminal, OutsideInv
    <3> QED
      BY <1>6, <3>1 DEF SafeTerminal, LoopInv, ResultInv, CloseFor, Closed, Cancel, session
  <2>2. /\ Spent' = Spent /\ Said(final)' = Said(final) /\ Said(result) = Contract!Nothing
        /\ Ending \in {"open", "cancelled"} /\ Ending' = "cancelled"
    BY <2>1 DEF Spent, Ending, Said, NoResult, Contract!Nothing
  <2>3. Said(result)' = Contract!Failure
    BY <1>6 DEF SafeTerminal, Said, NoResult, Contract!Failure
  <2>4. Contract!GiveUp
    BY <2>1, <2>2, <2>3 DEF Contract!GiveUp
  <2> QED
    BY <2>4 DEF Contract!Next
<1> QED
  BY <1>1, <1>3, <1>4, <1>5, <1>6, UnseenStutters DEF EndStep

\* Every step is a step of the contract, or the contract does not see it.
LEMMA ContractStep ==
    ASSUME TypeOK, OutsideInv, LoopInv, ResultInv, FailureInv, RunAssumption,
           SessionAssumption, [Next]_vars
    PROVE  [Contract!Next]_(Contract!vars)
<1>1. Construct \/ Garbage \/ Stopped \/ Timeout \/ UNCHANGED vars => Unseen
  BY DEF Construct, Garbage, Stopped, Timeout, vars, session, built, Unseen
<1>2. ASSUME NEW c \in Calls, AskTool(c) PROVE Unseen
  BY <1>2 DEF AskTool, Fail, Idle, session, built, Unseen
<1>3. ASSUME NEW d \in Decisions, AskValidation(d) PROVE Unseen
  BY <1>3 DEF AskValidation, Idle, session, built, Unseen
<1>4. Prepare \/ Settle \/ Count \/ Trace => Unseen
  BY DEF Prepare, Settle, Count, Trace, ToolDone, Idle, session, built, Unseen, TypeOK, Jobs
<1>5. Judge \/ Finalize \/ Commit \/ Keep => Unseen
  BY DEF Judge, Finalize, Commit, Keep, Refuse, Idle, session, built, Unseen, TypeOK, Jobs
<1>6. CASE Admit
  <2>1. PassGate("NONE") /\ UNCHANGED <<registered, result>> /\ worker.at # "dispatch"
    BY <1>6 DEF Admit, built
  <2>2. worker'.at = "dispatch" <=> GateCode("NONE") = "NONE"
    BY <1>6 DEF Admit, TypeOK, Jobs
  <2> QED
    BY <2>1, <2>2, GateSteps DEF Contract!Next
<1>7. CASE Return
  <2>1. /\ worker.at = "dispatch" /\ worker'.at = "settle" /\ worker.call \in SUBSET Evidence
        /\ UNCHANGED <<attempts, retries, final, cancellation, expired, result>>
    <3>1. worker.at = "dispatch" /\ worker'.at = "settle"
      BY <1>7 DEF Return, TypeOK, Jobs
    <3>2. worker.call \in SUBSET Evidence
      BY RunAssumption DEF TypeOK, Jobs
    <3>3. UNCHANGED <<attempts, retries, final, cancellation, expired, result>>
      BY <1>7 DEF Return, Register, session, built
    <3> QED
      BY <3>1, <3>2, <3>3
  <2>2. registered' = registered \cup worker.call \/ registered' = registered \cup {}
    BY <1>7 DEF Return, Register, session
  <2>3. /\ Spent' = Spent /\ Ending' = Ending
        /\ Said(final)' = Said(final) /\ Said(result)' = Said(result)
    BY <2>1 DEF Spent, Ending, Said
  <2>4. ASSUME NEW some, registered' = registered \cup some PROVE Contract!Bring(some)
    BY <2>1, <2>3, <2>4 DEF Contract!Bring
  <2> QED
    BY <2>1, <2>2, <2>4 DEF Contract!Next
<1>8. CASE TimePasses
  <2>1. /\ ~expired /\ expired' = TRUE
        /\ UNCHANGED <<registered, attempts, retries, final, cancellation, worker, result>>
    BY <1>8 DEF TimePasses, Tick, built
  <2>2. /\ Spent' = Spent /\ Ending' = Ending
        /\ Said(final)' = Said(final) /\ Said(result)' = Said(result)
    BY <2>1 DEF Spent, Ending, Said
  <2>3. Contract!Expire
    BY <2>1, <2>2 DEF Contract!Expire
  <2> QED
    BY <2>3 DEF Contract!Next
<1> QED
  BY <1>1, <1>2, <1>3, <1>4, <1>5, <1>6, <1>7, <1>8, EndSteps, ClientSteps, UnseenStutters
     DEF Next, AgentStep, WorkerStep

\* A run with its loop and its worker, and a session an outside client drives,
\* implement the contract of a strategy: no call is let through late, over the
\* budget or after the end, how a session ended never changes, and what is
\* delivered is the accepted answer or a failure that cites nothing, whatever an
\* orphaned worker does (strategy_adapter.py, diagnostic_agent.py _result).
THEOREM RunImplementsContract == Spec => ImplementsContract
<1>1. Init => Contract!Init
  <2> SUFFICES ASSUME Init PROVE Contract!Init
    OBVIOUS
  <2>1. SessionInit /\ worker.at # "dispatch" /\ result = NoResult
    BY DEF Init, RunStateInit, Idle
  <2>2. Spent = 0
    BY <2>1, SessionAssumption DEF SessionInit, Spent
  <2>3. Ending = "open" /\ Said(final) = Contract!Nothing /\ Said(result) = Contract!Nothing
    BY <2>1 DEF SessionInit, Ending, Said, NoAnswer, NoResult, Contract!Nothing
  <2> QED
    BY <2>1, <2>2, <2>3 DEF SessionInit, Contract!Init
<1>2. Init => FailureInv
  BY DEF Init, RunStateInit, FailureInv, NoAnswer, NoSnap
<1>3. IInv /\ FailureInv /\ [Next]_vars => FailureInv'
  BY FailureKept DEF IInv
<1>4. IInv /\ FailureInv /\ [Next]_vars => [Contract!Next]_(Contract!vars)
  BY ContractStep, RunAssumption, SessionAssumption DEF IInv
<1> QED
  BY <1>1, <1>2, <1>3, <1>4, Invariance, PTL DEF Spec, ImplementsContract, Contract!Spec
=============================================================================
