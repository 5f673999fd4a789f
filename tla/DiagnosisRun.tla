------------------------------ MODULE DiagnosisRun ------------------------------
(***************************************************************************)
(* One run of a model-backed strategy (diagnostic_agent.py): the event     *)
(* loop drives a model, the tools and the output validator run one at a    *)
(* time in a worker thread, and the answer leaves through the session.     *)
(*                                                                         *)
(* When the run times out the loop goes on to build a result at once; a    *)
(* worker in the middle of a tool call or of a validation is not stopped,  *)
(* and goes on changing the session, the ledger and the run state.  Loop   *)
(* and worker are therefore two processes here, and a step is what either  *)
(* does between two accesses of the state they share.                      *)
(*                                                                         *)
(* The evidence ledger is taken by what it promises: its steps are those   *)
(* of InvestigationContract, which DiagnosticKernel implements.            *)
(***************************************************************************)
EXTENDS StrategySession

CONSTANTS
  Calls,       \* tool calls the model may make; a call's evidence is its own
  RequestLimit \* DiagnosisBudget.model_request_limit

\* Every call has its record.
ASSUME RunAssumption ==
  /\ Calls = Evidence
  /\ RequestLimit \in Nat \ {0}

VARIABLES
  strategy,   \* "KERNEL", "STATIC" or, when an outside client drives the session, "EXTERNAL"
  loop,       \* where the event loop is
  reason,     \* why the run is being ended without an answer, or "none"
  requests,   \* model requests made
  outRetries, \* output retries spent
  worker,     \* the worker thread's job
  pending,    \* ledger: calls whose answer is awaited
  answered,   \* ledger: calls that brought evidence
  refused,    \* ledger: calls that brought none
  decided,    \* the kernel's verdict, or "open"
  outcome,    \* the verdict the run has kept, or NoAnswer
  successes,  \* the run's count of successful calls
  traced,     \* the successful calls its trace shows
  snap,       \* what _result has read so far
  result      \* what diagnose returned, or NoResult

ledger  == <<pending, answered, refused, decided>>
run     == <<reason, requests, outRetries>>
account == <<outcome, successes, traced>>
built   == <<snap, result>>
vars    == <<session, strategy, loop, run, worker, ledger, account, built>>

Ledger == INSTANCE InvestigationContract

Contract ==
  INSTANCE StrategyContract WITH
    known <- registered, spent <- Spent, strikes <- retries, late <- expired,
    inFlight <- IF worker.at = "dispatch" THEN 1 ELSE 0,
    ending <- Ending, answer <- Said(final), delivered <- Said(result)

LoopStates ==
  {"start", "model", "tool", "validate", "verdict", "terminate", "ask", "fail", "close",
   "build", "records", "trace", "submit", "check", "safe", "done"}
WorkerSteps ==
  {"idle", "prepare", "admit", "dispatch", "settle", "count", "trace", "judge",
   "finalize", "commit", "keep"}
ErrorReasons ==
  {"MODEL_TIMEOUT", "MODEL_REQUEST_LIMIT", "MODEL_TOOL_CALL_LIMIT", "MODEL_PROTOCOL_ERROR",
   "MODEL_OUTPUT_RETRY_EXHAUSTED", "MODEL_RUNTIME_ERROR"}

NoResult == [status |-> "none", summary |-> "none", cited |-> {}, evidence |-> {}]
NoSnap   == [verdict |-> NoAnswer, evidence |-> {}, traced |-> 0]
Idle     == [at |-> "idle", call |-> {}, decision |-> NoAnswer, good |-> FALSE]
Failure  == [status |-> "MODEL_ERROR", cited |-> {}, sound |-> TRUE]

\* The run state and the controller's ledger as a run starts with them.
RunStateInit ==
  /\ reason = "none" /\ requests = 0 /\ outRetries = 0
  /\ Ledger!Init
  /\ outcome = NoAnswer /\ successes = 0 /\ traced = 0

Init ==
  /\ SessionInit
  /\ RunStateInit
  /\ strategy \in {"KERNEL", "STATIC", "EXTERNAL"}
  /\ loop = IF strategy = "EXTERNAL" THEN "done" ELSE "start"
  /\ worker = Idle
  /\ snap = NoSnap
  /\ result = NoResult

-----------------------------------------------------------------------------
(* The agent: the loop waits for the model, a tool or the validator        *)

\* A failure before the run state exists ends in the safe terminal.
Construct ==
  /\ loop = "start"
  /\ loop' \in {"model", "safe"}
  /\ UNCHANGED <<session, strategy, run, worker, ledger, account, built>>

\* The handler a failure of the run leads to.
Fail(why) ==
  /\ loop' = "terminate"
  /\ reason' = why

\* One more request, and the model's response: a call or a decision.
Request ==
  /\ requests < RequestLimit
  /\ requests' = requests + 1

\* A response may carry several calls; they are executed one after another.
\* The SDK refuses a call once as many have succeeded as the budget allows.
AskTool(c) ==
  /\ loop = "model"
  /\ worker = Idle
  /\ \/ Request
     \/ requests > 0 /\ UNCHANGED requests
  /\ IF successes >= ToolCallLimit
     THEN Fail("MODEL_TOOL_CALL_LIMIT") /\ UNCHANGED worker
     ELSE /\ loop' = "tool"
          /\ worker' = [Idle EXCEPT !.at = "prepare", !.call = {c}]
          /\ UNCHANGED reason
  /\ UNCHANGED <<session, strategy, outRetries, ledger, account, built>>

\* What a kernel's three output tools can submit, each with the status it
\* stands for.  Only finalizing makes a diagnosis of it, and an abstention that
\* names no gap cannot become one.
KernelDecisions ==
  {d \in Answers : /\ d.status # "MODEL_ERROR"
                   /\ ~d.sound => d.status = "INSUFFICIENT_EVIDENCE"}

\* A static decision is a whole diagnosis, so it is sound.
Decisions == IF strategy = "KERNEL" THEN KernelDecisions ELSE {d \in Answers : d.sound}

AskValidation(d) ==
  /\ loop = "model"
  /\ worker = Idle
  /\ Request
  /\ loop' = "validate"
  /\ worker' = [Idle EXCEPT !.at = "judge", !.decision = d]
  /\ UNCHANGED <<session, strategy, reason, outRetries, ledger, account, built>>

\* A refused output asks the model again while the retry budget lasts.
RetryOutput(why) ==
  IF outRetries < OutputRetryLimit
  THEN outRetries' = outRetries + 1 /\ loop' = "model" /\ UNCHANGED reason
  ELSE Fail(why) /\ UNCHANGED outRetries

\* A response no tool and no output type can parse.
Garbage ==
  /\ loop = "model"
  /\ Request
  /\ \/ RetryOutput("MODEL_PROTOCOL_ERROR")
     \/ Fail("MODEL_PROTOCOL_ERROR") /\ UNCHANGED outRetries
  /\ UNCHANGED <<session, strategy, worker, ledger, account, built>>

\* The provider raises, or the request budget is spent.
Stopped ==
  /\ loop = "model"
  /\ \/ Fail("MODEL_RUNTIME_ERROR")
     \/ Fail("MODEL_PROTOCOL_ERROR")
     \/ requests = RequestLimit /\ Fail("MODEL_REQUEST_LIMIT")
  /\ UNCHANGED <<session, strategy, requests, outRetries, worker, ledger, account, built>>

\* Variant: the timeout does not cover the tools.
InAgentRunNoTools == {"model", "validate"}

\* asyncio.timeout fires wherever the loop awaits.  It is as long as the
\* session's deadline and starts after it, so the session has expired before.
InAgentRun == {"model", "tool", "validate"}

Timeout ==
  /\ loop \in InAgentRun
  /\ expired
  /\ Fail("MODEL_TIMEOUT")
  /\ UNCHANGED <<session, strategy, requests, outRetries, worker, ledger, account, built>>

-----------------------------------------------------------------------------
(* The worker: _execute_evidence                                           *)

\* The job is over: the loop, if it still waits, asks the model again.
ToolDone ==
  /\ worker' = Idle
  /\ loop' = IF loop = "tool" THEN "model" ELSE loop

\* Variant: a call is only counted in the ledger once it is answered.
PrepareUncounted ==
  /\ worker.at = "prepare"
  /\ worker' = [worker EXCEPT !.at = "admit"]
  /\ UNCHANGED <<session, strategy, loop, run, ledger, account, built>>

\* The adapter refuses the call (with or without counting it), or prepares it.
Prepare ==
  /\ worker.at = "prepare"
  /\ \/ /\ \E c \in worker.call : Ledger!Try(c)
        /\ IF pending' = pending THEN ToolDone
           ELSE worker' = [worker EXCEPT !.at = "admit"] /\ UNCHANGED loop
     \/ ToolDone /\ UNCHANGED ledger
  /\ UNCHANGED <<session, strategy, run, account, built>>

\* The facade takes the call to the session's gate.
Admit ==
  /\ worker.at = "admit"
  /\ PassGate("NONE")
  /\ worker' = [worker EXCEPT !.at = IF GateCode("NONE") = "NONE" THEN "dispatch" ELSE "settle"]
  /\ UNCHANGED <<registered, strategy, loop, run, ledger, account, built>>

\* Variant: the facade hands the record on without registering it.
ReturnUnregistered ==
  /\ worker.at = "dispatch"
  /\ UNCHANGED session
  /\ \E good \in BOOLEAN : worker' = [worker EXCEPT !.at = "settle", !.good = good]
  /\ UNCHANGED <<strategy, loop, run, ledger, account, built>>

\* The backend answers: with the call's record, or with an error.
Return ==
  /\ worker.at = "dispatch"
  /\ \/ Register(worker.call) /\ worker' = [worker EXCEPT !.at = "settle", !.good = TRUE]
     \/ UNCHANGED session /\ worker' = [worker EXCEPT !.at = "settle"]
  /\ UNCHANGED <<strategy, loop, run, ledger, account, built>>

\* The adapter accepts the answer, or rejects it (also one it finds foreign).
Settle ==
  /\ worker.at = "settle"
  /\ \E c \in worker.call : Ledger!Settle(c)
  /\ answered' # answered => worker.good
  /\ IF answered' # answered THEN worker' = [worker EXCEPT !.at = "count"] /\ UNCHANGED loop
                             ELSE ToolDone
  /\ UNCHANGED <<session, strategy, run, account, built>>

Count ==
  /\ worker.at = "count"
  /\ successes' = successes + 1
  /\ worker' = [worker EXCEPT !.at = "trace"]
  /\ UNCHANGED <<session, strategy, loop, run, ledger, outcome, traced, built>>

Trace ==
  /\ worker.at = "trace"
  /\ traced' = traced + 1
  /\ ToolDone
  /\ UNCHANGED <<session, strategy, run, ledger, outcome, successes, built>>

-----------------------------------------------------------------------------
(* The worker: validate_output                                             *)

\* The validator raises ModelRetry; the loop, if it still waits, counts it.
Refuse(why) ==
  /\ worker' = Idle
  /\ IF loop = "validate" THEN RetryOutput(why) ELSE UNCHANGED <<loop, reason, outRetries>>

\* A submission gate refuses, or the decision is not one this run can take; a
\* static decision may not claim a failure or cite evidence it has not seen.
Judge ==
  /\ worker.at = "judge"
  /\ \/ Refuse("MODEL_OUTPUT_RETRY_EXHAUSTED")
     \/ Refuse("MODEL_PROTOCOL_ERROR")
     \/ /\ strategy = "STATIC" => /\ worker.decision.status # "MODEL_ERROR"
                                  /\ worker.decision.cited \subseteq answered
        /\ worker' = [worker EXCEPT !.at = IF strategy = "KERNEL" THEN "finalize" ELSE "keep"]
        /\ UNCHANGED <<loop, reason, outRetries>>
  /\ UNCHANGED <<session, strategy, requests, ledger, account, built>>

\* finalize looks at the kernel first.  A confirmation cites every record.
Finalize ==
  /\ worker.at = "finalize"
  /\ \/ /\ Ledger!MayDecide(worker.decision.status)
        /\ worker.decision.cited \subseteq answered
        /\ worker.decision.status = "CONFIRMED" => worker.decision.cited = answered
        /\ worker' = [worker EXCEPT !.at = "commit"]
        /\ UNCHANGED <<loop, reason, outRetries>>
     \/ Refuse("MODEL_PROTOCOL_ERROR")
  /\ UNCHANGED <<session, strategy, requests, ledger, account, built>>

\* It commits without looking again: the loop may have failed the kernel since.
\* An abstention is committed before the refused calls are turned into
\* declarations, and one that named a blank subject cannot be; a ValidationError
\* then leaves a kernel that is final and a run that has kept nothing.
Commit ==
  /\ worker.at = "commit"
  /\ decided' = worker.decision.status
  /\ \/ /\ worker' = [worker EXCEPT !.at = "keep"]
        /\ UNCHANGED <<loop, reason, outRetries>>
     \/ /\ worker.decision.status = "INSUFFICIENT_EVIDENCE" /\ refused # {}
        /\ \/ Refuse("MODEL_PROTOCOL_ERROR")
           \/ /\ worker' = Idle
              /\ IF loop = "validate" THEN Fail("MODEL_PROTOCOL_ERROR")
                                      ELSE UNCHANGED <<loop, reason>>
              /\ UNCHANGED outRetries
  /\ UNCHANGED <<session, strategy, requests, pending, answered, refused, account, built>>

\* Only then does the run keep what finalize returned.
Keep ==
  /\ worker.at = "keep"
  /\ outcome' = worker.decision
  /\ worker' = Idle
  /\ loop' = IF loop = "validate" THEN "verdict" ELSE loop
  /\ UNCHANGED <<session, strategy, run, ledger, successes, traced, built>>

-----------------------------------------------------------------------------
(* The loop: from the verdict or the failure to the result                 *)

\* agent.run returned with an outcome.
Verdict ==
  /\ loop = "verdict"
  /\ loop' = "build"
  /\ UNCHANGED <<session, strategy, run, worker, ledger, account, built>>

\* A verdict the worker has kept meanwhile stands.
Terminate ==
  /\ loop = "terminate"
  /\ loop' = IF outcome = NoAnswer THEN "ask" ELSE "close"
  /\ UNCHANGED <<session, strategy, run, worker, ledger, account, built>>

\* Otherwise the kernel is asked, and when it was finalized without the run
\* keeping the verdict, terminate_model_error raises and the handler with it.
AskKernel ==
  /\ loop = "ask"
  /\ loop' = IF strategy = "KERNEL" /\ decided # "open" THEN "safe" ELSE "fail"
  /\ UNCHANGED <<session, strategy, run, worker, ledger, account, built>>

FailRun ==
  /\ loop = "fail"
  /\ outcome' = Failure
  /\ decided' = IF strategy = "KERNEL" THEN "MODEL_ERROR" ELSE decided
  /\ loop' = "close"
  /\ UNCHANGED <<session, strategy, run, worker, pending, answered, refused, successes,
                 traced, built>>

\* _close_session: a session that ended already is left alone.
CloseFor(why) == IF Closed THEN UNCHANGED session ELSE Cancel(why)

Close ==
  /\ loop = "close"
  /\ CloseFor(IF reason = "MODEL_TIMEOUT" THEN "STRATEGY_TIMEOUT" ELSE "RUN_FAILED")
  /\ loop' = "build"
  /\ UNCHANGED <<strategy, run, worker, ledger, account, built>>

\* An exception inside _result: the first one starts the failure handler, one
\* raised inside the handler escapes it.
Raise(why) ==
  IF reason = "none" THEN Fail(why) ELSE loop' = "safe" /\ UNCHANGED reason

\* _result makes a diagnosis of the verdict ...
Build ==
  /\ loop = "build"
  /\ snap' = [NoSnap EXCEPT !.verdict = outcome]
  /\ IF outcome.sound THEN loop' = "records" /\ UNCHANGED reason
                      ELSE Raise("MODEL_PROTOCOL_ERROR")
  /\ UNCHANGED <<session, strategy, requests, outRetries, worker, ledger, account, result>>

\* ... then copies the records ...
CopyRecords ==
  /\ loop = "records"
  /\ snap' = [snap EXCEPT !.evidence = answered]
  /\ loop' = "trace"
  /\ UNCHANGED <<session, strategy, run, worker, ledger, account, result>>

\* ... then the trace ...
CopyTrace ==
  /\ loop = "trace"
  /\ snap' = [snap EXCEPT !.traced = traced]
  /\ loop' = "submit"
  /\ UNCHANGED <<session, strategy, run, worker, ledger, account, result>>

\* Variant: the receipt of the submission is not looked at.
SubmitVerdictUnchecked ==
  /\ loop = "submit"
  /\ IF snap.verdict.status = "MODEL_ERROR" THEN CloseFor("RUN_FAILED") ELSE Submit(snap.verdict)
  /\ loop' = "check"
  /\ UNCHANGED <<strategy, run, worker, ledger, account, built>>

\* ... hands the verdict to the session, or closes it when there is none ...
SubmitVerdict ==
  /\ loop = "submit"
  /\ IF snap.verdict.status = "MODEL_ERROR"
     THEN CloseFor("RUN_FAILED") /\ loop' = "check" /\ UNCHANGED reason
     ELSE /\ Submit(snap.verdict)
          /\ IF SubmitCode(snap.verdict) = "ACCEPTED"
             THEN loop' = "check" /\ UNCHANGED reason
             ELSE Raise("MODEL_RUNTIME_ERROR")
  /\ UNCHANGED <<strategy, requests, outRetries, worker, ledger, account, built>>

\* ... and only now reads the counters, which must agree with the copied trace.
Check ==
  /\ loop = "check"
  /\ IF successes = snap.traced
     THEN /\ result' = [status   |-> snap.verdict.status,
                        summary  |-> IF snap.verdict.status = "MODEL_ERROR" THEN reason ELSE "answer",
                        cited    |-> snap.verdict.cited,
                        evidence |-> snap.evidence]
          /\ loop' = "done"
          /\ UNCHANGED reason
     ELSE Raise("MODEL_PROTOCOL_ERROR") /\ UNCHANGED result
  /\ UNCHANGED <<session, strategy, requests, outRetries, worker, ledger, account, snap>>

\* _safe_terminal_result: an empty failure, whatever was collected.
SafeTerminal ==
  /\ loop = "safe"
  /\ CloseFor("RUN_FAILED")
  /\ result' = [NoResult EXCEPT !.status = "MODEL_ERROR", !.summary = "MODEL_RUNTIME_ERROR"]
  /\ loop' = "done"
  /\ UNCHANGED <<strategy, run, worker, ledger, account, snap>>

-----------------------------------------------------------------------------
AgentStep ==
  \/ Construct
  \/ \E c \in Calls : AskTool(c)
  \/ \E d \in Decisions : AskValidation(d)
  \/ Garbage
  \/ Stopped

WorkerStep ==
  \/ Prepare \/ Admit \/ Return \/ Settle \/ Count \/ Trace
  \/ Judge \/ Finalize \/ Commit \/ Keep

\* What the loop does without waiting for anyone.
EndStep ==
  \/ Verdict \/ Terminate \/ AskKernel \/ FailRun \/ Close
  \/ Build \/ CopyRecords \/ CopyTrace \/ SubmitVerdict \/ Check \/ SafeTerminal

TimePasses == Tick /\ UNCHANGED <<strategy, loop, run, worker, ledger, account, built>>

OutsideStep ==
  /\ strategy = "EXTERNAL"
  /\ ClientStep
  /\ UNCHANGED <<strategy, loop, run, worker, ledger, account, built>>

Next == AgentStep \/ WorkerStep \/ EndStep \/ Timeout \/ TimePasses \/ OutsideStep

\* Time passes, the timeout is delivered and the loop runs on; nothing is
\* assumed of the model, of the tools' backend or of the worker thread.
Fairness ==
  /\ WF_vars(Construct)
  /\ WF_vars(EndStep)
  /\ WF_vars(TimePasses)
  /\ WF_vars(Timeout)

Spec     == Init /\ [][Next]_vars
FairSpec == Spec /\ Fairness

-----------------------------------------------------------------------------
(* Properties                                                              *)

\* A run promises its caller what StrategyContract says, with a worker or
\* without, and so does a session an outside client drives.
ImplementsContract == Contract!Spec

Jobs ==
  [at : WorkerSteps, call : {{}} \cup {{c} : c \in Calls},
   decision : Answers \cup {NoAnswer}, good : BOOLEAN]

\* Every variable keeps its kind of value; the budgets bound the counters.
TypeOK ==
  /\ registered \subseteq Evidence
  /\ attempts \in Nat
  /\ granted \in 0..ModelRequestLimit
  /\ retries \in 0..OutputRetryLimit
  /\ final \in Answers \cup {NoAnswer}
  /\ cancellation \in Reasons \cup {"none"}
  /\ expired \in BOOLEAN
  /\ strategy \in {"KERNEL", "STATIC", "EXTERNAL"}
  /\ loop \in LoopStates
  /\ reason \in ErrorReasons \cup {"none"}
  /\ requests \in 0..RequestLimit
  /\ outRetries \in 0..OutputRetryLimit
  /\ worker \in Jobs
  /\ pending \subseteq Calls /\ answered \subseteq Calls /\ refused \subseteq Calls
  /\ decided \in Statuses \cup {"open"}
  /\ outcome \in Answers \cup {NoAnswer}
  /\ successes \in Nat /\ traced \in Nat
  /\ snap \in [verdict : Answers \cup {NoAnswer}, evidence : SUBSET Calls, traced : Nat]
  /\ result.status \in Statuses \cup {"none"}

Finished == result # NoResult

\* What diagnose returned and how its session ended agree: a verdict was
\* accepted by the session in exactly that form, a MODEL_ERROR left the session
\* cancelled and without an answer - whatever the orphaned worker did meanwhile.
ResultMatchesSession ==
  Finished =>
    IF result.status = "MODEL_ERROR"
    THEN final = NoAnswer /\ cancellation # "none"
    ELSE /\ cancellation = "none"
         /\ final.status = result.status
         /\ final.cited = result.cited
         /\ result.cited \subseteq result.evidence

\* A verdict the run has kept never cites a record the session does not know, so
\* the session cannot refuse a built-in runner's citations and no submission
\* costs it a retry, although ledger and session are written in separate steps.
VerdictCitesRegistered ==
  strategy # "EXTERNAL" =>
    /\ outcome.cited \subseteq answered
    /\ answered \subseteq registered
    /\ loop = "submit" => SubmitCode(snap.verdict) # "EVIDENCE_NOT_REGISTERED"

\* The ledger counts a call before the session does, so a built-in runner is
\* never the one the session's tool budget stops, not even through a worker
\* that outlived its run.
BudgetsAgree ==
  strategy # "EXTERNAL" =>
    /\ attempts <= Cardinality(Ledger!attempts)
    /\ Cardinality(Ledger!attempts) <= ToolCallLimit

\* diagnose has its result whatever the model, the backend and the worker do: with
\* a model that never answers, a tool that hangs and a validator that never ends.
\* Only the closing of an owned model client comes after it.
ReturnsEventually == strategy # "EXTERNAL" ~> Finished
=============================================================================
