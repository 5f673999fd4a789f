-------------------------------- MODULE Planner --------------------------------
(***************************************************************************)
(* A run of the planner strategy (evidence_planner.py, planner_agent.py).  *)
(* The model declares each call before it is made and closes each          *)
(* obligation the calls leave; the controller judges the declarations and  *)
(* keeps the ledger of obligations; the runner archives records, calls,    *)
(* declarations and obligations side by side.                              *)
(*                                                                         *)
(* As in DiagnosisRun, loop and worker thread are two processes: a timeout *)
(* does not stop the worker, which goes on with its call, its declaration  *)
(* or its submission while the loop builds the result.                     *)
(***************************************************************************)
EXTENDS StrategySession, Sequences

CONSTANTS
  Obligations, \* calls, by tool and all of their arguments
  Yields,      \* [Obligations -> sets of records an answer may consist of]
  MaxRefusals  \* bound: refused declarations a run is followed for

ASSUME PlannerAssumption ==
  /\ Yields \in [Obligations -> SUBSET SUBSET Evidence]
  /\ MaxRefusals \in Nat

VARIABLES
  loop,        \* where the event loop is
  reason,      \* why the run is being ended without an answer, or "none"
  outRetries,  \* output retries spent
  worker,      \* the worker thread's job
  obligations, \* the controller's ledger
  steps,       \* the controller's record of executed steps
  refusals,    \* refused declarations
  receipts,    \* accepted receipts of the session
  closures,    \* accepted closures the model was told of
  kept,        \* the accepted submission, or NoAnswer
  snap,        \* what _result has read so far
  result       \* what diagnose returned, or NoResult

controller == <<obligations, steps, refusals, closures>>
vars == <<session, loop, reason, outRetries, worker, controller, receipts, kept, snap, result>>

LoopStates ==
  {"start", "model", "tool", "validate", "terminal", "records", "steps", "turns", "state",
   "check", "done", "raised"}

ErrorReasons ==
  {"MODEL_TIMEOUT", "MODEL_REQUEST_LIMIT", "MODEL_PROTOCOL_ERROR",
   "MODEL_OUTPUT_RETRY_EXHAUSTED", "MODEL_RUNTIME_ERROR"}

\* An obligation: its status, whether its last call was accepted and what that
\* call returned, and the evidence it was closed with.
Unplanned == [status |-> "NONE", accepted |-> FALSE, last |-> {}, with |-> {}]

Idle     == [at |-> "idle", about |-> {}, outcome |-> "none", cites |-> {},
             accepted |-> FALSE, evidence |-> {}, answer |-> NoAnswer]
NoSnap   == [verdict |-> NoAnswer, records |-> {}, steps |-> <<>>, closures |-> {},
             satisfied |-> {}]
NoResult == [snap |-> NoSnap, summary |-> "none"]
Failure  == [status |-> "MODEL_ERROR", cited |-> {}, sound |-> TRUE]

Contract ==
  INSTANCE StrategyContract WITH
    known <- registered, spent <- Spent, strikes <- retries, late <- expired,
    inFlight <- IF worker.at = "dispatch" THEN 1 ELSE 0,
    ending <- Ending, answer <- Said(final), delivered <- Said(result.snap.verdict)

Init ==
  /\ SessionInit
  /\ loop = "start"
  /\ reason = "none"
  /\ outRetries = 0
  /\ worker = Idle
  /\ obligations = [o \in Obligations |-> Unplanned]
  /\ steps = <<>>
  /\ refusals = 0
  /\ receipts = 0
  /\ closures = {}
  /\ kept = NoAnswer
  /\ snap = NoSnap
  /\ result = NoResult

-----------------------------------------------------------------------------
(* The agent                                                               *)

Fail(why) ==
  /\ loop' = "terminal"
  /\ reason' = why

\* The agent is assembled inside the guarded part.
Construct ==
  /\ loop = "start"
  /\ \/ loop' = "model" /\ UNCHANGED reason
     \/ Fail("MODEL_RUNTIME_ERROR")
  /\ UNCHANGED <<session, outRetries, worker, controller, receipts, kept, snap, result>>

\* The model calls one of the two action tools or the output tool.
Hand(state, job) ==
  /\ loop = "model"
  /\ worker = Idle
  /\ loop' = state
  /\ worker' = job
  /\ UNCHANGED <<session, reason, outRetries, controller, receipts, kept, snap, result>>

AskStep(o) == refusals < MaxRefusals /\ Hand("tool", [Idle EXCEPT !.at = "plan", !.about = {o}])

AskClose(o, outcome, cites) ==
  /\ refusals < MaxRefusals
  /\ Hand("tool", [Idle EXCEPT !.at = "close", !.about = {o}, !.outcome = outcome, !.cites = cites])

AskSubmit(a) == Hand("validate", [Idle EXCEPT !.at = "judge", !.answer = a])

\* A refused output asks the model again while the retry budget lasts.
RetryOutput(why) ==
  IF outRetries < OutputRetryLimit
  THEN outRetries' = outRetries + 1 /\ loop' = "model" /\ UNCHANGED reason
  ELSE Fail(why) /\ UNCHANGED outRetries

\* A response that is none of the three tools, or does not fit their schemas;
\* the reason depends on whether a gate refused the submission before it.
Garbage ==
  /\ loop = "model"
  /\ \/ RetryOutput("MODEL_PROTOCOL_ERROR")
     \/ RetryOutput("MODEL_OUTPUT_RETRY_EXHAUSTED")
  /\ UNCHANGED <<session, worker, controller, receipts, kept, snap, result>>

\* The request limit, a protocol failure or any other exception of the agent.
Stopped ==
  /\ loop = "model"
  /\ \E why \in ErrorReasons \ {"MODEL_TIMEOUT"} : Fail(why)
  /\ UNCHANGED <<session, outRetries, worker, controller, receipts, kept, snap, result>>

\* The run's timeout is as long as the session's deadline and starts after it.
Timeout ==
  /\ loop \in {"model", "tool", "validate"}
  /\ expired
  /\ Fail("MODEL_TIMEOUT")
  /\ UNCHANGED <<session, outRetries, worker, controller, receipts, kept, snap, result>>

-----------------------------------------------------------------------------
(* The worker: plan_step                                                   *)

ToolDone ==
  /\ worker' = Idle
  /\ loop' = IF loop = "tool" THEN "model" ELSE loop

\* Variant: the refusal budget is not looked at.
EntryCodeUnbudgeted ==
  IF Closed THEN "PLAN_SESSION_CLOSED"
  ELSE IF expired THEN "PLAN_DEADLINE_EXCEEDED" ELSE "NONE"

\* The checks before any rule of an operation.
EntryCode ==
  IF Closed THEN "PLAN_SESSION_CLOSED"
  ELSE IF expired THEN "PLAN_DEADLINE_EXCEEDED"
  ELSE IF refusals >= OutputRetryLimit THEN "PLAN_OUTPUT_RETRY_EXHAUSTED"
  ELSE "NONE"

\* An operation over the refusal budget is blocked and not counted again.
Refuse(code) ==
  refusals' = IF code = "PLAN_OUTPUT_RETRY_EXHAUSTED" THEN refusals ELSE refusals + 1

\* Variant: a closed obligation may be planned again.
StepCodeReplanned(o, malformed) ==
  IF EntryCode # "NONE" THEN EntryCode
  ELSE IF malformed THEN "PLAN_ARGUMENTS_INVALID"
  ELSE IF attempts >= ToolCallLimit THEN "PLAN_TOOL_BUDGET_EXHAUSTED"
  ELSE "NONE"

\* A malformed step names no granted tool, the wrong arguments or another run.
StepCode(o, malformed) ==
  IF EntryCode # "NONE" THEN EntryCode
  ELSE IF malformed THEN "PLAN_ARGUMENTS_INVALID"
  ELSE IF obligations[o].status \notin {"NONE", "OPEN"} THEN "PLAN_OBLIGATION_CLOSED"
  ELSE IF attempts >= ToolCallLimit THEN "PLAN_TOOL_BUDGET_EXHAUSTED"
  ELSE "NONE"

\* A refused step leaves no obligation behind; an accepted one is executed.
PlanStep ==
  /\ worker.at = "plan"
  /\ \E o \in worker.about, malformed \in BOOLEAN :
       IF StepCode(o, malformed) = "NONE"
       THEN /\ obligations' = IF obligations[o].status = "NONE"
                              THEN [obligations EXCEPT ![o].status = "OPEN"] ELSE obligations
            /\ worker' = [worker EXCEPT !.at = "admit"]
            /\ UNCHANGED <<loop, refusals>>
       ELSE Refuse(StepCode(o, malformed)) /\ ToolDone /\ UNCHANGED obligations
  /\ UNCHANGED <<session, reason, outRetries, steps, receipts, closures, kept, snap, result>>

\* The session applies its own gates again.
Admit ==
  /\ worker.at = "admit"
  /\ PassGate("NONE")
  /\ worker' = [worker EXCEPT !.at = IF GateCode("NONE") = "NONE" THEN "dispatch" ELSE "record"]
  /\ UNCHANGED <<registered, loop, reason, outRetries, controller, receipts, kept, snap, result>>

\* The backend answers with records, or with an error.
Return ==
  /\ worker.at = "dispatch"
  /\ \/ \E o \in worker.about : \E e \in Yields[o] :
          /\ Register(e)
          /\ receipts' = receipts + 1
          /\ worker' = [worker EXCEPT !.at = "record", !.accepted = TRUE, !.evidence = e]
     \/ /\ worker' = [worker EXCEPT !.at = "record"]
        /\ UNCHANGED <<session, receipts>>
  /\ UNCHANGED <<loop, reason, outRetries, controller, kept, snap, result>>

\* Variant: only an answered call is recorded as a step.
RecordAnswered ==
  /\ worker.at = "record"
  /\ \E o \in worker.about :
       /\ obligations' = [obligations EXCEPT ![o].accepted = worker.accepted,
                                             ![o].last = worker.evidence]
       /\ steps' = IF worker.accepted
                   THEN Append(steps, [of |-> o, accepted |-> TRUE, evidence |-> worker.evidence])
                   ELSE steps
  /\ ToolDone
  /\ UNCHANGED <<session, reason, outRetries, refusals, receipts, closures, kept, snap, result>>

\* The last call of the obligation is now this one, answered or refused.
Record ==
  /\ worker.at = "record"
  /\ \E o \in worker.about :
       /\ obligations' = [obligations EXCEPT ![o].accepted = worker.accepted,
                                             ![o].last = worker.evidence]
       /\ steps' = Append(steps, [of |-> o, accepted |-> worker.accepted,
                                  evidence |-> worker.evidence])
  /\ ToolDone
  /\ UNCHANGED <<session, reason, outRetries, refusals, receipts, closures, kept, snap, result>>

-----------------------------------------------------------------------------
(* The worker: close_obligation                                            *)

\* SATISFIED must be earned by the obligation's own last call.
SatisfactionCode(o, cites) ==
  IF ~obligations[o].accepted \/ obligations[o].last = {} \/ cites = {}
  THEN "PLAN_NO_EVIDENCE_FROM_LAST_CALL"
  ELSE IF ~(cites \subseteq obligations[o].last)
  THEN "PLAN_EVIDENCE_NOT_RETURNED_BY_THIS_CALL"
  ELSE "NONE"

\* "REVOKED" comes with a public reason, "BARE" is a revocation without one and
\* "OTHER" any outcome that is not known.
CloseCode(o, outcome, cites) ==
  IF EntryCode # "NONE" THEN EntryCode
  ELSE IF outcome = "OTHER" THEN "PLAN_OUTCOME_INVALID"
  ELSE IF obligations[o].status = "NONE" THEN "PLAN_UNKNOWN_OBLIGATION"
  ELSE IF obligations[o].status # "OPEN" THEN "PLAN_OBLIGATION_CLOSED"
  ELSE IF outcome = "BARE" THEN "PLAN_REVOKE_REASON_REQUIRED"
  ELSE IF outcome = "SATISFIED" THEN SatisfactionCode(o, cites)
  ELSE "NONE"

CloseObligation ==
  /\ worker.at = "close"
  /\ \E o \in worker.about :
       IF CloseCode(o, worker.outcome, worker.cites) = "NONE"
       THEN /\ obligations' = [obligations EXCEPT
                                 ![o].status = worker.outcome,
                                 ![o].with = IF worker.outcome = "SATISFIED"
                                             THEN worker.cites ELSE {}]
            /\ worker' = [worker EXCEPT !.at = "tell"]
            /\ UNCHANGED <<loop, refusals>>
       ELSE /\ Refuse(CloseCode(o, worker.outcome, worker.cites))
            /\ ToolDone
            /\ UNCHANGED obligations
  /\ UNCHANGED <<session, reason, outRetries, steps, receipts, closures, kept, snap, result>>

\* The tool notes the turn it answers with.
Tell ==
  /\ worker.at = "tell"
  /\ closures' = closures \cup worker.about
  /\ ToolDone
  /\ UNCHANGED <<session, reason, outRetries, obligations, steps, refusals, receipts, kept,
                 snap, result>>

-----------------------------------------------------------------------------
(* The worker: validate_submission                                         *)

RefuseOutput(why) ==
  /\ worker' = Idle
  /\ IF loop = "validate" THEN RetryOutput(why) ELSE UNCHANGED <<loop, reason, outRetries>>

\* The submission gate speaks first.
Judge ==
  /\ worker.at = "judge"
  /\ \/ RefuseOutput("MODEL_OUTPUT_RETRY_EXHAUSTED")
     \/ worker' = [worker EXCEPT !.at = "hand"] /\ UNCHANGED <<loop, reason, outRetries>>
  /\ UNCHANGED <<session, controller, receipts, kept, snap, result>>

\* Then the session.
HandIn ==
  /\ worker.at = "hand"
  /\ Submit(worker.answer)
  /\ IF SubmitCode(worker.answer) = "ACCEPTED"
     THEN worker' = [worker EXCEPT !.at = "keep"] /\ UNCHANGED <<loop, reason, outRetries>>
     ELSE RefuseOutput("MODEL_PROTOCOL_ERROR")
  /\ UNCHANGED <<controller, receipts, kept, snap, result>>

\* The runner keeps what the session accepted, and the agent returns.
Keep ==
  /\ worker.at = "keep"
  /\ kept' = worker.answer
  /\ worker' = Idle
  /\ IF loop = "validate"
     THEN loop' = "records" /\ snap' = [snap EXCEPT !.verdict = worker.answer]
     ELSE UNCHANGED <<loop, snap>>
  /\ UNCHANGED <<session, reason, outRetries, controller, receipts, result>>

-----------------------------------------------------------------------------
(* The loop: from the end of the agent to the result                       *)

\* A session that has ended already is left alone.
Terminal ==
  /\ loop = "terminal"
  /\ IF Closed THEN UNCHANGED session
     ELSE Cancel(IF reason = "MODEL_TIMEOUT" THEN "STRATEGY_TIMEOUT" ELSE "RUN_FAILED")
  /\ snap' = [snap EXCEPT !.verdict = Failure]
  /\ loop' = "records"
  /\ UNCHANGED <<reason, outRetries, worker, controller, receipts, kept, result>>

Read(from, to) ==
  /\ loop = from
  /\ loop' = to
  /\ UNCHANGED <<session, reason, outRetries, worker, controller, receipts, kept, result>>

CopyRecords == Read("records", "steps") /\ snap' = [snap EXCEPT !.records = registered]
CopySteps   == Read("steps", "turns")   /\ snap' = [snap EXCEPT !.steps = steps]
CopyTurns   == Read("turns", "state")   /\ snap' = [snap EXCEPT !.closures = closures]
CopyState   == Read("state", "check")   /\ snap' =
  [snap EXCEPT !.satisfied = {o \in Obligations : obligations[o].status = "SATISFIED"}]

Accepted(record) == {i \in DOMAIN record : record[i].accepted}

\* The counters are read last and must agree with the copied steps; the
\* exception this raises otherwise leaves diagnose.
Check ==
  /\ loop = "check"
  /\ IF attempts = Len(snap.steps) /\ receipts = Cardinality(Accepted(snap.steps))
     THEN /\ result' = [snap |-> snap, summary |-> IF reason = "none" THEN "answer" ELSE reason]
          /\ loop' = "done"
     ELSE loop' = "raised" /\ UNCHANGED result
  /\ UNCHANGED <<session, reason, outRetries, worker, controller, receipts, kept, snap>>

-----------------------------------------------------------------------------
Outcomes == {"SATISFIED", "REVOKED", "BARE", "OTHER"}

\* Nothing here looks at the status of an answer, and one that breaks the
\* Diagnosis contract is refused whatever it says.
Submissions ==
  {a \in Answers : a.status = "CONFIRMED" /\ (a.sound \/ a.cited = {})}

AgentStep ==
  \/ Construct
  \/ \E o \in Obligations : AskStep(o)
  \/ \E o \in Obligations, outcome \in Outcomes :
       \E cites \in IF outcome = "SATISFIED" THEN SUBSET registered ELSE {{}} :
         AskClose(o, outcome, cites)
  \/ \E a \in Submissions : AskSubmit(a)
  \/ Garbage
  \/ Stopped

WorkerStep ==
  \/ PlanStep \/ Admit \/ Return \/ Record
  \/ CloseObligation \/ Tell
  \/ Judge \/ HandIn \/ Keep

EndStep == Terminal \/ CopyRecords \/ CopySteps \/ CopyTurns \/ CopyState \/ Check

TimePasses ==
  /\ Tick
  /\ UNCHANGED <<loop, reason, outRetries, worker, controller, receipts, kept, snap, result>>

Next == AgentStep \/ WorkerStep \/ EndStep \/ Timeout \/ TimePasses

Spec == Init /\ [][Next]_vars

-----------------------------------------------------------------------------
(* Properties                                                              *)

\* A planner run promises its caller what StrategyContract says, as a run of
\* DiagnosisRun does: a late tool answer, a submission that is accepted after the
\* timeout and the four readings change nothing of it.
ImplementsContract == Contract!Spec

\* What was closed stays closed: no later step plans the obligation again, changes
\* what it was closed with, or records another call for it.
ClosedStays ==
  [][\A o \in Obligations :
       obligations[o].status \in {"SATISFIED", "REVOKED"} =>
         /\ obligations'[o] = obligations[o]
         /\ \A i \in DOMAIN steps' \ DOMAIN steps : steps'[i].of # o]_vars

Finished == loop \in {"done", "raised"}

\* An obligation is only ever SATISFIED by the last call made for it: that call
\* was answered, returned all the evidence it was closed with, and nothing was
\* executed for it since - whatever was asked for it in between, and also when a
\* worker outlives its run.
SatisfiedIsWitnessed ==
  \A o \in Obligations : obligations[o].status = "SATISFIED" =>
    \E i \in DOMAIN steps :
      /\ steps[i].of = o
      /\ steps[i].accepted
      /\ obligations[o].with # {}
      /\ obligations[o].with \subseteq steps[i].evidence
      /\ \A j \in DOMAIN steps : steps[j].of = o => j <= i

\* The controller refuses a step before the session's own budget would, and
\* while the session is open it never counts more refusals than it may.
PlanStaysInBudget ==
  /\ attempts <= ToolCallLimit
  /\ ~Closed /\ ~expired => refusals <= OutputRetryLimit

\* A run the agent ended with an answer is always delivered, as the session
\* holds it, and its archive can be checked by itself: the records cover what it
\* cites, every obligation it shows as satisfied has the closure the model asked
\* for, and every record was brought by one of its steps.
AnswerIsDelivered ==
  Finished /\ reason = "none" =>
    LET archive == result.snap
    IN /\ loop = "done"
       /\ archive.verdict = final
       /\ archive.verdict.cited \subseteq archive.records
       /\ archive.satisfied \subseteq archive.closures
       /\ archive.records = UNION {archive.steps[i].evidence : i \in DOMAIN archive.steps}

\* planner_agent.py: a timeout ends in a MODEL_ERROR with a fixed reason code.
TimeoutEndsInModelError ==
  Finished /\ reason = "MODEL_TIMEOUT" => loop = "done"
=============================================================================
