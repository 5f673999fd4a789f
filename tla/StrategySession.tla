----------------------------- MODULE StrategySession -----------------------------
(***************************************************************************)
(* The harness side of the strategy protocol (strategy_adapter.py): the    *)
(* only door to a run.  A session counts tool attempts, registers the      *)
(* evidence they bring, grants model requests, and ends in one of two      *)
(* ways: an accepted answer or a cancellation.                             *)
(*                                                                         *)
(* A built-in runner calls it through a facade from a worker thread, so a  *)
(* tool call is two steps, its gate and its answer; everything else is one *)
(* step.  An MCP client's calls are serialized by the gateway's lock and   *)
(* answered inside it, so they are one step each (ClientCall).             *)
(***************************************************************************)
EXTENDS Integers, FiniteSets

CONSTANTS
  Evidence,          \* evidence records, by the hash of their content
  ToolCallLimit,     \* ProtocolBudget.tool_call_limit
  ModelRequestLimit, \* ProtocolBudget.model_request_limit
  OutputRetryLimit,  \* ProtocolBudget.output_retry_limit
  MaxAttempts        \* bound: attempts an outside client is followed for

ASSUME SessionAssumption ==
  /\ ToolCallLimit \in Nat \ {0}
  /\ ModelRequestLimit \in Nat \ {0}
  /\ OutputRetryLimit \in Nat
  /\ MaxAttempts \in Nat

VARIABLES
  registered,   \* evidence some call of this session returned
  attempts,     \* tool calls counted against the budget
  granted,      \* model requests an outside client has drawn
  retries,      \* refused submissions counted against the budget
  final,        \* the accepted answer, or NoAnswer
  cancellation, \* the reason the session was cancelled for, or "none"
  expired       \* the clock has passed the session's deadline

session == <<registered, attempts, granted, retries, final, cancellation, expired>>

Statuses == {"CONFIRMED", "NO_INCIDENT", "INSUFFICIENT_EVIDENCE", "MODEL_ERROR"}
Reasons  == {"STRATEGY_TIMEOUT", "RUN_FAILED", "OPERATOR"}

\* An answer: its status, the evidence it cites, and whether its parts satisfy
\* the Diagnosis contract.
Answers  == [status : Statuses, cited : SUBSET Evidence, sound : BOOLEAN]
NoAnswer == [status |-> "none", cited |-> {}, sound |-> FALSE]

\* What may be wrong with a request, whoever sends it.
Faults == {"NONE", "UNKNOWN_TOOL", "TOOL_NOT_ALLOWLISTED", "TOOL_ARGUMENT_INVALID"}

SessionInit ==
  /\ registered = {}
  /\ attempts = 0
  /\ granted = 0
  /\ retries = 0
  /\ final = NoAnswer
  /\ cancellation = "none"
  /\ expired = FALSE

Closed == final # NoAnswer \/ cancellation # "none"

\* What StrategyContract sees of a session: a call over the budget, which is
\* counted and refused, uses nothing up.
Spent == IF attempts < ToolCallLimit THEN attempts ELSE ToolCallLimit

Ending ==
  IF final # NoAnswer THEN "answered" ELSE IF cancellation # "none" THEN "cancelled" ELSE "open"

Said(answer) == [status |-> answer.status, cited |-> answer.cited]

-----------------------------------------------------------------------------
(* Tool calls                                                              *)

\* The gates in the order call_tool applies them; "NONE" lets the call through.
GateCode(fault) ==
  IF Closed THEN "SESSION_CLOSED"
  ELSE IF expired THEN "DEADLINE_EXCEEDED"
  ELSE IF fault \in {"UNKNOWN_TOOL", "TOOL_NOT_ALLOWLISTED"} THEN fault
  ELSE IF attempts >= ToolCallLimit THEN "TOOL_BUDGET_EXHAUSTED"
  ELSE fault

Uncounted == {"SESSION_CLOSED", "DEADLINE_EXCEEDED", "UNKNOWN_TOOL", "TOOL_NOT_ALLOWLISTED"}

\* The gate's own effect: it counts the attempt, over the budget or not.
PassGate(fault) ==
  /\ attempts' = IF GateCode(fault) \in Uncounted THEN attempts ELSE attempts + 1
  /\ UNCHANGED <<granted, retries, final, cancellation, expired>>

\* The backend's answer is registered whatever became of the session meanwhile:
\* nothing is looked at again after the dispatch.
Register(evidence) ==
  /\ registered' = registered \cup evidence
  /\ UNCHANGED <<attempts, granted, retries, final, cancellation, expired>>

-----------------------------------------------------------------------------
(* Answering and leaving                                                   *)

SubmitCode(answer) ==
  IF cancellation # "none" THEN "SESSION_CLOSED"
  ELSE IF final # NoAnswer THEN "SUBMISSION_ALREADY_FINAL"
  ELSE IF expired THEN "DEADLINE_EXCEEDED"
  ELSE IF retries >= OutputRetryLimit THEN "OUTPUT_RETRY_EXHAUSTED"
  ELSE IF ~(answer.cited \subseteq registered) THEN "EVIDENCE_NOT_REGISTERED"
  ELSE IF ~answer.sound THEN "SUBMISSION_INVALID"
  ELSE "ACCEPTED"

\* Only a submission that was judged costs a retry.
Submit(answer) ==
  /\ final' = IF SubmitCode(answer) = "ACCEPTED" THEN answer ELSE final
  /\ retries' = IF SubmitCode(answer) \in {"EVIDENCE_NOT_REGISTERED", "SUBMISSION_INVALID"}
                THEN retries + 1 ELSE retries
  /\ UNCHANGED <<registered, attempts, granted, cancellation, expired>>

\* A second cancellation overwrites the reason of the first.
Cancel(reason) ==
  /\ final = NoAnswer
  /\ cancellation' = reason
  /\ UNCHANGED <<registered, attempts, granted, retries, final, expired>>

AcquireModelRequest ==
  /\ ~Closed
  /\ ~expired
  /\ granted < ModelRequestLimit
  /\ granted' = granted + 1
  /\ UNCHANGED <<registered, attempts, retries, final, cancellation, expired>>

\* Time passes the deadline, which runs from the session's opening.
Tick ==
  /\ ~expired
  /\ expired' = TRUE
  /\ UNCHANGED <<registered, attempts, granted, retries, final, cancellation>>

-----------------------------------------------------------------------------
(* An outside client behind the gateway                                    *)

\* One call under the gateway's lock: a refusal, or an answer the backend gave
\* (possibly no evidence at all, when it failed).
ClientCall(fault, evidence) ==
  /\ attempts < MaxAttempts
  /\ PassGate(fault)
  /\ registered' = IF GateCode(fault) = "NONE" THEN registered \cup evidence ELSE registered

\* The harness hands in the client's answer, which may cite what it never saw.
ClientSubmit(answer) == Submit(answer)

ClientStep ==
  \/ \E fault \in Faults, evidence \in {{}} \cup {{e} : e \in Evidence} :
       ClientCall(fault, evidence)
  \/ AcquireModelRequest
  \/ \E answer \in Answers : ClientSubmit(answer)
  \/ \E reason \in Reasons : Cancel(reason)
=============================================================================
