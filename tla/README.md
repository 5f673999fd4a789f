# TLA+ models of DataIncidentGym

DataIncidentGym breaks a small dbt warehouse in a known way, lets an agent with
read-only tools diagnose it, restores the warehouse, and scores the diagnosis with a
deterministic evaluator. Formal suites run 106 or 108 such evaluations once each, over
hours, in processes that may be interrupted. The value of a published score rests on
bookkeeping that is hard to test: what a crash leaves behind, what a late answer may
change, which evidence a verdict may rest on. These modules model that bookkeeping.

Paths below are relative to `src/src/data_incident_gym/` unless they start with `src/`.

## 1. The system

    command line ── suite ── evaluation runner ── laboratory (database, run directories)
                                   │                    │
                                   │                    └── active-run pointer
                                   ├── diagnosis runner ── session ── kernel
                                   │        │                 └── evidence tools (read only)
                                   │        └── language model
                                   ├── evaluator
                                   └── artifact bundle, scoring inputs ── reports, archive

| Component | State it keeps | Operations | What makes it correct |
|---|---|---|---|
| Formal suite (`benchmark_runner.py`, `planner_probe_receipt.py`) | on disk: `.lock`, `doctor.json`, probe receipt and seal, `subset.json`, `ledger.jsonl`, artifact bundles, bundles set aside; in memory: the ledger as read, the rolling window | preflight, run: load, repair interrupted cells, pause or start a cell, record it, finish | one process at a time; a cell is evaluated once over all processes; ledger and bundles agree; a restart pauses exactly when the process it continues would have |
| Evidence kernel (`diagnostic_kernel.py`) | hypotheses, gaps, attempts, records, revision, final status | `prepare_tool`, `record_tool_result`, `record_tool_failure`, `finalize`, `terminate_model_error` | budget, every record bought by one gap, a positive verdict only over answered gaps and traced evidence, one verdict |
| Incident laboratory (`lab.py`, `lab_verifier.py`, `run_context.py`, `baseline.py`, `dbt_runner.py`) | raw tables, models, run directories, the active pointer | reset, prepare, build, verify, restore, publish and clear the pointer | a verified run shows its case; the pointer never names an unverified run or stale data |
| Evaluation runner (`evaluation_runner.py`) | an attempt's error, flags, result | one attempt with a `finally` restore | the laboratory is given back or reported; the first error survives; a passed bundle means a recovered laboratory |
| Artifact bundle, scoring inputs (`artifacts.py`, `evaluation_inputs.py`) | `artifacts/<run>`, its scoring inputs | write once, classify, export | published once, never replaced |
| Strategy session (`strategy_adapter.py`) and diagnosis runner (`diagnostic_agent.py`) | budget, deadline, retries, final diagnosis, cancelled flag | `call_tool`, `submit`, `cancel`, timeout | what is returned was submitted; nothing counts after the deadline |
| MCP gateway (`mcp_server.py`) | lock, call sequence | tool calls of concurrent clients | an ordered trace of one session |
| Planner strategy (`planner_agent.py`, `evidence_planner.py`) | obligations, executed steps, refusals, model turns | declare a call, make it, close an obligation, submit | what a plan calls satisfied was witnessed; the accepted answer is the delivered one |
| Evidence tools (`evidence_tools.py`, `evidence_batch.py`) | none; they read the live database and the sealed run | grants, batches, queries | a live reading that is no longer the sealed one is refused |
| Evaluator, submission gate (`evaluation.py`, `submission_policy.py`, `diagnostic_payment_rules.py`) | none | pure rules over records and receipts | what passes is real; the gate and the evaluator agree |
| Fixed rule, reference analyst, certification (`fixed_rule.py`, `reference_solver.py`, `scenario_certification.py`) | calls made, records | a procedure per kind of alert | right, or abstaining for a stated gap, on every case |
| Reports, reliability, archive (`benchmark_report.py`, `reliability.py`, `benchmark_archive.py`) | `summary.json`, `report.md`, archive directories | analyse, report, archive, without the suite's lock | a printed main number is the finished suite's; a sealed archive is whole |
| Offline rescoring (`evaluation_rescore.py`, `evaluation_inputs.py`) | score directories, temporary directories | score again, reuse, compare | a score once given stays, complete and true |
| Scenario catalog | declarations | validate | the mutations of a case do not obscure one another |
| Manifests, planner reports, command line, doctor, packaging | one write each | aggregation, argument parsing, probes | – |

Behaviours that are hard to get right: kills between two writes of a suite; torn or
glued ledger lines; a checkout that moves between preflight and run; tool answers in any
order and after the verdict; a restore that fails inside `finally`; a timeout that races
a tool still running in its worker thread; a command applied to data another command
left behind. `PROJECT.json` lists them one by one, under "hazards", with their lines.

## 2. Modules

| Module | Role |
|---|---|
| `BenchmarkSuite` | the suite directory and the processes that share it |
| `SuiteContract` | what a suite promises: one cell in flight, one final score, no start while the pause is due |
| `DiagnosticKernel` | the kernel, driven by an arbitrary model and arbitrary tool answers |
| `InvestigationContract` | what an investigation promises: budget, each attempt settled once, one verdict |
| `EvaluationRun` | the laboratory, its commands and the evaluation of a case |
| `EvaluationContract` | what an evaluation promises: a pass only into a recovered laboratory, a truthful report |
| `StrategySession` | budgets, gate, registration, submission and closing of a session, for the two modules below |
| `StrategyContract` | what a diagnosed run promises: calls and answers only in time and in budget, one answer, one result |
| `DiagnosisRun` | a model-backed run: event loop, worker thread and session, over the ledger `InvestigationContract` promises |
| `Planner` | a planner run: obligations, worker, session |
| `Scoring` | what the tools answer and the rules that judge a diagnosis, as operators |
| `BuiltinStrategies` | the procedures of the fixed rule and of the reference analyst, and certification |
| `ScoredRun` | a diagnosed run from its first call to its evaluation, over a database others may disturb |
| `Reliability` | pass^k and its groups |
| `SuiteArchive` | analysis, report and archive of a suite that is still running |
| `OfflineRescore` | several processes scoring one sealed run |
| `RescoreContract` | what rescoring promises: a score appears once, true, and is the one everybody is given |
| `MC...` | small instances for TLC |
| `...Proofs` | theorems and proofs |

Each detailed module instantiates its contract (`Contract == INSTANCE ... WITH ...`) and
states `ImplementsContract == Contract!Spec`. Operators and actions under a comment
that begins with "Variant" are deliberately wrong versions of the one that
follows; no specification uses them. They exist to show that each property can fail.

### 2.1 BenchmarkSuite

Every variable of the first group is a file or the checkout and survives a crash; those of
the second are the memory of a process; `attempts` and `ranAt` are history.

| Action | Code |
|---|---|
| `TakeLock`, `Release`, `ClearStaleLock` | `_ExclusiveSuiteLock.__enter__/__exit__`; removing a stale lock by hand |
| `PreflightRefused`, `PreflightDoctor`, `WriteProbe`, `SealProbe` | `preflight`: doctor receipt, planner probe receipt, its seal |
| `LoadRefused`, `LoadSuite` | `run`: receipt, subset marker and ledger under the lock |
| `PreserveInterrupted`, `ReplaceInterrupted`, `SettleInterrupted` | repair of a STARTED cell: move its bundle aside, write a setup-failure bundle, append the terminal line |
| `WindowRefused`, `DecidePause` | rebuilding the rolling window, the pause rule |
| `StartCell`, `BeginEvaluation`, `PublishEvaluation`, `EvaluationReturns`, `EvaluationRaises`, `MaterializeSetupError`, `MaterializeRefused`, `RecordTerminal` | one cell from its STARTED line to its terminal line |
| `Finish` | the result handed to the command line |
| `Abort`, `Unwind`, `AppendRaises` | an exception or an interruption; context managers run |
| `Crash`, `CrashInAppend`, `CrashInPreflight`, `CrashInMarker` | a kill between two steps or inside a write (torn line, torn marker, left-over temporary file) |
| `MoveHead` | somebody checks out another revision |

A ledger line is one element of `ledger`; `tail` says how the last append ended, because
that decides whether the next reader can read the file. The bundle of an evaluation is one
of five values, which is all the suite distinguishes. The evaluation itself is a free
choice of its bundle: `EvaluationRun` is about how it comes to be.

### 2.2 DiagnosticKernel

An action is one method call that changes state; a refused call is a stutter. `Prepare`
and `Block` are the two ways `prepare_tool` accepts an intent (a relation outside the
allow-list is recorded as a blocked gap), `Record` and `Fail` the answers, `FinalizeConfirmed`,
`FinalizeHealthy`, `FinalizeInsufficient` and `TerminateModelError` the verdicts. The
rules of evidence (`Proven`, `Admissible`, `RootSupported`, `HealthSupported`,
`DerivedUnresolved`, …) are operators named after what they decide. A call is a pair of a
gap kind and a subject, which is what its fingerprint hashes; a record stands for its
content, because its id is a hash of that content. The domain rules of payment incidents
only compare counts inside records; they are the constant operator `DomainRule`.

### 2.3 EvaluationRun

`job` is the process at work: the command it runs, the step it is at, and what it
remembers. Resets, preparations, builds and the attempt itself are sequences of steps
(`Steps`). `Raise` may end any step: a command is over, an evaluation goes to its
`finally` block, once. `Kill` ends the process between any two steps or halfway through
one (`Interim`). The raw tables are the set of mutations they show. `Obscured` says of each
mutation which others make it read as drift (`MutationState`): the schema comparison, the
row fingerprint and the value comparison of `lab.py` look at different things, so that one
mutation may obscure another without being obscured by it. `runs` are the run directories:
the public one is begun (`MakeRun`), the private one beside it made (`MakePrivate`), then
the run is captured and verified.

### 2.4 StrategySession and DiagnosisRun

The code runs a model in an event loop, and tools and the output validator in a worker
thread that a timeout does not stop. `DiagnosisRun` therefore has two processes. `loop`
is the position of the event loop in `diagnose` and `_result`, `worker` the job of the
thread; a step is what either does between two accesses of state they share.

| Action | Code |
|---|---|
| `Construct`, `AskTool`, `AskValidation`, `Garbage`, `Stopped` | the model's turn: a tool call, a final output, something unusable, a usage limit or a provider error |
| `Prepare`, `Admit`, `Return`, `Settle`, `Count`, `Trace` | one tool call in the worker: ledger, session gate, backend, session registration, ledger answer, counters, trace |
| `Judge`, `Finalize`, `Commit`, `Keep` | the output validator: its checks, what `finalize` asks of the kernel, its commit - which it makes without looking again, and after which an abstention may still be refused -, the outcome the run keeps |
| `Timeout` | the run's deadline, anywhere in the agent run |
| `Verdict`, `Terminate`, `AskKernel`, `FailRun`, `Close`, `Build`, `CopyRecords`, `CopyTrace`, `SubmitVerdict`, `Check`, `SafeTerminal` | how the loop ends: it takes the verdict, or asks the kernel and then fails it; closes the session; copies diagnosis, records and trace one after another; submits and checks the result, or falls back to an empty failure |
| `TimePasses`, `OutsideStep` | the session's clock; an outside client of the same session (the MCP adapter) |

The kernel is not copied: the ledger's steps are those of `InvestigationContract`
(`Ledger == INSTANCE InvestigationContract`), which `DiagnosticKernel` is proved to
implement. `StrategySession` holds the session's methods as operators, so that `Planner`
uses the same ones. What both runners promise whoever started them is the same too:
`StrategyContract`, which knows no threads. It sees of a session what `snapshot` tells of
it (`Spent`, `Ending`, `Said`): a call over the budget is counted by the code and uses
nothing up.

### 2.5 Planner

`obligations` is the controller's ledger, `steps` its record of executed steps,
`refusals` the refused declarations, `receipts` what the session accepted. `PlanStep`,
`Admit`, `Return`, `Record` are one declared call, `CloseObligation` and `Tell` a closure,
`Judge`, `HandIn`, `Keep` a submission; `Terminal`, `CopyRecords`, `CopySteps`, ...
`Check` are `_result`, which copies four records one after another while a worker left
behind may still change them. Refusal codes are returned in the order of the code's
early returns (`StepCode`, `CloseCode`, `SatisfactionCode`). A planner's run may report a
failure although its session holds an accepted answer - the validator left behind by a
timeout may still hand one in -, which is why a failure may be delivered of any ended
session in `StrategyContract`.

### 2.6 Scoring, BuiltinStrategies, ScoredRun

`Scoring` is about values. A record is known by tool, target and the database it was read
from; what it shows is `Shows[database]`, so every rule of the evaluator, of the gate and of
the kernel's payment rules is an operator over a set of records. The rules compare exact
counts, and so do the models. Whether the laboratory's two checks are met
(`ENVIRONMENT_VERIFIED`, `RECOVERY_HEALTHY`) is an input of the evaluation; the checks
`EVIDENCE_RUN_SCOPE`, `TOOL_ALLOWLIST_EXACT` and `TRACE_READ_ONLY_SAFE` are left out,
because every record and call here is of the one run and of a tool it was offered. A live
call is refused for its grant, for a metric the tables of the moment do not have
(`Measurable`) or for a reading that is not the sealed one (`LiveCode`).
`BuiltinStrategies` states a procedure as the sequence of
calls it wants given the records it has, and the answer it gives once they are made.
A built-in procedure is written for the repository's own scenarios; what it relies on of
them is assumed by name beside it (`AlertAssumption`, `FailedTestAssumption`,
`FailedModelAssumption`), in terms of what the sealed database shows.
`ScoredRun` puts a run around them: calls (`Ask`, `Make`, `Deny`), a database another
process replaces (`Disturb`), a gated submission (`Submit`), the answer of a built-in
strategy (`Conclude`), the evaluation (`Evaluate`). The catalogue's cases, their tables and
the lineage of the dbt project are constants of `MCScoring`. The shop's dbt project is a
git submodule that is not part of the repository; its graph is reconstructed from the
node names the scenarios, the tests and the strategies mention.

### 2.7 Reliability and SuiteArchive

The runner of `SuiteArchive` is the one of `BenchmarkSuite` without preflight and pause
(`Enter`, `SetAside`, `Replace`, `StartCell`, `Evaluate`, `Settle`, `Leave`, `KillRunner`,
`ClearStaleLock`). A clerk analyses (`ReadLedger`, `ReadRow`, `FinishAnalysis`), reports
(`CheckRecords`, `FindFile`, `WriteTemporary`, `RenameSummary`, `RenameReport`) or archives
(`BeginArchive`, `ListSuite`, `HashLedger`, `HashOthers`, `MakeArchive`, `CopyFile`,
`WriteMatrix`, `RecheckNames`, `RelistSuite`, `RehashLedger`, `SealArchive`), one file at a
time and without the lock: it lists the suite, hashes the ledger and then the other files,
copies, compares the names, and lists and hashes a second time. A digest of a file is the
file itself, a torn last line included. Two things are coarser than the code. The files
other than the ledger are hashed in one step, because each is written once, or again with
the same content; and the check of the names is one step with the first listing, since what
appears between the two is refused when the names are checked after the copy. `doctor.json`
is the suite's scope and is not a file here.

### 2.8 OfflineRescore

A score directory is named by inputs and scorer; the inputs of a run do not change, so
that the scorer's identity names it. `Reuse`, `Compare`, `Begin` and `Score` read;
`MakeTemporary`, `WriteFile`, `CheckFinal`, `Rename`, `Sweep`, `RemoveTemporary` are the
publication, one file per step; `WriteFails` (a write or the rename), `Kill`, `Damage` and
`Restore` are faults. The caller is given the score only after the sweep that follows the
rename (`Owed`), and not at all when that sweep raises: the score stands and nobody was
told. A check that kept its outcome and changed its details counts as unchanged.
`Content` says which part of a score each file repeats, which is what lets a reader
notice a mixture of two. `RescoreContract` sees of the disk the scores whose directory is
complete (`Standing`) and of the callers what they were given (`ShownTo`).

## 3. What is checked

| Run | Question |
|---|---|
| `suite` | two processes, three cells (two model-backed), a full and a partial selector, two approved revisions, window 2 of 2 |
| `planner_suite` | the planner comparison: probe receipt and seal, every cell model-backed, a revision that is not approved, window 1 of 2; and liveness |
| `kernel` | a failed run: five calls, four attempts, two in flight, four gap ids, four groups of hypotheses |
| `clean_run` | a payment rule and a run whose one run result is clean or not: a healthy and a stale history, a record of another run, queries that fail or are refused |
| `evaluation` | four scenarios, four mutations in three relations, two run ids, all commands |
| `diagnosis_run` | kernel, static and external runs; three calls, tool limit 2, one retry, three attempts; and liveness |
| `scoring` | 26 cases under both built-in strategies and 12 under an arbitrary model, 16 databases, two failed calls |
| `planner` | two obligations, one of which brings another record each time, two calls, one retry, two refusals |
| `archive` | one group of two repeats, a full and a partial selector, a runner and two clerks, one kill |
| `rescore` | two processes, two scorers, four checks, one kill, one damaged file, any failed writes |
| `planner_timeout`, `archive_race` | two statements of the repository that the code does not keep (section 5) |

The properties, by the question they answer:

* *Is a cell ever scored twice, or lost?* `MutualExclusion`, `AtMostOneAttempt`, `EvidenceKept`,
  `RecordMatchesBundle`, `LedgerStaysReadable`, `ReturnsFullyTerminal`.
* *Does a restart change the experiment?* `WindowSurvivesRestart`, `AdmittedByOneReceipt`
  (one revision, within its selector), `ProbedBeforeFirstCell`, `CompletedMeansAllPassed`,
  and `ImplementsContract` (the ledger read by anyone behaves like `SuiteContract`).
* *Can a verdict rest on something other than answered evidence?* `EvidenceAccounted`,
  `ConfirmedIsTraced`, `HealthyRunIsClean`, `PositiveVerdictFrozen`, `UnresolvedIsBlocked`,
  `ImplementsContract`.
* *Does an evaluation show the agent its own case, and does it give the laboratory back?*
  `AttemptSeesItsCase`, `RunBelongsToOneBuild`, `PointerNamesVerifiedRun`,
  `PointerClearedFirst`, `EvaluationIsBacked`, `PrimaryErrorKept`, `ImplementsContract`.
* *Does what a timeout leaves running change an answer?* `ResultMatchesSession`,
  `VerdictCitesRegistered`, `BudgetsAgree`; for a planner `SatisfiedIsWitnessed`,
  `PlanStaysInBudget`, `AnswerIsDelivered`.
* *Is a passed diagnosis right?* `PassedGapIsReal` (an accepted abstention names something
  that really was refused), `CauseNeedsItsFault` (no other incident's numbers support a
  cause), `GateMatchesEvaluator` (what the gate lets through is not failed for a rule the
  gate applies), `BuiltinAnswersAreRight` (no built-in strategy confirms another cause than
  the case's, fails for a scoring rule, or stumbles over an unbound name, and the analyst
  concludes what the case expects or abstains), `CleanAnalystIsCertified` (undisturbed, it
  does not abstain where it should not, and leaves the receipts its gaps need).
* *Is a published number true?* `MainNumbersHold`, `SealedArchiveIsTrue`, `GivenScoresStay`.
* *Does every process end?* `ProcessLeaves`, `ReturnsEventually`.

Type correctness of `BenchmarkSuite`, `DiagnosticKernel` and `DiagnosisRun` is proved; no
run spends itself on it. The contracts and the remaining modules need no more than that
their runs, which read every variable, end without an error.

Bounds, and why they are enough. *Suite*: with two processes every interleaving of the
lock is there; three cells are an interrupted one, a terminal one and one still to come; a
window of two is the smallest that is full, rolls and pauses over more than one cell. The
state is finite without a counter bound, since a ledger holds two lines per cell.
*Kernel*: four attempts are the longest argument the general rule asks for (locate,
explain, upstream, schema), and the budget is reached; two calls in flight give every
order of answers. *Evaluation*: two run ids
are the run of the attempt and one that came before; the mutations cover the three kinds
(schema, rows, value), a case with two mutations and a distractor, a mutation that
obscures another, two on one relation, and a control with none. A run id is never freed, so a build
eventually finds none and stays refused; the interesting histories are shorter.
*Diagnosis run*: three calls under a limit of two reach the limit with a call to spare;
one retry is spent and then exceeded; `RequestLimit` 3 lets a call, an output and its
repair happen. `MaxAttempts` bounds what an outside client sends. *Planner*: an
obligation may be made twice and bring another record, which is when it can rest on the
wrong one; both limits are reached together. *Scoring*: nothing is bounded but the number of failed calls
and what another process leaves behind (three databases: repaired, another incident's
data, another incident's schema); the model is followed on the cases whose rules differ,
over the calls and the citations those rules look at. No procedure of the catalogue
makes more calls than its limit: one needs exactly eight. *Archive*: a group of two repeats
is the smallest that can be incomplete; with one kill each kind of leftover occurs, with
two clerks each pair of analysis, report and archive. *Rescore*: with two processes each
pair of steps on the shared directory occurs; writes and renames fail at any time, and the
damage is to the archived evaluation or to an input, and is repaired. Score directories themselves are not
damaged: nothing in the code would restore them.

Symmetry is used over processes, gap ids and run ids, which the models only compare; the
runs with a liveness property use none.

`CHECK_DEADLOCK FALSE` is set where the system really stops: a kernel that is final, a
run that has returned or been evaluated, and the bounded histories of `archive` and
`rescore`. A suite can always start another process and a laboratory another command, so
their runs check deadlock.

Fairness. `FairSpec` assumes weak fairness of `Progress(r)`, the steps a living process
takes by itself: nothing in the suite waits for another process, and the lock is refused
and not awaited. No fairness is assumed of kills, of an operator or of the checkout, and
nothing is claimed of a lock whose holder was killed. `DiagnosisRun`'s `FairSpec` assumes
weak fairness of the run's start, of time, of the delivery of a timeout and of what the
event loop does without waiting for anyone; a model that never answers, a backend that
hangs and a worker that never ends are all allowed, and `diagnose` still returns.

## 4. What is proved

For all values of the constants that satisfy the named assumptions (`SuiteAssumption`;
`CallAssumption`, `DeclarationAssumption`, `KernelAssumption`; `LabAssumption`;
`SessionAssumption`, `RunAssumption`, `PlannerAssumption`; `RescoreAssumption`;
`ArchiveAssumption`; `ScoringAssumption`, `CatalogueAssumption`, `FaultsShown`,
`FaultsApart`, `BuiltinAssumption`, `AlertAssumption`, `FailedTestAssumption`,
`FailedModelAssumption`, `ScoredRunAssumption`). TLC evaluates each of them on the
constants of a run; those of the last group speak of the scenario files, and the run
`scoring` has the repository's as its constants. The proofs do not need
`DeclaredAssumption`, which TLC only evaluates.

* `BenchmarkSuiteProofs`: type correctness; mutual exclusion; and, by `LedgerInv`, that a
  cell is attempted at most once and the ledger stays readable. `AtMostOneAttempt` is not
  inductive: it needs that a process past loading remembers exactly what the ledger says,
  that the cell it holds has its STARTED line and no more, and that whatever was attempted
  is in the ledger. Mutual exclusion keeps the first part true while another process is
  outside. `WellFormedAppend` is the lemma about appended lines.
  Then, over `LedgerInv`: by `AdmissionInv` (the receipt on disk stands behind whatever a
  process has loaded and whatever line the ledger has), `AdmittedByOneReceipt` and
  `ProbedBeforeFirstCell`; by `BundleInv` (what a process holds of its cell, what the
  cell's terminal line says and what is on disk agree), `RecordMatchesBundle` and
  `EvidenceKept`; by `FlightInv` (at most the cell held is in flight, nothing selected is
  left behind), `ReturnsFullyTerminal` and `CompletedMeansAllPassed`. A bundle found at
  repair is why `BundleInv` speaks of cells no process holds: their line was written by a
  process that is gone. Last, by `WindowInv`, `WindowSurvivesRestart`; and from all of the
  above the refinement of `SuiteContract`. The rebuilt window is a sequence with gaps
  removed, so the proof counts positions: `Ranked` gives each terminal line its rank, and
  a line appended adds one score at the end (`WindowAppend`) or none (`WindowKept`).
* `DiagnosticKernelProofs`: by `KernelInv` (types, alignment, open gaps awaited, typed and
  bought evidence, a positive verdict only over closed gaps), the invariants
  `LedgerAligned`, `OpenGapsAwaited` and `EvidenceAccounted`, the action property
  `PositiveVerdictFrozen`, and the refinement of `InvestigationContract`. The argument of
  the refinement is that the calls of open, closed and blocked gaps are disjoint, because
  fingerprints are distinct, and that their number is the length of the ledger. By
  `VerdictInv` (what a verdict said when it was issued stays true of the ledger),
  `ConfirmedIsTraced`, `HealthyRunIsClean` and `UnresolvedIsBlocked`.
* `EvaluationRunProofs`: by `LabInv` (job, run, data, pointer and report parts: what each
  step of each command knows of the tables, the pointer and its run), the invariants
  `PointerNamesVerifiedRun`, `AttemptSeesItsCase` and `EvaluationIsBacked`, the action
  properties `PointerClearedFirst`, `RunBelongsToOneBuild` and `PrimaryErrorKept` (with
  the further invariant `ErrorInv`), and the refinement of `EvaluationContract`.
* `DiagnosisRunProofs`: type correctness, and by `IInv` the three safety properties of the
  run. None of them is inductive. The invariant has a part for each place that remembers
  something: `WorkerInv` (what the thread's job implies about ledger, session and kept
  verdict, even after the loop has gone on), `BudgetInv` (the session never counts a call
  the ledger has not), `StepInv` and `LoopInv` (what the loop's position implies about the
  session and about what it has read), `ResultInv`, and `OutsideInv` (an external client's
  run leaves the loop alone). `RunImplementsContract` shows that the whole of it, worker,
  timeout and outside client, is a `StrategyContract`. It needs one more invariant,
  `FailureInv`: a failure cites nothing, wherever the loop has copied it to.
* `PlannerProofs`: by its `IInv`, `SatisfiedIsWitnessed`, `PlanStaysInBudget` and
  `AnswerIsDelivered`. What makes the last one true is `CountInv`: the session counts a call
  at its gate and the controller records it when it is back, so that the two agree only
  while no call is on its way. An accepted submission holds the worker, and the session
  closed by it lets no further call through its gate. A timeout breaks this, which is the
  finding of `planner_timeout`. `WitnessInv` follows an obligation's last call, and
  `ArchiveInv` what each of the four readings has already copied. `ClosuresStay` is an
  action property about a worker that outlives its run: it neither plans nor calls again
  for a closed obligation. `PlannerImplementsContract` is the refinement of the contract
  `DiagnosisRun` refines as well; `EndInv` says what the end of a run stands for: an
  answer the session accepted, or a failure of a session that is closed.
* `OfflineRescoreProofs`: `GivenScoresStay`. Until a score is published, at most one process
  is past the making of its temporary directory (`OwnerInv`), and the directory holds what
  that process has written and nothing else (`FilledInv`). After it is published others may
  make, fill and sweep a directory of that name: nothing is renamed over a score. A sweep
  by a stranger is thus harmless, although the code alone does not show it.
  What a process has renamed it may give later (`RenamedInv`).
  `RescoreImplementsContract` hides the directories: each step of a process is one of
  `RescoreContract` or invisible in it, the renaming being the one that publishes and the
  end of the sweep the one that tells.
* `SuiteArchiveProofs`: `MainNumbersHold` and `SealedArchiveIsTrue`. The readers take no
  lock, so everything rests on what the runner cannot do: `Grows` (an action property, and
  a theorem of its own) says that the ledger only gets longer and that neither the line
  nor the bundle of an ended cell changes. Hence what a clerk has read of ended cells stays
  so (`ReadInv`), and a report is of all bundles of an ended suite (`ReportInv`). For the
  archive, files are read and copied one after another and the copies may be of different
  moments: `Earlier` says that what was read of the ledger is something the suite had, and
  the second reading closes the argument, because it equals the first one: a listing, a
  ledger and a set of interrupted bundles that only grow, and were equal before and after
  the copying, did not grow in between (`RelistSuffices`, `RehashSuffices`), so that the copy
  is what the stated digest is of (`CopiedLedger`, `TrueDigest`). The rows are read before
  the copying and need no digest: they
  are of ended cells. `SharedSuiteImplementsContract` shows that the runner of this module,
  although simplified, keeps the contract `BenchmarkSuite` keeps, with no cell
  model-backed and hence no pause.
* `ScoredRunProofs`: `PassedGapIsReal`, `GateMatchesEvaluator` and `CauseNeedsItsFault`, by
  `RunInv`: each record is one its tool gives away and, if read live, one the run was
  sealed with; an answer went through gate and kernel over the records and events the run
  still has; a pass was judged on them. A relation the case hides is refused whatever the
  database holds (`AnsweredWhenSealed`), so no record of it exists. That the evaluator's
  rule implies the kernel's, which knows no more than the brief (`KernelFollows`), needs
  the two things `CatalogueAssumption` states of the scenario files: the brief's numbers
  are those of the fault, and no other subject's profile is granted. `CauseNeedsItsFault`
  is about tables in the end: `SupportIsShown` says that a rule depends on nothing but what
  the records show of the relations it names, so that it is enough to evaluate every rule
  once per case and database over all there is to read there, which `FaultsApart` does
  and TLC evaluates for the whole catalogue. Two consequences for the code: citing more
  never loses a root cause (`MoreEvidenceKeepsCause`; not so for assets, where a record of
  the failing test counts against a claim), and whatever the evaluator passes meets the
  contract certification checks with its own copy of the rules (`PassingMeetsContract`).
  `BuiltinAnswersAlwaysRight` is about every procedure of both strategies. A record they
  decide by is of the sealed database or there is none (`ViewIsSealed`), so each branch is
  decided by what the catalogue shows, and the assumptions beside the procedures say what
  that means; `ConcludedInv` keeps an answer bound to the records it was given for until
  it is evaluated. An abstention is right whatever was read (`AbstainIsRight`); a
  confirmation needs that what it cites is all a rule looks at (`ConfirmIsRight`).

Type correctness of the suite, the kernel, the laboratory and the runner, and the kernel's
`LedgerAligned` and `OpenGapsAwaited`, are theorems of their modules too.

`IInv` of the archive and `RunInv` were themselves checked by TLC on the instances of
`archive` and `scoring` before they were proved, and so were `ImplementsContract` of
`DiagnosisRun`, `Planner` and `OfflineRescore` and `ClosedStays` on those of
`diagnosis_run`, `planner` and `rescore`; as theorems they need no run of their own.

Only model-checked: `ProcessLeaves` and `ReturnsEventually` (liveness is out of the prover's
reach); and `CleanAnalystIsCertified`. That the analyst's answers are right holds of each
answer, and is proved; that an undisturbed analyst gets as far as the answer the case
expects is about all the calls it has made on the way, in order, within its limit, and the
proof of that would be an induction over sequences of calls that are filtered
(`SelectSeq`), out of the prover's reach.

## 5. Where the code and the repository's words disagree

Two of them have a run of their own:

* `archive_race`: the archiver reads the ledger before its first digest. A cell that ends in
  between is in the copied ledger and not in the matrix, and the archive is sealed
  (`benchmark_archive.py:482`, against the message of the recheck at `:541`).
* `planner_timeout`: a timeout that fires while the worker is inside a tool call makes the
  result's own validation raise out of `diagnose` (`planner_agent.py:405`), although the
  module says that every timeout ends in `MODEL_ERROR` (`planner_agent.py:15`).

Others were met while reading or modelling, and are part of what the models do:

* Kernel. An abstention reports a relation whose *tool failed* as `RELATION_NOT_ALLOWED`
  (`diagnostic_kernel.py:718`, against the comment above it); the built-in analysts do
  the same (`fixed_rule.py:546`, `reference_solver.py:690`). `finalize` commits before it
  builds the outcome, so that a blocked gap with a blank subject leaves a final kernel
  without one (`:712`). An abstention over an open gap, or one that is not about a
  relation, is accepted with an empty list, which `Diagnosis` refuses (`:705`).
* Laboratory. A restore that raises while undoing a mutation leaves the failed attempt's
  run active (`lab.py:835`, against `src/decision.md:411`). Injecting one case over another
  is accepted and verified (`lab.py:544`, against `cli.py:842`).
* Session and runners. A timeout between the kernel's verdict and the runner's keeping it
  closes the session as `RUN_FAILED` and not as a timeout (`diagnostic_agent.py:2948`).
  Once the session has expired, the gate counts refusals past the limit its docstring
  names. A planner's validator left behind by a timeout may still have its submission
  accepted.
* Receipts. Repeating a call that was refused makes its receipt ambiguous for good.
* Reports. A partial analysis raises on a torn ledger, although it is meant for suites
  "still running or interrupted". An archiver that is killed leaves an unsealed directory
  that blocks the next one; a reporter that is killed leaves a temporary file the
  archiver refuses.
* Rescoring. A killed scorer's temporary directory blocks its score until somebody removes
  it. A difference that was unavailable because the archived evaluation was damaged stays
  unavailable after the repair. The scorer's source digest is of the files on disk and not
  of the loaded code.
* Certification. A run that spends exactly its budget is classed `BUDGET` by the classes and
  is no finding (`scenario_certification.py:257`). The fixed rule confirms a cause on one
  case of the catalogue whose contract expects an abstention.

## 6. What is not modelled

* Two processes on one laboratory, and a dbt subprocess that outlives its parent: the code
  has no lock there and claims nothing; with two processes most laboratory properties fail.
* The content of evidence (SQL, profiles, lineage queries) but for what a rule looks at;
  prompts, formatting and redaction: the models take records and bundles as values.
* Agreement of two hypotheses on one root cause: the code compares ids only.
* Of the MCP gateway, its trace numbers and transport. Calls of several clients are
  serialized by its lock; a submission does not take it, and the session's own steps are
  what `OutsideStep` of `DiagnosisRun` interleaves.
* Export and import of scoring inputs, manifests and planner reports: sequential code that
  reads finished files, without state beyond one write.
* The closing of a model client the diagnosis runner owns (`diagnostic_agent.py:3195`). It
  comes after the result, outside the timeout, and changes none of the state modelled; a
  close that hangs would keep `diagnose` from returning, so `ReturnsEventually` is about
  everything before it.
* The planner probe: one call of a provider; its receipts are part of `BenchmarkSuite`.
* Command line, doctor, packaging: arguments, health probes and file lists.

## 7. Plan

Done: the modules of section 2. What would add most next:

1. `CleanAnalystIsCertified` case by case, if the procedures can be stated without filters
   of sequences.
2. `DiagnosisRun` over `DiagnosticKernel` itself in place of its contract, if the state space
   allows, and `ScoredRun` with its built-in strategies inside `EvaluationRun`.
3. Two laboratories' processes on one database, once the code has a lock to rely on.
4. Export and import of scoring inputs beside `OfflineRescore`.

## 8. Running

    tlc -config MCBenchmarkSuite.cfg MCBenchmarkSuite
    tlc -config MCPlannerSuite.cfg MCBenchmarkSuite
    tlc -config MCDiagnosticKernel.cfg MCDiagnosticKernel
    tlc -config MCEvaluationRun.cfg MCEvaluationRun
    tlc -config MCDiagnosisRun.cfg MCDiagnosisRun
    tlc -config MCScoring.cfg MCScoring
    tlc -config MCPlanner.cfg MCPlanner
    tlc -config MCSuiteArchive.cfg MCSuiteArchive
    tlc -config MCOfflineRescore.cfg MCOfflineRescore
    for p in *Proofs.tla; do tlapm $p; done

The largest run is `evaluation`, with about 1,870,000 distinct states; `scoring` takes longest.
