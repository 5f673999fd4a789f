----------------------------- MODULE EvaluationRun -----------------------------
(***************************************************************************)
(* One laboratory and the processes that use it, one at a time: the        *)
(* lifecycle of an incident (lab.py), its verification (lab_verifier.py),  *)
(* the pointer to the active run (run_context.py) and the evaluation of a  *)
(* case (evaluation_runner.py), which must give the laboratory back        *)
(* healthy whatever fails in between.                                      *)
(*                                                                         *)
(* The database and the files outlive a process; "job" is the process's    *)
(* memory and dies with it.  Every step of a job may raise, and a process  *)
(* may be killed between any two steps.  A step is one database            *)
(* transaction or one group of file writes that nothing else can observe   *)
(* half done, because a single process uses the laboratory.                *)
(*                                                                         *)
(* The raw tables are abstracted to the mutations they show.  The check of *)
(* one mutation reads what another may have changed: row counts and rows   *)
(* of the payments, or a column by its name.  Where it then finds neither  *)
(* its healthy nor its injected state, the other mutation obscures it.     *)
(***************************************************************************)
EXTENDS Integers, FiniteSets, Sequences

CONSTANTS
  Cases,             \* the scenarios
  Mutations,         \* what the scenarios may do to the raw tables
  Declared,          \* case -> its mutations in declared order; <<>>: a health control
  Obscured,          \* mutation -> the mutations that obscure it
  Relation,          \* mutation -> the raw table it changes
  Kind,              \* mutation -> "SCHEMA", "ROWS" or "VALUE" (a field set to NULL)
  Profiled,          \* case -> the VALUE mutations its public profile would show
  FailedNodes(_, _), \* what dbt reports failed: build of a case, mutations present
  Runs,              \* run ids
  NoRun,
  NoCase

MutationsOf(c) == {Declared[c][i] : i \in DOMAIN Declared[c]}

ASSUME LabAssumption ==
  /\ Declared \in [Cases -> Seq(Mutations)]
  /\ Kind \in [Mutations -> {"SCHEMA", "ROWS", "VALUE"}]
  /\ Obscured \in [Mutations -> SUBSET Mutations]
  /\ \A c \in Cases : FailedNodes(c, {}) = {}
  /\ NoRun \notin Runs /\ NoCase \notin Cases

\* The mutations of a case are distinct and none obscures another.
ASSUME DeclaredAssumption ==
  \A c \in Cases : \A i, j \in DOMAIN Declared[c] :
     i # j => /\ Declared[c][i] # Declared[c][j]
              /\ Declared[c][i] \notin Obscured[Declared[c][j]]

VARIABLES
  db,       \* [present: mutations the raw tables show, fresh: models built over them]
  active,   \* .dig/lab/active_run.json: the run diagnose takes by default
  runs,     \* run id -> its directories under .dig/lab/runs and .dig/lab/private
  archive,  \* artifacts/<run id>: "NONE" or the published verdict
  inputs,   \* run ids whose scoring inputs are published
  job,      \* the live process
  outcome   \* what the last evaluation handed its caller

vars == <<db, active, runs, archive, inputs, job, outcome>>

Stages == {"ABSENT", "BEGUN", "MADE", "CAPTURED", "VERIFIED"}

ResetSteps   == {"CLEAR", "RELOAD", "RELOADED", "VERIFY_RESTORED"}
PrepareSteps == {"CHECK_HEALTHY", "APPLY"}
BuildSteps   == {"CHECK_PREPARED", "MAKE_RUN", "MAKE_PRIVATE", "RUN_DBT", "VERIFY", "PUBLISH"}
Steps == ResetSteps \cup PrepareSteps \cup BuildSteps
           \cup {"SETUP", "DIAGNOSE", "UNDO", "ASSESS", "ARCHIVE", "SCORE"}

Kinds  == {"IDLE", "EVALUATE", "RESET", "INJECT", "BUILD", "PIPELINE"}
Phases == {"INITIAL_RESET", "PREPARE", "BUILD", "DIAGNOSIS_SETUP", "DIAGNOSIS", "RESTORE"}

Jobs ==
  [kind : Kinds, case : Cases \cup {NoCase}, at : Steps, left : Nat, run : Runs \cup {NoRun},
   restoring : BOOLEAN, recovered : BOOLEAN, error : Phases \cup {"NONE"}, cancelled : BOOLEAN,
   policy : BOOLEAN, diagnosed : BOOLEAN,
   verdict : {"NONE", "PASSED", "FAILED"}, check : BOOLEAN, verified : BOOLEAN]

Outcomes ==
  [kind : {"NONE", "RETURNED", "RAISED", "CANCELLED"},
   code : Phases \cup {"NONE", "ARTIFACT_WRITE", "SCORING_INPUTS_WRITE"},
   run : Runs \cup {NoRun}, verdict : {"NONE", "PASSED", "FAILED"}, recovered : BOOLEAN]

Idle ==
  [kind |-> "IDLE", case |-> NoCase, at |-> "CLEAR", left |-> 0, run |-> NoRun,
   restoring |-> FALSE, recovered |-> FALSE, error |-> "NONE", cancelled |-> FALSE,
   policy |-> FALSE, diagnosed |-> FALSE,
   verdict |-> "NONE", check |-> FALSE, verified |-> FALSE]

NoOutcome ==
  [kind |-> "NONE", code |-> "NONE", run |-> NoRun, verdict |-> "NONE", recovered |-> FALSE]

Healthy == db.present = {} /\ db.fresh

TypeOK ==
  /\ db \in [present : SUBSET Mutations, fresh : BOOLEAN]
  /\ active \in Runs \cup {NoRun}
  /\ runs \in [Runs -> [stage : Stages, case : Cases \cup {NoCase}, seen : SUBSET Mutations]]
  /\ archive \in [Runs -> {"NONE", "PASSED", "FAILED"}]
  /\ inputs \subseteq Runs
  /\ job \in Jobs
  /\ outcome \in Outcomes

Init ==
  /\ db = [present |-> {}, fresh |-> TRUE]
  /\ active = NoRun
  /\ runs = [r \in Runs |-> [stage |-> "ABSENT", case |-> NoCase, seen |-> {}]]
  /\ archive = [r \in Runs |-> "NONE"]
  /\ inputs = {}
  /\ job = Idle
  /\ outcome = NoOutcome

--------------------------------------------------------------------------------
(* What the laboratory can tell of a mutation.                               *)

Beside(m) == (db.present \cap Obscured[m]) \ {m}

MutationState(m) ==
  IF Beside(m) # {} THEN "DRIFTED"
  ELSE IF m \in db.present THEN "INJECTED" ELSE "HEALTHY"

AllHealthy(c)  == \A m \in MutationsOf(c) : MutationState(m) = "HEALTHY"
AllInjected(c) == \A m \in MutationsOf(c) : MutationState(m) = "INJECTED"

\* What the verifier compares with the healthy baseline: the schema and the row
\* counts of the relations the case mutates, for a health control of all of them.
Shown(c, seen) ==
  {m \in seen : /\ Kind[m] # "VALUE"
                /\ MutationsOf(c) # {} => \E o \in MutationsOf(c) : Relation[o] = Relation[m]}

\* The values and rows the case changes, asked of the database itself.
Reproduced(c) ==
  \A m \in MutationsOf(c) : Kind[m] # "SCHEMA" => MutationState(m) = "INJECTED"

Expected(c, seen) ==
  /\ FailedNodes(c, seen) = FailedNodes(c, MutationsOf(c))
  /\ Shown(c, seen) = Shown(c, MutationsOf(c))
  /\ IF MutationsOf(c) = {} THEN seen \cap Profiled[c] = {} ELSE Reproduced(c)

--------------------------------------------------------------------------------
(* The process and its steps.                                                *)

Goto(step) == job' = [job EXCEPT !.at = step]

Leave == job' = Idle

At(step) == job.kind # "IDLE" /\ job.at = step

FirstStep(kind) ==
  CASE kind \in {"EVALUATE", "RESET"} -> "CLEAR"
    [] kind = "INJECT"                -> "CHECK_HEALTHY"
    [] kind = "BUILD"                 -> "CHECK_PREPARED"
    [] kind = "PIPELINE"              -> "RELOAD"

(* A command line: eval run, lab reset, lab inject, lab build, pipeline build. *)
Start(kind, c) ==
  /\ job.kind = "IDLE"
  /\ job' = [Idle EXCEPT !.kind = kind, !.case = c, !.at = FirstStep(kind)]
  /\ outcome' = NoOutcome
  /\ UNCHANGED <<db, active, runs, archive, inputs>>

(* restore undoes the mutations in reverse order, then resets.                *)
BeginRestore(j) ==
  [j EXCEPT !.restoring = TRUE, !.at = "UNDO", !.left = Len(Declared[j.case])]

\* Variant: reset keeps the pointer until the laboratory is healthy again.
ResetClearMutant ==
  /\ At("CLEAR")
  /\ Goto("RELOAD")
  /\ UNCHANGED <<db, active, runs, archive, inputs, outcome>>

(* reset: clear the pointer, reload the seeds, build the models, verify.      *)
ResetClear ==
  /\ At("CLEAR")
  /\ active' = NoRun
  /\ Goto("RELOAD")
  /\ UNCHANGED <<db, runs, archive, inputs, outcome>>

(* dbt seed replaces one table after another, and the models go with them.    *)
ReloadSeeds ==
  /\ At("RELOAD")
  /\ \E T \in SUBSET {Relation[m] : m \in db.present} :
       db' = [present |-> {m \in db.present : Relation[m] \notin T}, fresh |-> FALSE]
  /\ Goto("RELOADED")
  /\ UNCHANGED <<active, runs, archive, inputs, outcome>>

\* Variant: the seeds are loaded without --full-refresh.
BaselineBuiltMutant ==
  /\ At("RELOADED")
  /\ db' = [db EXCEPT !.fresh = TRUE]
  /\ IF job.kind = "PIPELINE" THEN Leave ELSE Goto("VERIFY_RESTORED")
  /\ UNCHANGED <<active, runs, archive, inputs, outcome>>

BaselineBuilt ==
  /\ At("RELOADED")
  /\ db' = [present |-> {}, fresh |-> TRUE]
  /\ IF job.kind = "PIPELINE" THEN Leave ELSE Goto("VERIFY_RESTORED")
  /\ UNCHANGED <<active, runs, archive, inputs, outcome>>

VerifyRestored ==
  /\ At("VERIFY_RESTORED")
  /\ AllHealthy(job.case)
  /\ CASE job.kind = "RESET" -> Leave
       [] job.restoring      -> job' = [job EXCEPT !.recovered = TRUE, !.at = "ASSESS"]
       [] OTHER              -> Goto("CHECK_HEALTHY")
  /\ UNCHANGED <<db, active, runs, archive, inputs, outcome>>

(* prepare: clear the pointer, require the case's own mutations to be absent,  *)
(* then apply them one transaction after another in declared order.           *)
CheckHealthy ==
  /\ At("CHECK_HEALTHY")
  /\ active' = NoRun
  /\ AllHealthy(job.case)
  /\ job' = [job EXCEPT !.at = "APPLY", !.left = Len(Declared[job.case])]
  /\ UNCHANGED <<db, runs, archive, inputs, outcome>>

Apply ==
  /\ At("APPLY")
  /\ job.left > 0
  /\ LET next == Len(Declared[job.case]) - job.left + 1
     IN db' = [present |-> db.present \cup {Declared[job.case][next]}, fresh |-> FALSE]
  /\ job' = [job EXCEPT !.left = @ - 1]
  /\ UNCHANGED <<active, runs, archive, inputs, outcome>>

Prepared ==
  /\ At("APPLY")
  /\ job.left = 0
  /\ IF job.kind = "INJECT" THEN Leave ELSE Goto("CHECK_PREPARED")
  /\ UNCHANGED <<db, active, runs, archive, inputs, outcome>>

(* build: clear the pointer, require the case's mutations to be injected.      *)
CheckPrepared ==
  /\ At("CHECK_PREPARED")
  /\ active' = NoRun
  /\ AllInjected(job.case)
  /\ Goto("MAKE_RUN")
  /\ UNCHANGED <<db, runs, archive, inputs, outcome>>

\* Variant: mkdir with exist_ok.
MakeRunMutant(r) ==
  /\ At("MAKE_RUN")
  /\ runs' = [runs EXCEPT ![r] = [stage |-> "BEGUN", case |-> job.case, seen |-> {}]]
  /\ job' = [job EXCEPT !.at = "MAKE_PRIVATE", !.run = r]
  /\ UNCHANGED <<db, active, archive, inputs, outcome>>

\* Variant: the pointer is published as soon as the run has its directory.
MakeRunPublishes(r) ==
  /\ At("MAKE_RUN")
  /\ runs[r].stage = "ABSENT"
  /\ runs' = [runs EXCEPT ![r] = [stage |-> "BEGUN", case |-> job.case, seen |-> {}]]
  /\ job' = [job EXCEPT !.at = "MAKE_PRIVATE", !.run = r]
  /\ active' = r
  /\ UNCHANGED <<db, archive, inputs, outcome>>

(* The run's public directory must be new.                                    *)
MakeRun(r) ==
  /\ At("MAKE_RUN")
  /\ runs[r].stage = "ABSENT"
  /\ runs' = [runs EXCEPT ![r] = [stage |-> "BEGUN", case |-> job.case, seen |-> {}]]
  /\ job' = [job EXCEPT !.at = "MAKE_PRIVATE", !.run = r]
  /\ UNCHANGED <<db, active, archive, inputs, outcome>>

(* So must its private one, which the private scenario goes into.             *)
MakePrivate ==
  /\ At("MAKE_PRIVATE")
  /\ runs[job.run].stage = "BEGUN"
  /\ runs' = [runs EXCEPT ![job.run].stage = "MADE"]
  /\ Goto("RUN_DBT")
  /\ UNCHANGED <<db, active, archive, inputs, outcome>>

(* dbt rebuilds the models from the raw tables as they are, then the schema,   *)
(* the profile and the runtime record are captured from the same tables.      *)
RunDbt ==
  /\ At("RUN_DBT")
  /\ db' = [db EXCEPT !.fresh = FailedNodes(job.case, db.present) = {}]
  /\ runs' = [runs EXCEPT ![job.run].stage = "CAPTURED", ![job.run].seen = db.present]
  /\ Goto("VERIFY")
  /\ UNCHANGED <<active, archive, inputs, outcome>>

Verify ==
  /\ At("VERIFY")
  /\ Expected(job.case, runs[job.run].seen)
  /\ runs' = [runs EXCEPT ![job.run].stage = "VERIFIED"]
  /\ Goto("PUBLISH")
  /\ UNCHANGED <<db, active, archive, inputs, outcome>>

PublishActiveRun ==
  /\ At("PUBLISH")
  /\ active' = job.run
  /\ IF job.kind = "BUILD" THEN Leave ELSE Goto("SETUP")
  /\ UNCHANGED <<db, runs, archive, inputs, outcome>>

(* The private scenario is loaded once; when that fails the submission gates   *)
(* stay off and the attempt goes on towards a failed evaluation.              *)
SetUpDiagnosis ==
  /\ At("SETUP")
  /\ \E loaded \in BOOLEAN : job' = [job EXCEPT !.policy = loaded, !.at = "DIAGNOSE"]
  /\ UNCHANGED <<db, active, runs, archive, inputs, outcome>>

Diagnosed ==
  /\ At("DIAGNOSE")
  /\ job' = BeginRestore([job EXCEPT !.diagnosed = TRUE])
  /\ UNCHANGED <<db, active, runs, archive, inputs, outcome>>

(* The only await of an attempt: a cancellation runs the finally block and     *)
(* then leaves run without a result.                                          *)
Cancelled ==
  /\ At("DIAGNOSE")
  /\ job' = BeginRestore([job EXCEPT !.cancelled = TRUE])
  /\ UNCHANGED <<db, active, runs, archive, inputs, outcome>>

(* _restore_mutations: one declared mutation, from the last to the first.      *)
Undo ==
  /\ At("UNDO")
  /\ job.left > 0
  /\ LET m == Declared[job.case][job.left]
     IN /\ MutationState(m) # "DRIFTED"
        /\ db' = IF m \in db.present
                 THEN [present |-> db.present \ {m}, fresh |-> FALSE] ELSE db
  /\ job' = [job EXCEPT !.left = @ - 1]
  /\ UNCHANGED <<active, runs, archive, inputs, outcome>>

Undone ==
  /\ At("UNDO")
  /\ job.left = 0
  /\ Goto("CLEAR")
  /\ UNCHANGED <<db, active, runs, archive, inputs, outcome>>

(* What the database may be left as by a step that does not finish: dropping   *)
(* the dependent view and changing the column are two transactions, and the   *)
(* baseline is complete before its summary is written.                        *)
Interim ==
  {db} \cup (IF job.at \in {"APPLY", "UNDO"} THEN {[db EXCEPT !.fresh = FALSE]}
             ELSE IF job.at = "RELOADED" THEN {[present |-> {}, fresh |-> TRUE]} ELSE {})

PhaseOf(step) ==
  CASE step \in ResetSteps   -> "INITIAL_RESET"
    [] step \in PrepareSteps -> "PREPARE"
    [] step \in BuildSteps   -> "BUILD"
    [] step = "SETUP"        -> "DIAGNOSIS_SETUP"
    [] step = "DIAGNOSE"     -> "DIAGNOSIS"

\* Variant: recovery is judged by the restore having been tried.
AfterRaiseMutant ==
  CASE job.kind # "EVALUATE" -> Idle
    [] job.restoring -> [job EXCEPT !.at = "ASSESS", !.recovered = TRUE]
    [] OTHER -> BeginRestore([job EXCEPT !.error = PhaseOf(job.at)])

\* Variant: a failing restore replaces the error that came first.
AfterRaiseOverwrites ==
  CASE job.kind # "EVALUATE" -> Idle
    [] job.restoring -> [job EXCEPT !.at = "ASSESS", !.error = "RESTORE"]
    [] OTHER -> BeginRestore([job EXCEPT !.error = PhaseOf(job.at)])

(* Any step may raise.  A command ends; an evaluation goes to its finally      *)
(* block once, and a restore that raises is not tried again.                  *)
AfterRaise ==
  CASE job.kind # "EVALUATE" -> Idle
    [] job.restoring -> [job EXCEPT !.at = "ASSESS",
                                    !.error = IF @ = "NONE" THEN "RESTORE" ELSE @]
    [] OTHER -> BeginRestore([job EXCEPT !.error = PhaseOf(job.at)])

Raise ==
  /\ job.kind # "IDLE"
  /\ job.at \notin {"ASSESS", "ARCHIVE", "SCORE"}
  /\ job' = AfterRaise
  /\ db' \in Interim
  /\ active' \in {active} \cup (IF job.at \in {"CHECK_HEALTHY", "CHECK_PREPARED"}
                               THEN {NoRun} ELSE {})
  /\ UNCHANGED <<runs, archive, inputs, outcome>>

Finish(kind, code) ==
  /\ outcome' = [kind |-> kind, code |-> code, run |-> job.run,
                 verdict |-> IF kind = "RETURNED" THEN job.verdict ELSE "NONE",
                 recovered |-> job.recovered]
  /\ Leave

(* The finally block is done; an attempt without a diagnosis has no result.    *)
LeaveWithoutResult ==
  /\ At("ASSESS")
  /\ job.cancelled \/ ~job.diagnosed
  /\ IF job.cancelled THEN Finish("CANCELLED", "NONE") ELSE Finish("RAISED", job.error)
  /\ UNCHANGED <<db, active, runs, archive, inputs>>

(* What the evaluation may be: a failed one with every check failed when the   *)
(* scenario or the verification cannot be loaded or the evaluator raises, else *)
(* the evaluator's, whose recovery check is the recovery flag.                *)
Evaluations ==
  LET failed == [verdict |-> "FAILED", check |-> FALSE, verified |-> FALSE]
  IN {failed}
     \cup (IF job.policy
           THEN {[failed EXCEPT !.verified = TRUE],
                 [verdict |-> "FAILED", check |-> job.recovered, verified |-> TRUE]}
           ELSE {})
     \cup (IF job.policy /\ job.recovered
           THEN {[verdict |-> "PASSED", check |-> TRUE, verified |-> TRUE]} ELSE {})

\* Variant: the scoring inputs are written before the bundle they rest on.
AssessMutant ==
  /\ At("ASSESS")
  /\ job.diagnosed /\ ~job.cancelled
  /\ \E e \in Evaluations :
       job' = [job EXCEPT !.verdict = e.verdict, !.check = e.check,
                          !.verified = e.verified, !.at = "SCORE"]
  /\ UNCHANGED <<db, active, runs, archive, inputs, outcome>>

Assess ==
  /\ At("ASSESS")
  /\ job.diagnosed /\ ~job.cancelled
  /\ \E e \in Evaluations :
       job' = [job EXCEPT !.verdict = e.verdict, !.check = e.check,
                          !.verified = e.verified, !.at = "ARCHIVE"]
  /\ UNCHANGED <<db, active, runs, archive, inputs, outcome>>

(* An ArtifactRun needs the recovery check to say what the recovery flag says; *)
(* the bundle is renamed into a place that does not exist yet.                 *)
WriteArtifact ==
  /\ At("ARCHIVE")
  /\ job.check = job.recovered
  /\ archive[job.run] = "NONE"
  /\ archive' = [archive EXCEPT ![job.run] = job.verdict]
  /\ Goto("SCORE")
  /\ UNCHANGED <<db, active, runs, inputs, outcome>>

ArtifactFails ==
  /\ At("ARCHIVE")
  /\ Finish("RAISED", "ARTIFACT_WRITE")
  /\ UNCHANGED <<db, active, runs, archive, inputs>>

(* The scoring inputs follow the published bundle; without the verification    *)
(* there are none.                                                            *)
WriteScoringInputs ==
  /\ At("SCORE")
  /\ IF job.verified
     THEN job.run \notin inputs /\ inputs' = inputs \cup {job.run}
     ELSE UNCHANGED inputs
  /\ Finish("RETURNED", "NONE")
  /\ UNCHANGED <<db, active, runs, archive>>

ScoringInputsFail ==
  /\ At("SCORE")
  /\ job.verified
  /\ Finish("RAISED", "SCORING_INPUTS_WRITE")
  /\ UNCHANGED <<db, active, runs, archive, inputs>>

(* The process is killed; what it wrote stays.                                *)
Kill ==
  /\ job.kind # "IDLE"
  /\ Leave
  /\ db' \in Interim
  /\ UNCHANGED <<active, runs, archive, inputs, outcome>>

Reset   == ResetClear \/ ReloadSeeds \/ BaselineBuilt \/ VerifyRestored
Prepare == CheckHealthy \/ Apply \/ Prepared
Build   == CheckPrepared \/ (\E r \in Runs : MakeRun(r)) \/ MakePrivate \/ RunDbt
             \/ Verify \/ PublishActiveRun
Attempt == SetUpDiagnosis \/ Diagnosed \/ Cancelled \/ Undo \/ Undone
             \/ LeaveWithoutResult \/ Assess
             \/ WriteArtifact \/ ArtifactFails \/ WriteScoringInputs \/ ScoringInputsFail

Next ==
  \/ \E kind \in Kinds \ {"IDLE"}, c \in Cases : Start(kind, c)
  \/ Reset \/ Prepare \/ Build \/ Attempt
  \/ Raise
  \/ Kill

Spec == Init /\ [][Next]_vars

--------------------------------------------------------------------------------
(* Properties                                                                *)

(* The pointer that diagnose follows names a run whose data was verified: no   *)
(* crash or failure of a build leaves it on a half-made or a refused run.     *)
PointerNamesVerifiedRun == active # NoRun => runs[active].stage = "VERIFIED"

(* The laboratory never changes the data, except by undoing a case's own       *)
(* mutations, while a pointer to an earlier run still stands.                 *)
PointerClearedFirst ==
  [][db' # db /\ job.at # "UNDO" /\ job.kind # "PIPELINE" => active = NoRun]_vars

(* What an evaluation shows its diagnosis is its own case and nothing else,    *)
(* whatever commands, failures and kills left in the tables before it.        *)
AttemptSeesItsCase ==
  job.kind = "EVALUATE" /\ job.run # NoRun /\ runs[job.run].stage \notin {"BEGUN", "MADE"}
    => runs[job.run].seen = MutationsOf(job.case)

(* What an attempt failed of first is what its caller is told, and all it is    *)
(* told: the restore that follows may fail too and does not hide it.  Only a    *)
(* killed process tells nobody.                                               *)
PrimaryErrorKept ==
  [][job.error \notin {"NONE", "RESTORE"} =>
       \/ job'.error = job.error
       \/ /\ job' = Idle
          /\ \/ outcome'.kind = "RAISED" /\ outcome'.code = job.error
             \/ outcome' = NoOutcome]_vars

(* A passed bundle rests on a verified run that showed exactly its case, and   *)
(* scoring inputs exist only beside a published bundle.                       *)
EvaluationIsBacked ==
  \A r \in Runs :
    /\ archive[r] = "PASSED" => /\ runs[r].stage = "VERIFIED"
                                /\ runs[r].seen = MutationsOf(runs[r].case)
    /\ r \in inputs => archive[r] # "NONE"

(* Only the process that made a run's directories writes into them, and for     *)
(* one case: a second attempt, command or case never builds into them.         *)
RunBelongsToOneBuild ==
  [][\A r \in Runs : runs[r].stage # "ABSENT" /\ runs'[r] # runs[r] =>
       job.run = r /\ runs'[r].case = runs[r].case]_vars

(* An evaluation keeps the promises of EvaluationContract: healthy there means *)
(* healthy data and no active run.                                            *)
Contract == INSTANCE EvaluationContract WITH
  busy    <- job.kind # "IDLE",
  healthy <- Healthy /\ active = NoRun,
  report  <- [kind |-> outcome.kind, run |-> outcome.run,
              verdict |-> outcome.verdict, recovered |-> outcome.recovered]

ImplementsContract == Contract!Spec
================================================================================
