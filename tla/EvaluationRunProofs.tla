------------------------- MODULE EvaluationRunProofs -------------------------
(***************************************************************************)
(* Theorems about the laboratory and its evaluations, for any scenarios,   *)
(* mutations and run ids, whatever dbt reports of them: what an evaluation *)
(* shows is its own case, the active pointer names a verified run, and the *)
(* evaluation contract is kept through every failure and kill.             *)
(***************************************************************************)
EXTENDS EvaluationRun, SequenceTheorems, TLAPS

-----------------------------------------------------------------------------
(* The inductive invariant, from its named parts *)

(* Where a process can be, and what it must know there.                      *)
JobInv ==
  /\ job.kind # "IDLE" => job.case \in Cases
  /\ job.kind = "PIPELINE" => job.at \in {"RELOAD", "RELOADED"}
  /\ job.restoring =>
       job.kind = "EVALUATE" /\ job.at \in ResetSteps \cup {"UNDO", "ASSESS", "ARCHIVE", "SCORE"}
  /\ job.at \in {"UNDO", "ASSESS", "ARCHIVE", "SCORE"} => job.restoring
  /\ job.at \in ResetSteps => job.kind \notin {"INJECT", "BUILD"}
  /\ job.at \in PrepareSteps => job.kind \in {"EVALUATE", "INJECT"}
  /\ job.at \in BuildSteps => job.kind \in {"EVALUATE", "BUILD"}
  /\ job.at \in {"SETUP", "DIAGNOSE"} => job.kind = "EVALUATE"
  /\ job.diagnosed => job.restoring
  /\ job.at = "APPLY" => job.left <= Len(Declared[job.case])
  /\ job.at = "UNDO" => job.left <= Len(Declared[job.case])

(* How far the run of a process has come.                                    *)
RunInv ==
  /\ job.run # NoRun => runs[job.run].stage # "ABSENT" /\ runs[job.run].case = job.case
  /\ job.at = "MAKE_PRIVATE" => job.run # NoRun /\ runs[job.run].stage = "BEGUN"
  /\ job.at = "RUN_DBT" => job.run # NoRun /\ runs[job.run].stage = "MADE"
  /\ job.at = "VERIFY" => job.run # NoRun /\ runs[job.run].stage = "CAPTURED"
  /\ job.at \in {"PUBLISH", "SETUP", "DIAGNOSE"} \/ job.diagnosed
       => job.run # NoRun /\ runs[job.run].stage = "VERIFIED"

(* The tables an evaluation has prepared hold its own case and nothing else.  *)
DataInv ==
  /\ job.at = "VERIFY_RESTORED" => Healthy
  /\ job.kind = "EVALUATE" /\ job.at = "CHECK_HEALTHY" => db.present = {}
  /\ job.kind = "EVALUATE" /\ job.at = "APPLY" =>
       db.present = {Declared[job.case][i] : i \in 1..(Len(Declared[job.case]) - job.left)}
  /\ job.kind = "EVALUATE" /\ job.at \in {"CHECK_PREPARED", "MAKE_RUN", "MAKE_PRIVATE",
                                              "RUN_DBT"} =>
       db.present = MutationsOf(job.case)
  /\ AttemptSeesItsCase

(* While a command reloads, applies or builds, no run is active.              *)
PointerInv ==
  /\ PointerNamesVerifiedRun
  /\ job.at \in {"RELOAD", "RELOADED"} /\ job.kind # "PIPELINE" => active = NoRun
  /\ job.at \in {"VERIFY_RESTORED", "APPLY", "MAKE_RUN", "MAKE_PRIVATE", "RUN_DBT", "VERIFY",
                  "PUBLISH"} => active = NoRun

(* What an attempt is about to publish and to report.                         *)
ReportInv ==
  /\ job.recovered =>
       Healthy /\ active = NoRun /\ job.at \in {"ASSESS", "ARCHIVE", "SCORE"}
  /\ job.at \in {"ARCHIVE", "SCORE"} =>
       /\ job.diagnosed
       /\ job.verdict \in {"PASSED", "FAILED"}
       /\ job.verdict = "PASSED" => job.recovered
  /\ job.at = "SCORE" => archive[job.run] = job.verdict
  /\ EvaluationIsBacked

LabInv == TypeOK /\ JobInv /\ RunInv /\ DataInv /\ PointerInv /\ ReportInv

-----------------------------------------------------------------------------
(* Operators the model is built from *)

(* A process that ends leaves a well-typed, idle memory. *)
LEMMA IdleJob ==
    ASSUME LabAssumption
    PROVE  /\ Idle.kind = "IDLE" /\ Idle.at = "CLEAR" /\ Idle.run = NoRun
           /\ Idle.restoring = FALSE /\ Idle.recovered = FALSE /\ Idle.diagnosed = FALSE
           /\ Idle.cancelled = FALSE
           /\ Idle.case = NoCase /\ Idle.error = "NONE"
           /\ Idle \in Jobs
BY DEF Idle, Jobs, Kinds, Steps, ResetSteps, PrepareSteps, BuildSteps, Phases

(* The mutations of a case are mutations, in a finite declared order. *)
LEMMA DeclaredType ==
    ASSUME LabAssumption, NEW c \in Cases
    PROVE  /\ Declared[c] \in Seq(Mutations)
           /\ Len(Declared[c]) \in Nat
           /\ DOMAIN Declared[c] = 1..Len(Declared[c])
           /\ MutationsOf(c) = {Declared[c][i] : i \in 1..Len(Declared[c])}
           /\ MutationsOf(c) \in SUBSET Mutations
BY DEF LabAssumption, MutationsOf

(* A process that only moves on changes nothing else it knows. *)
LEMMA GotoFields ==
    ASSUME TypeOK, NEW step \in Steps, Goto(step)
    PROVE  /\ job' \in Jobs
           /\ job'.at = step /\ job'.kind = job.kind /\ job'.case = job.case
           /\ job'.left = job.left /\ job'.run = job.run
           /\ job'.restoring = job.restoring /\ job'.recovered = job.recovered
           /\ job'.diagnosed = job.diagnosed /\ job'.verdict = job.verdict
           /\ job'.check = job.check
BY DEF Goto, TypeOK, Jobs

(* Every label is a step. *)
LEMMA StepNames ==
    Steps = {"CLEAR", "RELOAD", "RELOADED", "VERIFY_RESTORED", "CHECK_HEALTHY", "APPLY",
             "CHECK_PREPARED", "MAKE_RUN", "MAKE_PRIVATE", "RUN_DBT", "VERIFY", "PUBLISH",
             "SETUP", "DIAGNOSE", "UNDO", "ASSESS", "ARCHIVE", "SCORE"}
BY DEF Steps, ResetSteps, PrepareSteps, BuildSteps

-----------------------------------------------------------------------------
(* The invariant *)

(* A process that ends leaves only what the files say. *)
LEMMA LeaveKeepsLabInv ==
    ASSUME LabAssumption, TypeOK', Leave, PointerNamesVerifiedRun', EvaluationIsBacked'
    PROVE  LabInv'
<1>1. /\ job'.kind = "IDLE" /\ job'.at = "CLEAR" /\ job'.run = NoRun
      /\ job'.restoring = FALSE /\ job'.recovered = FALSE /\ job'.diagnosed = FALSE
  BY IdleJob DEF Leave
<1>2. JobInv' /\ RunInv'
  BY <1>1 DEF JobInv, RunInv, ResetSteps, PrepareSteps, BuildSteps
<1>3. DataInv' /\ PointerInv' /\ ReportInv'
  BY <1>1 DEF DataInv, PointerInv, ReportInv, AttemptSeesItsCase
<1> QED
  BY <1>2, <1>3 DEF LabInv

(* A fresh laboratory satisfies the invariant. *)
LEMMA InitLabInv ==
    ASSUME LabAssumption, Init
    PROVE  LabInv
<1> USE IdleJob DEF Init
<1>1. TypeOK
  BY DEF TypeOK, NoOutcome, Outcomes, Phases, Stages
<1>2. JobInv /\ RunInv
  BY DEF JobInv, RunInv, ResetSteps, PrepareSteps, BuildSteps
<1>3. DataInv /\ PointerInv
  BY DEF DataInv, PointerInv, AttemptSeesItsCase, PointerNamesVerifiedRun
<1>4. ReportInv
  BY DEF ReportInv, EvaluationIsBacked
<1> QED
  BY <1>1, <1>2, <1>3, <1>4 DEF LabInv

(* A command line starts with nothing in its memory. *)
LEMMA StartKeepsLabInv ==
    ASSUME LabAssumption, LabInv, NEW kind \in Kinds \ {"IDLE"}, NEW c \in Cases, Start(kind, c)
    PROVE  LabInv'
<1> USE DEF Start, LabInv
<1>1. /\ job' = [Idle EXCEPT !.kind = kind, !.case = c, !.at = FirstStep(kind)]
      /\ FirstStep(kind) \in {"CLEAR", "CHECK_HEALTHY", "CHECK_PREPARED", "RELOAD"}
      /\ FirstStep(kind) = "RELOAD" <=> kind = "PIPELINE"
      /\ FirstStep(kind) = "CLEAR" => kind \in {"EVALUATE", "RESET"}
      /\ FirstStep(kind) = "CHECK_HEALTHY" <=> kind = "INJECT"
      /\ FirstStep(kind) = "CHECK_PREPARED" <=> kind = "BUILD"
  BY DEF FirstStep, Kinds
<1>2. job' \in Jobs /\ outcome' \in Outcomes
  BY <1>1, IdleJob
  DEF Jobs, Steps, ResetSteps, PrepareSteps, BuildSteps, NoOutcome, Outcomes, Phases
<1>3. /\ job'.kind = kind /\ job'.case = c /\ job'.at = FirstStep(kind) /\ job'.run = NoRun
      /\ job'.restoring = FALSE /\ job'.recovered = FALSE /\ job'.diagnosed = FALSE
  BY <1>1, IdleJob DEF Jobs
<1>4. TypeOK'
  BY <1>2 DEF TypeOK
<1>5. JobInv' /\ RunInv'
  BY <1>1, <1>3 DEF JobInv, RunInv, ResetSteps, PrepareSteps, BuildSteps
<1>6. DataInv' /\ PointerInv' /\ ReportInv'
  BY <1>1, <1>3 DEF DataInv, PointerInv, ReportInv, AttemptSeesItsCase,
                    PointerNamesVerifiedRun, EvaluationIsBacked
<1> QED
  BY <1>4, <1>5, <1>6

(* Reset and the reload of the seeds. *)
LEMMA ResetKeepsLabInv ==
    ASSUME LabAssumption, LabInv, Reset
    PROVE  LabInv'
<1> USE DEF LabInv, At, ResetSteps, PrepareSteps, BuildSteps
<1>1. CASE ResetClear
  <2>1. Goto("RELOAD")
    BY <1>1 DEF ResetClear
  <2>2. TypeOK'
    BY <1>1, <2>1, GotoFields, StepNames DEF ResetClear, TypeOK
  <2>3. JobInv' /\ RunInv'
    BY <1>1, <2>1, GotoFields, StepNames DEF ResetClear, JobInv, RunInv
  <2>4. DataInv' /\ PointerInv' /\ ReportInv'
    BY <1>1, <2>1, GotoFields, StepNames DEF ResetClear, DataInv, PointerInv, ReportInv,
       AttemptSeesItsCase, PointerNamesVerifiedRun, EvaluationIsBacked
  <2> QED
    BY <2>2, <2>3, <2>4
<1>2. CASE ReloadSeeds
  <2>1. Goto("RELOADED")
    BY <1>2 DEF ReloadSeeds
  <2>2. TypeOK'
    BY <1>2, <2>1, GotoFields, StepNames DEF ReloadSeeds, TypeOK
  <2>3. JobInv' /\ RunInv'
    BY <1>2, <2>1, GotoFields, StepNames DEF ReloadSeeds, JobInv, RunInv
  <2>4. DataInv' /\ PointerInv' /\ ReportInv'
    BY <1>2, <2>1, GotoFields, StepNames DEF ReloadSeeds, DataInv, PointerInv, ReportInv,
       AttemptSeesItsCase, PointerNamesVerifiedRun, EvaluationIsBacked
  <2> QED
    BY <2>2, <2>3, <2>4
<1>3. CASE BaselineBuilt
  <2>0. db' \in [present : SUBSET Mutations, fresh : BOOLEAN] /\ Healthy'
    BY <1>3 DEF BaselineBuilt, Healthy
  <2>1. CASE Leave
    <3>1. TypeOK'
      BY <1>3, <2>0, <2>1, IdleJob DEF BaselineBuilt, TypeOK, Leave
    <3>2. PointerNamesVerifiedRun' /\ EvaluationIsBacked'
      BY <1>3 DEF BaselineBuilt, PointerInv, ReportInv, PointerNamesVerifiedRun,
                  EvaluationIsBacked
    <3> QED
      BY <2>1, <3>1, <3>2, LeaveKeepsLabInv
  <2>2. CASE Goto("VERIFY_RESTORED") /\ job.kind # "PIPELINE"
    <3>1. TypeOK'
      BY <1>3, <2>0, <2>2, GotoFields, StepNames DEF BaselineBuilt, TypeOK
    <3>2. JobInv' /\ RunInv'
      BY <1>3, <2>2, GotoFields, StepNames DEF BaselineBuilt, JobInv, RunInv
    <3>3. DataInv' /\ PointerInv' /\ ReportInv'
      BY <1>3, <2>0, <2>2, GotoFields, StepNames DEF BaselineBuilt, DataInv, PointerInv,
         ReportInv, AttemptSeesItsCase, PointerNamesVerifiedRun, EvaluationIsBacked
    <3> QED
      BY <3>1, <3>2, <3>3
  <2> QED
    BY <1>3, <2>1, <2>2 DEF BaselineBuilt
<1>4. CASE VerifyRestored
  <2>0. /\ Healthy /\ active = NoRun
        /\ UNCHANGED <<db, active, runs, archive, inputs, outcome>>
        /\ job.at = "VERIFY_RESTORED"
    BY <1>4 DEF VerifyRestored, DataInv, PointerInv
  <2>1. CASE Leave
    <3>1. TypeOK'
      BY <2>0, <2>1, IdleJob DEF TypeOK, Leave
    <3>2. PointerNamesVerifiedRun' /\ EvaluationIsBacked'
      BY <2>0 DEF PointerInv, ReportInv, PointerNamesVerifiedRun, EvaluationIsBacked
    <3> QED
      BY <2>1, <3>1, <3>2, LeaveKeepsLabInv
  <2>2. CASE job.restoring /\ job' = [job EXCEPT !.recovered = TRUE, !.at = "ASSESS"]
    <3>1. /\ job' \in Jobs
          /\ job'.at = "ASSESS" /\ job'.kind = job.kind /\ job'.case = job.case
          /\ job'.run = job.run /\ job'.restoring /\ job'.recovered
          /\ job'.diagnosed = job.diagnosed
      BY <2>2, StepNames DEF TypeOK, Jobs
    <3>2. TypeOK' /\ JobInv' /\ RunInv'
      BY <2>0, <2>2, <3>1 DEF TypeOK, JobInv, RunInv
    <3>3. DataInv' /\ PointerInv' /\ ReportInv'
      BY <2>0, <3>1 DEF DataInv, PointerInv, ReportInv, Healthy,
         AttemptSeesItsCase, PointerNamesVerifiedRun, EvaluationIsBacked
    <3> QED
      BY <3>2, <3>3
  <2>3. CASE job.kind # "RESET" /\ ~job.restoring /\ Goto("CHECK_HEALTHY")
    <3>0. job.kind = "EVALUATE"
      BY <1>4, <2>0, <2>3 DEF VerifyRestored, JobInv, TypeOK, Jobs, Kinds
    <3>1. TypeOK' /\ JobInv' /\ RunInv'
      BY <2>0, <2>3, <3>0, GotoFields, StepNames DEF TypeOK, JobInv, RunInv
    <3>2. DataInv' /\ PointerInv' /\ ReportInv'
      BY <2>0, <2>3, GotoFields, StepNames DEF DataInv, PointerInv, ReportInv, Healthy,
         AttemptSeesItsCase, PointerNamesVerifiedRun, EvaluationIsBacked
    <3> QED
      BY <3>1, <3>2
  <2> QED
    BY <1>4, <2>1, <2>2, <2>3 DEF VerifyRestored
<1> QED
  BY <1>1, <1>2, <1>3, <1>4 DEF Reset

(* Preparing a case. *)
LEMMA PrepareKeepsLabInv ==
    ASSUME LabAssumption, LabInv, Prepare
    PROVE  LabInv'
<1> USE DEF LabInv, At, ResetSteps, PrepareSteps, BuildSteps
<1>1. CASE CheckHealthy
  <2>0. /\ job.case \in Cases /\ Len(Declared[job.case]) \in Nat
        /\ job' = [job EXCEPT !.at = "APPLY", !.left = Len(Declared[job.case])]
    BY <1>1, DeclaredType DEF CheckHealthy, JobInv
  <2>1. /\ job' \in Jobs
        /\ job'.at = "APPLY" /\ job'.left = Len(Declared[job.case])
        /\ job'.kind = job.kind /\ job'.case = job.case /\ job'.run = job.run
        /\ job'.restoring = job.restoring /\ job'.recovered = job.recovered
        /\ job'.diagnosed = job.diagnosed
    BY <2>0, StepNames DEF TypeOK, Jobs
  <2>2. TypeOK' /\ JobInv' /\ RunInv'
    BY <1>1, <2>0, <2>1 DEF CheckHealthy, TypeOK, JobInv, RunInv
  <2>3. {Declared[job.case][i] : i \in 1..(Len(Declared[job.case]) - job'.left)} = {}
    BY <2>0, <2>1
  <2>4. DataInv' /\ PointerInv' /\ ReportInv'
    BY <1>1, <2>1, <2>3 DEF CheckHealthy, DataInv, PointerInv, ReportInv, Healthy,
       AttemptSeesItsCase, PointerNamesVerifiedRun, EvaluationIsBacked
  <2> QED
    BY <2>2, <2>4
<1>2. CASE Apply
  <2> DEFINE declared == Declared[job.case]
             next == Len(declared) - job.left + 1
  <2>0. /\ declared \in Seq(Mutations) /\ Len(declared) \in Nat
        /\ job.left \in Nat /\ job.left > 0
        /\ job.left <= Len(declared) /\ next \in 1..Len(declared)
    BY <1>2, DeclaredType DEF Apply, JobInv, TypeOK, Jobs
  <2>1. /\ job' = [job EXCEPT !.left = @ - 1]
        /\ db' = [present |-> db.present \cup {declared[next]}, fresh |-> FALSE]
        /\ job.at = "APPLY"
    BY <1>2 DEF Apply
  <2>2. declared[next] \in Mutations
    BY <2>0
  <2>3. /\ job' \in Jobs
        /\ job'.left = job.left - 1 /\ job'.at = "APPLY" /\ job'.kind = job.kind
        /\ job'.case = job.case /\ job'.run = job.run /\ job'.restoring = job.restoring
        /\ job'.recovered = job.recovered /\ job'.diagnosed = job.diagnosed
    <3> HIDE DEF declared
    <3>1. job.left - 1 \in Nat
      BY <2>0
    <3> QED
      BY <2>1, <3>1 DEF TypeOK, Jobs
  <2>4. TypeOK'
    BY <1>2, <2>1, <2>2, <2>3 DEF Apply, TypeOK
  <2>5. JobInv' /\ RunInv'
    BY <1>2, <2>0, <2>1, <2>3 DEF Apply, JobInv, RunInv
  <2>6. job.kind = "EVALUATE" =>
          db'.present = {declared[i] : i \in 1..(Len(declared) - job'.left)}
    <3> SUFFICES ASSUME job.kind = "EVALUATE"
                 PROVE  db'.present = {declared[i] : i \in 1..(Len(declared) - job'.left)}
      OBVIOUS
    <3>1. db.present = {declared[i] : i \in 1..(Len(declared) - job.left)}
      BY <2>1 DEF DataInv
    <3> HIDE DEF declared
    <3>2. 1..(Len(declared) - job'.left) = (1..(Len(declared) - job.left)) \cup {next}
      BY <2>0, <2>3
    <3> QED
      BY <2>1, <3>1, <3>2
  <2> HIDE DEF declared, next
  <2>7. DataInv'
    BY <1>2, <2>1, <2>3, <2>6 DEF Apply, DataInv, AttemptSeesItsCase, declared
  <2>8. PointerInv' /\ ReportInv'
    BY <1>2, <2>1, <2>3 DEF Apply, PointerInv, ReportInv, PointerNamesVerifiedRun,
       EvaluationIsBacked
  <2> QED
    BY <2>4, <2>5, <2>7, <2>8
<1>3. CASE Prepared
  <2>0. /\ UNCHANGED <<db, active, runs, archive, inputs, outcome>>
        /\ job.at = "APPLY" /\ job.left = 0
    BY <1>3 DEF Prepared
  <2>1. CASE Leave
    <3>1. TypeOK'
      BY <2>0, <2>1, IdleJob DEF TypeOK, Leave
    <3>2. PointerNamesVerifiedRun' /\ EvaluationIsBacked'
      BY <2>0 DEF PointerInv, ReportInv, PointerNamesVerifiedRun, EvaluationIsBacked
    <3> QED
      BY <2>1, <3>1, <3>2, LeaveKeepsLabInv
  <2>2. CASE job.kind # "INJECT" /\ Goto("CHECK_PREPARED")
    <3>1. TypeOK' /\ JobInv' /\ RunInv'
      BY <2>0, <2>2, GotoFields, StepNames DEF TypeOK, JobInv, RunInv
    <3>2. job.kind = "EVALUATE" => db.present = MutationsOf(job.case)
      <4>1. job.kind = "EVALUATE" => job.case \in Cases
        BY DEF JobInv
      <4>2. \A n \in Nat : n - 0 = n
        OBVIOUS
      <4> QED
        BY <2>0, <4>1, <4>2, DeclaredType DEF DataInv
    <3>3. DataInv' /\ PointerInv' /\ ReportInv'
      BY <2>0, <2>2, <3>2, GotoFields, StepNames DEF DataInv, PointerInv, ReportInv,
         AttemptSeesItsCase, PointerNamesVerifiedRun, EvaluationIsBacked
    <3> QED
      BY <3>1, <3>3
  <2> QED
    BY <1>3, <2>1, <2>2 DEF Prepared
<1> QED
  BY <1>1, <1>2, <1>3 DEF Prepare

(* Building and verifying a run. *)
LEMMA BuildKeepsLabInv ==
    ASSUME LabAssumption, LabInv, Build
    PROVE  LabInv'
<1> USE DEF LabInv, At, ResetSteps, PrepareSteps, BuildSteps
<1>1. CASE CheckPrepared
  <2>1. Goto("MAKE_RUN") /\ active' = NoRun /\ AllInjected(job.case)
    BY <1>1 DEF CheckPrepared
  <2>2. TypeOK' /\ JobInv' /\ RunInv'
    BY <1>1, <2>1, GotoFields, StepNames DEF CheckPrepared, TypeOK, JobInv, RunInv
  <2>3. DataInv' /\ PointerInv' /\ ReportInv'
    BY <1>1, <2>1, GotoFields, StepNames DEF CheckPrepared, DataInv, PointerInv, ReportInv,
       AttemptSeesItsCase, PointerNamesVerifiedRun, EvaluationIsBacked
  <2> QED
    BY <2>2, <2>3
<1>2. ASSUME NEW r \in Runs, MakeRun(r)
      PROVE  LabInv'
  <2>0. /\ runs[r].stage = "ABSENT" /\ job.at = "MAKE_RUN" /\ active = NoRun
        /\ runs' = [runs EXCEPT ![r] = [stage |-> "BEGUN", case |-> job.case, seen |-> {}]]
        /\ job' = [job EXCEPT !.at = "MAKE_PRIVATE", !.run = r]
        /\ UNCHANGED <<db, active, archive, inputs, outcome>>
    BY <1>2 DEF MakeRun, PointerInv
  <2>1. /\ job' \in Jobs
        /\ job'.at = "MAKE_PRIVATE" /\ job'.run = r /\ job'.kind = job.kind /\ job'.case = job.case
        /\ job'.restoring = job.restoring /\ job'.recovered = job.recovered
        /\ job'.diagnosed = job.diagnosed
    BY <2>0, StepNames DEF TypeOK, Jobs
  <2>2. /\ runs' \in [Runs -> [stage : Stages, case : Cases \cup {NoCase}, seen : SUBSET Mutations]]
        /\ runs'[r].stage = "BEGUN" /\ runs'[r].case = job.case
        /\ \A o \in Runs \ {r} : runs'[o] = runs[o]
    BY <2>0 DEF TypeOK, Stages, Jobs
  <2>3. r # NoRun /\ ~job.diagnosed
    BY <2>0 DEF LabAssumption, JobInv
  <2>4. TypeOK' /\ JobInv'
    BY <2>0, <2>1, <2>2 DEF TypeOK, JobInv
  <2>5. RunInv'
    BY <2>1, <2>2, <2>3 DEF RunInv
  <2>6. DataInv' /\ PointerInv'
    BY <2>0, <2>1, <2>2 DEF DataInv, PointerInv, AttemptSeesItsCase, PointerNamesVerifiedRun
  <2>7. ReportInv'
    BY <2>0, <2>1, <2>2 DEF ReportInv, EvaluationIsBacked
  <2> QED
    BY <2>4, <2>5, <2>6, <2>7
<1>6. CASE MakePrivate
  <2> DEFINE made == [runs[job.run] EXCEPT !.stage = "MADE"]
  <2>0. /\ job.at = "MAKE_PRIVATE" /\ active = NoRun /\ job.run \in Runs
        /\ runs[job.run].stage = "BEGUN"
        /\ runs' = [runs EXCEPT ![job.run] = made]
        /\ Goto("RUN_DBT")
        /\ UNCHANGED <<db, active, archive, inputs, outcome>>
    BY <1>6 DEF MakePrivate, PointerInv, RunInv, TypeOK, Jobs
  <2>1. /\ made \in [stage : Stages, case : Cases \cup {NoCase}, seen : SUBSET Mutations]
        /\ made.stage = "MADE" /\ made.seen = runs[job.run].seen
        /\ made.case = runs[job.run].case
    BY <2>0 DEF TypeOK, Stages
  <2> HIDE DEF made
  <2>2. /\ runs' \in [Runs -> [stage : Stages, case : Cases \cup {NoCase}, seen : SUBSET Mutations]]
        /\ runs'[job.run] = made
        /\ \A o \in Runs \ {job.run} : runs'[o] = runs[o]
    BY <2>0, <2>1 DEF TypeOK
  <2>3. TypeOK' /\ JobInv'
    BY <2>0, <2>2, GotoFields, StepNames DEF TypeOK, JobInv
  <2>4. RunInv'
    BY <2>0, <2>1, <2>2, GotoFields, StepNames DEF RunInv, Stages, LabAssumption, JobInv
  <2>5. DataInv' /\ PointerInv'
    BY <2>0, <2>1, <2>2, GotoFields, StepNames
    DEF DataInv, PointerInv, AttemptSeesItsCase, PointerNamesVerifiedRun, JobInv
  <2>6. ReportInv'
    BY <2>0, <2>1, <2>2, GotoFields, StepNames DEF ReportInv, EvaluationIsBacked
  <2> QED
    BY <2>3, <2>4, <2>5, <2>6
<1>3. CASE RunDbt
  <2> DEFINE captured == [runs[job.run] EXCEPT !.stage = "CAPTURED", !.seen = db.present]
  <2>0. /\ job.at = "RUN_DBT" /\ active = NoRun /\ job.run \in Runs
        /\ runs[job.run].stage = "MADE"
        /\ db'.present = db.present /\ db' = [db EXCEPT !.fresh = FailedNodes(job.case, db.present) = {}]
        /\ runs' = [runs EXCEPT ![job.run] = captured]
        /\ Goto("VERIFY")
        /\ UNCHANGED <<active, archive, inputs, outcome>>
    BY <1>3 DEF RunDbt, PointerInv, RunInv, TypeOK, Jobs
  <2>1. /\ captured \in [stage : Stages, case : Cases \cup {NoCase}, seen : SUBSET Mutations]
        /\ captured.stage = "CAPTURED" /\ captured.seen = db.present
        /\ captured.case = runs[job.run].case
    BY <2>0 DEF TypeOK, Stages
  <2> HIDE DEF captured
  <2>2. /\ runs' \in [Runs -> [stage : Stages, case : Cases \cup {NoCase}, seen : SUBSET Mutations]]
        /\ runs'[job.run] = captured
        /\ \A o \in Runs \ {job.run} : runs'[o] = runs[o]
    BY <2>0, <2>1 DEF TypeOK
  <2>3. TypeOK' /\ JobInv'
    BY <2>0, <2>2, GotoFields, StepNames DEF TypeOK, JobInv
  <2>4. RunInv'
    BY <2>0, <2>1, <2>2, GotoFields, StepNames DEF RunInv, Stages, LabAssumption, JobInv
  <2>5. DataInv' /\ PointerInv'
    BY <2>0, <2>1, <2>2, GotoFields, StepNames
    DEF DataInv, PointerInv, AttemptSeesItsCase, PointerNamesVerifiedRun, JobInv
  <2>6. ReportInv'
    BY <2>0, <2>1, <2>2, GotoFields, StepNames DEF ReportInv, EvaluationIsBacked
  <2> QED
    BY <2>3, <2>4, <2>5, <2>6
<1>4. CASE Verify
  <2> DEFINE verified == [runs[job.run] EXCEPT !.stage = "VERIFIED"]
  <2>0. /\ job.at = "VERIFY" /\ active = NoRun /\ job.run \in Runs
        /\ runs[job.run].stage = "CAPTURED"
        /\ runs' = [runs EXCEPT ![job.run] = verified]
        /\ Goto("PUBLISH")
        /\ UNCHANGED <<db, active, archive, inputs, outcome>>
    BY <1>4 DEF Verify, PointerInv, RunInv, TypeOK, Jobs
  <2>1. /\ verified \in [stage : Stages, case : Cases \cup {NoCase}, seen : SUBSET Mutations]
        /\ verified.stage = "VERIFIED" /\ verified.seen = runs[job.run].seen
        /\ verified.case = runs[job.run].case
    BY <2>0 DEF TypeOK, Stages
  <2> HIDE DEF verified
  <2>2. /\ runs' \in [Runs -> [stage : Stages, case : Cases \cup {NoCase}, seen : SUBSET Mutations]]
        /\ runs'[job.run] = verified
        /\ \A o \in Runs \ {job.run} : runs'[o] = runs[o]
    BY <2>0, <2>1 DEF TypeOK
  <2>3. TypeOK' /\ JobInv'
    BY <2>0, <2>2, GotoFields, StepNames DEF TypeOK, JobInv
  <2>4. RunInv'
    BY <2>0, <2>1, <2>2, GotoFields, StepNames DEF RunInv, Stages, LabAssumption, JobInv
  <2>5. DataInv' /\ PointerInv'
    BY <2>0, <2>1, <2>2, GotoFields, StepNames
    DEF DataInv, PointerInv, AttemptSeesItsCase, PointerNamesVerifiedRun, JobInv
  <2>6. ReportInv'
    BY <2>0, <2>1, <2>2, GotoFields, StepNames DEF ReportInv, EvaluationIsBacked
  <2> QED
    BY <2>3, <2>4, <2>5, <2>6
<1>5. CASE PublishActiveRun
  <2>0. /\ job.at = "PUBLISH" /\ job.run \in Runs /\ runs[job.run].stage = "VERIFIED"
        /\ active' = job.run
        /\ UNCHANGED <<db, runs, archive, inputs, outcome>>
    BY <1>5 DEF PublishActiveRun, RunInv, TypeOK, Jobs
  <2>1. PointerNamesVerifiedRun' /\ EvaluationIsBacked'
    BY <2>0 DEF ReportInv, PointerNamesVerifiedRun, EvaluationIsBacked
  <2>2. CASE Leave
    <3>1. TypeOK'
      BY <2>0, <2>2, IdleJob DEF TypeOK, Leave
    <3> QED
      BY <2>1, <2>2, <3>1, LeaveKeepsLabInv
  <2>3. CASE job.kind # "BUILD" /\ Goto("SETUP")
    <3>0. job.kind = "EVALUATE" \/ job.kind # "EVALUATE"
      OBVIOUS
    <3>1. TypeOK' /\ RunInv'
      BY <2>0, <2>3, GotoFields, StepNames DEF TypeOK, RunInv
    <3>2. JobInv'
      BY <2>0, <2>3, GotoFields, StepNames DEF JobInv
    <3>3. DataInv' /\ PointerInv' /\ ReportInv'
      BY <2>0, <2>1, <2>3, GotoFields, StepNames DEF DataInv, PointerInv, ReportInv,
         AttemptSeesItsCase, JobInv
    <3> QED
      BY <3>1, <3>2, <3>3
  <2> QED
    BY <1>5, <2>2, <2>3 DEF PublishActiveRun
<1> QED
  BY <1>1, <1>2, <1>3, <1>4, <1>5, <1>6 DEF Build

(* Going to the finally block, with or without an error or a diagnosis. *)
LEMMA RestoreKeepsLabInv ==
    ASSUME LabAssumption, LabInv, NEW j \in Jobs, job' = BeginRestore(j),
           job.kind = "EVALUATE", ~job.restoring,
           j.kind = job.kind, j.case = job.case, j.run = job.run, j.recovered = job.recovered,
           j.diagnosed => job.at = "DIAGNOSE",
           db' \in [present : SUBSET Mutations, fresh : BOOLEAN], active' \in {active, NoRun},
           UNCHANGED <<runs, archive, inputs, outcome>>
    PROVE  LabInv'
<1> USE DEF LabInv, ResetSteps, PrepareSteps, BuildSteps
<1>0. job.case \in Cases /\ Len(Declared[job.case]) \in Nat
  BY DeclaredType DEF JobInv
<1>1. /\ job' \in Jobs
      /\ job'.at = "UNDO" /\ job'.restoring /\ job'.left = Len(Declared[job.case])
      /\ job'.kind = job.kind /\ job'.case = job.case /\ job'.run = job.run
      /\ job'.recovered = job.recovered /\ job'.diagnosed = j.diagnosed
  BY <1>0, StepNames DEF BeginRestore, Jobs
<1>2. ~job.recovered
  BY DEF ReportInv, JobInv
<1>3. TypeOK' /\ JobInv' /\ RunInv'
  BY <1>0, <1>1 DEF TypeOK, JobInv, RunInv
<1>4. DataInv' /\ PointerInv' /\ ReportInv'
  BY <1>1, <1>2 DEF DataInv, PointerInv, ReportInv, AttemptSeesItsCase,
     PointerNamesVerifiedRun, EvaluationIsBacked
<1> QED
  BY <1>3, <1>4

(* What an evaluation hands its caller. *)
LEMMA FinishKeepsLabInv ==
    ASSUME LabAssumption, LabInv,
           NEW kind \in {"RETURNED", "RAISED", "CANCELLED"},
           NEW code \in Phases \cup {"NONE", "ARTIFACT_WRITE", "SCORING_INPUTS_WRITE"},
           Finish(kind, code),
           UNCHANGED <<db, active, runs, archive>>,
           inputs' \in SUBSET Runs, EvaluationIsBacked'
    PROVE  LabInv'
<1>1. outcome' \in Outcomes
  BY DEF Finish, LabInv, TypeOK, Jobs, Outcomes
<1>2. TypeOK'
  BY <1>1, IdleJob DEF Finish, Leave, LabInv, TypeOK
<1>3. PointerNamesVerifiedRun'
  BY DEF LabInv, PointerInv, PointerNamesVerifiedRun
<1> QED
  BY <1>2, <1>3, LeaveKeepsLabInv DEF Finish

(* From the diagnosis to the result. *)
LEMMA AttemptKeepsLabInv ==
    ASSUME LabAssumption, LabInv, Attempt
    PROVE  LabInv'
<1> USE DEF LabInv, At, ResetSteps, PrepareSteps, BuildSteps
<1>1. CASE SetUpDiagnosis
  <2>1. PICK loaded \in BOOLEAN : job' = [job EXCEPT !.policy = loaded, !.at = "DIAGNOSE"]
    BY <1>1 DEF SetUpDiagnosis
  <2>2. /\ job' \in Jobs
        /\ job'.at = "DIAGNOSE" /\ job'.kind = job.kind /\ job'.case = job.case
        /\ job'.run = job.run /\ job'.restoring = job.restoring
        /\ job'.recovered = job.recovered /\ job'.diagnosed = job.diagnosed
    BY <2>1, StepNames DEF TypeOK, Jobs
  <2>3. TypeOK' /\ JobInv' /\ RunInv'
    BY <1>1, <2>2 DEF SetUpDiagnosis, TypeOK, JobInv, RunInv
  <2>4. DataInv' /\ PointerInv' /\ ReportInv'
    BY <1>1, <2>2 DEF SetUpDiagnosis, DataInv, PointerInv, ReportInv, AttemptSeesItsCase,
       PointerNamesVerifiedRun, EvaluationIsBacked
  <2> QED
    BY <2>3, <2>4
<1>2. CASE Diagnosed
  <2> DEFINE j == [job EXCEPT !.diagnosed = TRUE]
  <2>1. /\ job.at = "DIAGNOSE" /\ job.kind = "EVALUATE" /\ ~job.restoring
        /\ job' = BeginRestore(j) /\ UNCHANGED <<db, active, runs, archive, inputs, outcome>>
    BY <1>2 DEF Diagnosed, JobInv
  <2>2. /\ j \in Jobs /\ j.kind = job.kind /\ j.case = job.case /\ j.run = job.run
        /\ j.recovered = job.recovered
    BY DEF TypeOK, Jobs
  <2> HIDE DEF j
  <2>3. db' \in [present : SUBSET Mutations, fresh : BOOLEAN]
    BY <2>1 DEF TypeOK
  <2> QED
    BY <2>1, <2>2, <2>3, RestoreKeepsLabInv
<1>3. CASE Cancelled
  <2> DEFINE j == [job EXCEPT !.cancelled = TRUE]
  <2>1. /\ job.at = "DIAGNOSE" /\ job.kind = "EVALUATE" /\ ~job.restoring
        /\ job' = BeginRestore(j) /\ UNCHANGED <<db, active, runs, archive, inputs, outcome>>
    BY <1>3 DEF Cancelled, JobInv
  <2>2. /\ j \in Jobs /\ j.kind = job.kind /\ j.case = job.case /\ j.run = job.run
        /\ j.recovered = job.recovered
    BY DEF TypeOK, Jobs
  <2> HIDE DEF j
  <2>3. db' \in [present : SUBSET Mutations, fresh : BOOLEAN]
    BY <2>1 DEF TypeOK
  <2> QED
    BY <2>1, <2>2, <2>3, RestoreKeepsLabInv
<1>4. CASE Undo
  <2>1. /\ job.at = "UNDO" /\ job.left > 0 /\ job.left \in Nat
        /\ job' = [job EXCEPT !.left = @ - 1]
        /\ UNCHANGED <<active, runs, archive, inputs, outcome>>
    BY <1>4 DEF Undo, TypeOK, Jobs
  <2>2. /\ job' \in Jobs
        /\ job'.at = "UNDO" /\ job'.left = job.left - 1 /\ job'.kind = job.kind
        /\ job'.case = job.case /\ job'.run = job.run /\ job'.restoring = job.restoring
        /\ job'.recovered = job.recovered /\ job'.diagnosed = job.diagnosed
    <3>1. job.left - 1 \in Nat
      BY <2>1
    <3> QED
      BY <2>1, <3>1 DEF TypeOK, Jobs
  <2>3. db' \in [present : SUBSET Mutations, fresh : BOOLEAN]
    BY <1>4 DEF Undo, TypeOK
  <2>4. Len(Declared[job.case]) \in Nat
    BY <2>1, DeclaredType DEF JobInv
  <2>5. TypeOK' /\ JobInv' /\ RunInv'
    BY <2>1, <2>2, <2>3, <2>4 DEF TypeOK, JobInv, RunInv
  <2>6. DataInv' /\ PointerInv' /\ ReportInv'
    BY <2>1, <2>2 DEF DataInv, PointerInv, ReportInv, AttemptSeesItsCase,
       PointerNamesVerifiedRun, EvaluationIsBacked
  <2> QED
    BY <2>5, <2>6
<1>5. CASE Undone
  <2>1. Goto("CLEAR") /\ job.at = "UNDO" /\ UNCHANGED <<db, active, runs, archive, inputs, outcome>>
    BY <1>5 DEF Undone
  <2>2. TypeOK' /\ JobInv' /\ RunInv'
    BY <2>1, GotoFields, StepNames DEF TypeOK, JobInv, RunInv
  <2>3. DataInv' /\ PointerInv' /\ ReportInv'
    BY <2>1, GotoFields, StepNames DEF DataInv, PointerInv, ReportInv, AttemptSeesItsCase,
       PointerNamesVerifiedRun, EvaluationIsBacked
  <2> QED
    BY <2>2, <2>3
<1>6. CASE LeaveWithoutResult
  <2>1. /\ UNCHANGED <<db, active, runs, archive, inputs>>
        /\ EvaluationIsBacked' /\ inputs' \in SUBSET Runs
    BY <1>6 DEF LeaveWithoutResult, TypeOK, ReportInv, EvaluationIsBacked
  <2>2. job.error \in Phases \cup {"NONE"}
    BY DEF TypeOK, Jobs
  <2> QED
    BY <1>6, <2>1, <2>2, FinishKeepsLabInv DEF LeaveWithoutResult
<1>7. CASE Assess
  <2>1. PICK e \in Evaluations :
          job' = [job EXCEPT !.verdict = e.verdict, !.check = e.check,
                             !.verified = e.verified, !.at = "ARCHIVE"]
    BY <1>7 DEF Assess
  <2>2. /\ e.verdict \in {"PASSED", "FAILED"} /\ e.check \in BOOLEAN /\ e.verified \in BOOLEAN
        /\ e.verdict = "PASSED" => job.recovered
    <3> DEFINE failed == [verdict |-> "FAILED", check |-> FALSE, verified |-> FALSE]
    <3>1. job.recovered \in BOOLEAN
      BY DEF TypeOK, Jobs
    <3>2. CASE e = failed
      BY <3>2
    <3>3. CASE e = [failed EXCEPT !.verified = TRUE]
      BY <3>3
    <3>4. CASE e = [verdict |-> "FAILED", check |-> job.recovered, verified |-> TRUE]
      BY <3>1, <3>4
    <3>5. CASE job.recovered /\ e = [verdict |-> "PASSED", check |-> TRUE, verified |-> TRUE]
      BY <3>5
    <3> HIDE DEF failed
    <3> QED
      BY <3>2, <3>3, <3>4, <3>5 DEF Evaluations, failed
  <2>3. /\ job' \in Jobs
        /\ job'.at = "ARCHIVE" /\ job'.kind = job.kind /\ job'.case = job.case
        /\ job'.run = job.run /\ job'.restoring = job.restoring
        /\ job'.recovered = job.recovered /\ job'.diagnosed = job.diagnosed
        /\ job'.verdict = e.verdict
    BY <2>1, <2>2, StepNames DEF TypeOK, Jobs
  <2>4. TypeOK' /\ JobInv' /\ RunInv'
    BY <1>7, <2>3 DEF Assess, TypeOK, JobInv, RunInv
  <2>5. DataInv' /\ PointerInv' /\ ReportInv'
    BY <1>7, <2>2, <2>3 DEF Assess, DataInv, PointerInv, ReportInv, AttemptSeesItsCase, Healthy,
       PointerNamesVerifiedRun, EvaluationIsBacked
  <2> QED
    BY <2>4, <2>5
<1>8. CASE WriteArtifact
  <2>1. /\ job.at = "ARCHIVE" /\ Goto("SCORE") /\ archive[job.run] = "NONE"
        /\ archive' = [archive EXCEPT ![job.run] = job.verdict]
        /\ UNCHANGED <<db, active, runs, inputs, outcome>>
    BY <1>8 DEF WriteArtifact
  <2>2. /\ job.run \in Runs /\ job.verdict \in {"PASSED", "FAILED"}
        /\ runs[job.run].stage = "VERIFIED" /\ runs[job.run].seen = MutationsOf(job.case)
        /\ runs[job.run].case = job.case
    BY <2>1 DEF ReportInv, RunInv, DataInv, JobInv, AttemptSeesItsCase, TypeOK, Jobs
  <2>3. /\ archive' \in [Runs -> {"NONE", "PASSED", "FAILED"}]
        /\ archive'[job.run] = job.verdict
        /\ \A o \in Runs \ {job.run} : archive'[o] = archive[o]
    BY <2>1, <2>2 DEF TypeOK
  <2>4. TypeOK' /\ JobInv' /\ RunInv'
    BY <2>1, <2>3, GotoFields, StepNames DEF TypeOK, JobInv, RunInv
  <2>5. DataInv' /\ PointerInv'
    BY <2>1, GotoFields, StepNames DEF DataInv, PointerInv, AttemptSeesItsCase,
       PointerNamesVerifiedRun
  <2>6. EvaluationIsBacked'
    BY <2>1, <2>2, <2>3 DEF ReportInv, EvaluationIsBacked
  <2>7. ReportInv'
    BY <2>1, <2>3, <2>6, GotoFields, StepNames DEF ReportInv, Healthy
  <2> QED
    BY <2>4, <2>5, <2>7
<1>9. CASE ArtifactFails
  <2>1. /\ UNCHANGED <<db, active, runs, archive, inputs>>
        /\ EvaluationIsBacked' /\ inputs' \in SUBSET Runs
    BY <1>9 DEF ArtifactFails, TypeOK, ReportInv, EvaluationIsBacked
  <2> QED
    BY <1>9, <2>1, FinishKeepsLabInv DEF ArtifactFails
<1>10. CASE WriteScoringInputs
  <2>1. job.run \in Runs /\ archive[job.run] # "NONE"
    BY <1>10 DEF WriteScoringInputs, RunInv, ReportInv, TypeOK, Jobs
  <2>2. /\ UNCHANGED <<db, active, runs, archive>>
        /\ inputs' \in {inputs, inputs \cup {job.run}}
    BY <1>10 DEF WriteScoringInputs
  <2>3. inputs' \in SUBSET Runs /\ EvaluationIsBacked'
    BY <2>1, <2>2 DEF TypeOK, ReportInv, EvaluationIsBacked
  <2> QED
    BY <1>10, <2>2, <2>3, FinishKeepsLabInv DEF WriteScoringInputs
<1>11. CASE ScoringInputsFail
  <2>1. /\ UNCHANGED <<db, active, runs, archive, inputs>>
        /\ EvaluationIsBacked' /\ inputs' \in SUBSET Runs
    BY <1>11 DEF ScoringInputsFail, TypeOK, ReportInv, EvaluationIsBacked
  <2> QED
    BY <1>11, <2>1, FinishKeepsLabInv DEF ScoringInputsFail
<1> QED
  BY <1>1, <1>2, <1>3, <1>4, <1>5, <1>6, <1>7, <1>8, <1>9, <1>10, <1>11 DEF Attempt

(* What an unfinished step may leave of the data is still data. *)
LEMMA InterimType ==
    ASSUME TypeOK, NEW d \in Interim
    PROVE  d \in [present : SUBSET Mutations, fresh : BOOLEAN]
<1>1. d \in {db, [db EXCEPT !.fresh = FALSE], [present |-> {}, fresh |-> TRUE]}
  BY DEF Interim
<1>2. [db EXCEPT !.fresh = FALSE] \in [present : SUBSET Mutations, fresh : BOOLEAN]
  BY DEF TypeOK
<1>3. [present |-> {}, fresh |-> TRUE] \in [present : SUBSET Mutations, fresh : BOOLEAN]
  OBVIOUS
<1> QED
  BY <1>1, <1>2, <1>3 DEF TypeOK

(* Any step may raise. *)
LEMMA RaiseKeepsLabInv ==
    ASSUME LabAssumption, LabInv, Raise
    PROVE  LabInv'
<1> USE DEF LabInv, ResetSteps, PrepareSteps, BuildSteps
<1>1. /\ db' \in [present : SUBSET Mutations, fresh : BOOLEAN]
      /\ active' \in {active, NoRun}
      /\ UNCHANGED <<runs, archive, inputs, outcome>>
      /\ job.at \notin {"ASSESS", "ARCHIVE", "SCORE"}
      /\ job.kind # "IDLE" /\ job' = AfterRaise
  BY InterimType DEF Raise
<1>2. CASE job.kind # "EVALUATE"
  <2>1. Leave
    <3>1. ~job.restoring
      BY <1>2 DEF JobInv
    <3> QED
      BY <1>1, <1>2, <3>1 DEF AfterRaise, Leave
  <2>2. TypeOK'
    BY <1>1, <2>1, IdleJob DEF Leave, TypeOK
  <2>3. PointerNamesVerifiedRun' /\ EvaluationIsBacked'
    BY <1>1 DEF PointerInv, ReportInv, PointerNamesVerifiedRun, EvaluationIsBacked
  <2> QED
    BY <2>1, <2>2, <2>3, LeaveKeepsLabInv
<1>3. CASE job.kind = "EVALUATE" /\ job.restoring
  <2>1. job' = [job EXCEPT !.at = "ASSESS",
                           !.error = IF job.error = "NONE" THEN "RESTORE" ELSE job.error]
    BY <1>1, <1>3 DEF AfterRaise
  <2>2. /\ job' \in Jobs
        /\ job'.at = "ASSESS" /\ job'.kind = job.kind /\ job'.case = job.case
        /\ job'.run = job.run /\ job'.restoring = job.restoring
        /\ job'.recovered = job.recovered /\ job'.diagnosed = job.diagnosed
    BY <2>1, StepNames DEF TypeOK, Jobs, Phases
  <2>3. ~job.recovered
    BY <1>1 DEF ReportInv
  <2>4. TypeOK' /\ JobInv' /\ RunInv'
    BY <1>1, <1>3, <2>2 DEF TypeOK, JobInv, RunInv
  <2>5. DataInv' /\ PointerInv' /\ ReportInv'
    BY <1>1, <2>2, <2>3 DEF DataInv, PointerInv, ReportInv, AttemptSeesItsCase,
       PointerNamesVerifiedRun, EvaluationIsBacked
  <2> QED
    BY <2>4, <2>5
<1>4. CASE job.kind = "EVALUATE" /\ ~job.restoring
  <2> DEFINE j == [job EXCEPT !.error = PhaseOf(job.at)]
  <2>1. job' = BeginRestore(j)
    BY <1>1, <1>4 DEF AfterRaise
  <2>2. PhaseOf(job.at) \in Phases
    BY <1>1, <1>4, StepNames DEF PhaseOf, Phases, JobInv, TypeOK, Jobs
  <2>3. /\ j \in Jobs /\ j.kind = job.kind /\ j.case = job.case /\ j.run = job.run
        /\ j.recovered = job.recovered /\ ~j.diagnosed
    BY <1>4, <2>2 DEF TypeOK, Jobs, JobInv
  <2> HIDE DEF j
  <2> QED
    BY <1>1, <1>4, <2>1, <2>3, RestoreKeepsLabInv
<1> QED
  BY <1>2, <1>3, <1>4 DEF TypeOK, Jobs

(* A process may be killed between any two steps. *)
LEMMA KillKeepsLabInv ==
    ASSUME LabAssumption, LabInv, Kill
    PROVE  LabInv'
<1>1. TypeOK'
  BY IdleJob, InterimType DEF Kill, Leave, LabInv, TypeOK
<1>2. PointerNamesVerifiedRun' /\ EvaluationIsBacked'
  BY DEF Kill, LabInv, PointerInv, ReportInv, PointerNamesVerifiedRun, EvaluationIsBacked
<1> QED
  BY <1>1, <1>2, LeaveKeepsLabInv DEF Kill

(* Every step of every process keeps the invariant. *)
LEMMA NextLabInv ==
    ASSUME LabAssumption, LabInv, [Next]_vars
    PROVE  LabInv'
<1>1. CASE Next
  BY <1>1, StartKeepsLabInv, ResetKeepsLabInv, PrepareKeepsLabInv, BuildKeepsLabInv,
     AttemptKeepsLabInv, RaiseKeepsLabInv, KillKeepsLabInv DEF Next
<1>2. CASE UNCHANGED vars
  BY <1>2 DEF vars, LabInv, TypeOK, JobInv, RunInv, DataInv, PointerInv, ReportInv, Healthy,
     AttemptSeesItsCase, PointerNamesVerifiedRun, EvaluationIsBacked
<1> QED
  BY <1>1, <1>2

(* The parts a process and the files agree on hold in every state. *)
THEOREM LabInvHolds == Spec => []LabInv
<1>1. Init => LabInv
  BY InitLabInv, LabAssumption
<1>2. LabInv /\ [Next]_vars => LabInv'
  BY NextLabInv, LabAssumption
<1> QED
  BY <1>1, <1>2, PTL DEF Spec

-----------------------------------------------------------------------------
(* What follows from the invariant *)

(* Every variable keeps its type. *)
THEOREM TypeCorrect == Spec => []TypeOK
BY LabInvHolds, PTL DEF LabInv

(* No crash and no failure leaves the pointer on a run that was not verified. *)
THEOREM PointerAlwaysVerified == Spec => []PointerNamesVerifiedRun
<1>1. LabInv => PointerNamesVerifiedRun
  BY DEF LabInv, PointerInv
<1> QED
  BY <1>1, LabInvHolds, PTL

(* An evaluation shows its diagnosis its own case and nothing else. *)
THEOREM AttemptAlwaysSeesItsCase == Spec => []AttemptSeesItsCase
<1>1. LabInv => AttemptSeesItsCase
  BY DEF LabInv, DataInv
<1> QED
  BY <1>1, LabInvHolds, PTL

(* A passed bundle rests on a verified run of its case, and scoring inputs on a *)
(* published bundle.                                                          *)
THEOREM EvaluationAlwaysBacked == Spec => []EvaluationIsBacked
<1>1. LabInv => EvaluationIsBacked
  BY DEF LabInv, ReportInv
<1> QED
  BY <1>1, LabInvHolds, PTL

-----------------------------------------------------------------------------
(* What a step may never do *)

(* The data changes under a standing pointer only when a case is undone.      *)
THEOREM PointerAlwaysClearedFirst == Spec => PointerClearedFirst
<1>1. LabInv /\ [Next]_vars =>
        [db' # db /\ job.at # "UNDO" /\ job.kind # "PIPELINE" => active = NoRun]_vars
  <2> SUFFICES ASSUME LabInv, Next, db' # db, job.at # "UNDO", job.kind # "PIPELINE"
               PROVE  active = NoRun
    OBVIOUS
  <2>1. \/ ReloadSeeds \/ BaselineBuilt \/ Apply \/ RunDbt \/ Raise \/ Kill
    BY DEF Next, Start, Reset, ResetClear, VerifyRestored, Prepare, CheckHealthy, Prepared,
           Build, CheckPrepared, MakeRun, MakePrivate, Verify, PublishActiveRun, Attempt, SetUpDiagnosis,
           Diagnosed, Cancelled, Undo, Undone, LeaveWithoutResult, Assess, WriteArtifact,
           ArtifactFails, WriteScoringInputs, ScoringInputsFail, At
  <2>2. job.at \in {"RELOAD", "RELOADED", "APPLY", "RUN_DBT"}
    BY <2>1 DEF ReloadSeeds, BaselineBuilt, Apply, RunDbt, Raise, Kill, Interim, At
  <2> QED
    BY <2>2 DEF LabInv, PointerInv
<1> QED
  BY <1>1, LabInvHolds, PTL DEF Spec, PointerClearedFirst

(* Once a run has its directory only the process that made it writes there.    *)
THEOREM RunAlwaysBelongsToOneBuild == Spec => RunBelongsToOneBuild
<1> DEFINE Owned == \A r \in Runs : runs[r].stage # "ABSENT" /\ runs'[r] # runs[r] =>
                      job.run = r /\ runs'[r].case = runs[r].case
<1>1. LabInv /\ [Next]_vars => [Owned]_vars
  <2> SUFFICES ASSUME LabInv, Next
               PROVE  Owned
    OBVIOUS
  <2>1. CASE UNCHANGED runs
    BY <2>1
  <2>2. ASSUME NEW r \in Runs, MakeRun(r)
        PROVE  Owned
    BY <2>2 DEF MakeRun, LabInv, TypeOK
  <2>3. CASE MakePrivate
    <3>1. runs' = [runs EXCEPT ![job.run] = [runs[job.run] EXCEPT !.stage = "MADE"]]
      BY <2>3 DEF MakePrivate
    <3>2. job.run \in Runs
      BY <2>3 DEF MakePrivate, At, LabInv, RunInv, TypeOK, Jobs
    <3>3. /\ runs'[job.run].case = runs[job.run].case
          /\ \A r \in Runs \ {job.run} : runs'[r] = runs[r]
      BY <3>1, <3>2 DEF LabInv, TypeOK
    <3> QED
      BY <3>3
  <2>4. CASE RunDbt
    <3>1. runs' = [runs EXCEPT ![job.run] = [runs[job.run] EXCEPT !.stage = "CAPTURED",
                                                                  !.seen = db.present]]
      BY <2>4 DEF RunDbt
    <3>2. job.run \in Runs
      BY <2>4 DEF RunDbt, At, LabInv, RunInv, TypeOK, Jobs
    <3>3. /\ runs'[job.run].case = runs[job.run].case
          /\ \A r \in Runs \ {job.run} : runs'[r] = runs[r]
      BY <3>1, <3>2 DEF LabInv, TypeOK
    <3> QED
      BY <3>3
  <2>5. CASE Verify
    <3>1. runs' = [runs EXCEPT ![job.run] = [runs[job.run] EXCEPT !.stage = "VERIFIED"]]
      BY <2>5 DEF Verify
    <3>2. job.run \in Runs
      BY <2>5 DEF Verify, At, LabInv, RunInv, TypeOK, Jobs
    <3>3. /\ runs'[job.run].case = runs[job.run].case
          /\ \A r \in Runs \ {job.run} : runs'[r] = runs[r]
      BY <3>1, <3>2 DEF LabInv, TypeOK
    <3> QED
      BY <3>3
  <2> QED
    BY <2>1, <2>2, <2>3, <2>4, <2>5
    DEF Next, Start, Reset, ResetClear, ReloadSeeds, BaselineBuilt, VerifyRestored, Prepare,
        CheckHealthy, Apply, Prepared, Build, CheckPrepared, PublishActiveRun, Attempt,
        SetUpDiagnosis, Diagnosed, Cancelled, Undo, Undone, LeaveWithoutResult, Assess,
        WriteArtifact, ArtifactFails, WriteScoringInputs, ScoringInputsFail, Raise, Kill
<1> QED
  BY <1>1, LabInvHolds, PTL DEF Spec, RunBelongsToOneBuild

(* An attempt that failed before its restore has neither a diagnosis nor a      *)
(* cancellation to tell of, and an evaluation has told nothing before it ends. *)
ErrorInv ==
  /\ job.error # "NONE" => job.restoring
  /\ job.cancelled => job.restoring
  /\ job.error \notin {"NONE", "RESTORE"} => ~job.cancelled /\ ~job.diagnosed
  /\ job.kind # "IDLE" => outcome = NoOutcome

(* A step keeps it, and changes no primary error but to end the job with it.   *)
LEMMA ErrorInvStep ==
    ASSUME LabAssumption, LabInv, ErrorInv, [Next]_vars
    PROVE  /\ ErrorInv'
           /\ [job.error \notin {"NONE", "RESTORE"} =>
                 \/ job'.error = job.error
                 \/ /\ job' = Idle
                    /\ \/ outcome'.kind = "RAISED" /\ outcome'.code = job.error
                       \/ outcome' = NoOutcome]_vars
<1> DEFINE Primary == job.error \notin {"NONE", "RESTORE"}
           Kept == \/ job'.error = job.error
                   \/ /\ job' = Idle
                      /\ \/ outcome'.kind = "RAISED" /\ outcome'.code = job.error
                         \/ outcome' = NoOutcome
<1> SUFFICES ErrorInv' /\ ([Next]_vars => [Primary => Kept]_vars)
  OBVIOUS
<1>0. ASSUME job' = Idle
      PROVE  ErrorInv'
  BY <1>0, IdleJob DEF ErrorInv
<1>1. CASE UNCHANGED vars
  BY <1>1 DEF vars, ErrorInv
<1>2. ASSUME Leave, UNCHANGED outcome, job.kind # "IDLE"
      PROVE  ErrorInv' /\ (Primary => Kept)
  BY <1>0, <1>2 DEF Leave, ErrorInv
<1>3. ASSUME job'.error = job.error, job'.restoring = job.restoring,
             job'.cancelled = job.cancelled, job'.diagnosed = job.diagnosed,
             job.kind # "IDLE", UNCHANGED outcome
      PROVE  ErrorInv' /\ (Primary => Kept)
  BY <1>3 DEF ErrorInv
<1>4. ASSUME NEW kind \in Kinds \ {"IDLE"}, NEW c \in Cases, Start(kind, c)
      PROVE  ErrorInv' /\ (Primary => Kept)
  <2>1. /\ job.error = "NONE" /\ job'.error = "NONE" /\ outcome' = NoOutcome
        /\ job'.cancelled = FALSE
    BY <1>4, IdleJob DEF Start, ErrorInv, LabInv, JobInv, Jobs
  <2> QED
    BY <2>1 DEF ErrorInv
<1>5. CASE Reset \/ Prepare \/ Build
  <2>1. job.kind # "IDLE" /\ UNCHANGED outcome
    BY <1>5 DEF Reset, ResetClear, ReloadSeeds, BaselineBuilt, VerifyRestored, Prepare,
       CheckHealthy, Apply, Prepared, Build, CheckPrepared, MakeRun, MakePrivate, RunDbt, Verify,
       PublishActiveRun, At
  <2>2. \/ Leave
        \/ /\ job'.error = job.error /\ job'.restoring = job.restoring
           /\ job'.cancelled = job.cancelled /\ job'.diagnosed = job.diagnosed
    <3>0. /\ job \in Jobs
          /\ \A step \in Steps : Goto(step) =>
                /\ job'.error = job.error /\ job'.restoring = job.restoring
                /\ job'.cancelled = job.cancelled /\ job'.diagnosed = job.diagnosed
      BY DEF LabInv, TypeOK, Jobs, Goto
    <3>1. CASE Reset
      <4>1. CASE VerifyRestored
        BY <3>0, <4>1, StepNames DEF VerifyRestored, Jobs
      <4> QED
        BY <3>0, <3>1, <4>1, StepNames DEF Reset, ResetClear, ReloadSeeds, BaselineBuilt
    <3>2. CASE Prepare
      BY <3>0, <3>2, StepNames DEF Prepare, CheckHealthy, Apply, Prepared, Jobs
    <3>3. CASE Build
      <4>1. ASSUME NEW r \in Runs, MakeRun(r)
            PROVE  /\ job'.error = job.error /\ job'.restoring = job.restoring
                   /\ job'.cancelled = job.cancelled /\ job'.diagnosed = job.diagnosed
        BY <3>0, <4>1 DEF MakeRun, Jobs
      <4> QED
        BY <3>0, <3>3, <4>1, StepNames
        DEF Build, CheckPrepared, MakePrivate, RunDbt, Verify, PublishActiveRun
    <3> QED
      BY <1>5, <3>1, <3>2, <3>3
  <2> QED
    BY <1>2, <1>3, <2>1, <2>2
<1>6. CASE SetUpDiagnosis \/ Undo \/ Undone \/ Assess \/ WriteArtifact
  <2>1. job.kind # "IDLE" /\ UNCHANGED outcome
    BY <1>6 DEF SetUpDiagnosis, Undo, Undone, Assess, WriteArtifact, At
  <2>2. /\ job'.error = job.error /\ job'.restoring = job.restoring
        /\ job'.cancelled = job.cancelled /\ job'.diagnosed = job.diagnosed
    <3> USE DEF LabInv, TypeOK, Jobs, Goto
    <3>1. CASE SetUpDiagnosis
      <4>1. PICK loaded \in BOOLEAN : job' = [job EXCEPT !.policy = loaded, !.at = "DIAGNOSE"]
        BY <3>1 DEF SetUpDiagnosis
      <4> QED
        BY <4>1
    <3>3. CASE Undo \/ Undone \/ WriteArtifact
      BY <3>3 DEF Undo, Undone, WriteArtifact
    <3>4. CASE Assess
      <4>1. PICK e \in Evaluations :
              job' = [job EXCEPT !.verdict = e.verdict, !.check = e.check,
                                 !.verified = e.verified, !.at = "ARCHIVE"]
        BY <3>4 DEF Assess
      <4> QED
        BY <4>1
    <3> QED
      BY <1>6, <3>1, <3>3, <3>4
  <2> QED
    BY <1>3, <2>1, <2>2
<1>10. CASE Diagnosed \/ Cancelled
  <2>1. job.kind # "IDLE" /\ job.at = "DIAGNOSE" /\ UNCHANGED outcome
    BY <1>10 DEF Diagnosed, Cancelled, At
  <2>2. job.error = "NONE"
    BY <2>1 DEF ErrorInv, LabInv, JobInv, ResetSteps
  <2>3. job'.error = job.error /\ job'.restoring = TRUE
    BY <1>10 DEF Diagnosed, Cancelled, BeginRestore, LabInv, TypeOK, Jobs
  <2> QED
    BY <2>1, <2>2, <2>3 DEF ErrorInv
<1>7. CASE LeaveWithoutResult
  <2>1. job' = Idle
    BY <1>7 DEF LeaveWithoutResult, Finish, Leave
  <2>2. Primary => outcome'.kind = "RAISED" /\ outcome'.code = job.error
    BY <1>7 DEF LeaveWithoutResult, Finish, ErrorInv
  <2> QED
    BY <1>0, <2>1, <2>2
<1>11. CASE ArtifactFails \/ WriteScoringInputs \/ ScoringInputsFail
  <2>1. job' = Idle
    BY <1>11 DEF ArtifactFails, WriteScoringInputs, ScoringInputsFail, Finish, Leave
  <2>2. ~Primary
    BY <1>11 DEF ArtifactFails, WriteScoringInputs, ScoringInputsFail, At, ErrorInv, LabInv,
       ReportInv
  <2> QED
    BY <1>0, <2>1, <2>2
<1>8. CASE Raise
  <2>1. job.kind # "IDLE" /\ UNCHANGED outcome /\ job' = AfterRaise
    BY <1>8 DEF Raise
  <2>2. CASE job.kind # "EVALUATE"
    <3>1. ~job.restoring
      BY <2>2 DEF LabInv, JobInv
    <3>2. Leave
      BY <2>1, <2>2, <3>1 DEF AfterRaise, Leave
    <3> QED
      BY <1>2, <2>1, <3>2
  <2>3. CASE job.kind = "EVALUATE" /\ job.restoring
    <3>1. job' = [job EXCEPT !.at = "ASSESS",
                             !.error = IF job.error = "NONE" THEN "RESTORE" ELSE job.error]
      BY <2>1, <2>3 DEF AfterRaise
    <3>2. /\ job'.restoring /\ job'.cancelled = job.cancelled /\ job'.diagnosed = job.diagnosed
          /\ job'.error = IF job.error = "NONE" THEN "RESTORE" ELSE job.error
      BY <2>3, <3>1 DEF LabInv, TypeOK, Jobs
    <3> QED
      BY <2>1, <3>2 DEF ErrorInv
  <2>4. CASE job.kind = "EVALUATE" /\ ~job.restoring
    <3>1. job.error = "NONE" /\ ~job.cancelled /\ ~job.diagnosed
      BY <2>4 DEF ErrorInv, LabInv, JobInv
    <3>2. job'.restoring /\ job'.cancelled = job.cancelled /\ job'.diagnosed = job.diagnosed
      BY <2>1, <2>4 DEF AfterRaise, BeginRestore, LabInv, TypeOK, Jobs
    <3> QED
      BY <2>1, <2>4, <3>1, <3>2 DEF ErrorInv
  <2> QED
    BY <2>2, <2>3, <2>4
<1>9. CASE Kill
  BY <1>2, <1>9 DEF Kill
<1> QED
  BY <1>1, <1>4, <1>5, <1>6, <1>7, <1>8, <1>9, <1>10, <1>11 DEF Next, Attempt

(* What went wrong first is what the caller is told.                          *)
THEOREM PrimaryErrorAlwaysKept == Spec => PrimaryErrorKept
<1>1. Init => ErrorInv
  BY IdleJob, LabAssumption DEF Init, ErrorInv
<1>2. LabInv /\ ErrorInv /\ [Next]_vars =>
        /\ ErrorInv'
        /\ [job.error \notin {"NONE", "RESTORE"} =>
              \/ job'.error = job.error
              \/ /\ job' = Idle
                 /\ \/ outcome'.kind = "RAISED" /\ outcome'.code = job.error
                    \/ outcome' = NoOutcome]_vars
  BY ErrorInvStep, LabAssumption
<1> QED
  BY <1>1, <1>2, LabInvHolds, PTL DEF Spec, PrimaryErrorKept

-----------------------------------------------------------------------------
(* The contract *)

(* A process at work changes nothing its caller can see but the health. *)
LEMMA WorkRefines ==
    ASSUME job.kind # "IDLE", job'.kind # "IDLE", UNCHANGED <<archive, outcome>>
    PROVE  Contract!Next
<1>1. (Healthy /\ active = NoRun)' \in BOOLEAN
  BY DEF Healthy
<1> QED
  BY <1>1, Zenon DEF Contract!Next, Contract!Work

(* A process that ends without an outcome. *)
LEMMA GoRefines ==
    ASSUME LabAssumption, job.kind # "IDLE", Leave, UNCHANGED <<archive, outcome>>
    PROVE  Contract!Next
<1>1. (job'.kind # "IDLE") = FALSE
  BY IdleJob DEF Leave
<1> QED
  BY <1>1 DEF Contract!Next, Contract!Go, Healthy

(* An evaluation that ends with an outcome for its caller. *)
LEMMA FinishRefines ==
    ASSUME LabAssumption, LabInv, job.kind # "IDLE",
           NEW kind \in {"RETURNED", "RAISED", "CANCELLED"}, NEW code, Finish(kind, code),
           kind = "RETURNED" => archive[job.run] # "NONE" /\ archive[job.run] = job.verdict
                                  /\ job.run \in Runs,
           UNCHANGED <<db, active, archive>>
    PROVE  Contract!Next
<1>1. (job'.kind # "IDLE") = FALSE
  BY IdleJob DEF Finish, Leave
<1>2. /\ outcome'.kind = kind /\ outcome'.run = job.run
      /\ outcome'.verdict = (IF kind = "RETURNED" THEN job.verdict ELSE "NONE")
      /\ outcome'.recovered = job.recovered
  BY DEF Finish
<1>3. /\ job.recovered \in BOOLEAN /\ job.run \in Runs \cup {NoRun}
      /\ job.recovered => Healthy /\ active = NoRun
  BY DEF LabInv, TypeOK, Jobs, ReportInv
<1>4. UNCHANGED (Healthy /\ active = NoRun)
  BY DEF Healthy
<1>5. Contract!Tell(kind, job.run, IF kind = "RETURNED" THEN job.verdict ELSE "NONE")
  BY <1>1, <1>2, <1>3, <1>4 DEF Contract!Tell
<1> QED
  BY <1>3, <1>5 DEF Contract!Next

(* Every step maps to a step of the contract or to a stutter. *)
LEMMA ContractStep ==
    ASSUME LabAssumption, LabInv, [Next]_vars
    PROVE  [Contract!Next]_<<job.kind # "IDLE", Healthy /\ active = NoRun, archive,
              [kind |-> outcome.kind, run |-> outcome.run,
               verdict |-> outcome.verdict, recovered |-> outcome.recovered]>>
<1> DEFINE seen == <<job.kind # "IDLE", Healthy /\ active = NoRun, archive,
                     [kind |-> outcome.kind, run |-> outcome.run,
                      verdict |-> outcome.verdict, recovered |-> outcome.recovered]>>
<1>1. CASE UNCHANGED vars
  <2>1. UNCHANGED seen
    BY <1>1 DEF vars, Healthy
  <2> QED
    BY <2>1
<1>2. ASSUME NEW kind \in Kinds \ {"IDLE"}, NEW c \in Cases, Start(kind, c)
      PROVE  Contract!Next
  <2>1. job'.kind = kind /\ job.kind = "IDLE"
    BY <1>2, IdleJob DEF Start, Jobs
  <2>2. (job'.kind # "IDLE") = TRUE /\ (job.kind # "IDLE") = FALSE
    BY <2>1
  <2>3. UNCHANGED (Healthy /\ active = NoRun)
    BY <1>2 DEF Start, Healthy
  <2>4. Contract!Enter
    BY <1>2, <2>2, <2>3 DEF Start, NoOutcome, Contract!Enter, Contract!Silence
  <2> QED
    BY <2>4 DEF Contract!Next
<1>3. CASE Reset \/ Prepare \/ Build
  <2>1. job.kind # "IDLE" /\ UNCHANGED <<archive, outcome>>
    BY <1>3 DEF Reset, ResetClear, ReloadSeeds, BaselineBuilt, VerifyRestored, Prepare,
       CheckHealthy, Apply, Prepared, Build, CheckPrepared, MakeRun, MakePrivate, RunDbt, Verify,
       PublishActiveRun, At
  <2>2. Leave \/ job'.kind = job.kind
    <3>1. job \in Jobs
      BY DEF LabInv, TypeOK
    <3>2. CASE Reset
      BY <3>1, <3>2 DEF Reset, ResetClear, ReloadSeeds, BaselineBuilt, VerifyRestored, Goto, Jobs
    <3>3. CASE Prepare
      BY <3>1, <3>3 DEF Prepare, CheckHealthy, Apply, Prepared, Goto, Jobs
    <3>4. CASE CheckPrepared \/ (\E r \in Runs : MakeRun(r)) \/ MakePrivate \/ RunDbt
      BY <3>1, <3>4 DEF CheckPrepared, MakeRun, MakePrivate, RunDbt, Goto, Jobs
    <3>5. CASE Verify \/ PublishActiveRun
      BY <3>1, <3>5 DEF Verify, PublishActiveRun, Goto, Jobs
    <3> QED
      BY <1>3, <3>2, <3>3, <3>4, <3>5 DEF Build
  <2> QED
    BY <2>1, <2>2, WorkRefines, GoRefines
<1>4. CASE SetUpDiagnosis \/ Diagnosed \/ Cancelled \/ Undo \/ Undone \/ Assess
  <2>1. job.kind # "IDLE" /\ UNCHANGED <<archive, outcome>> /\ job'.kind = job.kind
    BY <1>4 DEF SetUpDiagnosis, Diagnosed, Cancelled, Undo, Undone, Assess, BeginRestore,
       Goto, At, LabInv, TypeOK, Jobs
  <2> QED
    BY <2>1, WorkRefines
<1>5. CASE WriteArtifact
  <2>1. /\ job.kind # "IDLE" /\ job.at = "ARCHIVE" /\ archive[job.run] = "NONE"
        /\ archive' = [archive EXCEPT ![job.run] = job.verdict]
        /\ Goto("SCORE")
        /\ UNCHANGED <<db, active, runs, inputs, outcome>>
    BY <1>5 DEF WriteArtifact, At
  <2>2. /\ job.verdict \in {"PASSED", "FAILED"} /\ job.run \in Runs
        /\ job.verdict = "PASSED" => Healthy /\ active = NoRun
    BY <2>1 DEF LabInv, ReportInv, RunInv, TypeOK, Jobs
  <2>3. (job'.kind # "IDLE") = (job.kind # "IDLE")
    BY <2>1 DEF Goto, LabInv, TypeOK, Jobs
  <2>4. UNCHANGED (Healthy /\ active = NoRun)
    BY <2>1 DEF Healthy
  <2>5. Contract!Publish(job.run, job.verdict)
    BY <2>1, <2>2, <2>3, <2>4 DEF Contract!Publish
  <2> QED
    BY <2>2, <2>5 DEF Contract!Next
<1>6. CASE LeaveWithoutResult \/ ArtifactFails \/ WriteScoringInputs \/ ScoringInputsFail
  <2>1. job.kind # "IDLE" /\ UNCHANGED <<db, active, archive>>
    BY <1>6 DEF LeaveWithoutResult, ArtifactFails, WriteScoringInputs, ScoringInputsFail, At
  <2>2. CASE \E code : Finish("RAISED", code) \/ Finish("CANCELLED", code)
    BY <2>1, <2>2, FinishRefines
  <2>3. CASE WriteScoringInputs
    <3>1. archive[job.run] = job.verdict /\ archive[job.run] # "NONE" /\ job.run \in Runs
      BY <2>3 DEF WriteScoringInputs, At, LabInv, ReportInv, RunInv, TypeOK, Jobs
    <3> QED
      BY <2>1, <2>3, <3>1, FinishRefines DEF WriteScoringInputs
  <2> QED
    BY <1>6, <2>2, <2>3 DEF LeaveWithoutResult, ArtifactFails, ScoringInputsFail
<1>7. CASE Raise
  <2>1. job.kind # "IDLE" /\ UNCHANGED <<archive, outcome>> /\ job' = AfterRaise
    BY <1>7 DEF Raise
  <2>2. CASE job.kind # "EVALUATE"
    <3>1. ~job.restoring
      BY <2>2 DEF LabInv, JobInv
    <3>2. Leave
      BY <2>1, <2>2, <3>1 DEF AfterRaise, Leave
    <3> QED
      BY <2>1, <3>2, GoRefines
  <2>3. CASE job.kind = "EVALUATE"
    <3>1. job'.kind = job.kind
      BY <2>1, <2>3 DEF AfterRaise, BeginRestore, LabInv, TypeOK, Jobs
    <3> QED
      BY <2>1, <3>1, WorkRefines
  <2> QED
    BY <2>2, <2>3
<1>8. CASE Kill
  BY <1>8, GoRefines DEF Kill
<1> QED
  BY <1>1, <1>2, <1>3, <1>4, <1>5, <1>6, <1>7, <1>8 DEF Next, Attempt

(* Every evaluation, command, failure and kill keeps the contract.            *)
THEOREM EvaluationImplementsContract == Spec => ImplementsContract
<1>1. Init => Contract!Init
  <2> SUFFICES ASSUME Init
               PROVE  Contract!Init
    OBVIOUS
  <2>1. (job.kind # "IDLE") = FALSE
    BY IdleJob, LabAssumption DEF Init
  <2>2. (Healthy /\ active = NoRun) = TRUE
    BY DEF Init, Healthy
  <2> QED
    BY <2>1, <2>2 DEF Init, NoOutcome, Contract!Init, Contract!Silence
<1>2. LabInv /\ [Next]_vars =>
        [Contract!Next]_<<job.kind # "IDLE", Healthy /\ active = NoRun, archive,
              [kind |-> outcome.kind, run |-> outcome.run,
               verdict |-> outcome.verdict, recovered |-> outcome.recovered]>>
  BY ContractStep, LabAssumption
<1> QED
  BY <1>1, <1>2, LabInvHolds, LabAssumption, PTL DEF Spec, ImplementsContract, Contract!Spec

================================================================================
