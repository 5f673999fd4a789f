------------------------------ MODULE PlannerProofs ------------------------------
(***************************************************************************)
(* Proofs about a planner run, for any obligations, answers and budgets:   *)
(* an obligation is satisfied by its last call, the budgets hold, and an   *)
(* answer is always delivered with an archive that bears it out.           *)
(***************************************************************************)
EXTENDS Planner, SequenceTheorems, FiniteSetTheorems, TLAPS

PlanJobs  == {"plan", "admit", "dispatch", "record"}
ToolJobs  == PlanJobs \cup {"close", "tell"}
JudgeJobs == {"judge", "hand", "keep"}
Finishing    == {"records", "steps", "turns", "state", "check", "done", "raised"}

Jobs ==
  [at : {"idle"} \cup ToolJobs \cup JudgeJobs,
   about : {{}} \cup {{o} : o \in Obligations},
   outcome : Outcomes \cup {"none"}, cites : SUBSET Evidence, accepted : BOOLEAN,
   evidence : SUBSET Evidence, answer : Answers \cup {NoAnswer}]

Executed == [of : Obligations, accepted : BOOLEAN, evidence : SUBSET Evidence]

Entries ==
  [status : {"NONE", "OPEN", "none"} \cup Outcomes, accepted : BOOLEAN,
   last : SUBSET Evidence, with : SUBSET Evidence]

Snaps ==
  [verdict : Answers \cup {NoAnswer}, records : SUBSET Evidence, steps : Seq(Executed),
   closures : SUBSET Obligations, satisfied : SUBSET Obligations]

\* The values of what the other parts speak about.
Typed ==
  /\ closures \subseteq Obligations
  /\ snap \in Snaps
  /\ registered \subseteq Evidence
  /\ attempts \in Nat
  /\ receipts \in Nat
  /\ refusals \in Nat
  /\ worker \in Jobs
  /\ obligations \in [Obligations -> Entries]
  /\ steps \in Seq(Executed)

\* The loop waits for exactly the job the worker does, until the run has failed;
\* what the loop has copied of an answered run is what is still there to copy.
LoopInv ==
  /\ worker.at = "idle" => worker = Idle
  /\ worker.at \in JudgeJobs => worker.answer \in Answers
  /\ loop \in {"start", "model", "tool", "validate"} => reason = "none"
  /\ loop = "terminal" => reason # "none"
  /\ loop \in {"start", "model"} => worker.at = "idle"
  /\ loop = "tool" => worker.at \in ToolJobs
  /\ loop = "validate" => worker.at \in JudgeJobs
  /\ loop \in Finishing /\ reason = "none" => worker.at = "idle"

\* A call on its way has been counted by the session once its gate let it
\* through, and is recorded only when it has come back.
Counted ==
  /\ attempts = Len(steps) + (IF worker.at \in {"dispatch", "record"} THEN 1 ELSE 0)
  /\ receipts = Cardinality(Accepted(steps))
                  + (IF worker.at = "record" /\ worker.accepted THEN 1 ELSE 0)

\* The run has an answer the session accepted.
Answered ==
  \/ loop = "validate" /\ worker.at = "keep"
  \/ loop \in Finishing /\ reason = "none"

CountInv ==
  /\ attempts <= ToolCallLimit
  /\ worker.at = "admit" => attempts < ToolCallLimit
  /\ ~Closed /\ ~expired => refusals <= OutputRetryLimit /\ Counted
  /\ Answered => Counted

\* What the session registered came with a recorded call or with the one about
\* to be recorded.
Brought(s) == UNION {s[i].evidence : i \in DOMAIN s}

BroughtInv ==
  /\ registered = Brought(steps) \cup worker.evidence
  /\ worker.at # "record" => worker.evidence = {} /\ ~worker.accepted

\* What the controller remembers of an obligation's last call is the last step
\* recorded for it, and no call is on its way for an obligation that is not open.
LastStep(s, o, evidence) ==
  \E i \in DOMAIN s :
    /\ s[i].of = o
    /\ s[i].accepted
    /\ evidence \subseteq s[i].evidence
    /\ \A j \in DOMAIN s : s[j].of = o => j <= i

WitnessInv ==
  \A o \in Obligations :
    /\ obligations[o].accepted => LastStep(steps, o, obligations[o].last)
    /\ obligations[o].status = "SATISFIED" =>
         obligations[o].with # {} /\ LastStep(steps, o, obligations[o].with)
    /\ worker.at \in {"admit", "dispatch", "record"} /\ o \in worker.about =>
         obligations[o].status = "OPEN"
    /\ obligations[o].status = "SATISFIED" =>
         o \in closures \/ (worker.at = "tell" /\ o \in worker.about)

\* How far the archive of an answered run has come.
ArchiveInv ==
  /\ worker.at = "keep" /\ loop = "validate" => final = worker.answer
  /\ Answered => final.cited \subseteq registered
  /\ loop \in Finishing /\ reason = "none" =>
       /\ loop # "raised"
       /\ snap.verdict = final
       /\ loop # "records" => snap.records = registered
       /\ loop \notin {"records", "steps"} => snap.steps = steps
       /\ loop \notin {"records", "steps", "turns"} => snap.closures = closures
       /\ loop \in {"check", "done"} =>
            snap.satisfied = {o \in Obligations : obligations[o].status = "SATISFIED"}
       /\ loop = "done" => result.snap = snap

IInv == Typed /\ LoopInv /\ CountInv /\ BroughtInv /\ WitnessInv /\ ArchiveInv

-----------------------------------------------------------------------------
\* The jobs the actions give the worker are jobs.
LEMMA JobShapes ==
    /\ Idle \in Jobs
    /\ \A o \in Obligations : [Idle EXCEPT !.at = "plan", !.about = {o}] \in Jobs
    /\ \A o \in Obligations, outcome \in Outcomes, cites \in SUBSET Evidence :
         [Idle EXCEPT !.at = "close", !.about = {o}, !.outcome = outcome, !.cites = cites] \in Jobs
    /\ \A a \in Answers : [Idle EXCEPT !.at = "judge", !.answer = a] \in Jobs
    /\ \A w \in Jobs, at \in ToolJobs \cup JudgeJobs : [w EXCEPT !.at = at] \in Jobs
    /\ \A w \in Jobs, e \in SUBSET Evidence :
         [w EXCEPT !.at = "record", !.accepted = TRUE, !.evidence = e] \in Jobs
<1>1. Idle \in Jobs
  BY DEF Idle, Jobs
<1>2. ASSUME NEW o \in Obligations
      PROVE  /\ [Idle EXCEPT !.at = "plan", !.about = {o}] \in Jobs
             /\ \A outcome \in Outcomes, cites \in SUBSET Evidence :
                  [Idle EXCEPT !.at = "close", !.about = {o}, !.outcome = outcome,
                               !.cites = cites] \in Jobs
  <2>1. {o} \in {{}} \cup {{x} : x \in Obligations}
    OBVIOUS
  <2> QED
    BY <2>1 DEF Idle, Jobs, ToolJobs, PlanJobs
<1>3. ASSUME NEW a \in Answers PROVE [Idle EXCEPT !.at = "judge", !.answer = a] \in Jobs
  BY DEF Idle, Jobs, JudgeJobs
<1>4. ASSUME NEW w \in Jobs
      PROVE  /\ \A at \in ToolJobs \cup JudgeJobs : [w EXCEPT !.at = at] \in Jobs
             /\ \A e \in SUBSET Evidence :
                  [w EXCEPT !.at = "record", !.accepted = TRUE, !.evidence = e] \in Jobs
  BY DEF Jobs, ToolJobs, PlanJobs
<1> QED
  BY <1>1, <1>2, <1>3, <1>4

\* A submission is an answer.
LEMMA SubmissionsAreAnswers == Submissions \in SUBSET Answers
BY DEF Submissions

\* Every step keeps the types.
LEMMA TypedStep ==
    ASSUME Typed, LoopInv, PlannerAssumption, [Next]_vars
    PROVE  Typed'
<1> USE DEF Typed, controller, session
<1>1. CASE Construct \/ Garbage \/ Stopped \/ Timeout
  BY <1>1 DEF Construct, Garbage, Stopped, Timeout
<1>2. ASSUME NEW o \in Obligations, AskStep(o) PROVE Typed'
  BY <1>2, JobShapes DEF AskStep, Hand
<1>3. ASSUME NEW o \in Obligations, NEW outcome \in Outcomes,
             NEW cites \in IF outcome = "SATISFIED" THEN SUBSET registered ELSE {{}},
             AskClose(o, outcome, cites)
      PROVE  Typed'
  <2>1. cites \in SUBSET Evidence
    <3>1. CASE outcome = "SATISFIED"
      BY <3>1
    <3>2. CASE outcome # "SATISFIED"
      BY <3>2
    <3> QED
      BY <3>1, <3>2
  <2> QED
    BY <1>3, <2>1, JobShapes DEF AskClose, Hand
<1>4. ASSUME NEW a \in Submissions, AskSubmit(a) PROVE Typed'
  BY <1>4, JobShapes, SubmissionsAreAnswers DEF AskSubmit, Hand
<1>5. CASE PlanStep
  <2>1. PICK o \in worker.about : \E malformed \in BOOLEAN :
           IF StepCode(o, malformed) = "NONE"
           THEN /\ obligations' = IF obligations[o].status = "NONE"
                                  THEN [obligations EXCEPT ![o].status = "OPEN"] ELSE obligations
                /\ worker' = [worker EXCEPT !.at = "admit"]
                /\ UNCHANGED <<loop, refusals>>
           ELSE Refuse(StepCode(o, malformed)) /\ ToolDone /\ UNCHANGED obligations
    BY <1>5 DEF PlanStep
  <2>2. o \in Obligations
    BY <2>1 DEF Jobs
  <2>3. obligations' \in [Obligations -> Entries]
    BY <2>1, <2>2 DEF Entries
  <2>4. worker' \in Jobs
    <3>1. worker' = [worker EXCEPT !.at = "admit"] \/ worker' = Idle
      BY <2>1 DEF ToolDone
    <3>2. [worker EXCEPT !.at = "admit"] \in Jobs
      BY JobShapes DEF ToolJobs, PlanJobs
    <3> QED
      BY <3>1, <3>2, JobShapes
  <2>5. refusals' \in Nat
    <3>1. refusals' = refusals \/ refusals' = refusals + 1
      BY <2>1 DEF Refuse
    <3> QED
      BY <3>1
  <2> QED
    BY <1>5, <2>3, <2>4, <2>5 DEF PlanStep
<1>6. CASE Admit
  <2>1. worker' \in Jobs
    BY <1>6, JobShapes DEF Admit, ToolJobs, PlanJobs
  <2> QED
    BY <1>6, <2>1 DEF Admit, PassGate
<1>7. CASE Return
  <2>1. CASE /\ worker' = [worker EXCEPT !.at = "record"]
             /\ UNCHANGED <<session, receipts>>
    BY <1>7, <2>1, JobShapes DEF Return, ToolJobs, PlanJobs
  <2>2. CASE \E o \in worker.about : \E e \in Yields[o] :
               /\ Register(e)
               /\ receipts' = receipts + 1
               /\ worker' = [worker EXCEPT !.at = "record", !.accepted = TRUE, !.evidence = e]
    <3>0. PICK o \in worker.about : \E e \in Yields[o] :
               /\ Register(e)
               /\ receipts' = receipts + 1
               /\ worker' = [worker EXCEPT !.at = "record", !.accepted = TRUE, !.evidence = e]
      BY <2>2
    <3>1. PICK e \in Yields[o] :
               /\ Register(e)
               /\ receipts' = receipts + 1
               /\ worker' = [worker EXCEPT !.at = "record", !.accepted = TRUE, !.evidence = e]
      BY <3>0
    <3>2. e \in SUBSET Evidence
      <4>1. o \in Obligations
        BY <3>0 DEF Jobs
      <4> QED
        BY <3>1, <4>1 DEF PlannerAssumption
    <3>3. worker' \in Jobs
      BY <3>1, <3>2, JobShapes
    <3>4. registered' \subseteq Evidence /\ attempts' \in Nat /\ receipts' \in Nat
      BY <3>1, <3>2 DEF Register
    <3> QED
      BY <1>7, <3>3, <3>4 DEF Return
  <2> QED
    BY <1>7, <2>1, <2>2 DEF Return
<1>8. CASE Record
  <2>1. PICK o \in worker.about :
          /\ obligations' = [obligations EXCEPT ![o].accepted = worker.accepted,
                                                ![o].last = worker.evidence]
          /\ steps' = Append(steps, [of |-> o, accepted |-> worker.accepted,
                                     evidence |-> worker.evidence])
    BY <1>8 DEF Record
  <2>2. o \in Obligations /\ worker.accepted \in BOOLEAN /\ worker.evidence \in SUBSET Evidence
    BY <2>1 DEF Jobs
  <2> DEFINE entry == [[obligations[o] EXCEPT !.accepted = worker.accepted]
                          EXCEPT !.last = worker.evidence]
  <2>a. obligations' = [obligations EXCEPT ![o] = entry]
    BY <2>1, <2>2
  <2>b. entry \in Entries
    <3>1. obligations[o] \in Entries
      BY <2>2
    <3> QED
      BY <3>1, <2>2 DEF Entries
  <2> HIDE DEF entry
  <2>3. obligations' \in [Obligations -> Entries]
    BY <2>a, <2>b, <2>2
  <2>4. [of |-> o, accepted |-> worker.accepted, evidence |-> worker.evidence] \in Executed
    BY <2>2 DEF Executed
  <2>5. steps' \in Seq(Executed)
    BY <2>1, <2>4, AppendProperties
  <2> QED
    BY <1>8, <2>3, <2>5, JobShapes DEF Record, ToolDone
<1>9. CASE CloseObligation
  <2>1. PICK o \in worker.about :
       IF CloseCode(o, worker.outcome, worker.cites) = "NONE"
       THEN /\ obligations' = [obligations EXCEPT
                                 ![o].status = worker.outcome,
                                 ![o].with = IF worker.outcome = "SATISFIED"
                                             THEN worker.cites ELSE {}]
            /\ worker' = [worker EXCEPT !.at = "tell"]
            /\ UNCHANGED <<loop, refusals>>
       ELSE /\ Refuse(CloseCode(o, worker.outcome, worker.cites))
            /\ ToolDone
            /\ UNCHANGED obligations
    BY <1>9 DEF CloseObligation
  <2>2. o \in Obligations /\ worker.outcome \in Outcomes \cup {"none"}
        /\ worker.cites \in SUBSET Evidence
    BY <2>1 DEF Jobs
  <2>3. obligations' \in [Obligations -> Entries]
    BY <2>1, <2>2 DEF Entries
  <2>4. worker' \in Jobs
    <3>1. worker' = [worker EXCEPT !.at = "tell"] \/ worker' = Idle
      BY <2>1 DEF ToolDone
    <3>2. [worker EXCEPT !.at = "tell"] \in Jobs
      BY JobShapes DEF ToolJobs
    <3> QED
      BY <3>1, <3>2, JobShapes
  <2>5. refusals' \in Nat
    <3>1. refusals' = refusals \/ refusals' = refusals + 1
      BY <2>1 DEF Refuse
    <3> QED
      BY <3>1
  <2> QED
    BY <1>9, <2>3, <2>4, <2>5 DEF CloseObligation
<1>10. CASE Tell
  <2>1. worker.about \in SUBSET Obligations
    BY DEF Jobs
  <2> QED
    BY <1>10, <2>1, JobShapes DEF Tell, ToolDone
<1>11. CASE Judge
  BY <1>11, JobShapes DEF Judge, RefuseOutput, JudgeJobs
<1>12. CASE HandIn
  BY <1>12, JobShapes DEF HandIn, Submit, RefuseOutput, JudgeJobs
<1>13. CASE Keep
  <2>1. snap' = snap \/ snap' = [snap EXCEPT !.verdict = worker.answer]
    BY <1>13 DEF Keep
  <2>2. snap' \in Snaps
    BY <2>1 DEF Jobs, Snaps
  <2> QED
    BY <1>13, <2>2, JobShapes DEF Keep
<1>14. CASE EndStep
  <2>1. UNCHANGED <<registered, attempts, worker, controller, receipts>>
    BY <1>14 DEF EndStep, Terminal, Cancel, CopyRecords, CopySteps, CopyTurns, CopyState, Check, Read
  <2>2. \/ snap' = snap
        \/ snap' = [snap EXCEPT !.verdict = Failure]
        \/ snap' = [snap EXCEPT !.records = registered]
        \/ snap' = [snap EXCEPT !.steps = steps]
        \/ snap' = [snap EXCEPT !.closures = closures]
        \/ snap' = [snap EXCEPT !.satisfied =
                       {o \in Obligations : obligations[o].status = "SATISFIED"}]
    BY <1>14 DEF EndStep, Terminal, CopyRecords, CopySteps, CopyTurns, CopyState, Check, Read
  <2>3. Failure \in Answers
    BY DEF Failure, Answers, Statuses
  <2>4. {o \in Obligations : obligations[o].status = "SATISFIED"} \in SUBSET Obligations
    OBVIOUS
  <2>5. snap' \in Snaps
    BY <2>2, <2>3, <2>4 DEF Snaps
  <2> QED
    BY <2>1, <2>5
<1>15. CASE TimePasses
  BY <1>15 DEF TimePasses, Tick
<1>16. CASE UNCHANGED vars
  BY <1>16 DEF vars
<1> QED
  BY <1>1, <1>2, <1>3, <1>4, <1>5, <1>6, <1>7, <1>8, <1>9, <1>10, <1>11, <1>12, <1>13,
     <1>14, <1>15, <1>16
  DEF Next, AgentStep, WorkerStep

-----------------------------------------------------------------------------
\* Every step keeps loop and worker in step.
LEMMA LoopStep ==
    ASSUME Typed, LoopInv, [Next]_vars
    PROVE  LoopInv'
<1> USE DEF LoopInv, controller, session, ToolJobs, PlanJobs, JudgeJobs, Finishing
<1>1. CASE Construct \/ Garbage \/ Stopped \/ Timeout
  BY <1>1 DEF Construct, Garbage, Stopped, Timeout, Fail, RetryOutput, ErrorReasons
<1>2. ASSUME NEW o \in Obligations, AskStep(o) PROVE LoopInv'
  BY <1>2 DEF AskStep, Hand, Idle
<1>3. ASSUME NEW o \in Obligations, NEW outcome, NEW cites, AskClose(o, outcome, cites)
      PROVE  LoopInv'
  BY <1>3 DEF AskClose, Hand, Idle
<1>4. ASSUME NEW a \in Submissions, AskSubmit(a) PROVE LoopInv'
  BY <1>4, SubmissionsAreAnswers DEF AskSubmit, Hand, Idle
\* The worker goes on with another job of the same kind, or is done.
<1>5. ASSUME worker.at \in ToolJobs, UNCHANGED reason,
             \/ worker'.at \in ToolJobs /\ UNCHANGED loop
             \/ ToolDone
      PROVE  LoopInv'
  BY <1>5 DEF ToolDone, Idle
<1>6. CASE PlanStep
  <2>1. worker.at = "plan" /\ UNCHANGED reason
        /\ \/ worker' = [worker EXCEPT !.at = "admit"] /\ UNCHANGED loop
           \/ ToolDone
    BY <1>6 DEF PlanStep
  <2> QED
    BY <1>5, <2>1 DEF Typed, Jobs
<1>7. CASE Admit
  <2>1. worker.at = "admit" /\ UNCHANGED <<reason, loop>>
        /\ \E at \in PlanJobs : worker' = [worker EXCEPT !.at = at]
    BY <1>7 DEF Admit
  <2> QED
    BY <1>5, <2>1 DEF Typed, Jobs
<1>8. CASE Return
  <2>1. worker.at = "dispatch" /\ UNCHANGED <<reason, loop>>
    BY <1>8 DEF Return
  <2>2. worker'.at = "record"
    BY <1>8 DEF Return, Typed, Jobs
  <2> QED
    BY <1>5, <2>1, <2>2
<1>9. CASE Record \/ Tell
  BY <1>5, <1>9 DEF Record, Tell
<1>10. CASE CloseObligation
  <2>1. worker.at = "close" /\ UNCHANGED reason
        /\ \/ worker' = [worker EXCEPT !.at = "tell"] /\ UNCHANGED loop
           \/ ToolDone
    BY <1>10 DEF CloseObligation
  <2> QED
    BY <1>5, <2>1 DEF Typed, Jobs
<1>11. ASSUME NEW why \in ErrorReasons, worker.at \in JudgeJobs, RefuseOutput(why)
       PROVE  LoopInv'
  BY <1>11 DEF RefuseOutput, RetryOutput, Fail, Idle, ErrorReasons
<1>12. ASSUME NEW at \in JudgeJobs, worker.at \in JudgeJobs,
              worker' = [worker EXCEPT !.at = at], UNCHANGED <<loop, reason>>
       PROVE  LoopInv'
  BY <1>12 DEF Typed, Jobs
<1>13. CASE Judge
  BY <1>11, <1>12, <1>13 DEF Judge, ErrorReasons
<1>14. CASE HandIn
  BY <1>11, <1>12, <1>14 DEF HandIn, ErrorReasons
<1>15. CASE Keep
  BY <1>15 DEF Keep, Idle
<1>16. CASE EndStep
  BY <1>16 DEF EndStep, Terminal, CopyRecords, CopySteps, CopyTurns, CopyState, Check, Read
<1>17. CASE TimePasses
  BY <1>17 DEF TimePasses
<1>18. CASE UNCHANGED vars
  BY <1>18 DEF vars
<1> QED
  BY <1>1, <1>2, <1>3, <1>4, <1>6, <1>7, <1>8, <1>9, <1>10, <1>13, <1>14, <1>15, <1>16,
     <1>17, <1>18
  DEF Next, AgentStep, WorkerStep

-----------------------------------------------------------------------------
\* One more executed step, answered or not.
LEMMA AcceptedAppend ==
    ASSUME NEW s \in Seq(Executed), NEW x \in Executed
    PROVE  /\ Cardinality(Accepted(s)) \in Nat
           /\ Cardinality(Accepted(Append(s, x))) =
                Cardinality(Accepted(s)) + (IF x.accepted THEN 1 ELSE 0)
<1> DEFINE n == Len(s) + 1
           t == Append(s, x)
<1>1. /\ DOMAIN s = 1..Len(s) /\ DOMAIN t = 1..n /\ Len(s) \in Nat
      /\ \A i \in 1..Len(s) : t[i] = s[i]
      /\ t[n] = x
  BY AppendProperties
<1>2. IsFiniteSet(Accepted(s)) /\ Cardinality(Accepted(s)) \in Nat
  <2>1. Accepted(s) \in SUBSET (1..Len(s)) /\ IsFiniteSet(1..Len(s))
    BY <1>1, FS_Interval DEF Accepted
  <2> QED
    BY <2>1, FS_Subset, FS_CardinalityType
<1>3. n \notin Accepted(s)
  BY <1>1 DEF Accepted
<1> HIDE DEF t
<1>4. Accepted(t) = IF x.accepted THEN Accepted(s) \cup {n} ELSE Accepted(s)
  <2>1. \A i \in 1..n : i = n \/ i \in 1..Len(s)
    BY <1>1
  <2>2. Accepted(s) \in SUBSET (1..n)
    BY <1>1 DEF Accepted
  <2>3. \A i \in 1..n : i \in Accepted(t) <=> (i \in Accepted(s) \/ (i = n /\ x.accepted))
    BY <1>1, <1>3, <2>1 DEF Accepted
  <2>4. Accepted(t) \in SUBSET (1..n) /\ n \in 1..n
    BY <1>1 DEF Accepted
  <2> HIDE DEF n
  <2> QED
    BY <2>2, <2>3, <2>4
<1> HIDE DEF n
<1>5. Cardinality(Accepted(s) \cup {n}) = Cardinality(Accepted(s)) + 1
  BY <1>2, <1>3, FS_AddElement
<1> QED
  BY <1>2, <1>4, <1>5 DEF t

\* Steps that count, record and refuse nothing.
LEMMA CountQuiet ==
    ASSUME CountInv, UNCHANGED <<attempts, receipts, steps>>,
           worker'.at # "admit" \/ worker'.at = worker.at,
           \/ worker.at \notin {"dispatch", "record"} /\ worker'.at \notin {"dispatch", "record"}
           \/ worker' = worker,
           ~Closed' => ~Closed, ~expired' => ~expired,
           ~Closed' /\ ~expired' => refusals' <= OutputRetryLimit,
           Answered' => Answered
    PROVE  CountInv'
<1>1. Counted => Counted'
  BY DEF Counted, Accepted
<1> QED
  BY <1>1 DEF CountInv

\* A refused operation is counted while the session is open only under the limit.
LEMMA RefusalsStay ==
    ASSUME Typed, SessionAssumption, ~Closed /\ ~expired => refusals <= OutputRetryLimit,
           NEW code, Refuse(code),
           ~Closed /\ ~expired /\ refusals >= OutputRetryLimit => code = "PLAN_OUTPUT_RETRY_EXHAUSTED"
    PROVE  ~Closed /\ ~expired => refusals' <= OutputRetryLimit
<1>1. refusals \in Nat /\ OutputRetryLimit \in Nat
  BY DEF Typed, SessionAssumption
<1> QED
  BY <1>1 DEF Refuse

\* Every step keeps the counts.
LEMMA CountStep ==
    ASSUME Typed, Typed', LoopInv, BroughtInv, CountInv, SessionAssumption, [Next]_vars
    PROVE  CountInv'
<1> USE DEF controller, session
<1>0. /\ Idle.at = "idle"
      /\ attempts \in Nat /\ ToolCallLimit \in Nat
  BY DEF Idle, Typed, SessionAssumption
<1>1. CASE Construct \/ Garbage \/ Stopped \/ Timeout
  <2>1. /\ UNCHANGED <<session, worker, refusals, receipts, steps>>
        /\ loop' \in {"model", "terminal"}
    BY <1>1 DEF Construct, Garbage, Stopped, Timeout, Fail, RetryOutput
  <2>2. ~Answered'
    BY <2>1 DEF Answered, Finishing
  <2> QED
    BY <2>1, <2>2, CountQuiet DEF Closed, CountInv
<1>2. ASSUME worker = Idle, worker'.at \in {"plan", "close", "judge"}, loop' \in {"tool", "validate"},
             UNCHANGED <<session, refusals, receipts, steps>>
      PROVE  CountInv'
  <2>1. ~Answered'
    BY <1>2 DEF Answered, Finishing
  <2> QED
    BY <1>0, <1>2, <2>1, CountQuiet DEF Closed, CountInv
<1>3. ASSUME NEW o \in Obligations, AskStep(o) PROVE CountInv'
  <2>1. worker'.at = "plan"
    BY <1>3 DEF AskStep, Hand, Idle
  <2> QED
    BY <1>2, <1>3, <2>1 DEF AskStep, Hand
<1>4. ASSUME NEW o \in Obligations, NEW outcome, NEW cites, AskClose(o, outcome, cites)
      PROVE  CountInv'
  <2>1. worker'.at = "close"
    BY <1>4 DEF AskClose, Hand, Idle
  <2> QED
    BY <1>2, <1>4, <2>1 DEF AskClose, Hand
<1>5. ASSUME NEW a \in Submissions, AskSubmit(a) PROVE CountInv'
  <2>1. worker'.at = "judge"
    BY <1>5 DEF AskSubmit, Hand, Idle
  <2> QED
    BY <1>2, <1>5, <2>1 DEF AskSubmit, Hand
\* While the worker is in a tool the run has no answer, and has none when it returns.
<1>6. ASSUME worker.at \in ToolJobs, UNCHANGED reason, UNCHANGED loop \/ ToolDone,
             worker'.at # "keep" \/ UNCHANGED loop
      PROVE  ~Answered'
  <2>1. /\ loop # "validate" /\ ~(loop \in Finishing /\ reason = "none")
    BY <1>6 DEF LoopInv, ToolJobs, PlanJobs, JudgeJobs
  <2>2. CASE UNCHANGED loop
    BY <1>6, <2>1, <2>2 DEF Answered
  <2>3. CASE ToolDone
    <3>1. loop' = loop \/ loop' = "model"
      BY <2>3 DEF ToolDone
    <3>2. loop' # "validate" /\ ~(loop' \in Finishing /\ reason' = "none")
      BY <1>6, <2>1, <3>1 DEF Finishing
    <3> QED
      BY <3>2 DEF Answered
  <2> QED
    BY <1>6, <2>2, <2>3
<1>7. CASE PlanStep
  <2>1. PICK o \in worker.about, malformed \in BOOLEAN :
           IF StepCode(o, malformed) = "NONE"
           THEN /\ obligations' = IF obligations[o].status = "NONE"
                                  THEN [obligations EXCEPT ![o].status = "OPEN"] ELSE obligations
                /\ worker' = [worker EXCEPT !.at = "admit"]
                /\ UNCHANGED <<loop, refusals>>
           ELSE Refuse(StepCode(o, malformed)) /\ ToolDone /\ UNCHANGED obligations
    BY <1>7 DEF PlanStep
  <2>2. /\ worker.at = "plan"
        /\ UNCHANGED <<session, reason, steps, receipts>>
    BY <1>7 DEF PlanStep
  <2>3. CASE StepCode(o, malformed) = "NONE"
    <3>1. worker'.at = "admit" /\ UNCHANGED <<loop, refusals>>
      BY <2>1, <2>3 DEF Typed, Jobs
    <3>2. attempts < ToolCallLimit
      BY <1>0, <2>3 DEF StepCode, EntryCode
    <3>3. ~Answered'
      BY <1>6, <2>2, <3>1 DEF ToolJobs, PlanJobs
    <3>4. Counted => Counted'
      BY <2>2, <3>1 DEF Counted, Accepted
    <3> QED
      BY <1>0, <2>2, <3>1, <3>2, <3>3, <3>4 DEF CountInv, Closed
  <2>4. CASE StepCode(o, malformed) # "NONE"
    <3>1. Refuse(StepCode(o, malformed)) /\ ToolDone
      BY <2>1, <2>4
    <3>2. worker'.at = "idle"
      BY <1>0, <3>1 DEF ToolDone
    <3>3. ~Answered'
      BY <1>6, <2>2, <3>1, <3>2 DEF ToolJobs, PlanJobs
    <3>4. ~Closed /\ ~expired /\ refusals >= OutputRetryLimit
             => StepCode(o, malformed) = "PLAN_OUTPUT_RETRY_EXHAUSTED"
      BY DEF StepCode, EntryCode
    <3>5. ~Closed /\ ~expired => refusals' <= OutputRetryLimit
      BY <3>1, <3>4, RefusalsStay DEF CountInv
    <3> QED
      BY <2>2, <3>2, <3>3, <3>5, CountQuiet DEF Closed
  <2> QED
    BY <2>3, <2>4
<1>8. CASE Admit
  <2>1. /\ worker.at = "admit" /\ PassGate("NONE")
        /\ worker' = [worker EXCEPT !.at = IF GateCode("NONE") = "NONE"
                                           THEN "dispatch" ELSE "record"]
        /\ UNCHANGED <<loop, reason, steps, refusals, receipts>>
    BY <1>8 DEF Admit
  <2>2. attempts < ToolCallLimit
    BY <2>1 DEF CountInv
  <2>3. ~Answered'
    <3>1. worker'.at # "keep"
      BY <2>1 DEF Typed, Jobs
    <3> QED
      BY <1>6, <2>1, <3>1 DEF ToolJobs, PlanJobs
  <2>4. CASE GateCode("NONE") = "NONE"
    <3>1. attempts' = attempts + 1 /\ worker'.at = "dispatch"
          /\ UNCHANGED <<final, cancellation, expired>>
      BY <2>1, <2>4 DEF PassGate, Uncounted, Typed, Jobs
    <3>2. Counted => Counted'
      <4>1. Len(steps) \in Nat
        BY DEF Typed
      <4>2. Accepted(steps)' = Accepted(steps)
        BY <2>1 DEF Accepted
      <4> QED
        BY <1>0, <2>1, <3>1, <4>1, <4>2 DEF Counted
    <3> QED
      BY <1>0, <2>1, <2>2, <2>3, <3>1, <3>2 DEF CountInv, Closed
  <2>5. CASE GateCode("NONE") # "NONE"
    <3>1. Closed \/ expired
      BY <1>0, <2>2, <2>5 DEF GateCode
    <3>2. attempts' = attempts /\ UNCHANGED <<final, cancellation, expired>> /\ worker'.at = "record"
      BY <1>0, <2>1, <2>2, <2>5, <3>1 DEF PassGate, GateCode, Uncounted, Typed, Jobs
    <3> QED
      BY <2>1, <2>3, <3>1, <3>2 DEF CountInv, Closed
  <2> QED
    BY <2>4, <2>5
<1>9. CASE Return
  <2>1. worker.at = "dispatch" /\ UNCHANGED <<loop, reason, steps, refusals>>
        /\ UNCHANGED <<attempts, final, cancellation, expired>>
    BY <1>9 DEF Return, Register
  <2>2. ~worker.accepted /\ receipts \in Nat
    BY <2>1 DEF BroughtInv, Typed
  <2>3. /\ worker'.at = "record"
        /\ \/ worker'.accepted /\ receipts' = receipts + 1
           \/ ~worker'.accepted /\ receipts' = receipts
    BY <1>9, <2>2 DEF Return, Typed, Jobs
  <2>4. ~Answered'
    BY <1>6, <2>1, <2>3 DEF ToolJobs, PlanJobs
  <2>5. Counted => Counted'
    <3>1. Accepted(steps)' = Accepted(steps)
      BY <2>1 DEF Accepted
    <3>2. Cardinality(Accepted(steps)) \in Nat
      <4>1. DOMAIN steps = 1..Len(steps) /\ Len(steps) \in Nat
        BY DEF Typed
      <4>2. Accepted(steps) \in SUBSET (1..Len(steps)) /\ IsFiniteSet(1..Len(steps))
        BY <4>1, FS_Interval DEF Accepted
      <4> QED
        BY <4>2, FS_Subset, FS_CardinalityType
    <3> QED
      BY <2>1, <2>2, <2>3, <3>1, <3>2 DEF Counted
  <2> QED
    BY <2>1, <2>3, <2>4, <2>5 DEF CountInv, Closed
<1>10. CASE Record
  <2>1. PICK o \in worker.about :
           steps' = Append(steps, [of |-> o, accepted |-> worker.accepted,
                                   evidence |-> worker.evidence])
    BY <1>10 DEF Record
  <2>2. /\ worker.at = "record" /\ ToolDone /\ worker'.at = "idle"
        /\ UNCHANGED <<session, reason, refusals, receipts>>
    BY <1>0, <1>10 DEF Record, ToolDone
  <2> DEFINE x == [of |-> o, accepted |-> worker.accepted, evidence |-> worker.evidence]
  <2>3. x \in Executed /\ x.accepted = worker.accepted
    BY <2>1 DEF Typed, Jobs, Executed
  <2>4. ~Answered'
    BY <1>6, <2>2 DEF ToolJobs, PlanJobs
  <2> HIDE DEF x
  <2>5. Counted => Counted'
    <3>1. Len(steps') = Len(steps) + 1 /\ Len(steps) \in Nat
      BY <2>1, <2>3, AppendProperties DEF Typed, x
    <3>2. /\ Cardinality(Accepted(steps)) \in Nat
          /\ Cardinality(Accepted(steps')) =
               Cardinality(Accepted(steps)) + (IF x.accepted THEN 1 ELSE 0)
      <4>1. steps \in Seq(Executed) /\ steps' = Append(steps, x)
        BY <2>1 DEF Typed, x
      <4> QED
        BY <2>3, <4>1, AcceptedAppend
    <3>3. Counted' <=> attempts' = Len(steps') /\ receipts' = Cardinality(Accepted(steps'))
      <4>1. Cardinality(Accepted(steps')) \in Nat /\ Len(steps') \in Nat
        BY <3>1, <3>2
      <4>2. Accepted(steps)' = Accepted(steps')
        BY DEF Accepted
      <4> QED
        BY <2>2, <4>1, <4>2 DEF Counted
    <3> QED
      BY <2>2, <2>3, <3>1, <3>2, <3>3 DEF Counted
  <2> QED
    BY <2>2, <2>4, <2>5 DEF CountInv, Closed
<1>11. CASE CloseObligation
  <2>1. PICK o \in worker.about :
       IF CloseCode(o, worker.outcome, worker.cites) = "NONE"
       THEN /\ worker' = [worker EXCEPT !.at = "tell"]
            /\ UNCHANGED <<loop, refusals>>
       ELSE /\ Refuse(CloseCode(o, worker.outcome, worker.cites))
            /\ ToolDone
    BY <1>11 DEF CloseObligation
  <2>2. /\ worker.at = "close"
        /\ UNCHANGED <<session, reason, steps, receipts>>
    BY <1>11 DEF CloseObligation
  <2>3. CASE CloseCode(o, worker.outcome, worker.cites) = "NONE"
    <3>1. worker'.at = "tell" /\ UNCHANGED <<loop, refusals>>
      BY <2>1, <2>3 DEF Typed, Jobs
    <3>2. ~Answered'
      BY <1>6, <2>2, <3>1 DEF ToolJobs, PlanJobs
    <3> QED
      BY <2>2, <3>1, <3>2, CountQuiet DEF Closed, CountInv
  <2>4. CASE CloseCode(o, worker.outcome, worker.cites) # "NONE"
    <3>1. Refuse(CloseCode(o, worker.outcome, worker.cites)) /\ ToolDone
      BY <2>1, <2>4
    <3>2. worker'.at = "idle"
      BY <1>0, <3>1 DEF ToolDone
    <3>3. ~Answered'
      BY <1>6, <2>2, <3>1, <3>2 DEF ToolJobs, PlanJobs
    <3>4. ~Closed /\ ~expired /\ refusals >= OutputRetryLimit
             => CloseCode(o, worker.outcome, worker.cites) = "PLAN_OUTPUT_RETRY_EXHAUSTED"
      BY DEF CloseCode, EntryCode
    <3>5. ~Closed /\ ~expired => refusals' <= OutputRetryLimit
      BY <3>1, <3>4, RefusalsStay DEF CountInv
    <3> QED
      BY <2>2, <3>2, <3>3, <3>5, CountQuiet DEF Closed
  <2> QED
    BY <2>3, <2>4
<1>12. CASE Tell
  <2>1. worker.at = "tell" /\ ToolDone /\ worker'.at = "idle"
        /\ UNCHANGED <<session, reason, refusals, receipts, steps>>
    BY <1>0, <1>12 DEF Tell, ToolDone
  <2>2. ~Answered'
    BY <1>6, <2>1 DEF ToolJobs
  <2> QED
    BY <2>1, <2>2, CountQuiet DEF Closed, CountInv
<1>13. CASE Judge
  <2>1. /\ worker.at = "judge" /\ worker'.at \in {"idle", "hand"}
        /\ UNCHANGED <<session, refusals, receipts, steps>>
        /\ loop' = loop \/ loop' \in {"model", "terminal"}
        /\ loop' = loop => reason' = reason \/ loop = "validate"
    BY <1>0, <1>13 DEF Judge, RefuseOutput, RetryOutput, Fail, Typed, Jobs
  <2>2. ~Answered'
    BY <2>1 DEF Answered, Finishing, LoopInv
  <2> QED
    BY <2>1, <2>2, CountQuiet DEF Closed, CountInv
<1>14. CASE HandIn
  <2>1. /\ worker.at = "hand" /\ Submit(worker.answer)
        /\ UNCHANGED <<refusals, receipts, steps, attempts, cancellation, expired>>
    BY <1>14 DEF HandIn, Submit
  <2>2. CASE SubmitCode(worker.answer) = "ACCEPTED"
    <3>1. worker'.at = "keep"
      BY <1>14, <2>2 DEF HandIn, Typed, Jobs
    <3>2. ~Closed /\ ~expired
      BY <2>2 DEF SubmitCode, Closed
    <3>3. Counted'
      <4>1. Counted
        BY <3>2 DEF CountInv
      <4> QED
        BY <2>1, <3>1, <4>1 DEF Counted, Accepted
    <3>4. attempts' <= ToolCallLimit /\ refusals' <= OutputRetryLimit
      BY <2>1, <3>2 DEF CountInv
    <3> QED
      BY <3>1, <3>3, <3>4 DEF CountInv
  <2>3. CASE SubmitCode(worker.answer) # "ACCEPTED"
    <3>1. /\ worker'.at = "idle" /\ UNCHANGED final
          /\ loop' = loop \/ loop' \in {"model", "terminal"}
          /\ loop' = loop => reason' = reason \/ loop = "validate"
      BY <1>0, <1>14, <2>3 DEF HandIn, Submit, RefuseOutput, RetryOutput, Fail
    <3>2. ~Answered'
      BY <2>1, <3>1 DEF Answered, Finishing, LoopInv
    <3> QED
      BY <2>1, <3>1, <3>2, CountQuiet DEF Closed, CountInv
  <2> QED
    BY <2>2, <2>3
<1>15. CASE Keep
  <2>1. /\ worker.at = "keep" /\ worker'.at = "idle"
        /\ UNCHANGED <<session, reason, refusals, receipts, steps>>
        /\ loop = "validate" \/ loop' = loop
    BY <1>0, <1>15 DEF Keep
  <2>2. Answered' => Answered
    BY <2>1 DEF Answered
  <2> QED
    BY <2>1, <2>2, CountQuiet DEF Closed, CountInv
<1>16. CASE EndStep
  <2>1. /\ UNCHANGED <<worker, reason, refusals, receipts, steps, attempts, expired>>
        /\ Closed' => Closed \/ loop = "terminal"
        /\ ~Closed' => ~Closed
        /\ loop \in Finishing \cup {"terminal"} /\ loop' \in Finishing
    BY <1>16 DEF EndStep, Terminal, Cancel, CopyRecords, CopySteps, CopyTurns, CopyState, Check,
       Read, Finishing, Closed
  <2>2. Answered' => Answered
    <3>1. loop' # "validate" /\ (loop = "terminal" => reason # "none")
      BY <2>1 DEF LoopInv, Finishing
    <3> QED
      BY <2>1, <3>1 DEF Answered
  <2> QED
    BY <2>1, <2>2, CountQuiet DEF CountInv
<1>17. CASE TimePasses
  <2>1. /\ UNCHANGED <<worker, loop, reason, refusals, receipts, steps, attempts, final, cancellation>>
        /\ ~expired /\ expired'
    BY <1>17 DEF TimePasses, Tick
  <2> QED
    BY <2>1, CountQuiet DEF Answered, Closed
<1>18. CASE UNCHANGED vars
  BY <1>18 DEF vars, CountInv, Counted, Answered, Closed, Accepted
<1> QED
  BY <1>1, <1>3, <1>4, <1>5, <1>7, <1>8, <1>9, <1>10, <1>11, <1>12, <1>13, <1>14, <1>15,
     <1>16, <1>17, <1>18
  DEF Next, AgentStep, WorkerStep

-----------------------------------------------------------------------------
\* Another step brings its own evidence and nothing else.
LEMMA BroughtAppend ==
    ASSUME NEW s \in Seq(Executed), NEW x \in Executed
    PROVE  Brought(Append(s, x)) = Brought(s) \cup x.evidence
<1> DEFINE t == Append(s, x)
           n == Len(s) + 1
<1>1. /\ DOMAIN s = 1..Len(s) /\ DOMAIN t = 1..n /\ Len(s) \in Nat
      /\ \A i \in 1..Len(s) : t[i] = s[i]
      /\ t[n] = x
  BY AppendProperties
<1>2. n \in 1..n /\ \A i \in 1..n : i = n \/ i \in 1..Len(s)
  BY <1>1
<1>3. \A i \in 1..Len(s) : i \in 1..n
  BY <1>1
<1> HIDE DEF t, n
<1>4. ASSUME NEW e PROVE e \in Brought(t) <=> e \in Brought(s) \/ e \in x.evidence
  <2>1. e \in Brought(t) <=> \E i \in 1..n : e \in t[i].evidence
    BY <1>1 DEF Brought
  <2>2. e \in Brought(s) <=> \E i \in 1..Len(s) : e \in s[i].evidence
    BY <1>1 DEF Brought
  <2> QED
    BY <1>1, <1>2, <1>3, <2>1, <2>2
<1> QED
  BY <1>4 DEF t

\* Every step keeps what was brought.
LEMMA BroughtStep ==
    ASSUME Typed, LoopInv, BroughtInv, [Next]_vars
    PROVE  BroughtInv'
<1> USE DEF controller, session
<1>0. Idle.at = "idle" /\ Idle.evidence = {} /\ ~Idle.accepted
  BY DEF Idle
<1>1. ASSUME UNCHANGED <<registered, steps>>,
             \/ worker' = worker
             \/ worker.evidence = {} /\ worker'.evidence = {} /\ ~worker'.accepted
      PROVE  BroughtInv'
  <2>1. Brought(steps)' = Brought(steps)
    BY <1>1 DEF Brought
  <2> QED
    BY <1>1, <2>1 DEF BroughtInv
\* A job that has brought nothing yet is followed by one that has not either.
<1>2. ASSUME worker.at # "record", UNCHANGED <<registered, steps>>,
             worker' = Idle \/ \E at : worker' = [worker EXCEPT !.at = at]
      PROVE  BroughtInv'
  <2>1. worker.evidence = {} /\ ~worker.accepted
    BY <1>2 DEF BroughtInv
  <2>2. worker'.evidence = {} /\ ~worker'.accepted
    BY <1>0, <1>2, <2>1 DEF Typed, Jobs
  <2> QED
    BY <1>1, <1>2, <2>1, <2>2
<1>3. CASE Construct \/ Garbage \/ Stopped \/ Timeout \/ EndStep \/ TimePasses \/ UNCHANGED vars
  BY <1>1, <1>3 DEF Construct, Garbage, Stopped, Timeout, EndStep, Terminal, Cancel, CopyRecords,
     CopySteps, CopyTurns, CopyState, Check, Read, TimePasses, Tick, vars
<1>4. ASSUME NEW o \in Obligations, AskStep(o) PROVE BroughtInv'
  <2>1. worker = Idle /\ worker'.evidence = {} /\ ~worker'.accepted
    BY <1>4 DEF AskStep, Hand, Idle
  <2> QED
    BY <1>0, <1>1, <1>4, <2>1 DEF AskStep, Hand
<1>5. ASSUME NEW o \in Obligations, NEW outcome, NEW cites, AskClose(o, outcome, cites)
      PROVE  BroughtInv'
  <2>1. worker = Idle /\ worker'.evidence = {} /\ ~worker'.accepted
    BY <1>5 DEF AskClose, Hand, Idle
  <2> QED
    BY <1>0, <1>1, <1>5, <2>1 DEF AskClose, Hand
<1>6. ASSUME NEW a \in Submissions, AskSubmit(a) PROVE BroughtInv'
  <2>1. worker = Idle /\ worker'.evidence = {} /\ ~worker'.accepted
    BY <1>6 DEF AskSubmit, Hand, Idle
  <2> QED
    BY <1>0, <1>1, <1>6, <2>1 DEF AskSubmit, Hand
<1>7. CASE PlanStep
  BY <1>2, <1>7 DEF PlanStep, ToolDone
<1>8. CASE Admit
  BY <1>2, <1>8 DEF Admit
<1>9. CASE CloseObligation
  BY <1>2, <1>9 DEF CloseObligation, ToolDone
<1>10. CASE Tell
  BY <1>2, <1>10 DEF Tell, ToolDone
<1>11. CASE Judge
  BY <1>2, <1>11 DEF Judge, RefuseOutput
<1>12. CASE HandIn
  BY <1>2, <1>12 DEF HandIn, Submit, RefuseOutput
<1>13. CASE Keep
  BY <1>2, <1>13 DEF Keep
<1>14. CASE Return
  <2>1. worker.at = "dispatch" /\ UNCHANGED steps /\ worker.evidence = {}
    BY <1>14 DEF Return, BroughtInv
  <2>2. Brought(steps)' = Brought(steps)
    BY <2>1 DEF Brought
  <2>3. worker'.at = "record"
    BY <1>14 DEF Return, Typed, Jobs
  <2>4. \/ \E e : registered' = registered \cup e /\ worker'.evidence = e
        \/ registered' = registered /\ worker'.evidence = worker.evidence
    BY <1>14 DEF Return, Register, Typed, Jobs
  <2> QED
    BY <2>1, <2>2, <2>3, <2>4 DEF BroughtInv
<1>15. CASE Record
  <2>1. PICK o \in worker.about :
          steps' = Append(steps, [of |-> o, accepted |-> worker.accepted,
                                  evidence |-> worker.evidence])
    BY <1>15 DEF Record
  <2>2. worker' = Idle /\ UNCHANGED registered
    BY <1>15 DEF Record, ToolDone
  <2> DEFINE x == [of |-> o, accepted |-> worker.accepted, evidence |-> worker.evidence]
  <2>3. x \in Executed /\ x.evidence = worker.evidence
    BY <2>1 DEF Typed, Jobs, Executed
  <2> HIDE DEF x
  <2>4. Brought(steps') = Brought(steps) \cup worker.evidence
    <3>1. steps \in Seq(Executed) /\ steps' = Append(steps, x)
      BY <2>1 DEF Typed, x
    <3> QED
      BY <2>3, <3>1, BroughtAppend
  <2>5. Brought(steps)' = Brought(steps')
    BY DEF Brought
  <2> QED
    BY <1>0, <2>2, <2>4, <2>5 DEF BroughtInv
<1> QED
  BY <1>3, <1>4, <1>5, <1>6, <1>7, <1>8, <1>9, <1>10, <1>11, <1>12, <1>13, <1>14, <1>15
  DEF Next, AgentStep, WorkerStep

-----------------------------------------------------------------------------
\* A step executed for one obligation is its last one, and leaves the last step
\* of every other as it was.
LEMMA LastStepAppend ==
    ASSUME NEW s \in Seq(Executed), NEW x \in Executed
    PROVE  /\ \A evidence : x.accepted /\ evidence \subseteq x.evidence
                => LastStep(Append(s, x), x.of, evidence)
           /\ \A o, evidence : o # x.of /\ LastStep(s, o, evidence)
                => LastStep(Append(s, x), o, evidence)
<1> DEFINE t == Append(s, x)
           n == Len(s) + 1
<1>1. /\ DOMAIN s = 1..Len(s) /\ DOMAIN t = 1..n /\ Len(s) \in Nat
      /\ \A i \in 1..Len(s) : t[i] = s[i]
      /\ t[n] = x
  BY AppendProperties
<1>2. /\ n \in 1..n
      /\ \A i \in 1..n : i <= n /\ (i = n \/ i \in 1..Len(s))
      /\ \A i \in 1..Len(s) : i \in 1..n
  BY <1>1
<1> HIDE DEF t, n
<1>3. ASSUME NEW evidence, x.accepted, evidence \subseteq x.evidence
      PROVE  LastStep(t, x.of, evidence)
  BY <1>1, <1>2, <1>3 DEF LastStep
<1>4. ASSUME NEW o, NEW evidence, o # x.of, LastStep(s, o, evidence)
      PROVE  LastStep(t, o, evidence)
  <2>1. PICK i \in 1..Len(s) :
          /\ s[i].of = o
          /\ s[i].accepted
          /\ evidence \subseteq s[i].evidence
          /\ \A j \in 1..Len(s) : s[j].of = o => j <= i
    BY <1>1, <1>4 DEF LastStep
  <2>2. \A j \in 1..n : t[j].of = o => j <= i
    BY <1>1, <1>2, <1>4, <2>1
  <2> QED
    BY <1>1, <1>2, <2>1, <2>2 DEF LastStep
<1> QED
  BY <1>3, <1>4 DEF t

\* What the invariant says of one obligation.
WitnessAt(o) ==
  /\ obligations[o].accepted => LastStep(steps, o, obligations[o].last)
  /\ obligations[o].status = "SATISFIED" =>
       obligations[o].with # {} /\ LastStep(steps, o, obligations[o].with)
  /\ worker.at \in {"admit", "dispatch", "record"} /\ o \in worker.about =>
       obligations[o].status = "OPEN"
  /\ obligations[o].status = "SATISFIED" =>
       o \in closures \/ (worker.at = "tell" /\ o \in worker.about)

\* Every step keeps the witnesses.
LEMMA WitnessStep ==
    ASSUME Typed, Typed', LoopInv, WitnessInv, [Next]_vars
    PROVE  WitnessInv'
<1> USE DEF controller, session
<1>0. Idle.at = "idle"
  BY DEF Idle
<1>1. WitnessInv <=> \A o \in Obligations : WitnessAt(o)
  BY DEF WitnessInv, WitnessAt
<1>2. WitnessInv' <=> \A o \in Obligations : WitnessAt(o)'
  BY DEF WitnessInv, WitnessAt
\* A job says something of an obligation only from its admission to its record
\* and while its closure has not been told.
<1>3. ASSUME UNCHANGED <<obligations, steps>>, closures \subseteq closures',
             \/ worker' = worker
             \/ /\ worker.at \in {"admit", "dispatch"}
                /\ worker'.at # "tell" /\ worker'.about = worker.about
             \/ /\ worker'.at \notin {"admit", "dispatch", "record"}
                /\ worker.at = "tell" => worker.about \subseteq closures'
      PROVE  WitnessInv'
  <2>1. ASSUME NEW o \in Obligations PROVE WitnessAt(o)'
    <3>1. WitnessAt(o)
      BY <1>1
    <3> QED
      BY <1>3, <3>1 DEF WitnessAt
  <2> QED
    BY <1>2, <2>1
<1>4. CASE Construct \/ Garbage \/ Stopped \/ Timeout \/ EndStep \/ TimePasses \/ UNCHANGED vars
  BY <1>3, <1>4 DEF Construct, Garbage, Stopped, Timeout, EndStep, Terminal, CopyRecords,
     CopySteps, CopyTurns, CopyState, Check, Read, TimePasses, Tick, vars
<1>5. ASSUME NEW o \in Obligations, AskStep(o) PROVE WitnessInv'
  <2>1. worker.at = "idle" /\ worker'.at = "plan"
    BY <1>5 DEF AskStep, Hand, Idle
  <2> QED
    BY <1>3, <1>5, <2>1 DEF AskStep, Hand
<1>6. ASSUME NEW o \in Obligations, NEW outcome, NEW cites, AskClose(o, outcome, cites)
      PROVE  WitnessInv'
  <2>1. worker.at = "idle" /\ worker'.at = "close"
    BY <1>6 DEF AskClose, Hand, Idle
  <2> QED
    BY <1>3, <1>6, <2>1 DEF AskClose, Hand
<1>7. ASSUME NEW a \in Submissions, AskSubmit(a) PROVE WitnessInv'
  <2>1. worker.at = "idle" /\ worker'.at = "judge"
    BY <1>7 DEF AskSubmit, Hand, Idle
  <2> QED
    BY <1>3, <1>7, <2>1 DEF AskSubmit, Hand
<1>8. CASE PlanStep
  <2>1. PICK o \in worker.about, malformed \in BOOLEAN :
           IF StepCode(o, malformed) = "NONE"
           THEN /\ obligations' = IF obligations[o].status = "NONE"
                                  THEN [obligations EXCEPT ![o].status = "OPEN"] ELSE obligations
                /\ worker' = [worker EXCEPT !.at = "admit"]
                /\ UNCHANGED <<loop, refusals>>
           ELSE Refuse(StepCode(o, malformed)) /\ ToolDone /\ UNCHANGED obligations
    BY <1>8 DEF PlanStep
  <2>2. worker.at = "plan" /\ UNCHANGED <<steps, closures>>
    BY <1>8 DEF PlanStep
  <2>3. CASE StepCode(o, malformed) # "NONE"
    BY <1>0, <1>3, <2>1, <2>2, <2>3 DEF ToolDone
  <2>4. CASE StepCode(o, malformed) = "NONE"
    <3>1. worker'.at = "admit" /\ worker'.about = worker.about
      BY <2>1, <2>4 DEF Typed, Jobs
    <3>2. o \in Obligations /\ \A x \in worker.about : x = o
      BY <2>1 DEF Typed, Jobs
    <3>3. obligations[o].status \in {"NONE", "OPEN"}
      BY <2>4 DEF StepCode
    <3>4. /\ obligations'[o].status = "OPEN"
          /\ obligations'[o].accepted = obligations[o].accepted
          /\ obligations'[o].last = obligations[o].last
          /\ \A x \in Obligations \ {o} : obligations'[x] = obligations[x]
      BY <2>1, <2>4, <3>2, <3>3 DEF Typed, Entries
    <3>5. ASSUME NEW x \in Obligations PROVE WitnessAt(x)'
      <4>1. WitnessAt(x)
        BY <1>1
      <4> QED
        BY <2>2, <3>1, <3>2, <3>4, <4>1 DEF WitnessAt
    <3> QED
      BY <1>2, <3>5
  <2> QED
    BY <2>3, <2>4
<1>9. CASE Admit
  <2>1. worker.at = "admit" /\ worker'.at # "tell" /\ worker'.about = worker.about
    BY <1>9 DEF Admit, Typed, Jobs
  <2> QED
    BY <1>3, <1>9, <2>1 DEF Admit
<1>10. CASE Return
  <2>1. worker.at = "dispatch" /\ worker'.at # "tell" /\ worker'.about = worker.about
    BY <1>10 DEF Return, Typed, Jobs
  <2> QED
    BY <1>3, <1>10, <2>1 DEF Return
<1>11. CASE Record
  <2>1. PICK o \in worker.about :
          /\ obligations' = [obligations EXCEPT ![o].accepted = worker.accepted,
                                                ![o].last = worker.evidence]
          /\ steps' = Append(steps, [of |-> o, accepted |-> worker.accepted,
                                     evidence |-> worker.evidence])
    BY <1>11 DEF Record
  <2>2. worker.at = "record" /\ worker'.at = "idle" /\ UNCHANGED closures
    BY <1>0, <1>11 DEF Record, ToolDone
  <2> DEFINE x == [of |-> o, accepted |-> worker.accepted, evidence |-> worker.evidence]
  <2>3. /\ o \in Obligations /\ x \in Executed
        /\ x.of = o /\ x.accepted = worker.accepted /\ x.evidence = worker.evidence
    BY <2>1 DEF Typed, Jobs, Executed
  <2>4. /\ obligations'[o].accepted = worker.accepted
        /\ obligations'[o].last = worker.evidence
        /\ obligations'[o].status = obligations[o].status
        /\ \A y \in Obligations \ {o} : obligations'[y] = obligations[y]
    BY <2>1, <2>3 DEF Typed, Entries
  <2> HIDE DEF x
  <2>5. steps \in Seq(Executed) /\ steps' = Append(steps, x)
    BY <2>1 DEF Typed, x
  <2>6. obligations[o].status = "OPEN"
    BY <2>1, <2>2, <2>3 DEF WitnessInv
  <2>7. WitnessAt(o)'
    <3>1. worker.accepted => LastStep(steps', o, worker.evidence)
      BY <2>3, <2>5, LastStepAppend
    <3> QED
      BY <2>2, <2>4, <2>6, <3>1 DEF WitnessAt
  <2>8. ASSUME NEW y \in Obligations \ {o} PROVE WitnessAt(y)'
    <3>1. WitnessAt(y)
      BY <1>1
    <3>2. \A evidence : LastStep(steps, y, evidence) => LastStep(steps', y, evidence)
      BY <2>3, <2>5, LastStepAppend
    <3> QED
      BY <2>2, <2>4, <3>1, <3>2 DEF WitnessAt
  <2> QED
    BY <1>2, <2>7, <2>8
<1>12. CASE CloseObligation
  <2>1. PICK o \in worker.about :
       IF CloseCode(o, worker.outcome, worker.cites) = "NONE"
       THEN /\ obligations' = [obligations EXCEPT
                                 ![o].status = worker.outcome,
                                 ![o].with = IF worker.outcome = "SATISFIED"
                                             THEN worker.cites ELSE {}]
            /\ worker' = [worker EXCEPT !.at = "tell"]
            /\ UNCHANGED <<loop, refusals>>
       ELSE /\ Refuse(CloseCode(o, worker.outcome, worker.cites))
            /\ ToolDone
            /\ UNCHANGED obligations
    BY <1>12 DEF CloseObligation
  <2>2. worker.at = "close" /\ UNCHANGED <<steps, closures>>
    BY <1>12 DEF CloseObligation
  <2>3. CASE CloseCode(o, worker.outcome, worker.cites) # "NONE"
    BY <1>0, <1>3, <2>1, <2>2, <2>3 DEF ToolDone
  <2>4. CASE CloseCode(o, worker.outcome, worker.cites) = "NONE"
    <3>1. worker'.at = "tell" /\ worker'.about = worker.about
      BY <2>1, <2>4 DEF Typed, Jobs
    <3>2. o \in Obligations
      BY <2>1 DEF Typed, Jobs
    <3>3. worker.outcome = "SATISFIED" =>
            /\ obligations[o].accepted /\ worker.cites # {}
            /\ worker.cites \subseteq obligations[o].last
      BY <2>4 DEF CloseCode, SatisfactionCode
    <3>4. /\ obligations'[o].status = worker.outcome
          /\ worker.outcome = "SATISFIED" => obligations'[o].with = worker.cites
          /\ obligations'[o].accepted = obligations[o].accepted
          /\ obligations'[o].last = obligations[o].last
          /\ \A x \in Obligations \ {o} : obligations'[x] = obligations[x]
      BY <2>1, <2>4, <3>2 DEF Typed, Entries
    <3>5. WitnessAt(o)'
      <4>1. WitnessAt(o)
        BY <1>1, <3>2
      <4>2. worker.outcome = "SATISFIED" => LastStep(steps, o, worker.cites)
        BY <3>3, <4>1 DEF WitnessAt, LastStep
      <4> QED
        BY <2>1, <2>2, <3>1, <3>3, <3>4, <4>1, <4>2 DEF WitnessAt
    <3>6. ASSUME NEW x \in Obligations \ {o} PROVE WitnessAt(x)'
      <4>1. WitnessAt(x)
        BY <1>1
      <4> QED
        BY <2>2, <3>1, <3>4, <4>1 DEF WitnessAt
    <3> QED
      BY <1>2, <3>5, <3>6
  <2> QED
    BY <2>3, <2>4
<1>13. CASE Tell
  BY <1>0, <1>3, <1>13 DEF Tell, ToolDone
<1>14. CASE Judge
  <2>1. worker.at = "judge" /\ worker'.at \in {"idle", "hand"}
    BY <1>0, <1>14 DEF Judge, RefuseOutput, Typed, Jobs
  <2> QED
    BY <1>3, <1>14, <2>1 DEF Judge
<1>15. CASE HandIn
  <2>1. worker.at = "hand" /\ worker'.at \in {"idle", "keep"}
    BY <1>0, <1>15 DEF HandIn, RefuseOutput, Typed, Jobs
  <2> QED
    BY <1>3, <1>15, <2>1 DEF HandIn
<1>16. CASE Keep
  <2>1. worker.at = "keep" /\ worker'.at = "idle"
    BY <1>0, <1>16 DEF Keep
  <2> QED
    BY <1>3, <1>16, <2>1 DEF Keep
<1> QED
  BY <1>4, <1>5, <1>6, <1>7, <1>8, <1>9, <1>10, <1>11, <1>12, <1>13, <1>14, <1>15, <1>16
  DEF Next, AgentStep, WorkerStep

-----------------------------------------------------------------------------
\* Every step keeps what the archive of an answered run shows.
LEMMA ArchiveStep ==
    ASSUME Typed, LoopInv, CountInv, ArchiveInv, [Next]_vars
    PROVE  ArchiveInv'
<1> USE DEF controller, session
<1>0. Idle.at = "idle"
  BY DEF Idle
\* A step that leaves the answer alone and is not one of the loop's last.
<1>1. ASSUME UNCHANGED final, registered \subseteq registered',
             worker'.at = "keep" /\ loop' = "validate" =>
               worker'.answer = worker.answer /\ worker.at = "keep" /\ loop = "validate",
             loop' \in Finishing /\ reason' = "none" =>
               UNCHANGED <<loop, reason, snap, result, registered, steps, closures, obligations>>
      PROVE  ArchiveInv'
  <2>1. Answered' => Answered
    BY <1>1 DEF Answered
  <2> QED
    BY <1>1, <2>1 DEF ArchiveInv
\* While the worker is in a tool the run has no answer, and has none when it returns.
<1>2. ASSUME worker.at \in ToolJobs, worker'.at # "keep", UNCHANGED <<reason, final>>,
             registered \subseteq registered', UNCHANGED loop \/ ToolDone
      PROVE  ArchiveInv'
  <2>1. ~(loop \in Finishing /\ reason = "none")
    BY <1>2 DEF LoopInv, ToolJobs, PlanJobs
  <2>2. loop' = loop \/ loop' = "model"
    BY <1>2 DEF ToolDone
  <2>3. ~(loop' \in Finishing /\ reason' = "none")
    BY <1>2, <2>1, <2>2 DEF Finishing
  <2> QED
    BY <1>1, <1>2, <2>3
<1>3. CASE Construct \/ Garbage \/ Stopped \/ Timeout
  <2>1. UNCHANGED <<final, registered, worker>> /\ loop' \in {"model", "terminal"}
    BY <1>3 DEF Construct, Garbage, Stopped, Timeout, Fail, RetryOutput
  <2> QED
    BY <1>1, <2>1 DEF Finishing
<1>4. ASSUME NEW o \in Obligations, AskStep(o) PROVE ArchiveInv'
  <2>1. worker'.at = "plan" /\ loop' = "tool" /\ UNCHANGED session
    BY <1>4 DEF AskStep, Hand, Idle
  <2> QED
    BY <1>1, <2>1 DEF Finishing
<1>5. ASSUME NEW o \in Obligations, NEW outcome, NEW cites, AskClose(o, outcome, cites)
      PROVE  ArchiveInv'
  <2>1. worker'.at = "close" /\ loop' = "tool" /\ UNCHANGED session
    BY <1>5 DEF AskClose, Hand, Idle
  <2> QED
    BY <1>1, <2>1 DEF Finishing
<1>6. ASSUME NEW a \in Submissions, AskSubmit(a) PROVE ArchiveInv'
  <2>1. worker'.at = "judge" /\ loop' = "validate" /\ UNCHANGED session
    BY <1>6 DEF AskSubmit, Hand, Idle
  <2> QED
    BY <1>1, <2>1 DEF Finishing
<1>7. CASE PlanStep
  <2>1. worker.at = "plan" /\ worker'.at # "keep" /\ UNCHANGED <<session, reason>>
        /\ (UNCHANGED loop \/ ToolDone)
    BY <1>0, <1>7 DEF PlanStep, ToolDone, Typed, Jobs
  <2> QED
    BY <1>2, <2>1 DEF ToolJobs, PlanJobs
<1>8. CASE Admit
  <2>1. worker.at = "admit" /\ worker'.at # "keep" /\ UNCHANGED <<final, registered, reason, loop>>
    BY <1>8 DEF Admit, PassGate, Typed, Jobs
  <2> QED
    BY <1>2, <2>1 DEF ToolJobs, PlanJobs
<1>9. CASE Return
  <2>1. worker.at = "dispatch" /\ worker'.at # "keep" /\ UNCHANGED <<final, reason, loop>>
        /\ registered \subseteq registered'
    BY <1>9 DEF Return, Register, Typed, Jobs
  <2> QED
    BY <1>2, <2>1 DEF ToolJobs, PlanJobs
<1>10. CASE Record \/ Tell
  <2>1. worker.at \in {"record", "tell"} /\ worker'.at # "keep" /\ UNCHANGED <<session, reason>>
        /\ ToolDone
    BY <1>0, <1>10 DEF Record, Tell, ToolDone
  <2> QED
    BY <1>2, <2>1 DEF ToolJobs, PlanJobs
<1>11. CASE CloseObligation
  <2>1. worker.at = "close" /\ worker'.at # "keep" /\ UNCHANGED <<session, reason>>
        /\ (UNCHANGED loop \/ ToolDone)
    BY <1>0, <1>11 DEF CloseObligation, ToolDone, Typed, Jobs
  <2> QED
    BY <1>2, <2>1 DEF ToolJobs
\* A refused output leaves the agent's run without an answer.
<1>12. ASSUME NEW why \in ErrorReasons, worker.at \in {"judge", "hand"}, RefuseOutput(why),
              UNCHANGED <<final, registered>>
       PROVE  ArchiveInv'
  <2>1. ~(loop \in Finishing /\ reason = "none")
    BY <1>12 DEF LoopInv, JudgeJobs
  <2>2. worker'.at = "idle" /\ ~(loop' \in Finishing /\ reason' = "none")
    BY <1>0, <1>12, <2>1 DEF RefuseOutput, RetryOutput, Fail, Finishing, ErrorReasons
  <2> QED
    BY <1>1, <1>12, <2>2
<1>13. CASE Judge
  <2>1. worker.at = "judge" /\ UNCHANGED <<final, registered>>
    BY <1>13 DEF Judge
  <2>2. CASE RefuseOutput("MODEL_OUTPUT_RETRY_EXHAUSTED")
    BY <1>12, <2>1, <2>2 DEF ErrorReasons
  <2>3. CASE worker' = [worker EXCEPT !.at = "hand"] /\ UNCHANGED <<loop, reason, outRetries>>
    <3>1. worker'.at = "hand"
      BY <2>3 DEF Typed, Jobs
    <3>2. ~(loop \in Finishing /\ reason = "none")
      BY <2>1 DEF LoopInv
    <3> QED
      BY <1>1, <2>1, <2>3, <3>1, <3>2
  <2> QED
    BY <1>13, <2>2, <2>3 DEF Judge
<1>14. CASE HandIn
  <2>1. worker.at = "hand" /\ Submit(worker.answer) /\ UNCHANGED registered
    BY <1>14 DEF HandIn, Submit
  <2>2. CASE SubmitCode(worker.answer) # "ACCEPTED"
    <3>1. RefuseOutput("MODEL_PROTOCOL_ERROR") /\ UNCHANGED final
      BY <1>14, <2>2 DEF HandIn, Submit
    <3> QED
      BY <1>12, <2>1, <3>1 DEF ErrorReasons
  <2>3. CASE SubmitCode(worker.answer) = "ACCEPTED"
    <3>1. /\ final' = worker.answer /\ worker'.answer = worker.answer
          /\ UNCHANGED <<loop, reason>>
      BY <1>14, <2>3 DEF HandIn, Submit, Typed, Jobs
    <3>2. worker.answer.cited \subseteq registered
      BY <2>3 DEF SubmitCode
    <3>3. ~(loop \in Finishing /\ reason = "none")
      BY <2>1 DEF LoopInv
    <3> QED
      BY <2>1, <3>1, <3>2, <3>3 DEF ArchiveInv
  <2> QED
    BY <2>2, <2>3
<1>15. CASE Keep
  <2>1. /\ worker.at = "keep" /\ worker'.at = "idle"
        /\ UNCHANGED <<session, reason, steps, closures, obligations, result>>
    BY <1>0, <1>15 DEF Keep
  <2>2. CASE loop = "validate"
    <3>1. loop' = "records" /\ snap' = [snap EXCEPT !.verdict = worker.answer]
      BY <1>15, <2>2 DEF Keep
    <3>2. final = worker.answer /\ final.cited \subseteq registered
      BY <2>1, <2>2 DEF ArchiveInv, Answered
    <3>3. snap'.verdict = worker.answer
      BY <3>1 DEF Typed, Snaps
    <3> QED
      BY <2>1, <3>1, <3>2, <3>3 DEF ArchiveInv
  <2>3. CASE loop # "validate"
    <3>1. UNCHANGED <<loop, snap>>
      BY <1>15, <2>3 DEF Keep
    <3> QED
      BY <1>1, <2>1, <2>3, <3>1
  <2> QED
    BY <2>2, <2>3
<1>16. CASE Terminal
  <2>1. /\ loop = "terminal" /\ loop' = "records" /\ UNCHANGED <<reason, worker, registered, final>>
    BY <1>16 DEF Terminal, Cancel
  <2>2. reason' # "none"
    BY <2>1 DEF LoopInv
  <2> QED
    BY <1>1, <2>1, <2>2
<1>17. CASE CopyRecords \/ CopySteps \/ CopyTurns \/ CopyState \/ Check
  <2>1. /\ UNCHANGED <<session, reason, worker, steps, closures, obligations, attempts, receipts>>
        /\ loop \in Finishing /\ loop' \in Finishing
        /\ loop # "done"
    BY <1>17 DEF CopyRecords, CopySteps, CopyTurns, CopyState, Check, Read, Finishing
  <2>2. CASE reason # "none"
    BY <1>1, <2>1, <2>2 DEF Finishing
  <2>3. CASE reason = "none"
    <3>1. Answered
      BY <2>1, <2>3 DEF Answered
    <3>2. /\ final.cited \subseteq registered
          /\ snap.verdict = final
          /\ loop # "records" => snap.records = registered
          /\ loop \notin {"records", "steps"} => snap.steps = steps
          /\ loop \notin {"records", "steps", "turns"} => snap.closures = closures
          /\ loop \in {"check", "done"} =>
               snap.satisfied = {o \in Obligations : obligations[o].status = "SATISFIED"}
      BY <2>1, <2>3, <3>1 DEF ArchiveInv
    <3>3. loop' # "raised" /\ (loop' = "done" => result'.snap = snap')
      <4>1. CASE Check
        <5>1. loop = "check" /\ snap.steps = steps /\ UNCHANGED snap
          BY <3>2, <4>1 DEF Check
        <5>2. attempts = Len(snap.steps) /\ receipts = Cardinality(Accepted(snap.steps))
          <6>1. worker.at = "idle" /\ Counted
            BY <2>1, <2>3, <3>1 DEF LoopInv, CountInv
          <6>2. Len(steps) \in Nat /\ Cardinality(Accepted(steps)) \in Nat
            <7>1. DOMAIN steps = 1..Len(steps) /\ Len(steps) \in Nat
              BY DEF Typed
            <7>2. Accepted(steps) \in SUBSET (1..Len(steps)) /\ IsFiniteSet(1..Len(steps))
              BY <7>1, FS_Interval DEF Accepted
            <7> QED
              BY <7>1, <7>2, FS_Subset, FS_CardinalityType
          <6> QED
            BY <5>1, <6>1, <6>2 DEF Counted
        <5> QED
          BY <4>1, <5>1, <5>2 DEF Check
      <4>2. CASE ~Check
        BY <1>17, <4>2 DEF CopyRecords, CopySteps, CopyTurns, CopyState, Read
      <4> QED
        BY <4>1, <4>2
    <3>4. /\ snap'.verdict = snap.verdict
          /\ loop' # "records" => snap'.records = registered
          /\ loop' \notin {"records", "steps"} => snap'.steps = steps
          /\ loop' \notin {"records", "steps", "turns"} => snap'.closures = closures
          /\ loop' \in {"check", "done"} =>
               snap'.satisfied = {o \in Obligations : obligations[o].status = "SATISFIED"}
      BY <1>17, <3>2 DEF CopyRecords, CopySteps, CopyTurns, CopyState, Check, Read, Typed, Snaps
    <3> QED
      BY <2>1, <2>3, <3>2, <3>3, <3>4 DEF ArchiveInv, Finishing
  <2> QED
    BY <2>2, <2>3
<1>18. CASE TimePasses \/ UNCHANGED vars
  BY <1>1, <1>18 DEF TimePasses, Tick, vars
<1> QED
  BY <1>3, <1>4, <1>5, <1>6, <1>7, <1>8, <1>9, <1>10, <1>11, <1>13, <1>14, <1>15, <1>16,
     <1>17, <1>18
  DEF Next, AgentStep, WorkerStep, EndStep

-----------------------------------------------------------------------------
\* The initial state satisfies the invariant.
LEMMA InitHolds ==
    ASSUME SessionAssumption, Init
    PROVE  IInv
<1> USE DEF Init, SessionInit
<1>1. worker.at = "idle" /\ ~worker.accepted /\ worker.evidence = {} /\ worker.about = {}
  BY DEF Idle
<1>2. Typed
  <2>1. Unplanned \in Entries
    BY DEF Unplanned, Entries
  <2>2. NoSnap \in Snaps
    BY DEF NoSnap, Snaps
  <2>3. obligations \in [Obligations -> Entries] /\ steps \in Seq(Executed)
    BY <2>1
  <2>4. worker \in Jobs
    BY JobShapes
  <2> QED
    BY <2>2, <2>3, <2>4 DEF Typed
<1>3. LoopInv
  BY <1>1 DEF LoopInv, ToolJobs, PlanJobs, JudgeJobs, Finishing
<1>4. CountInv
  <2>1. Accepted(steps) = {}
    BY DEF Accepted
  <2>2. Counted
    BY <1>1, <2>1, FS_EmptySet DEF Counted
  <2> QED
    BY <1>1, <2>2 DEF CountInv, SessionAssumption
<1>5. BroughtInv
  <2>1. Brought(steps) = {}
    BY DEF Brought
  <2> QED
    BY <1>1, <2>1 DEF BroughtInv
<1>6. WitnessInv
  BY <1>1 DEF WitnessInv, Unplanned
<1>7. ArchiveInv
  BY <1>1 DEF ArchiveInv, Answered, Finishing
<1> QED
  BY <1>2, <1>3, <1>4, <1>5, <1>6, <1>7 DEF IInv

\* The inductive invariant: loop and worker in step, calls counted and recorded,
\* evidence brought by a step, satisfied obligations witnessed, the archive of an
\* answered run true as far as it goes.
THEOREM Invariance == Spec => []IInv
<1>1. Init => IInv
  BY SessionAssumption, InitHolds
<1>2. IInv /\ [Next]_vars => IInv'
  <2> SUFFICES ASSUME IInv, [Next]_vars PROVE IInv'
    OBVIOUS
  <2>1. Typed'
    BY PlannerAssumption, TypedStep DEF IInv
  <2>2. LoopInv'
    BY LoopStep DEF IInv
  <2>3. CountInv'
    BY <2>1, SessionAssumption, CountStep DEF IInv
  <2>4. BroughtInv'
    BY BroughtStep DEF IInv
  <2>5. WitnessInv'
    BY <2>1, WitnessStep DEF IInv
  <2>6. ArchiveInv'
    BY ArchiveStep DEF IInv
  <2> QED
    BY <2>1, <2>2, <2>3, <2>4, <2>5, <2>6 DEF IInv
<1> QED
  BY <1>1, <1>2, PTL DEF Spec

\* An obligation is SATISFIED only by the last call executed for it
\* (SatisfiedIsWitnessed), for any obligations and whatever their calls return.
THEOREM SatisfactionsWitnessed == Spec => []SatisfiedIsWitnessed
<1>1. IInv => SatisfiedIsWitnessed
  BY DEF IInv, WitnessInv, LastStep, SatisfiedIsWitnessed
<1> QED
  BY <1>1, Invariance, PTL

\* The controller keeps the session's call budget, and its own budget of refusals
\* while the session is open (PlanStaysInBudget), for any budgets.
THEOREM BudgetsKept == Spec => []PlanStaysInBudget
<1>1. IInv => PlanStaysInBudget
  BY DEF IInv, CountInv, PlanStaysInBudget
<1> QED
  BY <1>1, Invariance, PTL

\* An answered run never ends in an exception, and its archive bears the answer
\* out (AnswerIsDelivered), although it is copied in four readings.
THEOREM AnswersDelivered == Spec => []AnswerIsDelivered
<1>1. ASSUME IInv, Finished, reason = "none"
      PROVE  LET archive == result.snap
             IN /\ loop = "done"
                /\ archive.verdict = final
                /\ archive.verdict.cited \subseteq archive.records
                /\ archive.satisfied \subseteq archive.closures
                /\ archive.records = UNION {archive.steps[i].evidence : i \in DOMAIN archive.steps}
  <2>1. loop \in Finishing /\ Answered /\ worker.at = "idle"
    BY <1>1 DEF Finished, Finishing, Answered, IInv, LoopInv
  <2>2. loop = "done" /\ result.snap = snap
    BY <1>1, <2>1 DEF Finished, IInv, ArchiveInv
  <2>3. /\ snap.verdict = final /\ final.cited \subseteq registered
        /\ snap.records = registered /\ snap.steps = steps /\ snap.closures = closures
        /\ snap.satisfied = {o \in Obligations : obligations[o].status = "SATISFIED"}
    BY <1>1, <2>1, <2>2 DEF IInv, ArchiveInv
  <2>4. snap.satisfied \subseteq closures
    BY <1>1, <2>1, <2>3 DEF IInv, WitnessInv
  <2>5. registered = UNION {steps[i].evidence : i \in DOMAIN steps}
    BY <1>1, <2>1 DEF IInv, BroughtInv, Brought
  <2> QED
    BY <2>2, <2>3, <2>4, <2>5
<1>2. IInv => AnswerIsDelivered
  BY <1>1 DEF AnswerIsDelivered
<1> QED
  BY <1>2, Invariance, PTL
-----------------------------------------------------------------------------
\* What was closed stays closed (ClosedStays): a call on its way for an obligation
\* was admitted while it was open, and the worker that closes it makes no calls.
THEOREM ClosuresStay == Spec => ClosedStays
<1> DEFINE Shut(o) == obligations[o].status \in {"SATISFIED", "REVOKED"}
<1>1. ASSUME IInv, [Next]_vars, NEW o \in Obligations, Shut(o)
      PROVE  /\ obligations'[o] = obligations[o]
             /\ \A i \in DOMAIN steps' \ DOMAIN steps : steps'[i].of # o
  <2> USE DEF controller
  <2>0. Typed /\ WitnessInv
    BY <1>1 DEF IInv
  <2>1. CASE UNCHANGED <<obligations, steps>>
    BY <2>1
  <2>2. CASE PlanStep
    <3>1. UNCHANGED steps
      BY <2>2 DEF PlanStep
    <3>2. PICK x \in worker.about :
            \/ obligations' = obligations
            \/ /\ obligations[x].status = "NONE"
               /\ obligations' = [obligations EXCEPT ![x].status = "OPEN"]
      BY <2>2 DEF PlanStep
    <3>3. obligations'[o] = obligations[o]
      BY <1>1, <2>0, <3>2 DEF Typed
    <3> QED
      BY <3>1, <3>3
  <2>3. CASE CloseObligation
    <3>1. UNCHANGED steps
      BY <2>3 DEF CloseObligation
    <3>2. PICK x \in worker.about :
            \/ obligations' = obligations
            \/ /\ CloseCode(x, worker.outcome, worker.cites) = "NONE"
               /\ obligations' = [obligations EXCEPT
                                    ![x].status = worker.outcome,
                                    ![x].with = IF worker.outcome = "SATISFIED"
                                                THEN worker.cites ELSE {}]
      BY <2>3 DEF CloseObligation
    <3>3. CloseCode(x, worker.outcome, worker.cites) = "NONE" => obligations[x].status = "OPEN"
      BY DEF CloseCode
    <3>4. obligations'[o] = obligations[o]
      BY <1>1, <2>0, <3>2, <3>3 DEF Typed
    <3> QED
      BY <3>1, <3>4
  <2>4. CASE Record
    <3>1. PICK x \in worker.about :
            /\ obligations' = [obligations EXCEPT ![x].accepted = worker.accepted,
                                                  ![x].last = worker.evidence]
            /\ steps' = Append(steps, [of |-> x, accepted |-> worker.accepted,
                                       evidence |-> worker.evidence])
      BY <2>4 DEF Record
    <3>2. x \in Obligations /\ worker.at = "record"
      BY <2>0, <2>4, <3>1 DEF Record, Typed, Jobs
    <3>3. x # o
      BY <1>1, <2>0, <3>1, <3>2 DEF WitnessInv
    <3>4. obligations'[o] = obligations[o]
      BY <2>0, <3>1, <3>2, <3>3 DEF Typed
    <3> DEFINE entry == [of |-> x, accepted |-> worker.accepted, evidence |-> worker.evidence]
    <3>5. entry \in Executed /\ entry.of = x
      BY <2>0, <3>1, <3>2 DEF Executed, Typed, Jobs
    <3> HIDE DEF entry
    <3>6. /\ DOMAIN steps = 1..Len(steps) /\ DOMAIN steps' = 1..(Len(steps) + 1)
          /\ Len(steps) \in Nat
          /\ steps'[Len(steps) + 1] = entry
      BY <2>0, <3>1, <3>5, AppendProperties DEF Typed, entry
    <3>7. \A i \in DOMAIN steps' \ DOMAIN steps : steps'[i].of # o
      BY <3>3, <3>5, <3>6
    <3> QED
      BY <3>4, <3>7
  <2>5. Construct \/ Garbage \/ Stopped \/ Timeout \/ TimePasses => UNCHANGED <<obligations, steps>>
    BY DEF Construct, Garbage, Stopped, Timeout, TimePasses
  <2>6. ASSUME NEW x \in Obligations, AskStep(x) PROVE UNCHANGED <<obligations, steps>>
    BY <2>6 DEF AskStep, Hand
  <2>7. ASSUME NEW x \in Obligations, NEW outcome, NEW cites, AskClose(x, outcome, cites)
        PROVE  UNCHANGED <<obligations, steps>>
    BY <2>7 DEF AskClose, Hand
  <2>8. ASSUME NEW a \in Submissions, AskSubmit(a) PROVE UNCHANGED <<obligations, steps>>
    BY <2>8 DEF AskSubmit, Hand
  <2>9. Admit \/ Return \/ Tell \/ Judge \/ HandIn \/ Keep => UNCHANGED <<obligations, steps>>
    BY DEF Admit, Return, Tell, Judge, HandIn, Keep
  <2>10. EndStep \/ UNCHANGED vars => UNCHANGED <<obligations, steps>>
    BY DEF EndStep, Terminal, CopyRecords, CopySteps, CopyTurns, CopyState, Check, Read, vars
  <2> QED
    BY <1>1, <2>1, <2>2, <2>3, <2>4, <2>5, <2>6, <2>7, <2>8, <2>9, <2>10
       DEF Next, AgentStep, WorkerStep
<1>2. IInv /\ [Next]_vars =>
        [\A o \in Obligations :
           obligations[o].status \in {"SATISFIED", "REVOKED"} =>
             /\ obligations'[o] = obligations[o]
             /\ \A i \in DOMAIN steps' \ DOMAIN steps : steps'[i].of # o]_vars
  BY <1>1
<1> QED
  BY <1>2, Invariance, PTL DEF Spec, ClosedStays

-----------------------------------------------------------------------------
\* The session's own values, and what a run that has ended stands for: an answer
\* the session accepted, or a failure of a session that is closed.
EndInv ==
  /\ retries \in Nat
  /\ final \in Answers \cup {NoAnswer}
  /\ worker.at = "keep" => final \in Answers
  /\ loop # "done" => result = NoResult
  /\ loop \in Finishing /\ reason = "none" => final \in Answers
  /\ loop \in Finishing /\ reason # "none" => snap.verdict = Failure /\ Closed

LEMMA AnswersAreSomething == NoAnswer \notin Answers
BY DEF NoAnswer, Answers, Statuses

\* Every step keeps it.
LEMMA EndKept ==
    ASSUME Typed, LoopInv, SessionAssumption, EndInv, [Next]_vars
    PROVE  EndInv'
<1> USE DEF EndInv, controller, session
\* A step that leaves the session's end, the result and the loop's end alone.
<1>1. ASSUME UNCHANGED <<retries, final, cancellation, result>>,
             worker'.at = "keep" => worker.at = "keep",
             loop' \in Finishing => UNCHANGED <<loop, reason, snap>>,
             loop = "done" => loop' = "done"
      PROVE  EndInv'
  BY <1>1 DEF Closed, Finishing
<1>2. CASE Construct \/ Garbage \/ Stopped \/ Timeout
  <2>1. loop # "done" /\ loop' \in {"model", "terminal"}
        /\ UNCHANGED <<retries, final, cancellation, result, worker>>
    BY <1>2 DEF Construct, Garbage, Stopped, Timeout, Fail, RetryOutput
  <2> QED
    BY <1>1, <2>1 DEF Finishing
<1>3. ASSUME NEW state \in {"tool", "validate"}, NEW job, job.at # "keep", Hand(state, job)
      PROVE  EndInv'
  BY <1>1, <1>3 DEF Hand, Finishing
<1>4. ASSUME NEW o \in Obligations, AskStep(o) PROVE EndInv'
  BY <1>3, <1>4 DEF AskStep, Idle
<1>5. ASSUME NEW o \in Obligations, NEW outcome, NEW cites, AskClose(o, outcome, cites)
      PROVE  EndInv'
  BY <1>3, <1>5 DEF AskClose, Idle
<1>6. ASSUME NEW a \in Submissions, AskSubmit(a) PROVE EndInv'
  BY <1>3, <1>6 DEF AskSubmit, Idle
\* A tool's job leaves the loop waiting or asking the model again.
<1>7. CASE PlanStep \/ CloseObligation \/ Record \/ Tell
  <2>1. /\ UNCHANGED <<retries, final, cancellation, result, reason, snap>>
        /\ UNCHANGED loop \/ (loop = "tool" /\ loop' = "model")
    BY <1>7 DEF PlanStep, CloseObligation, Record, Tell, ToolDone
  <2>2. \/ worker' = Idle
        \/ \E at \in {"admit", "tell"} : worker' = [worker EXCEPT !.at = at]
    BY <1>7 DEF PlanStep, CloseObligation, Record, Tell, ToolDone
  <2>3. worker'.at # "keep"
    BY <2>2 DEF Idle, Typed, Jobs
  <2> QED
    BY <1>1, <2>1, <2>3 DEF Finishing
<1>8. CASE Admit \/ Return
  <2>1. UNCHANGED <<retries, final, cancellation, result, reason, snap, loop>>
    BY <1>8 DEF Admit, Return, PassGate, Register
  <2>2. worker'.at # "keep"
    BY <1>8 DEF Admit, Return, Typed, Jobs
  <2> QED
    BY <1>1, <2>1, <2>2
\* A refused output: the model is asked again, or the run fails.
<1>9. ASSUME NEW why, RefuseOutput(why), UNCHANGED snap
      PROVE  /\ worker'.at # "keep"
             /\ loop' \in Finishing => UNCHANGED <<loop, reason, snap>>
             /\ loop = "done" => loop' = "done"
  BY <1>9 DEF RefuseOutput, RetryOutput, Fail, Finishing, Idle
<1>10. CASE Judge
  <2>1. UNCHANGED <<retries, final, cancellation, result, snap>>
    BY <1>10 DEF Judge
  <2>2. CASE RefuseOutput("MODEL_OUTPUT_RETRY_EXHAUSTED")
    BY <1>1, <1>9, <2>1, <2>2
  <2>3. CASE worker' = [worker EXCEPT !.at = "hand"] /\ UNCHANGED <<loop, reason, outRetries>>
    <3>1. worker'.at # "keep"
      BY <2>3 DEF Typed, Jobs
    <3> QED
      BY <1>1, <2>1, <2>3, <3>1
  <2> QED
    BY <1>10, <2>2, <2>3 DEF Judge
<1>11. CASE HandIn
  <2>1. UNCHANGED <<cancellation, result, snap>> /\ Submit(worker.answer)
        /\ worker.answer \in Answers
    BY <1>11 DEF HandIn, Submit, LoopInv, JudgeJobs
  <2>2. retries' \in Nat
    BY <2>1 DEF Submit
  <2>3. CASE SubmitCode(worker.answer) # "ACCEPTED"
    <3>1. RefuseOutput("MODEL_PROTOCOL_ERROR") /\ UNCHANGED final
      BY <1>11, <2>3 DEF HandIn, Submit
    <3> QED
      BY <1>9, <2>1, <2>2, <3>1 DEF Closed, Finishing
  <2>4. CASE SubmitCode(worker.answer) = "ACCEPTED"
    <3>1. final' = worker.answer /\ UNCHANGED <<loop, reason>>
      BY <1>11, <2>4 DEF HandIn, Submit
    <3> QED
      BY <2>1, <2>2, <3>1, AnswersAreSomething DEF Closed
  <2> QED
    BY <2>3, <2>4
<1>12. CASE Keep
  <2>1. /\ UNCHANGED <<retries, final, cancellation, result, reason>>
        /\ worker'.at # "keep" /\ final \in Answers
    BY <1>12 DEF Keep, Idle
  <2>2. CASE loop = "validate"
    <3>1. loop' = "records" /\ reason = "none"
      BY <1>12, <2>2 DEF Keep, LoopInv
    <3> QED
      BY <2>1, <2>2, <3>1
  <2>3. CASE loop # "validate"
    BY <1>1, <1>12, <2>1, <2>3 DEF Keep
  <2> QED
    BY <2>2, <2>3
<1>13. CASE Terminal
  <2>1. /\ loop = "terminal" /\ loop' = "records" /\ reason # "none"
        /\ UNCHANGED <<retries, final, worker, result, reason>>
    BY <1>13 DEF Terminal, Cancel, LoopInv
  <2>2. snap'.verdict = Failure
    BY <1>13 DEF Terminal, Typed, Snaps
  <2>3. Closed'
    BY <1>13 DEF Terminal, Closed, Cancel
  <2> QED
    BY <2>1, <2>2, <2>3
<1>14. CASE CopyRecords \/ CopySteps \/ CopyTurns \/ CopyState \/ Check
  <2>1. /\ UNCHANGED <<retries, final, cancellation, worker, reason>>
        /\ loop \in Finishing /\ loop # "done"
        /\ loop' # "done" => UNCHANGED result
    BY <1>14 DEF CopyRecords, CopySteps, CopyTurns, CopyState, Check, Read, Finishing
  <2>2. snap'.verdict = snap.verdict
    BY <1>14 DEF CopyRecords, CopySteps, CopyTurns, CopyState, Check, Read, Typed, Snaps
  <2> QED
    BY <2>1, <2>2 DEF Closed
<1>15. CASE TimePasses \/ UNCHANGED vars
  BY <1>1, <1>15 DEF TimePasses, Tick, vars
<1> QED
  BY <1>2, <1>4, <1>5, <1>6, <1>7, <1>8, <1>10, <1>11, <1>12, <1>13, <1>14, <1>15
     DEF Next, AgentStep, WorkerStep, EndStep

-----------------------------------------------------------------------------
\* What a step must leave alone to show the contract nothing.
Unseen ==
  /\ UNCHANGED <<registered, attempts, retries, final, cancellation, expired, result>>
  /\ worker.at = "dispatch" <=> worker'.at = "dispatch"

LEMMA UnseenStutters == ASSUME Unseen PROVE UNCHANGED Contract!vars
BY DEF Unseen, Contract!vars, Spent, Ending, Said

\* The session's gate: a call it lets through is admitted, one it refuses uses
\* nothing of what the contract counts.
LEMMA AdmitSteps ==
    ASSUME Typed, SessionAssumption, Admit
    PROVE  Contract!Admit \/ UNCHANGED Contract!vars
<1>1. PassGate("NONE") /\ UNCHANGED <<registered, result>> /\ worker.at # "dispatch"
  BY DEF Admit
<1>2. worker'.at = "dispatch" <=> GateCode("NONE") = "NONE"
  BY DEF Admit, Typed, Jobs
<1>3. UNCHANGED <<retries, final, cancellation, expired>>
  BY <1>1 DEF PassGate
<1>4. /\ Ending' = Ending /\ Said(final)' = Said(final)
      /\ Said(result.snap.verdict)' = Said(result.snap.verdict)
  BY <1>1, <1>3 DEF Ending, Said
<1>5. CASE GateCode("NONE") = "NONE"
  <2>1. ~Closed /\ ~expired /\ attempts < ToolCallLimit
    BY <1>5 DEF GateCode, Typed, SessionAssumption
  <2>2. attempts' = attempts + 1
    BY <1>1, <1>5 DEF PassGate, Uncounted
  <2>3. Spent = attempts /\ Spent' = attempts + 1
    BY <2>1, <2>2 DEF Spent, Typed, SessionAssumption
  <2>4. Ending = "open"
    BY <2>1 DEF Ending, Closed
  <2> QED
    BY <1>1, <1>2, <1>3, <1>4, <1>5, <2>1, <2>3, <2>4
       DEF Contract!Admit, Contract!Spend, Contract!InTime
<1>6. CASE GateCode("NONE") # "NONE"
  <2>1. Spent' = Spent
    BY <1>1, <1>6 DEF PassGate, GateCode, Uncounted, Spent, Typed, SessionAssumption
  <2> QED
    BY <1>1, <1>2, <1>3, <1>4, <1>6, <2>1 DEF Contract!vars
<1> QED
  BY <1>5, <1>6

\* A submission: accepted, refused at the cost of a retry, or refused for nothing.
LEMMA HandInSteps ==
    ASSUME Typed, LoopInv, EndInv, SessionAssumption, HandIn
    PROVE  \/ \E b \in Contract!Said : Contract!Accept(b)
           \/ Contract!Strike
           \/ UNCHANGED Contract!vars
<1> DEFINE a == worker.answer
<1>1. /\ Submit(a) /\ a \in Answers
      /\ UNCHANGED <<registered, attempts, cancellation, expired, result>>
  BY DEF HandIn, Submit, LoopInv, JudgeJobs
<1>2. worker.at # "dispatch" /\ worker'.at # "dispatch"
  BY DEF HandIn, RefuseOutput, Idle, Typed, Jobs
<1> HIDE DEF a
<1>3. Spent' = Spent /\ Said(result.snap.verdict)' = Said(result.snap.verdict)
  BY <1>1 DEF Spent, Said
<1>4. CASE SubmitCode(a) = "ACCEPTED"
  <2>1. /\ Ending = "open" /\ ~expired /\ retries < OutputRetryLimit
        /\ a.cited \subseteq registered
    BY <1>4 DEF SubmitCode, Ending, EndInv, SessionAssumption
  <2>2. final' = a /\ retries' = retries
    BY <1>1, <1>4 DEF Submit
  <2>3. Ending' = "answered" /\ Said(final)' = Said(a)
    BY <1>1, <2>2, AnswersAreSomething DEF Ending, Said
  <2>4. Said(a) \in Contract!Said /\ Said(a).cited = a.cited
    BY <1>1 DEF Said, Answers, Statuses, Contract!Said
  <2>5. Contract!Accept(Said(a))
    BY <1>1, <1>2, <1>3, <2>1, <2>2, <2>3, <2>4 DEF Contract!Accept, Contract!InTime
  <2> QED
    BY <2>4, <2>5
<1>5. CASE SubmitCode(a) \in {"EVIDENCE_NOT_REGISTERED", "SUBMISSION_INVALID"}
  <2>1. Ending = "open" /\ ~expired /\ retries < OutputRetryLimit
    BY <1>5 DEF SubmitCode, Ending, EndInv, SessionAssumption
  <2>2. final' = final /\ retries' = retries + 1
    BY <1>1, <1>5 DEF Submit
  <2>3. Ending' = Ending /\ Said(final)' = Said(final)
    BY <1>1, <2>2 DEF Ending, Said
  <2> QED
    BY <1>1, <1>2, <1>3, <2>1, <2>2, <2>3 DEF Contract!Strike, Contract!InTime
<1>6. CASE SubmitCode(a) \notin {"ACCEPTED", "EVIDENCE_NOT_REGISTERED", "SUBMISSION_INVALID"}
  <2>1. Unseen
    BY <1>1, <1>2, <1>6 DEF Submit, Unseen
  <2> QED
    BY <2>1, UnseenStutters
<1> QED
  BY <1>4, <1>5, <1>6

\* The run that fails cancels its session, unless it has ended already.
LEMMA TerminalSteps ==
    ASSUME Terminal
    PROVE  Contract!Cancel \/ UNCHANGED Contract!vars
<1>1. UNCHANGED <<worker, result>>
  BY DEF Terminal
<1>2. CASE Closed
  <2>1. Unseen
    BY <1>1, <1>2 DEF Terminal, Unseen, session
  <2> QED
    BY <2>1, UnseenStutters
<1>3. CASE ~Closed
  <2>1. PICK why \in Reasons : Cancel(why)
    BY <1>3 DEF Terminal, Reasons
  <2>2. UNCHANGED <<registered, attempts, retries, final, expired>> /\ cancellation' # "none"
    BY <2>1 DEF Cancel, Reasons
  <2>3. Ending = "open" /\ Ending' = "cancelled"
    BY <1>3, <2>2 DEF Ending, Closed
  <2>4. /\ Spent' = Spent /\ Said(final)' = Said(final)
        /\ Said(result.snap.verdict)' = Said(result.snap.verdict)
    BY <1>1, <2>2 DEF Spent, Said
  <2> QED
    BY <1>1, <2>2, <2>3, <2>4 DEF Contract!Cancel
<1> QED
  BY <1>2, <1>3

\* What is delivered is the session's answer, or a failure of a closed session.
LEMMA CheckSteps ==
    ASSUME ArchiveInv, EndInv, Check
    PROVE  Contract!Deliver \/ Contract!GiveUp \/ UNCHANGED Contract!vars
<1>1. /\ UNCHANGED <<registered, attempts, retries, final, cancellation, expired, worker>>
      /\ loop = "check" /\ result = NoResult
  BY DEF Check, session, EndInv
<1>2. /\ Spent' = Spent /\ Ending' = Ending /\ Said(final)' = Said(final)
      /\ Said(result.snap.verdict) = Contract!Nothing
  BY <1>1 DEF Spent, Ending, Said, NoResult, NoSnap, NoAnswer, Contract!Nothing
<1>3. CASE result' = result
  BY <1>1, <1>3, UnseenStutters DEF Unseen
<1>4. CASE result' # result
  <2>1. Said(result.snap.verdict)' = Said(snap.verdict)
    BY <1>4 DEF Check, Said
  <2>2. CASE reason = "none"
    <3>1. snap.verdict = final /\ final \in Answers
      BY <1>1, <2>2 DEF ArchiveInv, EndInv, Finishing
    <3>2. Ending = "answered"
      BY <3>1, AnswersAreSomething DEF Ending
    <3> QED
      BY <1>1, <1>2, <2>1, <3>1, <3>2 DEF Contract!Deliver
  <2>3. CASE reason # "none"
    <3>1. snap.verdict = Failure /\ Closed
      BY <1>1, <2>3 DEF EndInv, Finishing
    <3>2. Said(result.snap.verdict)' = Contract!Failure /\ Ending # "open"
      BY <2>1, <3>1 DEF Said, Failure, Contract!Failure, Ending, Closed
    <3> QED
      BY <1>1, <1>2, <3>2 DEF Contract!GiveUp
  <2> QED
    BY <2>2, <2>3
<1> QED
  BY <1>3, <1>4

\* Every step is a step of the contract, or the contract does not see it.
LEMMA ContractStep ==
    ASSUME Typed, LoopInv, ArchiveInv, EndInv, SessionAssumption, PlannerAssumption, [Next]_vars
    PROVE  [Contract!Next]_(Contract!vars)
<1> USE DEF controller, session
<1>1. Construct \/ Garbage \/ Stopped \/ Timeout \/ UNCHANGED vars => Unseen
  BY DEF Construct, Garbage, Stopped, Timeout, vars, Unseen
<1>2. ASSUME NEW o \in Obligations, AskStep(o) PROVE Unseen
  BY <1>2 DEF AskStep, Hand, Idle, Unseen
<1>3. ASSUME NEW o \in Obligations, NEW outcome, NEW cites, AskClose(o, outcome, cites)
      PROVE  Unseen
  BY <1>3 DEF AskClose, Hand, Idle, Unseen
<1>4. ASSUME NEW a \in Submissions, AskSubmit(a) PROVE Unseen
  BY <1>4 DEF AskSubmit, Hand, Idle, Unseen
<1>5. ASSUME PlanStep \/ CloseObligation \/ Record \/ Tell PROVE Unseen
  <2>1. /\ worker.at # "dispatch"
        /\ UNCHANGED <<registered, attempts, retries, final, cancellation, expired, result>>
    BY <1>5 DEF PlanStep, CloseObligation, Record, Tell
  <2>2. \/ worker' = Idle
        \/ \E at \in {"admit", "tell"} : worker' = [worker EXCEPT !.at = at]
    BY <1>5 DEF PlanStep, CloseObligation, Record, Tell, ToolDone
  <2> QED
    BY <2>1, <2>2 DEF Idle, Unseen, Typed, Jobs
<1>6. Judge \/ Keep => Unseen
  BY DEF Judge, Keep, RefuseOutput, Idle, Unseen, Typed, Jobs
<1>7. CopyRecords \/ CopySteps \/ CopyTurns \/ CopyState => Unseen
  BY DEF CopyRecords, CopySteps, CopyTurns, CopyState, Read, Unseen
<1>8. CASE Return
  <2>1. /\ worker.at = "dispatch"
        /\ UNCHANGED <<attempts, retries, final, cancellation, expired, result>>
    BY <1>8 DEF Return, Register
  <2>2. worker'.at = "record"
    BY <1>8 DEF Return, Typed, Jobs
  <2>3. /\ Spent' = Spent /\ Ending' = Ending /\ Said(final)' = Said(final)
        /\ Said(result.snap.verdict)' = Said(result.snap.verdict)
    BY <2>1 DEF Spent, Ending, Said
  <2>4. \E some \in SUBSET Evidence : registered' = registered \cup some
    <3>1. CASE UNCHANGED session
      <4>1. registered' = registered \cup {}
        BY <3>1
      <4> QED
        BY <4>1
    <3>2. CASE \E o \in worker.about : \E e \in Yields[o] : Register(e)
      <4>1. PICK o \in worker.about : \E e \in Yields[o] : Register(e)
        BY <3>2
      <4>2. PICK e \in Yields[o] : Register(e)
        BY <4>1
      <4>3. e \in SUBSET Evidence
        <5>1. o \in Obligations
          BY <4>1 DEF Typed, Jobs
        <5> QED
          BY <4>2, <5>1, PlannerAssumption
      <4> QED
        BY <4>2, <4>3 DEF Register
    <3> QED
      BY <1>8, <3>1, <3>2 DEF Return
  <2>5. ASSUME NEW some \in SUBSET Evidence, registered' = registered \cup some
        PROVE  Contract!Bring(some)
    BY <2>1, <2>2, <2>3, <2>5 DEF Contract!Bring
  <2> QED
    BY <2>4, <2>5 DEF Contract!Next
<1>9. CASE TimePasses
  <2>1. /\ ~expired /\ expired' = TRUE
        /\ UNCHANGED <<registered, attempts, retries, final, cancellation, worker, result>>
    BY <1>9 DEF TimePasses, Tick
  <2>2. /\ Spent' = Spent /\ Ending' = Ending /\ Said(final)' = Said(final)
        /\ Said(result.snap.verdict)' = Said(result.snap.verdict)
    BY <2>1 DEF Spent, Ending, Said
  <2>3. Contract!Expire
    BY <2>1, <2>2 DEF Contract!Expire
  <2> QED
    BY <2>3 DEF Contract!Next
<1>10. Admit \/ HandIn \/ Terminal \/ Check => Contract!Next \/ UNCHANGED Contract!vars
  BY AdmitSteps, HandInSteps, TerminalSteps, CheckSteps DEF Contract!Next
<1> QED
  BY <1>1, <1>2, <1>3, <1>4, <1>5, <1>6, <1>7, <1>8, <1>9, <1>10, UnseenStutters
     DEF Next, AgentStep, WorkerStep, EndStep

\* A planner run implements the contract the other runs implement
\* (ImplementsContract), for any obligations and budgets: declared calls, receipts,
\* refusals and the four readings of the archive add nothing its caller could see
\* (planner_agent.py, strategy_adapter.py).
THEOREM PlannerImplementsContract == Spec => ImplementsContract
<1>1. Init => Contract!Init
  <2> SUFFICES ASSUME Init PROVE Contract!Init
    OBVIOUS
  <2>1. SessionInit /\ worker.at # "dispatch" /\ result = NoResult
    BY DEF Init, Idle
  <2>2. Spent = 0
    BY <2>1, SessionAssumption DEF SessionInit, Spent
  <2>3. /\ Ending = "open" /\ Said(final) = Contract!Nothing
        /\ Said(result.snap.verdict) = Contract!Nothing
    BY <2>1 DEF SessionInit, Ending, Said, NoAnswer, NoSnap, NoResult, Contract!Nothing
  <2> QED
    BY <2>1, <2>2, <2>3 DEF SessionInit, Contract!Init
<1>2. Init => EndInv
  BY DEF Init, SessionInit, EndInv, Idle, Finishing
<1>3. IInv /\ EndInv /\ [Next]_vars => EndInv'
  BY EndKept, SessionAssumption DEF IInv
<1>4. IInv /\ EndInv /\ [Next]_vars => [Contract!Next]_(Contract!vars)
  BY ContractStep, SessionAssumption, PlannerAssumption DEF IInv
<1> QED
  BY <1>1, <1>2, <1>3, <1>4, Invariance, PTL DEF Spec, ImplementsContract, Contract!Spec
=============================================================================
