--------------------------- MODULE BenchmarkSuite ---------------------------
(***************************************************************************)
(* The formal suite of benchmark_runner.py: a frozen manifest of cells is  *)
(* executed at most once each, by command line processes ("runners") that  *)
(* share one suite directory.  Everything a process knows is rebuilt from  *)
(* that directory: the lock file, the preflight receipts, the subset       *)
(* marker, the append-only ledger and the artifact bundles.  A process may *)
(* be interrupted (its context managers run) or killed (they do not) at    *)
(* any step, and a later process resumes the suite.                        *)
(***************************************************************************)
EXTENDS Integers, Sequences, FiniteSets

CONSTANTS
    Cells,             \* manifest cells, named by their sequence number
    ModelBacked,       \* the cells whose strategy calls a model
    Selectors,         \* the cell selectors an invocation may carry
    FullSuite,         \* "no selector": every cell of the manifest
    Selection,         \* the cells each selector keeps
    Revisions,         \* revisions the checkout may stand at
    Approved,          \* those the checkout verifier accepts
    Planner,           \* the manifest is a PlannerComparisonManifest
    WindowSize,        \* _ROLLING_WINDOW_SIZE
    WindowThreshold,   \* _ROLLING_WINDOW_FAILURE_THRESHOLD
    Runners            \* processes that may run the command line

ASSUME SuiteAssumption ==
    /\ Cells \subseteq Nat /\ Cells # {} /\ IsFiniteSet(Cells)
    /\ ModelBacked \subseteq Cells
    /\ FullSuite \in Selectors
    /\ Selection \in [Selectors -> SUBSET Cells]
    /\ Selection[FullSuite] = Cells
    /\ Approved \subseteq Revisions /\ "none" \notin Revisions
    /\ Planner \in BOOLEAN
    /\ WindowSize \in Nat \ {0}
    /\ WindowThreshold \in Nat \ {0}
    /\ Selectors \cap {"none", "torn"} = {}

(* The bundles an evaluation can publish under artifacts/<run_id>: passed   *)
(* with every controller gate passed or not, failed on quality, failed on   *)
(* environment or recovery.  A setup-failure bundle is written by the suite *)
(* itself.                                                                  *)
Verdicts == {"passed", "gateFailed", "failed", "environmentFailed"}
Bundles == Verdicts \cup {"setup"}
PassedBundles == {"passed", "gateFailed"}

States == {"STARTED", "COMPLETED", "FAILED"}
Reasons == {"none", "RUN_SETUP_ERROR", "EVALUATION_FAILED"}
StopReasons == {"NONE", "RUN_SETUP_ERROR", "ENVIRONMENT_OR_RECOVERY_FAILURE",
                "ROLLING_WINDOW_UNPASSED_PAUSE"}
Entries == [cell : Cells, state : States, reason : Reasons]
Receipts == [acceptable : BOOLEAN, selector : Selectors, revision : Revisions]
NoReceipt == [acceptable |-> FALSE, selector |-> "none", revision |-> "none"]
NoResult == [status |-> "none", stop |-> "NONE", selector |-> "none"]

VARIABLES
    (* the suite directory, artifacts/ and the checkout: survive a crash *)
    lock,        \* .lock exists
    receipt,     \* doctor.json
    receiptTmp,  \* a temporary receipt file was left behind
    probe,       \* the planner probe receipt and its seal
    marker,      \* subset.json
    ledger,      \* ledger.jsonl, one record per line
    tail,        \* how the last append ended: "whole", "unterminated", "torn"
    artifact,    \* artifacts/<run_id>
    preserved,   \* interrupted-artifacts/<run_id>
    head,        \* the checked out revision
    (* the memory of each process: lost with it *)
    pc, selector, loadedAt, seen, window, cell, outcome, stop, result,
    (* history: what the properties speak about *)
    attempts,    \* evaluations begun per cell
    ranAt        \* revision each cell's evaluation was admitted under

disk == <<lock, receipt, receiptTmp, probe, marker, ledger, tail, artifact,
          preserved, head>>
memory == <<pc, selector, loadedAt, seen, window, cell, outcome, stop, result>>
history == <<attempts, ranAt>>
vars == <<disk, memory, history>>

-----------------------------------------------------------------------------
(* Reading the ledger *)

(* One pass over the lines: a cell's first entry is STARTED, its second and *)
(* last is terminal.  A torn line is not JSON and refuses the whole file.   *)
WellFormed(lines) ==
    \A j \in DOMAIN lines :
        LET earlier == {i \in 1..(j - 1) : lines[i].cell = lines[j].cell}
        IN  IF lines[j].state = "STARTED"
            THEN earlier = {}
            ELSE /\ earlier # {}
                 /\ \A i \in earlier : lines[i].state = "STARTED"

LedgerReadable == tail # "torn" /\ WellFormed(ledger)

HasEntry(c, s) == \E i \in DOMAIN ledger : ledger[i].cell = c /\ ledger[i].state = s

(* Variant: a started cell is taken for an absent one. *)
ReadLedgerMutant ==
    [c \in Cells |->
        IF HasEntry(c, "COMPLETED") THEN "COMPLETED"
        ELSE IF HasEntry(c, "FAILED") THEN "FAILED"
        ELSE "ABSENT"]

ReadLedger ==
    [c \in Cells |->
        IF HasEntry(c, "COMPLETED") THEN "COMPLETED"
        ELSE IF HasEntry(c, "FAILED") THEN "FAILED"
        ELSE IF HasEntry(c, "STARTED") THEN "STARTED"
        ELSE "ABSENT"]

(* Variant: every terminal line enters the window. *)
TerminalLinesMutant == {j \in DOMAIN ledger : ledger[j].state # "STARTED"}

(* Terminal lines of model-backed cells, numbered in completion order. *)
TerminalLines ==
    {j \in DOMAIN ledger : ledger[j].state # "STARTED" /\ ledger[j].cell \in ModelBacked}

TerminalLine(i) ==
    CHOOSE j \in TerminalLines : Cardinality({k \in TerminalLines : k <= j}) = i

(* A completed cell whose bundle no longer reads back as a passed evaluation *)
(* of that cell refuses the rebuild.                                         *)
WindowReadable ==
    /\ tail # "torn"
    /\ \A j \in TerminalLines :
          ledger[j].state = "COMPLETED" => artifact[ledger[j].cell] \in PassedBundles

CleanPass(e) == e.state = "COMPLETED" /\ artifact[e.cell] = "passed"

RebuiltWindow ==
    [i \in 1..Cardinality(TerminalLines) |-> CleanPass(ledger[TerminalLine(i)])]

(* Variant: the threshold itself does not pause. *)
PauseDueMutant(w) ==
    /\ Len(w) >= WindowSize
    /\ Cardinality({i \in (Len(w) - WindowSize + 1)..Len(w) : ~w[i]})
          > WindowThreshold

(* The pause rule: enough unpassed cells among the most recent ones. *)
PauseDue(w) ==
    /\ Len(w) >= WindowSize
    /\ Cardinality({i \in (Len(w) - WindowSize + 1)..Len(w) : ~w[i]})
          >= WindowThreshold

-----------------------------------------------------------------------------
(* Process bookkeeping *)

Goto(r, label) == pc' = [pc EXCEPT ![r] = label]
InCriticalSection(r) == pc[r] # "idle"
First(S) == CHOOSE c \in S : \A d \in S : c <= d

(* Variant: a completed cell is settled again. *)
InterruptedResettles(r) ==
    {c \in Selection[selector[r]] : seen[r][c] \in {"STARTED", "COMPLETED"}}
(* Variant: a started cell is left as it is. *)
InterruptedForgets(r) == {}

Interrupted(r) == {c \in Selection[selector[r]] : seen[r][c] = "STARTED"}
Unstarted(r) == {c \in Selection[selector[r]] : seen[r][c] = "ABSENT"}

(* Appending to a ledger whose last line lost its newline glues two records  *)
(* into one line that no longer parses.                                      *)
TailAfterAppend == IF tail = "whole" THEN "whole" ELSE "torn"

(* Variant: every evaluation that published a bundle completes its cell. *)
TerminatedMutant(r) == IF outcome[r] = "setup" THEN "FAILED" ELSE "COMPLETED"

Terminated(r) == IF outcome[r] \in PassedBundles THEN "COMPLETED" ELSE "FAILED"

(* The line the process at one of its three appends is about to write.       *)
PendingEntry(r) ==
    CASE pc[r] = "next" ->
            [cell |-> First(Unstarted(r)), state |-> "STARTED", reason |-> "none"]
      [] pc[r] = "settle" ->
            [cell |-> cell[r], state |-> "FAILED", reason |-> "RUN_SETUP_ERROR"]
      [] pc[r] = "record" ->
            [cell |-> cell[r], state |-> Terminated(r),
             reason |-> CASE outcome[r] \in PassedBundles -> "none"
                          [] outcome[r] = "setup" -> "RUN_SETUP_ERROR"
                          [] OTHER -> "EVALUATION_FAILED"]

Appending(r) ==
    \/ pc[r] \in {"settle", "record"}
    \/ pc[r] = "next" /\ Unstarted(r) # {}

(* The line is flushed and synced before the process remembers it. *)
AppendEntry(r) ==
    LET e == PendingEntry(r)
    IN  /\ ledger' = Append(ledger, e)
        /\ tail' = TailAfterAppend
        /\ seen' = [seen EXCEPT ![r][e.cell] = e.state]

Init ==
    /\ lock = FALSE
    /\ receipt = NoReceipt
    /\ receiptTmp = FALSE
    /\ probe = "none"
    /\ marker = "none"
    /\ ledger = <<>>
    /\ tail = "whole"
    /\ artifact = [c \in Cells |-> "none"]
    /\ preserved = [c \in Cells |-> "none"]
    /\ head \in Revisions
    /\ pc = [r \in Runners |-> "idle"]
    /\ selector = [r \in Runners |-> FullSuite]
    /\ loadedAt = [r \in Runners |-> "none"]
    /\ seen = [r \in Runners |-> [c \in Cells |-> "ABSENT"]]
    /\ window = [r \in Runners |-> <<>>]
    /\ cell = [r \in Runners |-> First(Cells)]
    /\ outcome = [r \in Runners |-> "none"]
    /\ stop = [r \in Runners |-> "NONE"]
    /\ result = [r \in Runners |-> NoResult]
    /\ attempts = [c \in Cells |-> 0]
    /\ ranAt = [c \in Cells |-> "none"]

(* The end of a process: its memory is gone. *)
Forget(r) ==
    /\ Goto(r, "idle")
    /\ selector' = [selector EXCEPT ![r] = FullSuite]
    /\ loadedAt' = [loadedAt EXCEPT ![r] = "none"]
    /\ seen' = [seen EXCEPT ![r] = [c \in Cells |-> "ABSENT"]]
    /\ window' = [window EXCEPT ![r] = <<>>]
    /\ cell' = [cell EXCEPT ![r] = First(Cells)]
    /\ outcome' = [outcome EXCEPT ![r] = "none"]
    /\ stop' = [stop EXCEPT ![r] = "NONE"]
    /\ result' = [result EXCEPT ![r] = NoResult]

(* Leaving the with-block removes the lock file; the process ends. *)
Release(r) ==
    /\ pc[r] = "unwind"
    /\ lock' = FALSE
    /\ Forget(r)
    /\ UNCHANGED <<receipt, receiptTmp, probe, marker, ledger, tail, artifact,
                   preserved, head, history>>

(* An exception or a cancellation leaves the with-block without a result. *)
Unwind(r) ==
    /\ Goto(r, "unwind")
    /\ UNCHANGED <<disk, selector, loadedAt, seen, window, cell, outcome, stop, result, history>>

-----------------------------------------------------------------------------
(* Preflight *)

Admissible(s) == (Planner => s = FullSuite) /\ head \in Approved

(* Variant: an existing lock file is taken over. *)
LockFreeMutant == TRUE

(* An existing lock file refuses the process at once: it does not wait.      *)
LockFree == ~lock

TakeLock(r, s, label) ==
    /\ pc[r] = "idle"
    /\ Admissible(s)
    /\ LockFree
    /\ lock' = TRUE
    /\ selector' = [selector EXCEPT ![r] = s]
    /\ Goto(r, label)
    /\ UNCHANGED <<receipt, receiptTmp, probe, marker, ledger, tail, artifact,
                   preserved, head, loadedAt, seen, window, cell, outcome, stop, result,
                   history>>

BeginPreflight(r, s) == TakeLock(r, s, "preflight")

(* Nothing but the lock may be in the suite directory, and no cell of the    *)
(* manifest may own an artifact yet.                                         *)
Untouched ==
    /\ receipt = NoReceipt /\ ~receiptTmp
    /\ probe = "none" /\ marker = "none"
    /\ ledger = <<>> /\ tail = "whole"
    /\ \A c \in Cells : artifact[c] = "none" /\ preserved[c] = "none"

(* The revision is read before the doctor runs and bound into its receipt;   *)
(* the receipt appears by a rename.  A planner manifest with an acceptable   *)
(* receipt goes on to its probe.                                             *)
PreflightRefused(r) ==
    /\ pc[r] = "preflight"
    /\ ~Untouched
    /\ Unwind(r)

PreflightDoctor(r) ==
    /\ pc[r] = "preflight"
    /\ Untouched
    /\ \E ok \in BOOLEAN :
          /\ receipt' = [acceptable |-> ok, selector |-> selector[r], revision |-> head]
          /\ Goto(r, IF Planner /\ ok THEN "probe" ELSE "unwind")
    /\ UNCHANGED <<lock, receiptTmp, probe, marker, ledger, tail, artifact, preserved,
                   head, selector, loadedAt, seen, window, cell, outcome, stop, result,
                   history>>

(* The probe receipt and then its seal are separate files. *)
WriteProbe(r) ==
    /\ pc[r] = "probe"
    /\ probe' = "unsealed"
    /\ Goto(r, "seal")
    /\ UNCHANGED <<lock, receipt, receiptTmp, marker, ledger, tail, artifact, preserved,
                   head, selector, loadedAt, seen, window, cell, outcome, stop, result,
                   history>>

SealProbe(r) ==
    /\ pc[r] = "seal"
    /\ \E verdict \in {"passed", "failed"} : probe' = verdict
    /\ Goto(r, "unwind")
    /\ UNCHANGED <<lock, receipt, receiptTmp, marker, ledger, tail, artifact, preserved,
                   head, selector, loadedAt, seen, window, cell, outcome, stop, result,
                   history>>

-----------------------------------------------------------------------------
(* Resuming: validate, then settle what an earlier process left in flight *)

BeginRun(r, s) == Selection[s] # {} /\ TakeLock(r, s, "load")

MarkerAllows(s) ==
    IF s = FullSuite THEN marker = "none" ELSE marker \in {"none", s}

(* Variant: the revision of the receipt is not compared, nor the probe read. *)
ReceiptAdmitsAnyRevision(r) ==
    receipt # NoReceipt /\ receipt.selector = selector[r] /\ receipt.acceptable

(* Variant: a probe receipt is enough, sealed or not. *)
ReceiptAdmitsUnsealedProbe(r) ==
    /\ receipt # NoReceipt
    /\ receipt.revision = head
    /\ receipt.selector = selector[r]
    /\ receipt.acceptable
    /\ Planner => probe # "none"

(* The receipts bind the suite to one checkout revision and one selection,   *)
(* and must have been acceptable.                                            *)
ReceiptAdmits(r) ==
    /\ receipt # NoReceipt
    /\ receipt.revision = head
    /\ receipt.selector = selector[r]
    /\ receipt.acceptable
    /\ Planner => probe = "passed"

SuiteAdmits(r) ==
    /\ LedgerReadable
    /\ ReceiptAdmits(r)
    /\ \A c \in Cells : ReadLedger[c] # "ABSENT" => c \in Selection[selector[r]]
    /\ \A c \in Cells : ReadLedger[c] = "ABSENT" => artifact[c] = "none"
    /\ MarkerAllows(selector[r])

(* Variant: a suite that may not be resumed is not given up. *)
LoadRefusedMutant(r) ==
    /\ pc[r] = "load"
    /\ ~LedgerReadable
    /\ Unwind(r)

LoadRefused(r) ==
    /\ pc[r] = "load"
    /\ ~SuiteAdmits(r)
    /\ Unwind(r)

LoadSuite(r) ==
    /\ pc[r] = "load"
    /\ SuiteAdmits(r)
    /\ seen' = [seen EXCEPT ![r] = ReadLedger]
    /\ loadedAt' = [loadedAt EXCEPT ![r] = head]
    /\ marker' = IF selector[r] = FullSuite THEN marker ELSE selector[r]
    /\ Goto(r, "repair")
    /\ UNCHANGED <<lock, receipt, receiptTmp, probe, ledger, tail, artifact, preserved,
                   head, selector, window, cell, outcome, stop, result, history>>

(* Variant: the bundle is removed. *)
KeptAsideMutant(c) == preserved[c]

(* What interrupted-artifacts/ holds of a cell once its bundle is moved.     *)
KeptAside(c) == IF artifact[c] = "none" THEN preserved[c] ELSE artifact[c]

(* A bundle of an interrupted cell that is not a setup failure is moved      *)
(* aside; a second one for the same cell is refused, never overwritten.      *)
PreserveInterrupted(r) ==
    /\ pc[r] = "repair"
    /\ Interrupted(r) # {}
    /\ LET c == First(Interrupted(r))
       IN  /\ artifact[c] \in {"none", "setup"} \/ preserved[c] = "none"
           /\ cell' = [cell EXCEPT ![r] = c]
           /\ IF artifact[c] = "setup"
              THEN Goto(r, "settle") /\ UNCHANGED <<artifact, preserved>>
              ELSE /\ preserved' = [preserved EXCEPT ![c] = KeptAside(c)]
                   /\ artifact' = [artifact EXCEPT ![c] = "none"]
                   /\ Goto(r, "replace")
    /\ UNCHANGED <<lock, receipt, receiptTmp, probe, marker, ledger, tail, head,
                   selector, loadedAt, seen, window, outcome, stop, result, history>>

ReplaceInterrupted(r) ==
    /\ pc[r] = "replace"
    /\ artifact' = [artifact EXCEPT ![cell[r]] = "setup"]
    /\ Goto(r, "settle")
    /\ UNCHANGED <<lock, receipt, receiptTmp, probe, marker, ledger, tail, preserved, head,
                   selector, loadedAt, seen, window, cell, outcome, stop, result, history>>

SettleInterrupted(r) ==
    /\ pc[r] = "settle"
    /\ AppendEntry(r)
    /\ Goto(r, "repair")
    /\ UNCHANGED <<lock, receipt, receiptTmp, probe, marker, artifact, preserved, head,
                   selector, loadedAt, window, cell, outcome, stop, result, history>>

(* The pause is decided only when no interrupted cell is left. *)
DecidePause(r) ==
    /\ pc[r] = "repair"
    /\ Interrupted(r) = {}
    /\ WindowReadable
    /\ window' = [window EXCEPT ![r] = RebuiltWindow]
    /\ stop' = [stop EXCEPT ![r] =
                   IF PauseDue(RebuiltWindow) THEN "ROLLING_WINDOW_UNPASSED_PAUSE" ELSE "NONE"]
    /\ Goto(r, IF PauseDue(RebuiltWindow) THEN "finish" ELSE "next")
    /\ UNCHANGED <<disk, selector, loadedAt, seen, cell, outcome, result, history>>

WindowRefused(r) ==
    /\ pc[r] = "repair"
    /\ Interrupted(r) = {}
    /\ ~WindowReadable
    /\ Unwind(r)

-----------------------------------------------------------------------------
(* Executing the cells that never started *)

StartCell(r) ==
    /\ pc[r] = "next"
    /\ Unstarted(r) # {}
    /\ AppendEntry(r)
    /\ cell' = [cell EXCEPT ![r] = PendingEntry(r).cell]
    /\ outcome' = [outcome EXCEPT ![r] = "none"]
    /\ Goto(r, "evaluate")
    /\ UNCHANGED <<lock, receipt, receiptTmp, probe, marker, artifact, preserved, head,
                   selector, loadedAt, window, stop, result, history>>

BeginEvaluation(r) ==
    /\ pc[r] = "evaluate"
    /\ attempts' = [attempts EXCEPT ![cell[r]] = @ + 1]
    /\ ranAt' = [ranAt EXCEPT ![cell[r]] = loadedAt[r]]
    /\ Goto(r, "evaluating")
    /\ UNCHANGED <<disk, selector, loadedAt, seen, window, cell, outcome, stop, result>>

(* EvaluationRunner.run publishes one bundle, then its private scoring       *)
(* inputs; either may fail, and so may everything before.                    *)
PublishEvaluation(r) ==
    /\ pc[r] = "evaluating"
    /\ artifact[cell[r]] = "none"
    /\ \E verdict \in Verdicts :
          /\ artifact' = [artifact EXCEPT ![cell[r]] = verdict]
          /\ outcome' = [outcome EXCEPT ![r] = verdict]
    /\ Goto(r, "scoring")
    /\ UNCHANGED <<lock, receipt, receiptTmp, probe, marker, ledger, tail, preserved, head,
                   selector, loadedAt, seen, window, cell, stop, result, history>>

EvaluationReturns(r) ==
    /\ pc[r] = "scoring"
    /\ stop' = [stop EXCEPT ![r] = IF outcome[r] = "environmentFailed"
                                   THEN "ENVIRONMENT_OR_RECOVERY_FAILURE" ELSE @]
    /\ Goto(r, "record")
    /\ UNCHANGED <<disk, selector, loadedAt, seen, window, cell, outcome, result, history>>

(* Before the bundle is published, or while its scoring inputs are written.  *)
EvaluationRaises(r) ==
    /\ pc[r] \in {"evaluating", "scoring"}
    /\ Goto(r, "setupError")
    /\ UNCHANGED <<disk, selector, loadedAt, seen, window, cell, outcome, stop, result, history>>

(* ArtifactWriter refuses an existing directory, so a raise after publication *)
(* escapes the handler and leaves the cell STARTED for a later process.       *)
MaterializeSetupError(r) ==
    /\ pc[r] = "setupError"
    /\ artifact[cell[r]] = "none"
    /\ artifact' = [artifact EXCEPT ![cell[r]] = "setup"]
    /\ outcome' = [outcome EXCEPT ![r] = "setup"]
    /\ stop' = [stop EXCEPT ![r] = "RUN_SETUP_ERROR"]
    /\ Goto(r, "record")
    /\ UNCHANGED <<lock, receipt, receiptTmp, probe, marker, ledger, tail, preserved, head,
                   selector, loadedAt, seen, window, cell, result, history>>

MaterializeRefused(r) ==
    /\ pc[r] = "setupError"
    /\ artifact[cell[r]] # "none"
    /\ Unwind(r)

(* A failed quality check does not stop the suite; an environment, recovery   *)
(* or setup failure and a due pause do, and the first of them names the stop. *)
RecordTerminal(r) ==
    LET backed == cell[r] \in ModelBacked
        grown == IF backed THEN Append(window[r], outcome[r] = "passed") ELSE window[r]
        pause == backed /\ PauseDue(grown)
    IN  /\ pc[r] = "record"
        /\ AppendEntry(r)
        /\ window' = [window EXCEPT ![r] = grown]
        /\ stop' = [stop EXCEPT ![r] = IF pause /\ @ = "NONE"
                                       THEN "ROLLING_WINDOW_UNPASSED_PAUSE" ELSE @]
        /\ Goto(r, IF outcome[r] \in {"setup", "environmentFailed"} \/ pause
                   THEN "finish" ELSE "next")
        /\ UNCHANGED <<lock, receipt, receiptTmp, probe, marker, artifact, preserved, head,
                       selector, loadedAt, cell, outcome, result, history>>

Terminal(r) == {c \in Cells : seen[r][c] \in {"COMPLETED", "FAILED"}}

(* Variant: failed cells count as complete. *)
CompleteMutant(r) == Cardinality(Terminal(r)) = Cardinality(Selection[selector[r]])

Complete(r) ==
    /\ Cardinality(Terminal(r)) = Cardinality(Selection[selector[r]])
    /\ \A c \in Cells : seen[r][c] # "FAILED"

Finish(r) ==
    /\ \/ pc[r] = "finish"
       \/ pc[r] = "next" /\ Unstarted(r) = {}
    /\ result' = [result EXCEPT ![r] =
                     [status |-> IF Complete(r) THEN "COMPLETED" ELSE "FAILED",
                      stop |-> stop[r], selector |-> selector[r]]]
    /\ Goto(r, "unwind")
    /\ UNCHANGED <<disk, selector, loadedAt, seen, window, cell, outcome, stop, history>>

-----------------------------------------------------------------------------
(* Interruption, crash and the operator *)

(* An OSError of any write, or a cancellation (which is no Exception): no     *)
(* handler runs but the lock's.                                               *)
Abort(r) ==
    /\ InCriticalSection(r) /\ pc[r] # "unwind"
    /\ Unwind(r)

(* The sync of an append fails after the line reached the file. *)
AppendRaises(r) ==
    /\ Appending(r)
    /\ ledger' = Append(ledger, PendingEntry(r))
    /\ tail' = TailAfterAppend
    /\ Goto(r, "unwind")
    /\ UNCHANGED <<lock, receipt, receiptTmp, probe, marker, artifact, preserved, head,
                   selector, loadedAt, seen, window, cell, outcome, stop, result, history>>

Killed(r) ==
    /\ Forget(r)
    /\ UNCHANGED <<lock, receipt, probe, artifact, preserved, head, history>>

Crash(r) ==
    /\ InCriticalSection(r)
    /\ Killed(r)
    /\ UNCHANGED <<receiptTmp, marker, ledger, tail>>

(* Killed inside an append: a fragment of the line, or all of it but the      *)
(* newline, reaches the file.                                                 *)
CrashInAppend(r) ==
    /\ Appending(r)
    /\ Killed(r)
    /\ \/ tail' = "torn" /\ UNCHANGED ledger
       \/ /\ tail = "whole"
          /\ tail' = "unterminated"
          /\ ledger' = Append(ledger, PendingEntry(r))
    /\ UNCHANGED <<receiptTmp, marker>>

(* Killed inside the write of the temporary receipt or of the marker. *)
CrashInPreflight(r) ==
    /\ pc[r] = "preflight" /\ Untouched
    /\ Killed(r)
    /\ receiptTmp' = TRUE
    /\ UNCHANGED <<marker, ledger, tail>>

CrashInMarker(r) ==
    /\ pc[r] = "load" /\ SuiteAdmits(r)
    /\ selector[r] # FullSuite /\ marker = "none"
    /\ Killed(r)
    /\ marker' = "torn"
    /\ UNCHANGED <<receiptTmp, ledger, tail>>

(* No code removes a lock a killed process left: the operator does, when no   *)
(* process is alive.                                                          *)
ClearStaleLock ==
    /\ lock /\ \A r \in Runners : pc[r] = "idle"
    /\ lock' = FALSE
    /\ UNCHANGED <<receipt, receiptTmp, probe, marker, ledger, tail, artifact, preserved,
                   head, memory, history>>

MoveHead ==
    /\ head' \in Revisions \ {head}
    /\ UNCHANGED <<lock, receipt, receiptTmp, probe, marker, ledger, tail, artifact,
                   preserved, memory, history>>

-----------------------------------------------------------------------------
Preflight(r) ==
    \/ PreflightRefused(r) \/ PreflightDoctor(r) \/ WriteProbe(r) \/ SealProbe(r)

Resume(r) ==
    \/ LoadRefused(r) \/ LoadSuite(r) \/ PreserveInterrupted(r)
    \/ ReplaceInterrupted(r) \/ SettleInterrupted(r) \/ DecidePause(r) \/ WindowRefused(r)

Execute(r) ==
    \/ StartCell(r) \/ BeginEvaluation(r) \/ PublishEvaluation(r) \/ EvaluationReturns(r)
    \/ EvaluationRaises(r) \/ MaterializeSetupError(r) \/ MaterializeRefused(r)
    \/ RecordTerminal(r) \/ Finish(r)

(* The steps a living process takes by itself. *)
Progress(r) == Preflight(r) \/ Resume(r) \/ Execute(r) \/ Release(r)

Kill(r) == Crash(r) \/ CrashInAppend(r) \/ CrashInPreflight(r) \/ CrashInMarker(r)

Next ==
    \/ \E r \in Runners :
          \/ \E s \in Selectors : BeginPreflight(r, s) \/ BeginRun(r, s)
          \/ Progress(r)
          \/ Abort(r) \/ AppendRaises(r)
          \/ Kill(r)
    \/ ClearStaleLock
    \/ MoveHead

Spec == Init /\ [][Next]_vars

(* A living process keeps going: its waits are bounded by the evaluation's    *)
(* own time limits.  Nobody is obliged to start, cancel or kill a process.    *)
FairSpec == Spec /\ \A r \in Runners : WF_vars(Progress(r))

-----------------------------------------------------------------------------
(* Properties *)

Labels == {"idle", "preflight", "probe", "seal", "load", "repair", "replace", "settle",
           "next", "evaluate", "evaluating", "scoring", "setupError", "record",
           "finish", "unwind"}

(* Every variable holds a value the program can hold. *)
TypeOK ==
    /\ lock \in BOOLEAN
    /\ receipt \in Receipts \cup {NoReceipt}
    /\ receiptTmp \in BOOLEAN
    /\ probe \in {"none", "unsealed", "passed", "failed"}
    /\ marker \in Selectors \cup {"none", "torn"}
    /\ ledger \in Seq(Entries)
    /\ tail \in {"whole", "unterminated", "torn"}
    /\ artifact \in [Cells -> Bundles \cup {"none"}]
    /\ preserved \in [Cells -> Verdicts \cup {"none"}]
    /\ head \in Revisions
    /\ pc \in [Runners -> Labels]
    /\ selector \in [Runners -> Selectors]
    /\ loadedAt \in [Runners -> Revisions \cup {"none"}]
    /\ seen \in [Runners -> [Cells -> States \cup {"ABSENT"}]]
    /\ window \in [Runners -> Seq(BOOLEAN)]
    /\ cell \in [Runners -> Cells]
    /\ outcome \in [Runners -> Bundles \cup {"none"}]
    /\ stop \in [Runners -> StopReasons]
    /\ result \in [Runners -> [status : {"COMPLETED", "FAILED", "none"},
                               stop : StopReasons, selector : Selectors \cup {"none"}]]
    /\ attempts \in [Cells -> Nat]
    /\ ranAt \in [Cells -> Revisions \cup {"none"}]

(* At most one process is between taking and removing the suite lock, and it *)
(* really holds it, whatever was killed or cancelled before.                 *)
MutualExclusion ==
    /\ \A r \in Runners : InCriticalSection(r) => lock
    /\ \A r, q \in Runners : InCriticalSection(r) /\ InCriticalSection(q) => r = q

(* A formal cell is evaluated at most once over all processes of the suite:  *)
(* neither a kill between any two steps nor a resume evaluates it again.     *)
AtMostOneAttempt == \A c \in Cells : attempts[c] <= 1

(* The writers never produce a sequence of records that the reader of a      *)
(* later process refuses (a torn line is the only way to lose a ledger).     *)
LedgerStaysReadable == WellFormed(ledger)

(* A terminal line agrees with the bundle found at its artifact path: no     *)
(* crash between bundle and line leaves a score that the bundle contradicts. *)
RecordMatchesBundle ==
    \A i \in DOMAIN ledger :
        LET e == ledger[i]
        IN  /\ e.state = "COMPLETED" => artifact[e.cell] \in PassedBundles
            /\ e.state = "FAILED" /\ e.reason = "RUN_SETUP_ERROR" => artifact[e.cell] = "setup"
            /\ e.state = "FAILED" /\ e.reason = "EVALUATION_FAILED"
                  => artifact[e.cell] \in {"failed", "environmentFailed"}

(* Every result a process returns, a pause included, leaves no cell in       *)
(* flight in the ledger.                                                     *)
ReturnsFullyTerminal ==
    \A r \in Runners : result[r] # NoResult =>
        \A c \in Cells : ReadLedger[c] # "STARTED"

(* The window a process carries in memory is the one a restart would rebuild *)
(* from ledger and bundles.                                                  *)
WindowSurvivesRestart ==
    \A r \in Runners :
        pc[r] \in {"next", "evaluate", "evaluating", "scoring", "setupError", "record", "finish"}
            => window[r] = RebuiltWindow

(* A COMPLETED result means every selected cell passed, by its bundle.       *)
CompletedMeansAllPassed ==
    \A r \in Runners : result[r].status = "COMPLETED" =>
        \A c \in Selection[result[r].selector] : artifact[c] \in PassedBundles

(* Everything that entered the ledger was admitted by one acceptable receipt: *)
(* one checked out revision for all evaluations, although the checkout may    *)
(* move between processes, and one selection, of which a partial suite is     *)
(* marked before its first line.                                              *)
AdmittedByOneReceipt ==
    /\ \A c, d \in Cells : attempts[c] > 0 /\ attempts[d] > 0 => ranAt[c] = ranAt[d]
    /\ \A c \in Cells : ReadLedger[c] # "ABSENT" =>
        /\ receipt.acceptable
        /\ c \in Selection[receipt.selector]
        /\ receipt.selector # FullSuite => marker = receipt.selector

(* No cell of a planner comparison enters the ledger before its probe was    *)
(* sealed as passed, whatever a kill left between the probe and its seal.    *)
ProbedBeforeFirstCell ==
    Planner /\ ledger # <<>> => probe = "passed" /\ receipt.revision # "none"

(* A published evaluation is never lost: it stays where it is or is moved    *)
(* aside, and what was moved aside stays.                                    *)
EvidenceKept ==
    [][\A c \in Cells :
          /\ artifact[c] \in Verdicts => artifact[c] \in {artifact'[c], preserved'[c]}
          /\ preserved[c] # "none" => preserved'[c] = preserved[c]]_<<artifact, preserved>>

(* The ledger, read by whoever comes, behaves like the contract: one cell in *)
(* flight, one final score per cell, no start while the pause rule is due,   *)
(* across every kill, cancellation and resume.                               *)
Contract == INSTANCE SuiteContract WITH status <- ReadLedger, scores <- RebuiltWindow

ImplementsContract == Contract!Spec

(* A process that entered the suite leaves it, whatever it finds there.      *)
ProcessLeaves == \A r \in Runners : InCriticalSection(r) ~> ~InCriticalSection(r)
=============================================================================
