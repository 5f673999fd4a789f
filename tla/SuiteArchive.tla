----------------------------- MODULE SuiteArchive -----------------------------
(***************************************************************************)
(* What reads a suite while it may still be running: the partial analysis  *)
(* and the formal report (benchmark_report.py) and the archiver            *)
(* (benchmark_archive.py).  None of them takes the suite's lock.  Each     *)
(* reads the ledger first, then the bundles one after another, and acts    *)
(* on what it has read; meanwhile the runner may append, be killed, and    *)
(* on its next run set an interrupted bundle aside.                        *)
(*                                                                         *)
(* The runner is the one of BenchmarkSuite with its preflight and pause    *)
(* rule left out: here it may stop between any two cells.                  *)
(***************************************************************************)
EXTENDS Reliability, SequencesExt

CONSTANTS
  Cells,    \* 1..n, in manifest order
  Group,    \* the scenario and strategy a cell belongs to
  Repeat,   \* its repeat_index in that group
  Scopes,   \* the sets of cells a doctor receipt may select
  Verdicts, \* what an evaluation may find: subset of the bundle contents below
  Clerks,   \* processes that analyse, report or archive
  MaxKills  \* bound on killed processes

ASSUME ArchiveAssumption ==
  /\ IsFiniteSet(Cells) /\ Cells = 1..Cardinality(Cells)
  /\ \A g \in {Group[c] : c \in Cells} :
        LET members == {c \in Cells : Group[c] = g}
        IN  {Repeat[c] : c \in members} = 1..Cardinality(members)
  /\ \A s \in Scopes : s \subseteq Cells /\ s # {}
  /\ Verdicts \subseteq {"passed", "gateFailed", "failed", "environmentFailed"}

VARIABLES
  scope,   \* cells of the doctor receipt's selector; all of them without one
  ledger,  \* entries [cell, state], oldest first
  torn,    \* the ledger ends in an unreadable line
  bundle,  \* artifacts/<run_id> per cell: what its evaluation found, or "none"
  aside,   \* cells whose bundle is in interrupted-artifacts/
  marker,  \* subset.json exists
  locked,  \* .lock exists
  litter,  \* temporary report files in the suite, left or in use
  summary, \* summary.json: the bundles it was computed from, or NoFile
  report,  \* report.md, likewise
  runner,  \* where the runner is
  kills,   \* processes killed so far
  pc,      \* per clerk: where it is
  seen,    \* per clerk: the state it read of each cell in the ledger
  rows,    \* per clerk: the bundles it has read
  before,  \* per clerk: the archiver's first aggregate
  archive, \* reports/benchmark/<manifest_id>, or NoArchive
  told     \* the main numbers analyses and reports have printed

suite == <<scope, ledger, torn, bundle, aside, marker, locked, litter, summary, report>>
clerk == <<pc, seen, rows, before>>
vars  == <<suite, runner, kills, clerk, archive, told>>

NoFile == <<>>
NoArchive == [names |-> {}]
Groups == {Group[c] : c \in Cells}
Members(g) == {c \in Cells : Group[c] = g}

(* Evaluation status is PASSED, whatever the controller gates say.           *)
Passed(v) == v \in {"passed", "gateFailed"}
Final(v) == IF Passed(v) THEN "COMPLETED" ELSE "FAILED"

(* The state of a cell in a ledger.                                          *)
StateIn(lines, c) ==
  LET of == {i \in DOMAIN lines : lines[i].cell = c}
  IN  IF of = {} THEN "ABSENT" ELSE lines[CHOOSE i \in of : \A j \in of : j <= i].state
Terminal(state) == state \in {"COMPLETED", "FAILED"}

Started == {c \in Cells : StateIn(ledger, c) = "STARTED"}
Unstarted == {c \in scope : StateIn(ledger, c) = "ABSENT"}
First(S) == CHOOSE c \in S : \A d \in S : c <= d

(* A function with one more value, or another one.                           *)
With(f, x, v) == [y \in DOMAIN f \cup {x} |-> IF y = x THEN v ELSE f[y]]

Init ==
  /\ scope \in Scopes
  /\ ledger = <<>> /\ torn = FALSE
  /\ bundle = [c \in Cells |-> "none"]
  /\ aside = {} /\ marker = FALSE /\ locked = FALSE /\ litter = 0
  /\ summary = NoFile /\ report = NoFile
  /\ runner = "away" /\ kills = 0
  /\ pc = [p \in Clerks |-> "idle"]
  /\ seen = [p \in Clerks |-> [c \in Cells |-> "ABSENT"]]
  /\ rows = [p \in Clerks |-> NoFile]
  /\ before = [p \in Clerks |-> NoFile]
  /\ archive = NoArchive
  /\ told = {}

-----------------------------------------------------------------------------
(* The runner *)

Append1(entry) == ledger' = Append(ledger, entry)

Enter ==
  /\ runner = "away" /\ ~locked /\ ~torn
  /\ locked' = TRUE
  /\ marker' = (scope # Cells)
  /\ runner' = IF Started = {} THEN "between" ELSE "repair"
  /\ UNCHANGED <<scope, ledger, torn, bundle, aside, litter, summary, report,
                 kills, clerk, archive, told>>

(* The bundle of an interrupted cell goes to interrupted-artifacts/, never    *)
(* over one that is there already.                                           *)
SetAside ==
  /\ runner = "repair"
  /\ LET c == First(Started)
     IN  /\ bundle[c] \notin {"none", "setup"} => c \notin aside
         /\ aside' = IF bundle[c] \in {"none", "setup"} THEN aside ELSE aside \cup {c}
         /\ bundle' = IF bundle[c] = "setup" THEN bundle ELSE [bundle EXCEPT ![c] = "none"]
  /\ runner' = "replace"
  /\ UNCHANGED <<scope, ledger, torn, marker, locked, litter, summary, report,
                 kills, clerk, archive, told>>

Replace ==
  /\ runner = "replace"
  /\ bundle' = [bundle EXCEPT ![First(Started)] = "setup"]
  /\ runner' = "settle"
  /\ UNCHANGED <<scope, ledger, torn, aside, marker, locked, litter, summary, report,
                 kills, clerk, archive, told>>

StartCell ==
  /\ runner = "between" /\ Unstarted # {}
  /\ Append1([cell |-> First(Unstarted), state |-> "STARTED"])
  /\ runner' = "evaluate"
  /\ UNCHANGED <<scope, torn, bundle, aside, marker, locked, litter, summary, report,
                 kills, clerk, archive, told>>

Evaluate ==
  /\ runner = "evaluate"
  /\ \E v \in Verdicts : bundle' = [bundle EXCEPT ![First(Started)] = v]
  /\ runner' = "settle"
  /\ UNCHANGED <<scope, ledger, torn, aside, marker, locked, litter, summary, report,
                 kills, clerk, archive, told>>

Settle ==
  /\ runner = "settle"
  /\ LET c == First(Started) IN Append1([cell |-> c, state |-> Final(bundle[c])])
  /\ runner' = "between"
  /\ UNCHANGED <<scope, torn, bundle, aside, marker, locked, litter, summary, report,
                 kills, clerk, archive, told>>

(* The runner leaves, after a cell or because something raised.              *)
Leave ==
  /\ runner # "away"
  /\ runner' = "away" /\ locked' = FALSE
  /\ UNCHANGED <<scope, ledger, torn, bundle, aside, marker, litter, summary, report,
                 kills, clerk, archive, told>>

(* A killed runner leaves its lock, and half a line if it was appending.      *)
KillRunner ==
  /\ runner # "away" /\ kills < MaxKills
  /\ runner' = "away" /\ kills' = kills + 1
  /\ torn' \in BOOLEAN /\ (torn' => runner \in {"between", "settle"})
  /\ UNCHANGED <<scope, ledger, bundle, aside, marker, locked, litter, summary, report,
                 clerk, archive, told>>

ClearStaleLock ==
  /\ runner = "away" /\ locked
  /\ locked' = FALSE
  /\ UNCHANGED <<scope, ledger, torn, bundle, aside, marker, litter, summary, report,
                 runner, kills, clerk, archive, told>>

RunnerStep ==
  Enter \/ SetAside \/ Replace \/ StartCell \/ Evaluate \/ Settle \/ Leave \/ ClearStaleLock

-----------------------------------------------------------------------------
(* Reading *)

Goto(p, label) == pc' = [pc EXCEPT ![p] = label]

(* The clerk returns or raises; what it read is gone.                        *)
Idle(p) ==
  /\ Goto(p, "idle")
  /\ seen' = [seen EXCEPT ![p] = [c \in Cells |-> "ABSENT"]]
  /\ rows' = [rows EXCEPT ![p] = NoFile]
  /\ before' = [before EXCEPT ![p] = NoFile]

ReadLedger(p) ==
  /\ ~torn
  /\ seen' = [seen EXCEPT ![p] = [c \in Cells |-> StateIn(ledger, c)]]
  /\ UNCHANGED <<rows, before>>

TerminalCells(p) == {c \in Cells : Terminal(seen[p][c])}

(* The bundles a clerk has still to read.                                    *)
Unread(p) == TerminalCells(p) \ DOMAIN rows[p]

ReadRow(p) ==
  LET c == First(Unread(p)) IN rows' = [rows EXCEPT ![p] = With(@, c, bundle[c])]

(* The bundle shows the state the ledger gave the cell.                      *)
Agrees(p, c) == Final(rows[p][c]) = seen[p][c]

(* Variant: the controller gates do not count. *)
TrialIgnoringGates(v) ==
  [passed |-> Passed(v), invalid |-> v \in {"environmentFailed", "setup"}]

(* Success needs the controller gates too; a failed environment gate makes   *)
(* the sample invalid rather than a failure.                                 *)
Trial(v) == [passed |-> v = "passed", invalid |-> v \in {"environmentFailed", "setup"}]

Analysis(read) ==
  [g \in Groups |->
     BuildGroup(Cardinality(Members(g)),
                [i \in {Repeat[c] : c \in Members(g) \cap DOMAIN read} |->
                   Trial(read[CHOOSE c \in Members(g) : Repeat[c] = i])])]

(* What is printed as a result: the main numbers of the complete groups.     *)
MainNumbers(read) ==
  {<<g, Analysis(read)[g].main>> : g \in {h \in Groups : Analysis(read)[h].complete}}

-----------------------------------------------------------------------------
(* The partial analysis: of a suite that is incomplete, running or not *)

BeginAnalysis(p) ==
  /\ pc[p] = "idle"
  /\ ReadLedger(p)
  /\ Goto(p, "analyse")
  /\ UNCHANGED <<suite, archive, told>>

(* A bundle that disagrees with the ledger leaves its repeat missing.        *)
FinishAnalysis(p) ==
  /\ pc[p] = "analyse" /\ Unread(p) = {}
  /\ told' = told \cup MainNumbers([c \in {d \in DOMAIN rows[p] : Agrees(p, d)} |-> rows[p][c]])
  /\ Idle(p)
  /\ UNCHANGED <<suite, archive>>

(* Reading the next bundle, for the analysis, the report or the matrix.      *)
ReadBundle(p) ==
  /\ pc[p] \in {"analyse", "report", "matrix"} /\ Unread(p) # {}
  /\ ReadRow(p)
  /\ UNCHANGED <<suite, pc, seen, before, archive, told>>

-----------------------------------------------------------------------------
(* The formal report *)

(* No subset marker, no subset receipt, two entries for every cell.          *)
Reportable(p) == ~marker /\ scope = Cells /\ \A c \in Cells : Terminal(seen'[p][c])

BeginReport(p) ==
  /\ pc[p] = "idle"
  /\ ReadLedger(p)
  /\ Reportable(p)
  /\ Goto(p, "report")
  /\ UNCHANGED <<suite, archive, told>>

CheckRecords(p) ==
  /\ pc[p] = "report" /\ Unread(p) = {}
  /\ IF \A c \in DOMAIN rows[p] : Agrees(p, c)
     THEN Goto(p, "summary.json") /\ UNCHANGED <<seen, rows, before>>
     ELSE Idle(p)
  /\ UNCHANGED <<suite, archive, told>>

(* _write_if_identical: a file that is there must be the same; otherwise a    *)
(* temporary one is written and then renamed, over whatever has appeared.    *)
FindFile(p) ==
  /\ \/ /\ pc[p] = "summary.json" /\ summary # NoFile
        /\ IF summary = rows[p] THEN Goto(p, "report.md") /\ UNCHANGED <<seen, rows, before>>
           ELSE Idle(p)
     \/ pc[p] = "report.md" /\ report # NoFile /\ Idle(p)
  /\ UNCHANGED <<suite, archive, told>>

WriteTemporary(p) ==
  /\ \/ pc[p] = "summary.json" /\ summary = NoFile /\ Goto(p, "rename summary")
     \/ pc[p] = "report.md" /\ report = NoFile /\ Goto(p, "rename report")
  /\ litter' = litter + 1
  /\ UNCHANGED <<scope, ledger, torn, bundle, aside, marker, locked, summary, report,
                 seen, rows, before, archive, told>>

RenameSummary(p) ==
  /\ pc[p] = "rename summary"
  /\ summary' = rows[p]
  /\ told' = told \cup MainNumbers(rows[p])
  /\ litter' = litter - 1
  /\ Goto(p, "report.md")
  /\ UNCHANGED <<scope, ledger, torn, bundle, aside, marker, locked, report,
                 seen, rows, before, archive>>

RenameReport(p) ==
  /\ pc[p] = "rename report"
  /\ report' = rows[p]
  /\ litter' = litter - 1
  /\ Idle(p)
  /\ UNCHANGED <<scope, ledger, torn, bundle, aside, marker, locked, summary, archive, told>>

-----------------------------------------------------------------------------
(* The archiver *)

Present ==
  [ledger |-> ledger # <<>> \/ torn, subset |-> marker, lock |-> locked,
   interrupted |-> aside # {}, temporary |-> litter > 0,
   summary |-> summary # NoFile, report |-> report # NoFile]
Names == {n \in DOMAIN Present : Present[n]}

(* The files a suite of this scope must consist of, besides its receipt.     *)
Expected(p) ==
  {"ledger"} \cup (Names \cap {"interrupted"})
    \cup IF scope # Cells THEN {"subset"}
         ELSE IF TerminalCells(p) = Cells THEN {"summary", "report"} ELSE {}

LedgerFile == [lines |-> ledger, torn |-> torn]
Content == [ledger |-> LedgerFile, subset |-> marker, summary |-> summary, report |-> report,
            interrupted |-> aside]

(* What an aggregate reads: the listing, the ledger, and the other files,    *)
(* which are written once, or again with the same content, so that it does   *)
(* not matter when each of them is hashed.  The receipt stands as the scope. *)
Listing == [names |-> Names, aside |-> aside]
Others(p) ==
  [files |-> [n \in {"summary", "report"} \cap before[p].listed.names |-> Content[n]],
   bundles |-> [c \in TerminalCells(p) |-> bundle[c]]]

(* The archive must not exist, the receipt and the marker must name the same *)
(* scope, and the ledger must be pairs of a start and an end, at least one.  *)
BeginArchive(p) ==
  /\ pc[p] = "idle"
  /\ archive = NoArchive
  /\ marker = (scope # Cells)
  /\ ledger # <<>>
  /\ ReadLedger(p)
  /\ \A c \in Cells : seen'[p][c] # "STARTED"
  /\ Goto(p, "names")
  /\ UNCHANGED <<suite, archive, told>>

(* The names are checked and then listed again for the first aggregate, which *)
(* is one step here: whatever appeared between the two is refused when the   *)
(* names are checked after the copy.                                         *)
ListSuite(p) ==
  /\ pc[p] = "names"
  /\ IF Names = Expected(p)
     THEN /\ before' = [before EXCEPT ![p] = [listed |-> Listing]]
          /\ Goto(p, "hash")
          /\ UNCHANGED <<seen, rows>>
     ELSE Idle(p)
  /\ UNCHANGED <<suite, archive, told>>

HashLedger(p) ==
  /\ pc[p] = "hash"
  /\ before' = [before EXCEPT ![p] = [listed |-> @.listed, ledger |-> LedgerFile]]
  /\ Goto(p, "hash others")
  /\ UNCHANGED <<suite, seen, rows, archive, told>>

HashOthers(p) ==
  /\ pc[p] = "hash others"
  /\ before' = [before EXCEPT ![p] = [listed |-> @.listed, ledger |-> @.ledger,
                                      others |-> Others(p)]]
  /\ Goto(p, "matrix")
  /\ UNCHANGED <<suite, seen, rows, archive, told>>

(* mkdir fails, outside the handler that cleans up, when another archiver    *)
(* was faster.                                                               *)
MakeArchive(p) ==
  /\ pc[p] = "matrix" /\ Unread(p) = {}
  /\ IF archive = NoArchive /\ \A c \in DOMAIN rows[p] : Agrees(p, c)
     THEN /\ archive' = [names |-> {}, sealed |-> FALSE, rows |-> NoFile, files |-> NoFile,
                        digest |-> NoFile]
          /\ Goto(p, "copy") /\ UNCHANGED <<seen, rows, before>>
     ELSE Idle(p) /\ UNCHANGED archive
  /\ UNCHANGED <<suite, told>>

CopyOrder == <<"ledger", "subset", "summary", "report", "interrupted">>
Uncopied(p) == before[p].listed.names \ archive.names
NextCopy(p) ==
  LET left == {i \in DOMAIN CopyOrder : CopyOrder[i] \in Uncopied(p)}
  IN  CopyOrder[CHOOSE i \in left : \A j \in left : i <= j]

(* A failure from here on removes the archive.                               *)
Rollback(p) == archive' = NoArchive /\ Idle(p)

CopyFile(p) ==
  /\ pc[p] = "copy" /\ Uncopied(p) # {}
  /\ LET n == NextCopy(p)
     IN  IF n \in Names
         THEN /\ archive' = [archive EXCEPT !.names = @ \cup {n},
                                            !.files = With(@, n, Content[n])]
              /\ UNCHANGED clerk
         ELSE Rollback(p)
  /\ UNCHANGED <<suite, told>>

WriteMatrix(p) ==
  /\ pc[p] = "copy" /\ Uncopied(p) = {}
  /\ archive' = [archive EXCEPT !.rows = rows[p],
                                !.digest = [ledger |-> before[p].ledger,
                                            interrupted |-> before[p].listed.aside]]
  /\ Goto(p, "recheck")
  /\ UNCHANGED <<suite, seen, rows, before, told>>

RecheckNames(p) ==
  /\ pc[p] = "recheck"
  /\ IF Names = before[p].listed.names
     THEN Goto(p, "relist") /\ UNCHANGED <<seen, rows, before, archive>>
     ELSE Rollback(p)
  /\ UNCHANGED <<suite, told>>

(* Variant: the second aggregate does not look into interrupted-artifacts/. *)
UnchangedNames(p) == Names = before[p].listed.names

(* The suite is listed as it was for the first aggregate.                    *)
UnchangedListing(p) == Listing = before[p].listed

RelistSuite(p) ==
  /\ pc[p] = "relist"
  /\ IF UnchangedListing(p)
     THEN Goto(p, "rehash") /\ UNCHANGED <<seen, rows, before, archive>>
     ELSE Rollback(p)
  /\ UNCHANGED <<suite, told>>

(* A difference shows at once: what is read later cannot undo it.            *)
RehashLedger(p) ==
  /\ pc[p] = "rehash"
  /\ IF LedgerFile = before[p].ledger
     THEN Goto(p, "rehash others") /\ UNCHANGED <<seen, rows, before, archive>>
     ELSE Rollback(p)
  /\ UNCHANGED <<suite, told>>

SealArchive(p) ==
  /\ pc[p] = "rehash others"
  /\ IF Others(p) = before[p].others
     THEN archive' = [archive EXCEPT !.sealed = TRUE] /\ Idle(p)
     ELSE Rollback(p)
  /\ UNCHANGED <<suite, told>>

(* A killed clerk leaves its temporary file, or its unfinished archive.      *)
KillClerk(p) ==
  /\ pc[p] \in {"rename summary", "rename report", "copy", "recheck", "relist", "rehash",
               "rehash others"}
  /\ kills < MaxKills
  /\ kills' = kills + 1
  /\ Idle(p)
  /\ UNCHANGED <<suite, archive, told>>

Analyse(p) == BeginAnalysis(p) \/ FinishAnalysis(p)
Publish(p) ==
  BeginReport(p) \/ CheckRecords(p) \/ FindFile(p) \/ WriteTemporary(p) \/ RenameSummary(p)
    \/ RenameReport(p)
ArchiveSuite(p) ==
  BeginArchive(p) \/ ListSuite(p) \/ HashLedger(p) \/ HashOthers(p)
    \/ MakeArchive(p) \/ CopyFile(p) \/ WriteMatrix(p)
    \/ RecheckNames(p) \/ RelistSuite(p) \/ RehashLedger(p) \/ SealArchive(p)

Next ==
  \/ RunnerStep
  \/ KillRunner
  \/ \E p \in Clerks :
        \/ (ReadBundle(p) \/ Analyse(p) \/ Publish(p) \/ ArchiveSuite(p)) /\ UNCHANGED <<runner, kills>>
        \/ KillClerk(p) /\ UNCHANGED runner

Spec == Init /\ [][Next]_vars

-----------------------------------------------------------------------------
(* Properties *)

(* A main number once printed, by an analysis of a running suite or by the   *)
(* formal report, is the one the finished suite will show: all its repeats   *)
(* had ended and were valid, and their bundles are still the ones it counted.*)
(* Guards the reading of ledger and bundles without the suite's lock.        *)
MainNumbersHold ==
  \A number \in told :
    LET cells == Members(number[1])
    IN  /\ \A c \in cells : Terminal(StateIn(ledger, c)) /\ ~Trial(bundle[c]).invalid
        /\ number[2] = [k \in 1..Cardinality(cells) |->
             PassHat(Cardinality({c \in cells : bundle[c] = "passed"}), Cardinality(cells), k)]

(* A sealed archive is whole and true to the suite: the ledger it copied is  *)
(* a prefix of the suite's, every row of its matrix is the bundle the suite  *)
(* still holds and agrees with that ledger, a finished formal suite is       *)
(* archived with the report on exactly those rows, and the interrupted       *)
(* bundles are those of the copied ledger: none of a cell it has ended is    *)
(* missing, none is of a cell it never began.  The aggregate it states is of *)
(* the files it holds.  Guards the file-by-file reading and copying against  *)
(* a runner, a reporter or a second archiver that works in between, and      *)
(* against their being killed.                                               *)
SealedArchiveIsTrue ==
  archive # NoArchive /\ archive.sealed =>
    LET copied == archive.files["ledger"].lines
        cells == DOMAIN archive.rows
        kept == IF "interrupted" \in archive.names THEN archive.files["interrupted"] ELSE {}
    IN  /\ IsPrefix(copied, ledger)
        /\ \A c \in cells :
             archive.rows[c] = bundle[c] /\ StateIn(copied, c) = Final(bundle[c])
        /\ scope = Cells /\ cells = Cells =>
             archive.files["summary"] = archive.rows /\ archive.files["report"] = archive.rows
        /\ \A c \in aside : Terminal(StateIn(copied, c)) => c \in kept
        /\ \A c \in kept : StateIn(copied, c) # "ABSENT"
        /\ archive.digest = [ledger |-> archive.files["ledger"], interrupted |-> kept]

(* An archive is of the suite as it was: "benchmark source changed during    *)
(* archive" is refused (benchmark_archive.py), so the matrix has a row for   *)
(* every cell of the ledger that was copied.                                 *)
MatrixCoversLedger ==
  archive # NoArchive /\ archive.sealed =>
    \A c \in Cells : StateIn(archive.files["ledger"].lines, c) # "ABSENT" => c \in DOMAIN archive.rows
=============================================================================
