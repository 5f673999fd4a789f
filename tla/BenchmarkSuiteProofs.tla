------------------------ MODULE BenchmarkSuiteProofs ------------------------
(***************************************************************************)
(* Theorems about the formal suite, for any set of cells, processes,       *)
(* selectors and revisions: types, exclusion by the lock file, a ledger    *)
(* the reader always accepts and at most one evaluation per cell; then     *)
(* what a later process finds in a suite directory - every line was        *)
(* admitted by one receipt, agrees with its bundle, and no evaluation is   *)
(* lost; and that the suite, with all its processes, files and crashes,    *)
(* implements the contract of SuiteContract.                               *)
(***************************************************************************)
EXTENDS BenchmarkSuite, SequenceTheorems, FiniteSetTheorems, WellFoundedInduction, TLAPS

-----------------------------------------------------------------------------
(* Operators the model is built from *)

(* A nonempty set of cells has a first one, in manifest order. *)
LEMMA FirstInSet ==
    ASSUME NEW S \in SUBSET Nat, S # {}
    PROVE  First(S) \in S
<1> DEFINE Less == {p \in Nat \X Nat : p[1] < p[2]}
<1>1. IsWellFoundedOn(Less, Nat)
  BY NatLessThanWellFounded, Zenon DEF OpToRel
<1>2. \A x, y \in Nat : x < y => <<x, y>> \in Less
  OBVIOUS
<1> HIDE DEF Less
<1>3. PICK c \in S : \A d \in S : ~(<<d, c>> \in Less)
  BY <1>1, WFMin
<1>4. \A d \in S : c <= d
  <2> SUFFICES ASSUME NEW d \in S, d < c
               PROVE  FALSE
    OBVIOUS
  <2>1. d \in Nat /\ c \in Nat
    OBVIOUS
  <2> QED
    BY <2>1, <1>2, <1>3
<1> QED
  BY <1>4 DEF First

(* The line a process appends is a ledger entry. *)
LEMMA PendingEntryType ==
    ASSUME SuiteAssumption, TypeOK, NEW r \in Runners, Appending(r)
    PROVE  PendingEntry(r) \in Entries
<1>1. CASE pc[r] = "next"
  <2>1. Unstarted(r) # {} /\ Unstarted(r) \in SUBSET Cells
    BY <1>1 DEF Appending, Unstarted, SuiteAssumption, TypeOK
  <2>2. First(Unstarted(r)) \in Cells
    BY <2>1, FirstInSet DEF SuiteAssumption
  <2> QED
    BY <1>1, <2>2 DEF PendingEntry, Entries, States, Reasons
<1>2. CASE pc[r] = "settle"
  BY <1>2 DEF PendingEntry, Entries, States, Reasons, TypeOK
<1>3. CASE pc[r] = "record"
  BY <1>3 DEF PendingEntry, Terminated, Entries, States, Reasons, TypeOK
<1> QED
  BY <1>1, <1>2, <1>3 DEF Appending

(* The window rebuilt from the ledger is a sequence of verdicts. *)
LEMMA RebuiltWindowType ==
    ASSUME TypeOK
    PROVE  RebuiltWindow \in Seq(BOOLEAN)
<1>1. IsFiniteSet(1..Len(ledger)) /\ TerminalLines \in SUBSET (1..Len(ledger))
  BY FS_Interval DEF TypeOK, TerminalLines
<1>2. Cardinality(TerminalLines) \in Nat
  BY <1>1, FS_Subset, FS_CardinalityType
<1>3. \A e : CleanPass(e) \in BOOLEAN
  BY DEF CleanPass
<1> QED
  BY <1>2, <1>3 DEF RebuiltWindow

-----------------------------------------------------------------------------
(* Types *)

(* Every state of a suite holds values the program can hold. *)
LEMMA InitTypeOK ==
    ASSUME SuiteAssumption, Init
    PROVE  TypeOK
<1>1. First(Cells) \in Cells
  BY FirstInSet DEF SuiteAssumption
<1>2. ledger \in Seq(Entries) /\ <<>> \in Seq(BOOLEAN)
  BY DEF Init
<1> QED
  BY <1>1, <1>2
  DEF Init, TypeOK, SuiteAssumption, NoReceipt, NoResult, Labels, StopReasons

(* Every action preserves the types. *)
LEMMA NextTypeOK ==
    ASSUME SuiteAssumption, TypeOK, [Next]_vars
    PROVE  TypeOK'
<1> USE DEF TypeOK, Labels, disk, memory, history, Goto
<1>0. First(Cells) \in Cells
  BY FirstInSet DEF SuiteAssumption
<1>w. RebuiltWindow \in Seq(BOOLEAN)
  BY RebuiltWindowType
<1>e. ASSUME NEW r \in Runners, Appending(r)
      PROVE  PendingEntry(r) \in Entries
  BY <1>e, PendingEntryType
<1>f. NoResult \in [status : {"COMPLETED", "FAILED", "none"}, stop : StopReasons,
                     selector : Selectors \cup {"none"}]
  BY DEF NoResult, StopReasons
<1>l. ReadLedger \in [Cells -> States \cup {"ABSENT"}]
  BY DEF ReadLedger, States
<1>1. ASSUME NEW r \in Runners, NEW s \in Selectors, NEW label \in Labels, TakeLock(r, s, label)
      PROVE  TypeOK'
  BY <1>1 DEF TakeLock
<1>2. ASSUME NEW r \in Runners, Forget(r), UNCHANGED <<receipt, probe, artifact, preserved, head, history>>,
             lock' \in BOOLEAN, receiptTmp' \in BOOLEAN, marker' \in Selectors \cup {"none", "torn"},
             ledger' \in Seq(Entries), tail' \in {"whole", "unterminated", "torn"}
      PROVE  TypeOK'
  BY <1>0, <1>2, <1>f, SuiteAssumption DEF Forget, SuiteAssumption, States, StopReasons
<1>3. ASSUME NEW r \in Runners, Unwind(r)
      PROVE  TypeOK'
  BY <1>3 DEF Unwind
<1>4. ASSUME NEW r \in Runners, Preflight(r)
      PROVE  TypeOK'
  <2>1. CASE PreflightRefused(r)
    BY <2>1, <1>3 DEF PreflightRefused
  <2>2. CASE PreflightDoctor(r)
    BY <2>2 DEF PreflightDoctor, Receipts
  <2>3. CASE WriteProbe(r)
    BY <2>3 DEF WriteProbe
  <2>4. CASE SealProbe(r)
    BY <2>4 DEF SealProbe
  <2> QED
    BY <1>4, <2>1, <2>2, <2>3, <2>4 DEF Preflight
<1>5. ASSUME NEW r \in Runners, Resume(r)
      PROVE  TypeOK'
  <2>1. CASE LoadRefused(r)
    BY <2>1, <1>3 DEF LoadRefused
  <2>2. CASE LoadSuite(r)
    BY <2>2, <1>l DEF LoadSuite
  <2>3. CASE PreserveInterrupted(r)
    <3>1. First(Interrupted(r)) \in Cells
      <4>1. Interrupted(r) \in SUBSET Cells /\ Interrupted(r) # {}
        BY <2>3 DEF PreserveInterrupted, Interrupted, SuiteAssumption
      <4> QED
        BY <4>1, FirstInSet DEF SuiteAssumption
    <3> DEFINE c == First(Interrupted(r))
    <3>2. artifact[c] # "setup" => KeptAside(c) \in Verdicts \cup {"none"}
      BY <3>1 DEF KeptAside, Bundles
    <3> HIDE DEF c
    <3>3. /\ artifact' \in [Cells -> Bundles \cup {"none"}]
          /\ preserved' \in [Cells -> Verdicts \cup {"none"}]
          /\ cell' \in [Runners -> Cells]
          /\ pc' \in [Runners -> Labels]
      <4>1. CASE artifact[c] = "setup"
        BY <2>3, <3>1, <4>1 DEF PreserveInterrupted, c
      <4>2. CASE artifact[c] # "setup"
        <5>1. /\ preserved' = [preserved EXCEPT ![c] = KeptAside(c)]
              /\ artifact' = [artifact EXCEPT ![c] = "none"]
              /\ cell' = [cell EXCEPT ![r] = c]
              /\ pc' = [pc EXCEPT ![r] = "replace"]
          BY <2>3, <4>2 DEF PreserveInterrupted, c
        <5>2. KeptAside(c) \in Verdicts \cup {"none"} /\ c \in Cells
          BY <3>1, <3>2, <4>2 DEF c
        <5> QED
          BY <5>1, <5>2
      <4> QED
        BY <4>1, <4>2
    <3> QED
      BY <2>3, <3>3 DEF PreserveInterrupted
  <2>4. CASE ReplaceInterrupted(r)
    BY <2>4 DEF ReplaceInterrupted, Bundles
  <2>5. CASE SettleInterrupted(r)
    BY <2>5, <1>e DEF SettleInterrupted, AppendEntry, Appending, TailAfterAppend, Entries
  <2>6. CASE DecidePause(r)
    BY <2>6, <1>w DEF DecidePause, StopReasons
  <2>7. CASE WindowRefused(r)
    BY <2>7, <1>3 DEF WindowRefused
  <2> QED
    BY <1>5, <2>1, <2>2, <2>3, <2>4, <2>5, <2>6, <2>7 DEF Resume
<1>6. ASSUME NEW r \in Runners, Execute(r)
      PROVE  TypeOK'
  <2>1. CASE StartCell(r)
    BY <2>1, <1>e DEF StartCell, AppendEntry, Appending, TailAfterAppend, Entries
  <2>2. CASE BeginEvaluation(r)
    <3>1. cell[r] \in Cells /\ attempts \in [Cells -> Nat]
      OBVIOUS
    <3>2. attempts' \in [Cells -> Nat] /\ ranAt' \in [Cells -> Revisions \cup {"none"}]
      <4>1. \A n \in Nat : n + 1 \in Nat
        OBVIOUS
      <4> QED
        BY <2>2, <3>1, <4>1 DEF BeginEvaluation
    <3> QED
      BY <2>2, <3>2 DEF BeginEvaluation
  <2>3. CASE PublishEvaluation(r)
    BY <2>3 DEF PublishEvaluation, Bundles
  <2>4. CASE EvaluationReturns(r)
    BY <2>4 DEF EvaluationReturns, StopReasons
  <2>5. CASE EvaluationRaises(r)
    BY <2>5 DEF EvaluationRaises
  <2>6. CASE MaterializeSetupError(r)
    BY <2>6 DEF MaterializeSetupError, Bundles, StopReasons
  <2>7. CASE MaterializeRefused(r)
    BY <2>7, <1>3 DEF MaterializeRefused
  <2>8. CASE RecordTerminal(r)
    <3> DEFINE backed == cell[r] \in ModelBacked
               grown == IF backed THEN Append(window[r], outcome[r] = "passed") ELSE window[r]
               pause == backed /\ PauseDue(grown)
    <3>1. grown \in Seq(BOOLEAN)
      <4>1. window[r] \in Seq(BOOLEAN) /\ (outcome[r] = "passed") \in BOOLEAN
        OBVIOUS
      <4> QED
        BY <4>1, AppendProperties
    <3> HIDE DEF grown, pause
    <3>2. /\ pc[r] = "record"
          /\ AppendEntry(r)
          /\ window' = [window EXCEPT ![r] = grown]
          /\ stop' \in [Runners -> StopReasons]
          /\ pc' \in [Runners -> Labels]
          /\ UNCHANGED <<lock, receipt, receiptTmp, probe, marker, artifact, preserved, head,
                         selector, loadedAt, cell, outcome, result, history>>
      BY <2>8 DEF RecordTerminal, StopReasons, grown, pause
    <3> QED
      BY <3>1, <3>2, <1>e DEF AppendEntry, Appending, TailAfterAppend, Entries
  <2>9. CASE Finish(r)
    BY <2>9 DEF Finish
  <2> QED
    BY <1>6, <2>1, <2>2, <2>3, <2>4, <2>5, <2>6, <2>7, <2>8, <2>9 DEF Execute
<1>7. ASSUME NEW r \in Runners, Release(r)
      PROVE  TypeOK'
  BY <1>7, <1>2 DEF Release
<1>8. ASSUME NEW r \in Runners, AppendRaises(r)
      PROVE  TypeOK'
  BY <1>8, <1>e DEF AppendRaises, TailAfterAppend
<1>9. ASSUME NEW r \in Runners, Kill(r)
      PROVE  TypeOK'
  <2>1. CASE Crash(r)
    BY <2>1, <1>2 DEF Crash, Killed
  <2>2. CASE CrashInAppend(r)
    <3>1. ledger' \in Seq(Entries)
      <4>1. PendingEntry(r) \in Entries
        BY <2>2, <1>e DEF CrashInAppend
      <4>2. ledger' = ledger \/ ledger' = Append(ledger, PendingEntry(r))
        BY <2>2, Zenon DEF CrashInAppend
      <4>3. \A x \in Entries, q \in Seq(Entries) : Append(q, x) \in Seq(Entries)
        OBVIOUS
      <4>4. ledger \in Seq(Entries)
        OBVIOUS
      <4> QED
        BY ONLY <4>1, <4>2, <4>3, <4>4
    <3> QED
      BY <2>2, <3>1, <1>2 DEF CrashInAppend, Killed
  <2>3. CASE CrashInPreflight(r)
    BY <2>3, <1>2 DEF CrashInPreflight, Killed
  <2>4. CASE CrashInMarker(r)
    BY <2>4, <1>2 DEF CrashInMarker, Killed
  <2> QED
    BY <1>9, <2>1, <2>2, <2>3, <2>4 DEF Kill
<1>10. CASE ClearStaleLock
  BY <1>10 DEF ClearStaleLock
<1>11. CASE MoveHead
  BY <1>11 DEF MoveHead
<1>12. CASE UNCHANGED vars
  BY <1>12 DEF vars
<1> QED
  BY <1>1, <1>3, <1>4, <1>5, <1>6, <1>7, <1>8, <1>9, <1>10, <1>11, <1>12
  DEF Next, Progress, Abort, BeginPreflight, BeginRun

(* Every state a suite reaches holds values the program can hold. *)
THEOREM TypeCorrect == Spec => []TypeOK
<1>1. Init => TypeOK
  BY SuiteAssumption, InitTypeOK
<1>2. TypeOK /\ [Next]_vars => TypeOK'
  BY SuiteAssumption, NextTypeOK
<1> QED
  BY <1>1, <1>2, PTL DEF Spec

-----------------------------------------------------------------------------
(* Exclusion by the lock file *)

(* A process that is inside is the only one inside. *)
LEMMA OthersIdle ==
    ASSUME TypeOK, MutualExclusion, NEW r \in Runners, InCriticalSection(r)
    PROVE  /\ lock
           /\ \A q \in Runners \ {r} : pc[q] = "idle"
BY DEF MutualExclusion, InCriticalSection, TypeOK

(* Every action keeps the lock file and the processes in step: only a free   *)
(* lock is taken, and only its holder, or an operator who sees no process,   *)
(* removes it.                                                               *)
LEMMA NextMutualExclusion ==
    ASSUME TypeOK, MutualExclusion, [Next]_vars
    PROVE  MutualExclusion'
<1> USE DEF MutualExclusion, InCriticalSection, TypeOK
(* A step of a process that is inside and keeps the lock. *)
<1>1. ASSUME NEW r \in Runners, InCriticalSection(r), lock' = lock,
             pc' \in [Runners -> Labels], \A q \in Runners \ {r} : pc'[q] = pc[q]
      PROVE  MutualExclusion'
  BY <1>1
<1>2. ASSUME NEW r \in Runners, NEW s, NEW label \in Labels, TakeLock(r, s, label)
      PROVE  MutualExclusion'
  BY <1>2 DEF TakeLock, LockFree, Goto
<1>3. ASSUME NEW r \in Runners, Preflight(r) \/ Resume(r) \/ Execute(r) \/ Abort(r)
                                 \/ AppendRaises(r) \/ Kill(r)
      PROVE  MutualExclusion'
  <2>1. InCriticalSection(r)
    BY <1>3
    DEF Preflight, PreflightRefused, PreflightDoctor, WriteProbe, SealProbe,
        Resume, LoadRefused, LoadSuite, PreserveInterrupted, ReplaceInterrupted,
        SettleInterrupted, DecidePause, WindowRefused, Execute, StartCell, BeginEvaluation,
        PublishEvaluation, EvaluationReturns, EvaluationRaises, MaterializeSetupError,
        MaterializeRefused, RecordTerminal, Finish, Abort, AppendRaises, Appending, Kill,
        Crash, CrashInAppend, CrashInPreflight, CrashInMarker
  <2>2. lock' = lock
    BY <1>3
    DEF Preflight, PreflightRefused, PreflightDoctor, WriteProbe, SealProbe,
        Resume, LoadRefused, LoadSuite, PreserveInterrupted, ReplaceInterrupted,
        SettleInterrupted, DecidePause, WindowRefused, Execute, StartCell, BeginEvaluation,
        PublishEvaluation, EvaluationReturns, EvaluationRaises, MaterializeSetupError,
        MaterializeRefused, RecordTerminal, Finish, Abort, AppendRaises, Kill,
        Crash, CrashInAppend, CrashInPreflight, CrashInMarker, Killed, Unwind, disk
  <2>3. \E label \in Labels : pc' = [pc EXCEPT ![r] = label]
    BY <1>3
    DEF Preflight, PreflightRefused, PreflightDoctor, WriteProbe, SealProbe,
        Resume, LoadRefused, LoadSuite, PreserveInterrupted, ReplaceInterrupted,
        SettleInterrupted, DecidePause, WindowRefused, Execute, StartCell, BeginEvaluation,
        PublishEvaluation, EvaluationReturns, EvaluationRaises, MaterializeSetupError,
        MaterializeRefused, RecordTerminal, Finish, Abort, AppendRaises, Kill,
        Crash, CrashInAppend, CrashInPreflight, CrashInMarker, Killed, Forget, Unwind,
        Goto, Labels
  <2> QED
    BY <1>1, <2>1, <2>2, <2>3
<1>4. ASSUME NEW r \in Runners, Release(r)
      PROVE  MutualExclusion'
  BY <1>4, OthersIdle DEF Release, Forget, Goto
<1>5. CASE ClearStaleLock
  BY <1>5 DEF ClearStaleLock, memory
<1>6. CASE MoveHead
  BY <1>6 DEF MoveHead, memory
<1>7. CASE UNCHANGED vars
  BY <1>7 DEF vars, disk, memory
<1> QED
  BY <1>2, <1>3, <1>4, <1>5, <1>6, <1>7
  DEF Next, Progress, BeginPreflight, BeginRun, Labels

(* At most one process is inside a suite, and it holds the lock. *)
THEOREM ExclusionHolds == Spec => []MutualExclusion
<1>1. Init => MutualExclusion
  BY DEF Init, MutualExclusion, InCriticalSection
<1>2. TypeOK /\ MutualExclusion /\ [Next]_vars => MutualExclusion'
  BY NextMutualExclusion
<1> QED
  BY <1>1, <1>2, TypeCorrect, PTL DEF Spec

-----------------------------------------------------------------------------
(* The ledger and the memory of the process that writes it *)

(* Where a process has loaded the ledger, and where cell[r] is in flight. *)
Loaded == {"repair", "replace", "settle", "next", "evaluate", "evaluating", "scoring",
           "setupError", "record", "finish"}
Holding == {"replace", "settle", "evaluate", "evaluating", "scoring", "setupError", "record"}

(* Why no cell is evaluated twice: what a process remembers of the ledger is *)
(* what the ledger says, the cell it works on is in flight there, and a cell *)
(* that was ever evaluated is in it.                                         *)
LedgerInv ==
    /\ WellFormed(ledger)
    /\ \A r \in Runners : pc[r] \in Loaded => seen[r] = ReadLedger
    /\ \A r \in Runners : pc[r] \in Holding => ReadLedger[cell[r]] = "STARTED"
    /\ \A r \in Runners : pc[r] = "evaluate" => attempts[cell[r]] = 0
    /\ \A c \in Cells : attempts[c] <= 1
    /\ \A c \in Cells : attempts[c] > 0 => ReadLedger[c] # "ABSENT"

(* A record of a cell may follow a well-formed ledger if it starts an absent *)
(* cell or settles a started one.                                            *)
LEMMA WellFormedAppend ==
    ASSUME NEW L \in Seq(Entries), NEW e \in Entries, WellFormed(L),
           IF e.state = "STARTED"
           THEN \A i \in 1..Len(L) : L[i].cell # e.cell
           ELSE /\ \E i \in 1..Len(L) : L[i].cell = e.cell
                /\ \A i \in 1..Len(L) : L[i].cell = e.cell => L[i].state = "STARTED"
    PROVE  WellFormed(Append(L, e))
<1> DEFINE M == Append(L, e)
<1>1. /\ M \in Seq(Entries)
      /\ Len(M) = Len(L) + 1
      /\ \A i \in 1..Len(L) : M[i] = L[i]
      /\ M[Len(L) + 1] = e
  BY AppendProperties
<1> HIDE DEF M
<1> DEFINE Before(K, j) == {i \in 1..(j - 1) : K[i].cell = K[j].cell}
           Allowed(K, j) == IF K[j].state = "STARTED"
                            THEN Before(K, j) = {}
                            ELSE /\ Before(K, j) # {}
                                 /\ \A i \in Before(K, j) : K[i].state = "STARTED"
<1>d. \A K \in Seq(Entries) : WellFormed(K) <=> \A j \in 1..Len(K) : Allowed(K, j)
  <2> SUFFICES ASSUME NEW K \in Seq(Entries)
               PROVE  WellFormed(K) <=> \A j \in 1..Len(K) : Allowed(K, j)
    OBVIOUS
  <2>1. DOMAIN K = 1..Len(K)
    OBVIOUS
  <2>2. WellFormed(K) <=> \A j \in DOMAIN K : Allowed(K, j)
    BY Zenon DEF WellFormed
  <2> QED
    BY <2>1, <2>2, Zenon
<1> SUFFICES ASSUME NEW j \in 1..Len(M)
             PROVE  Allowed(M, j)
  <2>1. WellFormed(M) => WellFormed(Append(L, e))
    BY DEF M
  <2> QED
    BY <2>1, <1>d, <1>1
<1>2. CASE j \in 1..Len(L)
  <2>1. \A i \in 1..(j - 1) : M[i] = L[i]
    BY <1>1, <1>2
  <2>2. M[j] = L[j]
    BY <1>1, <1>2
  <2>3. Before(M, j) = Before(L, j)
    BY <2>1, <2>2
  <2>4. Allowed(L, j)
    BY <1>d, <1>2
  <2> QED
    BY <2>1, <2>2, <2>3, <2>4
<1>3. CASE j = Len(L) + 1
  BY <1>1, <1>3
<1> QED
  BY <1>1, <1>2, <1>3

(* What the reader makes of a ledger that grew by one record. *)
LEMMA ReadLedgerAppend ==
    ASSUME ledger \in Seq(Entries), NEW e \in Entries, ledger' = Append(ledger, e),
           WellFormed(ledger),
           \/ e.state = "STARTED" /\ ReadLedger[e.cell] = "ABSENT"
           \/ e.state # "STARTED" /\ ReadLedger[e.cell] = "STARTED"
    PROVE  /\ WellFormed(ledger')
           /\ ReadLedger' = [ReadLedger EXCEPT ![e.cell] = e.state]
<1>1. /\ e.cell \in Cells /\ e.state \in States
      /\ \A i \in 1..Len(ledger) : ledger[i].cell \in Cells /\ ledger[i].state \in States
  <2>1. \A i \in 1..Len(ledger) : ledger[i] \in Entries
    BY ElementOfSeq
  <2> QED
    BY <2>1 DEF Entries
<1>2. /\ DOMAIN ledger' = 1..(Len(ledger) + 1) /\ DOMAIN ledger = 1..Len(ledger)
      /\ \A i \in 1..Len(ledger) : ledger'[i] = ledger[i]
      /\ ledger'[Len(ledger) + 1] = e
  BY AppendProperties
<1>3. \A c, s : HasEntry(c, s)' <=> HasEntry(c, s) \/ (c = e.cell /\ s = e.state)
  BY <1>2 DEF HasEntry
<1>4. CASE e.state = "STARTED" /\ ReadLedger[e.cell] = "ABSENT"
  <2>1. \A s \in States : ~HasEntry(e.cell, s)
    BY <1>1, <1>4 DEF ReadLedger, States
  <2>2. \A i \in 1..Len(ledger) : ledger[i].cell # e.cell
    BY <1>1, <1>2, <2>1 DEF HasEntry
  <2>3. WellFormed(ledger')
    BY <1>4, <2>2, WellFormedAppend
  <2> QED
    BY <1>1, <1>3, <1>4, <2>1, <2>3 DEF ReadLedger, States
<1>5. CASE e.state # "STARTED" /\ ReadLedger[e.cell] = "STARTED"
  <2>1. /\ HasEntry(e.cell, "STARTED")
        /\ ~HasEntry(e.cell, "COMPLETED") /\ ~HasEntry(e.cell, "FAILED")
    BY <1>1, <1>5 DEF ReadLedger
  <2>2. /\ \E i \in 1..Len(ledger) : ledger[i].cell = e.cell
        /\ \A i \in 1..Len(ledger) : ledger[i].cell = e.cell => ledger[i].state = "STARTED"
    BY <1>1, <1>2, <2>1 DEF HasEntry, States
  <2>3. WellFormed(ledger')
    BY <1>5, <2>2, WellFormedAppend
  <2> QED
    BY <1>1, <1>3, <1>5, <2>1, <2>3 DEF ReadLedger, States
<1> QED
  BY <1>4, <1>5

(* A step that touches neither the ledger nor an attempt count, and does not *)
(* bring its process anywhere it was not already loaded or holding a cell.   *)
LEMMA QuietStep ==
    ASSUME LedgerInv, TypeOK, NEW r \in Runners,
           UNCHANGED <<ledger, attempts>>,
           \A q \in Runners \ {r} : pc'[q] = pc[q] /\ seen'[q] = seen[q] /\ cell'[q] = cell[q],
           pc'[r] \in Loaded => pc[r] \in Loaded /\ seen'[r] = seen[r],
           pc'[r] \in Holding => pc[r] \in Holding /\ cell'[r] = cell[r],
           pc'[r] # "evaluate"
    PROVE  LedgerInv'
<1>1. ReadLedger' = ReadLedger
  BY DEF ReadLedger, HasEntry
<1> QED
  BY <1>1 DEF LedgerInv

(* A process that appends knows the ledger: it starts a cell no line names,  *)
(* or settles the one in flight.                                             *)
LEMMA AppendKnows ==
    ASSUME SuiteAssumption, TypeOK, LedgerInv, NEW r \in Runners, Appending(r)
    PROVE  LET e == PendingEntry(r)
           IN  /\ e \in Entries
               /\ \/ e.state = "STARTED" /\ ReadLedger[e.cell] = "ABSENT"
                  \/ e.state # "STARTED" /\ ReadLedger[e.cell] = "STARTED"
<1>1. PendingEntry(r) \in Entries
  BY PendingEntryType
<1>2. CASE pc[r] = "next"
  <2>1. Unstarted(r) # {} /\ Unstarted(r) \in SUBSET Nat
    BY <1>2 DEF Appending, Unstarted, SuiteAssumption, TypeOK
  <2>2. seen[r][First(Unstarted(r))] = "ABSENT"
    BY <2>1, FirstInSet DEF Unstarted
  <2> QED
    BY <1>1, <1>2, <2>2 DEF PendingEntry, LedgerInv, Loaded
<1>3. CASE pc[r] = "settle"
  BY <1>1, <1>3 DEF PendingEntry, LedgerInv, Holding
<1>4. CASE pc[r] = "record"
  BY <1>1, <1>4 DEF PendingEntry, Terminated, LedgerInv, Holding
<1> QED
  BY <1>2, <1>3, <1>4 DEF Appending

(* A line reaches the ledger and its writer is gone, or remembers it.        *)
LEMMA AppendStep ==
    ASSUME SuiteAssumption, TypeOK, TypeOK', MutualExclusion, LedgerInv,
           NEW r \in Runners, Appending(r),
           ledger' = Append(ledger, PendingEntry(r)), UNCHANGED attempts,
           \A q \in Runners \ {r} : pc'[q] = pc[q],
           pc'[r] \in Loaded =>
              seen' = [seen EXCEPT ![r][PendingEntry(r).cell] = PendingEntry(r).state],
           pc'[r] \in Holding => /\ pc'[r] = "evaluate" /\ pc[r] = "next"
                                 /\ cell'[r] = PendingEntry(r).cell
    PROVE  LedgerInv'
<1> DEFINE e == PendingEntry(r)
<1>1. /\ e \in Entries /\ e.cell \in Cells /\ e.state \in States
      /\ \/ e.state = "STARTED" /\ ReadLedger[e.cell] = "ABSENT"
         \/ e.state # "STARTED" /\ ReadLedger[e.cell] = "STARTED"
  BY AppendKnows DEF Entries
<1>2. WellFormed(ledger') /\ ReadLedger' = [ReadLedger EXCEPT ![e.cell] = e.state]
  <2>1. ledger \in Seq(Entries) /\ WellFormed(ledger)
    BY DEF TypeOK, LedgerInv
  <2> QED
    BY <1>1, <2>1, ReadLedgerAppend
<1>3. ReadLedger \in [Cells -> States \cup {"ABSENT"}]
  BY DEF ReadLedger, States
<1>4. pc[r] \in Loaded /\ \A q \in Runners \ {r} : pc[q] = "idle"
  <2>1. pc[r] \in Loaded /\ InCriticalSection(r)
    BY DEF Appending, Loaded, InCriticalSection
  <2> QED
    BY <2>1, OthersIdle
<1>5. pc[r] = "next" => e.state = "STARTED"
  BY DEF PendingEntry
<1> HIDE DEF e
<1>6. \A q \in Runners : pc'[q] \in Loaded => seen'[q] = ReadLedger'
  <2>1. \A q \in Runners : pc'[q] \in Loaded => q = r
    BY <1>4 DEF Loaded
  <2>2. pc'[r] \in Loaded => seen'[r] = [seen[r] EXCEPT ![e.cell] = e.state]
    BY DEF e, TypeOK
  <2>3. seen[r] = ReadLedger
    BY <1>4 DEF LedgerInv
  <2> QED
    BY <2>1, <2>2, <2>3, <1>2
<1>7. \A q \in Runners : pc'[q] \in Holding => q = r
  BY <1>4 DEF Holding
<1>8. pc'[r] \in Holding => /\ pc'[r] = "evaluate" /\ cell'[r] = e.cell
                            /\ e.state = "STARTED"
  BY <1>5 DEF e
<1>9. pc'[r] \in Holding => ReadLedger'[cell'[r]] = "STARTED"
  BY <1>8, <1>1, <1>2, <1>3
<1>10. pc'[r] \in Holding => attempts'[cell'[r]] = 0
  <2>1. e.state = "STARTED" => ~(attempts[e.cell] > 0)
    BY <1>1 DEF LedgerInv
  <2>2. attempts[e.cell] \in Nat
    BY <1>1 DEF TypeOK
  <2>3. e.state = "STARTED" => attempts[e.cell] = 0
    BY <2>1, <2>2
  <2> QED
    BY <1>8, <2>3
<1>11. \A c \in Cells : attempts'[c] > 0 => ReadLedger'[c] # "ABSENT"
  BY <1>1, <1>2, <1>3 DEF LedgerInv, States
<1> QED
  BY <1>2, <1>6, <1>7, <1>9, <1>10, <1>11 DEF LedgerInv, Holding

(* Every action keeps ledger, memory and attempts in step. *)
LEMMA NextLedgerInv ==
    ASSUME SuiteAssumption, TypeOK, TypeOK', MutualExclusion, LedgerInv, [Next]_vars
    PROVE  LedgerInv'
<1> USE DEF disk, memory, history, Goto
<1>1. ASSUME NEW r \in Runners, NEW s \in Selectors,
             BeginPreflight(r, s) \/ BeginRun(r, s)
      PROVE  LedgerInv'
  <2>1. /\ UNCHANGED <<ledger, attempts, seen, cell>>
        /\ pc' = [pc EXCEPT ![r] = "preflight"] \/ pc' = [pc EXCEPT ![r] = "load"]
    BY <1>1 DEF BeginPreflight, BeginRun, TakeLock
  <2> QED
    BY <2>1, QuietStep DEF TypeOK, Loaded, Holding
<1>2. ASSUME NEW r \in Runners, Unwind(r)
      PROVE  LedgerInv'
  BY <1>2, QuietStep DEF Unwind, TypeOK, Loaded, Holding
<1>3. ASSUME NEW r \in Runners, Forget(r), UNCHANGED <<ledger, attempts>>
      PROVE  LedgerInv'
  BY <1>3, QuietStep DEF Forget, TypeOK, Loaded, Holding
<1>4. ASSUME NEW r \in Runners, Preflight(r)
      PROVE  LedgerInv'
  <2>1. CASE PreflightRefused(r)
    BY <2>1, <1>2 DEF PreflightRefused
  <2>2. CASE PreflightDoctor(r) \/ WriteProbe(r) \/ SealProbe(r)
    <3>1. /\ UNCHANGED <<ledger, attempts, seen, cell>>
          /\ \E label \in {"probe", "seal", "unwind"} : pc' = [pc EXCEPT ![r] = label]
      BY <2>2 DEF PreflightDoctor, WriteProbe, SealProbe
    <3> QED
      BY <3>1, QuietStep DEF TypeOK, Loaded, Holding
  <2> QED
    BY <1>4, <2>1, <2>2 DEF Preflight
<1>5. ASSUME NEW r \in Runners, Resume(r)
      PROVE  LedgerInv'
  <2>1. CASE LoadRefused(r) \/ WindowRefused(r)
    BY <2>1, <1>2 DEF LoadRefused, WindowRefused
  <2>2. CASE LoadSuite(r)
    <3>1. /\ UNCHANGED <<ledger, attempts, cell>>
          /\ pc' = [pc EXCEPT ![r] = "repair"]
          /\ seen' = [seen EXCEPT ![r] = ReadLedger]
      BY <2>2 DEF LoadSuite
    <3>2. ReadLedger' = ReadLedger
      BY <3>1 DEF ReadLedger, HasEntry
    <3> QED
      BY <3>1, <3>2 DEF LedgerInv, TypeOK, Loaded, Holding
  <2>3. CASE PreserveInterrupted(r)
    <3> DEFINE c == First(Interrupted(r))
    <3>1. c \in Cells /\ seen[r][c] = "STARTED"
      <4>1. Interrupted(r) \in SUBSET Nat /\ Interrupted(r) \in SUBSET Cells /\ Interrupted(r) # {}
        BY <2>3 DEF PreserveInterrupted, Interrupted, SuiteAssumption, TypeOK
      <4> QED
        BY <4>1, FirstInSet DEF Interrupted
    <3>2. /\ UNCHANGED <<ledger, attempts, seen>>
          /\ pc[r] = "repair"
          /\ cell' = [cell EXCEPT ![r] = c]
          /\ pc' = [pc EXCEPT ![r] = "settle"] \/ pc' = [pc EXCEPT ![r] = "replace"]
      BY <2>3 DEF PreserveInterrupted
    <3> HIDE DEF c
    <3>3. ReadLedger' = ReadLedger
      BY <3>2 DEF ReadLedger, HasEntry
    <3>4. ReadLedger[c] = "STARTED"
      BY <3>1, <3>2 DEF LedgerInv, Loaded
    <3> QED
      BY <3>1, <3>2, <3>3, <3>4 DEF LedgerInv, TypeOK, Loaded, Holding
  <2>4. CASE ReplaceInterrupted(r)
    BY <2>4, QuietStep DEF ReplaceInterrupted, TypeOK, Loaded, Holding
  <2>5. CASE SettleInterrupted(r)
    BY <2>5, AppendStep DEF SettleInterrupted, AppendEntry, Appending, TypeOK, Holding
  <2>6. CASE DecidePause(r)
    BY <2>6, QuietStep DEF DecidePause, TypeOK, Loaded, Holding
  <2> QED
    BY <1>5, <2>1, <2>2, <2>3, <2>4, <2>5, <2>6 DEF Resume
<1>6. ASSUME NEW r \in Runners, Execute(r)
      PROVE  LedgerInv'
  <2>1. CASE StartCell(r)
    BY <2>1, AppendStep DEF StartCell, AppendEntry, Appending, TypeOK, Holding
  <2>2. CASE BeginEvaluation(r)
    <3>1. /\ UNCHANGED <<ledger, seen, cell>>
          /\ pc[r] = "evaluate" /\ pc' = [pc EXCEPT ![r] = "evaluating"]
          /\ attempts' = [attempts EXCEPT ![cell[r]] = @ + 1]
      BY <2>2 DEF BeginEvaluation
    <3>2. cell[r] \in Cells /\ attempts[cell[r]] = 0 /\ ReadLedger[cell[r]] = "STARTED"
      BY <3>1 DEF LedgerInv, Holding, TypeOK
    <3>3. \A q \in Runners \ {r} : pc[q] = "idle"
      BY <3>1, OthersIdle DEF InCriticalSection
    <3>4. ReadLedger' = ReadLedger
      BY <3>1 DEF ReadLedger, HasEntry
    <3>5. attempts'[cell[r]] = 1 /\ \A c \in Cells \ {cell[r]} : attempts'[c] = attempts[c]
      BY <3>1, <3>2 DEF TypeOK
    <3>6. \A q \in Runners : pc'[q] # "evaluate"
      BY <3>1, <3>3 DEF TypeOK
    <3> QED
      BY <3>1, <3>2, <3>4, <3>5, <3>6 DEF LedgerInv, TypeOK, Loaded, Holding
  <2>3. CASE PublishEvaluation(r)
    BY <2>3, QuietStep DEF PublishEvaluation, TypeOK, Loaded, Holding
  <2>4. CASE EvaluationReturns(r)
    BY <2>4, QuietStep DEF EvaluationReturns, TypeOK, Loaded, Holding
  <2>5. CASE EvaluationRaises(r)
    BY <2>5, QuietStep DEF EvaluationRaises, TypeOK, Loaded, Holding
  <2>6. CASE MaterializeSetupError(r)
    BY <2>6, QuietStep DEF MaterializeSetupError, TypeOK, Loaded, Holding
  <2>7. CASE MaterializeRefused(r)
    BY <2>7, <1>2 DEF MaterializeRefused
  <2>8. CASE RecordTerminal(r)
    <3>1. /\ pc[r] = "record" /\ UNCHANGED attempts
          /\ ledger' = Append(ledger, PendingEntry(r))
          /\ seen' = [seen EXCEPT ![r][PendingEntry(r).cell] = PendingEntry(r).state]
          /\ pc' = [pc EXCEPT ![r] = "finish"] \/ pc' = [pc EXCEPT ![r] = "next"]
      BY <2>8 DEF RecordTerminal, AppendEntry
    <3> QED
      BY <3>1, AppendStep DEF Appending, TypeOK, Holding
  <2>9. CASE Finish(r)
    BY <2>9, QuietStep DEF Finish, TypeOK, Loaded, Holding
  <2> QED
    BY <1>6, <2>1, <2>2, <2>3, <2>4, <2>5, <2>6, <2>7, <2>8, <2>9 DEF Execute
<1>7. ASSUME NEW r \in Runners, Release(r)
      PROVE  LedgerInv'
  BY <1>7, <1>3 DEF Release
<1>8. ASSUME NEW r \in Runners, AppendRaises(r)
      PROVE  LedgerInv'
  BY <1>8, AppendStep DEF AppendRaises, TypeOK, Loaded, Holding
<1>9. ASSUME NEW r \in Runners, Kill(r)
      PROVE  LedgerInv'
  <2>1. CASE Crash(r) \/ CrashInPreflight(r) \/ CrashInMarker(r)
    BY <2>1, <1>3 DEF Crash, CrashInPreflight, CrashInMarker, Killed
  <2>2. CASE CrashInAppend(r) /\ UNCHANGED ledger
    BY <2>2, <1>3 DEF CrashInAppend, Killed
  <2>3. CASE CrashInAppend(r) /\ ledger' = Append(ledger, PendingEntry(r))
    BY <2>3, AppendStep DEF CrashInAppend, Killed, Forget, TypeOK, Loaded, Holding
  <2> QED
    BY <1>9, <2>1, <2>2, <2>3 DEF Kill, CrashInAppend
<1>10. CASE ClearStaleLock \/ MoveHead \/ UNCHANGED vars
  <2>1. UNCHANGED <<ledger, attempts, pc, seen, cell>>
    BY <1>10 DEF ClearStaleLock, MoveHead, vars
  <2>2. ReadLedger' = ReadLedger
    BY <2>1 DEF ReadLedger, HasEntry
  <2> QED
    BY <2>1, <2>2 DEF LedgerInv
<1> QED
  BY <1>1, <1>2, <1>4, <1>5, <1>6, <1>7, <1>8, <1>9, <1>10 DEF Next, Progress, Abort

(* What the theorems below rest on holds in every state a suite reaches.     *)
THEOREM LedgerInvHolds == Spec => []LedgerInv
<1>1. Init => LedgerInv
  BY DEF Init, LedgerInv, WellFormed, Loaded, Holding
<1>2. TypeOK /\ TypeOK' /\ MutualExclusion /\ LedgerInv /\ [Next]_vars => LedgerInv'
  BY SuiteAssumption, NextLedgerInv
<1> QED
  BY <1>1, <1>2, TypeCorrect, ExclusionHolds, PTL DEF Spec

(* A formal cell is evaluated at most once, however the processes of the     *)
(* suite are interleaved, cancelled, killed and resumed.                     *)
THEOREM AttemptOnce == Spec => []AtMostOneAttempt
<1>1. LedgerInv => AtMostOneAttempt
  BY DEF LedgerInv, AtMostOneAttempt
<1> QED
  BY <1>1, LedgerInvHolds, PTL

(* No process ever writes a record that the reader of a later one refuses.   *)
THEOREM LedgerReadableAlways == Spec => []LedgerStaysReadable
<1>1. LedgerInv => LedgerStaysReadable
  BY DEF LedgerInv, LedgerStaysReadable
<1> QED
  BY <1>1, LedgerInvHolds, PTL

-----------------------------------------------------------------------------
(* Admission *)

(* The receipts on disk allow cells to run. *)
Sealed ==
    /\ receipt \in Receipts /\ receipt.acceptable
    /\ receipt.selector # FullSuite => marker = receipt.selector
    /\ Planner => probe = "passed"

(* A process that has loaded the suite holds the receipt's selection and     *)
(* revision; a ledger that has lines was begun under it.                     *)
AdmissionInv ==
    /\ \A r \in Runners : pc[r] \in {"probe", "seal"} => ledger = <<>>
    /\ \A r \in Runners : pc[r] \in Loaded =>
          Sealed /\ receipt.selector = selector[r] /\ receipt.revision = loadedAt[r]
    /\ ledger # <<>> => Sealed
    /\ \A i \in 1..Len(ledger) : ledger[i].cell \in Selection[receipt.selector]
    /\ \A c \in Cells : attempts[c] > 0 => ranAt[c] = receipt.revision

(* A cell the reader knows has a line. *)
LEMMA KnownHasLine ==
    ASSUME TypeOK, NEW c \in Cells, ReadLedger[c] # "ABSENT"
    PROVE  /\ \E i \in 1..Len(ledger) : ledger[i].cell = c
           /\ ledger # <<>>
<1>1. \E s \in States : HasEntry(c, s)
  BY DEF ReadLedger, States
<1> QED
  BY <1>1 DEF HasEntry, TypeOK

(* A step that touches nothing the receipts speak about, of a process that   *)
(* was loaded if it is now.                                                  *)
LEMMA AdmissionQuiet ==
    ASSUME AdmissionInv, TypeOK, NEW r \in Runners,
           UNCHANGED <<receipt, probe, marker, ledger, attempts, ranAt>>,
           \A q \in Runners \ {r} : /\ pc'[q] = pc[q] /\ selector'[q] = selector[q]
                                    /\ loadedAt'[q] = loadedAt[q],
           pc'[r] \notin {"probe", "seal"},
           pc'[r] \in Loaded => /\ pc[r] \in Loaded
                                /\ selector'[r] = selector[r] /\ loadedAt'[r] = loadedAt[r]
    PROVE  AdmissionInv'
BY DEF AdmissionInv, Sealed

(* A line reaches the ledger: its cell belongs to the admitted selection. *)
LEMMA AdmissionAppend ==
    ASSUME SuiteAssumption, TypeOK, LedgerInv, AdmissionInv, NEW r \in Runners, Appending(r),
           ledger' = Append(ledger, PendingEntry(r)),
           UNCHANGED <<receipt, probe, marker, attempts, ranAt>>,
           MutualExclusion,
           \A q \in Runners \ {r} : pc'[q] = pc[q],
           pc'[r] \notin {"probe", "seal"},
           pc'[r] \in Loaded => selector'[r] = selector[r] /\ loadedAt'[r] = loadedAt[r]
    PROVE  AdmissionInv'
<1> DEFINE e == PendingEntry(r)
<1>1. e \in Entries
  BY PendingEntryType
<1>2. pc[r] \in Loaded
  BY DEF Appending, Loaded
<1>3. \A q \in Runners \ {r} : pc'[q] = "idle"
  BY <1>2, OthersIdle DEF Loaded, InCriticalSection
<1>4. e.cell \in Selection[selector[r]]
  <2>1. CASE pc[r] = "next"
    <3>1. Unstarted(r) # {} /\ Unstarted(r) \in SUBSET Nat
      BY <2>1 DEF Appending, Unstarted, SuiteAssumption, TypeOK
    <3>2. First(Unstarted(r)) \in Selection[selector[r]]
      BY <3>1, FirstInSet DEF Unstarted
    <3> QED
      BY <2>1, <3>2 DEF PendingEntry
  <2>2. CASE pc[r] \in {"settle", "record"}
    <3>1. e.cell = cell[r] /\ cell[r] \in Cells
      BY <2>2 DEF PendingEntry, TypeOK
    <3>2. ReadLedger[cell[r]] # "ABSENT"
      BY <2>2 DEF LedgerInv, Holding
    <3>3. PICK i \in 1..Len(ledger) : ledger[i].cell = cell[r]
      BY <3>1, <3>2, KnownHasLine
    <3> QED
      BY <1>2, <3>1, <3>3 DEF AdmissionInv
  <2> QED
    BY <2>1, <2>2 DEF Appending
<1>5. /\ Len(ledger') = Len(ledger) + 1
      /\ \A i \in 1..Len(ledger) : ledger'[i] = ledger[i]
      /\ ledger'[Len(ledger) + 1] = e
  BY <1>1, AppendProperties DEF TypeOK
<1> HIDE DEF e
<1>6. \A i \in 1..Len(ledger') : ledger'[i].cell \in Selection[receipt'.selector]
  <2>1. receipt.selector = selector[r]
    BY <1>2 DEF AdmissionInv
  <2>2. \A i \in 1..Len(ledger) : ledger[i].cell \in Selection[receipt.selector]
    BY DEF AdmissionInv
  <2>3. Len(ledger) \in Nat
    BY DEF TypeOK
  <2> QED
    BY <1>4, <1>5, <2>1, <2>2, <2>3
<1>7. Sealed /\ receipt.selector = selector[r] /\ receipt.revision = loadedAt[r]
  BY <1>2 DEF AdmissionInv
<1>8. Sealed'
  BY <1>7 DEF Sealed
<1> QED
  BY <1>3, <1>6, <1>7, <1>8 DEF AdmissionInv, Loaded

(* Every action keeps the suite under one receipt. *)
LEMMA NextAdmission ==
    ASSUME SuiteAssumption, TypeOK, TypeOK', MutualExclusion, LedgerInv, AdmissionInv,
           [Next]_vars
    PROVE  AdmissionInv'
<1> USE DEF disk, memory, history, Goto
<1>1. ASSUME NEW r \in Runners, NEW s \in Selectors,
             BeginPreflight(r, s) \/ BeginRun(r, s)
      PROVE  AdmissionInv'
  <2>1. /\ UNCHANGED <<receipt, probe, marker, ledger, attempts, ranAt, loadedAt>>
        /\ pc' = [pc EXCEPT ![r] = "preflight"] \/ pc' = [pc EXCEPT ![r] = "load"]
        /\ selector' = [selector EXCEPT ![r] = s]
    BY <1>1 DEF BeginPreflight, BeginRun, TakeLock
  <2> QED
    BY <2>1, AdmissionQuiet DEF TypeOK, Loaded
<1>2. ASSUME NEW r \in Runners, Unwind(r)
      PROVE  AdmissionInv'
  BY <1>2, AdmissionQuiet DEF Unwind, TypeOK, Loaded
<1>3. ASSUME NEW r \in Runners, Forget(r),
             UNCHANGED <<receipt, probe, marker, ledger, attempts, ranAt>>
      PROVE  AdmissionInv'
  BY <1>3, AdmissionQuiet DEF Forget, TypeOK, Loaded
<1>4. ASSUME NEW r \in Runners, Preflight(r)
      PROVE  AdmissionInv'
  <2>1. CASE PreflightRefused(r)
    BY <2>1, <1>2 DEF PreflightRefused
  <2>2. CASE PreflightDoctor(r)
    <3>1. \A q \in Runners \ {r} : pc[q] = "idle"
      BY <2>2, OthersIdle DEF PreflightDoctor, InCriticalSection
    <3>2. /\ UNCHANGED <<ledger, attempts, ranAt>> /\ ledger = <<>>
          /\ \E label \in {"probe", "unwind"} : pc' = [pc EXCEPT ![r] = label]
      BY <2>2 DEF PreflightDoctor, Untouched
    <3>3. \A c \in Cells : ~(attempts[c] > 0)
      BY <3>2, KnownHasLine DEF LedgerInv
    <3> QED
      BY <3>1, <3>2, <3>3 DEF AdmissionInv, TypeOK, Loaded
  <2>3. CASE WriteProbe(r) \/ SealProbe(r)
    <3>1. \A q \in Runners \ {r} : pc[q] = "idle"
      BY <2>3, OthersIdle DEF WriteProbe, SealProbe, InCriticalSection
    <3>2. /\ UNCHANGED <<ledger, receipt, attempts, ranAt>> /\ ledger = <<>>
          /\ \E label \in {"seal", "unwind"} : pc' = [pc EXCEPT ![r] = label]
      BY <2>3 DEF WriteProbe, SealProbe, AdmissionInv
    <3> QED
      BY <3>1, <3>2 DEF AdmissionInv, TypeOK, Loaded
  <2> QED
    BY <1>4, <2>1, <2>2, <2>3 DEF Preflight
<1>5. ASSUME NEW r \in Runners, Resume(r)
      PROVE  AdmissionInv'
  <2>1. CASE LoadRefused(r) \/ WindowRefused(r)
    BY <2>1, <1>2 DEF LoadRefused, WindowRefused
  <2>2. CASE LoadSuite(r)
    <3>1. \A q \in Runners \ {r} : pc[q] = "idle"
      BY <2>2, OthersIdle DEF LoadSuite, InCriticalSection
    <3>2. /\ UNCHANGED <<ledger, receipt, probe, attempts, ranAt, selector>>
          /\ pc' = [pc EXCEPT ![r] = "repair"]
          /\ loadedAt' = [loadedAt EXCEPT ![r] = receipt.revision]
          /\ receipt.selector = selector[r] /\ receipt.acceptable /\ receipt \in Receipts
          /\ selector[r] # FullSuite => marker' = selector[r]
          /\ Planner => probe = "passed"
      BY <2>2 DEF LoadSuite, SuiteAdmits, ReceiptAdmits, TypeOK
    <3>3. Sealed'
      <4>1. receipt' = receipt /\ probe' = probe
        BY <3>2
      <4>2. receipt.selector # FullSuite => marker' = receipt.selector
        BY <3>2
      <4>3. Planner => probe = "passed"
        BY <3>2
      <4>4. receipt \in Receipts /\ receipt.acceptable
        BY <3>2
      <4> QED
        BY <4>1, <4>2, <4>3, <4>4 DEF Sealed
    <3>4. pc'[r] = "repair" /\ \A q \in Runners \ {r} : pc'[q] = "idle"
      BY <3>1, <3>2 DEF TypeOK
    <3>5. receipt'.selector = selector'[r] /\ receipt'.revision = loadedAt'[r]
      BY <3>2 DEF TypeOK
    <3> QED
      BY <3>2, <3>3, <3>4, <3>5 DEF AdmissionInv, Loaded
  <2>3. CASE PreserveInterrupted(r)
    <3>1. /\ pc[r] = "repair"
          /\ UNCHANGED <<receipt, probe, marker, ledger, attempts, ranAt, selector, loadedAt>>
          /\ pc' = [pc EXCEPT ![r] = "settle"] \/ pc' = [pc EXCEPT ![r] = "replace"]
      BY <2>3 DEF PreserveInterrupted
    <3> QED
      BY <3>1, AdmissionQuiet DEF TypeOK, Loaded
  <2>4. CASE ReplaceInterrupted(r)
    BY <2>4, AdmissionQuiet DEF ReplaceInterrupted, TypeOK, Loaded
  <2>5. CASE SettleInterrupted(r)
    BY <2>5, AdmissionAppend DEF SettleInterrupted, AppendEntry, Appending, TypeOK
  <2>6. CASE DecidePause(r)
    BY <2>6, AdmissionQuiet DEF DecidePause, TypeOK, Loaded
  <2> QED
    BY <1>5, <2>1, <2>2, <2>3, <2>4, <2>5, <2>6 DEF Resume
<1>6. ASSUME NEW r \in Runners, Execute(r)
      PROVE  AdmissionInv'
  <2>1. CASE StartCell(r)
    BY <2>1, AdmissionAppend DEF StartCell, AppendEntry, Appending, TypeOK
  <2>2. CASE BeginEvaluation(r)
    <3>1. \A q \in Runners \ {r} : pc[q] = "idle"
      BY <2>2, OthersIdle DEF BeginEvaluation, InCriticalSection
    <3>2. /\ UNCHANGED <<ledger, receipt, probe, marker, selector, loadedAt>>
          /\ pc[r] = "evaluate" /\ pc' = [pc EXCEPT ![r] = "evaluating"]
          /\ attempts' = [attempts EXCEPT ![cell[r]] = @ + 1]
          /\ ranAt' = [ranAt EXCEPT ![cell[r]] = loadedAt[r]]
      BY <2>2 DEF BeginEvaluation
    <3>3. loadedAt[r] = receipt.revision
      BY <3>2 DEF AdmissionInv, Loaded
    <3>4. \A c \in Cells : attempts'[c] > 0 => ranAt'[c] = receipt'.revision
      BY <3>2, <3>3 DEF AdmissionInv, TypeOK
    <3>5. Sealed' <=> Sealed
      BY <3>2 DEF Sealed
    <3> QED
      BY <3>1, <3>2, <3>4, <3>5 DEF AdmissionInv, TypeOK, Loaded
  <2>3. CASE PublishEvaluation(r)
    BY <2>3, AdmissionQuiet DEF PublishEvaluation, TypeOK, Loaded
  <2>4. CASE EvaluationReturns(r)
    BY <2>4, AdmissionQuiet DEF EvaluationReturns, TypeOK, Loaded
  <2>5. CASE EvaluationRaises(r)
    BY <2>5, AdmissionQuiet DEF EvaluationRaises, TypeOK, Loaded
  <2>6. CASE MaterializeSetupError(r)
    BY <2>6, AdmissionQuiet DEF MaterializeSetupError, TypeOK, Loaded
  <2>7. CASE MaterializeRefused(r)
    BY <2>7, <1>2 DEF MaterializeRefused
  <2>8. CASE RecordTerminal(r)
    <3>1. /\ pc[r] = "record"
          /\ UNCHANGED <<receipt, probe, marker, attempts, ranAt, selector, loadedAt>>
          /\ ledger' = Append(ledger, PendingEntry(r))
          /\ pc' = [pc EXCEPT ![r] = "finish"] \/ pc' = [pc EXCEPT ![r] = "next"]
      BY <2>8 DEF RecordTerminal, AppendEntry
    <3> QED
      BY <3>1, AdmissionAppend DEF Appending, TypeOK
  <2>9. CASE Finish(r)
    BY <2>9, AdmissionQuiet DEF Finish, TypeOK, Loaded
  <2> QED
    BY <1>6, <2>1, <2>2, <2>3, <2>4, <2>5, <2>6, <2>7, <2>8, <2>9 DEF Execute
<1>7. ASSUME NEW r \in Runners, Release(r)
      PROVE  AdmissionInv'
  BY <1>7, <1>3 DEF Release
<1>8. ASSUME NEW r \in Runners, AppendRaises(r)
      PROVE  AdmissionInv'
  BY <1>8, AdmissionAppend DEF AppendRaises, TypeOK
<1>9. ASSUME NEW r \in Runners, Kill(r)
      PROVE  AdmissionInv'
  <2>1. CASE Crash(r) \/ CrashInPreflight(r)
    BY <2>1, <1>3 DEF Crash, CrashInPreflight, Killed
  <2>4. CASE CrashInAppend(r) /\ UNCHANGED ledger
    BY <2>4, <1>3 DEF CrashInAppend, Killed
  <2>2. CASE CrashInAppend(r) /\ ledger' = Append(ledger, PendingEntry(r))
    BY <2>2, AdmissionAppend DEF CrashInAppend, Killed, Forget, TypeOK, Loaded
  <2>3. CASE CrashInMarker(r)
    <3>1. ledger = <<>>
      <4>1. receipt.selector = selector[r] /\ selector[r] # FullSuite /\ marker = "none"
            /\ selector[r] \in Selectors
        BY <2>3 DEF CrashInMarker, SuiteAdmits, ReceiptAdmits, TypeOK
      <4>2. "none" \notin Selectors
        BY DEF SuiteAssumption
      <4> QED
        BY <4>1, <4>2 DEF AdmissionInv, Sealed
    <3>2. \A q \in Runners \ {r} : pc[q] = "idle"
      BY <2>3, OthersIdle DEF CrashInMarker, InCriticalSection
    <3>3. pc' = [pc EXCEPT ![r] = "idle"] /\ UNCHANGED <<ledger, receipt, attempts, ranAt>>
      BY <2>3 DEF CrashInMarker, Killed, Forget
    <3> QED
      BY <3>1, <3>2, <3>3 DEF AdmissionInv, TypeOK, Loaded
  <2> QED
    BY <1>9, <2>1, <2>2, <2>3, <2>4 DEF Kill, CrashInAppend
<1>10. CASE ClearStaleLock \/ MoveHead \/ UNCHANGED vars
  <2>1. UNCHANGED <<receipt, probe, marker, ledger, attempts, ranAt, pc, selector, loadedAt>>
    BY <1>10 DEF ClearStaleLock, MoveHead, vars
  <2> QED
    BY <2>1 DEF AdmissionInv, Sealed
<1> QED
  BY <1>1, <1>2, <1>4, <1>5, <1>6, <1>7, <1>8, <1>9, <1>10 DEF Next, Progress, Abort

(* Whatever entered the ledger was admitted by one receipt. *)
THEOREM AdmissionInvHolds == Spec => []AdmissionInv
<1>1. Init => AdmissionInv
  BY DEF Init, AdmissionInv, Loaded
<1>2. TypeOK /\ TypeOK' /\ MutualExclusion /\ LedgerInv /\ AdmissionInv /\ [Next]_vars
         => AdmissionInv'
  BY SuiteAssumption, NextAdmission
<1> QED
  BY <1>1, <1>2, TypeCorrect, ExclusionHolds, LedgerInvHolds, PTL DEF Spec

(* All evaluations of a suite ran at one revision and within one selection,  *)
(* whose receipt was acceptable, although the checkout moves between runs.   *)
THEOREM AdmittedAlways == Spec => []AdmittedByOneReceipt
<1>1. TypeOK /\ AdmissionInv => AdmittedByOneReceipt
  BY KnownHasLine DEF AdmissionInv, Sealed, AdmittedByOneReceipt
<1> QED
  BY <1>1, TypeCorrect, AdmissionInvHolds, PTL

(* No cell of a planner comparison is in the ledger unless its probe passed. *)
THEOREM ProbedAlways == Spec => []ProbedBeforeFirstCell
<1>1. AdmissionInv => ProbedBeforeFirstCell
  BY SuiteAssumption
  DEF AdmissionInv, Sealed, ProbedBeforeFirstCell, Receipts, SuiteAssumption
<1> QED
  BY <1>1, AdmissionInvHolds, PTL

-----------------------------------------------------------------------------
(* Bundles *)

(* What a process relies on about the bundle of the cell it works on. *)
BundleAt(r) ==
    /\ pc[r] = "scoring" => outcome[r] \in Verdicts /\ artifact[cell[r]] = outcome[r]
    /\ pc[r] = "record" => outcome[r] \in Bundles /\ artifact[cell[r]] = outcome[r]
    /\ pc[r] = "settle" => artifact[cell[r]] = "setup"
    /\ pc[r] = "replace" => artifact[cell[r]] = "none"
    /\ pc[r] \in {"evaluate", "evaluating"} => preserved[cell[r]] = "none"

(* A bundle was moved aside only for a cell that has started, and nothing    *)
(* but a setup failure takes its place.                                      *)
SparesAt(c) ==
    /\ preserved[c] # "none" => artifact[c] \in {"none", "setup"}
    /\ ReadLedger[c] = "ABSENT" => preserved[c] = "none"

BundleInv ==
    /\ RecordMatchesBundle
    /\ \A r \in Runners : BundleAt(r)
    /\ \A c \in Cells : SparesAt(c)

(* A cell in flight has no terminal line. *)
LEMMA InFlightUnsettled ==
    ASSUME TypeOK, NEW c \in Cells, ReadLedger[c] = "STARTED"
    PROVE  \A i \in DOMAIN ledger : ledger[i].cell = c => ledger[i].state = "STARTED"
<1>1. ~HasEntry(c, "COMPLETED") /\ ~HasEntry(c, "FAILED")
  BY DEF ReadLedger
<1>2. \A i \in DOMAIN ledger : ledger[i].state \in States
  <2>1. \A i \in 1..Len(ledger) : ledger[i] \in Entries
    BY ElementOfSeq DEF TypeOK
  <2>2. DOMAIN ledger = 1..Len(ledger)
    BY DEF TypeOK
  <2> QED
    BY <2>1, <2>2 DEF Entries
<1> QED
  BY <1>1, <1>2 DEF HasEntry, States

(* A step of one process that leaves ledger and bundles alone. *)
LEMMA BundleQuiet ==
    ASSUME BundleInv, NEW r \in Runners,
           UNCHANGED <<ledger, artifact, preserved>>,
           \A q \in Runners \ {r} : /\ pc'[q] = pc[q] /\ outcome'[q] = outcome[q]
                                    /\ cell'[q] = cell[q],
           BundleAt(r)'
    PROVE  BundleInv'
<1>1. ReadLedger' = ReadLedger
  BY DEF ReadLedger, HasEntry
<1>2. \A q \in Runners : BundleAt(q)'
  BY DEF BundleInv, BundleAt
<1>3. \A c \in Cells : SparesAt(c)'
  BY <1>1 DEF BundleInv, SparesAt
<1>4. RecordMatchesBundle'
  BY DEF BundleInv, RecordMatchesBundle
<1> QED
  BY <1>2, <1>3, <1>4 DEF BundleInv

(* A step that writes or moves the bundle of a cell in flight. *)
LEMMA BundleMoves ==
    ASSUME TypeOK, BundleInv, NEW r \in Runners, NEW c \in Cells,
           ReadLedger[c] = "STARTED", UNCHANGED ledger,
           \A q \in Runners \ {r} : pc'[q] = "idle",
           \A d \in Cells \ {c} : artifact'[d] = artifact[d] /\ preserved'[d] = preserved[d],
           preserved'[c] # "none" => artifact'[c] \in {"none", "setup"},
           BundleAt(r)'
    PROVE  BundleInv'
<1>1. ReadLedger' = ReadLedger
  BY DEF ReadLedger, HasEntry
<1>2. \A q \in Runners : BundleAt(q)'
  BY DEF BundleAt
<1>3. \A d \in Cells : SparesAt(d)'
  BY <1>1 DEF BundleInv, SparesAt
<1>4. RecordMatchesBundle'
  <2>1. \A i \in DOMAIN ledger : ledger[i] \in Entries
    <3>1. \A i \in 1..Len(ledger) : ledger[i] \in Entries
      BY ElementOfSeq DEF TypeOK
    <3> QED
      BY <3>1 DEF TypeOK
  <2>2. \A i \in DOMAIN ledger : ledger[i].cell = c => ledger[i].state = "STARTED"
    BY InFlightUnsettled
  <2>3. \A i \in DOMAIN ledger : ledger[i].cell # c =>
            ledger[i].cell \in Cells \ {c}
    BY <2>1 DEF Entries
  <2> QED
    BY <2>2, <2>3 DEF BundleInv, RecordMatchesBundle
<1> QED
  BY <1>2, <1>3, <1>4 DEF BundleInv

(* A line reaches the ledger, and its cell's bundle agrees with it. *)
LEMMA BundleAppend ==
    ASSUME SuiteAssumption, TypeOK, MutualExclusion, LedgerInv, BundleInv,
           NEW r \in Runners, Appending(r),
           ledger' = Append(ledger, PendingEntry(r)), UNCHANGED <<artifact, preserved>>,
           \A q \in Runners \ {r} : pc'[q] = pc[q],
           \/ pc'[r] \in {"idle", "unwind", "repair", "next", "finish"}
           \/ /\ pc'[r] = "evaluate" /\ pc[r] = "next"
              /\ cell'[r] = PendingEntry(r).cell
    PROVE  BundleInv'
<1> DEFINE e == PendingEntry(r)
<1>1. /\ e \in Entries /\ e.cell \in Cells /\ e.state \in States
      /\ \/ e.state = "STARTED" /\ ReadLedger[e.cell] = "ABSENT"
         \/ e.state # "STARTED" /\ ReadLedger[e.cell] = "STARTED"
  BY AppendKnows DEF Entries
<1>2. ReadLedger' = [ReadLedger EXCEPT ![e.cell] = e.state]
  <2>1. ledger \in Seq(Entries) /\ WellFormed(ledger)
    BY DEF TypeOK, LedgerInv
  <2> QED
    BY <1>1, <2>1, ReadLedgerAppend
<1>3. \A q \in Runners \ {r} : pc'[q] = "idle"
  <2>1. InCriticalSection(r)
    BY DEF Appending, InCriticalSection
  <2> QED
    BY <2>1, OthersIdle
<1>4. pc[r] = "next" => e.state = "STARTED"
  BY DEF PendingEntry
<1>5. /\ e.state = "COMPLETED" => artifact[e.cell] \in PassedBundles
      /\ e.state = "FAILED" /\ e.reason = "RUN_SETUP_ERROR" => artifact[e.cell] = "setup"
      /\ e.state = "FAILED" /\ e.reason = "EVALUATION_FAILED"
            => artifact[e.cell] \in {"failed", "environmentFailed"}
  <2>0. BundleAt(r)
    BY DEF BundleInv
  <2>1. CASE pc[r] = "next"
    BY <1>4, <2>1
  <2>2. CASE pc[r] = "settle"
    BY <2>0, <2>2 DEF PendingEntry, BundleAt
  <2>3. CASE pc[r] = "record"
    <3>1. artifact[e.cell] = outcome[r] /\ outcome[r] \in Bundles
      BY <2>0, <2>3 DEF PendingEntry, BundleAt
    <3>2. /\ e.state = IF outcome[r] \in PassedBundles THEN "COMPLETED" ELSE "FAILED"
          /\ e.reason = CASE outcome[r] \in PassedBundles -> "none"
                          [] outcome[r] = "setup" -> "RUN_SETUP_ERROR"
                          [] OTHER -> "EVALUATION_FAILED"
      BY <2>3 DEF PendingEntry, Terminated
    <3> QED
      BY <3>1, <3>2 DEF Bundles, PassedBundles, Verdicts
  <2> QED
    BY <2>1, <2>2, <2>3 DEF Appending
<1>6. /\ DOMAIN ledger' = 1..(Len(ledger) + 1) /\ DOMAIN ledger = 1..Len(ledger)
      /\ \A i \in 1..Len(ledger) : ledger'[i] = ledger[i]
      /\ ledger'[Len(ledger) + 1] = e
  BY <1>1, AppendProperties DEF TypeOK
<1>7. Len(ledger) \in Nat
  BY DEF TypeOK
<1> HIDE DEF e
<1>8. RecordMatchesBundle'
  <2>1. SUFFICES ASSUME NEW i \in DOMAIN ledger'
                 PROVE  LET f == ledger'[i]
                        IN  /\ f.state = "COMPLETED" => artifact[f.cell] \in PassedBundles
                            /\ f.state = "FAILED" /\ f.reason = "RUN_SETUP_ERROR"
                                  => artifact[f.cell] = "setup"
                            /\ f.state = "FAILED" /\ f.reason = "EVALUATION_FAILED"
                                  => artifact[f.cell] \in {"failed", "environmentFailed"}
    BY DEF RecordMatchesBundle
  <2>2. CASE i \in 1..Len(ledger)
    BY <1>6, <2>2 DEF BundleInv, RecordMatchesBundle
  <2>3. CASE i = Len(ledger) + 1
    BY <1>5, <1>6, <2>3
  <2> QED
    BY <1>6, <1>7, <2>2, <2>3
<1>9. \A q \in Runners : BundleAt(q)'
  <2>1. pc'[r] = "evaluate" => preserved[cell'[r]] = "none"
    <3>1. pc'[r] = "evaluate" => cell'[r] = e.cell /\ e.state = "STARTED"
      BY <1>4 DEF e
    <3>2. e.state = "STARTED" => preserved[e.cell] = "none"
      BY <1>1 DEF BundleInv, SparesAt
    <3> QED
      BY <3>1, <3>2
  <2> QED
    BY <1>3, <2>1 DEF BundleAt
<1>10. \A c \in Cells : SparesAt(c)'
  BY <1>1, <1>2 DEF BundleInv, SparesAt, States, ReadLedger
<1> QED
  BY <1>8, <1>9, <1>10 DEF BundleInv

(* Every action keeps the lines and the bundles in step. *)
LEMMA NextBundle ==
    ASSUME SuiteAssumption, TypeOK, TypeOK', MutualExclusion, LedgerInv, BundleInv, [Next]_vars
    PROVE  BundleInv'
<1> USE DEF disk, memory, history, Goto
<1>1. ASSUME NEW r \in Runners,
             UNCHANGED <<ledger, artifact, preserved, outcome, cell>>,
             \E label \in {"preflight", "probe", "seal", "load", "repair", "next", "finish",
                           "setupError", "unwind"} : pc' = [pc EXCEPT ![r] = label]
      PROVE  BundleInv'
  BY <1>1, BundleQuiet DEF TypeOK, BundleAt
<1>2. ASSUME NEW r \in Runners, Unwind(r)
      PROVE  BundleInv'
  BY <1>1, <1>2 DEF Unwind
<1>3. ASSUME NEW r \in Runners, Forget(r), UNCHANGED <<ledger, artifact, preserved>>
      PROVE  BundleInv'
  BY <1>3, BundleQuiet DEF Forget, TypeOK, BundleAt
<1>4. ASSUME NEW r \in Runners, NEW s \in Selectors,
             BeginPreflight(r, s) \/ BeginRun(r, s)
      PROVE  BundleInv'
  BY <1>1, <1>4 DEF BeginPreflight, BeginRun, TakeLock
<1>5. ASSUME NEW r \in Runners, Preflight(r)
      PROVE  BundleInv'
  <2>1. CASE PreflightRefused(r)
    BY <2>1, <1>2 DEF PreflightRefused
  <2>2. CASE PreflightDoctor(r) \/ WriteProbe(r) \/ SealProbe(r)
    <3>1. /\ UNCHANGED <<ledger, artifact, preserved, outcome, cell>>
          /\ \E label \in {"probe", "seal", "unwind"} : pc' = [pc EXCEPT ![r] = label]
      BY <2>2 DEF PreflightDoctor, WriteProbe, SealProbe
    <3> QED
      BY <1>1, <3>1
  <2> QED
    BY <1>5, <2>1, <2>2 DEF Preflight
<1>6. ASSUME NEW r \in Runners, Resume(r)
      PROVE  BundleInv'
  <2>1. CASE LoadRefused(r) \/ WindowRefused(r)
    BY <2>1, <1>2 DEF LoadRefused, WindowRefused
  <2>2. CASE LoadSuite(r) \/ DecidePause(r)
    <3>1. /\ UNCHANGED <<ledger, artifact, preserved, outcome, cell>>
          /\ \E label \in {"repair", "next", "finish"} : pc' = [pc EXCEPT ![r] = label]
      BY <2>2 DEF LoadSuite, DecidePause
    <3> QED
      BY <1>1, <3>1
  <2>3. CASE PreserveInterrupted(r)
    <3> DEFINE c == First(Interrupted(r))
    <3>1. c \in Cells /\ seen[r][c] = "STARTED"
      <4>1. Interrupted(r) \in SUBSET Nat /\ Interrupted(r) \in SUBSET Cells /\ Interrupted(r) # {}
        BY <2>3 DEF PreserveInterrupted, Interrupted, SuiteAssumption, TypeOK
      <4> QED
        BY <4>1, FirstInSet DEF Interrupted
    <3>2. pc[r] = "repair" /\ UNCHANGED ledger
          /\ cell' = [cell EXCEPT ![r] = c]
      BY <2>3 DEF PreserveInterrupted
    <3>3. \/ /\ artifact[c] = "setup" /\ UNCHANGED <<artifact, preserved>>
             /\ pc' = [pc EXCEPT ![r] = "settle"]
          \/ /\ artifact[c] # "setup"
             /\ preserved' = [preserved EXCEPT ![c] = KeptAside(c)]
             /\ artifact' = [artifact EXCEPT ![c] = "none"]
             /\ pc' = [pc EXCEPT ![r] = "replace"]
      BY <2>3 DEF PreserveInterrupted
    <3>4. \A q \in Runners \ {r} : pc[q] = "idle"
      BY <3>2, OthersIdle DEF InCriticalSection
    <3>5. ReadLedger[c] = "STARTED"
      BY <3>1, <3>2 DEF LedgerInv, Loaded
    <3> HIDE DEF c
    <3>6. BundleAt(r)'
      BY <3>1, <3>2, <3>3 DEF TypeOK, BundleAt
    <3>7. preserved'[c] # "none" => artifact'[c] \in {"none", "setup"}
      BY <3>1, <3>3 DEF TypeOK
    <3>8. \A d \in Cells \ {c} : artifact'[d] = artifact[d] /\ preserved'[d] = preserved[d]
      BY <3>1, <3>3 DEF TypeOK
    <3>9. \A q \in Runners \ {r} : pc'[q] = "idle"
      BY <3>3, <3>4 DEF TypeOK
    <3> QED
      BY <3>1, <3>2, <3>5, <3>6, <3>7, <3>8, <3>9, BundleMoves
  <2>4. CASE ReplaceInterrupted(r)
    <3>1. /\ pc[r] = "replace" /\ UNCHANGED <<ledger, preserved, cell>>
          /\ artifact' = [artifact EXCEPT ![cell[r]] = "setup"]
          /\ pc' = [pc EXCEPT ![r] = "settle"]
          /\ cell[r] \in Cells
      BY <2>4 DEF ReplaceInterrupted, TypeOK
    <3>2. \A q \in Runners \ {r} : pc'[q] = "idle"
      BY <3>1, OthersIdle DEF InCriticalSection, TypeOK
    <3>3. ReadLedger[cell[r]] = "STARTED"
      BY <3>1 DEF LedgerInv, Holding
    <3>4. BundleAt(r)' /\ artifact'[cell[r]] = "setup"
      BY <3>1 DEF BundleAt, TypeOK
    <3>5. \A d \in Cells \ {cell[r]} : artifact'[d] = artifact[d] /\ preserved'[d] = preserved[d]
      BY <3>1 DEF TypeOK
    <3> QED
      BY <3>1, <3>2, <3>3, <3>4, <3>5, BundleMoves
  <2>5. CASE SettleInterrupted(r)
    BY <2>5, BundleAppend DEF SettleInterrupted, AppendEntry, Appending, TypeOK
  <2> QED
    BY <1>6, <2>1, <2>2, <2>3, <2>4, <2>5 DEF Resume
<1>7. ASSUME NEW r \in Runners, Execute(r)
      PROVE  BundleInv'
  <2>1. CASE StartCell(r)
    <3>1. /\ pc[r] = "next" /\ Appending(r) /\ UNCHANGED <<artifact, preserved>>
          /\ ledger' = Append(ledger, PendingEntry(r))
          /\ cell' = [cell EXCEPT ![r] = PendingEntry(r).cell]
          /\ pc' = [pc EXCEPT ![r] = "evaluate"]
      BY <2>1 DEF StartCell, AppendEntry, Appending
    <3> QED
      BY <3>1, BundleAppend DEF TypeOK
  <2>2. CASE BeginEvaluation(r)
    <3>1. /\ UNCHANGED <<ledger, artifact, preserved, outcome, cell>>
          /\ pc[r] = "evaluate" /\ pc' = [pc EXCEPT ![r] = "evaluating"]
      BY <2>2 DEF BeginEvaluation
    <3>2. BundleAt(r)'
      BY <3>1 DEF BundleInv, BundleAt, TypeOK
    <3> QED
      BY <3>1, <3>2, BundleQuiet DEF TypeOK
  <2>3. CASE PublishEvaluation(r)
    <3>1. PICK verdict \in Verdicts :
             /\ artifact' = [artifact EXCEPT ![cell[r]] = verdict]
             /\ outcome' = [outcome EXCEPT ![r] = verdict]
      BY <2>3 DEF PublishEvaluation
    <3>2. /\ pc[r] = "evaluating" /\ UNCHANGED <<ledger, preserved, cell>>
          /\ pc' = [pc EXCEPT ![r] = "scoring"]
          /\ cell[r] \in Cells
      BY <2>3 DEF PublishEvaluation, TypeOK
    <3>3. preserved[cell[r]] = "none"
      BY <3>2 DEF BundleInv, BundleAt
    <3>4. \A q \in Runners \ {r} : pc'[q] = "idle"
      BY <3>2, OthersIdle DEF InCriticalSection, TypeOK
    <3>5. ReadLedger[cell[r]] = "STARTED"
      BY <3>2 DEF LedgerInv, Holding
    <3>6. BundleAt(r)'
      BY <3>1, <3>2 DEF BundleAt, TypeOK
    <3>7. \A d \in Cells \ {cell[r]} : artifact'[d] = artifact[d] /\ preserved'[d] = preserved[d]
      BY <3>1, <3>2 DEF TypeOK
    <3> QED
      BY <3>2, <3>3, <3>4, <3>5, <3>6, <3>7, BundleMoves
  <2>4. CASE EvaluationReturns(r)
    <3>1. /\ UNCHANGED <<ledger, artifact, preserved, outcome, cell>>
          /\ pc[r] = "scoring" /\ pc' = [pc EXCEPT ![r] = "record"]
      BY <2>4 DEF EvaluationReturns
    <3>2. BundleAt(r)'
      BY <3>1 DEF BundleInv, BundleAt, TypeOK, Bundles
    <3> QED
      BY <3>1, <3>2, BundleQuiet DEF TypeOK
  <2>5. CASE EvaluationRaises(r)
    BY <2>5, <1>1 DEF EvaluationRaises
  <2>6. CASE MaterializeSetupError(r)
    <3>1. /\ pc[r] = "setupError" /\ UNCHANGED <<ledger, preserved, cell>>
          /\ artifact' = [artifact EXCEPT ![cell[r]] = "setup"]
          /\ outcome' = [outcome EXCEPT ![r] = "setup"]
          /\ pc' = [pc EXCEPT ![r] = "record"]
          /\ cell[r] \in Cells
      BY <2>6 DEF MaterializeSetupError, TypeOK
    <3>2. \A q \in Runners \ {r} : pc'[q] = "idle"
      BY <3>1, OthersIdle DEF InCriticalSection, TypeOK
    <3>3. ReadLedger[cell[r]] = "STARTED"
      BY <3>1 DEF LedgerInv, Holding
    <3>4. BundleAt(r)' /\ artifact'[cell[r]] = "setup"
      BY <3>1 DEF BundleAt, TypeOK, Bundles
    <3>5. \A d \in Cells \ {cell[r]} : artifact'[d] = artifact[d] /\ preserved'[d] = preserved[d]
      BY <3>1 DEF TypeOK
    <3> QED
      BY <3>1, <3>2, <3>3, <3>4, <3>5, BundleMoves
  <2>7. CASE MaterializeRefused(r)
    BY <2>7, <1>2 DEF MaterializeRefused
  <2>8. CASE RecordTerminal(r)
    <3>1. /\ pc[r] = "record" /\ UNCHANGED <<artifact, preserved>>
          /\ ledger' = Append(ledger, PendingEntry(r))
          /\ pc' = [pc EXCEPT ![r] = "finish"] \/ pc' = [pc EXCEPT ![r] = "next"]
      BY <2>8 DEF RecordTerminal, AppendEntry
    <3> QED
      BY <3>1, BundleAppend DEF Appending, TypeOK
  <2>9. CASE Finish(r)
    BY <2>9, <1>1 DEF Finish
  <2> QED
    BY <1>7, <2>1, <2>2, <2>3, <2>4, <2>5, <2>6, <2>7, <2>8, <2>9 DEF Execute
<1>8. ASSUME NEW r \in Runners, Release(r)
      PROVE  BundleInv'
  BY <1>8, <1>3 DEF Release
<1>9. ASSUME NEW r \in Runners, AppendRaises(r)
      PROVE  BundleInv'
  BY <1>9, BundleAppend DEF AppendRaises, TypeOK
<1>10. ASSUME NEW r \in Runners, Kill(r)
      PROVE  BundleInv'
  <2>1. CASE Crash(r) \/ CrashInPreflight(r) \/ CrashInMarker(r)
    BY <2>1, <1>3 DEF Crash, CrashInPreflight, CrashInMarker, Killed
  <2>2. CASE CrashInAppend(r) /\ UNCHANGED ledger
    BY <2>2, <1>3 DEF CrashInAppend, Killed
  <2>3. CASE CrashInAppend(r) /\ ledger' = Append(ledger, PendingEntry(r))
    BY <2>3, BundleAppend DEF CrashInAppend, Killed, Forget, TypeOK
  <2> QED
    BY <1>10, <2>1, <2>2, <2>3 DEF Kill, CrashInAppend
<1>11. CASE ClearStaleLock \/ MoveHead \/ UNCHANGED vars
  <2>1. UNCHANGED <<ledger, artifact, preserved, pc, outcome, cell>>
    BY <1>11 DEF ClearStaleLock, MoveHead, vars
  <2>2. ReadLedger' = ReadLedger
    BY <2>1 DEF ReadLedger, HasEntry
  <2> QED
    BY <2>1, <2>2 DEF BundleInv, BundleAt, SparesAt, RecordMatchesBundle
<1> QED
  BY <1>2, <1>4, <1>5, <1>6, <1>7, <1>8, <1>9, <1>10, <1>11 DEF Next, Progress, Abort

(* Lines, bundles and bundles moved aside agree in every state. *)
THEOREM BundleInvHolds == Spec => []BundleInv
<1>1. Init => BundleInv
  BY DEF Init, BundleInv, BundleAt, SparesAt, RecordMatchesBundle
<1>2. TypeOK /\ TypeOK' /\ MutualExclusion /\ LedgerInv /\ BundleInv /\ [Next]_vars
         => BundleInv'
  BY SuiteAssumption, NextBundle
<1> QED
  BY <1>1, <1>2, TypeCorrect, ExclusionHolds, LedgerInvHolds, PTL DEF Spec

(* Every terminal line agrees with the bundle at its artifact path, whatever *)
(* was killed between the two writes.                                        *)
THEOREM RecordAlwaysMatches == Spec => []RecordMatchesBundle
<1>1. BundleInv => RecordMatchesBundle
  BY DEF BundleInv
<1> QED
  BY <1>1, BundleInvHolds, PTL

(* Bundles change only under the cell in flight: a verdict found there by a  *)
(* later process is moved aside, and what was moved aside is not touched.    *)
LEMMA NextKeepsEvidence ==
    ASSUME SuiteAssumption, TypeOK, LedgerInv, BundleInv, [Next]_vars, NEW c \in Cells
    PROVE  /\ artifact[c] \in Verdicts => artifact[c] \in {artifact'[c], preserved'[c]}
           /\ preserved[c] # "none" => preserved'[c] = preserved[c]
<1> USE DEF disk, memory, history
<1>1. ASSUME UNCHANGED <<artifact, preserved>>
      PROVE  /\ artifact[c] \in Verdicts => artifact[c] \in {artifact'[c], preserved'[c]}
             /\ preserved[c] # "none" => preserved'[c] = preserved[c]
  BY <1>1
<1>2. ASSUME NEW r \in Runners, PreserveInterrupted(r)
      PROVE  /\ artifact[c] \in Verdicts => artifact[c] \in {artifact'[c], preserved'[c]}
             /\ preserved[c] # "none" => preserved'[c] = preserved[c]
  <2> DEFINE d == First(Interrupted(r))
  <2>1. CASE artifact[d] = "setup"
    BY <1>1, <1>2, <2>1 DEF PreserveInterrupted
  <2>2. CASE artifact[d] # "setup"
    <3>1. /\ preserved' = [preserved EXCEPT ![d] = KeptAside(d)]
          /\ artifact' = [artifact EXCEPT ![d] = "none"]
          /\ artifact[d] \in {"none", "setup"} \/ preserved[d] = "none"
      BY <1>2, <2>2 DEF PreserveInterrupted
    <3> HIDE DEF d
    <3> QED
      BY <2>2, <3>1 DEF KeptAside, TypeOK, Verdicts
  <2> QED
    BY <2>1, <2>2
<1>3. ASSUME NEW r \in Runners, ReplaceInterrupted(r)
      PROVE  /\ artifact[c] \in Verdicts => artifact[c] \in {artifact'[c], preserved'[c]}
             /\ preserved[c] # "none" => preserved'[c] = preserved[c]
  <2>1. artifact[cell[r]] = "none" /\ cell[r] \in Cells
    BY <1>3 DEF ReplaceInterrupted, BundleInv, BundleAt, TypeOK
  <2> QED
    BY <1>3, <2>1 DEF ReplaceInterrupted, TypeOK, Verdicts
<1>4. ASSUME NEW r \in Runners, PublishEvaluation(r) \/ MaterializeSetupError(r)
      PROVE  /\ artifact[c] \in Verdicts => artifact[c] \in {artifact'[c], preserved'[c]}
             /\ preserved[c] # "none" => preserved'[c] = preserved[c]
  <2>1. /\ artifact[cell[r]] = "none" /\ UNCHANGED preserved /\ cell[r] \in Cells
        /\ \E bundle : artifact' = [artifact EXCEPT ![cell[r]] = bundle]
    BY <1>4 DEF PublishEvaluation, MaterializeSetupError, TypeOK
  <2> QED
    BY <2>1 DEF TypeOK, Verdicts
<1>5. ASSUME NEW r \in Runners, Preflight(r) \/ Abort(r) \/ AppendRaises(r) \/ Release(r)
      PROVE  UNCHANGED <<artifact, preserved>>
  BY <1>5
  DEF Preflight, PreflightRefused, PreflightDoctor, WriteProbe, SealProbe, Abort,
      AppendRaises, Release, Unwind
<1>6. ASSUME NEW r \in Runners, Kill(r)
      PROVE  UNCHANGED <<artifact, preserved>>
  BY <1>6 DEF Kill, Crash, CrashInAppend, CrashInPreflight, CrashInMarker, Killed
<1>7. ASSUME NEW r \in Runners, Resume(r), ~PreserveInterrupted(r), ~ReplaceInterrupted(r)
      PROVE  UNCHANGED <<artifact, preserved>>
  BY <1>7 DEF Resume, LoadRefused, LoadSuite, SettleInterrupted, DecidePause,
              WindowRefused, Unwind
<1>8. ASSUME NEW r \in Runners, Execute(r), ~PublishEvaluation(r), ~MaterializeSetupError(r)
      PROVE  UNCHANGED <<artifact, preserved>>
  BY <1>8 DEF Execute, StartCell, BeginEvaluation, EvaluationReturns, EvaluationRaises,
              MaterializeRefused, RecordTerminal, Finish, Unwind
<1>9. ASSUME NEW r \in Runners, NEW s \in Selectors, BeginPreflight(r, s) \/ BeginRun(r, s)
      PROVE  UNCHANGED <<artifact, preserved>>
  BY <1>9 DEF BeginPreflight, BeginRun, TakeLock
<1>10. ClearStaleLock \/ MoveHead \/ UNCHANGED vars => UNCHANGED <<artifact, preserved>>
  BY DEF ClearStaleLock, MoveHead, vars
<1> QED
  BY <1>1, <1>2, <1>3, <1>4, <1>5, <1>6, <1>7, <1>8, <1>9, <1>10 DEF Next, Progress

(* A published evaluation is never lost and never replaced aside.            *)
THEOREM EvidenceAlwaysKept == Spec => EvidenceKept
<1>1. TypeOK /\ LedgerInv /\ BundleInv /\ [Next]_vars =>
         [\A c \in Cells :
             /\ artifact[c] \in Verdicts => artifact[c] \in {artifact'[c], preserved'[c]}
             /\ preserved[c] # "none" => preserved'[c] = preserved[c]]_<<artifact, preserved>>
  BY SuiteAssumption, NextKeepsEvidence
<1> QED
  BY <1>1, TypeCorrect, LedgerInvHolds, BundleInvHolds, PTL DEF Spec, EvidenceKept

-----------------------------------------------------------------------------
(* Results *)

Working == {"evaluate", "evaluating", "scoring", "setupError", "record"}

(* Before a cell starts nothing is in flight, and while one is worked on it  *)
(* is the only one; a result was returned in such a state.                   *)
FlightAt(r) ==
    /\ pc[r] \in {"next", "finish"} => \A c \in Cells : ReadLedger[c] # "STARTED"
    /\ pc[r] \in Working => \A c \in Cells : ReadLedger[c] = "STARTED" => c = cell[r]
    /\ result[r] # NoResult =>
          /\ pc[r] = "unwind"
          /\ \A c \in Cells : ReadLedger[c] # "STARTED"
          /\ result[r].status = "COMPLETED" =>
                \A c \in Selection[result[r].selector] : artifact[c] \in PassedBundles

FlightInv == \A r \in Runners : FlightAt(r)

(* While one process is inside, the claim about the others is empty. *)
LEMMA FlightOfOne ==
    ASSUME FlightInv, NEW r \in Runners,
           \A q \in Runners \ {r} : /\ pc[q] = "idle" /\ pc'[q] = "idle"
                                    /\ result'[q] = result[q],
           FlightAt(r)'
    PROVE  FlightInv'
BY DEF FlightInv, FlightAt, Working

(* A process that loaded the suite knows every cell of the ledger as one of  *)
(* its selection.                                                            *)
LEMMA LoadedKnowsCells ==
    ASSUME SuiteAssumption, TypeOK, LedgerInv, AdmissionInv, NEW r \in Runners,
           pc[r] \in Loaded, NEW c \in Cells, ReadLedger[c] # "ABSENT"
    PROVE  c \in Selection[selector[r]] /\ seen[r][c] = ReadLedger[c]
<1>1. PICK i \in 1..Len(ledger) : ledger[i].cell = c
  BY KnownHasLine
<1> QED
  BY <1>1 DEF AdmissionInv, LedgerInv

(* A complete suite has a passed bundle for every selected cell. *)
LEMMA CompleteIsPassed ==
    ASSUME SuiteAssumption, TypeOK, LedgerInv, AdmissionInv, BundleInv, NEW r \in Runners,
           pc[r] \in Loaded, Complete(r)
    PROVE  \A c \in Selection[selector[r]] : artifact[c] \in PassedBundles
<1>1. Selection[selector[r]] \in SUBSET Cells /\ IsFiniteSet(Cells)
  BY DEF SuiteAssumption, TypeOK
<1>2. IsFiniteSet(Selection[selector[r]])
  BY <1>1, FS_Subset
<1>3. Terminal(r) \in SUBSET Selection[selector[r]]
  <2> SUFFICES ASSUME NEW c \in Terminal(r)
               PROVE  c \in Selection[selector[r]]
    OBVIOUS
  <2>1. c \in Cells /\ seen[r][c] # "ABSENT" /\ seen[r] = ReadLedger
    BY DEF Terminal, LedgerInv
  <2> QED
    BY <2>1, LoadedKnowsCells
<1>4. Terminal(r) = Selection[selector[r]]
  BY <1>2, <1>3, FS_Subset DEF Complete
<1> SUFFICES ASSUME NEW c \in Selection[selector[r]]
             PROVE  artifact[c] \in PassedBundles
  OBVIOUS
<1>5. c \in Cells /\ ReadLedger[c] = "COMPLETED"
  BY <1>1, <1>4 DEF Terminal, Complete, LedgerInv
<1>6. HasEntry(c, "COMPLETED")
  BY <1>5 DEF ReadLedger
<1> QED
  BY <1>6 DEF HasEntry, BundleInv, RecordMatchesBundle

(* Every action keeps the claims about cells in flight and results. *)
LEMMA NextFlight ==
    ASSUME SuiteAssumption, TypeOK, TypeOK', MutualExclusion, LedgerInv, AdmissionInv,
           BundleInv, FlightInv, [Next]_vars
    PROVE  FlightInv'
<1> USE DEF disk, memory, history, Goto
<1>0. ASSUME UNCHANGED ledger
      PROVE  ReadLedger' = ReadLedger
  BY <1>0 DEF ReadLedger, HasEntry
<1>1. ASSUME NEW r \in Runners, InCriticalSection(r), pc[r] # "unwind", UNCHANGED result,
             \E label \in {"probe", "seal", "repair", "replace", "settle", "unwind"} :
                 pc' = [pc EXCEPT ![r] = label]
      PROVE  FlightInv'
  <2>1. \A q \in Runners \ {r} : pc[q] = "idle" /\ pc'[q] = "idle"
    <3>1. \A q \in Runners \ {r} : pc[q] = "idle"
      BY <1>1, OthersIdle
    <3>2. \A q \in Runners \ {r} : pc'[q] = pc[q]
      BY <1>1 DEF TypeOK
    <3> QED
      BY <3>1, <3>2
  <2>2. result'[r] = NoResult
    BY <1>1 DEF FlightInv, FlightAt
  <2>3. FlightAt(r)'
    BY <1>1, <2>2 DEF FlightAt, Working, TypeOK
  <2> QED
    BY <1>1, <2>1, <2>3, FlightOfOne
<1>2. ASSUME NEW r \in Runners, InCriticalSection(r), pc[r] # "unwind", Unwind(r)
      PROVE  FlightInv'
  BY <1>1, <1>2 DEF Unwind
<1>3. ASSUME NEW r \in Runners, InCriticalSection(r), Forget(r)
      PROVE  FlightInv'
  <2>1. \A q \in Runners \ {r} : pc[q] = "idle" /\ pc'[q] = "idle" /\ result'[q] = result[q]
    BY <1>3, OthersIdle DEF Forget, TypeOK
  <2>2. FlightAt(r)'
    BY <1>3 DEF Forget, FlightAt, Working, TypeOK
  <2> QED
    BY <2>1, <2>2, FlightOfOne
<1>4. ASSUME NEW r \in Runners, NEW s \in Selectors,
             BeginPreflight(r, s) \/ BeginRun(r, s)
      PROVE  FlightInv'
  <2>1. /\ UNCHANGED result /\ pc[r] = "idle" /\ ~lock
        /\ pc' = [pc EXCEPT ![r] = "preflight"] \/ pc' = [pc EXCEPT ![r] = "load"]
    BY <1>4 DEF BeginPreflight, BeginRun, TakeLock, LockFree
  <2>2. \A q \in Runners : pc[q] = "idle" /\ result[q] = NoResult
    BY <2>1 DEF MutualExclusion, InCriticalSection, FlightInv, FlightAt
  <2>3. \A q \in Runners : pc'[q] \in {"idle", "preflight", "load"} /\ result'[q] = NoResult
    BY <2>1, <2>2 DEF TypeOK
  <2> QED
    BY <2>3 DEF FlightInv, FlightAt, Working
<1>5. ASSUME NEW r \in Runners, Preflight(r)
      PROVE  FlightInv'
  <2>1. InCriticalSection(r) /\ pc[r] # "unwind"
    BY <1>5 DEF Preflight, PreflightRefused, PreflightDoctor, WriteProbe, SealProbe,
                InCriticalSection
  <2>2. CASE PreflightRefused(r)
    BY <2>1, <2>2, <1>2 DEF PreflightRefused
  <2>3. CASE PreflightDoctor(r) \/ WriteProbe(r) \/ SealProbe(r)
    <3>1. /\ UNCHANGED result
          /\ \E label \in {"probe", "seal", "unwind"} : pc' = [pc EXCEPT ![r] = label]
      BY <2>3 DEF PreflightDoctor, WriteProbe, SealProbe
    <3> QED
      BY <1>1, <2>1, <3>1
  <2> QED
    BY <1>5, <2>2, <2>3 DEF Preflight
<1>6. ASSUME NEW r \in Runners, Resume(r)
      PROVE  FlightInv'
  <2>1. InCriticalSection(r) /\ pc[r] # "unwind"
    BY <1>6 DEF Resume, LoadRefused, LoadSuite, PreserveInterrupted, ReplaceInterrupted,
                SettleInterrupted, DecidePause, WindowRefused, InCriticalSection
  <2>2. CASE LoadRefused(r) \/ WindowRefused(r)
    BY <2>1, <2>2, <1>2 DEF LoadRefused, WindowRefused
  <2>3. CASE LoadSuite(r) \/ PreserveInterrupted(r) \/ ReplaceInterrupted(r)
             \/ SettleInterrupted(r)
    <3>1. /\ UNCHANGED result
          /\ \E label \in {"repair", "replace", "settle"} : pc' = [pc EXCEPT ![r] = label]
      BY <2>3 DEF LoadSuite, PreserveInterrupted, ReplaceInterrupted, SettleInterrupted
    <3> QED
      BY <1>1, <2>1, <3>1
  <2>4. CASE DecidePause(r)
    <3>1. /\ UNCHANGED <<ledger, result>> /\ pc[r] = "repair" /\ Interrupted(r) = {}
          /\ pc' = [pc EXCEPT ![r] = "finish"] \/ pc' = [pc EXCEPT ![r] = "next"]
      BY <2>4 DEF DecidePause
    <3>2. \A c \in Cells : ReadLedger[c] # "STARTED"
      <4> SUFFICES ASSUME NEW c \in Cells, ReadLedger[c] = "STARTED"
                   PROVE  FALSE
        OBVIOUS
      <4>1. c \in Selection[selector[r]] /\ seen[r][c] = "STARTED"
        BY <3>1, LoadedKnowsCells DEF Loaded
      <4> QED
        BY <3>1, <4>1 DEF Interrupted
    <3>3. result'[r] = NoResult
      BY <3>1 DEF FlightInv, FlightAt
    <3>4. FlightAt(r)'
      BY <3>1, <3>2, <3>3, <1>0 DEF FlightAt, Working, TypeOK
    <3>5. \A q \in Runners \ {r} : pc[q] = "idle" /\ pc'[q] = "idle"
      BY <3>1, <2>1, OthersIdle DEF TypeOK
    <3> QED
      BY <3>1, <3>4, <3>5, FlightOfOne
  <2> QED
    BY <1>6, <2>2, <2>3, <2>4 DEF Resume
<1>7. ASSUME NEW r \in Runners, Execute(r)
      PROVE  FlightInv'
  <2>1. InCriticalSection(r) /\ pc[r] # "unwind"
    BY <1>7 DEF Execute, StartCell, BeginEvaluation, PublishEvaluation, EvaluationReturns,
                EvaluationRaises, MaterializeSetupError, MaterializeRefused, RecordTerminal,
                Finish, InCriticalSection
  <2>2. result[r] = NoResult /\ FlightAt(r)
    BY <2>1 DEF FlightInv, FlightAt
  <2>3. \A q \in Runners \ {r} : pc[q] = "idle"
    BY <2>1, OthersIdle
  <2>4. CASE StartCell(r) \/ RecordTerminal(r)
    <3> DEFINE e == PendingEntry(r)
    <3>1. /\ Appending(r) /\ ledger' = Append(ledger, e) /\ UNCHANGED result
          /\ \/ /\ pc[r] = "next" /\ pc' = [pc EXCEPT ![r] = "evaluate"]
                /\ cell' = [cell EXCEPT ![r] = e.cell]
             \/ /\ pc[r] = "record"
                /\ pc' = [pc EXCEPT ![r] = "finish"] \/ pc' = [pc EXCEPT ![r] = "next"]
      BY <2>4 DEF StartCell, RecordTerminal, AppendEntry, Appending
    <3>2. /\ e \in Entries /\ e.cell \in Cells /\ e.state \in States
          /\ \/ e.state = "STARTED" /\ ReadLedger[e.cell] = "ABSENT"
             \/ e.state # "STARTED" /\ ReadLedger[e.cell] = "STARTED"
      BY <3>1, AppendKnows DEF Entries
    <3>3. ReadLedger' = [ReadLedger EXCEPT ![e.cell] = e.state]
      <4>1. ledger \in Seq(Entries) /\ WellFormed(ledger)
        BY DEF TypeOK, LedgerInv
      <4> QED
        BY <3>1, <3>2, <4>1, ReadLedgerAppend
    <3>4. pc[r] = "record" => e.cell = cell[r] /\ e.state # "STARTED"
      BY DEF PendingEntry, Terminated
    <3>5. ReadLedger \in [Cells -> States \cup {"ABSENT"}]
      BY DEF ReadLedger, States
    <3> HIDE DEF e
    <3>6. FlightAt(r)'
      <4>1. CASE pc[r] = "next"
        BY <2>2, <3>1, <3>2, <3>3, <3>5, <4>1 DEF FlightAt, Working, TypeOK
      <4>2. CASE pc[r] = "record"
        BY <2>2, <3>1, <3>2, <3>3, <3>4, <3>5, <4>2 DEF FlightAt, Working, TypeOK
      <4> QED
        BY <3>1, <4>1, <4>2
    <3> QED
      BY <2>3, <3>1, <3>6, FlightOfOne DEF TypeOK
  <2>5. CASE BeginEvaluation(r) \/ PublishEvaluation(r) \/ EvaluationReturns(r)
             \/ EvaluationRaises(r) \/ MaterializeSetupError(r)
    <3>1. /\ UNCHANGED <<ledger, cell, result>> /\ pc[r] \in Working
          /\ \E label \in Working : pc' = [pc EXCEPT ![r] = label]
      BY <2>5 DEF BeginEvaluation, PublishEvaluation, EvaluationReturns, EvaluationRaises,
                  MaterializeSetupError, Working
    <3>2. FlightAt(r)'
      BY <2>2, <3>1, <1>0 DEF FlightAt, Working, TypeOK
    <3> QED
      BY <2>3, <3>1, <3>2, FlightOfOne DEF TypeOK
  <2>6. CASE MaterializeRefused(r)
    BY <2>1, <2>6, <1>2 DEF MaterializeRefused
  <2>7. CASE Finish(r)
    <3>1. /\ UNCHANGED <<ledger, artifact>> /\ pc[r] \in {"next", "finish"}
          /\ pc' = [pc EXCEPT ![r] = "unwind"]
          /\ result' = [result EXCEPT ![r] =
                           [status |-> IF Complete(r) THEN "COMPLETED" ELSE "FAILED",
                            stop |-> stop[r], selector |-> selector[r]]]
      BY <2>7 DEF Finish
    <3>2. \A c \in Cells : ReadLedger'[c] # "STARTED"
      BY <2>2, <3>1, <1>0 DEF FlightAt
    <3>3. /\ result'[r].status = IF Complete(r) THEN "COMPLETED" ELSE "FAILED"
          /\ result'[r].selector = selector[r]
          /\ \A q \in Runners \ {r} : result'[q] = result[q]
      BY <3>1 DEF TypeOK
    <3>4. Complete(r) => \A c \in Selection[selector[r]] : artifact[c] \in PassedBundles
      BY <3>1, CompleteIsPassed DEF Loaded
    <3>5. FlightAt(r)'
      BY <3>1, <3>2, <3>3, <3>4 DEF FlightAt, Working, TypeOK
    <3> QED
      BY <2>3, <3>1, <3>3, <3>5, FlightOfOne DEF TypeOK
  <2> QED
    BY <1>7, <2>4, <2>5, <2>6, <2>7 DEF Execute
<1>8. ASSUME NEW r \in Runners, Release(r)
      PROVE  FlightInv'
  BY <1>8, <1>3 DEF Release, InCriticalSection
<1>9. ASSUME NEW r \in Runners, AppendRaises(r)
      PROVE  FlightInv'
  BY <1>9, <1>1 DEF AppendRaises, Appending, InCriticalSection
<1>10. ASSUME NEW r \in Runners, Kill(r)
      PROVE  FlightInv'
  BY <1>10, <1>3 DEF Kill, Crash, CrashInAppend, CrashInPreflight, CrashInMarker, Killed,
                     Appending, InCriticalSection
<1>11. CASE ClearStaleLock \/ MoveHead \/ UNCHANGED vars
  <2>1. UNCHANGED <<ledger, artifact, pc, cell, result>>
    BY <1>11 DEF ClearStaleLock, MoveHead, vars
  <2> QED
    BY <2>1, <1>0 DEF FlightInv, FlightAt
<1>12. ASSUME NEW r \in Runners, Abort(r)
      PROVE  FlightInv'
  BY <1>12, <1>2 DEF Abort
<1> QED
  BY <1>4, <1>5, <1>6, <1>7, <1>8, <1>9, <1>10, <1>11, <1>12 DEF Next, Progress

(* One cell at a time is in flight, and results are returned between cells.  *)
THEOREM FlightInvHolds == Spec => []FlightInv
<1>1. Init => FlightInv
  BY DEF Init, FlightInv, FlightAt, Working
<1>2. /\ TypeOK /\ TypeOK' /\ MutualExclusion /\ LedgerInv /\ AdmissionInv /\ BundleInv
      /\ FlightInv /\ [Next]_vars
      => FlightInv'
  BY SuiteAssumption, NextFlight
<1> QED
  BY <1>1, <1>2, TypeCorrect, ExclusionHolds, LedgerInvHolds, AdmissionInvHolds,
     BundleInvHolds, PTL DEF Spec

(* A result, a pause included, is returned only when no cell is in flight.   *)
THEOREM ReturnsTerminalAlways == Spec => []ReturnsFullyTerminal
<1>1. FlightInv => ReturnsFullyTerminal
  BY DEF FlightInv, FlightAt, ReturnsFullyTerminal
<1> QED
  BY <1>1, FlightInvHolds, PTL

(* A COMPLETED result means a passed bundle for every selected cell.         *)
THEOREM CompletedAlwaysPassed == Spec => []CompletedMeansAllPassed
<1>1. FlightInv => CompletedMeansAllPassed
  BY DEF FlightInv, FlightAt, CompletedMeansAllPassed, NoResult
<1> QED
  BY <1>1, FlightInvHolds, PTL

-----------------------------------------------------------------------------
(* The i-th element of a finite set of numbers *)

RankIn(T, j) == Cardinality({k \in T : k <= j})
Nth(T, i) == CHOOSE j \in T : RankIn(T, j) = i
Ranked(T) == \A i \in 1..Cardinality(T) : \E j \in T : RankIn(T, j) = i

(* Two elements never share a rank. *)
LEMMA RankInjective ==
    ASSUME NEW T \in SUBSET Nat, IsFiniteSet(T), NEW j \in T, NEW k \in T,
           RankIn(T, j) = RankIn(T, k)
    PROVE  j = k
<1>1. ASSUME NEW a \in T, NEW b \in T, RankIn(T, a) = RankIn(T, b)
      PROVE  b <= a
  <2> DEFINE A == {x \in T : x <= a}
             B == {x \in T : x <= b}
  <2>1. SUFFICES ASSUME a <= b
                 PROVE  b <= a
    <3>1. a \in Nat /\ b \in Nat
      OBVIOUS
    <3> QED
      BY <3>1
  <2>2. IsFiniteSet(B)
    BY FS_Subset
  <2>3. A \in SUBSET B
    <3> SUFFICES ASSUME NEW x \in T, x <= a
                 PROVE  x <= b
      OBVIOUS
    <3>1. x \in Nat /\ a \in Nat /\ b \in Nat
      OBVIOUS
    <3> QED
      BY <2>1, <3>1
  <2>4. Cardinality(B) = Cardinality(A)
    BY <1>1 DEF RankIn
  <2> HIDE DEF A, B
  <2>5. A = B
    BY <2>2, <2>3, <2>4, FS_Subset
  <2> QED
    BY <2>5 DEF A, B
<1>2. j <= k /\ k <= j
  BY <1>1
<1>3. j \in Nat /\ k \in Nat
  OBVIOUS
<1> QED
  BY <1>2, <1>3

(* A number above all others becomes the last element and moves no other. *)
LEMMA NthExtend ==
    ASSUME NEW T \in SUBSET Nat, IsFiniteSet(T), Ranked(T),
           NEW n \in Nat, \A k \in T : k < n
    PROVE  LET U == T \cup {n}
           IN  /\ Ranked(U)
               /\ Cardinality(U) = Cardinality(T) + 1
               /\ \A i \in 1..Cardinality(T) : Nth(U, i) = Nth(T, i) /\ Nth(T, i) \in T
               /\ Nth(U, Cardinality(T) + 1) = n
<1> DEFINE U == T \cup {n}
<1>1. n \notin T
  BY \A k \in T : k < n
<1>2. IsFiniteSet(U) /\ Cardinality(U) = Cardinality(T) + 1 /\ Cardinality(T) \in Nat
  BY <1>1, FS_AddElement, FS_CardinalityType
<1>3. \A j \in T : RankIn(U, j) = RankIn(T, j)
  <2> SUFFICES ASSUME NEW j \in T
               PROVE  RankIn(U, j) = RankIn(T, j)
    OBVIOUS
  <2>1. j \in Nat /\ j < n
    OBVIOUS
  <2>2. {k \in U : k <= j} = {k \in T : k <= j}
    BY <2>1
  <2> QED
    BY <2>2 DEF RankIn
<1>4. RankIn(U, n) = Cardinality(T) + 1
  <2>1. \A k \in U : k <= n
    OBVIOUS
  <2>2. {k \in U : k <= n} = U
    BY <2>1
  <2> QED
    BY <1>2, <2>2 DEF RankIn
<1>5. U \in SUBSET Nat /\ T \in SUBSET U /\ n \in U
  OBVIOUS
<1> HIDE DEF U
<1>6. Ranked(U)
  <2> SUFFICES ASSUME NEW i \in 1..(Cardinality(T) + 1)
               PROVE  \E j \in U : RankIn(U, j) = i
    BY <1>2 DEF Ranked
  <2>1. CASE i = Cardinality(T) + 1
    BY <1>4, <1>5, <2>1
  <2>2. CASE i \in 1..Cardinality(T)
    BY <1>3, <1>5, <2>2 DEF Ranked
  <2> QED
    BY <1>2, <2>1, <2>2
<1>7. \A i \in 1..(Cardinality(T) + 1) : Nth(U, i) \in U /\ RankIn(U, Nth(U, i)) = i
  BY <1>2, <1>6 DEF Ranked, Nth
<1>8. \A i \in 1..Cardinality(T) : Nth(T, i) \in T /\ RankIn(T, Nth(T, i)) = i
  BY DEF Ranked, Nth
<1>9. ASSUME NEW i \in 1..Cardinality(T)
      PROVE  Nth(U, i) = Nth(T, i)
  <2>1. i \in 1..(Cardinality(T) + 1)
    BY <1>2
  <2>2. Nth(T, i) \in U /\ RankIn(U, Nth(T, i)) = i
    BY <1>3, <1>5, <1>8
  <2>3. Nth(U, i) \in U /\ RankIn(U, Nth(U, i)) = i
    BY <1>7, <2>1
  <2> QED
    BY <1>2, <1>5, <2>2, <2>3, RankInjective
<1>10. Nth(U, Cardinality(T) + 1) = n
  <2>1. Cardinality(T) + 1 \in 1..(Cardinality(T) + 1)
    BY <1>2
  <2>2. Nth(U, Cardinality(T) + 1) \in U
        /\ RankIn(U, Nth(U, Cardinality(T) + 1)) = Cardinality(T) + 1
    BY <1>7, <2>1
  <2> DEFINE last == Nth(U, Cardinality(T) + 1)
  <2>3. last \in U /\ RankIn(U, last) = RankIn(U, n)
    BY <1>4, <2>2
  <2> HIDE DEF last
  <2>4. last = n
    BY <1>2, <1>5, <2>3, RankInjective
  <2> QED
    BY <2>4 DEF last
<1> QED
  BY <1>2, <1>6, <1>8, <1>9, <1>10 DEF U

-----------------------------------------------------------------------------
(* The rebuilt window *)

(* The window lists, in rank order, the terminal lines of model-backed cells. *)
LEMMA WindowByRank ==
    RebuiltWindow = [i \in 1..Cardinality(TerminalLines) |->
                        CleanPass(ledger[Nth(TerminalLines, i)])]
BY DEF RebuiltWindow, TerminalLine, Nth, RankIn

LEMMA TerminalLinesFinite ==
    ASSUME TypeOK
    PROVE  /\ TerminalLines \in SUBSET Nat /\ IsFiniteSet(TerminalLines)
           /\ TerminalLines \in SUBSET (1..Len(ledger))
           /\ Cardinality(TerminalLines) \in Nat
<1>1. IsFiniteSet(1..Len(ledger)) /\ TerminalLines \in SUBSET (1..Len(ledger))
  BY FS_Interval DEF TypeOK, TerminalLines
<1>2. IsFiniteSet(TerminalLines)
  BY <1>1, FS_Subset
<1>3. TerminalLines \in SUBSET Nat
  BY <1>1
<1> QED
  BY <1>1, <1>2, <1>3, FS_CardinalityType

(* A bundle written under a cell in flight does not enter the window. *)
LEMMA WindowKept ==
    ASSUME TypeOK, Ranked(TerminalLines), UNCHANGED ledger,
           \A c \in Cells : artifact'[c] # artifact[c] => ReadLedger[c] = "STARTED"
    PROVE  /\ RebuiltWindow' = RebuiltWindow
           /\ Ranked(TerminalLines)'
<1>1. TerminalLines' = TerminalLines
  BY DEF TerminalLines
<1>2. ASSUME NEW j \in TerminalLines
      PROVE  CleanPass(ledger[j])' = CleanPass(ledger[j])
  <2>1. j \in DOMAIN ledger /\ ledger[j] \in Entries
    <3>1. j \in 1..Len(ledger)
      BY TerminalLinesFinite
    <3> QED
      BY <3>1, ElementOfSeq DEF TypeOK
  <2>2. ledger[j].state # "STARTED" /\ ledger[j].cell \in Cells
    BY <2>1 DEF TerminalLines, Entries
  <2>3. ReadLedger[ledger[j].cell] # "STARTED"
    BY <2>1, <2>2, InFlightUnsettled
  <2> QED
    BY <2>2, <2>3 DEF CleanPass
<1>3. \A i \in 1..Cardinality(TerminalLines) : Nth(TerminalLines, i) \in TerminalLines
  BY DEF Ranked, Nth
<1>4. \A i \in 1..Cardinality(TerminalLines) :
         CleanPass(ledger[Nth(TerminalLines, i)])' = CleanPass(ledger[Nth(TerminalLines, i)])
  <2> SUFFICES ASSUME NEW i \in 1..Cardinality(TerminalLines)
               PROVE  CleanPass(ledger[Nth(TerminalLines, i)])'
                         = CleanPass(ledger[Nth(TerminalLines, i)])
    OBVIOUS
  <2>1. Nth(TerminalLines, i)' = Nth(TerminalLines, i)
    BY <1>1
  <2> QED
    BY <1>2, <1>3, <2>1
<1>5. Cardinality(TerminalLines)' = Cardinality(TerminalLines)
  BY <1>1
<1>6. RebuiltWindow' = [i \in 1..Cardinality(TerminalLines)' |->
                           CleanPass(ledger[Nth(TerminalLines, i)])']
  BY DEF RebuiltWindow, TerminalLine, Nth, RankIn
<1>7. RebuiltWindow' = RebuiltWindow
  BY <1>4, <1>5, <1>6, WindowByRank
<1> QED
  BY <1>1, <1>7 DEF Ranked

(* What a line adds to the window. *)
Scored(e) == e.state # "STARTED" /\ e.cell \in ModelBacked

(* A line that reaches the ledger enters the window last, or not at all. *)
LEMMA WindowAppend ==
    ASSUME TypeOK, Ranked(TerminalLines), NEW e \in Entries,
           ledger' = Append(ledger, e), UNCHANGED artifact
    PROVE  /\ Ranked(TerminalLines)'
           /\ RebuiltWindow' = IF Scored(e) THEN Append(RebuiltWindow, CleanPass(e))
                                            ELSE RebuiltWindow
<1> DEFINE T == TerminalLines
           n == Len(ledger) + 1
           U == TerminalLines'
<1>1. /\ DOMAIN ledger' = 1..n /\ DOMAIN ledger = 1..Len(ledger)
      /\ \A i \in 1..Len(ledger) : ledger'[i] = ledger[i]
      /\ ledger'[n] = e
      /\ n \in Nat /\ Len(ledger) \in Nat
  BY AppendProperties DEF TypeOK
<1>2. T \in SUBSET Nat /\ IsFiniteSet(T) /\ T \in SUBSET (1..Len(ledger))
      /\ Cardinality(T) \in Nat
  BY TerminalLinesFinite
<1>3. \A j \in T : j \in 1..Len(ledger) /\ ledger'[j] = ledger[j] /\ j < n
  <2> SUFFICES ASSUME NEW j \in T
               PROVE  j \in 1..Len(ledger) /\ ledger'[j] = ledger[j] /\ j < n
    OBVIOUS
  <2>1. j \in 1..Len(ledger)
    BY <1>2
  <2> QED
    BY <1>1, <2>1
<1>4. U = IF Scored(e) THEN T \cup {n} ELSE T
  <2>1. U = {j \in 1..n : ledger'[j].state # "STARTED" /\ ledger'[j].cell \in ModelBacked}
    BY <1>1 DEF TerminalLines
  <2>2. T = {j \in 1..Len(ledger) : ledger[j].state # "STARTED" /\ ledger[j].cell \in ModelBacked}
    BY <1>1 DEF TerminalLines
  <2> HIDE DEF T, U
  <2>3. \A j \in 1..n : j \in U <=> (j \in T \/ (j = n /\ Scored(e)))
    BY <1>1, <2>1, <2>2 DEF Scored
  <2>4. U \in SUBSET (1..n) /\ T \in SUBSET (1..n) /\ n \in 1..n
    BY <1>1, <2>1, <2>2
  <2> QED
    BY <2>3, <2>4
<1>5. RebuiltWindow' = [i \in 1..Cardinality(U) |-> CleanPass(ledger[Nth(TerminalLines, i)])']
  BY DEF RebuiltWindow, TerminalLine, Nth, RankIn
<1>6. \A x : CleanPass(x)' <=> CleanPass(x)
  BY DEF CleanPass
<1>7. \A i : CleanPass(ledger[Nth(TerminalLines, i)])' = CleanPass(ledger'[Nth(U, i)])
  BY DEF CleanPass
<1>8. RebuiltWindow' = [i \in 1..Cardinality(U) |-> CleanPass(ledger'[Nth(U, i)])]
  BY <1>5, <1>7
<1>9. RebuiltWindow = [i \in 1..Cardinality(T) |-> CleanPass(ledger[Nth(T, i)])]
  BY WindowByRank
<1>r. Ranked(T)
  OBVIOUS
<1>u. Ranked(TerminalLines)' <=> Ranked(U)
  BY DEF Ranked, RankIn
<1> HIDE DEF T, U
<1>10. CASE ~Scored(e)
  <2>1. U = T
    BY <1>4, <1>10
  <2>2. \A i \in 1..Cardinality(T) : Nth(T, i) \in T
    BY <1>r DEF Ranked, Nth
  <2>3. RebuiltWindow' = RebuiltWindow
    BY <1>3, <1>8, <1>9, <2>1, <2>2
  <2> QED
    BY <1>10, <1>r, <1>u, <2>1, <2>3
<1>11. CASE Scored(e)
  <2>1. U = T \cup {n}
    BY <1>4, <1>11
  <2> HIDE DEF n
  <2>2. /\ Ranked(U)
        /\ Cardinality(U) = Cardinality(T) + 1
        /\ \A i \in 1..Cardinality(T) : Nth(U, i) = Nth(T, i) /\ Nth(T, i) \in T
        /\ Nth(U, Cardinality(T) + 1) = n
    BY <1>1, <1>2, <1>3, <1>r, <2>1, NthExtend
  <2>3. \A i \in 1..Cardinality(T) :
           CleanPass(ledger'[Nth(U, i)]) = CleanPass(ledger[Nth(T, i)])
    BY <1>3, <2>2
  <2>4. CleanPass(ledger'[Nth(U, Cardinality(T) + 1)]) = CleanPass(e)
    BY <1>1, <2>2
  <2>5. Len(RebuiltWindow) = Cardinality(T) /\ RebuiltWindow \in Seq(BOOLEAN)
        /\ CleanPass(e) \in BOOLEAN
    <3>1. RebuiltWindow \in Seq(BOOLEAN) /\ CleanPass(e) \in BOOLEAN
      BY RebuiltWindowType DEF CleanPass
    <3>2. DOMAIN RebuiltWindow = 1..Cardinality(T)
      BY <1>9
    <3> QED
      BY <1>2, <3>1, <3>2, LenProperties
  <2> DEFINE W == RebuiltWindow
             N == Cardinality(T)
             V == RebuiltWindow'
             last == CleanPass(e)
  <2>6. V = Append(W, last)
    <3>1. V \in Seq(BOOLEAN) /\ Len(V) = N + 1
      <4>1. V = [i \in 1..(N + 1) |-> CleanPass(ledger'[Nth(U, i)])]
        BY <1>8, <2>2
      <4>2. \A i : CleanPass(ledger'[Nth(U, i)]) \in BOOLEAN
        BY DEF CleanPass
      <4>3. N + 1 \in Nat
        BY <1>2
      <4> HIDE DEF V, N
      <4>4. V \in [1..(N + 1) -> BOOLEAN]
        BY <4>1, <4>2
      <4>5. V \in Seq(BOOLEAN)
        BY <4>3, <4>4
      <4> QED
        BY <4>3, <4>4, <4>5, LenProperties
    <3>0. /\ V = [i \in 1..(N + 1) |-> CleanPass(ledger'[Nth(U, i)])]
          /\ W = [i \in 1..N |-> CleanPass(ledger[Nth(T, i)])]
          /\ N \in Nat
          /\ \A i \in 1..N : CleanPass(ledger'[Nth(U, i)]) = CleanPass(ledger[Nth(T, i)])
          /\ CleanPass(ledger'[Nth(U, N + 1)]) = last
      BY <1>2, <1>8, <1>9, <2>2, <2>3, <2>4
    <3>2. (\A i \in 1..N : V[i] = W[i]) /\ V[N + 1] = last
      <4> HIDE DEF V, W, N, last
      <4>1. \A i \in 1..N : i \in 1..(N + 1)
        BY <3>0
      <4>2. N + 1 \in 1..(N + 1)
        BY <3>0
      <4> QED
        BY <3>0, <4>1, <4>2
    <3>4. /\ Append(W, last) \in Seq(BOOLEAN) /\ Len(Append(W, last)) = N + 1
          /\ \A i \in 1..N : Append(W, last)[i] = W[i]
          /\ Append(W, last)[N + 1] = last
      BY <2>5, AppendProperties
    <3> HIDE DEF V, W, last
    <3>5. Append(W, last) \in Seq(BOOLEAN) /\ V \in Seq(BOOLEAN) /\ N \in Nat
      BY <1>2, <3>1, <3>4
    <3> HIDE DEF N
    <3>6. \A i \in 1..(N + 1) : V[i] = Append(W, last)[i]
      BY <3>2, <3>4, <3>5
    <3> QED
      BY <3>1, <3>4, <3>5, <3>6, SeqEqual
  <2> QED
    BY <1>11, <1>u, <2>2, <2>6
<1> QED
  BY <1>10, <1>11

-----------------------------------------------------------------------------
(* Steps, as the reader of the ledger sees them *)

(* A step appends the pending line of one process, or leaves the ledger as   *)
(* it is and touches at most the bundle of a cell in flight.                 *)
LEMMA LedgerStep ==
    ASSUME SuiteAssumption, TypeOK, LedgerInv, [Next]_vars
    PROVE  \/ \E r \in Runners : /\ Appending(r) /\ ledger' = Append(ledger, PendingEntry(r))
                                 /\ UNCHANGED artifact
           \/ /\ UNCHANGED ledger
              /\ \A c \in Cells : artifact'[c] # artifact[c] => ReadLedger[c] = "STARTED"
<1> USE DEF disk, memory, history
<1>1. ASSUME NEW r \in Runners, PreserveInterrupted(r)
      PROVE  /\ UNCHANGED ledger
             /\ \A c \in Cells : artifact'[c] # artifact[c] => ReadLedger[c] = "STARTED"
  <2> DEFINE d == First(Interrupted(r))
  <2>1. d \in Cells /\ seen[r][d] = "STARTED"
    <3>1. Interrupted(r) \in SUBSET Nat /\ Interrupted(r) \in SUBSET Cells /\ Interrupted(r) # {}
      BY <1>1 DEF PreserveInterrupted, Interrupted, SuiteAssumption, TypeOK
    <3> QED
      BY <3>1, FirstInSet DEF Interrupted
  <2>2. /\ pc[r] = "repair" /\ UNCHANGED ledger
        /\ artifact' = artifact \/ artifact' = [artifact EXCEPT ![d] = "none"]
    BY <1>1 DEF PreserveInterrupted
  <2>3. ReadLedger[d] = "STARTED"
    BY <2>1, <2>2 DEF LedgerInv, Loaded
  <2> HIDE DEF d
  <2> QED
    BY <2>1, <2>2, <2>3 DEF TypeOK
<1>2. ASSUME NEW r \in Runners,
             ReplaceInterrupted(r) \/ PublishEvaluation(r) \/ MaterializeSetupError(r)
      PROVE  /\ UNCHANGED ledger
             /\ \A c \in Cells : artifact'[c] # artifact[c] => ReadLedger[c] = "STARTED"
  <2>1. /\ pc[r] \in Holding /\ UNCHANGED ledger
        /\ \E bundle : artifact' = [artifact EXCEPT ![cell[r]] = bundle]
    BY <1>2 DEF ReplaceInterrupted, PublishEvaluation, MaterializeSetupError, Holding
  <2>2. ReadLedger[cell[r]] = "STARTED" /\ cell[r] \in Cells
    BY <2>1 DEF LedgerInv, TypeOK
  <2> QED
    BY <2>1, <2>2 DEF TypeOK
<1>3. ASSUME NEW r \in Runners, SettleInterrupted(r) \/ StartCell(r) \/ RecordTerminal(r)
                                 \/ AppendRaises(r)
      PROVE  Appending(r) /\ ledger' = Append(ledger, PendingEntry(r)) /\ UNCHANGED artifact
  BY <1>3 DEF SettleInterrupted, StartCell, RecordTerminal, AppendRaises, AppendEntry, Appending
<1>4. ASSUME NEW r \in Runners, CrashInAppend(r)
      PROVE  /\ UNCHANGED artifact
             /\ \/ Appending(r) /\ ledger' = Append(ledger, PendingEntry(r))
                \/ UNCHANGED ledger
  BY <1>4 DEF CrashInAppend, Killed
<1>5. ASSUME NEW r \in Runners, Preflight(r) \/ Abort(r) \/ Release(r) \/ Crash(r)
                                 \/ CrashInPreflight(r) \/ CrashInMarker(r)
      PROVE  UNCHANGED <<ledger, artifact>>
  BY <1>5
  DEF Preflight, PreflightRefused, PreflightDoctor, WriteProbe, SealProbe, Abort, Release,
      Unwind, Crash, CrashInPreflight, CrashInMarker, Killed
<1>6. ASSUME NEW r \in Runners, LoadRefused(r) \/ LoadSuite(r) \/ DecidePause(r)
                                 \/ WindowRefused(r)
      PROVE  UNCHANGED <<ledger, artifact>>
  BY <1>6 DEF LoadRefused, LoadSuite, DecidePause, WindowRefused, Unwind
<1>7. ASSUME NEW r \in Runners, BeginEvaluation(r) \/ EvaluationReturns(r)
                                 \/ EvaluationRaises(r) \/ MaterializeRefused(r) \/ Finish(r)
      PROVE  UNCHANGED <<ledger, artifact>>
  BY <1>7 DEF BeginEvaluation, EvaluationReturns, EvaluationRaises, MaterializeRefused,
              Finish, Unwind
<1>8. ASSUME NEW r \in Runners, NEW s \in Selectors, BeginPreflight(r, s) \/ BeginRun(r, s)
      PROVE  UNCHANGED <<ledger, artifact>>
  BY <1>8 DEF BeginPreflight, BeginRun, TakeLock
<1>9. ClearStaleLock \/ MoveHead \/ UNCHANGED vars => UNCHANGED <<ledger, artifact>>
  BY DEF ClearStaleLock, MoveHead, vars
<1>10. ASSUME NEW r \in Runners, Resume(r)
       PROVE  \/ LoadRefused(r) \/ LoadSuite(r) \/ DecidePause(r) \/ WindowRefused(r)
              \/ PreserveInterrupted(r) \/ ReplaceInterrupted(r) \/ SettleInterrupted(r)
  BY <1>10 DEF Resume
<1>11. ASSUME NEW r \in Runners, Execute(r)
       PROVE  \/ BeginEvaluation(r) \/ EvaluationReturns(r) \/ EvaluationRaises(r)
              \/ MaterializeRefused(r) \/ Finish(r) \/ PublishEvaluation(r)
              \/ MaterializeSetupError(r) \/ StartCell(r) \/ RecordTerminal(r)
  BY <1>11 DEF Execute
<1>12. ASSUME NEW r \in Runners, Kill(r)
       PROVE  Crash(r) \/ CrashInAppend(r) \/ CrashInPreflight(r) \/ CrashInMarker(r)
  BY <1>12 DEF Kill
<1> QED
  BY <1>1, <1>2, <1>3, <1>4, <1>5, <1>6, <1>7, <1>8, <1>9, <1>10, <1>11, <1>12
  DEF Next, Progress

(* The line a process appends, and what the reader makes of it. *)
LEMMA AppendRead ==
    ASSUME SuiteAssumption, TypeOK, LedgerInv, NEW r \in Runners, Appending(r),
           ledger' = Append(ledger, PendingEntry(r))
    PROVE  LET e == PendingEntry(r)
           IN  /\ e \in Entries /\ e.cell \in Cells /\ e.state \in States
               /\ ReadLedger' = [ReadLedger EXCEPT ![e.cell] = e.state]
               /\ \/ pc[r] = "next" /\ e.state = "STARTED" /\ ReadLedger[e.cell] = "ABSENT"
                  \/ /\ pc[r] \in {"settle", "record"} /\ e.cell = cell[r]
                     /\ e.state # "STARTED" /\ ReadLedger[e.cell] = "STARTED"
<1> DEFINE e == PendingEntry(r)
<1>1. /\ e \in Entries /\ e.cell \in Cells /\ e.state \in States
      /\ \/ e.state = "STARTED" /\ ReadLedger[e.cell] = "ABSENT"
         \/ e.state # "STARTED" /\ ReadLedger[e.cell] = "STARTED"
  BY AppendKnows DEF Entries
<1>2. ReadLedger' = [ReadLedger EXCEPT ![e.cell] = e.state]
  <2>1. ledger \in Seq(Entries) /\ WellFormed(ledger)
    BY DEF TypeOK, LedgerInv
  <2> QED
    BY <1>1, <2>1, ReadLedgerAppend
<1>3. \/ pc[r] = "next" /\ e.state = "STARTED"
      \/ pc[r] \in {"settle", "record"} /\ e.cell = cell[r] /\ e.state # "STARTED"
  BY DEF Appending, PendingEntry, Terminated
<1> QED
  BY <1>1, <1>2, <1>3

-----------------------------------------------------------------------------
(* The window in memory *)

Carrying == {"next", "evaluate", "evaluating", "scoring", "setupError", "record", "finish"}

(* A process that goes on to a cell carries the rebuilt window, and that     *)
(* window calls for no pause.                                                *)
WindowAt(r) ==
    /\ pc[r] \in Carrying => window[r] = RebuiltWindow
    /\ pc[r] \in Carrying \ {"finish"} => ~PauseDue(window[r])

WindowInv ==
    /\ Ranked(TerminalLines)
    /\ \A r \in Runners : WindowAt(r)

(* What the line of a recorded evaluation adds is the verdict remembered.    *)
LEMMA RecordedScore ==
    ASSUME TypeOK, BundleInv, NEW r \in Runners, pc[r] = "record"
    PROVE  LET e == PendingEntry(r)
           IN  /\ Scored(e) <=> cell[r] \in ModelBacked
               /\ CleanPass(e) <=> outcome[r] = "passed"
<1>1. artifact[cell[r]] = outcome[r]
  BY DEF BundleInv, BundleAt
<1> QED
  BY <1>1 DEF PendingEntry, Terminated, Scored, CleanPass, PassedBundles

(* Every action keeps the window in memory equal to the rebuilt one. *)
LEMMA NextWindow ==
    ASSUME SuiteAssumption, TypeOK, TypeOK', MutualExclusion, LedgerInv, BundleInv,
           WindowInv, [Next]_vars
    PROVE  WindowInv'
<1> USE DEF disk, memory, history, Goto
<1>1. Ranked(TerminalLines)'
  <2>1. CASE \E r \in Runners : /\ Appending(r) /\ ledger' = Append(ledger, PendingEntry(r))
                                /\ UNCHANGED artifact
    BY <2>1, PendingEntryType, WindowAppend DEF WindowInv
  <2>2. CASE /\ UNCHANGED ledger
             /\ \A c \in Cells : artifact'[c] # artifact[c] => ReadLedger[c] = "STARTED"
    BY <2>2, WindowKept DEF WindowInv
  <2> QED
    BY <2>1, <2>2, LedgerStep
(* The processes outside, before and after, claim nothing. *)
<1>2. ASSUME NEW r \in Runners, \A q \in Runners \ {r} : pc'[q] \notin Carrying, WindowAt(r)'
      PROVE  WindowInv'
  BY <1>1, <1>2 DEF WindowInv, WindowAt
<1>3. ASSUME UNCHANGED ledger
      PROVE  RebuiltWindow' = RebuiltWindow
  <2>1. CASE \E r \in Runners : /\ Appending(r) /\ ledger' = Append(ledger, PendingEntry(r))
                                /\ UNCHANGED artifact
    <3>1. PICK e \in Entries : ledger' = Append(ledger, e)
      BY <2>1, PendingEntryType
    <3>2. Len(ledger') = Len(ledger) + 1 /\ Len(ledger) \in Nat
      BY <3>1, AppendProperties DEF TypeOK
    <3> QED
      BY <1>3, <3>2
  <2> QED
    BY <1>3, <2>1, LedgerStep, WindowKept DEF WindowInv
<1>4. ASSUME NEW r \in Runners, InCriticalSection(r),
             \E label \in Labels \ Carrying : pc' = [pc EXCEPT ![r] = label]
      PROVE  WindowInv'
  <2>1. \A q \in Runners : pc'[q] \notin Carrying
    <3>1. \A q \in Runners \ {r} : pc[q] = "idle"
      BY <1>4, OthersIdle
    <3>2. \A q \in Runners \ {r} : pc'[q] = pc[q]
      BY <1>4 DEF TypeOK
    <3>3. pc'[r] \notin Carrying
      BY <1>4 DEF TypeOK
    <3> QED
      BY <3>1, <3>2, <3>3 DEF Carrying
  <2> QED
    BY <1>2, <1>4, <2>1 DEF WindowAt
<1>5. ASSUME NEW r \in Runners, NEW s \in Selectors,
             BeginPreflight(r, s) \/ BeginRun(r, s)
      PROVE  WindowInv'
  <2>1. /\ ~lock
        /\ pc' = [pc EXCEPT ![r] = "preflight"] \/ pc' = [pc EXCEPT ![r] = "load"]
    BY <1>5 DEF BeginPreflight, BeginRun, TakeLock, LockFree
  <2>2. \A q \in Runners : pc[q] = "idle"
    BY <2>1 DEF MutualExclusion, InCriticalSection
  <2>3. \A q \in Runners : pc'[q] \in {"idle", "preflight", "load"}
    BY <2>1, <2>2 DEF TypeOK
  <2>4. \A q \in Runners : pc'[q] \notin Carrying
    BY <2>3 DEF Carrying
  <2> QED
    BY <1>2, <2>4 DEF WindowAt
<1>6. ASSUME NEW r \in Runners, Preflight(r)
      PROVE  WindowInv'
  BY <1>4, <1>6
  DEF Preflight, PreflightRefused, PreflightDoctor, WriteProbe, SealProbe, Unwind,
      InCriticalSection, Carrying, Labels
<1>7. ASSUME NEW r \in Runners, Resume(r)
      PROVE  WindowInv'
  <2>1. CASE LoadRefused(r) \/ LoadSuite(r) \/ PreserveInterrupted(r) \/ ReplaceInterrupted(r)
             \/ SettleInterrupted(r) \/ WindowRefused(r)
    BY <1>4, <2>1
    DEF LoadRefused, LoadSuite, PreserveInterrupted, ReplaceInterrupted, SettleInterrupted,
        WindowRefused, Unwind, InCriticalSection, Carrying, Labels
  <2>2. CASE DecidePause(r)
    <3>1. /\ pc[r] = "repair" /\ UNCHANGED ledger
          /\ window' = [window EXCEPT ![r] = RebuiltWindow]
          /\ pc' = [pc EXCEPT ![r] = IF PauseDue(RebuiltWindow) THEN "finish" ELSE "next"]
      BY <2>2 DEF DecidePause
    <3>2. \A q \in Runners \ {r} : pc'[q] \notin Carrying
      BY <3>1, OthersIdle DEF InCriticalSection, TypeOK, Carrying
    <3>3. /\ window'[r] = RebuiltWindow
          /\ pc'[r] = IF PauseDue(RebuiltWindow) THEN "finish" ELSE "next"
      BY <3>1 DEF TypeOK
    <3>4. WindowAt(r)'
      <4>1. RebuiltWindow' = RebuiltWindow
        BY <1>3, <3>1
      <4>2. PauseDue(window[r])' <=> PauseDue(RebuiltWindow)
        BY <3>3 DEF PauseDue
      <4> QED
        BY <3>3, <4>1, <4>2 DEF WindowAt
    <3> QED
      BY <1>2, <3>2, <3>4
  <2> QED
    BY <1>7, <2>1, <2>2 DEF Resume
<1>8. ASSUME NEW r \in Runners, Execute(r)
      PROVE  WindowInv'
  <2>1. InCriticalSection(r)
    BY <1>8 DEF Execute, StartCell, BeginEvaluation, PublishEvaluation, EvaluationReturns,
                EvaluationRaises, MaterializeSetupError, MaterializeRefused, RecordTerminal,
                Finish, InCriticalSection
  <2>2. \A q \in Runners \ {r} : pc[q] = "idle"
    BY <2>1, OthersIdle
  <2>w. WindowAt(r)
    BY DEF WindowInv
  <2>3. CASE BeginEvaluation(r) \/ PublishEvaluation(r) \/ EvaluationReturns(r)
             \/ EvaluationRaises(r) \/ MaterializeSetupError(r)
    <3>1. /\ UNCHANGED <<ledger, window>> /\ pc[r] \in Carrying \ {"finish"}
          /\ \E label \in Carrying : pc' = [pc EXCEPT ![r] = label]
      BY <2>3 DEF BeginEvaluation, PublishEvaluation, EvaluationReturns, EvaluationRaises,
                  MaterializeSetupError, Carrying
    <3>2. RebuiltWindow' = RebuiltWindow
      BY <1>3, <3>1
    <3>3. WindowAt(r)'
      BY <2>w, <3>1, <3>2 DEF WindowAt, PauseDue
    <3>4. \A q \in Runners \ {r} : pc'[q] = pc[q]
      BY <3>1 DEF TypeOK
    <3>5. \A q \in Runners \ {r} : pc'[q] \notin Carrying
      BY <2>2, <3>4 DEF Carrying
    <3> QED
      BY <1>2, <3>3, <3>5
  <2>4. CASE StartCell(r)
    <3> DEFINE e == PendingEntry(r)
    <3>1. /\ Appending(r) /\ ledger' = Append(ledger, e) /\ UNCHANGED <<artifact, window>>
          /\ pc[r] = "next" /\ pc' = [pc EXCEPT ![r] = "evaluate"]
      BY <2>4 DEF StartCell, AppendEntry, Appending
    <3>2. e \in Entries /\ e.state = "STARTED"
      BY <3>1, AppendRead
    <3>3. RebuiltWindow' = RebuiltWindow
      BY <3>1, <3>2, WindowAppend DEF WindowInv, Scored
    <3>4. WindowAt(r)'
      BY <2>w, <3>1, <3>3 DEF WindowAt, PauseDue, Carrying, TypeOK
    <3> QED
      BY <1>2, <2>2, <3>1, <3>4 DEF TypeOK, Carrying
  <2>5. CASE RecordTerminal(r)
    <3> DEFINE e == PendingEntry(r)
               backed == cell[r] \in ModelBacked
               grown == IF backed THEN Append(window[r], outcome[r] = "passed") ELSE window[r]
               pause == backed /\ PauseDue(grown)
    <3>1. /\ Appending(r) /\ ledger' = Append(ledger, e) /\ UNCHANGED artifact
          /\ pc[r] = "record"
          /\ window' = [window EXCEPT ![r] = grown]
          /\ pc' = [pc EXCEPT ![r] = IF outcome[r] \in {"setup", "environmentFailed"} \/ pause
                                     THEN "finish" ELSE "next"]
      BY <2>5 DEF RecordTerminal, AppendEntry, Appending
    <3>2. e \in Entries /\ e.state # "STARTED"
      BY <3>1, AppendRead
    <3>3. (Scored(e) <=> backed) /\ (CleanPass(e) <=> outcome[r] = "passed")
      BY <3>1, RecordedScore
    <3>4. RebuiltWindow' = IF Scored(e) THEN Append(RebuiltWindow, CleanPass(e))
                                        ELSE RebuiltWindow
      BY <3>1, <3>2, WindowAppend DEF WindowInv
    <3>5. window[r] = RebuiltWindow /\ ~PauseDue(window[r])
      BY <2>w, <3>1 DEF WindowAt, Carrying
    <3>6. CleanPass(e) = (outcome[r] = "passed")
      BY <3>3 DEF CleanPass
    <3>7. RebuiltWindow' = grown
      BY <3>3, <3>4, <3>5, <3>6
    <3>8. ~backed => ~PauseDue(grown)
      BY <3>5
    <3> HIDE DEF grown, e, backed
    <3>9. /\ window'[r] = grown
          /\ pc'[r] = "finish" \/ (pc'[r] = "next" /\ ~PauseDue(grown))
      BY <3>1, <3>8 DEF TypeOK
    <3>10. WindowAt(r)'
      <4>1. PauseDue(window[r])' <=> PauseDue(grown)
        BY <3>9 DEF PauseDue
      <4> QED
        BY <3>7, <3>9, <4>1 DEF WindowAt
    <3> QED
      BY <1>2, <2>2, <3>1, <3>10 DEF TypeOK, Carrying
  <2>6. CASE MaterializeRefused(r) \/ Finish(r)
    BY <1>4, <2>1, <2>6 DEF MaterializeRefused, Finish, Unwind, Carrying, Labels
  <2> QED
    BY <1>8, <2>3, <2>4, <2>5, <2>6 DEF Execute
<1>9. ASSUME NEW r \in Runners, Release(r) \/ Abort(r) \/ AppendRaises(r)
      PROVE  WindowInv'
  BY <1>4, <1>9 DEF Release, Abort, AppendRaises, Appending, Forget, Unwind,
                    InCriticalSection, Carrying, Labels
<1>10. ASSUME NEW r \in Runners, Kill(r)
       PROVE  WindowInv'
  BY <1>4, <1>10 DEF Kill, Crash, CrashInAppend, CrashInPreflight, CrashInMarker, Killed,
                     Forget, Appending, InCriticalSection, Carrying, Labels
<1>11. CASE ClearStaleLock \/ MoveHead \/ UNCHANGED vars
  <2>1. UNCHANGED <<ledger, pc, window>>
    BY <1>11 DEF ClearStaleLock, MoveHead, vars
  <2>2. RebuiltWindow' = RebuiltWindow
    BY <1>3, <2>1
  <2> QED
    BY <1>1, <2>1, <2>2 DEF WindowInv, WindowAt, PauseDue
<1> QED
  BY <1>5, <1>6, <1>7, <1>8, <1>9, <1>10, <1>11 DEF Next, Progress

(* The window in memory is the rebuilt one wherever a cell may start. *)
THEOREM WindowInvHolds == Spec => []WindowInv
<1>1. Init => WindowInv
  <2> SUFFICES ASSUME Init
               PROVE  WindowInv
    OBVIOUS
  <2>1. TerminalLines = {}
    BY DEF Init, TerminalLines
  <2>2. Ranked(TerminalLines)
    BY <2>1, FS_EmptySet DEF Ranked
  <2> QED
    BY <2>2 DEF Init, WindowInv, WindowAt, Carrying
<1>2. /\ TypeOK /\ TypeOK' /\ MutualExclusion /\ LedgerInv /\ BundleInv /\ WindowInv
      /\ [Next]_vars
      => WindowInv'
  BY SuiteAssumption, NextWindow
<1> QED
  BY <1>1, <1>2, TypeCorrect, ExclusionHolds, LedgerInvHolds, BundleInvHolds, PTL DEF Spec

(* A restart rebuilds the window the process carried.                        *)
THEOREM WindowAlwaysSurvives == Spec => []WindowSurvivesRestart
<1>1. WindowInv => WindowSurvivesRestart
  BY DEF WindowInv, WindowAt, Carrying, WindowSurvivesRestart
<1> QED
  BY <1>1, WindowInvHolds, PTL

-----------------------------------------------------------------------------
(* The contract *)

LEMMA SameCardinality == \A S : Contract!Cardinality(S) = Cardinality(S)
BY DEF Contract!Cardinality, Cardinality, Contract!IsFiniteSet, IsFiniteSet

(* The contract pauses exactly when the code's rule does. *)
LEMMA PausedMeansDue ==
    ASSUME SuiteAssumption, TypeOK
    PROVE  Contract!Paused <=> PauseDue(RebuiltWindow)
<1> DEFINE W == RebuiltWindow
           Recent == {i \in (Len(W) - WindowSize + 1)..Len(W) : ~W[i]}
<1>1. Len(W) \in Nat /\ WindowSize \in Nat \ {0}
  BY RebuiltWindowType DEF SuiteAssumption
<1>2. Contract!Misses = {i \in 1..Len(W) : i > Len(W) - WindowSize /\ ~W[i]}
  BY DEF Contract!Misses
<1> HIDE DEF W
<1>3. Len(W) >= WindowSize => Contract!Misses = Recent
  BY <1>1, <1>2
<1>4. Contract!Paused <=> Len(W) >= WindowSize /\ Cardinality(Contract!Misses) >= WindowThreshold
  BY SameCardinality DEF Contract!Paused, W
<1>5. PauseDue(W) <=> Len(W) >= WindowSize /\ Cardinality(Recent) >= WindowThreshold
  BY DEF PauseDue
<1> QED
  BY <1>3, <1>4, <1>5 DEF W

(* Every step of a suite is a step of the contract, or none. *)
LEMMA StepSimulates ==
    ASSUME SuiteAssumption, TypeOK, LedgerInv, BundleInv, FlightInv, WindowInv, [Next]_vars
    PROVE  [Contract!Next]_<<ReadLedger, RebuiltWindow>>
<1>1. ASSUME NEW r \in Runners, Appending(r), ledger' = Append(ledger, PendingEntry(r)),
             UNCHANGED artifact
      PROVE  Contract!Next
  <2> DEFINE e == PendingEntry(r)
  <2>1. /\ e \in Entries /\ e.cell \in Cells /\ e.state \in States
        /\ ReadLedger' = [ReadLedger EXCEPT ![e.cell] = e.state]
        /\ \/ pc[r] = "next" /\ e.state = "STARTED" /\ ReadLedger[e.cell] = "ABSENT"
           \/ /\ pc[r] \in {"settle", "record"} /\ e.cell = cell[r]
              /\ e.state # "STARTED" /\ ReadLedger[e.cell] = "STARTED"
    BY <1>1, AppendRead
  <2>2. RebuiltWindow' = IF Scored(e) THEN Append(RebuiltWindow, CleanPass(e))
                                      ELSE RebuiltWindow
    BY <1>1, <2>1, WindowAppend DEF WindowInv
  <2>3. CASE pc[r] = "next"
    <3>1. \A d \in Cells : ReadLedger[d] # "STARTED"
      BY <2>3 DEF FlightInv, FlightAt
    <3>2. ~Contract!Paused
      <4>1. window[r] = RebuiltWindow /\ ~PauseDue(window[r])
        BY <2>3 DEF WindowInv, WindowAt, Carrying
      <4> QED
        BY <4>1, PausedMeansDue
    <3>3. e.state = "STARTED" /\ ReadLedger[e.cell] = "ABSENT" /\ ~Scored(e)
      BY <2>1, <2>3 DEF Scored
    <3> HIDE DEF e
    <3>4. Contract!Begin(e.cell)
      BY <2>1, <2>2, <3>1, <3>2, <3>3 DEF Contract!Begin
    <3> QED
      BY <2>1, <3>4 DEF Contract!Next
  <2>4. CASE pc[r] \in {"settle", "record"}
    <3>1. ReadLedger[e.cell] = "STARTED" /\ e.state \in {"COMPLETED", "FAILED"}
      BY <2>1, <2>4 DEF States
    <3>2. CleanPass(e) \in BOOLEAN /\ (CleanPass(e) => e.state = "COMPLETED")
      BY DEF CleanPass
    <3>3. Scored(e) <=> e.cell \in ModelBacked
      BY <3>1 DEF Scored
    <3> HIDE DEF e
    <3>4. Contract!Settle(e.cell)
      BY <2>1, <2>2, <3>1, <3>2, <3>3 DEF Contract!Settle
    <3> QED
      BY <2>1, <3>4 DEF Contract!Next
  <2> QED
    BY <2>3, <2>4, <1>1 DEF Appending
<1>2. ASSUME UNCHANGED ledger,
             \A c \in Cells : artifact'[c] # artifact[c] => ReadLedger[c] = "STARTED"
      PROVE  UNCHANGED <<ReadLedger, RebuiltWindow>>
  <2>1. ReadLedger' = ReadLedger
    BY <1>2 DEF ReadLedger, HasEntry
  <2>2. RebuiltWindow' = RebuiltWindow
    BY <1>2, WindowKept DEF WindowInv
  <2> QED
    BY <2>1, <2>2
<1> QED
  BY <1>1, <1>2, LedgerStep

(* A suite begins where its contract does. *)
LEMMA InitSimulates ==
    ASSUME Init
    PROVE  Contract!Init
<1>1. ReadLedger = [c \in Cells |-> "ABSENT"]
  BY DEF Init, ReadLedger, HasEntry
<1>2. TerminalLines = {}
  BY DEF Init, TerminalLines
<1>3. Cardinality(TerminalLines) = 0
  BY <1>2, FS_EmptySet
<1>4. RebuiltWindow = <<>>
  BY <1>3 DEF RebuiltWindow
<1> QED
  BY <1>1, <1>4 DEF Contract!Init

(* The suite implements its contract: one cell in flight, one final score    *)
(* per cell, and no start while the pause rule is due, across every kill,    *)
(* cancellation and resume.                                                  *)
THEOREM SuiteImplementsContract == Spec => ImplementsContract
<1>1. Init => Contract!Init
  BY InitSimulates
<1>2. TypeOK /\ LedgerInv /\ BundleInv /\ FlightInv /\ WindowInv /\ [Next]_vars
         => [Contract!Next]_<<ReadLedger, RebuiltWindow>>
  BY SuiteAssumption, StepSimulates
<1> QED
  BY <1>1, <1>2, TypeCorrect, LedgerInvHolds, BundleInvHolds, FlightInvHolds,
     WindowInvHolds, PTL
  DEF Spec, ImplementsContract, Contract!Spec
=============================================================================
