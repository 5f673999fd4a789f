-------------------------- MODULE SuiteArchiveProofs --------------------------
(***************************************************************************)
(* What analyses, reports and archives say of a suite is true, for any     *)
(* cells and groups, any number of clerks, any verdicts and kills.         *)
(*                                                                         *)
(* The argument: a step only ever adds to the ledger, and neither the line *)
(* nor the bundle of a cell that has ended changes again (Grows).  What a  *)
(* clerk has read of such a cell is therefore true of any later suite, and *)
(* the archiver's second look at the listing and at the ledger shows that  *)
(* neither the set of interrupted bundles nor the ledger grew while it     *)
(* copied them.                                                            *)
(***************************************************************************)
EXTENDS SuiteArchive, FiniteSetTheorems, SequenceTheorems, WellFoundedInduction, TLAPS

States == {"ABSENT", "STARTED", "COMPLETED", "FAILED"}
Contents == Verdicts \cup {"none", "setup"}
Line == [cell : Cells, state : States]

Busy      == {"repair", "replace", "evaluate", "settle"}
Rendering == {"summary.json", "rename summary", "report.md", "rename report"}
Reporting == {"report"} \cup Rendering
Relisted  == {"rehash", "rehash others"}
Owning    == {"copy", "recheck", "relist"} \cup Relisted
Digested  == {"hash", "hash others", "matrix"} \cup Owning
Labels    == {"idle", "analyse", "names"} \cup Reporting \cup Digested

(* The suite by itself: at most one cell is started, only a busy runner has  *)
(* it in hand, and an ended cell's last line is its bundle's.                *)
SuiteInv ==
  /\ scope \in SUBSET Cells /\ scope # {}
  /\ ledger \in Seq(Line)
  /\ bundle \in [Cells -> Contents]
  /\ aside \in SUBSET Cells
  /\ torn \in BOOLEAN /\ (runner # "away" => ~torn)
  /\ runner \in {"away", "between"} \cup Busy
  /\ \A c, d \in Started : c = d
  /\ runner = "between" => Started = {}
  /\ runner \in Busy => Started # {}
  /\ \A c \in Cells : Terminal(StateIn(ledger, c)) => StateIn(ledger, c) = Final(bundle[c])
  /\ \A c \in aside : StateIn(ledger, c) # "ABSENT"

AllEnded == \A c \in Cells : Terminal(StateIn(ledger, c))

(* What a clerk has read of ended cells is still so.                         *)
ReadInv ==
  /\ pc \in [Clerks -> Labels]
  /\ seen \in [Clerks -> [Cells -> States]]
  /\ DOMAIN rows = Clerks /\ DOMAIN before = Clerks
  /\ \A p \in Clerks :
       /\ \A c \in Cells : Terminal(seen[p][c]) => StateIn(ledger, c) = seen[p][c]
       /\ DOMAIN rows[p] \subseteq TerminalCells(p)
       /\ rows[p] = [c \in DOMAIN rows[p] |-> bundle[c]]

(* A report is of all bundles of a suite that has ended.                     *)
ReportInv ==
  /\ summary # NoFile => summary = bundle /\ AllEnded
  /\ report # NoFile => report = bundle /\ AllEnded
  /\ \A p \in Clerks :
       /\ pc[p] \in Reporting => TerminalCells(p) = Cells
       /\ pc[p] \in Rendering => DOMAIN rows[p] = Cells

(* A ledger as somebody read it at an earlier time.                          *)
Earlier(lines) ==
  /\ lines \in Seq(Line)
  /\ IsPrefix(lines, ledger)
  /\ \A c \in Cells :
       /\ Terminal(StateIn(lines, c)) => StateIn(ledger, c) = StateIn(lines, c)
       /\ StateIn(lines, c) # "ABSENT" => StateIn(ledger, c) # "ABSENT"

(* What an archiver listed and hashed first is of the suite as it was then.  *)
DigestInv(p) ==
  LET listed == before[p].listed
      hashed == before[p].ledger
  IN  /\ listed.aside \subseteq aside
      /\ "ledger" \in listed.names
      /\ "interrupted" \in listed.names \/ listed.aside = {}
      /\ scope = Cells /\ TerminalCells(p) = Cells => {"summary", "report"} \subseteq listed.names
      /\ pc[p] # "hash" =>
           /\ Len(hashed.lines) \in Nat /\ Len(hashed.lines) <= Len(ledger)
           /\ hashed.torn => torn

ArchiveFields == {"names", "sealed", "rows", "files", "digest"}

(* What an archive says, with the facts that keep it true.                   *)
Kept == IF "interrupted" \in archive.names THEN archive.files["interrupted"] ELSE {}

TrueArchive ==
  LET copied == archive.files["ledger"].lines
      cells == DOMAIN archive.rows
  IN  /\ Earlier(copied)
      /\ cells \subseteq Cells
      /\ \A c \in cells : archive.rows[c] = bundle[c] /\ StateIn(copied, c) = Final(bundle[c])
      /\ scope = Cells /\ cells = Cells =>
           archive.files["summary"] = archive.rows /\ archive.files["report"] = archive.rows
      /\ Kept \subseteq aside
      /\ \A c \in aside : Terminal(StateIn(copied, c)) => c \in Kept
      /\ \A c \in Kept : StateIn(copied, c) # "ABSENT"

TrueDigest == archive.digest = [ledger |-> archive.files["ledger"], interrupted |-> Kept]

(* A copy of the ledger that is no older than the hash.                      *)
CopiedLedger(p) ==
  LET hashed == before[p].ledger
      copied == archive.files["ledger"]
  IN  /\ copied = [lines |-> copied.lines, torn |-> copied.torn]
      /\ copied.torn \in BOOLEAN /\ (hashed.torn => copied.torn) /\ (copied.torn => torn)
      /\ Earlier(copied.lines) /\ Len(hashed.lines) <= Len(copied.lines)
      /\ \A c \in TerminalCells(p) : StateIn(copied.lines, c) = seen[p][c]
      /\ \A c \in before[p].listed.aside : StateIn(copied.lines, c) # "ABSENT"

(* The archive an archiver is filling.                                       *)
CopyInv(p) ==
  LET first == before[p]
  IN  /\ DOMAIN archive = ArchiveFields /\ archive.sealed = FALSE
      /\ DOMAIN archive.files = archive.names
      /\ DOMAIN rows[p] = TerminalCells(p)
      /\ "ledger" \in archive.names => CopiedLedger(p)
      /\ "interrupted" \in archive.names =>
           /\ first.listed.aside \subseteq archive.files["interrupted"]
           /\ archive.files["interrupted"] \subseteq aside
      /\ \A n \in {"summary", "report"} \cap archive.names :
           archive.files[n] = bundle /\ AllEnded
      /\ pc[p] # "copy" =>
           /\ first.listed.names \subseteq archive.names /\ archive.rows = rows[p]
           /\ archive.digest = [ledger |-> first.ledger, interrupted |-> first.listed.aside]
      /\ pc[p] \in Relisted => TrueArchive /\ first.listed.aside = Kept
      /\ pc[p] = "rehash others" => TrueDigest

(* One archiver at a time fills an archive, and nobody touches a sealed one. *)
ArchiveInv ==
  /\ \A p \in Clerks : pc[p] \in Digested => DigestInv(p)
  /\ \A p \in Clerks : pc[p] \in Owning => CopyInv(p)
  /\ \A p, q \in Clerks : pc[p] \in Owning /\ pc[q] \in Owning => p = q
  /\ archive # NoArchive /\ archive.sealed => TrueArchive /\ TrueDigest

IInv == SuiteInv /\ ReadInv /\ ReportInv /\ ArchiveInv /\ MainNumbersHold

-----------------------------------------------------------------------------
(* Operators the model is built from *)

(* A nonempty set of cells, or of places in a ledger, has a first element.   *)
LEMMA FirstOf ==
  ASSUME NEW S \in SUBSET Nat, S # {}
  PROVE  First(S) \in S /\ \A d \in S : First(S) <= d
<1> DEFINE Less == {p \in Nat \X Nat : p[1] < p[2]}
<1>1. IsWellFoundedOn(Less, Nat)
  BY NatLessThanWellFounded, Zenon DEF OpToRel
<1>2. \A x, y \in Nat : x < y => <<x, y>> \in Less
  OBVIOUS
<1> HIDE DEF Less
<1>3. PICK c \in S : \A d \in S : ~(<<d, c>> \in Less)
  BY <1>1, WFMin
<1>4. \A d \in S : c <= d
  <2> SUFFICES ASSUME NEW d \in S, d < c
               PROVE  FALSE
    OBVIOUS
  <2>1. d \in Nat /\ c \in Nat
    OBVIOUS
  <2> QED
    BY <2>1, <1>2, <1>3
<1> QED
  BY <1>4 DEF First

(* Places of a cell in a ledger.                                             *)
Places(lines, c) == {i \in DOMAIN lines : lines[i].cell = c}
Latest(S) == CHOOSE i \in S : \A j \in S : j <= i

(* A cell with a line has a latest one.                                      *)
LEMMA LatestOf ==
  ASSUME NEW S \in SUBSET Nat, NEW n \in Nat, \A i \in S : i <= n, S # {}
  PROVE  Latest(S) \in S /\ \A j \in S : j <= Latest(S)
<1> DEFINE Back == {n - i : i \in S}
<1>1. Back \in SUBSET Nat /\ Back # {}
  <2>1. \A i \in S : n - i \in Nat
    OBVIOUS
  <2> QED
    BY <2>1
<1>2. First(Back) \in Back /\ \A d \in Back : First(Back) <= d
  BY <1>1, FirstOf
<1>3. PICK i \in S : First(Back) = n - i
  BY <1>2
<1>4. \A j \in S : j <= i
  <2> TAKE j \in S
  <2>1. n - i <= n - j
    BY <1>2, <1>3
  <2> QED
    BY <2>1
<1> QED
  BY <1>4 DEF Latest

(* The state of a cell is that of its latest line.                           *)
LEMMA StateByPlaces ==
  ASSUME NEW lines, NEW c
  PROVE  StateIn(lines, c) = IF Places(lines, c) = {} THEN "ABSENT"
                             ELSE lines[Latest(Places(lines, c))].state
  BY DEF StateIn, Places, Latest

(* A line says something of its own cell only.                               *)
LEMMA StateInAppend ==
  ASSUME NEW lines \in Seq(Line), NEW e \in Line, NEW c
  PROVE  StateIn(Append(lines, e), c) = IF e.cell = c THEN e.state ELSE StateIn(lines, c)
<1> DEFINE more == Append(lines, e)
           old  == Places(lines, c)
           new  == Places(more, c)
           n    == Len(lines) + 1
<1>1. /\ Len(lines) \in Nat /\ DOMAIN lines = 1..Len(lines)
      /\ DOMAIN more = 1..n /\ more[n] = e
      /\ \A i \in 1..Len(lines) : more[i] = lines[i]
  OBVIOUS
<1> HIDE DEF more, n
<1>2. old \in SUBSET Nat /\ (\A i \in old : i <= Len(lines)) /\ old \subseteq DOMAIN lines
  BY <1>1 DEF Places
<1>3. n \in Nat /\ DOMAIN more = DOMAIN lines \cup {n} /\ n \notin DOMAIN lines
  BY <1>1 DEF n
<1>4. new = IF e.cell = c THEN old \cup {n} ELSE old
  BY <1>1, <1>3 DEF Places
<1>5. CASE e.cell = c
  <2>1. new \in SUBSET Nat /\ (\A i \in new : i <= n) /\ n \in new
    BY <1>2, <1>3, <1>4, <1>5, <1>1 DEF n
  <2>2. Latest(new) = n
    <3>1. Latest(new) \in new /\ \A j \in new : j <= Latest(new)
      BY <2>1, <1>3, LatestOf
    <3> QED
      BY <3>1, <2>1, <1>3
  <2> QED
    BY <2>1, <2>2, <1>1, <1>5, StateByPlaces DEF more
<1>6. CASE e.cell # c /\ old # {}
  <2>1. Latest(old) \in old
    BY <1>1, <1>2, <1>6, LatestOf
  <2>2. more[Latest(old)] = lines[Latest(old)]
    BY <2>1, <1>1, <1>2
  <2> QED
    BY <1>4, <1>6, <2>2, StateByPlaces DEF more
<1>7. CASE e.cell # c /\ old = {}
  BY <1>4, <1>7, StateByPlaces DEF more
<1> QED
  BY <1>5, <1>6, <1>7

(* A ledger gives every cell one of the four states.                         *)
LEMMA StateInType ==
  ASSUME NEW lines \in Seq(Line), NEW c
  PROVE  StateIn(lines, c) \in States
<1>1. CASE Places(lines, c) = {}
  BY <1>1, StateByPlaces DEF States
<1>2. CASE Places(lines, c) # {}
  <2>1. Places(lines, c) \in SUBSET Nat /\ \A i \in Places(lines, c) : i <= Len(lines)
    BY DEF Places
  <2>2. Latest(Places(lines, c)) \in DOMAIN lines
    BY <1>2, <2>1, LatestOf, Len(lines) \in Nat DEF Places
  <2>3. lines[Latest(Places(lines, c))] \in Line
    BY <2>2
  <2> QED
    BY <1>2, <2>3, StateByPlaces DEF Line
<1> QED
  BY <1>1, <1>2

(* A prefix agrees with the whole place by place.                            *)
LEMMA PrefixPoints ==
  ASSUME NEW s \in Seq(Line), NEW t \in Seq(Line)
  PROVE  IsPrefix(s, t) <=> Len(s) <= Len(t) /\ \A i \in 1..Len(s) : s[i] = t[i]
<1>1. SubSeq(s, 1, Len(s)) = s
  OBVIOUS
<1>2. ASSUME Len(s) <= Len(t)
      PROVE  /\ SubSeq(t, 1, Len(s)) \in Seq(Line) /\ Len(SubSeq(t, 1, Len(s))) = Len(s)
             /\ \A i \in 1..Len(s) : SubSeq(t, 1, Len(s))[i] = t[i]
  BY <1>2
<1>3. ASSUME Len(s) <= Len(t), \A i \in 1..Len(s) : s[i] = t[i]
      PROVE  s = SubSeq(t, 1, Len(s))
  <2> DEFINE u == SubSeq(t, 1, Len(s))
  <2>1. u \in Seq(Line) /\ Len(u) = Len(s) /\ \A i \in 1..Len(s) : u[i] = s[i]
    BY <1>2, <1>3
  <2> HIDE DEF u
  <2>2. s = u
    BY <2>1, SeqEqual
  <2> QED
    BY <2>2 DEF u
<1> QED
  BY <1>1, <1>2, <1>3 DEF IsPrefix

-----------------------------------------------------------------------------
(* What any step does to the suite *)

(* What has ended stays as it is; the rest is only ever added to.            *)
Grows ==
  /\ scope' = scope
  /\ ledger' = ledger \/ \E e \in Line : ledger' = Append(ledger, e)
  /\ \A c \in Cells :
       /\ Terminal(StateIn(ledger, c)) =>
            StateIn(ledger', c) = StateIn(ledger, c) /\ bundle'[c] = bundle[c]
       /\ StateIn(ledger, c) # "ABSENT" => StateIn(ledger', c) # "ABSENT"
  /\ aside \subseteq aside'
  /\ \A c \in aside' \ aside : StateIn(ledger, c) = "STARTED"
  /\ torn => torn'

LEMMA CellsType == Cells \in SUBSET Nat /\ IsFiniteSet(Cells)
<1>1. IsFiniteSet(Cells) /\ Cells = 1..Cardinality(Cells)
  BY ArchiveAssumption
<1>2. Cardinality(Cells) \in Nat
  BY <1>1, FS_CardinalityType
<1> QED
  BY <1>1, <1>2

(* The cell in hand is the one that was started.                             *)
LEMMA InHand ==
  ASSUME SuiteInv, Started # {}
  PROVE  First(Started) \in Cells /\ Started = {First(Started)}
<1>1. Started \in SUBSET Cells
  BY DEF Started
<1>2. First(Started) \in Started
  BY <1>1, CellsType, FirstOf
<1> QED
  BY <1>1, <1>2 DEF SuiteInv

(* A step that leaves the suite's own files alone adds nothing.              *)
LEMMA StillGrows ==
  ASSUME SuiteInv, UNCHANGED <<scope, ledger, bundle, aside>>, torn => torn'
  PROVE  Grows
  BY DEF Grows

(* A line starts an absent cell while none is in hand, or ends the one that  *)
(* is with what its bundle says.                                             *)
Appends(e) ==
  /\ ledger' = Append(ledger, e) /\ UNCHANGED <<scope, bundle, aside, torn>>
  /\ runner' \in {"between"} \cup Busy
  /\ \/ /\ StateIn(ledger, e.cell) = "ABSENT" /\ e.state = "STARTED"
        /\ Started = {} /\ runner' \in Busy
     \/ /\ StateIn(ledger, e.cell) = "STARTED" /\ e.state = Final(bundle[e.cell])
        /\ runner' = "between"

LEMMA RunnerAppends ==
  ASSUME SuiteInv, StartCell \/ Settle
  PROVE  \E e \in Line : Appends(e)
<1>1. CASE StartCell
  <2> DEFINE c == First(Unstarted)
             e == [cell |-> c, state |-> "STARTED"]
  <2>1. Unstarted # {} /\ Unstarted \in SUBSET Cells
    BY <1>1 DEF StartCell, Unstarted, SuiteInv
  <2>2. c \in Unstarted
    BY <2>1, CellsType, FirstOf
  <2>3. e \in Line /\ e.cell = c /\ e.state = "STARTED" /\ StateIn(ledger, c) = "ABSENT"
    BY <2>1, <2>2 DEF Line, States, Unstarted
  <2>4. /\ ledger' = Append(ledger, e) /\ UNCHANGED <<scope, bundle, aside, torn>>
        /\ runner' \in Busy /\ Started = {}
    BY <1>1 DEF StartCell, Append1, SuiteInv, Busy
  <2> HIDE DEF c, e
  <2> QED
    BY <2>3, <2>4 DEF Appends
<1>2. CASE Settle
  <2> DEFINE c == First(Started)
             e == [cell |-> c, state |-> Final(bundle[c])]
  <2>1. c \in Cells /\ Started = {c}
    BY <1>2, InHand DEF Settle, SuiteInv, Busy
  <2>2. e \in Line /\ e.cell = c /\ e.state = Final(bundle[c])
    BY <2>1 DEF Line, States, Final
  <2>3. StateIn(ledger, c) = "STARTED"
    BY <2>1 DEF Started
  <2>4. /\ ledger' = Append(ledger, e) /\ UNCHANGED <<scope, bundle, aside, torn>>
        /\ runner' = "between"
    BY <1>2 DEF Settle, Append1
  <2> HIDE DEF c, e
  <2> QED
    BY <2>2, <2>3, <2>4 DEF Appends
<1> QED
  BY <1>1, <1>2

(* The runner keeps the suite's invariant and only adds.                     *)
LEMMA RunnerGrows ==
  ASSUME SuiteInv, RunnerStep \/ KillRunner
  PROVE  SuiteInv' /\ Grows /\ UNCHANGED <<summary, report, clerk, archive, told>>
<1>1. UNCHANGED <<summary, report, clerk, archive, told>>
  BY DEF RunnerStep, KillRunner, Enter, SetAside, Replace, StartCell, Evaluate, Settle, Leave,
         ClearStaleLock, clerk, Append1
<1>2. ASSUME NEW c \in Cells
      PROVE  StateIn(ledger, c) \in States
  BY StateInType DEF SuiteInv
<1>3. CASE Enter \/ Leave \/ KillRunner \/ ClearStaleLock
  <2>1. UNCHANGED <<scope, ledger, bundle, aside>>
    BY <1>3 DEF Enter, Leave, KillRunner, ClearStaleLock
  <2>2. Started' = Started
    BY <2>1 DEF Started
  <2>3. runner' \in {"away", "between"} \cup Busy
    BY <1>3 DEF Enter, Leave, KillRunner, ClearStaleLock, SuiteInv, Busy
  <2>4. /\ runner' = "between" => Started = {}
        /\ runner' \in Busy => Started # {}
    BY <1>3 DEF Enter, Leave, KillRunner, ClearStaleLock, SuiteInv, Busy
  <2>5. torn' \in BOOLEAN /\ (torn => torn') /\ (runner' # "away" => ~torn')
    BY <1>3 DEF Enter, Leave, KillRunner, ClearStaleLock, SuiteInv
  <2>6. SuiteInv'
    BY <2>1, <2>2, <2>3, <2>4, <2>5 DEF SuiteInv
  <2> QED
    BY <1>1, <2>1, <2>5, <2>6, StillGrows
<1>4. ASSUME Started # {}, UNCHANGED <<scope, ledger, torn>>, runner \in Busy, runner' \in Busy,
             bundle' \in [Cells -> Contents],
             \A d \in Cells : d # First(Started) => bundle'[d] = bundle[d],
             aside \subseteq aside', aside' \subseteq aside \cup {First(Started)}
      PROVE  SuiteInv' /\ Grows
  <2> DEFINE c == First(Started)
  <2>1. c \in Cells /\ Started = {c} /\ StateIn(ledger, c) = "STARTED"
    BY <1>4, InHand DEF Started
  <2> HIDE DEF c
  <2>2. \A d \in Cells : Terminal(StateIn(ledger, d)) => bundle'[d] = bundle[d]
    BY <1>4, <2>1 DEF Terminal, c
  <2>3. Started' = Started
    BY <1>4 DEF Started
  <2>4. aside' \subseteq aside \cup {c}
    BY <1>4 DEF c
  <2>5. Grows
    BY <1>4, <2>1, <2>2, <2>4 DEF Grows
  <2>6. \A d \in Cells : Terminal(StateIn(ledger', d)) => StateIn(ledger', d) = Final(bundle'[d])
    BY <1>4, <2>2 DEF SuiteInv
  <2>7. aside' \in SUBSET Cells /\ \A d \in aside' : StateIn(ledger', d) # "ABSENT"
    BY <1>4, <2>1, <2>4 DEF SuiteInv
  <2>8. runner' # "between" /\ ~torn'
    BY <1>4 DEF Busy, SuiteInv
  <2> QED
    BY <1>4, <2>3, <2>5, <2>6, <2>7, <2>8 DEF SuiteInv
<1>5. CASE SetAside \/ Replace \/ Evaluate
  <2>1. Started # {} /\ UNCHANGED <<scope, ledger, torn>> /\ runner \in Busy /\ runner' \in Busy
    BY <1>5 DEF SetAside, Replace, Evaluate, SuiteInv, Busy
  <2>2. First(Started) \in Cells
    BY <2>1, InHand
  <2>3. /\ bundle' \in [Cells -> Contents]
        /\ \A d \in Cells : d # First(Started) => bundle'[d] = bundle[d]
    BY <1>5, <2>2 DEF SetAside, Replace, Evaluate, SuiteInv, Contents
  <2>4. aside \subseteq aside' /\ aside' \subseteq aside \cup {First(Started)}
    BY <1>5 DEF SetAside, Replace, Evaluate
  <2> QED
    BY <1>1, <1>4, <2>1, <2>3, <2>4
<1>6. ASSUME NEW e \in Line, ledger' = Append(ledger, e),
             UNCHANGED <<scope, bundle, aside, torn>>, ~torn, runner' \in {"between"} \cup Busy,
             \/ /\ StateIn(ledger, e.cell) = "ABSENT" /\ e.state = "STARTED"
                /\ Started = {} /\ runner' \in Busy
             \/ /\ StateIn(ledger, e.cell) = "STARTED" /\ e.state = Final(bundle[e.cell])
                /\ runner' = "between"
      PROVE  SuiteInv' /\ Grows
  <2>1. \A d \in Cells : StateIn(ledger', d) = IF e.cell = d THEN e.state ELSE StateIn(ledger, d)
    BY <1>6, StateInAppend DEF SuiteInv
  <2>2. e.cell \in Cells /\ e.state \in States
    BY DEF Line
  <2>3. ~Terminal(StateIn(ledger, e.cell)) /\ e.state # "ABSENT"
    BY <1>6 DEF Terminal, Final
  <2>4. Grows
    BY <1>6, <2>1, <2>3 DEF Grows
  <2>5. ledger' \in Seq(Line)
    BY <1>6 DEF SuiteInv
  <2>6. \A d \in Cells : Terminal(StateIn(ledger', d)) => StateIn(ledger', d) = Final(bundle'[d])
    <3> TAKE d \in Cells
    <3>1. CASE e.cell = d
      BY <1>6, <2>1, <3>1 DEF Terminal
    <3>2. CASE e.cell # d
      BY <1>6, <2>1, <3>2 DEF SuiteInv
    <3> QED
      BY <3>1, <3>2
  <2>7. \A d \in aside' : StateIn(ledger', d) # "ABSENT"
    BY <1>6, <2>4 DEF SuiteInv, Grows
  <2>8. /\ \A c, d \in Started' : c = d
        /\ runner' = "between" => Started' = {}
        /\ runner' \in Busy => Started' # {}
    <3>1. CASE StateIn(ledger, e.cell) = "ABSENT"
      <4>1. e.state = "STARTED" /\ Started = {} /\ runner' # "between"
        BY <1>6, <3>1 DEF Busy
      <4>2. Started' = {e.cell}
        BY <2>1, <2>2, <4>1 DEF Started
      <4> QED
        BY <4>1, <4>2
    <3>2. CASE StateIn(ledger, e.cell) = "STARTED"
      <4>1. runner' = "between" /\ e.state # "STARTED"
        BY <1>6, <3>2 DEF Final
      <4>2. Started = {e.cell}
        BY <2>2, <3>2 DEF Started, SuiteInv
      <4>3. Started' = {}
        BY <2>1, <4>1, <4>2 DEF Started
      <4> QED
        BY <4>1, <4>3 DEF Busy
    <3> QED
      BY <1>6, <3>1, <3>2
  <2> QED
    BY <1>6, <2>4, <2>5, <2>6, <2>7, <2>8 DEF SuiteInv
<1>7. CASE StartCell \/ Settle
  <2>1. PICK e \in Line : Appends(e)
    BY <1>7, RunnerAppends
  <2>2. ~torn
    BY <1>7 DEF StartCell, Settle, SuiteInv
  <2> QED
    BY <1>1, <1>6, <2>1, <2>2 DEF Appends
<1> QED
  BY <1>3, <1>5, <1>7 DEF RunnerStep

-----------------------------------------------------------------------------
(* What stays true while the suite grows *)

LEMMA EarlierKept ==
  ASSUME SuiteInv, Grows, NEW lines, Earlier(lines)
  PROVE  /\ lines \in Seq(Line) /\ IsPrefix(lines, ledger')
         /\ \A c \in Cells :
              /\ Terminal(StateIn(lines, c)) => StateIn(ledger', c) = StateIn(lines, c)
              /\ StateIn(lines, c) # "ABSENT" => StateIn(ledger', c) # "ABSENT"
<1>1. lines \in Seq(Line) /\ ledger \in Seq(Line)
  BY DEF Earlier, SuiteInv
<1>2. Len(lines) <= Len(ledger) /\ \A i \in 1..Len(lines) : lines[i] = ledger[i]
  BY <1>1, PrefixPoints DEF Earlier
<1>3. CASE ledger' = ledger
  BY <1>3 DEF Earlier
<1>4. CASE ledger' # ledger
  <2>1. PICK e \in Line : ledger' = Append(ledger, e)
    BY <1>4 DEF Grows
  <2>2. /\ ledger' \in Seq(Line) /\ Len(ledger') = Len(ledger) + 1
        /\ \A i \in 1..Len(ledger) : ledger'[i] = ledger[i]
    BY <1>1, <2>1
  <2>3. Len(lines) \in Nat /\ Len(ledger) \in Nat
    BY <1>1
  <2>4. Len(lines) <= Len(ledger') /\ \A i \in 1..Len(lines) : lines[i] = ledger'[i]
    BY <1>2, <2>2, <2>3
  <2>5. IsPrefix(lines, ledger')
    BY <1>1, <2>2, <2>4, PrefixPoints
  <2> QED
    BY <2>5 DEF Earlier, Grows
<1> QED
  BY <1>3, <1>4

LEMMA EndedStays ==
  ASSUME SuiteInv, SuiteInv', Grows, AllEnded
  PROVE  AllEnded' /\ bundle' = bundle
<1>1. \A c \in Cells : StateIn(ledger', c) = StateIn(ledger, c) /\ bundle'[c] = bundle[c]
  BY DEF Grows, AllEnded
<1>2. bundle \in [Cells -> Contents] /\ bundle' \in [Cells -> Contents]
  BY DEF SuiteInv
<1> QED
  BY <1>1, <1>2 DEF AllEnded

LEMMA DigestFrame ==
  ASSUME SuiteInv, Grows, NEW q \in Clerks, DigestInv(q),
         before'[q] = before[q], seen'[q] = seen[q], pc'[q] # "hash" => pc[q] # "hash"
  PROVE  DigestInv(q)'
<1>1. TerminalCells(q)' = TerminalCells(q)
  BY DEF TerminalCells
<1>2. ledger \in Seq(Line) /\ Len(ledger) \in Nat
  BY DEF SuiteInv
<1>3. Len(ledger') \in Nat /\ Len(ledger) <= Len(ledger')
  <2>1. CASE ledger' = ledger
    BY <1>2, <2>1
  <2>2. CASE ledger' # ledger
    BY <1>2, <2>2 DEF Grows
  <2> QED
    BY <2>1, <2>2
<1>4. scope' = scope /\ aside \subseteq aside' /\ (torn => torn')
  BY DEF Grows
<1>5. pc'[q] # "hash" => /\ Len(before[q].ledger.lines) \in Nat
                         /\ Len(before[q].ledger.lines) <= Len(ledger')
                         /\ before[q].ledger.torn => torn'
  BY <1>2, <1>3, <1>4 DEF DigestInv
<1> QED
  BY <1>1, <1>4, <1>5 DEF DigestInv

LEMMA TrueFrame ==
  ASSUME SuiteInv, SuiteInv', Grows, TrueArchive, archive' = archive
  PROVE  TrueArchive'
<1> DEFINE copied == archive.files["ledger"].lines
<1>1. Earlier(copied)
  BY DEF TrueArchive
<1>2. Earlier(copied)'
  BY <1>1, EarlierKept DEF Earlier
<1>3. /\ DOMAIN archive.rows \subseteq Cells
      /\ \A c \in DOMAIN archive.rows :
           archive.rows[c] = bundle'[c] /\ StateIn(copied, c) = Final(bundle'[c])
  <2>1. /\ DOMAIN archive.rows \subseteq Cells
        /\ \A c \in DOMAIN archive.rows :
             archive.rows[c] = bundle[c] /\ StateIn(copied, c) = Final(bundle[c])
    BY DEF TrueArchive
  <2>2. \A c \in DOMAIN archive.rows : Terminal(StateIn(ledger, c))
    <3> TAKE c \in DOMAIN archive.rows
    <3>1. Terminal(StateIn(copied, c))
      BY <2>1 DEF Terminal, Final
    <3> QED
      BY <1>1, <2>1, <3>1 DEF Earlier
  <2> QED
    BY <2>1, <2>2 DEF Grows
<1>4. /\ Kept \subseteq aside'
      /\ \A c \in Kept : StateIn(copied, c) # "ABSENT"
  BY DEF TrueArchive, Grows
<1>5. \A c \in aside' : Terminal(StateIn(copied, c)) => c \in Kept
  <2> SUFFICES ASSUME NEW c \in aside', Terminal(StateIn(copied, c))
               PROVE  c \in Kept
    OBVIOUS
  <2>1. c \in Cells
    BY DEF SuiteInv
  <2>2. Terminal(StateIn(ledger, c))
    BY <1>1, <2>1 DEF Earlier
  <2>3. c \in aside
    BY <2>2 DEF Grows, Terminal
  <2> QED
    BY <2>3 DEF TrueArchive
<1>6. scope' = Cells /\ DOMAIN archive.rows = Cells =>
        archive.files["summary"] = archive.rows /\ archive.files["report"] = archive.rows
  BY DEF TrueArchive, Grows
<1>7. Kept' = Kept
  BY DEF Kept
<1> QED
  BY <1>2, <1>3, <1>4, <1>5, <1>6, <1>7 DEF TrueArchive

LEMMA CopyFrame ==
  ASSUME SuiteInv, SuiteInv', Grows, NEW q \in Clerks, CopyInv(q),
         pc'[q] = pc[q], before'[q] = before[q], seen'[q] = seen[q], rows'[q] = rows[q],
         archive' = archive
  PROVE  CopyInv(q)'
<1> DEFINE copied == archive.files["ledger"]
<1>1. TerminalCells(q)' = TerminalCells(q)
  BY DEF TerminalCells
<1>2. "ledger" \in archive.names => CopiedLedger(q)'
  <2> SUFFICES ASSUME "ledger" \in archive.names
               PROVE  CopiedLedger(q)'
    OBVIOUS
  <2>1. CopiedLedger(q)
    BY DEF CopyInv
  <2>2. Earlier(copied.lines)'
    BY <2>1, EarlierKept DEF Earlier, CopiedLedger
  <2>3. torn => torn'
    BY DEF Grows
  <2> QED
    BY <1>1, <2>1, <2>2, <2>3 DEF CopiedLedger
<1>3. "interrupted" \in archive.names => archive.files["interrupted"] \subseteq aside'
  BY DEF CopyInv, Grows
<1>4. \A n \in {"summary", "report"} \cap archive.names : archive.files[n] = bundle' /\ AllEnded'
  BY EndedStays DEF CopyInv
<1>5. pc[q] \in Relisted => TrueArchive' /\ before[q].listed.aside = Kept'
  BY TrueFrame DEF CopyInv, Kept
<1>6. pc[q] = "rehash others" => TrueDigest'
  BY DEF CopyInv, TrueDigest, Kept
<1> QED
  BY <1>1, <1>2, <1>3, <1>4, <1>5, <1>6 DEF CopyInv

(* The runner disturbs nothing a clerk knows.                                *)
LEMMA RunnerKeeps ==
  ASSUME IInv, SuiteInv', Grows, UNCHANGED <<summary, report, clerk, archive, told>>
  PROVE  IInv'
<1>1. ReadInv'
  <2>1. pc' = pc /\ seen' = seen /\ rows' = rows /\ before' = before
    BY DEF clerk
  <2>2. ASSUME NEW p \in Clerks
        PROVE  /\ \A c \in Cells : Terminal(seen[p][c]) => StateIn(ledger', c) = seen[p][c]
               /\ rows[p] = [c \in DOMAIN rows[p] |-> bundle'[c]]
    <3>1. \A c \in Cells : Terminal(seen[p][c]) => StateIn(ledger, c) = seen[p][c]
      BY DEF IInv, ReadInv
    <3>2. DOMAIN rows[p] \subseteq TerminalCells(p) /\ rows[p] = [c \in DOMAIN rows[p] |-> bundle[c]]
      BY DEF IInv, ReadInv
    <3>3. \A c \in DOMAIN rows[p] : bundle'[c] = bundle[c]
      BY <3>1, <3>2 DEF Grows, TerminalCells
    <3> QED
      BY <3>1, <3>2, <3>3 DEF Grows
  <2>3. \A p \in Clerks : TerminalCells(p)' = TerminalCells(p)
    BY <2>1 DEF TerminalCells
  <2> QED
    BY <2>1, <2>2, <2>3 DEF IInv, ReadInv
<1>2. ReportInv'
  <2>1. AllEnded => AllEnded' /\ bundle' = bundle
    BY EndedStays DEF IInv
  <2>2. \A p \in Clerks : TerminalCells(p)' = TerminalCells(p)
    BY DEF TerminalCells, clerk
  <2> QED
    BY <2>1, <2>2 DEF IInv, ReportInv, clerk
<1>3. ArchiveInv'
  <2>1. \A p \in Clerks : pc[p] \in Digested => DigestInv(p)'
    BY DigestFrame DEF IInv, ArchiveInv, clerk
  <2>2. \A p \in Clerks : pc[p] \in Owning => CopyInv(p)'
    BY CopyFrame DEF IInv, ArchiveInv, clerk
  <2>3. archive # NoArchive /\ archive.sealed => TrueArchive' /\ TrueDigest'
    BY TrueFrame DEF IInv, ArchiveInv, TrueDigest, Kept
  <2>4. archive' # NoArchive' /\ archive'.sealed => TrueArchive' /\ TrueDigest'
    BY <2>3 DEF NoArchive
  <2> QED
    BY <2>1, <2>2, <2>4 DEF IInv, ArchiveInv, clerk
<1>4. MainNumbersHold'
  <2> SUFFICES ASSUME NEW number \in told,
                      NEW cells, cells = Members(number[1])
               PROVE  /\ \A c \in cells : Terminal(StateIn(ledger', c)) /\ ~Trial(bundle'[c]).invalid
                      /\ number[2] = [k \in 1..Cardinality(cells) |->
                           PassHat(Cardinality({c \in cells : bundle'[c] = "passed"}),
                                   Cardinality(cells), k)]
    BY DEF MainNumbersHold
  <2>1. cells \subseteq Cells
    BY DEF Members
  <2>2. /\ \A c \in cells : Terminal(StateIn(ledger, c)) /\ ~Trial(bundle[c]).invalid
        /\ number[2] = [k \in 1..Cardinality(cells) |->
             PassHat(Cardinality({c \in cells : bundle[c] = "passed"}), Cardinality(cells), k)]
    BY DEF IInv, MainNumbersHold
  <2>3. \A c \in cells : bundle'[c] = bundle[c] /\ StateIn(ledger', c) = StateIn(ledger, c)
    BY <2>1, <2>2 DEF Grows
  <2>4. {c \in cells : bundle'[c] = "passed"} = {c \in cells : bundle[c] = "passed"}
    BY <2>3
  <2> QED
    BY <2>2, <2>3, <2>4
<1> QED
  BY <1>1, <1>2, <1>3, <1>4 DEF IInv

-----------------------------------------------------------------------------
(* What a clerk's step does *)

ClerkStep(p) == ReadBundle(p) \/ Analyse(p) \/ Publish(p) \/ ArchiveSuite(p) \/ KillClerk(p)

(* Its four kinds of step, by what it then knows.                            *)
Moves(p, l) ==
  /\ l \in Labels /\ pc' = [pc EXCEPT ![p] = l]
  /\ UNCHANGED <<seen, rows>>
  /\ before' = before \/ \E first : before' = [before EXCEPT ![p] = first]
Looks(p, l) == l \in Labels /\ pc' = [pc EXCEPT ![p] = l] /\ ReadLedger(p)
Reads(p) == Unread(p) # {} /\ ReadRow(p) /\ UNCHANGED <<pc, seen, before>>

LEMMA ClerkStill ==
  ASSUME NEW p \in Clerks, ClerkStep(p)
  PROVE  UNCHANGED <<scope, ledger, bundle, aside, torn>>
  BY DEF ClerkStep, ReadBundle, Analyse, Publish, ArchiveSuite, KillClerk, BeginAnalysis,
         FinishAnalysis, BeginReport, CheckRecords, FindFile, WriteTemporary, RenameSummary,
         RenameReport, BeginArchive, ListSuite, HashLedger, HashOthers, MakeArchive, CopyFile,
         WriteMatrix, RecheckNames, RelistSuite, RehashLedger, SealArchive, suite

LEMMA ClerkKinds ==
  ASSUME ReadInv, NEW p \in Clerks, ClerkStep(p)
  PROVE  Idle(p) \/ Reads(p) \/ \E l \in Labels : Moves(p, l) \/ Looks(p, l)
<1> USE DEF Labels, Reporting, Rendering, Digested, Owning, Relisted
<1>1. pc = [pc EXCEPT ![p] = pc[p]] /\ pc[p] \in Labels
  BY DEF ReadInv
<1>2. CASE ReadBundle(p)
  BY <1>2 DEF ReadBundle, Reads
<1>3. CASE Analyse(p) \/ KillClerk(p)
  BY <1>3 DEF Analyse, KillClerk, BeginAnalysis, FinishAnalysis, Goto, Looks
<1>4. CASE BeginReport(p) \/ BeginArchive(p)
  BY <1>4 DEF BeginReport, BeginArchive, Goto, Looks
<1>5. CASE Publish(p) /\ ~BeginReport(p)
  <2>1. Idle(p) \/ \E l \in Labels : pc' = [pc EXCEPT ![p] = l] /\ UNCHANGED <<seen, rows, before>>
    BY <1>5 DEF Publish, CheckRecords, FindFile, WriteTemporary, RenameSummary, RenameReport, Goto
  <2> QED
    BY <1>1, <2>1 DEF Moves
<1>6. CASE ListSuite(p) \/ HashLedger(p) \/ HashOthers(p)
  BY <1>6 DEF ListSuite, HashLedger, HashOthers, Goto, Moves
<1>7. CASE ArchiveSuite(p) /\ ~BeginArchive(p) /\ ~ListSuite(p) /\ ~HashLedger(p) /\ ~HashOthers(p)
  <2>1. Idle(p) \/ \E l \in Labels : pc' = [pc EXCEPT ![p] = l] /\ UNCHANGED <<seen, rows, before>>
    BY <1>1, <1>7 DEF ArchiveSuite, MakeArchive, CopyFile, WriteMatrix, RecheckNames, RelistSuite,
                      RehashLedger, SealArchive, Rollback, Goto, clerk
  <2> QED
    BY <1>1, <2>1 DEF Moves
<1> QED
  BY <1>2, <1>3, <1>4, <1>5, <1>6, <1>7 DEF ClerkStep, Publish, ArchiveSuite

(* What the other clerks know does not change.                               *)
LEMMA OthersStand ==
  ASSUME ReadInv, NEW p \in Clerks, ClerkStep(p), NEW q \in Clerks, q # p
  PROVE  pc'[q] = pc[q] /\ seen'[q] = seen[q] /\ rows'[q] = rows[q] /\ before'[q] = before[q]
  BY ClerkKinds DEF ReadInv, Idle, Reads, ReadRow, With, Moves, Looks, ReadLedger, Goto

LEMMA ClerkReads ==
  ASSUME SuiteInv, ReadInv, NEW p \in Clerks, ClerkStep(p)
  PROVE  ReadInv'
<1>1. ledger' = ledger /\ bundle' = bundle
  BY ClerkStill
<1>2. /\ pc' \in [Clerks -> Labels] /\ seen' \in [Clerks -> [Cells -> States]]
      /\ DOMAIN rows' = Clerks /\ DOMAIN before' = Clerks
  <2>1. [c \in Cells |-> "ABSENT"] \in [Cells -> States]
    BY DEF States
  <2>2. [c \in Cells |-> StateIn(ledger, c)] \in [Cells -> States]
    BY StateInType DEF SuiteInv
  <2>3. "idle" \in Labels
    BY DEF Labels
  <2> QED
    BY <2>1, <2>2, <2>3, ClerkKinds
       DEF ReadInv, Idle, Reads, ReadRow, With, Moves, Looks, ReadLedger, Goto
<1>3. ASSUME NEW q \in Clerks
      PROVE  /\ \A c \in Cells : Terminal(seen'[q][c]) => StateIn(ledger, c) = seen'[q][c]
             /\ DOMAIN rows'[q] \subseteq TerminalCells(q)'
             /\ rows'[q] = [c \in DOMAIN rows'[q] |-> bundle[c]]
  <2>1. /\ \A c \in Cells : Terminal(seen[q][c]) => StateIn(ledger, c) = seen[q][c]
        /\ DOMAIN rows[q] \subseteq TerminalCells(q)
        /\ rows[q] = [c \in DOMAIN rows[q] |-> bundle[c]]
    BY DEF ReadInv
  <2>2. CASE seen'[q] = seen[q] /\ rows'[q] = rows[q]
    BY <2>1, <2>2 DEF TerminalCells
  <2>3. CASE q = p /\ Idle(p)
    <3>1. seen'[p] = [c \in Cells |-> "ABSENT"] /\ rows'[p] = NoFile
      BY <2>3 DEF Idle, ReadInv
    <3>2. DOMAIN NoFile = {} /\ NoFile = [c \in {} |-> bundle[c]]
      BY DEF NoFile
    <3> QED
      BY <2>3, <3>1, <3>2 DEF Terminal
  <2>4. CASE q = p /\ Reads(p)
    <3> DEFINE c == First(Unread(p))
    <3>1. c \in Unread(p)
      BY <2>4, CellsType, FirstOf DEF Reads, Unread, TerminalCells
    <3>2. rows'[p] = [d \in DOMAIN rows[p] \cup {c} |-> IF d = c THEN bundle[c] ELSE rows[p][d]]
      BY <2>4 DEF Reads, ReadRow, With, ReadInv
    <3>3. seen' = seen
      BY <2>4 DEF Reads
    <3>4. c \in TerminalCells(p)
      BY <3>1 DEF Unread
    <3> HIDE DEF c
    <3>5. DOMAIN rows'[p] = DOMAIN rows[p] \cup {c}
      BY <3>2
    <3>6. rows'[p] = [d \in DOMAIN rows'[p] |-> bundle[d]]
      BY <2>1, <2>4, <3>2, <3>5
    <3>7. TerminalCells(p)' = TerminalCells(p)
      BY <3>3 DEF TerminalCells
    <3> QED
      BY <2>1, <2>4, <3>3, <3>4, <3>5, <3>6, <3>7
  <2>5. ASSUME q = p, NEW l \in Labels, Looks(p, l)
        PROVE  <1>3!2
    <3>1. seen'[p] = [c \in Cells |-> StateIn(ledger, c)] /\ rows' = rows
      BY <2>5 DEF Looks, ReadLedger, ReadInv
    <3>2. \A c \in Cells : seen'[p][c] = StateIn(ledger, c)
      BY <3>1
    <3>3. DOMAIN rows[p] \subseteq TerminalCells(p)'
      BY <2>1, <2>5, <3>2 DEF TerminalCells
    <3> QED
      BY <2>1, <2>5, <3>1, <3>2, <3>3
  <2> QED
    BY <2>2, <2>3, <2>4, <2>5, ClerkKinds, OthersStand DEF Moves
<1> QED
  BY <1>1, <1>2, <1>3 DEF ReadInv

-----------------------------------------------------------------------------
(* Reports *)

(* A reporter's rows are the bundles.                                        *)
LEMMA AllRows ==
  ASSUME SuiteInv, ReadInv, NEW p \in Clerks, DOMAIN rows[p] = Cells
  PROVE  rows[p] = bundle /\ AllEnded
<1>1. rows[p] = [c \in Cells |-> bundle[c]] /\ TerminalCells(p) = Cells
  BY DEF ReadInv, TerminalCells
<1>2. \A c \in Cells : Terminal(StateIn(ledger, c))
  BY <1>1 DEF ReadInv, TerminalCells
<1> QED
  BY <1>1, <1>2 DEF SuiteInv, AllEnded

LEMMA ClerkReports ==
  ASSUME SuiteInv, ReadInv, ReportInv, NEW p \in Clerks, ClerkStep(p)
  PROVE  ReportInv'
<1> USE DEF Labels, Reporting, Rendering, Digested, Owning, Relisted
<1>1. ledger' = ledger /\ bundle' = bundle /\ AllEnded' = AllEnded
  BY ClerkStill DEF AllEnded
<1>2. ReadInv'
  BY ClerkReads
<1>3. /\ summary' # NoFile => summary' = bundle /\ AllEnded
      /\ report' # NoFile => report' = bundle /\ AllEnded
  <2>1. CASE RenameSummary(p) \/ RenameReport(p)
    <3>1. DOMAIN rows[p] = Cells
      BY <2>1 DEF RenameSummary, RenameReport, ReportInv
    <3>2. rows[p] = bundle /\ AllEnded
      BY <3>1, AllRows
    <3>3. summary' \in {summary, rows[p]} /\ report' \in {report, rows[p]}
      BY <2>1 DEF RenameSummary, RenameReport
    <3> QED
      BY <3>2, <3>3 DEF ReportInv
  <2>2. CASE ~RenameSummary(p) /\ ~RenameReport(p)
    <3>1. UNCHANGED <<summary, report>>
      BY <2>2 DEF ClerkStep, ReadBundle, Analyse, Publish, ArchiveSuite, KillClerk, BeginAnalysis,
           FinishAnalysis, BeginReport, CheckRecords, FindFile, WriteTemporary, BeginArchive,
           ListSuite, HashLedger, HashOthers, MakeArchive, CopyFile, WriteMatrix, RecheckNames,
           RelistSuite, RehashLedger, SealArchive, suite
    <3> QED
      BY <3>1 DEF ReportInv
  <2> QED
    BY <2>1, <2>2
<1>4. /\ pc'[p] \in Reporting => TerminalCells(p)' = Cells
      /\ pc'[p] \in Rendering => DOMAIN rows'[p] = Cells
  <2>1. pc[p] \in Reporting => TerminalCells(p) = Cells
    BY DEF ReportInv
  <2>2. CASE ReadBundle(p)
    <3>1. pc' = pc /\ pc[p] \notin Rendering /\ seen' = seen
      BY <2>2 DEF ReadBundle
    <3> QED
      BY <2>1, <3>1 DEF TerminalCells
  <2>3. CASE Analyse(p) \/ KillClerk(p) \/ ArchiveSuite(p)
    <3>1. pc'[p] \notin Reporting
      BY <2>3 DEF Analyse, KillClerk, ArchiveSuite, BeginAnalysis, FinishAnalysis, BeginArchive,
           ListSuite, HashLedger, HashOthers, MakeArchive, CopyFile, WriteMatrix, RecheckNames,
           RelistSuite, RehashLedger, SealArchive, Rollback, Idle, Goto, ReadInv, clerk
    <3> QED
      BY <3>1
  <2>4. CASE BeginReport(p)
    <3>1. pc'[p] = "report" /\ \A c \in Cells : Terminal(seen'[p][c])
      BY <2>4 DEF BeginReport, Goto, Reportable, ReadInv
    <3> QED
      BY <3>1 DEF TerminalCells
  <2>5. CASE CheckRecords(p)
    <3>1. DOMAIN rows[p] = Cells
      BY <2>1, <2>5 DEF CheckRecords, Unread, ReadInv
    <3>2. Idle(p) \/ (UNCHANGED <<seen, rows>> /\ pc[p] \in Reporting)
      BY <2>5 DEF CheckRecords
    <3>3. CASE Idle(p)
      BY <3>3 DEF Idle, Goto, ReadInv
    <3>4. CASE UNCHANGED <<seen, rows>> /\ pc[p] \in Reporting
      BY <2>1, <3>1, <3>4 DEF TerminalCells
    <3> QED
      BY <3>2, <3>3, <3>4
  <2>6. CASE FindFile(p) \/ WriteTemporary(p) \/ RenameSummary(p) \/ RenameReport(p)
    <3>1. pc[p] \in Rendering /\ (Idle(p) \/ UNCHANGED <<seen, rows>>)
      BY <2>6 DEF FindFile, WriteTemporary, RenameSummary, RenameReport
    <3>2. CASE Idle(p)
      BY <3>2 DEF Idle, Goto, ReadInv
    <3>3. CASE UNCHANGED <<seen, rows>>
      BY <2>1, <3>1, <3>3 DEF TerminalCells, ReportInv
    <3> QED
      BY <3>1, <3>2, <3>3
  <2> QED
    BY <2>2, <2>3, <2>4, <2>5, <2>6 DEF ClerkStep, Publish
<1>5. ASSUME NEW q \in Clerks, q # p
      PROVE  /\ pc'[q] \in Reporting => TerminalCells(q)' = Cells
             /\ pc'[q] \in Rendering => DOMAIN rows'[q] = Cells
  BY <1>5, OthersStand DEF TerminalCells, ReportInv
<1> QED
  BY <1>1, <1>3, <1>4, <1>5 DEF ReportInv

-----------------------------------------------------------------------------
(* Printed numbers *)

LEMMA MembersType ==
  ASSUME NEW g
  PROVE  /\ Members(g) \subseteq Cells /\ IsFiniteSet(Members(g))
         /\ Cardinality(Members(g)) \in Nat
  BY CellsType, FS_Subset, FS_CardinalityType DEF Members

(* The repeats of a group number its cells.                                  *)
LEMMA RepeatsNumber ==
  ASSUME NEW g \in Groups
  PROVE  /\ {Repeat[c] : c \in Members(g)} = 1..Cardinality(Members(g))
         /\ \A c, d \in Members(g) : Repeat[c] = Repeat[d] => c = d
<1> DEFINE n == Cardinality(Members(g))
           f == [c \in Members(g) |-> Repeat[c]]
<1>1. {Repeat[c] : c \in Members(g)} = 1..n
  BY ArchiveAssumption DEF Groups, Members
<1>2. n \in Nat /\ IsFiniteSet(Members(g))
  BY MembersType
<1>3. Cardinality(1..n) = n
  BY <1>2, FS_Interval
<1>4. f \in Surjection(Members(g), 1..n)
  BY <1>1 DEF Surjection
<1>5. f \in Injection(Members(g), 1..n)
  BY <1>2, <1>3, <1>4, FS_SurjSameCardinalityImpliesInj
<1> QED
  BY <1>1, <1>5 DEF Injection, IsInjective

(* What is printed of rows that were read from ended cells is final.         *)
LEMMA NumbersHold ==
  ASSUME NEW read, DOMAIN read \subseteq Cells, read = [c \in DOMAIN read |-> bundle[c]],
         \A c \in DOMAIN read : Terminal(StateIn(ledger, c)),
         NEW number \in MainNumbers(read),
         NEW cells, cells = Members(number[1])
  PROVE  /\ \A c \in cells : Terminal(StateIn(ledger, c)) /\ ~Trial(bundle[c]).invalid
         /\ number[2] = [k \in 1..Cardinality(cells) |->
              PassHat(Cardinality({c \in cells : bundle[c] = "passed"}), Cardinality(cells), k)]
<1>1. PICK g \in Groups : Analysis(read)[g].complete /\ number = <<g, Analysis(read)[g].main>>
  BY DEF MainNumbers
<1> DEFINE n == Cardinality(cells)
           trials == [i \in {Repeat[c] : c \in cells \cap DOMAIN read} |->
                        Trial(read[CHOOSE c \in cells : Repeat[c] = i])]
           good == {c \in cells : bundle[c] = "passed"}
<1>2. cells = Members(g) /\ cells \subseteq Cells /\ n \in Nat /\ IsFiniteSet(cells)
  BY <1>1, MembersType
<1>3. /\ {Repeat[c] : c \in cells} = 1..n
      /\ \A c, d \in cells : Repeat[c] = Repeat[d] => c = d
  BY <1>2, RepeatsNumber
<1>4. Analysis(read)[g] = BuildGroup(n, trials)
  BY <1>2 DEF Analysis
<1>5. Complete(n, trials) /\ number[2] = PassHatSeries(Successes(trials), n, n)
  <2> HIDE DEF trials, n
  <2> QED
    BY <1>1, <1>4 DEF BuildGroup
<1>6. cells \subseteq DOMAIN read
  <2> SUFFICES ASSUME NEW c \in cells
               PROVE  c \in DOMAIN read
    OBVIOUS
  <2>1. 1..n \subseteq DOMAIN trials
    <3> HIDE DEF trials, n
    <3> QED
      BY <1>5 DEF Complete, Missing
  <2>2. Repeat[c] \in {Repeat[d] : d \in cells \cap DOMAIN read}
    BY <1>3, <2>1
  <2> QED
    BY <1>3, <2>2
<1>7. \A c \in cells : trials[Repeat[c]] = Trial(bundle[c]) /\ Repeat[c] \in DOMAIN trials
  <2> TAKE c \in cells
  <2>1. (CHOOSE d \in cells : Repeat[d] = Repeat[c]) = c
    BY <1>3
  <2>2. read[c] = bundle[c]
    BY <1>6
  <2> QED
    BY <1>6, <2>1, <2>2
<1>8. DOMAIN trials = {Repeat[c] : c \in cells}
  BY <1>6
<1> HIDE DEF trials
<1>9. \A c \in cells : ~Trial(bundle[c]).invalid
  BY <1>5, <1>7, <1>8 DEF Complete, Valid
<1>10. Successes(trials) = Cardinality(good)
  <2> DEFINE won == {i \in Valid(trials) : trials[i].passed}
             f == [c \in good |-> Repeat[c]]
  <2>1. \A c \in cells : Trial(bundle[c]).passed <=> bundle[c] = "passed"
    BY DEF Trial
  <2>2. won = {Repeat[c] : c \in good}
    BY <1>5, <1>7, <1>8, <2>1 DEF Complete
  <2>3. f \in Bijection(good, won)
    BY <1>3, <2>2 DEF Bijection, Injection, IsInjective, Surjection
  <2>4. IsFiniteSet(good)
    BY <1>2, FS_Subset
  <2> HIDE DEF won, f
  <2>5. Cardinality(won) = Cardinality(good)
    BY <2>3, <2>4, FS_Bijection DEF ExistsBijection
  <2> QED
    BY <2>5 DEF Successes, won
<1>11. \A c \in cells : Terminal(StateIn(ledger, c))
  BY <1>6
<1> QED
  BY <1>5, <1>9, <1>10, <1>11 DEF PassHatSeries

LEMMA ClerkTells ==
  ASSUME SuiteInv, ReadInv, ReportInv, MainNumbersHold, NEW p \in Clerks, ClerkStep(p)
  PROVE  MainNumbersHold'
<1>1. ledger' = ledger /\ bundle' = bundle
  BY ClerkStill
<1>2. ASSUME NEW number \in told', number \notin told
      PROVE  \E read : /\ DOMAIN read \subseteq TerminalCells(p)
                       /\ read = [c \in DOMAIN read |-> bundle[c]]
                       /\ number \in MainNumbers(read)
  <2>1. CASE FinishAnalysis(p)
    <3> DEFINE read == [c \in {d \in DOMAIN rows[p] : Agrees(p, d)} |-> rows[p][c]]
    <3>1. number \in MainNumbers(read)
      BY <1>2, <2>1 DEF FinishAnalysis
    <3>2. DOMAIN read \subseteq DOMAIN rows[p] /\ \A c \in DOMAIN read : read[c] = rows[p][c]
      OBVIOUS
    <3>3. read = [c \in DOMAIN read |-> bundle[c]]
      BY <3>2 DEF ReadInv
    <3> QED
      BY <3>1, <3>2, <3>3 DEF ReadInv
  <2>2. CASE RenameSummary(p)
    BY <1>2, <2>2 DEF RenameSummary, ReadInv
  <2>3. CASE ~FinishAnalysis(p) /\ ~RenameSummary(p)
    <3>1. told' = told
      BY <2>3 DEF ClerkStep, ReadBundle, Analyse, Publish, ArchiveSuite, KillClerk, BeginAnalysis,
           RenameReport, BeginReport, CheckRecords, FindFile, WriteTemporary, BeginArchive,
           ListSuite, HashLedger, HashOthers, MakeArchive, CopyFile, WriteMatrix, RecheckNames,
           RelistSuite, RehashLedger, SealArchive
    <3> QED
      BY <1>2, <3>1
  <2> QED
    BY <2>1, <2>2, <2>3
<1>3. ASSUME NEW number \in told', NEW cells, cells = Members(number[1])
      PROVE  /\ \A c \in cells : Terminal(StateIn(ledger, c)) /\ ~Trial(bundle[c]).invalid
             /\ number[2] = [k \in 1..Cardinality(cells) |->
                  PassHat(Cardinality({c \in cells : bundle[c] = "passed"}), Cardinality(cells), k)]
  <2>1. CASE number \in told
    BY <1>3, <2>1 DEF MainNumbersHold
  <2>2. CASE number \notin told
    <3>1. PICK read : /\ DOMAIN read \subseteq TerminalCells(p)
                      /\ read = [c \in DOMAIN read |-> bundle[c]]
                      /\ number \in MainNumbers(read)
      BY <1>2, <2>2
    <3>2. DOMAIN read \subseteq Cells /\ \A c \in DOMAIN read : Terminal(StateIn(ledger, c))
      BY <3>1 DEF TerminalCells, ReadInv
    <3> QED
      BY <1>3, <3>1, <3>2, NumbersHold
  <2> QED
    BY <2>1, <2>2
<1> QED
  BY <1>1, <1>3 DEF MainNumbersHold

-----------------------------------------------------------------------------
(* Archives *)

(* A ledger is a reading of itself.                                          *)
LEMMA EarlierNow ==
  ASSUME SuiteInv
  PROVE  Earlier(ledger)
<1>1. ledger \in Seq(Line)
  BY DEF SuiteInv
<1>2. IsPrefix(ledger, ledger)
  BY <1>1, PrefixPoints
<1> QED
  BY <1>1, <1>2 DEF Earlier

LEMMA LedgerLength ==
  ASSUME SuiteInv
  PROVE  Len(ledger) \in Nat /\ Len(ledger) <= Len(ledger)
<1>1. ledger \in Seq(Line)
  BY DEF SuiteInv
<1>2. Len(ledger) \in Nat
  BY <1>1
<1> QED
  BY <1>2

(* What was copied is the ledger the suite still has: the digest says so.    *)
LEMMA CopiedIsNow ==
  ASSUME SuiteInv, NEW lines, Earlier(lines), Len(ledger) <= Len(lines)
  PROVE  lines = ledger
<1>1. lines \in Seq(Line) /\ ledger \in Seq(Line)
  BY DEF Earlier, SuiteInv
<1>2. Len(lines) <= Len(ledger) /\ \A i \in 1..Len(lines) : lines[i] = ledger[i]
  BY <1>1, PrefixPoints DEF Earlier
<1>3. Len(lines) \in Nat /\ Len(ledger) \in Nat
  BY <1>1
<1>4. Len(lines) = Len(ledger)
  BY <1>2, <1>3
<1> QED
  BY <1>1, <1>2, <1>4, SeqEqual

(* The second listing shows that the archive is true.                        *)
LEMMA RelistSuffices ==
  ASSUME SuiteInv, ReadInv, NEW p \in Clerks, DigestInv(p), CopyInv(p), pc[p] = "relist",
         UnchangedListing(p)
  PROVE  TrueArchive /\ before[p].listed.aside = Kept
<1> DEFINE listed == before[p].listed
           copied == archive.files["ledger"].lines
<1>1. listed.aside = aside
  BY DEF UnchangedListing, Listing
<1>2. listed.names \subseteq archive.names /\ archive.rows = rows[p] /\ "ledger" \in archive.names
  BY DEF CopyInv, DigestInv
<1>3. /\ Earlier(copied)
      /\ \A c \in TerminalCells(p) : StateIn(copied, c) = seen[p][c]
      /\ \A c \in listed.aside : StateIn(copied, c) # "ABSENT"
  BY <1>2 DEF CopyInv, CopiedLedger
<1>4. Kept = aside
  <2>1. CASE "interrupted" \in archive.names
    <3>1. listed.aside \subseteq archive.files["interrupted"]
      BY <2>1 DEF CopyInv
    <3>2. archive.files["interrupted"] \subseteq aside
      BY <2>1 DEF CopyInv
    <3>3. archive.files["interrupted"] = aside
      BY <1>1, <3>1, <3>2
    <3> QED
      BY <2>1, <3>3 DEF Kept
  <2>2. CASE "interrupted" \notin archive.names
    BY <1>1, <1>2, <2>2 DEF DigestInv, Kept
  <2> QED
    BY <2>1, <2>2
<1>5. DOMAIN archive.rows = TerminalCells(p) /\ TerminalCells(p) \subseteq Cells
  BY <1>2 DEF CopyInv, TerminalCells
<1>6. \A c \in TerminalCells(p) : archive.rows[c] = bundle[c] /\ StateIn(copied, c) = Final(bundle[c])
  <2> TAKE c \in TerminalCells(p)
  <2>1. c \in Cells /\ Terminal(seen[p][c])
    BY DEF TerminalCells
  <2>2. StateIn(ledger, c) = seen[p][c]
    BY <2>1 DEF ReadInv
  <2>3. StateIn(ledger, c) = Final(bundle[c])
    BY <2>1, <2>2 DEF SuiteInv
  <2>4. archive.rows[c] = bundle[c]
    BY <1>2, <1>5 DEF ReadInv
  <2> QED
    BY <1>3, <2>2, <2>3, <2>4
<1>7. scope = Cells /\ DOMAIN archive.rows = Cells =>
        archive.files["summary"] = archive.rows /\ archive.files["report"] = archive.rows
  <2> SUFFICES ASSUME scope = Cells, DOMAIN archive.rows = Cells
               PROVE  archive.files["summary"] = archive.rows
                        /\ archive.files["report"] = archive.rows
    OBVIOUS
  <2>1. {"summary", "report"} \subseteq archive.names
    BY <1>2, <1>5 DEF DigestInv
  <2>2. archive.files["summary"] = bundle /\ archive.files["report"] = bundle
    BY <2>1 DEF CopyInv
  <2>3. archive.rows = bundle
    BY <1>2, AllRows
  <2> QED
    BY <2>2, <2>3
<1> QED
  BY <1>1, <1>3, <1>4, <1>5, <1>6, <1>7 DEF TrueArchive

(* The second hash shows that the ledger copied is the one hashed first.     *)
LEMMA RehashSuffices ==
  ASSUME SuiteInv, NEW p \in Clerks, DigestInv(p), CopyInv(p), pc[p] = "rehash",
         LedgerFile = before[p].ledger
  PROVE  TrueDigest
<1> DEFINE copied == archive.files["ledger"]
<1>1. CopiedLedger(p)
  BY DEF CopyInv, DigestInv
<1>2. before[p].ledger.lines = ledger /\ before[p].ledger.torn = torn
  BY DEF LedgerFile
<1>3. copied.lines = ledger
  BY <1>1, <1>2, CopiedIsNow DEF CopiedLedger
<1>4. copied.torn = torn
  BY <1>1, <1>2 DEF CopiedLedger, SuiteInv
<1>5. copied = LedgerFile
  BY <1>1, <1>3, <1>4 DEF CopiedLedger, LedgerFile
<1> QED
  BY <1>5 DEF CopyInv, Relisted, TrueDigest

(* The first listing: the files a suite must consist of are there.           *)
LEMMA ListingHolds ==
  ASSUME SuiteInv, ReadInv, ReportInv, NEW p \in Clerks, ListSuite(p), Names = Expected(p)
  PROVE  DigestInv(p)'
<1>1. /\ before'[p].listed = Listing /\ pc'[p] = "hash" /\ seen' = seen
      /\ ledger' = ledger /\ aside' = aside /\ scope' = scope
  <2>1. /\ before' = [before EXCEPT ![p] = [listed |-> Listing]] /\ seen' = seen
        /\ pc'[p] = "hash" /\ UNCHANGED suite
    BY DEF ListSuite, Goto, ReadInv
  <2>2. before'[p] = [listed |-> Listing]
    BY <2>1 DEF ReadInv
  <2> QED
    BY <2>1, <2>2 DEF suite
<1>2. "ledger" \in Names
  BY DEF Expected
<1>3. "interrupted" \in Names \/ aside = {}
  BY DEF Names, Present
<1>4. scope = Cells /\ TerminalCells(p) = Cells => {"summary", "report"} \subseteq Names
  BY DEF Expected
<1>5. Listing.aside = aside /\ Listing.names = Names
  BY DEF Listing
<1>6. TerminalCells(p)' = TerminalCells(p)
  BY <1>1 DEF TerminalCells
<1> QED
  BY <1>1, <1>2, <1>3, <1>4, <1>5, <1>6 DEF DigestInv

(* A clerk that still holds its first digest has lost nothing of it.         *)
LEMMA ClerkDigests ==
  ASSUME SuiteInv, ReadInv, ReportInv, ArchiveInv, NEW p \in Clerks, ClerkStep(p),
         NEW q \in Clerks, pc'[q] \in Digested
  PROVE  DigestInv(q)'
<1> USE DEF Digested, Owning, Relisted, Reporting, Rendering
<1>1. Grows
  BY ClerkStill, StillGrows
<1>2. CASE q # p
  BY <1>1, <1>2, OthersStand, DigestFrame DEF ArchiveInv
<1>3. CASE q = p /\ ListSuite(p)
  <2>1. Names = Expected(p)
    BY <1>3 DEF ListSuite, Idle, Goto, ReadInv
  <2> QED
    BY <1>3, <2>1, ListingHolds
<1>4. CASE q = p /\ (HashLedger(p) \/ HashOthers(p))
  <2>1. /\ pc[p] \in Digested /\ pc'[p] # "hash" /\ seen' = seen /\ UNCHANGED suite
        /\ before'[p].listed = before[p].listed
    <3>1. CASE HashLedger(p)
      BY <3>1 DEF HashLedger, Goto, ReadInv
    <3>2. CASE HashOthers(p)
      BY <3>2 DEF HashOthers, Goto, ReadInv
    <3> QED
      BY <1>4, <3>1, <3>2
  <2>2. DigestInv(p)
    BY <2>1 DEF ArchiveInv
  <2>3. TerminalCells(p)' = TerminalCells(p)
    BY <2>1 DEF TerminalCells
  <2>4. /\ Len(before'[p].ledger.lines) \in Nat /\ Len(before'[p].ledger.lines) <= Len(ledger)
        /\ before'[p].ledger.torn => torn
    <3>1. CASE HashLedger(p)
      <4>1. before'[p].ledger = LedgerFile
        BY <3>1 DEF HashLedger, ReadInv
      <4>2. LedgerFile.lines = ledger /\ LedgerFile.torn = torn
        BY DEF LedgerFile
      <4>3. Len(ledger) \in Nat /\ Len(ledger) <= Len(ledger)
        BY LedgerLength
      <4> QED
        BY <4>1, <4>2, <4>3
    <3>2. CASE HashOthers(p)
      <4>1. before'[p].ledger = before[p].ledger /\ pc[p] # "hash"
        BY <3>2 DEF HashOthers, ReadInv
      <4> QED
        BY <2>2, <4>1 DEF DigestInv
    <3> QED
      BY <1>4, <3>1, <3>2
  <2> QED
    BY <1>4, <2>1, <2>2, <2>3, <2>4 DEF DigestInv, suite
<1>5. CASE q = p /\ ~ListSuite(p) /\ ~HashLedger(p) /\ ~HashOthers(p)
  <2>1. pc[p] \in Digested \ {"hash"} /\ seen'[p] = seen[p] /\ before'[p] = before[p]
    <3>1. ~Idle(p)
      BY <1>5 DEF Idle, Goto, ReadInv
    <3>2. ~Analyse(p) /\ ~KillClerk(p) /\ ~BeginReport(p) /\ ~BeginArchive(p)
      BY <1>5, <3>1 DEF Analyse, KillClerk, BeginAnalysis, FinishAnalysis, BeginReport,
           BeginArchive, Goto, ReadInv
    <3>3. ~Publish(p)
      BY <1>5, <3>1, <3>2 DEF Publish, CheckRecords, FindFile, WriteTemporary, RenameSummary,
           RenameReport, Goto, ReadInv
    <3>4. CASE ReadBundle(p)
      BY <1>5, <3>4 DEF ReadBundle
    <3>5. CASE ArchiveSuite(p)
      BY <1>5, <3>1, <3>2, <3>5 DEF ArchiveSuite, MakeArchive, CopyFile, WriteMatrix,
           RecheckNames, RelistSuite, RehashLedger, SealArchive, Rollback, clerk
    <3> QED
      BY <3>2, <3>3, <3>4, <3>5 DEF ClerkStep
  <2> QED
    BY <1>1, <1>5, <2>1, DigestFrame DEF ArchiveInv
<1> QED
  BY <1>2, <1>3, <1>4, <1>5

(* Only the archiver that fills an archive, or opens one, changes it.        *)
LEMMA ArchiveStill ==
  ASSUME ReadInv, NEW p \in Clerks, ClerkStep(p), pc[p] \notin Owning, ~MakeArchive(p)
  PROVE  archive' = archive
<1> USE DEF Owning, Relisted
<1>1. CASE ReadBundle(p) \/ Analyse(p) \/ Publish(p) \/ KillClerk(p)
  BY <1>1 DEF ReadBundle, Analyse, Publish, KillClerk, BeginAnalysis, FinishAnalysis, BeginReport,
       CheckRecords, FindFile, WriteTemporary, RenameSummary, RenameReport
<1>2. CASE ArchiveSuite(p)
  BY <1>2 DEF ArchiveSuite, BeginArchive, ListSuite, HashLedger, HashOthers, CopyFile,
       WriteMatrix, RecheckNames, RelistSuite, RehashLedger, SealArchive
<1> QED
  BY <1>1, <1>2 DEF ClerkStep

(* Copying one file puts its present content beside those copied before.     *)
LEMMA CopyHolds ==
  ASSUME SuiteInv, ReadInv, ReportInv, NEW p \in Clerks, CopyInv(p), DigestInv(p), CopyFile(p),
         pc'[p] \in Owning
  PROVE  CopyInv(p)'
<1> DEFINE n == NextCopy(p)
<1>1. ~Idle(p)
  BY DEF Idle, Goto, ReadInv, Owning, Relisted
<1>2. /\ n \in Names /\ UNCHANGED clerk /\ UNCHANGED suite /\ pc[p] = "copy"
      /\ archive' = [archive EXCEPT !.names = @ \cup {n}, !.files = With(@, n, Content[n])]
  BY <1>1 DEF CopyFile, Rollback
<1> HIDE DEF n
<1>3. /\ DOMAIN archive' = ArchiveFields /\ archive'.sealed = FALSE
      /\ archive'.names = archive.names \cup {n} /\ DOMAIN archive'.files = archive'.names
      /\ archive'.files[n] = Content[n]
      /\ \A m \in archive.names : m # n => archive'.files[m] = archive.files[m]
  BY <1>2 DEF CopyInv, ArchiveFields, With
<1>4. /\ pc' = pc /\ seen' = seen /\ rows' = rows /\ before' = before
      /\ ledger' = ledger /\ aside' = aside /\ bundle' = bundle /\ torn' = torn
  BY <1>2 DEF clerk, suite
<1>5. TerminalCells(p)' = TerminalCells(p) /\ AllEnded' = AllEnded
  BY <1>4 DEF TerminalCells, AllEnded
<1>6. "ledger" \in archive'.names => CopiedLedger(p)'
  <2>1. CASE n = "ledger"
    <3>1. archive'.files["ledger"] = [lines |-> ledger, torn |-> torn]
      BY <1>3, <2>1 DEF Content, LedgerFile
    <3>2. \A c \in TerminalCells(p) : StateIn(ledger, c) = seen[p][c]
      BY DEF TerminalCells, ReadInv
    <3>3. \A c \in before[p].listed.aside : StateIn(ledger, c) # "ABSENT"
      BY DEF DigestInv, SuiteInv
    <3>4. /\ torn \in BOOLEAN /\ (before[p].ledger.torn => torn)
          /\ Len(before[p].ledger.lines) <= Len(ledger)
      BY <1>2 DEF DigestInv, SuiteInv
    <3>5. Earlier(ledger)'
      BY <1>4, EarlierNow DEF Earlier
    <3> QED
      BY <1>4, <1>5, <3>1, <3>2, <3>3, <3>4, <3>5 DEF CopiedLedger, Earlier
  <2>2. CASE n # "ledger" /\ "ledger" \in archive.names
    <3>1. CopiedLedger(p) /\ archive'.files["ledger"] = archive.files["ledger"]
      BY <1>3, <2>2 DEF CopyInv
    <3> QED
      BY <1>4, <1>5, <3>1 DEF CopiedLedger, Earlier
  <2> QED
    BY <1>3, <2>1, <2>2
<1>7. "interrupted" \in archive'.names =>
        /\ before[p].listed.aside \subseteq archive'.files["interrupted"]
        /\ archive'.files["interrupted"] \subseteq aside
  <2>1. CASE n = "interrupted"
    <3>1. archive'.files["interrupted"] = aside
      BY <1>3, <2>1 DEF Content
    <3> QED
      BY <3>1 DEF DigestInv
  <2>2. CASE n # "interrupted"
    BY <1>3, <2>2 DEF CopyInv
  <2> QED
    BY <2>1, <2>2
<1>8. \A m \in {"summary", "report"} \cap archive'.names :
        archive'.files[m] = bundle /\ AllEnded
  <2> SUFFICES ASSUME NEW m \in {"summary", "report"} \cap archive'.names
               PROVE  archive'.files[m] = bundle /\ AllEnded
    OBVIOUS
  <2>1. CASE n = m
    <3>1. Present[m]
      BY <1>2, <2>1 DEF Names
    <3>2. (Present["summary"] <=> summary # NoFile) /\ (Present["report"] <=> report # NoFile)
      BY DEF Present
    <3>3. /\ m = "summary" => summary = bundle /\ AllEnded
          /\ m = "report" => report = bundle /\ AllEnded
      BY <3>1, <3>2 DEF ReportInv
    <3>4. m = "summary" => Content[m] = summary
      BY DEF Content
    <3>5. m = "report" => Content[m] = report
      BY DEF Content
    <3> QED
      BY <1>3, <2>1, <3>3, <3>4, <3>5
  <2>2. CASE n # m
    BY <1>3, <2>2 DEF CopyInv
  <2> QED
    BY <2>1, <2>2
<1>9. DOMAIN rows[p] = TerminalCells(p) /\ pc[p] = "copy"
  BY <1>2 DEF CopyInv
<1> QED
  BY <1>3, <1>4, <1>5, <1>6, <1>7, <1>8, <1>9 DEF CopyInv, Relisted

(* The archiver that fills an archive knows what it has put there.           *)
LEMMA ClerkCopies ==
  ASSUME SuiteInv, SuiteInv', ReadInv, ReportInv, ArchiveInv, NEW p \in Clerks, ClerkStep(p),
         pc'[p] \in Owning
  PROVE  CopyInv(p)'
<1> USE DEF Owning, Relisted
<1>1. ~Idle(p)
  BY DEF Idle, Goto, ReadInv
<1>2. Grows
  BY ClerkStill, StillGrows
<1>3. pc[p] \in Owning => CopyInv(p) /\ DigestInv(p)
  BY DEF ArchiveInv, Digested
<1>4. MakeArchive(p) \/ CopyFile(p) \/ WriteMatrix(p) \/ RecheckNames(p) \/ RelistSuite(p)
        \/ RehashLedger(p)
  <2>1. ~(Analyse(p) \/ KillClerk(p) \/ ReadBundle(p) \/ BeginReport(p))
    BY <1>1 DEF Analyse, BeginAnalysis, FinishAnalysis, KillClerk, ReadBundle, BeginReport, Goto,
         ReadInv
  <2>2. ~Publish(p)
    BY <1>1, <2>1 DEF Publish, CheckRecords, FindFile, WriteTemporary, RenameSummary,
         RenameReport, Goto, ReadInv
  <2>3. ~(BeginArchive(p) \/ ListSuite(p) \/ HashLedger(p) \/ HashOthers(p) \/ SealArchive(p))
    BY <1>1 DEF BeginArchive, ListSuite, HashLedger, HashOthers, SealArchive, Rollback, Goto,
         ReadInv
  <2> QED
    BY <2>1, <2>2, <2>3 DEF ClerkStep, ArchiveSuite
<1>5. CASE MakeArchive(p)
  <2>1. /\ archive' = [names |-> {}, sealed |-> FALSE, rows |-> NoFile, files |-> NoFile,
                       digest |-> NoFile]
        /\ UNCHANGED <<seen, rows, before>> /\ Unread(p) = {} /\ pc'[p] = "copy"
    BY <1>1, <1>5 DEF MakeArchive, Goto, ReadInv
  <2>2. /\ DOMAIN archive' = ArchiveFields /\ archive'.sealed = FALSE
        /\ archive'.names = {} /\ DOMAIN archive'.files = {}
    BY <2>1 DEF ArchiveFields, NoFile
  <2>3. DOMAIN rows[p] = TerminalCells(p)
    BY <2>1 DEF Unread, ReadInv
  <2>4. TerminalCells(p)' = TerminalCells(p)
    BY <2>1 DEF TerminalCells
  <2> QED
    BY <2>1, <2>2, <2>3, <2>4 DEF CopyInv
<1>6. CASE CopyFile(p)
  <2>1. pc[p] \in Owning
    BY <1>6 DEF CopyFile
  <2> QED
    BY <1>3, <1>6, <2>1, CopyHolds
<1>7. CASE WriteMatrix(p)
  <2>1. /\ pc[p] = "copy" /\ pc'[p] = "recheck"
        /\ archive' = [archive EXCEPT !.rows = rows[p],
                                      !.digest = [ledger |-> before[p].ledger,
                                                  interrupted |-> before[p].listed.aside]]
        /\ UNCHANGED <<seen, rows, before>> /\ Uncopied(p) = {} /\ UNCHANGED suite
    BY <1>7 DEF WriteMatrix, Goto, ReadInv
  <2>2. CopyInv(p)
    BY <1>3, <2>1
  <2>3. /\ DOMAIN archive' = ArchiveFields /\ archive'.sealed = FALSE /\ archive'.rows = rows[p]
        /\ archive'.names = archive.names /\ archive'.files = archive.files
        /\ archive'.digest = [ledger |-> before[p].ledger, interrupted |-> before[p].listed.aside]
    BY <2>1, <2>2 DEF CopyInv, ArchiveFields
  <2>4. before[p].listed.names \subseteq archive.names
    BY <2>1 DEF Uncopied
  <2>5. TerminalCells(p)' = TerminalCells(p) /\ AllEnded' = AllEnded
    BY <2>1 DEF TerminalCells, AllEnded, suite
  <2>6. CopiedLedger(p) => CopiedLedger(p)'
    BY <2>1, <2>3, <2>5 DEF CopiedLedger, Earlier, suite
  <2> QED
    BY <2>1, <2>2, <2>3, <2>4, <2>5, <2>6 DEF CopyInv, suite
<1>8. CASE RecheckNames(p) \/ RelistSuite(p) \/ RehashLedger(p)
  <2>1. UNCHANGED <<seen, rows, before, archive>> /\ UNCHANGED suite
    BY <1>1, <1>8 DEF RecheckNames, RelistSuite, RehashLedger, Rollback
  <2>2. /\ pc[p] # "copy" /\ pc[p] \in Owning
        /\ pc'[p] \in Relisted => pc[p] \in Relisted \/ (pc[p] = "relist" /\ UnchangedListing(p))
        /\ pc'[p] = "rehash others" => pc[p] = "rehash" /\ LedgerFile = before[p].ledger
    BY <1>1, <1>8 DEF RecheckNames, RelistSuite, RehashLedger, Rollback, Goto, ReadInv
  <2>3. CopyInv(p) /\ DigestInv(p)
    BY <1>3, <2>2
  <2>4. pc'[p] \in Relisted => TrueArchive /\ before[p].listed.aside = Kept
    <3>1. pc[p] \in Relisted => TrueArchive /\ before[p].listed.aside = Kept
      BY <2>3 DEF CopyInv
    <3>2. pc[p] = "relist" /\ UnchangedListing(p) => TrueArchive /\ before[p].listed.aside = Kept
      BY <2>3, RelistSuffices
    <3> QED
      BY <2>2, <3>1, <3>2
  <2>5. pc'[p] \in Relisted => TrueArchive' /\ before[p].listed.aside = Kept'
    BY <1>2, <2>1, <2>4, TrueFrame DEF Kept
  <2>6. pc'[p] = "rehash others" => TrueDigest'
    <3>1. pc'[p] = "rehash others" => TrueDigest
      BY <2>2, <2>3, RehashSuffices
    <3> QED
      BY <2>1, <3>1 DEF TrueDigest, Kept
  <2>7. TerminalCells(p)' = TerminalCells(p) /\ AllEnded' = AllEnded
    BY <2>1 DEF TerminalCells, AllEnded, suite
  <2>8. CopiedLedger(p) => CopiedLedger(p)'
    BY <2>1, <2>7 DEF CopiedLedger, Earlier, suite
  <2> HIDE DEF Relisted
  <2> QED
    BY <2>1, <2>2, <2>3, <2>5, <2>6, <2>7, <2>8 DEF CopyInv, suite
<1> QED
  BY <1>4, <1>5, <1>6, <1>7, <1>8

LEMMA ClerkArchives ==
  ASSUME SuiteInv, SuiteInv', ReadInv, ReportInv, ArchiveInv, NEW p \in Clerks, ClerkStep(p)
  PROVE  ArchiveInv'
<1>1. Grows
  BY ClerkStill, StillGrows
<1>2. \A q \in Clerks : pc[q] \in Owning => archive # NoArchive /\ archive.sealed = FALSE
  <2> SUFFICES ASSUME NEW q \in Clerks, pc[q] \in Owning
               PROVE  archive # NoArchive /\ archive.sealed = FALSE
    OBVIOUS
  <2>1. DOMAIN archive = ArchiveFields /\ archive.sealed = FALSE
    BY DEF ArchiveInv, CopyInv
  <2>2. "sealed" \in DOMAIN archive /\ "sealed" \notin DOMAIN NoArchive
    BY <2>1 DEF ArchiveFields, NoArchive
  <2> QED
    BY <2>1, <2>2
<1>3. pc'[p] \in Owning => pc[p] \in Owning \/ MakeArchive(p)
  <2> SUFFICES ASSUME pc'[p] \in Owning, pc[p] \notin Owning, ~MakeArchive(p)
               PROVE  FALSE
    OBVIOUS
  <2> USE DEF Owning, Relisted
  <2>1. ~Idle(p)
    BY DEF Idle, Goto, ReadInv
  <2>2. ~(Analyse(p) \/ KillClerk(p) \/ ReadBundle(p) \/ BeginReport(p))
    BY <2>1 DEF Analyse, BeginAnalysis, FinishAnalysis, KillClerk, ReadBundle, BeginReport, Goto,
         ReadInv
  <2>3. ~Publish(p)
    BY <2>1, <2>2 DEF Publish, CheckRecords, FindFile, WriteTemporary, RenameSummary,
         RenameReport, Goto, ReadInv
  <2>4. ~ArchiveSuite(p)
    BY <2>1 DEF ArchiveSuite, BeginArchive, ListSuite, HashLedger, HashOthers, CopyFile,
         WriteMatrix, RecheckNames, RelistSuite, RehashLedger, SealArchive, Goto, ReadInv
  <2> QED
    BY <2>2, <2>3, <2>4 DEF ClerkStep
<1>4. ASSUME NEW q \in Clerks, q # p, pc'[q] \in Owning
      PROVE  CopyInv(q)' /\ archive' = archive /\ pc'[p] \notin Owning
  <2>1. pc[q] \in Owning /\ CopyInv(q)
    BY <1>4, OthersStand DEF ArchiveInv
  <2>2. pc[p] \notin Owning
    BY <1>4, <2>1 DEF ArchiveInv
  <2>3. ~(MakeArchive(p) /\ pc'[p] \in Owning) /\ (MakeArchive(p) => archive' = archive)
    BY <1>2, <2>1 DEF MakeArchive, Idle, Goto, ReadInv, Owning, Relisted
  <2>4. archive' = archive
    BY <2>2, <2>3, ArchiveStill
  <2>5. pc'[p] \notin Owning
    BY <1>3, <2>2, <2>3
  <2> QED
    BY <1>1, <1>4, <2>1, <2>4, <2>5, OthersStand, CopyFrame
<1>5. archive' # NoArchive /\ archive'.sealed => TrueArchive' /\ TrueDigest'
  <2> SUFFICES ASSUME archive' # NoArchive, archive'.sealed
               PROVE  TrueArchive' /\ TrueDigest'
    BY DEF NoArchive
  <2>1. CASE archive' = archive
    BY <1>1, <2>1, TrueFrame DEF ArchiveInv, TrueDigest, Kept
  <2>2. CASE archive' # archive
    <3>1. pc[p] \in Owning \/ MakeArchive(p)
      BY <2>2, ArchiveStill
    <3>2. CASE pc'[p] \in Owning
      BY <3>2, ClerkCopies DEF CopyInv
    <3>3. CASE pc'[p] \notin Owning
      <4>1. ~MakeArchive(p)
        BY <2>2, <3>3 DEF MakeArchive, Goto, ReadInv, Owning
      <4>2. pc[p] \in Owning /\ archive' # archive /\ ~Rollback(p)
        BY <2>2, <3>1, <4>1 DEF Rollback, NoArchive
      <4>3. SealArchive(p)
        BY <3>3, <4>2, <4>1 DEF ClerkStep, ReadBundle, Analyse, Publish, ArchiveSuite, KillClerk,
           BeginAnalysis, FinishAnalysis, BeginReport, CheckRecords, FindFile, WriteTemporary,
           RenameSummary, RenameReport, BeginArchive, ListSuite, HashLedger, HashOthers, CopyFile,
           WriteMatrix, RecheckNames, RelistSuite, RehashLedger, Goto, ReadInv, Owning, Relisted,
           clerk
      <4>4. /\ pc[p] = "rehash others" /\ archive' = [archive EXCEPT !.sealed = TRUE]
            /\ UNCHANGED suite
        BY <4>2, <4>3 DEF SealArchive
      <4>5. TrueArchive /\ TrueDigest /\ DOMAIN archive = ArchiveFields
        BY <4>2, <4>4 DEF ArchiveInv, CopyInv, Relisted
      <4>6. /\ archive'.names = archive.names /\ archive'.files = archive.files
            /\ archive'.rows = archive.rows /\ archive'.digest = archive.digest
        BY <4>4, <4>5 DEF ArchiveFields
      <4>7. Earlier(archive.files["ledger"].lines) => Earlier(archive.files["ledger"].lines)'
        BY <4>4, <4>6 DEF Earlier, suite
      <4>8. Kept' = Kept
        BY <4>6 DEF Kept
      <4> QED
        BY <4>4, <4>5, <4>6, <4>7, <4>8 DEF TrueArchive, TrueDigest, suite
    <3> QED
      BY <3>2, <3>3
  <2> QED
    BY <2>1, <2>2
<1>6. \A q \in Clerks : pc'[q] \in Owning => CopyInv(q)'
  BY <1>4, ClerkCopies
<1>7. \A q, r \in Clerks : pc'[q] \in Owning /\ pc'[r] \in Owning => q = r
  <2> SUFFICES ASSUME NEW q \in Clerks, NEW r \in Clerks, pc'[q] \in Owning, pc'[r] \in Owning
               PROVE  q = r
    OBVIOUS
  <2>1. CASE q = p \/ r = p
    BY <1>4, <2>1
  <2>2. CASE q # p /\ r # p
    BY <2>2, OthersStand DEF ArchiveInv
  <2> QED
    BY <2>1, <2>2
<1> QED
  BY <1>5, <1>6, <1>7, ClerkDigests DEF ArchiveInv

-----------------------------------------------------------------------------
(* The theorems *)

LEMMA InitHolds == Init => IInv
<1> SUFFICES ASSUME Init
             PROVE  IInv
  OBVIOUS
<1>1. \A c : StateIn(<<>>, c) = "ABSENT"
  BY DEF StateIn
<1>2. SuiteInv
  <2>1. Started = {}
    BY <1>1 DEF Started, Init
  <2>2. scope \in SUBSET Cells /\ scope # {}
    BY ArchiveAssumption DEF Init
  <2>3. bundle \in [Cells -> Contents]
    BY DEF Init, Contents
  <2>4. /\ ledger = <<>> /\ ledger \in Seq(Line) /\ aside = {} /\ runner = "away"
        /\ torn = FALSE
    BY DEF Init
  <2>5. \A c \in Cells : ~Terminal(StateIn(ledger, c))
    BY <1>1, <2>4 DEF Terminal
  <2> QED
    BY <2>1, <2>2, <2>3, <2>4, <2>5 DEF SuiteInv, Busy
<1>3. ReadInv
  <2>1. DOMAIN NoFile = {} /\ NoFile = [c \in {} |-> bundle[c]]
    BY DEF NoFile
  <2>2. pc \in [Clerks -> Labels] /\ seen \in [Clerks -> [Cells -> States]]
    BY DEF Init, Labels, States
  <2>3. \A p \in Clerks : rows[p] = NoFile /\ \A c \in Cells : seen[p][c] = "ABSENT"
    BY DEF Init
  <2>4. DOMAIN rows = Clerks /\ DOMAIN before = Clerks
    BY DEF Init
  <2> QED
    BY <1>1, <2>1, <2>2, <2>3, <2>4 DEF ReadInv, Terminal
<1>4. ReportInv
  BY DEF Init, ReportInv, Reporting, Rendering
<1>5. ArchiveInv
  BY DEF Init, ArchiveInv, Digested, Owning, Relisted
<1>6. MainNumbersHold
  BY DEF Init, MainNumbersHold
<1> QED
  BY <1>2, <1>3, <1>4, <1>5, <1>6 DEF IInv

LEMMA NextHolds == IInv /\ [Next]_vars => IInv'
<1> SUFFICES ASSUME IInv, [Next]_vars
             PROVE  IInv'
  OBVIOUS
<1>1. CASE RunnerStep \/ KillRunner
  BY <1>1, RunnerGrows, RunnerKeeps DEF IInv
<1>2. ASSUME NEW p \in Clerks, ClerkStep(p), runner' = runner
      PROVE  IInv'
  <2>1. SuiteInv'
    <3>1. UNCHANGED <<scope, ledger, bundle, aside, torn, runner>>
      BY <1>2, ClerkStill
    <3>2. Started' = Started
      BY <3>1 DEF Started
    <3> QED
      BY <3>1, <3>2 DEF IInv, SuiteInv
  <2> QED
    BY <1>2, <2>1, ClerkReads, ClerkReports, ClerkArchives, ClerkTells DEF IInv
<1>3. CASE UNCHANGED vars
  <2>1. UNCHANGED <<scope, ledger, bundle, aside, torn, runner, summary, report, clerk, archive,
                  told>>
    BY <1>3 DEF vars, suite
  <2>2. Started' = Started
    BY <2>1 DEF Started
  <2>3. SuiteInv'
    BY <2>1, <2>2 DEF IInv, SuiteInv
  <2>4. Grows
    BY <2>1, StillGrows DEF IInv
  <2> QED
    BY <2>1, <2>3, <2>4, RunnerKeeps
<1> QED
  BY <1>1, <1>2, <1>3 DEF Next, ClerkStep

(* The suite, the clerks' readings, the reports, the archive and the printed *)
(* numbers are at every moment as the parts of IInv say.                     *)
THEOREM ArchiveInvariance == Spec => []IInv
  BY InitHolds, NextHolds, PTL DEF Spec

(* A main number once printed is the one the finished suite will show,       *)
(* although analyses and reports read ledger and bundles without a lock.     *)
THEOREM NumbersAreFinal == Spec => []MainNumbersHold
  BY ArchiveInvariance, PTL DEF IInv

(* A sealed archive is whole and true to the suite, whoever worked in it     *)
(* meanwhile and whoever was killed.                                         *)
THEOREM SealedIsTrue == Spec => []SealedArchiveIsTrue
<1>1. IInv => SealedArchiveIsTrue
  BY DEF IInv, ArchiveInv, TrueArchive, TrueDigest, Kept, Earlier, SealedArchiveIsTrue
<1> QED
  BY <1>1, ArchiveInvariance, PTL

(* No step takes back what the suite has recorded: the scope stands, the     *)
(* ledger only grows, and what has ended keeps its line and its bundle.      *)
THEOREM SuiteOnlyGrows == Spec => [][Grows]_vars
<1>1. IInv /\ [Next]_vars => [Grows]_vars
  <2> SUFFICES ASSUME IInv, Next
               PROVE  Grows
    OBVIOUS
  <2>1. ASSUME NEW p \in Clerks, ClerkStep(p)
        PROVE  Grows
    BY <2>1, ClerkStill, StillGrows DEF IInv
  <2> QED
    BY <2>1, RunnerGrows DEF IInv, Next, ClerkStep
<1> QED
  BY <1>1, ArchiveInvariance, PTL DEF Spec

-----------------------------------------------------------------------------
(* The suite others read is the one of BenchmarkSuite *)

(* What SuiteContract promises of a suite whose cells no model backs, which  *)
(* never pauses.                                                             *)
Status == [c \in Cells |-> StateIn(ledger, c)]

Contract == INSTANCE SuiteContract WITH
              status <- Status, scores <- <<>>, ModelBacked <- {}, WindowSize <- 1,
              WindowThreshold <- 1

LEMMA StatusSimulates ==
  ASSUME IInv, [Next]_vars
  PROVE  [Contract!Next]_<<Status, <<>>>>
<1>1. CASE UNCHANGED ledger
  <2>1. Status' = Status
    BY <1>1 DEF Status
  <2> QED
    BY <2>1
<1>2. CASE StartCell \/ Settle
  <2>1. PICK e \in Line : Appends(e)
    BY <1>2, RunnerAppends DEF IInv
  <2>2. e.cell \in Cells /\ e.state \in States
    BY DEF Line
  <2>3. Status' = [Status EXCEPT ![e.cell] = e.state]
    <3>1. \A d \in Cells : StateIn(ledger', d) = IF e.cell = d THEN e.state ELSE StateIn(ledger, d)
      BY <2>1, StateInAppend DEF Appends, IInv, SuiteInv
    <3> QED
      BY <3>1 DEF Status
  <2>4. CASE StateIn(ledger, e.cell) = "ABSENT" /\ e.state = "STARTED" /\ Started = {}
    <3>1. Status[e.cell] = "ABSENT" /\ \A d \in Cells : Status[d] # "STARTED"
      BY <2>2, <2>4 DEF Status, Started
    <3>2. ~Contract!Paused
      BY DEF Contract!Paused
    <3>3. Contract!Begin(e.cell)
      BY <2>2, <2>3, <2>4, <3>1, <3>2 DEF Contract!Begin
    <3> QED
      BY <2>2, <3>3 DEF Contract!Next
  <2>5. CASE StateIn(ledger, e.cell) = "STARTED" /\ e.state = Final(bundle[e.cell])
    <3>1. Status[e.cell] = "STARTED"
      BY <2>2, <2>5 DEF Status
    <3>2. e.state \in {"COMPLETED", "FAILED"}
      BY <2>5 DEF Final
    <3>3. Contract!Settle(e.cell)
      BY <2>3, <3>1, <3>2 DEF Contract!Settle
    <3> QED
      BY <2>2, <3>3 DEF Contract!Next
  <2> QED
    BY <2>1, <2>4, <2>5 DEF Appends
<1>3. UNCHANGED ledger \/ StartCell \/ Settle
  <2>1. ASSUME NEW p \in Clerks, ClerkStep(p)
        PROVE  UNCHANGED ledger
    BY <2>1, ClerkStill
  <2>2. Enter \/ SetAside \/ Replace \/ Evaluate \/ Leave \/ KillRunner \/ ClearStaleLock
        => UNCHANGED ledger
    BY DEF Enter, SetAside, Replace, Evaluate, Leave, KillRunner, ClearStaleLock
  <2>3. UNCHANGED vars => UNCHANGED ledger
    BY DEF vars, suite
  <2> QED
    BY <2>1, <2>2, <2>3 DEF Next, RunnerStep, ClerkStep
<1> QED
  BY <1>1, <1>2, <1>3

(* The suite that clerks read while it runs keeps the contract the suite of   *)
(* BenchmarkSuite keeps: one cell in flight and one final state per cell,     *)
(* although its runner is the simpler one.                                    *)
THEOREM SharedSuiteImplementsContract == Spec => Contract!Spec
<1>1. Init => Contract!Init
  BY DEF Init, Contract!Init, Status, StateIn
<1>2. IInv /\ [Next]_vars => [Contract!Next]_<<Status, <<>>>>
  BY StatusSimulates
<1> QED
  BY <1>1, <1>2, ArchiveInvariance, PTL DEF Spec, Contract!Spec
=============================================================================
