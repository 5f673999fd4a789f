------------------------ MODULE DiagnosticKernelProofs ------------------------
(***************************************************************************)
(* Theorems about the evidence kernel, for any run, any calls, any budget  *)
(* and any tools: types, an aligned ledger, evidence accounted for, a      *)
(* positive verdict that nothing disturbs, and what each verdict rests on. *)
(* DiagnosticKernel implements the investigation contract.                 *)
(***************************************************************************)
EXTENDS DiagnosticKernel, SequenceTheorems, FiniteSetTheorems, TLAPS

Positive == {"CONFIRMED", "NO_INCIDENT"}

\* The evidence a gap holds answers the call the gap was opened for.
EvidenceTyped ==
  \A i \in DOMAIN gaps : \A r \in gaps[i].evidence :
    /\ r.kind = gaps[i].call.kind
    /\ r.kind # "LOCATE" => r.subject = gaps[i].call.subject

\* The inventory and the gaps hold the same evidence.
EvidenceBought ==
  /\ \A r \in records : \E i \in DOMAIN gaps : r \in gaps[i].evidence
  /\ \A i \in DOMAIN gaps : /\ gaps[i].evidence \subseteq records
                            /\ (gaps[i].evidence # {}) <=> (gaps[i].status = "CLOSED")

\* A positive verdict stands over a ledger without an open or blocked gap.
VerdictSound == finalStatus \in Positive => AllGapsClosed

\* The inductive invariant of the kernel.
KernelInv ==
  /\ TypeOK
  /\ LedgerAligned
  /\ OpenGapsAwaited
  /\ EvidenceTyped
  /\ EvidenceBought
  /\ VerdictSound

NewGap(call, gap, refs, status, code) ==
  [id |-> gap, call |-> call, refs |-> refs, status |-> status,
   error |-> code, evidence |-> {}]

SettledGap(g, status, code, rs) ==
  [g EXCEPT !.status = status, !.error = code, !.evidence = rs]

SettleGap(k, status, code, rs) ==
  gaps' = [gaps EXCEPT ![k] = SettledGap(gaps[k], status, code, rs)]

-----------------------------------------------------------------------------
(* How an attempt and a settlement change the ledger, entry by entry *)

(* The gaps and the fingerprints are indexed by the same attempts. *)
LEMMA LedgerDomain ==
    ASSUME TypeOK, LedgerAligned
    PROVE  /\ Len(gaps) \in Nat
           /\ DOMAIN gaps = 1..Len(gaps)
           /\ DOMAIN fingerprints = 1..Len(gaps)
           /\ \A i \in DOMAIN gaps : gaps[i] \in Gap
           /\ \A i \in DOMAIN gaps : fingerprints[i] \in Calls
BY LenProperties, ElementOfSeq DEF TypeOK, LedgerAligned

(* An attempt adds one entry to both lists and leaves the others alone. *)
LEMMA AttemptShape ==
    ASSUME TypeOK, LedgerAligned, KernelAssumption,
           NEW call \in Calls, NEW gap \in GapIds, NEW refs \in References,
           NEW new \in Declarations, NEW status \in {"OPEN", "BLOCKED"},
           NEW code \in SafeToolErrors \cup {"none"},
           Attempt(call, gap, refs, new, status, code)
    PROVE  /\ gaps' \in Seq(Gap)
           /\ fingerprints' \in Seq(Calls)
           /\ Len(gaps') = Len(gaps) + 1
           /\ Len(fingerprints') = Len(gaps) + 1
           /\ DOMAIN gaps' = DOMAIN gaps \cup {Len(gaps) + 1}
           /\ DOMAIN fingerprints' = DOMAIN gaps'
           /\ gaps'[Len(gaps) + 1] = NewGap(call, gap, refs, status, code)
           /\ fingerprints'[Len(gaps) + 1] = call
           /\ \A i \in DOMAIN gaps : /\ gaps'[i] = gaps[i]
                                     /\ fingerprints'[i] = fingerprints[i]
<1> DEFINE g == NewGap(call, gap, refs, status, code)
<1>1. g \in Gap
  BY DEF NewGap, Gap
<1>2. gaps' = Append(gaps, g) /\ fingerprints' = Append(fingerprints, call)
  BY DEF Attempt, NewGap
<1>3. gaps \in Seq(Gap) /\ fingerprints \in Seq(Calls) /\ Len(fingerprints) = Len(gaps)
  BY DEF TypeOK, LedgerAligned
<1> HIDE DEF g
<1>4. /\ gaps' \in Seq(Gap)
      /\ Len(gaps') = Len(gaps) + 1
      /\ \A i \in 1..Len(gaps) : gaps'[i] = gaps[i]
      /\ gaps'[Len(gaps) + 1] = g
  BY <1>1, <1>2, <1>3, AppendProperties
<1>5. /\ fingerprints' \in Seq(Calls)
      /\ Len(fingerprints') = Len(gaps) + 1
      /\ \A i \in 1..Len(gaps) : fingerprints'[i] = fingerprints[i]
      /\ fingerprints'[Len(gaps) + 1] = call
  BY <1>2, <1>3, AppendProperties
<1>6. Len(gaps) \in Nat /\ DOMAIN gaps = 1..Len(gaps)
  BY LedgerDomain
<1>7. /\ DOMAIN gaps' = 1..(Len(gaps) + 1)
      /\ DOMAIN fingerprints' = 1..(Len(gaps) + 1)
  BY <1>4, <1>5, LenProperties
<1> QED
  BY <1>4, <1>5, <1>6, <1>7 DEF g

(* A settlement changes one gap, which it keeps the call of. *)
LEMMA SettleShape ==
    ASSUME TypeOK, LedgerAligned, NEW k \in DOMAIN gaps,
           NEW status \in {"CLOSED", "BLOCKED"},
           NEW code \in SafeToolErrors \cup {"none"}, NEW rs \in SUBSET Records,
           SettleGap(k, status, code, rs)
    PROVE  /\ gaps' \in Seq(Gap)
           /\ Len(gaps') = Len(gaps)
           /\ DOMAIN gaps' = DOMAIN gaps
           /\ gaps'[k].id = gaps[k].id
           /\ gaps'[k].call = gaps[k].call
           /\ gaps'[k].status = status
           /\ gaps'[k].evidence = rs
           /\ \A i \in DOMAIN gaps : i # k => gaps'[i] = gaps[i]
<1> DEFINE g == SettledGap(gaps[k], status, code, rs)
<1>1. gaps[k] \in Gap
  BY LedgerDomain
<1>2. /\ g \in Gap
      /\ g.id = gaps[k].id /\ g.call = gaps[k].call
      /\ g.status = status /\ g.evidence = rs
  BY <1>1 DEF Gap, SettledGap
<1>3. gaps' = [gaps EXCEPT ![k] = g] /\ gaps \in Seq(Gap)
  BY DEF SettleGap, TypeOK
<1> HIDE DEF g
<1>4. gaps' \in Seq(Gap) /\ Len(gaps') = Len(gaps)
  BY <1>2, <1>3, ExceptSeq, LenProperties
<1>5. DOMAIN gaps' = DOMAIN gaps /\ gaps'[k] = g
      /\ \A i \in DOMAIN gaps : i # k => gaps'[i] = gaps[i]
  BY <1>3
<1> QED
  BY <1>2, <1>4, <1>5

-----------------------------------------------------------------------------
(* The inductive invariant *)

(* Before its first call the kernel has an empty ledger and no verdict. *)
LEMMA InitKernelInv == Init => KernelInv
<1> SUFFICES ASSUME Init PROVE KernelInv
  OBVIOUS
<1>1. TypeOK
  BY DEF Init, TypeOK, NoOutcome
<1>2. LedgerAligned
  BY KernelAssumption DEF Init, LedgerAligned, KernelAssumption
<1> QED
  BY <1>1, <1>2
  DEF Init, KernelInv, OpenGapsAwaited, EvidenceTyped, EvidenceBought, VerdictSound, Positive

(* An accepted attempt, prepared or blocked, keeps the invariant. *)
LEMMA AttemptKeepsInv ==
    ASSUME KernelInv,
           NEW call \in Calls, NEW gap \in GapIds, NEW refs \in References,
           NEW new \in Declarations, NEW status \in {"OPEN", "BLOCKED"},
           NEW code \in SafeToolErrors \cup {"none"},
           Admissible(call, gap, refs, new),
           Attempt(call, gap, refs, new, status, code),
           \/ status = "OPEN" /\ prepared' = prepared \cup {[gap |-> gap, call |-> call]}
           \/ status = "BLOCKED" /\ prepared' = prepared,
           UNCHANGED <<records, verdict>>
    PROVE  KernelInv'
<1> DEFINE n == Len(gaps) + 1
<1>1. TypeOK /\ LedgerAligned /\ OpenGapsAwaited /\ EvidenceTyped /\ EvidenceBought
  BY DEF KernelInv
<1>2. /\ gaps' \in Seq(Gap)
      /\ fingerprints' \in Seq(Calls)
      /\ Len(gaps') = n
      /\ Len(fingerprints') = n
      /\ DOMAIN gaps' = DOMAIN gaps \cup {n}
      /\ DOMAIN fingerprints' = DOMAIN gaps'
      /\ gaps'[n] = NewGap(call, gap, refs, status, code)
      /\ fingerprints'[n] = call
      /\ \A i \in DOMAIN gaps : gaps'[i] = gaps[i] /\ fingerprints'[i] = fingerprints[i]
  BY <1>1, KernelAssumption, AttemptShape
<1>3. /\ Len(gaps) \in Nat
      /\ DOMAIN gaps = 1..Len(gaps)
      /\ DOMAIN fingerprints = DOMAIN gaps
      /\ n \notin DOMAIN gaps
  BY <1>1, LedgerDomain
<1> DEFINE g == NewGap(call, gap, refs, status, code)
<1>4. g.id = gap /\ g.call = call /\ g.status = status /\ g.evidence = {}
  BY DEF NewGap
<1> HIDE DEF g, n
<1>5. TypeOK'
  <2>1. hypotheses' \subseteq Hypotheses
    BY <1>1 DEF Attempt, Pending, TypeOK, Hypotheses
  <2>2. prepared' \subseteq [gap : GapIds, call : Calls]
    BY <1>1 DEF TypeOK
  <2>3. revision' \in Nat /\ UNCHANGED <<records, finalStatus, outcome>>
    BY <1>1 DEF Attempt, TypeOK, verdict
  <2> QED
    BY <1>1, <1>2, <2>1, <2>2, <2>3 DEF TypeOK
<1>6. LedgerAligned'
  <2>1. Len(fingerprints') <= ToolCallLimit /\ Len(gaps') = Len(fingerprints')
    BY <1>1, <1>2, <1>3, KernelAssumption DEF n, Admissible, LedgerAligned, KernelAssumption
  <2>2. \A i \in DOMAIN gaps' : gaps'[i].call = fingerprints'[i]
    BY <1>1, <1>2, <1>4 DEF g, LedgerAligned
  <2>3. \A i, j \in DOMAIN gaps' : gaps'[i].id = gaps'[j].id => i = j
    BY <1>1, <1>2, <1>4 DEF g, LedgerAligned, Admissible
  <2>4. \A i, j \in DOMAIN fingerprints' : fingerprints'[i] = fingerprints'[j] => i = j
    BY <1>1, <1>2, <1>3 DEF LedgerAligned, Admissible
  <2>5. \A a, b \in hypotheses' : a.id = b.id => a = b
    <3>1. hypotheses' = hypotheses \cup Pending(new)
      BY DEF Attempt
    <3>2. \A a \in hypotheses, b \in Pending(new) : a.id # b.id
      BY DEF Pending, RegisteredIds
    <3>3. \A a, b \in Pending(new) : a.id = b.id => a = b
      BY DeclarationAssumption DEF DeclarationAssumption, Pending
    <3> QED
      BY <1>1, <3>1, <3>2, <3>3 DEF LedgerAligned
  <2> QED
    BY <2>1, <2>2, <2>3, <2>4, <2>5 DEF LedgerAligned
<1>7. OpenGapsAwaited'
  <2>1. ASSUME NEW p \in prepared'
        PROVE  \E i \in DOMAIN gaps' : /\ gaps'[i].id = p.gap
                                       /\ gaps'[i].status = "OPEN"
                                       /\ gaps'[i].call = p.call
    <3>1. CASE p \in prepared
      <4>1. PICK i \in DOMAIN gaps : AwaitedBy(i, p) /\ gaps[i].call = p.call
        BY <1>1, <3>1 DEF OpenGapsAwaited
      <4> QED
        BY <1>2, <4>1 DEF AwaitedBy
    <3>2. CASE p \notin prepared
      BY <1>2, <1>4, <2>1, <3>2 DEF g
    <3> QED
      BY <3>1, <3>2
  <2>2. ASSUME NEW i \in DOMAIN gaps', gaps'[i].status = "OPEN"
        PROVE  [gap |-> gaps'[i].id, call |-> gaps'[i].call] \in prepared'
    <3>1. CASE i \in DOMAIN gaps
      BY <1>1, <1>2, <2>2, <3>1 DEF OpenGapsAwaited
    <3>2. CASE i = n
      BY <1>2, <1>4, <2>2, <3>2 DEF g
    <3> QED
      BY <1>2, <3>1, <3>2
  <2> QED
    BY <2>1, <2>2 DEF OpenGapsAwaited, AwaitedBy
<1>8. EvidenceTyped'
  BY <1>1, <1>2, <1>4 DEF g, EvidenceTyped
<1>9. EvidenceBought'
  <2>1. \A r \in records' : \E i \in DOMAIN gaps' : r \in gaps'[i].evidence
    BY <1>1, <1>2 DEF EvidenceBought
  <2>2. \A i \in DOMAIN gaps' : /\ gaps'[i].evidence \subseteq records'
                                /\ (gaps'[i].evidence # {}) <=> (gaps'[i].status = "CLOSED")
    BY <1>1, <1>2, <1>4 DEF g, EvidenceBought
  <2> QED
    BY <2>1, <2>2 DEF EvidenceBought
<1>10. VerdictSound'
  BY DEF VerdictSound, Positive, Admissible, verdict
<1> QED
  BY <1>5, <1>6, <1>7, <1>8, <1>9, <1>10 DEF KernelInv

(* While a call is awaited there is no positive verdict. *)
LEMMA AwaitedMeansUndecided ==
    ASSUME KernelInv, prepared # {}
    PROVE  finalStatus \notin Positive
BY DEF KernelInv, OpenGapsAwaited, VerdictSound, AllGapsClosed, AwaitedBy

(* A settled call, answered or failed, keeps the invariant. *)
LEMMA SettleKeepsInv ==
    ASSUME KernelInv, NEW p \in prepared, NEW k \in DOMAIN gaps, AwaitedBy(k, p),
           NEW status \in {"CLOSED", "BLOCKED"},
           NEW code \in SafeToolErrors \cup {"none"}, NEW rs \in SUBSET Records,
           \/ status = "CLOSED" /\ Answers(p.call, rs)
           \/ status = "BLOCKED" /\ rs = {},
           SettleGap(k, status, code, rs),
           records' = records \cup rs,
           prepared' = prepared \ {p},
           revision' = revision + 1,
           UNCHANGED <<hypotheses, fingerprints, verdict>>
    PROVE  KernelInv'
<1>1. TypeOK /\ LedgerAligned /\ OpenGapsAwaited /\ EvidenceTyped /\ EvidenceBought
  BY DEF KernelInv
<1>2. /\ gaps' \in Seq(Gap)
      /\ Len(gaps') = Len(gaps)
      /\ DOMAIN gaps' = DOMAIN gaps
      /\ gaps'[k].id = gaps[k].id
      /\ gaps'[k].call = gaps[k].call
      /\ gaps'[k].status = status
      /\ gaps'[k].evidence = rs
      /\ \A i \in DOMAIN gaps : i # k => gaps'[i] = gaps[i]
  BY <1>1, SettleShape
<1>3. gaps[k].id = p.gap /\ gaps[k].call = p.call /\ gaps[k].status = "OPEN"
  BY <1>1 DEF AwaitedBy, OpenGapsAwaited, LedgerAligned
<1>4. gaps[k].evidence = {}
  BY <1>1, <1>3 DEF EvidenceBought
<1>5. TypeOK'
  BY <1>1, <1>2 DEF TypeOK, verdict
<1>6. LedgerAligned'
  <2>1. \A i \in DOMAIN gaps' : gaps'[i].call = gaps[i].call /\ gaps'[i].id = gaps[i].id
    BY <1>2
  <2> QED
    BY <1>1, <1>2, <2>1 DEF LedgerAligned
<1>7. OpenGapsAwaited'
  <2>1. ASSUME NEW q \in prepared'
        PROVE  \E i \in DOMAIN gaps' : /\ gaps'[i].id = q.gap
                                       /\ gaps'[i].status = "OPEN"
                                       /\ gaps'[i].call = q.call
    <3>1. PICK i \in DOMAIN gaps : AwaitedBy(i, q) /\ gaps[i].call = q.call
      BY <1>1 DEF OpenGapsAwaited
    <3>2. i # k
      <4>1. q # p /\ q \in [gap : GapIds, call : Calls] /\ p \in [gap : GapIds, call : Calls]
        BY <1>1 DEF TypeOK
      <4> QED
        BY <1>3, <3>1, <4>1 DEF AwaitedBy
    <3> QED
      BY <1>2, <3>1, <3>2 DEF AwaitedBy
  <2>2. ASSUME NEW i \in DOMAIN gaps', gaps'[i].status = "OPEN"
        PROVE  [gap |-> gaps'[i].id, call |-> gaps'[i].call] \in prepared'
    <3>1. i # k /\ i \in DOMAIN gaps /\ gaps'[i] = gaps[i]
      BY <1>2, <2>2
    <3>2. [gap |-> gaps[i].id, call |-> gaps[i].call] \in prepared
      BY <1>1, <2>2, <3>1 DEF OpenGapsAwaited
    <3>3. gaps[i].id # p.gap
      BY <1>1, <1>3, <3>1 DEF LedgerAligned
    <3>4. [gap |-> gaps[i].id, call |-> gaps[i].call] # p
      BY <3>3
    <3> QED
      BY <3>1, <3>2, <3>4
  <2> QED
    BY <2>1, <2>2 DEF OpenGapsAwaited, AwaitedBy
<1>8. EvidenceTyped'
  <2>1. \A r \in rs : r.kind = p.call.kind /\ (r.kind # "LOCATE" => r.subject = p.call.subject)
    BY DEF Answers
  <2> QED
    BY <1>1, <1>2, <1>3, <2>1 DEF EvidenceTyped
<1>9. EvidenceBought'
  <2>1. ASSUME NEW r \in records'
        PROVE  \E i \in DOMAIN gaps' : r \in gaps'[i].evidence
    <3>1. CASE r \in rs
      BY <1>2, <3>1
    <3>2. CASE r \in records
      <4>1. PICK i \in DOMAIN gaps : r \in gaps[i].evidence
        BY <1>1, <3>2 DEF EvidenceBought
      <4> QED
        BY <1>2, <1>4, <4>1
    <3> QED
      BY <2>1, <3>1, <3>2
  <2>2. (rs # {}) <=> (status = "CLOSED")
    BY DEF Answers
  <2>3. \A i \in DOMAIN gaps' : /\ gaps'[i].evidence \subseteq records'
                                /\ (gaps'[i].evidence # {}) <=> (gaps'[i].status = "CLOSED")
    BY <1>1, <1>2, <2>2 DEF EvidenceBought
  <2> QED
    BY <2>1, <2>3 DEF EvidenceBought
<1>10. VerdictSound'
  BY AwaitedMeansUndecided DEF VerdictSound, verdict
<1> QED
  BY <1>5, <1>6, <1>7, <1>8, <1>9, <1>10 DEF KernelInv

(* An answer is recorded by settling one gap. *)
LEMMA RecordSettles ==
    ASSUME KernelInv, NEW p \in prepared, NEW rs \in SUBSET Records, RecordResult(p, rs)
    PROVE  \E k \in DOMAIN gaps : /\ AwaitedBy(k, p)
                                  /\ SettleGap(k, "CLOSED", gaps[k].error, rs)
<1>1. PICK k \in DOMAIN gaps :
        /\ AwaitedBy(k, p)
        /\ gaps' = [gaps EXCEPT ![k].status = "CLOSED", ![k].evidence = rs]
  BY DEF RecordResult
<1>2. gaps \in Seq(Gap) /\ gaps[k] \in Gap
  BY LedgerDomain DEF KernelInv, TypeOK
<1>3. /\ DOMAIN gaps' = DOMAIN gaps
      /\ gaps'[k] = SettledGap(gaps[k], "CLOSED", gaps[k].error, rs)
      /\ \A i \in DOMAIN gaps : i # k => gaps'[i] = gaps[i]
  BY <1>1, <1>2 DEF Gap, SettledGap
<1>4. gaps' = [i \in DOMAIN gaps |-> gaps'[i]]
  BY <1>1
<1>5. SettleGap(k, "CLOSED", gaps[k].error, rs)
  BY <1>3, <1>4 DEF SettleGap
<1> QED
  BY <1>1, <1>5

(* A failure is recorded by settling one gap, which holds no evidence. *)
LEMMA FailureSettles ==
    ASSUME KernelInv, NEW p \in prepared, NEW code \in ErrorCodes, RecordFailure(p, code)
    PROVE  \E k \in DOMAIN gaps : /\ AwaitedBy(k, p)
                                  /\ SettleGap(k, "BLOCKED", SafeCode(code), {})
<1>1. PICK k \in DOMAIN gaps :
        /\ AwaitedBy(k, p)
        /\ gaps' = [gaps EXCEPT ![k].status = "BLOCKED", ![k].error = SafeCode(code)]
  BY DEF RecordFailure
<1>2. gaps \in Seq(Gap) /\ gaps[k] \in Gap /\ gaps[k].evidence = {}
  BY <1>1, LedgerDomain DEF KernelInv, TypeOK, EvidenceBought, AwaitedBy
<1>3. /\ DOMAIN gaps' = DOMAIN gaps
      /\ gaps'[k] = SettledGap(gaps[k], "BLOCKED", SafeCode(code), {})
      /\ \A i \in DOMAIN gaps : i # k => gaps'[i] = gaps[i]
  BY <1>1, <1>2 DEF Gap, SettledGap
<1>4. gaps' = [i \in DOMAIN gaps |-> gaps'[i]]
  BY <1>1
<1>5. SettleGap(k, "BLOCKED", SafeCode(code), {})
  BY <1>3, <1>4 DEF SettleGap
<1> QED
  BY <1>1, <1>5

(* A verdict, if it is positive over closed gaps only, keeps the invariant. *)
LEMMA CloseKeepsInv ==
    ASSUME KernelInv, UNCHANGED ledger, revision' = revision + 1,
           finalStatus' \in FinalStatuses,
           finalStatus' \in Positive => AllGapsClosed,
           outcome'.status \in FinalStatuses \cup {"none"},
           outcome'.evidence \subseteq Records
    PROVE  KernelInv'
<1>1. UNCHANGED <<hypotheses, gaps, fingerprints, records, prepared>>
  BY DEF ledger
<1>2. TypeOK'
  BY <1>1 DEF KernelInv, TypeOK
<1>3. LedgerAligned' /\ EvidenceTyped' /\ EvidenceBought' /\ OpenGapsAwaited'
  BY <1>1 DEF KernelInv, LedgerAligned, EvidenceTyped, EvidenceBought, OpenGapsAwaited, AwaitedBy
<1>4. VerdictSound'
  BY <1>1 DEF VerdictSound, AllGapsClosed
<1> QED
  BY <1>2, <1>3, <1>4 DEF KernelInv

(* What a positive decision cites lies in the inventory. *)
LEMMA CitableInInventory == Citable \subseteq records
BY DEF Citable

(* Every decision keeps the invariant. *)
LEMMA FinalizeKeepsInv ==
    ASSUME KernelInv,
           FinalizeConfirmed \/ FinalizeHealthy \/ FinalizeInsufficient \/ TerminateModelError
    PROVE  KernelInv'
<1>0. records \subseteq Records
  BY DEF KernelInv, TypeOK
<1>1. CASE FinalizeConfirmed
  <2>1. PICK sel \in hypotheses, judged \in [RegisteredIds -> Verdicts] :
          \E root \in RootCitations(sel.code), cited \in SUBSET Citable :
            \E affected \in SUBSET SupportedAssets(root, cited) :
              Confirm(sel, judged, root, affected, cited)
    BY <1>1 DEF FinalizeConfirmed
  <2>2. PICK root \in RootCitations(sel.code), cited \in SUBSET Citable :
          \E affected \in SUBSET SupportedAssets(root, cited) :
            Confirm(sel, judged, root, affected, cited)
    BY <2>1
  <2>3. PICK affected \in SUBSET SupportedAssets(root, cited) :
          Confirm(sel, judged, root, affected, cited)
    BY <2>2
  <2>4. root \cup cited \subseteq Records
    BY <1>0, <2>2, CitableInInventory DEF RootCitations
  <2>5. /\ UNCHANGED ledger /\ revision' = revision + 1 /\ finalStatus' = "CONFIRMED"
        /\ outcome'.status = "CONFIRMED" /\ outcome'.evidence = root \cup cited
        /\ AllGapsClosed
    BY <2>3 DEF Confirm, Close, NoOutcome
  <2> QED
    BY <2>4, <2>5, CloseKeepsInv DEF FinalStatuses
<1>2. CASE FinalizeHealthy
  <2>1. PICK relations \in SUBSET Subjects, cited \in SUBSET Citable :
          DeclareHealthy(relations, cited)
    BY <1>2 DEF FinalizeHealthy
  <2>2. cited \subseteq Records
    BY <1>0, <2>1, CitableInInventory
  <2>3. /\ UNCHANGED ledger /\ revision' = revision + 1 /\ finalStatus' = "NO_INCIDENT"
        /\ outcome'.status = "NO_INCIDENT" /\ outcome'.evidence = cited
        /\ AllGapsClosed
    BY <2>1 DEF DeclareHealthy, Close, NoOutcome
  <2> QED
    BY <2>2, <2>3, CloseKeepsInv DEF FinalStatuses
<1>3. CASE FinalizeInsufficient
  <2>1. PICK declared \in SUBSET Declarable : Abstain(declared)
    BY <1>3 DEF FinalizeInsufficient
  <2>2. /\ UNCHANGED ledger /\ revision' = revision + 1
        /\ finalStatus' = "INSUFFICIENT_EVIDENCE" /\ outcome' = Abstained(declared)
    BY <2>1 DEF Abstain, Close
  <2>3. /\ Abstained(declared).status \in FinalStatuses \cup {"none"}
        /\ Abstained(declared).evidence \subseteq Records
    <3>1. CASE \E item \in DerivedUnresolved : item.subject \in BlankSubjects
      BY <3>1 DEF Abstained, NoOutcome
    <3>2. CASE ~ \E item \in DerivedUnresolved : item.subject \in BlankSubjects
      BY <1>0, <3>2 DEF Abstained, NoOutcome, FinalStatuses
    <3> QED
      BY <3>1, <3>2
  <2> QED
    BY <2>2, <2>3, CloseKeepsInv DEF FinalStatuses, Positive
<1>4. CASE TerminateModelError
  <2>1. /\ UNCHANGED ledger /\ revision' = revision + 1 /\ finalStatus' = "MODEL_ERROR"
        /\ outcome'.status = "MODEL_ERROR" /\ outcome'.evidence = {}
    BY <1>4 DEF TerminateModelError, Close, NoOutcome
  <2> QED
    BY <2>1, CloseKeepsInv DEF FinalStatuses, Positive
<1> QED
  BY <1>1, <1>2, <1>3, <1>4

(* Every step of the kernel keeps the invariant. *)
LEMMA NextKernelInv == KernelInv /\ [Next]_vars => KernelInv'
<1> SUFFICES ASSUME KernelInv, [Next]_vars PROVE KernelInv'
  OBVIOUS
<1>1. CASE Prepare
  <2>1. PICK call \in Calls, gap \in GapIds, refs \in References, new \in Declarations :
          PrepareTool(call, gap, refs, new)
    BY <1>1 DEF Prepare
  <2> QED
    BY <2>1, AttemptKeepsInv DEF PrepareTool
<1>2. CASE Block
  <2>1. PICK call \in Calls, gap \in GapIds, refs \in References, new \in Declarations :
          BlockRelation(call, gap, refs, new)
    BY <1>2 DEF Block
  <2> QED
    BY <2>1, AttemptKeepsInv, KernelAssumption DEF BlockRelation, KernelAssumption
<1>3. CASE Record
  <2>1. PICK p \in prepared, rs \in SUBSET Records : RecordResult(p, rs)
    <3>1. PICK p \in prepared, r \in Records : RecordResult(p, {r})
      BY <1>3 DEF Record
    <3> QED
      BY <3>1
  <2>2. PICK k \in DOMAIN gaps : AwaitedBy(k, p) /\ SettleGap(k, "CLOSED", gaps[k].error, rs)
    BY <2>1, RecordSettles
  <2>3. gaps[k].error \in SafeToolErrors \cup {"none"}
    BY LedgerDomain DEF KernelInv, Gap
  <2> QED
    BY <2>1, <2>2, <2>3, SettleKeepsInv DEF RecordResult
<1>4. CASE Fail
  <2>1. PICK p \in prepared, code \in ErrorCodes : RecordFailure(p, code)
    BY <1>4 DEF Fail
  <2>2. PICK k \in DOMAIN gaps : AwaitedBy(k, p) /\ SettleGap(k, "BLOCKED", SafeCode(code), {})
    BY <2>1, FailureSettles
  <2>3. SafeCode(code) \in SafeToolErrors
    BY KernelAssumption DEF KernelAssumption, SafeCode
  <2>4. records' = records \cup {}
    BY <2>1 DEF RecordFailure
  <2> QED
    BY <2>1, <2>2, <2>3, <2>4, SettleKeepsInv DEF RecordFailure
<1>5. CASE FinalizeConfirmed \/ FinalizeHealthy \/ FinalizeInsufficient \/ TerminateModelError
  BY <1>5, FinalizeKeepsInv
<1>6. CASE UNCHANGED vars
  BY <1>6 DEF vars, ledger, verdict, KernelInv, TypeOK, LedgerAligned, OpenGapsAwaited,
              EvidenceTyped, EvidenceBought, VerdictSound, AwaitedBy, AllGapsClosed
<1> QED
  BY <1>1, <1>2, <1>3, <1>4, <1>5, <1>6 DEF Next

-----------------------------------------------------------------------------
(* The theorems *)

(* The inductive invariant holds of every investigation. *)
THEOREM KernelInvHolds == Spec => []KernelInv
BY InitKernelInv, NextKernelInv, PTL DEF Spec

(* Every variable keeps its type, so snapshot() can always build its records. *)
THEOREM TypeCorrect == Spec => []TypeOK
<1>1. KernelInv => TypeOK
  BY DEF KernelInv
<1> QED
  BY <1>1, KernelInvHolds, PTL

(* The gaps and the counted attempts of prepare_tool never drift apart, no   *)
(* call is attempted twice and the budget is never exceeded.                 *)
THEOREM LedgerAlignedAlways == Spec => []LedgerAligned
<1>1. KernelInv => LedgerAligned
  BY DEF KernelInv
<1> QED
  BY <1>1, KernelInvHolds, PTL

(* A gap is open exactly while a prepared call awaits its result, whatever   *)
(* the tools do and in whichever order they answer.                          *)
THEOREM OpenGapsAwaitedAlways == Spec => []OpenGapsAwaited
<1>1. KernelInv => OpenGapsAwaited
  BY DEF KernelInv
<1> QED
  BY <1>1, KernelInvHolds, PTL

(* Two gaps that share a record were opened for the same call. *)
LEMMA SharedRecordSameGap ==
    ASSUME KernelInv, NEW i \in DOMAIN gaps, NEW j \in DOMAIN gaps,
           NEW r, r \in gaps[i].evidence, r \in gaps[j].evidence
    PROVE  i = j
<1>1. gaps[i].call \in Calls /\ gaps[j].call \in Calls
  BY LedgerDomain DEF KernelInv, Gap
<1>2. /\ gaps[i].call.kind = gaps[j].call.kind
      /\ gaps[i].call.kind # "LOCATE" => gaps[i].call.subject = gaps[j].call.subject
  BY DEF KernelInv, EvidenceTyped
<1>3. gaps[i].call = gaps[j].call
  BY <1>1, <1>2, CallAssumption DEF CallAssumption
<1>4. fingerprints[i] = fingerprints[j]
  BY <1>3 DEF KernelInv, LedgerAligned
<1> QED
  BY <1>4, LedgerDomain DEF KernelInv, LedgerAligned

(* Every accepted record belongs to exactly one closed gap: evidence cannot  *)
(* enter the inventory without an attempt of the budget that explains it.    *)
THEOREM EvidenceAccountedAlways == Spec => []EvidenceAccounted
<1>1. ASSUME KernelInv PROVE EvidenceAccounted
  <2>1. ASSUME NEW r \in records
        PROVE  \E i \in DOMAIN gaps :
                 /\ gaps[i].status = "CLOSED"
                 /\ r \in gaps[i].evidence
                 /\ \A j \in DOMAIN gaps : r \in gaps[j].evidence => j = i
    <3>1. PICK i \in DOMAIN gaps : r \in gaps[i].evidence
      BY <1>1 DEF KernelInv, EvidenceBought
    <3>2. gaps[i].status = "CLOSED"
      BY <1>1, <3>1 DEF KernelInv, EvidenceBought
    <3> QED
      BY <1>1, <3>1, <3>2, SharedRecordSameGap
  <2> QED
    BY <1>1, <2>1 DEF KernelInv, EvidenceBought, EvidenceAccounted
<1> QED
  BY <1>1, KernelInvHolds, PTL

(* No step follows a positive verdict.                                       *)
LEMMA PositiveStops ==
    ASSUME KernelInv, [Next]_vars, finalStatus \in Positive
    PROVE  UNCHANGED vars
<1>1. finalStatus # "open" /\ prepared = {}
  BY AwaitedMeansUndecided DEF Positive
<1>2. ~ Prepare /\ ~ Block
  BY <1>1 DEF Prepare, Block, PrepareTool, BlockRelation, Admissible
<1>3. ~ Record /\ ~ Fail
  BY <1>1 DEF Record, Fail
<1>4. ~ FinalizeConfirmed /\ ~ FinalizeHealthy /\ ~ FinalizeInsufficient /\ ~ TerminateModelError
  BY <1>1 DEF FinalizeConfirmed, FinalizeHealthy, FinalizeInsufficient, Abstain,
              TerminateModelError
<1> QED
  BY <1>2, <1>3, <1>4 DEF Next

(* After a confirmed or healthy verdict no attempt, result or failure enters *)
(* the ledger and no other verdict replaces it.                              *)
THEOREM PositiveVerdictStays == Spec => PositiveVerdictFrozen
<1>1. KernelInv /\ [Next]_vars => [finalStatus \notin {"CONFIRMED", "NO_INCIDENT"}]_vars
  BY PositiveStops DEF Positive
<1> QED
  BY <1>1, KernelInvHolds, PTL DEF Spec, PositiveVerdictFrozen

-----------------------------------------------------------------------------
(* What a verdict rests on *)

(* No step takes anything out of the ledger: attempts keep their calls and   *)
(* their evidence, a blocked gap stays blocked, and a call that explains a   *)
(* node is admitted only when a run result names the node.                   *)
LedgerGrows ==
  /\ records \subseteq records'
  /\ \A i \in DOMAIN gaps :
       /\ i \in DOMAIN gaps'
       /\ gaps'[i].call = gaps[i].call
       /\ gaps[i].evidence \subseteq gaps'[i].evidence
       /\ gaps[i].status = "BLOCKED" => gaps'[i].status = "BLOCKED"
  /\ \A j \in DOMAIN gaps' \ DOMAIN gaps :
       /\ \A i \in DOMAIN gaps : i < j
       /\ gaps'[j].call.kind = "EXPLAIN" => gaps'[j].call.subject \in FailedNodes

(* An attempt adds to the ledger.                                            *)
LEMMA AttemptGrows ==
    ASSUME KernelInv,
           NEW call \in Calls, NEW gap \in GapIds, NEW refs \in References,
           NEW new \in Declarations, NEW status \in {"OPEN", "BLOCKED"},
           NEW code \in SafeToolErrors \cup {"none"},
           Attempt(call, gap, refs, new, status, code), UNCHANGED records,
           call.kind = "EXPLAIN" => call.subject \in FailedNodes
    PROVE  LedgerGrows
<1>1. TypeOK /\ LedgerAligned
  BY DEF KernelInv
<1>2. /\ gaps' \in Seq(Gap)
      /\ fingerprints' \in Seq(Calls)
      /\ Len(gaps') = Len(gaps) + 1
      /\ Len(fingerprints') = Len(gaps) + 1
      /\ DOMAIN gaps' = DOMAIN gaps \cup {Len(gaps) + 1}
      /\ DOMAIN fingerprints' = DOMAIN gaps'
      /\ gaps'[Len(gaps) + 1] = NewGap(call, gap, refs, status, code)
      /\ fingerprints'[Len(gaps) + 1] = call
      /\ \A i \in DOMAIN gaps : gaps'[i] = gaps[i] /\ fingerprints'[i] = fingerprints[i]
  BY <1>1, KernelAssumption, AttemptShape
<1>3. Len(gaps) \in Nat /\ DOMAIN gaps = 1..Len(gaps)
  BY <1>1, LedgerDomain
<1>4. NewGap(call, gap, refs, status, code).call = call
  BY DEF NewGap
<1>5. \A j \in DOMAIN gaps' \ DOMAIN gaps : j = Len(gaps) + 1
  BY <1>2
<1>6. \A i \in DOMAIN gaps : i < Len(gaps) + 1
  BY <1>3
<1> QED
  BY <1>2, <1>4, <1>5, <1>6 DEF LedgerGrows

(* A settlement adds evidence to one open gap, or blocks it.                 *)
LEMMA SettleGrows ==
    ASSUME KernelInv, NEW p \in prepared, NEW k \in DOMAIN gaps, AwaitedBy(k, p),
           NEW status \in {"CLOSED", "BLOCKED"},
           NEW code \in SafeToolErrors \cup {"none"}, NEW rs \in SUBSET Records,
           SettleGap(k, status, code, rs), records \subseteq records'
    PROVE  LedgerGrows
<1>1. /\ DOMAIN gaps' = DOMAIN gaps
      /\ gaps'[k].call = gaps[k].call
      /\ gaps'[k].status = status
      /\ \A i \in DOMAIN gaps : i # k => gaps'[i] = gaps[i]
  BY SettleShape DEF KernelInv
<1>2. gaps[k].evidence = {} /\ gaps[k].status = "OPEN"
  BY DEF KernelInv, EvidenceBought, AwaitedBy
<1> QED
  BY <1>1, <1>2 DEF LedgerGrows

(* No step takes anything out of the ledger.                                 *)
LEMMA NextGrows == KernelInv /\ [Next]_vars => LedgerGrows
<1> SUFFICES ASSUME KernelInv, [Next]_vars PROVE LedgerGrows
  OBVIOUS
<1>1. CASE Prepare
  <2>1. PICK call \in Calls, gap \in GapIds, refs \in References, new \in Declarations :
          PrepareTool(call, gap, refs, new)
    BY <1>1 DEF Prepare
  <2> QED
    BY <2>1, AttemptGrows DEF PrepareTool, Proven
<1>2. CASE Block
  <2>1. PICK call \in Calls, gap \in GapIds, refs \in References, new \in Declarations :
          BlockRelation(call, gap, refs, new)
    BY <1>2 DEF Block
  <2>2. call.kind # "EXPLAIN"
    BY <2>1 DEF BlockRelation, RelationKinds
  <2> QED
    BY <2>1, <2>2, AttemptGrows, KernelAssumption DEF BlockRelation, KernelAssumption
<1>3. CASE Record
  <2>1. PICK p \in prepared, rs \in SUBSET Records : RecordResult(p, rs)
    <3>1. PICK p \in prepared, r \in Records : RecordResult(p, {r})
      BY <1>3 DEF Record
    <3> QED
      BY <3>1
  <2>2. PICK k \in DOMAIN gaps : AwaitedBy(k, p) /\ SettleGap(k, "CLOSED", gaps[k].error, rs)
    BY <2>1, RecordSettles
  <2>3. gaps[k].error \in SafeToolErrors \cup {"none"}
    BY LedgerDomain DEF KernelInv, Gap
  <2> QED
    BY <2>1, <2>2, <2>3, SettleGrows DEF RecordResult
<1>4. CASE Fail
  <2>1. PICK p \in prepared, code \in ErrorCodes : RecordFailure(p, code)
    BY <1>4 DEF Fail
  <2>2. PICK k \in DOMAIN gaps : AwaitedBy(k, p) /\ SettleGap(k, "BLOCKED", SafeCode(code), {})
    BY <2>1, FailureSettles
  <2>3. SafeCode(code) \in SafeToolErrors
    BY KernelAssumption DEF KernelAssumption, SafeCode
  <2> QED
    BY <2>1, <2>2, <2>3, SettleGrows DEF RecordFailure
<1>5. CASE FinalizeConfirmed \/ FinalizeHealthy \/ FinalizeInsufficient \/ TerminateModelError
  <2>1. UNCHANGED ledger
    BY <1>5 DEF FinalizeConfirmed, FinalizeHealthy, FinalizeInsufficient, TerminateModelError,
                Confirm, DeclareHealthy, Abstain, Close
  <2> QED
    BY <2>1 DEF LedgerGrows, ledger
<1>6. CASE UNCHANGED vars
  BY <1>6 DEF vars, ledger, LedgerGrows
<1> QED
  BY <1>1, <1>2, <1>3, <1>4, <1>5, <1>6 DEF Next

(* A step that is no decision leaves the verdict alone; a decision leaves    *)
(* the ledger alone.                                                         *)
LEMMA DecisionOrNot ==
  ASSUME [Next]_vars
  PROVE  \/ UNCHANGED verdict
         \/ /\ UNCHANGED ledger
            /\ FinalizeConfirmed \/ FinalizeHealthy \/ FinalizeInsufficient \/ TerminateModelError
<1>1. CASE Prepare \/ Block \/ Record \/ Fail
  BY <1>1 DEF Prepare, Block, Record, Fail, PrepareTool, BlockRelation, RecordResult, RecordFailure
<1>2. CASE FinalizeConfirmed \/ FinalizeHealthy \/ FinalizeInsufficient \/ TerminateModelError
  BY <1>2 DEF FinalizeConfirmed, FinalizeHealthy, FinalizeInsufficient, TerminateModelError,
              Confirm, DeclareHealthy, Abstain, Close
<1>3. CASE UNCHANGED vars
  BY <1>3 DEF vars
<1> QED
  BY <1>1, <1>2, <1>3 DEF Next

(* Whatever was explained had been located by an earlier attempt.            *)
ExplainedIsLocated ==
  \A j \in DOMAIN gaps : gaps[j].call.kind = "EXPLAIN" =>
    \E i \in DOMAIN gaps : /\ i < j
                           /\ gaps[i].call.kind = "LOCATE"
                           /\ \E r \in gaps[i].evidence : gaps[j].call.subject \in r.nodes

(* A confirmed diagnosis under the general rule cites an error.              *)
ConfirmedCitesError ==
  (outcome.status = "CONFIRMED" /\ "UPSTREAM" \in Rules[outcome.root]) =>
    \E r \in outcome.evidence : r.kind = "EXPLAIN" /\ r \in records

(* An abstention names blocked relations only.                               *)
UnresolvedStaysBlocked ==
  outcome.status = "INSUFFICIENT_EVIDENCE" => RelationItems(outcome.unresolved) \subseteq BlockedRelations

VerdictInv ==
  /\ ExplainedIsLocated
  /\ ConfirmedCitesError
  /\ UnresolvedStaysBlocked
  /\ HealthyRunIsClean
  /\ outcome.status = "NO_INCIDENT" => finalStatus = "NO_INCIDENT"

(* A node is explained only after a run result has named it.                 *)
LEMMA LocatedStep == ASSUME KernelInv, ExplainedIsLocated, LedgerGrows PROVE ExplainedIsLocated'
<1> SUFFICES ASSUME NEW j \in DOMAIN gaps', gaps'[j].call.kind = "EXPLAIN"
             PROVE  \E i \in DOMAIN gaps' :
                      /\ i < j
                      /\ gaps'[i].call.kind = "LOCATE"
                      /\ \E r \in gaps'[i].evidence : gaps'[j].call.subject \in r.nodes
  BY DEF ExplainedIsLocated
<1>1. CASE j \in DOMAIN gaps
  <2>1. gaps[j].call = gaps'[j].call
    BY <1>1 DEF LedgerGrows
  <2>2. PICK i \in DOMAIN gaps : /\ i < j
                                 /\ gaps[i].call.kind = "LOCATE"
                                 /\ \E r \in gaps[i].evidence : gaps[j].call.subject \in r.nodes
    BY <1>1, <2>1 DEF ExplainedIsLocated
  <2> QED
    BY <2>1, <2>2 DEF LedgerGrows
<1>2. CASE j \notin DOMAIN gaps
  <2>1. gaps'[j].call.subject \in FailedNodes /\ \A i \in DOMAIN gaps : i < j
    BY <1>2 DEF LedgerGrows
  <2>2. PICK r \in records : r.kind = "LOCATE" /\ gaps'[j].call.subject \in r.nodes
    BY <2>1 DEF FailedNodes
  <2>3. PICK i \in DOMAIN gaps : r \in gaps[i].evidence
    BY DEF KernelInv, EvidenceBought
  <2>4. gaps[i].call.kind = "LOCATE"
    BY <2>2, <2>3 DEF KernelInv, EvidenceTyped
  <2> QED
    BY <2>1, <2>2, <2>3, <2>4 DEF LedgerGrows
<1> QED
  BY <1>1, <1>2

(* A relation once blocked stays blocked.                                    *)
LEMMA BlockedGrows == ASSUME LedgerGrows PROVE BlockedRelations \subseteq BlockedRelations'
  BY DEF LedgerGrows, BlockedRelations, BlockedGaps

(* A record the inventory holds was bought by a call of its kind.            *)
LEMMA Bought ==
    ASSUME KernelInv, NEW r \in records
    PROVE  \E i \in DOMAIN gaps : /\ r \in gaps[i].evidence
                                  /\ gaps[i].call.kind = r.kind
                                  /\ r.kind # "LOCATE" => gaps[i].call.subject = r.subject
  BY DEF KernelInv, EvidenceBought, EvidenceTyped

(* What an abstention reports of relations is what the ledger has blocked.   *)
LEMMA AbstentionReportsBlocked ==
    ASSUME KernelInv, NEW declared, \A item \in declared : Witnessed(item)
    PROVE  RelationItems(DerivedUnresolved \cup declared) = BlockedRelations
<1>1. ASSUME NEW g \in BlockedGaps
      PROVE  g.call = [kind |-> g.call.kind, subject |-> g.call.subject]
  <2>1. g.call \in Calls
    BY LedgerDomain DEF KernelInv, BlockedGaps, Gap
  <2> QED
    BY <2>1, CallAssumption DEF CallAssumption
<1>2. ASSUME NEW u \in DerivedUnresolved \cup declared, u.kind \in RelationKinds
      PROVE  [kind |-> u.kind, subject |-> u.subject] \in BlockedRelations
  <2>1. CASE u \in DerivedUnresolved
    <3>1. PICK g \in BlockedGaps :
            /\ g.call.kind \in RelationKinds
            /\ u = [kind |-> g.call.kind, subject |-> g.call.subject,
                    reason |-> "RELATION_NOT_ALLOWED"]
      BY <2>1 DEF DerivedUnresolved
    <3>2. [kind |-> u.kind, subject |-> u.subject] = g.call
      BY <1>1, <3>1
    <3> QED
      BY <3>1, <3>2 DEF BlockedRelations
  <2>2. CASE u \in declared
    <3>1. PICK g \in BlockedGaps : g.call = [kind |-> u.kind, subject |-> u.subject]
      BY <1>2, <2>2 DEF Witnessed, RelationKinds
    <3>2. g.call.kind = u.kind
      BY <3>1
    <3> QED
      BY <1>2, <3>1, <3>2 DEF BlockedRelations
  <2> QED
    BY <2>1, <2>2
<1>3. ASSUME NEW c \in BlockedRelations
      PROVE  c \in RelationItems(DerivedUnresolved \cup declared)
  <2>1. PICK g \in BlockedGaps : g.call.kind \in RelationKinds /\ c = g.call
    BY DEF BlockedRelations
  <2> DEFINE u == [kind |-> g.call.kind, subject |-> g.call.subject,
                   reason |-> "RELATION_NOT_ALLOWED"]
  <2>2. u \in DerivedUnresolved
    BY <2>1 DEF DerivedUnresolved
  <2>3. u.kind \in RelationKinds /\ c = [kind |-> u.kind, subject |-> u.subject]
    BY <1>1, <2>1
  <2> QED
    BY <2>2, <2>3 DEF RelationItems
<1>4. RelationItems(DerivedUnresolved \cup declared) \subseteq BlockedRelations
  BY <1>2 DEF RelationItems
<1> QED
  BY <1>3, <1>4

(* A confirmation rests on an error that is in the inventory.                *)
LEMMA ConfirmationKeeps ==
    ASSUME KernelInv, VerdictInv, FinalizeConfirmed, UNCHANGED ledger
    PROVE  /\ ConfirmedCitesError' /\ outcome'.status = "CONFIRMED"
<1>1. PICK sel \in hypotheses, judged \in [RegisteredIds -> Verdicts] :
        \E root \in RootCitations(sel.code), cited \in SUBSET Citable :
          \E affected \in SUBSET SupportedAssets(root, cited) :
            Confirm(sel, judged, root, affected, cited)
  BY DEF FinalizeConfirmed
<1>2. PICK root \in RootCitations(sel.code), cited \in SUBSET Citable :
        \E affected \in SUBSET SupportedAssets(root, cited) :
          Confirm(sel, judged, root, affected, cited)
  BY <1>1
<1>3. PICK affected \in SUBSET SupportedAssets(root, cited) :
        Confirm(sel, judged, root, affected, cited)
  BY <1>2
<1>4. /\ outcome'.status = "CONFIRMED" /\ outcome'.root = sel.code
      /\ outcome'.evidence = root \cup cited
  BY <1>3 DEF Confirm, Close, NoOutcome
<1>5. root \subseteq records /\ ("UPSTREAM" \in Rules[sel.code] => ErrorNodes(root) # {})
  BY <1>2, CitableInInventory DEF RootCitations, RootSupported, UpstreamRule
<1>6. records' = records
  BY DEF ledger
<1>7. ErrorNodes(root) # {} => \E r \in root : r.kind = "EXPLAIN"
  BY DEF ErrorNodes
<1> QED
  BY <1>4, <1>5, <1>6, <1>7 DEF ConfirmedCitesError

(* A healthy verdict rests on a clean ledger.                                *)
LEMMA HealthKeeps ==
    ASSUME KernelInv, FinalizeHealthy, UNCHANGED ledger
    PROVE  HealthyRunIsClean' /\ outcome'.status = "NO_INCIDENT" /\ finalStatus' = "NO_INCIDENT"
<1>1. PICK relations \in SUBSET Subjects, cited \in SUBSET Citable :
        DeclareHealthy(relations, cited)
  BY DEF FinalizeHealthy
<1>2. /\ outcome'.status = "NO_INCIDENT" /\ finalStatus' = "NO_INCIDENT"
      /\ AllGapsClosed /\ relations # {} /\ HealthSupported(relations, cited)
      /\ cited \subseteq records
  BY <1>1, CitableInInventory DEF DeclareHealthy, Close, NoOutcome
<1>3. PICK rel \in relations : TRUE
  BY <1>2
<1>4. PICK p \in records : p.kind = "PROFILE" /\ p.subject = rel
  BY <1>2, <1>3 DEF HealthSupported
<1>5. PICK h \in records : h.kind = "HISTORY" /\ h.subject = rel
  BY <1>2, <1>3 DEF HealthSupported
<1>6. PICK i \in DOMAIN gaps : gaps[i].call.kind = "PROFILE" /\ gaps[i].call.subject = rel
  BY <1>4, Bought
<1>7. PICK j \in DOMAIN gaps : gaps[j].call.kind = "HISTORY" /\ gaps[j].call.subject = rel
  BY <1>5, Bought
<1>8. \A r \in records : r.kind = "LOCATE" => r.clean
  BY <1>2 DEF HealthSupported
<1>9. PICK l \in records : l.kind = "LOCATE"
  BY <1>2 DEF HealthSupported
<1>10. PICK k \in DOMAIN gaps : gaps[k].call.kind = "LOCATE"
  BY <1>9, Bought
<1>11. gaps' = gaps /\ records' = records
  BY DEF ledger
<1> QED
  BY <1>2, <1>6, <1>7, <1>8, <1>10, <1>11 DEF HealthyRunIsClean, AllGapsClosed

(* Every step keeps what the verdict says true of the ledger.                *)
LEMMA NextVerdictInv == KernelInv /\ VerdictInv /\ [Next]_vars => VerdictInv'
<1> SUFFICES ASSUME KernelInv, VerdictInv, [Next]_vars PROVE VerdictInv'
  OBVIOUS
<1>1. LedgerGrows
  BY NextGrows
<1>2. ExplainedIsLocated'
  BY <1>1, LocatedStep DEF VerdictInv
<1>3. BlockedRelations \subseteq BlockedRelations'
  BY <1>1, BlockedGrows
<1>4. CASE UNCHANGED verdict
  <2>1. UNCHANGED <<finalStatus, outcome>>
    BY <1>4 DEF verdict
  <2>2. ConfirmedCitesError' /\ UnresolvedStaysBlocked'
    BY <1>1, <1>3, <2>1
    DEF VerdictInv, ConfirmedCitesError, UnresolvedStaysBlocked, LedgerGrows, RelationItems
  <2>3. HealthyRunIsClean'
    <3>1. CASE outcome.status = "NO_INCIDENT"
      <4>1. finalStatus \in Positive
        BY <3>1 DEF VerdictInv, Positive
      <4>2. UNCHANGED vars
        BY <4>1, PositiveStops
      <4> QED
        BY <4>2 DEF vars, ledger, verdict, VerdictInv, HealthyRunIsClean
    <3>2. CASE outcome.status # "NO_INCIDENT"
      BY <2>1, <3>2 DEF HealthyRunIsClean
    <3> QED
      BY <3>1, <3>2
  <2> QED
    BY <1>2, <2>1, <2>2, <2>3 DEF VerdictInv
<1>5. CASE UNCHANGED ledger /\ FinalizeConfirmed
  <2>1. ConfirmedCitesError' /\ outcome'.status = "CONFIRMED"
    BY <1>5, ConfirmationKeeps
  <2> QED
    BY <1>2, <2>1 DEF VerdictInv, UnresolvedStaysBlocked, HealthyRunIsClean
<1>6. CASE UNCHANGED ledger /\ FinalizeHealthy
  <2>1. HealthyRunIsClean' /\ outcome'.status = "NO_INCIDENT" /\ finalStatus' = "NO_INCIDENT"
    BY <1>6, HealthKeeps
  <2> QED
    BY <1>2, <2>1 DEF VerdictInv, UnresolvedStaysBlocked, ConfirmedCitesError
<1>7. CASE UNCHANGED ledger /\ FinalizeInsufficient
  <2>1. PICK declared \in SUBSET Declarable : Abstain(declared)
    BY <1>7 DEF FinalizeInsufficient
  <2>2. outcome' = Abstained(declared) /\ \A item \in declared : Witnessed(item)
    BY <2>1 DEF Abstain, Close
  <2>3. RelationItems(DerivedUnresolved \cup declared) = BlockedRelations
    BY <2>2, AbstentionReportsBlocked
  <2>4. outcome'.status \in {"none", "INSUFFICIENT_EVIDENCE"}
    BY <2>2 DEF Abstained, NoOutcome
  <2>5. outcome'.status = "INSUFFICIENT_EVIDENCE" =>
          outcome'.unresolved = DerivedUnresolved \cup declared
    BY <2>2 DEF Abstained, NoOutcome
  <2>6. UnresolvedStaysBlocked'
    BY <1>3, <2>3, <2>5 DEF UnresolvedStaysBlocked, RelationItems
  <2> QED
    BY <1>2, <2>4, <2>6 DEF VerdictInv, HealthyRunIsClean, ConfirmedCitesError
<1>8. CASE UNCHANGED ledger /\ TerminateModelError
  <2>1. outcome'.status = "MODEL_ERROR"
    BY <1>8 DEF TerminateModelError, Close, NoOutcome
  <2> QED
    BY <1>2, <2>1
    DEF VerdictInv, UnresolvedStaysBlocked, HealthyRunIsClean, ConfirmedCitesError
<1> QED
  BY <1>4, <1>5, <1>6, <1>7, <1>8, DecisionOrNot

(* What a verdict says stays true of the ledger it was taken over.           *)
THEOREM VerdictInvHolds == Spec => []VerdictInv
<1>1. Init => VerdictInv
  BY DEF Init, VerdictInv, ExplainedIsLocated, ConfirmedCitesError, UnresolvedStaysBlocked,
         HealthyRunIsClean, NoOutcome
<1> QED
  BY <1>1, NextVerdictInv, KernelInvHolds, PTL DEF Spec

(* A diagnosis confirmed under the general rule cites the error of a node    *)
(* that an earlier attempt located in a run result (prepare_tool, finalize). *)
THEOREM ConfirmedIsTracedAlways == Spec => []ConfirmedIsTraced
<1>1. ASSUME KernelInv, VerdictInv PROVE ConfirmedIsTraced
  <2> SUFFICES ASSUME outcome.status = "CONFIRMED", "UPSTREAM" \in Rules[outcome.root]
               PROVE  \E i, j \in DOMAIN gaps :
                        /\ i < j
                        /\ gaps[i].call.kind = "LOCATE"
                        /\ gaps[j].call.kind = "EXPLAIN"
                        /\ gaps[j].evidence \cap outcome.evidence # {}
                        /\ \E r \in gaps[i].evidence : gaps[j].call.subject \in r.nodes
    BY DEF ConfirmedIsTraced
  <2>1. PICK r \in outcome.evidence : r.kind = "EXPLAIN" /\ r \in records
    BY <1>1 DEF VerdictInv, ConfirmedCitesError
  <2>2. PICK j \in DOMAIN gaps : r \in gaps[j].evidence /\ gaps[j].call.kind = "EXPLAIN"
    BY <1>1, <2>1, Bought
  <2>3. PICK i \in DOMAIN gaps : /\ i < j
                                 /\ gaps[i].call.kind = "LOCATE"
                                 /\ \E s \in gaps[i].evidence : gaps[j].call.subject \in s.nodes
    BY <1>1, <2>2 DEF VerdictInv, ExplainedIsLocated
  <2> QED
    BY <2>1, <2>2, <2>3
<1> QED
  BY <1>1, KernelInvHolds, VerdictInvHolds, PTL

(* A run declared healthy shows nothing wrong anywhere in its ledger, and    *)
(* some relation was both profiled and followed over time (finalize).        *)
THEOREM HealthyRunIsCleanAlways == Spec => []HealthyRunIsClean
<1>1. VerdictInv => HealthyRunIsClean
  BY DEF VerdictInv
<1> QED
  BY <1>1, VerdictInvHolds, PTL

(* An abstention tells exactly which relations the ledger has blocked when   *)
(* it is issued, and none of them is answered later (finalize,               *)
(* record_tool_result).                                                      *)
THEOREM UnresolvedIsBlockedAlways == Spec => UnresolvedIsBlocked
<1>1. ASSUME KernelInv, VerdictInv, VerdictInv', [Next]_vars,
             outcome'.status = "INSUFFICIENT_EVIDENCE", outcome # outcome'
      PROVE  RelationItems(outcome'.unresolved) = BlockedRelations'
  <2>1. UNCHANGED ledger /\ FinalizeInsufficient
    <3>1. ~ UNCHANGED verdict
      BY <1>1 DEF verdict
    <3>2. FinalizeConfirmed => outcome'.status = "CONFIRMED"
      BY DEF FinalizeConfirmed, Confirm, Close, NoOutcome
    <3>3. FinalizeHealthy => outcome'.status = "NO_INCIDENT"
      BY DEF FinalizeHealthy, DeclareHealthy, Close, NoOutcome
    <3>4. TerminateModelError => outcome'.status = "MODEL_ERROR"
      BY DEF TerminateModelError, Close, NoOutcome
    <3> QED
      BY <1>1, <3>1, <3>2, <3>3, <3>4, DecisionOrNot
  <2>2. PICK declared \in SUBSET Declarable : Abstain(declared)
    BY <2>1 DEF FinalizeInsufficient
  <2>3. outcome' = Abstained(declared) /\ \A item \in declared : Witnessed(item)
    BY <2>2 DEF Abstain, Close
  <2>4. outcome'.unresolved = DerivedUnresolved \cup declared
    BY <1>1, <2>3 DEF Abstained, NoOutcome
  <2>5. BlockedRelations' = BlockedRelations
    BY <2>1 DEF ledger, BlockedRelations, BlockedGaps
  <2> QED
    BY <1>1, <2>3, <2>4, <2>5, AbstentionReportsBlocked
<1>2. KernelInv /\ VerdictInv /\ VerdictInv' /\ [Next]_vars =>
        [outcome'.status = "INSUFFICIENT_EVIDENCE" =>
           /\ RelationItems(outcome'.unresolved) \subseteq BlockedRelations'
           /\ outcome # outcome' => RelationItems(outcome'.unresolved) = BlockedRelations']_vars
  BY <1>1 DEF VerdictInv, UnresolvedStaysBlocked, RelationItems
<1> QED
  BY <1>2, KernelInvHolds, VerdictInvHolds, PTL DEF Spec, UnresolvedIsBlocked

-----------------------------------------------------------------------------
(* The kernel implements the investigation contract *)

(* A call has a status when some gap opened for it has. *)
LEMMA CallHasStatus ==
    ASSUME NEW status, NEW c
    PROVE  c \in CallsOf(status) <=>
             \E i \in DOMAIN gaps : gaps[i].status = status /\ gaps[i].call = c
BY DEF CallsOf

(* The calls attempted are the fingerprints spent, at most one per attempt. *)
LEMMA AttemptsCounted ==
    ASSUME KernelInv
    PROVE  /\ Contract!attempts = {fingerprints[i] : i \in DOMAIN fingerprints}
           /\ Cardinality(Contract!attempts) <= Len(fingerprints)
           /\ Cardinality(Contract!attempts) \in Nat
           /\ Len(fingerprints) \in Nat
<1> DEFINE calls == {fingerprints[i] : i \in DOMAIN fingerprints}
<1>1. /\ Len(gaps) \in Nat /\ Len(fingerprints) = Len(gaps)
      /\ DOMAIN gaps = 1..Len(gaps) /\ DOMAIN fingerprints = DOMAIN gaps
      /\ \A i \in DOMAIN gaps : gaps[i] \in Gap /\ gaps[i].call = fingerprints[i]
  BY LedgerDomain DEF KernelInv, LedgerAligned
<1>2. \A i \in DOMAIN gaps : gaps[i].status \in {"OPEN", "CLOSED", "BLOCKED"}
  BY <1>1 DEF Gap
<1>3. ASSUME NEW c
      PROVE  c \in Contract!attempts <=> c \in calls
  <2>1. c \in Contract!attempts <=>
          \E status \in {"OPEN", "CLOSED", "BLOCKED"} : c \in CallsOf(status)
    BY DEF Contract!attempts
  <2>2. c \in Contract!attempts <=> \E i \in DOMAIN gaps : gaps[i].call = c
    BY <1>2, <2>1, CallHasStatus
  <2> QED
    BY <1>1, <2>2
<1>4. Contract!attempts = calls
  BY <1>3
<1>5. fingerprints \in Surjection(1..Len(fingerprints), calls)
  BY <1>1, LenProperties DEF KernelInv, TypeOK, Surjection
<1>6. IsFiniteSet(1..Len(fingerprints)) /\ Cardinality(1..Len(fingerprints)) = Len(fingerprints)
  <2>1. Len(fingerprints) \in Nat
    BY <1>1
  <2>2. ASSUME NEW n \in Nat
        PROVE  IsFiniteSet(1..n) /\ Cardinality(1..n) = n
    BY FS_Interval
  <2> QED
    BY <2>1, <2>2
<1>7. IsFiniteSet(calls) /\ Cardinality(calls) <= Len(fingerprints)
  BY <1>5, <1>6, FS_Surjection
<1>8. Cardinality(calls) \in Nat
  BY <1>7, FS_CardinalityType
<1> QED
  BY <1>1, <1>4, <1>7, <1>8

(* The contract counts as the kernel does. *)
LEMMA SameCardinality == \A S : Contract!Cardinality(S) = Cardinality(S)
BY DEF Contract!Cardinality, Cardinality, Contract!IsFiniteSet, IsFiniteSet

(* An attempt of the kernel is an attempt of the contract. *)
LEMMA AttemptRefines ==
    ASSUME KernelInv,
           NEW call \in Calls, NEW gap \in GapIds, NEW refs \in References,
           NEW new \in Declarations, NEW status \in {"OPEN", "BLOCKED"},
           NEW code \in SafeToolErrors \cup {"none"},
           Admissible(call, gap, refs, new),
           Attempt(call, gap, refs, new, status, code),
           UNCHANGED verdict
    PROVE  Contract!Next
<1> DEFINE n == Len(gaps) + 1
<1>1. /\ DOMAIN gaps' = DOMAIN gaps \cup {n}
      /\ gaps'[n].status = status /\ gaps'[n].call = call
      /\ \A i \in DOMAIN gaps : gaps'[i] = gaps[i]
  <2>1. TypeOK /\ LedgerAligned
    BY DEF KernelInv
  <2>2. /\ gaps' \in Seq(Gap)
        /\ fingerprints' \in Seq(Calls)
        /\ Len(gaps') = n
        /\ Len(fingerprints') = n
        /\ DOMAIN gaps' = DOMAIN gaps \cup {n}
        /\ DOMAIN fingerprints' = DOMAIN gaps'
        /\ gaps'[n] = NewGap(call, gap, refs, status, code)
        /\ fingerprints'[n] = call
        /\ \A i \in DOMAIN gaps : gaps'[i] = gaps[i] /\ fingerprints'[i] = fingerprints[i]
    BY <2>1, KernelAssumption, AttemptShape
  <2> QED
    BY <2>2 DEF NewGap
<1>2. n \notin DOMAIN gaps
  BY LedgerDomain DEF KernelInv
<1> HIDE DEF n
<1>3. ASSUME NEW s, NEW c
      PROVE  c \in CallsOf(s)' <=> c \in CallsOf(s) \/ (s = status /\ c = call)
  <2>1. c \in CallsOf(s)' <=> \E i \in DOMAIN gaps' : gaps'[i].status = s /\ gaps'[i].call = c
    BY DEF CallsOf
  <2> QED
    BY <1>1, <1>2, <2>1, CallHasStatus
<1>4. CallsOf("CLOSED")' = CallsOf("CLOSED")
  <2>1. \A c : c \in CallsOf("CLOSED")' <=> c \in CallsOf("CLOSED")
    BY <1>3
  <2> QED
    BY <2>1
<1>5. /\ status = "OPEN" => /\ CallsOf("OPEN")' = CallsOf("OPEN") \cup {call}
                            /\ CallsOf("BLOCKED")' = CallsOf("BLOCKED")
      /\ status = "BLOCKED" => /\ CallsOf("BLOCKED")' = CallsOf("BLOCKED") \cup {call}
                               /\ CallsOf("OPEN")' = CallsOf("OPEN")
  BY <1>3
<1>6. call \notin Contract!attempts
  BY AttemptsCounted DEF Admissible
<1>7. Cardinality(Contract!attempts) < ToolCallLimit
  BY AttemptsCounted, KernelAssumption DEF Admissible, KernelAssumption
<1>8. finalStatus = "open" /\ finalStatus' = finalStatus
  BY DEF Admissible, verdict
<1>9. Contract!Try(call)
  <2>1. \/ /\ CallsOf("OPEN")' = CallsOf("OPEN") \cup {call}
           /\ CallsOf("BLOCKED")' = CallsOf("BLOCKED")
        \/ /\ CallsOf("BLOCKED")' = CallsOf("BLOCKED") \cup {call}
           /\ CallsOf("OPEN")' = CallsOf("OPEN")
    BY <1>5
  <2> QED
    <3>1. finalStatus = "open" /\ call \notin Contract!attempts /\ Cardinality(Contract!attempts) < ToolCallLimit
      BY <1>6, <1>7, <1>8
    <3>2. UNCHANGED <<CallsOf("CLOSED"), finalStatus>>
      BY <1>4, <1>8
    <3> QED
      BY ONLY <2>1, <3>1, <3>2, SameCardinality DEF Contract!Try
<1> QED
  BY <1>9 DEF Contract!Next

(* A settlement of the kernel is a settlement of the contract. *)
LEMMA SettleRefines ==
    ASSUME KernelInv, NEW p \in prepared, NEW k \in DOMAIN gaps, AwaitedBy(k, p),
           NEW status \in {"CLOSED", "BLOCKED"},
           NEW code \in SafeToolErrors \cup {"none"}, NEW rs \in SUBSET Records,
           SettleGap(k, status, code, rs), UNCHANGED verdict
    PROVE  Contract!Next
<1> DEFINE call == gaps[k].call
<1>1. /\ DOMAIN gaps' = DOMAIN gaps
      /\ gaps'[k].status = status /\ gaps'[k].call = call
      /\ \A i \in DOMAIN gaps : i # k => gaps'[i] = gaps[i]
  BY SettleShape DEF KernelInv
<1>2. gaps[k].status = "OPEN" /\ call \in Calls
  BY LedgerDomain DEF KernelInv, AwaitedBy, Gap
<1>3. \A i \in DOMAIN gaps : gaps[i].call = call => i = k
  BY LedgerDomain DEF KernelInv, LedgerAligned
<1> HIDE DEF call
<1>4. ASSUME NEW s, NEW c
      PROVE  c \in CallsOf(s)' <=>
               IF c = call THEN s = status ELSE c \in CallsOf(s)
  <2>1. c \in CallsOf(s)' <=> \E i \in DOMAIN gaps' : gaps'[i].status = s /\ gaps'[i].call = c
    BY DEF CallsOf
  <2>2. CASE c = call
    BY <1>1, <1>3, <2>1, <2>2 DEF call
  <2>3. CASE c # call
    BY <1>1, <2>1, <2>3, CallHasStatus DEF call
  <2> QED
    BY <2>2, <2>3
<1>5. \A s : call \in CallsOf(s) <=> s = "OPEN"
  <2> SUFFICES ASSUME NEW s PROVE call \in CallsOf(s) <=> s = "OPEN"
    OBVIOUS
  <2> QED
    BY <1>2, <1>3, CallHasStatus DEF call
<1>6. CallsOf("OPEN")' = CallsOf("OPEN") \ {call}
  BY <1>4, <1>5
<1>7. /\ status = "CLOSED" => /\ CallsOf("CLOSED")' = CallsOf("CLOSED") \cup {call}
                              /\ CallsOf("BLOCKED")' = CallsOf("BLOCKED")
      /\ status = "BLOCKED" => /\ CallsOf("BLOCKED")' = CallsOf("BLOCKED") \cup {call}
                               /\ CallsOf("CLOSED")' = CallsOf("CLOSED")
  <2>1. \A c : c \in CallsOf("CLOSED")' <=>
               c \in CallsOf("CLOSED") \/ (status = "CLOSED" /\ c = call)
    BY <1>4, <1>5
  <2>2. \A c : c \in CallsOf("BLOCKED")' <=>
               c \in CallsOf("BLOCKED") \/ (status = "BLOCKED" /\ c = call)
    BY <1>4, <1>5
  <2> QED
    BY <2>1, <2>2
<1>8. Contract!Settle(call)
  BY <1>5, <1>6, <1>7 DEF Contract!Settle, verdict
<1> QED
  BY <1>2, <1>8 DEF Contract!Next

(* A verdict of the kernel is a verdict of the contract. *)
LEMMA VerdictRefines ==
    ASSUME KernelInv, UNCHANGED ledger, finalStatus = "open",
           finalStatus' \in FinalStatuses,
           finalStatus' \in Positive => AllGapsClosed /\ records # {}
    PROVE  Contract!Next
<1>1. \A s : CallsOf(s)' = CallsOf(s)
  BY DEF ledger, CallsOf
<1>2. ASSUME finalStatus' \in Positive
      PROVE  CallsOf("OPEN") = {} /\ CallsOf("BLOCKED") = {} /\ CallsOf("CLOSED") # {}
  <2>1. AllGapsClosed /\ records # {}
    BY <1>2
  <2>2. \A i \in DOMAIN gaps : gaps[i].status = "CLOSED"
    BY <2>1 DEF AllGapsClosed
  <2>3. CallsOf("OPEN") = {} /\ CallsOf("BLOCKED") = {}
    BY <2>2 DEF CallsOf
  <2>4. PICK r \in records, i \in DOMAIN gaps : r \in gaps[i].evidence
    BY <2>1 DEF KernelInv, EvidenceBought
  <2>5. gaps[i].call \in CallsOf("CLOSED")
    BY <2>2, <2>4, CallHasStatus
  <2> QED
    BY <2>3, <2>5
<1>3. Contract!Decide(finalStatus')
  BY <1>1, <1>2 DEF Contract!Decide, Contract!MayDecide, Contract!Positive, Positive
<1>4. finalStatus' \in Contract!Positive \cup Contract!Negative
  BY DEF Contract!Positive, Contract!Negative, FinalStatuses
<1> QED
  BY <1>3, <1>4 DEF Contract!Next

(* Every step of the kernel is a step of the contract or leaves it alone. *)
LEMMA NextRefines == KernelInv /\ [Next]_vars => [Contract!Next]_Contract!vars
<1> SUFFICES ASSUME KernelInv, [Next]_vars PROVE Contract!Next \/ UNCHANGED Contract!vars
  OBVIOUS
<1>1. CASE Prepare
  <2>1. PICK call \in Calls, gap \in GapIds, refs \in References, new \in Declarations :
          PrepareTool(call, gap, refs, new)
    BY <1>1 DEF Prepare
  <2> QED
    BY <2>1, AttemptRefines DEF PrepareTool
<1>2. CASE Block
  <2>1. PICK call \in Calls, gap \in GapIds, refs \in References, new \in Declarations :
          BlockRelation(call, gap, refs, new)
    BY <1>2 DEF Block
  <2> QED
    BY <2>1, AttemptRefines, KernelAssumption DEF BlockRelation, KernelAssumption
<1>3. CASE Record
  <2>1. PICK p \in prepared, rs \in SUBSET Records : RecordResult(p, rs)
    <3>1. PICK p \in prepared, r \in Records : RecordResult(p, {r})
      BY <1>3 DEF Record
    <3> QED
      BY <3>1
  <2>2. PICK k \in DOMAIN gaps : AwaitedBy(k, p) /\ SettleGap(k, "CLOSED", gaps[k].error, rs)
    BY <2>1, RecordSettles
  <2>3. gaps[k].error \in SafeToolErrors \cup {"none"}
    BY LedgerDomain DEF KernelInv, Gap
  <2> QED
    BY <2>1, <2>2, <2>3, SettleRefines DEF RecordResult
<1>4. CASE Fail
  <2>1. PICK p \in prepared, code \in ErrorCodes : RecordFailure(p, code)
    BY <1>4 DEF Fail
  <2>2. PICK k \in DOMAIN gaps : AwaitedBy(k, p) /\ SettleGap(k, "BLOCKED", SafeCode(code), {})
    BY <2>1, FailureSettles
  <2>3. SafeCode(code) \in SafeToolErrors
    BY KernelAssumption DEF KernelAssumption, SafeCode
  <2> QED
    BY <2>1, <2>2, <2>3, SettleRefines DEF RecordFailure
<1>5. CASE FinalizeConfirmed
  <2>1. PICK sel \in hypotheses, judged \in [RegisteredIds -> Verdicts] :
          \E root \in RootCitations(sel.code), cited \in SUBSET Citable :
            \E affected \in SUBSET SupportedAssets(root, cited) :
              Confirm(sel, judged, root, affected, cited)
    BY <1>5 DEF FinalizeConfirmed
  <2>2. /\ UNCHANGED ledger /\ finalStatus = "open" /\ finalStatus' = "CONFIRMED"
        /\ AllGapsClosed /\ Citable # {}
    BY <2>1 DEF Confirm, Close
  <2> QED
    BY <2>2, CitableInInventory, VerdictRefines DEF FinalStatuses
<1>6. CASE FinalizeHealthy
  <2>1. PICK relations \in SUBSET Subjects, cited \in SUBSET Citable :
          DeclareHealthy(relations, cited)
    BY <1>6 DEF FinalizeHealthy
  <2>2. /\ UNCHANGED ledger /\ finalStatus = "open" /\ finalStatus' = "NO_INCIDENT"
        /\ AllGapsClosed /\ records # {}
    BY <2>1 DEF DeclareHealthy, Close, HealthSupported
  <2> QED
    BY <2>2, VerdictRefines DEF FinalStatuses
<1>7. CASE FinalizeInsufficient \/ TerminateModelError
  <2>1. /\ UNCHANGED ledger /\ finalStatus = "open"
        /\ finalStatus' \in {"INSUFFICIENT_EVIDENCE", "MODEL_ERROR"}
    BY <1>7 DEF FinalizeInsufficient, Abstain, TerminateModelError, Close
  <2> QED
    BY <2>1, VerdictRefines DEF FinalStatuses, Positive
<1>8. CASE UNCHANGED vars
  BY <1>8 DEF vars, ledger, verdict, Contract!vars, CallsOf
<1> QED
  BY <1>1, <1>2, <1>3, <1>4, <1>5, <1>6, <1>7, <1>8 DEF Next

(* Whatever the model proposes and the tools answer, a diagnosis stays       *)
(* within its budget, tries no call twice, settles each attempt at most once *)
(* and reaches one verdict, positive only over answered attempts.            *)
THEOREM KernelImplementsContract == Spec => ImplementsContract
<1>1. Init => Contract!Init
  BY DEF Init, Contract!Init, CallsOf
<1>2. KernelInv /\ [Next]_vars => [Contract!Next]_Contract!vars
  BY NextRefines
<1> QED
  BY <1>1, <1>2, KernelInvHolds, PTL DEF Spec, ImplementsContract, Contract!Spec
=============================================================================
