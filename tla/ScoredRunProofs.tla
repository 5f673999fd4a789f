--------------------------- MODULE ScoredRunProofs ---------------------------
(***************************************************************************)
(* What gate, kernel and evaluator make of a run, for any catalogue whose  *)
(* cases are consistent, any databases another process may leave, any      *)
(* calls, failures and answers.                                            *)
(*                                                                         *)
(* The argument rests on what a record stands for: whatever the inventory  *)
(* holds was granted by the case and shows what the run was sealed with.   *)
(* A relation the case hides therefore never gets into a run, and what the *)
(* evaluator reads out of the records is also what the brief publishes.    *)
(***************************************************************************)
EXTENDS ScoredRun, FiniteSetTheorems, WellFoundedInduction, TLAPS

-----------------------------------------------------------------------------
(* What the tools answer *)

(* A key that is answered now is also answered on the sealed database. *)
LEMMA AnsweredWhenSealed ==
    ASSUME NEW c, NEW key, NEW now, ToolCode(c, key, now) = "none"
    PROVE  ToolCode(c, key, c.database) = "none"
<1>1. CASE key.kind \in LiveTools
  <2>1. LiveCode(c, key, now) = "none"
    BY <1>1 DEF ToolCode, LiveTools, BatchTools
  <2>2. key.of \in c.observable[key.kind]
    BY <2>1 DEF LiveCode
  <2>3. Measurable(key, c.database)
    <3>1. CASE ~Measurable(key, c.database)
      BY <2>1, <2>2, <3>1 DEF LiveCode
    <3> QED
      BY <3>1
  <2>4. LiveCode(c, key, c.database) = "none"
    BY <2>2, <2>3 DEF LiveCode
  <2> QED
    BY <2>4, <1>1 DEF ToolCode
<1>2. CASE key.kind \notin LiveTools
  BY <1>2 DEF ToolCode
<1> QED
  BY <1>1, <1>2

(* An answered live key is granted and shows the sealed snapshot. *)
LEMMA LiveIsSealed ==
    ASSUME NEW c, NEW key, NEW now, key.kind \in LiveTools, ToolCode(c, key, now) = "none"
    PROVE  /\ key.of \in c.observable[key.kind]
           /\ Shows[now][key.kind][key.of] = Shows[c.database][key.kind][key.of]
<1>1. LiveCode(c, key, now) = "none"
  BY DEF ToolCode, LiveTools, BatchTools
<1>2. key.of \in c.observable[key.kind]
  BY <1>1 DEF LiveCode
<1>3. CASE Shows[now][key.kind][key.of] # Shows[c.database][key.kind][key.of]
  BY <1>1, <1>2, <1>3 DEF LiveCode
<1> QED
  BY <1>2, <1>3

(* A record as a call writes it is one its key is answered with. *)
LEMMA RecordAnswers ==
    ASSUME NEW key, ToolCode(case, key, live) = "none"
    PROVE  /\ ToolCode(case, Key(Record(key)), Record(key).db) = "none"
           /\ Record(key) = [kind |-> Record(key).kind, of |-> Record(key).of,
                             db |-> Record(key).db]
<1>1. /\ Key(Record(key)).kind = key.kind
      /\ Key(Record(key)).of = key.of
      /\ Record(key) = [kind |-> Record(key).kind, of |-> Record(key).of,
                        db |-> Record(key).db]
  BY DEF Key, Record
<1>2. \A d : ToolCode(case, Key(Record(key)), d) = ToolCode(case, key, d)
  BY <1>1 DEF ToolCode, LiveCode, BatchCode, SealedCode
<1>3. CASE key.kind \in LiveTools
  <2>1. Record(key).db = live
    BY <1>3 DEF Record
  <2> QED
    BY <1>1, <1>2, <2>1
<1>4. CASE key.kind \notin LiveTools
  <2>1. Record(key).db = case.database
    BY <1>4 DEF Record
  <2> QED
    BY <1>1, <1>2, <2>1, AnsweredWhenSealed
<1> QED
  BY <1>3, <1>4

-----------------------------------------------------------------------------
(* What the evaluator's checks say *)

(* A run without a failed check has the status, the claims and the receipts *)
(* of its contract.                                                         *)
LEMMA NoFailedCheck ==
    ASSUME NEW c, NEW a, NEW records, NEW events, NEW met,
           FailedChecks(c, a, records, events, met) = {}
    PROVE  /\ a.status = c.status
           /\ c.status = "CONFIRMED" =>
                {claim.value : claim \in OfKind(a, "ROOT_CAUSE")} \cap c.causes # {}
           /\ c.status \in {"CONFIRMED", "NO_INCIDENT"} => ClaimEvidenceCompatible(c, a, records)
           /\ c.status = "INSUFFICIENT_EVIDENCE" => InsufficiencyMatches(c, a, events)
<1> DEFINE failed == FailedChecks(c, a, records, events, met)
<1>1. a.status # c.status => "STATUS_EXACT" \in failed
  BY DEF FailedChecks
<1>2. /\ c.status = "CONFIRMED"
      /\ {claim.value : claim \in OfKind(a, "ROOT_CAUSE")} \cap c.causes = {}
      => "ROOT_CAUSE_ACCEPTED" \in failed
  BY DEF FailedChecks
<1>3. c.status \in {"CONFIRMED", "NO_INCIDENT"} /\ ~ClaimEvidenceCompatible(c, a, records)
      => "CLAIM_EVIDENCE_COMPATIBLE" \in failed
  BY DEF FailedChecks
<1>4. c.status = "INSUFFICIENT_EVIDENCE" /\ ~InsufficiencyMatches(c, a, events)
      => "INSUFFICIENCY_GAP_DECLARED" \in failed
  BY DEF FailedChecks
<1> QED
  BY <1>1, <1>2, <1>3, <1>4

(* Whatever passes the evaluator meets the contract the certification of a  *)
(* scenario looks for: the two copies of its rules, in evaluation.py and in *)
(* scenario_certification.py, never part.                                   *)
THEOREM PassingMeetsContract ==
    ASSUME NEW c, NEW a, NEW records, NEW events, Passes(c, a, records, events)
    PROVE  ContractMet(c, a, records, events)
<1> DEFINE failed == FailedChecks(c, a, records, events, LaboratoryChecks)
           assets == {claim.value : claim \in OfKind(a, "AFFECTED_ASSET")}
           citedTypes == EvidenceTypes(Resolve(a.cites, records))
<1>1. failed = {}
  BY DEF Passes
<1>2. /\ a.status = c.status
      /\ c.status = "CONFIRMED" =>
           {claim.value : claim \in OfKind(a, "ROOT_CAUSE")} \cap c.causes # {}
      /\ c.status = "INSUFFICIENT_EVIDENCE" => InsufficiencyMatches(c, a, events)
  BY <1>1, NoFailedCheck
<1>3. c.status = "CONFIRMED" /\ assets # c.assets => "AFFECTED_ASSETS_EXACT" \in failed
  BY DEF FailedChecks
<1>4. ~(c.required \subseteq citedTypes) => "REQUIRED_EVIDENCE_TYPES_PRESENT" \in failed
  BY DEF FailedChecks
<1>5. citedTypes \subseteq EvidenceTypes(records)
  BY DEF EvidenceTypes, Resolve
<1> QED
  BY <1>1, <1>2, <1>3, <1>4, <1>5 DEF ContractMet, InsufficiencyMatches

(* The two checks the gate anticipates fail only for what they name. *)
LEMMA FailsForCause ==
    ASSUME NEW c, NEW a, NEW records, NEW events, NEW met
    PROVE  LET failed == FailedChecks(c, a, records, events, met)
           IN /\ "CLAIM_EVIDENCE_COMPATIBLE" \in failed =>
                   /\ c.status \in {"CONFIRMED", "NO_INCIDENT"}
                   /\ ~ClaimEvidenceCompatible(c, a, records)
              /\ "INSUFFICIENCY_GAP_DECLARED" \in failed =>
                   /\ c.status = "INSUFFICIENT_EVIDENCE"
                   /\ ~InsufficiencyMatches(c, a, events)
  BY DEF FailedChecks

-----------------------------------------------------------------------------
(* The rules of a root cause *)

(* A rule looks only at what the cited records show of the relations it      *)
(* names: other records that show the same there support the same cause.     *)
Looked(c) == {"run", "raw_payments", "raw_orders", c.direct, c.fault.relation} \cup c.subjects

LEMMA SupportIsShown ==
    ASSUME NEW c, NEW cause, NEW cited, NEW more, NEW all, NEW others,
           RootCauseSupported(c, cause, cited, all),
           \A kind \in {"RUN", "ERROR"}, of \in Looked(c) : Has(cited, kind, of) => Has(more, kind, of),
           \A kind \in LiveTools, of \in Looked(c) : Shown(cited, kind, of) \subseteq Shown(more, kind, of),
           SubjectHasConsumers(c, cited \cup all) => SubjectHasConsumers(c, more \cup others)
    PROVE  RootCauseSupported(c, cause, more, others)
<1> DEFINE f == c.fault
<1>1. /\ Has(cited, "RUN", "run") => Has(more, "RUN", "run")
      /\ Has(cited, "ERROR", c.direct) => Has(more, "ERROR", c.direct)
  BY DEF Looked
<1>2. /\ RunSucceeded(c, cited) => RunSucceeded(c, more)
      /\ NodeFailed(c, cited) => NodeFailed(c, more)
  BY <1>1 DEF RunSucceeded, NodeFailed
<1>3. \A of \in {"raw_payments", "raw_orders", f.relation} :
        /\ Shown(cited, "PROFILE", of) \subseteq Shown(more, "PROFILE", of)
        /\ Shown(cited, "HISTORY", of) \subseteq Shown(more, "HISTORY", of)
        /\ Shown(cited, "SCHEMA", of) \subseteq Shown(more, "SCHEMA", of)
  BY DEF Looked, LiveTools
<1>4. CASE f.kind = "DELETE"
  <2>1. cause = "SOURCE_PAYMENT_INGESTION_LOSS" /\ IngestionLoss(c, cited, all)
    BY <1>4 DEF RootCauseSupported
  <2>2. IngestionLoss(c, more, others)
    BY <2>1, <1>2, <1>3 DEF IngestionLoss
  <2> QED
    BY <2>1, <2>2, <1>4 DEF RootCauseSupported
<1>5. CASE f.kind = "EXACT_RECORD"
  <2>1. cause = "SOURCE_EXACT_PAYMENT_DUPLICATE" /\ ExactDuplicate(c, cited)
    BY <1>5 DEF RootCauseSupported
  <2>2. ExactDuplicate(c, more)
    BY <2>1, <1>1, <1>2, <1>3 DEF ExactDuplicate
  <2> QED
    BY <2>1, <2>2, <1>5 DEF RootCauseSupported
<1>6. CASE f.kind = "SEMANTIC_FINGERPRINT"
  <2>1. cause = "SOURCE_SEMANTIC_PAYMENT_DUPLICATE" /\ SemanticDuplicate(c, cited)
    BY <1>6 DEF RootCauseSupported
  <2>2. SemanticDuplicate(c, more)
    BY <2>1, <1>2, <1>3 DEF SemanticDuplicate
  <2> QED
    BY <2>1, <2>2, <1>6 DEF RootCauseSupported
<1>7. CASE f.kind = "ORPHAN"
  <2>1. cause = "SOURCE_PERMANENT_ORPHAN_PAYMENT" /\ Orphan(c, cited)
    BY <1>7 DEF RootCauseSupported
  <2>2. Orphan(c, more)
    BY <2>1, <1>2, <1>3 DEF Orphan
  <2> QED
    BY <2>1, <2>2, <1>7 DEF RootCauseSupported
<1>8. CASE f.kind = "NULL"
  <2>1. cause = "SOURCE_REQUIRED_FIELD_NULL" /\ RequiredNull(c, cited)
    BY <1>8 DEF RootCauseSupported
  <2>2. RequiredNull(c, more)
    BY <2>1, <1>2, <1>3 DEF RequiredNull
  <2> QED
    BY <2>1, <2>2, <1>8 DEF RootCauseSupported
<1>9. CASE f.kind = "RENAME"
  <2>1. cause = "SOURCE_SCHEMA_COLUMN_RENAMED" /\ ColumnRenamed(c, cited)
    BY <1>9 DEF RootCauseSupported
  <2>2. ColumnRenamed(c, more)
    BY <2>1, <1>2, <1>3 DEF ColumnRenamed
  <2> QED
    BY <2>1, <2>2, <1>9 DEF RootCauseSupported
<1>10. CASE f.kind = "TYPE"
  <2>1. cause = "SOURCE_SCHEMA_COLUMN_TYPE_CHANGED" /\ TypeChanged(c, cited)
    BY <1>10 DEF RootCauseSupported
  <2>2. TypeChanged(c, more)
    BY <2>1, <1>2, <1>3 DEF TypeChanged
  <2> QED
    BY <2>1, <2>2, <1>10 DEF RootCauseSupported
<1>11. f.kind \in {"DELETE", "EXACT_RECORD", "SEMANTIC_FINGERPRINT", "ORPHAN", "NULL",
                   "RENAME", "TYPE"}
  BY DEF RootCauseSupported
<1> QED
  BY <1>4, <1>5, <1>6, <1>7, <1>8, <1>9, <1>10, <1>11

(* Citing more never takes support away from a root cause (unlike an asset, *)
(* which a record of the failing test can rule out).                        *)
THEOREM MoreEvidenceKeepsCause ==
    ASSUME NEW c, NEW cause, NEW cited, NEW more, NEW all, NEW others,
           cited \subseteq more, all \subseteq others,
           RootCauseSupported(c, cause, cited, all)
    PROVE  RootCauseSupported(c, cause, more, others)
<1>1. \A kind, of : Has(cited, kind, of) => Has(more, kind, of)
  BY DEF Has
<1>2. \A kind, of : Shown(cited, kind, of) \subseteq Shown(more, kind, of)
  BY DEF Shown
<1>3. SubjectHasConsumers(c, cited \cup all) => SubjectHasConsumers(c, more \cup others)
  BY DEF SubjectHasConsumers
<1> QED
  BY <1>1, <1>2, <1>3, SupportIsShown

(* The contract's fault leaves a claim one cause to name. *)
LEMMA OneCause ==
    ASSUME NEW c, NEW cause, NEW other, NEW cited, NEW all, NEW more, NEW others,
           RootCauseSupported(c, cause, cited, all), RootCauseSupported(c, other, more, others)
    PROVE  cause = other
  BY DEF RootCauseSupported

(* What shows of a subject was read with the case's permission. *)
Granted(c, records) ==
    \A r \in records : r.kind \in LiveTools => r.of \in c.observable[r.kind]

(* A root cause of a confirmable case that convinces the evaluator convinces *)
(* the kernel, which knows no more than the brief.                           *)
LEMMA KernelFollows ==
    ASSUME NEW c \in Cases, c.status = "CONFIRMED", NEW cause, NEW cited, NEW all,
           Granted(c, cited), RootCauseSupported(c, cause, cited, all)
    PROVE  KernelSupports(c, cause, cited, all)
<1> DEFINE f == c.fault
           Readable(tool) == c.subjects \cap c.observable[tool]
<1>1. /\ f.kind = "DELETE" =>
            {"raw_payments", "raw_orders"} \subseteq c.subjects /\ f.rows = c.expected - c.current
      /\ f.kind \in {"EXACT_RECORD", "SEMANTIC_FINGERPRINT", "ORPHAN"} =>
            Readable("PROFILE") = {f.relation}
      /\ f.kind \in {"SEMANTIC_FINGERPRINT", "ORPHAN"} => f.rows \in Nat \ {0}
      /\ f.kind = "ORPHAN" => f.relation # "raw_orders" /\ Readable("HISTORY") = {"raw_orders"}
  BY CatalogueAssumption
<1> DEFINE profiled == {x \in c.subjects : Has(cited, "PROFILE", x)}
<1>2. \A tool \in LiveTools, x \in c.subjects : Has(cited, tool, x) => x \in Readable(tool)
  BY DEF Granted, Has
<1>3. \A tool, x, p : p \in Shown(cited, tool, x) => Has(cited, tool, x)
  BY DEF Shown, Has
<1>4. CASE f.kind = "DELETE"
  <2>1. cause = "SOURCE_PAYMENT_INGESTION_LOSS" /\ IngestionLoss(c, cited, all)
    BY <1>4 DEF RootCauseSupported
  <2>2. LossPublic(c, cited, all)
    BY <2>1, <1>1, <1>4 DEF IngestionLoss, LossPublic
  <2> QED
    BY <2>1, <2>2 DEF KernelSupports
<1>5. CASE f.kind = "EXACT_RECORD"
  <2>1. cause = "SOURCE_EXACT_PAYMENT_DUPLICATE" /\ ExactDuplicate(c, cited)
    BY <1>5 DEF RootCauseSupported
  <2>2. PICK p \in Shown(cited, "PROFILE", f.relation) : p.duplicateKeys = 1
    BY <2>1 DEF ExactDuplicate
  <2>3. profiled = {f.relation}
    BY <1>1, <1>2, <1>3, <1>5, <2>2 DEF LiveTools
  <2>4. Has(cited, "RUN", "run") /\ p.duplicateKeys > 0
    BY <2>1, <2>2 DEF ExactDuplicate
  <2>5. DuplicatePublic(c, cause, cited)
    BY <2>1, <2>2, <2>3, <2>4 DEF DuplicatePublic
  <2> QED
    BY <2>1, <2>5 DEF KernelSupports
<1>6. CASE f.kind = "SEMANTIC_FINGERPRINT"
  <2>1. cause = "SOURCE_SEMANTIC_PAYMENT_DUPLICATE" /\ SemanticDuplicate(c, cited)
    BY <1>6 DEF RootCauseSupported
  <2>2. PICK p \in Shown(cited, "PROFILE", f.relation) :
           p.duplicateKeys = 0 /\ p.duplicatePrints = f.rows
    BY <2>1 DEF SemanticDuplicate
  <2>3. profiled = {f.relation}
    BY <1>1, <1>2, <1>3, <1>6, <2>2 DEF LiveTools
  <2>4. RunSucceeded(c, cited) /\ p.duplicatePrints > 0
    BY <1>1, <1>6, <2>1, <2>2 DEF SemanticDuplicate
  <2>5. DuplicatePublic(c, cause, cited)
    BY <2>1, <2>2, <2>3, <2>4 DEF DuplicatePublic
  <2> QED
    BY <2>1, <2>5 DEF KernelSupports
<1>7. CASE f.kind = "ORPHAN"
  <2> DEFINE dangling == {x \in c.subjects :
                            \E p \in Shown(cited, "PROFILE", x) : x # "raw_orders" /\ p.violations > 0}
  <2>1. cause = "SOURCE_PERMANENT_ORPHAN_PAYMENT" /\ Orphan(c, cited)
    BY <1>7 DEF RootCauseSupported
  <2>2. PICK p \in Shown(cited, "PROFILE", f.relation) : p.violations = f.rows
    BY <2>1 DEF Orphan
  <2>3. dangling = {f.relation}
    BY <1>1, <1>2, <1>3, <1>7, <2>2 DEF LiveTools
  <2>4. {y \in c.subjects \ {f.relation} : Has(cited, "HISTORY", y)} = {"raw_orders"}
    <3>1. Has(cited, "HISTORY", "raw_orders")
      BY <2>1, <1>3 DEF Orphan
    <3> QED
      BY <3>1, <1>1, <1>2, <1>7 DEF LiveTools
  <2>5. RunSucceeded(c, cited)
    BY <2>1 DEF Orphan
  <2>6. OrphanPublic(c, cited)
    BY <2>3, <2>4, <2>5 DEF OrphanPublic
  <2> QED
    BY <2>1, <2>6 DEF KernelSupports
<1>8. CASE f.kind \in {"NULL", "RENAME", "TYPE"}
  <2>1. cause \in {"SOURCE_REQUIRED_FIELD_NULL", "SOURCE_SCHEMA_COLUMN_RENAMED",
                   "SOURCE_SCHEMA_COLUMN_TYPE_CHANGED"}
    BY <1>8 DEF RootCauseSupported
  <2> QED
    BY <2>1 DEF KernelSupports
<1>9. f.kind \in {"DELETE", "EXACT_RECORD", "SEMANTIC_FINGERPRINT", "ORPHAN", "NULL",
                  "RENAME", "TYPE"}
  BY DEF RootCauseSupported
<1> QED
  BY <1>4, <1>5, <1>6, <1>7, <1>8, <1>9

-----------------------------------------------------------------------------
(* The gate and the evaluator *)

(* What the gate lets through under the right status meets the two checks   *)
(* the gate anticipates.                                                    *)
LEMMA LetThroughIsCompatible ==
    ASSUME NEW c, NEW a, NEW records, NEW events, NEW met,
           Sound(a), a.status = c.status, GateCode(c, a, records, events) = "ACCEPTED"
    PROVE  LET failed == FailedChecks(c, a, records, events, met)
           IN /\ "CLAIM_EVIDENCE_COMPATIBLE" \notin failed
              /\ a.gaps = {g.gap : g \in c.gaps} => "INSUFFICIENCY_GAP_DECLARED" \notin failed
<1>1. /\ \A claim \in a.claims : claim.kind \in ApplicableKinds(c) => Holds(c, claim, records)
      /\ \A gap \in a.gaps : Receipted(c, gap, events)
  BY DEF GateCode
<1>2. ASSUME c.status = "CONFIRMED"
      PROVE  ClaimEvidenceCompatible(c, a, records)
  <2>1. /\ Cardinality(OfKind(a, "ROOT_CAUSE")) = 1
        /\ OfKind(a, "AFFECTED_ASSET") # {}
    BY <1>2 DEF Sound
  <2>2. \A claim \in OfKind(a, "ROOT_CAUSE") \cup OfKind(a, "AFFECTED_ASSET") :
          Holds(c, claim, records)
    BY <1>1, <1>2 DEF OfKind, ApplicableKinds
  <2> QED
    BY <2>1, <2>2, <1>2 DEF ClaimEvidenceCompatible, HealthEvidenceValid
<1>3. ASSUME c.status = "NO_INCIDENT"
      PROVE  ClaimEvidenceCompatible(c, a, records)
  <2>1. a.claims # {} /\ a.claims = OfKind(a, "HEALTH_STATE")
    BY <1>3 DEF Sound
  <2>2. \A claim \in a.claims : claim.kind = "HEALTH_STATE"
    BY <2>1 DEF OfKind
  <2>3. \A claim \in a.claims : Holds(c, claim, records)
    BY <1>1, <1>3, <2>2 DEF ApplicableKinds
  <2> QED
    BY <2>1, <2>2, <2>3, <1>3 DEF ClaimEvidenceCompatible, HealthEvidenceValid
<1>4. ASSUME c.status = "INSUFFICIENT_EVIDENCE", a.gaps = {g.gap : g \in c.gaps}
      PROVE  InsufficiencyMatches(c, a, events)
  BY <1>1, <1>4 DEF InsufficiencyMatches
<1> QED
  BY <1>2, <1>3, <1>4, FailsForCause

(* What neither gate nor kernel would let through fails the evaluator. *)
LEMMA PassingIsLetThrough ==
    ASSUME NEW c \in Cases, NEW a, NEW records, NEW events, NEW met,
           Sound(a), Granted(c, records),
           FailedChecks(c, a, records, events, met) = {}
    PROVE  Accepted(c, a, records, events)
<1>1. /\ a.status = c.status
      /\ c.status \in {"CONFIRMED", "NO_INCIDENT"} => ClaimEvidenceCompatible(c, a, records)
      /\ c.status = "INSUFFICIENT_EVIDENCE" => InsufficiencyMatches(c, a, events)
  BY NoFailedCheck
<1>2. a.status \in {"CONFIRMED", "NO_INCIDENT", "INSUFFICIENT_EVIDENCE"}
  BY DEF Sound
<1>3. \A claim \in a.claims : claim.kind \in ApplicableKinds(c) => Holds(c, claim, records)
  <2>1. CASE c.status = "CONFIRMED"
    BY <1>1, <2>1 DEF ClaimEvidenceCompatible, HealthEvidenceValid, ApplicableKinds, OfKind
  <2>2. CASE c.status = "NO_INCIDENT"
    BY <1>1, <2>2 DEF ClaimEvidenceCompatible, HealthEvidenceValid
  <2>3. CASE c.status = "INSUFFICIENT_EVIDENCE"
    BY <2>3 DEF ApplicableKinds
  <2> QED
    BY <1>1, <1>2, <2>1, <2>2, <2>3
<1>4. \A gap \in a.gaps : Receipted(c, gap, events)
  <2>1. CASE c.status = "INSUFFICIENT_EVIDENCE"
    BY <1>1, <2>1 DEF InsufficiencyMatches
  <2>2. CASE c.status \in {"CONFIRMED", "NO_INCIDENT"}
    BY <1>1, <2>2 DEF Sound
  <2> QED
    BY <1>1, <1>2, <2>1, <2>2
<1>5. GateCode(c, a, records, events) = "ACCEPTED"
  BY <1>3, <1>4 DEF GateCode
<1>6. ASSUME NEW claim \in a.claims, claim.kind = "ROOT_CAUSE"
      PROVE  KernelSupports(c, claim.value, Resolve(claim.cites, records), records)
  <2>1. c.status = "CONFIRMED"
    <3>1. c.status # "NO_INCIDENT"
      BY <1>1, <1>6 DEF ClaimEvidenceCompatible, HealthEvidenceValid
    <3>2. c.status # "INSUFFICIENT_EVIDENCE"
      BY <1>1, <1>6 DEF Sound
    <3> QED
      BY <1>1, <1>2, <3>1, <3>2
  <2>2. Holds(c, claim, records)
    BY <1>3, <1>6, <2>1 DEF ApplicableKinds
  <2>3. RootCauseSupported(c, claim.value, Resolve(claim.cites, records), records)
    BY <2>2, <1>6 DEF Holds, ClaimSupported
  <2>4. Granted(c, Resolve(claim.cites, records))
    BY DEF Granted, Resolve
  <2> QED
    BY <2>1, <2>3, <2>4, KernelFollows
<1>7. KernelAccepts(c, a, records)
  BY <1>6 DEF KernelAccepts
<1> QED
  BY <1>5, <1>7 DEF Accepted

-----------------------------------------------------------------------------
(* The inductive invariant *)

(* Every record of the run is one its tool gives away and, if read live, one *)
(* the run was sealed with; a model's answer went through gate and kernel    *)
(* over the records and events the run still has; a run that passed was      *)
(* judged on them.                                                           *)
Recorded(r) ==
    /\ r = [kind |-> r.kind, of |-> r.of, db |-> r.db]
    /\ ToolCode(case, Key(r), r.db) = "none"

RunInv ==
    /\ case \in Cases
    /\ \A r \in inventory : Recorded(r)
    /\ strategy = "MODEL" /\ answer # NoAnswer =>
          Sound(answer) /\ Accepted(case, answer, inventory, trace)
    /\ verdict = "PASSED" =>
          answer # NoAnswer /\ FailedChecks(case, answer, inventory, trace, LaboratoryChecks) = {}

(* A built-in strategy, too, keeps only what the tools gave it. *)
LEMMA MakeRecords ==
    ASSUME \A r \in inventory : Recorded(r),
           NEW call, NEW codes, codes = [k \in Keys(call) |-> ToolCode(case, k, live)],
           Make(call, codes), UNCHANGED case
    PROVE  \A r \in inventory' : Recorded(r)'
<1>1. \A r : Recorded(r) => Recorded(r)'
  BY DEF Recorded
<1>2. CASE UNCHANGED inventory
  BY <1>1, <1>2
<1>3. CASE /\ \A k \in DOMAIN codes : codes[k] = "none"
           /\ inventory' = inventory \cup {Record(k) : k \in DOMAIN codes}
  <2>1. ASSUME NEW k \in DOMAIN codes
        PROVE  Recorded(Record(k))
    <3>1. ToolCode(case, k, live) = "none"
      BY <1>3
    <3> QED
      BY <3>1, RecordAnswers DEF Recorded
  <2> QED
    BY <1>1, <1>3, <2>1
<1> QED
  BY <1>2, <1>3 DEF Make, Deny

(* Every step keeps the invariant. *)
LEMMA RunStep ==
    ASSUME RunInv, [Next]_vars
    PROVE  RunInv'
<1>1. /\ case \in Cases
      /\ \A r \in inventory : Recorded(r)
      /\ strategy = "MODEL" /\ answer # NoAnswer =>
            Sound(answer) /\ Accepted(case, answer, inventory, trace)
      /\ verdict = "PASSED" =>
            answer # NoAnswer /\ FailedChecks(case, answer, inventory, trace, LaboratoryChecks) = {}
  BY DEF RunInv
<1>2. case' = case /\ strategy' = strategy
  BY DEF Next, Ask, BuiltinCall, Disturb, Submit, Conclude, Evaluate, vars
<1>3. \A r : Recorded(r) => Recorded(r)'
  BY <1>2 DEF Recorded
<1>4. ASSUME answer = NoAnswer, UNCHANGED <<answer, verdict>>,
             \A r \in inventory' : Recorded(r)'
      PROVE  RunInv'
  BY <1>1, <1>2, <1>4 DEF RunInv
<1>5. ASSUME NEW key, Ask(key)
      PROVE  RunInv'
  <2>1. CASE UNCHANGED inventory
    BY <1>1, <1>3, <1>4, <1>5, <2>1 DEF Ask
  <2>2. CASE ToolCode(case, key, live) = "none" /\ inventory' = inventory \cup {Record(key)}
    <3>1. Recorded(Record(key))
      BY <2>2, RecordAnswers DEF Recorded
    <3> QED
      BY <1>1, <1>3, <1>4, <1>5, <2>2, <3>1 DEF Ask
  <2> QED
    BY <1>5, <2>1, <2>2 DEF Ask, Fail
<1>6. CASE BuiltinCall
  <2>1. PICK call, codes : /\ codes = [k \in Keys(call) |-> ToolCode(case, k, live)]
                           /\ Make(call, codes)
    BY <1>6 DEF BuiltinCall
  <2>2. \A r \in inventory' : Recorded(r)'
    BY <1>1, <1>2, <2>1, MakeRecords
  <2> QED
    BY <1>4, <1>6, <2>2 DEF BuiltinCall
<1>7. ASSUME NEW d, Disturb(d)
      PROVE  RunInv'
  BY <1>1, <1>3, <1>4, <1>7 DEF Disturb
<1>8. ASSUME strategy = "MODEL", NEW a \in Candidates(case, inventory), Submit(a)
      PROVE  RunInv'
  <2>1. Sound(a) /\ Accepted(case, a, inventory, trace)
    BY <1>8 DEF Submit, Candidates
  <2>2. answer = NoAnswer /\ answer' = a /\ UNCHANGED <<inventory, trace, verdict>>
    BY <1>8 DEF Submit
  <2> QED
    BY <1>1, <1>2, <1>3, <2>1, <2>2 DEF RunInv
<1>9. CASE Conclude
  <2>1. strategy # "MODEL" /\ answer = NoAnswer /\ UNCHANGED <<inventory, trace, verdict>>
    BY <1>9 DEF Conclude
  <2> QED
    BY <1>1, <1>2, <1>3, <2>1 DEF RunInv
<1>10. CASE Evaluate
  <2>1. answer # NoAnswer /\ UNCHANGED <<inventory, trace, answer>>
    BY <1>10 DEF Evaluate
  <2>2. PICK met \in SUBSET LaboratoryChecks :
          verdict' = IF FailedChecks(case, answer, inventory, trace, met) = {}
                     THEN "PASSED" ELSE "FAILED"
    BY <1>10 DEF Evaluate
  <2>3. FailedChecks(case, answer, inventory, trace, met) = {} => met = LaboratoryChecks
    <3>1. /\ "RECOVERY_HEALTHY" \notin met =>
               "RECOVERY_HEALTHY" \in FailedChecks(case, answer, inventory, trace, met)
          /\ "ENVIRONMENT_VERIFIED" \notin met =>
               "ENVIRONMENT_VERIFIED" \in FailedChecks(case, answer, inventory, trace, met)
      BY DEF FailedChecks
    <3> QED
      BY <2>2, <3>1 DEF LaboratoryChecks
  <2> QED
    BY <1>1, <1>2, <1>3, <2>1, <2>2, <2>3 DEF RunInv
<1>11. CASE UNCHANGED vars
  BY <1>1, <1>2, <1>3, <1>11 DEF RunInv, vars
<1> QED
  BY <1>5, <1>6, <1>7, <1>8, <1>9, <1>10, <1>11 DEF Next

(* The inductive invariant holds throughout a run. *)
THEOREM RunInvHolds == Spec => []RunInv
<1>1. Init => RunInv
  BY ScoredRunAssumption DEF Init, RunInv, NoVerdict
<1>2. RunInv /\ [Next]_vars => RunInv'
  BY RunStep
<1> QED
  BY <1>1, <1>2, PTL DEF Spec

-----------------------------------------------------------------------------
(* What the runs check *)

(* Every live record shows what the run was sealed with: a database another *)
(* process left in between never becomes evidence.                          *)
RecordsAreSealed ==
    \A r \in inventory : r.kind \in LiveTools =>
      /\ r.of \in case.observable[r.kind]
      /\ Shows[r.db][r.kind][r.of] = Shows[case.database][r.kind][r.of]

LEMMA SealedAndGranted ==
    ASSUME RunInv
    PROVE  RecordsAreSealed /\ Granted(case, inventory)
<1>1. ASSUME NEW r \in inventory, r.kind \in LiveTools
      PROVE  /\ r.of \in case.observable[r.kind]
             /\ Shows[r.db][r.kind][r.of] = Shows[case.database][r.kind][r.of]
  <2>1. ToolCode(case, Key(r), r.db) = "none"
    BY DEF RunInv, Recorded
  <2>2. Key(r).kind = r.kind /\ Key(r).of = r.of
    BY DEF Key
  <2> QED
    BY <1>1, <2>1, <2>2, LiveIsSealed
<1> QED
  BY <1>1 DEF RecordsAreSealed, Granted

(* No live record of a run shows anything but the sealed snapshot. *)
THEOREM RecordsAlwaysSealed == Spec => []RecordsAreSealed
  BY RunInvHolds, SealedAndGranted, PTL

(* A gap a passing abstention declares was refused by its tool for exactly *)
(* its reason, and the run holds nothing of what it hides.                 *)
THEOREM PassedGapAlwaysReal == Spec => []PassedGapIsReal
<1>1. ASSUME RunInv
      PROVE  PassedGapIsReal
  <2> SUFFICES ASSUME verdict = "PASSED", answer.status = "INSUFFICIENT_EVIDENCE",
                      NEW g \in case.gaps, g.tool # "none"
               PROVE  /\ \E i \in DOMAIN trace : /\ trace[i].tool = g.tool
                                                 /\ trace[i].target = g.subject
                                                 /\ trace[i].code = g.code
                      /\ ~Has(inventory, g.tool, g.subject)
    BY DEF PassedGapIsReal
  <2>1. InsufficiencyMatches(case, answer, trace)
    <3>1. FailedChecks(case, answer, inventory, trace, LaboratoryChecks) = {}
      BY <1>1 DEF RunInv
    <3>2. case.status = "INSUFFICIENT_EVIDENCE"
      BY <3>1, NoFailedCheck
    <3> QED
      BY <3>1, <3>2, NoFailedCheck
  <2>2. RefusalWitnessed(trace, g.tool, g.subject, g.code)
    <3>1. Receipted(case, g.gap, trace)
      BY <2>1 DEF InsufficiencyMatches
    <3> QED
      BY <3>1 DEF Receipted
  <2>3. ASSUME NEW r \in inventory, r.kind = g.tool, r.of = g.subject
        PROVE  FALSE
    <3>1. ToolCode(case, [kind |-> g.tool, of |-> g.subject], r.db) = "none"
      BY <1>1, <2>3 DEF RunInv, Recorded, Key
    <3>2. ToolCode(case, [kind |-> g.tool, of |-> g.subject], case.database) = "none"
      BY <3>1, AnsweredWhenSealed
    <3> QED
      BY <1>1, <3>2, ScoringAssumption DEF RunInv
  <2> QED
    BY <2>2, <2>3 DEF RefusalWitnessed, Has
<1> QED
  BY <1>1, RunInvHolds, PTL

(* At every moment the gate and the kernel let through whatever would pass  *)
(* the evaluator, and what they let through under the right status fails it *)
(* neither for an unsupported claim nor for a missing receipt.              *)
THEOREM GateAlwaysMatches == Spec => []GateMatchesEvaluator
<1>1. ASSUME RunInv
      PROVE  GateMatchesEvaluator
  <2> SUFFICES ASSUME NEW a \in Candidates(case, inventory)
               PROVE  LET failed == FailedChecks(case, a, inventory, trace, LaboratoryChecks)
                      IN IF Accepted(case, a, inventory, trace)
                         THEN a.status = case.status =>
                                /\ "CLAIM_EVIDENCE_COMPATIBLE" \notin failed
                                /\ a.gaps = {g.gap : g \in case.gaps} =>
                                     "INSUFFICIENCY_GAP_DECLARED" \notin failed
                         ELSE failed # {}
    BY DEF GateMatchesEvaluator
  <2>1. Sound(a)
    BY DEF Candidates
  <2>2. case \in Cases /\ Granted(case, inventory)
    BY <1>1, SealedAndGranted DEF RunInv
  <2>3. CASE Accepted(case, a, inventory, trace)
    BY <2>1, <2>3, LetThroughIsCompatible DEF Accepted
  <2>4. CASE ~Accepted(case, a, inventory, trace)
    BY <2>1, <2>2, <2>4, PassingIsLetThrough
  <2> QED
    BY <2>3, <2>4
<1> QED
  BY <1>1, RunInvHolds, PTL

(* The answer a model was let go with is still, when it is evaluated, one    *)
(* whose claims the evidence supports and whose gaps have their receipts, if *)
(* its status is right.                                                      *)
AcceptedStandsUp ==
    strategy = "MODEL" /\ answer # NoAnswer /\ answer.status = case.status =>
      \A met \in SUBSET LaboratoryChecks :
        LET failed == FailedChecks(case, answer, inventory, trace, met)
        IN /\ "CLAIM_EVIDENCE_COMPATIBLE" \notin failed
           /\ answer.gaps = {g.gap : g \in case.gaps} =>
                "INSUFFICIENCY_GAP_DECLARED" \notin failed

(* A submission the gate accepted is never failed for a rule the gate applies: *)
(* nothing that counts for it changes between submission and evaluation.       *)
THEOREM AcceptedAlwaysStandsUp == Spec => []AcceptedStandsUp
<1>1. RunInv => AcceptedStandsUp
  BY LetThroughIsCompatible DEF RunInv, Accepted, AcceptedStandsUp
<1> QED
  BY <1>1, RunInvHolds, PTL

-----------------------------------------------------------------------------
(* The cause and its fault *)

(* The records as another database would have shown them. *)
ReadFrom(records, d) ==
    {IF r.kind \in LiveTools THEN [r EXCEPT !.db = d] ELSE r : r \in records}

(* A cause supported by records of a database is supported by all there is  *)
(* to read there.                                                           *)
LEMMA SupportedByEverything ==
    ASSUME RunInv, NEW d, NEW cause, NEW cites,
           RootCauseSupported(case, cause, Resolve(cites, ReadFrom(inventory, d)),
                              ReadFrom(inventory, d))
    PROVE  RootCauseSupported(case, cause, Everything(case, d), Everything(case, d))
<1> DEFINE there == ReadFrom(inventory, d)
           cited == Resolve(cites, there)
           whole == Everything(case, d)
<1>1. ASSUME NEW r \in there
      PROVE  r.kind \in LiveTools => r.db = d
  <2>1. PICK x \in inventory : r = IF x.kind \in LiveTools THEN [x EXCEPT !.db = d] ELSE x
    BY DEF ReadFrom
  <2>2. x = [kind |-> x.kind, of |-> x.of, db |-> x.db]
    BY DEF RunInv, Recorded
  <2>3. [x EXCEPT !.db = d] = [kind |-> x.kind, of |-> x.of, db |-> d]
    BY <2>2
  <2> QED
    BY <2>1, <2>3
<1>2. \A r \in cited : r \in there
  BY DEF Resolve
<1>3. ASSUME NEW kind \in {"RUN", "ERROR", "LINEAGE_DOWN"} \cup LiveTools, NEW of \in Looked(case)
      PROVE  [kind |-> kind, of |-> of, db |-> d] \in whole
  BY DEF Everything, Looked
<1>4. ASSUME NEW kind \in {"RUN", "ERROR"}, NEW of \in Looked(case)
      PROVE  Has(whole, kind, of)
  <2> DEFINE seen == [kind |-> kind, of |-> of, db |-> d]
  <2>1. seen \in whole
    BY <1>3
  <2>2. seen.kind = kind /\ seen.of = of
    OBVIOUS
  <2> HIDE DEF seen, whole
  <2> QED
    BY <2>1, <2>2 DEF Has
<1>5. ASSUME NEW kind \in LiveTools, NEW of \in Looked(case), NEW shown \in Shown(cited, kind, of)
      PROVE  shown \in Shown(whole, kind, of)
  <2>1. PICK r \in cited : r.kind = kind /\ r.of = of /\ shown = Shows[r.db][kind][of]
    BY DEF Shown
  <2>2. r.db = d
    BY <1>1, <1>2, <2>1
  <2>3. [kind |-> kind, of |-> of, db |-> d] \in whole
    BY <1>3
  <2> DEFINE seen == [kind |-> kind, of |-> of, db |-> d]
  <2>4. seen.kind = kind /\ seen.of = of /\ shown = Shows[seen.db][kind][of]
    BY <2>1, <2>2
  <2> HIDE DEF seen
  <2> QED
    BY <2>3, <2>4 DEF Shown, seen
<1>6. SubjectHasConsumers(case, cited \cup there) => SubjectHasConsumers(case, whole \cup whole)
  <2> SUFFICES ASSUME NEW r, r.of \in case.subjects \cap DOMAIN Downstream, Downstream[r.of] # {}
               PROVE  SubjectHasConsumers(case, whole \cup whole)
    BY DEF SubjectHasConsumers
  <2>1. [kind |-> "LINEAGE_DOWN", of |-> r.of, db |-> d] \in whole
    BY <1>3 DEF Looked
  <2> QED
    BY <2>1 DEF SubjectHasConsumers
<1> QED
  BY <1>4, <1>5, <1>6, SupportIsShown

(* The cause a model's run passes with would not have been supported by the *)
(* same records read from a database without its fault, for any catalogue   *)
(* that keeps its faults apart.                                             *)
THEOREM CauseAlwaysNeedsItsFault == Spec => []CauseNeedsItsFault
<1>1. ASSUME RunInv
      PROVE  CauseNeedsItsFault
  <2> SUFFICES ASSUME verdict = "PASSED", answer.status = "CONFIRMED",
                      NEW claim \in OfKind(answer, "ROOT_CAUSE"), NEW d \in Databases,
                      case.fault \notin Shows[d].faults,
                      Holds(case, claim, ReadFrom(inventory, d))
               PROVE  FALSE
    BY DEF CauseNeedsItsFault, ReadFrom
  <2>1. /\ case.status = "CONFIRMED"
        /\ {x.value : x \in OfKind(answer, "ROOT_CAUSE")} \cap case.causes # {}
        /\ ClaimEvidenceCompatible(case, answer, inventory)
    <3>1. FailedChecks(case, answer, inventory, trace, LaboratoryChecks) = {}
      BY <1>1 DEF RunInv
    <3>2. case.status = "CONFIRMED"
      BY <3>1, NoFailedCheck
    <3> QED
      BY <3>1, <3>2, NoFailedCheck
  <2>2. PICK other \in OfKind(answer, "ROOT_CAUSE") : other.value \in case.causes
    BY <2>1
  <2>3. RootCauseSupported(case, other.value, Resolve(other.cites, inventory), inventory)
    <3>1. Holds(case, other, inventory)
      BY <2>1 DEF ClaimEvidenceCompatible, HealthEvidenceValid
    <3> QED
      BY <3>1 DEF Holds, ClaimSupported, OfKind
  <2>4. RootCauseSupported(case, claim.value, Resolve(claim.cites, ReadFrom(inventory, d)),
                           ReadFrom(inventory, d))
    BY DEF Holds, ClaimSupported, OfKind
  <2>5. claim.value \in case.causes
    BY <2>2, <2>3, <2>4, OneCause
  <2>6. RootCauseSupported(case, claim.value, Everything(case, d), Everything(case, d))
    BY <1>1, <2>4, SupportedByEverything
  <2> QED
    BY <1>1, <2>5, <2>6, FaultsApart DEF RunInv
<1> QED
  BY <1>1, RunInvHolds, PTL

-----------------------------------------------------------------------------
(* What a built-in strategy may take from its records *)

(* Records that were granted and show what the run was sealed with, and *)
(* lineages of nodes the project has.                                   *)
Faithful(c, records) ==
    \A r \in records :
      /\ r.kind \in LiveTools =>
           /\ r.of \in c.observable[r.kind]
           /\ Shows[r.db][r.kind][r.of] = Sealed(c, r.kind, r.of)
      /\ r.kind = "EXPECTATION" => r.of \in c.observable["EXPECTATION"]
      /\ r.kind = "LINEAGE_DOWN" => r.of \in ToSet(Nodes)

(* The inventory of a run is faithful. *)
LEMMA InventoryIsFaithful ==
    ASSUME RunInv
    PROVE  Faithful(case, inventory)
<1>1. ASSUME NEW r \in inventory, r.kind = "EXPECTATION"
      PROVE  r.of \in case.observable["EXPECTATION"]
  <2>1. ToolCode(case, Key(r), r.db) = "none"
    BY DEF RunInv, Recorded
  <2>2. Key(r).kind = "EXPECTATION" /\ Key(r).of = r.of
    BY <1>1 DEF Key
  <2>3. BatchCode(case, Key(r)) = "none"
    BY <2>1, <2>2 DEF ToolCode, LiveTools, BatchTools
  <2> QED
    BY <2>2, <2>3 DEF BatchCode
<1>2. ASSUME NEW r \in inventory, r.kind = "LINEAGE_DOWN"
      PROVE  r.of \in ToSet(Nodes)
  <2>1. ToolCode(case, Key(r), r.db) = "none"
    BY DEF RunInv, Recorded
  <2>2. Key(r).kind = "LINEAGE_DOWN" /\ Key(r).of = r.of
    BY <1>2 DEF Key
  <2>3. SealedCode(case, Key(r)) = "none"
    BY <2>1, <2>2 DEF ToolCode, LiveTools, BatchTools
  <2> QED
    BY <2>2, <2>3 DEF SealedCode
<1> QED
  BY <1>1, <1>2, SealedAndGranted DEF RecordsAreSealed, Faithful, Sealed

(* What is looked up of a relation is what the run was sealed with. *)
LEMMA ViewIsSealed ==
    ASSUME NEW c, NEW records, Faithful(c, records),
           NEW kind \in LiveTools, NEW of, Has(records, kind, of)
    PROVE  /\ of \in c.observable[kind]
           /\ Shown(records, kind, of) = {Sealed(c, kind, of)}
           /\ View(records, kind, of) = Sealed(c, kind, of)
<1>1. PICK r \in records : r.kind = kind /\ r.of = of
  BY DEF Has
<1>2. of \in c.observable[kind]
  BY <1>1 DEF Faithful
<1>3. \A s : s \in Shown(records, kind, of) <=> s = Sealed(c, kind, of)
  <2>1. Shows[r.db][kind][of] \in Shown(records, kind, of)
    BY <1>1 DEF Shown
  <2>2. \A x \in records : x.kind = kind /\ x.of = of => Shows[x.db][kind][of] = Sealed(c, kind, of)
    BY DEF Faithful
  <2> QED
    BY <1>1, <2>1, <2>2 DEF Shown
<1>4. Shown(records, kind, of) = {Sealed(c, kind, of)}
  BY <1>3
<1> QED
  BY <1>2, <1>4 DEF View

(* So it is what the whole sealed database shows of it. *)
LEMMA AllThatIsShown ==
    ASSUME NEW c, NEW records, Faithful(c, records),
           NEW kind \in LiveTools, NEW of, Has(records, kind, of)
    PROVE  Shown(Everything(c, c.database), kind, of) \subseteq Shown(records, kind, of)
<1>1. \A r \in Everything(c, c.database) : r.db = c.database
  BY DEF Everything
<1>2. \A s \in Shown(Everything(c, c.database), kind, of) : s = Sealed(c, kind, of)
  BY <1>1 DEF Shown, Sealed
<1> QED
  BY <1>2, ViewIsSealed

-----------------------------------------------------------------------------
(* The records that show a fault *)

LEMMA SemanticShown ==
    ASSUME NEW c \in Cases, Accepts(c, "SOURCE_SEMANTIC_PAYMENT_DUPLICATE"),
           NEW records, Faithful(c, records), Has(records, "RUN", "run"),
           Has(records, "PROFILE", c.fault.relation)
    PROVE  RootCauseSupported(c, "SOURCE_SEMANTIC_PAYMENT_DUPLICATE", records, records)
<1> DEFINE all == Everything(c, c.database)
<1>1. RootCauseSupported(c, "SOURCE_SEMANTIC_PAYMENT_DUPLICATE", all, all)
  BY FaultsShown DEF Accepts
<1>2. c.fault.kind = "SEMANTIC_FINGERPRINT" /\ SemanticDuplicate(c, all)
  BY <1>1 DEF RootCauseSupported
<1>3. Shown(all, "PROFILE", c.fault.relation) \subseteq Shown(records, "PROFILE", c.fault.relation)
  BY AllThatIsShown DEF LiveTools
<1>4. SemanticDuplicate(c, records)
  BY <1>2, <1>3 DEF SemanticDuplicate, RunSucceeded
<1> QED
  BY <1>2, <1>4 DEF RootCauseSupported

LEMMA ExactShown ==
    ASSUME NEW c \in Cases, Accepts(c, "SOURCE_EXACT_PAYMENT_DUPLICATE"),
           NEW records, Faithful(c, records), Has(records, "RUN", "run"),
           c.direct # "none" => Has(records, "ERROR", c.direct),
           Has(records, "PROFILE", c.fault.relation)
    PROVE  RootCauseSupported(c, "SOURCE_EXACT_PAYMENT_DUPLICATE", records, records)
<1> DEFINE all == Everything(c, c.database)
<1>1. RootCauseSupported(c, "SOURCE_EXACT_PAYMENT_DUPLICATE", all, all)
  BY FaultsShown DEF Accepts
<1>2. c.fault.kind = "EXACT_RECORD" /\ ExactDuplicate(c, all)
  BY <1>1 DEF RootCauseSupported
<1>3. Shown(all, "PROFILE", c.fault.relation) \subseteq Shown(records, "PROFILE", c.fault.relation)
  BY AllThatIsShown DEF LiveTools
<1>4. ExactDuplicate(c, records)
  BY <1>2, <1>3 DEF ExactDuplicate, NodeFailed
<1> QED
  BY <1>2, <1>4 DEF RootCauseSupported

LEMMA OrphanShown ==
    ASSUME NEW c \in Cases, Accepts(c, "SOURCE_PERMANENT_ORPHAN_PAYMENT"),
           NEW records, Faithful(c, records), Has(records, "RUN", "run"),
           Has(records, "PROFILE", c.fault.relation), Has(records, "HISTORY", "raw_orders")
    PROVE  RootCauseSupported(c, "SOURCE_PERMANENT_ORPHAN_PAYMENT", records, records)
<1> DEFINE all == Everything(c, c.database)
<1>1. RootCauseSupported(c, "SOURCE_PERMANENT_ORPHAN_PAYMENT", all, all)
  BY FaultsShown DEF Accepts
<1>2. c.fault.kind = "ORPHAN" /\ Orphan(c, all)
  BY <1>1 DEF RootCauseSupported
<1>3. /\ Shown(all, "PROFILE", c.fault.relation) \subseteq Shown(records, "PROFILE", c.fault.relation)
      /\ Shown(all, "HISTORY", "raw_orders") \subseteq Shown(records, "HISTORY", "raw_orders")
  BY AllThatIsShown DEF LiveTools
<1>4. Orphan(c, records)
  BY <1>2, <1>3 DEF Orphan, RunSucceeded
<1> QED
  BY <1>2, <1>4 DEF RootCauseSupported

LEMMA LossShown ==
    ASSUME NEW c \in Cases, Accepts(c, "SOURCE_PAYMENT_INGESTION_LOSS"),
           NEW records, Faithful(c, records), Has(records, "RUN", "run"),
           \A of \in {"raw_payments", "raw_orders"} :
             Has(records, "PROFILE", of) /\ Has(records, "HISTORY", of),
           SubjectHasConsumers(c, records)
    PROVE  RootCauseSupported(c, "SOURCE_PAYMENT_INGESTION_LOSS", records, records)
<1> DEFINE all == Everything(c, c.database)
<1>1. RootCauseSupported(c, "SOURCE_PAYMENT_INGESTION_LOSS", all, all)
  BY FaultsShown DEF Accepts
<1>2. c.fault.kind = "DELETE" /\ IngestionLoss(c, all, all)
  BY <1>1 DEF RootCauseSupported
<1>3. \A of \in {"raw_payments", "raw_orders"} :
        /\ Shown(all, "PROFILE", of) \subseteq Shown(records, "PROFILE", of)
        /\ Shown(all, "HISTORY", of) \subseteq Shown(records, "HISTORY", of)
  BY AllThatIsShown DEF LiveTools
<1>4. RunSucceeded(c, records) /\ SubjectHasConsumers(c, records \cup records)
  <2>1. RunSucceeded(c, all)
    BY <1>2 DEF IngestionLoss
  <2> QED
    BY <2>1 DEF RunSucceeded, SubjectHasConsumers
<1>5. IngestionLoss(c, records, records)
  BY <1>2, <1>3, <1>4 DEF IngestionLoss
<1> QED
  BY <1>2, <1>5 DEF RootCauseSupported

LEMMA NullShown ==
    ASSUME NEW c \in Cases, Accepts(c, "SOURCE_REQUIRED_FIELD_NULL"),
           NEW records, Faithful(c, records), Has(records, "ERROR", c.direct),
           Has(records, "PROFILE", c.fault.relation)
    PROVE  RootCauseSupported(c, "SOURCE_REQUIRED_FIELD_NULL", records, records)
<1> DEFINE all == Everything(c, c.database)
<1>1. RootCauseSupported(c, "SOURCE_REQUIRED_FIELD_NULL", all, all)
  BY FaultsShown DEF Accepts
<1>2. c.fault.kind = "NULL" /\ RequiredNull(c, all)
  BY <1>1 DEF RootCauseSupported
<1>3. Shown(all, "PROFILE", c.fault.relation) \subseteq Shown(records, "PROFILE", c.fault.relation)
  BY AllThatIsShown DEF LiveTools
<1>4. RequiredNull(c, records)
  BY <1>2, <1>3 DEF RequiredNull, NodeFailed
<1> QED
  BY <1>2, <1>4 DEF RootCauseSupported

LEMMA SchemaShown ==
    ASSUME NEW c \in Cases,
           NEW cause \in {"SOURCE_SCHEMA_COLUMN_RENAMED", "SOURCE_SCHEMA_COLUMN_TYPE_CHANGED"},
           Accepts(c, cause),
           NEW records, Faithful(c, records), Has(records, "ERROR", c.direct),
           Has(records, "SCHEMA", c.fault.relation)
    PROVE  RootCauseSupported(c, cause, records, records)
<1> DEFINE all == Everything(c, c.database)
<1>1. RootCauseSupported(c, cause, all, all)
  BY FaultsShown DEF Accepts
<1>2. Shown(all, "SCHEMA", c.fault.relation) \subseteq Shown(records, "SCHEMA", c.fault.relation)
  BY AllThatIsShown DEF LiveTools
<1>3. CASE cause = "SOURCE_SCHEMA_COLUMN_RENAMED"
  <2>1. c.fault.kind = "RENAME" /\ ColumnRenamed(c, all)
    BY <1>1, <1>3 DEF RootCauseSupported
  <2>2. ColumnRenamed(c, records)
    BY <1>2, <2>1 DEF ColumnRenamed, NodeFailed
  <2> QED
    BY <1>3, <2>1, <2>2 DEF RootCauseSupported
<1>4. CASE cause = "SOURCE_SCHEMA_COLUMN_TYPE_CHANGED"
  <2>1. c.fault.kind = "TYPE" /\ TypeChanged(c, all)
    BY <1>1, <1>4 DEF RootCauseSupported
  <2>2. TypeChanged(c, records)
    BY <1>2, <2>1 DEF TypeChanged, NodeFailed
  <2> QED
    BY <1>4, <2>1, <2>2 DEF RootCauseSupported
<1> QED
  BY <1>3, <1>4

-----------------------------------------------------------------------------
(* Answers a built-in strategy gives *)

(* An answer whose causes the contract accepts, whose status the analyst has  *)
(* right unless it abstains, and which the evaluator passes when it meets the *)
(* contract.                                                                  *)
Right(who, c, a, records, events) ==
    /\ {claim.value : claim \in OfKind(a, "ROOT_CAUSE")} \subseteq c.causes
    /\ who = "REFERENCE_ANALYST" => a.status \in {c.status, "INSUFFICIENT_EVIDENCE"}
    /\ ContractMet(c, a, records, events) => FailedChecks(c, a, records, events, LaboratoryChecks) = {}

(* An answer that meets its contract fails no check but, perhaps, the ones on *)
(* its citations and on its claims.                                           *)
LEMMA MeetingPasses ==
    ASSUME NEW c, NEW a, NEW records, NEW events,
           ContractMet(c, a, records, events),
           a.status \in {"CONFIRMED", "NO_INCIDENT", "INSUFFICIENT_EVIDENCE"},
           CitesHeld(a.cites \cup UNION {claim.cites : claim \in a.claims}, records),
           a.status # "INSUFFICIENT_EVIDENCE" => ClaimEvidenceCompatible(c, a, records)
    PROVE  FailedChecks(c, a, records, events, LaboratoryChecks) = {}
<1>1. a.status = c.status
  BY DEF ContractMet
<1>2. c.status = "CONFIRMED" =>
        /\ {claim.value : claim \in OfKind(a, "ROOT_CAUSE")} \cap c.causes # {}
        /\ {claim.value : claim \in OfKind(a, "AFFECTED_ASSET")} = c.assets
  BY DEF ContractMet
<1>3. c.required \subseteq EvidenceTypes(Resolve(a.cites, records))
  BY DEF ContractMet
<1>4. c.status = "INSUFFICIENT_EVIDENCE" => InsufficiencyMatches(c, a, events)
  BY <1>1 DEF ContractMet, InsufficiencyMatches
<1>5. c.status = "NO_INCIDENT" => HealthEvidenceValid(c, a, records)
  BY <1>1 DEF ClaimEvidenceCompatible
<1> DEFINE failed == FailedChecks(c, a, records, events, LaboratoryChecks)
<1>6. LaboratoryChecks = {"ENVIRONMENT_VERIFIED", "RECOVERY_HEALTHY"}
  BY DEF LaboratoryChecks
<1>7. \A code : code \notin failed
  BY <1>1, <1>2, <1>3, <1>4, <1>5, <1>6 DEF FailedChecks
<1> QED
  BY <1>7

(* To abstain is never wrong. *)
LEMMA AbstainIsRight ==
    ASSUME NEW who, NEW c, NEW gaps, NEW records, NEW events
    PROVE  Right(who, c, Abstain(gaps, records), records, events)
<1> DEFINE a == Abstain(gaps, records)
<1>1. a.status = "INSUFFICIENT_EVIDENCE" /\ a.claims = {} /\ a.cites = Held(records)
  BY DEF Abstain, Answer
<1>2. OfKind(a, "ROOT_CAUSE") = {}
  BY <1>1 DEF OfKind
<1>3. CitesHeld(a.cites \cup UNION {claim.cites : claim \in a.claims}, records)
  BY <1>1 DEF CitesHeld, Held
<1> HIDE DEF a
<1>4. ContractMet(c, a, records, events) => FailedChecks(c, a, records, events, LaboratoryChecks) = {}
  BY <1>1, <1>3, MeetingPasses
<1>5. Right(who, c, a, records, events)
  BY <1>1, <1>2, <1>4 DEF Right
<1> QED
  BY <1>5 DEF a

(* All that is held resolves to all records. *)
LEMMA HeldResolves ==
    ASSUME NEW records
    PROVE  Resolve(Held(records), records) = records /\ CitesHeld(Held(records), records)
  BY DEF Resolve, Held, CitesHeld

(* A confirmation is right when the contract accepts its cause, the records  *)
(* show the fault and each asset is shown by the record it cites.            *)
LEMMA ConfirmIsRight ==
    ASSUME NEW who, NEW c, NEW cause \in c.causes, NEW assets, NEW records, NEW events,
           who = "REFERENCE_ANALYST" => c.status = "CONFIRMED",
           c.status = "CONFIRMED" => RootCauseSupported(c, cause, records, records),
           \A x \in assets : x.by \in Held(records)
                             /\ AssetSupported(c, x.asset, Resolve({x.by}, records))
    PROVE  Right(who, c, Confirm(cause, assets, records), records, events)
<1>1. CASE assets = {}
  BY <1>1, AbstainIsRight DEF Confirm
<1>2. CASE assets # {}
  <2> DEFINE root == [kind |-> "ROOT_CAUSE", value |-> cause, cites |-> Held(records)]
             shown == {[kind |-> "AFFECTED_ASSET", value |-> x.asset, cites |-> {x.by}] : x \in assets}
             a == Confirm(cause, assets, records)
  <2>1. a.status = "CONFIRMED" /\ a.claims = {root} \cup shown /\ a.cites = Held(records)
    BY <1>2 DEF Confirm, Answer
  <2>2. root.kind = "ROOT_CAUSE" /\ root.value = cause /\ root.cites = Held(records)
    OBVIOUS
  <2>3. \A y \in shown : /\ y.kind = "AFFECTED_ASSET"
                         /\ y.cites \subseteq Held(records)
                         /\ AssetSupported(c, y.value, Resolve(y.cites, records))
    OBVIOUS
  <2>4. shown # {}
    BY <1>2
  <2> HIDE DEF root, shown, a
  <2>5. OfKind(a, "ROOT_CAUSE") = {root} /\ OfKind(a, "AFFECTED_ASSET") = shown
    BY <2>1, <2>2, <2>3 DEF OfKind
  <2>6. {claim.value : claim \in OfKind(a, "ROOT_CAUSE")} = {cause}
    BY <2>2, <2>5
  <2>7. CitesHeld(a.cites \cup UNION {claim.cites : claim \in a.claims}, records)
    <3>1. \A claim \in a.claims : claim.cites \subseteq Held(records)
      BY <2>1, <2>2, <2>3
    <3> QED
      BY <2>1, <3>1 DEF CitesHeld, Held
  <2>8. ASSUME ContractMet(c, a, records, events)
        PROVE  FailedChecks(c, a, records, events, LaboratoryChecks) = {}
    <3>1. c.status = "CONFIRMED"
      BY <2>1, <2>8 DEF ContractMet
    <3>2. Holds(c, root, records)
      <4>1. RootCauseSupported(c, root.value, Resolve(root.cites, records), records)
        BY <2>2, <3>1, HeldResolves
      <4> QED
        BY <2>2, <4>1, HeldResolves DEF Holds, ClaimSupported
    <3>3. \A y \in shown : Holds(c, y, records)
      BY <2>3 DEF Holds, ClaimSupported, CitesHeld, Held
    <3>4. Cardinality(OfKind(a, "ROOT_CAUSE")) = 1
      BY <2>5, FS_Singleton
    <3>5. ClaimEvidenceCompatible(c, a, records)
      BY <2>1, <2>4, <2>5, <3>2, <3>3, <3>4 DEF ClaimEvidenceCompatible, HealthEvidenceValid
    <3> QED
      BY <2>1, <2>7, <2>8, <3>5, MeetingPasses
  <2>9. Right(who, c, a, records, events)
    BY <2>1, <2>6, <2>8 DEF Right
  <2> QED
    BY <2>9 DEF a
<1> QED
  BY <1>1, <1>2

(* What the lineage below a node shows is shown by the record of it. *)
LEMMA BelowIsShown ==
    ASSUME NEW c, NEW records, NEW node,
           NEW x \in Below(records, node)
    PROVE  /\ x.by \in Held(records)
           /\ AssetSupported(c, x.asset, Resolve({x.by}, records))
<1>1. PICK m \in Downstream[node] : x = [asset |-> m, by |-> [kind |-> "LINEAGE_DOWN", of |-> node]]
  BY DEF Below
<1>2. PICK r \in records : r.kind = "LINEAGE_DOWN" /\ r.of = node
  BY DEF Below, Has
<1>3. Key(r) = x.by
  BY <1>1, <1>2 DEF Key
<1>4. r \in Resolve({x.by}, records)
  BY <1>3 DEF Resolve
<1>5. AssetSupported(c, x.asset, Resolve({x.by}, records))
  <2>1. \A y \in Resolve({x.by}, records) : y.kind = "LINEAGE_DOWN"
    BY <1>1 DEF Resolve, Key
  <2> QED
    BY <1>1, <1>2, <1>4, <2>1 DEF AssetSupported, Has
<1> QED
  BY <1>3, <1>5 DEF Held

-----------------------------------------------------------------------------
(* The alerts *)

LEMMA HealthIsRight ==
    ASSUME NEW who, NEW c \in Cases, c.direct = "none", c.signal = "ORDER_VOLUME_ALERT",
           NEW records, NEW events, Faithful(c, records), Has(records, "RUN", "run")
    PROVE  Right(who, c, HealthAnswer(c, records), records, events)
<1> DEFINE h == View(records, "HISTORY", "raw_orders")
           day == c.bucket
           lag == c.observed - 24 * h.watermark
           late == \/ day > h.watermark
                   \/ day = h.watermark /\ lag \notin 0 .. h.sla
           odd == \/ day \notin DOMAIN h.counts \/ h.counts[day] # c.current
                  \/ day < h.watermark /\ ~WithinSeenRange(h.counts, day)
           profiled == Has(records, "PROFILE", "raw_orders")
           dated == Has(records, "HISTORY", "raw_orders")
           claim == [kind |-> "HEALTH_STATE", cites |-> Held(records),
                     value |-> [day |-> day, value |-> c.current]]
           a == Answer("NO_INCIDENT", {claim}, {}, Held(records))
<1>1. CASE profiled /\ dated /\ ~odd /\ ~late
  <2>1. HealthAnswer(c, records) = a
    BY <1>1 DEF HealthAnswer
  <2>2. a.status = "NO_INCIDENT" /\ a.claims = {claim} /\ a.cites = Held(records)
    BY DEF Answer
  <2>3. /\ claim.kind = "HEALTH_STATE" /\ claim.cites = Held(records)
        /\ claim.value.day = day /\ claim.value.value = c.current
    OBVIOUS
  <2>4. c.status = "NO_INCIDENT" /\ day \in Nat /\ h.watermark \in Nat
    <3>1. h = Sealed(c, "HISTORY", "raw_orders")
      BY <1>1, ViewIsSealed DEF LiveTools
    <3> QED
      BY <3>1, AlertAssumption
  <2>5. h \in Shown(records, "HISTORY", "raw_orders")
    BY <1>1, ViewIsSealed DEF LiveTools
  <2>6. IF day = h.watermark THEN lag \in 0 .. h.sla
        ELSE day <= h.watermark /\ WithinSeenRange(h.counts, day)
    <3>1. /\ ~(day > h.watermark) /\ (day = h.watermark => lag \in 0 .. h.sla)
          /\ day < h.watermark => WithinSeenRange(h.counts, day)
      BY <1>1
    <3> HIDE DEF lag, h
    <3>2. day = h.watermark \/ day < h.watermark
      BY <2>4, <3>1
    <3> QED
      BY <2>4, <3>1, <3>2
  <2>7. /\ day \in DOMAIN h.counts /\ h.counts[day] = c.current /\ profiled
    BY <1>1
  <2> HIDE DEF a, claim, h, late, odd, lag
  <2>8. HealthSupported(c, claim.value, records)
    BY <2>3, <2>5, <2>6, <2>7 DEF HealthSupported, RunSucceeded, lag
  <2>9. Holds(c, claim, records)
    BY <2>3, <2>8, HeldResolves DEF Holds, ClaimSupported
  <2>10. ClaimEvidenceCompatible(c, a, records)
    BY <2>2, <2>3, <2>9 DEF ClaimEvidenceCompatible, HealthEvidenceValid
  <2>11. CitesHeld(a.cites \cup UNION {x.cites : x \in a.claims}, records)
    BY <2>2, <2>3, HeldResolves DEF CitesHeld
  <2>12. OfKind(a, "ROOT_CAUSE") = {}
    BY <2>2, <2>3 DEF OfKind
  <2>13. ContractMet(c, a, records, events) => FailedChecks(c, a, records, events, LaboratoryChecks) = {}
    BY <2>2, <2>10, <2>11, MeetingPasses
  <2>14. Right(who, c, a, records, events)
    BY <2>2, <2>4, <2>12, <2>13 DEF Right
  <2> QED
    BY <2>1, <2>14
<1>2. CASE ~(profiled /\ dated /\ ~odd /\ ~late)
  <2>1. \E gaps : HealthAnswer(c, records) = Abstain(gaps, records)
    BY <1>2 DEF HealthAnswer
  <2> QED
    BY <2>1, AbstainIsRight
<1> QED
  BY <1>1, <1>2

LEMMA DuplicateIsRight ==
    ASSUME NEW who, NEW c \in Cases, c.direct = "none", c.signal = "PAYMENT_DUPLICATE_ALERT",
           NEW records, NEW events, Faithful(c, records), Has(records, "RUN", "run")
    PROVE  Right(who, c, DuplicateAnswer(c, records), records, events)
<1> DEFINE p == View(records, "PROFILE", "raw_payments")
           cause == IF p.duplicateKeys > 0 THEN "SOURCE_EXACT_PAYMENT_DUPLICATE"
                    ELSE "SOURCE_SEMANTIC_PAYMENT_DUPLICATE"
           open == \/ ~Has(records, "LINEAGE_DOWN", "seed_payments")
                   \/ ~Has(records, "SCHEMA", "raw_payments")
                   \/ p.channels["coupon"] = 0
                   \/ p.duplicateKeys = 0 /\ p.duplicatePrints = 0
           profiled == Has(records, "PROFILE", "raw_payments")
<1>1. CASE profiled /\ ~open
  <2>1. DuplicateAnswer(c, records) = Confirm(cause, Below(records, "seed_payments"), records)
    BY <1>1 DEF DuplicateAnswer
  <2>2. Accepts(c, cause) /\ c.fault.relation = "raw_payments"
    <3>1. p = Sealed(c, "PROFILE", "raw_payments") /\ "raw_payments" \in c.observable["PROFILE"]
      BY <1>1, ViewIsSealed DEF LiveTools
    <3> QED
      BY <3>1, AlertAssumption
  <2>3. RootCauseSupported(c, cause, records, records)
    <3>1. CASE p.duplicateKeys > 0
      BY <1>1, <2>2, <3>1, ExactShown
    <3>2. CASE ~(p.duplicateKeys > 0)
      BY <1>1, <2>2, <3>2, SemanticShown
    <3> QED
      BY <3>1, <3>2
  <2> HIDE DEF cause
  <2> QED
    BY <2>1, <2>2, <2>3, BelowIsShown, ConfirmIsRight DEF Accepts
<1>2. CASE ~(profiled /\ ~open)
  <2>1. \E gaps : DuplicateAnswer(c, records) = Abstain(gaps, records)
    BY <1>2 DEF DuplicateAnswer
  <2> QED
    BY <2>1, AbstainIsRight
<1> QED
  BY <1>1, <1>2

LEMMA OrphanIsRight ==
    ASSUME NEW who, NEW c \in Cases, c.direct = "none", c.signal = "PAYMENT_ORPHAN_ALERT",
           NEW records, NEW events, Faithful(c, records), Has(records, "RUN", "run")
    PROVE  Right(who, c, OrphanAnswer(c, records), records, events)
<1> DEFINE open == \/ ~Has(records, "PROFILE", "raw_payments")
                   \/ ~Has(records, "LINEAGE_DOWN", "seed_payments")
                   \/ ~Has(records, "SCHEMA", "raw_payments")
                   \/ View(records, "PROFILE", "raw_payments").violations = 0
                   \/ View(records, "HISTORY", "raw_orders").watermark < c.bucket
           dated == Has(records, "HISTORY", "raw_orders")
           cause == "SOURCE_PERMANENT_ORPHAN_PAYMENT"
<1>1. CASE dated /\ ~open
  <2>1. OrphanAnswer(c, records) = Confirm(cause, Below(records, "seed_payments"), records)
    BY <1>1 DEF OrphanAnswer
  <2>2. Accepts(c, cause) /\ c.fault.relation = "raw_payments"
    <3>1. "raw_orders" \in c.observable["HISTORY"]
      BY <1>1, ViewIsSealed DEF LiveTools
    <3> QED
      BY <3>1, AlertAssumption
  <2>3. RootCauseSupported(c, cause, records, records)
    BY <1>1, <2>2, OrphanShown
  <2> QED
    BY <2>1, <2>2, <2>3, BelowIsShown, ConfirmIsRight DEF Accepts
<1>2. CASE ~(dated /\ ~open)
  <2>1. \E gaps : OrphanAnswer(c, records) = Abstain(gaps, records)
    BY <1>2 DEF OrphanAnswer
  <2> QED
    BY <2>1, AbstainIsRight
<1> QED
  BY <1>1, <1>2

LEMMA LossIsRight ==
    ASSUME NEW who, NEW c \in Cases, c.direct = "none", c.signal = "PAYMENT_VOLUME_ALERT",
           NEW records, NEW events, Faithful(c, records), Has(records, "RUN", "run")
    PROVE  Right(who, c, LossAnswer(c, records), records, events)
<1> DEFINE blind == {r \in {"raw_payments", "raw_orders"} : ~Has(records, "HISTORY", r)}
           open == \/ ~Has(records, "LINEAGE_DOWN", "seed_payments")
                   \/ \E r \in {"raw_payments", "raw_orders"} : ~Has(records, "PROFILE", r)
                   \/ ~LossExplained(c, records)
           cause == "SOURCE_PAYMENT_INGESTION_LOSS"
           assets == Below(records, "seed_payments")
<1>1. CASE blind = {} /\ ~open
  <2>1. LossAnswer(c, records) = Confirm(cause, assets, records)
    BY <1>1 DEF LossAnswer
  <2>2. \A r \in {"raw_payments", "raw_orders"} :
          Has(records, "HISTORY", r) /\ Has(records, "PROFILE", r)
    BY <1>1
  <2>3. Accepts(c, cause)
    <3>1. {"raw_payments", "raw_orders"} \subseteq c.observable["HISTORY"]
      BY <2>2, ViewIsSealed DEF LiveTools
    <3> QED
      BY <3>1, AlertAssumption
  <2>4. CASE assets = {}
    BY <2>1, <2>4, AbstainIsRight DEF Confirm
  <2>5. CASE assets # {}
    <3>1. PICK r \in records : r.kind = "LINEAGE_DOWN" /\ r.of = "seed_payments"
      BY <1>1 DEF Has
    <3>2. Downstream["seed_payments"] # {}
      BY <2>5 DEF Below
    <3>3. r.of \in c.subjects \cap DOMAIN Downstream
      BY <3>1, BuiltinAssumption DEF Faithful, Downstream
    <3>4. SubjectHasConsumers(c, records)
      BY <3>1, <3>2, <3>3 DEF SubjectHasConsumers
    <3>5. RootCauseSupported(c, cause, records, records)
      BY <2>2, <2>3, <3>4, LossShown
    <3> QED
      BY <2>1, <2>3, <3>5, BelowIsShown, ConfirmIsRight DEF Accepts
  <2> QED
    BY <2>4, <2>5
<1>2. CASE ~(blind = {} /\ ~open)
  <2>1. \E gaps : LossAnswer(c, records) = Abstain(gaps, records)
    BY <1>2 DEF LossAnswer
  <2> QED
    BY <2>1, AbstainIsRight
<1> QED
  BY <1>1, <1>2

(* What an alert leads to is right, for either strategy. *)
LEMMA AlertIsRight ==
    ASSUME NEW who, NEW c \in Cases, c.direct = "none",
           NEW records, NEW events, Faithful(c, records), Has(records, "RUN", "run")
    PROVE  Right(who, c, AlertAnswer(c, records), records, events)
<1>1. CASE c.signal = "ORDER_VOLUME_ALERT"
  BY <1>1, HealthIsRight DEF AlertAnswer
<1>2. CASE c.signal = "PAYMENT_DUPLICATE_ALERT"
  BY <1>2, DuplicateIsRight DEF AlertAnswer
<1>3. CASE c.signal = "PAYMENT_ORPHAN_ALERT"
  BY <1>3, OrphanIsRight DEF AlertAnswer
<1>4. CASE c.signal = "PAYMENT_VOLUME_ALERT"
  BY <1>4, LossIsRight DEF AlertAnswer
<1>5. CASE c.signal \notin {"ORDER_VOLUME_ALERT", "PAYMENT_DUPLICATE_ALERT",
                            "PAYMENT_ORPHAN_ALERT", "PAYMENT_VOLUME_ALERT"}
  BY <1>5, AbstainIsRight DEF AlertAnswer
<1> QED
  BY <1>1, <1>2, <1>3, <1>4, <1>5

-----------------------------------------------------------------------------
(* Failing tests *)

(* The model above a failing test is shown by the lineage of the test. *)
LEMMA TestedModelIsShown ==
    ASSUME NEW c \in Cases, c.direct # "none", c.isTest,
           NEW records, Has(records, "LINEAGE_UP", c.direct),
           NEW x \in AffectedBy(c, "LINEAGE_UP")
    PROVE  /\ x.by \in Held(records)
           /\ AssetSupported(c, x.asset, Resolve({x.by}, records))
<1>1. x.asset = AffectedModel(c) /\ x.by = [kind |-> "LINEAGE_UP", of |-> c.direct]
  BY DEF AffectedBy, Direct
<1>2. PICK r \in records : r.kind = "LINEAGE_UP" /\ r.of = c.direct
  BY DEF Has
<1>3. Key(r) = x.by /\ r \in Resolve({x.by}, records)
  BY <1>1, <1>2 DEF Key, Resolve
<1>4. \A y \in Resolve({x.by}, records) : y.kind = "LINEAGE_UP"
  BY <1>1 DEF Resolve, Key
<1>5. \E i \in DOMAIN Upstream[c.direct] :
        Upstream[c.direct][i] = [node |-> x.asset, type |-> "model", distance |-> 1]
  BY <1>1, FailedTestAssumption
<1>6. AssetSupported(c, x.asset, Resolve({x.by}, records))
  BY <1>2, <1>3, <1>4, <1>5 DEF AssetSupported, Has
<1> QED
  BY <1>3, <1>6 DEF Held

(* The profile of the source of a failing test shows the cause. *)
LEMMA ProfileShowsCause ==
    ASSUME NEW c \in Cases, c.direct # "none", c.isTest,
           NEW records, Faithful(c, records), Has(records, "RUN", "run"),
           Has(records, "ERROR", c.direct), Has(records, "PROFILE", SourceRelation(c)),
           NEW p, p = View(records, "PROFILE", SourceRelation(c)),
           NEW cause, cause = IF DOMAIN p.nulls # {} THEN "SOURCE_REQUIRED_FIELD_NULL"
                              ELSE IF p.duplicateKeys > 0 THEN "SOURCE_EXACT_PAYMENT_DUPLICATE"
                              ELSE "SOURCE_SEMANTIC_PAYMENT_DUPLICATE"
    PROVE  Accepts(c, cause) /\ RootCauseSupported(c, cause, records, records)
<1>1. p = Sealed(c, "PROFILE", SourceRelation(c)) /\ SourceRelation(c) \in c.observable["PROFILE"]
  BY ViewIsSealed DEF LiveTools
<1>2. SourceRelation(c) = c.fault.relation /\ Accepts(c, cause)
  BY <1>1, FailedTestAssumption
<1>3. Has(records, "PROFILE", c.fault.relation)
  BY <1>2
<1>4. CASE cause = "SOURCE_REQUIRED_FIELD_NULL"
  BY <1>2, <1>3, <1>4, NullShown
<1>5. CASE cause = "SOURCE_EXACT_PAYMENT_DUPLICATE"
  BY <1>2, <1>3, <1>5, ExactShown
<1>6. CASE cause = "SOURCE_SEMANTIC_PAYMENT_DUPLICATE"
  BY <1>2, <1>3, <1>6, SemanticShown
<1> QED
  BY <1>2, <1>4, <1>5, <1>6

LEMMA TestIsRight ==
    ASSUME NEW who, NEW c \in Cases, c.direct # "none", c.isTest,
           NEW records, NEW events, Faithful(c, records), Has(records, "RUN", "run"),
           Has(records, "ERROR", c.direct), Has(records, "LINEAGE_UP", c.direct)
    PROVE  Right(who, c, TestAnswer(c, SourceRelation(c), records), records, events)
<1> DEFINE source == SourceRelation(c)
           profiled == Has(records, "PROFILE", source)
           p == View(records, "PROFILE", source)
           cause == IF DOMAIN p.nulls # {} THEN "SOURCE_REQUIRED_FIELD_NULL"
                    ELSE IF p.duplicateKeys > 0 THEN "SOURCE_EXACT_PAYMENT_DUPLICATE"
                    ELSE "SOURCE_SEMANTIC_PAYMENT_DUPLICATE"
           odd == \/ DOMAIN p.nulls # {}
                  \/ p.duplicateKeys > 0
                  \/ p.duplicateKeys = 0 /\ p.duplicatePrints > 0
<1>1. CASE profiled /\ odd
  <2>1. TestAnswer(c, source, records) = Confirm(cause, AffectedBy(c, "LINEAGE_UP"), records)
    <3>1. CASE DOMAIN p.nulls # {}
      BY <1>1, <3>1 DEF TestAnswer
    <3>2. CASE DOMAIN p.nulls = {} /\ p.duplicateKeys > 0
      BY <1>1, <3>2 DEF TestAnswer
    <3>3. CASE DOMAIN p.nulls = {} /\ ~(p.duplicateKeys > 0)
      BY <1>1, <3>3 DEF TestAnswer
    <3> QED
      BY <3>1, <3>2, <3>3
  <2>2. Accepts(c, cause) /\ RootCauseSupported(c, cause, records, records)
    BY <1>1, ProfileShowsCause
  <2> HIDE DEF cause
  <2> QED
    BY <2>1, <2>2, TestedModelIsShown, ConfirmIsRight DEF Accepts
<1>2. CASE ~(profiled /\ odd)
  <2>1. \E gaps : TestAnswer(c, source, records) = Abstain(gaps, records)
    BY <1>2 DEF TestAnswer
  <2> QED
    BY <2>1, AbstainIsRight
<1> QED
  BY <1>1, <1>2

-----------------------------------------------------------------------------
(* The fixed rule on a broken run *)

LEMMA FixedIsRight ==
    ASSUME NEW who, who # "REFERENCE_ANALYST", NEW c \in Cases, c.direct # "none",
           NEW records, NEW events, NEW subject, Faithful(c, records), Has(records, "RUN", "run"),
           Has(records, "ERROR", c.direct), Has(records, "LINEAGE_UP", c.direct)
    PROVE  Right(who, c, FixedSourceAnswer(c, SourceRelation(c), subject, records), records, events)
<1> DEFINE source == SourceRelation(c)
           profiled == Has(records, "PROFILE", source)
           nulls == DOMAIN View(records, "PROFILE", source).nulls
           listed == Has(records, "SCHEMA", source)
           retyped == TextIn(View(records, "SCHEMA", source), {"user_id", "customer_id"},
                             FixedTextTypes)
           a == FixedSourceAnswer(c, source, subject, records)
<1>1. CASE c.isTest /\ profiled /\ nulls # {}
  <2> DEFINE cause == "SOURCE_REQUIRED_FIELD_NULL"
  <2>1. a = Confirm(cause, AffectedBy(c, "LINEAGE_UP"), records)
    BY <1>1 DEF FixedSourceAnswer, Tested
  <2>2. Accepts(c, cause) /\ RootCauseSupported(c, cause, records, records)
    BY <1>1, ProfileShowsCause
  <2> QED
    BY <1>1, <2>1, <2>2, TestedModelIsShown, ConfirmIsRight DEF Accepts
<1>2. CASE ~c.isTest /\ listed /\ retyped # {}
  <2> DEFINE cause == "SOURCE_SCHEMA_COLUMN_TYPE_CHANGED"
  <2>1. a = Confirm(cause, AffectedBy(c, "ERROR"), records)
    BY <1>2 DEF FixedSourceAnswer, Tested
  <2>2. source = c.fault.relation /\ cause \in c.causes
    <3>1. /\ View(records, "SCHEMA", source) = Sealed(c, "SCHEMA", source)
          /\ source \in c.observable["SCHEMA"]
      BY <1>2, ViewIsSealed DEF LiveTools
    <3> QED
      BY <1>2, <3>1, FailedModelAssumption
  <2>3. c.status = "CONFIRMED" => RootCauseSupported(c, cause, records, records)
    BY <1>2, <2>2, SchemaShown DEF Accepts
  <2>4. ASSUME NEW x \in AffectedBy(c, "ERROR")
        PROVE  /\ x.by \in Held(records)
               /\ AssetSupported(c, x.asset, Resolve({x.by}, records))
    <3>1. x.asset = c.direct /\ x.by = [kind |-> "ERROR", of |-> c.direct]
      BY <1>2 DEF AffectedBy, AffectedModel, Direct, Tested
    <3>2. PICK r \in records : r.kind = "ERROR" /\ r.of = c.direct
      BY DEF Has
    <3>3. Key(r) = x.by /\ r \in Resolve({x.by}, records)
      BY <3>1, <3>2 DEF Key, Resolve
    <3>4. AssetSupported(c, x.asset, Resolve({x.by}, records))
      BY <1>2, <3>1, <3>2, <3>3 DEF AssetSupported, Has
    <3> QED
      BY <3>3, <3>4 DEF Held
  <2> QED
    BY <2>1, <2>2, <2>3, <2>4, ConfirmIsRight
<1>3. CASE ~(c.isTest /\ profiled /\ nulls # {}) /\ ~(~c.isTest /\ listed /\ retyped # {})
  <2>1. \E gaps : a = Abstain(gaps, records)
    BY <1>3 DEF FixedSourceAnswer, Tested
  <2> QED
    BY <2>1, AbstainIsRight
<1> QED
  BY <1>1, <1>2, <1>3

-----------------------------------------------------------------------------
(* The analyst on a failing model *)

(* The failed model is shown by its error, what is below it by the lineage. *)
LEMMA ModelAssetsAreShown ==
    ASSUME NEW c, ~c.isTest, NEW records, Has(records, "ERROR", c.direct),
           NEW x \in FailedModelAssets(c, records)
    PROVE  /\ x.by \in Held(records)
           /\ AssetSupported(c, x.asset, Resolve({x.by}, records))
<1>1. CASE x \in Below(records, c.direct)
  BY <1>1, BelowIsShown
<1>2. CASE x = [asset |-> c.direct, by |-> [kind |-> "ERROR", of |-> c.direct]]
  <2>1. PICK r \in records : r.kind = "ERROR" /\ r.of = c.direct
    BY DEF Has
  <2>2. Key(r) = x.by /\ r \in Resolve({x.by}, records)
    BY <1>2, <2>1 DEF Key, Resolve
  <2>3. AssetSupported(c, x.asset, Resolve({x.by}, records))
    BY <1>2, <2>1, <2>2 DEF AssetSupported, Has
  <2> QED
    BY <2>2, <2>3 DEF Held
<1> QED
  BY <1>1, <1>2 DEF FailedModelAssets, Direct

(* Among positions in a sequence there is a first one. *)
LEMMA FirstPosition ==
    ASSUME NEW stops, stops \subseteq Nat, stops # {}
    PROVE  Min(stops) \in stops
<1>1. PICK i \in stops : \A j \in stops : ~(<<j, i>> \in OpToRel(<, Nat))
  BY NatLessThanWellFounded, WFMin
<1>2. ASSUME NEW j \in stops
      PROVE  i <= j
  <2>1. i \in Nat /\ j \in Nat
    OBVIOUS
  <2>2. j < i => <<j, i>> \in OpToRel(<, Nat)
    BY <2>1, Zenon DEF OpToRel
  <2>3. ~(j < i)
    BY <1>1, <2>2, Zenon
  <2> QED
    BY <2>1, <2>3
<1> QED
  BY <1>2 DEF Min

LEMMA BuildIsRight ==
    ASSUME NEW who, NEW c \in Cases, c.direct # "none", ~c.isTest, ~c.v2,
           NEW records, NEW events, Faithful(c, records), Has(records, "ERROR", c.direct)
    PROVE  Right(who, c, BuildAnswer(c, StopsAt(c, records), records), records, events)
<1> DEFINE stops == StopsAt(c, records)
           stopped == Sources(c)[Min(stops)]
           a == BuildAnswer(c, stops, records)
<1>1. CASE stops # {} /\ Has(records, "SCHEMA", stopped)
  <2> DEFINE cause == "SOURCE_SCHEMA_COLUMN_RENAMED"
  <2>1. a = Confirm(cause, FailedModelAssets(c, records), records)
    BY <1>1 DEF BuildAnswer, StoppedAnswer
  <2>2. Min(stops) \in stops
    <3>1. stops \subseteq Nat
      <4>1. Sources(c) \in Seq(ToSet(Relations))
        BY FailedModelAssumption
      <4>2. DOMAIN Sources(c) \subseteq Nat
        BY <4>1
      <4> QED
        BY <4>2 DEF StopsAt
    <3> QED
      BY <1>1, <3>1, FirstPosition
  <2>3. /\ stopped \in ToSet(Sources(c))
        /\ c.missing # "none" /\ c.missing \notin DOMAIN View(records, "SCHEMA", stopped)
    BY <1>1, <2>2 DEF StopsAt, ToSet
  <2>4. /\ stopped \in c.observable["SCHEMA"]
        /\ View(records, "SCHEMA", stopped) = Sealed(c, "SCHEMA", stopped)
    BY <1>1, ViewIsSealed DEF LiveTools
  <2>5. stopped = c.fault.relation /\ Accepts(c, cause)
    BY <2>3, <2>4, FailedModelAssumption
  <2>6. RootCauseSupported(c, cause, records, records)
    BY <1>1, <2>5, SchemaShown
  <2> QED
    BY <2>1, <2>5, <2>6, ModelAssetsAreShown, ConfirmIsRight DEF Accepts
<1>2. CASE stops = {} /\ c.mismatch
  <2> DEFINE cause == "SOURCE_SCHEMA_COLUMN_TYPE_CHANGED"
  <2>1. a = Confirm(cause, FailedModelAssets(c, records), records)
    BY <1>2 DEF BuildAnswer
  <2>2. \A r \in ToSet(Sources(c)) : Has(records, "SCHEMA", r)
    BY <1>2 DEF StopsAt, ToSet
  <2>3. ToSet(Sources(c)) \subseteq c.observable["SCHEMA"]
    BY <2>2, ViewIsSealed DEF LiveTools
  <2>4. c.fault.relation \in ToSet(Sources(c)) /\ Accepts(c, cause)
    BY <1>2, <2>3, FailedModelAssumption
  <2>5. RootCauseSupported(c, cause, records, records)
    BY <2>2, <2>4, SchemaShown
  <2> QED
    BY <2>1, <2>4, <2>5, ModelAssetsAreShown, ConfirmIsRight DEF Accepts
<1>3. CASE /\ stops # {} => ~Has(records, "SCHEMA", stopped)
           /\ stops = {} => ~c.mismatch
  <2>1. \E gaps : a = Abstain(gaps, records)
    BY <1>3 DEF BuildAnswer, StoppedAnswer
  <2> QED
    BY <2>1, AbstainIsRight
<1> QED
  BY <1>1, <1>2, <1>3

(* The batches leave no gap, one or two. *)
LEMMA WideGapsCounted ==
    ASSUME NEW schemas, NEW nodes, NEW records, NEW events,
           NEW gaps, gaps = WideGaps(schemas, nodes, records, events),
           Cardinality(gaps) \notin {1, 2}
    PROVE  gaps = {} /\ Got(records, "EXPECTATION", schemas)
<1> DEFINE x == BatchGap("RELATION_SCHEMA_EXPECTATION", "EXPECTATION", schemas, events)
           y == BatchGap("DBT_NODE_DEFINITION", "DEFINITION", nodes, events)
<1>1. /\ gaps \in {{}, {x}, {y}, {x, y}}
      /\ gaps = {} => Got(records, "EXPECTATION", schemas)
  <2> HIDE DEF x, y
  <2>1. gaps = (IF Got(records, "EXPECTATION", schemas) THEN {} ELSE {x})
               \cup (IF Got(records, "DEFINITION", nodes) THEN {} ELSE {y})
    BY DEF WideGaps, x, y
  <2> QED
    BY <2>1
<1> HIDE DEF x, y
<1>2. Cardinality({x}) = 1 /\ Cardinality({y}) = 1
  BY FS_Singleton
<1>3. x # y => Cardinality({x, y}) = 2
  <2>1. ASSUME x # y
        PROVE  Cardinality({x} \cup {y}) = Cardinality({x}) + 1
    BY <2>1, FS_Singleton, FS_AddElement
  <2>2. {x} \cup {y} = {x, y}
    OBVIOUS
  <2> QED
    BY <1>2, <2>1, <2>2
<1>4. x = y => {x, y} = {x}
  OBVIOUS
<1> QED
  BY <1>1, <1>2, <1>3, <1>4

LEMMA WideIsRight ==
    ASSUME NEW who, NEW c \in Cases, c.direct # "none", ~c.isTest, c.v2,
           NEW records, NEW events, Faithful(c, records), Has(records, "ERROR", c.direct)
    PROVE  Right(who, c, WideAnswer(c, records, events), records, events)
<1> DEFINE schemas == ExpectationTargets(c)
           gaps == WideGaps(schemas, DefinitionTargets(c), records, events)
           a == WideConclusion(c, schemas, DefinitionTargets(c), gaps, records)
           cause == "SOURCE_SCHEMA_COLUMN_TYPE_CHANGED"
           ready == /\ c.mismatch /\ Has(records, "LINEAGE_UP", Direct(c))
                    /\ schemas # <<>> /\ DefinitionTargets(c) # <<>>
           listed == Got(records, "SCHEMA", schemas)
           sure == ready /\ listed /\ Cardinality(gaps) \notin {1, 2} /\ Isolated(c, records)
<1>1. WideAnswer(c, records, events) = a
  BY DEF WideAnswer
<1>2. CASE sure
  <2>1. gaps = {} /\ Got(records, "EXPECTATION", schemas)
    BY <1>2, WideGapsCounted
  <2>2. a = Confirm(cause, FailedModelAssets(c, records), records)
    <3> HIDE DEF gaps, schemas
    <3> QED
      BY <1>2, <2>1 DEF WideConclusion
  <2>3. /\ Cardinality(Origins(c)) = 2
        /\ {o[1] : o \in Origins(c)} \subseteq ToSet(schemas)
    BY <1>2 DEF Isolated
  <2>4. Origins(c) = c.origins
    BY <2>3, FS_EmptySet DEF Origins
  <2>5. Origins(c) # {}
    BY <2>3, FS_EmptySet
  <2>6. c.observable["EXPECTATION"] # {}
    <3>1. PICK r : r \in ToSet(schemas)
      BY <2>3, <2>5
    <3>2. Has(records, "EXPECTATION", r)
      BY <2>1, <3>1 DEF Got
    <3> QED
      BY <3>2 DEF Has, Faithful
  <2>7. c.fault.relation \in {o[1] : o \in c.origins} /\ Accepts(c, cause)
    BY <1>2, <2>6, FailedModelAssumption
  <2>8. Has(records, "SCHEMA", c.fault.relation)
    BY <1>2, <2>3, <2>4, <2>7 DEF Got
  <2>9. RootCauseSupported(c, cause, records, records)
    BY <2>7, <2>8, SchemaShown
  <2> QED
    BY <1>1, <2>2, <2>7, <2>9, ModelAssetsAreShown, ConfirmIsRight DEF Accepts
<1>3. CASE ~sure
  <2> DEFINE subject == Unseen("TRANSFORMATION_DEFINITION", Direct(c))
             first == Head(SelectSeq(schemas, LAMBDA r : ~Has(records, "SCHEMA", r)))
  <2>1. a \in {Abstain({subject}, records), Abstain(gaps, records),
               Abstain(gaps \cup {subject}, records),
               Abstain({Hidden("RELATION_SCHEMA", first), subject}, records)}
    <3>1. CASE ~ready
      BY <3>1 DEF WideConclusion
    <3>2. CASE ready /\ ~listed
      BY <3>2 DEF WideConclusion
    <3>3. CASE ready /\ listed /\ Cardinality(gaps) = 2
      <4>1. gaps # {}
        <5> HIDE DEF gaps, ready, listed
        <5> QED
          BY <3>3, FS_EmptySet
      <4> HIDE DEF gaps, schemas
      <4> QED
        BY <3>3, <4>1 DEF WideConclusion
    <3>4. CASE ready /\ listed /\ Cardinality(gaps) = 1
      <4>1. gaps # {}
        <5> HIDE DEF gaps, ready, listed
        <5> QED
          BY <3>4, FS_EmptySet
      <4> HIDE DEF gaps, schemas
      <4> QED
        BY <3>4, <4>1 DEF WideConclusion
    <3>5. CASE ready /\ listed /\ Cardinality(gaps) \notin {1, 2} /\ ~Isolated(c, records)
      <4>1. gaps = {}
        BY <3>5, WideGapsCounted
      <4> HIDE DEF gaps, schemas
      <4> QED
        BY <3>5, <4>1 DEF WideConclusion
    <3> QED
      BY <1>3, <3>1, <3>2, <3>3, <3>4, <3>5
  <2>2. \E g : a = Abstain(g, records)
    BY <2>1
  <2> QED
    BY <1>1, <2>2, AbstainIsRight
<1> QED
  BY <1>2, <1>3

(* Whatever schemas were read, one of the two tests decides between them. *)
LEMMA DecisionIsBound ==
    ASSUME NEW c \in Cases, c.direct # "none", NEW records, Faithful(c, records)
    PROVE  ~Unbound(c, records)
<1> SUFFICES ASSUME Unbound(c, records)
             PROVE  FALSE
  OBVIOUS
<1> DEFINE sources == ToSet(Sources(c))
           Text(names) ==
             UNION {{<<r, x>> : x \in TextIn(Sealed(c, "SCHEMA", r), names, StringTypes)} : r \in sources}
<1>1. ~c.v2 /\ ~c.isTest /\ c.mismatch /\ StopsAt(c, records) = {}
  BY DEF Unbound, Tested
<1>2. \A r \in sources : Has(records, "SCHEMA", r)
  BY <1>1 DEF StopsAt, ToSet
<1>3. /\ sources \subseteq c.observable["SCHEMA"]
      /\ \A r \in sources : View(records, "SCHEMA", r) = Sealed(c, "SCHEMA", r)
  BY <1>2, ViewIsSealed DEF LiveTools
<1>4. \A names : TextColumns(c, records, names) = Text(names)
  BY <1>3 DEF TextColumns
<1>5. \/ Cardinality({x[2] : x \in Text(c.tokens)}) = 1
      \/ Cardinality({x[1] : x \in Text(KeyColumns)}) = 1
  BY <1>1, <1>3, FailedModelAssumption
<1>6. NamedInMessage(c, records) \/ OneTextKeySource(c, records)
  BY <1>4, <1>5 DEF NamedInMessage, OneTextKeySource
<1> QED
  BY <1>6 DEF Unbound

-----------------------------------------------------------------------------
(* Either strategy *)

(* What a strategy concludes from faithful records is right. *)
LEMMA ConclusionIsRight ==
    ASSUME NEW who, NEW c \in Cases, NEW records, NEW events, Faithful(c, records)
    PROVE  Right(who, c, Conclusion(who, c, records, events), records, events)
<1> DEFINE a == Conclusion(who, c, records, events)
           run == Has(records, "RUN", "run")
           told == Has(records, "ERROR", c.direct)
           led == Has(records, "LINEAGE_UP", c.direct)
           wide == c.v2 /\ ~c.isTest
<1>1. CASE ~run
  BY <1>1, AbstainIsRight DEF Conclusion
<1>2. CASE run /\ c.direct = "none"
  BY <1>2, AlertIsRight DEF Conclusion, Direct
<1>3. CASE run /\ c.direct # "none" /\ who = "FIXED_RULE"
  <2>1. a = FixedFailedAnswer(c, records)
    BY <1>3 DEF Conclusion, Direct
  <2>2. CASE told /\ led
    BY <1>3, <2>1, <2>2, FixedIsRight DEF FixedFailedAnswer, Direct
  <2>3. CASE ~(told /\ led)
    BY <2>1, <2>3, AbstainIsRight DEF FixedFailedAnswer, Direct
  <2> QED
    BY <2>2, <2>3
<1>4. CASE run /\ c.direct # "none" /\ who # "FIXED_RULE"
  <2>1. a = AnalystFailedAnswer(c, records, events)
    BY <1>4 DEF Conclusion, Direct
  <2>2. CASE ~told \/ (~wide /\ ~led)
    BY <2>1, <2>2, AbstainIsRight DEF AnalystFailedAnswer, Direct, Tested
  <2>3. CASE told /\ wide
    <3>1. a = WideAnswer(c, records, events)
      BY <2>1, <2>3 DEF AnalystFailedAnswer, Direct, Tested
    <3> QED
      BY <1>4, <2>3, <3>1, WideIsRight
  <2>4. CASE told /\ ~wide /\ led /\ c.isTest
    <3>1. a = TestAnswer(c, SourceRelation(c), records)
      BY <2>1, <2>4 DEF AnalystFailedAnswer, Direct, Tested
    <3> QED
      BY <1>4, <2>4, <3>1, TestIsRight
  <2>5. CASE told /\ ~wide /\ led /\ ~c.isTest
    <3>1. a = BuildAnswer(c, StopsAt(c, records), records)
      BY <2>1, <2>5 DEF AnalystFailedAnswer, Direct, Tested
    <3> QED
      BY <1>4, <2>5, <3>1, BuildIsRight
  <2> QED
    BY <2>2, <2>3, <2>4, <2>5
<1> QED
  BY <1>1, <1>2, <1>3, <1>4

(* Once a built-in strategy has answered, its records and its trace are still *)
(* those it concluded from.                                                   *)
ConcludedInv ==
    strategy # "MODEL" /\ answer # NoAnswer =>
      answer = Conclusion(strategy, case, inventory, trace)

THEOREM ConcludedAlways == Spec => []ConcludedInv
<1>1. Init => ConcludedInv
  BY DEF Init, ConcludedInv
<1>2. ConcludedInv /\ [Next]_vars => ConcludedInv'
  <2> SUFFICES ASSUME ConcludedInv, [Next]_vars
               PROVE  ConcludedInv'
    OBVIOUS
  <2>1. case' = case /\ strategy' = strategy
    BY DEF Next, Ask, BuiltinCall, Disturb, Submit, Conclude, Evaluate, vars
  <2>2. ASSUME answer = NoAnswer, UNCHANGED answer
        PROVE  ConcludedInv'
    BY <2>2 DEF ConcludedInv, NoAnswer
  <2>3. ASSUME NEW key, Ask(key)
        PROVE  ConcludedInv'
    BY <2>2, <2>3 DEF Ask
  <2>4. CASE BuiltinCall
    BY <2>2, <2>4 DEF BuiltinCall
  <2>5. ASSUME NEW d, Disturb(d)
        PROVE  ConcludedInv'
    BY <2>2, <2>5 DEF Disturb
  <2>6. ASSUME NEW a, Submit(a)
        PROVE  ConcludedInv'
    BY <2>1, <2>6 DEF Submit, ConcludedInv
  <2>7. CASE Conclude
    <3>1. /\ answer' = Conclusion(strategy, case, inventory, trace)
          /\ UNCHANGED <<inventory, trace>>
      BY <2>7 DEF Conclude
    <3> QED
      BY <2>1, <3>1 DEF ConcludedInv
  <2>8. CASE UNCHANGED <<inventory, trace, answer>>
    BY <2>1, <2>8 DEF ConcludedInv, NoAnswer
  <2> QED
    BY <2>3, <2>4, <2>5, <2>6, <2>7, <2>8 DEF Next, Evaluate, vars
<1> QED
  BY <1>1, <1>2, PTL DEF Spec

(* A built-in strategy names no cause the contract does not accept, and the  *)
(* analyst no other status; an answer that meets its contract passes; and    *)
(* the analyst's decision is always assigned before it is read.              *)
THEOREM BuiltinAnswersAlwaysRight == Spec => []BuiltinAnswersAreRight
<1>1. ASSUME RunInv, ConcludedInv
      PROVE  BuiltinAnswersAreRight
  <2>1. case \in Cases /\ Faithful(case, inventory)
    BY <1>1, InventoryIsFaithful DEF RunInv
  <2>2. ASSUME strategy # "MODEL", answer # NoAnswer
        PROVE  Right(strategy, case, answer, inventory, trace)
    BY <1>1, <2>1, <2>2, ConclusionIsRight DEF ConcludedInv
  <2>3. ASSUME strategy # "MODEL", answer # NoAnswer
        PROVE  "SCORING" \notin FailureClasses(case, answer, inventory, asked, trace,
                                               Passes(case, answer, inventory, trace))
    <3> DEFINE met == ContractMet(case, answer, inventory, trace)
               passed == Passes(case, answer, inventory, trace)
    <3>1. met => passed
      BY <2>2, <2>3 DEF Right, Passes
    <3> HIDE DEF met, passed
    <3>2. "SCORING" \notin FailureClasses(case, answer, inventory, asked, trace, passed)
      BY <3>1 DEF FailureClasses, met
    <3> QED
      BY <3>2 DEF passed
  <2>4. Direct(case) # "none" => ~Unbound(case, inventory)
    BY <2>1, DecisionIsBound DEF Direct
  <2> QED
    BY <2>2, <2>3, <2>4 DEF BuiltinAnswersAreRight, Right
<1> QED
  BY <1>1, RunInvHolds, ConcludedAlways, PTL
=============================================================================
