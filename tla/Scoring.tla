------------------------------- MODULE Scoring -------------------------------
(***************************************************************************)
(* The deterministic rules that judge a diagnosis (evaluation.py), used    *)
(* twice: by the submission gate while the model can still repair its      *)
(* answer (submission_policy.py), and by the evaluator afterwards; the     *)
(* payment rules of the kernel (diagnostic_payment_rules.py), which see    *)
(* only what the incident brief publishes; and what the evidence tools     *)
(* answer (evidence_tools.py, evidence_batch.py).                          *)
(*                                                                         *)
(* A record is known by its tool, its target and the database it was read  *)
(* from.  Run results, node errors, lineage, expectations and definitions  *)
(* come from the sealed artifacts of the run; schemas, profiles and        *)
(* histories are read live and compared with the sealed snapshot.          *)
(***************************************************************************)
EXTENDS Integers, FiniteSets, SequencesExt

CONSTANTS
  Cases,       \* incident cases, as what the scenario file of each declares
  Databases,   \* states the laboratory's database may be in
  Shows,       \* [Databases -> what each tool reads of each relation there]
  Nodes,       \* the project's nodes, in the order of their names
  NodeType,    \* [nodes -> "model", "seed" or "test"]
  Parents,     \* [nodes -> the nodes each one depends on]
  Expectations \* [relations -> column types of the sealed baseline]

\* Tools that read the live database.
LiveTools == {"SCHEMA", "PROFILE", "HISTORY"}

\* Tools that take several targets; each target has an event of its own here.
BatchTools == {"EXPECTATION", "DEFINITION"}

-----------------------------------------------------------------------------
(* Lineage                                                                 *)

Children == [n \in ToSet(Nodes) |-> {m \in ToSet(Nodes) : n \in Parents[m]}]

\* The nodes at each distance from a node, along edges.
Rings(edges, node) ==
  LET Spread(rings, k) == Append(rings, UNION {edges[n] : n \in Last(rings)} \ UNION ToSet(rings))
  IN Tail(FoldLeft(Spread, <<{node}>>, Nodes))

\* Everything a lineage names, nearest first and then by name; a test is walked
\* through but never named.
Related(edges, node) ==
  LET rings == Rings(edges, node)
      At(k) == SelectSeq(Nodes, LAMBDA n : n \in rings[k] /\ NodeType[n] # "test")
      Named(k) == [i \in DOMAIN At(k) |-> [node |-> At(k)[i], type |-> NodeType[At(k)[i]],
                                           distance |-> k]]
  IN FlattenSeq([k \in 1 .. Len(Nodes) |-> Named(k)])

Upstream == [n \in ToSet(Nodes) |-> Related(Parents, n)]

\* Models below a node.
Downstream == [n \in ToSet(Nodes) |-> {r.node : r \in ToSet(Related(Children, n))}]

-----------------------------------------------------------------------------
(* What a tool answers while the database is in a state                    *)

\* Run results and lineage answer for whatever the run holds; an error only for
\* a node that failed.
SealedCode(c, key) ==
  CASE key.kind = "ERROR" /\ key.of # c.direct -> "NODE_ERROR_NOT_FOUND"
    [] key.kind \in {"LINEAGE_UP", "LINEAGE_DOWN"} /\ key.of \notin ToSet(Nodes) -> "NODE_NOT_FOUND"
    [] OTHER -> "none"

\* A batch is granted target by target; a definition also has to be of a node of
\* the project that lies above the failed one.
BatchCode(c, key) ==
  LET granted == key.of \in c.observable[key.kind]
      closure == {c.direct}
                   \cup {r.node : r \in ToSet(Upstream[c.direct])}
  IN CASE key.kind = "EXPECTATION" /\ ~granted -> "RELATION_NOT_ALLOWED"
       [] key.kind = "DEFINITION" /\ ~granted -> "NODE_NOT_ALLOWED"
       [] key.kind = "DEFINITION" /\ granted /\ key.of \notin ToSet(Nodes) -> "NODE_NOT_FOUND"
       [] key.kind = "DEFINITION" /\ granted /\ key.of \in ToSet(Nodes) \ closure ->
            "NODE_NOT_ALLOWED"
       [] OTHER -> "none"

\* Variant: what is there is returned, whatever the snapshot of the run says.
LiveCodeUnchecked(c, key, now) ==
  IF key.of \in c.observable[key.kind] THEN "none" ELSE "RELATION_NOT_ALLOWED"

\* A profile counts the columns of the baseline, and cannot where one is missing;
\* a history is declared for some relations only.
Measurable(key, now) ==
  CASE key.kind = "PROFILE" -> DOMAIN Expectations[key.of] \subseteq DOMAIN Shows[now].SCHEMA[key.of]
    [] key.kind = "HISTORY" -> DOMAIN Shows[now].HISTORY[key.of].counts # {}
    [] OTHER -> TRUE

\* A live reading must be granted, be possible, and be the one the run was sealed
\* with.
LiveCode(c, key, now) ==
  LET granted    == key.of \in c.observable[key.kind]
      measurable == Measurable(key, c.database) /\ Measurable(key, now)
      sealed     == Shows[c.database][key.kind][key.of]
  IN CASE ~granted -> "RELATION_NOT_ALLOWED"
       [] granted /\ ~measurable -> "PROFILE_METRIC_UNAVAILABLE"
       [] granted /\ measurable /\ Shows[now][key.kind][key.of] # sealed ->
            IF key.kind = "SCHEMA" THEN "RUN_STATE_DRIFT" ELSE "PROFILE_SNAPSHOT_MISMATCH"
       [] OTHER -> "none"

ToolCode(c, key, now) ==
  CASE key.kind \in LiveTools  -> LiveCode(c, key, now)
    [] key.kind \in BatchTools -> BatchCode(c, key)
    [] OTHER -> SealedCode(c, key)

\* What a contract says is hidden, the tools refuse.
ASSUME ScoringAssumption ==
  \A c \in Cases :
    /\ c.database \in Databases
    /\ \A g \in c.gaps : g.tool # "none" =>
         /\ ToolCode(c, [kind |-> g.tool, of |-> g.subject], c.database) = g.code
         /\ g.code # "none"

\* The brief of a confirmable payment fault speaks of the relation with the fault
\* and lets no profile of another subject be read; a loss is told as large as the
\* rows deleted, an orphan has the orders' history beside it.
ASSUME CatalogueAssumption ==
  \A c \in {x \in Cases : x.status = "CONFIRMED"} :
    LET f == c.fault
        Readable(tool) == c.subjects \cap c.observable[tool]
    IN /\ f.kind = "DELETE" =>
            {"raw_payments", "raw_orders"} \subseteq c.subjects /\ f.rows = c.expected - c.current
       /\ f.kind \in {"EXACT_RECORD", "SEMANTIC_FINGERPRINT", "ORPHAN"} =>
            Readable("PROFILE") = {f.relation}
       /\ f.kind \in {"SEMANTIC_FINGERPRINT", "ORPHAN"} => f.rows \in Nat \ {0}
       /\ f.kind = "ORPHAN" => f.relation # "raw_orders" /\ Readable("HISTORY") = {"raw_orders"}

-----------------------------------------------------------------------------
(* Evidence a claim cites                                                  *)

Key(record) == [kind |-> record.kind, of |-> record.of]

\* The records behind a set of citations, looked up by key.
Resolve(cites, records) == {r \in records : Key(r) \in cites}

Has(records, kind, of) == \E r \in records : r.kind = kind /\ r.of = of

\* What the records of a live tool show of a relation.  A run holds at most one
\* per relation: no strategy may make a call twice.
Shown(cited, kind, of) ==
  {Shows[r.db][kind][of] : r \in {x \in cited : x.kind = kind /\ x.of = of}}

RunSucceeded(c, cited) == Has(cited, "RUN", "run") /\ c.direct = "none"

NodeFailed(c, cited) ==
  c.direct # "none" /\ Has(cited, "ERROR", c.direct)

\* Downstream lineage of a subject of the incident, with a model below it.
SubjectHasConsumers(c, records) ==
  \E r \in records : /\ r.kind = "LINEAGE_DOWN"
                      /\ r.of \in c.subjects \cap DOMAIN Downstream
                      /\ Downstream[r.of] # {}

-----------------------------------------------------------------------------
(* ROOT_CAUSE: one rule per kind of fault                                  *)

Baseline == [bank_transfer |-> 33, coupon |-> 13, credit_card |-> 55, gift_card |-> 12]

\* Rows lost by a source batch or a settled partition: both relations agree on
\* how many, every channel lacks exactly what was lost and nothing else is odd.
IngestionLoss(c, cited, all) ==
  LET f == c.fault
  IN /\ c.current < c.expected
     /\ RunSucceeded(c, cited)
     /\ \E p \in Shown(cited, "PROFILE", "raw_payments") :
          /\ p.rows = 113 - f.rows
          /\ p.rows = c.total
          /\ p.duplicateKeys = 0 /\ p.duplicatePrints = 0
          /\ p.channels = [m \in DOMAIN Baseline |-> Baseline[m] - f.lost[m]]
     /\ \E p \in Shown(cited, "PROFILE", "raw_orders") : p.rows = 99 /\ p.violations = f.rows
     /\ \E h \in Shown(cited, "HISTORY", "raw_payments") :
          h.counts[c.bucket] = c.current
     /\ \E h \in Shown(cited, "HISTORY", "raw_orders") : h.watermark >= c.bucket
     /\ SubjectHasConsumers(c, cited \cup all)

ExactDuplicate(c, cited) ==
  /\ Has(cited, "RUN", "run")
  /\ \E p \in Shown(cited, "PROFILE", c.fault.relation) :
       /\ p.duplicateKeys = 1 /\ p.duplicatePrints = 1
       /\ p.channels["credit_card"] = 56
  /\ NodeFailed(c, cited)

\* New keys, old fingerprints: the same payment entered twice.
SemanticDuplicate(c, cited) ==
  /\ RunSucceeded(c, cited)
  /\ \E p \in Shown(cited, "PROFILE", c.fault.relation) :
       /\ p.duplicateKeys = 0 /\ p.duplicatePrints = c.fault.rows
       /\ p.channels["coupon"] = 16

\* Payments without an order, long after the orders of their window arrived.
Orphan(c, cited) ==
  LET f == c.fault
  IN /\ RunSucceeded(c, cited)
     /\ \E p \in Shown(cited, "PROFILE", f.relation) :
          /\ p.rows = 113 + f.rows
          /\ p.duplicateKeys = 0 /\ p.duplicatePrints = 0
          /\ p.violations = f.rows
          /\ p.channels[f.channel] = f.channelRows
     /\ \E h \in Shown(cited, "HISTORY", "raw_orders") : h.watermark >= c.bucket

\* The rules for a fault that breaks the run add what the relation shows.
RequiredNull(c, cited) ==
  /\ NodeFailed(c, cited)
  /\ \E p \in Shown(cited, "PROFILE", c.fault.relation) :
       c.fault.column \in DOMAIN p.nulls /\ p.nulls[c.fault.column] = 1

ColumnRenamed(c, cited) ==
  /\ NodeFailed(c, cited)
  /\ \E columns \in Shown(cited, "SCHEMA", c.fault.relation) :
       /\ c.fault.column \notin DOMAIN columns
       /\ c.fault.to \in DOMAIN columns

TypeChanged(c, cited) ==
  /\ NodeFailed(c, cited)
  /\ \E columns \in Shown(cited, "SCHEMA", c.fault.relation) :
       /\ c.fault.column \in DOMAIN columns
       /\ columns[c.fault.column] = c.fault.to

\* The rule is chosen by the contract's fault, never by the cause claimed.
RootCauseSupported(c, cause, cited, all) ==
  CASE c.fault.kind = "DELETE" ->
         cause = "SOURCE_PAYMENT_INGESTION_LOSS" /\ IngestionLoss(c, cited, all)
    [] c.fault.kind = "EXACT_RECORD" ->
         cause = "SOURCE_EXACT_PAYMENT_DUPLICATE" /\ ExactDuplicate(c, cited)
    [] c.fault.kind = "SEMANTIC_FINGERPRINT" ->
         cause = "SOURCE_SEMANTIC_PAYMENT_DUPLICATE" /\ SemanticDuplicate(c, cited)
    [] c.fault.kind = "ORPHAN" ->
         cause = "SOURCE_PERMANENT_ORPHAN_PAYMENT" /\ Orphan(c, cited)
    [] c.fault.kind = "NULL" ->
         cause = "SOURCE_REQUIRED_FIELD_NULL" /\ RequiredNull(c, cited)
    [] c.fault.kind = "RENAME" ->
         cause = "SOURCE_SCHEMA_COLUMN_RENAMED" /\ ColumnRenamed(c, cited)
    [] c.fault.kind = "TYPE" ->
         cause = "SOURCE_SCHEMA_COLUMN_TYPE_CHANGED" /\ TypeChanged(c, cited)
    [] OTHER -> FALSE

\* All a rule of a case may look at, read from one database.
Everything(c, database) ==
  [kind : {"RUN", "ERROR", "LINEAGE_DOWN"} \cup LiveTools, db : {database},
   of : {"run", "raw_payments", "raw_orders", c.direct, c.fault.relation} \cup c.subjects]

\* A confirmable case shows its fault to whoever reads all of its database.
ASSUME FaultsShown ==
  \A c \in {x \in Cases : x.status = "CONFIRMED"} : \A cause \in c.causes :
    RootCauseSupported(c, cause, Everything(c, c.database), Everything(c, c.database))

\* No other incident of the catalogue shows the numbers a rule looks for.
ASSUME FaultsApart ==
  \A c \in Cases, d \in Databases : c.fault \notin Shows[d].faults =>
    \A cause \in c.causes :
      ~RootCauseSupported(c, cause, Everything(c, d), Everything(c, d))

-----------------------------------------------------------------------------
(* AFFECTED_ASSET and HEALTH_STATE                                         *)

\* A failing node, anything below a node whose lineage was read, or the model
\* right above the failure - but never the failing test itself.
AssetSupported(c, asset, cited) ==
  /\ ~(c.isTest /\ asset = c.direct /\ Has(cited, "ERROR", asset))
  /\ \/ Has(cited, "ERROR", asset)
     \/ \E r \in cited : r.kind = "LINEAGE_DOWN" /\ asset \in Downstream[r.of]
     \/ /\ Has(cited, "LINEAGE_UP", c.direct)
        /\ \E i \in DOMAIN Upstream[c.direct] :
             Upstream[c.direct][i] = [node |-> asset, type |-> "model", distance |-> 1]

\* Earlier days of the same weekday.
Prior(points, day) == {e \in DOMAIN points : e < day /\ (day - e) % 7 = 0}

WithinSeenRange(points, day) ==
  /\ Cardinality(Prior(points, day)) >= 4
  /\ \E e \in Prior(points, day) : points[e] <= points[day]
  /\ \E e \in Prior(points, day) : points[day] <= points[e]

\* The claimed day has the claimed count and is either the fresh watermark,
\* within its service level, or a past day within the range of its weekday.
HealthSupported(c, claim, cited) ==
  /\ claim.day = c.bucket
  /\ RunSucceeded(c, cited)
  /\ Has(cited, "PROFILE", "raw_orders")
  /\ \E h \in Shown(cited, "HISTORY", "raw_orders") :
       /\ claim.day \in DOMAIN h.counts
       /\ h.counts[claim.day] = claim.value
       /\ IF claim.day = h.watermark
          THEN c.observed - 24 * h.watermark \in 0 .. h.sla
          ELSE claim.day <= h.watermark /\ WithinSeenRange(h.counts, claim.day)

\* Variant: a cause the contract accepts counts as shown by the run's outcome.
ClaimSupportedByOutcome(c, claim, cited, all) ==
  CASE claim.kind = "ROOT_CAUSE"     -> /\ claim.value \in c.causes
                                        /\ RunSucceeded(c, cited) \/ NodeFailed(c, cited)
    [] claim.kind = "AFFECTED_ASSET" -> AssetSupported(c, claim.value, cited)
    [] claim.kind = "HEALTH_STATE"   -> HealthSupported(c, claim.value, cited)

ClaimSupported(c, claim, cited, all) ==
  CASE claim.kind = "ROOT_CAUSE"     -> RootCauseSupported(c, claim.value, cited, all)
    [] claim.kind = "AFFECTED_ASSET" -> AssetSupported(c, claim.value, cited)
    [] claim.kind = "HEALTH_STATE"   -> HealthSupported(c, claim.value, cited)

\* A citation the run does not hold makes its claim unsupported.
CitesHeld(cites, records) == cites \subseteq {Key(r) : r \in records}

Holds(c, claim, records) ==
  /\ CitesHeld(claim.cites, records)
  /\ ClaimSupported(c, claim, Resolve(claim.cites, records), records)

\* Variant: of a confirmation only the root cause is looked at.
ApplicableKindsRootOnly(c) ==
  CASE c.status = "CONFIRMED"   -> {"ROOT_CAUSE"}
    [] c.status = "NO_INCIDENT" -> {"HEALTH_STATE"}
    [] OTHER                              -> {}

ApplicableKinds(c) ==
  CASE c.status = "CONFIRMED"   -> {"ROOT_CAUSE", "AFFECTED_ASSET"}
    [] c.status = "NO_INCIDENT" -> {"HEALTH_STATE"}
    [] OTHER                              -> {}

-----------------------------------------------------------------------------
(* Receipts of refused calls                                               *)

\* Variant: any failed call of the tool is taken for a refusal.
RefusalWitnessedAnyCode(events, tool, target, code) ==
  \E i \in DOMAIN events : events[i].tool = tool /\ events[i].target = target

\* The receipt must be the only failed call of its tool that names the target,
\* for exactly this reason.  A controller may refuse a relation or a node too,
\* but only the backend speaks for a batch.  A built-in strategy writes the old
\* trace, which does not say who refused.
RefusalWitnessed(events, tool, target, code) ==
  LET matching == {i \in DOMAIN events : events[i].tool = tool /\ events[i].target = target}
  IN \E i \in matching :
       /\ matching = {i}
       /\ events[i].code = code
       /\ \/ events[i].origin \in {"EVIDENCE_BACKEND", "LEGACY_UNATTRIBUTED"}
          \/ /\ events[i].origin = "CONTROLLER_PRECHECK"
             /\ tool \notin BatchTools
             /\ code \in {"RELATION_NOT_ALLOWED", "NODE_NOT_ALLOWED"}

\* A gap of the contract that names a tool needs its receipt.
Receipted(c, gap, events) ==
  LET declared == {g \in c.gaps : g.gap = gap}
  IN \A g \in declared : g.tool # "none" => RefusalWitnessed(events, g.tool, g.subject, g.code)

-----------------------------------------------------------------------------
(* The kernel's payment rules: what the brief publishes is all they know   *)

LossPublic(c, cited, all) ==
  LET counted == c.current
  IN /\ counted < c.expected
     /\ {"raw_payments", "raw_orders"} \subseteq c.subjects
     /\ RunSucceeded(c, cited)
     /\ \E p \in Shown(cited, "PROFILE", "raw_payments") : p.rows = c.total
     /\ \E p \in Shown(cited, "PROFILE", "raw_orders") : p.violations = c.expected - counted
     /\ \E h \in Shown(cited, "HISTORY", "raw_payments") : h.counts[c.bucket] = counted
     /\ \E h \in Shown(cited, "HISTORY", "raw_orders") : h.watermark >= c.bucket
     /\ SubjectHasConsumers(c, cited \cup all)

\* One profile of a subject with payments that have no order, one history of
\* another subject.
OrphanPublic(c, cited) ==
  LET dangling == {x \in c.subjects :
                     \E p \in Shown(cited, "PROFILE", x) : x # "raw_orders" /\ p.violations > 0}
  IN /\ RunSucceeded(c, cited)
     /\ \E x \in dangling :
          /\ dangling = {x}
          /\ {y \in c.subjects \ {x} : Has(cited, "HISTORY", y)} = {"raw_orders"}

DuplicatePublic(c, cause, cited) ==
  LET profiled == {x \in c.subjects : Has(cited, "PROFILE", x)}
  IN \E x \in profiled :
       /\ profiled = {x}
       /\ \E p \in Shown(cited, "PROFILE", x) :
            IF cause = "SOURCE_EXACT_PAYMENT_DUPLICATE"
            THEN Has(cited, "RUN", "run") /\ p.duplicateKeys > 0
            ELSE RunSucceeded(c, cited) /\ p.duplicateKeys = 0 /\ p.duplicatePrints > 0

\* The causes that break no node; what the kernel asks of the others is the
\* subject of module DiagnosticKernel.
KernelSupports(c, cause, cited, all) ==
  CASE cause = "SOURCE_PAYMENT_INGESTION_LOSS"   -> LossPublic(c, cited, all)
    [] cause = "SOURCE_PERMANENT_ORPHAN_PAYMENT" -> OrphanPublic(c, cited)
    [] cause \in {"SOURCE_EXACT_PAYMENT_DUPLICATE", "SOURCE_SEMANTIC_PAYMENT_DUPLICATE"} ->
         DuplicatePublic(c, cause, cited)
    [] OTHER -> TRUE

KernelAccepts(c, a, records) ==
  \A claim \in a.claims : claim.kind = "ROOT_CAUSE" =>
    KernelSupports(c, claim.value, Resolve(claim.cites, records), records)

-----------------------------------------------------------------------------
(* The submission gate                                                     *)

GateCode(c, a, records, events) ==
  IF \E claim \in a.claims : claim.kind \in ApplicableKinds(c) /\ ~Holds(c, claim, records)
  THEN "CLAIM_SUPPORT_REQUIRED"
  ELSE IF \E gap \in a.gaps : ~Receipted(c, gap, events)
  THEN "GAP_RECEIPT_REQUIRED"
  ELSE "ACCEPTED"

-----------------------------------------------------------------------------
(* The evaluator                                                           *)

OfKind(a, kind) == {claim \in a.claims : claim.kind = kind}

HealthEvidenceValid(c, a, records) ==
  /\ a.status = "NO_INCIDENT"
  /\ a.claims # {}
  /\ \A claim \in a.claims : claim.kind = "HEALTH_STATE" /\ Holds(c, claim, records)

ClaimEvidenceCompatible(c, a, records) ==
  CASE a.status = "NO_INCIDENT" -> HealthEvidenceValid(c, a, records)
    [] a.status = "CONFIRMED" ->
         /\ Cardinality(OfKind(a, "ROOT_CAUSE")) = 1
         /\ OfKind(a, "AFFECTED_ASSET") # {}
         /\ \A claim \in OfKind(a, "ROOT_CAUSE") \cup OfKind(a, "AFFECTED_ASSET") :
              Holds(c, claim, records)
    [] OTHER -> FALSE

InsufficiencyMatches(c, a, events) ==
  /\ a.status = "INSUFFICIENT_EVIDENCE"
  /\ a.gaps = {g.gap : g \in c.gaps}
  /\ \A gap \in a.gaps : Receipted(c, gap, events)

\* Both directions of lineage are one type of evidence.
EvidenceTypes(records) ==
  {IF r.kind \in {"LINEAGE_UP", "LINEAGE_DOWN"} THEN "LINEAGE" ELSE r.kind : r \in records}

\* Checks of what the laboratory did before and after the diagnosis.
LaboratoryChecks == {"ENVIRONMENT_VERIFIED", "RECOVERY_HEALTHY"}

\* The applicable checks a run fails, met being those of the laboratory it meets.
\* EVIDENCE_RUN_SCOPE, TOOL_ALLOWLIST_EXACT and TRACE_READ_ONLY_SAFE are left out:
\* they look at run ids, tool names and argument texts, and every record and event
\* here is of the one run and of a tool it was offered.
FailedChecks(c, a, records, events, met) ==
  LET confirmed    == c.status = "CONFIRMED"
      insufficient == c.status = "INSUFFICIENT_EVIDENCE"
      health       == c.status = "NO_INCIDENT"
      cited        == a.cites \cup UNION {claim.cites : claim \in a.claims}
      Check(code, applicable, holds) == IF applicable /\ ~holds THEN {code} ELSE {}
  IN UNION {
       Check("ENVIRONMENT_VERIFIED", TRUE, "ENVIRONMENT_VERIFIED" \in met),
       Check("STATUS_EXACT", TRUE, a.status = c.status),
       Check("ROOT_CAUSE_ACCEPTED", confirmed,
             {claim.value : claim \in OfKind(a, "ROOT_CAUSE")} \cap c.causes # {}),
       Check("AFFECTED_ASSETS_EXACT", confirmed,
             {claim.value : claim \in OfKind(a, "AFFECTED_ASSET")} = c.assets),
       Check("EVIDENCE_IDS_EXIST", TRUE, CitesHeld(cited, records)),
       Check("REQUIRED_EVIDENCE_TYPES_PRESENT", TRUE,
             c.required \subseteq EvidenceTypes(Resolve(a.cites, records))),
       Check("CLAIM_EVIDENCE_COMPATIBLE", confirmed \/ health,
             ClaimEvidenceCompatible(c, a, records)),
       Check("INSUFFICIENCY_GAP_DECLARED", insufficient, InsufficiencyMatches(c, a, events)),
       Check("POSITIVE_HEALTH_EVIDENCE", health, HealthEvidenceValid(c, a, records)),
       Check("RECOVERY_HEALTHY", TRUE, "RECOVERY_HEALTHY" \in met)}

Passes(c, a, records, events) == FailedChecks(c, a, records, events, LaboratoryChecks) = {}
=============================================================================
