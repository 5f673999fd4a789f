---------------------------- MODULE DiagnosticKernel ----------------------------
(***************************************************************************)
(* The evidence state machine of one diagnosis (diagnostic_kernel.py).     *)
(*                                                                         *)
(* A model proposes tool calls and, at the end, a decision; the kernel is  *)
(* the ledger that judges both.  Every accepted call opens an evidence     *)
(* gap, the tool's answer closes or blocks it, and a decision is taken     *)
(* only over closed gaps.  The kernel is driven by its caller: an action   *)
(* here is one call of one method that does not raise before it changes    *)
(* something; a refused call leaves every variable alone and is a stutter. *)
(*                                                                         *)
(* Data is abstracted to what the rules tell apart.  A tool call is        *)
(* [kind, subject]: the gap kind fixes the tool and the lineage direction, *)
(* so this pair is also the call's fingerprint.  An evidence record stands *)
(* for its content, because evidence_id is the hash of that content.       *)
(***************************************************************************)
EXTENDS Integers, FiniteSets, Sequences

CONSTANTS
  Run,               \* the run this kernel was started for
  Calls,             \* the tool calls a model may propose: [kind, subject]
  GapIds,            \* identifiers an intent may give its gap
  Declarations,      \* the new_hypotheses arrays an intent may carry
  References,        \* the hypothesis_ids arrays an intent may carry
  Ontology,          \* allowed_root_cause_codes
  Records,           \* the evidence records the tools may return
  Observable,        \* relation tool kind -> relations the run may query
  LineageCandidates, \* nodes of the run catalog the incident names
  IncidentSubjects,  \* subjects of the incident brief
  Models,            \* nodes that are dbt models
  Rules,             \* root-cause code -> the evidence rules it must satisfy
  DomainRule(_, _, _),\* a payment code's own rule: code, cited, all records
  ErrorCodes,        \* codes a failing tool may report
  SafeToolErrors,    \* _SAFE_TOOL_ERRORS
  Declarable,        \* unresolved-evidence items an abstention may declare
  BlankSubjects,     \* argument strings that are empty or whitespace
  ToolCallLimit,     \* tool_call_limit
  MaxOpen            \* bound: calls the caller has in flight at once

RelationKinds == {"SCHEMA", "PROFILE", "HISTORY"}
LineageKinds  == {"UPSTREAM", "DOWNSTREAM"}
Kinds         == {"LOCATE", "EXPLAIN"} \cup LineageKinds \cup RelationKinds
Verdicts      == {"SUPPORTED", "REFUTED", "UNRESOLVED"}
FinalStatuses == {"CONFIRMED", "NO_INCIDENT", "INSUFFICIENT_EVIDENCE", "MODEL_ERROR"}

Subjects   == {c.subject : c \in Calls}
Names      == Subjects \cup UNION {r.nodes : r \in Records}
Hypotheses == UNION Declarations

\* A run result is asked of this run alone (RUN_CONTEXT_MISMATCH otherwise), so
\* its subject distinguishes nothing; any other call is its kind and subject.
ASSUME CallAssumption ==
  /\ \A c \in Calls : c.kind \in Kinds /\ c = [kind |-> c.kind, subject |-> c.subject]
  /\ \A r \in Records : r.kind \in Kinds
  /\ \A c, d \in Calls :
       c.kind = d.kind /\ (c.kind # "LOCATE" => c.subject = d.subject) => c = d

\* An InvestigationIntent whose new hypotheses repeat an id does not parse.
ASSUME DeclarationAssumption ==
  \A D \in Declarations : \A g, h \in D : g.id = h.id => g = h

ASSUME KernelAssumption ==
  /\ \A code \in Ontology : Rules[code] \subseteq {"UPSTREAM", "SCHEMA", "DOMAIN"}
  /\ ToolCallLimit \in Nat \ {0}
  /\ MaxOpen \in Nat \ {0}
  /\ "EVIDENCE_TOOL_ERROR" \in SafeToolErrors
  /\ "RELATION_NOT_ALLOWED" \in SafeToolErrors

VARIABLES
  hypotheses,   \* registered hypotheses: a set of [id, code]
  gaps,         \* the evidence gaps, in the order they were opened
  fingerprints, \* the attempts counted against the budget, in order
  records,      \* the accepted evidence
  prepared,     \* accepted calls whose result is still awaited: [gap, call]
  revision,     \* bumped by every change of state
  finalStatus,  \* "open" (None) or one of FinalStatuses
  assessments,  \* hypothesis id -> verdict of the accepted CONFIRMED decision
  selected,     \* the selected hypothesis, or "none"
  outcome       \* the KernelOutcome handed back, or NoOutcome

ledger  == <<hypotheses, gaps, fingerprints, records, prepared>>
verdict == <<finalStatus, assessments, selected, outcome>>
vars    == <<ledger, revision, verdict>>

NoOutcome == [status |-> "none", root |-> "none", affected |-> {},
              evidence |-> {}, unresolved |-> {}]

Init ==
  /\ hypotheses = {}
  /\ gaps = <<>>
  /\ fingerprints = <<>>
  /\ records = {}
  /\ prepared = {}
  /\ revision = 0
  /\ finalStatus = "open"
  /\ assessments = <<>>
  /\ selected = "none"
  /\ outcome = NoOutcome

-----------------------------------------------------------------------------
(* prepare_tool                                                            *)

RegisteredIds == {h.id : h \in hypotheses}

\* Declarations that are genuinely new.
Pending(new) == {h \in new : h.id \notin RegisteredIds}

\* The whole group is judged before any of it is registered: re-sending a
\* hypothesis unchanged is idempotent, redefining it or naming a code outside
\* the ontology refuses the call.
AcceptableHypotheses(new) ==
  \A h \in new : IF h.id \in RegisteredIds THEN h \in hypotheses
                                           ELSE h.code \in Ontology

\* Nodes a recorded run result names as failed.
FailedNodes == UNION {r.nodes : r \in {s \in records : s.kind = "LOCATE"}}

\* Nodes a recorded lineage fact names.
LineageNodes ==
  UNION {{r.subject} \cup r.nodes : r \in {s \in records : s.kind \in LineageKinds}}

\* Variant: any node a model names may be explained.
ProvenMutant(call) ==
  /\ call.kind \in LineageKinds =>
       call.subject \in FailedNodes \cup LineageNodes \cup LineageCandidates
  /\ call.kind \in RelationKinds => call.subject \in Observable[call.kind]

\* The argument of a call must come from evidence or from the run's catalog.
Proven(call) ==
  /\ call.kind = "EXPLAIN" => call.subject \in FailedNodes
  /\ call.kind \in LineageKinds =>
       call.subject \in FailedNodes \cup LineageNodes \cup LineageCandidates
  /\ call.kind \in RelationKinds => call.subject \in Observable[call.kind]

\* Variant: calls are still taken after the verdict.
AdmissibleMutant(call, gap, refs, new) ==
  /\ Len(fingerprints) < ToolCallLimit
  /\ \A i \in DOMAIN fingerprints : fingerprints[i] # call
  /\ \A i \in DOMAIN gaps : gaps[i].id # gap
  /\ AcceptableHypotheses(new)
  /\ refs \subseteq RegisteredIds \cup {h.id : h \in new}

\* The checks of prepare_tool that come before the provenance of the argument.
Admissible(call, gap, refs, new) ==
  /\ finalStatus = "open"
  /\ Len(fingerprints) < ToolCallLimit
  /\ \A i \in DOMAIN fingerprints : fingerprints[i] # call
  /\ \A i \in DOMAIN gaps : gaps[i].id # gap
  /\ AcceptableHypotheses(new)
  /\ refs \subseteq RegisteredIds \cup {h.id : h \in new}

\* An attempt enters the ledger: its fingerprint is spent and its gap exists.
Attempt(call, gap, refs, new, status, code) ==
  /\ fingerprints' = Append(fingerprints, call)
  /\ hypotheses' = hypotheses \cup Pending(new)
  /\ gaps' = Append(gaps, [id |-> gap, call |-> call, refs |-> refs,
                           status |-> status, error |-> code, evidence |-> {}])
  /\ revision' = revision + 1

\* prepare_tool accepts the call and hands back a PreparedToolCall.
PrepareTool(call, gap, refs, new) ==
  /\ Admissible(call, gap, refs, new)
  /\ Proven(call)
  /\ Cardinality(prepared) < MaxOpen
  /\ Attempt(call, gap, refs, new, "OPEN", "none")
  /\ prepared' = prepared \cup {[gap |-> gap, call |-> call]}
  /\ UNCHANGED <<records, verdict>>

\* prepare_tool raises RELATION_NOT_ALLOWED, the one refusal that is recorded:
\* the attempt counts and its gap is blocked from the start.
BlockRelation(call, gap, refs, new) ==
  /\ Admissible(call, gap, refs, new)
  /\ call.kind \in RelationKinds
  /\ ~ Proven(call)
  /\ Attempt(call, gap, refs, new, "BLOCKED", "RELATION_NOT_ALLOWED")
  /\ UNCHANGED <<records, prepared, verdict>>

-----------------------------------------------------------------------------
(* record_tool_result, record_tool_failure                                 *)

\* The open gap of a prepared call, if there is one.
AwaitedBy(i, p) == gaps[i].id = p.gap /\ gaps[i].status = "OPEN"

\* Variant: the type of the records is not checked.
AnswersMutant(call, rs) ==
  /\ rs # {}
  /\ \A r \in rs : r.run = Run /\ (r.kind # "LOCATE" => r.subject = call.subject)

\* Records that answer the call: this run's, of the expected type and subject.
Answers(call, rs) ==
  /\ rs # {}
  /\ \A r \in rs : /\ r.run = Run
                   /\ r.kind = call.kind
                   /\ r.kind # "LOCATE" => r.subject = call.subject

\* Neither method looks at the final status: a result may arrive after the
\* kernel was finalized.
RecordResult(p, rs) ==
  /\ p \in prepared
  /\ Answers(p.call, rs)
  /\ \E i \in DOMAIN gaps :
       /\ AwaitedBy(i, p)
       /\ gaps' = [gaps EXCEPT ![i].status = "CLOSED", ![i].evidence = rs]
  /\ records' = records \cup rs
  /\ prepared' = prepared \ {p}
  /\ revision' = revision + 1
  /\ UNCHANGED <<hypotheses, fingerprints, verdict>>

SafeCode(code) == IF code \in SafeToolErrors THEN code ELSE "EVIDENCE_TOOL_ERROR"

RecordFailure(p, code) ==
  /\ p \in prepared
  /\ \E i \in DOMAIN gaps :
       /\ AwaitedBy(i, p)
       /\ gaps' = [gaps EXCEPT ![i].status = "BLOCKED", ![i].error = SafeCode(code)]
  /\ prepared' = prepared \ {p}
  /\ revision' = revision + 1
  /\ UNCHANGED <<hypotheses, fingerprints, records, verdict>>

-----------------------------------------------------------------------------
(* finalize                                                                *)

\* Variant: a gap still awaited does not stand in the way of a verdict.
AllGapsClosedMutant == \A i \in DOMAIN gaps : gaps[i].status # "BLOCKED"

\* Variant: a query that was refused or failed does not stand in its way either.
AllGapsClosedRefusedMutant == \A i \in DOMAIN gaps : gaps[i].status # "OPEN"

AllGapsClosed == \A i \in DOMAIN gaps : gaps[i].status = "CLOSED"

\* Evidence a claim may cite: in the inventory and bound to a closed gap.
Citable ==
  records \cap UNION {gaps[i].evidence : i \in {j \in DOMAIN gaps : gaps[j].status = "CLOSED"}}

\* Nodes whose error the root claim cites.
ErrorNodes(root) == {r.subject : r \in {s \in root : s.kind = "EXPLAIN"}}

\* Relations an upstream lineage fact puts above those nodes.
UpstreamRelations(nodes) ==
  UNION {r.nodes : r \in {s \in records : s.kind = "UPSTREAM" /\ s.subject \in nodes}}

\* The general rule: the error of an incident node, and a schema or profile of
\* a relation upstream of it.
UpstreamRule(root) ==
  /\ ErrorNodes(root) # {}
  /\ IncidentSubjects # {} => ErrorNodes(root) \cap IncidentSubjects # {}
  /\ \E r \in root : /\ r.kind \in {"SCHEMA", "PROFILE"}
                     /\ r.subject \in UpstreamRelations(ErrorNodes(root))

\* A source-schema cause cites the schema of the very relation it names.
SchemaRule(root) ==
  \E r \in root : r.kind = "SCHEMA" /\ r.subject \in UpstreamRelations(ErrorNodes(root))

\* validate_root_cause_evidence: the rules the claimed code selects.
RootSupported(code, root) ==
  /\ "UPSTREAM" \in Rules[code] => UpstreamRule(root)
  /\ "SCHEMA" \in Rules[code] => SchemaRule(root)
  /\ "DOMAIN" \in Rules[code] => DomainRule(code, root, records)

\* The citable evidence a root claim of this code may rest on.
RootCitations(code) == {root \in SUBSET Citable : RootSupported(code, root)}

\* Assets the binding rules accept, given the evidence their claims cite: upstream
\* of a failure only a model next to it counts.
SupportedAssets(root, cited) ==
  {asset \in Names : \E r \in cited :
     \/ r.kind = "EXPLAIN" /\ r.subject = asset
     \/ r.kind = "DOWNSTREAM" /\ asset \in r.nodes
     \/ r.kind = "UPSTREAM" /\ r.subject \in ErrorNodes(root) /\ asset \in r.near \cap Models}

Close(status, how) ==
  /\ finalStatus' = status
  /\ outcome' = how
  /\ revision' = revision + 1
  /\ UNCHANGED ledger

\* CONFIRMED: every hypothesis assessed (each on some citable record), the
\* selected one supported, another refuted, one root claim and asset claims.
Confirm(sel, judged, root, affected, cited) ==
  /\ finalStatus = "open"
  /\ Cardinality(hypotheses) >= 2
  /\ AllGapsClosed
  /\ Citable # {}
  /\ judged[sel.id] = "SUPPORTED"
  /\ \E id \in RegisteredIds \ {sel.id} : judged[id] = "REFUTED"
  /\ affected # {}
  /\ cited \subseteq Citable
  /\ root \in RootCitations(sel.code)
  /\ affected \subseteq SupportedAssets(root, cited)
  /\ assessments' = judged
  /\ selected' = sel.id
  /\ Close("CONFIRMED", [NoOutcome EXCEPT !.status = "CONFIRMED", !.root = sel.code,
                                          !.affected = affected,
                                          !.evidence = root \cup cited])

\* A clean run result, and per claimed relation a profile and a history in
\* which the claimed point is in range and on time (clean).
HealthSupported(relations, cited) ==
  /\ \E r \in records : r.kind = "LOCATE"
  /\ \A r \in records : r.kind = "LOCATE" => r.clean
  /\ \A rel \in relations :
       /\ \E r \in cited : r.kind = "PROFILE" /\ r.subject = rel
       /\ \E r \in cited : r.kind = "HISTORY" /\ r.subject = rel /\ r.clean

DeclareHealthy(relations, cited) ==
  /\ finalStatus = "open"
  /\ AllGapsClosed
  /\ relations # {}
  /\ cited \subseteq Citable
  /\ HealthSupported(relations, cited)
  /\ Close("NO_INCIDENT", [NoOutcome EXCEPT !.status = "NO_INCIDENT", !.evidence = cited])
  /\ UNCHANGED <<assessments, selected>>

BlockedGaps == {gaps[i] : i \in {j \in DOMAIN gaps : gaps[j].status = "BLOCKED"}}

\* Nodes accepted evidence names, those a run skipped included.
KnownSubjects ==
  FailedNodes \cup LineageNodes
  \cup UNION {r.skipped : r \in {s \in records : s.kind = "LOCATE"}}
  \cup {r.subject : r \in {s \in records : s.kind = "EXPLAIN"}}

\* A declared item must be witnessed: a relation by a gap blocked with that
\* very code, another fact by the incident or by the evidence.
Witnessed(item) ==
  CASE item.kind \in RelationKinds ->
         \E g \in BlockedGaps : g.call = [kind |-> item.kind, subject |-> item.subject]
                                /\ g.error = item.reason
    [] item.kind = "WATERMARK" ->
         item.reason = "NOT_OBSERVABLE" /\ item.subject \in IncidentSubjects
    [] item.kind = "DEFINITION" -> item.subject \in KnownSubjects

\* Variant: an awaited gap is reported as unobservable too.
DerivedUnresolvedMutant ==
  {[kind |-> gaps[i].call.kind, subject |-> gaps[i].call.subject,
    reason |-> "RELATION_NOT_ALLOWED"]
     : i \in {j \in DOMAIN gaps : gaps[j].status # "CLOSED" /\ gaps[j].call.kind \in RelationKinds}}

\* What an abstention says could not be observed, whether declared or not.
DerivedUnresolved ==
  {[kind |-> g.call.kind, subject |-> g.call.subject, reason |-> "RELATION_NOT_ALLOWED"]
     : g \in {b \in BlockedGaps : b.call.kind \in RelationKinds}}

\* UnresolvedEvidence refuses a blank subject, and it is built after the final
\* status has been assigned: finalize then raises with no outcome to return.
Abstained(declared) ==
  IF \E item \in DerivedUnresolved : item.subject \in BlankSubjects
  THEN NoOutcome
  ELSE [NoOutcome EXCEPT !.status = "INSUFFICIENT_EVIDENCE", !.evidence = records,
                         !.unresolved = DerivedUnresolved \cup declared]

Abstain(declared) ==
  /\ finalStatus = "open"
  /\ Cardinality(hypotheses) >= 2
  /\ (\E i \in DOMAIN gaps : gaps[i].status \in {"OPEN", "BLOCKED"}) \/ declared # {}
  /\ \A item \in declared : Witnessed(item)
  /\ Close("INSUFFICIENT_EVIDENCE", Abstained(declared))
  /\ UNCHANGED <<assessments, selected>>

TerminateModelError ==
  /\ finalStatus = "open"
  /\ Close("MODEL_ERROR", [NoOutcome EXCEPT !.status = "MODEL_ERROR"])
  /\ UNCHANGED <<assessments, selected>>

-----------------------------------------------------------------------------
Prepare ==
  \E call \in Calls, gap \in GapIds, refs \in References, new \in Declarations :
    PrepareTool(call, gap, refs, new)

Block ==
  \E call \in Calls, gap \in GapIds, refs \in References, new \in Declarations :
    BlockRelation(call, gap, refs, new)

\* Each of the six tools answers a call with one record.
Record == \E p \in prepared, r \in Records : RecordResult(p, {r})

Fail == \E p \in prepared, code \in ErrorCodes : RecordFailure(p, code)

FinalizeConfirmed ==
  /\ finalStatus = "open" /\ AllGapsClosed
  /\ \E sel \in hypotheses, judged \in [RegisteredIds -> Verdicts] :
       \E root \in RootCitations(sel.code), cited \in SUBSET Citable :
         \E affected \in SUBSET SupportedAssets(root, cited) :
           Confirm(sel, judged, root, affected, cited)

FinalizeHealthy ==
  /\ finalStatus = "open" /\ AllGapsClosed
  /\ \E relations \in SUBSET Subjects, cited \in SUBSET Citable :
       DeclareHealthy(relations, cited)

FinalizeInsufficient == \E declared \in SUBSET Declarable : Abstain(declared)

Next ==
  \/ Prepare
  \/ Block
  \/ Record
  \/ Fail
  \/ FinalizeConfirmed
  \/ FinalizeHealthy
  \/ FinalizeInsufficient
  \/ TerminateModelError

Spec == Init /\ [][Next]_vars

-----------------------------------------------------------------------------
(* What the kernel promises                                                *)

Gap == [id : GapIds, call : Calls, refs : References,
        status : {"OPEN", "CLOSED", "BLOCKED"},
        error : SafeToolErrors \cup {"none"}, evidence : SUBSET Records]

\* The type of every variable; an InvestigationState can be built from them.
TypeOK ==
  /\ hypotheses \subseteq Hypotheses
  /\ gaps \in Seq(Gap)
  /\ fingerprints \in Seq(Calls)
  /\ records \subseteq Records
  /\ prepared \subseteq [gap : GapIds, call : Calls]
  /\ revision \in Nat
  /\ finalStatus \in FinalStatuses \cup {"open"}
  /\ outcome.status \in FinalStatuses \cup {"none"}
  /\ outcome.evidence \subseteq Records

\* snapshot() never raises: the validators of InvestigationState hold in every
\* state.  The two lists of the ledger grow in step, so each attempt on the
\* budget is explained by exactly one gap, opened for that very call.
LedgerAligned ==
  /\ Len(fingerprints) <= ToolCallLimit
  /\ Len(gaps) = Len(fingerprints)
  /\ \A i \in DOMAIN gaps : gaps[i].call = fingerprints[i]
  /\ \A i, j \in DOMAIN gaps : gaps[i].id = gaps[j].id => i = j
  /\ \A i, j \in DOMAIN fingerprints : fingerprints[i] = fingerprints[j] => i = j
  /\ \A g, h \in hypotheses : g.id = h.id => g = h

\* An open gap and an awaited result are the same thing: no gap is left open
\* with nobody able to settle it, and no prepared call finds its gap settled.
OpenGapsAwaited ==
  /\ \A p \in prepared : \E i \in DOMAIN gaps : AwaitedBy(i, p) /\ gaps[i].call = p.call
  /\ \A i \in DOMAIN gaps :
       gaps[i].status = "OPEN" => [gap |-> gaps[i].id, call |-> gaps[i].call] \in prepared

\* Every accepted record was bought by exactly one closed gap, and a gap that
\* is not closed holds none: no evidence enters the inventory unaccounted for.
EvidenceAccounted ==
  /\ \A r \in records : \E i \in DOMAIN gaps :
       /\ gaps[i].status = "CLOSED"
       /\ r \in gaps[i].evidence
       /\ \A j \in DOMAIN gaps : r \in gaps[j].evidence => j = i
  /\ \A i \in DOMAIN gaps : /\ gaps[i].evidence \subseteq records
                            /\ (gaps[i].evidence # {}) <=> (gaps[i].status = "CLOSED")

\* A diagnosis confirmed under the general rule is traced: it cites the error of
\* a node which a run result, located by an earlier attempt, names as failed.
ConfirmedIsTraced ==
  (outcome.status = "CONFIRMED" /\ "UPSTREAM" \in Rules[outcome.root]) =>
    \E i, j \in DOMAIN gaps :
      /\ i < j
      /\ gaps[i].call.kind = "LOCATE"
      /\ gaps[j].call.kind = "EXPLAIN"
      /\ gaps[j].evidence \cap outcome.evidence # {}
      /\ \E r \in gaps[i].evidence : gaps[j].call.subject \in r.nodes

\* A run declared healthy shows nothing wrong anywhere in its ledger: the run
\* result was asked for and is clean, a profile and a history of one relation were
\* obtained, and no other query the run made was refused, failed or left open.
HealthyRunIsClean ==
  outcome.status = "NO_INCIDENT" =>
    /\ \E i \in DOMAIN gaps : gaps[i].call.kind = "LOCATE"
    /\ \A r \in records : r.kind = "LOCATE" => r.clean
    /\ \A i \in DOMAIN gaps : gaps[i].status = "CLOSED"
    /\ \E i, j \in DOMAIN gaps : /\ gaps[i].call.kind = "PROFILE"
                                 /\ gaps[j].call.kind = "HISTORY"
                                 /\ gaps[i].call.subject = gaps[j].call.subject

\* A positive verdict is final for the whole ledger: although results may be
\* recorded after finalize, none can arrive once a diagnosis was confirmed or
\* the run declared healthy, so what the verdict was based on never changes.
PositiveVerdictFrozen ==
  [][finalStatus \notin {"CONFIRMED", "NO_INCIDENT"}]_vars

RelationItems(items) ==
  {[kind |-> u.kind, subject |-> u.subject] : u \in {v \in items : v.kind \in RelationKinds}}

BlockedRelations == {g.call : g \in {b \in BlockedGaps : b.call.kind \in RelationKinds}}

\* An abstention tells exactly which relations stayed dark: every relation the
\* ledger has blocked when the outcome is issued, and never one that is still
\* awaited and may yet be answered.
UnresolvedIsBlocked ==
  [][outcome'.status = "INSUFFICIENT_EVIDENCE" =>
       /\ RelationItems(outcome'.unresolved) \subseteq BlockedRelations'
       /\ outcome # outcome' => RelationItems(outcome'.unresolved) = BlockedRelations']_vars

\* The calls of the gaps in a given state.
CallsOf(status) == {gaps[i].call : i \in {j \in DOMAIN gaps : gaps[j].status = status}}

Contract == INSTANCE InvestigationContract
              WITH pending  <- CallsOf("OPEN"),
                   answered <- CallsOf("CLOSED"),
                   refused  <- CallsOf("BLOCKED"),
                   decided  <- finalStatus

\* Whatever the model and the tools do, a run stays within its budget, tries no
\* call twice, settles a call once, and reaches at most one verdict, positive
\* only over a ledger in which every attempt was answered.
ImplementsContract == Contract!Spec

=============================================================================
