-------------------------- MODULE BuiltinStrategies --------------------------
(***************************************************************************)
(* The two deterministic strategies - the fixed rule (fixed_rule.py) and   *)
(* the reference analyst that extends it (reference_solver.py) - and the   *)
(* certification of a scenario by the analyst's run                        *)
(* (scenario_certification.py).                                            *)
(*                                                                         *)
(* A procedure is stated by the calls it wants, given the records it has,  *)
(* and by the answer it gives once all of them are made.  It makes the     *)
(* first wanted call it has not made, so what follows that call in the     *)
(* sequence is not looked at yet, and a call that brought no record has    *)
(* failed when anything after it is.                                       *)
(***************************************************************************)
EXTENDS Scoring

CONSTANTS
  NameOf,         \* [seed nodes -> the relation each one loads]
  StagedFrom      \* [staging models -> the relation each one reads]

FIXED_RULE_TOOL_LIMIT == 8

Relations == <<"raw_customers", "raw_orders", "raw_payments">>

\* Types the fixed rule and the analyst take for text.
FixedTextTypes == {"text", "character varying"}
StringTypes    == FixedTextTypes \cup {"character", "varchar", "string"}

KeyColumns == {"id", "user_id", "order_id", "customer_id"}

\* Grants are listed in some order.  Every payment and volume alert names the
\* relations the procedure for it looks for, and a broken node has a source above
\* it.
ASSUME BuiltinAssumption ==
  \A c \in Cases :
    LET named == c.subjects \cup UNION {c.observable[t] : t \in LiveTools}
    IN /\ \A t \in LiveTools \cup BatchTools : c.observable[t] = ToSet(c.listed[t])
       /\ c.signal \in {"PAYMENT_DUPLICATE_ALERT", "PAYMENT_ORPHAN_ALERT",
                                  "PAYMENT_VOLUME_ALERT"} =>
            "raw_payments" \in named /\ "seed_payments" \in c.subjects
       /\ c.signal \in {"PAYMENT_ORPHAN_ALERT", "PAYMENT_VOLUME_ALERT",
                                  "ORDER_VOLUME_ALERT"} => "raw_orders" \in named
       /\ c.direct # "none" =>
            \E i \in DOMAIN Upstream[c.direct] :
              Upstream[c.direct][i].type = "seed"

-----------------------------------------------------------------------------
(* Calls and answers                                                       *)

Read(kind, of) == [kind |-> kind, targets |-> <<of>>]

ReadEach(kind, relations) == [i \in DOMAIN relations |-> Read(kind, relations[i])]

Keys(call) == {[kind |-> call.kind, of |-> target] : target \in ToSet(call.targets)}

\* Calls made, a batch counted once.
CallsMade(asked) ==
  Cardinality({k \in asked : k.kind \notin BatchTools})
    + Cardinality({k.kind : k \in {x \in asked : x.kind \in BatchTools}})

\* What the records of a run show of a relation.
View(records, kind, of) == CHOOSE shown \in Shown(records, kind, of) : TRUE

TextIn(columns, names, types) == {x \in DOMAIN columns \cap names : columns[x] \in types}

Held(records) == {Key(r) : r \in records}

Answer(status, claims, gaps, cites) ==
  [status |-> status, claims |-> claims, gaps |-> gaps, cites |-> cites]

Abstain(gaps, records) == Answer("INSUFFICIENT_EVIDENCE", {}, gaps, Held(records))

\* The cause cites everything, each asset the record that shows it.
Confirm(cause, assets, records) ==
  IF assets = {}
  THEN Abstain({<<"TRANSFORMATION_DEFINITION", "affected assets", "NOT_OBSERVABLE">>}, records)
  ELSE Answer("CONFIRMED",
              {[kind |-> "ROOT_CAUSE", value |-> cause, cites |-> Held(records)]}
                \cup {[kind |-> "AFFECTED_ASSET", value |-> x.asset, cites |-> {x.by}] : x \in assets},
              {}, Held(records))

\* Models named by the downstream lineage of a node.
Below(records, node) ==
  IF Has(records, "LINEAGE_DOWN", node)
  THEN {[asset |-> m, by |-> [kind |-> "LINEAGE_DOWN", of |-> node]] : m \in Downstream[node]}
  ELSE {}

Hidden(kind, of)  == <<kind, of, "RELATION_NOT_ALLOWED">>
Unseen(kind, of)  == <<kind, of, "NOT_OBSERVABLE">>

-----------------------------------------------------------------------------
(* A broken node: what its message and lineage point to                    *)

Direct(c) == c.direct

Above(c, type) == SelectSeq(Upstream[Direct(c)], LAMBDA n : n.type = type)

\* Upstream sources, nearest first, then by name.
Sources(c) == [i \in DOMAIN Above(c, "seed") |-> NameOf[Above(c, "seed")[i].node]]

\* The first source the words of the failure hint at.
SourceRelation(c) ==
  IF "order" \in c.mentions /\ "raw_orders" \in ToSet(Sources(c)) THEN "raw_orders"
  ELSE IF "payment" \in c.mentions /\ "raw_payments" \in ToSet(Sources(c)) THEN "raw_payments"
  ELSE Head(Sources(c))

Tested(c) == c.isTest

AffectedModel(c) == IF Tested(c) THEN Head(Above(c, "model")).node ELSE Direct(c)

\* The first node of a lineage, if it has one.
NearestOr(lineage, other) == IF lineage = <<>> THEN other ELSE Head(lineage).node

\* The nearest staging model, else the nearest model, else the affected one.
FirstStaging(c) ==
  NearestOr(SelectSeq(Above(c, "model"), LAMBDA n : n.node \in DOMAIN StagedFrom),
            NearestOr(Above(c, "model"), AffectedModel(c)))

\* The staging model named after a relation, else the nearest.
StagingOf(c, relation) ==
  NearestOr(SelectSeq(Above(c, "model"),
                      LAMBDA n : n.node \in DOMAIN StagedFrom /\ StagedFrom[n.node] = relation),
            FirstStaging(c))

\* The affected model, shown by a record of the failed node.
AffectedBy(c, kind) == {[asset |-> AffectedModel(c), by |-> [kind |-> kind, of |-> Direct(c)]]}

\* Relations in turn, until a profile of one is read.
UntilProfiled(relations, records) ==
  SelectSeq(relations, LAMBDA r :
    \A q \in ToSet(relations) : Has(records, "PROFILE", q) => q = r)

\* Profiles of relations other than the source.
OtherProfiles(c, source, records) ==
  ReadEach("PROFILE",
        UntilProfiled(SelectSeq(c.listed.PROFILE, LAMBDA r : r # source), records))

-----------------------------------------------------------------------------
(* The fixed rule on a broken run                                          *)

\* What is read of the source the lineage names.
FixedReads(c, source, records) ==
  <<Read("SCHEMA", source)>>
  \o CASE Tested(c) /\ Has(records, "PROFILE", source) -> <<Read("PROFILE", source)>>
       [] Tested(c) /\ ~Has(records, "PROFILE", source) ->
            <<Read("PROFILE", source)>> \o OtherProfiles(c, source, records)
       [] ~Tested(c) /\ ~Has(records, "SCHEMA", source) ->
            <<Read("PROFILE", source), Read("HISTORY", source)>>
       [] OTHER -> <<>>

FixedFailedCalls(c, records) ==
  <<Read("ERROR", Direct(c))>>
  \o (IF Has(records, "ERROR", Direct(c)) THEN <<Read("LINEAGE_UP", Direct(c))>> ELSE <<>>)
  \o (IF Has(records, "LINEAGE_UP", Direct(c))
      THEN FixedReads(c, SourceRelation(c), records) ELSE <<>>)

FixedSourceAnswer(c, source, subject, records) ==
  LET profiled == Has(records, "PROFILE", source)
      nulls    == DOMAIN View(records, "PROFILE", source).nulls
      listed   == Has(records, "SCHEMA", source)
      retyped  == TextIn(View(records, "SCHEMA", source), {"user_id", "customer_id"}, FixedTextTypes)
  IN CASE Tested(c) /\ ~profiled ->
            Abstain({Hidden("RELATION_DATA_PROFILE", source), subject}, records)
       [] Tested(c) /\ profiled /\ nulls = {} -> Abstain({subject}, records)
       [] Tested(c) /\ profiled /\ nulls # {} ->
            Confirm("SOURCE_REQUIRED_FIELD_NULL", AffectedBy(c, "LINEAGE_UP"), records)
       [] ~Tested(c) /\ ~listed -> Abstain({Hidden("RELATION_SCHEMA", source), subject}, records)
       [] ~Tested(c) /\ listed /\ retyped = {} -> Abstain({subject}, records)
       [] OTHER -> Confirm("SOURCE_SCHEMA_COLUMN_TYPE_CHANGED", AffectedBy(c, "ERROR"), records)

FixedFailedAnswer(c, records) ==
  IF Has(records, "ERROR", Direct(c)) /\ Has(records, "LINEAGE_UP", Direct(c))
  THEN FixedSourceAnswer(c, SourceRelation(c),
                         Unseen("TRANSFORMATION_DEFINITION", FirstStaging(c)), records)
  ELSE Abstain({Unseen("TRANSFORMATION_DEFINITION", Direct(c))}, records)

-----------------------------------------------------------------------------
(* Both strategies on a run that succeeded: one procedure per alert        *)

AlertCalls(c) ==
  LET lineage == Read("LINEAGE_DOWN", "seed_payments")
      schema  == Read("SCHEMA", "raw_payments")
      profile == [r \in ToSet(Relations) |-> Read("PROFILE", r)]
      history == [r \in ToSet(Relations) |-> Read("HISTORY", r)]
  IN CASE c.signal = "ORDER_VOLUME_ALERT" -> <<profile["raw_orders"], history["raw_orders"]>>
       [] c.signal = "PAYMENT_DUPLICATE_ALERT" -> <<lineage, schema, profile["raw_payments"]>>
       [] c.signal = "PAYMENT_ORPHAN_ALERT" ->
            <<lineage, schema, profile["raw_payments"], history["raw_orders"]>>
       [] c.signal = "PAYMENT_VOLUME_ALERT" ->
            <<lineage, profile["raw_payments"], profile["raw_orders"],
              history["raw_payments"], history["raw_orders"]>>
       [] OTHER -> <<>>

DuplicateAnswer(c, records) ==
  LET p        == View(records, "PROFILE", "raw_payments")
      identity == Unseen("PAYMENT_EVENT_IDENTITY", "raw_payments")
  IN CASE ~Has(records, "PROFILE", "raw_payments") ->
            Abstain({Hidden("RELATION_DATA_PROFILE", "raw_payments"), identity}, records)
       [] /\ Has(records, "PROFILE", "raw_payments")
          /\ \/ ~Has(records, "LINEAGE_DOWN", "seed_payments")
             \/ ~Has(records, "SCHEMA", "raw_payments")
             \/ p.channels["coupon"] = 0
             \/ p.duplicateKeys = 0 /\ p.duplicatePrints = 0 -> Abstain({identity}, records)
       [] OTHER -> Confirm(IF p.duplicateKeys > 0 THEN "SOURCE_EXACT_PAYMENT_DUPLICATE"
                           ELSE "SOURCE_SEMANTIC_PAYMENT_DUPLICATE",
                           Below(records, "seed_payments"), records)

OrphanAnswer(c, records) ==
  LET watermark == Unseen("INGESTION_WATERMARK", "raw_orders")
  IN CASE ~Has(records, "HISTORY", "raw_orders") ->
            Abstain({Hidden("RELATION_HISTORY", "raw_orders"), watermark}, records)
       [] /\ Has(records, "HISTORY", "raw_orders")
          /\ \/ ~Has(records, "PROFILE", "raw_payments")
             \/ ~Has(records, "LINEAGE_DOWN", "seed_payments")
             \/ ~Has(records, "SCHEMA", "raw_payments")
             \/ View(records, "PROFILE", "raw_payments").violations = 0
             \/ View(records, "HISTORY", "raw_orders").watermark < c.bucket ->
            Abstain({watermark}, records)
       [] OTHER -> Confirm("SOURCE_PERMANENT_ORPHAN_PAYMENT", Below(records, "seed_payments"), records)

\* The published counts explain both profiles and both histories.
LossExplained(c, records) ==
  LET payments == View(records, "PROFILE", "raw_payments")
      orders   == View(records, "PROFILE", "raw_orders")
      paid     == View(records, "HISTORY", "raw_payments")
  IN /\ c.current < c.expected
     /\ payments.rows = c.total
     /\ orders.violations = c.expected - c.current
     /\ c.bucket \in DOMAIN paid.counts
     /\ paid.counts[c.bucket] = c.current
     /\ View(records, "HISTORY", "raw_orders").watermark >= c.bucket

LossAnswer(c, records) ==
  LET blind == {r \in {"raw_payments", "raw_orders"} : ~Has(records, "HISTORY", r)}
  IN CASE blind # {} ->
            Abstain({Hidden("RELATION_HISTORY", r) : r \in blind}
                      \cup {Unseen("INGESTION_WATERMARK", "raw_orders")}, records)
       [] /\ blind = {}
          /\ \/ ~Has(records, "LINEAGE_DOWN", "seed_payments")
             \/ \E r \in {"raw_payments", "raw_orders"} : ~Has(records, "PROFILE", r)
             \/ ~LossExplained(c, records) ->
            Abstain({Unseen("PAYMENT_EVENT_IDENTITY", "raw_payments")}, records)
       [] OTHER -> Confirm("SOURCE_PAYMENT_INGESTION_LOSS", Below(records, "seed_payments"), records)

HealthAnswer(c, records) ==
  LET h    == View(records, "HISTORY", "raw_orders")
      day  == c.bucket
      lag  == c.observed - 24 * h.watermark
      late == \/ day > h.watermark
              \/ day = h.watermark /\ lag \notin 0 .. h.sla
      odd  == \/ day \notin DOMAIN h.counts \/ h.counts[day] # c.current
              \/ day < h.watermark /\ ~WithinSeenRange(h.counts, day)
      profiled == Has(records, "PROFILE", "raw_orders")
      dated    == Has(records, "HISTORY", "raw_orders")
  IN CASE ~profiled -> Abstain({Hidden("RELATION_DATA_PROFILE", "raw_orders")}, records)
       [] profiled /\ ~dated -> Abstain({Hidden("RELATION_HISTORY", "raw_orders")}, records)
       [] profiled /\ dated /\ odd -> Abstain({Unseen("RELATION_HISTORY", "raw_orders")}, records)
       [] profiled /\ dated /\ ~odd /\ late ->
            Abstain({Unseen("INGESTION_WATERMARK", "raw_orders")}, records)
       [] OTHER ->
            Answer("NO_INCIDENT",
                   {[kind |-> "HEALTH_STATE", cites |-> Held(records),
                     value |-> [day |-> day, value |-> c.current]]},
                   {}, Held(records))

AlertAnswer(c, records) ==
  CASE c.signal = "ORDER_VOLUME_ALERT"      -> HealthAnswer(c, records)
    [] c.signal = "PAYMENT_DUPLICATE_ALERT" -> DuplicateAnswer(c, records)
    [] c.signal = "PAYMENT_ORPHAN_ALERT"    -> OrphanAnswer(c, records)
    [] c.signal = "PAYMENT_VOLUME_ALERT"    -> LossAnswer(c, records)
    [] OTHER -> Abstain({Unseen("TRANSFORMATION_DEFINITION", "alert signal")}, records)

-----------------------------------------------------------------------------
(* The reference analyst on a failing test                                 *)

TestCalls(c, source, records) ==
  <<Read("PROFILE", source)>>
  \o (IF Has(records, "PROFILE", source) THEN <<>> ELSE OtherProfiles(c, source, records))
  \o <<Read("SCHEMA", source)>>

StagingSubject(c, relation) == Unseen("TRANSFORMATION_DEFINITION", StagingOf(c, relation))

\* What the profile of the source, if there is one, shows.
TestAnswer(c, source, records) ==
  LET profiled == Has(records, "PROFILE", source)
      p        == View(records, "PROFILE", source)
  IN CASE ~profiled ->
            Abstain({Hidden("RELATION_DATA_PROFILE", source), StagingSubject(c, source)}, records)
       [] profiled /\ DOMAIN p.nulls # {} ->
            Confirm("SOURCE_REQUIRED_FIELD_NULL", AffectedBy(c, "LINEAGE_UP"), records)
       [] profiled /\ DOMAIN p.nulls = {} /\ p.duplicateKeys > 0 ->
            Confirm("SOURCE_EXACT_PAYMENT_DUPLICATE", AffectedBy(c, "LINEAGE_UP"), records)
       [] /\ profiled /\ DOMAIN p.nulls = {}
          /\ p.duplicateKeys = 0 /\ p.duplicatePrints > 0 ->
            Confirm("SOURCE_SEMANTIC_PAYMENT_DUPLICATE", AffectedBy(c, "LINEAGE_UP"), records)
       [] OTHER -> Abstain({StagingSubject(c, source)}, records)

-----------------------------------------------------------------------------
(* The reference analyst on a failing model                                *)

\* The failed model, and every model its downstream lineage names.
FailedModelAssets(c, records) ==
  {[asset |-> Direct(c), by |-> [kind |-> "ERROR", of |-> Direct(c)]]} \cup Below(records, Direct(c))

\* The sources are read in turn, until one is refused or lacks the column the
\* message misses.
StopsAt(c, records) ==
  {i \in DOMAIN Sources(c) :
     \/ ~Has(records, "SCHEMA", Sources(c)[i])
     \/ /\ c.missing # "none"
        /\ c.missing \notin DOMAIN View(records, "SCHEMA", Sources(c)[i])}

\* Text columns of the sources that pass a test.
TextColumns(c, records, names) ==
  UNION {{<<r, x>> : x \in TextIn(View(records, "SCHEMA", r), names, StringTypes)} :
         r \in ToSet(Sources(c))}

\* One text column the message names, else one source with text keys.
NamedInMessage(c, records) ==
  Cardinality({x[2] : x \in TextColumns(c, records, c.tokens)}) = 1

OneTextKeySource(c, records) ==
  Cardinality({x[1] : x \in TextColumns(c, records, KeyColumns)}) = 1

\* All schemas read, a type mismatch, and neither test passes: the decision is
\* read before it is assigned.
Unbound(c, records) ==
  /\ ~c.v2 /\ ~Tested(c) /\ Has(records, "LINEAGE_UP", Direct(c))
  /\ c.mismatch
  /\ StopsAt(c, records) = {}
  /\ ~NamedInMessage(c, records) /\ ~OneTextKeySource(c, records)

\* What follows the schemas read, of which the last may be where reading stops.
BuildReads(c, read, stopped, records) ==
  ReadEach("SCHEMA", read)
  \o CASE ~Has(records, "SCHEMA", Last(read)) ->
            <<Read("PROFILE", Last(read)), Read("HISTORY", Last(read))>>
       [] Has(records, "SCHEMA", Last(read)) /\ (stopped \/ c.mismatch) ->
            <<Read("LINEAGE_DOWN", Direct(c))>>
       [] OTHER -> <<>>

BuildCalls(c, stops, records) ==
  BuildReads(c, IF stops = {} THEN Sources(c) ELSE SubSeq(Sources(c), 1, Min(stops)),
             stops # {}, records)

StoppedAnswer(c, stopped, records) ==
  IF Has(records, "SCHEMA", stopped)
  THEN Confirm("SOURCE_SCHEMA_COLUMN_RENAMED", FailedModelAssets(c, records), records)
  ELSE Abstain({Hidden("RELATION_SCHEMA", stopped), StagingSubject(c, stopped)}, records)

BuildAnswer(c, stops, records) ==
  CASE stops # {} -> StoppedAnswer(c, Sources(c)[Min(stops)], records)
    [] stops = {} /\ ~c.mismatch -> Abstain({StagingSubject(c, SourceRelation(c))}, records)
    [] OTHER -> Confirm("SOURCE_SCHEMA_COLUMN_TYPE_CHANGED", FailedModelAssets(c, records), records)

-----------------------------------------------------------------------------
(* The reference analyst on a failing model, with the wider set of tools   *)

\* What one list names, in its order, of what another set holds.
Within(list, set) == SelectSeq(list, LAMBDA x : x \in set)

\* A list of the contract, or another when the contract lists nothing.
ListedOr(list, other) == IF list = <<>> THEN other ELSE list

\* Variant: where nothing is granted nothing is asked, and no refusal is had.
ExpectationTargetsOfGranted(c) ==
  Within(c.listed.EXPECTATION, c.observable.SCHEMA \cap ToSet(Sources(c)))

\* Batches are asked for what is granted, in the order of the contract, or for
\* everything when nothing is: the refusal is then the receipt.
ExpectationTargets(c) ==
  Within(ListedOr(c.listed.EXPECTATION, c.listed.SCHEMA), c.observable.SCHEMA \cap ToSet(Sources(c)))

DefinitionTargets(c) ==
  LET candidates == <<Direct(c)>> \o [i \in DOMAIN Above(c, "model") |-> Above(c, "model")[i].node]
  IN Within(ListedOr(c.listed.DEFINITION, candidates), ToSet(candidates))

Got(records, kind, targets) == \A t \in ToSet(targets) : Has(records, kind, t)

\* The two sides of the failing expression, when the definitions that lead to
\* their sources are at hand.
Origins(c) ==
  IF \A o \in c.origins :
       \E n \in ToSet(DefinitionTargets(c)) \cap DOMAIN StagedFrom : StagedFrom[n] = o[1]
  THEN c.origins ELSE {}

OffBaseline(columns, expected) ==
  {x \in DOMAIN expected \cap DOMAIN columns : columns[x] # expected[x]}

\* Columns of the relations behind the expression whose type is not the
\* baseline's.
Deviations(c, records) ==
  UNION {{<<r, x>> : x \in OffBaseline(View(records, "SCHEMA", r), Expectations[r])} :
         r \in {o[1] : o \in Origins(c)}}

Isolated(c, records) ==
  /\ Cardinality(Origins(c)) = 2
  /\ {o[1] : o \in Origins(c)} \subseteq ToSet(ExpectationTargets(c))
  /\ Cardinality(Deviations(c, records)) = 1
  /\ Deviations(c, records) \subseteq Origins(c)

\* Relations in turn, until the schema of one is refused.
UntilRefused(relations, records) ==
  [i \in {k \in DOMAIN relations : \A j \in 1 .. k - 1 : Has(records, "SCHEMA", relations[j])} |->
     relations[i]]

WideReads(c, schemas, nodes, records) ==
  ReadEach("SCHEMA", UntilRefused(schemas, records))
  \o (IF Got(records, "SCHEMA", schemas)
      THEN <<[kind |-> "EXPECTATION", targets |-> schemas], [kind |-> "DEFINITION", targets |-> nodes]>>
      ELSE <<>>)
  \o (IF /\ Got(records, "SCHEMA", schemas) /\ Got(records, "EXPECTATION", schemas)
         /\ Got(records, "DEFINITION", nodes) /\ Isolated(c, records)
      THEN <<Read("LINEAGE_DOWN", Direct(c))>> ELSE <<>>)

WideCalls(c, records) ==
  (IF c.mismatch THEN <<Read("LINEAGE_UP", Direct(c))>> ELSE <<>>)
  \o (IF /\ Has(records, "LINEAGE_UP", Direct(c))
         /\ ExpectationTargets(c) # <<>> /\ DefinitionTargets(c) # <<>>
      THEN WideReads(c, ExpectationTargets(c), DefinitionTargets(c), records) ELSE <<>>)

\* A refused batch is named by its first refused target; one that failed
\* otherwise, by the first it asked for.
BatchGap(gap, kind, targets, events) ==
  LET refused == SelectSeq(events, LAMBDA e :
                   e.tool = kind /\ e.code \in {"RELATION_NOT_ALLOWED", "NODE_NOT_ALLOWED"})
  IN IF refused # <<>> THEN <<gap, Head(refused).target, Head(refused).code>>
     ELSE Unseen(gap, Head(targets))

\* What the two batches left open.
WideGaps(schemas, nodes, records, events) ==
  (IF Got(records, "EXPECTATION", schemas) THEN {}
   ELSE {BatchGap("RELATION_SCHEMA_EXPECTATION", "EXPECTATION", schemas, events)})
  \cup (IF Got(records, "DEFINITION", nodes) THEN {}
        ELSE {BatchGap("DBT_NODE_DEFINITION", "DEFINITION", nodes, events)})

WideConclusion(c, schemas, nodes, gaps, records) ==
  LET subject == Unseen("TRANSFORMATION_DEFINITION", Direct(c))
      ready   == /\ c.mismatch /\ Has(records, "LINEAGE_UP", Direct(c))
                 /\ schemas # <<>> /\ nodes # <<>>
      listed  == Got(records, "SCHEMA", schemas)
  IN CASE ~ready -> Abstain({subject}, records)
       [] ready /\ ~listed ->
            Abstain({Hidden("RELATION_SCHEMA",
                            Head(SelectSeq(schemas, LAMBDA r : ~Has(records, "SCHEMA", r)))),
                     subject}, records)
       [] ready /\ listed /\ Cardinality(gaps) = 2 -> Abstain(gaps, records)
       [] ready /\ listed /\ Cardinality(gaps) = 1 -> Abstain(gaps \cup {subject}, records)
       [] ready /\ listed /\ gaps = {} /\ ~Isolated(c, records) ->
            Abstain({subject}, records)
       [] OTHER -> Confirm("SOURCE_SCHEMA_COLUMN_TYPE_CHANGED", FailedModelAssets(c, records), records)

WideAnswer(c, records, events) ==
  WideConclusion(c, ExpectationTargets(c), DefinitionTargets(c),
                 WideGaps(ExpectationTargets(c), DefinitionTargets(c), records, events), records)

-----------------------------------------------------------------------------
(* Either strategy                                                         *)

\* What follows the lineage of the failed node.
AnalystLineageCalls(c, records) ==
  <<Read("LINEAGE_UP", Direct(c))>>
  \o CASE ~Has(records, "LINEAGE_UP", Direct(c)) -> <<>>
       [] Has(records, "LINEAGE_UP", Direct(c)) /\ Tested(c) ->
            TestCalls(c, SourceRelation(c), records)
       [] OTHER -> BuildCalls(c, StopsAt(c, records), records)

AnalystFailedCalls(c, records) ==
  <<Read("ERROR", Direct(c))>>
  \o CASE ~Has(records, "ERROR", Direct(c)) -> <<>>
       [] Has(records, "ERROR", Direct(c)) /\ c.v2 /\ ~Tested(c) -> WideCalls(c, records)
       [] OTHER -> AnalystLineageCalls(c, records)

AnalystFailedAnswer(c, records, events) ==
  LET wide == c.v2 /\ ~Tested(c)
      told == Has(records, "ERROR", Direct(c))
      led  == Has(records, "LINEAGE_UP", Direct(c))
  IN CASE ~told \/ (~wide /\ ~led) ->
            Abstain({Unseen("TRANSFORMATION_DEFINITION", Direct(c))}, records)
       [] told /\ wide -> WideAnswer(c, records, events)
       [] told /\ ~wide /\ led /\ Tested(c) -> TestAnswer(c, SourceRelation(c), records)
       [] OTHER -> BuildAnswer(c, StopsAt(c, records), records)

Wanted(strategy, c, records) ==
  <<Read("RUN", "run")>>
  \o CASE ~Has(records, "RUN", "run") -> <<>>
       [] Has(records, "RUN", "run") /\ Direct(c) = "none" -> AlertCalls(c)
       [] Has(records, "RUN", "run") /\ Direct(c) # "none" /\ strategy = "FIXED_RULE" ->
            FixedFailedCalls(c, records)
       [] OTHER -> AnalystFailedCalls(c, records)

Unmade(strategy, c, records, asked) ==
  SelectSeq(Wanted(strategy, c, records), LAMBDA call : ~(Keys(call) \subseteq asked))

Conclusion(strategy, c, records, events) ==
  CASE ~Has(records, "RUN", "run") ->
         Abstain({Unseen("TRANSFORMATION_DEFINITION", "run results")}, records)
    [] Has(records, "RUN", "run") /\ Direct(c) = "none" -> AlertAnswer(c, records)
    [] Has(records, "RUN", "run") /\ Direct(c) # "none" /\ strategy = "FIXED_RULE" ->
         FixedFailedAnswer(c, records)
    [] OTHER -> AnalystFailedAnswer(c, records, events)

-----------------------------------------------------------------------------
(* What the catalogue promises the procedures                              *)

\* What a live tool reads of a relation while nobody has touched the database.
Sealed(c, kind, of) == Shows[c.database][kind][of]

Accepts(c, cause) == c.status = "CONFIRMED" /\ cause \in c.causes

\* An alert on a run that succeeded means what it says wherever its decisive tool
\* may be read; the order volume never means an incident.
ASSUME AlertAssumption ==
  \A c \in {x \in Cases : x.direct = "none"} :
    /\ c.signal = "PAYMENT_DUPLICATE_ALERT" /\ "raw_payments" \in c.observable.PROFILE =>
         Accepts(c, IF Sealed(c, "PROFILE", "raw_payments").duplicateKeys > 0
                    THEN "SOURCE_EXACT_PAYMENT_DUPLICATE"
                    ELSE "SOURCE_SEMANTIC_PAYMENT_DUPLICATE")
    /\ c.signal = "PAYMENT_ORPHAN_ALERT" /\ "raw_orders" \in c.observable.HISTORY =>
         Accepts(c, "SOURCE_PERMANENT_ORPHAN_PAYMENT")
    /\ c.signal = "PAYMENT_VOLUME_ALERT"
         /\ {"raw_payments", "raw_orders"} \subseteq c.observable.HISTORY =>
         Accepts(c, "SOURCE_PAYMENT_INGESTION_LOSS")
    /\ c.signal # "ORDER_VOLUME_ALERT" => c.fault.relation = "raw_payments"
    /\ c.signal = "ORDER_VOLUME_ALERT" =>
         /\ c.status = "NO_INCIDENT"
         /\ c.bucket \in Nat /\ Sealed(c, "HISTORY", "raw_orders").watermark \in Nat

\* A failing test stands right below its model, and the source it points to, when
\* it may be profiled, is the one with the fault.
ASSUME FailedTestAssumption ==
  \A c \in {x \in Cases : x.direct # "none" /\ x.isTest} :
    LET source == SourceRelation(c)
        p      == Sealed(c, "PROFILE", source)
        cause  == IF DOMAIN p.nulls # {} THEN "SOURCE_REQUIRED_FIELD_NULL"
                  ELSE IF p.duplicateKeys > 0 THEN "SOURCE_EXACT_PAYMENT_DUPLICATE"
                  ELSE "SOURCE_SEMANTIC_PAYMENT_DUPLICATE"
    IN /\ \E i \in DOMAIN Upstream[c.direct] :
            Upstream[c.direct][i] = [node |-> AffectedModel(c), type |-> "model", distance |-> 1]
       /\ source \in c.observable.PROFILE => source = c.fault.relation /\ Accepts(c, cause)

\* A column missing from a readable source of a failing model was renamed there; a
\* mismatch whose sources may all be read is a retyped column, and one of the two
\* tests finds it.  Where the words of the failure point to a source with text
\* keys, that source was retyped; expectations are granted only where they decide.
ASSUME FailedModelAssumption ==
  \A c \in {x \in Cases : x.direct # "none" /\ ~x.isTest} :
    LET sources == ToSet(Sources(c))
        Text(names) ==
          UNION {{<<r, x>> : x \in TextIn(Sealed(c, "SCHEMA", r), names, StringTypes)} : r \in sources}
    IN /\ Sources(c) \in Seq(ToSet(Relations))
       /\ \A r \in sources \cap c.observable.SCHEMA :
            c.missing # "none" /\ c.missing \notin DOMAIN Sealed(c, "SCHEMA", r) =>
              r = c.fault.relation /\ Accepts(c, "SOURCE_SCHEMA_COLUMN_RENAMED")
       /\ c.mismatch /\ ~c.v2 /\ sources \subseteq c.observable.SCHEMA =>
            /\ c.fault.relation \in sources /\ Accepts(c, "SOURCE_SCHEMA_COLUMN_TYPE_CHANGED")
            /\ \/ Cardinality({x[2] : x \in Text(c.tokens)}) = 1
               \/ Cardinality({x[1] : x \in Text(KeyColumns)}) = 1
       /\ SourceRelation(c) \in c.observable.SCHEMA
            /\ TextIn(Sealed(c, "SCHEMA", SourceRelation(c)), {"user_id", "customer_id"},
                      FixedTextTypes) # {} =>
            /\ SourceRelation(c) = c.fault.relation
            /\ "SOURCE_SCHEMA_COLUMN_TYPE_CHANGED" \in c.causes
       /\ c.mismatch /\ c.v2 /\ c.observable.EXPECTATION # {} =>
            /\ c.fault.relation \in {o[1] : o \in c.origins}
            /\ Accepts(c, "SOURCE_SCHEMA_COLUMN_TYPE_CHANGED")

-----------------------------------------------------------------------------
(* Certification of a scenario by the analyst's run                        *)

UnexpectedErrors(events) ==
  {events[i].code : i \in DOMAIN events}
    \ {"RELATION_NOT_ALLOWED", "NODE_NOT_ALLOWED"}

\* What the contract demands of the answer and of the records behind it.
ContractMet(c, a, records, events) ==
  LET causes == {claim.value : claim \in OfKind(a, "ROOT_CAUSE")}
      assets == {claim.value : claim \in OfKind(a, "AFFECTED_ASSET")}
  IN /\ a.status = c.status
     /\ c.status = "CONFIRMED" =>
          causes \cap c.causes # {} /\ assets = c.assets
     /\ c.status = "INSUFFICIENT_EVIDENCE" =>
          /\ a.gaps = {g.gap : g \in c.gaps}
          /\ \A gap \in a.gaps : Receipted(c, gap, events)
     /\ c.required \subseteq EvidenceTypes(records)
     /\ c.required \subseteq EvidenceTypes(Resolve(a.cites, records))

Certified(c, a, records, asked, events, passed) ==
  /\ passed
  /\ ContractMet(c, a, records, events)
  /\ CallsMade(asked) <= FIXED_RULE_TOOL_LIMIT
  /\ UnexpectedErrors(events) = {}

\* Why a run the evaluator rejected is not a certification.
FailureClasses(c, a, records, asked, events, passed) ==
  LET met == ContractMet(c, a, records, events)
      Class(name, applies) == IF ~passed /\ applies THEN {name} ELSE {}
  IN UNION {Class("TOOL", UnexpectedErrors(events) # {}),
            Class("BUDGET", CallsMade(asked) >= FIXED_RULE_TOOL_LIMIT),
            Class("SCORING", met),
            Class("REFERENCE_IMPLEMENTATION", ~met)}
=============================================================================
