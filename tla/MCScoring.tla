------------------------------ MODULE MCScoring ------------------------------
(***************************************************************************)
(* The scenario catalogue of the repository (config/scenarios, all cases), *)
(* the lineage of the fixture project it runs on, and the databases its    *)
(* injections prepare, as what the live tools show of each.                *)
(***************************************************************************)
EXTENDS ScoredRun, TLC

\* Grants of a contract, in the order its file lists them.
None     == <<>>
Payments == <<"raw_payments">>
Orders   == <<"raw_orders">>
Both     == <<"raw_orders", "raw_payments">>
All3     == <<"raw_orders", "raw_customers", "raw_payments">>

-----------------------------------------------------------------------------
(* Lineage                                                                 *)

Staging == {"stg_customers", "stg_orders", "stg_payments"}
Models  == {"customers", "orders"} \cup Staging
Seeds   == {"seed_customers", "seed_orders", "seed_payments"}
Tests   == {"not_null_customer_id", "not_null_payment_id", "unique_payment_id"}

MCNodes ==
  <<"customers", "orders", "stg_customers", "stg_orders", "stg_payments",
    "seed_customers", "seed_orders", "seed_payments",
    "not_null_customer_id", "not_null_payment_id", "unique_payment_id">>

MCNodeType ==
  [n \in ToSet(MCNodes) |-> IF n \in Models THEN "model" ELSE IF n \in Seeds THEN "seed" ELSE "test"]

MCParents ==
     "customers"            :> Staging
  @@ "orders"               :> {"stg_orders", "stg_payments"}
  @@ "stg_customers"        :> {"seed_customers"}
  @@ "stg_orders"           :> {"seed_orders"}
  @@ "stg_payments"         :> {"seed_payments"}
  @@ "not_null_customer_id" :> {"orders"}
  @@ "not_null_payment_id"  :> {"stg_payments"}
  @@ "unique_payment_id"    :> {"stg_payments"}
  @@ [seed \in Seeds |-> {}]

Consumers == {"stg_payments", "orders", "customers"}

MCNameOf ==
  "seed_customers" :> "raw_customers" @@ "seed_orders" :> "raw_orders" @@ "seed_payments" :> "raw_payments"

MCStagedFrom ==
  "stg_customers" :> "raw_customers" @@ "stg_orders" :> "raw_orders" @@ "stg_payments" :> "raw_payments"

-----------------------------------------------------------------------------
(* Databases                                                               *)

NoFault == [kind |-> "NONE", relation |-> "none", column |-> "none", to |-> "none",
            rows |-> 0, lost |-> Baseline, channel |-> "none", channelRows |-> 0]
Fault(kind, relation) == [NoFault EXCEPT !.kind = kind, !.relation = relation]

\* A bank transfer, and a gift card when there are two.
Lost(k) ==
  [Fault("DELETE", "raw_payments") EXCEPT
     !.rows = k,
     !.lost = [bank_transfer |-> 1, coupon |-> 0, credit_card |-> 0, gift_card |-> k - 1]]
Orphans(k, channel, rows) ==
  [Fault("ORPHAN", "raw_payments") EXCEPT !.rows = k, !.channel = channel, !.channelRows = rows]
Column(kind, relation, column, to) == [Fault(kind, relation) EXCEPT !.column = column, !.to = to]

OneRecord      == Lost(1)
Partition      == Lost(2)
Exact          == Fault("EXACT_RECORD", "raw_payments")
Semantic       == [Fault("SEMANTIC_FINGERPRINT", "raw_payments") EXCEPT !.rows = 3]
OneOrphan      == Orphans(1, "credit_card", 56)
Coupons        == Orphans(3, "coupon", 16)
NullKey        == Column("NULL", "raw_payments", "id", "none")
NullUser       == Column("NULL", "raw_orders", "user_id", "none")
Renamed        == Column("RENAME", "raw_payments", "amount", "total_amount")
RetypedUser    == Column("TYPE", "raw_orders", "user_id", "text")
RetypedAmount  == Column("TYPE", "raw_payments", "amount", "text")
RetypedId      == Column("TYPE", "raw_customers", "id", "text")

MCExpectations ==
  [raw_customers |-> [id |-> "integer", first_name |-> "text", last_name |-> "text"],
   raw_orders    |-> [id |-> "integer", user_id |-> "integer", order_date |-> "date",
                      status |-> "text"],
   raw_payments  |-> [id |-> "integer", order_id |-> "integer", payment_method |-> "text",
                      amount |-> "integer"]]

\* Days count to 2018-04-09, which is day 100; counts where a rule looks.
OrderCounts   == 65 :> 1 @@ 72 :> 2 @@ 79 :> 1 @@ 86 :> 3 @@ 93 :> 1 @@ 98 :> 1 @@ 100 :> 1
PaymentCounts == 83 :> 5 @@ 98 :> 2

Profile(rows) ==
  [rows |-> rows, duplicateKeys |-> 0, duplicatePrints |-> 0, violations |-> 0,
   channels |-> Baseline, nulls |-> <<>>]
History(counts) == [counts |-> counts, watermark |-> 100, sla |-> 24]

Healthy ==
  [faults  |-> {},
   SCHEMA  |-> MCExpectations,
   PROFILE |-> [raw_customers |-> Profile(100), raw_orders |-> Profile(99),
                raw_payments |-> Profile(113)],
   HISTORY |-> [raw_customers |-> History(<<>>), raw_orders |-> History(OrderCounts),
                raw_payments |-> History(PaymentCounts)]]

\* The harmless changes some injections add.
WithNote(d) == [d EXCEPT !.SCHEMA.raw_payments = @ @@ "source_batch_note" :> "text"]
WithNullName(d) == [d EXCEPT !.PROFILE.raw_customers.nulls = "last_name" :> 1]

Retyped(fault) ==
  [Healthy EXCEPT !.faults = {fault}, !.SCHEMA[fault.relation][fault.column] = fault.to]
Nulled(fault) ==
  [Healthy EXCEPT !.faults = {fault}, !.PROFILE[fault.relation].nulls = fault.column :> 1]
Lossy(fault, day) ==
  [Healthy EXCEPT !.faults = {fault},
     !.PROFILE.raw_payments.rows = 113 - fault.rows,
     !.PROFILE.raw_payments.channels = [m \in DOMAIN Baseline |-> Baseline[m] - fault.lost[m]],
     !.PROFILE.raw_orders.violations = fault.rows,
     !.HISTORY.raw_payments.counts[day] = @ - fault.rows]
Dangling(fault) ==
  [Healthy EXCEPT !.faults = {fault},
     !.PROFILE.raw_payments.rows = 113 + fault.rows,
     !.PROFILE.raw_payments.violations = fault.rows,
     !.PROFILE.raw_payments.channels[fault.channel] = fault.channelRows]

MCShows ==
     "healthy"       :> Healthy
  @@ "record"        :> Lossy(OneRecord, 98)
  @@ "partition"     :> WithNote(Lossy(Partition, 83))
  @@ "exact"         :> [Healthy EXCEPT !.faults = {Exact},
                           !.PROFILE.raw_payments.rows = 114,
                           !.PROFILE.raw_payments.duplicateKeys = 1,
                           !.PROFILE.raw_payments.duplicatePrints = 1,
                           !.PROFILE.raw_payments.channels.credit_card = 56]
  @@ "semantic"      :> WithNote([Healthy EXCEPT !.faults = {Semantic},
                                    !.PROFILE.raw_payments.rows = 116,
                                    !.PROFILE.raw_payments.duplicatePrints = 3,
                                    !.PROFILE.raw_payments.channels.coupon = 16])
  @@ "orphan"        :> Dangling(OneOrphan)
  @@ "coupons"       :> WithNote(Dangling(Coupons))
  @@ "nullKey"       :> Nulled(NullKey)
  @@ "nullKeyName"   :> WithNullName(Nulled(NullKey))
  @@ "nullUserName"  :> WithNullName(Nulled(NullUser))
  @@ "renamed"       :> [Healthy EXCEPT !.faults = {Renamed},
                           !.SCHEMA.raw_payments = [id |-> "integer", order_id |-> "integer",
                                                    payment_method |-> "text",
                                                    total_amount |-> "integer"]]
  @@ "retypedUser"       :> Retyped(RetypedUser)
  @@ "retypedUserNote"   :> WithNote(Retyped(RetypedUser))
  @@ "retypedAmount"     :> Retyped(RetypedAmount)
  @@ "retypedAmountNote" :> WithNote(Retyped(RetypedAmount))
  @@ "retypedId"         :> Retyped(RetypedId)

MCDatabases == DOMAIN MCShows

-----------------------------------------------------------------------------
(* Cases                                                                   *)

Gap(kind, subject, code, tool) ==
  [gap |-> <<kind, subject, code>>, tool |-> tool, subject |-> subject, code |-> code]
Refused(kind, relation, tool) == Gap(kind, relation, "RELATION_NOT_ALLOWED", tool)
Undecided(kind, subject) == Gap(kind, subject, "NOT_OBSERVABLE", "none")

Grants(schemas, profiles, histories) ==
  [SCHEMA |-> schemas, PROFILE |-> profiles, HISTORY |-> histories,
   EXPECTATION |-> None, DEFINITION |-> None]

\* What a case declares when nothing is said of it below.
Plain(database, fault, cause, signal, required) ==
  [database |-> database, fault |-> fault, status |-> "CONFIRMED", causes |-> {cause},
   assets |-> Consumers, direct |-> "none", isTest |-> FALSE, signal |-> signal,
   subjects |-> {"seed_payments", "raw_payments"}, mentions |-> {}, missing |-> "none",
   mismatch |-> FALSE, tokens |-> {}, origins |-> {}, v2 |-> FALSE,
   listed |-> Grants(Payments, Payments, None),
   bucket |-> 100, current |-> 0, expected |-> 0, total |-> 0, observed |-> 2412,
   gaps |-> {}, required |-> required \cup {"RUN"}]

Insufficient(contract, other, grants, gaps, required) ==
  [contract EXCEPT !.status = "INSUFFICIENT_EVIDENCE", !.causes = @ \cup other,
     !.listed = grants, !.gaps = gaps, !.required = required \cup {"RUN"}]

SemanticCase ==
  Plain("semantic", Semantic, "SOURCE_SEMANTIC_PAYMENT_DUPLICATE", "PAYMENT_DUPLICATE_ALERT",
        {"LINEAGE", "SCHEMA", "PROFILE"})

OrphanCase(database, fault) ==
  [Plain(database, fault, "SOURCE_PERMANENT_ORPHAN_PAYMENT", "PAYMENT_ORPHAN_ALERT",
         {"LINEAGE", "SCHEMA", "PROFILE", "HISTORY"}) EXCEPT
     !.subjects = {"seed_payments"} \cup ToSet(Both), !.listed = Grants(Payments, Payments, Orders),
     !.bucket = 94]

LossCase(database, fault, day, current, expected) ==
  [Plain(database, fault, "SOURCE_PAYMENT_INGESTION_LOSS", "PAYMENT_VOLUME_ALERT",
         {"LINEAGE", "PROFILE", "HISTORY"}) EXCEPT
     !.subjects = {"seed_payments", "payment_count_by_order_date"} \cup ToSet(Both),
     !.listed = Grants(Payments, Both, Both),
     !.bucket = day, !.current = current, !.expected = expected, !.total = 113 - fault.rows]

VolumeCase(day, observed) ==
  [Plain("healthy", NoFault, "none", "ORDER_VOLUME_ALERT", {"PROFILE", "HISTORY"}) EXCEPT
     !.status = "NO_INCIDENT", !.causes = {}, !.assets = {},
     !.subjects = {"raw_orders", "order_count_by_day"},
     !.listed = Grants(None, Orders, Orders),
     !.bucket = day, !.current = 1, !.expected = 3, !.observed = observed]

TestCase(database, fault, cause, test, model, relations) ==
  [Plain(database, fault, cause, "DBT_TEST_FAILED", {"ERROR", "LINEAGE", "SCHEMA", "PROFILE"}) EXCEPT
     !.direct = test, !.isTest = TRUE, !.assets = {model}, !.subjects = {test} \cup ToSet(relations),
     !.mentions = IF model = "orders" THEN {"order"} ELSE {"payment"},
     !.listed = Grants(relations, relations, None)]

NullCase(database, fault, test, model, relations) ==
  TestCase(database, fault, "SOURCE_REQUIRED_FIELD_NULL", test, model, relations)

NullHidden(contract, grants, subject) ==
  LET hidden == contract.fault.relation
  IN Insufficient(contract, {"TRANSFORMATION_REQUIRED_FIELD_NULL"}, grants,
                  {Refused("RELATION_DATA_PROFILE", hidden, "PROFILE"),
                   Undecided("TRANSFORMATION_DEFINITION", subject)},
                  {"ERROR", "LINEAGE", "SCHEMA", "PROFILE"})

BuildCase(database, fault, cause, model, grants) ==
  [Plain(database, fault, cause, "DBT_BUILD_FAILED", {"ERROR", "LINEAGE", "SCHEMA"}) EXCEPT
     !.direct = model, !.assets = {model} \cup Downstream[model], !.subjects = {model},
     !.mentions = IF model = "customers" THEN {"order"} ELSE {"payment"},
     !.listed = grants]

TypeCase(database, fault, model, token, grants) ==
  [BuildCase(database, fault, "SOURCE_SCHEMA_COLUMN_TYPE_CHANGED", model, grants) EXCEPT
     !.mismatch = TRUE, !.tokens = {token}]

SchemaHidden(contract, grants, subject) ==
  LET hidden == contract.fault.relation
  IN Insufficient(contract, {"TRANSFORMATION_COLUMN_CAST_CHANGED"}, grants,
                  {Refused("RELATION_SCHEMA", hidden, "SCHEMA"),
                   Undecided("TRANSFORMATION_DEFINITION", subject)},
                  {"ERROR", "LINEAGE", "PROFILE", "HISTORY"})

WideCase(database, fault) ==
  LET two == <<"raw_customers", "raw_orders">>
  IN [TypeCase(database, fault, "customers", "customer_id",
               [SCHEMA |-> two, PROFILE |-> None, HISTORY |-> None, EXPECTATION |-> two,
                DEFINITION |-> <<"customers", "stg_customers", "stg_orders">>]) EXCEPT
        !.v2 = TRUE, !.origins = {<<"raw_customers", "id">>, <<"raw_orders", "user_id">>},
        !.required = @ \cup BatchTools]

WideHidden(contract) ==
  Insufficient(contract, {"TRANSFORMATION_COLUMN_CAST_CHANGED"},
               Grants(<<"raw_customers", "raw_orders">>, None, None),
               {Refused("RELATION_SCHEMA_EXPECTATION", "raw_customers", "EXPECTATION"),
                Gap("DBT_NODE_DEFINITION", "customers", "NODE_NOT_ALLOWED", "DEFINITION")},
               {"ERROR", "LINEAGE", "SCHEMA"})

PartitionCase == LossCase("partition", Partition, 83, 3, 5)
CustomerNull  == NullCase("nullUserName", NullUser, "not_null_customer_id", "orders",
                          <<"raw_orders", "raw_customers">>)
KeyNull(database, relations) ==
  [NullCase(database, NullKey, "not_null_payment_id", "stg_payments", relations) EXCEPT
     !.subjects = {"not_null_payment_id", "raw_payments"}]
CustomerType  == TypeCase("retypedUserNote", RetypedUser, "customers", "customer_id",
                          Grants(All3, All3, Orders))
AmountType(database) ==
  TypeCase(database, RetypedAmount, "stg_payments", "amount", Grants(Payments, Payments, Orders))
Named == <<"raw_payments", "raw_customers">>

ScenarioFiles ==
     "duplicate_payment_record" :>
       TestCase("exact", Exact, "SOURCE_EXACT_PAYMENT_DUPLICATE", "unique_payment_id",
                "stg_payments", Payments)
  @@ "duplicate_payment_coupon_a" :> SemanticCase
  @@ "duplicate_payment_coupon_b" :>
       Insufficient(SemanticCase, {"LEGITIMATE_SPLIT_PAYMENT"}, Grants(Payments, None, None),
                    {Refused("RELATION_DATA_PROFILE", "raw_payments", "PROFILE"),
                     Undecided("PAYMENT_EVENT_IDENTITY", "raw_payments")},
                    {"LINEAGE", "SCHEMA"})
  @@ "order_volume_pattern_a"  :> VolumeCase(93, 2244)
  @@ "order_volume_within_sla" :> VolumeCase(100, 2412)
  @@ "orphan_payment_record"   :> OrphanCase("orphan", OneOrphan)
  @@ "orphan_payment_coupon_a" :> OrphanCase("coupons", Coupons)
  @@ "orphan_payment_coupon_b" :>
       Insufficient(OrphanCase("coupons", Coupons), {"NORMAL_LATE_ARRIVING_ORDER"},
                    Grants(Payments, Payments, None),
                    {Refused("RELATION_HISTORY", "raw_orders", "HISTORY"),
                     Undecided("INGESTION_WATERMARK", "raw_orders")},
                    {"LINEAGE", "SCHEMA", "PROFILE"})
  @@ "silent_payment_drop_record"      :> LossCase("record", OneRecord, 98, 1, 2)
  @@ "silent_payment_drop_partition_a" :> PartitionCase
  @@ "silent_payment_drop_partition_b" :>
       Insufficient(PartitionCase, {"NORMAL_BUSINESS_PAYMENT_DECLINE"}, Grants(Payments, Both, None),
                    {Refused("RELATION_HISTORY", "raw_payments", "HISTORY"),
                     Refused("RELATION_HISTORY", "raw_orders", "HISTORY"),
                     Undecided("INGESTION_WATERMARK", "raw_orders")},
                    {"LINEAGE", "PROFILE"})
  @@ "required_null_order_customer_a" :> CustomerNull
  @@ "required_null_order_customer_b" :>
       NullHidden(CustomerNull, Grants(<<"raw_orders", "raw_customers">>, <<"raw_customers">>, None),
                  "stg_orders")
  @@ "required_null_payment_id" :> KeyNull("nullKey", Payments)
  @@ "required_null_payment_id_distractor_a" :> KeyNull("nullKeyName", Named)
  @@ "required_null_payment_id_distractor_b" :>
       NullHidden(KeyNull("nullKeyName", Named), Grants(Named, <<"raw_customers">>, None), "stg_payments")
  @@ "schema_rename_payment_amount" :>
       [BuildCase("renamed", Renamed, "SOURCE_SCHEMA_COLUMN_RENAMED", "stg_payments",
                  Grants(Payments, None, None)) EXCEPT !.missing = "amount"]
  @@ "schema_type_change_payment_amount"   :> AmountType("retypedAmount")
  @@ "type_change_payment_amount_drift_a"  :> AmountType("retypedAmountNote")
  @@ "type_change_payment_amount_drift_b"  :>
       SchemaHidden(AmountType("retypedAmountNote"), Grants(None, Payments, Payments), "stg_payments")
  @@ "schema_type_change_order_customer_a" :> CustomerType
  @@ "schema_type_change_order_customer_b" :>
       SchemaHidden(CustomerType, Grants(<<"raw_customers", "raw_payments">>, All3, Orders), "stg_orders")
  @@ "schema_type_change_raw_order_user_id_a"  :> WideCase("retypedUser", RetypedUser)
  @@ "schema_type_change_raw_order_user_id_b"  :> WideHidden(WideCase("retypedUser", RetypedUser))
  @@ "schema_type_change_raw_customer_id_a"    :> WideCase("retypedId", RetypedId)
  @@ "schema_type_change_raw_customer_id_b"    :> WideHidden(WideCase("retypedId", RetypedId))

MCCases ==
  {[name |-> n, observable |-> [tool \in DOMAIN ScenarioFiles[n].listed |->
                                  ToSet(ScenarioFiles[n].listed[tool])]] @@ ScenarioFiles[n] :
     n \in DOMAIN ScenarioFiles}
MCCauses == UNION {c.causes : c \in MCCases}

-----------------------------------------------------------------------------
(* Calls a model is followed on: what its case needs, and no more          *)

K(kind, of) == [kind |-> kind, of |-> of]
Upfront == {K("RUN", "run")}
Reads(node, read) == Upfront \cup {K("ERROR", node), K("LINEAGE_UP", node), read}
Quiet(others) == Upfront \cup {K("LINEAGE_DOWN", "seed_payments"), K("SCHEMA", "raw_payments"),
                               K("PROFILE", "raw_payments")} \cup others
Volume == Upfront \cup {K("PROFILE", "raw_orders"), K("HISTORY", "raw_orders")}
LossReads == {K("LINEAGE_DOWN", "seed_payments"), K("PROFILE", "raw_payments"),
              K("HISTORY", "raw_payments")} \cup Volume

Followed ==
     "duplicate_payment_record"   :> Reads("unique_payment_id", K("PROFILE", "raw_payments"))
                                       \cup {K("SCHEMA", "raw_payments")}
  @@ "required_null_payment_id"   :> Reads("not_null_payment_id", K("PROFILE", "raw_payments"))
                                       \cup {K("SCHEMA", "raw_payments")}
  @@ "schema_rename_payment_amount" :>
       Upfront \cup {K("ERROR", "stg_payments"), K("LINEAGE_DOWN", "stg_payments"),
                     K("SCHEMA", "raw_payments")}
  @@ "schema_type_change_order_customer_a" :> Reads("customers", K("SCHEMA", "raw_orders"))
  @@ "duplicate_payment_coupon_a" :> Quiet({})
  @@ "orphan_payment_record"      :> Quiet({K("HISTORY", "raw_orders")})
  @@ "orphan_payment_coupon_b"    :> Quiet({K("HISTORY", "raw_orders")})
  @@ "silent_payment_drop_record" :> LossReads
  @@ "silent_payment_drop_partition_b" :> LossReads
  @@ "order_volume_within_sla"    :> Volume
  @@ "order_volume_pattern_a"     :> Volume
  @@ "schema_type_change_raw_order_user_id_b" :>
       Upfront \cup {K("ERROR", "customers"), K("LINEAGE_DOWN", "customers"),
                     K("SCHEMA", "raw_orders"), K("EXPECTATION", "raw_customers"),
                     K("DEFINITION", "customers")}

MCCalls == [c \in {x \in MCCases : x.name \in DOMAIN Followed} |-> Followed[c.name]]
=============================================================================
