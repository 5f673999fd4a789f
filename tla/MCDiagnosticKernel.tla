--------------------------- MODULE MCDiagnosticKernel ---------------------------
(***************************************************************************)
(* Small incidents for the evidence kernel: a failed run, in which n1      *)
(* fails on the renamed column of raw, and a clean run of which raw is to  *)
(* be declared healthy.                                                    *)
(***************************************************************************)
EXTENDS DiagnosticKernel, TLC

CONSTANTS g1, g2, g3, g4

Hyp(id, code)    == [id |-> id, code |-> code]
Ask(kind, about) == [kind |-> kind, subject |-> about]
\* nodes: failed nodes of a run result, related nodes of a lineage fact; near: the
\* related nodes at distance one; skipped: the nodes a run result names as skipped.
Fact(kind, about, nodes, clean) ==
  [run |-> "run", kind |-> kind, subject |-> about, nodes |-> nodes, clean |-> clean,
   near |-> {}, skipped |-> {}]

MCGapIds   == {g1, g2, g3, g4}
MCSymmetry == Permutations(MCGapIds)

\* Registering, registering again, redefining, and naming an unknown code.
MCDeclarations ==
  {{}, {Hyp("h1", "RENAMED"), Hyp("h2", "CAST")}, {Hyp("h2", "RENAMED")},
   {Hyp("h3", "UNKNOWN")}}
MCPairOnly   == {{}, {Hyp("h1", "RENAMED"), Hyp("h2", "CAST")}}
MCNoReferences == {{}}

MCOntology == {"RENAMED", "CAST"}
MCRules    == [code \in MCOntology |-> IF code = "RENAMED" THEN {"UPSTREAM", "SCHEMA"}
                                                            ELSE {"UPSTREAM"}]
MCPaymentRules == [code \in MCOntology |-> {"DOMAIN"}]
\* A payment rule: a run result and a profile of the payment relation.
MCDomainRule(code, root, all) ==
  {r.kind : r \in root} = {"LOCATE", "PROFILE"} /\ code = "RENAMED"

MCObservable == [SCHEMA |-> {"raw"}, PROFILE |-> {"raw"}, HISTORY |-> {}]

MCFailedCalls ==
  {Ask("LOCATE", "run"), Ask("EXPLAIN", "n1"), Ask("UPSTREAM", "n1"),
   Ask("SCHEMA", "raw"), Ask("HISTORY", "raw")}
MCFailedRecords ==
  {[Fact("LOCATE", "run", {"n1"}, FALSE) EXCEPT !.skipped = {"n2"}],
   [Fact("UPSTREAM", "n1", {"raw", "n0", "far"}, TRUE) EXCEPT !.near = {"n0"}],
   Fact("EXPLAIN", "n1", {}, TRUE), Fact("SCHEMA", "raw", {}, TRUE)}

MCCleanObservable == [SCHEMA |-> {}, PROFILE |-> {"raw"}, HISTORY |-> {"raw"}]
MCCleanCalls ==
  {Ask("LOCATE", "run"), Ask("PROFILE", "raw"), Ask("HISTORY", "raw"),
   Ask("SCHEMA", "raw"), Ask("DOWNSTREAM", "n1")}
\* The one run result of the run is clean or not; the ledger is asked either way.
MCCleanRecords ==
  {Fact("LOCATE", "run", {}, TRUE), Fact("LOCATE", "run", {"n1"}, FALSE), Fact("PROFILE", "raw", {}, TRUE),
   Fact("HISTORY", "raw", {}, TRUE), Fact("HISTORY", "raw", {}, FALSE),
   Fact("DOWNSTREAM", "n1", {"raw"}, TRUE),
   [Fact("PROFILE", "raw", {}, TRUE) EXCEPT !.run = "other"]}

MCDeclarable ==
  {[kind |-> "HISTORY", subject |-> "raw", reason |-> "RELATION_NOT_ALLOWED"],
   [kind |-> "WATERMARK", subject |-> "n1", reason |-> "NOT_OBSERVABLE"],
   [kind |-> "DEFINITION", subject |-> "n2", reason |-> "NOT_OBSERVABLE"]}
=============================================================================
