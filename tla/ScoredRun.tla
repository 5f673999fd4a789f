------------------------------ MODULE ScoredRun ------------------------------
(***************************************************************************)
(* A diagnosed run from its first call to its evaluation.  A model asks    *)
(* what it likes and answers what it likes, through the submission gate    *)
(* (submission_policy.py) and the kernel; a built-in strategy follows its  *)
(* procedure.  Both are judged by the same evaluator.                      *)
(*                                                                         *)
(* Live tools read the laboratory while the run is under way, and nothing  *)
(* keeps another process from resetting it or injecting another case       *)
(* meanwhile; any call may fail.                                           *)
(***************************************************************************)
EXTENDS BuiltinStrategies

CONSTANTS
  Calls,       \* [cases a model is followed on -> what it may ask]
  Meanwhile,   \* databases another process may leave during a run
  Causes,      \* root-cause codes an answer may name
  MaxFailures  \* bound: failed calls a run is followed for

ASSUME ScoredRunAssumption ==
  DOMAIN Calls \subseteq Cases /\ Meanwhile \subseteq Databases /\ MaxFailures \in Nat

VARIABLES
  strategy,  \* who diagnoses
  case,      \* the case under diagnosis
  live,      \* which state the live database is in
  inventory, \* evidence records of the run
  asked,     \* calls made
  trace,     \* the failed calls, in order
  answer,    \* the accepted answer, or NoAnswer
  verdict    \* the evaluation, or NoVerdict

vars == <<strategy, case, live, inventory, asked, trace, answer, verdict>>

NoAnswer  == Answer("none", {}, {}, {})
NoVerdict == "none"

Init ==
  /\ \/ strategy = "MODEL" /\ case \in DOMAIN Calls
     \/ strategy \in {"FIXED_RULE", "REFERENCE_ANALYST"} /\ case \in Cases
  /\ live = case.database
  /\ inventory = {}
  /\ asked = {}
  /\ trace = <<>>
  /\ answer = NoAnswer
  /\ verdict = NoVerdict

-----------------------------------------------------------------------------
(* Calls                                                                   *)

Record(key) ==
  [kind |-> key.kind, of |-> key.of,
   db |-> IF key.kind \in LiveTools THEN live ELSE case.database]

Event(key, code, origin) ==
  [tool |-> key.kind, target |-> key.of, code |-> code, origin |-> origin]

\* A failed call of a model is followed when a gap names it; any other differs
\* in nothing a rule reads from a call that was not made.
Fail(key, code, origin) ==
  /\ UNCHANGED inventory
  /\ IF \E g \in case.gaps : g.tool = key.kind /\ g.subject = key.of
     THEN Len(trace) < MaxFailures /\ trace' = Append(trace, Event(key, code, origin))
     ELSE UNCHANGED trace

\* A model's call made before is refused by the controller.  A new one is
\* answered, refused by the backend or already by the controller, or fails.
Ask(key) ==
  LET code == ToolCode(case, key, live)
  IN /\ strategy = "MODEL"
     /\ answer = NoAnswer
     /\ asked' = asked \cup {key}
     /\ \/ key \in asked /\ Fail(key, "DUPLICATE_TOOL_CALL", "CONTROLLER_PRECHECK")
        \/ /\ key \notin asked
           /\ \/ code = "none" /\ inventory' = inventory \cup {Record(key)} /\ UNCHANGED trace
              \/ /\ code # "none"
                 /\ \E origin \in {"EVIDENCE_BACKEND", "CONTROLLER_PRECHECK"} :
                      Fail(key, code, origin)
              \/ \E origin \in {"EVIDENCE_BACKEND", "TOOL_RUNTIME"} :
                   Fail(key, "EVIDENCE_TOOL_ERROR", origin)
     /\ UNCHANGED <<strategy, case, live, answer, verdict>>

\* A built-in strategy writes an event for each target that failed, in the order
\* it asked for them.
Failed(call, codes) ==
  LET keys    == [i \in DOMAIN call.targets |-> [kind |-> call.kind, of |-> call.targets[i]]]
      refused == SelectSeq(keys, LAMBDA k : codes[k] # "none")
  IN [i \in DOMAIN refused |-> Event(refused[i], codes[refused[i]], "LEGACY_UNATTRIBUTED")]

Deny(call, codes) == trace' = trace \o Failed(call, codes) /\ UNCHANGED inventory

\* A call beyond the limit is not made, a refused target refuses its batch, and
\* any call may fail.
Make(call, codes) ==
  LET All(code) == [k \in DOMAIN codes |-> code]
      overrun   == CallsMade(asked) >= FIXED_RULE_TOOL_LIMIT
  IN /\ asked' = asked \cup Keys(call)
     /\ \/ overrun /\ Deny(call, All("TOOL_CALL_LIMIT"))
        \/ /\ ~overrun /\ \E k \in DOMAIN codes : codes[k] # "none"
           /\ Deny(call, codes)
        \/ /\ ~overrun /\ \A k \in DOMAIN codes : codes[k] = "none"
           /\ inventory' = inventory \cup {Record(k) : k \in DOMAIN codes}
           /\ UNCHANGED trace
        \/ /\ ~overrun /\ Len(trace) < MaxFailures
           /\ Deny(call, All("EVIDENCE_TOOL_ERROR"))

\* A built-in strategy makes its next wanted call.
BuiltinCall ==
  /\ strategy # "MODEL"
  /\ answer = NoAnswer
  /\ \E calls \in {Unmade(strategy, case, inventory, asked)} :
       /\ calls # <<>>
       /\ \E codes \in {[k \in Keys(Head(calls)) |-> ToolCode(case, k, live)]} :
            Make(Head(calls), codes)
  /\ UNCHANGED <<strategy, case, live, answer, verdict>>

\* Another process resets the laboratory or injects another case.
Disturb(d) ==
  /\ answer = NoAnswer
  /\ live = case.database
  /\ d # live
  /\ live' = d
  /\ UNCHANGED <<strategy, case, inventory, asked, trace, answer, verdict>>

-----------------------------------------------------------------------------
(* Answers a model may give                                                *)

\* An answer of the Diagnosis contract; all of its claims cite the same records.
Sound(a) ==
  CASE a.status = "CONFIRMED" ->
         /\ Cardinality(OfKind(a, "ROOT_CAUSE")) = 1 /\ OfKind(a, "AFFECTED_ASSET") # {}
         /\ OfKind(a, "HEALTH_STATE") = {}
         /\ a.cites # {} /\ UNION {claim.cites : claim \in a.claims} \subseteq a.cites
         /\ a.gaps = {}
    [] a.status = "NO_INCIDENT" ->
         /\ a.claims # {} /\ a.claims = OfKind(a, "HEALTH_STATE")
         /\ a.cites # {} /\ a.cites = UNION {claim.cites : claim \in a.claims}
         /\ a.gaps = {}
    [] a.status = "INSUFFICIENT_EVIDENCE" -> a.claims = {} /\ a.gaps # {}
    [] OTHER -> FALSE

Ghost == [kind |-> "PROFILE", of |-> "no such record"]

\* What a model may cite: all it has, all but one record, or one it never saw.
Citations(records) ==
  {Held(records), Held(records) \cup {Ghost}} \cup {Held(records) \ {k} : k \in Held(records)}

\* The causes of the contract and one of another case.
NamedCauses(c) == c.causes \cup {CHOOSE x \in Causes : x \notin c.causes}

Claims(kind, values, cites) == {[kind |-> kind, value |-> v, cites |-> cites] : v \in values}

Confirmations(c, citations) ==
  {Answer("CONFIRMED",
          Claims("ROOT_CAUSE", {cause}, cites) \cup Claims("AFFECTED_ASSET", assets, cites),
          {}, cites) :
     cause \in NamedCauses(c), cites \in citations,
     assets \in {c.assets, c.assets \cup {c.direct}}}

HealthReports(c, citations) ==
  {Answer("NO_INCIDENT",
          Claims("HEALTH_STATE", {[day |-> c.bucket, value |-> v]}, cites), {}, cites) :
     v \in {c.current, c.expected}, cites \in citations}

Abstentions(c, citations) ==
  {Answer("INSUFFICIENT_EVIDENCE", {}, gaps, cites) :
     gaps \in SUBSET {g.gap : g \in c.gaps}, cites \in citations}

\* Citations vary for an answer of the expected status; any other cites all.
Candidates(c, records) ==
  LET For(status) == IF status = c.status THEN Citations(records) ELSE {Held(records)}
  IN {a \in Confirmations(c, For("CONFIRMED")) \cup HealthReports(c, For("NO_INCIDENT"))
            \cup Abstentions(c, For("INSUFFICIENT_EVIDENCE")) : Sound(a)}

-----------------------------------------------------------------------------
(* The end of a run                                                        *)

\* The gate's rules and the kernel's, over the same records.
Accepted(c, a, records, events) ==
  GateCode(c, a, records, events) = "ACCEPTED" /\ KernelAccepts(c, a, records)

Submit(a) ==
  /\ strategy = "MODEL"
  /\ answer = NoAnswer
  /\ Accepted(case, a, inventory, trace)
  /\ answer' = a
  /\ UNCHANGED <<strategy, case, live, inventory, asked, trace, verdict>>

\* A built-in strategy answers when it has nothing left to ask.
Conclude ==
  /\ strategy # "MODEL"
  /\ answer = NoAnswer
  /\ Unmade(strategy, case, inventory, asked) = <<>>
  /\ answer' = Conclusion(strategy, case, inventory, trace)
  /\ UNCHANGED <<strategy, case, live, inventory, asked, trace, verdict>>

Evaluate ==
  /\ answer # NoAnswer
  /\ verdict = NoVerdict
  /\ \E met \in SUBSET LaboratoryChecks :
       verdict' = IF FailedChecks(case, answer, inventory, trace, met) = {}
                  THEN "PASSED" ELSE "FAILED"
  /\ UNCHANGED <<strategy, case, live, inventory, asked, trace, answer>>

Next ==
  \/ \E key \in IF strategy = "MODEL" THEN Calls[case] ELSE {} : Ask(key)
  \/ BuiltinCall
  \/ \E d \in Meanwhile : Disturb(d)
  \/ \E a \in IF strategy = "MODEL" THEN Candidates(case, inventory) ELSE {} : Submit(a)
  \/ Conclude
  \/ Evaluate

Spec == Init /\ [][Next]_vars

-----------------------------------------------------------------------------
(* Properties                                                              *)

\* An abstention passes only when each gap that names a tool was refused by that
\* tool for exactly that reason, and the run holds no record of what it hides:
\* an outage, a repeated call or a run that drifted is never taken for the
\* refusal the case asks for (evaluation.py, diagnosis.py refusal_witnessed).
PassedGapIsReal ==
  verdict = "PASSED" /\ answer.status = "INSUFFICIENT_EVIDENCE" =>
    \A g \in case.gaps : g.tool # "none" =>
      /\ \E i \in DOMAIN trace :
           trace[i].tool = g.tool /\ trace[i].target = g.subject /\ trace[i].code = g.code
      /\ ~Has(inventory, g.tool, g.subject)

\* The gate and the evaluator agree on every answer at every moment: whatever
\* would pass the evaluator is let through by the gate and by the kernel's
\* published rules, and what is let through under the right status cannot fail
\* the evaluator for an unsupported claim or a missing receipt.
GateMatchesEvaluator ==
  strategy = "MODEL" /\ answer = NoAnswer =>
    \A a \in Candidates(case, inventory) :
      \A failed \in {FailedChecks(case, a, inventory, trace, LaboratoryChecks)} :
        IF Accepted(case, a, inventory, trace)
        THEN a.status = case.status =>
               /\ "CLAIM_EVIDENCE_COMPATIBLE" \notin failed
               /\ a.gaps = {g.gap : g \in case.gaps} =>
                    "INSUFFICIENCY_GAP_DECLARED" \notin failed
        ELSE failed # {}

\* The cause a run of a model passes with rests on its own fault: were the same
\* live records read from any database without that fault - repaired, or with
\* another incident - the evaluator's rule would reject the claim.  No other
\* incident of the catalogue produces the numbers the rule looks for.
CauseNeedsItsFault ==
  strategy = "MODEL" /\ verdict = "PASSED" /\ answer.status = "CONFIRMED" =>
    \A claim \in OfKind(answer, "ROOT_CAUSE"), d \in Databases :
      case.fault \notin Shows[d].faults =>
        ~Holds(case, claim,
               {IF r.kind \in LiveTools THEN [r EXCEPT !.db = d] ELSE r : r \in inventory})

\* What a built-in strategy answers is right, whatever fails and whoever touches
\* the laboratory: it names no cause the contract does not accept, the analyst
\* never reports a status other than the expected one unless it abstains, and no
\* run that meets its contract is failed by the evaluator.  Nor does the analyst
\* ever reach the branch that reads an unassigned decision.
BuiltinAnswersAreRight ==
  /\ strategy # "MODEL" /\ answer # NoAnswer =>
       /\ {claim.value : claim \in OfKind(answer, "ROOT_CAUSE")} \subseteq case.causes
       /\ strategy = "REFERENCE_ANALYST" =>
            answer.status \in {case.status, "INSUFFICIENT_EVIDENCE"}
       /\ \A passed \in {Passes(case, answer, inventory, trace)} :
            "SCORING" \notin FailureClasses(case, answer, inventory, asked, trace, passed)
  /\ strategy = "REFERENCE_ANALYST" /\ Unmade(strategy, case, inventory, asked) = <<>>
     /\ Has(inventory, "RUN", "run") /\ Direct(case) # "none" => ~Unbound(case, inventory)

\* An analyst that met no error but the refusals the case provokes is certified,
\* on every case of the catalogue and within its eight calls.
CleanAnalystIsCertified ==
  strategy = "REFERENCE_ANALYST" /\ answer # NoAnswer /\ UnexpectedErrors(trace) = {} =>
    \A passed \in {Passes(case, answer, inventory, trace)} :
      Certified(case, answer, inventory, asked, trace, passed)
=============================================================================
