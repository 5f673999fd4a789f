------------------------- MODULE InvestigationContract -------------------------
(***************************************************************************)
(* What an investigation promises, whatever evidence rules it applies: a   *)
(* bounded number of distinct attempts, each answered or refused at most   *)
(* once, and one verdict, which is positive only when every attempt made   *)
(* was answered.  DiagnosticKernel implements it.                          *)
(***************************************************************************)
EXTENDS Integers, FiniteSets

CONSTANTS Calls, ToolCallLimit

VARIABLES
  pending,  \* attempts whose answer is awaited
  answered, \* attempts that brought evidence
  refused,  \* attempts that brought none and never will
  decided   \* "open", or the verdict

attempts == pending \cup answered \cup refused
vars     == <<pending, answered, refused, decided>>

Positive == {"CONFIRMED", "NO_INCIDENT"}
Negative == {"INSUFFICIENT_EVIDENCE", "MODEL_ERROR"}

Init ==
  /\ pending = {}
  /\ answered = {}
  /\ refused = {}
  /\ decided = "open"

\* An attempt is made once, within the budget, while there is no verdict.
Try(c) ==
  /\ decided = "open"
  /\ c \notin attempts
  /\ Cardinality(attempts) < ToolCallLimit
  /\ \/ pending' = pending \cup {c} /\ UNCHANGED refused
     \/ refused' = refused \cup {c} /\ UNCHANGED pending
  /\ UNCHANGED <<answered, decided>>

\* A pending attempt is settled, even after an abstention.
Settle(c) ==
  /\ c \in pending
  /\ pending' = pending \ {c}
  /\ \/ answered' = answered \cup {c} /\ UNCHANGED refused
     \/ refused' = refused \cup {c} /\ UNCHANGED answered
  /\ UNCHANGED decided

MayDecide(v) ==
  /\ decided = "open"
  /\ v \in Positive => pending = {} /\ refused = {} /\ answered # {}

Decide(v) ==
  /\ MayDecide(v)
  /\ decided' = v
  /\ UNCHANGED <<pending, answered, refused>>

Next ==
  \/ \E c \in Calls : Try(c) \/ Settle(c)
  \/ \E v \in Positive \cup Negative : Decide(v)

Spec == Init /\ [][Next]_vars
=============================================================================
