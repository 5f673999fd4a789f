--------------------------- MODULE StrategyContract ---------------------------
(***************************************************************************)
(* What a diagnosed run promises whoever started it, without loops,        *)
(* threads, kernels or plans: calls are let through only while the session *)
(* is open and in time, and never more than its budget; evidence comes     *)
(* from those calls alone; one answer at most is accepted, in time and     *)
(* citing known evidence; once the session has ended, how it ended stays   *)
(* so; and one result at most is delivered, the accepted answer or a       *)
(* failure that cites nothing.                                             *)
(***************************************************************************)
EXTENDS Integers

CONSTANTS Evidence, ToolCallLimit, OutputRetryLimit

VARIABLES
  known,     \* evidence the session has registered
  spent,     \* calls used up of the budget
  inFlight,  \* calls let through that are not back
  strikes,   \* refused answers
  late,      \* the deadline has passed
  ending,    \* "open", "answered" or "cancelled"
  answer,    \* the accepted answer, or Nothing
  delivered  \* the result of the run, or Nothing

vars == <<known, spent, inFlight, strikes, late, ending, answer, delivered>>

Said ==
  [status : {"CONFIRMED", "NO_INCIDENT", "INSUFFICIENT_EVIDENCE", "MODEL_ERROR"},
   cited : SUBSET Evidence]
Nothing == [status |-> "none", cited |-> {}]
Failure == [status |-> "MODEL_ERROR", cited |-> {}]

Init ==
  /\ known = {}
  /\ spent = 0
  /\ inFlight = 0
  /\ strikes = 0
  /\ late = FALSE
  /\ ending = "open"
  /\ answer = Nothing
  /\ delivered = Nothing

InTime == ending = "open" /\ ~late

Spend ==
  /\ InTime
  /\ spent < ToolCallLimit
  /\ spent' = spent + 1

\* A call goes out, and comes back whenever it does, with something or nothing.
Admit ==
  /\ Spend
  /\ inFlight' = inFlight + 1
  /\ UNCHANGED <<known, strikes, late, ending, answer, delivered>>

Bring(evidence) ==
  /\ inFlight > 0
  /\ inFlight' = inFlight - 1
  /\ known' = known \cup evidence
  /\ UNCHANGED <<spent, strikes, late, ending, answer, delivered>>

\* A call answered on the spot, or one that was wasted.
Serve(evidence) ==
  /\ Spend
  /\ known' = known \cup evidence
  /\ UNCHANGED <<inFlight, strikes, late, ending, answer, delivered>>

Strike ==
  /\ InTime
  /\ strikes < OutputRetryLimit
  /\ strikes' = strikes + 1
  /\ UNCHANGED <<known, spent, inFlight, late, ending, answer, delivered>>

Accept(a) ==
  /\ InTime
  /\ strikes < OutputRetryLimit
  /\ a.cited \subseteq known
  /\ ending' = "answered"
  /\ answer' = a
  /\ UNCHANGED <<known, spent, inFlight, strikes, late, delivered>>

Cancel ==
  /\ ending = "open"
  /\ ending' = "cancelled"
  /\ UNCHANGED <<known, spent, inFlight, strikes, late, answer, delivered>>

Expire ==
  /\ ~late
  /\ late' = TRUE
  /\ UNCHANGED <<known, spent, inFlight, strikes, ending, answer, delivered>>

Deliver ==
  /\ delivered = Nothing
  /\ ending = "answered"
  /\ delivered' = answer
  /\ UNCHANGED <<known, spent, inFlight, strikes, late, ending, answer>>

\* A failure is delivered of an ended session, or ends it.
GiveUp ==
  /\ delivered = Nothing
  /\ delivered' = Failure
  /\ ending' = IF ending = "open" THEN "cancelled" ELSE ending
  /\ UNCHANGED <<known, spent, inFlight, strikes, late, answer>>

Next ==
  \/ Admit
  \/ \E evidence \in SUBSET Evidence : Bring(evidence) \/ Serve(evidence)
  \/ Strike
  \/ \E a \in Said : Accept(a)
  \/ Cancel
  \/ Expire
  \/ Deliver
  \/ GiveUp

Spec == Init /\ [][Next]_vars
=============================================================================
