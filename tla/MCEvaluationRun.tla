---------------------------- MODULE MCEvaluationRun ----------------------------
(* Four scenarios of the catalog in small: a silent drop of payments with a   *)
(* distractor column, a type change of the payment amount, a null customer of *)
(* an order with a null last name beside it, and a health control.            *)
EXTENDS EvaluationRun, TLC

CONSTANTS r1, r2, silent, type, customer, control, drop, note, amount, user

MCDeclared ==
  [c \in Cases |-> CASE c = silent   -> <<drop, note>>
                     [] c = type     -> <<amount>>
                     [] c = customer -> <<user>>
                     [] c = control  -> <<>>]

\* Once the type of the amount has changed no payment is found by its values; the
\* type itself is read whatever rows there are.
MCObscured == [m \in Mutations |-> IF m = drop THEN {amount} ELSE {}]

MCRelation ==
  [m \in Mutations |-> IF m \in {drop, amount, note} THEN "raw_payments" ELSE m]

MCKind ==
  [m \in Mutations |-> CASE m = drop             -> "ROWS"
                         [] m \in {amount, note} -> "SCHEMA"
                         [] OTHER                -> "VALUE"]

\* A null is in raw_orders or in raw_customers, which no other mutation touches.
\* The control's profile covers raw_orders.
MCProfiled == [c \in Cases |-> IF c = control THEN {user} ELSE {}]

\* The amount stops the staging model and skips what is below it.  Otherwise the
\* tests of the orders fail: a null customer, and an order left without payments,
\* which is why a silent drop is built without tests.
MCFailedNodes(c, S) ==
  IF amount \in S THEN {"stg_payments"}
  ELSE IF c = silent THEN {}
  ELSE {"not_null_orders_customer_id" : m \in S \cap {user}}
         \cup {"not_null_orders_amount" : m \in S \cap {drop}}

RunSymmetry == Permutations({r1, r2})
================================================================================
