---------------------------- MODULE RescoreContract ----------------------------
(***************************************************************************)
(* What scoring a sealed run again promises, without directories, files or *)
(* processes: a score, once there, is what the scorer of that identity     *)
(* finds, is never replaced or withdrawn, says of its difference to the    *)
(* archived evaluation nothing or the truth, and callers are told of no    *)
(* other.                                                                  *)
(***************************************************************************)
CONSTANTS Identities, Original, Verdict

VARIABLES
  published, \* per identity: its score, or Nothing
  told       \* the scores callers were given

vars == <<published, told>>

Nothing == [verdict |-> <<>>, difference |-> "none"]

Init ==
  /\ published = [i \in Identities |-> Nothing]
  /\ told = {}

(* What may truly be said of the difference, as far as it is known.          *)
Differences(i) ==
  {"unavailable", IF Verdict[i] = Verdict[Original] THEN "same" ELSE "different"}

(* A score may appear and its scorer not live to tell of it.                 *)
Publish(i, difference) ==
  /\ published[i] = Nothing
  /\ published' = [published EXCEPT
                     ![i] = [verdict |-> Verdict[i], difference |-> difference]]
  /\ UNCHANGED told

Consult(some) ==
  /\ \A i \in some : published[i] # Nothing
  /\ UNCHANGED published
  /\ told' = told \cup {<<i, published[i]>> : i \in some}

Next ==
  \/ \E i \in Identities : \E difference \in Differences(i) : Publish(i, difference)
  \/ \E some \in SUBSET Identities : Consult(some)

Spec == Init /\ [][Next]_vars
=============================================================================
