---------------------------- MODULE OfflineRescore ----------------------------
(***************************************************************************)
(* Scoring a sealed run again without model, database or dbt               *)
(* (evaluation_rescore.py), from the inputs its evaluation left behind     *)
(* (evaluation_inputs.py).                                                 *)
(*                                                                         *)
(* A score is a directory named by a digest of the inputs and of the       *)
(* scorer's identity; since the inputs of a run do not change, the         *)
(* identity alone names it here.  The directory is written under a         *)
(* temporary name that any process scoring the same thing would use, and   *)
(* renamed.  Nothing locks it: several processes may be at it, each may be *)
(* killed, and every process that leaves sweeps the temporary directory it *)
(* finds.                                                                  *)
(***************************************************************************)
EXTENDS Naturals, FiniteSets

CONSTANTS
  Processes,   \* processes that score the run
  Identities,  \* identities of the scorers: name, version, source, dependencies
  Original,    \* the identity the run was evaluated with
  Checks,      \* the checks an evaluation is made of
  Verdict,     \* per identity: what its scorer finds of each check
  MaxKills,    \* bound on killed processes
  MaxDamage    \* bound on damage to the run's files

(* An evaluation lists a check or not; a listed check may not apply.         *)
Findings == {"absent", "inapplicable", "passed", "failed"}

ASSUME RescoreAssumption ==
  /\ Original \in Identities
  /\ Verdict \in [Identities -> [Checks -> Findings]]
  /\ MaxKills \in Nat /\ MaxDamage \in Nat

VARIABLES
  inputs,   \* scoring-inputs/<run_id>/: the condition of its two files
  archived, \* the condition of artifacts/<run_id>/evaluation.json
  store,    \* per identity: the files of its score directory, or NoDir
  tmp,      \* per identity: the files of its temporary directory, or NoDir
  pc,       \* per process: where it is
  as,       \* per process: the identity it scores as
  draft,    \* per process: the score it has computed
  kills,    \* processes killed so far
  damage,   \* times a file was damaged so far
  given     \* the scores callers were given

disk == <<inputs, archived, store, tmp>>
vars == <<disk, pc, as, draft, kills, damage, given>>

Files == {"provenance", "evaluation", "diff", "report"}
NoDir == [open |-> FALSE, files |-> <<>>]
Dir(files) == [open |-> TRUE, files |-> files]
(* Bytes that are not the written ones, be they another run's, are garbled.  *)
Conditions == {"whole", "garbled", "missing"}

(* What the evaluation published: the scenario, verification, diagnosis,     *)
(* recovery and budget, with the digests of the six archived files; and an   *)
(* index with the run, the digest of that file and the digest of its content.*)
Published == [index |-> "whole", bundle |-> "whole"]

NoDiff == [available |-> FALSE, changes |-> <<>>]
NoDraft == [by |-> "nobody", verdict |-> <<>>, diff |-> NoDiff]

Init ==
  /\ inputs = Published /\ archived = "whole"
  /\ store = [i \in Identities |-> NoDir]
  /\ tmp = [i \in Identities |-> NoDir]
  /\ pc = [p \in Processes |-> "idle"]
  /\ as = [p \in Processes |-> Original]
  /\ draft = [p \in Processes |-> NoDraft]
  /\ kills = 0 /\ damage = 0
  /\ given = {}

(* What RescoreContract sees of a score, and of the disk and the callers.    *)
Shown(d) ==
  [verdict |-> d.verdict,
   difference |-> IF ~d.diff.available THEN "unavailable"
                  ELSE IF \A c \in DOMAIN d.diff.changes : d.diff.changes[c] = "UNCHANGED"
                  THEN "same" ELSE "different"]
Standing ==
  [i \in Identities |-> IF store[i].open THEN Shown(store[i].files["provenance"])
                        ELSE [verdict |-> <<>>, difference |-> "none"]]
ShownTo == {<<g[1], Shown(g[2])>> : g \in given}

Contract == INSTANCE RescoreContract WITH published <- Standing, told <- ShownTo

Goto(p, label) == pc' = [pc EXCEPT ![p] = label] /\ UNCHANGED <<as, draft>>

(* The process returns or raises.                                            *)
Leave(p) ==
  /\ pc' = [pc EXCEPT ![p] = "idle"]
  /\ as' = [as EXCEPT ![p] = Original]
  /\ draft' = [draft EXCEPT ![p] = NoDraft]

-----------------------------------------------------------------------------
(* Reading the run *)

(* The bundle read back: its schema, its evaluator's version, the digests of *)
(* its parts and its kernel state, restored from the trace.                  *)
FinalizeBundle == IF inputs.bundle = "whole" THEN "VERIFIED" ELSE "SCORING_INPUTS_INVALID"

(* The index must name this run, the digest of the bundle's bytes and the    *)
(* digest of what they say.                                                  *)
LoadInputs ==
  CASE "missing" \in {inputs.index, inputs.bundle} -> "SCORING_INPUTS_MISSING"
    [] inputs.index # "whole"                      -> "SCORING_INPUTS_INVALID"
    [] OTHER                                       -> FinalizeBundle

-----------------------------------------------------------------------------
(* What a score says *)

(* How a check changed; one that lists other details under the same outcome  *)
(* is kept apart from this.                                                  *)
CheckChange(before, after) ==
  CASE before = "absent" -> "ADDED"
    [] after = "absent" -> "REMOVED"
    [] before # after /\ "inapplicable" \in {before, after} -> "APPLICABILITY_CHANGED"
    [] before = after -> "UNCHANGED"
    [] before = "passed" /\ after = "failed" -> "PASSED_TO_FAILED"
    [] before = "failed" /\ after = "passed" -> "FAILED_TO_PASSED"

(* Of every check one of the two evaluations lists.                          *)
Changes(before, after) ==
  [c \in {c \in Checks : {before[c], after[c]} # {"absent"}} |->
     CheckChange(before[c], after[c])]

(* The difference to the archived evaluation, when its digest is the one the *)
(* inputs recorded.                                                          *)
Diff(verdict) ==
  IF archived = "whole"
  THEN [available |-> TRUE, changes |-> Changes(Verdict[Original], verdict)]
  ELSE NoDiff

(* The provenance holds the digests of the other files; the report repeats   *)
(* the difference and says when it was made.                                 *)
Content(f, d) ==
  CASE f \in {"provenance", "report"} -> d
    [] f = "evaluation"               -> [d EXCEPT !.by = "nobody", !.diff = NoDiff]
    [] f = "diff"                     -> [d EXCEPT !.by = "nobody"]

(* A published score is accepted when every file has the digest its          *)
(* provenance gives it.                                                      *)
Accepted(i) ==
  /\ store[i].open /\ Files \subseteq DOMAIN store[i].files
  /\ \A f \in Files : store[i].files[f] = Content(f, store[i].files["provenance"])

-----------------------------------------------------------------------------
(* Scoring *)

(* A published score is given as it is; nothing is computed again.           *)
Reuse(p, i) ==
  /\ pc[p] = "idle" /\ LoadInputs = "VERIFIED"
  /\ Accepted(i)
  /\ given' = given \cup {<<i, store[i].files["provenance"]>>}
  /\ UNCHANGED <<disk, pc, as, draft, kills, damage>>

(* Two published scores are compared check by check; the inputs are not read.*)
Compare(p, i, j) ==
  /\ pc[p] = "idle"
  /\ Accepted(i) /\ Accepted(j)
  /\ given' = given \cup {<<k, store[k].files["provenance"]>> : k \in {i, j}}
  /\ UNCHANGED <<disk, pc, as, draft, kills, damage>>

Begin(p, i) ==
  /\ pc[p] = "idle" /\ LoadInputs = "VERIFIED"
  /\ ~store[i].open
  /\ as' = [as EXCEPT ![p] = i]
  /\ pc' = [pc EXCEPT ![p] = "score"]
  /\ UNCHANGED <<disk, draft, kills, damage, given>>

Score(p) ==
  /\ pc[p] = "score"
  /\ draft' = [draft EXCEPT ![p] =
                 [by |-> p, verdict |-> Verdict[as[p]], diff |-> Diff(Verdict[as[p]])]]
  /\ pc' = [pc EXCEPT ![p] = "mkdir"]
  /\ UNCHANGED <<disk, as, kills, damage, given>>

-----------------------------------------------------------------------------
(* Writing the score *)

(* Variant: a temporary directory that is there is used. *)
MakeTemporaryShared(p) ==
  /\ pc[p] = "mkdir"
  /\ tmp' = IF tmp[as[p]].open THEN tmp ELSE [tmp EXCEPT ![as[p]] = Dir(<<>>)]
  /\ Goto(p, "write")
  /\ UNCHANGED <<inputs, archived, store, kills, damage, given>>

MakeTemporary(p) ==
  /\ pc[p] = "mkdir"
  /\ IF tmp[as[p]].open
     THEN Leave(p) /\ UNCHANGED tmp
     ELSE Goto(p, "write") /\ tmp' = [tmp EXCEPT ![as[p]] = Dir(<<>>)]
  /\ UNCHANGED <<inputs, archived, store, kills, damage, given>>

Order == <<"provenance", "evaluation", "diff", "report">>

(* The files are written one after another, each over what has its name.     *)
(* When another process has swept the directory the write fails.             *)
WriteFile(p) ==
  \E n \in 1..4 :
    /\ pc[p] = IF n = 1 THEN "write" ELSE Order[n - 1]
    /\ IF tmp[as[p]].open
       THEN /\ tmp' = [tmp EXCEPT ![as[p]] =
                         Dir([f \in DOMAIN @.files \cup {Order[n]} |->
                                IF f = Order[n] THEN Content(f, draft[p]) ELSE @.files[f]])]
            /\ Goto(p, Order[n])
       ELSE Goto(p, "sweep") /\ UNCHANGED tmp
    /\ UNCHANGED <<inputs, archived, store, kills, damage, given>>

(* A write fails, or the rename does, however often it is tried again.       *)
WriteFails(p) ==
  /\ pc[p] \in {"write", "provenance", "evaluation", "diff", "rename"}
  /\ Goto(p, "sweep")
  /\ UNCHANGED <<disk, kills, damage, given>>

CheckFinal(p) ==
  /\ pc[p] = "report"
  /\ Goto(p, IF store[as[p]].open THEN "sweep" ELSE "rename")
  /\ UNCHANGED <<disk, kills, damage, given>>

(* A directory is not renamed over one that holds files.                     *)
Rename(p) ==
  /\ pc[p] = "rename"
  /\ IF tmp[as[p]].open /\ ~store[as[p]].open
     THEN /\ store' = [store EXCEPT ![as[p]] = tmp[as[p]]]
          /\ tmp' = [tmp EXCEPT ![as[p]] = NoDir]
          /\ Goto(p, "renamed")
     ELSE UNCHANGED <<store, tmp>> /\ Goto(p, "sweep")
  /\ UNCHANGED <<inputs, archived, kills, damage, given>>

(* Whoever leaves empties the temporary directory it finds, whoever made it, *)
(* and removes it; a file written in between makes the removal fail.  The    *)
(* caller gets the score, if it was renamed, unless the removal raises.      *)
Owed(p) == IF pc[p] \in {"renamed", "renamed rmdir"} THEN {<<as[p], draft[p]>>} ELSE {}

Sweep(p) ==
  /\ pc[p] \in {"sweep", "renamed"}
  /\ IF tmp[as[p]].open
     THEN /\ tmp' = [tmp EXCEPT ![as[p]] = Dir(<<>>)]
          /\ Goto(p, IF pc[p] = "sweep" THEN "rmdir" ELSE "renamed rmdir")
          /\ UNCHANGED given
     ELSE UNCHANGED tmp /\ Leave(p) /\ given' = given \cup Owed(p)
  /\ UNCHANGED <<inputs, archived, store, kills, damage>>

RemoveTemporary(p) ==
  /\ pc[p] \in {"rmdir", "renamed rmdir"}
  /\ IF tmp[as[p]].open /\ DOMAIN tmp[as[p]].files = {}
     THEN tmp' = [tmp EXCEPT ![as[p]] = NoDir] /\ given' = given \cup Owed(p)
     ELSE UNCHANGED <<tmp, given>>
  /\ Leave(p)
  /\ UNCHANGED <<inputs, archived, store, kills, damage>>

-----------------------------------------------------------------------------
(* Faults *)

(* A killed process leaves its temporary directory.                          *)
Kill(p) ==
  /\ pc[p] # "idle" /\ kills < MaxKills
  /\ kills' = kills + 1
  /\ Leave(p)
  /\ UNCHANGED <<disk, damage, given>>

Damage ==
  /\ damage < MaxDamage
  /\ damage' = damage + 1
  /\ \E condition \in Conditions \ {"whole"} :
       \/ \E f \in {"index", "bundle"} : inputs' = [inputs EXCEPT ![f] = condition]
                                        /\ UNCHANGED archived
       \/ archived' = condition /\ UNCHANGED inputs
  /\ UNCHANGED <<store, tmp, pc, as, draft, kills, given>>

Restore ==
  /\ <<inputs, archived>> # <<Published, "whole">>
  /\ inputs' = Published /\ archived' = "whole"
  /\ UNCHANGED <<store, tmp, pc, as, draft, kills, damage, given>>

Write(p) ==
  MakeTemporary(p) \/ WriteFile(p) \/ WriteFails(p) \/ CheckFinal(p) \/ Rename(p)
    \/ Sweep(p) \/ RemoveTemporary(p)

Next ==
  \/ \E p \in Processes :
        \/ \E i \in Identities : Reuse(p, i) \/ Begin(p, i)
        \/ \E i, j \in Identities : Compare(p, i, j)
        \/ Score(p) \/ Write(p) \/ Kill(p)
  \/ Damage \/ Restore

Spec == Init /\ [][Next]_vars

-----------------------------------------------------------------------------
(* Properties *)

(* A score once given to a caller is what its directory holds from then on:  *)
(* complete, from one process, of its own scorer, and with a difference to   *)
(* the archived evaluation that is empty exactly when the two evaluations    *)
(* agree.  Every published directory is accepted when it is read back.       *)
(* Guards the temporary name all processes share, writes of two of them at   *)
(* once, the sweeping of a directory another one is filling, and an archived *)
(* evaluation that was damaged.                                              *)
PublishedIsAccepted ==
  \A i \in Identities : store[i].open => Accepted(i) /\ DOMAIN store[i].files = Files

GivenIsPublished ==
  \A g \in given : store[g[1]].open /\ store[g[1]].files["provenance"] = g[2]

DiffIsTrue(d) ==
  d.diff.available =>
    ((\A c \in DOMAIN d.diff.changes : d.diff.changes[c] = "UNCHANGED")
       <=> d.verdict = Verdict[Original])

GivenScoresStay ==
  /\ PublishedIsAccepted
  /\ GivenIsPublished
  /\ \A g \in given : g[2].verdict = Verdict[g[1]] /\ DiffIsTrue(g[2])

(* Processes, files, sweeping, kills and damage are not seen from outside: a *)
(* score appears at once, true, and is the one everybody is given from then  *)
(* on.                                                                       *)
ImplementsContract == Contract!Spec
=============================================================================
