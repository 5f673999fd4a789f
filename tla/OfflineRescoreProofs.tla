------------------------- MODULE OfflineRescoreProofs -------------------------
(***************************************************************************)
(* A score once given stays what it was, for any number of processes and   *)
(* scorers, any verdicts, kills and damage.                                *)
(*                                                                         *)
(* The argument: until a score is published, at most one process is past   *)
(* the making of its temporary directory, so that what is renamed is what  *)
(* one process wrote.  After it is published other processes may make,     *)
(* fill and sweep that directory at will: nothing is renamed over a score. *)
(***************************************************************************)
EXTENDS OfflineRescore, TLAPS

Working == {"write", "provenance", "evaluation", "diff", "report", "rename",
            "renamed", "renamed rmdir", "sweep", "rmdir"}
Sweeping == {"renamed", "renamed rmdir", "sweep", "rmdir"}
Labels == {"idle", "score", "mkdir"} \cup Working

(* The files a process has written once it is at a label.                    *)
Written(label) ==
  CASE label = "write"      -> {}
    [] label = "provenance" -> {"provenance"}
    [] label = "evaluation" -> {"provenance", "evaluation"}
    [] label = "diff"       -> {"provenance", "evaluation", "diff"}
    [] OTHER                -> Files

TypesInv ==
  /\ pc \in [Processes -> Labels]
  /\ as \in [Processes -> Identities]
  /\ DOMAIN draft = Processes
  /\ DOMAIN store = Identities /\ DOMAIN tmp = Identities
  /\ \A i \in Identities : store[i].open \in BOOLEAN /\ tmp[i].open \in BOOLEAN

(* What a process has computed is what its scorer finds, with a true         *)
(* difference.                                                               *)
SaysTruth(i, d) == d.verdict = Verdict[i] /\ DiffIsTrue(d)

DraftInv ==
  \A p \in Processes : pc[p] \in Working \cup {"mkdir"} => SaysTruth(as[p], draft[p])

(* Until a score is published one process at most works on it, in a          *)
(* directory that is there.                                                  *)
OwnerInv ==
  \A p \in Processes :
    (pc[p] \in Working /\ ~store[as[p]].open) =>
      /\ tmp[as[p]].open
      /\ \A q \in Processes : (pc[q] \in Working /\ as[q] = as[p]) => q = p

(* That directory holds what the process has written, and nothing else.      *)
FilledInv ==
  \A p \in Processes :
    (pc[p] \in Working \ Sweeping /\ ~store[as[p]].open) =>
      /\ DOMAIN tmp[as[p]].files = Written(pc[p])
      /\ \A f \in Written(pc[p]) : tmp[as[p]].files[f] = Content(f, draft[p])

PublishedInv ==
  \A i \in Identities :
    store[i].open => /\ DOMAIN store[i].files = Files
                     /\ Accepted(i)
                     /\ SaysTruth(i, store[i].files["provenance"])

(* What a process has renamed is published.                                  *)
RenamedInv ==
  \A p \in Processes :
    pc[p] \in {"renamed", "renamed rmdir"} =>
      store[as[p]].open /\ store[as[p]].files["provenance"] = draft[p]

GivenInv ==
  \A g \in given : /\ g[1] \in Identities
                   /\ store[g[1]].open /\ store[g[1]].files["provenance"] = g[2]

IInv == TypesInv /\ DraftInv /\ OwnerInv /\ FilledInv /\ PublishedInv /\ RenamedInv
          /\ GivenInv

-----------------------------------------------------------------------------
(* A published score is read. *)
LEMMA ReuseKept ==
  ASSUME IInv, RescoreAssumption, NEW p \in Processes, NEW i \in Identities, Reuse(p, i)
  PROVE  IInv'
<1>1. TypesInv'
  BY DEF IInv, TypesInv, Reuse, disk, Labels, Working, NoDir, Dir
<1>2. DraftInv'
  BY DEF IInv, TypesInv, DraftInv, Reuse, disk, Working
<1>3. OwnerInv'
  BY DEF IInv, TypesInv, OwnerInv, Reuse, disk, Working
<1>4. FilledInv'
  BY DEF IInv, TypesInv, OwnerInv, FilledInv, Reuse, disk, Working
<1>5. PublishedInv'
  BY DEF IInv, TypesInv, PublishedInv, Reuse, disk, Accepted
<1>6. GivenInv'
  BY DEF IInv, TypesInv, PublishedInv, GivenInv, Reuse, disk, Accepted
<1>7. RenamedInv'
  BY DEF IInv, TypesInv, RenamedInv, Reuse, disk
<1> QED
  BY <1>1, <1>2, <1>3, <1>4, <1>5, <1>6, <1>7 DEF IInv

(* Two published scores are read. *)
LEMMA CompareKept ==
  ASSUME IInv, RescoreAssumption, NEW p \in Processes,
         NEW i \in Identities, NEW j \in Identities, Compare(p, i, j)
  PROVE  IInv'
<1>1. TypesInv'
  BY DEF IInv, TypesInv, Compare, disk, Labels, Working, NoDir, Dir
<1>2. DraftInv'
  BY DEF IInv, TypesInv, DraftInv, Compare, disk, Working
<1>3. OwnerInv'
  BY DEF IInv, TypesInv, OwnerInv, Compare, disk, Working
<1>4. FilledInv'
  BY DEF IInv, TypesInv, OwnerInv, FilledInv, Compare, disk, Working
<1>5. PublishedInv'
  BY DEF IInv, TypesInv, PublishedInv, Compare, disk, Accepted
<1>6. GivenInv'
  BY DEF IInv, TypesInv, PublishedInv, GivenInv, Compare, disk, Accepted
<1>7. RenamedInv'
  BY DEF IInv, TypesInv, RenamedInv, Compare, disk
<1> QED
  BY <1>1, <1>2, <1>3, <1>4, <1>5, <1>6, <1>7 DEF IInv

(* A process starts to score. *)
LEMMA BeginKept ==
  ASSUME IInv, RescoreAssumption, NEW p \in Processes, NEW i \in Identities, Begin(p, i)
  PROVE  IInv'
<1>1. TypesInv'
  BY DEF IInv, TypesInv, Begin, disk, Labels, Working, NoDir, Dir
<1>2. DraftInv'
  BY DEF IInv, TypesInv, DraftInv, Begin, disk, Working
<1>3. OwnerInv'
  BY DEF IInv, TypesInv, OwnerInv, Begin, disk, Working
<1>4. FilledInv'
  BY DEF IInv, TypesInv, OwnerInv, FilledInv, Begin, disk, Working
<1>5. PublishedInv'
  BY DEF IInv, TypesInv, PublishedInv, Begin, disk, Accepted
<1>6. GivenInv'
  BY DEF IInv, TypesInv, PublishedInv, GivenInv, Begin, disk
<1>7. RenamedInv'
  BY DEF IInv, TypesInv, RenamedInv, Begin, disk
<1> QED
  BY <1>1, <1>2, <1>3, <1>4, <1>5, <1>6, <1>7 DEF IInv

(* The difference computed for a score is true of it. *)
LEMMA DiffTrue ==
  ASSUME RescoreAssumption, NEW i \in Identities, NEW b,
         NEW d, d = [by |-> b, verdict |-> Verdict[i], diff |-> Diff(Verdict[i])]
  PROVE  SaysTruth(i, d)
<1>1. CASE archived # "whole"
  BY <1>1 DEF SaysTruth, DiffIsTrue, Diff, NoDiff
<1>2. CASE archived = "whole"
  <2> DEFINE before == Verdict[Original]
             after  == Verdict[i]
             listed == {c \in Checks : {before[c], after[c]} # {"absent"}}
  <2>1. before \in [Checks -> Findings] /\ after \in [Checks -> Findings]
    BY DEF RescoreAssumption
  <2>2. d.verdict = after /\ d.diff.available
        /\ d.diff.changes = [c \in listed |-> CheckChange(before[c], after[c])]
    BY <1>2 DEF Diff, Changes
  <2>3. ASSUME NEW c \in listed
        PROVE  CheckChange(before[c], after[c]) = "UNCHANGED" <=> before[c] = after[c]
    BY <2>1 DEF CheckChange, Findings
  <2>4. \A c \in Checks \ listed : before[c] = after[c]
    BY <2>1
  <2>5. ASSUME \A c \in listed : before[c] = after[c] PROVE after = before
    <3>1. \A c \in Checks : after[c] = before[c]
      BY <2>4, <2>5
    <3> QED
      BY <2>1, <3>1
  <2>6. ASSUME after = before PROVE \A c \in listed : before[c] = after[c]
    BY <2>6
  <2>7. (\A c \in DOMAIN d.diff.changes : d.diff.changes[c] = "UNCHANGED")
           <=> (\A c \in listed : before[c] = after[c])
    <3> HIDE DEF listed, before, after
    <3>1. DOMAIN d.diff.changes = listed
      BY <2>2
    <3>2. \A c \in listed : d.diff.changes[c] = CheckChange(before[c], after[c])
      BY <2>2
    <3> QED
      BY <2>3, <3>1, <3>2
  <2> QED
    BY <2>2, <2>5, <2>6, <2>7 DEF SaysTruth, DiffIsTrue
<1> QED
  BY <1>1, <1>2

(* A score is computed. *)
LEMMA ScoreKept ==
  ASSUME IInv, RescoreAssumption, NEW p \in Processes, Score(p)
  PROVE  IInv'
<1>1. TypesInv'
  BY DEF IInv, TypesInv, Score, disk, Labels, Working, NoDir, Dir
<1>2. DraftInv'
  BY DiffTrue DEF IInv, TypesInv, DraftInv, Score, disk, Working
<1>3. OwnerInv'
  BY DEF IInv, TypesInv, OwnerInv, Score, disk, Working
<1>4. FilledInv'
  BY DEF IInv, TypesInv, OwnerInv, FilledInv, Score, disk, Working
<1>5. PublishedInv'
  BY DEF IInv, TypesInv, PublishedInv, Score, disk, Accepted
<1>6. GivenInv'
  BY DEF IInv, TypesInv, PublishedInv, GivenInv, Score, disk
<1>7. RenamedInv'
  BY DEF IInv, TypesInv, RenamedInv, Score, disk
<1> QED
  BY <1>1, <1>2, <1>3, <1>4, <1>5, <1>6, <1>7 DEF IInv

(* What a process has renamed stays published.                               *)
LEMMA RenamedKept ==
  ASSUME IInv, NEW p \in Processes,
         \A q \in Processes \ {p} : pc'[q] = pc[q] /\ as'[q] = as[q] /\ draft'[q] = draft[q],
         \A i \in Identities : store[i].open => store'[i] = store[i],
         pc'[p] \in {"renamed", "renamed rmdir"} =>
           store'[as'[p]].open /\ store'[as'[p]].files["provenance"] = draft'[p]
  PROVE  RenamedInv'
<1>1. ASSUME NEW q \in Processes, pc'[q] \in {"renamed", "renamed rmdir"}
      PROVE  store'[as'[q]].open /\ store'[as'[q]].files["provenance"] = draft'[q]
  <2>1. CASE q = p
    BY <1>1, <2>1
  <2>2. CASE q # p
    <3>1. pc[q] \in {"renamed", "renamed rmdir"} /\ as'[q] = as[q] /\ draft'[q] = draft[q]
      BY <1>1, <2>2
    <3>2. /\ as[q] \in Identities
          /\ store[as[q]].open /\ store[as[q]].files["provenance"] = draft[q]
      BY <3>1 DEF IInv, TypesInv, RenamedInv
    <3>3. store'[as[q]] = store[as[q]]
      BY <3>2
    <3> QED
      BY <3>1, <3>2, <3>3
  <2> QED
    BY <2>1, <2>2
<1> QED
  BY <1>1 DEF RenamedInv

(* The score a process may give is published.                                *)
LEMMA OwedPublished ==
  ASSUME IInv, NEW p \in Processes, UNCHANGED store, given' \subseteq given \cup Owed(p)
  PROVE  GivenInv'
<1>1. ASSUME NEW g \in Owed(p)
      PROVE  /\ g[1] \in Identities
             /\ store[g[1]].open /\ store[g[1]].files["provenance"] = g[2]
  <2>1. pc[p] \in {"renamed", "renamed rmdir"} /\ g = <<as[p], draft[p]>>
    BY <1>1 DEF Owed
  <2>2. g[1] = as[p] /\ g[2] = draft[p]
    BY <2>1
  <2> QED
    BY <2>1, <2>2 DEF IInv, TypesInv, RenamedInv
<1>2. ASSUME NEW g \in given
      PROVE  /\ g[1] \in Identities
             /\ store[g[1]].open /\ store[g[1]].files["provenance"] = g[2]
  BY DEF IInv, GivenInv
<1> QED
  BY <1>1, <1>2 DEF GivenInv

(* A process returns, raises or is killed.                                   *)
LEMMA LeaveKept ==
  ASSUME IInv, RescoreAssumption, NEW p \in Processes, Leave(p), UNCHANGED disk,
         given' \subseteq given \cup Owed(p)
  PROVE  IInv'
<1>1. /\ pc' \in [Processes -> Labels] /\ pc'[p] = "idle"
      /\ as' \in [Processes -> Identities] /\ DOMAIN draft' = Processes
      /\ \A q \in Processes \ {p} : pc'[q] = pc[q] /\ as'[q] = as[q] /\ draft'[q] = draft[q]
  BY DEF Leave, RescoreAssumption, IInv, TypesInv, Labels
<1>2. "idle" \notin Working \cup {"mkdir"}
  BY DEF Working
<1>3. UNCHANGED <<store, tmp>>
  BY DEF disk
<1>4. TypesInv'
  BY <1>1, <1>3 DEF IInv, TypesInv
<1>5. DraftInv'
  BY <1>1, <1>2 DEF IInv, DraftInv
<1>6. \A q \in Processes : pc'[q] \in Working =>
         q # p /\ pc'[q] = pc[q] /\ as'[q] = as[q] /\ draft'[q] = draft[q]
  BY <1>1, <1>2
<1>7. OwnerInv'
  <2>1. ASSUME NEW q \in Processes, pc'[q] \in Working, ~store[as[q]].open
        PROVE  /\ tmp[as[q]].open
               /\ \A r \in Processes : (pc'[r] \in Working /\ as'[r] = as[q]) => r = q
    <3>1. /\ tmp[as[q]].open
          /\ \A r \in Processes : (pc[r] \in Working /\ as[r] = as[q]) => r = q
      BY <1>6, <2>1 DEF IInv, OwnerInv
    <3> QED
      BY <1>6, <3>1
  <2> QED
    BY <1>6, <1>3, <2>1 DEF OwnerInv
<1>8. FilledInv'
  BY <1>6, <1>3 DEF IInv, FilledInv
<1>9. RenamedInv' /\ GivenInv'
  BY <1>1, <1>3, RenamedKept, OwedPublished
<1> QED
  BY <1>3, <1>4, <1>5, <1>7, <1>8, <1>9 DEF IInv, PublishedInv, Accepted

(* The temporary directory is made when there is none.                       *)
LEMMA MakeTemporaryKept ==
  ASSUME IInv, RescoreAssumption, NEW p \in Processes, MakeTemporary(p)
  PROVE  IInv'
<1>1. CASE tmp[as[p]].open
  <2>1. Leave(p) /\ UNCHANGED <<disk, given>>
    BY <1>1 DEF MakeTemporary, disk
  <2> QED
    BY <2>1, LeaveKept
<1>2. CASE ~tmp[as[p]].open
  <2> USE <1>2 DEF IInv, MakeTemporary
  <2>1. as[p] \in Identities /\ UNCHANGED <<as, draft, inputs, archived, store, given>>
    BY DEF TypesInv, Goto
  <2>2. pc' = [pc EXCEPT ![p] = "write"] /\ pc[p] = "mkdir"
    BY DEF Goto
  <2>3. pc'[p] = "write" /\ \A q \in Processes \ {p} : pc'[q] = pc[q]
    BY <2>2 DEF TypesInv
  <2>4. tmp' = [tmp EXCEPT ![as[p]] = Dir(<<>>)]
    OBVIOUS
  <2>5. /\ tmp'[as[p]].open /\ DOMAIN tmp'[as[p]].files = {} /\ DOMAIN tmp' = Identities
        /\ \A i \in Identities \ {as[p]} : tmp'[i] = tmp[i]
    BY <2>1, <2>4 DEF TypesInv, Dir
  <2>6. \A q \in Processes \ {p} : ~store[as[q]].open /\ pc[q] \in Working => as[q] # as[p]
    BY DEF OwnerInv
  <2>7. TypesInv'
    <3>1. pc' \in [Processes -> Labels]
      BY <2>2 DEF TypesInv, Labels, Working
    <3>2. \A i \in Identities : tmp'[i].open \in BOOLEAN
      BY <2>5 DEF TypesInv
    <3> QED
      BY <2>1, <2>5, <3>1, <3>2 DEF TypesInv
  <2>8. DraftInv'
    BY <2>1, <2>2, <2>3 DEF DraftInv
  <2>9. OwnerInv'
    <3>1. ASSUME NEW q \in Processes, pc'[q] \in Working, ~store[as[q]].open
          PROVE  /\ tmp'[as[q]].open
                 /\ \A r \in Processes : (pc'[r] \in Working /\ as[r] = as[q]) => r = q
      <4>1. \A r \in Processes \ {p} : pc'[r] \in Working => pc[r] \in Working
        BY <2>3
      <4>2. CASE q = p
        <5>1. \A r \in Processes \ {p} : pc[r] \in Working => as[r] # as[q]
          BY <2>6, <3>1, <4>2
        <5> QED
          BY <2>5, <4>1, <4>2, <5>1
      <4>3. CASE q # p
        <5>1. pc[q] \in Working /\ as[q] # as[p] /\ as[q] \in Identities
          BY <2>6, <3>1, <4>1, <4>3 DEF TypesInv
        <5>2. /\ tmp[as[q]].open
              /\ \A r \in Processes : (pc[r] \in Working /\ as[r] = as[q]) => r = q
          BY <3>1, <5>1 DEF OwnerInv
        <5> QED
          BY <2>5, <4>1, <5>1, <5>2
      <4> QED
        BY <4>2, <4>3
    <3> QED
      BY <2>1, <3>1 DEF OwnerInv
  <2>10. FilledInv'
    <3>1. ASSUME NEW q \in Processes, pc'[q] \in Working \ Sweeping,
                 ~store[as[q]].open
          PROVE  /\ DOMAIN tmp'[as[q]].files = Written(pc'[q])
                 /\ \A f \in Written(pc'[q]) : tmp'[as[q]].files[f] = Content(f, draft[q])
      <4>1. CASE q = p
        BY <2>3, <2>5, <4>1 DEF Written
      <4>2. CASE q # p
        <5>1. /\ pc'[q] = pc[q] /\ pc[q] \in Working \ Sweeping
              /\ as[q] # as[p] /\ as[q] \in Identities
          BY <2>3, <2>6, <3>1, <4>2 DEF TypesInv
        <5>2. tmp'[as[q]] = tmp[as[q]]
          BY <2>5, <5>1
        <5> QED
          BY <3>1, <5>1, <5>2 DEF FilledInv
      <4> QED
        BY <4>1, <4>2
    <3> QED
      BY <2>1, <3>1 DEF FilledInv
  <2>11. PublishedInv' /\ GivenInv'
    BY <2>1 DEF PublishedInv, GivenInv, Accepted
  <2>12. RenamedInv'
    BY <2>1, <2>3, RenamedKept
  <2> QED
    BY <2>7, <2>8, <2>9, <2>10, <2>11, <2>12
<1> QED
  BY <1>1, <1>2

(* A process that works on an unpublished score is alone at it: what it does *)
(* there changes what the invariant says of no other process.                *)
LEMMA AloneKept ==
  ASSUME IInv, NEW p \in Processes, pc[p] \in Working,
         \A q \in Processes \ {p} : pc'[q] = pc[q] /\ as'[q] = as[q] /\ draft'[q] = draft[q],
         \A i \in Identities \ {as[p]} : store'[i] = store[i] /\ tmp'[i] = tmp[i],
         store[as[p]].open => store'[as[p]].open,
         (pc'[p] \in Working /\ ~store'[as'[p]].open) =>
           /\ as'[p] = as[p] /\ tmp'[as[p]].open
           /\ pc'[p] \notin Sweeping =>
                /\ DOMAIN tmp'[as[p]].files = Written(pc'[p])
                /\ \A f \in Written(pc'[p]) : tmp'[as[p]].files[f] = Content(f, draft'[p])
  PROVE  OwnerInv' /\ FilledInv'
<1>1. ASSUME NEW q \in Processes \ {p}, pc'[q] \in Working, ~store'[as'[q]].open
      PROVE  /\ pc'[q] = pc[q] /\ as'[q] = as[q] /\ draft'[q] = draft[q]
             /\ pc[q] \in Working /\ ~store[as[q]].open /\ as[q] # as[p]
             /\ tmp'[as[q]] = tmp[as[q]]
  <2>1. pc'[q] = pc[q] /\ as'[q] = as[q] /\ draft'[q] = draft[q] /\ pc[q] \in Working
    BY <1>1
  <2>2. as[q] \in Identities /\ as[p] \in Identities
    BY DEF IInv, TypesInv
  <2>3. ~store[as[q]].open
    <3>1. CASE as[q] = as[p]
      BY <1>1, <2>1, <3>1
    <3>2. CASE as[q] # as[p]
      <4>1. store'[as[q]] = store[as[q]]
        BY <2>2, <3>2
      <4> QED
        BY <1>1, <2>1, <4>1
    <3> QED
      BY <3>1, <3>2
  <2>4. as[q] # as[p]
    BY <2>1, <2>3 DEF IInv, OwnerInv
  <2>5. tmp'[as[q]] = tmp[as[q]]
    BY <2>2, <2>4
  <2> QED
    BY <2>1, <2>3, <2>4, <2>5
<1>2. OwnerInv'
  <2>1. ASSUME NEW q \in Processes, pc'[q] \in Working, ~store'[as'[q]].open
        PROVE  /\ tmp'[as'[q]].open
               /\ \A r \in Processes : (pc'[r] \in Working /\ as'[r] = as'[q]) => r = q
    <3>1. CASE q = p
      <4>1. ASSUME NEW r \in Processes, pc'[r] \in Working, as'[r] = as'[q], r # p
            PROVE  FALSE
        <5>1. as[r] # as[p] /\ as'[r] = as[r]
          BY <1>1, <2>1, <4>1
        <5>2. as'[p] = as[p]
          BY <2>1, <3>1
        <5> QED
          BY <3>1, <4>1, <5>1, <5>2
      <4>2. tmp'[as'[q]].open
        BY <2>1, <3>1
      <4> QED
        BY <3>1, <4>1, <4>2
    <3>2. CASE q # p
      <4>1. /\ as'[q] = as[q] /\ pc[q] \in Working /\ ~store[as[q]].open
            /\ as[q] # as[p] /\ tmp'[as[q]] = tmp[as[q]]
        BY <1>1, <2>1, <3>2
      <4>2. /\ tmp[as[q]].open
            /\ \A r \in Processes : (pc[r] \in Working /\ as[r] = as[q]) => r = q
        BY <4>1 DEF IInv, OwnerInv
      <4>3. ASSUME pc'[p] \in Working, as'[p] = as'[q] PROVE FALSE
        <5>1. as'[p] = as[p]
          BY <2>1, <4>3
        <5> QED
          BY <4>1, <4>3, <5>1
      <4>4. ASSUME NEW r \in Processes \ {p}, pc'[r] \in Working, as'[r] = as'[q]
            PROVE  r = q
        <5>1. pc'[r] = pc[r] /\ as'[r] = as[r]
          OBVIOUS
        <5> QED
          BY <4>1, <4>2, <4>4, <5>1
      <4> QED
        BY <4>1, <4>2, <4>3, <4>4
    <3> QED
      BY <3>1, <3>2
  <2> QED
    BY <2>1 DEF OwnerInv
<1>3. FilledInv'
  <2>1. ASSUME NEW q \in Processes, pc'[q] \in Working \ Sweeping,
               ~store'[as'[q]].open
        PROVE  /\ DOMAIN tmp'[as'[q]].files = Written(pc'[q])
               /\ \A f \in Written(pc'[q]) : tmp'[as'[q]].files[f] = Content(f, draft'[q])
    <3>1. CASE q = p
      BY <2>1, <3>1
    <3>2. CASE q # p
      <4>1. /\ pc'[q] = pc[q] /\ as'[q] = as[q] /\ draft'[q] = draft[q]
            /\ ~store[as[q]].open /\ tmp'[as[q]] = tmp[as[q]]
        BY <1>1, <2>1, <3>2
      <4>2. pc[q] \in Working \ Sweeping
        BY <2>1, <4>1
      <4>3. /\ DOMAIN tmp[as[q]].files = Written(pc[q])
            /\ \A f \in Written(pc[q]) : tmp[as[q]].files[f] = Content(f, draft[q])
        BY <4>1, <4>2 DEF IInv, FilledInv
      <4>4. tmp'[as'[q]].files = tmp[as[q]].files
        BY <4>1
      <4>5. DOMAIN tmp'[as'[q]].files = Written(pc'[q])
        BY <4>1, <4>3, <4>4
      <4>6. ASSUME NEW f \in Written(pc'[q])
            PROVE  tmp'[as'[q]].files[f] = Content(f, draft'[q])
        BY <4>1, <4>3, <4>4
      <4> QED
        BY <4>5, <4>6
    <3> QED
      BY <3>1, <3>2
  <2> QED
    BY <2>1 DEF FilledInv
<1> QED
  BY <1>2, <1>3

(* One file is written.                                                      *)
LEMMA WriteFileKept ==
  ASSUME IInv, RescoreAssumption, NEW p \in Processes, WriteFile(p)
  PROVE  IInv'
<1> DEFINE here == as[p]
<1>1. PICK n \in 1..4 :
        /\ pc[p] = IF n = 1 THEN "write" ELSE Order[n - 1]
        /\ IF tmp[here].open
           THEN /\ tmp' = [tmp EXCEPT ![here] =
                             Dir([f \in DOMAIN @.files \cup {Order[n]} |->
                                    IF f = Order[n] THEN Content(f, draft[p]) ELSE @.files[f]])]
                /\ Goto(p, Order[n])
           ELSE Goto(p, "sweep") /\ UNCHANGED tmp
  BY DEF WriteFile
<1>2. UNCHANGED <<inputs, archived, store, given, as, draft>>
  BY <1>1 DEF WriteFile, Goto
<1>3. /\ pc[p] \in {"write", "provenance", "evaluation", "diff"}
      /\ Order[n] \in {"provenance", "evaluation", "diff", "report"}
      /\ Written(Order[n]) = Written(pc[p]) \cup {Order[n]}
  <2>1. n = 1 \/ n = 2 \/ n = 3 \/ n = 4
    BY <1>1
  <2> QED
    BY <1>1, <2>1 DEF Order, Written, Files
<1>4. pc[p] \in Working /\ here \in Identities
  BY <1>3 DEF IInv, TypesInv, Working
<1>5. \E l \in {"provenance", "evaluation", "diff", "report", "sweep"} :
        pc' = [pc EXCEPT ![p] = l]
  BY <1>1, <1>3 DEF Goto
<1>6. pc' \in [Processes -> Labels] /\ \A q \in Processes \ {p} : pc'[q] = pc[q]
  BY <1>5 DEF IInv, TypesInv, Labels, Working
<1>7. /\ DOMAIN tmp' = Identities /\ tmp'[here].open \in BOOLEAN
      /\ \A i \in Identities \ {here} : tmp'[i] = tmp[i]
  <2>1. CASE ~tmp[here].open
    BY <1>1, <1>4, <2>1 DEF IInv, TypesInv
  <2>2. CASE tmp[here].open
    <3>1. \E files : tmp' = [tmp EXCEPT ![here] = Dir(files)]
      BY <1>1, <2>2
    <3>2. \A files : Dir(files).open \in BOOLEAN
      BY DEF Dir
    <3> QED
      BY <1>4, <3>1, <3>2 DEF IInv, TypesInv
  <2> QED
    BY <2>1, <2>2
<1>8. TypesInv'
  BY <1>2, <1>6, <1>7 DEF IInv, TypesInv
<1>9. DraftInv'
  BY <1>2, <1>4, <1>6 DEF IInv, DraftInv
<1>10. ASSUME ~store[here].open
       PROVE  /\ pc'[p] = Order[n] /\ tmp'[here].open
              /\ DOMAIN tmp'[here].files = Written(Order[n])
              /\ \A f \in Written(Order[n]) : tmp'[here].files[f] = Content(f, draft[p])
  <2>1. tmp[here].open /\ DOMAIN tmp[here].files = Written(pc[p])
        /\ \A f \in Written(pc[p]) : tmp[here].files[f] = Content(f, draft[p])
    BY <1>3, <1>4, <1>10 DEF IInv, OwnerInv, FilledInv, Sweeping
  <2> DEFINE files == [f \in DOMAIN tmp[here].files \cup {Order[n]} |->
                         IF f = Order[n] THEN Content(f, draft[p]) ELSE tmp[here].files[f]]
  <2>2. pc'[p] = Order[n]
    BY <1>1, <2>1 DEF Goto, IInv, TypesInv
  <2>3. tmp'[here] = Dir(files)
    BY <1>1, <1>4, <2>1 DEF IInv, TypesInv
  <2>4. tmp'[here].open /\ tmp'[here].files = files
    BY <2>3 DEF Dir
  <2>5. DOMAIN files = Written(Order[n])
    BY <1>3, <2>1
  <2>6. \A f \in Written(Order[n]) : files[f] = Content(f, draft[p])
    BY <1>3, <2>1
  <2> QED
    BY <2>2, <2>4, <2>5, <2>6
<1>11. OwnerInv' /\ FilledInv'
  BY <1>2, <1>4, <1>6, <1>7, <1>10, AloneKept
<1>12. PublishedInv' /\ GivenInv'
  BY <1>2 DEF IInv, PublishedInv, GivenInv, Accepted
<1>13. RenamedInv'
  <2>1. pc'[p] \notin {"renamed", "renamed rmdir"}
    BY <1>5 DEF IInv, TypesInv
  <2> QED
    BY <1>2, <1>6, <2>1, RenamedKept
<1> QED
  BY <1>8, <1>9, <1>11, <1>12, <1>13 DEF IInv

(* A process that works goes on to another label and touches nothing else.   *)
LEMMA MovesKept ==
  ASSUME IInv, NEW p \in Processes, NEW label \in {"rename", "sweep"}, pc[p] \in Working,
         label = "rename" => pc[p] = "report",
         Goto(p, label), UNCHANGED <<disk, given>>
  PROVE  IInv'
<1>1. UNCHANGED <<as, draft, store, tmp, given>>
  BY DEF Goto, disk
<1>2. /\ pc' \in [Processes -> Labels] /\ pc'[p] = label
      /\ \A q \in Processes \ {p} : pc'[q] = pc[q]
  BY DEF Goto, IInv, TypesInv, Labels, Working
<1>3. TypesInv' /\ DraftInv'
  BY <1>1, <1>2 DEF IInv, TypesInv, DraftInv
<1>4. Written("rename") = Written("report")
  BY DEF Written
<1>5. ~store[as[p]].open /\ label = "rename" =>
        /\ DOMAIN tmp[as[p]].files = Written(label)
        /\ \A f \in Written(label) : tmp[as[p]].files[f] = Content(f, draft[p])
  BY <1>4 DEF IInv, FilledInv, Sweeping
<1>6. ~store[as[p]].open => tmp[as[p]].open
  BY DEF IInv, OwnerInv
<1>7. OwnerInv' /\ FilledInv'
  BY <1>1, <1>2, <1>5, <1>6, AloneKept DEF Sweeping
<1>8. RenamedInv'
  BY <1>1, <1>2, RenamedKept
<1> QED
  BY <1>1, <1>3, <1>7, <1>8 DEF IInv, PublishedInv, GivenInv, Accepted

(* A write fails.                                                            *)
LEMMA WriteFailsKept ==
  ASSUME IInv, RescoreAssumption, NEW p \in Processes, WriteFails(p)
  PROVE  IInv'
<1>1. pc[p] \in Working /\ Goto(p, "sweep") /\ UNCHANGED <<disk, given>>
  BY DEF WriteFails, Working
<1> QED
  BY <1>1, MovesKept

(* The process looks for a score published meanwhile.                        *)
LEMMA CheckFinalKept ==
  ASSUME IInv, RescoreAssumption, NEW p \in Processes, CheckFinal(p)
  PROVE  IInv'
<1>1. pc[p] = "report" /\ pc[p] \in Working /\ UNCHANGED <<disk, given>>
  BY DEF CheckFinal, Working
<1>2. Goto(p, "sweep") \/ Goto(p, "rename")
  BY DEF CheckFinal
<1>3. CASE Goto(p, "sweep")
  BY <1>1, <1>3, MovesKept
<1>4. CASE Goto(p, "rename")
  BY <1>1, <1>4, MovesKept
<1> QED
  BY <1>2, <1>3, <1>4

(* What is renamed is complete and is what the process computed.             *)
LEMMA RenameKept ==
  ASSUME IInv, RescoreAssumption, NEW p \in Processes, Rename(p)
  PROVE  IInv'
<1> DEFINE here == as[p]
<1>1. pc[p] = "rename" /\ pc[p] \in Working \ Sweeping
  BY DEF Rename, Working, Sweeping
<1>2. CASE ~(tmp[here].open /\ ~store[here].open)
  <2>1. Goto(p, "sweep") /\ UNCHANGED <<disk, given>>
    BY <1>2 DEF Rename, disk
  <2> QED
    BY <1>1, <2>1, MovesKept
<1>3. CASE tmp[here].open /\ ~store[here].open
  <2>1. /\ store' = [store EXCEPT ![here] = tmp[here]]
        /\ tmp' = [tmp EXCEPT ![here] = NoDir]
        /\ pc' = [pc EXCEPT ![p] = "renamed"]
        /\ UNCHANGED <<as, draft, given>>
    BY <1>1, <1>3 DEF Rename, Goto
  <2>2. here \in Identities
    BY DEF IInv, TypesInv
  <2>3. /\ store'[here] = tmp[here] /\ tmp'[here] = NoDir
        /\ \A i \in Identities \ {here} : store'[i] = store[i] /\ tmp'[i] = tmp[i]
        /\ DOMAIN store' = Identities /\ DOMAIN tmp' = Identities
    BY <2>1, <2>2 DEF IInv, TypesInv
  <2>4. pc' \in [Processes -> Labels] /\ \A q \in Processes \ {p} : pc'[q] = pc[q]
    BY <2>1 DEF IInv, TypesInv, Labels, Working
  <2>5. TypesInv'
    <3>1. store'[here].open \in BOOLEAN /\ tmp'[here].open \in BOOLEAN
      <4>1. tmp[here].open \in BOOLEAN
        BY <2>2 DEF IInv, TypesInv
      <4>2. NoDir.open \in BOOLEAN
        BY DEF NoDir
      <4> QED
        BY <2>3, <4>1, <4>2
    <3> QED
      BY <2>1, <2>2, <2>3, <2>4, <3>1 DEF IInv, TypesInv
  <2>6. DraftInv'
    BY <1>1, <2>1, <2>4 DEF IInv, DraftInv
  <2>7. OwnerInv' /\ FilledInv'
    BY <1>1, <1>3, <2>1, <2>3, <2>4, AloneKept
  <2>8. /\ DOMAIN tmp[here].files = Files
        /\ \A f \in Files : tmp[here].files[f] = Content(f, draft[p])
    BY <1>1, <1>3 DEF IInv, FilledInv, Written
  <2>9. tmp[here].files["provenance"] = draft[p]
    BY <2>8 DEF Files, Content
  <2>10. SaysTruth(here, draft[p])
    BY <1>1 DEF IInv, DraftInv
  <2>11. PublishedInv'
    <3>1. Accepted(here)'
      <4>1. store'[here].open /\ DOMAIN store'[here].files = Files
        BY <1>3, <2>3, <2>8
      <4>2. store'[here].files["provenance"] = draft[p]
        BY <2>3, <2>9
      <4>3. \A f \in Files : store'[here].files[f] = Content(f, draft[p])
        BY <2>3, <2>8
      <4> QED
        BY <2>1, <4>1, <4>2, <4>3 DEF Accepted
    <3>2. ASSUME NEW i \in Identities \ {here}, store'[i].open
          PROVE  Accepted(i)'
      BY <2>3, <3>2 DEF IInv, PublishedInv, Accepted
    <3>3. DOMAIN store'[here].files = Files /\ SaysTruth(here, store'[here].files["provenance"])
      BY <2>3, <2>8, <2>9, <2>10
    <3>4. \A i \in Identities \ {here} : store'[i].open =>
             DOMAIN store'[i].files = Files /\ SaysTruth(i, store'[i].files["provenance"])
      BY <2>3 DEF IInv, PublishedInv
    <3>5. ASSUME NEW i \in Identities, store'[i].open
          PROVE  /\ DOMAIN store'[i].files = Files /\ Accepted(i)'
                 /\ SaysTruth(i, store'[i].files["provenance"])
      <4>1. CASE i = here
        BY <2>1, <3>1, <3>3, <4>1
      <4>2. CASE i # here
        BY <3>2, <3>4, <3>5, <4>2
      <4> QED
        BY <4>1, <4>2
    <3> QED
      BY <3>5 DEF PublishedInv
  <2>12. GivenInv'
    <3>1. ASSUME NEW g \in given
          PROVE  g[1] \in Identities /\ store'[g[1]] = store[g[1]]
      BY <1>3, <2>3 DEF IInv, GivenInv
    <3> QED
      BY <2>1, <3>1 DEF IInv, GivenInv
  <2>13. RenamedInv'
    <3>1. store'[here].open /\ store'[here].files["provenance"] = draft[p]
      BY <1>3, <2>3, <2>9
    <3>2. \A i \in Identities : store[i].open => store'[i] = store[i]
      BY <1>3, <2>3
    <3> QED
      BY <2>1, <2>4, <3>1, <3>2, RenamedKept
  <2> QED
    BY <2>5, <2>6, <2>7, <2>11, <2>12, <2>13 DEF IInv
<1> QED
  BY <1>2, <1>3

(* The temporary directory is emptied.                                       *)
LEMMA SweepKept ==
  ASSUME IInv, RescoreAssumption, NEW p \in Processes, Sweep(p)
  PROVE  IInv'
<1> DEFINE here == as[p]
<1>1. pc[p] \in Working /\ here \in Identities /\ UNCHANGED <<inputs, archived, store>>
  BY DEF Sweep, Working, IInv, TypesInv
<1>2. CASE ~tmp[here].open
  <2>1. Leave(p) /\ UNCHANGED disk /\ given' = given \cup Owed(p)
    BY <1>2 DEF Sweep, disk
  <2> QED
    BY <2>1, LeaveKept
<1>3. CASE tmp[here].open
  <2> DEFINE label == IF pc[p] = "sweep" THEN "rmdir" ELSE "renamed rmdir"
  <2>1. /\ tmp' = [tmp EXCEPT ![here] = Dir(<<>>)] /\ UNCHANGED <<as, draft, given>>
        /\ pc' = [pc EXCEPT ![p] = label]
    BY <1>3 DEF Sweep, Goto
  <2>2. /\ DOMAIN tmp' = Identities /\ tmp'[here].open
        /\ \A i \in Identities \ {here} : tmp'[i] = tmp[i]
    BY <1>1, <2>1 DEF IInv, TypesInv, Dir
  <2>3. /\ pc' \in [Processes -> Labels] /\ pc'[p] = label /\ pc'[p] \in Sweeping
        /\ \A q \in Processes \ {p} : pc'[q] = pc[q]
    BY <2>1 DEF IInv, TypesInv, Labels, Working, Sweeping
  <2>4. TypesInv' /\ DraftInv'
    BY <1>1, <2>1, <2>2, <2>3 DEF IInv, TypesInv, DraftInv
  <2>5. OwnerInv' /\ FilledInv'
    <3>1. ~store[here].open => tmp'[here].open
      BY <2>2
    <3> QED
      BY <1>1, <2>1, <2>2, <2>3, <3>1, AloneKept
  <2>6. RenamedInv'
    <3>1. pc'[p] = "renamed rmdir" => pc[p] = "renamed"
      BY <2>3 DEF Sweep
    <3>2. pc'[p] \in {"renamed", "renamed rmdir"} => pc[p] = "renamed"
      BY <2>3, <3>1
    <3>3. pc[p] = "renamed" =>
            store[here].open /\ store[here].files["provenance"] = draft[p]
      BY DEF IInv, RenamedInv
    <3> QED
      BY <1>1, <2>1, <2>3, <3>2, <3>3, RenamedKept
  <2> QED
    BY <1>1, <2>1, <2>4, <2>5, <2>6 DEF IInv, PublishedInv, GivenInv, Accepted
<1> QED
  BY <1>2, <1>3

(* The temporary directory is removed.                                       *)
LEMMA RemoveTemporaryKept ==
  ASSUME IInv, RescoreAssumption, NEW p \in Processes, RemoveTemporary(p)
  PROVE  IInv'
<1> DEFINE here == as[p]
<1>1. /\ pc[p] \in Working /\ here \in Identities /\ Leave(p)
      /\ UNCHANGED <<inputs, archived, store>> /\ given' \subseteq given \cup Owed(p)
  BY DEF RemoveTemporary, Working, IInv, TypesInv
<1>2. /\ DOMAIN tmp' = Identities /\ tmp'[here].open \in BOOLEAN
      /\ \A i \in Identities \ {here} : tmp'[i] = tmp[i]
  <2>1. tmp' = tmp \/ tmp' = [tmp EXCEPT ![here] = NoDir]
    BY DEF RemoveTemporary
  <2>2. NoDir.open \in BOOLEAN
    BY DEF NoDir
  <2> QED
    BY <1>1, <2>1, <2>2 DEF IInv, TypesInv
<1>3. /\ pc' \in [Processes -> Labels] /\ pc'[p] = "idle"
      /\ as' \in [Processes -> Identities] /\ DOMAIN draft' = Processes
      /\ \A q \in Processes \ {p} : pc'[q] = pc[q] /\ as'[q] = as[q] /\ draft'[q] = draft[q]
  BY <1>1 DEF Leave, RescoreAssumption, IInv, TypesInv, Labels
<1>4. "idle" \notin Working \cup {"mkdir"}
  BY DEF Working
<1>5. TypesInv' /\ DraftInv'
  BY <1>1, <1>2, <1>3, <1>4 DEF IInv, TypesInv, DraftInv
<1>6. OwnerInv' /\ FilledInv'
  BY <1>1, <1>2, <1>3, <1>4, AloneKept
<1>7. RenamedInv' /\ GivenInv'
  BY <1>1, <1>3, RenamedKept, OwedPublished
<1> QED
  BY <1>1, <1>5, <1>6, <1>7 DEF IInv, PublishedInv, Accepted

(* A process is killed.                                                      *)
LEMMA KillKept ==
  ASSUME IInv, RescoreAssumption, NEW p \in Processes, Kill(p)
  PROVE  IInv'
  BY LeaveKept DEF Kill

(* A file of the run is damaged. *)
LEMMA DamageKept ==
  ASSUME IInv, RescoreAssumption, Damage
  PROVE  IInv'
<1>1. TypesInv'
  BY DEF IInv, TypesInv, Damage, disk, Labels, Working, NoDir, Dir
<1>2. DraftInv'
  BY DEF IInv, TypesInv, DraftInv, Damage, disk, Working
<1>3. OwnerInv'
  BY DEF IInv, TypesInv, OwnerInv, Damage, disk, Working
<1>4. FilledInv'
  BY DEF IInv, TypesInv, OwnerInv, FilledInv, Damage, disk, Working
<1>5. PublishedInv'
  BY DEF IInv, TypesInv, PublishedInv, Damage, disk, Accepted
<1>6. GivenInv'
  BY DEF IInv, TypesInv, PublishedInv, GivenInv, Damage, disk
<1>7. RenamedInv'
  BY DEF IInv, TypesInv, RenamedInv, Damage, disk
<1> QED
  BY <1>1, <1>2, <1>3, <1>4, <1>5, <1>6, <1>7 DEF IInv

(* The run's files are repaired. *)
LEMMA RestoreKept ==
  ASSUME IInv, RescoreAssumption, Restore
  PROVE  IInv'
<1>1. TypesInv'
  BY DEF IInv, TypesInv, Restore, disk, Labels, Working, NoDir, Dir
<1>2. DraftInv'
  BY DEF IInv, TypesInv, DraftInv, Restore, disk, Working
<1>3. OwnerInv'
  BY DEF IInv, TypesInv, OwnerInv, Restore, disk, Working
<1>4. FilledInv'
  BY DEF IInv, TypesInv, OwnerInv, FilledInv, Restore, disk, Working
<1>5. PublishedInv'
  BY DEF IInv, TypesInv, PublishedInv, Restore, disk, Accepted
<1>6. GivenInv'
  BY DEF IInv, TypesInv, PublishedInv, GivenInv, Restore, disk
<1>7. RenamedInv'
  BY DEF IInv, TypesInv, RenamedInv, Restore, disk
<1> QED
  BY <1>1, <1>2, <1>3, <1>4, <1>5, <1>6, <1>7 DEF IInv

LEMMA InitKept == ASSUME Init, RescoreAssumption PROVE IInv
  BY DEF Init, IInv, TypesInv, DraftInv, OwnerInv, FilledInv, PublishedInv, RenamedInv,
         GivenInv, RescoreAssumption, Labels, Working, NoDir

LEMMA StepKept == ASSUME IInv, RescoreAssumption, [Next]_vars PROVE IInv'
<1>1. CASE UNCHANGED vars
  <2>1. UNCHANGED <<store, tmp, pc, as, draft, given>>
    BY <1>1 DEF vars, disk
  <2>2. TypesInv' /\ DraftInv' /\ OwnerInv' /\ FilledInv'
    BY <2>1 DEF IInv, TypesInv, DraftInv, OwnerInv, FilledInv
  <2> QED
    BY <2>1, <2>2 DEF IInv, PublishedInv, RenamedInv, GivenInv, Accepted
<1>2. CASE Next
  BY <1>2, ReuseKept, CompareKept, BeginKept, ScoreKept, MakeTemporaryKept, WriteFileKept,
     WriteFailsKept, CheckFinalKept, RenameKept, SweepKept, RemoveTemporaryKept, KillKept,
     DamageKept, RestoreKept DEF Next, Write
<1> QED
  BY <1>1, <1>2

(* The inductive invariant holds in every state. *)
THEOREM Invariance == Spec => []IInv
<1>1. Init => IInv
  BY InitKept, RescoreAssumption
<1>2. IInv /\ [Next]_vars => IInv'
  BY StepKept, RescoreAssumption
<1> QED
  BY <1>1, <1>2, PTL DEF Spec

(* A score once given to a caller is what its directory holds from then on:  *)
(* complete, from one process, of its own scorer, with a true difference to  *)
(* the archived evaluation; for any number of processes, scorers, kills and  *)
(* failures (Rename, Sweep, WriteFails, Kill).                               *)
THEOREM ScoresStay == Spec => []GivenScoresStay
<1>1. IInv => GivenScoresStay
  BY DEF IInv, PublishedInv, GivenInv, SaysTruth, GivenScoresStay, PublishedIsAccepted,
         GivenIsPublished
<1> QED
  BY <1>1, Invariance, PTL
-----------------------------------------------------------------------------
(* What the contract is shown of a true score is true.                       *)
LEMMA ShownIsTrue ==
  ASSUME NEW i \in Identities, NEW d, SaysTruth(i, d)
  PROVE  /\ Shown(d).difference \in Contract!Differences(i)
         /\ Shown(d) = [verdict |-> Verdict[i], difference |-> Shown(d).difference]
         /\ Shown(d) # Contract!Nothing
<1> DEFINE same == \A c \in DOMAIN d.diff.changes : d.diff.changes[c] = "UNCHANGED"
<1>1. d.verdict = Verdict[i] /\ (d.diff.available => (same <=> Verdict[i] = Verdict[Original]))
  BY DEF SaysTruth, DiffIsTrue
<1>2. Shown(d) = [verdict |-> Verdict[i],
                  difference |-> IF ~d.diff.available THEN "unavailable"
                                 ELSE IF same THEN "same" ELSE "different"]
  BY <1>1 DEF Shown
<1> HIDE DEF same
<1> QED
  BY <1>1, <1>2 DEF Contract!Differences, Contract!Nothing

(* What is published is something, and what is not published is nothing.     *)
LEMMA StandingShown ==
  ASSUME PublishedInv, NEW i \in Identities
  PROVE  /\ store[i].open => /\ Standing[i] = Shown(store[i].files["provenance"])
                             /\ Standing[i] # Contract!Nothing
         /\ ~store[i].open => Standing[i] = Contract!Nothing
  BY ShownIsTrue DEF PublishedInv, Standing, Contract!Nothing

(* A step that leaves what is published and what was given is not seen.      *)
LEMMA QuietStep ==
  ASSUME UNCHANGED <<store, given>>
  PROVE  UNCHANGED Contract!vars
  BY DEF Contract!vars, Standing, ShownTo

(* A score given to a caller is one more score shown.                        *)
LEMMA ShownToAdds ==
  ASSUME NEW added, given' = given \cup added
  PROVE  \A t : t \in ShownTo' <=>
                 t \in ShownTo \/ \E g \in added : t = <<g[1], Shown(g[2])>>
<1> DEFINE seen(g) == <<g[1], Shown(g[2])>>
<1>1. ShownTo = {seen(g) : g \in given} /\ ShownTo' = {seen(g) : g \in given'}
  BY DEF ShownTo
<1> HIDE DEF seen
<1>2. \A t : t \in {seen(g) : g \in given'} <=>
              t \in {seen(g) : g \in given} \/ \E g \in added : t = seen(g)
  OBVIOUS
<1>3. \A t : t \in ShownTo' <=> t \in ShownTo \/ \E g \in added : t = seen(g)
  BY <1>1, <1>2
<1> QED
  BY <1>3 DEF seen

(* Callers are given scores that are published.                              *)
LEMMA ConsultStep ==
  ASSUME PublishedInv, NEW some \in SUBSET Identities, UNCHANGED store,
         \A i \in some : store[i].open,
         given' = given \cup {<<i, store[i].files["provenance"]>> : i \in some}
  PROVE  Contract!Next
<1> DEFINE score(i) == store[i].files["provenance"]
           added == {<<i, score(i)>> : i \in some}
<1>1. UNCHANGED Standing
  BY DEF Standing
<1>2. \A i \in some : Standing[i] # Contract!Nothing /\ Standing[i] = Shown(score(i))
  BY StandingShown
<1>3. ShownTo' = ShownTo \cup {<<i, Standing[i]>> : i \in some}
  <2>1. \A t : t \in ShownTo' <=>
                t \in ShownTo \/ \E g \in added : t = <<g[1], Shown(g[2])>>
    BY ShownToAdds
  <2>2. \A t : (\E g \in added : t = <<g[1], Shown(g[2])>>)
                <=> (\E i \in some : t = <<i, Standing[i]>>)
    <3> HIDE DEF score
    <3>1. \A t : (\E g \in added : t = <<g[1], Shown(g[2])>>)
                  <=> (\E i \in some : t = <<i, Shown(score(i))>>)
      <4>1. ASSUME NEW t, NEW g \in added, t = <<g[1], Shown(g[2])>>
            PROVE  \E i \in some : t = <<i, Shown(score(i))>>
        <5>1. PICK i \in some : g = <<i, score(i)>>
          OBVIOUS
        <5>2. g[1] = i /\ g[2] = score(i)
          BY <5>1
        <5> QED
          BY <4>1, <5>2
      <4>2. ASSUME NEW t, NEW i \in some, t = <<i, Shown(score(i))>>
            PROVE  \E g \in added : t = <<g[1], Shown(g[2])>>
        <5>1. <<i, score(i)>> \in added
          OBVIOUS
        <5>2. <<i, score(i)>>[1] = i /\ <<i, score(i)>>[2] = score(i)
          OBVIOUS
        <5> HIDE DEF added
        <5> QED
          BY <4>2, <5>1, <5>2
      <4> HIDE DEF added
      <4> QED
        BY <4>1, <4>2
    <3> QED
      BY <1>2, <3>1
  <2> HIDE DEF added
  <2> QED
    BY <2>1, <2>2
<1>4. Contract!Consult(some)
  BY <1>1, <1>2, <1>3 DEF Contract!Consult
<1> QED
  BY <1>4 DEF Contract!Next

(* The renamed directory is a score of its own scorer, where there was none. *)
LEMMA PublishStep ==
  ASSUME IInv, IInv', NEW p \in Processes, Rename(p)
  PROVE  Contract!Next \/ UNCHANGED Contract!vars
<1> DEFINE here == as[p]
<1>1. here \in Identities /\ pc[p] = "rename" /\ "rename" \in Working \ Sweeping
  BY DEF Rename, Working, Sweeping, IInv, TypesInv
<1>2. CASE ~(tmp[here].open /\ ~store[here].open)
  BY <1>2, QuietStep DEF Rename
<1>3. CASE tmp[here].open /\ ~store[here].open
  <2>1. /\ store' = [store EXCEPT ![here] = tmp[here]]
        /\ UNCHANGED given
    BY <1>3 DEF Rename
  <2>2. /\ store'[here] = tmp[here] /\ DOMAIN store = Identities
        /\ \A i \in Identities \ {here} : store'[i] = store[i]
    BY <1>1, <2>1 DEF IInv, TypesInv
  <2>3. store'[here].open /\ store'[here].files["provenance"] = draft[p]
    <3>1. tmp[here].files["provenance"] = Content("provenance", draft[p])
      BY <1>1, <1>3 DEF IInv, FilledInv, Written, Files
    <3> QED
      BY <1>3, <2>2, <3>1 DEF Content
  <2>4. SaysTruth(here, draft[p])
    BY <1>1 DEF IInv, DraftInv
  <2> DEFINE score == Shown(draft[p])
  <2>5. Standing[here] = Contract!Nothing
    BY <1>1, <1>3, StandingShown DEF IInv
  <2>6. Standing' = [Standing EXCEPT ![here] = score]
    <3>1. \A i \in Identities \ {here} : Standing'[i] = Standing[i]
      BY <2>2 DEF Standing
    <3>2. Standing'[here] = score
      BY <1>1, <2>3 DEF Standing
    <3>3. Standing' = [i \in Identities |-> Standing'[i]]
      BY DEF Standing
    <3>4. DOMAIN Standing = Identities
      BY DEF Standing
    <3> HIDE DEF score
    <3> QED
      BY <3>1, <3>2, <3>3, <3>4
  <2>7. UNCHANGED ShownTo
    BY <2>1 DEF ShownTo
  <2>8. /\ score.difference \in Contract!Differences(here)
        /\ score = [verdict |-> Verdict[here], difference |-> score.difference]
    BY <1>1, <2>4, ShownIsTrue
  <2> HIDE DEF score
  <2>9. Contract!Publish(here, score.difference)
    BY <2>5, <2>6, <2>7, <2>8 DEF Contract!Publish
  <2> QED
    BY <1>1, <2>8, <2>9 DEF Contract!Next
<1> QED
  BY <1>2, <1>3

(* A process that returns gives the score it has renamed, or none.           *)
LEMMA GiveStep ==
  ASSUME IInv, NEW p \in Processes, UNCHANGED store,
         given' = given \cup Owed(p)
  PROVE  Contract!Next \/ UNCHANGED Contract!vars
<1>1. CASE pc[p] \in {"renamed", "renamed rmdir"}
  <2>1. /\ as[p] \in Identities /\ store[as[p]].open
        /\ store[as[p]].files["provenance"] = draft[p]
    BY <1>1 DEF IInv, TypesInv, RenamedInv
  <2>2. Owed(p) = {<<i, store[i].files["provenance"]>> : i \in {as[p]}}
    BY <1>1, <2>1 DEF Owed
  <2>3. {as[p]} \in SUBSET Identities /\ \A i \in {as[p]} : store[i].open
    BY <2>1
  <2> QED
    BY <2>2, <2>3, ConsultStep DEF IInv
<1>2. CASE pc[p] \notin {"renamed", "renamed rmdir"}
  <2>1. UNCHANGED given
    BY <1>2 DEF Owed
  <2> QED
    BY <2>1, QuietStep
<1> QED
  BY <1>1, <1>2

LEMMA ContractStep ==
  ASSUME IInv, IInv', [Next]_vars
  PROVE  [Contract!Next]_(Contract!vars)
<1>1. ASSUME NEW p \in Processes, NEW i \in Identities, Reuse(p, i) PROVE Contract!Next
  <2>1. /\ store[i].open /\ UNCHANGED store
        /\ given' = given \cup {<<k, store[k].files["provenance"]>> : k \in {i}}
    BY <1>1 DEF Reuse, Accepted, disk
  <2>2. {i} \in SUBSET Identities /\ \A k \in {i} : store[k].open
    BY <2>1
  <2> QED
    BY <2>1, <2>2, ConsultStep DEF IInv
<1>2. ASSUME NEW p \in Processes, NEW i \in Identities, NEW j \in Identities, Compare(p, i, j)
      PROVE  Contract!Next
  <2>1. store[i].open /\ store[j].open /\ UNCHANGED store
    BY <1>2 DEF Compare, Accepted, disk
  <2>2. given' = given \cup {<<k, store[k].files["provenance"]>> : k \in {i, j}}
    BY <1>2 DEF Compare
  <2>3. {i, j} \in SUBSET Identities
    OBVIOUS
  <2> QED
    BY <2>1, <2>2, <2>3, ConsultStep DEF IInv
<1>3. ASSUME NEW p \in Processes,
             \/ \E i \in Identities : Begin(p, i)
             \/ Score(p) \/ MakeTemporary(p) \/ WriteFile(p) \/ WriteFails(p)
             \/ CheckFinal(p) \/ Kill(p)
      PROVE  UNCHANGED <<store, given>>
  BY <1>3 DEF Begin, Score, MakeTemporary, WriteFile, WriteFails, CheckFinal, Kill, disk
<1>4. Damage \/ Restore \/ UNCHANGED vars => UNCHANGED <<store, given>>
  BY DEF Damage, Restore, vars, disk
<1>5. ASSUME NEW p \in Processes, Sweep(p) \/ RemoveTemporary(p)
      PROVE  Contract!Next \/ UNCHANGED Contract!vars
  <2>1. UNCHANGED store /\ (UNCHANGED given \/ given' = given \cup Owed(p))
    BY <1>5 DEF Sweep, RemoveTemporary
  <2> QED
    BY <2>1, QuietStep, GiveStep
<1> QED
  BY <1>1, <1>2, <1>3, <1>4, <1>5, QuietStep, PublishStep DEF Next, Write

(* Processes, files, sweeping, kills and damage are not seen from outside    *)
(* (ImplementsContract): each scorer's score appears once and true, and is   *)
(* the only one anybody is given, for any number of processes and scorers    *)
(* (evaluation_rescore.py score_run_offline, compare_offline_scores).        *)
THEOREM RescoreImplementsContract == Spec => ImplementsContract
<1>1. Init => Contract!Init
  BY DEF Init, Standing, ShownTo, NoDir, Contract!Init, Contract!Nothing
<1>2. IInv /\ IInv' /\ [Next]_vars => [Contract!Next]_(Contract!vars)
  BY ContractStep
<1> QED
  BY <1>1, <1>2, Invariance, PTL DEF Spec, ImplementsContract, Contract!Spec
=============================================================================
