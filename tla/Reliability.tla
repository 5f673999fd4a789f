----------------------------- MODULE Reliability -----------------------------
(***************************************************************************)
(* The repeat reliability protocol (reliability.py): the repetitions of    *)
(* one scenario under one strategy form a group, and pass^k is the         *)
(* unbiased estimate C(s, k) / C(n, k) of k repetitions all succeeding.    *)
(*                                                                         *)
(* A group's n is what its schedule planned.  The trials observed are a    *)
(* function from some of the repeats 1..n, so that a repeat counted twice  *)
(* or outside the schedule, which the code refuses, has no representation. *)
(* A rate is a pair <<numerator, denominator>>.                            *)
(***************************************************************************)
EXTENDS Naturals, FiniteSets, Combinatorics

Null == <<>>

PassHat(s, n, k) ==
  IF n < k THEN Null ELSE IF s < k THEN <<0, 1>> ELSE <<choose(s, k), choose(n, k)>>

(* The series spans the planned repetitions, whatever was observed.          *)
PassHatSeries(s, n, planned) == [k \in 1..planned |-> PassHat(s, n, k)]

Valid(trials) == {i \in DOMAIN trials : ~trials[i].invalid}
Successes(trials) == Cardinality({i \in Valid(trials) : trials[i].passed})

Missing(planned, trials) == (1..planned) \ DOMAIN trials
Complete(planned, trials) ==
  Missing(planned, trials) = {} /\ Valid(trials) = DOMAIN trials

(* An incomplete group has no main number, only a subset that carries its    *)
(* coverage.                                                                 *)
BuildGroup(planned, trials) ==
  LET complete == Complete(planned, trials)
      n == Cardinality(Valid(trials))
  IN  [complete |-> complete,
       missing  |-> Missing(planned, trials),
       invalid  |-> DOMAIN trials \ Valid(trials),
       main     |-> IF complete THEN PassHatSeries(Successes(trials), planned, planned)
                    ELSE [k \in 1..planned |-> Null],
       subset   |-> IF complete THEN Null
                    ELSE <<<<n, planned>>, PassHatSeries(Successes(trials), n, planned)>>]
=============================================================================
