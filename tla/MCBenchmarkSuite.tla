-------------------------- MODULE MCBenchmarkSuite --------------------------
(* Small suites for TLC: three cells, the window rule at "two of the last    *)
(* two", one selector that keeps a part of the suite, two approved revisions *)
(* of the checkout and one that is not.                                      *)
EXTENDS BenchmarkSuite, TLC

CONSTANTS r1, r2, part, full, v1, v2, alien

MCCells == 1..3
MCModelBacked == {1, 2}
MCSelection == (full :> MCCells) @@ (part :> {1, 3})
MCFullOnly == (full :> MCCells)
RunnerSymmetry == Permutations({r1, r2})
=============================================================================
