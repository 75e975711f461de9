----------------------------- MODULE MCModelStep -----------------------------
(* Values of ModelStep's constants for model checking.                     *)
EXTENDS ModelStep, TLC

CONSTANTS r1, r2, w1, w2

TwoRuns == {r1, r2}
TwoWorkers == {w1, w2}
Symmetry == Permutations(TwoRuns) \cup Permutations(TwoWorkers)

=============================================================================
