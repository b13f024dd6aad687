--------------------------- MODULE MCServiceIndex ---------------------------
(* Small instances of ServiceIndex for TLC. *)
EXTENDS ServiceIndex, TLC

CONSTANTS s1, s2, j1, j2, j3

ThreeJobs == {j1, j2, j3}
TwoJobs == {j1, j2}
TwoServices == {s1, s2}
None == {}

Symmetry == Permutations(Jobs)
=============================================================================
