--------------------------- MODULE MCCharmRelease ---------------------------
(* Instances of CharmRelease for TLC.                                      *)
EXTENDS CharmRelease, TLC

\* The second commit does not bump VERSION.
TwoCommits == <<1, 1>>

JobSymmetry == Permutations(Jobs)
=============================================================================
