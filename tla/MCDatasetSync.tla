--------------------------- MODULE MCDatasetSync ---------------------------
(***************************************************************************)
(* Instances of DatasetSync for TLC.  Rows and calls are interchangeable:  *)
(* the safety runs use that symmetry.                                      *)
(***************************************************************************)
EXTENDS DatasetSync, TLC

CONSTANTS j1, j2, r1, r2, r3

OneJob    == {j1}
TwoJobs   == {j1, j2}
ThreeRows == {r1, r2, r3}

OnlyIncremental == {INCREMENTAL}
BothModes       == {INCREMENTAL, FULL_REFRESH}

Symmetry == Permutations(TwoJobs) \cup Permutations(ThreeRows)
=============================================================================
