------------------------- MODULE MCBackgroundTasks -------------------------
(***************************************************************************)
(* Instances of BackgroundTasks for TLC: `sync' is a dataset sync that is  *)
(* scheduled and runs at startup, `refresh' runs at startup or on demand.  *)
(***************************************************************************)
EXTENDS BackgroundTasks, TLC

CONSTANTS sync, refresh, e1, e2, e3

TwoTasks      == {sync, refresh}
OnlySync      == {sync}
TwoExecs      == {e1, e2}
ThreeExecs    == {e1, e2, e3}
ExecSymmetry  == Permutations(ThreeExecs)
=============================================================================
