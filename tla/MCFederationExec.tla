-------------------------- MODULE MCFederationExec --------------------------
(***************************************************************************)
(* Instances of FederationExec for TLC: a join of two datasets, a plan     *)
(* with full pushdown, and up to two queries in flight.                    *)
(***************************************************************************)
EXTENDS FederationExec, TLC

CONSTANTS q1, q2, orders, customers, join

OneRun       == {q1}
TwoRuns      == {q1, q2}
JoinScans    == {orders, customers}
JoinStages   == {orders, customers, join}
OneScan      == {orders}
NoScan       == {}
RunSymmetry  == Permutations(TwoRuns)
JoinSymmetry == Permutations(TwoRuns) \cup Permutations(JoinScans)
=============================================================================
