--------------------------- MODULE MCVectorIndex ---------------------------
(***************************************************************************)
(* An instance of VectorIndex for TLC: the scheduled refresh, one that is  *)
(* called directly and one search, a configuration with an interval and    *)
(* one without.                                                            *)
(***************************************************************************)
EXTENDS VectorIndex

CONSTANTS r1, r2, s1
=============================================================================
