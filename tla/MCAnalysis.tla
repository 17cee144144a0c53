----------------------------- MODULE MCAnalysis -----------------------------
(***************************************************************************)
(* Analysis for TLC: more requests than the limits of the configurations   *)
(* have room for, so that some wait, some are rejected and some evict.     *)
(* Liveness is checked too, so the ids are not a symmetry set.             *)
(***************************************************************************)
EXTENDS AnalysisRefinement
=============================================================================
