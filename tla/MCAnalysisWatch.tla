-------------------------- MODULE MCAnalysisWatch --------------------------
(***************************************************************************)
(* AnalysisWatch for TLC: two analyses, one connection of three turns.    *)
(***************************************************************************)
EXTENDS AnalysisWatch
=============================================================================
