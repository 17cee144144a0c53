--------------------------- MODULE MCAnalysisRead ---------------------------
(***************************************************************************)
(* AnalysisRead for TLC: two analyses, two requests in flight.             *)
(***************************************************************************)
EXTENDS AnalysisRead

Symmetry == Permutations(Ids) \cup Permutations(Readers)
=============================================================================
