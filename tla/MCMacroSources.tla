--------------------------- MODULE MCMacroSources ---------------------------
(***************************************************************************)
(* MacroSources for TLC.                                                   *)
(***************************************************************************)
EXTENDS MacroSources
=============================================================================
