----------------------------- MODULE MCProviders -----------------------------
(***************************************************************************)
(* Providers for TLC: a plan that names its timeframes more than once.     *)
(***************************************************************************)
EXTENDS Providers

MCOthers == <<"D1", "H1", "D1">>
=============================================================================
