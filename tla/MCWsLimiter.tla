---------------------------- MODULE MCWsLimiter ----------------------------
(***************************************************************************)
(* WsLimiter for TLC: three connections of two workers for one slot, and a *)
(* TTL long enough for an entry to outlive its connection and be pruned.   *)
(***************************************************************************)
EXTENDS WsLimiter
=============================================================================
