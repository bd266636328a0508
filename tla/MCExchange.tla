----------------------------- MODULE MCExchange -----------------------------
(***************************************************************************)
(* An instance of Exchange for TLC with the source's limits on exchanges   *)
(* and corrections and a smaller one on reads.                             *)
(***************************************************************************)
EXTENDS Exchange
=============================================================================
