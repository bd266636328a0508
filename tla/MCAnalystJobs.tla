---------------------------- MODULE MCAnalystJobs ----------------------------
(***************************************************************************)
(* A small instance of AnalystJobs for TLC.                                *)
(***************************************************************************)
EXTENDS AnalystJobs

CONSTANTS p1, p2

TwoProcs == {p1, p2}
=============================================================================
