-------------------------- MODULE MCAssessmentRun --------------------------
(***************************************************************************)
(* Small instances of AssessmentRun for TLC.                               *)
(***************************************************************************)
EXTENDS AssessmentRun

\* The first job is required and its request survives a plugin update, the
\* second is optional and its request does not.
SecondJob == {2}
TwoFiles  == {"model", "report"}
Anywhere  == {TRUE, FALSE}
Elsewhere == {FALSE}
=============================================================================
