------------------------------ MODULE MCRunLock ------------------------------
(***************************************************************************)
(* A small instance of RunLock for TLC.                                    *)
(***************************************************************************)
EXTENDS RunLock, TLC

CONSTANTS c1, c2, k1, t1, x1

TwoControllers == {c1, c2}
OneSkill       == {k1}
OneTerminator  == {t1}
OneCleaner     == {x1}
=============================================================================
