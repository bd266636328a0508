----------------------- MODULE AssessmentBudgetLedger -----------------------
(***************************************************************************)
(* The budget of an assessment run implements the abstract cost ledger.    *)
(***************************************************************************)
EXTENDS AssessmentBudget

\* A worker's reservation is open while its call runs.
Reservation == [w \in Workers |-> IF pc[w] = "call" THEN ceiling[w] ELSE 0]

Ledger == INSTANCE CostLedger WITH
    Clients <- Workers, Slack <- Overrun, Credits <- CachedCosts,
    charged <- spent, admitted <- calls,
    open <- Reservation, closed <- unsettled

\* Every interleaving of admissions, settlements, retries and reused receipts
\* is a behaviour of the ledger.
ImplementsLedger == Ledger!LedgerSpec
=============================================================================
