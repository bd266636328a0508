----------------------------- MODULE CostLedger -----------------------------
(***************************************************************************)
(* What the shared account of an assessment run promises, whatever its     *)
(* callers do: a call is paid from a reservation made before it starts and *)
(* settled exactly once; no reservation passes the limits; a reservation   *)
(* below the full allowance is the only open one; after an unknown cost    *)
(* nothing is reserved.  The account knows nothing of jobs, phases,        *)
(* retries, or of what is held back for other work.                        *)
(***************************************************************************)
EXTENDS Integers

CONSTANTS
    Clients,    \* who may hold a reservation
    MaxUsd,     \* cost limit
    CallUsd,    \* full allowance of a call
    MinCallUsd, \* smallest useful reservation
    MaxCalls,   \* call limit
    Slack,      \* how far a cost may exceed its reservation
    Credits     \* <<calls, usd>> pairs earlier work may bring in

VARIABLES
    charged,    \* settled costs plus open reservations
    admitted,   \* calls admitted or carried over
    open,       \* the open reservation of each client, 0 if none
    closed      \* a cost is unknown

ledger == <<charged, admitted, open, closed>>

Start ==
    /\ charged \in Nat /\ admitted \in Nat
    /\ open = [c \in Clients |-> 0]
    /\ closed = FALSE

Open(c, usd) ==
    /\ ~closed /\ open[c] = 0
    /\ admitted < MaxCalls
    /\ usd \in MinCallUsd..CallUsd
    /\ charged + usd <= MaxUsd
    /\ usd < CallUsd => \A d \in Clients : open[d] = 0
    /\ charged' = charged + usd
    /\ admitted' = admitted + 1
    /\ open' = [open EXCEPT ![c] = usd]
    /\ UNCHANGED closed

Close(c, usd) ==
    /\ open[c] > 0
    /\ usd \in 0..(open[c] + Slack)
    /\ charged' = charged - open[c] + usd
    /\ open' = [open EXCEPT ![c] = 0]
    /\ UNCHANGED <<admitted, closed>>

\* The cost is unknown: its reservation stays charged and the ledger closes.
Forfeit(c) ==
    /\ open[c] > 0
    /\ open' = [open EXCEPT ![c] = 0]
    /\ closed' = TRUE
    /\ UNCHANGED <<charged, admitted>>

\* Work bought by an earlier run joins the account.
Carry ==
    /\ \E credit \in Credits :
        /\ admitted' = admitted + credit[1]
        /\ charged' = charged + credit[2]
    /\ UNCHANGED <<open, closed>>

LedgerNext ==
    \/ \E c \in Clients :
        \/ \E usd \in MinCallUsd..CallUsd : Open(c, usd)
        \/ \E usd \in 0..(CallUsd + Slack) : Close(c, usd)
        \/ Forfeit(c)
    \/ Carry

LedgerSpec == Start /\ [][LedgerNext]_ledger
=============================================================================
