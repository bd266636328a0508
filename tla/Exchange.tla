------------------------------ MODULE Exchange ------------------------------
(***************************************************************************)
(* One job's dialogue with the model: run_exchange and _correct_anchors of *)
(* scripts/runtime/assessment_host.py.                                     *)
(*                                                                         *)
(* Each turn sends one packet; the reply reads source, completes the job,  *)
(* or breaks the contract.  Reads, corrections and the calls that only     *)
(* correct anchors share one limit of exchanges.  The model answers as it  *)
(* likes; a stop may be asked for, and the job's time run out, whenever.   *)
(***************************************************************************)
EXTENDS Naturals

CONSTANTS
    MaxExchanges,   \* MAX_EXCHANGES
    MaxReads,       \* MAX_READS
    MaxCorrections  \* MAX_CORRECTIONS

ASSUME LimitsAssumption ==
    MaxExchanges \in Nat \ {0} /\ MaxReads \in Nat \ {0} /\ MaxCorrections \in Nat

VARIABLES
    preload,      \* the caller served slices with the first packet
    pc,           \* where the exchange is
    number,       \* the turn
    extra,        \* turns' worth used by anchor corrections
    corrections,  \* results and envelopes rejected
    rounds,       \* read_rounds
    seen,         \* keys in `seen`, served or not
    left,         \* reads of this reply still to look at
    outcome,      \* how the exchange ended
    stop, expired,
    invoked,      \* history: calls of the model, counted to one past the limit
    served,       \* history: windows served beyond the preload
    owed,         \* history: a result was rejected and its reason not yet sent
    anchored      \* history: the latest rejection was followed by an anchor correction

counters == <<number, extra, corrections, rounds>>
reads    == <<seen, left, served>>
env      == <<stop, expired>>
vars     == <<preload, pc, counters, reads, outcome, env, invoked, owed, anchored>>

Outcomes == {"none", "result", "cancelled", "timeout", "rejected", "limit", "breach"}

TypeOK ==
    /\ preload \in BOOLEAN
    /\ pc \in {"turn", "asked", "answered", "reading", "rejected", "asking", "corrected",
               "feedback", "over"}
    /\ number \in 1..(MaxExchanges + 1) /\ extra \in 0..MaxExchanges
    /\ corrections \in 0..(MaxCorrections + 1) /\ rounds \in 0..MaxExchanges
    /\ seen \in Nat /\ left \in 0..MaxReads
    /\ outcome \in Outcomes
    /\ stop \in BOOLEAN /\ expired \in BOOLEAN
    /\ invoked \in 0..(MaxExchanges + 1) /\ served \in Nat
    /\ owed \in BOOLEAN /\ anchored \in BOOLEAN

Init ==
    /\ preload \in BOOLEAN
    /\ pc = "turn" /\ number = 1 /\ extra = 0 /\ corrections = 0 /\ rounds = 0
    /\ seen = 0 /\ left = 0 /\ outcome = "none"
    /\ stop = FALSE /\ expired = FALSE
    /\ invoked = 0 /\ served = 0
    /\ owed = FALSE /\ anchored = FALSE

Finish(how) == pc' = "over" /\ outcome' = how
NextTurn == pc' = "turn" /\ number' = number + 1
CountCall == invoked' = IF invoked > MaxExchanges THEN invoked ELSE invoked + 1
-----------------------------------------------------------------------------
(***************************************************************************)
(* A turn                                                                  *)
(***************************************************************************)

Exhausted == number > MaxExchanges \/ number + extra > MaxExchanges

\* A packet too large even without the rejected result it carries ends the
\* answer; one that carries none ends the exchange.
Turn ==
    /\ pc = "turn"
    /\ \/ Exhausted /\ Finish("limit") /\ UNCHANGED <<invoked, owed>>
       \/ ~Exhausted /\ stop /\ Finish("cancelled") /\ UNCHANGED <<invoked, owed>>
       \/ ~Exhausted /\ ~stop /\ expired /\ Finish("timeout") /\ UNCHANGED <<invoked, owed>>
       \/ /\ ~Exhausted /\ ~stop /\ ~expired
          /\ \/ Finish("breach") /\ UNCHANGED <<invoked, owed>>
             \/ corrections > 0 /\ Finish("rejected") /\ UNCHANGED <<invoked, owed>>
             \/ /\ pc' = "asked" /\ UNCHANGED outcome
                /\ CountCall
                /\ owed' = FALSE
    /\ UNCHANGED <<preload, counters, reads, env, anchored>>

\* The host fails, is cancelled or times out.
InvokeRaises ==
    /\ pc \in {"asked", "asking"}
    /\ \/ stop /\ Finish("cancelled")
       \/ \E how \in {"timeout", "breach"} : Finish(how)
    /\ UNCHANGED <<preload, counters, reads, env, invoked, owed, anchored>>

Reply ==
    /\ pc = "asked"
    /\ IF stop THEN Finish("cancelled") ELSE pc' = "answered" /\ UNCHANGED outcome
    /\ UNCHANGED <<preload, counters, reads, env, invoked, owed, anchored>>

\* A reply the host's own schema should have stopped.
Breach ==
    /\ pc = "answered" /\ Finish("breach")
    /\ UNCHANGED <<preload, counters, reads, env, invoked, owed, anchored>>

\* A reply that mixes both actions is the model's to correct.
MixedEnvelope ==
    /\ pc = "answered"
    /\ corrections' = corrections + 1
    /\ IF corrections' > MaxCorrections
       THEN Finish("rejected") /\ UNCHANGED number
       ELSE NextTurn /\ UNCHANGED outcome
    /\ UNCHANGED <<preload, extra, rounds, reads, env, invoked, owed, anchored>>
-----------------------------------------------------------------------------
(***************************************************************************)
(* A complete result                                                       *)
(***************************************************************************)

\* Contract, normalization and review accept the result.
Accept ==
    /\ pc \in {"answered", "corrected"}
    /\ Finish("result")
    /\ UNCHANGED <<preload, counters, reads, env, invoked, owed, anchored>>

\* Mutants of NoTurnLeft: a rejection looks only at the corrections made, or
\* only at the turns used.
OnlyCorrections == corrections + 1 > MaxCorrections
OnlyTurns == number + extra >= MaxExchanges

NoTurnLeft == corrections + 1 > MaxCorrections \/ number + extra >= MaxExchanges

\* rejected(): without a correction or a turn left the job fails with the reason.
Reject ==
    /\ pc \in {"answered", "corrected"}
    /\ corrections' = corrections + 1
    /\ IF NoTurnLeft
       THEN Finish("rejected") /\ UNCHANGED <<owed, anchored>>
       ELSE /\ pc' = IF pc = "answered" THEN "rejected" ELSE "feedback"
            /\ owed' = TRUE /\ anchored' = (pc = "corrected")
            /\ UNCHANGED outcome
    /\ UNCHANGED <<preload, number, extra, rounds, reads, env, invoked>>

\* Only citations are wrong: their lines alone are asked for, if the slices
\* hold them and time is left.  The attempt counts as a call either way.
CorrectAnchors ==
    /\ pc = "rejected"
    /\ extra' = extra + 1 /\ anchored' = TRUE
    /\ \/ ~stop /\ ~expired /\ pc' = "asking" /\ CountCall
       \/ pc' = "feedback" /\ UNCHANGED invoked
    /\ UNCHANGED <<preload, number, corrections, rounds, reads, outcome, env, owed>>

\* An answer outside the supplied lines falls back to a full correction.
AnchorsAnswered ==
    /\ pc = "asking"
    /\ pc' \in {"corrected", "feedback"}
    /\ UNCHANGED <<preload, counters, reads, outcome, env, invoked, owed, anchored>>

RejectedAsAWhole ==
    /\ pc = "rejected" /\ pc' = "feedback"
    /\ UNCHANGED <<preload, counters, reads, outcome, env, invoked, owed, anchored>>

\* Mutant of Feedback: the cited windows are served whatever was read before.
FeedbackServesAll ==
    /\ pc = "feedback" /\ NextTurn
    /\ \E windows \in 0..MaxReads :
        seen' = seen + windows /\ served' = served + windows
    /\ UNCHANGED <<preload, extra, corrections, rounds, left, outcome, env, invoked, owed, anchored>>

\* The correction turn carries the windows the rejection cites (_serve_anchors).
Feedback ==
    /\ pc = "feedback" /\ NextTurn
    /\ \E windows \in 0..MaxReads :
        /\ windows > 0 => seen + windows <= MaxReads
        /\ seen' = seen + windows /\ served' = served + windows
    /\ UNCHANGED <<preload, extra, corrections, rounds, left, outcome, env, invoked, owed, anchored>>
-----------------------------------------------------------------------------
(***************************************************************************)
(* A read                                                                  *)
(***************************************************************************)

\* A job with a preload has one round of further reads.
Read ==
    /\ pc = "answered"
    /\ IF preload /\ rounds > 0
       THEN NextTurn /\ UNCHANGED <<rounds, left>>
       ELSE /\ pc' = "reading" /\ rounds' = rounds + 1 /\ left' \in 1..MaxReads
            /\ UNCHANGED number
    /\ UNCHANGED <<preload, extra, corrections, seen, served, outcome, env, invoked, owed, anchored>>

\* One request of the reply.  Another admitted file and a range past the end
\* of a file are noted as seen and not served, the former beyond the limit too;
\* a slice served before is passed over.
ReadOne ==
    /\ pc = "reading" /\ left > 0
    /\ left' = left - 1
    /\ \/ UNCHANGED <<seen, served>>
       \/ seen' = seen + 1 /\ UNCHANGED served
       \/ seen < MaxReads /\ seen' = seen + 1 /\ served' = served + 1
    /\ UNCHANGED <<preload, pc, counters, outcome, env, invoked, owed, anchored>>

\* The reply is read to its end, or to the first request past a limit.
ReadsDone ==
    /\ pc = "reading"
    /\ left' = 0 /\ NextTurn
    /\ UNCHANGED <<preload, extra, corrections, rounds, seen, served, outcome, env, invoked, owed,
                   anchored>>

\* A source outside the admitted scope ends the exchange.
ReadOutside ==
    /\ pc = "reading" /\ left > 0 /\ Finish("breach")
    /\ UNCHANGED <<preload, counters, reads, env, invoked, owed, anchored>>
-----------------------------------------------------------------------------
AskStop ==
    /\ pc # "over" /\ ~stop /\ stop' = TRUE
    /\ UNCHANGED <<preload, pc, counters, reads, outcome, expired, invoked, owed, anchored>>

Expire ==
    /\ pc # "over" /\ ~expired /\ expired' = TRUE
    /\ UNCHANGED <<preload, pc, counters, reads, outcome, stop, invoked, owed, anchored>>

Dialogue ==
    \/ Turn \/ InvokeRaises \/ Reply \/ Breach \/ MixedEnvelope \/ Accept \/ Reject
    \/ CorrectAnchors \/ AnchorsAnswered \/ RejectedAsAWhole \/ Feedback
    \/ Read \/ ReadOne \/ ReadsDone \/ ReadOutside

Next == Dialogue \/ AskStop \/ Expire \/ (pc = "over" /\ UNCHANGED vars)

Spec == Init /\ [][Next]_vars
-----------------------------------------------------------------------------
(***************************************************************************)
(* Properties                                                              *)
(***************************************************************************)

\* However reads, corrections and anchor corrections mix, the model is called
\* at most MAX_EXCHANGES times, and the calls the job reports, number + extra,
\* are never fewer than those it made.
CallsBounded ==
    /\ invoked <= MaxExchanges
    /\ outcome = "result" => invoked <= number + extra /\ number + extra <= MaxExchanges

\* A rejection is "returned to the model as a bounded controller-authored
\* reason" (run_exchange) or is the reason the job fails with; only an anchor
\* correction may use up the turn it was to be returned in.
RejectionReturned == outcome = "limit" /\ owed => anchored

\* No mixture of reads and rejections serves more windows than MAX_READS, and a
\* preloaded job reads in one round, rejected or not.
ServedBounded == served <= MaxReads /\ (preload => rounds <= 1)
=============================================================================
