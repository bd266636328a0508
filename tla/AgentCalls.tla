----------------------------- MODULE AgentCalls -----------------------------
(***************************************************************************)
(* What the registry of agent calls promises to those who wait for a call: *)
(* the join of a stage, the wave of STRIDE analyzers, the boundary of a    *)
(* context.  However the events of a call arrive, a call that is over does *)
(* not come to life again.  A closed one stays closed, or its record goes: *)
(* a full registry drops closed calls, the cleanup of a session drops all. *)
(* Only a call that counts as over because its child is quiet may wake.    *)
(***************************************************************************)
CONSTANT Calls
VARIABLE phase

Phases == {"absent", "live", "quiet", "over", "closed", "gone"}

\* Whether a waiter still waits for the call (wait_agent_calls.is_live).
Awaited(c) == phase[c] = "live"

Edges ==
    {<<"absent", "live">>,
     <<"live", "quiet">>, <<"quiet", "live">>,
     <<"live", "over">>, <<"quiet", "over">>,
     <<"live", "closed">>, <<"quiet", "closed">>, <<"over", "closed">>,
     <<"live", "gone">>, <<"quiet", "gone">>, <<"over", "gone">>, <<"closed", "gone">>,
     <<"gone", "closed">>}

Init == phase = [c \in Calls |-> "absent"]

\* One event may close several calls, and starts at most one.
Next ==
    \A c \in Calls : phase'[c] # phase[c] =>
        /\ <<phase[c], phase'[c]>> \in Edges
        /\ phase[c] = "absent" =>
             \A d \in Calls \ {c} : phase[d] = "absent" => phase'[d] = "absent"

Spec == Init /\ [][Next]_phase
=============================================================================
