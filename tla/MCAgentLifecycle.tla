-------------------------- MODULE MCAgentLifecycle --------------------------
\* Small instances of AgentLifecycle for TLC.
EXTENDS AgentLifecycle, TLC

CONSTANTS c1, c2, j1, j2, h1

\* Two calls for one or two jobs, and a tool use beside them.
MCCalls == {c1, c2}
MCJobs == {j1, j2}
MCHooks == {h1}

Symmetry == Permutations(Calls) \cup Permutations(Jobs)
=============================================================================
