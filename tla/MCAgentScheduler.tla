-------------------------- MODULE MCAgentScheduler --------------------------
(***************************************************************************)
(* TLC instances of AgentScheduler.                                        *)
(***************************************************************************)
EXTENDS AgentScheduler, TLC

CONSTANTS a1, a2, m1, m2, m3, f1

\* One agent: its queue, its turns and what resets it.
OneAgent == [m \in Messages |-> a1]

\* Two agents: work for one goes on while the other is started or restarted.
TwoAgents == [m \in {m1} |-> a1] @@ [m \in Messages \ {m1} |-> a2]
=============================================================================
