---------------------------- MODULE MCMetricsHub ----------------------------
(* A small hub for TLC: its own machine and one agent.                     *)
EXTENDS MetricsHub, TLC

CONSTANTS hub, agent, ph, pa, b1

MCHosts == {hub, agent}
MCSkew == [h \in MCHosts |-> 0]

(* The agent's clock is ahead of the hub's.                                *)
MCAgentAhead == [h \in MCHosts |-> IF h = agent THEN 2 ELSE 0]

(* Both hosts push, nothing rides on the snapshots.                        *)
MCPublishers == {ph, pa}
MCHostOf == (ph :> hub) @@ (pa :> agent)
MCFeedPayloads == {{}}

(* Only the agent pushes, with its catalog, with its disks, or bare.       *)
MCAgentOnly == {pa}
MCAgentHost == pa :> agent
MCPayloads == {{"disks"}, {"catalog", "containers"}}
=============================================================================
