----------------------------- MODULE AgentStatus -----------------------------
(***************************************************************************)
(* The registry of agents (HbStatus of cmd/pbm-agent/agent.go,             *)
(* pbm/topo/agent.go): what an agent writes of itself every few seconds,   *)
(* and which agents others take to be of use.                              *)
(*                                                                         *)
(* A node is a record: member, its state in the replica set; hidden; delay *)
(* and lag, in seconds; reached, can its agent talk to it?; storage, "ok", *)
(* "failed", or "lost": it has failed since it was last looked at; silent, *)
(* the seconds since the agent last wrote its status.                      *)
(***************************************************************************)
EXTENDS Naturals

StaleSec == 35
MaxReplicationLagTimeSec == 21

\* A storage that was found in order is not looked at again for a while.
StorStatus(node) == node.storage \in {"ok", "lost"}

\* GetNodeStatus of a node that cannot be reached is not known.
State(node) == IF node.reached THEN node.member ELSE "unknown"

\* The lag is computed of those that have an optime.
ReplicationLag(node) == IF State(node) \in {"primary", "secondary"} THEN node.lag ELSE 0

UpdateAgentStat(node) ==
  [state |-> State(node), lag |-> ReplicationLag(node), delay |-> node.delay,
   hidden |-> node.reached /\ node.hidden,
   storage |-> StorStatus(node), node |-> node.reached]

\* AgentStat.OK; an agent that cannot write its status (its PBM connection) goes silent.
OK(stat) == stat.node /\ stat.storage

\* Whoever lists the agents first removes the statuses that are too old.
AgentStatusGC(node) == node.silent <= StaleSec

\* ListSteadyAgents, of one agent.
Steady(node) ==
  LET stat == UpdateAgentStat(node) IN
    /\ AgentStatusGC(node)
    /\ stat.state \in {"primary", "secondary"}
    /\ stat.delay = 0 /\ stat.lag < MaxReplicationLagTimeSec
=============================================================================
