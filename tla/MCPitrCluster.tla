--------------------------- MODULE MCPitrCluster ---------------------------
(* PitrCluster for TLC: a config shard of one agent and a shard of one or two. *)
EXTENDS PitrCluster

CONSTANTS l, a, b, cfg, rs

MCrsOf == [x \in Agent |-> IF x = l THEN cfg ELSE rs]
GroupsOf(gs) == [r \in RS |-> IF r = cfg THEN <<{l}>> ELSE gs]

\* Nothing fails; monitors misread and slow agents miss a nomination. Or one
\* failure, and one such miss.
MCPlans == {[groups |-> GroupsOf(<<{a}, {b}>>), faults |-> 0, misses |-> 3],
            [groups |-> GroupsOf(<<{a}>>), faults |-> 1, misses |-> 1]}
=============================================================================
