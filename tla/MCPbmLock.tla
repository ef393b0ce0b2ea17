----------------------------- MODULE MCPbmLock -----------------------------
(* PbmLock for TLC: two agents and two commands of one replica set.        *)
EXTENDS PbmLock, TLC

\* Agents are interchangeable, and so are commands.
Symmetry == Permutations(Node) \cup Permutations(Op)
=============================================================================
