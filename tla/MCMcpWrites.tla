----------------------------- MODULE MCMcpWrites -----------------------------
(* Small instances of the approval protocol.                               *)
EXTENDS McpWrites, TLC

CONSTANTS ana, berta

\* Every family is one person's own, or two people have one each.
OnePerson == [f \in Families |-> ana]
TwoPeople == CHOOSE who \in [Families -> {ana, berta}] : \E f, g \in Families : who[f] # who[g]

Symmetry == Permutations(Threads) \cup Permutations(Tabs)
=============================================================================
