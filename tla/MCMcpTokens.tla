----------------------------- MODULE MCMcpTokens -----------------------------
(* Small instances of the tokens of a connection.                          *)
EXTENDS McpTokens, TLC

Symmetry == Permutations(Requests)
=============================================================================
