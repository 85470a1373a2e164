------------------------------ MODULE MCTokens ------------------------------
(* Instances of Tokens for TLC.                                            *)
EXTENDS Tokens, TLC

CONSTANTS r1, r2, a1, a2, offline

MCRequests == {r1, r2}
MCSym == Permutations(MCRequests)

(* The first authorization creates the grant, the second amends it.        *)
MCAuth == {a1, a2}

MCScopes == {offline}
=============================================================================
