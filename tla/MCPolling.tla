----------------------------- MODULE MCPolling -----------------------------
(* Instances of Polling for TLC.                                           *)
EXTENDS Polling, TLC

CONSTANTS p1, p2, d1, d2, w1

MCPollers == {p1, p2}
MCTabs == {d1, d2}
MCNobody == {}
MCPingers == {w1}
MCSymmetry == Permutations(MCPollers) \union Permutations(MCTabs)
=============================================================================
