----------------------------- MODULE MCSessions -----------------------------
(* Instances of Sessions for TLC.                                          *)
EXTENDS Sessions, TLC

CONSTANTS c1, c2, h1, h2, h3

MCClients == {c1, c2}
MCHandlers == {h1, h2, h3}

Alike == Permutations(MCHandlers) \union Permutations(MCClients)
=============================================================================
