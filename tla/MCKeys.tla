------------------------------- MODULE MCKeys -------------------------------
(* Model values and policies for checking Keys on small instances. *)
EXTENDS Keys, TLC

CONSTANTS k1, k2, k3, r1, r2, s1, eddsa, es256

Symmetry == Permutations(Kids) \cup Permutations(Requests)

\* rotation > propagation >= JwksAge + MaxLag, and
\* grace >= TokenLife + Ttl + MaxLag.
MCBrisk == [rotation |-> 3, propagation |-> 1, grace |-> 3]
MCBriskOnly == {MCBrisk}
=============================================================================
