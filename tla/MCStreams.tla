----------------------------- MODULE MCStreams -----------------------------
(* Instances of Streams for TLC.                                           *)
EXTENDS Streams

CONSTANTS s1, s2, e1, e2, p1, p2

MCSets == {s1, s2}
MCBad == {s1}
MCEmitters == {e1, e2}
MCPolls == {p1, p2}
=============================================================================
