------------------------------ MODULE MCOutbox ------------------------------
(* Instances of Outbox for TLC.                                            *)
EXTENDS Outbox, TLC

CONSTANTS k1, w1, w2

MCWorker == {w1, w2}
MCWorkerSym == Permutations(MCWorker)

(* Rows of any kind: notifications, a stream's SETs, logouts and a         *)
(* family no deliverer is registered for.                                  *)
MCIds1 == 1..1
MCIds2 == 1..2
MCShapesAll == {<<"notification", NoKey>>, <<"ssf", k1>>, <<"logout", NoKey>>,
                <<"unregistered", NoKey>>}

(* Rows of one key.                                                        *)
MCShapesKeyed == {<<"ssf", k1>>}
=============================================================================
