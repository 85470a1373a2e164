------------------------------ MODULE MCAudit ------------------------------
(***************************************************************************)
(* Model values of Audit for TLC.  Transactions are interchangeable.       *)
(***************************************************************************)
EXTENDS Audit, TLC

CONSTANTS t1, t2, t3

MCTwoTx == {t1, t2}
MCThreeTx == {t1, t2, t3}

=============================================================================
