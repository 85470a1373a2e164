------------------------------ MODULE Consent ------------------------------
(***************************************************************************)
(* What a decoupled authorization promises the person who is asked and the *)
(* client that asks, with no clocks, rows, intervals or retries in sight:  *)
(* one person answers, once; the client hears a refusal only of a person   *)
(* who refused, and tokens once, of an approval that still stands; and     *)
(* nobody is called to fetch an answer that was not given.                 *)
(***************************************************************************)
CONSTANTS
  People,   \* who may answer
  Askers    \* the client's requests

VARIABLES
  taken,      \* the answer, by whom
  spent,      \* the approval was drawn on
  paid,       \* and tokens were signed for it
  withdrawn,  \* the people whose approval no longer stands
  heard,      \* what each request is being told
  rung        \* the client was called

vars == <<taken, spent, paid, withdrawn, heard, rung>>

Init ==
  /\ taken = {}
  /\ ~spent /\ ~paid /\ ~rung
  /\ withdrawn = {}
  /\ heard = [p \in Askers |-> "nothing"]

(* The first answer is the answer.                                         *)
Answer(d, verdict) ==
  /\ taken = {}
  /\ taken' = {<<d, verdict>>}
  /\ UNCHANGED <<spent, paid, withdrawn, heard, rung>>

Withdraw(d) ==
  /\ <<d, "approve">> \in taken
  /\ withdrawn' = withdrawn \union {d}
  /\ UNCHANGED <<taken, spent, paid, heard, rung>>

(* An approval is drawn on once, whatever comes of it.                     *)
Spend ==
  /\ \E d \in People : <<d, "approve">> \in taken
  /\ ~spent /\ spent' = TRUE
  /\ UNCHANGED <<taken, paid, withdrawn, heard, rung>>

Tell(p, what) == heard' = [heard EXCEPT ![p] = what]

Pay(p) ==
  /\ spent
  /\ \E d \in People : <<d, "approve">> \in taken /\ d \notin withdrawn
  /\ ~paid /\ paid' = TRUE
  /\ Tell(p, "tokens")
  /\ UNCHANGED <<taken, spent, withdrawn, rung>>

Refuse(p) ==
  /\ \E d \in People : <<d, "deny">> \in taken
  /\ Tell(p, "denied")
  /\ UNCHANGED <<taken, spent, paid, withdrawn, rung>>

(* The request is over, or its answer was lost.                            *)
Leave(p) ==
  /\ Tell(p, "nothing")
  /\ UNCHANGED <<taken, spent, paid, withdrawn, rung>>

Ring ==
  /\ taken # {}
  /\ rung' = TRUE
  /\ UNCHANGED <<taken, spent, paid, withdrawn, heard>>

Next ==
  \/ \E d \in People : Answer(d, "approve") \/ Answer(d, "deny") \/ Withdraw(d)
  \/ Spend
  \/ \E p \in Askers : Pay(p) \/ Refuse(p) \/ Leave(p)
  \/ Ring

Spec == Init /\ [][Next]_vars
=============================================================================
