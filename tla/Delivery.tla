------------------------------ MODULE Delivery ------------------------------
(***************************************************************************)
(* What the transactional outbox promises its producers and its receivers, *)
(* with no workers, leases, attempts or retries in sight: a letter is owed *)
(* from its commit until it is settled, it is only called delivered once a *)
(* receiver has been handed it, and no receiver is handed a letter while   *)
(* an earlier letter of the same key is owed.                              *)
(***************************************************************************)
EXTENDS Integers

CONSTANTS
  Ids,     \* letters, in the order their ids were drawn
  Keys,    \* ordering keys
  NoKey    \* the key of a letter that is ordered with no other

VARIABLES
  letter,  \* where each letter stands, and its ordering key
  handed,  \* the letters a receiver has been handed at least once
  excused  \* owed letters that later ones of their key need not wait for

vars == <<letter, handed, excused>>

Settled == {"delivered", "journalled", "expired", "dead"}

Init ==
  /\ letter = [i \in Ids |-> [phase |-> "absent", key |-> NoKey]]
  /\ handed = {}
  /\ excused = {}

Accepted(i) == letter[i].phase # "absent"

(* A transaction commits the letters S.  One that an accepted letter with  *)
(* a higher id preceded has lost its place in the order.                   *)
Accept(S, key) ==
  /\ \A i \in S : ~Accepted(i)
  /\ letter' = [i \in Ids |-> IF i \in S THEN [phase |-> "owed", key |-> key[i]]
                                         ELSE letter[i]]
  /\ excused' = excused \union
       {i \in S : \E j \in Ids : /\ i < j /\ Accepted(j)
                                 /\ letter[j].key = key[i] /\ key[i] # NoKey}
  /\ UNCHANGED handed

(* A transaction rolls back.                                               *)
Refuse(i, k) ==
  /\ ~Accepted(i)
  /\ letter' = [letter EXCEPT ![i] = [phase |-> "gone", key |-> k]]
  /\ UNCHANGED <<handed, excused>>

Waits(i) == \E e \in Ids : /\ e < i
                           /\ letter[e].key = letter[i].key /\ letter[i].key # NoKey
                           /\ letter[e].phase = "owed" /\ e \notin excused

(* The receiver is handed a letter, for the first time or again.  A letter *)
(* already on its way can still arrive after it was settled or deleted.    *)
Hand(i) ==
  /\ Accepted(i)
  /\ ~Waits(i)
  /\ handed' = handed \union {i}
  /\ UNCHANGED <<letter, excused>>

Settle(i, p) ==
  /\ letter[i].phase = "owed"
  /\ p = "delivered" => i \in handed
  /\ letter' = [letter EXCEPT ![i].phase = p]
  /\ UNCHANGED <<handed, excused>>

(* Letters given up together: a deleted stream's, whoever holds them.      *)
GiveUp(S) ==
  /\ \A i \in S : letter[i].phase = "owed"
  /\ letter' = [i \in Ids |-> IF i \in S THEN [letter[i] EXCEPT !.phase = "dead"]
                                         ELSE letter[i]]
  /\ UNCHANGED <<handed, excused>>

(* Only an operator owes a settled letter again, and only a dead one.      *)
Revive(i) ==
  /\ letter[i].phase = "dead"
  /\ letter' = [letter EXCEPT ![i].phase = "owed"]
  /\ excused' = excused \union {i}
  /\ UNCHANGED handed

Forget(i) ==
  /\ letter[i].phase \in Settled \ {"expired"}
  /\ letter' = [letter EXCEPT ![i].phase = "gone"]
  /\ UNCHANGED <<handed, excused>>

Next ==
  \/ \E S \in SUBSET Ids : \E key \in [S -> Keys \union {NoKey}] : Accept(S, key)
  \/ \E i \in Ids : \/ \E k \in Keys \union {NoKey} : Refuse(i, k)
                    \/ Hand(i)
                    \/ \E p \in Settled : Settle(i, p)
                    \/ Revive(i) \/ Forget(i)
  \/ \E S \in SUBSET Ids : GiveUp(S)

Spec == Init /\ [][Next]_vars
=============================================================================
