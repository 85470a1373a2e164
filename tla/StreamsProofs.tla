---------------------------- MODULE StreamsProofs ----------------------------
(***************************************************************************)
(* Streams' invariants hold for any finite set of SETs and of emitters,    *)
(* any number of polls in flight, and any batch size and hold limit.       *)
(***************************************************************************)
EXTENDS Streams, FiniteSetTheorems, TLAPS

LEMMA Parties ==
  /\ IsFiniteSet(Set) /\ IsFiniteSet(Emitter) /\ None \notin Set
  /\ MaxHeld \in Nat /\ MaxHeld >= 1 /\ MaxLost \in Nat
  BY SetsAssumption, LimitsAssumption

LEMMA SizeOfSets ==
  ASSUME NEW S \in SUBSET Set
  PROVE  IsFiniteSet(S) /\ Cardinality(S) \in Nat
  BY Parties, FS_Subset, FS_CardinalityType

-----------------------------------------------------------------------------
(* Types.                                                                  *)

LEMMA TypeInit == Init => TypeOK
<1> SUFFICES ASSUME Init PROVE TypeOK
  OBVIOUS
<1>1. poll \in [Poll -> PollState] /\ emitter \in [Emitter -> EmitterState]
  BY DEF Init, IdlePoll, PollState, Idle, EmitterState
<1>2. stream \in Stream /\ fate \in [Set -> Fates] /\ stamp \in [Set -> Nat]
  BY DEF Init, Stream, Statuses, Fates
<1>3. lost \in 0..MaxLost /\ backlog \in Nat /\ unseen \in Nat
  BY Parties DEF Init
<1> QED BY <1>1, <1>2, <1>3 DEF Init, TypeOK

LEMMA EnteringType ==
  ASSUME TypeOK
  PROVE  /\ Entering \in SUBSET Set
         /\ \A e \in Emitter : EnteringBeside(e) \in SUBSET Set /\ LetIn(e) \in SUBSET Set
<1>1. \A e \in Emitter : LetIn(e) \in SUBSET Set
  BY Parties DEF TypeOK, EmitterState, LetIn
<1> QED BY <1>1 DEF Entering, EnteringBeside

LEMMA ManageType ==
  ASSUME TypeOK,
         \/ \E status \in Statuses : SetStatus(status)
         \/ Switch \/ Delete
         \/ \E s \in Set : Expire(s)
  PROVE  TypeOK'
<1> USE DEF history, pause
<1>1. ASSUME NEW status \in Statuses, SetStatus(status) PROVE TypeOK'
  <2>1. stream' \in Stream
    BY <1>1 DEF SetStatus, TypeOK, Stream
  <2>2. Cardinality(queue \union Entering) \in Nat
    BY SizeOfSets, EnteringType DEF TypeOK
  <2>3. backlog' \in Nat /\ unseen' \in Nat
    BY <1>1, <2>2 DEF SetStatus, TypeOK
  <2> QED BY <1>1, <2>1, <2>3 DEF SetStatus, TypeOK
<1>2. CASE Switch
  <2>1. stream' \in Stream
    BY <1>2 DEF Switch, TypeOK, Stream
  <2> QED BY <1>2, <2>1 DEF Switch, TypeOK
<1>3. CASE Delete
  <2>1. stream' \in Stream
    BY <1>3 DEF Delete, TypeOK, Stream
  <2> QED BY <1>3, <2>1 DEF Delete, TypeOK
<1>4. ASSUME NEW s \in Set, Expire(s) PROVE TypeOK'
  BY <1>4 DEF Expire, TypeOK, Fates
<1> QED BY <1>1, <1>2, <1>3, <1>4

LEMMA Record ==
  ASSUME TypeOK, NEW e \in Emitter
  PROVE  /\ emitter[e] = [pc |-> emitter[e].pc, todo |-> emitter[e].todo,
                          set |-> emitter[e].set, rows |-> emitter[e].rows]
         /\ emitter[e].pc \in {"idle", "status", "count", "insert", "commit"}
         /\ emitter[e].todo \in SUBSET Set /\ emitter[e].rows \in SUBSET Set
         /\ emitter[e].set \in Set \union {None}
         /\ emitter[e].pc \in {"count", "insert"} <=> emitter[e].set # None
  BY DEF TypeOK, EmitterState

LEMMA EmitType ==
  ASSUME TypeOK,
         \/ \E e \in Emitter, subscription \in BOOLEAN :
              \E sets \in SUBSET Set : sets # {} /\ Emit(e, sets, subscription)
         \/ \E e \in Emitter : EmitterStep(e) \/ Abort(e)
  PROVE  TypeOK'
<1> USE DEF history, pause
<1>f. ASSUME NEW sets, NEW what \in Fates PROVE Settled(sets, what) \in [Set -> Fates]
  BY DEF Settled, TypeOK
<1>g. {"emitting", "queued", "gone"} \subseteq Fates
  BY DEF Fates
<1>1. ASSUME NEW e \in Emitter, NEW sets \in SUBSET Set, NEW b \in BOOLEAN, Emit(e, sets, b)
      PROVE  TypeOK'
  <2>1. ASSUME NEW place \in Places(sets), NEW s \in sets PROVE place[s] \in Nat
    <3>1. /\ Cardinality({t \in Set : ~Fresh(t)}) \in Nat /\ Cardinality(sets) \in Nat
      BY SizeOfSets
    <3> QED BY <3>1, <2>1 DEF Places
  <2>2. stamp' \in [Set -> Nat]
    BY <1>1, <2>1 DEF Emit, TypeOK
  <2>3. fate' \in [Set -> Fates]
    <3>1. /\ Settled(sets, "emitting") \in [Set -> Fates]
          /\ Settled(sets, "gone") \in [Set -> Fates]
      BY <1>f, <1>g
    <3> QED BY <1>1, <3>1 DEF Emit
  <2>4. emitter' \in [Emitter -> EmitterState]
    <3>1. CASE emitter' = emitter
      BY <3>1 DEF TypeOK
    <3>2. CASE emitter' = [emitter EXCEPT ![e] =
                  [pc |-> "status", todo |-> sets, set |-> None, rows |-> {}]]
      BY <3>2 DEF TypeOK, EmitterState
    <3> QED BY <1>1, <3>1, <3>2 DEF Emit, Idle
  <2> QED BY <1>1, <2>2, <2>3, <2>4 DEF Emit, TypeOK
<1>2. ASSUME NEW e \in Emitter, NEW s \in Set, Status(e, s) PROVE TypeOK'
  <2>1. fate' \in [Set -> Fates]
    BY <1>2 DEF Status, TypeOK, Fates
  <2>2. emitter' \in [Emitter -> EmitterState]
    BY <1>2, Record, Parties DEF Status, TypeOK, EmitterState
  <2> QED BY <1>2, <2>1, <2>2 DEF Status, TypeOK
<1>3. ASSUME NEW e \in Emitter, Count(e) PROVE TypeOK'
  <2>1. fate' \in [Set -> Fates]
    BY <1>3 DEF Count, TypeOK, Fates
  <2>2. emitter' \in [Emitter -> EmitterState]
    BY <1>3, Record DEF Count, Onward, TypeOK, EmitterState
  <2>3. unseen' \in Nat
    <3>1. Cardinality(EnteringBeside(e)) \in Nat
      BY SizeOfSets, EnteringType
    <3> QED BY <1>3, <3>1 DEF Count, TypeOK
  <2> QED BY <1>3, <2>1, <2>2, <2>3 DEF Count, TypeOK
<1>4. ASSUME NEW e \in Emitter, Insert(e) PROVE TypeOK'
  <2>1. emitter' \in [Emitter -> EmitterState]
    BY <1>4, Record DEF Insert, Onward, TypeOK, EmitterState
  <2> QED BY <1>4, <2>1 DEF Insert, TypeOK
<1>5. ASSUME NEW e \in Emitter, Commit(e) \/ Abort(e) PROVE TypeOK'
  <2>1. emitter' \in [Emitter -> EmitterState]
    BY <1>5 DEF Commit, Abort, Idle, TypeOK, EmitterState
  <2>2. fate' \in [Set -> Fates]
    BY <1>5, <1>f, <1>g DEF Commit, Abort
  <2>3. queue' \subseteq Set
    BY <1>5, Record DEF Commit, Abort, TypeOK
  <2> QED BY <1>5, <2>1, <2>2, <2>3 DEF Commit, Abort, TypeOK
<1> QED BY <1>1, <1>2, <1>3, <1>4, <1>5 DEF EmitterStep

LEMMA Batches ==
  ASSUME TypeOK
  PROVE  Taken \in SUBSET Set
  BY DEF Taken, Oldest, TypeOK

LEMMA PollEdit ==
  ASSUME TypeOK, NEW p \in Poll,
         NEW pc \in {"idle", "ack", "record", "reject", "deliver", "wait", "again", "reply"}
  PROVE  /\ [poll EXCEPT ![p].pc = pc] \in [Poll -> PollState]
         /\ \A b \in SUBSET Set :
              [poll EXCEPT ![p].pc = pc, ![p].batch = b] \in [Poll -> PollState]
  BY ZenonT(60) DEF TypeOK, PollState

LEMMA PollType ==
  ASSUME TypeOK, \E p \in Poll : Send(p) \/ PollStep(p) \/ Lose(p)
  PROVE  TypeOK'
<1> USE DEF history, pause
<1>i. IdlePoll \in PollState
  BY DEF IdlePoll, PollState
<1>1. ASSUME NEW p \in Poll, Send(p) PROVE TypeOK'
  <2> DEFINE r == [pc |-> IF held = {} THEN "deliver" ELSE "ack",
                   ack |-> held \ Bad, errs |-> held \intersect Bad, batch |-> {}]
  <2>1. r \in PollState
    BY DEF TypeOK, PollState
  <2>2. poll' = [poll EXCEPT ![p] = r]
    BY <1>1 DEF Send
  <2> HIDE DEF r
  <2>3. poll' \in [Poll -> PollState]
    BY <2>1, <2>2 DEF TypeOK
  <2> QED BY <1>1, <2>3 DEF Send, TypeOK
<1>2. ASSUME NEW p \in Poll, Acknowledge(p) PROVE TypeOK'
  <2>1. poll' \in [Poll -> PollState]
    BY <1>2, PollEdit DEF Acknowledge
  <2> QED BY <1>2, <2>1 DEF Acknowledge, TypeOK
<1>3. ASSUME NEW p \in Poll, RecordRejections(p) PROVE TypeOK'
  <2>1. poll' \in [Poll -> PollState]
    BY <1>3, PollEdit DEF RecordRejections
  <2>2. trail' \subseteq Set
    BY <1>3 DEF RecordRejections, TypeOK, PollState
  <2> QED BY <1>3, <2>1, <2>2 DEF RecordRejections, TypeOK
<1>4. ASSUME NEW p \in Poll, Reject(p) PROVE TypeOK'
  <2>1. poll' \in [Poll -> PollState]
    BY <1>4, PollEdit DEF Reject
  <2>2. queue' \subseteq Set /\ retired' \subseteq Set
    BY <1>4 DEF Reject, Rejected, TypeOK
  <2> QED BY <1>4, <2>1, <2>2 DEF Reject, TypeOK
<1>5. ASSUME NEW p \in Poll, Deliver(p) PROVE TypeOK'
  <2>1. PICK pc \in {"wait", "reply"} :
          poll' = [poll EXCEPT ![p].pc = pc, ![p].batch = Taken]
    BY <1>5 DEF Deliver
  <2>2. poll' \in [Poll -> PollState]
    BY <2>1, PollEdit, Batches
  <2> QED BY <1>5, <2>2 DEF Deliver, Left, TypeOK
<1>6. ASSUME NEW p \in Poll, HasPending(p) \/ Timeout(p) PROVE TypeOK'
  <2>1. poll' \in [Poll -> PollState]
    <3>1. PICK pc \in {"again", "reply"} : poll' = [poll EXCEPT ![p].pc = pc]
      BY <1>6 DEF HasPending, Timeout
    <3> QED BY <3>1, PollEdit
  <2> QED BY <1>6, <2>1 DEF HasPending, Timeout, TypeOK
<1>7. ASSUME NEW p \in Poll, Receive(p) PROVE TypeOK'
  <2>1. poll' \in [Poll -> PollState]
    BY <1>7, <1>i DEF Receive, TypeOK
  <2>2. held' \subseteq Set /\ got' \subseteq Set
    BY <1>7 DEF Receive, TypeOK, PollState
  <2> QED BY <1>7, <2>1, <2>2 DEF Receive, TypeOK
<1>8. ASSUME NEW p \in Poll, Lose(p) PROVE TypeOK'
  <2>1. poll' \in [Poll -> PollState]
    BY <1>8, <1>i DEF Lose, TypeOK
  <2>2. lost' \in 0..MaxLost
    BY <1>8, Parties DEF Lose, TypeOK
  <2> QED BY <1>8, <2>1, <2>2 DEF Lose, TypeOK
<1> QED BY <1>1, <1>2, <1>3, <1>4, <1>5, <1>6, <1>7, <1>8 DEF PollStep

LEMMA TypeStep == TypeOK /\ [Next]_vars => TypeOK'
<1>1. ASSUME TypeOK, UNCHANGED vars PROVE TypeOK'
  BY <1>1 DEF TypeOK, vars
<1> QED BY <1>1, ManageType, EmitType, PollType DEF Next

(* The stream's row, its queue and the handlers keep their types, for any  *)
(* number of SETs, emitters and polls.                                     *)
THEOREM TypeCorrect == Spec => []TypeOK
<1>1. Init => TypeOK
  BY TypeInit
<1>2. TypeOK /\ [Next]_vars => TypeOK'
  BY TypeStep
<1> QED BY <1>1, <1>2, PTL DEF Spec

-----------------------------------------------------------------------------
(* The queue.                                                              *)

(* What a poll reports the receiver has received.                          *)
Honest == /\ held \subseteq got
          /\ \A p \in Poll : poll[p].ack \subseteq got /\ poll[p].errs \subseteq got

(* The audit entries come before the deletion.                             *)
Recorded ==
  \A p \in Poll : poll[p].pc = "reject" => poll[p].errs \subseteq trail

(* The rows of an open transaction keep the stream from being deleted.     *)
Linked == \A e \in Emitter : emitter[e].rows # {} => Exists

QInv == /\ TypeOK /\ Honest /\ Recorded /\ Linked
        /\ NothingLost /\ DeletedHoldsNothing /\ RefusalOnTrail

LEMMA QInit == Init => QInv
<1> SUFFICES ASSUME Init PROVE QInv
  OBVIOUS
<1>1. Honest /\ Recorded /\ Linked
  BY DEF Init, Honest, Recorded, IdlePoll, Linked, Idle
<1>2. NothingLost /\ DeletedHoldsNothing /\ RefusalOnTrail
  BY DEF Init, NothingLost, DeletedHoldsNothing, RefusalOnTrail, Exists
<1> QED BY <1>1, <1>2, TypeInit DEF QInv

LEMMA HonestStep == QInv /\ [Next]_vars => (Honest /\ Recorded)'
<1> SUFFICES ASSUME QInv, [Next]_vars PROVE (Honest /\ Recorded)'
  OBVIOUS
<1> USE DEF history, pause
<1>t. poll \in [Poll -> PollState]
  BY DEF QInv, TypeOK
<1>k. ASSUME got \subseteq got', held' \subseteq got', trail \subseteq trail',
             \A q \in Poll : /\ poll'[q].ack \subseteq got' /\ poll'[q].errs \subseteq got'
                             /\ \/ poll'[q].pc # "reject"
                                \/ poll'[q].pc = poll[q].pc /\ poll'[q].errs = poll[q].errs
      PROVE  (Honest /\ Recorded)'
  BY <1>k DEF QInv, Honest, Recorded
<1>1. ASSUME NEW p \in Poll, Send(p) PROVE (Honest /\ Recorded)'
  BY <1>1, <1>t, <1>k DEF Send, QInv, Honest
<1>2. ASSUME NEW p \in Poll, Acknowledge(p) \/ Reject(p) \/ HasPending(p) \/ Timeout(p)
      PROVE  (Honest /\ Recorded)'
  <2>1. PICK pc : pc # "reject" /\ poll' = [poll EXCEPT ![p].pc = pc]
    BY <1>2 DEF Acknowledge, Reject, HasPending, Timeout
  <2>2. \A q \in Poll : /\ poll'[q].ack = poll[q].ack /\ poll'[q].errs = poll[q].errs
                        /\ poll'[q].pc # "reject" \/ poll'[q].pc = poll[q].pc
    BY <1>t, <2>1 DEF PollState
  <2>3. UNCHANGED <<held, got, trail>>
    BY <1>2 DEF Acknowledge, Reject, HasPending, Timeout
  <2> QED BY <1>k, <2>2, <2>3 DEF QInv, Honest
<1>3. ASSUME NEW p \in Poll, RecordRejections(p) PROVE (Honest /\ Recorded)'
  <2>1. \A q \in Poll : /\ poll'[q].ack = poll[q].ack /\ poll'[q].errs = poll[q].errs
                        /\ poll'[q].pc = IF q = p THEN "reject" ELSE poll[q].pc
    BY <1>3, <1>t DEF RecordRejections, PollState
  <2>2. Honest'
    BY <1>3, <2>1 DEF RecordRejections, QInv, Honest
  <2>3. poll[p].errs \subseteq trail' /\ trail \subseteq trail'
    BY <1>3 DEF RecordRejections
  <2>4. Recorded'
    BY <2>1, <2>3 DEF QInv, Recorded
  <2> QED BY <2>2, <2>4
<1>4. ASSUME NEW p \in Poll, Deliver(p) PROVE (Honest /\ Recorded)'
  <2>1. PICK pc, b : pc # "reject" /\ poll' = [poll EXCEPT ![p].pc = pc, ![p].batch = b]
    BY <1>4 DEF Deliver
  <2>2. \A q \in Poll : /\ poll'[q].ack = poll[q].ack /\ poll'[q].errs = poll[q].errs
                        /\ poll'[q].pc # "reject" \/ poll'[q].pc = poll[q].pc
    BY <1>t, <2>1 DEF PollState
  <2>3. UNCHANGED <<held, got, trail>>
    BY <1>4 DEF Deliver
  <2> QED BY <1>k, <2>2, <2>3 DEF QInv, Honest
<1>5. ASSUME NEW p \in Poll, Receive(p) \/ Lose(p) PROVE (Honest /\ Recorded)'
  <2>1. \A q \in Poll : poll'[q] = IF q = p THEN IdlePoll ELSE poll[q]
    BY <1>5, <1>t DEF Receive, Lose
  <2>2. /\ got \subseteq got' /\ held' \subseteq got' /\ UNCHANGED trail
    BY <1>5 DEF Receive, Lose, QInv, Honest
  <2>3. \A q \in Poll : /\ poll'[q].ack \subseteq got' /\ poll'[q].errs \subseteq got'
                        /\ poll'[q].pc # "reject" \/ poll'[q] = poll[q]
    BY <2>1, <2>2 DEF QInv, Honest, IdlePoll
  <2> QED BY <1>k, <2>2, <2>3
<1>6. CASE UNCHANGED <<poll, held, got, trail>>
  BY <1>6, <1>k DEF QInv, Honest
<1> QED BY <1>1, <1>2, <1>3, <1>4, <1>5, <1>6
     DEF Next, PollStep, EmitterStep, vars, SetStatus, Switch, Delete, Expire, Emit, Status, Count,
         Insert, Commit, Abort

LEMMA RefusalStep == QInv /\ [Next]_vars => RefusalOnTrail'
<1> SUFFICES ASSUME QInv, [Next]_vars PROVE RefusalOnTrail'
  OBVIOUS
<1> USE DEF history, pause
<1>1. ASSUME NEW p \in Poll, RecordRejections(p) PROVE RefusalOnTrail'
  BY <1>1 DEF RecordRejections, QInv, RefusalOnTrail
<1>2. ASSUME NEW p \in Poll, Reject(p) PROVE RefusalOnTrail'
  BY <1>2 DEF Reject, QInv, RefusalOnTrail, Recorded
<1>3. CASE UNCHANGED <<retired, trail>>
  BY <1>3 DEF QInv, RefusalOnTrail
<1> QED BY <1>1, <1>2, <1>3
     DEF Next, PollStep, EmitterStep, vars, SetStatus, Switch, Delete, Expire, Emit, Status, Count,
         Insert, Commit, Abort, Send, Acknowledge, Deliver, HasPending, Timeout, Receive, Lose

LEMMA QueueStep == QInv /\ [Next]_vars => (NothingLost /\ DeletedHoldsNothing)'
<1> SUFFICES ASSUME QInv, [Next]_vars PROVE (NothingLost /\ DeletedHoldsNothing)'
  OBVIOUS
<1> USE DEF history, pause
<1>t. stream \in Stream /\ queue \subseteq Set /\ fate \in [Set -> Fates]
  BY DEF QInv, TypeOK
<1>k. ASSUME Exists' <=> Exists, queue' \subseteq queue, got \subseteq got',
             queue \subseteq queue' \union got',
             \A s \in Set : fate'[s] = "queued" => fate[s] = "queued"
      PROVE  (NothingLost /\ DeletedHoldsNothing)'
  BY <1>k DEF QInv, NothingLost, DeletedHoldsNothing
<1>1. ASSUME NEW status \in Statuses, SetStatus(status) \/ Switch
      PROVE  (NothingLost /\ DeletedHoldsNothing)'
  <2>1. Exists' <=> Exists
    BY <1>1, <1>t DEF SetStatus, Switch, Exists, Statuses, Stream
  <2> QED BY <1>1, <1>k, <2>1 DEF SetStatus, Switch
<1>2. CASE Delete
  <2>1. ~Exists' /\ queue' = {}
    BY <1>2, <1>t DEF Delete, Exists, Stream
  <2> QED BY <2>1 DEF NothingLost, DeletedHoldsNothing
<1>3. ASSUME NEW s \in Set, Expire(s) PROVE (NothingLost /\ DeletedHoldsNothing)'
  <2>1. /\ queue' = queue \ {s} /\ fate'[s] = "gone" /\ stream' = stream /\ got' = got
        /\ \A t \in Set : t # s => fate'[t] = fate[t]
    BY <1>3, <1>t DEF Expire
  <2> QED BY <2>1 DEF QInv, NothingLost, DeletedHoldsNothing, Exists
<1>4. ASSUME NEW e \in Emitter, NEW sets \in SUBSET Set, NEW b \in BOOLEAN, Emit(e, sets, b)
      PROVE  (NothingLost /\ DeletedHoldsNothing)'
  <2>1. \A t \in Set : fate'[t] = "queued" => fate[t] = "queued"
    BY <1>4, <1>t DEF Emit, Settled
  <2> QED BY <1>4, <1>k, <2>1 DEF Emit, Exists
<1>5. ASSUME NEW e \in Emitter, (\E s \in Set : Status(e, s)) \/ Count(e) \/ Insert(e) \/ Abort(e)
      PROVE  (NothingLost /\ DeletedHoldsNothing)'
  <2>1. \A t \in Set : fate'[t] = "queued" => fate[t] = "queued"
    BY <1>5, <1>t DEF Status, Count, Insert, Abort, Settled
  <2>2. UNCHANGED <<stream, queue, got>>
    BY <1>5 DEF Status, Count, Insert, Abort
  <2> QED BY <1>k, <2>1, <2>2 DEF Exists
<1>6. ASSUME NEW e \in Emitter, Commit(e) PROVE (NothingLost /\ DeletedHoldsNothing)'
  <2>1. /\ stream' = stream /\ got' = got /\ queue' = queue \union emitter[e].rows
        /\ \A t \in Set : t \notin emitter[e].rows => fate'[t] = fate[t]
    BY <1>6 DEF Commit, Settled
  <2>2. ~Exists => emitter[e].rows = {}
    BY DEF QInv, Linked
  <2> QED BY <2>1, <2>2 DEF QInv, NothingLost, DeletedHoldsNothing, Exists
<1>7. ASSUME NEW p \in Poll, Acknowledge(p) \/ Reject(p)
      PROVE  (NothingLost /\ DeletedHoldsNothing)'
  <2>1. /\ queue' = queue \ poll[p].ack \/ queue' = queue \ poll[p].errs
        /\ UNCHANGED <<stream, fate, got>>
    BY <1>7 DEF Acknowledge, Reject, Rejected
  <2>2. queue \subseteq queue' \union got
    BY <2>1 DEF QInv, Honest
  <2> QED BY <1>k, <2>1, <2>2 DEF Exists
<1>8. ASSUME NEW p \in Poll, Receive(p) PROVE (NothingLost /\ DeletedHoldsNothing)'
  BY <1>8, <1>k DEF Receive, Exists
<1>9. CASE UNCHANGED <<stream, queue, fate, got>>
  BY <1>9, <1>k DEF Exists
<1> QED BY <1>1, <1>2, <1>3, <1>4, <1>5, <1>6, <1>7, <1>8, <1>9
     DEF Next, PollStep, EmitterStep, vars, Send, RecordRejections, Deliver, Left,
         HasPending, Timeout, Lose, Statuses

LEMMA LinkedStep == QInv /\ [Next]_vars => Linked'
<1> SUFFICES ASSUME QInv, [Next]_vars, NEW e \in Emitter, emitter'[e].rows # {}
             PROVE  Exists'
  BY DEF Linked
<1> USE DEF history, pause
<1>t. emitter \in [Emitter -> EmitterState] /\ stream \in Stream
  BY DEF QInv, TypeOK
<1>1. CASE UNCHANGED emitter
  <2>1. emitter[e].rows # {} /\ Exists
    BY <1>1 DEF QInv, Linked
  <2>2. ~Delete
    BY <2>1 DEF Delete
  <2>3. CASE \E status \in Statuses : SetStatus(status)
    BY <1>t, <2>3 DEF SetStatus, Exists, Statuses, Stream
  <2>4. CASE Switch
    BY <1>t, <2>1, <2>4 DEF Switch, Exists, Stream
  <2>5. CASE UNCHANGED stream
    BY <2>1, <2>5 DEF Exists
  <2> QED BY <2>2, <2>3, <2>4, <2>5
       DEF Next, PollStep, EmitterStep, vars, Expire, Emit, Status, Count, Insert, Commit,
           Abort, Send, Acknowledge, RecordRejections, Reject, Deliver, HasPending, Timeout,
           Receive, Lose
<1>2. CASE \E f \in Emitter : Insert(f)
  BY <1>2 DEF Insert, Exists
<1>3. ASSUME NEW f \in Emitter,
             \/ \E subscription \in BOOLEAN, sets \in SUBSET Set : Emit(f, sets, subscription)
             \/ \E s \in Set : Status(f, s)
             \/ Count(f) \/ Commit(f) \/ Abort(f)
      PROVE  Exists'
  <2>1. UNCHANGED stream
    BY <1>3 DEF Emit, Status, Count, Commit, Abort
  <2>2. emitter'[e].rows = emitter[e].rows \/ emitter'[e].rows = {}
    <3>1. CASE \E subscription \in BOOLEAN, sets \in SUBSET Set : Emit(f, sets, subscription)
      BY <3>1, <1>t DEF Emit, Idle
    <3>2. CASE \E s \in Set : Status(f, s)
      BY <3>2, <1>t DEF Status, EmitterState
    <3>3. CASE Count(f)
      BY <3>3, <1>t DEF Count, Onward, EmitterState
    <3>4. CASE Commit(f) \/ Abort(f)
      BY <3>4, <1>t DEF Commit, Abort, Idle
    <3> QED BY <1>3, <3>1, <3>2, <3>3, <3>4
  <2> QED BY <2>1, <2>2 DEF QInv, Linked, Exists
<1> QED BY <1>1, <1>2, <1>3
     DEF Next, PollStep, EmitterStep, vars, SetStatus, Switch, Delete, Expire, Send,
         Acknowledge, RecordRejections, Reject, Deliver, HasPending, Timeout, Receive, Lose

LEMMA QStep == QInv /\ [Next]_vars => QInv'
<1> SUFFICES ASSUME QInv, [Next]_vars PROVE QInv'
  OBVIOUS
<1>1. TypeOK'
  BY TypeStep DEF QInv
<1> QED BY <1>1, HonestStep, RefusalStep, QueueStep, LinkedStep DEF QInv

(* deliver, acknowledge and reject together lose no SET of a stream that   *)
(* exists: what left the queue the receiver has.                           *)
THEOREM NoSetIsLost == Spec => []NothingLost
<1>1. QInv => NothingLost
  BY DEF QInv
<1> QED BY <1>1, QInit, QStep, PTL DEF Spec

(* Whatever an emitter was about to insert or commit, a deleted stream     *)
(* stays empty.                                                            *)
THEOREM DeletedIsEmpty == Spec => []DeletedHoldsNothing
<1>1. QInv => DeletedHoldsNothing
  BY DEF QInv
<1> QED BY <1>1, QInit, QStep, PTL DEF Spec

(* A refused SET is deleted only after its audit entry was attempted, by   *)
(* whichever of the concurrent polls deletes it.                           *)
THEOREM RefusalsAreAudited == Spec => []RefusalOnTrail
<1>1. QInv => RefusalOnTrail
  BY DEF QInv
<1> QED BY <1>1, QInit, QStep, PTL DEF Spec

-----------------------------------------------------------------------------
(* The limit of a paused stream.                                           *)

(* What is queued and what open transactions have let in: the part of the  *)
(* bound that a commit cannot change.                                      *)
Held == queue \union Entering

Kept == Holds => \/ Cardinality(Held) <= backlog
                 \/ Cardinality(Held) <= MaxHeld + unseen

(* A step of e changes e's share only.                                     *)
LEMMA Shares ==
  ASSUME NEW e \in Emitter,
         \A f \in Emitter \ {e} : emitter'[f] = emitter[f]
  PROVE  /\ Entering = LetIn(e) \union EnteringBeside(e)
         /\ Entering' = LetIn(e)' \union EnteringBeside(e)
<1>1. \A f \in Emitter \ {e} : LetIn(f)' = LetIn(f)
  BY DEF LetIn
<1> QED BY <1>1 DEF Entering, EnteringBeside

LEMMA KeptStep == TypeOK /\ Kept /\ [Next]_vars => Kept'
<1> SUFFICES ASSUME TypeOK, Kept, [Next]_vars, Holds'
             PROVE  \/ Cardinality(Held') <= backlog'
                    \/ Cardinality(Held') <= MaxHeld + unseen'
  BY DEF Kept
<1> DEFINE Goal == \/ Cardinality(Held') <= backlog'
                   \/ Cardinality(Held') <= MaxHeld + unseen'
<1> USE DEF history, pause
<1>t. /\ Held \in SUBSET Set /\ Held' \in SUBSET Set
      /\ queue \in SUBSET Set
      /\ {backlog, backlog', unseen, unseen', MaxHeld} \subseteq Nat
      /\ emitter \in [Emitter -> EmitterState] /\ stream \in Stream
  <2>1. TypeOK'
    BY TypeStep
  <2>2. Entering' \in SUBSET Set
    BY <2>1, Parties DEF TypeOK, EmitterState, LetIn, Entering
  <2> QED BY <2>1, <2>2, EnteringType, Parties DEF Held, TypeOK
<1>n. Cardinality(Held) \in Nat /\ Cardinality(Held') \in Nat /\ IsFiniteSet(Held)
  BY <1>t, SizeOfSets
<1>k. ASSUME Holds, UNCHANGED pause, Held' \subseteq Held PROVE Goal
  <2>1. Cardinality(Held') <= Cardinality(Held)
    BY <1>k, <1>n, FS_Subset
  <2> QED BY <1>k, <1>n, <1>t, <2>1 DEF Kept
<1>1. ASSUME NEW status \in Statuses, SetStatus(status) PROVE Goal
  <2>1. status = "paused" /\ Held' = Held
    BY <1>1, <1>t DEF SetStatus, Holds, Stream, Held, Entering, LetIn
  <2>2. CASE Holds
    BY <1>1, <1>k, <2>1, <2>2 DEF SetStatus
  <2>3. CASE ~Holds
    <3>1. backlog' = Cardinality(Held)
      BY <1>1, <2>1, <2>3 DEF SetStatus, Held
    <3> QED BY <1>n, <2>1, <3>1
  <2> QED BY <2>2, <2>3
<1>2. CASE Switch
  BY <1>2, <1>t, <1>k DEF Switch, Holds, Stream, Held, Entering, LetIn
<1>3. CASE Delete
  BY <1>3, <1>t DEF Delete, Holds, Stream
<1>4. ASSUME UNCHANGED <<stream, emitter, pause>>, queue' \subseteq queue PROVE Goal
  BY <1>4, <1>k DEF Holds, Held, Entering, LetIn
<1>5. ASSUME NEW e \in Emitter, UNCHANGED <<stream, pause>>,
             \A f \in Emitter \ {e} : emitter'[f] = emitter[f],
             queue' \union LetIn(e)' \subseteq queue \union LetIn(e)
      PROVE  Goal
  <2>1. Held' \subseteq Held
    BY <1>5, Shares DEF Held
  <2> QED BY <1>5, <1>k, <2>1 DEF Holds
<1>6. ASSUME NEW e \in Emitter, NEW sets \in SUBSET Set, NEW b \in BOOLEAN, Emit(e, sets, b)
      PROVE  Goal
  <2>1. LetIn(e)' \subseteq LetIn(e)
    BY <1>6, <1>t DEF Emit, LetIn, Idle
  <2> QED BY <1>6, <1>t, <1>5, <2>1 DEF Emit
<1>7. ASSUME NEW e \in Emitter, NEW s \in Set, Status(e, s) PROVE Goal
  <2>1. Holds
    BY <1>7 DEF Status, Holds
  <2>2. LetIn(e)' \subseteq LetIn(e)
    BY <1>7, <1>t, <2>1 DEF Status, LetIn, EmitterState, Holds
  <2> QED BY <1>7, <1>t, <1>5, <2>2 DEF Status
<1>8. ASSUME NEW e \in Emitter, Count(e), ~Room(e) PROVE Goal
  <2>1. LetIn(e)' \subseteq LetIn(e)
    BY <1>8, <1>t DEF Count, Onward, LetIn
  <2> QED BY <1>8, <1>t, <1>5, <2>1 DEF Count, Onward
<1>9. ASSUME NEW e \in Emitter, Count(e), Room(e) PROVE Goal
  <2> DEFINE seen == queue \union emitter[e].rows
             set == emitter[e].set
             others == EnteringBeside(e)
  <2>1. seen \in SUBSET Set /\ others \in SUBSET Set /\ set \in Set
    BY <1>9, <1>t, Record, EnteringType DEF Count
  <2>2. Held' = (seen \union {set}) \union others
    <3>1. LetIn(e)' = emitter[e].rows \union {set}
      BY <1>9, <1>t DEF Count, LetIn, EmitterState
    <3>2. \A f \in Emitter \ {e} : emitter'[f] = emitter[f]
      BY <1>9, <1>t DEF Count
    <3> QED BY <1>9, <3>1, <3>2, Shares DEF Held, Count
  <2>3. Cardinality(seen) < MaxHeld
    BY <1>9 DEF Room
  <2>4. Cardinality(others) \in Nat /\ Cardinality(others) <= unseen'
    <3>1. Cardinality(others) \in Nat
      BY <2>1, SizeOfSets
    <3>2. unseen' = IF Cardinality(others) > unseen THEN Cardinality(others) ELSE unseen
      BY <1>9 DEF Count
    <3> HIDE DEF others
    <3> QED BY <3>1, <3>2, <1>t
  <2> HIDE DEF seen, set, others
  <2>5. Cardinality(seen \union {set}) <= MaxHeld /\ Cardinality(seen \union {set}) \in Nat
    <3>1. IsFiniteSet(seen) /\ Cardinality(seen) \in Nat
      BY <2>1, SizeOfSets
    <3>2. Cardinality(seen \union {set})
            = IF set \in seen THEN Cardinality(seen) ELSE Cardinality(seen) + 1
      BY <3>1, FS_AddElement
    <3> QED BY <1>t, <2>3, <3>1, <3>2
  <2>6. Cardinality(Held') <= Cardinality(seen \union {set}) + Cardinality(others)
    <3>1. IsFiniteSet(seen \union {set}) /\ IsFiniteSet(others)
      BY <2>1, SizeOfSets
    <3>2. /\ Cardinality((seen \union {set}) \union others)
               = Cardinality(seen \union {set}) + Cardinality(others)
                   - Cardinality((seen \union {set}) \intersect others)
      BY <3>1, FS_Union
    <3>3. Cardinality((seen \union {set}) \intersect others) \in Nat
      BY <2>1, SizeOfSets
    <3> QED BY <2>2, <2>4, <2>5, <3>2, <3>3
  <2> QED BY <1>n, <1>t, <2>4, <2>5, <2>6
<1>10. ASSUME NEW e \in Emitter, Insert(e) PROVE Goal
  <2>1. LetIn(e)' \subseteq LetIn(e)
    BY <1>10, <1>t DEF Insert, Onward, LetIn
  <2> QED BY <1>10, <1>t, <1>5, <2>1 DEF Insert, Onward
<1>11. ASSUME NEW e \in Emitter, Commit(e) \/ Abort(e) PROVE Goal
  <2>1. LetIn(e)' = {} /\ emitter[e].rows \subseteq LetIn(e)
    BY <1>11, <1>t DEF Commit, Abort, LetIn, Idle
  <2> QED BY <1>11, <1>t, <1>5, <2>1 DEF Commit, Abort
<1>12. CASE \E s \in Set : Expire(s)
  BY <1>12, <1>4 DEF Expire
<1>13. CASE \E p \in Poll : Send(p) \/ PollStep(p) \/ Lose(p)
  BY <1>13, <1>4 DEF Send, PollStep, Acknowledge, RecordRejections, Reject, Rejected,
       Deliver, Left, HasPending, Timeout, Receive, Lose
<1>14. CASE UNCHANGED vars
  BY <1>14, <1>4 DEF vars
<1> QED BY <1>1, <1>2, <1>3, <1>6, <1>7, <1>8, <1>9, <1>10, <1>11, <1>12, <1>13, <1>14
     DEF Next, EmitterStep

(* However many transactions race with a pause and with each other, and    *)
(* however many SETs each of them queues, a paused stream holds at most    *)
(* what was let in before the pause, or the limit and what passed unseen.  *)
THEOREM PauseIsBounded == Spec => []HeldBounded
<1>1. Init => TypeOK /\ Kept
  BY TypeInit DEF Init, Kept, Holds
<1>2. TypeOK /\ Kept /\ [Next]_vars => (TypeOK /\ Kept)'
  BY TypeStep, KeptStep
<1>3. TypeOK /\ Kept => HeldBounded
  <2> SUFFICES ASSUME TypeOK, Kept, Holds
               PROVE  \/ Cardinality(queue) <= backlog
                      \/ Cardinality(queue) <= MaxHeld + unseen
    BY DEF HeldBounded
  <2>1. Held \in SUBSET Set /\ queue \subseteq Held
    BY EnteringType DEF Held, TypeOK
  <2>2. /\ Cardinality(Held) \in Nat /\ Cardinality(queue) \in Nat
        /\ Cardinality(queue) <= Cardinality(Held)
    BY <2>1, SizeOfSets, FS_Subset
  <2> QED BY <2>2, Parties DEF Kept, TypeOK
<1> QED BY <1>1, <1>2, <1>3, PTL DEF Spec
=============================================================================
