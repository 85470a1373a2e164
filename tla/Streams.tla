------------------------------ MODULE Streams ------------------------------
(***************************************************************************)
(* One Shared Signals stream delivered by polling (RFC 8936): the stream's *)
(* row, the SETs of `ssf_poll_queue`, the handlers that emit into it, the  *)
(* polls of its receiver and the receiver's own memory.                    *)
(*                                                                         *)
(* A poll names the SETs the receiver settled, and is answered with the    *)
(* oldest ones left.  Nothing but the receiver's word removes a SET, so a  *)
(* lost response is made good by the next poll.  Each statement is a step. *)
(* A transaction queues one SET or several, reads the stream's status and  *)
(* the length of the queue before each without locking either, and its     *)
(* rows are seen by others once it commits.                                *)
(*                                                                         *)
(* Streams share nothing, so there is one.  A SET stands for its jti.      *)
(***************************************************************************)
EXTENDS Integers, FiniteSets

CONSTANTS
  Set,      \* the security event tokens emitted
  Bad,      \* the ones the receiver cannot process and reports in setErrs
  Emitter,  \* handlers that may be emitting at once
  Poll,     \* polls the receiver may have in flight
  Batch,    \* PollRequest::batch_size
  MaxHeld,  \* MAX_HELD_WHILE_PAUSED
  None,
  MaxLost   \* bound: the polls and responses that are lost

ASSUME SetsAssumption == /\ IsFiniteSet(Set) /\ Bad \subseteq Set
                         /\ None \notin Set
                         /\ IsFiniteSet(Emitter)
ASSUME LimitsAssumption == {Batch, MaxHeld} \subseteq Nat \ {0}
                           /\ MaxLost \in Nat

VARIABLES
  stream,   \* its status and delivery method
  queue,    \* ssf_poll_queue
  stamp,    \* queued_at: when the emitting request arrived
  fate,     \* what became of each SET at its emission
  emitter,
  poll,
  held,     \* the receiver: SETs received whose answer it must still report
  got,      \* history: SETs the receiver received
  retired,  \* history: SETs deleted because the receiver refused them
  trail,    \* history: refused SETs whose audit entry was attempted
  backlog,  \* history: what was queued, committed or not, at the pause
  unseen,   \* history: the most SETs of others in the dark at a count since
  lost

vars == <<stream, queue, stamp, fate, emitter, poll, held, got, retired,
          trail, backlog, unseen, lost>>

pause == <<backlog, unseen>>

history == <<retired, trail, lost>>

-----------------------------------------------------------------------------

Statuses == {"enabled", "paused", "disabled"}
Stream == [status : Statuses \union {"deleted"}, method : {"poll", "push"}]

(* "gone": dropped or rolled back, sent by push, or removed by retention.  *)
Fates == {"none", "emitting", "queued", "gone"}

(* A transaction that queues SETs: the ones it has still to queue, the one *)
(* it is queueing and the rows it has inserted.                            *)
EmitterState ==
  {t \in [pc : {"idle", "status", "count", "insert", "commit"},
          todo : SUBSET Set, set : Set \union {None}, rows : SUBSET Set] :
     t.pc \in {"count", "insert"} <=> t.set # None}

Idle == [pc |-> "idle", todo |-> {}, set |-> None, rows |-> {}]

PollState == [pc : {"idle", "ack", "record", "reject", "deliver", "wait",
                    "again", "reply"},
              ack : SUBSET Set, errs : SUBSET Set,
              batch : SUBSET Set]

IdlePoll == [pc |-> "idle", ack |-> {}, errs |-> {}, batch |-> {}]

Init ==
  /\ stream = [status |-> "enabled", method |-> "poll"]
  /\ queue = {}
  /\ stamp = [s \in Set |-> 0]
  /\ fate = [s \in Set |-> "none"]
  /\ emitter = [e \in Emitter |-> Idle]
  /\ poll = [p \in Poll |-> IdlePoll]
  /\ held = {}
  /\ got = {}
  /\ retired = {}
  /\ trail = {}
  /\ backlog = 0
  /\ unseen = 0
  /\ lost = 0

Exists == stream.status # "deleted"
Delivers == stream.status = "enabled"
Holds == stream.status = "paused"

(* The SETs a transaction has let in: the rows it has inserted and the one *)
(* it is about to.                                                         *)
LetIn(e) == emitter[e].rows \union
              (IF emitter[e].pc = "insert" THEN {emitter[e].set} ELSE {})

Entering == UNION {LetIn(e) : e \in Emitter}

EnteringBeside(e) == UNION {LetIn(f) : f \in Emitter \ {e}}

-----------------------------------------------------------------------------
(* The receiver's management requests and the console.                     *)

SetStatus(status) ==
  /\ Exists
  /\ stream' = [stream EXCEPT !.status = status]
  /\ IF status # "paused" THEN backlog' = 0 /\ unseen' = 0
     ELSE IF Holds THEN UNCHANGED pause
     ELSE backlog' = Cardinality(queue \union Entering) /\ unseen' = 0
  /\ UNCHANGED <<queue, stamp, fate, emitter, poll, held, got, history>>

(* save: another delivery method moves no SET from one queue to the other. *)
Switch ==
  /\ Exists
  /\ stream' = [stream EXCEPT !.method = IF @ = "poll" THEN "push" ELSE "poll"]
  /\ UNCHANGED <<queue, stamp, fate, emitter, poll, held, got, pause, history>>

(* delete: the queue goes with the row, by cascade.  A row inserted by an  *)
(* open transaction holds a key share lock on the stream's, so the delete  *)
(* waits for that transaction to end.                                      *)
Delete ==
  /\ Exists
  /\ \A e \in Emitter : emitter[e].rows = {}
  /\ stream' = [stream EXCEPT !.status = "deleted"]
  /\ queue' = {}
  /\ UNCHANGED <<stamp, fate, emitter, poll, held, got, pause, history>>

(* Retention: a SET nobody collected within a month.                       *)
Expire(s) ==
  /\ s \in queue
  /\ queue' = queue \ {s}
  /\ fate' = [fate EXCEPT ![s] = "gone"]
  /\ UNCHANGED <<stream, stamp, emitter, poll, held, got, pause, history>>

-----------------------------------------------------------------------------
(* Emission: SsfTransmitter::emit and PgSsfPoll::enqueue, in a transaction *)
(* of its own (queue_poll) or in the one that applies a received event and *)
(* queues every SET prepared for it (PgSsfReceiver).                       *)

Fresh(s) == fate[s] = "none"

(* The order of the queue, (queued_at, jti): the SETs of one transaction   *)
(* share the instant its request arrived at, and a SET of a later request  *)
(* may be queued first.                                                    *)
Places(sets) ==
  LET n == Cardinality({t \in Set : ~Fresh(t)})
      N == n + 1 .. n + Cardinality(sets)
  IN {f \in [sets -> N] : \A s, t \in sets : f[s] = f[t] => s = t}

Settled(sets, what) == [s \in Set |-> IF s \in sets THEN what ELSE fate[s]]

(* subscribed passes a disabled stream over; verify and announce_status    *)
(* read the stream whatever its status.                                    *)
Emit(e, sets, subscription) ==
  /\ emitter[e].pc = "idle"
  /\ \A s \in sets : Fresh(s)
  /\ Exists
  /\ subscription => stream.status # "disabled"
  /\ IF stream.method = "poll"
     THEN /\ \E place \in Places(sets) :
               stamp' = [s \in Set |->
                           IF s \in sets THEN place[s] ELSE stamp[s]]
          /\ emitter' = [emitter EXCEPT ![e] = [Idle EXCEPT !.pc = "status",
                                                            !.todo = sets]]
          /\ fate' = Settled(sets, "emitting")
     ELSE /\ fate' = Settled(sets, "gone")
          /\ UNCHANGED <<stamp, emitter>>
  /\ UNCHANGED <<stream, queue, poll, held, got, pause, history>>

(* The next SET of the transaction, or its commit.                         *)
Onward(e, rows) ==
  emitter' = [emitter EXCEPT ![e] =
    [pc |-> IF emitter[e].todo = {} THEN "commit" ELSE "status",
     todo |-> emitter[e].todo, set |-> None, rows |-> rows]]

(* enqueue reads the status: a disabled stream keeps nothing, a paused one *)
(* is counted first, and one that is gone is left to the foreign key.      *)
Status(e, s) ==
  /\ emitter[e].pc = "status"
  /\ s \in emitter[e].todo
  /\ LET rest == emitter[e].todo \ {s} IN
     IF stream.status = "disabled"
     THEN /\ emitter' = [emitter EXCEPT ![e].todo = rest,
                            ![e].pc = IF rest = {} THEN "commit" ELSE "status"]
          /\ fate' = [fate EXCEPT ![s] = "gone"]
     ELSE /\ emitter' = [emitter EXCEPT ![e].todo = rest, ![e].set = s,
                            ![e].pc = IF Holds THEN "count" ELSE "insert"]
          /\ UNCHANGED fate
  /\ UNCHANGED <<stream, queue, stamp, poll, held, got, pause, history>>

(* Mutant: a paused stream takes whatever is emitted.                      *)
RoomAlways(e) == TRUE

(* A paused stream takes a SET while it holds fewer than the limit, as far *)
(* as the transaction can see.                                             *)
Room(e) == Cardinality(queue \union emitter[e].rows) < MaxHeld

(* enqueue counts the rows of a paused stream, and drops the SET at the    *)
(* limit.  What the other open transactions have let in is not counted.    *)
Count(e) ==
  /\ emitter[e].pc = "count"
  /\ IF Room(e)
     THEN /\ emitter' = [emitter EXCEPT ![e].pc = "insert"]
          /\ unseen' = IF Cardinality(EnteringBeside(e)) > unseen
                       THEN Cardinality(EnteringBeside(e)) ELSE unseen
          /\ UNCHANGED fate
     ELSE /\ Onward(e, emitter[e].rows)
          /\ fate' = [fate EXCEPT ![emitter[e].set] = "gone"]
          /\ UNCHANGED unseen
  /\ UNCHANGED <<stream, queue, stamp, poll, held, got, backlog, history>>

(* The SETs a transaction still answers for.                               *)
Mine(e) == emitter[e].todo \union emitter[e].rows
             \union ({emitter[e].set} \ {None})

(* A statement fails, the insert is refused or the process dies: the       *)
(* transaction rolls back, with the rows it inserted.                      *)
Abort(e) ==
  /\ emitter[e].pc # "idle"
  /\ fate' = Settled(Mine(e), "gone")
  /\ emitter' = [emitter EXCEPT ![e] = Idle]
  /\ UNCHANGED <<stream, queue, stamp, poll, held, got, pause, history>>

(* The foreign key refuses the row of a stream that is gone.  The row is   *)
(* the transaction's own until it commits.                                 *)
Insert(e) ==
  /\ emitter[e].pc = "insert"
  /\ Exists
  /\ Onward(e, emitter[e].rows \union {emitter[e].set})
  /\ UNCHANGED <<stream, queue, fate, stamp, poll, held, got, pause, history>>

Commit(e) ==
  /\ emitter[e].pc = "commit"
  /\ queue' = queue \union emitter[e].rows
  /\ fate' = Settled(emitter[e].rows, "queued")
  /\ emitter' = [emitter EXCEPT ![e] = Idle]
  /\ UNCHANGED <<stream, stamp, poll, held, got, pause, history>>

-----------------------------------------------------------------------------
(* The polling endpoint, one request at a time: `answer`.                  *)

(* The receiver reports what it holds, in a request that deletes nothing   *)
(* if that is nothing.  A stream that is gone or pushed answers 404.       *)
Send(p) ==
  /\ poll[p].pc = "idle"
  /\ Exists
  /\ stream.method = "poll"
  /\ poll' = [poll EXCEPT ![p] =
                [pc |-> IF held = {} THEN "deliver" ELSE "ack",
                 ack |-> held \ Bad, errs |-> held \intersect Bad, batch |-> {}]]
  /\ UNCHANGED <<stream, queue, stamp, fate, emitter, held, got, pause, history>>

(* Mutant: the refused SETs go with the acknowledged ones.                 *)
AcknowledgeAll(p) ==
  /\ poll[p].pc = "ack"
  /\ queue' = queue \ (poll[p].ack \union poll[p].errs)
  /\ retired' = retired \union (queue \intersect poll[p].errs)
  /\ poll' = [poll EXCEPT ![p].pc =
                IF poll[p].errs = {} THEN "deliver" ELSE "record"]
  /\ UNCHANGED <<stream, stamp, fate, emitter, held, got, trail,
                 pause, lost>>

Acknowledge(p) ==
  /\ poll[p].pc = "ack"
  /\ queue' = queue \ poll[p].ack
  /\ poll' = [poll EXCEPT ![p].pc =
                IF poll[p].errs = {} THEN "deliver" ELSE "record"]
  /\ UNCHANGED <<stream, stamp, fate, emitter, held, got, pause, history>>

(* reject: an audit entry for each report first.  One that cannot be       *)
(* written is logged, and the refusal goes on.                             *)
RecordRejections(p) ==
  /\ poll[p].pc = "record"
  /\ trail' = trail \union poll[p].errs
  /\ poll' = [poll EXCEPT ![p].pc = "reject"]
  /\ UNCHANGED <<stream, queue, stamp, fate, emitter, held, got, retired,
                 pause, lost>>

(* Mutant: a refusal is recorded and removes nothing.                      *)
RejectedKept(p) == queue
Rejected(p) == queue \ poll[p].errs

Reject(p) ==
  /\ poll[p].pc = "reject"
  /\ queue' = Rejected(p)
  /\ retired' = retired \union (queue \intersect poll[p].errs)
  /\ poll' = [poll EXCEPT ![p].pc = "deliver"]
  /\ UNCHANGED <<stream, stamp, fate, emitter, held, got, trail,
                 pause, lost>>

(* The oldest SETs, by the instant they were queued at.                    *)
Oldest(n) ==
  {s \in queue : Cardinality({t \in queue : stamp[t] < stamp[s]}) < n}

Taken == IF Delivers THEN Oldest(Batch) ELSE {}

(* Mutant: a SET leaves the queue as it is handed over.                    *)
LeftUndelivered(taken) == queue \ taken

(* deliver counts the hand-over and leaves the rows where they are.        *)
Left(taken) == queue

(* collect: an empty batch is waited on, once, unless the request asked    *)
(* for returnImmediately.                                                  *)
Deliver(p) ==
  /\ poll[p].pc \in {"deliver", "again"}
  /\ \E pc \in IF Taken = {} /\ poll[p].pc = "deliver"
              THEN {"wait", "reply"} ELSE {"reply"} :
       poll' = [poll EXCEPT ![p].pc = pc, ![p].batch = Taken]
  /\ queue' = Left(Taken)
  /\ UNCHANGED <<stream, stamp, fate, emitter, held, got, pause, history>>

(* A look at the queue, once a second.                                     *)
HasPending(p) ==
  /\ poll[p].pc = "wait"
  /\ Delivers
  /\ queue # {}
  /\ poll' = [poll EXCEPT ![p].pc = "again"]
  /\ UNCHANGED <<stream, queue, stamp, fate, emitter, held, got, pause, history>>

Timeout(p) ==
  /\ poll[p].pc = "wait"
  /\ poll' = [poll EXCEPT ![p].pc = "reply"]
  /\ UNCHANGED <<stream, queue, stamp, fate, emitter, held, got, pause, history>>

(* The response arrives: what the request reported needs no second report. *)
Receive(p) ==
  /\ poll[p].pc = "reply"
  /\ held' = (held \ (poll[p].ack \union poll[p].errs)) \union poll[p].batch
  /\ got' = got \union poll[p].batch
  /\ poll' = [poll EXCEPT ![p] = IdlePoll]
  /\ UNCHANGED <<stream, queue, stamp, fate, emitter, pause, history>>

(* The request, the process answering it or the response is lost.          *)
Lose(p) ==
  /\ poll[p].pc # "idle"
  /\ lost < MaxLost
  /\ lost' = lost + 1
  /\ poll' = [poll EXCEPT ![p] = IdlePoll]
  /\ UNCHANGED <<stream, queue, stamp, fate, emitter, held, got, retired,
                 trail, pause>>

-----------------------------------------------------------------------------

EmitterStep(e) == \/ \E s \in Set : Status(e, s)
                  \/ Count(e) \/ Insert(e) \/ Commit(e)

PollStep(p) ==
  \/ Acknowledge(p)
  \/ RecordRejections(p)
  \/ Reject(p)
  \/ Deliver(p)
  \/ HasPending(p)
  \/ Timeout(p)
  \/ Receive(p)

Next ==
  \/ \E status \in Statuses : SetStatus(status)
  \/ Switch
  \/ Delete
  \/ \E s \in Set : Expire(s)
  \/ \E e \in Emitter, subscription \in BOOLEAN :
       \E sets \in SUBSET Set : sets # {} /\ Emit(e, sets, subscription)
  \/ \E e \in Emitter : EmitterStep(e) \/ Abort(e)
  \/ \E p \in Poll :
       \/ Send(p)
       \/ PollStep(p)
       \/ Lose(p)

Spec == Init /\ [][Next]_vars

(* A handler that is running goes on, and the receiver goes on polling:    *)
(* with no answer outstanding it sends another poll.                       *)
FairSpec ==
  /\ Spec
  /\ \A e \in Emitter : WF_vars(EmitterStep(e))
  /\ \A p \in Poll : /\ WF_vars(PollStep(p))
                     /\ WF_vars(Send(p))

-----------------------------------------------------------------------------

(* The stream, its queue, the handlers and the receiver have their types. *)
TypeOK ==
  /\ stream \in Stream
  /\ queue \subseteq Set
  /\ stamp \in [Set -> Nat]
  /\ fate \in [Set -> Fates]
  /\ emitter \in [Emitter -> EmitterState]
  /\ poll \in [Poll -> PollState]
  /\ held \subseteq Set /\ got \subseteq Set
  /\ retired \subseteq Set /\ trail \subseteq Set
  /\ backlog \in Nat /\ unseen \in Nat
  /\ lost \in 0..MaxLost

(* A SET that was queued waits in the queue until the receiver has it: no  *)
(* crash, lost response, pause, switch of method or concurrent poll makes  *)
(* it disappear from a stream that still exists (ssf_poll.rs, deliver and  *)
(* acknowledge).  Retention's month is the exception.                      *)
NothingLost ==
  Exists => \A s \in Set : fate[s] = "queued" => s \in queue \/ s \in got

(* A deleted stream has nothing left to deliver, whatever its emitters     *)
(* were about to queue (delete's cascade and enqueue's foreign key).       *)
DeletedHoldsNothing == ~Exists => queue = {}

(* A SET retired because the receiver refused it had its audit entry       *)
(* written, or at least tried, before the row went, by whichever of the    *)
(* concurrent polls and wherever one of them died (http/ssf_poll.rs,       *)
(* reject).                                                                *)
RefusalOnTrail == retired \subseteq trail

(* A paused stream holds no more than what was queued or let in when it    *)
(* was paused, or than the limit and the most that other open transactions *)
(* had let in, unseen, when a count passed (ssf_poll.rs, enqueue, without  *)
(* a lock; ssf_receiver.rs, several SETs before one commit).               *)
HeldBounded ==
  Holds => \/ Cardinality(queue) <= backlog
           \/ Cardinality(queue) <= MaxHeld + unseen

(* On a stream that stays enabled and polled, no SET stays queued: one the *)
(* receiver cannot process does not hold up those behind it, and a long    *)
(* poll, a lost response or a batch of one delays without starving.        *)
QueueDrains ==
  \A s \in Set :
    <>[](stream = [status |-> "enabled", method |-> "poll"])
      => []<>(s \notin queue)
=============================================================================
