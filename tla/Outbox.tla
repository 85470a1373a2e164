------------------------------- MODULE Outbox -------------------------------
(***************************************************************************)
(* The transactional outbox: the `outbox` and `outbox_attempts` tables     *)
(* (crates/store-pg/src/outbox.rs), the delivery worker that claims rows,  *)
(* hands them to a deliverer and acks them (crates/server/src/outbox), the *)
(* operator's dead-letter mutations, the retention sweep and the           *)
(* abandonment of a deleted SSF stream's rows.                             *)
(*                                                                         *)
(* Clocks are abstracted to one flag per row, `ready`: the backoff of a    *)
(* failed row has passed, or the lease of a claimed row has lapsed.  The   *)
(* flag is raised by Elapse at any moment, so every relation between the   *)
(* lease, the backoff and the length of a delivery is explored.            *)
(***************************************************************************)
EXTENDS Integers, FiniteSets

CONSTANTS
  Ids,           \* the values of the outbox_id sequence that are explored
  Worker,        \* the replicas' delivery workers
  Shapes,        \* the <<kind, ordering key>> pairs producers write
  NoKey,         \* the null ordering key
  MaxAttempts,   \* [outbox] max_attempts, stamped on a row when written
  Batch,         \* the most rows one claim takes
  MaxRequeues    \* bound: how often the operator requeues, over the run

Families == {"notification", "ssf", "logout", "unregistered"}

ASSUME IdsAssumption == Ids \subseteq Nat
ASSUME ShapesAssumption == \A s \in Shapes : s[1] \in Families
ASSUME LimitsAssumption == /\ MaxAttempts \in Nat \ {0}
                           /\ Batch \in Nat \ {0}
                           /\ MaxRequeues \in Nat

VARIABLES
  row,       \* the outbox table, by id
  trail,     \* the outbox_attempts table
  tasks,     \* the delivery tasks the workers have spawned and not joined
  received,  \* the ids a receiver has been handed at least once
  requeued,  \* history: ids the operator put back on the schedule
  late,      \* history: ids committed after a later row of their key
  requeues   \* how many requeues there were, for the bound

vars == <<row, trail, tasks, received, requeued, late, requeues>>

-----------------------------------------------------------------------------

Owing == {"pending", "failed", "claimed"}
Terminal == {"delivered", "abandoned", "expired"}
Status == {"absent", "open", "gone"} \union Owing \union Terminal
Verdicts == {"delivered", "journalled", "expired", "retry", "abandoned"}

Keys == {s[2] : s \in Shapes}

Row == [status : Status, family : Families, key : Keys \union {NoKey},
        attempts : Nat, max : Nat, ready : BOOLEAN,
        sent : BOOLEAN,      \* delivered_at is not null
        cleared : BOOLEAN]   \* payload and destination were wiped

(* A spawned `finish` task.  `verdict` is "none" until the deliverer has   *)
(* returned.  `max` is the budget in the claim's snapshot of the row.      *)
Task == [worker : Worker, id : Ids, attempt : Nat, max : Nat,
         verdict : Verdicts \union {"none"}]

Attempt == [id : Ids, attempt : Nat, verdict : Verdicts]

NewRow == [status |-> "absent", family |-> "unregistered", key |-> NoKey,
           attempts |-> 0, max |-> MaxAttempts, ready |-> FALSE,
           sent |-> FALSE, cleared |-> FALSE]

Owed(i) == row[i].status \in Owing
Visible(i) == row[i].status \notin {"absent", "open"}
SameKey(i, j) == row[i].key = row[j].key /\ row[i].key # NoKey
HasTasks(w) == \E t \in tasks : t.worker = w

Init ==
  /\ row = [i \in Ids |-> NewRow]
  /\ trail = {}
  /\ tasks = {}
  /\ received = {}
  /\ requeued = {}
  /\ late = {}
  /\ requeues = 0

-----------------------------------------------------------------------------
(* Producers.                                                              *)

(* enqueue inside the caller's transaction: the id is taken from the       *)
(* sequence at once, the row is visible to nobody before the commit.       *)
Enqueue(i, s) ==
  /\ row[i].status = "absent"
  /\ \A j \in Ids : j < i => row[j].status # "absent"
  /\ row' = [row EXCEPT ![i] = [NewRow EXCEPT !.status = "open",
                                              !.family = s[1],
                                              !.key = s[2]]]
  /\ UNCHANGED <<trail, tasks, received, requeued, late, requeues>>

(* A commit makes the rows S of one transaction visible together, due at   *)
(* once.  `late` remembers the ones a later row of their key preceded.     *)
Commit(S) ==
  /\ \A i \in S : row[i].status = "open"
  /\ row' = [i \in Ids |->
               IF i \in S THEN [row[i] EXCEPT !.status = "pending", !.ready = TRUE]
                          ELSE row[i]]
  /\ late' = late \union
               {i \in S : \E j \in Ids : i < j /\ SameKey(i, j) /\ Visible(j)}
  /\ UNCHANGED <<trail, tasks, received, requeued, requeues>>

(* A rollback takes its rows with it; the sequence does not give ids back. *)
Rollback(i) ==
  /\ row[i].status = "open"
  /\ row' = [row EXCEPT ![i].status = "gone"]
  /\ UNCHANGED <<trail, tasks, received, requeued, late, requeues>>

-----------------------------------------------------------------------------
(* The worker.                                                             *)

(* available_at is reached, or claim_expires_at is.                        *)
Elapse(i) ==
  /\ row[i].status \in {"failed", "claimed"}
  /\ ~row[i].ready
  /\ row' = [row EXCEPT ![i].ready = TRUE]
  /\ UNCHANGED <<trail, tasks, received, requeued, late, requeues>>

(* Mutant: the ordering check forgets rows in another worker's hands.      *)
DueIgnoringClaims(i) ==
  /\ Owed(i)
  /\ row[i].ready
  /\ row[i].attempts < row[i].max
  /\ ~\E e \in Ids : e < i /\ SameKey(e, i) /\ row[e].status \in {"pending", "failed"}

(* Mutant: claimed rows are left out of the scan, lapsed or not.           *)
DueNeverReclaimed(i) ==
  /\ row[i].status \in {"pending", "failed"}
  /\ row[i].ready
  /\ row[i].attempts < row[i].max
  /\ ~\E e \in Ids : e < i /\ SameKey(e, i) /\ Owed(e)

(* The predicate of the claim's CTE.                                       *)
Due(i) ==
  /\ Owed(i)
  /\ row[i].ready
  /\ row[i].attempts < row[i].max
  /\ ~\E e \in Ids : e < i /\ SameKey(e, i) /\ Owed(e)

(* Mutant: reclaiming a lapsed claim keeps the attempt counter.            *)
ClaimKeepingCounter(w, S) ==
  LET next(i) == row[i].attempts + (IF row[i].status = "claimed" THEN 0 ELSE 1)
  IN /\ ~HasTasks(w)
     /\ S # {} /\ Cardinality(S) <= Batch
     /\ \A i \in S : Due(i)
     /\ row' = [i \in Ids |->
                  IF i \in S THEN [row[i] EXCEPT !.status = "claimed",
                                                 !.ready = FALSE,
                                                 !.attempts = next(i)]
                             ELSE row[i]]
     /\ tasks' = tasks \union
          {[worker |-> w, id |-> i, attempt |-> next(i),
            max |-> row[i].max, verdict |-> "none"] : i \in S}
     /\ UNCHANGED <<trail, received, requeued, late, requeues>>

(* One pass of deliver_once: the claim statement takes at most Batch due   *)
(* rows (skip locked may leave any of them out) and one task is spawned    *)
(* per row.  A worker claims again only when its last batch was joined.    *)
Claim(w, S) ==
  /\ ~HasTasks(w)
  /\ S # {} /\ Cardinality(S) <= Batch
  /\ \A i \in S : Due(i)
  /\ row' = [i \in Ids |->
               IF i \in S THEN [row[i] EXCEPT !.status = "claimed",
                                              !.ready = FALSE,
                                              !.attempts = @ + 1]
                          ELSE row[i]]
  /\ tasks' = tasks \union
       {[worker |-> w, id |-> i, attempt |-> row[i].attempts + 1,
         max |-> row[i].max, verdict |-> "none"] : i \in S}
  /\ UNCHANGED <<trail, received, requeued, late, requeues>>

(* What a deliverer of a family may report.  The mail deliverer sends or   *)
(* finds the link expired; the journal stands in for it where no mail is   *)
(* configured.                                                             *)
Reports(f) ==
  CASE f = "unregistered" -> {"permanent"}
    [] f = "notification" -> {"sent", "journalled", "expired", "transient", "permanent"}
    [] OTHER              -> {"sent", "transient", "permanent"}

(* Outcome::failed: whether a failure is the last one is the event's say.  *)
Failed(t) == IF t.attempt >= t.max THEN "abandoned" ELSE "retry"

(* Mutant: the last attempt counts as delivered, whatever the answer was.  *)
VerdictHopeful(t, r) ==
  CASE r \in {"sent", "transient"} ->
         IF r = "sent" \/ t.attempt >= t.max THEN "delivered" ELSE "retry"
    [] r = "journalled" -> "journalled"
    [] r = "expired"    -> "expired"
    [] r = "permanent"  -> "abandoned"

VerdictOf(t, r) ==
  CASE r = "sent"       -> "delivered"
    [] r = "journalled" -> "journalled"
    [] r = "expired"    -> "expired"
    [] r = "transient"  -> Failed(t)
    [] r = "permanent"  -> "abandoned"

(* The deliverer returns.  A transient failure may be an answer that was   *)
(* lost after the receiver took the message.                               *)
Deliver(t) ==
  /\ t \in tasks /\ t.verdict = "none"
  /\ \E r \in Reports(row[t.id].family) :
       /\ tasks' = (tasks \ {t}) \union {[t EXCEPT !.verdict = VerdictOf(t, r)]}
       /\ received' \in
            IF r = "sent" THEN {received \union {t.id}}
            ELSE IF r = "transient" THEN {received, received \union {t.id}}
            ELSE {received}
  /\ UNCHANGED <<row, trail, requeued, late, requeues>>

(* Mutant: an ack that only looks at the status.                           *)
CurrentByStatus(t) == row[t.id].status = "claimed"

(* The fence of ack: the row is still claimed, and by this very attempt.   *)
Current(t) == row[t.id].status = "claimed" /\ row[t.id].attempts = t.attempt

Settle(r, v) ==
  CASE v \in {"delivered", "journalled"} ->
         [r EXCEPT !.status = "delivered", !.sent = (v = "delivered"),
                   !.cleared = @ \/ (r.family = "notification" /\ v = "delivered")]
    [] v = "retry" -> [r EXCEPT !.status = "failed", !.ready = FALSE]
    [] v = "abandoned" -> [r EXCEPT !.status = "abandoned"]
    [] v = "expired" ->
         [r EXCEPT !.status = "expired",
                   !.cleared = @ \/ r.family = "notification"]

(* insert into outbox_attempts ... on conflict do nothing                  *)
Recorded(t) ==
  IF \E a \in trail : a.id = t.id /\ a.attempt = t.attempt
    THEN trail
    ELSE trail \union {[id |-> t.id, attempt |-> t.attempt, verdict |-> t.verdict]}

Ack(t) ==
  /\ t \in tasks /\ t.verdict # "none"
  /\ tasks' = tasks \ {t}
  /\ IF Current(t)
       THEN /\ trail' = Recorded(t)
            /\ row' = [row EXCEPT ![t.id] = Settle(@, t.verdict)]
       ELSE UNCHANGED <<row, trail>>
  /\ UNCHANGED <<received, requeued, late, requeues>>

(* A deliverer panics, or the ack's transaction fails: the task is gone    *)
(* and the row stays claimed.                                              *)
TaskLost(t) ==
  /\ t \in tasks
  /\ tasks' = tasks \ {t}
  /\ UNCHANGED <<row, trail, received, requeued, late, requeues>>

(* The process dies with everything it had in flight, and is restarted.    *)
Crash(w) ==
  /\ HasTasks(w)
  /\ tasks' = {t \in tasks : t.worker # w}
  /\ UNCHANGED <<row, trail, received, requeued, late, requeues>>

-----------------------------------------------------------------------------
(* The operator, retention, and the SSF management endpoint.               *)

(* Mutant: the requeue starts the counter again.                           *)
RequeueFromZero(i) ==
  /\ row[i].status = "abandoned"
  /\ requeues < MaxRequeues
  /\ row' = [row EXCEPT ![i].status = "pending", ![i].ready = TRUE,
                        ![i].attempts = 0, ![i].max = MaxAttempts]
  /\ requeued' = requeued \union {i}
  /\ requeues' = requeues + 1
  /\ UNCHANGED <<trail, tasks, received, late>>

(* The counter is kept and the budget raised.                              *)
Requeue(i) ==
  /\ row[i].status = "abandoned"
  /\ requeues < MaxRequeues
  /\ row' = [row EXCEPT ![i].status = "pending", ![i].ready = TRUE,
                        ![i].max = row[i].attempts + MaxAttempts]
  /\ requeued' = requeued \union {i}
  /\ requeues' = requeues + 1
  /\ UNCHANGED <<trail, tasks, received, late>>

(* drop_letter and the retention sweep: the trail cascades with the row.   *)
Delete(i) ==
  /\ row' = [row EXCEPT ![i].status = "gone"]
  /\ trail' = {a \in trail : a.id # i}
  /\ UNCHANGED <<tasks, received, requeued, late, requeues>>

DropLetter(i) == row[i].status = "abandoned" /\ Delete(i)

Sweep(i) == row[i].status \in {"delivered", "abandoned"} /\ Delete(i)

(* PgSsfStreams::delete abandons what is queued for the stream, claimed    *)
(* rows included.  One stream per ordering key.                            *)
DeleteStream(k) ==
  LET queued == {i \in Ids : row[i].family = "ssf" /\ row[i].key = k /\ Owed(i)}
  IN /\ queued # {}
     /\ row' = [i \in Ids |-> IF i \in queued
                                THEN [row[i] EXCEPT !.status = "abandoned"]
                                ELSE row[i]]
     /\ UNCHANGED <<trail, tasks, received, requeued, late, requeues>>

-----------------------------------------------------------------------------

Produce == \/ \E i \in Ids, s \in Shapes : Enqueue(i, s)
           \/ \E S \in SUBSET Ids : S # {} /\ Commit(S)
           \/ \E i \in Ids : Rollback(i)

Work == \/ \E i \in Ids : Elapse(i)
        \/ \E w \in Worker, S \in SUBSET Ids : Claim(w, S)
        \/ \E t \in tasks : Deliver(t) \/ Ack(t) \/ TaskLost(t)
        \/ \E w \in Worker : Crash(w)

Operate == \/ \E i \in Ids : Requeue(i) \/ DropLetter(i) \/ Sweep(i)
           \/ \E k \in Keys : DeleteStream(k)

Next == Produce \/ Work \/ Operate

Spec == Init /\ [][Next]_vars

(* What the run loop, the outbound timeout and the clock give: an idle     *)
(* worker polls and the claim takes the oldest due rows first, a delivery  *)
(* returns, a returned delivery is acked, and time passes.  Nothing is     *)
(* assumed of producers, operators, crashes or receivers.                  *)
Fairness ==
  /\ \A i \in Ids : WF_vars(Elapse(i))
  /\ \A i \in Ids : WF_vars(\E w \in Worker, S \in SUBSET Ids : i \in S /\ Claim(w, S))
  /\ \A w \in Worker, i \in Ids :
       /\ WF_vars(\E t \in tasks : t.worker = w /\ t.id = i /\ Deliver(t))
       /\ WF_vars(\E t \in tasks : t.worker = w /\ t.id = i /\ Ack(t))

FairSpec == Spec /\ Fairness

-----------------------------------------------------------------------------
(* Properties.                                                             *)

(* Every table row, task and trail entry has its type.                     *)
TypeOK ==
  /\ row \in [Ids -> Row]
  /\ trail \subseteq Attempt
  /\ tasks \subseteq Task
  /\ received \subseteq Ids
  /\ requeued \subseteq Ids
  /\ late \subseteq Ids
  /\ requeues \in 0..MaxRequeues

(* The lease and the fence of claim/ack: an attempt number belongs to one  *)
(* task, no task runs ahead of its row's counter, a claim's snapshot of    *)
(* the budget is never above the row's, and no row is attempted past its   *)
(* budget, whichever workers crash, stall or reclaim.                      *)
OneTaskPerAttempt ==
  /\ \A t, u \in tasks : t.id = u.id /\ t.attempt = u.attempt => t = u
  /\ \A t \in tasks : t.attempt <= row[t.id].attempts /\ t.max <= row[t.id].max
  /\ \A i \in Ids : row[i].attempts <= row[i].max

(* "The claim refuses a row while an earlier row with the same key is      *)
(* still owed": while a task holds a keyed row, every earlier row of the   *)
(* key is settled - unless the operator requeued it, or its transaction    *)
(* committed after the later row was already visible.                      *)
KeyOrderKept ==
  \A t \in tasks, e \in Ids :
    e < t.id /\ SameKey(e, t.id) /\ Owed(e) => e \in requeued \union late

(* "A row can never be marked delivered without the attempt that delivered *)
(* it being recorded, nor the reverse": a settled row is explained by the  *)
(* trail entry of its last attempt, delivered_at included, and the entry   *)
(* of a row's current claim is still to be written, so that `on conflict   *)
(* do nothing` never drops one - also after a requeue.                     *)
TrailExplainsRow ==
  LET Last(i) == {a.verdict : a \in {b \in trail : b.id = i /\ b.attempt = row[i].attempts}}
  IN \A i \in Ids :
       /\ row[i].status = "delivered" =>
            Last(i) = {IF row[i].sent THEN "delivered" ELSE "journalled"}
       /\ row[i].status = "expired" => Last(i) = {"expired"}
       /\ row[i].status = "failed" => Last(i) = {"retry"}
       /\ row[i].status = "claimed" => Last(i) = {}
       /\ row[i].status \notin {"delivered", "gone"} => ~row[i].sent

(* ack clears a notification's payload "in the same transaction that makes *)
(* the row terminal": a row that can still be delivered, or requeued, has  *)
(* the payload it needs.                                                   *)
PayloadKept ==
  \A i \in Ids : row[i].cleared => row[i].status \in {"delivered", "expired", "gone"}

(* "An older attempt must never terminate a newer claim": a delivered or   *)
(* expired row is never revived, an abandoned one only by a requeue, and a *)
(* claim only ends by its own attempt or by the stream's deletion.         *)
SettledStays ==
  [][\A i \in Ids :
       /\ row[i].status \in {"delivered", "expired"} =>
            row'[i].status \in {row[i].status, "gone"}
       /\ row[i].status = "abandoned" /\ row'[i].status \in Owing =>
            requeues' = requeues + 1
       /\ row[i].status = "claimed" /\ row'[i].status \in {"failed", "delivered", "expired"} =>
            \E t \in tasks : /\ t.id = i /\ t.attempt = row[i].attempts
                             /\ t \notin tasks']_vars

(* A row as its producer and its receiver see it: an uncommitted row does  *)
(* not exist, and pending, claimed and failed are one thing.               *)
Letter(i) ==
  [phase |-> CASE row[i].status \in {"absent", "open"} -> "absent"
               [] row[i].status \in Owing -> "owed"
               [] row[i].status = "delivered" ->
                    IF row[i].sent THEN "delivered" ELSE "journalled"
               [] row[i].status = "expired" -> "expired"
               [] row[i].status = "abandoned" -> "dead"
               [] row[i].status = "gone" -> "gone",
   key |-> IF Visible(i) THEN row[i].key ELSE NoKey]

Promise == INSTANCE Delivery WITH letter  <- [i \in Ids |-> Letter(i)],
                                  handed  <- received,
                                  excused <- requeued \union late

(* Claims, leases, attempts, stale acks, crashes and reclaims implement    *)
(* the delivery queue of module Delivery: a row is marked delivered only   *)
(* when the receiver has it, is owed from its commit to its settlement,    *)
(* and is never handed over before an earlier row of its key is settled.   *)
KeepsPromise == Promise!Spec

(* A claimed row nobody is working on and no claim will ever take again.   *)
Wedged(i) ==
  /\ row[i].status = "claimed"
  /\ row[i].attempts >= row[i].max
  /\ \A t \in tasks : t.id = i => t.attempt < row[i].attempts

(* Nothing is silently stuck: a row that is owed is eventually delivered,  *)
(* expired or dead-lettered, unless its final attempt died with its worker *)
(* (or that of an earlier row of its key did).                             *)
EventuallySettled ==
  \A i \in Ids :
    Owed(i) ~> (~Owed(i) \/ \E e \in Ids : /\ Wedged(e)
                                           /\ e = i \/ (e < i /\ SameKey(e, i)))

(* "A worker killed between the two leaves a claimed row whose             *)
(* claim_expires_at lapses; the next worker reclaims it" (outbox.rs): a    *)
(* claimed row is being worked on, or has an attempt left to be reclaimed  *)
(* with.                                                                   *)
LapsedClaimReclaimable == \A i \in Ids : ~Wedged(i)
=============================================================================
