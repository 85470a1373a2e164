---------------------------- MODULE OutboxProofs ----------------------------
(* Theorems about the transactional outbox, for any set of ids, workers,   *)
(* row shapes and any limits.                                              *)
EXTENDS Outbox, TLAPS

USE IdsAssumption, ShapesAssumption, LimitsAssumption

(* The facts a settled row keeps: Settle moves the status and touches the  *)
(* flags, never the identity, the counter or the budget of a row.          *)
LEMMA SettleType ==
  ASSUME NEW r \in Row, NEW v \in Verdicts
  PROVE  /\ Settle(r, v) \in Row
         /\ Settle(r, v).key = r.key
         /\ Settle(r, v).family = r.family
         /\ Settle(r, v).attempts = r.attempts
         /\ Settle(r, v).max = r.max
         /\ Settle(r, v).status \in {"failed"} \union Terminal
  BY DEF Settle, Row, Verdicts, Status, Owing, Terminal

LEMMA VerdictType ==
  ASSUME NEW t \in Task, NEW f \in Families, NEW r \in Reports(f)
  PROVE  VerdictOf(t, r) \in Verdicts
  BY DEF VerdictOf, Failed, Reports, Verdicts, Families

LEMMA NewRowType == NewRow \in Row
  BY DEF NewRow, Row, Status, Families

(* Type correctness is inductive.                                          *)
LEMMA TypeStep == TypeOK /\ [Next]_vars => TypeOK'
<1> SUFFICES ASSUME TypeOK, [Next]_vars PROVE TypeOK'
  OBVIOUS
<1> USE DEF TypeOK
<1>1. ASSUME NEW i \in Ids, NEW s \in Shapes, Enqueue(i, s) PROVE TypeOK'
  <2>1. [NewRow EXCEPT !.status = "open", !.family = s[1], !.key = s[2]] \in Row
    BY NewRowType DEF Row, Keys, Status
  <2> QED BY <1>1, <2>1 DEF Enqueue
<1>2. ASSUME NEW S \in SUBSET Ids, Commit(S) PROVE TypeOK'
  <2>1. \A i \in Ids : [row[i] EXCEPT !.status = "pending", !.ready = TRUE] \in Row
    BY ZenonT(60) DEF Row, Status, Owing
  <2> QED BY <1>2, <2>1 DEF Commit
<1>3. ASSUME NEW i \in Ids, Rollback(i) PROVE TypeOK'
  <2>1. [row[i] EXCEPT !.status = "gone"] \in Row
    BY DEF Row, Status
  <2> QED BY <1>3, <2>1 DEF Rollback
<1>4. ASSUME NEW i \in Ids, Elapse(i) PROVE TypeOK'
  <2>1. [row[i] EXCEPT !.ready = TRUE] \in Row
    BY ZenonT(60) DEF Row
  <2> QED BY <1>4, <2>1 DEF Elapse
<1>5. ASSUME NEW w \in Worker, NEW S \in SUBSET Ids, Claim(w, S) PROVE TypeOK'
  <2>1. \A i \in Ids : [row[i] EXCEPT !.status = "claimed", !.ready = FALSE,
                                      !.attempts = @ + 1] \in Row
    <3> TAKE i \in Ids
    <3>1. row[i] \in Row /\ row[i].attempts + 1 \in Nat
      BY DEF Row
    <3> QED BY <3>1 DEF Row, Status, Owing
  <2>2. row' \in [Ids -> Row]
    BY <1>5, <2>1 DEF Claim
  <2>3. \A i \in S : [worker |-> w, id |-> i, attempt |-> row[i].attempts + 1,
                      max |-> row[i].max, verdict |-> "none"] \in Task
    BY DEF Task, Row
  <2>4. tasks' \subseteq Task
    BY <1>5, <2>3 DEF Claim
  <2> QED BY <1>5, <2>2, <2>4 DEF Claim
<1>6. ASSUME NEW t \in tasks, Deliver(t) PROVE TypeOK'
  <2>1. PICK r \in Reports(row[t.id].family) :
          /\ tasks' = (tasks \ {t}) \union {[t EXCEPT !.verdict = VerdictOf(t, r)]}
          /\ received' \in
               IF r = "sent" THEN {received \union {t.id}}
               ELSE IF r = "transient" THEN {received, received \union {t.id}}
               ELSE {received}
    BY <1>6 DEF Deliver
  <2>2. t \in Task /\ t.id \in Ids /\ row[t.id].family \in Families
    BY DEF Task, Row
  <2>3. VerdictOf(t, r) \in Verdicts
    BY <2>2, VerdictType
  <2>4. [t EXCEPT !.verdict = VerdictOf(t, r)] \in Task
    BY <2>2, <2>3 DEF Task
  <2>5. received' \subseteq Ids
    BY <2>1, <2>2
  <2> QED BY <1>6, <2>1, <2>4, <2>5 DEF Deliver
<1>7. ASSUME NEW t \in tasks, Ack(t) PROVE TypeOK'
  <2>1. t \in Task /\ t.id \in Ids /\ t.verdict \in Verdicts /\ t.attempt \in Nat
    BY <1>7 DEF Ack, Task
  <2>2. row[t.id] \in Row
    BY <2>1
  <2>3. Settle(row[t.id], t.verdict) \in Row
    BY <2>1, <2>2, SettleType
  <2>4. Recorded(t) \subseteq Attempt
    BY <2>1 DEF Recorded, Attempt
  <2> QED BY <1>7, <2>1, <2>3, <2>4 DEF Ack
<1>8. ASSUME NEW t \in tasks, TaskLost(t) PROVE TypeOK'
  BY <1>8 DEF TaskLost
<1>9. ASSUME NEW w \in Worker, Crash(w) PROVE TypeOK'
  BY <1>9 DEF Crash
<1>10. ASSUME NEW i \in Ids, Requeue(i) PROVE TypeOK'
  <2>1. [row[i] EXCEPT !.status = "pending", !.ready = TRUE,
                       !.max = row[i].attempts + MaxAttempts] \in Row
    <3>1. row[i] \in Row /\ row[i].attempts + MaxAttempts \in Nat
      BY DEF Row
    <3> QED BY <3>1 DEF Row, Status, Owing
  <2>2. row' = [row EXCEPT ![i] = [row[i] EXCEPT !.status = "pending", !.ready = TRUE,
                       !.max = row[i].attempts + MaxAttempts]]
    BY <1>10 DEF Requeue, Row
  <2> QED BY <1>10, <2>1, <2>2 DEF Requeue
<1>11. ASSUME NEW i \in Ids, DropLetter(i) \/ Sweep(i) PROVE TypeOK'
  <2>1. [row[i] EXCEPT !.status = "gone"] \in Row
    BY DEF Row, Status
  <2> QED BY <1>11, <2>1 DEF DropLetter, Sweep, Delete
<1>12. ASSUME NEW k \in Keys, DeleteStream(k) PROVE TypeOK'
  <2>1. \A i \in Ids : [row[i] EXCEPT !.status = "abandoned"] \in Row
    BY DEF Row, Status, Terminal
  <2> QED BY <1>12, <2>1 DEF DeleteStream
<1>13. CASE UNCHANGED vars
  BY <1>13 DEF vars
<1> QED
  BY <1>1, <1>2, <1>3, <1>4, <1>5, <1>6, <1>7, <1>8, <1>9, <1>10, <1>11, <1>12, <1>13
     DEF Next, Produce, Work, Operate

(* The tables and tasks of the outbox keep their types under any           *)
(* interleaving of producers, workers, operators and retention.            *)
THEOREM TypeCorrect == Spec => []TypeOK
<1>1. Init => TypeOK
  BY NewRowType DEF Init, TypeOK
<1> QED BY <1>1, TypeStep, PTL DEF Spec

-----------------------------------------------------------------------------
(* A task only exists for a row that was committed.                        *)
TasksVisible == \A t \in tasks : Visible(t.id)

(* A row never has more than a full budget of attempts left.               *)
BudgetSlack == \A i \in Ids : row[i].max <= row[i].attempts + MaxAttempts

Counters == TasksVisible /\ BudgetSlack /\ OneTaskPerAttempt

LEMMA CountersStep == TypeOK /\ Counters /\ [Next]_vars => Counters'
<1> SUFFICES ASSUME TypeOK, Counters, [Next]_vars PROVE Counters'
  OBVIOUS
<1> USE DEF Counters, TasksVisible, BudgetSlack, OneTaskPerAttempt, Visible
<1>t. /\ row \in [Ids -> Row] /\ tasks \subseteq Task
      /\ \A i \in Ids : row[i].attempts \in Nat /\ row[i].max \in Nat
      /\ \A t \in tasks : t.id \in Ids /\ t.attempt \in Nat /\ t.max \in Nat
  BY DEF TypeOK, Row, Task
<1>1. ASSUME NEW i \in Ids, NEW s \in Shapes, Enqueue(i, s) PROVE Counters'
  <2>1. /\ row'[i].attempts = 0 /\ row'[i].max = MaxAttempts
        /\ \A j \in Ids : j # i => row'[j] = row[j]
    BY <1>1, <1>t DEF Enqueue, NewRow
  <2>2. \A t \in tasks : t.id # i
    BY <1>1 DEF Enqueue
  <2> QED BY <1>1, <1>t, <2>1, <2>2 DEF Enqueue
<1>2. ASSUME NEW S \in SUBSET Ids, Commit(S) PROVE Counters'
  <2>1. \A i \in Ids : /\ row'[i].attempts = row[i].attempts /\ row'[i].max = row[i].max
                       /\ Visible(i) => Visible(i)'
    BY ZenonT(60), <1>2, <1>t DEF Commit, Row
  <2> QED BY <1>2, <1>t, <2>1 DEF Commit
<1>3. ASSUME NEW i \in Ids, Rollback(i) PROVE Counters'
  <2>1. \A j \in Ids : /\ row'[j].attempts = row[j].attempts /\ row'[j].max = row[j].max
                       /\ Visible(j) => Visible(j)'
    BY <1>3, <1>t DEF Rollback, Row
  <2> QED BY <1>3, <1>t, <2>1 DEF Rollback
<1>4. ASSUME NEW i \in Ids, Elapse(i) PROVE Counters'
  <2>1. \A j \in Ids : /\ row'[j].attempts = row[j].attempts /\ row'[j].max = row[j].max
                       /\ Visible(j) => Visible(j)'
    BY <1>4, <1>t DEF Elapse, Row
  <2> QED BY <1>4, <1>t, <2>1 DEF Elapse
<1>5. ASSUME NEW w \in Worker, NEW S \in SUBSET Ids, Claim(w, S) PROVE Counters'
  <2> DEFINE new(i) == [worker |-> w, id |-> i, attempt |-> row[i].attempts + 1,
                        max |-> row[i].max, verdict |-> "none"]
  <2>1. \A i \in S : /\ row'[i].attempts = row[i].attempts + 1 /\ row'[i].max = row[i].max
                     /\ row'[i].status = "claimed" /\ row[i].attempts < row[i].max
    BY <1>5, <1>t DEF Claim, Due, Row
  <2>2. \A i \in Ids \ S : row'[i] = row[i]
    BY <1>5, <1>t DEF Claim
  <2>3. tasks' = tasks \union {new(i) : i \in S}
    BY <1>5 DEF Claim
  <2>a. \A i \in S : /\ new(i).id = i /\ new(i).attempt = row[i].attempts + 1
                     /\ new(i).max = row[i].max
    OBVIOUS
  <2>b. \A t \in tasks' : t \in tasks \/ \E i \in S : t = new(i)
    BY <2>3
  <2> HIDE DEF new
  <2>4. \A i \in S, t \in tasks : t.id = i => t.attempt # new(i).attempt
    BY <1>t, <2>a
  <2>5. \A t, u \in tasks' : t.id = u.id /\ t.attempt = u.attempt => t = u
    <3> SUFFICES ASSUME NEW t \in tasks', NEW u \in tasks',
                        t.id = u.id, t.attempt = u.attempt
                 PROVE  t = u
      OBVIOUS
    <3>1. CASE t \in tasks /\ u \in tasks
      BY <3>1
    <3>2. ASSUME NEW i \in S, t = new(i), u \in tasks PROVE FALSE
      BY <3>2, <2>a, <2>4
    <3>3. ASSUME NEW i \in S, u = new(i), t \in tasks PROVE FALSE
      BY <3>3, <2>a, <2>4
    <3>4. ASSUME NEW i \in S, NEW j \in S, t = new(i), u = new(j) PROVE t = u
      BY <3>4, <2>a
    <3> QED BY <3>1, <3>2, <3>3, <3>4, <2>b
  <2>6. \A t \in tasks' : t.attempt <= row'[t.id].attempts /\ t.max <= row'[t.id].max
    <3> SUFFICES ASSUME NEW t \in tasks'
                 PROVE  t.attempt <= row'[t.id].attempts /\ t.max <= row'[t.id].max
      OBVIOUS
    <3>1. CASE t \in tasks
      <4>1. /\ t.id \in Ids /\ t.attempt \in Nat /\ t.max \in Nat
            /\ t.attempt <= row[t.id].attempts /\ t.max <= row[t.id].max
            /\ row[t.id].attempts \in Nat /\ row[t.id].max \in Nat
        BY <3>1, <1>t
      <4>2. CASE t.id \in S
        <5>1. row'[t.id].attempts = row[t.id].attempts + 1 /\ row'[t.id].max = row[t.id].max
          BY <4>2, <2>1
        <5> QED BY <4>1, <5>1
      <4>3. CASE t.id \notin S
        BY <4>1, <4>3, <2>2
      <4> QED BY <4>2, <4>3
    <3>2. ASSUME NEW i \in S, t = new(i)
          PROVE  t.attempt <= row'[t.id].attempts /\ t.max <= row'[t.id].max
      BY <3>2, <1>t, <2>1, <2>a
    <3> QED BY <3>1, <3>2, <2>b
  <2>7. TasksVisible'
    <3> SUFFICES ASSUME NEW t \in tasks' PROVE Visible(t.id)'
      OBVIOUS
    <3>1. CASE t \in tasks
      BY <3>1, <1>t, <2>1, <2>2
    <3>2. ASSUME NEW i \in S, t = new(i) PROVE Visible(t.id)'
      BY <3>2, <2>1, <2>a
    <3> QED BY <3>1, <3>2, <2>b
  <2>8. BudgetSlack' /\ \A i \in Ids : row'[i].attempts <= row'[i].max
    BY <1>t, <2>1, <2>2
  <2> QED BY <2>5, <2>6, <2>7, <2>8
<1>6. ASSUME NEW t \in tasks, Deliver(t) PROVE Counters'
  <2>1. PICK v : tasks' = (tasks \ {t}) \union {[t EXCEPT !.verdict = v]}
    BY <1>6 DEF Deliver
  <2>2. [t EXCEPT !.verdict = v].id = t.id /\ [t EXCEPT !.verdict = v].attempt = t.attempt
        /\ [t EXCEPT !.verdict = v].max = t.max
    BY <1>t DEF Task
  <2>3. row' = row
    BY <1>6 DEF Deliver
  <2>4. \A u \in tasks' : \E x \in tasks : /\ u.id = x.id /\ u.attempt = x.attempt
                                            /\ u.max = x.max /\ (x = t \/ u = x)
                                            /\ (x = t => u = [t EXCEPT !.verdict = v])
    BY <2>1, <2>2
  <2>5. \A x, y \in tasks' : x.id = y.id /\ x.attempt = y.attempt => x = y
    BY <2>4
  <2>6. \A x \in tasks' : /\ x.attempt <= row[x.id].attempts /\ x.max <= row[x.id].max
                          /\ Visible(x.id)
    BY <2>4
  <2> QED BY <1>t, <2>3, <2>5, <2>6
<1>7. ASSUME NEW t \in tasks, Ack(t) PROVE Counters'
  <2>1. t.id \in Ids /\ t.verdict \in Verdicts /\ row[t.id] \in Row
    BY <1>7, <1>t DEF Ack, Task
  <2>2. \A j \in Ids : /\ row'[j].attempts = row[j].attempts /\ row'[j].max = row[j].max
                       /\ Visible(j) => Visible(j)'
    BY <1>7, <1>t, <2>1, SettleType DEF Ack, Terminal
  <2> QED BY <1>7, <1>t, <2>2 DEF Ack
<1>8. ASSUME NEW t \in tasks, TaskLost(t) PROVE Counters'
  BY <1>8, <1>t DEF TaskLost
<1>9. ASSUME NEW w \in Worker, Crash(w) PROVE Counters'
  BY <1>9, <1>t DEF Crash
<1>10. ASSUME NEW i \in Ids, Requeue(i) PROVE Counters'
  <2>1. /\ row'[i].attempts = row[i].attempts
        /\ row'[i].max = row[i].attempts + MaxAttempts
        /\ row'[i].status = "pending"
        /\ \A j \in Ids : j # i => row'[j] = row[j]
    BY <1>10, <1>t DEF Requeue, Row
  <2> QED BY <1>10, <1>t, <2>1 DEF Requeue
<1>11. ASSUME NEW i \in Ids, DropLetter(i) \/ Sweep(i) PROVE Counters'
  <2>1. \A j \in Ids : /\ row'[j].attempts = row[j].attempts /\ row'[j].max = row[j].max
                       /\ Visible(j) => Visible(j)'
    BY <1>11, <1>t DEF DropLetter, Sweep, Delete, Row
  <2> QED BY <1>11, <1>t, <2>1 DEF DropLetter, Sweep, Delete
<1>12. ASSUME NEW k \in Keys, DeleteStream(k) PROVE Counters'
  <2>1. \A j \in Ids : /\ row'[j].attempts = row[j].attempts /\ row'[j].max = row[j].max
                       /\ Visible(j) => Visible(j)'
    BY <1>12, <1>t DEF DeleteStream, Row
  <2> QED BY <1>12, <1>t, <2>1 DEF DeleteStream
<1>13. CASE UNCHANGED vars
  BY <1>13 DEF vars
<1> QED
  BY <1>1, <1>2, <1>3, <1>4, <1>5, <1>6, <1>7, <1>8, <1>9, <1>10, <1>11, <1>12, <1>13
     DEF Next, Produce, Work, Operate

(* An attempt number is never shared by two tasks, a task never runs ahead *)
(* of its row and no row is attempted past its budget, for any number of   *)
(* workers and rows: what makes the fence of ack sufficient.               *)
THEOREM AttemptsFenced == Spec => []OneTaskPerAttempt
<1>1. Init => TypeOK /\ Counters
  <2>1. Init => TypeOK
    BY NewRowType DEF Init, TypeOK
  <2>2. Init => Counters
    BY DEF Init, Counters, TasksVisible, BudgetSlack, OneTaskPerAttempt, NewRow
  <2> QED BY <2>1, <2>2
<1>2. TypeOK /\ Counters /\ [Next]_vars => (TypeOK /\ Counters)'
  BY TypeStep, CountersStep
<1> QED BY <1>1, <1>2, PTL DEF Spec, Counters

-----------------------------------------------------------------------------
(* The head of an ordering key.                                            *)

LEMMA KeyOrderStep ==
  TypeOK /\ Counters /\ KeyOrderKept /\ [Next]_vars => KeyOrderKept'
<1> SUFFICES ASSUME TypeOK, Counters, KeyOrderKept, [Next]_vars,
                    NEW t \in tasks', NEW e \in Ids,
                    e < t.id, SameKey(e, t.id)', Owed(e)'
             PROVE  e \in (requeued \union late)'
  BY DEF KeyOrderKept
<1>t. /\ row \in [Ids -> Row] /\ tasks \subseteq Task
      /\ \A u \in tasks : u.id \in Ids /\ Visible(u.id)
  BY DEF TypeOK, Task, Counters, TasksVisible
<1>k. ASSUME NEW u \in tasks, u.id = t.id, SameKey(e, t.id), Owed(e)
      PROVE  e \in requeued \union late
  BY <1>k DEF KeyOrderKept
<1>1. ASSUME NEW i \in Ids, NEW s \in Shapes, Enqueue(i, s)
      PROVE  e \in (requeued \union late)'
  <2>1. t \in tasks /\ t.id # i /\ e # i
    BY <1>1, <1>t DEF Enqueue, Owed, Owing, Visible
  <2>2. row'[e] = row[e] /\ row'[t.id] = row[t.id]
    BY <1>1, <1>t, <2>1 DEF Enqueue
  <2> QED BY <1>1, <1>k, <2>1, <2>2 DEF Enqueue, Owed, SameKey
<1>2. ASSUME NEW S \in SUBSET Ids, Commit(S) PROVE e \in (requeued \union late)'
  <2>1. t \in tasks /\ t.id \in Ids /\ Visible(t.id)
    BY <1>2, <1>t DEF Commit
  <2>2. row'[e].key = row[e].key /\ row'[t.id].key = row[t.id].key
    BY <1>2, <1>t, <2>1 DEF Commit, Row
  <2>3. CASE e \in S
    BY <1>2, <2>1, <2>2, <2>3 DEF Commit, SameKey
  <2>4. CASE e \notin S
    BY <1>2, <1>t, <1>k, <2>1, <2>2, <2>4 DEF Commit, SameKey, Owed
  <2> QED BY <2>3, <2>4
<1>3. ASSUME NEW i \in Ids, Rollback(i) PROVE e \in (requeued \union late)'
  <2>1. t \in tasks /\ row'[e].key = row[e].key /\ row'[t.id].key = row[t.id].key
        /\ (Owed(e)' => Owed(e))
    BY <1>3, <1>t DEF Rollback, Owed, Owing, Row
  <2> QED BY <1>3, <1>k, <2>1 DEF Rollback, SameKey
<1>4. ASSUME NEW i \in Ids, Elapse(i) PROVE e \in (requeued \union late)'
  <2>1. t \in tasks /\ row'[e].key = row[e].key /\ row'[t.id].key = row[t.id].key
        /\ (Owed(e)' => Owed(e))
    BY <1>4, <1>t DEF Elapse, Owed, Owing, Row
  <2> QED BY <1>4, <1>k, <2>1 DEF Elapse, SameKey
<1>5. ASSUME NEW w \in Worker, NEW S \in SUBSET Ids, Claim(w, S)
      PROVE  e \in (requeued \union late)'
  <2>1. t \in tasks \/ t.id \in S
    <3>1. t \in tasks \/ \E i \in S : t = [worker |-> w, id |-> i,
            attempt |-> row[i].attempts + 1, max |-> row[i].max, verdict |-> "none"]
      BY <1>5 DEF Claim
    <3> QED BY <3>1
  <2>2. t.id \in Ids
    BY <1>t, <2>1
  <2>3. row'[e].key = row[e].key /\ row'[t.id].key = row[t.id].key
    BY <1>5, <1>t, <2>2 DEF Claim, Row
  <2>4. Owed(e)
    BY <1>5, <1>t DEF Claim, Due, Owed
  <2>5. CASE t.id \in S
    BY <1>5, <2>3, <2>4, <2>5 DEF Claim, Due, SameKey
  <2>6. CASE t \in tasks
    BY <1>5, <1>k, <2>3, <2>4, <2>6 DEF Claim, SameKey
  <2> QED BY <2>1, <2>5, <2>6
<1>6. ASSUME NEW u \in tasks, Deliver(u) PROVE e \in (requeued \union late)'
  <2>1. PICK v : tasks' = (tasks \ {u}) \union {[u EXCEPT !.verdict = v]}
    BY <1>6 DEF Deliver
  <2>2. [u EXCEPT !.verdict = v].id = u.id
    BY <1>t DEF Task
  <2>3. \E x \in tasks : x.id = t.id
    BY <2>1, <2>2
  <2> QED BY <1>6, <1>k, <2>3 DEF Deliver, Owed, SameKey
<1>7. ASSUME NEW u \in tasks, Ack(u) PROVE e \in (requeued \union late)'
  <2>1. u.id \in Ids /\ u.verdict \in Verdicts /\ row[u.id] \in Row
    BY <1>7, <1>t DEF Ack, Task
  <2>2. t \in tasks /\ t.id \in Ids
    BY <1>7, <1>t DEF Ack
  <2>3. row'[e].key = row[e].key /\ row'[t.id].key = row[t.id].key
    <3>1. Settle(row[u.id], u.verdict).key = row[u.id].key
      BY <2>1, SettleType
    <3>2. \A j \in Ids : row'[j] = row[j] \/ (j = u.id /\ row'[j] = Settle(row[u.id], u.verdict))
      BY <1>7, <1>t DEF Ack
    <3> QED BY <2>2, <3>1, <3>2
  <2>4. Owed(e)
    <3>1. CASE e = u.id /\ Current(u)
      BY <3>1 DEF Current, Owed, Owing
    <3>2. CASE e # u.id \/ ~Current(u)
      <4>1. row'[e] = row[e]
        BY <1>7, <1>t, <3>2 DEF Ack
      <4> QED BY <4>1 DEF Owed
    <3> QED BY <3>1, <3>2
  <2> QED BY <1>7, <1>k, <2>2, <2>3, <2>4 DEF Ack, SameKey
<1>8. ASSUME NEW u \in tasks, TaskLost(u) PROVE e \in (requeued \union late)'
  BY <1>8, <1>k DEF TaskLost, Owed, SameKey
<1>9. ASSUME NEW w \in Worker, Crash(w) PROVE e \in (requeued \union late)'
  BY <1>9, <1>k DEF Crash, Owed, SameKey
<1>10. ASSUME NEW i \in Ids, Requeue(i) PROVE e \in (requeued \union late)'
  <2>1. t \in tasks /\ row'[e].key = row[e].key /\ row'[t.id].key = row[t.id].key
        /\ (e # i => row'[e] = row[e])
    BY <1>10, <1>t DEF Requeue, Row
  <2> QED BY <1>10, <1>k, <2>1 DEF Requeue, SameKey, Owed
<1>11. ASSUME NEW i \in Ids, DropLetter(i) \/ Sweep(i) PROVE e \in (requeued \union late)'
  <2>1. t \in tasks /\ row'[e].key = row[e].key /\ row'[t.id].key = row[t.id].key
        /\ (Owed(e)' => Owed(e))
    BY <1>11, <1>t DEF DropLetter, Sweep, Delete, Owed, Owing, Row
  <2> QED BY <1>11, <1>k, <2>1 DEF DropLetter, Sweep, Delete, SameKey
<1>12. ASSUME NEW k \in Keys, DeleteStream(k) PROVE e \in (requeued \union late)'
  <2>1. t \in tasks /\ row'[e].key = row[e].key /\ row'[t.id].key = row[t.id].key
        /\ (Owed(e)' => Owed(e))
    BY <1>12, <1>t DEF DeleteStream, Owed, Owing, Row
  <2> QED BY <1>12, <1>k, <2>1 DEF DeleteStream, SameKey
<1>13. CASE UNCHANGED vars
  BY <1>13, <1>k DEF vars, Owed, SameKey
<1> QED
  BY <1>1, <1>2, <1>3, <1>4, <1>5, <1>6, <1>7, <1>8, <1>9, <1>10, <1>11, <1>12, <1>13
     DEF Next, Produce, Work, Operate

(* Per-key ordering: whatever crashes, stalls, reclaims and stale acks     *)
(* happen, no task holds a keyed row while an earlier row of the key is    *)
(* owed, except one that was requeued or whose commit came late.           *)
THEOREM KeyOrder == Spec => []KeyOrderKept
<1>1. Init => TypeOK /\ Counters /\ KeyOrderKept
  <2>1. Init => TypeOK
    BY NewRowType DEF Init, TypeOK
  <2>2. Init => Counters
    BY DEF Init, Counters, TasksVisible, BudgetSlack, OneTaskPerAttempt, NewRow
  <2>3. Init => KeyOrderKept
    BY DEF Init, KeyOrderKept
  <2> QED BY <2>1, <2>2, <2>3
<1>2. TypeOK /\ Counters /\ KeyOrderKept /\ [Next]_vars
        => (TypeOK /\ Counters /\ KeyOrderKept)'
  BY TypeStep, CountersStep, KeyOrderStep
<1> QED BY <1>1, <1>2, PTL DEF Spec

-----------------------------------------------------------------------------
(* The trail.                                                              *)

(* An entry belongs to a row that is there, and to one of its attempts.    *)
TrailBounded ==
  \A a \in trail : /\ row[a.id].status \notin {"absent", "open", "gone"}
                   /\ a.attempt <= row[a.id].attempts

(* The verdicts recorded for an attempt of a row.                          *)
Entries(T, i, n) == {a.verdict : a \in {b \in T : b.id = i /\ b.attempt = n}}

(* What TrailExplainsRow says of one row.                                  *)
Explained(T, i, r) ==
  /\ r.status = "delivered" =>
       Entries(T, i, r.attempts) = {IF r.sent THEN "delivered" ELSE "journalled"}
  /\ r.status = "expired" => Entries(T, i, r.attempts) = {"expired"}
  /\ r.status = "failed" => Entries(T, i, r.attempts) = {"retry"}
  /\ r.status = "claimed" => Entries(T, i, r.attempts) = {}
  /\ r.status \notin {"delivered", "gone"} => ~r.sent

LEMMA TrailByRow == TrailExplainsRow <=> \A i \in Ids : Explained(trail, i, row[i])
  BY DEF TrailExplainsRow, Explained, Entries

TrailInv == TrailBounded /\ \A i \in Ids : Explained(trail, i, row[i])

LEMMA TrailStep == TypeOK /\ Counters /\ TrailInv /\ [Next]_vars => TrailInv'
<1> SUFFICES ASSUME TypeOK, Counters, TrailInv, [Next]_vars PROVE TrailInv'
  OBVIOUS
<1> USE DEF TrailInv
<1>t. /\ row \in [Ids -> Row] /\ tasks \subseteq Task /\ trail \subseteq Attempt
      /\ \A i \in Ids : row[i].attempts \in Nat /\ row[i].sent \in BOOLEAN
      /\ \A a \in trail : a.id \in Ids /\ a.attempt \in Nat
  BY DEF TypeOK, Row, Attempt
<1>k. ASSUME UNCHANGED trail,
             \A i \in Ids : \/ row'[i] = row[i]
                            \/ /\ row'[i].status \in {"pending", "failed", "claimed", "abandoned"}
                               /\ row'[i].status \in {"failed", "claimed"} =>
                                    row'[i].status = row[i].status
                               /\ row[i].status \in {"open", "abandoned"} \union Owing
                               /\ row'[i].attempts = row[i].attempts
                               /\ row'[i].sent = row[i].sent
      PROVE  TrailInv'
  <2>1. TrailBounded'
    BY <1>k, <1>t DEF TrailBounded
  <2>2. ASSUME NEW i \in Ids PROVE Explained(trail', i, row'[i])
    <3>1. CASE row'[i] = row[i]
      BY <1>k, <3>1 DEF Explained
    <3>2. CASE row'[i] # row[i]
      <4>1. Explained(trail, i, row[i])
        OBVIOUS
      <4>2. /\ row'[i].status \in {"pending", "abandoned"} \/ row'[i].status = row[i].status
            /\ row'[i].status \in {"pending", "failed", "claimed", "abandoned"}
            /\ row[i].status \in {"open", "abandoned", "pending", "failed", "claimed"}
            /\ row'[i].attempts = row[i].attempts /\ row'[i].sent = row[i].sent
            /\ trail' = trail
        BY <1>k, <3>2 DEF Owing
      <4> QED BY <4>1, <4>2 DEF Explained
    <3> QED BY <3>1, <3>2
  <2> QED BY <2>1, <2>2
<1>1. ASSUME NEW i \in Ids, NEW s \in Shapes, Enqueue(i, s) PROVE TrailInv'
  <2>1. /\ row'[i].status = "open" /\ row'[i].sent = FALSE
        /\ \A j \in Ids : j # i => row'[j] = row[j]
        /\ trail' = trail /\ row[i].status = "absent"
    BY <1>1, <1>t DEF Enqueue, NewRow
  <2>2. TrailBounded'
    BY <2>1, <1>t DEF TrailBounded
  <2>3. ASSUME NEW j \in Ids PROVE Explained(trail', j, row'[j])
    BY <2>1 DEF Explained
  <2> QED BY <2>2, <2>3
<1>2. ASSUME NEW S \in SUBSET Ids, Commit(S) PROVE TrailInv'
  <2>1. \A i \in Ids : \/ row'[i] = row[i]
                       \/ /\ row'[i].status = "pending" /\ row[i].status = "open"
                          /\ row'[i].attempts = row[i].attempts /\ row'[i].sent = row[i].sent
    BY <1>2, <1>t DEF Commit, Row
  <2>2. trail' = trail
    BY <1>2 DEF Commit
  <2> QED BY <1>k, <2>1, <2>2
<1>3. ASSUME NEW i \in Ids, Rollback(i) PROVE TrailInv'
  <2>1. /\ row[i].status = "open" /\ row'[i].status = "gone" /\ trail' = trail
        /\ \A j \in Ids : j # i => row'[j] = row[j]
    BY <1>3, <1>t DEF Rollback, Row
  <2>2. TrailBounded'
    BY <2>1, <1>t DEF TrailBounded
  <2>3. ASSUME NEW j \in Ids PROVE Explained(trail', j, row'[j])
    BY <2>1 DEF Explained
  <2> QED BY <2>2, <2>3
<1>4. ASSUME NEW i \in Ids, Elapse(i) PROVE TrailInv'
  <2>1. \A j \in Ids : /\ row'[j].status = row[j].status /\ row'[j].sent = row[j].sent
                       /\ row'[j].attempts = row[j].attempts
    BY <1>4, <1>t DEF Elapse, Row
  <2>2. trail' = trail
    BY <1>4 DEF Elapse
  <2>3. TrailBounded'
    BY <2>1, <2>2, <1>t DEF TrailBounded
  <2>4. ASSUME NEW j \in Ids PROVE Explained(trail', j, row'[j])
    BY <2>1, <2>2 DEF Explained
  <2> QED BY <2>3, <2>4
<1>5. ASSUME NEW w \in Worker, NEW S \in SUBSET Ids, Claim(w, S) PROVE TrailInv'
  <2>1. \A i \in S : /\ row'[i].attempts = row[i].attempts + 1 /\ row'[i].status = "claimed"
                     /\ row'[i].sent = row[i].sent /\ Owed(i)
    BY <1>5, <1>t DEF Claim, Due, Row
  <2>2. \A i \in Ids \ S : row'[i] = row[i]
    BY <1>5, <1>t DEF Claim
  <2>3. trail' = trail
    BY <1>5 DEF Claim
  <2>4. TrailBounded'
    <3> SUFFICES ASSUME NEW a \in trail
                 PROVE  /\ row'[a.id].status \notin {"absent", "open", "gone"}
                        /\ a.attempt <= row'[a.id].attempts
      BY <2>3 DEF TrailBounded
    <3>1. /\ a.id \in Ids /\ a.attempt \in Nat /\ row[a.id].attempts \in Nat
          /\ a.attempt <= row[a.id].attempts
          /\ row[a.id].status \notin {"absent", "open", "gone"}
      BY <1>t DEF TrailBounded
    <3>2. CASE a.id \in S
      <4>1. row'[a.id].attempts = row[a.id].attempts + 1 /\ row'[a.id].status = "claimed"
        BY <3>2, <2>1
      <4> QED BY <3>1, <4>1
    <3>3. CASE a.id \notin S
      BY <3>1, <3>3, <2>2
    <3> QED BY <3>2, <3>3
  <2>5. ASSUME NEW i \in Ids PROVE Explained(trail', i, row'[i])
    <3>1. CASE i \in S
      <4>1. Entries(trail, i, row[i].attempts + 1) = {}
        <5>1. \A a \in trail : a.id = i => a.attempt # row[i].attempts + 1
          <6> TAKE a \in trail
          <6>1. /\ a.attempt \in Nat /\ row[i].attempts \in Nat
                /\ a.id = i => a.attempt <= row[i].attempts
            BY <1>t DEF TrailBounded
          <6> QED BY <6>1
        <5> QED BY <5>1 DEF Entries
      <4>2. ~row[i].sent
        BY <2>1, <3>1 DEF Explained, Owed, Owing
      <4> QED BY <2>1, <2>3, <3>1, <4>1, <4>2 DEF Explained
    <3>2. CASE i \notin S
      BY <2>2, <2>3, <3>2 DEF Explained
    <3> QED BY <3>1, <3>2
  <2> QED BY <2>4, <2>5
<1>6. ASSUME NEW t \in tasks, Deliver(t) PROVE TrailInv'
  <2>1. row' = row /\ trail' = trail
    BY <1>6 DEF Deliver
  <2> QED BY <2>1 DEF TrailBounded, Explained
<1>7. ASSUME NEW t \in tasks, Ack(t) PROVE TrailInv'
  <2>1. /\ t.id \in Ids /\ t.verdict \in Verdicts /\ row[t.id] \in Row /\ t.attempt \in Nat
    BY <1>7, <1>t DEF Ack, Task
  <2>2. CASE ~Current(t)
    <3>1. row' = row /\ trail' = trail
      BY <1>7, <2>2 DEF Ack
    <3> QED BY <3>1 DEF TrailBounded, Explained
  <2>3. CASE Current(t)
    <3> DEFINE e == [id |-> t.id, attempt |-> t.attempt, verdict |-> t.verdict]
    <3>1. row[t.id].status = "claimed" /\ row[t.id].attempts = t.attempt
      BY <2>3 DEF Current
    <3>2. Entries(trail, t.id, t.attempt) = {} /\ ~row[t.id].sent
      BY <3>1, <2>1 DEF Explained
    <3>3. trail' = trail \union {e}
      <4>1. ~\E a \in trail : a.id = t.id /\ a.attempt = t.attempt
        BY <3>2 DEF Entries
      <4> QED BY <1>7, <2>3, <4>1 DEF Ack, Recorded
    <3>4. row' = [row EXCEPT ![t.id] = Settle(row[t.id], t.verdict)]
      BY <1>7, <2>3 DEF Ack
    <3>5. /\ row'[t.id] = Settle(row[t.id], t.verdict)
          /\ \A j \in Ids : j # t.id => row'[j] = row[j]
      BY <3>4, <2>1, <1>t
    <3>6. /\ row'[t.id].attempts = t.attempt
          /\ row'[t.id].status \in {"failed"} \union Terminal
      BY <3>1, <3>5, <2>1, SettleType
    <3>7. TrailBounded'
      <4>1. \A a \in trail' : a \in trail \/ (a.id = t.id /\ a.attempt = t.attempt)
        BY <3>3
      <4> SUFFICES ASSUME NEW a \in trail'
                   PROVE  /\ row'[a.id].status \notin {"absent", "open", "gone"}
                          /\ a.attempt <= row'[a.id].attempts
        BY DEF TrailBounded
      <4>2. CASE a \in trail
        <5>1. /\ a.id \in Ids /\ row[a.id].status \notin {"absent", "open", "gone"}
              /\ a.attempt <= row[a.id].attempts
          BY <4>2, <1>t DEF TrailBounded
        <5> QED BY <5>1, <3>1, <3>5, <3>6 DEF Terminal
      <4>3. CASE a.id = t.id /\ a.attempt = t.attempt
        BY <4>3, <3>6, <2>1 DEF Terminal
      <4> QED BY <4>1, <4>2, <4>3
    <3>8. ASSUME NEW j \in Ids, j # t.id PROVE Explained(trail', j, row'[j])
      <4>1. \A n : Entries(trail', j, n) = Entries(trail, j, n)
        BY <3>3, <3>8 DEF Entries
      <4> QED BY <4>1, <3>5, <3>8 DEF Explained
    <3>9. Explained(trail', t.id, row'[t.id])
      <4>1. Entries(trail', t.id, t.attempt) = {t.verdict}
        <5>1. \A a \in trail : ~(a.id = t.id /\ a.attempt = t.attempt)
          BY <3>2 DEF Entries
        <5>2. {b \in trail' : b.id = t.id /\ b.attempt = t.attempt} = {e}
          BY <5>1, <3>3
        <5>3. e.verdict = t.verdict
          OBVIOUS
        <5> HIDE DEF e
        <5>4. {a.verdict : a \in {e}} = {t.verdict}
          BY <5>3
        <5> QED BY <5>2, <5>4 DEF Entries
      <4>2. /\ row'[t.id].status = "delivered" =>
                 t.verdict = (IF row'[t.id].sent THEN "delivered" ELSE "journalled")
            /\ row'[t.id].status = "expired" => t.verdict = "expired"
            /\ row'[t.id].status = "failed" => t.verdict = "retry"
            /\ row'[t.id].status # "delivered" => ~row'[t.id].sent
        BY <2>1, <3>2, <3>5 DEF Settle, Row, Verdicts
      <4> QED BY <4>1, <4>2, <3>6 DEF Explained, Terminal
    <3> QED BY <3>7, <3>8, <3>9
  <2> QED BY <2>2, <2>3
<1>8. ASSUME NEW t \in tasks, TaskLost(t) PROVE TrailInv'
  BY <1>8 DEF TaskLost, TrailBounded, Explained
<1>9. ASSUME NEW w \in Worker, Crash(w) PROVE TrailInv'
  BY <1>9 DEF Crash, TrailBounded, Explained
<1>10. ASSUME NEW i \in Ids, Requeue(i) PROVE TrailInv'
  <2>1. \A j \in Ids : \/ row'[j] = row[j]
                       \/ /\ row'[j].status = "pending" /\ row[j].status = "abandoned"
                          /\ row'[j].attempts = row[j].attempts /\ row'[j].sent = row[j].sent
    BY <1>10, <1>t DEF Requeue, Row
  <2>2. trail' = trail
    BY <1>10 DEF Requeue
  <2> QED BY <1>k, <2>1, <2>2
<1>11. ASSUME NEW i \in Ids, DropLetter(i) \/ Sweep(i) PROVE TrailInv'
  <2>1. /\ row'[i].status = "gone" /\ trail' = {a \in trail : a.id # i}
        /\ \A j \in Ids : j # i => row'[j] = row[j]
    BY <1>11, <1>t DEF DropLetter, Sweep, Delete, Row
  <2>2. TrailBounded'
    BY <2>1, <1>t DEF TrailBounded
  <2>3. ASSUME NEW j \in Ids PROVE Explained(trail', j, row'[j])
    <3>1. j # i => \A n : Entries(trail', j, n) = Entries(trail, j, n)
      BY <2>1 DEF Entries
    <3> QED BY <2>1, <3>1 DEF Explained
  <2> QED BY <2>2, <2>3
<1>12. ASSUME NEW k \in Keys, DeleteStream(k) PROVE TrailInv'
  <2>1. \A j \in Ids : \/ row'[j] = row[j]
                       \/ /\ row'[j].status = "abandoned" /\ row[j].status \in Owing
                          /\ row'[j].attempts = row[j].attempts /\ row'[j].sent = row[j].sent
    BY <1>12, <1>t DEF DeleteStream, Owed, Row
  <2>2. trail' = trail
    BY <1>12 DEF DeleteStream
  <2> QED BY <1>k, <2>1, <2>2
<1>13. CASE UNCHANGED vars
  BY <1>13 DEF vars, TrailBounded, Explained
<1> QED
  BY <1>1, <1>2, <1>3, <1>4, <1>5, <1>6, <1>7, <1>8, <1>9, <1>10, <1>11, <1>12, <1>13
     DEF Next, Produce, Work, Operate

LEMMA InitFacts == Init => TypeOK /\ Counters
<1>1. Init => TypeOK
  BY NewRowType DEF Init, TypeOK
<1>2. Init => Counters
  BY DEF Init, Counters, TasksVisible, BudgetSlack, OneTaskPerAttempt, NewRow
<1> QED BY <1>1, <1>2

(* A settled row is explained by the trail entry of its last attempt, and  *)
(* a claim's own entry is never already there, over any number of lives of *)
(* a row: the two tables ack writes cannot come apart.                     *)
THEOREM TrailAgrees == Spec => []TrailExplainsRow
<1>1. Init => TypeOK /\ Counters /\ TrailInv
  <2>1. Init => TrailInv
    BY DEF Init, TrailInv, TrailBounded, Explained, NewRow
  <2> QED BY <2>1, InitFacts
<1>2. TypeOK /\ Counters /\ TrailInv /\ [Next]_vars => (TypeOK /\ Counters /\ TrailInv)'
  BY TypeStep, CountersStep, TrailStep
<1>3. TrailInv => TrailExplainsRow
  BY TrailByRow DEF TrailInv
<1> QED BY <1>1, <1>2, <1>3, PTL DEF Spec

-----------------------------------------------------------------------------
(* The payload of a mail.                                                  *)

LEMMA PayloadStep == TypeOK /\ PayloadKept /\ [Next]_vars => PayloadKept'
<1> SUFFICES ASSUME TypeOK, PayloadKept, [Next]_vars PROVE PayloadKept'
  OBVIOUS
<1> USE DEF PayloadKept
<1>t. row \in [Ids -> Row] /\ tasks \subseteq Task
  BY DEF TypeOK
<1>k. ASSUME \A i \in Ids : \/ row'[i] = row[i]
                            \/ row'[i].status = "gone"
                            \/ /\ row'[i].cleared = row[i].cleared
                               /\ row[i].status \notin {"delivered", "expired", "gone"}
      PROVE  PayloadKept'
  BY <1>k
<1>1. ASSUME NEW i \in Ids, NEW s \in Shapes, Enqueue(i, s) PROVE PayloadKept'
  <2>1. ~row'[i].cleared /\ \A j \in Ids : j # i => row'[j] = row[j]
    BY <1>1, <1>t DEF Enqueue, NewRow
  <2> QED BY <2>1
<1>2. ASSUME NEW S \in SUBSET Ids, Commit(S) PROVE PayloadKept'
  <2>1. \A i \in Ids : \/ row'[i] = row[i]
                       \/ row'[i].cleared = row[i].cleared /\ row[i].status = "open"
    BY <1>2, <1>t DEF Commit, Row
  <2> QED BY <1>k, <2>1
<1>3. ASSUME NEW i \in Ids, Rollback(i) \/ DropLetter(i) \/ Sweep(i) PROVE PayloadKept'
  <2>1. \A j \in Ids : row'[j] = row[j] \/ row'[j].status = "gone"
    BY <1>3, <1>t DEF Rollback, DropLetter, Sweep, Delete, Row
  <2> QED BY <1>k, <2>1
<1>4. ASSUME NEW i \in Ids, Elapse(i) \/ Requeue(i) PROVE PayloadKept'
  <2>1. \A j \in Ids : \/ row'[j] = row[j]
                       \/ /\ row'[j].cleared = row[j].cleared
                          /\ row[j].status \in {"failed", "claimed", "abandoned"}
    BY <1>4, <1>t DEF Elapse, Requeue, Row
  <2> QED BY <1>k, <2>1
<1>5. ASSUME NEW w \in Worker, NEW S \in SUBSET Ids, Claim(w, S) PROVE PayloadKept'
  <2>1. \A i \in Ids : \/ row'[i] = row[i]
                       \/ row'[i].cleared = row[i].cleared /\ row[i].status \in Owing
    BY <1>5, <1>t DEF Claim, Due, Owed, Row
  <2> QED BY <1>k, <2>1 DEF Owing
<1>6. ASSUME NEW t \in tasks, Deliver(t) \/ TaskLost(t) PROVE PayloadKept'
  BY <1>6 DEF Deliver, TaskLost
<1>7. ASSUME NEW t \in tasks, Ack(t) PROVE PayloadKept'
  <2>1. t.id \in Ids /\ t.verdict \in Verdicts /\ row[t.id] \in Row
    BY <1>7, <1>t DEF Ack, Task
  <2>2. CASE ~Current(t)
    BY <1>7, <2>2 DEF Ack
  <2>3. CASE Current(t)
    <3>1. ~row[t.id].cleared
      BY <2>1, <2>3 DEF Current
    <3>2. /\ row'[t.id] = Settle(row[t.id], t.verdict)
          /\ \A j \in Ids : j # t.id => row'[j] = row[j]
      BY <1>7, <1>t, <2>1, <2>3 DEF Ack
    <3>3. row'[t.id].cleared => row'[t.id].status \in {"delivered", "expired", "gone"}
      BY <2>1, <3>1, <3>2 DEF Settle, Row, Verdicts
    <3> QED BY <3>2, <3>3
  <2> QED BY <2>2, <2>3
<1>8. ASSUME NEW w \in Worker, Crash(w) PROVE PayloadKept'
  BY <1>8 DEF Crash
<1>9. ASSUME NEW k \in Keys, DeleteStream(k) PROVE PayloadKept'
  <2>1. \A i \in Ids : \/ row'[i] = row[i]
                       \/ row'[i].cleared = row[i].cleared /\ row[i].status \in Owing
    BY <1>9, <1>t DEF DeleteStream, Owed, Row
  <2> QED BY <1>k, <2>1 DEF Owing
<1>10. CASE UNCHANGED vars
  BY <1>10 DEF vars
<1> QED BY <1>1, <1>2, <1>3, <1>4, <1>5, <1>6, <1>7, <1>8, <1>9, <1>10
     DEF Next, Produce, Work, Operate

(* No row that can still be delivered or requeued has lost its payload,    *)
(* whichever stale acks arrive.                                            *)
THEOREM PayloadStays == Spec => []PayloadKept
<1>1. Init => TypeOK /\ PayloadKept
  BY InitFacts DEF Init, PayloadKept, NewRow
<1>2. TypeOK /\ PayloadKept /\ [Next]_vars => (TypeOK /\ PayloadKept)'
  BY TypeStep, PayloadStep
<1> QED BY <1>1, <1>2, PTL DEF Spec

(* A settled row is revived by nothing but a requeue, and a claim only     *)
(* ends by its own attempt, for any number of workers: an older attempt    *)
(* never terminates a newer claim.                                         *)
THEOREM SettledForGood == Spec => SettledStays
<1> DEFINE Kept(i) ==
      /\ row[i].status \in {"delivered", "expired"} =>
           row'[i].status \in {row[i].status, "gone"}
      /\ row[i].status = "abandoned" /\ row'[i].status \in Owing =>
           requeues' = requeues + 1
      /\ row[i].status = "claimed" /\ row'[i].status \in {"failed", "delivered", "expired"} =>
           \E t \in tasks : /\ t.id = i /\ t.attempt = row[i].attempts
                            /\ t \notin tasks'
<1>1. ASSUME TypeOK, Next, NEW i \in Ids PROVE Kept(i)
  <2>t. row \in [Ids -> Row] /\ tasks \subseteq Task
    BY <1>1 DEF TypeOK
  <2>k. ASSUME row'[i] = row[i] \/ row'[i].status = row[i].status \/ row'[i].status = "gone"
        PROVE  Kept(i)
    BY <2>k DEF Owing
  <2>1. ASSUME NEW j \in Ids, NEW s \in Shapes, Enqueue(j, s) PROVE Kept(i)
    <3>1. row'[i] = row[i] \/ row[i].status = "absent"
      BY <2>1, <2>t DEF Enqueue
    <3> QED BY <3>1, <2>k
  <2>2. ASSUME NEW S \in SUBSET Ids, Commit(S) PROVE Kept(i)
    <3>1. row'[i] = row[i] \/ row[i].status = "open"
      BY <2>2, <2>t DEF Commit
    <3> QED BY <3>1, <2>k
  <2>3. ASSUME NEW j \in Ids, Rollback(j) \/ DropLetter(j) \/ Sweep(j) PROVE Kept(i)
    <3>1. row'[i] = row[i] \/ row'[i].status = "gone"
      BY <2>3, <2>t DEF Rollback, DropLetter, Sweep, Delete, Row
    <3> QED BY <3>1, <2>k
  <2>4. ASSUME NEW j \in Ids, Elapse(j) PROVE Kept(i)
    <3>1. row'[i].status = row[i].status
      BY <2>4, <2>t DEF Elapse, Row
    <3> QED BY <3>1, <2>k
  <2>5. ASSUME NEW w \in Worker, NEW S \in SUBSET Ids, Claim(w, S) PROVE Kept(i)
    <3>1. row'[i] = row[i] \/ (row'[i].status = "claimed" /\ row[i].status \in Owing)
      BY <2>5, <2>t DEF Claim, Due, Owed, Row
    <3> QED BY <3>1, <2>k DEF Owing
  <2>6. ASSUME NEW t \in tasks, Deliver(t) \/ TaskLost(t) PROVE Kept(i)
    BY <2>6, <2>k DEF Deliver, TaskLost
  <2>7. ASSUME NEW t \in tasks, Ack(t) PROVE Kept(i)
    <3>1. CASE ~Current(t) \/ i # t.id
      <4>1. row'[i] = row[i]
        BY <2>7, <2>t, <3>1 DEF Ack
      <4> QED BY <4>1, <2>k
    <3>2. CASE Current(t) /\ i = t.id
      <4>1. row[i].status = "claimed" /\ row[i].attempts = t.attempt /\ t \notin tasks'
        BY <2>7, <3>2 DEF Ack, Current
      <4> QED BY <3>2, <4>1
    <3> QED BY <3>1, <3>2
  <2>8. ASSUME NEW w \in Worker, Crash(w) PROVE Kept(i)
    BY <2>8, <2>k DEF Crash
  <2>9. ASSUME NEW j \in Ids, Requeue(j) PROVE Kept(i)
    <3>1. row'[i] = row[i] \/ row[i].status = "abandoned"
      BY <2>9, <2>t DEF Requeue
    <3>2. requeues' = requeues + 1
      BY <2>9 DEF Requeue
    <3> QED BY <3>1, <3>2, <2>k
  <2>10. ASSUME NEW k \in Keys, DeleteStream(k) PROVE Kept(i)
    <3>1. row'[i] = row[i] \/ (row'[i].status = "abandoned" /\ row[i].status \in Owing)
      BY <2>10, <2>t DEF DeleteStream, Owed, Row
    <3> QED BY <3>1, <2>k DEF Owing
  <2> HIDE DEF Kept
  <2> QED BY <1>1, <2>1, <2>2, <2>3, <2>4, <2>5, <2>6, <2>7, <2>8, <2>9, <2>10
       DEF Next, Produce, Work, Operate
<1>2. TypeOK /\ [Next]_vars => [\A i \in Ids : Kept(i)]_vars
  BY <1>1
<1> QED BY <1>2, TypeCorrect, PTL DEF Spec, SettledStays

-----------------------------------------------------------------------------
(* The refinement of Delivery.                                             *)

(* A delivery is only reported when the receiver has the message.          *)
ReportedReceived == \A t \in tasks : t.verdict = "delivered" => t.id \in received

LEMMA ReportedStep == TypeOK /\ ReportedReceived /\ [Next]_vars => ReportedReceived'
<1> SUFFICES ASSUME TypeOK, ReportedReceived, [Next]_vars PROVE ReportedReceived'
  OBVIOUS
<1> USE DEF ReportedReceived
<1>t. tasks \subseteq Task
  BY DEF TypeOK
<1>1. ASSUME NEW w \in Worker, NEW S \in SUBSET Ids, Claim(w, S) PROVE ReportedReceived'
  <2>1. \A t \in tasks' : t \in tasks \/ \E i \in S :
          t = [worker |-> w, id |-> i, attempt |-> row[i].attempts + 1,
               max |-> row[i].max, verdict |-> "none"]
    BY <1>1 DEF Claim
  <2>2. \A t \in tasks' : t \in tasks \/ t.verdict = "none"
    BY <2>1
  <2> QED BY <1>1, <2>2 DEF Claim
<1>2. ASSUME NEW t \in tasks, Deliver(t) PROVE ReportedReceived'
  <2>1. PICK r \in Reports(row[t.id].family) :
          /\ tasks' = (tasks \ {t}) \union {[t EXCEPT !.verdict = VerdictOf(t, r)]}
          /\ received' \in
               IF r = "sent" THEN {received \union {t.id}}
               ELSE IF r = "transient" THEN {received, received \union {t.id}}
               ELSE {received}
    BY <1>2 DEF Deliver
  <2>2. VerdictOf(t, r) = "delivered" => r = "sent"
    BY DEF VerdictOf, Failed, Reports
  <2>3. received \subseteq received' /\ (r = "sent" => t.id \in received')
    BY <2>1
  <2>4. [t EXCEPT !.verdict = VerdictOf(t, r)].id = t.id
        /\ [t EXCEPT !.verdict = VerdictOf(t, r)].verdict = VerdictOf(t, r)
    BY <1>t DEF Task
  <2> QED BY <2>1, <2>2, <2>3, <2>4
<1>3. ASSUME tasks' \subseteq tasks, received' = received PROVE ReportedReceived'
  BY <1>3
<1> QED BY <1>1, <1>2, <1>3 DEF Next, Produce, Work, Operate, Enqueue, Commit, Rollback,
     Elapse, Ack, TaskLost, Crash, Requeue, DropLetter, Sweep, Delete, DeleteStream, vars

(* A step that leaves every row's letter, and who received what, alone.    *)
LEMMA SameLetters ==
  ASSUME \A i \in Ids : Letter(i)' = Letter(i), UNCHANGED <<received, requeued, late>>
  PROVE  UNCHANGED Promise!vars
  BY DEF Promise!vars

LEMMA LetterPhase ==
  ASSUME TypeOK, NEW i \in Ids
  PROVE  /\ Letter(i).phase = "absent" <=> ~Visible(i)
         /\ Letter(i).phase = "owed" <=> Owed(i)
         /\ Letter(i).phase = "dead" <=> row[i].status = "abandoned"
         /\ Letter(i).phase = "expired" <=> row[i].status = "expired"
         /\ Letter(i).phase = "gone" <=> row[i].status = "gone"
         /\ Visible(i) => Letter(i).key = row[i].key
         /\ ~Visible(i) => Letter(i).key = NoKey
         /\ Letter(i) = [phase |-> Letter(i).phase, key |-> Letter(i).key]
<1>1. row[i].status \in Status
  BY DEF TypeOK, Row
<1> QED BY <1>1 DEF Letter, Visible, Owed, Owing, Status, Terminal

LEMMA PromiseStep ==
  TypeOK /\ TypeOK' /\ Counters /\ KeyOrderKept /\ ReportedReceived /\ [Next]_vars
    => [Promise!Next]_(Promise!vars)
<1> SUFFICES ASSUME TypeOK, TypeOK', Counters, KeyOrderKept, ReportedReceived, [Next]_vars
             PROVE  [Promise!Next]_(Promise!vars)
  OBVIOUS
<1> DEFINE L == [i \in Ids |-> Letter(i)]
<1>t. row \in [Ids -> Row] /\ row' \in [Ids -> Row] /\ tasks \subseteq Task
  BY DEF TypeOK
<1>s. ASSUME \A i \in Ids : Letter(i)' = Letter(i), UNCHANGED <<received, requeued, late>>
      PROVE  [Promise!Next]_(Promise!vars)
  BY <1>s, SameLetters
<1>1. ASSUME NEW i \in Ids, NEW s \in Shapes, Enqueue(i, s) PROVE [Promise!Next]_(Promise!vars)
  <2>1. /\ row[i].status = "absent" /\ row'[i].status = "open"
        /\ \A j \in Ids : j # i => row'[j] = row[j]
    BY <1>1, <1>t DEF Enqueue, NewRow
  <2>2. \A j \in Ids : Letter(j)' = Letter(j)
    BY <2>1 DEF Letter, Visible, Owing
  <2> QED BY <1>1, <1>s, <2>2 DEF Enqueue
<1>2. ASSUME NEW S \in SUBSET Ids, Commit(S) PROVE [Promise!Next]_(Promise!vars)
  <2> DEFINE key == [i \in S |-> row[i].key]
  <2>1. key \in [S -> Keys \union {NoKey}]
    BY <1>t DEF Row
  <2>2. \A i \in S : ~Visible(i) /\ row[i].status = "open"
    BY <1>2 DEF Commit, Visible
  <2>3. \A i \in Ids : /\ i \in S => row'[i].status = "pending" /\ row'[i].key = row[i].key
                       /\ i \notin S => row'[i] = row[i]
    BY ZenonT(60), <1>2, <1>t DEF Commit, Row
  <2>4. \A i \in Ids : Letter(i)' = IF i \in S THEN [phase |-> "owed", key |-> key[i]]
                                              ELSE Letter(i)
    BY <2>3 DEF Letter, Visible, Owing
  <2>5. late' = late \union {i \in S : \E j \in Ids : /\ i < j /\ Letter(j).phase # "absent"
                                                    /\ Letter(j).key = key[i] /\ key[i] # NoKey}
    <3>1. \A i \in S, j \in Ids :
            SameKey(i, j) /\ Visible(j) <=>
              Letter(j).phase # "absent" /\ Letter(j).key = key[i] /\ key[i] # NoKey
      BY LetterPhase DEF SameKey
    <3> QED BY <1>2, <3>1 DEF Commit
  <2>6. \A i \in S : Letter(i).phase = "absent"
    BY <2>2, LetterPhase
  <2> HIDE DEF key
  <2>7. Promise!Accept(S, key)
    BY <1>2, <2>4, <2>5, <2>6 DEF Promise!Accept, Promise!Accepted, Commit
  <2> QED BY <2>1, <2>7 DEF Promise!Next
<1>3. ASSUME NEW i \in Ids, Rollback(i) PROVE [Promise!Next]_(Promise!vars)
  <2>1. /\ row[i].status = "open" /\ row'[i].status = "gone" /\ row'[i].key = row[i].key
        /\ row[i].key \in Keys \union {NoKey}
        /\ \A j \in Ids : j # i => row'[j] = row[j]
    BY <1>3, <1>t DEF Rollback, Row
  <2>2. L' = [L EXCEPT ![i] = [phase |-> "gone", key |-> row[i].key]]
    BY <2>1 DEF Letter, Visible, Owing
  <2>3. Promise!Refuse(i, row[i].key)
    BY <1>3, <2>1, <2>2 DEF Promise!Refuse, Promise!Accepted, Rollback, Letter, Owing
  <2> QED BY <2>1, <2>3 DEF Promise!Next
<1>4. ASSUME NEW i \in Ids, Elapse(i) PROVE [Promise!Next]_(Promise!vars)
  <2>1. \A j \in Ids : /\ row'[j].status = row[j].status /\ row'[j].sent = row[j].sent
                       /\ row'[j].key = row[j].key
    BY <1>4, <1>t DEF Elapse, Row
  <2>2. \A j \in Ids : Letter(j)' = Letter(j)
    BY <2>1 DEF Letter, Visible
  <2> QED BY <1>4, <1>s, <2>2 DEF Elapse
<1>5. ASSUME NEW w \in Worker, NEW S \in SUBSET Ids, Claim(w, S)
      PROVE  [Promise!Next]_(Promise!vars)
  <2>0. \A j \in S : row[j].status \in Owing
    BY <1>5 DEF Claim, Due, Owed
  <2>1. \A j \in Ids : \/ row'[j] = row[j]
                       \/ /\ row'[j].status = "claimed" /\ row[j].status \in Owing
                          /\ row'[j].key = row[j].key
    BY <1>5, <1>t, <2>0 DEF Claim, Row
  <2>2. \A j \in Ids : Letter(j)' = Letter(j)
    BY <2>1 DEF Letter, Visible, Owing
  <2> QED BY <1>5, <1>s, <2>2 DEF Claim
<1>6. ASSUME NEW t \in tasks, Deliver(t) PROVE [Promise!Next]_(Promise!vars)
  <2>1. row' = row /\ late' = late /\ requeued' = requeued /\ t.id \in Ids
    BY <1>6, <1>t DEF Deliver, Task
  <2>2. received' = received \/ received' = received \union {t.id}
    BY <1>6 DEF Deliver
  <2>3. \A j \in Ids : Letter(j)' = Letter(j)
    BY <2>1 DEF Letter, Visible
  <2>4. CASE received' = received
    BY <2>1, <2>3, <2>4, <1>s
  <2>5. CASE received' = received \union {t.id}
    <3>1. Visible(t.id)
      BY DEF Counters, TasksVisible
    <3>2. Letter(t.id).phase # "absent"
      BY <2>1, <3>1, LetterPhase
    <3>3. ~Promise!Waits(t.id)
      <4> SUFFICES ASSUME NEW e \in Ids, e < t.id, Letter(e).key = Letter(t.id).key,
                          Letter(t.id).key # NoKey, Letter(e).phase = "owed",
                          e \notin requeued \union late
                   PROVE  FALSE
        BY <2>1 DEF Promise!Waits
      <4>1. Owed(e)
        BY LetterPhase
      <4>2. Visible(e)
        BY <4>1 DEF Owed, Owing, Visible
      <4>3. SameKey(e, t.id)
        BY <2>1, <3>1, <4>2, LetterPhase DEF SameKey
      <4> QED BY <4>1, <4>3 DEF KeyOrderKept
    <3>4. Promise!Hand(t.id)
      BY <2>1, <2>3, <2>5, <3>2, <3>3 DEF Promise!Hand, Promise!Accepted
    <3> QED BY <2>1, <3>4 DEF Promise!Next
  <2> QED BY <2>2, <2>4, <2>5
<1>7. ASSUME NEW t \in tasks, Ack(t) PROVE [Promise!Next]_(Promise!vars)
  <2>1. t.id \in Ids /\ t.verdict \in Verdicts /\ row[t.id] \in Row
        /\ UNCHANGED <<received, requeued, late>>
    BY <1>7, <1>t DEF Ack, Task
  <2>2. CASE ~Current(t)
    BY <1>7, <1>s, <2>1, <2>2 DEF Ack, Letter, Visible
  <2>3. CASE Current(t)
    <3>1. /\ row'[t.id] = Settle(row[t.id], t.verdict)
          /\ \A j \in Ids : j # t.id => row'[j] = row[j]
          /\ row[t.id].status = "claimed"
      BY <1>7, <1>t, <2>1, <2>3 DEF Ack, Current
    <3>2. row'[t.id].key = row[t.id].key
      BY <2>1, <3>1, SettleType
    <3>3. \A j \in Ids : j # t.id => Letter(j)' = Letter(j)
      BY <3>1 DEF Letter, Visible
    <3>4. Letter(t.id) = [phase |-> "owed", key |-> row[t.id].key]
      BY <3>1 DEF Letter, Visible, Owing
    <3>5. CASE t.verdict = "retry"
      <4>1. row'[t.id].status = "failed"
        BY <2>1, <3>1, <3>5 DEF Settle, Row
      <4>2. Letter(t.id)' = Letter(t.id)
        BY <3>2, <3>4, <4>1 DEF Letter, Visible, Owing
      <4> QED BY <1>s, <2>1, <3>3, <4>2
    <3>6. CASE t.verdict # "retry"
      <4> DEFINE p == IF t.verdict = "abandoned" THEN "dead" ELSE t.verdict
      <4>1. p \in Promise!Settled
        BY <2>1, <3>6 DEF Promise!Settled, Verdicts
      <4>2. /\ row'[t.id].status \in {"delivered", "expired", "abandoned"}
            /\ t.verdict = "abandoned" <=> row'[t.id].status = "abandoned"
            /\ t.verdict = "expired" <=> row'[t.id].status = "expired"
            /\ row'[t.id].status = "delivered" => row'[t.id].sent = (t.verdict = "delivered")
        BY <2>1, <3>1, <3>6 DEF Settle, Row, Verdicts
      <4>3. Letter(t.id)' = [phase |-> p, key |-> row[t.id].key]
        BY <2>1, <3>2, <3>6, <4>2 DEF Letter, Visible, Owing, Verdicts
      <4>4. L' = [L EXCEPT ![t.id].phase = p]
        BY <2>1, <3>3, <3>4, <4>3
      <4>5. p = "delivered" => t.id \in received
        BY DEF ReportedReceived
      <4> HIDE DEF p
      <4>6. Promise!Settle(t.id, p)
        BY <2>1, <3>4, <4>4, <4>5 DEF Promise!Settle
      <4> QED BY <2>1, <4>1, <4>6 DEF Promise!Next
    <3> QED BY <3>5, <3>6
  <2> QED BY <2>2, <2>3
<1>8. ASSUME NEW t \in tasks, TaskLost(t) PROVE [Promise!Next]_(Promise!vars)
  BY <1>8, <1>s DEF TaskLost, Letter, Visible
<1>9. ASSUME NEW w \in Worker, Crash(w) PROVE [Promise!Next]_(Promise!vars)
  BY <1>9, <1>s DEF Crash, Letter, Visible
<1>10. ASSUME NEW i \in Ids, Requeue(i) PROVE [Promise!Next]_(Promise!vars)
  <2>1. /\ row[i].status = "abandoned" /\ row'[i].status = "pending"
        /\ row'[i].key = row[i].key
        /\ \A j \in Ids : j # i => row'[j] = row[j]
    BY <1>10, <1>t DEF Requeue, Row
  <2>2. L' = [L EXCEPT ![i].phase = "owed"]
    BY <2>1 DEF Letter, Visible, Owing
  <2>3. Promise!Revive(i)
    BY <1>10, <2>1, <2>2, LetterPhase DEF Promise!Revive, Requeue
  <2> QED BY <2>3 DEF Promise!Next
<1>11. ASSUME NEW i \in Ids, DropLetter(i) \/ Sweep(i) PROVE [Promise!Next]_(Promise!vars)
  <2>1. /\ row[i].status \in {"delivered", "abandoned"} /\ row'[i].status = "gone"
        /\ row'[i].key = row[i].key
        /\ \A j \in Ids : j # i => row'[j] = row[j]
    BY <1>11, <1>t DEF DropLetter, Sweep, Delete, Row
  <2>2. L' = [L EXCEPT ![i].phase = "gone"]
    BY <2>1 DEF Letter, Visible, Owing
  <2>3. Letter(i).phase \in {"delivered", "journalled", "dead"}
    BY <2>1 DEF Letter, Owing
  <2>4. Promise!Forget(i)
    BY <1>11, <2>2, <2>3 DEF Promise!Forget, Promise!Settled, DropLetter, Sweep, Delete
  <2> QED BY <2>4 DEF Promise!Next
<1>12. ASSUME NEW k \in Keys, DeleteStream(k) PROVE [Promise!Next]_(Promise!vars)
  <2> DEFINE S == {i \in Ids : row[i].family = "ssf" /\ row[i].key = k /\ Owed(i)}
  <2>1. \A i \in Ids : /\ i \in S => row'[i].status = "abandoned" /\ row'[i].key = row[i].key
                       /\ i \notin S => row'[i] = row[i]
    BY <1>12, <1>t DEF DeleteStream, Row
  <2>2. \A i \in S : Letter(i).phase = "owed"
    BY LetterPhase
  <2>3. \A i \in Ids : Letter(i)' = IF i \in S THEN [Letter(i) EXCEPT !.phase = "dead"]
                                              ELSE Letter(i)
    BY <2>1 DEF Letter, Visible, Owing, Owed
  <2>4. S \in SUBSET Ids
    OBVIOUS
  <2> HIDE DEF S
  <2>5. Promise!GiveUp(S)
    BY <1>12, <2>2, <2>3, <2>4 DEF Promise!GiveUp, DeleteStream
  <2> QED BY <2>4, <2>5 DEF Promise!Next
<1>13. CASE UNCHANGED vars
  BY <1>13, <1>s DEF vars, Letter, Visible
<1> HIDE DEF L
<1> QED
  BY <1>1, <1>2, <1>3, <1>4, <1>5, <1>6, <1>7, <1>8, <1>9, <1>10, <1>11, <1>12, <1>13
     DEF Next, Produce, Work, Operate

(* The outbox implements Delivery, for any number of rows, workers, keys,  *)
(* retries and requeues: at least once, in key order, and never called     *)
(* delivered before it was.                                                *)
THEOREM PromiseIsKept == Spec => KeepsPromise
<1>1. Init => Promise!Init
  BY DEF Init, Promise!Init, Letter, Visible, NewRow, Owing
<1>2. Init => ReportedReceived
  BY DEF Init, ReportedReceived
<1>3. TypeOK /\ ReportedReceived /\ [Next]_vars => ReportedReceived'
  BY ReportedStep
<1>4. Init => TypeOK /\ Counters
  BY InitFacts
<1>5. TypeOK /\ Counters /\ [Next]_vars => (TypeOK /\ Counters)'
  BY TypeStep, CountersStep
<1> QED BY <1>1, <1>2, <1>3, <1>4, <1>5, PromiseStep, KeyOrder, PTL
       DEF Spec, KeepsPromise, Promise!Spec
=============================================================================
