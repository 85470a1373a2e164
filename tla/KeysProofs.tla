----------------------------- MODULE KeysProofs -----------------------------
(***************************************************************************)
(* Proofs about Keys for any number of keys, algorithms, replicas and      *)
(* requests, any policies, any cache lifetime and any lag.                 *)
(*                                                                         *)
(* Effect says what one transaction may do to one key.  Every lifecycle    *)
(* call is shown to do only that (KeyStep), and the invariants about       *)
(* single keys are then proved from Effect alone.                          *)
(***************************************************************************)
EXTENDS Keys, TLAPS

-----------------------------------------------------------------------------
(* What a transaction does to one key. *)

\* Key k keeps its row.
Same(k, K) == K[k] = key[k]

\* A pass finds key k past a grace period and retires it.
Expires(k, K) ==
  /\ key[k].state = "retiring"
  /\ K[k] = [key[k] EXCEPT !.state = "retired"]
  /\ \E a \in Algs : key[k].retiring + sched[a].grace <= clock

\* Key k is superseded.
Superseded(k, K) ==
  /\ key[k].state = "active"
  /\ \E now \in Stamps :
       K[k] = [key[k] EXCEPT !.state = "retiring", !.retiring = now]

\* Key k starts to sign, by the schedule or early.
Starts(k, K, early) ==
  /\ key[k].state = "pending"
  /\ K[k] = [key[k] EXCEPT !.state = "active"]
  /\ k \in early \/ key[k].created + sched[key[k].alg].propagation <= clock

\* Key k is generated.
Generated(k, K, early) ==
  /\ key[k].state = "none"
  /\ \E a \in Algs, now \in Stamps, s \in {"pending", "active"} :
       /\ K[k] = [state |-> s, alg |-> a, created |-> now, retiring |-> 0]
       /\ s = "active" => k \in early

\* An operator takes key k out.
TakenOut(k, K, pulled) ==
  /\ k \in pulled
  /\ \/ /\ key[k].state \in {"pending", "retiring"}
        /\ K[k] = [key[k] EXCEPT !.state = "retired"]
     \/ /\ key[k].state \in {"pending", "retiring", "retired"}
        /\ K[k] = [key[k] EXCEPT !.state = "purged"]

Effect(k, K, early, pulled) ==
  \/ Same(k, K) \/ Expires(k, K) \/ Superseded(k, K) \/ Starts(k, K, early)
  \/ Generated(k, K, early) \/ TakenOut(k, K, pulled)

\* A step that writes the key table is a commit with these effects.
Written ==
  \E K \in [Kids -> Row], early \in SUBSET Kids, pulled \in SUBSET Kids :
    /\ Commit(K, early, pulled)
    /\ \A k \in Kids : Effect(k, K, early, pulled)

-----------------------------------------------------------------------------
(* The pass. *)

\* Retiring what is past the grace period does this to the table.
LEMMA RetireEffect ==
  ASSUME TypeOK, NEW a \in Algs, NEW now \in Stamps
  PROVE  LET K == RetireExpired(key, now, sched[a].grace) IN
         /\ K \in [Kids -> Row]
         /\ \A k \in Kids : Same(k, K) \/ Expires(k, K)
<1> DEFINE K == RetireExpired(key, now, sched[a].grace)
<1>1. /\ now \in Nat /\ now <= clock /\ clock \in Nat
      /\ sched[a] \in Schedule /\ sched[a].grace \in Nat
      /\ \A k \in Kids : key[k] \in Row
  BY DEF TypeOK, Stamps, Schedule
<1>2. ASSUME NEW k \in Kids
      PROVE  K[k] \in Row /\ (Same(k, K) \/ Expires(k, K))
  <2>1. CASE key[k].state = "retiring" /\ key[k].retiring + sched[a].grace <= now
    <3>1. K[k] = [key[k] EXCEPT !.state = "retired"]
      BY <2>1 DEF RetireExpired
    <3>2. key[k].retiring + sched[a].grace <= clock
      BY <1>1, <2>1 DEF Row
    <3> QED BY <1>1, <2>1, <3>1, <3>2 DEF Expires, Row, States
  <2>2. CASE ~(key[k].state = "retiring" /\ key[k].retiring + sched[a].grace <= now)
    <3>1. K[k] = key[k]
      BY <2>2 DEF RetireExpired
    <3> QED BY <1>1, <3>1 DEF Same
  <2> QED BY <2>1, <2>2
<1>3. K = [k \in Kids |-> K[k]]
  BY DEF RetireExpired
<1> QED BY <1>2, <1>3

\* In table L, key k took the place of the active key it had in table K.
Replaces(K, k, now, L) ==
  /\ L[k] = [K[k] EXCEPT !.state = "active"]
  /\ \A j \in Kids \ {k} :
       L[j] = IF K[j].alg = K[k].alg /\ K[j].state = "active"
              THEN [K[j] EXCEPT !.state = "retiring", !.retiring = now]
              ELSE K[j]

\* Promoting key k of table K does this to the table.
LEMMA PromoteEffect ==
  ASSUME NEW K \in [Kids -> Row], NEW k \in Kids, NEW now \in Nat,
         NEW L, L = Promote(K, k, now), K[k].state = "pending"
  PROVE  L \in [Kids -> Row] /\ Replaces(K, k, now, L)
<1> DEFINE D == Demote(K, K[k].alg, now)
<1>1. /\ D \in [Kids -> Row] /\ D[k] = K[k]
      /\ \A j \in Kids : D[j] = IF K[j].alg = K[k].alg /\ K[j].state = "active"
                     THEN [K[j] EXCEPT !.state = "retiring", !.retiring = now]
                     ELSE K[j]
  <2>1. ASSUME NEW j \in Kids
        PROVE  D[j] \in Row /\ D[j] = IF K[j].alg = K[k].alg /\ K[j].state = "active"
                     THEN [K[j] EXCEPT !.state = "retiring", !.retiring = now]
                     ELSE K[j]
    BY DEF Demote, Row, States
  <2>2. D = [j \in Kids |-> D[j]]
    BY DEF Demote
  <2> QED BY <2>1, <2>2
<1>2. L = [D EXCEPT ![k].state = "active"]
  BY DEF Promote
<1>3. L[k] = [K[k] EXCEPT !.state = "active"] /\ L[k] \in Row
  BY ZenonT(60), <1>1, <1>2 DEF Row, States
<1>4. \A j \in Kids \ {k} : L[j] = D[j]
  BY <1>1, <1>2
<1>5. L \in [Kids -> Row]
  BY <1>1, <1>2, <1>3, <1>4
<1> QED BY <1>1, <1>3, <1>4, <1>5 DEF Replaces

\* The pass up to its staging does this to the table.
LEMMA PromotionsEffect ==
  ASSUME TypeOK, NEW a \in Algs, NEW now \in Stamps,
         NEW K \in Promotions(RetireExpired(key, now, sched[a].grace), a, now)
  PROVE  /\ K \in [Kids -> Row]
         /\ \A k \in Kids : \/ Same(k, K) \/ Expires(k, K)
                            \/ Superseded(k, K) \/ Starts(k, K, {})
<1> DEFINE R == RetireExpired(key, now, sched[a].grace)
<1>1. /\ R \in [Kids -> Row]
      /\ \A k \in Kids : Same(k, R) \/ Expires(k, R)
  BY RetireEffect
<1>2. /\ now \in Nat /\ now <= clock /\ clock \in Nat
      /\ sched[a].propagation \in Nat
      /\ key \in [Kids -> Row]
  BY DEF TypeOK, Stamps, Schedule
<1>3. \A k \in Kids : R[k].state \in {"pending", "active"} => R[k] = key[k]
  <2> SUFFICES ASSUME NEW k \in Kids, R[k].state \in {"pending", "active"}
               PROVE  R[k] = key[k]
    OBVIOUS
  <2>1. CASE Same(k, R)
    BY <2>1 DEF Same
  <2>2. CASE Expires(k, R)
    <3>1. R[k].state = "retired"
      BY <1>2, <2>2 DEF Expires, Row
    <3> QED BY <3>1
  <2> QED BY <1>1, <2>1, <2>2
<1>4. CASE K = R
  BY <1>1, <1>4 DEF Same, Expires
<1>5. CASE \E k \in Ready(R, a, now) : K = Promote(R, k, now)
  <2>1. PICK k \in Ready(R, a, now) : K = Promote(R, k, now)
    BY <1>5
  <2>2. /\ k \in Kids /\ R[k].state = "pending" /\ R[k].alg = a
        /\ R[k].created + sched[a].propagation <= now
    BY <2>1 DEF Ready, In
  <2>3. /\ K \in [Kids -> Row]
        /\ Replaces(R, k, now, K)
    <3> HIDE DEF R
    <3> QED BY <1>1, <1>2, <2>1, <2>2, PromoteEffect
  <2>4. Starts(k, K, {})
    <3>1. key[k].created + sched[key[k].alg].propagation <= clock
      BY <1>2, <1>3, <2>2 DEF Row
    <3> QED BY <1>3, <2>2, <2>3, <3>1 DEF Starts, Replaces
  <2>5. ASSUME NEW j \in Kids \ {k}
        PROVE  Same(j, K) \/ Expires(j, K) \/ Superseded(j, K)
    <3>1. CASE R[j].alg = R[k].alg /\ R[j].state = "active"
      BY <1>3, <2>3, <3>1 DEF Superseded, Replaces
    <3>2. CASE ~(R[j].alg = R[k].alg /\ R[j].state = "active")
      BY <1>1, <2>3, <3>2 DEF Same, Expires, Replaces
    <3> QED BY <3>1, <3>2
  <2> QED BY <2>3, <2>4, <2>5
<1> QED BY <1>4, <1>5 DEF Promotions

\* A pass is a commit that does to each key one thing it may do.
LEMMA PassEffect ==
  ASSUME TypeOK, NEW a \in Algs, NEW now \in Stamps,
         NEW forced \in BOOLEAN, NEW immediate \in BOOLEAN,
         Pass(a, now, forced, immediate)
  PROVE  Written
<1>1. PICK K \in Promotions(RetireExpired(key, now, sched[a].grace), a, now) :
        \/ \E k \in Stageable(K, a) :
             Commit(Stage(K, a, k, now),
                    IF K[k].state = "none" /\ First(K, a) THEN {k} ELSE {}, {})
        \/ Commit(K, {}, {})
  BY DEF Pass
<1>2. /\ K \in [Kids -> Row]
      /\ \A k \in Kids : \/ Same(k, K) \/ Expires(k, K)
                         \/ Superseded(k, K) \/ Starts(k, K, {})
  BY PromotionsEffect
<1>3. now \in Nat /\ key \in [Kids -> Row]
  BY DEF Stamps, TypeOK
<1>4. CASE Commit(K, {}, {})
  BY <1>2, <1>4 DEF Written, Effect
<1>5. CASE \E k \in Stageable(K, a) :
             Commit(Stage(K, a, k, now),
                    IF K[k].state = "none" /\ First(K, a) THEN {k} ELSE {}, {})
  <2>1. PICK k \in Stageable(K, a) :
             Commit(Stage(K, a, k, now),
                    IF K[k].state = "none" /\ First(K, a) THEN {k} ELSE {}, {})
    BY <1>5
  <2> DEFINE L == Stage(K, a, k, now)
  <2> DEFINE early == IF K[k].state = "none" /\ First(K, a) THEN {k} ELSE {}
  <2>2. k \in Kids /\ K[k].state \in {"pending", "none"}
    BY DEF Stageable, In
  <2>3. CASE K[k].state = "pending"
    <3>1. L = K /\ early = {}
      BY <2>3 DEF Stage
    <3> QED BY <1>2, <2>1, <3>1 DEF Written, Effect
  <2>4. CASE K[k].state = "none"
    <3> DEFINE s == IF First(K, a) THEN "active" ELSE "pending"
    <3>1. L = [K EXCEPT ![k] = [state |-> s, alg |-> a, created |-> now,
                                retiring |-> 0]]
      BY <2>4 DEF Stage
    <3>2. L \in [Kids -> Row]
      BY <1>2, <1>3, <2>2, <3>1 DEF Row, States
    <3>3. key[k].state = "none"
      <4>1. CASE Same(k, K)
        BY <2>4, <4>1 DEF Same
      <4>2. ~Expires(k, K) /\ ~Superseded(k, K) /\ ~Starts(k, K, {})
        BY <1>3, <2>2, <2>4 DEF Expires, Superseded, Starts, Row
      <4> QED BY <1>2, <2>2, <4>1, <4>2
    <3>4. Generated(k, L, early)
      <4>1. L[k] = [state |-> s, alg |-> a, created |-> now, retiring |-> 0]
        BY <1>2, <2>2, <3>1
      <4>2. s \in {"pending", "active"} /\ (s = "active" => k \in early)
        BY <2>4
      <4> HIDE DEF L, s, early
      <4> QED BY <3>3, <4>1, <4>2 DEF Generated
    <3>5. ASSUME NEW j \in Kids \ {k}
          PROVE  Effect(j, L, early, {})
      <4>1. L[j] = K[j]
        BY <1>2, <2>2, <3>1
      <4> HIDE DEF L, early
      <4> QED BY <1>2, <4>1 DEF Effect, Same, Expires, Superseded, Starts
    <3>6. early \in SUBSET Kids
      BY <2>2
    <3> HIDE DEF L, early
    <3>7. \A j \in Kids : Effect(j, L, early, {})
      BY <3>4, <3>5 DEF Effect
    <3>8. Commit(L, early, {})
      BY <2>1 DEF L, early
    <3> QED BY <3>2, <3>6, <3>7, <3>8 DEF Written
  <2> QED BY <2>2, <2>3, <2>4
<1> QED BY <1>1, <1>4, <1>5

-----------------------------------------------------------------------------
(* The steps of the system. *)

\* A step commits a transaction over the keys, signs, or leaves the keys and
\* their history alone.
LEMMA KeyStep ==
  ASSUME TypeOK, [Next]_vars
  PROVE  \/ Written
         \/ UNCHANGED <<key, past>>
         \/ \E r \in Requests : Sign(r)
<1>1. key \in [Kids -> Row]
  BY DEF TypeOK
<1>2. ASSUME NEW a \in Algs, ApplySchedule(a) \/ Rotate(a) \/ RotateNow(a)
      PROVE  Written
  <2>1. PICK now \in Stamps : \/ Pass(a, now, FALSE, FALSE)
                              \/ Pass(a, now, TRUE, FALSE)
                              \/ Pass(a, now, TRUE, TRUE)
    BY <1>2 DEF ApplySchedule, Rotate, RotateNow
  <2> QED BY <2>1, PassEffect
<1>3. ASSUME NEW op \in ops, Activate(op)
      PROVE  Written \/ UNCHANGED <<key, past>>
  <2>1. op.kid \in Kids /\ op.now \in Nat /\ op.now \in Stamps
    BY <1>3 DEF TypeOK, Op, Activate
  <2>2. CASE key[op.kid].state = "pending"
    <3> DEFINE L == Promote(key, op.kid, op.now)
    <3>1. Commit(L, {op.kid}, {})
      BY <1>3, <2>2 DEF Activate
    <3>2. /\ L \in [Kids -> Row]
          /\ Replaces(key, op.kid, op.now, L)
      BY <1>1, <2>1, <2>2, PromoteEffect
    <3> HIDE DEF L
    <3>3. ASSUME NEW j \in Kids
          PROVE  Effect(j, L, {op.kid}, {})
      <4>1. CASE j = op.kid
        BY <2>2, <3>2, <4>1 DEF Effect, Starts, Replaces
      <4>2. CASE j # op.kid
        BY <2>1, <3>2, <4>2 DEF Effect, Superseded, Same, Replaces
      <4> QED BY <4>1, <4>2
    <3> QED BY <2>1, <3>1, <3>2, <3>3 DEF Written
  <2>3. CASE key[op.kid].state # "pending"
    BY <1>3, <2>3 DEF Activate
  <2> QED BY <2>2, <2>3
<1>4. ASSUME NEW k \in Kids, Retire(k)
      PROVE  Written
  <2> DEFINE L == [key EXCEPT ![k].state = "retired"]
  <2>1. L \in [Kids -> Row] /\ \A j \in Kids : Effect(j, L, {}, {k})
    BY <1>1, <1>4 DEF Retire, Row, States, Effect, TakenOut, Same
  <2> QED BY <1>4, <2>1 DEF Retire, Written
<1>5. ASSUME NEW k \in Kids, Purge(k)
      PROVE  Written
  <2> DEFINE L == [key EXCEPT ![k].state = "purged"]
  <2>1. L \in [Kids -> Row] /\ \A j \in Kids : Effect(j, L, {}, {k})
    BY <1>1, <1>5 DEF Purge, Row, States, Effect, TakenOut, Same
  <2> QED BY <1>5, <2>1 DEF Purge, Written
<1>6. CASE Lifecycle
  BY <1>2, <1>3, <1>4, <1>5, <1>6 DEF Lifecycle, SetSchedule, AbandonRotation
<1>7. CASE Serve
  BY <1>7 DEF Serve, Resolve, Load, Store, Lease, Fence, Finish
<1>8. CASE Tick
  BY <1>8 DEF Tick
<1>9. CASE UNCHANGED vars
  BY <1>9 DEF vars
<1> QED BY <1>6, <1>7, <1>8, <1>9 DEF Next

\* What a commit leaves in the tables, and what it waits for.
LEMMA WrittenRows ==
  ASSUME TypeOK, Written
  PROVE  /\ key' \in [Kids -> Row] /\ past' \in [Kids -> Past]
         /\ UNCHANGED <<clock, cache, req>>
         /\ \A r \in Requests :
              Holds(r) => key'[req[r].got.kid] = key[req[r].got.kid]
         /\ \E early \in SUBSET Kids, pulled \in SUBSET Kids :
              \A k \in Kids :
                /\ Effect(k, key', early, pulled)
                /\ past'[k].signed = past[k].signed
                /\ past'[k].announced =
                     IF key[k].state = "none" /\ key'[k].state # "none"
                     THEN clock ELSE past[k].announced
                /\ past'[k].early <=> past[k].early \/ k \in early
                /\ past'[k].pulled <=> past[k].pulled \/ k \in pulled
<1>1. PICK K \in [Kids -> Row], early \in SUBSET Kids, pulled \in SUBSET Kids :
        /\ Commit(K, early, pulled)
        /\ \A k \in Kids : Effect(k, K, early, pulled)
  BY DEF Written
<1>2. key' = K /\ UNCHANGED <<clock, cache, req>>
  BY <1>1 DEF Commit
<1>3. past \in [Kids -> Past] /\ clock \in Nat
  BY DEF TypeOK
<1>4. ASSUME NEW k \in Kids
      PROVE  /\ past'[k] \in Past
             /\ past'[k].signed = past[k].signed
             /\ past'[k].announced =
                  IF key[k].state = "none" /\ K[k].state # "none"
                  THEN clock ELSE past[k].announced
             /\ past'[k].early <=> past[k].early \/ k \in early
             /\ past'[k].pulled <=> past[k].pulled \/ k \in pulled
  <2>1. past'[k] = [past[k] EXCEPT
          !.announced = IF key[k].state = "none" /\ K[k].state # "none"
                        THEN clock ELSE @,
          !.early = @ \/ k \in early,
          !.pulled = @ \/ k \in pulled]
    BY <1>1, Zenon DEF Commit
  <2>2. past[k] \in Past
    BY <1>3
  <2> QED BY <1>3, <2>1, <2>2 DEF Past
<1>5. past' \in [Kids -> Past]
  <2>1. past' = [k \in Kids |-> past'[k]]
    BY <1>1, Zenon DEF Commit
  <2> QED BY <1>4, <2>1
<1>6. \A r \in Requests :
        Holds(r) => K[req[r].got.kid] = key[req[r].got.kid]
  BY <1>1 DEF Commit
<1>7. \A k \in Kids :
        /\ Effect(k, key', early, pulled)
        /\ past'[k].signed = past[k].signed
        /\ past'[k].announced =
             IF key[k].state = "none" /\ key'[k].state # "none"
             THEN clock ELSE past[k].announced
        /\ past'[k].early <=> past[k].early \/ k \in early
        /\ past'[k].pulled <=> past[k].pulled \/ k \in pulled
  <2> SUFFICES ASSUME NEW k \in Kids
               PROVE  /\ Effect(k, key', early, pulled)
                      /\ past'[k].signed = past[k].signed
                      /\ past'[k].announced =
                           IF key[k].state = "none" /\ key'[k].state # "none"
                           THEN clock ELSE past[k].announced
                      /\ past'[k].early <=> past[k].early \/ k \in early
                      /\ past'[k].pulled <=> past[k].pulled \/ k \in pulled
    OBVIOUS
  <2>1. Effect(k, key', early, pulled)
    BY <1>1, <1>2
  <2> QED BY <1>2, <1>4, <2>1
<1>8. \A r \in Requests :
        Holds(r) => key'[req[r].got.kid] = key[req[r].got.kid]
  BY <1>2, <1>6
<1>9. key' \in [Kids -> Row]
  BY <1>1, <1>2
<1> QED BY <1>2, <1>5, <1>7, <1>8, <1>9

\* A lifecycle call touches neither the clock nor the signers.
LEMMA LifecycleKeeps == Lifecycle => UNCHANGED <<clock, cache, req>>
<1>1. ASSUME NEW a \in Algs, NEW now, NEW forced, NEW immediate,
             Pass(a, now, forced, immediate)
      PROVE  UNCHANGED <<clock, cache, req>>
  BY <1>1 DEF Pass, Commit
<1>2. ASSUME NEW a \in Algs, ApplySchedule(a) \/ Rotate(a) \/ RotateNow(a)
      PROVE  UNCHANGED <<clock, cache, req>>
  BY <1>1, <1>2 DEF ApplySchedule, Rotate, RotateNow
<1>3. ASSUME NEW op \in ops, Activate(op) \/ AbandonRotation(op)
      PROVE  UNCHANGED <<clock, cache, req>>
  BY <1>3 DEF Activate, AbandonRotation, Commit
<1>4. ASSUME NEW k \in Kids, Retire(k) \/ Purge(k)
      PROVE  UNCHANGED <<clock, cache, req>>
  BY <1>4 DEF Retire, Purge, Commit
<1> QED BY <1>2, <1>3, <1>4 DEF Lifecycle, SetSchedule

\* What a request gets from a step of its own is an entry.
LEMMA StepType ==
  ASSUME TypeOK, NEW r \in Requests, NEW got \in Entry, NEW from,
         NEW to \in {"idle", "load", "read", "held", "leased", "fenced", "done"},
         Step(r, from, to, got)
  PROVE  req' \in [Requests -> Req]
BY DEF TypeOK, Step, Req

\* The serving of a request keeps the types.
LEMMA ServeType ==
  ASSUME TypeOK, NEW r \in Requests,
         \/ Resolve(r) \/ Load(r) \/ Store(r) \/ Lease(r)
         \/ Fence(r) \/ Finish(r)
  PROVE  req' \in [Requests -> Req] /\ cache' \subseteq Entry
<1>1. /\ req[r] \in Req /\ req[r].got \in Entry
      /\ cache \subseteq Entry /\ clock \in Nat
  BY DEF TypeOK, Req
<1>2. CASE Resolve(r)
  <2>1. cache' = cache
    BY <1>2 DEF Resolve
  <2>2. CASE \E e \in Fresh(r) : Step(r, "idle", "held", e)
    <3>1. PICK e \in Fresh(r) : Step(r, "idle", "held", e)
      BY <2>2
    <3>2. e \in Entry
      BY <1>1 DEF Fresh
    <3> QED BY <1>1, <2>1, <3>1, <3>2, StepType
  <2>3. CASE \E a \in Algs : Step(r, "idle", "idle", [req[r].got EXCEPT !.alg = a])
    <3>1. PICK a \in Algs : Step(r, "idle", "idle", [req[r].got EXCEPT !.alg = a])
      BY <2>3
    <3>2. [req[r].got EXCEPT !.alg = a] \in Entry
      BY <1>1 DEF Entry
    <3> QED BY <1>1, <2>1, <3>1, <3>2, StepType
  <2>4. CASE Step(r, "idle", "load", [req[r].got EXCEPT !.loaded = clock])
    <3>2. [req[r].got EXCEPT !.loaded = clock] \in Entry
      BY <1>1 DEF Entry
    <3> QED BY <1>1, <2>1, <2>4, <3>2, StepType
  <2> QED BY <1>2, <2>2, <2>3, <2>4 DEF Resolve
<1>3. CASE Load(r)
  <2>1. PICK k \in Kids \cup {NoKey} :
               Step(r, "load", "read", [req[r].got EXCEPT !.kid = k])
    BY <1>3 DEF Load, In
  <2>2. [req[r].got EXCEPT !.kid = k] \in Entry
    BY <1>1 DEF Entry
  <2> QED BY <1>1, <1>3, <2>1, <2>2, StepType DEF Load
<1>4. CASE Store(r)
  <2>1. cache' \subseteq Entry
    BY <1>1, <1>4 DEF Store
  <2>2. CASE Step(r, "read", "held", req[r].got)
    BY <1>1, <2>1, <2>2, StepType
  <2>3. CASE \E a \in Algs : Step(r, "read", "idle",
                                  [req[r].got EXCEPT !.alg = a, !.loaded = 0])
    <3>1. PICK a \in Algs : Step(r, "read", "idle",
                                 [req[r].got EXCEPT !.alg = a, !.loaded = 0])
      BY <2>3
    <3>2. [req[r].got EXCEPT !.alg = a, !.loaded = 0] \in Entry
      BY <1>1 DEF Entry
    <3> QED BY <2>1, <3>1, <3>2, StepType
  <2> QED BY <1>4, <2>2, <2>3 DEF Store
<1>5. CASE Lease(r)
  BY <1>1, <1>5, StepType DEF Lease
<1>6. CASE Fence(r)
  BY <1>1, <1>6, StepType DEF Fence
<1>7. CASE Finish(r)
  <2>1. [req[r].got EXCEPT !.kid = NoKey, !.loaded = 0] \in Entry
    BY <1>1 DEF Entry
  <2> QED BY <1>1, <1>7, <2>1, StepType DEF Finish
<1> QED BY <1>2, <1>3, <1>4, <1>5, <1>6, <1>7

\* The tables and the requests keep their types.
LEMMA TypeKept ==
  ASSUME TypeOK, [Next]_vars
  PROVE  TypeOK'
<1> DEFINE Stamped(K) ==
      \A k \in Kids : /\ K[k].state = "retiring" => K[k].retiring # 0
                      /\ K[k].state \in {"none", "pending", "active"} =>
                           K[k].retiring = 0
<1>1. clock' \in Nat
  <2>1. CASE Tick
    BY <2>1 DEF TypeOK, Tick
  <2>2. CASE UNCHANGED clock
    BY <2>2 DEF TypeOK
  <2>3. Serve => UNCHANGED clock
    BY DEF Serve, Resolve, Load, Store, Lease, Fence, Sign, Finish
  <2> QED BY <2>1, <2>2, <2>3, LifecycleKeeps DEF Next, vars
<1>2. key' \in [Kids -> Row] /\ past' \in [Kids -> Past] /\ Stamped(key')
  <2>1. CASE Written
    <3>1. key' \in [Kids -> Row] /\ past' \in [Kids -> Past]
      BY <2>1, WrittenRows
    <3>2. PICK early \in SUBSET Kids, pulled \in SUBSET Kids :
            \A k \in Kids : Effect(k, key', early, pulled)
      BY <2>1, WrittenRows
    <3>3. ASSUME NEW k \in Kids
          PROVE  /\ key'[k].state = "retiring" => key'[k].retiring # 0
                 /\ key'[k].state \in {"none", "pending", "active"} =>
                      key'[k].retiring = 0
      <4>1. key[k] \in Row /\ Stamped(key)
        BY DEF TypeOK
      <4>2. CASE Same(k, key')
        BY <4>1, <4>2 DEF Same
      <4>3. CASE Expires(k, key')
        BY <4>1, <4>3 DEF Expires, Row
      <4>4. CASE Superseded(k, key')
        BY <4>1, <4>4 DEF Superseded, Row, Stamps
      <4>5. CASE Starts(k, key', early)
        BY <4>1, <4>5 DEF Starts, Row
      <4>6. CASE Generated(k, key', early)
        BY <4>1, <4>6 DEF Generated
      <4>7. CASE TakenOut(k, key', pulled)
        BY <4>1, <4>7 DEF TakenOut, Row
      <4> QED BY <3>2, <4>2, <4>3, <4>4, <4>5, <4>6, <4>7 DEF Effect
    <3> QED BY <3>1, <3>3
  <2>2. CASE UNCHANGED <<key, past>>
    BY <2>2 DEF TypeOK
  <2>3. ASSUME NEW r \in Requests, Sign(r)
        PROVE  key' \in [Kids -> Row] /\ past' \in [Kids -> Past] /\ Stamped(key')
    BY <2>3 DEF TypeOK, Sign, Past
  <2> QED BY <2>1, <2>2, <2>3, KeyStep
<1>3. sched' \in [Algs -> Schedule]
  <2>1. ASSUME NEW a \in Algs, NEW policy \in Schedules, SetSchedule(a, policy)
        PROVE  sched' \in [Algs -> Schedule]
    <3>1. policy \in Policy /\ sched[a] \in Schedule /\ sched \in [Algs -> Schedule]
      BY PeriodsAssumption DEF TypeOK
    <3>2. WithLast(policy, sched[a].last) \in Schedule
      BY <3>1 DEF Policy, Schedule, WithLast
    <3> QED BY <2>1, <3>1, <3>2 DEF SetSchedule
  <2>2. ASSUME NEW a \in Algs, NEW now \in Stamps,
               sched' = [sched EXCEPT ![a].last = now]
        PROVE  sched' \in [Algs -> Schedule]
    BY <2>2 DEF TypeOK, Schedule, Stamps
  <2>3. ASSUME NEW a \in Algs, ApplySchedule(a) \/ Rotate(a) \/ RotateNow(a)
        PROVE  sched' \in [Algs -> Schedule]
    BY <2>2, <2>3 DEF ApplySchedule, Rotate, RotateNow, Pass, TypeOK
  <2>4. CASE UNCHANGED sched
    BY <2>4 DEF TypeOK
  <2> QED BY <2>1, <2>3, <2>4 DEF Next, Tick, Lifecycle, Serve, Activate,
             AbandonRotation, Retire, Purge, Resolve, Load, Store, Lease,
             Fence, Sign, Finish, vars
<1>4. ops' \subseteq Op
  <2>1. ASSUME NEW a \in Algs, ApplySchedule(a) \/ Rotate(a) \/ RotateNow(a)
        PROVE  ops' \subseteq Op
    <3>1. PICK now \in Stamps, forced \in BOOLEAN, immediate \in BOOLEAN :
            Pass(a, now, forced, immediate)
      BY <2>1 DEF ApplySchedule, Rotate, RotateNow
    <3>2. ops' = ops \/ \E k \in Kids : ops' = ops \cup {[kid |-> k, now |-> now]}
      BY <3>1 DEF Pass, Stageable, In
    <3> QED BY <3>2 DEF TypeOK, Op, Stamps
  <2>2. CASE ops' \subseteq ops
    BY <2>2 DEF TypeOK
  <2> QED BY <2>1, <2>2 DEF Next, Tick, Lifecycle, Serve, Activate,
             AbandonRotation, Retire, Purge, SetSchedule, Resolve, Load, Store,
             Lease, Fence, Sign, Finish, vars
<1>5. req' \in [Requests -> Req] /\ cache' \subseteq Entry
  <2>2. CASE UNCHANGED <<cache, req>>
    BY <2>2 DEF TypeOK
  <2>4. CASE Serve
    BY <2>4, <2>2, ServeType DEF Serve, Sign
  <2> QED BY <2>2, <2>4, LifecycleKeeps DEF Next, Tick, vars
<1> QED BY <1>1, <1>2, <1>3, <1>4, <1>5 DEF TypeOK

\* The initial tables have their types.
LEMMA TypeInit == Init => TypeOK
<1> SUFFICES ASSUME Init PROVE TypeOK
  OBVIOUS
<1>1. WithLast(DefaultSchedule, 0) \in Schedule
  BY PeriodsAssumption DEF WithLast, Schedule, Policy
<1>2. sched \in [Algs -> Schedule]
  BY <1>1 DEF Init
<1>3. req \in [Requests -> Req]
  BY DEF Init, Req, Entry
<1>4. /\ key \in [Kids -> Row]
      /\ \A k \in Kids : key[k].state = "none" /\ key[k].retiring = 0
  BY DEF Init, Row, States
<1>5. past \in [Kids -> Past]
  BY DEF Init, Past
<1> QED BY <1>2, <1>3, <1>4, <1>5 DEF Init, TypeOK

\* TypeOK holds of every behaviour: the tables, caches and requests keep
\* their types, and the stamps of a key follow its state.
THEOREM TypeCorrect == Spec => []TypeOK
<1>1. TypeOK /\ [Next]_vars => TypeOK'
  BY TypeKept
<1> QED BY <1>1, TypeInit, PTL DEF Spec

-----------------------------------------------------------------------------
(* What caches and requests know of the keys. *)

\* Key k was active at some instant not before t: it is active, or it was
\* superseded at t or later, up to the lag of the call that did it.
Used(k, t) ==
  /\ key[k].state \in {"active", "retiring", "retired", "purged"}
  /\ key[k].state # "active" => t <= key[k].retiring + MaxLag

\* Every entry of a cache, and every answer a request works with, names a key
\* that was active when the entry's age began or later.
Known ==
  /\ \A e \in cache : /\ e.loaded <= clock
                      /\ e.kid # NoKey => Used(e.kid, e.loaded)
  /\ \A r \in Requests :
       /\ req[r].got.loaded <= clock
       /\ req[r].pc \in {"held", "leased", "fenced"} => req[r].got.kid # NoKey
       /\ /\ req[r].pc \in {"read", "held", "leased", "fenced"}
          /\ req[r].got.kid # NoKey
          => Used(req[r].got.kid, req[r].got.loaded)

\* The clock does not go back.
LEMMA ClockStep ==
  ASSUME TypeOK, [Next]_vars
  PROVE  clock' \in Nat /\ clock <= clock'
<1>1. Serve => UNCHANGED clock
  BY DEF Serve, Resolve, Load, Store, Lease, Fence, Sign, Finish
<1>2. clock \in Nat
  BY DEF TypeOK
<1> QED BY <1>1, <1>2, LifecycleKeeps DEF Next, Tick, vars

\* What was true of a key's use stays true.
LEMMA UsedKept ==
  ASSUME TypeOK, [Next]_vars, NEW k \in Kids, NEW t \in Nat, t <= clock,
         Used(k, t)
  PROVE  Used(k, t)'
<1>1. CASE Written
  <2>1. PICK early \in SUBSET Kids, pulled \in SUBSET Kids :
          Effect(k, key', early, pulled)
    BY <1>1, WrittenRows
  <2>2. key[k] \in Row /\ clock \in Nat /\ MaxLag \in Nat
    BY PeriodsAssumption DEF TypeOK
  <2>3. CASE Same(k, key')
    BY <2>3 DEF Same, Used
  <2>4. CASE Expires(k, key')
    BY <2>2, <2>4 DEF Expires, Used, Row
  <2>5. CASE Superseded(k, key')
    BY <2>2, <2>5 DEF Superseded, Used, Row, Stamps
  <2>6. CASE Starts(k, key', early)
    BY <2>2, <2>6 DEF Starts, Used, Row
  <2>7. CASE Generated(k, key', early)
    BY <2>2, <2>7 DEF Generated, Used, Row
  <2>8. CASE TakenOut(k, key', pulled)
    BY <2>2, <2>8 DEF TakenOut, Used, Row
  <2> QED BY <2>1, <2>3, <2>4, <2>5, <2>6, <2>7, <2>8 DEF Effect
<1>2. CASE UNCHANGED <<key, past>>
  BY <1>2 DEF Used
<1>3. ASSUME NEW r \in Requests, Sign(r)
      PROVE  Used(k, t)'
  BY <1>3 DEF Sign, Used
<1> QED BY <1>1, <1>2, <1>3, KeyStep

\* The state of one request after a step: its own step, or as before.
LEMMA RequestStep ==
  ASSUME TypeOK, [Next]_vars, NEW r \in Requests
  PROVE  \/ req'[r] = req[r]
         \/ /\ req'[r].got \in cache
            /\ req[r].pc = "idle" /\ req'[r].pc = "held"
            /\ req'[r].got.kid # NoKey
         \/ /\ req'[r].pc \in {"idle", "load", "done"}
            /\ req'[r].got.loaded \in {req[r].got.loaded, clock, 0}
         \/ /\ req[r].pc = "load" /\ req'[r].pc = "read"
            /\ req'[r].got.loaded = req[r].got.loaded
            /\ \/ req'[r].got.kid = NoKey
               \/ /\ req'[r].got.kid \in Kids
                  /\ key'[req'[r].got.kid].state = "active"
         \/ /\ req'[r].got = req[r].got
            /\ \/ /\ req[r].pc = "read" /\ req[r].got.kid # NoKey
                  /\ req'[r].pc = "held"
               \/ req[r].pc = "held" /\ req'[r].pc = "leased"
               \/ /\ req[r].pc = "leased" /\ req'[r].pc = "fenced"
                  /\ key'[req[r].got.kid].state \in Signing
<1> DEFINE Goal ==
         \/ req'[r] = req[r]
         \/ /\ req'[r].got \in cache
            /\ req[r].pc = "idle" /\ req'[r].pc = "held"
            /\ req'[r].got.kid # NoKey
         \/ /\ req'[r].pc \in {"idle", "load", "done"}
            /\ req'[r].got.loaded \in {req[r].got.loaded, clock, 0}
         \/ /\ req[r].pc = "load" /\ req'[r].pc = "read"
            /\ req'[r].got.loaded = req[r].got.loaded
            /\ \/ req'[r].got.kid = NoKey
               \/ /\ req'[r].got.kid \in Kids
                  /\ key'[req'[r].got.kid].state = "active"
         \/ /\ req'[r].got = req[r].got
            /\ \/ /\ req[r].pc = "read" /\ req[r].got.kid # NoKey
                  /\ req'[r].pc = "held"
               \/ req[r].pc = "held" /\ req'[r].pc = "leased"
               \/ /\ req[r].pc = "leased" /\ req'[r].pc = "fenced"
                  /\ key'[req[r].got.kid].state \in Signing
<1>1. /\ req \in [Requests -> Req] /\ clock \in Nat
      /\ \A q \in Requests : req[q].got \in Entry
  BY DEF TypeOK, Req
<1>2. ASSUME NEW q \in Requests, NEW from, NEW to, NEW got, Step(q, from, to, got)
      PROVE  IF q = r THEN req[r].pc = from /\ req'[r].pc = to /\ req'[r].got = got
                      ELSE req'[r] = req[r]
  BY <1>1, <1>2 DEF Step
<1>3. ASSUME req' = req
      PROVE  Goal
  BY <1>3
<1>4. ASSUME NEW q \in Requests, Resolve(q)
      PROVE  Goal
  <2>1. CASE \E e \in Fresh(q) : e.kid # NoKey /\ Step(q, "idle", "held", e)
    BY <1>2, <2>1 DEF Fresh
  <2>2. CASE \E a \in Algs : Step(q, "idle", "idle", [req[q].got EXCEPT !.alg = a])
    <3>1. PICK a \in Algs : Step(q, "idle", "idle", [req[q].got EXCEPT !.alg = a])
      BY <2>2
    <3> QED BY <1>1, <1>2, <3>1 DEF Entry
  <2>3. CASE Step(q, "idle", "load", [req[q].got EXCEPT !.loaded = clock])
    BY <1>1, <1>2, <2>3 DEF Entry
  <2> QED BY <1>4, <2>1, <2>2, <2>3 DEF Resolve
<1>5. ASSUME NEW q \in Requests, Load(q)
      PROVE  Goal
  <2>1. PICK k \in Kids \cup {NoKey} :
          /\ Step(q, "load", "read", [req[q].got EXCEPT !.kid = k])
          /\ k # NoKey => key[k].state = "active"
    BY <1>5 DEF Load, In
  <2>2. key' = key
    BY <1>5 DEF Load
  <2> QED BY <1>1, <1>2, <2>1, <2>2 DEF Entry
<1>6. ASSUME NEW q \in Requests, Store(q)
      PROVE  Goal
  <2>1. CASE req[q].got.kid # NoKey /\ Step(q, "read", "held", req[q].got)
    BY <1>2, <2>1
  <2>2. CASE \E a \in Algs : Step(q, "read", "idle",
                                  [req[q].got EXCEPT !.alg = a, !.loaded = 0])
    <3>1. PICK a \in Algs : Step(q, "read", "idle",
                                 [req[q].got EXCEPT !.alg = a, !.loaded = 0])
      BY <2>2
    <3>2. [req[q].got EXCEPT !.alg = a, !.loaded = 0].loaded = 0
      BY <1>1 DEF Entry
    <3> QED BY ZenonT(60), <1>2, <3>1, <3>2
  <2> QED BY <1>6, <2>1, <2>2 DEF Store
<1>7. ASSUME NEW q \in Requests, Lease(q)
      PROVE  Goal
  BY <1>2, <1>7 DEF Lease
<1>8. ASSUME NEW q \in Requests, Fence(q)
      PROVE  Goal
  BY <1>2, <1>8 DEF Fence
<1>9. ASSUME NEW q \in Requests, Finish(q)
      PROVE  Goal
  <2>1. Step(q, req[q].pc, "done", [req[q].got EXCEPT !.kid = NoKey, !.loaded = 0])
    BY <1>9 DEF Finish
  <2>2. [req[q].got EXCEPT !.kid = NoKey, !.loaded = 0].loaded = 0
    BY <1>1 DEF Entry
  <2> QED BY ZenonT(60), <1>2, <2>1, <2>2
<1> HIDE DEF Goal
<1>10. Goal
  <2>1. CASE req' = req
    BY <1>3, <2>1
  <2>2. Lifecycle => req' = req
    BY LifecycleKeeps
  <2>3. ASSUME NEW q \in Requests, Sign(q)
        PROVE  req' = req
    BY <2>3 DEF Sign
  <2>4. CASE Serve
    BY <2>1, <2>3, <2>4, <1>4, <1>5, <1>6, <1>7, <1>8, <1>9 DEF Serve
  <2> QED BY <2>1, <2>2, <2>4 DEF Next, Tick, vars
<1> QED BY <1>10 DEF Goal

\* An entry of a cache is an old one, or the answer a request read.
LEMMA CacheStep ==
  ASSUME TypeOK, [Next]_vars, NEW e \in cache'
  PROVE  e \in cache \/ \E q \in Requests : req[q].pc = "read" /\ e = req[q].got
<1>1. ASSUME NEW q \in Requests, Store(q)
      PROVE  e \in cache \/ (req[q].pc = "read" /\ e = req[q].got)
  BY <1>1 DEF Store, Step
<1>2. CASE cache' = cache
  BY <1>2
<1>3. CASE Serve
  BY <1>1, <1>2, <1>3 DEF Serve, Resolve, Load, Lease, Fence, Sign, Finish
<1> QED BY <1>2, <1>3, LifecycleKeeps DEF Next, Tick, vars

\* Caches and requests keep naming keys that were in use.
LEMMA KnownKept ==
  ASSUME TypeOK, Known, [Next]_vars
  PROVE  Known'
<1>1. /\ clock \in Nat /\ clock' \in Nat /\ clock <= clock'
      /\ cache \subseteq Entry
      /\ \A r \in Requests : req[r].got \in Entry
  BY ClockStep DEF TypeOK, Req
<1>2. ASSUME NEW k \in Kids, NEW t \in Nat, t <= clock, Used(k, t)
      PROVE  Used(k, t)'
  BY <1>2, UsedKept
<1>3. ASSUME NEW e \in cache'
      PROVE  e.loaded <= clock' /\ (e.kid # NoKey => Used(e.kid, e.loaded)')
  <2>1. /\ e \in Entry /\ e.loaded <= clock
        /\ e.kid # NoKey => Used(e.kid, e.loaded)
    BY <1>1, <1>3, CacheStep DEF Known
  <2>2. e.loaded \in Nat /\ (e.kid # NoKey => e.kid \in Kids)
    BY <2>1 DEF Entry
  <2> QED BY <1>1, <1>2, <2>1, <2>2
<1>4. ASSUME NEW r \in Requests
      PROVE  /\ req'[r].got.loaded <= clock'
             /\ req'[r].pc \in {"held", "leased", "fenced"} => req'[r].got.kid # NoKey
             /\ /\ req'[r].pc \in {"read", "held", "leased", "fenced"}
                /\ req'[r].got.kid # NoKey
                => Used(req[r].got.kid, req[r].got.loaded)'
  <2>1. /\ req[r].got.loaded \in Nat /\ req[r].got.loaded <= clock
        /\ req[r].got.kid # NoKey => req[r].got.kid \in Kids
    BY <1>1 DEF Known, Entry
  <2>2. PICK k, t : k = req'[r].got.kid /\ t = req'[r].got.loaded
    OBVIOUS
  <2>3. t \in Nat /\ t <= clock'
    BY <1>1, <2>1, <2>2, RequestStep DEF Known, Entry
  <2>4. req'[r].pc \in {"held", "leased", "fenced"} => k # NoKey
    BY <2>2, RequestStep DEF Known
  <2>5. ASSUME req'[r].pc \in {"read", "held", "leased", "fenced"}, k # NoKey
        PROVE  Used(k, t)'
    <3>1. CASE k \in Kids /\ t \in Nat /\ t <= clock /\ Used(k, t)
      BY <1>2, <3>1
    <3>2. CASE key'[k].state = "active"
      BY <3>2 DEF Used
    <3>3. CASE req'[r] = req[r]
      BY <2>1, <2>2, <2>5, <3>1, <3>3 DEF Known
    <3>4. CASE req'[r].got \in cache
      BY <1>1, <2>2, <2>5, <3>1, <3>4 DEF Known, Entry
    <3>5. CASE req'[r].got = req[r].got /\ req[r].pc \in {"read", "held", "leased"}
      BY <2>1, <2>2, <2>5, <3>1, <3>5 DEF Known
    <3>6. \/ req'[r] = req[r]
          \/ req'[r].got \in cache
          \/ req'[r].got = req[r].got /\ req[r].pc \in {"read", "held", "leased"}
          \/ key'[req'[r].got.kid].state = "active"
      BY <2>2, <2>5, RequestStep
    <3> QED BY <2>2, <3>2, <3>3, <3>4, <3>5, <3>6
  <2> QED BY <2>2, <2>3, <2>4, <2>5 DEF Used
<1>5. (\A e \in cache : /\ e.loaded <= clock
                        /\ e.kid # NoKey => Used(e.kid, e.loaded))'
  BY <1>3
<1>6. (\A r \in Requests :
       /\ req[r].got.loaded <= clock
       /\ req[r].pc \in {"held", "leased", "fenced"} => req[r].got.kid # NoKey
       /\ /\ req[r].pc \in {"read", "held", "leased", "fenced"}
          /\ req[r].got.kid # NoKey
          => Used(req[r].got.kid, req[r].got.loaded))'
  BY <1>4 DEF Used
<1> QED BY <1>5, <1>6 DEF Known

\* A transaction that would change a fenced row waits.
LEMMA FenceKept ==
  ASSUME TypeOK, FencedKeyStands, [Next]_vars
  PROVE  FencedKeyStands'
<1> SUFFICES ASSUME NEW r \in Requests, req'[r].pc = "fenced"
             PROVE  key'[req'[r].got.kid].state \in Signing
  BY DEF FencedKeyStands, Holds
<1>1. CASE req'[r] = req[r]
  <2>1. Holds(r) /\ key[req[r].got.kid].state \in Signing
    BY <1>1 DEF Holds, FencedKeyStands
  <2>2. CASE Written
    BY <1>1, <2>1, <2>2, WrittenRows
  <2>3. CASE key' = key
    BY <1>1, <2>1, <2>3
  <2> QED BY <2>2, <2>3, KeyStep DEF Sign
<1>2. CASE /\ req'[r].got = req[r].got
           /\ key'[req[r].got.kid].state \in Signing
  BY <1>2
<1> QED BY <1>1, <1>2, RequestStep

-----------------------------------------------------------------------------
(* When a key signs. *)

\* A key signed in the past, only after it was active, and once superseded
\* only until the last lease on it ran out.
Signatures ==
  \A k \in Kids :
    /\ past[k].signed <= clock
    /\ past[k].signed # 0 =>
         key[k].state \in {"active", "retiring", "retired", "purged"}
    /\ past[k].signed # 0 /\ key[k].state \in {"retiring", "retired", "purged"}
         => past[k].signed < key[k].retiring + MaxLag + Ttl

\* What signing does to the history.
LEMMA SignStep ==
  ASSUME TypeOK, Known, NEW r \in Requests, Sign(r)
  PROVE  /\ req[r].got.kid \in Kids
         /\ Used(req[r].got.kid, req[r].got.loaded)
         /\ req[r].got.loaded \in Nat
         /\ clock < req[r].got.loaded + Ttl
         /\ UNCHANGED <<clock, key, sched>>
         /\ past' \in [Kids -> Past]
         /\ past'[req[r].got.kid].signed = clock
         /\ \A k \in Kids : /\ k # req[r].got.kid => past'[k] = past[k]
                            /\ past'[k].announced = past[k].announced
                            /\ past'[k].early = past[k].early
                            /\ past'[k].pulled = past[k].pulled
<1>1. /\ req[r].got.kid \in Kids \cup {NoKey} /\ req[r].got.loaded \in Nat
      /\ past \in [Kids -> Past] /\ clock \in Nat
  BY DEF TypeOK, Req, Entry
<1>2. /\ req[r].got.kid # NoKey
      /\ Used(req[r].got.kid, req[r].got.loaded)
  BY DEF Sign, Holds, Known
<1>3. past' = [past EXCEPT ![req[r].got.kid].signed = clock]
  BY DEF Sign
<1>4. UNCHANGED <<clock, key, sched>> /\ clock < req[r].got.loaded + Ttl
  BY DEF Sign, ExpiresAt
<1> QED BY <1>1, <1>2, <1>3, <1>4 DEF Past

\* Every signature respects the lease it was made under.
LEMMA SignaturesKept ==
  ASSUME TypeOK, Known, Signatures, [Next]_vars
  PROVE  Signatures'
<1>1. /\ clock \in Nat /\ clock' \in Nat /\ clock <= clock'
      /\ MaxLag \in Nat /\ Ttl \in Nat /\ Ttl > 0
      /\ \A k \in Kids : key[k] \in Row /\ past[k] \in Past
  BY ClockStep, PeriodsAssumption DEF TypeOK
<1> SUFFICES ASSUME NEW k \in Kids
             PROVE  /\ past'[k].signed <= clock'
                    /\ past'[k].signed # 0 =>
                         key'[k].state \in {"active", "retiring", "retired", "purged"}
                    /\ /\ past'[k].signed # 0
                       /\ key'[k].state \in {"retiring", "retired", "purged"}
                       => past'[k].signed < key'[k].retiring + MaxLag + Ttl
  BY DEF Signatures
<1>2. /\ past[k].signed \in Nat /\ past[k].signed <= clock
      /\ past[k].signed # 0 =>
           key[k].state \in {"active", "retiring", "retired", "purged"}
      /\ past[k].signed # 0 /\ key[k].state \in {"retiring", "retired", "purged"}
           => past[k].signed < key[k].retiring + MaxLag + Ttl
  BY <1>1 DEF Signatures, Past
<1>3. CASE Written
  <2>1. PICK early \in SUBSET Kids, pulled \in SUBSET Kids :
          Effect(k, key', early, pulled) /\ past'[k].signed = past[k].signed
    BY <1>3, WrittenRows
  <2>2. CASE Same(k, key')
    BY <1>1, <1>2, <2>1, <2>2 DEF Same
  <2>3. CASE Expires(k, key')
    BY <1>1, <1>2, <2>1, <2>3 DEF Expires, Row
  <2>4. CASE Superseded(k, key')
    BY <1>1, <1>2, <2>1, <2>4 DEF Superseded, Stamps, Row
  <2>5. CASE Starts(k, key', early)
    BY <1>1, <1>2, <2>1, <2>5 DEF Starts, Row
  <2>6. CASE Generated(k, key', early)
    BY <1>1, <1>2, <2>1, <2>6 DEF Generated, Row
  <2>7. CASE TakenOut(k, key', pulled)
    BY <1>1, <1>2, <2>1, <2>7 DEF TakenOut, Row
  <2> QED BY <2>1, <2>2, <2>3, <2>4, <2>5, <2>6, <2>7 DEF Effect
<1>4. CASE UNCHANGED <<key, past>>
  BY <1>1, <1>2, <1>4
<1>5. ASSUME NEW r \in Requests, Sign(r)
      PROVE  /\ past'[k].signed <= clock'
             /\ past'[k].signed # 0 =>
                  key'[k].state \in {"active", "retiring", "retired", "purged"}
             /\ /\ past'[k].signed # 0
                /\ key'[k].state \in {"retiring", "retired", "purged"}
                => past'[k].signed < key'[k].retiring + MaxLag + Ttl
  <2>1. CASE k = req[r].got.kid
    BY <1>1, <1>5, <2>1, SignStep DEF Used, Row
  <2>2. CASE k # req[r].got.kid
    BY <1>1, <1>2, <1>5, <2>2, SignStep
  <2> QED BY <2>1, <2>2
<1> QED BY <1>3, <1>4, <1>5, KeyStep

\* The inductive invariant of the signers.
SigningInv == TypeOK /\ Known /\ FencedKeyStands /\ Signatures

\* It holds before anything was signed.
LEMMA SigningInit == Init => SigningInv
<1> SUFFICES ASSUME Init PROVE SigningInv
  OBVIOUS
<1>1. TypeOK
  BY TypeInit
<1>2. /\ cache = {} /\ clock = 1
      /\ \A r \in Requests : req[r].pc = "idle" /\ req[r].got.loaded = 0
      /\ \A k \in Kids : past[k].signed = 0
  BY DEF Init
<1> QED BY <1>1, <1>2 DEF SigningInv, Known, FencedKeyStands, Holds, Signatures

\* Every step keeps it.
LEMMA SigningKept == SigningInv /\ [Next]_vars => SigningInv'
BY TypeKept, KnownKept, FenceKept, SignaturesKept DEF SigningInv

\* While a request holds its fence its key is published and not withdrawn
\* (signing.rs, prepare; key_store.rs, signing_authority), for any number of
\* requests, replicas and concurrent lifecycle calls.
THEOREM FenceHolds == Spec => []FencedKeyStands
<1>1. SigningInv => FencedKeyStands
  BY DEF SigningInv
<1> QED BY <1>1, SigningInit, SigningKept, PTL DEF Spec

\* A superseded key signs for at most one cache lifetime after the commit that
\* superseded it (signing.rs, resolve), in whatever order loads are stored.
THEOREM SupersededStops == Spec => []SupersededStopsSigning
<1>1. SigningInv => SupersededStopsSigning
  BY DEF SigningInv, Signatures, SupersededStopsSigning
<1> QED BY <1>1, SigningInit, SigningKept, PTL DEF Spec

-----------------------------------------------------------------------------
(* Publication before the first signature and after the last. *)

\* What the policies must grant for tokens to outlive a rotation: a grace
\* period covers the token's life, the cache's and the lag of a call.
GraceSuffices == \A p \in Schedules : p.grace >= TokenLife + Ttl + MaxLag

\* What they must grant for verifiers to learn of a key in time.
PropagationSuffices == \A p \in Schedules : p.propagation >= JwksAge + MaxLag

\* Every algorithm follows a policy an operator may set.
FollowsPolicy ==
  \A a \in Algs : \E p \in Schedules : /\ sched[a].grace = p.grace
                                       /\ sched[a].propagation = p.propagation

\* A key the schedule retired has had its grace; an operator purges.
RetiredInTime ==
  \A k \in Kids :
    /\ key[k].state = "retired" /\ ~past[k].pulled =>
         key[k].retiring + TokenLife + Ttl + MaxLag <= clock
    /\ key[k].state = "purged" => past[k].pulled

\* A key is stamped near the commit that published it, and signs by the
\* schedule only after verifiers had the time to fetch it.
Waited ==
  \A k \in Kids :
    /\ key[k].state # "none" => past[k].announced <= key[k].created + MaxLag
    /\ key[k].state \in Signing /\ ~past[k].early =>
         past[k].announced + JwksAge <= clock

\* A policy stays one an operator may set.
LEMMA PolicyKept ==
  ASSUME TypeOK, FollowsPolicy, [Next]_vars
  PROVE  FollowsPolicy'
<1>1. sched \in [Algs -> Schedule]
  BY DEF TypeOK
<1>2. ASSUME NEW b \in Algs, NEW now, sched' = [sched EXCEPT ![b].last = now]
      PROVE  FollowsPolicy'
  <2>1. \A a \in Algs : /\ sched'[a].grace = sched[a].grace
                        /\ sched'[a].propagation = sched[a].propagation
    BY <1>1, <1>2 DEF Schedule
  <2> QED BY <2>1 DEF FollowsPolicy
<1>3. CASE UNCHANGED sched
  BY <1>3 DEF FollowsPolicy
<1>4. ASSUME NEW b \in Algs, NEW policy \in Schedules, SetSchedule(b, policy)
      PROVE  FollowsPolicy'
  BY <1>1, <1>4 DEF SetSchedule, WithLast, FollowsPolicy
<1>5. ASSUME NEW b \in Algs, ApplySchedule(b) \/ Rotate(b) \/ RotateNow(b)
      PROVE  FollowsPolicy'
  BY <1>2, <1>3, <1>5 DEF ApplySchedule, Rotate, RotateNow, Pass
<1> QED BY <1>3, <1>4, <1>5 DEF Next, Tick, Lifecycle, Serve, Activate,
           AbandonRotation, Retire, Purge, Resolve, Load, Store, Lease,
           Fence, Sign, Finish, vars

\* The schedule retires nothing too soon.
LEMMA RetiredInTimeKept ==
  ASSUME GraceSuffices, SigningInv, FollowsPolicy, RetiredInTime, [Next]_vars
  PROVE  RetiredInTime'
<1>1. /\ TypeOK /\ Known /\ clock \in Nat /\ clock' \in Nat /\ clock <= clock'
      /\ MaxLag \in Nat /\ Ttl \in Nat /\ TokenLife \in Nat
      /\ \A k \in Kids : key[k] \in Row /\ past[k] \in Past
      /\ \A a \in Algs : sched[a].grace \in Nat
  BY ClockStep, PeriodsAssumption DEF SigningInv, TypeOK, Schedule
<1>2. \A a \in Algs : sched[a].grace >= TokenLife + Ttl + MaxLag
  BY DEF FollowsPolicy, GraceSuffices
<1> SUFFICES ASSUME NEW k \in Kids
             PROVE  /\ key'[k].state = "retired" /\ ~past'[k].pulled =>
                         key'[k].retiring + TokenLife + Ttl + MaxLag <= clock'
                    /\ key'[k].state = "purged" => past'[k].pulled
  BY DEF RetiredInTime
<1>3. /\ key[k].retiring \in Nat
      /\ key[k].state = "retired" /\ ~past[k].pulled =>
           key[k].retiring + TokenLife + Ttl + MaxLag <= clock
      /\ key[k].state = "purged" => past[k].pulled
  BY <1>1 DEF RetiredInTime, Row
<1>4. CASE Written
  <2>1. PICK early \in SUBSET Kids, pulled \in SUBSET Kids :
          /\ Effect(k, key', early, pulled)
          /\ past'[k].pulled <=> past[k].pulled \/ k \in pulled
    BY <1>1, <1>4, WrittenRows
  <2>2. CASE Same(k, key')
    BY <1>1, <1>3, <2>1, <2>2 DEF Same
  <2>3. CASE Expires(k, key')
    <3>1. PICK a \in Algs : key[k].retiring + sched[a].grace <= clock
      BY <2>3 DEF Expires
    <3>2. key[k].retiring + TokenLife + Ttl + MaxLag <= clock
      BY <1>1, <1>2, <1>3, <3>1
    <3>3. key'[k].state = "retired" /\ key'[k].retiring = key[k].retiring
      BY <1>1, <2>3 DEF Expires, Row
    <3> QED BY <1>1, <1>3, <3>2, <3>3
  <2>4. key'[k].state \in {"retired", "purged"} =>
          Same(k, key') \/ Expires(k, key') \/ TakenOut(k, key', pulled)
    <3>1. Superseded(k, key') => key'[k].state = "retiring"
      BY <1>1 DEF Superseded, Row
    <3>2. Starts(k, key', early) => key'[k].state = "active"
      BY <1>1 DEF Starts, Row
    <3>3. Generated(k, key', early) => key'[k].state \in {"pending", "active"}
      BY DEF Generated
    <3> QED BY <2>1, <3>1, <3>2, <3>3 DEF Effect
  <2>5. CASE TakenOut(k, key', pulled)
    <3>1. past'[k].pulled
      BY <2>1, <2>5, Zenon DEF TakenOut
    <3> QED BY <3>1
  <2> QED BY <2>2, <2>3, <2>4, <2>5
<1>5. CASE UNCHANGED <<key, past>>
  BY <1>1, <1>3, <1>5
<1>6. ASSUME NEW r \in Requests, Sign(r)
      PROVE  /\ key' = key /\ past'[k].pulled = past[k].pulled
  BY <1>1, <1>6, SignStep
<1> QED BY <1>1, <1>3, <1>4, <1>5, <1>6, KeyStep

\* No key signs by the schedule before verifiers could know it.
LEMMA WaitedKept ==
  ASSUME PropagationSuffices, SigningInv, FollowsPolicy, Waited, [Next]_vars
  PROVE  Waited'
<1>1. /\ TypeOK /\ Known /\ clock \in Nat /\ clock' \in Nat /\ clock <= clock'
      /\ MaxLag \in Nat /\ JwksAge \in Nat
      /\ \A k \in Kids : key[k] \in Row /\ past[k] \in Past
      /\ \A a \in Algs : sched[a].propagation \in Nat
  BY ClockStep, PeriodsAssumption DEF SigningInv, TypeOK, Schedule
<1>2. \A a \in Algs : sched[a].propagation >= JwksAge + MaxLag
  BY DEF FollowsPolicy, PropagationSuffices
<1> SUFFICES ASSUME NEW k \in Kids
             PROVE  /\ key'[k].state # "none" =>
                         past'[k].announced <= key'[k].created + MaxLag
                    /\ key'[k].state \in Signing /\ ~past'[k].early =>
                         past'[k].announced + JwksAge <= clock'
  BY DEF Waited
<1>3. /\ past[k].announced \in Nat /\ key[k].created \in Nat /\ key[k].alg \in Algs
      /\ key[k].state # "none" => past[k].announced <= key[k].created + MaxLag
      /\ key[k].state \in Signing /\ ~past[k].early =>
           past[k].announced + JwksAge <= clock
  BY <1>1 DEF Waited, Row, Past
<1>4. CASE Written
  <2>1. PICK early \in SUBSET Kids, pulled \in SUBSET Kids :
          /\ Effect(k, key', early, pulled)
          /\ past'[k].early <=> past[k].early \/ k \in early
          /\ past'[k].announced =
               IF key[k].state = "none" /\ key'[k].state # "none"
               THEN clock ELSE past[k].announced
          /\ clock' = clock
    BY <1>1, <1>4, WrittenRows
  <2>2. CASE Same(k, key')
    BY <1>1, <1>3, <2>1, <2>2 DEF Same
  <2>3. CASE Expires(k, key')
    BY <1>1, <1>3, <2>1, <2>3 DEF Expires, Row, Signing
  <2>4. CASE Superseded(k, key')
    BY <1>1, <1>3, <2>1, <2>4 DEF Superseded, Row, Signing
  <2>5. CASE Starts(k, key', early)
    <3>1. /\ key'[k].created = key[k].created
          /\ past'[k].announced = past[k].announced
          /\ past[k].announced <= key[k].created + MaxLag
      BY <1>1, <1>3, <2>1, <2>5 DEF Starts, Row
    <3>2. CASE k \in early
      BY <2>1, <3>1, <3>2
    <3>3. CASE key[k].created + sched[key[k].alg].propagation <= clock
      <4>1. /\ sched[key[k].alg].propagation >= JwksAge + MaxLag
            /\ sched[key[k].alg].propagation \in Nat
        BY <1>1, <1>2, <1>3
      <4>2. past[k].announced + JwksAge <= clock
        BY <1>1, <1>3, <3>1, <3>3, <4>1
      <4> QED BY <2>1, <3>1, <4>2
    <3> QED BY <2>5, <3>2, <3>3 DEF Starts
  <2>6. CASE Generated(k, key', early)
    BY <1>1, <1>3, <2>1, <2>6 DEF Generated, Stamps, Signing
  <2>7. CASE TakenOut(k, key', pulled)
    BY <1>1, <1>3, <2>1, <2>7 DEF TakenOut, Row, Signing
  <2> QED BY <2>1, <2>2, <2>3, <2>4, <2>5, <2>6, <2>7 DEF Effect
<1>5. CASE UNCHANGED <<key, past>>
  BY <1>1, <1>3, <1>5
<1>6. ASSUME NEW r \in Requests, Sign(r)
      PROVE  /\ key' = key /\ past'[k].early = past[k].early
             /\ past'[k].announced = past[k].announced
  BY <1>1, <1>6, SignStep
<1> QED BY <1>1, <1>3, <1>4, <1>5, <1>6, KeyStep

\* A signature is made when verifiers could know its key.
LEMMA KnownToVerifiersKept ==
  ASSUME SigningInv, Waited, KnownToVerifiers, [Next]_vars
  PROVE  KnownToVerifiers'
<1>1. /\ TypeOK /\ Known
      /\ \A k \in Kids : past[k] \in Past
  BY DEF SigningInv, TypeOK
<1> SUFFICES ASSUME NEW k \in Kids, past'[k].signed # 0, ~past'[k].early
             PROVE  past'[k].announced + JwksAge <= past'[k].signed
  BY DEF KnownToVerifiers
<1>2. past[k].signed # 0 /\ ~past[k].early =>
        /\ past[k].announced + JwksAge <= past[k].signed
        /\ key[k].state # "none"
  BY <1>1 DEF SigningInv, Signatures, KnownToVerifiers
<1>3. CASE Written
  <2>1. PICK early \in SUBSET Kids, pulled \in SUBSET Kids :
          /\ past'[k].signed = past[k].signed
          /\ past'[k].early <=> past[k].early \/ k \in early
          /\ past'[k].announced =
               IF key[k].state = "none" /\ key'[k].state # "none"
               THEN clock ELSE past[k].announced
    BY <1>1, <1>3, WrittenRows
  <2>2. ~past[k].early
    BY <2>1, Zenon
  <2> QED BY <1>2, <2>1, <2>2
<1>4. CASE UNCHANGED <<key, past>>
  BY <1>2, <1>4
<1>5. ASSUME NEW r \in Requests, Sign(r)
      PROVE  past'[k].announced + JwksAge <= past'[k].signed
  <2>1. /\ past'[k].announced = past[k].announced
        /\ past'[k].early = past[k].early
    BY <1>1, <1>5, SignStep
  <2>2. CASE k = req[r].got.kid
    <3>1. key[k].state \in Signing
      BY <1>5, <2>2 DEF Sign, SigningInv, FencedKeyStands
    <3>2. past[k].announced + JwksAge <= clock
      BY <2>1, <3>1 DEF Waited
    <3>3. past'[k].signed = clock
      BY <1>1, <1>5, <2>2, SignStep
    <3> QED BY <2>1, <3>2, <3>3
  <2>3. CASE k # req[r].got.kid
    <3>1. past'[k] = past[k]
      BY <1>1, <1>5, <2>3, SignStep
    <3> QED BY <1>2, <3>1
  <2> QED BY <2>2, <2>3
<1> QED BY <1>1, <1>3, <1>4, <1>5, KeyStep

\* The policies are followed from the start, and no key has a history.
LEMMA PublicationInit ==
  Init => FollowsPolicy /\ RetiredInTime /\ Waited /\ KnownToVerifiers
<1> SUFFICES ASSUME Init
             PROVE  FollowsPolicy /\ RetiredInTime /\ Waited /\ KnownToVerifiers
  OBVIOUS
<1>1. /\ \A k \in Kids : key[k].state = "none" /\ past[k].signed = 0
      /\ \A a \in Algs : sched[a] = WithLast(DefaultSchedule, 0)
  BY DEF Init
<1>2. FollowsPolicy
  BY <1>1, PeriodsAssumption DEF FollowsPolicy, WithLast
<1> QED BY <1>1, <1>2 DEF RetiredInTime, Waited, KnownToVerifiers, Signing

\* Until the last token a key signed expires the key is in the JWK Set,
\* unless an operator took it out (keys.rs, run), whenever every policy's
\* grace period covers the token's life, the cache's and the lag.
THEOREM TokensOutliveRotation == GraceSuffices => (Spec => []VerifiesForLife)
<1> SUFFICES ASSUME GraceSuffices PROVE Spec => []VerifiesForLife
  OBVIOUS
<1> DEFINE Inv == SigningInv /\ FollowsPolicy /\ RetiredInTime
<1>1. Init => Inv
  BY SigningInit, PublicationInit
<1>2. Inv /\ [Next]_vars => Inv'
  BY SigningKept, PolicyKept, RetiredInTimeKept DEF SigningInv
<1>3. Inv => VerifiesForLife
  <2> SUFFICES ASSUME Inv, NEW k \in Kids, past[k].signed # 0,
                      clock < past[k].signed + TokenLife, ~past[k].pulled
               PROVE  key[k].state \in Published
    BY DEF VerifiesForLife
  <2>1. /\ clock \in Nat /\ past[k].signed \in Nat /\ key[k].retiring \in Nat
        /\ MaxLag \in Nat /\ Ttl \in Nat /\ TokenLife \in Nat
    BY PeriodsAssumption DEF SigningInv, TypeOK, Row, Past
  <2>2. key[k].state # "purged"
    BY DEF RetiredInTime
  <2>3. ASSUME key[k].state = "retired"
        PROVE  FALSE
    <3>1. past[k].signed < key[k].retiring + MaxLag + Ttl
      BY <2>3 DEF SigningInv, Signatures
    <3>2. key[k].retiring + TokenLife + Ttl + MaxLag <= clock
      BY <2>3 DEF RetiredInTime
    <3> QED BY <2>1, <3>1, <3>2
  <2> QED BY <2>2, <2>3 DEF SigningInv, Signatures, Published
<1> QED BY <1>1, <1>2, <1>3, PTL DEF Spec

\* No verifier meets an unfamiliar kid, but for an algorithm's first key and
\* an immediate activation (keys.rs, run), whenever every policy's
\* propagation period covers a JWK Set's age and the lag.
THEOREM VerifiersKnowKeys == PropagationSuffices => (Spec => []KnownToVerifiers)
<1> SUFFICES ASSUME PropagationSuffices PROVE Spec => []KnownToVerifiers
  OBVIOUS
<1> DEFINE Inv == SigningInv /\ FollowsPolicy /\ Waited /\ KnownToVerifiers
<1>1. Init => Inv
  BY SigningInit, PublicationInit
<1>2. Inv /\ [Next]_vars => Inv'
  BY SigningKept, PolicyKept, WaitedKept, KnownToVerifiersKept DEF SigningInv
<1> QED BY <1>1, <1>2, PTL DEF Spec

-----------------------------------------------------------------------------
(* One active key, and always one. *)

\* No two keys of one algorithm are staged, and no two are active.
Unique(K) ==
  \A j, k \in Kids : /\ K[j].alg = K[k].alg
                     /\ K[j].state = K[k].state
                     /\ K[j].state \in {"pending", "active"}
                     => j = k

\* The algorithm has a key to sign with.
Open(K, a) == \E k \in Kids : K[k].alg = a /\ K[k].state = "active"

\* Table L takes nothing of this from table K.
KeepsBoth(K, L) ==
  /\ Unique(K) => Unique(L)
  /\ \A a \in Algs : Open(K, a) => Open(L, a)

\* A change that leaves the staged and the active keys alone keeps both.
LEMMA QuietKeeps ==
  ASSUME NEW K \in [Kids -> Row], NEW L \in [Kids -> Row],
         \A k \in Kids : K[k].state = "active" => L[k] = K[k],
         \A k \in Kids : L[k].state \in {"pending", "active"} => L[k] = K[k]
  PROVE  KeepsBoth(K, L)
BY DEF KeepsBoth, Unique, Open

\* A promotion demotes the key it supersedes.
LEMMA PromoteKeeps ==
  ASSUME NEW K \in [Kids -> Row], NEW k \in Kids, NEW now \in Nat, NEW L,
         L = Promote(K, k, now), K[k].state = "pending"
  PROVE  KeepsBoth(K, L)
<1>1. Replaces(K, k, now, L)
  BY PromoteEffect
<1>2. L[k].state = "active" /\ L[k].alg = K[k].alg /\ K[k] \in Row
  BY <1>1 DEF Replaces, Row
<1>3. ASSUME NEW j \in Kids \ {k}
      PROVE  /\ L[j].alg = K[j].alg
             /\ L[j].state = IF K[j].alg = K[k].alg /\ K[j].state = "active"
                             THEN "retiring" ELSE K[j].state
  BY ZenonT(60), <1>1, <1>3 DEF Replaces, Row
<1>4. ASSUME Unique(K)
      PROVE  Unique(L)
  BY <1>2, <1>3, <1>4 DEF Unique
<1>5. ASSUME NEW a \in Algs, Open(K, a)
      PROVE  Open(L, a)
  <2>1. PICK j \in Kids : K[j].alg = a /\ K[j].state = "active"
    BY <1>5 DEF Open
  <2>2. CASE a = K[k].alg
    BY <1>2, <2>2 DEF Open
  <2>3. CASE a # K[k].alg
    BY <1>3, <2>1, <2>3 DEF Open
  <2> QED BY <2>2, <2>3
<1> QED BY <1>4, <1>5 DEF KeepsBoth

\* A new key is active only where there is none, and pending only where none
\* is staged.
LEMMA StageKeeps ==
  ASSUME NEW K \in [Kids -> Row], NEW a \in Algs, NEW k \in Stageable(K, a),
         NEW now \in Nat, NEW L, L = Stage(K, a, k, now)
  PROVE  KeepsBoth(K, L)
<1>1. k \in Kids /\ K[k].state \in {"pending", "none"}
  BY DEF Stageable, In
<1>2. CASE K[k].state = "pending"
  BY <1>2 DEF Stage, KeepsBoth
<1>3. CASE K[k].state = "none"
  <2>1. \A j \in Kids : ~(K[j].alg = a /\ K[j].state = "pending")
    BY <1>3 DEF Stageable, In
  <2>2. /\ L[k].alg = a
        /\ L[k].state = IF First(K, a) THEN "active" ELSE "pending"
        /\ \A j \in Kids \ {k} : L[j] = K[j]
    BY <1>1, <1>3 DEF Stage
  <2>3. First(K, a) => \A j \in Kids : ~(K[j].alg = a /\ K[j].state = "active")
    BY DEF First, In
  <2>4. ASSUME Unique(K)
        PROVE  Unique(L)
    BY <2>1, <2>2, <2>3, <2>4 DEF Unique
  <2>5. ASSUME NEW b \in Algs, Open(K, b)
        PROVE  Open(L, b)
    BY <1>3, <2>2, <2>5 DEF Open
  <2> QED BY <2>4, <2>5 DEF KeepsBoth
<1> QED BY <1>1, <1>2, <1>3

\* Two changes in a row.
LEMMA KeepsTrans ==
  ASSUME NEW K, NEW L, NEW M, KeepsBoth(K, L), KeepsBoth(L, M)
  PROVE  KeepsBoth(K, M)
BY DEF KeepsBoth

\* A pass keeps both.
LEMMA PassKeeps ==
  ASSUME TypeOK, NEW a \in Algs, NEW now \in Stamps,
         NEW forced \in BOOLEAN, NEW immediate \in BOOLEAN,
         Pass(a, now, forced, immediate)
  PROVE  KeepsBoth(key, key')
<1> DEFINE R == RetireExpired(key, now, sched[a].grace)
<1>1. /\ R \in [Kids -> Row] /\ key \in [Kids -> Row] /\ now \in Nat
      /\ \A k \in Kids : Same(k, R) \/ Expires(k, R)
  BY RetireEffect DEF TypeOK, Stamps
<1> HIDE DEF R
<1>2. KeepsBoth(key, R)
  <2>1. ASSUME NEW k \in Kids
        PROVE  \/ R[k] = key[k]
               \/ key[k].state = "retiring" /\ R[k].state = "retired"
    BY <1>1 DEF Same, Expires, Row
  <2> QED BY <1>1, <2>1, QuietKeeps
<1>3. PICK K \in Promotions(R, a, now) :
        \/ \E k \in Stageable(K, a) :
             Commit(Stage(K, a, k, now),
                    IF K[k].state = "none" /\ First(K, a) THEN {k} ELSE {}, {})
        \/ Commit(K, {}, {})
  BY DEF Pass, R
<1>4. K \in [Kids -> Row] /\ KeepsBoth(R, K)
  <2>1. CASE K = R
    BY <1>1, <2>1 DEF KeepsBoth
  <2>2. CASE \E k \in Ready(R, a, now) : K = Promote(R, k, now)
    <3>1. PICK k \in Ready(R, a, now) : K = Promote(R, k, now)
      BY <2>2
    <3>2. k \in Kids /\ R[k].state = "pending"
      BY DEF Ready, In
    <3> QED BY <1>1, <3>1, <3>2, PromoteEffect, PromoteKeeps
  <2> QED BY <2>1, <2>2 DEF Promotions
<1>5. CASE Commit(K, {}, {})
  <2>1. key' = K
    BY <1>5 DEF Commit
  <2> QED BY <1>2, <1>4, <2>1, KeepsTrans
<1>6. CASE \E k \in Stageable(K, a) :
             Commit(Stage(K, a, k, now),
                    IF K[k].state = "none" /\ First(K, a) THEN {k} ELSE {}, {})
  <2>1. PICK k \in Stageable(K, a) : key' = Stage(K, a, k, now)
    BY <1>6 DEF Commit
  <2>2. PICK L : L = Stage(K, a, k, now)
    OBVIOUS
  <2>3. KeepsBoth(K, L)
    BY <1>1, <1>4, <2>2, StageKeeps
  <2>4. KeepsBoth(key, L)
    BY <1>2, <1>4, <2>3, KeepsTrans
  <2> QED BY <2>1, <2>2, <2>4
<1> QED BY <1>3, <1>5, <1>6

\* So does every step of the system.
LEMMA StepKeeps ==
  ASSUME TypeOK, [Next]_vars
  PROVE  KeepsBoth(key, key')
<1>1. key \in [Kids -> Row] /\ key' \in [Kids -> Row]
  BY TypeKept DEF TypeOK
<1>2. CASE key' = key
  BY <1>2 DEF KeepsBoth
<1>3. ASSUME NEW a \in Algs, ApplySchedule(a) \/ Rotate(a) \/ RotateNow(a)
      PROVE  KeepsBoth(key, key')
  BY <1>3, PassKeeps DEF ApplySchedule, Rotate, RotateNow
<1>4. ASSUME NEW op \in ops, Activate(op)
      PROVE  KeepsBoth(key, key')
  <2>1. op.kid \in Kids /\ op.now \in Nat
    BY DEF TypeOK, Op
  <2>2. CASE key[op.kid].state = "pending"
    <3>1. PICK L : L = Promote(key, op.kid, op.now)
      OBVIOUS
    <3>2. KeepsBoth(key, L)
      BY <1>1, <2>1, <2>2, <3>1, PromoteKeeps
    <3>3. key' = L
      BY <1>4, <2>2, <3>1 DEF Activate, Commit
    <3> QED BY <3>2, <3>3
  <2> QED BY <1>2, <1>4, <2>2 DEF Activate
<1>5. ASSUME NEW k \in Kids, Retire(k) \/ Purge(k)
      PROVE  KeepsBoth(key, key')
  <2>1. PICK s \in {"retired", "purged"} : key' = [key EXCEPT ![k].state = s]
    BY <1>5 DEF Retire, Purge, Commit
  <2>2. key[k].state # "active" /\ key[k] \in Row
    BY <1>1, <1>5 DEF Retire, Purge
  <2>3. key'[k].state = s /\ \A j \in Kids : j # k => key'[j] = key[j]
    BY <1>1, <2>1, <2>2 DEF Row
  <2> QED BY <1>1, <2>2, <2>3, QuietKeeps
<1> QED BY <1>2, <1>3, <1>4, <1>5 DEF Next, Lifecycle, SetSchedule,
           AbandonRotation, Serve, Resolve, Load, Store, Lease, Fence, Sign,
           Finish, Tick, vars

\* An algorithm has one active and one staged key at most (keys.rs, run and
\* stage), whatever sweeps, rotations and activations interleave.
THEOREM OneKeyOfEach == Spec => []OneOfEach
<1>1. TypeOK => (Unique(key) <=> OneOfEach)
  <2> SUFFICES ASSUME TypeOK
               PROVE  Unique(key) <=> OneOfEach
    OBVIOUS
  <2>1. \A k \in Kids : key[k].alg \in Algs
    BY DEF TypeOK, Row
  <2>2. Unique(key) => OneOfEach
    BY DEF Unique, OneOfEach, In
  <2>3. OneOfEach => Unique(key)
    BY <2>1 DEF Unique, OneOfEach, In
  <2> QED BY <2>2, <2>3
<1>2. Init => TypeOK /\ OneOfEach
  <2>1. Init => Unique(key)
    BY DEF Init, Unique
  <2> QED BY <1>1, <2>1, TypeInit
<1>3. TypeOK /\ OneOfEach /\ [Next]_vars => (TypeOK /\ OneOfEach)'
  <2> SUFFICES ASSUME TypeOK, OneOfEach, [Next]_vars
               PROVE  TypeOK' /\ OneOfEach'
    OBVIOUS
  <2>1. Unique(key')
    BY <1>1, StepKeeps DEF KeepsBoth
  <2>2. OneOfEach'
    BY <2>1 DEF Unique, OneOfEach, In
  <2> QED BY <2>2, TypeKept
<1> QED BY <1>2, <1>3, PTL DEF Spec

\* Once an algorithm has an active key it never lacks one again (keys.rs,
\* retire and purge; key_store.rs, rotate).
THEOREM IssuerNeverCloses == Spec => IssuerStaysOpen
<1>1. TypeOK /\ [Next]_vars =>
        [\A a \in Algs : In(key, a, "active") # {} =>
                           In(key', a, "active") # {}]_vars
  <2> SUFFICES ASSUME TypeOK, [Next]_vars, NEW a \in Algs,
                      In(key, a, "active") # {}
               PROVE  In(key', a, "active") # {}
    OBVIOUS
  <2>1. Open(key, a)
    BY DEF Open, In
  <2>2. Open(key', a)
    BY <2>1, StepKeeps DEF KeepsBoth
  <2> QED BY <2>2 DEF Open, In
<1> QED BY <1>1, TypeCorrect, PTL DEF Spec, IssuerStaysOpen

\* No call moves a key backwards (keys.rs, activate, retire and purge).
THEOREM KeysNeverGoBack == Spec => NeverBack
<1>1. TypeOK /\ [Next]_vars =>
        [\A k \in Kids : Rank[key[k].state] <= Rank[key'[k].state]]_vars
  <2> SUFFICES ASSUME TypeOK, [Next]_vars, NEW k \in Kids
               PROVE  Rank[key[k].state] <= Rank[key'[k].state]
    OBVIOUS
  <2>1. key[k] \in Row /\ key[k].state \in States
    BY DEF TypeOK, Row
  <2>2. /\ Rank["none"] = 0 /\ Rank["pending"] = 1 /\ Rank["active"] = 2
        /\ Rank["retiring"] = 3 /\ Rank["retired"] = 4 /\ Rank["purged"] = 5
    BY DEF Rank
  <2>3. CASE key'[k] = key[k]
    BY <2>1, <2>2, <2>3 DEF States
  <2>4. CASE Written
    <3>1. PICK early \in SUBSET Kids, pulled \in SUBSET Kids :
            Effect(k, key', early, pulled)
      BY <2>4, WrittenRows
    <3>2. CASE Expires(k, key')
      <4>1. key[k].state = "retiring" /\ key'[k].state = "retired"
        BY <2>1, <3>2 DEF Expires, Row
      <4> QED BY <2>2, <4>1
    <3>3. CASE Superseded(k, key')
      <4>1. key[k].state = "active" /\ key'[k].state = "retiring"
        BY <2>1, <3>3 DEF Superseded, Row
      <4> QED BY <2>2, <4>1
    <3>4. CASE Starts(k, key', early)
      <4>1. key[k].state = "pending" /\ key'[k].state = "active"
        BY <2>1, <3>4 DEF Starts, Row
      <4> QED BY <2>2, <4>1
    <3>5. CASE Generated(k, key', early)
      <4>1. key[k].state = "none" /\ key'[k].state \in {"pending", "active"}
        BY <3>5 DEF Generated
      <4> QED BY <2>2, <4>1
    <3>6. CASE TakenOut(k, key', pulled)
      <4>1. \/ /\ key[k].state \in {"pending", "retiring"}
               /\ key'[k].state = "retired"
            \/ /\ key[k].state \in {"pending", "retiring", "retired"}
               /\ key'[k].state = "purged"
        BY <2>1, <3>6 DEF TakenOut, Row
      <4> QED BY <2>2, <4>1
    <3> QED BY <2>3, <3>1, <3>2, <3>3, <3>4, <3>5, <3>6 DEF Effect, Same
  <2> QED BY <2>3, <2>4, KeyStep DEF Sign
<1> QED BY <1>1, TypeCorrect, PTL DEF Spec, NeverBack
=============================================================================
