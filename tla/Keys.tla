-------------------------------- MODULE Keys --------------------------------
(***************************************************************************)
(* The signing keys of one tenant: their lifecycle in PostgreSQL           *)
(* (crates/store-pg/src/keys.rs, key_store.rs), driven by the rotation     *)
(* sweeps of several replicas (crates/server/src/rotation.rs) and by       *)
(* operators, and the cache each replica signs from                        *)
(* (crates/server/src/signing.rs).                                         *)
(*                                                                         *)
(* Every lifecycle call is one transaction under the tenant's advisory     *)
(* lock, and so one step here.  It is stamped with an instant its caller   *)
(* read before it waited for that lock and for the rows: the stamp may be  *)
(* up to MaxLag seconds older than the commit.  A signing request is a     *)
(* process: it resolves a key from the cache of its replica or reads it    *)
(* from the table, stores it, takes a lease no longer than the cache       *)
(* entry's, fences the key's row with a SHARE lock, signs, and holds the   *)
(* fence until it ends.  Between two of its steps anything may happen.     *)
(***************************************************************************)
EXTENDS Integers, FiniteSets

CONSTANTS
  Algs,             \* SigningAlgorithm::ALL
  Kids,             \* the thumbprints of the keys that may be generated
  NoKey,            \* the cached answer "no active key of this algorithm"
  Schedules,        \* the rotation policies an operator may set
  DefaultSchedule,  \* the schema's defaults
  Requests,         \* signing requests
  Signers,          \* replicas, each with a CachedSigner
  Ttl,              \* CachedSigner::ttl
  TokenLife,        \* the longest lifetime of a token signed here
  JwksAge,          \* how long a verifier keeps a JWK Set (JWKS_MAX_AGE)
  MaxLag,           \* how old the instant a lifecycle call stamps may be
  MaxOps,           \* bound: immediate rotations under way at a time
  MaxClock          \* bound: the last second explored

Policy == [rotation : Nat, propagation : Nat, grace : Nat]

ASSUME NamesAssumption == NoKey \notin Kids
ASSUME PeriodsAssumption ==
  /\ {Ttl, TokenLife, JwksAge, MaxLag, MaxOps, MaxClock} \subseteq Nat
  /\ Ttl > 0
  /\ Schedules \subseteq Policy
  /\ DefaultSchedule \in Schedules

VARIABLES
  clock,  \* the clock of the replicas
  key,    \* signing_keys; a kid nobody generated yet has the state "none"
  sched,  \* key_rotation_schedules, by algorithm; last = 0 for never
  ops,    \* immediate rotations between their two transactions
  cache,  \* the entries of every CachedSigner
  req,    \* the signing requests
  past    \* history: what happened to each key

vars == <<clock, key, sched, ops, cache, req, past>>

States == {"none", "pending", "active", "retiring", "retired", "purged"}
Published == {"pending", "active", "retiring"}
Signing == {"active", "retiring"}

Row == [state : States, alg : Algs, created : Nat, retiring : Nat]
Schedule == [rotation : Nat, propagation : Nat, grace : Nat, last : Nat]
Op == [kid : Kids, now : Nat]
Entry == [signer : Signers, alg : Algs, kid : Kids \cup {NoKey},
          loaded : Nat, by : Requests]
Req == [pc : {"idle", "load", "read", "held", "leased", "fenced", "done"},
        got : Entry]

\* announced: when the key entered the JWK Set; signed: when it last signed;
\* early: it became active without waiting out a propagation period;
\* pulled: an operator retired or purged it.
Past == [announced : Nat, signed : Nat, early : BOOLEAN, pulled : BOOLEAN]

\* The types, and the schema's rule that the stamps follow the state: only a
\* key that was demoted has a retiring_at, and every retiring key has one.
TypeOK ==
  /\ clock \in Nat
  /\ key \in [Kids -> Row]
  /\ sched \in [Algs -> Schedule]
  /\ ops \subseteq Op
  /\ cache \subseteq Entry
  /\ req \in [Requests -> Req]
  /\ past \in [Kids -> Past]
  /\ \A k \in Kids : /\ key[k].state = "retiring" => key[k].retiring # 0
                     /\ key[k].state \in {"none", "pending", "active"} =>
                          key[k].retiring = 0

WithLast(policy, last) ==
  [rotation |-> policy.rotation, propagation |-> policy.propagation,
   grace |-> policy.grace, last |-> last]

Init ==
  /\ clock = 1
  /\ \E a \in Algs : key = [k \in Kids |-> [state |-> "none", alg |-> a,
                                           created |-> 0, retiring |-> 0]]
  /\ sched = [a \in Algs |-> WithLast(DefaultSchedule, 0)]
  /\ ops = {}
  /\ cache = {}
  /\ \E at \in [Requests -> Signers], alg \in [Requests -> Algs] :
       req = [r \in Requests |->
                [pc |-> "idle",
                 got |-> [signer |-> at[r], alg |-> alg[r], kid |-> NoKey,
                          loaded |-> 0, by |-> r]]]
  /\ past = [k \in Kids |-> [announced |-> 0, signed |-> 0,
                             early |-> FALSE, pulled |-> FALSE]]

Tick ==
  /\ clock < MaxClock
  /\ clock' = clock + 1
  /\ UNCHANGED <<key, sched, ops, cache, req, past>>

-----------------------------------------------------------------------------
(* The key table. *)

In(K, a, state) == {k \in Kids : K[k].alg = a /\ K[k].state = state}

\* The request holds the SHARE lock of its key's row.
Holds(r) == req[r].pc = "fenced"

\* Mutant: a withdrawal does not wait for the requests that hold its row.
CommitUnfenced(K, early, pulled) ==
  /\ key' = K
  /\ past' = [k \in Kids |->
       [past[k] EXCEPT
          !.announced = IF key[k].state = "none" /\ K[k].state # "none"
                        THEN clock ELSE @,
          !.early = @ \/ k \in early,
          !.pulled = @ \/ k \in pulled]]
  /\ UNCHANGED <<clock, cache, req>>

\* A transaction that leaves the table as K commits: its UPDATE of a row
\* waits until no request holds that row.  `early` are the keys it made
\* active without a wait, `pulled` the ones an operator took out.
Commit(K, early, pulled) ==
  /\ \A r \in Requests : Holds(r) => K[req[r].got.kid] = key[req[r].got.kid]
  /\ key' = K
  /\ past' = [k \in Kids |->
       [past[k] EXCEPT
          !.announced = IF key[k].state = "none" /\ K[k].state # "none"
                        THEN clock ELSE @,
          !.early = @ \/ k \in early,
          !.pulled = @ \/ k \in pulled]]
  /\ UNCHANGED <<clock, cache, req>>

\* The instants a call that commits now may be stamped with.
Stamps == {now \in 1..clock : now + MaxLag >= clock}

\* Mutant: the grace period is counted from the key's creation.
RetireByCreation(K, now, grace) ==
  [k \in Kids |-> IF K[k].state = "retiring" /\ K[k].created + grace <= now
                  THEN [K[k] EXCEPT !.state = "retired"] ELSE K[k]]

\* The first statement of a pass: every key past the grace period leaves.
RetireExpired(K, now, grace) ==
  [k \in Kids |-> IF K[k].state = "retiring" /\ K[k].retiring + grace <= now
                  THEN [K[k] EXCEPT !.state = "retired"] ELSE K[k]]

\* The active key of the algorithm stops being it.
Demote(K, a, now) ==
  [k \in Kids |-> IF K[k].alg = a /\ K[k].state = "active"
                  THEN [K[k] EXCEPT !.state = "retiring", !.retiring = now]
                  ELSE K[k]]

\* Demote the active key of k's algorithm, then promote k.
Promote(K, k, now) == [Demote(K, K[k].alg, now) EXCEPT ![k].state = "active"]

\* Mutant: a staged key is promoted by the next pass.
ReadyAtOnce(K, a, now) == In(K, a, "pending")

\* The pending keys of the algorithm that were published long enough.
Ready(K, a, now) ==
  {k \in In(K, a, "pending") : K[k].created + sched[a].propagation <= now}

\* What the promotion of a pass may leave the table as.
Promotions(K, a, now) ==
  IF Ready(K, a, now) = {} THEN {K}
  ELSE {Promote(K, k, now) : k \in Ready(K, a, now)}

\* Mutant: every rotation generates a key.
StageableAnew(K, a) == {k \in Kids : K[k].state = "none"}

\* The keys stage may answer: the one already staged, or a new one.
Stageable(K, a) ==
  IF In(K, a, "pending") # {} THEN In(K, a, "pending")
  ELSE {k \in Kids : K[k].state = "none"}

\* A new key is active if the algorithm has no active key, else pending.
First(K, a) == In(K, a, "active") = {}

Stage(K, a, k, now) ==
  IF K[k].state = "pending" THEN K
  ELSE [K EXCEPT ![k] = [state |-> IF First(K, a) THEN "active" ELSE "pending",
                         alg |-> a, created |-> now, retiring |-> 0]]

IsDue(a, now) == \/ sched[a].last = 0
                 \/ sched[a].last + sched[a].rotation <= now

\* One pass of the lifecycle over one algorithm; a forced one always stages.
\* An immediate one leaves the promotion of the staged key to be done.
Pass(a, now, forced, immediate) ==
  \E K \in Promotions(RetireExpired(key, now, sched[a].grace), a, now) :
    \/ /\ forced \/ IsDue(a, now)
       /\ \E k \in Stageable(K, a) :
            /\ Commit(Stage(K, a, k, now),
                      IF K[k].state = "none" /\ First(K, a) THEN {k} ELSE {},
                      {})
            /\ sched' = [sched EXCEPT ![a].last = now]
            /\ ops' = IF immediate THEN ops \cup {[kid |-> k, now |-> now]}
                      ELSE ops
    \/ /\ ~forced /\ ~IsDue(a, now)
       /\ Commit(K, {}, {})
       /\ UNCHANGED <<sched, ops>>

\* The sweep of a replica, or an operator applying the schedule.
ApplySchedule(a) ==
  \E now \in Stamps : Pass(a, now, FALSE, FALSE)

\* An operator rotates; the staged key waits out the propagation period.
Rotate(a) ==
  \E now \in Stamps : Pass(a, now, TRUE, FALSE)

\* An operator rotates with immediate activation: the first transaction.
RotateNow(a) ==
  /\ Cardinality(ops) < MaxOps
  /\ \E now \in Stamps : Pass(a, now, TRUE, TRUE)

\* Mutant: the promotion trusts the state the first transaction left.
ActivateUnchecked(op) ==
  /\ op.now \in Stamps
  /\ ops' = ops \ {op}
  /\ Commit([Promote(key, op.kid, op.now) EXCEPT ![op.kid].retiring = 0],
            {op.kid}, {})
  /\ UNCHANGED sched

\* Its second transaction, with the stamp of the first.
Activate(op) ==
  /\ op.now \in Stamps
  /\ ops' = ops \ {op}
  /\ IF key[op.kid].state = "pending"
     THEN Commit(Promote(key, op.kid, op.now), {op.kid}, {})
     ELSE UNCHANGED <<clock, key, cache, req, past>>
  /\ UNCHANGED sched

\* The caller dies, or the audit write fails, between the two.
AbandonRotation(op) ==
  /\ ops' = ops \ {op}
  /\ UNCHANGED <<clock, key, sched, cache, req, past>>

\* Mutant: the active key can be retired.
RetireAny(k) ==
  /\ key[k].state \in Published
  /\ Commit([key EXCEPT ![k].state = "retired"], {}, {k})
  /\ UNCHANGED <<sched, ops>>

Retire(k) ==
  /\ key[k].state \in {"pending", "retiring"}
  /\ Commit([key EXCEPT ![k].state = "retired"], {}, {k})
  /\ UNCHANGED <<sched, ops>>

Purge(k) ==
  /\ key[k].state \in {"pending", "retiring", "retired"}
  /\ Commit([key EXCEPT ![k].state = "purged"], {}, {k})
  /\ UNCHANGED <<sched, ops>>

SetSchedule(a, policy) ==
  /\ sched' = [sched EXCEPT ![a] = WithLast(policy, sched[a].last)]
  /\ UNCHANGED <<clock, key, ops, cache, req, past>>

-----------------------------------------------------------------------------
(* The signers. *)

Step(r, from, to, got) ==
  /\ req[r].pc = from
  /\ req' = [req EXCEPT ![r] = [pc |-> to, got |-> got]]

\* The replica's entry for the request's algorithm, while it is young enough.
Fresh(r) == {e \in cache : /\ e.signer = req[r].got.signer
                           /\ e.alg = req[r].got.alg
                           /\ clock - e.loaded < Ttl}

\* resolve: a fresh entry answers; otherwise the instant is noted before the
\* table is read.  A cached miss ends the request, or sends resolve_any on to
\* another algorithm.
Resolve(r) ==
  /\ \/ \E e \in Fresh(r) :
          \/ e.kid # NoKey /\ Step(r, "idle", "held", e)
          \/ /\ e.kid = NoKey
             /\ \E a \in Algs :
                  Step(r, "idle", "idle", [req[r].got EXCEPT !.alg = a])
     \/ /\ Fresh(r) = {}
        /\ Step(r, "idle", "load", [req[r].got EXCEPT !.loaded = clock])
  /\ UNCHANGED <<clock, key, sched, ops, cache, past>>

\* active_signing_key: the table is read with no lock held.
Load(r) ==
  LET active == In(key, req[r].got.alg, "active") IN
  /\ \E k \in IF active = {} THEN {NoKey} ELSE active :
       Step(r, "load", "read", [req[r].got EXCEPT !.kid = k])
  /\ UNCHANGED <<clock, key, sched, ops, cache, past>>

\* Mutant: the entry's age counts from the moment it is stored.
StoreAsOfNow(r) ==
  LET entry == [req[r].got EXCEPT !.loaded = clock] IN
  /\ cache' = {e \in cache : ~ /\ e.signer = entry.signer
                               /\ e.alg = entry.alg}
              \cup {entry}
  /\ entry.kid # NoKey /\ Step(r, "read", "held", entry)
  /\ UNCHANGED <<clock, key, sched, ops, past>>

\* The entry is stored when the answer is back, over whatever is there.
Store(r) ==
  /\ cache' = {e \in cache : ~ /\ e.signer = req[r].got.signer
                               /\ e.alg = req[r].got.alg}
              \cup {req[r].got}
  /\ \/ req[r].got.kid # NoKey /\ Step(r, "read", "held", req[r].got)
     \/ /\ req[r].got.kid = NoKey
        /\ \E a \in Algs : Step(r, "read", "idle",
                                [req[r].got EXCEPT !.alg = a, !.loaded = 0])
  /\ UNCHANGED <<clock, key, sched, ops, past>>

\* The lease is the one of the entry, which must still be the same key.
Lease(r) ==
  /\ req[r].got \in cache
  /\ Step(r, "held", "leased", req[r].got)
  /\ UNCHANGED <<clock, key, sched, ops, cache, past>>

ExpiresAt(r) == req[r].got.loaded + Ttl

\* signing_authority: the row is locked if it is active or retiring, and the
\* lease is checked again after the wait.
Fence(r) ==
  /\ Step(r, "leased", "fenced", req[r].got)
  /\ key[req[r].got.kid].state \in Signing
  /\ clock < ExpiresAt(r)
  /\ UNCHANGED <<clock, key, sched, ops, cache, past>>

\* PreparedKey::sign, any number of times while the fence is held.
Sign(r) ==
  /\ Holds(r)
  /\ clock < ExpiresAt(r)
  /\ past' = [past EXCEPT ![req[r].got.kid].signed = clock]
  /\ UNCHANGED <<clock, key, sched, ops, cache, req>>

\* The request ends, by success, by any refusal or by cancellation; the
\* transaction that holds the fence ends with it.
Finish(r) ==
  /\ req[r].pc # "done"
  /\ Step(r, req[r].pc, "done", [req[r].got EXCEPT !.kid = NoKey, !.loaded = 0])
  /\ UNCHANGED <<clock, key, sched, ops, cache, past>>

-----------------------------------------------------------------------------
Lifecycle ==
  \/ \E a \in Algs : \/ ApplySchedule(a)
                     \/ Rotate(a)
                     \/ RotateNow(a)
                     \/ \E policy \in Schedules : SetSchedule(a, policy)
  \/ \E op \in ops : Activate(op) \/ AbandonRotation(op)
  \/ \E k \in Kids : Retire(k) \/ Purge(k)

Serve ==
  \E r \in Requests : \/ Resolve(r) \/ Load(r) \/ Store(r) \/ Lease(r)
                      \/ Fence(r) \/ Sign(r) \/ Finish(r)

Next == Tick \/ Lifecycle \/ Serve

Spec == Init /\ [][Next]_vars

-----------------------------------------------------------------------------
(* Properties. *)

\* An algorithm has one active key at most, and one staged key at most,
\* whatever sweeps, rotations and activations interleave (keys.rs, run and
\* stage: "the second caller waits and then observes the first caller's work
\* rather than repeating it").
OneOfEach ==
  \A a \in Algs, state \in {"pending", "active"} :
    \A j, k \in In(key, a, state) : j = k

\* Once an algorithm has an active key it never lacks one again: no
\* rotation, retirement, purge or half-finished immediate rotation takes an
\* issuer offline (keys.rs, retire and purge).
IssuerStaysOpen ==
  [][\A a \in Algs : In(key, a, "active") # {} => In(key', a, "active") # {}]_vars

Rank == [none |-> 0, pending |-> 1, active |-> 2, retiring |-> 3,
         retired |-> 4, purged |-> 5]

\* A key never moves backwards, and what stopped signing is not brought back
\* by an activation that was decided before it stopped (keys.rs, activate).
NeverBack ==
  [][\A k \in Kids : Rank[key[k].state] <= Rank[key'[k].state]]_vars

\* While a request holds its fence, and so until what it signed is
\* committed, its key is one that is published and not withdrawn: a
\* withdrawal that commits first prevents the signature, one that comes
\* later waits (signing.rs, prepare; key_store.rs, signing_authority).
FencedKeyStands ==
  \A r \in Requests : Holds(r) => key[req[r].got.kid].state \in Signing

\* A superseded key signs for one cache lifetime at most, although loads are
\* stored late and over newer ones (signing.rs, resolve; rotation.rs, "How
\* long a rotation takes to take effect").
SupersededStopsSigning ==
  \A k \in Kids : key[k].state = "retiring" /\ past[k].signed # 0 =>
                    past[k].signed < key[k].retiring + MaxLag + Ttl

\* A verifier that keeps a JWK Set for JwksAge seconds never meets an
\* unfamiliar kid, but for an algorithm's first key and an immediate
\* activation (keys.rs, run and the module's "pending").
KnownToVerifiers ==
  \A k \in Kids : past[k].signed # 0 /\ ~past[k].early =>
                    past[k].announced + JwksAge <= past[k].signed

\* Until the last token a key signed expires, the key is in the JWK Set,
\* unless an operator took it out (keys.rs, run, the grace period).
VerifiesForLife ==
  \A k \in Kids :
    /\ past[k].signed # 0
    /\ clock < past[k].signed + TokenLife
    /\ ~past[k].pulled
    => key[k].state \in Published
=============================================================================
