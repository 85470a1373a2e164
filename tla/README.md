# Asterius IdP: TLA+ models and proofs

Asterius is a multi-tenant OpenID provider: a Rust server (`crates/server`) over
PostgreSQL (`crates/store-pg`), run as several identical replicas behind a load
balancer. Its promises are mostly promises about *concurrency through the
database*: a code is spent once, a withdrawn authorization pays for nothing
more, a message is delivered at least once and in order, a key is published
before it signs and for as long as what it signed is valid, a logout reaches
every participant, an audit trail cannot be edited unseen. Each of these is
kept by a handful of SQL statements, executed by many requests, sweeps and
operators in any order, any of which may die between two statements. That is
what these modules model.

Contents

1. [Inventory](#1-inventory)
2. [The modules and how they follow the code](#2-the-modules-and-how-they-follow-the-code)
3. [The runs](#3-the-runs)
4. [The proofs](#4-the-proofs)
5. [Where code and documentation disagree](#5-where-code-and-documentation-disagree)
6. [What is not modelled](#6-what-is-not-modelled)
7. [Plan](#7-plan)

---

## 1. Inventory

`PROJECT.json` lists every component with its source files. The ones with a
state machine worth checking:

| Component | State it keeps | Operations | Hard behaviour | What makes it correct |
|---|---|---|---|---|
| **Outbox and delivery worker** (`store-pg/outbox.rs`, `server/outbox`) | `outbox`, `outbox_attempts`; tasks in each worker | enqueue in the caller's transaction, claim with a lease, deliver, ack, requeue, drop, sweep, abandon with a stream | leases that lapse during slow deliveries, crashes between claim and ack, late acks, ordering keys, ids taken before commit | an old attempt never settles a newer claim; rows of a key go in order; every owed row is settled; the trail explains the row |
| **Authorization codes** (`store-pg/codes.rs`, `http/authorization_code.rs`) | `authorization_codes` | issue, redeem once, detect a replay, sweep | concurrent redemptions, a replay at any later step of the first exchange | one code, one token; a replay ends what the code paid for |
| **Grants** (`store-pg/grants.rs`) | `grants` with an authority revision | create, claim, amend, revoke, purge | amendments and revocations between a handler's read and its signature | nothing is signed under authority that is gone |
| **Refresh tokens** (`store-pg/refresh.rs`, `http/refresh.rs`) | `refresh_tokens` | insert, redeem with a sliding deadline, rotate, revoke, revoke with a session, sweep | rotation chains, retries inside the grace window, a revocation between two statements | rotation extends and widens nothing; a revoked token pays for nothing |
| **Withdrawal of access tokens** (`store-pg/cutoffs.rs`, `http/introspection.rs`, `http/access_token.rs`) | `access_token_cutoffs`, denylist | mark, look up, sweep | marks written out of order, comparison in whole seconds, sweeps | an inactive token is inactive for good |
| **Signing keys** (`store-pg/keys.rs`, `key_store.rs`, `server/signing.rs`, `server/rotation.rs`) | `signing_keys`, `key_rotation_schedules`, a cache per replica | schedule pass, rotate, rotate now, activate, retire, purge; resolve, lease, fence, sign | sweeps of several replicas, two-transaction rotations, stale cache loads, withdrawals during a signature | one active key; published before it signs and until its tokens expire; stops when superseded |
| **Sessions and logout** (`store-pg/sessions.rs`, `http/logout.rs`, `http/step_up.rs`, `http/account_sessions.rs`, `backchannel.rs`) | sessions, participants, grants that name a session | touch, rotate, revoke, record a participant, notify, signal, sweep | a digest rewritten while others hold the old one, requests that reach the row out of order, five statements of a logout each of which can fail | what ended stays ended; touches commute; participants and refresh tokens follow every rotation |
| **Device grant, CIBA** (`device_codes.rs`, `ciba_requests.rs`, `http/device.rs`, `http/device_code.rs`, `http/approvals.rs`, `http/ciba_grant.rs`) | one row per request, its grant, its ping | poll with slow-down, approve, deny, redeem, ping, expire | two polls redeeming at once, two tabs deciding, expiry between poll and redemption, lost answers | one answer, one issuance; a ping follows its decision; a patient client is never slowed |
| **SSF transmitter** (`ssf_streams.rs`, `ssf_poll.rs`, `http/ssf_poll.rs`) | streams, poll queue | status changes, emit, poll, acknowledge, refuse, delete | unlocked reads before an insert, lost answers, concurrent polls, pause with SETs queued | no queued SET is lost before the receiver has it; a refusal is on the trail; a pause is bounded; the queue drains |
| **Audit chain** (`store-pg/audit.rs`) | hash-chained rows per tenant | append under an advisory lock, purge, verify | concurrent appends, rollbacks, isolation levels, purge of the front | what was written verifies, what was tampered with does not; records are visible in the order of their ids |
| Replay guard, idempotency (`replay.rs`, `admin-api/idempotency.rs`) | seen identifiers | record, expire | a retry during the first call | first use wins once |

The remaining parts (agent tasks, entitlements, token exchange, provisioning,
WebAuthn, SAML, OID4VP/VCI, policy evaluation, record management, console and
tools) are listed in `PROJECT.json` with the reason each is left out.

**How the parts interact.** The authorization endpoint creates or
amends a grant and then inserts a code for it, in two statements. The token endpoint redeems the code, reads and claims
the grant, signs an access token inside a transaction that locks the grant
(`sign_unbound_with`, `agent_tasks.rs`) and *then* inserts a refresh token.
Every withdrawal (revocation endpoint, grant management, logout, code replay,
amendment) writes the grant or the refresh row and an access-token cutoff, which
introspection reads together with the grant. Signing takes its key from the
replica's cache and holds a `FOR SHARE` lock on the key's row until the response
is committed. Logout, SSF and mail leave through the outbox, written in the
transaction of the change they announce.

---

## 2. The modules and how they follow the code

| Module | Contents |
|---|---|
| `Delivery` | what the outbox promises: an abstract specification, implemented by `Outbox` |
| `Outbox` / `MCOutbox` / `OutboxProofs` | the outbox; its instances; its theorems |
| `Authority` / `AuthorityProofs` | what one authorization promises: an abstract specification, implemented by `Tokens`; what follows from it |
| `Tokens` / `MCTokens` / `TokensProofs` | grant, codes, refresh and access tokens of one authorization |
| `Keys` / `MCKeys` / `KeysProofs` | the signing keys of one tenant and the replicas that sign |
| `Consent` | what a decoupled authorization promises: an abstract specification, implemented by `Polling` |
| `Polling` / `MCPolling` / `PollingProofs` | one device or CIBA request: its tabs, polls and ping |
| `Sessions` / `MCSessions` / `SessionsProofs` | one browser session: requests, redemptions, logout |
| `Streams` / `MCStreams` / `StreamsProofs` | one SSF stream delivered by polling: emitters, polls, receiver |
| `Audit` / `MCAudit` / `AuditProofs` | the hash chain of one tenant and the transactions that append to it |

Conventions. One action is one SQL statement run on the pool, or one
transaction: everything between two of them interleaves. A handler that makes
several is a process with a program counter. The death of a request, a dropped
connection and every error return in between are one action of the process
(`Stop` in `Tokens`, `Finish` in `Keys`, `TaskLost` and `Crash` in `Outbox`,
`Lost` in `Polling` and `Sessions`, `Lose` in `Streams`, `Rollback` in `Audit`). A
call that reads the clock, then waits for a lock, then commits, is stamped with
an instant up to `MaxLag` older than its commit. Definitions marked *Mutant* are
plausible wrong versions of the definition that follows them; no specification
uses them. `PROJECT.json` ("map") gives the lines of every definition, and
"mutants" which mutant breaks which property.

### Outbox

State: `row` (the table; the statuses are the schema's, plus *absent*, *open* =
inserted and not committed, *gone* = deleted or rolled back), `trail`
(`outbox_attempts`), `tasks` (spawned `finish` tasks, each with the claim's
snapshot of attempt number and budget). `received`, `requeued` and `late` are
history.

| Action | Code |
|---|---|
| `Enqueue`, `Commit`, `Rollback` | `enqueue` inside the producer's transaction; the id comes from the sequence at the insert, visibility at the commit |
| `Claim` | `claim`: due rows, or rows whose lease lapsed, with an attempt left, no earlier owed row of the key, oldest first, up to the batch; counts the attempt |
| `Deliver` | the deliverer's verdict by family, and the final attempt turned into an abandonment |
| `Ack` | `ack`: trail entry and row in one transaction, fenced on `status = 'claimed' and attempts = …`; wipes a settled mail |
| `TaskLost`, `Crash` | a panic or failed ack; the loss of a worker with its tasks |
| `Requeue`, `DropLetter`, `Sweep`, `DeleteStream` | the operator's dead-letter calls, retention, deletion of an SSF stream |

Time is one flag per row, `ready`: the backoff has passed or the lease has
lapsed. `Elapse` raises it at any moment, so that every relation between lease,
backoff and length of a delivery is explored; how long a backoff is, is
abstracted away.

`Delivery` says the same without workers, leases, attempts and budgets: a letter
is owed from its commit until it is settled, is called delivered only once a
receiver was handed it, and is not handed over while an earlier letter of its
key is owed, unless that one is excused. The refinement mapping (`Promise` in
`Outbox`) reads the phase of a letter off its row (`Letter`), the letters handed
over off `received`, and excuses what was requeued or committed late. Claims,
retries, lapsed leases and crashes are stutters of it.

### Tokens

State: one `grant` with its authority revision, its `cutoff`, the `deny`list,
`code` by authorization, refresh `row` by the request that inserted it, `auth`
(authorizations that amend the grant), `req` (token requests with their copy of
the grant) and `signed`. A revoked refresh row and an amendment keep the instant
they were stamped with (`since`, `at`), which the handler read before its
transaction: up to `MaxLag` before the commit. The clock counts whole seconds, the granularity of
`iat` and of the comparison with a cutoff.

| Action | Code |
|---|---|
| `BeginCode`, `RedeemCode` | the handler's start; `redeem`: one `UPDATE … where consumed_at is null and expires_at > now` |
| `ReplayGrant`, `ReplayCascade` | a spent code: the grant is revoked, then its refresh tokens, in two statements without a transaction |
| `FindGrant`, `ClaimGrant` | `find`, `mark_claimed`: the copy the handler mints from; a refresh narrows it |
| `Sign` | `sign_unbound_with`: lock the grant, compare status and revision, sign |
| `IssueRefresh` | the insert after that transaction has ended |
| `BeginRefresh`, `Present`, `Supersede` | `redeem` of a refresh token with its sliding deadline; rotation |
| `Revoke`, `RevokeRefresh`, `RevokeForSession`, `DenylistAccessToken` | the withdrawals, each with its cutoff |
| `AmendFind`, `Amend`, `IssueCode` | merge or replace computed from a copy of the grant, the amendment, the code of the amending authorization |
| `SweepCode`, `SweepRefresh`, `SweepDenylist`, `SweepCutoff`, `PurgeUnclaimed` | retention |

`Active(r)` is introspection's answer for the access token of request `r`:
signed, unexpired, not on the denylist, not before the cutoff, and its grant
active. Both of the last two are looked up by the token's `grant_id` claim,
which a tenant may switch off (`Named`).

`Authority` says the same without clocks, cutoffs, revisions, locks or handlers.
An authorization is open or has ended and holds scopes. A code pays for one token
within what it holds at that instant; a refresh token pays for no more than its
own access token has; a token that is refused is refused for good; and a
withdrawal reaches the tokens it is about. How far is said by two parameters:
the end of an authorization reaches every token that names it (`Linked`, which is
`Named`), an amendment or a revoked refresh token reaches what came before where
withdrawals commit in the second they read (`Prompt`, which is `Named` with
`MaxLag = 0`). The refinement mapping (`Promise` in `Tokens`) shows a token as
introspection would (`Seen`): not issued, good while `Active`, dead otherwise.
Reads, claims of the grant, rotations and sweeps are stutters of it. A request
that a withdrawal overtook may still be signed, and its token is born dead.

### Keys

State: `key` (`signing_keys`), `sched` (per algorithm), `ops` (immediate
rotations between their two transactions), `cache` (entries of every
`CachedSigner`), `req` (signing requests); `past` is history: when a key was
announced, last signed, whether it skipped propagation, whether an operator
pulled it.

| Action | Code |
|---|---|
| `ApplySchedule`, `Rotate` | `run`: retire what passed its grace, promote what is ready, stage a successor when due or forced (`Pass`) |
| `RotateNow`, `Activate`, `AbandonRotation` | `rotate` with `immediate`: stage in one transaction, activate in another, or stop between them |
| `Retire`, `Purge`, `SetSchedule` | the operator's calls |
| `Resolve`, `Load`, `Store` | a fresh cache entry or a read of the table, stored over whatever the cache holds by then |
| `Lease`, `Fence`, `Sign`, `Finish` | a lease no longer than the entry's, the `FOR SHARE` lock of `signing_authority`, any number of signatures, the end of the transaction |

`Commit` is what every lifecycle transaction shares: it waits for the fences of
the rows it changes.

### Polling

State: `req` (the row of `device_codes` or of `ciba_requests`; `flow` says
which), `grant` (created by a tab before its decision), `tab`, `poll` (handlers),
`ping` and `pinger`; of the client `told`, `asked` and `final`, what it knows
from the answers that reached it. The rest is history. A handler reads the clock
once, when it starts, and everything it writes carries that instant. The unit of
time is the slow-down increment.

| Action | Code |
|---|---|
| `Issue` | the device authorization or backchannel endpoint inserts the row |
| `Submit`, `ReadPending`, `CreateGrant`, `Approve`, `Deny`, `RecordFailure` | a confirmation: read, create the grant, decide by one `UPDATE … where status = 'pending'`; in CIBA the ping is queued in the same transaction |
| `Ask`, `Poll`, `Redeem`, `ClaimGrant`, `Sign`, `Reply` | a token request: one statement stamps and perhaps slows the row, one redeems it, then the grant's claim and the signature |
| `StrangerPoll` | a poll of the code by another client |
| `PingRead`, `PingPost`, `PingMark`, `PingLost` | the notification worker |
| `RevokeGrant`, `PurgeGrant`, `Sweep`, `Lost` | withdrawal, retention, a lost request or answer |

`Consent` says what this comes to for the person and the client: the first answer
is the answer, an approval is drawn on once and pays once, only while it was not
withdrawn, a refusal is heard only where a person refused, and nobody is called
before there is an answer. The refinement mapping (`Promise` in `Polling`) takes
the answer from `taken`, the spend from `redeemed_at`, the payment from the
signatures, the withdrawal from the grant's status, and what is heard from the
responses under way. Times, intervals, expiry and the failed attempts are
stutters.

### Sessions

State: `row` (its digest changes with every rotation), `listed`
(`session_clients`), `grant` by client with the digest it names and its refresh
token, `token` (redemptions in progress), `handler` (browser and console
requests), `told` (logout tokens queued). `recorded` and `used` are history.

| Action | Code |
|---|---|
| `Consent`, `Touch`, `MakeGrant` | a request of the browser: read the session, extend the idle deadline, create a grant that names the digest read |
| `StepUp`, `Rotate` | step-up authentication: row, participants and grants move to a new digest in one transaction |
| `Logout`, `Close`, `Find` | the logout endpoint; the console and the account pages, which list sessions first and find them again |
| `Revoke`, `RevokeFails`, `RevokeRefreshTokens`, `RefreshFails`, `Participants`, `Notify`, `Signal` | `end_session` statement by statement, with the failures it logs and passes over. `Notify` skips the participants no logout token can be built for (`skipped`) and queues the rows of all others, or none |
| `Redeem`, `Facts`, `Remember`, `Issue` | the token endpoint: grant, facts of the session, participant, ID token. The participant's write may fail whatever the digest (`unlisted`), and the ID token leaves all the same |
| `Lost`, `TokenLost`, `Tick`, `Sweep` | a dead request, time, retention |

### Streams

State: `stream` (status, method), `queue` with `stamp` (`queued_at`), `fate` of
every SET, `emitter` (open transactions: the SETs still to queue, the one being
queued, the rows inserted and not committed) and `poll` (handlers), `held` and
`got`, which are the receiver's memory. `retired` and `trail` are history, as are
`backlog`, what was queued or let in at the pause, and `unseen`, the most that
other open transactions had let in when a count passed.

| Action | Code |
|---|---|
| `SetStatus`, `Switch`, `Delete`, `Expire` | the stream's management endpoint; retention |
| `Emit`, `Status`, `Count`, `Insert`, `Commit`, `Abort` | a transaction that queues one SET (`queue_poll`) or several of one stream (`PgSsfReceiver`). For each, `enqueue` reads the status, then the length, without a lock and without others' uncommitted rows, and inserts; the foreign key makes a deletion of the stream wait for the transaction |
| `Send`, `Acknowledge`, `RecordRejections`, `Reject`, `Deliver`, `HasPending`, `Timeout` | one poll: acknowledgements, refusals on the audit trail before they are deleted, delivery in batches, waiting of a long poll |
| `Receive`, `Lose` | the answer arrives, or the request or its answer is lost |

### Audit

State: `rows` (committed), `sequence`, `holder` of the tenant's advisory lock,
`tx` (transactions with their isolation level, snapshot and own records);
`purged` is history. SHA-256 is taken to be free of collisions: a hash is the
sequence of events it covers.

| Action | Code |
|---|---|
| `Begin`, `Write` | a transaction starts, and takes its snapshot with its first statement |
| `Lock`, `ReadTip`, `Insert`, `Again` | `append`: the lock, the newest record *the transaction can see*, the record; another append of the same transaction |
| `Commit`, `Rollback` | the lock goes with the transaction |
| `Purge`, `Tick` | retention by `occurred_at` |

`Verifies` is `verify_chain`, with the records whose details it cannot read as a
parameter.

---

## 3. The runs

| Run | Question | Bounds |
|---|---|---|
| `outbox_row` | One row of any family, two workers: attempt fence, trail, and settled rows stay settled | 2 attempts, 1 requeue |
| `outbox_liveness` | Two rows of one key: order, implementation of `Delivery`, and, under fairness, is every owed row settled? | 2 workers, 2 attempts |
| `outbox_wedged` | *violation*: a lapsed claim is always reclaimed | 1 row, 2 attempts |
| `tokens_lifecycle` | Two requests, codes or refresh tokens under rotation, raced by an amendment, revocations, a logout, a replay and every sweep, with withdrawals that commit up to a second late; implementation of `Authority` | 2 authorizations, 1 scope, codes, tokens and refresh tokens live 2 s, grace 1 s, clock ≤ 2, `MaxLag` 1 |
| `keys_rotation` | Sweeps, forced and immediate rotations, retirements and purges around a signing request that reads a replica's cache | 3 keys, 1 request, cache 2 s, token 1 s, clock ≤ 5 |
| `polling_decide` | Two polls and two tabs over one request, with a stranger, a ping worker, expiry and withdrawal of the grant; implementation of `Consent` | 1 lost message, clock ≤ 2 |
| `polling_rate` | Overlapping, early, late and lost polls of a request nobody answers | 2 polls, lifetime 3, 2 slow-downs, clock ≤ 4 |
| `polling_ceiling` | *violation*: a row with `FAILURES_PER_CODE` failed confirmations is refused | 3 tabs, a ceiling of 2 |
| `sessions_end` | Consents, step-ups, a logout and closings, with the redemptions of two clients | 3 requests, absolute 3, idle 2, clock ≤ 3 |
| `streams_poll` | Emission and polling through pause, disabling, switch, deletion, retention, refusals and losses | 2 SETs, one of which the receiver refuses, 2 transactions of one SET or both, 2 polls, batch 1, limit 1, 1 loss |
| `audit_chain` | Transactions that append up to twice, at either isolation level, with rollbacks and purges | 3 transactions, clock ≤ 1 |
| `audit_forked` | *violation*: the chain never forks | 2 transactions |

**What the properties say.** Types and a few simpler invariants are not repeated
by the runs, since they are proved for every instance (section 4).

*Outbox.* `OneTaskPerAttempt`: an attempt number belongs to one task. This is
the fact the whole ack fence rests on. `KeyOrderKept`: per-key order, outside
the two exceptions the code has (a requeue, and a row committed after a later
row of its key was visible). `TrailExplainsRow`, `SettledStays`: row and trail
agree over several lives of a row, an old ack changes nothing. `KeepsPromise`:
the tables implement `Delivery`. `EventuallySettled`: nothing is stuck, except
behind a wedged row (section 5).

*Tokens.* `SignedUnderCurrentAuthority` (nothing is signed under authority that
is gone, whatever happened since the handler read it); `KeepsAuthority` (the
tables and handlers implement `Authority`, so that one code pays once);
`CredentialsKeepTheirGrant` (a purge never deletes the one row through which a
credential could be withdrawn); `RotationInherits`; `InactiveStaysInactive` (no
late mark and no sweep revives a token);
`RevocationReaches` and `AmendmentReaches`: what a revoked refresh token paid for,
and a code's token with a scope the grant has lost, is inactive, whether it was
signed before the withdrawal or after. The exception is exact: a request that
arrived after the withdrawal had read the clock and before it committed.

*Keys.* `OneOfEach`, `IssuerStaysOpen`, `NeverBack` for the table;
`FencedKeyStands`, `SupersededStopsSigning`, `KnownToVerifiers`,
`VerifiesForLife` for what verifiers see.

*Polling.* `OneAnswerOneIssuance`: one approval pays for one token response,
whatever polls redeem at once. `PingFollowsDecision`. `KeepsConsent`: rows and handlers implement `Consent`, so
that a spend is never given back and no tokens are signed for an approval that
was withdrawn. `PatientNeverSlowed`: a client that waits
as long as it was told is not told to slow down, unless an answer was lost or a
stranger stamped the row. `TooFastIsEarned`: "stop polling" comes after every
slow-down. `ClientIsAnswered`: a client that keeps asking gets a final answer.

*Sessions.* `IdleClock`: the idle deadline is that of the latest request that was
let in, in whatever order the requests reached the row. `EndedStays`.
`SidHolderListed`: whoever holds an ID token that names the session is a
participant, through every rotation, unless its own participant write did not
happen. `ClosedMeansTold`: a revocation that matched the row, and whose
notifications could be queued, tells every participant recorded before it, except
one no logout token could be built for: what fails for one client costs no other
its own. `RefreshGoesToo`: it revokes the refresh tokens of the grants made before
it.

*Streams.* `NothingLost`; `RefusalOnTrail` (the audit entry of a refusal is at
least attempted before the row goes); `HeldBounded`: a paused stream holds no more
than was queued or let in when it was paused, or than the limit and what other
transactions had let in, unseen, when a count passed, which is the overshoot that
unlocked counts and transactions of several SETs allow; `QueueDrains`.

*Audit.* `ChainVerifies` with its two exceptions, `TamperEvident` (what is edited
or cut out of a trail that verified does not verify, even where only that record
can be read), `CommittedInOrder`, `AppendsEnd`.

**Why the bounds are enough.** Every race here is between two or three parties
over one row; the bounds give each property its parties plus one. In `Outbox`,
two workers are a lapsed holder and a reclaimer, two attempts a retry and a
final attempt, one requeue a second life. In `Tokens`, two requests are a
redemption and a replay, or a code exchange and the refresh that spends its
result. Longer chains of rotations, with retries within the grace window, and
tokens that do not name their grant are left to the theorems, and with `MaxLag` 1
so is the part of `Authority` that promises something of prompt withdrawals only.
In `Keys`, three keys are a retiring, an active and a staged one;
five seconds are a propagation, a cache lifetime and a token's life; several
algorithms and requests, an older load of the cache stored over a newer one, and
commits later than the instants they carry, are left to the theorems. In `Polling` two polls redeem or stamp out of order, and
two tabs decide against each other. In `Sessions` three requests are a logout, a
rotation that overtakes it and a consent that overtakes both. In `Streams` two
polls are an acknowledgement and the answer it races, and two transactions pass a
limit of one together. In `Audit` three transactions are a holder
of the lock, one that waits and one that has its snapshot. The safety properties that are proved
(section 4) do not depend on any of these bounds. Symmetry is used over workers,
requests, tabs, polls and kids, none of which the actions compare except by
equality, and only where safety is checked.

Deadlock is checked in `keys_rotation`, where some step is possible in every
state of the bounded instance. It is not in the others: all rows of the
bounded sequence may be gone, or all requests done and the clock at its bound.

**Fairness** (`FairSpec` of the module). Weak fairness throughout; nothing is
assumed of producers, people, operators or failures.

- `Outbox`: `Elapse` (clocks advance), a claim of each row (`run` polls for ever
  and the claim orders by id, so that a row due for ever is reached), `Deliver`
  and `Ack` per worker and row (the outbound client has a timeout, and the task
  acks as soon as the deliverer returns). Workers may crash for ever, and each
  crash spends an attempt.
- `Polling`: the clock, a client that keeps asking, and the next statement of each
  token request. Nobody has to decide: the request expires.
- `Streams`: the next statement of each emitter and each poll, and a receiver that
  keeps polling. `QueueDrains` is about a stream that stays enabled.
- `Audit`: each transaction executes its next statement or rolls back; PostgreSQL
  grants a free advisory lock to somebody who waits for it.

---

## 4. The proofs

TLAPS proves each of the following for every value of the constants that
satisfies the module's `ASSUME`s: any number of rows, workers, requests,
amendments, replicas, keys and seconds.

| Theorem | Statement | Argument |
|---|---|---|
| `OutboxProofs!TypeCorrect` | `TypeOK` | inductive as it stands, given `LimitsAssumption` |
| `OutboxProofs!AttemptsFenced` | `OneTaskPerAttempt` | `Counters` adds that a task's row is visible and that a budget is never more than `MaxAttempts` above its counter, so that a requeue never lowers it below a snapshot. A claim increments the counter, so the new task's number is above every old one. |
| `OutboxProofs!KeyOrder` | `KeyOrderKept` | with `Counters`: `Due` refuses a row with an earlier owed row *at the claim*; afterwards an earlier row can become owed only by a requeue or a late commit, which the history sets record |
| `OutboxProofs!TrailAgrees` | `TrailExplainsRow` | `TrailInv`: no entry of the trail is above its row's counter, the entry of a claim's attempt is still missing, and a settled row is explained by its last one |
| `OutboxProofs!PayloadStays` | `PayloadKept` | only the ack that settles a row wipes it, and it is fenced |
| `OutboxProofs!SettledForGood` | `SettledStays` | the fence of `ack` and `OneTaskPerAttempt` |
| `OutboxProofs!PromiseIsKept` | `Spec => Promise!Spec` | step simulation: each action is a step of `Delivery` or a stutter, given that a verdict of "sent" follows a hand-over (`ReportedReceived`) and that order is kept |
| `TokensProofs!TypeCorrect` | `TypeOK`, with idle ≤ absolute deadline | inductive |
| `TokensProofs!SignedUnderAuthority` | `SignedUnderCurrentAuthority` | `Fence`: a request's copy has a revision at most the grant's, and a code request with an equal revision has the grant's scopes. The revision grows with every amendment and revocation; without it the guard of `Sign` says nothing about what was read earlier. |
| `TokensProofs!GrantKept` | `CredentialsKeepTheirGrant` | `Custody`: a refresh row has a signed token, a signed token a claimed grant, and a claimed grant is not purged |
| `TokensProofs!OneTokenPerCode` | `CodePaysOnce` | `SpentOnce`: a request past redemption holds a spent code, and no two hold the same one |
| `TokensProofs!RotationBounded` | `RotationInherits` | `Lineage`: a refresh presents the row of a finished request and asks for no more than it, so that predecessors never change under it |
| `TokensProofs!InactiveForGood` | `InactiveStaysInactive` | `MarkLasts`: a mark that refuses a token lives at least as long as the token, because `TokenLife ≤ MaxTokenLife` |
| `TokensProofs!RevokedRefreshIsDead` | `RevocationReaches` | `Timely`, `RevokedCovered`: whatever a revoked row paid for is covered by the mark or by the end of the grant, or overtook the revocation. For every lag. |
| `TokensProofs!CodeTokensNarrowed` | `AmendmentReaches` | `NarrowedCovered`: a code's token stays within the grant's scopes, is covered by the mark, or overtook an amendment that took a scope from it (`Outran`). For every lag. |
| `TokensProofs!ImplementsAuthority` | `KeepsAuthority` | step simulation, from all of the above: `Fence` and `SpentOnce` make a signature a payment, `Lineage` makes it a renewal, `MarkLasts` and `RevokedCovered` make withdrawals reach what they must, and no sweep gives a token back. No assumption on lag or names: they are the parameters of `Authority`. |
| `AuthorityProofs!OneTokenEach`, `NeverWider`, `EndReachesAll`, `WithdrawalCovers`, `RefusedForGood` | one token per code; no renewal wider; the end reaches all that name it; a prompt withdrawal covers what it takes away; a refusal and an end are for good | an invariant of the abstract authorization, in two cases: a step mints one token or some die |
| `TokensProofs!AuthorityHolds` | the first four, of `Tokens` | the refinement and the theorems of `AuthorityProofs` under its mapping; nothing is looked at twice |
| `KeysProofs!TypeCorrect` | `TypeOK`, the stamps following the state | inductive |
| `KeysProofs!OneKeyOfEach` | `OneOfEach` | a pass demotes before it promotes and stages only when nothing is staged |
| `KeysProofs!IssuerNeverCloses` | `IssuerStaysOpen` | a demotion comes with a promotion; retire and purge refuse the active key |
| `KeysProofs!KeysNeverGoBack` | `NeverBack` | every transaction has one of six effects on a key, none of them backwards |
| `KeysProofs!FenceHolds` | `FencedKeyStands` | a transaction that would withdraw a fenced key waits in `Commit` |
| `KeysProofs!SupersededStops` | `SupersededStopsSigning` | `Known`: a cache entry of a key that is no longer active was loaded before its demotion committed, in whatever order loads are stored. Hence the lease ends within one cache lifetime. |
| `KeysProofs!TokensOutliveRotation` | `GraceSuffices => VerifiesForLife` | `SupersededStops` and the grace period: `grace ≥ TokenLife + Ttl + MaxLag` for every policy |
| `KeysProofs!VerifiersKnowKeys` | `PropagationSuffices => KnownToVerifiers` | a key made active by the schedule was staged a propagation period earlier; `propagation ≥ JwksAge + MaxLag` |
| `PollingProofs!TypeCorrect` | `TypeOK` | inductive |
| `PollingProofs!OneAnswer`, `ToldWhatWasDecided`, `PingsAreBacked` | `OneAnswerOneIssuance`, `AnswerIsThePersons` (tokens and refusals the client is told are what a person decided, expiry and withdrawal aside), `PingFollowsDecision` | one invariant: the row's status is a recorded decision (`RowDecided`), a poll past redemption is the only one and holds an approval (`Backed`, `SpentOnce`), a ping has a decision behind it (`PingBacked`) |
| `PollingProofs!DecisionsAreFinal` | `DecisionFinal` | every write of a status is guarded by `pending` |
| `PollingProofs!StopIsEarned` | `TooFastIsEarned` | `EarnedInv`: while the request is open, its interval is paid for in slow-downs (`PaidFor`), and no poll's instant is in the future (`Arrived`) |
| `PollingProofs!PatientIsServed` | `PatientNeverSlowed` | `PatientInv`: the row's interval is at most what the client was told plus an increment for each slow-down still under way to it (`CopiesAgree`), the row's stamp is no later than the client's last request (`StampKnown`), and a patient poll that is still to be answered is alone and on time (`OnTime`). The count of answers under way is what makes overlapping polls, whose statements and responses come in any order, add up. |
| `PollingProofs!ImplementsConsent` | `KeepsConsent` | step simulation: the one poll that spent the row is the only one that can sign, and finds the approval unpaid and its grant claimed (`SpentOnce`, `Backed`); a grant is created once (`Fresh`) |
| `SessionsProofs!TypeCorrect` | `TypeOK`, idle ≤ absolute deadline | inductive |
| `SessionsProofs!EndedForGood`, `IdleFollowsUse` | `EndedStays`, `IdleClock` | every write is guarded by the status; the greatest of the deadlines does not depend on their order |
| `SessionsProofs!SignalIsTrue` | `SignalHoldsForDigest`: a session-revoked event holds for the digest its sender read | `DInv`: no request holds a digest not drawn yet (`Drawn`), so that a revocation that matched nothing was of a digest that never comes back; one that matched leaves the digest as it is (`Struck`, `Hits`) |
| `SessionsProofs!HoldersAreListed`, `ParticipantsAreTold` | `SidHolderListed`, `ClosedMeansTold` | `PInv` = `DInv` and: no participant goes before the row does (`Roll`), a client is recorded before its ID token leaves, or marked as one whose write failed (`Remembers`), and a handler's list holds everybody recorded before its revocation (`Owed`) |
| `SessionsProofs!LogoutTakesRefresh` | `RefreshGoesToo` | `GInv` = `DInv` and: a client has one grant from one consent (`Consents`), its refresh token comes with the response to its code (`Issues`), and a grant that no rotation overtook names the present digest (`Follows`) |
| `StreamsProofs!TypeCorrect` | `TypeOK` | inductive |
| `StreamsProofs!NoSetIsLost`, `DeletedIsEmpty`, `RefusalsAreAudited` | `NothingLost`, `DeletedHoldsNothing` (a deleted stream has no SET queued), `RefusalOnTrail` | `QInv`: the receiver acknowledges only what it got, also in requests still under way (`Honest`), a refusal past its record is recorded (`Recorded`), and a row of an open transaction keeps the stream from being deleted (`Linked`) |
| `StreamsProofs!PauseIsBounded` | `HeldBounded` | `Kept`: counts what is queued together with what open transactions have let in (`Held`). A commit does not change the sum; a count that passes adds one SET, to a queue below the limit and what was unseen |
| `AuditProofs!TypeCorrect`, `VisibleInOrder` | `TypeOK`, `CommittedInOrder` | `Base`: the only uncommitted records are those of the lock's holder, and their ids are above every other |
| `AuditProofs!TrailVerifies` | `ChainVerifies` | `Chain` = `Base` and: a holder at READ COMMITTED that has read the tip has read the last record; each record was hashed over its predecessor; a purge takes the front when times follow ids |
| `AuditProofs!ForksHaveOneCause` | `ForksExplained`: of two records of the table that follow the same one, the later was an overtaken append at REPEATABLE READ | `ForkInv` = `Chain` and: events are numbered, so that no hash occurs twice (`Numbered`); a tip, and what a record follows, is a record no older than any that its writer saw (`Tips`, `Links`). Needs no order of times: a purge out of the middle cannot fork the chain either. |
| `AuditProofs!TamperingIsSeen` | `TamperEvident` | from the definition of `Verifies` and a hash without collisions |

The proofs of `Keys` rest on one lemma about a transaction, `Effect`: what it
does to one key is to leave it, retire it after its grace, supersede it, start
it, generate it, or take it out. Each later invariant is then a case analysis
over these six and the steps of a request, not over every action. In `Tokens`
and `Outbox` the inductive step has one case per action.

The two premises of the last theorems are where the numbers of a deployment
matter. `GraceSuffices` asks for the cache lifetime and the lag on top of the
token lifetime, while the schema's comment on the grace period asks for the
token lifetime only. `PropagationSuffices` holds with a margin for the defaults
(a JWK Set is cached for 300 s, a key is staged for 900 s).

**Only model-checked.** `EventuallySettled`, `ClientIsAnswered`, `QueueDrains` and
`AppendsEnd` are liveness under fairness, which the prover cannot do, nor
`ENABLED`. Every safety property of a passing run is proved. `CodePaysOnce`,
`DecisionFinal` and `AnswerIsThePersons` are proved and not checked by a run of
their own: the first follows from `KeepsAuthority`, the others from
`KeepsConsent`. `ForksExplained` is stated with its proof. The
violations of section 5 are counterexamples and need none. No module uses
`RECURSIVE` operators (the prover loses its SMT backend there) and no theorem
needs induction over data.

---

## 5. Where code and documentation disagree

Each of these is a run that ends in a counterexample; `PROJECT.json` quotes the
line that says otherwise.

1. **`outbox_wedged`** — the claim asks for `attempts < max_attempts` of a lapsed
   claim too, and the claim has already counted the attempt. If the worker of the
   *final* attempt dies, or its ack fails, the row stays `claimed` for ever:
   never reclaimed, dead-lettered or swept, holding back its key. The module
   comment says the next worker reclaims it.
2. **`audit_forked`** — the start of an access review appends at REPEATABLE READ
   (`access_reviews/mod.rs`). The lock is the tenant's, but the tip is read from a
   snapshot older than the lock: when another transaction appended in between,
   two records follow the same one, and `verify_chain` reports a tampering that
   never happened. The comment on `append` says concurrent appends cannot fork. This is the only way
   they can (`ForksHaveOneCause`, section 4).
3. **`polling_ceiling`** — a failed confirmation is counted against a device code
   only where an approval matched no pending row, and the ceiling refuses only a
   pending row. So the third of three tabs that approve finds the ceiling of two
   reached and an approved row, and nothing is refused (`FailClosed` in
   `PollingProofs`: no reachable row is ever refused by the ceiling). The comment
   on `FAILURES_PER_CODE`, the one on the counting statement and the migration all
   say that this many failures deny the row.

Remarks, met while modelling and not made into runs:

- Outbox: rows that end `expired` are never swept (`retention.rs` sweeps
  `delivered` and `abandoned`). The spread of the backoff is added after the cap.
  Ten default attempts span 2555 s, where a comment says a little over two hours.
- Tokens: with `grant_id_in_access_token` off, introspection looks up no cutoff
  for the grant (`introspection.rs:506`), so that revoking it leaves its access
  tokens active until they expire. The refresh row is inserted after the signing
  transaction has released the grant, with the scopes read before it
  (`authorization_code.rs`): an amendment in between does not narrow it. A
  rotation that redeemed a refresh token before its revocation inserts a live
  replacement after it (`refresh.rs:568`).
- Tokens: `purge_unclaimed` and `codes.purge_expired` have no caller outside the
  tests. A replay after the code's row was swept is "not found" and revokes
  nothing. An amendment whose lock wait crosses a second leaves a token requested
  meanwhile active with the old scopes: its cutoff "closes the window"
  (`grants.rs:1079`) up to the lag between reading the clock and the commit, which
  nothing bounds and which is what `AmendmentReaches` allows. A token bought in
  the very second of the amendment that issued its code is refused by the
  cutoff. A merge computed from a stale copy of the grant overwrites a concurrent
  one, since `amend` compares no revision.
- Keys: a pass for one algorithm retires the keys of every algorithm by its own
  grace period (`keys.rs`). "Never two keys of one algorithm in retiring" does not hold under
  immediate rotations. `rotate`'s `created` is documented as `None` when a key
  was already staged, where `run` answers with the staged key. An audit write
  that fails after the commit aborts an immediate rotation between its two
  transactions (`AbandonRotation`). The case "keys were destroyed" of
  `active_signing_key` cannot arise, the active key being unpurgeable.
- Polling: A poll of any client of the tenant stamps a device code,
  not a CIBA request. A slow-down whose answer is lost slows a patient client.
  Polls of an expired request still raise its interval. A CIBA ping can be posted
  twice. Concurrent backchannel requests count the live ones and insert without
  a lock. Refused or overtaken approvals leave unclaimed grants, and the purge of
  those has no production caller.
- Sessions: a revocation that matches no row is no error. When a rotation came
  between the read and the revocation, the session lives on under its new digest
  while a session-revoked event is emitted and a success audited; a comment in
  `end_session` says that a logout token for a live session would be a statement
  the server cannot stand behind. A consent overtaken by a rotation leaves a grant
  that names a dead digest. A participant recorded after the logout's read is
  never told, and one whose insert fails is only logged. A session rotated between
  the listing and the find of the console is passed over. After a crash between
  revocation and notification nobody retries. A refresh learns that a session has
  ended only once the row is deleted. LDAP synchronisation revokes sessions in its
  own transaction and tells nobody.
- Streams: `0030_ssf_poll_queue.sql` says that three things, "and nothing else",
  remove a row; retention is a fourth (`Expire`). `queued_at` is the arrival of the emitting request, so that a SET queued
  late is handed over after a newer one. A failed audit write of a refusal is
  passed over. A SET can be left on a stream disabled meanwhile. A switch of the
  delivery method strands what is queued. A paused stream answers with no SETs and
  `moreAvailable`. A thousand acknowledgements do not fit in a body of 16 KiB.
- Audit: a purge by `occurred_at` can cut a record out of the middle where times
  cross ids, although "Retention trims the front". After a purge of everything the
  chain starts again at its genesis value. `verify_chain` and `purge_older_than`
  have no production caller.

---

## 6. What is not modelled

- *In the modelled components.* Cryptography, key material and its envelopes,
  token contents other than scopes, audit records, client authentication, DPoP,
  rate limits, tenants (one each; tables are partitioned by tenant in every
  statement). One grant without parents: derivation by token exchange and the
  authority of agent tasks are left out. Clocks of replicas and database agree up
  to `MaxLag`. Of polling, the entry of the user code, hints and the count of live
  requests; of sessions, the authentication that begins one, front-channel logout,
  native SSO and changes of policy; of streams, subjects, the rate limit of
  verification requests and push delivery, which is `Outbox`; of the audit trail,
  the normalisation of events, queries and diagnostics, and deadlocks between row
  locks and the advisory lock, which PostgreSQL breaks by a rollback.
- *Outside.* A receiver is handed a row and answers anything. Whether a late POST
  of a lapsed attempt overtakes a later row at the receiver is beyond what this
  code controls; receivers deduplicate on the id.
- *Bounds*: `MaxRequeues`, `MaxClock`, `MaxOps`, `MaxLost` and `MaxAppends` appear
  in guards and are the only ones; ids, workers, requests and kids are finite sets in the runs and
  arbitrary in the proofs.
- *Other components.* Listed with reasons in `PROJECT.json`. Most of the
  repository by size is the admin API, pages, configuration and entities:
  routing, validation and rendering of records. Protocol parsing
  (SAML, OID4VP, WebAuthn, SCIM) and record management have little state to
  interleave; policy evaluation and rate limits are pure functions or counters;
  the console and the tools are clients.

---

## 7. Plan

Done: `Outbox` with `Delivery`, `Tokens` with `Authority`, `Keys`, `Polling` with
`Consent`, `Sessions`, `Streams`, `Audit`.

Next, most important first:

1. **Compositions**: `Sessions` with `Outbox`, for a logout from the revocation to
   the receiver; `Tokens` with `Sessions`, for the grants of a session that a logout
   ends while they are amended.
2. **Pushed authorization requests and interactions**: single use, expiry, and the
   state of the browser flow that creates a grant.
3. **Agent tasks and token exchange**: grants derived from grants, with the
   revisions of their parents in the fence.
4. **`Replay`**: replay guard and admin idempotency under retries.
5. **Leased effects**: temporary entitlements and provisioning.

Proofs to add to what exists: abstract specifications of a session (who is told
that it ended) and of a stream (a SET is queued, handed over, acknowledged or
refused), implemented by `Sessions` and `Streams`.
