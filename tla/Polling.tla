------------------------------ MODULE Polling ------------------------------
(***************************************************************************)
(* One decoupled authorization: a row of `device_codes` (RFC 8628) or of   *)
(* `ciba_requests` (CIBA), the client that polls for it at the token       *)
(* endpoint, the browser tabs in which a person answers it, and the ping   *)
(* that tells a CIBA client to come and fetch the answer.                  *)
(*                                                                         *)
(* Every handler reads the clock once, when its request arrives, and       *)
(* passes that instant to each of its statements: a slow request acts with *)
(* an old `now`, and two requests may act in the order opposite to the one *)
(* they arrived in.  One statement is one step.                            *)
(*                                                                         *)
(* Rows of different requests share nothing, so there is one.  A unit of   *)
(* time is the slow_down increment of five seconds.                        *)
(***************************************************************************)
EXTENDS Integers

CONSTANTS
  Poller,           \* the client's token requests that may be in flight
  Tab,              \* the forms submitted about this request; the grant an
                    \*   approval creates takes the name of its tab
  Hinted,           \* the tabs signed in as the person a CIBA request names
  Pinger,           \* workers that may hold the ping's outbox row, one
                    \*   after the other or with a lapsed lease
  None,             \* the null grant_id
  Lifetime,         \* expires_at - issued_at
  Interval,         \* POLL_INTERVAL
  Increment,        \* SLOW_DOWN_INCREMENT
  MaxSlowDowns,     \* MAX_SLOW_DOWNS
  FailuresPerCode,  \* FAILURES_PER_CODE
  SweepGrace,       \* how long the row outlives its expiry
  MaxClock,         \* bound: the last instant explored
  MaxLost           \* bound: the token requests and ping attempts that die

ASSUME PartiesAssumption == /\ Hinted \subseteq Tab
                            /\ None \notin Tab
ASSUME TimesAssumption ==
  /\ {Lifetime, SweepGrace, MaxClock, MaxLost} \subseteq Nat
  /\ {Interval, Increment, MaxSlowDowns, FailuresPerCode} \subseteq Nat \ {0}

VARIABLES
  clock,
  req,       \* the row
  grant,     \* the grants the tabs created
  tab,       \* the confirmation handlers
  poll,      \* the token endpoint's handlers
  ping,      \* the outbox row of the ping
  pinger,    \* the attempts to deliver it
  told,      \* the client: the interval it was told, by the responses
  asked,     \* the client: when it last sent a request
  final,     \* the client: it received an answer that ends the flow
  taken,     \* history: the answers of a person that were recorded
  issued,    \* history: token responses signed, by grant
  posted,    \* history: the ping was posted
  slowed,    \* history: CIBA polls answered slow_down, up to MaxSlowDowns
  excused,   \* history: the client cannot know the row's interval
  lost       \* how many requests were lost, for the bound

vars == <<clock, req, grant, tab, poll, ping, pinger, told, asked, final,
          taken, issued, posted, slowed, excused, lost>>

client == <<told, asked, final>>
history == <<taken, issued, posted, slowed, excused, lost>>

-----------------------------------------------------------------------------

Null == -1
Instant == 0..MaxClock

(* POLL_CEILING.                                                           *)
Ceiling == Interval + MaxSlowDowns * Increment

Smaller(m, n) == IF m < n THEN m ELSE n

(* A device code's interval has no ceiling.  One longer than the whole run *)
(* refuses every poll that follows another, so they need not be told       *)
(* apart.                                                                  *)
Longest == IF Ceiling > MaxClock THEN Ceiling ELSE MaxClock + 1
Longer(i) == Smaller(i + Increment, Longest)

Request == [status : {"absent", "pending", "approved", "denied", "swept"},
            flow : {"device", "ciba"}, ping : BOOLEAN,   \* delivery_mode
            expires : Nat, interval : 1..Longest,
            last : Instant \union {Null},                \* last_polled_at
            redeemed : BOOLEAN, grant : Tab \union {None},
            failures : 0..FailuresPerCode,               \* saturating
            notified : BOOLEAN]

GrantStatus == {"absent", "unclaimed", "claimed", "revoked", "deleted"}

TabState == [pc : {"idle", "deny", "read", "create", "approve", "fail", "done"},
             live : BOOLEAN]   \* expires_at > now, for the request's now

Answers == {"none", "pending", "slow_down", "too_fast", "denied", "expired",
            "invalid_grant", "tokens"}

(* The answers after which a client has nothing left to ask for.           *)
Final == {"too_fast", "denied", "expired", "invalid_grant", "tokens"}

(* A token request.  `patient`: it was sent no sooner than the client was  *)
(* told, and alone.  `grant` is what the redemption returned.              *)
PollState == [pc : {"idle", "poll", "redeem", "claim", "sign", "reply"},
              now : Instant, patient : BOOLEAN, answer : Answers,
              grant : Tab \union {None}]

IdlePoll == [pc |-> "idle", now |-> 0, patient |-> FALSE, answer |-> "none",
             grant |-> None]

NewRequest(flow, mode) ==
  [status |-> "pending", flow |-> flow, ping |-> mode,
   expires |-> clock + Lifetime, interval |-> Interval, last |-> Null,
   redeemed |-> FALSE, grant |-> None, failures |-> 0, notified |-> FALSE]

Init ==
  /\ clock = 0
  /\ req = [NewRequest("device", FALSE) EXCEPT !.status = "absent"]
  /\ grant = [d \in Tab |-> "absent"]
  /\ tab = [d \in Tab |-> [pc |-> "idle", live |-> FALSE]]
  /\ poll = [p \in Poller |-> IdlePoll]
  /\ ping = "none"
  /\ pinger = [w \in Pinger |-> "idle"]
  /\ told = Interval
  /\ asked = Null
  /\ final = FALSE
  /\ taken = {}
  /\ issued = [d \in Tab |-> 0]
  /\ posted = FALSE
  /\ slowed = 0
  /\ excused = FALSE
  /\ lost = 0

(* Time counts from the request's issue.                                   *)
Tick ==
  /\ req.status # "absent"
  /\ clock < MaxClock
  /\ clock' = clock + 1
  /\ UNCHANGED <<req, grant, tab, poll, ping, pinger, client, history>>

There == req.status \notin {"absent", "swept"}

(* The predicate of every statement that decides: pending, and live for    *)
(* the instant the request arrived.                                        *)
Open(d) == req.status = "pending" /\ tab[d].live

-----------------------------------------------------------------------------
(* The authorization endpoints and retention.                              *)

(* Only a CIBA client may have asked to be pinged.                         *)
Issue(flow, mode) ==
  /\ req.status = "absent"
  /\ flow = "device" => ~mode
  /\ req' = NewRequest(flow, mode)
  /\ UNCHANGED <<clock, grant, tab, poll, ping, pinger, client, history>>

Sweep ==
  /\ There
  /\ req.expires + SweepGrace <= clock
  /\ req' = [req EXCEPT !.status = "swept"]
  /\ UNCHANGED <<clock, grant, tab, poll, ping, pinger, client, history>>

(* What else happens to a grant the row names: the user or an operator     *)
(* revokes it, or it is purged while unclaimed, which nulls the row's      *)
(* grant_id.  No statement here reads any other grant.                     *)
RevokeGrant(d) ==
  /\ req.grant = d
  /\ grant[d] \in {"unclaimed", "claimed"}
  /\ grant' = [grant EXCEPT ![d] = "revoked"]
  /\ UNCHANGED <<clock, req, tab, poll, ping, pinger, client, history>>

PurgeGrant(d) ==
  /\ req.grant = d
  /\ grant[d] = "unclaimed"
  /\ grant' = [grant EXCEPT ![d] = "deleted"]
  /\ req' = [req EXCEPT !.grant = None]
  /\ UNCHANGED <<clock, tab, poll, ping, pinger, client, history>>

-----------------------------------------------------------------------------
(* The person.  A handler that dies, or is refused for a reason of its own *)
(* (a stale session, an acr not reached, a storage error), takes no        *)
(* further step.                                                           *)

TabStep(d, pc) == tab' = [tab EXCEPT ![d].pc = pc]

(* A CIBA row is only ever found by the person it names.                   *)
MayDecide(d) == req.flow = "ciba" => d \in Hinted

(* A form arrives, refusing or approving.                                  *)
Submit(d, pc) ==
  /\ There
  /\ tab[d].pc = "idle"
  /\ tab' = [tab EXCEPT ![d] = [pc |-> pc, live |-> clock < req.expires]]
  /\ UNCHANGED <<clock, req, grant, poll, ping, pinger, client, history>>

(* Mutant: a refusal is not worth a ping.                                  *)
QueuePingApproved == ping' \in IF req.ping /\ req'.status = "approved"
                                THEN {"queued", "no_endpoint"} ELSE {ping}

(* queue_ping, in the transaction of the decision: nothing is queued for a *)
(* client that no longer registers an endpoint.                            *)
QueuePing == ping' \in IF req.ping THEN {"queued", "no_endpoint"} ELSE {ping}

Deny(d) ==
  /\ tab[d].pc = "deny"
  /\ \/ /\ Open(d) /\ MayDecide(d)
        /\ req' = [req EXCEPT !.status = "denied"]
        /\ taken' = taken \union {<<d, "deny">>}
        /\ QueuePing
     \/ /\ ~(Open(d) /\ MayDecide(d))
        /\ UNCHANGED <<req, taken, ping>>
  /\ TabStep(d, "done")
  /\ UNCHANGED <<clock, grant, poll, pinger, client, issued, posted, slowed, excused, lost>>

(* pending / pending_for_user_by_id.                                       *)
ReadPending(d) ==
  /\ tab[d].pc = "read"
  /\ TabStep(d, IF Open(d) /\ MayDecide(d) THEN "create" ELSE "done")
  /\ UNCHANGED <<clock, req, grant, poll, ping, pinger, client, history>>

(* approval / authorization: the grant is a statement of its own.          *)
CreateGrant(d) ==
  /\ tab[d].pc = "create"
  /\ grant' = [grant EXCEPT ![d] = "unclaimed"]
  /\ TabStep(d, "approve")
  /\ UNCHANGED <<clock, req, poll, ping, pinger, client, history>>

(* A row that moved on leaves the grant behind; on the device page the     *)
(* failure is counted against the row.                                     *)
Approve(d) ==
  /\ tab[d].pc = "approve"
  /\ \/ /\ Open(d) /\ MayDecide(d)
        /\ req' = [req EXCEPT !.status = "approved", !.grant = d]
        /\ taken' = taken \union {<<d, "approve">>}
        /\ QueuePing
        /\ TabStep(d, "done")
     \/ /\ ~(Open(d) /\ MayDecide(d))
        /\ TabStep(d, IF req.flow = "device" THEN "fail" ELSE "done")
        /\ UNCHANGED <<req, taken, ping>>
  /\ UNCHANGED <<clock, grant, poll, pinger, client, issued, posted, slowed, excused, lost>>

(* record_failure: only a row that is still pending is refused.            *)
Failure(r) ==
  [r EXCEPT !.failures = Smaller(@ + 1, FailuresPerCode),
            !.status = IF r.failures + 1 >= FailuresPerCode /\ @ = "pending"
                         THEN "denied" ELSE @]

(* failed_confirmation, with the instant of the same request.              *)
RecordFailure(d) ==
  /\ tab[d].pc = "fail"
  /\ req' = IF There /\ tab[d].live THEN Failure(req) ELSE req
  /\ TabStep(d, "done")
  /\ UNCHANGED <<clock, grant, poll, ping, pinger, client, history>>

-----------------------------------------------------------------------------
(* The client and the token endpoint.                                      *)

InFlight(p) == poll[p].pc # "idle"

(* A token request is sent and arrives.  Overlapping requests are          *)
(* impatient, both of them.                                                *)
Ask(p) ==
  /\ req.status # "absent"
  /\ ~final /\ ~InFlight(p)
  /\ poll' = [q \in Poller |->
       IF q = p
         THEN [IdlePoll EXCEPT !.pc = "poll", !.now = clock,
                 !.patient = /\ \A o \in Poller : ~InFlight(o)
                             /\ asked # Null => asked + told <= clock]
         ELSE [poll[q] EXCEPT !.patient = FALSE]]
  /\ asked' = clock
  /\ UNCHANGED <<clock, req, grant, tab, ping, pinger, told, final, history>>

Answered(p, a) == poll' = [poll EXCEPT ![p].pc = "reply", ![p].answer = a]

(* Too fast for the interval the row held before this poll.                *)
TooSoon(now) == req.last # Null /\ now < req.last + req.interval

(* Mutant: two increments at a time.                                       *)
RaisedTwice ==
  IF req.flow = "ciba" THEN Smaller(req.interval + 2 * Increment, Ceiling)
                       ELSE Longer(req.interval + Increment)

Raised == IF req.flow = "ciba" THEN Smaller(req.interval + Increment, Ceiling)
                               ELSE Longer(req.interval)

(* What the statement of `poll` writes: the stamp, and the raise unless    *)
(* the answer is ready (or, in CIBA, the ceiling is reached).              *)
Stamped(now) ==
  [req EXCEPT
     !.last = now,
     !.interval = IF /\ req.status # "approved" /\ TooSoon(now)
                     /\ req.flow = "ciba" => req.interval < Ceiling
                    THEN Raised ELSE @]

(* Mutant: the rate check comes before the expiry.                         *)
AnswerRateFirst(now) ==
  IF TooSoon(now) /\ ~req.redeemed /\ req.status = "pending"
    THEN IF req.flow = "ciba" /\ req.interval >= Ceiling THEN "too_fast" ELSE "slow_down"
  ELSE IF req.expires <= now THEN "expired"
  ELSE IF req.redeemed THEN "invalid_grant"
  ELSE req.status

(* The state the row was in, in the order `poll` decides it.               *)
Answer(now) ==
  IF req.expires <= now THEN "expired"
  ELSE IF req.redeemed THEN "invalid_grant"
  ELSE IF req.status \in {"approved", "denied"} THEN req.status
  ELSE IF ~TooSoon(now) THEN "pending"
  ELSE IF req.flow = "ciba" /\ req.interval >= Ceiling THEN "too_fast" ELSE "slow_down"

Poll(p) ==
  LET a == IF There THEN Answer(poll[p].now) ELSE "invalid_grant" IN
  /\ poll[p].pc = "poll"
  /\ IF a = "approved" THEN poll' = [poll EXCEPT ![p].pc = "redeem"]
                       ELSE Answered(p, a)
  /\ req' = IF There THEN Stamped(poll[p].now) ELSE req
  /\ slowed' = IF a = "slow_down" /\ req.flow = "ciba" THEN Smaller(slowed + 1, MaxSlowDowns) ELSE slowed
  /\ UNCHANGED <<clock, grant, tab, ping, pinger, client, taken, issued, posted, excused, lost>>

(* Mutant: any client of the tenant leaves a stamp, in both flows.         *)
StrangerStampsAlways == TRUE

(* In CIBA only the client the request was issued to leaves a stamp.       *)
StrangerStamps == req.flow = "device"

(* Another client presents the code and is refused, after the statement.   *)
StrangerPoll ==
  /\ There
  /\ req' = IF StrangerStamps THEN Stamped(clock) ELSE req
  /\ excused' = (excused \/ req.flow = "device")
  /\ UNCHANGED <<clock, grant, tab, poll, ping, pinger, client, taken, issued, posted,
                 slowed, lost>>

(* Mutant: the spend does not look at redeemed_at.                         *)
SpendableAgain(now) == req.status = "approved" /\ now < req.expires

Spendable(now) == /\ req.status = "approved" /\ ~req.redeemed
                  /\ now < req.expires

(* The spend.  A null grant_id spends the row and yields nothing.          *)
Redeem(p) ==
  /\ poll[p].pc = "redeem"
  /\ IF Spendable(poll[p].now)
       THEN /\ req' = [req EXCEPT !.redeemed = TRUE]
            /\ IF req.grant = None
                 THEN Answered(p, "invalid_grant")
                 ELSE poll' = [poll EXCEPT ![p].pc = "claim", ![p].grant = req.grant]
       ELSE Answered(p, "invalid_grant") /\ UNCHANGED req
  /\ UNCHANGED <<clock, grant, tab, ping, pinger, client, history>>

(* Mutant: a redemption that found no usable grant is given back.          *)
ClaimGivingBack(p) ==
  /\ poll[p].pc = "claim"
  /\ IF grant[poll[p].grant] \in {"unclaimed", "claimed"}
       THEN /\ grant' = [grant EXCEPT ![poll[p].grant] = "claimed"]
            /\ poll' = [poll EXCEPT ![p].pc = "sign"]
            /\ UNCHANGED req
       ELSE /\ Answered(p, "invalid_grant")
            /\ req' = [req EXCEPT !.redeemed = FALSE]
            /\ UNCHANGED grant
  /\ UNCHANGED <<clock, tab, ping, pinger, client, history>>

(* The handler reads the grant and claims it (claim_for_issuance), both    *)
(* refusing one that is neither Pending nor Active.                        *)
ClaimGrant(p) ==
  /\ poll[p].pc = "claim"
  /\ IF grant[poll[p].grant] \in {"unclaimed", "claimed"}
       THEN /\ grant' = [grant EXCEPT ![poll[p].grant] = "claimed"]
            /\ poll' = [poll EXCEPT ![p].pc = "sign"]
       ELSE Answered(p, "invalid_grant") /\ UNCHANGED grant
  /\ UNCHANGED <<clock, req, tab, ping, pinger, client, history>>

(* sign_access, under the grant's fence (see Tokens).  For a grant that    *)
(* was revoked since it is an error, which is one of Lost's.               *)
Sign(p) ==
  /\ poll[p].pc = "sign"
  /\ grant[poll[p].grant] = "claimed"
  /\ issued' = [issued EXCEPT ![poll[p].grant] = @ + 1]
  /\ Answered(p, "tokens")
  /\ UNCHANGED <<clock, req, grant, tab, ping, pinger, client, taken, posted, slowed,
                 excused, lost>>

(* The client reads the response: slow_down adds the increment, a final    *)
(* answer ends the flow.                                                   *)
Reply(p) ==
  /\ poll[p].pc = "reply"
  /\ told' = IF poll[p].answer = "slow_down" THEN Longer(told) ELSE told
  /\ final' = (final \/ poll[p].answer \in Final)
  /\ poll' = [poll EXCEPT ![p] = IdlePoll]
  /\ UNCHANGED <<clock, req, grant, tab, ping, pinger, asked, history>>

(* The request dies at any point, or its response is an error or never     *)
(* arrives.                                                                *)
Lost(p) ==
  /\ InFlight(p)
  /\ lost < MaxLost
  /\ lost' = lost + 1
  /\ excused' = (excused \/ poll[p].answer = "slow_down")
  /\ poll' = [poll EXCEPT ![p] = IdlePoll]
  /\ UNCHANGED <<clock, req, grant, tab, ping, pinger, client, taken, issued, posted, slowed>>

-----------------------------------------------------------------------------
(* The ping.  The outbox holds the row until an attempt settles it; a      *)
(* lapsed lease lets a second attempt start beside the first.              *)

PingRead(w) ==
  /\ ping = "queued" /\ pinger[w] = "idle"
  /\ IF ~There \/ req.notified
       THEN ping' = "settled" /\ UNCHANGED pinger
       ELSE pinger' = [pinger EXCEPT ![w] = "post"] /\ UNCHANGED ping
  /\ UNCHANGED <<clock, req, grant, tab, poll, client, history>>

PingPost(w) ==
  /\ pinger[w] = "post"
  /\ pinger' = [pinger EXCEPT ![w] = "mark"]
  /\ posted' = TRUE
  /\ UNCHANGED <<clock, req, grant, tab, poll, ping, client, taken, issued, slowed,
                 excused, lost>>

(* The stamp, and the ack.                                                 *)
PingMark(w) ==
  /\ pinger[w] = "mark"
  /\ req' = [req EXCEPT !.notified = There \/ @]
  /\ pinger' = [pinger EXCEPT ![w] = "idle"]
  /\ ping' = "settled"
  /\ UNCHANGED <<clock, grant, tab, poll, client, history>>

(* A refusal by the receiver, a timeout, the death of the worker: retried  *)
(* or given up.                                                            *)
PingLost(w) ==
  /\ pinger[w] # "idle"
  /\ lost < MaxLost
  /\ lost' = lost + 1
  /\ pinger' = [pinger EXCEPT ![w] = "idle"]
  /\ ping' \in {ping, "settled"}
  /\ UNCHANGED <<clock, req, grant, tab, poll, client, taken, issued, posted, slowed, excused>>

-----------------------------------------------------------------------------

Manage == \/ \E flow \in {"device", "ciba"}, mode \in BOOLEAN : Issue(flow, mode)
          \/ Sweep
          \/ \E d \in Tab : RevokeGrant(d) \/ PurgeGrant(d)

Decide == \E d \in Tab : \/ Submit(d, "deny") \/ Submit(d, "read")
                         \/ Deny(d) \/ ReadPending(d) \/ CreateGrant(d)
                         \/ Approve(d) \/ RecordFailure(d)

Serve(p) == Poll(p) \/ Redeem(p) \/ ClaimGrant(p) \/ Sign(p) \/ Reply(p)

Token == \/ \E p \in Poller : Ask(p) \/ Serve(p) \/ Lost(p)
         \/ StrangerPoll

Notify == \E w \in Pinger : PingRead(w) \/ PingPost(w) \/ PingMark(w) \/ PingLost(w)

Next == Tick \/ Manage \/ Decide \/ Token \/ Notify

Spec == Init /\ [][Next]_vars

(* Time passes, the client keeps polling until it has a final answer, and  *)
(* a request that was not lost is served.  Nothing is assumed of persons,  *)
(* strangers, retention or pings.                                          *)
Fairness ==
  /\ WF_vars(Tick)
  /\ WF_vars(\E p \in Poller : Ask(p))
  /\ \A p \in Poller : WF_vars(Serve(p))

FairSpec == Spec /\ Fairness

-----------------------------------------------------------------------------
(* Properties.                                                             *)

(* The row, the grants, the handlers and the client have their types.      *)
TypeOK ==
  /\ clock \in Instant
  /\ req \in Request
  /\ grant \in [Tab -> GrantStatus]
  /\ tab \in [Tab -> TabState]
  /\ poll \in [Poller -> PollState]
  /\ ping \in {"none", "queued", "no_endpoint", "settled"}
  /\ pinger \in [Pinger -> {"idle", "post", "mark"}]
  /\ told \in 1..Longest
  /\ asked \in Instant \union {Null}
  /\ final \in BOOLEAN
  /\ taken \subseteq Tab \X {"approve", "deny"}
  /\ issued \in [Tab -> Nat]
  /\ posted \in BOOLEAN
  /\ slowed \in 0..MaxSlowDowns
  /\ excused \in BOOLEAN
  /\ lost \in 0..MaxLost

(* "A second submission of the same form" is told there is nothing left to *)
(* answer, "so the grant the first one created is not joined by another",  *)
(* and "two requests racing on one approved device code cannot both be     *)
(* served": whatever tabs, polls, expiry and purges interleave, at most    *)
(* one answer of a person is recorded, at most one token response is       *)
(* signed, and only from the grant of the tab whose approval it was; the   *)
(* grants of the others are never claimed.                                 *)
OneAnswerOneIssuance ==
  /\ \A x, y \in taken : x = y
  /\ \A d \in Tab : /\ issued[d] <= 1
                    /\ issued[d] > 0 \/ grant[d] = "claimed" =>
                         <<d, "approve">> \in taken

(* "FAILURES_PER_CODE failed confirmations against one row, after which    *)
(* the row is refused outright and the device is told access_denied"       *)
(* (http/device.rs:44): a device row that has counted that many is refused *)
(* as long as it is there.                                                 *)
CeilingRefuses ==
  req.flow = "device" /\ There /\ req.failures = FailuresPerCode
    => req.status = "denied"

(* What the rows and answers really follow is a recorded decision of a     *)
(* person: access_denied comes after a refusal and nothing else, since     *)
(* record_failure runs on a row that approve() has just found not pending. *)
AnswerIsThePersons ==
  /\ req.status = "denied" => \E d \in Tab : <<d, "deny">> \in taken
  /\ req.status = "approved" => \E d \in Tab : <<d, "approve">> \in taken
  /\ \A p \in Poller :
       poll[p].answer = "denied" => \E d \in Tab : <<d, "deny">> \in taken

(* "The server increases its copy by the same amount at the same moment,   *)
(* so the two agree on what too fast means from the next poll onwards"     *)
(* (oidc/src/device.rs): a client that waits the interval it was told,     *)
(* one request at a time, is never answered slow_down again, however       *)
(* impatient it has been before - unless a slow_down never reached it, or  *)
(* another client stamped its device code.  In CIBA no other client can.   *)
PatientNeverSlowed ==
  \A p \in Poller :
    poll[p].answer \in {"slow_down", "too_fast"} /\ poll[p].patient => excused

(* A CIBA client is only told to stop polling after MAX_SLOW_DOWNS         *)
(* slow_down answers, also where polls act out of order; polls of the      *)
(* expired request raise the interval too, and may cost one that arrived   *)
(* before the expiry its slow_downs.                                       *)
TooFastIsEarned ==
  \A p \in Poller :
    poll[p].answer = "too_fast" =>
      slowed = MaxSlowDowns \/ req.expires <= clock

(* The ping is queued with the decision: never before it, and never        *)
(* forgotten where the client has an endpoint.  A client that is pinged    *)
(* therefore finds its answer.                                             *)
PingFollowsDecision ==
  /\ ping # "none" \/ posted => taken # {}
  /\ taken # {} /\ req.ping => ping # "none"

(* A row's decision is taken once and is final, and nothing touches a      *)
(* spent row but the clock's sweep: it never becomes unspent, and a grant  *)
(* is attached by the approval alone.                                      *)
DecisionFinal ==
  [][/\ req.status \in {"approved", "denied"} => req'.status \in {req.status, "swept"}
     /\ req.redeemed => req'.redeemed
     /\ req'.grant # req.grant /\ req'.grant # None =>
          req.status = "pending" /\ req'.status = "approved"]_vars

(* "A device that keeps polling an authorization nobody answered must be   *)
(* told it is over, not told to slow down": a client that keeps polling,   *)
(* however fast, gets a final answer.                                      *)
ClientIsAnswered == (req.status # "absent") ~> final

-----------------------------------------------------------------------------
(* The promise.                                                            *)

Withdrawn == {d \in Tab : grant[d] \in {"revoked", "deleted"}}

(* What a response under way says that ends the matter.                    *)
Heard(p) == IF poll[p].pc = "reply" /\ poll[p].answer \in {"tokens", "denied"}
              THEN poll[p].answer ELSE "nothing"

Promise == INSTANCE Consent WITH
             People <- Tab, Askers <- Poller, spent <- req.redeemed,
             paid <- \E d \in Tab : issued[d] > 0, withdrawn <- Withdrawn,
             heard <- [p \in Poller |-> Heard(p)], rung <- posted

(* The confirmation pages, the token endpoint and the ping implement the   *)
(* consent of module Consent: the approval that is recorded is drawn on    *)
(* once, tokens are signed for it once and only while its grant stands,    *)
(* and what a client is told, or called for, is what a person answered.    *)
KeepsConsent == Promise!Spec
=============================================================================
