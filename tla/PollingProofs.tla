--------------------------- MODULE PollingProofs ---------------------------
(* Theorems about decoupled authorizations, for any number of tabs, polls  *)
(* and ping workers, any lifetimes and any limits.                         *)
EXTENDS Polling, FiniteSetTheorems, TLAPS

USE PartiesAssumption, TimesAssumption

-----------------------------------------------------------------------------
(* Arithmetic of the interval.                                             *)

LEMMA Limits ==
  /\ MaxClock \in Nat /\ MaxLost \in Nat /\ Lifetime \in Nat
  /\ Interval \in Nat \ {0} /\ Increment \in Nat \ {0}
  /\ MaxSlowDowns \in Nat \ {0} /\ FailuresPerCode \in Nat \ {0}
  OBVIOUS

LEMMA CeilingType == Ceiling \in Nat /\ Interval <= Ceiling /\ Ceiling >= 1
<1>1. MaxSlowDowns * Increment \in Nat
  BY Limits
<1> QED BY <1>1, Limits DEF Ceiling

LEMMA LongestType == Longest \in Nat /\ Longest >= 1 /\ Ceiling <= Longest
  BY CeilingType, Limits DEF Longest

LEMMA LongerType ==
  ASSUME NEW i \in 1..Longest
  PROVE  Longer(i) \in 1..Longest
  BY LongestType, Limits DEF Longer, Smaller

LEMMA RaisedType == req.interval \in 1..Longest => Raised \in 1..Longest
<1>1. ASSUME req.interval \in 1..Longest
      PROVE  Smaller(req.interval + Increment, Ceiling) \in 1..Longest
  BY <1>1, CeilingType, LongestType, Limits DEF Smaller
<1> QED BY <1>1, LongerType DEF Raised

LEMMA NullType == Null \notin Instant /\ Instant \subseteq Nat
  BY Limits DEF Null, Instant

LEMMA NewRequestType ==
  ASSUME clock \in Instant, NEW flow \in {"device", "ciba"}, NEW mode \in BOOLEAN
  PROVE  NewRequest(flow, mode) \in Request
<1>1. clock + Lifetime \in Nat /\ Interval \in 1..Longest /\ 0 \in 0..FailuresPerCode
  BY Limits, CeilingType, LongestType DEF Instant
<1> QED BY <1>1 DEF NewRequest, Request

LEMMA StampedType ==
  ASSUME req \in Request, NEW now \in Instant
  PROVE  Stamped(now) \in Request
<1>1. Raised \in 1..Longest
  BY RaisedType DEF Request
<1> DEFINE i == IF /\ req.status # "approved" /\ TooSoon(now)
                   /\ req.flow = "ciba" => req.interval < Ceiling
                  THEN Raised ELSE req.interval
<1>2. i \in 1..Longest
  BY <1>1 DEF Request
<1>3. Stamped(now) = [req EXCEPT !.last = now, !.interval = i]
  BY DEF Stamped
<1> HIDE DEF i
<1> QED BY <1>2, <1>3 DEF Request

LEMMA FailureType ==
  ASSUME req \in Request
  PROVE  /\ Failure(req) \in Request
         /\ Failure(req).status = req.status \/ req.status = "pending"
         /\ Failure(req).redeemed = req.redeemed
         /\ Failure(req).grant = req.grant
         /\ Failure(req).ping = req.ping
         /\ Failure(req).flow = req.flow
         /\ Failure(req).interval = req.interval
         /\ Failure(req).expires = req.expires
<1>1. Smaller(req.failures + 1, FailuresPerCode) \in 0..FailuresPerCode
  BY Limits DEF Smaller, Request
<1> DEFINE f == Smaller(req.failures + 1, FailuresPerCode)
           s == IF req.failures + 1 >= FailuresPerCode /\ req.status = "pending"
                  THEN "denied" ELSE req.status
<1>2. s \in {"absent", "pending", "approved", "denied", "swept"}
      /\ (s = req.status \/ req.status = "pending")
  BY DEF Request
<1>3. Failure(req) = [req EXCEPT !.failures = f, !.status = s]
  BY DEF Failure
<1> HIDE DEF f, s
<1> QED BY <1>1, <1>2, <1>3 DEF Request, f

LEMMA AnswerType == \A now : Answer(now) \in Answers \union {"approved"}
  BY DEF Answer, Answers

-----------------------------------------------------------------------------
(* Types.                                                                  *)

LEMMA ManageType ==
  TypeOK /\ (Tick \/ Manage) => TypeOK'
<1> SUFFICES ASSUME TypeOK, Tick \/ Manage PROVE TypeOK'
  OBVIOUS
<1> USE DEF TypeOK, client, history
<1>1. CASE Tick
  <2>1. clock + 1 \in Instant
    BY <1>1, Limits DEF Tick, Instant
  <2> QED BY <1>1, <2>1 DEF Tick
<1>2. ASSUME NEW flow \in {"device", "ciba"}, NEW mode \in BOOLEAN, Issue(flow, mode)
      PROVE  TypeOK'
  BY <1>2, NewRequestType DEF Issue
<1>3. CASE Sweep
  <2>1. [req EXCEPT !.status = "swept"] \in Request
    BY DEF Request
  <2> QED BY <1>3, <2>1 DEF Sweep
<1>4. ASSUME NEW d \in Tab, RevokeGrant(d) PROVE TypeOK'
  BY <1>4 DEF RevokeGrant, GrantStatus
<1>5. ASSUME NEW d \in Tab, PurgeGrant(d) PROVE TypeOK'
  <2>1. [req EXCEPT !.grant = None] \in Request
    BY DEF Request
  <2>2. [grant EXCEPT ![d] = "deleted"] \in [Tab -> GrantStatus]
    BY DEF GrantStatus
  <2> QED BY <1>5, <2>1, <2>2 DEF PurgeGrant
<1> QED BY <1>1, <1>2, <1>3, <1>4, <1>5 DEF Manage

LEMMA TabStepType ==
  ASSUME tab \in [Tab -> TabState], NEW d \in Tab,
         NEW pc \in {"idle", "deny", "read", "create", "approve", "fail", "done"}
  PROVE  [tab EXCEPT ![d].pc = pc] \in [Tab -> TabState]
<1>1. [tab[d] EXCEPT !.pc = pc] \in TabState
  BY DEF TabState
<1> QED BY <1>1

LEMMA DecideType == TypeOK /\ Decide => TypeOK'
<1> SUFFICES ASSUME TypeOK, NEW d \in Tab,
                    \/ Submit(d, "deny") \/ Submit(d, "read")
                    \/ Deny(d) \/ ReadPending(d) \/ CreateGrant(d)
                    \/ Approve(d) \/ RecordFailure(d)
             PROVE  TypeOK'
  BY DEF Decide
<1> USE DEF TypeOK, client, history
<1>1. ASSUME NEW pc \in {"deny", "read"}, Submit(d, pc) PROVE TypeOK'
  <2>1. [pc |-> pc, live |-> clock < req.expires] \in TabState
    BY DEF TabState
  <2> QED BY <1>1, <2>1 DEF Submit
<1>2. CASE Deny(d)
  <2>1. [req EXCEPT !.status = "denied"] \in Request
    BY DEF Request
  <2>2. req' \in Request
    BY <1>2, <2>1 DEF Deny
  <2>3. taken' \subseteq Tab \X {"approve", "deny"}
    BY <1>2 DEF Deny
  <2>4. ping' \in {"none", "queued", "no_endpoint", "settled"}
    BY <1>2 DEF Deny, QueuePing
  <2>5. tab' \in [Tab -> TabState]
    BY <1>2, TabStepType DEF Deny, TabStep
  <2> QED BY <1>2, <2>2, <2>3, <2>4, <2>5 DEF Deny
<1>3. CASE ReadPending(d)
  <2>1. tab' \in [Tab -> TabState]
    BY <1>3, TabStepType DEF ReadPending, TabStep
  <2> QED BY <1>3, <2>1 DEF ReadPending
<1>4. CASE CreateGrant(d)
  <2>1. tab' \in [Tab -> TabState]
    BY <1>4, TabStepType DEF CreateGrant, TabStep
  <2>2. [grant EXCEPT ![d] = "unclaimed"] \in [Tab -> GrantStatus]
    BY DEF GrantStatus
  <2> QED BY <1>4, <2>1, <2>2 DEF CreateGrant
<1>5. CASE Approve(d)
  <2>1. [req EXCEPT !.status = "approved", !.grant = d] \in Request
    BY DEF Request
  <2>2. req' \in Request
    BY <1>5, <2>1 DEF Approve
  <2>3. taken' \subseteq Tab \X {"approve", "deny"}
    BY <1>5 DEF Approve
  <2>4. ping' \in {"none", "queued", "no_endpoint", "settled"}
    BY <1>5 DEF Approve, QueuePing
  <2>5. tab' \in [Tab -> TabState]
    <3>1. PICK pc \in {"fail", "done"} : tab' = [tab EXCEPT ![d].pc = pc]
      BY <1>5 DEF Approve, TabStep
    <3>2. [tab EXCEPT ![d].pc = pc] \in [Tab -> TabState]
      BY TabStepType
    <3> QED BY <3>1, <3>2
  <2> QED BY <1>5, <2>2, <2>3, <2>4, <2>5 DEF Approve
<1>6. CASE RecordFailure(d)
  <2>1. tab' \in [Tab -> TabState]
    BY <1>6, TabStepType DEF RecordFailure, TabStep
  <2>2. req' \in Request
    BY <1>6, FailureType DEF RecordFailure
  <2> QED BY <1>6, <2>1, <2>2 DEF RecordFailure
<1> QED BY <1>1, <1>2, <1>3, <1>4, <1>5, <1>6

LEMMA PollRecords ==
  ASSUME poll \in [Poller -> PollState], NEW p \in Poller
  PROVE  /\ \A a \in Answers : [poll EXCEPT ![p].pc = "reply", ![p].answer = a]
                                 \in [Poller -> PollState]
         /\ \A pc \in {"redeem", "sign"} : [poll EXCEPT ![p].pc = pc] \in [Poller -> PollState]
         /\ \A d \in Tab : [poll EXCEPT ![p].pc = "claim", ![p].grant = d]
                             \in [Poller -> PollState]
         /\ [poll EXCEPT ![p] = IdlePoll] \in [Poller -> PollState]
<1>0. poll[p] \in PollState
  OBVIOUS
<1>1. ASSUME NEW a \in Answers PROVE [poll EXCEPT ![p].pc = "reply", ![p].answer = a]
                                       \in [Poller -> PollState]
  <2>1. [poll[p] EXCEPT !.pc = "reply", !.answer = a] \in PollState
    BY <1>0 DEF PollState
  <2>2. [poll EXCEPT ![p].pc = "reply", ![p].answer = a]
          = [poll EXCEPT ![p] = [poll[p] EXCEPT !.pc = "reply", !.answer = a]]
    BY <1>0 DEF PollState
  <2> QED BY <2>1, <2>2
<1>2. ASSUME NEW pc \in {"redeem", "sign"}
      PROVE  [poll EXCEPT ![p].pc = pc] \in [Poller -> PollState]
  <2>1. [poll[p] EXCEPT !.pc = pc] \in PollState
    BY <1>0 DEF PollState
  <2> QED BY <2>1
<1>3. ASSUME NEW d \in Tab PROVE [poll EXCEPT ![p].pc = "claim", ![p].grant = d]
                                   \in [Poller -> PollState]
  <2>1. [poll[p] EXCEPT !.pc = "claim", !.grant = d] \in PollState
    BY <1>0 DEF PollState
  <2>2. [poll EXCEPT ![p].pc = "claim", ![p].grant = d]
          = [poll EXCEPT ![p] = [poll[p] EXCEPT !.pc = "claim", !.grant = d]]
    BY <1>0 DEF PollState
  <2> QED BY <2>1, <2>2
<1>4. IdlePoll \in PollState
  BY Limits DEF IdlePoll, PollState, Instant, Answers
<1> QED BY <1>1, <1>2, <1>3, <1>4

LEMMA TokenType == TypeOK /\ Token => TypeOK'
<1> SUFFICES ASSUME TypeOK, Token PROVE TypeOK'
  OBVIOUS
<1> USE DEF TypeOK, client, history
<1>1. ASSUME NEW p \in Poller, Ask(p) PROVE TypeOK'
  <2>1. \A b \in BOOLEAN : [IdlePoll EXCEPT !.pc = "poll", !.now = clock, !.patient = b]
                             \in PollState
    BY DEF IdlePoll, PollState, Answers
  <2>2. \A q \in Poller : [poll[q] EXCEPT !.patient = FALSE] \in PollState
    BY ZenonT(60) DEF PollState
  <2>3. poll' \in [Poller -> PollState]
    BY <1>1, <2>1, <2>2 DEF Ask
  <2> QED BY <1>1, <2>3 DEF Ask
<1>2. ASSUME NEW p \in Poller, Poll(p) PROVE TypeOK'
  <2> DEFINE a == IF There THEN Answer(poll[p].now) ELSE "invalid_grant"
  <2>1. a \in Answers \union {"approved"}
    BY AnswerType DEF Answers
  <2>2. poll' \in [Poller -> PollState]
    <3> HIDE DEF a
    <3>1. \/ poll' = [poll EXCEPT ![p].pc = "redeem"]
          \/ a \in Answers /\ poll' = [poll EXCEPT ![p].pc = "reply", ![p].answer = a]
      BY <1>2, <2>1 DEF Poll, Answered, a
    <3>2. [poll EXCEPT ![p].pc = "redeem"] \in [Poller -> PollState]
      BY PollRecords
    <3>3. a \in Answers => [poll EXCEPT ![p].pc = "reply", ![p].answer = a]
                             \in [Poller -> PollState]
      BY PollRecords
    <3> QED BY <3>1, <3>2, <3>3
  <2>3. poll[p].now \in Instant
    BY DEF PollState
  <2>4. req' \in Request
    BY <1>2, <2>3, StampedType DEF Poll
  <2>5. slowed' \in 0..MaxSlowDowns
    BY <1>2, Limits DEF Poll, Smaller
  <2> QED BY <1>2, <2>2, <2>4, <2>5 DEF Poll
<1>3. ASSUME NEW p \in Poller, Redeem(p) PROVE TypeOK'
  <2>1. [req EXCEPT !.redeemed = TRUE] \in Request
    BY DEF Request
  <2>2. req' \in Request
    BY <1>3, <2>1 DEF Redeem
  <2>3. req.grant # None => req.grant \in Tab
    BY DEF Request
  <2>4. poll' \in [Poller -> PollState]
    <3>1. \/ req.grant \in Tab /\ poll' = [poll EXCEPT ![p].pc = "claim", ![p].grant = req.grant]
          \/ poll' = [poll EXCEPT ![p].pc = "reply", ![p].answer = "invalid_grant"]
      BY <1>3, <2>3 DEF Redeem, Answered
    <3>2. [poll EXCEPT ![p].pc = "reply", ![p].answer = "invalid_grant"] \in [Poller -> PollState]
      BY PollRecords DEF Answers
    <3>3. req.grant \in Tab => [poll EXCEPT ![p].pc = "claim", ![p].grant = req.grant]
                                 \in [Poller -> PollState]
      BY PollRecords
    <3> QED BY <3>1, <3>2, <3>3
  <2> QED BY <1>3, <2>2, <2>4 DEF Redeem
<1>4. ASSUME NEW p \in Poller, ClaimGrant(p) PROVE TypeOK'
  <2>1. grant' \in [Tab -> GrantStatus]
    BY <1>4 DEF ClaimGrant, GrantStatus
  <2>2. poll' \in [Poller -> PollState]
    <3>1. \/ poll' = [poll EXCEPT ![p].pc = "sign"]
          \/ poll' = [poll EXCEPT ![p].pc = "reply", ![p].answer = "invalid_grant"]
      BY <1>4 DEF ClaimGrant, Answered
    <3>2. /\ [poll EXCEPT ![p].pc = "reply", ![p].answer = "invalid_grant"] \in [Poller -> PollState]
          /\ [poll EXCEPT ![p].pc = "sign"] \in [Poller -> PollState]
      BY PollRecords DEF Answers
    <3> QED BY <3>1, <3>2
  <2> QED BY <1>4, <2>1, <2>2 DEF ClaimGrant
<1>5. ASSUME NEW p \in Poller, Sign(p) PROVE TypeOK'
  <2>1. issued' \in [Tab -> Nat]
    <3> DEFINE g == poll[p].grant
    <3>1. issued' = [issued EXCEPT ![g] = issued[g] + 1]
      BY <1>5 DEF Sign
    <3>2. g \in Tab => issued[g] + 1 \in Nat
      OBVIOUS
    <3> HIDE DEF g
    <3> QED BY <3>1, <3>2
  <2>2. poll' \in [Poller -> PollState]
    <3>1. poll' = [poll EXCEPT ![p].pc = "reply", ![p].answer = "tokens"]
      BY <1>5 DEF Sign, Answered
    <3>2. "tokens" \in Answers
      BY DEF Answers
    <3> QED BY <3>1, <3>2, PollRecords
  <2> QED BY <1>5, <2>1, <2>2 DEF Sign
<1>6. ASSUME NEW p \in Poller, Reply(p) PROVE TypeOK'
  <2>1. told' \in 1..Longest
    BY <1>6, LongerType DEF Reply
  <2>2. poll' \in [Poller -> PollState]
    BY <1>6, PollRecords DEF Reply
  <2> QED BY <1>6, <2>1, <2>2 DEF Reply
<1>7. ASSUME NEW p \in Poller, Lost(p) PROVE TypeOK'
  <2>1. lost' \in 0..MaxLost
    BY <1>7, Limits DEF Lost
  <2>2. poll' \in [Poller -> PollState]
    BY <1>7, PollRecords DEF Lost
  <2> QED BY <1>7, <2>1, <2>2 DEF Lost
<1>8. CASE StrangerPoll
  <2>1. req' \in Request
    BY <1>8, StampedType DEF StrangerPoll
  <2> QED BY <1>8, <2>1 DEF StrangerPoll
<1> QED BY <1>1, <1>2, <1>3, <1>4, <1>5, <1>6, <1>7, <1>8 DEF Token, Serve

LEMMA NotifyType == TypeOK /\ Notify => TypeOK'
<1> SUFFICES ASSUME TypeOK, NEW w \in Pinger,
                    PingRead(w) \/ PingPost(w) \/ PingMark(w) \/ PingLost(w)
             PROVE  TypeOK'
  BY DEF Notify
<1> USE DEF TypeOK, client, history
<1>1. CASE PingRead(w)
  BY <1>1 DEF PingRead
<1>2. CASE PingPost(w)
  BY <1>2 DEF PingPost
<1>3. CASE PingMark(w)
  <2>1. \A b \in BOOLEAN : [req EXCEPT !.notified = b] \in Request
    BY DEF Request
  <2>2. (There \/ req.notified) \in BOOLEAN
    BY DEF There
  <2>3. req' \in Request
    BY <1>3, <2>1, <2>2 DEF PingMark
  <2> QED BY <1>3, <2>3 DEF PingMark
<1>4. CASE PingLost(w)
  <2>1. lost' \in 0..MaxLost
    BY <1>4, Limits DEF PingLost
  <2> QED BY <1>4, <2>1 DEF PingLost
<1> QED BY <1>1, <1>2, <1>3, <1>4

LEMMA InitType == Init => TypeOK
<1> SUFFICES ASSUME Init PROVE TypeOK
  OBVIOUS
<1>1. clock \in Instant /\ Interval \in 1..Longest /\ 0 \in 0..MaxSlowDowns /\ 0 \in 0..MaxLost
  BY Limits, CeilingType, LongestType DEF Init, Instant
<1>2. [NewRequest("device", FALSE) EXCEPT !.status = "absent"] \in Request
  <2>1. NewRequest("device", FALSE) \in Request
    BY <1>1, NewRequestType
  <2> QED BY <2>1 DEF Request
<1>3. IdlePoll \in PollState
  BY Limits DEF IdlePoll, PollState, Instant, Answers
<1> QED BY <1>1, <1>2, <1>3 DEF Init, TypeOK, GrantStatus, TabState

LEMMA TypeStep == TypeOK /\ [Next]_vars => TypeOK'
<1>1. TypeOK /\ UNCHANGED vars => TypeOK'
  BY DEF TypeOK, vars
<1> QED BY <1>1, ManageType, DecideType, TokenType, NotifyType DEF Next

(* The row, the grants, the handlers and the client keep their types under *)
(* any interleaving of tabs, polls, pings, strangers and sweeps.           *)
THEOREM TypeCorrect == Spec => []TypeOK
  BY InitType, TypeStep, PTL DEF Spec

-----------------------------------------------------------------------------
(* How a row moves.                                                        *)

(* A failure is only counted against a row that approve() found closed,    *)
(* and no form is about a row that was never issued.                       *)
FailClosed == /\ \A d \in Tab : tab[d].pc = "fail" => ~Open(d)
              /\ req.status = "absent" => \A d \in Tab : tab[d].pc = "idle"

(* The status changes only by an issue, by the sweep or by a recorded      *)
(* answer of a person, and nothing else records one.                       *)
Issued == /\ req.status = "absent" /\ req'.status = "pending"
          /\ ~req'.redeemed /\ req'.grant = None /\ taken' = taken
          /\ UNCHANGED <<poll, issued, grant, tab, ping, posted, pinger>>
Refused(d) == /\ req.status = "pending" /\ req'.status = "denied"
              /\ taken' = taken \union {<<d, "deny">>}
              /\ req'.redeemed = req.redeemed /\ req'.grant = req.grant
Granted(d) == /\ req.status = "pending" /\ req'.status = "approved" /\ req'.grant = d
              /\ taken' = taken \union {<<d, "approve">>}
              /\ req'.redeemed = req.redeemed
Kept == /\ req'.status = req.status \/ (req.status # "absent" /\ req'.status = "swept")
        /\ req'.grant \in {req.grant, None}
        /\ req'.redeemed = req.redeemed \/ (req.status = "approved" /\ req'.redeemed)
        /\ req'.ping = req.ping
        /\ taken' = taken

RowMoves == \/ Issued
            \/ Kept
            \/ \E d \in Tab : /\ Refused(d) \/ Granted(d)
                              /\ QueuePing /\ req'.ping = req.ping
                              /\ UNCHANGED <<poll, issued, grant, posted, pinger>>

LEMMA StampKeeps ==
  ASSUME TypeOK, NEW now
  PROVE  /\ Stamped(now).status = req.status /\ Stamped(now).grant = req.grant
         /\ Stamped(now).redeemed = req.redeemed /\ Stamped(now).ping = req.ping
         /\ Stamped(now).flow = req.flow /\ Stamped(now).expires = req.expires
  BY DEF TypeOK, Stamped, Request

LEMMA RowStep == TypeOK /\ FailClosed /\ [Next]_vars => RowMoves
<1> SUFFICES ASSUME TypeOK, FailClosed, [Next]_vars PROVE RowMoves
  OBVIOUS
<1>k. ASSUME req' = req, taken' = taken PROVE RowMoves
  BY <1>k DEF RowMoves, Kept
<1>r. req \in Request
  BY DEF TypeOK
<1>1. ASSUME NEW flow \in {"device", "ciba"}, NEW mode \in BOOLEAN, Issue(flow, mode)
      PROVE  RowMoves
  BY <1>1 DEF Issue, NewRequest, RowMoves, Issued, history
<1>2. CASE Sweep
  BY <1>2, <1>r DEF Sweep, There, RowMoves, Kept, history, Request
<1>3. ASSUME NEW d \in Tab, PurgeGrant(d) PROVE RowMoves
  BY <1>3, <1>r DEF PurgeGrant, RowMoves, Kept, history, Request
<1>4. ASSUME NEW d \in Tab, Deny(d) PROVE RowMoves
  <2>1. CASE Open(d) /\ MayDecide(d)
    <3>1. /\ req' = [req EXCEPT !.status = "denied"]
          /\ taken' = taken \union {<<d, "deny">>}
          /\ QueuePing
          /\ UNCHANGED <<grant, poll, pinger, issued, posted>>
      BY <1>4, <2>1 DEF Deny
    <3> QED BY <1>r, <2>1, <3>1 DEF RowMoves, Refused, Open, Request
  <2>2. CASE ~(Open(d) /\ MayDecide(d))
    BY <1>4, <1>k, <2>2 DEF Deny
  <2> QED BY <2>1, <2>2
<1>5. ASSUME NEW d \in Tab, Approve(d) PROVE RowMoves
  <2>1. CASE Open(d) /\ MayDecide(d)
    <3>1. /\ req' = [req EXCEPT !.status = "approved", !.grant = d]
          /\ taken' = taken \union {<<d, "approve">>}
          /\ QueuePing
          /\ UNCHANGED <<grant, poll, pinger, issued, posted>>
      BY <1>5, <2>1 DEF Approve
    <3> QED BY <1>r, <2>1, <3>1 DEF RowMoves, Granted, Open, Request
  <2>2. CASE ~(Open(d) /\ MayDecide(d))
    BY <1>5, <1>k, <2>2 DEF Approve
  <2> QED BY <2>1, <2>2
<1>6. ASSUME NEW d \in Tab, RecordFailure(d) PROVE RowMoves
  <2>1. CASE There /\ tab[d].live
    <3>1. req.status # "pending"
      BY <1>6, <2>1 DEF RecordFailure, FailClosed, Open
    <3>2. req' = Failure(req) /\ taken' = taken
      BY <1>6, <2>1 DEF RecordFailure, history
    <3> QED BY <1>r, <3>1, <3>2, FailureType DEF RowMoves, Kept
  <2>2. CASE ~(There /\ tab[d].live)
    BY <1>6, <1>k, <2>2 DEF RecordFailure, history
  <2> QED BY <2>1, <2>2
<1>7. ASSUME NEW p \in Poller, Poll(p) PROVE RowMoves
  BY <1>7, <1>k, StampKeeps DEF Poll, RowMoves, Kept
<1>8. CASE StrangerPoll
  BY <1>8, <1>k, StampKeeps DEF StrangerPoll, RowMoves, Kept
<1>9. ASSUME NEW p \in Poller, Redeem(p) PROVE RowMoves
  BY <1>9, <1>r DEF Redeem, Spendable, RowMoves, Kept, history, Request
<1>10. ASSUME NEW w \in Pinger, PingMark(w) PROVE RowMoves
  BY <1>10, <1>r DEF PingMark, RowMoves, Kept, history, Request
<1> QED BY <1>k, <1>1, <1>2, <1>3, <1>4, <1>5, <1>6, <1>7, <1>8, <1>9, <1>10
     DEF Next, Tick, Manage, RevokeGrant, Decide, Submit, ReadPending, CreateGrant,
         Token, Serve, Ask, ClaimGrant, Sign, Reply, Lost,
         Notify, PingRead, PingPost, PingLost, history, vars

(* Who moves a tab, and to where.                                          *)
LEMMA TabMoves ==
  ASSUME TypeOK, FailClosed, [Next]_vars, NEW d \in Tab, tab'[d] # tab[d]
  PROVE  /\ req.status # "absent"
         /\ tab'[d].pc = "fail" => /\ req' = req /\ tab'[d].live = tab[d].live
                                   /\ ~Open(d)
<1>t. tab \in [Tab -> TabState]
  BY DEF TypeOK
<1>s. ASSUME NEW e \in Tab, NEW pc, TabStep(e, pc), tab[e].pc # "idle"
      PROVE  /\ e = d /\ tab'[d].pc = pc /\ tab'[d].live = tab[d].live
             /\ req.status # "absent"
  BY <1>t, <1>s DEF TabStep, FailClosed, TabState
<1>1. ASSUME NEW e \in Tab, NEW pc \in {"deny", "read"}, Submit(e, pc)
      PROVE  req.status # "absent" /\ tab'[d].pc # "fail"
  BY <1>1, <1>t DEF Submit, There
<1>2. ASSUME NEW e \in Tab, Deny(e) \/ ReadPending(e) \/ CreateGrant(e) \/ RecordFailure(e)
      PROVE  req.status # "absent" /\ tab'[d].pc # "fail"
  <2>1. PICK pc \in {"done", "create", "approve"} : TabStep(e, pc)
    BY <1>2 DEF Deny, ReadPending, CreateGrant, RecordFailure
  <2>2. tab[e].pc # "idle"
    BY <1>2 DEF Deny, ReadPending, CreateGrant, RecordFailure
  <2> QED BY <1>s, <2>1, <2>2
<1>3. ASSUME NEW e \in Tab, Approve(e)
      PROVE  /\ req.status # "absent"
             /\ tab'[d].pc = "fail" => /\ req' = req /\ tab'[d].live = tab[d].live
                                       /\ ~Open(d)
  <2>1. tab[e].pc = "approve"
    BY <1>3 DEF Approve
  <2>2. CASE Open(e) /\ MayDecide(e)
    BY <1>3, <1>s, <2>1, <2>2 DEF Approve
  <2>3. CASE ~(Open(e) /\ MayDecide(e))
    <3>1. TabStep(e, IF req.flow = "device" THEN "fail" ELSE "done") /\ req' = req
      BY <1>3, <2>3 DEF Approve
    <3>2. req.flow = "device" => ~Open(e)
      BY <2>3 DEF MayDecide
    <3> QED BY <1>s, <2>1, <3>1, <3>2
  <2> QED BY <2>2, <2>3
<1> QED BY <1>1, <1>2, <1>3
     DEF Next, Tick, Manage, Issue, Sweep, RevokeGrant, PurgeGrant, Decide,
         Token, Serve, Ask, Poll, StrangerPoll, Redeem, ClaimGrant, Sign, Reply, Lost,
         Notify, PingRead, PingPost, PingMark, PingLost, vars

LEMMA FailStep == TypeOK /\ FailClosed /\ [Next]_vars => FailClosed'
<1> SUFFICES ASSUME TypeOK, FailClosed, [Next]_vars PROVE FailClosed'
  OBVIOUS
<1>m. RowMoves
  BY RowStep
<1>1. ASSUME NEW d \in Tab, tab'[d].pc = "fail", req'.status = "pending", tab'[d].live
      PROVE  FALSE
  <2>1. CASE tab'[d] = tab[d]
    <3>1. req.status # "absent" /\ req.status # "pending"
      BY <1>1, <2>1 DEF FailClosed, Open
    <3> QED BY <1>1, <1>m, <3>1 DEF RowMoves, Issued, Kept, Refused, Granted
  <2>2. CASE tab'[d] # tab[d]
    BY <1>1, <2>2, TabMoves DEF Open
  <2> QED BY <2>1, <2>2
<1>2. ASSUME req'.status = "absent", NEW d \in Tab PROVE tab'[d].pc = "idle"
  <2>1. req.status = "absent"
    BY <1>2, <1>m DEF RowMoves, Issued, Kept, Refused, Granted
  <2> QED BY <2>1, TabMoves DEF FailClosed
<1> QED BY <1>1, <1>2 DEF FailClosed, Open

-----------------------------------------------------------------------------
(* One decision.                                                           *)

Deciders(verdict) == \E d \in Tab : <<d, verdict>> \in taken

(* What the row says of the answers that were recorded.                    *)
RowDecided ==
  /\ req.status \in {"absent", "pending"} => taken = {} /\ ~req.redeemed
  /\ \A x, y \in taken : x = y
  /\ req.grant # None => <<req.grant, "approve">> \in taken
  /\ req.status = "denied" => Deciders("deny")
  /\ req.status = "approved" => Deciders("approve")

LEMMA RowDecidedStep == TypeOK /\ RowDecided /\ RowMoves => RowDecided'
<1> SUFFICES ASSUME TypeOK, RowDecided, RowMoves PROVE RowDecided'
  OBVIOUS
<1>1. CASE Issued
  BY <1>1 DEF Issued, RowDecided, Deciders
<1>2. CASE Kept
  BY <1>2 DEF Kept, RowDecided, Deciders
<1>3. ASSUME NEW d \in Tab, Refused(d) PROVE RowDecided'
  <2>1. taken = {} /\ taken' = {<<d, "deny">>} /\ req.grant = None
    BY <1>3 DEF Refused, RowDecided
  <2> QED BY <1>3, <2>1 DEF Refused, RowDecided, Deciders
<1>4. ASSUME NEW d \in Tab, Granted(d) PROVE RowDecided'
  <2>1. taken = {} /\ taken' = {<<d, "approve">>} /\ ~req.redeemed
    BY <1>4 DEF Granted, RowDecided
  <2> QED BY <1>4, <2>1 DEF Granted, RowDecided, Deciders
<1> QED BY <1>1, <1>2, <1>3, <1>4 DEF RowMoves

-----------------------------------------------------------------------------
(* One issuance.                                                           *)

(* The request that spent the row and has not been answered yet.           *)
Holds(p) == poll[p].pc \in {"claim", "sign"}

(* Grants are claimed, and answers given, on the strength of what was      *)
(* recorded.                                                               *)
Backed ==
  /\ \A p \in Poller : poll[p].answer = "denied" => Deciders("deny")
  /\ \A p \in Poller : poll[p].grant # None => <<poll[p].grant, "approve">> \in taken
  /\ \A d \in Tab : grant[d] = "claimed" \/ issued[d] > 0 => <<d, "approve">> \in taken

(* The spend happens once, and the one request that made it is the only    *)
(* one that can sign.                                                      *)
SpentOnce ==
  /\ \A p \in Poller : Holds(p) => /\ req.redeemed /\ poll[p].grant \in Tab
                                   /\ \A d \in Tab : issued[d] = 0
  /\ \A p, q \in Poller : Holds(p) /\ Holds(q) => p = q
  /\ \A d \in Tab : issued[d] > 0 => req.redeemed
  /\ \A d \in Tab : issued[d] <= 1

LEMMA MovesGrow ==
  ASSUME RowDecided, RowMoves
  PROVE  /\ taken \subseteq taken'
         /\ req.redeemed => req'.redeemed
  BY DEF RowDecided, RowMoves, Issued, Kept, Refused, Granted

LEMMA BackedStep ==
  TypeOK /\ TypeOK' /\ RowDecided /\ RowMoves /\ Backed /\ SpentOnce /\ [Next]_vars => Backed'
<1> SUFFICES ASSUME TypeOK, TypeOK', RowDecided, RowMoves, Backed, SpentOnce, [Next]_vars
             PROVE  Backed'
  OBVIOUS
<1>g. taken \subseteq taken'
  BY MovesGrow
<1>t. /\ poll \in [Poller -> PollState] /\ grant \in [Tab -> GrantStatus]
      /\ issued \in [Tab -> Nat]
  BY DEF TypeOK
<1>k. ASSUME \A p \in Poller : /\ poll'[p].answer = "denied" => poll[p].answer = "denied"
                               /\ poll'[p].grant \in {poll[p].grant, None},
             \A d \in Tab : grant'[d] = "claimed" => grant[d] = "claimed",
             issued' = issued
      PROVE  Backed'
  BY <1>k, <1>g DEF Backed, Deciders
<1>1. ASSUME NEW d \in Tab, RevokeGrant(d) \/ PurgeGrant(d) \/ CreateGrant(d) PROVE Backed'
  <2>1. \A e \in Tab : grant'[e] = "claimed" => grant[e] = "claimed"
    BY <1>1, <1>t DEF RevokeGrant, PurgeGrant, CreateGrant
  <2>2. poll' = poll /\ issued' = issued
    BY <1>1 DEF RevokeGrant, PurgeGrant, CreateGrant, history
  <2> QED BY <1>k, <2>1, <2>2
<1>2. ASSUME NEW p \in Poller, Ask(p) PROVE Backed'
  <2>1. \A q \in Poller : /\ poll'[q].answer = "denied" => poll[q].answer = "denied"
                          /\ poll'[q].grant \in {poll[q].grant, None}
    BY <1>2, <1>t DEF Ask, IdlePoll, PollState
  <2> QED BY <1>2, <1>k, <2>1 DEF Ask, history
<1>3. ASSUME NEW p \in Poller, Poll(p) PROVE Backed'
  <2>1. \A q \in Poller : poll'[q].grant = poll[q].grant /\ (q # p => poll'[q] = poll[q])
    BY <1>3, <1>t DEF Poll, Answered, PollState
  <2>2. poll'[p].answer = "denied" => poll[p].answer = "denied" \/ req.status = "denied"
    <3> DEFINE a == IF There THEN Answer(poll[p].now) ELSE "invalid_grant"
    <3>1. a = "denied" => req.status = "denied"
      BY DEF Answer
    <3> HIDE DEF a
    <3>2. poll'[p].answer \in {poll[p].answer, a}
      BY <1>3, <1>t DEF Poll, Answered, PollState, a
    <3> QED BY <3>1, <3>2
  <2>3. req.status = "denied" => Deciders("deny")'
    BY <1>g DEF RowDecided, Deciders
  <2>4. grant' = grant /\ issued' = issued
    BY <1>3 DEF Poll
  <2> QED BY <1>g, <2>1, <2>2, <2>3, <2>4 DEF Backed, Deciders
<1>4. ASSUME NEW p \in Poller, Redeem(p) PROVE Backed'
  <2>1. /\ \A q \in Poller : q # p => poll'[q] = poll[q]
        /\ poll'[p].answer \in {poll[p].answer, "invalid_grant"}
        /\ poll'[p].grant \in {poll[p].grant, req.grant}
    BY <1>4, <1>t DEF Redeem, Answered, PollState
  <2>2. grant' = grant /\ issued' = issued
    BY <1>4 DEF Redeem, history
  <2> QED BY <1>g, <2>1, <2>2 DEF Backed, Deciders, RowDecided
<1>5. ASSUME NEW p \in Poller, ClaimGrant(p) PROVE Backed'
  <2>1. /\ \A q \in Poller : q # p => poll'[q] = poll[q]
        /\ poll'[p].answer \in {poll[p].answer, "invalid_grant"}
        /\ poll'[p].grant = poll[p].grant
    BY <1>5, <1>t DEF ClaimGrant, Answered, PollState
  <2>2. poll[p].grant \in Tab /\ poll[p].grant # None
    BY <1>5 DEF ClaimGrant, SpentOnce, Holds
  <2>3. \A d \in Tab : grant'[d] = "claimed" => grant[d] = "claimed" \/ d = poll[p].grant
    BY <1>5, <1>t DEF ClaimGrant
  <2>4. issued' = issued
    BY <1>5 DEF ClaimGrant, history
  <2> QED BY <1>g, <2>1, <2>2, <2>3, <2>4 DEF Backed, Deciders
<1>6. ASSUME NEW p \in Poller, Sign(p) PROVE Backed'
  <2>1. /\ \A q \in Poller : q # p => poll'[q] = poll[q]
        /\ poll'[p].answer = "tokens" /\ poll'[p].grant = poll[p].grant
    BY <1>6, <1>t DEF Sign, Answered, PollState
  <2>2. poll[p].grant \in Tab /\ poll[p].grant # None
    BY <1>6 DEF Sign, SpentOnce, Holds
  <2>3. \A d \in Tab : issued'[d] > 0 => issued[d] > 0 \/ d = poll[p].grant
    BY <1>6, <1>t DEF Sign
  <2>4. grant' = grant
    BY <1>6 DEF Sign
  <2> QED BY <1>g, <2>1, <2>2, <2>3, <2>4 DEF Backed, Deciders
<1>7. ASSUME NEW p \in Poller, Reply(p) \/ Lost(p) PROVE Backed'
  <2>1. \A q \in Poller : /\ poll'[q].answer = "denied" => poll[q].answer = "denied"
                          /\ poll'[q].grant \in {poll[q].grant, None}
    BY <1>7, <1>t DEF Reply, Lost, IdlePoll
  <2>2. grant' = grant /\ issued' = issued
    BY <1>7 DEF Reply, Lost, history
  <2> QED BY <1>k, <2>1, <2>2
<1>8. ASSUME UNCHANGED <<poll, grant, issued>> PROVE Backed'
  BY <1>8, <1>k
<1> QED BY <1>1, <1>2, <1>3, <1>4, <1>5, <1>6, <1>7, <1>8
     DEF Next, Tick, Manage, Issue, Sweep, Decide, Submit, Deny, ReadPending, Approve,
         RecordFailure, Token, Serve, StrangerPoll,
         Notify, PingRead, PingPost, PingMark, PingLost, history, vars

LEMMA SpentStep ==
  TypeOK /\ RowDecided /\ RowMoves /\ SpentOnce /\ [Next]_vars => SpentOnce'
<1> SUFFICES ASSUME TypeOK, RowDecided, RowMoves, SpentOnce, [Next]_vars PROVE SpentOnce'
  OBVIOUS
<1>g. req.redeemed => req'.redeemed
  BY MovesGrow
<1>t. poll \in [Poller -> PollState] /\ issued \in [Tab -> Nat]
  BY DEF TypeOK
<1>k. ASSUME \A p \in Poller : Holds(p)' => Holds(p) /\ poll'[p].grant = poll[p].grant,
             issued' = issued
      PROVE  SpentOnce'
  BY <1>k, <1>g DEF SpentOnce
<1>1. ASSUME NEW p \in Poller, Ask(p) PROVE SpentOnce'
  <2>1. \A q \in Poller : Holds(q)' => Holds(q) /\ poll'[q].grant = poll[q].grant
    BY <1>1, <1>t DEF Ask, IdlePoll, PollState, Holds
  <2> QED BY <1>1, <1>k, <2>1 DEF Ask, history
<1>2. ASSUME NEW p \in Poller, Poll(p) PROVE SpentOnce'
  <2>1. \A q \in Poller : Holds(q)' => Holds(q) /\ poll'[q].grant = poll[q].grant
    BY <1>2, <1>t DEF Poll, Answered, PollState, Holds
  <2> QED BY <1>2, <1>k, <2>1 DEF Poll
<1>3. ASSUME NEW p \in Poller, Redeem(p) PROVE SpentOnce'
  <2>1. CASE ~Holds(p)'
    <3>1. \A q \in Poller : q # p => poll'[q] = poll[q]
      BY <1>3, <1>t DEF Redeem, Answered
    <3>2. \A q \in Poller : Holds(q)' => Holds(q) /\ poll'[q].grant = poll[q].grant
      BY <2>1, <3>1 DEF Holds
    <3> QED BY <1>3, <1>k, <3>2 DEF Redeem, history
  <2>2. CASE Holds(p)'
    <3>1. Spendable(poll[p].now) /\ req.grant # None
      BY <1>3, <1>t, <2>2 DEF Redeem, Answered, Holds, PollState
    <3>2. req' = [req EXCEPT !.redeemed = TRUE]
          /\ poll' = [poll EXCEPT ![p].pc = "claim", ![p].grant = req.grant]
          /\ issued' = issued
      BY <1>3, <3>1 DEF Redeem, history
    <3>3. ~req.redeemed /\ req.grant \in Tab /\ req'.redeemed
      BY <3>1, <3>2 DEF Spendable, TypeOK, Request
    <3>4. /\ \A q \in Poller : ~Holds(q)
          /\ \A d \in Tab : issued[d] = 0
      BY <1>t, <3>3 DEF SpentOnce
    <3>5. /\ poll'[p].grant = req.grant
          /\ \A q \in Poller : q # p => poll'[q] = poll[q]
      BY <3>2, <1>t DEF PollState
    <3>6. \A q \in Poller : Holds(q)' => q = p
      BY <3>4, <3>5 DEF Holds
    <3> QED BY <3>2, <3>3, <3>4, <3>5, <3>6 DEF SpentOnce
  <2> QED BY <2>1, <2>2
<1>4. ASSUME NEW p \in Poller, ClaimGrant(p) PROVE SpentOnce'
  <2>1. \A q \in Poller : Holds(q)' => Holds(q) /\ poll'[q].grant = poll[q].grant
    BY <1>4, <1>t DEF ClaimGrant, Answered, PollState, Holds
  <2> QED BY <1>4, <1>k, <2>1 DEF ClaimGrant, history
<1>5. ASSUME NEW p \in Poller, Sign(p) PROVE SpentOnce'
  <2>1. Holds(p)
    BY <1>5 DEF Sign, Holds
  <2>2. /\ req.redeemed /\ poll[p].grant \in Tab /\ \A d \in Tab : issued[d] = 0
        /\ \A q \in Poller : Holds(q) => q = p
    BY <2>1 DEF SpentOnce
  <2>3. /\ \A q \in Poller : q # p => poll'[q] = poll[q]
        /\ poll'[p].pc = "reply"
    BY <1>5, <1>t DEF Sign, Answered, PollState
  <2>4. \A q \in Poller : ~Holds(q)'
    BY <2>2, <2>3 DEF Holds
  <2>5. \A d \in Tab : issued'[d] \in {0, 1}
    BY <1>5, <1>t, <2>2 DEF Sign
  <2> QED BY <1>g, <2>2, <2>4, <2>5 DEF SpentOnce
<1>6. ASSUME NEW p \in Poller, Reply(p) \/ Lost(p) PROVE SpentOnce'
  <2>1. \A q \in Poller : Holds(q)' => Holds(q) /\ poll'[q].grant = poll[q].grant
    BY <1>6, <1>t DEF Reply, Lost, IdlePoll, Holds
  <2>2. issued' = issued
    BY <1>6 DEF Reply, Lost, history
  <2> QED BY <1>k, <2>1, <2>2
<1>7. ASSUME UNCHANGED <<poll, issued>> PROVE SpentOnce'
  BY <1>7, <1>k DEF Holds
<1> QED BY <1>1, <1>2, <1>3, <1>4, <1>5, <1>6, <1>7
     DEF Next, Tick, Manage, Issue, Sweep, RevokeGrant, PurgeGrant, Decide, Submit, Deny,
         ReadPending, CreateGrant, Approve, RecordFailure, Token, Serve, StrangerPoll,
         Notify, PingRead, PingPost, PingMark, PingLost, history, vars

-----------------------------------------------------------------------------
(* The ping.                                                               *)

PingBacked ==
  /\ PingFollowsDecision
  /\ \A w \in Pinger : pinger[w] # "idle" => taken # {}

LEMMA PingStep ==
  TypeOK /\ RowDecided /\ RowMoves /\ PingBacked /\ [Next]_vars => PingBacked'
<1> SUFFICES ASSUME TypeOK, RowDecided, RowMoves, PingBacked, [Next]_vars PROVE PingBacked'
  OBVIOUS
<1>t. pinger \in [Pinger -> {"idle", "post", "mark"}]
  BY DEF TypeOK
<1>g. taken \subseteq taken'
  BY MovesGrow
<1>k. ASSUME UNCHANGED <<ping, posted, pinger>>, taken' = taken,
             req'.ping = req.ping \/ taken = {}
      PROVE  PingBacked'
  BY <1>k DEF PingBacked, PingFollowsDecision
<1>m. ASSUME UNCHANGED <<ping, posted, pinger, taken>> PROVE PingBacked'
  BY <1>m, <1>k DEF RowMoves, RowDecided, Issued, Kept
<1>1. ASSUME NEW d \in Tab, Deny(d) \/ Approve(d) PROVE PingBacked'
  <2>1. CASE taken' = taken
    <3>1. ~(Open(d) /\ MayDecide(d))
      BY <1>1, <2>1 DEF Deny, Approve, RowDecided, Open
    <3> QED BY <1>1, <1>m, <2>1, <3>1 DEF Deny, Approve
  <2>2. CASE taken' # taken
    <3>1. taken' # {} /\ ping' \in (IF req.ping THEN {"queued", "no_endpoint"} ELSE {ping})
          /\ UNCHANGED <<posted, pinger>>
      BY <1>1, <1>g, <2>2 DEF Deny, Approve, QueuePing
    <3>2. req'.ping = req.ping
      BY <2>2 DEF RowMoves, Issued, Kept
    <3> QED BY <3>1, <3>2 DEF PingBacked, PingFollowsDecision
  <2> QED BY <2>1, <2>2
<1>2. ASSUME NEW w \in Pinger, PingRead(w) PROVE PingBacked'
  BY <1>2, <1>t DEF PingRead, PingBacked, PingFollowsDecision, history
<1>3. ASSUME NEW w \in Pinger, PingPost(w) PROVE PingBacked'
  BY <1>3, <1>t DEF PingPost, PingBacked, PingFollowsDecision
<1>4. ASSUME NEW w \in Pinger, PingMark(w) PROVE PingBacked'
  <2>1. req'.ping = req.ping
    BY <1>4 DEF PingMark, TypeOK, Request
  <2> QED BY <1>4, <1>t, <2>1 DEF PingMark, PingBacked, PingFollowsDecision, history
<1>5. ASSUME NEW w \in Pinger, PingLost(w) PROVE PingBacked'
  BY <1>5, <1>t DEF PingLost, PingBacked, PingFollowsDecision
<1> QED BY <1>m, <1>1, <1>2, <1>3, <1>4, <1>5
     DEF Next, Tick, Manage, Issue, Sweep, RevokeGrant, PurgeGrant, Decide, Submit,
         ReadPending, CreateGrant, RecordFailure, Token, Serve, Ask, Poll, StrangerPoll,
         Redeem, ClaimGrant, Sign, Reply, Lost, Notify, history, vars

-----------------------------------------------------------------------------
(* The inductive invariant, and what follows from it.                      *)

IInv == TypeOK /\ FailClosed /\ RowDecided /\ Backed /\ SpentOnce /\ PingBacked

LEMMA IInvInit == Init => IInv
<1> SUFFICES ASSUME Init PROVE IInv
  OBVIOUS
<1>1. TypeOK
  BY InitType
<1>2. /\ req.status = "absent" /\ ~req.redeemed /\ req.grant = None /\ taken = {}
  BY DEF Init, NewRequest
<1>3. /\ \A d \in Tab : tab[d].pc = "idle" /\ grant[d] = "absent" /\ issued[d] = 0
      /\ \A p \in Poller : poll[p].pc = "idle" /\ poll[p].answer = "none" /\ poll[p].grant = None
      /\ \A w \in Pinger : pinger[w] = "idle"
      /\ ping = "none" /\ ~posted
  BY DEF Init, IdlePoll
<1> QED BY <1>1, <1>2, <1>3 DEF IInv, FailClosed, RowDecided, Backed, SpentOnce, Holds,
       PingBacked, PingFollowsDecision

LEMMA IInvStep == IInv /\ [Next]_vars => IInv' /\ RowMoves
<1> SUFFICES ASSUME IInv, [Next]_vars PROVE IInv' /\ RowMoves
  OBVIOUS
<1>1. TypeOK' /\ RowMoves
  BY TypeStep, RowStep DEF IInv
<1> QED BY <1>1, FailStep, RowDecidedStep, BackedStep, SpentStep, PingStep DEF IInv

LEMMA IInvHolds == Spec => [](IInv)
  BY IInvInit, IInvStep, PTL DEF Spec

(* Whatever tabs, polls, expiry, purges and lost requests interleave, one  *)
(* answer of a person is recorded at most, one token response is signed at *)
(* most, and only under the grant that person's approval created.          *)
THEOREM OneAnswer == Spec => []OneAnswerOneIssuance
<1>1. IInv => OneAnswerOneIssuance
  BY DEF IInv, OneAnswerOneIssuance, RowDecided, Backed, SpentOnce
<1> QED BY <1>1, IInvHolds, PTL

(* A client is told access_denied only after a refusal that was recorded,  *)
(* however many failures the device page counts.                           *)
THEOREM ToldWhatWasDecided == Spec => []AnswerIsThePersons
<1>1. IInv => AnswerIsThePersons
  BY DEF IInv, AnswerIsThePersons, RowDecided, Backed, Deciders
<1> QED BY <1>1, IInvHolds, PTL

(* A ping follows a decision and no decision goes without one, for any     *)
(* number of workers and lost attempts.                                    *)
THEOREM PingsAreBacked == Spec => []PingFollowsDecision
<1>1. IInv => PingFollowsDecision
  BY DEF IInv, PingBacked
<1> QED BY <1>1, IInvHolds, PTL

(* A decision, a spend and the grant of an approval are never taken back   *)
(* or replaced.                                                            *)
THEOREM DecisionsAreFinal == Spec => DecisionFinal
<1>1. ASSUME IInv, [Next]_vars
      PROVE  /\ req.status \in {"approved", "denied"} => req'.status \in {req.status, "swept"}
             /\ req.redeemed => req'.redeemed
             /\ req'.grant # req.grant /\ req'.grant # None =>
                  req.status = "pending" /\ req'.status = "approved"
  <2>1. RowMoves /\ RowDecided
    BY <1>1, IInvStep DEF IInv
  <2> QED BY <2>1 DEF RowMoves, RowDecided, Issued, Kept, Refused, Granted
<1>2. IInv /\ [Next]_vars =>
        [/\ req.status \in {"approved", "denied"} => req'.status \in {req.status, "swept"}
         /\ req.redeemed => req'.redeemed
         /\ req'.grant # req.grant /\ req'.grant # None =>
              req.status = "pending" /\ req'.status = "approved"]_vars
  BY <1>1
<1> QED BY <1>2, IInvHolds, PTL DEF Spec, DecisionFinal

-----------------------------------------------------------------------------
(* The ceiling of a CIBA request.                                          *)

(* A handler's instant is not in the future, and no request was answered   *)
(* before there was a row.                                                 *)
Arrived ==
  /\ \A p \in Poller : poll[p].now <= clock
  /\ req.status = "absent" => \A p \in Poller : poll[p].answer = "none" /\ ~InFlight(p)

(* While the request is open, its interval is paid for in slow_downs.      *)
PaidFor ==
  req.flow = "ciba" /\ req.status = "pending" /\ clock < req.expires =>
    req.interval <= Interval + slowed * Increment

EarnedInv == Arrived /\ PaidFor /\ TooFastIsEarned

LEMMA ProductOrder ==
  ASSUME NEW a \in Nat, NEW b \in Nat, NEW c \in Nat \ {0}, a * c <= b * c
  PROVE  a <= b
<1> SUFFICES ASSUME b < a PROVE FALSE
  OBVIOUS
<1> DEFINE k == a - b - 1
<1>1. k \in Nat /\ a = b + 1 + k
  OBVIOUS
<1>2. k * c \in Nat
  BY <1>1
<1> HIDE DEF k
<1>3. a * c = b * c + c + k * c
  BY <1>1
<1>4. b * c \in Nat
  OBVIOUS
<1> QED BY <1>2, <1>3, <1>4

LEMMA SlowedGrows == TypeOK /\ [Next]_vars => slowed' >= slowed
<1> SUFFICES ASSUME TypeOK, [Next]_vars PROVE slowed' >= slowed
  OBVIOUS
<1>t. slowed \in 0..MaxSlowDowns
  BY DEF TypeOK
<1>1. ASSUME NEW p \in Poller, Poll(p) PROVE slowed' >= slowed
  BY <1>1, <1>t, Limits DEF Poll, Smaller
<1>2. ASSUME slowed' = slowed PROVE slowed' >= slowed
  BY <1>2, <1>t
<1> QED BY <1>1, <1>2
     DEF Next, Tick, Manage, Issue, Sweep, RevokeGrant, PurgeGrant, Decide, Submit, Deny,
         ReadPending, CreateGrant, Approve, RecordFailure, Token, Serve, Ask, StrangerPoll,
         Redeem, ClaimGrant, Sign, Reply, Lost,
         Notify, PingRead, PingPost, PingMark, PingLost, history, vars

LEMMA ArrivedStep == IInv /\ Arrived /\ [Next]_vars => Arrived'
<1> SUFFICES ASSUME IInv, Arrived, [Next]_vars PROVE Arrived'
  OBVIOUS
<1>t. /\ poll \in [Poller -> PollState] /\ clock \in Nat
      /\ \A p \in Poller : poll[p].now \in Nat
  BY NullType DEF IInv, TypeOK, PollState
<1>m. req'.status = "absent" => req.status = "absent"
  BY IInvStep DEF RowMoves, Issued, Kept, Refused, Granted
<1>k. ASSUME \A p \in Poller : \/ poll'[p] = poll[p]
                               \/ req.status # "absent" /\ poll'[p].now \in {poll[p].now, 0, clock},
             clock' \in {clock, clock + 1}
      PROVE  Arrived'
  <2>1. \A p \in Poller : poll'[p].now <= clock'
    BY <1>k, <1>t DEF Arrived
  <2>2. ASSUME req'.status = "absent", NEW p \in Poller
        PROVE  poll'[p].answer = "none" /\ poll'[p].pc = "idle"
    BY <1>k, <1>m, <2>2 DEF Arrived, InFlight
  <2> QED BY <2>1, <2>2 DEF Arrived, InFlight
<1>1. ASSUME NEW p \in Poller, Ask(p) PROVE Arrived'
  <2>1. \A q \in Poller : poll'[q].now \in {poll[q].now, clock}
    BY <1>1, <1>t DEF Ask, IdlePoll, PollState
  <2>2. req.status # "absent" /\ clock' = clock
    BY <1>1 DEF Ask
  <2> QED BY <1>k, <2>1, <2>2
<1>2. ASSUME NEW p \in Poller, Serve(p) \/ Lost(p) PROVE Arrived'
  <2>1. InFlight(p)
    BY <1>2 DEF Serve, Lost, Poll, Redeem, ClaimGrant, Sign, Reply, InFlight
  <2>2. req.status # "absent"
    BY <2>1 DEF Arrived
  <2>3. \A q \in Poller : poll'[q].now \in {poll[q].now, 0}
    BY <1>2, <1>t DEF Serve, Lost, Poll, Redeem, ClaimGrant, Sign, Reply, Answered, IdlePoll,
       PollState
  <2>4. clock' = clock
    BY <1>2 DEF Serve, Lost, Poll, Redeem, ClaimGrant, Sign, Reply
  <2> QED BY <1>k, <2>2, <2>3, <2>4
<1>3. ASSUME poll' = poll, clock' \in {clock, clock + 1} PROVE Arrived'
  BY <1>3, <1>k
<1> QED BY <1>1, <1>2, <1>3
     DEF Next, Tick, Manage, Issue, Sweep, RevokeGrant, PurgeGrant, Decide, Submit, Deny,
         ReadPending, CreateGrant, Approve, RecordFailure, Token, StrangerPoll,
         Notify, PingRead, PingPost, PingMark, PingLost, vars

(* A poll of an open CIBA request either leaves the interval or buys the   *)
(* raise with a slow_down.                                                 *)
LEMMA RaisePaid ==
  ASSUME IInv, Arrived, PaidFor, NEW p \in Poller, Poll(p)
  PROVE  PaidFor'
<1> SUFFICES ASSUME req'.flow = "ciba", req'.status = "pending", clock' < req'.expires
             PROVE  req'.interval <= Interval + slowed' * Increment
  BY DEF PaidFor
<1>t. /\ req \in Request /\ slowed \in 0..MaxSlowDowns /\ clock \in Nat
      /\ poll[p].now \in Nat /\ poll[p].now <= clock
  BY NullType DEF IInv, TypeOK, PollState, Arrived
<1>0. clock' = clock
  BY DEF Poll
<1>1. CASE ~There
  BY <1>0, <1>1 DEF Poll, PaidFor, Answered, There
<1>2. CASE There
  <2> DEFINE now == poll[p].now
  <2>1. req' = Stamped(now)
    BY <1>2 DEF Poll
  <2>2. req.flow = "ciba" /\ req.status = "pending" /\ clock < req.expires
    BY <1>0, <2>1, StampKeeps DEF IInv
  <2>3. req.interval <= Interval + slowed * Increment /\ ~req.redeemed
    BY <2>2 DEF PaidFor, IInv, RowDecided
  <2>4. req.expires > now /\ req.expires \in Nat
    BY <1>t, <2>2 DEF Request
  <2>5. req.interval \in Nat /\ slowed * Increment \in Nat /\ slowed \in Nat
    BY <1>t, LongestType, Limits DEF Request
  <2>6. CASE TooSoon(now) /\ req.interval < Ceiling
    <3>1. Answer(now) = "slow_down"
      BY <1>t, <2>2, <2>3, <2>4, <2>5, <2>6, CeilingType DEF Answer
    <3>2. slowed' = Smaller(slowed + 1, MaxSlowDowns)
      BY <1>2, <2>2, <3>1 DEF Poll
    <3>3. req'.interval = Smaller(req.interval + Increment, Ceiling)
      BY <1>t, <2>1, <2>2, <2>6 DEF Stamped, Raised, Request
    <3>4. CASE slowed < MaxSlowDowns
      <4>1. slowed' = slowed + 1
        BY <1>t, <3>2, <3>4, Limits DEF Smaller
      <4>2. (slowed + 1) * Increment = slowed * Increment + Increment
        BY <2>5, Limits
      <4>3. req'.interval <= req.interval + Increment
        BY <2>5, <3>3, Limits, CeilingType DEF Smaller
      <4>4. req'.interval \in Nat
        BY <2>5, <3>3, Limits, CeilingType DEF Smaller
      <4> QED BY <2>3, <2>5, <4>1, <4>2, <4>3, <4>4, Limits
    <3>5. CASE slowed = MaxSlowDowns
      <4>1. slowed' = MaxSlowDowns
        BY <1>t, <3>2, <3>5, Limits DEF Smaller
      <4>2. req'.interval <= Ceiling
        BY <2>5, <3>3, Limits, CeilingType DEF Smaller
      <4> QED BY <4>1, <4>2 DEF Ceiling
    <3> QED BY <1>t, <3>4, <3>5, Limits
  <2>7. CASE ~(TooSoon(now) /\ req.interval < Ceiling)
    <3>1. req'.interval = req.interval
      BY <1>t, <2>1, <2>2, <2>7 DEF Stamped, Request
    <3>2. slowed' = slowed
      <4>1. Answer(now) # "slow_down"
        BY <1>t, <2>2, <2>5, <2>7, CeilingType DEF Answer
      <4> QED BY <1>2, <4>1 DEF Poll
    <3> QED BY <2>3, <3>1, <3>2
  <2> QED BY <2>6, <2>7
<1> QED BY <1>1, <1>2

LEMMA PaidStep == IInv /\ Arrived /\ PaidFor /\ [Next]_vars => PaidFor'
<1> SUFFICES ASSUME IInv, Arrived, PaidFor, [Next]_vars PROVE PaidFor'
  OBVIOUS
<1>t. /\ req \in Request /\ clock \in Nat /\ slowed \in Nat /\ slowed * Increment \in Nat
      /\ req.expires \in Nat
  BY NullType, Limits DEF IInv, TypeOK, Request
<1>k. ASSUME req'.status = "pending" =>
               /\ req.status = "pending" /\ req'.flow = req.flow
               /\ req'.expires = req.expires /\ req'.interval = req.interval,
             slowed' = slowed, clock' \in {clock, clock + 1}
      PROVE  PaidFor'
  BY <1>k, <1>t DEF PaidFor
<1>1. ASSUME NEW p \in Poller, Poll(p) PROVE PaidFor'
  BY <1>1, RaisePaid
<1>2. ASSUME NEW flow \in {"device", "ciba"}, NEW mode \in BOOLEAN, Issue(flow, mode)
      PROVE  PaidFor'
  <2>1. req'.interval = Interval /\ slowed' = slowed
    BY <1>2 DEF Issue, NewRequest, history
  <2> QED BY <1>t, <2>1, Limits DEF PaidFor
<1>3. CASE StrangerPoll
  <2>1. CASE req.flow = "device"
    <3>1. req'.flow = "device"
      BY <1>3, <2>1, StampKeeps DEF StrangerPoll, IInv
    <3> QED BY <3>1 DEF PaidFor
  <2>2. CASE req.flow # "device"
    BY <1>3, <1>k, <2>2 DEF StrangerPoll, StrangerStamps
  <2> QED BY <2>1, <2>2
<1>4. CASE Sweep \/ \E d \in Tab : PurgeGrant(d) \/ Deny(d) \/ Approve(d)
  <2>1. /\ req'.status = "pending" =>
             /\ req.status = "pending" /\ req'.flow = req.flow
             /\ req'.expires = req.expires /\ req'.interval = req.interval
        /\ slowed' = slowed /\ clock' = clock
    BY ZenonT(60), <1>4, <1>t DEF Sweep, PurgeGrant, Deny, Approve, Request, history
  <2> QED BY <1>k, <2>1
<1>5. ASSUME NEW d \in Tab, RecordFailure(d) PROVE PaidFor'
  <2>1. req'.status = "pending" => req.status = "pending"
    BY <1>5, <1>t, FailureType DEF RecordFailure
  <2>2. /\ req'.flow = req.flow /\ req'.expires = req.expires /\ req'.interval = req.interval
    BY <1>5, <1>t, FailureType DEF RecordFailure
  <2>3. slowed' = slowed /\ clock' = clock
    BY <1>5 DEF RecordFailure, history
  <2> QED BY <1>k, <2>1, <2>2, <2>3
<1>6. ASSUME NEW p \in Poller, Redeem(p) PROVE PaidFor'
  <2>1. /\ req'.status = req.status /\ req'.flow = req.flow
        /\ req'.expires = req.expires /\ req'.interval = req.interval
    BY <1>6, <1>t DEF Redeem, Request
  <2>2. slowed' = slowed /\ clock' = clock
    BY <1>6 DEF Redeem, history
  <2> QED BY <1>k, <2>1, <2>2
<1>7. ASSUME NEW w \in Pinger, PingMark(w) PROVE PaidFor'
  <2>1. /\ req'.status = req.status /\ req'.flow = req.flow
        /\ req'.expires = req.expires /\ req'.interval = req.interval
    BY <1>7, <1>t DEF PingMark, Request
  <2>2. slowed' = slowed /\ clock' = clock
    BY <1>7 DEF PingMark, history
  <2> QED BY <1>k, <2>1, <2>2
<1>8. ASSUME req' = req, slowed' = slowed, clock' \in {clock, clock + 1} PROVE PaidFor'
  BY <1>8, <1>k
<1> QED BY <1>1, <1>2, <1>3, <1>4, <1>5, <1>6, <1>7, <1>8
     DEF Next, Tick, Manage, RevokeGrant, Decide, Submit, ReadPending, CreateGrant,
         Token, Serve, Ask, ClaimGrant, Sign, Reply, Lost,
         Notify, PingRead, PingPost, PingLost, history, vars

LEMMA ExpiryFixed ==
  ASSUME IInv, [Next]_vars, req.status # "absent"
  PROVE  req'.expires = req.expires
<1>t. req \in Request /\ TypeOK
  BY DEF IInv, TypeOK
<1>1. CASE Sweep \/ \E d \in Tab : PurgeGrant(d) \/ Deny(d) \/ Approve(d)
  BY <1>1, <1>t DEF Sweep, PurgeGrant, Deny, Approve, Request
<1>2. ASSUME NEW d \in Tab, RecordFailure(d) PROVE req'.expires = req.expires
  BY <1>2, <1>t, FailureType DEF RecordFailure
<1>3. ASSUME NEW p \in Poller, Poll(p) PROVE req'.expires = req.expires
  BY <1>3, <1>t, StampKeeps DEF Poll
<1>4. CASE StrangerPoll
  BY <1>4, <1>t, StampKeeps DEF StrangerPoll
<1>5. ASSUME NEW p \in Poller, Redeem(p) PROVE req'.expires = req.expires
  BY <1>5, <1>t DEF Redeem, Request
<1>6. ASSUME NEW w \in Pinger, PingMark(w) PROVE req'.expires = req.expires
  BY <1>6, <1>t DEF PingMark, Request
<1> QED BY <1>1, <1>2, <1>3, <1>4, <1>5, <1>6
     DEF Next, Tick, Manage, Issue, RevokeGrant, Decide, Submit, ReadPending, CreateGrant,
         Token, Serve, Ask, ClaimGrant, Sign, Reply, Lost,
         Notify, PingRead, PingPost, PingLost, vars

LEMMA EarnedStep == IInv /\ EarnedInv /\ [Next]_vars => TooFastIsEarned'
<1> SUFFICES ASSUME IInv, EarnedInv, [Next]_vars, NEW p \in Poller, poll'[p].answer = "too_fast"
             PROVE  slowed' = MaxSlowDowns \/ req'.expires <= clock'
  BY DEF TooFastIsEarned
<1>t. /\ poll \in [Poller -> PollState] /\ slowed \in 0..MaxSlowDowns
      /\ slowed' \in 0..MaxSlowDowns /\ clock \in Nat /\ req \in Request
      /\ req.expires \in Nat /\ req.interval \in Nat
      /\ poll[p].now \in Nat /\ poll[p].now <= clock
  <2>1. TypeOK /\ TypeOK'
    BY IInvStep DEF IInv
  <2>2. /\ poll \in [Poller -> PollState] /\ slowed \in 0..MaxSlowDowns
        /\ slowed' \in 0..MaxSlowDowns /\ clock \in Nat /\ req \in Request
    BY <2>1, NullType DEF TypeOK
  <2>3. req.expires \in Nat /\ req.interval \in Nat
    BY <2>2, LongestType DEF Request
  <2>4. poll[p].now \in Nat /\ poll[p].now <= clock
    BY <2>2, NullType DEF PollState, EarnedInv, Arrived
  <2> QED BY <2>2, <2>3, <2>4
<1>1. CASE poll[p].answer = "too_fast"
  <2>1. req.status # "absent"
    BY <1>1 DEF EarnedInv, Arrived
  <2>2. slowed = MaxSlowDowns => slowed' = MaxSlowDowns
    BY <1>t, SlowedGrows, Limits DEF IInv
  <2>3. req'.expires = req.expires
    BY <2>1, ExpiryFixed
  <2>4. clock' \in {clock, clock + 1}
    BY DEF Next, Tick, Manage, Issue, Sweep, RevokeGrant, PurgeGrant, Decide, Submit,
           Deny, ReadPending, CreateGrant, Approve, RecordFailure, Token, Serve, Ask, Poll,
           StrangerPoll, Redeem, ClaimGrant, Sign, Reply, Lost,
           Notify, PingRead, PingPost, PingMark, PingLost, vars
  <2> QED BY <1>1, <1>t, <2>2, <2>3, <2>4 DEF EarnedInv, TooFastIsEarned
<1>2. CASE poll[p].answer # "too_fast"
  <2>1. Poll(p)
    <3>1. ASSUME NEW q \in Poller, Poll(q) PROVE q = p
      BY <1>2, <1>t, <3>1 DEF Poll, Answered, PollState
    <3>2. ASSUME NEW q \in Poller, Ask(q) PROVE FALSE
      BY <1>2, <1>t, <3>2 DEF Ask, IdlePoll, PollState
    <3>3. ASSUME NEW q \in Poller,
                 Redeem(q) \/ ClaimGrant(q) \/ Sign(q) \/ Reply(q) \/ Lost(q)
          PROVE  FALSE
      BY <1>2, <1>t, <3>3 DEF Redeem, ClaimGrant, Sign, Reply, Lost, Answered, IdlePoll, PollState
    <3>4. ASSUME poll' = poll PROVE FALSE
      BY <1>2, <3>4
    <3> QED BY <3>1, <3>2, <3>3, <3>4
         DEF Next, Tick, Manage, Issue, Sweep, RevokeGrant, PurgeGrant, Decide, Submit, Deny,
             ReadPending, CreateGrant, Approve, RecordFailure, Token, Serve, StrangerPoll,
             Notify, PingRead, PingPost, PingMark, PingLost, vars
  <2> DEFINE a == IF There THEN Answer(poll[p].now) ELSE "invalid_grant"
  <2>2. a = "too_fast"
    <3> HIDE DEF a
    <3>1. poll'[p].answer \in {poll[p].answer, a}
      BY <1>t, <2>1 DEF Poll, Answered, PollState, a
    <3> QED BY <1>2, <3>1
  <2>3. /\ There /\ req.flow = "ciba" /\ req.interval >= Ceiling
        /\ req.status \notin {"approved", "denied"}
    <3>1. There /\ Answer(poll[p].now) = "too_fast"
      BY <2>2
    <3>2. /\ ~(req.expires <= poll[p].now) /\ ~req.redeemed
          /\ req.status # "approved" /\ req.status # "denied"
      BY <3>1 DEF Answer
    <3>3. CASE TooSoon(poll[p].now)
      <4>1. Answer(poll[p].now) =
              IF req.flow = "ciba" /\ req.interval >= Ceiling THEN "too_fast" ELSE "slow_down"
        BY <3>2, <3>3 DEF Answer
      <4> QED BY <3>1, <3>2, <4>1
    <3>4. CASE ~TooSoon(poll[p].now)
      BY <3>1, <3>2, <3>4 DEF Answer
    <3> QED BY <3>3, <3>4
  <2>4. req.status = "pending"
    BY <1>t, <2>3 DEF Request, There
  <2>5. clock' = clock /\ req'.expires = req.expires
    BY <2>1, <2>4, ExpiryFixed DEF Poll
  <2>6. CASE clock < req.expires
    <3>1. req.interval <= Interval + slowed * Increment
      BY <2>3, <2>4, <2>6 DEF EarnedInv, PaidFor
    <3>2. MaxSlowDowns * Increment <= slowed * Increment
      <4>1. MaxSlowDowns * Increment \in Nat /\ slowed * Increment \in Nat
        BY <1>t, Limits
      <4> QED BY <1>t, <2>3, <3>1, <4>1, Limits DEF Ceiling
    <3>3. MaxSlowDowns <= slowed
      BY <1>t, <3>2, ProductOrder, Limits
    <3> QED BY <1>t, <3>3, SlowedGrows, Limits DEF IInv
  <2>7. CASE ~(clock < req.expires)
    BY <1>t, <2>5, <2>7
  <2> QED BY <2>6, <2>7
<1> QED BY <1>1, <1>2

(* A CIBA client is told to stop only after MAX_SLOW_DOWNS slow_downs,     *)
(* or once the request has expired, for any intervals and any number of    *)
(* concurrent polls.                                                       *)
THEOREM StopIsEarned == Spec => []TooFastIsEarned
<1>1. Init => EarnedInv
  <2> SUFFICES ASSUME Init PROVE EarnedInv
    OBVIOUS
  <2>1. \A p \in Poller : poll[p] = IdlePoll
    BY DEF Init
  <2>2. /\ clock = 0 /\ req.status = "absent"
    BY DEF Init, NewRequest
  <2> QED BY <2>1, <2>2 DEF EarnedInv, Arrived, PaidFor, TooFastIsEarned, IdlePoll, InFlight
<1>2. IInv /\ EarnedInv /\ [Next]_vars => EarnedInv'
  BY ArrivedStep, PaidStep, EarnedStep DEF EarnedInv
<1>3. EarnedInv => TooFastIsEarned
  BY DEF EarnedInv
<1> QED BY <1>1, <1>2, <1>3, IInvHolds, PTL DEF Spec

-----------------------------------------------------------------------------
(* The patient client.                                                     *)

Slow == {"slow_down", "too_fast"}

(* The increments the row has taken and the client has not heard of yet.   *)
Owed == {p \in Poller : poll[p].answer = "slow_down"}

(* The client asks in the order of time, a handler is slowed down by its   *)
(* last statement, and a patient request is alone.                         *)
ClientOrder ==
  /\ told >= Interval /\ asked <= clock
  /\ \A p \in Poller : InFlight(p) => poll[p].now <= asked
  /\ \A p \in Poller : poll[p].answer \in Slow => poll[p].pc = "reply"
  /\ \A p, q \in Poller : poll[p].patient /\ InFlight(q) => p = q

(* The two copies of the interval differ by what is on its way, while the  *)
(* request is open: polls of an expired request raise the row's alone.     *)
CopiesAgree ==
  /\ IsFiniteSet(Owed)
  /\ ~excused /\ req.status = "pending" /\ clock < req.expires =>
       req.interval <= told + Cardinality(Owed) * Increment

(* The row's stamp is no later than the client's last request.             *)
StampKnown == ~excused => req.last <= asked

(* A patient request stays on time until it is served.                     *)
OnTime ==
  \A p \in Poller :
    /\ ~excused /\ poll[p].patient /\ poll[p].pc = "poll"
    /\ req.status = "pending" /\ poll[p].now < req.expires
    => ~TooSoon(poll[p].now)

PatientInv == ClientOrder /\ CopiesAgree /\ StampKnown /\ OnTime /\ PatientNeverSlowed

LEMMA PatientTypes ==
  ASSUME IInv
  PROVE  /\ poll \in [Poller -> PollState] /\ req \in Request
         /\ clock \in Nat /\ told \in Nat /\ told <= Longest /\ asked \in Int
         /\ req.interval \in Nat /\ req.interval <= Longest /\ req.last \in Int
         /\ req.expires \in Nat /\ excused \in BOOLEAN
         /\ \A p \in Poller : poll[p].now \in Nat
<1>1. TypeOK
  BY DEF IInv
<1>n. \A t \in Instant \union {Null} : t \in Int
  BY Limits DEF Instant, Null
<1>2. clock \in Nat /\ asked \in Instant \union {Null} /\ told \in 1..Longest
      /\ poll \in [Poller -> PollState] /\ req \in Request /\ excused \in BOOLEAN
  BY <1>1, NullType DEF TypeOK
<1>3. /\ req.interval \in 1..Longest /\ req.last \in Instant \union {Null}
      /\ req.expires \in Nat
  BY <1>2 DEF Request
<1>4. req.last \in Int /\ asked \in Int
  BY <1>n, <1>2, <1>3
<1>5. \A p \in Poller : poll[p].now \in Nat
  BY <1>2, NullType DEF PollState
<1> QED BY <1>2, <1>3, <1>4, <1>5, LongestType

LEMMA OwedCount ==
  ASSUME IsFiniteSet(Owed)
  PROVE  Cardinality(Owed) \in Nat /\ Cardinality(Owed) * Increment \in Nat
<1>1. Cardinality(Owed) \in Nat
  BY FS_CardinalityType
<1> QED BY <1>1, Limits

(* Steps that leave the client, its requests and the row's copy alone.     *)
LEMMA QuietStep ==
  ASSUME IInv, PatientInv, UNCHANGED <<poll, told, asked, excused>>,
         clock' \in {clock, clock + 1},
         req'.last = req.last, req'.interval = req.interval, req'.expires = req.expires,
         req'.status = "pending" => req.status = "pending"
  PROVE  PatientInv'
<1>t. /\ clock \in Nat /\ asked \in Int /\ req.expires \in Nat
  BY PatientTypes
<1>1. ClientOrder'
  <2>1. asked' <= clock'
    BY <1>t DEF PatientInv, ClientOrder
  <2> QED BY <2>1 DEF PatientInv, ClientOrder, InFlight
<1>2. CopiesAgree'
  <2>1. Owed' = Owed
    BY DEF Owed
  <2>2. clock' < req'.expires => clock < req.expires
    BY <1>t
  <2> QED BY <2>1, <2>2 DEF PatientInv, CopiesAgree
<1>3. StampKnown'
  BY DEF PatientInv, StampKnown
<1>4. OnTime'
  BY DEF PatientInv, OnTime, TooSoon
<1>5. PatientNeverSlowed'
  BY DEF PatientInv, PatientNeverSlowed
<1> QED BY <1>1, <1>2, <1>3, <1>4, <1>5 DEF PatientInv

(* Steps after which the client is excused.                                *)
LEMMA ExcusedStep ==
  ASSUME excused', ClientOrder', IsFiniteSet(Owed')
  PROVE  PatientInv'
  BY DEF PatientInv, CopiesAgree, StampKnown, OnTime, PatientNeverSlowed

LEMMA IssuePatient ==
  ASSUME IInv, Arrived, PatientInv,
         NEW flow \in {"device", "ciba"}, NEW mode \in BOOLEAN, Issue(flow, mode)
  PROVE  PatientInv'
<1>t. /\ told \in Nat /\ asked \in Int /\ clock \in Nat
  BY PatientTypes
<1>1. /\ UNCHANGED <<clock, poll, told, asked, excused>>
      /\ req'.last = Null /\ req'.interval = Interval
      /\ req.status = "absent"
  BY DEF Issue, NewRequest, client, history
<1>2. \A p \in Poller : poll[p].answer = "none" /\ ~InFlight(p)
  BY <1>1 DEF Arrived
<1>3. ClientOrder'
  BY <1>1 DEF PatientInv, ClientOrder, InFlight
<1>4. CopiesAgree'
  <2>1. Owed' = Owed
    BY <1>1 DEF Owed
  <2>2. Cardinality(Owed) * Increment \in Nat
    BY OwedCount DEF PatientInv, CopiesAgree
  <2>3. Interval <= told + Cardinality(Owed) * Increment
    BY <1>t, <2>2, Limits DEF PatientInv, ClientOrder
  <2> QED BY <1>1, <2>1, <2>3 DEF PatientInv, CopiesAgree
<1>5. StampKnown'
  <2>1. asked \in Nat \/ asked = Null
    BY NullType DEF IInv, TypeOK
  <2>2. Null <= asked
    BY <2>1 DEF Null
  <2> QED BY <1>1, <2>2 DEF StampKnown
<1>6. OnTime'
  BY <1>1 DEF OnTime, TooSoon
<1>7. PatientNeverSlowed'
  BY <1>1 DEF PatientInv, PatientNeverSlowed
<1> QED BY <1>3, <1>4, <1>5, <1>6, <1>7 DEF PatientInv

LEMMA AskPatient ==
  ASSUME IInv, Arrived, PatientInv, NEW p \in Poller, Ask(p)
  PROVE  PatientInv'
<1>t. /\ poll \in [Poller -> PollState] /\ clock \in Nat /\ told \in Nat /\ asked \in Int
      /\ req.interval \in Nat /\ req.last \in Int
      /\ \A q \in Poller : poll[q].now \in Nat
  BY PatientTypes
<1>1. /\ UNCHANGED <<clock, req, told, excused>> /\ asked' = clock
      /\ ~InFlight(p)
  BY DEF Ask, history
<1>2. /\ poll'[p].pc = "poll" /\ poll'[p].now = clock /\ poll'[p].answer = "none"
      /\ poll'[p].patient => /\ \A o \in Poller : ~InFlight(o)
                             /\ asked # Null => asked + told <= clock
      /\ \A q \in Poller : q # p => /\ poll'[q].pc = poll[q].pc /\ poll'[q].now = poll[q].now
                                    /\ poll'[q].answer = poll[q].answer
                                    /\ ~poll'[q].patient
  <2>1. \A q \in Poller : poll'[q] =
          IF q = p
            THEN [IdlePoll EXCEPT !.pc = "poll", !.now = clock,
                   !.patient = /\ \A o \in Poller : ~InFlight(o)
                               /\ asked # Null => asked + told <= clock]
            ELSE [poll[q] EXCEPT !.patient = FALSE]
    BY DEF Ask
  <2>2. \A q \in Poller : q # p => poll'[q] = [poll[q] EXCEPT !.patient = FALSE]
    BY <2>1
  <2>3. \A q \in Poller : q # p => /\ poll'[q].pc = poll[q].pc /\ poll'[q].now = poll[q].now
                                   /\ poll'[q].answer = poll[q].answer
                                   /\ ~poll'[q].patient
    <3> SUFFICES ASSUME NEW q \in Poller, q # p
                 PROVE  /\ poll'[q].pc = poll[q].pc /\ poll'[q].now = poll[q].now
                        /\ poll'[q].answer = poll[q].answer /\ ~poll'[q].patient
      OBVIOUS
    <3>1. poll[q] \in PollState /\ poll'[q] = [poll[q] EXCEPT !.patient = FALSE]
      BY <1>t, <2>2
    <3>2. poll'[q].pc = poll[q].pc /\ poll'[q].now = poll[q].now
          /\ poll'[q].answer = poll[q].answer
      BY <3>1 DEF PollState
    <3>3. poll'[q].patient = FALSE
      BY <3>1 DEF PollState
    <3> QED BY <3>2, <3>3
  <2>4. /\ poll'[p].pc = "poll" /\ poll'[p].now = clock /\ poll'[p].answer = "none"
        /\ poll'[p].patient => /\ \A o \in Poller : ~InFlight(o)
                               /\ asked # Null => asked + told <= clock
    <3> DEFINE b == /\ \A o \in Poller : ~InFlight(o)
                    /\ asked # Null => asked + told <= clock
    <3>1. poll'[p] = [IdlePoll EXCEPT !.pc = "poll", !.now = clock, !.patient = b]
      BY <2>1
    <3> HIDE DEF b
    <3>2. /\ poll'[p].pc = "poll" /\ poll'[p].now = clock /\ poll'[p].answer = "none"
          /\ poll'[p].patient = b
      BY <3>1 DEF IdlePoll
    <3> QED BY <3>2 DEF b
  <2> QED BY <2>3, <2>4
<1>3. poll[p].answer # "slow_down"
  BY <1>1 DEF PatientInv, ClientOrder, Slow, InFlight
<1>4. ClientOrder'
  <2>1. \A q \in Poller : poll'[q].now <= asked'
    BY <1>t, <1>1, <1>2 DEF Arrived
  <2>2. \A q \in Poller : poll'[q].answer \in Slow => poll'[q].pc = "reply"
    BY <1>2 DEF PatientInv, ClientOrder, Slow
  <2>3. ASSUME NEW q \in Poller, NEW o \in Poller, poll'[q].patient, InFlight(o)'
        PROVE  q = o
    <3>1. q = p /\ \A r \in Poller : ~InFlight(r)
      BY <1>2, <2>3
    <3>2. o # p => poll[o].pc # "idle"
      BY <1>2, <2>3 DEF InFlight
    <3> QED BY <3>1, <3>2 DEF InFlight
  <2>4. told' >= Interval /\ asked' <= clock'
    BY <1>t, <1>1 DEF PatientInv, ClientOrder
  <2> QED BY <2>1, <2>2, <2>3, <2>4 DEF ClientOrder
<1>5. Owed' = Owed
  BY <1>2, <1>3 DEF Owed
<1>6. CopiesAgree'
  BY <1>1, <1>5 DEF PatientInv, CopiesAgree
<1>7. StampKnown'
  BY <1>t, <1>1 DEF PatientInv, StampKnown, ClientOrder
<1>8. OnTime'
  <2> SUFFICES ASSUME NEW q \in Poller, ~excused, poll'[q].patient,
                      req.status = "pending", poll'[q].now < req.expires,
                      req.last # Null
               PROVE  ~(poll'[q].now < req.last + req.interval)
    BY <1>1 DEF OnTime, TooSoon
  <2>1. /\ q = p /\ poll'[q].now = clock
        /\ \A o \in Poller : ~InFlight(o)
        /\ asked # Null => asked + told <= clock
    BY <1>2
  <2>2. Owed = {}
    BY <2>1 DEF Owed, PatientInv, ClientOrder, Slow, InFlight
  <2>3. req.interval <= told + 0 * Increment
    BY <1>t, <2>1, <2>2, FS_EmptySet DEF PatientInv, CopiesAgree
  <2>4. req.last <= asked
    BY DEF PatientInv, StampKnown
  <2>5. req.last \in Nat
    BY NullType DEF IInv, TypeOK, Request
  <2>6. asked # Null
    BY <1>t, <2>4, <2>5 DEF Null
  <2> QED BY <1>t, <2>1, <2>3, <2>4, <2>6, Limits
<1>9. PatientNeverSlowed'
  BY <1>1, <1>2 DEF PatientNeverSlowed
<1> QED BY <1>4, <1>6, <1>7, <1>8, <1>9 DEF PatientInv

(* A served request that is not slowed down: the row's copy is left alone. *)
LEMMA ServedPatient ==
  ASSUME IInv, PatientInv, UNCHANGED <<clock, told, asked, excused>>,
         req'.last = req.last, req'.interval = req.interval, req'.expires = req.expires,
         req'.status = req.status,
         NEW p \in Poller, InFlight(p), poll[p].pc # "reply",
         poll'[p].pc # "poll", poll'[p].answer \notin Slow, poll'[p].now = poll[p].now,
         poll'[p].patient = poll[p].patient,
         \A q \in Poller : q # p => poll'[q] = poll[q]
  PROVE  PatientInv'
<1>1. poll[p].answer \notin Slow
  BY DEF PatientInv, ClientOrder
<1>2. ClientOrder'
  <2>1. \A q \in Poller : InFlight(q)' => InFlight(q) /\ poll'[q].now = poll[q].now
    BY DEF InFlight
  <2>2. \A q \in Poller : poll'[q].answer \in Slow => poll'[q].pc = "reply"
    BY DEF PatientInv, ClientOrder
  <2>3. \A q \in Poller : poll'[q].patient = poll[q].patient
    OBVIOUS
  <2> QED BY <2>1, <2>2, <2>3 DEF PatientInv, ClientOrder
<1>3. Owed' = Owed
  BY <1>1 DEF Owed, Slow
<1>4. CopiesAgree'
  BY <1>3 DEF PatientInv, CopiesAgree
<1>5. StampKnown'
  BY DEF PatientInv, StampKnown
<1>6. OnTime'
  BY DEF PatientInv, OnTime, TooSoon
<1>7. PatientNeverSlowed'
  BY DEF PatientInv, PatientNeverSlowed, Slow
<1> QED BY <1>2, <1>4, <1>5, <1>6, <1>7 DEF PatientInv

LEMMA SpendPatient ==
  ASSUME IInv, PatientInv, NEW p \in Poller, Redeem(p) \/ ClaimGrant(p) \/ Sign(p)
  PROVE  PatientInv'
<1>t. poll \in [Poller -> PollState] /\ req \in Request
  BY PatientTypes
<1>1. InFlight(p) /\ poll[p].pc # "reply"
  BY DEF Redeem, ClaimGrant, Sign, InFlight
<1>2. poll[p].answer \notin Slow
  BY <1>1 DEF PatientInv, ClientOrder
<1>3. UNCHANGED <<clock, told, asked, excused>>
  BY DEF Redeem, ClaimGrant, Sign, client, history
<1>4. /\ req'.last = req.last /\ req'.interval = req.interval /\ req'.expires = req.expires
      /\ req'.status = req.status
  BY <1>t DEF Redeem, ClaimGrant, Sign, Request
<1>5. /\ poll'[p].pc # "poll" /\ poll'[p].answer \in {poll[p].answer, "invalid_grant", "tokens"}
      /\ poll'[p].now = poll[p].now /\ poll'[p].patient = poll[p].patient
      /\ \A q \in Poller : q # p => poll'[q] = poll[q]
  <2>1. \/ poll' = [poll EXCEPT ![p].pc = "reply", ![p].answer = "invalid_grant"]
        \/ poll' = [poll EXCEPT ![p].pc = "reply", ![p].answer = "tokens"]
        \/ poll' = [poll EXCEPT ![p].pc = "claim", ![p].grant = req.grant]
        \/ poll' = [poll EXCEPT ![p].pc = "sign"]
    BY DEF Redeem, ClaimGrant, Sign, Answered
  <2> QED BY <1>t, <2>1 DEF PollState
<1>6. poll'[p].answer \notin Slow
  BY <1>2, <1>5 DEF Slow
<1> QED BY <1>1, <1>3, <1>4, <1>5, <1>6, ServedPatient

(* The client hears of one increment.                                      *)
LEMMA ReplyPatient ==
  ASSUME IInv, PatientInv, NEW p \in Poller, Reply(p)
  PROVE  PatientInv'
<1>t. /\ poll \in [Poller -> PollState] /\ told \in Nat /\ told <= Longest
      /\ req.interval \in Nat /\ req.interval <= Longest
  BY PatientTypes
<1>1. /\ UNCHANGED <<clock, req, asked, excused>>
      /\ told' = IF poll[p].answer = "slow_down" THEN Longer(told) ELSE told
  BY DEF Reply, history
<1>2. /\ poll'[p].pc = "idle" /\ poll'[p].answer = "none" /\ ~poll'[p].patient
      /\ \A q \in Poller : q # p => poll'[q] = poll[q]
  BY <1>t DEF Reply, IdlePoll
<1>3. told' >= told /\ told' \in Nat
  BY <1>t, <1>1, LongestType, Limits DEF Longer, Smaller
<1>4. ClientOrder'
  <2>1. \A q \in Poller : InFlight(q)' => InFlight(q) /\ poll'[q].now = poll[q].now
    BY <1>2 DEF InFlight
  <2>2. \A q \in Poller : poll'[q].answer \in Slow => poll'[q].pc = "reply"
    BY <1>2 DEF PatientInv, ClientOrder, Slow
  <2>3. \A q \in Poller : poll'[q].patient => poll[q].patient
    BY <1>2
  <2>4. told' >= Interval
    BY <1>t, <1>3, Limits DEF PatientInv, ClientOrder
  <2> QED BY <1>1, <2>1, <2>2, <2>3, <2>4 DEF PatientInv, ClientOrder
<1>5. Owed' = Owed \ {p}
  BY <1>2 DEF Owed
<1>6. CopiesAgree'
  <2>0. IsFiniteSet(Owed) /\ Cardinality(Owed) \in Nat /\ Cardinality(Owed) * Increment \in Nat
    BY OwedCount DEF PatientInv, CopiesAgree
  <2>1. IsFiniteSet(Owed')
    BY <1>5, <2>0, FS_RemoveElement
  <2> SUFFICES ASSUME ~excused, req.status = "pending", clock < req.expires
               PROVE  req.interval <= told' + Cardinality(Owed') * Increment
    BY <1>1, <2>1 DEF CopiesAgree
  <2>2. req.interval <= told + Cardinality(Owed) * Increment
    BY DEF PatientInv, CopiesAgree
  <2>3. CASE poll[p].answer # "slow_down"
    <3>1. Owed' = Owed /\ told' = told
      BY <1>1, <1>5, <2>3 DEF Owed
    <3> QED BY <2>2, <3>1
  <2>4. CASE poll[p].answer = "slow_down"
    <3>1. p \in Owed
      BY <2>4 DEF Owed
    <3> DEFINE k == Cardinality(Owed')
    <3>2. k = Cardinality(Owed) - 1
      BY <1>5, <2>0, <3>1, FS_RemoveElement
    <3>3. k \in Nat
      BY <2>1, FS_CardinalityType
    <3> HIDE DEF k
    <3>4. Cardinality(Owed) * Increment = k * Increment + Increment /\ k * Increment \in Nat
      <4>1. Cardinality(Owed) = k + 1
        BY <2>0, <3>2, <3>3
      <4> QED BY <3>3, <4>1, Limits
    <3>5. req.interval <= told' + k * Increment
      <4>1. told' = Smaller(told + Increment, Longest)
        BY <1>1, <2>4 DEF Longer
      <4> QED BY <1>t, <2>2, <3>4, <4>1, Limits, LongestType DEF Smaller
    <3> QED BY <3>5 DEF k
  <2> QED BY <2>3, <2>4
<1>7. StampKnown'
  BY <1>1 DEF PatientInv, StampKnown
<1>8. OnTime'
  BY <1>1, <1>2 DEF PatientInv, OnTime, TooSoon
<1>9. PatientNeverSlowed'
  BY <1>1, <1>2 DEF PatientInv, PatientNeverSlowed
<1> QED BY <1>4, <1>6, <1>7, <1>8, <1>9 DEF PatientInv

LEMMA LostPatient ==
  ASSUME IInv, PatientInv, NEW p \in Poller, Lost(p)
  PROVE  PatientInv'
<1>t. poll \in [Poller -> PollState]
  BY PatientTypes
<1>1. /\ UNCHANGED <<clock, req, asked, told>>
      /\ excused' = (excused \/ poll[p].answer = "slow_down")
  BY DEF Lost, client
<1>2. /\ poll'[p].pc = "idle" /\ poll'[p].answer = "none" /\ ~poll'[p].patient
      /\ \A q \in Poller : q # p => poll'[q] = poll[q]
  BY <1>t DEF Lost, IdlePoll
<1>4. ClientOrder'
  <2>1. \A q \in Poller : InFlight(q)' => InFlight(q) /\ poll'[q].now = poll[q].now
    BY <1>2 DEF InFlight
  <2>2. \A q \in Poller : poll'[q].answer \in Slow => poll'[q].pc = "reply"
    BY <1>2 DEF PatientInv, ClientOrder, Slow
  <2>3. \A q \in Poller : poll'[q].patient => poll[q].patient
    BY <1>2
  <2> QED BY <1>1, <2>1, <2>2, <2>3 DEF PatientInv, ClientOrder
<1>5. Owed' = Owed \ {p}
  BY <1>2 DEF Owed
<1>6. CASE excused'
  <2>1. IsFiniteSet(Owed')
    BY <1>5, FS_RemoveElement DEF PatientInv, CopiesAgree
  <2> QED BY <1>4, <1>6, <2>1, ExcusedStep
<1>7. CASE ~excused'
  <2>1. ~excused /\ Owed' = Owed
    BY <1>1, <1>5, <1>7 DEF Owed
  <2>2. CopiesAgree' /\ StampKnown'
    BY <1>1, <2>1 DEF PatientInv, CopiesAgree, StampKnown
  <2>3. OnTime'
    BY <1>1, <1>2, <2>1 DEF PatientInv, OnTime, TooSoon
  <2>4. PatientNeverSlowed'
    BY <1>2, <2>1 DEF PatientInv, PatientNeverSlowed
  <2> QED BY <1>4, <2>2, <2>3, <2>4 DEF PatientInv
<1> QED BY <1>6, <1>7

(* The statement of a poll: what it stamps, and when it raises.            *)
LEMMA StampValue ==
  ASSUME req \in Request, NEW now
  PROVE  /\ Stamped(now).last = now
         /\ Stamped(now).interval =
              IF /\ req.status # "approved" /\ TooSoon(now)
                 /\ req.flow = "ciba" => req.interval < Ceiling
                THEN Raised ELSE req.interval
<1> DEFINE i == IF /\ req.status # "approved" /\ TooSoon(now)
                   /\ req.flow = "ciba" => req.interval < Ceiling
                  THEN Raised ELSE req.interval
<1>1. Stamped(now) = [req EXCEPT !.last = now, !.interval = i]
  BY DEF Stamped
<1> HIDE DEF i
<1>2. Stamped(now).last = now /\ Stamped(now).interval = i
  BY <1>1 DEF Request
<1> QED BY <1>2 DEF i

LEMMA RaisedBound ==
  ASSUME req.interval \in Nat, req.interval <= Longest
  PROVE  Raised \in Nat /\ Raised <= req.interval + Increment
<1>1. Smaller(req.interval + Increment, Ceiling) \in Nat
      /\ Smaller(req.interval + Increment, Ceiling) <= req.interval + Increment
  BY CeilingType, Limits DEF Smaller
<1>2. Longer(req.interval) \in Nat /\ Longer(req.interval) <= req.interval + Increment
  BY LongestType, Limits DEF Longer, Smaller
<1> QED BY <1>1, <1>2 DEF Raised

LEMMA PollPatient ==
  ASSUME IInv, Arrived, PatientInv, NEW p \in Poller, Poll(p)
  PROVE  PatientInv'
<1> DEFINE now == poll[p].now
           a == IF There THEN Answer(now) ELSE "invalid_grant"
<1>t. /\ poll \in [Poller -> PollState] /\ req \in Request
      /\ clock \in Nat /\ told \in Nat /\ asked \in Int
      /\ req.interval \in Nat /\ req.interval <= Longest /\ req.last \in Int
      /\ req.expires \in Nat /\ now \in Nat
  BY PatientTypes
<1>a. a \in Answers \union {"approved"}
  BY AnswerType DEF Answers
<1>1. /\ UNCHANGED <<clock, told, asked, excused>> /\ poll[p].pc = "poll"
  BY DEF Poll, client
<1>2. InFlight(p) /\ now <= asked /\ poll[p].answer \notin Slow /\ now <= clock
  BY <1>1 DEF InFlight, PatientInv, ClientOrder, Arrived
<1>3. /\ \A q \in Poller : q # p => poll'[q] = poll[q] /\ ~poll[q].patient
      /\ poll'[p].now = now /\ poll'[p].patient = poll[p].patient
      /\ poll'[p].pc \in {"redeem", "reply"}
      /\ poll'[p].answer \in Slow => poll'[p].pc = "reply" /\ poll'[p].answer = a
      /\ a = "slow_down" => poll'[p].answer = a
  <2> HIDE DEF a
  <2>1. \/ a = "approved" /\ poll' = [poll EXCEPT ![p].pc = "redeem"]
        \/ a # "approved" /\ poll' = [poll EXCEPT ![p].pc = "reply", ![p].answer = a]
    BY DEF Poll, Answered, a
  <2>2. \A q \in Poller : q # p => ~poll[q].patient
    BY <1>2 DEF PatientInv, ClientOrder
  <2>3. CASE a = "approved"
    BY <1>t, <1>2, <2>1, <2>2, <2>3 DEF PollState
  <2>4. CASE a # "approved"
    <3>1. poll'[p].pc = "reply" /\ poll'[p].answer = a /\ poll'[p].now = now
          /\ poll'[p].patient = poll[p].patient
      BY <1>t, <2>1, <2>4 DEF PollState
    <3>2. \A q \in Poller : q # p => poll'[q] = poll[q]
      BY <1>t, <2>1, <2>4
    <3> QED BY <2>2, <3>1, <3>2
  <2> QED BY <2>3, <2>4
<1>4. ClientOrder'
  <2>1. \A q \in Poller : InFlight(q)' => InFlight(q) /\ poll'[q].now = poll[q].now
    BY <1>2, <1>3 DEF InFlight
  <2>2. \A q \in Poller : poll'[q].answer \in Slow => poll'[q].pc = "reply"
    BY <1>3 DEF PatientInv, ClientOrder
  <2>3. \A q \in Poller : poll'[q].patient => poll[q].patient
    BY <1>3
  <2> QED BY <1>1, <2>1, <2>2, <2>3 DEF PatientInv, ClientOrder
<1>5. req' = IF There THEN Stamped(now) ELSE req
  BY DEF Poll
<1>6. StampKnown'
  BY <1>1, <1>2, <1>5, StampValue, <1>t DEF PatientInv, StampKnown
<1>7. OnTime'
  BY <1>3 DEF OnTime
(* A slow answer is given to a live, pending request by a poll too soon.   *)
<1>8. a \in Slow => req.status = "pending" /\ now < req.expires /\ TooSoon(now)
  <2> SUFFICES ASSUME a \in Slow PROVE req.status = "pending" /\ now < req.expires /\ TooSoon(now)
    OBVIOUS
  <2>1. There /\ Answer(now) \in Slow
    BY DEF Slow
  <2>2. ~(req.expires <= now) /\ req.status \notin {"approved", "denied"} /\ TooSoon(now)
    BY <2>1 DEF Answer, Slow
  <2> QED BY <1>t, <2>1, <2>2 DEF There, Request
<1>9. PatientNeverSlowed'
  <2> SUFFICES ASSUME NEW q \in Poller, poll'[q].answer \in Slow, poll'[q].patient
               PROVE  excused'
    BY DEF PatientNeverSlowed, Slow
  <2>1. CASE q # p
    BY <1>3, <2>1
  <2>2. CASE q = p
    <3>1. a \in Slow /\ poll[p].patient
      BY <1>3, <2>2
    <3> QED BY <1>1, <1>8, <3>1 DEF PatientInv, OnTime
  <2> QED BY <2>1, <2>2
<1>10. CopiesAgree'
  <2>0. /\ IsFiniteSet(Owed) /\ Cardinality(Owed) \in Nat
        /\ Cardinality(Owed) * Increment \in Nat
    BY OwedCount DEF PatientInv, CopiesAgree
  <2>1. p \notin Owed
    BY <1>2 DEF Owed, Slow
  <2>2. a = "slow_down" => Owed' = Owed \union {p}
    <3> HIDE DEF a
    <3> QED BY <1>3 DEF Owed
  <2>3. a # "slow_down" => Owed' = Owed
    <3> HIDE DEF a
    <3>1. ASSUME a # "slow_down" PROVE poll'[p].answer # "slow_down"
      BY <1>3, <3>1 DEF Slow
    <3> QED BY <1>3, <2>1, <3>1 DEF Owed
  <2>4. /\ a = "slow_down" => /\ IsFiniteSet(Owed')
                              /\ Cardinality(Owed') = Cardinality(Owed) + 1
        /\ a # "slow_down" => IsFiniteSet(Owed') /\ Cardinality(Owed') = Cardinality(Owed)
    BY <2>0, <2>1, <2>2, <2>3, FS_AddElement
  <2> SUFFICES ASSUME ~excused, req'.status = "pending", clock < req'.expires
               PROVE  req'.interval <= told + Cardinality(Owed') * Increment
    BY <1>1, <2>4 DEF CopiesAgree
  <2>5. There /\ req.status = "pending" /\ clock < req.expires /\ req' = Stamped(now)
    BY <1>5, StampKeeps DEF IInv, There
  <2>6. ~req.redeemed /\ now < req.expires
    BY <1>t, <1>2, <2>5 DEF IInv, RowDecided
  <2>7. req.interval <= told + Cardinality(Owed) * Increment
    BY <2>5 DEF PatientInv, CopiesAgree
  <2> DEFINE raise == TooSoon(now) /\ (req.flow = "ciba" => req.interval < Ceiling)
  <2>8. raise => a = "slow_down"
    <3>1. raise => ~(req.flow = "ciba" /\ req.interval >= Ceiling)
      BY <1>t, CeilingType
    <3>2. ~(req.expires <= now)
      BY <1>t, <2>6
    <3> QED BY <2>5, <2>6, <3>1, <3>2 DEF Answer
  <2>9. req'.interval = IF raise THEN Raised ELSE req.interval
    BY <1>t, <2>5, StampValue
  <2>10. CASE raise
    <3>1. Cardinality(Owed') = Cardinality(Owed) + 1
      BY <2>4, <2>8, <2>10
    <3>2. (Cardinality(Owed) + 1) * Increment = Cardinality(Owed) * Increment + Increment
      BY <2>0, Limits
    <3>3. req'.interval \in Nat /\ req'.interval <= req.interval + Increment
      BY <1>t, <2>9, <2>10, RaisedBound
    <3> QED BY <1>t, <2>0, <2>7, <3>1, <3>2, <3>3, Limits
  <2>11. CASE ~raise
    <3>1. req'.interval = req.interval
      BY <2>9, <2>11
    <3>2. Cardinality(Owed') \in {Cardinality(Owed), Cardinality(Owed) + 1}
      BY <2>4
    <3>3. (Cardinality(Owed) + 1) * Increment = Cardinality(Owed) * Increment + Increment
      BY <2>0, Limits
    <3> QED BY <1>t, <2>0, <2>7, <3>1, <3>2, <3>3, Limits
  <2> QED BY <2>10, <2>11
<1> QED BY <1>4, <1>6, <1>7, <1>9, <1>10 DEF PatientInv

LEMMA StrangerPatient ==
  ASSUME IInv, PatientInv, StrangerPoll
  PROVE  PatientInv'
<1>1. UNCHANGED <<clock, poll, told, asked>> /\ excused' = (excused \/ req.flow = "device")
  BY DEF StrangerPoll, client
<1>2. CASE req.flow = "device"
  <2>1. ClientOrder' /\ Owed' = Owed
    BY <1>1 DEF PatientInv, ClientOrder, Owed, InFlight
  <2> QED BY <1>1, <1>2, <2>1, ExcusedStep DEF PatientInv, CopiesAgree
<1>3. CASE req.flow # "device"
  <2>1. req' = req /\ excused' = excused
    BY <1>1, <1>3, PatientTypes DEF StrangerPoll, StrangerStamps
  <2> QED BY <1>1, <2>1, QuietStep
<1> QED BY <1>2, <1>3

LEMMA PatientStep == IInv /\ Arrived /\ PatientInv /\ [Next]_vars => PatientInv'
<1> SUFFICES ASSUME IInv, Arrived, PatientInv, [Next]_vars PROVE PatientInv'
  OBVIOUS
<1>t. req \in Request
  BY PatientTypes
<1>1. ASSUME NEW flow \in {"device", "ciba"}, NEW mode \in BOOLEAN, Issue(flow, mode)
      PROVE  PatientInv'
  BY <1>1, IssuePatient
<1>2. CASE Sweep \/ \E d \in Tab : PurgeGrant(d) \/ Deny(d) \/ Approve(d)
  <2>1. /\ req'.last = req.last /\ req'.interval = req.interval /\ req'.expires = req.expires
        /\ req'.status = "pending" => req.status = "pending"
    BY ZenonT(60), <1>2, <1>t DEF Sweep, PurgeGrant, Deny, Approve, Request
  <2>2. UNCHANGED <<clock, poll, told, asked, excused>>
    BY <1>2 DEF Sweep, PurgeGrant, Deny, Approve, client, history
  <2> QED BY <2>1, <2>2, QuietStep
<1>3. ASSUME NEW d \in Tab, RecordFailure(d) PROVE PatientInv'
  <2>1. /\ req'.interval = req.interval /\ req'.expires = req.expires
        /\ req'.status = "pending" => req.status = "pending"
    BY <1>3, <1>t, FailureType DEF RecordFailure
  <2>2. req'.last = req.last
    BY <1>3, <1>t DEF RecordFailure, Failure, Request
  <2>3. UNCHANGED <<clock, poll, told, asked, excused>>
    BY <1>3 DEF RecordFailure, client, history
  <2> QED BY <2>1, <2>2, <2>3, QuietStep
<1>4. ASSUME NEW w \in Pinger, PingMark(w) PROVE PatientInv'
  <2>1. /\ req'.last = req.last /\ req'.interval = req.interval /\ req'.expires = req.expires
        /\ req'.status = req.status
    BY <1>4, <1>t DEF PingMark, Request
  <2>2. UNCHANGED <<clock, poll, told, asked, excused>>
    BY <1>4 DEF PingMark, client, history
  <2> QED BY <2>1, <2>2, QuietStep
<1>5. ASSUME UNCHANGED <<req, poll, told, asked, excused>>, clock' \in {clock, clock + 1}
      PROVE  PatientInv'
  BY <1>5, QuietStep
<1>6. ASSUME NEW p \in Poller, Ask(p) \/ Serve(p) \/ Lost(p) PROVE PatientInv'
  BY <1>6, AskPatient, PollPatient, SpendPatient, ReplyPatient, LostPatient DEF Serve
<1>7. CASE StrangerPoll
  BY <1>7, StrangerPatient
<1> QED BY <1>1, <1>2, <1>3, <1>4, <1>5, <1>6, <1>7
     DEF Next, Tick, Manage, RevokeGrant, Decide, Submit, ReadPending, CreateGrant, Token,
         Notify, PingRead, PingPost, PingLost, client, history, vars

(* A client that waits the interval it was told, one request at a time, is *)
(* not slowed down again, for any intervals and increments, any number of  *)
(* concurrent polls before, and any order in which their statements and    *)
(* their responses arrive.                                                 *)
THEOREM PatientIsServed == Spec => []PatientNeverSlowed
<1>1. Init => Arrived /\ PatientInv
  <2> SUFFICES ASSUME Init PROVE Arrived /\ PatientInv
    OBVIOUS
  <2>1. \A p \in Poller : poll[p] = IdlePoll
    BY DEF Init
  <2>2. /\ clock = 0 /\ req.status = "absent" /\ told = Interval /\ asked = Null
        /\ req.last = Null
    BY DEF Init, NewRequest
  <2>3. Owed = {}
    BY <2>1 DEF Owed, IdlePoll
  <2>4. IsFiniteSet(Owed)
    BY <2>3, FS_EmptySet
  <2>5. \A p \in Poller : /\ poll[p].answer = "none" /\ ~InFlight(p) /\ ~poll[p].patient
                          /\ poll[p].now = 0
    <3>1. IdlePoll.pc = "idle" /\ IdlePoll.answer = "none" /\ IdlePoll.now = 0
      BY DEF IdlePoll
    <3>2. IdlePoll.patient = FALSE
      BY DEF IdlePoll
    <3> QED BY <2>1, <3>1, <3>2 DEF InFlight
  <2>6. Arrived
    BY <2>2, <2>5 DEF Arrived
  <2>7. ClientOrder
    BY <2>2, <2>5, Limits DEF ClientOrder, Slow, Null
  <2> QED BY <2>2, <2>4, <2>5, <2>6, <2>7
       DEF PatientInv, CopiesAgree, StampKnown, OnTime, PatientNeverSlowed, Null
<1>2. IInv /\ Arrived /\ PatientInv /\ [Next]_vars => Arrived' /\ PatientInv'
  BY ArrivedStep, PatientStep
<1>3. PatientInv => PatientNeverSlowed
  BY DEF PatientInv
<1> QED BY <1>1, <1>2, <1>3, IInvHolds, PTL DEF Spec

-----------------------------------------------------------------------------
(* The refinement of Consent.                                              *)

(* A grant is created once, by a tab that has not created one.             *)
Fresh == \A d \in Tab : tab[d].pc \notin {"approve", "fail", "done"} => grant[d] = "absent"

Paid == \E d \in Tab : issued[d] > 0
Hears == [p \in Poller |-> Heard(p)]

LEMMA FreshStep == TypeOK /\ Fresh /\ [Next]_vars => Fresh'
<1> SUFFICES ASSUME TypeOK, Fresh, [Next]_vars PROVE Fresh'
  OBVIOUS
<1>t. /\ tab \in [Tab -> TabState] /\ grant \in [Tab -> GrantStatus]
      /\ \A p \in Poller : poll[p] \in PollState
  BY DEF TypeOK
<1>k. ASSUME \A d \in Tab : grant'[d] # "absent" => grant[d] # "absent",
             \A d \in Tab : tab'[d].pc \notin {"approve", "fail", "done"}
                              => tab[d].pc \notin {"approve", "fail", "done"}
      PROVE  Fresh'
  BY <1>k DEF Fresh
<1>1. ASSUME NEW d \in Tab, RevokeGrant(d) \/ PurgeGrant(d) PROVE Fresh'
  BY <1>1, <1>k, <1>t DEF RevokeGrant, PurgeGrant
<1>2. ASSUME NEW d \in Tab, NEW pc \in {"deny", "read"}, Submit(d, pc) PROVE Fresh'
  BY <1>2, <1>k, <1>t DEF Submit
<1>3. ASSUME NEW d \in Tab, Deny(d) \/ ReadPending(d) \/ Approve(d) \/ RecordFailure(d)
      PROVE  Fresh'
  <2>1. grant' = grant  BY <1>3 DEF Deny, ReadPending, Approve, RecordFailure
  <2>2. PICK pc : /\ tab' = [tab EXCEPT ![d].pc = pc]
                  /\ tab[d].pc \in {"deny", "read"} \/ pc \in {"fail", "done"}
    BY <1>3 DEF Deny, ReadPending, Approve, RecordFailure, TabStep
  <2>3. \A e \in Tab : tab'[e].pc \notin {"approve", "fail", "done"}
                         => tab[e].pc \notin {"approve", "fail", "done"}
    BY <1>t, <2>2 DEF TabState
  <2> QED BY <1>k, <2>1, <2>3
<1>4. ASSUME NEW d \in Tab, CreateGrant(d) PROVE Fresh'
  BY <1>4, <1>t DEF CreateGrant, TabStep, TabState, Fresh
<1>5. ASSUME NEW p \in Poller, ClaimGrant(p) PROVE Fresh'
  BY <1>5, <1>k, <1>t DEF ClaimGrant
<1> QED BY <1>k, <1>1, <1>2, <1>3, <1>4, <1>5
     DEF Next, Tick, Manage, Issue, Sweep, Decide, Token, Serve, Ask, Poll, StrangerPoll,
         Redeem, Sign, Reply, Lost, Notify, PingRead, PingPost, PingMark, PingLost, vars

LEMMA FreshHolds == Spec => []Fresh
<1>1. Init => Fresh  BY DEF Init, Fresh
<1> QED BY <1>1, FreshStep, TypeCorrect, PTL DEF Spec

(* A step none of whose effects the promise sees.                          *)
LEMMA Unseen ==
  ASSUME UNCHANGED <<taken, issued, posted>>, req'.redeemed = req.redeemed,
         Withdrawn' = Withdrawn, \A p \in Poller : Heard(p)' = Heard(p)
  PROVE  UNCHANGED Promise!vars
<1>1. Hears' = Hears  BY DEF Hears
<1>2. Paid' = Paid  BY DEF Paid
<1> QED BY <1>1, <1>2 DEF Promise!vars, Paid, Hears

(* A step of one request is heard by that request alone.                   *)
LEMMA HeardOne ==
  ASSUME TypeOK, NEW p \in Poller, \A q \in Poller : q # p => poll'[q] = poll[q]
  PROVE  /\ Hears' = [Hears EXCEPT ![p] = Heard(p)']
         /\ \A q \in Poller : q # p => Heard(q)' = Heard(q)
<1>1. \A q \in Poller : q # p => Heard(q)' = Heard(q)  BY DEF Heard
<1>2. Hears' = [q \in Poller |-> Heard(q)']  BY DEF Hears
<1>3. [Hears EXCEPT ![p] = Heard(p)'] = [q \in Poller |-> IF q = p THEN Heard(p)' ELSE Heard(q)]
  BY DEF Hears
<1> QED BY <1>1, <1>2, <1>3

(* The person's side, retention and the clock.                             *)
LEMMA DecideConsent ==
  ASSUME IInv, Fresh, RowMoves, Tick \/ Manage \/ Decide
  PROVE  Promise!Next \/ UNCHANGED Promise!vars
<1>t. /\ grant \in [Tab -> GrantStatus] /\ req \in Request
  BY DEF IInv, TypeOK
<1>p. poll' = poll /\ issued' = issued /\ posted' = posted
  BY DEF Tick, Manage, Issue, Sweep, RevokeGrant, PurgeGrant, Decide, Submit, Deny,
     ReadPending, CreateGrant, Approve, RecordFailure, history
<1>h. (\A p \in Poller : Heard(p)' = Heard(p)) /\ Hears' = Hears /\ Paid' = Paid
  BY <1>p DEF Heard, Hears, Paid
<1>r. taken' = taken => req'.redeemed = req.redeemed
  <2>1. CASE \E flow \in {"device", "ciba"}, mode \in BOOLEAN : Issue(flow, mode)
    <3>1. ~req.redeemed /\ req'.redeemed = FALSE
      BY <2>1 DEF Issue, NewRequest, IInv, RowDecided
    <3>2. req.redeemed \in BOOLEAN  BY <1>t DEF Request
    <3> QED BY <3>1, <3>2
  <2>2. CASE \E d \in Tab : RecordFailure(d)
    BY <1>t, <2>2, FailureType DEF RecordFailure
  <2>3. CASE \/ Tick \/ Sweep
             \/ \E d \in Tab : RevokeGrant(d) \/ PurgeGrant(d) \/ CreateGrant(d)
             \/ \E d \in Tab : Submit(d, "deny") \/ Submit(d, "read") \/ ReadPending(d)
             \/ \E d \in Tab : Deny(d) \/ Approve(d)
    BY <1>t, <2>3 DEF Tick, Sweep, RevokeGrant, PurgeGrant, CreateGrant, Submit, ReadPending,
       Deny, Approve, Request
  <2> QED BY <2>1, <2>2, <2>3 DEF Manage, Decide
<1>q. ASSUME taken' = taken, Withdrawn' = Withdrawn PROVE UNCHANGED Promise!vars
  BY <1>q, <1>p, <1>h, <1>r, Unseen
<1>1. CASE \E d \in Tab : RevokeGrant(d) \/ PurgeGrant(d)
  <2>1. PICK d \in Tab : RevokeGrant(d) \/ PurgeGrant(d)  BY <1>1
  <2>2. <<d, "approve">> \in taken
    <3>1. req.grant = d /\ d # None  BY <2>1 DEF RevokeGrant, PurgeGrant
    <3> QED BY <3>1 DEF IInv, RowDecided
  <2>3. Withdrawn' = Withdrawn \union {d}
    BY <1>t, <2>1 DEF RevokeGrant, PurgeGrant, Withdrawn
  <2>4. taken' = taken  BY <2>1 DEF RevokeGrant, PurgeGrant, history
  <2>5. Promise!Withdraw(d)
    BY <1>p, <1>h, <1>r, <2>2, <2>3, <2>4 DEF Promise!Withdraw, Paid, Hears
  <2> QED BY <2>5 DEF Promise!Next
<1>2. CASE \E d \in Tab : CreateGrant(d)
  <2>1. PICK d \in Tab : CreateGrant(d)  BY <1>2
  <2>2. grant[d] = "absent" /\ grant' = [grant EXCEPT ![d] = "unclaimed"] /\ taken' = taken
    BY <2>1 DEF CreateGrant, Fresh, history
  <2>3. Withdrawn' = Withdrawn  BY <1>t, <2>2 DEF Withdrawn
  <2> QED BY <1>q, <2>2, <2>3
<1>3. CASE \E d \in Tab : Deny(d) \/ Approve(d)
  <2>1. PICK d \in Tab : Deny(d) \/ Approve(d)  BY <1>3
  <2>2. Withdrawn' = Withdrawn  BY <2>1 DEF Deny, Approve, Withdrawn
  <2>3. CASE taken' = taken
    BY <1>q, <2>2, <2>3
  <2>4. CASE taken' # taken
    <3>1. Open(d) /\ MayDecide(d)  BY <2>1, <2>4 DEF Deny, Approve
    <3>2. taken = {} /\ req'.redeemed = req.redeemed
      BY <1>t, <2>1, <3>1 DEF IInv, RowDecided, Open, Deny, Approve, Request
    <3>3. taken' = {<<d, "approve">>} \/ taken' = {<<d, "deny">>}
      BY <2>1, <3>1, <3>2 DEF Deny, Approve
    <3>4. Promise!Answer(d, "approve") \/ Promise!Answer(d, "deny")
      BY <1>p, <1>h, <2>2, <3>2, <3>3 DEF Promise!Answer, Paid, Hears
    <3> QED BY <3>4 DEF Promise!Next
  <2> QED BY <2>3, <2>4
<1>4. CASE \/ Tick \/ Sweep
           \/ \E flow \in {"device", "ciba"}, mode \in BOOLEAN : Issue(flow, mode)
           \/ \E d \in Tab : \/ Submit(d, "deny") \/ Submit(d, "read")
                             \/ ReadPending(d) \/ RecordFailure(d)
  <2>1. taken' = taken /\ grant' = grant
    BY <1>4 DEF Tick, Sweep, Issue, Submit, ReadPending, RecordFailure, history
  <2> QED BY <1>q, <2>1 DEF Withdrawn
<1> QED BY <1>1, <1>2, <1>3, <1>4 DEF Manage, Decide

(* The client's side.                                                      *)
LEMMA ServeConsent ==
  ASSUME IInv, NEW p \in Poller, Ask(p) \/ Serve(p) \/ Lost(p)
  PROVE  Promise!Next \/ UNCHANGED Promise!vars
<1>t. /\ grant \in [Tab -> GrantStatus] /\ req \in Request
      /\ poll \in [Poller -> PollState] /\ issued \in [Tab -> Nat]
  BY DEF IInv, TypeOK
<1>p. taken' = taken /\ posted' = posted
  BY DEF Ask, Serve, Poll, Redeem, ClaimGrant, Sign, Reply, Lost, history
<1>1. CASE Ask(p)
  <2>1. \A q \in Poller : Heard(q)' = Heard(q)
    BY <1>1, <1>t DEF Ask, Heard, InFlight, IdlePoll, PollState
  <2>2. issued' = issued /\ req' = req /\ grant' = grant  BY <1>1 DEF Ask, history
  <2> QED BY <1>p, <2>1, <2>2, Unseen DEF Withdrawn
<1>2. CASE Poll(p)
  <2>1. \A q \in Poller : q # p => poll'[q] = poll[q]
    BY <1>2, <1>t DEF Poll, Answered
  <2>2. issued' = issued /\ grant' = grant /\ Paid' = Paid /\ Withdrawn' = Withdrawn
    BY <1>2 DEF Poll, Paid, Withdrawn
  <2>3. req'.redeemed = req.redeemed
    BY <1>2, StampKeeps DEF Poll, IInv
  <2>4. Heard(p) = "nothing"  BY <1>2 DEF Poll, Heard
  <2>5. \/ Heard(p)' = "nothing"
        \/ Heard(p)' = "denied" /\ req.status = "denied"
    <3> DEFINE a == IF There THEN Answer(poll[p].now) ELSE "invalid_grant"
    <3>1. \/ a \notin {"tokens", "denied"}
          \/ a = "denied" /\ req.status = "denied"
      BY DEF Answer
    <3>2. \/ poll'[p].pc = "redeem"
          \/ poll'[p].pc = "reply" /\ poll'[p].answer = a
      BY <1>2, <1>t DEF Poll, Answered, PollState
    <3> HIDE DEF a
    <3> QED BY <3>1, <3>2 DEF Heard
  <2>6. CASE Heard(p)' = "nothing"
    <3>1. \A q \in Poller : Heard(q)' = Heard(q)  BY <2>1, <2>4, <2>6 DEF Heard
    <3> QED BY <1>p, <2>2, <2>3, <3>1, Unseen
  <2>7. CASE Heard(p)' = "denied" /\ req.status = "denied"
    <3>1. Hears' = [Hears EXCEPT ![p] = "denied"]
      BY <2>1, <2>7, HeardOne DEF IInv
    <3>2. \E d \in Tab : <<d, "deny">> \in taken
      BY <2>7 DEF IInv, RowDecided, Deciders
    <3>3. Promise!Refuse(p)
      BY <1>p, <2>2, <2>3, <3>1, <3>2 DEF Promise!Refuse, Promise!Tell, Hears, Paid
    <3> QED BY <3>3 DEF Promise!Next
  <2> QED BY <2>5, <2>6, <2>7
<1>3. CASE Redeem(p)
  <2>1. /\ \A q \in Poller : q # p => poll'[q] = poll[q]
        /\ poll'[p].pc = "claim" \/ (poll'[p].pc = "reply" /\ poll'[p].answer = "invalid_grant")
    BY <1>3, <1>t DEF Redeem, Answered, PollState
  <2>2. \A q \in Poller : Heard(q)' = Heard(q)
    BY <1>3, <2>1 DEF Redeem, Heard
  <2>3. issued' = issued /\ Paid' = Paid /\ Withdrawn' = Withdrawn /\ Hears' = Hears
    BY <1>3, <2>2 DEF Redeem, Paid, Withdrawn, Hears, history
  <2>4. CASE Spendable(poll[p].now)
    <3>1. ~req.redeemed /\ req'.redeemed = TRUE /\ req.status = "approved"
      BY <1>3, <1>t, <2>4 DEF Redeem, Spendable, Request
    <3>2. \E d \in Tab : <<d, "approve">> \in taken
      BY <3>1 DEF IInv, RowDecided, Deciders
    <3>3. Promise!Spend
      BY <1>p, <2>3, <3>1, <3>2 DEF Promise!Spend, Hears, Paid
    <3> QED BY <3>3 DEF Promise!Next
  <2>5. CASE ~Spendable(poll[p].now)
    <3>1. req' = req  BY <1>3, <2>5 DEF Redeem
    <3> QED BY <1>p, <2>2, <2>3, <3>1, Unseen
  <2> QED BY <2>4, <2>5
<1>4. CASE ClaimGrant(p)
  <2>1. \A q \in Poller : Heard(q)' = Heard(q)
    BY <1>4, <1>t DEF ClaimGrant, Answered, Heard, PollState
  <2>2. Withdrawn' = Withdrawn
    BY <1>4, <1>t DEF ClaimGrant, Withdrawn
  <2>3. issued' = issued /\ req' = req  BY <1>4 DEF ClaimGrant, history
  <2> QED BY <1>p, <2>1, <2>2, <2>3, Unseen
<1>5. CASE Sign(p)
  <2>1. /\ \A q \in Poller : q # p => poll'[q] = poll[q]
        /\ poll'[p].pc = "reply" /\ poll'[p].answer = "tokens"
    BY <1>5, <1>t DEF Sign, Answered, PollState
  <2>2. Hears' = [Hears EXCEPT ![p] = "tokens"]
    BY <2>1, HeardOne DEF IInv, Heard
  <2> DEFINE d == poll[p].grant
  <2>3. /\ d \in Tab /\ req.redeemed /\ ~Paid
    BY <1>5, <1>t DEF Sign, IInv, SpentOnce, Holds, Paid
  <2>4. <<d, "approve">> \in taken /\ d \notin Withdrawn
    BY <1>5, <2>3 DEF Sign, IInv, Backed, Withdrawn
  <2>5. issued'[d] > 0
    <3>1. issued' = [issued EXCEPT ![d] = issued[d] + 1]  BY <1>5 DEF Sign
    <3> HIDE DEF d
    <3> QED BY <1>t, <2>3, <3>1
  <2>6. Paid'  BY <2>3, <2>5 DEF Paid
  <2>7. req' = req /\ Withdrawn' = Withdrawn  BY <1>5 DEF Sign, Withdrawn
  <2>8. Promise!Pay(p)
    BY <1>p, <2>2, <2>3, <2>4, <2>6, <2>7 DEF Promise!Pay, Promise!Tell, Hears, Paid
  <2> QED BY <2>8 DEF Promise!Next
<1>6. CASE Reply(p) \/ Lost(p)
  <2>1. /\ \A q \in Poller : q # p => poll'[q] = poll[q]
        /\ poll'[p].pc = "idle"
    BY <1>6, <1>t DEF Reply, Lost, IdlePoll
  <2>2. Hears' = [Hears EXCEPT ![p] = "nothing"]
    BY <2>1, HeardOne DEF IInv, Heard
  <2>3. issued' = issued /\ req' = req /\ Paid' = Paid /\ Withdrawn' = Withdrawn
    BY <1>6 DEF Reply, Lost, history, Paid, Withdrawn
  <2>4. Promise!Leave(p)
    BY <1>p, <2>2, <2>3 DEF Promise!Leave, Promise!Tell, Hears, Paid
  <2> QED BY <2>4 DEF Promise!Next
<1> QED BY <1>1, <1>2, <1>3, <1>4, <1>5, <1>6 DEF Serve

(* Strangers and the ping.                                                 *)
LEMMA NotifyConsent ==
  ASSUME IInv, StrangerPoll \/ Notify
  PROVE  Promise!Next \/ UNCHANGED Promise!vars
<1>1. taken' = taken /\ issued' = issued /\ grant' = grant /\ poll' = poll
  BY DEF StrangerPoll, Notify, PingRead, PingPost, PingMark, PingLost, history
<1>2. req'.redeemed = req.redeemed
  <2>1. CASE StrangerPoll
    BY <2>1, StampKeeps DEF StrangerPoll, IInv
  <2>2. CASE Notify
    BY <2>2 DEF Notify, PingRead, PingPost, PingMark, PingLost, IInv, TypeOK, Request
  <2> QED BY <2>1, <2>2
<1>3. /\ \A p \in Poller : Heard(p)' = Heard(p)
      /\ Hears' = Hears /\ Paid' = Paid /\ Withdrawn' = Withdrawn
  BY <1>1 DEF Heard, Hears, Paid, Withdrawn
<1>4. CASE \E w \in Pinger : PingPost(w)
  <2>1. taken # {} /\ posted' = TRUE
    BY <1>4 DEF PingPost, IInv, PingBacked
  <2>2. Promise!Ring
    BY <1>1, <1>2, <1>3, <2>1 DEF Promise!Ring, Hears, Paid
  <2> QED BY <2>2 DEF Promise!Next
<1>5. CASE ~\E w \in Pinger : PingPost(w)
  <2>1. posted' = posted
    BY <1>5 DEF StrangerPoll, Notify, PingRead, PingMark, PingLost, history
  <2> QED BY <1>1, <1>2, <1>3, <2>1, Unseen
<1> QED BY <1>4, <1>5

(* The pages, the token endpoint and the ping keep the promise of Consent, *)
(* for any number of tabs, polls and workers: each statement is one step   *)
(* of it, or none.  The row alone does not show that a signature finds the *)
(* approval unpaid and standing; the invariant about the one request that  *)
(* spent the row does.                                                     *)
THEOREM ImplementsConsent == Spec => KeepsConsent
<1>1. Init => Promise!Init
  <2> SUFFICES ASSUME Init PROVE Promise!Init
    OBVIOUS
  <2>1. /\ taken = {} /\ ~req.redeemed /\ ~posted /\ ~Paid
        /\ Withdrawn = {} /\ \A p \in Poller : Heard(p) = "nothing"
    BY DEF Init, NewRequest, Paid, Withdrawn, Heard, IdlePoll
  <2> QED BY <2>1 DEF Promise!Init, Paid
<1>2. IInv /\ Fresh /\ [Next]_vars => [Promise!Next]_(Promise!vars)
  <2> SUFFICES ASSUME IInv, Fresh, [Next]_vars
               PROVE  Promise!Next \/ UNCHANGED Promise!vars
    OBVIOUS
  <2>1. RowMoves  BY IInvStep
  <2>2. CASE UNCHANGED vars
    <3>1. /\ UNCHANGED <<taken, issued, posted>> /\ req' = req
          /\ Withdrawn' = Withdrawn /\ \A p \in Poller : Heard(p)' = Heard(p)
      BY <2>2 DEF vars, Withdrawn, Heard
    <3> QED BY <3>1, Unseen
  <2> QED BY <2>1, <2>2, DecideConsent, ServeConsent, NotifyConsent DEF Next, Token
<1> QED BY <1>1, <1>2, IInvHolds, FreshHolds, PTL DEF Spec, KeepsConsent, Promise!Spec
=============================================================================
