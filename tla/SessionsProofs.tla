---------------------------- MODULE SessionsProofs ----------------------------
(***************************************************************************)
(* Sessions' invariants hold for any number of clients and of requests in  *)
(* flight, whatever the lifetimes and however often the digest is rotated. *)
(* The argument rests on digests being drawn once: a request that read an  *)
(* earlier one can never match the row again.                              *)
(***************************************************************************)
EXTENDS Sessions, TLAPS

LEMMA Lifetimes ==
  /\ Absolute \in Nat /\ Idle \in Nat /\ MaxClock \in Nat /\ Idle <= Absolute
  /\ None \notin Client /\ None \notin Nat
  BY LifetimesAssumption

-----------------------------------------------------------------------------
(* Types.                                                                  *)

LEMMA RowEdits ==
  ASSUME row \in Row
  PROVE  /\ [row EXCEPT !.status = "swept"] \in Row
         /\ \A i \in 0..Absolute : [row EXCEPT !.idle = i] \in Row
         /\ [row EXCEPT !.digest = row.digest + 1] \in Row
         /\ \A k \in Kinds \union {None} :
              [row EXCEPT !.status = "revoked", !.reason = k] \in Row
<1>1. row.digest + 1 \in Nat
  BY DEF Row
<1>2. [row EXCEPT !.digest = row.digest + 1] \in Row
  BY <1>1 DEF Row
<1>3. /\ [row EXCEPT !.status = "swept"] \in Row
      /\ \A i \in 0..Absolute : [row EXCEPT !.idle = i] \in Row
  BY DEF Row
<1>4. ASSUME NEW k \in Kinds \union {None}
      PROVE  [row EXCEPT !.status = "revoked", !.reason = k] \in Row
  BY <1>4 DEF Row
<1> QED BY <1>2, <1>3, <1>4

LEMMA TouchedType ==
  ASSUME row \in Row, NEW now \in Nat
  PROVE  Touched(now) \in 0..Absolute
<1>1. row.idle \in Nat /\ row.idle <= Absolute
  BY Lifetimes DEF Row
<1> QED BY <1>1, Lifetimes DEF Touched, Smaller, Larger

LEMMA TypeInit == Init => TypeOK
<1> SUFFICES ASSUME Init PROVE TypeOK
  OBVIOUS
<1>1. /\ clock \in 0..MaxClock /\ used \in 0..MaxClock /\ row \in Row
  BY Lifetimes DEF Init, Row
<1>2. grant \in [Client -> Grant] /\ token \in [Client -> Token]
  BY DEF Init, Grant, Token
<1>3. handler \in [Handler -> Request]
  BY Lifetimes DEF Init, Request
<1> QED BY <1>1, <1>2, <1>3 DEF Init, TypeOK

Phases == {"idle", "touch", "grant", "rotate", "find", "revoke",
           "refresh", "participants", "notify", "signal", "ended", "done", "lost"}

LEMMA GotoType ==
  ASSUME TypeOK, NEW h \in Handler, NEW pc \in Phases, Goto(h, pc)
  PROVE  handler' \in [Handler -> Request]
  BY DEF TypeOK, Goto, Request, Phases

LEMMA ArriveType ==
  ASSUME TypeOK, NEW h \in Handler, NEW k \in Kinds, NEW c \in Client \union {None},
         NEW pc \in Phases, Arrive(h, k, c, pc)
  PROVE  TypeOK'
<1>1. row.digest \in Nat
  BY DEF TypeOK, Row
<1>2. [handler[h] EXCEPT !.pc = pc, !.kind = k, !.now = clock, !.session = row.digest,
                         !.client = c] \in Request
  BY ZenonT(60), <1>1 DEF TypeOK, Request, Phases
<1>3. handler' \in [Handler -> Request]
  BY <1>2 DEF TypeOK, Arrive
<1> QED BY <1>3 DEF TypeOK, Arrive

(* A notification tells the clients it was built for, or could not be      *)
(* queued; it changes no other request.                                    *)
LEMMA NotifyEffect ==
  ASSUME TypeOK, NEW h \in Handler, Notify(h)
  PROVE  /\ handler' \in [Handler -> Request]
         /\ told' \subseteq Client /\ told \subseteq told'
         /\ \A g \in Handler \ {h} : handler'[g] = handler[g]
         /\ handler[h].pc = "notify" /\ handler'[h].pc = "signal"
         /\ handler'[h].kind = handler[h].kind /\ handler'[h].session = handler[h].session
         /\ handler'[h].client = handler[h].client /\ handler'[h].hit = handler[h].hit
         /\ handler'[h].owed = handler[h].owed /\ handler'[h].kept = handler[h].kept
         /\ ~handler'[h].unsent => handler[h].list \subseteq told' \union handler'[h].skipped
<1>t. handler \in [Handler -> Request] /\ told \subseteq Client /\ handler[h].pc = "notify"
  BY DEF TypeOK, Notify
<1>1. CASE \E built \in SUBSET handler[h].list :
             /\ handler' = [handler EXCEPT ![h].pc = "signal",
                                           ![h].skipped = handler[h].list \ built]
             /\ told' = told \union built
  <2>1. PICK built \in SUBSET handler[h].list :
          /\ handler' = [handler EXCEPT ![h].pc = "signal",
                                        ![h].skipped = handler[h].list \ built]
          /\ told' = told \union built
    BY <1>1
  <2> DEFINE rest == handler[h].list \ built
             new == [handler[h] EXCEPT !.pc = "signal", !.skipped = rest]
  <2>2. handler[h].list \subseteq Client /\ rest \in SUBSET Client
    BY <1>t DEF Request
  <2>3. handler' = [handler EXCEPT ![h] = new]
    BY <2>1
  <2>6. told' \subseteq Client /\ told \subseteq told' /\ handler[h].list \subseteq told' \union rest
    BY <1>t, <2>1, <2>2
  <2> HIDE DEF rest
  <2>4. new \in Request
    BY ZenonT(60), <1>t, <2>2 DEF Request
  <2>5. /\ new.pc = "signal" /\ new.skipped = rest /\ new.kind = handler[h].kind
        /\ new.session = handler[h].session /\ new.client = handler[h].client
        /\ new.hit = handler[h].hit /\ new.owed = handler[h].owed /\ new.kept = handler[h].kept
    BY ZenonT(60), <1>t DEF Request
  <2> HIDE DEF new
  <2> QED BY <1>t, <2>3, <2>4, <2>5, <2>6
<1>2. CASE handler' = [handler EXCEPT ![h].pc = "signal", ![h].unsent = TRUE] /\ told' = told
  <2> DEFINE new == [handler[h] EXCEPT !.pc = "signal", !.unsent = TRUE]
  <2>1. new \in Request
    BY ZenonT(60), <1>t DEF Request
  <2>2. /\ new.pc = "signal" /\ new.unsent /\ new.kind = handler[h].kind
        /\ new.session = handler[h].session /\ new.client = handler[h].client
        /\ new.hit = handler[h].hit /\ new.owed = handler[h].owed /\ new.kept = handler[h].kept
    BY ZenonT(60), <1>t DEF Request
  <2>3. handler' = [handler EXCEPT ![h] = new]
    BY <1>2
  <2> HIDE DEF new
  <2> QED BY <1>2, <1>t, <2>1, <2>2, <2>3
<1> QED BY <1>1, <1>2 DEF Notify

LEMMA TypeStep == TypeOK /\ [Next]_vars => TypeOK'
<1> SUFFICES ASSUME TypeOK, [Next]_vars PROVE TypeOK'
  OBVIOUS
<1>k. ASSUME NEW h \in Handler, NEW pc \in Phases, Goto(h, pc),
             UNCHANGED <<clock, row, listed, grant, token, told, recorded, used>>
      PROVE  TypeOK'
  BY <1>k, GotoType DEF TypeOK
<1>1. CASE Tick
  BY <1>1, Lifetimes DEF TypeOK, Tick
<1>2. CASE Sweep
  BY <1>2, RowEdits DEF TypeOK, Sweep
<1>3. ASSUME NEW h \in Handler,
             (\E c \in Client : Consent(h, c)) \/ StepUp(h) \/ Logout(h) \/ Close(h)
      PROVE  TypeOK'
  BY <1>3, ArriveType DEF Consent, StepUp, Logout, Close, Kinds, Phases
<1>4. ASSUME NEW h \in Handler, Touch(h) PROVE TypeOK'
  <2>1. handler[h].now \in 0..MaxClock
    BY DEF TypeOK, Request
  <2>2. handler' \in [Handler -> Request]
    <3>1. Goto(h, "grant") \/ Goto(h, "done")
      BY <1>4 DEF Touch
    <3> QED BY <3>1, GotoType DEF Phases
  <2>3. row' \in Row
    <3>1. row \in Row /\ handler[h].now \in Nat
      BY <2>1, Lifetimes DEF TypeOK
    <3>2. Touched(handler[h].now) \in 0..Absolute
      BY <3>1, TouchedType
    <3> QED BY <1>4, <3>1, <3>2, RowEdits DEF Touch
  <2>4. used' \in 0..MaxClock
    BY <1>4, <2>1, Lifetimes DEF Touch, TypeOK, Larger
  <2> QED BY <1>4, <2>2, <2>3, <2>4 DEF Touch, TypeOK
<1>5. ASSUME NEW h \in Handler, MakeGrant(h) PROVE TypeOK'
  <2>1. handler[h].session \in Nat
    BY DEF TypeOK, Request
  <2> DEFINE b == row.digest # handler[h].session
  <2>b. b \in BOOLEAN
    OBVIOUS
  <2>e. grant' = [grant EXCEPT ![handler[h].client].session = handler[h].session,
                               ![handler[h].client].stray = b]
    BY <1>5 DEF MakeGrant
  <2> HIDE DEF b
  <2>2. grant' \in [Client -> Grant]
    BY ZenonT(60), <2>1, <2>b, <2>e DEF TypeOK, Grant
  <2>3. handler' \in [Handler -> Request]
    BY <1>5, GotoType DEF MakeGrant, Phases
  <2> QED BY <1>5, <2>2, <2>3 DEF MakeGrant, TypeOK
<1>6. ASSUME NEW h \in Handler, Rotate(h) PROVE TypeOK'
  <2>1. row.digest \in Nat
    BY DEF TypeOK, Row
  <2>2. handler' \in [Handler -> Request]
    BY <1>6, GotoType DEF Rotate, Phases
  <2>3. row' \in Row /\ listed' \subseteq Client
    BY <1>6, RowEdits DEF Rotate, RotateRow, TypeOK
  <2>4. grant' \in [Client -> Grant]
    BY SMTT(60), <1>6, <2>1 DEF Rotate, RotateRow, Moved, TypeOK, Grant
  <2> QED BY <1>6, <2>2, <2>3, <2>4 DEF Rotate, TypeOK
<1>7. ASSUME NEW h \in Handler, Find(h) \/ RevokeFails(h) \/ Signal(h) \/ Lost(h)
      PROVE  TypeOK'
  BY <1>7, <1>k DEF Find, RevokeFails, Signal, Lost, Phases
<1>8. ASSUME NEW h \in Handler, Revoke(h) PROVE TypeOK'
  <2>1. handler[h].kind \in Kinds \union {None} /\ row.reason \in Kinds \union {None}
    BY DEF TypeOK, Request, Row
  <2>2. row' \in Row
    BY <1>8, <2>1, RowEdits DEF Revoke, Revocation, TypeOK
  <2> DEFINE b == Found(handler[h].session)
  <2>b. b \in BOOLEAN /\ AfterRevoke(h) \in Phases
    BY DEF Found, AfterRevoke, Phases
  <2>e. handler' = [handler EXCEPT ![h].pc = AfterRevoke(h), ![h].hit = b, ![h].owed = recorded]
    BY <1>8 DEF Revoke
  <2> HIDE DEF b
  <2>3. handler' \in [Handler -> Request]
    <3>1. handler \in [Handler -> Request] /\ recorded \in SUBSET Client
      BY DEF TypeOK
    <3>2. [handler[h] EXCEPT !.pc = AfterRevoke(h), !.hit = b, !.owed = recorded] \in Request
      BY ZenonT(60), <2>b, <3>1 DEF Request, Phases
    <3> QED BY <2>e, <3>1, <3>2
  <2> QED BY <1>8, <2>2, <2>3 DEF Revoke, TypeOK
<1>9. ASSUME NEW h \in Handler, RevokeRefreshTokens(h) PROVE TypeOK'
  <2>1. handler' \in [Handler -> Request]
    BY <1>9, GotoType DEF RevokeRefreshTokens, Phases
  <2>2. grant' \in [Client -> Grant]
    BY <1>9 DEF RevokeRefreshTokens, TypeOK, Grant
  <2> QED BY <1>9, <2>1, <2>2 DEF RevokeRefreshTokens, TypeOK
<1>10. ASSUME NEW h \in Handler, Participants(h) PROVE TypeOK'
  <2> DEFINE list == IF Found(handler[h].session) THEN listed ELSE {}
  <2>l. list \in SUBSET Client
    BY DEF TypeOK
  <2>e. handler' = [handler EXCEPT ![h].pc = "notify", ![h].list = list]
    BY <1>10 DEF Participants
  <2> HIDE DEF list
  <2>1. handler' \in [Handler -> Request]
    <3>1. handler \in [Handler -> Request]
      BY DEF TypeOK
    <3>2. [handler[h] EXCEPT !.pc = "notify", !.list = list] \in Request
      BY ZenonT(60), <2>l, <3>1 DEF Request
    <3> QED BY <2>e, <3>1, <3>2
  <2> QED BY <1>10, <2>1 DEF Participants, TypeOK
<1>11. ASSUME NEW h \in Handler, Notify(h) PROVE TypeOK'
  <2>1. handler' \in [Handler -> Request] /\ told' \subseteq Client
    BY <1>11, NotifyEffect
  <2> QED BY <1>11, <2>1 DEF Notify, TypeOK
<1>12. ASSUME NEW c \in Client, Redeem(c) \/ Facts(c) \/ TokenLost(c) PROVE TypeOK'
  <2> DEFINE b == Found(token[c].session)
  <2>b. b \in BOOLEAN /\ grant[c].session \in Nat \union {None}
    BY DEF Found, TypeOK, Grant
  <2>e. \/ token' = [token EXCEPT ![c].pc = "facts", ![c].session = grant[c].session]
        \/ token' = [token EXCEPT ![c].pc = "remember", ![c].sid = b]
        \/ token' = [token EXCEPT ![c].pc = "lost"]
    BY <1>12 DEF Redeem, Facts, TokenLost, TokenGoto
  <2> HIDE DEF b
  <2>1. token' \in [Client -> Token]
    BY <2>b, <2>e DEF TypeOK, Token
  <2> QED BY <1>12, <2>1 DEF Redeem, Facts, TokenLost, TypeOK
<1>13. ASSUME NEW c \in Client, Remember(c) PROVE TypeOK'
  <2>1. token' \in [Client -> Token]
    <3>1. PICK written \in BOOLEAN :
            token' = [token EXCEPT ![c].pc = "issue", ![c].unlisted = ~written]
      BY <1>13 DEF Remember
    <3> DEFINE b == ~written
    <3>2. b \in BOOLEAN /\ token' = [token EXCEPT ![c].pc = "issue", ![c].unlisted = b]
      BY <3>1
    <3> HIDE DEF b
    <3> QED BY <3>2 DEF TypeOK, Token
  <2>2. listed' \subseteq Client /\ recorded' \subseteq Client
    BY <1>13 DEF Remember, TypeOK
  <2> QED BY <1>13, <2>1, <2>2 DEF Remember, TypeOK
<1>14. ASSUME NEW c \in Client, Issue(c) PROVE TypeOK'
  <2>1. token' \in [Client -> Token]
    BY <1>14 DEF Issue, TokenGoto, TypeOK, Token
  <2> DEFINE b == row.status = "live"
  <2>b. b \in BOOLEAN
    OBVIOUS
  <2>e. grant' = [grant EXCEPT ![c].refresh = "live", ![c].before = b]
    BY <1>14 DEF Issue
  <2> HIDE DEF b
  <2>2. grant' \in [Client -> Grant]
    BY ZenonT(60), <2>b, <2>e DEF TypeOK, Grant
  <2> QED BY <1>14, <2>1, <2>2 DEF Issue, TypeOK
<1>15. ASSUME NEW h \in Handler, RefreshFails(h) PROVE TypeOK'
  <2>1. handler \in [Handler -> Request]
    BY DEF TypeOK
  <2>2. [handler[h] EXCEPT !.pc = "participants", !.kept = TRUE] \in Request
    BY ZenonT(60), <2>1 DEF Request
  <2>3. handler' \in [Handler -> Request]
    BY <1>15, <2>1, <2>2 DEF RefreshFails
  <2> QED BY <1>15, <2>3 DEF RefreshFails, TypeOK
<1>16. CASE UNCHANGED vars
  BY <1>16 DEF vars, TypeOK
<1> QED BY <1>1, <1>2, <1>3, <1>4, <1>5, <1>6, <1>7, <1>8, <1>9, <1>10, <1>11, <1>12,
           <1>13, <1>14, <1>15, <1>16 DEF Next

(* The rows of `sessions`, `session_clients` and `grants` and the requests *)
(* in flight keep their types, and idle_expires_at stays within            *)
(* expires_at, for every policy.                                           *)
THEOREM TypeCorrect == Spec => []TypeOK
<1>1. Init => TypeOK
  BY TypeInit
<1>2. TypeOK /\ [Next]_vars => TypeOK'
  BY TypeStep
<1> QED BY <1>1, <1>2, PTL DEF Spec

-----------------------------------------------------------------------------
(* The row.                                                                *)

(* What a step may do to the row, by its status.                           *)
RowMove ==
  \/ row' = row
  \/ row' = [row EXCEPT !.status = "swept"]
  \/ /\ row.status = "live"
     /\ \/ row'.status = "live" /\ row'.digest = row.digest
        \/ row'.status = "live" /\ row'.digest = row.digest + 1
        \/ row'.status = "revoked" /\ row'.digest = row.digest

LEMMA RowMoves == TypeOK /\ [Next]_vars => RowMove
<1> SUFFICES ASSUME TypeOK, [Next]_vars PROVE RowMove
  OBVIOUS
<1>t. row \in Row
  BY DEF TypeOK
<1>1. ASSUME NEW h \in Handler, Touch(h) PROVE RowMove
  BY <1>1, <1>t DEF Touch, Usable, Row, RowMove
<1>2. ASSUME NEW h \in Handler, Rotate(h) PROVE RowMove
  <2>1. CASE Usable(handler[h].session, handler[h].now)
    BY <1>2, <1>t, <2>1 DEF Rotate, RotateRow, Usable, Row, RowMove
  <2>2. CASE ~Usable(handler[h].session, handler[h].now)
    BY <1>2, <2>2 DEF Rotate, RowMove
  <2> QED BY <2>1, <2>2
<1>3. ASSUME NEW h \in Handler, Revoke(h) PROVE RowMove
  <2>1. CASE Found(handler[h].session) /\ row.status = "live"
    <3>1. row'.status = "revoked" /\ row'.digest = row.digest
      BY <1>3, <1>t, <2>1 DEF Revoke, Revocation, Row
    <3> QED BY <2>1, <3>1 DEF RowMove
  <2>2. CASE Found(handler[h].session) /\ row.status # "live"
    <3>1. row.status = "revoked"
      BY <1>t, <2>2 DEF Found, Row
    <3>2. row' = [row EXCEPT !.status = "revoked", !.reason = row.reason]
      BY <1>3, <2>2 DEF Revoke, Revocation
    <3>3. row' = row
      BY <1>t, <3>1, <3>2 DEF Row
    <3> QED BY <3>3 DEF RowMove
  <2>3. CASE ~Found(handler[h].session)
    BY <1>3, <2>3 DEF Revoke, Revocation, RowMove
  <2> QED BY <2>1, <2>2, <2>3
<1>4. CASE Sweep
  BY <1>4 DEF Sweep, RowMove
<1>5. CASE UNCHANGED row
  BY <1>5 DEF RowMove
<1> QED BY ZenonT(60), <1>1, <1>2, <1>3, <1>4, <1>5
     DEF Next, vars, Tick, Consent, StepUp, Logout, Close, Arrive, MakeGrant, Find,
         RevokeFails, RevokeRefreshTokens, RefreshFails, Participants, Notify, Signal, Lost,
         Redeem, Facts, Remember, Issue, TokenLost

LEMMA RowEnds ==
  ASSUME TypeOK, [Next]_vars
  PROVE  /\ row'.status \in {"live", "revoked", "swept"}
         /\ row.digest \in Nat /\ row'.digest \in Nat /\ row.digest <= row'.digest
         /\ row.status # "live" => row'.status # "live" /\ row'.digest = row.digest
         /\ row'.status # "swept" => row.status # "swept"
<1>1. row \in Row /\ row' \in Row
  BY TypeStep DEF TypeOK
<1>2. RowMove
  BY RowMoves
<1> QED BY <1>1, <1>2 DEF RowMove, Row

(* A revoked or expired session is never given a deadline, a digest or a   *)
(* reason again, by any request that was already in flight.                *)
THEOREM EndedForGood == Spec => EndedStays
<1> DEFINE Step == /\ row.status = "revoked" =>
                        row' \in {row, [row EXCEPT !.status = "swept"]}
                   /\ row.status = "swept" => row' = row
<1>1. TypeOK /\ [Next]_vars => [Step]_vars
  <2> SUFFICES ASSUME TypeOK, [Next]_vars PROVE Step
    OBVIOUS
  <2>1. row \in Row /\ RowMove
    BY RowMoves DEF TypeOK
  <2>2. row.status = "swept" => [row EXCEPT !.status = "swept"] = row
    BY <2>1 DEF Row
  <2> QED BY <2>1, <2>2 DEF RowMove
<1>2. Init => TypeOK
  BY TypeInit
<1>3. TypeOK /\ [Next]_vars => TypeOK'
  BY TypeStep
<1> QED BY <1>1, <1>2, <1>3, PTL DEF Spec, EndedStays

LEMMA IdleStep == TypeOK /\ IdleClock /\ [Next]_vars => IdleClock'
<1> SUFFICES ASSUME TypeOK, IdleClock, [Next]_vars PROVE IdleClock'
  OBVIOUS
<1>t. row \in Row /\ used \in Nat
  BY Lifetimes DEF TypeOK
<1>k. ASSUME row'.idle = row.idle, used' = used PROVE IdleClock'
  BY <1>k DEF IdleClock
<1>1. ASSUME NEW h \in Handler, Touch(h) PROVE IdleClock'
  <2>1. handler[h].now \in Nat
    BY Lifetimes DEF TypeOK, Request
  <2>2. CASE row' = row /\ used' = used
    BY <2>2, <1>k
  <2>3. CASE /\ row' = [row EXCEPT !.idle = Touched(handler[h].now)]
             /\ used' = Larger(used, handler[h].now)
    <3>1. row'.idle = Touched(handler[h].now)
      BY <1>t, <2>3 DEF Row
    <3>2. row.idle = Smaller(Absolute, used + Idle)
      BY DEF IdleClock
    <3>3. Touched(handler[h].now) = Smaller(Absolute, Larger(used, handler[h].now) + Idle)
      <4>1. Touched(handler[h].now) =
              Smaller(Absolute, Larger(Smaller(Absolute, used + Idle),
                                       Smaller(handler[h].now + Idle, Absolute)))
        BY <3>2 DEF Touched
      <4>2. Smaller(Absolute, Larger(Smaller(Absolute, used + Idle),
                                     Smaller(handler[h].now + Idle, Absolute)))
              = Smaller(Absolute, Larger(used, handler[h].now) + Idle)
        <5> DEFINE n == handler[h].now
        <5>1. n \in Nat
          BY <2>1
        <5> HIDE DEF n
        <5>2. Smaller(Absolute, Larger(Smaller(Absolute, used + Idle), Smaller(n + Idle, Absolute)))
                = Smaller(Absolute, Larger(used, n) + Idle)
          BY <1>t, <5>1, Lifetimes DEF Smaller, Larger
        <5> QED BY <5>2 DEF n
      <4> QED BY <4>1, <4>2
    <3> QED BY <2>3, <3>1, <3>3 DEF IdleClock
  <2> QED BY <1>1, <2>2, <2>3 DEF Touch
<1>2. ASSUME NEW h \in Handler, Rotate(h) \/ Revoke(h) PROVE IdleClock'
  <2>1. row'.idle = row.idle
    BY <1>2, <1>t DEF Rotate, RotateRow, Revoke, Revocation, Row
  <2>2. used' = used
    BY <1>2 DEF Rotate, Revoke
  <2> QED BY <2>1, <2>2, <1>k
<1>3. CASE Sweep
  BY <1>3, <1>k, <1>t DEF Sweep, Row
<1>4. CASE UNCHANGED <<row, used>>
  BY <1>4, <1>k
<1> QED BY ZenonT(60), <1>1, <1>2, <1>3, <1>4
     DEF Next, vars, Tick, Consent, StepUp, Logout, Close, Arrive, MakeGrant, Find,
         RevokeFails, RevokeRefreshTokens, RefreshFails, Participants, Notify, Signal, Lost,
         Redeem, Facts, Remember, Issue, TokenLost

(* Touches commute: the idle deadline follows the latest arrival, whatever *)
(* order the requests reach the row in.                                    *)
THEOREM IdleFollowsUse == Spec => []IdleClock
<1>1. Init => TypeOK /\ IdleClock
  BY TypeInit, Lifetimes DEF Init, IdleClock, Smaller
<1>2. TypeOK /\ IdleClock /\ [Next]_vars => (TypeOK /\ IdleClock)'
  BY TypeStep, IdleStep
<1> QED BY <1>1, <1>2, PTL DEF Spec

-----------------------------------------------------------------------------
(* Requests and the digest they read.                                      *)

Over == {"refresh", "participants", "notify", "signal", "ended"}

(* No request holds a digest that was not drawn yet; past the revocation   *)
(* of a digest the row still has, the session is not live; and a           *)
(* revocation that matched the row leaves it with the digest it matched.   *)
Drawn == \A h \in Handler : handler[h].session <= row.digest
Struck == \A h \in Handler :
            handler[h].pc \in Over /\ handler[h].session = row.digest
              => row.status # "live"
Hits == \A h \in Handler :
          handler[h].hit => /\ handler[h].pc \in Over \union {"lost"}
                            /\ handler[h].session = row.digest
                            /\ row.status # "live"

DInv == TypeOK /\ Drawn /\ Struck /\ Hits

(* What a step may do to a request.                                        *)
HandlerMove(h) ==
  \/ handler'[h] = handler[h]
  \/ /\ handler[h].pc = "idle" /\ handler'[h].pc \notin Over
     /\ handler'[h].session = row.digest /\ handler'[h].hit = handler[h].hit
     /\ row' = row
  \/ /\ handler'[h].session = handler[h].session /\ handler'[h].hit = handler[h].hit
     /\ \/ handler[h].pc \notin Over \union {"lost"} /\ handler'[h].pc \notin Over
        \/ handler[h].pc \in Over /\ handler'[h].pc \in Over \union {"lost"}
        \/ handler[h].pc \notin Over \union {"lost"} /\ handler'[h].pc = "lost"
  \/ Revoke(h)

LEMMA HandlerMoves ==
  ASSUME TypeOK, [Next]_vars, NEW g \in Handler
  PROVE  HandlerMove(g)
<1>t. handler \in [Handler -> Request]
  BY DEF TypeOK
<1>k. ASSUME NEW h \in Handler, NEW pc, Goto(h, pc),
             \/ handler[h].pc \notin Over \union {"lost"} /\ pc \notin Over
             \/ handler[h].pc \in Over /\ pc \in Over \union {"lost"}
      PROVE  HandlerMove(g)
  BY <1>k, <1>t DEF Goto, HandlerMove, Request
<1>1. ASSUME NEW h \in Handler, NEW k, NEW c, NEW pc, pc \notin Over, Arrive(h, k, c, pc)
      PROVE  HandlerMove(g)
  BY <1>1, <1>t DEF Arrive, HandlerMove, Request
<1>2. ASSUME NEW h \in Handler,
             (\E c \in Client : Consent(h, c)) \/ StepUp(h) \/ Logout(h) \/ Close(h)
      PROVE  HandlerMove(g)
  BY <1>1, <1>2 DEF Consent, StepUp, Logout, Close, Over
<1>3. ASSUME NEW h \in Handler, Touch(h) \/ MakeGrant(h) \/ Rotate(h) \/ Find(h) \/ RevokeFails(h)
      PROVE  HandlerMove(g)
  BY <1>3, <1>k DEF Touch, MakeGrant, Rotate, Find, RevokeFails, Over
<1>4. ASSUME NEW h \in Handler, RevokeRefreshTokens(h) \/ Signal(h)
      PROVE  HandlerMove(g)
  BY <1>4, <1>k DEF RevokeRefreshTokens, Signal, Over
<1>5. ASSUME NEW h \in Handler, Lost(h) PROVE HandlerMove(g)
  BY <1>5, <1>k DEF Lost, Over
<1>6. ASSUME NEW h \in Handler, Participants(h) PROVE HandlerMove(g)
  BY <1>6, <1>t DEF Participants, HandlerMove, Request, Over
<1>7. ASSUME NEW h \in Handler, Notify(h) PROVE HandlerMove(g)
  BY <1>7, NotifyEffect DEF HandlerMove, Over
<1>8. ASSUME NEW h \in Handler, Revoke(h) PROVE HandlerMove(g)
  BY <1>8, <1>t DEF Revoke, HandlerMove, Request
<1>9. ASSUME NEW h \in Handler, RefreshFails(h) PROVE HandlerMove(g)
  BY <1>9, <1>t DEF RefreshFails, HandlerMove, Request, Over
<1>10. CASE UNCHANGED handler
  BY <1>10 DEF HandlerMove
<1> QED BY <1>2, <1>3, <1>4, <1>5, <1>6, <1>7, <1>8, <1>9, <1>10
     DEF Next, vars, Tick, Sweep, Redeem, Facts, Remember, Issue, TokenLost

LEMMA RevokeEffect ==
  ASSUME TypeOK, NEW h \in Handler, Revoke(h)
  PROVE  /\ handler'[h].session = handler[h].session /\ row'.digest = row.digest
         /\ handler'[h].pc \in {"refresh", "participants"}
         /\ handler'[h].hit = Found(handler[h].session)
         /\ handler'[h].owed = recorded
         /\ Found(handler[h].session) => row'.status # "live"
         /\ row.status # "live" => row'.status # "live"
<1>1. handler \in [Handler -> Request] /\ row \in Row
  BY DEF TypeOK
<1>2. /\ handler'[h].session = handler[h].session
      /\ handler'[h].pc = AfterRevoke(h)
      /\ handler'[h].hit = Found(handler[h].session)
      /\ handler'[h].owed = recorded
  BY <1>1 DEF Revoke, Request
<1>3. row'.digest = row.digest /\ (Found(handler[h].session) => row'.status = "revoked")
      /\ (row.status # "live" => row'.status # "live")
  BY <1>1 DEF Revoke, Revocation, Row
<1> QED BY <1>2, <1>3 DEF AfterRevoke

LEMMA DStep == DInv /\ [Next]_vars => DInv'
<1> SUFFICES ASSUME DInv, [Next]_vars PROVE (Drawn /\ Struck /\ Hits)'
  BY TypeStep DEF DInv
<1>t. /\ handler \in [Handler -> Request] /\ row \in Row
      /\ row.digest \in Nat /\ row'.digest \in Nat /\ row.digest <= row'.digest
      /\ row.status # "live" => row'.status # "live" /\ row'.digest = row.digest
      /\ \A h \in Handler : handler[h].session \in Nat /\ handler[h].hit \in BOOLEAN
  BY RowEnds DEF DInv, TypeOK, Request
<1>s. row'.digest = row.digest \/ (row'.digest = row.digest + 1 /\ row.status = "live")
  BY RowMoves, <1>t DEF DInv, RowMove, Row
<1>l. row.status = "live" \/ row'.status # "live"
  BY <1>t
<1> SUFFICES ASSUME NEW g \in Handler
             PROVE  /\ handler'[g].session <= row'.digest
                    /\ handler'[g].pc \in Over /\ handler'[g].session = row'.digest
                         => row'.status # "live"
                    /\ handler'[g].hit => /\ handler'[g].pc \in Over \union {"lost"}
                                          /\ handler'[g].session = row'.digest
                                          /\ row'.status # "live"
  BY DEF Drawn, Struck, Hits
<1>g. /\ handler[g].session \in Nat /\ handler[g].session <= row.digest
      /\ handler[g].pc \in Over /\ handler[g].session = row.digest => row.status # "live"
      /\ handler[g].hit => /\ handler[g].pc \in Over \union {"lost"}
                           /\ handler[g].session = row.digest
                           /\ row.status # "live"
  BY <1>t DEF DInv, Drawn, Struck, Hits
<1>1. CASE handler'[g] = handler[g]
  BY <1>1, <1>t, <1>s, <1>g
<1>2. CASE /\ handler[g].pc = "idle" /\ handler'[g].pc \notin Over
           /\ handler'[g].session = row.digest /\ handler'[g].hit = handler[g].hit
           /\ row' = row
  <2>1. ~handler[g].hit
    BY <1>2, <1>g DEF Over
  <2> QED BY <1>2, <1>t, <2>1
<1>3. CASE /\ handler'[g].session = handler[g].session /\ handler'[g].hit = handler[g].hit
           /\ \/ handler[g].pc \notin Over \union {"lost"} /\ handler'[g].pc \notin Over
              \/ handler[g].pc \in Over /\ handler'[g].pc \in Over \union {"lost"}
              \/ handler[g].pc \notin Over \union {"lost"} /\ handler'[g].pc = "lost"
  BY <1>3, <1>t, <1>s, <1>g DEF Over
<1>4. CASE Revoke(g)
  <2>1. TypeOK
    BY DEF DInv
  <2>2. /\ handler'[g].session = handler[g].session /\ row'.digest = row.digest
        /\ handler'[g].pc \in {"refresh", "participants"}
        /\ handler'[g].hit = Found(handler[g].session)
        /\ Found(handler[g].session) => row'.status # "live"
    BY <1>4, <2>1, RevokeEffect
  <2>3. handler[g].session = row.digest => row'.status # "live"
    BY <1>t, <2>2 DEF Found, Row
  <2>4. handler'[g].hit => handler[g].session = row.digest
    BY <2>2 DEF Found
  <2> QED BY <1>g, <2>2, <2>3, <2>4 DEF Over
<1> QED BY <1>1, <1>2, <1>3, <1>4, HandlerMoves DEF HandlerMove, DInv

LEMMA DInit == Init => DInv
  BY TypeInit DEF Init, DInv, Drawn, Struck, Hits, Over

(* A session-revoked event is true of the digest its sender read, whatever *)
(* rotations, revocations and sweeps came between the read and the event.  *)
THEOREM SignalIsTrue == Spec => []SignalHoldsForDigest
<1>1. Init => DInv
  BY DInit
<1>2. DInv /\ [Next]_vars => DInv'
  BY DStep
<1>3. DInv => SignalHoldsForDigest
  BY DEF DInv, Struck, SignalHoldsForDigest, Over
<1> QED BY <1>1, <1>2, <1>3, PTL DEF Spec

-----------------------------------------------------------------------------
(* Participants.                                                           *)

(* Until the row goes, no participant does.                                *)
Roll == row.status # "swept" => listed = recorded

LEMMA RollStep == DInv /\ Roll /\ [Next]_vars => Roll'
<1> SUFFICES ASSUME DInv, Roll, [Next]_vars, row'.status # "swept"
             PROVE  listed' = recorded'
  BY DEF Roll
<1>1. row.status # "swept" /\ listed = recorded
  BY RowEnds DEF DInv, Roll
<1>2. CASE Sweep
  BY <1>2 DEF Sweep, DInv, TypeOK, Row
<1>3. ASSUME NEW h \in Handler, Rotate(h) PROVE listed' = recorded'
  BY <1>1, <1>3 DEF Rotate, RotateRow
<1>4. ASSUME NEW c \in Client, Remember(c) PROVE listed' = recorded'
  BY <1>1, <1>4 DEF Remember
<1>5. CASE UNCHANGED <<listed, recorded>>
  BY <1>1, <1>5
<1> QED BY ZenonT(60), <1>2, <1>3, <1>4, <1>5
     DEF Next, vars, Tick, Consent, StepUp, Logout, Close, Arrive, Touch, MakeGrant, Find,
         Revoke, RevokeFails, RevokeRefreshTokens, RefreshFails, Participants, Notify, Signal, Lost,
         Redeem, Facts, Issue, TokenLost

LEMMA RecordedGrows ==
  TypeOK /\ [Next]_vars => recorded \subseteq recorded' /\ told \subseteq told'
<1> SUFFICES ASSUME TypeOK, [Next]_vars PROVE recorded \subseteq recorded' /\ told \subseteq told'
  OBVIOUS
<1>1. ASSUME NEW c \in Client, Remember(c) PROVE recorded \subseteq recorded' /\ told' = told
  BY <1>1 DEF Remember
<1>2. ASSUME NEW h \in Handler, Notify(h) PROVE recorded' = recorded /\ told \subseteq told'
  BY <1>2, NotifyEffect DEF Notify
<1> QED BY ZenonT(60), <1>1, <1>2
     DEF Next, vars, Tick, Sweep, Consent, StepUp, Logout, Close, Arrive, Touch, MakeGrant,
         Rotate, Find, Revoke, RevokeFails, RevokeRefreshTokens, RefreshFails, Participants, Signal, Lost,
         Redeem, Facts, Issue, TokenLost

(* From the participant's insert on, not only once the response is out.    *)
Remembers ==
  \A c \in Client :
    token[c].pc \in {"issue", "done"} /\ row.status # "swept"
      => c \in recorded \/ token[c].unlisted

LEMMA RemembersStep == DInv /\ Remembers /\ [Next]_vars => Remembers'
<1> SUFFICES ASSUME DInv, Remembers, [Next]_vars, NEW c \in Client,
                    token'[c].pc \in {"issue", "done"}, row'.status # "swept"
             PROVE  c \in recorded' \/ token'[c].unlisted
  BY DEF Remembers
<1>t. token \in [Client -> Token] /\ row.status # "swept" /\ recorded \subseteq recorded'
  BY RowEnds, RecordedGrows DEF DInv, TypeOK
<1>k. ASSUME token[c].pc \in {"issue", "done"}, token'[c].unlisted = token[c].unlisted
      PROVE  c \in recorded' \/ token'[c].unlisted
  BY <1>k, <1>t DEF Remembers
<1>1. ASSUME NEW b \in Client, Remember(b) PROVE c \in recorded' \/ token'[c].unlisted
  <2>1. CASE b = c
    BY <1>1, <1>t, <2>1 DEF Remember, Token
  <2>2. CASE b # c
    BY <1>1, <1>k, <1>t, <2>2 DEF Remember, Token
  <2> QED BY <2>1, <2>2
<1>2. ASSUME NEW b \in Client, Redeem(b) \/ Facts(b)
      PROVE  c \in recorded' \/ token'[c].unlisted
  <2>1. b # c
    BY <1>2, <1>t DEF Redeem, Facts, Token
  <2> QED BY <1>2, <1>k, <1>t, <2>1 DEF Redeem, Facts, Token
<1>3. ASSUME NEW b \in Client, Issue(b) \/ TokenLost(b)
      PROVE  c \in recorded' \/ token'[c].unlisted
  <2>1. b # c \/ Issue(b)
    BY <1>3, <1>t DEF TokenLost, TokenGoto, Token
  <2> QED BY <1>3, <1>k, <1>t, <2>1 DEF Issue, TokenLost, TokenGoto, Token
<1>4. CASE UNCHANGED token
  BY <1>4, <1>k
<1> QED BY ZenonT(60), <1>1, <1>2, <1>3, <1>4
     DEF Next, vars, Tick, Sweep, Consent, StepUp, Logout, Close, Arrive, Touch, MakeGrant,
         Rotate, Find, Revoke, RevokeFails, RevokeRefreshTokens, RefreshFails, Participants, Notify,
         Signal, Lost

(* Who a request that ended the session owes a logout token.               *)
Owed ==
  \A h \in Handler :
    handler[h].hit /\ row.status # "swept" =>
      /\ handler[h].owed \subseteq recorded
      /\ handler[h].pc = "notify" => handler[h].owed \subseteq handler[h].list
      /\ handler[h].pc \in {"signal", "ended"} /\ ~handler[h].unsent
           => handler[h].owed \subseteq told \union handler[h].skipped

PInv == DInv /\ Roll /\ Remembers /\ Owed

LEMMA OwedStep == PInv /\ [Next]_vars => Owed'
<1> SUFFICES ASSUME PInv, [Next]_vars, NEW g \in Handler, handler'[g].hit,
                    row'.status # "swept"
             PROVE  /\ handler'[g].owed \subseteq recorded'
                    /\ handler'[g].pc = "notify" => handler'[g].owed \subseteq handler'[g].list
                    /\ handler'[g].pc \in {"signal", "ended"} /\ ~handler'[g].unsent
                         => handler'[g].owed \subseteq told' \union handler'[g].skipped
  BY DEF Owed
<1>t. /\ TypeOK /\ handler \in [Handler -> Request] /\ row.status # "swept"
      /\ listed = recorded /\ recorded \subseteq recorded' /\ told \subseteq told'
  BY RowEnds, RecordedGrows DEF PInv, DInv, TypeOK, Roll
<1>g. handler[g].hit => Found(handler[g].session) /\ handler[g].owed \subseteq recorded
  BY <1>t DEF PInv, DInv, Hits, Owed, Found
<1>k. ASSUME handler'[g].hit = handler[g].hit, handler'[g].owed = handler[g].owed,
             handler'[g].list = handler[g].list, handler'[g].unsent = handler[g].unsent,
             handler'[g].skipped = handler[g].skipped,
             handler'[g].pc \in {"notify", "signal", "ended"} =>
               \/ handler'[g].pc = handler[g].pc
               \/ handler[g].pc = "signal" /\ handler'[g].pc = "ended"
      PROVE  /\ handler'[g].owed \subseteq recorded'
             /\ handler'[g].pc = "notify" => handler'[g].owed \subseteq handler'[g].list
             /\ handler'[g].pc \in {"signal", "ended"} /\ ~handler'[g].unsent
                  => handler'[g].owed \subseteq told' \union handler'[g].skipped
  BY <1>k, <1>t DEF PInv, Owed
<1>f. ASSUME NEW h \in Handler, NEW pc, Goto(h, pc),
             \/ pc \notin {"notify", "signal", "ended"}
             \/ handler[h].pc = "signal" /\ pc = "ended"
      PROVE  /\ handler'[g].hit = handler[g].hit /\ handler'[g].owed = handler[g].owed
             /\ handler'[g].list = handler[g].list /\ handler'[g].unsent = handler[g].unsent
             /\ handler'[g].skipped = handler[g].skipped
             /\ handler'[g].pc \in {"notify", "signal", "ended"} =>
                  \/ handler'[g].pc = handler[g].pc
                  \/ handler[g].pc = "signal" /\ handler'[g].pc = "ended"
  BY <1>f, <1>t DEF Goto, Request
<1>1. ASSUME NEW h \in Handler,
             \/ \E c \in Client : Consent(h, c)
             \/ StepUp(h) \/ Logout(h) \/ Close(h)
      PROVE  /\ handler'[g].hit = handler[g].hit /\ handler'[g].owed = handler[g].owed
             /\ handler'[g].list = handler[g].list /\ handler'[g].unsent = handler[g].unsent
             /\ handler'[g].skipped = handler[g].skipped
             /\ handler'[g].pc \in {"notify", "signal", "ended"} =>
                  handler'[g].pc = handler[g].pc
  <2>1. PICK k, c, pc : /\ pc \notin {"notify", "signal", "ended"}
                        /\ Arrive(h, k, c, pc)
    BY <1>1 DEF Consent, StepUp, Logout, Close
  <2>2. CASE g = h
    <3>1. /\ handler'[g].hit = handler[g].hit /\ handler'[g].owed = handler[g].owed
          /\ handler'[g].list = handler[g].list /\ handler'[g].unsent = handler[g].unsent
          /\ handler'[g].skipped = handler[g].skipped
      BY ZenonT(60), <1>t, <2>1, <2>2 DEF Arrive, Request
    <3>2. handler'[g].pc = pc
      BY <1>t, <2>1, <2>2 DEF Arrive, Request
    <3> QED BY <2>1, <3>1, <3>2
  <2>3. CASE g # h
    BY <1>t, <2>1, <2>3 DEF Arrive
  <2> QED BY <2>2, <2>3
<1>2. ASSUME NEW h \in Handler,
             \/ Touch(h) \/ MakeGrant(h) \/ Rotate(h) \/ Find(h) \/ RevokeFails(h)
             \/ RevokeRefreshTokens(h) \/ Signal(h) \/ Lost(h)
      PROVE  \E pc : /\ Goto(h, pc)
                     /\ \/ pc \notin {"notify", "signal", "ended"}
                        \/ handler[h].pc = "signal" /\ pc = "ended"
  BY <1>2 DEF Touch, MakeGrant, Rotate, Find, RevokeFails, RevokeRefreshTokens, Signal, Lost
<1>3. ASSUME NEW h \in Handler, Revoke(h), h # g
      PROVE  handler'[g] = handler[g]
  BY <1>3, <1>t DEF Revoke
<1>4. CASE Revoke(g)
  <2>1. handler'[g].owed = recorded /\ handler'[g].pc \in {"refresh", "participants"}
    BY <1>4, <1>t, RevokeEffect
  <2> QED BY <1>t, <2>1
<1>5. ASSUME NEW h \in Handler, Participants(h)
      PROVE  \/ handler'[g] = handler[g]
             \/ /\ handler'[g].hit = handler[g].hit /\ handler'[g].owed = handler[g].owed
                /\ handler'[g].pc = "notify"
                /\ Found(handler[g].session) => handler'[g].list = listed
  BY <1>5, <1>t DEF Participants, Request
<1>6. CASE /\ handler'[g].hit = handler[g].hit /\ handler'[g].owed = handler[g].owed
           /\ handler'[g].pc = "notify"
           /\ Found(handler[g].session) => handler'[g].list = listed
  BY <1>6, <1>t, <1>g
<1>7. ASSUME NEW h \in Handler, Notify(h)
      PROVE  \/ handler'[g] = handler[g]
             \/ /\ handler'[g].hit = handler[g].hit /\ handler'[g].owed = handler[g].owed
                /\ handler[g].pc = "notify" /\ handler'[g].pc = "signal"
                /\ ~handler'[g].unsent
                     => handler[g].list \subseteq told' \union handler'[g].skipped
  BY <1>7, <1>t, NotifyEffect
<1>8. CASE /\ handler'[g].hit = handler[g].hit /\ handler'[g].owed = handler[g].owed
           /\ handler[g].pc = "notify" /\ handler'[g].pc = "signal"
           /\ ~handler'[g].unsent
                => handler[g].list \subseteq told' \union handler'[g].skipped
  <2>1. handler[g].owed \subseteq recorded /\ handler[g].owed \subseteq handler[g].list
    BY <1>8, <1>t DEF PInv, Owed
  <2> QED BY <1>8, <1>t, <2>1
<1>9. CASE handler'[g] = handler[g]
  BY <1>9, <1>k
<1>10. CASE \E h \in Handler :
              \/ Touch(h) \/ MakeGrant(h) \/ Rotate(h) \/ Find(h) \/ RevokeFails(h)
              \/ RevokeRefreshTokens(h) \/ Signal(h) \/ Lost(h)
  BY <1>10, <1>2, <1>f, <1>k
<1>11. CASE \E h \in Handler : \/ \E c \in Client : Consent(h, c)
                               \/ StepUp(h) \/ Logout(h) \/ Close(h)
  BY <1>11, <1>1, <1>k
<1>12. CASE \E h \in Handler : Participants(h) \/ Notify(h) \/ Revoke(h)
  BY <1>12, <1>3, <1>4, <1>5, <1>6, <1>7, <1>8, <1>9
<1>13. ASSUME NEW h \in Handler, RefreshFails(h)
       PROVE  /\ handler'[g].hit = handler[g].hit /\ handler'[g].owed = handler[g].owed
              /\ handler'[g].list = handler[g].list /\ handler'[g].unsent = handler[g].unsent
              /\ handler'[g].skipped = handler[g].skipped
              /\ handler'[g].pc \in {"notify", "signal", "ended"} =>
                   handler'[g].pc = handler[g].pc
  BY <1>13, <1>t DEF RefreshFails, Request
<1>14. CASE \E h \in Handler : RefreshFails(h)
  BY <1>13, <1>14, <1>k
<1>15. CASE UNCHANGED handler
  BY <1>15, <1>9
<1> QED BY <1>10, <1>11, <1>12, <1>14, <1>15
     DEF Next, vars, Tick, Sweep, Redeem, Facts, Remember, Issue, TokenLost

LEMMA PInit == Init => PInv
  BY DInit DEF Init, PInv, Roll, Remembers, Owed

LEMMA PStep == PInv /\ [Next]_vars => PInv'
  BY DStep, RollStep, RemembersStep, OwedStep DEF PInv

(* A client that holds an ID token with this session's sid is found by     *)
(* participants() under whatever digest the row has, unless its own insert *)
(* failed.                                                                 *)
THEOREM HoldersAreListed == Spec => []SidHolderListed
<1>1. Init => PInv
  BY PInit
<1>2. PInv /\ [Next]_vars => PInv'
  BY PStep
<1>3. PInv => SidHolderListed
  BY DEF PInv, Roll, Remembers, SidHolderListed
<1> QED BY <1>1, <1>2, <1>3, PTL DEF Spec

(* A revocation that matched the row and could queue is followed by a      *)
(* logout token for every client recorded before it that one could be      *)
(* built for.                                                              *)
THEOREM ParticipantsAreTold == Spec => []ClosedMeansTold
<1>1. Init => PInv
  BY PInit
<1>2. PInv /\ [Next]_vars => PInv'
  BY PStep
<1>3. PInv => ClosedMeansTold
  BY DEF PInv, Owed, ClosedMeansTold
<1> QED BY <1>1, <1>2, <1>3, PTL DEF Spec

-----------------------------------------------------------------------------
(* Grants and refresh tokens.                                              *)

Asking == {"touch", "grant"}
Past == {"participants", "notify", "signal", "ended"}

(* A client is given one grant, by the one request that carries its        *)
(* consent.                                                                *)
Consents ==
  /\ \A h \in Handler :
       /\ handler[h].pc = "idle" => handler[h].client = None
       /\ handler[h].pc \in Asking => /\ handler[h].client \in Client
                                      /\ grant[handler[h].client].session = None
  /\ \A h, g \in Handler :
       handler[h].client \in Client /\ handler[g].client = handler[h].client => h = g
  /\ \A c \in Client :
       grant[c].session # None => \E g \in Handler : handler[g].client = c

(* Its refresh token comes with the response to its code.                  *)
Issues ==
  \A c \in Client :
    /\ token[c].pc # "none" => grant[c].session # None
    /\ grant[c].refresh # "none" => token[c].pc = "done"
    /\ grant[c].before => grant[c].refresh # "none"

(* A grant made in time follows the session's digest.                      *)
Follows ==
  \A c \in Client :
    grant[c].session # None /\ ~grant[c].stray => grant[c].session = row.digest

GInv == DInv /\ Consents /\ Issues /\ Follows /\ RefreshGoesToo

LEMMA GotoFields ==
  ASSUME TypeOK, NEW h \in Handler, NEW pc, Goto(h, pc), NEW g \in Handler
  PROVE  /\ handler'[g].client = handler[g].client /\ handler'[g].kind = handler[g].kind
         /\ handler'[g].hit = handler[g].hit /\ handler'[g].kept = handler[g].kept
         /\ handler'[g].pc = IF g = h THEN pc ELSE handler[g].pc
  BY DEF TypeOK, Goto, Request

LEMMA RotateGrants ==
  ASSUME TypeOK, NEW h \in Handler, Rotate(h), NEW c \in Client
  PROVE  /\ grant'[c].session = None <=> grant[c].session = None
         /\ grant'[c].refresh = grant[c].refresh /\ grant'[c].before = grant[c].before
         /\ grant'[c].stray = grant[c].stray
         /\ grant[c].session = row.digest => grant'[c].session = row'.digest
<1>1. row \in Row /\ row.digest \in Nat /\ grant \in [Client -> Grant]
  BY DEF TypeOK, Row
<1>2. CASE Usable(handler[h].session, handler[h].now)
  <2>1. /\ row'.digest = row.digest + 1
        /\ grant'[c] = [grant[c] EXCEPT !.session = Moved(grant[c].session, row.digest + 1)]
    BY <1>1, <1>2 DEF Rotate, RotateRow, Row
  <2>2. /\ grant'[c].session = Moved(grant[c].session, row.digest + 1)
        /\ grant'[c].refresh = grant[c].refresh /\ grant'[c].before = grant[c].before
        /\ grant'[c].stray = grant[c].stray
    BY <1>1, <2>1 DEF Grant
  <2> QED BY <1>1, <2>1, <2>2, Lifetimes DEF Moved
<1>3. CASE ~Usable(handler[h].session, handler[h].now)
  BY <1>3 DEF Rotate
<1> QED BY <1>2, <1>3

LEMMA MakeGrantEffect ==
  ASSUME GInv, NEW h \in Handler, MakeGrant(h), NEW c \in Client
  PROVE  \/ grant'[c] = grant[c] /\ handler[h].client # c
         \/ /\ handler[h].client = c
            /\ grant[c].session = None /\ token[c].pc = "none"
            /\ grant[c].refresh = "none" /\ ~grant[c].before
            /\ grant'[c].session = handler[h].session /\ grant'[c].session # None
            /\ grant'[c].refresh = "none" /\ ~grant'[c].before
            /\ grant'[c].stray = (row.digest # handler[h].session)
<1>t. /\ grant \in [Client -> Grant] /\ token \in [Client -> Token]
      /\ handler[h].session \in Nat /\ handler[h].session # None
  BY Lifetimes DEF GInv, DInv, TypeOK, Request
<1>1. CASE handler[h].client = c
  <2>1. grant[c].session = None
    BY <1>1 DEF MakeGrant, GInv, Consents, Asking
  <2>2. token[c].pc = "none" /\ grant[c].refresh = "none" /\ ~grant[c].before
    BY <2>1 DEF GInv, Issues
  <2>3. /\ grant'[c].session = handler[h].session
        /\ grant'[c].stray = (row.digest # handler[h].session)
        /\ grant'[c].refresh = grant[c].refresh /\ grant'[c].before = grant[c].before
    BY <1>1, <1>t DEF MakeGrant, Grant
  <2> QED BY <1>1, <1>t, <2>1, <2>2, <2>3
<1>2. CASE handler[h].client # c
  BY <1>2, <1>t DEF MakeGrant
<1> QED BY <1>1, <1>2

LEMMA ConsentsStep == GInv /\ [Next]_vars => Consents'
<1> SUFFICES ASSUME GInv, [Next]_vars PROVE Consents'
  OBVIOUS
<1>t. TypeOK /\ handler \in [Handler -> Request] /\ grant \in [Client -> Grant]
  BY DEF GInv, DInv, TypeOK
<1>k. ASSUME \A g \in Handler :
               /\ handler'[g].client = handler[g].client
               /\ handler'[g].pc = "idle" => handler[g].pc = "idle"
               /\ handler'[g].pc \in Asking => handler[g].pc \in Asking,
             \A c \in Client : grant'[c].session = None <=> grant[c].session = None
      PROVE  Consents'
  BY <1>k DEF GInv, Consents
<1>g. ASSUME NEW h \in Handler, NEW pc, Goto(h, pc), pc # "idle",
             pc \in Asking => handler[h].pc \in Asking,
             \A c \in Client : grant'[c].session = None <=> grant[c].session = None
      PROVE  Consents'
  BY <1>g, <1>t, <1>k, GotoFields
<1>1. ASSUME NEW h \in Handler, NEW k, NEW pc, pc \notin Asking \union {"idle"},
             Arrive(h, k, None, pc)
      PROVE  Consents'
  <2>1. \A g \in Handler : /\ handler'[g].client = IF g = h THEN None ELSE handler[g].client
                           /\ handler'[g].pc = IF g = h THEN pc ELSE handler[g].pc
    BY <1>1, <1>t DEF Arrive, Request
  <2>2. handler[h].client = None /\ grant' = grant
    BY <1>1 DEF GInv, Consents, Arrive
  <2> QED BY <1>1, <1>k, <2>1, <2>2
<1>2. ASSUME NEW h \in Handler, NEW c \in Client, Consent(h, c) PROVE Consents'
  <2>1. \A g \in Handler : /\ handler'[g].client = IF g = h THEN c ELSE handler[g].client
                           /\ handler'[g].pc = IF g = h THEN "touch" ELSE handler[g].pc
    BY <1>2, <1>t DEF Consent, Arrive, Request
  <2>2. /\ handler[h].client = None /\ grant' = grant
        /\ \A g \in Handler : handler[g].client # c
    BY <1>2 DEF GInv, Consents, Consent, Arrive
  <2>3. grant[c].session = None
    BY <2>2 DEF GInv, Consents
  <2>4. \A g \in Handler :
          /\ handler'[g].pc = "idle" => handler'[g].client = None
          /\ handler'[g].pc \in Asking => /\ handler'[g].client \in Client
                                          /\ grant'[handler'[g].client].session = None
    BY <2>1, <2>2, <2>3 DEF GInv, Consents
  <2>5. \A e, g \in Handler :
          handler'[e].client \in Client /\ handler'[g].client = handler'[e].client => e = g
    BY <2>1, <2>2 DEF GInv, Consents
  <2>6. ASSUME NEW b \in Client, grant'[b].session # None
        PROVE  \E g \in Handler : handler'[g].client = b
    <3>1. PICK g \in Handler : handler[g].client = b
      BY <2>2, <2>6 DEF GInv, Consents
    <3>2. g # h
      BY <2>2, <3>1, Lifetimes
    <3> QED BY <2>1, <3>1, <3>2
  <2> QED BY <2>4, <2>5, <2>6 DEF Consents
<1>3. ASSUME NEW h \in Handler, StepUp(h) \/ Logout(h) \/ Close(h) PROVE Consents'
  BY <1>3, <1>1 DEF StepUp, Logout, Close, Asking
<1>4. ASSUME NEW h \in Handler, MakeGrant(h) PROVE Consents'
  <2>1. \A g \in Handler : /\ handler'[g].client = handler[g].client
                           /\ handler'[g].pc = IF g = h THEN "done" ELSE handler[g].pc
    BY <1>4, <1>t, GotoFields DEF MakeGrant
  <2>2. \A c \in Client : c # handler[h].client => grant'[c] = grant[c]
    BY <1>4, <1>t DEF MakeGrant
  <2>3. \A g \in Handler :
          /\ handler'[g].pc = "idle" => handler'[g].client = None
          /\ handler'[g].pc \in Asking => /\ handler'[g].client \in Client
                                          /\ grant'[handler'[g].client].session = None
    BY <2>1, <2>2 DEF GInv, Consents, Asking
  <2>4. \A c \in Client : grant'[c].session # None => \E g \in Handler : handler'[g].client = c
    BY <2>1, <2>2 DEF GInv, Consents
  <2>5. \A e, g \in Handler :
          handler'[e].client \in Client /\ handler'[g].client = handler'[e].client => e = g
    BY <2>1 DEF GInv, Consents
  <2> QED BY <2>3, <2>4, <2>5 DEF Consents
<1>5. ASSUME NEW h \in Handler, Rotate(h) PROVE Consents'
  BY <1>5, <1>g, <1>t, RotateGrants DEF Rotate, Asking
<1>6. ASSUME NEW h \in Handler,
             Touch(h) \/ Find(h) \/ RevokeFails(h) \/ Signal(h) \/ Lost(h)
      PROVE  Consents'
  BY <1>6, <1>g DEF Touch, Find, RevokeFails, Signal, Lost, Asking
<1>7. ASSUME NEW h \in Handler, RevokeRefreshTokens(h) PROVE Consents'
  <2>1. \A c \in Client : grant'[c].session = grant[c].session
    BY <1>7, <1>t DEF RevokeRefreshTokens, Grant
  <2> QED BY <1>7, <1>g, <2>1 DEF RevokeRefreshTokens, Asking
<1>8. ASSUME NEW h \in Handler, Revoke(h) \/ RefreshFails(h) \/ Participants(h) \/ Notify(h)
      PROVE  Consents'
  <2>1. \A g \in Handler :
               /\ handler'[g].client = handler[g].client
               /\ handler'[g].pc = "idle" => handler[g].pc = "idle"
               /\ handler'[g].pc \in Asking => handler[g].pc \in Asking
    <3>1. CASE Revoke(h) \/ RefreshFails(h) \/ Participants(h)
      BY <3>1, <1>t DEF Revoke, RefreshFails, Participants, AfterRevoke, Asking, Request
    <3>2. CASE Notify(h)
      BY <1>t, <3>2, NotifyEffect DEF Asking
    <3> QED BY <1>8, <3>1, <3>2
  <2>2. grant' = grant
    BY <1>8 DEF Revoke, RefreshFails, Participants, Notify
  <2> QED BY <1>k, <2>1, <2>2
<1>9. ASSUME NEW c \in Client, Issue(c) PROVE Consents'
  <2>1. \A b \in Client : grant'[b].session = grant[b].session
    BY <1>9, <1>t DEF Issue, Grant
  <2> QED BY <1>9, <1>k, <2>1 DEF Issue
<1>10. CASE UNCHANGED <<handler, grant>>
  BY <1>10, <1>k
<1> QED BY <1>2, <1>3, <1>4, <1>5, <1>6, <1>7, <1>8, <1>9, <1>10
     DEF Next, vars, Tick, Sweep, Redeem, Facts, Remember, TokenLost

LEMMA RefreshEffect ==
  ASSUME TypeOK, NEW h \in Handler, RevokeRefreshTokens(h), NEW c \in Client
  PROVE  /\ grant'[c].session = grant[c].session /\ grant'[c].stray = grant[c].stray
         /\ grant'[c].before = grant[c].before
         /\ grant'[c].refresh =
              IF grant[c].refresh = "live" /\ grant[c].session = handler[h].session
                THEN "revoked" ELSE grant[c].refresh
  BY DEF RevokeRefreshTokens, TypeOK, Grant

LEMMA IssueEffect ==
  ASSUME TypeOK, NEW b \in Client, Issue(b), NEW c \in Client
  PROVE  /\ grant'[c].session = grant[c].session /\ grant'[c].stray = grant[c].stray
         /\ grant'[c].refresh = IF c = b THEN "live" ELSE grant[c].refresh
         /\ grant'[c].before = IF c = b THEN row.status = "live" ELSE grant[c].before
         /\ token'[c].pc = IF c = b THEN "done" ELSE token[c].pc
<1>1. grant \in [Client -> Grant] /\ token \in [Client -> Token]
  BY DEF TypeOK
<1>2. CASE c = b
  BY <1>1, <1>2 DEF Issue, TokenGoto, Grant, Token
<1>3. CASE c # b
  BY <1>1, <1>3 DEF Issue, TokenGoto
<1> QED BY <1>2, <1>3

LEMMA IssuesStep == GInv /\ [Next]_vars => Issues'
<1> SUFFICES ASSUME GInv, [Next]_vars, NEW c \in Client
             PROVE  /\ token'[c].pc # "none" => grant'[c].session # None
                    /\ grant'[c].refresh # "none" => token'[c].pc = "done"
                    /\ grant'[c].before => grant'[c].refresh # "none"
  BY DEF Issues
<1>t. TypeOK /\ token \in [Client -> Token]
  BY DEF GInv, DInv, TypeOK
<1>i. /\ token[c].pc # "none" => grant[c].session # None
      /\ grant[c].refresh # "none" => token[c].pc = "done"
      /\ grant[c].before => grant[c].refresh # "none"
  BY DEF GInv, Issues
<1>1. ASSUME NEW b \in Client, Redeem(b) \/ Facts(b) \/ Remember(b) \/ TokenLost(b)
      PROVE  /\ grant' = grant
             /\ token'[c].pc # "none" => grant[c].session # None
             /\ token[c].pc = "done" => token'[c].pc = "done"
  <2>1. CASE b = c
    BY <1>1, <1>t, <1>i, <2>1 DEF Redeem, Facts, Remember, TokenLost, TokenGoto, Token
  <2>2. CASE b # c
    BY <1>1, <1>t, <1>i, <2>2 DEF Redeem, Facts, Remember, TokenLost, TokenGoto, Token
  <2> QED BY <2>1, <2>2
<1>2. CASE \E b \in Client : Redeem(b) \/ Facts(b) \/ Remember(b) \/ TokenLost(b)
  BY <1>1, <1>2, <1>i
<1>3. ASSUME NEW b \in Client, Issue(b)
      PROVE  /\ token'[c].pc # "none" => grant'[c].session # None
             /\ grant'[c].refresh # "none" => token'[c].pc = "done"
             /\ grant'[c].before => grant'[c].refresh # "none"
  <2>1. token[b].pc = "issue"
    BY <1>3 DEF Issue
  <2> QED BY <1>3, <1>t, <1>i, <2>1, IssueEffect
<1>4. ASSUME NEW h \in Handler, MakeGrant(h)
      PROVE  /\ token'[c].pc # "none" => grant'[c].session # None
             /\ grant'[c].refresh # "none" => token'[c].pc = "done"
             /\ grant'[c].before => grant'[c].refresh # "none"
  <2>1. token' = token
    BY <1>4 DEF MakeGrant
  <2> QED BY <1>4, <1>i, <2>1, MakeGrantEffect
<1>5. ASSUME NEW h \in Handler, Rotate(h)
      PROVE  /\ token'[c].pc # "none" => grant'[c].session # None
             /\ grant'[c].refresh # "none" => token'[c].pc = "done"
             /\ grant'[c].before => grant'[c].refresh # "none"
  <2>1. token' = token
    BY <1>5 DEF Rotate
  <2> QED BY <1>5, <1>t, <1>i, <2>1, RotateGrants
<1>6. ASSUME NEW h \in Handler, RevokeRefreshTokens(h)
      PROVE  /\ token'[c].pc # "none" => grant'[c].session # None
             /\ grant'[c].refresh # "none" => token'[c].pc = "done"
             /\ grant'[c].before => grant'[c].refresh # "none"
  <2>1. token' = token
    BY <1>6 DEF RevokeRefreshTokens
  <2> QED BY <1>6, <1>t, <1>i, <2>1, RefreshEffect
<1>7. CASE UNCHANGED <<token, grant>>
  BY <1>7, <1>i
<1> QED BY ZenonT(60), <1>2, <1>3, <1>4, <1>5, <1>6, <1>7
     DEF Next, vars, Tick, Sweep, Consent, StepUp, Logout, Close, Arrive, Touch, Find,
         Revoke, RevokeFails, RefreshFails, Participants, Notify, Signal, Lost

LEMMA FollowsStep == GInv /\ [Next]_vars => Follows'
<1> SUFFICES ASSUME GInv, [Next]_vars, NEW c \in Client,
                    grant'[c].session # None, ~grant'[c].stray
             PROVE  grant'[c].session = row'.digest
  BY DEF Follows
<1>t. TypeOK /\ row \in Row
  BY DEF GInv, DInv, TypeOK
<1>i. grant[c].session # None /\ ~grant[c].stray => grant[c].session = row.digest
  BY DEF GInv, Follows
<1>1. ASSUME NEW h \in Handler, Rotate(h) PROVE grant'[c].session = row'.digest
  BY <1>1, <1>t, <1>i, RotateGrants
<1>2. ASSUME NEW h \in Handler, MakeGrant(h) PROVE grant'[c].session = row'.digest
  <2>1. row' = row
    BY <1>2 DEF MakeGrant
  <2> QED BY <1>2, <1>i, <2>1, MakeGrantEffect
<1>3. ASSUME NEW h \in Handler, RevokeRefreshTokens(h) PROVE grant'[c].session = row'.digest
  <2>1. row' = row
    BY <1>3 DEF RevokeRefreshTokens
  <2> QED BY <1>3, <1>t, <1>i, <2>1, RefreshEffect
<1>4. ASSUME NEW b \in Client, Issue(b) PROVE grant'[c].session = row'.digest
  <2>1. row' = row
    BY <1>4 DEF Issue
  <2> QED BY <1>4, <1>t, <1>i, <2>1, IssueEffect
<1>5. CASE Sweep \/ \E h \in Handler : Touch(h) \/ Revoke(h)
  <2>1. row'.digest = row.digest
    BY <1>5, <1>t DEF Sweep, Touch, Revoke, Revocation, Row
  <2>2. grant' = grant
    BY <1>5 DEF Sweep, Touch, Revoke
  <2> QED BY <1>i, <2>1, <2>2
<1>6. CASE UNCHANGED <<row, grant>>
  BY <1>6, <1>i
<1> QED BY ZenonT(60), <1>1, <1>2, <1>3, <1>4, <1>5, <1>6
     DEF Next, vars, Tick, Consent, StepUp, Logout, Close, Arrive, Find, RevokeFails,
         RefreshFails, Participants, Notify, Signal, Lost, Redeem, Facts, Remember, TokenLost

LEMMA RefreshStep == GInv /\ [Next]_vars => RefreshGoesToo'
<1> SUFFICES ASSUME GInv, [Next]_vars, NEW g \in Handler, NEW c \in Client,
                    RevokeRefresh, handler'[g].kind = "logout", handler'[g].hit,
                    ~handler'[g].kept, handler'[g].pc \in Past, grant'[c].before, ~grant'[c].stray
             PROVE  grant'[c].refresh = "revoked"
  BY DEF RefreshGoesToo, Past
<1>t. TypeOK /\ handler \in [Handler -> Request]
  BY DEF GInv, DInv, TypeOK
<1>i. /\ handler[g].kind = "logout" /\ handler[g].hit /\ ~handler[g].kept
      /\ handler[g].pc \in Past
      /\ grant[c].before /\ ~grant[c].stray
      => grant[c].refresh = "revoked"
  BY DEF GInv, RefreshGoesToo, Past
<1>h. handler[g].hit => handler[g].session = row.digest /\ row.status # "live"
  BY DEF GInv, DInv, Hits
<1>k. ASSUME NEW h \in Handler, NEW pc, Goto(h, pc), pc \in Past => handler[h].pc \in Past
      PROVE  handler[g].kind = "logout" /\ handler[g].hit /\ ~handler[g].kept /\ handler[g].pc \in Past
  BY <1>k, <1>t, GotoFields
<1>1. ASSUME NEW h \in Handler, MakeGrant(h) PROVE grant'[c].refresh = "revoked"
  <2>1. handler[g].kind = "logout" /\ handler[g].hit /\ ~handler[g].kept /\ handler[g].pc \in Past
    BY <1>1, <1>k DEF MakeGrant, Past
  <2> QED BY <1>1, <1>i, <2>1, MakeGrantEffect
<1>2. ASSUME NEW h \in Handler, Rotate(h) PROVE grant'[c].refresh = "revoked"
  <2>1. handler[g].kind = "logout" /\ handler[g].hit /\ ~handler[g].kept /\ handler[g].pc \in Past
    BY <1>2, <1>k DEF Rotate, Past
  <2> QED BY <1>2, <1>t, <1>i, <2>1, RotateGrants
<1>3. ASSUME NEW h \in Handler, RevokeRefreshTokens(h) PROVE grant'[c].refresh = "revoked"
  <2>1. /\ handler[g].kind = "logout" /\ handler[g].hit /\ ~handler[g].kept
        /\ handler[g].pc \in Past \/ (g = h /\ handler[g].pc = "refresh")
    BY <1>3, <1>t, GotoFields DEF RevokeRefreshTokens
  <2>2. /\ grant[c].before /\ ~grant[c].stray /\ grant'[c].session = grant[c].session
        /\ grant'[c].refresh =
              IF grant[c].refresh = "live" /\ grant[c].session = handler[h].session
                THEN "revoked" ELSE grant[c].refresh
    BY <1>3, <1>t, RefreshEffect
  <2>3. CASE handler[g].pc \in Past
    BY <1>i, <2>1, <2>2, <2>3
  <2>4. CASE g = h
    <3>1. grant[c].refresh \in {"live", "revoked"}
      BY <1>t, <2>2 DEF GInv, Issues, TypeOK, Grant
    <3>2. grant[c].session # None
      BY <1>t, <3>1 DEF GInv, Issues
    <3>3. grant[c].session = handler[h].session
      BY <1>h, <2>1, <2>2, <2>4, <3>2 DEF GInv, Follows
    <3> QED BY <2>2, <3>1, <3>3
  <2> QED BY <2>1, <2>3, <2>4
<1>4. ASSUME NEW b \in Client, Issue(b) PROVE grant'[c].refresh = "revoked"
  <2>1. handler' = handler
    BY <1>4 DEF Issue
  <2> QED BY <1>4, <1>t, <1>i, <1>h, <2>1, IssueEffect
<1>5. ASSUME NEW h \in Handler,
             Touch(h) \/ Find(h) \/ RevokeFails(h) \/ Signal(h) \/ Lost(h)
      PROVE  grant'[c].refresh = "revoked"
  <2>1. grant' = grant
    BY <1>5 DEF Touch, Find, RevokeFails, Signal, Lost
  <2>2. handler[g].kind = "logout" /\ handler[g].hit /\ ~handler[g].kept /\ handler[g].pc \in Past
    BY <1>5, <1>k DEF Touch, Find, RevokeFails, Signal, Lost, Past
  <2> QED BY <1>i, <2>1, <2>2
<1>6. ASSUME NEW h \in Handler,
             \/ \E b \in Client : Consent(h, b)
             \/ StepUp(h) \/ Logout(h) \/ Close(h)
      PROVE  grant'[c].refresh = "revoked"
  <2>1. PICK k, b, pc : pc \notin Past /\ Arrive(h, k, b, pc)
    BY <1>6 DEF Consent, StepUp, Logout, Close, Past
  <2>2. handler'[g] = handler[g]
    BY <1>t, <2>1 DEF Arrive, Request
  <2>3. grant' = grant
    BY <2>1 DEF Arrive
  <2> QED BY <1>i, <2>2, <2>3
<1>7. ASSUME NEW h \in Handler, Revoke(h) PROVE grant'[c].refresh = "revoked"
  <2>1. /\ g # h => handler'[g] = handler[g]
        /\ g = h => handler'[g].kind = handler[g].kind /\ handler'[g].pc = AfterRevoke(g)
    BY <1>7, <1>t DEF Revoke, Request
  <2>2. g # h
    BY <2>1 DEF AfterRevoke, Past
  <2>3. grant' = grant
    BY <1>7 DEF Revoke
  <2> QED BY <1>i, <2>1, <2>2, <2>3
<1>8. ASSUME NEW h \in Handler, Participants(h) \/ Notify(h)
      PROVE  grant'[c].refresh = "revoked"
  <2>1. /\ handler'[g].kind = handler[g].kind /\ handler'[g].hit = handler[g].hit
        /\ handler'[g].kept = handler[g].kept
        /\ handler'[g].pc \in Past => handler[g].pc \in Past
    <3>1. CASE Participants(h)
      <4>1. PICK l : handler' = [handler EXCEPT ![h].pc = "notify", ![h].list = l]
        BY <3>1 DEF Participants
      <4>2. handler[h].pc = "participants"
        BY <3>1 DEF Participants
      <4> QED BY <1>t, <4>1, <4>2 DEF Past, Request
    <3>2. CASE Notify(h)
      BY <1>t, <3>2, NotifyEffect DEF Past
    <3> QED BY <1>8, <3>1, <3>2
  <2>2. grant' = grant
    BY <1>8 DEF Participants, Notify
  <2> QED BY <1>i, <2>1, <2>2
<1>9. ASSUME NEW h \in Handler, RefreshFails(h) PROVE grant'[c].refresh = "revoked"
  <2>1. g # h /\ handler'[g] = handler[g] /\ grant' = grant
    BY <1>9, <1>t DEF RefreshFails, Request
  <2> QED BY <1>i, <2>1
<1>10. CASE UNCHANGED <<handler, grant>>
  BY <1>10, <1>i
<1> QED BY <1>1, <1>2, <1>3, <1>4, <1>5, <1>6, <1>7, <1>8, <1>9, <1>10
     DEF Next, vars, Tick, Sweep, Redeem, Facts, Remember, TokenLost

(* With revoke_refresh_on_logout, a logout whose revocation matched the    *)
(* row leaves no refresh token of the session's own grants alive, through  *)
(* every rotation.                                                         *)
THEOREM LogoutTakesRefresh == Spec => []RefreshGoesToo
<1>1. Init => GInv
  <2> SUFFICES ASSUME Init PROVE GInv
    OBVIOUS
  <2>1. \A h \in Handler : /\ handler[h].pc = "idle" /\ handler[h].client = None
                           /\ handler[h].kind = None /\ ~handler[h].hit
    BY DEF Init
  <2>2. \A c \in Client : /\ grant[c].session = None /\ grant[c].refresh = "none"
                          /\ ~grant[c].before /\ token[c].pc = "none"
    BY DEF Init
  <2>3. Consents
    BY <2>1, <2>2, Lifetimes DEF Consents, Asking
  <2>4. Issues /\ Follows /\ RefreshGoesToo
    BY <2>1, <2>2 DEF Issues, Follows, RefreshGoesToo
  <2> QED BY <2>3, <2>4, DInit DEF GInv
<1>2. GInv /\ [Next]_vars => GInv'
  BY DStep, ConsentsStep, IssuesStep, FollowsStep, RefreshStep DEF GInv
<1>3. GInv => RefreshGoesToo
  BY DEF GInv
<1> QED BY <1>1, <1>2, <1>3, PTL DEF Spec
=============================================================================
