---------------------------- MODULE TokensProofs ----------------------------
(* Theorems about the credentials of an authorization, for any number of   *)
(* token requests and amendments, any scopes and any lifetimes.            *)
EXTENDS Tokens, TLAPS

(* The request has been accepted for its credential: what it presented has *)
(* been redeemed, and an access token may follow or has followed.          *)
Paid(r) == req[r].pc \in {"find", "claim", "sign", "keep"} \/ r \in signed

(* The access token of request r, signed already or not, is dead.          *)
Covered(r) == grant.revoked \/ req[r].at <= cutoff.before \/ ~Unexpired(r)

(* A request that is still to sign holds a copy of the grant that is no    *)
(* newer than the grant, and an exact one while the revision is the same.  *)
Fence ==
  \A r \in Requests : req[r].pc \in {"claim", "sign"} =>
    /\ req[r].rev <= grant.rev
    /\ req[r].kind = "code" /\ req[r].rev = grant.rev => req[r].scopes = grant.scopes

(* Credentials come from a grant that was claimed first.                   *)
Custody ==
  /\ signed # {} => grant.there /\ grant.claimed
  /\ \A r \in Requests : req[r].pc = "keep" \/ row[r].there => r \in signed
  /\ \A r \in signed : req[r].pc \in {"keep", "done"}

(* A code has at most one accepted redemption, and is spent by it.         *)
SpentOnce ==
  /\ \A a \in Authorizations : auth[a].pc # "done" => code[a].status = "none"
  /\ \A r \in Requests : req[r].kind = "code" /\ Paid(r) =>
       code[req[r].cred].status \in {"spent", "gone"}
  /\ \A r, s \in Requests :
       req[r].kind = "code" /\ Paid(r) /\ req[s].kind = "code" /\ Paid(s)
         => (req[r].cred = req[s].cred => r = s)

(* A refresh request presents the row of a finished request, and what it   *)
(* asks for stays within that row.                                         *)
Lineage ==
  \A r \in Requests :
    /\ row[r].there => req[r].pc = "done"
    /\ row[r].from # r => req[r].pc = "done" /\ req[row[r].from].pc = "done"
    /\ req[r].kind = "refresh" => req[req[r].cred].pc = "done"
    /\ req[r].kind = "refresh" /\ req[r].pc \in {"claim", "sign", "keep"} =>
         req[r].scopes \subseteq row[req[r].cred].scopes

(* A cutoff row outlives every access token it refuses.                    *)
MarkLasts == cutoff.before # Null => cutoff.before + MaxTokenLife <= cutoff.exp

(* Requests arrived in the past, and a replay's second statement comes     *)
(* after its first.                                                        *)
Timely ==
  \A r \in Requests :
    /\ req[r].at <= clock
    /\ req[r].pc = "cascade" => grant.revoked \/ ~grant.there

(* What a revoked refresh token paid for is dead, or overtook the          *)
(* revocation.                                                             *)
RevokedCovered ==
  \A r \in Requests :
    req[r].kind = "refresh" /\ Paid(r) /\ row[req[r].cred].revoked
      => Covered(r) \/ Overtook(req[r].at, row[req[r].cred].since)

(* An amendment took a scope of request r away and r overtook it.          *)
Outran(r) ==
  \E a \in Amendments : /\ ~(req[r].scopes \subseteq auth[a].scopes)
                        /\ Overtook(req[r].at, auth[a].at)

(* What a code paid for with a scope the grant has lost since is dead, or  *)
(* overtook the amendment.  The authorization that created the grant       *)
(* amends nothing.                                                         *)
NarrowedCovered ==
  /\ auth[First].pc = "done"
  /\ \A r \in signed :
       req[r].kind = "code" => req[r].scopes \subseteq grant.scopes \/ Covered(r) \/ Outran(r)

-----------------------------------------------------------------------------
(* How an action changes the tables.                                       *)

LEMMA Lives ==
  /\ CodeLife \in Nat /\ CodeGrace \in Nat /\ TokenLife \in Nat
  /\ MaxTokenLife \in Nat /\ AbsLife \in Nat /\ IdleLife \in Nat
  /\ TokenLife <= MaxTokenLife
BY LivesAssumption

PCs == {"idle", "redeem", "replay", "cascade", "find", "claim", "sign", "keep", "done"}

(* A step of request r moves its pc and nothing else.                      *)
LEMMA StepEffect ==
  ASSUME TypeOK, NEW r \in Requests, NEW pc \in PCs, Step(r, pc)
  PROVE  /\ req' \in [Requests -> Req]
         /\ \A s \in Requests :
              /\ req'[s].pc = IF s = r THEN pc ELSE req[s].pc
              /\ req'[s].at = req[s].at /\ req'[s].kind = req[s].kind
              /\ req'[s].cred = req[s].cred /\ req'[s].scopes = req[s].scopes
              /\ req'[s].rev = req[s].rev
<1>1. req \in [Requests -> Req]
  BY DEF TypeOK
<1>2. req' = [req EXCEPT ![r] = [req[r] EXCEPT !.pc = pc]]
  BY DEF Step
<1>3. [req[r] EXCEPT !.pc = pc] \in Req
  BY <1>1 DEF Req, PCs
<1>4. req' \in [Requests -> Req]
  BY <1>1, <1>2, <1>3
<1>5. ASSUME NEW s \in Requests
      PROVE  /\ req'[s].pc = IF s = r THEN pc ELSE req[s].pc
             /\ req'[s].at = req[s].at /\ req'[s].kind = req[s].kind
             /\ req'[s].cred = req[s].cred /\ req'[s].scopes = req[s].scopes
             /\ req'[s].rev = req[s].rev
  BY <1>1, <1>2 DEF Req
<1> QED BY <1>4, <1>5

(* The arrival of request r fixes its instant and its credential.          *)
LEMMA BeginEffect ==
  ASSUME TypeOK, NEW r \in Requests, NEW kind \in {"code", "refresh"},
         NEW cred \in Authorizations \union Requests, Begin(r, kind, cred)
  PROVE  /\ req' \in [Requests -> Req]
         /\ req[r].pc = "idle"
         /\ req'[r].pc = "redeem" /\ req'[r].at = clock
         /\ req'[r].kind = kind /\ req'[r].cred = cred
         /\ \A s \in Requests \ {r} : req'[s] = req[s]
<1>1. req \in [Requests -> Req] /\ req[r] \in Req /\ clock \in Instant
  BY DEF TypeOK, Instant
<1>2. req' = [req EXCEPT ![r] = [req[r] EXCEPT !.pc = "redeem", !.at = clock,
                                               !.kind = kind, !.cred = cred]]
  BY <1>1 DEF Begin, Req
<1>3. [req[r] EXCEPT !.pc = "redeem", !.at = clock, !.kind = kind, !.cred = cred] \in Req
  BY <1>1 DEF Req
<1>4. req' \in [Requests -> Req]
  BY <1>1, <1>2, <1>3
<1>5. req'[r] = [req[r] EXCEPT !.pc = "redeem", !.at = clock, !.kind = kind, !.cred = cred]
  BY <1>1, <1>2
<1>6. /\ req'[r].pc = "redeem" /\ req'[r].at = clock
      /\ req'[r].kind = kind /\ req'[r].cred = cred
  BY <1>1, <1>5 DEF Req
<1> QED BY <1>1, <1>2, <1>4, <1>6 DEF Begin

(* Reading the grant gives request r its copy of scopes and revision.      *)
LEMMA FindEffect ==
  ASSUME TypeOK, NEW r \in Requests, NEW asked \in ScopeSets, FindGrant(r, asked)
  PROVE  /\ req' \in [Requests -> Req]
         /\ req[r].pc = "find" /\ req'[r].pc = "claim"
         /\ req'[r].scopes = asked /\ req'[r].rev = grant.rev
         /\ req'[r].at = req[r].at /\ req'[r].kind = req[r].kind
         /\ req'[r].cred = req[r].cred
         /\ \A s \in Requests \ {r} : req'[s] = req[s]
<1>1. req \in [Requests -> Req] /\ req[r] \in Req /\ grant.rev \in Nat
  BY DEF TypeOK, Grant
<1>2. req' = [req EXCEPT ![r] = [req[r] EXCEPT !.pc = "claim", !.scopes = asked,
                                               !.rev = grant.rev]]
  BY <1>1 DEF FindGrant, Req
<1>3. [req[r] EXCEPT !.pc = "claim", !.scopes = asked, !.rev = grant.rev] \in Req
  BY <1>1 DEF Req
<1>4. req' \in [Requests -> Req]
  BY <1>1, <1>2, <1>3
<1>5. req'[r] = [req[r] EXCEPT !.pc = "claim", !.scopes = asked, !.rev = grant.rev]
  BY <1>1, <1>2
<1>6. /\ req'[r].pc = "claim" /\ req'[r].scopes = asked /\ req'[r].rev = grant.rev
      /\ req'[r].at = req[r].at /\ req'[r].kind = req[r].kind
      /\ req'[r].cred = req[r].cred
  BY <1>1, <1>5 DEF Req
<1> QED BY <1>1, <1>2, <1>4, <1>6 DEF FindGrant

(* A revocation stamps a row that has no stamp yet.                        *)
LEMMA RevokedRowEffect ==
  ASSUME TypeOK, NEW p \in Requests, NEW at \in Nat
  PROVE  /\ RevokedRow(p, at) \in Row
         /\ RevokedRow(p, at).revoked
         /\ RevokedRow(p, at).since = IF row[p].revoked THEN row[p].since ELSE at
         /\ RevokedRow(p, at).there = row[p].there
         /\ RevokedRow(p, at).from = row[p].from
         /\ RevokedRow(p, at).scopes = row[p].scopes
         /\ RevokedRow(p, at).abs = row[p].abs /\ RevokedRow(p, at).idle = row[p].idle
<1> DEFINE stamp == IF row[p].revoked THEN row[p].since ELSE at
<1>1. row[p] \in Row
  BY DEF TypeOK
<1>2. stamp \in Instant \union {Null}
  BY <1>1 DEF Row, Instant
<1>3. RevokedRow(p, at) = [row[p] EXCEPT !.revoked = TRUE, !.since = stamp]
  BY DEF RevokedRow
<1> HIDE DEF stamp
<1>4. /\ RevokedRow(p, at) \in Row
      /\ RevokedRow(p, at).revoked = TRUE /\ RevokedRow(p, at).since = stamp
      /\ RevokedRow(p, at).there = row[p].there
      /\ RevokedRow(p, at).from = row[p].from
      /\ RevokedRow(p, at).scopes = row[p].scopes
      /\ RevokedRow(p, at).abs = row[p].abs /\ RevokedRow(p, at).idle = row[p].idle
  BY <1>1, <1>2, <1>3 DEF Row
<1> QED BY <1>4 DEF stamp

(* A revocation of the grant's refresh tokens stamps the rows there are.   *)
LEMMA RevokedRowsEffect ==
  ASSUME TypeOK, NEW at \in Nat
  PROVE  /\ RevokedRows(at) \in [Requests -> Row]
         /\ \A p \in Requests :
              /\ RevokedRows(at)[p].revoked <=> (row[p].revoked \/ row[p].there)
              /\ row[p].revoked => RevokedRows(at)[p].since = row[p].since
              /\ ~row[p].revoked /\ row[p].there => RevokedRows(at)[p].since = at
              /\ RevokedRows(at)[p].there = row[p].there
              /\ RevokedRows(at)[p].from = row[p].from
              /\ RevokedRows(at)[p].scopes = row[p].scopes
              /\ RevokedRows(at)[p].abs = row[p].abs
              /\ RevokedRows(at)[p].idle = row[p].idle
<1>1. row \in [Requests -> Row]
  BY DEF TypeOK
<1>2. RevokedRows(at) \in [Requests -> Row]
  BY <1>1, RevokedRowEffect DEF RevokedRows
<1>3. \A p \in Requests :
        RevokedRows(at)[p] = IF row[p].there THEN RevokedRow(p, at) ELSE row[p]
  BY DEF RevokedRows
<1> QED BY <1>2, <1>3, RevokedRowEffect

(* A withdrawal only moves the mark forwards, to its own instant at least, *)
(* and keeps the row a token lifetime beyond it.                           *)
LEMMA WithdrawEffect ==
  ASSUME TypeOK, NEW at \in Nat, Withdraw(at)
  PROVE  /\ cutoff' \in Cutoff
         /\ cutoff'.before \in Nat
         /\ cutoff.before <= cutoff'.before /\ at <= cutoff'.before
         /\ MarkLasts => MarkLasts'
<1>1. cutoff \in Cutoff /\ cutoff.before \in Nat \union {-1} /\ cutoff.exp \in Nat
  BY DEF TypeOK, Cutoff, Instant, Null
<1>2. /\ cutoff'.before = Larger(cutoff.before, at)
      /\ cutoff'.exp = Larger(cutoff.exp, at + MaxTokenLife)
  BY DEF Withdraw
<1>3. Larger(cutoff.before, at) \in Nat /\ Larger(cutoff.exp, at + MaxTokenLife) \in Nat
  BY <1>1, Lives DEF Larger
<1>4. cutoff' \in Cutoff
  BY <1>3 DEF Withdraw, Cutoff, Instant
<1>5. cutoff.before <= cutoff'.before /\ at <= cutoff'.before
  BY <1>1, <1>2 DEF Larger
<1>6. MarkLasts => MarkLasts'
  BY <1>1, <1>2, Lives DEF Larger, MarkLasts, Null
<1> QED BY <1>2, <1>3, <1>4, <1>5, <1>6

(* One column of a refresh row is written.                                 *)
LEMMA RowFlag ==
  ASSUME NEW x \in Row
  PROVE  /\ [x EXCEPT !.there = FALSE] \in Row
         /\ [x EXCEPT !.there = FALSE].idle = x.idle
         /\ [x EXCEPT !.there = FALSE].abs = x.abs
BY DEF Row

LEMMA RowIdle ==
  ASSUME NEW x \in Row, NEW i \in Nat
  PROVE  /\ [x EXCEPT !.idle = i] \in Row
         /\ [x EXCEPT !.idle = i].idle = i
         /\ [x EXCEPT !.idle = i].abs = x.abs
BY DEF Row, Instant

LEMMA NewRowEffect ==
  ASSUME TypeOK, NEW r \in Requests, NEW from \in Requests, NEW abs \in Nat
  PROVE  /\ NewRow(r, from, abs) \in Row
         /\ NewRow(r, from, abs).idle <= NewRow(r, from, abs).abs
<1>1. req[r].at \in Nat /\ req[r].scopes \in ScopeSets
  BY DEF TypeOK, Req, Instant
<1>2. IdleDeadline(req[r].at, abs) \in Nat /\ IdleDeadline(req[r].at, abs) <= abs
  BY <1>1, Lives DEF IdleDeadline, Smaller
<1> QED BY <1>1, <1>2 DEF NewRow, Row, Instant

-----------------------------------------------------------------------------
(* Types.                                                                  *)

(* What TypeOK says of the credentials presented survives a step of r.     *)
LEMMA StepCredentials ==
  ASSUME TypeOK, NEW r \in Requests, NEW pc \in PCs, Step(r, pc)
  PROVE  \A s \in Requests :
           req'[s].cred \in IF req'[s].kind = "code" THEN Authorizations ELSE Requests
BY StepEffect DEF TypeOK

LEMMA TypeStep == TypeOK /\ [Next]_vars => TypeOK'
<1> SUFFICES ASSUME TypeOK, [Next]_vars PROVE TypeOK'
  OBVIOUS
<1>0. /\ clock \in Nat /\ grant \in Grant /\ cutoff \in Cutoff /\ deny \subseteq signed
      /\ code \in [Authorizations -> Code] /\ row \in [Requests -> Row]
      /\ auth \in [Authorizations -> Auth] /\ req \in [Requests -> Req]
      /\ signed \subseteq Requests
      /\ \A r \in Requests :
           /\ req[r].cred \in IF req[r].kind = "code" THEN Authorizations ELSE Requests
           /\ row[r].idle <= row[r].abs
  BY DEF TypeOK
<1>1. CASE Tick
  BY <1>0, <1>1 DEF Tick, TypeOK
<1>2. ASSUME NEW r \in Requests, NEW a \in Authorizations, BeginCode(r, a) PROVE TypeOK'
  <2>1. Begin(r, "code", a)
    BY <1>2 DEF BeginCode
  <2>2. \A s \in Requests :
          req'[s].cred \in IF req'[s].kind = "code" THEN Authorizations ELSE Requests
    BY <1>0, <2>1, BeginEffect
  <2> QED BY <1>0, <2>1, <2>2, BeginEffect DEF Begin, TypeOK
<1>3. ASSUME NEW r \in Requests, NEW p \in Requests, BeginRefresh(r, p) PROVE TypeOK'
  <2>1. Begin(r, "refresh", p)
    BY <1>3 DEF BeginRefresh
  <2>2. \A s \in Requests :
          req'[s].cred \in IF req'[s].kind = "code" THEN Authorizations ELSE Requests
    BY <1>0, <2>1, BeginEffect
  <2> QED BY <1>0, <2>1, <2>2, BeginEffect DEF Begin, TypeOK
<1>4. ASSUME NEW r \in Requests, Stop(r) PROVE TypeOK'
  <2>1. Step(r, "done") /\ "done" \in PCs
    BY <1>4 DEF Stop, PCs
  <2> QED BY <1>0, <1>4, <2>1, StepEffect, StepCredentials DEF Stop, TypeOK
<1>5. ASSUME NEW r \in Requests, RedeemCode(r) PROVE TypeOK'
  <2>1. req[r].cred \in Authorizations
    BY <1>0, <1>5 DEF RedeemCode
  <2>2. PICK pc \in PCs : Step(r, pc)
    BY <1>5 DEF RedeemCode, PCs
  <2>3. [code[req[r].cred] EXCEPT !.status = "spent"] \in Code
    BY <1>0, <2>1 DEF Code
  <2>4. code' \in [Authorizations -> Code]
    BY <1>0, <1>5, <2>1, <2>3 DEF RedeemCode
  <2> QED BY <1>0, <1>5, <2>2, <2>4, StepEffect, StepCredentials DEF RedeemCode, TypeOK
<1>6. ASSUME NEW r \in Requests, ReplayGrant(r) PROVE TypeOK'
  <2>1. Step(r, "cascade") /\ "cascade" \in PCs
    BY <1>6 DEF ReplayGrant, PCs
  <2>2. (grant.revoked \/ grant.there) \in BOOLEAN
    OBVIOUS
  <2>3. grant' \in Grant
    BY <1>0, <1>6, <2>2 DEF ReplayGrant, Grant
  <2> QED BY <1>0, <1>6, <2>1, <2>3, StepEffect, StepCredentials DEF ReplayGrant, TypeOK
<1>7. ASSUME NEW r \in Requests, ReplayCascade(r) PROVE TypeOK'
  <2>1. Step(r, "done") /\ "done" \in PCs
    BY <1>7 DEF ReplayCascade, PCs
  <2>2. req[r].at \in Nat /\ row' = RevokedRows(req[r].at)
    BY <1>0, <1>7 DEF ReplayCascade, Req, Instant
  <2>3. row' \in [Requests -> Row] /\ \A p \in Requests : row'[p].idle <= row'[p].abs
    BY <1>0, <2>2, RevokedRowsEffect
  <2> QED BY <1>0, <1>7, <2>1, <2>3, StepEffect, StepCredentials DEF ReplayCascade, TypeOK
<1>8. ASSUME NEW r \in Requests, Present(r) PROVE TypeOK'
  <2> DEFINE p == req[r].cred
  <2>1. p \in Requests /\ req[r].at \in Nat /\ row[p].abs \in Nat
    BY <1>0, <1>8 DEF Present, Req, Row, Instant
  <2>2. PICK pc \in PCs : Step(r, pc)
    BY <1>8 DEF Present, PCs
  <2>3. IdleDeadline(req[r].at, row[p].abs) \in Nat
        /\ IdleDeadline(req[r].at, row[p].abs) <= row[p].abs
    BY <2>1, Lives DEF IdleDeadline, Smaller
  <2>4. CASE row' = [row EXCEPT ![p].idle = IdleDeadline(req[r].at, row[p].abs)]
    <3> DEFINE new == [row[p] EXCEPT !.idle = IdleDeadline(req[r].at, row[p].abs)]
    <3>1. new \in Row /\ new.idle <= new.abs
      BY <1>0, <2>1, <2>3, RowIdle
    <3>2. row' = [row EXCEPT ![p] = new]
      BY <2>4
    <3> HIDE DEF new
    <3>3. row' \in [Requests -> Row] /\ \A q \in Requests : row'[q].idle <= row'[q].abs
      BY <1>0, <2>1, <3>1, <3>2
    <3> QED BY <1>0, <1>8, <2>2, <3>3, StepEffect, StepCredentials DEF Present, TypeOK
  <2>5. CASE UNCHANGED row
    BY <1>0, <1>8, <2>2, <2>5, StepEffect, StepCredentials DEF Present, TypeOK
  <2> QED BY <1>8, <2>4, <2>5 DEF Present
<1>9. ASSUME NEW r \in Requests, NEW asked \in ScopeSets, FindGrant(r, asked) PROVE TypeOK'
  <2>1. \A s \in Requests :
          req'[s].cred \in IF req'[s].kind = "code" THEN Authorizations ELSE Requests
    BY <1>0, <1>9, FindEffect
  <2> QED BY <1>0, <1>9, <2>1, FindEffect DEF FindGrant, TypeOK
<1>10. ASSUME NEW r \in Requests, ClaimGrant(r) PROVE TypeOK'
  <2>1. Step(r, "sign") /\ "sign" \in PCs
    BY <1>10 DEF ClaimGrant, PCs
  <2>2. grant' \in Grant
    BY <1>0, <1>10 DEF ClaimGrant, Grant
  <2> QED BY <1>0, <1>10, <2>1, <2>2, StepEffect, StepCredentials DEF ClaimGrant, TypeOK
<1>11. ASSUME NEW r \in Requests, Sign(r) PROVE TypeOK'
  <2>1. PICK pc \in PCs : Step(r, pc)
    BY <1>11 DEF Sign, PCs
  <2> QED BY <1>0, <1>11, <2>1, StepEffect, StepCredentials DEF Sign, TypeOK
<1>12. ASSUME NEW r \in Requests, IssueRefresh(r) PROVE TypeOK'
  <2>1. Step(r, "done") /\ "done" \in PCs
    BY <1>12 DEF IssueRefresh, PCs
  <2> DEFINE new == NewRow(r, r, req[r].at + AbsLife)
  <2>2. req[r].at + AbsLife \in Nat
    BY <1>0, Lives DEF Req, Instant
  <2>3. new \in Row /\ new.idle <= new.abs /\ row' = [row EXCEPT ![r] = new]
    BY <1>12, <2>2, NewRowEffect DEF IssueRefresh
  <2> HIDE DEF new
  <2>4. row' \in [Requests -> Row] /\ \A q \in Requests : row'[q].idle <= row'[q].abs
    BY <1>0, <2>3
  <2> QED BY <1>0, <1>12, <2>1, <2>4, StepEffect, StepCredentials DEF IssueRefresh, TypeOK
<1>13. ASSUME NEW r \in Requests, Supersede(r) PROVE TypeOK'
  <2>1. Step(r, "done") /\ "done" \in PCs
    BY <1>13 DEF Supersede, PCs
  <2> DEFINE p == req[r].cred
             new == Replacement(r)
             stamped == IF row[p].superseded = Null THEN req[r].at ELSE row[p].superseded
             mid == [row EXCEPT ![r] = new]
             old == [mid[p] EXCEPT !.superseded = stamped]
  <2>2. p \in Requests /\ row[p].abs \in Nat /\ req[r].at \in Nat
        /\ row[p].superseded \in Nat \union {Null}
    BY <1>0, <1>13 DEF Supersede, Req, Row, Instant
  <2>3. new \in Row /\ new.idle <= new.abs
    BY <2>2, NewRowEffect DEF Replacement
  <2>4. stamped \in Nat \union {Null}
    BY <2>2
  <2>5. row' = [mid EXCEPT ![p] = old]
    BY <1>13 DEF Supersede
  <2> HIDE DEF new, stamped
  <2>6. mid \in [Requests -> Row] /\ \A q \in Requests : mid[q].idle <= mid[q].abs
    BY <1>0, <2>3
  <2> HIDE DEF mid
  <2>7. old \in Row /\ old.idle <= old.abs
    BY <2>2, <2>4, <2>6 DEF Row, Instant
  <2> HIDE DEF old
  <2>8. row' \in [Requests -> Row] /\ \A q \in Requests : row'[q].idle <= row'[q].abs
    BY <2>2, <2>5, <2>6, <2>7
  <2> QED BY <1>0, <1>13, <2>1, <2>8, StepEffect, StepCredentials DEF Supersede, TypeOK
<1>14. ASSUME NEW t \in 0..MaxClock, Revoke(t) PROVE TypeOK'
  <2>1. t \in Nat /\ Withdraw(t) /\ row' = RevokedRows(t)
    BY <1>14 DEF Revoke
  <2>2. grant' \in Grant
    BY <1>0, <1>14 DEF Revoke, Grant
  <2>3. row' \in [Requests -> Row] /\ \A p \in Requests : row'[p].idle <= row'[p].abs
    BY <1>0, <2>1, RevokedRowsEffect
  <2> QED BY <1>0, <1>14, <2>1, <2>2, <2>3, WithdrawEffect DEF Revoke, TypeOK
<1>15. ASSUME NEW t \in 0..MaxClock, RevokeForSession(t) PROVE TypeOK'
  <2>1. t \in Nat /\ Withdraw(t) /\ row' = RevokedRows(t)
    BY <1>15 DEF RevokeForSession
  <2>2. row' \in [Requests -> Row] /\ \A p \in Requests : row'[p].idle <= row'[p].abs
    BY <1>0, <2>1, RevokedRowsEffect
  <2> QED BY <1>0, <1>15, <2>1, <2>2, WithdrawEffect DEF RevokeForSession, TypeOK
<1>16. ASSUME NEW t \in 0..MaxClock, NEW p \in Requests, RevokeRefresh(p, t) PROVE TypeOK'
  <2> DEFINE new == RevokedRow(p, t)
  <2>1. t \in Nat /\ Withdraw(t) /\ row' = [row EXCEPT ![p] = new]
    BY <1>16 DEF RevokeRefresh
  <2>2. new \in Row /\ new.idle <= new.abs
    BY <1>0, <2>1, RevokedRowEffect
  <2> HIDE DEF new
  <2>3. row' \in [Requests -> Row] /\ \A q \in Requests : row'[q].idle <= row'[q].abs
    BY <1>0, <2>1, <2>2
  <2> QED BY <1>0, <1>16, <2>1, <2>3, WithdrawEffect DEF RevokeRefresh, TypeOK
<1>17. ASSUME NEW t \in 0..MaxClock, NEW r \in Requests, DenylistAccessToken(r, t)
       PROVE TypeOK'
  BY <1>0, <1>17 DEF DenylistAccessToken, TypeOK
<1>18. ASSUME NEW a \in Authorizations, NEW m \in BOOLEAN, NEW s \in ScopeSets,
              AmendFind(a, m, s)
       PROVE TypeOK'
  <2>1. (IF m THEN grant.scopes \union s ELSE s) \in ScopeSets
    BY <1>0 DEF Grant, ScopeSets
  <2>2. auth' \in [Authorizations -> Auth]
    BY <1>0, <1>18, <2>1 DEF AmendFind, Auth, Instant
  <2> QED BY <1>0, <1>18, <2>2 DEF AmendFind, TypeOK
<1>19. ASSUME NEW a \in Authorizations, Amend(a) PROVE TypeOK'
  <2>1. auth[a] \in Auth /\ auth[a].at \in Nat /\ auth[a].scopes \in ScopeSets
    BY <1>0 DEF Auth, Instant
  <2>2. auth' \in [Authorizations -> Auth]
    BY <1>0, <1>19, <2>1 DEF Amend, Auth
  <2>3. Withdraw(auth[a].at) /\ row' = RevokedRows(auth[a].at)
    BY <1>19 DEF Amend
  <2>4. row' \in [Requests -> Row] /\ \A p \in Requests : row'[p].idle <= row'[p].abs
    BY <1>0, <2>1, <2>3, RevokedRowsEffect
  <2>5. PICK n \in {grant.rev, grant.rev + 1} :
          grant' = [grant EXCEPT !.scopes = auth[a].scopes, !.rev = n]
    BY <1>19 DEF Amend, Amended
  <2>6. n \in Nat
    BY <1>0 DEF Grant
  <2>7. grant' \in Grant
    BY <1>0, <2>1, <2>5, <2>6 DEF Grant
  <2> QED BY <1>0, <1>19, <2>1, <2>2, <2>3, <2>4, <2>7, WithdrawEffect DEF Amend, TypeOK
<1>20. ASSUME NEW a \in Authorizations, IssueCode(a) PROVE TypeOK'
  <2>1. auth[a] \in Auth /\ auth[a].at + CodeLife \in Nat
    BY <1>0, Lives DEF Auth, Instant
  <2>2. auth' \in [Authorizations -> Auth]
    BY <1>0, <1>20, <2>1 DEF IssueCode, Auth
  <2>3. code' \in [Authorizations -> Code]
    BY <1>0, <1>20, <2>1 DEF IssueCode, Code, Instant
  <2> QED BY <1>0, <1>20, <2>2, <2>3 DEF IssueCode, TypeOK
<1>21. ASSUME NEW a \in Authorizations, SweepCode(a) PROVE TypeOK'
  <2>1. [code[a] EXCEPT !.status = "gone"] \in Code
    BY <1>0 DEF Code
  <2> QED BY <1>0, <1>21, <2>1 DEF SweepCode, TypeOK
<1>22. ASSUME NEW p \in Requests, SweepRefresh(p) PROVE TypeOK'
  <2> DEFINE new == [row[p] EXCEPT !.there = FALSE]
  <2>1. row' = [row EXCEPT ![p] = new]
    BY <1>22 DEF SweepRefresh
  <2>2. new \in Row /\ new.idle <= new.abs
    BY <1>0, RowFlag
  <2> HIDE DEF new
  <2>3. row' \in [Requests -> Row] /\ \A q \in Requests : row'[q].idle <= row'[q].abs
    BY <1>0, <2>1, <2>2
  <2> QED BY <1>0, <1>22, <2>3 DEF SweepRefresh, TypeOK
<1>23. ASSUME NEW r \in Requests, SweepDenylist(r) PROVE TypeOK'
  BY <1>0, <1>23 DEF SweepDenylist, TypeOK
<1>24. CASE SweepCutoff
  <2>1. cutoff' \in Cutoff
    BY <1>24 DEF SweepCutoff, Cutoff, Instant
  <2> QED BY <1>0, <1>24, <2>1 DEF SweepCutoff, TypeOK
<1>25. CASE PurgeUnclaimed
  <2>1. grant' \in Grant
    BY <1>0, <1>25 DEF PurgeUnclaimed, Grant
  <2>2. \A a \in Authorizations : [code[a] EXCEPT !.status = "gone"] \in Code
    BY <1>0 DEF Code
  <2>3. code' \in [Authorizations -> Code]
    BY <1>0, <1>25, <2>2 DEF PurgeUnclaimed
  <2>4. ASSUME NEW p \in Requests
        PROVE  /\ [row[p] EXCEPT !.there = FALSE] \in Row
               /\ [row[p] EXCEPT !.there = FALSE].idle <= [row[p] EXCEPT !.there = FALSE].abs
    BY <1>0, RowFlag
  <2>5. row' \in [Requests -> Row] /\ \A p \in Requests : row'[p].idle <= row'[p].abs
    BY <1>25, <2>4 DEF PurgeUnclaimed
  <2> QED BY <1>0, <1>25, <2>1, <2>3, <2>5 DEF PurgeUnclaimed, TypeOK
<1>26. CASE UNCHANGED vars
  BY <1>0, <1>26 DEF vars, TypeOK
<1> QED
  BY <1>1, <1>2, <1>3, <1>4, <1>5, <1>6, <1>7, <1>8, <1>9, <1>10, <1>11, <1>12, <1>13,
     <1>14, <1>15, <1>16, <1>17, <1>18, <1>19, <1>20, <1>21, <1>22, <1>23, <1>24, <1>25,
     <1>26 DEF Next, Exchange, Withdrawal, Amendment, Retention

LEMMA TypeInit == Init => TypeOK
<1> SUFFICES ASSUME Init PROVE TypeOK
  OBVIOUS
<1>1. \A r \in Requests : NoRow(r) \in Row /\ NoRow(r).idle <= NoRow(r).abs
  BY DEF NoRow, Row, Instant, ScopeSets
<1>2. row \in [Requests -> Row] /\ \A r \in Requests : row[r].idle <= row[r].abs
  BY <1>1 DEF Init
<1>3. req \in [Requests -> Req]
      /\ \A r \in Requests :
           req[r].cred \in IF req[r].kind = "code" THEN Authorizations ELSE Requests
  BY NamesAssumption DEF Init, Req, Instant, ScopeSets
<1>4. grant \in Grant
  BY DEF Init, Grant
<1>5. code \in [Authorizations -> Code] /\ auth \in [Authorizations -> Auth]
  BY Lives DEF Init, Code, Auth, Instant, ScopeSets
<1> QED BY <1>2, <1>3, <1>4, <1>5 DEF Init, TypeOK, Cutoff, Instant, Null

(* Every table keeps its columns' types and the schema's CHECK on the two  *)
(* deadlines of a refresh row holds, under any interleaving.               *)
THEOREM TypeCorrect == Spec => []TypeOK
BY TypeInit, TypeStep, PTL DEF Spec

-----------------------------------------------------------------------------
(* What any step may do to one request, to the grant, to one refresh row   *)
(* and to the cutoff.                                                      *)

(* A request is moved by its own steps only, and only they sign its token. *)
LEMMA RequestStep ==
  ASSUME TypeOK, [Next]_vars, NEW s \in Requests
  PROVE  \/ req'[s] = req[s] /\ (s \in signed' <=> s \in signed)
         \/ Exchange(s)
<1>0. req \in [Requests -> Req]
  BY DEF TypeOK
<1>1. ASSUME NEW r \in Requests \ {s}, Exchange(r)
      PROVE  req'[s] = req[s] /\ (s \in signed' <=> s \in signed)
  <2>1. ASSUME NEW pc, Step(r, pc) PROVE req'[s] = req[s]
    BY <1>0, <2>1 DEF Step
  <2>2. ASSUME NEW kind, NEW cred, Begin(r, kind, cred) PROVE req'[s] = req[s]
    BY <1>0, <2>2 DEF Begin
  <2>3. ASSUME NEW asked, FindGrant(r, asked) PROVE req'[s] = req[s]
    BY <1>0, <2>3 DEF FindGrant
  <2>4. req'[s] = req[s]
    BY <1>1, <2>1, <2>2, <2>3 DEF Exchange, BeginCode, BeginRefresh, RedeemCode,
       ReplayGrant, ReplayCascade, Present, ClaimGrant, Sign, IssueRefresh, Supersede, Stop
  <2>5. signed' = signed \/ signed' = signed \union {r}
    BY <1>1 DEF Exchange, BeginCode, BeginRefresh, Begin, RedeemCode, ReplayGrant,
       ReplayCascade, Present, FindGrant, ClaimGrant, Sign, IssueRefresh, Supersede, Stop
  <2> QED BY <2>4, <2>5
<1>2. ASSUME UNCHANGED <<req, signed>>
      PROVE  req'[s] = req[s] /\ (s \in signed' <=> s \in signed)
  BY <1>2
<1>3. CASE Tick
  BY <1>2, <1>3 DEF Tick
<1>4. ASSUME NEW t \in 0..MaxClock, Withdrawal(t) PROVE UNCHANGED <<req, signed>>
  BY <1>4 DEF Withdrawal, Revoke, RevokeForSession, RevokeRefresh, DenylistAccessToken
<1>5. ASSUME NEW a \in Authorizations, Amendment(a) PROVE UNCHANGED <<req, signed>>
  BY <1>5 DEF Amendment, AmendFind, Amend, IssueCode
<1>6. CASE Retention
  BY <1>2, <1>6 DEF Retention, SweepCode, SweepRefresh, SweepDenylist, SweepCutoff,
     PurgeUnclaimed
<1>7. CASE UNCHANGED vars
  BY <1>2, <1>7 DEF vars
<1> QED BY <1>1, <1>2, <1>3, <1>4, <1>5, <1>6, <1>7 DEF Next

(* A grant is claimed, revoked and revised once and for all, a claimed one *)
(* is never deleted, and its scopes change with its revision only.         *)
LEMMA GrantStep ==
  ASSUME TypeOK, [Next]_vars
  PROVE  /\ grant.claimed => grant'.claimed
         /\ grant.revoked => grant'.revoked
         /\ grant.there /\ grant.claimed => grant'.there
         /\ grant.rev <= grant'.rev
         /\ grant'.rev = grant.rev => grant'.scopes = grant.scopes
<1> DEFINE Goal == /\ grant.claimed => grant'.claimed
                   /\ grant.revoked => grant'.revoked
                   /\ grant.there /\ grant.claimed => grant'.there
                   /\ grant.rev <= grant'.rev
                   /\ grant'.rev = grant.rev => grant'.scopes = grant.scopes
<1>0. grant \in Grant /\ grant.rev \in Nat
  BY DEF TypeOK, Grant
<1>1. CASE UNCHANGED grant
  BY <1>0, <1>1
<1>2. ASSUME NEW r \in Requests, ReplayGrant(r) PROVE Goal
  <2>1. grant' = [grant EXCEPT !.revoked = grant.revoked \/ grant.there]
    BY <1>2 DEF ReplayGrant
  <2>2. /\ grant'.claimed = grant.claimed /\ grant'.there = grant.there
        /\ grant'.rev = grant.rev /\ grant'.scopes = grant.scopes
        /\ grant.revoked => grant'.revoked
    BY <1>0, <2>1 DEF Grant
  <2> QED BY <1>0, <2>2
<1>3. ASSUME NEW r \in Requests, ClaimGrant(r) PROVE Goal
  BY <1>0, <1>3 DEF ClaimGrant, Grant
<1>4. ASSUME NEW t \in 0..MaxClock, Revoke(t) PROVE Goal
  BY <1>0, <1>4 DEF Revoke, Grant
<1>5. ASSUME NEW a \in Authorizations, Amend(a) PROVE Goal
  <2>1. PICK n \in {grant.rev, grant.rev + 1} :
          /\ grant' = [grant EXCEPT !.scopes = auth[a].scopes, !.rev = n]
          /\ auth[a].scopes # grant.scopes => grant'.rev = grant.rev + 1
    BY <1>5 DEF Amend, Amended
  <2>2. /\ grant'.claimed = grant.claimed /\ grant'.revoked = grant.revoked
        /\ grant'.there = grant.there /\ grant'.rev = n
        /\ grant'.scopes = auth[a].scopes
    BY <1>0, <2>1 DEF Grant
  <2> QED BY <1>0, <2>1, <2>2
<1>6. CASE PurgeUnclaimed
  BY <1>0, <1>6 DEF PurgeUnclaimed, Purgeable, Grant
<1>7. ASSUME NEW r \in Requests, Exchange(r) PROVE Goal
  BY <1>1, <1>2, <1>3, <1>7 DEF Exchange, BeginCode, BeginRefresh, Begin, RedeemCode,
     ReplayCascade, Present, FindGrant, Sign, IssueRefresh, Supersede, Stop
<1>8. ASSUME NEW t \in 0..MaxClock, Withdrawal(t) PROVE Goal
  BY <1>1, <1>4, <1>8 DEF Withdrawal, RevokeForSession, RevokeRefresh, DenylistAccessToken
<1>9. ASSUME NEW a \in Authorizations, Amendment(a) PROVE Goal
  BY <1>1, <1>5, <1>9 DEF Amendment, AmendFind, IssueCode
<1>10. ASSUME Retention PROVE Goal
  BY <1>1, <1>6, <1>10 DEF Retention, SweepCode, SweepRefresh, SweepDenylist, SweepCutoff
<1>11. ASSUME Tick \/ UNCHANGED vars PROVE Goal
  BY <1>1, <1>11 DEF Tick, vars
<1> HIDE DEF Goal
<1>12. Goal
  BY <1>7, <1>8, <1>9, <1>10, <1>11 DEF Next
<1> QED BY <1>12 DEF Goal

(* A request keeps its instant and its credential once it has arrived, its *)
(* copy of the grant once it has read it, and its end.                     *)
LEMMA RequestKeeps ==
  ASSUME TypeOK, [Next]_vars, NEW s \in Requests, req[s].pc # "idle"
  PROVE  /\ req'[s].at = req[s].at /\ req'[s].kind = req[s].kind
         /\ req'[s].cred = req[s].cred
         /\ req[s].pc # "find" => /\ req'[s].scopes = req[s].scopes
                                  /\ req'[s].rev = req[s].rev
         /\ req[s].pc = "done" => req'[s].pc = "done"
<1> DEFINE Goal == /\ req'[s].at = req[s].at /\ req'[s].kind = req[s].kind
                   /\ req'[s].cred = req[s].cred
                   /\ req[s].pc # "find" => /\ req'[s].scopes = req[s].scopes
                                            /\ req'[s].rev = req[s].rev
                   /\ req[s].pc = "done" => req'[s].pc = "done"
<1>1. ASSUME NEW pc \in PCs, Step(s, pc), req[s].pc # "done" PROVE Goal
  BY <1>1, StepEffect
<1>2. ASSUME NEW asked \in ScopeSets, FindGrant(s, asked) PROVE Goal
  BY <1>2, FindEffect
<1>3. ASSUME Exchange(s) PROVE Goal
  <2>1. CASE \/ \E a \in Authorizations : BeginCode(s, a)
             \/ \E p \in Requests : BeginRefresh(s, p)
    BY <2>1 DEF BeginCode, BeginRefresh, Begin
  <2>2. CASE \E asked \in ScopeSets : FindGrant(s, asked)
    BY <1>2, <2>2
  <2>3. CASE \/ RedeemCode(s) \/ ReplayGrant(s) \/ ReplayCascade(s) \/ Present(s)
             \/ ClaimGrant(s) \/ Sign(s) \/ IssueRefresh(s) \/ Supersede(s) \/ Stop(s)
    <3>1. PICK pc \in PCs : Step(s, pc) /\ req[s].pc # "done"
      BY <2>3 DEF RedeemCode, ReplayGrant, ReplayCascade, Present, ClaimGrant, Sign,
         IssueRefresh, Supersede, Stop, PCs
    <3> QED BY <1>1, <3>1
  <2> QED BY <1>3, <2>1, <2>2, <2>3 DEF Exchange
<1>4. ASSUME req'[s] = req[s] PROVE Goal
  BY <1>4
<1> QED BY <1>3, <1>4, RequestStep

(* A refresh row is written whole by the request it is named after; any    *)
(* other step keeps its lineage, its scopes and its absolute deadline,     *)
(* revives nothing and lifts no revocation.                                *)
LEMMA RowStep ==
  ASSUME TypeOK, [Next]_vars, NEW p \in Requests
  PROVE  \/ IssueRefresh(p) \/ Supersede(p)
         \/ /\ row'[p].from = row[p].from /\ row'[p].scopes = row[p].scopes
            /\ row'[p].abs = row[p].abs
            /\ row'[p].there => row[p].there
            /\ row[p].revoked => row'[p].revoked /\ row'[p].since = row[p].since
            /\ row'[p].revoked => row[p].revoked \/ row[p].there
<1> DEFINE Kept == /\ row'[p].from = row[p].from /\ row'[p].scopes = row[p].scopes
                   /\ row'[p].abs = row[p].abs
                   /\ row'[p].there => row[p].there
                   /\ row[p].revoked => row'[p].revoked /\ row'[p].since = row[p].since
                   /\ row'[p].revoked => row[p].revoked \/ row[p].there
<1>0. row \in [Requests -> Row]
  BY DEF TypeOK
<1>1. ASSUME UNCHANGED row PROVE Kept
  BY <1>1
<1>2. ASSUME NEW at \in Nat, row' = RevokedRows(at) PROVE Kept
  BY <1>2, RevokedRowsEffect
<1>3. ASSUME NEW r \in Requests, Present(r) PROVE Kept
  <2>1. CASE UNCHANGED row
    BY <2>1
  <2>2. CASE row' = [row EXCEPT ![req[r].cred].idle
                       = IdleDeadline(req[r].at, row[req[r].cred].abs)]
    BY <1>0, <2>2 DEF Row
  <2> QED BY <1>3, <2>1, <2>2 DEF Present
<1>4. ASSUME NEW r \in Requests \ {p}, IssueRefresh(r) PROVE Kept
  BY <1>0, <1>4 DEF IssueRefresh
<1>5. ASSUME NEW r \in Requests \ {p}, Supersede(r) PROVE Kept
  <2> DEFINE mid == [row EXCEPT ![r] = Replacement(r)]
  <2>1. PICK stamped : row' = [mid EXCEPT ![req[r].cred].superseded = stamped]
    BY <1>5 DEF Supersede
  <2>2. mid[p] = row[p] /\ p \in DOMAIN mid
    BY <1>0
  <2> HIDE DEF mid
  <2>3. row'[p] = row[p] \/ row'[p] = [row[p] EXCEPT !.superseded = stamped]
    BY <2>1, <2>2
  <2> QED BY <1>0, <2>3 DEF Row
<1>6. ASSUME NEW q \in Requests, NEW t \in Nat, RevokeRefresh(q, t) PROVE Kept
  <2>1. /\ p = q => row'[p] = RevokedRow(p, t) /\ row[p].there
        /\ p # q => row'[p] = row[p]
    BY <1>0, <1>6 DEF RevokeRefresh
  <2> QED BY <2>1, RevokedRowEffect
<1>7. ASSUME NEW q \in Requests, SweepRefresh(q) PROVE Kept
  BY <1>0, <1>7 DEF SweepRefresh, Row
<1>8. ASSUME PurgeUnclaimed PROVE Kept
  <2>1. row'[p] = [row[p] EXCEPT !.there = FALSE]
    BY <1>8 DEF PurgeUnclaimed
  <2> QED BY <1>0, <2>1 DEF Row
<1> HIDE DEF Kept
<1>9. ASSUME NEW r \in Requests, Exchange(r), ~IssueRefresh(p), ~Supersede(p) PROVE Kept
  <2>1. req[r].at \in Nat
    BY DEF TypeOK, Req, Instant
  <2> QED BY <1>1, <1>2, <1>3, <1>4, <1>5, <1>9, <2>1 DEF Exchange, BeginCode, BeginRefresh,
     Begin, RedeemCode, ReplayGrant, ReplayCascade, FindGrant, ClaimGrant, Sign, Stop
<1>10. ASSUME NEW t \in 0..MaxClock, Withdrawal(t) PROVE Kept
  <2>1. t \in Nat
    OBVIOUS
  <2> QED BY <1>1, <1>2, <1>6, <1>10, <2>1 DEF Withdrawal, Revoke, RevokeForSession,
     DenylistAccessToken
<1>11. ASSUME NEW a \in Authorizations, Amendment(a) PROVE Kept
  <2>1. auth[a].at \in Nat
    BY DEF TypeOK, Auth, Instant
  <2> QED BY <1>1, <1>2, <1>11, <2>1 DEF Amendment, AmendFind, Amend, IssueCode
<1>12. ASSUME Retention PROVE Kept
  BY <1>1, <1>7, <1>8, <1>12 DEF Retention, SweepCode, SweepDenylist, SweepCutoff
<1>13. ASSUME Tick \/ UNCHANGED vars PROVE Kept
  BY <1>1, <1>13 DEF Tick, vars
<1>14. IssueRefresh(p) \/ Supersede(p) \/ Kept
  BY <1>9, <1>10, <1>11, <1>12, <1>13 DEF Next
<1> QED BY <1>14 DEF Kept

(* The mark moves forwards, or goes when no token it refuses can verify.   *)
LEMMA MarkStep ==
  ASSUME TypeOK, MarkLasts, [Next]_vars
  PROVE  /\ MarkLasts'
         /\ clock <= clock'
         /\ cutoff.before <= cutoff'.before \/ cutoff.before + MaxTokenLife <= clock
<1> DEFINE Goal == /\ MarkLasts'
                   /\ cutoff.before <= cutoff'.before
                        \/ cutoff.before + MaxTokenLife <= clock
<1>0. /\ clock \in Nat /\ cutoff.before \in Nat \union {-1} /\ cutoff.exp \in Nat
  BY DEF TypeOK, Cutoff, Instant, Null
<1>1. ASSUME UNCHANGED cutoff PROVE Goal
  BY <1>0, <1>1 DEF MarkLasts
<1>2. ASSUME NEW t \in Nat, Withdraw(t) PROVE Goal
  BY <1>2, WithdrawEffect
<1>3. ASSUME SweepCutoff PROVE Goal
  <2>1. cutoff.before + MaxTokenLife <= clock
    BY <1>0, <1>3, Lives DEF SweepCutoff, MarkLasts
  <2>2. MarkLasts'
    BY <1>3 DEF SweepCutoff, MarkLasts
  <2> QED BY <2>1, <2>2
<1> HIDE DEF Goal
<1>4. ASSUME NEW r \in Requests, Exchange(r) PROVE Goal /\ clock' = clock
  BY <1>1, <1>4 DEF Exchange, BeginCode, BeginRefresh, Begin, RedeemCode, ReplayGrant,
     ReplayCascade, Present, FindGrant, ClaimGrant, Sign, IssueRefresh, Supersede, Stop
<1>5. ASSUME NEW t \in 0..MaxClock, Withdrawal(t) PROVE Goal /\ clock' = clock
  BY <1>1, <1>2, <1>5 DEF Withdrawal, Revoke, RevokeForSession, RevokeRefresh,
     DenylistAccessToken
<1>6. ASSUME NEW a \in Authorizations, Amendment(a) PROVE Goal /\ clock' = clock
  <2>1. auth[a].at \in Nat
    BY DEF TypeOK, Auth, Instant
  <2> QED BY <1>1, <1>2, <1>6, <2>1 DEF Amendment, AmendFind, Amend, IssueCode
<1>7. ASSUME Retention PROVE Goal /\ clock' = clock
  BY <1>1, <1>3, <1>7 DEF Retention, SweepCode, SweepRefresh, SweepDenylist,
     SweepCutoff, PurgeUnclaimed
<1>8. ASSUME Tick \/ UNCHANGED vars PROVE Goal /\ clock' \in {clock, clock + 1}
  BY <1>1, <1>8 DEF Tick, vars
<1>9. Goal /\ clock' \in {clock, clock + 1}
  BY <1>4, <1>5, <1>6, <1>7, <1>8 DEF Next
<1> QED BY <1>0, <1>9 DEF Goal

(* A request whose token is signed by a step was about to sign it.         *)
LEMMA SignedStep ==
  ASSUME TypeOK, [Next]_vars, NEW r \in signed', r \notin signed
  PROVE  r \in Requests /\ Sign(r)
<1>1. r \in Requests
  BY TypeStep DEF TypeOK
<1>2. Exchange(r)
  BY <1>1, RequestStep
<1> QED BY <1>1, <1>2 DEF Exchange, BeginCode, BeginRefresh, Begin, RedeemCode, ReplayGrant,
     ReplayCascade, Present, FindGrant, ClaimGrant, IssueRefresh, Supersede, Stop

(* A request comes to claim and to sign through the copy of the grant it   *)
(* takes, and to keep through its signature.                               *)
LEMMA PcStep ==
  ASSUME TypeOK, [Next]_vars, NEW r \in Requests
  PROVE  /\ req'[r].pc \in {"claim", "sign"} =>
              req[r].pc \in {"claim", "sign"} \/ \E asked \in ScopeSets : FindGrant(r, asked)
         /\ req'[r].pc = "keep" => req[r].pc = "keep" \/ Sign(r)
<1> DEFINE Goal ==
      /\ req'[r].pc \in {"claim", "sign"} =>
           req[r].pc \in {"claim", "sign"} \/ \E asked \in ScopeSets : FindGrant(r, asked)
      /\ req'[r].pc = "keep" => req[r].pc = "keep" \/ Sign(r)
<1>1. ASSUME req'[r] = req[r] PROVE Goal
  BY <1>1
<1>2. ASSUME \E a \in Authorizations : BeginCode(r, a) PROVE Goal
  BY <1>2, BeginEffect DEF BeginCode
<1>3. ASSUME \E p \in Requests : BeginRefresh(r, p) PROVE Goal
  BY <1>3, BeginEffect DEF BeginRefresh
<1>4. ASSUME \E asked \in ScopeSets : FindGrant(r, asked) PROVE Goal
  BY <1>4, FindEffect
<1>5. ASSUME RedeemCode(r) \/ ReplayGrant(r) \/ ReplayCascade(r) \/ Present(r)
               \/ IssueRefresh(r) \/ Supersede(r) \/ Stop(r)
      PROVE  Goal
  <2>1. PICK pc \in PCs \ {"claim", "sign", "keep"} : Step(r, pc)
    BY <1>5 DEF RedeemCode, ReplayGrant, ReplayCascade, Present, IssueRefresh,
       Supersede, Stop, PCs
  <2> QED BY <2>1, StepEffect
<1>6. ASSUME ClaimGrant(r) PROVE Goal
  <2>1. Step(r, "sign") /\ "sign" \in PCs /\ req[r].pc = "claim"
    BY <1>6 DEF ClaimGrant, PCs
  <2> QED BY <2>1, StepEffect
<1>7. ASSUME Sign(r) PROVE Goal
  BY <1>7 DEF Sign
<1> QED BY <1>1, <1>2, <1>3, <1>4, <1>5, <1>6, <1>7, RequestStep DEF Exchange

-----------------------------------------------------------------------------
(* The authority fence.                                                    *)

LEMMA FenceStep ==
  ASSUME TypeOK, TypeOK', Fence, [Next]_vars
  PROVE  Fence'
<1> SUFFICES ASSUME NEW r \in Requests, req'[r].pc \in {"claim", "sign"}
             PROVE  /\ req'[r].rev <= grant'.rev
                    /\ req'[r].kind = "code" /\ req'[r].rev = grant'.rev
                         => req'[r].scopes = grant'.scopes
  BY DEF Fence
<1>0. /\ req[r].rev \in Nat /\ req'[r].rev \in Nat
      /\ grant.rev \in Nat /\ grant'.rev \in Nat
  BY DEF TypeOK, Req, Grant
<1>1. CASE \E asked \in ScopeSets : FindGrant(r, asked)
  <2>1. PICK asked \in ScopeSets : FindGrant(r, asked)
    BY <1>1
  <2>2. UNCHANGED grant /\ (req[r].kind = "code" => asked = grant.scopes)
    BY <2>1 DEF FindGrant
  <2> QED BY <1>0, <2>1, <2>2, FindEffect
<1>2. CASE req[r].pc \in {"claim", "sign"}
  <2>1. req'[r].rev = req[r].rev /\ req'[r].kind = req[r].kind /\ req'[r].scopes = req[r].scopes
    BY <1>2, RequestKeeps
  <2>2. /\ req[r].rev <= grant.rev
        /\ req[r].kind = "code" /\ req[r].rev = grant.rev => req[r].scopes = grant.scopes
    BY <1>2 DEF Fence
  <2>3. grant.rev <= grant'.rev /\ (grant'.rev = grant.rev => grant'.scopes = grant.scopes)
    BY GrantStep
  <2> QED BY <1>0, <2>1, <2>2, <2>3
<1> QED BY <1>1, <1>2, PcStep

LEMMA FenceInv == Spec => []Fence
<1>1. Init => Fence
  BY DEF Init, Fence
<1>2. TypeOK /\ TypeOK' /\ Fence /\ [Next]_vars => Fence'
  BY FenceStep
<1> QED BY <1>1, <1>2, TypeCorrect, PTL DEF Spec

(* No step signs an access token under a withdrawn grant, nor, from a      *)
(* code, with a scope the grant has not at that instant: the fence of      *)
(* lock_authority_on makes up for a copy of the grant that is several      *)
(* awaits old.                                                             *)
THEOREM SignedUnderAuthority == Spec => SignedUnderCurrentAuthority
<1>1. ASSUME TypeOK, Fence, [Next]_vars, NEW r \in signed' \ signed
      PROVE  GrantActive /\ (req[r].kind = "code" => req[r].scopes \subseteq grant.scopes)
  <2>1. r \in Requests /\ Sign(r)
    BY <1>1, SignedStep
  <2>2. GrantActive /\ grant.rev = req[r].rev /\ req[r].pc = "sign"
    BY <2>1 DEF Sign, Fenced
  <2> QED BY <1>1, <2>1, <2>2 DEF Fence
<1>2. TypeOK /\ Fence /\ [Next]_vars =>
        [\A r \in signed' \ signed :
           /\ GrantActive
           /\ req[r].kind = "code" => req[r].scopes \subseteq grant.scopes]_vars
  BY <1>1
<1> QED BY <1>2, TypeCorrect, FenceInv, PTL DEF Spec, SignedUnderCurrentAuthority

-----------------------------------------------------------------------------
(* Custody of the grant.                                                   *)

LEMMA CustodyStep ==
  ASSUME TypeOK, Custody, [Next]_vars
  PROVE  Custody'
<1>1. signed' # {} => grant'.there /\ grant'.claimed
  <2>1. CASE signed # {}
    BY <2>1, GrantStep DEF Custody
  <2>2. CASE signed = {}
    <3> SUFFICES ASSUME NEW r \in signed' PROVE grant'.there /\ grant'.claimed
      OBVIOUS
    <3>1. Sign(r)
      BY <2>2, SignedStep
    <3> QED BY <3>1 DEF Sign, Fenced, GrantActive
  <2> QED BY <2>1, <2>2
<1>2. signed \subseteq signed'
  BY ZenonT(60) DEF Next, Tick, Exchange, Withdrawal, Amendment, Retention, vars, BeginCode,
     BeginRefresh, Begin, RedeemCode, ReplayGrant, ReplayCascade, Present, FindGrant,
     ClaimGrant, Sign, IssueRefresh, Supersede, Stop, Revoke, RevokeForSession,
     RevokeRefresh, DenylistAccessToken, AmendFind, Amend, IssueCode, SweepCode,
     SweepRefresh, SweepDenylist, SweepCutoff, PurgeUnclaimed
<1>3. ASSUME NEW r \in Requests, req'[r].pc = "keep" PROVE r \in signed'
  BY <1>2, <1>3, PcStep DEF Custody, Sign
<1>4. ASSUME NEW r \in Requests, row'[r].there PROVE r \in signed'
  <2>1. CASE row[r].there
    BY <1>2, <2>1 DEF Custody
  <2>2. CASE IssueRefresh(r) \/ Supersede(r)
    BY <1>2, <2>2 DEF IssueRefresh, Supersede, Custody
  <2> QED BY <1>4, <2>1, <2>2, RowStep
<1>5. ASSUME NEW r \in signed' PROVE req'[r].pc \in {"keep", "done"}
  <2>1. CASE r \in signed
    <3>1. r \in Requests /\ req[r].pc \in {"keep", "done"}
      BY <2>1 DEF Custody, TypeOK
    <3>2. CASE Exchange(r)
      <4>1. Step(r, "done") /\ "done" \in PCs
        BY <3>1, <3>2 DEF Exchange, BeginCode, BeginRefresh, Begin, RedeemCode, ReplayGrant,
           ReplayCascade, Present, FindGrant, ClaimGrant, Sign, IssueRefresh, Supersede,
           Stop, PCs
      <4> QED BY <3>1, <4>1, StepEffect
    <3> QED BY <3>1, <3>2, RequestStep
  <2>2. CASE r \notin signed
    <3>1. r \in Requests /\ Sign(r)
      BY <2>2, <1>5, SignedStep
    <3>2. PICK pc \in PCs : Step(r, pc) /\ pc \in {"keep", "done"}
      BY <3>1 DEF Sign, PCs
    <3> QED BY <3>1, <3>2, StepEffect
  <2> QED BY <2>1, <2>2
<1> QED BY <1>1, <1>3, <1>4, <1>5 DEF Custody

LEMMA CustodyInv == Spec => []Custody
<1>1. Init => Custody
  BY DEF Init, Custody, NoRow
<1>2. TypeOK /\ Custody /\ [Next]_vars => Custody'
  BY CustodyStep
<1> QED BY <1>1, <1>2, TypeCorrect, PTL DEF Spec

(* A grant any credential was ever issued under is never deleted: the      *)
(* claim that precedes the first signature is what purge_unclaimed looks   *)
(* at, and nothing takes it back.                                          *)
THEOREM GrantKept == Spec => []CredentialsKeepTheirGrant
<1>1. Custody => CredentialsKeepTheirGrant
  BY DEF Custody, CredentialsKeepTheirGrant
<1> QED BY <1>1, CustodyInv, PTL

-----------------------------------------------------------------------------
(* One code, one redemption.                                               *)

(* A request is accepted by the statement that redeems its credential, and *)
(* by nothing else.                                                        *)
LEMMA PaidStep ==
  ASSUME TypeOK, Custody, [Next]_vars, NEW r \in Requests, Paid(r)'
  PROVE  \/ /\ Paid(r)
            /\ req'[r].kind = req[r].kind /\ req'[r].cred = req[r].cred
            /\ req'[r].at = req[r].at
         \/ RedeemCode(r) /\ Spendable(req[r].cred, req[r].at)
         \/ Present(r) /\ Presentable(req[r].cred, req[r].at)
<1>1. CASE Paid(r)
  <2>1. req[r].pc # "idle"
    BY <1>1 DEF Paid, Custody
  <2> QED BY <1>1, <2>1, RequestKeeps
<1>2. CASE ~Paid(r)
  <2>1. r \notin signed'
    BY <1>2, SignedStep DEF Paid, Sign
  <2>2. req'[r].pc \in {"find", "claim", "sign", "keep"} /\ req[r].pc \notin {"find", "claim", "sign", "keep"}
    BY <1>2, <2>1 DEF Paid
  <2>3. Exchange(r)
    BY <2>2, RequestStep
  <2>4. CASE \E a \in Authorizations : BeginCode(r, a)
    BY <2>2, <2>4, BeginEffect DEF BeginCode
  <2>5. CASE \E p \in Requests : BeginRefresh(r, p)
    BY <2>2, <2>5, BeginEffect DEF BeginRefresh
  <2>6. CASE RedeemCode(r)
    <3>1. CASE ~Spendable(req[r].cred, req[r].at)
      <4>1. PICK pc \in {"replay", "done"} : Step(r, pc) /\ pc \in PCs
        BY <2>6, <3>1 DEF RedeemCode, PCs
      <4> QED BY <2>2, <4>1, StepEffect
    <3> QED BY <2>6, <3>1
  <2>7. CASE Present(r)
    <3>1. CASE ~Presentable(req[r].cred, req[r].at)
      <4>1. Step(r, "done") /\ "done" \in PCs
        BY <2>7, <3>1 DEF Present, PCs
      <4> QED BY <2>2, <4>1, StepEffect
    <3> QED BY <2>7, <3>1
  <2>8. CASE ReplayGrant(r) \/ ReplayCascade(r) \/ Stop(r)
    <3>1. PICK pc \in {"cascade", "done"} : Step(r, pc) /\ pc \in PCs
      BY <2>8 DEF ReplayGrant, ReplayCascade, Stop, PCs
    <3> QED BY <2>2, <3>1, StepEffect
  <2> QED BY <2>2, <2>3, <2>4, <2>5, <2>6, <2>7, <2>8 DEF Exchange, FindGrant, ClaimGrant,
        Sign, IssueRefresh, Supersede
<1> QED BY <1>1, <1>2

(* A code is written once, when its authorization ends, and a spent or     *)
(* swept one never returns.                                                *)
LEMMA CodeStep ==
  ASSUME TypeOK, SpentOnce, [Next]_vars, NEW a \in Authorizations
  PROVE  /\ code[a].status \in {"spent", "gone"} => code'[a].status \in {"spent", "gone"}
         /\ auth'[a].pc # "done" => code'[a].status = "none"
<1> DEFINE Goal ==
      /\ code[a].status \in {"spent", "gone"} => code'[a].status \in {"spent", "gone"}
      /\ auth'[a].pc # "done" => code'[a].status = "none"
<1>0. /\ code \in [Authorizations -> Code] /\ auth \in [Authorizations -> Auth]
      /\ \A b \in Authorizations : auth[b].pc # "done" => code[b].status = "none"
  BY DEF TypeOK, SpentOnce
<1>1. ASSUME UNCHANGED <<code, auth>> PROVE Goal
  BY <1>0, <1>1
<1>2. ASSUME NEW r \in Requests, RedeemCode(r) PROVE Goal
  BY <1>0, <1>2 DEF RedeemCode, Spendable, Code
<1>3. ASSUME NEW b \in Authorizations, NEW m, NEW s, AmendFind(b, m, s) PROVE Goal
  BY <1>0, <1>3 DEF AmendFind
<1>4. ASSUME NEW b \in Authorizations, Amend(b) PROVE Goal
  <2>1. auth[a].pc = "done" => auth'[a].pc = "done"
    BY <1>0, <1>4 DEF Amend, Auth
  <2>2. UNCHANGED code
    BY <1>4 DEF Amend
  <2> QED BY <1>0, <2>1, <2>2
<1>5. ASSUME NEW b \in Authorizations, IssueCode(b) PROVE Goal
  <2>1. auth'[b].pc = "done" /\ code[b].status = "none"
    BY <1>0, <1>5 DEF IssueCode, Auth
  <2>2. b # a => auth'[a] = auth[a] /\ code'[a] = code[a]
    BY <1>0, <1>5 DEF IssueCode
  <2> QED BY <1>0, <2>1, <2>2
<1>6. ASSUME NEW b \in Authorizations, SweepCode(b) PROVE Goal
  BY <1>0, <1>6 DEF SweepCode, Code
<1>7. ASSUME PurgeUnclaimed PROVE Goal
  BY <1>0, <1>7 DEF PurgeUnclaimed, Code
<1> HIDE DEF Goal
<1>8. ASSUME NEW r \in Requests, Exchange(r) PROVE Goal
  BY <1>1, <1>2, <1>8 DEF Exchange, BeginCode, BeginRefresh, Begin, ReplayGrant,
     ReplayCascade, Present, FindGrant, ClaimGrant, Sign, IssueRefresh, Supersede, Stop
<1>9. ASSUME NEW t \in 0..MaxClock, Withdrawal(t) PROVE Goal
  BY <1>1, <1>9 DEF Withdrawal, Revoke, RevokeForSession, RevokeRefresh, DenylistAccessToken
<1>10. ASSUME NEW b \in Authorizations, Amendment(b) PROVE Goal
  BY <1>3, <1>4, <1>5, <1>10 DEF Amendment
<1>11. ASSUME Retention PROVE Goal
  BY <1>1, <1>6, <1>7, <1>11 DEF Retention, SweepRefresh, SweepDenylist, SweepCutoff
<1>12. ASSUME Tick \/ UNCHANGED vars PROVE Goal
  BY <1>1, <1>12 DEF Tick, vars
<1>13. Goal
  BY <1>8, <1>9, <1>10, <1>11, <1>12 DEF Next
<1> QED BY <1>13 DEF Goal

LEMMA SpentOnceStep ==
  ASSUME TypeOK, Custody, SpentOnce, [Next]_vars
  PROVE  SpentOnce'
<1> DEFINE Spends(r) == RedeemCode(r) /\ Spendable(req[r].cred, req[r].at)
<1>1. ASSUME NEW r \in Requests, req'[r].kind = "code", Paid(r)'
      PROVE  /\ req'[r].cred = req[r].cred /\ req[r].kind = "code"
             /\ req[r].cred \in Authorizations
             /\ Paid(r) \/ Spends(r)
  <2>1. CASE Paid(r) /\ req'[r].kind = req[r].kind /\ req'[r].cred = req[r].cred
    BY <1>1, <2>1 DEF TypeOK
  <2>2. CASE Spends(r)
    <3>1. Step(r, "find") /\ "find" \in PCs
      BY <2>2 DEF RedeemCode, PCs
    <3> QED BY <1>1, <2>2, <3>1, StepEffect DEF TypeOK
  <2>3. CASE Present(r) /\ Presentable(req[r].cred, req[r].at)
    <3>1. Step(r, "find") /\ "find" \in PCs /\ req[r].kind = "refresh"
      BY <2>3 DEF Present, PCs
    <3> QED BY <1>1, <3>1, StepEffect
  <2> QED BY <1>1, <2>1, <2>2, <2>3, PaidStep
<1>2. ASSUME NEW r \in Requests, Spends(r)
      PROVE  /\ \A s \in Requests : s # r => ~Spends(s)
             /\ req[r].kind = "code" /\ req[r].cred \in Authorizations
             /\ code[req[r].cred].status = "live" /\ code'[req[r].cred].status = "spent"
  <2>1. req[r].kind = "code" /\ req[r].cred \in Authorizations
    BY <1>2 DEF RedeemCode, TypeOK
  <2>2. code[req[r].cred].status = "live" /\ code' = [code EXCEPT ![req[r].cred].status = "spent"]
    BY <1>2 DEF RedeemCode, Spendable
  <2>3. code'[req[r].cred].status = "spent"
    BY <2>1, <2>2 DEF TypeOK, Code
  <2>4. ASSUME NEW s \in Requests, s # r, Spends(s) PROVE FALSE
    <3>1. req' = [req EXCEPT ![r].pc = "find"] /\ req' = [req EXCEPT ![s].pc = "find"]
          /\ req[s].pc = "redeem"
      BY <1>2, <2>4 DEF RedeemCode, Step
    <3> QED BY <2>4, <3>1 DEF TypeOK, Req
  <2> QED BY <2>1, <2>2, <2>3, <2>4
<1> HIDE DEF Spends
<1>3. ASSUME NEW r \in Requests, req'[r].kind = "code", Paid(r)'
      PROVE  code'[req'[r].cred].status \in {"spent", "gone"}
  <2>1. CASE Paid(r)
    BY <1>1, <1>3, <2>1, CodeStep DEF SpentOnce
  <2>2. CASE Spends(r)
    BY <1>1, <1>2, <1>3, <2>2
  <2> QED BY <1>1, <1>3, <2>1, <2>2
<1>4. ASSUME NEW r \in Requests, req'[r].kind = "code", Paid(r)',
             NEW s \in Requests, req'[s].kind = "code", Paid(s)',
             req'[r].cred = req'[s].cred
      PROVE  r = s
  <2>1. /\ req[r].cred = req[s].cred /\ req[r].kind = "code" /\ req[s].kind = "code"
        /\ Paid(r) \/ Spends(r)
        /\ Paid(s) \/ Spends(s)
    BY <1>1, <1>4
  <2>2. CASE Paid(r) /\ Paid(s)
    BY <2>1, <2>2 DEF SpentOnce
  <2>3. CASE Spends(r) /\ Paid(s)
    BY <1>2, <2>1, <2>3 DEF SpentOnce
  <2>4. CASE Spends(s) /\ Paid(r)
    BY <1>2, <2>1, <2>4 DEF SpentOnce
  <2>5. CASE Spends(r) /\ Spends(s)
    BY <1>2, <2>5
  <2> QED BY <1>1, <1>4, <2>2, <2>3, <2>4, <2>5
<1>5. \A a \in Authorizations : auth'[a].pc # "done" => code'[a].status = "none"
  BY CodeStep
<1> QED BY <1>3, <1>4, <1>5 DEF SpentOnce

LEMMA SpentOnceInv == Spec => []SpentOnce
<1>1. Init => SpentOnce
  BY DEF Init, SpentOnce, Paid
<1>2. TypeOK /\ Custody /\ SpentOnce /\ [Next]_vars => SpentOnce'
  BY SpentOnceStep
<1> QED BY <1>1, <1>2, TypeCorrect, CustodyInv, PTL DEF Spec

(* One authorization code pays for one access token at most, whatever the  *)
(* number of concurrent redemptions, replays and amendments.               *)
THEOREM OneTokenPerCode == Spec => []CodePaysOnce
<1>1. TypeOK /\ SpentOnce => CodePaysOnce
  BY DEF TypeOK, SpentOnce, CodePaysOnce, Paid
<1> QED BY <1>1, TypeCorrect, SpentOnceInv, PTL

-----------------------------------------------------------------------------
(* Rotation.                                                               *)

(* The row a rotation writes.                                              *)
LEMMA SupersedeEffect ==
  ASSUME TypeOK, NEW r \in Requests, Supersede(r), req[r].cred # r
  PROVE  /\ req[r].cred \in Requests /\ req[r].kind = "refresh" /\ req[r].pc = "keep"
         /\ row'[r].from = req[r].cred /\ row'[r].scopes = req[r].scopes
         /\ row'[r].abs = row[req[r].cred].abs
         /\ row'[r].revoked = FALSE
<1> DEFINE p == req[r].cred
<1>1. p \in Requests /\ req[r].kind = "refresh" /\ req[r].pc = "keep"
  BY DEF Supersede, TypeOK
<1>2. PICK stamped :
        row' = [row EXCEPT ![r] = Replacement(r), ![p].superseded = stamped]
  BY DEF Supersede
<1>3. row'[r] = Replacement(r)
  BY <1>1, <1>2 DEF TypeOK
<1> QED BY <1>1, <1>3 DEF Replacement, NewRow

LEMMA LineageStep ==
  ASSUME TypeOK, Lineage, RotationInherits, [Next]_vars
  PROVE  Lineage' /\ RotationInherits'
<1>0. row \in [Requests -> Row] /\ req \in [Requests -> Req]
  BY DEF TypeOK
<1>1. ASSUME NEW r \in Requests, IssueRefresh(r) \/ Supersede(r)
      PROVE  req[r].pc = "keep" /\ req'[r].pc = "done"
  <2>1. Step(r, "done") /\ "done" \in PCs /\ req[r].pc = "keep"
    BY <1>1 DEF IssueRefresh, Supersede, PCs
  <2> QED BY <2>1, StepEffect
<1>2. ASSUME NEW r \in Requests, req[r].pc = "done"
      PROVE  /\ req'[r].pc = "done"
             /\ row'[r].from = row[r].from /\ row'[r].scopes = row[r].scopes
             /\ row'[r].abs = row[r].abs
  BY <1>1, <1>2, RequestKeeps, RowStep
<1>3. ASSUME NEW r \in Requests, IssueRefresh(r) PROVE row'[r].from = r
  BY <1>0, <1>3 DEF IssueRefresh, NewRow
<1>4. ASSUME NEW r \in Requests, Supersede(r)
      PROVE  /\ row'[r].from = req[r].cred /\ req[r].cred \in Requests
             /\ req[req[r].cred].pc = "done"
             /\ row'[r].scopes = req[r].scopes /\ row'[r].abs = row[req[r].cred].abs
             /\ req[r].scopes \subseteq row[req[r].cred].scopes
  <2>1. req[r].kind = "refresh" /\ req[r].pc = "keep"
    BY <1>4 DEF Supersede
  <2>2. req[req[r].cred].pc = "done" /\ req[r].scopes \subseteq row[req[r].cred].scopes
    BY <2>1 DEF Lineage
  <2>3. req[r].cred # r
    BY <2>1, <2>2
  <2> QED BY <1>4, <2>2, <2>3, SupersedeEffect
<1>5. ASSUME NEW r \in Requests, row'[r].there PROVE req'[r].pc = "done"
  BY <1>1, <1>2, <1>5, RowStep DEF Lineage
<1>6. ASSUME NEW r \in Requests, row'[r].from # r
      PROVE  req'[r].pc = "done" /\ req'[row'[r].from].pc = "done"
  <2>1. CASE IssueRefresh(r)
    BY <1>3, <1>6, <2>1
  <2>2. CASE Supersede(r)
    BY <1>1, <1>2, <1>4, <2>2
  <2>3. CASE row'[r].from = row[r].from
    <3>1. row[r].from \in Requests
      BY <1>0 DEF Row
    <3>2. req[r].pc = "done" /\ req[row[r].from].pc = "done"
      BY <1>6, <2>3 DEF Lineage
    <3> QED BY <1>2, <2>3, <3>1, <3>2
  <2> QED BY <2>1, <2>2, <2>3, RowStep
<1>7. ASSUME NEW r \in Requests, req'[r].kind = "refresh"
      PROVE  /\ req'[r].cred \in Requests /\ req[req'[r].cred].pc = "done"
             /\ req[r].pc # "idle" => req[r].kind = "refresh" /\ req'[r].cred = req[r].cred
  <2>1. CASE req'[r].kind = req[r].kind /\ req'[r].cred = req[r].cred
    BY <1>7, <2>1 DEF Lineage, TypeOK
  <2>2. CASE \E a \in Authorizations : BeginCode(r, a)
    BY <1>7, <2>2, BeginEffect DEF BeginCode
  <2>3. CASE \E p \in Requests : BeginRefresh(r, p)
    <3>1. PICK p \in Requests : BeginRefresh(r, p)
      BY <2>3
    <3>2. row[p].there /\ req'[r].cred = p /\ req[r].pc = "idle"
      BY <3>1, BeginEffect DEF BeginRefresh
    <3> QED BY <3>2 DEF Lineage
  <2>4. CASE Exchange(r) /\ req[r].pc = "idle"
    BY <2>2, <2>3, <2>4 DEF Exchange, RedeemCode, ReplayGrant, ReplayCascade, Present,
       FindGrant, ClaimGrant, Sign, IssueRefresh, Supersede, Stop
  <2> QED BY <2>1, <2>4, RequestStep, RequestKeeps
<1>8. ASSUME NEW r \in Requests, req'[r].kind = "refresh",
             req'[r].pc \in {"claim", "sign", "keep"}
      PROVE  req'[r].scopes \subseteq row'[req'[r].cred].scopes
  <2>1. /\ req'[r].cred \in Requests
        /\ row'[req'[r].cred].scopes = row[req'[r].cred].scopes
    BY <1>2, <1>7, <1>8
  <2>2. CASE \E asked \in ScopeSets : FindGrant(r, asked)
    <3>1. PICK asked \in ScopeSets : FindGrant(r, asked)
      BY <2>2
    <3>2. /\ req'[r].scopes = asked /\ req'[r].cred = req[r].cred
          /\ req[r].kind = "refresh"
      BY <1>8, <3>1, FindEffect
    <3>3. asked \subseteq row[req[r].cred].scopes
      BY <3>1, <3>2 DEF FindGrant
    <3> QED BY <2>1, <3>2, <3>3
  <2>3. CASE req[r].pc \in {"claim", "sign", "keep"}
    <3>1. req'[r].scopes = req[r].scopes
      BY <2>3, RequestKeeps
    <3>2. req[r].kind = "refresh" /\ req'[r].cred = req[r].cred
      BY <1>7, <1>8, <2>3
    <3> QED BY <2>1, <2>3, <3>1, <3>2 DEF Lineage
  <2> QED BY <1>8, <2>2, <2>3, PcStep DEF Sign
<1>9. ASSUME NEW r \in Requests
      PROVE  /\ row'[r].abs = row'[row'[r].from].abs
             /\ row'[r].scopes \subseteq row'[row'[r].from].scopes
  <2>1. CASE row'[r].from = r
    BY <2>1
  <2>2. CASE Supersede(r)
    BY <1>2, <1>4, <2>2
  <2>3. CASE /\ row'[r].from # r
             /\ row'[r].from = row[r].from /\ row'[r].scopes = row[r].scopes
             /\ row'[r].abs = row[r].abs
    <3>1. row[r].from \in Requests /\ req[row[r].from].pc = "done"
      BY <1>0, <2>3 DEF Row, Lineage
    <3>2. /\ row[r].abs = row[row[r].from].abs
          /\ row[r].scopes \subseteq row[row[r].from].scopes
      BY DEF RotationInherits
    <3> QED BY <1>2, <2>3, <3>1, <3>2
  <2> QED BY <1>3, <2>1, <2>2, <2>3, RowStep
<1>10. Lineage'
  <2>1. ASSUME NEW r \in Requests, req'[r].kind = "refresh"
        PROVE  req'[req'[r].cred].pc = "done"
    BY <1>2, <1>7, <2>1
  <2> QED BY <1>5, <1>6, <1>8, <2>1 DEF Lineage
<1> QED BY <1>9, <1>10 DEF RotationInherits

LEMMA LineageInv == Spec => [](Lineage /\ RotationInherits)
<1>1. Init => Lineage /\ RotationInherits
  BY DEF Init, Lineage, RotationInherits, NoRow
<1>2. TypeOK /\ (Lineage /\ RotationInherits) /\ [Next]_vars => (Lineage /\ RotationInherits)'
  BY LineageStep
<1> QED BY <1>1, <1>2, TypeCorrect, PTL DEF Spec

(* However long a chain of rotations is and however its requests           *)
(* interleave, every refresh token of it has the absolute deadline of the  *)
(* one it replaced, and no scope that one had not.                         *)
THEOREM RotationBounded == Spec => []RotationInherits
BY LineageInv, PTL

-----------------------------------------------------------------------------
(* Withdrawal.                                                             *)

LEMMA MarkInv == Spec => []MarkLasts
<1>1. Init => MarkLasts
  BY DEF Init, MarkLasts
<1>2. TypeOK /\ MarkLasts /\ [Next]_vars => MarkLasts'
  BY MarkStep
<1> QED BY <1>1, <1>2, TypeCorrect, PTL DEF Spec

(* The instants Covered compares.                                          *)
LEMMA InstantType ==
  ASSUME TypeOK, NEW r \in Requests
  PROVE  req[r].at \in Nat /\ clock \in Nat /\ cutoff.before \in Int
BY DEF TypeOK, Req, Cutoff, Instant, Null

(* A token past its expiry stays so.                                       *)
LEMMA ExpiredStep ==
  ASSUME TypeOK, TypeOK', MarkLasts, [Next]_vars, NEW r \in Requests,
         req[r].pc # "idle", ~Unexpired(r)
  PROVE  ~Unexpired(r)'
<1>1. req'[r].at = req[r].at /\ clock <= clock'
  BY RequestKeeps, MarkStep
<1>2. clock \in Nat /\ clock' \in Nat /\ req[r].at \in Nat
  BY InstantType DEF TypeOK
<1> QED BY <1>1, <1>2, Lives DEF Unexpired

(* A token a cutoff refuses is refused until it has expired.               *)
LEMMA WithdrawnStep ==
  ASSUME TypeOK, TypeOK', MarkLasts, [Next]_vars, NEW r \in Requests,
         req[r].pc # "idle", req[r].at <= cutoff.before
  PROVE  req'[r].at <= cutoff'.before \/ ~Unexpired(r)'
<1>1. /\ req'[r].at = req[r].at
      /\ cutoff.before <= cutoff'.before \/ cutoff.before + MaxTokenLife <= clock
  BY RequestKeeps, MarkStep
<1>2. /\ clock \in Nat /\ req[r].at \in Nat /\ cutoff.before \in Int
      /\ cutoff'.before \in Int
  BY InstantType DEF TypeOK, Cutoff, Instant, Null
<1>3. CASE cutoff.before <= cutoff'.before
  BY <1>1, <1>2, <1>3
<1>4. CASE cutoff.before + MaxTokenLife <= clock
  <2>1. ~Unexpired(r)
    BY <1>2, <1>4, Lives DEF Unexpired
  <2> QED BY <2>1, ExpiredStep
<1> QED BY <1>1, <1>3, <1>4

(* A denylist row goes when its token has expired.                         *)
LEMMA DenyStep ==
  ASSUME TypeOK, [Next]_vars, NEW r \in deny
  PROVE  r \in deny' \/ ~Unexpired(r)
BY ZenonT(60) DEF Next, Tick, Exchange, Withdrawal, Amendment, Retention, vars, BeginCode,
   BeginRefresh, Begin, RedeemCode, ReplayGrant, ReplayCascade, Present, FindGrant,
   ClaimGrant, Sign, IssueRefresh, Supersede, Stop, Revoke, RevokeForSession,
   RevokeRefresh, DenylistAccessToken, AmendFind, Amend, IssueCode, SweepCode,
   SweepRefresh, SweepDenylist, SweepCutoff, PurgeUnclaimed

LEMMA InactiveStep ==
  ASSUME TypeOK, TypeOK', Custody, MarkLasts, [Next]_vars, NEW r \in signed, ~Active(r)
  PROVE  ~Active(r)'
<1>1. r \in Requests /\ req[r].pc # "idle"
  BY DEF TypeOK, Custody
<1>2. CASE ~Unexpired(r)
  BY <1>1, <1>2, ExpiredStep DEF Active
<1>3. CASE r \in deny
  BY <1>1, <1>2, <1>3, DenyStep DEF Active
<1>4. CASE Withdrawn(r)
  BY <1>1, <1>4, WithdrawnStep DEF Active, Withdrawn
<1>5. CASE Named /\ ~GrantActive
  <2>1. grant.revoked
    BY <1>5 DEF Custody, GrantActive
  <2>2. grant'.revoked
    BY <2>1, GrantStep
  <2> QED BY <1>5, <2>2 DEF Active, GrantActive
<1> QED BY <1>2, <1>3, <1>4, <1>5 DEF Active

(* Introspection never takes an answer of inactive back: no withdrawal     *)
(* moves the mark backwards, no sweep outruns an expiry, no purge and no   *)
(* amendment revives a grant.                                              *)
THEOREM InactiveForGood == Spec => InactiveStaysInactive
<1>1. TypeOK /\ TypeOK' /\ Custody /\ MarkLasts /\ [Next]_vars =>
        [\A r \in signed : ~Active(r) => ~Active(r)']_vars
  BY InactiveStep
<1> QED BY <1>1, TypeCorrect, CustodyInv, MarkInv, PTL DEF Spec, InactiveStaysInactive

(* A dead token is dead for introspection where tokens carry grant_id, and *)
(* stays dead.                                                             *)
LEMMA CoveredInactive ==
  ASSUME Named, NEW r \in Requests, Covered(r)
  PROVE  ~Active(r)
BY DEF Covered, Active, Withdrawn, GrantActive

LEMMA CoveredStep ==
  ASSUME TypeOK, TypeOK', MarkLasts, [Next]_vars, NEW r \in Requests,
         req[r].pc # "idle", Covered(r)
  PROVE  Covered(r)'
<1>1. CASE grant.revoked
  BY <1>1, GrantStep DEF Covered
<1>2. CASE req[r].at <= cutoff.before
  BY <1>2, WithdrawnStep DEF Covered
<1>3. CASE ~Unexpired(r)
  BY <1>3, ExpiredStep DEF Covered
<1> QED BY <1>1, <1>2, <1>3 DEF Covered

LEMMA TimelyStep ==
  ASSUME TypeOK, TypeOK', MarkLasts, Timely, [Next]_vars
  PROVE  Timely'
<1>1. ASSUME NEW r \in Requests PROVE req'[r].at <= clock'
  <2>0. req[r].at <= clock /\ req[r].at \in Nat /\ clock \in Nat /\ clock' \in Nat
    BY InstantType DEF Timely, TypeOK
  <2>1. clock <= clock'
    BY MarkStep
  <2>2. CASE req'[r].at = req[r].at
    BY <2>0, <2>1, <2>2
  <2>3. CASE req'[r].at = clock
    BY <2>1, <2>3
  <2>4. CASE Exchange(r) /\ req[r].pc = "idle"
    <3>1. PICK kind \in {"code", "refresh"}, cred \in Authorizations \union Requests :
            Begin(r, kind, cred)
      BY <2>4 DEF Exchange, BeginCode, BeginRefresh, RedeemCode, ReplayGrant, ReplayCascade,
         Present, FindGrant, ClaimGrant, Sign, IssueRefresh, Supersede, Stop
    <3> QED BY <2>3, <3>1, BeginEffect
  <2> QED BY <2>2, <2>4, RequestStep, RequestKeeps
<1>2. ASSUME NEW r \in Requests, req'[r].pc = "cascade" PROVE grant'.revoked \/ ~grant'.there
  <2>1. CASE req'[r] = req[r]
    <3>1. grant.revoked \/ ~grant.there
      BY <1>2, <2>1 DEF Timely
    <3>2. ~grant.there => ~grant'.there \/ UNCHANGED grant
      BY ZenonT(60) DEF TypeOK, Grant, Next, Tick, Exchange, Withdrawal, Amendment, Retention, vars,
         BeginCode, BeginRefresh, Begin, RedeemCode, ReplayGrant, ReplayCascade, Present,
         FindGrant, ClaimGrant, Sign, IssueRefresh, Supersede, Stop, Revoke,
         RevokeForSession, RevokeRefresh, DenylistAccessToken, AmendFind, Amend, IssueCode,
         SweepCode, SweepRefresh, SweepDenylist, SweepCutoff, PurgeUnclaimed
    <3> QED BY <3>1, <3>2, GrantStep
  <2>2. CASE ReplayGrant(r)
    <3>1. grant \in Grant /\ grant' = [grant EXCEPT !.revoked = grant.revoked \/ grant.there]
      BY <2>2 DEF ReplayGrant, TypeOK
    <3>2. grant'.there = grant.there /\ grant'.revoked = (grant.revoked \/ grant.there)
      BY <3>1 DEF Grant
    <3> QED BY <3>2
  <2>3. CASE Exchange(r) /\ ~ReplayGrant(r)
    <3>1. CASE \E a \in Authorizations : BeginCode(r, a)
      BY <1>2, <3>1, BeginEffect DEF BeginCode
    <3>2. CASE \E p \in Requests : BeginRefresh(r, p)
      BY <1>2, <3>2, BeginEffect DEF BeginRefresh
    <3>3. CASE \E asked \in ScopeSets : FindGrant(r, asked)
      BY <1>2, <3>3, FindEffect
    <3>4. CASE RedeemCode(r) \/ ReplayCascade(r) \/ Present(r) \/ ClaimGrant(r) \/ Sign(r)
               \/ IssueRefresh(r) \/ Supersede(r) \/ Stop(r)
      <4>1. PICK pc \in PCs \ {"cascade"} : Step(r, pc)
        BY <3>4 DEF RedeemCode, ReplayCascade, Present, ClaimGrant, Sign, IssueRefresh,
           Supersede, Stop, PCs
      <4> QED BY <1>2, <4>1, StepEffect
    <3> QED BY <2>3, <3>1, <3>2, <3>3, <3>4 DEF Exchange
  <2> QED BY <2>1, <2>2, <2>3, RequestStep
<1> QED BY <1>1, <1>2 DEF Timely

LEMMA TimelyInv == Spec => []Timely
<1>1. Init => Timely
  BY DEF Init, Timely
<1>2. TypeOK /\ TypeOK' /\ MarkLasts /\ Timely /\ [Next]_vars => Timely'
  BY TimelyStep
<1> QED BY <1>1, <1>2, TypeCorrect, MarkInv, PTL DEF Spec

(* A withdrawal moves the mark to the instant it read, which is no older   *)
(* than its lag.                                                           *)
LEMMA WithdrawalReach ==
  ASSUME TypeOK, NEW t \in Nat, Recent(t), Withdraw(t)
  PROVE  t <= cutoff'.before /\ clock <= t + MaxLag
BY WithdrawEffect DEF Recent

(* A refresh row is revoked by a withdrawal, or along with its grant.      *)
LEMMA RevocationStep ==
  ASSUME TypeOK, Custody, Lineage, Timely, [Next]_vars,
         NEW p \in Requests, ~row[p].revoked, row'[p].revoked
  PROVE  \/ grant'.revoked
         \/ /\ row'[p].since \in Nat
            /\ row'[p].since <= cutoff'.before
            /\ clock <= row'[p].since + MaxLag
<1> DEFINE Goal == \/ grant'.revoked
                   \/ /\ row'[p].since \in Nat
                      /\ row'[p].since <= cutoff'.before
                      /\ clock <= row'[p].since + MaxLag
<1>0. row \in [Requests -> Row] /\ grant \in Grant
  BY DEF TypeOK
<1>1. ASSUME row'[p].revoked = row[p].revoked PROVE Goal
  BY <1>1
<1>2. ASSUME NEW r \in Requests, ReplayCascade(r) PROVE Goal
  <2>0. req[r].at \in Nat /\ row' = RevokedRows(req[r].at)
    BY <1>2, InstantType DEF ReplayCascade
  <2>1. row[p].there
    BY <2>0, RevokedRowsEffect
  <2>2. grant.there /\ req[r].pc = "cascade"
    BY <1>2, <2>1 DEF Custody, ReplayCascade
  <2> QED BY <1>2, <2>2 DEF Timely, ReplayCascade
<1>3. ASSUME NEW r \in Requests, Present(r) PROVE Goal
  <2>1. CASE UNCHANGED row
    BY <1>1, <2>1
  <2>2. CASE row' = [row EXCEPT ![req[r].cred].idle
                       = IdleDeadline(req[r].at, row[req[r].cred].abs)]
    <3>1. row'[p].revoked = row[p].revoked
      BY <1>0, <2>2 DEF Row
    <3> QED BY <1>1, <3>1
  <2> QED BY <1>3, <2>1, <2>2 DEF Present
<1>4. ASSUME NEW r \in Requests, IssueRefresh(r) PROVE Goal
  <2>1. row'[p] = row[p] \/ row'[p].revoked = FALSE
    BY <1>0, <1>4 DEF IssueRefresh, NewRow
  <2> QED BY <2>1
<1>5. ASSUME NEW r \in Requests, Supersede(r) PROVE Goal
  <2>1. req[req[r].cred].pc = "done" /\ req[r].pc = "keep"
    BY <1>5 DEF Supersede, Lineage
  <2>2. req[r].cred # r
    BY <2>1
  <2>3. CASE p = r
    BY <1>5, <2>2, <2>3, SupersedeEffect
  <2>4. CASE p # r
    <3> DEFINE mid == [row EXCEPT ![r] = Replacement(r)]
    <3>1. PICK stamped : row' = [mid EXCEPT ![req[r].cred].superseded = stamped]
      BY <1>5 DEF Supersede
    <3>2. mid[p] = row[p] /\ p \in DOMAIN mid
      BY <1>0, <2>4
    <3> HIDE DEF mid
    <3>3. row'[p] = row[p] \/ row'[p] = [row[p] EXCEPT !.superseded = stamped]
      BY <3>1, <3>2
    <3>4. row'[p].revoked = row[p].revoked
      BY <1>0, <3>3 DEF Row
    <3> QED BY <3>4
  <2> QED BY <2>3, <2>4
<1>6. ASSUME NEW t \in 0..MaxClock, Withdrawal(t) PROVE Goal
  <2>1. t \in Nat
    OBVIOUS
  <2>2. CASE Recent(t) /\ Withdraw(t) /\ row' = RevokedRows(t)
    <3>1. row'[p].since = t
      BY <2>1, <2>2, RevokedRowsEffect
    <3> QED BY <2>1, <2>2, <3>1, WithdrawalReach
  <2>3. ASSUME NEW q \in Requests, RevokeRefresh(q, t) PROVE Goal
    <3>1. row'[p] = row[p] \/ row'[p] = RevokedRow(p, t)
      BY <1>0, <2>3 DEF RevokeRefresh
    <3>2. row'[p].since = t
      BY <2>1, <3>1, RevokedRowEffect
    <3> QED BY <2>1, <2>3, <3>2, WithdrawalReach DEF RevokeRefresh
  <2>4. CASE UNCHANGED row
    BY <1>1, <2>4
  <2> HIDE DEF Goal
  <2> QED BY <1>6, <2>2, <2>3, <2>4 DEF Withdrawal, Revoke, RevokeForSession, DenylistAccessToken
<1>7. ASSUME NEW a \in Authorizations, Amendment(a) PROVE Goal
  <2>1. auth[a].at \in Nat
    BY DEF TypeOK, Auth, Instant
  <2>2. CASE Amend(a)
    <3>1. Recent(auth[a].at) /\ Withdraw(auth[a].at) /\ row' = RevokedRows(auth[a].at)
      BY <2>2 DEF Amend
    <3>2. row'[p].since = auth[a].at
      BY <2>1, <3>1, RevokedRowsEffect
    <3> QED BY <2>1, <3>1, <3>2, WithdrawalReach
  <2>3. CASE UNCHANGED row
    BY <1>1, <2>3
  <2> QED BY <1>7, <2>2, <2>3 DEF Amendment, AmendFind, IssueCode
<1>8. ASSUME NEW q \in Requests, SweepRefresh(q) PROVE Goal
  <2>1. row'[p].revoked = row[p].revoked
    BY <1>0, <1>8 DEF SweepRefresh, Row
  <2> QED BY <1>1, <2>1
<1>9. ASSUME PurgeUnclaimed PROVE Goal
  <2>1. row'[p] = [row[p] EXCEPT !.there = FALSE]
    BY <1>9 DEF PurgeUnclaimed
  <2>2. row'[p].revoked = row[p].revoked
    BY <1>0, <2>1 DEF Row
  <2> QED BY <1>1, <2>2
<1>10. ASSUME UNCHANGED row PROVE Goal
  BY <1>10
<1> HIDE DEF Goal
<1>11. ASSUME NEW r \in Requests, Exchange(r) PROVE Goal
  BY <1>2, <1>3, <1>4, <1>5, <1>10, <1>11 DEF Exchange, BeginCode, BeginRefresh, Begin,
     RedeemCode, ReplayGrant, FindGrant, ClaimGrant, Sign, Stop
<1>12. ASSUME Retention PROVE Goal
  BY <1>8, <1>9, <1>10, <1>12 DEF Retention, SweepCode, SweepDenylist, SweepCutoff
<1>13. ASSUME Tick \/ UNCHANGED vars PROVE Goal
  BY <1>10, <1>13 DEF Tick, vars
<1>14. Goal
  BY <1>6, <1>7, <1>11, <1>12, <1>13 DEF Next
<1> QED BY <1>14 DEF Goal

(* The scopes of the grant change in an amendment, which withdraws.        *)
LEMMA AmendmentOnly ==
  ASSUME TypeOK, [Next]_vars, grant'.scopes # grant.scopes
  PROVE  \E a \in Authorizations : Amend(a)
<1>0. grant \in Grant
  BY DEF TypeOK
<1>1. ASSUME NEW r \in Requests, Exchange(r) PROVE grant'.scopes = grant.scopes
  BY <1>0, <1>1 DEF Exchange, BeginCode, BeginRefresh, Begin, RedeemCode, ReplayGrant,
     ReplayCascade, Present, FindGrant, ClaimGrant, Sign, IssueRefresh, Supersede, Stop, Grant
<1>2. ASSUME NEW t \in 0..MaxClock, Withdrawal(t) PROVE grant'.scopes = grant.scopes
  BY <1>0, <1>2 DEF Withdrawal, Revoke, RevokeForSession, RevokeRefresh,
     DenylistAccessToken, Grant
<1>3. ASSUME Retention \/ Tick \/ UNCHANGED vars PROVE grant'.scopes = grant.scopes
  BY <1>0, <1>3 DEF Retention, SweepCode, SweepRefresh, SweepDenylist, SweepCutoff,
     PurgeUnclaimed, Tick, vars, Grant
<1> QED BY <1>1, <1>2, <1>3 DEF Next, Amendment, AmendFind, IssueCode

LEMMA AmendmentStep ==
  ASSUME TypeOK, [Next]_vars, grant'.scopes # grant.scopes
  PROVE  \E a \in Authorizations :
           /\ Amend(a)
           /\ grant'.scopes = auth[a].scopes
           /\ auth[a].at \in Nat /\ auth[a].at <= cutoff'.before
           /\ clock <= auth[a].at + MaxLag
<1>1. PICK a \in Authorizations : Amend(a)
  BY AmendmentOnly
<1>2. auth[a].at \in Nat /\ Recent(auth[a].at) /\ Withdraw(auth[a].at)
  BY <1>1 DEF Amend, TypeOK, Auth, Instant
<1>3. grant'.scopes = auth[a].scopes
  BY <1>1 DEF Amend, Amended, TypeOK, Grant
<1> QED BY <1>1, <1>2, <1>3, WithdrawalReach

(* An authorization that has amended the grant keeps what it wrote.        *)
LEMMA AuthStep ==
  ASSUME TypeOK, [Next]_vars, NEW a \in Authorizations, auth[a].pc \in {"amended", "done"}
  PROVE  /\ auth[a].pc = "done" => auth'[a].pc = "done"
         /\ auth'[a].pc \in {"amended", "done"}
         /\ auth'[a].at = auth[a].at /\ auth'[a].scopes = auth[a].scopes
<1>0. auth \in [Authorizations -> Auth]
  BY DEF TypeOK
<1>1. ASSUME NEW b \in Authorizations, Amendment(b)
      PROVE  auth'[a] = auth[a] \/ (a = b /\ IssueCode(a))
  BY <1>0, <1>1 DEF Amendment, AmendFind, Amend, IssueCode
<1>2. CASE IssueCode(a)
  BY <1>0, <1>2 DEF IssueCode, Auth
<1>3. auth' = auth \/ \E b \in Authorizations : Amendment(b)
  BY ZenonT(60) DEF Next, Tick, Exchange, Withdrawal, Retention, vars, BeginCode,
     BeginRefresh, Begin, RedeemCode, ReplayGrant, ReplayCascade, Present, FindGrant,
     ClaimGrant, Sign, IssueRefresh, Supersede, Stop, Revoke, RevokeForSession,
     RevokeRefresh, DenylistAccessToken, SweepCode, SweepRefresh, SweepDenylist,
     SweepCutoff, PurgeUnclaimed
<1> QED BY <1>1, <1>2, <1>3

(* A token that arrived by now is reached by a mark no older than its lag, *)
(* or overtook it.                                                         *)
LEMMA ReachedOrOvertook ==
  ASSUME TypeOK, TypeOK', Timely, NEW r \in Requests, NEW t \in Nat, t <= cutoff'.before,
         clock <= t + MaxLag, req'[r].at = req[r].at
  PROVE  Covered(r)' \/ Overtook(req[r].at, t)
<1>1. req[r].at <= clock /\ req[r].at \in Nat /\ clock \in Nat /\ MaxLag \in Nat
      /\ cutoff'.before \in Int
  BY InstantType, LivesAssumption DEF Timely, TypeOK, Cutoff, Instant, Null
<1> QED BY <1>1 DEF Covered, Overtook

LEMMA RevokedCoveredStep ==
  ASSUME TypeOK, TypeOK', Custody, Lineage, MarkLasts, Timely, RevokedCovered, [Next]_vars
  PROVE  RevokedCovered'
<1> SUFFICES ASSUME NEW r \in Requests, req'[r].kind = "refresh", Paid(r)',
                    row'[req'[r].cred].revoked
             PROVE  Covered(r)' \/ Overtook(req'[r].at, row'[req'[r].cred].since)
  BY DEF RevokedCovered, Overtook
<1>1. CASE /\ Paid(r) /\ req'[r].kind = req[r].kind /\ req'[r].cred = req[r].cred
           /\ req'[r].at = req[r].at
  <2> DEFINE p == req[r].cred
  <2>1. req[r].pc # "idle" /\ p \in Requests
    BY <1>1 DEF Paid, Custody, TypeOK
  <2>2. CASE row[p].revoked
    <3>1. ~IssueRefresh(p) /\ ~Supersede(p)
      BY <1>1, <2>1 DEF Lineage, IssueRefresh, Supersede
    <3>2. row'[p].since = row[p].since
      BY <2>1, <2>2, <3>1, RowStep
    <3>3. Covered(r) \/ Overtook(req[r].at, row[p].since)
      BY <1>1, <2>2 DEF RevokedCovered
    <3> QED BY <1>1, <2>1, <3>2, <3>3, CoveredStep
  <2>3. CASE ~row[p].revoked
    <3>1. CASE grant'.revoked
      BY <3>1 DEF Covered
    <3>2. CASE /\ row'[p].since \in Nat
               /\ row'[p].since <= cutoff'.before
               /\ clock <= row'[p].since + MaxLag
      BY <1>1, <3>2, ReachedOrOvertook
    <3> QED BY <1>1, <2>1, <2>3, <3>1, <3>2, RevocationStep
  <2> QED BY <2>2, <2>3
<1>2. CASE RedeemCode(r) /\ Spendable(req[r].cred, req[r].at)
  <2>1. Step(r, "find") /\ "find" \in PCs /\ req[r].kind = "code"
    BY <1>2 DEF RedeemCode, PCs
  <2> QED BY <2>1, StepEffect
<1>3. CASE Present(r) /\ Presentable(req[r].cred, req[r].at)
  <2> DEFINE p == req[r].cred
  <2>1. /\ Step(r, "find") /\ "find" \in PCs
        /\ p \in Requests /\ ~row[p].revoked
        /\ row' = [row EXCEPT ![p].idle = IdleDeadline(req[r].at, row[p].abs)]
    BY <1>3 DEF Present, Presentable, PCs, TypeOK
  <2>2. req'[r].cred = p
    BY <2>1, StepEffect
  <2>3. row'[p].revoked = row[p].revoked
    BY <2>1 DEF TypeOK, Row
  <2> QED BY <2>1, <2>2, <2>3
<1> QED BY <1>1, <1>2, <1>3, PaidStep

LEMMA NarrowedCoveredStep ==
  ASSUME TypeOK, TypeOK', Custody, Fence, MarkLasts, Timely, NarrowedCovered, [Next]_vars
  PROVE  NarrowedCovered'
<1>0. auth[First].pc = "done" /\ auth'[First].pc = "done"
  BY NamesAssumption, AuthStep DEF NarrowedCovered
<1> SUFFICES ASSUME NEW r \in signed', req'[r].kind = "code"
             PROVE  req'[r].scopes \subseteq grant'.scopes \/ Covered(r)' \/ Outran(r)'
  BY <1>0 DEF NarrowedCovered
<1>1. CASE r \in signed
  <2>1. r \in Requests /\ req[r].pc \in {"keep", "done"}
    BY <1>1 DEF TypeOK, Custody
  <2>2. req'[r].kind = req[r].kind /\ req'[r].scopes = req[r].scopes /\ req'[r].at = req[r].at
    BY <2>1, RequestKeeps
  <2>3. CASE Covered(r)
    BY <2>1, <2>3, CoveredStep
  <2>4. CASE Outran(r)
    <3>1. PICK a \in Amendments : /\ ~(req[r].scopes \subseteq auth[a].scopes)
                                 /\ Overtook(req[r].at, auth[a].at)
      BY <2>4 DEF Outran
    <3>2. /\ a \in Authorizations \ {First} /\ auth'[a].pc \in {"amended", "done"}
          /\ auth'[a].at = auth[a].at /\ auth'[a].scopes = auth[a].scopes
      BY <3>1, AuthStep DEF Amendments
    <3>3. a \in Amendments'
      BY <3>2 DEF Amendments
    <3>4. Overtook(req'[r].at, auth'[a].at) /\ ~(req'[r].scopes \subseteq auth'[a].scopes)
      BY <2>2, <3>1, <3>2
    <3> QED BY <3>3, <3>4 DEF Outran, Overtook
  <2>5. CASE req[r].scopes \subseteq grant.scopes /\ grant'.scopes = grant.scopes
    BY <2>2, <2>5
  <2>6. CASE grant'.scopes # grant.scopes /\ ~(req[r].scopes \subseteq grant'.scopes)
    <3>1. PICK a \in Authorizations :
            /\ Amend(a)
            /\ grant'.scopes = auth[a].scopes
            /\ auth[a].at \in Nat /\ auth[a].at <= cutoff'.before
            /\ clock <= auth[a].at + MaxLag
      BY <2>6, AmendmentStep
    <3>2. auth[a].pc = "held" /\ auth' = [auth EXCEPT ![a].pc = "amended"]
      BY <3>1 DEF Amend
    <3>3. auth'[a].pc = "amended" /\ auth'[a].at = auth[a].at /\ auth'[a].scopes = auth[a].scopes
      BY <3>2 DEF TypeOK, Auth
    <3>4. a \in Amendments'
      BY <1>0, <3>2, <3>3 DEF Amendments
    <3>5. CASE Covered(r)'
      BY <3>5
    <3>6. CASE Overtook(req[r].at, auth[a].at)
      <4>1. Overtook(req'[r].at, auth'[a].at) /\ ~(req'[r].scopes \subseteq auth'[a].scopes)
        BY <2>2, <2>6, <3>1, <3>3, <3>6
      <4> QED BY <3>4, <4>1 DEF Outran, Overtook
    <3> QED BY <2>1, <2>2, <3>1, <3>5, <3>6, ReachedOrOvertook
  <2> QED BY <1>1, <2>2, <2>3, <2>4, <2>5, <2>6 DEF NarrowedCovered
<1>2. CASE r \notin signed
  <2>1. r \in Requests /\ Sign(r)
    BY <1>2, SignedStep
  <2>2. req[r].pc = "sign" /\ grant.rev = req[r].rev /\ UNCHANGED grant
    BY <2>1 DEF Sign, Fenced
  <2>3. req'[r].kind = req[r].kind /\ req'[r].scopes = req[r].scopes
    BY <2>1, <2>2, RequestKeeps
  <2> QED BY <2>1, <2>2, <2>3 DEF Fence
<1> QED BY <1>1, <1>2

LEMMA RevokedCoveredInv == Spec => []RevokedCovered
<1>1. Init => RevokedCovered
  BY DEF Init, RevokedCovered, Paid
<1>2. TypeOK /\ TypeOK' /\ Custody /\ (Lineage /\ RotationInherits) /\ MarkLasts /\ Timely
        /\ RevokedCovered /\ [Next]_vars => RevokedCovered'
  BY RevokedCoveredStep
<1> QED BY <1>1, <1>2, TypeCorrect, CustodyInv, LineageInv, MarkInv, TimelyInv, PTL DEF Spec

(* Whatever lag withdrawals have, nothing a revoked refresh token paid for *)
(* is active, though it be signed after the revocation, except the token   *)
(* of a request that arrived while the revocation was under way.           *)
THEOREM RevokedRefreshIsDead == Spec => []RevocationReaches
<1>1. RevokedCovered => RevocationReaches
  <2> SUFFICES ASSUME RevokedCovered, Named, NEW r \in Requests, req[r].kind = "refresh",
                      row[req[r].cred].revoked, Active(r)
               PROVE  Overtook(req[r].at, row[req[r].cred].since)
    BY DEF RevocationReaches
  <2>1. Covered(r) \/ Overtook(req[r].at, row[req[r].cred].since)
    BY DEF RevokedCovered, Paid, Active
  <2> QED BY <2>1, CoveredInactive
<1> QED BY <1>1, RevokedCoveredInv, PTL

(* Whatever lag withdrawals have, an active access token a code paid for   *)
(* has only scopes the grant still has, except that of a request that      *)
(* arrived while the amendment that took one away was under way.           *)
THEOREM CodeTokensNarrowed == Spec => []AmendmentReaches
<1>1. Init => NarrowedCovered
  BY NamesAssumption DEF Init, NarrowedCovered
<1>2. TypeOK /\ TypeOK' /\ Custody /\ Fence /\ MarkLasts /\ Timely
        /\ NarrowedCovered /\ [Next]_vars => NarrowedCovered'
  BY NarrowedCoveredStep
<1>3. NarrowedCovered => AmendmentReaches
  <2> SUFFICES ASSUME NarrowedCovered, Named, NEW r \in Requests, Active(r),
                      req[r].kind = "code", ~(req[r].scopes \subseteq grant.scopes)
               PROVE  Outran(r)
    BY DEF AmendmentReaches, Outran
  <2>1. Covered(r) \/ Outran(r)
    BY DEF NarrowedCovered, Active
  <2> QED BY <2>1, CoveredInactive
<1> QED BY <1>1, <1>2, <1>3, TypeCorrect, CustodyInv, FenceInv, MarkInv, TimelyInv, PTL
       DEF Spec

-----------------------------------------------------------------------------
(* The refinement of Authority.                                            *)

(* A refresh token has no scope that the access token minted with it has   *)
(* not, it is not revoked before it is there, and a request that presents  *)
(* one presents that of a request that signed.                             *)
RowBacked ==
  \A r \in Requests :
    /\ row[r].scopes \subseteq req[r].scopes
    /\ req[r].pc # "done" => row[r].scopes = {} /\ ~row[r].revoked
    /\ req[r].kind = "refresh" => req[r].cred \in signed

LEMMA SignedGrows ==
  ASSUME TypeOK, [Next]_vars
  PROVE  signed \subseteq signed'
BY ZenonT(60) DEF Next, Tick, Exchange, Withdrawal, Amendment, Retention, vars, BeginCode,
   BeginRefresh, Begin, RedeemCode, ReplayGrant, ReplayCascade, Present, FindGrant,
   ClaimGrant, Sign, IssueRefresh, Supersede, Stop, Revoke, RevokeForSession,
   RevokeRefresh, DenylistAccessToken, AmendFind, Amend, IssueCode, SweepCode,
   SweepRefresh, SweepDenylist, SweepCutoff, PurgeUnclaimed

LEMMA WrittenRow ==
  ASSUME TypeOK, Lineage, NEW r \in Requests, IssueRefresh(r) \/ Supersede(r)
  PROVE  /\ row'[r].scopes = req[r].scopes /\ row'[r].revoked = FALSE
         /\ req'[r].scopes = req[r].scopes /\ req'[r].pc = "done" /\ req[r].pc = "keep"
<1>1. Step(r, "done") /\ "done" \in PCs /\ req[r].pc = "keep"
  BY DEF IssueRefresh, Supersede, PCs
<1>2. req'[r].scopes = req[r].scopes /\ req'[r].pc = "done"
  BY <1>1, StepEffect
<1>3. CASE IssueRefresh(r)
  <2>1. row'[r] = NewRow(r, r, req[r].at + AbsLife)
    BY <1>3 DEF IssueRefresh, TypeOK
  <2> QED BY <1>1, <1>2, <2>1 DEF NewRow
<1>4. CASE Supersede(r)
  <2>1. req[r].cred # r
    BY <1>1, <1>4 DEF Lineage, Supersede
  <2> QED BY <1>1, <1>2, <1>4, <2>1, SupersedeEffect
<1> QED BY <1>3, <1>4

LEMMA RowBackedStep ==
  ASSUME TypeOK, TypeOK', Custody, Lineage, RowBacked, [Next]_vars
  PROVE  RowBacked'
<1> SUFFICES ASSUME NEW r \in Requests
             PROVE  /\ row'[r].scopes \subseteq req'[r].scopes
                    /\ req'[r].pc # "done" => row'[r].scopes = {} /\ ~row'[r].revoked
                    /\ req'[r].kind = "refresh" => req'[r].cred \in signed'
  BY DEF RowBacked
<1>1. req'[r].kind = "refresh" => req'[r].cred \in signed'
  <2>1. CASE req'[r].kind = req[r].kind /\ req'[r].cred = req[r].cred
    BY <2>1, SignedGrows DEF RowBacked
  <2>2. CASE Exchange(r) /\ req[r].pc = "idle"
    <3>1. \/ \E a \in Authorizations : BeginCode(r, a)
          \/ \E p \in Requests : BeginRefresh(r, p)
      BY <2>2 DEF Exchange, RedeemCode, ReplayGrant, ReplayCascade,
         Present, FindGrant, ClaimGrant, Sign, IssueRefresh, Supersede, Stop
    <3>2. CASE \E a \in Authorizations : BeginCode(r, a)
      BY <3>2, BeginEffect DEF BeginCode
    <3>3. ASSUME NEW p \in Requests, BeginRefresh(r, p) PROVE req'[r].cred \in signed'
      <4>1. req'[r].cred = p /\ row[p].there
        BY <3>3, BeginEffect DEF BeginRefresh
      <4> QED BY <4>1, SignedGrows DEF Custody
    <3> QED BY <3>1, <3>2, <3>3
  <2> QED BY <2>1, <2>2, RequestStep, RequestKeeps
<1>2. CASE IssueRefresh(r) \/ Supersede(r)
  BY <1>1, <1>2, WrittenRow
<1>3. CASE /\ row'[r].scopes = row[r].scopes
           /\ row'[r].revoked => row[r].revoked \/ row[r].there
  <2>1. CASE req[r].pc = "done"
    <3>1. req'[r].scopes = req[r].scopes /\ req'[r].pc = "done"
      BY <2>1, RequestKeeps
    <3> QED BY <1>1, <1>3, <3>1 DEF RowBacked
  <2>2. CASE req[r].pc # "done"
    <3>1. row'[r].scopes = {} /\ ~row'[r].revoked
      BY <1>3, <2>2 DEF RowBacked, Lineage
    <3> QED BY <1>1, <3>1
  <2> QED BY <2>1, <2>2
<1> QED BY <1>2, <1>3, RowStep

LEMMA RowBackedInv == Spec => []RowBacked
<1>1. Init => RowBacked
  BY DEF Init, RowBacked, NoRow
<1>2. TypeOK /\ TypeOK' /\ Custody /\ (Lineage /\ RotationInherits) /\ RowBacked /\ [Next]_vars
        => RowBacked'
  BY RowBackedStep
<1> QED BY <1>1, <1>2, TypeCorrect, CustodyInv, LineageInv, PTL DEF Spec

LEMMA VoidGrows ==
  ASSUME TypeOK, Lineage, RowBacked, [Next]_vars
  PROVE  Voided \subseteq Voided' /\ Voided' \subseteq Requests
<1> SUFFICES ASSUME NEW p \in Requests, row[p].revoked PROVE row'[p].revoked
  BY DEF Voided
<1>1. ~(IssueRefresh(p) \/ Supersede(p))
  BY WrittenRow DEF RowBacked
<1> QED BY <1>1, RowStep

LEMMA SeenFields ==
  ASSUME NEW r \in Requests
  PROVE  /\ Shown[r] = Seen(r)
         /\ Shown[r].state # "none" <=> r \in signed
         /\ r \in signed => /\ Shown[r].kind = req[r].kind /\ Shown[r].by = req[r].cred
                            /\ Shown[r].scopes = req[r].scopes
<1>1. Shown[r] = Seen(r)
  BY DEF Shown
<1>2. CASE r \in signed
  <2>1. Seen(r) = [state |-> IF Active(r) THEN "good" ELSE "dead", kind |-> req[r].kind,
                   by |-> req[r].cred, scopes |-> req[r].scopes]
    BY <1>2 DEF Seen
  <2> QED BY <1>1, <1>2, <2>1
<1>3. CASE r \notin signed
  BY <1>1, <1>3 DEF Seen
<1> QED BY <1>2, <1>3

(* A token, once signed, changes in one way only.                          *)
LEMMA SeenStep ==
  ASSUME TypeOK, TypeOK', Custody, MarkLasts, [Next]_vars,
         NEW r \in Requests, r \in signed' => r \in signed
  PROVE  \/ Seen(r)' = Seen(r)
         \/ Seen(r).state = "good" /\ Seen(r)' = [Seen(r) EXCEPT !.state = "dead"]
<1>1. CASE r \notin signed'
  BY <1>1, SignedGrows DEF Seen
<1>2. CASE r \in signed'
  <2>1. r \in signed /\ req[r].pc \in {"keep", "done"}
    BY <1>2 DEF Custody
  <2>2. req'[r].kind = req[r].kind /\ req'[r].cred = req[r].cred
        /\ req'[r].scopes = req[r].scopes
    BY <2>1, RequestKeeps
  <2>3. Active(r)' => Active(r)
    BY <2>1, InactiveStep
  <2> DEFINE S(x) == [state |-> x, kind |-> req[r].kind, by |-> req[r].cred,
                      scopes |-> req[r].scopes]
  <2>4. Seen(r) = S(IF Active(r) THEN "good" ELSE "dead")
    BY <2>1 DEF Seen
  <2>5. Seen(r)' = S(IF Active(r)' THEN "good" ELSE "dead")
    BY <1>2, <2>2 DEF Seen
  <2>6. S("good").state = "good" /\ [S("good") EXCEPT !.state = "dead"] = S("dead")
    OBVIOUS
  <2> HIDE DEF S
  <2> QED BY <2>3, <2>4, <2>5, <2>6
<1> QED BY <1>1, <1>2

(* Steps that sign nothing: what dies, and when everything does.           *)
LEMMA DieSome ==
  ASSUME TypeOK, TypeOK', Custody, MarkLasts, [Next]_vars, signed' = signed
  PROVE  \E D \in SUBSET Requests : Promise!Die(D)
<1> DEFINE D == {r \in Requests : Seen(r)' # Seen(r)}
<1>1. D \in SUBSET Requests
  OBVIOUS
<1>2. ASSUME NEW r \in Requests
      PROVE  Seen(r)' = IF r \in D /\ Seen(r).state = "good"
                          THEN [Seen(r) EXCEPT !.state = "dead"] ELSE Seen(r)
  BY SeenStep
<1>3. \A r \in Requests : Shown[r] = Seen(r)
  BY DEF Shown
<1>4. Shown' = [r \in Requests |-> Seen(r)']
  BY DEF Shown
<1> HIDE DEF D
<1>5. Shown' = [r \in Requests |-> IF r \in D /\ Shown[r].state = "good"
                                     THEN [Shown[r] EXCEPT !.state = "dead"] ELSE Shown[r]]
  BY <1>2, <1>3, <1>4
<1> QED BY <1>1, <1>5 DEF Promise!Die

LEMMA DieAll ==
  ASSUME TypeOK, TypeOK', Custody, MarkLasts, [Next]_vars, signed' = signed,
         \A r \in signed : ~Active(r)'
  PROVE  Promise!Die(Requests)
<1>2. ASSUME NEW r \in Requests
      PROVE  Seen(r)' = IF r \in Requests /\ Seen(r).state = "good"
                          THEN [Seen(r) EXCEPT !.state = "dead"] ELSE Seen(r)
  <2>1. Seen(r)'.state # "good"
    BY DEF Seen
  <2> QED BY <2>1, SeenStep
<1>3. \A r \in Requests : Shown[r] = Seen(r)
  BY DEF Shown
<1>4. Shown' = [r \in Requests |-> Seen(r)']
  BY DEF Shown
<1>5. Shown' = [r \in Requests |-> IF r \in Requests /\ Shown[r].state = "good"
                                     THEN [Shown[r] EXCEPT !.state = "dead"] ELSE Shown[r]]
  BY <1>2, <1>3, <1>4
<1> QED BY <1>5 DEF Promise!Die

(* A withdrawal of the promise, given that it reaches all it must.         *)
LEMMA WithdrawStep ==
  ASSUME TypeOK, TypeOK', Custody, Lineage, MarkLasts, RowBacked, [Next]_vars, signed' = signed,
         NEW all \in BOOLEAN, all => \A r \in signed : ~Active(r)'
  PROVE  Promise!Withdraw(all)
<1>1. Voided \subseteq Voided' /\ Voided' \subseteq Requests
  BY VoidGrows
<1>2. \E D \in SUBSET Requests : (all => D = Requests) /\ Promise!Die(D)
  <2>1. CASE all
    <3>1. Promise!Die(Requests) /\ Requests \in SUBSET Requests
      BY <2>1, DieAll
    <3> QED BY <3>1
  <2>2. CASE ~all
    BY <2>2, DieSome
  <2> QED BY <2>1, <2>2
<1> QED BY <1>1, <1>2 DEF Promise!Withdraw

(* What ends stays ended, and only an amendment of an open grant changes   *)
(* what it holds.                                                          *)
LEMMA GrantMoves ==
  ASSUME TypeOK, [Next]_vars
  PROVE  /\ Standing = "ended" => Standing' = "ended"
         /\ grant'.scopes # grant.scopes => Standing = "open" /\ Standing' = "open"
         /\ grant'.scopes \in SUBSET Scopes
<1>0. grant \in Grant /\ grant' \in Grant
  BY TypeStep DEF TypeOK
<1>1. ~grant.there => ~grant'.there
  BY <1>0, ZenonT(60) DEF Grant, Next, Tick, Exchange, Withdrawal, Amendment, Retention, vars,
     BeginCode, BeginRefresh, Begin, RedeemCode, ReplayGrant, ReplayCascade, Present,
     FindGrant, ClaimGrant, Sign, IssueRefresh, Supersede, Stop, Revoke,
     RevokeForSession, RevokeRefresh, DenylistAccessToken, AmendFind, Amend, IssueCode,
     SweepCode, SweepRefresh, SweepDenylist, SweepCutoff, PurgeUnclaimed
<1>2. ASSUME grant'.scopes # grant.scopes PROVE Standing = "open" /\ Standing' = "open"
  <2>1. PICK a \in Authorizations : Amend(a)
    BY <1>2, AmendmentOnly
  <2>2. grant.there /\ ~grant.revoked /\ grant' \in Amended(auth[a].scopes, grant.rev)
    BY <2>1 DEF Amend
  <2>3. grant'.there = grant.there /\ grant'.revoked = grant.revoked
    BY <1>0, <2>2 DEF Amended, Grant
  <2> QED BY <2>2, <2>3 DEF Standing
<1>3. grant'.scopes \in SUBSET Scopes
  BY <1>0 DEF Grant, ScopeSets
<1> QED BY <1>1, <1>2, <1>3, GrantStep DEF Standing

(* A withdrawal that reaches the present second reaches every token.       *)
LEMMA PresentMark ==
  ASSUME TypeOK, TypeOK', Custody, Timely, [Next]_vars, Named,
         grant'.revoked \/ clock <= cutoff'.before
  PROVE  \A r \in signed : ~Active(r)'
<1> SUFFICES ASSUME NEW r \in signed PROVE ~Active(r)'
  OBVIOUS
<1>1. r \in Requests /\ req[r].pc # "idle"
  BY DEF TypeOK, Custody
<1>2. req'[r].at = req[r].at /\ req[r].at <= clock
  BY <1>1, RequestKeeps DEF Timely
<1>3. req[r].at \in Nat /\ clock \in Nat /\ cutoff'.before \in Int
  BY <1>1, InstantType DEF TypeOK, Cutoff, Instant, Null
<1>4. Covered(r)'
  BY <1>2, <1>3 DEF Covered
<1> QED BY <1>4 DEF Covered, Active, Withdrawn, GrantActive

LEMMA MintStep ==
  ASSUME TypeOK, TypeOK', Fence, Custody, SpentOnce, Lineage, MarkLasts, RowBacked,
         RevokedCovered, [Next]_vars, NEW r \in Requests, Sign(r), r \notin signed
  PROVE  Promise!Next
<1> DEFINE state == IF Active(r)' THEN "good" ELSE "dead"
           S == req[r].scopes
           c == req[r].cred
<1>1. /\ req[r].pc = "sign" /\ GrantActive /\ grant.rev = req[r].rev
      /\ signed' = signed \union {r} /\ UNCHANGED <<clock, grant, cutoff, deny, row>>
  BY DEF Sign, Fenced
<1>2. PICK pc \in PCs : Step(r, pc)
  BY DEF Sign, PCs
<1>3. /\ req'[r].kind = req[r].kind /\ req'[r].cred = c /\ req'[r].scopes = S
      /\ \A q \in Requests \ {r} : req'[q] = req[q]
  <2>1. \A q \in Requests \ {r} : req'[q] = req[q]
    BY <1>2 DEF Step, TypeOK
  <2> QED BY <1>2, <2>1, StepEffect
<1>4. /\ state \in {"good", "dead"} /\ S \in SUBSET Scopes
      /\ req[r].kind \in {"code", "refresh"}
      /\ c \in IF req[r].kind = "code" THEN Authorizations ELSE Requests
  BY DEF TypeOK, Req, ScopeSets
<1>5. Standing = "open" /\ Standing' = Standing /\ grant'.scopes = grant.scopes
      /\ Voided' = Voided
  BY <1>1 DEF Standing, GrantActive, Voided
<1>6. \A q \in Requests : Shown[q].state # "none" <=> q \in signed
  BY SeenFields
<1>7. \A q \in Requests \ {r} : Seen(q)' = Seen(q)
  <2> SUFFICES ASSUME NEW q \in Requests \ {r} PROVE Seen(q)' = Seen(q)
    OBVIOUS
  <2>1. req'[q] = req[q] /\ (q \in signed' <=> q \in signed)
    BY <1>1, <1>3
  <2>2. Active(q)' <=> Active(q)
    BY <1>1, <2>1 DEF Active, Unexpired, Withdrawn, GrantActive
  <2> QED BY <2>1, <2>2 DEF Seen
<1>8. Seen(r)' = [state |-> state, kind |-> req[r].kind, by |-> c, scopes |-> S]
  BY <1>1, <1>3 DEF Seen
<1>9. Shown' = [Shown EXCEPT ![r] =
                   [state |-> state, kind |-> req[r].kind, by |-> c, scopes |-> S]]
  <2>1. Shown' = [q \in Requests |-> Seen(q)'] /\ Shown = [q \in Requests |-> Seen(q)]
    BY DEF Shown
  <2> HIDE DEF state, S, c
  <2> QED BY <1>7, <1>8, <2>1
<1>10. Promise!Mint(r, req[r].kind, c, S, state)
  BY <1>5, <1>6, <1>9 DEF Promise!Mint, Promise!Minted
<1>11. CASE req[r].kind = "code"
  <2>1. S \subseteq grant.scopes
    BY <1>1, <1>11 DEF Fence
  <2>2. ASSUME NEW q \in Requests, Promise!Minted(q), Shown[q].kind = "code", Shown[q].by = c
        PROVE  FALSE
    <3>1. q \in signed /\ req[q].kind = "code" /\ req[q].cred = c
      BY <2>2, SeenFields DEF Promise!Minted
    <3>2. Paid(q) /\ Paid(r)
      BY <1>1, <3>1 DEF Paid
    <3> QED BY <1>11, <3>1, <3>2 DEF SpentOnce
  <2> HIDE DEF state, S, c
  <2>3. Promise!Pay(r, c, S, state)
    BY <1>10, <1>11, <2>1, <2>2 DEF Promise!Pay
  <2> QED BY <1>4, <1>11, <2>3 DEF Promise!Next
<1>12. CASE req[r].kind = "refresh"
  <2>1. c \in signed /\ c \in Requests
    BY <1>4, <1>12 DEF RowBacked
  <2>2. S \subseteq Shown[c].scopes
    <3>1. S \subseteq row[c].scopes /\ row[c].scopes \subseteq req[c].scopes
      BY <1>1, <1>12, <2>1 DEF Lineage, RowBacked
    <3>2. Shown[c].scopes = req[c].scopes
      BY <2>1, SeenFields
    <3> QED BY <3>1, <3>2
  <2>3. (Named /\ MaxLag = 0) /\ c \in Voided => state = "dead"
    <3> SUFFICES ASSUME Named, MaxLag = 0, row[c].revoked PROVE ~Active(r)'
      BY <2>1 DEF Voided
    <3>0. req[r].at \in Nat /\ row[c].since \in Int
      BY <2>1, InstantType DEF TypeOK, Row, Instant, Null
    <3>1. Covered(r)
      BY <1>1, <1>12, <3>0 DEF RevokedCovered, Paid, Overtook
    <3>2. Covered(r)'
      BY <1>1, <3>1, CoveredStep
    <3> QED BY <3>2 DEF Covered, Active, Withdrawn, GrantActive
  <2>4. Promise!Minted(c)
    BY <1>6, <2>1 DEF Promise!Minted
  <2> HIDE DEF state, S, c
  <2>5. Promise!Renew(r, c, S, state)
    BY <1>10, <1>12, <2>2, <2>3, <2>4 DEF Promise!Renew
  <2> QED BY <1>4, <2>1, <2>5 DEF Promise!Next
<1> QED BY <1>4, <1>11, <1>12

LEMMA PromiseStep ==
  ASSUME TypeOK, TypeOK', Fence, Custody, SpentOnce, Lineage, MarkLasts, Timely, RowBacked,
         RevokedCovered, [Next]_vars
  PROVE  Promise!Next
<1> DEFINE prompt == Named /\ MaxLag = 0
<1>1. CASE signed' # signed
  <2>1. PICK r \in signed' : r \notin signed
    BY <1>1, SignedGrows
  <2>2. r \in Requests /\ Sign(r)
    BY <2>1, SignedStep
  <2> QED BY <2>1, <2>2, MintStep
<1>2. CASE signed' = signed
  <2>0. prompt \in BOOLEAN /\ Named \in BOOLEAN
    BY PolicyAssumption
  <2>9. clock \in Nat /\ cutoff'.before \in Int
    BY DEF TypeOK, Cutoff, Instant, Null
  <2>1. CASE Standing' # Standing
    <3>1. Standing = "open" /\ Standing' = "ended" /\ grant'.scopes = grant.scopes
      BY <2>1, GrantMoves DEF Standing
    <3>2. Named => \A r \in signed : ~Active(r)'
      BY <3>1 DEF Standing, Active, GrantActive
    <3>3. Promise!Withdraw(Named)
      BY <1>2, <2>0, <3>2, WithdrawStep
    <3> QED BY <3>1, <3>3 DEF Promise!Next, Promise!End
  <2>2. CASE Standing' = Standing /\ grant'.scopes # grant.scopes
    <3>1. prompt => \A r \in signed : ~Active(r)'
      <4> SUFFICES ASSUME prompt PROVE \A r \in signed : ~Active(r)'
        OBVIOUS
      <4>1. clock <= cutoff'.before
        BY <2>2, <2>9, AmendmentStep
      <4> QED BY <4>1, PresentMark
    <3>2. Promise!Withdraw(prompt)
      BY <1>2, <2>0, <3>1, WithdrawStep
    <3>3. Promise!Amend(grant'.scopes)
      BY <2>2, <3>2, GrantMoves DEF Promise!Amend
    <3> QED BY <3>3, GrantMoves DEF Promise!Next
  <2>3. CASE Standing' = Standing /\ grant'.scopes = grant.scopes /\ Voided' # Voided
    <3>1. PICK p \in Requests : ~row[p].revoked /\ row'[p].revoked
      BY <2>3, VoidGrows DEF Voided
    <3>2. prompt => \A r \in signed : ~Active(r)'
      <4> SUFFICES ASSUME prompt PROVE \A r \in signed : ~Active(r)'
        OBVIOUS
      <4>1. grant'.revoked \/ clock <= cutoff'.before
        BY <2>9, <3>1, RevocationStep
      <4> QED BY <4>1, PresentMark
    <3>3. Promise!Withdraw(prompt)
      BY <1>2, <2>0, <3>2, WithdrawStep
    <3> QED BY <2>3, <3>3 DEF Promise!Next, Promise!Void
  <2>4. CASE Standing' = Standing /\ grant'.scopes = grant.scopes /\ Voided' = Voided
    <3>1. PICK D \in SUBSET Requests : Promise!Die(D)
      BY <1>2, DieSome
    <3>2. Promise!Expire(D)
      BY <2>4, <3>1 DEF Promise!Expire
    <3> QED BY <3>2 DEF Promise!Next
  <2> QED BY <2>1, <2>2, <2>3, <2>4
<1> QED BY <1>1, <1>2

(* The credentials of a grant implement Authority, for any number of       *)
(* requests and authorizations, any lifetimes and any policy.  Each step   *)
(* either signs, which the fence and the redemption make a payment or a    *)
(* renewal, or withdraws, which reaches what it must because requests      *)
(* keep the instant they arrived at, or lets tokens expire.                *)
THEOREM ImplementsAuthority == Spec => KeepsAuthority
<1>1. Init => Promise!Init
  <2> SUFFICES ASSUME Init PROVE Promise!Init
    OBVIOUS
  <2>1. /\ Standing = "open" /\ Voided = {} /\ grant.scopes \in SUBSET Scopes /\ signed = {}
    BY DEF Init, Standing, Voided, NoRow, ScopeSets
  <2>2. Shown = [r \in Requests |-> Promise!NoToken(r)]
    BY <2>1 DEF Shown, Seen, Promise!NoToken
  <2> QED BY <2>1, <2>2 DEF Promise!Init
<1>2. TypeOK /\ TypeOK' /\ Fence /\ Custody /\ SpentOnce /\ (Lineage /\ RotationInherits)
        /\ MarkLasts /\ Timely /\ RowBacked /\ RevokedCovered /\ [Next]_vars
        => [Promise!Next]_(Promise!vars)
  BY PromiseStep
<1> QED BY <1>1, <1>2, TypeCorrect, FenceInv, CustodyInv, SpentOnceInv, LineageInv, MarkInv,
       TimelyInv, RowBackedInv, RevokedCoveredInv, PTL DEF Spec, KeepsAuthority, Promise!Spec

(* The same authorization, with what AuthorityProofs shows of it.          *)
Promised == INSTANCE AuthorityProofs WITH standing <- Standing, scopes <- grant.scopes,
                                          void <- Voided, token <- Shown,
                                          Linked <- Named, Prompt <- Named /\ MaxLag = 0

LEMMA SamePromise == KeepsAuthority => Promised!Spec
<1>1. Promise!Init => Promised!Init
  BY DEF Promise!Init, Promised!Init, Promise!NoToken, Promised!NoToken
<1>2. Promise!Next => Promised!Next
  BY DEF Promise!Next, Promise!Expire, Promise!Die, Promise!Pay, Promise!Mint,
     Promise!Minted, Promise!Renew, Promise!Amend, Promise!Void, Promise!End,
     Promise!Withdraw, Promised!Next, Promised!Expire, Promised!Die, Promised!Pay,
     Promised!Mint, Promised!Minted, Promised!Renew, Promised!Amend, Promised!Void,
     Promised!End, Promised!Withdraw
<1>3. [Promise!Next]_(Promise!vars) => [Promised!Next]_(Promised!vars)
  BY <1>2 DEF Promise!vars, Promised!vars
<1> QED BY <1>1, <1>3, PTL DEF KeepsAuthority, Promise!Spec, Promised!Spec

(* What the abstract authorization guarantees holds of the access tokens   *)
(* as introspection shows them: one per code, none of a refresh wider than *)
(* the one before it, none active under an ended grant that it names, and  *)
(* under prompt withdrawals none active that a withdrawal was about.  It   *)
(* follows from the refinement alone, with no second look at the code.     *)
THEOREM AuthorityHolds ==
  Spec => [](Promised!OneEach /\ Promised!Inherited /\ Promised!EndsAll /\ Promised!Covered)
<1>1. Promised!Spec => [](Promised!TypeOK /\ Promised!OneEach)  BY Promised!OneTokenEach
<1>2. Promised!Spec => []Promised!Inherited  BY Promised!NeverWider
<1>3. Promised!Spec => []Promised!EndsAll  BY Promised!EndReachesAll
<1>4. Promised!Spec => []Promised!Covered  BY Promised!WithdrawalCovers
<1> QED BY <1>1, <1>2, <1>3, <1>4, ImplementsAuthority, SamePromise, PTL
=============================================================================
