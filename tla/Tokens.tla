------------------------------- MODULE Tokens -------------------------------
(***************************************************************************)
(* The credentials of one authorization: its grant, the authorization      *)
(* codes drawn on it, the refresh tokens and access tokens minted from it, *)
(* and everything that withdraws them.                                     *)
(*                                                                         *)
(* The token endpoint's handlers (crates/server/src/http/                  *)
(* authorization_code.rs and refresh.rs) are processes that take one       *)
(* database statement or transaction per step and keep, from their first   *)
(* step to their last, the instant `at` the request arrived.  Between two  *)
(* steps anything may happen: another redemption, a code replay, an        *)
(* amendment or a revocation of the grant, a revocation of the refresh     *)
(* token, a logout, a retention sweep, the death of the request.           *)
(*                                                                         *)
(* The clock counts whole seconds, the granularity of `iat` and of the     *)
(* comparison with a cutoff.  A grant of the code flow has no expires_at.  *)
(***************************************************************************)
EXTENDS Integers, FiniteSets

CONSTANTS
  Requests,        \* token requests; each mints at most one access token
                   \*   and one refresh row, which take the request's name
  Authorizations,  \* authorization requests; each issues at most one code
  First,           \* the one that created the grant
  Scopes,          \* the scope tokens
  Offline,         \* offline_access
  CodeLife,        \* an authorization code's lifetime
  CodeGrace,       \* how long a code's row outlives it (retention)
  TokenLife,       \* the tenant's access token lifetime
  MaxTokenLife,    \* MAX_ACCESS_TOKEN_LIFETIME
  AbsLife,         \* refresh policy: absolute lifetime
  IdleLife,        \* refresh policy: idle lifetime (AbsLife for none)
  Rotates,         \* refresh policy: Rotation::Migration
  Grace,           \* refresh policy: its grace window
  Named,           \* TenantSettings::grant_id_in_access_token
  PurgeAge,        \* the age at which an unclaimed grant is purged
  MaxLag,          \* how old the instant a withdrawal stamps may be
  MaxClock         \* bound: the last second explored

ASSUME NamesAssumption == /\ First \in Authorizations
                          /\ Offline \in Scopes
ASSUME LivesAssumption ==
  /\ {CodeLife, CodeGrace, TokenLife, MaxTokenLife, AbsLife, IdleLife,
      Grace, PurgeAge, MaxLag, MaxClock} \subseteq Nat
  /\ TokenLife <= MaxTokenLife
ASSUME PolicyAssumption == /\ {Rotates, Named} \subseteq BOOLEAN
                           /\ ~Rotates => Grace = 0

VARIABLES
  clock,   \* the database's and every replica's clock
  grant,   \* the grants row
  cutoff,  \* the grant's access_token_cutoffs row
  deny,    \* the requests whose access token has a denylist row
  code,    \* authorization_codes, by authorization
  row,     \* refresh_tokens, by the request that inserted the row
  auth,    \* the authorizations that amend the grant
  req,     \* the token requests
  signed   \* the requests whose access token was signed

vars == <<clock, grant, cutoff, deny, code, row, auth, req, signed>>

-----------------------------------------------------------------------------

Null == -1
Instant == Nat
ScopeSets == SUBSET Scopes

Grant == [there : BOOLEAN, revoked : BOOLEAN, claimed : BOOLEAN,
          scopes : ScopeSets,
          rev : Nat]                       \* authority_revision
Cutoff == [before : Instant \union {Null}, \* revoked_before, null for no row
           exp : Instant]
Code == [status : {"none", "live", "spent", "gone"}, exp : Instant]
Row == [there : BOOLEAN, from : Requests,  \* the row it replaced, or itself
        scopes : ScopeSets, abs : Instant, idle : Instant,
        revoked : BOOLEAN, since : Instant \union {Null},  \* revoked_at
        superseded : Instant \union {Null}]
Auth == [pc : {"idle", "held", "amended", "done"}, at : Instant,
         merge : BOOLEAN, scopes : ScopeSets]

(* A token request.  `cred` is what it presents; `scopes` and `rev` are    *)
(* its copy of the grant, for a refresh narrowed to what it asked for.     *)
Req == [pc : {"idle", "redeem", "replay", "cascade", "find", "claim",
              "sign", "keep", "done"},
        at : Instant, kind : {"code", "refresh"},
        cred : Authorizations \union Requests,
        scopes : ScopeSets, rev : Nat]

NoRow(r) == [there |-> FALSE, from |-> r, scopes |-> {}, abs |-> 0, idle |-> 0,
             revoked |-> FALSE, since |-> Null, superseded |-> Null]

(* The consent has just been recorded: the grant exists, unclaimed, and    *)
(* the code of the authorization that created it is on its way.            *)
Init ==
  /\ clock = 0
  /\ \E s \in ScopeSets :
       grant = [there |-> TRUE, revoked |-> FALSE, claimed |-> FALSE,
                scopes |-> s, rev |-> 0]
  /\ cutoff = [before |-> Null, exp |-> 0]
  /\ deny = {}
  /\ code = [a \in Authorizations |->
               [status |-> IF a = First THEN "live" ELSE "none", exp |-> CodeLife]]
  /\ row = [r \in Requests |-> NoRow(r)]
  /\ auth = [a \in Authorizations |->
               [pc |-> IF a = First THEN "done" ELSE "idle", at |-> 0,
                merge |-> FALSE, scopes |-> {}]]
  /\ req = [r \in Requests |-> [pc |-> "idle", at |-> 0, kind |-> "code",
                                cred |-> First, scopes |-> {}, rev |-> 0]]
  /\ signed = {}

Tick ==
  /\ clock < MaxClock
  /\ clock' = clock + 1
  /\ UNCHANGED <<grant, cutoff, deny, code, row, auth, req, signed>>

Smaller(m, n) == IF m < n THEN m ELSE n
Larger(m, n) == IF m < n THEN n ELSE m

(* A withdrawal reads the clock when its request arrives and commits up to *)
(* MaxLag seconds later.                                                   *)
Recent(t) == t <= clock /\ clock <= t + MaxLag

-----------------------------------------------------------------------------
(* What the other endpoints answer.                                        *)

GrantActive == grant.there /\ ~grant.revoked /\ grant.claimed

Unexpired(r) == clock < req[r].at + TokenLife

(* access_token::withdrawn.  The cutoff is looked up by the grant_id claim *)
(* of the token, which a tenant may have switched off.                     *)
Withdrawn(r) == Named /\ req[r].at <= cutoff.before

(* Introspection's `active` for the access token of request r.             *)
Active(r) ==
  /\ r \in signed
  /\ Unexpired(r)
  /\ r \notin deny
  /\ ~Withdrawn(r)
  /\ Named => GrantActive

-----------------------------------------------------------------------------
(* The token endpoint.                                                     *)

Step(r, pc) == req' = [req EXCEPT ![r].pc = pc]

Begin(r, kind, cred) ==
  /\ req[r].pc = "idle"
  /\ req' = [req EXCEPT ![r].pc = "redeem", ![r].at = clock,
                        ![r].kind = kind, ![r].cred = cred]
  /\ UNCHANGED <<clock, grant, cutoff, deny, code, row, auth, signed>>

BeginCode(r, a) == code[a].status # "none" /\ Begin(r, "code", a)
BeginRefresh(r, p) == row[p].there /\ Begin(r, "refresh", p)

(* A refused check, a storage error, a dropped connection or a crash ends  *)
(* a request between any two of its steps.                                 *)
Stop(r) ==
  /\ req[r].pc \notin {"idle", "done"}
  /\ Step(r, "done")
  /\ UNCHANGED <<clock, grant, cutoff, deny, code, row, auth, signed>>

(* Mutant: a spent code is accepted again.                                 *)
SpendableTwice(a, at) == code[a].status \in {"live", "spent"} /\ at < code[a].exp

Spendable(a, at) == code[a].status = "live" /\ at < code[a].exp

(* PgCodeRepository::redeem: one UPDATE spends the code; when it matches   *)
(* nothing a second read tells a replay from a code unknown or expired.    *)
(* Only the sweep can act between the two, with the effect of acting       *)
(* before both.                                                            *)
RedeemCode(r) ==
  LET a == req[r].cred IN
  /\ req[r].pc = "redeem" /\ req[r].kind = "code"
  /\ \/ /\ Spendable(a, req[r].at)
        /\ code' = [code EXCEPT ![a].status = "spent"]
        /\ Step(r, "find")
     \/ /\ ~Spendable(a, req[r].at)
        /\ Step(r, IF code[a].status = "spent" THEN "replay" ELSE "done")
        /\ UNCHANGED code
  /\ UNCHANGED <<clock, grant, cutoff, deny, row, auth, signed>>

(* A replay stamps the grant, writing no cutoff...                         *)
ReplayGrant(r) ==
  /\ req[r].pc = "replay"
  /\ grant' = [grant EXCEPT !.revoked = grant.revoked \/ grant.there]
  /\ Step(r, "cascade")
  /\ UNCHANGED <<clock, cutoff, deny, code, row, auth, signed>>

(* revoked_at keeps the first instant stamped: every UPDATE asks for a     *)
(* null one or coalesces.                                                  *)
RevokedRow(p, at) == [row[p] EXCEPT !.revoked = TRUE,
                                    !.since = IF row[p].revoked THEN row[p].since ELSE at]

RevokedRows(at) == [p \in Requests |-> IF row[p].there THEN RevokedRow(p, at) ELSE row[p]]

(* ... and, in a second statement on the pool, its refresh tokens.         *)
ReplayCascade(r) ==
  /\ req[r].pc = "cascade"
  /\ row' = RevokedRows(req[r].at)
  /\ Step(r, "done")
  /\ UNCHANGED <<clock, grant, cutoff, deny, code, auth, signed>>

IdleDeadline(at, abs) == Smaller(at + IdleLife, abs)

Presentable(p, at) ==
  /\ row[p].there
  /\ ~row[p].revoked
  /\ at < row[p].abs
  /\ at < row[p].idle
  /\ row[p].superseded = Null \/ at < row[p].superseded + Grace

(* PgRefreshTokenRepository::redeem: check and idle push in one UPDATE.    *)
Present(r) ==
  LET p == req[r].cred IN
  /\ req[r].pc = "redeem" /\ req[r].kind = "refresh"
  /\ \/ /\ Presentable(p, req[r].at)
        /\ row' = [row EXCEPT ![p].idle = IdleDeadline(req[r].at, row[p].abs)]
        /\ Step(r, "find")
     \/ /\ ~Presentable(p, req[r].at)
        /\ Step(r, "done")
        /\ UNCHANGED row
  /\ UNCHANGED <<clock, grant, cutoff, deny, code, auth, signed>>

(* The handler's own copy of the grant: Pending or Active for a code,      *)
(* Active for a refresh, whose scopes are narrowed from the refresh row    *)
(* and not from the grant.                                                 *)
FindGrant(r, asked) ==
  /\ req[r].pc = "find"
  /\ \/ /\ req[r].kind = "code" /\ grant.there /\ ~grant.revoked
        /\ asked = grant.scopes
     \/ /\ req[r].kind = "refresh" /\ GrantActive
        /\ asked \subseteq row[req[r].cred].scopes
  /\ req' = [req EXCEPT ![r].pc = "claim", ![r].scopes = asked,
                        ![r].rev = grant.rev]
  /\ UNCHANGED <<clock, grant, cutoff, deny, code, row, auth, signed>>

(* PgGrantRepository::claim; a refused claim is a Stop.                    *)
ClaimGrant(r) ==
  /\ req[r].pc = "claim"
  /\ grant.there /\ ~grant.revoked
  /\ grant' = [grant EXCEPT !.claimed = TRUE]
  /\ Step(r, "sign")
  /\ UNCHANGED <<clock, cutoff, deny, code, row, auth, signed>>

(* Mutant: the fence looks at the status and not at the revision.          *)
FencedByStatus(r) == GrantActive

(* The authority fence: under a SHARE lock of the grant's row, the copy    *)
(* the request holds is of the current authority_revision.                 *)
Fenced(r) == GrantActive /\ grant.rev = req[r].rev

(* A refresh token follows when the handler's copy of the grant has        *)
(* offline_access, or the tenant rotates.                                  *)
Refreshes(r) == \/ req[r].kind = "code" /\ Offline \in req[r].scopes
                \/ req[r].kind = "refresh" /\ Rotates

(* sign_access signs while the fence is held.                              *)
Sign(r) ==
  /\ req[r].pc = "sign"
  /\ Fenced(r)
  /\ signed' = signed \union {r}
  /\ Step(r, IF Refreshes(r) THEN "keep" ELSE "done")
  /\ UNCHANGED <<clock, grant, cutoff, deny, code, row, auth>>

NewRow(r, from, abs) ==
  [there |-> TRUE, from |-> from, scopes |-> req[r].scopes, abs |-> abs,
   idle |-> IdleDeadline(req[r].at, abs), revoked |-> FALSE, since |-> Null,
   superseded |-> Null]

(* issue_refresh_token: a bare insert; the foreign key wants the grant.    *)
IssueRefresh(r) ==
  /\ req[r].pc = "keep" /\ req[r].kind = "code"
  /\ grant.there
  /\ row' = [row EXCEPT ![r] = NewRow(r, r, req[r].at + AbsLife)]
  /\ Step(r, "done")
  /\ UNCHANGED <<clock, grant, cutoff, deny, code, auth, signed>>

(* Mutant: a replacement starts a new absolute lifetime.                   *)
ReplacementRestarted(r) == NewRow(r, req[r].cred, req[r].at + AbsLife)

Replacement(r) == NewRow(r, req[r].cred, row[req[r].cred].abs)

(* Rotation::Migration: the replacement and the stamp in one transaction.  *)
Supersede(r) ==
  LET p == req[r].cred
      stamped == IF row[p].superseded = Null THEN req[r].at ELSE row[p].superseded
  IN
  /\ req[r].pc = "keep" /\ req[r].kind = "refresh"
  /\ grant.there
  /\ row' = [row EXCEPT ![r] = Replacement(r), ![p].superseded = stamped]
  /\ Step(r, "done")
  /\ UNCHANGED <<clock, grant, cutoff, deny, code, auth, signed>>

-----------------------------------------------------------------------------
(* Withdrawals.                                                            *)

(* Mutant: the last withdrawal to commit wins.                             *)
WithdrawOverwriting(at) == cutoff' = [before |-> at, exp |-> at + MaxTokenLife]

(* cutoffs::withdraw, always inside the caller's transaction.              *)
Withdraw(at) ==
  cutoff' = [before |-> Larger(cutoff.before, at),
             exp |-> Larger(cutoff.exp, at + MaxTokenLife)]

(* PgGrantRepository::revoke; a revoked grant is NotFound.  Every caller   *)
(* passes an empty list of live tokens, so nothing is denylisted.          *)
Revoke(at) ==
  /\ Recent(at)
  /\ grant.there /\ ~grant.revoked
  /\ row' = RevokedRows(at)
  /\ Withdraw(at)
  /\ grant' = [grant EXCEPT !.revoked = TRUE]
  /\ UNCHANGED <<clock, deny, code, auth, req, signed>>

(* Mutant: the row is revoked, the access tokens are not.                  *)
RevokeRefreshOnly(p, at) ==
  /\ Recent(at)
  /\ row[p].there
  /\ row' = [row EXCEPT ![p] = RevokedRow(p, at)]
  /\ UNCHANGED <<clock, grant, cutoff, deny, code, auth, req, signed>>

(* RFC 7009 of a refresh token: its row, and the grant's access tokens.    *)
RevokeRefresh(p, at) ==
  /\ Recent(at)
  /\ row[p].there
  /\ row' = [row EXCEPT ![p] = RevokedRow(p, at)]
  /\ Withdraw(at)
  /\ UNCHANGED <<clock, grant, deny, code, auth, req, signed>>

(* A logout under revoke_refresh_on_logout, of the grant's session.        *)
RevokeForSession(at) ==
  /\ Recent(at)
  /\ \E p \in Requests : row[p].there /\ ~row[p].revoked
  /\ row' = RevokedRows(at)
  /\ Withdraw(at)
  /\ UNCHANGED <<clock, grant, deny, code, auth, req, signed>>

(* RFC 7009 of an access token that still verifies.                        *)
DenylistAccessToken(r, at) ==
  /\ Recent(at)
  /\ r \in signed
  /\ at < req[r].at + TokenLife
  /\ deny' = deny \union {r}
  /\ UNCHANGED <<clock, grant, cutoff, code, row, auth, req, signed>>

-----------------------------------------------------------------------------
(* Amendments: an authorization that names the grant.                      *)

(* `amended` reads the grant, refuses one that is not issuable, and        *)
(* applies merge or replace to its copy.                                   *)
AmendFind(a, merge, granted) ==
  /\ auth[a].pc = "idle"
  /\ grant.there /\ ~grant.revoked
  /\ auth' = [auth EXCEPT ![a] =
       [pc |-> "held", at |-> clock, merge |-> merge,
        scopes |-> IF merge THEN grant.scopes \union granted ELSE granted]]
  /\ UNCHANGED <<clock, grant, cutoff, deny, code, row, req, signed>>

(* The trigger of migration 0171 renews authority_revision when the        *)
(* permissions changed; it may also when only the authentication did.      *)
Amended(scopes, rev) ==
  {g \in {[grant EXCEPT !.scopes = scopes, !.rev = n] : n \in {rev, rev + 1}} :
     scopes # grant.scopes => g.rev = rev + 1}

(* Mutant: an amendment that writes no cutoff.                             *)
AmendKeepingTokens(a) ==
  /\ auth[a].pc = "held" /\ Recent(auth[a].at)
  /\ grant.there /\ ~grant.revoked
  /\ row' = RevokedRows(auth[a].at)
  /\ grant' \in Amended(auth[a].scopes, grant.rev)
  /\ auth' = [auth EXCEPT ![a].pc = "amended"]
  /\ UNCHANGED <<clock, cutoff, deny, code, req, signed>>

(* PgGrantRepository::amend, one transaction under the grant's row lock.   *)
Amend(a) ==
  /\ auth[a].pc = "held" /\ Recent(auth[a].at)
  /\ grant.there /\ ~grant.revoked
  /\ row' = RevokedRows(auth[a].at)
  /\ Withdraw(auth[a].at)
  /\ grant' \in Amended(auth[a].scopes, grant.rev)
  /\ auth' = [auth EXCEPT ![a].pc = "amended"]
  /\ UNCHANGED <<clock, deny, code, req, signed>>

(* The code of the amending authorization.                                 *)
IssueCode(a) ==
  /\ auth[a].pc = "amended"
  /\ grant.there
  /\ code' = [code EXCEPT ![a] = [status |-> "live", exp |-> auth[a].at + CodeLife]]
  /\ auth' = [auth EXCEPT ![a].pc = "done"]
  /\ UNCHANGED <<clock, grant, cutoff, deny, row, req, signed>>

-----------------------------------------------------------------------------
(* Retention.                                                              *)

SweepCode(a) ==
  /\ code[a].status \in {"live", "spent"}
  /\ code[a].exp + CodeGrace <= clock
  /\ code' = [code EXCEPT ![a].status = "gone"]
  /\ UNCHANGED <<clock, grant, cutoff, deny, row, auth, req, signed>>

SweepRefresh(p) ==
  /\ row[p].there
  /\ row[p].abs <= clock
  /\ row' = [row EXCEPT ![p].there = FALSE]
  /\ UNCHANGED <<clock, grant, cutoff, deny, code, auth, req, signed>>

SweepDenylist(r) ==
  /\ r \in deny
  /\ ~Unexpired(r)
  /\ deny' = deny \ {r}
  /\ UNCHANGED <<clock, grant, cutoff, code, row, auth, req, signed>>

SweepCutoff ==
  /\ cutoff.before # Null
  /\ cutoff.exp <= clock
  /\ cutoff' = [before |-> Null, exp |-> 0]
  /\ UNCHANGED <<clock, grant, deny, code, row, auth, req, signed>>

(* Mutant: the purge looks for refresh tokens and not for the claim.       *)
PurgeableByRows == \A p \in Requests : ~row[p].there

Purgeable == ~grant.claimed

(* PgGrantRepository::purge_unclaimed; codes go with their grant, and so   *)
(* would refresh rows.                                                     *)
PurgeUnclaimed ==
  /\ grant.there /\ ~grant.revoked
  /\ PurgeAge < clock
  /\ Purgeable
  /\ grant' = [grant EXCEPT !.there = FALSE]
  /\ code' = [a \in Authorizations |->
                IF code[a].status = "none" THEN code[a]
                                           ELSE [code[a] EXCEPT !.status = "gone"]]
  /\ row' = [p \in Requests |-> [row[p] EXCEPT !.there = FALSE]]
  /\ UNCHANGED <<clock, cutoff, deny, auth, req, signed>>

-----------------------------------------------------------------------------

Exchange(r) ==
  \/ \E a \in Authorizations : BeginCode(r, a)
  \/ \E p \in Requests : BeginRefresh(r, p)
  \/ RedeemCode(r) \/ ReplayGrant(r) \/ ReplayCascade(r)
  \/ Present(r)
  \/ \E s \in ScopeSets : FindGrant(r, s)
  \/ ClaimGrant(r) \/ Sign(r) \/ IssueRefresh(r) \/ Supersede(r)
  \/ Stop(r)

Withdrawal(t) ==
  \/ Revoke(t)
  \/ RevokeForSession(t)
  \/ \E r \in Requests : RevokeRefresh(r, t) \/ DenylistAccessToken(r, t)

Amendment(a) ==
  \/ \E m \in BOOLEAN, s \in ScopeSets : AmendFind(a, m, s)
  \/ Amend(a)
  \/ IssueCode(a)

Retention ==
  \/ \E a \in Authorizations : SweepCode(a)
  \/ \E r \in Requests : SweepRefresh(r) \/ SweepDenylist(r)
  \/ SweepCutoff
  \/ PurgeUnclaimed

Next ==
  \/ Tick
  \/ \E r \in Requests : Exchange(r)
  \/ \E t \in 0..MaxClock : Withdrawal(t)
  \/ \E a \in Authorizations : Amendment(a)
  \/ Retention

Spec == Init /\ [][Next]_vars

-----------------------------------------------------------------------------
(* Properties.                                                             *)

(* Every table row has its columns' types, and no refresh row's idle       *)
(* deadline passes its absolute one, as the schema's CHECK demands of the  *)
(* UPDATE in redeem and of both inserts.                                   *)
TypeOK ==
  /\ clock \in Nat
  /\ grant \in Grant
  /\ cutoff \in Cutoff
  /\ deny \subseteq signed
  /\ code \in [Authorizations -> Code]
  /\ row \in [Requests -> Row]
  /\ auth \in [Authorizations -> Auth]
  /\ req \in [Requests -> Req]
  /\ signed \subseteq Requests
  /\ \A r \in Requests :
       /\ req[r].cred \in IF req[r].kind = "code" THEN Authorizations ELSE Requests
       /\ row[r].idle <= row[r].abs

(* One authorization code never pays for two access tokens, however its    *)
(* redemptions interleave (PgCodeRepository::redeem).                      *)
CodePaysOnce ==
  \A r, s \in signed :
    req[r].kind = "code" /\ req[s].kind = "code" /\ req[r].cred = req[s].cred => r = s

(* An access token, once introspection has called it inactive, is never    *)
(* active again: no late or older withdrawal moves the cutoff back and no  *)
(* sweep removes a denylist or cutoff row the token still needs.           *)
InactiveStaysInactive ==
  [][\A r \in signed : ~Active(r) => ~Active(r)']_vars

(* No access token is signed under a withdrawn grant, and none is signed   *)
(* from a code with a scope an amendment has taken away since the handler  *)
(* read the grant (lock_authority_on).                                     *)
SignedUnderCurrentAuthority ==
  [][\A r \in signed' \ signed :
       /\ GrantActive
       /\ req[r].kind = "code" => req[r].scopes \subseteq grant.scopes]_vars

(* The grant of any credential ever issued is still there to withdraw it   *)
(* through: purge_unclaimed never deletes one (grants.rs, "no window in    *)
(* which this statement can delete the only row that could revoke").       *)
CredentialsKeepTheirGrant ==
  signed # {} \/ (\E p \in Requests : row[p].there) => grant.there

(* Rotation moves no deadline and widens nothing: a replacement has the    *)
(* absolute deadline of the row it replaced and no scope it had not        *)
(* (refresh_token_to_return).                                              *)
RotationInherits ==
  \A p \in Requests :
    LET q == row[p].from IN row[p].abs = row[q].abs /\ row[p].scopes \subseteq row[q].scopes

(* A request that arrived after a withdrawal had read the clock and before *)
(* it committed.                                                           *)
Overtook(at, stamp) == stamp < at /\ at <= stamp + MaxLag

(* Where access tokens carry grant_id, one drawn on a refresh token that   *)
(* has been revoked since is not active, even when it is signed after the  *)
(* revocation; only a request that arrived while the revocation was under  *)
(* way outlives it, and by no more than the revocation took to commit: its *)
(* stamp is the instant its handler read before the transaction            *)
(* (PgRefreshTokenRepository::revoke, revoke_for_session,                  *)
(* PgGrantRepository::amend).                                              *)
RevocationReaches ==
  Named => \A r \in Requests :
    LET p == req[r].cred IN
      req[r].kind = "refresh" /\ row[p].revoked /\ Active(r)
        => Overtook(req[r].at, row[p].since)

(* The amendments that have committed.                                     *)
Amendments == {a \in Authorizations \ {First} : auth[a].pc \in {"amended", "done"}}

(* Where access tokens carry grant_id, an active one that a code paid for  *)
(* has a scope the grant has lost only if its request arrived while the    *)
(* amendment that took the scope away was under way (the window that       *)
(* PgGrantRepository::amend closes with its cutoff).                       *)
AmendmentReaches ==
  Named => \A r \in Requests :
    Active(r) /\ req[r].kind = "code" /\ ~(req[r].scopes \subseteq grant.scopes)
      => \E a \in Amendments : /\ ~(req[r].scopes \subseteq auth[a].scopes)
                               /\ Overtook(req[r].at, auth[a].at)

-----------------------------------------------------------------------------
(* The promise.                                                            *)

Standing == IF grant.there /\ ~grant.revoked THEN "open" ELSE "ended"

(* An access token as the endpoints that answer for it see it.             *)
Seen(r) ==
  IF r \in signed
    THEN [state |-> IF Active(r) THEN "good" ELSE "dead", kind |-> req[r].kind,
          by |-> req[r].cred, scopes |-> req[r].scopes]
    ELSE [state |-> "none", kind |-> "code", by |-> r, scopes |-> {}]

Shown == [r \in Requests |-> Seen(r)]
Voided == {p \in Requests : row[p].revoked}

Promise == INSTANCE Authority WITH standing <- Standing, scopes <- grant.scopes,
                                   void <- Voided, token <- Shown,
                                   Linked <- Named, Prompt <- Named /\ MaxLag = 0

(* The token endpoint, the withdrawals, the amendments and the sweeps      *)
(* implement the authorization of module Authority: one token per code at  *)
(* what the grant holds when it is signed, a refresh token never widens,   *)
(* and every withdrawal reaches what it says it does and is never undone.  *)
KeepsAuthority == Promise!Spec
=============================================================================
