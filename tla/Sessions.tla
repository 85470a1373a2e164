------------------------------ MODULE Sessions ------------------------------
(***************************************************************************)
(* One browser session: its row, the clients that took part in it          *)
(* (`session_clients`), the grants made in it, and the requests that read, *)
(* extend, rotate and end it.                                              *)
(*                                                                         *)
(* A session is found by the digest of its cookie, and a step-up rewrites  *)
(* that digest.  A handler reads the row once and then issues statements   *)
(* keyed by the digest it read, each a step of its own, so a rotation may  *)
(* come between any two of them.  Every handler reads the clock once, when *)
(* its request arrives, and every statement uses that instant.             *)
(*                                                                         *)
(* Rows of different sessions share nothing: there is one, begun at        *)
(* instant 0, and its digests are numbered in the order they were drawn.   *)
(* The tenant's session policy does not change during the session; then    *)
(* SessionPolicy::constrain leaves a stored row as it is.                  *)
(***************************************************************************)
EXTENDS Integers

CONSTANTS
  Client,        \* the relying parties, each with a backchannel_logout_uri
  Handler,       \* the requests about this session, each handled once
  Absolute,      \* Lifetimes::absolute: the session's expires_at
  Idle,          \* Lifetimes::idle
  RevokeRefresh, \* the tenant's revoke_refresh_on_logout
  None,
  MaxClock       \* bound: the last instant explored

ASSUME LifetimesAssumption ==
  /\ Absolute \in Nat \ {0} /\ Idle \in 1..Absolute
  /\ MaxClock \in Nat
  /\ RevokeRefresh \in BOOLEAN
  /\ None \notin Client \union Nat

VARIABLES
  clock,
  row,      \* the sessions row
  listed,   \* session_clients: the participants
  grant,    \* the grant each client was given in this session
  token,    \* each client's redemption of its code
  handler,  \* the requests in flight
  told,     \* the clients a logout token was queued for
  recorded, \* history: the clients whose participation was written
  used      \* history: the arrival of the latest request let in

vars == <<clock, row, listed, grant, token, handler, told, recorded, used>>

-----------------------------------------------------------------------------

Smaller(m, n) == IF m < n THEN m ELSE n
Larger(m, n) == IF m < n THEN n ELSE m

Kinds == {"consent", "step_up", "logout", "close"}

(* A stored row: its digest, its idle deadline and what revoked it.  It    *)
(* stays until `expires_at` whether it is revoked or not.                  *)
Row == [status : {"live", "revoked", "swept"}, digest : Nat,
        idle : 0..Absolute, reason : Kinds \union {None}]

Grant == [session : Nat \union {None},
          stray : BOOLEAN,    \* history: made under a digest already replaced
          refresh : {"none", "live", "revoked"},
          before : BOOLEAN]   \* history: its refresh token predates the end

Token == [pc : {"none", "facts", "remember", "issue", "done", "lost"},
          session : Nat \union {None},
          sid : BOOLEAN,       \* the ID token will name the session
          unlisted : BOOLEAN]  \* history: its participant was not written

Request == [pc : {"idle", "touch", "grant", "rotate", "find", "revoke",
                  "refresh", "participants", "notify", "signal", "ended",
                  "done", "lost"},
            kind : Kinds \union {None}, now : 0..MaxClock, session : Nat,
            client : Client \union {None},
            list : SUBSET Client,    \* the participants it read
            hit : BOOLEAN,           \* history: its revoke matched the row
            owed : SUBSET Client,    \* history: recorded when it did
            kept : BOOLEAN,          \* history: revoke_for_session failed
            unsent : BOOLEAN,        \* its notifications could not be queued
            skipped : SUBSET Client] \* those it could build no notification for

Init ==
  /\ clock = 0
  /\ row = [status |-> "live", digest |-> 0, idle |-> Idle, reason |-> None]
  /\ listed = {}
  /\ grant = [c \in Client |-> [session |-> None, stray |-> FALSE,
                                refresh |-> "none", before |-> FALSE]]
  /\ token = [c \in Client |-> [pc |-> "none", session |-> None,
                                sid |-> FALSE, unlisted |-> FALSE]]
  /\ handler = [h \in Handler |->
                 [pc |-> "idle", kind |-> None, now |-> 0, session |-> 0,
                  client |-> None, list |-> {}, hit |-> FALSE, owed |-> {},
                  kept |-> FALSE, unsent |-> FALSE, skipped |-> {}]]
  /\ told = {}
  /\ recorded = {}
  /\ used = 0

Tick ==
  /\ clock < MaxClock
  /\ clock' = clock + 1
  /\ UNCHANGED <<row, listed, grant, token, handler, told, recorded, used>>

(* Retention, and purge_expired: the absolute deadline only.  The          *)
(* participants follow by cascade.                                         *)
Sweep ==
  /\ row.status # "swept"
  /\ Absolute <= clock
  /\ row' = [row EXCEPT !.status = "swept"]
  /\ listed' = {}
  /\ UNCHANGED <<clock, grant, token, handler, told, recorded, used>>

Found(d) == row.status # "swept" /\ row.digest = d

(* Mutant: an expiry is looked at, a revocation is not.                    *)
UsableUnlessExpired(d, now) == Found(d) /\ Absolute > now /\ row.idle > now

(* The predicate a statement repeats: Session::status is Active at `now`.  *)
Usable(d, now) ==
  /\ Found(d)
  /\ row.status = "live"
  /\ Absolute > now
  /\ row.idle > now

Goto(h, pc) == handler' = [handler EXCEPT ![h].pc = pc]

-----------------------------------------------------------------------------
(* Requests of the browser and of the console.  What a request reads first *)
(* it reads on arrival: a later first read could only find nothing.        *)

Arrive(h, kind, client, pc) ==
  /\ handler[h].pc = "idle"
  /\ handler' = [handler EXCEPT ![h].pc = pc, ![h].kind = kind,
                                ![h].now = clock, ![h].session = row.digest,
                                ![h].client = client]
  /\ UNCHANGED <<clock, row, listed, grant, token, told, recorded, used>>

(* session_for_consent: the browser comes back from the consent page.      *)
Consent(h, c) == /\ Usable(row.digest, clock)
                 /\ \A g \in Handler : handler[g].client # c
                 /\ Arrive(h, "consent", c, "touch")

(* establish, at Stage::StepUp.                                            *)
StepUp(h) == /\ Usable(row.digest, clock)
             /\ Arrive(h, "step_up", None, "rotate")

(* live_session, of the end-session endpoint.                              *)
Logout(h) == /\ Usable(row.digest, clock)
             /\ Arrive(h, "logout", None, "revoke")

(* live_digests_for_user, which does not look at the idle deadline: the    *)
(* console, the account pages, a password change and a recovery.           *)
Close(h) == /\ row.status = "live"
            /\ Absolute > clock
            /\ Arrive(h, "close", None, "find")

(* Mutant: the last request to reach the row wins.                         *)
TouchedLast(now) == Smaller(now + Idle, Absolute)

(* touch_stored.  Two requests may reach the row in the order opposite to  *)
(* the one they arrived in.                                                *)
Touched(now) ==
  Smaller(Absolute, Larger(row.idle, Smaller(now + Idle, Absolute)))

(* find_for_browser: a lost race is an anonymous browser.                  *)
Touch(h) ==
  /\ handler[h].pc = "touch"
  /\ LET now == handler[h].now IN
     IF Usable(handler[h].session, now)
     THEN /\ row' = [row EXCEPT !.idle = Touched(now)]
          /\ used' = Larger(used, now)
          /\ Goto(h, "grant")
     ELSE Goto(h, "done") /\ UNCHANGED <<row, used>>
  /\ UNCHANGED <<clock, listed, grant, token, told, recorded>>

(* The grant of the consent, under the digest the interaction recorded.    *)
(* Its session_id is no foreign key.                                       *)
MakeGrant(h) ==
  /\ handler[h].pc = "grant"
  /\ grant' = [grant EXCEPT ![handler[h].client].session = handler[h].session,
                            ![handler[h].client].stray =
                               row.digest # handler[h].session]
  /\ Goto(h, "done")
  /\ UNCHANGED <<clock, row, listed, token, told, recorded, used>>

Moved(session, new) == IF session = row.digest THEN new ELSE session

(* Mutant: the grants keep the old digest.                                 *)
RotateLeavingGrants(new) ==
  /\ row' = [row EXCEPT !.digest = new]
  /\ UNCHANGED <<grant, listed>>

(* Mutant: the row is deleted and inserted again, without its participants.*)
RotateReinserting(new) ==
  /\ row' = [row EXCEPT !.digest = new]
  /\ grant' = [c \in Client |->
                [grant[c] EXCEPT !.session = Moved(grant[c].session, new)]]
  /\ listed' = {}

(* rotate_verified, one transaction: the new digest, its participants (on  *)
(* update cascade) and the grants that named the old one.  It extends no   *)
(* deadline.                                                               *)
RotateRow(new) ==
  /\ row' = [row EXCEPT !.digest = new]
  /\ grant' = [c \in Client |->
                [grant[c] EXCEPT !.session = Moved(grant[c].session, new)]]
  /\ UNCHANGED listed

Rotate(h) ==
  /\ handler[h].pc = "rotate"
  /\ IF Usable(handler[h].session, handler[h].now)
     THEN RotateRow(row.digest + 1)
     ELSE UNCHANGED <<row, grant, listed>>
  /\ Goto(h, "done")
  /\ UNCHANGED <<clock, token, told, recorded, used>>

-----------------------------------------------------------------------------
(* Ending the session: end_session and its three siblings.                 *)

(* The row is read back for its public sid; a digest that no longer        *)
(* resolves is passed over.                                                *)
Find(h) ==
  /\ handler[h].pc = "find"
  /\ Goto(h, IF Found(handler[h].session) THEN "revoke" ELSE "done")
  /\ UNCHANGED <<clock, row, listed, grant, token, told, recorded, used>>

(* revoke: the first revocation's reason is kept, and matching no row is   *)
(* not an error.                                                           *)
Revocation(h) ==
  IF Found(handler[h].session)
  THEN row' = [row EXCEPT !.status = "revoked",
                          !.reason = IF row.status = "live"
                                     THEN handler[h].kind ELSE @]
  ELSE UNCHANGED row

AfterRevoke(h) == IF handler[h].kind = "logout" /\ RevokeRefresh THEN "refresh"
            ELSE "participants"

Revoke(h) ==
  /\ handler[h].pc = "revoke"
  /\ Revocation(h)
  /\ handler' = [handler EXCEPT ![h].pc = AfterRevoke(h),
                                ![h].hit = Found(handler[h].session),
                                ![h].owed = recorded]
  /\ UNCHANGED <<clock, listed, grant, token, told, recorded, used>>

(* The statement failed: nothing was revoked and nobody is told.           *)
RevokeFails(h) ==
  /\ handler[h].pc = "revoke"
  /\ Goto(h, "done")
  /\ UNCHANGED <<clock, row, listed, grant, token, told, recorded, used>>

(* revoke_for_session, in its one statement.                               *)
RevokeRefreshTokens(h) ==
  /\ handler[h].pc = "refresh"
  /\ grant' = [c \in Client |->
                IF grant[c].refresh = "live"
                     /\ grant[c].session = handler[h].session
                THEN [grant[c] EXCEPT !.refresh = "revoked"] ELSE grant[c]]
  /\ Goto(h, "participants")
  /\ UNCHANGED <<clock, row, listed, token, told, recorded, used>>

(* It failed, which is logged: the session is over and the rest goes on.   *)
RefreshFails(h) ==
  /\ handler[h].pc = "refresh"
  /\ handler' = [handler EXCEPT ![h].pc = "participants", ![h].kept = TRUE]
  /\ UNCHANGED <<clock, row, listed, grant, token, told, recorded, used>>

(* Mutant: only a usable session has participants.                         *)
ParticipantsOfLive(h) ==
  /\ handler[h].pc = "participants"
  /\ handler' = [handler EXCEPT ![h].pc = "notify",
                   ![h].list = IF Usable(handler[h].session, handler[h].now)
                               THEN listed ELSE {}]
  /\ UNCHANGED <<clock, row, listed, grant, token, told, recorded, used>>

Participants(h) ==
  /\ handler[h].pc = "participants"
  /\ handler' = [handler EXCEPT ![h].pc = "notify",
                   ![h].list = IF Found(handler[h].session) THEN listed ELSE {}]
  /\ UNCHANGED <<clock, row, listed, grant, token, told, recorded, used>>

(* Notifier::notify.  A participant whose client, subject or token cannot  *)
(* be had is skipped; then every row that was built is queued or none is.  *)
(* Participants that could not be read are nobody to tell: the same as     *)
(* none queued.                                                            *)
Notify(h) ==
  /\ handler[h].pc = "notify"
  /\ \/ \E built \in SUBSET handler[h].list :
          /\ handler' = [handler EXCEPT ![h].pc = "signal",
                                        ![h].skipped = handler[h].list \ built]
          /\ told' = told \union built
     \/ /\ handler' = [handler EXCEPT ![h].pc = "signal", ![h].unsent = TRUE]
        /\ UNCHANGED told
  /\ UNCHANGED <<clock, row, listed, grant, token, recorded, used>>

(* The CAEP session-revoked event, about the public sid.                   *)
Signal(h) ==
  /\ handler[h].pc = "signal"
  /\ Goto(h, "ended")
  /\ UNCHANGED <<clock, row, listed, grant, token, told, recorded, used>>

(* The process stopped, or the connection was dropped.                     *)
Lost(h) ==
  /\ handler[h].pc \notin {"idle", "ended", "done", "lost"}
  /\ Goto(h, "lost")
  /\ UNCHANGED <<clock, row, listed, grant, token, told, recorded, used>>

-----------------------------------------------------------------------------
(* The token endpoint, redeeming the code of a grant.                      *)

TokenGoto(c, pc) == token' = [token EXCEPT ![c].pc = pc]

(* The code and its grant are read; the request keeps the grant.           *)
Redeem(c) ==
  /\ token[c].pc = "none"
  /\ grant[c].session # None
  /\ token' = [token EXCEPT ![c].pc = "facts", ![c].session = grant[c].session]
  /\ UNCHANGED <<clock, row, listed, grant, handler, told, recorded, used>>

(* session_facts: the row answers whether it is revoked or not.            *)
Facts(c) ==
  /\ token[c].pc = "facts"
  /\ token' = [token EXCEPT ![c].pc = "remember",
                            ![c].sid = Found(token[c].session)]
  /\ UNCHANGED <<clock, row, listed, grant, handler, told, recorded, used>>

(* remember_participant: a digest that no longer resolves breaks the       *)
(* foreign key, and any statement may fail; the error is only logged.      *)
Remember(c) ==
  /\ token[c].pc = "remember"
  /\ \E written \in BOOLEAN :
       LET new == IF written THEN {c} ELSE {} IN
       /\ written => Found(token[c].session)
       /\ listed' = listed \union new
       /\ recorded' = recorded \union new
       /\ token' = [token EXCEPT ![c].pc = "issue", ![c].unlisted = ~written]
  /\ UNCHANGED <<clock, row, grant, handler, told, used>>

(* The ID token and the refresh token of the response.                     *)
Issue(c) ==
  /\ token[c].pc = "issue"
  /\ TokenGoto(c, "done")
  /\ grant' = [grant EXCEPT ![c].refresh = "live",
                            ![c].before = row.status = "live"]
  /\ UNCHANGED <<clock, row, listed, handler, told, recorded, used>>

TokenLost(c) ==
  /\ token[c].pc \notin {"none", "done", "lost"}
  /\ TokenGoto(c, "lost")
  /\ UNCHANGED <<clock, row, listed, grant, handler, told, recorded, used>>

-----------------------------------------------------------------------------

Next ==
  \/ Tick
  \/ Sweep
  \/ \E h \in Handler :
       \/ \E c \in Client : Consent(h, c)
       \/ StepUp(h)
       \/ Logout(h)
       \/ Close(h)
       \/ Touch(h)
       \/ MakeGrant(h)
       \/ Rotate(h)
       \/ Find(h)
       \/ Revoke(h)
       \/ RevokeFails(h)
       \/ RevokeRefreshTokens(h)
       \/ RefreshFails(h)
       \/ Participants(h)
       \/ Notify(h)
       \/ Signal(h)
       \/ Lost(h)
  \/ \E c \in Client :
       \/ Redeem(c)
       \/ Facts(c)
       \/ Remember(c)
       \/ Issue(c)
       \/ TokenLost(c)

Spec == Init /\ [][Next]_vars
-----------------------------------------------------------------------------

(* The row, its participants, the grants and the requests have their       *)
(* types: the idle deadline never passes the absolute one.                 *)
TypeOK ==
  /\ clock \in 0..MaxClock
  /\ row \in Row
  /\ listed \subseteq Client
  /\ grant \in [Client -> Grant]
  /\ token \in [Client -> Token]
  /\ handler \in [Handler -> Request]
  /\ told \subseteq Client
  /\ recorded \subseteq Client
  /\ used \in 0..MaxClock

(* The idle deadline is the one the latest request let in asks for, capped *)
(* by the absolute one, in whatever order the requests reached the row: an *)
(* early request that is slow neither shortens what a later one was given  *)
(* nor buys more than its own arrival is worth (touch_stored).             *)
IdleClock == row.idle = Smaller(Absolute, used + Idle)

(* A session that ended stays as it ended: no request still in flight      *)
(* gives it another deadline or another digest, a second revocation keeps  *)
(* the first one's reason, and a deleted row does not come back.           *)
EndedStays ==
  [][/\ row.status = "revoked" =>
          row' \in {row, [row EXCEPT !.status = "swept"]}
     /\ row.status = "swept" => row' = row]_vars

(* A client whose ID token names the session is among its participants,    *)
(* through every rotation, for as long as there is a row, unless its own   *)
(* participant write did not happen (a storage error, or a rotation since  *)
(* the session was read), which remember_participant only logs: no later   *)
(* step takes a participant off the list.                                  *)
SidHolderListed ==
  \A c \in Client :
    token[c].pc = "done" /\ token[c].sid /\ row.status # "swept"
      => c \in listed \/ token[c].unlisted

(* end_session and its siblings: when the revocation matched the row and   *)
(* the notifications could be queued, every client recorded before the     *)
(* revocation is told, however often the session was rotated before,       *)
(* except one no notification could be built for: what fails for one       *)
(* client costs no other its logout token.                                 *)
ClosedMeansTold ==
  \A h \in Handler :
    /\ handler[h].pc \in {"signal", "ended"}
    /\ handler[h].hit
    /\ ~handler[h].unsent
    /\ row.status # "swept"
    => handler[h].owed \subseteq told \union handler[h].skipped

(* revoke_refresh_on_logout: past that step of a logout whose revocation   *)
(* matched the row, no refresh token issued while the session was live     *)
(* still works.  The exceptions are a statement that failed, and the grant *)
(* of a consent that a rotation overtook, which names a digest no session  *)
(* has.                                                                    *)
RefreshGoesToo ==
  \A h \in Handler, c \in Client :
    /\ RevokeRefresh
    /\ handler[h].kind = "logout"
    /\ handler[h].hit
    /\ ~handler[h].kept
    /\ handler[h].pc \in {"participants", "notify", "signal", "ended"}
    /\ grant[c].before
    /\ ~grant[c].stray
    => grant[c].refresh = "revoked"

(* A session-revoked event about a session that still has the digest the   *)
(* handler read is true.                                                   *)
SignalHoldsForDigest ==
  \A h \in Handler :
    handler[h].pc = "ended" /\ handler[h].session = row.digest
      => row.status # "live"

=============================================================================
