----------------------------- MODULE Authority -----------------------------
(***************************************************************************)
(* What one authorization promises the user who gave it, the client that   *)
(* holds it and the resource servers that ask about it, with no clocks,    *)
(* cutoffs, revisions, locks or handlers in sight: one access token per    *)
(* code, with no more than the authorization holds at that instant; no     *)
(* more by refresh than by the token before; and a token that is refused   *)
(* once is refused for good, as all of them are when the authorization     *)
(* ends, is amended or has a refresh token revoked.                        *)
(***************************************************************************)
CONSTANTS
  Requests,        \* token requests; an access token and a refresh token
                   \*   take the name of theirs
  Authorizations,  \* the codes
  Scopes,
  Linked,          \* an access token says what authorization it is from
  Prompt           \* and a withdrawal reaches all that came before it

VARIABLES
  standing,  \* whether the authorization is open or has ended
  scopes,    \* what it holds
  void,      \* the refresh tokens that were revoked
  token      \* the access tokens, by request

vars == <<standing, scopes, void, token>>

Token == [state : {"none", "good", "dead"}, kind : {"code", "refresh"},
          by : Authorizations \union Requests, scopes : SUBSET Scopes]

NoToken(r) == [state |-> "none", kind |-> "code", by |-> r, scopes |-> {}]

Init ==
  /\ standing = "open"
  /\ scopes \in SUBSET Scopes
  /\ void = {}
  /\ token = [r \in Requests |-> NoToken(r)]

Minted(r) == token[r].state # "none"

Mint(r, kind, by, S, state) ==
  /\ standing = "open"
  /\ ~Minted(r)
  /\ UNCHANGED <<standing, scopes, void>>
  /\ token' = [token EXCEPT ![r] = [state |-> state, kind |-> kind,
                                    by |-> by, scopes |-> S]]

(* A code pays for one token, at what the authorization holds now.  The    *)
(* request may have been overtaken by a withdrawal: the token is dead.     *)
Pay(r, a, S, state) ==
  /\ Mint(r, "code", a, S, state)
  /\ \A q \in Requests : Minted(q) => ~(token[q].kind = "code" /\ token[q].by = a)
  /\ S \subseteq scopes

(* The refresh token of request p pays for another.                        *)
Renew(r, p, S, state) ==
  /\ Mint(r, "refresh", p, S, state)
  /\ Minted(p)
  /\ S \subseteq token[p].scopes
  /\ Prompt /\ p \in void => state = "dead"

(* Tokens among D that are good die.                                       *)
Die(D) ==
  token' = [r \in Requests |-> IF r \in D /\ token[r].state = "good"
                                 THEN [token[r] EXCEPT !.state = "dead"] ELSE token[r]]

(* A withdrawal revokes refresh tokens and reaches all the access tokens,  *)
(* or those it can.                                                        *)
Withdraw(all) ==
  /\ void \subseteq void' /\ void' \subseteq Requests
  /\ \E D \in SUBSET Requests : (all => D = Requests) /\ Die(D)

Amend(S) ==
  /\ standing = "open"
  /\ UNCHANGED standing
  /\ scopes' = S
  /\ Withdraw(Prompt)

Void ==
  /\ UNCHANGED <<standing, scopes>>
  /\ Withdraw(Prompt)

(* The authorization is revoked, or nobody ever used it.                   *)
End ==
  /\ standing = "open"
  /\ standing' = "ended"
  /\ UNCHANGED scopes
  /\ Withdraw(Linked)

(* Expiry, or the revocation of a token by itself.                         *)
Expire(D) ==
  /\ UNCHANGED <<standing, scopes, void>>
  /\ Die(D)

Next ==
  \/ \E D \in SUBSET Requests : Expire(D)
  \/ Void
  \/ End
  \/ \E S \in SUBSET Scopes : Amend(S)
  \/ \E r \in Requests, S \in SUBSET Scopes, state \in {"good", "dead"} :
       \/ \E a \in Authorizations : Pay(r, a, S, state)
       \/ \E p \in Requests : Renew(r, p, S, state)

Spec == Init /\ [][Next]_vars
=============================================================================
