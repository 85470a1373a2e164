--------------------------- MODULE AuthorityProofs ---------------------------
(***************************************************************************)
(* What the promise of module Authority comes to, for any number of        *)
(* requests, codes and scopes.  TokensProofs shows that the token endpoint *)
(* keeps the promise, so that each of these is true of it as well.         *)
(***************************************************************************)
EXTENDS Authority, TLAPS

TypeOK ==
  /\ standing \in {"open", "ended"}
  /\ scopes \in SUBSET Scopes
  /\ void \in SUBSET Requests
  /\ token \in [Requests -> Token]

Good(r) == token[r].state = "good"

(* One code pays for one access token.                                     *)
OneEach ==
  \A q, r \in Requests :
    Minted(q) /\ Minted(r) /\ token[q].kind = "code" /\ token[r].kind = "code"
      /\ token[q].by = token[r].by => q = r

(* A refresh token pays for no scope that its own access token had not.    *)
Inherited ==
  \A r \in Requests : Minted(r) /\ token[r].kind = "refresh" =>
    /\ token[r].by \in Requests
    /\ Minted(token[r].by)
    /\ token[r].scopes \subseteq token[token[r].by].scopes

(* No token that names its authorization outlives it.                      *)
EndsAll == Linked /\ standing = "ended" => \A r \in Requests : ~Good(r)

(* Where tokens name their authorization and withdrawals are prompt, a     *)
(* good token that a code paid for is within what the authorization holds, *)
(* and no revoked refresh token paid for a good one.                       *)
Covered ==
  Linked /\ Prompt => \A r \in Requests : Good(r) =>
    IF token[r].kind = "code" THEN token[r].scopes \subseteq scopes
                              ELSE token[r].by \notin void

(* A token that is refused stays so, and no token changes what it is.      *)
Final ==
  \A r \in Requests :
    Minted(r) => token'[r] \in {token[r], [token[r] EXCEPT !.state = "dead"]}

(* An authorization that ended does not open again and pays for nothing.   *)
Closed ==
  standing = "ended" => /\ standing' = "ended"
                        /\ \A r \in Requests : ~Minted(r) => token'[r] = token[r]

-----------------------------------------------------------------------------
(* What a step does to the tokens: it mints one, or some die.              *)

(* A step that is not an issue leaves a token as it is or dead.            *)
LEMMA Dying ==
  ASSUME TypeOK, NEW D, Die(D)
  PROVE  /\ token' \in [Requests -> Token]
         /\ \A r \in Requests :
              /\ token'[r] \in {token[r], [token[r] EXCEPT !.state = "dead"]}
              /\ ~Minted(r) => token'[r] = token[r]
              /\ r \in D => ~Good(r)'
BY DEF TypeOK, Die, Token, Minted, Good

(* A token the step did not issue is the one it was, alive or dead; one it *)
(* issued comes of an open authorization that it leaves alone.             *)
LEMMA TokenStep ==
  ASSUME TypeOK, [Next]_vars
  PROVE  /\ TypeOK'
         /\ \/ \E D : Die(D)
            \/ UNCHANGED vars
            \/ \E r \in Requests, S \in SUBSET Scopes, state \in {"good", "dead"} :
                 \/ \E a \in Authorizations : Pay(r, a, S, state)
                 \/ \E p \in Requests : Renew(r, p, S, state)
<1>1. CASE \E r \in Requests, S \in SUBSET Scopes, state \in {"good", "dead"} :
             \/ \E a \in Authorizations : Pay(r, a, S, state)
             \/ \E p \in Requests : Renew(r, p, S, state)
  <2>1. PICK r \in Requests, S \in SUBSET Scopes, state \in {"good", "dead"} :
               \/ \E a \in Authorizations : Pay(r, a, S, state)
               \/ \E p \in Requests : Renew(r, p, S, state)
    BY <1>1
  <2>2. PICK kind \in {"code", "refresh"}, by \in Authorizations \union Requests :
               Mint(r, kind, by, S, state)
    BY <2>1 DEF Pay, Renew
  <2>3. [state |-> state, kind |-> kind, by |-> by, scopes |-> S] \in Token
    BY DEF Token
  <2>4. TypeOK'  BY <2>2, <2>3 DEF TypeOK, Mint
  <2> QED BY <1>1, <2>4
<1>2. CASE UNCHANGED vars
  BY <1>2 DEF TypeOK, vars
<1>3. CASE \/ \E D \in SUBSET Requests : Expire(D)
           \/ \E S \in SUBSET Scopes : Amend(S)
           \/ Void
           \/ End
  <2>1. PICK D : Die(D)
    BY <1>3 DEF Expire, Amend, Void, End, Withdraw
  <2>2. token' \in [Requests -> Token]
    BY <2>1, Dying
  <2>3. standing' \in {"open", "ended"} /\ scopes' \in SUBSET Scopes /\ void' \in SUBSET Requests
    BY <1>3 DEF TypeOK, Expire, Amend, Void, End, Withdraw
  <2> QED BY <2>1, <2>2, <2>3 DEF TypeOK
<1> QED BY <1>1, <1>2, <1>3 DEF Next

(* Each step mints or ends tokens, and does nothing else to them.          *)
LEMMA FinalStep == ASSUME TypeOK, [Next]_vars PROVE Final
<1>1. CASE \E D : Die(D)
  BY <1>1, Dying DEF Final
<1>2. CASE UNCHANGED vars
  BY <1>2 DEF Final, vars
<1>3. CASE \E r \in Requests, S \in SUBSET Scopes, state \in {"good", "dead"} :
             \/ \E a \in Authorizations : Pay(r, a, S, state)
             \/ \E p \in Requests : Renew(r, p, S, state)
  BY <1>3 DEF Final, Pay, Renew, Mint, Minted, TypeOK
<1> QED BY <1>1, <1>2, <1>3, TokenStep

LEMMA ClosedStep == ASSUME TypeOK, [Next]_vars PROVE Closed
<1> SUFFICES ASSUME standing = "ended"
             PROVE  standing' = "ended" /\ \A r \in Requests : ~Minted(r) => token'[r] = token[r]
  BY DEF Closed
<1>1. standing' = "ended"
  BY DEF Next, vars, Pay, Renew, Mint, Amend, Void, End, Expire
<1>2. CASE \E D : Die(D)
  BY <1>1, <1>2, Dying
<1>3. CASE UNCHANGED vars
  BY <1>3 DEF vars
<1>4. CASE \E r \in Requests, S \in SUBSET Scopes, state \in {"good", "dead"} :
             \/ \E a \in Authorizations : Pay(r, a, S, state)
             \/ \E p \in Requests : Renew(r, p, S, state)
  BY <1>4 DEF Pay, Renew, Mint
<1> QED BY <1>1, <1>2, <1>3, <1>4, TokenStep

-----------------------------------------------------------------------------
(* The invariants.                                                         *)

IInv == TypeOK /\ OneEach /\ Inherited /\ EndsAll /\ Covered

LEMMA InitInv == Init => IInv
<1> SUFFICES ASSUME Init PROVE IInv
  OBVIOUS
<1>1. \A r \in Requests : NoToken(r) \in Token
  BY DEF NoToken, Token
<1>2. TypeOK  BY <1>1 DEF Init, TypeOK
<1>3. \A r \in Requests : token[r].state = "none"
  BY DEF Init, NoToken
<1> QED BY <1>2, <1>3 DEF IInv, OneEach, Inherited, EndsAll, Covered, Good, Minted, Init

(* Paying or renewing.                                                     *)
LEMMA MintInv ==
  ASSUME IInv, TypeOK', NEW r \in Requests, NEW S \in SUBSET Scopes,
         NEW state \in {"good", "dead"},
         \/ \E a \in Authorizations : Pay(r, a, S, state)
         \/ \E p \in Requests : Renew(r, p, S, state)
  PROVE  IInv'
<1>1. standing = "open" /\ ~Minted(r) /\ UNCHANGED <<standing, scopes, void>>
  BY DEF Pay, Renew, Mint
<1>2. \A q \in Requests : q # r => token'[q] = token[q]
  BY DEF Pay, Renew, Mint, IInv, TypeOK
<1>3. token'[r].state = state /\ token'[r].scopes = S
  BY DEF Pay, Renew, Mint, IInv, TypeOK
<1>4. Minted(r)' /\ \A q \in Requests : q # r => Minted(q)' = Minted(q)
  BY <1>2, <1>3 DEF Minted
<1>5. EndsAll'
  BY <1>1 DEF EndsAll
<1>6. CASE \E a \in Authorizations : Pay(r, a, S, state)
  <2>1. PICK a \in Authorizations : Pay(r, a, S, state)
    BY <1>6
  <2>2. token'[r].kind = "code" /\ token'[r].by = a
    BY <2>1 DEF Pay, Mint, IInv, TypeOK
  <2>3. OneEach'
    BY <1>2, <1>4, <2>1, <2>2 DEF OneEach, IInv, Pay
  <2>4. Inherited'
    <3> SUFFICES ASSUME NEW q \in Requests, Minted(q)', token'[q].kind = "refresh"
                 PROVE  /\ token'[q].by \in Requests
                        /\ Minted(token[q].by)'
                        /\ token'[q].scopes \subseteq token'[token'[q].by].scopes
      BY DEF Inherited
    <3>1. q # r  BY <2>2
    <3>2. token'[q] = token[q] /\ Minted(q)  BY <1>2, <1>4, <3>1
    <3>3. /\ token[q].by \in Requests /\ Minted(token[q].by)
          /\ token[q].scopes \subseteq token[token[q].by].scopes
      BY <3>2 DEF Inherited, IInv
    <3>4. token[q].by # r  BY <1>1, <3>3
    <3> QED BY <1>2, <1>4, <3>2, <3>3, <3>4
  <2>5. Covered'
    BY <1>1, <1>2, <1>3, <2>1, <2>2 DEF Covered, IInv, Good, Pay
  <2> QED BY <1>5, <2>3, <2>4, <2>5 DEF IInv
<1>7. CASE \E p \in Requests : Renew(r, p, S, state)
  <2>1. PICK p \in Requests : Renew(r, p, S, state)
    BY <1>7
  <2>2. token'[r].kind = "refresh" /\ token'[r].by = p
    BY <2>1 DEF Renew, Mint, IInv, TypeOK
  <2>3. OneEach'
    BY <1>2, <1>4, <2>2 DEF OneEach, IInv
  <2>4. Inherited'
    <3> SUFFICES ASSUME NEW q \in Requests, Minted(q)', token'[q].kind = "refresh"
                 PROVE  /\ token'[q].by \in Requests
                        /\ Minted(token[q].by)'
                        /\ token'[q].scopes \subseteq token'[token'[q].by].scopes
      BY DEF Inherited
    <3>1. CASE q = r
      <4>1. Minted(p) /\ p # r /\ S \subseteq token[p].scopes  BY <1>1, <2>1 DEF Renew
      <4> QED BY <1>2, <1>3, <1>4, <2>2, <3>1, <4>1
    <3>2. CASE q # r
      <4>1. token'[q] = token[q] /\ Minted(q)  BY <1>2, <1>4, <3>2
      <4>2. /\ token[q].by \in Requests /\ Minted(token[q].by)
            /\ token[q].scopes \subseteq token[token[q].by].scopes
        BY <4>1 DEF Inherited, IInv
      <4>3. token[q].by # r  BY <1>1, <4>2
      <4> QED BY <1>2, <1>4, <4>1, <4>2, <4>3
    <3> QED BY <3>1, <3>2
  <2>5. Covered'
    BY <1>1, <1>2, <1>3, <2>1, <2>2 DEF Covered, IInv, Good, Renew
  <2> QED BY <1>5, <2>3, <2>4, <2>5 DEF IInv
<1> QED BY <1>6, <1>7

(* Tokens dying: what the tokens say of themselves stays, and where the    *)
(* authorization changed under them all of them died.                      *)
LEMMA DieInv ==
  ASSUME IInv, TypeOK', NEW D, Die(D),
         Linked /\ standing' = "ended" /\ standing # "ended" => D = Requests,
         Linked /\ Prompt => \/ D = Requests
                             \/ UNCHANGED <<scopes, void>>
                             \/ standing' = "ended"
  PROVE  IInv'
<1>1. \A r \in Requests :
        /\ Minted(r)' = Minted(r)
        /\ token'[r].kind = token[r].kind /\ token'[r].by = token[r].by
        /\ token'[r].scopes = token[r].scopes
        /\ Good(r)' => Good(r)
        /\ r \in D => ~Good(r)'
  BY DEF Die, Minted, Good, IInv, TypeOK, Token
<1>2. OneEach'  BY <1>1 DEF OneEach, IInv
<1>3. Inherited'  BY <1>1 DEF Inherited, IInv
<1>4. EndsAll'  BY <1>1 DEF EndsAll, IInv
<1>5. Covered'  BY <1>1, <1>4 DEF Covered, EndsAll, IInv
<1> QED BY <1>2, <1>3, <1>4, <1>5 DEF IInv

LEMMA StepInv == ASSUME IInv, [Next]_vars PROVE IInv'
<1> USE DEF IInv
<1>1. TypeOK'  BY TokenStep
<1>2. CASE UNCHANGED vars
  BY <1>2 DEF vars, TypeOK, OneEach, Inherited, EndsAll, Covered, Good, Minted
<1>3. CASE \E D \in SUBSET Requests : Expire(D)
  <2>1. PICK D \in SUBSET Requests : Expire(D)  BY <1>3
  <2> QED BY <1>1, <2>1, DieInv DEF Expire
<1>4. CASE \E r \in Requests, S \in SUBSET Scopes, state \in {"good", "dead"} :
             \/ \E a \in Authorizations : Pay(r, a, S, state)
             \/ \E p \in Requests : Renew(r, p, S, state)
  BY <1>1, <1>4, MintInv
<1>5. CASE \E S \in SUBSET Scopes : Amend(S)
  <2>1. standing' = standing  BY <1>5 DEF Amend
  <2>2. PICK D \in SUBSET Requests : (Prompt => D = Requests) /\ Die(D)
    BY <1>5 DEF Amend, Withdraw
  <2> QED BY <1>1, <2>1, <2>2, DieInv
<1>6. CASE Void
  <2>1. standing' = standing  BY <1>6 DEF Void
  <2>2. PICK D \in SUBSET Requests : (Prompt => D = Requests) /\ Die(D)
    BY <1>6 DEF Void, Withdraw
  <2> QED BY <1>1, <2>1, <2>2, DieInv
<1>7. CASE End
  <2>1. PICK D \in SUBSET Requests : (Linked => D = Requests) /\ Die(D)
    BY <1>7 DEF End, Withdraw
  <2>2. standing' = "ended" /\ scopes' = scopes  BY <1>7 DEF End
  <2> QED BY <1>1, <2>1, <2>2, DieInv
<1> QED BY <1>2, <1>3, <1>4, <1>5, <1>6, <1>7 DEF Next

LEMMA Inductive == Spec => []IInv
<1>1. IInv /\ [Next]_vars => IInv'  BY StepInv
<1> QED BY InitInv, <1>1, PTL DEF Spec

-----------------------------------------------------------------------------

(* An authorization keeps its types, and one code pays for one token.      *)
THEOREM OneTokenEach == Spec => [](TypeOK /\ OneEach)
<1>1. IInv => TypeOK /\ OneEach  BY DEF IInv
<1> QED BY Inductive, <1>1, PTL

(* No renewal widens: what a refresh token pays for is within the scopes   *)
(* of the access token it came with.                                       *)
THEOREM NeverWider == Spec => []Inherited
<1>1. IInv => Inherited  BY DEF IInv
<1> QED BY Inductive, <1>1, PTL

(* What names an authorization is refused once that has ended.             *)
THEOREM EndReachesAll == Spec => []EndsAll
<1>1. IInv => EndsAll  BY DEF IInv
<1> QED BY Inductive, <1>1, PTL

(* A prompt withdrawal reaches whatever it takes away.                     *)
THEOREM WithdrawalCovers == Spec => []Covered
<1>1. IInv => Covered  BY DEF IInv
<1> QED BY Inductive, <1>1, PTL

(* A refusal is for good, and so is the end of an authorization.           *)
THEOREM RefusedForGood == Spec => [][Final /\ Closed]_vars
<1>1. IInv /\ [Next]_vars => [Final /\ Closed]_vars
  BY FinalStep, ClosedStep DEF IInv
<1> QED BY Inductive, <1>1, PTL DEF Spec
=============================================================================
