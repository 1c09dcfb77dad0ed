--------------------------- MODULE AccountsProofs ---------------------------
(***************************************************************************)
(* Proofs about Accounts, for any number of clients, users, addresses and  *)
(* passwords, any lifetimes and any bound on the clock.                    *)
(***************************************************************************)
EXTENDS Accounts, FiniteSetTheorems, TLAPS

(***************************************************************************)
(* The inductive invariant.  What a request carries across an await is     *)
(* about a user that was created; what a password was worth is bounded by  *)
(* the kind of the token.                                                  *)
(***************************************************************************)
RequestOK(c) ==
    /\ req[c].pc \in Statuses \cup {"hash", "refresh", "verify"}
    /\ req[c].pc = "hash" => /\ req[c].email \in Spellings /\ req[c].typed \in Spellings
                             /\ Normal[req[c].email] = req[c].email
                             /\ req[c].password \in Passwords
    /\ req[c].pc \in {"refresh", "verify"} => req[c].user \in created

UsersOK ==
    /\ users \in [Ids -> User \cup {None}] /\ created \subseteq Ids
    /\ \A u \in Ids : users[u] # None => u \in created /\ users[u].email = Normal[users[u].email]
    /\ \A u, v \in Ids :
          users[u] # None /\ users[v] # None /\ users[u].email = users[v].email => u = v

TokensOK ==
    /\ tokens \subseteq Token /\ now \in 0 .. MaxTime /\ since \in [Ids -> Nat \cup {None}]
    /\ \A u \in Ids : since[u] # None => since[u] <= now
    /\ \A t \in tokens :
          /\ t.sub \in created /\ since[t.sub] # None
          /\ t.type = "refresh" => t.exp <= since[t.sub] + RefreshTTL
          /\ t.type = "access" => t.exp <= since[t.sub] + RefreshTTL + AccessTTL

RequestsOK == DOMAIN req = Clients /\ \A c \in Clients : RequestOK(c)

IInv == UsersOK /\ TokensOK /\ RequestsOK

-----------------------------------------------------------------------------
(* The parts of a step.                                                    *)

\* A pair issued for a password starts the count again for its user, and nobody else.
LEMMA PairKeepsTokens ==
    ASSUME TokensOK, created \subseteq Ids, NEW u \in created, IssuePair(u),
           UNCHANGED <<now, created>>
    PROVE  TokensOK'
<1> DEFINE a == [sub |-> u, type |-> "access", exp |-> now + AccessTTL]
           b == [sub |-> u, type |-> "refresh", exp |-> now + RefreshTTL]
<1>1. /\ tokens' = tokens \cup {a, b} /\ since' = [since EXCEPT ![u] = now]
      /\ now \in Nat /\ AccessTTL \in Nat /\ RefreshTTL \in Nat
      /\ u \in Ids /\ since \in [Ids -> Nat \cup {None}]
  BY TTLsAreNat DEF IssuePair, create_access_token, create_refresh_token, _create_token,
                    TokensOK
<1>2. a \in Token /\ b \in Token
  BY <1>1 DEF Token
<1>3. /\ since' \in [Ids -> Nat \cup {None}]
      /\ \A v \in Ids : since'[v] = IF v = u THEN now ELSE since[v]
  BY <1>1
<1>4. ASSUME NEW t \in tokens'
      PROVE  /\ t.sub \in created /\ since'[t.sub] # None
             /\ t.type = "refresh" => t.exp <= since'[t.sub] + RefreshTTL
             /\ t.type = "access" => t.exp <= since'[t.sub] + RefreshTTL + AccessTTL
  <2>1. CASE t \in tokens
    <3>1. /\ t.sub \in created /\ since[t.sub] \in Nat /\ since[t.sub] <= now
          /\ t.type = "refresh" => t.exp <= since[t.sub] + RefreshTTL
          /\ t.type = "access" => t.exp <= since[t.sub] + RefreshTTL + AccessTTL
          /\ t.exp \in Nat /\ t.sub \in Ids
      BY <2>1 DEF TokensOK, Token
    <3>2. since'[t.sub] \in Nat /\ since'[t.sub] >= since[t.sub]
      BY <1>1, <1>3, <3>1
    <3> QED BY <1>1, <3>1, <3>2, NoneIsNoTime
  <2>2. CASE t = a
    <3>1. t.sub = u /\ t.type = "access" /\ t.exp = now + AccessTTL
      BY <2>2
    <3> QED BY <1>1, <1>3, <3>1, NoneIsNoTime
  <2>3. CASE t = b
    <3>1. t.sub = u /\ t.type = "refresh" /\ t.exp = now + RefreshTTL
      BY <2>3
    <3> QED BY <1>1, <1>3, <3>1, NoneIsNoTime
  <2> QED BY <1>1, <2>1, <2>2, <2>3
<1>5. \A v \in Ids : since'[v] # None => since'[v] <= now
  BY <1>1, <1>3 DEF TokensOK
<1> QED BY <1>1, <1>2, <1>3, <1>4, <1>5 DEF TokensOK

\* An access token issued for a refresh token ends within its own lifetime of that one.
LEMMA RefreshKeepsTokens ==
    ASSUME TokensOK, created \subseteq Ids, NEW token \in tokens, Refreshable(token),
           tokens' = tokens \cup {create_access_token(token.sub)},
           UNCHANGED <<now, created, since>>
    PROVE  TokensOK'
<1> DEFINE a == [sub |-> token.sub, type |-> "access", exp |-> now + AccessTTL]
<1>1. /\ tokens' = tokens \cup {a} /\ now \in Nat /\ AccessTTL \in Nat /\ RefreshTTL \in Nat
      /\ now <= token.exp /\ token.type = "refresh" /\ token \in Token
  BY TTLsAreNat DEF create_access_token, _create_token, TokensOK, Refreshable, Accepts
<1>2. /\ token.sub \in created /\ since[token.sub] \in Nat /\ since[token.sub] # None
      /\ token.exp <= since[token.sub] + RefreshTTL /\ token.exp \in Nat /\ token.sub \in Ids
  BY <1>1 DEF TokensOK, Token
<1>3. a \in Token /\ a.sub = token.sub /\ a.type = "access" /\ a.exp = now + AccessTTL
  BY <1>1, <1>2 DEF Token
<1>4. a.exp <= since[a.sub] + RefreshTTL + AccessTTL
  BY <1>1, <1>2, <1>3
<1> QED BY <1>1, <1>2, <1>3, <1>4 DEF TokensOK

\* Steps of one request leave what the others carry.
LEMMA OthersCarryOn ==
    ASSUME RequestsOK, created \subseteq created', NEW c \in Clients, NEW new,
           req' = [req EXCEPT ![c] = new], RequestOK(c)'
    PROVE  RequestsOK'
<1>1. DOMAIN req' = Clients /\ \A d \in Clients \ {c} : req'[d] = req[d]
  BY DEF RequestsOK
<1>2. ASSUME NEW d \in Clients \ {c}  PROVE RequestOK(d)'
  BY <1>1, <1>2 DEF RequestsOK, RequestOK
<1> QED BY <1>1, <1>2 DEF RequestsOK

\* A request that is over carries nothing.
LEMMA OverIsOK ==
    ASSUME RequestsOK, created \subseteq created', NEW c \in Clients, NEW new,
           new.pc \in Statuses, req' = [req EXCEPT ![c] = new]
    PROVE  RequestsOK'
<1>1. req'[c] = new
  BY DEF RequestsOK
<1>2. RequestOK(c)'
  BY <1>1 DEF RequestOK, Statuses
<1> QED BY <1>2, OthersCarryOn

LEMMA OverWithStatus ==
    ASSUME RequestsOK, created \subseteq created', NEW c \in Clients, NEW status \in Statuses,
           req' = [req EXCEPT ![c] = Over(status)]
    PROVE  RequestsOK'
<1>1. Over(status).pc = status
  BY DEF Over
<1> QED BY <1>1, OverIsOK

\* What none of the steps but signup's and an operator's touch stays as it is.
LEMMA UsersStay == UsersOK /\ UNCHANGED <<users, created>> => UsersOK'
BY DEF UsersOK

\* Tokens stay within their bounds while time passes.
LEMMA TokensStay ==
    ASSUME TokensOK, UNCHANGED <<tokens, since>>, created \subseteq created',
           now' = now \/ (now < MaxTime /\ now' = now + 1)
    PROVE  TokensOK'
<1>1. now' \in 0 .. MaxTime /\ now' \in Nat /\ now \in Nat /\ now <= now'
  BY TTLsAreNat DEF TokensOK
<1>2. \A u \in Ids : since'[u] # None => since'[u] <= now'
  BY <1>1 DEF TokensOK
<1> QED BY <1>1, <1>2 DEF TokensOK

\* What no request has a part in leaves what they carry.
LEMMA RequestsStay ==
    ASSUME RequestsOK, UNCHANGED <<req, created>>
    PROVE  RequestsOK'
<1>1. ASSUME NEW d \in Clients  PROVE RequestOK(d)'
  <2>1. RequestOK(d) /\ req'[d] = req[d] /\ created' = created
    BY DEF RequestsOK
  <2> QED BY <2>1 DEF RequestOK
<1> QED BY <1>1 DEF RequestsOK

-----------------------------------------------------------------------------
(* The steps.                                                              *)

\* The SELECT of signup: what it carries to the INSERT is a normal address.
LEMMA SignupSelectKeeps == ASSUME IInv, NEW c \in Clients, SignupSelect(c)  PROVE IInv'
<1>1. PICK s \in Spellings, p \in Passwords :
         req' = [req EXCEPT ![c] =
            IF WithEmail(EmailStr(s)) # {} THEN Over("409")
            ELSE [pc |-> "hash", email |-> EmailStr(s), typed |-> s, password |-> p]]
  BY DEF SignupSelect
<1>2. UNCHANGED <<users, tokens, now, created, since>> /\ RequestsOK
  BY DEF SignupSelect, IInv
<1>3. RequestsOK'
  <2>1. CASE WithEmail(EmailStr(s)) # {}
    <3>1. req' = [req EXCEPT ![c] = Over("409")]
      BY <1>1, <2>1
    <3> QED BY <1>2, <3>1, OverWithStatus DEF Statuses
  <2>2. CASE WithEmail(EmailStr(s)) = {}
    <3> DEFINE new == [pc |-> "hash", email |-> EmailStr(s), typed |-> s, password |-> p]
    <3>1. req' = [req EXCEPT ![c] = new]
      BY <1>1, <2>2
    <3>2. req'[c] = new
      BY <1>2, <3>1 DEF RequestsOK
    <3>3. EmailStr(s) \in Spellings /\ Normal[EmailStr(s)] = EmailStr(s)
      BY NormalIsNormal DEF EmailStr
    <3>4. RequestOK(c)'
      BY <3>2, <3>3 DEF RequestOK, Statuses
    <3> QED BY <1>2, <3>1, <3>4, OthersCarryOn
  <2> QED BY <2>1, <2>2
<1> QED BY <1>2, <1>3, UsersStay, TokensStay DEF IInv

\* The INSERT: the unique index keeps a second user with the same address out.
LEMMA SignupInsertKeeps == ASSUME IInv, NEW c \in Clients, SignupInsert(c)  PROVE IInv'
<1>1. /\ req[c].pc = "hash" /\ UNCHANGED <<tokens, now, since>>
      /\ UsersOK /\ TokensOK /\ RequestsOK /\ RequestOK(c)
  BY DEF SignupInsert, IInv, RequestsOK
<1>2. CASE /\ Taken(req[c].email)
           /\ req' = [req EXCEPT ![c] = Over("UniqueViolation")]
           /\ UNCHANGED <<users, created>>
  <2>1. RequestsOK'
    BY <1>1, <1>2, OverWithStatus DEF Statuses
  <2> QED BY <1>1, <1>2, <2>1, UsersStay, TokensStay DEF IInv
<1>3. ASSUME ~Taken(req[c].email), NEW u \in Ids \ created,
             users' = [users EXCEPT ![u] = [email |-> req[c].email, typed |-> req[c].typed,
                                            password |-> req[c].password, role |-> "user"]],
             created' = created \cup {u},
             req' = [req EXCEPT ![c] = [pc |-> "refresh", user |-> u]]
      PROVE  IInv'
  <2> DEFINE row == [email |-> req[c].email, typed |-> req[c].typed,
                     password |-> req[c].password, role |-> "user"]
             new == [pc |-> "refresh", user |-> u]
  <2>1. /\ row \in User /\ row.email = req[c].email /\ Normal[row.email] = row.email
        /\ \A v \in Ids : users[v] # None => users[v].email # row.email
    BY <1>1, <1>3 DEF RequestOK, User, Taken, WithEmail
  <2>2. /\ users' \in [Ids -> User \cup {None}]
        /\ \A v \in Ids : users'[v] = IF v = u THEN row ELSE users[v]
    BY <1>1, <1>3, <2>1 DEF UsersOK
  <2> HIDE DEF row
  <2>3. UsersOK'
    BY <1>1, <1>3, <2>1, <2>2 DEF UsersOK
  <2>4. req'[c] = new /\ RequestOK(c)'
    BY <1>1, <1>3 DEF RequestsOK, RequestOK, Statuses
  <2>5. RequestsOK'
    BY <1>1, <1>3, <2>4, OthersCarryOn
  <2> QED BY <1>1, <1>3, <2>3, <2>5, TokensStay DEF IInv
<1> QED BY <1>2, <1>3 DEF SignupInsert

\* db.refresh, and the first pair of tokens.
LEMMA SignupRefreshKeeps == ASSUME IInv, NEW c \in Clients, SignupRefresh(c)  PROVE IInv'
<1>1. /\ req[c].pc = "refresh" /\ UNCHANGED <<users, now, created>>
      /\ UsersOK /\ TokensOK /\ RequestsOK /\ req[c].user \in created /\ created \subseteq Ids
  BY DEF SignupRefresh, IInv, RequestsOK, RequestOK, UsersOK
<1>2. UsersOK'
  BY <1>1, UsersStay
<1>3. CASE req' = [req EXCEPT ![c] = Over("InvalidRequestError")] /\ UNCHANGED <<tokens, since>>
  <2>1. RequestsOK'
    BY <1>1, <1>3, OverWithStatus DEF Statuses
  <2> QED BY <1>1, <1>2, <1>3, <2>1, TokensStay DEF IInv
<1>4. CASE IssuePair(req[c].user) /\ req' = [req EXCEPT ![c] = Over("201")]
  <2>1. RequestsOK'
    BY <1>1, <1>4, OverWithStatus DEF Statuses
  <2> QED BY <1>1, <1>2, <1>4, <2>1, PairKeepsTokens DEF IInv
<1> QED BY <1>3, <1>4 DEF SignupRefresh

\* The SELECT of login: the row it carries to the check of the password is a user's.
LEMMA LoginSelectKeeps == ASSUME IInv, NEW c \in Clients, LoginSelect(c)  PROVE IInv'
<1>1. UNCHANGED <<users, tokens, now, created, since>> /\ RequestsOK /\ UsersOK
  BY DEF LoginSelect, IInv
<1>2. PICK s \in Spellings, p \in Passwords :
         req' = [req EXCEPT ![c] =
            IF WithEmail(s) = {} THEN [pc |-> "401", typed |-> s, password |-> p]
            ELSE LET u == CHOOSE u \in WithEmail(s) : TRUE
                 IN  [pc |-> "verify", user |-> u, typed |-> s, password |-> p,
                      hashed |-> users[u].password]]
  BY DEF LoginSelect
<1>3. CASE WithEmail(s) = {}
  <2> DEFINE new == [pc |-> "401", typed |-> s, password |-> p]
  <2>1. new.pc \in Statuses /\ req' = [req EXCEPT ![c] = new]
    BY <1>2, <1>3 DEF Statuses
  <2> HIDE DEF new
  <2>2. RequestsOK'
    BY <1>1, <2>1, OverIsOK
  <2> QED BY <1>1, <2>2, UsersStay, TokensStay DEF IInv
<1>4. CASE WithEmail(s) # {}
  <2> DEFINE u   == CHOOSE u \in WithEmail(s) : TRUE
             new == [pc |-> "verify", user |-> u, typed |-> s, password |-> p,
                     hashed |-> users[u].password]
  <2>1. u \in WithEmail(s)
    BY <1>4
  <2>2. u \in created
    BY <1>1, <2>1 DEF UsersOK, WithEmail
  <2>3. new.pc = "verify" /\ new.user = u /\ req' = [req EXCEPT ![c] = new]
    BY <1>2, <1>4
  <2>4. req'[c] = new
    BY <1>1, <2>3 DEF RequestsOK
  <2> HIDE DEF u, new
  <2>5. RequestOK(c)'
    BY <1>1, <2>2, <2>3, <2>4 DEF RequestOK, Statuses
  <2>6. RequestsOK'
    BY <1>1, <2>3, <2>5, OthersCarryOn
  <2> QED BY <1>1, <2>6, UsersStay, TokensStay DEF IInv
<1> QED BY <1>3, <1>4

\* The check of the password, and the pair of tokens it is worth.
LEMMA LoginVerifyKeeps == ASSUME IInv, NEW c \in Clients, LoginVerify(c)  PROVE IInv'
<1>1. /\ req[c].pc = "verify" /\ UNCHANGED <<users, now, created>>
      /\ UsersOK /\ TokensOK /\ RequestsOK /\ req[c].user \in created /\ created \subseteq Ids
  BY DEF LoginVerify, IInv, RequestsOK, RequestOK, UsersOK
<1>2. UsersOK'
  BY <1>1, UsersStay
<1>3. CASE /\ req' = [req EXCEPT ![c] = [pc |-> "401", typed |-> req[c].typed,
                                         password |-> req[c].password]]
           /\ UNCHANGED <<tokens, since>>
  <2> DEFINE new == [pc |-> "401", typed |-> req[c].typed, password |-> req[c].password]
  <2>1. new.pc \in Statuses /\ req' = [req EXCEPT ![c] = new]
    BY <1>3 DEF Statuses
  <2> HIDE DEF new
  <2>2. RequestsOK'
    BY <1>1, <2>1, OverIsOK
  <2> QED BY <1>1, <1>2, <1>3, <2>2, TokensStay DEF IInv
<1>4. CASE IssuePair(req[c].user) /\ req' = [req EXCEPT ![c] = Over("200")]
  <2>1. RequestsOK'
    BY <1>1, <1>4, OverWithStatus DEF Statuses
  <2> QED BY <1>1, <1>2, <1>4, <2>1, PairKeepsTokens DEF IInv
<1> QED BY <1>3, <1>4 DEF LoginVerify

\* A token presented: a refresh token is worth an access token, nothing else is.
LEMMA RefreshKeeps == ASSUME IInv, NEW c \in Clients, refresh(c)  PROVE IInv'
<1>1. /\ UNCHANGED <<users, now, created, since>>
      /\ UsersOK /\ TokensOK /\ RequestsOK /\ created \subseteq Ids
  BY DEF refresh, IInv, UsersOK
<1>2. UsersOK'
  BY <1>1, UsersStay
<1>3. CASE req' = [req EXCEPT ![c] = Over("401")] /\ UNCHANGED tokens
  <2>1. RequestsOK'
    BY <1>1, <1>3, OverWithStatus DEF Statuses
  <2> QED BY <1>1, <1>2, <1>3, <2>1, TokensStay DEF IInv
<1>4. ASSUME NEW token \in Presented, Refreshable(token),
             tokens' = tokens \cup {create_access_token(token.sub)},
             req' = [req EXCEPT ![c] = Over("200")]
      PROVE  IInv'
  <2>1. RequestsOK'
    BY <1>1, <1>4, OverWithStatus DEF Statuses
  <2>2. token \in tokens
    BY <1>4 DEF Presented, Refreshable, Accepts
  <2>3. TokensOK'
    BY <1>1, <1>4, <2>2, RefreshKeepsTokens
  <2> QED BY <1>2, <2>1, <2>3 DEF IInv
<1> QED BY <1>3, <1>4 DEF refresh

\* A route that needs a user only answers.
LEMMA RouteKeeps ==
    ASSUME IInv, NEW c \in Clients, NEW needed, get_current_user(c, needed)
    PROVE  IInv'
<1>1. UNCHANGED <<users, tokens, now, created, since>> /\ RequestsOK
  BY DEF get_current_user, IInv
<1>2. \E status \in {"200", "401", "403"} : req' = [req EXCEPT ![c] = Over(status)]
  <2>1. PICK token \in Presented :
           req' = [req EXCEPT ![c] =
              IF ~Accepts(token, "access") THEN Over("401")
              ELSE IF users[token.sub] = None THEN Over("401")
              ELSE IF needed = "admin" /\ users[token.sub].role # "admin" THEN Over("403")
              ELSE Over("200")]
    BY DEF get_current_user
  <2>2. CASE ~Accepts(token, "access") \/ users[token.sub] = None
    <3>1. req' = [req EXCEPT ![c] = Over("401")]
      BY <2>1, <2>2
    <3> QED BY <3>1
  <2>3. CASE ~(~Accepts(token, "access") \/ users[token.sub] = None)
    <3>1. \/ req' = [req EXCEPT ![c] = Over("403")]
          \/ req' = [req EXCEPT ![c] = Over("200")]
      BY <2>1, <2>3
    <3> QED BY <3>1
  <2> QED BY <2>2, <2>3
<1>3. RequestsOK'
  BY <1>1, <1>2, OverWithStatus DEF Statuses
<1> QED BY <1>1, <1>3, UsersStay, TokensStay DEF IInv

\* What happens outside the service takes no address to another user.
LEMMA OutsideKeeps == ASSUME IInv, promote_admin \/ DeleteUser  PROVE IInv'
<1>1. UNCHANGED <<tokens, req, now, created, since>> /\ UsersOK /\ TokensOK /\ RequestsOK
  BY DEF promote_admin, DeleteUser, IInv
<1>2. \A u \in Ids : users'[u] # None => users[u] # None /\ users'[u].email = users[u].email
  <2>1. CASE promote_admin
    <3>1. PICK s \in Spellings :
            users' = [u \in Ids |-> IF u \in WithEmail(s) THEN [users[u] EXCEPT !.role = "admin"]
                                    ELSE users[u]]
      BY <2>1 DEF promote_admin
    <3> QED BY <1>1, <3>1 DEF UsersOK, WithEmail, User
  <2>2. CASE DeleteUser
    BY <1>1, <2>2 DEF DeleteUser, UsersOK
  <2> QED BY <2>1, <2>2
<1>3. users' \in [Ids -> User \cup {None}]
  <2>1. CASE promote_admin
    BY <1>1, <2>1 DEF promote_admin, UsersOK, WithEmail, User
  <2>2. CASE DeleteUser
    BY <1>1, <2>2 DEF DeleteUser, UsersOK
  <2> QED BY <2>1, <2>2
<1>4. UsersOK'
  BY <1>1, <1>2, <1>3 DEF UsersOK
<1>5. RequestsOK'
  BY <1>1, RequestsStay
<1> QED BY <1>1, <1>4, <1>5, TokensStay DEF IInv

-----------------------------------------------------------------------------
(* The invariant, and what follows from it.                                *)

\* Nobody is there at the start.
LEMMA InitOK == Init => IInv
<1> SUFFICES ASSUME Init  PROVE IInv
  OBVIOUS
<1>1. UsersOK
  BY DEF Init, UsersOK
<1>2. TokensOK
  BY TTLsAreNat DEF Init, TokensOK
<1>3. RequestsOK
  BY DEF Init, RequestsOK, RequestOK, Over, Statuses
<1> QED BY <1>1, <1>2, <1>3 DEF IInv

\* Every step keeps the invariant.
LEMMA StepOK == IInv /\ [Next]_vars => IInv'
<1> SUFFICES ASSUME IInv, [Next]_vars  PROVE IInv'
  OBVIOUS
<1>1. ASSUME NEW c \in Clients, signup(c)  PROVE IInv'
  BY <1>1, SignupSelectKeeps, SignupInsertKeeps, SignupRefreshKeeps DEF signup
<1>2. ASSUME NEW c \in Clients, login(c)  PROVE IInv'
  BY <1>2, LoginSelectKeeps, LoginVerifyKeeps DEF login
<1>3. ASSUME NEW c \in Clients, refresh(c)  PROVE IInv'
  BY <1>3, RefreshKeeps
<1>4. ASSUME NEW c \in Clients, get_current_user(c, "user") \/ get_current_user(c, "admin")
      PROVE  IInv'
  BY <1>4, RouteKeeps
<1>5. CASE promote_admin \/ DeleteUser
  BY <1>5, OutsideKeeps
<1>6. CASE Tick \/ UNCHANGED vars
  <2>1. /\ UNCHANGED <<users, tokens, req, created, since>>
        /\ now' = now \/ (now < MaxTime /\ now' = now + 1)
    <3>1. CASE Tick
      BY <3>1 DEF Tick
    <3>2. CASE UNCHANGED vars
      BY <3>2 DEF vars
    <3> QED BY <1>6, <3>1, <3>2
  <2>2. RequestsOK'
    BY <2>1, RequestsStay DEF IInv
  <2> QED BY <2>1, <2>2, UsersStay, TokensStay DEF IInv
<1> QED BY <1>1, <1>2, <1>3, <1>4, <1>5, <1>6 DEF Next

\* The invariant holds in every state.
LEMMA AlwaysIInv == Spec => []IInv
<1> QED BY InitOK, StepOK, PTL DEF Spec

\* Types, and that every address stored is a normal one.
THEOREM AccountsTyping == Spec => []TypeOK
<1>1. IInv => TypeOK
  <2> SUFFICES ASSUME IInv  PROVE TypeOK
    OBVIOUS
  <2>1. {t.sub : t \in tokens} \subseteq created
    BY DEF IInv, TokensOK
  <2>2. \A c \in Clients : Idle(c) \/ req[c].pc \in {"hash", "refresh", "verify"}
    BY DEF IInv, RequestsOK, RequestOK, Idle
  <2> QED BY <2>1, <2>2 DEF IInv, UsersOK, TokensOK, RequestsOK, TypeOK
<1> QED BY <1>1, AlwaysIInv, PTL

\* No two users have the same address, however the awaits of their signups overlap.
THEOREM AddressesAreUnique == Spec => []OneUserPerEmail
<1>1. IInv => OneUserPerEmail
  <2> SUFFICES ASSUME IInv, NEW s \in Spellings  PROVE Cardinality(WithEmail(s)) <= 1
    BY DEF OneUserPerEmail
  <2>1. \A u, v \in WithEmail(s) : u = v
    BY DEF IInv, UsersOK, WithEmail
  <2>2. CASE WithEmail(s) = {}
    BY <2>2, FS_EmptySet
  <2>3. CASE WithEmail(s) # {}
    <3>1. PICK u \in WithEmail(s) : WithEmail(s) = {u}
      BY <2>1, <2>3
    <3>2. Cardinality({u}) = 1
      BY FS_Singleton
    <3> QED BY <3>1, <3>2
  <2> QED BY <2>2, <2>3
<1> QED BY <1>1, AlwaysIInv, PTL

\* No chain of refreshes makes a token that outlives the last password by more than the
\* lifetime of one refresh token and one access token.
THEOREM ChainsOfRefreshesEnd == Spec => []SessionsEnd
<1>1. IInv => SessionsEnd
  <2> SUFFICES ASSUME IInv, NEW t \in tokens
               PROVE  since[t.sub] # None /\ t.exp <= since[t.sub] + RefreshTTL + AccessTTL
    BY DEF SessionsEnd
  <2>1. /\ t \in Token /\ since[t.sub] # None /\ since[t.sub] \in Nat /\ t.exp \in Nat
        /\ t.type = "refresh" => t.exp <= since[t.sub] + RefreshTTL
        /\ t.type = "access" => t.exp <= since[t.sub] + RefreshTTL + AccessTTL
    BY DEF IInv, TokensOK, Token
  <2>2. t.type = "access" \/ t.type = "refresh"
    BY <2>1 DEF Token
  <2> QED BY <2>1, <2>2, TTLsAreNat
<1> QED BY <1>1, AlwaysIInv, PTL
=============================================================================
