------------------------------ MODULE Accounts ------------------------------
(***************************************************************************)
(* Accounts: signup, login, refresh and the checks of a bearer token        *)
(* (api/v1/auth.py, api/v1/deps.py, core/security.py), with the script that *)
(* makes a user an admin.  A step is a statement on the users table, with   *)
(* the work that follows it up to the next await.                           *)
(*                                                                         *)
(* A token is signed, so the ones presented are those issued before, or     *)
(* garbage.  Signup normalises the address it is given (EmailStr writes the *)
(* domain in lower case), login and the script take theirs as it is.  Users *)
(* are only ever deleted in the database itself.                            *)
(***************************************************************************)
EXTENDS FiniteSets, Naturals

CONSTANTS
    Clients,                    \* requests being handled; a slot is used again
    Ids, Passwords,
    Spellings, Normal,          \* addresses as typed, and what EmailStr makes of each
    AccessTTL, RefreshTTL,
    None, Garbage,
    MaxTime                     \* bound on the clock

ASSUME TTLsAreNat == AccessTTL \in Nat \ {0} /\ RefreshTTL \in Nat \ {0} /\ MaxTime \in Nat
ASSUME NormalIsNormal ==
    Normal \in [Spellings -> Spellings] /\ \A s \in Spellings : Normal[Normal[s]] = Normal[s]
ASSUME NoneIsNoTime == None \notin Nat

VARIABLES
    users,      \* the users table
    tokens,     \* every token issued
    req,        \* what each request is doing
    now,
    created,    \* history: the ids ever given to a user
    since       \* history: when each user last got tokens for a password

vars == <<users, tokens, req, now, created, since>>

Token == [sub : Ids, type : {"access", "refresh"}, exp : Nat]
\* `typed' is history: the address as it was given at signup.
User == [email : Spellings, typed : Spellings, password : Passwords, role : {"user", "admin"}]

\* A request that is over, with its status.
Over(status) == [pc |-> status]
Statuses == {"idle", "200", "201", "401", "403", "409", "UniqueViolation", "InvalidRequestError"}
Idle(c) == req[c].pc \in Statuses

Init ==
    /\ users = [u \in Ids |-> None] /\ tokens = {}
    /\ req = [c \in Clients |-> Over("idle")]
    /\ now = 0 /\ created = {} /\ since = [u \in Ids |-> None]

WithEmail(email) == {u \in Ids : users[u] # None /\ users[u].email = email}

-----------------------------------------------------------------------------
(* core/security.py                                                        *)

_create_token(u, type, ttl) == [sub |-> u, type |-> type, exp |-> now + ttl]
create_access_token(u) == _create_token(u, "access", AccessTTL)
create_refresh_token(u) == _create_token(u, "refresh", RefreshTTL)

\* Slip: any token will do.
AnyToken(token, type) == token # Garbage /\ now <= token.exp

\* Whether a token is of ours, has not expired, and is of the type that is asked for.
Accepts(token, type) == token # Garbage /\ now <= token.exp /\ token.type = type

\* A pair of tokens, for a password.
IssuePair(u) ==
    /\ tokens' = tokens \cup {create_access_token(u), create_refresh_token(u)}
    /\ since' = [since EXCEPT ![u] = now]

-----------------------------------------------------------------------------
(* signup                                                                  *)

\* Slip: the address is kept as it is typed.
AsTyped(s) == s

EmailStr(s) == Normal[s]

\* 409 if there is such a user.
SignupSelect(c) ==
    /\ Idle(c)
    /\ \E s \in Spellings, p \in Passwords :
         req' = [req EXCEPT ![c] =
            IF WithEmail(EmailStr(s)) # {} THEN Over("409")
            ELSE [pc |-> "hash", email |-> EmailStr(s), typed |-> s, password |-> p]]
    /\ UNCHANGED <<users, tokens, now, created, since>>

\* Slip: no unique index.
NeverTaken(email) == FALSE

\* The unique index on the address.
Taken(email) == WithEmail(email) # {}

\* The password hashed in a thread, then INSERT and COMMIT of a plain user.
SignupInsert(c) ==
    /\ req[c].pc = "hash"
    /\ \/ /\ Taken(req[c].email)
          /\ req' = [req EXCEPT ![c] = Over("UniqueViolation")]
          /\ UNCHANGED <<users, created>>
       \/ /\ ~Taken(req[c].email)
          /\ \E u \in Ids \ created :
               /\ users' = [users EXCEPT ![u] = [email |-> req[c].email, typed |-> req[c].typed,
                                                 password |-> req[c].password, role |-> "user"]]
               /\ created' = created \cup {u}
               /\ req' = [req EXCEPT ![c] = [pc |-> "refresh", user |-> u]]
    /\ UNCHANGED <<tokens, now, since>>

\* db.refresh, and the tokens.
SignupRefresh(c) ==
    /\ req[c].pc = "refresh"
    /\ \/ /\ users[req[c].user] = None
          /\ req' = [req EXCEPT ![c] = Over("InvalidRequestError")]
          /\ UNCHANGED <<tokens, since>>
       \/ /\ users[req[c].user] # None
          /\ IssuePair(req[c].user)
          /\ req' = [req EXCEPT ![c] = Over("201")]
    /\ UNCHANGED <<users, now, created>>

signup(c) == SignupSelect(c) \/ SignupInsert(c) \/ SignupRefresh(c)

-----------------------------------------------------------------------------
(* login                                                                   *)

\* The user with this address, as it is typed.
LoginSelect(c) ==
    /\ Idle(c)
    /\ \E s \in Spellings, p \in Passwords :
         req' = [req EXCEPT ![c] =
            IF WithEmail(s) = {} THEN [pc |-> "401", typed |-> s, password |-> p]
            ELSE LET u == CHOOSE u \in WithEmail(s) : TRUE
                 IN  [pc |-> "verify", user |-> u, typed |-> s, password |-> p,
                      hashed |-> users[u].password]]
    /\ UNCHANGED <<users, tokens, now, created, since>>

\* The password verified in a thread, against the row that was read.
LoginVerify(c) ==
    /\ req[c].pc = "verify"
    /\ \/ /\ req[c].password # req[c].hashed
          /\ req' = [req EXCEPT ![c] = [pc |-> "401", typed |-> req[c].typed,
                                        password |-> req[c].password]]
          /\ UNCHANGED <<tokens, since>>
       \/ /\ req[c].password = req[c].hashed
          /\ IssuePair(req[c].user)
          /\ req' = [req EXCEPT ![c] = Over("200")]
    /\ UNCHANGED <<users, now, created>>

login(c) == LoginSelect(c) \/ LoginVerify(c)

-----------------------------------------------------------------------------
(* refresh, and the routes that need a user or an admin.                   *)

Presented == tokens \cup {Garbage}

Refreshable(token) == Accepts(token, "refresh")

\* Decode the token, find its user, issue an access token.
refresh(c) ==
    /\ Idle(c)
    /\ \E token \in Presented :
         \/ /\ ~Refreshable(token)
            /\ req' = [req EXCEPT ![c] = Over("401")] /\ UNCHANGED tokens
         \/ /\ Refreshable(token) /\ users[token.sub] = None
            /\ req' = [req EXCEPT ![c] = Over("401")] /\ UNCHANGED tokens
         \/ /\ Refreshable(token) /\ users[token.sub] # None
            /\ tokens' = tokens \cup {create_access_token(token.sub)}
            /\ req' = [req EXCEPT ![c] = Over("200")]
    /\ UNCHANGED <<users, now, created, since>>

\* get_current_user and get_current_admin_user: the role is the table's, not the token's.
get_current_user(c, needed) ==
    /\ Idle(c)
    /\ \E token \in Presented :
         req' = [req EXCEPT ![c] =
            IF ~Accepts(token, "access") THEN Over("401")
            ELSE IF users[token.sub] = None THEN Over("401")
            ELSE IF needed = "admin" /\ users[token.sub].role # "admin" THEN Over("403")
            ELSE Over("200")]
    /\ UNCHANGED <<users, tokens, now, created, since>>

-----------------------------------------------------------------------------
(* Outside the service.                                                    *)

\* promote_admin.py: UPDATE ... WHERE email, of one row or none.
promote_admin ==
    /\ \E s \in Spellings :
         users' = [u \in Ids |-> IF u \in WithEmail(s) THEN [users[u] EXCEPT !.role = "admin"]
                                 ELSE users[u]]
    /\ UNCHANGED <<tokens, req, now, created, since>>

DeleteUser ==
    /\ \E u \in Ids : users[u] # None /\ users' = [users EXCEPT ![u] = None]
    /\ UNCHANGED <<tokens, req, now, created, since>>

Tick == now < MaxTime /\ now' = now + 1 /\ UNCHANGED <<users, tokens, req, created, since>>

Next ==
    \/ \E c \in Clients : \/ signup(c) \/ login(c) \/ refresh(c)
                          \/ get_current_user(c, "user") \/ get_current_user(c, "admin")
    \/ promote_admin \/ DeleteUser \/ Tick

Spec == Init /\ [][Next]_vars

-----------------------------------------------------------------------------
(* Properties.                                                             *)

\* The type invariant; every address stored is a normal one.
TypeOK ==
    /\ users \in [Ids -> User \cup {None}]
    /\ \A u \in Ids : users[u] # None => u \in created /\ users[u].email = Normal[users[u].email]
    /\ tokens \subseteq Token /\ {t.sub : t \in tokens} \subseteq created
    /\ DOMAIN req = Clients /\ \A c \in Clients : Idle(c) \/ req[c].pc \in {"hash", "refresh", "verify"}
    /\ now \in 0..MaxTime /\ since \in [Ids -> Nat \cup {None}]

\* No two users have the same address, however their signups overlap.
OneUserPerEmail == \A s \in Spellings : Cardinality(WithEmail(s)) <= 1

\* Whoever does not give the password again is out after the lifetime of a refresh token
\* and one of an access token: no chain of refreshes makes a token that outlives that.
SessionsEnd ==
    \A t \in tokens : since[t.sub] # None /\ t.exp <= since[t.sub] + RefreshTTL + AccessTTL

\* auth.py:54: login treats the username as the email: the address that was given at
\* signup names the user.
SignedUpCanLogIn ==
    [][\A c \in Clients :
         Idle(c) /\ req'[c] # req[c] /\ req'[c].pc = "401" /\ "typed" \in DOMAIN req'[c]
            => \A u \in Ids : users[u] # None => users[u].typed # req'[c].typed]_vars
=============================================================================
