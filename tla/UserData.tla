------------------------------ MODULE UserData ------------------------------
(***************************************************************************)
(* Votes and bookmarks: POST /feedback (api/v1/feedback.py) and POST       *)
(* /me/bookmarks (api/v1/me.py), on the tables that the seed script's      *)
(* TRUNCATE ... CASCADE empties under them.  Both handlers find the target *)
(* row, look for the caller's own row on it, insert one if there is none,  *)
(* and read it back; on an existing row a vote is updated and a bookmark   *)
(* returned as it is.                                                      *)
(*                                                                         *)
(* Each statement is a step.  The first one leaves the request's           *)
(* transaction with a lock on the table it read, until commit, and         *)
(* TRUNCATE waits for it (req[r].tx).  What commit() does, the flushed     *)
(* INSERT or UPDATE and the COMMIT itself, is one step.  A request is made *)
(* once; a row has the request that inserted it for its id.                *)
(***************************************************************************)
EXTENDS FiniteSets, Naturals

CONSTANTS
    Docs, Results,           \* document ids, ids of search_results rows
    Users, Anonymous,        \* logged-in users, and nobody
    Voters, Markers,         \* requests to vote, and to bookmark
    None,
    MaxSeeds                 \* bound on runs of the seed script

Reqs == Voters \cup Markers

ASSUME KindsDiffer == /\ Voters \cap Markers = {} /\ Docs \cap Results = {}
                      /\ Users \cap Reqs = {}
ASSUME AnonymousIsNoUser == Anonymous \notin Users
ASSUME NoneIsNothing == None \notin Reqs \cup BOOLEAN
ASSUME SomeOfEach == Docs # {} /\ Results # {} /\ Users # {}
ASSUME MaxSeedsNat == MaxSeeds \in Nat

VARIABLES
    documents,               \* ids in the documents table
    search_results, issued,  \* ids in search_results, and all there ever were
    rows,                    \* feedback by Voters, bookmarks by Markers
    req,                     \* what each request is doing
    seed                     \* the seed script

vars == <<documents, search_results, issued, rows, req, seed>>

Targets(r) == IF r \in Voters THEN Results ELSE Docs
Callers(r) == IF r \in Voters THEN Users \cup {Anonymous} ELSE Users
Verdicts(r) == IF r \in Voters THEN BOOLEAN ELSE {TRUE}
Working == {"select", "write", "refresh", "return"}

\* A Feedback row (vote is is_relevant), or a Bookmark row.
Row(r) == [target : Targets(r), user : Callers(r), vote : Verdicts(r)]

ASSUME NoneIsNoRow == \A r \in Reqs : None \notin Row(r)

Init ==
    /\ documents = {} /\ search_results = {} /\ issued = {}
    /\ rows = [r \in Reqs |-> None]
    /\ req = [r \in Reqs |->
                [pc |-> "idle", target |-> CHOOSE t \in Targets(r) : TRUE,
                 user |-> CHOOSE u \in Users : TRUE, vote |-> TRUE,
                 row |-> None, loaded |-> None, tx |-> FALSE, answer |-> None,
                 first |-> FALSE]]
    /\ seed = [loading |-> FALSE, runs |-> 0]

-----------------------------------------------------------------------------
(* The rest of the system, as far as it reaches these tables.              *)

\* A search is answered and logged: a result row with a fresh id (SearchService).
LogSearch ==
    /\ documents # {}
    /\ \E x \in Results \ issued : /\ search_results' = search_results \cup {x}
                                   /\ issued' = issued \cup {x}
    /\ UNCHANGED <<documents, rows, req, seed>>

\* The transactions TRUNCATE has to wait for.
TablesInUse == \E r \in Reqs : req[r].tx

\* TRUNCATE embeddings, documents CASCADE: search_results and bookmarks refer to
\* documents, feedback refers to search_results.
SeedTruncate ==
    /\ seed.runs < MaxSeeds /\ ~TablesInUse
    /\ documents' = {} /\ search_results' = {}
    /\ rows' = [r \in Reqs |-> None]
    /\ seed' = [loading |-> TRUE, runs |-> seed.runs + 1]
    /\ UNCHANGED <<issued, req>>

\* One batch of documents.
SeedLoad ==
    /\ seed.loading
    /\ \E batch \in SUBSET (Docs \ documents) \ {{}} :
         /\ documents' = documents \cup batch
         /\ seed' = [seed EXCEPT !.loading = documents' # Docs]
    /\ UNCHANGED <<search_results, issued, rows, req>>

-----------------------------------------------------------------------------
(* The handlers.                                                           *)

Existing(r) == IF r \in Voters THEN search_results ELSE documents

\* Slip: every statement in a transaction of its own.
Autocommit == FALSE

\* A session begins a transaction with its first statement and keeps it.
TxAfterSelect == TRUE

\* The rows of one user on one target, of feedback or of bookmarks.  NULL users are
\* never equal.
RowsOf(user, target) ==
    {q \in Reqs : /\ user # Anonymous /\ rows[q] # None
                  /\ rows[q].user = user /\ rows[q].target = target}

\* db.get of the target: 404, or the transaction is open.  An anonymous vote has
\* nothing to look up.  `first' is history: there was no row yet.
GetTarget(r) ==
    /\ req[r].pc = "idle"
    /\ \E t \in Targets(r), u \in Callers(r), v \in Verdicts(r) :
         req' = [req EXCEPT ![r] =
            [@ EXCEPT !.pc = IF t \notin Existing(r) THEN "404"
                             ELSE IF u = Anonymous THEN "write" ELSE "select",
                      !.target = t, !.user = u, !.vote = v,
                      !.tx = TxAfterSelect /\ t \in Existing(r),
                      !.first = t \in Existing(r) /\ RowsOf(u, t) = {}]]
    /\ UNCHANGED <<documents, search_results, issued, rows, seed>>

\* Slips: the row looked up for any caller, and not at all.
RowOfAnyone(r) == {q \in Reqs : rows[q] # None /\ rows[q].target = req[r].target}
NotLookedUp(r) == {}

\* The caller's own row on the target.
OwnRow(r) == RowsOf(req[r].user, req[r].target)

Select(r) ==
    /\ req[r].pc = "select"
    /\ \/ /\ OwnRow(r) = {}
          /\ req' = [req EXCEPT ![r].pc = "write"]
       \/ \E q \in OwnRow(r) :
             req' = [req EXCEPT ![r].pc = IF r \in Voters THEN "write" ELSE "return",
                                ![r].row = q, ![r].loaded = rows[q].vote]
    /\ UNCHANGED <<documents, search_results, issued, rows, seed>>

\* Slip: nothing is returned.
ReturnNothing(r) ==
    /\ req[r].pc = "return"
    /\ req' = [req EXCEPT ![r].pc = "ok", ![r].tx = FALSE]
    /\ UNCHANGED <<documents, search_results, issued, rows, seed>>

\* An existing bookmark, with its document loaded.
Return(r) ==
    /\ req[r].pc = "return"
    /\ req' = [req EXCEPT ![r].pc = "ok", ![r].tx = FALSE, ![r].answer = req[r].loaded]
    /\ UNCHANGED <<documents, search_results, issued, rows, seed>>

\* An exception leaves the handler; the transaction is rolled back.
Fail(r, error) == req' = [req EXCEPT ![r].pc = error, ![r].tx = FALSE]

\* Slip: no unique index.
NeverTaken(r) == FALSE

\* The unique indexes on (search_result_id, user_id) and (user_id, document_id).
Taken(r) == RowsOf(req[r].user, req[r].target) # {}

\* INSERT and COMMIT.
Insert(r) ==
    /\ req[r].pc = "write" /\ req[r].row = None
    /\ \/ /\ Taken(r)
          /\ Fail(r, "UniqueViolation") /\ UNCHANGED rows
       \/ /\ ~Taken(r) /\ req[r].target \notin Existing(r)
          /\ Fail(r, "ForeignKeyViolation") /\ UNCHANGED rows
       \/ /\ ~Taken(r) /\ req[r].target \in Existing(r)
          /\ rows' = [rows EXCEPT ![r] = [target |-> req[r].target,
                                          user |-> req[r].user, vote |-> req[r].vote]]
          /\ req' = [req EXCEPT ![r].pc = "refresh", ![r].row = r, ![r].tx = FALSE]
    /\ UNCHANGED <<documents, search_results, issued, seed>>

\* UPDATE and COMMIT.  The session writes an attribute only if it differs from the
\* value it loaded.
Update(r) ==
    /\ req[r].pc = "write" /\ req[r].row # None
    /\ rows' = IF req[r].loaded = req[r].vote THEN rows
               ELSE [rows EXCEPT ![req[r].row].vote = req[r].vote]
    /\ req' = [req EXCEPT ![r].pc = "refresh", ![r].tx = FALSE]
    /\ UNCHANGED <<documents, search_results, issued, seed>>

\* db.refresh, in a new transaction: the row may have been truncated away.
Refresh(r) ==
    /\ req[r].pc = "refresh"
    /\ \/ /\ rows[req[r].row] = None
          /\ Fail(r, "InvalidRequestError")
       \/ /\ rows[req[r].row] # None
          /\ req' = [req EXCEPT ![r].pc = "ok", ![r].answer = rows[req[r].row].vote]
    /\ UNCHANGED <<documents, search_results, issued, rows, seed>>

submit_feedback(r) == GetTarget(r) \/ Select(r) \/ Insert(r) \/ Update(r) \/ Refresh(r)
create_bookmark(r) == GetTarget(r) \/ Select(r) \/ Return(r) \/ Insert(r) \/ Refresh(r)

Next ==
    \/ LogSearch \/ SeedTruncate \/ SeedLoad
    \/ \E r \in Voters : submit_feedback(r)
    \/ \E r \in Markers : create_bookmark(r)

Spec == Init /\ [][Next]_vars

-----------------------------------------------------------------------------
(* Properties.                                                             *)

Errors == {"404", "UniqueViolation", "ForeignKeyViolation", "InvalidRequestError"}

RequestOf(r) ==
    [pc : {"idle", "ok"} \cup Working \cup Errors, target : Targets(r), user : Callers(r),
     vote : Verdicts(r), row : Reqs \cup {None}, loaded : BOOLEAN \cup {None},
     tx : BOOLEAN, answer : BOOLEAN \cup {None}, first : BOOLEAN]

\* The type invariant; a request that is to be refreshed or returned knows its row,
\* and one that succeeded has something to answer.
TypeOK ==
    /\ documents \subseteq Docs /\ search_results \subseteq issued /\ issued \subseteq Results
    /\ DOMAIN rows = Reqs /\ \A r \in Reqs : rows[r] \in Row(r) \cup {None}
    /\ DOMAIN req = Reqs
    /\ \A r \in Reqs : /\ req[r] \in RequestOf(r)
                       /\ req[r].pc \in {"refresh", "return"} => req[r].row # None
                       /\ req[r].pc = "ok" => req[r].answer # None
    /\ seed \in [loading : BOOLEAN, runs : Nat]

\* No user ever has two votes on one result or two bookmarks of one document,
\* however the check and the insert of their requests interleave.
OneRowPerUser == \A u \in Users, t \in Results \cup Docs : \A p, q \in RowsOf(u, t) : p = q

\* What a request found with its first statement is still there when it inserts:
\* the foreign keys cannot fail, whenever the seed script truncates.
TargetStillThere ==
    \A r \in Reqs : /\ req[r].pc # "ForeignKeyViolation"
                    /\ req[r].pc \in {"select", "write"} => req[r].target \in Existing(r)

\* A request only runs into the unique index if the caller's row appeared after it
\* began: resubmitting after an answer never fails.
ConflictOnlyIfOverlapping ==
    \A r \in Reqs : req[r].pc = "UniqueViolation" => req[r].first

(***************************************************************************)
(* The inductive strengthening the proofs use: what a request has found    *)
(* out, by how far it has come.  A transaction is open from the first      *)
(* statement to the commit, and while one is open neither its target nor   *)
(* the row found on it can go.                                             *)
(***************************************************************************)
Inserted == {"refresh", "ok", "InvalidRequestError"}

HoldsTx(r) == req[r].tx = (req[r].pc \in {"select", "write", "return"})

TargetIsThere(r) == req[r].pc \in {"select", "write"} => req[r].target \in Existing(r)

FirstIsTrue(r) ==
    /\ req[r].pc = "idle" => ~req[r].first
    /\ req[r].pc = "select" => req[r].first \/ RowsOf(req[r].user, req[r].target) # {}
    /\ req[r].pc = "write" /\ req[r].row = None => req[r].first
    /\ req[r].pc = "UniqueViolation" => req[r].first

\* What a request knows of an existing row: until it looks there is none, and what it
\* found is a row of its own kind, which is there until the commit.
FoundTrue(r) ==
    /\ req[r].pc \in {"idle", "select"} => req[r].row = None
    /\ req[r].row = None => req[r].loaded = None
    /\ req[r].pc = "select" => req[r].user # Anonymous
    /\ req[r].pc = "return" => r \in Markers /\ req[r].loaded = TRUE
    /\ req[r].row # None =>
          /\ req[r].pc \in {"write", "return"} =>
                /\ rows[req[r].row] # None
                /\ r \in Voters => req[r].row \in Voters
          /\ req[r].pc \in {"write", "return"} \cup Inserted

\* The row a request has is one that was inserted for the same target and caller.
SameRow(r) ==
    req[r].row # None =>
        /\ req[req[r].row].pc \in Inserted
        /\ req[req[r].row].target = req[r].target
        /\ req[req[r].row].user = req[r].user
        /\ req[r].user # Anonymous \/ req[r].row = r

HasItsRow(r) ==
    rows[r] # None => /\ req[r].pc \in {"refresh", "ok"} /\ req[r].row = r
                      /\ rows[r].target = req[r].target /\ rows[r].user = req[r].user

RequestInv(r) ==
    /\ req[r].pc # "ForeignKeyViolation"
    /\ HoldsTx(r) /\ TargetIsThere(r) /\ FirstIsTrue(r) /\ FoundTrue(r)
    /\ SameRow(r) /\ HasItsRow(r)

Inv == TypeOK /\ OneRowPerUser /\ \A r \in Reqs : RequestInv(r)

(***************************************************************************)
(* Votes and bookmarks implement UpsertStore.  An anonymous vote has a key *)
(* of its own.  A request that repeats the stored value takes effect when  *)
(* it reads it, since no UPDATE follows; one to be refreshed has been      *)
(* wiped when its row is gone.                                             *)
(***************************************************************************)
AbstractPc(r) ==
    CASE req[r].pc = "idle"    -> "idle"
      [] req[r].pc = "404"     -> "refused"
      [] req[r].pc = "select"  -> "begun"
      [] req[r].pc = "write"   -> IF req[r].loaded = req[r].vote THEN "applied" ELSE "begun"
      [] req[r].pc = "return"  -> "applied"
      [] req[r].pc = "refresh" -> IF rows[req[r].row] = None THEN "wiped" ELSE "applied"
      [] req[r].pc = "ok"      -> "answered"
      [] req[r].pc = "UniqueViolation"     -> "conflict"
      [] req[r].pc = "InvalidRequestError" -> "vanished"
      [] OTHER -> "broken"

Key(target, user, r) == <<target, IF user = Anonymous THEN r ELSE user>>
StoreKeys == (Results \cup Docs) \X (Users \cup Reqs)
RowsAt(k) == {q \in Reqs : rows[q] # None /\ Key(rows[q].target, rows[q].user, q) = k}
StoredAt(k) == IF RowsAt(k) = {} THEN None ELSE rows[CHOOSE q \in RowsAt(k) : TRUE].vote

Store == INSTANCE UpsertStore WITH
    Keys   <- StoreKeys, Values <- BOOLEAN,
    store  <- [k \in StoreKeys |-> StoredAt(k)],
    pc     <- [r \in Reqs |-> AbstractPc(r)],
    key    <- [r \in Reqs |-> Key(req[r].target, req[r].user, r)],
    value  <- [r \in Reqs |-> req[r].vote],
    answer <- [r \in Reqs |-> req[r].answer],
    first  <- [r \in Reqs |-> req[r].first]

\* Each vote and each bookmark takes effect once, atomically, between its first
\* statement and its answer; the answer is a value the row then had; the last vote in
\* that order wins and every anonymous vote stays.
SubmissionsAreUpserts == Store!Spec
=============================================================================
