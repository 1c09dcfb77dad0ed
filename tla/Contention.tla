----------------------------- MODULE Contention -----------------------------
(***************************************************************************)
(* What the requests of one API process wait for: a connection of the      *)
(* pool (db/base.py), an inference slot (run_inference of                  *)
(* retrieval_service.py), a table that the TRUNCATE of the seed script has *)
(* locked, and the language model (api/v1/search.py).                      *)
(*                                                                         *)
(* A request is the sequence of these steps its handler has left.  Its     *)
(* session takes a connection with the first statement and keeps it, and   *)
(* the transaction's locks, until commit or close.  The locks of all       *)
(* statements but TRUNCATE go together; TRUNCATE's go with none.  The      *)
(* awaits of Redis (cache_service.py) are not among the steps: what they   *)
(* do to a search that has a connection is in SearchService.               *)
(***************************************************************************)
EXTENDS FiniteSets, Naturals, Sequences

CONSTANTS
    Requests,                \* requests in flight at a time
    Seeder,                  \* the seed script
    PoolSizes,               \* pool_size + max_overflow is one of these; 15 by default
    Concurrency              \* _INFERENCE_CONCURRENCY

ASSUME Capacities == PoolSizes \subseteq Nat \ {0} /\ Concurrency \in Nat \ {0}
ASSUME FinitelyMany == IsFiniteSet(Requests)
ASSUME SeederIsNoRequest == Seeder \notin Requests

VARIABLES
    env,                     \* the deployment: pool size, version of FastAPI
    todo,                    \* the steps each request has left
    conn, connWait,          \* requests with a connection, and those waiting for one
    spare,                   \* requests whose first session still has a connection
    slots, slotQueue,        \* requests running inference, and those queueing for it
    held, lockWait,          \* tables locked by each request, and who waits for one
    task, aborted,           \* background tasks, and those whose transaction failed
    truncate                 \* the TRUNCATE: the table it is at, and does it wait

poolVars == <<conn, connWait, spare>>
slotVars == <<slots, slotQueue>>
lockVars == <<held, lockWait>>
taskVars == <<task, aborted>>
vars     == <<env, todo, poolVars, slotVars, lockVars, taskVars, truncate>>

-----------------------------------------------------------------------------
(* The steps of each handler.  "others" are the tables TRUNCATE does not  *)
(* touch: users and search_queries.                                        *)

\* Slip: the tables that refer to others first.
ChildrenFirst == <<"feedback", "search_results", "bookmarks", "documents", "embeddings">>

\* The order in which TRUNCATE embeddings, documents CASCADE locks: the tables it names,
\* the tables that refer to these, oldest first, and feedback, which refers to one of them.
TruncateOrder == <<"embeddings", "documents", "bookmarks", "search_results", "feedback">>
Tables == {TruncateOrder[i] : i \in 1 .. 5}
Steps  == Tables \cup {"others", "infer", "llm", "background", "commit", "close"}

\* encode_query, the join, and _log_search with the foreign key to documents; a caller
\* who is logged in is looked up first.
search == <<"infer", "documents", "embeddings",
            "others", "search_results", "documents", "commit", "close">>
search_by_user == <<"others", "infer", "documents", "embeddings",
                    "others", "search_results", "documents", "commit", "close">>

\* A hit in the cache leaves _log_search.
search_cached == <<"others", "search_results", "documents", "commit", "close">>

\* The look-up of BM25-only candidates, and the cross-encoder.
search_hybrid == <<"infer", "documents", "embeddings", "documents", "infer",
                   "others", "search_results", "documents", "commit", "close">>

search_rag == <<"search_results", "documents", "llm", "close">>

submit_feedback == <<"search_results", "feedback", "commit", "feedback", "close">>

create_bookmark == <<"others", "documents", "bookmarks", "commit", "bookmarks", "close">>

list_bookmarks == <<"others", "bookmarks", "documents", "close">>

\* Like list_users, login and others that read tables TRUNCATE does not touch.
get_history == <<"others", "close">>

\* The check of the database, after that of Redis.
ready == <<"others", "close">>

\* The count of popular queries, and warm_cache with two of them.
warm_popular_cache == <<"others", "background", "infer", "documents", "embeddings",
                        "infer", "documents", "embeddings", "close">>

Handlers == {search, search_by_user, search_cached, search_hybrid, search_rag,
             submit_feedback, create_bookmark, list_bookmarks, get_history,
             ready, warm_popular_cache}

Init ==
    /\ env \in [poolSize : PoolSizes, closesFirst : BOOLEAN]
    /\ todo = [r \in Requests |-> <<>>]
    /\ conn = {} /\ connWait = {} /\ spare = {}
    /\ slots = {} /\ slotQueue = <<>>
    /\ held = [r \in Requests |-> {}] /\ lockWait = {}
    /\ task = {} /\ aborted = {}
    /\ truncate = [at |-> 0, waits |-> FALSE]

At(r, steps) == todo[r] # <<>> /\ Head(todo[r]) \in steps
AtStatement(r) == At(r, Tables \cup {"others"})
Advance(r) == todo' = [todo EXCEPT ![r] = Tail(@)]

Arrive(r) ==
    /\ todo[r] = <<>>
    /\ \E handler \in Handlers : todo' = [todo EXCEPT ![r] = handler]
    /\ UNCHANGED <<env, poolVars, slotVars, lockVars, taskVars, truncate>>

-----------------------------------------------------------------------------
(* The end of a session, and what an exception does.                       *)

\* The connection goes back to the pool, and the locks with the transaction.
EndSession(r) ==
    /\ conn' = conn \ {r}
    /\ held' = [held EXCEPT ![r] = {}]

Commit(r) ==
    /\ At(r, {"commit"}) /\ Advance(r) /\ EndSession(r)
    /\ UNCHANGED <<env, connWait, spare, slotVars, lockWait, taskVars, truncate>>

\* The handler is left, by return or by an exception: its sessions are closed.
Leave(r) ==
    /\ todo' = [todo EXCEPT ![r] = <<>>]
    /\ EndSession(r)
    /\ connWait' = connWait \ {r} /\ spare' = spare \ {r} /\ lockWait' = lockWait \ {r}
    /\ task' = task \ {r} /\ aborted' = aborted \ {r}

Close(r) == At(r, {"close"}) /\ Leave(r) /\ UNCHANGED <<env, slotVars, truncate>>

\* warm_cache catches the exception and goes on with the next query, if any.
SkipQuery(r) ==
    LET rest == Tail(todo[r])
        IsNext(i) == rest[i] = "infer" /\ \A j \in 1 .. i - 1 : rest[j] # "infer"
    IN  \/ \E i \in DOMAIN rest :
              IsNext(i) /\ todo' = [todo EXCEPT ![r] = SubSeq(rest, i, Len(rest))]
        \/ /\ \A i \in DOMAIN rest : rest[i] # "infer"
           /\ todo' = [todo EXCEPT ![r] = <<"close">>]

\* A statement fails.  Its transaction, if there is one, is aborted, and the locks are
\* gone; the connection is not.
Fail(r) ==
    \/ r \notin task /\ Leave(r)
    \/ /\ r \in task /\ SkipQuery(r)
       /\ held' = [held EXCEPT ![r] = {}]
       /\ connWait' = connWait \ {r} /\ lockWait' = lockWait \ {r}
       /\ aborted' = aborted \cup ({r} \cap conn)
       /\ UNCHANGED <<conn, spare, task>>

-----------------------------------------------------------------------------
(* Statements.                                                             *)

\* Slip: one more than there are.
OneTooMany == Cardinality(conn) + Cardinality(spare) <= env.poolSize

FreeConnection == Cardinality(conn) + Cardinality(spare) < env.poolSize

\* A session without a connection asks the pool for one.
Checkout(r) ==
    /\ AtStatement(r) /\ r \notin conn \cup connWait
    /\ IF FreeConnection THEN conn' = conn \cup {r} /\ UNCHANGED connWait
                         ELSE connWait' = connWait \cup {r} /\ UNCHANGED conn
    /\ UNCHANGED <<env, todo, spare, slotVars, lockVars, taskVars, truncate>>

\* A connection has come back.  The pool's queue is not fair: a newcomer can be faster.
GetConnection(r) ==
    /\ r \in connWait /\ FreeConnection
    /\ conn' = conn \cup {r} /\ connWait' = connWait \ {r}
    /\ UNCHANGED <<env, todo, spare, slotVars, lockVars, taskVars, truncate>>

\* Slip: pool_timeout=None
NoTimeout(r) == FALSE

\* pool_timeout, 30 seconds
PoolTimeout(r) == r \in connWait /\ Fail(r) /\ UNCHANGED <<env, slotVars, truncate>>

Rank(table) == CHOOSE i \in 1 .. 5 : TruncateOrder[i] = table

\* Slip: only what TRUNCATE has is waited for.
OvertakesTruncate(table) == Rank(table) >= truncate.at

\* Can a request lock the table?  Not if TRUNCATE has it, nor if it waits for it.
Grantable(table) == /\ Rank(table) >= truncate.at
                    /\ ~(truncate.waits /\ Rank(table) = truncate.at)

Lock(r) ==
    /\ AtStatement(r) /\ r \in conn \ (aborted \cup lockWait)
    /\ \/ /\ Head(todo[r]) \in held[r] \cup {"others"}
          /\ Advance(r) /\ UNCHANGED lockVars
       \/ /\ Head(todo[r]) \in Tables \ held[r] /\ Grantable(Head(todo[r]))
          /\ held' = [held EXCEPT ![r] = @ \cup {Head(todo[r])}]
          /\ Advance(r) /\ UNCHANGED lockWait
       \/ /\ Head(todo[r]) \in Tables \ held[r] /\ ~Grantable(Head(todo[r]))
          /\ lockWait' = lockWait \cup {r} /\ UNCHANGED <<todo, held>>
    /\ UNCHANGED <<env, poolVars, slotVars, taskVars, truncate>>

\* An error from the database, or a handler that refuses for what it has read.  In an
\* aborted transaction every statement ends so.
Raise(r) ==
    /\ At(r, Tables \cup {"others", "commit", "llm"}) /\ r \in conn \ lockWait
    /\ Fail(r) /\ UNCHANGED <<env, slotVars, truncate>>

-----------------------------------------------------------------------------
(* Calls outside the database.                                             *)

\* async with _inference_semaphore
AskSlot(r) ==
    /\ At(r, {"infer"}) /\ r \notin slots
    /\ \A i \in DOMAIN slotQueue : slotQueue[i] # r
    /\ IF Cardinality(slots) < Concurrency
       THEN slots' = slots \cup {r} /\ UNCHANGED slotQueue
       ELSE slotQueue' = Append(slotQueue, r) /\ UNCHANGED slots
    /\ UNCHANGED <<env, todo, poolVars, lockVars, taskVars, truncate>>

\* Slip: nobody is woken.
DropSlot(r) == slots' = slots \ {r} /\ UNCHANGED slotQueue

\* The slot goes to the first in the queue.
PassSlot(r) ==
    IF slotQueue = <<>> THEN slots' = slots \ {r} /\ UNCHANGED slotQueue
    ELSE /\ slots' = (slots \ {r}) \cup {Head(slotQueue)}
         /\ slotQueue' = Tail(slotQueue)

\* The model answers or fails; it has no part in a transaction.
run_inference(r) ==
    /\ r \in slots /\ PassSlot(r)
    /\ \/ Advance(r) /\ UNCHANGED <<poolVars, lockVars, taskVars>>
       \/ r \notin task /\ Leave(r)
       \/ r \in task /\ SkipQuery(r) /\ UNCHANGED <<poolVars, lockVars, taskVars>>
    /\ UNCHANGED <<env, truncate>>

\* synthesize answers or fails; the handler is left either way.
synthesize(r) ==
    /\ At(r, {"llm"}) /\ Advance(r)
    /\ UNCHANGED <<env, poolVars, slotVars, lockVars, taskVars, truncate>>

\* The response is sent and warm_cache begins, with a session of its own.  Whether the
\* request's session is closed before that is up to the version of FastAPI.
Background(r) ==
    /\ At(r, {"background"}) /\ Advance(r) /\ EndSession(r)
    /\ spare' = IF env.closesFirst THEN spare ELSE spare \cup ({r} \cap conn)
    /\ task' = task \cup {r}
    /\ UNCHANGED <<env, connWait, slotVars, lockWait, aborted, truncate>>

-----------------------------------------------------------------------------
(* TRUNCATE, on a connection of the script's own.                          *)

Readers(table) == {r \in Requests : table \in held[r]}

TruncateBegin ==
    /\ truncate.at = 0 /\ truncate' = [at |-> 1, waits |-> FALSE]
    /\ UNCHANGED <<env, todo, poolVars, slotVars, lockVars, taskVars>>

TruncateLock ==
    /\ truncate.at \in 1 .. 5
    /\ truncate' = IF Readers(TruncateOrder[truncate.at]) = {}
                   THEN [at |-> truncate.at + 1, waits |-> FALSE]
                   ELSE [truncate EXCEPT !.waits = TRUE]
    /\ UNCHANGED <<env, todo, poolVars, slotVars, lockVars, taskVars>>

\* The transaction ends, and everyone who waited for one of its locks has it.
TruncateEnd ==
    /\ truncate' = [at |-> 0, waits |-> FALSE]
    /\ todo' = [r \in Requests |-> IF r \in lockWait THEN Tail(todo[r]) ELSE todo[r]]
    /\ held' = [r \in Requests |-> IF r \in lockWait THEN held[r] \cup {Head(todo[r])}
                                   ELSE held[r]]
    /\ lockWait' = {}
    /\ UNCHANGED <<env, poolVars, slotVars, taskVars>>

TruncateCommit == truncate.at = 6 /\ TruncateEnd

-----------------------------------------------------------------------------
(* PostgreSQL's deadlock detection.                                        *)

TruncateWaitsFor(r) ==
    /\ truncate.at \in 1 .. 5 /\ truncate.waits
    /\ TruncateOrder[truncate.at] \in held[r]

Deadlocked(r) == r \in lockWait /\ TruncateWaitsFor(r)

\* Whoever notices first is the victim.
DetectDeadlock(r) ==
    /\ Deadlocked(r)
    /\ \/ Fail(r) /\ UNCHANGED <<env, slotVars, truncate>>
       \/ TruncateEnd

Handle(r) ==
    \/ Checkout(r) \/ GetConnection(r) \/ PoolTimeout(r)
    \/ Lock(r) \/ Raise(r) \/ Commit(r) \/ Close(r)
    \/ AskSlot(r) \/ run_inference(r) \/ synthesize(r) \/ Background(r)

Truncate == TruncateLock \/ TruncateCommit

Next ==
    \/ \E r \in Requests : Arrive(r) \/ Handle(r) \/ DetectDeadlock(r)
    \/ TruncateBegin \/ Truncate

\* Handlers run on, the pool's timeout and the deadlock timeout expire, and TRUNCATE
\* goes on; no request has to arrive.
Spec ==
    /\ Init /\ [][Next]_vars
    /\ \A r \in Requests : WF_vars(Handle(r)) /\ WF_vars(DetectDeadlock(r))
    /\ WF_vars(Truncate)

-----------------------------------------------------------------------------
(* Properties.                                                             *)

\* The type invariant, with the limits: never more connections than the pool has, and
\* never more inference at a time than there are slots.
TypeOK ==
    /\ env \in [poolSize : PoolSizes, closesFirst : BOOLEAN]
    /\ todo \in [Requests -> Seq(Steps)]
    /\ conn \subseteq Requests /\ connWait \subseteq Requests /\ spare \subseteq Requests
    /\ Cardinality(conn) + Cardinality(spare) <= env.poolSize
    /\ slots \subseteq Requests /\ slotQueue \in Seq(Requests)
    /\ Cardinality(slots) <= Concurrency
    /\ held \in [Requests -> SUBSET Tables] /\ lockWait \subseteq Requests
    /\ task \subseteq Requests /\ aborted \subseteq task
    /\ truncate \in [at : 0 .. 6, waits : BOOLEAN]

Queueing(p) == \E i \in DOMAIN slotQueue : slotQueue[i] = p

\* A set of processes none of which can go on before another one of them does.
Stuck(S) ==
    \A p \in S :
        \/ p \in connWait /\ ~FreeConnection /\ conn \cup spare \subseteq S
        \/ Queueing(p) /\ slots \subseteq S
        \/ p \in lockWait /\ Seeder \in S
        \/ p = Seeder /\ \E r \in S \cap Requests : TruncateWaitsFor(r)

\* Warming tasks that wait for a second connection.
Doubled == spare \cap connWait

\* Connections, slots and locks are waited for in an order that makes no circle, but for
\* TRUNCATE, whose circles PostgreSQL sees, and for warming tasks that have the whole
\* pool between them and each ask it for one more.
StuckOnlyThroughTruncate ==
    \A S \in (SUBSET (Requests \cup {Seeder})) \ {{}} :
        Stuck(S) => \/ \E r \in S \cap Requests : Deadlocked(r)
                    \/ ~env.closesFirst /\ conn \cup spare \subseteq Doubled

\* Of the requests' statements, only those that read documents or embeddings can be in a
\* deadlock: a vote or a new bookmark never fails for one, and the log of a search only
\* where its foreign key reads documents.
OnlyCorpusReadsDie ==
    \A r \in Requests : Deadlocked(r) => Head(todo[r]) \in {"documents", "embeddings"}

(***************************************************************************)
(* The inductive strengthening the proofs use.  Who waits for what, with   *)
(* what in hand: for a connection with nothing of this session, in a slot  *)
(* for nothing, for a lock with a connection, and TRUNCATE has no table    *)
(* that a request has.                                                     *)
(***************************************************************************)
TruncateWorksAlone ==
    \A r \in Requests : \A table \in held[r] : Rank(table) >= truncate.at

WaitsRight(r) ==
    /\ r \in connWait => AtStatement(r) /\ r \notin conn
    /\ held[r] # {} => r \in conn
    /\ r \in lockWait => /\ r \in conn /\ At(r, Tables)
                         /\ Head(todo[r]) \notin held[r] /\ ~Grantable(Head(todo[r]))
    /\ r \in slots => At(r, {"infer"})
    /\ r \in spare => r \in task /\ ~env.closesFirst

QueueIsRight ==
    /\ \A i \in DOMAIN slotQueue : At(slotQueue[i], {"infer"}) /\ slotQueue[i] \notin slots
    /\ \A i, j \in DOMAIN slotQueue : slotQueue[i] = slotQueue[j] => i = j
    /\ slotQueue # <<>> => slots # {}

\* The tables whose rows refer to others, directly or not, to documents.
Children == {"bookmarks", "search_results", "feedback"}

CommitBetween(s, j, i) == \E k \in j + 1 .. i - 1 : s[k] = "commit"

\* No table of these is asked for after one that TRUNCATE locks later, and none in a
\* background task.
InOrder(tables, s) ==
    \A i \in DOMAIN s :
        s[i] \in Children =>
            /\ \A table \in tables : Rank(table) <= Rank(s[i]) \/ CommitBetween(s, 0, i)
            /\ \A j \in 1 .. i - 1 :
                  /\ s[j] # "background"
                  /\ s[j] \in Tables => Rank(s[j]) <= Rank(s[i]) \/ CommitBetween(s, j, i)

KeepsOrder(r) ==
    /\ InOrder(held[r], todo[r])
    /\ r \in task => \A i \in DOMAIN todo[r] : todo[r][i] \notin Children

\* Whoever has a connection or runs in the background has its close before it.
ClosesLast(r) ==
    /\ todo[r] # <<>> => todo[r][Len(todo[r])] = "close"
    /\ todo[r] = <<>> => r \notin conn \cup task

Inv ==
    /\ TypeOK /\ TruncateWorksAlone /\ QueueIsRight
    /\ \A r \in Requests : WaitsRight(r) /\ KeepsOrder(r) /\ ClosesLast(r)

\* Every request ends, under any load.  What it awaits of Redis is taken to come back.
EveryRequestEnds == \A r \in Requests : todo[r] # <<>> ~> todo[r] = <<>>

\* TRUNCATE ends, whatever arrives meanwhile.  The same is taken of Redis.
TruncateEnds == truncate.at # 0 ~> truncate.at = 0
=============================================================================
