--------------------------- MODULE SearchService ---------------------------
(***************************************************************************)
(* The search side of the backend: GET /search and GET /search/hybrid      *)
(* (api/v1/search.py) over the Redis cache, the pgvector retrieval, the    *)
(* in-memory BM25 index built at start-up, the cache-warming background    *)
(* task, and the seed script that replaces the corpus underneath them.     *)
(*                                                                         *)
(* PostgreSQL runs at READ COMMITTED.  A SELECT that touches `documents'   *)
(* leaves its transaction holding ACCESS SHARE on the table until commit   *)
(* or rollback, and TRUNCATE needs ACCESS EXCLUSIVE, so it waits for every *)
(* such transaction (req[r].tx = "open" is that lock), and those that come *)
(* later wait behind it.  The INSERTs of the result rows and the COMMIT    *)
(* that follows them are one step, which may go through unheard.           *)
(*                                                                         *)
(* Redis answers, refuses, or accepts a command and does not answer: the   *)
(* client has no timeout (cache_service.py:32), and a command that a dead  *)
(* process has sent may still be carried out.                              *)
(*                                                                         *)
(* A request occupies a slot of Reqs; a slot that has been answered can    *)
(* take a new request, whose rows then replace the old one's.              *)
(***************************************************************************)
EXTENDS Ranking

CONSTANTS
    Docs,            \* document ids
    Texts,           \* raw query strings
    Normal,          \* [Texts -> ...]: query.strip().lower()
    TopKs,           \* values of top_k in use
    Reqs,            \* concurrent request slots
    Corpora,         \* the document sets a seed run may load
    Reachable,       \* [SUBSET Docs -> SUBSET SUBSET Docs]: see NearestDocs
    Distance,        \* [Texts -> [Docs -> Nat]]: cosine distance to the query
    Lexical,         \* [Texts -> [Docs -> Nat]]: BM25 score, 0 for no match
    CrossScore,      \* [Texts -> [Docs -> Nat]]: cross-encoder score
    RRF_K,           \* 60 in the code
    RetrievalFloor, RetrievalFactor,   \* 30 and 3
    RerankFloor, RerankFactor,         \* 20 and 2
    BatchSize,       \* 250: rows per insert transaction of the seed script
    WarmTopK,        \* 10: top_k of a warmed key
    WarmLimit,       \* limit of POST /admin/cache/warm-popular
    NoEntry, NoRow,  \* absent from the cache, from search_queries
    RedisStates,     \* what may become of Redis: up, down, stalled
    MaxSeeds, MaxCrashes, MaxDrops     \* bounds on runs of the script and on faults

ASSUME DocsFinite == IsFiniteSet(Docs)
ASSUME TextsExist == Texts # {}
ASSUME CorporaAreDocs == Corpora \subseteq SUBSET Docs
ASSUME ScansStayInside == \A S \in SUBSET Docs : Reachable[S] \subseteq SUBSET S
ASSUME ScoresAreNat == {Distance, Lexical, CrossScore} \subseteq [Texts -> [Docs -> Nat]]
ASSUME CutsAreNat == /\ TopKs \subseteq Nat /\ WarmTopK \in TopKs
                     /\ BatchSize \in Nat \ {0} /\ WarmLimit \in Nat
                     /\ {RetrievalFloor, RetrievalFactor,
                         RerankFloor, RerankFactor} \subseteq Nat
ASSUME RedisStatesKnown == "up" \in RedisStates /\ RedisStates \subseteq {"up", "down", "stalled"}
ASSUME BoundsAreNat == {MaxSeeds, MaxCrashes, MaxDrops} \subseteq Nat
ASSUME NoEntryIsNoResult == NoEntry \notin Seq(Docs)
ASSUME NoRowIsNoText == NoRow \notin Texts

VARIABLES
    documents, embeddings,   \* the two corpus tables, by document id
    search_queries,          \* [Reqs -> Texts \cup {NoRow}]: the query's row
    search_results,          \* [Reqs -> Seq(Docs)]: its result rows, by rank
    queryTexts,              \* every query_text ever logged
    cache, redis,            \* Redis: key -> result list, and whether it answers
    late,                    \* writes sent to Redis by a process that has died since
    app, bm25,               \* the process, and doc_ids of its BM25 index
    req,                     \* what each request is doing
    warm,                    \* the warm_cache background task
    seed,                    \* the seed script
    crashes, drops           \* faults so far

dbVars  == <<documents, embeddings, search_queries, search_results, queryTexts>>
redisVars == <<cache, redis, late>>
faults  == <<crashes, drops>>
vars    == <<dbVars, redisVars, app, bm25, req, warm, seed, faults>>

Methods  == {"dense", "hybrid"}
Results  == Seq(Docs)
Working  == {"get", "retrieve", "rerank", "set", "log", "insert", "answer"}
Outcomes == {"ok", "KeyError", "IntegrityError", "DBAPIError", "lost"}
Keys     == Methods \X TopKs \X {Normal[t] : t \in Texts}
TxStates == {"none", "open", "dropped"}

\* Slip: the key without its method.
make_key_any_method(text, top_k, method) == <<"dense", top_k, Normal[text]>>

\* CacheService.make_key: the raw text only enters the key in its normal form.
make_key(text, top_k, method) == <<method, top_k, Normal[text]>>
KeyOf(r) == make_key(req[r].text, req[r].top_k, req[r].method)
WarmKey == make_key(Head(warm.queue), WarmTopK, "dense")

\* The transactions that hold ACCESS SHARE on documents and embeddings.
CorpusInUse == (\E r \in Reqs : req[r].tx = "open") \/ warm.tx = "open"

\* Lock requests queue: a transaction that holds no lock on the corpus yet waits
\* behind a TRUNCATE that is waiting for those that do.
MayLockCorpus(tx) == tx = "open" \/ (tx = "none" /\ seed.pc # "truncate")

\* Slip: every statement in a transaction of its own.
Autocommit == "none"

\* A session begins a transaction with its first statement and keeps it.
TxAfterSelect == "open"

NoWarming == [pc |-> "idle", queue |-> <<>>, results |-> <<>>, tx |-> "none"]

Init ==
    /\ documents = {} /\ embeddings = {}
    /\ search_queries = [r \in Reqs |-> NoRow]
    /\ search_results = [r \in Reqs |-> <<>>]
    /\ queryTexts = {}
    /\ cache = [key \in Keys |-> NoEntry]
    /\ redis = "up" /\ late = {}
    /\ app = "down" /\ bm25 = {}
    /\ req = [r \in Reqs |->
                [pc |-> "idle", method |-> "dense", text |-> CHOOSE t \in Texts : TRUE,
                 top_k |-> WarmTopK, results |-> <<>>, hit |-> FALSE, tx |-> "none"]]
    /\ warm = NoWarming
    /\ seed = [pc |-> "idle", corpus |-> {}, todo |-> {}, runs |-> 0]
    /\ crashes = 0 /\ drops = 0

-----------------------------------------------------------------------------
(* The process: lifespan() loads the models and the BM25 index, once.      *)

\* An exception leaves the handler: 500, the transaction is rolled back.
Failed(q, error) == [q EXCEPT !.pc = error, !.results = <<>>, !.tx = "none"]

\* HybridSearchService.load: BM25Okapi([]) divides by zero, so the process does
\* not come up over an empty documents table.
Boot ==
    /\ app \in {"down", "failed"}
    /\ app' = IF documents = {} THEN "failed" ELSE "up"
    /\ bm25' = documents
    /\ UNCHANGED <<dbVars, redisVars, req, warm, seed, faults>>

\* The writes to Redis that are under way.
Writes == {<<KeyOf(r), req[r].results>> : r \in {r \in Reqs : req[r].pc = "set"}}
          \cup IF warm.pc = "set" THEN {<<WarmKey, warm.results>>} ELSE {}

\* The process dies: requests and the background task go with it, their
\* transactions are rolled back.  What it has sent to Redis is still on its way.
Crash ==
    /\ app = "up" /\ crashes < MaxCrashes
    /\ \E sent \in SUBSET Writes : late' = late \cup sent
    /\ app' = "down"
    /\ bm25' = {}
    /\ req' = [r \in Reqs |->
                 IF req[r].pc \in Working THEN Failed(req[r], "lost") ELSE req[r]]
    /\ warm' = NoWarming
    /\ crashes' = crashes + 1
    /\ UNCHANGED <<dbVars, cache, redis, seed, drops>>

-----------------------------------------------------------------------------
(* Redis, seen from CacheService.                                          *)

\* The server, or the way to it, gets better or worse.
RedisTurns ==
    /\ redis' \in RedisStates \ {redis}
    /\ UNCHANGED <<dbVars, cache, late, app, bm25, req, warm, seed, faults>>

\* A write of a process that is gone is carried out.
LateWrite ==
    /\ redis = "up"
    /\ \E w \in late : cache' = [cache EXCEPT ![w[1]] = w[2]] /\ late' = late \ {w}
    /\ UNCHANGED <<dbVars, redis, app, bm25, req, warm, seed, faults>>

\* Slip: set() without ex=.
ExpireNever(key) == FALSE /\ UNCHANGED vars

\* Every entry is written with a TTL (cache_ttl_seconds).
Expire(key) ==
    /\ cache[key] # NoEntry
    /\ cache' = [cache EXCEPT ![key] = NoEntry]
    /\ UNCHANGED <<dbVars, redis, late, app, bm25, req, warm, seed, faults>>

\* What is awaited from Redis comes, an answer or an error.
RedisReturns == redis # "stalled"

\* CacheService.get: a failed read is a miss.
Cached(key) == IF redis = "up" THEN cache[key] ELSE NoEntry

\* CacheService.set: a failed write is dropped.
CacheAfterSet(key, results) ==
    IF redis = "up" THEN [cache EXCEPT ![key] = results] ELSE cache

-----------------------------------------------------------------------------
(* A search request.                                                       *)

\* The handler is entered.
Arrive(r) ==
    /\ app = "up" /\ req[r].pc \notin Working
    /\ \E m \in Methods, t \in Texts, k \in TopKs :
         req' = [req EXCEPT ![r] =
            [pc |-> "get", method |-> m, text |-> t, top_k |-> k, results |-> <<>>,
             hit |-> FALSE, tx |-> "none"]]
    /\ search_queries' = [search_queries EXCEPT ![r] = NoRow]
    /\ search_results' = [search_results EXCEPT ![r] = <<>>]
    /\ UNCHANGED <<documents, embeddings, queryTexts, redisVars, app, bm25,
                   warm, seed, faults>>

\* The connection of r is lost (a serverless Postgres drops it, the server
\* restarts).  The server rolls back and releases the locks; the request only
\* notices at its next statement.
DropConnection(r) ==
    /\ req[r].pc \in Working \ {"answer"} /\ req[r].tx # "dropped" /\ drops < MaxDrops
    /\ req' = [req EXCEPT ![r].tx = "dropped"]
    /\ drops' = drops + 1
    /\ UNCHANGED <<dbVars, redisVars, app, bm25, warm, seed, crashes>>

Fail(r, error) == req' = [req EXCEPT ![r] = Failed(@, error)]

\* The cache is read, on a hit the rest of the search is passed over.
CacheGet(r) ==
    /\ req[r].pc = "get" /\ RedisReturns
    /\ LET found == Cached(KeyOf(r))
       IN  req' = IF found = NoEntry THEN [req EXCEPT ![r].pc = "retrieve"]
                  ELSE [req EXCEPT ![r].pc = "log", ![r].results = found, ![r].hit = TRUE]
    /\ UNCHANGED <<dbVars, redisVars, app, bm25, warm, seed, faults>>

\* documents JOIN embeddings ORDER BY distance LIMIT n.  The HNSW index behind the
\* ordering is approximate: Reachable[S] are the subsets of the rows S that a scan
\* may come across ({S} is exact recall).
NearestDocs(text, n) ==
    UNION {Cheapest(S, Distance[text], n) : S \in Reachable[documents \cap embeddings]}

\* How many rows the dense pass of a request asks for.
DensePool(r) == IF req[r].method = "dense" THEN req[r].top_k
                ELSE PoolSize(RetrievalFloor, RetrievalFactor, req[r].top_k)

\* RetrievalService.search: the statement after the query has been encoded.
Retrieve(r) ==
    /\ req[r].pc = "retrieve"
    /\ \/ /\ req[r].tx = "dropped"
          /\ Fail(r, "DBAPIError")
       \/ /\ MayLockCorpus(req[r].tx)
          /\ \E rows \in NearestDocs(req[r].text, DensePool(r)) :
               req' = [req EXCEPT
                    ![r].pc = IF req[r].method = "dense" THEN "set" ELSE "rerank",
                    ![r].results = rows, ![r].tx = TxAfterSelect]
    /\ UNCHANGED <<dbVars, redisVars, app, bm25, warm, seed, faults>>

\* _bm25_ranked_ids: only positive scores, over the index built at start-up.
bm25_ranked_ids(text, n) ==
    Highest({d \in bm25 : Lexical[text][d] > 0}, Lexical[text], n)

\* Slips: the missing candidates looked up through the embeddings, and not at all.
FetchedBlindly(missing) == missing
FetchedEmbedded(missing) == missing \cap documents \cap embeddings

\* SELECT ... WHERE Document.id IN missing_ids.
Fetched(missing) == missing \cap documents

\* HybridSearchService.search after the dense pass: fuse, fetch the BM25-only
\* candidates, rerank.  docs_by_id[cid] raises KeyError when one is not there.
Candidates(r) ==
    {candidate_ids(fused, PoolSize(RerankFloor, RerankFactor, req[r].top_k)) :
        fused \in {reciprocal_rank_fusion(<<req[r].results, lexical>>, RRF_K) :
                      lexical \in bm25_ranked_ids(req[r].text, DensePool(r))}}

Rerank(r) ==
    /\ req[r].pc = "rerank"
    /\ \E candidates \in Candidates(r) :
         LET missing == candidates \ ToSet(req[r].results)
         IN  \/ /\ missing # {} /\ req[r].tx = "dropped"
                /\ Fail(r, "DBAPIError")
             \/ /\ req[r].tx # "dropped" /\ missing # Fetched(missing)
                /\ Fail(r, "KeyError")
             \/ /\ \/ missing = {}
                   \/ req[r].tx # "dropped" /\ missing = Fetched(missing)
                /\ \E rows \in Highest(candidates, CrossScore[req[r].text],
                                       req[r].top_k) :
                     req' = [req EXCEPT ![r].pc = "set", ![r].results = rows]
    /\ UNCHANGED <<dbVars, redisVars, app, bm25, warm, seed, faults>>

\* Slip: a cache write that fails fails the request.
CacheSetFailsClosed(r) ==
    /\ req[r].pc = "set" /\ RedisReturns
    /\ cache' = CacheAfterSet(KeyOf(r), req[r].results)
    /\ req' = [req EXCEPT ![r] = IF redis = "up" THEN [@ EXCEPT !.pc = "log"]
                                ELSE Failed(@, "lost")]
    /\ UNCHANGED <<dbVars, redis, late, app, bm25, warm, seed, faults>>

\* The live result is cached before it is logged.
CacheSet(r) ==
    /\ req[r].pc = "set" /\ RedisReturns
    /\ cache' = CacheAfterSet(KeyOf(r), req[r].results)
    /\ req' = [req EXCEPT ![r].pc = "log"]
    /\ UNCHANGED <<dbVars, redis, late, app, bm25, warm, seed, faults>>

\* Slip: commit() for the query's id, not flush().
CommitQuery(r) ==
    /\ req' = [req EXCEPT ![r].pc = "insert", ![r].tx = "none"]
    /\ search_queries' = [search_queries EXCEPT ![r] = req[r].text]
    /\ queryTexts' = queryTexts \cup {req[r].text}
    /\ UNCHANGED <<documents, embeddings, search_results>>

\* flush(): the INSERT is sent; nobody else sees the row yet.
FlushQuery(r) == req' = [req EXCEPT ![r].pc = "insert"] /\ UNCHANGED dbVars

LogFails(r, error) == Fail(r, error) /\ UNCHANGED dbVars

\* _log_search up to the flush.  TRUNCATE does not touch `search_queries'.
LogQuery(r) ==
    /\ req[r].pc = "log"
    /\ \/ req[r].tx = "dropped" /\ LogFails(r, "DBAPIError")
       \/ req[r].tx # "dropped" /\ FlushQuery(r)
    /\ UNCHANGED <<redisVars, app, bm25, warm, seed, faults>>

\* Writing result rows takes locks on `documents' and `search_results'; a search that
\* found nothing writes none.
MayLog(r) == \/ MayLockCorpus(req[r].tx)
             \/ req[r].tx = "none" /\ req[r].results = <<>>

\* The COMMIT is acknowledged, or the connection is lost before that: the handler then
\* fails, but the rows are there.
Committed(r) ==
    \/ /\ req' = [req EXCEPT ![r].pc = "answer", ![r].tx = "none"]
       /\ UNCHANGED drops
    \/ /\ drops < MaxDrops /\ drops' = drops + 1
       /\ Fail(r, "DBAPIError")

\* The rest of _log_search: the result rows, and the COMMIT of all rows; a result whose
\* document is gone breaks the foreign key and rolls them back.
LogResults(r) ==
    /\ req[r].pc = "insert"
    /\ \/ /\ req[r].tx = "dropped"
          /\ LogFails(r, "DBAPIError") /\ UNCHANGED drops
       \/ /\ MayLog(r) /\ ~(ToSet(req[r].results) \subseteq documents)
          /\ LogFails(r, "IntegrityError") /\ UNCHANGED drops
       \/ /\ MayLog(r) /\ ToSet(req[r].results) \subseteq documents
          /\ Committed(r)
          /\ search_queries' = [search_queries EXCEPT ![r] = req[r].text]
          /\ search_results' = [search_results EXCEPT ![r] = req[r].results]
          /\ queryTexts' = queryTexts \cup {req[r].text}
          /\ UNCHANGED <<documents, embeddings>>
    /\ UNCHANGED <<redisVars, app, bm25, warm, seed, crashes>>

\* The response goes out.
Answer(r) ==
    /\ req[r].pc = "answer"
    /\ req' = [req EXCEPT ![r].pc = "ok"]
    /\ UNCHANGED <<dbVars, redisVars, app, bm25, warm, seed, faults>>

-----------------------------------------------------------------------------
(* POST /admin/cache/warm-popular and warm_cache, its background task: one *)
(* session for the whole list, never committed until it is closed.         *)

\* The most frequent logged texts; which ones they are is left open.
WarmStart ==
    /\ app = "up" /\ warm.pc = "idle"
    /\ \E n \in 1 .. WarmLimit : \E queue \in [1 .. n -> queryTexts] :
         /\ IsInjective(queue)
         /\ n = WarmLimit \/ n = Cardinality(queryTexts)
         /\ warm' = [warm EXCEPT !.pc = "next", !.queue = queue]
    /\ UNCHANGED <<dbVars, redisVars, app, bm25, req, seed, faults>>

\* Slip: the query is taken off the list before its result is stored.
FoundAndPopped(rows) ==
    [warm EXCEPT !.pc = "set", !.queue = Tail(@), !.results = rows, !.tx = "open"]

Found(rows) == [warm EXCEPT !.pc = "set", !.results = rows, !.tx = TxAfterSelect]

\* One query: a failing statement is logged and skipped.
WarmSearch ==
    /\ warm.pc = "next" /\ warm.queue # <<>>
    /\ \/ /\ warm.tx = "dropped"
          /\ warm' = [warm EXCEPT !.queue = Tail(@)]
       \/ /\ MayLockCorpus(warm.tx)
          /\ \E rows \in NearestDocs(Head(warm.queue), WarmTopK) :
               warm' = Found(rows)
    /\ UNCHANGED <<dbVars, redisVars, app, bm25, req, seed, faults>>

WarmSet ==
    /\ warm.pc = "set" /\ RedisReturns
    /\ cache' = CacheAfterSet(WarmKey, warm.results)
    /\ warm' = [warm EXCEPT !.pc = "next", !.queue = Tail(@)]
    /\ UNCHANGED <<dbVars, redis, late, app, bm25, req, seed, faults>>

\* Slip: a session that nobody closes.
WarmEndOpen ==
    /\ warm.pc = "next" /\ warm.queue = <<>>
    /\ warm' = [NoWarming EXCEPT !.tx = warm.tx]
    /\ UNCHANGED <<dbVars, redisVars, app, bm25, req, seed, faults>>

\* The session is closed and its transaction rolled back.
WarmEnd ==
    /\ warm.pc = "next" /\ warm.queue = <<>>
    /\ warm' = NoWarming
    /\ UNCHANGED <<dbVars, redisVars, app, bm25, req, seed, faults>>

\* The task's session is unusable once its connection is gone.
WarmDrop ==
    /\ warm.pc # "idle" /\ warm.tx # "dropped" /\ drops < MaxDrops
    /\ warm' = [warm EXCEPT !.tx = "dropped"]
    /\ drops' = drops + 1
    /\ UNCHANGED <<dbVars, redisVars, app, bm25, req, seed, crashes>>

-----------------------------------------------------------------------------
(* scripts/seed_from_existing_data.py, run by hand, one run at a time.     *)

SeedStart ==
    /\ seed.pc \in {"idle", "done", "crashed"} /\ seed.runs < MaxSeeds
    /\ \E corpus \in Corpora :
         seed' = [pc |-> "truncate", corpus |-> corpus, todo |-> corpus,
                  runs |-> seed.runs + 1]
    /\ UNCHANGED <<dbVars, redisVars, app, bm25, req, warm, faults>>

\* Slip: documents left where they were.
TruncateEmbeddings ==
    /\ embeddings' = {} /\ UNCHANGED documents
    /\ search_results' = [r \in Reqs |-> <<>>]

\* TRUNCATE embeddings, documents ... CASCADE: search_results refers to
\* documents, so it is emptied too; search_queries does not and stays.
Truncate ==
    /\ documents' = {} /\ embeddings' = {}
    /\ search_results' = [r \in Reqs |-> <<>>]

SeedTruncate ==
    /\ seed.pc = "truncate"
    /\ ~CorpusInUse
    /\ Truncate
    /\ seed' = [seed EXCEPT !.pc = "documents"]
    /\ UNCHANGED <<search_queries, queryTexts, redisVars, app, bm25, req,
                   warm, faults>>

\* chunked(items, BATCH_SIZE): the next batch of the rows still to insert.
Batches(todo) ==
    {batch \in SUBSET todo :
        Cardinality(batch) = IF Cardinality(todo) < BatchSize
                             THEN Cardinality(todo) ELSE BatchSize}

SeedDocuments ==
    /\ seed.pc = "documents"
    /\ \E batch \in Batches(seed.todo) :
         /\ documents' = documents \cup batch
         /\ seed' = IF batch = seed.todo
                    THEN [seed EXCEPT !.pc = "embeddings", !.todo = seed.corpus]
                    ELSE [seed EXCEPT !.todo = @ \ batch]
    /\ UNCHANGED <<embeddings, search_queries, search_results, queryTexts,
                   redisVars, app, bm25, req, warm, faults>>

SeedEmbeddings ==
    /\ seed.pc = "embeddings"
    /\ \E batch \in Batches(seed.todo) :
         /\ embeddings' = embeddings \cup batch
         /\ seed' = [seed EXCEPT !.pc = IF batch = seed.todo THEN "done" ELSE @,
                                 !.todo = @ \ batch]
    /\ UNCHANGED <<documents, search_queries, search_results, queryTexts,
                   redisVars, app, bm25, req, warm, faults>>

\* The script is interrupted between two of its transactions.
SeedCrash ==
    /\ seed.pc \in {"truncate", "documents", "embeddings"} /\ crashes < MaxCrashes
    /\ seed' = [seed EXCEPT !.pc = "crashed"]
    /\ crashes' = crashes + 1
    /\ UNCHANGED <<dbVars, redisVars, app, bm25, req, warm, drops>>

-----------------------------------------------------------------------------
Step(r) == \/ CacheGet(r) \/ Retrieve(r) \/ Rerank(r) \/ CacheSet(r)
           \/ LogQuery(r) \/ LogResults(r) \/ Answer(r)
WarmStep == WarmSearch \/ WarmSet \/ WarmEnd
SeedStep == SeedTruncate \/ SeedDocuments \/ SeedEmbeddings

Next ==
    \/ Boot \/ Crash \/ RedisTurns \/ LateWrite
    \/ \E key \in Keys : Expire(key)
    \/ \E r \in Reqs : Arrive(r) \/ DropConnection(r) \/ Step(r)
    \/ WarmStart \/ WarmStep \/ WarmDrop
    \/ SeedStart \/ SeedStep \/ SeedCrash

Spec == Init /\ [][Next]_vars

(***************************************************************************)
(* The event loop runs every request and task that can go on, PostgreSQL   *)
(* answers, TTLs run out and a started script keeps running.  Nothing is   *)
(* assumed of users, of Redis, which need never answer, of faults or of    *)
(* restarts.                                                               *)
(***************************************************************************)
Fairness ==
    /\ \A r \in Reqs : WF_vars(Step(r))
    /\ WF_vars(WarmStep)
    /\ WF_vars(SeedStep)
    /\ \A key \in Keys : WF_vars(Expire(key))

FairSpec == Spec /\ Fairness

-----------------------------------------------------------------------------
(* Properties.                                                             *)

Request == [pc : {"idle"} \cup Working \cup Outcomes, method : Methods,
            text : Texts, top_k : TopKs, results : Results, hit : BOOLEAN,
            tx : TxStates]

WarmTask == [pc : {"idle", "next", "set"}, queue : Seq(Texts), results : Results,
             tx : TxStates]
SeedRun == [pc : {"idle", "truncate", "documents", "embeddings", "done", "crashed"},
            corpus : SUBSET Docs, todo : SUBSET Docs, runs : Nat]

DatabaseTyped ==
    /\ documents \subseteq Docs /\ embeddings \subseteq Docs
    /\ search_queries \in [Reqs -> Texts \cup {NoRow}]
    /\ search_results \in [Reqs -> Results]
    /\ queryTexts \subseteq Texts
CacheTyped    == /\ cache \in [Keys -> Results \cup {NoEntry}] /\ redis \in RedisStates
                 /\ late \subseteq Keys \X Results
ProcessTyped  == app \in {"down", "failed", "up"} /\ bm25 \subseteq Docs
RequestsTyped == req \in [Reqs -> Request]
WarmTyped     == warm \in WarmTask /\ (warm.pc = "set" => warm.queue # <<>>)
SeedTyped     == seed \in SeedRun
FaultsTyped   == crashes \in Nat /\ drops \in Nat

\* The type invariant of the tables, the cache, the requests, the background
\* task and the seed script; a result waiting to be cached has its query.
TypeOK == /\ DatabaseTyped /\ CacheTyped /\ ProcessTyped /\ RequestsTyped
          /\ WarmTyped /\ SeedTyped /\ FaultsTyped

\* An answered search is in the log, with the results its caller got unless TRUNCATE
\* has taken those.  A search in the log that was not answered lost its answer after the
\* COMMIT, with the process or with the connection: no other failure, between the two
\* INSERTs or anywhere before, leaves a row (_log_search).
LogIsAtomic ==
    \A r \in Reqs :
        /\ req[r].pc \in {"answer", "ok"} =>
              search_queries[r] # NoRow /\ search_results[r] \in {<<>>, req[r].results}
        /\ search_queries[r] # NoRow =>
              \/ req[r].pc \in {"answer", "ok"}
              \/ req[r].pc = "lost" /\ crashes > 0
              \/ req[r].pc = "DBAPIError" /\ drops > 0
        /\ search_queries[r] = NoRow => search_results[r] = <<>>

\* Only an answer taken from the cache can name a document that is gone when it
\* is logged: a live search still holds its lock on `documents' at that point.
StaleOnlyFromCache ==
    \A r \in Reqs : req[r].pc = "IntegrityError" => req[r].hit

\* What a request or the warming task has read and not yet finished with is
\* still in the corpus, as long as its transaction is alive.
LiveResultsExist ==
    /\ \A r \in Reqs : req[r].tx = "open" => ToSet(req[r].results) \subseteq documents
    /\ warm.pc = "set" /\ warm.tx = "open" => ToSet(warm.results) \subseteq documents

\* A list is in rank order for a text under a method.
InOrder(list, method, text) ==
    \A i, j \in DOMAIN list : i < j =>
        IF method = "dense"
        THEN Distance[text][list[i]] <= Distance[text][list[j]]
        ELSE CrossScore[text][list[i]] >= CrossScore[text][list[j]]

\* Dense and hybrid answers, and answers cut at different top_k, never reach each
\* other's callers: every entry is a ranking, under its key's method and within
\* its key's top_k, of a text with its key's normal form.
CacheEntryFitsKey ==
    \A key \in Keys : cache[key] # NoEntry =>
        /\ Len(cache[key]) <= key[2]
        /\ \E t \in Texts : Normal[t] = key[3] /\ InOrder(cache[key], key[1], t)

\* A finished seed run has left exactly its corpus, documents and embeddings,
\* whatever an interrupted earlier run or another corpus had left behind.
SeedComplete ==
    seed.pc = "done" => documents = seed.corpus /\ embeddings = seed.corpus

(***************************************************************************)
(* The inductive strengthening the proofs use: which requests hold a       *)
(* transaction, and how far the seed script's tables follow its progress.  *)
(***************************************************************************)
TxDiscipline ==
    /\ \A r \in Reqs :
          /\ req[r].pc = "get" => req[r].tx # "open"
          /\ req[r].pc \in {"rerank", "set"} => req[r].tx # "none"
          /\ req[r].pc \in {"log", "insert"} /\ ~req[r].hit => req[r].tx # "none"
          /\ req[r].pc = "answer" => req[r].tx = "none"
          /\ drops = 0 => req[r].tx # "dropped"
    /\ warm.pc = "set" => warm.tx # "none"
    /\ drops = 0 => warm.tx # "dropped"

SeedProgress ==
    /\ seed.pc = "truncate" => seed.todo = seed.corpus
    /\ seed.pc = "documents" =>
          /\ seed.todo \subseteq seed.corpus
          /\ documents = seed.corpus \ seed.todo /\ embeddings = {}
    /\ seed.pc = "embeddings" =>
          /\ seed.todo \subseteq seed.corpus
          /\ documents = seed.corpus /\ embeddings = seed.corpus \ seed.todo

NothingLate == crashes = 0 => late = {}

Inv ==
    /\ TypeOK /\ NothingLate /\ TxDiscipline /\ LiveResultsExist /\ StaleOnlyFromCache
    /\ LogIsAtomic /\ SeedProgress /\ SeedComplete

\* And for the cache: what is about to be written to it fits the key it will get.
Ranks(list, method, top_k, text) == Len(list) <= top_k /\ InOrder(list, method, text)

RequestFits(q) ==
    /\ q.pc = "rerank" => q.method = "hybrid"
    /\ q.pc = "set" => Ranks(q.results, q.method, q.top_k, q.text)

PendingFits ==
    /\ \A r \in Reqs : RequestFits(req[r])
    /\ warm.pc = "set" => Ranks(warm.results, "dense", WarmTopK, Head(warm.queue))
    /\ \A w \in late : \E t \in Texts : Normal[t] = w[1][3] /\ Ranks(w[2], w[1][1], w[1][2], t)

CacheInv == TypeOK /\ PendingFits /\ CacheEntryFitsKey

\* A cache write stores only documents of the present corpus: no answer computed
\* before a TRUNCATE is cached after it, unless a connection was lost, or a process
\* died that had just sent it.
FreshWrites ==
    [][\A key \in Keys :
        cache'[key] # cache[key] /\ cache'[key] # NoEntry /\ drops = 0 /\ crashes = 0
            => ToSet(cache'[key]) \subseteq documents]_vars

\* A hybrid search fails on a missing document only while the index built at
\* start-up names documents the corpus has lost.
KeyErrorOnlyIfIndexStale ==
    [][\A r \in Reqs :
        req'[r].pc = "KeyError" /\ req[r].pc # "KeyError"
            => ~(bm25 \subseteq documents)]_vars

\* Redis comes and goes, but in the end it answers or refuses.
RedisRecovers == <>[]RedisReturns

Answered(r) ==
    req[r].pc \in Working ~>
        req[r].pc = "ok" \/ crashes > 0 \/ drops > 0 \/ seed.runs > 1

\* A search that gets its connections is answered although Redis may fail, come and go
\* between its read and its write, and however far the first seed run has got, unless
\* Redis accepts a command and never answers it: nothing ends that wait.
AnsweredUnlessRedisHangs == RedisRecovers => \A r \in Reqs : Answered(r)

\* A started seed run ends: neither searches nor the warming task can keep its TRUNCATE
\* waiting for ever, unless Redis keeps one of them waiting with its locks in hand.
SeedEnds == RedisRecovers => (seed.pc = "truncate" ~> seed.pc \in {"done", "crashed"})

\* Answers cached from an old or half-loaded corpus drain: some time after the last
\* seed run and the last fault, every dense entry is what a live search of a text with
\* that key would return.
CacheConverges ==
    <>[](\A key \in Keys : key[1] = "dense" /\ cache[key] # NoEntry =>
            \E t \in Texts : Normal[t] = key[3]
                              /\ cache[key] \in NearestDocs(t, key[2]))
=============================================================================
