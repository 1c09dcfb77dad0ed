# TLA+ models of the cross-lingual search engine

The repository is a multilingual search engine over a Wikipedia corpus: a FastAPI backend
(`src/backend`) that answers searches from PostgreSQL/pgvector with a Redis cache in front, and an
offline pipeline (`src/cross_lingual_retrieval`) that collects and splits the corpus, embeds it and
evaluates retrieval. This directory holds TLA+ models of it, the TLC configurations that check
them, and TLAPS proofs about the core.

## Inventory

| Component | State it keeps | Operations | What makes it hard |
| --- | --- | --- | --- |
| Search API (`app/api/v1/search.py`) | rows of `search_queries`, `search_results` | `search`, `search_hybrid`, `_log_search`, `search_rag` | an `await` between every two of: cache read, retrieval, rerank, cache write, log |
| Hybrid ranking (`services/hybrid_search.py`) | the BM25 index, built once at start-up | `load`, `_bm25_ranked_ids`, `reciprocal_rank_fusion`, `search` | an index older than the tables it is joined with; ties and short lists in the fusion |
| Dense retrieval (`services/retrieval_service.py`) | the inference semaphore | `encode_query`, `search`, `run_inference` | approximate index; few inference slots and few connections shared by all requests |
| Cache (`services/cache_service.py`) | Redis entries with a TTL | `make_key`, `get`, `set`, `ping` | fails open; key normalisation; entries that outlive the corpus |
| Cache warming (`api/v1/admin.py`, `tasks/cache_tasks.py`) | a background task with one session | `warm_popular_cache`, `warm_cache` | one transaction held open over many searches |
| Seed script (`scripts/seed_from_existing_data.py`) | its progress through the batches | truncate, document batches, embedding batches | replaces the corpus under a running service, in several transactions, and may be interrupted |
| Process (`main.py`, `db/base.py`) | loaded models, connection pool | start, crash | does not start over an empty `documents` table |
| Feedback (`api/v1/feedback.py`) | rows of `feedback` | `submit_feedback` | check-then-insert against a unique index; a row that vanishes between statements |
| Bookmarks, history (`api/v1/me.py`) | rows of `bookmarks` | `create_bookmark`, `list_bookmarks`, `get_history` | the same |
| Accounts (`api/v1/auth.py`, `deps.py`, `core/security.py`) | rows of `users`, tokens held by clients | signup, login, refresh, role checks, `promote_admin.py` | concurrent signups, tokens that outlive a role change |
| AI answers (`services/rag_service.py`) | none | `synthesize`, `extract_cited_numbers` | numbers in a model's text used as positions |
| Health (`api/v1/health.py`) | none | `health`, `ready` | what "ready" promises |
| Offline pipeline (`cross_lingual_retrieval/src`) | files: raw, processed, cached embeddings | collect, process, embed, index, evaluate | files of different runs combined |

Calls go from the API handlers to the services; the services share PostgreSQL (at READ COMMITTED,
one session and one transaction per request), Redis, the process-wide index and the inference
semaphore. The seed script and `promote_admin.py` are separate processes that meet the service
only in the database. The warming task runs inside the service after the admin's response is sent.

What makes each of them correct:

- Search API: an answered search is logged, and a search that failed before its COMMIT is not; it
  fails only for a stale cache entry, a stale index or a fault, and waits for ever only for Redis
  (`LogIsAtomic`, `StaleOnlyFromCache`, `AnsweredUnlessRedisHangs`).
- Hybrid ranking: the pool that is reranked is the best of both lists (`PoolIsTheBest`,
  `AgreementWins`); it fails only over a stale index (`KeyErrorOnlyIfIndexStale`).
- Cache and warming: an entry fits its key, is fresh when written and does not stay for ever
  (`CacheEntryFitsKey`, `FreshWrites`, `CacheConverges`, `LiveResultsExist`).
- Seed script: it ends, and with its corpus, whole (`SeedEnds`, `SeedComplete`, `SeededInFull`).
- Feedback and bookmarks: atomic upserts, one row per user and target (`SubmissionsAreUpserts`,
  `OneRowPerUser`, `TargetStillThere`).
- Accounts: one user per address, and sessions that end (`OneUserPerEmail`, `SessionsEnd`).
- Offline pipeline: files that belong together, a clean split, vectors of their own documents
  (`CompletedCollectionsAgree`, `CompletedRunsAgree`, `SplitIsClean`, `PositionsMeanDocuments`,
  `MismatchOnlyAcrossRuns`, `MergingLosesNothing`).
- Connections, slots and locks: every request ends and TRUNCATE gets its turn; what waits for each
  other is few and known (`EveryRequestEnds`, `TruncateEnds`, `StuckOnlyThroughTruncate`,
  `OnlyCorpusReadsDie`).
- AI answers: a cited number names the card the user sees under it (`CitationsAreTheCards`).
- Health: `ready` looks at the model, Redis and the database one after the other. It needs a
  connection of the pool that requests use, so it ends as they do (`EveryRequestEnds`).
  `health.py:27` calls it "can this instance actually serve a search right now"; the check also
  demands Redis, which searches do without as long as it refuses (`AnsweredUnlessRedisHangs`), and
  does not see a stale BM25 index.

## Modules

| Module | Models | State |
| --- | --- | --- |
| `Ranking` | the best-n cut of pgvector, BM25 and the cross-encoder; Reciprocal Rank Fusion; the pool sizes (`hybrid_search.py`) | none: pure operators |
| `SearchService` | `search.py`, `retrieval_service.py`, `hybrid_search.py`, `cache_service.py`, `admin.py` and `cache_tasks.py`, start-up and crash of the process, the database half of the seed script | the four tables of a search, Redis, the process and its BM25 index, each request, the warming task, the seed script |
| `Contention` | what every handler, the warming task and TRUNCATE wait for, and with what in hand (`db/base.py`, `run_inference`, the lock order of each statement) | pool, semaphore, lock tables, the steps each request has left, TRUNCATE |
| `Answers` | `search_rag` and `rag_service.py` as a function of what the database and the language model answer | none: pure operators |
| `UserData` | `feedback.py`, `me.py` (POST), and the seed script as far as it truncates their tables | documents, result rows, votes and bookmarks, each request |
| `UpsertStore` | abstract: one value per key, set in one step between a request's begin and its answer | a store and its requests |
| `Accounts` | `auth.py`, `deps.py`, `security.py`, `promote_admin.py` | users, tokens, requests, the clock |
| `Corpus` | `data_collection.py`, `preprocessing.py` | files, what each script does |
| `Pipeline` | `dense_retrieval.py`, `baseline.py`, `evaluation.py` and the file half of the seed script; extends `Corpus` | the same, and the seeded tables |
| `Retrieval` | the searches of `baseline.py` and `dense_retrieval.py` | none: pure operators |
| `SearchServiceProofs`, `ContentionProofs`, `UserDataProofs`, `AccountsProofs`, `CorpusProofs`, `PipelineProofs`, `RankingProofs` | theorems and their proofs | |
| `SequenceFacts` | lemmas on the sequence operators and on induction that the proofs share | |
| `MC...` | instances for TLC; `MCRanking` also holds the reference definitions that `Ranking`, `Retrieval` and `Answers` are checked against; `Contention` needs none | |

`SearchService` extends `Ranking`; `Pipeline` extends `Corpus`; `UserData` instantiates
`UpsertStore` through a refinement mapping. Definitions keep the names of the functions they
stand for. A definition introduced by a comment that begins with "Slip:" is a plausible error in
the definition below it. No specification uses one: put in that definition's place, it shows
that the property it is meant for can fail.

### From code to actions

**SearchService.** A step is a statement that reaches PostgreSQL or Redis, with the code after it
up to the next `await`: `CacheGet`, `Retrieve`, `Rerank`, `CacheSet`, `LogQuery` (the flush),
`LogResults` (the result rows and the COMMIT), `Answer` (the response). Every one of these has the
paths on which the code raises: a lost connection (`DBAPIError`), a fused candidate that is gone
from `documents` (`KeyError`), a foreign key that fails (`IntegrityError`). A connection may be
lost after the COMMIT was carried out and before it was acknowledged, and the process may die
between the COMMIT and the response (`Crash` with a request at "answer"). What is kept of a
transaction is what other processes notice: `tx = "open"` is the ACCESS SHARE lock that a SELECT
leaves on the corpus until the session ends and that `TRUNCATE` waits for; locks are granted in
the order they are asked for (`MayLockCorpus`). What `flush` has sent nobody else sees, so
`LogQuery` changes no table; the INSERTs of the result rows and the COMMIT are one step, because
nothing in between can be seen by another transaction of the model. The warming task has its own
session over its whole list. The BM25 index is what `documents` held when the process came up, and
the process does not come up over an empty table (`BM25Okapi([])` divides by zero).

Redis is in one of three states. "up" and "down" are a server that answers and one that refuses:
a read that fails is a miss, a write that fails is dropped. "stalled" is one that takes a command
and does not answer. The client has no timeout (`cache_service.py:32`), so the request or the task
that awaits it stays where it is, with its transaction. `RedisTurns` goes from any of them to any
other. A write whose process died may still be carried out (`late`, `LateWrite`). A write that was
carried out and whose answer was lost is the same as one that succeeded, for the caller goes on
either way. An entry may be gone from one step to the next (`Expire`), which is also all that a
request sees of a read that was refused.

Scores are constants of the instance: `Distance`, `Lexical`, `CrossScore`. The HNSW index is
approximate, so a dense search answers the best of *some* of the rows it could reach
(`Reachable`, a constant: exact recall in most runs, all rows or all but one in `search_live`).

**Contention.** A request is the sequence of steps its handler has left: the tables its statements
lock in their order, "others" for tables that TRUNCATE does not touch, the calls of the inference
and the language model, commit and close. It takes a connection with its first statement
(`Checkout`), keeps it and its locks until commit or close, and may be refused or fail at any
statement (`Raise`). TRUNCATE locks the tables it names, then those that refer to them in the
order of their creation, then `feedback`; while it waits for one, requests for that table queue
behind it (`Grantable`). SQLAlchemy's pool serves whoever asks first when a connection is back,
the semaphore hands its slot to the first in its queue, and PostgreSQL cancels either side of a
deadlock. The warming task has a session of its own. Whether the request's session is closed
before it begins depends on the version of FastAPI (`env.closesFirst`): `requirements.txt` asks
for 0.110 or later, and later versions changed the order. If it is not, the task waits for a
second connection with the first still out.

**Answers.** The rows of the join come in any order, a card may be asked for twice, the model's
text is the set of numbers in brackets in it, and the call may fail.

**UserData.** One action per statement: `GetTarget` (`db.get`), `Select` (the caller's own row),
`Insert` or `Update` with the commit, `Refresh`, `Return`. SQLAlchemy's habit of writing an
attribute only if it differs from what was loaded is in `Update`; NULL users are never equal in
the unique index, so anonymous votes accumulate. `first` records whether the caller had a row
when the request began.

**Accounts.** The slow hash runs in a thread between two statements, and that is where others get
in. `EmailStr` is the function `Normal`: signup applies it, login and `promote_admin.py` do not.
Tokens are only the ones issued, or garbage; the role is read from the table, never from a token.
A user is deleted only by hand in the database (`DeleteUser`), since the API has no route for it.

**Corpus, Pipeline.** A script computes in memory and writes its files in a fixed order;
`open(..., "w")` empties a file before anything is written, so it is torn until it is closed, and
stays torn if the script stops there. Every file is stamped with the run that made it, which the
code does not record and the properties speak of. A page stands for its text, a vector for the
page it was computed from; what retrieval finds is any subset of the relevant documents it
searches, since `Retrieval` and `Ranking` are about the order. A file is torn because its script has
it open, or because a run of that script was interrupted (`CorpusTypeOK`).

## Runs

| Run | Question | Instance |
| --- | --- | --- |
| `ranking` | Is the rerank pool the best of both lists? Does merging per-language answers lose anything? Does padding do harm? Is a citation the card it names? | every pair of ranked lists of up to 3 of 4 documents, smoothing 1 and 60; two languages of up to 3 documents with scores 0 to 2; k up to 4; up to 3 cards, numbers from 0 to 4 |
| `search_faults` | Do two searches, two seed runs, a crash, a lost connection and expiring entries leave the corpus and the log whole, and only the expected errors? | 2 slots, 1 text, a corpus of 2 documents and a part of it |
| `search_warm` | Is what gets cached of the present corpus and under the right key, with the warming task beside a search? | 1 slot, 2 texts that share a key and embed differently, both methods, a warming list of 2, 2 seed runs, 1 lost connection |
| `search_live` | Is every search answered, with Redis up, down or stalled? Does TRUNCATE get its turn, and the script come to its end? Does the cache drain? | 1 slot, a warming task, 2 seed runs, an approximate index, batches of 1 |
| `contention` | Does every request end, and TRUNCATE? Who can wait for whom? Who is cancelled? | 2 requests of any handler, again and again, a pool of 1 or 2, 1 inference slot, TRUNCATE again and again |
| `user_data` | Do votes and bookmarks behave as atomic upserts, and fail only as described? | 3 votes of a user or of nobody, 2 bookmarks, 1 document, 1 result, 2 truncations |
| `accounts` | Is an address unique? Do sessions end? | 2 requests, 2 users, 2 passwords, 2 spellings of one address, lifetimes 1 and 2, a clock to 3 |
| `corpus` | What may the files hold after interrupted and overlapping runs? When may one be torn? | 2 languages, 3 pages of which one is dropped, 2 runs of each script |
| `evaluate` | When can an evaluation find anything? | 1 language, 2 pages, 2 runs of collection and of preprocessing, 1 of the rest |
| `seeding` | Which vector does a document get, in the database and in a search over the cached embeddings? | 1 language, 3 pages, 2 runs of collection, preprocessing and encoding, 1 of the seed script |
| `alldocs` | (violated) Are all documents loaded for an evaluation? | one undisturbed run of each script |
| `spelling` | (violated) Can whoever signed up log in with the same address? | as `accounts`, with a clock to 1 |

### What the passing runs show

- **Tables** (`LogIsAtomic`, `SeedComplete`): an answered search is in the log, and its result
  rows too until a TRUNCATE takes them. A failed search has left nothing there, unless it lost its
  answer after the COMMIT, with the process or with the connection: such a search is logged,
  counted and never seen, and nothing in the code can tell it from another. A finished seed run
  has left exactly its own corpus, also after an interrupted one.
- **Stale data** (`StaleOnlyFromCache`, `LiveResultsExist`, `KeyErrorOnlyIfIndexStale`): a search
  fails with an `IntegrityError` only when its answer came from the cache, and with a `KeyError`
  only while the index built at start-up names documents that are gone. Both do happen after a
  re-seed; the properties say that nothing else leads to them.
- **Cache** (`CacheEntryFitsKey`, `FreshWrites`, `CacheConverges`): an entry is a ranking for its
  key's method, size and normalised text. Unless a connection was lost or the process crashed, no
  answer from before a TRUNCATE is cached after it. Both conditions are needed: the server
  releases the lock of a lost connection at once, while the request writes its answer to Redis
  before it notices; and what a process sent before it died may arrive later. Once the last seed
  run is past (there are two in the instance, which has no faults but those of Redis), only dense
  answers of the present corpus are left in the end, because every entry has a TTL.
- **Liveness** (`AnsweredUnlessRedisHangs`, `SeedEnds`), both under the hypothesis that Redis is
  not stalled for good (`RedisRecovers`): a search is answered whether Redis answers or refuses,
  and however often it changes, unless a second seed run (or a fault that the instance leaves out)
  intervenes; the script's TRUNCATE is not starved by a stream of searches or by the warming task.
  What a full pool does to a search is `contention`'s subject: here there is always a connection.
- **Contention** (`EveryRequestEnds`, `TruncateEnds`, `StuckOnlyThroughTruncate`,
  `OnlyCorpusReadsDie`): connections, slots and locks are asked for in an order that makes no
  circle, with two exceptions. One goes through TRUNCATE, and PostgreSQL ends it: what it cancels
  is TRUNCATE or a read of `documents` or `embeddings`, as in `list_bookmarks` (`me.py:59`), a
  search or the log's foreign key, never the write of a vote or of a bookmark. The other is a pool
  whose every connection belongs to a warming task that asks for one more; only the pool's timeout
  ends it, and only versions of FastAPI that keep the session open have it. Every wait ends, but
  by failing if need be: a request may time out at the pool while others take connections that
  came back. The call of the language model is made with a connection and locks in hand. The waits
  for Redis with a connection in hand (`search.py:61`, `cache_tasks.py:20`) are not among the
  steps of this module: it is about a Redis that returns. One that does not return is in
  `SearchService`.
- **Votes and bookmarks** (`OneRowPerUser`, `TargetStillThere`, `ConflictOnlyIfOverlapping`,
  `SubmissionsAreUpserts`): the handlers implement `UpsertStore`. A repeated value takes effect
  where it is read; an answer can be of a later vote; a truncation between commit and refresh
  fails the request after it took effect.
- **Accounts** (`OneUserPerEmail`, `SessionsEnd`): signups that race for an address leave one
  user, and the others fail with the unique index's error. A chain of refreshes never outlives one
  refresh token and one access token after the last password.
- **Answers** (`CitationsAreTheCards`): every citation is of a card that was asked for, at the
  number under which it is displayed, each number once and ascending, for whatever the model
  writes and in whatever order the database answers.
- **Ranking** (`PoolIsTheBest`, `AgreementWins`, `MergingLosesNothing`, `PaddingIsHarmless`): the
  code's operators against a reference that scores in whole units or ranks all documents at once.
- **Offline pipeline** (`CompletedCollectionsAgree`, `CompletedRunsAgree`, `SplitIsClean`,
  `HitsAreAcrossRuns`, `PositionsMeanDocuments`, `SeededInFull`, `MismatchOnlyAcrossRuns`): a run
  of collection or preprocessing that came to its end has left files of that run only, whatever
  was interrupted before it; for the others see the next section.

### What the code does otherwise than it says

Two statements of the repository are refuted by a run each:

- `alldocs`: `baseline.py:60` says "Load all documents from processed data", and loads the
  training split only, while every query's relevant document is in the test split. So an
  evaluation of one run's files finds nothing (`HitsAreAcrossRuns`, which holds). The results kept
  in the repository agree:
  `cross_lingual_retrieval/results/dense/sentence-transformers_LaBSE_results.json` has recall@10
  0.0 over 500 queries.
- `spelling`: `auth.py:54` says the login form's username is treated as the email; signup
  lower-cases the domain and login does not.

Others are left to the passing properties, which say when they occur:

- A first vote or bookmark that overlaps another of the same user fails with the unique index's
  error (500), although `models.py:102` and `me.py:45` describe resubmitting as an update; the
  same for two signups, where `tests/test_auth.py:29` expects 409 (`OneUserPerEmail`).
- `cache_service.py:20` says that every method fails open if Redis is unreachable, and that search
  must keep working without the cache. They fail open on an exception. A Redis that takes a
  command and does not answer raises none, because the client has no timeout, and the search
  waits: hence the hypothesis of `AnsweredUnlessRedisHangs` and `SeedEnds`, without which neither
  holds.
- The seed script pairs documents and vectors by position and compares only their number
  (`seed_from_existing_data.py:41`), and `dense_retrieval.py` does not even compare that. They are
  of different pages only if they are from different runs of `preprocessing.py`
  (`MismatchOnlyAcrossRuns`, `PositionsMeanDocuments`).

Two more are in the model, and no property is about them. An interrupted write leaves a torn
embedding cache, which every later run takes for the cache and fails on, until it is deleted by
hand; nothing in the repository promises more. And `--languages` of `data_collection.py`
("Languages to collect", line 236) is not passed on in line 265: every language is collected again
and its file overwritten, whichever were asked for (`Asks`, `NextLanguage`).

### Bounds, and why they are enough

`MaxSeeds`, `MaxCrashes`, `MaxDrops`, `MaxRuns`, `MaxTime` cap what happens from outside; nothing
else is capped, and request slots are used again for ever in `SearchService` and `Accounts`. Two
seed runs are the least with which something can be stale, two requests the least with which
something can race, and a third vote lets one be read back after another was overwritten. One lost
connection or crash at any point separates the states before and after it. Two of three documents
per corpus with one in common give a re-seed that keeps, drops and adds a document
(`search_warm`). In `search_faults`, with two slots, and in `search_live`, the second corpus is a
part of the first: a re-seed drops a document that an entry and the BM25 index name. Batches of 1
over a corpus of 2 split a load in the middle (`search_live`); for a crash in the middle of a
table there is the proof of `SeedComplete`, which has any batch size. The lexical match in the
instances is the farthest by distance, so that BM25 contributes a candidate that the dense pass
did not find. The clock of `accounts` runs past the lifetime of a refresh token that was issued at
time 0.

`RedisStates` is what may become of Redis in a run: all three states in `search_live`, where it
matters to whether a search goes on; "up" and "down" in `search_warm`, whose properties are about
what is in the cache; "up" alone in `search_faults`, where a refused read or write and a stall are
no more than an entry that expires and a request that takes its time.

`Interruptible` limits which scripts stop half-way in a run: encoding in `evaluate`, none in
`seeding`, both of its scripts in `corpus`; the proofs have no such limit. Two runs of collection
and of preprocessing are the least with which an evaluation can find something or a vector be
another page's, and two of encoding the least with which the cached embeddings are reused.

In `contention` two requests are enough for every circle there can be: one through TRUNCATE
needs one request, one through the pool or the semaphore as many as there are connections or
slots. The proofs have no such bound. The seed script is there its TRUNCATE only, repeated for
ever; its inserts, and clients that hang up, are left out.

`CacheEntryFitsKey` is checked with one value of `top_k`; that entries of different sizes stay
apart is only in its proof.

In every model one run of the seed script, and of each offline script, goes on at a time, and one
warming task. Torn files never parse. A vote or bookmark request is made once per slot. In
`SearchService` and `UserData` TRUNCATE takes its locks at once; `Contention` takes them one by
one, with the deadlocks that brings.

Symmetry is used only in runs that check safety, over slots, clients, users, passwords and pages,
none of which any definition tells apart. Deadlock is not checked where the system really may
stop: the scripts when all their runs are used up, one-shot votes, and the pure operators.

### Fairness

`FairSpec` of `SearchService` and `Spec` of `Contention` have some.

In `SearchService`, `Step(r)`: the event loop runs a coroutine whose await is over, and a
statement that can get its locks is answered. `WarmStep`: the same for the background task.
`SeedStep`: the script is a loop and nobody has to press a key. `Expire`: Redis drops an entry
whose TTL is over. Weak fairness is enough because a request or the script that can go on can
still go on after any step of others: PostgreSQL queues lock requests, so once TRUNCATE waits,
later searches queue behind it and the earlier ones end. A step that awaits Redis is enabled only
while Redis returns something (`RedisReturns`), so fairness does not make it. Nothing is assumed
of users, of Redis, of faults, of crashed scripts being run again or of the process being
restarted. `AnsweredUnlessRedisHangs` and `SeedEnds` say in their hypothesis (`RedisRecovers`)
that from some time on Redis answers or refuses; `CacheConverges` needs no such thing.

In `Contention`, `Handle(r)`: a handler goes on when what it waits for is there; a thread of the
inference and the call of the language model (whose client library has a default
timeout) return; Redis does, whose awaits are not steps of their own there; and the pool's timeout
expires. `DetectDeadlock(r)`: PostgreSQL looks after `deadlock_timeout`.
`Truncate`: the script is a process of its own. No request has to arrive and no TRUNCATE has to
begin.

## Proofs

`SearchServiceProofs` proves, for any set of documents, texts, slots, corpora, scores, pool sizes,
batch size and bounds, `TypeOK`, `LiveResultsExist`, `StaleOnlyFromCache`, `LogIsAtomic`,
`SeedComplete`, `FreshWrites`, `KeyErrorOnlyIfIndexStale` and
`CacheEntryFitsKey`.

None of these is inductive by itself. The inductive invariant is `Inv` in `SearchService`, and the
parts that the properties lack are: `TxDiscipline` (a request that has read the corpus still has
its transaction, dropped or open, until it is committed, and nothing is dropped before the first
lost connection), `NothingLate` (only a crash leaves a write on its way) and `SeedProgress` (what
the tables hold at each point of the script). The argument for stale data is: a live answer
implies a transaction that is open or dropped; open keeps `TRUNCATE` out; dropped fails at the
next statement. So only a hit, which holds no lock, can meet the foreign key.

`CacheEntryFitsKey` has an invariant of its own, `CacheInv`: an entry can only be wrong if what
was about to be written was, by a request, by the warming task or on the way from a dead process
(`PendingFits`), and that is decided by the two cuts
(`CheapestSorted`, `NearestRanks`, `RerankRanks`).

`UserDataProofs` proves, for any number of users, requests, targets and seed runs, `TypeOK`,
`OneRowPerUser`, `TargetStillThere`, `ConflictOnlyIfOverlapping`, and that `UserData` implements
`UpsertStore` (`Refinement`). Its `Inv` adds `RequestInv`: which requests hold a transaction
(`HoldsTx`), what they have found (`FoundTrue`), that the row a request has found was inserted for
the same target and caller (`SameRow`, `HasItsRow`), and that a request about to insert began when
there was no row (`FirstIsTrue`). For the refinement, `StoreIsRows` says that each row is the
value under its own key and that nothing else is stored; a lemma for each way a step can look
through the mapping (`Applying`, `Conflicting`, `Answering`, `Vanishing`, `Stuttering`) leaves for
each action only which of them it is.

`ContentionProofs` proves, for any number of requests, any pool sizes and any number of inference
slots, `TypeOK`, `OnlyCorpusReadsDie` and `StuckOnlyThroughTruncate`. `Inv` has that the lock
manager gives TRUNCATE a table only when nobody else has it (`TruncateWorksAlone`), and adds what
each request may hold while it waits (`WaitsRight`): for a connection nothing of its session, in
an inference slot nothing it could wait for, for a lock a connection. `QueueIsRight` says that
nobody queues for a slot that is free. `KeepsOrder` says that the tables whose rows refer to
others are asked for in TRUNCATE's own order; hence only reads of `documents` and `embeddings` can
be in a deadlock. `ClosesLast` says that whoever holds a connection has its close before it. From
these, any set of processes that wait only for each other is walked back: a waiter for a slot
leads to a request that runs inference and waits for nothing, a waiter for a connection to a
holder, a holder to a lock, a lock to TRUNCATE, TRUNCATE to the request it waits for, which is
`Deadlocked`; what is left over are the warming tasks.

`AccountsProofs` proves, for any users, passwords, spellings, number of requests, lifetimes and
clock, `TypeOK`, `OneUserPerEmail` and `SessionsEnd`. `IInv` bounds
the expiry of every token by the last password of its user (`TokensOK`), which refresh keeps
because an access token cannot be refreshed and a refresh issues no refresh token; and it
says which request has a user in hand (`RequestsOK`).

`CorpusProofs` proves, for any languages, pages, split and numbers of runs and with interruptions
anywhere, `CorpusTypeOK`, `CompletedCollectionsAgree`, `CompletedRunsAgree` and `SplitIsClean`.
The first two come from what each script does to the files it alone writes: `TornOK` says which
script a torn file is to be blamed on, `CollectionOK` that the languages a collection has been
through have files of its run. The other two are not inductive, because the state forgets: a
combined file may be of one run and the file of a language that it was made from be overwritten by
the next. The invariant (`CorpusInv`) therefore speaks of the history that the files are
left-overs of: *versions*, the rows that each run of `preprocessing.py` made of each file. Every
file that can be read is the version of the run it is stamped with (`FilesOK`), what a script
holds in memory and has still to write is too (`ScriptOK`), the versions of one run are a clean
split (`CleanSplit`), and those of all languages are the rows of each language in order. The state
does not have the versions, so the inductive invariant is that there are some (`VersionsExist`). A
step that makes a new one extends them where no file can be of them yet (`Grown`, `Known`). That a
split is clean comes down to the numbers in `process_articles`: each document's is smaller than
how many there are after it.

`PipelineProofs` proves `TypeOK`, `HitsAreAcrossRuns`, `PositionsMeanDocuments`, `SeededInFull`
and `MismatchOnlyAcrossRuns` by following the versions of `CorpusProofs` further (`PipeInv`): the
documents a script has loaded, the vectors it has computed or read, the results it writes and the
rows of the seeded tables are those of some run's version (`MemoryOK`, `ContentOK`, `DbOK`). Two
versions of one run have no document in common across the split, so what is found is across runs;
and two versions of the same run are equal row by row, so a vector that belongs to another page is
of another run. For `PositionsMeanDocuments` it also takes that what `dense_retrieval.py` holds in
memory is what it has read or written (`CacheInHand`). That everything about `Corpus` still holds
in the larger system is `CorpusStaysClean`.

`RankingProofs` proves the five comparisons with a reference that `MCRanking` states, for any
documents, lists, scores, sizes and smoothing constants: `PoolIsTheBest`, `AgreementWins`,
`MergingLosesNothing`, `PaddingIsHarmless` and `CitationsAreTheCards`. The state is only a
question and its answer, so the invariant says no more than that the question is one of the
inputs and the answer what the code computes from it; the proofs are about the operators. Their
common ground is *places in an order*: of a finite set in a strict total order, each member has a
number of members ahead of it, no two the same, and every number below the size is some
member's (`AheadCounts`, `EveryPlaceIsTaken`). So the first n are n or all (`TheFirst`), a set of
numbers can be enumerated in ascending order (`NumbersHaveAnOrder`), a stable sort puts each
element at its place (`SortingIsStable`), and an order-preserving bijection keeps the places
(`SamePlaces`).

- For the fusion, the fractions that are summed are worth whole numbers of the unit
  1 / ((k + 1) * ... * (k + MaxLen)) (`FactorsDivide`, `ScoresAreWorth`), so they compare as
  `Score` does (`ScoresCompare`); the keys of the dict are in the order in which the lists first
  meet them (`KeysAreInOrder`); and so the stable sort is `Better` (`ThePool`). That a document of
  both lists wins comes down to two shares at ranks up to k + 1 being more than any one share
  (`TwoBeatOne`).
- For the merged search, a document that its language does not answer has k answered documents
  above it (`UnfoundAreBelow`), so who is among the first k of the answers is among the first k of
  all, with the same documents ahead (`BestOfEach`).

The assumptions are the named ASSUMEs of the modules: sizes, scores, lifetimes and numbers of runs
are natural numbers, sets of identifiers do not overlap, a scan of the index returns rows that
exist, there are finitely many requests, the six scripts are there, the configured languages are
some and each is named once, and the marks for an absent and a torn file are not contents of
one. TLC evaluates them in every run of these modules.

`SequenceFacts` has what recursive definitions need. The theorems of the library on induction
take an operator as a parameter, which the installed provers cannot instantiate; stated about
*sets* of natural numbers (`Induction`, `InductionUpTo`) they can be used, and what
`FlattenSeq` returns is proved with them (`FlattenRows`, `CountingRows`). What `FoldLeft` computes
is proved in `RankingProofs` in the same way (`FoldExists`).

Only model-checked: the liveness properties and everything about ENABLED or fairness, which
these provers do not reach. Every invariant and every action property of a passing run is proved.

## What is not modelled

- The Streamlit page loads, encodes, indexes and searches with the functions of
  `dense_retrieval.py`, which are modelled, and displays the result. That it and
  `dense_retrieval.py` may both find no cached embeddings and both write the file is listed as a
  hazard; the model has one process at a time write it.
- The load test and its collector, deployment files, configuration, metrics and request logging
  keep no state that the service depends on.
- The modes of `dense_retrieval.py` that only print, and the averages, nDCG, latencies and plots
  of the evaluation: arithmetic and output after the last step that is modelled.
- Of `alembic`, only what the schema demands of the handlers (unique indexes, foreign keys, their
  ON DELETE) is in the models, not the migrations.
- Orderly shutdown: it frees what the end of the process frees, and no handler sees it.
- `health` answers without looking at anything.
- The texts themselves (cleaning, tokenising, embedding, translating) enter as scores and as
  which pages are kept. A title that is cleaned to nothing is listed as a hazard for a unit test.
