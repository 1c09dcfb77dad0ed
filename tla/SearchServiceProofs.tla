------------------------ MODULE SearchServiceProofs ------------------------
(***************************************************************************)
(* Proofs about SearchService, for any number of documents, requests,      *)
(* corpora, seed runs and faults.                                          *)
(***************************************************************************)
EXTENDS SearchService, FiniteSetTheorems, SequenceTheorems, TLAPS

-----------------------------------------------------------------------------
(* Facts about the ranking operators.                                      *)

\* A "best n" cut over S is a sequence of members of S.
LEMMA CheapestInSet ==
    ASSUME NEW S, IsFiniteSet(S), NEW cost, NEW n \in Nat,
           NEW list \in Cheapest(S, cost, n)
    PROVE  list \in Seq(S) /\ ToSet(list) \subseteq S
<1>1. Cardinality(S) \in Nat
  BY FS_CardinalityType
<1>2. \E m \in Nat : list \in [1 .. m -> S]
  BY <1>1 DEF Cheapest, Least
<1>3. QED
  BY <1>2 DEF ToSet

LEMMA HighestInSet ==
    ASSUME NEW S, IsFiniteSet(S), NEW score, NEW n \in Nat,
           NEW list \in Highest(S, score, n)
    PROVE  list \in Seq(S) /\ ToSet(list) \subseteq S
BY CheapestInSet DEF Highest

\* Fusion invents no candidate: each comes from one of the two lists.
LEMMA CandidatesFromLists ==
    ASSUME NEW dense, NEW lexical, NEW rrfK, NEW pool
    PROVE  candidate_ids(reciprocal_rank_fusion(<<dense, lexical>>, rrfK), pool)
              \subseteq ToSet(dense) \cup ToSet(lexical)
<1> DEFINE lists == <<dense, lexical>>
           fused == reciprocal_rank_fusion(lists, rrfK)
<1>1. candidate_ids(fused, pool) \subseteq DOMAIN fused.score
  BY DEF candidate_ids
<1>2. DOMAIN fused.score = UNION {ToSet(lists[i]) : i \in DOMAIN lists}
  BY DEF reciprocal_rank_fusion
<1>3. DOMAIN lists = {1, 2} /\ lists[1] = dense /\ lists[2] = lexical
  OBVIOUS
<1>4. QED
  BY <1>1, <1>2, <1>3

-----------------------------------------------------------------------------
(* Types.                                                                  *)

\* Any subset of the documents can be ranked.
LEMMA DocsSubsetFinite == \A S \in SUBSET Docs : IsFiniteSet(S)
BY DocsFinite, FS_Subset

LEMMA PoolSizeNat ==
    ASSUME NEW a \in Nat, NEW b \in Nat, NEW k \in Nat
    PROVE  PoolSize(a, b, k) \in Nat
BY DEF PoolSize, Greatest

\* What the two retrieval passes and the rerank return are lists of documents.
LEMMA RetrievedTyped ==
    ASSUME TypeOK
    PROVE  /\ \A t \in Texts, n \in Nat : \A list \in NearestDocs(t, n) :
                 list \in Results /\ ToSet(list) \subseteq documents
           /\ \A t \in Texts, n \in Nat : \A list \in bm25_ranked_ids(t, n) :
                 ToSet(list) \subseteq bm25
<1>1. ASSUME NEW t \in Texts, NEW n \in Nat, NEW list \in NearestDocs(t, n)
      PROVE  list \in Results /\ ToSet(list) \subseteq documents
  <2>1. PICK S \in Reachable[documents \cap embeddings] :
            list \in Cheapest(S, Distance[t], n)
    BY <1>1 DEF NearestDocs
  <2>2. S \subseteq documents /\ S \subseteq Docs
    BY ScansStayInside DEF TypeOK, DatabaseTyped
  <2>3. list \in Seq(S) /\ ToSet(list) \subseteq S
    BY <2>1, <2>2, DocsSubsetFinite, CheapestInSet
  <2>4. QED
    BY <2>2, <2>3 DEF Results
<1>2. ASSUME NEW t \in Texts, NEW n \in Nat, NEW list \in bm25_ranked_ids(t, n)
      PROVE  ToSet(list) \subseteq bm25
  <2> DEFINE matching == {d \in bm25 : Lexical[t][d] > 0}
  <2>1. IsFiniteSet(matching)
    BY DocsSubsetFinite DEF TypeOK, DatabaseTyped, ProcessTyped
  <2>2. ToSet(list) \subseteq matching
    BY <1>2, <2>1, HighestInSet DEF bm25_ranked_ids
  <2>3. QED
    BY <2>2
<1>3. QED
  BY <1>1, <1>2

LEMMA PoolsTyped ==
    ASSUME TypeOK, NEW r \in Reqs
    PROVE  DensePool(r) \in Nat /\ req[r].top_k \in Nat
<1>1. req[r].top_k \in Nat
  BY CutsAreNat DEF TypeOK, RequestsTyped, Request
<1>2. QED
  BY <1>1, PoolSizeNat, CutsAreNat DEF DensePool

LEMMA CandidatesTyped ==
    ASSUME TypeOK, NEW r \in Reqs, NEW candidates \in Candidates(r)
    PROVE  /\ candidates \subseteq ToSet(req[r].results) \cup bm25
           /\ candidates \subseteq Docs
<1>1. PICK lexical \in bm25_ranked_ids(req[r].text, DensePool(r)) :
          candidates = candidate_ids(
              reciprocal_rank_fusion(<<req[r].results, lexical>>, RRF_K),
              PoolSize(RerankFloor, RerankFactor, req[r].top_k))
  BY DEF Candidates
<1>2. req[r].text \in Texts /\ req[r].results \in Seq(Docs)
  BY DEF TypeOK, RequestsTyped, Request, Results
<1>3. ToSet(lexical) \subseteq bm25
  BY <1>1, <1>2, PoolsTyped, RetrievedTyped
<1>4. candidates \subseteq ToSet(req[r].results) \cup ToSet(lexical)
  BY <1>1, CandidatesFromLists
<1>5. ToSet(req[r].results) \subseteq Docs
  BY <1>2 DEF ToSet
<1>6. QED
  BY <1>3, <1>4, <1>5 DEF TypeOK, ProcessTyped

\* The rerank returns candidates.
LEMMA RerankTyped ==
    ASSUME TypeOK, NEW r \in Reqs, NEW candidates \in Candidates(r),
           NEW rows \in Highest(candidates, CrossScore[req[r].text], req[r].top_k)
    PROVE  rows \in Results /\ ToSet(rows) \subseteq candidates
<1>1. IsFiniteSet(candidates) /\ candidates \subseteq Docs
  BY CandidatesTyped, DocsSubsetFinite
<1>2. req[r].top_k \in Nat
  BY PoolsTyped
<1>3. rows \in Seq(candidates) /\ ToSet(rows) \subseteq candidates
  BY <1>1, <1>2, HighestInSet
<1>4. QED
  BY <1>1, <1>3 DEF Results

LEMMA InitTyped == Init => TypeOK
<1> SUFFICES ASSUME Init PROVE TypeOK
  OBVIOUS
<1>1. (CHOOSE t \in Texts : TRUE) \in Texts
  BY TextsExist
<1>2. RequestsTyped
  BY <1>1, CutsAreNat DEF Init, RequestsTyped, Request, Methods, Results, TxStates
<1>3. WarmTyped
  BY DEF Init, NoWarming, WarmTyped, WarmTask, Results, TxStates
<1>4. SeedTyped
  BY DEF Init, SeedTyped, SeedRun
<1>5. DatabaseTyped /\ CacheTyped /\ ProcessTyped /\ FaultsTyped
  BY RedisStatesKnown DEF Init, DatabaseTyped, CacheTyped, ProcessTyped, FaultsTyped, Results
<1>6. QED
  BY <1>2, <1>3, <1>4, <1>5 DEF TypeOK

\* The parts of TypeOK an action leaves alone.
LEMMA UnchangedTyped ==
    /\ DatabaseTyped /\ UNCHANGED dbVars => DatabaseTyped'
    /\ CacheTyped /\ UNCHANGED redisVars => CacheTyped'
    /\ ProcessTyped /\ UNCHANGED <<app, bm25>> => ProcessTyped'
    /\ RequestsTyped /\ UNCHANGED req => RequestsTyped'
    /\ WarmTyped /\ UNCHANGED warm => WarmTyped'
    /\ SeedTyped /\ UNCHANGED seed => SeedTyped'
    /\ FaultsTyped /\ UNCHANGED faults => FaultsTyped'
BY DEF dbVars, redisVars, faults, DatabaseTyped, CacheTyped, ProcessTyped, RequestsTyped,
       WarmTyped, SeedTyped, FaultsTyped

\* What an exception, or a drop of the connection, makes of a request.
LEMMA FailedTyped ==
    ASSUME NEW q \in Request, NEW error \in Outcomes
    PROVE  Failed(q, error) \in Request
<1>1. <<>> \in Results /\ "none" \in TxStates
  BY DEF Results, TxStates
<1>2. QED
  BY <1>1 DEF Failed, Request

\* What is written to Redis is a list of documents under a key.
LEMMA WritesTyped == TypeOK => Writes \subseteq Keys \X Results
<1> SUFFICES ASSUME TypeOK PROVE Writes \subseteq Keys \X Results
  OBVIOUS
<1>1. \A r \in Reqs : KeyOf(r) \in Keys /\ req[r].results \in Results
  BY DEF KeyOf, make_key, Keys, TypeOK, RequestsTyped, Request
<1>2. ASSUME warm.pc = "set" PROVE WarmKey \in Keys /\ warm.results \in Results
  <2>1. Head(warm.queue) \in Texts
    BY <1>2, HeadTailProperties DEF TypeOK, WarmTyped, WarmTask
  <2>2. QED
    BY <2>1, CutsAreNat DEF WarmKey, make_key, Keys, Methods, TypeOK, WarmTyped, WarmTask
<1>3. QED
  BY <1>1, <1>2 DEF Writes

LEMMA NoWarmingTyped == warm' = NoWarming => WarmTyped'
BY DEF NoWarming, WarmTyped, WarmTask, Results, TxStates

\* The steps of the process, of Redis and of a request keep the types.
LEMMA RequestStepsTyped ==
    ASSUME TypeOK,
           \/ Boot \/ Crash \/ RedisTurns \/ LateWrite \/ (\E key \in Keys : Expire(key))
           \/ (\E r \in Reqs : Arrive(r) \/ DropConnection(r) \/ Step(r))
    PROVE  TypeOK'
<1> USE UnchangedTyped DEF TypeOK
<1>1. CASE Boot
  BY <1>1 DEF Boot, DatabaseTyped, ProcessTyped
<1>2. CASE Crash
  <2>1. \A r \in Reqs : Failed(req[r], "lost") \in Request
    BY FailedTyped DEF RequestsTyped, Outcomes
  <2>2. RequestsTyped'
    BY <1>2, <2>1 DEF Crash, RequestsTyped
  <2>3. ProcessTyped' /\ FaultsTyped' /\ WarmTyped'
    BY <1>2, NoWarmingTyped DEF Crash, ProcessTyped, FaultsTyped
  <2>4. CacheTyped'
    BY <1>2, WritesTyped DEF Crash, CacheTyped
  <2>5. QED
    BY <1>2, <2>2, <2>3, <2>4 DEF Crash
<1>3. CASE RedisTurns \/ LateWrite
  <2>1. CASE RedisTurns
    BY <2>1 DEF RedisTurns, CacheTyped
  <2>2. CASE LateWrite
    <3>1. PICK w \in late : cache' = [cache EXCEPT ![w[1]] = w[2]] /\ late' = late \ {w}
      BY <2>2 DEF LateWrite
    <3>2. w[2] \in Results
      BY DEF CacheTyped
    <3>3. CacheTyped'
      BY <2>2, <3>1, <3>2 DEF LateWrite, CacheTyped
    <3>4. QED
      BY <2>2, <3>3 DEF LateWrite
  <2>3. QED
    BY <1>3, <2>1, <2>2
<1>4. ASSUME NEW key \in Keys, Expire(key) PROVE TypeOK'
  BY <1>4 DEF Expire, CacheTyped
<1>5. ASSUME NEW r \in Reqs, Arrive(r) PROVE TypeOK'
  <2>1. <<>> \in Results
    BY DEF Results
  <2>2. RequestsTyped'
    BY <1>5, <2>1 DEF Arrive, RequestsTyped, Request, TxStates, Working
  <2>3. DatabaseTyped'
    BY <1>5, <2>1 DEF Arrive, DatabaseTyped
  <2>4. QED
    BY <1>5, <2>2, <2>3 DEF Arrive
<1>6. ASSUME NEW r \in Reqs, DropConnection(r) PROVE TypeOK'
  <2>1. RequestsTyped'
    BY <1>6 DEF DropConnection, RequestsTyped, Request, TxStates
  <2>2. FaultsTyped'
    BY <1>6 DEF DropConnection, FaultsTyped
  <2>3. QED
    BY <1>6, <2>1, <2>2 DEF DropConnection
<1>7. ASSUME NEW r \in Reqs, Retrieve(r) PROVE TypeOK'
  <2>1. \A rows \in NearestDocs(req[r].text, DensePool(r)) : rows \in Results
    BY RetrievedTyped, PoolsTyped DEF RequestsTyped, Request
  <2>2. Failed(req[r], "DBAPIError") \in Request
    BY FailedTyped DEF RequestsTyped, Outcomes
  <2>3. CASE Fail(r, "DBAPIError")
    <3>1. RequestsTyped'
      BY <2>2, <2>3 DEF Fail, RequestsTyped
    <3>2. QED
      BY <1>7, <3>1 DEF Retrieve
  <2>4. CASE \E rows \in Results, pc \in {"set", "rerank"} :
               req' = [req EXCEPT ![r].pc = pc, ![r].results = rows, ![r].tx = "open"]
    <3>1. PICK rows \in Results, pc \in {"set", "rerank"} :
               req' = [req EXCEPT ![r].pc = pc, ![r].results = rows, ![r].tx = "open"]
      BY <2>4
    <3> DEFINE q == [req[r] EXCEPT !.pc = pc, !.results = rows, !.tx = "open"]
    <3>2. q \in Request
      BY DEF RequestsTyped, Request, Working, TxStates
    <3>3. req' = [req EXCEPT ![r] = q]
      BY <3>1
    <3>4. RequestsTyped'
      BY <3>2, <3>3 DEF RequestsTyped
    <3>5. QED
      BY <1>7, <3>4 DEF Retrieve
  <2>5. QED
    BY <1>7, <2>1, <2>3, <2>4 DEF Retrieve, TxAfterSelect
<1>8. ASSUME NEW r \in Reqs, Rerank(r) PROVE TypeOK'
  <2>1. \A error \in Outcomes : Failed(req[r], error) \in Request
    BY FailedTyped DEF RequestsTyped
  <2>2. CASE \E error \in Outcomes : Fail(r, error)
    BY <1>8, <2>1, <2>2 DEF Rerank, Fail, RequestsTyped
  <2>3. CASE \E rows \in Results :
               req' = [req EXCEPT ![r].pc = "set", ![r].results = rows]
    <3>1. PICK rows \in Results : req' = [req EXCEPT ![r].pc = "set", ![r].results = rows]
      BY <2>3
    <3> DEFINE q == [req[r] EXCEPT !.pc = "set", !.results = rows]
    <3>2. q \in Request
      BY DEF RequestsTyped, Request, Working
    <3>3. req' = [req EXCEPT ![r] = q]
      BY <3>1
    <3>4. RequestsTyped'
      <4> HIDE DEF q
      <4> QED BY <3>2, <3>3 DEF RequestsTyped
    <3>5. QED
      BY <1>8, <3>4 DEF Rerank
  <2>4. QED
    BY <1>8, <2>2, <2>3, RerankTyped DEF Rerank, Outcomes
<1>9. ASSUME NEW r \in Reqs, CacheSet(r) PROVE TypeOK'
  <2>1. CacheTyped'
    BY <1>9 DEF CacheSet, CacheAfterSet, CacheTyped, RequestsTyped, Request
  <2>2. RequestsTyped'
    BY <1>9 DEF CacheSet, RequestsTyped, Request, Working
  <2>3. QED
    BY <1>9, <2>1, <2>2 DEF CacheSet
<1>10. ASSUME NEW r \in Reqs, CacheGet(r) PROVE TypeOK'
  <2>1. Cached(KeyOf(r)) \in Results \cup {NoEntry}
    BY DEF Cached, CacheTyped, KeyOf, make_key, Keys, RequestsTyped, Request
  <2> DEFINE found == Cached(KeyOf(r))
             miss == [req[r] EXCEPT !.pc = "retrieve"]
             hit == [req[r] EXCEPT !.pc = "log", !.results = found, !.hit = TRUE]
  <2>2. miss \in Request /\ (found # NoEntry => hit \in Request)
    BY <2>1 DEF RequestsTyped, Request, Working
  <2>3. req' = IF found = NoEntry THEN [req EXCEPT ![r] = miss] ELSE [req EXCEPT ![r] = hit]
    BY <1>10 DEF CacheGet
  <2>4. RequestsTyped'
    <3> HIDE DEF found, miss, hit
    <3>1. QED
      BY <2>2, <2>3 DEF RequestsTyped
  <2>5. QED
    BY <1>10, <2>4 DEF CacheGet
<1>11. ASSUME NEW r \in Reqs, LogQuery(r) PROVE TypeOK'
  <2>1. Failed(req[r], "DBAPIError") \in Request
    BY FailedTyped DEF RequestsTyped, Outcomes
  <2>2. UNCHANGED dbVars
    BY <1>11 DEF LogQuery, LogFails, FlushQuery
  <2>3. CASE LogFails(r, "DBAPIError")
    <3>1. RequestsTyped'
      BY <2>1, <2>3 DEF LogFails, Fail, RequestsTyped
    <3>2. QED
      BY <1>11, <2>2, <3>1 DEF LogQuery
  <2>4. CASE FlushQuery(r)
    <3>1. RequestsTyped'
      BY <2>4 DEF FlushQuery, RequestsTyped, Request, Working
    <3>2. QED
      BY <1>11, <2>2, <3>1 DEF LogQuery
  <2>5. QED
    BY <1>11, <2>3, <2>4 DEF LogQuery
<1>12. ASSUME NEW r \in Reqs, LogResults(r) PROVE TypeOK'
  <2>1. \A error \in Outcomes : Failed(req[r], error) \in Request
    BY FailedTyped DEF RequestsTyped
  <2>2. RequestsTyped'
    <3>1. CASE \E error \in Outcomes : Fail(r, error)
      BY <2>1, <3>1 DEF Fail, RequestsTyped
    <3>2. CASE req' = [req EXCEPT ![r].pc = "answer", ![r].tx = "none"]
      BY <3>2 DEF RequestsTyped, Request, Working, TxStates
    <3>3. QED
      BY <1>12, <3>1, <3>2 DEF LogResults, LogFails, Committed, Outcomes
  <2>3. DatabaseTyped'
    <3>1. CASE UNCHANGED dbVars
      BY <3>1
    <3>2. CASE /\ search_queries' = [search_queries EXCEPT ![r] = req[r].text]
               /\ search_results' = [search_results EXCEPT ![r] = req[r].results]
               /\ queryTexts' = queryTexts \cup {req[r].text}
               /\ UNCHANGED <<documents, embeddings>>
      BY <3>2 DEF RequestsTyped, DatabaseTyped, Request
    <3>3. QED
      BY <1>12, <3>1, <3>2 DEF LogResults, LogFails
  <2>4. FaultsTyped'
    BY <1>12 DEF LogResults, LogFails, Committed, FaultsTyped
  <2>5. QED
    BY <1>12, <2>2, <2>3, <2>4 DEF LogResults
<1>13. ASSUME NEW r \in Reqs, Answer(r) PROVE TypeOK'
  <2>1. RequestsTyped'
    BY <1>13 DEF Answer, RequestsTyped, Request, Outcomes
  <2>2. QED
    BY <1>13, <2>1 DEF Answer
<1>14. QED
  BY <1>1, <1>2, <1>3, <1>4, <1>5, <1>6, <1>7, <1>8, <1>9, <1>10, <1>11, <1>12, <1>13 DEF Step

\* So do those of the background task and of the seed script.
LEMMA TaskStepsTyped ==
    ASSUME TypeOK, WarmStart \/ WarmStep \/ WarmDrop \/ SeedStart \/ SeedStep \/ SeedCrash
    PROVE  TypeOK'
<1> USE UnchangedTyped DEF TypeOK
<1>1. CASE WarmStart
  <2>1. PICK n \in 1 .. WarmLimit : \E queue \in [1 .. n -> queryTexts] :
            warm' = [warm EXCEPT !.pc = "next", !.queue = queue]
    BY <1>1 DEF WarmStart
  <2>2. n \in Nat
    BY <2>1, CutsAreNat
  <2>3. \A queue \in [1 .. n -> queryTexts] : queue \in Seq(Texts)
    BY <2>2 DEF DatabaseTyped
  <2>4. WarmTyped'
    BY <2>1, <2>3 DEF WarmTyped, WarmTask
  <2>5. QED
    BY <1>1, <2>4 DEF WarmStart
<1>2. CASE WarmSearch
  <2>1. Head(warm.queue) \in Texts /\ Tail(warm.queue) \in Seq(Texts)
    BY <1>2, HeadTailProperties DEF WarmSearch, WarmTyped, WarmTask
  <2>2. \A rows \in NearestDocs(Head(warm.queue), WarmTopK) : rows \in Results
    BY <2>1, CutsAreNat, RetrievedTyped
  <2>3. WarmTyped'
    BY <1>2, <2>1, <2>2 DEF WarmSearch, Found, TxAfterSelect, WarmTyped, WarmTask, TxStates
  <2>4. QED
    BY <1>2, <2>3 DEF WarmSearch
<1>3. CASE WarmSet
  <2>1. Tail(warm.queue) \in Seq(Texts)
    BY <1>3, HeadTailProperties DEF WarmSet, WarmTyped, WarmTask
  <2>2. CacheTyped'
    BY <1>3 DEF WarmSet, CacheAfterSet, CacheTyped, WarmTyped, WarmTask
  <2>3. WarmTyped'
    BY <1>3, <2>1 DEF WarmSet, WarmTyped, WarmTask
  <2>4. QED
    BY <1>3, <2>2, <2>3 DEF WarmSet
<1>4. CASE WarmEnd
  BY <1>4, NoWarmingTyped DEF WarmEnd
<1>5. CASE WarmDrop
  <2>1. WarmTyped' /\ FaultsTyped'
    BY <1>5 DEF WarmDrop, WarmTyped, WarmTask, TxStates, FaultsTyped
  <2>2. QED
    BY <1>5, <2>1 DEF WarmDrop
<1>6. CASE SeedStart
  <2>1. SeedTyped'
    BY <1>6, CorporaAreDocs DEF SeedStart, SeedTyped, SeedRun
  <2>2. QED
    BY <1>6, <2>1 DEF SeedStart
<1>7. CASE SeedTruncate
  <2>1. DatabaseTyped'
    BY <1>7 DEF SeedTruncate, Truncate, DatabaseTyped, Results
  <2>2. SeedTyped'
    BY <1>7 DEF SeedTruncate, SeedTyped, SeedRun
  <2>3. QED
    BY <1>7, <2>1, <2>2 DEF SeedTruncate
<1>8. CASE SeedDocuments
  <2>1. PICK batch \in SUBSET seed.todo :
          /\ documents' = documents \cup batch
          /\ seed' = IF batch = seed.todo
                     THEN [seed EXCEPT !.pc = "embeddings", !.todo = seed.corpus]
                     ELSE [seed EXCEPT !.todo = @ \ batch]
    BY <1>8 DEF SeedDocuments, Batches
  <2>2. DatabaseTyped'
    BY <1>8, <2>1 DEF SeedDocuments, DatabaseTyped, SeedTyped, SeedRun
  <2>3. SeedTyped'
    BY <2>1 DEF SeedTyped, SeedRun
  <2>4. QED
    BY <1>8, <2>2, <2>3 DEF SeedDocuments
<1>9. CASE SeedEmbeddings
  <2>1. PICK batch \in SUBSET seed.todo :
          /\ embeddings' = embeddings \cup batch
          /\ seed' = [seed EXCEPT !.pc = IF batch = seed.todo THEN "done" ELSE @,
                                  !.todo = @ \ batch]
    BY <1>9 DEF SeedEmbeddings, Batches
  <2>2. DatabaseTyped'
    BY <1>9, <2>1 DEF SeedEmbeddings, DatabaseTyped, SeedTyped, SeedRun
  <2>3. SeedTyped'
    BY <2>1 DEF SeedTyped, SeedRun
  <2>4. QED
    BY <1>9, <2>2, <2>3 DEF SeedEmbeddings
<1>10. CASE SeedCrash
  <2>1. SeedTyped' /\ FaultsTyped'
    BY <1>10 DEF SeedCrash, SeedTyped, SeedRun, FaultsTyped
  <2>2. QED
    BY <1>10, <2>1 DEF SeedCrash
<1>11. QED
  BY <1>1, <1>2, <1>3, <1>4, <1>5, <1>6, <1>7, <1>8, <1>9, <1>10
     DEF WarmStep, SeedStep

LEMMA NextTyped == TypeOK /\ [Next]_vars => TypeOK'
<1>1. TypeOK /\ UNCHANGED vars => TypeOK'
  BY UnchangedTyped DEF TypeOK, vars
<1>2. QED
  BY <1>1, RequestStepsTyped, TaskStepsTyped DEF Next

\* Every state of the service has the types of TypeOK.
THEOREM Typing == Spec => []TypeOK
<1>1. QED
  BY InitTyped, NextTyped, PTL DEF Spec

-----------------------------------------------------------------------------
(* Safety.  Inv is inductive; its parts are proved three groups at a time. *)

LEMMA InitSafe == Init => Inv
<1> SUFFICES ASSUME Init PROVE Inv
  OBVIOUS
<1>1. TypeOK
  BY InitTyped
<1>2. TxDiscipline /\ LiveResultsExist /\ StaleOnlyFromCache /\ LogIsAtomic
  BY DEF Init, NoWarming, TxDiscipline, LiveResultsExist, StaleOnlyFromCache, LogIsAtomic
<1>3. SeedProgress /\ SeedComplete
  BY DEF Init, SeedProgress, SeedComplete
<1>4. NothingLate
  BY DEF Init, NothingLate
<1>5. QED
  BY <1>1, <1>2, <1>3, <1>4 DEF Inv

\* What a step of request r leaves of the other requests.
LEMMA OthersUntouched ==
    ASSUME TypeOK, NEW r \in Reqs, NEW q, req' = [req EXCEPT ![r] = q]
    PROVE  req'[r] = q /\ \A p \in Reqs \ {r} : req'[p] = req[p]
BY DEF TypeOK, RequestsTyped

Transactional == TxDiscipline /\ LiveResultsExist /\ StaleOnlyFromCache

\* A step that changes one request only, and keeps what that request holds in the
\* corpus, keeps the transactional part of the invariant.
LEMMA OneRequestStep ==
    ASSUME Inv, NEW r \in Reqs, NEW q, req' = [req EXCEPT ![r] = q],
           UNCHANGED <<documents, warm>>, drops' = 0 => drops = 0,
           q.pc = "get" => q.tx # "open",
           q.pc \in {"rerank", "set"} => q.tx # "none",
           q.pc \in {"log", "insert"} /\ ~q.hit => q.tx # "none",
           q.pc = "answer" => q.tx = "none",
           drops = 0 => q.tx # "dropped",
           q.tx = "open" => ToSet(q.results) \subseteq documents,
           q.pc = "IntegrityError" => q.hit
    PROVE  Transactional'
<1>1. req'[r] = q /\ \A p \in Reqs \ {r} : req'[p] = req[p]
  BY OthersUntouched DEF Inv
<1>2. QED
  BY <1>1 DEF Inv, Transactional, TxDiscipline, LiveResultsExist, StaleOnlyFromCache

LEMMA FailedSafe ==
    ASSUME Inv, NEW r \in Reqs, NEW error, Fail(r, error),
           error \in Outcomes, error = "IntegrityError" => req[r].hit,
           UNCHANGED <<documents, warm>>, drops' = 0 => drops = 0
    PROVE  Transactional'
<1> DEFINE q == Failed(req[r], error)
<1>1. req[r] \in Request
  BY DEF Inv, TypeOK, RequestsTyped
<1>2. q.pc = error /\ q.tx = "none" /\ q.hit = req[r].hit
  BY <1>1 DEF Failed, Request
<1>3. req' = [req EXCEPT ![r] = q]
  BY DEF Fail
<1> HIDE DEF q
<1>4. QED
  BY <1>2, <1>3, OneRequestStep DEF Outcomes

\* The steps of a request keep the transactional part.
LEMMA RequestStepTransactional ==
    ASSUME Inv, NEW r \in Reqs, Arrive(r) \/ DropConnection(r) \/ Step(r)
    PROVE  Transactional'
<1>0. TypeOK /\ req[r] \in Request
  BY DEF Inv, TypeOK, RequestsTyped
<1>1. CASE Arrive(r)
  <2>1. PICK m \in Methods, t \in Texts, k \in TopKs :
          req' = [req EXCEPT ![r] =
            [pc |-> "get", method |-> m, text |-> t, top_k |-> k, results |-> <<>>,
             hit |-> FALSE, tx |-> "none"]]
    BY <1>1 DEF Arrive
  <2> DEFINE q == [pc |-> "get", method |-> m, text |-> t, top_k |-> k, results |-> <<>>,
                   hit |-> FALSE, tx |-> "none"]
  <2>2. q.pc = "get" /\ q.tx = "none"
    OBVIOUS
  <2>3. req' = [req EXCEPT ![r] = q] /\ UNCHANGED <<documents, warm, drops>>
    BY <1>1, <2>1 DEF Arrive, faults
  <2> HIDE DEF q
  <2>4. QED
    BY <2>2, <2>3, OneRequestStep
<1>2. CASE DropConnection(r)
  <2>1. /\ req'[r].tx = "dropped" /\ req'[r].pc = req[r].pc /\ req'[r].hit = req[r].hit
        /\ \A p \in Reqs \ {r} : req'[p] = req[p]
    BY <1>0, <1>2 DEF DropConnection, TypeOK, RequestsTyped, Request
  <2>2. UNCHANGED <<documents, warm>> /\ drops' # 0
    BY <1>0, <1>2 DEF DropConnection, dbVars, TypeOK, FaultsTyped
  <2>3. /\ req[r].pc # "answer"
        /\ \A p \in Reqs : req'[p].pc = req[p].pc /\ req'[p].hit = req[p].hit
    BY <1>2, <2>1 DEF DropConnection
  <2>4. TxDiscipline'
    BY <2>1, <2>2, <2>3 DEF Inv, TxDiscipline
  <2>5. LiveResultsExist' /\ StaleOnlyFromCache'
    BY <2>1, <2>2, <2>3 DEF Inv, LiveResultsExist, StaleOnlyFromCache
  <2>6. QED
    BY <2>4, <2>5 DEF Transactional
<1>3. CASE Retrieve(r)
  <2>1. UNCHANGED <<documents, warm, drops>>
    BY <1>3 DEF Retrieve, dbVars, faults
  <2>2. CASE Fail(r, "DBAPIError")
    BY <2>1, <2>2, FailedSafe DEF Outcomes
  <2>3. CASE \E rows \in NearestDocs(req[r].text, DensePool(r)),
                pc \in {"set", "rerank"} :
               req' = [req EXCEPT ![r].pc = pc, ![r].results = rows, ![r].tx = "open"]
    <3>1. PICK rows \in NearestDocs(req[r].text, DensePool(r)), pc \in {"set", "rerank"} :
               req' = [req EXCEPT ![r].pc = pc, ![r].results = rows, ![r].tx = "open"]
      BY <2>3
    <3>2. ToSet(rows) \subseteq documents
      BY <1>0, RetrievedTyped, PoolsTyped DEF Request
    <3> DEFINE q == [req[r] EXCEPT !.pc = pc, !.results = rows, !.tx = "open"]
    <3>3. q.pc = pc /\ q.results = rows /\ q.tx = "open"
      BY <1>0 DEF Request
    <3>4. req' = [req EXCEPT ![r] = q]
      BY <3>1
    <3> HIDE DEF q
    <3>5. QED
      BY <2>1, <3>2, <3>3, <3>4, OneRequestStep
  <2>4. QED
    BY <1>3, <2>2, <2>3 DEF Retrieve, TxAfterSelect
<1>4. CASE Rerank(r)
  <2>1. UNCHANGED <<documents, warm, drops>>
    BY <1>4 DEF Rerank, dbVars, faults
  <2>2. CASE Fail(r, "DBAPIError") \/ Fail(r, "KeyError")
    BY <2>1, <2>2, FailedSafe DEF Outcomes
  <2>3. CASE \E candidates \in Candidates(r) :
               /\ \/ candidates \ ToSet(req[r].results) = {}
                  \/ candidates \ ToSet(req[r].results)
                       = Fetched(candidates \ ToSet(req[r].results))
               /\ \E rows \in Highest(candidates, CrossScore[req[r].text],
                                      req[r].top_k) :
                     req' = [req EXCEPT ![r].pc = "set", ![r].results = rows]
    <3>0. PICK candidates \in Candidates(r) :
               /\ candidates \subseteq ToSet(req[r].results) \cup documents
               /\ \E rows \in Highest(candidates, CrossScore[req[r].text],
                                      req[r].top_k) :
                     req' = [req EXCEPT ![r].pc = "set", ![r].results = rows]
      BY <2>3 DEF Fetched
    <3>1. PICK rows \in Highest(candidates, CrossScore[req[r].text], req[r].top_k) :
               req' = [req EXCEPT ![r].pc = "set", ![r].results = rows]
      BY <3>0
    <3>2. ToSet(rows) \subseteq candidates
      BY <1>0, RerankTyped
    <3>3. req[r].tx = "open" => ToSet(req[r].results) \subseteq documents
      BY DEF Inv, LiveResultsExist
    <3> DEFINE q == [req[r] EXCEPT !.pc = "set", !.results = rows]
    <3>4. q.pc = "set" /\ q.results = rows /\ q.tx = req[r].tx
      BY <1>0 DEF Request
    <3>5. req[r].tx # "none" /\ (drops = 0 => req[r].tx # "dropped")
      BY <1>4 DEF Rerank, Inv, TxDiscipline
    <3>6. req' = [req EXCEPT ![r] = q]
      BY <3>1
    <3>7. q.tx = "open" => ToSet(q.results) \subseteq documents
      BY <3>0, <3>2, <3>3, <3>4
    <3> HIDE DEF q
    <3>8. QED
      BY <2>1, <3>4, <3>5, <3>6, <3>7, OneRequestStep
  <2>4. QED
    BY <1>4, <2>2, <2>3 DEF Rerank
<1>5. CASE CacheSet(r)
  <2>1. UNCHANGED <<documents, warm, drops>>
    BY <1>5 DEF CacheSet, dbVars, faults
  <2> DEFINE q == [req[r] EXCEPT !.pc = "log"]
  <2>2. q.pc = "log" /\ q.results = req[r].results /\ q.tx = req[r].tx
    BY <1>0 DEF Request
  <2>3. req' = [req EXCEPT ![r] = q]
    BY <1>5 DEF CacheSet
  <2>4. /\ req[r].tx # "none" /\ (drops = 0 => req[r].tx # "dropped")
        /\ req[r].tx = "open" => ToSet(req[r].results) \subseteq documents
    BY <1>5 DEF CacheSet, Inv, TxDiscipline, LiveResultsExist
  <2> HIDE DEF q
  <2>5. QED
    BY <2>1, <2>2, <2>3, <2>4, OneRequestStep
<1>6. CASE CacheGet(r)
  <2>1. UNCHANGED <<documents, warm, drops>>
    BY <1>6 DEF CacheGet, dbVars, faults
  <2>2. req[r].tx = "none" \/ req[r].tx = "dropped" \/ req[r].tx = "open"
    BY <1>0 DEF Request, TxStates
  <2> DEFINE found == Cached(KeyOf(r))
             miss == [req[r] EXCEPT !.pc = "retrieve"]
             hit == [req[r] EXCEPT !.pc = "log", !.results = found, !.hit = TRUE]
  <2>3. /\ miss.pc = "retrieve" /\ miss.tx = req[r].tx /\ miss.results = req[r].results
        /\ hit.pc = "log" /\ hit.hit = TRUE /\ hit.tx = req[r].tx
    BY <1>0 DEF Request
  <2>4. req' = [req EXCEPT ![r] = miss] \/ req' = [req EXCEPT ![r] = hit]
    BY <1>6 DEF CacheGet
  <2>5. /\ drops = 0 => req[r].tx # "dropped"
        /\ req[r].tx # "open"
    BY <1>6 DEF CacheGet, Inv, TxDiscipline
  <2>6. req[r].tx = "open" => ToSet(req[r].results) \subseteq documents
    BY DEF Inv, LiveResultsExist
  <2> HIDE DEF miss, hit
  <2>7. QED
    BY <2>1, <2>3, <2>4, <2>5, <2>6, OneRequestStep
<1>7. CASE LogQuery(r)
  <2>1. UNCHANGED <<documents, warm, drops>>
    BY <1>7 DEF LogQuery, LogFails, FlushQuery, dbVars, faults
  <2>2. CASE LogFails(r, "DBAPIError")
    BY <2>1, <2>2, FailedSafe DEF LogFails, Outcomes
  <2>3. CASE FlushQuery(r)
    <3> DEFINE q == [req[r] EXCEPT !.pc = "insert"]
    <3>1. /\ q.pc = "insert" /\ q.tx = req[r].tx /\ q.results = req[r].results
          /\ q.hit = req[r].hit
      BY <1>0 DEF Request
    <3>2. req' = [req EXCEPT ![r] = q]
      BY <2>3 DEF FlushQuery
    <3>3. /\ ~req[r].hit => req[r].tx # "none"
          /\ drops = 0 => req[r].tx # "dropped"
          /\ req[r].tx = "open" => ToSet(req[r].results) \subseteq documents
      BY <1>7 DEF LogQuery, Inv, TxDiscipline, LiveResultsExist
    <3> HIDE DEF q
    <3>4. QED
      BY <2>1, <3>1, <3>2, <3>3, OneRequestStep
  <2>4. QED
    BY <1>7, <2>2, <2>3 DEF LogQuery
<1>8. CASE LogResults(r)
  <2>1. UNCHANGED <<documents, warm>> /\ (drops' = 0 => drops = 0)
    BY <1>0, <1>8 DEF LogResults, LogFails, Committed, dbVars, TypeOK, FaultsTyped
  <2>2. CASE Fail(r, "DBAPIError")
    BY <2>1, <2>2, FailedSafe DEF Outcomes
  <2>3. CASE /\ LogFails(r, "IntegrityError")
             /\ MayLog(r) /\ ~(ToSet(req[r].results) \subseteq documents)
    <3>1. req[r].tx = "none"
      BY <2>3 DEF MayLog, MayLockCorpus, Inv, LiveResultsExist
    <3>2. req[r].hit
      BY <1>8, <3>1 DEF LogResults, Inv, TxDiscipline
    <3>3. QED
      BY <2>1, <2>3, <3>2, FailedSafe DEF LogFails, Outcomes
  <2>4. CASE req' = [req EXCEPT ![r].pc = "answer", ![r].tx = "none"]
    <3> DEFINE q == [req[r] EXCEPT !.pc = "answer", !.tx = "none"]
    <3>1. q.pc = "answer" /\ q.tx = "none"
      BY <1>0 DEF Request
    <3>2. req' = [req EXCEPT ![r] = q]
      BY <2>4
    <3> HIDE DEF q
    <3>3. QED
      BY <2>1, <3>1, <3>2, OneRequestStep
  <2>5. QED
    BY <1>8, <2>2, <2>3, <2>4 DEF LogResults, LogFails, Committed
<1>9. CASE Answer(r)
  <2>1. UNCHANGED <<documents, warm, drops>> /\ req[r].pc = "answer"
    BY <1>9 DEF Answer, dbVars, faults
  <2> DEFINE q == [req[r] EXCEPT !.pc = "ok"]
  <2>2. q.pc = "ok" /\ q.tx = req[r].tx
    BY <1>0 DEF Request
  <2>3. req' = [req EXCEPT ![r] = q]
    BY <1>9 DEF Answer
  <2>4. req[r].tx = "none"
    BY <2>1 DEF Inv, TxDiscipline
  <2> HIDE DEF q
  <2>5. QED
    BY <2>1, <2>2, <2>3, <2>4, OneRequestStep
<1>10. QED
  BY <1>1, <1>2, <1>3, <1>4, <1>5, <1>6, <1>7, <1>8, <1>9 DEF Step

LEMMA TransactionalPreserved == Inv /\ [Next]_vars => Transactional'
<1> SUFFICES ASSUME Inv, [Next]_vars PROVE Transactional'
  OBVIOUS
<1>0. TypeOK
  BY DEF Inv
<1> USE DEF Transactional, TxDiscipline, LiveResultsExist, StaleOnlyFromCache
<1>1. CASE UNCHANGED <<documents, req, warm, drops>>
  BY <1>1 DEF Inv
<1>2. CASE Crash
  <2>1. \A r \in Reqs : /\ req[r].pc \in Working =>
                              req'[r].pc = "lost" /\ req'[r].tx = "none"
                        /\ req[r].pc \notin Working => req'[r] = req[r]
    BY <1>0, <1>2 DEF Crash, Failed, TypeOK, RequestsTyped, Request
  <2>2. UNCHANGED <<documents, drops>> /\ warm' = NoWarming
    BY <1>2 DEF Crash, dbVars
  <2>3. QED
    BY <2>1, <2>2 DEF Inv, NoWarming, Working
<1>3. ASSUME NEW r \in Reqs, Arrive(r) \/ DropConnection(r) \/ Step(r)
      PROVE  Transactional'
  BY <1>3, RequestStepTransactional
<1>4. CASE WarmSearch
  <2>1. UNCHANGED <<documents, req, drops>>
    BY <1>4 DEF WarmSearch, dbVars, faults
  <2>2. CASE warm' = [warm EXCEPT !.queue = Tail(@)] /\ warm.pc = "next"
    BY <1>0, <2>1, <2>2 DEF Inv, TypeOK, WarmTyped, WarmTask
  <2>3. CASE \E rows \in NearestDocs(Head(warm.queue), WarmTopK) : warm' = Found(rows)
    <3>1. Head(warm.queue) \in Texts
      BY <1>0, <1>4, HeadTailProperties DEF WarmSearch, TypeOK, WarmTyped, WarmTask
    <3>2. PICK rows \in NearestDocs(Head(warm.queue), WarmTopK) : warm' = Found(rows)
      BY <2>3
    <3>3. ToSet(rows) \subseteq documents
      BY <1>0, <3>1, RetrievedTyped, CutsAreNat
    <3>4. warm'.results = rows /\ warm'.tx = "open"
      BY <1>0, <3>2 DEF Found, TxAfterSelect, TypeOK, WarmTyped, WarmTask
    <3>5. QED
      BY <2>1, <3>3, <3>4 DEF Inv
  <2>4. QED
    BY <1>4, <2>2, <2>3 DEF WarmSearch
<1>5. CASE WarmStart \/ WarmSet
  <2>1. UNCHANGED <<documents, req, drops>> /\ warm'.pc = "next" /\ warm'.tx = warm.tx
    BY <1>0, <1>5 DEF WarmStart, WarmSet, dbVars, faults, TypeOK, WarmTyped, WarmTask
  <2>2. QED
    BY <2>1 DEF Inv
<1>6. CASE WarmEnd
  BY <1>6 DEF WarmEnd, NoWarming, dbVars, faults, Inv
<1>7. CASE WarmDrop
  <2>1. UNCHANGED <<documents, req>> /\ warm'.tx = "dropped" /\ drops' # 0
    BY <1>0, <1>7 DEF WarmDrop, dbVars, TypeOK, WarmTyped, WarmTask, FaultsTyped
  <2>2. QED
    BY <2>1 DEF Inv
<1>8. CASE SeedTruncate
  BY <1>8 DEF SeedTruncate, CorpusInUse, faults, Inv
<1>9. CASE SeedDocuments
  <2>1. documents \subseteq documents' /\ UNCHANGED <<req, warm, drops>>
    BY <1>9 DEF SeedDocuments, faults
  <2>2. QED
    BY <2>1 DEF Inv
<1>10. QED
  <2> HIDE DEF Transactional, TxDiscipline, LiveResultsExist, StaleOnlyFromCache
  <2>1. (\/ Boot \/ RedisTurns \/ LateWrite \/ (\E key \in Keys : Expire(key))
         \/ SeedStart \/ SeedEmbeddings \/ SeedCrash \/ UNCHANGED vars)
           => Transactional'
    BY <1>1 DEF Boot, RedisTurns, LateWrite, Expire, SeedStart, SeedEmbeddings, SeedCrash,
                dbVars, faults, vars
  <2>2. WarmStart \/ WarmStep \/ SeedStep => \/ Transactional' \/ SeedEmbeddings
    BY <1>4, <1>5, <1>6, <1>8, <1>9 DEF WarmStep, SeedStep
  <2>3. QED
    BY <1>2, <1>3, <1>7, <2>1, <2>2 DEF Next

\* The rows of a request come with its COMMIT, all at once, and stay until its slot is
\* taken again.
LEMMA LogPreserved == Inv /\ [Next]_vars => LogIsAtomic'
<1> SUFFICES ASSUME Inv, [Next]_vars PROVE LogIsAtomic'
  OBVIOUS
<1>0. TypeOK /\ LogIsAtomic
  BY DEF Inv
<1> DEFINE Atomic(pc, results, query, rows, crashed, dropped) ==
        /\ pc \in {"answer", "ok"} => query # NoRow /\ rows \in {<<>>, results}
        /\ query # NoRow => \/ pc \in {"answer", "ok"}
                            \/ pc = "lost" /\ crashed > 0
                            \/ pc = "DBAPIError" /\ dropped > 0
        /\ query = NoRow => rows = <<>>
<1>1. \A r \in Reqs : Atomic(req[r].pc, req[r].results, search_queries[r],
                             search_results[r], crashes, drops)
  BY <1>0 DEF LogIsAtomic
<1>2. SUFFICES \A r \in Reqs : Atomic(req'[r].pc, req'[r].results, search_queries'[r],
                                      search_results'[r], crashes', drops')
  BY DEF LogIsAtomic
<1>3. crashes' >= crashes /\ drops' >= drops /\ crashes' \in Nat /\ drops' \in Nat
  <2>1. UNCHANGED faults \/ Crash \/ WarmDrop \/ SeedCrash
          \/ \E r \in Reqs : DropConnection(r) \/ LogResults(r)
    BY DEF Next, Step, WarmStep, SeedStep, Boot, RedisTurns, LateWrite, Expire, Arrive,
           CacheGet, Retrieve, Rerank, CacheSet, LogQuery, Answer, WarmStart, WarmSearch,
           WarmSet, WarmEnd, SeedStart, SeedTruncate, SeedDocuments, SeedEmbeddings, vars
  <2>2. crashes \in Nat /\ drops \in Nat
    BY <1>0 DEF TypeOK, FaultsTyped
  <2>3. Crash \/ SeedCrash => crashes' = crashes + 1 /\ drops' = drops
    BY DEF Crash, SeedCrash
  <2>4. ASSUME NEW r \in Reqs, LogResults(r)
        PROVE  crashes' = crashes /\ (drops' = drops \/ drops' = drops + 1)
    BY <2>4 DEF LogResults, Committed
  <2>5. ASSUME NEW r \in Reqs, DropConnection(r)
        PROVE  crashes' = crashes /\ drops' = drops + 1
    BY <2>5 DEF DropConnection
  <2>6. WarmDrop => crashes' = crashes /\ drops' = drops + 1
    BY DEF WarmDrop
  <2>7. UNCHANGED faults => crashes' = crashes /\ drops' = drops
    BY DEF faults
  <2>8. /\ crashes' = crashes \/ crashes' = crashes + 1
        /\ drops' = drops \/ drops' = drops + 1
    BY <2>1, <2>3, <2>4, <2>5, <2>6, <2>7
  <2>9. QED
    BY <2>2, <2>8
<1>4. ASSUME NEW r \in Reqs, req'[r] = req[r], search_queries'[r] = search_queries[r],
             search_results'[r] \in {search_results[r], <<>>}
      PROVE  Atomic(req'[r].pc, req'[r].results, search_queries'[r], search_results'[r],
                    crashes', drops')
  BY <1>0, <1>1, <1>3, <1>4 DEF TypeOK, FaultsTyped
<1>5. CASE SeedTruncate
  BY <1>0, <1>4, <1>5 DEF SeedTruncate, Truncate, TypeOK, DatabaseTyped
<1>6. CASE UNCHANGED <<req, search_queries, search_results>>
  BY <1>4, <1>6
<1>7. CASE Crash
  <2>1. \A r \in Reqs : /\ req[r].pc \in Working => req'[r].pc = "lost"
                        /\ req[r].pc \notin Working => req'[r] = req[r]
    BY <1>0, <1>7 DEF Crash, Failed, TypeOK, RequestsTyped, Request
  <2>2. UNCHANGED <<search_queries, search_results>> /\ crashes' > 0
    BY <1>0, <1>7 DEF Crash, dbVars, TypeOK, FaultsTyped
  <2>3. QED
    BY <1>1, <1>4, <2>1, <2>2 DEF Working
<1>8. ASSUME NEW r \in Reqs, NEW q, req' = [req EXCEPT ![r] = q],
             UNCHANGED <<search_queries, search_results>>,
             search_queries[r] # NoRow => q.pc = "ok" /\ req[r].pc = "answer"
                                            /\ q.results = req[r].results,
             search_queries[r] = NoRow => q.pc \notin {"answer", "ok"}
      PROVE  \A p \in Reqs : Atomic(req'[p].pc, req'[p].results, search_queries'[p],
                                    search_results'[p], crashes', drops')
  <2>1. req'[r] = q /\ \A p \in Reqs \ {r} : req'[p] = req[p]
    BY <1>0, <1>8, OthersUntouched
  <2>2. QED
    BY <1>1, <1>4, <1>8, <2>1
<1>9. \A r \in Reqs : req[r].pc \in Working \ {"answer"} => search_queries[r] = NoRow
  BY <1>1 DEF Working
<1>10. ASSUME NEW r \in Reqs, Arrive(r)
       PROVE  \A p \in Reqs : Atomic(req'[p].pc, req'[p].results, search_queries'[p],
                                     search_results'[p], crashes', drops')
  <2>1. req'[r].pc = "get" /\ \A p \in Reqs \ {r} : req'[p] = req[p]
    BY <1>0, <1>10 DEF Arrive, TypeOK, RequestsTyped
  <2>2. /\ search_queries'[r] = NoRow /\ search_results'[r] = <<>>
        /\ \A p \in Reqs \ {r} : /\ search_queries'[p] = search_queries[p]
                                 /\ search_results'[p] = search_results[p]
    BY <1>0, <1>10 DEF Arrive, TypeOK, DatabaseTyped
  <2>3. QED
    BY <1>4, <2>1, <2>2
<1>11. ASSUME NEW r \in Reqs, NEW error \in {"DBAPIError", "KeyError", "IntegrityError"},
              Fail(r, error), UNCHANGED <<search_queries, search_results>>,
              req[r].pc \in Working \ {"answer"}
       PROVE  \A p \in Reqs : Atomic(req'[p].pc, req'[p].results, search_queries'[p],
                                     search_results'[p], crashes', drops')
  <2>1. Failed(req[r], error).pc = error
    BY <1>0 DEF Failed, TypeOK, RequestsTyped, Request
  <2>2. QED
    BY <1>8, <1>9, <1>11, <2>1 DEF Fail
<1>12. ASSUME NEW r \in Reqs,
              \/ DropConnection(r) \/ CacheGet(r) \/ Retrieve(r) \/ Rerank(r)
              \/ CacheSet(r) \/ LogQuery(r)
       PROVE  \A p \in Reqs : Atomic(req'[p].pc, req'[p].results, search_queries'[p],
                                     search_results'[p], crashes', drops')
  <2>1. /\ UNCHANGED <<search_queries, search_results>>
        /\ req[r].pc \in Working \ {"answer"}
    BY <1>12 DEF DropConnection, CacheGet, Retrieve, Rerank, CacheSet, LogQuery, LogFails,
                 FlushQuery, dbVars, Working
  <2>2. ASSUME NEW q, req' = [req EXCEPT ![r] = q], q.pc \in Working \ {"answer"}
        PROVE  \A p \in Reqs : Atomic(req'[p].pc, req'[p].results, search_queries'[p],
                                      search_results'[p], crashes', drops')
    BY <1>8, <1>9, <2>1, <2>2 DEF Working
  <2>3. req[r] \in Request
    BY <1>0 DEF TypeOK, RequestsTyped
  <2>4. CASE DropConnection(r)
    <3>1. [req[r] EXCEPT !.tx = "dropped"].pc = req[r].pc
      BY <2>3 DEF Request
    <3>2. QED
      BY <2>1, <2>2, <2>4, <3>1 DEF DropConnection
  <2>5. CASE CacheGet(r)
    <3> DEFINE found == Cached(KeyOf(r))
               miss == [req[r] EXCEPT !.pc = "retrieve"]
               hit == [req[r] EXCEPT !.pc = "log", !.results = found, !.hit = TRUE]
    <3>1. miss.pc = "retrieve" /\ hit.pc = "log"
      BY <2>3 DEF Request
    <3>2. req' = [req EXCEPT ![r] = miss] \/ req' = [req EXCEPT ![r] = hit]
      BY <2>5 DEF CacheGet
    <3> HIDE DEF miss, hit
    <3>3. QED
      BY <2>2, <3>1, <3>2 DEF Working
  <2>6. CASE Retrieve(r)
    <3>1. ASSUME NEW rows, NEW pc \in {"set", "rerank"},
                 req' = [req EXCEPT ![r].pc = pc, ![r].results = rows, ![r].tx = "open"]
          PROVE  \A p \in Reqs : Atomic(req'[p].pc, req'[p].results, search_queries'[p],
                                        search_results'[p], crashes', drops')
      <4> DEFINE q == [req[r] EXCEPT !.pc = pc, !.results = rows, !.tx = "open"]
      <4>1. q.pc = pc
        BY <2>3 DEF Request
      <4>2. req' = [req EXCEPT ![r] = q]
        BY <3>1
      <4> HIDE DEF q
      <4>3. QED
        BY <2>2, <4>1, <4>2 DEF Working
    <3>2. QED
      BY <1>11, <2>1, <2>6, <3>1 DEF Retrieve, TxAfterSelect
  <2>7. CASE Rerank(r)
    <3>1. ASSUME NEW rows, req' = [req EXCEPT ![r].pc = "set", ![r].results = rows]
          PROVE  \A p \in Reqs : Atomic(req'[p].pc, req'[p].results, search_queries'[p],
                                        search_results'[p], crashes', drops')
      <4> DEFINE q == [req[r] EXCEPT !.pc = "set", !.results = rows]
      <4>1. q.pc = "set"
        BY <2>3 DEF Request
      <4>2. req' = [req EXCEPT ![r] = q]
        BY <3>1
      <4> HIDE DEF q
      <4>3. QED
        BY <2>2, <4>1, <4>2 DEF Working
    <3>2. QED
      BY <1>11, <2>1, <2>7, <3>1 DEF Rerank
  <2>8. CASE CacheSet(r) \/ FlushQuery(r)
    <3>1. [req[r] EXCEPT !.pc = "log"].pc = "log" /\ [req[r] EXCEPT !.pc = "insert"].pc = "insert"
      BY <2>3 DEF Request
    <3>2. QED
      BY <2>2, <2>8, <3>1 DEF CacheSet, FlushQuery, Working
  <2>9. QED
    BY <1>11, <1>12, <2>1, <2>4, <2>5, <2>6, <2>7, <2>8 DEF LogQuery, LogFails
<1>13. ASSUME NEW r \in Reqs, LogResults(r)
       PROVE  \A p \in Reqs : Atomic(req'[p].pc, req'[p].results, search_queries'[p],
                                     search_results'[p], crashes', drops')
  <2>1. req[r].pc \in Working \ {"answer"} /\ req[r] \in Request
    BY <1>0, <1>13 DEF LogResults, Working, TypeOK, RequestsTyped
  <2>2. CASE \E error \in {"DBAPIError", "IntegrityError"} : LogFails(r, error)
    BY <1>11, <2>1, <2>2 DEF LogFails, dbVars
  <2>3. CASE /\ Committed(r)
             /\ search_queries' = [search_queries EXCEPT ![r] = req[r].text]
             /\ search_results' = [search_results EXCEPT ![r] = req[r].results]
    <3>1. /\ search_queries'[r] = req[r].text /\ search_results'[r] = req[r].results
          /\ \A p \in Reqs \ {r} : /\ search_queries'[p] = search_queries[p]
                                   /\ search_results'[p] = search_results[p]
      BY <1>0, <2>3 DEF TypeOK, DatabaseTyped
    <3>2. req[r].text # NoRow
      BY <2>1, NoRowIsNoText DEF Request
    <3>3. /\ \A p \in Reqs \ {r} : req'[p] = req[p]
          /\ \/ req'[r].pc = "answer" /\ req'[r].results = req[r].results
             \/ req'[r].pc = "DBAPIError" /\ drops' > 0
      <4>1. CASE req' = [req EXCEPT ![r].pc = "answer", ![r].tx = "none"]
        BY <1>0, <2>1, <4>1 DEF TypeOK, RequestsTyped, Request
      <4>2. CASE Fail(r, "DBAPIError") /\ drops' = drops + 1
        <5>1. Failed(req[r], "DBAPIError").pc = "DBAPIError"
          BY <2>1 DEF Failed, Request
        <5>2. drops' > 0
          BY <1>0, <4>2 DEF TypeOK, FaultsTyped
        <5>3. req' = [req EXCEPT ![r] = Failed(req[r], "DBAPIError")]
          BY <4>2 DEF Fail
        <5>4. QED
          BY <1>0, <5>1, <5>2, <5>3, OthersUntouched
      <4>3. QED
        BY <2>3, <4>1, <4>2 DEF Committed
    <3>4. QED
      BY <1>4, <3>1, <3>2, <3>3
  <2>4. QED
    BY <1>13, <2>2, <2>3 DEF LogResults
<1>14. ASSUME NEW r \in Reqs, Answer(r)
       PROVE  \A p \in Reqs : Atomic(req'[p].pc, req'[p].results, search_queries'[p],
                                     search_results'[p], crashes', drops')
  <2> DEFINE q == [req[r] EXCEPT !.pc = "ok"]
  <2>1. q.pc = "ok" /\ q.results = req[r].results
    BY <1>0 DEF TypeOK, RequestsTyped, Request
  <2>2. req' = [req EXCEPT ![r] = q] /\ UNCHANGED dbVars /\ req[r].pc = "answer"
    BY <1>14 DEF Answer
  <2>3. search_queries[r] # NoRow
    BY <1>1, <2>2
  <2> HIDE DEF q
  <2>4. QED
    BY <1>8, <2>1, <2>2, <2>3 DEF dbVars
<1>15. QED
  <2> HIDE DEF Atomic
  <2>1. (\/ Boot \/ RedisTurns \/ LateWrite \/ (\E key \in Keys : Expire(key))
         \/ WarmStart \/ WarmStep \/ WarmDrop \/ SeedStart \/ SeedDocuments
         \/ SeedEmbeddings \/ SeedCrash \/ UNCHANGED vars)
           => UNCHANGED <<req, search_queries, search_results>>
    BY DEF Boot, RedisTurns, LateWrite, Expire, WarmStart, WarmStep, WarmSearch, WarmSet,
           WarmEnd, WarmDrop, SeedStart, SeedDocuments, SeedEmbeddings, SeedCrash,
           dbVars, vars
  <2>2. QED
    BY <1>5, <1>6, <1>7, <1>10, <1>12, <1>13, <1>14, <2>1 DEF Next, Step, SeedStep

\* The tables follow the seed script, and nothing else changes the corpus.
LEMMA CorpusPreserved ==
    Inv /\ [Next]_vars => (SeedProgress /\ SeedComplete)'
<1> DEFINE Corpus == SeedProgress /\ SeedComplete
<1> SUFFICES ASSUME Inv, [Next]_vars PROVE Corpus'
  OBVIOUS
<1>0. TypeOK /\ Corpus
  BY DEF Inv
<1>1. ASSUME UNCHANGED <<documents, embeddings, seed>>
      PROVE  Corpus'
  BY <1>0, <1>1 DEF SeedProgress, SeedComplete
<1>2. ASSUME NEW r \in Reqs, Arrive(r) PROVE Corpus'
  BY <1>1, <1>2 DEF Arrive
<1>3. ASSUME NEW r \in Reqs, LogResults(r) PROVE Corpus'
  BY <1>1, <1>3 DEF LogResults, LogFails, dbVars
<1>4. CASE SeedStart
  <2>1. UNCHANGED dbVars /\ seed'.pc = "truncate" /\ seed'.todo = seed'.corpus
    BY <1>4 DEF SeedStart
  <2>2. QED
    BY <1>0, <2>1 DEF dbVars, SeedProgress, SeedComplete
<1>5. CASE SeedTruncate
  <2>1. documents' = {} /\ embeddings' = {}
    BY <1>5 DEF SeedTruncate, Truncate
  <2>2. seed'.pc = "documents" /\ seed'.todo = seed.corpus /\ seed'.corpus = seed.corpus
    BY <1>0, <1>5 DEF SeedTruncate, TypeOK, SeedTyped, SeedRun, SeedProgress
  <2>3. QED
    BY <2>1, <2>2 DEF SeedProgress, SeedComplete
<1>6. CASE SeedDocuments
  <2>1. PICK batch \in SUBSET seed.todo :
          /\ documents' = documents \cup batch
          /\ seed' = IF batch = seed.todo
                     THEN [seed EXCEPT !.pc = "embeddings", !.todo = seed.corpus]
                     ELSE [seed EXCEPT !.todo = @ \ batch]
    BY <1>6 DEF SeedDocuments, Batches
  <2>2. /\ seed.todo \subseteq seed.corpus /\ documents = seed.corpus \ seed.todo
        /\ embeddings = {}
    BY <1>0, <1>6 DEF SeedDocuments, SeedProgress
  <2>3. UNCHANGED embeddings
    BY <1>6 DEF SeedDocuments
  <2>4. CASE batch = seed.todo
    <3>1. seed'.pc = "embeddings" /\ seed'.corpus = seed.corpus /\ seed'.todo = seed.corpus
      BY <1>0, <2>1, <2>4 DEF TypeOK, SeedTyped, SeedRun
    <3>2. QED
      BY <1>0, <2>1, <2>2, <2>3, <2>4, <3>1
         DEF SeedProgress, SeedComplete
  <2>5. CASE batch # seed.todo
    <3>1. /\ seed'.pc = "documents" /\ seed'.corpus = seed.corpus
          /\ seed'.todo = seed.todo \ batch
      BY <1>0, <1>6, <2>1, <2>5 DEF SeedDocuments, TypeOK, SeedTyped, SeedRun
    <3>2. QED
      BY <1>0, <2>1, <2>2, <2>3, <3>1
         DEF SeedProgress, SeedComplete
  <2>6. QED
    BY <2>4, <2>5
<1>7. CASE SeedEmbeddings
  <2>1. PICK batch \in SUBSET seed.todo :
          /\ embeddings' = embeddings \cup batch
          /\ seed' = [seed EXCEPT !.pc = IF batch = seed.todo THEN "done" ELSE @,
                                  !.todo = @ \ batch]
    BY <1>7 DEF SeedEmbeddings, Batches
  <2>2. /\ seed.todo \subseteq seed.corpus /\ documents = seed.corpus
        /\ embeddings = seed.corpus \ seed.todo
    BY <1>0, <1>7 DEF SeedEmbeddings, SeedProgress
  <2>3. UNCHANGED documents
    BY <1>7 DEF SeedEmbeddings
  <2>4. /\ seed'.pc = IF batch = seed.todo THEN "done" ELSE "embeddings"
        /\ seed'.corpus = seed.corpus /\ seed'.todo = seed.todo \ batch
    BY <1>0, <1>7, <2>1 DEF SeedEmbeddings, TypeOK, SeedTyped, SeedRun
  <2>5. QED
    BY <1>0, <2>1, <2>2, <2>3, <2>4
       DEF SeedProgress, SeedComplete
<1>8. CASE SeedCrash
  <2>1. UNCHANGED dbVars /\ seed'.pc = "crashed"
    BY <1>0, <1>8 DEF SeedCrash, TypeOK, SeedTyped, SeedRun
  <2>2. QED
    BY <1>0, <2>1 DEF dbVars, SeedProgress, SeedComplete
<1>9. QED
  <2> HIDE DEF Corpus
  <2>1. (\/ Boot \/ Crash \/ RedisTurns \/ LateWrite \/ (\E key \in Keys : Expire(key))
         \/ WarmStart \/ WarmStep \/ WarmDrop \/ UNCHANGED vars)
           => Corpus'
    BY <1>1 DEF Boot, Crash, RedisTurns, LateWrite, Expire, WarmStart, WarmStep, WarmSearch,
                WarmSet, WarmEnd, WarmDrop, dbVars, vars
  <2>2. ASSUME NEW r \in Reqs,
               \/ DropConnection(r) \/ CacheGet(r) \/ Retrieve(r) \/ Rerank(r)
               \/ CacheSet(r) \/ LogQuery(r) \/ Answer(r)
        PROVE  Corpus'
    BY <1>1, <2>2 DEF DropConnection, CacheGet, Retrieve, Rerank, CacheSet, LogQuery,
                      LogFails, FlushQuery, Answer, dbVars
  <2>3. ASSUME NEW r \in Reqs, Arrive(r) \/ DropConnection(r) \/ Step(r) PROVE Corpus'
    BY <1>2, <1>3, <2>2, <2>3 DEF Step
  <2>4. SeedStart \/ SeedStep \/ SeedCrash => Corpus'
    BY <1>4, <1>5, <1>6, <1>7, <1>8 DEF SeedStep
  <2>5. QED
    BY <2>1, <2>3, <2>4 DEF Next

\* Only a process that has died leaves a write behind.
LEMMA NothingLatePreserved == Inv /\ [Next]_vars => NothingLate'
<1> SUFFICES ASSUME Inv, [Next]_vars PROVE NothingLate'
  OBVIOUS
<1>0. NothingLate /\ crashes \in Nat
  BY DEF Inv, TypeOK, FaultsTyped
<1>1. UNCHANGED <<late, crashes>> => NothingLate'
  BY <1>0 DEF NothingLate
<1>2. Crash \/ SeedCrash => NothingLate'
  BY <1>0 DEF Crash, SeedCrash, NothingLate
<1>3. LateWrite => NothingLate'
  BY <1>0 DEF LateWrite, NothingLate, faults
<1>4. (\/ Boot \/ RedisTurns \/ (\E key \in Keys : Expire(key))
       \/ (\E r \in Reqs : Arrive(r) \/ DropConnection(r) \/ Step(r))
       \/ WarmStart \/ WarmStep \/ WarmDrop \/ SeedStart \/ SeedStep \/ UNCHANGED vars)
         => UNCHANGED <<late, crashes>>
  BY DEF Boot, RedisTurns, Expire, Arrive, DropConnection, Step, CacheGet, Retrieve, Rerank,
         CacheSet, LogQuery, LogResults, Answer, WarmStart, WarmStep, WarmSearch, WarmSet,
         WarmEnd, WarmDrop, SeedStart, SeedStep, SeedTruncate, SeedDocuments,
         SeedEmbeddings, redisVars, faults, vars
<1>5. QED
  BY <1>1, <1>2, <1>3, <1>4 DEF Next

LEMMA InvPreserved == Inv /\ [Next]_vars => Inv'
BY NothingLatePreserved, NextTyped, TransactionalPreserved, LogPreserved, CorpusPreserved
   DEF Inv, Transactional

\* The inductive invariant holds in every state of the service.
THEOREM Invariance == Spec => []Inv
<1>1. QED
  BY InitSafe, InvPreserved, PTL DEF Spec

\* A live search never fails to log its answer for want of a document: the seed
\* script's TRUNCATE waits for it (_log_search against seed_from_existing_data).
THEOREM LiveSearchesAreLogged == Spec => []StaleOnlyFromCache
<1>1. Inv => StaleOnlyFromCache
  BY DEF Inv
<1>2. QED
  BY <1>1, Invariance, PTL

\* What a search has computed and not yet committed names only documents that are there,
\* in however many transactions and however often the corpus is replaced (_log_search).
THEOREM LiveResultsAlwaysExist == Spec => []LiveResultsExist
<1>1. Inv => LiveResultsExist
  BY DEF Inv
<1>2. QED
  BY <1>1, Invariance, PTL

\* Every answered search is in the log, whole; one in the log without an answer lost it
\* after its COMMIT, with the process or with the connection (_log_search).
THEOREM AnsweredSearchesAreLogged == Spec => []LogIsAtomic
<1>1. Inv => LogIsAtomic
  BY DEF Inv
<1>2. QED
  BY <1>1, Invariance, PTL

\* Every finished seed run leaves exactly its corpus, whatever came before it.
THEOREM SeedLoadsItsCorpus == Spec => []SeedComplete
<1>1. Inv => SeedComplete
  BY DEF Inv
<1>2. QED
  BY <1>1, Invariance, PTL

-----------------------------------------------------------------------------
(* Action properties, from the same invariant.                             *)

FreshStep ==
    \A key \in Keys :
        cache'[key] # cache[key] /\ cache'[key] # NoEntry /\ drops = 0 /\ crashes = 0
            => ToSet(cache'[key]) \subseteq documents

\* Only what is still in the corpus is written to the cache.
LEMMA WriteIsFresh ==
    ASSUME Inv, NEW written \in Keys, NEW results,
           cache' = CacheAfterSet(written, results),
           drops = 0 => ToSet(results) \subseteq documents
    PROVE  FreshStep
BY DEF FreshStep, CacheAfterSet, Inv, TypeOK, CacheTyped

\* No answer computed before a TRUNCATE is cached after it.
THEOREM CacheWritesAreFresh == Spec => FreshWrites
<1>1. Inv /\ [Next]_vars => [FreshStep]_vars
  <2> SUFFICES ASSUME Inv, Next PROVE FreshStep
    OBVIOUS
  <2>0. TypeOK
    BY DEF Inv
  <2>1. UNCHANGED cache => FreshStep
    BY DEF FreshStep
  <2>2. ASSUME NEW key \in Keys, Expire(key) PROVE FreshStep
    BY <2>0, <2>2 DEF Expire, FreshStep, TypeOK, CacheTyped
  <2>3. ASSUME NEW r \in Reqs, CacheSet(r) PROVE FreshStep
    <3>1. KeyOf(r) \in Keys
      BY <2>0 DEF KeyOf, make_key, Keys, TypeOK, RequestsTyped, Request
    <3>2. drops = 0 => req[r].tx = "open"
      BY <2>0, <2>3 DEF CacheSet, Inv, TxDiscipline, TypeOK, RequestsTyped, Request,
                        TxStates
    <3>3. drops = 0 => ToSet(req[r].results) \subseteq documents
      BY <3>2 DEF Inv, LiveResultsExist
    <3>4. QED
      BY <2>3, <3>1, <3>3, WriteIsFresh DEF CacheSet
  <2>4. CASE WarmSet
    <3>1. Head(warm.queue) \in Texts
      BY <2>0, <2>4, HeadTailProperties DEF WarmSet, TypeOK, WarmTyped, WarmTask
    <3>2. WarmKey \in Keys
      BY <3>1, CutsAreNat DEF WarmKey, make_key, Keys, Methods
    <3>3. drops = 0 => warm.tx = "open"
      BY <2>0, <2>4 DEF WarmSet, Inv, TxDiscipline, TypeOK, WarmTyped, WarmTask,
                        TxStates
    <3>4. drops = 0 => ToSet(warm.results) \subseteq documents
      BY <2>4, <3>3 DEF WarmSet, Inv, LiveResultsExist
    <3>5. QED
      BY <2>4, <3>2, <3>4, WriteIsFresh DEF WarmSet
  <2>5. (\/ Boot \/ Crash \/ RedisTurns \/ WarmStart \/ WarmSearch \/ WarmEnd
         \/ WarmDrop \/ SeedStart \/ SeedStep \/ SeedCrash)
           => UNCHANGED cache
    BY DEF Boot, Crash, RedisTurns, WarmStart, WarmSearch, WarmEnd, WarmDrop,
           SeedStart, SeedStep, SeedTruncate, SeedDocuments, SeedEmbeddings, SeedCrash, redisVars
  <2>6. ASSUME NEW r \in Reqs,
               \/ Arrive(r) \/ DropConnection(r) \/ CacheGet(r) \/ Retrieve(r)
               \/ Rerank(r) \/ LogQuery(r) \/ LogResults(r) \/ Answer(r)
        PROVE  UNCHANGED cache
    BY <2>6 DEF Arrive, DropConnection, CacheGet, Retrieve, Rerank, LogQuery, LogResults,
                Answer, redisVars
  <2>7. LateWrite /\ crashes = 0 => FALSE
    BY DEF LateWrite, Inv, NothingLate
  <2>8. LateWrite => FreshStep
    BY <2>7 DEF FreshStep
  <2>9. QED
    BY <2>1, <2>2, <2>3, <2>4, <2>5, <2>6, <2>8 DEF Next, Step, WarmStep
<1>2. QED
  BY <1>1, Invariance, PTL DEF Spec, FreshWrites, FreshStep

KeyErrorStep ==
    \A r \in Reqs :
        req'[r].pc = "KeyError" /\ req[r].pc # "KeyError" => ~(bm25 \subseteq documents)

\* The KeyError of a hybrid search needs an index that has outlived its documents.
THEOREM KeyErrorMeansStaleIndex == Spec => KeyErrorOnlyIfIndexStale
<1>1. Inv /\ [Next]_vars => [KeyErrorStep]_vars
  <2> SUFFICES ASSUME Inv, Next PROVE KeyErrorStep
    OBVIOUS
  <2>0. TypeOK
    BY DEF Inv
  <2>1. UNCHANGED req => KeyErrorStep
    BY DEF KeyErrorStep
  <2>2. CASE Crash
    BY <2>0, <2>2 DEF Crash, Failed, KeyErrorStep, TypeOK, RequestsTyped, Request
  <2>3. ASSUME NEW r \in Reqs, Arrive(r) PROVE KeyErrorStep
    BY <2>0, <2>3 DEF Arrive, KeyErrorStep, TypeOK, RequestsTyped
  <2>4. ASSUME NEW r \in Reqs, Fail(r, "DBAPIError") \/ Fail(r, "IntegrityError")
        PROVE  KeyErrorStep
    <3>1. PICK error \in {"DBAPIError", "IntegrityError"} : Fail(r, error)
      BY <2>4
    <3> DEFINE q == Failed(req[r], error)
    <3>2. q.pc # "KeyError"
      BY <2>0 DEF Failed, TypeOK, RequestsTyped, Request
    <3>3. req' = [req EXCEPT ![r] = q]
      BY <3>1 DEF Fail
    <3> HIDE DEF q
    <3>4. \A s \in Reqs : req'[s] = IF s = r THEN q ELSE req[s]
      BY <2>0, <3>3 DEF TypeOK, RequestsTyped
    <3> QED BY <3>2, <3>4 DEF KeyErrorStep
  <2>5. ASSUME NEW r \in Reqs, DropConnection(r) PROVE KeyErrorStep
    BY <2>0, <2>5 DEF DropConnection, KeyErrorStep, TypeOK, RequestsTyped, Request
  <2>6. ASSUME NEW r \in Reqs, Retrieve(r) PROVE KeyErrorStep
    <3>1. ASSUME NEW rows, NEW pc \in {"set", "rerank"},
                 req' = [req EXCEPT ![r].pc = pc, ![r].results = rows, ![r].tx = "open"]
          PROVE  KeyErrorStep
      BY <2>0, <3>1 DEF KeyErrorStep, TypeOK, RequestsTyped, Request
    <3>2. QED
      BY <2>4, <2>6, <3>1 DEF Retrieve, TxAfterSelect
  <2>7. ASSUME NEW r \in Reqs, Rerank(r) PROVE KeyErrorStep
    <3>1. ASSUME NEW rows, req' = [req EXCEPT ![r].pc = "set", ![r].results = rows]
          PROVE  KeyErrorStep
      BY <2>0, <3>1 DEF KeyErrorStep, TypeOK, RequestsTyped, Request
    <3>2. ASSUME NEW candidates \in Candidates(r),
                 candidates \ ToSet(req[r].results)
                    # Fetched(candidates \ ToSet(req[r].results))
          PROVE  ~(bm25 \subseteq documents)
      BY <2>0, <3>2, CandidatesTyped DEF Fetched
    <3>3. QED
      BY <2>4, <2>7, <3>1, <3>2 DEF Rerank, KeyErrorStep
  <2>8. ASSUME NEW r \in Reqs,
               CacheGet(r) \/ CacheSet(r) \/ LogQuery(r) \/ LogResults(r) \/ Answer(r)
        PROVE  KeyErrorStep
    <3>1. CASE CacheSet(r)
      BY <2>0, <3>1 DEF CacheSet, KeyErrorStep, TypeOK, RequestsTyped, Request
    <3>2. CASE req' = [req EXCEPT ![r].pc = "answer", ![r].tx = "none"]
      BY <2>0, <3>2 DEF KeyErrorStep, TypeOK, RequestsTyped, Request
    <3>3. CASE CacheGet(r)
      BY <2>0, <3>3 DEF CacheGet, KeyErrorStep, TypeOK, RequestsTyped, Request
    <3>4. CASE FlushQuery(r) \/ Answer(r)
      BY <2>0, <3>4 DEF FlushQuery, Answer, KeyErrorStep, TypeOK, RequestsTyped, Request
    <3>5. QED
      BY <2>4, <2>8, <3>1, <3>2, <3>3, <3>4 DEF LogQuery, LogResults, Committed, LogFails
  <2>9. (\/ Boot \/ RedisTurns \/ LateWrite \/ (\E key \in Keys : Expire(key)) \/ WarmStart
          \/ WarmStep \/ WarmDrop \/ SeedStart \/ SeedStep \/ SeedCrash)
           => UNCHANGED req
    BY DEF Boot, RedisTurns, LateWrite, Expire, WarmStart, WarmStep, WarmSearch, WarmSet,
           WarmEnd, WarmDrop, SeedStart, SeedStep, SeedTruncate, SeedDocuments,
           SeedEmbeddings, SeedCrash
  <2>10. QED
    BY <2>1, <2>2, <2>3, <2>5, <2>6, <2>7, <2>8, <2>9 DEF Next, Step
<1>2. QED
  BY <1>1, Invariance, PTL DEF Spec, KeyErrorOnlyIfIndexStale, KeyErrorStep

-----------------------------------------------------------------------------
(* What is cached fits its key.                                            *)

\* A "best n" cut is no longer than n and in the order of its costs.
LEMMA CheapestSorted ==
    ASSUME NEW S, IsFiniteSet(S), NEW cost, NEW n \in Nat,
           NEW list \in Cheapest(S, cost, n)
    PROVE  /\ Len(list) <= n
           /\ \A i, j \in DOMAIN list : i < j => cost[list[i]] <= cost[list[j]]
<1>1. Cardinality(S) \in Nat
  BY FS_CardinalityType
<1>2. list \in [1 .. Least(n, Cardinality(S)) -> S] /\ Least(n, Cardinality(S)) \in Nat
  BY <1>1 DEF Cheapest, Least
<1>3. Least(n, Cardinality(S)) <= n
  BY <1>1 DEF Least
<1>4. Len(list) = Least(n, Cardinality(S))
  BY <1>2
<1>5. QED
  BY <1>3, <1>4 DEF Cheapest

\* What the dense pass answers ranks the documents for its text.
LEMMA NearestRanks ==
    ASSUME TypeOK, NEW t \in Texts, NEW n \in Nat, NEW list \in NearestDocs(t, n)
    PROVE  Ranks(list, "dense", n, t)
<1>1. PICK S \in Reachable[documents \cap embeddings] : list \in Cheapest(S, Distance[t], n)
  BY DEF NearestDocs
<1>2. S \subseteq Docs
  BY ScansStayInside DEF TypeOK, DatabaseTyped
<1>3. QED
  BY <1>1, <1>2, DocsSubsetFinite, CheapestSorted DEF Ranks, InOrder

\* So does what the rerank answers.
LEMMA RerankRanks ==
    ASSUME TypeOK, NEW r \in Reqs, NEW candidates \in Candidates(r),
           NEW list \in Highest(candidates, CrossScore[req[r].text], req[r].top_k)
    PROVE  Ranks(list, "hybrid", req[r].top_k, req[r].text)
<1> DEFINE score == CrossScore[req[r].text]
           cost == [d \in candidates |-> -score[d]]
<1>1. /\ candidates \subseteq Docs /\ IsFiniteSet(candidates) /\ req[r].top_k \in Nat
      /\ list \in Cheapest(candidates, cost, req[r].top_k)
  BY CandidatesTyped, DocsSubsetFinite, PoolsTyped DEF Highest
<1>2. list \in Seq(candidates)
  BY <1>1, CheapestInSet
<1>3. /\ Len(list) <= req[r].top_k
      /\ \A i, j \in DOMAIN list : i < j => cost[list[i]] <= cost[list[j]]
  BY <1>1, CheapestSorted
<1>4. score \in [Docs -> Nat]
  BY ScoresAreNat DEF TypeOK, RequestsTyped, Request
<1>5. ASSUME NEW i \in DOMAIN list, NEW j \in DOMAIN list, i < j
      PROVE  score[list[i]] >= score[list[j]]
  <2>1. list[i] \in candidates /\ list[j] \in candidates
    BY <1>2
  <2>2. cost[list[i]] = -score[list[i]] /\ cost[list[j]] = -score[list[j]]
    BY <2>1
  <2>3. score[list[i]] \in Nat /\ score[list[j]] \in Nat
    BY <1>1, <1>4, <2>1
  <2>4. cost[list[i]] <= cost[list[j]]
    BY <1>3, <1>5
  <2>5. \A a, b \in Nat : -a <= -b => a >= b
    OBVIOUS
  <2>6. -score[list[i]] <= -score[list[j]]
    BY <2>2, <2>4
  <2> HIDE DEF score
  <2>7. QED
    BY <2>3, <2>5, <2>6
<1>6. QED
  BY <1>3, <1>5 DEF Ranks, InOrder

\* A write that fits its key keeps the cache in order.
LEMMA WriteFits ==
    ASSUME CacheInv, NEW m \in Methods, NEW t \in Texts, NEW k \in TopKs, NEW results,
           Ranks(results, m, k, t), cache' = CacheAfterSet(make_key(t, k, m), results)
    PROVE  CacheEntryFitsKey'
<1>1. make_key(t, k, m) = <<m, k, Normal[t]>>
  BY DEF make_key
<1>2. ASSUME NEW key \in Keys, cache'[key] # NoEntry
      PROVE  /\ Len(cache'[key]) <= key[2]
             /\ \E u \in Texts : Normal[u] = key[3] /\ InOrder(cache'[key], key[1], u)
  <2>1. CASE cache'[key] = cache[key]
    BY <1>2, <2>1 DEF CacheInv, CacheEntryFitsKey
  <2>2. CASE key = make_key(t, k, m) /\ cache'[key] = results
    BY <1>1, <2>2 DEF Ranks
  <2>3. QED
    BY <2>1, <2>2 DEF CacheAfterSet, CacheInv, TypeOK, CacheTyped
<1>3. QED
  BY <1>2 DEF CacheEntryFitsKey

LEMMA CacheUnchanged == CacheEntryFitsKey /\ UNCHANGED cache => CacheEntryFitsKey'
BY DEF CacheEntryFitsKey, InOrder

\* Of the requests, only the one that takes the step has something new to write.
LEMMA OneRequestFits ==
    ASSUME CacheInv, NEW r \in Reqs, NEW q, req' = [req EXCEPT ![r] = q],
           UNCHANGED <<warm, late>>, RequestFits(q)
    PROVE  PendingFits'
<1>1. \A s \in Reqs : req'[s] = IF s = r THEN q ELSE req[s]
  BY DEF CacheInv, TypeOK, RequestsTyped
<1>2. ASSUME NEW s \in Reqs PROVE RequestFits(req'[s])
  BY <1>1 DEF CacheInv, PendingFits
<1>3. QED
  BY <1>2 DEF CacheInv, PendingFits, Ranks, InOrder

LEMMA CacheInvPreserved == CacheInv /\ [Next]_vars => CacheInv'
<1> SUFFICES ASSUME CacheInv, [Next]_vars PROVE PendingFits' /\ CacheEntryFitsKey'
  BY NextTyped DEF CacheInv
<1>0. TypeOK /\ PendingFits /\ CacheEntryFitsKey
  BY DEF CacheInv
<1>1. ASSUME NEW r \in Reqs PROVE req[r] \in Request
  BY <1>0 DEF TypeOK, RequestsTyped
<1>2. CASE Crash
  <2>1. warm'.pc = "idle" /\ \A r \in Reqs : req'[r].pc \notin {"rerank", "set"}
    BY <1>1, <1>2 DEF Crash, NoWarming, Failed, Request, Working
  <2>2. ASSUME NEW r \in Reqs, req[r].pc = "set"
        PROVE  \E t \in Texts : /\ Normal[t] = KeyOf(r)[3]
                               /\ Ranks(req[r].results, KeyOf(r)[1], KeyOf(r)[2], t)
    BY <1>0, <1>1, <2>2 DEF KeyOf, make_key, PendingFits, RequestFits, Request
  <2>3. ASSUME warm.pc = "set"
        PROVE  \E t \in Texts : /\ Normal[t] = WarmKey[3]
                               /\ Ranks(warm.results, WarmKey[1], WarmKey[2], t)
    <3>1. Head(warm.queue) \in Texts
      BY <1>0, <2>3, HeadTailProperties DEF TypeOK, WarmTyped, WarmTask
    <3>2. QED
      BY <1>0, <2>3, <3>1 DEF WarmKey, make_key, PendingFits
  <2>4. \A w \in late' :
           \E t \in Texts : Normal[t] = w[1][3] /\ Ranks(w[2], w[1][1], w[1][2], t)
    BY <1>0, <1>2, <2>2, <2>3 DEF Crash, Writes, PendingFits
  <2>5. PendingFits'
    BY <2>1, <2>4 DEF PendingFits, RequestFits, Ranks, InOrder
  <2>6. QED
    BY <1>0, <1>2, <2>5, CacheUnchanged DEF Crash
<1>3. ASSUME NEW key \in Keys, Expire(key) PROVE PendingFits' /\ CacheEntryFitsKey'
  <2>1. \A k \in Keys : cache'[k] # NoEntry => cache'[k] = cache[k]
    BY <1>0, <1>3 DEF Expire, TypeOK, CacheTyped
  <2>2. CacheEntryFitsKey'
    BY <1>0, <2>1 DEF CacheEntryFitsKey, InOrder
  <2>3. QED
    BY <1>0, <1>3, <2>2 DEF Expire, PendingFits, RequestFits, Ranks, InOrder
<1>4. ASSUME NEW r \in Reqs, NEW error \in Outcomes, Fail(r, error), UNCHANGED <<warm, cache, late>>
      PROVE  PendingFits' /\ CacheEntryFitsKey'
  <2>1. Failed(req[r], error).pc = error
    BY <1>1 DEF Failed, Request
  <2>2. QED
    BY <1>0, <1>4, <2>1, OneRequestFits, CacheUnchanged DEF Fail, Outcomes, RequestFits
<1>5. ASSUME NEW r \in Reqs, NEW q, req' = [req EXCEPT ![r] = q], q.pc \notin {"rerank", "set"},
             UNCHANGED <<warm, cache, late>>
      PROVE  PendingFits' /\ CacheEntryFitsKey'
  BY <1>0, <1>5, OneRequestFits, CacheUnchanged DEF RequestFits
<1>6. ASSUME NEW r \in Reqs, Arrive(r) PROVE PendingFits' /\ CacheEntryFitsKey'
  BY <1>5, <1>6 DEF Arrive, redisVars
<1>7. ASSUME NEW r \in Reqs, DropConnection(r) PROVE PendingFits' /\ CacheEntryFitsKey'
  <2> DEFINE q == [req[r] EXCEPT !.tx = "dropped"]
  <2>1. req' = [req EXCEPT ![r] = q] /\ UNCHANGED <<warm, cache, late>>
    BY <1>7 DEF DropConnection, redisVars
  <2>2. /\ q.pc = req[r].pc /\ q.results = req[r].results /\ q.method = req[r].method
        /\ q.top_k = req[r].top_k /\ q.text = req[r].text
    BY <1>1 DEF Request
  <2>3. QED
    BY <1>0, <2>1, <2>2, OneRequestFits, CacheUnchanged DEF PendingFits, RequestFits
<1>8. ASSUME NEW r \in Reqs, Retrieve(r) PROVE PendingFits' /\ CacheEntryFitsKey'
  <2>1. UNCHANGED <<warm, cache, late>>
    BY <1>8 DEF Retrieve, redisVars
  <2>2. ASSUME NEW rows \in NearestDocs(req[r].text, DensePool(r)),
               req' = [req EXCEPT ![r].pc = IF req[r].method = "dense" THEN "set" ELSE "rerank",
                                  ![r].results = rows, ![r].tx = TxAfterSelect]
        PROVE  PendingFits' /\ CacheEntryFitsKey'
    <3> DEFINE q == [req[r] EXCEPT !.pc = IF req[r].method = "dense" THEN "set" ELSE "rerank",
                                   !.results = rows, !.tx = TxAfterSelect]
    <3>1. /\ q.pc = (IF req[r].method = "dense" THEN "set" ELSE "rerank") /\ q.results = rows
          /\ q.method = req[r].method /\ q.top_k = req[r].top_k /\ q.text = req[r].text
      BY <1>1 DEF Request
    <3>2. req[r].text \in Texts /\ DensePool(r) \in Nat
      BY <1>0, <1>1, PoolsTyped DEF Request
    <3>3. Ranks(rows, "dense", DensePool(r), req[r].text)
      BY <1>0, <2>2, <3>2, NearestRanks
    <3>4. RequestFits(q)
      BY <1>1, <3>1, <3>3 DEF DensePool, RequestFits, Request, Methods
    <3>5. req' = [req EXCEPT ![r] = q]
      BY <2>2
    <3>6. QED
      BY <1>0, <2>1, <3>4, <3>5, OneRequestFits, CacheUnchanged
  <2>3. QED
    BY <1>4, <1>8, <2>1, <2>2 DEF Retrieve, Outcomes
<1>9. ASSUME NEW r \in Reqs, Rerank(r) PROVE PendingFits' /\ CacheEntryFitsKey'
  <2>1. UNCHANGED <<warm, cache, late>> /\ req[r].pc = "rerank"
    BY <1>9 DEF Rerank, redisVars
  <2>2. ASSUME NEW candidates \in Candidates(r),
               NEW rows \in Highest(candidates, CrossScore[req[r].text], req[r].top_k),
               req' = [req EXCEPT ![r].pc = "set", ![r].results = rows]
        PROVE  PendingFits' /\ CacheEntryFitsKey'
    <3> DEFINE q == [req[r] EXCEPT !.pc = "set", !.results = rows]
    <3>1. /\ q.pc = "set" /\ q.results = rows /\ q.method = req[r].method
          /\ q.top_k = req[r].top_k /\ q.text = req[r].text
      BY <1>1 DEF Request
    <3>2. req[r].method = "hybrid"
      BY <1>0, <2>1 DEF PendingFits, RequestFits
    <3>3. RequestFits(q)
      BY <1>0, <2>2, <3>1, <3>2, RerankRanks DEF RequestFits
    <3>4. req' = [req EXCEPT ![r] = q]
      BY <2>2
    <3>5. QED
      BY <1>0, <2>1, <3>3, <3>4, OneRequestFits, CacheUnchanged
  <2>3. QED
    BY <1>4, <1>9, <2>1, <2>2 DEF Rerank, Outcomes
<1>10. ASSUME NEW r \in Reqs, CacheSet(r) PROVE PendingFits' /\ CacheEntryFitsKey'
  <2> DEFINE q == [req[r] EXCEPT !.pc = "log"]
  <2>1. /\ req' = [req EXCEPT ![r] = q] /\ UNCHANGED <<warm, late>> /\ req[r].pc = "set"
        /\ cache' = CacheAfterSet(KeyOf(r), req[r].results)
    BY <1>10 DEF CacheSet
  <2>2. q.pc = "log"
    BY <1>1 DEF Request
  <2>3. PendingFits'
    BY <2>1, <2>2, OneRequestFits DEF RequestFits
  <2>4. CacheEntryFitsKey'
    BY <1>0, <1>1, <2>1, WriteFits DEF KeyOf, PendingFits, RequestFits, Request
  <2>5. QED
    BY <2>3, <2>4
<1>11. ASSUME NEW r \in Reqs, CacheGet(r) \/ LogQuery(r) \/ LogResults(r) \/ Answer(r)
       PROVE  PendingFits' /\ CacheEntryFitsKey'
  <2>1. UNCHANGED <<warm, cache, late>>
    BY <1>11 DEF CacheGet, LogQuery, LogResults, Answer, redisVars
  <2> DEFINE found == Cached(KeyOf(r))
             miss == [req[r] EXCEPT !.pc = "retrieve"]
             hit == [req[r] EXCEPT !.pc = "log", !.results = found, !.hit = TRUE]
             flushed == [req[r] EXCEPT !.pc = "insert"]
             committed == [req[r] EXCEPT !.pc = "answer", !.tx = "none"]
             answered == [req[r] EXCEPT !.pc = "ok"]
  <2>2. /\ miss.pc = "retrieve" /\ hit.pc = "log" /\ flushed.pc = "insert"
        /\ committed.pc = "answer" /\ answered.pc = "ok"
    BY <1>1 DEF Request
  <2>3. \/ \E q \in {miss, hit, flushed, committed, answered} : req' = [req EXCEPT ![r] = q]
        \/ \E error \in Outcomes : Fail(r, error)
    <3>1. CASE CacheGet(r)
      BY <3>1 DEF CacheGet
    <3>2. CASE LogQuery(r) \/ Answer(r)
      BY <3>2 DEF LogQuery, FlushQuery, LogFails, Answer, Outcomes
    <3>3. CASE LogResults(r)
      BY <3>3 DEF LogResults, LogFails, Committed, Outcomes
    <3>4. QED
      BY <1>11, <3>1, <3>2, <3>3
  <2> HIDE DEF miss, hit, flushed, committed, answered
  <2>4. QED
    BY <1>4, <1>5, <2>1, <2>2, <2>3
<1>12. ASSUME UNCHANGED <<req, cache, late>>,
              warm'.pc = "set" => \/ warm.pc = "set" /\ warm'.results = warm.results
                                     /\ warm'.queue = warm.queue
                                  \/ Ranks(warm'.results, "dense", WarmTopK, Head(warm'.queue))
       PROVE  PendingFits' /\ CacheEntryFitsKey'
  BY <1>0, <1>12, CacheUnchanged DEF PendingFits, RequestFits, Ranks, InOrder
<1>13. CASE WarmStart \/ WarmEnd \/ WarmDrop
  <2>1. /\ UNCHANGED <<req, cache, late>>
        /\ warm'.pc = "set" => warm.pc = "set" /\ warm'.results = warm.results
                                  /\ warm'.queue = warm.queue
    <3>1. warm \in WarmTask
      BY <1>0 DEF TypeOK, WarmTyped
    <3>2. CASE WarmStart
      <4>1. PICK queue : warm' = [warm EXCEPT !.pc = "next", !.queue = queue]
        BY <3>2 DEF WarmStart
      <4>2. warm'.pc = "next"
        BY <3>1, <4>1 DEF WarmTask
      <4>3. QED
        BY <3>2, <4>2 DEF WarmStart, redisVars
    <3>3. CASE WarmEnd
      BY <3>3 DEF WarmEnd, NoWarming, redisVars
    <3>4. CASE WarmDrop
      BY <3>1, <3>4 DEF WarmDrop, WarmTask, redisVars
    <3>5. QED
      BY <1>13, <3>2, <3>3, <3>4
  <2>2. QED
    BY <1>12, <2>1
<1>14. CASE WarmSearch
  <2>1. UNCHANGED <<req, cache, late>> /\ Head(warm.queue) \in Texts /\ warm \in WarmTask
    BY <1>0, <1>14, HeadTailProperties DEF WarmSearch, TypeOK, WarmTyped, WarmTask, redisVars
  <2>2. CASE warm' = [warm EXCEPT !.queue = Tail(@)]
    BY <1>12, <1>14, <2>1, <2>2 DEF WarmSearch, WarmTask
  <2>3. ASSUME NEW rows \in NearestDocs(Head(warm.queue), WarmTopK), warm' = Found(rows)
        PROVE  PendingFits' /\ CacheEntryFitsKey'
    <3>1. Ranks(rows, "dense", WarmTopK, Head(warm.queue))
      BY <1>0, <2>1, CutsAreNat, NearestRanks
    <3>2. warm'.results = rows /\ warm'.queue = warm.queue
      BY <2>1, <2>3 DEF Found, WarmTask
    <3>3. QED
      BY <1>12, <2>1, <3>1, <3>2
  <2>4. QED
    BY <1>14, <2>2, <2>3 DEF WarmSearch
<1>15. CASE WarmSet
  <2>1. /\ UNCHANGED req /\ warm.pc = "set" /\ warm'.pc = "next" /\ Head(warm.queue) \in Texts
        /\ cache' = CacheAfterSet(make_key(Head(warm.queue), WarmTopK, "dense"), warm.results)
        /\ UNCHANGED late
    BY <1>0, <1>15, HeadTailProperties DEF WarmKey, WarmSet, TypeOK, WarmTyped, WarmTask
  <2>2. PendingFits'
    BY <1>0, <2>1 DEF PendingFits, RequestFits, Ranks, InOrder
  <2>3. CacheEntryFitsKey'
    BY <1>0, <2>1, CutsAreNat, WriteFits DEF PendingFits, Methods
  <2>4. QED
    BY <2>2, <2>3
<1>16. CASE LateWrite
  <2>1. PICK w \in late : cache' = [cache EXCEPT ![w[1]] = w[2]] /\ late' = late \ {w}
    BY <1>16 DEF LateWrite
  <2>2. PICK t \in Texts : Normal[t] = w[1][3] /\ Ranks(w[2], w[1][1], w[1][2], t)
    BY <1>0, <2>1 DEF PendingFits
  <2>3. cache \in [Keys -> Results \cup {NoEntry}] /\ w[1] \in Keys
    BY <1>0, <2>1 DEF TypeOK, CacheTyped
  <2>4. ASSUME NEW key \in Keys, cache'[key] # NoEntry
        PROVE  /\ Len(cache'[key]) <= key[2]
               /\ \E u \in Texts : Normal[u] = key[3] /\ InOrder(cache'[key], key[1], u)
    <3>1. CASE key = w[1]
      BY <2>1, <2>2, <2>3, <3>1 DEF Ranks
    <3>2. CASE key # w[1]
      BY <1>0, <2>1, <2>3, <2>4, <3>2 DEF CacheEntryFitsKey
    <3>3. QED
      BY <3>1, <3>2
  <2>5. CacheEntryFitsKey'
    BY <2>4 DEF CacheEntryFitsKey, InOrder
  <2>6. PendingFits'
    BY <1>0, <1>16, <2>1 DEF LateWrite, PendingFits, RequestFits, Ranks, InOrder
  <2>7. QED
    BY <2>5, <2>6
<1>17. (Boot \/ RedisTurns \/ SeedStart \/ SeedStep \/ SeedCrash \/ UNCHANGED vars)
          => UNCHANGED <<req, warm, cache, late>>
  BY DEF Boot, RedisTurns, SeedStart, SeedStep, SeedTruncate, SeedDocuments, SeedEmbeddings,
         SeedCrash, redisVars, vars
<1>18. QED
  BY <1>2, <1>3, <1>6, <1>7, <1>8, <1>9, <1>10, <1>11, <1>12, <1>13, <1>14, <1>15, <1>16,
     <1>17 DEF Next, Step, WarmStep

LEMMA CacheInvInit == Init => CacheInv
<1> SUFFICES ASSUME Init PROVE CacheInv
  OBVIOUS
<1>1. PendingFits
  BY DEF Init, NoWarming, PendingFits, RequestFits
<1>2. CacheEntryFitsKey
  BY DEF Init, CacheEntryFitsKey
<1>3. QED
  BY <1>1, <1>2, InitTyped DEF CacheInv

\* No caller gets an answer of the other method, of a larger cut or of another text: an
\* entry is a ranking for its own key.
THEOREM CacheKeysSuffice == Spec => []CacheEntryFitsKey
<1>1. CacheInv => CacheEntryFitsKey
  BY DEF CacheInv
<1>2. QED
  BY <1>1, CacheInvInit, CacheInvPreserved, PTL DEF Spec
=============================================================================
