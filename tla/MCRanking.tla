----------------------------- MODULE MCRanking -----------------------------
(***************************************************************************)
(* The ranking algorithms against references, each over every small input: *)
(* Reciprocal Rank Fusion of two ranked lists, the merged BM25 search of   *)
(* two languages, the dense search over a cache file that fits the         *)
(* documents or does not, and the citations of an AI answer.               *)
(***************************************************************************)
EXTENDS Ranking, Retrieval, Answers

CONSTANTS
    Docs, MaxLen, SmoothingConstants,   \* of the fusion
    MaxDocs, MaxScore, MaxK,            \* of the other searches
    MaxCards                            \* results an AI answer is asked about

ASSUME BoundedInputs == /\ {MaxLen, MaxDocs, MaxScore, MaxK, MaxCards} \subseteq Nat
                        /\ SmoothingConstants \subseteq Nat

VARIABLES
    task,       \* what is asked
    answer      \* <<>>, and then the answer in a sequence of one

Ranked == UNION {{list \in [1 .. n -> Docs] : IsInjective(list)} : n \in 0 .. MaxLen}
Scores == UNION {[1 .. n -> 0 .. MaxScore] : n \in 1 .. MaxDocs}
Orders == UNION {{o \in [1 .. n -> 1 .. n] : IsInjective(o)} : n \in 1 .. MaxDocs}

Cards == UNION {[1 .. n -> 1 .. MaxCards] : n \in 1 .. MaxCards}
Found == UNION {{rows \in [1 .. n -> 1 .. MaxCards] : IsInjective(rows)} : n \in 0 .. MaxCards}
Replies == {<<>>} \cup {<<cited>> : cited \in SUBSET (0 .. MaxCards + 1)}

Init ==
    /\ answer = <<>>
    /\ \/ \E dense, bm25 \in Ranked, rrfK \in SmoothingConstants, pool \in 1 .. MaxLen :
            task = [kind |-> "fuse", dense |-> dense, bm25 |-> bm25, rrfK |-> rrfK, pool |-> pool]
       \/ \E one, two \in Scores, k \in 1 .. MaxK :
            \E first \in argsort(one), second \in argsort(two) :
              task = [kind |-> "merge", scores |-> <<one, two>>, order |-> <<first, second>>, k |-> k]
       \/ \E nearest \in Orders, documents \in 1 .. MaxDocs, k \in 1 .. MaxK :
            task = [kind |-> "dense", nearest |-> nearest, documents |-> documents, k |-> k]
       \/ \E ids \in Cards, rows \in Found, replies \in Replies :
            /\ ToSet(rows) \subseteq ToSet(ids)
            /\ task = [kind |-> "rag", ids |-> ids, rows |-> rows, replies |-> replies]

Asked(kind) == answer = <<>> /\ task.kind = kind /\ UNCHANGED task

Fuse == Asked("fuse") /\ answer' =
    <<candidate_ids(reciprocal_rank_fusion(<<task.dense, task.bm25>>, task.rrfK), task.pool)>>

Merge == Asked("merge") /\ answer' = <<search_translate_test(task.scores, task.order, task.k)>>

SearchDense == Asked("dense") /\ answer' = <<search_dense(task.documents, task.nearest, task.k)>>

Answer == Asked("rag") /\ answer' = <<search_rag(task.ids, task.rows, task.replies)>>

Spec == Init /\ [][Fuse \/ Merge \/ SearchDense \/ Answer]_<<task, answer>>

Answered(kind) == answer # <<>> /\ task.kind = kind

-----------------------------------------------------------------------------
(* The reference for the fusion: scores in whole units of                  *)
(* 1 / ((k+1) * ... * (k+MaxLen)).                                         *)

Unit == LET product[i \in 0 .. MaxLen] ==
                IF i = 0 THEN 1 ELSE (task.rrfK + i) * product[i - 1]
        IN  product[MaxLen]
Places(list, d) == {i \in DOMAIN list : list[i] = d}
Share(list, d) == IF Places(list, d) = {} THEN 0
                  ELSE Unit \div (task.rrfK + (CHOOSE i \in Places(list, d) : TRUE))
Score(d)    == Share(task.dense, d) + Share(task.bm25, d)
\* The order in which the loops over the lists first meet a document.
FirstSeen(d) == LET both == task.dense \o task.bm25
                IN  CHOOSE i \in DOMAIN both :
                        both[i] = d /\ \A j \in 1 .. i - 1 : both[j] # d
Better(d, e) == \/ Score(d) > Score(e)
                \/ Score(d) = Score(e) /\ FirstSeen(d) < FirstSeen(e)

Listed == ToSet(task.dense) \cup ToSet(task.bm25)
InBoth == ToSet(task.dense) \cap ToSet(task.bm25)

\* The rerank pool is full, or holds everything either list found, and no document
\* left out of it scores better than one inside (candidate_ids, ties by insertion).
PoolIsTheBest ==
    Answered("fuse") =>
        LET candidates == answer[1] IN
        /\ candidates \subseteq Listed
        /\ Cardinality(candidates) = Least(task.pool, Cardinality(Listed))
        /\ \A c \in candidates, d \in Listed \ candidates : Better(c, d)

\* A document both retrievers found, at ranks up to k + 1, is never crowded out by
\* one that only a single retriever found, not even by its first.
AgreementWins ==
    Answered("fuse") =>
        \A both \in InBoth, one \in answer[1] \ InBoth :
            Places(task.dense, both) \cup Places(task.bm25, both) \subseteq 1 .. task.rrfK + 1
                => both \in answer[1]

-----------------------------------------------------------------------------
(* The reference for the merged search: one ranking of all the documents,  *)
(* by score, then by language, then as BM25 has it.                        *)

Documents == {<<l, d>> : l \in 1 .. 2, d \in 1 .. MaxDocs}
Existing == {x \in Documents : x[2] \in DOMAIN task.scores[x[1]]}
ScoreOf(x) == task.scores[x[1]][x[2]]
Place(x) == RankIn(task.order[x[1]], x[2])

Above(x, y) ==
    \/ ScoreOf(x) > ScoreOf(y)
    \/ ScoreOf(x) = ScoreOf(y) /\ x[1] < y[1]
    \/ ScoreOf(x) = ScoreOf(y) /\ x[1] = y[1] /\ Place(x) > Place(y)

\* Asking each language for its best k, and merging by score, loses nothing: a document
\* is answered at place i exactly if i - 1 of all documents rank above it.  So a larger
\* k only adds to the end of an answer (search_translate_test).
MergingLosesNothing ==
    Answered("merge") =>
        /\ Len(answer[1]) = Least(task.k, Cardinality(Existing))
        /\ \A i \in DOMAIN answer[1] :
             Cardinality({y \in Existing : Above(y, answer[1][i].doc)}) = i - 1

\* When every document has its vector, the padding of a short answer changes no rank an
\* evaluation looks up, nor which documents it finds (search of dense_retrieval.py).
PaddingIsHarmless ==
    Answered("dense") /\ Len(task.nearest) = task.documents =>
        \A d \in 1 .. task.documents : Rank(answer[1], d) = Rank(Top(task.nearest, task.k), d)

-----------------------------------------------------------------------------
\* A number the model cites is the card with this number on the caller's screen and the
\* document the model was given under it, in whatever order the database answered;
\* every such number has its citation, in order, and no other has (search_rag).
CitationsAreTheCards ==
    Answered("rag") /\ answer[1].status = 200 =>
        LET citations == answer[1].citations
            cited(n) == {i \in DOMAIN citations : citations[i].number = n}
        IN  /\ answer[1].docs = task.ids
            /\ \A i, j \in DOMAIN citations : i < j => citations[i].number < citations[j].number
            /\ \A n \in 0 .. MaxCards + 1 :
                  IF n \in task.replies[1] \cap DOMAIN task.ids
                  THEN \E i \in cited(n) : citations[i].search_result_id = task.ids[n]
                  ELSE cited(n) = {}
=============================================================================
