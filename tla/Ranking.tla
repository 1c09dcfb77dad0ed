------------------------------ MODULE Ranking ------------------------------
(***************************************************************************)
(* The ranking arithmetic of a search: the "best n" cut that pgvector,     *)
(* BM25 and the cross-encoder each make, and Reciprocal Rank Fusion        *)
(* (backend/app/services/hybrid_search.py).  Pure operators, no state.     *)
(***************************************************************************)
EXTENDS Integers, FiniteSets, SequencesExt

Least(a, b) == IF a < b THEN a ELSE b
Greatest(a, b) == IF a < b THEN b ELSE a

(***************************************************************************)
(* Every answer ORDER BY cost LIMIT n may give over the set S: n members   *)
(* of S (all of them if there are fewer), none twice, cheapest first, and  *)
(* nothing left out is cheaper than anything returned.  Equal costs may    *)
(* come in either order, as they may in SQL.                               *)
(***************************************************************************)
Cheapest(S, cost, n) ==
    {list \in [1 .. Least(n, Cardinality(S)) -> S] :
        /\ IsInjective(list)
        /\ \A i, j \in DOMAIN list : i < j => cost[list[i]] <= cost[list[j]]
        /\ \A d \in S \ ToSet(list) :
              \A i \in DOMAIN list : cost[list[i]] <= cost[d]}

\* The same cut when a high score is good (sorted(..., reverse=True)[:n]).
Highest(S, score, n) == Cheapest(S, [d \in S |-> -score[d]], n)

-----------------------------------------------------------------------------
(* Reciprocal Rank Fusion.  A fused score is a fraction <<num, den>>, so   *)
(* that scores are compared exactly, by cross-multiplication.              *)

\* Slip: the last list's term instead of the sum.
LastTerm(x, y) == y

Plus(x, y) == <<x[1] * y[2] + y[1] * x[2], x[2] * y[2]>>
MoreThan(x, y) == x[1] * y[2] > y[1] * x[2]

\* Slip: enumerate(ranked)
RankFromZero(ranked, d) == (CHOOSE i \in DOMAIN ranked : ranked[i] = d) - 1

\* enumerate(ranked, start=1)
RankIn(ranked, d) == CHOOSE i \in DOMAIN ranked : ranked[i] = d

\* The fused dict: its scores, and its keys in the order they were inserted.
reciprocal_rank_fusion(ranked_lists, rrfK) ==
    [order |-> FoldLeft(LAMBDA keys, d : IF d \in ToSet(keys) THEN keys ELSE Append(keys, d),
                        <<>>, FlattenSeq(ranked_lists)),
     score |-> [d \in UNION {ToSet(ranked_lists[i]) : i \in DOMAIN ranked_lists} |->
                    FoldLeft(LAMBDA sum, ranked :
                                IF d \in ToSet(ranked)
                                THEN Plus(sum, <<1, rrfK + RankIn(ranked, d)>>)
                                ELSE sum,
                             <<0, 1>>, ranked_lists)]]

(***************************************************************************)
(* candidate_ids: the `pool' documents of highest fused score.  sorted()   *)
(* is stable, so of two equal scores the one inserted first comes first.   *)
(***************************************************************************)
candidate_ids(fused, pool) ==
    LET Before(d, e) ==
            \/ MoreThan(fused.score[d], fused.score[e])
            \/ /\ ~MoreThan(fused.score[e], fused.score[d])
               /\ RankIn(fused.order, d) < RankIn(fused.order, e)
    IN  {d \in DOMAIN fused.score :
            Cardinality({e \in DOMAIN fused.score : Before(e, d)}) < pool}

\* retrieval_pool and rerank_pool, max(floor, top_k * factor).
PoolSize(floor, factor, top_k) == Greatest(floor, factor * top_k)
=============================================================================
