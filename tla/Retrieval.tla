----------------------------- MODULE Retrieval -----------------------------
(***************************************************************************)
(* What a query of the offline evaluation retrieves: search_bm25 and        *)
(* search_translate_test of baseline.py, and search of dense_retrieval.py,  *)
(* with the rank that their evaluations look up.  Pure operators, no state. *)
(* A document is its place in its list.  A translation, or one that fails,  *)
(* only makes other BM25 scores.                                            *)
(***************************************************************************)
EXTENDS Integers, FiniteSets, SequencesExt

Top(s, k) == SubSeq(s, 1, IF k < Len(s) THEN k ELSE Len(s))

\* What np.argsort may return: it sorts ascending, and equal scores in any order.
argsort(scores) ==
    {order \in [DOMAIN scores -> DOMAIN scores] :
        /\ IsInjective(order)
        /\ \A i, j \in DOMAIN order : i < j => scores[order[i]] <= scores[order[j]]}

search_bm25(scores, order, k) ==
    LET best == Top(Reverse(order), k)
    IN  [i \in DOMAIN best |-> [doc |-> best[i], score |-> scores[best[i]]]]

\* What one language answers, its documents told apart from those of others.
Labelled(l, found) == [i \in DOMAIN found |-> [found[i] EXCEPT !.doc = <<l, @>>]]

\* Slip: each language is only asked for its share of k.
SharedOut(scores, order, k) ==
    FlattenSeq([l \in DOMAIN scores |-> Labelled(l,
        search_bm25(scores[l], order[l], (k + Len(scores) - 1) \div Len(scores)))])

\* The best k of each language, one language after the other.
all_results(scores, order, k) ==
    FlattenSeq([l \in DOMAIN scores |-> Labelled(l, search_bm25(scores[l], order[l], k))])

\* sort(key=score, reverse=True), which is stable.
SortedByScore(s) ==
    LET Before(p, q) == s[p].score > s[q].score \/ (s[p].score = s[q].score /\ p < q)
        rank(p) == 1 + Cardinality({q \in DOMAIN s : Before(q, p)})
    IN  [i \in DOMAIN s |-> s[CHOOSE p \in DOMAIN s : rank(p) = i]]

search_translate_test(scores, order, k) == Top(SortedByScore(all_results(scores, order, k)), k)

-----------------------------------------------------------------------------
(* The FAISS index over the vectors, given in the order of their similarity *)
(* to the query: for more than there are, it answers position -1, and       *)
(* iloc[-1] is the last document.  A position beyond the documents fails.   *)

Padding == -1

iloc(documents, position) == IF position = Padding THEN documents ELSE position

IndexError == <<>>

\* Slip: an answer with padding in it fails.
PaddingFails(documents, nearest, k) ==
    IF k > Len(nearest) THEN IndexError ELSE Top(nearest, k)

search_dense(documents, nearest, k) ==
    LET position(i) == IF i <= Len(nearest) THEN nearest[i] ELSE Padding
    IN  IF \E i \in 1..k : position(i) > documents THEN IndexError
        ELSE [i \in 1..k |-> iloc(documents, position(i))]

\* retrieved_ids.index(relevant_doc) + 1, and 0 if it is not there.
Rank(retrieved, relevant) ==
    LET at == {i \in DOMAIN retrieved : retrieved[i] = relevant}
    IN  IF at = {} THEN 0 ELSE CHOOSE i \in at : \A j \in at : i <= j
=============================================================================
