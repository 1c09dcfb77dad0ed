------------------------------ MODULE Answers ------------------------------
(***************************************************************************)
(* The AI answer over displayed results: search_rag of api/v1/search.py and *)
(* rag_service.py.  Pure operators, no state; what the call waits for, and  *)
(* holds meanwhile, is in Contention.  Of the answer's text only the set of *)
(* bracketed numbers in it matters, and the model may write any number.     *)
(***************************************************************************)
EXTENDS FiniteSets, Integers, SequencesExt

\* Each number once, in ascending order; what is no document's is dropped.
extract_cited_numbers(reply, doc_count) ==
    LET cited == {n \in reply : 1 <= n /\ n <= doc_count}
    IN  CHOOSE numbers \in [1 .. Cardinality(cited) -> cited] :
            \A i, j \in DOMAIN numbers : i < j => numbers[i] < numbers[j]

\* Slip: as the database has them.
AsSelected(ids, rows) == rows

\* The rows of the join, which come in any order, in the order the caller asked for.
\* A row asked for twice is a document twice.
ordered(ids, rows) ==
    LET by_id == [id \in ToSet(rows) |-> id]
    IN  [i \in DOMAIN ids |-> by_id[ids[i]]]

NotFound    == [status |-> 404, docs |-> <<>>, citations |-> <<>>]
Unavailable == [status |-> 503, docs |-> <<>>, citations |-> <<>>]

\* ids: what is asked for; rows: what the join finds of it; replies: <<>> if the call
\* fails, or the numbers the model cites, in a sequence of one.
search_rag(ids, rows, replies) ==
    IF ~(ToSet(ids) \subseteq ToSet(rows)) THEN NotFound
    ELSE IF replies = <<>> THEN Unavailable
    ELSE LET docs    == ordered(ids, rows)
             numbers == extract_cited_numbers(replies[1], Len(docs))
         IN  [status |-> 200, docs |-> docs,
              citations |-> [i \in DOMAIN numbers |->
                                [number |-> numbers[i],
                                 search_result_id |-> docs[numbers[i]]]]]
=============================================================================
