-------------------------- MODULE MCSearchService --------------------------
(***************************************************************************)
(* Instances of SearchService for TLC.  Three documents, of which one      *)
(* corpus has d1 and d2 and the other d2 and d3; d1 is the only lexical    *)
(* match and the farthest by distance, so it is the BM25-only candidate.   *)
(***************************************************************************)
EXTENDS SearchService

CONSTANTS d1, d2, d3, AI, ai

MCDocs == {d1, d2, d3}
MCCorpora == {{d1, d2}, {d2, d3}}
NestedCorpora == {{d1, d2}, {d2}}

\* What a scan of the vector index reaches: every row, or all of them or all but one.
ExactRecall == [S \in SUBSET Docs |-> {S}]
MissesOne == [S \in SUBSET Docs |-> {T \in SUBSET S : Cardinality(S \ T) <= 1}]

\* "AI" and "ai" share their normal form, and embed differently.
MCNormal == [t \in Texts |-> ai]

Scores(one, two, three) ==
    [d \in Docs |-> CASE d = d1 -> one [] d = d2 -> two [] d = d3 -> three]

MCDistance == [t \in Texts |-> IF t = AI THEN Scores(3, 1, 2) ELSE Scores(3, 2, 1)]
MCLexical == [t \in Texts |-> Scores(2, 0, 0)]
MCCrossScore == [t \in Texts |-> Scores(3, 1, 2)]

Slots == Permutations(Reqs)
=============================================================================
