------------------------------ MODULE MCCorpus ------------------------------
(* Two languages, two pages of which one may be dropped, and an order that  *)
(* is neither the identity nor its own inverse.                             *)
EXTENDS Corpus, TLC

CONSTANTS p, q, short

MCPages == {p, q, short}
MCKept == {p, q}
Alike == Permutations(MCKept)
MCLanguages == <<"en", "es">>
Everything == {{"en", "es"}}
MCOrder == <<<<1>>, <<2, 1>>, <<2, 3, 1>>>>
CorpusTools == {"collect", "preprocess"}
Twice == [t \in CorpusTools |-> 2]
=============================================================================
