----------------------------- MODULE MCPipeline -----------------------------
(* One language of two or three pages, and which scripts run how often.     *)
EXTENDS Pipeline, TLC

CONSTANTS p, q, r

TwoPages == {p, q}
MCPages == {p, q, r}
Alike == Permutations(MCPages)
Alike2 == Permutations(TwoPages)
OneLanguage == <<"en">>
AskAll == {Range(Languages)}
MCOrder == <<<<1>>, <<1, 2>>, <<2, 3, 1>>>>

Caching == {"dense"}
AllTools == {"collect", "preprocess", "dense", "baseline", "evaluation", "seed"}
Allow(n) == [t \in AllTools |-> IF t \in DOMAIN n THEN n[t] ELSE 0]
Evaluating == Allow([collect |-> 2, preprocess |-> 2, dense |-> 1, baseline |-> 1, evaluation |-> 1])
Seeding == Allow([collect |-> 2, preprocess |-> 2, dense |-> 2, seed |-> 1])
Once == Allow([collect |-> 1, preprocess |-> 1, dense |-> 1, baseline |-> 1, evaluation |-> 1])
=============================================================================
