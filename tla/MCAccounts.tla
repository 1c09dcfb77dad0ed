----------------------------- MODULE MCAccounts -----------------------------
(* Two addresses that signup takes for one, and a third.                    *)
EXTENDS Accounts, TLC

CONSTANTS u1, u2, c1, c2, pw1, pw2

Normalised == [s \in Spellings |-> IF s = "ann@X" THEN "ann@x" ELSE s]
TwoIds == {u1, u2}
TwoClients == {c1, c2}
TwoPasswords == {pw1, pw2}
Alike == Permutations(TwoIds) \cup Permutations(TwoClients) \cup Permutations(TwoPasswords)
=============================================================================
