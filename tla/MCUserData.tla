----------------------------- MODULE MCUserData -----------------------------
(***************************************************************************)
(* Instances of UserData for TLC, with its requests interchangeable.       *)
(***************************************************************************)
EXTENDS UserData, TLC

Slots == Permutations(Voters) \cup Permutations(Markers)
=============================================================================
