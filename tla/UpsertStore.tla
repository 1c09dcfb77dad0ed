---------------------------- MODULE UpsertStore ----------------------------
(***************************************************************************)
(* What submitting a vote and creating a bookmark promise: one value per   *)
(* key, set in one step somewhere between a request's first statement and  *)
(* its answer.  A request fails without effect, and only when the key got  *)
(* its first value while the request was under way; or it fails after the  *)
(* effect, when everything was wiped before it could be answered.          *)
(***************************************************************************)
CONSTANTS Reqs, Keys, Values, None

VARIABLES store,      \* [Keys -> Values \cup {None}]
          pc, key, value, answer,   \* of each request
          first       \* the key had no value when the request began

vars == <<store, pc, key, value, answer, first>>

Init == /\ store = [k \in Keys |-> None]
        /\ pc = [r \in Reqs |-> "idle"]
        /\ key \in [Reqs -> Keys] /\ value \in [Reqs -> Values]
        /\ answer = [r \in Reqs |-> None]
        /\ first = [r \in Reqs |-> FALSE]

\* The target does not exist.
Refuse(r) ==
    /\ pc[r] = "idle" /\ pc' = [pc EXCEPT ![r] = "refused"]
    /\ \E k \in Keys : key' = [key EXCEPT ![r] = k]
    /\ \E v \in Values : value' = [value EXCEPT ![r] = v]
    /\ UNCHANGED <<store, answer, first>>

Begin(r) ==
    /\ pc[r] = "idle" /\ pc' = [pc EXCEPT ![r] = "begun"]
    /\ \E k \in Keys : /\ key' = [key EXCEPT ![r] = k]
                       /\ first' = [first EXCEPT ![r] = store[k] = None]
    /\ \E v \in Values : value' = [value EXCEPT ![r] = v]
    /\ UNCHANGED <<store, answer>>

Apply(r) ==
    /\ pc[r] = "begun" /\ pc' = [pc EXCEPT ![r] = "applied"]
    /\ store' = [store EXCEPT ![key[r]] = value[r]]
    /\ UNCHANGED <<key, value, answer, first>>

Conflict(r) ==
    /\ pc[r] = "begun" /\ first[r] /\ store[key[r]] # None
    /\ pc' = [pc EXCEPT ![r] = "conflict"]
    /\ UNCHANGED <<store, key, value, answer, first>>

Answer(r) ==
    /\ pc[r] = "applied" /\ store[key[r]] # None
    /\ pc' = [pc EXCEPT ![r] = "answered"]
    /\ answer' = [answer EXCEPT ![r] = store[key[r]]]
    /\ UNCHANGED <<store, key, value, first>>

\* Wiped before the answer could be read back.
Vanish(r) ==
    /\ pc[r] = "wiped" /\ pc' = [pc EXCEPT ![r] = "vanished"]
    /\ UNCHANGED <<store, key, value, answer, first>>

\* Everything is wiped at once, and never under a request whose effect is to come.
Wipe ==
    /\ \A r \in Reqs : pc[r] # "begun"
    /\ store' = [k \in Keys |-> None]
    /\ pc' = [r \in Reqs |-> IF pc[r] = "applied" THEN "wiped" ELSE pc[r]]
    /\ UNCHANGED <<key, value, answer, first>>

Next ==
    \/ \E r \in Reqs : \/ Refuse(r) \/ Begin(r) \/ Apply(r) \/ Conflict(r)
                       \/ Answer(r) \/ Vanish(r)
    \/ Wipe

Spec == Init /\ [][Next]_vars
=============================================================================
