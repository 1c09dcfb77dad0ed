-------------------------- MODULE ContentionProofs --------------------------
(***************************************************************************)
(* Proofs about Contention, for any number of requests, any pool size and  *)
(* any number of inference slots.  The invariant is taken apart into what  *)
(* concerns the inference slots (SlotInv), what concerns one request's     *)
(* transaction (Local), and the number of connections in use.              *)
(***************************************************************************)
EXTENDS Contention, FiniteSetTheorems, SequenceTheorems, TLAPS

InSlot == {"infer"}

SlotInv ==
    /\ slots \subseteq Requests /\ slotQueue \in Seq(Requests)
    /\ Cardinality(slots) <= Concurrency
    /\ QueueIsRight
    /\ \A r \in slots : At(r, InSlot)

Local(r) ==
    /\ todo[r] \in Seq(Steps) /\ held[r] \in SUBSET Tables
    /\ r \in aborted => r \in task
    /\ r \in connWait => AtStatement(r) /\ r \notin conn
    /\ held[r] # {} => r \in conn
    /\ r \in lockWait => /\ r \in conn /\ At(r, Tables)
                         /\ Head(todo[r]) \notin held[r] /\ ~Grantable(Head(todo[r]))
    /\ r \in spare => r \in task /\ ~env.closesFirst
    /\ \A table \in held[r] : Rank(table) >= truncate.at
    /\ KeepsOrder(r) /\ ClosesLast(r)

Shape ==
    /\ env \in [poolSize : PoolSizes, closesFirst : BOOLEAN]
    /\ todo = [r \in Requests |-> todo[r]] /\ held = [r \in Requests |-> held[r]]
    /\ conn \subseteq Requests /\ connWait \subseteq Requests /\ spare \subseteq Requests
    /\ Cardinality(conn) + Cardinality(spare) <= env.poolSize
    /\ lockWait \subseteq Requests /\ task \subseteq Requests /\ aborted \subseteq Requests
    /\ truncate \in [at : 0 .. 6, waits : BOOLEAN]

Parts == Shape /\ SlotInv /\ \A r \in Requests : Local(r)

\* A request to which a step does nothing.
Same(q) ==
    /\ todo'[q] = todo[q] /\ held'[q] = held[q]
    /\ q \in conn' <=> q \in conn
    /\ q \in connWait' <=> q \in connWait
    /\ q \in spare' <=> q \in spare
    /\ q \in lockWait' <=> q \in lockWait
    /\ q \in task' <=> q \in task
    /\ q \in aborted' <=> q \in aborted

-----------------------------------------------------------------------------
(* The tables, and the number of elements of a set.                        *)

\* A table's rank is its place in TruncateOrder.
LEMMA RankFacts ==
    /\ \A t \in Tables : Rank(t) \in 1 .. 5 /\ TruncateOrder[Rank(t)] = t
    /\ \A i \in 1 .. 5 : TruncateOrder[i] \in Tables /\ Rank(TruncateOrder[i]) = i
<1>1. \A i, j \in 1 .. 5 : TruncateOrder[i] = TruncateOrder[j] => i = j
  BY DEF TruncateOrder
<1>2. \A i \in 1 .. 5 : Rank(TruncateOrder[i]) = i
  BY <1>1 DEF Rank
<1> QED BY <1>2 DEF Tables

\* The tables by name.
LEMMA TableFacts ==
    /\ Tables = {"embeddings", "documents", "bookmarks", "search_results", "feedback"}
    /\ Rank("embeddings") = 1 /\ Rank("documents") = 2 /\ Rank("bookmarks") = 3
    /\ Rank("search_results") = 4 /\ Rank("feedback") = 5
<1>1. \A i \in 1 .. 5 : i = 1 \/ i = 2 \/ i = 3 \/ i = 4 \/ i = 5
  OBVIOUS
<1>2. Tables = {"embeddings", "documents", "bookmarks", "search_results", "feedback"}
  BY <1>1 DEF Tables, TruncateOrder
<1>3. /\ TruncateOrder[1] = "embeddings" /\ TruncateOrder[2] = "documents"
      /\ TruncateOrder[3] = "bookmarks" /\ TruncateOrder[4] = "search_results"
      /\ TruncateOrder[5] = "feedback"
  BY DEF TruncateOrder
<1> QED BY <1>2, <1>3, RankFacts

\* One element more or less.
LEMMA CardinalityStep ==
    ASSUME NEW S, S \subseteq Requests, NEW r \in Requests
    PROVE  /\ Cardinality(S) \in Nat
           /\ Cardinality(S \cup {r}) \in Nat /\ Cardinality(S \cup {r}) <= Cardinality(S) + 1
           /\ Cardinality(S \ {r}) \in Nat /\ Cardinality(S \ {r}) <= Cardinality(S)
           /\ r \in S => Cardinality(S \ {r}) = Cardinality(S) - 1
<1>1. IsFiniteSet(S)
  BY FinitelyMany, FS_Subset
<1>2. IsFiniteSet(S \cup {r}) /\ IsFiniteSet(S \ {r})
  BY <1>1, FS_AddElement, FS_RemoveElement
<1>3. Cardinality(S) \in Nat /\ Cardinality(S \cup {r}) \in Nat /\ Cardinality(S \ {r}) \in Nat
  BY <1>1, <1>2, FS_CardinalityType
<1> QED BY <1>1, <1>3, FS_AddElement, FS_RemoveElement

-----------------------------------------------------------------------------
(* Sequences of steps.                                                     *)

\* What is left of a sequence of steps after its first one.
LEMMA TailFacts ==
    ASSUME NEW s \in Seq(Steps), s # <<>>
    PROVE  /\ Head(s) \in Steps /\ Head(s) = s[1] /\ 1 \in DOMAIN s
           /\ Tail(s) \in Seq(Steps)
           /\ Len(Tail(s)) = Len(s) - 1
           /\ DOMAIN Tail(s) = 1 .. Len(s) - 1 /\ DOMAIN s = 1 .. Len(s)
           /\ \A i \in DOMAIN Tail(s) : Tail(s)[i] = s[i + 1] /\ i + 1 \in DOMAIN s
           /\ s[Len(s)] # Head(s) => /\ Tail(s) # <<>>
                                     /\ Tail(s)[Len(Tail(s))] = s[Len(s)]
<1>1. Len(s) \in Nat /\ Len(s) > 0
  BY EmptySeq
<1>2. /\ Head(s) \in Steps /\ Head(s) = s[1] /\ 1 \in DOMAIN s
      /\ Tail(s) \in Seq(Steps) /\ Len(Tail(s)) = Len(s) - 1
      /\ DOMAIN Tail(s) = 1 .. Len(s) - 1 /\ DOMAIN s = 1 .. Len(s)
      /\ \A i \in DOMAIN Tail(s) : Tail(s)[i] = s[i + 1] /\ i + 1 \in DOMAIN s
  BY <1>1, HeadTailProperties
<1>3. s[Len(s)] # Head(s) => Len(s) # 1
  BY <1>2
<1>4. ASSUME Len(s) # 1
      PROVE  Tail(s) # <<>> /\ Tail(s)[Len(s) - 1] = s[Len(s)]
  <2>1. Len(s) - 1 \in DOMAIN Tail(s) /\ (Len(s) - 1) + 1 = Len(s)
    BY <1>1, <1>2, <1>4
  <2>2. Tail(s)[Len(s) - 1] = s[(Len(s) - 1) + 1]
    BY <1>2, <2>1
  <2>3. Len(Tail(s)) # 0
    BY <1>1, <1>2, <1>4
  <2>4. Tail(s) # <<>>
    BY <2>3, <1>2, EmptySeq
  <2> QED BY <2>1, <2>2, <2>4
<1> QED BY <1>2, <1>3, <1>4

\* The end of a sequence of steps from a place on.
LEMMA SuffixFacts ==
    ASSUME NEW s \in Seq(Steps), NEW i \in DOMAIN s
    PROVE  /\ SubSeq(s, i, Len(s)) \in Seq(Steps) \ {<<>>}
           /\ Head(SubSeq(s, i, Len(s))) = s[i]
           /\ SubSeq(s, i, Len(s))[Len(SubSeq(s, i, Len(s)))] = s[Len(s)]
           /\ \A j \in DOMAIN SubSeq(s, i, Len(s)) :
                \E k \in DOMAIN s : SubSeq(s, i, Len(s))[j] = s[k]
<1>1. i \in 1 .. Len(s) /\ Len(s) \in Nat
  OBVIOUS
<1>2. /\ SubSeq(s, i, Len(s)) \in Seq(Steps)
      /\ Len(SubSeq(s, i, Len(s))) = Len(s) - i + 1
      /\ \A j \in 1 .. Len(s) - i + 1 : SubSeq(s, i, Len(s))[j] = s[i + j - 1]
  BY <1>1, SubSeqProperties
<1>3. 1 \in 1 .. Len(s) - i + 1 /\ SubSeq(s, i, Len(s)) # <<>>
  BY <1>1, <1>2
<1>4. Head(SubSeq(s, i, Len(s))) = SubSeq(s, i, Len(s))[1]
  BY <1>2, <1>3
<1>5. SubSeq(s, i, Len(s))[1] = s[i]
  BY <1>1, <1>2, <1>3
<1>6. ASSUME NEW j \in DOMAIN SubSeq(s, i, Len(s))
      PROVE  \E k \in DOMAIN s : SubSeq(s, i, Len(s))[j] = s[k]
  <2>1. j \in 1 .. Len(s) - i + 1
    BY <1>2
  <2>2. i + j - 1 \in DOMAIN s
    BY <1>1, <2>1
  <2> QED BY <1>2, <2>1, <2>2
<1>7. Len(s) - i + 1 \in 1 .. Len(s) - i + 1 /\ i + (Len(s) - i + 1) - 1 = Len(s)
  BY <1>1
<1>8. SubSeq(s, i, Len(s))[Len(s) - i + 1] = s[Len(s)]
  BY <1>2, <1>7
<1> QED BY <1>2, <1>3, <1>4, <1>5, <1>6, <1>8

\* Steps that are in order stay so, whatever of them is done.
LEMMA OrderTail ==
    ASSUME NEW s \in Seq(Steps), s # <<>>, NEW tables \in SUBSET Tables, InOrder(tables, s)
    PROVE  /\ Head(s) \in Tables => InOrder(tables \cup {Head(s)}, Tail(s))
           /\ Head(s) # "commit" => InOrder(tables, Tail(s))
           /\ InOrder({}, Tail(s))
           /\ Head(s) = "background" => \A i \in DOMAIN Tail(s) : Tail(s)[i] \notin Children
<1> DEFINE t == Tail(s)
<1>1. /\ Head(s) = s[1] /\ 1 \in DOMAIN s /\ DOMAIN t = 1 .. Len(s) - 1
      /\ DOMAIN s = 1 .. Len(s) /\ Len(s) \in Nat
      /\ \A i \in DOMAIN t : t[i] = s[i + 1] /\ i + 1 \in DOMAIN s
  BY TailFacts
<1> HIDE DEF t
<1>2. ASSUME NEW i \in DOMAIN t, NEW j \in Nat, CommitBetween(s, j + 1, i + 1)
      PROVE  CommitBetween(t, j, i)
  <2>1. PICK k \in j + 2 .. i : s[k] = "commit"
    BY <1>1, <1>2 DEF CommitBetween
  <2>2. k - 1 \in j + 1 .. i - 1 /\ k - 1 \in DOMAIN t /\ (k - 1) + 1 = k
    BY <1>1, <2>1
  <2>3. t[k - 1] = s[k]
    BY <1>1, <2>2
  <2> QED BY <2>1, <2>2, <2>3 DEF CommitBetween
<1>3. ASSUME NEW i \in DOMAIN t, CommitBetween(s, 0, i + 1)
      PROVE  s[1] = "commit" \/ CommitBetween(t, 0, i)
  <2>1. PICK k \in 1 .. i : s[k] = "commit"
    BY <1>1, <1>3 DEF CommitBetween
  <2>2. CASE k = 1
    BY <2>1, <2>2
  <2>3. CASE k # 1
    <3>1. k \in 0 + 1 + 1 .. i + 1 - 1
      BY <1>1, <2>1, <2>3
    <3>2. CommitBetween(s, 0 + 1, i + 1)
      BY <2>1, <3>1 DEF CommitBetween
    <3> QED BY <1>2, <3>2
  <2> QED BY <2>2, <2>3
<1>4. ASSUME NEW i \in DOMAIN t, t[i] \in Children
      PROVE  /\ \A j \in 1 .. i - 1 :
                  /\ t[j] # "background"
                  /\ t[j] \in Tables => Rank(t[j]) <= Rank(t[i]) \/ CommitBetween(t, j, i)
             /\ \A table \in tables : \/ Rank(table) <= Rank(t[i])
                                      \/ s[1] = "commit" \/ CommitBetween(t, 0, i)
             /\ s[1] \in Tables => Rank(s[1]) <= Rank(t[i]) \/ CommitBetween(t, 0, i)
             /\ s[1] # "background"
  <2>1. i + 1 \in DOMAIN s /\ s[i + 1] = t[i] /\ s[i + 1] \in Children
    BY <1>1, <1>4
  <2>2. \A j \in 1 .. i - 1 : /\ s[j + 1] # "background"
                              /\ s[j + 1] \in Tables => \/ Rank(s[j + 1]) <= Rank(s[i + 1])
                                                        \/ CommitBetween(s, j + 1, i + 1)
    BY <2>1, <1>1 DEF InOrder
  <2>3. \A j \in 1 .. i - 1 : j \in DOMAIN t /\ j \in Nat /\ t[j] = s[j + 1]
    BY <1>1
  <2>4. /\ s[1] # "background"
        /\ s[1] \in Tables => Rank(s[1]) <= Rank(s[i + 1]) \/ CommitBetween(s, 1, i + 1)
    BY <2>1, <1>1 DEF InOrder
  <2>5. \A table \in tables : Rank(table) <= Rank(s[i + 1]) \/ CommitBetween(s, 0, i + 1)
    BY <2>1 DEF InOrder
  <2>6. CommitBetween(s, 1, i + 1) => CommitBetween(t, 0, i)
    BY <1>2
  <2> QED BY <2>1, <2>2, <2>3, <2>4, <2>5, <2>6, <1>2, <1>3
<1>5. s[1] \in Tables => s[1] # "commit"
  BY TableFacts
<1>6. s[1] \in Tables => InOrder(tables \cup {s[1]}, t)
  BY <1>4, <1>5 DEF InOrder
<1>7. s[1] # "commit" => InOrder(tables, t)
  BY <1>4 DEF InOrder
<1>8. InOrder({}, t)
  BY <1>4 DEF InOrder
<1> QED BY <1>1, <1>4, <1>6, <1>7, <1>8 DEF t

\* What each handler does begins in order.
LEMMA HandlerFacts ==
    ASSUME NEW s \in Handlers
    PROVE  s \in Seq(Steps) /\ s # <<>> /\ s[Len(s)] = "close" /\ InOrder({}, s)
<1>1. CASE s = search
  BY <1>1, TableFacts DEF search, Steps, InOrder, CommitBetween, Children
<1>2. CASE s = search_by_user
  BY <1>2, TableFacts DEF search_by_user, Steps, InOrder, CommitBetween, Children
<1>3. CASE s = search_cached
  BY <1>3, TableFacts DEF search_cached, Steps, InOrder, CommitBetween, Children
<1>4. CASE s = search_hybrid
  BY <1>4, TableFacts DEF search_hybrid, Steps, InOrder, CommitBetween, Children
<1>5. CASE s = search_rag
  BY <1>5, TableFacts DEF search_rag, Steps, InOrder, CommitBetween, Children
<1>6. CASE s = submit_feedback
  BY <1>6, TableFacts DEF submit_feedback, Steps, InOrder, CommitBetween, Children
<1>7. CASE s = create_bookmark
  BY <1>7, TableFacts DEF create_bookmark, Steps, InOrder, CommitBetween, Children
<1>8. CASE s = list_bookmarks
  BY <1>8, TableFacts DEF list_bookmarks, Steps, InOrder, CommitBetween, Children
<1>9. CASE s = get_history
  BY <1>9, TableFacts DEF get_history, Steps, InOrder, CommitBetween, Children
<1>10. CASE s = warm_popular_cache
  BY <1>10, TableFacts DEF warm_popular_cache, Steps, InOrder, CommitBetween, Children
<1>11. CASE s = ready
  BY <1>11, TableFacts DEF ready, Steps, InOrder, CommitBetween, Children
<1> QED
  BY <1>1, <1>2, <1>3, <1>4, <1>5, <1>6, <1>7, <1>8, <1>9, <1>10, <1>11 DEF Handlers

-----------------------------------------------------------------------------
(* One request's transaction.                                              *)

\* What does not touch a request, nor the deployment and TRUNCATE, keeps what is true
\* of it.
LEMMA OthersKeep ==
    ASSUME NEW q \in Requests, Local(q), Same(q), UNCHANGED <<env, truncate>>
    PROVE  Local(q)'
<1>1. \A t : Grantable(t)' <=> Grantable(t)
  BY DEF Grantable
<1>2. \A steps : At(q, steps)' <=> At(q, steps)
  BY DEF At, Same
<1>3. AtStatement(q)' <=> AtStatement(q)
  BY <1>2 DEF AtStatement
<1>4. KeepsOrder(q)' <=> KeepsOrder(q)
  BY DEF KeepsOrder, Same
<1>5. ClosesLast(q)' <=> ClosesLast(q)
  BY DEF ClosesLast, Same
<1> QED BY <1>1, <1>2, <1>3, <1>4, <1>5 DEF Local, Same

\* A request that left: nothing of it is anywhere.
LEMMA LeaveKeeps ==
    ASSUME Shape, \A q \in Requests : Local(q), NEW r \in Requests, Leave(r),
           UNCHANGED <<env, truncate>>
    PROVE  Shape' /\ \A q \in Requests : Local(q)'
<1>1. /\ todo' = [todo EXCEPT ![r] = <<>>] /\ held' = [held EXCEPT ![r] = {}]
      /\ conn' = conn \ {r} /\ connWait' = connWait \ {r} /\ spare' = spare \ {r}
      /\ lockWait' = lockWait \ {r} /\ task' = task \ {r} /\ aborted' = aborted \ {r}
  BY DEF Leave, EndSession
<1>2. /\ Cardinality(conn') \in Nat /\ Cardinality(conn') <= Cardinality(conn)
      /\ Cardinality(spare') \in Nat /\ Cardinality(spare') <= Cardinality(spare)
      /\ Cardinality(conn) \in Nat /\ Cardinality(spare) \in Nat /\ env.poolSize \in Nat
  BY <1>1, CardinalityStep, Capacities DEF Shape
<1>3. Shape'
  <2>1. Cardinality(conn') + Cardinality(spare') <= env'.poolSize
    BY <1>2 DEF Shape
  <2>2. /\ todo' = [q \in Requests |-> todo'[q]] /\ held' = [q \in Requests |-> held'[q]]
    BY <1>1 DEF Shape
  <2> QED BY <1>1, <2>1, <2>2 DEF Shape
<1>4. \A q \in Requests \ {r} : Local(q)'
  BY <1>1, OthersKeep DEF Shape, Same
<1>5. todo'[r] = <<>> /\ held'[r] = {}
  BY <1>1 DEF Shape
<1>6. KeepsOrder(r)'
  BY <1>5, <1>1 DEF KeepsOrder, InOrder
<1>7. Local(r)'
  BY <1>1, <1>5, <1>6 DEF Local, ClosesLast
<1> QED BY <1>3, <1>4, <1>7

\* What is left of a task after a query that failed.
LEMMA SkipFacts ==
    ASSUME NEW r \in Requests, Local(r), todo[r] # <<>>, Head(todo[r]) # "close", SkipQuery(r)
    PROVE  \E new \in Seq(Steps) :
              /\ todo' = [todo EXCEPT ![r] = new]
              /\ new # <<>> /\ Head(new) \in {"infer", "close"}
              /\ new[Len(new)] = "close"
              /\ r \in task => \A i \in DOMAIN new : new[i] \notin Children
<1> DEFINE rest == Tail(todo[r])
<1>1. /\ rest \in Seq(Steps)
      /\ \A i \in DOMAIN rest : \E k \in DOMAIN todo[r] : rest[i] = todo[r][k]
      /\ rest[Len(rest)] = "close"
  BY TailFacts DEF Local, ClosesLast
<1>2. \A s : (\A i \in DOMAIN s : \E k \in DOMAIN rest : s[i] = rest[k])
                => (r \in task => \A i \in DOMAIN s : s[i] \notin Children)
  BY <1>1 DEF Local, KeepsOrder
<1>3. CASE \E i \in DOMAIN rest :
              rest[i] = "infer" /\ todo' = [todo EXCEPT ![r] = SubSeq(rest, i, Len(rest))]
  <2>1. PICK i \in DOMAIN rest : todo' = [todo EXCEPT ![r] = SubSeq(rest, i, Len(rest))]
                                 /\ rest[i] = "infer"
    BY <1>3
  <2> DEFINE new == SubSeq(rest, i, Len(rest))
  <2>2. /\ new \in Seq(Steps) \ {<<>>} /\ Head(new) = rest[i] /\ new[Len(new)] = "close"
        /\ \A j \in DOMAIN new : \E k \in DOMAIN rest : new[j] = rest[k]
    BY <1>1, SuffixFacts
  <2> QED BY <1>2, <2>1, <2>2
<1>4. CASE todo' = [todo EXCEPT ![r] = <<"close">>]
  <2> DEFINE new == <<"close">>
  <2>1. new \in Seq(Steps) /\ new # <<>> /\ Head(new) = "close" /\ new[Len(new)] = "close"
    BY DEF Steps
  <2>2. \A i \in DOMAIN new : new[i] \notin Children
    BY DEF Children
  <2> QED BY <1>4, <2>1, <2>2
<1> QED BY <1>3, <1>4 DEF SkipQuery

\* A request whose statement failed.
LEMMA FailKeeps ==
    ASSUME Shape, \A q \in Requests : Local(q), NEW r \in Requests, todo[r] # <<>>,
           Head(todo[r]) # "close", Fail(r), UNCHANGED <<env, truncate>>
    PROVE  /\ Shape' /\ \A q \in Requests : Local(q)'
           /\ \A q \in Requests \ {r} : todo'[q] = todo[q]
<1>1. CASE r \notin task /\ Leave(r)
  BY <1>1, LeaveKeeps DEF Leave, Shape
<1>2. CASE /\ r \in task /\ SkipQuery(r)
           /\ held' = [held EXCEPT ![r] = {}]
           /\ connWait' = connWait \ {r} /\ lockWait' = lockWait \ {r}
           /\ aborted' = aborted \cup ({r} \cap conn)
           /\ UNCHANGED <<conn, spare, task>>
  <2>1. PICK new \in Seq(Steps) :
              /\ todo' = [todo EXCEPT ![r] = new]
              /\ new # <<>> /\ Head(new) \in {"infer", "close"}
              /\ new[Len(new)] = "close"
              /\ r \in task => \A i \in DOMAIN new : new[i] \notin Children
    BY <1>2, SkipFacts
  <2>2. Shape'
    BY <1>2, <2>1 DEF Shape
  <2>3. \A q \in Requests \ {r} : Local(q)'
    BY <1>2, <2>1, OthersKeep DEF Shape, Same
  <2>4. todo'[r] = new /\ held'[r] = {}
    BY <1>2, <2>1 DEF Shape
  <2>5. KeepsOrder(r)'
    BY <1>2, <2>1, <2>4 DEF KeepsOrder, InOrder
  <2>6. Local(r)'
    BY <1>2, <2>1, <2>4, <2>5 DEF Local, ClosesLast
  <2> QED BY <2>1, <2>2, <2>3, <2>6 DEF Shape
<1> QED BY <1>1, <1>2 DEF Fail

\* What is left of a request's steps after its first one.
LEMMA AdvanceFacts ==
    ASSUME Shape, NEW r \in Requests, Local(r), todo[r] # <<>>, Advance(r)
    PROVE  /\ todo'[r] = Tail(todo[r]) /\ todo'[r] \in Seq(Steps)
           /\ todo' = [q \in Requests |-> todo'[q]]
           /\ \A q \in Requests \ {r} : todo'[q] = todo[q]
           /\ Head(todo[r]) \in Tables => InOrder(held[r] \cup {Head(todo[r])}, todo'[r])
           /\ Head(todo[r]) # "commit" => InOrder(held[r], todo'[r])
           /\ InOrder({}, todo'[r])
           /\ Head(todo[r]) # "close" => todo'[r] # <<>> /\ ClosesLast(r)'
           /\ Head(todo[r]) = "background" \/ r \in task
                => \A i \in DOMAIN todo'[r] : todo'[r][i] \notin Children
<1>1. /\ todo'[r] = Tail(todo[r]) /\ todo' = [q \in Requests |-> todo'[q]]
      /\ \A q \in Requests \ {r} : todo'[q] = todo[q]
  BY DEF Advance, Shape
<1>2. /\ Tail(todo[r]) \in Seq(Steps)
      /\ r \in task => \A i \in DOMAIN Tail(todo[r]) : Tail(todo[r])[i] \notin Children
  BY TailFacts DEF Local, KeepsOrder
<1>3. Head(todo[r]) # "close" => /\ Tail(todo[r]) # <<>>
                                 /\ Tail(todo[r])[Len(Tail(todo[r]))] = "close"
  BY TailFacts DEF Local, ClosesLast
<1> QED BY <1>1, <1>2, <1>3, OrderTail DEF Local, KeepsOrder, ClosesLast

\* A request that arrives holds nothing and waits for nothing.
LEMMA ArriveKeeps ==
    ASSUME Shape, \A q \in Requests : Local(q), NEW r \in Requests, Arrive(r)
    PROVE  Shape' /\ \A q \in Requests : Local(q)'
<1>1. PICK handler \in Handlers : todo' = [todo EXCEPT ![r] = handler]
  BY DEF Arrive
<1>2. /\ todo[r] = <<>>
      /\ UNCHANGED <<env, conn, connWait, spare, held, lockWait, task, aborted, truncate>>
  BY DEF Arrive, poolVars, lockVars, taskVars
<1>3. Shape'
  BY <1>1, <1>2 DEF Shape
<1>4. \A q \in Requests \ {r} : Local(q)'
  BY <1>1, <1>2, OthersKeep DEF Shape, Same
<1>5. todo'[r] = handler
  BY <1>1 DEF Shape
<1>6. /\ r \notin conn /\ r \notin task /\ held[r] = {} /\ r \notin connWait
      /\ r \notin lockWait /\ r \notin spare /\ r \notin aborted
  BY <1>2 DEF Local, ClosesLast, AtStatement, At
<1>7. KeepsOrder(r)' /\ ClosesLast(r)'
  BY <1>2, <1>5, <1>6, HandlerFacts DEF KeepsOrder, ClosesLast
<1>8. Local(r)'
  BY <1>2, <1>5, <1>6, <1>7, HandlerFacts DEF Local
<1> QED BY <1>3, <1>4, <1>8

\* A commit lets go of the connection and of every lock.
LEMMA CommitKeeps ==
    ASSUME Shape, \A q \in Requests : Local(q), NEW r \in Requests, Commit(r)
    PROVE  Shape' /\ \A q \in Requests : Local(q)'
<1>1. /\ todo[r] # <<>> /\ Head(todo[r]) = "commit" /\ Advance(r)
      /\ conn' = conn \ {r} /\ held' = [held EXCEPT ![r] = {}]
      /\ UNCHANGED <<env, connWait, spare, lockWait, task, aborted, truncate>>
  BY DEF Commit, At, EndSession, taskVars
<1>2. /\ todo'[r] \in Seq(Steps) /\ todo' = [q \in Requests |-> todo'[q]]
      /\ \A q \in Requests \ {r} : todo'[q] = todo[q]
      /\ InOrder({}, todo'[r]) /\ ClosesLast(r)'
      /\ r \in task => \A i \in DOMAIN todo'[r] : todo'[r][i] \notin Children
  BY <1>1, AdvanceFacts
<1>3. /\ Cardinality(conn') \in Nat /\ Cardinality(conn') <= Cardinality(conn)
      /\ Cardinality(conn) \in Nat /\ Cardinality(spare) \in Nat /\ env.poolSize \in Nat
  BY <1>1, CardinalityStep, Capacities DEF Shape
<1>4. Shape'
  <2>1. Cardinality(conn') + Cardinality(spare') <= env'.poolSize
    BY <1>1, <1>3 DEF Shape
  <2>2. held' = [q \in Requests |-> held'[q]]
    BY <1>1 DEF Shape
  <2> QED BY <1>1, <1>2, <2>1, <2>2 DEF Shape
<1>5. \A q \in Requests \ {r} : Local(q)'
  BY <1>1, <1>2, OthersKeep DEF Shape, Same
<1>6. held'[r] = {} /\ KeepsOrder(r)'
  BY <1>1, <1>2 DEF Shape, KeepsOrder
<1>7. r \notin connWait /\ r \notin lockWait
  BY <1>1, TableFacts DEF Local, AtStatement, At
<1>8. Local(r)'
  BY <1>1, <1>2, <1>6, <1>7 DEF Local
<1> QED BY <1>4, <1>5, <1>8

\* A connection is taken, or asked for.
LEMMA CheckoutKeeps ==
    ASSUME Shape, \A q \in Requests : Local(q), NEW r \in Requests,
           Checkout(r) \/ GetConnection(r)
    PROVE  Shape' /\ \A q \in Requests : Local(q)'
<1>1. /\ AtStatement(r) /\ r \notin conn
      /\ UNCHANGED <<env, todo, spare, held, lockWait, task, aborted, truncate>>
      /\ \/ FreeConnection /\ conn' = conn \cup {r} /\ connWait' = connWait \ {r}
         \/ conn' = conn /\ connWait' = connWait \cup {r}
  <2>1. CASE Checkout(r)
    BY <2>1 DEF Checkout, lockVars, taskVars
  <2>2. CASE GetConnection(r)
    BY <2>2 DEF GetConnection, lockVars, taskVars, Local
  <2> QED BY <2>1, <2>2
<1>2. Cardinality(conn') + Cardinality(spare') <= env'.poolSize
  <2>1. /\ Cardinality(conn) \in Nat /\ Cardinality(spare) \in Nat /\ env.poolSize \in Nat
        /\ Cardinality(conn \cup {r}) \in Nat
        /\ Cardinality(conn \cup {r}) <= Cardinality(conn) + 1
    BY CardinalityStep, Capacities DEF Shape
  <2>2. CASE FreeConnection /\ conn' = conn \cup {r}
    <3>1. Cardinality(conn) + Cardinality(spare) < env.poolSize
      BY <2>2 DEF FreeConnection
    <3>2. Cardinality(conn \cup {r}) + Cardinality(spare) <= env.poolSize
      BY <2>1, <3>1
    <3> QED BY <1>1, <2>2, <3>2
  <2>3. CASE conn' = conn
    BY <1>1, <2>3 DEF Shape
  <2> QED BY <1>1, <2>2, <2>3
<1>3. Shape'
  BY <1>1, <1>2 DEF Shape
<1>4. \A q \in Requests \ {r} : Local(q)'
  BY <1>1, OthersKeep DEF Shape, Same
<1>5. KeepsOrder(r)' /\ AtStatement(r)' /\ held[r] = {} /\ r \notin lockWait
  BY <1>1 DEF Local, KeepsOrder, AtStatement, At
<1>6. ClosesLast(r)'
  BY <1>1 DEF Local, ClosesLast, AtStatement, At
<1>7. Local(r)'
  BY <1>1, <1>5, <1>6 DEF Local
<1> QED BY <1>3, <1>4, <1>7

\* A lock is had only if TRUNCATE has not come to its table, and is waited for only if
\* it has.
LEMMA LockKeeps ==
    ASSUME Shape, \A q \in Requests : Local(q), NEW r \in Requests, Lock(r)
    PROVE  Shape' /\ \A q \in Requests : Local(q)'
<1> DEFINE table == Head(todo[r])
<1>1. /\ todo[r] # <<>> /\ table \in Tables \cup {"others"} /\ table # "close"
      /\ r \in conn /\ r \notin aborted /\ r \notin lockWait /\ r \notin connWait
      /\ UNCHANGED <<env, conn, connWait, spare, task, aborted, truncate>>
  BY TableFacts DEF Lock, AtStatement, At, poolVars, taskVars, Local
<1>2. \A t : Grantable(t)' <=> Grantable(t)
  BY <1>1 DEF Grantable
<1>3. ASSUME Advance(r), lockWait' = lockWait,
             \/ held' = held
             \/ /\ held' = [held EXCEPT ![r] = held[r] \cup {table}]
                /\ table \in Tables /\ Grantable(table)
      PROVE  Shape' /\ \A q \in Requests : Local(q)'
  <2>1. /\ todo'[r] \in Seq(Steps) /\ todo' = [q \in Requests |-> todo'[q]]
        /\ \A q \in Requests \ {r} : todo'[q] = todo[q]
        /\ table \in Tables => InOrder(held[r] \cup {table}, todo'[r])
        /\ table # "commit" => InOrder(held[r], todo'[r])
        /\ ClosesLast(r)'
        /\ r \in task => \A i \in DOMAIN todo'[r] : todo'[r][i] \notin Children
    BY <1>1, <1>3, AdvanceFacts
  <2>2. Shape'
    BY <1>1, <1>3, <2>1 DEF Shape
  <2>3. \A q \in Requests \ {r} : Local(q)'
    BY <1>1, <1>3, <2>1, OthersKeep DEF Shape, Same
  <2>4. \/ held'[r] = held[r]
        \/ held'[r] = held[r] \cup {table} /\ table \in Tables /\ Grantable(table)
    BY <1>3 DEF Shape
  <2>5. table # "commit"
    BY <1>1, TableFacts
  <2>6. KeepsOrder(r)'
    BY <1>1, <2>1, <2>4, <2>5 DEF KeepsOrder
  <2>7. held'[r] \in SUBSET Tables /\ \A t \in held'[r] : Rank(t) >= truncate'.at
    BY <1>1, <2>4 DEF Local, Grantable
  <2>8. Local(r)'
    BY <1>1, <1>3, <2>1, <2>6, <2>7 DEF Local
  <2> QED BY <2>2, <2>3, <2>8
<1>4. CASE /\ table \in Tables \ held[r] /\ ~Grantable(table)
           /\ lockWait' = lockWait \cup {r} /\ UNCHANGED <<todo, held>>
  <2>1. Shape'
    BY <1>1, <1>4 DEF Shape
  <2>2. \A q \in Requests \ {r} : Local(q)'
    BY <1>1, <1>4, OthersKeep DEF Shape, Same
  <2>3. KeepsOrder(r)' /\ ClosesLast(r)' /\ At(r, Tables)'
    BY <1>1, <1>4 DEF Local, KeepsOrder, ClosesLast, At
  <2>4. Local(r)'
    BY <1>1, <1>2, <1>4, <2>3 DEF Local
  <2> QED BY <2>1, <2>2, <2>4
<1>5. CASE table \in held[r] \cup {"others"} /\ Advance(r) /\ UNCHANGED lockVars
  <2>1. lockWait' = lockWait /\ held' = held
    BY <1>5 DEF lockVars
  <2> QED BY <1>3, <1>5, <2>1
<1>6. CASE /\ table \in Tables \ held[r] /\ Grantable(table)
           /\ held' = [held EXCEPT ![r] = held[r] \cup {table}]
           /\ Advance(r) /\ UNCHANGED lockWait
  BY <1>3, <1>6
<1> QED BY <1>4, <1>5, <1>6 DEF Lock

\* The language model answers or fails: only the close is left.
LEMMA SynthesizeKeeps ==
    ASSUME Shape, \A q \in Requests : Local(q), NEW r \in Requests, todo[r] # <<>>,
           Head(todo[r]) \in {"llm", "infer"}, Advance(r),
           UNCHANGED <<env, conn, connWait, spare, held, lockWait, task, aborted, truncate>>
    PROVE  /\ Shape' /\ \A q \in Requests : Local(q)'
           /\ \A q \in Requests \ {r} : todo'[q] = todo[q]
<1>1. /\ todo'[r] \in Seq(Steps) /\ todo' = [q \in Requests |-> todo'[q]]
      /\ \A q \in Requests \ {r} : todo'[q] = todo[q]
      /\ InOrder(held[r], todo'[r]) /\ ClosesLast(r)'
      /\ r \in task => \A i \in DOMAIN todo'[r] : todo'[r][i] \notin Children
  BY AdvanceFacts
<1>2. Shape'
  BY <1>1 DEF Shape
<1>3. \A q \in Requests \ {r} : Local(q)'
  BY <1>1, OthersKeep DEF Shape, Same
<1>4. KeepsOrder(r)'
  BY <1>1 DEF KeepsOrder
<1>5. r \notin connWait /\ r \notin lockWait
  BY TableFacts DEF Local, AtStatement, At
<1>6. Local(r)'
  BY <1>1, <1>4, <1>5 DEF Local
<1> QED BY <1>1, <1>2, <1>3, <1>6

\* Where the request's connection goes when its background task begins, the number of
\* connections in use does not grow.
LEMMA BackgroundKeeps ==
    ASSUME Shape, \A q \in Requests : Local(q), NEW r \in Requests, Background(r)
    PROVE  Shape' /\ \A q \in Requests : Local(q)'
<1>1. /\ todo[r] # <<>> /\ Head(todo[r]) = "background" /\ Advance(r)
      /\ conn' = conn \ {r} /\ held' = [held EXCEPT ![r] = {}]
      /\ spare' = IF env.closesFirst THEN spare ELSE spare \cup ({r} \cap conn)
      /\ task' = task \cup {r}
      /\ UNCHANGED <<env, connWait, lockWait, aborted, truncate>>
  BY DEF Background, At, EndSession
<1>2. /\ todo'[r] \in Seq(Steps) /\ todo' = [q \in Requests |-> todo'[q]]
      /\ \A q \in Requests \ {r} : todo'[q] = todo[q]
      /\ InOrder({}, todo'[r]) /\ ClosesLast(r)' /\ todo'[r] # <<>>
      /\ \A i \in DOMAIN todo'[r] : todo'[r][i] \notin Children
  BY <1>1, AdvanceFacts
<1>3. Cardinality(conn') + Cardinality(spare') <= env'.poolSize
  <2>1. /\ Cardinality(conn) \in Nat /\ Cardinality(spare) \in Nat /\ env.poolSize \in Nat
        /\ Cardinality(conn \ {r}) \in Nat /\ Cardinality(conn \ {r}) <= Cardinality(conn)
        /\ r \in conn => Cardinality(conn \ {r}) = Cardinality(conn) - 1
        /\ Cardinality(spare \cup {r}) \in Nat
        /\ Cardinality(spare \cup {r}) <= Cardinality(spare) + 1
        /\ Cardinality(conn) + Cardinality(spare) <= env.poolSize
    BY CardinalityStep, Capacities DEF Shape
  <2>2. CASE spare' = spare
    <3>1. Cardinality(conn \ {r}) + Cardinality(spare) <= env.poolSize
      BY <2>1
    <3> QED BY <1>1, <2>2, <3>1
  <2>3. CASE r \in conn /\ spare' = spare \cup {r}
    <3>1. Cardinality(conn \ {r}) + Cardinality(spare \cup {r}) <= env.poolSize
      BY <2>1, <2>3
    <3> QED BY <1>1, <2>3, <3>1
  <2>4. r \notin conn => spare \cup ({r} \cap conn) = spare
    OBVIOUS
  <2>5. r \in conn => spare \cup ({r} \cap conn) = spare \cup {r}
    OBVIOUS
  <2> QED BY <1>1, <2>2, <2>3, <2>4, <2>5
<1>4. spare' \subseteq Requests /\ (spare' = spare \/ ~env.closesFirst)
  BY <1>1 DEF Shape
<1>5. held' = [q \in Requests |-> held'[q]] /\ held'[r] = {}
  BY <1>1 DEF Shape
<1>6. Shape'
  BY <1>1, <1>2, <1>3, <1>4, <1>5 DEF Shape
<1>7. \A q \in Requests \ {r} : Same(q)
  BY <1>1, <1>2 DEF Shape, Same
<1>8. \A q \in Requests \ {r} : Local(q)'
  BY <1>1, <1>7, OthersKeep
<1>9. KeepsOrder(r)'
  BY <1>2, <1>5 DEF KeepsOrder
<1>10. r \notin connWait /\ r \notin lockWait
  BY <1>1, TableFacts DEF Local, AtStatement, At
<1>11. r \in spare => ~env.closesFirst
  BY DEF Local
<1>12. Local(r)'
  BY <1>1, <1>2, <1>4, <1>5, <1>9, <1>10, <1>11 DEF Local
<1> QED BY <1>6, <1>8, <1>12

\* TRUNCATE takes a table only when no request has it, and goes past none.
LEMMA TruncateKeeps ==
    ASSUME Shape, \A q \in Requests : Local(q),
           TruncateBegin \/ TruncateLock
    PROVE  /\ Shape' /\ \A q \in Requests : Local(q)'
           /\ UNCHANGED <<todo, slots, slotQueue>>
<1>1. UNCHANGED <<env, todo, conn, connWait, spare, slots, slotQueue, held, lockWait,
                  task, aborted>>
  BY DEF TruncateBegin, TruncateLock, poolVars, slotVars, lockVars, taskVars
<1>2. CASE TruncateBegin
  <2>1. truncate.at = 0 /\ truncate' = [at |-> 1, waits |-> FALSE]
    BY <1>2 DEF TruncateBegin
  <2>2. Shape'
    BY <1>1, <2>1 DEF Shape
  <2>3. ASSUME NEW q \in Requests  PROVE Local(q)'
    <3>1. \A t \in Tables : Grantable(t)
      BY <2>1, RankFacts DEF Grantable, Shape
    <3>2. q \notin lockWait
      BY <3>1 DEF Local, At
    <3>3. \A t \in held'[q] : Rank(t) >= truncate'.at
      BY <1>1, <2>1, RankFacts DEF Local
    <3>4. KeepsOrder(q)' /\ ClosesLast(q)' /\ (AtStatement(q)' <=> AtStatement(q))
      BY <1>1 DEF Local, KeepsOrder, ClosesLast, AtStatement, At
    <3> QED BY <1>1, <3>2, <3>3, <3>4 DEF Local
  <2> QED BY <1>1, <2>2, <2>3
<1>3. CASE TruncateLock
  <2> DEFINE table == TruncateOrder[truncate.at]
  <2>1. /\ truncate.at \in 1 .. 5 /\ table \in Tables /\ Rank(table) = truncate.at
    BY <1>3, RankFacts DEF TruncateLock
  <2>2. \/ /\ truncate' = [at |-> truncate.at + 1, waits |-> FALSE]
           /\ \A q \in Requests : table \notin held[q]
        \/ truncate' = [at |-> truncate.at, waits |-> TRUE]
    BY <1>3 DEF TruncateLock, Readers, Shape
  <2>3. Shape'
    <3>1. \A n \in 1 .. 5 : n + 1 \in 0 .. 6 /\ n \in 0 .. 6
      OBVIOUS
    <3>2. \A n \in 0 .. 6, b \in BOOLEAN :
             [at |-> n, waits |-> b] \in [at : 0 .. 6, waits : BOOLEAN]
      OBVIOUS
    <3>3. truncate' \in [at : 0 .. 6, waits : BOOLEAN]
      BY <2>1, <2>2, <3>1, <3>2
    <3> QED BY <1>1, <3>3 DEF Shape
  <2>4. ASSUME NEW q \in Requests  PROVE Local(q)'
    <3>1. \A t \in Tables : Rank(t) \in Nat /\ (Rank(t) = truncate.at => t = table)
      BY <2>1, RankFacts
    <3>2. \A t \in Tables : ~Grantable(t) => ~Grantable(t)'
      BY <2>1, <2>2, <3>1 DEF Grantable, Shape
    <3>3. \A t \in held'[q] : Rank(t) >= truncate'.at
      BY <1>1, <2>1, <2>2, <3>1 DEF Local
    <3>4. /\ KeepsOrder(q)' /\ ClosesLast(q)' /\ (AtStatement(q)' <=> AtStatement(q))
          /\ (At(q, Tables)' <=> At(q, Tables))
      BY <1>1 DEF Local, KeepsOrder, ClosesLast, AtStatement, At
    <3>5. q \in lockWait => Head(todo[q]) \in Tables
      BY DEF Local, At
    <3> QED BY <1>1, <3>2, <3>3, <3>4, <3>5 DEF Local
  <2> QED BY <1>1, <2>3, <2>4
<1> QED BY <1>2, <1>3

\* When TRUNCATE's transaction ends, everyone who waited for one of its tables has it.
LEMMA TruncateEndKeeps ==
    ASSUME Shape, \A q \in Requests : Local(q), TruncateEnd
    PROVE  /\ Shape' /\ \A q \in Requests : Local(q)'
           /\ \A q \in Requests : q \in lockWait => At(q, Tables)
           /\ \A q \in Requests : q \notin lockWait => todo'[q] = todo[q]
           /\ UNCHANGED <<slots, slotQueue>>
<1>1. /\ truncate' = [at |-> 0, waits |-> FALSE] /\ lockWait' = {}
      /\ UNCHANGED <<env, conn, connWait, spare, slots, slotQueue, task, aborted>>
  BY DEF TruncateEnd, poolVars, slotVars, taskVars
<1>2. /\ todo' = [q \in Requests |-> todo'[q]] /\ held' = [q \in Requests |-> held'[q]]
      /\ \A q \in Requests : /\ q \notin lockWait => todo'[q] = todo[q] /\ held'[q] = held[q]
                             /\ q \in lockWait =>
                                  /\ todo'[q] = Tail(todo[q])
                                  /\ held'[q] = held[q] \cup {Head(todo[q])}
  BY DEF TruncateEnd
<1>3. Shape'
  BY <1>1, <1>2 DEF Shape
<1>4. ASSUME NEW q \in Requests  PROVE Local(q)'
  <2>1. held'[q] \in SUBSET Tables /\ todo'[q] \in Seq(Steps) /\ KeepsOrder(q)'
    <3>1. CASE q \notin lockWait
      BY <1>1, <1>2, <3>1 DEF Local, KeepsOrder
    <3>2. CASE q \in lockWait
      <4>1. /\ todo[q] # <<>> /\ Head(todo[q]) \in Tables /\ todo[q] \in Seq(Steps)
            /\ held[q] \in SUBSET Tables /\ InOrder(held[q], todo[q])
        BY <3>2 DEF Local, At, KeepsOrder
      <4>2. InOrder(held[q] \cup {Head(todo[q])}, Tail(todo[q]))
        BY <4>1, OrderTail
      <4>3. Tail(todo[q]) \in Seq(Steps)
        BY <4>1, TailFacts
      <4>4. q \in task => \A i \in DOMAIN Tail(todo[q]) : Tail(todo[q])[i] \notin Children
        BY <4>1, TailFacts DEF Local, KeepsOrder
      <4> QED BY <1>1, <1>2, <3>2, <4>1, <4>2, <4>3, <4>4 DEF KeepsOrder
    <3> QED BY <3>1, <3>2
  <2>2. ClosesLast(q)'
    <3>1. CASE q \notin lockWait
      BY <1>1, <1>2, <3>1 DEF Local, ClosesLast
    <3>2. CASE q \in lockWait
      <4>1. todo[q] # <<>> /\ Head(todo[q]) # "close" /\ todo[q] \in Seq(Steps)
        BY <3>2, TableFacts DEF Local, At
      <4>2. todo[q][Len(todo[q])] = "close"
        BY <4>1 DEF Local, ClosesLast
      <4>3. Tail(todo[q]) # <<>> /\ Tail(todo[q])[Len(Tail(todo[q]))] = "close"
        BY <4>1, <4>2, TailFacts
      <4> QED BY <1>2, <3>2, <4>3 DEF ClosesLast
    <3> QED BY <3>1, <3>2
  <2>3. \A t \in held'[q] : Rank(t) >= truncate'.at
    BY <1>1, <2>1, RankFacts
  <2>4. q \in connWait => AtStatement(q)' /\ held[q] = {}
    <3> SUFFICES ASSUME q \in connWait  PROVE AtStatement(q)' /\ held[q] = {}
      OBVIOUS
    <3>1. q \notin conn /\ q \notin lockWait /\ AtStatement(q) /\ held[q] = {}
      BY DEF Local
    <3> QED BY <1>2, <3>1 DEF AtStatement, At
  <2>5. held'[q] # {} => q \in conn
    BY <1>2 DEF Local
  <2> QED BY <1>1, <2>1, <2>2, <2>3, <2>4, <2>5 DEF Local
<1> QED BY <1>1, <1>2, <1>3, <1>4 DEF Local

-----------------------------------------------------------------------------
(* The inference slots.                                                    *)

\* A step that leaves whoever is in a slot or queues for one where it is.
LEMMA SlotsStay ==
    ASSUME SlotInv, UNCHANGED slotVars,
           \A q \in Requests : At(q, InSlot) => todo'[q] = todo[q]
    PROVE  SlotInv'
<1>1. slots' = slots /\ slotQueue' = slotQueue
  BY DEF slotVars
<1>2. \A q \in Requests : At(q, InSlot) => At(q, InSlot)'
  BY DEF At, InSlot
<1>3. \A i \in DOMAIN slotQueue : slotQueue[i] \in Requests
  BY DEF SlotInv
<1>4. QueueIsRight'
  BY <1>1, <1>2, <1>3 DEF SlotInv, QueueIsRight, InSlot
<1> QED BY <1>1, <1>2, <1>4 DEF SlotInv

\* Whoever has its slot ended passes it on, and no more are taken.
LEMMA PassKeeps ==
    ASSUME SlotInv, NEW r \in Requests, r \in slots, PassSlot(r),
           \A q \in Requests \ {r} : todo'[q] = todo[q]
    PROVE  SlotInv'
<1>1. \A q \in Requests \ {r} : At(q, InSlot) => At(q, InSlot)'
  BY DEF At, InSlot
<1>2. \A i \in DOMAIN slotQueue : /\ slotQueue[i] \in Requests \ {r}
                                  /\ At(slotQueue[i], InSlot) /\ slotQueue[i] \notin slots
  BY DEF SlotInv, QueueIsRight, InSlot
<1>3. /\ Cardinality(slots) \in Nat /\ Cardinality(slots) <= Concurrency /\ Concurrency \in Nat
      /\ Cardinality(slots \ {r}) \in Nat /\ Cardinality(slots \ {r}) = Cardinality(slots) - 1
  BY CardinalityStep, Capacities DEF SlotInv
<1>4. CASE slotQueue = <<>>
  <2>1. slots' = slots \ {r} /\ slotQueue' = slotQueue
    BY <1>4 DEF PassSlot
  <2>2. Cardinality(slots') <= Concurrency
    BY <1>3, <2>1
  <2>3. QueueIsRight'
    BY <1>4, <2>1 DEF QueueIsRight
  <2> QED BY <1>1, <2>1, <2>2, <2>3 DEF SlotInv
<1>5. CASE slotQueue # <<>>
  <2> DEFINE h == Head(slotQueue)
  <2>1. slots' = (slots \ {r}) \cup {h} /\ slotQueue' = Tail(slotQueue)
    BY <1>5 DEF PassSlot
  <2>2. Len(slotQueue) \in Nat /\ Len(slotQueue) > 0 /\ slotQueue \in Seq(Requests)
    BY <1>5, EmptySeq DEF SlotInv
  <2>3. /\ h = slotQueue[1] /\ 1 \in DOMAIN slotQueue /\ Tail(slotQueue) \in Seq(Requests)
        /\ DOMAIN Tail(slotQueue) = 1 .. Len(slotQueue) - 1
        /\ \A i \in DOMAIN Tail(slotQueue) : /\ Tail(slotQueue)[i] = slotQueue[i + 1]
                                             /\ i + 1 \in DOMAIN slotQueue
    BY <1>5, <2>2, HeadTailProperties
  <2>4. h \in Requests \ {r} /\ At(h, InSlot)
    BY <1>2, <2>3
  <2>5. Cardinality(slots') <= Concurrency
    <3>1. slots \ {r} \subseteq Requests
      BY DEF SlotInv
    <3>2. /\ Cardinality((slots \ {r}) \cup {h}) \in Nat
          /\ Cardinality((slots \ {r}) \cup {h}) <= Cardinality(slots \ {r}) + 1
      BY <2>4, <3>1, CardinalityStep
    <3>3. Cardinality((slots \ {r}) \cup {h}) <= Concurrency
      BY <1>3, <3>2
    <3> QED BY <2>1, <3>3
  <2>6. \A i, j \in DOMAIN slotQueue : slotQueue[i] = slotQueue[j] => i = j
    BY DEF SlotInv, QueueIsRight
  <2>7. ASSUME NEW i \in DOMAIN slotQueue'
        PROVE  At(slotQueue[i], InSlot)' /\ slotQueue'[i] \notin slots'
    <3>1. i + 1 \in DOMAIN slotQueue /\ slotQueue'[i] = slotQueue[i + 1] /\ i + 1 # 1
      BY <2>1, <2>3
    <3>2. slotQueue[i + 1] # h
      BY <2>3, <2>6, <3>1
    <3>3. PICK q \in Requests \ {r} : q = slotQueue[i + 1] /\ At(q, InSlot)
      BY <1>2, <3>1
    <3>4. slotQueue'[i] = q /\ todo'[q] = todo[q]
      BY <3>1, <3>3
    <3>5. At(slotQueue[i], InSlot)'
      BY <3>3, <3>4 DEF At, InSlot
    <3> QED BY <1>2, <2>1, <3>1, <3>2, <3>5
  <2>8. ASSUME NEW i \in DOMAIN slotQueue', NEW j \in DOMAIN slotQueue',
               slotQueue'[i] = slotQueue'[j]
        PROVE  i = j
    <3>1. i \in Int /\ j \in Int
      BY <2>1, <2>2, <2>3
    <3>2. i + 1 = j + 1
      BY <2>1, <2>3, <2>6, <2>8
    <3> QED BY <3>1, <3>2
  <2>9. QueueIsRight'
    BY <2>1, <2>7, <2>8 DEF QueueIsRight, InSlot
  <2>10. \A q \in slots' : At(q, InSlot)'
    BY <1>1, <2>1, <2>4 DEF SlotInv
  <2> QED BY <2>1, <2>3, <2>4, <2>5, <2>9, <2>10 DEF SlotInv
<1> QED BY <1>4, <1>5

\* A request that asks for a slot has it, or is the last in the queue.
LEMMA AskKeeps ==
    ASSUME SlotInv, NEW r \in Requests, AskSlot(r)
    PROVE  SlotInv'
<1>1. /\ At(r, InSlot) /\ r \notin slots /\ UNCHANGED todo
      /\ \A i \in DOMAIN slotQueue : slotQueue[i] # r
  BY DEF AskSlot, InSlot
<1>2. \A q : At(q, InSlot)' <=> At(q, InSlot)
  BY <1>1 DEF At
<1>3. /\ Cardinality(slots) \in Nat /\ Concurrency \in Nat \ {0}
      /\ Cardinality(slots \cup {r}) \in Nat
      /\ Cardinality(slots \cup {r}) <= Cardinality(slots) + 1
  BY CardinalityStep, Capacities DEF SlotInv
<1>4. CASE Cardinality(slots) < Concurrency
  <2>1. slots' = slots \cup {r} /\ slotQueue' = slotQueue
    BY <1>4 DEF AskSlot
  <2>2. Cardinality(slots') <= Concurrency
    BY <1>3, <1>4, <2>1
  <2>3. QueueIsRight'
    BY <1>1, <1>2, <2>1 DEF SlotInv, QueueIsRight, InSlot
  <2> QED BY <1>1, <1>2, <2>1, <2>2, <2>3 DEF SlotInv
<1>5. CASE ~(Cardinality(slots) < Concurrency)
  <2>1. slots' = slots /\ slotQueue' = Append(slotQueue, r) /\ slotQueue \in Seq(Requests)
    BY <1>5 DEF AskSlot, SlotInv
  <2>2. /\ slotQueue' \in Seq(Requests) /\ Len(slotQueue) \in Nat
        /\ DOMAIN slotQueue' = 1 .. Len(slotQueue) + 1
        /\ DOMAIN slotQueue = 1 .. Len(slotQueue)
        /\ \A i \in 1 .. Len(slotQueue) : slotQueue'[i] = slotQueue[i]
        /\ slotQueue'[Len(slotQueue) + 1] = r
    BY <2>1, AppendProperties
  <2>3. slots # {}
    BY <1>3, <1>5, FS_EmptySet
  <2>4. \A i \in DOMAIN slotQueue' : i \in DOMAIN slotQueue \/ i = Len(slotQueue) + 1
    BY <2>2
  <2>5. \A i \in DOMAIN slotQueue' : At(slotQueue'[i], InSlot) /\ slotQueue'[i] \notin slots
    BY <1>1, <2>2, <2>4 DEF SlotInv, QueueIsRight, InSlot
  <2>6. \A i, j \in DOMAIN slotQueue' : slotQueue'[i] = slotQueue'[j] => i = j
    BY <1>1, <2>2, <2>4 DEF SlotInv, QueueIsRight
  <2>7. \A i \in DOMAIN slotQueue' : At(slotQueue[i], InSlot)' /\ slotQueue'[i] \notin slots'
    BY <1>1, <2>1, <2>5 DEF At, InSlot
  <2>8. QueueIsRight'
    BY <2>1, <2>3, <2>6, <2>7 DEF QueueIsRight, InSlot
  <2> QED BY <1>2, <2>1, <2>2, <2>8 DEF SlotInv
<1> QED BY <1>4, <1>5

-----------------------------------------------------------------------------
(* The invariant.                                                          *)

\* The parts are the invariant.
LEMMA InvIsItsParts == Inv <=> Parts
<1>1. TypeOK /\ (\A r \in Requests : WaitsRight(r)) /\ QueueIsRight
        => Shape /\ SlotInv
  BY DEF TypeOK, Shape, SlotInv, WaitsRight, InSlot
<1>2. Inv => \A r \in Requests : Local(r)
  BY DEF Inv, TypeOK, TruncateWorksAlone, WaitsRight, Local
<1>3. Parts => TypeOK
  <2> SUFFICES ASSUME Parts  PROVE TypeOK
    OBVIOUS
  <2>1. todo \in [Requests -> Seq(Steps)]
    BY DEF Parts, Shape, Local
  <2>2. held \in [Requests -> SUBSET Tables]
    BY DEF Parts, Shape, Local
  <2>3. aborted \subseteq task
    BY DEF Parts, Shape, Local
  <2> QED BY <2>1, <2>2, <2>3 DEF Parts, Shape, SlotInv, TypeOK
<1>4. Parts => \A r \in Requests : WaitsRight(r) /\ KeepsOrder(r) /\ ClosesLast(r)
  BY DEF Parts, Local, SlotInv, WaitsRight, InSlot
<1>5. Parts => TruncateWorksAlone /\ QueueIsRight
  BY DEF Parts, Local, SlotInv, TruncateWorksAlone
<1> QED BY <1>1, <1>2, <1>3, <1>4, <1>5 DEF Inv, Parts

\* At the start nobody has anything.
LEMMA InitParts == Init => Parts
<1> SUFFICES ASSUME Init  PROVE Parts
  OBVIOUS
<1>1. Cardinality({}) = 0
  BY FS_EmptySet
<1>2. /\ todo = [r \in Requests |-> <<>>] /\ held = [r \in Requests |-> {}]
      /\ conn = {} /\ connWait = {} /\ spare = {} /\ slots = {} /\ slotQueue = <<>>
      /\ lockWait = {} /\ task = {} /\ aborted = {}
      /\ env \in [poolSize : PoolSizes, closesFirst : BOOLEAN]
      /\ truncate = [at |-> 0, waits |-> FALSE]
  BY DEF Init
<1>3. Shape
  <2>1. env.poolSize \in Nat /\ Cardinality(conn) = 0 /\ Cardinality(spare) = 0
    BY <1>1, <1>2, Capacities
  <2>2. Cardinality(conn) + Cardinality(spare) <= env.poolSize
    BY <2>1
  <2>3. truncate \in [at : 0 .. 6, waits : BOOLEAN]
    BY <1>2
  <2>4. todo = [r \in Requests |-> todo[r]] /\ held = [r \in Requests |-> held[r]]
    BY <1>2
  <2> QED BY <1>2, <2>2, <2>3, <2>4 DEF Shape
<1>4. SlotInv
  <2>1. Cardinality(slots) <= Concurrency /\ slotQueue \in Seq(Requests)
    BY <1>1, <1>2, Capacities
  <2> QED BY <1>2, <2>1 DEF SlotInv, QueueIsRight
<1>5. ASSUME NEW r \in Requests  PROVE Local(r)
  <2>1. todo[r] = <<>> /\ held[r] = {} /\ todo[r] \in Seq(Steps)
    BY <1>2
  <2>2. KeepsOrder(r) /\ ClosesLast(r)
    BY <1>2, <2>1 DEF KeepsOrder, InOrder, ClosesLast
  <2> QED BY <1>2, <2>1, <2>2 DEF Local
<1> QED BY <1>3, <1>4, <1>5 DEF Parts

\* The end of an inference call, and of what it was part of if it failed.
LEMMA InferenceKeeps ==
    ASSUME Parts, NEW r \in Requests, run_inference(r)
    PROVE  Parts'
<1>1. /\ r \in slots /\ PassSlot(r) /\ UNCHANGED <<env, truncate>>
      /\ todo[r] # <<>> /\ Head(todo[r]) = "infer"
      /\ Shape /\ Local(r) /\ (\A q \in Requests : Local(q)) /\ SlotInv
  BY DEF run_inference, Parts, SlotInv, At, InSlot
<1>2. CASE Advance(r) /\ UNCHANGED <<poolVars, lockVars, taskVars>>
  <2>1. UNCHANGED <<env, conn, connWait, spare, held, lockWait, task, aborted, truncate>>
    BY <1>1, <1>2 DEF poolVars, lockVars, taskVars
  <2>2. /\ Shape' /\ \A q \in Requests : Local(q)'
        /\ \A q \in Requests \ {r} : todo'[q] = todo[q]
    BY <1>1, <1>2, <2>1, SynthesizeKeeps
  <2> QED BY <1>1, <2>2, PassKeeps DEF Parts
<1>3. CASE Leave(r)
  <2>1. Shape' /\ \A q \in Requests : Local(q)'
    BY <1>1, <1>3, LeaveKeeps
  <2>2. \A q \in Requests \ {r} : todo'[q] = todo[q]
    BY <1>1, <1>3 DEF Leave, Shape
  <2> QED BY <1>1, <2>1, <2>2, PassKeeps DEF Parts
<1>4. CASE r \in task /\ SkipQuery(r) /\ UNCHANGED <<poolVars, lockVars, taskVars>>
  <2>1. UNCHANGED <<env, conn, connWait, spare, held, lockWait, task, aborted, truncate>>
    BY <1>1, <1>4 DEF poolVars, lockVars, taskVars
  <2>2. PICK new \in Seq(Steps) :
              /\ todo' = [todo EXCEPT ![r] = new]
              /\ new # <<>> /\ Head(new) \in {"infer", "close"}
              /\ new[Len(new)] = "close"
              /\ r \in task => \A i \in DOMAIN new : new[i] \notin Children
    BY <1>1, <1>4, SkipFacts
  <2>3. Shape'
    BY <1>1, <2>1, <2>2 DEF Shape
  <2>4. \A q \in Requests \ {r} : Local(q)'
    BY <1>1, <2>1, <2>2, OthersKeep DEF Shape, Same
  <2>5. todo'[r] = new /\ held'[r] = held[r]
    BY <1>1, <2>1, <2>2 DEF Shape
  <2>6. KeepsOrder(r)' /\ ClosesLast(r)'
    BY <1>4, <2>1, <2>2, <2>5 DEF KeepsOrder, InOrder, ClosesLast
  <2>7. r \notin connWait /\ r \notin lockWait
    BY <1>1, TableFacts DEF Local, AtStatement, At
  <2>8. Local(r)'
    BY <1>1, <2>1, <2>2, <2>5, <2>6, <2>7 DEF Local
  <2>9. \A q \in Requests \ {r} : todo'[q] = todo[q]
    BY <1>1, <2>2 DEF Shape
  <2> QED BY <1>1, <2>3, <2>4, <2>8, <2>9, PassKeeps DEF Parts
<1> QED BY <1>2, <1>3, <1>4 DEF run_inference

\* A step of a request, of whatever kind.
LEMMA RequestKeeps ==
    ASSUME Parts, NEW r \in Requests, Arrive(r) \/ Handle(r) \/ DetectDeadlock(r)
    PROVE  Parts'
<1>1. Shape /\ SlotInv /\ \A q \in Requests : Local(q)
  BY DEF Parts
<1>2. ASSUME UNCHANGED slotVars, Shape', \A q \in Requests : Local(q)',
             \A q \in Requests : At(q, InSlot) => todo'[q] = todo[q]
      PROVE  Parts'
  BY <1>1, <1>2, SlotsStay DEF Parts
<1>3. ASSUME Fail(r), UNCHANGED <<env, slotVars, truncate>>, todo[r] # <<>>,
             Head(todo[r]) # "close", ~At(r, InSlot)
      PROVE  Parts'
  <2>1. /\ Shape' /\ \A q \in Requests : Local(q)'
        /\ \A q \in Requests \ {r} : todo'[q] = todo[q]
    BY <1>1, <1>3, FailKeeps
  <2> QED BY <1>2, <1>3, <2>1
<1>4. ASSUME Advance(r), ~At(r, InSlot)
      PROVE  \A q \in Requests : At(q, InSlot) => todo'[q] = todo[q]
  BY <1>1, <1>4 DEF Advance, Shape
<1>5. CASE Arrive(r)
  <2>1. UNCHANGED slotVars /\ todo[r] = <<>>
    BY <1>5 DEF Arrive
  <2>2. \A q \in Requests : At(q, InSlot) => todo'[q] = todo[q]
    BY <1>1, <1>5, <2>1 DEF Arrive, Shape, At
  <2> QED BY <1>1, <1>2, <1>5, <2>1, <2>2, ArriveKeeps
<1>6. CASE Checkout(r) \/ GetConnection(r)
  <2>1. UNCHANGED slotVars /\ UNCHANGED todo
    BY <1>6 DEF Checkout, GetConnection
  <2> QED BY <1>1, <1>2, <1>6, <2>1, CheckoutKeeps
<1>7. CASE PoolTimeout(r)
  <2>1. r \in connWait /\ Fail(r) /\ UNCHANGED <<env, slotVars, truncate>>
    BY <1>7 DEF PoolTimeout
  <2>2. todo[r] # <<>> /\ Head(todo[r]) # "close" /\ ~At(r, InSlot)
    BY <1>1, <2>1, TableFacts DEF Local, AtStatement, At, InSlot
  <2> QED BY <1>3, <2>1, <2>2
<1>8. CASE Lock(r)
  <2>1. UNCHANGED slotVars /\ ~At(r, InSlot) /\ (Advance(r) \/ UNCHANGED todo)
    BY <1>8, TableFacts DEF Lock, AtStatement, At, InSlot
  <2> QED BY <1>1, <1>2, <1>4, <1>8, <2>1, LockKeeps
<1>9. CASE Raise(r)
  <2>1. Fail(r) /\ UNCHANGED <<env, slotVars, truncate>>
    BY <1>9 DEF Raise
  <2>2. todo[r] # <<>> /\ Head(todo[r]) # "close" /\ ~At(r, InSlot)
    BY <1>9, TableFacts DEF Raise, At, InSlot
  <2> QED BY <1>3, <2>1, <2>2
<1>10. CASE Commit(r)
  <2>1. UNCHANGED slotVars /\ ~At(r, InSlot) /\ Advance(r)
    BY <1>10 DEF Commit, At, InSlot
  <2> QED BY <1>1, <1>2, <1>4, <1>10, <2>1, CommitKeeps
<1>11. CASE Close(r)
  <2>1. UNCHANGED <<env, slotVars, truncate>> /\ ~At(r, InSlot) /\ Leave(r)
    BY <1>11 DEF Close, At, InSlot
  <2>2. \A q \in Requests : At(q, InSlot) => todo'[q] = todo[q]
    BY <1>1, <2>1 DEF Leave, Shape
  <2> QED BY <1>1, <1>2, <2>1, <2>2, LeaveKeeps
<1>12. CASE AskSlot(r)
  <2>1. UNCHANGED <<env, todo, poolVars, lockVars, taskVars, truncate>>
    BY <1>12 DEF AskSlot
  <2>2. UNCHANGED <<env, todo, conn, connWait, spare, held, lockWait, task, aborted, truncate>>
    BY <2>1 DEF poolVars, lockVars, taskVars
  <2>3. Shape'
    BY <1>1, <2>2 DEF Shape
  <2>4. \A q \in Requests : Local(q)'
    BY <1>1, <2>2, OthersKeep DEF Same
  <2> QED BY <1>1, <1>12, <2>3, <2>4, AskKeeps DEF Parts
<1>13. CASE run_inference(r)
  BY <1>13, InferenceKeeps
<1>14. CASE synthesize(r)
  <2>1. /\ UNCHANGED slotVars /\ ~At(r, InSlot) /\ Advance(r)
        /\ todo[r] # <<>> /\ Head(todo[r]) = "llm"
        /\ UNCHANGED <<env, conn, connWait, spare, held, lockWait, task, aborted, truncate>>
    BY <1>14 DEF synthesize, At, InSlot, poolVars, lockVars, taskVars
  <2> QED BY <1>1, <1>2, <1>4, <2>1, SynthesizeKeeps
<1>15. CASE Background(r)
  <2>1. UNCHANGED slotVars /\ ~At(r, InSlot) /\ Advance(r)
    BY <1>15 DEF Background, At, InSlot
  <2> QED BY <1>1, <1>2, <1>4, <1>15, <2>1, BackgroundKeeps
<1>16. CASE DetectDeadlock(r)
  <2>1. r \in lockWait /\ At(r, Tables)
    BY <1>1, <1>16 DEF DetectDeadlock, Deadlocked, Local
  <2>2. todo[r] # <<>> /\ Head(todo[r]) # "close" /\ ~At(r, InSlot)
    BY <2>1, TableFacts DEF At, InSlot
  <2>3. CASE Fail(r) /\ UNCHANGED <<env, slotVars, truncate>>
    BY <1>3, <2>2, <2>3
  <2>4. CASE TruncateEnd
    <3>1. /\ Shape' /\ \A q \in Requests : Local(q)'
          /\ \A q \in Requests : At(q, InSlot) => q \notin lockWait
          /\ \A q \in Requests : q \notin lockWait => todo'[q] = todo[q]
          /\ UNCHANGED slotVars
      BY <1>1, <2>4, TruncateEndKeeps, TableFacts DEF slotVars, At, InSlot
    <3> QED BY <1>2, <3>1
  <2> QED BY <1>16, <2>3, <2>4 DEF DetectDeadlock
<1> QED BY <1>5, <1>6, <1>7, <1>8, <1>9, <1>10, <1>11, <1>12, <1>13, <1>14, <1>15, <1>16
        DEF Handle

\* Every step.
LEMMA NextKeeps == Parts /\ [Next]_vars => Parts'
<1> SUFFICES ASSUME Parts, [Next]_vars  PROVE Parts'
  OBVIOUS
<1>1. Shape /\ SlotInv /\ \A q \in Requests : Local(q)
  BY DEF Parts
<1>2. CASE \E r \in Requests : Arrive(r) \/ Handle(r) \/ DetectDeadlock(r)
  BY <1>2, RequestKeeps
<1>3. CASE TruncateBegin \/ TruncateLock
  <2>1. /\ Shape' /\ \A q \in Requests : Local(q)'
        /\ UNCHANGED <<todo, slots, slotQueue>>
    BY <1>1, <1>3, TruncateKeeps
  <2>2. SlotInv'
    BY <1>1, <2>1, SlotsStay DEF slotVars
  <2> QED BY <2>1, <2>2 DEF Parts
<1>4. CASE TruncateCommit
  <2>1. /\ Shape' /\ \A q \in Requests : Local(q)'
        /\ \A q \in Requests : At(q, InSlot) => q \notin lockWait
        /\ \A q \in Requests : q \notin lockWait => todo'[q] = todo[q]
        /\ UNCHANGED slotVars
    BY <1>1, <1>4, TruncateEndKeeps, TableFacts DEF TruncateCommit, slotVars, At, InSlot
  <2>2. SlotInv'
    BY <1>1, <2>1, SlotsStay
  <2> QED BY <2>1, <2>2 DEF Parts
<1>5. CASE UNCHANGED vars
  <2>1. UNCHANGED <<env, todo, conn, connWait, spare, held, lockWait, task, aborted,
                    truncate, slots, slotQueue>>
    BY <1>5 DEF vars, poolVars, lockVars, taskVars, slotVars
  <2>2. Shape'
    BY <1>1, <2>1 DEF Shape
  <2>3. \A q \in Requests : Local(q)'
    BY <1>1, <2>1, OthersKeep DEF Same
  <2>4. SlotInv'
    BY <1>1, <2>1, SlotsStay DEF slotVars
  <2> QED BY <2>2, <2>3, <2>4 DEF Parts
<1> QED BY <1>2, <1>3, <1>4, <1>5 DEF Next, Truncate

\* The parts hold in every state.
LEMMA PartsHold == Spec => []Parts
<1> QED BY InitParts, NextKeeps, PTL DEF Spec

-----------------------------------------------------------------------------
(* What it shows.                                                          *)

\* Types and limits: never more connections than the pool has, never more inference at a
\* time than there are slots.
THEOREM Typing == Spec => []TypeOK
<1>1. Parts => TypeOK
  BY InvIsItsParts DEF Inv
<1> QED BY <1>1, PartsHold, PTL

\* The table a request waits for when it is in a deadlock is one that TRUNCATE already
\* has, and it has a later one: no handler comes from a later one to a table whose rows
\* refer to documents, so the victim only reads documents or embeddings.
THEOREM VictimsOnlyRead == Spec => []OnlyCorpusReadsDie
<1>1. Parts => OnlyCorpusReadsDie
  <2> SUFFICES ASSUME Parts, NEW r \in Requests, Deadlocked(r)
               PROVE  Head(todo[r]) \in {"documents", "embeddings"}
    BY DEF OnlyCorpusReadsDie
  <2> DEFINE table == Head(todo[r])
             wanted == TruncateOrder[truncate.at]
  <2>1. /\ Local(r) /\ r \in lockWait /\ todo[r] \in Seq(Steps)
        /\ todo[r] # <<>> /\ table \in Tables /\ table \notin held[r] /\ ~Grantable(table)
        /\ truncate.at \in 1 .. 5 /\ wanted \in held[r]
    BY DEF Parts, Deadlocked, TruncateWaitsFor, Local, At
  <2>2. /\ wanted \in Tables /\ Rank(wanted) = truncate.at
        /\ Rank(table) \in 1 .. 5 /\ TruncateOrder[Rank(table)] = table
    BY <2>1, RankFacts
  <2>3. Rank(table) < Rank(wanted)
    <3>1. Rank(table) # truncate.at
      BY <2>1, <2>2
    <3>2. Rank(table) <= truncate.at
      BY <2>1, <2>2 DEF Grantable
    <3> QED BY <2>1, <2>2, <3>1, <3>2
  <2>4. todo[r][1] = table /\ 1 \in DOMAIN todo[r]
    BY <2>1, TailFacts
  <2>5. ~CommitBetween(todo[r], 0, 1)
    BY DEF CommitBetween
  <2>6. table \notin Children
    BY <2>1, <2>2, <2>3, <2>4, <2>5 DEF Local, KeepsOrder, InOrder
  <2> QED BY <2>1, <2>6, TableFacts DEF Children
<1> QED BY <1>1, PartsHold, PTL

\* A set of processes none of which can go on is one in which a request and TRUNCATE
\* wait for each other, or the warming tasks that have the whole pool: whoever has a
\* slot waits for nothing, whoever waits for a connection has no lock, and whoever waits
\* for a lock waits for TRUNCATE.
THEOREM CirclesAreFew == Spec => []StuckOnlyThroughTruncate
<1>1. Parts => StuckOnlyThroughTruncate
  <2> SUFFICES ASSUME Parts, NEW S \in (SUBSET (Requests \cup {Seeder})) \ {{}},
                      Stuck(S),
                      \A r \in S \cap Requests : ~Deadlocked(r)
               PROVE  ~env.closesFirst /\ conn \cup spare \subseteq Doubled
    BY DEF StuckOnlyThroughTruncate
  <2>1. /\ Shape /\ SlotInv /\ \A r \in Requests : Local(r)
    BY DEF Parts
  <2>2. ASSUME NEW r \in slots, r \in S
        PROVE  FALSE
    <3>1. /\ r \in Requests /\ r # Seeder /\ At(r, InSlot) /\ ~Queueing(r)
      BY <2>1, SeederIsNoRequest DEF SlotInv, QueueIsRight, Queueing
    <3>2. r \notin connWait /\ r \notin lockWait
      BY <2>1, <3>1, TableFacts DEF Local, AtStatement, At, InSlot
    <3> QED BY <2>2, <3>1, <3>2 DEF Stuck
  <2>3. \A p \in S : ~(Queueing(p) /\ slots \subseteq S)
    <3> SUFFICES ASSUME NEW p \in S, Queueing(p), slots \subseteq S  PROVE FALSE
      OBVIOUS
    <3>1. slotQueue # <<>>
      BY DEF Queueing
    <3>2. slots # {}
      BY <2>1, <3>1 DEF SlotInv, QueueIsRight
    <3> QED BY <2>2, <3>2
  <2>4. Seeder \notin S
    <3> SUFFICES ASSUME Seeder \in S  PROVE FALSE
      OBVIOUS
    <3>1. Seeder \notin connWait /\ Seeder \notin lockWait
      BY <2>1, SeederIsNoRequest DEF Shape
    <3>2. PICK r \in S \cap Requests : TruncateWaitsFor(r)
      BY <2>3, <3>1 DEF Stuck
    <3>3. r \in conn /\ r \notin connWait /\ r \notin lockWait /\ r # Seeder
      BY <2>1, <3>2, SeederIsNoRequest DEF Local, TruncateWaitsFor, Deadlocked
    <3> QED BY <2>3, <3>2, <3>3 DEF Stuck
  <2>5. \A p \in S : p \in connWait /\ ~FreeConnection /\ conn \cup spare \subseteq S
    BY <2>3, <2>4 DEF Stuck
  <2>6. ~FreeConnection /\ conn \cup spare \subseteq connWait
    BY <2>5
  <2>7. conn = {}
    BY <2>1, <2>6 DEF Shape, Local
  <2>8. spare # {}
    <3>1. Cardinality(conn) = 0 /\ env.poolSize \in Nat \ {0}
      BY <2>1, <2>7, FS_EmptySet, Capacities DEF Shape
    <3>2. ~(Cardinality(conn) + 0 < env.poolSize) => FALSE
      BY <3>1
    <3>3. Cardinality(spare) # 0
      BY <2>6, <3>2 DEF FreeConnection
    <3> QED BY <3>3, FS_EmptySet
  <2>9. ~env.closesFirst
    BY <2>1, <2>8 DEF Shape, Local
  <2> QED BY <2>6, <2>7, <2>9 DEF Doubled
<1> QED BY <1>1, PartsHold, PTL
=============================================================================
