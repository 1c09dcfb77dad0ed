--------------------------- MODULE RankingProofs ---------------------------
(***************************************************************************)
(* Proofs about the pure operators of retrieval: MCRanking's references    *)
(* hold for lists, scores and answers of any length.                       *)
(***************************************************************************)
EXTENDS MCRanking, SequenceFacts, FunctionTheorems

-----------------------------------------------------------------------------
(* Places in an order.                                                     *)

\* R, a set of pairs, orders S strictly and in full.
OrdersAll(R, S) ==
    /\ \A x \in S : <<x, x>> \notin R
    /\ \A x, y, z \in S : <<x, y>> \in R /\ <<y, z>> \in R => <<x, z>> \in R
    /\ \A x, y \in S : x = y \/ <<x, y>> \in R \/ <<y, x>> \in R

Ahead(R, S, x) == {y \in S : <<y, x>> \in R}

\* Who is before another has fewer before him.
LEMMA AheadCounts ==
    ASSUME NEW S, IsFiniteSet(S), NEW R, OrdersAll(R, S)
    PROVE  /\ \A x \in S : /\ IsFiniteSet(Ahead(R, S, x))
                           /\ Cardinality(Ahead(R, S, x)) \in 0 .. Cardinality(S) - 1
           /\ \A x, y \in S :
                 <<x, y>> \in R <=> Cardinality(Ahead(R, S, x)) < Cardinality(Ahead(R, S, y))
<1>0. Cardinality(S) \in Nat
  BY FS_CardinalityType
<1>1. ASSUME NEW x \in S
      PROVE  /\ IsFiniteSet(Ahead(R, S, x))
             /\ Cardinality(Ahead(R, S, x)) \in 0 .. Cardinality(S) - 1
  <2>1. IsFiniteSet(S \ {x}) /\ Cardinality(S \ {x}) = Cardinality(S) - 1
    BY FS_RemoveElement
  <2>2. Ahead(R, S, x) \in SUBSET (S \ {x})
    BY DEF Ahead, OrdersAll
  <2>3. /\ IsFiniteSet(Ahead(R, S, x))
        /\ Cardinality(Ahead(R, S, x)) <= Cardinality(S \ {x})
    BY <2>1, <2>2, FS_Subset
  <2>4. Cardinality(Ahead(R, S, x)) \in Nat
    BY <2>3, FS_CardinalityType
  <2> QED BY <2>1, <2>3, <2>4, <1>0
<1>2. ASSUME NEW x \in S, NEW y \in S, <<x, y>> \in R
      PROVE  Cardinality(Ahead(R, S, x)) < Cardinality(Ahead(R, S, y))
  <2>1. Ahead(R, S, x) \in SUBSET Ahead(R, S, y) /\ Ahead(R, S, x) # Ahead(R, S, y)
    BY <1>2 DEF Ahead, OrdersAll
  <2>2. /\ Cardinality(Ahead(R, S, x)) <= Cardinality(Ahead(R, S, y))
        /\ Cardinality(Ahead(R, S, x)) # Cardinality(Ahead(R, S, y))
    BY <1>1, <2>1, FS_Subset
  <2> QED BY <1>1, <2>2
<1>3. ASSUME NEW x \in S, NEW y \in S,
             Cardinality(Ahead(R, S, x)) < Cardinality(Ahead(R, S, y))
      PROVE  <<x, y>> \in R
  <2>1. x # y
    BY <1>1, <1>3
  <2>2. CASE <<y, x>> \in R
    BY <1>1, <1>2, <1>3, <2>2
  <2> QED BY <2>1, <2>2 DEF OrdersAll
<1> QED BY <1>1, <1>2, <1>3

\* Every place is taken, by one.
EachHasAPlace(R, S) ==
    /\ \A x, y \in S : Cardinality(Ahead(R, S, x)) = Cardinality(Ahead(R, S, y)) => x = y
    /\ \A n \in 0 .. Cardinality(S) - 1 : \E x \in S : Cardinality(Ahead(R, S, x)) = n

LEMMA EveryPlaceIsTaken ==
    ASSUME NEW S, IsFiniteSet(S), NEW R, OrdersAll(R, S)
    PROVE  EachHasAPlace(R, S)
<1> DEFINE place == [x \in S |-> Cardinality(Ahead(R, S, x))]
           P == 0 .. Cardinality(S) - 1
<1>0. Cardinality(S) \in Nat
  BY FS_CardinalityType
<1>1. place \in [S -> P]
  BY AheadCounts
<1>2. \A x, y \in S : place[x] = place[y] => x = y
  <2> SUFFICES ASSUME NEW x \in S, NEW y \in S, place[x] = place[y], x # y PROVE FALSE
    OBVIOUS
  <2>1. <<x, y>> \in R \/ <<y, x>> \in R
    BY DEF OrdersAll
  <2>2. Cardinality(Ahead(R, S, x)) = Cardinality(Ahead(R, S, y))
    OBVIOUS
  <2> HIDE DEF place
  <2>3. Cardinality(Ahead(R, S, x)) \in Int
    BY AheadCounts
  <2> QED BY <2>1, <2>2, <2>3, AheadCounts
<1>3. place \in Injection(S, P)
  BY <1>1, <1>2, Fun_IsInj
<1>4. IsFiniteSet(P) /\ Cardinality(P) = Cardinality(S)
  <2>1. /\ IsFiniteSet(P)
        /\ Cardinality(P) = IF 0 > Cardinality(S) - 1 THEN 0 ELSE (Cardinality(S) - 1) - 0 + 1
    BY <1>0, FS_Interval
  <2> QED BY <2>1, <1>0
<1>5. place \in Surjection(S, P)
  BY <1>3, <1>4, FS_Injection
<1>6. \A n \in P : \E x \in S : place[x] = n
  <2> HIDE DEF place, P
  <2> QED BY <1>5 DEF Surjection
<1>7. \A x \in S : place[x] = Cardinality(Ahead(R, S, x))
  OBVIOUS
<1> HIDE DEF place
<1> QED BY <1>2, <1>6, <1>7 DEF EachHasAPlace

\* The n first are n, or all there are.
LEMMA TheFirst ==
    ASSUME NEW S, IsFiniteSet(S), NEW R, OrdersAll(R, S), NEW n \in Nat
    PROVE  Cardinality({x \in S : Cardinality(Ahead(R, S, x)) < n}) = Least(n, Cardinality(S))
<1> DEFINE F == {x \in S : Cardinality(Ahead(R, S, x)) < n}
           m == Least(n, Cardinality(S))
           place == [x \in F |-> Cardinality(Ahead(R, S, x))]
           P == 0 .. m - 1
<1>0. Cardinality(S) \in Nat /\ m \in Nat /\ m <= n /\ m <= Cardinality(S)
      /\ (m = n \/ m = Cardinality(S))
  BY FS_CardinalityType DEF Least
<1>1. IsFiniteSet(F)
  BY FS_Subset
<1>2. place \in [F -> P]
  <2>1. ASSUME NEW x \in F PROVE Cardinality(Ahead(R, S, x)) \in P
    <3>1. Cardinality(Ahead(R, S, x)) \in 0 .. Cardinality(S) - 1
      BY AheadCounts
    <3> HIDE DEF m
    <3> QED BY <3>1, <1>0
  <2> HIDE DEF F, P
  <2> QED BY <2>1
<1>3. \A x, y \in F : place[x] = place[y] => x = y
  BY EveryPlaceIsTaken DEF EachHasAPlace
<1>4. ASSUME NEW k \in P PROVE \E x \in F : place[x] = k
  <2>1. k \in 0 .. Cardinality(S) - 1 /\ k < n
    BY <1>0
  <2>2. PICK x \in S : Cardinality(Ahead(R, S, x)) = k
    BY <2>1, EveryPlaceIsTaken DEF EachHasAPlace
  <2> QED BY <2>1, <2>2
<1>5. place \in Injection(F, P) /\ place \in Surjection(F, P)
  <2> HIDE DEF place, F, P
  <2> QED BY <1>2, <1>3, <1>4, Fun_IsInj, Fun_IsSurj
<1>6. Cardinality(P) = m
  <2> HIDE DEF m
  <2>1. Cardinality(0 .. m - 1) = IF 0 > m - 1 THEN 0 ELSE (m - 1) - 0 + 1
    BY <1>0, FS_Interval
  <2> QED BY <2>1, <1>0
<1>7. Cardinality(F) = Cardinality(P)
  <2> HIDE DEF place, F, P
  <2> QED BY <1>1, <1>5, FS_Surjection
<1> QED BY <1>6, <1>7

-----------------------------------------------------------------------------
(* The invariant: what is asked is an input, and the answer is the code's. *)

TaskOK ==
    /\ task.kind \in {"fuse", "merge", "dense", "rag"}
    /\ task.kind = "fuse" =>
          /\ task.dense \in Ranked /\ task.bm25 \in Ranked
          /\ task.rrfK \in SmoothingConstants /\ task.pool \in 1 .. MaxLen
    /\ task.kind = "merge" =>
          \E one, two \in Scores : \E first \in argsort(one), second \in argsort(two) :
              /\ task.scores = <<one, two>> /\ task.order = <<first, second>>
              /\ task.k \in 1 .. MaxK
    /\ task.kind = "dense" =>
          task.nearest \in Orders /\ task.documents \in 1 .. MaxDocs /\ task.k \in 1 .. MaxK
    /\ task.kind = "rag" =>
          /\ task.ids \in Cards /\ task.rows \in Found /\ task.replies \in Replies

AnswerOK ==
    answer # <<>> =>
        /\ task.kind = "fuse" => answer =
              <<candidate_ids(reciprocal_rank_fusion(<<task.dense, task.bm25>>, task.rrfK),
                              task.pool)>>
        /\ task.kind = "merge" =>
              answer = <<search_translate_test(task.scores, task.order, task.k)>>
        /\ task.kind = "dense" =>
              answer = <<search_dense(task.documents, task.nearest, task.k)>>
        /\ task.kind = "rag" => answer = <<search_rag(task.ids, task.rows, task.replies)>>

Inv == TaskOK /\ AnswerOK

LEMMA InputsAreRight == Init => TaskOK /\ AnswerOK
<1> SUFFICES ASSUME Init PROVE TaskOK
  BY DEF Init, AnswerOK
<1>1. CASE \E dense, bm25 \in Ranked, rrfK \in SmoothingConstants, pool \in 1 .. MaxLen :
             task = [kind |-> "fuse", dense |-> dense, bm25 |-> bm25, rrfK |-> rrfK, pool |-> pool]
  BY <1>1 DEF TaskOK
<1>2. CASE \E one, two \in Scores, k \in 1 .. MaxK :
             \E first \in argsort(one), second \in argsort(two) :
               task = [kind |-> "merge", scores |-> <<one, two>>, order |-> <<first, second>>, k |-> k]
  BY <1>2 DEF TaskOK
<1>3. CASE \E nearest \in Orders, documents \in 1 .. MaxDocs, k \in 1 .. MaxK :
             task = [kind |-> "dense", nearest |-> nearest, documents |-> documents, k |-> k]
  BY <1>3 DEF TaskOK
<1>4. CASE \E ids \in Cards, rows \in Found, replies \in Replies :
             /\ ToSet(rows) \subseteq ToSet(ids)
             /\ task = [kind |-> "rag", ids |-> ids, rows |-> rows, replies |-> replies]
  BY <1>4 DEF TaskOK
<1> QED BY <1>1, <1>2, <1>3, <1>4 DEF Init

LEMMA AnswersAreTheCodes == Spec => []Inv
<1>1. Init => Inv
  BY InputsAreRight DEF Inv
<1>2. Inv /\ [Fuse \/ Merge \/ SearchDense \/ Answer]_<<task, answer>> => Inv'
  <2> SUFFICES ASSUME Inv, [Fuse \/ Merge \/ SearchDense \/ Answer]_<<task, answer>>
               PROVE  Inv'
    OBVIOUS
  <2>1. task' = task
    BY DEF Fuse, Merge, SearchDense, Answer, Asked
  <2>2. TaskOK'
    BY <2>1 DEF Inv, TaskOK
  <2>3. CASE UNCHANGED <<task, answer>>
    BY <2>3 DEF Inv, AnswerOK, TaskOK
  <2>4. CASE Fuse
    BY <2>1, <2>2, <2>4 DEF Fuse, Asked, Inv, AnswerOK
  <2>5. CASE Merge
    BY <2>1, <2>2, <2>5 DEF Merge, Asked, Inv, AnswerOK
  <2>6. CASE SearchDense
    BY <2>1, <2>2, <2>6 DEF SearchDense, Asked, Inv, AnswerOK
  <2>7. CASE Answer
    BY <2>1, <2>2, <2>7 DEF Answer, Asked, Inv, AnswerOK
  <2> QED BY <2>3, <2>4, <2>5, <2>6, <2>7
<1> QED BY <1>1, <1>2, PTL DEF Spec

-----------------------------------------------------------------------------
(* Dense search, padded.                                                   *)

\* A permutation has every number.
LEMMA PermutationsAreOnto ==
    ASSUME NEW n \in Nat, NEW o \in [1 .. n -> 1 .. n], IsInjective(o), NEW d \in 1 .. n
    PROVE  \E j \in 1 .. n : o[j] = d
<1>1. IsFiniteSet(1 .. n)
  BY FS_Interval
<1>2. o \in Injection(1 .. n, 1 .. n)
  BY DEF Injection
<1>3. o \in Surjection(1 .. n, 1 .. n)
  BY <1>1, <1>2, FS_Injection
<1> QED BY <1>3 DEF Surjection

\* The rank of what is at one place, or at no earlier one.
LEMMA RankIsFirst ==
    ASSUME NEW s, NEW d, NEW j, DOMAIN s \subseteq Nat, j \in DOMAIN s, s[j] = d,
           \A i \in DOMAIN s : s[i] = d => j <= i
    PROVE  Rank(s, d) = j
<1> DEFINE at == {i \in DOMAIN s : s[i] = d}
           r == CHOOSE i \in at : \A h \in at : i <= h
<1>1. j \in at /\ \A h \in at : j <= h
  OBVIOUS
<1>2. r \in at /\ \A h \in at : r <= h
  <2> HIDE DEF at
  <2> QED BY <1>1, Zenon
<1>3. r = j
  <2>1. r \in Nat /\ j \in Nat /\ r <= j /\ j <= r
    BY <1>1, <1>2
  <2> HIDE DEF r, at
  <2> QED BY <2>1
<1> QED BY <1>1, <1>3 DEF Rank

LEMMA PaddingComesLast ==
    ASSUME NEW n \in Nat, NEW nearest \in [1 .. n -> 1 .. n], IsInjective(nearest),
           NEW k \in Nat, NEW d \in 1 .. n
    PROVE  Rank(search_dense(n, nearest, k), d) = Rank(Top(nearest, k), d)
<1> DEFINE answered == search_dense(n, nearest, k)
           top == Top(nearest, k)
<1>0. Len(nearest) = n /\ nearest \in Seq(1 .. n)
  BY SeqDef
<1>1. answered = [i \in 1 .. k |-> IF i <= n THEN nearest[i] ELSE n]
  <2> DEFINE position(i) == IF i <= Len(nearest) THEN nearest[i] ELSE Padding
  <2>1. \A i \in 1 .. k : ~(position(i) > n) /\ iloc(n, position(i)) = IF i <= n THEN nearest[i] ELSE n
    BY <1>0 DEF iloc, Padding
  <2>2. answered = [i \in 1 .. k |-> iloc(n, position(i))]
    <3> HIDE DEF position
    <3>1. ~\E i \in 1 .. k : position(i) > n
      BY <2>1
    <3> QED BY <3>1 DEF search_dense, position
  <2> HIDE DEF position
  <2> QED BY <2>1, <2>2
<1>2. CASE k <= n
  <2>1. top = [i \in 1 .. k |-> nearest[i]]
    BY <1>0, <1>2 DEF Top
  <2>2. answered = top
    BY <1>1, <1>2, <2>1
  <2> QED BY <2>2
<1>3. CASE k > n
  <2>1. top = nearest
    BY <1>0, <1>3 DEF Top
  <2>2. PICK j \in 1 .. n : nearest[j] = d
    BY PermutationsAreOnto
  <2>3. \A i \in 1 .. n : nearest[i] = d => i = j
    BY <2>2 DEF IsInjective
  <2>4. Rank(nearest, d) = j
    <3>1. DOMAIN nearest = 1 .. n /\ 1 .. n \subseteq Nat
      OBVIOUS
    <3>2. j \in DOMAIN nearest /\ nearest[j] = d
      BY <2>2, <3>1
    <3>3. \A i \in DOMAIN nearest : nearest[i] = d => j <= i
      BY <2>3, <3>1
    <3> QED BY ONLY <3>1, <3>2, <3>3, RankIsFirst
  <2>5. Rank(answered, d) = j
    <3>1. DOMAIN answered = 1 .. k /\ answered[j] = d
      BY <1>1, <1>3, <2>2
    <3>2. \A i \in 1 .. k : answered[i] = d => j <= i
      BY <1>1, <2>3
    <3>3. DOMAIN answered \subseteq Nat /\ j \in DOMAIN answered
      BY <3>1, <1>3
    <3>4. \A i \in DOMAIN answered : answered[i] = d => j <= i
      BY <3>1, <3>2
    <3> HIDE DEF answered
    <3> QED BY <3>1, <3>3, <3>4, RankIsFirst
  <2> QED BY <2>1, <2>4, <2>5
<1> QED BY <1>2, <1>3

\* When every document has its vector, a padded answer has every document at the rank it
\* has without padding, however many documents there are (search of dense_retrieval.py).
THEOREM PaddingNeverHarms == Spec => []PaddingIsHarmless
<1>1. Inv => PaddingIsHarmless
  <2> SUFFICES ASSUME Inv, Answered("dense"), Len(task.nearest) = task.documents,
                      NEW d \in 1 .. task.documents
               PROVE  Rank(answer[1], d) = Rank(Top(task.nearest, task.k), d)
    BY DEF PaddingIsHarmless
  <2>1. task.nearest \in Orders /\ task.documents \in 1 .. MaxDocs /\ task.k \in 1 .. MaxK
    BY DEF Inv, TaskOK, Answered
  <2>2. answer[1] = search_dense(task.documents, task.nearest, task.k)
    BY DEF Inv, AnswerOK, Answered
  <2>3. PICK n \in 1 .. MaxDocs : task.nearest \in [1 .. n -> 1 .. n] /\ IsInjective(task.nearest)
    BY <2>1 DEF Orders
  <2>4. n = task.documents /\ n \in Nat /\ task.k \in Nat
    BY <2>1, <2>3, BoundedInputs
  <2> QED BY <2>2, <2>3, <2>4, PaddingComesLast
<1> QED BY <1>1, AnswersAreTheCodes, PTL

-----------------------------------------------------------------------------
(* The citations of an AI answer.                                          *)

Ascending(s) == \A i, j \in DOMAIN s : i < j => s[i] < s[j]

LEMMA NumbersHaveAnOrder ==
    ASSUME NEW C \in SUBSET Nat, IsFiniteSet(C)
    PROVE  \E s \in [1 .. Cardinality(C) -> C] : Ascending(s)
<1> DEFINE R == {p \in C \X C : p[1] < p[2]}
           N == Cardinality(C)
           number == [i \in 1 .. N |-> CHOOSE n \in C : Cardinality(Ahead(R, C, n)) = i - 1]
<1>0. N \in Nat
  BY FS_CardinalityType
<1>1. OrdersAll(R, C) /\ \A m, n \in C : <<m, n>> \in R <=> m < n
  BY DEF OrdersAll
<1>2. \A i \in 1 .. N : number[i] \in C /\ Cardinality(Ahead(R, C, number[i])) = i - 1
  <2> SUFFICES ASSUME NEW i \in 1 .. N
               PROVE  number[i] \in C /\ Cardinality(Ahead(R, C, number[i])) = i - 1
    OBVIOUS
  <2>1. i - 1 \in 0 .. N - 1
    BY <1>0
  <2>2. \E n \in C : Cardinality(Ahead(R, C, n)) = i - 1
    <3> HIDE DEF R
    <3>1. EachHasAPlace(R, C)
      BY <1>1, EveryPlaceIsTaken
    <3> QED BY <2>1, <3>1 DEF EachHasAPlace
  <2> HIDE DEF R
  <2> QED BY <2>2
<1>3. number \in [1 .. N -> C]
  BY <1>2
<1>4. ASSUME NEW i \in 1 .. N, NEW j \in 1 .. N, i < j PROVE number[i] < number[j]
  <2> HIDE DEF R, number
  <2>1. Cardinality(Ahead(R, C, number[i])) < Cardinality(Ahead(R, C, number[j]))
    BY <1>2, <1>4, <1>0
  <2>2. <<number[i], number[j]>> \in R
    BY <1>1, <1>2, <2>1, AheadCounts
  <2> QED BY <1>1, <1>2, <2>2
<1> HIDE DEF number
<1> QED BY <1>3, <1>4 DEF Ascending

HasAll(s, C) == \A n \in C : \E i \in 1 .. Cardinality(C) : s[i] = n

\* sorted(set(...)) has every number of the set.
LEMMA NumbersInOrder ==
    ASSUME NEW C \in SUBSET Nat, IsFiniteSet(C), NEW s \in [1 .. Cardinality(C) -> C],
           Ascending(s)
    PROVE  HasAll(s, C)
<1> DEFINE N == Cardinality(C)
<1>0. N \in Nat
  BY FS_CardinalityType
<1>1. \A i, j \in 1 .. N : s[i] = s[j] => i = j
  <2> SUFFICES ASSUME NEW i \in 1 .. N, NEW j \in 1 .. N, s[i] = s[j], i # j PROVE FALSE
    OBVIOUS
  <2>0. i \in DOMAIN s /\ j \in DOMAIN s /\ s[i] \in C
    OBVIOUS
  <2>1. i \in DOMAIN s /\ j \in DOMAIN s /\ ~(s[i] < s[j]) /\ ~(s[j] < s[i])
    <3>1. s[i] \in Nat
      BY <2>0
    <3> QED BY <2>0, <3>1
  <2>2. i < j \/ j < i
    BY <1>0
  <2> QED BY <2>1, <2>2 DEF Ascending
<1>2. s \in Injection(1 .. N, C)
  BY <1>1, Fun_IsInj
<1>3. Cardinality(1 .. N) = N
  BY <1>0, FS_Interval
<1>4. s \in Surjection(1 .. N, C)
  BY <1>2, <1>3, FS_Injection
<1> QED BY <1>4 DEF Surjection, HasAll

\* What an answer with citations is to be.
CitesItsCards(result, ids, reply) ==
    LET citations == result.citations
        cited(n) == {i \in DOMAIN citations : citations[i].number = n}
    IN  /\ result.docs = ids
        /\ \A i, j \in DOMAIN citations : i < j => citations[i].number < citations[j].number
        /\ \A n : IF n \in reply \cap DOMAIN ids
                  THEN \E i \in cited(n) : citations[i].search_result_id = ids[n]
                  ELSE cited(n) = {}

LEMMA AnswersCiteTheirCards ==
    ASSUME NEW N \in Nat, NEW A, NEW ids \in [1 .. N -> A], NEW rows,
           NEW reply \in SUBSET Nat, search_rag(ids, rows, <<reply>>).status = 200
    PROVE  CitesItsCards(search_rag(ids, rows, <<reply>>), ids, reply)
<1> DEFINE C == {n \in reply : 1 <= n /\ n <= N}
           numbers == extract_cited_numbers(reply, N)
           citations == [i \in DOMAIN numbers |->
                            [number |-> numbers[i], search_result_id |-> ids[numbers[i]]]]
<1>1. ToSet(ids) \subseteq ToSet(rows)
  BY DEF search_rag, NotFound
<1>2. ordered(ids, rows) = ids
  <2>1. \A i \in DOMAIN ids : ids[i] \in ToSet(rows)
    <3>1. \A i \in DOMAIN ids : ids[i] \in ToSet(ids)
      BY DEF ToSet
    <3> QED BY <1>1, <3>1
  <2>2. ordered(ids, rows) = [i \in DOMAIN ids |-> ids[i]]
    BY <2>1 DEF ordered
  <2> QED BY <2>2
<1>3. Len(ids) = N
  BY SeqDef
<1>4. search_rag(ids, rows, <<reply>>) = [status |-> 200, docs |-> ids, citations |-> citations]
  <2>1. <<reply>> # <<>> /\ <<reply>>[1] = reply
    OBVIOUS
  <2> HIDE DEF numbers
  <2> QED BY <1>1, <1>2, <1>3, <2>1 DEF search_rag, numbers
<1>5. C \in SUBSET Nat /\ IsFiniteSet(C) /\ C = reply \cap DOMAIN ids
  <2>0. IsFiniteSet(1 .. N)
    BY FS_Interval
  <2>1. C \in SUBSET (1 .. N)
    <3>1. \A n \in C : n \in 1 .. N
      BY reply \in SUBSET Nat
    <3> HIDE DEF C
    <3> QED BY <3>1
  <2>2. IsFiniteSet(C)
    <3> HIDE DEF C
    <3> QED BY <2>0, <2>1, FS_Subset
  <2>3. C \in SUBSET Nat
    BY reply \in SUBSET Nat
  <2>4. C = reply \cap DOMAIN ids
    <3>1. DOMAIN ids = 1 .. N
      OBVIOUS
    <3>2. \A n \in reply : 1 <= n /\ n <= N <=> n \in 1 .. N
      BY reply \in SUBSET Nat
    <3> QED BY <3>1, <3>2
  <2> QED BY <2>2, <2>3, <2>4
<1>6. numbers \in [1 .. Cardinality(C) -> C] /\ Ascending(numbers)
  <2>1. \E s \in [1 .. Cardinality(C) -> C] : Ascending(s)
    <3> HIDE DEF C
    <3> QED BY <1>5, NumbersHaveAnOrder
  <2>2. numbers = CHOOSE s \in [1 .. Cardinality(C) -> C] : Ascending(s)
    BY DEF extract_cited_numbers, Ascending
  <2> HIDE DEF C, numbers
  <2> QED BY ONLY <2>1, <2>2, Zenon
<1>7. \A n \in C : \E i \in 1 .. Cardinality(C) : numbers[i] = n
  <2> HIDE DEF C, numbers
  <2>1. HasAll(numbers, C)
    BY ONLY <1>5, <1>6, NumbersInOrder
  <2> QED BY <2>1 DEF HasAll
<1>8. DOMAIN citations = DOMAIN numbers /\ DOMAIN numbers = 1 .. Cardinality(C)
  BY <1>6
<1>9. \A i \in DOMAIN numbers : /\ citations[i].number = numbers[i] /\ numbers[i] \in C
                                /\ citations[i].search_result_id = ids[numbers[i]]
  <2> HIDE DEF C, numbers
  <2> QED BY <1>6
<1>10. \A i, j \in DOMAIN citations : i < j => citations[i].number < citations[j].number
  <2> HIDE DEF C, numbers, citations
  <2> QED BY <1>6, <1>8, <1>9 DEF Ascending
<1>11. ASSUME NEW n
       PROVE  LET cited == {i \in DOMAIN citations : citations[i].number = n}
              IN  IF n \in reply \cap DOMAIN ids
                  THEN \E i \in cited : citations[i].search_result_id = ids[n]
                  ELSE cited = {}
  <2> DEFINE cited == {i \in DOMAIN citations : citations[i].number = n}
  <2> HIDE DEF C, numbers, citations
  <2>1. ASSUME n \in C PROVE \E i \in cited : citations[i].search_result_id = ids[n]
    <3>1. PICK i \in 1 .. Cardinality(C) : numbers[i] = n
      BY <1>7, <2>1
    <3>2. i \in cited /\ citations[i].search_result_id = ids[n]
      BY <1>8, <1>9, <3>1
    <3> QED BY <3>2
  <2>2. ASSUME n \notin C PROVE cited = {}
    BY <1>8, <1>9, <2>2
  <2>3. n \in C <=> n \in reply \cap DOMAIN ids
    BY <1>5
  <2> HIDE DEF cited
  <2>4. IF n \in reply \cap DOMAIN ids
        THEN \E i \in cited : citations[i].search_result_id = ids[n]
        ELSE cited = {}
    BY <2>1, <2>2, <2>3
  <2> QED BY <2>4 DEF cited
<1> HIDE DEF citations
<1> QED BY <1>4, <1>10, <1>11 DEF CitesItsCards

\* Whatever the model writes and in whatever order the database answers, a citation is
\* of the card that has its number on the caller's screen, and no number is left out or
\* repeated, for any number of cards (search_rag, extract_cited_numbers).
THEOREM CitationsAreAlwaysTheCards == Spec => []CitationsAreTheCards
<1>1. Inv => CitationsAreTheCards
  <2> SUFFICES ASSUME Inv, Answered("rag"), answer[1].status = 200
               PROVE  CitesItsCards(answer[1], task.ids, task.replies[1])
    BY DEF CitationsAreTheCards, CitesItsCards
  <2>1. task.ids \in Cards /\ task.replies \in Replies
    BY DEF Inv, TaskOK, Answered
  <2>2. answer[1] = search_rag(task.ids, task.rows, task.replies)
    BY DEF Inv, AnswerOK, Answered
  <2>3. PICK N \in 1 .. MaxCards : task.ids \in [1 .. N -> 1 .. MaxCards]
    BY <2>1 DEF Cards
  <2>4. N \in Nat
    BY BoundedInputs
  <2>5. task.replies # <<>>
    BY <2>2 DEF search_rag, NotFound, Unavailable
  <2>6. PICK cited \in SUBSET (0 .. MaxCards + 1) : task.replies = <<cited>>
    BY <2>1, <2>5 DEF Replies
  <2>7. cited \in SUBSET Nat /\ task.replies[1] = cited
    BY <2>6, BoundedInputs
  <2>8. /\ answer[1] = search_rag(task.ids, task.rows, <<cited>>)
        /\ search_rag(task.ids, task.rows, <<cited>>).status = 200
    BY <2>2, <2>6
  <2>9. CitesItsCards(search_rag(task.ids, task.rows, <<cited>>), task.ids, cited)
    <3> DEFINE ids == task.ids
               rows == task.rows
    <3>1. ids \in [1 .. N -> 1 .. MaxCards] /\ search_rag(ids, rows, <<cited>>).status = 200
      BY <2>3, <2>8
    <3>2. cited \in SUBSET Nat
      BY <2>7
    <3> HIDE DEF ids, rows
    <3>3. CitesItsCards(search_rag(ids, rows, <<cited>>), ids, cited)
      BY ONLY <3>1, <3>2, <2>4, AnswersCiteTheirCards
    <3> QED BY <3>3 DEF ids, rows
  <2> QED BY <2>7, <2>8, <2>9
<1> QED BY <1>1, AnswersAreTheCodes, PTL

-----------------------------------------------------------------------------
(* Reciprocal Rank Fusion.                                                 *)

\* The recursive function in a FoldLeft over s exists, when op takes values and
\* elements to values.
FoldsBy(iter, op, base, s) ==
    iter = [T \in SUBSET DOMAIN s |->
               IF T = {} THEN base ELSE op[<<iter[T \ {Max(T)}], s[Max(T)]>>]]

LEMMA LargestOfSome ==
    ASSUME NEW k \in Nat, NEW T \in SUBSET (1 .. k)
    PROVE  /\ T # {} => Max(T) \in T
           /\ k \in T => Max(T) = k
<1>1. ASSUME T # {} PROVE \E x \in T : \A y \in T : x >= y
  <2> DEFINE U == {k - x : x \in T}
  <2>1. U \in SUBSET Nat /\ U # {}
    <3>1. PICK x \in T : TRUE
      BY <1>1
    <3>2. \A t \in T : k - t \in Nat
      OBVIOUS
    <3>3. k - x \in U
      OBVIOUS
    <3> QED BY <3>2, <3>3
  <2>2. PICK u \in U : \A v \in U : u <= v
    <3> HIDE DEF U
    <3> QED BY <2>1, LeastNatural
  <2>3. PICK x \in T : u = k - x
    BY <2>2
  <2>4. ASSUME NEW y \in T PROVE x >= y
    <3>1. k - y \in U /\ x \in Int /\ y \in Int
      OBVIOUS
    <3>2. k - x <= k - y
      BY <2>2, <2>3, <3>1
    <3> HIDE DEF U
    <3> QED BY <3>1, <3>2
  <2> QED BY <2>4
<1>2. ASSUME T # {} PROVE Max(T) \in T /\ \A y \in T : Max(T) >= y
  BY <1>1, <1>2, Zenon DEF Max
<1>3. ASSUME k \in T PROVE Max(T) = k
  <2>1. Max(T) \in 1 .. k /\ Max(T) >= k
    BY <1>2, <1>3
  <2> QED BY <2>1
<1> QED BY <1>2, <1>3

LEMMA FoldExists ==
    ASSUME NEW V, NEW A, NEW op \in [V \X A -> V], NEW base \in V,
           NEW N \in Nat, NEW s \in [1 .. N -> A]
    PROVE  \E iter \in [SUBSET (1 .. N) -> V] : FoldsBy(iter, op, base, s)
<1> DEFINE Step(f, T) == IF T = {} THEN base ELSE op[<<f[T \ {Max(T)}], s[Max(T)]>>]
           Good(k) == \E f \in [SUBSET (1 .. k) -> V] :
                          \A T \in SUBSET (1 .. k) : f[T] = Step(f, T)
           S == {k \in Nat : k <= N => Good(k)}
<1>1. Good(0)
  <2> DEFINE f == [T \in SUBSET (1 .. 0) |-> base]
  <2>1. f \in [SUBSET (1 .. 0) -> V] /\ \A T \in SUBSET (1 .. 0) : T = {} /\ f[T] = base
    OBVIOUS
  <2> QED BY <2>1
<1>2. ASSUME NEW k \in Nat, k + 1 <= N, Good(k) PROVE Good(k + 1)
  <2>1. PICK f \in [SUBSET (1 .. k) -> V] : \A T \in SUBSET (1 .. k) : f[T] = Step(f, T)
    BY <1>2
  <2> DEFINE g == [T \in SUBSET (1 .. k + 1) |->
                      IF k + 1 \in T THEN op[<<f[T \ {k + 1}], s[k + 1]>>] ELSE f[T]]
  <2>2. s[k + 1] \in A
    <3>1. k + 1 \in 1 .. N
      BY <1>2
    <3> QED BY <3>1
  <2>3. \A T \in SUBSET (1 .. k + 1) :
           /\ k + 1 \in T => T \ {k + 1} \in SUBSET (1 .. k)
           /\ k + 1 \notin T => T \in SUBSET (1 .. k)
    OBVIOUS
  <2>4. g \in [SUBSET (1 .. k + 1) -> V]
    BY <2>1, <2>2, <2>3
  <2>5. \A T \in SUBSET (1 .. k) : T \in SUBSET (1 .. k + 1) /\ k + 1 \notin T
    OBVIOUS
  <2>6. \A T \in SUBSET (1 .. k) : g[T] = f[T]
    BY <2>5
  <2>7. ASSUME NEW T \in SUBSET (1 .. k + 1) PROVE g[T] = Step(g, T)
    <3>1. CASE k + 1 \in T
      <4>1. Max(T) = k + 1 /\ T # {}
        BY <3>1, LargestOfSome
      <4>2. g[T] = op[<<f[T \ {k + 1}], s[k + 1]>>] /\ g[T \ {k + 1}] = f[T \ {k + 1}]
        BY <2>3, <2>6, <3>1
      <4> HIDE DEF g
      <4> QED BY <4>1, <4>2
    <3>2. CASE k + 1 \notin T
      <4>1. T \in SUBSET (1 .. k) /\ T \ {Max(T)} \in SUBSET (1 .. k)
        BY <2>3, <3>2
      <4>2. g[T] = f[T] /\ g[T \ {Max(T)}] = f[T \ {Max(T)}] /\ f[T] = Step(f, T)
        BY <2>1, <2>6, <4>1
      <4> HIDE DEF g
      <4> QED BY <4>2
    <3> QED BY <3>1, <3>2
  <2> HIDE DEF g, Step
  <2> QED BY <2>4, <2>7
<1>3. Nat \subseteq S
  <2> HIDE DEF Good
  <2>1. 0 \in S /\ \A k \in Nat : k \in S => k + 1 \in S
    BY <1>1, <1>2
  <2> HIDE DEF S
  <2> QED BY <2>1, Induction
<1>4. PICK f \in [SUBSET (1 .. N) -> V] : \A T \in SUBSET (1 .. N) : f[T] = Step(f, T)
  <2>1. Good(N)
    <3> HIDE DEF Good
    <3> QED BY <1>3
  <2> QED BY <2>1
<1>5. DOMAIN s = 1 .. N /\ f = [T \in SUBSET (1 .. N) |-> Step(f, T)]
  <2> HIDE DEF Step
  <2> QED BY <1>4
<1>6. FoldsBy(f, op, base, s)
  BY <1>5 DEF FoldsBy
<1> QED BY <1>6

\* The keys of a dict that s is read into.
Keys(s) == FoldLeft(LAMBDA keys, d : IF d \in ToSet(keys) THEN keys ELSE Append(keys, d),
                    <<>>, s)
KeysBy(f, s) ==
    /\ f[0] = <<>>
    /\ \A k \in 0 .. Len(s) - 1 :
          f[k + 1] = IF s[k + 1] \in ToSet(f[k]) THEN f[k] ELSE Append(f[k], s[k + 1])
    /\ Keys(s) = f[Len(s)]

LEMMA KeysInSteps ==
    ASSUME NEW D, NEW s \in Seq(D)
    PROVE  \E f : KeysBy(f, s)
<1> DEFINE N == Len(s)
           op == [p \in Seq(D) \X D |-> IF p[2] \in ToSet(p[1]) THEN p[1] ELSE Append(p[1], p[2])]
           Next1(h, T) == IF T = {} THEN <<>>
                          ELSE IF s[Max(T)] \in ToSet(h[T \ {Max(T)}]) THEN h[T \ {Max(T)}]
                               ELSE Append(h[T \ {Max(T)}], s[Max(T)])
           iter == CHOOSE h : h = [T \in SUBSET DOMAIN s |-> Next1(h, T)]
           f == [k \in 0 .. N |-> iter[1 .. k]]
<1>0. N \in Nat /\ DOMAIN s = 1 .. N /\ s \in [1 .. N -> D]
  OBVIOUS
<1>1. \E h : h = [T \in SUBSET DOMAIN s |-> Next1(h, T)]
  <2>1. op \in [Seq(D) \X D -> Seq(D)] /\ <<>> \in Seq(D)
    BY AppendProperties
  <2>2. PICK h \in [SUBSET (1 .. N) -> Seq(D)] : FoldsBy(h, op, <<>>, s)
    <3> HIDE DEF op
    <3> QED BY <1>0, <2>1, FoldExists
  <2>3. ASSUME NEW T \in SUBSET (1 .. N) PROVE h[T] = Next1(h, T)
    <3>1. CASE T = {}
      BY <1>0, <2>2, <3>1 DEF FoldsBy
    <3>2. CASE T # {}
      <4>1. Max(T) \in 1 .. N /\ T \ {Max(T)} \in SUBSET (1 .. N)
        BY <1>0, <3>2, LargestOfSome
      <4>2. h[T] = op[<<h[T \ {Max(T)}], s[Max(T)]>>]
        <5> HIDE DEF op
        <5> QED BY <1>0, <2>2, <3>2 DEF FoldsBy
      <4>3. h[T \ {Max(T)}] \in Seq(D) /\ s[Max(T)] \in D
        BY <1>0, <4>1
      <4> QED BY <3>2, <4>2, <4>3
    <3> QED BY <3>1, <3>2
  <2>4. h = [T \in SUBSET DOMAIN s |-> Next1(h, T)]
    <3> HIDE DEF Next1
    <3> QED BY <1>0, <2>3
  <2> QED BY <2>4
<1>2. iter = [T \in SUBSET DOMAIN s |-> Next1(iter, T)]
  <2> HIDE DEF Next1
  <2> QED BY <1>1, Zenon
<1>3. Keys(s) = iter[1 .. N]
  <2>1. Keys(s) = iter[DOMAIN s]
    BY DEF Keys, FoldLeft, MapThenFoldSet
  <2> QED BY <1>0, <2>1
<1> HIDE DEF iter
<1>4. f[0] = <<>>
  <2>1. 1 .. 0 = {} /\ {} \in SUBSET DOMAIN s
    OBVIOUS
  <2> QED BY <1>0, <1>2, <2>1
<1>5. ASSUME NEW k \in 0 .. N - 1
      PROVE  f[k + 1] = IF s[k + 1] \in ToSet(f[k]) THEN f[k] ELSE Append(f[k], s[k + 1])
  <2>1. 1 .. k + 1 \in SUBSET (1 .. k + 1) /\ k + 1 \in 1 .. k + 1 /\ k + 1 \in Nat
    OBVIOUS
  <2>2. Max(1 .. k + 1) = k + 1
    BY ONLY <2>1, LargestOfSome
  <2>3. (1 .. k + 1) \ {k + 1} = 1 .. k /\ 1 .. k + 1 # {}
    <3>1. k \in Nat /\ k + 1 \in 1 .. k + 1
      OBVIOUS
    <3>2. \A x : x \in (1 .. k + 1) \ {k + 1} <=> x \in 1 .. k
      BY <3>1
    <3> QED BY <3>1, <3>2
  <2>4. 1 .. k + 1 \in SUBSET DOMAIN s
    BY <1>0
  <2>5. iter[1 .. k + 1] = Next1(iter, 1 .. k + 1)
    <3> HIDE DEF Next1
    <3> QED BY <1>2, <2>4
  <2>6. f[k] = iter[1 .. k] /\ f[k + 1] = iter[1 .. k + 1]
    BY <1>0
  <2> HIDE DEF f
  <2> QED BY <2>2, <2>3, <2>5, <2>6
<1>6. f[N] = iter[1 .. N]
  BY <1>0
<1> HIDE DEF f
<1> QED BY <1>3, <1>4, <1>5, <1>6 DEF KeysBy

\* Where s first has d.
Met(s, d) == CHOOSE i \in DOMAIN s : s[i] = d /\ \A j \in 1 .. i - 1 : s[j] # d

LEMMA MetFirst ==
    ASSUME NEW D, NEW s \in Seq(D), NEW d \in ToSet(s)
    PROVE  /\ Met(s, d) \in 1 .. Len(s) /\ s[Met(s, d)] = d
           /\ \A j \in 1 .. Len(s) : s[j] = d => Met(s, d) <= j
<1> DEFINE U == {i \in 1 .. Len(s) : s[i] = d}
<1>0. DOMAIN s = 1 .. Len(s) /\ Len(s) \in Nat
  OBVIOUS
<1>1. U \in SUBSET Nat /\ U # {}
  BY <1>0 DEF ToSet
<1>2. PICK i \in U : \A j \in U : i <= j
  BY <1>1, LeastNatural
<1>3. i \in DOMAIN s /\ s[i] = d /\ \A j \in 1 .. i - 1 : s[j] # d
  <2>1. i \in 1 .. Len(s) /\ s[i] = d
    OBVIOUS
  <2>2. ASSUME NEW j \in 1 .. i - 1 PROVE s[j] # d
    <3>1. j \in 1 .. Len(s) /\ ~(i <= j)
      BY <1>0, <2>1
    <3> QED BY <1>2, <3>1
  <2> QED BY <1>0, <2>1, <2>2
<1>4. /\ Met(s, d) \in DOMAIN s /\ s[Met(s, d)] = d
      /\ \A j \in 1 .. Met(s, d) - 1 : s[j] # d
  BY <1>3, Zenon DEF Met
<1>5. ASSUME NEW j \in 1 .. Len(s), s[j] = d PROVE Met(s, d) <= j
  <2>1. ~(j \in 1 .. Met(s, d) - 1)
    BY <1>4, <1>5
  <2> QED BY <1>0, <1>4, <2>1
<1> QED BY <1>0, <1>4, <1>5

\* A dict has its keys in the order in which they were first met.
KeysOK(keys, s, k) ==
    /\ keys \in Seq(ToSet(s))
    /\ \A p \in DOMAIN keys : Met(s, keys[p]) <= k
    /\ \A p, q \in DOMAIN keys : p < q => Met(s, keys[p]) < Met(s, keys[q])
    /\ \A i \in 1 .. k : s[i] \in ToSet(keys)

LEMMA KeysStep ==
    ASSUME NEW D, NEW s \in Seq(D), NEW k \in 0 .. Len(s) - 1, NEW keys, KeysOK(keys, s, k)
    PROVE  KeysOK(IF s[k + 1] \in ToSet(keys) THEN keys ELSE Append(keys, s[k + 1]), s, k + 1)
<1> DEFINE d == s[k + 1]
<1>0. /\ Len(s) \in Nat /\ k \in Nat /\ k + 1 \in 1 .. Len(s) /\ d \in ToSet(s)
      /\ keys \in Seq(ToSet(s)) /\ Len(keys) \in Nat /\ DOMAIN keys = 1 .. Len(keys)
  BY DEF KeysOK, ToSet
<1>1. \A e \in ToSet(s) : Met(s, e) \in 1 .. Len(s)
  BY MetFirst
<1>2. \A p \in DOMAIN keys : keys[p] \in ToSet(s) /\ keys[p] \in ToSet(keys)
  BY <1>0 DEF ToSet
<1>3. CASE d \in ToSet(keys)
  <2>1. \A p \in DOMAIN keys : Met(s, keys[p]) <= k + 1
    BY <1>0, <1>1, <1>2 DEF KeysOK
  <2>2. \A i \in 1 .. k + 1 : s[i] \in ToSet(keys)
    BY <1>0, <1>3 DEF KeysOK
  <2> QED BY <1>3, <2>1, <2>2 DEF KeysOK
<1>4. CASE d \notin ToSet(keys)
  <2> DEFINE longer == Append(keys, d)
  <2>1. /\ longer \in Seq(ToSet(s)) /\ DOMAIN longer = 1 .. Len(keys) + 1
        /\ \A p \in DOMAIN keys : longer[p] = keys[p]
        /\ longer[Len(keys) + 1] = d
    BY <1>0, AppendProperties
  <2>2. Met(s, d) = k + 1
    <3>1. \A j \in 1 .. k : s[j] # d
      BY <1>4 DEF KeysOK
    <3>2. Met(s, d) \in 1 .. Len(s) /\ s[Met(s, d)] = d /\ Met(s, d) <= k + 1
      BY <1>0, MetFirst
    <3> HIDE DEF d
    <3>3. ~(Met(s, d) \in 1 .. k)
      BY <3>1, <3>2
    <3> QED BY <1>0, <3>2, <3>3
  <2> HIDE DEF longer, d
  <2>3. \A p \in DOMAIN longer : p \in DOMAIN keys \/ p = Len(keys) + 1
    BY <1>0, <2>1
  <2>4. ASSUME NEW p \in DOMAIN longer PROVE Met(s, longer[p]) <= k + 1
    <3>1. CASE p \in DOMAIN keys
      <4>1. Met(s, keys[p]) <= k /\ Met(s, keys[p]) \in 1 .. Len(s)
        BY <1>1, <1>2, <3>1 DEF KeysOK
      <4> QED BY <1>0, <2>1, <3>1, <4>1
    <3>2. CASE p = Len(keys) + 1
      BY <1>0, <2>1, <2>2, <3>2
    <3> QED BY <2>3, <3>1, <3>2
  <2>5. ASSUME NEW p \in DOMAIN longer, NEW q \in DOMAIN longer, p < q
        PROVE  Met(s, longer[p]) < Met(s, longer[q])
    <3>1. p \in DOMAIN keys
      BY <1>0, <2>1, <2>5
    <3>2. CASE q \in DOMAIN keys
      BY <2>1, <2>5, <3>1, <3>2 DEF KeysOK
    <3>3. CASE q = Len(keys) + 1
      <4>1. Met(s, keys[p]) <= k /\ Met(s, keys[p]) \in 1 .. Len(s)
        BY <1>1, <1>2, <3>1 DEF KeysOK
      <4> QED BY <1>0, <2>1, <2>2, <3>1, <3>3, <4>1
    <3> QED BY <2>3, <3>2, <3>3
  <2>6. ASSUME NEW i \in 1 .. k + 1 PROVE s[i] \in ToSet(longer)
    <3>1. ToSet(keys) \subseteq ToSet(longer) /\ d \in ToSet(longer)
      <4>1. \A p \in DOMAIN keys : p \in DOMAIN longer /\ keys[p] = longer[p]
        BY <1>0, <2>1
      <4>2. Len(keys) + 1 \in DOMAIN longer
        BY <1>0, <2>1
      <4>3. \A p \in DOMAIN longer : longer[p] \in ToSet(longer)
        BY DEF ToSet
      <4>4. \A p \in DOMAIN keys : keys[p] \in ToSet(longer)
        BY <4>1, <4>3
      <4>5. ToSet(keys) \subseteq ToSet(longer)
        BY <4>4 DEF ToSet
      <4> QED BY <2>1, <4>2, <4>3, <4>5
    <3>2. CASE i \in 1 .. k
      BY <3>1, <3>2 DEF KeysOK
    <3>3. CASE i = k + 1
      BY <3>1, <3>3 DEF d
    <3> QED BY <1>0, <3>2, <3>3
  <2>7. KeysOK(longer, s, k + 1)
    BY <2>1, <2>4, <2>5, <2>6 DEF KeysOK
  <2> QED BY <1>4, <2>7 DEF longer, d
<1> QED BY <1>3, <1>4

LEMMA KeysAreInOrder ==
    ASSUME NEW D, NEW s \in Seq(D)
    PROVE  KeysOK(Keys(s), s, Len(s))
<1>0. Len(s) \in Nat
  OBVIOUS
<1>1. PICK f : KeysBy(f, s)
  BY KeysInSteps
<1> DEFINE S == {k \in Nat : k <= Len(s) => KeysOK(f[k], s, k)}
<1>2. 0 \in S
  <2>1. KeysOK(<<>>, s, 0)
    BY DEF KeysOK
  <2> QED BY <1>1, <2>1 DEF KeysBy
<1>3. ASSUME NEW k \in Nat, k \in S PROVE k + 1 \in S
  <2> SUFFICES ASSUME k + 1 <= Len(s) PROVE KeysOK(f[k + 1], s, k + 1)
    OBVIOUS
  <2>1. k \in 0 .. Len(s) - 1 /\ KeysOK(f[k], s, k)
    BY <1>0, <1>3
  <2>2. f[k + 1] = IF s[k + 1] \in ToSet(f[k]) THEN f[k] ELSE Append(f[k], s[k + 1])
    BY <1>1, <2>1 DEF KeysBy
  <2> QED BY <2>1, <2>2, KeysStep
<1>4. Nat \subseteq S
  <2> HIDE DEF S
  <2> QED BY <1>2, <1>3, Induction
<1> QED BY <1>0, <1>1, <1>4 DEF KeysBy

LEMMA RankIsWhenMet ==
    ASSUME NEW D, NEW s \in Seq(D), NEW d \in ToSet(s), NEW e \in ToSet(s)
    PROVE  /\ RankIn(Keys(s), d) \in Nat
           /\ RankIn(Keys(s), d) < RankIn(Keys(s), e) <=> Met(s, d) < Met(s, e)
<1> DEFINE keys == Keys(s)
<1>1. KeysOK(keys, s, Len(s))
  BY KeysAreInOrder
<1> HIDE DEF keys
<1>2. keys \in Seq(ToSet(s)) /\ DOMAIN keys = 1 .. Len(keys) /\ Len(keys) \in Nat
  BY <1>1 DEF KeysOK
<1>3. ASSUME NEW c \in ToSet(s) PROVE RankIn(keys, c) \in DOMAIN keys /\ keys[RankIn(keys, c)] = c
  <2>0. PICK i \in 1 .. Len(s) : s[i] = c
    BY DEF ToSet
  <2>1. c \in ToSet(keys)
    BY <1>1, <2>0 DEF KeysOK
  <2>2. \E p \in DOMAIN keys : keys[p] = c
    BY <2>1 DEF ToSet
  <2> QED BY <2>2, Zenon DEF RankIn
<1>4. /\ RankIn(keys, d) \in 1 .. Len(keys) /\ RankIn(keys, e) \in 1 .. Len(keys)
      /\ Met(s, d) \in 1 .. Len(s) /\ Met(s, e) \in 1 .. Len(s) /\ Len(s) \in Nat
  BY <1>2, <1>3, MetFirst
<1>5. \A b, c \in ToSet(s) : RankIn(keys, b) < RankIn(keys, c) => Met(s, b) < Met(s, c)
  <2> SUFFICES ASSUME NEW b \in ToSet(s), NEW c \in ToSet(s), RankIn(keys, b) < RankIn(keys, c)
               PROVE  Met(s, b) < Met(s, c)
    OBVIOUS
  <2>1. Met(s, keys[RankIn(keys, b)]) < Met(s, keys[RankIn(keys, c)])
    BY <1>1, <1>3 DEF KeysOK
  <2> QED BY <1>3, <2>1
<1>6. RankIn(keys, d) = RankIn(keys, e) => d = e
  BY <1>3
<1>7. RankIn(keys, d) < RankIn(keys, e) <=> Met(s, d) < Met(s, e)
  BY <1>4, <1>5, <1>6
<1> QED BY <1>2, <1>4, <1>7 DEF keys

\* The fused score of a document, over two lists.
Fused(lists, rrfK, d) ==
    FoldLeft(LAMBDA sum, ranked : IF d \in ToSet(ranked)
                                  THEN Plus(sum, <<1, rrfK + RankIn(ranked, d)>>)
                                  ELSE sum,
             <<0, 1>>, lists)
Term(sum, ranked, rrfK, d) ==
    IF d \in ToSet(ranked) THEN Plus(sum, <<1, rrfK + RankIn(ranked, d)>>) ELSE sum

LEMMA FusedOfTwo ==
    ASSUME NEW one, NEW two, NEW k, NEW d
    PROVE  Fused(<<one, two>>, k, d) = Term(Term(<<0, 1>>, one, k, d), two, k, d)
<1> DEFINE lists == <<one, two>>
           Next1(h, T) == IF T = {} THEN <<0, 1>>
                          ELSE Term(h[T \ {Max(T)}], lists[Max(T)], k, d)
           iter == CHOOSE h : h = [T \in SUBSET DOMAIN lists |-> Next1(h, T)]
           h0 == [T \in SUBSET {1, 2} |->
                     IF 2 \in T
                     THEN IF 1 \in T THEN Term(Term(<<0, 1>>, one, k, d), two, k, d)
                          ELSE Term(<<0, 1>>, two, k, d)
                     ELSE IF 1 \in T THEN Term(<<0, 1>>, one, k, d) ELSE <<0, 1>>]
<1>1. DOMAIN lists = {1, 2} /\ lists[1] = one /\ lists[2] = two
  OBVIOUS
<1>2. Max({1}) = 1 /\ Max({2}) = 2 /\ Max({1, 2}) = 2
  <2>1. {1} \in SUBSET (1 .. 1) /\ {2} \in SUBSET (1 .. 2) /\ {1, 2} \in SUBSET (1 .. 2)
    OBVIOUS
  <2>2. Max({1}) = 1
    BY <2>1, LargestOfSome
  <2>3. Max({2}) = 2 /\ Max({1, 2}) = 2
    BY <2>1, LargestOfSome
  <2> QED BY <2>2, <2>3
<1>3. \A T \in SUBSET {1, 2} : T \in {{}, {1}, {2}, {1, 2}}
  OBVIOUS
<1>4. /\ {} \in SUBSET {1, 2} /\ {1} \in SUBSET {1, 2} /\ {2} \in SUBSET {1, 2}
      /\ {1, 2} \in SUBSET {1, 2} /\ {1} \ {1} = {} /\ {2} \ {2} = {} /\ {1, 2} \ {2} = {1}
      /\ {1} # {} /\ {2} # {} /\ {1, 2} # {}
  OBVIOUS
<1>5. h0 = [T \in SUBSET DOMAIN lists |-> Next1(h0, T)]
  <2>1. /\ h0[{}] = <<0, 1>> /\ h0[{1}] = Term(<<0, 1>>, one, k, d)
        /\ h0[{2}] = Term(<<0, 1>>, two, k, d)
        /\ h0[{1, 2}] = Term(Term(<<0, 1>>, one, k, d), two, k, d)
    BY <1>4
  <2>2. h0 = [T \in SUBSET {1, 2} |-> h0[T]]
    OBVIOUS
  <2> HIDE DEF h0, lists
  <2>3. ASSUME NEW T \in SUBSET {1, 2} PROVE h0[T] = Next1(h0, T)
    <3>1. CASE T = {}
      BY <2>1, <3>1
    <3>2. CASE T = {1}
      BY <1>1, <1>2, <1>4, <2>1, <3>2
    <3>3. CASE T = {2}
      BY <1>1, <1>2, <1>4, <2>1, <3>3
    <3>4. CASE T = {1, 2}
      BY <1>1, <1>2, <1>4, <2>1, <3>4
    <3> QED BY <1>3, <3>1, <3>2, <3>3, <3>4
  <2> HIDE DEF Next1
  <2> QED BY <1>1, <2>2, <2>3
<1>6. iter = [T \in SUBSET DOMAIN lists |-> Next1(iter, T)]
  <2> HIDE DEF h0, Next1, lists
  <2> QED BY <1>5, Zenon
<1>7. Fused(lists, k, d) = iter[DOMAIN lists]
  BY DEF Fused, FoldLeft, MapThenFoldSet, Term
<1> HIDE DEF iter, lists
<1>8. iter[{1, 2}] = Term(Term(<<0, 1>>, one, k, d), two, k, d)
  <2>1. \A T \in SUBSET {1, 2} : iter[T] = Next1(iter, T)
    <3> HIDE DEF Next1
    <3> QED BY <1>1, <1>6
  <2> HIDE DEF h0
  <2>2. iter[{}] = <<0, 1>>
    BY <1>4, <2>1
  <2>3. iter[{1}] = Term(iter[{1} \ {1}], lists[1], k, d)
    BY <1>2, <1>4, <2>1
  <2>4. iter[{1}] = Term(<<0, 1>>, one, k, d)
    BY <1>1, <1>4, <2>2, <2>3
  <2>5. iter[{1, 2}] = Term(iter[{1, 2} \ {2}], lists[2], k, d)
    BY <1>2, <1>4, <2>1
  <2> QED BY <1>1, <1>4, <2>4, <2>5
<1> QED BY <1>1, <1>7, <1>8 DEF lists

\* What a score is worth in units of 1 / U.
Worth(x, S, U) == x[1] \in Nat /\ x[2] \in Nat \ {0} /\ S \in Nat /\ x[1] * U = S * x[2]

LEMMA OneTerm ==
    ASSUME NEW x \in Nat \X (Nat \ {0}), NEW S, NEW U \in Nat, Worth(x, S, U),
           NEW a \in Nat \ {0}, NEW m \in Nat, U = a * m
    PROVE  /\ Plus(x, <<1, a>>) \in Nat \X (Nat \ {0})
           /\ Worth(Plus(x, <<1, a>>), S + m, U)
<1>1. Plus(x, <<1, a>>) = <<x[1] * a + x[2], x[2] * a>>
  BY DEF Plus
<1>2. x[1] \in Nat /\ x[2] \in Nat \ {0} /\ S \in Nat /\ x[1] * U = S * x[2]
  BY DEF Worth
<1>3. \A p, q \in Nat : p * q \in Nat /\ (p # 0 /\ q # 0 => p * q # 0)
  OBVIOUS
<1>4. x[1] * a + x[2] \in Nat /\ x[2] * a \in Nat \ {0}
  BY <1>2, <1>3
<1>5. (x[1] * a + x[2]) * U = (S + m) * (x[2] * a)
  <2> DEFINE n == x[1]
             e == x[2]
  <2>1. n \in Nat /\ e \in Nat /\ S \in Nat /\ n * U = S * e
    BY <1>2
  <2> HIDE DEF n, e
  <2>2. (n * a + e) * U = a * (n * U) + e * U
    BY <2>1
  <2>3. a * (n * U) + e * U = a * (S * e) + e * (a * m)
    BY <2>1
  <2>4. a * (S * e) + e * (a * m) = (S + m) * (e * a)
    BY <2>1
  <2>5. (n * a + e) * U = (S + m) * (e * a)
    BY <2>2, <2>3, <2>4
  <2> QED BY <2>5 DEF n, e
<1> QED BY <1>1, <1>2, <1>4, <1>5 DEF Worth

LEMMA ScoresCompare ==
    ASSUME NEW x, NEW y, NEW S, NEW T, NEW U \in Nat \ {0}, Worth(x, S, U), Worth(y, T, U)
    PROVE  MoreThan(x, y) <=> S > T
<1> DEFINE a == x[1]
           b == x[2]
           c == y[1]
           e == y[2]
<1>1. /\ a \in Nat /\ b \in Nat \ {0} /\ S \in Nat /\ a * U = S * b
      /\ c \in Nat /\ e \in Nat \ {0} /\ T \in Nat /\ c * U = T * e
  BY DEF Worth
<1>2. MoreThan(x, y) <=> a * e > c * b
  BY DEF MoreThan
<1> HIDE DEF a, b, c, e
<1>3. (a * e) * U = S * (b * e) /\ (c * b) * U = T * (b * e)
  <2>1. (a * e) * U = (a * U) * e /\ (S * b) * e = S * (b * e)
    BY <1>1
  <2>2. (c * b) * U = (c * U) * b /\ (T * e) * b = T * (b * e)
    BY <1>1
  <2>3. (a * U) * e = (S * b) * e /\ (c * U) * b = (T * e) * b
    BY <1>1
  <2> QED BY <2>1, <2>2, <2>3
<1>4. \A p, q \in Int, w \in Nat \ {0} : p > q <=> p * w > q * w
  <2>1. \A p, q \in Int, w \in Nat \ {0} : p > q => p * w > q * w
    <3> SUFFICES ASSUME NEW p \in Int, NEW q \in Int, NEW w \in Nat \ {0}, p > q
                 PROVE  p * w > q * w
      OBVIOUS
    <3>1. PICK r \in Nat \ {0} : p = q + r
      <4>1. p - q \in Nat \ {0} /\ p = q + (p - q)
        OBVIOUS
      <4> QED BY <4>1
    <3>2. r * w > 0 /\ p * w = q * w + r * w /\ q * w \in Int /\ r * w \in Int
      BY <3>1
    <3> QED BY <3>2
  <2>2. \A p, q \in Int, w \in Nat \ {0} : p * w \in Int
    OBVIOUS
  <2> SUFFICES ASSUME NEW p \in Int, NEW q \in Int, NEW w \in Nat \ {0}, p * w > q * w
               PROVE  p > q
    BY <2>1
  <2>3. CASE p = q
    BY <2>2, <2>3
  <2>4. CASE q > p
    <3>1. q * w > p * w
      BY <2>1, <2>4
    <3> QED BY <2>2, <3>1
  <2> QED BY <2>3, <2>4
<1>5. a * e \in Int /\ c * b \in Int /\ b * e \in Nat \ {0} /\ S \in Int /\ T \in Int
  BY <1>1
<1>6. a * e > c * b <=> (a * e) * U > (c * b) * U
  BY <1>4, <1>5
<1>7. S > T <=> S * (b * e) > T * (b * e)
  BY <1>4, <1>5
<1> QED BY <1>2, <1>3, <1>6, <1>7

\* The units: a product that each of its factors divides.
ProductBy(p, k, N) == p = [i \in 0 .. N |-> IF i = 0 THEN 1 ELSE (k + i) * p[i - 1]]
Divides(a, U) == \E m \in Nat \ {0} : U = a * m

LEMMA ProductExists ==
    ASSUME NEW k \in Nat, NEW N \in Nat
    PROVE  \E p \in [0 .. N -> Nat \ {0}] : ProductBy(p, k, N)
<1> DEFINE Steps(n, p) == \A i \in 0 .. n : p[i] = IF i = 0 THEN 1 ELSE (k + i) * p[i - 1]
           Good(n) == \E p \in [0 .. n -> Nat \ {0}] : Steps(n, p)
           S == {n \in Nat : Good(n)}
<1>1. Good(0)
  <2> DEFINE p == [i \in 0 .. 0 |-> 1]
  <2>1. p \in [0 .. 0 -> Nat \ {0}] /\ Steps(0, p)
    OBVIOUS
  <2> QED BY <2>1
<1>2. ASSUME NEW n \in Nat, Good(n) PROVE Good(n + 1)
  <2>1. PICK p \in [0 .. n -> Nat \ {0}] : Steps(n, p)
    BY <1>2
  <2> DEFINE q == [i \in 0 .. n + 1 |-> IF i = n + 1 THEN (k + (n + 1)) * p[n] ELSE p[i]]
  <2>2. (k + (n + 1)) * p[n] \in Nat \ {0}
    <3>1. \A a, b \in Nat \ {0} : a * b \in Nat \ {0}
      OBVIOUS
    <3>2. k + (n + 1) \in Nat \ {0} /\ p[n] \in Nat \ {0}
      BY <2>1
    <3> QED BY <3>1, <3>2
  <2>3. q \in [0 .. n + 1 -> Nat \ {0}]
    BY <2>1, <2>2
  <2>4. ASSUME NEW i \in 0 .. n + 1 PROVE q[i] = IF i = 0 THEN 1 ELSE (k + i) * q[i - 1]
    <3>1. CASE i = n + 1
      <4>1. i # 0 /\ i - 1 = n /\ n \in 0 .. n + 1 /\ n # n + 1
        BY <3>1
      <4>2. q[i] = (k + i) * p[n] /\ q[n] = p[n]
        BY <3>1, <4>1
      <4> HIDE DEF q
      <4> QED BY <4>1, <4>2
    <3>2. CASE i # n + 1
      <4>1. i \in 0 .. n /\ q[i] = p[i] /\ (i # 0 => q[i - 1] = p[i - 1])
        BY <3>2
      <4> HIDE DEF q
      <4> QED BY <2>1, <4>1
    <3> QED BY <3>1, <3>2
  <2> HIDE DEF q
  <2> QED BY <2>3, <2>4
<1>3. Nat \subseteq S
  <2> HIDE DEF Good
  <2>1. 0 \in S /\ \A n \in Nat : n \in S => n + 1 \in S
    BY <1>1, <1>2
  <2> HIDE DEF S
  <2> QED BY <2>1, Induction
<1>4. PICK p \in [0 .. N -> Nat \ {0}] : Steps(N, p)
  BY <1>3
<1>5. ProductBy(p, k, N)
  BY <1>4 DEF ProductBy
<1> QED BY <1>5

LEMMA FactorsDivide ==
    ASSUME NEW k \in Nat, NEW N \in Nat, NEW p, ProductBy(p, k, N)
    PROVE  /\ p[N] \in Nat \ {0}
           /\ \A i \in 1 .. N : Divides(k + i, p[N])
<1>0. \A a, b \in Nat \ {0} : a * b \in Nat \ {0}
  OBVIOUS
<1>1. p[0] = 1 /\ \A n \in Nat : n + 1 <= N => p[n + 1] = (k + (n + 1)) * p[n]
  <2>1. p = [i \in 0 .. N |-> IF i = 0 THEN 1 ELSE (k + i) * p[i - 1]]
    BY DEF ProductBy
  <2>2. \A i \in 0 .. N : p[i] = IF i = 0 THEN 1 ELSE (k + i) * p[i - 1]
    BY <2>1
  <2>3. ASSUME NEW n \in Nat, n + 1 <= N PROVE p[n + 1] = (k + (n + 1)) * p[n]
    <3>1. n + 1 \in 0 .. N /\ n + 1 # 0 /\ (n + 1) - 1 = n
      BY <2>3
    <3> QED BY <2>2, <3>1
  <2> QED BY <2>2, <2>3
<1> DEFINE S == {n \in Nat : n <= N => p[n] \in Nat \ {0}}
<1>2. 0 \in S
  BY <1>1
<1>3. ASSUME NEW n \in Nat, n \in S PROVE n + 1 \in S
  <2> SUFFICES ASSUME n + 1 <= N PROVE p[n + 1] \in Nat \ {0}
    OBVIOUS
  <2>1. p[n] \in Nat \ {0} /\ k + (n + 1) \in Nat \ {0}
    BY <1>3
  <2>2. p[n + 1] = (k + (n + 1)) * p[n]
    BY <1>1
  <2> QED BY <1>0, <2>1, <2>2
<1>4. \A n \in 0 .. N : p[n] \in Nat \ {0}
  <2>1. Nat \subseteq S
    <3> HIDE DEF S
    <3> QED BY <1>2, <1>3, Induction
  <2> QED BY <2>1
<1>5. ASSUME NEW i \in 1 .. N PROVE Divides(k + i, p[N])
  <2> DEFINE W == {n \in Nat : i + n <= N => Divides(k + i, p[i + n])}
  <2>1. 0 \in W
    <3>1. i - 1 \in Nat /\ (i - 1) + 1 = i /\ i - 1 \in 0 .. N
      OBVIOUS
    <3>2. p[i] = (k + i) * p[i - 1] /\ p[i - 1] \in Nat \ {0}
      BY <1>1, <1>4, <3>1
    <3>3. Divides(k + i, p[i])
      BY <3>2 DEF Divides
    <3> QED BY <3>3
  <2>2. ASSUME NEW n \in Nat, n \in W PROVE n + 1 \in W
    <3> SUFFICES ASSUME i + (n + 1) <= N PROVE Divides(k + i, p[i + (n + 1)])
      OBVIOUS
    <3>1. PICK m \in Nat \ {0} : p[i + n] = (k + i) * m
      BY <2>2 DEF Divides
    <3> DEFINE c == k + (i + (n + 1))
    <3>2. p[i + (n + 1)] = c * p[i + n] /\ c \in Nat \ {0} /\ c * m \in Nat \ {0}
      <4>1. i + n \in Nat /\ (i + n) + 1 <= N /\ (i + n) + 1 = i + (n + 1)
        OBVIOUS
      <4>2. c \in Nat \ {0}
        OBVIOUS
      <4>3. c * m \in Nat \ {0}
        <5> HIDE DEF c
        <5> QED BY <1>0, <4>2
      <4> QED BY <1>1, <4>1, <4>2, <4>3
    <3> HIDE DEF c
    <3>3. c * ((k + i) * m) = (k + i) * (c * m)
      BY <3>2
    <3> QED BY <3>1, <3>2, <3>3 DEF Divides
  <2>3. Nat \subseteq W
    <3> HIDE DEF W
    <3> QED BY <2>1, <2>2, Induction
  <2>4. N - i \in Nat /\ i + (N - i) = N
    OBVIOUS
  <2> QED BY <2>3, <2>4
<1> QED BY <1>4, <1>5

LEMMA UnitIsDivided ==
    ASSUME task.rrfK \in Nat
    PROVE  /\ Unit \in Nat \ {0}
           /\ \A i \in 1 .. MaxLen : Divides(task.rrfK + i, Unit)
<1> DEFINE k == task.rrfK
           p == CHOOSE h : ProductBy(h, k, MaxLen)
<1>1. MaxLen \in Nat
  BY BoundedInputs
<1>2. Unit = p[MaxLen]
  BY DEF Unit, ProductBy
<1> HIDE DEF k
<1>3. ProductBy(p, k, MaxLen)
  <2>1. k \in Nat
    BY DEF k
  <2>2. \E h : ProductBy(h, k, MaxLen)
    BY <1>1, <2>1, ProductExists
  <2> QED BY <2>2, Zenon
<1> HIDE DEF p
<1>4. k \in Nat
  BY DEF k
<1>5. p[MaxLen] \in Nat \ {0} /\ \A i \in 1 .. MaxLen : Divides(k + i, p[MaxLen])
  BY ONLY <1>1, <1>3, <1>4, FactorsDivide
<1> QED BY <1>2, <1>5 DEF k

\* The place of a document in a list, and its share of the score.
LEMMA RankedLists ==
    ASSUME NEW list \in Ranked
    PROVE  /\ list \in Seq(Docs) /\ IsInjective(list) /\ DOMAIN list \subseteq 1 .. MaxLen
           /\ ToSet(list) \subseteq Docs
<1>1. PICK n \in 0 .. MaxLen : list \in [1 .. n -> Docs] /\ IsInjective(list)
  BY DEF Ranked
<1>2. n \in Nat /\ n <= MaxLen
  BY BoundedInputs
<1>3. list \in Seq(Docs) /\ DOMAIN list = 1 .. n
  BY <1>1, <1>2, SeqDef
<1>4. 1 .. n \subseteq 1 .. MaxLen
  BY <1>2, BoundedInputs
<1>5. ToSet(list) \subseteq Docs
  BY <1>1 DEF ToSet
<1> QED BY <1>1, <1>3, <1>4, <1>5

LEMMA SharesAreExact ==
    ASSUME NEW list \in Ranked, task.rrfK \in Nat, NEW d
    PROVE  /\ Share(list, d) \in Nat
           /\ d \in ToSet(list) => /\ RankIn(list, d) \in 1 .. MaxLen
                                   /\ Unit = (task.rrfK + RankIn(list, d)) * Share(list, d)
           /\ d \notin ToSet(list) => Share(list, d) = 0
<1> DEFINE r == RankIn(list, d)
<1>1. CASE d \notin ToSet(list)
  <2>1. Places(list, d) = {}
    BY <1>1 DEF Places, ToSet
  <2> QED BY <1>1, <2>1 DEF Share
<1>2. CASE d \in ToSet(list)
  <2>1. \E i \in DOMAIN list : list[i] = d
    BY <1>2 DEF ToSet
  <2>2. r \in DOMAIN list /\ list[r] = d
    BY <2>1, Zenon DEF RankIn
  <2> HIDE DEF r
  <2>3. Places(list, d) = {r}
    BY <2>2, RankedLists DEF Places, IsInjective
  <2>4. r \in 1 .. MaxLen
    BY <2>2, RankedLists
  <2>5. Share(list, d) = Unit \div (task.rrfK + r)
    BY <2>3 DEF Share
  <2>6. PICK m \in Nat \ {0} : Unit = (task.rrfK + r) * m
    BY <2>4, UnitIsDivided DEF Divides
  <2>7. Share(list, d) = m
    <3> DEFINE a == task.rrfK + r
    <3>1. a \in Nat \ {0}
      BY <2>4, BoundedInputs
    <3>2. Share(list, d) = (a * m) \div a
      BY <2>5, <2>6
    <3> HIDE DEF a
    <3>3. (a * m) \div a = m
      BY <3>1
    <3> QED BY <3>2, <3>3
  <2> QED BY <1>2, <2>4, <2>6, <2>7 DEF r
<1> QED BY <1>1, <1>2

LEMMA TermsAreWorth ==
    ASSUME NEW list \in Ranked, task.rrfK \in Nat, NEW d,
           NEW x \in Nat \X (Nat \ {0}), NEW S \in Nat, Worth(x, S, Unit)
    PROVE  /\ Term(x, list, task.rrfK, d) \in Nat \X (Nat \ {0})
           /\ Worth(Term(x, list, task.rrfK, d), S + Share(list, d), Unit)
<1>1. CASE d \notin ToSet(list)
  <2>1. Term(x, list, task.rrfK, d) = x /\ S + Share(list, d) = S
    BY <1>1, SharesAreExact DEF Term
  <2> QED BY <2>1
<1>2. CASE d \in ToSet(list)
  <2> DEFINE a == task.rrfK + RankIn(list, d)
             m == Share(list, d)
             U == Unit
  <2>1. a \in Nat \ {0} /\ m \in Nat /\ U = a * m
    <3>1. RankIn(list, d) \in 1 .. MaxLen /\ m \in Nat /\ U = a * m
      BY <1>2, SharesAreExact
    <3> HIDE DEF m, U
    <3> QED BY <3>1, BoundedInputs
  <2>2. U \in Nat
    BY UnitIsDivided
  <2>3. Term(x, list, task.rrfK, d) = Plus(x, <<1, a>>)
    BY <1>2 DEF Term
  <2>4. Worth(x, S, U)
    OBVIOUS
  <2> HIDE DEF a, m, U
  <2>5. Plus(x, <<1, a>>) \in Nat \X (Nat \ {0}) /\ Worth(Plus(x, <<1, a>>), S + m, U)
    BY ONLY <2>1, <2>2, <2>4, x \in Nat \X (Nat \ {0}), OneTerm
  <2> QED BY <2>3, <2>5 DEF m, U
<1> QED BY <1>1, <1>2

\* What the invariant says of a fusion.
Fusing == task.dense \in Ranked /\ task.bm25 \in Ranked /\ task.rrfK \in Nat
FusedScore(d) == Fused(<<task.dense, task.bm25>>, task.rrfK, d)

LEMMA ScoresAreWorth ==
    ASSUME Fusing, NEW d
    PROVE  Score(d) \in Nat /\ Worth(FusedScore(d), Score(d), Unit)
<1> DEFINE zero == <<0, 1>>
           first == Term(zero, task.dense, task.rrfK, d)
           second == Term(first, task.bm25, task.rrfK, d)
           s1 == Share(task.dense, d)
           s2 == Share(task.bm25, d)
<1>0. Unit \in Nat /\ s1 \in Nat /\ s2 \in Nat
  BY UnitIsDivided, SharesAreExact DEF Fusing
<1>1. zero \in Nat \X (Nat \ {0}) /\ Worth(zero, 0, Unit)
  BY <1>0 DEF Worth
<1>2. first \in Nat \X (Nat \ {0}) /\ Worth(first, 0 + s1, Unit)
  <2> HIDE DEF zero
  <2> QED BY <1>1, TermsAreWorth DEF Fusing
<1>3. 0 + s1 = s1 /\ s1 \in Nat
  <2> HIDE DEF s1
  <2> QED BY <1>0
<1>4. Worth(second, s1 + s2, Unit)
  <2>1. Worth(first, s1, Unit)
    <3> HIDE DEF first, s1
    <3> QED BY <1>2, <1>3
  <2> HIDE DEF first, s1
  <2> QED BY <1>2, <1>3, <2>1, TermsAreWorth DEF Fusing
<1>5. FusedScore(d) = second
  BY FusedOfTwo DEF FusedScore
<1>6. Score(d) = s1 + s2 /\ s1 + s2 \in Nat
  <2>1. Score(d) = s1 + s2
    BY DEF Score
  <2> HIDE DEF s1, s2
  <2> QED BY <1>0, <2>1
<1> HIDE DEF second, s1, s2
<1> QED BY <1>4, <1>5, <1>6

\* Two sequences, flattened.
LEMMA FlattenTwo ==
    ASSUME NEW A, NEW one \in Seq(A), NEW two \in Seq(A)
    PROVE  FlattenSeq(<<one, two>>) = one \o two
<1> DEFINE seqs == <<one, two>>
<1>1. seqs \in Seq(Seq(A)) /\ seqs # <<>> /\ Len(seqs) = 2 /\ seqs[1] = one /\ seqs[2] = two
  OBVIOUS
<1> HIDE DEF seqs
<1>2. PICK f : /\ f[1] = seqs[1]
               /\ \A i \in 1 .. Len(seqs) - 1 : f[i + 1] = f[i] \o seqs[i + 1]
               /\ FlattenSeq(seqs) = f[Len(seqs)]
  BY <1>1, FlattenInSteps
<1>3. f[1 + 1] = f[1] \o seqs[1 + 1]
  <2>1. 1 \in 1 .. Len(seqs) - 1
    BY <1>1
  <2> QED BY <1>2, <2>1, Zenon
<1>4. 1 + 1 = 2
  OBVIOUS
<1> QED BY <1>1, <1>2, <1>3, <1>4 DEF seqs

\* Who is before whom in the fusion.
BetterPairs == {p \in Listed \X Listed : Better(p[1], p[2])}

LEMMA TheLists ==
    ASSUME Fusing
    PROVE  LET both == task.dense \o task.bm25
           IN  /\ both \in Seq(Docs) /\ ToSet(both) = Listed
               /\ FlattenSeq(<<task.dense, task.bm25>>) = both
               /\ IsFiniteSet(Listed)
               /\ \A d : FirstSeen(d) = Met(both, d)
<1> DEFINE one == task.dense
           two == task.bm25
           both == one \o two
           seqs == <<one, two>>
<1>1. one \in Seq(Docs) /\ two \in Seq(Docs)
  BY RankedLists DEF Fusing
<1>2. both \in Seq(Docs) /\ Range(both) = Range(one) \cup Range(two)
  <2> HIDE DEF one, two
  <2> QED BY <1>1, ConcatRows
<1>3. \A s : ToSet(s) = Range(s)
  BY DEF ToSet, Range
<1>4. ToSet(both) = Listed
  BY <1>2, <1>3 DEF Listed
<1>5. FlattenSeq(seqs) = both
  <2> HIDE DEF one, two
  <2> QED BY <1>1, FlattenTwo
<1>6. IsFiniteSet(Listed)
  <2>1. both \in [1 .. Len(both) -> ToSet(both)] /\ Len(both) \in Nat
    <3> HIDE DEF both
    <3>1. \A i \in DOMAIN both : both[i] \in ToSet(both)
      BY DEF ToSet
    <3> QED BY <1>2, <3>1
  <2> HIDE DEF both
  <2>2. IsFiniteSet(1 .. Len(both))
    BY <2>1, FS_Interval
  <2>3. both \in Surjection(1 .. Len(both), ToSet(both))
    BY <1>2, <2>1 DEF Surjection, ToSet
  <2>4. IsFiniteSet(ToSet(both))
    BY <2>2, <2>3, FS_Surjection
  <2> QED BY <1>4, <2>4
<1>7. \A d : FirstSeen(d) = Met(both, d)
  BY DEF FirstSeen, Met
<1> HIDE DEF both, seqs
<1> QED BY <1>2, <1>4, <1>5, <1>6, <1>7 DEF both, seqs

LEMMA BetterIsAnOrder ==
    ASSUME Fusing
    PROVE  OrdersAll(BetterPairs, Listed)
<1> DEFINE both == task.dense \o task.bm25
<1>1. \A d \in Listed : Score(d) \in Nat
  BY ScoresAreWorth
<1>2. \A d \in Listed : FirstSeen(d) \in Nat /\ both[FirstSeen(d)] = d
  <2>1. both \in Seq(Docs) /\ ToSet(both) = Listed /\ \A d : FirstSeen(d) = Met(both, d)
    BY TheLists
  <2> HIDE DEF both
  <2>2. \A d \in Listed : Met(both, d) \in 1 .. Len(both) /\ both[Met(both, d)] = d
    BY <2>1, MetFirst
  <2> QED BY <2>1, <2>2
<1> HIDE DEF both
<1>3. \A d, e \in Listed : <<d, e>> \in BetterPairs <=> Better(d, e)
  BY DEF BetterPairs
<1>4. ASSUME NEW d \in Listed PROVE ~Better(d, d)
  BY <1>1, <1>2 DEF Better
<1>5. ASSUME NEW c \in Listed, NEW d \in Listed, NEW e \in Listed, Better(c, d), Better(d, e)
      PROVE  Better(c, e)
  BY <1>1, <1>2, <1>5 DEF Better
<1>6. ASSUME NEW d \in Listed, NEW e \in Listed PROVE d = e \/ Better(d, e) \/ Better(e, d)
  BY <1>1, <1>2 DEF Better
<1> QED BY <1>3, <1>4, <1>5, <1>6 DEF OrdersAll

\* The stable sort of the dict is that order, and the pool its first documents.
LEMMA ThePool ==
    ASSUME Fusing, NEW pool
    PROVE  candidate_ids(reciprocal_rank_fusion(<<task.dense, task.bm25>>, task.rrfK), pool)
             = {d \in Listed : Cardinality(Ahead(BetterPairs, Listed, d)) < pool}
<1> DEFINE lists == <<task.dense, task.bm25>>
           both == task.dense \o task.bm25
           fused == reciprocal_rank_fusion(lists, task.rrfK)
           Before(d, e) ==
              \/ MoreThan(fused.score[d], fused.score[e])
              \/ /\ ~MoreThan(fused.score[e], fused.score[d])
                 /\ RankIn(fused.order, d) < RankIn(fused.order, e)
<1>1. UNION {ToSet(lists[i]) : i \in DOMAIN lists} = Listed
  <2>1. DOMAIN lists = {1, 2} /\ lists[1] = task.dense /\ lists[2] = task.bm25
    OBVIOUS
  <2> HIDE DEF lists
  <2> QED BY <2>1 DEF Listed
<1>2. fused.score = [d \in Listed |-> FusedScore(d)] /\ fused.order = Keys(FlattenSeq(lists))
  <2>1. fused.score = [d \in UNION {ToSet(lists[i]) : i \in DOMAIN lists} |-> FusedScore(d)]
    BY DEF reciprocal_rank_fusion, FusedScore, Fused
  <2>2. fused.order = Keys(FlattenSeq(lists))
    BY DEF reciprocal_rank_fusion, Keys
  <2> QED BY <1>1, <2>1, <2>2
<1> HIDE DEF fused, lists
<1>3. DOMAIN fused.score = Listed /\ \A d \in Listed : fused.score[d] = FusedScore(d)
  BY <1>2
<1>4. both \in Seq(Docs) /\ ToSet(both) = Listed /\ fused.order = Keys(both)
      /\ \A d : FirstSeen(d) = Met(both, d)
  BY <1>2, TheLists DEF lists
<1> HIDE DEF both
<1>5. ASSUME NEW d \in Listed, NEW e \in Listed PROVE Before(d, e) <=> Better(d, e)
  <2>1. \A x, y \in Listed : MoreThan(fused.score[x], fused.score[y]) <=> Score(x) > Score(y)
    <3> SUFFICES ASSUME NEW x \in Listed, NEW y \in Listed
                 PROVE  MoreThan(fused.score[x], fused.score[y]) <=> Score(x) > Score(y)
      OBVIOUS
    <3>1. Unit \in Nat \ {0}
      BY UnitIsDivided DEF Fusing
    <3>2. Worth(FusedScore(x), Score(x), Unit) /\ Worth(FusedScore(y), Score(y), Unit)
      BY ScoresAreWorth
    <3>3. MoreThan(FusedScore(x), FusedScore(y)) <=> Score(x) > Score(y)
      BY ONLY <3>1, <3>2, ScoresCompare
    <3> QED BY <1>3, <3>3
  <2>2. RankIn(fused.order, d) < RankIn(fused.order, e) <=> FirstSeen(d) < FirstSeen(e)
    BY <1>4, RankIsWhenMet
  <2>3. Score(d) \in Nat /\ Score(e) \in Nat
    BY ScoresAreWorth
  <2> QED BY <2>1, <2>2, <2>3 DEF Better
<1>6. candidate_ids(fused, pool) =
        {d \in Listed : Cardinality({e \in Listed : Before(e, d)}) < pool}
  BY <1>3 DEF candidate_ids
<1>7. ASSUME NEW d \in Listed PROVE {e \in Listed : Before(e, d)} = Ahead(BetterPairs, Listed, d)
  <2> HIDE DEF Before
  <2> QED BY <1>5 DEF Ahead, BetterPairs
<1> HIDE DEF Before
<1>8. candidate_ids(fused, pool)
        = {d \in Listed : Cardinality(Ahead(BetterPairs, Listed, d)) < pool}
  BY <1>6, <1>7
<1> QED BY <1>8 DEF fused, lists

LEMMA FusionsOfTheInvariant ==
    ASSUME Inv, Answered("fuse")
    PROVE  /\ Fusing /\ task.pool \in Nat
           /\ answer[1] = {d \in Listed : Cardinality(Ahead(BetterPairs, Listed, d)) < task.pool}
<1>1. /\ task.dense \in Ranked /\ task.bm25 \in Ranked
      /\ task.rrfK \in SmoothingConstants /\ task.pool \in 1 .. MaxLen
  BY DEF Inv, TaskOK, Answered
<1>2. Fusing /\ task.pool \in Nat
  <2>1. MaxLen \in Nat /\ SmoothingConstants \subseteq Nat
    BY BoundedInputs
  <2>2. task.pool \in Nat
    <3>1. \A n \in 1 .. MaxLen : n \in Nat
      BY <2>1
    <3> QED BY <1>1, <3>1, Zenon
  <2>3. task.rrfK \in Nat
    BY <1>1, <2>1, Zenon
  <2> QED BY <1>1, <2>2, <2>3 DEF Fusing
<1>3. answer[1] = candidate_ids(reciprocal_rank_fusion(<<task.dense, task.bm25>>, task.rrfK),
                                task.pool)
  BY DEF Inv, AnswerOK, Answered
<1> QED BY <1>2, <1>3, ThePool

\* The rerank pool is full, or holds everything either list found, and no document left
\* out of it scores better than one inside, for lists of any length and any smoothing
\* constant: the fractions, the dict's insertion order and the stable sort together are
\* the order by exact score and then by first sight (hybrid_search).
THEOREM PoolIsAlwaysTheBest == Spec => []PoolIsTheBest
<1>1. Inv => PoolIsTheBest
  <2> SUFFICES ASSUME Inv, Answered("fuse")
               PROVE  /\ answer[1] \subseteq Listed
                      /\ Cardinality(answer[1]) = Least(task.pool, Cardinality(Listed))
                      /\ \A c \in answer[1], d \in Listed \ answer[1] : Better(c, d)
    BY DEF PoolIsTheBest
  <2> DEFINE P == answer[1]
             R == BetterPairs
  <2>1. /\ Fusing /\ task.pool \in Nat
        /\ P = {d \in Listed : Cardinality(Ahead(R, Listed, d)) < task.pool}
    BY FusionsOfTheInvariant
  <2>2. OrdersAll(R, Listed) /\ IsFiniteSet(Listed)
    BY <2>1, BetterIsAnOrder, TheLists
  <2> HIDE DEF P, R
  <2>3. Cardinality(P) = Least(task.pool, Cardinality(Listed))
    BY <2>1, <2>2, TheFirst
  <2>4. ASSUME NEW c \in P, NEW d \in Listed \ P PROVE Better(c, d)
    <3>0. Cardinality(Listed) \in Nat
      BY <2>2, FS_CardinalityType
    <3>1. /\ c \in Listed /\ Cardinality(Ahead(R, Listed, c)) < task.pool
          /\ ~(Cardinality(Ahead(R, Listed, d)) < task.pool)
      BY <2>1
    <3>2. /\ Cardinality(Ahead(R, Listed, c)) \in 0 .. Cardinality(Listed) - 1
          /\ Cardinality(Ahead(R, Listed, d)) \in 0 .. Cardinality(Listed) - 1
      BY <2>2, <3>1, AheadCounts
    <3>3. Cardinality(Ahead(R, Listed, c)) < Cardinality(Ahead(R, Listed, d))
      BY <2>1, <3>0, <3>1, <3>2
    <3>4. <<c, d>> \in R
      BY <2>2, <3>1, <3>3, AheadCounts
    <3> QED BY <3>4 DEF R, BetterPairs
  <2>5. P \subseteq Listed
    BY <2>1
  <2> QED BY <2>3, <2>4, <2>5 DEF P
<1> QED BY <1>1, AnswersAreTheCodes, PTL

\* Two shares at ranks up to k + 1 are more than any one share.
LEMMA TwoBeatOne ==
    ASSUME NEW k \in Nat, NEW U \in Nat \ {0}, NEW p \in Nat, NEW q \in Nat, NEW m \in Nat,
           NEW i \in 1 .. k + 1, NEW j \in 1 .. k + 1, NEW h \in Nat \ {0},
           U = (k + i) * p, U = (k + j) * q, U = (k + h) * m
    PROVE  p + q > m
<1>0. \A x, y, z \in Nat : x <= y => x * z <= y * z
  <2> SUFFICES ASSUME NEW x \in Nat, NEW y \in Nat, NEW z \in Nat, x <= y PROVE x * z <= y * z
    OBVIOUS
  <2>1. PICK w \in Nat : y = x + w
    <3>1. y - x \in Nat /\ y = x + (y - x)
      OBVIOUS
    <3> QED BY <3>1
  <2>2. y * z = x * z + w * z /\ w * z \in Nat /\ x * z \in Nat
    BY <2>1
  <2> QED BY <2>2
<1>1. (k + i) * p <= (2 * k + 1) * p
  BY <1>0
<1>2. (k + j) * q <= (2 * k + 1) * q
  BY <1>0
<1>3. (k + 1) * m <= (k + h) * m
  BY <1>0
<1>4. m # 0
  <2>1. (k + h) * 0 = 0
    OBVIOUS
  <2> QED BY <2>1
<1>5. SUFFICES ASSUME p + q <= m PROVE FALSE
  OBVIOUS
<1>6. (p + q) * (2 * k + 1) <= m * (2 * k + 1)
  <2>1. \A z \in Nat : (p + q) * z <= m * z
    BY <1>0, <1>5
  <2> QED BY <2>1
<1>7. (p + q) * (2 * k + 1) = (2 * k + 1) * p + (2 * k + 1) * q
  OBVIOUS
<1>8. 2 * ((k + 1) * m) = m * (2 * k + 1) + m
  OBVIOUS
<1> DEFINE a == (2 * k + 1) * p
           b == (2 * k + 1) * q
           c == m * (2 * k + 1)
           e == (k + 1) * m
           g == (p + q) * (2 * k + 1)
<1>9. a \in Nat /\ b \in Nat /\ c \in Nat /\ e \in Nat /\ g \in Nat
  OBVIOUS
<1>10. U <= a /\ U <= b /\ e <= U /\ g <= c /\ g = a + b /\ 2 * e = c + m
  BY <1>1, <1>2, <1>3, <1>6, <1>7, <1>8
<1> HIDE DEF a, b, c, e, g
<1> QED BY <1>4, <1>9, <1>10

\* A document both retrievers found, at ranks up to k + 1, outranks every document that
\* only one of them found, whatever the lists (hybrid_search.py, RRF_K).
THEOREM AgreementAlwaysWins == Spec => []AgreementWins
<1>1. Inv => AgreementWins
  <2> SUFFICES ASSUME Inv, Answered("fuse"), NEW both \in InBoth, NEW one \in answer[1] \ InBoth,
                      Places(task.dense, both) \cup Places(task.bm25, both)
                          \subseteq 1 .. task.rrfK + 1
               PROVE  both \in answer[1]
    BY DEF AgreementWins
  <2> DEFINE P == answer[1]
             R == BetterPairs
             k == task.rrfK
  <2>1. /\ Fusing /\ task.pool \in Nat
        /\ P = {d \in Listed : Cardinality(Ahead(R, Listed, d)) < task.pool}
    BY FusionsOfTheInvariant
  <2>2. OrdersAll(R, Listed) /\ IsFiniteSet(Listed)
    BY <2>1, BetterIsAnOrder, TheLists
  <2>3. one \in Listed /\ both \in Listed /\ k \in Nat
    BY <2>1 DEF Listed, InBoth, Fusing
  <2>4. /\ RankIn(task.dense, both) \in 1 .. k + 1
        /\ RankIn(task.bm25, both) \in 1 .. k + 1
    <3>1. \A list : both \in ToSet(list) => RankIn(list, both) \in Places(list, both)
      <4> SUFFICES ASSUME NEW list, both \in ToSet(list)
                   PROVE  RankIn(list, both) \in Places(list, both)
        OBVIOUS
      <4>1. \E r \in DOMAIN list : list[r] = both
        BY DEF ToSet
      <4>2. RankIn(list, both) \in DOMAIN list /\ list[RankIn(list, both)] = both
        BY <4>1, Zenon DEF RankIn
      <4> QED BY <4>2 DEF Places
    <3> QED BY <3>1 DEF InBoth
  <2>5. /\ Share(task.dense, both) \in Nat /\ Share(task.bm25, both) \in Nat
        /\ Unit = (k + RankIn(task.dense, both)) * Share(task.dense, both)
        /\ Unit = (k + RankIn(task.bm25, both)) * Share(task.bm25, both)
    BY <2>1, SharesAreExact DEF Fusing, InBoth
  <2>6. PICK h \in Nat \ {0} : Score(one) \in Nat /\ Unit = (k + h) * Score(one)
    <3>1. ASSUME NEW l1 \in Ranked, NEW l2 \in Ranked, one \in ToSet(l1), one \notin ToSet(l2)
          PROVE  /\ RankIn(l1, one) \in Nat \ {0}
                 /\ Share(l1, one) \in Nat /\ Share(l2, one) = 0
                 /\ Unit = (k + RankIn(l1, one)) * Share(l1, one)
      BY <2>3, <3>1, SharesAreExact, BoundedInputs
    <3>2. CASE one \in ToSet(task.dense) /\ one \notin ToSet(task.bm25)
      <4>1. /\ RankIn(task.dense, one) \in Nat \ {0}
            /\ Share(task.dense, one) \in Nat /\ Share(task.bm25, one) = 0
            /\ Unit = (k + RankIn(task.dense, one)) * Share(task.dense, one)
        BY <2>1, <3>1, <3>2 DEF Fusing
      <4>2. Score(one) = Share(task.dense, one)
        BY <4>1 DEF Score
      <4> QED BY <4>1, <4>2
    <3>3. CASE one \in ToSet(task.bm25) /\ one \notin ToSet(task.dense)
      <4>1. /\ RankIn(task.bm25, one) \in Nat \ {0}
            /\ Share(task.bm25, one) \in Nat /\ Share(task.dense, one) = 0
            /\ Unit = (k + RankIn(task.bm25, one)) * Share(task.bm25, one)
        BY <2>1, <3>1, <3>3 DEF Fusing
      <4>2. Score(one) = Share(task.bm25, one)
        BY <4>1 DEF Score
      <4> QED BY <4>1, <4>2
    <3> QED BY <2>3, <3>2, <3>3 DEF Listed, InBoth
  <2>7. Unit \in Nat \ {0}
    BY <2>1, UnitIsDivided DEF Fusing
  <2>8. Score(both) > Score(one)
    <3> DEFINE p == Share(task.dense, both)
               q == Share(task.bm25, both)
    <3>1. Score(both) = p + q
      BY DEF Score
    <3> HIDE DEF p, q, k
    <3>2. p \in Nat /\ q \in Nat
      BY <2>5 DEF p, q
    <3>3. /\ Unit = (k + RankIn(task.dense, both)) * p
          /\ Unit = (k + RankIn(task.bm25, both)) * q
      BY <2>5 DEF p, q
    <3>4. p + q > Score(one)
      BY ONLY <2>3, <2>4, <2>6, <2>7, <3>2, <3>3, TwoBeatOne
    <3> QED BY <3>1, <3>4
  <2> HIDE DEF k
  <2>9. <<both, one>> \in R
    BY <2>3, <2>8 DEF R, BetterPairs, Better
  <2> HIDE DEF P, R
  <2>10. Cardinality(Ahead(R, Listed, both)) < Cardinality(Ahead(R, Listed, one))
    BY <2>2, <2>3, <2>9, AheadCounts
  <2>11. Cardinality(Ahead(R, Listed, both)) < task.pool
    <3>0. Cardinality(Listed) \in Nat
      BY <2>2, FS_CardinalityType
    <3>1. /\ Cardinality(Ahead(R, Listed, both)) \in 0 .. Cardinality(Listed) - 1
          /\ Cardinality(Ahead(R, Listed, one)) \in 0 .. Cardinality(Listed) - 1
      BY <2>2, <2>3, AheadCounts
    <3>2. Cardinality(Ahead(R, Listed, one)) < task.pool
      BY <2>1 DEF P
    <3> QED BY <2>1, <2>10, <3>0, <3>1, <3>2
  <2> QED BY <2>1, <2>3, <2>11 DEF P
<1> QED BY <1>1, AnswersAreTheCodes, PTL

-----------------------------------------------------------------------------
(* The merged search of two languages.                                     *)

\* The k first of all are the k first of F, if everything outside F has k of F ahead.
LEMMA BestOfEach ==
    ASSUME NEW S, IsFiniteSet(S), NEW R, OrdersAll(R, S), NEW F \in SUBSET S, NEW k \in Nat,
           \A y \in S \ F : \E G \in SUBSET F : Cardinality(G) = k /\ \A g \in G : <<g, y>> \in R
    PROVE  /\ IsFiniteSet(F) /\ OrdersAll(R, F)
           /\ Least(k, Cardinality(F)) = Least(k, Cardinality(S))
           /\ \A x \in F : Cardinality(Ahead(R, F, x)) < k => Ahead(R, S, x) = Ahead(R, F, x)
<1>1. IsFiniteSet(F) /\ Cardinality(F) <= Cardinality(S)
      /\ (Cardinality(F) = Cardinality(S) => F = S)
  BY FS_Subset
<1>2. OrdersAll(R, F)
  BY DEF OrdersAll
<1>3. Cardinality(F) \in Nat /\ Cardinality(S) \in Nat
  BY <1>1, FS_CardinalityType
<1>4. Least(k, Cardinality(F)) = Least(k, Cardinality(S))
  <2>1. CASE F = S
    BY <2>1
  <2>2. CASE F # S
    <3>1. PICK y \in S \ F : TRUE
      BY <2>2
    <3>2. PICK G \in SUBSET F : Cardinality(G) = k
      BY <3>1
    <3>3. k <= Cardinality(F)
      BY <1>1, <3>2, FS_Subset
    <3> QED BY <1>1, <1>3, <3>3 DEF Least
  <2> QED BY <2>1, <2>2
<1>5. ASSUME NEW x \in F, Cardinality(Ahead(R, F, x)) < k, NEW y \in S, <<y, x>> \in R, y \notin F
      PROVE  FALSE
  <2>1. PICK G \in SUBSET F : Cardinality(G) = k /\ \A g \in G : <<g, y>> \in R
    BY <1>5
  <2>2. G \in SUBSET Ahead(R, F, x)
    <3>1. \A g \in G : g \in S /\ <<g, y>> \in R /\ x \in S
      BY <2>1
    <3>2. \A g \in G : <<g, x>> \in R
      BY <1>5, <3>1 DEF OrdersAll
    <3> QED BY <3>2 DEF Ahead
  <2>3. IsFiniteSet(Ahead(R, F, x)) /\ Cardinality(Ahead(R, F, x)) \in 0 .. Cardinality(F) - 1
    BY <1>1, <1>2, AheadCounts
  <2>4. Cardinality(G) <= Cardinality(Ahead(R, F, x))
    BY <2>2, <2>3, FS_Subset
  <2> QED BY <1>3, <1>5, <2>1, <2>3, <2>4
<1>6. ASSUME NEW x \in F, Cardinality(Ahead(R, F, x)) < k
      PROVE  Ahead(R, S, x) = Ahead(R, F, x)
  BY <1>5, <1>6 DEF Ahead
<1> QED BY <1>1, <1>2, <1>4, <1>6

\* A bijection that keeps the order keeps the places.
KeepsTheOrder(D, Q, S, R, T) ==
    /\ D \in [S -> T]
    /\ \A p, q \in S : D[p] = D[q] => p = q
    /\ \A t \in T : \E p \in S : D[p] = t
    /\ \A p, q \in S : <<p, q>> \in Q <=> <<D[p], D[q]>> \in R
KeepsThePlaces(D, Q, S, R, T) ==
    \A p \in S : Cardinality(Ahead(Q, S, p)) = Cardinality(Ahead(R, T, D[p]))

LEMMA SamePlaces ==
    ASSUME NEW S, NEW T, IsFiniteSet(S), NEW Q, NEW R, NEW D, KeepsTheOrder(D, Q, S, R, T),
           OrdersAll(R, T)
    PROVE  OrdersAll(Q, S) /\ Cardinality(S) = Cardinality(T) /\ KeepsThePlaces(D, Q, S, R, T)
<1>0. /\ D \in [S -> T]
      /\ \A p, q \in S : D[p] = D[q] => p = q
      /\ \A t \in T : \E p \in S : D[p] = t
      /\ \A p, q \in S : <<p, q>> \in Q <=> <<D[p], D[q]>> \in R
  BY DEF KeepsTheOrder
<1>1. OrdersAll(Q, S)
  <2>1. \A p \in S : <<p, p>> \notin Q
    BY <1>0 DEF OrdersAll
  <2>2. ASSUME NEW p \in S, NEW q \in S, NEW r \in S, <<p, q>> \in Q, <<q, r>> \in Q
        PROVE  <<p, r>> \in Q
    <3>1. <<D[p], D[q]>> \in R /\ <<D[q], D[r]>> \in R
      BY <1>0, <2>2
    <3>2. <<D[p], D[r]>> \in R
      BY <1>0, <3>1 DEF OrdersAll
    <3> QED BY <1>0, <3>2
  <2>3. ASSUME NEW p \in S, NEW q \in S PROVE p = q \/ <<p, q>> \in Q \/ <<q, p>> \in Q
    <3>1. D[p] = D[q] \/ <<D[p], D[q]>> \in R \/ <<D[q], D[p]>> \in R
      BY <1>0 DEF OrdersAll
    <3> QED BY <1>0, <3>1
  <2> QED BY <2>1, <2>2, <2>3 DEF OrdersAll
<1>2. D \in Bijection(S, T)
  <2>1. D \in Injection(S, T)
    BY <1>0, Fun_IsInj
  <2>2. D \in Surjection(S, T)
    BY <1>0, Fun_IsSurj
  <2> QED BY <2>1, <2>2 DEF Bijection
<1>3. Cardinality(S) = Cardinality(T)
  <2>1. ExistsBijection(S, T)
    BY <1>2 DEF ExistsBijection
  <2> QED BY <2>1, FS_Bijection
<1>4. ASSUME NEW p \in S PROVE Cardinality(Ahead(Q, S, p)) = Cardinality(Ahead(R, T, D[p]))
  <2> DEFINE A == Ahead(Q, S, p)
             B == Ahead(R, T, D[p])
             E == [q \in A |-> D[q]]
  <2>1. A \in SUBSET S /\ \A q \in S : q \in A <=> D[q] \in B
    BY <1>0 DEF Ahead
  <2>2. \A t \in B : t \in T
    BY DEF Ahead
  <2> HIDE DEF A, B
  <2>3. E \in [A -> B] /\ \A q \in A : E[q] = D[q]
    BY <2>1
  <2>4. ASSUME NEW t \in B PROVE \E q \in A : E[q] = t
    <3>1. PICK q \in S : D[q] = t
      BY <1>0, <2>2
    <3> QED BY <2>1, <2>3, <3>1
  <2> HIDE DEF E
  <2>5. \A q, r \in A : E[q] = E[r] => q = r
    BY <1>0, <2>1, <2>3
  <2>6. E \in Injection(A, B) /\ E \in Surjection(A, B)
    BY <2>3, <2>4, <2>5, Fun_IsInj, Fun_IsSurj
  <2>7. ExistsBijection(A, B)
    BY <2>6 DEF ExistsBijection, Bijection
  <2>8. IsFiniteSet(A)
    BY <2>1, FS_Subset
  <2> QED BY <2>7, <2>8, FS_Bijection DEF A, B
<1> QED BY <1>1, <1>3, <1>4 DEF KeepsThePlaces

\* sort() puts each element at its place in the stable order.
SortsBefore(s, p, q) == s[p].score > s[q].score \/ (s[p].score = s[q].score /\ p < q)
ScoreOrder(s) == {pair \in (DOMAIN s) \X (DOMAIN s) : SortsBefore(s, pair[1], pair[2])}
LEMMA InScoreOrder ==
    ASSUME NEW s, NEW p \in DOMAIN s, NEW q \in DOMAIN s
    PROVE  <<p, q>> \in ScoreOrder(s) <=> SortsBefore(s, p, q)
  BY DEF ScoreOrder

AtItsPlace(sorted, s) ==
    \A i \in DOMAIN s : \E p \in DOMAIN s :
        sorted[i] = s[p] /\ Cardinality(Ahead(ScoreOrder(s), DOMAIN s, p)) = i - 1

LEMMA SortingIsStable ==
    ASSUME NEW N \in Nat, NEW s, DOMAIN s = 1 .. N, OrdersAll(ScoreOrder(s), 1 .. N)
    PROVE  /\ AtItsPlace(SortedByScore(s), s)
           /\ DOMAIN SortedByScore(s) = 1 .. N /\ Len(SortedByScore(s)) = N
<1> DEFINE R == ScoreOrder(s)
           S == DOMAIN s
           place(p) == Cardinality(Ahead(R, S, p))
           pick(i) == CHOOSE p \in S : 1 + place(p) = i
           rank(p) == 1 + Cardinality({q \in DOMAIN s : SortsBefore(s, q, p)})
<1>0. S = 1 .. N
  OBVIOUS
<1>1. \A p \in S : {q \in DOMAIN s : SortsBefore(s, q, p)} = Ahead(R, S, p)
  <2>1. ASSUME NEW p \in S, NEW q \in S PROVE <<q, p>> \in R <=> SortsBefore(s, q, p)
    BY InScoreOrder
  <2> HIDE DEF R
  <2> QED BY <2>1 DEF Ahead
<1>2. \A p \in S : rank(p) = 1 + place(p)
  <2> HIDE DEF R, S
  <2> QED BY <1>1
<1>3. SortedByScore(s) = [i \in DOMAIN s |-> s[CHOOSE p \in DOMAIN s : rank(p) = i]]
  BY DEF SortedByScore, SortsBefore
<1>4. \A i : (CHOOSE p \in S : rank(p) = i) = pick(i)
  <2> SUFFICES ASSUME NEW i PROVE (CHOOSE p \in S : rank(p) = i) = pick(i)
    OBVIOUS
  <2> HIDE DEF rank, place, S
  <2>1. \A p : (p \in S /\ rank(p) = i) <=> (p \in S /\ 1 + place(p) = i)
    BY <1>2
  <2> QED BY <2>1
<1>5. ASSUME NEW i \in S PROVE pick(i) \in S /\ place(pick(i)) = i - 1
  <2>1. IsFiniteSet(S) /\ Cardinality(S) = N /\ OrdersAll(R, S)
    BY <1>0, FS_Interval
  <2>2. EachHasAPlace(R, S)
    <3> HIDE DEF R, S
    <3> QED BY <2>1, EveryPlaceIsTaken
  <2>3. i - 1 \in 0 .. Cardinality(S) - 1
    BY <1>0, <2>1
  <2>4. PICK p \in S : place(p) = i - 1
    BY <2>2, <2>3 DEF EachHasAPlace
  <2>5. 1 + place(p) = i
    BY <2>4
  <2> HIDE DEF place
  <2>6. pick(i) \in S /\ 1 + place(pick(i)) = i
    <3> HIDE DEF S
    <3> QED BY <2>5, Zenon
  <2>7. place(pick(i)) \in 0 .. N - 1
    <3> HIDE DEF R, S, pick
    <3> QED BY <2>1, <2>6, AheadCounts DEF place
  <2> HIDE DEF pick, S
  <2> QED BY <1>0, <2>6, <2>7
<1>6. SortedByScore(s) = [i \in S |-> s[pick(i)]]
  <2> HIDE DEF rank, pick
  <2> QED BY <1>3, <1>4
<1>7. ASSUME NEW i \in S PROVE SortedByScore(s)[i] = s[pick(i)]
  <2> HIDE DEF pick, S
  <2> QED BY <1>6
<1>8. AtItsPlace(SortedByScore(s), s)
  <2> HIDE DEF pick
  <2> QED BY <1>5, <1>7 DEF AtItsPlace
<1>9. Len(SortedByScore(s)) = N /\ DOMAIN SortedByScore(s) = 1 .. N
  <2> HIDE DEF pick
  <2>1. DOMAIN SortedByScore(s) = 1 .. N
    BY <1>0, <1>6
  <2> QED BY <2>1, <1>6
<1> QED BY <1>8, <1>9

LEMMA SortedIsAFunction ==
    ASSUME NEW s
    PROVE  SortedByScore(s) = [i \in DOMAIN SortedByScore(s) |-> SortedByScore(s)[i]]
  BY DEF SortedByScore

\* What one language answers: its k last in its order, last first.
LastFirst(l, scores, order, n, k) ==
    [i \in 1 .. Least(k, n) |-> [doc   |-> <<l, order[n - i + 1]>>,
                                 score |-> scores[order[n - i + 1]]]]

LEMMA BestOfALanguage ==
    ASSUME NEW n \in Nat, NEW scores \in [1 .. n -> Nat], NEW order \in [1 .. n -> 1 .. n],
           NEW k \in Nat, NEW l
    PROVE  Labelled(l, search_bm25(scores, order, k)) = LastFirst(l, scores, order, n, k)
<1> DEFINE m == Least(k, n)
           best == Top(Reverse(order), k)
           found == search_bm25(scores, order, k)
<1>0. Len(order) = n /\ m \in Nat /\ m <= n /\ m = IF k < n THEN k ELSE n
  BY DEF Least
<1>1. Reverse(order) = [i \in 1 .. n |-> order[n - i + 1]]
  BY <1>0 DEF Reverse
<1>2. Len(Reverse(order)) = n
  BY <1>1
<1>3. best = [i \in 1 .. m |-> order[n - i + 1]]
  <2>1. best = SubSeq(Reverse(order), 1, m)
    BY <1>0, <1>2 DEF Top
  <2>2. SubSeq(Reverse(order), 1, m) = [i \in 1 .. m |-> Reverse(order)[i]]
    <3> HIDE DEF m
    <3>1. Reverse(order) \in Seq(1 .. n)
      <4>1. \A i \in 1 .. n : n - i + 1 \in 1 .. n
        OBVIOUS
      <4> QED BY <1>1, <4>1
    <3> QED BY <1>0, <1>2, <3>1
  <2>3. \A i \in 1 .. m : i \in 1 .. n /\ Reverse(order)[i] = order[n - i + 1]
    BY <1>0, <1>1
  <2> HIDE DEF m, best
  <2> QED BY <2>1, <2>2, <2>3
<1>4. found = [i \in 1 .. m |-> [doc |-> order[n - i + 1], score |-> scores[order[n - i + 1]]]]
  <2>1. found = [i \in DOMAIN best |-> [doc |-> best[i], score |-> scores[best[i]]]]
    BY DEF search_bm25
  <2> HIDE DEF m, best, found
  <2> QED BY <1>3, <2>1
<1> HIDE DEF m, found
<1>5. Labelled(l, found) = [i \in 1 .. m |-> [found[i] EXCEPT !.doc = <<l, @>>]]
  BY <1>4 DEF Labelled
<1>6. ASSUME NEW i \in 1 .. m
      PROVE  [found[i] EXCEPT !.doc = <<l, @>>]
               = [doc |-> <<l, order[n - i + 1]>>, score |-> scores[order[n - i + 1]]]
  <2> DEFINE a == order[n - i + 1]
             b == scores[order[n - i + 1]]
  <2>1. found[i] = [doc |-> a, score |-> b]
    BY <1>4
  <2> HIDE DEF a, b
  <2>2. [[doc |-> a, score |-> b] EXCEPT !.doc = <<l, @>>] = [doc |-> <<l, a>>, score |-> b]
    OBVIOUS
  <2>3. [found[i] EXCEPT !.doc = <<l, @>>] = [doc |-> <<l, a>>, score |-> b]
    BY <2>1, <2>2
  <2> QED BY <2>3 DEF a, b
<1>7. Labelled(l, found) = [i \in 1 .. m |-> [doc |-> <<l, order[n - i + 1]>>,
                                              score |-> scores[order[n - i + 1]]]]
  BY <1>5, <1>6
<1> QED BY <1>7 DEF m, found, LastFirst

\* What the invariant says of a merged search.
Size(l) == Len(task.scores[l])
RankedBy(order, scores, n) ==
    /\ scores \in [1 .. n -> Nat]
    /\ order \in [1 .. n -> 1 .. n] /\ IsInjective(order)
    /\ \A i, j \in 1 .. n : i < j => scores[order[i]] <= scores[order[j]]
Merging ==
    /\ task.k \in Nat /\ DOMAIN task.scores = {1, 2}
    /\ \A l \in {1, 2} :
          /\ Size(l) \in 1 .. MaxDocs
          /\ RankedBy(task.order[l], task.scores[l], Size(l))

LEMMA SortedScores ==
    ASSUME NEW scores \in Scores, NEW order \in argsort(scores)
    PROVE  Len(scores) \in 1 .. MaxDocs /\ RankedBy(order, scores, Len(scores))
<1>1. PICK n \in 1 .. MaxDocs : scores \in [1 .. n -> 0 .. MaxScore]
  BY DEF Scores
<1>2. n \in Nat /\ 0 .. MaxScore \subseteq Nat
  BY BoundedInputs
<1>3. Len(scores) = n /\ DOMAIN scores = 1 .. n /\ scores \in [1 .. n -> Nat]
  BY <1>1, <1>2
<1>4. /\ order \in [1 .. n -> 1 .. n] /\ IsInjective(order)
      /\ \A i, j \in DOMAIN order : i < j => scores[order[i]] <= scores[order[j]]
  BY <1>3 DEF argsort
<1>5. \A i, j \in 1 .. n : i < j => scores[order[i]] <= scores[order[j]]
  BY <1>4
<1> QED BY <1>3, <1>4, <1>5 DEF RankedBy

LEMMA MergesOfTheInvariant ==
    ASSUME Inv, Answered("merge")
    PROVE  Merging /\ answer[1] = search_translate_test(task.scores, task.order, task.k)
<1>1. PICK one \in Scores, two \in Scores :
        \E first \in argsort(one), second \in argsort(two) :
           /\ task.scores = <<one, two>> /\ task.order = <<first, second>>
           /\ task.k \in 1 .. MaxK
  BY DEF Inv, TaskOK, Answered
<1>2. PICK first \in argsort(one), second \in argsort(two) :
           /\ task.scores = <<one, two>> /\ task.order = <<first, second>>
           /\ task.k \in 1 .. MaxK
  BY <1>1
<1>3. task.k \in Nat
  BY <1>2, BoundedInputs
<1>4. Len(one) \in 1 .. MaxDocs /\ RankedBy(first, one, Len(one))
  BY SortedScores
<1>5. Len(two) \in 1 .. MaxDocs /\ RankedBy(second, two, Len(two))
  BY SortedScores
<1>6. /\ DOMAIN task.scores = {1, 2} /\ task.scores[1] = one /\ task.scores[2] = two
      /\ task.order[1] = first /\ task.order[2] = second
  BY <1>2
<1>7. Merging
  BY <1>3, <1>4, <1>5, <1>6 DEF Merging, Size
<1>8. answer[1] = search_translate_test(task.scores, task.order, task.k)
  BY DEF Inv, AnswerOK, Answered
<1> QED BY <1>7, <1>8

\* Every document of a language has its own place in BM25's order.
HasPlaces(order, n) ==
    /\ \A j \in 1 .. n : RankIn(order, order[j]) = j
    /\ \A d \in 1 .. n : RankIn(order, d) \in 1 .. n /\ order[RankIn(order, d)] = d

LEMMA PlacesOfALanguage ==
    ASSUME NEW n \in Nat, NEW order \in [1 .. n -> 1 .. n], IsInjective(order)
    PROVE  HasPlaces(order, n)
<1>1. ASSUME NEW d \in 1 .. n PROVE RankIn(order, d) \in 1 .. n /\ order[RankIn(order, d)] = d
  <2>1. \E j \in DOMAIN order : order[j] = d
    <3>1. \E j \in 1 .. n : order[j] = d
      BY PermutationsAreOnto
    <3> QED BY <3>1
  <2>2. RankIn(order, d) \in DOMAIN order /\ order[RankIn(order, d)] = d
    BY <2>1, Zenon DEF RankIn
  <2> QED BY <2>2
<1>2. ASSUME NEW j \in 1 .. n PROVE RankIn(order, order[j]) = j
  <2>1. RankIn(order, order[j]) \in 1 .. n /\ order[RankIn(order, order[j])] = order[j]
    BY <1>1
  <2> QED BY <2>1 DEF IsInjective
<1> QED BY <1>1, <1>2 DEF HasPlaces

LEMMA WhatExists ==
    ASSUME Merging
    PROVE  /\ IsFiniteSet(Existing)
           /\ \A l \in {1, 2} : \A d \in 1 .. Size(l) : <<l, d>> \in Existing
           /\ \A x \in Existing : \E l \in {1, 2} : \E d \in 1 .. Size(l) : x = <<l, d>>
<1>1. 1 .. 2 = {1, 2} /\ MaxDocs \in Nat
  BY BoundedInputs
<1>2. \A l \in {1, 2} : DOMAIN task.scores[l] = 1 .. Size(l)
  BY DEF Merging, RankedBy
<1>3. \A x \in Existing : \E l \in {1, 2} : \E d \in 1 .. Size(l) : x = <<l, d>>
  <2> SUFFICES ASSUME NEW x \in Existing
               PROVE  \E l \in {1, 2} : \E d \in 1 .. Size(l) : x = <<l, d>>
    OBVIOUS
  <2>1. PICK l \in 1 .. 2, d \in 1 .. MaxDocs : x = <<l, d>>
    BY DEF Existing, Documents
  <2>2. l \in {1, 2} /\ d \in DOMAIN task.scores[l]
    BY <1>1, <2>1 DEF Existing
  <2> QED BY <1>2, <2>1, <2>2
<1>4. ASSUME NEW l \in {1, 2}, NEW d \in 1 .. Size(l) PROVE <<l, d>> \in Existing
  <2>1. l \in 1 .. 2 /\ d \in 1 .. MaxDocs
    <3>1. Size(l) \in 1 .. MaxDocs
      BY DEF Merging
    <3> QED BY <1>1, <3>1
  <2>2. <<l, d>> \in Documents
    BY <2>1 DEF Documents
  <2> QED BY <1>2, <2>2 DEF Existing
<1>5. IsFiniteSet(Existing)
  <2>1. IsFiniteSet(1 .. 2) /\ IsFiniteSet(1 .. MaxDocs)
    <3>1. IsFiniteSet(1 .. 2)
      <4> DEFINE two == 2
      <4>1. two \in Int
        OBVIOUS
      <4> HIDE DEF two
      <4>2. IsFiniteSet(1 .. two)
        BY ONLY <4>1, FS_Interval
      <4> QED BY <4>2 DEF two
    <3>2. MaxDocs \in Int
      BY BoundedInputs
    <3>3. IsFiniteSet(1 .. MaxDocs)
      BY ONLY <3>2, FS_Interval
    <3> QED BY <3>1, <3>3
  <2>2. IsFiniteSet((1 .. 2) \X (1 .. MaxDocs))
    BY <2>1, FS_Product
  <2>3. Existing \in SUBSET ((1 .. 2) \X (1 .. MaxDocs))
    BY DEF Existing, Documents
  <2> QED BY <2>2, <2>3, FS_Subset
<1> QED BY <1>3, <1>4, <1>5

\* Existing documents have one order.
AbovePairs == {pair \in Existing \X Existing : Above(pair[1], pair[2])}

LEMMA AboveIsAnOrder ==
    ASSUME Merging
    PROVE  OrdersAll(AbovePairs, Existing)
<1>1. ASSUME NEW x \in Existing
      PROVE  /\ x[1] \in {1, 2} /\ ScoreOf(x) \in Nat /\ Place(x) \in Nat
             /\ x = <<x[1], task.order[x[1]][Place(x)]>>
  <2>1. PICK l \in {1, 2} : \E d \in 1 .. Size(l) : x = <<l, d>>
    BY WhatExists
  <2>2. PICK d \in 1 .. Size(l) : x = <<l, d>>
    BY <2>1
  <2>3. Size(l) \in Nat /\ RankedBy(task.order[l], task.scores[l], Size(l))
    <3>1. Size(l) \in 1 .. MaxDocs /\ RankedBy(task.order[l], task.scores[l], Size(l))
      BY DEF Merging
    <3> QED BY <3>1, BoundedInputs
  <2>4. /\ RankIn(task.order[l], d) \in 1 .. Size(l)
        /\ task.order[l][RankIn(task.order[l], d)] = d
    <3> DEFINE order == task.order[l]
               n == Size(l)
    <3>1. n \in Nat /\ order \in [1 .. n -> 1 .. n] /\ IsInjective(order)
      BY <2>3 DEF RankedBy
    <3> HIDE DEF order, n
    <3>2. HasPlaces(order, n)
      BY ONLY <3>1, PlacesOfALanguage
    <3> QED BY <3>2 DEF HasPlaces, order, n
  <2>5. x[1] = l /\ x[2] = d
    BY <2>2
  <2>6. task.scores[l][d] \in Nat
    BY <2>3 DEF RankedBy
  <2> QED BY <2>2, <2>3, <2>4, <2>5, <2>6 DEF ScoreOf, Place
<1>2. \A x, y \in Existing : <<x, y>> \in AbovePairs <=> Above(x, y)
  BY DEF AbovePairs
<1>3. ASSUME NEW x \in Existing PROVE ~Above(x, x)
  BY <1>1 DEF Above
<1>4. ASSUME NEW x \in Existing, NEW y \in Existing, NEW z \in Existing, Above(x, y), Above(y, z)
      PROVE  Above(x, z)
  BY <1>1, <1>4 DEF Above
<1>5. ASSUME NEW x \in Existing, NEW y \in Existing PROVE x = y \/ Above(x, y) \/ Above(y, x)
  <2>1. x[1] = y[1] /\ Place(x) = Place(y) => x = y
    BY <1>1
  <2>2. /\ x[1] \in {1, 2} /\ ScoreOf(x) \in Nat /\ Place(x) \in Nat
        /\ y[1] \in {1, 2} /\ ScoreOf(y) \in Nat /\ Place(y) \in Nat
    BY <1>1
  <2> QED BY <2>1, <2>2 DEF Above
<1> QED BY <1>2, <1>3, <1>4, <1>5 DEF OrdersAll

\* What the two languages answer, one after the other.
All == all_results(task.scores, task.order, task.k)
Limit(l) == Least(task.k, Size(l))
LangOf(p) == IF p <= Limit(1) THEN 1 ELSE 2
PlaceOf(p) == IF p <= Limit(1) THEN Size(1) - p + 1 ELSE Size(2) - (p - Limit(1)) + 1
DocAt(p) == <<LangOf(p), task.order[LangOf(p)][PlaceOf(p)]>>

LEMMA TheResults ==
    ASSUME Merging
    PROVE  /\ Limit(1) + Limit(2) \in Nat /\ DOMAIN All = 1 .. Limit(1) + Limit(2)
           /\ Len(All) = Limit(1) + Limit(2)
           /\ \A p \in 1 .. Limit(1) + Limit(2) :
                 All[p] = [doc   |-> DocAt(p),
                           score |-> task.scores[LangOf(p)][task.order[LangOf(p)][PlaceOf(p)]]]
<1> DEFINE Row(l, i) == [doc   |-> <<l, task.order[l][Size(l) - i + 1]>>,
                         score |-> task.scores[l][task.order[l][Size(l) - i + 1]]]
           L(l) == Labelled(l, search_bm25(task.scores[l], task.order[l], task.k))
           A == {Row(l, i) : l \in {1, 2}, i \in Nat}
<1>1. ASSUME NEW l \in {1, 2}
      PROVE  /\ Limit(l) \in Nat /\ L(l) = [i \in 1 .. Limit(l) |-> Row(l, i)]
             /\ L(l) \in Seq(A) /\ Len(L(l)) = Limit(l)
  <2>1. /\ task.k \in Nat /\ Size(l) \in Nat
        /\ task.scores[l] \in [1 .. Size(l) -> Nat]
        /\ task.order[l] \in [1 .. Size(l) -> 1 .. Size(l)]
    <3>1. /\ task.k \in Nat /\ Size(l) \in 1 .. MaxDocs
          /\ RankedBy(task.order[l], task.scores[l], Size(l))
      BY DEF Merging
    <3>2. Size(l) \in Nat
      BY <3>1, BoundedInputs
    <3> QED BY <3>1, <3>2 DEF RankedBy
  <2>2. L(l) = [i \in 1 .. Least(task.k, Size(l)) |-> Row(l, i)]
    <3> DEFINE scores == task.scores[l]
               order == task.order[l]
               n == Size(l)
               k == task.k
    <3>1. k \in Nat /\ n \in Nat /\ scores \in [1 .. n -> Nat] /\ order \in [1 .. n -> 1 .. n]
      BY <2>1
    <3> HIDE DEF scores, order, n, k
    <3>2. Labelled(l, search_bm25(scores, order, k)) = LastFirst(l, scores, order, n, k)
      BY ONLY <3>1, BestOfALanguage
    <3> QED BY <3>2 DEF LastFirst, scores, order, n, k
  <2>3. Limit(l) \in Nat
    BY <2>1 DEF Limit, Least
  <2> HIDE DEF L, Row
  <2>4. L(l) = [i \in 1 .. Limit(l) |-> Row(l, i)]
    BY <2>2 DEF Limit
  <2>5. \A i \in 1 .. Limit(l) : Row(l, i) \in A
    BY <2>3
  <2> HIDE DEF A
  <2>6. L(l) \in Seq(A) /\ Len(L(l)) = Limit(l)
    BY <2>3, <2>4, <2>5
  <2> QED BY <2>3, <2>4, <2>6
<1>2. All = FlattenSeq(<<L(1), L(2)>>)
  <2>1. All = FlattenSeq([l \in DOMAIN task.scores |-> L(l)])
    BY DEF All, all_results
  <2>2. DOMAIN task.scores = {1, 2}
    BY DEF Merging
  <2> HIDE DEF L
  <2>3. [l \in DOMAIN task.scores |-> L(l)] = <<L(1), L(2)>>
    BY <2>2
  <2> QED BY <2>1, <2>3
<1> HIDE DEF L, A, Row
<1>3. FlattenSeq(<<L(1), L(2)>>) = L(1) \o L(2)
  BY <1>1, FlattenTwo
<1>4. /\ Len(All) = Limit(1) + Limit(2) /\ DOMAIN All = 1 .. Limit(1) + Limit(2)
      /\ \A p \in 1 .. Limit(1) + Limit(2) :
            All[p] = IF p <= Limit(1) THEN L(1)[p] ELSE L(2)[p - Limit(1)]
  <2> DEFINE one == L(1)
             two == L(2)
             both == one \o two
  <2>1. one \in Seq(A) /\ two \in Seq(A) /\ Len(one) = Limit(1) /\ Len(two) = Limit(2)
    BY <1>1
  <2>2. All = both
    BY <1>2, <1>3
  <2> HIDE DEF one, two, both
  <2>3. /\ both \in Seq(A) /\ Len(both) = Len(one) + Len(two)
        /\ \A p \in 1 .. Len(one) + Len(two) :
              both[p] = IF p <= Len(one) THEN one[p] ELSE two[p - Len(one)]
    BY <2>1, ConcatProperties DEF both
  <2>4. DOMAIN both = 1 .. Len(both)
    BY <2>3
  <2> QED BY <2>1, <2>2, <2>3, <2>4 DEF one, two
<1>5. Limit(1) \in Nat /\ Limit(2) \in Nat
  BY <1>1
<1>6. ASSUME NEW p \in 1 .. Limit(1) + Limit(2)
      PROVE  All[p] = [doc   |-> DocAt(p),
                       score |-> task.scores[LangOf(p)][task.order[LangOf(p)][PlaceOf(p)]]]
  <2>1. CASE p <= Limit(1)
    <3>1. p \in 1 .. Limit(1)
      BY <1>5, <2>1
    <3>2. All[p] = Row(1, p)
      BY <1>1, <1>4, <2>1, <3>1
    <3> QED BY <2>1, <3>2 DEF Row, DocAt, LangOf, PlaceOf
  <2>2. CASE ~(p <= Limit(1))
    <3>1. p - Limit(1) \in 1 .. Limit(2)
      BY <1>5, <2>2
    <3>2. All[p] = Row(2, p - Limit(1))
      BY <1>1, <1>4, <2>2, <3>1
    <3> QED BY <2>2, <3>2 DEF Row, DocAt, LangOf, PlaceOf
  <2> QED BY <2>1, <2>2
<1> QED BY <1>4, <1>5, <1>6

\* Each result is a document that exists, at its place, with its score.
LEMMA WhatAResultIs ==
    ASSUME Merging, NEW p \in 1 .. Limit(1) + Limit(2)
    PROVE  /\ LangOf(p) \in {1, 2} /\ PlaceOf(p) \in Nat
           /\ DocAt(p) \in Existing /\ DocAt(p)[1] = LangOf(p)
           /\ Place(DocAt(p)) = PlaceOf(p) /\ ScoreOf(DocAt(p)) = All[p].score
           /\ All[p].doc = DocAt(p) /\ All[p].score \in Nat
<1> DEFINE l == LangOf(p)
           j == PlaceOf(p)
           order == task.order[l]
<1>1. \A h \in {1, 2} : /\ Size(h) \in Nat /\ Limit(h) \in Nat /\ Limit(h) <= Size(h)
                        /\ RankedBy(task.order[h], task.scores[h], Size(h))
  BY BoundedInputs DEF Merging, Limit, Least
<1>2. l \in {1, 2} /\ j \in 1 .. Size(l)
  <2>1. Size(1) \in Nat /\ Limit(1) \in Nat /\ Limit(1) <= Size(1)
    BY <1>1
  <2>2. Size(2) \in Nat /\ Limit(2) \in Nat /\ Limit(2) <= Size(2)
    BY <1>1
  <2> QED BY <2>1, <2>2 DEF LangOf, PlaceOf
<1> HIDE DEF l, j, order
<1>3. order \in [1 .. Size(l) -> 1 .. Size(l)] /\ IsInjective(order) /\ Size(l) \in Nat
      /\ task.scores[l] \in [1 .. Size(l) -> Nat]
  BY <1>1, <1>2 DEF RankedBy, order
<1>4. order[j] \in 1 .. Size(l) /\ RankIn(order, order[j]) = j
  <2>1. HasPlaces(order, Size(l))
    BY ONLY <1>3, PlacesOfALanguage
  <2> QED BY <1>2, <1>3, <2>1 DEF HasPlaces
<1>5. DocAt(p) = <<l, order[j]>>
  BY DEF DocAt, l, j, order
<1>6. DocAt(p) \in Existing
  BY <1>2, <1>4, <1>5, WhatExists
<1>7. DocAt(p)[1] = l /\ DocAt(p)[2] = order[j]
  BY <1>5
<1>8. Place(DocAt(p)) = j
  BY <1>4, <1>7 DEF Place, order
<1>9. All[p] = [doc |-> DocAt(p), score |-> task.scores[l][order[j]]]
  BY TheResults DEF l, j, order
<1>10. ScoreOf(DocAt(p)) = All[p].score /\ All[p].doc = DocAt(p) /\ All[p].score \in Nat
  <2>1. task.scores[l][order[j]] \in Nat
    BY <1>3, <1>4
  <2> QED BY <1>7, <1>9, <2>1 DEF ScoreOf
<1> QED BY <1>2, <1>6, <1>7, <1>8, <1>10, <1>3 DEF l, j

\* The order of the sort is the order of the documents.
LEMMA ResultsAreOrdered ==
    ASSUME Merging, NEW p \in 1 .. Limit(1) + Limit(2), NEW q \in 1 .. Limit(1) + Limit(2)
    PROVE  /\ DocAt(p) = DocAt(q) => p = q
           /\ <<p, q>> \in ScoreOrder(All) <=> <<DocAt(p), DocAt(q)>> \in AbovePairs
<1>0. \A h \in {1, 2} : Size(h) \in Nat /\ Limit(h) \in Nat /\ Limit(h) <= Size(h)
  BY BoundedInputs DEF Merging, Limit, Least
<1>1. /\ Size(1) \in Nat /\ Limit(1) \in Nat /\ Limit(1) <= Size(1)
      /\ Size(2) \in Nat /\ Limit(2) \in Nat /\ Limit(2) <= Size(2)
  BY <1>0
<1>2. /\ LangOf(p) = LangOf(q) /\ PlaceOf(p) = PlaceOf(q) => p = q
      /\ p < q <=> \/ LangOf(p) < LangOf(q)
                   \/ LangOf(p) = LangOf(q) /\ PlaceOf(p) > PlaceOf(q)
  BY <1>1 DEF LangOf, PlaceOf
<1>3. /\ DocAt(p)[1] = LangOf(p) /\ Place(DocAt(p)) = PlaceOf(p)
      /\ ScoreOf(DocAt(p)) = All[p].score /\ All[p].score \in Nat /\ DocAt(p) \in Existing
  BY WhatAResultIs
<1>4. /\ DocAt(q)[1] = LangOf(q) /\ Place(DocAt(q)) = PlaceOf(q)
      /\ ScoreOf(DocAt(q)) = All[q].score /\ All[q].score \in Nat /\ DocAt(q) \in Existing
  BY WhatAResultIs
<1>5. SortsBefore(All, p, q) <=> Above(DocAt(p), DocAt(q))
  BY <1>2, <1>3, <1>4 DEF SortsBefore, Above
<1>6. <<p, q>> \in ScoreOrder(All) <=> SortsBefore(All, p, q)
  BY TheResults, InScoreOrder
<1>7. <<DocAt(p), DocAt(q)>> \in AbovePairs <=> Above(DocAt(p), DocAt(q))
  BY <1>3, <1>4 DEF AbovePairs
<1>8. DocAt(p) = DocAt(q) => p = q
  BY <1>2, <1>3, <1>4
<1> QED BY <1>5, <1>6, <1>7, <1>8

\* A document that its language does not answer has k that it answers above it.
FoundDocs == {DocAt(p) : p \in 1 .. Limit(1) + Limit(2)}

LEMMA UnfoundAreBelow ==
    ASSUME Merging, NEW y \in Existing \ FoundDocs
    PROVE  \E G \in SUBSET FoundDocs :
               Cardinality(G) = task.k /\ \A g \in G : <<g, y>> \in AbovePairs
<1>0. \A h \in {1, 2} : /\ Size(h) \in Nat /\ Limit(h) \in Nat /\ Limit(h) = Least(task.k, Size(h))
                        /\ RankedBy(task.order[h], task.scores[h], Size(h))
  BY BoundedInputs DEF Merging, Limit, Least
<1>1. PICK l \in {1, 2} : \E d \in 1 .. Size(l) : y = <<l, d>>
  BY WhatExists
<1>2. PICK d \in 1 .. Size(l) : y = <<l, d>>
  BY <1>1
<1> DEFINE n == Size(l)
           k == task.k
           order == task.order[l]
           scores == task.scores[l]
           j == RankIn(order, d)
           I == n - Limit(l) + 1 .. n
           G == {<<l, order[i]>> : i \in I}
<1>3. /\ n \in Nat /\ k \in Nat /\ Limit(l) = Least(k, n) /\ Limit(l) \in Nat
      /\ scores \in [1 .. n -> Nat] /\ order \in [1 .. n -> 1 .. n] /\ IsInjective(order)
      /\ \A a, b \in 1 .. n : a < b => scores[order[a]] <= scores[order[b]]
  BY <1>0 DEF Merging, RankedBy
<1>4. ASSUME NEW i \in I
      PROVE  \E p \in 1 .. Limit(1) + Limit(2) : LangOf(p) = l /\ PlaceOf(p) = i
  <2>0. /\ Size(1) \in Nat /\ Limit(1) \in Nat /\ Size(2) \in Nat /\ Limit(2) \in Nat
    BY <1>0
  <2>1. CASE l = 1
    <3> DEFINE p == n - i + 1
    <3>1. p \in 1 .. Limit(1) + Limit(2) /\ p <= Limit(1)
      BY <2>0, <2>1
    <3>2. LangOf(p) = l /\ PlaceOf(p) = i
      BY <2>0, <2>1, <3>1 DEF LangOf, PlaceOf
    <3> QED BY <3>1, <3>2
  <2>2. CASE l = 2
    <3> DEFINE p == Limit(1) + (n - i + 1)
    <3>1. p \in 1 .. Limit(1) + Limit(2) /\ ~(p <= Limit(1))
      BY <2>0, <2>2
    <3>2. LangOf(p) = l /\ PlaceOf(p) = i
      BY <2>0, <2>2, <3>1 DEF LangOf, PlaceOf
    <3> QED BY <3>1, <3>2
  <2> QED BY <2>1, <2>2
<1>5. \A i \in I : <<l, order[i]>> \in FoundDocs
  BY <1>4 DEF FoundDocs, DocAt
<1>6. j \in 1 .. n /\ order[j] = d
  <2>1. HasPlaces(order, n)
    <3> HIDE DEF n, order
    <3> QED BY ONLY <1>3, PlacesOfALanguage
  <2>2. d \in 1 .. n
    OBVIOUS
  <2> HIDE DEF n, order
  <2> QED BY <2>1, <2>2 DEF HasPlaces, j
<1> HIDE DEF n, k, order, scores, j
<1>7. j \notin I
  BY <1>2, <1>5, <1>6
<1>8. Limit(l) = k /\ j < n - k + 1 /\ k <= n
  <2>1. j \in Nat /\ j < n - Limit(l) + 1
    BY <1>3, <1>6, <1>7
  <2>2. Limit(l) # n
    BY <1>3, <1>6, <2>1
  <2>3. Limit(l) = k /\ k < n
    BY <1>3, <2>2 DEF Least
  <2> QED BY <1>3, <2>1, <2>3
<1>9. Cardinality(G) = k
  <2> DEFINE D == [i \in I |-> <<l, order[i]>>]
  <2>1. I = (n - k + 1) .. n /\ n - k + 1 \in Int /\ n \in Int
    BY <1>3, <1>8
  <2>2. Cardinality(I) = k /\ IsFiniteSet(I)
    <3>1. /\ IsFiniteSet((n - k + 1) .. n)
          /\ Cardinality((n - k + 1) .. n)
               = IF n - k + 1 > n THEN 0 ELSE n - (n - k + 1) + 1
      BY <2>1, FS_Interval
    <3> QED BY <2>1, <3>1, <1>3
  <2>3. \A i \in I : i \in 1 .. n
    BY <1>3, <1>8
  <2>4. D \in [I -> G] /\ \A t \in G : \E i \in I : D[i] = t
    OBVIOUS
  <2>5. \A a, b \in I : D[a] = D[b] => a = b
    BY <1>3, <2>3 DEF IsInjective
  <2> HIDE DEF D, G, I
  <2>6. D \in Injection(I, G) /\ D \in Surjection(I, G)
    BY <2>4, <2>5, Fun_IsInj, Fun_IsSurj
  <2>7. ExistsBijection(I, G)
    BY <2>6 DEF ExistsBijection, Bijection
  <2> QED BY <2>2, <2>7, FS_Bijection
<1>10. ASSUME NEW i \in I PROVE <<<<l, order[i]>>, y>> \in AbovePairs
  <2>1. i \in 1 .. n /\ j < i /\ i \in Nat /\ j \in Nat
    BY <1>3, <1>6, <1>8
  <2> DEFINE g == <<l, order[i]>>
  <2>2. order[i] \in 1 .. n /\ RankIn(order, order[i]) = i
    <3>1. HasPlaces(order, n)
      BY ONLY <1>3, PlacesOfALanguage
    <3> QED BY <1>3, <2>1, <3>1 DEF HasPlaces
  <2>3. g \in Existing
    BY <2>2, WhatExists DEF n
  <2>4. scores[d] <= scores[order[i]] /\ scores[d] \in Nat /\ scores[order[i]] \in Nat
    BY <1>3, <1>6, <2>1, <2>2
  <2>5. g[1] = l /\ g[2] = order[i] /\ y[1] = l /\ y[2] = d
    BY <1>2
  <2> HIDE DEF g
  <2>6. ScoreOf(g) = scores[order[i]] /\ ScoreOf(y) = scores[d]
    BY <2>5 DEF ScoreOf, scores
  <2>7. Place(g) = i /\ Place(y) = j
    BY <2>2, <2>5 DEF Place, order, j
  <2>8. Above(g, y)
    BY <2>1, <2>4, <2>5, <2>6, <2>7 DEF Above
  <2>9. <<g, y>> \in AbovePairs
    BY <2>3, <2>8 DEF AbovePairs
  <2> QED BY <2>9 DEF g
<1>11. G \in SUBSET FoundDocs /\ \A g \in G : <<g, y>> \in AbovePairs
  BY <1>5, <1>10
<1> HIDE DEF G
<1> QED BY <1>9, <1>11 DEF k

\* Asking each language for its best k, and merging by score, loses nothing: for any
\* scores and any k, what is answered at place i has exactly i - 1 of all documents above
\* it, and the answer is as long as it can be (search_translate_test).
THEOREM MergingNeverLoses == Spec => []MergingLosesNothing
<1>1. Inv => MergingLosesNothing
  <2> SUFFICES ASSUME Inv, Answered("merge")
               PROVE  /\ Len(answer[1]) = Least(task.k, Cardinality(Existing))
                      /\ \A i \in DOMAIN answer[1] :
                           Cardinality({y \in Existing : Above(y, answer[1][i].doc)}) = i - 1
    BY DEF MergingLosesNothing
  <2> DEFINE N == Limit(1) + Limit(2)
             D == [p \in 1 .. N |-> DocAt(p)]
             R == AbovePairs
             Q == ScoreOrder(All)
             sorted == SortedByScore(All)
             k == task.k
  <2>1. Merging /\ answer[1] = Top(sorted, k) /\ k \in Nat
    BY MergesOfTheInvariant DEF Merging, search_translate_test, All
  <2>2. N \in Nat /\ DOMAIN All = 1 .. N
    BY <2>1, TheResults
  <2>3. IsFiniteSet(Existing) /\ OrdersAll(R, Existing) /\ FoundDocs \in SUBSET Existing
    <3>1. \A p \in 1 .. N : DocAt(p) \in Existing
      BY <2>1, WhatAResultIs
    <3> QED BY <2>1, <3>1, WhatExists, AboveIsAnOrder DEF FoundDocs
  <2>4. \A y \in Existing \ FoundDocs :
           \E G \in SUBSET FoundDocs : Cardinality(G) = k /\ \A g \in G : <<g, y>> \in R
    BY <2>1, UnfoundAreBelow
  <2> HIDE DEF R, k
  <2>5. /\ IsFiniteSet(FoundDocs) /\ OrdersAll(R, FoundDocs)
        /\ Least(k, Cardinality(FoundDocs)) = Least(k, Cardinality(Existing))
        /\ \A x \in FoundDocs : Cardinality(Ahead(R, FoundDocs, x)) < k
                                  => Ahead(R, Existing, x) = Ahead(R, FoundDocs, x)
    BY ONLY <2>1, <2>3, <2>4, BestOfEach
  <2>6. /\ D \in [1 .. N -> FoundDocs]
        /\ \A p, q \in 1 .. N : D[p] = D[q] => p = q
        /\ \A t \in FoundDocs : \E p \in 1 .. N : D[p] = t
        /\ \A p, q \in 1 .. N : <<p, q>> \in Q <=> <<D[p], D[q]>> \in R
    BY <2>1, ResultsAreOrdered DEF FoundDocs, R
  <2>7. IsFiniteSet(1 .. N) /\ Cardinality(1 .. N) = N
    <3> HIDE DEF N
    <3> QED BY <2>2, FS_Interval
  <2> HIDE DEF D, Q
  <2>8. /\ OrdersAll(Q, 1 .. N) /\ Cardinality(1 .. N) = Cardinality(FoundDocs)
        /\ \A p \in 1 .. N : Cardinality(Ahead(Q, 1 .. N, p)) = Cardinality(Ahead(R, FoundDocs, D[p]))
    <3>1. KeepsTheOrder(D, Q, 1 .. N, R, FoundDocs)
      <4> HIDE DEF N
      <4> QED BY ONLY <2>6 DEF KeepsTheOrder
    <3> HIDE DEF N
    <3> DEFINE S == 1 .. N
    <3>2. IsFiniteSet(S) /\ KeepsTheOrder(D, Q, S, R, FoundDocs) /\ OrdersAll(R, FoundDocs)
      BY <2>5, <2>7, <3>1
    <3> HIDE DEF S
    <3>3. /\ OrdersAll(Q, S) /\ Cardinality(S) = Cardinality(FoundDocs)
          /\ KeepsThePlaces(D, Q, S, R, FoundDocs)
      BY ONLY <3>2, SamePlaces
    <3> QED BY <3>3 DEF KeepsThePlaces, S
  <2>9. AtItsPlace(sorted, All) /\ DOMAIN sorted = 1 .. N /\ Len(sorted) = N
    BY <2>2, <2>8, SortingIsStable DEF Q
  <2>10. \A i \in 1 .. N : /\ sorted[i].doc \in FoundDocs
                           /\ Cardinality(Ahead(R, FoundDocs, sorted[i].doc)) = i - 1
    <3> SUFFICES ASSUME NEW i \in 1 .. N
                 PROVE  /\ sorted[i].doc \in FoundDocs
                        /\ Cardinality(Ahead(R, FoundDocs, sorted[i].doc)) = i - 1
      OBVIOUS
    <3>1. PICK p \in 1 .. N : sorted[i] = All[p] /\ Cardinality(Ahead(Q, 1 .. N, p)) = i - 1
      BY <2>2, <2>9 DEF AtItsPlace, Q
    <3>2. All[p].doc = D[p] /\ D[p] \in FoundDocs
      BY <2>1, WhatAResultIs DEF D, FoundDocs
    <3> QED BY <2>8, <3>1, <3>2
  <2>11. /\ Len(answer[1]) = Least(k, N)
         /\ \A i \in DOMAIN answer[1] : i \in 1 .. N /\ i <= k /\ answer[1][i] = sorted[i]
    <3> DEFINE m == IF k < N THEN k ELSE N
    <3>1. answer[1] = SubSeq(sorted, 1, m)
      BY <2>1, <2>9 DEF Top
    <3>2. m \in Nat /\ m <= N /\ m <= k /\ m = Least(k, N)
      BY <2>1, <2>2 DEF Least
    <3> HIDE DEF m, sorted, N
    <3>3. SubSeq(sorted, 1, m) = [i \in 1 .. m |-> sorted[i]]
      <4>1. sorted = [i \in 1 .. N |-> sorted[i]]
        BY <2>9, SortedIsAFunction DEF sorted
      <4>2. sorted \in Seq(Range(sorted))
        BY <2>2, <2>9, <4>1 DEF Range
      <4> QED BY <2>2, <2>9, <3>2, <4>2
    <3>4. answer[1] = [i \in 1 .. m |-> sorted[i]]
      BY <3>1, <3>3
    <3> DEFINE a == answer[1]
    <3>5. Len(a) = m /\ DOMAIN a = 1 .. m /\ \A i \in 1 .. m : a[i] = sorted[i]
      <4>1. a = [i \in 1 .. m |-> sorted[i]]
        BY <3>4
      <4> HIDE DEF a
      <4> QED BY <3>2, <4>1
    <3>6. \A i \in 1 .. m : i \in 1 .. N /\ i <= k
      BY <2>1, <2>2, <3>2
    <3> HIDE DEF a
    <3>7. Len(a) = Least(k, N) /\ \A i \in DOMAIN a : i \in 1 .. N /\ i <= k /\ a[i] = sorted[i]
      BY <3>2, <3>5, <3>6
    <3> QED BY <3>7 DEF a
  <2>12. Len(answer[1]) = Least(k, Cardinality(Existing))
    BY <2>5, <2>7, <2>8, <2>11
  <2>13. ASSUME NEW i \in DOMAIN answer[1]
         PROVE  Cardinality({y \in Existing : Above(y, answer[1][i].doc)}) = i - 1
    <3> DEFINE x == answer[1][i].doc
    <3>1. x = sorted[i].doc /\ i \in 1 .. N /\ i <= k
      BY <2>11
    <3> HIDE DEF x, sorted
    <3>2. x \in FoundDocs /\ Cardinality(Ahead(R, FoundDocs, x)) = i - 1
      BY <2>10, <3>1
    <3>3. i - 1 < k
      BY <2>1, <2>2, <3>1
    <3>4. Ahead(R, Existing, x) = Ahead(R, FoundDocs, x)
      BY <2>5, <3>2, <3>3
    <3>5. {y \in Existing : Above(y, x)} = Ahead(R, Existing, x)
      BY <2>3, <3>2 DEF Ahead, R, AbovePairs
    <3> QED BY <3>2, <3>4, <3>5 DEF x
  <2> QED BY <2>12, <2>13 DEF k
<1> QED BY <1>1, AnswersAreTheCodes, PTL
=============================================================================
