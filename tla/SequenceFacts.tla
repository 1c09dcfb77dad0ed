--------------------------- MODULE SequenceFacts ---------------------------
(***************************************************************************)
(* Facts about the operators that the models take from the community       *)
(* modules, for the proofs.  Induction is stated about sets: a set that    *)
(* has 0, and with n also n + 1, has all natural numbers.                  *)
(***************************************************************************)
EXTENDS SequencesExt, SequenceTheorems, FiniteSetTheorems, TLAPS

LEMMA NatOrder ==
    \E R : IsWellFoundedOn(R, Nat) /\ \A m, n \in Nat : m < n => <<m, n>> \in R
<1>1. \A m, n \in Nat : m < n => <<m, n>> \in OpToRel(<, Nat)
  BY DEF OpToRel
<1> QED BY <1>1, NatLessThanWellFounded, Zenon

LEMMA LeastNatural ==
    ASSUME NEW S \in SUBSET Nat, S # {}
    PROVE  \E n \in S : \A m \in S : n <= m
<1>1. PICK R : IsWellFoundedOn(R, Nat) /\ \A m, n \in Nat : m < n => <<m, n>> \in R
  BY NatOrder
<1>2. S \subseteq Nat /\ IsWellFoundedOn(R, Nat)
  BY <1>1
<1>3. PICK n \in S : \A m \in S : ~(<<m, n>> \in R)
  BY <1>2, WFMin, Zenon
<1>4. ASSUME NEW m \in S PROVE n <= m
  <2>1. m \in Nat /\ n \in Nat /\ ~(m < n)
    BY <1>1, <1>3
  <2> QED BY <2>1
<1> QED BY <1>4

LEMMA Induction ==
    ASSUME NEW S, 0 \in S, \A n \in Nat : n \in S => n + 1 \in S
    PROVE  Nat \subseteq S
<1> DEFINE U == Nat \ S
<1> SUFFICES ASSUME U # {} PROVE FALSE
  OBVIOUS
<1>1. PICK n \in U : \A m \in U : n <= m
  BY LeastNatural
<1>2. n # 0 /\ n - 1 \in Nat /\ n - 1 \in S /\ (n - 1) + 1 = n
  BY <1>1
<1> QED BY <1>1, <1>2

LEMMA InductionUpTo ==
    ASSUME NEW N \in Nat, NEW S, 1 \in S, \A n \in 1 .. N - 1 : n \in S => n + 1 \in S
    PROVE  1 .. N \subseteq S
<1> DEFINE U == {n \in Nat : n < N => n + 1 \in S}
<1>1. 0 \in U
  OBVIOUS
<1>2. ASSUME NEW n \in Nat, n \in U PROVE n + 1 \in U
  <2>1. CASE n + 1 < N
    <3>1. n + 1 \in 1 .. N - 1 /\ n + 1 \in S
      BY <1>2, <2>1
    <3> QED BY <3>1
  <2>2. CASE ~(n + 1 < N)
    BY <2>2
  <2> QED BY <2>1, <2>2
<1>3. Nat \subseteq U
  <2> HIDE DEF U
  <2> QED BY <1>1, <1>2, Induction
<1>4. ASSUME NEW n \in 1 .. N PROVE n \in S
  <2>1. n - 1 \in Nat /\ n - 1 < N /\ (n - 1) + 1 = n /\ n - 1 \in U
    BY <1>3
  <2> QED BY <2>1
<1> QED BY <1>4

-----------------------------------------------------------------------------
(* FlattenSeq.                                                             *)

\* The recursive function in FlattenSeq exists.
LEMMA FlattenExists ==
    ASSUME NEW A, NEW seqs \in Seq(Seq(A)), seqs # <<>>
    PROVE  \E f \in [1 .. Len(seqs) -> Seq(A)] :
               f = [i \in 1 .. Len(seqs) |-> IF i = 1 THEN seqs[i] ELSE f[i - 1] \o seqs[i]]
<1> DEFINE N == Len(seqs)
           Steps(k, f) == \A i \in 1 .. k : f[i] = IF i = 1 THEN seqs[i] ELSE f[i - 1] \o seqs[i]
           Good(k) == \E f \in [1 .. k -> Seq(A)] : Steps(k, f)
           S == {k \in 1 .. N : Good(k)}
<1>0. N \in Nat /\ N >= 1 /\ \A i \in 1 .. N : seqs[i] \in Seq(A)
  BY EmptySeq
<1>1. Good(1)
  <2> DEFINE f == [i \in 1 .. 1 |-> seqs[1]]
  <2>1. f \in [1 .. 1 -> Seq(A)] /\ Steps(1, f)
    BY <1>0
  <2> QED BY <2>1
<1>2. ASSUME NEW k \in 1 .. N - 1, Good(k) PROVE Good(k + 1)
  <2>1. PICK f \in [1 .. k -> Seq(A)] : Steps(k, f)
    BY <1>2
  <2> DEFINE g == [i \in 1 .. k + 1 |-> IF i = k + 1 THEN f[k] \o seqs[k + 1] ELSE f[i]]
  <2>2. f[k] \o seqs[k + 1] \in Seq(A)
    <3>1. f[k] \in Seq(A) /\ seqs[k + 1] \in Seq(A)
      BY <1>0, <2>1
    <3> QED BY <3>1, ConcatProperties
  <2>3. g \in [1 .. k + 1 -> Seq(A)]
    BY <2>1, <2>2
  <2>4. ASSUME NEW i \in 1 .. k + 1
        PROVE  g[i] = IF i = 1 THEN seqs[i] ELSE g[i - 1] \o seqs[i]
    <3>1. CASE i = k + 1
      <4>1. i # 1 /\ i - 1 = k /\ k \in 1 .. k + 1 /\ k # k + 1 /\ k \in Nat
        BY <3>1
      <4>2. g[i] = f[k] \o seqs[k + 1] /\ g[k] = f[k]
        BY <3>1, <4>1
      <4> HIDE DEF g
      <4>3. g[i] = g[i - 1] \o seqs[i]
        BY <4>1, <4>2, <3>1
      <4> QED BY <4>1, <4>3
    <3>2. CASE i # k + 1
      <4>1. i \in 1 .. k /\ g[i] = f[i] /\ (i # 1 => g[i - 1] = f[i - 1])
        BY <3>2
      <4> HIDE DEF g
      <4> QED BY <4>1, <2>1
    <3> QED BY <3>1, <3>2
  <2> HIDE DEF g
  <2> QED BY <2>3, <2>4
<1>3. N \in S
  <2> HIDE DEF Good
  <2>1. 1 \in S /\ \A k \in 1 .. N - 1 : k \in S => k + 1 \in S
    BY <1>0, <1>1, <1>2
  <2> HIDE DEF S
  <2>2. 1 .. N \subseteq S
    BY <2>1, <1>0, InductionUpTo
  <2> QED BY <2>2, <1>0
<1>4. PICK f \in [1 .. N -> Seq(A)] : Steps(N, f)
  BY <1>3
<1>5. f = [i \in 1 .. N |-> IF i = 1 THEN seqs[i] ELSE f[i - 1] \o seqs[i]]
  BY <1>4
<1> QED BY <1>5

\* FlattenSeq, one sequence after the other.
LEMMA FlattenInSteps ==
    ASSUME NEW A, NEW seqs \in Seq(Seq(A)), seqs # <<>>
    PROVE  \E f : /\ f[1] = seqs[1]
                  /\ \A i \in 1 .. Len(seqs) - 1 : f[i + 1] = f[i] \o seqs[i + 1]
                  /\ FlattenSeq(seqs) = f[Len(seqs)]
<1> DEFINE N == Len(seqs)
           f == CHOOSE f : f = [i \in 1 .. N |-> IF i = 1 THEN seqs[i] ELSE f[i - 1] \o seqs[i]]
<1>0. N \in Nat /\ N >= 1
  BY EmptySeq
<1>1. \E g : g = [i \in 1 .. N |-> IF i = 1 THEN seqs[i] ELSE g[i - 1] \o seqs[i]]
  <2>1. \E g \in [1 .. Len(seqs) -> Seq(A)] :
          g = [i \in 1 .. Len(seqs) |-> IF i = 1 THEN seqs[i] ELSE g[i - 1] \o seqs[i]]
    BY FlattenExists, Zenon
  <2> QED BY <2>1, Zenon
<1>2. f = [i \in 1 .. N |-> IF i = 1 THEN seqs[i] ELSE f[i - 1] \o seqs[i]]
  BY <1>1, Zenon
<1>3. FlattenSeq(seqs) = f[N]
  BY <1>0 DEF FlattenSeq
<1> HIDE DEF f
<1>4. \A i \in 1 .. N : f[i] = IF i = 1 THEN seqs[i] ELSE f[i - 1] \o seqs[i]
  BY <1>2
<1>5. ASSUME NEW i \in 1 .. N - 1 PROVE f[i + 1] = f[i] \o seqs[i + 1]
  <2>1. i + 1 \in 1 .. N /\ i + 1 # 1 /\ (i + 1) - 1 = i
    BY <1>0
  <2> QED BY <1>4, <2>1
<1>6. f[1] = seqs[1]
  BY <1>4, <1>0
<1> QED BY <1>3, <1>5, <1>6

\* What a concatenation has, and that it has nothing twice if its parts have not.
LEMMA ConcatRows ==
    ASSUME NEW A, NEW s \in Seq(A), NEW t \in Seq(A)
    PROVE  /\ s \o t \in Seq(A) /\ Range(s \o t) = Range(s) \cup Range(t)
           /\ Len(s \o t) = Len(s) + Len(t)
           /\ IsInjective(s) /\ IsInjective(t) /\ Range(s) \cap Range(t) = {}
                => IsInjective(s \o t)
<1>1. /\ s \o t \in Seq(A) /\ Len(s \o t) = Len(s) + Len(t)
      /\ \A i \in 1 .. Len(s) + Len(t) :
            (s \o t)[i] = IF i <= Len(s) THEN s[i] ELSE t[i - Len(s)]
  BY ConcatProperties
<1>2. Range(s \o t) = Range(s) \cup Range(t)
  BY RangeConcatenation
<1>3. ASSUME IsInjective(s), IsInjective(t), Range(s) \cap Range(t) = {},
             NEW i \in DOMAIN (s \o t), NEW j \in DOMAIN (s \o t), (s \o t)[i] = (s \o t)[j]
      PROVE  i = j
  <2>0. /\ i \in 1 .. Len(s) + Len(t) /\ j \in 1 .. Len(s) + Len(t)
        /\ Len(s) \in Nat /\ Len(t) \in Nat /\ DOMAIN s = 1 .. Len(s) /\ DOMAIN t = 1 .. Len(t)
    BY <1>1
  <2>1. CASE i <= Len(s) /\ j <= Len(s)
    <3>1. i \in DOMAIN s /\ j \in DOMAIN s /\ s[i] = s[j]
      BY <1>1, <1>3, <2>0, <2>1
    <3> QED BY <3>1, <1>3 DEF IsInjective
  <2>2. CASE ~(i <= Len(s)) /\ ~(j <= Len(s))
    <3>1. i - Len(s) \in DOMAIN t /\ j - Len(s) \in DOMAIN t /\ t[i - Len(s)] = t[j - Len(s)]
      BY <1>1, <1>3, <2>0, <2>2
    <3>2. i - Len(s) = j - Len(s)
      BY <3>1, <1>3 DEF IsInjective
    <3> QED BY <3>2, <2>0
  <2>3. CASE i <= Len(s) /\ ~(j <= Len(s))
    <3>1. i \in DOMAIN s /\ j - Len(s) \in DOMAIN t /\ s[i] = t[j - Len(s)]
      BY <1>1, <1>3, <2>0, <2>3
    <3> QED BY <3>1, <1>3 DEF Range
  <2>4. CASE ~(i <= Len(s)) /\ j <= Len(s)
    <3>1. j \in DOMAIN s /\ i - Len(s) \in DOMAIN t /\ s[j] = t[i - Len(s)]
      BY <1>1, <1>3, <2>0, <2>4
    <3> QED BY <3>1, <1>3 DEF Range
  <2> QED BY <2>1, <2>2, <2>3, <2>4
<1> QED BY <1>1, <1>2, <1>3 DEF IsInjective

\* What FlattenSeq has, and that it has nothing twice if its parts have not.
LEMMA FlattenRows ==
    ASSUME NEW A, NEW seqs \in Seq(Seq(A))
    PROVE  /\ FlattenSeq(seqs) \in Seq(A)
           /\ Range(FlattenSeq(seqs)) = UNION {Range(seqs[i]) : i \in DOMAIN seqs}
           /\ /\ \A i \in DOMAIN seqs : IsInjective(seqs[i])
              /\ \A i, j \in DOMAIN seqs : i # j => Range(seqs[i]) \cap Range(seqs[j]) = {}
              => IsInjective(FlattenSeq(seqs))
<1> DEFINE N == Len(seqs)
           Apart == /\ \A i \in DOMAIN seqs : IsInjective(seqs[i])
                    /\ \A i, j \in DOMAIN seqs : i # j => Range(seqs[i]) \cap Range(seqs[j]) = {}
<1>0. N \in Nat /\ DOMAIN seqs = 1 .. N /\ \A i \in 1 .. N : seqs[i] \in Seq(A)
  OBVIOUS
<1>1. CASE seqs = <<>>
  <2>1. FlattenSeq(seqs) = <<>>
    BY <1>1 DEF FlattenSeq
  <2>2. DOMAIN seqs = {} /\ \A B : <<>> \in Seq(B)
    BY <1>1
  <2>3. UNION {Range(seqs[i]) : i \in DOMAIN seqs} = {} /\ Range(<<>>) = {} /\ IsInjective(<<>>)
    BY <2>2 DEF Range, IsInjective
  <2> QED BY <2>1, <2>2, <2>3
<1>2. CASE seqs # <<>>
  <2>0. N >= 1
    BY <1>2, EmptySeq
  <2>1. PICK f : /\ f[1] = seqs[1]
                 /\ \A i \in 1 .. N - 1 : f[i + 1] = f[i] \o seqs[i + 1]
                 /\ FlattenSeq(seqs) = f[N]
    BY <1>2, FlattenInSteps
  <2> DEFINE First(k) == UNION {Range(seqs[i]) : i \in 1 .. k}
             Good(k) == /\ f[k] \in Seq(A) /\ Range(f[k]) = First(k)
                        /\ Apart => IsInjective(f[k])
             S == {k \in Nat : k < N => Good(k + 1)}
  <2>2. 0 \in S
    <3>1. First(0 + 1) = Range(seqs[1])
      OBVIOUS
    <3> QED BY <2>1, <2>0, <3>1, <1>0
  <2>3. ASSUME NEW k \in Nat, k \in S PROVE k + 1 \in S
    <3> SUFFICES ASSUME k + 1 < N PROVE Good((k + 1) + 1)
      OBVIOUS
    <3>0. /\ k < N /\ k + 1 \in 1 .. N - 1 /\ (k + 1) + 1 = k + 2 /\ k + 2 \in 1 .. N
          /\ 1 .. k + 2 = (1 .. k + 1) \cup {k + 2} /\ k + 2 \notin 1 .. k + 1
      BY <1>0
    <3>1. Good(k + 1) /\ f[k + 2] = f[k + 1] \o seqs[k + 2] /\ seqs[k + 2] \in Seq(A)
      <4>1. Good(k + 1)
        BY <2>3, <3>0
      <4> HIDE DEF Good
      <4> QED BY <4>1, <2>1, <1>0, <3>0
    <3>2. First(k + 2) = First(k + 1) \cup Range(seqs[k + 2])
      BY <3>0, Zenon
    <3>3. Apart => Range(f[k + 1]) \cap Range(seqs[k + 2]) = {}
      <4>1. \A i \in 1 .. k + 1 : i \in DOMAIN seqs /\ k + 2 \in DOMAIN seqs /\ i # k + 2
        BY <1>0, <3>0
      <4> QED BY <3>1, <4>1
    <3>4. f[k + 2] \in Seq(A) /\ Range(f[k + 2]) = First(k + 2) /\ (Apart => IsInjective(f[k + 2]))
      <4>1. Apart => IsInjective(seqs[k + 2])
        BY <1>0, <3>0
      <4>2. /\ f[k + 2] \in Seq(A)
            /\ Range(f[k + 2]) = Range(f[k + 1]) \cup Range(seqs[k + 2])
            /\ IsInjective(f[k + 1]) /\ IsInjective(seqs[k + 2])
               /\ Range(f[k + 1]) \cap Range(seqs[k + 2]) = {} => IsInjective(f[k + 2])
        BY <3>1, ConcatRows
      <4> HIDE DEF Apart, First
      <4> QED BY <3>1, <3>2, <3>3, <4>1, <4>2
    <3>5. (k + 1) + 1 = k + 2
      OBVIOUS
    <3> QED BY <3>4, <3>5
  <2> HIDE DEF S
  <2>4. N - 1 \in S /\ (N - 1) + 1 = N
    <3>1. Nat \subseteq S
      BY <2>2, <2>3, Induction
    <3> QED BY <3>1, <1>0, <2>0
  <2>5. Good(N)
    BY <2>4, <1>0 DEF S
  <2> QED BY <2>1, <2>5, <1>0
<1> QED BY <1>1, <1>2

-----------------------------------------------------------------------------
(* Sequences of whatever they have, as queues.                             *)

LEMMA HeadAndTail ==
    ASSUME NEW s, s \in Seq(Range(s)), s # <<>>
    PROVE  /\ Head(s) = s[1] /\ 1 \in DOMAIN s /\ Tail(s) \in Seq(Range(Tail(s)))
           /\ \A i \in DOMAIN Tail(s) : i + 1 \in DOMAIN s /\ Tail(s)[i] = s[i + 1]
           /\ \A i \in DOMAIN s : i = 1 \/ \E j \in DOMAIN Tail(s) : i = j + 1
<1>1. /\ Len(s) \in Nat /\ Len(s) >= 1 /\ DOMAIN s = 1 .. Len(s) /\ Head(s) = s[1]
      /\ Tail(s) \in Seq(Range(s)) /\ Len(Tail(s)) = Len(s) - 1
      /\ DOMAIN Tail(s) = 1 .. Len(s) - 1 /\ \A i \in 1 .. Len(s) - 1 : Tail(s)[i] = s[i + 1]
  BY EmptySeq
<1>2. Tail(s) \in Seq(Range(Tail(s)))
  <2>1. Tail(s) \in [1 .. Len(s) - 1 -> Range(s)]
    BY <1>1, LenProperties
  <2>2. \A i \in DOMAIN Tail(s) : Tail(s)[i] \in Range(Tail(s))
    BY DEF Range
  <2>3. Tail(s) \in [1 .. Len(s) - 1 -> Range(Tail(s))]
    BY <1>1, <2>1, <2>2
  <2>4. Len(s) - 1 \in Nat
    BY <1>1
  <2> QED BY <2>3, <2>4, SeqDef
<1>3. ASSUME NEW i \in DOMAIN s, i # 1 PROVE \E j \in DOMAIN Tail(s) : i = j + 1
  <2>1. i - 1 \in DOMAIN Tail(s) /\ i = (i - 1) + 1
    BY <1>1, <1>3
  <2> QED BY <2>1
<1> QED BY <1>1, <1>2, <1>3

LEMMA ShortSequences ==
    /\ <<>> \in Seq(Range(<<>>)) /\ DOMAIN <<>> = {}
    /\ \A u : /\ <<u>> \in Seq(Range(<<u>>)) /\ DOMAIN <<u>> = {1} /\ <<u>>[1] = u
    /\ \A u, v : /\ <<u, v>> \in Seq(Range(<<u, v>>)) /\ DOMAIN <<u, v>> = {1, 2}
                 /\ <<u, v>>[1] = u /\ <<u, v>>[2] = v
    /\ \A u, v, w : /\ <<u, v, w>> \in Seq(Range(<<u, v, w>>)) /\ DOMAIN <<u, v, w>> = {1, 2, 3}
                    /\ <<u, v, w>>[1] = u /\ <<u, v, w>>[2] = v /\ <<u, v, w>>[3] = w
<1>1. <<>> \in Seq(Range(<<>>)) /\ DOMAIN <<>> = {}
  OBVIOUS
<1>2. ASSUME NEW u
      PROVE  <<u>> \in Seq(Range(<<u>>)) /\ DOMAIN <<u>> = {1} /\ <<u>>[1] = u
  <2>1. DOMAIN <<u>> = {1} /\ <<u>>[1] = u
    OBVIOUS
  <2>2. u \in Range(<<u>>)
    BY <2>1 DEF Range
  <2> QED BY <2>1, <2>2
<1>3. ASSUME NEW u, NEW v
      PROVE  /\ <<u, v>> \in Seq(Range(<<u, v>>)) /\ DOMAIN <<u, v>> = {1, 2}
             /\ <<u, v>>[1] = u /\ <<u, v>>[2] = v
  <2>1. DOMAIN <<u, v>> = {1, 2} /\ <<u, v>>[1] = u /\ <<u, v>>[2] = v
    OBVIOUS
  <2>2. u \in Range(<<u, v>>) /\ v \in Range(<<u, v>>)
    BY <2>1 DEF Range
  <2> QED BY <2>1, <2>2
<1>4. ASSUME NEW u, NEW v, NEW w
      PROVE  /\ <<u, v, w>> \in Seq(Range(<<u, v, w>>)) /\ DOMAIN <<u, v, w>> = {1, 2, 3}
             /\ <<u, v, w>>[1] = u /\ <<u, v, w>>[2] = v /\ <<u, v, w>>[3] = w
  <2>1. /\ DOMAIN <<u, v, w>> = {1, 2, 3}
        /\ <<u, v, w>>[1] = u /\ <<u, v, w>>[2] = v /\ <<u, v, w>>[3] = w
    OBVIOUS
  <2>2. u \in Range(<<u, v, w>>) /\ v \in Range(<<u, v, w>>) /\ w \in Range(<<u, v, w>>)
    BY <2>1 DEF Range
  <2> QED BY <2>1, <2>2
<1> QED BY <1>1, <1>2, <1>3, <1>4

-----------------------------------------------------------------------------
(* Counting.                                                               *)

\* As many numbers as rows, if no two rows have the same one.
LEMMA CountingRows ==
    ASSUME NEW A, NEW s \in Seq(A), NEW number,
           \A i, j \in 1 .. Len(s) : number[s[i]] = number[s[j]] => i = j
    PROVE  Cardinality({number[s[i]] : i \in 1 .. Len(s)}) = Len(s)
<1> DEFINE N == Len(s)
           T == {number[s[i]] : i \in 1 .. N}
           f == [i \in 1 .. N |-> number[s[i]]]
<1>1. N \in Nat
  OBVIOUS
<1>2. f \in Bijection(1 .. N, T)
  <2>1. f \in Surjection(1 .. N, T)
    BY DEF Surjection
  <2>2. f \in Injection(1 .. N, T)
    BY DEF Injection, IsInjective
  <2> QED BY <2>1, <2>2 DEF Bijection
<1>3. ExistsBijection(1 .. N, T)
  BY <1>2 DEF ExistsBijection
<1> HIDE DEF T
<1>4. Cardinality(T) = N
  BY <1>1, <1>3, FS_CountingElements
<1> QED BY <1>4 DEF T
=============================================================================
