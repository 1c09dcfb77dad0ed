---------------------------- MODULE CorpusProofs ----------------------------
(***************************************************************************)
(* Proofs about Corpus: whatever scripts are started, interrupted and      *)
(* repeated in whatever order, the files fit together.                     *)
(*                                                                         *)
(* The inductive invariant speaks of the versions of a file.  Every run of *)
(* preprocessing.py makes one of each of its files, and versions[f][n] are *)
(* the rows of file f that run n made (none, if it did not get as far).    *)
(* The state does not have them, so the invariant says that there are      *)
(* some; what a file, or the memory of a script, has of run n is then the  *)
(* version of that run.                                                    *)
(***************************************************************************)
EXTENDS Corpus, SequenceFacts

Kinds == {"train", "test", "queries"}
Versioned == Kinds \X (Langs \cup {All})
Versions == [Versioned -> [Nat -> Seq(Document) \cup Seq(Langs \X Nat)]]

Fields == {"pc", "lang", "asked", "docs", "vectors", "out", "open"}

\* The languages of which this run of preprocessing.py has still to make a version.
ToMake ==
    LET now == tool["preprocess"]
        From(i) == {Languages[j] : j \in i .. Len(Languages)} \cup {All}
    IN  CASE now.pc = "process" -> From(now.lang)
          [] now.pc = "stats"   -> From(now.lang + 1)
          [] now.pc = "combine" -> {All}
          [] OTHER              -> {}

\* The runs that have made a version of a language by now, or never will.
Known == [l \in Langs \cup {All} |->
             1 .. (IF l \in ToMake THEN runs["preprocess"] - 1 ELSE runs["preprocess"])]

\* The documents and the queries that one run makes of a language, or of all of them.
CleanSplit(l, train, test, queries) ==
    LET documents == Range(train) \cup Range(test)
    IN  /\ train \in Seq(Document) /\ test \in Seq(Document) /\ queries \in Seq(Langs \X Nat)
        /\ IsInjective(train) /\ IsInjective(test) /\ Range(train) \cap Range(test) = {}
        /\ \A d, e \in documents : d.id = e.id => d = e
        /\ Range(queries) \subseteq {d.id : d \in Range(test)}
        /\ l \in Langs => \A d \in documents : d.id[1] = l

VersionsAreClean(versions) ==
    \A l \in Langs \cup {All}, n \in Nat :
        CleanSplit(l, versions[TrainFile(l)][n], versions[TestFile(l)][n],
                      versions[QueriesFile(l)][n])

\* What may be in a file.
Contents(versions, known, f, data) ==
    /\ f[1] = "raw" => data.run \in Nat /\ data.rows \in Collected
    /\ f \in Versioned => data.run \in known[f[2]] /\ data.rows = versions[f][data.run]

\* The script that writes a file.
Owner(f) == CASE f[1] = "raw"                     -> "collect"
              [] f[1] \in Kinds                   -> "preprocess"
              [] f[1] \in {"dense", "embeddings"} -> "dense"
              [] f[1] \in {"bm25", "translate"}   -> "baseline"
              [] OTHER                            -> "evaluation"

\* What a script has still to write are its own files, and it has a place in the code.
ScriptOK(t) ==
    /\ DOMAIN tool[t] = Fields /\ tool[t].open \in BOOLEAN
    /\ runs[t] \in 0 .. MaxRuns[t]
    /\ tool[t].lang \in 1 .. Len(Languages)
    /\ tool[t].out \in Seq(Range(tool[t].out))
    /\ tool[t].open => tool[t].out # <<>> /\ files[Head(tool[t].out).file] = Torn
    /\ tool[t].pc \in Stopped => tool[t].out = <<>>
    /\ tool[t].pc # "idle" => runs[t] >= 1

\* A write that run n of a script has still to do.
WriteOK(versions, known, t, n, w) ==
    /\ w.file \in FileNames /\ Owner(w.file) = t
    /\ w.data = [run |-> n, rows |-> w.data.rows]
    /\ Contents(versions, known, w.file, w.data)

WritesOK(versions, t) ==
    \A i \in DOMAIN tool[t].out : WriteOK(versions, Known, t, runs[t], tool[t].out[i])

FilesOK(versions) ==
    \A f \in FileNames : Readable(f) => Contents(versions, Known, f, files[f])

\* What this run has made it has written, or has in hand to write.
Written(f) == Readable(f) /\ files[f].run = runs["preprocess"]
Pending(f) == \E i \in DOMAIN tool["preprocess"].out : tool["preprocess"].out[i].file = f

Progress(versions) ==
    /\ tool["preprocess"].pc \in {"process", "stats", "combine", "finish", "done"} =>
         \A f \in Versioned : f[2] \notin ToMake => Written(f) \/ Pending(f)
    /\ tool["preprocess"].pc \in {"finish", "done"} =>
         \A kind \in Kinds, l \in Langs :
            Range(versions[<<kind, l>>][runs["preprocess"]])
                \subseteq Range(versions[<<kind, All>>][runs["preprocess"]])

Shape == /\ DOMAIN files = FileNames /\ DOMAIN tool = Tools /\ DOMAIN runs = Tools
         /\ \A t \in Tools : ScriptOK(t)

CorpusInv(versions) ==
    /\ versions \in Versions /\ VersionsAreClean(versions)
    /\ Shape /\ FilesOK(versions)
    /\ \A t \in Tools : WritesOK(versions, t)
    /\ Progress(versions)

-----------------------------------------------------------------------------
(* One language: what becomes of its articles.                             *)

\* Documents that are numbered in their order.
Numbered(l, rows) ==
    /\ rows \in Seq(Document) /\ Len(rows) <= NumArticles
    /\ \A i \in 1 .. Len(rows) : rows[i].id = <<l, i - 1>>

LEMMA NumArticlesNat == NumArticles \in Nat /\ NumArticles >= 1 /\ NumQueries \in Nat
  BY SomeArticlesAndQueries

\* The loop of process_articles: what it has after n articles.
Loop(l, articles, f) ==
    f = [n \in 0 .. Len(articles) |->
            IF n = 0 THEN <<>>
            ELSE IF articles[n] \in Kept
                 THEN Append(f[n - 1], [id |-> DocId(l, Len(f[n - 1])),
                                        page |-> <<l, articles[n]>>])
                 ELSE f[n - 1]]

\* It is a recursive function, which exists.
LEMMA LoopExists ==
    ASSUME NEW l, NEW articles, Len(articles) \in Nat
    PROVE  \E f : Loop(l, articles, f)
<1> DEFINE N == Len(articles)
           One(s, n) == IF articles[n] \in Kept
                        THEN Append(s, [id |-> DocId(l, Len(s)), page |-> <<l, articles[n]>>])
                        ELSE s
           Steps(k, f) == \A n \in 0 .. k : f[n] = IF n = 0 THEN <<>> ELSE One(f[n - 1], n)
           Good(k) == \E f : f = [n \in 0 .. k |-> f[n]] /\ Steps(k, f)
           S == {k \in Nat : Good(k)}
<1> HIDE DEF One
<1>1. 0 \in S
  <2> DEFINE f == [n \in 0 .. 0 |-> <<>>]
  <2>1. f = [n \in 0 .. 0 |-> f[n]] /\ Steps(0, f)
    OBVIOUS
  <2> QED BY <2>1
<1>2. ASSUME NEW k \in Nat, k \in S PROVE k + 1 \in S
  <2>1. PICK f : f = [n \in 0 .. k |-> f[n]] /\ Steps(k, f)
    BY <1>2
  <2> DEFINE g == [n \in 0 .. k + 1 |-> IF n = k + 1 THEN One(f[k], k + 1) ELSE f[n]]
  <2>2. g = [n \in 0 .. k + 1 |-> g[n]]
    OBVIOUS
  <2>3. ASSUME NEW n \in 0 .. k + 1
        PROVE  g[n] = IF n = 0 THEN <<>> ELSE One(g[n - 1], n)
    <3>1. CASE n = k + 1
      <4>1. n # 0 /\ n - 1 = k /\ g[n] = One(f[k], k + 1) /\ g[k] = f[k]
        BY <3>1
      <4> HIDE DEF g
      <4> QED BY <4>1, <3>1
    <3>2. CASE n # k + 1
      <4>1. n \in 0 .. k /\ g[n] = f[n] /\ (n # 0 => g[n - 1] = f[n - 1])
        BY <3>2
      <4> HIDE DEF g
      <4> QED BY <4>1, <2>1
    <3> QED BY <3>1, <3>2
  <2> HIDE DEF g
  <2>4. Good(k + 1)
    BY <2>2, <2>3
  <2> QED BY <2>4
<1>3. Good(N)
  <2> HIDE DEF Good
  <2>1. \A n \in Nat : n \in S => n + 1 \in S
    BY <1>2
  <2> HIDE DEF S
  <2>2. Nat \subseteq S
    BY <1>1, <2>1, Induction
  <2> QED BY <2>2 DEF S
<1>4. PICK f : f = [n \in 0 .. N |-> f[n]] /\ Steps(N, f)
  BY <1>3
<1>5. f = [n \in 0 .. N |-> IF n = 0 THEN <<>> ELSE One(f[n - 1], n)]
  <2>1. \A n \in 0 .. N : f[n] = IF n = 0 THEN <<>> ELSE One(f[n - 1], n)
    BY <1>4
  <2> QED BY <2>1, <1>4
<1> QED BY <1>5 DEF One, Loop

LEMMA AppendDocument ==
    ASSUME NEW l \in Langs, NEW s, Numbered(l, s), Len(s) < NumArticles, NEW page \in Pages
    PROVE  LET t == Append(s, [id |-> <<l, Len(s)>>, page |-> <<l, page>>])
           IN  Numbered(l, t) /\ Len(t) = Len(s) + 1
<1> DEFINE d == [id |-> <<l, Len(s)>>, page |-> <<l, page>>]
           t == Append(s, d)
<1>1. s \in Seq(Document) /\ Len(s) \in Nat /\ d \in Document
  BY DEF Numbered, Document
<1>2. /\ t \in Seq(Document) /\ Len(t) = Len(s) + 1 /\ t[Len(s) + 1] = d
      /\ \A i \in 1 .. Len(s) : t[i] = s[i]
  BY <1>1, AppendProperties
<1>3. ASSUME NEW i \in 1 .. Len(t) PROVE t[i].id = <<l, i - 1>>
  <2>1. CASE i = Len(s) + 1
    <3>1. t[i] = d /\ i - 1 = Len(s)
      BY <1>1, <1>2, <2>1
    <3> QED BY <3>1
  <2>2. CASE i # Len(s) + 1
    <3>1. i \in 1 .. Len(s)
      BY <1>1, <1>2, <2>2
    <3> QED BY <3>1, <1>2 DEF Numbered
  <2> QED BY <2>1, <2>2
<1>4. Len(t) <= NumArticles
  BY <1>1, <1>2, NumArticlesNat
<1> QED BY <1>2, <1>3, <1>4 DEF Numbered

\* process_articles numbers the documents of a language from 0 on.
LEMMA ProcessArticlesNumbers ==
    ASSUME NEW l \in Langs, NEW articles \in Seq(Pages), Len(articles) <= NumArticles
    PROVE  Numbered(l, process_articles(l, articles))
<1> DEFINE N == Len(articles)
           processed == CHOOSE f : Loop(l, articles, f)
<1>0. N \in Nat /\ \A n \in 1 .. N : articles[n] \in Pages
  OBVIOUS
<1>1. process_articles(l, articles) = processed[N]
  BY DEF process_articles, Loop
<1>2. Loop(l, articles, processed)
  BY <1>0, LoopExists
<1> HIDE DEF processed
<1>3. /\ processed[0] = <<>>
      /\ \A n \in 1 .. N : processed[n] =
            IF articles[n] \in Kept
            THEN Append(processed[n - 1], [id |-> <<l, Len(processed[n - 1])>>,
                                           page |-> <<l, articles[n]>>])
            ELSE processed[n - 1]
  <2>1. ASSUME NEW n \in 0 .. N
        PROVE  processed[n] = IF n = 0 THEN <<>>
                              ELSE IF articles[n] \in Kept
                              THEN Append(processed[n - 1], [id |-> DocId(l, Len(processed[n - 1])),
                                                             page |-> <<l, articles[n]>>])
                              ELSE processed[n - 1]
    BY <1>2, Zenon DEF Loop
  <2>2. 0 \in 0 .. N /\ \A n \in 1 .. N : n \in 0 .. N /\ n # 0
    BY <1>0
  <2> QED BY <2>1, <2>2 DEF DocId
<1> DEFINE Good(n) == Numbered(l, processed[n]) /\ Len(processed[n]) <= n
           S == {n \in Nat : n <= N => Good(n)}
<1>4. 0 \in S
  <2>1. <<>> \in Seq(Document) /\ Len(<<>>) = 0 /\ 1 .. 0 = {}
    OBVIOUS
  <2>2. Numbered(l, <<>>)
    BY <2>1, NumArticlesNat DEF Numbered
  <2> QED BY <1>3, <2>1, <2>2
<1>5. ASSUME NEW n \in Nat, n \in S PROVE n + 1 \in S
  <2> SUFFICES ASSUME n + 1 <= N PROVE Good(n + 1)
    OBVIOUS
  <2>1. Good(n) /\ n + 1 \in 1 .. N /\ (n + 1) - 1 = n /\ articles[n + 1] \in Pages
    BY <1>0, <1>5
  <2>2. Numbered(l, processed[n]) /\ Len(processed[n]) \in Nat /\ Len(processed[n]) < NumArticles
    BY <2>1, <1>0, NumArticlesNat DEF Numbered
  <2>3. CASE articles[n + 1] \in Kept
    <3>1. processed[n + 1] = Append(processed[n], [id |-> <<l, Len(processed[n])>>,
                                                   page |-> <<l, articles[n + 1]>>])
      BY <1>3, <2>1, <2>3
    <3>2. Numbered(l, processed[n + 1]) /\ Len(processed[n + 1]) = Len(processed[n]) + 1
      BY <3>1, <2>1, <2>2, AppendDocument
    <3> QED BY <3>2, <2>1, <2>2
  <2>4. CASE articles[n + 1] \notin Kept
    <3>1. processed[n + 1] = processed[n]
      BY <1>3, <2>1, <2>4
    <3> QED BY <3>1, <2>1, <2>2
  <2> QED BY <2>3, <2>4
<1>6. Good(N)
  <2> HIDE DEF S
  <2>1. Nat \subseteq S
    BY <1>4, <1>5, Induction
  <2> QED BY <2>1, <1>0 DEF S
<1> QED BY <1>1, <1>6

Reordered(s, rows) ==
    /\ \A i \in 1 .. Len(rows) : \E j \in 1 .. Len(rows) : s[i] = rows[j]
    /\ \A i, j \in 1 .. Len(rows) :
          i # j => \E k, m \in 1 .. Len(rows) : k # m /\ s[i] = rows[k] /\ s[j] = rows[m]

LEMMA ShuffleRows ==
    ASSUME NEW A, NEW rows \in Seq(A), Len(rows) <= NumArticles
    PROVE  /\ Shuffle(rows) \in Seq(A) /\ Len(Shuffle(rows)) = Len(rows)
           /\ Reordered(Shuffle(rows), rows)
<1> DEFINE n == Len(rows)
           p == Order[n]
<1>0. n \in Nat /\ DOMAIN rows = 1 .. n /\ \A i \in 1 .. n : rows[i] \in A
  OBVIOUS
<1>1. /\ \A i \in 1 .. n : p[i] \in 1 .. n
      /\ \A i, j \in 1 .. n : i # j => p[i] # p[j]
  <2>1. CASE n = 0
    BY <2>1
  <2>2. CASE n # 0
    <3>1. n \in 1 .. NumArticles
      BY <1>0, <2>2, NumArticlesNat
    <3>2. p \in [1 .. n -> 1 .. n] /\ IsInjective(p)
      BY <3>1, OrderPermutes
    <3> QED BY <3>2 DEF IsInjective
  <2> QED BY <2>1, <2>2
<1> HIDE DEF p
<1>2. Shuffle(rows) = [i \in 1 .. n |-> rows[p[i]]]
  BY <1>0 DEF Shuffle, p
<1>3. Shuffle(rows) \in [1 .. n -> A]
  BY <1>0, <1>1, <1>2
<1>4. Shuffle(rows) \in Seq(A) /\ Len(Shuffle(rows)) = n
  BY <1>0, <1>3
<1>5. \A i \in 1 .. n : Shuffle(rows)[i] = rows[p[i]]
  BY <1>2
<1>6. Reordered(Shuffle(rows), rows)
  BY <1>1, <1>5, Zenon DEF Reordered
<1> QED BY <1>4, <1>6

\* The split of one language, and its queries.
LEMMA SplitIsCleanHere ==
    ASSUME NEW l \in Langs, NEW df, Numbered(l, df)
    PROVE  CleanSplit(l, Train(df), Test(df), generate_test_queries(Test(df)))
<1> DEFINE s == Shuffle(df)
           n == Len(df)
           m == TrainSize(n)
           train == Train(df)
           test == Test(df)
           queries == generate_test_queries(test)
<1>0. df \in Seq(Document) /\ n \in Nat /\ n <= NumArticles
  BY DEF Numbered
<1>1. m \in 0 .. n
  BY <1>0 DEF TrainSize
<1>2. s \in Seq(Document) /\ Len(s) = n
  BY <1>0, ShuffleRows
<1>2a. /\ \A i \in 1 .. n : \E j \in 1 .. n : s[i] = df[j]
       /\ \A i, j \in 1 .. n :
             i # j => \E k, h \in 1 .. n : k # h /\ s[i] = df[k] /\ s[j] = df[h]
  <2>1. df \in Seq(Document) /\ Len(df) <= NumArticles
    BY <1>0
  <2>2. Reordered(Shuffle(df), df)
    BY <2>1, ShuffleRows
  <2> HIDE DEF m, train, test, queries
  <2> QED BY <2>2 DEF Reordered
<1>3. ASSUME NEW i \in 1 .. n PROVE s[i].id[1] = l
  <2>1. PICK j \in 1 .. n : s[i] = df[j]
    BY <1>2a
  <2>2. s[i].id = <<l, j - 1>>
    BY <2>1 DEF Numbered
  <2> QED BY <2>2
<1>4. ASSUME NEW i \in 1 .. n, NEW j \in 1 .. n, s[i].id = s[j].id PROVE i = j
  <2> SUFFICES ASSUME i # j PROVE FALSE
    OBVIOUS
  <2>1. PICK k, h \in 1 .. n : k # h /\ s[i] = df[k] /\ s[j] = df[h]
    BY <1>2a
  <2>2. s[i].id = <<l, k - 1>> /\ s[j].id = <<l, h - 1>> /\ k - 1 # h - 1
    BY <2>1 DEF Numbered
  <2> QED BY <2>2, <1>4
<1> HIDE DEF s, m
<1>5. /\ train \in Seq(Document) /\ Len(train) = m
      /\ \A i \in 1 .. m : i \in 1 .. n /\ train[i] = s[i]
  <2>1. train = SubSeq(s, 1, m)
    BY DEF Train, s, m
  <2> QED BY <2>1, <1>0, <1>1, <1>2
<1>6. /\ test \in Seq(Document) /\ Len(test) = n - m
      /\ \A i \in 1 .. n - m : m + i \in 1 .. n /\ test[i] = s[m + i]
  <2>1. test = SubSeq(s, m + 1, n)
    BY DEF Test, s, m
  <2> QED BY <2>1, <1>0, <1>1, <1>2
<1>7. /\ DOMAIN train = 1 .. m /\ DOMAIN test = 1 .. n - m
      /\ Range(train) = {s[i] : i \in 1 .. m} /\ Range(test) = {s[i] : i \in m + 1 .. n}
  <2>1. DOMAIN train = 1 .. m /\ DOMAIN test = 1 .. n - m
    BY <1>5, <1>6
  <2>2. \A i \in m + 1 .. n : i - m \in 1 .. n - m /\ m + (i - m) = i
    BY <1>0, <1>1
  <2>3. \A i \in 1 .. n - m : m + i \in m + 1 .. n
    BY <1>0, <1>1
  <2>4. Range(test) = {s[i] : i \in m + 1 .. n}
    <3>1. \A i \in m + 1 .. n : test[i - m] = s[i] /\ i - m \in DOMAIN test
      BY <2>1, <2>2, <1>6
    <3>2. \A i \in DOMAIN test : m + i \in m + 1 .. n /\ test[i] = s[m + i]
      BY <2>1, <2>3, <1>6
    <3>3. Range(test) = {test[i] : i \in DOMAIN test}
      BY DEF Range
    <3>4. {test[i] : i \in DOMAIN test} \subseteq {s[i] : i \in m + 1 .. n}
      BY <3>2
    <3>5. {s[i] : i \in m + 1 .. n} \subseteq {test[i] : i \in DOMAIN test}
      <4> HIDE DEF s, m, n, train, test, queries
      <4> QED BY <3>1
    <3> QED BY <3>3, <3>4, <3>5
  <2>5. Range(train) = {s[i] : i \in 1 .. m}
    BY <2>1, <1>5 DEF Range
  <2> QED BY <2>1, <2>4, <2>5
<1>8. IsInjective(train) /\ IsInjective(test)
  <2>1. ASSUME NEW i \in DOMAIN train, NEW j \in DOMAIN train, train[i] = train[j] PROVE i = j
    BY <2>1, <1>4, <1>5, <1>7
  <2>2. ASSUME NEW i \in DOMAIN test, NEW j \in DOMAIN test, test[i] = test[j] PROVE i = j
    <3>1. m + i \in 1 .. n /\ m + j \in 1 .. n /\ s[m + i] = s[m + j]
      BY <2>2, <1>6, <1>7
    <3>2. m + i = m + j
      BY <3>1, <1>4
    <3> QED BY <3>2, <1>1, <1>7, <1>0
  <2> QED BY <2>1, <2>2 DEF IsInjective
<1>9. 1 .. m \subseteq 1 .. n /\ m + 1 .. n \subseteq 1 .. n /\ (1 .. m) \cap (m + 1 .. n) = {}
  BY <1>0, <1>1
<1>10. Range(train) \cap Range(test) = {}
  BY <1>4, <1>7, <1>9
<1>11. \A d, e \in Range(train) \cup Range(test) : d.id = e.id => d = e
  BY <1>4, <1>7, <1>9
<1>12. queries \in Seq(Langs \X Nat) /\ Range(queries) \subseteq {d.id : d \in Range(test)}
  <2> DEFINE k == IF Len(test) < NumQueries THEN Len(test) ELSE NumQueries
  <2>1. k \in Nat /\ k <= Len(test) /\ Len(test) <= NumArticles /\ Len(test) \in Nat
    BY <1>0, <1>1, <1>6, NumArticlesNat
  <2>2. queries = [i \in 1 .. k |-> Shuffle(test)[i].id]
    BY DEF generate_test_queries
  <2>3. \A i \in 1 .. k : \E j \in DOMAIN test : Shuffle(test)[i] = test[j]
    <3>1. test \in Seq(Document) /\ DOMAIN test = 1 .. Len(test)
      BY <1>6
    <3>2. \A i \in 1 .. Len(test) : \E j \in 1 .. Len(test) : Shuffle(test)[i] = test[j]
      <4>1. Reordered(Shuffle(test), test)
        BY <3>1, <2>1, ShuffleRows
      <4> QED BY <4>1 DEF Reordered
    <3> HIDE DEF k
    <3>3. 1 .. k \subseteq 1 .. Len(test)
      BY <2>1
    <3> QED BY <3>1, <3>2, <3>3
  <2>4. \A i \in 1 .. k : Shuffle(test)[i] \in Range(test)
    BY <2>3 DEF Range
  <2>5. \A d \in Range(test) : d \in Document /\ d.id \in Langs \X Nat
    <3>1. test \in Seq(Document)
      BY <1>6
    <3>2. \A i \in DOMAIN test : test[i] \in Document
      BY <3>1
    <3>3. \A d \in Range(test) : d \in Document
      BY <3>2, Zenon DEF Range
    <3> QED BY <3>3 DEF Document
  <2> HIDE DEF k
  <2>6. queries \in Seq(Langs \X Nat)
    BY <2>1, <2>2, <2>4, <2>5
  <2>7. DOMAIN queries = 1 .. k
    BY <2>2
  <2> QED BY <2>2, <2>4, <2>6, <2>7 DEF Range
<1>13. \A d \in Range(train) \cup Range(test) : d.id[1] = l
  BY <1>3, <1>7, <1>9
<1> QED BY <1>5, <1>6, <1>8, <1>10, <1>11, <1>12, <1>13 DEF CleanSplit

-----------------------------------------------------------------------------
(* All languages together.                                                 *)

\* The rows of one kind that run n made, of all languages.
Together(versions, kind, n) ==
    FlattenSeq([i \in DOMAIN Languages |-> versions[<<kind, Languages[i]>>][n]])

LEMMA LanguageNumbers ==
    /\ Len(Languages) \in Nat /\ Len(Languages) >= 1 /\ DOMAIN Languages = 1 .. Len(Languages)
    /\ \A i \in DOMAIN Languages : Languages[i] \in Langs
    /\ \A l \in Langs : \E i \in DOMAIN Languages : Languages[i] = l
    /\ \A i, j \in DOMAIN Languages : Languages[i] = Languages[j] => i = j
<1>1. Languages \in Seq(Langs) /\ Languages # <<>> /\ IsInjective(Languages)
  BY LanguagesInOrder
<1>2. \A l \in Langs : \E i \in DOMAIN Languages : Languages[i] = l
  BY DEF Langs, Range
<1> QED BY <1>1, <1>2, EmptySeq DEF IsInjective

\* The rows of the languages, and that no row is there twice.
RowsOfAll(versions, kind, n) == UNION {Range(versions[<<kind, l>>][n]) : l \in Langs}
EachOnce(versions, kind, n) ==
    /\ \A l \in Langs : IsInjective(versions[<<kind, l>>][n])
    /\ \A l, m \in Langs : l # m =>
          Range(versions[<<kind, l>>][n]) \cap Range(versions[<<kind, m>>][n]) = {}

LEMMA TogetherRows ==
    ASSUME NEW A, NEW versions, NEW kind, NEW n,
           \A l \in Langs : versions[<<kind, l>>][n] \in Seq(A)
    PROVE  /\ Together(versions, kind, n) \in Seq(A)
           /\ Range(Together(versions, kind, n)) = RowsOfAll(versions, kind, n)
           /\ EachOnce(versions, kind, n) => IsInjective(Together(versions, kind, n))
<1> DEFINE Of(l) == versions[<<kind, l>>][n]
           seqs == [i \in DOMAIN Languages |-> Of(Languages[i])]
<1>1. \A i \in DOMAIN Languages : seqs[i] = Of(Languages[i]) /\ Languages[i] \in Langs
  BY LanguageNumbers
<1>2. seqs \in Seq(Seq(A)) /\ DOMAIN seqs = DOMAIN Languages
  BY LanguageNumbers
<1>3. Together(versions, kind, n) = FlattenSeq(seqs)
  BY DEF Together
<1> HIDE DEF seqs
<1>4. /\ FlattenSeq(seqs) \in Seq(A)
      /\ Range(FlattenSeq(seqs)) = UNION {Range(seqs[i]) : i \in DOMAIN seqs}
      /\ /\ \A i \in DOMAIN seqs : IsInjective(seqs[i])
         /\ \A i, j \in DOMAIN seqs : i # j => Range(seqs[i]) \cap Range(seqs[j]) = {}
         => IsInjective(FlattenSeq(seqs))
  BY <1>2, FlattenRows
<1>5. {Range(seqs[i]) : i \in DOMAIN seqs} = {Range(Of(l)) : l \in Langs}
  <2> HIDE DEF Of
  <2>1. \A i \in DOMAIN seqs : \E l \in Langs : seqs[i] = Of(l)
    BY <1>1, <1>2
  <2>2. \A l \in Langs : \E i \in DOMAIN seqs : seqs[i] = Of(l)
    BY <1>1, <1>2, LanguageNumbers
  <2> QED BY <2>1, <2>2
<1>6. ASSUME EachOnce(versions, kind, n)
      PROVE  IsInjective(FlattenSeq(seqs))
  <2>0. /\ \A l \in Langs : IsInjective(Of(l))
        /\ \A l, m \in Langs : l # m => Range(Of(l)) \cap Range(Of(m)) = {}
    BY <1>6 DEF EachOnce
  <2> HIDE DEF Of
  <2>1. \A i \in DOMAIN seqs : IsInjective(seqs[i])
    BY <1>1, <1>2, <2>0
  <2>2. \A i, j \in DOMAIN seqs : i # j => Languages[i] # Languages[j]
    BY <1>2, LanguageNumbers
  <2>3. \A i, j \in DOMAIN seqs : i # j => Range(seqs[i]) \cap Range(seqs[j]) = {}
    BY <1>1, <1>2, <2>0, <2>2
  <2> QED BY <2>1, <2>3, <1>4
<1>7. Range(FlattenSeq(seqs)) = RowsOfAll(versions, kind, n)
  BY <1>4, <1>5 DEF RowsOfAll
<1> QED BY <1>3, <1>4, <1>6, <1>7

\* Clean splits of the languages make a clean split of them all.
LEMMA TogetherIsClean ==
    ASSUME NEW versions, VersionsAreClean(versions), NEW n \in Nat
    PROVE  /\ CleanSplit(All, Together(versions, "train", n), Together(versions, "test", n),
                              Together(versions, "queries", n))
           /\ \A kind \in Kinds, l \in Langs :
                 Range(versions[<<kind, l>>][n]) \subseteq Range(Together(versions, kind, n))
<1> DEFINE Tr(l) == versions[<<"train", l>>][n]
           Te(l) == versions[<<"test", l>>][n]
           Qu(l) == versions[<<"queries", l>>][n]
           train == Together(versions, "train", n)
           test == Together(versions, "test", n)
           queries == Together(versions, "queries", n)
<1>1. ASSUME NEW l \in Langs PROVE CleanSplit(l, Tr(l), Te(l), Qu(l))
  BY DEF VersionsAreClean, TrainFile, TestFile, QueriesFile
<1>2. ASSUME NEW l \in Langs
      PROVE  /\ Tr(l) \in Seq(Document) /\ Te(l) \in Seq(Document) /\ Qu(l) \in Seq(Langs \X Nat)
             /\ IsInjective(Tr(l)) /\ IsInjective(Te(l)) /\ Range(Tr(l)) \cap Range(Te(l)) = {}
             /\ \A d, e \in Range(Tr(l)) \cup Range(Te(l)) : d.id = e.id => d = e
             /\ Range(Qu(l)) \subseteq {d.id : d \in Range(Te(l))}
             /\ \A d \in Range(Tr(l)) \cup Range(Te(l)) : d.id[1] = l
  BY <1>1 DEF CleanSplit
<1>3. ASSUME NEW l \in Langs, NEW m \in Langs, l # m
      PROVE  /\ (Range(Tr(l)) \cup Range(Te(l))) \cap (Range(Tr(m)) \cup Range(Te(m))) = {}
  <2> HIDE DEF Tr, Te
  <2> QED BY <1>2, <1>3
<1>4. /\ train \in Seq(Document) /\ IsInjective(train)
      /\ Range(train) = UNION {Range(Tr(l)) : l \in Langs}
  <2>1. \A l \in Langs : versions[<<"train", l>>][n] \in Seq(Document)
    BY <1>2
  <2>2. EachOnce(versions, "train", n)
    BY <1>2, <1>3 DEF EachOnce
  <2>3. /\ Together(versions, "train", n) \in Seq(Document)
        /\ Range(Together(versions, "train", n)) = RowsOfAll(versions, "train", n)
        /\ IsInjective(Together(versions, "train", n))
    BY <2>1, <2>2, TogetherRows, Zenon
  <2> QED BY <2>3, Zenon DEF RowsOfAll
<1>5. /\ test \in Seq(Document) /\ IsInjective(test)
      /\ Range(test) = UNION {Range(Te(l)) : l \in Langs}
  <2>1. \A l \in Langs : versions[<<"test", l>>][n] \in Seq(Document)
    BY <1>2
  <2>2. EachOnce(versions, "test", n)
    BY <1>2, <1>3 DEF EachOnce
  <2>3. /\ Together(versions, "test", n) \in Seq(Document)
        /\ Range(Together(versions, "test", n)) = RowsOfAll(versions, "test", n)
        /\ IsInjective(Together(versions, "test", n))
    BY <2>1, <2>2, TogetherRows, Zenon
  <2> QED BY <2>3, Zenon DEF RowsOfAll
<1>6. /\ queries \in Seq(Langs \X Nat)
      /\ Range(queries) = UNION {Range(Qu(l)) : l \in Langs}
  <2>1. \A l \in Langs : versions[<<"queries", l>>][n] \in Seq(Langs \X Nat)
    BY <1>2
  <2> DEFINE A == Langs \X Nat
  <2> HIDE DEF A
  <2>2. /\ Together(versions, "queries", n) \in Seq(A)
        /\ Range(Together(versions, "queries", n)) = RowsOfAll(versions, "queries", n)
    <3>1. \A l \in Langs : versions[<<"queries", l>>][n] \in Seq(A)
      BY <2>1 DEF A
    <3> QED BY <3>1, TogetherRows, Zenon
  <2> USE DEF A
  <2> QED BY <2>2, Zenon DEF RowsOfAll
<1> HIDE DEF train, test, queries, Tr, Te, Qu
<1>7. Range(train) \cap Range(test) = {}
  <2> SUFFICES ASSUME NEW d \in Range(train), d \in Range(test) PROVE FALSE
    OBVIOUS
  <2>1. PICK l \in Langs : d \in Range(Tr(l))
    BY <1>4
  <2>2. PICK m \in Langs : d \in Range(Te(m))
    BY <1>5
  <2>3. l = m
    BY <1>3, <2>1, <2>2
  <2> QED BY <1>2, <2>1, <2>2, <2>3
<1>8. ASSUME NEW d \in Range(train) \cup Range(test), NEW e \in Range(train) \cup Range(test),
             d.id = e.id
      PROVE  d = e
  <2>1. PICK l \in Langs : d \in Range(Tr(l)) \cup Range(Te(l))
    BY <1>4, <1>5
  <2>2. PICK m \in Langs : e \in Range(Tr(m)) \cup Range(Te(m))
    BY <1>4, <1>5
  <2>3. d.id[1] = l /\ e.id[1] = m
    BY <1>2, <2>1, <2>2
  <2>4. l = m
    BY <2>3, <1>8
  <2> QED BY <1>2, <1>8, <2>1, <2>2, <2>4
<1>9. Range(queries) \subseteq {d.id : d \in Range(test)}
  <2> SUFFICES ASSUME NEW q \in Range(queries) PROVE \E d \in Range(test) : q = d.id
    OBVIOUS
  <2>1. PICK l \in Langs : q \in Range(Qu(l))
    BY <1>6
  <2>2. PICK d \in Range(Te(l)) : q = d.id
    BY <1>2, <2>1
  <2>3. d \in Range(test)
    BY <1>5, <2>2
  <2> QED BY <2>2, <2>3
<1>10. CleanSplit(All, train, test, queries)
  BY <1>4, <1>5, <1>6, <1>7, <1>8, <1>9, AllIsNoLanguage DEF CleanSplit
<1>11. ASSUME NEW kind \in Kinds, NEW l \in Langs
       PROVE  Range(versions[<<kind, l>>][n]) \subseteq Range(Together(versions, kind, n))
  <2>1. CASE kind = "train"
    BY <2>1, <1>4 DEF train, Tr
  <2>2. CASE kind = "test"
    BY <2>2, <1>5 DEF test, Te
  <2>3. CASE kind = "queries"
    BY <2>3, <1>6 DEF queries, Qu
  <2> QED BY <2>1, <2>2, <2>3 DEF Kinds
<1> QED BY <1>10, <1>11 DEF train, test, queries

-----------------------------------------------------------------------------
(* The ways a step can look.                                               *)

\* What is known stays known, and is what it was.
Grown(versions, later) ==
    \A l \in Langs \cup {All} : \A n \in Known[l] :
        /\ n \in Known'[l]
        /\ \A kind \in Kinds : later[<<kind, l>>][n] = versions[<<kind, l>>][n]

\* Only one script takes a step.
Only(t) == /\ DOMAIN tool' = Tools /\ DOMAIN runs' = Tools
           /\ \A u \in Tools \ {t} : tool'[u] = tool[u] /\ runs'[u] = runs[u]

LEMMA ContentsStay ==
    ASSUME NEW V, NEW W, NEW known, NEW later, NEW f, NEW data,
           \A l \in Langs \cup {All} : \A n \in known[l] :
              n \in later[l] /\ \A kind \in Kinds : W[<<kind, l>>][n] = V[<<kind, l>>][n],
           Contents(V, known, f, data)
    PROVE  Contents(W, later, f, data)
<1>1. ASSUME f \in Versioned PROVE data.run \in later[f[2]] /\ data.rows = W[f][data.run]
  <2>1. f = <<f[1], f[2]>> /\ f[1] \in Kinds /\ f[2] \in Langs \cup {All}
    BY <1>1 DEF Versioned
  <2>2. data.run \in known[f[2]] /\ data.rows = V[f][data.run]
    BY <1>1 DEF Contents
  <2>3. data.run \in later[f[2]] /\ W[<<f[1], f[2]>>][data.run] = V[<<f[1], f[2]>>][data.run]
    BY <2>1, <2>2
  <2> QED BY <2>1, <2>2, <2>3
<1> QED BY <1>1 DEF Contents

LEMMA WriteStays ==
    ASSUME NEW V, NEW W, NEW known, NEW later, NEW t, NEW n, NEW w,
           \A l \in Langs \cup {All} : \A m \in known[l] :
              m \in later[l] /\ \A kind \in Kinds : W[<<kind, l>>][m] = V[<<kind, l>>][m],
           WriteOK(V, known, t, n, w)
    PROVE  WriteOK(W, later, t, n, w)
  BY ContentsStay DEF WriteOK

\* A script computes, starts or stops; the files stay as they are.
LEMMA ScriptStep ==
    ASSUME NEW V, CorpusInv(V), NEW W \in Versions, VersionsAreClean(W), Grown(V, W),
           NEW t \in Tools, Only(t), UNCHANGED files,
           ScriptOK(t)', WritesOK(W, t)', Progress(W)'
    PROVE  Grown(V, W) /\ CorpusInv(W)'
<1>1. ASSUME NEW u \in Tools PROVE ScriptOK(u)'
  <2>1. CASE u = t
    BY <2>1
  <2>2. CASE u # t
    <3>1. tool'[u] = tool[u] /\ runs'[u] = runs[u] /\ ScriptOK(u)
      BY <2>2 DEF Only, CorpusInv, Shape
    <3> QED BY <3>1 DEF ScriptOK
  <2> QED BY <2>1, <2>2
<1>2. ASSUME NEW u \in Tools PROVE WritesOK(W, u)'
  <2>1. CASE u = t
    BY <2>1
  <2>2. CASE u # t
    <3>1. tool'[u] = tool[u] /\ runs'[u] = runs[u] /\ WritesOK(V, u)
      BY <2>2 DEF Only, CorpusInv
    <3>2. ASSUME NEW i \in DOMAIN tool[u].out
          PROVE  WriteOK(W, Known', u, runs[u], tool[u].out[i])
      BY <3>1, WriteStays DEF Grown, WritesOK
    <3> QED BY <3>1, <3>2 DEF WritesOK
  <2> QED BY <2>1, <2>2
<1>3. FilesOK(W)'
  <2>1. ASSUME NEW f \in FileNames, Readable(f) PROVE Contents(W, Known', f, files[f])
    <3>1. Contents(V, Known, f, files[f])
      BY <2>1 DEF CorpusInv, FilesOK
    <3> QED BY <3>1, ContentsStay DEF Grown
  <2> QED BY <2>1 DEF FilesOK, Readable
<1>4. DOMAIN files' = FileNames
  BY DEF CorpusInv, Shape
<1>5. FileNames' = FileNames
  BY DEF FileNames, ResultFiles, Embeddings, Report
<1> QED BY <1>1, <1>2, <1>3, <1>4, <1>5 DEF CorpusInv, Shape, Only

\* Nothing of this is known before or after, unless preprocessing.py takes the step.
LEMMA OtherScriptStep ==
    ASSUME NEW V, CorpusInv(V), NEW t \in Tools, t # "preprocess", Only(t), UNCHANGED files,
           ScriptOK(t)', WritesOK(V, t)'
    PROVE  Grown(V, V) /\ CorpusInv(V)'
<1>1. tool'["preprocess"] = tool["preprocess"] /\ runs'["preprocess"] = runs["preprocess"]
  BY BoundedScripts DEF Only
<1>2. ToMake' = ToMake
  BY <1>1 DEF ToMake
<1>3. Known' = Known
  BY <1>1, <1>2 DEF Known
<1>4. Grown(V, V)
  BY <1>3 DEF Grown
<1>5. Progress(V)'
  BY <1>1, <1>2 DEF CorpusInv, Progress, Written, Pending, Readable
<1> QED BY <1>4, <1>5, ScriptStep DEF CorpusInv

\* What a script has next to write.
LEMMA NextWrite ==
    ASSUME NEW V, CorpusInv(V), NEW t \in Tools, tool[t].out # <<>>
    PROVE  LET w == Head(tool[t].out) IN
           /\ WriteOK(V, Known, t, runs[t], w) /\ 1 \in DOMAIN tool[t].out
           /\ w = tool[t].out[1]
  BY HeadAndTail DEF CorpusInv, Shape, ScriptOK, WritesOK

\* Opening and closing a file leave the versions alone.
LEMMA SameKnown ==
    ASSUME NEW V, CorpusInv(V), NEW t \in Tools, UNCHANGED runs, DOMAIN tool' = Tools,
           \A u \in Tools \ {t} : tool'[u] = tool[u],
           tool'[t].pc = tool[t].pc, tool'[t].lang = tool[t].lang
    PROVE  ToMake' = ToMake /\ Known' = Known /\ Grown(V, V)
<1>1. tool'["preprocess"].pc = tool["preprocess"].pc
      /\ tool'["preprocess"].lang = tool["preprocess"].lang
  BY BoundedScripts
<1>2. ToMake' = ToMake
  BY <1>1 DEF ToMake
<1>3. Known' = Known
  BY <1>2 DEF Known
<1> QED BY <1>2, <1>3 DEF Grown

LEMMA OpenFileStep ==
    ASSUME NEW V, CorpusInv(V), NEW t \in Tools, OpenFile(t)
    PROVE  Grown(V, V) /\ CorpusInv(V)'
<1> DEFINE f == Head(tool[t].out).file
<1>1. /\ tool[t].out # <<>> /\ UNCHANGED runs
      /\ files' = [files EXCEPT ![f] = Torn] /\ tool' = [tool EXCEPT ![t].open = TRUE]
  BY DEF OpenFile
<1>2. /\ DOMAIN tool' = Tools /\ DOMAIN tool'[t] = Fields /\ tool'[t].open = TRUE
      /\ tool'[t].out = tool[t].out /\ tool'[t].pc = tool[t].pc /\ tool'[t].lang = tool[t].lang
      /\ \A u \in Tools \ {t} : tool'[u] = tool[u]
  BY <1>1 DEF CorpusInv, Shape, ScriptOK, Fields
<1>3. /\ f \in FileNames /\ Owner(f) = t /\ 1 \in DOMAIN tool[t].out /\ f = tool[t].out[1].file
  BY <1>1, NextWrite DEF WriteOK
<1>4. /\ DOMAIN files' = FileNames /\ files'[f] = Torn
      /\ \A g \in FileNames \ {f} : files'[g] = files[g]
  BY <1>1, <1>3 DEF CorpusInv, Shape
<1>5. ToMake' = ToMake /\ Known' = Known /\ Grown(V, V)
  BY <1>1, <1>2, SameKnown
<1> HIDE DEF f
<1>6. ASSUME NEW u \in Tools PROVE ScriptOK(u)'
  <2>1. ScriptOK(u)
    BY DEF CorpusInv, Shape
  <2>2. CASE u = t
    BY <2>1, <2>2, <1>1, <1>2, <1>4 DEF ScriptOK, f
  <2>3. CASE u # t
    <3>1. tool[u].open => files'[Head(tool[u].out).file] = Torn
      <4>1. ASSUME tool[u].open PROVE Head(tool[u].out).file \in FileNames
        BY <2>1, <4>1, NextWrite DEF WriteOK, ScriptOK
      <4> QED BY <4>1, <2>1, <1>4 DEF ScriptOK
    <3> QED BY <2>1, <2>3, <3>1, <1>1, <1>2 DEF ScriptOK
  <2> QED BY <2>2, <2>3
<1>7. ASSUME NEW u \in Tools PROVE WritesOK(V, u)'
  <2>1. tool'[u].out = tool[u].out /\ WritesOK(V, u)
    BY <1>2 DEF CorpusInv
  <2> QED BY <2>1, <1>1, <1>5 DEF WritesOK
<1>8. FilesOK(V)'
  <2>1. ASSUME NEW g \in FileNames, files'[g] \notin {Absent, Torn}
        PROVE  Contents(V, Known, g, files'[g])
    <3>1. g # f /\ files'[g] = files[g]
      BY <2>1, <1>4
    <3> QED BY <3>1, <2>1 DEF CorpusInv, FilesOK, Readable
  <2> QED BY <2>1, <1>5 DEF FilesOK, Readable
<1>9. Progress(V)'
  <2>1. \A g \in FileNames : Pending(g)' <=> Pending(g)
    BY <1>2, BoundedScripts DEF Pending
  <2>2. /\ tool'["preprocess"].pc = tool["preprocess"].pc /\ Progress(V)
    BY <1>2, BoundedScripts DEF CorpusInv
  <2>3. ASSUME NEW g \in Versioned, Written(g) \/ Pending(g) PROVE Written(g)' \/ Pending(g)'
    <3>1. g \in FileNames
      BY DEF Versioned, Kinds, FileNames
    <3>2. CASE g = f
      <4>1. t = "preprocess"
        BY <3>2, <1>3 DEF Versioned, Kinds, Owner
      <4> QED BY <4>1, <3>1, <3>2, <1>3, <2>1 DEF Pending
    <3>3. CASE g # f
      <4>1. files'[g] = files[g]
        BY <3>1, <3>3, <1>4
      <4> QED BY <4>1, <3>1, <2>1, <2>3, <1>1 DEF Written, Readable
    <3> QED BY <3>2, <3>3
  <2> QED BY <2>2, <2>3, <1>1, <1>5 DEF Progress
<1>10. FileNames' = FileNames
  BY DEF FileNames, ResultFiles, Embeddings, Report
<1> QED BY <1>1, <1>2, <1>4, <1>5, <1>6, <1>7, <1>8, <1>9, <1>10 DEF CorpusInv, Shape

\* What is written can be read.
LEMMA ContentsAreReadable ==
    ASSUME NEW V, VersionsAreClean(V), NEW known, \A l \in Langs \cup {All} : known[l] \subseteq Nat,
           NEW f, f[1] = "raw" \/ f \in Versioned, NEW n \in Nat, NEW data,
           data = [run |-> n, rows |-> data.rows], Contents(V, known, f, data)
    PROVE  data \notin {Absent, Torn}
<1>1. data.run = n
  OBVIOUS
<1>2. data.rows \in Seq(Pages) \cup Seq(Document) \cup Seq(Langs \X Nat)
  <2>1. CASE f[1] = "raw"
    <3>1. data.rows \in Collected
      BY <2>1 DEF Contents
    <3>2. \A m \in Nat : [1 .. m -> Pages] \subseteq Seq(Pages)
      <4>1. Seq(Pages) = UNION {[1 .. m -> Pages] : m \in Nat}
        BY SeqDef, Zenon
      <4> QED BY ONLY <4>1, Zenon
    <3>3. PICK m \in 0 .. NumArticles : data.rows \in [1 .. m -> Pages]
      <4> DEFINE rows == data.rows
      <4>1. rows \in SeqOf(Pages, NumArticles)
        BY <3>1, Zenon DEF Collected
      <4>2. rows \in UNION {[1 .. m -> Pages] : m \in 0 .. NumArticles}
        BY <4>1, Zenon DEF SeqOf
      <4> HIDE DEF rows
      <4>3. \E m \in 0 .. NumArticles : rows \in [1 .. m -> Pages]
        BY ONLY <4>2, Zenon
      <4> QED BY <4>3 DEF rows
    <3>4. m \in Nat
      OBVIOUS
    <3>5. data.rows \in Seq(Pages)
      BY <3>2, <3>3, <3>4, Zenon
    <3> QED BY <3>5, Zenon
  <2>2. CASE f \in Versioned
    <3>1. data.rows = V[f][n] /\ f = <<f[1], f[2]>> /\ f[1] \in Kinds /\ f[2] \in Langs \cup {All}
      BY <2>2, <1>1 DEF Contents, Versioned
    <3>2. CleanSplit(f[2], V[<<"train", f[2]>>][n], V[<<"test", f[2]>>][n], V[<<"queries", f[2]>>][n])
      BY <3>1 DEF VersionsAreClean, TrainFile, TestFile, QueriesFile
    <3>3. /\ V[<<"train", f[2]>>][n] \in Seq(Document) /\ V[<<"test", f[2]>>][n] \in Seq(Document)
          /\ V[<<"queries", f[2]>>][n] \in Seq(Langs \X Nat)
      BY <3>2 DEF CleanSplit
    <3>4. f[1] = "train" \/ f[1] = "test" \/ f[1] = "queries"
      BY <3>1 DEF Kinds
    <3> QED BY <3>1, <3>3, <3>4
  <2> QED BY <2>1, <2>2
<1>3. data \in [run : Nat, rows : Seq(Pages) \cup Seq(Document) \cup Seq(Langs \X Nat)]
  BY <1>2
<1> QED BY <1>3, MarksAreNoContents

LEMMA CloseFileStep ==
    ASSUME NEW V, CorpusInv(V), NEW t \in Tools, CloseFile(t)
    PROVE  Grown(V, V) /\ CorpusInv(V)'
<1> DEFINE out == tool[t].out
           f == Head(out).file
           data == Head(out).data
<1>1. /\ tool[t].open = TRUE /\ out # <<>> /\ UNCHANGED runs
      /\ files' = [files EXCEPT ![f] = data]
      /\ tool' = [tool EXCEPT ![t].open = FALSE, ![t].out = Tail(@)]
  BY DEF CloseFile, CorpusInv, Shape, ScriptOK
<1>2. /\ DOMAIN tool' = Tools /\ DOMAIN tool'[t] = Fields /\ tool'[t].open = FALSE
      /\ tool'[t].out = Tail(out) /\ tool'[t].pc = tool[t].pc /\ tool'[t].lang = tool[t].lang
      /\ \A u \in Tools \ {t} : tool'[u] = tool[u]
  BY <1>1 DEF CorpusInv, Shape, ScriptOK, Fields
<1>3. /\ f \in FileNames /\ Owner(f) = t /\ 1 \in DOMAIN out /\ f = out[1].file
      /\ data = [run |-> runs[t], rows |-> data.rows] /\ Contents(V, Known, f, data)
  BY <1>1, NextWrite DEF WriteOK
<1>4. /\ DOMAIN files' = FileNames /\ files'[f] = data
      /\ \A g \in FileNames \ {f} : files'[g] = files[g]
  BY <1>1, <1>3 DEF CorpusInv, Shape
<1>5. ToMake' = ToMake /\ Known' = Known /\ Grown(V, V)
  BY <1>1, <1>2, SameKnown
<1>6. /\ Tail(out) \in Seq(Range(Tail(out)))
      /\ \A i \in DOMAIN Tail(out) : i + 1 \in DOMAIN out /\ Tail(out)[i] = out[i + 1]
      /\ \A i \in DOMAIN out : i = 1 \/ \E j \in DOMAIN Tail(out) : i = j + 1
  BY <1>1, HeadAndTail DEF CorpusInv, Shape, ScriptOK
<1> HIDE DEF f, data, out
<1>7. ASSUME NEW u \in Tools PROVE ScriptOK(u)'
  <2>1. ScriptOK(u)
    BY DEF CorpusInv, Shape
  <2>2. CASE u = t
    <3>1. tool[t].pc \notin Stopped
      BY <2>1, <2>2, <1>1 DEF ScriptOK, out
    <3> QED BY <2>1, <2>2, <3>1, <1>1, <1>2, <1>6 DEF ScriptOK
  <2>3. CASE u # t
    <3>1. ASSUME tool[u].open PROVE files'[Head(tool[u].out).file] = Torn
      <4>1. Head(tool[u].out).file \in FileNames /\ Owner(Head(tool[u].out).file) = u
        BY <2>1, <3>1, NextWrite DEF WriteOK, ScriptOK
      <4>2. Head(tool[u].out).file # f
        BY <4>1, <2>3, <1>3
      <4> QED BY <4>1, <4>2, <2>1, <3>1, <1>4 DEF ScriptOK
    <3> QED BY <2>1, <2>3, <3>1, <1>1, <1>2 DEF ScriptOK
  <2> QED BY <2>2, <2>3
<1>8. ASSUME NEW u \in Tools PROVE WritesOK(V, u)'
  <2>1. WritesOK(V, u)
    BY DEF CorpusInv
  <2>2. CASE u = t
    <3>1. ASSUME NEW i \in DOMAIN Tail(out) PROVE WriteOK(V, Known, t, runs[t], Tail(out)[i])
      BY <2>1, <2>2, <1>6 DEF WritesOK, out
    <3> QED BY <2>2, <3>1, <1>1, <1>2, <1>5 DEF WritesOK
  <2>3. CASE u # t
    <3>1. tool'[u].out = tool[u].out
      BY <2>3, <1>2
    <3> QED BY <2>1, <3>1, <1>1, <1>5 DEF WritesOK
  <2> QED BY <2>2, <2>3
<1>9. FilesOK(V)'
  <2>1. ASSUME NEW g \in FileNames, files'[g] \notin {Absent, Torn}
        PROVE  Contents(V, Known, g, files'[g])
    <3>1. CASE g = f
      BY <3>1, <1>3, <1>4
    <3>2. CASE g # f
      <4>1. files'[g] = files[g]
        BY <3>2, <1>4
      <4> QED BY <4>1, <2>1 DEF CorpusInv, FilesOK, Readable
    <3> QED BY <3>1, <3>2
  <2> QED BY <2>1, <1>5 DEF FilesOK, Readable
<1>10. Progress(V)'
  <2>1. tool'["preprocess"].pc = tool["preprocess"].pc /\ Progress(V)
    BY <1>2, BoundedScripts DEF CorpusInv
  <2>2. ASSUME NEW g \in Versioned, Written(g) \/ Pending(g) PROVE Written(g)' \/ Pending(g)'
    <3>1. g \in FileNames /\ (g = f => t = "preprocess")
      BY <1>3 DEF Versioned, Kinds, FileNames, Owner
    <3>2. CASE g = f
      <4>1. runs[t] \in Nat /\ \A l \in Langs \cup {All} : Known[l] \subseteq Nat
        BY BoundedScripts DEF Known, CorpusInv, Shape, ScriptOK
      <4>2. data \notin {Absent, Torn}
        BY <4>1, <3>2, <1>3, ContentsAreReadable DEF CorpusInv
      <4>3. files'[g].run = runs'["preprocess"]
        <5>1. data.run = runs[t]
          BY <1>3
        <5> QED BY <5>1, <3>1, <3>2, <1>1, <1>4
      <4> QED BY <4>2, <4>3, <3>2, <1>4 DEF Written, Readable
    <3>3. CASE g # f /\ Written(g)
      <4>1. files'[g] = files[g]
        BY <3>1, <3>3, <1>4
      <4> QED BY <4>1, <3>3, <1>1 DEF Written, Readable
    <3>4. CASE g # f /\ Pending(g)
      <4>1. PICK i \in DOMAIN tool["preprocess"].out : tool["preprocess"].out[i].file = g
        BY <3>4 DEF Pending
      <4>2. CASE t = "preprocess"
        <5>1. i \in DOMAIN out /\ i # 1
          BY <4>1, <4>2, <3>4, <1>3 DEF out
        <5>2. PICK j \in DOMAIN Tail(out) : i = j + 1
          BY <5>1, <1>6
        <5>3. Tail(out)[j].file = g
          BY <5>2, <4>1, <4>2, <1>6 DEF out
        <5> QED BY <5>2, <5>3, <4>2, <1>2 DEF Pending
      <4>3. CASE t # "preprocess"
        <5>1. tool'["preprocess"] = tool["preprocess"]
          BY <4>3, <1>2, BoundedScripts
        <5> QED BY <5>1, <4>1 DEF Pending
      <4> QED BY <4>2, <4>3
    <3> QED BY <2>2, <3>2, <3>3, <3>4
  <2> QED BY <2>1, <2>2, <1>1, <1>5 DEF Progress
<1>11. FileNames' = FileNames
  BY DEF FileNames, ResultFiles, Embeddings, Report
<1> QED BY <1>1, <1>2, <1>4, <1>5, <1>7, <1>8, <1>9, <1>10, <1>11 DEF CorpusInv, Shape

LEMMA BlankMemory ==
    /\ DOMAIN Blank = Fields /\ Blank.open = FALSE /\ Blank.out = <<>> /\ Blank.lang = 1
    /\ Blank.pc = "idle" /\ 1 \in 1 .. Len(Languages)
    /\ \A pc : LET b == [Blank EXCEPT !.pc = pc] IN
               DOMAIN b = Fields /\ b.open = FALSE /\ b.out = <<>> /\ b.lang = 1 /\ b.pc = pc
  BY LanguageNumbers DEF Blank, Fields

LEMMA StopShape ==
    ASSUME NEW V, CorpusInv(V), NEW t \in Tools, NEW outcome, Stop(t, outcome), UNCHANGED runs,
           tool[t].pc # "idle"
    PROVE  /\ Only(t) /\ ScriptOK(t)' /\ \A W : WritesOK(W, t)'
           /\ tool'[t].pc = outcome /\ tool'[t].out = <<>>
<1>1. /\ DOMAIN tool' = Tools /\ tool'[t] = [Blank EXCEPT !.pc = outcome]
      /\ \A u \in Tools \ {t} : tool'[u] = tool[u]
  BY DEF Stop, CorpusInv, Shape
<1>2. /\ DOMAIN tool'[t] = Fields /\ tool'[t].open = FALSE /\ tool'[t].out = <<>>
      /\ tool'[t].lang \in 1 .. Len(Languages) /\ tool'[t].pc = outcome
  BY <1>1, BlankMemory
<1>3. runs'[t] \in 0 .. MaxRuns[t] /\ runs'[t] >= 1 /\ DOMAIN runs' = Tools
  BY DEF CorpusInv, Shape, ScriptOK
<1>4. ScriptOK(t)'
  BY <1>2, <1>3, ShortSequences DEF ScriptOK
<1> QED BY <1>1, <1>2, <1>3, <1>4, ShortSequences DEF Only, WritesOK

LEMMA OtherStops ==
    ASSUME NEW V, CorpusInv(V), NEW t \in Tools, t # "preprocess", NEW outcome,
           Stop(t, outcome), UNCHANGED <<files, runs>>, tool[t].pc # "idle"
    PROVE  Grown(V, V) /\ CorpusInv(V)'
  BY StopShape, OtherScriptStep

LEMMA PreprocessStops ==
    ASSUME NEW V, CorpusInv(V), NEW outcome, Stop("preprocess", outcome),
           UNCHANGED <<files, runs>>, tool["preprocess"].pc # "idle",
           \/ outcome \in Stopped \ {"done"}
           \/ outcome = "done" /\ At("preprocess", "finish")
    PROVE  Grown(V, V) /\ CorpusInv(V)'
<1>1. /\ Only("preprocess") /\ ScriptOK("preprocess")' /\ WritesOK(V, "preprocess")'
      /\ tool'["preprocess"].pc = outcome /\ tool'["preprocess"].out = <<>>
  BY StopShape, BoundedScripts
<1>2. outcome \notin {"process", "stats", "combine", "finish"}
  BY DEF Stopped, Errors
<1>3. ToMake' = {}
  BY <1>1, <1>2 DEF ToMake
<1>4. runs["preprocess"] \in Nat
  BY BoundedScripts DEF CorpusInv, Shape, ScriptOK
<1>5. Grown(V, V)
  <2>1. \A l \in Langs \cup {All} : Known[l] \subseteq Known'[l]
    BY <1>3, <1>4 DEF Known
  <2> QED BY <2>1 DEF Grown
<1>6. Progress(V)'
  <2>1. CASE outcome # "done"
    BY <2>1, <1>1, <1>2 DEF Progress
  <2>2. CASE outcome = "done"
    <3>1. tool["preprocess"].pc = "finish" /\ tool["preprocess"].out = <<>> /\ Progress(V)
      BY <2>2 DEF At, CorpusInv
    <3>2. ToMake = {}
      BY <3>1 DEF ToMake
    <3>3. \A f \in Versioned : Written(f)
      BY <3>1, <3>2, ShortSequences DEF Progress, Pending
    <3>4. \A f \in Versioned : Written(f)'
      BY <3>3 DEF Written, Readable
    <3> QED BY <2>2, <3>1, <3>4, <1>1 DEF Progress
  <2> QED BY <2>1, <2>2
<1> QED BY <1>1, <1>5, <1>6, ScriptStep, BoundedScripts DEF CorpusInv

LEMMA InterruptStep ==
    ASSUME NEW V, CorpusInv(V), NEW t \in Tools, Interrupt(t)
    PROVE  Grown(V, V) /\ CorpusInv(V)'
<1>1. Stop(t, "interrupted") /\ UNCHANGED <<files, runs>> /\ tool[t].pc # "idle"
  BY DEF Interrupt, Stopped
<1>2. CASE t = "preprocess"
  BY <1>1, <1>2, PreprocessStops DEF Stopped
<1>3. CASE t # "preprocess"
  BY <1>1, <1>3, OtherStops
<1> QED BY <1>2, <1>3

LEMMA StartShape ==
    ASSUME NEW V, CorpusInv(V), NEW t \in Tools, NEW memory, Start(t, memory),
           DOMAIN memory = Fields, memory.open = FALSE, memory.out = <<>>,
           memory.lang = 1
    PROVE  /\ Only(t) /\ ScriptOK(t)' /\ \A W : WritesOK(W, t)'
           /\ tool'[t] = memory /\ runs'[t] = runs[t] + 1 /\ UNCHANGED files
<1>1. /\ DOMAIN tool' = Tools /\ tool'[t] = memory /\ DOMAIN runs' = Tools /\ UNCHANGED files
      /\ \A u \in Tools \ {t} : tool'[u] = tool[u] /\ runs'[u] = runs[u]
      /\ runs'[t] = runs[t] + 1 /\ runs[t] < MaxRuns[t]
  BY DEF Start, CorpusInv, Shape
<1>2. runs'[t] \in 0 .. MaxRuns[t] /\ runs'[t] >= 1
  <2>1. runs[t] \in 0 .. MaxRuns[t] /\ MaxRuns[t] \in Nat
    BY BoundedScripts DEF CorpusInv, Shape, ScriptOK
  <2> QED BY <1>1, <2>1
<1>3. ScriptOK(t)'
  BY <1>1, <1>2, BlankMemory, ShortSequences DEF ScriptOK
<1> QED BY <1>1, <1>3, ShortSequences DEF Only, WritesOK

LEMMA OtherStarts ==
    ASSUME NEW V, CorpusInv(V), NEW t \in Tools, t # "preprocess", NEW memory, Start(t, memory),
           DOMAIN memory = Fields, memory.open = FALSE, memory.out = <<>>,
           memory.lang = 1
    PROVE  Grown(V, V) /\ CorpusInv(V)'
  BY StartShape, OtherScriptStep

LEMMA PreprocessStarts ==
    ASSUME NEW V, CorpusInv(V), StartPreprocess
    PROVE  Grown(V, V) /\ CorpusInv(V)'
<1> DEFINE memory == [Blank EXCEPT !.pc = "process"]
<1>1. /\ DOMAIN memory = Fields /\ memory.open = FALSE /\ memory.out = <<>>
      /\ memory.lang = 1 /\ memory.pc = "process"
  BY BlankMemory
<1> HIDE DEF memory
<1>2. Start("preprocess", memory)
  BY DEF StartPreprocess, memory
<1>3. /\ Only("preprocess") /\ ScriptOK("preprocess")' /\ WritesOK(V, "preprocess")'
      /\ tool'["preprocess"] = memory /\ UNCHANGED files
      /\ runs'["preprocess"] = runs["preprocess"] + 1
  BY <1>1, <1>2, StartShape, BoundedScripts
<1>4. runs["preprocess"] \in Nat
  BY BoundedScripts DEF CorpusInv, Shape, ScriptOK
<1>5. \A l \in Langs \cup {All} : l \in ToMake'
  <2>1. ToMake' = {Languages[j] : j \in 1 .. Len(Languages)} \cup {All}
    BY <1>1, <1>3 DEF ToMake
  <2> QED BY <2>1, LanguageNumbers
<1>6. \A l \in Langs \cup {All} : Known[l] \subseteq Known'[l]
  BY <1>3, <1>4, <1>5 DEF Known
<1>7. Grown(V, V)
  BY <1>6 DEF Grown
<1>8. Progress(V)'
  <2>1. \A f \in Versioned : f[2] \in ToMake'
    BY <1>5 DEF Versioned
  <2> QED BY <2>1, <1>1, <1>3 DEF Progress
<1> QED BY <1>3, <1>7, <1>8, ScriptStep, BoundedScripts DEF CorpusInv

\* A script that has nothing open computes, and leaves something to write.
LEMMA ComputeShape ==
    ASSUME NEW V, CorpusInv(V), NEW t \in Tools, NEW pc, At(t, pc), pc # "idle", UNCHANGED runs,
           DOMAIN tool' = Tools, \A u \in Tools \ {t} : tool'[u] = tool[u],
           DOMAIN tool'[t] = Fields, tool'[t].open = tool[t].open,
           tool'[t].lang \in 1 .. Len(Languages), tool'[t].out \in Seq(Range(tool'[t].out)),
           tool'[t].pc \notin Stopped \/ tool'[t].out = <<>>
    PROVE  Only(t) /\ ScriptOK(t)'
<1>1. tool[t].pc = pc /\ tool[t].open = FALSE /\ ScriptOK(t) /\ DOMAIN runs = Tools
  BY DEF At, CorpusInv, Shape, ScriptOK
<1>2. ScriptOK(t)'
  BY <1>1 DEF ScriptOK
<1> QED BY <1>1, <1>2 DEF Only

LEMMA OtherComputes ==
    ASSUME NEW V, CorpusInv(V), NEW t \in Tools, t # "preprocess", NEW pc, At(t, pc), pc # "idle",
           UNCHANGED <<files, runs>>,
           DOMAIN tool' = Tools, \A u \in Tools \ {t} : tool'[u] = tool[u],
           DOMAIN tool'[t] = Fields, tool'[t].open = tool[t].open,
           tool'[t].lang \in 1 .. Len(Languages), tool'[t].out \in Seq(Range(tool'[t].out)),
           tool'[t].pc \notin Stopped \/ tool'[t].out = <<>>, WritesOK(V, t)'
    PROVE  Grown(V, V) /\ CorpusInv(V)'
<1>1. Only(t) /\ ScriptOK(t)'
  BY ComputeShape
<1> QED BY <1>1, OtherScriptStep

\* What the step to the next language does.
LEMMA NextLanguageShape ==
    ASSUME NEW V, CorpusInv(V), NEW t \in Tools, NEW after, NextLanguage(t, after),
           after[2] = "done" => \A outcome : ~Stop(t, outcome)
    PROVE  /\ DOMAIN tool' = Tools /\ \A u \in Tools \ {t} : tool'[u] = tool[u]
           /\ DOMAIN tool'[t] = Fields /\ tool'[t].open = tool[t].open /\ tool'[t].out = tool[t].out
           /\ tool'[t].lang \in 1 .. Len(Languages)
           /\ \/ tool'[t].pc = after[1] /\ tool'[t].lang = tool[t].lang + 1
              \/ /\ tool'[t].pc = after[2] /\ tool'[t].lang = tool[t].lang
                 /\ tool[t].lang = Len(Languages)
<1>1. DOMAIN tool = Tools /\ ScriptOK(t)
  BY DEF CorpusInv, Shape
<1>2. tool[t].lang \in 1 .. Len(Languages) /\ Len(Languages) \in Nat
  BY <1>1, LanguageNumbers DEF ScriptOK
<1>3. CASE tool[t].lang < Len(Languages)
  <2>1. tool' = [tool EXCEPT ![t].lang = @ + 1, ![t].pc = after[1]]
    BY <1>3 DEF NextLanguage
  <2>2. tool[t].lang + 1 \in 1 .. Len(Languages)
    BY <1>2, <1>3
  <2> QED BY <2>1, <2>2, <1>1 DEF ScriptOK, Fields
<1>4. CASE ~(tool[t].lang < Len(Languages))
  <2>1. tool' = [tool EXCEPT ![t].pc = after[2]]
    BY <1>4 DEF NextLanguage
  <2>2. tool[t].lang = Len(Languages)
    BY <1>2, <1>4
  <2> QED BY <2>1, <2>2, <1>1, <1>2 DEF ScriptOK, Fields
<1> QED BY <1>3, <1>4

-----------------------------------------------------------------------------
(* The actions of data_collection.py.                                      *)

LEMMA CollectStep ==
    ASSUME NEW V, CorpusInv(V), collect_all_languages
    PROVE  Grown(V, V) /\ CorpusInv(V)'
<1>0. "collect" \in Tools /\ "collect" # "preprocess"
  BY BoundedScripts
<1>1. CASE StartCollect
  <2>1. PICK langs \in Asks :
          Start("collect", [Blank EXCEPT !.pc = "collect", !.asked = langs])
    BY <1>1 DEF StartCollect
  <2> DEFINE memory == [Blank EXCEPT !.pc = "collect", !.asked = langs]
  <2>2. DOMAIN memory = Fields /\ memory.open = FALSE /\ memory.out = <<>> /\ memory.lang = 1
    BY DEF Blank, Fields
  <2> HIDE DEF memory
  <2>3. Start("collect", memory)
    BY <2>1 DEF memory
  <2> QED BY <2>2, <2>3, <1>0, OtherStarts
<1>2. CASE CollectArticles
  <2> DEFINE f == Raw(Language("collect"))
  <2>1. PICK articles \in Collected :
          tool' = [tool EXCEPT !["collect"].pc = "stats", !["collect"].docs = articles,
                    !["collect"].out = <<Write("collect", f, articles)>>]
    BY <1>2 DEF CollectArticles
  <2> DEFINE w == Write("collect", f, articles)
  <2>2. At("collect", "collect") /\ UNCHANGED <<files, runs>>
    BY <1>2 DEF CollectArticles
  <2>3. /\ DOMAIN tool' = Tools /\ \A u \in Tools \ {"collect"} : tool'[u] = tool[u]
        /\ DOMAIN tool'["collect"] = Fields /\ tool'["collect"].open = tool["collect"].open
        /\ tool'["collect"].out = <<w>> /\ tool'["collect"].pc = "stats"
        /\ tool'["collect"].lang = tool["collect"].lang
    BY <2>1, <1>0 DEF CorpusInv, Shape, ScriptOK, Fields
  <2>4. tool["collect"].lang \in 1 .. Len(Languages) /\ runs["collect"] \in Nat
    BY <1>0, BoundedScripts DEF CorpusInv, Shape, ScriptOK
  <2>5. f \in FileNames /\ f[1] = "raw"
    <3>1. Language("collect") \in Langs
      BY <2>4, LanguageNumbers DEF Language
    <3> QED BY <3>1 DEF Raw, FileNames
  <2>6. w.file = f /\ w.data = [run |-> runs["collect"], rows |-> articles]
    BY DEF Write
  <2> HIDE DEF w, f
  <2>7. WriteOK(V, Known', "collect", runs["collect"], w)
    <3>1. f \notin Versioned /\ Owner(f) = "collect"
      BY <2>5 DEF Versioned, Kinds, Owner
    <3> QED BY <3>1, <2>4, <2>5, <2>6 DEF WriteOK, Contents
  <2>8. WritesOK(V, "collect")'
    BY <2>2, <2>3, <2>7, ShortSequences DEF WritesOK
  <2>9. "stats" \notin Stopped
    BY DEF Stopped, Errors
  <2>10. tool'["collect"].out \in Seq(Range(tool'["collect"].out))
    BY <2>3, ShortSequences
  <2> QED BY <2>2, <2>3, <2>4, <2>8, <2>9, <2>10, <1>0, OtherComputes
<1>3. CASE CollectStats
  <2>1. At("collect", "stats") /\ UNCHANGED <<files, runs>> /\ tool["collect"].pc # "idle"
    BY <1>3 DEF CollectStats, At
  <2>2. CASE \E outcome : Stop("collect", outcome)
    BY <2>1, <2>2, <1>0, OtherStops
  <2>3. CASE \A outcome : ~Stop("collect", outcome)
    <3>1. NextLanguage("collect", <<"collect", "done">>)
      BY <1>3, <2>3 DEF CollectStats
    <3>2. /\ DOMAIN tool' = Tools /\ \A u \in Tools \ {"collect"} : tool'[u] = tool[u]
          /\ DOMAIN tool'["collect"] = Fields /\ tool'["collect"].open = tool["collect"].open
          /\ tool'["collect"].out = tool["collect"].out
          /\ tool'["collect"].lang \in 1 .. Len(Languages)
      BY <3>1, <2>3, <1>0, NextLanguageShape
    <3>3. tool'["collect"].out = <<>>
      BY <3>2, <2>1 DEF At
    <3>4. WritesOK(V, "collect")'
      BY <3>3, ShortSequences DEF WritesOK
    <3> QED BY <2>1, <3>2, <3>3, <3>4, <1>0, ShortSequences, OtherComputes
  <2> QED BY <2>2, <2>3
<1> QED BY <1>1, <1>2, <1>3 DEF collect_all_languages

-----------------------------------------------------------------------------
(* The actions of preprocessing.py.                                        *)

\* The versions with those that run n makes of one language, or of all.
Adds(later, versions, l, n, train, test, queries) ==
    /\ VersionsAreClean(later)
    /\ later[<<"train", l>>][n] = train /\ later[<<"test", l>>][n] = test
    /\ later[<<"queries", l>>][n] = queries
    /\ \A kind \in Kinds, m \in Langs \cup {All}, i \in Nat :
          m # l \/ i # n => later[<<kind, m>>][i] = versions[<<kind, m>>][i]

LEMMA NewVersions ==
    ASSUME NEW V \in Versions, VersionsAreClean(V), NEW l \in Langs \cup {All}, NEW n \in Nat,
           NEW train, NEW test, NEW queries, CleanSplit(l, train, test, queries)
    PROVE  \E W \in Versions : Adds(W, V, l, n, train, test, queries)
<1> DEFINE New(kind) == CASE kind = "train"   -> train
                          [] kind = "test"    -> test
                          [] kind = "queries" -> queries
           W == [f \in Versioned |-> [i \in Nat |-> IF f[2] = l /\ i = n THEN New(f[1])
                                                    ELSE V[f][i]]]
<1>1. /\ train \in Seq(Document) /\ test \in Seq(Document) /\ queries \in Seq(Langs \X Nat)
      /\ New("train") = train /\ New("test") = test /\ New("queries") = queries
  BY DEF CleanSplit
<1>2. \A kind \in Kinds : New(kind) \in Seq(Document) \cup Seq(Langs \X Nat)
  BY <1>1 DEF Kinds
<1> HIDE DEF New
<1>3. \A kind \in Kinds, m \in Langs \cup {All}, i \in Nat :
         /\ m = l /\ i = n => W[<<kind, m>>][i] = New(kind)
         /\ m # l \/ i # n => W[<<kind, m>>][i] = V[<<kind, m>>][i]
  BY DEF Versioned
<1>4. W \in Versions
  <2>1. ASSUME NEW f \in Versioned, NEW i \in Nat
        PROVE  W[f][i] \in Seq(Document) \cup Seq(Langs \X Nat)
    <3>1. f[1] \in Kinds
      BY DEF Versioned
    <3>2. V[f][i] \in Seq(Document) \cup Seq(Langs \X Nat)
      BY DEF Versions
    <3> QED BY <1>2, <3>1, <3>2
  <2> QED BY <2>1 DEF Versions
<1> HIDE DEF W
<1>5. VersionsAreClean(W)
  <2>1. ASSUME NEW m \in Langs \cup {All}, NEW i \in Nat
        PROVE  CleanSplit(m, W[<<"train", m>>][i], W[<<"test", m>>][i], W[<<"queries", m>>][i])
    <3>1. "train" \in Kinds /\ "test" \in Kinds /\ "queries" \in Kinds
      BY DEF Kinds
    <3>2. CASE m = l /\ i = n
      <4>1. /\ W[<<"train", m>>][i] = train /\ W[<<"test", m>>][i] = test
            /\ W[<<"queries", m>>][i] = queries
        BY <1>1, <1>3, <3>1, <3>2
      <4> QED BY <4>1, <3>2
    <3>3. CASE m # l \/ i # n
      <4>1. /\ W[<<"train", m>>][i] = V[<<"train", m>>][i]
            /\ W[<<"test", m>>][i] = V[<<"test", m>>][i]
            /\ W[<<"queries", m>>][i] = V[<<"queries", m>>][i]
        BY <1>3, <3>1, <3>3
      <4>2. CleanSplit(m, V[<<"train", m>>][i], V[<<"test", m>>][i], V[<<"queries", m>>][i])
        BY DEF VersionsAreClean, TrainFile, TestFile, QueriesFile
      <4> QED BY <4>1, <4>2
    <3> QED BY <3>2, <3>3
  <2> QED BY <2>1 DEF VersionsAreClean, TrainFile, TestFile, QueriesFile
<1>6. /\ W[<<"train", l>>][n] = train /\ W[<<"test", l>>][n] = test
      /\ W[<<"queries", l>>][n] = queries
  BY <1>1, <1>3 DEF Kinds
<1>7. Adds(W, V, l, n, train, test, queries)
  BY <1>3, <1>5, <1>6 DEF Adds
<1> QED BY <1>4, <1>7

\* preprocessing.py has made a new version: of one language l, or of all of them.
LEMMA MakingStep ==
    ASSUME NEW V, CorpusInv(V), NEW W \in Versions,
           NEW l \in Langs \cup {All}, NEW pc, At("preprocess", pc), pc # "idle",
           NEW train, NEW test, NEW queries,
           Adds(W, V, l, runs["preprocess"], train, test, queries),
           UNCHANGED <<files, runs>>, DOMAIN tool' = Tools,
           \A u \in Tools \ {"preprocess"} : tool'[u] = tool[u],
           DOMAIN tool'["preprocess"] = Fields,
           tool'["preprocess"].open = tool["preprocess"].open,
           tool'["preprocess"].lang = tool["preprocess"].lang,
           pc \in {"process", "combine"}, tool'["preprocess"].pc \in {"stats", "finish"},
           l \in ToMake, ToMake' = ToMake \ {l},
           tool'["preprocess"].out = <<Write("preprocess", <<"train", l>>, train),
                                       Write("preprocess", <<"test", l>>, test),
                                       Write("preprocess", <<"queries", l>>, queries)>>,
           tool'["preprocess"].pc = "finish" =>
              \A kind \in Kinds, m \in Langs :
                 Range(W[<<kind, m>>][runs["preprocess"]])
                    \subseteq Range(W[<<kind, All>>][runs["preprocess"]])
    PROVE  Grown(V, W) /\ CorpusInv(W)'
<1> DEFINE run == runs["preprocess"]
           u == Write("preprocess", <<"train", l>>, train)
           v == Write("preprocess", <<"test", l>>, test)
           w == Write("preprocess", <<"queries", l>>, queries)
           out == tool'["preprocess"].out
<1>0. /\ VersionsAreClean(W)
      /\ W[<<"train", l>>][run] = train /\ W[<<"test", l>>][run] = test
      /\ W[<<"queries", l>>][run] = queries
      /\ \A kind \in Kinds, m \in Langs \cup {All}, i \in Nat :
            m # l \/ i # run => W[<<kind, m>>][i] = V[<<kind, m>>][i]
  BY DEF Adds
<1>1. "preprocess" \in Tools
  BY BoundedScripts
<1>2. /\ run \in Nat /\ run >= 1 /\ tool["preprocess"].out = <<>>
      /\ tool["preprocess"].pc = pc /\ tool["preprocess"].lang \in 1 .. Len(Languages)
  BY <1>1, BoundedScripts DEF CorpusInv, Shape, ScriptOK, At
<1>3. out = <<u, v, w>>
  OBVIOUS
<1>4. /\ u.file = <<"train", l>> /\ u.data = [run |-> run, rows |-> train]
      /\ v.file = <<"test", l>> /\ v.data = [run |-> run, rows |-> test]
      /\ w.file = <<"queries", l>> /\ w.data = [run |-> run, rows |-> queries]
  BY DEF Write
<1> HIDE DEF u, v, w, out
<1>5. out \in Seq(Range(out)) /\ DOMAIN out = {1, 2, 3} /\ out[1] = u /\ out[2] = v /\ out[3] = w
  BY <1>3, ShortSequences
<1>6. run \in Known'[l]
  BY <1>2 DEF Known
<1>7. Only("preprocess") /\ ScriptOK("preprocess")'
  <2>1. tool'["preprocess"].pc \notin Stopped
    BY DEF Stopped, Errors
  <2> QED BY <2>1, <1>1, <1>2, <1>5, ComputeShape DEF out
<1>8. Grown(V, W)
  <2>1. ASSUME NEW m \in Langs \cup {All}, NEW i \in Known[m], NEW kind \in Kinds
        PROVE  i \in Known'[m] /\ W[<<kind, m>>][i] = V[<<kind, m>>][i]
    <3>1. i \in Known'[m] /\ i \in Nat /\ (m # l \/ i # run)
      BY <1>2 DEF Known
    <3> QED BY <3>1, <1>0
  <2>2. ASSUME NEW m \in Langs \cup {All}, NEW i \in Known[m] PROVE i \in Known'[m]
    BY <1>2 DEF Known
  <2> QED BY <2>1, <2>2 DEF Grown
<1>9. WritesOK(W, "preprocess")'
  <2>1. \A kind \in Kinds : /\ <<kind, l>> \in FileNames /\ <<kind, l>> \in Versioned
                            /\ Owner(<<kind, l>>) = "preprocess" /\ kind # "raw"
    BY DEF Kinds, FileNames, Versioned, Owner
  <2>2. ASSUME NEW kind \in Kinds, NEW x, x.file = <<kind, l>>,
               x.data = [run |-> run, rows |-> W[<<kind, l>>][run]]
        PROVE  WriteOK(W, Known', "preprocess", run, x)
    <3>1. x.data.run = run /\ x.data.rows = W[<<kind, l>>][run]
      BY <2>2
    <3>2. Contents(W, Known', <<kind, l>>, x.data)
      BY <2>1, <3>1, <1>6 DEF Contents
    <3> QED BY <2>1, <2>2, <3>1, <3>2 DEF WriteOK
  <2>3. /\ WriteOK(W, Known', "preprocess", run, u) /\ WriteOK(W, Known', "preprocess", run, v)
        /\ WriteOK(W, Known', "preprocess", run, w)
    BY <2>2, <1>0, <1>4 DEF Kinds
  <2> QED BY <2>3, <1>5 DEF WritesOK, out
<1>10. Progress(W)'
  <2>1. ASSUME NEW f \in Versioned, f[2] \notin ToMake' PROVE Written(f)' \/ Pending(f)'
    <3>1. f = <<f[1], f[2]>> /\ f[1] \in Kinds
      BY DEF Versioned
    <3>2. CASE f[2] = l
      <4>1. f = u.file \/ f = v.file \/ f = w.file
        BY <3>1, <3>2, <1>4 DEF Kinds
      <4> QED BY <4>1, <1>5 DEF Pending, out
    <3>3. CASE f[2] # l
      <4>1. f[2] \notin ToMake
        BY <2>1, <3>3
      <4>2. Written(f)
        BY <4>1, <1>2, ShortSequences DEF CorpusInv, Progress, Pending
      <4> QED BY <4>2 DEF Written, Readable
    <3> QED BY <3>2, <3>3
  <2> QED BY <2>1 DEF Progress
<1> QED BY <1>0, <1>1, <1>7, <1>8, <1>9, <1>10, ScriptStep

LEMMA CollectedArticles ==
    ASSUME NEW articles \in Collected
    PROVE  articles \in Seq(Pages) /\ Len(articles) <= NumArticles
<1>1. PICK m \in 0 .. NumArticles : articles \in [1 .. m -> Pages]
  BY DEF Collected, SeqOf
<1>2. m \in Nat /\ m <= NumArticles
  BY <1>1, NumArticlesNat
<1>3. articles \in Seq(Pages)
  BY <1>1, <1>2, SeqDef
<1>4. Len(articles) = m
  BY <1>1, <1>2, <1>3, LenProperties
<1> QED BY <1>2, <1>3, <1>4

\* While a language is processed it has still to be made, and then no more.
LEMMA ToMakeOne ==
    ASSUME NEW V, CorpusInv(V), At("preprocess", "process"),
           tool'["preprocess"].pc = "stats",
           tool'["preprocess"].lang = tool["preprocess"].lang
    PROVE  LET l == Language("preprocess") IN
           l \in Langs /\ l \in ToMake /\ ToMake' = ToMake \ {l}
<1> DEFINE i == tool["preprocess"].lang
           N == Len(Languages)
           From(k) == {Languages[j] : j \in k .. N} \cup {All}
<1>1. i \in 1 .. N /\ N \in Nat /\ Language("preprocess") = Languages[i]
  BY LanguageNumbers, BoundedScripts DEF CorpusInv, Shape, ScriptOK, Language
<1>2. ToMake = From(i) /\ ToMake' = From(i + 1)
  BY DEF ToMake, At
<1>3. Languages[i] \in Langs /\ Languages[i] # All
  BY <1>1, LanguageNumbers, AllIsNoLanguage
<1>4. i .. N = {i} \cup (i + 1 .. N)
  BY <1>1
<1>5. \A j \in i + 1 .. N : Languages[j] # Languages[i]
  BY <1>1, LanguageNumbers
<1> QED BY <1>1, <1>2, <1>3, <1>4, <1>5

LEMMA ProcessLanguageStep ==
    ASSUME NEW V, CorpusInv(V), ProcessLanguage
    PROVE  \E W : Grown(V, W) /\ CorpusInv(W)'
<1> DEFINE l == Language("preprocess")
           run == runs["preprocess"]
<1>1. At("preprocess", "process") /\ UNCHANGED <<files, runs>> /\ tool["preprocess"].pc # "idle"
  BY DEF ProcessLanguage, At
<1>2. CASE ~Readable(Raw(l))
  <2>1. Stop("preprocess", ReadError(Raw(l)))
    BY <1>2 DEF ProcessLanguage
  <2>2. ReadError(Raw(l)) \in Stopped \ {"done"}
    BY DEF ReadError, Stopped, Errors
  <2> QED BY <1>1, <2>1, <2>2, PreprocessStops
<1>3. CASE Readable(Raw(l))
  <2> DEFINE df == process_articles(l, files[Raw(l)].rows)
             train == Train(df)
             test == Test(df)
             queries == generate_test_queries(Test(df))
  <2>1. tool' = [tool EXCEPT
                 !["preprocess"].pc = "stats", !["preprocess"].docs = df,
                 !["preprocess"].out =
                    <<Write("preprocess", TrainFile(l), train),
                      Write("preprocess", TestFile(l), test),
                      Write("preprocess", QueriesFile(l), queries)>>]
    BY <1>3 DEF ProcessLanguage
  <2> HIDE DEF train, test, queries
  <2>2. /\ DOMAIN tool' = Tools /\ \A u \in Tools \ {"preprocess"} : tool'[u] = tool[u]
        /\ DOMAIN tool'["preprocess"] = Fields
        /\ tool'["preprocess"].open = tool["preprocess"].open
        /\ tool'["preprocess"].lang = tool["preprocess"].lang
        /\ tool'["preprocess"].pc = "stats"
        /\ tool'["preprocess"].out = <<Write("preprocess", <<"train", l>>, train),
                                       Write("preprocess", <<"test", l>>, test),
                                       Write("preprocess", <<"queries", l>>, queries)>>
    BY <2>1, BoundedScripts
    DEF CorpusInv, Shape, ScriptOK, Fields, TrainFile, TestFile, QueriesFile
  <2>3. l \in Langs /\ l \in ToMake /\ ToMake' = ToMake \ {l}
    BY <1>1, <2>2, ToMakeOne
  <2>4. CleanSplit(l, train, test, queries)
    <3>1. Raw(l) \in FileNames /\ Raw(l)[1] = "raw"
      BY <2>3 DEF Raw, FileNames
    <3>2. files[Raw(l)].rows \in Collected
      BY <3>1, <1>3 DEF CorpusInv, FilesOK, Contents
    <3>3. files[Raw(l)].rows \in Seq(Pages) /\ Len(files[Raw(l)].rows) <= NumArticles
      BY <3>2, CollectedArticles
    <3>4. Numbered(l, df)
      BY <2>3, <3>3, ProcessArticlesNumbers
    <3> QED BY <2>3, <3>4, SplitIsCleanHere DEF train, test, queries
  <2>5. run \in Nat
    BY BoundedScripts DEF CorpusInv, Shape, ScriptOK
  <2>6. PICK W \in Versions : Adds(W, V, l, run, train, test, queries)
    <3>1. V \in Versions /\ VersionsAreClean(V) /\ l \in Langs \cup {All}
      BY <2>3 DEF CorpusInv
    <3> HIDE DEF l, run, df
    <3> QED BY <3>1, <2>4, <2>5, NewVersions, Zenon
  <2> HIDE DEF l, df
  <2>7. Grown(V, W) /\ CorpusInv(W)'
    BY <1>1, <2>2, <2>3, <2>6, MakingStep
  <2> QED BY <2>7
<1> QED BY <1>2, <1>3

\* From one language to the next, or to the combination.
LEMMA ProcessStatsStep ==
    ASSUME NEW V, CorpusInv(V), ProcessStats
    PROVE  Grown(V, V) /\ CorpusInv(V)'
<1>1. At("preprocess", "stats") /\ UNCHANGED <<files, runs>> /\ tool["preprocess"].pc # "idle"
  BY DEF ProcessStats, At
<1>2. CASE Stop("preprocess", "KeyError")
  BY <1>1, <1>2, PreprocessStops DEF Stopped, Errors
<1>3. CASE ~Stop("preprocess", "KeyError")
  <2>1. NextLanguage("preprocess", <<"process", "combine">>)
    BY <1>3 DEF ProcessStats
  <2> DEFINE N == Len(Languages)
             now == tool["preprocess"]
             next == tool'["preprocess"]
  <2>2. /\ DOMAIN tool' = Tools /\ \A u \in Tools \ {"preprocess"} : tool'[u] = tool[u]
        /\ DOMAIN next = Fields /\ next.open = now.open /\ next.out = now.out
        /\ next.lang \in 1 .. N
        /\ \/ next.pc = "process" /\ next.lang = now.lang + 1
           \/ next.pc = "combine" /\ now.lang = N
    BY <2>1, BoundedScripts, NextLanguageShape
  <2>3. now.pc = "stats" /\ now.out = <<>>
    BY <1>1 DEF At
  <2>4. ToMake' = ToMake
    <3>1. CASE next.pc = "process"
      <4>1. next.lang = now.lang + 1
        BY <2>2, <3>1
      <4> QED BY <2>3, <3>1, <4>1 DEF ToMake
    <3>2. CASE next.pc = "combine"
      <4>1. now.lang = N /\ N \in Nat
        BY <2>2, <3>2, LanguageNumbers
      <4>2. N + 1 .. N = {}
        BY <4>1
      <4> QED BY <2>3, <3>2, <4>1, <4>2 DEF ToMake
    <3> QED BY <2>2, <3>1, <3>2
  <2>5. Known' = Known
    BY <1>1, <2>4 DEF Known
  <2>6. Only("preprocess") /\ ScriptOK("preprocess")' /\ WritesOK(V, "preprocess")'
    <3>1. next.out = <<>> /\ next.out \in Seq(Range(next.out))
      BY <2>2, <2>3, ShortSequences
    <3> QED BY <1>1, <2>2, <3>1, BoundedScripts, ComputeShape, ShortSequences DEF WritesOK
  <2>7. Progress(V)'
    <3>1. ASSUME NEW f \in Versioned, f[2] \notin ToMake PROVE Written(f)'
      <4>1. Written(f)
        BY <2>3, <3>1, ShortSequences DEF CorpusInv, Progress, Pending
      <4> QED BY <4>1, <1>1 DEF Written, Readable
    <3> QED BY <2>2, <2>4, <3>1 DEF Progress
  <2> QED BY <1>1, <2>5, <2>6, <2>7, BoundedScripts, ScriptStep DEF CorpusInv, Grown
<1> QED BY <1>2, <1>3

\* What is combined are the versions that this run has made.
LEMMA CombinedIsTogether ==
    ASSUME NEW V, CorpusInv(V), At("preprocess", "combine"), NEW kind \in Kinds
    PROVE  Combined(kind) = Together(V, kind, runs["preprocess"])
<1>1. ToMake = {All} /\ tool["preprocess"].pc = "combine" /\ tool["preprocess"].out = <<>>
  BY DEF At, ToMake
<1>2. ASSUME NEW l \in Langs PROVE files[<<kind, l>>].rows = V[<<kind, l>>][runs["preprocess"]]
  <2>1. /\ <<kind, l>> \in Versioned /\ <<kind, l>> \in FileNames /\ <<kind, l>>[2] \notin ToMake
    BY <1>1, AllIsNoLanguage DEF Versioned, Kinds, FileNames
  <2>2. Written(<<kind, l>>)
    BY <1>1, <2>1, ShortSequences DEF CorpusInv, Progress, Pending
  <2> QED BY <2>1, <2>2 DEF Written, CorpusInv, FilesOK, Contents
<1>3. \A i \in DOMAIN Languages :
         files[<<kind, Languages[i]>>].rows = V[<<kind, Languages[i]>>][runs["preprocess"]]
  BY <1>2, LanguageNumbers
<1>4. [i \in DOMAIN Languages |-> files[<<kind, Languages[i]>>].rows] =
      [i \in DOMAIN Languages |-> V[<<kind, Languages[i]>>][runs["preprocess"]]]
  BY <1>3
<1> QED BY <1>4 DEF Combined, Together

LEMMA CombineStep ==
    ASSUME NEW V, CorpusInv(V), CombineLanguages
    PROVE  \E W : Grown(V, W) /\ CorpusInv(W)'
<1> DEFINE run == runs["preprocess"]
           train == Together(V, "train", run)
           test == Together(V, "test", run)
           queries == Together(V, "queries", run)
<1>1. At("preprocess", "combine") /\ UNCHANGED <<files, runs>> /\ tool["preprocess"].pc = "combine"
  BY DEF CombineLanguages, At
<1>2. Combined("train") = train /\ Combined("test") = test /\ Combined("queries") = queries
  BY <1>1, CombinedIsTogether DEF Kinds
<1>3. tool' = [tool EXCEPT
         !["preprocess"].pc = "finish",
         !["preprocess"].out =
            <<Write("preprocess", TrainFile(All), train),
              Write("preprocess", TestFile(All), test),
              Write("preprocess", QueriesFile(All), queries)>>]
  BY <1>2 DEF CombineLanguages
<1>4. run \in Nat
  BY BoundedScripts DEF CorpusInv, Shape, ScriptOK
<1>5. /\ CleanSplit(All, train, test, queries)
      /\ \A kind \in Kinds, l \in Langs :
            Range(V[<<kind, l>>][run]) \subseteq Range(Together(V, kind, run))
  BY <1>4, TogetherIsClean DEF CorpusInv
<1> HIDE DEF train, test, queries
<1>6. /\ DOMAIN tool' = Tools /\ \A u \in Tools \ {"preprocess"} : tool'[u] = tool[u]
      /\ DOMAIN tool'["preprocess"] = Fields
      /\ tool'["preprocess"].open = tool["preprocess"].open
      /\ tool'["preprocess"].lang = tool["preprocess"].lang
      /\ tool'["preprocess"].pc = "finish"
      /\ tool'["preprocess"].out = <<Write("preprocess", <<"train", All>>, train),
                                     Write("preprocess", <<"test", All>>, test),
                                     Write("preprocess", <<"queries", All>>, queries)>>
  BY <1>3, BoundedScripts
  DEF CorpusInv, Shape, ScriptOK, Fields, TrainFile, TestFile, QueriesFile
<1>7. All \in ToMake /\ ToMake' = ToMake \ {All}
  BY <1>1, <1>6 DEF ToMake
<1>8. PICK W \in Versions : Adds(W, V, All, run, train, test, queries)
  BY <1>4, <1>5, NewVersions DEF CorpusInv
<1>9. \A kind \in Kinds, m \in Langs : Range(W[<<kind, m>>][run]) \subseteq Range(W[<<kind, All>>][run])
  <2>1. ASSUME NEW kind \in Kinds, NEW m \in Langs
        PROVE  /\ W[<<kind, m>>][run] = V[<<kind, m>>][run]
               /\ W[<<kind, All>>][run] = Together(V, kind, run)
    <3>1. m # All
      BY AllIsNoLanguage
    <3>2. kind = "train" \/ kind = "test" \/ kind = "queries"
      BY DEF Kinds
    <3> QED BY <3>1, <3>2, <1>4, <1>8 DEF Adds, train, test, queries
  <2> QED BY <2>1, <1>5
<1>10. Grown(V, W) /\ CorpusInv(W)'
  BY <1>1, <1>6, <1>7, <1>8, <1>9, MakingStep
<1> QED BY <1>10

LEMMA PreprocessStep ==
    ASSUME NEW V, CorpusInv(V), process_all_languages
    PROVE  \E W : Grown(V, W) /\ CorpusInv(W)'
<1>1. CASE FinishPreprocess
  <2>1. Grown(V, V) /\ CorpusInv(V)'
    BY <1>1, PreprocessStops DEF FinishPreprocess, At
  <2> QED BY <2>1
<1> QED BY <1>1, PreprocessStarts, ProcessLanguageStep, ProcessStatsStep, CombineStep
        DEF process_all_languages

-----------------------------------------------------------------------------
(* The invariant, and what follows from it.                                *)

LEMMA InitialCorpus ==
    ASSUME CorpusInit
    PROVE  \E V : CorpusInv(V)
<1> DEFINE V == [f \in Versioned |-> [n \in Nat |-> <<>>]]
<1>1. V \in Versions
  BY DEF Versions
<1>2. VersionsAreClean(V)
  <2>1. ASSUME NEW l \in Langs \cup {All}, NEW n \in Nat
        PROVE  CleanSplit(l, V[TrainFile(l)][n], V[TestFile(l)][n], V[QueriesFile(l)][n])
    <3>1. V[TrainFile(l)][n] = <<>> /\ V[TestFile(l)][n] = <<>> /\ V[QueriesFile(l)][n] = <<>>
      BY DEF Versioned, Kinds, TrainFile, TestFile, QueriesFile
    <3>2. /\ <<>> \in Seq(Document) /\ <<>> \in Seq(Langs \X Nat) /\ Range(<<>>) = {}
          /\ IsInjective(<<>>)
      BY DEF Range, IsInjective
    <3> QED BY <3>1, <3>2 DEF CleanSplit
  <2> QED BY <2>1 DEF VersionsAreClean
<1> HIDE DEF V
<1>3. Shape
  <2>1. ASSUME NEW t \in Tools PROVE ScriptOK(t)
    <3>1. tool[t] = Blank /\ runs[t] = 0 /\ MaxRuns[t] \in Nat
      BY BoundedScripts DEF CorpusInit
    <3>2. /\ DOMAIN tool[t] = Fields /\ tool[t].open = FALSE /\ tool[t].out = <<>>
          /\ tool[t].lang \in 1 .. Len(Languages) /\ tool[t].pc = "idle"
      BY <3>1, BlankMemory
    <3>3. runs[t] \in 0 .. MaxRuns[t]
      BY <3>1
    <3> QED BY <3>2, <3>3, ShortSequences DEF ScriptOK
  <2> QED BY <2>1 DEF Shape, CorpusInit
<1>4. FilesOK(V)
  BY DEF FilesOK, CorpusInit, Readable
<1>5. \A t \in Tools : WritesOK(V, t)
  BY BlankMemory, ShortSequences DEF WritesOK, CorpusInit
<1>6. Progress(V)
  BY BoundedScripts DEF Progress, CorpusInit, Blank
<1>7. CorpusInv(V)
  BY <1>1, <1>2, <1>3, <1>4, <1>5, <1>6 DEF CorpusInv
<1> QED BY <1>7

\* Whatever else changes.
LEMMA NothingHappens ==
    ASSUME NEW V, CorpusInv(V), UNCHANGED corpusVars
    PROVE  Grown(V, V) /\ CorpusInv(V)'
<1>1. UNCHANGED files /\ UNCHANGED tool /\ UNCHANGED runs
  BY DEF corpusVars
<1>2. ToMake' = ToMake
  BY <1>1 DEF ToMake
<1>3. Known' = Known
  BY <1>1, <1>2 DEF Known
<1>4. Grown(V, V)
  BY <1>3 DEF Grown
<1>5. CorpusInv(V)'
  BY <1>1 DEF CorpusInv, Shape, ScriptOK, FilesOK, WritesOK, Progress, Written, Pending,
              Known, ToMake, Readable
<1> QED BY <1>4, <1>5

LEMMA CorpusStep ==
    ASSUME NEW V, CorpusInv(V), [CorpusNext]_corpusVars
    PROVE  \E W : Grown(V, W) /\ CorpusInv(W)'
<1>1. CASE collect_all_languages
  BY <1>1, CollectStep
<1>2. CASE process_all_languages
  BY <1>2, PreprocessStep
<1>3. CASE \E t \in {"collect", "preprocess"} : OpenFile(t) \/ CloseFile(t) \/ Interrupt(t)
  <2>1. PICK t \in Tools : OpenFile(t) \/ CloseFile(t) \/ Interrupt(t)
    BY <1>3, BoundedScripts
  <2> QED BY <2>1, OpenFileStep, CloseFileStep, InterruptStep
<1> QED BY <1>1, <1>2, <1>3, NothingHappens DEF CorpusNext

-----------------------------------------------------------------------------
(* Why a file is torn, and what a collection has by now collected.         *)

TornOK ==
    \A f \in CorpusFiles : files[f] = Torn => Writing(Writer(f), f) \/ CutShort(Writer(f))

\* The file of a language is of this run of data_collection.py, and not empty.
Fresh(l) == /\ Readable(Raw(l)) /\ files[Raw(l)].run = runs["collect"]
            /\ files[Raw(l)].rows # <<>>

\* The languages before this one are fresh; this one's articles are in hand to write, or
\* written.
CollectionOK ==
    LET now == tool["collect"]
        w == Write("collect", Raw(Language("collect")), now.docs)
    IN  /\ now.pc \in {"collect", "stats"} \cup Stopped
        /\ now.pc \in {"collect", "stats"} => \A i \in 1 .. now.lang - 1 : Fresh(Languages[i])
        /\ now.pc = "collect" => now.out = <<>>
        /\ now.pc = "stats" =>
              /\ now.docs \in Collected
              /\ \/ now.out = <<w>>
                 \/ now.out = <<>> /\ files[Raw(Language("collect"))] = w.data
        /\ now.pc = "done" => \A l \in Langs : Fresh(l)

LEMMA CorpusFileNames ==
    /\ CorpusFiles' = CorpusFiles /\ CorpusFiles \subseteq FileNames
    /\ \A f \in CorpusFiles : /\ Writer(f) = Owner(f) /\ Writer(f) \in Tools
                              /\ Writer(f) \in {"collect", "preprocess"}
                              /\ f[1] = "raw" \/ f \in Versioned
    /\ \A l \in Langs : Raw(l) \in CorpusFiles /\ Raw(l) \in FileNames /\ Owner(Raw(l)) = "collect"
    /\ \A l, m : Raw(l) = Raw(m) => l = m
<1>1. CorpusFiles' = CorpusFiles /\ CorpusFiles \subseteq FileNames
  BY DEF CorpusFiles, FileNames, ResultFiles, Embeddings, Report
<1>2. ASSUME NEW f \in CorpusFiles
      PROVE  /\ Writer(f) = Owner(f) /\ Writer(f) \in Tools
             /\ Writer(f) \in {"collect", "preprocess"}
             /\ f[1] = "raw" \/ f \in Versioned
  <2>1. f[1] \in {"raw", "train", "test", "queries"} /\ f \in FileNames
    BY DEF CorpusFiles
  <2>2. Writer(f) = Owner(f) /\ Writer(f) \in {"collect", "preprocess"}
    BY <2>1 DEF Writer, Owner, Kinds
  <2>3. f[1] # "raw" => f \in Versioned
    BY <2>1 DEF FileNames, ResultFiles, Embeddings, Report, Versioned, Kinds
  <2> QED BY <2>2, <2>3, BoundedScripts
<1>3. ASSUME NEW l \in Langs
      PROVE  Raw(l) \in CorpusFiles /\ Raw(l) \in FileNames /\ Owner(Raw(l)) = "collect"
  <2>1. Raw(l) = <<"raw", l>> /\ Raw(l)[1] = "raw"
    BY DEF Raw
  <2>2. Raw(l) \in FileNames
    BY <2>1 DEF FileNames
  <2>3. Raw(l) \in CorpusFiles
    BY <2>1, <2>2 DEF CorpusFiles
  <2>4. Owner(Raw(l)) = "collect"
    BY <2>1 DEF Owner, Kinds
  <2> QED BY <2>2, <2>3, <2>4
<1>4. \A l, m : Raw(l) = Raw(m) => l = m
  BY DEF Raw
<1> QED BY <1>1, <1>2, <1>3, <1>4

LEMMA LanguageInHand ==
    ASSUME NEW V, CorpusInv(V)
    PROVE  /\ tool["collect"].lang \in 1 .. Len(Languages)
           /\ Language("collect") = Languages[tool["collect"].lang]
           /\ Language("collect") \in Langs /\ runs["collect"] \in Nat
           /\ \A i \in 1 .. tool["collect"].lang - 1 :
                 Languages[i] \in Langs /\ Languages[i] # Language("collect")
<1>1. tool["collect"].lang \in 1 .. Len(Languages) /\ runs["collect"] \in Nat
  BY BoundedScripts DEF CorpusInv, Shape, ScriptOK
<1> QED BY <1>1, LanguageNumbers DEF Language

\* A script moves with no file open.
LEMMA MovingTearsNothing ==
    ASSUME TornOK, NEW t \in Tools, tool[t].open = FALSE, UNCHANGED files,
           \A u \in Tools \ {t} : tool'[u] = tool[u] /\ runs'[u] = runs[u],
           CutShort(t) => CutShort(t)'
    PROVE  TornOK'
<1> SUFFICES ASSUME NEW f \in CorpusFiles, files[f] = Torn
             PROVE  Writing(Writer(f), f)' \/ CutShort(Writer(f))'
  BY CorpusFileNames DEF TornOK
<1>1. Writer(f) \in Tools /\ (Writing(Writer(f), f) \/ CutShort(Writer(f)))
  BY CorpusFileNames DEF TornOK
<1>2. CASE Writer(f) = t
  BY <1>1, <1>2 DEF Writing
<1>3. CASE Writer(f) # t
  BY <1>1, <1>3 DEF Writing, CutShort
<1> QED BY <1>2, <1>3

\* The collection is as it was: nothing of its files or of its memory changes.
LEMMA CollectionStays ==
    ASSUME NEW V, CorpusInv(V), CollectionOK, tool'["collect"] = tool["collect"],
           runs'["collect"] = runs["collect"],
           \A l \in Langs : files'[Raw(l)] = files[Raw(l)]
    PROVE  CollectionOK'
<1>1. Language("collect")' = Language("collect") /\ Language("collect") \in Langs
  BY LanguageInHand DEF Language
<1>2. \A l \in Langs : Fresh(l)' <=> Fresh(l)
  BY DEF Fresh, Readable, Raw
<1>3. \A i \in 1 .. tool["collect"].lang - 1 : Languages[i] \in Langs
  BY LanguageInHand
<1>4. files'[Raw(Language("collect"))] = files[Raw(Language("collect"))]
  BY <1>1
<1>5. \A f, content : Write("collect", f, content)' = Write("collect", f, content)
  BY DEF Write
<1> QED BY <1>1, <1>2, <1>3, <1>4, <1>5 DEF CollectionOK, Raw

LEMMA OpeningTears ==
    ASSUME NEW V, CorpusInv(V), TornOK, CollectionOK, NEW t \in Tools, OpenFile(t)
    PROVE  TornOK' /\ CollectionOK'
<1> DEFINE f == Head(tool[t].out).file
<1>1. /\ tool[t].out # <<>> /\ ~tool[t].open /\ UNCHANGED runs
      /\ files' = [files EXCEPT ![f] = Torn] /\ tool' = [tool EXCEPT ![t].open = TRUE]
  BY DEF OpenFile
<1>2. /\ tool'[t].open = TRUE /\ tool'[t].out = tool[t].out /\ tool'[t].pc = tool[t].pc
      /\ tool'[t].lang = tool[t].lang /\ tool'[t].docs = tool[t].docs
      /\ \A u \in Tools \ {t} : tool'[u] = tool[u]
  BY <1>1 DEF CorpusInv, Shape, ScriptOK, Fields
<1>3. f \in FileNames /\ Owner(f) = t
  BY <1>1, NextWrite DEF WriteOK
<1>4. \A g \in FileNames \ {f} : files'[g] = files[g]
  BY <1>1, <1>3 DEF CorpusInv, Shape
<1>5. TornOK'
  <2> SUFFICES ASSUME NEW g \in CorpusFiles, files'[g] = Torn
               PROVE  Writing(Writer(g), g)' \/ CutShort(Writer(g))'
    BY CorpusFileNames DEF TornOK
  <2>1. CASE g = f
    <3>1. Writer(g) = t
      BY <2>1, <1>3, CorpusFileNames
    <3> QED BY <3>1, <2>1, <1>2 DEF Writing
  <2>2. CASE g # f
    <3>1. files[g] = Torn /\ Writer(g) \in Tools
      BY <2>2, <1>4, CorpusFileNames
    <3>2. Writing(Writer(g), g) \/ CutShort(Writer(g))
      BY <3>1 DEF TornOK
    <3>3. CASE Writer(g) = t
      BY <3>2, <3>3, <1>1, <1>2 DEF Writing, CutShort
    <3>4. CASE Writer(g) # t
      BY <3>1, <3>2, <3>4, <1>1, <1>2 DEF Writing, CutShort
    <3> QED BY <3>3, <3>4
  <2> QED BY <2>1, <2>2
<1>6. CollectionOK'
  <2>1. CASE t # "collect"
    <3>1. \A l \in Langs : Raw(l) \in FileNames /\ Raw(l) # f
      BY <2>1, <1>3, CorpusFileNames
    <3> QED BY <2>1, <3>1, <1>1, <1>2, <1>4, BoundedScripts, CollectionStays
  <2>2. CASE t = "collect"
    <3>1. tool["collect"].pc = "stats"
      <4>1. tool["collect"].pc \notin Stopped
        BY <2>2, <1>1 DEF CorpusInv, Shape, ScriptOK
      <4> QED BY <4>1, <2>2, <1>1 DEF CollectionOK
    <3> DEFINE w == Write("collect", Raw(Language("collect")), tool["collect"].docs)
    <3>2. tool["collect"].out = <<w>> /\ tool["collect"].docs \in Collected
      BY <3>1, <2>2, <1>1 DEF CollectionOK
    <3>3. f = Raw(Language("collect"))
      BY <3>2, <2>2 DEF Write
    <3> HIDE DEF f
    <3>4. \A i \in 1 .. tool["collect"].lang - 1 : Fresh(Languages[i])'
      <4> SUFFICES ASSUME NEW i \in 1 .. tool["collect"].lang - 1 PROVE Fresh(Languages[i])'
        OBVIOUS
      <4>1. Raw(Languages[i]) \in FileNames \ {f}
        BY <3>3, CorpusFileNames, LanguageInHand
      <4>2. Fresh(Languages[i])
        BY <3>1 DEF CollectionOK
      <4> QED BY <4>1, <4>2, <1>1, <1>4 DEF Fresh, Readable, Raw
    <3>5. w' = w
      BY <2>2, <1>1, <1>2 DEF Write, Language, Raw
    <3> HIDE DEF w
    <3>6. /\ tool'["collect"].pc = "stats" /\ tool'["collect"].docs \in Collected
          /\ tool'["collect"].out = <<w>> /\ tool'["collect"].lang = tool["collect"].lang
      BY <2>2, <3>1, <3>2, <1>2
    <3>7. Collected' = Collected /\ Stopped' = Stopped
      BY DEF Collected, Stopped, Errors
    <3> QED BY <3>4, <3>5, <3>6, <3>7 DEF CollectionOK, w
  <2> QED BY <2>1, <2>2
<1> QED BY <1>5, <1>6

LEMMA ClosingMends ==
    ASSUME NEW V, CorpusInv(V), TornOK, CollectionOK, NEW t \in Tools, CloseFile(t)
    PROVE  TornOK' /\ CollectionOK'
<1> DEFINE out == tool[t].out
           f == Head(out).file
           data == Head(out).data
<1>1. /\ tool[t].open = TRUE /\ out # <<>> /\ UNCHANGED runs
      /\ files' = [files EXCEPT ![f] = data]
      /\ tool' = [tool EXCEPT ![t].open = FALSE, ![t].out = Tail(@)]
  BY DEF CloseFile, CorpusInv, Shape, ScriptOK
<1>2. /\ tool'[t].open = FALSE /\ tool'[t].out = Tail(out) /\ tool'[t].pc = tool[t].pc
      /\ tool'[t].lang = tool[t].lang /\ tool'[t].docs = tool[t].docs
      /\ \A u \in Tools \ {t} : tool'[u] = tool[u]
  BY <1>1 DEF CorpusInv, Shape, ScriptOK, Fields
<1>3. /\ f \in FileNames /\ Owner(f) = t /\ Contents(V, Known, f, data)
      /\ data = [run |-> runs[t], rows |-> data.rows]
  BY <1>1, NextWrite DEF WriteOK
<1>4. files'[f] = data /\ \A g \in FileNames \ {f} : files'[g] = files[g]
  BY <1>1, <1>3 DEF CorpusInv, Shape
<1> HIDE DEF f, data
<1>5. f \in CorpusFiles => data \notin {Absent, Torn}
  <2> SUFFICES ASSUME f \in CorpusFiles PROVE data \notin {Absent, Torn}
    OBVIOUS
  <2>1. f[1] = "raw" \/ f \in Versioned
    BY CorpusFileNames
  <2>2. runs[t] \in Nat /\ VersionsAreClean(V)
    BY BoundedScripts DEF CorpusInv, Shape, ScriptOK
  <2>3. \A l \in Langs \cup {All} : Known[l] \subseteq Nat
    BY BoundedScripts DEF Known, CorpusInv, Shape, ScriptOK
  <2> QED BY <2>1, <2>2, <2>3, <1>3, ContentsAreReadable
<1>6. TornOK'
  <2> SUFFICES ASSUME NEW g \in CorpusFiles, files'[g] = Torn
               PROVE  Writing(Writer(g), g)' \/ CutShort(Writer(g))'
    BY CorpusFileNames DEF TornOK
  <2>1. g # f
    BY <1>4, <1>5
  <2>2. files[g] = Torn /\ Writer(g) \in Tools
    BY <2>1, <1>4, CorpusFileNames
  <2>3. Writing(Writer(g), g) \/ CutShort(Writer(g))
    BY <2>2 DEF TornOK
  <2>4. CASE Writer(g) = t
    <3>1. ~Writing(t, g)
      BY <2>1 DEF Writing, f
    <3> QED BY <3>1, <2>3, <2>4, <1>1, <1>2 DEF CutShort
  <2>5. CASE Writer(g) # t
    BY <2>2, <2>3, <2>5, <1>1, <1>2 DEF Writing, CutShort
  <2> QED BY <2>4, <2>5
<1>7. CollectionOK'
  <2>1. CASE t # "collect"
    <3>1. \A l \in Langs : Raw(l) \in FileNames /\ Raw(l) # f
      BY <2>1, <1>3, CorpusFileNames
    <3> QED BY <2>1, <3>1, <1>1, <1>2, <1>4, BoundedScripts, CollectionStays
  <2>2. CASE t = "collect"
    <3>1. tool["collect"].pc = "stats"
      <4>1. tool["collect"].pc \notin Stopped
        BY <2>2, <1>1 DEF CorpusInv, Shape, ScriptOK
      <4> QED BY <4>1, <2>2, <1>1 DEF CollectionOK
    <3> DEFINE w == Write("collect", Raw(Language("collect")), tool["collect"].docs)
    <3>2. tool["collect"].out = <<w>> /\ tool["collect"].docs \in Collected
      BY <3>1, <2>2, <1>1 DEF CollectionOK
    <3>3. f = Raw(Language("collect")) /\ data = w.data
      BY <3>2, <2>2 DEF Write, f, data
    <3>4. \A i \in 1 .. tool["collect"].lang - 1 : Fresh(Languages[i])'
      <4> SUFFICES ASSUME NEW i \in 1 .. tool["collect"].lang - 1 PROVE Fresh(Languages[i])'
        OBVIOUS
      <4>1. Raw(Languages[i]) \in FileNames \ {f}
        BY <3>3, CorpusFileNames, LanguageInHand
      <4>2. Fresh(Languages[i])
        BY <3>1 DEF CollectionOK
      <4> QED BY <4>1, <4>2, <1>1, <1>4 DEF Fresh, Readable, Raw
    <3>5. w' = w /\ files'[Raw(Language("collect"))'] = w.data
      <4>1. Language("collect")' = Language("collect")
        BY <2>2, <1>2 DEF Language
      <4>2. w' = w
        BY <4>1, <2>2, <1>1, <1>2 DEF Write, Raw
      <4> HIDE DEF w
      <4> QED BY <4>1, <4>2, <3>3, <1>4 DEF Raw
    <3> HIDE DEF w
    <3>6. /\ tool'["collect"].pc = "stats" /\ tool'["collect"].docs \in Collected
          /\ tool'["collect"].lang = tool["collect"].lang
      BY <2>2, <3>1, <3>2, <1>2
    <3>7. tool'["collect"].out = <<>>
      <4>1. \A u : Tail(<<u>>) = <<>>
        OBVIOUS
      <4> QED BY <4>1, <3>2, <2>2, <1>2, Zenon
    <3>8. Collected' = Collected /\ Stopped' = Stopped
      BY DEF Collected, Stopped, Errors
    <3> QED BY <3>4, <3>5, <3>6, <3>7, <3>8 DEF CollectionOK, w
  <2> QED BY <2>1, <2>2
<1> QED BY <1>6, <1>7

LEMMA InterruptingExcuses ==
    ASSUME NEW V, CorpusInv(V), TornOK, CollectionOK, NEW t \in Tools, Interrupt(t)
    PROVE  TornOK' /\ CollectionOK'
<1>1. /\ Stop(t, "interrupted") /\ UNCHANGED <<files, runs>> /\ tool[t].pc # "idle"
      /\ t \in Interruptible
  BY DEF Interrupt, Stopped
<1>2. /\ tool'[t].pc = "interrupted" /\ \A u \in Tools \ {t} : tool'[u] = tool[u]
  BY <1>1, StopShape DEF Only
<1>3. TornOK'
  <2> SUFFICES ASSUME NEW f \in CorpusFiles, files[f] = Torn
               PROVE  Writing(Writer(f), f)' \/ CutShort(Writer(f))'
    BY <1>1, CorpusFileNames DEF TornOK
  <2>1. Writer(f) \in Tools /\ (Writing(Writer(f), f) \/ CutShort(Writer(f)))
    BY CorpusFileNames DEF TornOK
  <2>2. CASE Writer(f) = t
    BY <2>2, <1>1, <1>2 DEF CutShort
  <2>3. CASE Writer(f) # t
    BY <2>1, <2>3, <1>1, <1>2 DEF Writing, CutShort
  <2> QED BY <2>2, <2>3
<1>4. CollectionOK'
  <2>1. CASE t # "collect"
    BY <2>1, <1>1, <1>2, BoundedScripts, CollectionStays DEF Raw
  <2>2. CASE t = "collect"
    <3>1. tool'["collect"].pc = "interrupted"
      BY <2>2, <1>2
    <3> QED BY <3>1 DEF CollectionOK, Stopped
  <2> QED BY <2>1, <2>2
<1> QED BY <1>3, <1>4

\* A step of a script that is neither of these two.
LEMMA OthersLeaveThem ==
    ASSUME NEW V, CorpusInv(V), TornOK, CollectionOK, UNCHANGED files,
           \A u \in {"collect", "preprocess"} : tool'[u] = tool[u] /\ runs'[u] = runs[u]
    PROVE  TornOK' /\ CollectionOK'
<1>1. TornOK'
  <2> SUFFICES ASSUME NEW f \in CorpusFiles, files[f] = Torn
               PROVE  Writing(Writer(f), f)' \/ CutShort(Writer(f))'
    BY CorpusFileNames DEF TornOK
  <2>1. /\ Writer(f) \in {"collect", "preprocess"}
        /\ Writing(Writer(f), f) \/ CutShort(Writer(f))
    BY CorpusFileNames DEF TornOK
  <2> QED BY <2>1 DEF Writing, CutShort
<1> QED BY <1>1, CollectionStays DEF Raw

LEMMA CollectMovesAlone ==
    ASSUME NEW V, CorpusInv(V), collect_all_languages
    PROVE  /\ \A u \in Tools \ {"collect"} : tool'[u] = tool[u] /\ runs'[u] = runs[u]
           /\ UNCHANGED files
  BY BoundedScripts DEF CorpusInv, Shape, collect_all_languages, StartCollect, CollectArticles,
                  CollectStats, Start, Stop, NextLanguage

LEMMA PreprocessMovesAlone ==
    ASSUME NEW V, CorpusInv(V), process_all_languages
    PROVE  /\ \A u \in Tools \ {"preprocess"} : tool'[u] = tool[u] /\ runs'[u] = runs[u]
           /\ UNCHANGED files
<1>1. CASE StartPreprocess \/ ProcessStats \/ FinishPreprocess
  BY <1>1, BoundedScripts DEF CorpusInv, Shape, StartPreprocess, ProcessStats, FinishPreprocess,
                        Start, Stop, NextLanguage
<1>2. CASE ProcessLanguage
  BY <1>2, BoundedScripts DEF CorpusInv, Shape, ProcessLanguage, Stop
<1>3. CASE CombineLanguages
  BY <1>3, BoundedScripts DEF CorpusInv, Shape, CombineLanguages
<1> QED BY <1>1, <1>2, <1>3 DEF process_all_languages

\* A script that starts, or is somewhere with nothing left to write, has no file open; and
\* what was cut short stays so.
LEMMA StartHasNothingOpen ==
    ASSUME NEW V, CorpusInv(V), NEW t \in Tools, NEW memory, Start(t, memory)
    PROVE  tool[t].open = FALSE /\ (CutShort(t) => CutShort(t)')
<1>1. ScriptOK(t) /\ DOMAIN runs = Tools /\ tool[t].pc \in Stopped /\ runs'[t] = runs[t] + 1
  BY DEF CorpusInv, Shape, Start
<1>2. tool[t].open = FALSE /\ runs[t] \in Nat
  BY <1>1, BoundedScripts DEF ScriptOK
<1>3. CutShort(t) => runs[t] >= 1
  BY <1>1, <1>2 DEF CutShort, ScriptOK
<1> QED BY <1>1, <1>2, <1>3 DEF CutShort

LEMMA AtHasNothingOpen ==
    ASSUME NEW V, CorpusInv(V), NEW t \in Tools, NEW pc, At(t, pc), pc \notin Stopped, UNCHANGED runs
    PROVE  tool[t].open = FALSE /\ (CutShort(t) => CutShort(t)')
  BY DEF CorpusInv, Shape, ScriptOK, At, CutShort, Stopped

LEMMA PreprocessLeavesThem ==
    ASSUME NEW V, CorpusInv(V), TornOK, CollectionOK, process_all_languages
    PROVE  TornOK' /\ CollectionOK'
<1>0. "preprocess" \in Tools /\ "collect" \in Tools /\ "collect" # "preprocess"
  BY BoundedScripts
<1>1. /\ \A u \in Tools \ {"preprocess"} : tool'[u] = tool[u] /\ runs'[u] = runs[u]
      /\ UNCHANGED files
  BY PreprocessMovesAlone
<1>2. /\ tool["preprocess"].open = FALSE
      /\ CutShort("preprocess") => CutShort("preprocess")'
  <2>1. CASE StartPreprocess
    BY <2>1, <1>0, StartHasNothingOpen DEF StartPreprocess
  <2>2. CASE ProcessLanguage \/ ProcessStats \/ CombineLanguages \/ FinishPreprocess
    <3>1. /\ \E pc \in {"process", "stats", "combine", "finish"} : At("preprocess", pc)
          /\ UNCHANGED runs
      BY <2>2 DEF ProcessLanguage, ProcessStats, CombineLanguages, FinishPreprocess
    <3>2. \A pc \in {"process", "stats", "combine", "finish"} : pc \notin Stopped
      BY DEF Stopped, Errors
    <3> QED BY <3>1, <3>2, <1>0, AtHasNothingOpen
  <2> QED BY <2>1, <2>2 DEF process_all_languages
<1>3. TornOK'
  BY <1>0, <1>1, <1>2, MovingTearsNothing
<1>4. CollectionOK'
  BY <1>0, <1>1, CollectionStays DEF Raw
<1> QED BY <1>3, <1>4

LEMMA CollectGoesOn ==
    ASSUME NEW V, CorpusInv(V), TornOK, CollectionOK, collect_all_languages
    PROVE  TornOK' /\ CollectionOK'
<1>0. "collect" \in Tools
  BY BoundedScripts
<1>1. /\ \A u \in Tools \ {"collect"} : tool'[u] = tool[u] /\ runs'[u] = runs[u]
      /\ UNCHANGED files
  BY CollectMovesAlone
<1>2. /\ tool["collect"].open = FALSE
      /\ CutShort("collect") => CutShort("collect")'
  <2>1. CASE StartCollect
    BY <2>1, <1>0, StartHasNothingOpen DEF StartCollect
  <2>2. CASE CollectArticles \/ CollectStats
    <3>1. /\ \E pc \in {"collect", "stats"} : At("collect", pc)
          /\ UNCHANGED runs
      BY <2>2 DEF CollectArticles, CollectStats
    <3>2. \A pc \in {"collect", "stats"} : pc \notin Stopped
      BY DEF Stopped, Errors
    <3> QED BY <3>1, <3>2, <1>0, AtHasNothingOpen
  <2> QED BY <2>1, <2>2 DEF collect_all_languages
<1>3. TornOK'
  BY <1>0, <1>1, <1>2, MovingTearsNothing
<1>4. /\ DOMAIN tool = Tools /\ DOMAIN tool["collect"] = Fields /\ Collected' = Collected
      /\ Stopped' = Stopped
  BY <1>0 DEF CorpusInv, Shape, ScriptOK, Collected, Stopped, Errors
<1>5. CASE StartCollect
  <2>1. /\ tool'["collect"].pc = "collect" /\ tool'["collect"].lang = 1
        /\ tool'["collect"].out = <<>>
    BY <1>5, <1>0, <1>4 DEF StartCollect, Start, Blank
  <2>2. 1 .. tool'["collect"].lang - 1 = {}
    BY <2>1
  <2>3. CollectionOK'
    BY <2>1, <2>2 DEF CollectionOK, Stopped, Errors
  <2> QED BY <2>3, <1>3
<1>6. CASE CollectArticles
  <2>1. PICK articles \in Collected :
          tool' = [tool EXCEPT !["collect"].pc = "stats", !["collect"].docs = articles,
                    !["collect"].out = <<Write("collect", Raw(Language("collect")), articles)>>]
    BY <1>6 DEF CollectArticles
  <2>2. At("collect", "collect") /\ UNCHANGED runs
    BY <1>6 DEF CollectArticles
  <2>3. /\ tool'["collect"].pc = "stats" /\ tool'["collect"].docs = articles
        /\ tool'["collect"].out = <<Write("collect", Raw(Language("collect")), articles)>>
        /\ tool'["collect"].lang = tool["collect"].lang
    BY <2>1, <1>0, <1>4 DEF Fields
  <2>4. \A i \in 1 .. tool["collect"].lang - 1 : Fresh(Languages[i])
    BY <2>2 DEF CollectionOK, At
  <2>5. \A l : Fresh(l)' <=> Fresh(l)
    BY <1>1, <2>2 DEF Fresh, Readable, Raw
  <2>6. Write("collect", Raw(Language("collect")), tool["collect"].docs)'
          = Write("collect", Raw(Language("collect")), articles)
    BY <2>2, <2>3 DEF Write, Language, Raw
  <2>7. CollectionOK'
    BY <2>3, <2>4, <2>5, <2>6, <1>4 DEF CollectionOK, Stopped, Errors
  <2> QED BY <2>7, <1>3
<1>7. CASE CollectStats
  <2>1. At("collect", "stats") /\ UNCHANGED runs
    BY <1>7 DEF CollectStats
  <2>2. \A l : Fresh(l)' <=> Fresh(l)
    BY <1>1, <2>1 DEF Fresh, Readable, Raw
  <2>3. CASE tool["collect"].docs = <<>> /\ Stop("collect", "ZeroDivisionError")
    <3>1. tool'["collect"].pc = "ZeroDivisionError"
      BY <2>3, <1>0, <1>4 DEF Stop, Blank
    <3>2. CollectionOK'
      BY <3>1 DEF CollectionOK, Stopped, Errors
    <3> QED BY <3>2, <1>3
  <2>4. CASE tool["collect"].docs # <<>> /\ NextLanguage("collect", <<"collect", "done">>)
    <3>1. /\ \A i \in 1 .. tool["collect"].lang - 1 : Fresh(Languages[i])
          /\ tool["collect"].docs \in Collected
          /\ files[Raw(Language("collect"))] =
                Write("collect", Raw(Language("collect")), tool["collect"].docs).data
      BY <2>1 DEF CollectionOK, At
    <3>2. Fresh(Language("collect"))
      <4> DEFINE f == Raw(Language("collect"))
      <4>1. files[f] = [run |-> runs["collect"], rows |-> tool["collect"].docs]
        BY <3>1 DEF Write
      <4>2. tool["collect"].docs \in Seq(Pages) /\ runs["collect"] \in Nat
        BY <3>1, CollectedArticles, LanguageInHand
      <4>3. files[f] \notin {Absent, Torn}
        BY <4>1, <4>2, MarksAreNoContents
      <4> QED BY <4>1, <4>3, <2>4 DEF Fresh, Readable
    <3>3. \A i \in 1 .. tool["collect"].lang : Fresh(Languages[i])
      <4>1. \A i \in 1 .. tool["collect"].lang :
               i \in 1 .. tool["collect"].lang - 1 \/ i = tool["collect"].lang
        BY LanguageInHand, LanguageNumbers
      <4> QED BY <4>1, <3>1, <3>2, LanguageInHand
    <3>4. CASE tool["collect"].lang < Len(Languages)
      <4>1. tool' = [tool EXCEPT !["collect"].lang = @ + 1, !["collect"].pc = "collect"]
        BY <2>4, <3>4 DEF NextLanguage
      <4>2. /\ tool'["collect"].pc = "collect" /\ tool'["collect"].out = <<>>
            /\ tool'["collect"].lang - 1 = tool["collect"].lang
        BY <4>1, <2>1, <1>0, <1>4, LanguageInHand, LanguageNumbers DEF Fields, At
      <4>3. CollectionOK'
        BY <4>2, <3>3, <2>2 DEF CollectionOK, Stopped, Errors
      <4> QED BY <4>3, <1>3
    <3>5. CASE ~(tool["collect"].lang < Len(Languages))
      <4>1. Stop("collect", "done")
        BY <2>4, <3>5 DEF NextLanguage
      <4>2. tool'["collect"].pc = "done"
        BY <4>1, <1>0, <1>4 DEF Stop, Blank
      <4>3. \A l \in Langs : Fresh(l)
        BY <3>3, <3>5, LanguageInHand, LanguageNumbers
      <4>4. CollectionOK'
        BY <4>2, <4>3, <2>2 DEF CollectionOK, Stopped, Errors
      <4> QED BY <4>4, <1>3
    <3> QED BY <3>4, <3>5
  <2> QED BY <1>7, <2>3, <2>4 DEF CollectStats
<1> QED BY <1>5, <1>6, <1>7 DEF collect_all_languages

LEMMA InitialFiles ==
    ASSUME CorpusInit
    PROVE  TornOK /\ CollectionOK
<1>1. tool["collect"].pc = "idle" /\ \A f \in FileNames : files[f] = Absent
  BY BoundedScripts, BlankMemory DEF CorpusInit
<1>2. Absent # Torn
  BY MarksAreNoContents
<1> QED BY <1>1, <1>2, CorpusFileNames DEF TornOK, CollectionOK, Stopped

LEMMA FilesStep ==
    ASSUME NEW V, CorpusInv(V), TornOK, CollectionOK, [CorpusNext]_corpusVars
    PROVE  TornOK' /\ CollectionOK'
<1>1. CASE collect_all_languages
  BY <1>1, CollectGoesOn
<1>2. CASE process_all_languages
  BY <1>2, PreprocessLeavesThem
<1>3. CASE \E t \in {"collect", "preprocess"} : OpenFile(t) \/ CloseFile(t) \/ Interrupt(t)
  <2>1. PICK t \in Tools : OpenFile(t) \/ CloseFile(t) \/ Interrupt(t)
    BY <1>3, BoundedScripts
  <2> QED BY <2>1, OpeningTears, ClosingMends, InterruptingExcuses
<1>4. CASE UNCHANGED corpusVars
  BY <1>4, OthersLeaveThem DEF corpusVars
<1> QED BY <1>1, <1>2, <1>3, <1>4 DEF CorpusNext

\* The inductive invariant.
VersionsExist == \E versions : CorpusInv(versions)
CorpusIInv == VersionsExist /\ TornOK /\ CollectionOK

\* Every step of the scripts keeps the files versions of one history, with a cause for
\* every torn one, and the collection complete up to its present language.
THEOREM CorpusHasVersions == CorpusSpec => []CorpusIInv
<1>1. CorpusInit => CorpusIInv
  BY InitialCorpus, InitialFiles DEF CorpusIInv, VersionsExist
<1>2. CorpusIInv /\ [CorpusNext]_corpusVars => CorpusIInv'
  BY CorpusStep, FilesStep DEF CorpusIInv, VersionsExist
<1> QED BY <1>1, <1>2, PTL DEF CorpusSpec

LEMMA CorpusInvOfFiles ==
    ASSUME NEW V, CorpusInv(V), NEW f \in Versioned, Readable(f)
    PROVE  /\ f \in FileNames /\ f = <<f[1], f[2]>> /\ f[1] \in Kinds /\ f[2] \in Langs \cup {All}
           /\ files[f].run \in Nat /\ files[f].run \in Known[f[2]]
           /\ files[f].rows = V[f][files[f].run]
<1>1. f \in FileNames /\ f = <<f[1], f[2]>> /\ f[1] \in Kinds /\ f[2] \in Langs \cup {All}
  BY DEF Versioned, Kinds, FileNames
<1>2. files[f].run \in Known[f[2]] /\ files[f].rows = V[f][files[f].run]
  BY <1>1 DEF CorpusInv, FilesOK, Contents
<1>3. Known[f[2]] \subseteq Nat
  BY <1>1, BoundedScripts DEF Known, CorpusInv, Shape, ScriptOK
<1> QED BY <1>1, <1>2, <1>3

LEMMA VersionIsClean ==
    ASSUME NEW V, CorpusInv(V), NEW l \in Langs \cup {All}, NEW n \in Nat
    PROVE  CleanSplit(l, V[<<"train", l>>][n], V[<<"test", l>>][n], V[<<"queries", l>>][n])
  BY DEF CorpusInv, VersionsAreClean, TrainFile, TestFile, QueriesFile

LEMMA InvImpliesType ==
    ASSUME NEW V, CorpusInv(V), TornOK
    PROVE  CorpusTypeOK
<1>1. ASSUME NEW f \in FileNames, f[1] \in {"raw", "train", "test", "queries"}, Readable(f)
      PROVE  /\ files[f].run \in Nat
             /\ \A i \in DOMAIN files[f].rows : files[f].rows[i] \in RowsOf(f[1])
  <2>1. CASE f[1] = "raw"
    <3>1. files[f].run \in Nat /\ files[f].rows \in Collected
      BY <1>1, <2>1 DEF CorpusInv, FilesOK, Contents
    <3>2. files[f].rows \in Seq(Pages)
      BY <3>1, CollectedArticles
    <3> QED BY <2>1, <3>1, <3>2 DEF RowsOf
  <2>2. CASE f[1] # "raw"
    <3>1. f \in Versioned
      BY <1>1, <2>2 DEF FileNames, ResultFiles, Embeddings, Report, Versioned, Kinds
    <3>2. /\ f = <<f[1], f[2]>> /\ f[1] \in Kinds /\ f[2] \in Langs \cup {All}
          /\ files[f].run \in Nat /\ files[f].rows = V[f][files[f].run]
      BY <1>1, <3>1, CorpusInvOfFiles
    <3> DEFINE l == f[2]
               n == files[f].run
    <3>3. CleanSplit(l, V[<<"train", l>>][n], V[<<"test", l>>][n], V[<<"queries", l>>][n])
      BY <3>2, VersionIsClean
    <3> HIDE DEF l, n
    <3>4. /\ V[<<"train", l>>][n] \in Seq(Document) /\ V[<<"test", l>>][n] \in Seq(Document)
          /\ V[<<"queries", l>>][n] \in Seq(Langs \X Nat)
      BY <3>3 DEF CleanSplit
    <3>5. CASE f[1] \in {"train", "test"}
      <4>1. files[f].rows \in Seq(Document)
        BY <3>2, <3>4, <3>5 DEF l, n
      <4> QED BY <4>1, <3>2, <3>5 DEF RowsOf
    <3>6. CASE f[1] = "queries"
      <4>1. files[f].rows \in Seq(Langs \X Nat)
        BY <3>2, <3>4, <3>6 DEF l, n
      <4>2. RowsOf(f[1]) = Langs \X Nat
        BY <3>6 DEF RowsOf
      <4> HIDE <3>6
      <4>3. \A A : files[f].rows \in Seq(A) => \A i \in DOMAIN files[f].rows : files[f].rows[i] \in A
        OBVIOUS
      <4> QED BY <4>1, <4>2, <4>3, <3>2
    <3> QED BY <3>2, <3>5, <3>6 DEF Kinds
  <2> QED BY <2>1, <2>2
<1>2. DOMAIN files = FileNames /\ \A t \in Tools : ScriptOK(t)
  BY DEF CorpusInv, Shape
<1>3. \A t \in Tools : /\ runs[t] \in 0 .. MaxRuns[t]
                       /\ tool[t].open => files[Head(tool[t].out).file] = Torn
                       /\ tool[t].pc \in Stopped => tool[t].out = <<>>
  BY <1>2 DEF ScriptOK
<1>4. \A f \in CorpusFiles : f \in FileNames /\ f[1] \in {"raw", "train", "test", "queries"}
  BY DEF CorpusFiles
<1> QED BY <1>1, <1>2, <1>3, <1>4 DEF CorpusTypeOK, TornOK

LEMMA InvImpliesAgreement ==
    ASSUME NEW V, CorpusInv(V)
    PROVE  CompletedRunsAgree
<1> SUFFICES ASSUME tool["preprocess"].pc = "done",
                    NEW f \in Combinations
             PROVE  /\ Readable(f) /\ files[f].run = runs["preprocess"]
                    /\ \A l \in Langs :
                         /\ SameRun(f, <<f[1], l>>)
                         /\ Range(files[<<f[1], l>>].rows) \subseteq Range(files[f].rows)
  BY DEF CompletedRunsAgree
<1>1. f = <<f[1], All>> /\ f[1] \in Kinds
  BY DEF Combinations, TrainFile, TestFile, QueriesFile, Kinds
<1>2. ToMake = {} /\ tool["preprocess"].out = <<>>
  BY BoundedScripts DEF ToMake, CorpusInv, Shape, ScriptOK, Stopped
<1>3. \A l \in Langs \cup {All} : <<f[1], l>> \in Versioned /\ Written(<<f[1], l>>)
  <2>1. \A l \in Langs \cup {All} : <<f[1], l>> \in Versioned
    BY <1>1 DEF Versioned
  <2>2. \A g \in Versioned : Written(g) \/ Pending(g)
    BY <1>2 DEF CorpusInv, Progress
  <2> QED BY <2>1, <2>2, <1>2, ShortSequences DEF Pending
<1>4. ASSUME NEW l \in Langs
      PROVE  /\ files[<<f[1], l>>].rows = V[<<f[1], l>>][runs["preprocess"]]
             /\ files[f].rows = V[<<f[1], All>>][runs["preprocess"]]
  BY <1>1, <1>3, CorpusInvOfFiles DEF Written
<1>5. \A l \in Langs : Range(V[<<f[1], l>>][runs["preprocess"]])
                          \subseteq Range(V[<<f[1], All>>][runs["preprocess"]])
  BY <1>1 DEF CorpusInv, Progress
<1>6. \A l \in Langs : Range(files[<<f[1], l>>].rows) \subseteq Range(files[f].rows)
  BY <1>4, <1>5
<1> QED BY <1>1, <1>3, <1>6 DEF Written, SameRun

\* A clean split counts: as many numbers as documents.
LEMMA SplitCounts ==
    ASSUME NEW l, NEW train, NEW test, NEW queries, CleanSplit(l, train, test, queries)
    PROVE  /\ Cardinality(Ids(train) \cup Ids(test)) = Len(train) + Len(test)
           /\ Cardinality(Ids(train)) = Len(train)
           /\ Range(queries) \subseteq Ids(test) /\ Ids(train) \cap Ids(test) = {}
<1> DEFINE s == train \o test
           number == [d \in Document |-> d.id]
           IdsOf(rows) == {number[rows[i]] : i \in 1 .. Len(rows)}
<1>1. /\ train \in Seq(Document) /\ test \in Seq(Document) /\ IsInjective(train)
      /\ IsInjective(test) /\ Range(train) \cap Range(test) = {}
      /\ \A d, e \in Range(train) \cup Range(test) : d.id = e.id => d = e
      /\ Range(queries) \subseteq {d.id : d \in Range(test)}
  BY DEF CleanSplit
<1>2. /\ s \in Seq(Document) /\ Len(s) = Len(train) + Len(test) /\ IsInjective(s)
      /\ Range(s) = Range(train) \cup Range(test)
  BY <1>1, ConcatRows
<1>3. ASSUME NEW rows \in Seq(Document)
      PROVE  /\ Ids(rows) = IdsOf(rows) /\ Ids(rows) = {d.id : d \in Range(rows)}
             /\ \A i \in 1 .. Len(rows) : rows[i] \in Range(rows) /\ number[rows[i]] = rows[i].id
  <2>1. DOMAIN rows = 1 .. Len(rows) /\ \A i \in 1 .. Len(rows) : rows[i] \in Document
    BY <1>3
  <2>2. Range(rows) = {rows[i] : i \in DOMAIN rows}
    BY DEF Range
  <2>3. \A i \in 1 .. Len(rows) : rows[i] \in Range(rows) /\ number[rows[i]] = rows[i].id
    BY <2>1, <2>2
  <2>4. Ids(rows) = {d.id : d \in Range(rows)}
    BY ONLY <2>2 DEF Ids
  <2>5. Ids(rows) = IdsOf(rows)
    <3>1. Ids(rows) = {rows[i].id : i \in 1 .. Len(rows)}
      BY ONLY <2>1 DEF Ids
    <3>2. IdsOf(rows) = {rows[i].id : i \in 1 .. Len(rows)}
      BY <2>3
    <3> QED BY <3>1, <3>2
  <2> QED BY <2>3, <2>4, <2>5
<1> HIDE DEF s, number
<1>4. ASSUME NEW rows \in Seq(Document), IsInjective(rows),
             Range(rows) \subseteq Range(train) \cup Range(test)
      PROVE  Cardinality(Ids(rows)) = Len(rows)
  <2>1. \A i, j \in 1 .. Len(rows) : number[rows[i]] = number[rows[j]] => rows[i] = rows[j]
    <3>1. \A i \in 1 .. Len(rows) : /\ rows[i] \in Range(train) \cup Range(test)
                                    /\ number[rows[i]] = rows[i].id
      BY <1>3, <1>4
    <3> QED BY <3>1, <1>1
  <2>2. DOMAIN rows = 1 .. Len(rows)
    BY <1>4
  <2>3. \A i, j \in 1 .. Len(rows) : number[rows[i]] = number[rows[j]] => i = j
    BY <2>1, <2>2, <1>4 DEF IsInjective
  <2>4. Cardinality({number[rows[i]] : i \in 1 .. Len(rows)}) = Len(rows)
    BY <2>3, CountingRows
  <2> QED BY <2>4, <1>3
<1>5. Cardinality(Ids(s)) = Len(train) + Len(test)
  BY <1>2, <1>4
<1>6. Ids(s) = Ids(train) \cup Ids(test)
  BY <1>1, <1>2, <1>3
<1>7. Cardinality(Ids(train)) = Len(train)
  BY <1>1, <1>4
<1>8. Range(queries) \subseteq Ids(test)
  BY <1>1, <1>3
<1>9. Ids(train) \cap Ids(test) = {}
  BY <1>1, <1>3
<1> QED BY <1>5, <1>6, <1>7, <1>8, <1>9

LEMMA InvImpliesSplit ==
    ASSUME NEW V, CorpusInv(V)
    PROVE  SplitIsClean
<1> DEFINE train == files[TrainFile(All)]
           test == files[TestFile(All)]
           queries == files[QueriesFile(All)]
<1>1. /\ TrainFile(All) = <<"train", All>> /\ TestFile(All) = <<"test", All>>
      /\ QueriesFile(All) = <<"queries", All>>
      /\ TrainFile(All) \in Versioned /\ TestFile(All) \in Versioned
      /\ QueriesFile(All) \in Versioned
  BY DEF TrainFile, TestFile, QueriesFile, Versioned, Kinds
<1>2. ASSUME NEW n \in Nat
      PROVE  /\ Cardinality(Ids(V[<<"train", All>>][n]) \cup Ids(V[<<"test", All>>][n]))
                    = Len(V[<<"train", All>>][n]) + Len(V[<<"test", All>>][n])
             /\ Range(V[<<"queries", All>>][n]) \subseteq Ids(V[<<"test", All>>][n])
  <2>1. CleanSplit(All, V[<<"train", All>>][n], V[<<"test", All>>][n], V[<<"queries", All>>][n])
    BY VersionIsClean
  <2> DEFINE a == V[<<"train", All>>][n]
             b == V[<<"test", All>>][n]
             c == V[<<"queries", All>>][n]
  <2>2. CleanSplit(All, a, b, c)
    BY <2>1
  <2> HIDE DEF a, b, c
  <2>3. Cardinality(Ids(a) \cup Ids(b)) = Len(a) + Len(b) /\ Range(c) \subseteq Ids(b)
    BY <2>2, SplitCounts
  <2> QED BY <2>3 DEF a, b, c
<1>3. ASSUME SameRun(TrainFile(All), TestFile(All))
      PROVE  Cardinality(Ids(train.rows) \cup Ids(test.rows)) = Len(train.rows) + Len(test.rows)
  <2>1. /\ train.rows = V[<<"train", All>>][train.run] /\ train.run \in Nat
        /\ test.rows = V[<<"test", All>>][test.run] /\ train.run = test.run
    BY <1>1, <1>3, CorpusInvOfFiles DEF SameRun
  <2> QED BY <2>1, <1>2
<1>4. ASSUME SameRun(QueriesFile(All), TestFile(All))
      PROVE  Range(queries.rows) \subseteq Ids(test.rows)
  <2>1. /\ queries.rows = V[<<"queries", All>>][queries.run] /\ queries.run \in Nat
        /\ test.rows = V[<<"test", All>>][test.run] /\ queries.run = test.run
    BY <1>1, <1>4, CorpusInvOfFiles DEF SameRun
  <2> QED BY <2>1, <1>2
<1> QED BY <1>3, <1>4 DEF SplitIsClean

\* The type invariant of the corpus files; a torn one is being written, or its script was
\* interrupted, in this run or an earlier one (process_all_languages, save_articles).
THEOREM CorpusTypeCorrect == CorpusSpec => []CorpusTypeOK
<1>1. CorpusIInv => CorpusTypeOK
  BY InvImpliesType DEF CorpusIInv, VersionsExist
<1> QED BY <1>1, CorpusHasVersions, PTL

\* A completed run of data_collection.py leaves articles of its own for every language
\* (collect_all_languages).
THEOREM CollectionsAlwaysAgree == CorpusSpec => []CompletedCollectionsAgree
<1>1. CorpusIInv => CompletedCollectionsAgree
  BY DEF CorpusIInv, CollectionOK, CompletedCollectionsAgree, Fresh
<1> QED BY <1>1, CorpusHasVersions, PTL

\* After a completed run of preprocessing.py the combined files are of that run and have
\* the rows of every language (process_all_languages).
THEOREM CompletedRunsAlwaysAgree == CorpusSpec => []CompletedRunsAgree
<1>1. CorpusIInv => CompletedRunsAgree
  BY InvImpliesAgreement DEF CorpusIInv, VersionsExist
<1> QED BY <1>1, CorpusHasVersions, PTL

\* Combined files of one run never have a document, or its number, twice, and query only
\* test documents (create_train_test_split, generate_test_queries).
THEOREM SplitIsAlwaysClean == CorpusSpec => []SplitIsClean
<1>1. CorpusIInv => SplitIsClean
  BY InvImpliesSplit DEF CorpusIInv, VersionsExist
<1> QED BY <1>1, CorpusHasVersions, PTL
=============================================================================
