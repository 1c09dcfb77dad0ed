------------------------------- MODULE Corpus -------------------------------
(***************************************************************************)
(* The offline scripts that make the corpus: data_collection.py saves the  *)
(* raw articles of each language, preprocessing.py makes documents of them, *)
(* splits them into train and test, draws queries from the test documents   *)
(* and combines the languages.  The scripts meet only in files, and an      *)
(* operator may start, interrupt or repeat any of them at any time, one run *)
(* of each at a time.                                                       *)
(*                                                                         *)
(* A script computes in memory and then writes its files in a fixed order;  *)
(* open() empties a file, so that it is torn until its write is complete,   *)
(* and stays torn if the script is interrupted; reading it then fails.  A   *)
(* script that raises ends there.  A file is stamped with the run that wrote *)
(* it, which the code does not record.                                      *)
(***************************************************************************)
EXTENDS FiniteSets, Naturals, SequencesExt

CONSTANTS
    Languages,          \* the languages, in the order the scripts take them
    Asks,               \* what --languages may be given
    Pages,              \* Wikipedia pages of 500 characters or more, per language
    Kept,               \* those of an acceptable length once cleaned
    NumArticles,        \* --articles-per-lang
    NumQueries,         \* queries drawn per language
    Order,              \* Order[n]: the permutation of 1..n that random_state 42 gives
    Tools, MaxRuns,     \* the scripts, and a bound on the runs of each
    Interruptible,      \* bound: the scripts that may be interrupted
    All,                \* stands for a language in the names of combined files
    Nothing, Absent, Torn

Langs == Range(Languages)

ASSUME LanguagesInOrder == /\ Languages \in Seq(Langs) /\ Languages # <<>>
                           /\ IsInjective(Languages)
ASSUME AllIsNoLanguage == All \notin Langs
ASSUME KeptPages == Kept \subseteq Pages
ASSUME SomeArticlesAndQueries == NumArticles \in Nat \ {0} /\ NumQueries \in Nat \ {0}
ASSUME OrderPermutes ==
    \A n \in 1..NumArticles : Order[n] \in [1..n -> 1..n] /\ IsInjective(Order[n])

ASSUME BoundedScripts == /\ {"collect", "preprocess"} \subseteq Tools
                         /\ MaxRuns \in [Tools -> Nat]

Document == [id : Langs \X Nat, page : Langs \X Pages]

ASSUME MarksAreNoContents ==
    /\ Absent # Torn
    /\ \A m \in {Absent, Torn} :
           m \notin [run : Nat, rows : Seq(Pages) \cup Seq(Document) \cup Seq(Langs \X Nat)]

VARIABLES
    files,      \* the content of each file: [run, rows], Torn or Absent
    tool,       \* what each script is doing
    runs        \* how often each has been started

corpusVars == <<files, tool, runs>>

Raw(l) == <<"raw", l>>
TrainFile(l) == <<"train", l>>
TestFile(l) == <<"test", l>>
QueriesFile(l) == <<"queries", l>>
ResultFiles == {"bm25", "translate", "dense"} \X {All}
Embeddings == <<"embeddings", All>>
Report == <<"report", All>>
FileNames == ({"raw", "train", "test", "queries"} \X (Langs \cup {All}))
             \cup ResultFiles \cup {Embeddings, Report}

Readable(f) == files[f] \notin {Absent, Torn}

\* Why a read of a file that is absent or torn fails.
ReadError(f) == IF files[f] = Absent THEN "FileNotFoundError" ELSE "ParseError"

-----------------------------------------------------------------------------
(* What every script does: start, write its files, stop.                   *)

Blank == [pc |-> "idle", lang |-> 1, asked |-> {}, docs |-> Nothing,
          vectors |-> Nothing, out |-> <<>>, open |-> FALSE]
Errors == {"FileNotFoundError", "ParseError", "ZeroDivisionError", "KeyError",
           "IndexError", "AssertionError", "UniqueViolation"}
Stopped == {"idle", "done", "interrupted"} \cup Errors

CorpusInit ==
    /\ files = [f \in FileNames |-> Absent]
    /\ tool = [t \in Tools |-> Blank]
    /\ runs = [t \in Tools |-> 0]

\* A run begins with an empty memory.
Start(t, memory) ==
    /\ tool[t].pc \in Stopped /\ runs[t] < MaxRuns[t]
    /\ tool' = [tool EXCEPT ![t] = memory]
    /\ runs' = [runs EXCEPT ![t] = @ + 1]
    /\ UNCHANGED files

\* Slip: a script goes on, and may end, before its file is closed.
AtUnclosed(t, pc) == tool[t].pc = pc

\* It has reached a place, and has nothing left to write.
At(t, pc) == tool[t].pc = pc /\ tool[t].out = <<>>

Stop(t, outcome) == tool' = [tool EXCEPT ![t] = [Blank EXCEPT !.pc = outcome]]

\* Ctrl-C, or the process is killed.
Interrupt(t) ==
    /\ t \in Interruptible /\ tool[t].pc \notin Stopped
    /\ Stop(t, "interrupted")
    /\ UNCHANGED <<files, runs>>

Write(t, f, content) == [file |-> f, data |-> [run |-> runs[t], rows |-> content]]

OpenFile(t) ==
    /\ tool[t].out # <<>> /\ ~tool[t].open
    /\ files' = [files EXCEPT ![Head(tool[t].out).file] = Torn]
    /\ tool' = [tool EXCEPT ![t].open = TRUE]
    /\ UNCHANGED runs

CloseFile(t) ==
    /\ tool[t].open
    /\ files' = [files EXCEPT ![Head(tool[t].out).file] = Head(tool[t].out).data]
    /\ tool' = [tool EXCEPT ![t].open = FALSE, ![t].out = Tail(@)]
    /\ UNCHANGED runs

Language(t) == Languages[tool[t].lang]

\* After one language the next, and after the last one whatever follows.
NextLanguage(t, after) ==
    IF tool[t].lang < Len(Languages)
    THEN tool' = [tool EXCEPT ![t].lang = @ + 1, ![t].pc = after[1]]
    ELSE IF after[2] = "done" THEN Stop(t, "done")
         ELSE tool' = [tool EXCEPT ![t].pc = after[2]]

-----------------------------------------------------------------------------
(* data_collection.py                                                      *)

\* What the search loop may come back with: whatever Wikipedia answers and however
\* often it fails, at most the target number of articles, no title twice.
Collected == {s \in SeqOf(Pages, NumArticles) : IsInjective(s)}

StartCollect ==
    \E langs \in Asks : Start("collect", [Blank EXCEPT !.pc = "collect", !.asked = langs])

\* Slip: a language of which nothing came is skipped, before it is saved.
CollectSkipping ==
    /\ At("collect", "collect")
    /\ \/ NextLanguage("collect", <<"collect", "done">>)
       \/ \E articles \in Collected \ {<<>>} :
            tool' = [tool EXCEPT !["collect"].pc = "stats", !["collect"].docs = articles,
                       !["collect"].out = <<Write("collect", Raw(Language("collect")), articles)>>]
    /\ UNCHANGED <<files, runs>>

\* One language.  Whichever were asked for, all are collected.
CollectArticles ==
    /\ At("collect", "collect")
    /\ \E articles \in Collected :
         tool' = [tool EXCEPT !["collect"].pc = "stats", !["collect"].docs = articles,
                    !["collect"].out = <<Write("collect", Raw(Language("collect")), articles)>>]
    /\ UNCHANGED <<files, runs>>

\* The average length of no articles.
CollectStats ==
    /\ At("collect", "stats")
    /\ \/ tool["collect"].docs = <<>> /\ Stop("collect", "ZeroDivisionError")
       \/ tool["collect"].docs # <<>> /\ NextLanguage("collect", <<"collect", "done">>)
    /\ UNCHANGED <<files, runs>>

collect_all_languages == StartCollect \/ CollectArticles \/ CollectStats

-----------------------------------------------------------------------------
(* preprocessing.py                                                        *)

\* Slip: the language is left out of the number.
DocIdByCount(l, n) == <<Languages[1], n>>

\* doc_id: the language, and how many documents this run made of it before.
DocId(l, n) == <<l, n>>

process_articles(l, articles) ==
    LET processed[n \in 0..Len(articles)] ==
            IF n = 0 THEN <<>>
            ELSE IF articles[n] \in Kept
                 THEN Append(processed[n - 1], [id |-> DocId(l, Len(processed[n - 1])),
                                                page |-> <<l, articles[n]>>])
                 ELSE processed[n - 1]
    IN  processed[Len(articles)]

Shuffle(rows) == [i \in DOMAIN rows |-> rows[Order[Len(rows)][i]]]

TrainSize(n) == (9 * n) \div 10

Train(df) == SubSeq(Shuffle(df), 1, TrainSize(Len(df)))

\* Slip: the test documents are left in the training set.
TestFromAll(df) == Shuffle(df)

Test(df) == SubSeq(Shuffle(df), TrainSize(Len(df)) + 1, Len(df))

\* The document each query is to find: some of the test documents.
generate_test_queries(test) ==
    LET n == IF Len(test) < NumQueries THEN Len(test) ELSE NumQueries
    IN  [i \in 1..n |-> Shuffle(test)[i].id]

StartPreprocess == Start("preprocess", [Blank EXCEPT !.pc = "process"])

\* One language: read, clean, split, draw queries, save three files.
ProcessLanguage ==
    LET l == Language("preprocess") IN
    /\ At("preprocess", "process")
    /\ \/ ~Readable(Raw(l)) /\ Stop("preprocess", ReadError(Raw(l)))
       \/ /\ Readable(Raw(l))
          /\ \E df \in {process_articles(l, files[Raw(l)].rows)} :
               tool' = [tool EXCEPT
                 !["preprocess"].pc = "stats", !["preprocess"].docs = df,
                 !["preprocess"].out =
                    <<Write("preprocess", TrainFile(l), Train(df)),
                      Write("preprocess", TestFile(l), Test(df)),
                      Write("preprocess", QueriesFile(l), generate_test_queries(Test(df)))>>]
    /\ UNCHANGED <<files, runs>>

\* The average length of a table that has no columns, when no article was kept.
ProcessStats ==
    /\ At("preprocess", "stats")
    /\ \/ tool["preprocess"].docs = <<>> /\ Stop("preprocess", "KeyError")
       \/ tool["preprocess"].docs # <<>> /\ NextLanguage("preprocess", <<"process", "combine">>)
    /\ UNCHANGED <<files, runs>>

\* The rows of one kind of file, of all languages.
Combined(kind) == FlattenSeq([i \in DOMAIN Languages |-> files[<<kind, Languages[i]>>].rows])

\* Slip: the queries are not combined.
CombineDocuments ==
    /\ At("preprocess", "combine")
    /\ tool' = [tool EXCEPT
         !["preprocess"].pc = "finish",
         !["preprocess"].out =
            <<Write("preprocess", TrainFile(All), Combined("train")),
              Write("preprocess", TestFile(All), Combined("test"))>>]
    /\ UNCHANGED <<files, runs>>

CombineLanguages ==
    /\ At("preprocess", "combine")
    /\ tool' = [tool EXCEPT
         !["preprocess"].pc = "finish",
         !["preprocess"].out =
            <<Write("preprocess", TrainFile(All), Combined("train")),
              Write("preprocess", TestFile(All), Combined("test")),
              Write("preprocess", QueriesFile(All), Combined("queries"))>>]
    /\ UNCHANGED <<files, runs>>

FinishPreprocess ==
    /\ At("preprocess", "finish") /\ Stop("preprocess", "done") /\ UNCHANGED <<files, runs>>

process_all_languages ==
    \/ StartPreprocess \/ ProcessLanguage \/ ProcessStats
    \/ CombineLanguages \/ FinishPreprocess

CorpusNext ==
    \/ collect_all_languages
    \/ process_all_languages
    \/ \E t \in {"collect", "preprocess"} : OpenFile(t) \/ CloseFile(t) \/ Interrupt(t)

CorpusSpec == CorpusInit /\ [][CorpusNext]_corpusVars

-----------------------------------------------------------------------------
(* Properties.                                                             *)

RowsOf(kind) == CASE kind = "raw"                -> Pages
                  [] kind \in {"train", "test"}  -> Document
                  [] kind = "queries"            -> Langs \X Nat

CorpusFiles == {f \in FileNames : f[1] \in {"raw", "train", "test", "queries"}}

Writer(f) == IF f[1] = "raw" THEN "collect" ELSE "preprocess"
Writing(t, f) == tool[t].open /\ Head(tool[t].out).file = f

\* This run of it was interrupted, or an earlier one may have been.
CutShort(t) == t \in Interruptible /\ (tool[t].pc = "interrupted" \/ runs[t] > 1)

\* The type invariant, and why a file is torn: its script has it open, or was interrupted,
\* now or in an earlier run (save_articles, process_all_languages).
CorpusTypeOK ==
    /\ DOMAIN files = FileNames
    /\ \A f \in CorpusFiles :
         /\ Readable(f) => /\ files[f].run \in Nat
                           /\ \A i \in DOMAIN files[f].rows : files[f].rows[i] \in RowsOf(f[1])
         /\ files[f] = Torn => Writing(Writer(f), f) \/ CutShort(Writer(f))
    /\ \A t \in Tools : /\ runs[t] \in 0..MaxRuns[t]
                        /\ tool[t].open => files[Head(tool[t].out).file] = Torn
                        /\ tool[t].pc \in Stopped => tool[t].out = <<>>

Ids(rows) == {rows[i].id : i \in DOMAIN rows}

Combinations == {TrainFile(All), TestFile(All), QueriesFile(All)}
SameRun(f, g) == Readable(f) /\ Readable(g) /\ files[f].run = files[g].run

\* Once a run of data_collection.py has completed, every language has articles, and they
\* are of that run: none is left from an earlier one (collect_all_languages).
CompletedCollectionsAgree ==
    tool["collect"].pc = "done" =>
        \A l \in Langs : /\ Readable(Raw(l)) /\ files[Raw(l)].run = runs["collect"]
                         /\ files[Raw(l)].rows # <<>>

\* Once a run of preprocessing.py has completed, the combined files are all of that
\* run and hold all of its languages, whatever runs were interrupted before it.
CompletedRunsAgree ==
    tool["preprocess"].pc = "done" =>
        \A f \in Combinations :
            /\ Readable(f) /\ files[f].run = runs["preprocess"]
            /\ \A l \in Langs : /\ SameRun(f, <<f[1], l>>)
                                /\ Range(files[<<f[1], l>>].rows) \subseteq Range(files[f].rows)

\* Combined files of one run are a clean split: no document is in two places, none has
\* the number of another, and the queries are for documents of the test set.
SplitIsClean ==
    LET train == files[TrainFile(All)]
        test == files[TestFile(All)]
    IN  /\ SameRun(TrainFile(All), TestFile(All)) =>
              Cardinality(Ids(train.rows) \cup Ids(test.rows)) = Len(train.rows) + Len(test.rows)
        /\ SameRun(QueriesFile(All), TestFile(All)) =>
              Range(files[QueriesFile(All)].rows) \subseteq Ids(test.rows)
=============================================================================
